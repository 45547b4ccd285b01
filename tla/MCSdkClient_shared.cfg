SPECIFICATION ClientSpec
CONSTANTS
  c1 = c1
  c2 = c2
  b1 = b1
  b2 = b2
  here = here
  elsewhere = elsewhere
  endpoint = endpoint
  none = none
  app = app
  None = none
  Endpoint = endpoint
  Chats <- TwoChats
  Blocks <- TwoBlocks
  Contexts <- TwoContexts
  ContextOf <- AllHere
  Messages <- Guarded
  MaxCalls = 3
  Replay = TRUE
  Durable = TRUE
  WindowCovers = TRUE
  Callers <- OneCaller
  By <- AllByOne
INVARIANTS
  ChatInv
  AnswerIsVerified
  ClientInv
  SafeToResend
  AnsweredOnce
  VerifiedFirstIsSpent
PROPERTIES
  ImplementsSingleUse
CHECK_DEADLOCK FALSE
