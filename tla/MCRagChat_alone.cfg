SPECIFICATION FairRagSpec
CONSTANTS
  c1 = c1
  tenant = tenant
  endpoint = endpoint
  none = none
  None = none
  Endpoint = endpoint
  Chats <- OneChat
  Bases <- OneBase
  MaxDocs = 3
  Blocks <- MCBlocks
  Contexts <- RagContexts
  ContextOf <- SignedFor
  Requests <- MCRequests
  Messages <- MCMessages
  MaxCalls = 3
  Replay = FALSE
  Durable = TRUE
  WindowCovers = TRUE
  GuardEnabled = TRUE
  Threshold = 16
  InPrice = 1
  OutPrice = 6
  Unit = 4
  RoundedUp = {}
  DefaultLimit = 3
INVARIANTS
  ApprovalComesFirst
  CostIsReported
  AnswerFitsInLoop
  SeveralDocumentsRefused
  OverrunBounded
PROPERTIES
  ChatEnds
CHECK_DEADLOCK FALSE
