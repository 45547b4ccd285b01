SPECIFICATION Spec
CONSTANTS
  c1 = c1
  b1 = b1
  here = here
  endpoint = endpoint
  none = none
  None = none
  Endpoint = endpoint
  Chats <- OneChat
  Blocks <- OneBlock
  Contexts <- OneContext
  ContextOf <- AllHere
  Messages <- AnyMarkers
  MaxCalls = 5
  Replay = FALSE
  Durable = TRUE
  WindowCovers = TRUE
INVARIANTS
  IncompleteMarkersFailClosed
CHECK_DEADLOCK FALSE
