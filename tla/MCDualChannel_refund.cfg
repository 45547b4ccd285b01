SPECIFICATION Spec
CONSTANTS
  d1 = d1
  d2 = d2
  oldKey = oldKey
  newKey = newKey
  rogueKey = rogueKey
  t1 = t1
  t2 = t2
  none = none
  None = none
  Docs <- OneDoc
  DataKeys <- TwoKeys
  OtherKeys <- RogueKeys
  Tenants <- TwoTenants
  Elsewhere <- Impostors
  MaxBatch = 1
INVARIANTS
  RefundNeedsDocument
