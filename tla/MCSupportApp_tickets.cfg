SPECIFICATION Spec
CONSTANTS
  t1 = t1
  t2 = t2
  defaultKey = defaultKey
  ownKey = ownKey
  alice = alice
  bob = bob
  acme = acme
  globex = globex
  nobody = nobody
  none = none
  None = none
  Nobody = nobody
  Tickets <- TwoTickets
  Keys <- TwoKeys
  Users <- TwoUsers
  Tenants <- TwoTenants
  RoleSets <- ClaimedRoles
  Elsewhere <- OtherContexts
SYMMETRY TicketSymmetry
INVARIANTS
  ActionMatchesTicket
  WrappedTicketsAreReadOnly
  SupportInv
