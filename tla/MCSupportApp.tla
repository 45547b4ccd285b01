--------------------------- MODULE MCSupportApp ---------------------------
(* A small instance of SupportApp for TLC.                                 *)
EXTENDS SupportApp, TLC

CONSTANTS t1, t2, defaultKey, ownKey, alice, bob, acme, globex, nobody, none

TwoTickets == {t1, t2}
TwoKeys == {defaultKey, ownKey}
TwoUsers == {alice, bob}
TwoTenants == {acme, globex}

(* Signed elsewhere: for a refund, for one user or for nobody in           *)
(* particular, and for a path the table does not know.                     *)
OtherContexts ==
  {[user |-> alice, tenant |-> acme, path |-> "support.refund"],
   [user |-> nobody, tenant |-> acme, path |-> "support.refund"],
   [user |-> bob, tenant |-> globex, path |-> "other"]}

ClaimedRoles ==
  {{}, {"other"}, {"support_viewer"}, {"billing_manager"},
   {"support_agent", "billing_manager"}}

TicketSymmetry == Permutations(Tickets)
=============================================================================
