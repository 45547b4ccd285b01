---------------------------- MODULE SupportApp ----------------------------
(***************************************************************************)
(* The reference support app (reference_app/support_app.py) over the       *)
(* authorization table of app/authorization.py.  A ticket is wrapped for   *)
(* the principal that hands it in; later, and by anybody, it is presented  *)
(* with an action, a context and a principal, all of them the caller's own *)
(* words.  Only what the band was signed with is not.                      *)
(*                                                                         *)
(* The app keeps nothing but its key, which it takes from its environment  *)
(* when it starts; whoever else has that key can sign bands too.           *)
(***************************************************************************)
EXTENDS FiniteSets

CONSTANTS
  Tickets,     \* the bands that can come to exist
  Keys,        \* values REFERENCE_APP_SECRET_KEY has had, the default included
  Users,
  Tenants,
  RoleSets,    \* sets of roles that are claimed in requests
  Nobody,      \* the empty user id
  Elsewhere,   \* contexts that other holders of a key sign
  None         \* a ticket nobody has signed; no action so far

Paths == {"support.read_only", "support.refund", "other"}
Roles == {"support_viewer", "support_agent", "billing_manager", "other"}

(* ACTION_POLICY_PATHS                                                     *)
Actions == {"summarize_ticket", "draft_customer_reply", "refund_customer"}
PolicyPath == [a \in Actions |->
  IF a = "refund_customer" THEN "support.refund" ELSE "support.read_only"]

(* ROLE_ACTIONS, and what a principal's roles permit together.             *)
ReadActions == {"summarize_ticket", "draft_customer_reply"}
RoleActions == [r \in Roles |->
  CASE r \in {"support_viewer", "support_agent"} -> ReadActions
    [] r = "billing_manager"                     -> Actions
    [] OTHER                                     -> {}]

Principals == [user : Users \cup {Nobody}, tenant : Tenants, roles : RoleSets]
Contexts == [user : Users \cup {Nobody}, tenant : Tenants, path : Paths]

(* A signed ticket: the key, the context and whether /tickets/wrap did it. *)
Bands == [key : Keys, context : Contexts, wrapped : BOOLEAN]

(* An action that was let through.                                         *)
Allowed == [ticket : Tickets, action : Actions, by : Principals]

ASSUME SupportAssumption ==
  /\ Nobody \notin Users
  /\ RoleSets \subseteq SUBSET Roles
  /\ Elsewhere \subseteq Contexts
  /\ None \notin Bands \cup Allowed

VARIABLES
  key,       \* the key of the running app
  band,      \* what each ticket was signed into, None before
  expired,   \* the tickets whose expiry has passed
  last       \* the last action that was let through

vars == <<key, band, expired, last>>

TypeOK ==
  /\ key \in Keys
  /\ band \in [Tickets -> Bands \cup {None}]
  /\ expired \subseteq Tickets
  /\ last \in Allowed \cup {None}

Init ==
  /\ key \in Keys
  /\ band = [t \in Tickets |-> None]
  /\ expired = {}
  /\ last = None

-----------------------------------------------------------------------------
(* The app is started again, with the same key or another.                 *)
Restart(k) ==
  /\ key' = k
  /\ UNCHANGED <<band, expired, last>>

(* Seeded fault: the ticket is bound to what the caller may do.            *)
TicketContextByRole(p) ==
  [user |-> p.user, tenant |-> p.tenant,
   path |-> IF "billing_manager" \in p.roles THEN "support.refund"
                                             ELSE "support.read_only"]
(* The context /tickets/wrap binds, whoever the principal is.              *)
TicketContext(p) ==
  [user |-> p.user, tenant |-> p.tenant, path |-> "support.read_only"]

WrapTicket(t, p) ==
  /\ band[t] = None
  /\ band' = [band EXCEPT ![t] =
       [key |-> key, context |-> TicketContext(p), wrapped |-> TRUE]]
  /\ UNCHANGED <<key, expired, last>>

(* Another holder of a key signs, for a path of its own choice.            *)
SignElsewhere(t, k, cx) ==
  /\ band[t] = None
  /\ band' = [band EXCEPT ![t] = [key |-> k, context |-> cx, wrapped |-> FALSE]]
  /\ UNCHANGED <<key, expired, last>>

Expire(t) ==
  /\ band[t] # None
  /\ t \notin expired
  /\ expired' = expired \cup {t}
  /\ UNCHANGED <<key, band, last>>

(* extract_and_verify under the context in the request's body.             *)
VerifiesAnyContext(t, cx) ==                                \* seeded fault
  band[t] # None /\ band[t].key = key /\ t \notin expired
Verifies(t, cx) ==
  /\ band[t] # None
  /\ band[t].key = key
  /\ band[t].context = cx
  /\ t \notin expired

(* authorize_action: an action without a policy path is none of Actions;   *)
(* an empty user in the context names nobody and is open to everybody.     *)
AuthorizedUnknownToo(p, a, cx) ==                           \* seeded fault
  cx.tenant = p.tenant /\ (a \in Actions => \E r \in p.roles : a \in RoleActions[r])
Authorized(p, a, cx) ==
  /\ a \in Actions
  /\ cx.tenant = p.tenant
  /\ cx.user \in {Nobody, p.user}
  /\ cx.path = PolicyPath[a]
  /\ \E r \in p.roles : a \in RoleActions[r]

(* /tool-action, when both checks pass; otherwise it is 400 or 403 and     *)
(* nothing changes.                                                        *)
ToolAction(t, a, cx, p) ==
  /\ Verifies(t, cx)
  /\ Authorized(p, a, cx)
  /\ last' = [ticket |-> t, action |-> a, by |-> p]
  /\ UNCHANGED <<key, band, expired>>

Next ==
  \/ \E k \in Keys : Restart(k)
  \/ \E t \in Tickets :
       \/ \E p \in Principals : WrapTicket(t, p)
       \/ \E k \in Keys, cx \in Elsewhere : SignElsewhere(t, k, cx)
       \/ Expire(t)
       \/ \E a \in Actions \cup {"other"}, cx \in Contexts, p \in Principals :
            ToolAction(t, a, cx, p)

Spec == Init /\ [][Next]_vars

-----------------------------------------------------------------------------
(* Whatever context and principal are claimed with a ticket: an action is  *)
(* let through only for the tenant and the user the ticket was signed for  *)
(* (or for everybody, when it was signed with an empty user), only on the  *)
(* path it was signed for, and only with a role for it.  The context that  *)
(* is compared is the caller's; the signature makes it the signed one.     *)
ActionMatchesTicket ==
  last # None =>
    LET signed == band[last.ticket].context
    IN /\ last.by.tenant = signed.tenant
       /\ signed.user # Nobody => last.by.user = signed.user
       /\ signed.path = PolicyPath[last.action]
       /\ \E r \in last.by.roles : last.action \in RoleActions[r]

(* docs/REFERENCE_APP.md: a refund is rejected because the content was not *)
(* signed for it.  No ticket that /tickets/wrap signed ever leads to a     *)
(* refund, whatever roles are claimed when it is wrapped or presented.     *)
WrappedTicketsAreReadOnly ==
  last # None /\ last.action = "refund_customer" => ~band[last.ticket].wrapped

(* The inductive invariant: what was let through rests on a band, and what *)
(* the app wraps is bound to the read-only path.                           *)
SupportInv ==
  /\ TypeOK
  /\ last # None => band[last.ticket] # None
  /\ \A t \in Tickets :
       band[t] # None /\ band[t].wrapped => band[t].context.path = "support.read_only"
  /\ ActionMatchesTicket
=============================================================================
