------------------------- MODULE SupportApp_proofs -------------------------
(***************************************************************************)
(* For any tickets, keys, users, tenants and roles, and anything signed    *)
(* elsewhere: an action matches the ticket it was let through with.        *)
(***************************************************************************)
EXTENDS SupportApp, TLAPS

(* A band that exists is a signed record, so its context can be read.      *)
LEMMA TicketContextTyped ==
  ASSUME NEW p \in Principals
  PROVE  TicketContext(p) \in Contexts /\ TicketContext(p).path = "support.read_only"
BY DEF TicketContext, Principals, Contexts, Paths

(* Wrapping and signing elsewhere only ever write a ticket nobody signed,  *)
(* so nothing that was let through is affected.                            *)
LEMMA MintStep ==
  ASSUME SupportInv, NEW t \in Tickets, NEW b \in Bands, band[t] = None,
         b.wrapped => b.context.path = "support.read_only",
         band' = [band EXCEPT ![t] = b], UNCHANGED <<key, expired, last>>
  PROVE  SupportInv'
<1> USE SupportAssumption DEF SupportInv, TypeOK
<1>1. TypeOK'
  OBVIOUS
<1>2. b # None
  OBVIOUS
<1>3. last # None => last.ticket \in Tickets /\ last.ticket # t
  BY DEF Allowed
<1>4. last # None => band'[last.ticket] = band[last.ticket]
  BY <1>3
<1>5. ActionMatchesTicket'
  BY <1>4 DEF ActionMatchesTicket
<1>6. last' # None => band'[last'.ticket] # None
  BY <1>4
<1>7. \A u \in Tickets :
        band'[u] # None /\ band'[u].wrapped => band'[u].context.path = "support.read_only"
  OBVIOUS
<1> QED
  BY <1>1, <1>5, <1>6, <1>7

(* The verified context is the signed one, so what authorize_action found  *)
(* of the caller's context holds of the band's.                            *)
LEMMA ActionStep ==
  ASSUME SupportInv, NEW t \in Tickets, NEW a, NEW cx \in Contexts,
         NEW p \in Principals, ToolAction(t, a, cx, p)
  PROVE  SupportInv'
<1> USE DEF SupportInv, TypeOK
<1>1. /\ band[t] # None /\ band[t].context = cx
      /\ a \in Actions
      /\ last' = [ticket |-> t, action |-> a, by |-> p]
      /\ UNCHANGED <<key, band, expired>>
  BY DEF ToolAction, Verifies, Authorized
<1>2. last' \in Allowed
  BY <1>1 DEF Allowed
<1>3. ActionMatchesTicket'
  BY <1>1 DEF ActionMatchesTicket, ToolAction, Authorized
<1> QED
  BY <1>1, <1>2, <1>3

LEMMA SupportStep == SupportInv /\ [Next]_vars => SupportInv'
<1> SUFFICES ASSUME SupportInv, [Next]_vars PROVE SupportInv'
  OBVIOUS
<1>1. CASE UNCHANGED vars
  BY <1>1 DEF vars, SupportInv, TypeOK, ActionMatchesTicket
<1>2. ASSUME NEW k \in Keys, Restart(k)
      PROVE  SupportInv'
  BY <1>2 DEF Restart, SupportInv, TypeOK, ActionMatchesTicket
<1>3. ASSUME NEW t \in Tickets, NEW p \in Principals, WrapTicket(t, p)
      PROVE  SupportInv'
  <2> DEFINE b == [key |-> key, context |-> TicketContext(p), wrapped |-> TRUE]
  <2>1. b \in Bands
    BY TicketContextTyped DEF Bands, SupportInv, TypeOK
  <2>2. b.context.path = "support.read_only"
    BY TicketContextTyped
  <2> QED
    BY <1>3, <2>1, <2>2, MintStep DEF WrapTicket
<1>4. ASSUME NEW t \in Tickets, NEW k \in Keys, NEW cx \in Elsewhere,
             SignElsewhere(t, k, cx)
      PROVE  SupportInv'
  <2> DEFINE b == [key |-> k, context |-> cx, wrapped |-> FALSE]
  <2>1. b \in Bands
    BY SupportAssumption DEF Bands
  <2> QED
    BY <1>4, <2>1, MintStep DEF SignElsewhere
<1>5. ASSUME NEW t \in Tickets, Expire(t)
      PROVE  SupportInv'
  BY <1>5 DEF Expire, SupportInv, TypeOK, ActionMatchesTicket
<1>6. ASSUME NEW t \in Tickets, NEW a \in Actions \cup {"other"},
             NEW cx \in Contexts, NEW p \in Principals, ToolAction(t, a, cx, p)
      PROVE  SupportInv'
  BY <1>6, ActionStep
<1> QED
  BY <1>1, <1>2, <1>3, <1>4, <1>5, <1>6 DEF Next

(* The inductive invariant of wrapping, verifying and authorizing.         *)
THEOREM SupportInvariant == Spec => []SupportInv
<1>1. Init => SupportInv
  BY SupportAssumption DEF Init, SupportInv, TypeOK, ActionMatchesTicket
<1>2. SupportInv /\ [Next]_vars => SupportInv'
  BY SupportStep
<1> QED
  BY <1>1, <1>2, PTL DEF Spec

(* The variables keep their types: only known actions are ever recorded.   *)
THEOREM SupportTypes == Spec => []TypeOK
<1>1. SupportInv => TypeOK
  BY DEF SupportInv
<1> QED
  BY <1>1, SupportInvariant, PTL

(* An action that was let through matches its ticket's tenant, user, path  *)
(* and a role, whatever context and principal the caller claimed.          *)
THEOREM ActionsMatchTickets == Spec => []ActionMatchesTicket
<1>1. SupportInv => ActionMatchesTicket
  BY DEF SupportInv
<1> QED
  BY <1>1, SupportInvariant, PTL

(* A ticket that /tickets/wrap signed never leads to a refund.             *)
THEOREM WrappedTicketsNeverRefund == Spec => []WrappedTicketsAreReadOnly
<1>1. SupportInv => WrappedTicketsAreReadOnly
  <2> SUFFICES ASSUME SupportInv, last # None, last.action = "refund_customer"
               PROVE  ~band[last.ticket].wrapped
    BY DEF WrappedTicketsAreReadOnly
  <2>1. last.ticket \in Tickets /\ band[last.ticket] # None
    BY DEF SupportInv, TypeOK, Allowed
  <2>2. band[last.ticket].context.path = "support.refund"
    BY DEF SupportInv, ActionMatchesTicket, PolicyPath, Actions
  <2> QED
    BY <2>1, <2>2 DEF SupportInv
<1> QED
  BY <1>1, SupportInvariant, PTL
=============================================================================
