----------------------------- MODULE SingleUse -----------------------------
(***************************************************************************)
(* What a replay ledger promises, with no clock, no process and no store:  *)
(* a band is minted once, and from then on at most one holder, be it a     *)
(* request or a chat, is ever granted the use of it, for good.             *)
(***************************************************************************)
CONSTANTS Tickets,     \* the bands that can be minted
          Holders      \* who can present them: requests, chats

VARIABLES issued,      \* the tickets minted so far
          granted      \* for each ticket, the holders it was granted to

vars == <<issued, granted>>

(* Some may have been minted before. *)
Init ==
  /\ issued \in SUBSET Tickets
  /\ granted = [t \in Tickets |-> {}]

(* A ticket comes into existence, once. *)
Issue(t) ==
  /\ t \notin issued
  /\ issued' = issued \cup {t}
  /\ UNCHANGED granted

(* An issued ticket nobody holds yet is granted to one holder. *)
Grant(t, h) ==
  /\ t \in issued
  /\ granted[t] = {}
  /\ granted' = [granted EXCEPT ![t] = {h}]
  /\ UNCHANGED issued

Next == \E t \in Tickets : Issue(t) \/ \E h \in Holders : Grant(t, h)

Spec == Init /\ [][Next]_vars
=============================================================================
