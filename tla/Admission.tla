----------------------------- MODULE Admission -----------------------------
(***************************************************************************)
(* What two planes promise together, with no key, no signature, no clock   *)
(* and no request: a document is handed in once, by one tenant, and from   *)
(* then on documents of a tenant may be admitted for that tenant, a batch  *)
(* as a whole or not at all.                                               *)
(***************************************************************************)
CONSTANTS Docs,        \* the documents that can be handed in
          Tenants,
          None         \* not handed in

VARIABLES origin,      \* the tenant that handed a document in
          admitted     \* the tenants it has been admitted for

vars == <<origin, admitted>>

Init ==
  /\ origin = [d \in Docs |-> None]
  /\ admitted = [d \in Docs |-> {}]

(* A tenant hands a document in, once and for all. *)
HandIn(d, t) ==
  /\ origin[d] = None
  /\ origin' = [origin EXCEPT ![d] = t]
  /\ UNCHANGED admitted

(* A batch is admitted for a tenant that handed in every document of it. *)
Admit(batch, t) ==
  /\ \A d \in batch : origin[d] = t
  /\ admitted' = [d \in Docs |->
                    IF d \in batch THEN admitted[d] \cup {t} ELSE admitted[d]]
  /\ UNCHANGED origin

Next ==
  \E t \in Tenants : \/ \E d \in Docs : HandIn(d, t)
                     \/ \E batch \in SUBSET Docs : Admit(batch, t)

Spec == Init /\ [][Next]_vars
=============================================================================
