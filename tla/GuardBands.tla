---------------------------- MODULE GuardBands ----------------------------
(***************************************************************************)
(* What the services rely on from the guardbands core library, which the   *)
(* repository installs and does not contain.  A band is an authenticated   *)
(* envelope: the library verifies it under exactly the context it was      *)
(* signed with and until the expiry stamped into it; its replay ledger     *)
(* keeps a used nonce until the end of the configured window.              *)
(*                                                                         *)
(* The sources call the library and never look at these two boundaries, so *)
(* both outcomes of each are allowed.                                      *)
(***************************************************************************)
EXTENDS Integers

CONSTANTS BandLiveAtExp,   \* does a band still verify in the second of its exp
          EntryLiveAtEnd   \* is a used nonce still known in the last second

ASSUME BoundariesAssumption ==
  /\ BandLiveAtExp \in BOOLEAN
  /\ EntryLiveAtEnd \in BOOLEAN

(* A band whose expiry is exp still verifies at time t. *)
BandLive(exp, t) == t < exp \/ (BandLiveAtExp /\ t = exp)

(* The ledger's value for a nonce it has never stored. *)
NoEntry == -1

(* A nonce stored until time end is still refused at time t; an entry that *)
(* is not live has been pruned, or is about to be.                         *)
EntryLive(end, t) == t < end \/ (EntryLiveAtEnd /\ t = end)
=============================================================================
