--------------------------- MODULE MCDualChannel ---------------------------
(* Small instances of DualChannel for TLC.                                 *)
EXTENDS DualChannel, TLC

CONSTANTS d1, d2, oldKey, newKey, rogueKey, t1, t2, none

TwoDocs == {d1, d2}
OneDoc == {d1}
TwoKeys == {oldKey, newKey}
RogueKeys == {rogueKey}
TwoTenants == {t1, t2}

(* What the test suite signs without /ingest: each claim wrong once, and   *)
(* another keypair with every claim right.                                 *)
Genuine(t) == [key |-> newKey, kid |-> "data-plane", issuer |-> "data-plane",
               context |-> [channel |-> "data", tenant |-> t], markers |-> FALSE]
Impostors ==
  {[Genuine(t1) EXCEPT !.key = rogueKey],
   [Genuine(t1) EXCEPT !.issuer = "other"],
   [Genuine(t2) EXCEPT !.context.channel = "control"],
   [Genuine(t2) EXCEPT !.issuer = "other", !.kid = "other"]}

DocSymmetry == Permutations(Docs)
=============================================================================
