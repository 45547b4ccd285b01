--------------------------- MODULE MCReplayGate ---------------------------
(* Small instances of ReplayGate for TLC.                                  *)
EXTENDS ReplayGate, TLC

CONSTANTS r1, r2, r3, w1, w2, alice, bob, aliceCtx, bobCtx, openCtx, disk,
          none

TwoRequests == {r1, r2}
ThreeRequests == {r1, r2, r3}
OneWorker == {w1}
TwoWorkers == {w1, w2}
TwoUsers == {alice, bob}
OneUser == {alice}

(* The context that names nobody, the one that names the caller, or both.  *)
OneContext == {aliceCtx}
TwoContexts == {aliceCtx, openCtx}
ThreeContexts == {aliceCtx, bobCtx, openCtx}
UserOfContext ==
  [c \in Contexts |-> CASE c = aliceCtx -> alice
                        [] c = bobCtx -> bob
                        [] OTHER -> none]

RequestSymmetry == Permutations(Requests)
=============================================================================
