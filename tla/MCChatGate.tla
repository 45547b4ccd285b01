---------------------------- MODULE MCChatGate ----------------------------
(* A small instance of ChatGate for TLC.                                   *)
EXTENDS ChatGate, TLC

CONSTANTS c1, b1, here, endpoint, none

OneChat == {c1}
OneBlock == {b1}
OneContext == {here}
AllHere == [b \in Blocks |-> here]

AnyMarkers == [blocks : SUBSET Blocks, dangling : BOOLEAN, ctx : Contexts,
               over : {FALSE}, approved : {FALSE}]
=============================================================================
