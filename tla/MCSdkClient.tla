---------------------------- MODULE MCSdkClient ----------------------------
(* Small instances of SdkClient for TLC.                                   *)
EXTENDS SdkClient, TLC

CONSTANTS c1, c2, b1, b2, here, elsewhere, endpoint, none, app

TwoChats == {c1, c2}
TwoBlocks == {b1, b2}
TwoContexts == {here, elsewhere}
OneCaller == {app}
AllByOne == [c \in Chats |-> app]
AllHere == [b \in Blocks |-> here]

(* One message with one block or two, in either context, or over the       *)
(* threshold and sent with and without approval.                           *)
Guarded ==
  [blocks : {{b1}, {b1, b2}}, dangling : {FALSE}, ctx : Contexts, over : {FALSE},
   approved : {FALSE}]
  \cup [blocks : {{b1}}, dangling : {FALSE}, ctx : {here}, over : {TRUE},
        approved : BOOLEAN]
=============================================================================
