---------------------------- MODULE MCToolLoop ----------------------------
(* Small instances of ToolLoop for TLC.                                    *)
EXTENDS ToolLoop, SequencesExt

Letters == {"a", "b"}
SomeChars == Letters \cup {" ", "#"}

(* With MinLen = 2 a quotation is three characters.  Texts of three to     *)
(* five letters, with white space around one, and the two kinds that are   *)
(* skipped.                                                                *)
SomeTexts == {<<>>, <<"#", "a">>, <<"a", "b", "b">>, <<"b", "a", "a", "b">>,
              <<" ", "a", "b", "a", "b", "b">>}

(* Every argument of two or three letters, alone or next to a call that    *)
(* quotes nothing.                                                         *)
SomeAnswers == {{}} \cup
  {{{v}} : v \in {u \in BoundedSeq(Letters, 3) : Len(u) > 1}} \cup
  {{{<<"b", "b", "b">>}, {v}} : v \in {<<"a", "b", "b">>, <<"a", "b", "a">>}}
=============================================================================
