----------------------------- MODULE ToolLoop -----------------------------
(***************************************************************************)
(* The AgentDojo pipeline that build_guard_bands_pipeline puts together in *)
(* integrations/agentdojo/guard_bands_defense.py: a first, ungated model   *)
(* call, then a loop of tools, signer, model and provenance gate.          *)
(*                                                                         *)
(* One pipeline serves conversation after conversation, and what the       *)
(* signer has recorded stays recorded.  Texts are sequences of characters, *)
(* because the gate compares fragments at fixed offsets; Blank stands for  *)
(* any white space and Mark for the start marker of a band.                *)
(***************************************************************************)
EXTENDS Naturals, Sequences, FiniteSets

CONSTANTS
  Chars,       \* the characters of texts
  Blank, Mark, \* two of them: white space, and the marker's opening
  Texts,       \* what tools return
  Answers,     \* what the model answers: sets of tool calls, each of them the
               \* set of its string arguments (no others are looked at)
  MinLen,      \* min_match_len (24 in the code)
  MaxIters,    \* iterations of AgentDojo's ToolsExecutionLoop
  MaxTalks     \* bound: conversations

ASSUME LoopAssumption ==
  /\ Blank \in Chars /\ Mark \in Chars /\ Blank # Mark
  /\ Texts \subseteq Seq(Chars) /\ <<>> \in Texts
  /\ Answers \subseteq SUBSET (SUBSET Seq(Chars))
  /\ MinLen \in Nat \ {0} /\ MaxIters \in Nat /\ MaxTalks \in Nat

VARIABLES
  talks,     \* conversations begun
  stage,     \* the element of the pipeline that runs next
  iters,     \* iterations of the loop begun
  pending,   \* the tool calls of the last assistant message
  blocked,   \* those renamed to the empty function
  history,   \* the tool messages: a text, and how often it was wrapped
  seen       \* seen_untrusted, shared by signer and gate

vars == <<talks, stage, iters, pending, blocked, history, seen>>

Stages == {"idle", "first", "tools", "signer", "model", "gate"}

TypeOK ==
  /\ talks \in 0..MaxTalks
  /\ stage \in Stages
  /\ iters \in 0..MaxIters
  /\ pending \in Answers \cup {{}}
  /\ blocked \subseteq pending
  /\ history \subseteq [text : Texts, bands : {0, 1}]
  /\ seen \subseteq Seq(Chars)

Init ==
  /\ talks = 0
  /\ stage = "idle"
  /\ iters = 0
  /\ pending = {}
  /\ blocked = {}
  /\ history = {}
  /\ seen = {}

-----------------------------------------------------------------------------
(* The characters i+1..i+n of a text, and whether a value has them in it.  *)
Piece(t, i, n) == SubSeq(t, i + 1, i + n)
Occurs(f, v) == \E i \in 0..(Len(v) - Len(f)) : Piece(v, i, Len(f)) = f

(* str.strip.                                                              *)
Solid(t) == {i \in DOMAIN t : t[i] # Blank}
Strip(t) ==
  IF Solid(t) = {} THEN <<>>
  ELSE LET first == CHOOSE i \in Solid(t) : \A j \in Solid(t) : i <= j
           last  == CHOOSE i \in Solid(t) : \A j \in Solid(t) : j <= i
       IN SubSeq(t, first, last)

(* A message that is left as it is: marker text in it, be it a band the    *)
(* signer made or the tool's own, or nothing but white space.              *)
SkippedByText(m) ==                                         \* seeded fault
  (\E i \in DOMAIN m.text : m.text[i] = Mark) \/ Solid(m.text) = {}
Skipped(m) ==
  \/ m.bands > 0
  \/ \E i \in DOMAIN m.text : m.text[i] = Mark
  \/ Solid(m.text) = {}

(* The pieces of a recorded text the gate compares: MinLen characters at   *)
(* every multiple of MinLen.                                               *)
FragmentsButLast(t) ==                                      \* seeded fault
  {Piece(t, k * MinLen, MinLen) : k \in {j \in 0..Len(t) : (j + 1) * MinLen < Len(t)}}
Fragments(t) ==
  {Piece(t, k * MinLen, MinLen) : k \in {j \in 0..Len(t) : (j + 1) * MinLen <= Len(t)}}

Guarded(v) ==
  Len(v) >= MinLen /\ \E t \in seen : \E f \in Fragments(t) : Occurs(f, v)

-----------------------------------------------------------------------------
(* A task is given to the pipeline: system message, query, no history.     *)
Begin ==
  /\ stage = "idle"
  /\ talks < MaxTalks
  /\ talks' = talks + 1
  /\ stage' = "first"
  /\ iters' = 0
  /\ pending' = {}
  /\ blocked' = {}
  /\ history' = {}
  /\ UNCHANGED seen

(* The model is asked before the loop: no gate after this call.            *)
FirstAnswer ==
  /\ stage = "first"
  /\ stage' = "tools"
  /\ pending' \in Answers
  /\ blocked' = {}
  /\ UNCHANGED <<talks, iters, history, seen>>

(* The loop goes on while the last message has calls in it.                *)
RunTools ==
  /\ stage = "tools"
  /\ pending # {} /\ iters < MaxIters
  /\ stage' = "signer"
  /\ iters' = iters + 1
  /\ \E result \in [pending -> Texts] :
       /\ \A c \in blocked : result[c] = <<>>
       /\ history' = history \cup {[text |-> result[c], bands |-> 0] : c \in pending}
  /\ UNCHANGED <<talks, pending, blocked, seen>>

Finish ==
  /\ stage = "tools"
  /\ pending = {} \/ iters = MaxIters
  /\ stage' = "idle"
  /\ UNCHANGED <<talks, iters, pending, blocked, history, seen>>

(* The signer passes over the whole history, in every iteration.           *)
SignResults ==
  /\ stage = "signer"
  /\ stage' = "model"
  /\ history' = {IF Skipped(m) THEN m ELSE [m EXCEPT !.bands = @ + 1] : m \in history}
  /\ seen' = seen \cup {Strip(m.text) : m \in {n \in history : ~Skipped(n)}}
  /\ UNCHANGED <<talks, iters, pending, blocked>>

Answer ==
  /\ stage = "model"
  /\ stage' = "gate"
  /\ pending' \in Answers
  /\ blocked' = {}
  /\ UNCHANGED <<talks, iters, history, seen>>

(* Every call with a guarded argument is renamed to the empty function.    *)
Gate ==
  /\ stage = "gate"
  /\ stage' = "tools"
  /\ blocked' = {c \in pending : \E v \in c : Guarded(v)}
  /\ UNCHANGED <<talks, iters, pending, history, seen>>

(* A model or a tool raises, and the task ends.                            *)
Abort ==
  /\ stage \in {"first", "tools", "model"}
  /\ stage' = "idle"
  /\ UNCHANGED <<talks, iters, pending, blocked, history, seen>>

Next == \/ Begin \/ FirstAnswer \/ RunTools \/ Finish
        \/ SignResults \/ Answer \/ Gate \/ Abort

Spec == Init /\ [][Next]_vars

-----------------------------------------------------------------------------
(* A value quotes a text when it has all of it, and that is long enough to *)
(* be compared, or any 2 * MinLen - 1 characters of it in a row.           *)
Quotes(v, t) ==
  \/ Len(t) >= MinLen /\ Occurs(t, v)
  \/ \E i \in 0..Len(t) :
       /\ i + 2 * MinLen - 1 <= Len(t)
       /\ Occurs(Piece(t, i, 2 * MinLen - 1), v)

(* What the model has been shown as data in this conversation.             *)
Shown == {Strip(m.text) : m \in {n \in history : n.bands > 0}}

(* No tool runs with an argument that quotes a wrapped result of the       *)
(* conversation, from whatever offset, in whichever iteration, although    *)
(* the gate compares at multiples of MinLen only and does not stand behind *)
(* the first model call (GuardBandProvenanceGate._arg_is_guarded).         *)
QuotedDataIsNotRun ==
  stage = "tools" =>
    \A c \in pending \ blocked : \A v \in c : \A t \in Shown : ~Quotes(v, t)

(* When the model is asked, a tool result is wrapped once, however many    *)
(* iterations ago it came, and recorded for the gate; only what the signer *)
(* skips is not (GuardBandToolOutputSigner.query).                         *)
WrappedOnceAndRecorded ==
  stage = "model" =>
    \A m \in history :
      IF Skipped([m EXCEPT !.bands = 0]) THEN m.bands = 0
      ELSE m.bands = 1 /\ Strip(m.text) \in seen

(* The inductive invariant: before the first tool has run there is nothing *)
(* to guard; whatever the model was shown is recorded; what runs next has  *)
(* been through the gate.                                                  *)
ShownInv ==
  /\ stage = "first" => history = {}
  /\ Shown \subseteq seen
  /\ \A m \in history :
       /\ Skipped([m EXCEPT !.bands = 0]) => m.bands = 0
       /\ stage \in {"model", "gate", "tools"} =>
            m.bands = 1 \/ Skipped([m EXCEPT !.bands = 0])

GateInv ==
  stage = "tools" =>
    history = {} \/ \A c \in pending \ blocked : \A v \in c : ~Guarded(v)

LoopInv == TypeOK /\ ShownInv /\ GateInv

(* guard_bands_defense.py, its own header: every tool result is wrapped in *)
(* a signed Guard Band marker before the model sees it.  A blank result    *)
(* carries nothing to wrap and is left out.                                *)
EveryResultIsWrapped ==
  stage = "model" => \A m \in history : Strip(m.text) # <<>> => m.bands > 0
=============================================================================
