-------------------------- MODULE ChatGate_proofs --------------------------
(***************************************************************************)
(* For any number of chats, blocks, contexts and model calls: what an      *)
(* answered chat has had verified, who can hold a block, and what was      *)
(* billed by the time a chat is refused, over.  ChatInv of ChatGate is the *)
(* inductive invariant; each step is shown to keep it part by part.        *)
(***************************************************************************)
EXTENDS ChatGate, FiniteSetTheorems, TLAPS

(* A step that verifies nothing and begins no call keeps the parts that    *)
(* are about blocks, as long as a chat only moves on from being under way. *)
LEMMA NoCheckStep ==
  ASSUME ChatInv, NoCheck, NEW c \in Chats, phase[c] \in {"new", "calling"},
         \E o \in Outcomes \ {"none"}, n \in {NoCost} \cup 0..MaxCalls :
           /\ Leave(c, o, n)
           /\ o = "answered" =>
                msg[c].blocks \subseteq verified[c] /\ phase[c] = "calling",
         usage' \in [Chats -> 0..MaxCalls],
         \A d \in Chats \ {c} : usage'[d] = usage[d]
  PROVE  /\ TypeOK' /\ StartInv' /\ LoopInv'
         /\ VerifiedInv' /\ CountInv' /\ AnsweredInv'
         /\ HolderInv' /\ OneHolder'
<1> USE ChatAssumption DEF ChatInv
<1>1. PICK o \in Outcomes \ {"none"}, n \in {NoCost} \cup 0..MaxCalls :
        /\ phase' = [phase EXCEPT ![c] = "decided"]
        /\ outcome' = [outcome EXCEPT ![c] = o]
        /\ cost' = [cost EXCEPT ![c] = n]
        /\ o = "answered" =>
             msg[c].blocks \subseteq verified[c] /\ phase[c] = "calling"
  BY DEF Leave
<1>2. TypeOK'
  BY <1>1 DEF TypeOK, NoCheck
<1>3. StartInv' /\ LoopInv'
  BY <1>1 DEF TypeOK, NoCheck, StartInv, LoopInv, Approved
<1>4. VerifiedInv' /\ HolderInv' /\ OneHolder'
  BY DEF NoCheck, VerifiedInv, HolderInv, OneHolder, LedgerRemembers
<1>5. CountInv' /\ AnsweredInv'
  BY <1>1 DEF TypeOK, NoCheck, CountInv, AnsweredInv
<1> QED
  BY <1>2, <1>3, <1>4, <1>5

(* A new chat that is refused for its cost keeps the invariant.            *)
LEMMA AskApprovalStep ==
  ASSUME ChatInv, NEW c \in Chats, AskApproval(c)
  PROVE  ChatInv'
<1> USE ChatAssumption
<1>1. /\ phase[c] = "new" /\ usage' = usage /\ NoCheck
      /\ Leave(c, "confirm", NoCost)
  BY DEF AskApproval
<1>2. /\ usage' \in [Chats -> 0..MaxCalls]
      /\ usage[c] = 0
  BY <1>1 DEF ChatInv, TypeOK, StartInv
<1>3. ApprovalComesFirst' /\ CostIsReported'
  BY <1>1, <1>2 DEF ChatInv, TypeOK, Leave, NoCheck, ApprovalComesFirst,
                    CostIsReported
<1>4. "confirm" \in Outcomes \ {"none"} /\ "confirm" # "answered"
  BY DEF Outcomes
<1> QED
  BY <1>1, <1>2, <1>3, <1>4, NoCheckStep DEF ChatInv

(* An awaited call that ends the loop with nothing verified keeps it.      *)
LEMMA LeaveStep ==
  ASSUME ChatInv, NEW c \in Chats, NEW t \in Blocks \cup {None},
         FinalText(c) \/ UnsupportedTool(c) \/ VerificationFails(c, t) \/ Raises(c)
  PROVE  ChatInv'
<1> USE ChatAssumption
<1>1. phase[c] = "calling" /\ NoCheck
  BY DEF FinalText, UnsupportedTool, VerificationFails, Raises, Billed
<1>2. usage[c] \in Nat /\ usage[c] + 1 <= MaxCalls
  BY <1>1 DEF ChatInv, TypeOK, LoopInv
<1>3. /\ usage' \in [Chats -> 0..MaxCalls]
      /\ \A d \in Chats \ {c} : usage'[d] = usage[d]
  BY <1>2 DEF ChatInv, TypeOK, FinalText, UnsupportedTool, VerificationFails,
              Raises, Billed
<1>4. ApprovalComesFirst'
  BY <1>1, <1>3 DEF ChatInv, TypeOK, LoopInv, Approved, NoCheck, ApprovalComesFirst
<1>5. PICK o \in Outcomes \ {"none"}, n \in {NoCost} \cup 0..MaxCalls :
        /\ Leave(c, o, n)
        /\ o = "answered" => msg[c].blocks \subseteq verified[c]
        /\ o # "error" => n = usage'[c]
  <2>1. CASE FinalText(c)
    BY <1>3, <2>1 DEF FinalText, FinalOutcome, Outcomes
  <2>2. CASE UnsupportedTool(c)
    BY <1>3, <2>2 DEF UnsupportedTool, Outcomes
  <2>3. CASE VerificationFails(c, t)
    BY <1>3, <2>3 DEF VerificationFails, Outcomes
  <2>4. CASE Raises(c)
    BY <2>4 DEF Raises, Outcomes
  <2> QED
    BY <2>1, <2>2, <2>3, <2>4
<1>6. CostIsReported'
  BY <1>3, <1>5 DEF ChatInv, TypeOK, Leave, CostIsReported
<1> QED
  BY <1>1, <1>3, <1>4, <1>5, <1>6, NoCheckStep DEF ChatInv

(* One element more makes a finite set larger by at most one.              *)
LEMMA OneMore ==
  ASSUME NEW S, NEW x, IsFiniteSet(S)
  PROVE  /\ IsFiniteSet(S \cup {x})
         /\ Cardinality(S \cup {x}) \in Nat
         /\ Cardinality(S \cup {x}) <= Cardinality(S) + 1
<1>1. /\ IsFiniteSet(S \cup {x})
      /\ Cardinality(S \cup {x}) = IF x \in S THEN Cardinality(S) ELSE Cardinality(S) + 1
  BY FS_AddElement
<1>2. Cardinality(S) \in Nat /\ Cardinality(S \cup {x}) \in Nat
  BY <1>1, FS_CardinalityType
<1> QED
  BY <1>1, <1>2

(* A verification that holds: the chat becomes a holder of a block that    *)
(* had none, in its own context, at the price of a call.                   *)
LEMMA SuccessStep ==
  ASSUME ChatInv, NEW c \in Chats, NEW b \in Blocks, NEW exact \in BOOLEAN,
         VerificationHolds(c, b, exact)
  PROVE  ChatInv'
<1> USE ChatAssumption
<1>1. /\ phase[c] = "calling"
      /\ ContextOf[b] = msg[c].ctx
      /\ b \notin expired /\ (Replay => b \notin consumed)
      /\ consumed' = Consumed(b)
      /\ holders' = [holders EXCEPT ![b] = @ \cup {c}]
      /\ verified' = IF exact THEN [verified EXCEPT ![c] = @ \cup {b}] ELSE verified
      /\ usage' = [usage EXCEPT ![c] = @ + 1]
      /\ UNCHANGED <<msg, expired>>
  BY DEF VerificationHolds, Billed, Valid
<1>2. \/ /\ calls[c] < MaxCalls
         /\ calls' = [calls EXCEPT ![c] = @ + 1]
         /\ UNCHANGED <<phase, outcome, cost>>
      \/ /\ ~(calls[c] < MaxCalls)
         /\ phase' = [phase EXCEPT ![c] = "decided"]
         /\ outcome' = [outcome EXCEPT ![c] = "exhausted"]
         /\ cost' = [cost EXCEPT ![c] = usage'[c]]
         /\ UNCHANGED calls
  BY DEF VerificationHolds, CallsLeft, Leave
<1>3. /\ calls[c] \in Nat /\ calls[c] > 0 /\ calls[c] <= MaxCalls
      /\ usage[c] = calls[c] - 1 /\ outcome[c] = "none"
      /\ Approved(msg[c])
  BY <1>1 DEF ChatInv, TypeOK, LoopInv
<1>4. TypeOK'
  BY <1>1, <1>2, <1>3 DEF ChatInv, TypeOK, Outcomes, Consumed
<1>5. StartInv' /\ LoopInv'
  BY <1>1, <1>2, <1>3 DEF ChatInv, TypeOK, StartInv, LoopInv, Approved
<1>6. VerifiedInv'
  BY <1>1 DEF ChatInv, TypeOK, VerifiedInv
<1>7. CountInv' /\ AnsweredInv'
  <2>1. /\ IsFiniteSet(verified[c]) /\ Cardinality(verified[c]) < calls[c]
        /\ Cardinality(verified[c]) \in Nat
    BY <1>1, FS_CardinalityType DEF ChatInv, CountInv
  <2>2. /\ IsFiniteSet(verified[c] \cup {b})
        /\ Cardinality(verified[c] \cup {b}) \in Nat
        /\ Cardinality(verified[c] \cup {b}) <= Cardinality(verified[c]) + 1
    BY <2>1, OneMore
  <2>3. /\ verified'[c] = verified[c] \/ verified'[c] = verified[c] \cup {b}
        /\ \A d \in Chats \ {c} : verified'[d] = verified[d]
    BY <1>1 DEF ChatInv, TypeOK
  <2>4. /\ IsFiniteSet(verified'[c])
        /\ Cardinality(verified'[c]) <= calls'[c]
        /\ phase'[c] = "calling" => Cardinality(verified'[c]) < calls'[c]
    <3>1. \/ calls'[c] = calls[c] + 1
          \/ calls'[c] = calls[c] /\ phase'[c] = "decided"
      BY <1>2 DEF ChatInv, TypeOK
    <3>2. CASE verified'[c] = verified[c]
      BY <1>3, <2>1, <3>1, <3>2
    <3>3. CASE verified'[c] = verified[c] \cup {b}
      <4>1. Cardinality(verified'[c]) <= Cardinality(verified[c]) + 1
        BY <2>2, <3>3
      <4>2. IsFiniteSet(verified'[c]) /\ Cardinality(verified'[c]) \in Nat
        BY <2>2, <3>3
      <4> QED
        BY <1>3, <2>1, <3>1, <4>1, <4>2
    <3> QED
      BY <2>3, <3>2, <3>3
  <2>5. \A d \in Chats \ {c} : /\ calls'[d] = calls[d] /\ phase'[d] = phase[d]
                               /\ outcome'[d] = outcome[d]
    BY <1>2 DEF ChatInv, TypeOK
  <2>6. outcome'[c] # "answered"
    BY <1>2, <1>3 DEF ChatInv, TypeOK
  <2> QED
    BY <1>1, <2>3, <2>4, <2>5, <2>6 DEF ChatInv, CountInv, AnsweredInv
<1>8. HolderInv' /\ OneHolder'
  BY <1>1 DEF ChatInv, TypeOK, HolderInv, OneHolder, LedgerRemembers, Consumed
<1>9. ApprovalComesFirst' /\ CostIsReported'
  BY <1>1, <1>2, <1>3 DEF ChatInv, TypeOK, Approved, ApprovalComesFirst,
                          CostIsReported
<1> QED
  BY <1>4, <1>5, <1>6, <1>7, <1>8, <1>9 DEF ChatInv

(* The steps that are not the model's answer keep the invariant.           *)
LEMMA OtherSteps ==
  ASSUME ChatInv,
         \/ \E c \in Chats : FirstCall(c) \/ Reply(c)
         \/ \E b \in Blocks, cx \in Contexts : VerifyEndpoint(b, cx)
         \/ \E b \in Blocks : Expire(b) \/ Prune(b)
         \/ CrashRestart
         \/ UNCHANGED vars
  PROVE  ChatInv'
<1> USE ChatAssumption DEF ChatInv
<1>1. ASSUME NEW c \in Chats, FirstCall(c)
      PROVE  ChatInv'
  <2>1. TypeOK' /\ StartInv' /\ LoopInv'
    BY <1>1 DEF TypeOK, FirstCall, StartInv, LoopInv, Approved
  <2>2. VerifiedInv' /\ HolderInv' /\ OneHolder'
    BY <1>1 DEF FirstCall, VerifiedInv, HolderInv, OneHolder, LedgerRemembers
  <2>3. CountInv' /\ AnsweredInv'
    BY <1>1, FS_EmptySet DEF TypeOK, StartInv, FirstCall, CountInv, AnsweredInv
  <2>4. ApprovalComesFirst' /\ CostIsReported'
    BY <1>1 DEF TypeOK, FirstCall, ApprovalComesFirst, CostIsReported
  <2> QED
    BY <2>1, <2>2, <2>3, <2>4
<1>2. ASSUME NEW c \in Chats, Reply(c)
      PROVE  ChatInv'
  <2>1. TypeOK' /\ StartInv' /\ LoopInv'
    BY <1>2 DEF TypeOK, Reply, StartInv, LoopInv, Approved
  <2>2. VerifiedInv' /\ HolderInv' /\ OneHolder' /\ AnsweredInv'
    BY <1>2 DEF Reply, VerifiedInv, HolderInv, OneHolder, LedgerRemembers, AnsweredInv
  <2>3. CountInv' /\ ApprovalComesFirst' /\ CostIsReported'
    BY <1>2 DEF TypeOK, Reply, CountInv, ApprovalComesFirst, CostIsReported
  <2> QED
    BY <2>1, <2>2, <2>3
<1>3. ASSUME NEW b \in Blocks, NEW cx \in Contexts, VerifyEndpoint(b, cx)
      PROVE  ChatInv'
  <2>1. TypeOK' /\ StartInv' /\ LoopInv'
    BY <1>3 DEF TypeOK, VerifyEndpoint, Consumed, chatVars, StartInv, LoopInv, Approved
  <2>2. VerifiedInv' /\ CountInv' /\ AnsweredInv'
    BY <1>3 DEF TypeOK, VerifyEndpoint, chatVars, VerifiedInv, CountInv, AnsweredInv
  <2>3. HolderInv' /\ OneHolder'
    BY <1>3 DEF TypeOK, VerifyEndpoint, Valid, Consumed, HolderInv, OneHolder,
                LedgerRemembers
  <2>4. ApprovalComesFirst' /\ CostIsReported'
    BY <1>3 DEF TypeOK, VerifyEndpoint, chatVars, ApprovalComesFirst, CostIsReported
  <2> QED
    BY <2>1, <2>2, <2>3, <2>4
<1>4. ASSUME NEW b \in Blocks, Expire(b) \/ Prune(b)
      PROVE  ChatInv'
  <2>1. UNCHANGED <<chatVars, holders>>
    BY <1>4 DEF Expire, Prune
  <2>2. TypeOK' /\ StartInv' /\ LoopInv'
    BY <1>4, <2>1 DEF TypeOK, Expire, Prune, chatVars, StartInv, LoopInv, Approved
  <2>3. VerifiedInv' /\ CountInv' /\ AnsweredInv'
    BY <2>1 DEF chatVars, VerifiedInv, CountInv, AnsweredInv
  <2>4. LedgerRemembers => consumed \cup expired \subseteq (consumed \cup expired)'
    BY <1>4 DEF Expire, Prune, LedgerRemembers
  <2>5. HolderInv' /\ OneHolder'
    BY <2>1, <2>4 DEF HolderInv, OneHolder, LedgerRemembers
  <2>6. ApprovalComesFirst' /\ CostIsReported'
    BY <2>1 DEF chatVars, ApprovalComesFirst, CostIsReported
  <2> QED
    BY <2>2, <2>3, <2>5, <2>6
<1>5. CASE CrashRestart
  <2>1. TypeOK' /\ StartInv' /\ LoopInv'
    BY <1>5 DEF TypeOK, CrashRestart, StartInv, LoopInv, Approved
  <2>2. VerifiedInv' /\ HolderInv' /\ OneHolder' /\ AnsweredInv'
    BY <1>5 DEF CrashRestart, VerifiedInv, HolderInv, OneHolder, LedgerRemembers, AnsweredInv
  <2>3. CountInv' /\ ApprovalComesFirst' /\ CostIsReported'
    BY <1>5 DEF TypeOK, CrashRestart, CountInv, ApprovalComesFirst, CostIsReported
  <2> QED
    BY <2>1, <2>2, <2>3
<1>6. CASE UNCHANGED vars
  BY <1>6 DEF TypeOK, vars, chatVars, StartInv, LoopInv, Approved, VerifiedInv,
              CountInv, AnsweredInv, HolderInv, OneHolder, LedgerRemembers,
              ApprovalComesFirst, CostIsReported
<1> QED
  BY <1>1, <1>2, <1>3, <1>4, <1>5, <1>6

(* The invariant holds from the start and through every step.              *)
THEOREM ChatInvariant == Spec => []ChatInv
<1> USE ChatAssumption
<1>1. Init => ChatInv
  BY FS_EmptySet
  DEF Init, ChatInv, TypeOK, Outcomes, NoCost, StartInv, LoopInv, VerifiedInv,
      CountInv, AnsweredInv, HolderInv, OneHolder, LedgerRemembers, ApprovalComesFirst,
      CostIsReported
<1>2. ChatInv /\ [Next]_vars => ChatInv'
  <2> SUFFICES ASSUME ChatInv, [Next]_vars PROVE ChatInv'
    OBVIOUS
  <2>1. ASSUME NEW c \in Chats, ModelReturns(c)
        PROVE  ChatInv'
    <3>1. \A t \in msg[c].blocks : t \in Blocks
      BY DEF ChatInv, TypeOK, Message
    <3> QED
      BY <2>1, <3>1, LeaveStep, SuccessStep DEF ModelReturns
  <2> QED
    BY <2>1, AskApprovalStep, OtherSteps DEF Next
<1> QED
  BY <1>1, <1>2, PTL DEF Spec

(* The variables of the chats keep their types.                            *)
THEOREM ChatTypes == Spec => []TypeOK
<1>1. ChatInv => TypeOK
  BY DEF ChatInv
<1> QED
  BY <1>1, ChatInvariant, PTL

(* An answer is given only when this chat had every block of its message   *)
(* verified in its own context, whatever the model and the other chats do. *)
THEOREM AnswersAreVerified == Spec => []AnswerIsVerified
<1>1. ChatInv => AnswerIsVerified
  BY DEF ChatInv, AnsweredInv, VerifiedInv, AnswerIsVerified
<1> QED
  BY <1>1, ChatInvariant, PTL

(* With replay protection, a ledger file and a window that covers the life *)
(* of a band, no two chats ever hold the same block, although the ledger   *)
(* prunes its nonces: it does so only when the block has expired.          *)
THEOREM BlocksHaveOneHolder ==
  ASSUME Replay, Durable, WindowCovers
  PROVE  Spec => [](\A b \in Blocks : \A x, y \in holders[b] : x = y)
<1>1. ChatInv => \A b \in Blocks : \A x, y \in holders[b] : x = y
  BY DEF ChatInv, OneHolder, LedgerRemembers
<1> QED
  BY <1>1, ChatInvariant, PTL

(* Under the same three assumptions a successful verification is a grant   *)
(* of a block nobody held; no other step touches the holders.              *)
THEOREM ChatsUseTickets ==
  ASSUME Replay, Durable, WindowCovers
  PROVE  Spec => ImplementsSingleUse
<1> USE ChatAssumption
<1>1. Init => Tickets!Init
  BY DEF Init, Tickets!Init
<1>2. ChatInv /\ [Next]_vars => [Tickets!Next]_(Tickets!vars)
  <2> SUFFICES ASSUME ChatInv, [Next]_vars
               PROVE  [Tickets!Next]_(Tickets!vars)
    OBVIOUS
  <2> USE DEF ChatInv, TypeOK
  <2>1. ASSUME holders' = holders
        PROVE  UNCHANGED Tickets!vars
    BY <2>1 DEF Tickets!vars
  <2>2. ASSUME NEW b \in Blocks, NEW cx \in Contexts, Valid(b, cx),
               NEW h \in Chats \cup {Endpoint},
               holders' = [holders EXCEPT ![b] = @ \cup {h}]
        PROVE  Tickets!Next
    <3>1. ContextOf[b] # None /\ holders[b] = {}
      BY <2>2 DEF Valid, HolderInv, LedgerRemembers
    <3>2. Tickets!Grant(b, h)
      BY <2>2, <3>1 DEF Tickets!Grant
    <3> QED
      BY <3>2 DEF Tickets!Next
  <2>3. ASSUME NEW c \in Chats, ModelReturns(c)
        PROVE  [Tickets!Next]_(Tickets!vars)
    <3>1. msg[c].ctx \in Contexts /\ msg[c].blocks \subseteq Blocks
      BY DEF Message
    <3>2. CASE FinalText(c) \/ UnsupportedTool(c) \/ Raises(c)
      BY <2>1, <3>2 DEF FinalText, UnsupportedTool, Raises, NoCheck
    <3>3. ASSUME NEW t, VerificationFails(c, t)
          PROVE  holders' = holders
      BY <3>3 DEF VerificationFails, NoCheck
    <3>4. ASSUME NEW b \in msg[c].blocks, NEW exact, VerificationHolds(c, b, exact)
          PROVE  Tickets!Next
      BY <2>2, <3>1, <3>4 DEF VerificationHolds
    <3> QED
      BY <2>1, <2>3, <3>2, <3>3, <3>4 DEF ModelReturns
  <2>4. ASSUME NEW b \in Blocks, NEW cx \in Contexts, VerifyEndpoint(b, cx)
        PROVE  Tickets!Next
    BY <2>2, <2>4 DEF VerifyEndpoint
  <2>5. ASSUME NEW c \in Chats, AskApproval(c) \/ FirstCall(c) \/ Reply(c)
        PROVE  holders' = holders
    BY <2>5 DEF AskApproval, FirstCall, Reply, NoCheck
  <2>6. CASE CrashRestart \/ (\E b \in Blocks : Expire(b) \/ Prune(b)) \/ UNCHANGED vars
    BY <2>1, <2>6 DEF CrashRestart, Expire, Prune, vars
  <2> QED
    BY <2>1, <2>3, <2>4, <2>5, <2>6 DEF Next
<1> QED
  BY <1>1, <1>2, ChatInvariant, PTL
     DEF Spec, ImplementsSingleUse, Tickets!Spec

(* Each block costs a call and the answer one more, for every MaxCalls.    *)
THEOREM AnswersFitInLoop == Spec => []AnswerFitsInLoop
<1>1. ASSUME ChatInv, NEW c \in Chats, outcome[c] = "answered"
      PROVE  Cardinality(msg[c].blocks) < MaxCalls
  <2>1. /\ msg[c].blocks \in SUBSET verified[c]
        /\ IsFiniteSet(verified[c]) /\ Cardinality(verified[c]) < calls[c]
        /\ calls[c] \in Nat /\ calls[c] <= MaxCalls
    BY <1>1, ChatAssumption DEF ChatInv, TypeOK, CountInv, AnsweredInv
  <2>2. /\ IsFiniteSet(msg[c].blocks)
        /\ Cardinality(msg[c].blocks) <= Cardinality(verified[c])
    BY <2>1, FS_Subset
  <2>3. Cardinality(msg[c].blocks) \in Nat /\ Cardinality(verified[c]) \in Nat
    BY <2>1, <2>2, FS_CardinalityType
  <2> QED
    BY <2>1, <2>2, <2>3, ChatAssumption
<1>2. ChatInv => AnswerFitsInLoop
  BY <1>1 DEF AnswerFitsInLoop
<1> QED
  BY <1>2, ChatInvariant, PTL

(* How many steps a chat can still take by itself.                         *)
Rank(c) ==
  CASE phase[c] = "new"     -> MaxCalls + 2
    [] phase[c] = "calling" -> MaxCalls + 2 - calls[c]
    [] phase[c] = "decided" -> 1
    [] OTHER                -> 0

(* The safety half of ChatEnds, for any number of chats and calls: each    *)
(* step of a chat takes it nearer to its end, whatever the model answers,  *)
(* and no step of another chat, of /verify or of the clock sets it back;   *)
(* so it takes MaxCalls + 2 steps at most (the loop of LLMService.chat).   *)
THEOREM ChatsWindDown ==
  Spec => [][\A c \in Chats :
               /\ Rank(c) \in 0..(MaxCalls + 2)
               /\ Rank(c)' \in 0..Rank(c)
               /\ AskApproval(c) \/ FirstCall(c) \/ ModelReturns(c) \/ Reply(c)
                    => Rank(c)' < Rank(c)]_vars
<1> USE ChatAssumption
<1>1. ASSUME ChatInv, [Next]_vars, NEW c \in Chats
      PROVE  /\ Rank(c) \in 0..(MaxCalls + 2)
             /\ Rank(c)' \in 0..Rank(c)
             /\ AskApproval(c) \/ FirstCall(c) \/ ModelReturns(c) \/ Reply(c)
                  => Rank(c)' < Rank(c)
  <2> USE DEF ChatInv, TypeOK
  <2>1. /\ phase[c] \in {"new", "calling", "decided", "replied", "lost"}
        /\ calls[c] \in 0..MaxCalls
        /\ phase[c] = "calling" => calls[c] > 0
    BY <1>1 DEF LoopInv
  <2>2. Rank(c) \in 0..(MaxCalls + 2)
    BY <2>1 DEF Rank
  <2> DEFINE Nearer == Rank(c)' \in 0..Rank(c) /\ Rank(c)' < Rank(c)
  <2>3. ASSUME phase'[c] = phase[c], calls'[c] = calls[c]
        PROVE  Rank(c)' \in 0..Rank(c)
    BY <2>2, <2>3 DEF Rank
  <2>4. ASSUME AskApproval(c) \/ FirstCall(c) \/ ModelReturns(c) \/ Reply(c)
        PROVE  Nearer
    <3>1. CASE AskApproval(c)
      BY <1>1, <2>1, <3>1 DEF AskApproval, Leave, Rank
    <3>2. CASE FirstCall(c)
      BY <1>1, <2>1, <3>2 DEF FirstCall, Rank
    <3>3. CASE Reply(c)
      BY <1>1, <2>1, <3>3 DEF Reply, Rank
    <3>4. ASSUME phase[c] = "calling", phase' = [phase EXCEPT ![c] = "decided"]
          PROVE  Nearer
      BY <1>1, <2>1, <3>4 DEF Rank
    <3>5. CASE FinalText(c) \/ UnsupportedTool(c) \/ Raises(c)
      BY <3>4, <3>5 DEF FinalText, UnsupportedTool, Raises, Billed, Leave
    <3>6. ASSUME NEW t, VerificationFails(c, t)
          PROVE  Nearer
      BY <3>4, <3>6 DEF VerificationFails, Billed, Leave
    <3>7. ASSUME NEW b, NEW exact, VerificationHolds(c, b, exact)
          PROVE  Nearer
      <4>1. CASE CallsLeft(c)
        <5>1. /\ phase[c] = "calling" /\ phase' = phase
              /\ calls[c] < MaxCalls /\ calls'[c] = calls[c] + 1
          BY <1>1, <3>7, <4>1 DEF VerificationHolds, Billed, CallsLeft
        <5> QED
          BY <2>1, <5>1 DEF Rank
      <4>2. CASE ~CallsLeft(c)
        BY <3>4, <3>7, <4>2 DEF VerificationHolds, Billed, Leave
      <4> QED
        BY <4>1, <4>2
    <3> QED
      BY <2>4, <3>1, <3>2, <3>3, <3>5, <3>6, <3>7 DEF ModelReturns
  <2>5. ASSUME NEW d \in Chats, d # c,
               AskApproval(d) \/ FirstCall(d) \/ ModelReturns(d) \/ Reply(d)
        PROVE  phase'[c] = phase[c] /\ calls'[c] = calls[c]
    <3>1. CASE AskApproval(d) \/ FirstCall(d) \/ Reply(d)
      BY <1>1, <2>5, <3>1 DEF AskApproval, FirstCall, Reply, Leave, NoCheck
    <3>2. CASE ModelReturns(d)
      <4>1. CASE FinalText(d) \/ UnsupportedTool(d) \/ Raises(d)
        BY <1>1, <2>5, <4>1 DEF FinalText, UnsupportedTool, Raises, Leave, NoCheck
      <4>2. ASSUME NEW t, VerificationFails(d, t)
            PROVE  phase'[c] = phase[c] /\ calls'[c] = calls[c]
        BY <1>1, <2>5, <4>2 DEF VerificationFails, Leave, NoCheck
      <4>3. ASSUME NEW b, NEW exact, VerificationHolds(d, b, exact)
            PROVE  phase'[c] = phase[c] /\ calls'[c] = calls[c]
        BY <1>1, <2>5, <4>3 DEF VerificationHolds, Leave
      <4> QED
        BY <3>2, <4>1, <4>2, <4>3 DEF ModelReturns
    <3> QED
      BY <2>5, <3>1, <3>2
  <2>6. ASSUME \/ \E b \in Blocks : \/ \E cx \in Contexts : VerifyEndpoint(b, cx)
                                    \/ Expire(b) \/ Prune(b)
               \/ UNCHANGED vars
        PROVE  phase' = phase /\ calls' = calls
    BY <2>6 DEF VerifyEndpoint, Expire, Prune, vars, chatVars
  <2>7. ASSUME CrashRestart
        PROVE  Rank(c)' \in 0..Rank(c)
    <3>1. \/ phase'[c] = phase[c] /\ calls'[c] = calls[c]
          \/ phase'[c] = "lost"
      BY <1>1, <2>7 DEF CrashRestart
    <3>2. CASE phase'[c] = "lost"
      BY <2>2, <3>2 DEF Rank
    <3> QED
      BY <2>3, <3>1, <3>2
  <2>8. Rank(c)' \in 0..Rank(c)
    BY <1>1, <2>3, <2>4, <2>5, <2>6, <2>7 DEF Next
  <2> QED
    BY <2>2, <2>4, <2>8
<1>2. ChatInv /\ [Next]_vars =>
        [\A c \in Chats :
           /\ Rank(c) \in 0..(MaxCalls + 2)
           /\ Rank(c)' \in 0..Rank(c)
           /\ AskApproval(c) \/ FirstCall(c) \/ ModelReturns(c) \/ Reply(c)
                => Rank(c)' < Rank(c)]_vars
  BY <1>1
<1> QED
  BY <1>2, ChatInvariant, PTL DEF Spec

(* A chat over the threshold that nobody approved costs nothing and spends *)
(* no nonce.                                                               *)
THEOREM ApprovalIsFirst == Spec => []ApprovalComesFirst
<1>1. ChatInv => ApprovalComesFirst
  BY DEF ChatInv
<1> QED
  BY <1>1, ChatInvariant, PTL

(* What was billed is reported by every way out of the loop but exceptions.*)
THEOREM CostsAreReported == Spec => []CostIsReported
<1>1. ChatInv => CostIsReported
  BY DEF ChatInv
<1> QED
  BY <1>1, ChatInvariant, PTL
=============================================================================
