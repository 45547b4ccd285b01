----------------------------- MODULE ChatGate -----------------------------
(***************************************************************************)
(* /chat of app/main.py over LLMService.chat of app/llm.py: the cost guard *)
(* in front, then up to MaxCalls awaited model calls, each of which may    *)
(* ask for one guard band to be verified, and the enforcement that lets a  *)
(* final text through only when every band of the message was verified.    *)
(*                                                                         *)
(* The process serves many chats at once; it switches between them at the  *)
(* awaited model call and nowhere else, so what happens after a call       *)
(* returns, the ledger's part included, is one step.  All chats and the    *)
(* /verify endpoint share one replay ledger.                               *)
(*                                                                         *)
(* A block is the exact text of one complete band.  What the model answers *)
(* is chosen freely: nothing below relies on its following the prompt.     *)
(***************************************************************************)
EXTENDS Integers, FiniteSets

CONSTANTS
  Chats,       \* the /chat requests
  Blocks,      \* complete bands that can occur in messages
  Contexts,    \* request contexts
  ContextOf,   \* the context a block was signed with, None when no key signed it
  Messages,    \* what clients send: see Message
  MaxCalls,    \* the loop bound of LLMService.chat (5 in the code)
  Replay,      \* settings.REPLAY_PROTECTION_ENABLED
  Durable,     \* is the ledger the SQLite file, which outlives the process
  WindowCovers, \* is REPLAY_WINDOW_SECONDS as long as a band lives
  Endpoint,    \* names the /verify endpoint as a holder of blocks
  None

(* A message, as far as the handler looks at it: the complete blocks the   *)
(* parser extracts, marker text left over besides them, and what the       *)
(* request says of its context and cost.                                   *)
Message == [blocks : SUBSET Blocks, dangling : BOOLEAN, ctx : Contexts,
            over : BOOLEAN, approved : BOOLEAN]

ASSUME ChatAssumption ==
  /\ ContextOf \in [Blocks -> Contexts \cup {None}]
  /\ None \notin Contexts \cup Blocks
  /\ Messages \subseteq Message
  /\ MaxCalls \in Nat \ {0}
  /\ Replay \in BOOLEAN /\ Durable \in BOOLEAN /\ WindowCovers \in BOOLEAN
  /\ Endpoint \notin Chats

VARIABLES
  phase,      \* "new", "calling" (the model is awaited), "decided", "replied", "lost"
  msg,        \* the request
  calls,      \* model calls begun
  usage,      \* model calls the provider has billed
  verified,   \* verified_blocks
  outcome,    \* why the loop was left
  cost,       \* the actual cost in the result, NoCost when it carries none
  consumed,   \* the blocks whose nonce is in the ledger
  holders,    \* for each block, who was told it is valid
  expired     \* the blocks whose expiry has passed

chatVars == <<phase, msg, calls, usage, verified, outcome, cost>>
vars == <<chatVars, consumed, holders, expired>>

NoCost == -1

Outcomes == {"none",
  "answered",      \* a final text with every block verified
  "confirm",       \* 402: over the threshold and not approved
  "malformed",     \* markers, but no complete block
  "unverified",    \* a final text with a block left unverified
  "refused",       \* a verification failed
  "unsupported",   \* another tool, or a tool stop without a tool call
  "exhausted",     \* MaxCalls calls and no final text
  "error"}         \* an exception

TypeOK ==
  /\ phase \in [Chats -> {"new", "calling", "decided", "replied", "lost"}]
  /\ msg \in [Chats -> Message]
  /\ calls \in [Chats -> 0..MaxCalls]
  /\ usage \in [Chats -> 0..MaxCalls]
  /\ verified \in [Chats -> SUBSET Blocks]
  /\ outcome \in [Chats -> Outcomes]
  /\ cost \in [Chats -> {NoCost} \cup 0..MaxCalls]
  /\ consumed \in SUBSET Blocks
  /\ holders \in [Blocks -> SUBSET (Chats \cup {Endpoint})]
  /\ expired \in SUBSET Blocks

Init ==
  /\ phase = [c \in Chats |-> "new"]
  /\ msg \in [Chats -> Messages]
  /\ calls = [c \in Chats |-> 0]
  /\ usage = [c \in Chats |-> 0]
  /\ verified = [c \in Chats |-> {}]
  /\ outcome = [c \in Chats |-> "none"]
  /\ cost = [c \in Chats |-> NoCost]
  /\ consumed = {}
  /\ holders = [b \in Blocks |-> {}]
  /\ expired = {}

-----------------------------------------------------------------------------
MarkersPresent(m) == m.blocks # {} \/ m.dangling

(* Over the threshold only a confirmed request goes on.                    *)
ApprovedAnyway(m) == TRUE                                   \* seeded fault
Approved(m) == m.over => m.approved

(* extract_and_verify and then the ledger, under context cx.               *)
ValidInAnyContext(b, cx) ==                                 \* seeded fault
  b \in Blocks /\ b \notin expired /\ (Replay => b \notin consumed)
Valid(b, cx) ==
  /\ b \in Blocks
  /\ ContextOf[b] = cx
  /\ b \notin expired
  /\ Replay => b \notin consumed

NeverConsumed(b) == consumed                                \* seeded fault
Consumed(b) == IF Replay THEN consumed \cup {b} ELSE consumed

(* The loop of chat: another call may follow.                              *)
OneCallTooMany(c) == calls[c] <= MaxCalls                   \* seeded fault
CallsLeft(c) == calls[c] < MaxCalls

(* The loop is left with outcome o; the result carries cost n.             *)
Leave(c, o, n) ==
  /\ phase' = [phase EXCEPT ![c] = "decided"]
  /\ outcome' = [outcome EXCEPT ![c] = o]
  /\ cost' = [cost EXCEPT ![c] = n]

(* The awaited call returned; its tokens are added up.                     *)
Billed(c) ==
  /\ phase[c] = "calling"
  /\ usage' = [usage EXCEPT ![c] = @ + 1]

(* Nothing is verified and no other call is begun.                         *)
NoCheck == UNCHANGED <<msg, calls, verified, consumed, holders, expired>>

(* The cost guard comes before everything else: 402 touches neither the    *)
(* model nor the ledger.                                                   *)
AskApproval(c) ==
  /\ phase[c] = "new"
  /\ ~Approved(msg[c])
  /\ Leave(c, "confirm", NoCost)
  /\ UNCHANGED usage
  /\ NoCheck

FirstCall(c) ==
  /\ phase[c] = "new"
  /\ Approved(msg[c])
  /\ phase' = [phase EXCEPT ![c] = "calling"]
  /\ calls' = [calls EXCEPT ![c] = 1]
  /\ UNCHANGED <<msg, usage, verified, outcome, cost, consumed, holders, expired>>

(* The enforcement on a final text, by the outcome it gives.               *)
FinalOutcome(c) ==
  IF MarkersPresent(msg[c]) /\ msg[c].blocks = {} THEN "malformed"
  ELSE IF msg[c].blocks \subseteq verified[c] THEN "answered" ELSE "unverified"

(* The model stops for another reason than a tool.                         *)
FinalText(c) ==
  /\ Billed(c)
  /\ Leave(c, FinalOutcome(c), usage'[c])
  /\ NoCheck

(* Seeded fault: an early return that forgets what was billed.             *)
UnsupportedToolUnpriced(c) ==
  Billed(c) /\ Leave(c, "unsupported", NoCost) /\ NoCheck

(* A tool stop with no tool call in it, or with a call to another tool.    *)
UnsupportedTool(c) ==
  /\ Billed(c)
  /\ Leave(c, "unsupported", usage'[c])
  /\ NoCheck

(* The model asks for text t to be verified, and t is not a band valid in  *)
(* the request's context, or the ledger file cannot be used: the chat ends *)
(* here.                                                                   *)
VerificationFails(c, t) ==
  /\ Billed(c)
  /\ ~Valid(t, msg[c].ctx) \/ (Replay /\ Durable)
  /\ Leave(c, "refused", usage'[c])
  /\ NoCheck

(* Seeded fault: when its calls are used up the loop starts over.          *)
VerificationHoldsAgain(c, b, exact) ==
  /\ phase[c] = "calling"
  /\ Valid(b, msg[c].ctx)
  /\ consumed' = Consumed(b)
  /\ holders' = [holders EXCEPT ![b] = @ \cup {c}]
  /\ verified' = IF exact THEN [verified EXCEPT ![c] = @ \cup {b}] ELSE verified
  /\ calls' = [calls EXCEPT ![c] = IF CallsLeft(c) THEN @ + 1 ELSE 1]
  /\ usage' = [usage EXCEPT ![c] = IF CallsLeft(c) THEN @ + 1 ELSE 0]
  /\ UNCHANGED <<phase, msg, outcome, cost, expired>>

(* The model quotes a valid block, with other text around it unless exact. *)
(* Its nonce is spent either way; only the exact text counts for the       *)
(* enforcement.  Then the next call is awaited, or the loop has run out.   *)
VerificationHolds(c, b, exact) ==
  /\ Billed(c)
  /\ Valid(b, msg[c].ctx)
  /\ consumed' = Consumed(b)
  /\ holders' = [holders EXCEPT ![b] = @ \cup {c}]
  /\ verified' = IF exact THEN [verified EXCEPT ![c] = @ \cup {b}] ELSE verified
  /\ IF CallsLeft(c)
       THEN /\ calls' = [calls EXCEPT ![c] = @ + 1]
            /\ UNCHANGED <<phase, outcome, cost>>
       ELSE /\ Leave(c, "exhausted", usage'[c])
            /\ UNCHANGED calls
  /\ UNCHANGED <<msg, expired>>

(* Seeded fault: a chat that fails gives its nonces back.                  *)
RaisesReleasing(c) ==
  /\ phase[c] = "calling"
  /\ usage' \in {usage, [usage EXCEPT ![c] = @ + 1]}
  /\ Leave(c, "error", NoCost)
  /\ consumed' = {b \in consumed : c \notin holders[b]}
  /\ UNCHANGED <<msg, calls, verified, holders, expired>>

(* The call raises (timeout, provider error), or its answer cannot be      *)
(* handled after it was billed: the result has no cost in it.              *)
Raises(c) ==
  /\ phase[c] = "calling"
  /\ usage' \in {usage, [usage EXCEPT ![c] = @ + 1]}
  /\ Leave(c, "error", NoCost)
  /\ NoCheck

(* What the model can quote: a block of the message, or text of its own.   *)
ModelReturns(c) ==
  \/ FinalText(c)
  \/ UnsupportedTool(c)
  \/ \E t \in msg[c].blocks \cup {None} : VerificationFails(c, t)
  \/ \E b \in msg[c].blocks, exact \in BOOLEAN : VerificationHolds(c, b, exact)
  \/ Raises(c)

(* The audit event is awaited and the response, or the error, sent.        *)
Reply(c) ==
  /\ phase[c] = "decided"
  /\ phase' = [phase EXCEPT ![c] = "replied"]
  /\ UNCHANGED <<msg, calls, usage, verified, outcome, cost, consumed, holders,
                 expired>>

(* A client of /verify presents a block while the chats are under way.     *)
VerifyEndpoint(b, cx) ==
  /\ Valid(b, cx)
  /\ consumed' = Consumed(b)
  /\ holders' = [holders EXCEPT ![b] = @ \cup {Endpoint}]
  /\ UNCHANGED <<chatVars, expired>>

(* A block's expiry passes.                                                *)
Expire(b) ==
  /\ b \notin expired
  /\ expired' = expired \cup {b}
  /\ UNCHANGED <<chatVars, consumed, holders>>

(* The ledger drops a nonce when its window has passed.  Nothing relates   *)
(* that window to the life of a band: only when it is as long is the block *)
(* of no more use by then.                                                 *)
Prune(b) ==
  /\ b \in consumed
  /\ WindowCovers => b \in expired
  /\ consumed' = consumed \ {b}
  /\ UNCHANGED <<chatVars, holders, expired>>

(* The process dies under its chats and is restarted.                      *)
CrashRestart ==
  /\ \E c \in Chats : phase[c] \in {"calling", "decided"}
  /\ phase' = [c \in Chats |->
                 IF phase[c] \in {"calling", "decided"} THEN "lost" ELSE phase[c]]
  /\ consumed' = IF Durable THEN consumed ELSE {}
  /\ UNCHANGED <<msg, calls, usage, verified, outcome, cost, holders, expired>>

Next ==
  \/ \E c \in Chats : \/ AskApproval(c)
                      \/ FirstCall(c)
                      \/ ModelReturns(c)
                      \/ Reply(c)
  \/ \E b \in Blocks : \/ \E cx \in Contexts : VerifyEndpoint(b, cx)
                       \/ Expire(b)
                       \/ Prune(b)
  \/ CrashRestart

Spec == Init /\ [][Next]_vars

-----------------------------------------------------------------------------
(* An answered chat had every block of its message verified for its own    *)
(* context, by a check made for this very chat, whatever the model did:    *)
(* another chat's success, another context or loose quoting never counts   *)
(* (llm.py's verified_blocks and its authoritative context).               *)
AnswerIsVerified ==
  \A c \in Chats :
    outcome[c] = "answered" =>
      \A b \in msg[c].blocks : c \in holders[b] /\ ContextOf[b] = msg[c].ctx

(* What the deployment must set for the ledger to make blocks single use;  *)
(* app/config.py checks none of it, the window least of all.               *)
LedgerRemembers == Replay /\ Durable /\ WindowCovers

(* With replay protection, a ledger that survives restarts and a window    *)
(* that covers a band's life, a block is found valid once in all: by one   *)
(* chat or by /verify, never by two that overlap, never again by the retry *)
(* of a chat that failed later, and never after its nonce was pruned.      *)
OneHolder ==
  LedgerRemembers =>
    \A b \in Blocks : \A x, y \in holders[b] : x = y

(* One call verifies one block and the answer needs one more, so a message *)
(* with MaxCalls blocks or more cannot be answered (the loop of llm.py).   *)
AnswerFitsInLoop ==
  \A c \in Chats :
    outcome[c] = "answered" => Cardinality(msg[c].blocks) < MaxCalls

(* Nothing is billed for a chat over the threshold nobody approved, and    *)
(* it spends no nonce either (the 402 of the cost guard).                  *)
ApprovalComesFirst ==
  \A c \in Chats :
    msg[c].over /\ ~msg[c].approved =>
      usage[c] = 0 /\ \A b \in Blocks : c \notin holders[b]

(* A chat that ended without an exception reports every call it was billed *)
(* for, the failed ones included (cost_payload in each return of llm.py).  *)
CostIsReported ==
  \A c \in Chats :
    outcome[c] \notin {"none", "error"} /\ usage[c] > 0 => cost[c] = usage[c]

(* Every chat comes to its decision, or is lost in a crash: the bound on   *)
(* the loop holds even for a model that asks for the same block for ever.  *)
(* The response waits for the audit logger besides, which is not said here.*)
ChatEnds ==
  \A c \in Chats : phase[c] = "calling" ~> phase[c] \in {"decided", "replied", "lost"}

(* The inductive invariant behind these, in named parts: a request that    *)
(* has not started holds nothing; between calls the model has been billed  *)
(* for all but the call under way; a block is verified for a chat only as  *)
(* a holder in its context; each verification took a call; the answer had  *)
(* a call left; a block with a holder is in the ledger, or past its life.  *)
StartInv ==
  \A c \in Chats :
    phase[c] = "new" =>
      /\ calls[c] = 0 /\ usage[c] = 0 /\ outcome[c] = "none"
      /\ verified[c] = {}
      /\ \A b \in Blocks : c \notin holders[b]

LoopInv ==
  \A c \in Chats :
    phase[c] = "calling" =>
      /\ calls[c] > 0 /\ usage[c] = calls[c] - 1 /\ outcome[c] = "none"
      /\ Approved(msg[c])

VerifiedInv ==
  \A c \in Chats : \A b \in verified[c] :
    c \in holders[b] /\ ContextOf[b] = msg[c].ctx

CountInv ==
  \A c \in Chats :
    /\ IsFiniteSet(verified[c])
    /\ Cardinality(verified[c]) <= calls[c]
    /\ phase[c] = "calling" => Cardinality(verified[c]) < calls[c]

AnsweredInv ==
  \A c \in Chats :
    outcome[c] = "answered" =>
      msg[c].blocks \subseteq verified[c] /\ Cardinality(verified[c]) < calls[c]

HolderInv ==
  LedgerRemembers => \A b \in Blocks : holders[b] # {} => b \in consumed \cup expired

ChatInv ==
  /\ TypeOK /\ StartInv /\ LoopInv
  /\ VerifiedInv /\ CountInv /\ AnsweredInv
  /\ HolderInv /\ OneHolder
  /\ ApprovalComesFirst /\ CostIsReported

(* Chats and /verify together implement single-use tickets: the bands that *)
(* some key has signed, each held by the one chat, or the endpoint, that   *)
(* was first told it is valid, for as long as the system runs (the replay  *)
(* ledger as extract_and_verify's callers in llm.py and main.py share it). *)
Tickets == INSTANCE SingleUse WITH
  Tickets <- Blocks,
  Holders <- Chats \cup {Endpoint},
  issued  <- {b \in Blocks : ContextOf[b] # None},
  granted <- holders

ImplementsSingleUse == Tickets!Spec

-----------------------------------------------------------------------------
(* What the documents say, and the code does not do.                       *)

(* docs/API_EXAMPLES.md: with incomplete markers the application fails     *)
(* closed.  The code fails closed only when there is no complete block.    *)
IncompleteMarkersFailClosed ==
  \A c \in Chats : outcome[c] = "answered" => ~msg[c].dangling
=============================================================================
