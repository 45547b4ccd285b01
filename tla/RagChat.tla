------------------------------ MODULE RagChat ------------------------------
(***************************************************************************)
(* What a request to /chat is made of, in front of ChatGate: documents     *)
(* retrieved by integrations/rag_middleware.py, each wrapped in a context  *)
(* of its own, or bands of one plain context; and the estimate of          *)
(* app/cost.py that decides whether the request must be approved.          *)
(*                                                                         *)
(* Money is counted in fractions of a millionth of a dollar, Unit to the   *)
(* millionth, because prices are given per million tokens and totals are   *)
(* rounded to six places.                                                  *)
(***************************************************************************)
EXTENDS ChatGate

CONSTANTS
  Bases,         \* the contexts applications start from
  MaxDocs,       \* bound: documents in a prompt
  Requests,      \* what clients send: see Request
  GuardEnabled,  \* settings.COST_GUARD_ENABLED
  Threshold,     \* settings.COST_GUARD_THRESHOLD_USD
  InPrice,       \* settings.COST_GUARD_INPUT_USD_PER_MTOK, for one token
  OutPrice,      \* settings.COST_GUARD_OUTPUT_USD_PER_MTOK, for one token
  Unit,
  RoundedUp,     \* totals halfway between two millionths that become the upper one
  DefaultLimit   \* settings.LLM_MAX_OUTPUT_TOKENS

VARIABLE request \* what each client sent; msg is what the handler makes of it

ragVars == <<vars, request>>

-----------------------------------------------------------------------------
NoIndex == -1    \* in a context that is not a document's

PlainContext(base) == [base |-> base, index |-> NoIndex]

(* document_context: the position of the document goes into its context.   *)
DocumentContextShared(base, i) == [base |-> base, index |-> 0] \* seeded fault
DocumentContext(base, i) == [base |-> base, index |-> i]

RagContexts ==
  {PlainContext(base) : base \in Bases}
    \cup {DocumentContext(base, i) : base \in Bases, i \in 0..MaxDocs - 1}

(* A band is known by its context and by which of that context's it is.    *)
RagBlocks == [ctx : RagContexts, id : 0..MaxDocs - 1]
SignedFor == [b \in Blocks |-> b.ctx]

(* wrap_retrieved_documents on n documents, and build_guarded_rag_prompt.  *)
Prompt(base, n) ==
  {[ctx |-> DocumentContext(base, i), id |-> i] : i \in 0..n - 1}

-----------------------------------------------------------------------------
(* A limit of 0 stands for no max_output_tokens.  A client confirms the    *)
(* cost always, never, or when /chat/estimate-cost asked for it.           *)
Request == [blocks : SUBSET Blocks, dangling : BOOLEAN, ctx : RagContexts,
            length : Nat, limit : Nat, confirm : {"always", "never", "whenAsked"}]

(* estimate_tokens_for_value: four characters to a token, and one at least.*)
Tokens(length) == IF length = 0 THEN 1 ELSE (length + 3) \div 4

(* The max_tokens of every model call, and the budget that is estimated.   *)
OutputLimit(r) == IF r.limit = 0 THEN DefaultLimit ELSE r.limit

(* calculate_cost_usd: round(total, 6).  No half of a millionth has an     *)
(* exact binary form, so which way one goes is up to the arithmetic.       *)
Rounded(x) ==
  LET rest == x % Unit
  IN  x \div Unit
        + (IF 2 * rest > Unit \/ (2 * rest = Unit /\ x \in RoundedUp) THEN 1 ELSE 0)

CostOfTokens(in, out) == Rounded((in + out) * InPrice)      \* seeded fault
Cost(in, out) == Rounded(in * InPrice + out * OutPrice)

(* estimate_chat_request_cost: one call, priced with its whole budget.     *)
RequiresConfirmation(r) ==
  GuardEnabled /\ Cost(Tokens(r.length), OutputLimit(r)) * Unit >= Threshold

(* /chat/estimate-cost: the same estimate, and nothing else happens.        *)
EstimateSays(r) == RequiresConfirmation(r)

(* What /chat makes of the request.                                        *)
MessageOf(r) ==
  [blocks |-> r.blocks, dangling |-> r.dangling, ctx |-> r.ctx,
   over |-> RequiresConfirmation(r),
   approved |-> r.confirm = "always" \/ (r.confirm = "whenAsked" /\ EstimateSays(r))]

ASSUME RagAssumption ==
  /\ MaxDocs \in Nat
  /\ Requests \subseteq Request
  /\ Blocks \subseteq RagBlocks /\ Contexts = RagContexts
  /\ ContextOf = SignedFor
  /\ Messages = {MessageOf(r) : r \in Requests}
  /\ GuardEnabled \in BOOLEAN
  /\ Threshold \in Nat /\ InPrice \in Nat /\ OutPrice \in Nat /\ DefaultLimit \in Nat
  /\ Unit \in Nat \ {0}

RagInit ==
  /\ request \in [Chats -> Requests]
  /\ msg = [c \in Chats |-> MessageOf(request[c])]
  /\ Init

(* The request does not change while it is served.                         *)
RagNext == Next /\ UNCHANGED request

RagSpec == RagInit /\ [][RagNext]_ragVars

(* The provider's client library times out, so an awaited call returns or  *)
(* raises, with whatever answer.                                           *)
FairRagSpec ==
  RagSpec /\ \A c \in Chats : WF_ragVars(ModelReturns(c) /\ UNCHANGED request)

-----------------------------------------------------------------------------
(* A prompt made of several retrieved documents is never answered, however *)
(* the model verifies them and whatever context is sent along: each has a  *)
(* context of its own, the chat has one (document_context of the RAG       *)
(* middleware against the authoritative context of llm.py).                *)
SeveralDocumentsRefused ==
  \A c \in Chats, base \in Bases, n \in 2..MaxDocs :
    Prompt(base, n) \subseteq request[c].blocks => outcome[c] # "answered"

(* What an unconfirmed chat can spend on output: the estimate covers one   *)
(* call and is compared after rounding, so all its calls together stay     *)
(* below MaxCalls times the threshold and half a millionth of a dollar     *)
(* each (app/cost.py against the loop of llm.py).                          *)
OverrunBounded ==
  \A c \in Chats :
    GuardEnabled /\ ~msg[c].approved /\ usage[c] > 0 =>
      2 * (usage[c] * (OutputLimit(request[c]) * OutPrice)) < MaxCalls * (2 * Threshold + Unit)

(* The handler's view of a request is the one its estimate gave.           *)
RequestInv ==
  /\ request \in [Chats -> Requests]
  /\ msg = [c \in Chats |-> MessageOf(request[c])]
=============================================================================
