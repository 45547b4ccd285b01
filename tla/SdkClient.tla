----------------------------- MODULE SdkClient -----------------------------
(***************************************************************************)
(* Applications that use /chat and /verify through guardbands_sdk.         *)
(*                                                                         *)
(* A chat of ChatGate is one attempt of an application: its request may be *)
(* turned away in front of the handler, its answer is turned into a return *)
(* value or an exception, and when the answer does not come in time the    *)
(* call raises while the server goes on.  The SDK never tries again by     *)
(* itself; an application may, with the same message, whatever it was told.*)
(***************************************************************************)
EXTENDS ChatGate

CONSTANTS
  Callers,     \* the applications
  By           \* which of them makes an attempt

ASSUME CallerAssumption == By \in [Chats -> Callers]

VARIABLES
  post,        \* "unsent", "sent", or "stopped" in front of the handler
  seen         \* what the call came back with, "nothing" while it has not

sdkVars == <<post, seen>>
clientVars == <<vars, sdkVars>>

(* guardbands_sdk/errors.py; and httpx.TransportError, which the SDK lets  *)
(* through: no answer within the timeout, or a broken connection.          *)
ApiErrors == {"AuthenticationError", "CostThresholdExceeded",
              "AuthorizationError", "NotFoundError", "RateLimitError",
              "VerificationFailed", "GuardBandsAPIError"}
Returns == {"response", "TransportError"} \cup ApiErrors

ClientTypeOK ==
  /\ post \in [Chats -> {"unsent", "sent", "stopped"}]
  /\ seen \in [Chats -> {"nothing"} \cup Returns]

(* An application sends the same message again, with or without approval.  *)
SameMessage(m, n) == [m EXCEPT !.approved = n.approved] = n

ClientInit ==
  /\ Init
  /\ \A c, d \in Chats : By[c] = By[d] => SameMessage(msg[c], msg[d])
  /\ post = [c \in Chats |-> "unsent"]
  /\ seen = [c \in Chats |-> "nothing"]

-----------------------------------------------------------------------------
(* The status /chat answers with.                                          *)
StatusOf(o) == CASE o = "answered" -> 200
                 [] o = "confirm"  -> 402
                 [] OTHER          -> 500

(* Does the text of the error look like a failed verification?  It does    *)
(* when a band was refused; what an exception says can be anything.        *)
LooksFailed(o) == CASE o = "refused" -> {TRUE}
                    [] o = "error"   -> BOOLEAN
                    [] OTHER         -> {FALSE}

(* _raise_api_error: by status first, and only then by the text.           *)
SortedByRange(status, failed) ==                            \* seeded fault
  IF status = 200 THEN "response"
  ELSE IF failed THEN "VerificationFailed"
  ELSE IF status < 402 THEN "AuthenticationError" ELSE "CostThresholdExceeded"
Sorted(status, failed) ==
  CASE status = 200          -> "response"
    [] status \in {401, 407} -> "AuthenticationError"
    [] status = 402          -> "CostThresholdExceeded"
    [] status = 403          -> "AuthorizationError"
    [] status = 404          -> "NotFoundError"
    [] status = 429          -> "RateLimitError"
    [] OTHER -> IF failed THEN "VerificationFailed" ELSE "GuardBandsAPIError"

(* What is answered in front of the handler: by the gateway, the identity  *)
(* middleware, the rate limiter and the validation of the body.            *)
Refusals == {401, 403, 404, 407, 422, 429}

(* The client is synchronous: an application waits for one call at a time. *)
Waiting(c) == post[c] # "unsent" /\ seen[c] = "nothing"

Send(c) ==
  /\ post[c] = "unsent"
  /\ \A d \in Chats : By[d] = By[c] => ~Waiting(d)
  /\ post' = [post EXCEPT ![c] = "sent"]
  /\ UNCHANGED <<seen, vars>>

(* The handler runs, whether or not anybody still waits for it.            *)
Serve(c) ==
  /\ post[c] = "sent"
  /\ AskApproval(c) \/ FirstCall(c) \/ ModelReturns(c) \/ Reply(c)
  /\ UNCHANGED sdkVars

Told(c, e) == seen' = IF seen[c] = "nothing" THEN [seen EXCEPT ![c] = e] ELSE seen

(* The request is answered before it reaches the handler.                  *)
TurnAwayLate(c, status) ==                                  \* seeded fault
  /\ post[c] = "sent" /\ phase[c] # "calling"
  /\ post' = [post EXCEPT ![c] = "stopped"]
  /\ Told(c, Sorted(status, FALSE))
  /\ UNCHANGED vars
TurnAway(c, status) ==
  /\ post[c] = "sent"
  /\ phase[c] = "new"
  /\ post' = [post EXCEPT ![c] = "stopped"]
  /\ Told(c, Sorted(status, FALSE))
  /\ UNCHANGED vars

(* The handler's answer arrives: _post returns it or raises.               *)
Receive(c) ==
  /\ post[c] = "sent"
  /\ phase[c] = "replied"
  /\ seen[c] = "nothing"
  /\ \E failed \in LooksFailed(outcome[c]) :
       seen' = [seen EXCEPT ![c] = Sorted(StatusOf(outcome[c]), failed)]
  /\ UNCHANGED <<post, vars>>

(* The timeout runs out, or the connection breaks under a crash.           *)
GiveUp(c) ==
  /\ Waiting(c)
  /\ seen' = [seen EXCEPT ![c] = "TransportError"]
  /\ UNCHANGED <<post, vars>>

(* GuardBandsClient.verify finds a block valid.                            *)
VerifyFirst(b, cx) == VerifyEndpoint(b, cx) /\ UNCHANGED sdkVars

(* What goes on around the applications.                                   *)
Elsewhere ==
  /\ CrashRestart \/ \E b \in Blocks : Expire(b) \/ Prune(b)
  /\ UNCHANGED sdkVars

ClientNext ==
  \/ \E c \in Chats : \/ Send(c) \/ Serve(c) \/ Receive(c) \/ GiveUp(c)
                      \/ \E status \in Refusals : TurnAway(c, status)
  \/ \E b \in Blocks, cx \in Contexts : VerifyFirst(b, cx)
  \/ Elsewhere

ClientSpec == ClientInit /\ [][ClientNext]_clientVars

-----------------------------------------------------------------------------
(* The exceptions after which an attempt has cost nothing.                 *)
Harmless == {"AuthenticationError", "AuthorizationError", "NotFoundError",
             "RateLimitError", "CostThresholdExceeded"}

(* When the SDK raises one of these, the attempt was billed nothing, spent *)
(* no nonce and never will: sending it again is as good as the first time. *)
(* (The order of middleware, limiter and cost guard, and the status-first  *)
(* mapping of the SDK.)                                                    *)
SafeToResend ==
  \A c \in Chats :
    seen[c] \in Harmless =>
      /\ usage[c] = 0
      /\ \A b \in Blocks : c \notin holders[b]
      /\ phase[c] # "calling"

(* However often a guarded message is sent, after whatever exceptions and  *)
(* while lost attempts still run: one attempt at most is answered, and     *)
(* only if no other attempt, not even one that failed later, has spent     *)
(* one of its blocks.  So says a ledger that remembers for a band's life.  *)
AnsweredOnce ==
  LedgerRemembers =>
    \A c, d \in Chats :
      /\ c # d
      /\ outcome[c] = "answered"
      => \A b \in msg[c].blocks :
           d \notin holders[b] /\ (outcome[d] = "answered" => b \notin msg[d].blocks)

(* docs/PYTHON_SDK.md verifies a block and then sends it to chat.  With a  *)
(* ledger that remembers for a band's life, that verification is the       *)
(* block's one use: no chat is answered with it afterwards.                *)
VerifiedFirstIsSpent ==
  LedgerRemembers =>
    \A c \in Chats, b \in Blocks :
      Endpoint \in holders[b] /\ b \in msg[c].blocks => outcome[c] # "answered"

(* The inductive invariant of the client's side: only a request that was   *)
(* sent is handled; one that was turned away never is; a harmless error    *)
(* comes from a refusal or from the cost guard, which asks only for what   *)
(* is not approved.                                                        *)
ClientInv ==
  /\ ClientTypeOK
  /\ \A c \in Chats :
       /\ post[c] # "sent" => phase[c] = "new"
       /\ seen[c] \in Harmless => post[c] = "stopped" \/ outcome[c] = "confirm"
       /\ outcome[c] = "confirm" => ~Approved(msg[c])
=============================================================================
