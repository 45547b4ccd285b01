--------------------------- MODULE Clients_proofs ---------------------------
(***************************************************************************)
(* For any clients of /chat: what ChatGate_proofs shows carries over to    *)
(* requests that are priced and made of retrieved documents (RagChat) and  *)
(* to the calls of the SDK (SdkClient), with what those modules promise.   *)
(***************************************************************************)
EXTENDS RagChat, SdkClient, ChatGate_proofs

(* What a chat was sent does not change, nor does an outcome once there is *)
(* one; a chat that has not begun is moved by its own steps only.          *)
LEMMA OutcomesStay ==
  ASSUME ChatInv, [Next]_vars
  PROVE  /\ msg' = msg
         /\ \A c \in Chats : outcome[c] # "none" => outcome'[c] = outcome[c]
<1> USE DEF ChatInv, TypeOK, StartInv, LoopInv
<1>1. CASE UNCHANGED vars
  BY <1>1 DEF vars, chatVars
<1>2. ASSUME NEW c \in Chats, AskApproval(c) \/ FirstCall(c) \/ Reply(c)
      PROVE  /\ msg' = msg
             /\ \A d \in Chats : outcome[d] # "none" => outcome'[d] = outcome[d]
  BY <1>2 DEF AskApproval, FirstCall, Reply, Leave, NoCheck
<1>3. ASSUME NEW c \in Chats, ModelReturns(c)
      PROVE  /\ msg' = msg
             /\ \A d \in Chats : outcome[d] # "none" => outcome'[d] = outcome[d]
  <2>1. CASE FinalText(c) \/ UnsupportedTool(c) \/ Raises(c)
    BY <2>1 DEF FinalText, UnsupportedTool, Raises, Billed, Leave, NoCheck
  <2>2. ASSUME NEW t, VerificationFails(c, t)
        PROVE  /\ msg' = msg
               /\ \A d \in Chats : outcome[d] # "none" => outcome'[d] = outcome[d]
    BY <2>2 DEF VerificationFails, Billed, Leave, NoCheck
  <2>3. ASSUME NEW b, NEW exact, VerificationHolds(c, b, exact)
        PROVE  /\ msg' = msg
               /\ \A d \in Chats : outcome[d] # "none" => outcome'[d] = outcome[d]
    BY <2>3 DEF VerificationHolds, Billed, Leave
  <2> QED
    BY <1>3, <2>1, <2>2, <2>3 DEF ModelReturns
<1>4. ASSUME NEW b \in Blocks, NEW cx \in Contexts, VerifyEndpoint(b, cx)
      PROVE  msg' = msg /\ outcome' = outcome
  BY <1>4 DEF VerifyEndpoint, chatVars
<1>5. ASSUME NEW b \in Blocks, Expire(b) \/ Prune(b)
      PROVE  msg' = msg /\ outcome' = outcome
  BY <1>5 DEF Expire, Prune, chatVars
<1>6. CASE CrashRestart
  BY <1>6 DEF CrashRestart
<1> QED
  BY <1>1, <1>2, <1>3, <1>4, <1>5, <1>6 DEF Next

-----------------------------------------------------------------------------
(* Pricing a request and wrapping documents changes nothing in the chat.   *)
LEMMA RagIsChat == RagSpec => Spec
<1>1. RagInit => Init
  BY DEF RagInit
<1>2. [RagNext]_ragVars => [Next]_vars
  BY DEF RagNext, ragVars
<1> QED
  BY <1>1, <1>2, PTL DEF RagSpec, Spec

(* The handler's message stays the one that was priced.                    *)
THEOREM RequestsArePriced == RagSpec => []RequestInv
<1>1. RagSpec => []ChatInv
  BY RagIsChat, ChatInvariant, PTL
<1>2. RagInit => RequestInv
  BY DEF RagInit, RequestInv
<1>3. ChatInv /\ RequestInv /\ [RagNext]_ragVars => RequestInv'
  BY OutcomesStay DEF RagNext, ragVars, vars, chatVars, RequestInv
<1> QED
  BY <1>1, <1>2, <1>3, PTL DEF RagSpec

(* However many documents, tenants and calls there are: a prompt of        *)
(* several documents is not answered.                                      *)
THEOREM OneDocumentPerAnswer == RagSpec => []SeveralDocumentsRefused
<1>1. ASSUME ChatInv, RequestInv, NEW c \in Chats, NEW base \in Bases,
             NEW n \in 2..MaxDocs, Prompt(base, n) \subseteq request[c].blocks,
             outcome[c] = "answered"
      PROVE  FALSE
  <2> DEFINE Doc(i) == [ctx |-> DocumentContext(base, i), id |-> i]
  <2>1. /\ msg[c] = MessageOf(request[c])
        /\ request[c] \in Request
    BY <1>1, RagAssumption DEF RequestInv
  <2>2. request[c].blocks \subseteq Blocks /\ msg[c].blocks = request[c].blocks
    BY <2>1 DEF MessageOf, Request
  <2>3. \A b \in msg[c].blocks : b.ctx = msg[c].ctx
    BY <1>1, <2>2, RagAssumption
    DEF ChatInv, AnsweredInv, VerifiedInv, SignedFor
  <2>4. Doc(0) \in Prompt(base, n) /\ Doc(1) \in Prompt(base, n)
    BY RagAssumption DEF Prompt
  <2>5. Doc(0).ctx = Doc(1).ctx
    BY <1>1, <2>2, <2>3, <2>4
  <2>6. Doc(0).ctx.index # Doc(1).ctx.index
    BY DEF DocumentContext
  <2> QED
    BY <2>5, <2>6
<1>2. ChatInv /\ RequestInv => SeveralDocumentsRefused
  BY <1>1 DEF SeveralDocumentsRefused
<1> QED
  BY <1>2, RagIsChat, ChatInvariant, RequestsArePriced, PTL

(* A rounded total is at most half a millionth below the exact one.        *)
LEMMA RoundedNear ==
  ASSUME NEW x \in Nat
  PROVE  /\ Rounded(x) \in Nat
         /\ 2 * x <= 2 * (Rounded(x) * Unit) + Unit
<1> USE RagAssumption
<1> DEFINE q == x \div Unit
           rest == x % Unit
<1>1. q \in Nat /\ rest \in Nat /\ rest < Unit /\ x = Unit * q + rest
  BY Z3
<1>2. CASE Rounded(x) = q
  <2>1. 2 * rest <= Unit
    BY <1>1, <1>2 DEF Rounded
  <2> QED
    BY <1>1, <1>2, <2>1
<1>3. CASE Rounded(x) = q + 1
  <2>1. (q + 1) * Unit = Unit * q + Unit
    BY <1>1
  <2> QED
    BY <1>1, <1>3, <2>1
<1> QED
  BY <1>1, <1>2, <1>3 DEF Rounded

(* Rounding keeps the order of totals, whichever way halves go.            *)
LEMMA RoundedMonotone ==
  ASSUME NEW x \in Nat, NEW y \in Nat, x <= y
  PROVE  Rounded(x) <= Rounded(y)
<1> USE RagAssumption
<1> DEFINE p == x \div Unit
           q == y \div Unit
           r == x % Unit
           s == y % Unit
<1>1. /\ p \in Nat /\ r \in Nat /\ r < Unit /\ x = Unit * p + r
      /\ q \in Nat /\ s \in Nat /\ s < Unit /\ y = Unit * q + s
  BY Z3
<1>2. /\ Rounded(x) = p + (IF 2 * r > Unit \/ (2 * r = Unit /\ x \in RoundedUp)
                             THEN 1 ELSE 0)
      /\ Rounded(y) = q + (IF 2 * s > Unit \/ (2 * s = Unit /\ y \in RoundedUp)
                             THEN 1 ELSE 0)
  BY DEF Rounded
<1> HIDE DEF p, q, r, s
<1>3. p <= q
  <2> SUFFICES ASSUME q + 1 <= p PROVE FALSE
    BY <1>1
  <2>1. Unit * (q + 1) <= Unit * p
    BY <1>1, Z3
  <2>2. Unit * (q + 1) = Unit * q + Unit /\ Unit * q \in Nat /\ Unit * p \in Nat
    BY <1>1, Z3
  <2> QED
    BY <1>1, <2>1, <2>2
<1>4. CASE p = q
  <2>1. r < s \/ x = y
    <3>1. r <= s
      BY <1>1, <1>4, Z3
    <3> QED
      BY <1>1, <1>4, <3>1
  <2> QED
    BY <1>1, <1>2, <1>4, <2>1
<1>5. CASE p < q
  BY <1>1, <1>2, <1>5
<1> QED
  BY <1>1, <1>3, <1>4, <1>5

(* The guard cannot be got under by asking for more: a request with no     *)
(* less text and no smaller output limit than one that needs approval      *)
(* needs approval too, for all prices, thresholds and ways of rounding     *)
(* (estimate_chat_request_cost and requires_confirmation of app/cost.py).  *)
THEOREM GuardIsMonotone ==
  ASSUME NEW r \in Request, NEW s \in Request,
         r.length <= s.length, OutputLimit(r) <= OutputLimit(s),
         RequiresConfirmation(r)
  PROVE  RequiresConfirmation(s)
<1> USE RagAssumption
<1> DEFINE i == Tokens(r.length)
           j == Tokens(s.length)
           m == OutputLimit(r)
           n == OutputLimit(s)
<1>1. i \in Nat /\ j \in Nat /\ i <= j
  BY DEF Request, Tokens
<1>2. m \in Nat /\ n \in Nat /\ m <= n
  BY DEF Request, OutputLimit
<1> HIDE DEF i, j, m, n
<1>3. /\ i * InPrice \in Nat /\ j * InPrice \in Nat /\ i * InPrice <= j * InPrice
      /\ m * OutPrice \in Nat /\ n * OutPrice \in Nat /\ m * OutPrice <= n * OutPrice
  BY <1>1, <1>2, Z3
<1> DEFINE x == i * InPrice + m * OutPrice
           y == j * InPrice + n * OutPrice
<1>4. x \in Nat /\ y \in Nat /\ x <= y
  BY <1>3
<1>5. /\ RequiresConfirmation(r) <=> GuardEnabled /\ Rounded(x) * Unit >= Threshold
      /\ RequiresConfirmation(s) <=> GuardEnabled /\ Rounded(y) * Unit >= Threshold
  BY DEF RequiresConfirmation, Cost, i, j, m, n
<1> HIDE DEF x, y
<1>6. Rounded(x) \in Nat /\ Rounded(y) \in Nat /\ Rounded(x) <= Rounded(y)
  BY <1>4, RoundedNear, RoundedMonotone
<1>7. Rounded(x) * Unit <= Rounded(y) * Unit
  BY <1>6, Z3
<1>8. Rounded(x) * Unit \in Nat /\ Rounded(y) * Unit \in Nat
  BY <1>6, Z3
<1> QED
  BY <1>5, <1>7, <1>8

(* What is multiplied by at most n, n not zero, stays below n bounds.      *)
LEMMA Multiplied ==
  ASSUME NEW n \in Nat \ {0}, NEW k \in Nat, k <= n,
         NEW y \in Nat, NEW z \in Nat, 2 * y < z
  PROVE  2 * (k * y) < n * z
<1>1. k * y <= n * y
  BY Z3
<1>2. n * (2 * y) < n * z
  BY Z3
<1>3. /\ k * y \in Nat /\ n * y \in Nat /\ n * z \in Nat
      /\ n * (2 * y) = 2 * (n * y)
  BY Z3
<1> QED
  BY <1>1, <1>2, <1>3

(* Without approval the output of all calls costs less than MaxCalls       *)
(* thresholds and half-millionths, for any prices, limits and rounding.    *)
THEOREM UnapprovedSpendingIsBounded == RagSpec => []OverrunBounded
<1> USE RagAssumption, ChatAssumption
<1>1. ASSUME ChatInv, RequestInv, NEW c \in Chats,
             GuardEnabled, ~msg[c].approved, usage[c] > 0
      PROVE  2 * (usage[c] * (OutputLimit(request[c]) * OutPrice))
               < MaxCalls * (2 * Threshold + Unit)
  <2> DEFINE r == request[c]
             y == OutputLimit(r) * OutPrice
             w == Tokens(r.length) * InPrice
             x == w + y
  <2>1. r \in Request /\ msg[c] = MessageOf(r) /\ usage[c] \in 0..MaxCalls
    BY <1>1 DEF RequestInv, ChatInv, TypeOK
  <2>2. ~RequiresConfirmation(r)
    BY <1>1, <2>1 DEF ChatInv, ApprovalComesFirst, MessageOf
  <2>3. OutputLimit(r) \in Nat /\ Tokens(r.length) \in Nat
    BY <2>1 DEF Request, OutputLimit, Tokens
  <2>4. y \in Nat /\ w \in Nat
    BY <2>3
  <2>5. Rounded(x) * Unit < Threshold /\ Rounded(x) \in Nat
    BY <1>1, <2>2, <2>3, <2>4, RoundedNear DEF RequiresConfirmation, Cost
  <2>6. 2 * x <= 2 * (Rounded(x) * Unit) + Unit
    BY <2>4, RoundedNear
  <2>7. Rounded(x) * Unit \in Nat
    BY <2>5
  <2> HIDE DEF y, w
  <2>8. 2 * y < 2 * Threshold + Unit
    BY <2>4, <2>5, <2>6, <2>7
  <2>9. 2 * (usage[c] * y) < MaxCalls * (2 * Threshold + Unit)
    BY <2>1, <2>4, <2>8, Multiplied
  <2> QED
    BY <2>9 DEF y
<1>2. ChatInv /\ RequestInv => OverrunBounded
  BY <1>1 DEF OverrunBounded
<1> QED
  BY <1>2, RagIsChat, ChatInvariant, RequestsArePriced, PTL

-----------------------------------------------------------------------------
(* What the SDK's calls do to the service are steps of the chats.          *)
LEMMA ClientIsChat == ClientSpec => Spec
<1>1. ClientInit => Init
  BY DEF ClientInit
<1>2. [ClientNext]_clientVars => [Next]_vars
  <2> SUFFICES ASSUME ClientNext PROVE [Next]_vars
    BY DEF clientVars
  <2>1. ASSUME NEW c \in Chats, Send(c) \/ Receive(c) \/ GiveUp(c)
        PROVE  UNCHANGED vars
    BY <2>1 DEF Send, Receive, GiveUp
  <2>2. ASSUME NEW c \in Chats, NEW status \in Refusals, TurnAway(c, status)
        PROVE  UNCHANGED vars
    BY <2>2 DEF TurnAway
  <2>3. ASSUME NEW c \in Chats, Serve(c)
        PROVE  Next
    BY <2>3 DEF Serve, Next
  <2>4. ASSUME NEW b \in Blocks, NEW cx \in Contexts, VerifyFirst(b, cx)
        PROVE  Next
    BY <2>4 DEF VerifyFirst, Next
  <2>5. CASE Elsewhere
    BY <2>5 DEF Elsewhere, Next
  <2> QED
    BY <2>1, <2>2, <2>3, <2>4, <2>5 DEF ClientNext
<1> QED
  BY <1>1, <1>2, PTL DEF ClientSpec, Spec

(* So the attempts of any applications, in whatever order they are sent,   *)
(* lost and sent again, use the bands as single-use tickets.               *)
THEOREM ClientsUseTickets ==
  ASSUME Replay, Durable, WindowCovers
  PROVE  ClientSpec => ImplementsSingleUse
BY ClientIsChat, ChatsUseTickets, PTL

(* A chat is moved on only while its request is with the handler.          *)
LEMMA OthersStayNew ==
  ASSUME ChatInv, ClientTypeOK, [ClientNext]_clientVars,
         NEW c \in Chats, post[c] # "sent", phase[c] = "new"
  PROVE  phase'[c] = "new"
<1> USE DEF ChatInv, TypeOK
<1>1. CASE UNCHANGED clientVars
  BY <1>1 DEF clientVars, vars, chatVars
<1>2. ASSUME NEW d \in Chats, Send(d) \/ Receive(d) \/ GiveUp(d)
      PROVE  phase' = phase
  BY <1>2 DEF Send, Receive, GiveUp, vars, chatVars
<1>3. ASSUME NEW d \in Chats, NEW status \in Refusals, TurnAway(d, status)
      PROVE  phase' = phase
  BY <1>3 DEF TurnAway, vars, chatVars
<1>4. ASSUME NEW d \in Chats, Serve(d)
      PROVE  phase'[c] = phase[c]
  <2>1. c # d
    BY <1>4 DEF Serve
  <2>2. CASE AskApproval(d) \/ FirstCall(d) \/ Reply(d)
    BY <2>1, <2>2 DEF AskApproval, FirstCall, Reply, Leave
  <2>3. CASE ModelReturns(d)
    BY <2>1, <2>3 DEF ModelReturns, FinalText, UnsupportedTool, Raises,
                      VerificationFails, VerificationHolds, Leave
  <2> QED
    BY <1>4, <2>2, <2>3 DEF Serve
<1>5. ASSUME NEW b \in Blocks, NEW cx \in Contexts, VerifyFirst(b, cx)
      PROVE  phase' = phase
  BY <1>5 DEF VerifyFirst, VerifyEndpoint, chatVars
<1>6. CASE Elsewhere
  BY <1>6 DEF Elsewhere, CrashRestart, Expire, Prune, chatVars
<1> QED
  BY <1>1, <1>2, <1>3, <1>4, <1>5, <1>6 DEF ClientNext

(* Only the cost guard asks for approval.                                  *)
LEMMA ConfirmedIsUnapproved ==
  ASSUME ChatInv, [Next]_vars, NEW c \in Chats,
         outcome[c] = "confirm" => ~Approved(msg[c]),
         outcome'[c] = "confirm"
  PROVE  ~Approved(msg[c])
<1>1. CASE outcome[c] # "none"
  BY <1>1, OutcomesStay
<1>2. CASE outcome[c] = "none"
  <2> USE <1>2 DEF ChatInv, TypeOK
  <2>1. CASE UNCHANGED vars
    BY <2>1 DEF vars, chatVars
  <2>2. ASSUME NEW d \in Chats, AskApproval(d)
        PROVE  ~Approved(msg[c])
    BY <2>2 DEF AskApproval, Leave
  <2>3. ASSUME NEW d \in Chats, FirstCall(d) \/ Reply(d)
        PROVE  FALSE
    BY <2>3 DEF FirstCall, Reply
  <2>4. ASSUME NEW d \in Chats, ModelReturns(d)
        PROVE  FALSE
    <3>1. CASE FinalText(d) \/ UnsupportedTool(d) \/ Raises(d)
      BY <3>1 DEF FinalText, FinalOutcome, UnsupportedTool, Raises, Leave
    <3>2. ASSUME NEW t, VerificationFails(d, t)
          PROVE  FALSE
      BY <3>2 DEF VerificationFails, Leave
    <3>3. ASSUME NEW b, NEW exact, VerificationHolds(d, b, exact)
          PROVE  FALSE
      BY <3>3 DEF VerificationHolds, Leave
    <3> QED
      BY <2>4, <3>1, <3>2, <3>3 DEF ModelReturns
  <2>5. CASE CrashRestart \/ \E b \in Blocks : Expire(b) \/ Prune(b)
    BY <2>5 DEF CrashRestart, Expire, Prune, chatVars
  <2>6. ASSUME NEW b \in Blocks, NEW cx \in Contexts, VerifyEndpoint(b, cx)
        PROVE  FALSE
    BY <2>6 DEF VerifyEndpoint, chatVars
  <2> QED
    BY <2>1, <2>2, <2>3, <2>4, <2>5, <2>6 DEF Next
<1> QED
  BY <1>1, <1>2

(* The invariant of the client's side holds throughout.                    *)
THEOREM ClientInvariant == ClientSpec => []ClientInv
<1>1. ClientSpec => []ChatInv
  BY ClientIsChat, ChatInvariant, PTL
<1>2. ClientInit => ClientInv
  BY DEF ClientInit, Init, ClientInv, ClientTypeOK, Harmless
<1>3. ChatInv /\ ClientInv /\ [ClientNext]_clientVars /\ [Next]_vars => ClientInv'
  <2> SUFFICES ASSUME ChatInv, ClientInv, [ClientNext]_clientVars, [Next]_vars
               PROVE  ClientInv'
    OBVIOUS
  <2> USE DEF ClientInv, ClientTypeOK
  <2>1. /\ msg' = msg
        /\ \A c \in Chats : outcome[c] # "none" => outcome'[c] = outcome[c]
    BY OutcomesStay
  <2>2. \A c \in Chats : outcome'[c] = "confirm" => ~Approved(msg[c])
    BY ConfirmedIsUnapproved
  <2>3. \A c \in Chats : post[c] # "sent" => phase'[c] = "new"
    BY OthersStayNew
  <2> DEFINE SideInv ==
               /\ ClientTypeOK
               /\ \A c \in Chats :
                    /\ post[c] # "sent" => phase[c] = "new"
                    /\ seen[c] \in Harmless =>
                         post[c] = "stopped" \/ outcome[c] = "confirm"
  <2>4. SideInv'
    <3>1. CASE UNCHANGED clientVars
      BY <2>1, <2>3, <3>1 DEF clientVars, sdkVars
    <3>2. ASSUME NEW d \in Chats, Send(d)
          PROVE  SideInv'
      BY <2>1, <2>3, <3>2 DEF Send
    <3>3. ASSUME NEW d \in Chats, Serve(d)
          PROVE  SideInv'
      BY <2>1, <2>3, <3>3 DEF Serve, sdkVars
    <3>4. ASSUME NEW d \in Chats, NEW status \in Refusals, TurnAway(d, status)
          PROVE  SideInv'
      <4>1. Sorted(status, FALSE) \in Returns
        BY DEF Sorted, Returns, ApiErrors
      <4> QED
        BY <2>1, <2>3, <3>4, <4>1 DEF TurnAway, Told, vars, chatVars
    <3>5. ASSUME NEW d \in Chats, Receive(d)
          PROVE  SideInv'
      <4>1. PICK failed \in LooksFailed(outcome[d]) :
              seen' = [seen EXCEPT ![d] = Sorted(StatusOf(outcome[d]), failed)]
        BY <3>5 DEF Receive
      <4>2. /\ Sorted(StatusOf(outcome[d]), failed) \in Returns
            /\ Sorted(StatusOf(outcome[d]), failed) \in Harmless => outcome[d] = "confirm"
        <5>0. failed \in BOOLEAN
          BY DEF LooksFailed
        <5>1. CASE outcome[d] = "answered"
          <6>1. StatusOf(outcome[d]) = 200
            BY <5>1 DEF StatusOf
          <6>2. Sorted(200, failed) = "response"
            BY <5>0 DEF Sorted
          <6> QED
            BY <6>1, <6>2 DEF Returns, Harmless
        <5>2. CASE outcome[d] = "confirm"
          <6>1. StatusOf(outcome[d]) = 402
            BY <5>2 DEF StatusOf
          <6>2. Sorted(402, failed) = "CostThresholdExceeded"
            BY <5>0 DEF Sorted
          <6> QED
            BY <5>2, <6>1, <6>2 DEF Returns, ApiErrors
        <5>3. CASE outcome[d] \notin {"answered", "confirm"}
          <6>1. StatusOf(outcome[d]) = 500
            BY <5>3 DEF StatusOf
          <6>2. Sorted(500, failed) \in {"VerificationFailed", "GuardBandsAPIError"}
            BY <5>0 DEF Sorted
          <6> QED
            BY <6>1, <6>2 DEF Returns, ApiErrors, Harmless
        <5> QED
          BY <5>1, <5>2, <5>3
      <4>3. post' = post
        BY <3>5 DEF Receive
      <4>4. seen' \in [Chats -> {"nothing"} \cup Returns]
        BY <4>1, <4>2
      <4>5. ASSUME NEW c \in Chats, seen'[c] \in Harmless
            PROVE  post'[c] = "stopped" \/ outcome'[c] = "confirm"
        <5>1. CASE c = d
          BY <2>1, <4>1, <4>2, <4>5, <5>1
        <5>2. CASE c # d
          BY <2>1, <4>1, <4>3, <4>5, <5>2
        <5> QED
          BY <5>1, <5>2
      <4> QED
        BY <2>3, <4>3, <4>4, <4>5
    <3>6. ASSUME NEW d \in Chats, GiveUp(d)
          PROVE  SideInv'
      BY <2>1, <2>3, <3>6 DEF GiveUp, Returns, Harmless
    <3>7. ASSUME NEW b \in Blocks, NEW cx \in Contexts, VerifyFirst(b, cx)
          PROVE  SideInv'
      BY <2>1, <2>3, <3>7 DEF VerifyFirst, sdkVars
    <3>8. CASE Elsewhere
      BY <2>1, <2>3, <3>8 DEF Elsewhere, sdkVars
    <3> QED
      BY <3>1, <3>2, <3>3, <3>4, <3>5, <3>6, <3>7, <3>8 DEF ClientNext
  <2> QED
    BY <2>1, <2>2, <2>4 DEF Approved
<1> QED
  BY <1>1, <1>2, <1>3, ClientIsChat, PTL DEF ClientSpec, Spec

(* After any exception that is harmless to the caller, the attempt was     *)
(* billed nothing, spent nothing and is over.                              *)
THEOREM HarmlessMeansUnspent == ClientSpec => []SafeToResend
<1>1. ASSUME ChatInv, ClientInv, NEW c \in Chats, seen[c] \in Harmless
      PROVE  /\ usage[c] = 0
             /\ \A b \in Blocks : c \notin holders[b]
             /\ phase[c] # "calling"
  <2>1. CASE post[c] = "stopped"
    BY <1>1, <2>1 DEF ClientInv, ChatInv, StartInv
  <2>2. CASE outcome[c] = "confirm"
    BY <1>1, <2>2 DEF ClientInv, ChatInv, LoopInv, ApprovalComesFirst, Approved
  <2> QED
    BY <1>1, <2>1, <2>2 DEF ClientInv
<1>2. ChatInv /\ ClientInv => SafeToResend
  BY <1>1 DEF SafeToResend
<1> QED
  BY <1>2, ClientIsChat, ChatInvariant, ClientInvariant, PTL

(* Of any number of attempts that share a block, one is answered at most,  *)
(* and none after another has spent the block, if the ledger remembers for *)
(* the life of a band (the antecedent of AnsweredOnce).                    *)
THEOREM AttemptsAnswerOnce == ClientSpec => []AnsweredOnce
<1>1. ChatInv => AnsweredOnce
  BY ChatAssumption DEF ChatInv, TypeOK, Message, AnsweredInv, VerifiedInv,
                        OneHolder, AnsweredOnce
<1> QED
  BY <1>1, ClientIsChat, ChatInvariant, PTL

(* A block that /verify found valid is never part of an answered chat,     *)
(* under the same antecedent.                                              *)
THEOREM VerifiedElsewhereIsSpent == ClientSpec => []VerifiedFirstIsSpent
<1>1. ChatInv => VerifiedFirstIsSpent
  BY ChatAssumption DEF ChatInv, TypeOK, Message, AnsweredInv, VerifiedInv,
                        OneHolder, VerifiedFirstIsSpent
<1> QED
  BY <1>1, ClientIsChat, ChatInvariant, PTL
=============================================================================
