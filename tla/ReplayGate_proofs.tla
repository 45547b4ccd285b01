------------------------- MODULE ReplayGate_proofs -------------------------
(* Proofs about ReplayGate, for every set of requests, workers, users and  *)
(* contexts and every configuration ConfigAssumption admits.               *)
EXTENDS ReplayGate, FiniteSetTheorems, TLAPS

(* No step of the service takes a variable out of its type; in particular  *)
(* no nonce is stored beyond the clock plus the window.                    *)
LEMMA TypeStep == TypeOK /\ [Next]_vars => TypeOK'
<1> USE ConfigAssumption
<1> SUFFICES ASSUME TypeOK, [Next]_vars PROVE TypeOK'
  OBVIOUS
<1> USE DEF TypeOK, Stores, Phases, Verdicts
<1>1. ASSUME NEW r \in Requests, NEW w \in Workers, Unauthenticated(r, w)
      PROVE  TypeOK'
  BY <1>1 DEF Unauthenticated
<1>2. ASSUME NEW r \in Requests, NEW w \in Workers, RefuseToSign(r, w)
      PROVE  TypeOK'
  BY <1>2 DEF RefuseToSign
<1>3. ASSUME NEW r \in Requests, NEW w \in Workers,
             NEW u \in Users \cup {None}, NEW c \in Contexts, Sign(r, w, u, c)
      PROVE  TypeOK'
  BY <1>3 DEF Sign
<1>4. ASSUME NEW r \in Requests, NEW w \in Workers,
             NEW u \in Users \cup {None}, NEW c \in Contexts,
             NEW t \in Requests \cup {None},
             Check(r, w, u, t, c) \/ FailCheck(r, w, u, t, c)
      PROVE  TypeOK'
  <2>1. CASE Check(r, w, u, t, c)
    <3>1. t \in Requests
      BY <2>1 DEF Check, Delivered, Minted
    <3> QED
      BY <2>1, <3>1 DEF Check
  <2>2. CASE FailCheck(r, w, u, t, c)
    BY <2>2 DEF FailCheck
  <2> QED
    BY <1>4, <2>1, <2>2
<1>5. ASSUME NEW r \in Requests, Consume(r)
      PROVE  TypeOK'
  <2>1. /\ now \in 0..MaxTime
        /\ now + Window \in 0..(MaxTime + Window)
    OBVIOUS
  <2>2. ledger' \in [Stores -> [Requests -> {NoEntry} \cup 0..(MaxTime + Window)]]
    BY <1>5, <2>1 DEF Consume, Known, EntryEnd
  <2>3. verdict' \in [Requests -> Verdicts]
    BY <1>5 DEF Consume, Known, EntryEnd
  <2> QED
    BY <1>5, <2>2, <2>3 DEF Consume, Known, EntryEnd
<1>6. ASSUME NEW r \in Requests, LedgerFails(r)
      PROVE  TypeOK'
  <2>1. now + Window \in 0..(MaxTime + Window)
    OBVIOUS
  <2>2. ledger' \in [Stores -> [Requests -> {NoEntry} \cup 0..(MaxTime + Window)]]
    BY <1>6, <2>1 DEF LedgerFails, EntryEnd
  <2> QED
    BY <1>6, <2>2 DEF LedgerFails
<1>7. ASSUME NEW r \in Requests, Log(r)
      PROVE  TypeOK'
  BY <1>7 DEF Log
<1>8. ASSUME NEW r \in Requests, Reply(r)
      PROVE  TypeOK'
  BY <1>8 DEF Reply
<1>9. ASSUME NEW w \in Workers, CrashRestart(w)
      PROVE  TypeOK'
  BY <1>9 DEF CrashRestart
<1>10. CASE Tick
  BY <1>10 DEF Tick, reqVars
<1>11. CASE UNCHANGED vars
  BY <1>11 DEF vars, reqVars
<1> QED
  BY <1>1, <1>2, <1>3, <1>4, <1>5, <1>6, <1>7, <1>8, <1>9, <1>10, <1>11
     DEF Next, Finish

(* Every variable keeps its type, in every reachable state.                *)
THEOREM TypeCorrect == Spec => []TypeOK
<1>1. Init => TypeOK
  BY ConfigAssumption DEF Init, TypeOK, Stores, Phases, Verdicts
<1>2. TypeOK /\ [Next]_vars => TypeOK'
  BY TypeStep
<1> QED
  BY <1>1, <1>2, PTL DEF Spec

(* What a request is answered with is what the audit logger was told, by   *)
(* Log, once its verdict was final.                                        *)
THEOREM AnswersAreLogged == Spec => []AnsweredIsLogged
<1> DEFINE Recorded(r) ==
             audited[r] = IF verdict[r] \in {"signed", "accepted"} THEN "success" ELSE "failure"
           AuditInv ==
             \A r \in Requests :
               /\ phase[r] = "logged" => Recorded(r)
               /\ phase[r] = "replied" /\ verdict[r] \notin {"unauthenticated", "error"}
                    => Recorded(r)
<1>1. Init => AuditInv
  BY DEF Init
<1>2. TypeOK /\ AuditInv /\ [Next]_vars => AuditInv'
  <2> SUFFICES ASSUME TypeOK, AuditInv, [Next]_vars PROVE AuditInv'
    OBVIOUS
  <2> USE DEF TypeOK
  <2>1. ASSUME NEW r \in Requests, NEW w \in Workers,
               Unauthenticated(r, w) \/ RefuseToSign(r, w)
        PROVE  AuditInv'
    BY <2>1 DEF Unauthenticated, RefuseToSign
  <2>2. ASSUME NEW r \in Requests, NEW w \in Workers,
               NEW u \in Users \cup {None}, NEW c \in Contexts, Sign(r, w, u, c)
        PROVE  AuditInv'
    BY <2>2 DEF Sign
  <2>3. ASSUME NEW r \in Requests, NEW w \in Workers,
               NEW u \in Users \cup {None}, NEW c \in Contexts,
               NEW t \in Requests \cup {None},
               Check(r, w, u, t, c) \/ FailCheck(r, w, u, t, c)
        PROVE  AuditInv'
    BY <2>3 DEF Check, FailCheck
  <2>4. ASSUME NEW r \in Requests, Consume(r)
        PROVE  AuditInv'
    <3>1. /\ phase' = [phase EXCEPT ![r] = "decided"]
          /\ audited' = audited
          /\ \A q \in Requests \ {r} : verdict'[q] = verdict[q]
      BY <2>4 DEF Consume
    <3> QED
      BY <3>1
  <2>5. ASSUME NEW r \in Requests, LedgerFails(r)
        PROVE  AuditInv'
    BY <2>5 DEF LedgerFails
  <2>6. ASSUME NEW r \in Requests, Log(r)
        PROVE  AuditInv'
    BY <2>6 DEF Log
  <2>7. ASSUME NEW r \in Requests, Reply(r)
        PROVE  AuditInv'
    BY <2>7 DEF Reply
  <2>8. ASSUME NEW w \in Workers, CrashRestart(w)
        PROVE  AuditInv'
    BY <2>8 DEF CrashRestart
  <2>9. CASE Tick \/ UNCHANGED vars
    BY <2>9 DEF Tick, vars, reqVars
  <2> QED
    BY <2>1, <2>2, <2>3, <2>4, <2>5, <2>6, <2>7, <2>8, <2>9 DEF Next, Finish
<1>3. AuditInv => AnsweredIsLogged
  BY DEF AnsweredIsLogged
<1> QED
  BY <1>1, <1>2, <1>3, TypeCorrect, PTL DEF Spec

-----------------------------------------------------------------------------
(* Each step keeps what is known of minted bands, of checked requests and  *)
(* of accepted ones: a band never changes once signed, and the clock does  *)
(* not outrun a worker between its check and its consume.                  *)
LEMMA ProvenanceStep == ProvenanceInv /\ [Next]_vars => ProvenanceInv'
<1> SUFFICES ASSUME ProvenanceInv, [Next]_vars
             PROVE  ProgressInv' /\ MintInv' /\ CheckInv' /\ UseInv'
  BY TypeStep DEF ProvenanceInv
<1> USE ConfigAssumption DEF ProvenanceInv, TypeOK, ProgressInv, MintInv,
        CheckInv, UseInv, Minted, ExpiryOf, Stores, Phases, Verdicts
<1>1. ASSUME NEW r \in Requests, NEW w \in Workers, Unauthenticated(r, w)
      PROVE  ProgressInv' /\ MintInv' /\ CheckInv' /\ UseInv'
  BY <1>1 DEF Unauthenticated
<1>2. ASSUME NEW r \in Requests, NEW w \in Workers, RefuseToSign(r, w)
      PROVE  ProgressInv' /\ MintInv' /\ CheckInv' /\ UseInv'
  BY <1>2 DEF RefuseToSign, Enter
<1>3. ASSUME NEW r \in Requests, NEW w \in Workers,
             NEW u \in Users \cup {None}, NEW c \in Contexts, Sign(r, w, u, c)
      PROVE  ProgressInv' /\ MintInv' /\ CheckInv' /\ UseInv'
  <2>1. /\ Minted' = Minted \cup {r}
        /\ r \notin Minted
    BY <1>3 DEF Sign, Enter
  <2>2. \A b \in Minted : /\ at'[b] = at[b]
                          /\ ctx'[b] = ctx[b]
                          /\ issuer'[b] = issuer[b]
    BY <1>3, <2>1 DEF Sign
  <2>3. MintInv'
    BY <1>3, <2>1, <2>2 DEF Sign, Enter, Contradicts
  <2>4. ProgressInv'
    BY <1>3 DEF Sign, Enter
  <2>5. CheckInv'
    BY <1>3, <2>1, <2>2 DEF Sign, Enter
  <2>6. UseInv'
    BY <1>3, <2>1, <2>2 DEF Sign, Enter
  <2> QED
    BY <2>3, <2>4, <2>5, <2>6
<1>4. ASSUME NEW r \in Requests, NEW w \in Workers,
             NEW u \in Users \cup {None}, NEW c \in Contexts,
             NEW t \in Requests \cup {None}, Check(r, w, u, t, c)
      PROVE  ProgressInv' /\ MintInv' /\ CheckInv' /\ UseInv'
  <2>1. Minted' = Minted /\ r \notin Minted
    BY <1>4 DEF Check, Enter
  <2>2. \A b \in Minted : /\ at'[b] = at[b]
                          /\ ctx'[b] = ctx[b]
                          /\ issuer'[b] = issuer[b]
    BY <1>4, <2>1 DEF Check
  <2>3. MintInv'
    BY <1>4, <2>1, <2>2 DEF Check, Contradicts
  <2>4. ProgressInv'
    BY <1>4 DEF Check, Enter
  <2>5. CheckInv'
    <3>1. /\ text'[r] \in Minted'
          /\ ctx'[r] = ctx'[text'[r]]
          /\ now' <= at'[r] + MaxStall
          /\ BandLive(at'[text'[r]] + TTL, at'[r])
      BY <1>4, <2>1, <2>2 DEF Check, Verifies
    <3> QED
      BY <1>4, <2>1, <2>2, <3>1 DEF Check
  <2>6. UseInv'
    BY <1>4, <2>1, <2>2 DEF Check, Enter
  <2> QED
    BY <2>3, <2>4, <2>5, <2>6
<1>5. ASSUME NEW r \in Requests, NEW w \in Workers,
             NEW u \in Users \cup {None}, NEW c \in Contexts,
             NEW t \in Requests \cup {None}, FailCheck(r, w, u, t, c)
      PROVE  ProgressInv' /\ MintInv' /\ CheckInv' /\ UseInv'
  BY <1>5 DEF FailCheck, Enter, Contradicts
<1>6. ASSUME NEW r \in Requests, Consume(r) \/ LedgerFails(r)
      PROVE  ProgressInv' /\ MintInv' /\ CheckInv' /\ UseInv'
  <2>1. Minted' = Minted /\ r \notin Minted
    BY <1>6 DEF Consume, Known, EntryEnd, LedgerFails
  <2>2. \A b \in Minted : at'[b] = at[b]
    BY <1>6, <2>1 DEF Consume, Known, EntryEnd, LedgerFails
  <2>3. UNCHANGED <<now, ctx, issuer, text>>
    BY <1>6 DEF Consume, Known, EntryEnd, LedgerFails
  <2>4. MintInv'
    BY <2>1, <2>2, <2>3 DEF Contradicts
  <2>5. ProgressInv'
    BY <1>6 DEF Consume, Known, EntryEnd, LedgerFails
  <2>6. CheckInv'
    BY <1>6, <2>1, <2>2, <2>3 DEF Consume, Known, EntryEnd, LedgerFails
  <2>7. UseInv'
    BY <1>6, <2>1, <2>2, <2>3 DEF Consume, Known, EntryEnd, LedgerFails
  <2> QED
    BY <2>4, <2>5, <2>6, <2>7
<1>7. ASSUME NEW r \in Requests, Log(r) \/ Reply(r)
      PROVE  ProgressInv' /\ MintInv' /\ CheckInv' /\ UseInv'
  BY <1>7 DEF Log, Reply, Contradicts
<1>8. ASSUME NEW w \in Workers, CrashRestart(w)
      PROVE  ProgressInv' /\ MintInv' /\ CheckInv' /\ UseInv'
  BY <1>8 DEF CrashRestart, Contradicts
<1>9. CASE Tick
  BY <1>9 DEF Tick, reqVars, Contradicts
<1>10. CASE UNCHANGED vars
  BY <1>10 DEF vars, reqVars, Contradicts
<1> QED
  BY <1>1, <1>2, <1>3, <1>4, <1>5, <1>6, <1>7, <1>8, <1>9, <1>10 DEF Next, Finish

(* What is known of bands and requests holds in every reachable state.     *)
THEOREM Provenance == Spec => []ProvenanceInv
<1>1. Init => ProvenanceInv
  <2>1. Init => TypeOK
    BY ConfigAssumption DEF Init, TypeOK, Stores, Phases, Verdicts
  <2> QED
    BY <2>1 DEF Init, ProvenanceInv, ProgressInv, MintInv, CheckInv, UseInv, Minted
<1>2. ProvenanceInv /\ [Next]_vars => ProvenanceInv'
  BY ProvenanceStep
<1> QED
  BY <1>1, <1>2, PTL DEF Spec

(* Under SSO a band accepted in a context naming a user was minted by that *)
(* user, for every set of users and contexts (/wrap and /verify together). *)
THEOREM NamedUserMinted == Spec => []MintedByNamedUser
<1>1. ProvenanceInv => MintedByNamedUser
  BY DEF ProvenanceInv, MintInv, UseInv, MintedByNamedUser, Contradicts
<1> QED
  BY <1>1, Provenance, PTL

-----------------------------------------------------------------------------
(* A step that calls no ledger and crashes no worker: it accepts nothing,  *)
(* calls nothing replayed and leaves the ledger alone.                     *)
Quiet ==
  /\ ledger' = ledger
  /\ \A r \in Requests : \A v \in {"accepted", "replayed", "error"} :
       /\ verdict'[r] = v <=> verdict[r] = v
       /\ verdict[r] = v => text'[r] = text[r] /\ ctx'[r] = ctx[r]
  /\ \A b \in Minted : b \in Minted' /\ at'[b] = at[b] /\ ctx'[b] = ctx[b]

(* Every step but a ledger call and a crash is quiet in this sense.        *)
LEMMA QuietSteps ==
  ASSUME ProvenanceInv, [Next]_vars,
         \A r \in Requests : ~Consume(r) /\ ~LedgerFails(r),
         \A w \in Workers : ~CrashRestart(w)
  PROVE  Quiet
<1> USE DEF ProvenanceInv, TypeOK, ProgressInv, Minted, Quiet
<1>1. ASSUME NEW r \in Requests, NEW w \in Workers,
             Unauthenticated(r, w) \/ RefuseToSign(r, w)
      PROVE  Quiet
  BY <1>1 DEF Unauthenticated, RefuseToSign, Enter
<1>2. ASSUME NEW r \in Requests, NEW w \in Workers,
             NEW u \in Users \cup {None}, NEW c \in Contexts, Sign(r, w, u, c)
      PROVE  Quiet
  BY <1>2 DEF Sign, Enter
<1>3. ASSUME NEW r \in Requests, NEW w \in Workers,
             NEW u \in Users \cup {None}, NEW c \in Contexts,
             NEW t \in Requests \cup {None},
             Check(r, w, u, t, c) \/ FailCheck(r, w, u, t, c)
      PROVE  Quiet
  BY <1>3 DEF Check, FailCheck, Enter
<1>4. ASSUME NEW r \in Requests, Log(r) \/ Reply(r)
      PROVE  Quiet
  BY <1>4 DEF Log, Reply
<1>5. CASE Tick
  BY <1>5 DEF Tick, reqVars
<1>6. CASE UNCHANGED vars
  BY <1>6 DEF vars, reqVars
<1> QED
  BY <1>1, <1>2, <1>3, <1>4, <1>5, <1>6 DEF Next, Finish

(* What a ledger call does, be it let through, refused or failed: one      *)
(* entry is written at most, that of the band presented, where there was   *)
(* no live one, and only by a call that accepts or fails.                  *)
LEMMA LedgerCall ==
  ASSUME ProvenanceInv, NEW r \in Requests, Consume(r) \/ LedgerFails(r),
         NEW s, s = StoreOf(worker[r]), NEW b, b = text[r]
  PROVE  /\ phase[r] = "checked" /\ worker[r] \in Workers /\ s \in Stores
         /\ b \in Minted /\ ctx[r] = ctx[b]
         /\ UNCHANGED <<now, crashes, text, ctx>>
         /\ Minted' = Minted /\ \A m \in Minted : at'[m] = at[m]
         /\ verdict[r] = "none" /\ verdict'[r] \in {"accepted", "replayed", "error"}
         /\ \A q \in Requests \ {r} : verdict'[q] = verdict[q]
         /\ verdict'[r] = "replayed" => EntryLive(ledger[s][b], now)
         /\ verdict'[r] = "accepted" /\ Backend # "none" =>
              ~EntryLive(ledger[s][b], now) /\ ledger'[s][b] = now + Window
         /\ \/ ledger' = ledger
            \/ /\ ledger' = [ledger EXCEPT ![s][b] = now + Window]
               /\ ~EntryLive(ledger[s][b], now)
               /\ verdict'[r] \in {"accepted", "error"}
<1> USE ConfigAssumption DEF ProvenanceInv
<1>1. /\ phase[r] = "checked" /\ worker[r] \in Workers /\ s \in Stores
      /\ b \in Minted /\ ctx[r] = ctx[b] /\ verdict[r] = "none"
  BY DEF Consume, LedgerFails, ProgressInv, CheckInv, StoreOf, Stores
<1>2. CASE Consume(r)
  <2>1. /\ UNCHANGED <<now, crashes, text, ctx>>
        /\ \A q \in Requests \ {r} : verdict'[q] = verdict[q]
        /\ at' = [at EXCEPT ![r] = 0]
    BY <1>2 DEF Consume, TypeOK
  <2>2. CASE Known(s, b)
    <3>1. verdict' = [verdict EXCEPT ![r] = "replayed"] /\ ledger' = ledger
      BY <1>2, <2>2 DEF Consume
    <3>2. Minted' = Minted /\ r \notin Minted
      BY <1>1, <3>1 DEF Minted, TypeOK
    <3> QED
      BY <1>1, <2>1, <2>2, <3>1, <3>2 DEF Known, TypeOK, Minted
  <2>3. CASE ~Known(s, b)
    <3>1. /\ verdict' = [verdict EXCEPT ![r] = "accepted"]
          /\ ledger' = IF Backend = "none" THEN ledger
                       ELSE [ledger EXCEPT ![s][b] = now + Window]
      BY <1>2, <2>3 DEF Consume, EntryEnd
    <3>2. Minted' = Minted /\ r \notin Minted
      BY <1>1, <3>1 DEF Minted, TypeOK
    <3>3. Backend # "none" =>
            ~EntryLive(ledger[s][b], now) /\ ledger'[s][b] = now + Window
      BY <1>1, <2>3, <3>1 DEF Known, TypeOK, Minted
    <3> QED
      BY <1>1, <2>1, <3>1, <3>2, <3>3 DEF TypeOK, Minted
  <2> QED
    BY <2>2, <2>3
<1>3. CASE LedgerFails(r)
  <2>1. /\ UNCHANGED <<now, crashes, text, ctx>>
        /\ verdict' = [verdict EXCEPT ![r] = "error"]
        /\ at' = [at EXCEPT ![r] = 0]
        /\ s = Disk
    BY <1>3 DEF LedgerFails, StoreOf
  <2>2. \/ ledger' = ledger
        \/ /\ ledger' = [ledger EXCEPT ![s][b] = now + Window]
           /\ ~EntryLive(ledger[s][b], now)
    BY <1>3, <2>1 DEF LedgerFails, Known, EntryEnd
  <2>3. Minted' = Minted /\ r \notin Minted
    BY <1>1, <2>1 DEF Minted, TypeOK
  <2> QED
    BY <1>1, <2>1, <2>2, <2>3 DEF TypeOK, Minted
<1> QED
  BY <1>2, <1>3

(* The heart of single use.  When a worker comes to consume the nonce of a *)
(* band and its store has an entry for it, of whatever age, that entry is  *)
(* live: it was written at or after the band was minted, so it lasts until *)
(* the band has expired and the longest stall after that is over.          *)
LEMMA RememberedIsLive ==
  ASSUME ProvenanceInv, EntryAgeInv, WindowCoversBand,
         NEW r \in Requests, phase[r] = "checked",
         NEW s \in Stores, ledger[s][text[r]] # NoEntry
  PROVE  EntryLive(ledger[s][text[r]], now)
<1> DEFINE b == text[r]
           end == ledger[s][b]
<1> USE ConfigAssumption DEF ProvenanceInv
<1>1. /\ b \in Minted
      /\ now <= at[r] + MaxStall
      /\ BandLive(at[b] + TTL, at[r])
  BY DEF CheckInv, ExpiryOf
<1>2. at[b] + Window <= end
  BY <1>1 DEF EntryAgeInv, Minted
<1>3. /\ at[b] \in Int /\ at[r] \in Int /\ now \in Int
      /\ end \in Int
  BY <1>1 DEF TypeOK, Minted, NoEntry
<1>4. EntryLive(end, now)
  <2> HIDE DEF b, end
  <2>1. now <= end
    BY <1>1, <1>2, <1>3 DEF BandLive, WindowCoversBand
  <2>2. CASE EntryLiveAtEnd
    BY <1>3, <2>1, <2>2 DEF EntryLive
  <2>3. CASE ~EntryLiveAtEnd
    BY <1>1, <1>2, <1>3, <2>3 DEF BandLive, WindowCoversBand, EntryLive
  <2> QED
    BY <2>2, <2>3
<1> QED
  BY <1>4

(* With a shared ledger a band some request has used is one every worker   *)
(* remembers.                                                              *)
LEMMA UsedBandIsRefused ==
  ASSUME ProvenanceInv, CoverInv, EntryAgeInv, LedgerIsShared, WindowCoversBand,
         NEW r \in Requests, phase[r] = "checked", Uses(text[r]) # {}
  PROVE  EntryLive(ledger[StoreOf(worker[r])][text[r]], now)
<1> USE ConfigAssumption DEF ProvenanceInv
<1>1. text[r] \in Minted /\ worker[r] \in Workers
  BY DEF CheckInv, ProgressInv
<1>2. PICK q \in Requests : verdict[q] = "accepted" /\ text[q] = text[r]
  BY DEF Uses
<1>3. at[text[r]] + Window <= ledger[StoreOf(worker[r])][text[r]]
  BY <1>1, <1>2 DEF CoverInv
<1>4. ledger[StoreOf(worker[r])][text[r]] # NoEntry
  BY <1>1, <1>3 DEF TypeOK, Minted, NoEntry
<1>5. StoreOf(worker[r]) \in Stores
  BY <1>1 DEF StoreOf, Stores
<1> QED
  BY <1>4, <1>5, RememberedIsLive

(* Accepting a band puts its nonce where every worker will look for it,    *)
(* and no ledger call shortens the time an entry has left.                 *)
LEMMA LedgerCallKeepsCover ==
  ASSUME SingleUseInv, NEW r \in Requests, Consume(r) \/ LedgerFails(r)
  PROVE  CoverInv'
<1> SUFFICES ASSUME LedgerIsShared,
                    NEW q \in Requests, NEW w \in Workers,
                    verdict'[q] = "accepted"
             PROVE  at'[text'[q]] + Window <= ledger'[StoreOf(w)][text'[q]]
  BY DEF CoverInv
<1> DEFINE s == StoreOf(w)
           b == text[q]
<1> USE ConfigAssumption DEF SingleUseInv, ProvenanceInv
<1>1. s = StoreOf(worker[r]) /\ s \in Stores /\ worker[r] \in Workers
  BY LedgerCall DEF LedgerIsShared, StoreOf, Stores
<1>2. /\ verdict[q] = "accepted" \/ q = r
      /\ text' = text /\ now \in Int /\ b \in Minted /\ b \in Requests
  BY <1>1, LedgerCall DEF UseInv, TypeOK, Minted
<1>3. at'[b] = at[b] /\ at[b] \in Int /\ at[b] <= now
  BY <1>1, <1>2, LedgerCall DEF MintInv, TypeOK
<1>4. CASE ledger'[s][b] = now + Window
  BY <1>2, <1>3, <1>4
<1>5. CASE ledger'[s][b] # now + Window
  <2>1. Backend # "none"
    BY DEF LedgerIsShared
  <2>2. q # r
    BY <1>1, <1>5, <2>1, LedgerCall
  <2>3. ledger'[s][b] = ledger[s][b]
    BY <1>1, <1>2, <1>5, LedgerCall DEF TypeOK
  <2> QED
    BY <1>2, <1>3, <2>2, <2>3 DEF CoverInv
<1> QED
  BY <1>4, <1>5

(* Each step keeps the ledger's invariant: only a consume makes a use, and *)
(* it finds the ledger still holding any earlier one.                      *)
LEMMA SingleUseStep == SingleUseInv /\ [Next]_vars => SingleUseInv'
<1> SUFFICES ASSUME SingleUseInv, [Next]_vars
             PROVE  /\ CoverInv' /\ EntryInv' /\ EntryAgeInv' /\ ReplayHasReason'
                    /\ LedgerIsShared /\ WindowCoversBand => AtMostOneUse'
  BY ProvenanceStep DEF SingleUseInv
<1> USE ConfigAssumption DEF SingleUseInv
<1>1. ASSUME NEW r \in Requests, Consume(r) \/ LedgerFails(r)
      PROVE  /\ CoverInv' /\ EntryInv' /\ EntryAgeInv' /\ ReplayHasReason'
             /\ LedgerIsShared /\ WindowCoversBand => AtMostOneUse'
  <2> DEFINE s == StoreOf(worker[r])
             b == text[r]
  <2>1. CoverInv'
    BY <1>1, LedgerCallKeepsCover
  <2>2. /\ s \in Stores /\ b \in Minted /\ b \in Requests /\ ctx[r] = ctx[b]
        /\ UNCHANGED <<now, text, ctx>>
        /\ verdict[r] = "none"
        /\ Minted' = Minted /\ \A m \in Minted : at'[m] = at[m]
    BY <1>1, LedgerCall DEF Minted
  <2>3. \A m \in Requests : Claims(m) \subseteq Claims(m)'
    BY <1>1, <2>2, LedgerCall DEF Claims
  <2>4. ASSUME NEW t \in Stores, NEW m \in Requests
        PROVE  \/ ledger'[t][m] = ledger[t][m]
               \/ /\ m = b /\ ledger'[t][m] = now + Window
                  /\ verdict'[r] \in {"accepted", "error"}
    BY <1>1, <2>2, LedgerCall DEF ProvenanceInv, TypeOK
  <2>5. EntryInv'
    <3> SUFFICES ASSUME NEW t \in Stores, NEW m \in Requests, ledger'[t][m] # NoEntry
                 PROVE  Claims(m)' # {}
      BY DEF EntryInv
    <3>1. CASE ledger'[t][m] = ledger[t][m]
      BY <2>3, <3>1 DEF EntryInv
    <3>2. CASE m = b /\ verdict'[r] \in {"accepted", "error"}
      BY <2>2, <3>2 DEF Claims
    <3> QED
      BY <2>4, <3>1, <3>2
  <2>6. ReplayHasReason'
    <3> SUFFICES ASSUME NEW q \in Requests, verdict'[q] = "replayed"
                 PROVE  \E p \in Claims(text[q])' : ctx[p] = ctx[text[q]]
      BY <2>2 DEF ReplayHasReason
    <3>1. CASE q = r
      <4>1. ledger[s][b] # NoEntry
        BY <1>1, <3>1, LedgerCall DEF EntryLive, NoEntry, ProvenanceInv, TypeOK
      <4>2. PICK p \in Claims(b) : TRUE
        BY <2>2, <4>1 DEF EntryInv
      <4>3. ctx[p] = ctx[b]
        BY <4>2 DEF Claims, ProvenanceInv, UseInv
      <4> QED
        BY <2>2, <2>3, <3>1, <4>2, <4>3
    <3>2. CASE q # r
      <4>1. verdict[q] = "replayed"
        BY <1>1, <3>2, LedgerCall
      <4>2. PICK p \in Claims(text[q]) : ctx[p] = ctx[text[q]]
        BY <4>1 DEF ReplayHasReason
      <4>3. p \in Claims(text[q])'
        BY <1>1, <2>2, <4>2, LedgerCall DEF Claims
      <4> QED
        BY <4>2, <4>3
    <3> QED
      BY <3>1, <3>2
  <2>7. ASSUME LedgerIsShared, WindowCoversBand
        PROVE  AtMostOneUse'
    <3>1. verdict'[r] = "accepted" => Uses(b) = {}
      <4>1. Backend # "none"
        BY <2>7 DEF LedgerIsShared
      <4> QED
        BY <1>1, <2>7, <4>1, LedgerCall, UsedBandIsRefused
    <3> QED
      BY <1>1, <2>2, <2>7, <3>1, LedgerCall DEF AtMostOneUse, Uses
  <2>8. EntryAgeInv'
    <3>1. now \in Int /\ at \in [Requests -> Int] /\ at[b] <= now
      BY <2>2 DEF ProvenanceInv, TypeOK, MintInv
    <3> SUFFICES ASSUME NEW t \in Stores, NEW m \in Requests, ledger'[t][m] # NoEntry
                 PROVE  m \in Minted' /\ at'[m] + Window <= ledger'[t][m]
      BY DEF EntryAgeInv
    <3>2. CASE ledger'[t][m] = ledger[t][m]
      BY <2>2, <3>2 DEF EntryAgeInv
    <3>3. CASE m = b /\ ledger'[t][m] = now + Window
      BY <2>2, <3>1, <3>3
    <3> QED
      BY <2>4, <3>2, <3>3
  <2> QED
    BY <2>1, <2>5, <2>6, <2>7, <2>8
<1>2. ASSUME NEW w \in Workers, CrashRestart(w)
      PROVE  /\ CoverInv' /\ EntryInv' /\ EntryAgeInv' /\ ReplayHasReason'
             /\ LedgerIsShared /\ WindowCoversBand => AtMostOneUse'
  <2>1. /\ UNCHANGED <<verdict, text, at, ctx>>
        /\ \A b : Claims(b)' = Claims(b)
    BY <1>2 DEF CrashRestart, Claims
  <2>2. LedgerIsShared => Backend = "sqlite"
    BY <1>2 DEF CrashRestart, LedgerIsShared, ProvenanceInv, TypeOK
  <2>3. CoverInv'
    BY <1>2, <2>1, <2>2 DEF CrashRestart, CoverInv, StoreOf, ProvenanceInv, TypeOK, Stores
  <2>4. EntryInv'
    BY <1>2, <2>1 DEF CrashRestart, EntryInv, ProvenanceInv, TypeOK, Stores
  <2>5. ReplayHasReason'
    BY <2>1 DEF ReplayHasReason
  <2>6. AtMostOneUse' <=> AtMostOneUse
    BY <2>1 DEF AtMostOneUse
  <2>7. EntryAgeInv'
    BY <1>2, <2>1 DEF CrashRestart, EntryAgeInv, Minted, ProvenanceInv, TypeOK, Stores
  <2> QED
    BY <2>3, <2>4, <2>5, <2>6, <2>7
<1>3. ASSUME \A r \in Requests : ~Consume(r) /\ ~LedgerFails(r),
             \A w \in Workers : ~CrashRestart(w)
      PROVE  /\ CoverInv' /\ EntryInv' /\ EntryAgeInv' /\ ReplayHasReason'
             /\ LedgerIsShared /\ WindowCoversBand => AtMostOneUse'
  <2>1. Quiet
    BY <1>3, QuietSteps
  <2>2. \A b : Claims(b)' = Claims(b)
    BY <2>1 DEF Quiet, Claims
  <2>3. CoverInv'
    BY <2>1 DEF Quiet, CoverInv, ProvenanceInv, UseInv
  <2>4. EntryInv'
    BY <2>1, <2>2 DEF Quiet, EntryInv
  <2>5. ReplayHasReason'
    <3> SUFFICES ASSUME NEW r \in Requests, verdict'[r] = "replayed"
                 PROVE  \E q \in Claims(text[r])' : ctx'[q] = ctx'[text'[r]]
      BY DEF ReplayHasReason
    <3>1. verdict[r] = "replayed" /\ text'[r] = text[r]
      BY <2>1 DEF Quiet
    <3>2. PICK q \in Claims(text[r]) : ctx[q] = ctx[text[r]]
      BY <3>1 DEF ReplayHasReason
    <3>3. text[r] \in Minted
      BY <3>2 DEF Claims, ProvenanceInv, UseInv
    <3>4. ctx'[q] = ctx[q] /\ ctx'[text[r]] = ctx[text[r]]
      BY <2>1, <3>2, <3>3 DEF Quiet, Claims
    <3>5. q \in Claims(text[r])'
      BY <2>1, <3>1, <3>2 DEF Quiet, Claims
    <3> QED
      BY <3>1, <3>2, <3>4, <3>5
  <2>6. AtMostOneUse' <=> AtMostOneUse
    BY <2>1 DEF Quiet, AtMostOneUse
  <2>7. EntryAgeInv'
    BY <2>1 DEF Quiet, EntryAgeInv
  <2> QED
    BY <2>3, <2>4, <2>5, <2>6, <2>7
<1> QED
  BY <1>1, <1>2, <1>3

(* The ledger's whole invariant holds in every reachable state.            *)
THEOREM SingleUseInvariant == Spec => []SingleUseInv
<1>1. Init => SingleUseInv
  <2>1. Init => ProvenanceInv
    BY ConfigAssumption DEF Init, TypeOK, Stores, Phases, Verdicts, ProvenanceInv,
       ProgressInv, MintInv, CheckInv, UseInv, Minted
  <2> QED
    BY <2>1 DEF Init, SingleUseInv, CoverInv, EntryInv, EntryAgeInv, ReplayHasReason, AtMostOneUse
<1>2. SingleUseInv /\ [Next]_vars => SingleUseInv'
  BY SingleUseStep
<1> QED
  BY <1>1, <1>2, PTL DEF Spec

(* With a ledger every worker shares and a window that covers the band, no *)
(* band is accepted twice: any number of workers, requests and crashes.    *)
THEOREM BandIsSingleUse ==
  ASSUME LedgerIsShared, WindowCoversBand
  PROVE  Spec => []AtMostOneUse
<1>1. SingleUseInv => AtMostOneUse
  BY DEF SingleUseInv
<1> QED
  BY <1>1, SingleUseInvariant, PTL

(* A request is refused as a replay only on account of another one that    *)
(* presented the band rightly, whatever the backend and the window, and    *)
(* wherever in its call the ledger fails.                                  *)
THEOREM ReplayIsGenuine == Spec => []ReplayHasReason
<1>1. SingleUseInv => ReplayHasReason
  BY DEF SingleUseInv
<1> QED
  BY <1>1, SingleUseInvariant, PTL

-----------------------------------------------------------------------------
(* A use is a worker's memory or a crash: what each step does to the uses  *)
(* of a band and to the workers that remember it, when workers keep their  *)
(* own dicts.                                                              *)
MemoryInv ==
  Backend = "memory" /\ WindowCoversBand =>
    \A b \in Requests :
      /\ IsFiniteSet(Uses(b))
      /\ Cardinality(Uses(b)) <= Cardinality(Remembering(b)) + crashes

(* The workers that remember a band are finitely many: they are workers.   *)
LEMMA RememberingIsFinite ==
  ASSUME NEW b \in Requests
  PROVE  /\ IsFiniteSet(Remembering(b))
         /\ Cardinality(Remembering(b)) \in Nat
         /\ Cardinality(Remembering(b)) <= Cardinality(Workers)
<1>1. Remembering(b) \subseteq Workers
  BY DEF Remembering
<1> QED
  BY <1>1, ConfigAssumption, FS_Subset, FS_CardinalityType

(* A worker that accepts a band did not remember it and now does.          *)
LEMMA AcceptRemembers ==
  ASSUME SingleUseInv, Backend = "memory", WindowCoversBand, MemoryInv,
         NEW r \in Requests, Consume(r), verdict'[r] = "accepted",
         NEW b \in Requests, b = text[r], NEW w \in Workers, w = worker[r]
  PROVE  MemoryInv'
<1> USE ConfigAssumption DEF SingleUseInv, ProvenanceInv
<1>1. /\ phase[r] = "checked" /\ verdict[r] = "none"
      /\ w \in Stores /\ StoreOf(w) = w
  BY DEF Consume, Known, EntryEnd, ProgressInv, StoreOf, Stores
<1>2. ~EntryLive(ledger[w][b], now)
  BY <1>1 DEF Consume, Known, EntryEnd, TypeOK
<1>3. ledger[w][b] = NoEntry
  BY <1>1, <1>2, RememberedIsLive
<1>4. ledger' = [ledger EXCEPT ![w][b] = now + Window]
  BY <1>1, <1>2 DEF Consume, Known, EntryEnd
<1>5. now + Window # NoEntry
  BY DEF TypeOK, NoEntry
<1>6. Remembering(b)' = Remembering(b) \cup {w} /\ w \notin Remembering(b)
  BY <1>1, <1>3, <1>4, <1>5 DEF Remembering, TypeOK, Stores
<1>7. Uses(b)' = Uses(b) \cup {r} /\ r \notin Uses(b)
  BY <1>1 DEF Consume, Known, EntryEnd, Uses, TypeOK
<1>8. \A c \in Requests \ {b} : /\ Uses(c)' = Uses(c)
                                /\ Remembering(c)' = Remembering(c)
  BY <1>1, <1>4 DEF Consume, Known, EntryEnd, Uses, Remembering, TypeOK, Stores
<1>9. crashes' = crashes /\ crashes \in Nat
  BY DEF Consume, TypeOK
<1>10. ASSUME NEW c \in Requests \ {b}
       PROVE  /\ IsFiniteSet(Uses(c)')
              /\ Cardinality(Uses(c)') <= Cardinality(Remembering(c)') + crashes'
  BY <1>8, <1>9 DEF MemoryInv
<1>11. /\ IsFiniteSet(Uses(b)')
       /\ Cardinality(Uses(b)') <= Cardinality(Remembering(b)') + crashes'
  <2> DEFINE u == Uses(b)
             m == Remembering(b)
  <2>1. IsFiniteSet(u) /\ IsFiniteSet(m) /\ Cardinality(u) <= Cardinality(m) + crashes
    BY <1>1, RememberingIsFinite DEF MemoryInv
  <2> HIDE DEF u, m
  <2>2. Cardinality(u) \in Nat /\ Cardinality(m) \in Nat
    BY <2>1, FS_CardinalityType
  <2>3. r \notin u /\ w \notin m /\ Uses(b)' = u \cup {r} /\ Remembering(b)' = m \cup {w}
    BY <1>6, <1>7 DEF u, m
  <2>4. /\ IsFiniteSet(u \cup {r}) /\ Cardinality(u \cup {r}) = Cardinality(u) + 1
        /\ Cardinality(m \cup {w}) = Cardinality(m) + 1
    BY <2>1, <2>3, FS_AddElement
  <2> QED
    BY <2>1, <2>2, <2>3, <2>4, <1>9
<1> QED
  BY <1>10, <1>11 DEF MemoryInv

(* A crash makes one worker forget, and is counted.                        *)
LEMMA CrashForgets ==
  ASSUME SingleUseInv, Backend = "memory", WindowCoversBand, MemoryInv,
         NEW w \in Workers, CrashRestart(w)
  PROVE  MemoryInv'
<1> USE ConfigAssumption DEF SingleUseInv, ProvenanceInv
<1> SUFFICES ASSUME NEW b \in Requests
             PROVE  /\ IsFiniteSet(Uses(b)')
                    /\ Cardinality(Uses(b)') <= Cardinality(Remembering(b)') + crashes'
  BY DEF MemoryInv
<1>1. /\ Uses(b)' = Uses(b) /\ crashes' = crashes + 1 /\ crashes \in Nat
      /\ Remembering(b)' = Remembering(b) \ {w}
  BY DEF CrashRestart, Uses, Remembering, TypeOK, Stores
<1>2. /\ IsFiniteSet(Uses(b))
      /\ Cardinality(Uses(b)) <= Cardinality(Remembering(b)) + crashes
  BY DEF MemoryInv
<1>3. /\ IsFiniteSet(Remembering(b))
      /\ Cardinality(Remembering(b) \ {w}) =
           IF w \in Remembering(b) THEN Cardinality(Remembering(b)) - 1
           ELSE Cardinality(Remembering(b))
  BY RememberingIsFinite, FS_RemoveElement
<1>4. Cardinality(Uses(b)) \in Nat /\ Cardinality(Remembering(b)) \in Nat
  BY <1>2, <1>3, FS_CardinalityType
<1> QED
  BY <1>1, <1>2, <1>3, <1>4

(* Only a consume makes a use and only a crash makes a worker forget.      *)
LEMMA MemoryStep == SingleUseInv /\ MemoryInv /\ [Next]_vars => MemoryInv'
<1> SUFFICES ASSUME SingleUseInv, MemoryInv, [Next]_vars,
                    Backend = "memory", WindowCoversBand
             PROVE  MemoryInv'
  BY DEF MemoryInv
<1> USE ConfigAssumption DEF SingleUseInv, ProvenanceInv
<1>1. ASSUME NEW r \in Requests, Consume(r), verdict'[r] = "accepted"
      PROVE  MemoryInv'
  <2>1. text[r] \in Requests /\ worker[r] \in Workers
    BY <1>1 DEF Consume, ProgressInv, CheckInv, Minted
  <2> QED
    BY <1>1, <2>1, AcceptRemembers
<1>2. ASSUME NEW r \in Requests, Consume(r), verdict'[r] # "accepted"
      PROVE  MemoryInv'
  <2>1. UNCHANGED <<ledger, crashes>> /\ \A b \in Requests : Uses(b)' = Uses(b)
    BY <1>2 DEF Consume, Known, EntryEnd, Uses, TypeOK, ProgressInv
  <2> QED
    BY <2>1 DEF MemoryInv, Remembering
<1>3. ASSUME NEW w \in Workers, CrashRestart(w)
      PROVE  MemoryInv'
  BY <1>3, CrashForgets
<1>4. ASSUME \A r \in Requests : ~Consume(r), \A w \in Workers : ~CrashRestart(w)
      PROVE  MemoryInv'
  <2>1. Quiet
    BY <1>4, QuietSteps DEF LedgerFails
  <2>2. crashes' = crashes
    BY <1>4 DEF Next, Finish, Unauthenticated, RefuseToSign, Sign, Check, FailCheck,
       LedgerFails, Log, Reply, Tick, vars
  <2>3. \A b \in Requests : Uses(b)' = Uses(b) /\ Remembering(b)' = Remembering(b)
    BY <2>1 DEF Quiet, Uses, Remembering
  <2> QED
    BY <2>2, <2>3 DEF MemoryInv
<1> QED
  BY <1>1, <1>2, <1>3, <1>4

(* The count of uses against memories and crashes holds throughout.        *)
LEMMA MemoryInvariant == Spec => []MemoryInv
<1>1. Init => MemoryInv
  <2> SUFFICES ASSUME Init, NEW b \in Requests
               PROVE  /\ IsFiniteSet(Uses(b))
                      /\ Cardinality(Uses(b)) <= Cardinality(Remembering(b)) + crashes
    BY DEF MemoryInv
  <2>1. Uses(b) = {} /\ crashes = 0
    BY DEF Init, Uses
  <2> QED
    BY <2>1, RememberingIsFinite, FS_EmptySet
<1>2. SingleUseInv /\ MemoryInv /\ [Next]_vars => MemoryInv'
  BY MemoryStep
<1> QED
  BY <1>1, <1>2, SingleUseInvariant, PTL DEF Spec

(* With a dict per worker (the default backend) a band's uses are bounded  *)
(* by the workers that still remember it plus the crashes so far.          *)
THEOREM UsesRemembered == Spec => []UsesAreRemembered
<1>1. MemoryInv => UsesAreRemembered
  BY DEF MemoryInv, UsesAreRemembered
<1> QED
  BY <1>1, MemoryInvariant, PTL

(* So without a shared file a band is used at most once per worker and     *)
(* once more per crash; with no crash, at most once per worker.            *)
THEOREM UsesAreBounded ==
  ASSUME Backend = "memory", WindowCoversBand
  PROVE  Spec => [](\A b \in Requests :
                      Cardinality(Uses(b)) <= Cardinality(Workers) + crashes)
<1>1. TypeOK /\ MemoryInv => \A b \in Requests :
                      Cardinality(Uses(b)) <= Cardinality(Workers) + crashes
  <2> SUFFICES ASSUME TypeOK, MemoryInv, NEW b \in Requests
               PROVE  Cardinality(Uses(b)) <= Cardinality(Workers) + crashes
    OBVIOUS
  <2>1. /\ IsFiniteSet(Uses(b)) /\ crashes \in Nat
        /\ Cardinality(Uses(b)) <= Cardinality(Remembering(b)) + crashes
    BY ConfigAssumption DEF TypeOK, MemoryInv
  <2>2. /\ Cardinality(Uses(b)) \in Nat /\ Cardinality(Workers) \in Nat
        /\ Cardinality(Remembering(b)) \in Nat
        /\ Cardinality(Remembering(b)) <= Cardinality(Workers)
    BY <2>1, ConfigAssumption, RememberingIsFinite, FS_CardinalityType
  <2> QED
    BY <2>1, <2>2
<1> QED
  BY <1>1, MemoryInvariant, TypeCorrect, PTL

-----------------------------------------------------------------------------
(* A live entry of the ledger file survives every step, crashes included.  *)
THEOREM LedgerFileIsDurable == Spec => DurableEntries
<1>1. ProvenanceInv /\ [Next]_vars =>
        [\A b \in Requests :
           EntryLive(ledger[Disk][b], now) => ledger'[Disk][b] = ledger[Disk][b]]_vars
  <2> SUFFICES ASSUME ProvenanceInv, [Next]_vars, NEW b \in Requests,
                      EntryLive(ledger[Disk][b], now)
               PROVE  ledger'[Disk][b] = ledger[Disk][b]
    OBVIOUS
  <2> USE ConfigAssumption DEF ProvenanceInv, TypeOK, Stores
  <2>1. ASSUME NEW r \in Requests, Consume(r) \/ LedgerFails(r)
        PROVE  ledger'[Disk][b] = ledger[Disk][b]
    BY <2>1, LedgerCall DEF Minted
  <2>2. ASSUME NEW w \in Workers, CrashRestart(w)
        PROVE  ledger'[Disk][b] = ledger[Disk][b]
    BY <2>2 DEF CrashRestart
  <2>3. ASSUME \A r \in Requests : ~Consume(r) /\ ~LedgerFails(r),
               \A w \in Workers : ~CrashRestart(w)
        PROVE  ledger'[Disk][b] = ledger[Disk][b]
    BY <2>3, QuietSteps DEF Quiet
  <2> QED
    BY <2>1, <2>2, <2>3
<1> QED
  BY <1>1, Provenance, PTL DEF Spec, DurableEntries

(* The gate refines SingleUse: a band is issued when /wrap signs it and    *)
(* granted when a worker accepts it; every other step changes neither.     *)
THEOREM ImplementsTickets ==
  ASSUME LedgerIsShared, WindowCoversBand
  PROVE  Spec => ImplementsSingleUse
<1>1. Init => Tickets!Init
  BY DEF Init, Tickets!Init, Minted, Uses
<1>2. SingleUseInv /\ [Next]_vars => [Tickets!Next]_(Tickets!vars)
  <2> SUFFICES ASSUME SingleUseInv, [Next]_vars
               PROVE  [Tickets!Next]_(Tickets!vars)
    OBVIOUS
  <2> USE ConfigAssumption DEF SingleUseInv, ProvenanceInv
  <2>1. ASSUME NEW r \in Requests, NEW w \in Workers,
               NEW u \in Users \cup {None}, NEW c \in Contexts, Sign(r, w, u, c)
        PROVE  Tickets!Issue(r)
    <3>1. r \notin Minted /\ Minted' = Minted \cup {r}
      BY <2>1 DEF Sign, Enter, Minted, TypeOK, ProgressInv
    <3>2. \A b \in Requests : Uses(b)' = Uses(b)
      BY <2>1 DEF Sign, Enter, Uses, TypeOK, ProgressInv
    <3> QED
      BY <3>1, <3>2 DEF Tickets!Issue
  <2>2. ASSUME NEW r \in Requests, Consume(r) \/ LedgerFails(r),
               verdict'[r] = "accepted"
        PROVE  text[r] \in Requests /\ Tickets!Grant(text[r], r)
    <3>1. /\ text[r] \in Minted /\ Minted' = Minted
          /\ text' = text /\ verdict[r] = "none"
      BY <2>2, LedgerCall
    <3>2. Uses(text[r]) = {}
      <4>1. Backend # "none"
        BY DEF LedgerIsShared
      <4> QED
        BY <2>2, <4>1, LedgerCall, UsedBandIsRefused
    <3>3. \A b \in Requests : Uses(b)' = IF b = text[r] THEN {r} ELSE Uses(b)
      BY <2>2, <3>1, <3>2, LedgerCall DEF Uses
    <3> QED
      BY <3>1, <3>2, <3>3 DEF Tickets!Grant, Minted
  <2>3. ASSUME \A b \in Requests : Uses(b)' = Uses(b), Minted' = Minted
        PROVE  UNCHANGED Tickets!vars
    BY <2>3 DEF Tickets!vars
  <2>4. ASSUME NEW r \in Requests, Consume(r) \/ LedgerFails(r),
               verdict'[r] # "accepted"
        PROVE  UNCHANGED Tickets!vars
    BY <2>3, <2>4, LedgerCall DEF Uses
  <2>5. ASSUME NEW w \in Workers, CrashRestart(w)
        PROVE  UNCHANGED Tickets!vars
    BY <2>3, <2>5 DEF CrashRestart, Uses, Minted
  <2>6. ASSUME \A r \in Requests : ~Consume(r) /\ ~LedgerFails(r),
               \A w \in Workers : ~CrashRestart(w),
               Minted' = Minted
        PROVE  UNCHANGED Tickets!vars
    BY <2>3, <2>6, QuietSteps DEF Quiet, Uses
  <2>7. ASSUME \A r \in Requests : ~Consume(r) /\ ~LedgerFails(r),
               \A w \in Workers : ~CrashRestart(w),
               Minted' # Minted
        PROVE  \E r \in Requests, w \in Workers, u \in Users \cup {None},
                  c \in Contexts : Sign(r, w, u, c)
    <3> SUFFICES ASSUME \A r \in Requests, w \in Workers,
                           u \in Users \cup {None}, c \in Contexts : ~Sign(r, w, u, c)
                 PROVE  Minted' = Minted
      BY <2>7
    <3>1. ASSUME NEW r \in Requests, NEW w \in Workers,
                 Unauthenticated(r, w) \/ RefuseToSign(r, w)
          PROVE  Minted' = Minted
      BY <3>1 DEF Unauthenticated, RefuseToSign, Enter, Minted, TypeOK, ProgressInv
    <3>2. ASSUME NEW r \in Requests, NEW w \in Workers,
                 NEW u \in Users \cup {None}, NEW c \in Contexts,
                 NEW t \in Requests \cup {None},
                 Check(r, w, u, t, c) \/ FailCheck(r, w, u, t, c)
          PROVE  Minted' = Minted
      BY <3>2 DEF Check, FailCheck, Enter, Minted, TypeOK, ProgressInv
    <3>3. ASSUME NEW r \in Requests, Log(r) \/ Reply(r)
          PROVE  Minted' = Minted
      BY <3>3 DEF Log, Reply, Minted
    <3>4. CASE Tick \/ UNCHANGED vars
      BY <3>4 DEF Tick, vars, reqVars, Minted
    <3> QED
      BY <2>7, <3>1, <3>2, <3>3, <3>4 DEF Next, Finish
  <2> QED
    BY <2>1, <2>2, <2>4, <2>5, <2>6, <2>7 DEF Tickets!Next
<1>3. QED
  BY <1>1, <1>2, SingleUseInvariant, PTL
     DEF Spec, ImplementsSingleUse, Tickets!Spec
-----------------------------------------------------------------------------
(* One request at most is between check and consume at a worker, and what  *)
(* is in flight is at some worker, which a crash would take it down with.  *)
HandlerInv ==
  /\ \A r \in Requests : phase[r] \in InFlight => worker[r] \in Workers
  /\ \A r, q \in Requests :
       phase[r] = "checked" /\ phase[q] = "checked" /\ worker[r] = worker[q] => r = q

LEMMA HandlerStep == TypeOK /\ HandlerInv /\ [Next]_vars => HandlerInv'
<1> SUFFICES ASSUME TypeOK, HandlerInv, [Next]_vars PROVE HandlerInv'
  OBVIOUS
<1> USE DEF TypeOK, HandlerInv, InFlight
<1>1. ASSUME NEW r \in Requests, NEW w \in Workers,
             Unauthenticated(r, w) \/ RefuseToSign(r, w)
      PROVE  HandlerInv'
  BY <1>1 DEF Unauthenticated, RefuseToSign
<1>2. ASSUME NEW r \in Requests, NEW w \in Workers,
             NEW u \in Users \cup {None}, NEW c \in Contexts, Sign(r, w, u, c)
      PROVE  HandlerInv'
  BY <1>2 DEF Sign
<1>3. ASSUME NEW r \in Requests, NEW w \in Workers,
             NEW u \in Users \cup {None}, NEW c \in Contexts,
             NEW t \in Requests \cup {None},
             Check(r, w, u, t, c) \/ FailCheck(r, w, u, t, c)
      PROVE  HandlerInv'
  BY <1>3 DEF Check, FailCheck, Enter, Free
<1>4. ASSUME NEW r \in Requests, Finish(r)
      PROVE  HandlerInv'
  <2>1. /\ phase[r] \in InFlight
        /\ \/ worker' = worker /\ phase' = [phase EXCEPT ![r] = "decided"]
           \/ worker' = worker /\ phase' = [phase EXCEPT ![r] = "logged"]
           \/ /\ phase' = [phase EXCEPT ![r] = "replied"]
              /\ worker' = [worker EXCEPT ![r] = None]
    BY <1>4 DEF Finish, Consume, LedgerFails, Log, Reply
  <2> QED
    BY <2>1
<1>5. ASSUME NEW w \in Workers, CrashRestart(w)
      PROVE  HandlerInv'
  BY <1>5 DEF CrashRestart
<1>6. CASE Tick \/ UNCHANGED vars
  BY <1>6 DEF Tick, vars, reqVars
<1> QED
  BY <1>1, <1>2, <1>3, <1>4, <1>5, <1>6 DEF Next

(* A request that can be finished at once: Consume is ready whatever the   *)
(* ledger says, Log and Reply when nobody holds the worker.                *)
Ready(r) ==
  \/ phase[r] = "checked"
  \/ phase[r] \in {"decided", "logged"} /\ Free(worker[r])

(* The steps a request's handler has left to its answer.                   *)
StepsLeft(r) ==
  CASE phase[r] = "new"     -> 4
    [] phase[r] = "checked" -> 3
    [] phase[r] = "decided" -> 2
    [] phase[r] = "logged"  -> 1
    [] OTHER                -> 0

(* Whom a request waits for, for any workers and requests.  One in flight  *)
(* is ready, or waits for exactly one other, which is ready: besides the   *)
(* audit logger the handlers of app/main.py wait for nothing but another's *)
(* stretch between check and consume, and that stretch waits for nothing.  *)
THEOREM HandlersWaitForOne ==
  Spec => [](\A r \in Requests :
               phase[r] \in InFlight /\ ~Ready(r) =>
                 \E q \in Requests :
                   /\ Ready(q) /\ worker[q] = worker[r]
                   /\ \A p \in Requests :
                        phase[p] = "checked" /\ worker[p] = worker[r] => p = q)
<1>1. Init => HandlerInv
  BY DEF Init, HandlerInv, InFlight
<1>2. TypeOK /\ HandlerInv /\ [Next]_vars => HandlerInv'
  BY HandlerStep
<1>3. HandlerInv =>
        \A r \in Requests :
          phase[r] \in InFlight /\ ~Ready(r) =>
            \E q \in Requests :
              /\ Ready(q) /\ worker[q] = worker[r]
              /\ \A p \in Requests :
                   phase[p] = "checked" /\ worker[p] = worker[r] => p = q
  <2> SUFFICES ASSUME HandlerInv, NEW r \in Requests, phase[r] \in InFlight, ~Ready(r)
               PROVE  \E q \in Requests :
                        /\ Ready(q) /\ worker[q] = worker[r]
                        /\ \A p \in Requests :
                             phase[p] = "checked" /\ worker[p] = worker[r] => p = q
    OBVIOUS
  <2>1. PICK q \in Requests : worker[q] = worker[r] /\ phase[q] = "checked"
    BY DEF Ready, Free, InFlight
  <2> QED
    BY <2>1 DEF Ready, HandlerInv
<1> QED
  BY <1>1, <1>2, <1>3, TypeCorrect, PTL DEF Spec

(* And every step of a handler brings its request nearer to the answer,    *)
(* while no step of another request, of the clock or of a crash takes it   *)
(* further away (verify_content and wrap_content have no loop).            *)
THEOREM RequestsWindDown ==
  Spec => [][\A r \in Requests :
               /\ StepsLeft(r)' \in 0..StepsLeft(r)
               /\ Finish(r) => StepsLeft(r)' < StepsLeft(r)]_vars
<1>1. ASSUME TypeOK, [Next]_vars, NEW r \in Requests
      PROVE  /\ StepsLeft(r)' \in 0..StepsLeft(r)
             /\ Finish(r) => StepsLeft(r)' < StepsLeft(r)
  <2> USE DEF TypeOK, Phases
  <2> DEFINE Onward(q) ==
         \/ phase'[q] = phase[q]
         \/ phase[q] = "new" /\ phase'[q] \in {"checked", "decided", "replied"}
         \/ phase[q] = "checked" /\ phase'[q] \in {"decided", "replied"}
         \/ phase[q] = "decided" /\ phase'[q] = "logged"
         \/ phase[q] = "logged" /\ phase'[q] = "replied"
         \/ phase'[q] = "lost"
  <2>1. Onward(r)
    <3>1. ASSUME NEW q \in Requests, NEW w \in Workers,
                 Unauthenticated(q, w) \/ RefuseToSign(q, w)
          PROVE  Onward(r)
      BY <1>1, <3>1 DEF Unauthenticated, RefuseToSign, Enter
    <3>2. ASSUME NEW q \in Requests, NEW w \in Workers,
                 NEW u \in Users \cup {None}, NEW c \in Contexts,
                 NEW t \in Requests \cup {None},
                 \/ Sign(q, w, u, c)
                 \/ Check(q, w, u, t, c) \/ FailCheck(q, w, u, t, c)
          PROVE  Onward(r)
      BY <1>1, <3>2 DEF Sign, Check, FailCheck, Enter
    <3>3. ASSUME NEW q \in Requests, Finish(q)
          PROVE  Onward(r)
      BY <1>1, <3>3 DEF Finish, Consume, LedgerFails, Log, Reply
    <3>4. ASSUME NEW w \in Workers, CrashRestart(w)
          PROVE  Onward(r)
      BY <1>1, <3>4 DEF CrashRestart
    <3>5. CASE Tick \/ UNCHANGED vars
      BY <3>5 DEF Tick, vars, reqVars
    <3> QED
      BY <1>1, <3>1, <3>2, <3>3, <3>4, <3>5 DEF Next
  <2>2. Finish(r) => /\ phase[r] \in {"checked", "decided", "logged"}
                     /\ phase'[r] # phase[r]
    BY <1>1 DEF Finish, Consume, LedgerFails, Log, Reply
  <2>3. phase[r] \in Phases
    BY <1>1
  <2>4. StepsLeft(r)' \in 0..StepsLeft(r)
    BY <2>1, <2>3 DEF StepsLeft
  <2>5. Finish(r) => StepsLeft(r)' < StepsLeft(r)
    BY <2>1, <2>2, <2>3 DEF StepsLeft
  <2> QED
    BY <2>4, <2>5
<1>2. TypeOK /\ [Next]_vars =>
        [\A r \in Requests :
           /\ StepsLeft(r)' \in 0..StepsLeft(r)
           /\ Finish(r) => StepsLeft(r)' < StepsLeft(r)]_vars
  BY <1>1
<1> QED
  BY <1>2, TypeCorrect, PTL DEF Spec
=============================================================================
