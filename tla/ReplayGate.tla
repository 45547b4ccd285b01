---------------------------- MODULE ReplayGate ----------------------------
(***************************************************************************)
(* /wrap and /verify of app/main.py with the identity middleware in front  *)
(* and the replay ledger of app/replay.py behind them, run by one or more  *)
(* worker processes that crash and restart.                                *)
(*                                                                         *)
(* A request is handled in three stretches separated by the points where   *)
(* another request, a crash or the clock can come in between:              *)
(*   check    the band is verified            (extract_and_verify)         *)
(*   consume  its nonce is put in the ledger  (apply_replay_protection)    *)
(*   log      the audit event is awaited, then the response is sent        *)
(* Check and consume have no await between them, so a worker is at that    *)
(* point for one request at a time; other workers are not held up.         *)
(*                                                                         *)
(* A band is named by the /wrap request that minted it: the nonce is fresh *)
(* per call.  Its signed context, issuer and issue time are that request's *)
(* ctx, issuer and at.                                                     *)
(***************************************************************************)
EXTENDS GuardBands, FiniteSets

CONSTANTS
  Requests,     \* the requests that ever reach the service
  Workers,      \* the uvicorn processes
  Users,        \* identities the proxy can put in the SSO header
  Contexts,     \* the contexts clients send
  UserOf,       \* the "user" entry of a context, None when absent or empty
  None,         \* no header, no user entry, text that is not a band
  SSOEnabled,   \* settings.SSO_ENABLED
  Backend,      \* "none": REPLAY_PROTECTION_ENABLED is false; else the backend
  Disk,         \* names the SQLite file every worker opens
  TTL,          \* settings.GUARD_BAND_TTL_SECONDS
  Window,       \* settings.REPLAY_WINDOW_SECONDS
  MaxStall,     \* bound: seconds between a worker's check and its consume
  MaxTime,      \* bound: the last second of the clock
  MaxCrashes    \* bound: crashes in all

ASSUME ConfigAssumption ==
  /\ UserOf \in [Contexts -> Users \cup {None}]
  /\ None \notin Users \cup Contexts \cup Requests \cup Workers
  /\ SSOEnabled \in BOOLEAN
  /\ Backend \in {"none", "memory", "sqlite"}
  /\ Disk \notin Workers
  /\ IsFiniteSet(Workers)
  /\ TTL \in Nat /\ Window \in Nat /\ MaxStall \in Nat
  /\ MaxTime \in Nat /\ MaxCrashes \in Nat

VARIABLES
  now,       \* the clock, in seconds
  crashes,   \* crashes so far
  ledger,    \* per store and band, until when its nonce is refused
  phase,     \* how far the handling of a request has come
  worker,    \* the worker that handles it
  issuer,    \* the caller a band was signed for
  ctx,       \* the context a band was signed, or verified, with
  text,      \* the band a /verify request presents
  at,        \* when the band was signed, or checked
  verdict,   \* what the handler decided
  audited    \* the success flag the audit logger was called with, "none" before

reqVars == <<phase, worker, issuer, ctx, text, at, verdict, audited>>
vars == <<now, crashes, ledger, reqVars>>

Stores == Workers \cup {Disk}
Phases == {"new", "checked", "decided", "logged", "replied", "lost"}
Verdicts == {"none", "unauthenticated",
             "signed", "refused",                          \* /wrap
             "invalid", "accepted", "replayed", "error"}   \* /verify
InFlight == {"checked", "decided", "logged"}

TypeOK ==
  /\ now \in 0..MaxTime
  /\ crashes \in 0..MaxCrashes
  /\ ledger \in [Stores -> [Requests -> {NoEntry} \cup 0..(MaxTime + Window)]]
  /\ phase \in [Requests -> Phases]
  /\ worker \in [Requests -> Workers \cup {None}]
  /\ issuer \in [Requests -> Users \cup {None}]
  /\ ctx \in [Requests -> Contexts \cup {None}]
  /\ text \in [Requests -> Requests \cup {None}]
  /\ at \in [Requests -> 0..MaxTime]
  /\ verdict \in [Requests -> Verdicts]
  /\ audited \in [Requests -> {"none", "success", "failure"}]

Init ==
  /\ now = 0
  /\ crashes = 0
  /\ ledger = [s \in Stores |-> [b \in Requests |-> NoEntry]]
  /\ phase = [r \in Requests |-> "new"]
  /\ worker = [r \in Requests |-> None]
  /\ issuer = [r \in Requests |-> None]
  /\ ctx = [r \in Requests |-> None]
  /\ text = [r \in Requests |-> None]
  /\ at = [r \in Requests |-> 0]
  /\ verdict = [r \in Requests |-> "none"]
  /\ audited = [r \in Requests |-> "none"]

-----------------------------------------------------------------------------
(* The bands that exist, and those a client has been handed. *)
Minted == {b \in Requests : verdict[b] = "signed"}
Delivered == {b \in Minted : phase[b] = "replied"}

ExpiryOf(b) == at[b] + TTL

(* The worker is not inside another request's check-and-consume stretch. *)
Free(w) == \A r \in Requests : worker[r] = w => phase[r] # "checked"

(* The ledger a worker consults: its own dict, or the file. *)
OwnLedgerAlways(w) == w                                     \* seeded fault
StoreOf(w) == IF Backend = "sqlite" THEN Disk ELSE w

(* The ledger knows the nonce; and until when it will know a new one.      *)
NeverKnown(s, b) == FALSE                                   \* seeded fault
Known(s, b) == Backend # "none" /\ EntryLive(ledger[s][b], now)

EntryEndAtOnce == now                                       \* seeded fault
EntryEnd == now + Window

(* The signed-in caller names somebody else in the context to be signed. *)
NeverContradicts(u, c) == FALSE                             \* seeded fault
Contradicts(u, c) == u # None /\ UserOf[c] # None /\ UserOf[c] # u

(* extract_and_verify: text that is no authentic band, a band signed with  *)
(* another context and a band past its expiry are all refused.             *)
Verifies(t, c) ==
  /\ t \in Minted
  /\ ctx[t] = c
  /\ BandLive(ExpiryOf(t), now)

(* A request comes in at worker w with identity header u.                  *)
Enter(r, w, u) ==
  /\ phase[r] = "new"
  /\ Free(w)
  /\ SSOEnabled => u # None

(* The middleware answers 401 by itself; the handler never runs.           *)
Unauthenticated(r, w) ==
  /\ phase[r] = "new"
  /\ Free(w)
  /\ SSOEnabled
  /\ phase' = [phase EXCEPT ![r] = "replied"]
  /\ verdict' = [verdict EXCEPT ![r] = "unauthenticated"]
  /\ UNCHANGED <<now, crashes, ledger, worker, issuer, ctx, text, at, audited>>

(* /wrap up to its audit event, when the band is signed: with the context  *)
(* as sent, the caller as issuer and the clock stamped in.                 *)
Sign(r, w, u, c) ==
  /\ Enter(r, w, u)
  /\ ~Contradicts(u, c)
  /\ phase' = [phase EXCEPT ![r] = "decided"]
  /\ worker' = [worker EXCEPT ![r] = w]
  /\ verdict' = [verdict EXCEPT ![r] = "signed"]
  /\ issuer' = [issuer EXCEPT ![r] = u]
  /\ ctx' = [ctx EXCEPT ![r] = c]
  /\ at' = [at EXCEPT ![r] = now]
  /\ UNCHANGED <<now, crashes, ledger, text, audited>>

(* /wrap up to its audit event, when nothing is signed: the context        *)
(* contradicts the caller, or the library raises (an unknown key id).      *)
RefuseToSign(r, w) ==
  /\ \E u \in Users \cup {None} : Enter(r, w, u)
  /\ phase' = [phase EXCEPT ![r] = "decided"]
  /\ worker' = [worker EXCEPT ![r] = w]
  /\ verdict' = [verdict EXCEPT ![r] = "refused"]
  /\ UNCHANGED <<now, crashes, ledger, issuer, ctx, text, at, audited>>

(* /verify, the cryptographic half, when the presented text holds.         *)
Check(r, w, u, t, c) ==
  /\ Enter(r, w, u)
  /\ t \in Delivered
  /\ Verifies(t, c)
  /\ phase' = [phase EXCEPT ![r] = "checked"]
  /\ worker' = [worker EXCEPT ![r] = w]
  /\ text' = [text EXCEPT ![r] = t]
  /\ ctx' = [ctx EXCEPT ![r] = c]
  /\ at' = [at EXCEPT ![r] = now]
  /\ UNCHANGED <<now, crashes, ledger, issuer, verdict, audited>>

(* Seeded fault: the ledger is asked whatever the check said.              *)
FailCheckSpends(r, w, u, t, c) ==
  /\ Enter(r, w, u)
  /\ t \in Delivered
  /\ ~Verifies(t, c)
  /\ phase' = [phase EXCEPT ![r] = "decided"]
  /\ worker' = [worker EXCEPT ![r] = w]
  /\ verdict' = [verdict EXCEPT ![r] = "invalid"]
  /\ ledger' = [ledger EXCEPT ![StoreOf(w)][t] = EntryEnd]
  /\ UNCHANGED <<now, crashes, issuer, ctx, text, at, audited>>

(* /verify when it does not: text nobody signed, another context, a band   *)
(* past its expiry.  An invalid result goes past the ledger untouched.     *)
FailCheck(r, w, u, t, c) ==
  /\ Enter(r, w, u)
  /\ t \in Delivered \cup {None}
  /\ ~Verifies(t, c)
  /\ phase' = [phase EXCEPT ![r] = "decided"]
  /\ worker' = [worker EXCEPT ![r] = w]
  /\ verdict' = [verdict EXCEPT ![r] = "invalid"]
  /\ UNCHANGED <<now, crashes, ledger, issuer, ctx, text, at, audited>>

(* /verify, the ledger half: one atomic insert-unless-present.  With       *)
(* replay protection off there is no ledger and a valid result stands.     *)
Consume(r) ==
  /\ phase[r] = "checked"
  /\ LET s == StoreOf(worker[r])
         b == text[r]
     IN IF Known(s, b)
          THEN /\ verdict' = [verdict EXCEPT ![r] = "replayed"]
               /\ UNCHANGED ledger
          ELSE /\ verdict' = [verdict EXCEPT ![r] = "accepted"]
               /\ ledger' = IF Backend = "none" THEN ledger
                            ELSE [ledger EXCEPT ![s][b] = EntryEnd]
  /\ phase' = [phase EXCEPT ![r] = "decided"]
  /\ at' = [at EXCEPT ![r] = 0]
  /\ UNCHANGED <<now, crashes, worker, issuer, ctx, text, audited>>

(* The ledger call raises: /verify has no handler for it, so the framework *)
(* answers 500 and the audit call is never reached.  Whether an insert was *)
(* committed before the failure is the library's affair: either may be.    *)
LedgerFails(r) ==
  /\ Backend = "sqlite"
  /\ phase[r] = "checked"
  /\ phase' = [phase EXCEPT ![r] = "replied"]
  /\ verdict' = [verdict EXCEPT ![r] = "error"]
  /\ \/ UNCHANGED ledger
     \/ /\ ~Known(Disk, text[r])
        /\ ledger' = [ledger EXCEPT ![Disk][text[r]] = EntryEnd]
  /\ worker' = [worker EXCEPT ![r] = None]
  /\ at' = [at EXCEPT ![r] = 0]
  /\ UNCHANGED <<now, crashes, issuer, ctx, text, audited>>

(* The audit logger is awaited before the response is built.  It is told   *)
(* the event; what becomes of it at the sinks it keeps to itself, and a    *)
(* sink that fails does not make the await fail (module AuditLog).         *)
Log(r) ==
  /\ phase[r] = "decided"
  /\ Free(worker[r])
  /\ phase' = [phase EXCEPT ![r] = "logged"]
  /\ audited' = [audited EXCEPT ![r] =
       IF verdict[r] \in {"signed", "accepted"} THEN "success" ELSE "failure"]
  /\ UNCHANGED <<now, crashes, ledger, worker, issuer, ctx, text, at, verdict>>

(* Seeded fault: the response does not wait for the audit event.           *)
ReplyAtOnce(r) ==
  /\ phase[r] \in {"decided", "logged"}
  /\ Free(worker[r])
  /\ phase' = [phase EXCEPT ![r] = "replied"]
  /\ worker' = [worker EXCEPT ![r] = None]
  /\ UNCHANGED <<now, crashes, ledger, issuer, ctx, text, at, verdict, audited>>

Reply(r) ==
  /\ phase[r] = "logged"
  /\ Free(worker[r])
  /\ phase' = [phase EXCEPT ![r] = "replied"]
  /\ worker' = [worker EXCEPT ![r] = None]
  /\ UNCHANGED <<now, crashes, ledger, issuer, ctx, text, at, verdict, audited>>

(* A worker dies and a new process takes its place: what it was handling   *)
(* gets no answer, and a ledger kept in its memory is gone.                *)
CrashRestart(w) ==
  /\ crashes < MaxCrashes
  /\ crashes' = crashes + 1
  /\ phase' = [r \in Requests |-> IF worker[r] = w THEN "lost" ELSE phase[r]]
  /\ worker' = [r \in Requests |-> IF worker[r] = w THEN None ELSE worker[r]]
  /\ ledger' = [ledger EXCEPT ![w] = [b \in Requests |-> NoEntry]]
  /\ UNCHANGED <<now, issuer, ctx, text, at, verdict, audited>>

(* A second passes.  No worker stays between check and consume for longer  *)
(* than MaxStall.                                                          *)
Tick ==
  /\ now < MaxTime
  /\ \A r \in Requests : phase[r] = "checked" => now < at[r] + MaxStall
  /\ now' = now + 1
  /\ UNCHANGED <<crashes, ledger, reqVars>>

Finish(r) == Consume(r) \/ LedgerFails(r) \/ Log(r) \/ Reply(r)

Next ==
  \/ \E r \in Requests, w \in Workers :
       \/ Unauthenticated(r, w)
       \/ RefuseToSign(r, w)
       \/ \E u \in Users \cup {None}, c \in Contexts :
            \/ Sign(r, w, u, c)
            \/ \E t \in Requests \cup {None} :
                 Check(r, w, u, t, c) \/ FailCheck(r, w, u, t, c)
  \/ \E r \in Requests : Finish(r)
  \/ \E w \in Workers : CrashRestart(w)
  \/ Tick

Spec == Init /\ [][Next]_vars

-----------------------------------------------------------------------------
(* What the deployment must set for the ledger to make bands single use: a *)
(* ledger every worker shares and no crash clears (or one worker that does *)
(* not crash), and a window that covers the life of a band plus the        *)
(* longest stall.  Nothing in app/config.py relates Window to TTL.         *)
LedgerIsShared ==
  \/ Backend = "sqlite"
  \/ Backend = "memory" /\ MaxCrashes = 0 /\ \A v, w \in Workers : v = w

WindowCoversBand ==
  \/ Window > TTL + MaxStall
  \/ Window = TTL + MaxStall /\ (EntryLiveAtEnd \/ ~BandLiveAtExp)

Uses(b) == {r \in Requests : verdict[r] = "accepted" /\ text[r] = b}

(* A band is accepted by /verify at most once, whichever workers the       *)
(* requests reach, however they interleave and whatever crashes in between *)
(* (app/replay.py and the handlers' check-then-consume).                   *)
AtMostOneUse ==
  \A r1, r2 \in Requests :
    verdict[r1] = "accepted" /\ verdict[r2] = "accepted" /\ r1 # r2
      => text[r1] # text[r2]

(* Under SSO a band accepted in a context that names a user was minted by  *)
(* that user: /wrap's context check and /verify's context binding together *)
(* (neither handler looks at the issuer).                                  *)
MintedByNamedUser ==
  \A r \in Requests :
    SSOEnabled /\ verdict[r] = "accepted" /\ UserOf[ctx[r]] # None
      => issuer[text[r]] = UserOf[ctx[r]]

(* A band is refused as a replay only on account of another request that   *)
(* presented it while it was live and in its own context: one that the     *)
(* ledger let through, although a crash may have taken its answer, or one  *)
(* whose ledger call failed.  No other presentation, of whatever text, in  *)
(* whatever context and however late, ever spends it (the order of         *)
(* extract_and_verify and apply_replay_protection in app/main.py).         *)
Claims(b) == {r \in Requests : verdict[r] \in {"accepted", "error"} /\ text[r] = b}

ReplayHasReason ==
  \A r \in Requests :
    verdict[r] = "replayed" => \E q \in Claims(text[r]) : ctx[q] = ctx[text[r]]

(* Without a ledger of their own file workers forget: each has its dict    *)
(* (app/replay.py, the default backend), which a crash clears.  What that  *)
(* costs is exactly this: a band is used once for every worker that still  *)
(* remembers it, and once more for every crash, but never twice by a       *)
(* worker that has run on, however long ago the first use was.             *)
Remembering(b) == {w \in Workers : ledger[w][b] # NoEntry}

UsesAreRemembered ==
  Backend = "memory" /\ WindowCoversBand =>
    \A b \in Requests :
      Cardinality(Uses(b)) <= Cardinality(Remembering(b)) + crashes

(* An entry in the ledger file stays, unchanged, until its window has run  *)
(* out, across the crash and restart of every worker.                      *)
DurableEntries ==
  [][\A b \in Requests :
       EntryLive(ledger[Disk][b], now) => ledger'[Disk][b] = ledger[Disk][b]]_vars

(* What a handler answers by itself the audit logger was told before, with *)
(* the same success, although other requests run while it is awaited and   *)
(* workers crash.  The middleware's 401 and the 500 of a ledger that fails *)
(* are the two answers it is not told of.  Whether a sink keeps the event  *)
(* is not said here: AuditLogger.log swallows their failures.              *)
AnsweredIsLogged ==
  \A r \in Requests :
    phase[r] = "replied" /\ verdict[r] \notin {"unauthenticated", "error"} =>
      audited[r] = IF verdict[r] \in {"signed", "accepted"} THEN "success" ELSE "failure"

(* The inductive invariant behind AtMostOneUse, MintedByNamedUser and      *)
(* ReplayHasReason, in named parts: a request has no verdict before it is  *)
(* decided; what a minted band carries; what a checked request knows of    *)
(* its band until it consumes it; what one that claimed it shares with it; *)
(* the ledger outlives every later check of a used band; it holds nothing  *)
(* but bands somebody claimed; an entry is no older than its band.         *)
ProgressInv ==
  \A r \in Requests :
    /\ phase[r] \in {"new", "checked"} => verdict[r] = "none"
    /\ phase[r] = "checked" => worker[r] \in Workers

MintInv ==
  \A b \in Minted :
    /\ at[b] <= now
    /\ ~Contradicts(issuer[b], ctx[b])
    /\ SSOEnabled => issuer[b] # None

CheckInv ==
  \A r \in Requests :
    phase[r] = "checked" =>
      /\ text[r] \in Minted
      /\ ctx[r] = ctx[text[r]]
      /\ now <= at[r] + MaxStall
      /\ BandLive(ExpiryOf(text[r]), at[r])

UseInv ==
  \A r \in Requests :
    verdict[r] \in {"accepted", "error"} =>
      text[r] \in Minted /\ ctx[r] = ctx[text[r]]

CoverInv ==
  LedgerIsShared =>
    \A r \in Requests, w \in Workers :
      verdict[r] = "accepted"
        => at[text[r]] + Window <= ledger[StoreOf(w)][text[r]]

EntryInv ==
  \A s \in Stores, b \in Requests : ledger[s][b] # NoEntry => Claims(b) # {}

EntryAgeInv ==
  \A s \in Stores, b \in Requests :
    ledger[s][b] # NoEntry => b \in Minted /\ at[b] + Window <= ledger[s][b]

ProvenanceInv == TypeOK /\ ProgressInv /\ MintInv /\ CheckInv /\ UseInv

SingleUseInv ==
  /\ ProvenanceInv
  /\ CoverInv
  /\ EntryInv
  /\ EntryAgeInv
  /\ LedgerIsShared /\ WindowCoversBand => AtMostOneUse
  /\ ReplayHasReason

(* The gate implements a ledger of single-use tickets.                     *)
Tickets == INSTANCE SingleUse WITH
  Tickets <- Requests,
  Holders <- Requests,
  issued  <- Minted,
  granted <- [b \in Requests |-> Uses(b)]

ImplementsSingleUse == Tickets!Spec
=============================================================================
