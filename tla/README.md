# A TLA+ verification of the Guard Bands reference implementation

This directory holds TLA+ models of the services in `src/`, TLC runs that check
them on small instances, and TLAPS proofs of what matters most for every value
of the constants. The code is the reference: a definition says which lines it
stands for in `PROJECT.json` (`map`).

A *guard band* is an authenticated envelope around untrusted content: it is
signed with a context, an issuer, a nonce and an expiry, and verifies only under
exactly that context and before that expiry. The `guardbands` core library that
makes and verifies bands is installed from PyPI and is not part of the
repository. What is here are the services around it, and those are what we model.

## 1. Inventory

| Component | Source | State it keeps | Operations |
|---|---|---|---|
| Wrap and verify endpoints, identity middleware | `app/main.py`, `app/middleware/auth.py` | none of its own beyond a request in flight | `/wrap`, `/verify`, the 401 of the middleware, the audit event before each response |
| Replay ledger | `app/replay.py` | used nonces, in memory per worker or in one SQLite file | one atomic insert-unless-present per valid verification |
| Chat loop | `app/llm.py`, `/chat` in `app/main.py` | per chat: messages, `verified_blocks`, `usage_totals` | cost guard, up to five awaited model calls, verification on the model's request, enforcement on the final text |
| Cost guard | `app/cost.py` | none | estimate and actual cost |
| Settings and keys | `app/config.py` | `KEY_ID` and `GUARD_BAND_KEYS`, read once at import | load, fall back on `SECRET_KEY` |
| Secret providers | `app/secrets_provider.py` | a cache per provider, for the life of the process | resolve a name |
| Audit logger and sinks | `app/audit.py`, `app/sinks/` | the list of sinks; a pool or a client in each | startup, emit at all sinks at once, shutdown |
| Data plane | `dual_channel/data_plane.py` | the signing key of the process | `/ingest` |
| Control plane | `dual_channel/control_plane.py` | the verify key of the process | `/execute` |
| Authorization, support app | `app/authorization.py`, `reference_app/` | the key it started with | wrap a ticket; tenant, path and role decision over verified tickets |
| Python SDK | `guardbands_sdk/` | none; what an application was told of each attempt | HTTP calls, error mapping, timeouts |
| AgentDojo defense | `integrations/agentdojo/` | texts seen in tool results, shared by two pipeline elements | signer, provenance gate |
| RAG integration | `integrations/rag_middleware.py` | none | wrap each retrieved document in a context of its own, build a prompt of several |
| MCP integration | `integrations/mcp_demo.py` | none | one guarded call of one tool, through extensions of the core library |
| Core library | external (`pyproject.toml`) | | sign, verify, ledger |
| Scripts, examples, deployment | `scripts/`, `examples/`, `deploy/`, `docker-compose.yml` | | drivers and configuration |

How they interact. The middleware sets the caller for every handler. `/verify`
and the chat loop use the same ledger object, and with the SQLite backend the
same file across worker processes. Every handler awaits `AuditLogger.log` before
it responds. All processes of a deployment sign and verify with the key map
each loaded at its own start. The two planes of `dual_channel/` share a keypair
and nothing else. Signer and gate of the AgentDojo pipeline share a set of texts.
Applications reach `/chat` and `/verify` through the SDK, with messages the RAG
integration may have put together. The support app signs and verifies with a key
of its own.

What is hard here:

* **Check, then consume.** A band is verified and its nonce stored in two steps;
  workers interleave between them, the clock moves on, a worker crashes.
* **A ledger window against a band's life.** The two are separate settings.
* **Authority out of two requests.** `/wrap` checks the context's user against
  the caller, `/verify` checks only the context: together they must show who
  minted a band.
* **A free agent in the loop.** The model chooses what to verify, when, how
  often and how exactly it quotes, under concurrency at each awaited call.
* **Exits.** The chat loop has nine; each has its own duty about cost and nonces.
* **Keys read once, each process at its own time,** during a rolling rotation.
* **Sinks that fail or wait** with every response behind them.
* **One secret after another,** from a backend that may fail between two of them,
  while the operator goes on with the rotation.
* **Callers that give up** while the server goes on, and try again.
* **One estimate for several calls,** rounded, and compared inclusively.
* **The caller's own words:** context and principal of a support action are checked
  against one another, and only the signature ties them to the ticket.
* **Comparison at fixed offsets** in the provenance gate.

`PROJECT.json` lists these as hazards, each at its line.

What makes the components correct, in short: a band is accepted at most once, and
refused as a replay only on account of another request that presented it rightly
(ledger); an accepted band names
its minter (wrap and verify); an answer had every block verified, for this chat,
in this context (chat); what was billed is reported and nothing is billed before
approval (cost); a live band verifies everywhere through any rotation (keys);
what the control plane admits was ingested for that tenant, and what was
ingested is admitted (planes); every event is done with, and sinks are neither
stale nor left open (audit); nothing that was shown as data runs as an argument
(AgentDojo); what the SDK raises is true of the server, and a message sent again is
answered once (SDK); what a ticket is used for is what it was signed for (support).

## 2. The modules and how they correspond to the code

* `GuardBands` - what the services rely on from the core library: whether a band
  is live in the second of its expiry, and a ledger entry in its last second. The
  code never looks at these two boundaries, so both are constants that may be
  either; the proofs hold for all four combinations.
* `SingleUse` - the abstract ledger: tickets are issued once and granted to at
  most one holder. No clock, no process, no store. `ReplayGate` implements it, and
  so do the chats and `/verify` of `ChatGate`.
* `Admission` - what the two planes promise together: a document is handed in once,
  by one tenant, and documents of a tenant are admitted for that tenant, a batch as
  a whole or not at all. No key, no signature, no expiry.
* `ReplayGate` - `/wrap`, `/verify`, the middleware and the ledger in any number
  of worker processes with crashes and a clock. A band is named by the request
  that minted it (its nonce is fresh). A request goes through *checked*
  (`extract_and_verify`), *decided* (the ledger), *logged* (the audit event) and
  *replied*. Between check and consume the handler does not await, so a worker
  (`Free`) does nothing else there, while other workers do. `Tickets` is the
  refinement mapping to `SingleUse`.
* `ChatGate` - `/chat`, the chat loop and `/verify` beside it over one ledger. One
  process switches between chats only at the awaited model call, so all that
  follows a call's return is one action per way out of the loop body. The model's
  answer is free: it stops, names an unknown tool, quotes a block of the message
  exactly or with other text around it, quotes something else, or the call
  raises. The ledger prunes (`Prune`): a nonce whose window has passed is forgotten,
  and only with `WindowCovers` has the block expired by then. Text is abstracted to blocks and markers, cost to calls begun and billed.
* `RagChat` - what a request to `/chat` is made of: bands of one plain context, or
  documents the RAG integration wrapped, each in a context with its index; and the
  estimate of `app/cost.py` with its rounding and inclusive threshold, in integers
  (money in fractions of a millionth of a dollar). `MessageOf` turns a request into
  the message `ChatGate` starts from; from there on it takes `ChatGate`'s steps. The
  estimate says how long prompt and answer are, the loop how many calls are billed.
* `SdkClient` - applications over `ChatGate`: a chat is one attempt. The request may be
  turned away in front of the handler (`TurnAway`), the answer becomes a return value
  or an exception (`Sorted`: status first, then the text), and the call may give up
  while the server goes on. The SDK never tries again by itself; an application may,
  with the same message.
* `DualChannel` - both planes with keys that change only when a plane restarts.
  `Elsewhere` is what is signed without `/ingest`: by other keys with any claims,
  by a data-plane key (the test suite does so) under another issuer or channel.
  `Gate` is the refinement mapping to `Admission`: the tenant a document is from is
  the one in the context `/ingest` signed.
* `KeyRotation` - processes that start, stop and sign while the operator adds keys to
  the map and retires them as `docs/KEY_MANAGEMENT.md` describes. `KEY_ID` may be set
  to any key at any time a process is down, since nothing in the code compares it with
  the map; a key made active before every running process could verify it is
  remembered in the history variable `stray`. `chosen` are the bands whose key the
  caller of `/wrap` named in the body. The properties are about the other bands and
  processes, next to these.
* `Startup` - how such a process comes by its keys: the import of `app/config.py`
  resolves one secret after the other through the provider, each once and cached,
  while the map may be malformed or the backend fail. It extends `KeyRotation` and
  puts its steps between those of the import; the runs check the two together.
* `AuditLog` - `AuditLogger`, the three sinks and the lifespan that starts and
  stops them. The logger is a module global, so a second lifespan in one process
  adds its sinks to the first one's. Each event is under way at all sinks at once;
  PostgreSQL has a pool to wait for.
* `ToolLoop` - the AgentDojo pipeline: ungated first call, then tools, signer,
  model and gate, for conversation after conversation of one pipeline. Texts are
  sequences of characters here, because the property is about offsets.
* `SupportApp` - `/tickets/wrap` and `/tool-action` over the tables of
  `app/authorization.py`. Action, context and principal of a call are any the caller
  likes; a ticket may also be signed elsewhere by a holder of a key, and the app may
  be started again with another key.

`MC...` modules give the constants their small values. `..._proofs` modules hold
theorems. Definitions marked *seeded fault* are never used by a specification:
each is the form a definition would have with a plausible bug in it, and shows
that the property it is paired with in `PROJECT.json` (`mutants`) notices.

## 3. Runs

| Run | Instance | What it shows |
|---|---|---|
| `replay_shared` | 3 requests, 2 workers, SQLite, 1 crash, seconds 0..4, life 1, window 2, stall 1 | `AtMostOneUse`, `ReplayHasReason`, `DurableEntries`, refinement of `SingleUse`, the inductive `SingleUseInv` |
| `replay_requests` | 3 requests, 2 users, 2 contexts, 1 worker with its own ledger, 1 crash | `MintedByNamedUser`, `AnsweredIsLogged`, `UsesAreRemembered` |
| `chat_shared` | `SdkClient`: 2 attempts of one application, 2 blocks, 2 contexts, 3 calls, replay protection on a durable ledger that prunes, its window as long as a band lives | refinement of `SingleUse`, `AnswerIsVerified`, `SafeToResend`, `AnsweredOnce`, `VerifiedFirstIsSpent`, the inductive `ChatInv` and `ClientInv` |
| `chat_alone` | `RagChat`: 1 chat, 4 bands, 3 calls, every mix of documents, markers, price and approval, replay protection off, fair to the model call | `ApprovalComesFirst`, `CostIsReported`, `AnswerFitsInLoop`, `SeveralDocumentsRefused`, `OverrunBounded`, `ChatEnds` |
| `dual_rotation` | 2 documents, 2 keys and a foreign one, 2 tenants, batches of 2 | `IngestedIsAdmissible`, refinement of `Admission`, the inductive `AdmissionInv` with `AdmittedWasIngested` in it |
| `keys_rolling` | `Startup`: 2 processes, 2 keys, 1 band, seconds 0..5 | `LiveBandVerifies`, the inductive `RotationInv` and `StartupInv` |
| `audit_sinks` | 3 events, 3 sinks, pool of 1, 2 lifespans, fair | `SinkOpenForEvent`, `CleanStop`, `EventSettles`, the inductive `AuditInv` |
| `tool_gated` | texts up to six characters, all arguments of two or three letters, `MinLen` 2, 2 iterations, 2 conversations | `QuotedDataIsNotRun`, `WrappedOnceAndRecorded`, the inductive `LoopInv` |
| `support_tickets` | 2 tickets, 2 keys, 2 users and nobody, 2 tenants, 5 sets of roles, 3 contexts signed elsewhere | `ActionMatchesTicket`, `WrappedTicketsAreReadOnly`, the inductive `SupportInv` |
| `chat_markers` | violation | `IncompleteMarkersFailClosed` does not hold |
| `dual_refund` | violation | `RefundNeedsDocument` does not hold |
| `tool_wrapped` | violation | `EveryResultIsWrapped` does not hold |

The type invariant of a module is a conjunct of its inductive invariant and is
checked with it (`SingleUseInv`, `ChatInv`, `ClientInv`, `AdmissionInv`, `RotationInv`,
`StartupInv`, `AuditInv`, `LoopInv`, `SupportInv`). So are some properties that have a
theorem and no place of their own in a run: `OneHolder`, `AdmittedWasIngested`,
`NoStaleLink` and `PoolInv` are conjuncts, and `CanSign` follows from one.

### Why the bounds are enough

* `replay_*`: three requests are one that mints a band and two that want it, the least
  with which a double use can happen; two workers the least that interleave; seconds
  0..4 leave room for a band to be minted, used, to expire and to be pruned. A double
  use at the very boundary needs the stall to be as long as it may be: `MaxStall` is 1
  there, and the seeded fault `EntryEndAtOnce` is noticed. `replay_requests` has one
  worker and one crash: two requests can then both use the band of the third, and
  `UsesAreRemembered` allows it only with the crash between them. That workers beside
  one another remember each for itself is not in this run; the proof has any number.
* `chat_shared`: two attempts at one message are the least with which a lost one runs
  beside its retry; the message has one block or two, fits its context or not, or
  needs approval and is sent with and without it.
* `chat_alone`: `MaxCalls` is 3 instead of the code's 5: with three blocks the message
  that cannot be answered occurs, with two the one that just can; 3 of the 4 bands
  share a context, and two make up a prompt of two documents. Prices (1 and 6, in
  quarters of a millionth) and the threshold of four millionths are chosen so that
  totals below, at and above it occur, on both sides of the rounding and at the exact
  half. `RoundedUp` is empty in the run and arbitrary in the proof.
* `keys_rolling`: a band lives for one second and the grace is one second, so that a
  whole rotation, the retirement of the old key and its return fit before second 5. No
  step reads one band to change what concerns another, so one band is every band: the
  service or a caller chooses its key.
* `audit_sinks`: one connection for three events is the pool at its limit, and two
  lifespans are the least that show a sink started again.
* `tool_gated`: fragments of two characters make a quotation three characters long, so
  all offsets occur in texts of three to five.
* `support_tickets`: two of everything, so that each claim can be right or another's.

The proofs lift every one of these bounds, except those of the liveness properties.

`CHECK_DEADLOCK FALSE` is set where the finite set of requests, chats, events or
conversations is used up: the model then stops, as a service without clients does.

### Fairness

* `RagChat!FairRagSpec`: an awaited model call returns or raises, because the
  provider's client library times out by default. Nothing is assumed of *what* the
  model answers: the bound of the loop, not the model, ends the chat, and with replay
  protection off the same block can be verified for ever. `ChatEnds` goes as far as
  the decision. The response waits for the audit logger besides, and nothing is
  assumed or said of that.
* `AuditLog!FairSpec`: some emit of an event that can go on does. The Splunk
  client has a timeout of five seconds (`app/sinks/splunk.py:31`). For PostgreSQL
  it is an assumption about the server: `asyncpg` is given no timeout, so a
  database that neither answers nor closes holds up every response. For the same
  reason no property says that `/wrap` or `/verify` always answer.

### Assumptions about what surrounds the code

* `AuditLog!ServerWaits`: told to stop, the server lets requests it has begun finish
  before the lifespan goes on. The lifespan in `app/main.py` checks nothing of the
  kind; that no sink is closed under an event (the serving half of
  `SinkOpenForEvent`) rests on it.
* `ReplayGate!LedgerFails`: what a failing call of the SQLite ledger has committed is
  the library's affair, so the model has both: the nonce is spent, or it is not.
* `ReplayGate!WindowCoversBand` and, where the clock is abstracted to expiries,
  `ChatGate!WindowCovers`: the operator has set `REPLAY_WINDOW_SECONDS` to what a band
  lives at least. The properties about single use name it as an antecedent
  (`LedgerRemembers`), the theorems as an assumption.
* `audited` in `ReplayGate` means *told to the audit logger*. `AuditLogger.log`
  swallows the failure of a sink (`app/audit.py:35`), so nothing is said of a record
  that is kept.
* `KeyRotation`: a key id stands for one secret, unless it is stray, and the map is
  changed in the order of `docs/KEY_MANAGEMENT.md:30`.

## 4. Where documents and code differ

Each of the three violation runs checks one statement of the repository.

1. `chat_markers`: `docs/API_EXAMPLES.md:129` says incomplete markers fail closed.
   `app/llm.py:154` looks at leftover marker text only when there is no complete
   block; with one verified block the rest passes.
2. `dual_refund`: `scripts/redteam_control_plane.py:180` says an operator may refund
   only with a verified document. `documents` may be empty
   (`dual_channel/control_plane.py:81`, `:124`).
3. `tool_wrapped`: `guard_bands_defense.py:6` says every tool result is wrapped. A
   result with an opening marker in its own text is not (`:95`). Blank results are not
   wrapped either; they carry nothing and the property leaves them out.

Observations without a run of their own. The first four are properties that hold:

* `docs/PYTHON_SDK.md:39` and `:51` verify a band and then send it to `/chat`. With
  `REPLAY_PROTECTION_ENABLED` (`.env.production.example:38`) the first consumes what
  the second needs: `VerifiedFirstIsSpent`.
* A prompt the RAG integration builds from two or more documents is never answered by
  `/chat`, which verifies all of a message in one context: `SeveralDocumentsRefused`.
* The cost guard estimates one call of up to five. What passes it without approval can
  cost several times the threshold: `OverrunBounded` says how much.
* An exception after a billed call (`app/llm.py:225`) returns neither usage nor cost,
  while `docs/OWASP_LLM_COVERAGE.md:41` promises actual-cost logging;
  `CostIsReported` is about every other way out.
* A chat that ends because nothing was verified (`app/llm.py:163`) reaches the
  application as `GuardBandsAPIError`, not as `VerificationFailed`: the text the SDK
  looks for (`guardbands_sdk/client.py:301`) is not in it.
* A Vault secret without the expected field (`app/secrets_provider.py:135`) and an AWS
  secret stored as binary (`:85`) count as not found, so that the process falls back
  on `SECRET_KEY`, where `:15` wants misconfiguration to fail closed.
* A ticket signed with an empty user is open to every user of its tenant
  (`app/authorization.py:40`), and the support app has no ledger: a ticket serves for
  as long as it lives.
* `README.md:386` wants failures visible in audit logs; a 401 of the middleware and
  a `/verify` whose ledger raises leave no event (`Unauthenticated`, `LedgerFails`).
* `/wrap` signs with any configured key the body names, so a key that is not active
  is in use until it is removed, and the grace period of `docs/KEY_MANAGEMENT.md:30`
  does not cover such bands: `LiveBandVerifies` is about the others.
* `GUARD_BAND_TTL_SECONDS` and `REPLAY_WINDOW_SECONDS` are set apart
  (`app/config.py:60`, `:64`) and nothing compares them. With a shorter window a nonce
  is pruned while its band lives: `/verify` accepts the band again, and both attempts
  at one chat can be answered. Both default to 900, which leaves `WindowCoversBand` no
  margin for a stall. `docker-compose.yml` passes
  neither the first nor `KEY_ID` and `GUARD_BAND_KEYS`.
* `AuditLogger` is never emptied: a lifespan entered twice in one process writes
  every event twice.

## 5. Proofs

All theorems are checked by TLAPS down to the last step.

**ReplayGate_proofs.** `SingleUseInv` is inductive. `AtMostOneUse` alone is not:
that a second request is refused follows only because the ledger's entry, written
no earlier than the band was minted, outlives every later check (`CoverInv`,
`CheckInv`, `MintInv`, `EntryAgeInv`). The decisive lemma, `RememberedIsLive`, puts
the window against the expiry and the stall: a store that has an entry for a band
still knows it when a request with that band is checked. The assumptions are stated
in the theorems: `LedgerIsShared` (one SQLite file, or one worker that does not crash)
and `WindowCoversBand` (window at least life plus stall, strictly unless the library
is lenient at the boundary). `ReplayIsGenuine`, `NamedUserMinted`,
`AnswersAreLogged` and `LedgerFileIsDurable` need neither. `ReplayIsGenuine` does not
say that the band's first user was given an answer, since a crash or a failing ledger may
take that: it says that only a request which presented the band live and in its own
context can have spent it. `ImplementsTickets`
shows each step to be `Issue`, `Grant` or a stutter of `SingleUse`.

Where `LedgerIsShared` fails, as with the code's default backend behind several
workers, `UsesRemembered` says what is left. The uses of a band are counted against
the workers that remember it and the crashes (`MemoryInv`): by `RememberedIsLive` a
worker that remembers refuses, so a use makes one more worker remember
(`AcceptRemembers`), and a crash makes one forget (`CrashForgets`). It needs
`WindowCoversBand`. `UsesAreBounded` is what an operator can rely on: workers plus
crashes.

`HandlersWaitForOne` says whom a request in flight can wait for: the one request at
its worker that is between check and consume, and nobody else (`HandlerInv`).
`RequestsWindDown` has the measure that each step of a handler lowers.

**ChatGate_proofs.** `ChatInv` is inductive for any chats, blocks, contexts and
`MaxCalls`. `AnswerFitsInLoop` needs cardinalities in it: each verified block took a call,
and the final text one more (`CountInv`, `AnsweredInv`). `OneHolder` needs
`HolderInv`: a block with a holder is in the ledger, which a crash does not clear, or
has expired, since `Prune` takes nothing else out when the window covers a band's life.
From it `ChatsUseTickets` shows that with replay protection on, a durable ledger and
such a window (`LedgerRemembers`, an assumption of the theorem) a chat's verification and one by `/verify` are each a `Grant` of `SingleUse`, and
everything else a stutter, a chat that fails afterwards included. `ChatsWindDown` has
a measure (`Rank`) that each step of a chat lowers and nobody's step raises, whatever
the model answers.

**Clients_proofs.** `RagIsChat` and `ClientIsChat` show that whatever applications
send is a behaviour of `ChatGate`, so that its theorems carry over, the refinement too
(`ClientsUseTickets`). `SeveralDocumentsRefused` then follows from `AnswerIsVerified`:
two documents of one prompt would have to be signed in the same context.
`OverrunBounded` puts `RoundedNear` (a rounded total is off by half a unit at most,
whichever way a half goes) against the loop's bound. `GuardIsMonotone` needs more:
rounding keeps order (`RoundedMonotone`), so that who asks for more does not get under
the guard. `ClientInv` ties what an application was told to where its request ended;
`SafeToResend` and `AnsweredOnce` combine it with `ChatInv`; the latter and
`VerifiedFirstIsSpent` have `LedgerRemembers` as their antecedent.

**DualChannel_proofs.** `AdmissionInv` is inductive. In it `OriginInv` says that what
went through `/ingest` is under a data-plane key, issuer and channel, and that every
other block is one of `Elsewhere`; `ChannelAssumption`, which is about keys the data
plane alone has held, keeps the two apart. Then a document's success pins key, issuer,
channel and tenant. `PlanesImplementAdmission` maps an `/ingest` that signs to
`HandIn` and an `/execute` that answers 200 to one `Admit` of its whole batch;
restarts, expiries, refusals and blocks signed elsewhere are stutters.

**KeyRotation_proofs.** A key in use is in the map and loaded everywhere
(`ActiveInv`); the key of a live band is in use or was taken out of use too
recently to have been retired (`LiveInv`), which is where `TTL <= Grace` of
`RotationAssumption` enters. Bands whose key a caller chose are excepted one by one,
not assumed away, and so are stray keys: `StrayGrows` says that such a key only takes
its own bands and processes out of what is promised, and `ActiveStep` that the others
keep what they have. The lemma `StartupRotates`, which holds by the way `Startup` is
put together, carries this over to processes that start in steps (`LiveBandsVerify`).

**AuditLog_proofs.** `AuditInv` is inductive for any list of sinks. Both loops
go over the sinks of all lifespans from the first one on, so what startup has passed
is not shut and what shutdown has passed is not open; `NoStaleLink` and `CleanStop` are
what these say at the end of a loop. A failed startup leaves a sink off, which both
allow. `SinkOpenForEvent` adds the events: one begins at open sinks only, and by
`ServerWaits` the lifespan goes on only when none is under way. `PoolNeverSticks` follows with `PoolInv`: a
pool that is full is full of events that give back, and one that is not has a
connection to take.

**ToolLoop_proofs.** The gate compares `MinLen` characters at multiples of `MinLen`
only, so a quotation is caught at length `2 * MinLen - 1` (47 characters with the
default of 24). `QuoteIsGuarded` proves this from `NextMultiple` and `PartOccurs`;
`QuoteBoundIsSharp` that one character less is not enough, with a text and a
quotation for every `MinLen` above 1. `LoopInv` then says that what was shown is
recorded before the model is asked again, and that what runs has passed the gate.
The ungated first call is harmless because nothing has been shown by then
(`ShownInv`).

**SupportApp_proofs.** `ActionMatchesTicket` is inductive together with "the last
action rests on a band": a ticket is signed once, so what was compared with it stays.
`WrappedTicketsAreReadOnly` needs in addition that the app wraps for one path only.

**Only model-checked:** the liveness properties (`ChatEnds`, `EventSettles`), since
the prover does not reach liveness under fairness or `ENABLED`. The part of the argument
that is about states and steps is proved for all constants: `ChatsWindDown` for
`ChatEnds`, `PoolNeverSticks` for `EventSettles`; that a step which can be taken is
taken is left to the runs. For the requests of `ReplayGate` there is only that part,
`HandlersWaitForOne` and `RequestsWindDown`: whether they are answered is up to the
sinks.
The three violations are TLC's alone. No module has RECURSIVE operators, and no proof
does induction over data.

## 6. Not modelled

* **Core library and other libraries.** `guardbands` is not part of the repository; the
  models state what its callers rely on. Rate limiting and CORS are a library's
  middleware: a 429 is an answer in `SdkClient`, the counters behind it are left out.
* **MCP integration.** One guarded call of one tool through extensions of the core
  library; the enforcement is in that library.
* **The SDK's clients of the two planes** map the same errors over requests that
  `DualChannel` already takes in any order; they add no state.
* **Secrets stored otherwise than `docs/SECRETS.md` says** (see section 4).
* **Wording**: prompts, response bodies, log and audit record formats, `/health`, `/`.
* **Scripts, examples, benchmark drivers and deployment files**: drivers without state
  of the running system. What they set or claim is quoted where it matters.

## 7. Running

    tlc -workers 2 -config MCReplayGate_shared.cfg MCReplayGate.tla
    tlapm ReplayGate_proofs.tla

Each run is listed in `PROJECT.json` with its module, configuration, properties
and expected outcome.
