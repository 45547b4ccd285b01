----------------------------- MODULE AuditLog -----------------------------
(***************************************************************************)
(* AuditLogger of app/audit.py with the sinks of app/sinks/, driven by the *)
(* lifespan of app/main.py: sinks are added and started one after another, *)
(* then every request awaits its event at all of them at once, then they   *)
(* are shut down one after another.                                        *)
(*                                                                         *)
(* The logger is a module global, so a second lifespan in one process (the *)
(* test suite starts the application many times) adds its sinks to those   *)
(* of the first and starts all of them again.                              *)
(***************************************************************************)
EXTENDS Naturals, Sequences, FiniteSets

CONSTANTS
  Requests,     \* the requests, each with one event to log
  Configured,   \* the sinks a lifespan adds, in order: kinds
  PoolSize,     \* connections in a PostgreSQL pool (5 in the code)
  MaxStarts     \* bound: lifespans of one process

Kinds == {"console", "postgres", "splunk"}
Places == 1..(MaxStarts * Len(Configured))

ASSUME SinkAssumption ==
  /\ Configured \in Seq(Kinds)
  /\ PoolSize \in Nat \ {0}
  /\ MaxStarts \in Nat

VARIABLES
  life,      \* "off", "starting", "serving", "stopping"
  starts,    \* lifespans begun
  sinks,     \* AuditLogger._sinks, by kind
  cursor,    \* the sink whose startup or shutdown is awaited
  link,      \* _pool or _client of each sink: "none", "open", or "shut"
  dropped,   \* sinks that left a pool behind open, referred to by nobody
  broken,    \* did a shutdown of the last lifespan raise
  emit       \* how far each request's event has come at each sink: "done" is
             \* stored or failed, since AuditLogger.log treats both alike

vars == <<life, starts, sinks, cursor, link, dropped, broken, emit>>

TypeOK ==
  /\ life \in {"off", "starting", "serving", "stopping"}
  /\ starts \in 0..MaxStarts
  /\ sinks \in Seq(Kinds) /\ Len(sinks) = starts * Len(Configured)
  /\ cursor \in 1..(Len(sinks) + 1)
  /\ link \in [Places -> {"none", "open", "shut"}]
  /\ dropped \subseteq DOMAIN sinks
  /\ broken \in BOOLEAN
  /\ emit \in [Requests -> [Places -> {"idle", "waiting", "busy", "done"}]]

Init ==
  /\ life = "off"
  /\ starts = 0
  /\ sinks = <<>>
  /\ cursor = 1
  /\ link = [i \in Places |-> "none"]
  /\ dropped = {}
  /\ broken = FALSE
  /\ emit = [r \in Requests |-> [i \in Places |-> "idle"]]

-----------------------------------------------------------------------------
Begun(r) == \E i \in Places : emit[r][i] # "idle"
Done(r) == \A i \in DOMAIN sinks : emit[r][i] \in {"idle", "done"}
(* Who has a connection of a pool; in the seeded fault none is given back. *)
BusyForEver(i) == {r \in Requests : emit[r][i] \in {"busy", "done"}}
Busy(i) == {r \in Requests : emit[r][i] = "busy"}

(* lifespan up to audit.startup: the sinks of this lifespan are added to   *)
(* those that are there.                                                   *)
AddSinks ==
  /\ life = "off" /\ starts < MaxStarts
  /\ life' = "starting"
  /\ starts' = starts + 1
  /\ sinks' = sinks \o Configured
  /\ cursor' = 1
  /\ broken' = FALSE
  /\ UNCHANGED <<link, dropped, emit>>

(* A sink that is started again lets go of what it still refers to.        *)
LetGo(i) == IF link[i] = "open" THEN dropped \cup {i} ELSE dropped

(* What PostgresSink.startup can end with: a pool; no pool, since the      *)
(* server cannot be reached; or a pool whose schema statement failed, and  *)
(* which is dropped without being closed.                                  *)
PostgresKeepsOld(i) ==                                      \* seeded fault
  \/ link' = [link EXCEPT ![i] = "open"] /\ dropped' = LetGo(i)
  \/ UNCHANGED <<link, dropped>>
PostgresStartup(i) ==
  \/ link' = [link EXCEPT ![i] = "open"] /\ dropped' = LetGo(i)
  \/ link' = [link EXCEPT ![i] = "none"] /\ dropped' \in {LetGo(i), dropped \cup {i}}

SplunkStartup(i) ==
  link' = [link EXCEPT ![i] = "open"] /\ dropped' = LetGo(i)

(* One turn of the loop in AuditLogger.startup.                            *)
StartSink ==
  /\ life = "starting"
  /\ cursor \in DOMAIN sinks
  /\ \/ sinks[cursor] = "console" /\ UNCHANGED <<link, dropped>>
     \/ sinks[cursor] = "postgres" /\ PostgresStartup(cursor)
     \/ sinks[cursor] = "splunk" /\ SplunkStartup(cursor)
  /\ cursor' = cursor + 1
  /\ UNCHANGED <<life, starts, sinks, broken, emit>>

Serve ==
  /\ life = "starting"
  /\ cursor = Len(sinks) + 1
  /\ life' = "serving"
  /\ UNCHANGED <<starts, sinks, cursor, link, dropped, broken, emit>>

(* AuditLogger.log is called: an emit for every sink is under way at once; *)
(* it is done immediately at the console, which awaits nothing, and where  *)
(* there is no pool or client.                                             *)
LogEvent(r) ==
  /\ life = "serving"
  /\ ~Begun(r)
  /\ emit' = [emit EXCEPT ![r] =
       [i \in Places |-> IF i \notin DOMAIN sinks THEN "idle"
                         ELSE IF sinks[i] = "console" \/ link[i] = "none" THEN "done"
                         ELSE "waiting"]]
  /\ UNCHANGED <<life, starts, sinks, cursor, link, dropped, broken>>

(* The POST to Splunk is answered, refused, or times out.                  *)
Post(r, i) ==
  /\ emit[r][i] = "waiting"
  /\ sinks[i] = "splunk"
  /\ emit' = [emit EXCEPT ![r][i] = "done"]
  /\ UNCHANGED <<life, starts, sinks, cursor, link, dropped, broken>>

(* pool.acquire waits, without a timeout, for a connection to be free.     *)
Acquire(r, i) ==
  /\ emit[r][i] = "waiting"
  /\ sinks[i] = "postgres"
  /\ Cardinality(Busy(i)) < PoolSize
  /\ emit' = [emit EXCEPT ![r][i] = "busy"]
  /\ UNCHANGED <<life, starts, sinks, cursor, link, dropped, broken>>

(* The statement ends, in whichever way, and the connection is given back. *)
Insert(r, i) ==
  /\ emit[r][i] = "busy"
  /\ emit' = [emit EXCEPT ![r][i] = "done"]
  /\ UNCHANGED <<life, starts, sinks, cursor, link, dropped, broken>>

(* An assumption about the server that runs the application, which nothing *)
(* in the lifespan checks: told to stop, it lets the requests it has begun *)
(* finish before the lifespan goes on.                                     *)
ServerWaits == \A r \in Requests : Done(r)

Stop ==
  /\ life = "serving"
  /\ ServerWaits
  /\ life' = "stopping"
  /\ cursor' = 1
  /\ UNCHANGED <<starts, sinks, link, dropped, broken, emit>>

(* One turn of the loop in AuditLogger.shutdown.                           *)
StopSinkButPostgres ==                                      \* seeded fault
  /\ life = "stopping"
  /\ cursor \in DOMAIN sinks
  /\ link' = [link EXCEPT ![cursor] =
       IF sinks[cursor] = "splunk" /\ @ = "open" THEN "shut" ELSE @]
  /\ cursor' = cursor + 1
  /\ UNCHANGED <<life, starts, sinks, dropped, broken, emit>>
StopSink ==
  /\ life = "stopping"
  /\ cursor \in DOMAIN sinks
  /\ link' = [link EXCEPT ![cursor] = IF @ = "open" THEN "shut" ELSE @]
  /\ cursor' = cursor + 1
  /\ UNCHANGED <<life, starts, sinks, dropped, broken, emit>>

(* Closing a pool or a client raises: the loop ends here.                  *)
StopRaises ==
  /\ life = "stopping"
  /\ cursor \in DOMAIN sinks
  /\ link[cursor] = "open"
  /\ life' = "off"
  /\ broken' = TRUE
  /\ UNCHANGED <<starts, sinks, cursor, link, dropped, emit>>

Stopped ==
  /\ life = "stopping"
  /\ cursor = Len(sinks) + 1
  /\ life' = "off"
  /\ UNCHANGED <<starts, sinks, cursor, link, dropped, broken, emit>>

Emit(r, i) == Post(r, i) \/ Acquire(r, i) \/ Insert(r, i)

Next ==
  \/ AddSinks \/ StartSink \/ Serve
  \/ Stop \/ StopSink \/ StopRaises \/ Stopped
  \/ \E r \in Requests : LogEvent(r) \/ \E i \in DOMAIN sinks : Emit(r, i)

Spec == Init /\ [][Next]_vars

(* The event loop runs what can run, Splunk's client times out, and the    *)
(* database ends each statement: asyncpg is given no timeout to force it.  *)
FairSpec ==
  Spec /\ \A r \in Requests : WF_vars(\E i \in DOMAIN sinks : Emit(r, i))

-----------------------------------------------------------------------------
(* An event that is under way at a sink has its pool or client open all the*)
(* while.  It never meets one that a former lifespan has closed, because a *)
(* sink that cannot be started again is off, not half there (the except of *)
(* PostgresSink.startup).  That none is closed under it, which is the part *)
(* about serving, rests on ServerWaits.                                    *)
SinkOpenForEvent ==
  \A r \in Requests, i \in Places :
    emit[r][i] \in {"waiting", "busy"} => life = "serving" /\ link[i] = "open"

(* After a lifespan that ended without an exception no pool or client is   *)
(* left open, the sinks of former lifespans included; only what a failed   *)
(* startup dropped, which no shutdown can reach.                           *)
CleanStop ==
  life = "off" /\ ~broken => \A i \in DOMAIN sinks : link[i] # "open"

(* While requests are served no sink refers to what is closed.             *)
NoStaleLink ==
  life = "serving" => \A i \in DOMAIN sinks : link[i] # "shut"

(* A pool never has more connections in use than it was made with.         *)
PoolInv ==
  \A i \in Places :
    IsFiniteSet(Busy(i)) /\ Cardinality(Busy(i)) <= PoolSize

(* The inductive invariant behind these: a console sink and a place without*)
(* a sink have nothing to close; what startup has passed is not shut, what *)
(* shutdown has passed is not open.                                        *)
AuditInv ==
  /\ TypeOK
  /\ \A i \in Places :
       i \notin DOMAIN sinks \/ sinks[i] = "console" => link[i] = "none"
  /\ life = "starting" => \A i \in 1..cursor - 1 : link[i] # "shut"
  /\ life = "stopping" => \A i \in 1..cursor - 1 : link[i] # "open"
  /\ NoStaleLink
  /\ CleanStop
  /\ SinkOpenForEvent
  /\ PoolInv

(* Every event is done with at every sink, and its request can be          *)
(* answered, although sinks fail and more requests than the pool has       *)
(* connections want one.                                                   *)
EventSettles == \A r \in Requests : Begun(r) ~> Begun(r) /\ Done(r)
=============================================================================
