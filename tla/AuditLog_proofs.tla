--------------------------- MODULE AuditLog_proofs ---------------------------
(***************************************************************************)
(* For any sinks, events, pools and lifespans, whatever startup or shutdown*)
(* fails: an event's sink stays open under it, however many wait for the   *)
(* pool somebody can go on, and a clean stop leaves nothing open that it   *)
(* can reach.                                                              *)
(***************************************************************************)
EXTENDS AuditLog, SequenceTheorems, FiniteSetTheorems, TLAPS

(* Each lifespan's sinks have their places.                                *)
LEMMA SinksHavePlaces ==
  ASSUME NEW n \in Nat, NEW m \in Nat, NEW L \in Nat, n <= m
  PROVE  n * L \in Nat /\ n * L <= m * L /\ (n + 1) * L = n * L + L
<1>1. m * L = n * L + (m - n) * L
  OBVIOUS
<1>2. (m - n) * L >= 0
  OBVIOUS
<1> QED
  BY <1>1, <1>2

LEMMA PlacesOfSinks ==
  ASSUME TypeOK
  PROVE  /\ Len(Configured) \in Nat /\ Len(sinks) \in Nat
         /\ DOMAIN sinks = 1..Len(sinks)
         /\ DOMAIN sinks \subseteq Places
         /\ cursor \in Nat
<1>1. Len(Configured) \in Nat
  BY SinkAssumption
<1>2. Len(sinks) \in Nat /\ DOMAIN sinks = 1..Len(sinks)
  BY DEF TypeOK
<1>3. starts \in Nat /\ MaxStarts \in Nat /\ starts <= MaxStarts
  BY SinkAssumption DEF TypeOK
<1>4. Len(sinks) <= MaxStarts * Len(Configured)
  <2>1. Len(sinks) = starts * Len(Configured)
    BY DEF TypeOK
  <2> QED
    BY <1>1, <1>3, <2>1, SinksHavePlaces
<1>5. MaxStarts * Len(Configured) \in Nat
  BY <1>1, <1>3
<1>6. DOMAIN sinks \subseteq Places
  BY <1>2, <1>4, <1>5 DEF Places
<1>7. cursor \in Nat
  BY <1>2 DEF TypeOK
<1> QED
  BY <1>1, <1>2, <1>6, <1>7

(* What an event may do at one place keeps the pool within its size: it    *)
(* takes a connection only when one is free.                               *)
LEMMA PoolStep ==
  ASSUME TypeOK, PoolInv, NEW r \in Requests,
         LogEvent(r) \/ \E i \in DOMAIN sinks : Emit(r, i)
  PROVE  PoolInv'
<1> USE SinkAssumption DEF TypeOK
<1>1. CASE LogEvent(r)
  <2>1. \A i \in Places : Busy(i)' = Busy(i)
    BY <1>1 DEF LogEvent, Busy, Begun
  <2> QED
    BY <2>1 DEF PoolInv
<1>2. ASSUME NEW i \in DOMAIN sinks, Emit(r, i)
      PROVE  PoolInv'
  <2>0. i \in Places
    BY PlacesOfSinks
  <2>1. \A j \in Places \ {i} : Busy(j)' = Busy(j)
    <3> SUFFICES ASSUME NEW j \in Places, j # i
                 PROVE  \A q \in Requests : emit'[q][j] = emit[q][j]
      BY DEF Busy
    <3>1. PICK e \in {"busy", "done"} : emit' = [emit EXCEPT ![r][i] = e]
      BY <1>2 DEF Emit, Post, Acquire, Insert
    <3>2. emit' = [emit EXCEPT ![r] = [emit[r] EXCEPT ![i] = e]]
      BY <3>1
    <3>3. emit[r] \in [Places -> {"idle", "waiting", "busy", "done"}]
      OBVIOUS
    <3> QED
      BY <3>2, <3>3
  <2>2. IsFiniteSet(Busy(i)) /\ Cardinality(Busy(i)) <= PoolSize
    BY <2>0 DEF PoolInv
  <2>3. Cardinality(Busy(i)) \in Nat
    BY <2>2, FS_CardinalityType
  <2>4. CASE Post(r, i)
    <3>1. Busy(i)' = Busy(i)
      BY <2>0, <2>4 DEF Post, Busy
    <3> QED
      BY <2>1, <3>1 DEF PoolInv
  <2>5. CASE Acquire(r, i)
    <3>1. Busy(i)' = Busy(i) \cup {r} /\ Cardinality(Busy(i)) < PoolSize
      BY <2>0, <2>5 DEF Acquire, Busy
    <3>2. /\ IsFiniteSet(Busy(i) \cup {r})
          /\ Cardinality(Busy(i) \cup {r}) \in {Cardinality(Busy(i)), Cardinality(Busy(i)) + 1}
      BY <2>2, FS_AddElement
    <3>3. IsFiniteSet(Busy(i)') /\ Cardinality(Busy(i)') <= PoolSize
      BY <2>3, <3>1, <3>2
    <3> QED
      BY <2>1, <3>3 DEF PoolInv
  <2>6. CASE Insert(r, i)
    <3>1. Busy(i)' \subseteq Busy(i)
      BY <2>0, <2>6 DEF Insert, Busy
    <3>2. /\ IsFiniteSet(Busy(i)')
          /\ Cardinality(Busy(i)') <= Cardinality(Busy(i))
      BY <2>2, <3>1, FS_Subset
    <3>3. Cardinality(Busy(i)') \in Nat
      BY <3>2, FS_CardinalityType
    <3>4. Cardinality(Busy(i)') <= PoolSize
      BY <2>2, <2>3, <3>2, <3>3
    <3> QED
      BY <2>1, <3>2, <3>4 DEF PoolInv
  <2> QED
    BY <1>2, <2>4, <2>5, <2>6 DEF Emit
<1> QED
  BY <1>1, <1>2

(* Between lifespans, and while sinks start or stop, no event is under way;*)
(* so a step that leaves the events alone leaves the pools as they are.    *)
LEMMA NothingUnderWay ==
  ASSUME AuditInv, UNCHANGED emit, life # "serving"
  PROVE  SinkOpenForEvent' /\ PoolInv'
BY DEF AuditInv, SinkOpenForEvent, PoolInv, Busy

(* The steps that only move events along.                                  *)
LEMMA EventStep ==
  ASSUME AuditInv,
         NEW r \in Requests,
         LogEvent(r) \/ \E i \in DOMAIN sinks : Emit(r, i)
  PROVE  AuditInv'
<1>1. UNCHANGED <<life, starts, sinks, cursor, link, dropped, broken>>
  BY DEF LogEvent, Emit, Post, Acquire, Insert
<1>2. DOMAIN sinks \subseteq Places
  BY PlacesOfSinks DEF AuditInv
<1>3. emit' \in [Requests -> [Places -> {"idle", "waiting", "busy", "done"}]]
  <2>1. emit \in [Requests -> [Places -> {"idle", "waiting", "busy", "done"}]]
    BY DEF AuditInv, TypeOK
  <2>2. CASE LogEvent(r)
    BY <2>1, <2>2 DEF LogEvent
  <2>3. ASSUME NEW i \in DOMAIN sinks, Emit(r, i)
        PROVE  emit' \in [Requests -> [Places -> {"idle", "waiting", "busy", "done"}]]
    BY <1>2, <2>1, <2>3 DEF Emit, Post, Acquire, Insert
  <2> QED
    BY <2>2, <2>3
<1>4. TypeOK'
  BY <1>1, <1>3 DEF AuditInv, TypeOK
<1>5. PoolInv'
  BY PoolStep DEF AuditInv
<1>6. SinkOpenForEvent'
  <2>1. emit \in [Requests -> [Places -> {"idle", "waiting", "busy", "done"}]]
    BY DEF AuditInv, TypeOK
  <2>2. CASE LogEvent(r)
    <3>1. /\ life = "serving"
          /\ \A i \in Places : emit'[r][i] \in {"waiting", "busy"} =>
               i \in DOMAIN sinks /\ link[i] # "none"
      BY <2>1, <2>2 DEF LogEvent
    <3>2. \A q \in Requests \ {r} : emit'[q] = emit[q]
      BY <2>1, <2>2 DEF LogEvent
    <3>3. \A i \in DOMAIN sinks : link[i] # "none" => link[i] = "open"
      BY <1>2, <3>1 DEF AuditInv, TypeOK, NoStaleLink
    <3> QED
      BY <1>1, <3>1, <3>2, <3>3 DEF AuditInv, SinkOpenForEvent
  <2>3. ASSUME NEW i \in DOMAIN sinks, Emit(r, i)
        PROVE  SinkOpenForEvent'
    <3>1. \A q \in Requests, j \in Places :
            emit'[q][j] \in {"waiting", "busy"} => emit[q][j] \in {"waiting", "busy"}
      BY <1>2, <2>1, <2>3 DEF Emit, Post, Acquire, Insert
    <3> QED
      BY <1>1, <3>1 DEF AuditInv, SinkOpenForEvent
  <2> QED
    BY <2>2, <2>3
<1> QED
  BY <1>1, <1>4, <1>5, <1>6 DEF AuditInv, NoStaleLink, CleanStop

(* The sinks of another lifespan are added behind those that are there.    *)
LEMMA AddStep ==
  ASSUME AuditInv, AddSinks
  PROVE  AuditInv'
<1>1. /\ TypeOK
      /\ sinks \in Seq(Kinds) /\ Configured \in Seq(Kinds)
      /\ starts \in Nat /\ starts < MaxStarts /\ MaxStarts \in Nat
      /\ Len(sinks) = starts * Len(Configured)
  BY SinkAssumption DEF AuditInv, TypeOK, AddSinks
<1>2. /\ sinks' \in Seq(Kinds)
      /\ Len(sinks') = Len(sinks) + Len(Configured)
      /\ \A i \in 1..Len(sinks) : sinks'[i] = sinks[i]
  <2> DEFINE all == sinks \o Configured
  <2>1. sinks' = all
    BY DEF AddSinks
  <2>2. /\ all \in Seq(Kinds)
        /\ Len(all) = Len(sinks) + Len(Configured)
        /\ \A i \in 1..Len(sinks) + Len(Configured) :
             all[i] = IF i <= Len(sinks) THEN sinks[i] ELSE Configured[i - Len(sinks)]
    BY <1>1, ConcatProperties, Zenon
  <2>3. Len(sinks) \in Nat /\ Len(Configured) \in Nat
    BY <1>1
  <2> HIDE DEF all
  <2>4. \A i \in 1..Len(sinks) : all[i] = sinks[i]
    BY <2>2, <2>3
  <2> QED
    BY <2>1, <2>2, <2>4
<1>3. Len(sinks') = starts' * Len(Configured)
  <2>1. starts' = starts + 1 /\ starts + 1 \in Nat
    BY <1>1 DEF AddSinks
  <2>2. Len(Configured) \in Nat
    BY <1>1
  <2>3. (starts + 1) * Len(Configured) = starts * Len(Configured) + Len(Configured)
    BY <1>1, <2>2, SinksHavePlaces
  <2> QED
    BY <1>1, <1>2, <2>1, <2>3
<1>4. DOMAIN sinks = 1..Len(sinks) /\ DOMAIN sinks' = 1..Len(sinks')
      /\ Len(sinks) \in Nat /\ Len(sinks') \in Nat /\ Len(sinks) <= Len(sinks')
  BY <1>1, <1>2
<1>5. DOMAIN sinks \subseteq DOMAIN sinks'
  BY <1>4
<1>6. TypeOK'
  <2>1. starts' \in 0..MaxStarts /\ cursor' \in 1..Len(sinks') + 1
    BY <1>1, <1>4 DEF AddSinks
  <2>2. dropped' \subseteq DOMAIN sinks'
    BY <1>1, <1>5 DEF AddSinks, TypeOK
  <2> QED
    BY <1>1, <1>2, <1>3, <2>1, <2>2 DEF AddSinks, TypeOK
<1>7. ASSUME NEW i \in Places, i \notin DOMAIN sinks' \/ sinks'[i] = "console"
      PROVE  link'[i] = "none"
  <2>1. i \notin DOMAIN sinks \/ sinks[i] = "console"
    BY <1>2, <1>4, <1>5, <1>7
  <2> QED
    BY <2>1 DEF AddSinks, AuditInv
<1>8. life' = "starting" /\ cursor' = 1
  BY DEF AddSinks
<1>9. SinkOpenForEvent' /\ PoolInv'
  BY NothingUnderWay DEF AddSinks
<1> QED
  BY <1>6, <1>7, <1>8, <1>9 DEF AuditInv, NoStaleLink, CleanStop

(* One turn of the loop in startup: a sink ends up open, or off, never shut.*)
LEMMA StartStep ==
  ASSUME AuditInv, StartSink
  PROVE  AuditInv'
<1>1. /\ TypeOK /\ DOMAIN sinks = 1..Len(sinks) /\ Len(sinks) \in Nat
      /\ DOMAIN sinks \subseteq Places
      /\ cursor \in DOMAIN sinks /\ cursor' = cursor + 1
      /\ life = "starting"
      /\ UNCHANGED <<life, starts, sinks, broken, emit>>
  BY PlacesOfSinks DEF AuditInv, StartSink
<1>2. /\ link \in [Places -> {"none", "open", "shut"}]
      /\ dropped \subseteq DOMAIN sinks
      /\ \A i \in Places :
           i \notin DOMAIN sinks \/ sinks[i] = "console" => link[i] = "none"
      /\ \A i \in 1..cursor - 1 : link[i] # "shut"
  BY <1>1 DEF AuditInv, TypeOK
<1>3. /\ link' \in [Places -> {"none", "open", "shut"}]
      /\ dropped' \subseteq DOMAIN sinks
      /\ link'[cursor] # "shut"
      /\ \A i \in Places : i # cursor \/ sinks[i] = "console" => link'[i] = link[i]
  <2>1. CASE sinks[cursor] = "console" /\ UNCHANGED <<link, dropped>>
    BY <1>1, <1>2, <2>1
  <2>2. CASE sinks[cursor] = "postgres" /\ PostgresStartup(cursor)
    BY <1>1, <1>2, <2>2 DEF PostgresStartup, LetGo
  <2>3. CASE sinks[cursor] = "splunk" /\ SplunkStartup(cursor)
    BY <1>1, <1>2, <2>3 DEF SplunkStartup, LetGo
  <2> QED
    BY <2>1, <2>2, <2>3 DEF StartSink
<1>4. ASSUME NEW i \in 1..cursor' - 1
      PROVE  link'[i] # "shut"
  <2>1. i \in Places /\ (i = cursor \/ i \in 1..cursor - 1)
    BY <1>1
  <2> QED
    BY <1>2, <1>3, <2>1
<1>5. TypeOK'
  BY <1>1, <1>3 DEF TypeOK
<1>6. ASSUME NEW i \in Places, i \notin DOMAIN sinks \/ sinks[i] = "console"
      PROVE  link'[i] = "none"
  BY <1>1, <1>2, <1>3, <1>6
<1>7. SinkOpenForEvent' /\ PoolInv'
  BY <1>1, NothingUnderWay
<1> QED
  BY <1>1, <1>4, <1>5, <1>6, <1>7 DEF AuditInv, NoStaleLink, CleanStop

(* Shutdown, sink after sink, to its end or to the first that raises.      *)
LEMMA StopStep ==
  ASSUME AuditInv, StopSink \/ StopRaises \/ Stopped
  PROVE  AuditInv'
<1>1. /\ TypeOK /\ DOMAIN sinks = 1..Len(sinks) /\ Len(sinks) \in Nat
      /\ DOMAIN sinks \subseteq Places
      /\ cursor \in Nat /\ life = "stopping"
      /\ UNCHANGED <<starts, sinks, dropped, emit>>
  BY PlacesOfSinks DEF AuditInv, StopSink, StopRaises, Stopped
<1>2. /\ link \in [Places -> {"none", "open", "shut"}]
      /\ \A i \in Places :
           i \notin DOMAIN sinks \/ sinks[i] = "console" => link[i] = "none"
      /\ \A i \in 1..cursor - 1 : link[i] # "open"
  BY <1>1 DEF AuditInv, TypeOK
<1>6. SinkOpenForEvent' /\ PoolInv'
  BY <1>1, NothingUnderWay
<1>3. CASE StopSink
  <2>1. /\ cursor \in DOMAIN sinks /\ cursor' = cursor + 1
        /\ life' = life /\ broken' = broken
        /\ link' \in [Places -> {"none", "open", "shut"}]
        /\ link'[cursor] # "open"
        /\ \A i \in Places : i # cursor \/ link[i] = "none" => link'[i] = link[i]
    BY <1>1, <1>2, <1>3 DEF StopSink
  <2>2. ASSUME NEW i \in 1..cursor' - 1
        PROVE  link'[i] # "open"
    <3>1. i \in Places /\ (i = cursor \/ i \in 1..cursor - 1)
      BY <1>1, <2>1
    <3> QED
      BY <1>2, <2>1, <3>1
  <2>3. TypeOK'
    BY <1>1, <2>1 DEF TypeOK
  <2> QED
    BY <1>1, <1>2, <1>6, <2>1, <2>2, <2>3 DEF AuditInv, NoStaleLink, CleanStop
<1>4. CASE StopRaises
  BY <1>1, <1>2, <1>4, <1>6 DEF StopRaises, AuditInv, TypeOK, NoStaleLink, CleanStop
<1>5. CASE Stopped
  <2>1. \A i \in DOMAIN sinks : link[i] # "open"
    BY <1>1, <1>2, <1>5 DEF Stopped
  <2> QED
    BY <1>1, <1>2, <1>5, <1>6, <2>1 DEF Stopped, AuditInv, TypeOK, NoStaleLink, CleanStop
<1> QED
  BY <1>3, <1>4, <1>5

(* The invariant of the sinks' life cycle holds throughout.                *)
THEOREM AuditInvariant == Spec => []AuditInv
<1>1. Init => AuditInv
  <2> SUFFICES ASSUME Init PROVE AuditInv
    OBVIOUS
  <2>1. Len(sinks) = 0 /\ DOMAIN sinks = {} /\ sinks \in Seq(Kinds)
    BY DEF Init
  <2>2. Len(sinks) = starts * Len(Configured)
    BY <2>1, SinkAssumption DEF Init
  <2>3. starts \in 0..MaxStarts /\ cursor \in 1..Len(sinks) + 1
    BY <2>1, SinkAssumption DEF Init
  <2>4. emit \in [Requests -> [Places -> {"idle", "waiting", "busy", "done"}]]
    BY DEF Init
  <2>5. TypeOK
    BY <2>1, <2>2, <2>3, <2>4 DEF Init, TypeOK
  <2> QED
    <3>1. \A i \in Places : Busy(i) = {}
      BY DEF Init, Busy
    <3>2. PoolInv
      <4>1. IsFiniteSet({}) /\ Cardinality({}) = 0 /\ 0 <= PoolSize
        BY SinkAssumption, FS_EmptySet
      <4> QED
        BY <3>1, <4>1 DEF PoolInv
    <3>3. SinkOpenForEvent
      BY DEF Init, SinkOpenForEvent
    <3> QED
      BY <2>1, <2>5, <3>2, <3>3 DEF Init, AuditInv, NoStaleLink, CleanStop
<1>2. AuditInv /\ [Next]_vars => AuditInv'
  <2> SUFFICES ASSUME AuditInv, [Next]_vars PROVE AuditInv'
    OBVIOUS
  <2>1. CASE UNCHANGED vars
    <3>1. SinkOpenForEvent' /\ PoolInv'
      BY <2>1 DEF vars, AuditInv, SinkOpenForEvent, PoolInv, Busy
    <3> QED
      BY <2>1, <3>1 DEF vars, AuditInv, TypeOK, NoStaleLink, CleanStop
  <2>2. CASE Serve
    <3>1. /\ DOMAIN sinks = 1..Len(sinks) /\ Len(sinks) \in Nat
          /\ \A i \in 1..cursor - 1 : link[i] # "shut"
          /\ TypeOK'
      BY <2>2, PlacesOfSinks DEF Serve, AuditInv, TypeOK
    <3>2. \A i \in DOMAIN sinks : link[i] # "shut"
      BY <2>2, <3>1 DEF Serve
    <3>3. SinkOpenForEvent' /\ PoolInv'
      BY <2>2, NothingUnderWay DEF Serve
    <3> QED
      BY <2>2, <3>1, <3>2, <3>3 DEF Serve, AuditInv, NoStaleLink, CleanStop
  <2>3. CASE Stop
    <3>1. TypeOK'
      BY <2>3, PlacesOfSinks DEF Stop, AuditInv, TypeOK
    <3>2. \A r \in Requests, i \in Places : emit[r][i] \notin {"waiting", "busy"}
      BY <2>3 DEF Stop, ServerWaits, Done, AuditInv, SinkOpenForEvent
    <3>3. SinkOpenForEvent' /\ PoolInv'
      BY <2>3, <3>2 DEF Stop, AuditInv, SinkOpenForEvent, PoolInv, Busy
    <3> QED
      BY <2>3, <3>1, <3>3 DEF Stop, AuditInv, NoStaleLink, CleanStop
  <2> QED
    BY <2>1, <2>2, <2>3, AddStep, StartStep, StopStep, EventStep DEF Next
<1> QED
  BY <1>1, <1>2, PTL DEF Spec

(* An event under way has its sink open, through any number of lifespans   *)
(* and failures: none is closed under it or left closed by a former one.   *)
THEOREM SinksStayOpen == Spec => []SinkOpenForEvent
<1>1. AuditInv => SinkOpenForEvent
  BY DEF AuditInv
<1> QED
  BY <1>1, AuditInvariant, PTL

(* Some event at a sink can go on: it is posted, it has its connection, or *)
(* a connection is free for it (the guards of Post, Insert and Acquire).   *)
SomebodyGoesOn(i) ==
  \E q \in Requests :
    \/ sinks[i] = "splunk" /\ emit[q][i] = "waiting"
    \/ emit[q][i] = "busy"
    \/ sinks[i] = "postgres" /\ emit[q][i] = "waiting" /\ Cardinality(Busy(i)) < PoolSize

(* The safety half of EventSettles: wherever an event is under way somebody*)
(* can go on, for any number of events and any size of the pool; a full    *)
(* pool is full of events that will give their connections back.           *)
THEOREM PoolNeverSticks ==
  Spec => [](\A r \in Requests, i \in Places :
               emit[r][i] \in {"waiting", "busy"} => SomebodyGoesOn(i))
<1>1. ASSUME AuditInv, NEW r \in Requests, NEW i \in Places,
             emit[r][i] \in {"waiting", "busy"}
      PROVE  SomebodyGoesOn(i)
  <2>1. link[i] = "open"
    BY <1>1 DEF AuditInv, SinkOpenForEvent
  <2>2. i \in DOMAIN sinks /\ sinks[i] # "console"
    BY <1>1, <2>1 DEF AuditInv
  <2>3. sinks[i] \in {"postgres", "splunk"}
    BY <1>1, <2>2 DEF AuditInv, TypeOK, Kinds
  <2>4. CASE Busy(i) = {}
    <3>1. Cardinality(Busy(i)) < PoolSize
      BY <2>4, SinkAssumption, FS_EmptySet
    <3>2. emit[r][i] = "waiting"
      BY <1>1, <2>4 DEF Busy
    <3> QED
      BY <2>3, <3>1, <3>2 DEF SomebodyGoesOn
  <2>5. CASE Busy(i) # {}
    BY <2>5 DEF Busy, SomebodyGoesOn
  <2> QED
    BY <2>4, <2>5
<1>2. AuditInv => \A r \in Requests, i \in Places :
                    emit[r][i] \in {"waiting", "busy"} => SomebodyGoesOn(i)
  BY <1>1
<1> QED
  BY <1>2, AuditInvariant, PTL

(* A lifespan that ended without an exception leaves nothing open that a   *)
(* sink refers to.                                                         *)
THEOREM StopsAreClean == Spec => []CleanStop
<1>1. AuditInv => CleanStop
  BY DEF AuditInv
<1> QED
  BY <1>1, AuditInvariant, PTL
=============================================================================
