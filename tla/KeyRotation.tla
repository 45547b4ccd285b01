---------------------------- MODULE KeyRotation ----------------------------
(***************************************************************************)
(* Signing keys across the processes of one deployment while keys are      *)
(* rotated.  Each process resolves its keys once, when app/config.py is    *)
(* imported: KEY_ID from its environment, GUARD_BAND_KEYS through the      *)
(* secret provider, which caches.  A process that runs on keeps the keys   *)
(* it started with; /wrap on one must match /verify on every other.        *)
(*                                                                         *)
(* The map follows docs/KEY_MANAGEMENT.md: a key is added for verification *)
(* and retired after a grace period.  KEY_ID may be set to anything, as    *)
(* nothing compares it with the map; `stray` remembers the keys that were  *)
(* made active against that order.  Any other key id stands for one        *)
(* secret.                                                                 *)
(***************************************************************************)
EXTENDS GuardBands

CONSTANTS
  Workers,            \* the processes
  Kids,               \* key ids
  FirstKid,           \* KEY_ID before any rotation
  Bands,              \* the bands that can be signed
  None,               \* no band yet
  TTL,                \* settings.GUARD_BAND_TTL_SECONDS
  Grace,              \* how long the operator keeps a key that is not active
  MaxTime             \* bound: the last second of the clock

ASSUME RotationAssumption ==
  /\ Workers # {}
  /\ FirstKid \in Kids
  /\ None \notin Kids
  /\ TTL \in Nat /\ Grace \in Nat /\ TTL <= Grace
  /\ MaxTime \in Nat

VARIABLES
  now,
  store,      \* the key ids in GUARD_BAND_KEYS, {} when the secret is not set
  env,        \* KEY_ID in the environment of each process
  keyring,    \* the key ids each process has loaded, {} while it is down
  retired,    \* when a process that signed with a key last went down
  kid,        \* the key each band is signed with
  at,         \* and when it was
  chosen,     \* the bands whose key the caller of /wrap chose
  stray       \* the keys made active before every process could verify them

vars == <<now, store, env, keyring, retired, kid, at, chosen, stray>>

TypeOK ==
  /\ now \in 0..MaxTime
  /\ store \subseteq Kids
  /\ env \in [Workers -> Kids]
  /\ keyring \in [Workers -> SUBSET Kids]
  /\ retired \in [Kids -> 0..MaxTime]
  /\ kid \in [Bands -> Kids \cup {None}]
  /\ at \in [Bands -> 0..MaxTime]
  /\ chosen \subseteq Bands
  /\ stray \subseteq Kids

Init ==
  /\ now = 0
  /\ store = {}
  /\ env = [w \in Workers |-> FirstKid]
  /\ keyring = [w \in Workers |-> {}]
  /\ retired = [k \in Kids |-> 0]
  /\ kid = [b \in Bands |-> None]
  /\ at = [b \in Bands |-> 0]
  /\ chosen = {}
  /\ stray = {}

-----------------------------------------------------------------------------
Running(w) == keyring[w] # {}

(* _load_guard_band_keys: without a map, SECRET_KEY serves under KEY_ID.   *)
LoadOwnKidOnly(w) == {env[w]}                               \* seeded fault
LoadKeys(w) == IF store = {} THEN {env[w]} ELSE store

(* Import of app/config.py.  While the secret backend cannot be reached    *)
(* the import raises, and the process is still down.                       *)
Start(w) ==
  /\ ~Running(w)
  /\ keyring' = [keyring EXCEPT ![w] = LoadKeys(w)]
  /\ UNCHANGED <<now, store, env, retired, kid, at, chosen, stray>>

(* A crash, or the first half of a redeployment.                           *)
Stop(w) ==
  /\ Running(w)
  /\ keyring' = [keyring EXCEPT ![w] = {}]
  /\ retired' = [retired EXCEPT ![env[w]] = now]
  /\ UNCHANGED <<now, store, env, kid, at, chosen, stray>>

(* /wrap: with the caller's key_id when there is one, else with KEY_ID; a  *)
(* key id that is not in the map is refused.                               *)
Wrap(b, w, k) ==
  /\ kid[b] = None
  /\ k \in keyring[w]
  /\ \/ chosen' = chosen \cup {b}
     \/ k = env[w] /\ UNCHANGED chosen
  /\ kid' = [kid EXCEPT ![b] = k]
  /\ at' = [at EXCEPT ![b] = now]
  /\ UNCHANGED <<now, store, env, keyring, retired, stray>>

(* The operator adds a key to the map.  The first map that is published    *)
(* also holds the key in use so far.                                       *)
AddKey(k) ==
  /\ k \notin store
  /\ store' = store \cup {k} \cup (IF store = {} THEN {FirstKid} ELSE {})
  /\ UNCHANGED <<now, env, keyring, retired, kid, at, chosen, stray>>

(* The key is in the map and every running process has loaded it.          *)
KnownToAll(k) ==
  k \in store /\ \A v \in Workers : Running(v) => k \in keyring[v]

(* A process that is down is given another KEY_ID, whichever: neither this *)
(* process nor any other compares it with the map.                         *)
Activate(w, k) ==
  /\ ~Running(w)
  /\ env' = [env EXCEPT ![w] = k]
  /\ stray' = IF KnownToAll(k) THEN stray ELSE stray \cup {k}
  /\ UNCHANGED <<now, store, keyring, retired, kid, at, chosen>>

(* A key no process is to sign with any more is taken out of the map when  *)
(* the grace period is over; a map is never emptied.                       *)
Retire(k) ==
  /\ k \in store /\ store # {k}
  /\ \A w \in Workers : env[w] # k
  /\ now > retired[k] + Grace
  /\ store' = store \ {k}
  /\ UNCHANGED <<now, env, keyring, retired, kid, at, chosen, stray>>

Tick ==
  /\ now < MaxTime
  /\ now' = now + 1
  /\ UNCHANGED <<store, env, keyring, retired, kid, at, chosen, stray>>

Next ==
  \/ \E w \in Workers : Start(w) \/ Stop(w)
  \/ \E k \in Kids : AddKey(k) \/ Retire(k)
  \/ \E w \in Workers, k \in Kids :
       Activate(w, k) \/ \E b \in Bands : Wrap(b, w, k)
  \/ Tick

Spec == Init /\ [][Next]_vars

-----------------------------------------------------------------------------
Live(b) == kid[b] # None /\ BandLive(at[b] + TTL, now)

(* Rotation is invisible to clients that leave the key to the service: a   *)
(* band that has not expired verifies on every process that runs, whichever*)
(* process signed it, however starts, crashes, map changes and the keys    *)
(* other clients choose fall in between (one-time loading in               *)
(* app/config.py).  A KEY_ID set out of order costs the bands that are     *)
(* signed with it and the processes that run with it, and nothing else.    *)
LiveBandVerifies ==
  \A b \in Bands \ chosen, w \in Workers :
    Live(b) /\ Running(w) /\ {kid[b], env[w]} \cap stray = {}
      => kid[b] \in keyring[w]

(* A process never runs with a KEY_ID outside its own map, where every     *)
(* /wrap would fail, unless that KEY_ID was set out of order;              *)
(* app/config.py does not compare the two.                                 *)
CanSign ==
  \A w \in Workers : Running(w) /\ env[w] \notin stray => env[w] \in keyring[w]

(* The inductive invariant, stray keys apart: what is active anywhere is   *)
(* in the map and in every running process; a live band's key is in use,   *)
(* or its retirement is too recent for the key to be gone.                 *)
InStore(k) == IF store = {} THEN k = FirstKid ELSE k \in store

ActiveInv ==
  \A w \in Workers :
    env[w] \notin stray =>
      /\ InStore(env[w])
      /\ \A v \in Workers :
           Running(v) /\ env[v] \notin stray => env[w] \in keyring[v]

LiveInv ==
  \A b \in Bands \ chosen :
    kid[b] # None /\ kid[b] \notin stray =>
      /\ at[b] <= now
      /\ \/ at[b] <= retired[kid[b]]
         \/ \E w \in Workers : Running(w) /\ env[w] = kid[b]
      /\ Live(b) => InStore(kid[b])

RotationInv ==
  TypeOK /\ ActiveInv /\ LiveInv /\ LiveBandVerifies
=============================================================================
