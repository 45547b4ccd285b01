------------------------- MODULE KeyRotation_proofs -------------------------
(***************************************************************************)
(* For any number of processes, keys and bands, any TTL and any grace      *)
(* period at least as long: rotation never makes a live band unverifiable  *)
(* anywhere whose key the service chose, whatever keys callers choose for  *)
(* others and whichever keys are made active out of order.  And the same   *)
(* of processes that start in steps, each of which may fail.               *)
(***************************************************************************)
EXTENDS Startup, TLAPS

(* Every step keeps the variables in their types.                          *)
LEMMA TypeStep == TypeOK /\ [Next]_vars => TypeOK'
<1> SUFFICES ASSUME TypeOK, [Next]_vars PROVE TypeOK'
  OBVIOUS
<1> USE RotationAssumption DEF TypeOK
<1>1. CASE UNCHANGED vars
  BY <1>1 DEF vars
<1>2. ASSUME NEW w \in Workers, Start(w) \/ Stop(w)
      PROVE  TypeOK'
  BY <1>2 DEF Start, Stop, LoadKeys
<1>3. ASSUME NEW k \in Kids, AddKey(k) \/ Retire(k)
      PROVE  TypeOK'
  BY <1>3 DEF AddKey, Retire
<1>4. ASSUME NEW w \in Workers, NEW k \in Kids, Activate(w, k)
      PROVE  TypeOK'
  BY <1>4 DEF Activate
<1>5. ASSUME NEW w \in Workers, NEW k \in Kids, NEW b \in Bands, Wrap(b, w, k)
      PROVE  TypeOK'
  BY <1>5 DEF Wrap
<1>6. CASE Tick
  BY <1>6 DEF Tick
<1> QED
  BY <1>1, <1>2, <1>3, <1>4, <1>5, <1>6 DEF Next

(* A key that becomes stray only takes bands and processes out of what is  *)
(* promised.                                                               *)
LEMMA StrayGrows == TypeOK /\ [Next]_vars => stray \subseteq stray'
<1> SUFFICES ASSUME TypeOK, [Next]_vars PROVE stray \subseteq stray'
  OBVIOUS
<1>1. CASE UNCHANGED vars
  BY <1>1 DEF vars
<1>2. CASE Next
  BY <1>2 DEF Next, Start, Stop, AddKey, Retire, Activate, Wrap, Tick
<1> QED
  BY <1>1, <1>2

(* What is active anywhere is in the map and loaded everywhere, whichever  *)
(* process starts, stops or is given another key: but for stray keys.      *)
LEMMA ActiveStep == TypeOK /\ ActiveInv /\ [Next]_vars => ActiveInv'
<1> SUFFICES ASSUME TypeOK, ActiveInv, [Next]_vars PROVE ActiveInv'
  OBVIOUS
<1> USE DEF TypeOK, ActiveInv, Running, InStore
<1>1. CASE UNCHANGED vars
  BY <1>1 DEF vars
<1>2. ASSUME NEW w \in Workers, Start(w)
      PROVE  ActiveInv'
  <2>1. env[w] \notin stray
          => \A v \in Workers : env[v] \notin stray => env[v] \in LoadKeys(w)
    BY DEF LoadKeys
  <2> QED
    BY <1>2, <2>1 DEF Start
<1>3. ASSUME NEW w \in Workers, Stop(w)
      PROVE  ActiveInv'
  BY <1>3 DEF Stop
<1>4. ASSUME NEW k \in Kids, AddKey(k)
      PROVE  ActiveInv'
  BY <1>4 DEF AddKey
<1>5. ASSUME NEW k \in Kids, Retire(k)
      PROVE  ActiveInv'
  <2>1. store' # {} /\ \A w \in Workers : env[w] # k
    BY <1>5 DEF Retire
  <2> QED
    BY <1>5, <2>1 DEF Retire
<1>6. ASSUME NEW w \in Workers, NEW k \in Kids, Activate(w, k)
      PROVE  ActiveInv'
  <2>1. CASE KnownToAll(k)
    BY <1>6, <2>1 DEF Activate, KnownToAll
  <2>2. CASE ~KnownToAll(k)
    <3>1. /\ ~Running(w) /\ k \in stray' /\ stray \subseteq stray'
          /\ env'[w] = k /\ \A v \in Workers \ {w} : env'[v] = env[v]
          /\ UNCHANGED <<store, keyring>>
      BY <1>6, <2>2 DEF Activate
    <3> QED
      BY <3>1
  <2> QED
    BY <2>1, <2>2
<1>7. ASSUME NEW w \in Workers, NEW k \in Kids, NEW b \in Bands, Wrap(b, w, k)
      PROVE  ActiveInv'
  BY <1>7 DEF Wrap
<1>8. CASE Tick
  BY <1>8 DEF Tick
<1> QED
  BY <1>1, <1>2, <1>3, <1>4, <1>5, <1>6, <1>7, <1>8 DEF Next

(* A live band's key stays in the map: while a process signs with it       *)
(* because it is active, and after the last one because of the grace.      *)
LEMMA LiveStep ==
  TypeOK /\ ActiveInv /\ LiveInv /\ LiveBandVerifies
    /\ [Next]_vars => LiveInv' /\ LiveBandVerifies'
<1> SUFFICES ASSUME TypeOK, ActiveInv, LiveInv, LiveBandVerifies,
                    [Next]_vars
             PROVE  LiveInv' /\ LiveBandVerifies'
  OBVIOUS
<1> USE RotationAssumption, BoundariesAssumption DEF TypeOK, Running, InStore
<1>0. TypeOK'
  BY TypeStep
<1>1. CASE UNCHANGED vars
  BY <1>1 DEF vars, LiveInv, LiveBandVerifies, Live, BandLive
<1>2. ASSUME NEW w \in Workers, Start(w)
      PROVE  LiveInv' /\ LiveBandVerifies'
  <2>1. LiveInv'
    BY <1>2 DEF Start, LiveInv, Live, BandLive
  <2>2. ASSUME env[w] \notin stray, NEW b \in Bands \ chosen,
               kid[b] \notin stray, Live(b)
        PROVE  kid[b] \in LoadKeys(w)
    <3>1. InStore(kid[b])
      BY <2>2 DEF LiveInv, Live
    <3>2. InStore(env[w])
      BY <2>2 DEF ActiveInv
    <3> QED
      BY <3>1, <3>2 DEF LoadKeys
  <2>3. LiveBandVerifies'
    BY <1>2, <2>2 DEF Start, LiveBandVerifies, Live, BandLive
  <2> QED
    BY <2>1, <2>3
<1>3. ASSUME NEW w \in Workers, Stop(w)
      PROVE  LiveInv' /\ LiveBandVerifies'
  <2>1. LiveBandVerifies'
    BY <1>3 DEF Stop, LiveBandVerifies, Live, BandLive
  <2>2. ASSUME NEW b \in Bands \ chosen, kid[b] # None, kid[b] \notin stray
        PROVE  \/ at[b] <= retired'[kid[b]]
               \/ \E v \in Workers : keyring'[v] # {} /\ env[v] = kid[b]
    <3>1. CASE kid[b] = env[w]
      BY <1>3, <2>2, <3>1 DEF Stop, LiveInv
    <3>2. CASE kid[b] # env[w]
      BY <1>3, <2>2, <3>2 DEF Stop, LiveInv
    <3> QED
      BY <3>1, <3>2
  <2>3. LiveInv'
    BY <1>3, <2>2 DEF Stop, LiveInv, Live, BandLive
  <2> QED
    BY <2>1, <2>3
<1>4. ASSUME NEW k \in Kids, AddKey(k)
      PROVE  LiveInv' /\ LiveBandVerifies'
  <2>1. LiveBandVerifies'
    BY <1>4 DEF AddKey, LiveBandVerifies, Live, BandLive
  <2>2. store' # {} /\ store \subseteq store' /\ (store = {} => FirstKid \in store')
    BY <1>4 DEF AddKey
  <2> QED
    BY <1>4, <2>1, <2>2 DEF AddKey, LiveInv, Live, BandLive
<1>5. ASSUME NEW k \in Kids, Retire(k)
      PROVE  LiveInv' /\ LiveBandVerifies'
  <2>1. LiveBandVerifies'
    BY <1>5 DEF Retire, LiveBandVerifies, Live, BandLive
  <2>2. ASSUME NEW b \in Bands \ chosen, kid[b] # None, kid[b] \notin stray,
               Live(b)
        PROVE  kid[b] # k
    <3>1. SUFFICES ASSUME kid[b] = k PROVE FALSE
      OBVIOUS
    <3>2. at[b] <= retired[k]
      BY <1>5, <2>2, <3>1 DEF Retire, LiveInv
    <3>3. now <= at[b] + TTL
      BY <2>2 DEF Live, BandLive
    <3> QED
      BY <1>5, <3>2, <3>3 DEF Retire
  <2>3. store # {} /\ store' # {}
    BY <1>5 DEF Retire
  <2> QED
    BY <1>5, <2>1, <2>2, <2>3 DEF Retire, LiveInv, Live, BandLive
<1>6. ASSUME NEW w \in Workers, NEW k \in Kids, Activate(w, k)
      PROVE  LiveInv' /\ LiveBandVerifies'
  <2>1. \A v \in Workers : keyring[v] # {} => env'[v] = env[v]
    BY <1>6 DEF Activate
  <2>2. stray \subseteq stray'
    BY StrayGrows
  <2>3. UNCHANGED <<now, store, keyring, retired, kid, at, chosen>>
    BY <1>6 DEF Activate
  <2>4. LiveBandVerifies'
    BY <2>1, <2>2, <2>3 DEF LiveBandVerifies, Live, BandLive
  <2>5. LiveInv'
    BY <2>1, <2>2, <2>3 DEF LiveInv, Live, BandLive
  <2> QED
    BY <2>4, <2>5
<1>7. ASSUME NEW w \in Workers, NEW k \in Kids, NEW b \in Bands, Wrap(b, w, k)
      PROVE  LiveInv' /\ LiveBandVerifies'
  <2>1. /\ Running(w)
        /\ k = env[w] \/ b \in chosen'
        /\ chosen \subseteq chosen'
        /\ \A d \in Bands \ {b} : kid'[d] = kid[d] /\ at'[d] = at[d]
        /\ kid'[b] = k /\ at'[b] = now
        /\ UNCHANGED <<now, store, env, keyring, retired, stray>>
    BY <1>7 DEF Wrap
  <2>2. ASSUME NEW d \in Bands \ chosen', d # b
        PROVE  d \in Bands \ chosen /\ kid'[d] = kid[d] /\ at'[d] = at[d]
    BY <2>1, <2>2
  <2>3. LiveBandVerifies'
    BY <2>1, <2>2 DEF LiveBandVerifies, Live, BandLive, ActiveInv
  <2>4. LiveInv'
    BY <2>1, <2>2 DEF LiveInv, Live, BandLive, ActiveInv
  <2> QED
    BY <2>3, <2>4
<1>8. CASE Tick
  <2>1. \A b \in Bands : Live(b)' => Live(b)
    BY <1>8 DEF Tick, Live, BandLive
  <2> QED
    BY <1>8, <2>1 DEF Tick, LiveInv, LiveBandVerifies
<1> QED
  BY <1>1, <1>2, <1>3, <1>4, <1>5, <1>6, <1>7, <1>8 DEF Next

(* The invariant of the rotation holds throughout.                         *)
THEOREM RotationInvariant == Spec => []RotationInv
<1>1. Init => RotationInv
  BY RotationAssumption
  DEF Init, RotationInv, TypeOK, ActiveInv, LiveInv, LiveBandVerifies, Live,
      Running, InStore
<1>2. RotationInv /\ [Next]_vars => RotationInv'
  BY TypeStep, ActiveStep, LiveStep DEF RotationInv
<1> QED
  BY <1>1, <1>2, PTL DEF Spec

(* A live band whose key the service chose verifies on every process that  *)
(* runs (the one-time loading of app/config.py is enough).                 *)
THEOREM RotationIsInvisible == Spec => []LiveBandVerifies
<1>1. RotationInv => LiveBandVerifies
  BY DEF RotationInv
<1> QED
  BY <1>1, RotationInvariant, PTL

(* The variables of the rotation keep their types.                         *)
THEOREM RotationTypes == Spec => []TypeOK
<1>1. RotationInv => TypeOK
  BY DEF RotationInv
<1> QED
  BY <1>1, RotationInvariant, PTL

(* No process runs with an active key it has not loaded, but one whose     *)
(* KEY_ID was set before the key was in every running process's map.       *)
THEOREM EveryProcessCanSign == Spec => []CanSign
<1>1. RotationInv => CanSign
  BY DEF RotationInv, ActiveInv, CanSign
<1> QED
  BY <1>1, RotationInvariant, PTL

-----------------------------------------------------------------------------
(* Every step of a starting process or of the operator is a step of the    *)
(* rotation, or leaves it alone.                                           *)
LEMMA StartupRotates == StartupSpec => Spec
<1>1. StartupInit => Init
  BY DEF StartupInit
<1>2. [StartupNext]_startupVars => [Next]_vars
  <2> SUFFICES ASSUME StartupNext PROVE [Next]_vars
    BY DEF startupVars
  <2>1. ASSUME NEW w \in Workers,
               BeginImport(w) \/ FinishImport(w) \/ ExitUnkeyed(w)
        PROVE  UNCHANGED vars
    BY <2>1 DEF BeginImport, FinishImport, ExitUnkeyed
  <2>2. ASSUME NEW w \in Workers, ResolveKeys(w) \/ ExitKeyed(w)
        PROVE  Next
    BY <2>2 DEF ResolveKeys, ExitKeyed, Next
  <2>3. ASSUME NEW k \in Kids, ChangeMap(k)
        PROVE  Next
    BY <2>3 DEF ChangeMap, Next
  <2>4. ASSUME NEW w \in Workers, NEW k \in Kids, NEW b \in Bands,
               ServeWrap(b, w, k)
        PROVE  Next
    BY <2>4 DEF ServeWrap, Next
  <2>5. ASSUME NEW w \in Workers, NEW k \in Kids, SwitchKey(w, k)
        PROVE  Next
    BY <2>5 DEF SwitchKey, Next
  <2>6. CASE Miswrite \/ Repair
    BY <2>6 DEF Miswrite, Repair
  <2>7. CASE Tick /\ UNCHANGED <<stage, written>>
    BY <2>7 DEF Next
  <2> QED
    BY <2>1, <2>2, <2>3, <2>4, <2>5, <2>6, <2>7 DEF StartupNext
<1> QED
  BY <1>1, <1>2, PTL DEF StartupSpec, Spec

(* A live band whose key the service chose verifies on every process that  *)
(* has its keys, however often imports fail and the map is malformed.      *)
THEOREM LiveBandsVerify == StartupSpec => []LiveBandVerifies
  BY StartupRotates, RotationIsInvisible, PTL

(* A process serves only after its keys are resolved and until it ends.    *)
THEOREM StartupInvariant == StartupSpec => []StartupInv
<1>1. StartupSpec => []TypeOK
  BY StartupRotates, RotationTypes, PTL
<1>2. StartupInit => StartupInv
  BY DEF StartupInit, Init, StartupInv, StartupTypeOK, Running
<1>3. TypeOK /\ StartupInv /\ [StartupNext]_startupVars => StartupInv'
  <2> SUFFICES ASSUME TypeOK, StartupInv, [StartupNext]_startupVars
               PROVE  StartupInv'
    OBVIOUS
  <2> USE DEF TypeOK, StartupInv, StartupTypeOK, Running, Goes
  <2>1. CASE UNCHANGED startupVars
    BY <2>1 DEF startupVars, vars
  <2>2. ASSUME NEW w \in Workers,
               BeginImport(w) \/ FinishImport(w) \/ ExitUnkeyed(w)
        PROVE  StartupInv'
    BY <2>2 DEF BeginImport, FinishImport, ExitUnkeyed, vars
  <2>3. ASSUME NEW w \in Workers, ResolveKeys(w)
        PROVE  StartupInv'
    <3>1. LoadKeys(w) # {}
      BY DEF LoadKeys
    <3> QED
      BY <2>3, <3>1 DEF ResolveKeys, Start
  <2>4. ASSUME NEW w \in Workers, ExitKeyed(w)
        PROVE  StartupInv'
    BY <2>4 DEF ExitKeyed, Stop
  <2>5. ASSUME NEW k \in Kids, ChangeMap(k)
        PROVE  StartupInv'
    BY <2>5 DEF ChangeMap, AddKey, Retire
  <2>6. ASSUME NEW w \in Workers, NEW k \in Kids, SwitchKey(w, k)
        PROVE  StartupInv'
    BY <2>6 DEF SwitchKey, Activate
  <2>7. ASSUME NEW w \in Workers, NEW k \in Kids, NEW b \in Bands, ServeWrap(b, w, k)
        PROVE  StartupInv'
    BY <2>7 DEF ServeWrap, Wrap
  <2>8. CASE Miswrite \/ Repair
    BY <2>8 DEF Miswrite, Repair, vars
  <2>9. CASE Tick /\ UNCHANGED <<stage, written>>
    BY <2>9 DEF Tick
  <2> QED
    BY <2>1, <2>2, <2>3, <2>4, <2>5, <2>6, <2>7, <2>8, <2>9 DEF StartupNext
<1> QED
  BY <1>1, <1>2, <1>3, PTL DEF StartupSpec
=============================================================================
