------------------------- MODULE DualChannel_proofs -------------------------
(***************************************************************************)
(* For any set of documents, keypairs and tenants, any length of request   *)
(* and anything signed elsewhere that ChannelAssumption allows: what the   *)
(* control plane admits came through /ingest, for the tenant it was        *)
(* admitted under.                                                         *)
(***************************************************************************)
EXTENDS DualChannel, TLAPS

(* Every step of either plane keeps the variables in their types.          *)
LEMMA TypeStep == TypeOK /\ [Next]_vars => TypeOK'
<1> SUFFICES ASSUME TypeOK, [Next]_vars PROVE TypeOK'
  OBVIOUS
<1> USE ChannelAssumption
<1>1. CASE UNCHANGED vars
  BY <1>1 DEF TypeOK, vars
<1>2. ASSUME NEW k \in DataKeys \cup {None},
             RestartDataPlane(k) \/ RestartControlPlane(k)
      PROVE  TypeOK'
  BY <1>2 DEF TypeOK, RestartDataPlane, RestartControlPlane
<1>3. ASSUME NEW d \in Docs, NEW t \in Tenants, NEW m \in BOOLEAN, Ingest(d, t, m)
      PROVE  TypeOK'
  <2>1. [key |-> signingKey, kid |-> "data-plane", issuer |-> "data-plane",
         context |-> [channel |-> "data", tenant |-> t], markers |-> m] \in Block
    BY <1>3 DEF TypeOK, Ingest, Block, KeyIds, Issuers, Contexts, Channels
  <2>2. block' \in [Docs -> Block \cup {None}]
    BY <1>3, <2>1 DEF TypeOK, Ingest
  <2> QED
    BY <1>3, <2>2 DEF TypeOK, Ingest
<1>4. ASSUME NEW d \in Docs, SignElsewhere(d) \/ Expire(d)
      PROVE  TypeOK'
  BY <1>4 DEF TypeOK, SignElsewhere, Expire
<1>5. ASSUME NEW a \in Actions, NEW r \in Roles, NEW t \in Tenants,
             NEW batch \in Batches, Execute(a, r, t, batch)
      PROVE  TypeOK'
  <2>1. Answers(a, r, t, batch) \subseteq Statuses
    BY DEF Answers, DocumentStatus, Statuses
  <2>2. admitted' \in [Docs -> SUBSET Tenants]
    BY <1>5 DEF TypeOK, Execute
  <2>3. last' \in [status : Statuses, action : Actions, data : BOOLEAN]
    BY <1>5, <2>1 DEF Execute
  <2> QED
    BY <1>5, <2>2, <2>3 DEF TypeOK, Execute
<1> QED
  BY <1>1, <1>2, <1>3, <1>4, <1>5 DEF Next

(* The two planes' variables stay in their types.                          *)
THEOREM TypeCorrect == Spec => []TypeOK
<1>1. Init => TypeOK
  BY DEF Init, TypeOK, NoAnswer, Statuses, Actions
<1> QED
  BY <1>1, TypeStep, PTL DEF Spec

(* A document whose status is success was ingested for this very tenant:   *)
(* the signature, the key id, the issuer, the channel and the tenant leave *)
(* no other block.                                                         *)
LEMMA SuccessIsIngested ==
  ASSUME TypeOK, OriginInv, verifyKey # None, NEW d \in Docs,
         NEW context \in Contexts, NEW tenant \in Tenants,
         DocumentStatus(d, context, tenant) = "200"
  PROVE  d \in ingested /\ block[d].context.tenant = tenant
<1>1. /\ Verifies(d, context)
      /\ block[d].issuer = "data-plane"
      /\ context.channel = "data"
      /\ context.tenant = tenant
  BY DEF DocumentStatus, FromDataPlane
<1>2. /\ block[d] # None
      /\ block[d].key \in DataKeys
      /\ block[d].context = context
  BY <1>1 DEF Verifies, TypeOK
<1>3. block[d] \notin Elsewhere
  BY <1>1, <1>2, ChannelAssumption
<1> QED
  BY <1>1, <1>2, <1>3 DEF OriginInv

(* Every step keeps the invariant.                                         *)
LEMMA AdmissionStep == AdmissionInv /\ [Next]_vars => AdmissionInv'
<1> SUFFICES ASSUME AdmissionInv, [Next]_vars PROVE OriginInv' /\ AdmittedWasIngested'
  BY TypeStep DEF AdmissionInv
<1> USE ChannelAssumption DEF AdmissionInv
<1>1. CASE UNCHANGED vars
  BY <1>1 DEF OriginInv, AdmittedWasIngested, vars
<1>2. ASSUME NEW k \in DataKeys \cup {None},
             RestartDataPlane(k) \/ RestartControlPlane(k)
      PROVE  OriginInv' /\ AdmittedWasIngested'
  BY <1>2 DEF OriginInv, AdmittedWasIngested, RestartDataPlane, RestartControlPlane
<1>3. ASSUME NEW d \in Docs, NEW t \in Tenants, NEW m \in BOOLEAN, Ingest(d, t, m)
      PROVE  OriginInv' /\ AdmittedWasIngested'
  <2>1. d \notin ingested /\ admitted[d] = {}
    BY <1>3 DEF Ingest, OriginInv, AdmittedWasIngested
  <2>2. /\ block'[d] = [key |-> signingKey, kid |-> "data-plane",
                        issuer |-> "data-plane",
                        context |-> [channel |-> "data", tenant |-> t],
                        markers |-> m]
        /\ \A e \in Docs \ {d} : block'[e] = block[e]
        /\ ~m /\ signingKey \in DataKeys
        /\ ingested' = ingested \cup {d} /\ admitted' = admitted
    BY <1>3 DEF Ingest, Admissible, TypeOK
  <2>3. block'[d] # None
    BY <2>2, TypeStep DEF TypeOK, Block, KeyIds, Issuers, Contexts, Channels
  <2>4. OriginInv'
    BY <2>2, <2>3 DEF OriginInv, TypeOK
  <2>5. AdmittedWasIngested'
    BY <2>1, <2>2 DEF AdmittedWasIngested, TypeOK
  <2> QED
    BY <2>4, <2>5
<1>4. ASSUME NEW d \in Docs, SignElsewhere(d)
      PROVE  OriginInv' /\ AdmittedWasIngested'
  <2>1. d \notin ingested /\ admitted[d] = {}
    BY <1>4 DEF SignElsewhere, OriginInv, AdmittedWasIngested
  <2>2. /\ block'[d] \in Elsewhere
        /\ \A e \in Docs \ {d} : block'[e] = block[e]
        /\ ingested' = ingested /\ admitted' = admitted
    BY <1>4 DEF SignElsewhere, TypeOK
  <2>3. OriginInv'
    BY <2>1, <2>2 DEF OriginInv, TypeOK
  <2>4. AdmittedWasIngested'
    BY <2>1, <2>2 DEF AdmittedWasIngested, TypeOK
  <2> QED
    BY <2>3, <2>4
<1>5. ASSUME NEW d \in Docs, Expire(d)
      PROVE  OriginInv' /\ AdmittedWasIngested'
  BY <1>5 DEF OriginInv, AdmittedWasIngested, Expire
<1>6. ASSUME NEW a \in Actions, NEW r \in Roles, NEW t \in Tenants,
             NEW batch \in Batches, Execute(a, r, t, batch)
      PROVE  OriginInv' /\ AdmittedWasIngested'
  <2>1. PICK status \in Answers(a, r, t, batch) :
          admitted' = [d \in Docs |->
            IF status = "200" /\ \E p \in batch : p[1] = d
              THEN admitted[d] \cup {t} ELSE admitted[d]]
    BY <1>6 DEF Execute
  <2>2. /\ verifyKey # None
        /\ block' = block /\ ingested' = ingested
    BY <1>6 DEF Execute
  <2>3. ASSUME status = "200", NEW p \in batch
        PROVE  p[1] \in ingested /\ block[p[1]].context.tenant = t
    <3>1. p \in Docs \X Contexts
      BY <2>3 DEF Batches
    <3>2. DocumentStatus(p[1], p[2], t) = "200"
      BY <2>1, <2>3 DEF Answers
    <3> QED
      BY <2>2, <3>1, <3>2, SuccessIsIngested
  <2>4. ASSUME NEW d \in Docs, admitted'[d] # {}
        PROVE  d \in ingested /\ admitted'[d] = {block[d].context.tenant}
    <3>1. CASE status = "200" /\ \E p \in batch : p[1] = d
      BY <2>1, <2>3, <3>1 DEF AdmittedWasIngested
    <3>2. CASE ~(status = "200" /\ \E p \in batch : p[1] = d)
      BY <2>1, <2>4, <3>2 DEF AdmittedWasIngested
    <3> QED
      BY <3>1, <3>2
  <2> QED
    BY <2>2, <2>4 DEF OriginInv, AdmittedWasIngested
<1> QED
  BY <1>1, <1>2, <1>3, <1>4, <1>5, <1>6 DEF Next

(* The invariant holds throughout, whichever keys the planes run through.  *)
THEOREM AdmissionInvariant == Spec => []AdmissionInv
<1>1. Init => AdmissionInv
  BY DEF Init, AdmissionInv, TypeOK, NoAnswer, Statuses, Actions, OriginInv,
         AdmittedWasIngested
<1> QED
  BY <1>1, AdmissionStep, PTL DEF Spec

(* Data crosses into the control plane only through /ingest, and only into *)
(* the tenant it was ingested for (_verify_data_plane_document).           *)
THEOREM AdmissionIsGenuine == Spec => []AdmittedWasIngested
<1>1. AdmissionInv => AdmittedWasIngested
  BY DEF AdmissionInv
<1> QED
  BY <1>1, AdmissionInvariant, PTL

(* The planes refine Admission: /ingest hands a document in, a successful  *)
(* /execute admits its batch, and nothing else is seen.                    *)
THEOREM PlanesImplementAdmission == Spec => ImplementsAdmission
<1>1. Init => Gate!Init
  BY DEF Init, Gate!Init
<1>2. AdmissionInv /\ [Next]_vars => [Gate!Next]_(Gate!vars)
  <2> SUFFICES ASSUME AdmissionInv, [Next]_vars
               PROVE  [Gate!Next]_(Gate!vars)
    OBVIOUS
  <2> USE ChannelAssumption DEF AdmissionInv, TypeOK
  <2>1. ASSUME \A d \in ingested : block'[d] = block[d],
               ingested' = ingested, admitted' = admitted
        PROVE  UNCHANGED Gate!vars
    BY <2>1 DEF Gate!vars
  <2>2. CASE UNCHANGED vars
    BY <2>1, <2>2 DEF vars
  <2>3. ASSUME NEW k \in DataKeys \cup {None},
               RestartDataPlane(k) \/ RestartControlPlane(k)
        PROVE  UNCHANGED Gate!vars
    BY <2>1, <2>3 DEF RestartDataPlane, RestartControlPlane
  <2>4. ASSUME NEW d \in Docs, NEW t \in Tenants, NEW m \in BOOLEAN, Ingest(d, t, m)
        PROVE  Gate!HandIn(d, t)
    <3>1. d \notin ingested
      BY <2>4 DEF Ingest, OriginInv
    <3>2. /\ ingested' = ingested \cup {d} /\ admitted' = admitted
          /\ block'[d].context.tenant = t
          /\ \A e \in Docs \ {d} : block'[e] = block[e]
      BY <2>4 DEF Ingest
    <3>3. \A e \in Docs :
            (IF e \in ingested' THEN block'[e].context.tenant ELSE None)
              = IF e = d THEN t
                ELSE IF e \in ingested THEN block[e].context.tenant ELSE None
      BY <3>2
    <3> HIDE DEF AdmissionInv, TypeOK
    <3> QED
      BY <3>1, <3>2, <3>3 DEF Gate!HandIn
  <2>5. ASSUME NEW d \in Docs, SignElsewhere(d)
        PROVE  UNCHANGED Gate!vars
    <3>1. d \notin ingested
      BY <2>5 DEF SignElsewhere, OriginInv
    <3> QED
      BY <2>1, <2>5, <3>1 DEF SignElsewhere
  <2>6. ASSUME NEW d \in Docs, Expire(d)
        PROVE  UNCHANGED Gate!vars
    BY <2>1, <2>6 DEF Expire
  <2>7. ASSUME NEW a \in Actions, NEW r \in Roles, NEW t \in Tenants,
               NEW batch \in Batches, Execute(a, r, t, batch)
        PROVE  [Gate!Next]_(Gate!vars)
    <3>1. PICK status \in Answers(a, r, t, batch) :
            admitted' = [d \in Docs |->
              IF status = "200" /\ \E p \in batch : p[1] = d
                THEN admitted[d] \cup {t} ELSE admitted[d]]
      BY <2>7 DEF Execute
    <3>2. verifyKey # None /\ block' = block /\ ingested' = ingested
      BY <2>7 DEF Execute
    <3>3. CASE status # "200"
      <4>1. admitted' = admitted
        BY <3>1, <3>3
      <4> QED
        BY <2>1, <3>2, <4>1
    <3>4. CASE status = "200"
      <4> DEFINE whole == {d \in Docs : \E p \in batch : p[1] = d}
      <4>1. ASSUME NEW d \in whole
            PROVE  d \in ingested /\ block[d].context.tenant = t
        <5>1. PICK p \in batch : p[1] = d
          OBVIOUS
        <5>2. p \in Docs \X Contexts
          BY DEF Batches
        <5>3. DocumentStatus(p[1], p[2], t) = "200"
          BY <3>1, <3>4 DEF Answers
        <5> QED
          BY <3>2, <5>1, <5>2, <5>3, SuccessIsIngested
      <4>2. Gate!Admit(whole, t)
        BY <3>1, <3>2, <3>4, <4>1 DEF Gate!Admit
      <4> QED
        BY <4>2 DEF Gate!Next
    <3> QED
      BY <3>3, <3>4
  <2> QED
    BY <2>2, <2>3, <2>4, <2>5, <2>6, <2>7 DEF Next, Gate!Next
<1> QED
  BY <1>1, <1>2, AdmissionInvariant, PTL DEF Spec, ImplementsAdmission, Gate!Spec

(* What /ingest signed passes every check of /execute under its own        *)
(* context and tenant, as long as the keys match and it has not expired.   *)
THEOREM IngestedIsUseful == Spec => []IngestedIsAdmissible
<1>1. AdmissionInv => IngestedIsAdmissible
  BY DEF AdmissionInv, TypeOK, OriginInv, IngestedIsAdmissible, DocumentStatus,
         FromDataPlane, Verifies
<1> QED
  BY <1>1, AdmissionInvariant, PTL
=============================================================================
