---------------------------- MODULE DualChannel ----------------------------
(***************************************************************************)
(* The data plane and the control plane of dual_channel/: two services     *)
(* that share nothing but a keypair, resolved by each on its own when it   *)
(* starts.  The data plane signs what it ingests; the control plane takes  *)
(* its instructions from the request and its data only under a data-plane  *)
(* signature.                                                              *)
(*                                                                         *)
(* The two are restarted independently, so a key rotation passes through   *)
(* states in which they hold different keys, or one of them is down.       *)
(***************************************************************************)
EXTENDS Naturals, FiniteSets

CONSTANTS
  Docs,          \* the documents that can be signed
  DataKeys,      \* keypairs whose private half only the data plane has held
  OtherKeys,     \* keypairs of anybody else
  Tenants,
  Elsewhere,     \* what is signed elsewhere than by /ingest
  MaxBatch,      \* bound: documents in one /execute request
  None           \* no key; no block

Channels == {"data", "control"}
KeyIds == {"data-plane", "other"}       \* DATA_PLANE_KEY_ID, and any other
Issuers == {"data-plane", "other"}      \* DATA_PLANE_ISSUER, and any other
Contexts == [channel : Channels, tenant : Tenants]

(* A signed block: the keypair, the claims that the signature covers, and  *)
(* whether the content has marker text in it.                              *)
Block == [key : DataKeys \cup OtherKeys, kid : KeyIds, issuer : Issuers,
          context : Contexts, markers : BOOLEAN]

(* The data-plane key also signs outside /ingest (the test suite does),    *)
(* but then under another issuer or for another channel.                   *)
ASSUME ChannelAssumption ==
  /\ DataKeys \cap OtherKeys = {}
  /\ None \notin DataKeys \cup OtherKeys \cup Docs \cup Block \cup Tenants
  /\ Elsewhere \subseteq Block
  /\ MaxBatch \in Nat
  /\ \A b \in Elsewhere :
       b.key \in DataKeys => b.issuer # "data-plane" \/ b.context.channel # "data"

VARIABLES
  signingKey,    \* what the running data plane holds, None when it is down
  verifyKey,     \* what the running control plane holds, None when it is down
  block,         \* the block each document was signed into, None before
  ingested,      \* the documents /ingest signed
  expired,       \* the documents whose expiry has passed
  admitted,      \* under which request tenants a document was ever admitted
  last           \* the last answer of /execute, and whether documents came with it

vars == <<signingKey, verifyKey, block, ingested, expired, admitted, last>>

Roles == {"viewer", "operator", "other"}
Actions == {"summarize_document", "issue_refund", "other"}
Statuses == {"200", "400", "403"}

NoAnswer == [status |-> "400", action |-> "other", data |-> FALSE]

TypeOK ==
  /\ signingKey \in DataKeys \cup {None}
  /\ verifyKey \in DataKeys \cup {None}
  /\ block \in [Docs -> Block \cup {None}]
  /\ ingested \subseteq Docs
  /\ expired \subseteq Docs
  /\ admitted \in [Docs -> SUBSET Tenants]
  /\ last \in [status : Statuses, action : Actions, data : BOOLEAN]

Init ==
  /\ signingKey = None
  /\ verifyKey = None
  /\ block = [d \in Docs |-> None]
  /\ ingested = {}
  /\ expired = {}
  /\ admitted = [d \in Docs |-> {}]
  /\ last = NoAnswer

-----------------------------------------------------------------------------
ReadOnlyActions == {"summarize_document"}
SensitiveActions == {"issue_refund"}
RoleActions(role) == CASE role = "viewer"   -> ReadOnlyActions
                       [] role = "operator" -> ReadOnlyActions \cup SensitiveActions
                       [] OTHER             -> {}

(* The data plane is (re)started with the keypair k, or finds no usable    *)
(* signing key and exits.                                                  *)
RestartDataPlane(k) ==
  /\ signingKey' = k
  /\ UNCHANGED <<verifyKey, block, ingested, expired, admitted, last>>

RestartControlPlane(k) ==
  /\ verifyKey' = k
  /\ UNCHANGED <<signingKey, block, ingested, expired, admitted, last>>

(* /ingest refuses content with marker text in it.                         *)
AdmissibleAnyway(markers) == TRUE                           \* seeded fault
Admissible(markers) == ~markers

(* /ingest: the block is bound to the data channel and the body's tenant.  *)
Ingest(d, tenant, markers) ==
  /\ signingKey # None
  /\ block[d] = None
  /\ Admissible(markers)
  /\ block' = [block EXCEPT ![d] =
       [key |-> signingKey, kid |-> "data-plane", issuer |-> "data-plane",
        context |-> [channel |-> "data", tenant |-> tenant],
        markers |-> markers]]
  /\ ingested' = ingested \cup {d}
  /\ UNCHANGED <<signingKey, verifyKey, expired, admitted, last>>

(* Somebody signs a block without the data plane's /ingest.                *)
SignElsewhere(d) ==
  /\ block[d] = None
  /\ \E b \in Elsewhere : block' = [block EXCEPT ![d] = b]
  /\ UNCHANGED <<signingKey, verifyKey, ingested, expired, admitted, last>>

Expire(d) ==
  /\ block[d] # None
  /\ d \notin expired
  /\ expired' = expired \cup {d}
  /\ UNCHANGED <<signingKey, verifyKey, block, ingested, admitted, last>>

(* The library, as the control plane configures it: one key id, one public *)
(* key; the context presented must be the one signed; content with marker  *)
(* text in it does not parse as one block.                                 *)
Verifies(d, context) ==
  /\ block[d] # None
  /\ block[d].kid = "data-plane"
  /\ block[d].key = verifyKey
  /\ block[d].context = context
  /\ ~block[d].markers
  /\ d \notin expired

(* Seeded fault: the issuer is not looked at.                              *)
StatusAnyIssuer(d, context, tenant) ==
  IF ~Verifies(d, context) \/ context.channel # "data" THEN "400"
  ELSE IF context.tenant # tenant THEN "403" ELSE "200"

(* _verify_data_plane_document, by the status it ends with.                *)
FromDataPlane(d, context) ==
  /\ Verifies(d, context)
  /\ block[d].kid = "data-plane" /\ block[d].issuer = "data-plane"
  /\ context.channel = "data"

DocumentStatus(d, context, tenant) ==
  IF ~FromDataPlane(d, context) THEN "400"
  ELSE IF context.tenant # tenant THEN "403" ELSE "200"

(* What a request can carry: texts, each with the context it is said to    *)
(* have been signed with.  A document nobody has signed is text that is no *)
(* band.                                                                   *)
Batches == {batch \in SUBSET (Docs \X Contexts) :
              Cardinality(batch) <= MaxBatch}

(* Seeded fault: one document that holds speaks for the whole batch.       *)
AnswersForAny(action, role, tenant, batch) ==
  LET found == {DocumentStatus(p[1], p[2], tenant) : p \in batch}
  IN IF action \notin RoleActions("operator") THEN {"400"}
     ELSE IF action \notin RoleActions(role)   THEN {"403"}
     ELSE IF "200" \in found \/ batch = {} THEN {"200"} ELSE found

(* The statuses /execute can answer: an action nobody may perform, a role  *)
(* that may not, the first document that fails, or success.                *)
Answers(action, role, tenant, batch) ==
  LET failing == {DocumentStatus(p[1], p[2], tenant) : p \in batch} \ {"200"}
  IN IF action \notin RoleActions("operator") THEN {"400"}
     ELSE IF action \notin RoleActions(role)   THEN {"403"}
     ELSE IF failing # {} THEN failing ELSE {"200"}

(* /execute: a single answer for the whole batch, and only success admits  *)
(* its documents.                                                          *)
Execute(action, role, tenant, batch) ==
  /\ verifyKey # None
  /\ \E status \in Answers(action, role, tenant, batch) :
       /\ last' = [status |-> status, action |-> action, data |-> batch # {}]
       /\ admitted' = [d \in Docs |->
            IF status = "200" /\ \E p \in batch : p[1] = d
              THEN admitted[d] \cup {tenant}
              ELSE admitted[d]]
  /\ UNCHANGED <<signingKey, verifyKey, block, ingested, expired>>

Next ==
  \/ \E k \in DataKeys \cup {None} : RestartDataPlane(k) \/ RestartControlPlane(k)
  \/ \E d \in Docs : \/ \E t \in Tenants, m \in BOOLEAN : Ingest(d, t, m)
                     \/ SignElsewhere(d)
                     \/ Expire(d)
  \/ \E a \in Actions, r \in Roles, t \in Tenants, batch \in Batches :
       Execute(a, r, t, batch)

Spec == Init /\ [][Next]_vars

-----------------------------------------------------------------------------
(* Whatever was signed elsewhere, replayed, or presented with a made-up    *)
(* context, and whichever keys the planes have been rotated through: what  *)
(* the control plane admitted came through /ingest, for the tenant it was  *)
(* admitted under and no other.                                            *)
AdmittedWasIngested ==
  \A d \in Docs :
    admitted[d] # {} => d \in ingested /\ admitted[d] = {block[d].context.tenant}

(* What /ingest hands out is of use: while the planes hold matching keys   *)
(* and the block has not expired, /execute does not refuse it to its own   *)
(* tenant (the marker check of ingest against the checks of execute).      *)
IngestedIsAdmissible ==
  \A d \in ingested \ expired :
    block[d].key = verifyKey =>
      DocumentStatus(d, block[d].context, block[d].context.tenant) = "200"

(* Every block is /ingest's own or one of those signed elsewhere.          *)
OriginInv ==
  /\ \A d \in ingested :
       /\ block[d] # None
       /\ block[d].key \in DataKeys
       /\ block[d].kid = "data-plane"
       /\ block[d].issuer = "data-plane"
       /\ block[d].context.channel = "data"
       /\ ~block[d].markers
  /\ \A d \in Docs \ ingested : block[d] \in Elsewhere \cup {None}

(* The inductive invariant behind both: the types, the origins and what    *)
(* was admitted of each.                                                   *)
AdmissionInv == TypeOK /\ OriginInv /\ AdmittedWasIngested

(* The two planes implement plain admission: which tenant a document is    *)
(* from is fixed when /ingest signs it, and a batch of /execute is admitted*)
(* whole, for the tenant of every document in it, or not at all.           *)
Gate == INSTANCE Admission WITH
  origin <- [d \in Docs |->
               IF d \in ingested THEN block[d].context.tenant ELSE None]

ImplementsAdmission == Gate!Spec

(* scripts/redteam_control_plane.py: an operator is allowed to refund, but *)
(* only with a verified document.  An empty list has nothing to verify.    *)
RefundNeedsDocument ==
  last.status = "200" /\ last.action = "issue_refund" => last.data
=============================================================================
