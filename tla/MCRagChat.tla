----------------------------- MODULE MCRagChat -----------------------------
(* Small instances of RagChat for TLC.                                     *)
EXTENDS RagChat, TLC

CONSTANTS c1, tenant, endpoint, none

OneChat == {c1}
OneBase == {tenant}

First == DocumentContext(tenant, 0)

(* A prompt of two documents, and two more bands of the first one's        *)
(* context.                                                                *)
MCBlocks == [ctx : {First}, id : 0..2] \cup Prompt(tenant, 2)

(* Every way the cost of a prompt of one document can turn out: well below *)
(* and above the threshold, and rounded down, at the half, and up to it.   *)
OneDocument(lengths, limits) ==
  [blocks : {Prompt(tenant, 1)}, dangling : {FALSE}, ctx : {First},
   length : lengths, limit : limits, confirm : {"always", "never", "whenAsked"}]
Priced == OneDocument({4}, {0, 1}) \cup OneDocument({4, 5, 12}, {2})

(* Several bands, leftover markers, and contexts that do and do not fit.   *)
Marked ==
  [blocks : {Prompt(tenant, 2), [ctx : {First}, id : 0..1], [ctx : {First}, id : 0..2]},
   dangling : {FALSE}, ctx : {First, PlainContext(tenant)},
   length : {4}, limit : {1}, confirm : {"never"}]
  \cup [blocks : {{}, Prompt(tenant, 1)}, dangling : {TRUE},
        ctx : {First, PlainContext(tenant)},
        length : {4}, limit : {1}, confirm : {"never"}]

MCRequests == Priced \cup Marked

MCMessages == {MessageOf(r) : r \in MCRequests}
=============================================================================
