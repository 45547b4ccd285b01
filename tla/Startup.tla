------------------------------ MODULE Startup ------------------------------
(***************************************************************************)
(* How a process of KeyRotation comes by its keys: the import of           *)
(* app/config.py, one secret after the other through the provider of       *)
(* app/secrets_provider.py, while the operator goes on with the rotation   *)
(* and while what is stored may be no JSON map, or may not be reachable.   *)
(*                                                                         *)
(* A name is resolved once in a process and cached, so that what counts is *)
(* the moment each secret is read.  A secret is stored as docs/SECRETS.md  *)
(* says, its text in the value; a name that is not found gives the         *)
(* caller's default.                                                       *)
(***************************************************************************)
EXTENDS KeyRotation

VARIABLES
  stage,      \* "down", "begun", "keyed", "up": how far the import is
  written     \* is the stored GUARD_BAND_KEYS a map, or not found: "asMeant",
              \* or text that is none: "malformed"

startupVars == <<vars, stage, written>>

StartupTypeOK ==
  /\ stage \in [Workers -> {"down", "begun", "keyed", "up"}]
  /\ written \in {"asMeant", "malformed"}

StartupInit ==
  /\ Init
  /\ stage = [w \in Workers |-> "down"]
  /\ written = "asMeant"

-----------------------------------------------------------------------------
Goes(w, from, to) == stage[w] = from /\ stage' = [stage EXCEPT ![w] = to]

(* SECRET_KEY is resolved and KEY_ID read.                                 *)
BeginImport(w) ==
  /\ Goes(w, "down", "begun")
  /\ UNCHANGED <<vars, written>>

(* Seeded fault: what is no map, or cannot be read, counts as not found.   *)
ResolveKeysSomehow(w) ==
  /\ Goes(w, "begun", "keyed")
  /\ keyring' = [keyring EXCEPT ![w] = {env[w]}]
  /\ UNCHANGED <<now, store, env, retired, kid, at, chosen, stray, written>>

(* GUARD_BAND_KEYS is resolved: the map as it is at this moment.           *)
ResolveKeys(w) ==
  /\ Goes(w, "begun", "keyed")
  /\ written = "asMeant"
  /\ Start(w)
  /\ UNCHANGED written

(* Seeded fault: the process serves before its keys are resolved.          *)
FinishImportFirst(w) ==
  /\ Goes(w, "begun", "up")
  /\ UNCHANGED <<vars, written>>

(* The optional secrets, a missing one taken as not configured.            *)
FinishImport(w) ==
  /\ Goes(w, "keyed", "up")
  /\ UNCHANGED <<vars, written>>

(* No SECRET_KEY, an error of the backend, or a map that is none: the      *)
(* import exits before the keys are there.                                 *)
ExitUnkeyed(w) ==
  /\ Goes(w, "begun", "down")
  /\ UNCHANGED <<vars, written>>

(* A process that has its keys ends: the backend fails on a later secret,  *)
(* or the process crashes or is redeployed.  The operator cannot tell      *)
(* whether it has signed.                                                  *)
ExitKeyed(w) ==
  /\ Goes(w, "keyed", "down") \/ Goes(w, "up", "down")
  /\ Stop(w)
  /\ UNCHANGED written

(* Only a process whose import is complete serves /wrap.                   *)
ServeWrap(b, w, k) ==
  /\ stage[w] = "up"
  /\ Wrap(b, w, k)
  /\ UNCHANGED <<stage, written>>

(* The operator's part; a malformed map is put right before it is changed. *)
ChangeMap(k) ==
  /\ written = "asMeant"
  /\ AddKey(k) \/ Retire(k)
  /\ UNCHANGED <<stage, written>>

SwitchKey(w, k) ==
  /\ stage[w] = "down"
  /\ Activate(w, k)
  /\ UNCHANGED <<stage, written>>

Miswrite ==
  /\ written = "asMeant" /\ written' = "malformed"
  /\ UNCHANGED <<vars, stage>>

Repair ==
  /\ written = "malformed" /\ written' = "asMeant"
  /\ UNCHANGED <<vars, stage>>

StartupNext ==
  \/ \E w \in Workers : \/ BeginImport(w) \/ ResolveKeys(w) \/ FinishImport(w)
                        \/ ExitUnkeyed(w) \/ ExitKeyed(w)
  \/ \E k \in Kids : ChangeMap(k)
  \/ \E w \in Workers, k \in Kids :
       SwitchKey(w, k) \/ \E b \in Bands : ServeWrap(b, w, k)
  \/ Miswrite \/ Repair
  \/ Tick /\ UNCHANGED <<stage, written>>

StartupSpec == StartupInit /\ [][StartupNext]_startupVars

-----------------------------------------------------------------------------
(* The inductive invariant: a process has keys from their resolution to    *)
(* its end.                                                                *)
StartupInv ==
  /\ StartupTypeOK
  /\ \A w \in Workers : Running(w) <=> stage[w] \in {"keyed", "up"}
=============================================================================
