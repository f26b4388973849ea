---- MODULE Secrets ----
(***************************************************************************)
(* Secrets that can be had only once: the secret id that Vault hands out   *)
(* against a one-shot token (contrib/openstack/vaultlocker.py), and a      *)
(* password that StoredContext draws in the first hook and that services   *)
(* are rendered with (core/services/helpers.py).                           *)
(***************************************************************************)
EXTENDS Integers, FiniteSets, SequencesExt

CONSTANTS
  Vaults,        \* units of Vault, in the order they are looked at
  Remotes,       \* units of a RelationContext
  RequiredKeys,  \* what it requires of each
  Options,       \* values of an option of RequiredConfig
  DefaultOption, \* the one in config.yaml
  Blank,         \* those that are None or ''
  MaxChanges,    \* bound: changes by Vault, by remote units and by the operator
  MaxDrawn       \* bound: passwords drawn, other than those that are discarded

(***************************************************************************)
(* killed      the hook is killed where a secret is in memory only         *)
(* expired     a token expires before it is used                           *)
(* two_fresh   a second unit of Vault issues a token before the first one  *)
(*             is used                                                     *)
(* no_content  Vault answers neither with a secret nor with an error       *)
(* no_hvac     the client of Vault is not installed                        *)
(* other_charm another charm on the machine installs its vaultlocker.conf  *)
(*             with a higher priority                                      *)
(* elsewhere   hooks are also run from another directory                   *)
(***************************************************************************)
ScHazards == {"killed", "expired", "two_fresh", "no_content", "no_hvac", "other_charm", "elsewhere"}

VARIABLES
  scExposed,   \* the hazards of this unit; never changes
  secretOf,    \* which secret: "vault" or "stored"
  scChanges,
  token,       \* token[v]: the secret id it wraps, and if it is still good
  lastIssued,  \* the last secret id that Vault issued; 0 for none
  secret_id,   \* the one in the unit's kv
  held,        \* the secret that the running hook has in memory
  vaultConf,   \* the one in the charm's vaultlocker.conf
  vaultLink,   \* whose file /etc/vaultlocker/vaultlocker.conf is
  stored,      \* the file of StoredContext: NoFile, or 0 for an empty one
  drawn,       \* the last password drawn
  firstDrawn,  \* history: the first one that was handed out
  remoteKeys,  \* remoteKeys[r]: what the remote unit has set
  option,
  target,      \* what the template was last rendered with
  inService,   \* what the service runs with, Nothing when it is down
  scHook,      \* what the running hook does next, "idle" for no hook
  scDone       \* the last hook succeeded and nothing changed since

scVars == <<scExposed, secretOf, scChanges, token, lastIssued, secret_id, held, vaultConf, vaultLink,
            stored, drawn, firstDrawn, remoteKeys, option, target, inService, scHook, scDone>>
world == <<scExposed, secretOf, scChanges, lastIssued, remoteKeys, option>>
vaultSide == <<token, secret_id, vaultConf, vaultLink>>
storedSide == <<stored, drawn, firstDrawn, target, inService>>

NoFile == -1
Nothing == [password |-> 0, option |-> DefaultOption, units |-> {}]
Spared(hazards) == scExposed \cap hazards = {}
Goes(next) == scHook' = next /\ UNCHANGED scDone
Ends(success) == scHook' = "idle" /\ scDone' = success
-----------------------------------------------------------------------------
(***************************************************************************)
(* Vault.  A hook asks vault_relation_complete, which runs the context for *)
(* its verdict, runs the context again for its values, and writes them.    *)
(***************************************************************************)
Related == {v \in ToSet(Vaults) : token[v].wraps # 0}
Good == {i \in DOMAIN Vaults : token[Vaults[i]].good}
FirstGood == Vaults[Min(Good)]
Flushes == [context |-> "flush_context", write |-> "flush_write"]

\* The units before the first good token raise InvalidRequest: try next
retrieve_secret_id ==
  \/ /\ held' = token[FirstGood].wraps
     /\ token' = [token EXCEPT ![FirstGood].good = FALSE]
  \/ "no_content" \in scExposed /\ held' = 0 /\ UNCHANGED token

\* VaultKVContext.__call__: then is after a new secret, and without one after
\* the known one
VaultKVContext_KnownFirst(then) ==
  IF secret_id # 0
  THEN held' = secret_id /\ UNCHANGED token /\ Goes(then)
  ELSE IF Good # {}
  THEN retrieve_secret_id /\ Goes(Flushes[then])
  ELSE UNCHANGED <<token, held>> /\ Ends(TRUE)

VaultKVContext(then) ==
  IF Good # {}
  THEN retrieve_secret_id /\ Goes(Flushes[then])
  ELSE IF Related # {} /\ secret_id # 0
  THEN held' = secret_id /\ UNCHANGED token /\ Goes(then)
  ELSE UNCHANGED <<token, held>> /\ Ends(TRUE)

vault_relation_complete ==
  /\ secretOf = "vault" /\ scHook = "idle"
  /\ IF "no_hvac" \in scExposed
     THEN UNCHANGED <<token, held>> /\ Ends(TRUE)
     ELSE VaultKVContext("context")
  /\ UNCHANGED <<secret_id, vaultConf, vaultLink, storedSide, world>>

GetContext ==
  /\ scHook = "context"
  /\ VaultKVContext("write")
  /\ UNCHANGED <<secret_id, vaultConf, vaultLink, storedSide, world>>

\* db.set and db.flush, outside the transaction of the hook
FlushSecret ==
  \E then \in DOMAIN Flushes :
    /\ scHook = Flushes[then]
    /\ secret_id' = held
    /\ Goes(then)
    /\ UNCHANGED <<token, held, vaultConf, vaultLink, storedSide, world>>

write_vaultlocker_conf ==
  /\ scHook = "write"
  /\ vaultConf' = held
  /\ Goes("install")
  /\ UNCHANGED <<token, secret_id, held, vaultLink, storedSide, world>>

\* A file of the package is moved away; alternatives link the first by priority
install_alternative ==
  /\ scHook = "install"
  /\ vaultLink' = IF "other_charm" \in scExposed THEN "other" ELSE "charm"
  /\ Ends(TRUE)
  /\ UNCHANGED <<token, secret_id, held, vaultConf, storedSide, world>>
-----------------------------------------------------------------------------
(***************************************************************************)
(* A service whose required data are a StoredContext, a RelationContext    *)
(* and a RequiredConfig.  Its data_ready is a TemplateCallback that        *)
(* restarts it on a change, its start only starts it.                      *)
(***************************************************************************)
RequiredConfig_bool ==
  option # DefaultOption /\ ~(option \in Blank /\ DefaultOption \in Blank)
get_data == {r \in Remotes : RequiredKeys \subseteq remoteKeys[r]}
is_ready == get_data # {} /\ RequiredConfig_bool

\* Every hook draws a password, and drops it when there is one on file;
\* exists() looks for a relative name below the directory of the process
StoredContext_init ==
  /\ secretOf = "stored" /\ scHook = "idle"
  /\ \/ /\ stored = NoFile \/ ("elsewhere" \in scExposed /\ drawn < MaxDrawn)
        /\ drawn' = drawn + 1
        /\ stored' = 0 /\ held' = drawn'
        /\ Goes("store")
     \/ /\ stored # NoFile
        /\ held' = stored /\ UNCHANGED <<stored, drawn>>
        /\ IF stored = 0 THEN Ends(FALSE) ELSE Goes("reconfigure")
  /\ UNCHANGED <<firstDrawn, target, inService, vaultSide, world>>

store_context ==
  /\ scHook = "store"
  /\ stored' = held
  /\ Goes("reconfigure")
  /\ UNCHANGED <<held, drawn, firstDrawn, target, inService, vaultSide, world>>

TemplateCallback ==
  /\ scHook = "reconfigure" /\ is_ready
  /\ target' = [password |-> held, option |-> option, units |-> get_data]
  /\ firstDrawn' = IF firstDrawn = 0 THEN held ELSE firstDrawn
  /\ Goes(IF target' = target THEN "start" ELSE "restart")
  /\ UNCHANGED <<held, stored, drawn, inService, vaultSide, world>>

StopsService ==
  /\ scHook = "reconfigure" /\ ~is_ready
  /\ inService' = Nothing
  /\ Ends(TRUE)
  /\ UNCHANGED <<held, stored, drawn, firstDrawn, target, vaultSide, world>>

on_change_action ==
  /\ scHook = "restart"
  /\ inService' = target
  /\ Goes("start")
  /\ UNCHANGED <<held, stored, drawn, firstDrawn, target, vaultSide, world>>

StartsService ==
  /\ scHook = "start"
  /\ inService' = IF inService = Nothing THEN target ELSE inService
  /\ Ends(TRUE)
  /\ UNCHANGED <<held, stored, drawn, firstDrawn, target, vaultSide, world>>
-----------------------------------------------------------------------------
\* A hook fails, or is killed, between two steps
InMemory == {"flush_context", "flush_write", "store", "restart"}
ScFails ==
  /\ scHook # "idle" /\ (scHook \in InMemory => "killed" \in scExposed)
  /\ Ends(FALSE)
  /\ UNCHANGED <<held, vaultSide, storedSide, world>>

Changes(of) ==
  /\ secretOf = of /\ scHook = "idle" /\ scChanges < MaxChanges
  /\ scChanges' = scChanges + 1
  /\ Ends(FALSE)
  /\ UNCHANGED <<scExposed, secretOf, held, secret_id, vaultConf, vaultLink, storedSide>>

Issue(v) ==
  /\ Changes("vault")
  /\ Good = {} \/ {Vaults[i] : i \in Good} = {v} \/ "two_fresh" \in scExposed
  /\ lastIssued' = lastIssued + 1
  /\ token' = [token EXCEPT ![v] = [wraps |-> lastIssued + 1, good |-> TRUE]]
  /\ UNCHANGED <<remoteKeys, option>>

Expire(v) ==
  /\ Changes("vault") /\ "expired" \in scExposed /\ token[v].good
  /\ token' = [token EXCEPT ![v].good = FALSE]
  /\ UNCHANGED <<lastIssued, remoteKeys, option>>

RemoteSets(r, key) ==
  /\ Changes("stored")
  /\ remoteKeys' = [remoteKeys EXCEPT ![r] = SymDiff(@, {key})]
  /\ UNCHANGED <<lastIssued, token, option>>

SetOption(value) ==
  /\ Changes("stored") /\ value # option
  /\ option' = value
  /\ UNCHANGED <<lastIssued, token, remoteKeys>>

ScInit ==
  /\ scExposed \in {{}} \cup {{h} : h \in ScHazards}
  /\ secretOf \in {"vault", "stored"}
  /\ scChanges = 0
  /\ token = [v \in ToSet(Vaults) |-> [wraps |-> 0, good |-> FALSE]]
  /\ lastIssued = 0 /\ secret_id = 0 /\ held = 0 /\ vaultConf = 0 /\ vaultLink = "package"
  /\ stored = NoFile /\ drawn = 0 /\ firstDrawn = 0
  /\ remoteKeys = [r \in Remotes |-> {}]
  /\ option = DefaultOption
  /\ target = Nothing /\ inService = Nothing
  /\ scHook = "idle" /\ scDone = FALSE

ScNext ==
  \/ vault_relation_complete \/ GetContext \/ FlushSecret \/ write_vaultlocker_conf
  \/ install_alternative
  \/ StoredContext_init \/ store_context \/ TemplateCallback \/ StopsService
  \/ on_change_action \/ StartsService
  \/ ScFails
  \/ \E v \in ToSet(Vaults) : Issue(v) \/ Expire(v)
  \/ \E r \in Remotes, key \in RequiredKeys : RemoteSets(r, key)
  \/ \E value \in Options : SetOption(value)

ScSpec == ScInit /\ [][ScNext]_scVars
-----------------------------------------------------------------------------
\* After a hook that succeeded vaultlocker is configured with the secret id
\* that Vault issued last, though its token is good for one call only and
\* hooks fail; and a service has the password that was drawn first, with the
\* present data of the relation and the configuration.
SecretsKept ==
  /\ (secretOf = "vault" /\ scDone /\ lastIssued # 0
       /\ Spared({"killed", "expired", "two_fresh", "no_content", "no_hvac", "other_charm"})) =>
         vaultLink = "charm" /\ vaultConf = lastIssued
  /\ (secretOf = "stored" /\ scDone /\ Spared({"killed", "elsewhere"})) =>
         inService = IF is_ready
                  THEN [password |-> firstDrawn, option |-> option, units |-> get_data]
                  ELSE Nothing
====
