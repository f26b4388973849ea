---- MODULE UnitKv ----
(***************************************************************************)
(* The unit's key-value database with revisions (core/unitdata.py): one    *)
(* transaction per hook, in which keys are set, updated and removed; with  *)
(* keep_revisions every change is also a row of kv_revisions, keyed by the *)
(* key and the hook.                                                       *)
(***************************************************************************)
EXTENDS Integers, FiniteSets, SequencesExt

CONSTANTS
  Keys,        \* keys charms store
  Values,      \* values they store
  Like,        \* Like[p]: the keys that match the pattern p%
  MaxHooks     \* bound: hooks that are run

(***************************************************************************)
(* by_prefix      charms remove keys by a prefix alone                     *)
(* outside_scope  charms change keys without hook_scope, and flush         *)
(***************************************************************************)
KvHazards == {"by_prefix", "outside_scope"}

VARIABLES
  kvExposed,  \* the hazards of this charm; never changes
  kvDisk,     \* the committed tables: [data, revs, hooks]
  kvWork,     \* the tables as the running transaction sees them
  revision    \* self.revision, 0 for none

kvVars == <<kvExposed, kvDisk, kvWork, revision>>

Spared(hazards) == kvExposed \cap hazards = {}
Without(f, keys) == [k \in DOMAIN f \ keys |-> f[k]]
With(f, keys, value) == [k \in DOMAIN f \cup keys |-> IF k \in keys THEN value ELSE f[k]]
Deleted == "DELETED"

\* `self.keep_revisions and self.revision': rows for these keys, whose value
\* is one for all; a second row for a key and revision is an IntegrityError
Conflict(keys) == revision # 0 /\ \E k \in keys : <<k, revision>> \in DOMAIN kvWork.revs
Recorded(revs, keys, value) ==
  IF revision = 0 THEN revs ELSE With(revs, keys \X {revision}, value)
-----------------------------------------------------------------------------
KvInit ==
  /\ kvExposed \in SUBSET KvHazards
  /\ kvDisk = [data |-> << >>, revs |-> << >>, hooks |-> 0]
  /\ kvWork = kvDisk
  /\ revision = 0

\* An exception in hook_scope, or the end of the process: rolled back
Rollback == kvWork' = kvDisk /\ revision' = 0 /\ UNCHANGED <<kvExposed, kvDisk>>

HookScope ==
  /\ revision = 0 /\ kvWork = kvDisk
  /\ kvWork.hooks < MaxHooks
  /\ kvWork' = [kvWork EXCEPT !.hooks = @ + 1]
  /\ revision' = kvWork.hooks + 1
  /\ UNCHANGED <<kvExposed, kvDisk>>

MayChange == revision # 0 \/ "outside_scope" \in kvExposed

\* set skips a mutation to the same value, and replaces the row of this
\* revision if there is one
set_NoUpdate(key, value) ==
  /\ MayChange
  /\ kvWork' = IF key \in DOMAIN kvWork.data /\ kvWork.data[key] = value THEN kvWork
               ELSE [kvWork EXCEPT !.data = With(@, {key}, value),
                                   !.revs = @ @@ Recorded(@, {key}, value)]
  /\ UNCHANGED <<kvExposed, kvDisk, revision>>

set(key, value) ==
  /\ MayChange
  /\ kvWork' = IF key \in DOMAIN kvWork.data /\ kvWork.data[key] = value THEN kvWork
               ELSE [kvWork EXCEPT !.data = With(@, {key}, value),
                                   !.revs = Recorded(@, {key}, value)]
  /\ UNCHANGED <<kvExposed, kvDisk, revision>>

\* unset(key) and unsetrange(keys, prefix): rows for all keys if any was there
unset(keys) ==
  /\ MayChange
  /\ IF keys \cap DOMAIN kvWork.data = {} THEN UNCHANGED kvVars
     ELSE IF Conflict(keys) THEN Rollback
     ELSE /\ kvWork' = [kvWork EXCEPT !.data = Without(@, keys),
                                      !.revs = Recorded(@, keys, Deleted)]
          /\ UNCHANGED <<kvExposed, kvDisk, revision>>

\* unsetrange(prefix=...): one row, for the pattern itself
unsetrange(prefix) ==
  /\ "by_prefix" \in kvExposed
  /\ MayChange
  /\ IF Like[prefix] \cap DOMAIN kvWork.data = {} THEN UNCHANGED kvVars
     ELSE IF Conflict({prefix}) THEN Rollback
     ELSE /\ kvWork' = [kvWork EXCEPT !.data = Without(@, Like[prefix]),
                                      !.revs = Recorded(@, {prefix}, Deleted)]
          /\ UNCHANGED <<kvExposed, kvDisk, revision>>

\* flush(), by the charm in the middle of a hook or by hook_scope at its end
flush ==
  /\ MayChange
  /\ kvDisk' = kvWork
  /\ UNCHANGED <<kvExposed, kvWork, revision>>

EndScope ==
  /\ revision # 0
  /\ kvDisk' = kvWork /\ revision' = 0
  /\ UNCHANGED <<kvExposed, kvWork>>

Raise == (revision # 0 \/ kvWork # kvDisk) /\ Rollback

KvNext ==
  \/ HookScope \/ flush \/ EndScope \/ Raise
  \/ \E key \in Keys, value \in Values : set(key, value)
  \/ \E keys \in SUBSET Keys \ {{}} : unset(keys)
  \/ \E prefix \in DOMAIN Like : unsetrange(prefix)

KvSpec == KvInit /\ [][KvNext]_kvVars
-----------------------------------------------------------------------------
(***************************************************************************)
(* Reading.                                                                *)
(***************************************************************************)
gethistory(tables, key) == {r \in DOMAIN tables.revs : r[1] = key /\ r[2] \in 1..tables.hooks}
-----------------------------------------------------------------------------
(***************************************************************************)
(* Properties.                                                             *)
(***************************************************************************)
\* The history tells the database: the latest row of a key says what its
\* value is, through hooks that fail, flush half way or change a key twice,
\* unless keys are removed by prefix or outside of a hook.
HistoryTrue ==
  Spared(KvHazards) =>
  \A key \in Keys :
    LET rows == gethistory(kvDisk, key)
        last == CHOOSE r \in rows : \A q \in rows : q[2] <= r[2]
        said == IF rows = {} THEN Deleted ELSE kvDisk.revs[last]
    IN  IF key \in DOMAIN kvDisk.data THEN said = kvDisk.data[key] ELSE said = Deleted
====
