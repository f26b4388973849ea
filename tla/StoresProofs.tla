---------------------------- MODULE StoresProofs ----------------------------
(* Theorems about what units store and read again, for any values of the    *)
(* constants of Stores.                                                     *)
EXTENDS Stores, SequenceTheorems, WellFoundedInduction, TLAPS
-----------------------------------------------------------------------------
(***************************************************************************)
(* A behaviour of Stores is one of the part that it is of.                 *)
(***************************************************************************)
LEMMA Starts ==
  StoresInit => /\ (part = "kv" => Kv!KvInit)
                /\ (part = "tools" => Tools!ToolInit)
                /\ (part = "peer" => Peer!PeerInit)
                /\ (part = "secrets" => Secrets!ScInit)
                /\ (part = "policy" => Policy!PoInit)
                /\ (part = "mysql" => MySQL!DbInit)
                /\ (part = "pools" => Pools!PoolInit)
BY DEF StoresInit

LEMMA Steps ==
  [StoresNext]_storesVars => /\ part' = part
                             /\ (part = "kv" => [Kv!KvNext]_Kv!kvVars)
                             /\ (part = "tools" => [Tools!ToolNext]_Tools!toolVars)
                             /\ (part = "peer" => [Peer!PeerNext]_Peer!peerVars)
                             /\ (part = "secrets" => [Secrets!ScNext]_Secrets!scVars)
                             /\ (part = "policy" => [Policy!PoNext]_Policy!poVars)
                             /\ (part = "mysql" => [MySQL!DbNext]_MySQL!dbVars)
                             /\ (part = "pools" => [Pools!PoolNext]_Pools!poolVars)
<1>1. CASE UNCHANGED storesVars
  BY <1>1 DEF storesVars, kvV, toolsV, peerV, secretsV, policyV, mysqlV, poolsV, Kv!kvVars, Tools!toolVars, Peer!peerVars,
     Secrets!scVars, Policy!poVars, MySQL!dbVars, Pools!poolVars
<1>2. CASE StoresNext
  BY <1>2 DEF StoresNext
<1> QED  BY <1>1, <1>2
-----------------------------------------------------------------------------
(***************************************************************************)
(* UnitKv.  The latest row of a key, if there is one, tells its value, and *)
(* rows are of hooks that have begun, so that one of this hook is latest.  *)
(***************************************************************************)
Rows(T, key) == {r \in DOMAIN T.revs : r[1] = key}

Latest(T, key, last) == last \in Rows(T, key) /\ \A q \in Rows(T, key) : q[2] <= last[2]

Tells(T, key) ==
  IF Rows(T, key) = {} THEN key \notin DOMAIN T.data
  ELSE \E last \in Rows(T, key) :
         /\ Latest(T, key, last)
         /\ T.revs[last] = IF key \in DOMAIN T.data THEN T.data[key] ELSE Kv!Deleted

Tables(T) ==
  /\ T = [data |-> T.data, revs |-> T.revs, hooks |-> T.hooks]
  /\ T.hooks \in Nat
  /\ DOMAIN T.revs \subseteq Keys \X (1..T.hooks)
  /\ \A key \in Keys : Tells(T, key)

KvInv ==
  Kv!Spared(Kv!KvHazards) =>
    /\ Tables(kvDisk) /\ Tables(kvWork)
    /\ IF revision = 0 THEN kvWork = kvDisk ELSE revision = kvWork.hooks

LEMMA KvInvInit == Kv!KvInit => KvInv
<1> SUFFICES ASSUME Kv!KvInit PROVE KvInv
  OBVIOUS
<1>1. /\ kvDisk = [data |-> << >>, revs |-> << >>, hooks |-> 0] /\ kvWork = kvDisk /\ revision = 0
      /\ DOMAIN kvDisk.revs = {} /\ DOMAIN kvDisk.data = {}
  BY DEF Kv!KvInit
<1>2. \A key \in Keys : Tells(kvDisk, key)
  BY <1>1 DEF Tells, Rows
<1> QED  BY <1>1, <1>2 DEF KvInv, Tables

(* A change of some keys in a hook, with a row for each of them. *)
Changes(T, T2, keys, value) ==
  /\ keys \subseteq Keys /\ T.hooks # 0
  /\ T2 = [data |-> T2.data, revs |-> T2.revs, hooks |-> T2.hooks] /\ T2.hooks = T.hooks
  /\ T2.revs = Kv!With(T.revs, keys \X {T.hooks}, value)
  /\ \A key \in keys : value = IF key \in DOMAIN T2.data THEN T2.data[key] ELSE Kv!Deleted
  /\ \A key \in Keys \ keys : /\ key \in DOMAIN T2.data <=> key \in DOMAIN T.data
                              /\ key \in DOMAIN T2.data => T2.data[key] = T.data[key]

LEMMA ChangeTold ==
  ASSUME NEW T, NEW T2, NEW keys, NEW value, Tables(T), Changes(T, T2, keys, value)
  PROVE  Tables(T2)
<1> DEFINE new == keys \X {T.hooks}
<1>1. T2.revs = [r \in DOMAIN T.revs \union new |-> IF r \in new THEN value ELSE T.revs[r]]
  BY DEF Changes, Kv!With
<1>2. T2.hooks = T.hooks /\ T.hooks # 0 /\ keys \subseteq Keys
  BY DEF Changes
<1>3. DOMAIN T2.revs = DOMAIN T.revs \union new
  BY <1>1
<1>4. \A r \in new : r[1] \in keys /\ r[2] = T.hooks /\ r = <<r[1], T.hooks>>
  OBVIOUS
<1>5. \A key \in keys : <<key, T.hooks>> \in new
  OBVIOUS
<1>6. \A r \in DOMAIN T.revs : r[1] \in Keys /\ r[2] \in 1..T.hooks
  BY DEF Tables
<1>7. DOMAIN T2.revs \subseteq Keys \X (1..T2.hooks)
  BY <1>2, <1>3 DEF Tables
<1> HIDE DEF new
<1>8. ASSUME NEW key \in keys PROVE Tells(T2, key)
  <2> DEFINE last == <<key, T.hooks>>
  <2>1. last \in Rows(T2, key)
    BY <1>3, <1>5 DEF Rows
  <2>2. \A q \in Rows(T2, key) : q[2] <= last[2]
    BY <1>2, <1>3, <1>4, <1>6 DEF Rows, Tables
  <2>3. T2.revs[last] = value
    BY <1>1, <1>3, <1>5
  <2>4. value = IF key \in DOMAIN T2.data THEN T2.data[key] ELSE Kv!Deleted
    BY DEF Changes
  <2> QED  BY <2>1, <2>2, <2>3, <2>4 DEF Tells, Latest
<1>9. ASSUME NEW key \in Keys \ keys PROVE Tells(T2, key)
  <2>1. Rows(T2, key) = Rows(T, key)
    BY <1>3, <1>4 DEF Rows
  <2>2. \A r \in Rows(T, key) : T2.revs[r] = T.revs[r]
    BY <1>1, <1>3, <1>4 DEF Rows
  <2>3. Tells(T, key)
    BY DEF Tables
  <2> QED  BY <2>1, <2>2, <2>3 DEF Tells, Latest, Changes
<1> QED  BY <1>2, <1>7, <1>8, <1>9 DEF Tables, Changes

LEMMA KvInvStep == KvInv /\ [Kv!KvNext]_Kv!kvVars => KvInv'
<1> SUFFICES ASSUME KvInv, [Kv!KvNext]_Kv!kvVars, Kv!Spared(Kv!KvHazards)'
             PROVE  /\ Tables(kvDisk') /\ Tables(kvWork')
                    /\ IF revision' = 0 THEN kvWork' = kvDisk' ELSE revision' = kvWork'.hooks
  BY DEF KvInv, Tables, Tells, Rows, Latest
<1>1. UNCHANGED kvExposed
  BY DEF Kv!KvNext, Kv!kvVars, Kv!HookScope, Kv!flush, Kv!EndScope, Kv!Raise, Kv!Rollback, Kv!set, Kv!unset,
     Kv!unsetrange
<1>2. /\ Tables(kvDisk) /\ Tables(kvWork) /\ kvExposed \intersect Kv!KvHazards = {}
      /\ IF revision = 0 THEN kvWork = kvDisk ELSE revision = kvWork.hooks
  BY <1>1 DEF KvInv, Kv!Spared
<1>3. Kv!MayChange => revision # 0
  BY <1>2 DEF Kv!MayChange, Kv!KvHazards
<1>4. CASE UNCHANGED Kv!kvVars
  BY <1>2, <1>4 DEF Kv!kvVars
<1>5. CASE Kv!HookScope
  <2>1. /\ kvDisk' = kvDisk /\ kvWork' = [kvWork EXCEPT !.hooks = @ + 1] /\ revision' = kvWork.hooks + 1
    BY <1>5 DEF Kv!HookScope
  <2>2. /\ kvWork' = [data |-> kvWork.data, revs |-> kvWork.revs, hooks |-> kvWork.hooks + 1]
        /\ kvWork.hooks \in Nat /\ DOMAIN kvWork.revs \subseteq Keys \X (1..kvWork.hooks)
    BY <1>2, <2>1 DEF Tables
  <2>3. kvWork'.data = kvWork.data /\ kvWork'.revs = kvWork.revs /\ kvWork'.hooks = kvWork.hooks + 1
    BY <2>2
  <2>4. DOMAIN kvWork'.revs \subseteq Keys \X (1..kvWork'.hooks)
    BY <2>2, <2>3
  <2>5. ASSUME NEW key \in Keys PROVE Tells(kvWork', key)
    BY <1>2, <2>3 DEF Tables, Tells, Rows, Latest
  <2> QED  BY <1>2, <2>1, <2>2, <2>3, <2>4, <2>5 DEF Tables
<1>6. ASSUME NEW key \in Keys, NEW value \in Values, Kv!set(key, value)
      PROVE  /\ Tables(kvDisk') /\ Tables(kvWork')
             /\ IF revision' = 0 THEN kvWork' = kvDisk' ELSE revision' = kvWork'.hooks
  <2>1. revision # 0 /\ UNCHANGED <<kvDisk, revision>>
    BY <1>3, <1>6 DEF Kv!set
  <2>2. CASE UNCHANGED kvWork
    BY <1>2, <2>1, <2>2
  <2>3. CASE kvWork' # kvWork
    <3>1. kvWork' = [kvWork EXCEPT !.data = Kv!With(@, {key}, value),
                                   !.revs = Kv!With(@, {key} \X {revision}, value)]
      BY <1>6, <2>1, <2>3 DEF Kv!set, Kv!Recorded
    <3>2. /\ kvWork' = [data |-> kvWork'.data, revs |-> kvWork'.revs, hooks |-> kvWork'.hooks]
          /\ kvWork'.hooks = kvWork.hooks /\ kvWork'.data = Kv!With(kvWork.data, {key}, value)
          /\ kvWork'.revs = Kv!With(kvWork.revs, {key} \X {kvWork.hooks}, value)
      BY <1>2, <2>1, <3>1 DEF Tables
    <3>3. Changes(kvWork, kvWork', {key}, value)
      BY <1>2, <2>1, <3>2 DEF Changes, Kv!With
    <3> QED  BY <1>2, <2>1, <3>2, <3>3, ChangeTold
  <2> QED  BY <2>2, <2>3
<1>7. ASSUME NEW keys \in SUBSET Keys, Kv!unset(keys)
      PROVE  /\ Tables(kvDisk') /\ Tables(kvWork')
             /\ IF revision' = 0 THEN kvWork' = kvDisk' ELSE revision' = kvWork'.hooks
  <2>1. revision # 0
    BY <1>3, <1>7 DEF Kv!unset
  <2>2. CASE UNCHANGED Kv!kvVars
    BY <1>2, <2>2 DEF Kv!kvVars
  <2>3. CASE Kv!Rollback
    BY <1>2, <2>3 DEF Kv!Rollback
  <2>4. CASE ~UNCHANGED Kv!kvVars /\ ~Kv!Rollback
    <3>1. /\ kvWork' = [kvWork EXCEPT !.data = Kv!Without(@, keys),
                                      !.revs = Kv!With(@, keys \X {revision}, Kv!Deleted)]
          /\ UNCHANGED <<kvDisk, revision>>
      BY <1>7, <2>1, <2>4 DEF Kv!unset, Kv!Recorded
    <3>2. /\ kvWork' = [data |-> kvWork'.data, revs |-> kvWork'.revs, hooks |-> kvWork'.hooks]
          /\ kvWork'.hooks = kvWork.hooks /\ kvWork'.data = Kv!Without(kvWork.data, keys)
          /\ kvWork'.revs = Kv!With(kvWork.revs, keys \X {kvWork.hooks}, Kv!Deleted)
      BY <1>2, <2>1, <3>1 DEF Tables
    <3>3. Changes(kvWork, kvWork', keys, Kv!Deleted)
      BY <1>2, <2>1, <3>2 DEF Changes, Kv!Without
    <3> QED  BY <1>2, <2>1, <3>1, <3>2, <3>3, ChangeTold
  <2> QED  BY <2>2, <2>3, <2>4
<1>8. ~\E prefix \in DOMAIN Like : Kv!unsetrange(prefix)
  BY <1>2 DEF Kv!unsetrange, Kv!KvHazards
<1>9. CASE Kv!flush \/ Kv!EndScope
  BY <1>2, <1>9 DEF Kv!flush, Kv!EndScope
<1>10. CASE Kv!Raise
  BY <1>2, <1>10 DEF Kv!Raise, Kv!Rollback
<1> QED  BY <1>4, <1>5, <1>6, <1>7, <1>8, <1>9, <1>10 DEF Kv!KvNext

(* What kv_revisions says last of a key is what the database has, through   *)
(* hooks that fail, flush half way and change a key twice, for any keys.    *)
THEOREM HistoryTells == StoresSpec => []HistoryTrue
<1>1. KvInv => Kv!HistoryTrue
  <2> SUFFICES ASSUME KvInv, Kv!Spared(Kv!KvHazards), NEW key \in Keys
               PROVE  LET rows == Kv!gethistory(kvDisk, key)
                          last == CHOOSE r \in rows : \A q \in rows : q[2] <= r[2]
                          said == IF rows = {} THEN Kv!Deleted ELSE kvDisk.revs[last]
                      IN  IF key \in DOMAIN kvDisk.data THEN said = kvDisk.data[key] ELSE said = Kv!Deleted
    BY DEF Kv!HistoryTrue
  <2> DEFINE rows == Kv!gethistory(kvDisk, key)
             last == CHOOSE r \in rows : \A q \in rows : q[2] <= r[2]
  <2>1. /\ Tells(kvDisk, key) /\ kvDisk.hooks \in Nat
        /\ DOMAIN kvDisk.revs \subseteq Keys \X (1..kvDisk.hooks)
    BY DEF KvInv, Tables
  <2>2. \A r \in DOMAIN kvDisk.revs : r[2] \in 1..kvDisk.hooks /\ r = <<r[1], r[2]>>
    BY <2>1
  <2>3. rows = Rows(kvDisk, key)
    BY <2>2 DEF Kv!gethistory, Rows
  <2>4. CASE rows = {}
    BY <2>1, <2>3, <2>4 DEF Tells
  <2>5. CASE rows # {}
    <3>1. PICK r \in rows : /\ \A q \in rows : q[2] <= r[2]
                            /\ kvDisk.revs[r] = IF key \in DOMAIN kvDisk.data THEN kvDisk.data[key]
                                                ELSE Kv!Deleted
      BY <2>1, <2>3, <2>5 DEF Tells, Latest
    <3>2. last \in rows /\ \A q \in rows : q[2] <= last[2]
      BY <3>1
    <3>3. last[2] = r[2]
      <4>1. last[2] <= r[2] /\ r[2] <= last[2] /\ last[2] \in Int /\ r[2] \in Int
        BY <2>1, <2>2, <2>3, <3>1, <3>2 DEF Rows
      <4> QED  BY <4>1
    <3>4. last = r
      BY <2>2, <2>3, <3>2, <3>3 DEF Rows
    <3> QED  BY <2>5, <3>1, <3>4
  <2> QED  BY <2>4, <2>5
<1>2. StoresInit => (part = "kv" => KvInv)
  BY Starts, KvInvInit
<1>3. (part = "kv" => KvInv) /\ [StoresNext]_storesVars => (part = "kv" => KvInv)'
  BY Steps, KvInvStep
<1> QED  BY <1>1, <1>2, <1>3, PTL DEF StoresSpec, HistoryTrue
-----------------------------------------------------------------------------
(***************************************************************************)
(* HookTools.  What is in the cache is what the tool says, also after the  *)
(* hook, when nobody reads it any more.                                    *)
(***************************************************************************)
Stale(call) ==
  \/ call = <<"relation_get", "app">> /\ "app_data" \in toolExposed
  \/ call = <<"relations">> /\ "all_relations" \in toolExposed
  \/ call = <<"relation_get", "other">> /\ "for_unit" \in toolExposed

ToolInv ==
  /\ bags = [o \in Tools!Owners |-> bags[o]]
  /\ DOMAIN cache \subseteq Tools!Calls
  /\ \A call \in DOMAIN cache : cache[call] = Tools!Result(call) \/ Stale(call)
  /\ <<"relations">> \in DOMAIN cache => "all_relations" \in toolExposed

LEMMA ToolInvInit == Tools!ToolInit => ToolInv
BY DEF Tools!ToolInit, ToolInv, Tools!Owners

(* What depends on the unit's own settings names it, but for relations(). *)
LEMMA FlushKeeps ==
  ASSUME ToolInv, bags' = [o \in Tools!Owners |-> bags'[o]], bags'["app"] = bags["app"],
         bags'["other"] = bags["other"], cache' = Tools!flush("me"), UNCHANGED toolExposed
  PROVE  ToolInv'
<1>1. /\ DOMAIN cache' = {d \in DOMAIN cache : "me" \notin Tools!Range(d)}
      /\ \A c \in DOMAIN cache' : cache'[c] = cache[c]
  BY DEF Tools!flush
<1>2. <<"relation_get", "me">> \notin DOMAIN cache'
  BY <1>1 DEF Tools!Range
<1>3. ASSUME NEW call \in DOMAIN cache' PROVE cache'[call] = Tools!Result(call)' \/ Stale(call)'
  <2>1. call \in Tools!Calls /\ cache'[call] = cache[call] /\ (Stale(call) => Stale(call)')
    BY <1>1 DEF ToolInv, Stale
  <2>2. CASE call = <<"relations">>
    BY <1>1, <2>2 DEF ToolInv, Stale
  <2>3. CASE \E k \in Settings : call = <<"is_relation_made", k>>
    BY <1>1, <2>1, <2>3 DEF ToolInv, Tools!Result, Tools!relation_made
  <2>4. CASE \E o \in Tools!Owners : call = <<"relation_get", o>>
    <3>1. PICK o \in Tools!Owners : call = <<"relation_get", o>>
      BY <2>4
    <3>2. bags'[o] = bags[o]
      BY <1>2, <3>1 DEF Tools!Owners
    <3>3. /\ Tools!Result(call) = [x \in {o} |-> bags[o]]
          /\ Tools!Result(call)' = [x \in {o} |-> bags'[o]]
      BY <3>1 DEF Tools!Result
    <3> QED  BY <1>1, <2>1, <3>2, <3>3 DEF ToolInv
  <2> QED  BY <2>1, <2>2, <2>3, <2>4 DEF Tools!Calls
<1> QED  BY <1>1, <1>3 DEF ToolInv

LEMMA ToolInvStep == ToolInv /\ [Tools!ToolNext]_Tools!toolVars => ToolInv'
<1> SUFFICES ASSUME ToolInv, [Tools!ToolNext]_Tools!toolVars PROVE ToolInv'
  OBVIOUS
<1>1. CASE UNCHANGED Tools!toolVars
  <2>1. UNCHANGED <<toolExposed, bags, cache>>
    BY <1>1 DEF Tools!toolVars
  <2> QED  BY <2>1 DEF ToolInv, Stale, Tools!Result, Tools!relations, Tools!relation_made
<1>2. CASE Tools!StartHook
  BY <1>2 DEF Tools!StartHook, Tools!Owners, ToolInv
<1>3. ASSUME NEW ended \in BOOLEAN, Tools!EndHook(ended) PROVE ToolInv'
  BY <1>3 DEF Tools!EndHook, ToolInv, Stale, Tools!Result, Tools!relations, Tools!relation_made
<1>4. ASSUME NEW call \in Tools!Calls, Tools!Read(call) PROVE ToolInv'
  <2>1. UNCHANGED <<toolExposed, bags>> /\ (call = <<"relations">> => "all_relations" \in toolExposed)
    BY <1>4 DEF Tools!Read
  <2>2. /\ DOMAIN cache' \subseteq DOMAIN cache \union {call}
        /\ \A c \in DOMAIN cache' : (c \in DOMAIN cache /\ cache'[c] = cache[c]) \/ cache'[c] = Tools!Result(c)
    BY <1>4 DEF Tools!Read, Tools!cached, Tools!With
  <2>3. \A c : Tools!Result(c)' = Tools!Result(c)
    BY <2>1 DEF Tools!Result, Tools!relations, Tools!relation_made
  <2> QED  BY <2>1, <2>2, <2>3 DEF ToolInv, Stale
<1>5. CASE Tools!relation_for_unit
  <2> DEFINE other == <<"relation_get", "other">>
  <2>1. UNCHANGED <<toolExposed, bags>> /\ "for_unit" \in toolExposed
    BY <1>5 DEF Tools!relation_for_unit
  <2>2. /\ DOMAIN cache' \subseteq DOMAIN cache \union {other}
        /\ \A c \in DOMAIN cache' : (c \in DOMAIN cache /\ cache'[c] = cache[c]) \/ c = other
    BY <1>5 DEF Tools!relation_for_unit, Tools!cached, Tools!With
  <2>3. \A c : Tools!Result(c)' = Tools!Result(c)
    BY <2>1 DEF Tools!Result, Tools!relations, Tools!relation_made
  <2>4. other \in Tools!Calls /\ other # <<"relations">>
    BY DEF Tools!Calls, Tools!Owners
  <2> QED  BY <2>1, <2>2, <2>3, <2>4 DEF ToolInv, Stale
<1>6. ASSUME NEW owner \in Tools!Own, NEW key \in Settings, NEW value \in Contents,
             Tools!relation_set(owner, key, value)
      PROVE  ToolInv'
  <2>1. /\ bags' = [bags EXCEPT ![owner] = Tools!With(@, key, value)] /\ cache' = Tools!flush("me")
        /\ UNCHANGED toolExposed /\ (owner = "app" => "app_data" \in toolExposed)
    BY <1>6 DEF Tools!relation_set
  <2>2. bags' = [o \in Tools!Owners |-> bags'[o]] /\ bags'["other"] = bags["other"]
    BY <2>1 DEF ToolInv, Tools!Owners, Tools!Own
  <2>3. CASE owner = "me"
    BY <2>1, <2>2, <2>3, FlushKeeps DEF ToolInv, Tools!Owners
  <2>4. CASE owner = "app"
    <3>1. "app_data" \in toolExposed /\ bags'["me"] = bags["me"]
      BY <2>1, <2>4 DEF ToolInv, Tools!Owners
    <3>2. /\ DOMAIN cache' \subseteq DOMAIN cache
          /\ \A c \in DOMAIN cache' : cache'[c] = cache[c]
      BY <2>1 DEF Tools!flush
    <3>3. ASSUME NEW call \in DOMAIN cache' PROVE cache'[call] = Tools!Result(call)' \/ Stale(call)'
      <4>1. call \in Tools!Calls /\ cache'[call] = cache[call] /\ (Stale(call) => Stale(call)')
        BY <2>1, <3>2 DEF ToolInv, Stale
      <4>2. CASE call = <<"relations">>
        BY <2>1, <3>2, <4>2 DEF ToolInv, Stale
      <4>3. CASE \E k \in Settings : call = <<"is_relation_made", k>>
        BY <2>2, <3>2, <4>1, <4>3 DEF ToolInv, Tools!Result, Tools!relation_made
      <4>4. CASE \E o \in Tools!Owners : call = <<"relation_get", o>>
        <5>1. PICK o \in Tools!Owners : call = <<"relation_get", o>>
          BY <4>4
        <5>2. CASE o = "app"
          BY <3>1, <4>1, <5>1, <5>2 DEF Stale
        <5>3. CASE o # "app"
          <6>1. bags'[o] = bags[o]
            BY <2>2, <3>1, <5>3 DEF Tools!Owners
          <6>2. /\ Tools!Result(call) = [x \in {o} |-> bags[o]]
                /\ Tools!Result(call)' = [x \in {o} |-> bags'[o]]
            BY <5>1 DEF Tools!Result
          <6> QED  BY <3>2, <4>1, <6>1, <6>2 DEF ToolInv
        <5> QED  BY <5>2, <5>3
      <4> QED  BY <4>1, <4>2, <4>3, <4>4 DEF Tools!Calls
    <3> QED  BY <2>1, <2>2, <3>2, <3>3 DEF ToolInv
  <2> QED  BY <2>3, <2>4 DEF Tools!Own
<1>7. CASE Tools!relation_clear
  <2>1. /\ bags' = [bags EXCEPT !["me"] = [k \in {Tools!Kept} |-> @[k]]] /\ cache' = Tools!flush("me")
        /\ UNCHANGED toolExposed
    BY <1>7 DEF Tools!relation_clear
  <2>2. /\ bags' = [o \in Tools!Owners |-> bags'[o]] /\ bags'["other"] = bags["other"]
        /\ bags'["app"] = bags["app"]
    BY <2>1 DEF ToolInv, Tools!Owners
  <2> QED  BY <2>1, <2>2, FlushKeeps
<1> QED  BY <1>1, <1>2, <1>3, <1>4, <1>5, <1>6, <1>7 DEF Tools!ToolNext

(* A hook reads its relation settings as they are now, its own changes      *)
(* included, although results stay cached for the whole hook: what a call  *)
(* that does not name the unit returns cannot be changed by the unit.      *)
THEOREM ReadsAreFresh == StoresSpec => []FreshReads
<1>1. ToolInv => Tools!FreshReads
  BY DEF ToolInv, Stale, Tools!FreshReads, Tools!Spared
<1>2. StoresInit => (part = "tools" => ToolInv)
  BY Starts, ToolInvInit
<1>3. (part = "tools" => ToolInv) /\ [StoresNext]_storesVars => (part = "tools" => ToolInv)'
  BY Steps, ToolInvStep
<1> QED  BY <1>1, <1>2, <1>3, PTL DEF StoresSpec, FreshReads
-----------------------------------------------------------------------------
(***************************************************************************)
(* PeerStorage.  Before Juju has leaders, a unit that has not what was     *)
(* stored last is to hear of a unit that has; afterwards, what the leader  *)
(* settings do not have yet is on the relation, with every unit.           *)
(***************************************************************************)
Undamaged == Peer!Spared({"unread", "unechoed"})
UpToDate(u) == \A k \in StoredKeys : Peer!Value(bag[u], k) = latest[k]

PeerOK ==
  /\ leads \in PeerUnits /\ stores \in Nat
  /\ bag = [u \in PeerUnits |-> bag[u]]
  /\ latest \in [StoredKeys -> Nat]
  /\ told \subseteq PeerUnits \X PeerUnits

Echoing ==
  Undamaged /\ ~leaders =>
    /\ leaderKv = << >> /\ migrated = {}
    /\ \A u \in PeerUnits : UpToDate(u) \/ \E v \in PeerUnits : <<u, v>> \in told
    /\ \A u, v \in PeerUnits : <<u, v>> \in told => UpToDate(v)
    /\ \A u \in PeerUnits : \A k \in DOMAIN bag[u] : k \in StoredKeys /\ latest[k] # 0 /\ bag[u][k] # 0

Moving ==
  Undamaged /\ leaders =>
    \A k \in StoredKeys :
      IF k \in migrated \/ Peer!Value(leaderKv, k) # 0 THEN Peer!Value(leaderKv, k) = latest[k]
      ELSE \A u \in PeerUnits : Peer!Value(bag[u], k) = latest[k]

PeerInv == PeerOK /\ Echoing /\ Moving

LEMMA PeerInvInit == Peer!PeerInit => PeerInv
BY DEF Peer!PeerInit, PeerInv, PeerOK, Echoing, Moving, UpToDate, Peer!Value

LEMMA PutValue ==
  ASSUME NEW f, NEW k, NEW v, NEW x
  PROVE  Peer!Value(Peer!Put(f, k, v), x) = IF x = k THEN v ELSE Peer!Value(f, x)
<1> DEFINE g == [y \in {k} |-> v]
<1>1. DOMAIN g = {k} /\ g[k] = v
  OBVIOUS
<1> HIDE DEF g
<1>2. CASE v = 0
  BY <1>2 DEF Peer!Value, Peer!Put, Peer!Without
<1>3. CASE v # 0
  <2>1. Peer!Put(f, k, v) = [y \in DOMAIN f \union DOMAIN g |-> IF y \in DOMAIN g THEN g[y] ELSE f[y]]
    BY <1>3 DEF Peer!Put, Peer!Updated, g
  <2> QED  BY <1>1, <2>1 DEF Peer!Value
<1> QED  BY <1>2, <1>3

LEMMA PeerInvStep == PeerInv /\ [Peer!PeerNext]_Peer!peerVars => PeerInv'
<1> SUFFICES ASSUME PeerInv, [Peer!PeerNext]_Peer!peerVars PROVE PeerInv'
  OBVIOUS
<1>1. CASE UNCHANGED Peer!peerVars
  <2>1. UNCHANGED <<peerExposed, leaders, leads, bag, leaderKv, migrated, told, latest, stores>>
    BY <1>1 DEF Peer!peerVars
  <2> QED  BY <2>1 DEF PeerInv, PeerOK, Echoing, Moving, UpToDate, Undamaged, Peer!Spared, Peer!Value
<1>2. ASSUME NEW key \in StoredKeys, Peer!Store(key) PROVE PeerInv'
  <2>1. /\ stores' = stores + 1 /\ latest' = [latest EXCEPT ![key] = stores + 1]
        /\ UNCHANGED <<peerExposed, leaders, leads, migrated>>
        /\ Undamaged /\ ~leaders => told = {}
        /\ IF leaders THEN leaderKv' = Peer!Put(leaderKv, key, stores + 1) /\ UNCHANGED <<bag, told>>
           ELSE /\ bag' = [bag EXCEPT ![leads] = Peer!Put(@, key, stores + 1)]
                /\ told' = told \union {<<v, leads>> : v \in PeerUnits \ {leads}} /\ UNCHANGED leaderKv
    BY <1>2 DEF Peer!Store, Peer!peer_store, Peer!Changed, Undamaged, Peer!Spared
  <2>2. PeerOK'
    BY <2>1 DEF PeerInv, PeerOK
  <2>3. Undamaged' = Undamaged
    BY <2>1 DEF Undamaged, Peer!Spared
  <2>4. Echoing'
    <3> SUFFICES ASSUME Undamaged, ~leaders PROVE Echoing'
      BY <2>1, <2>3 DEF Echoing
    <3>1. /\ told' = {<<v, leads>> : v \in PeerUnits \ {leads}} /\ leads \in PeerUnits
          /\ bag'[leads] = Peer!Put(bag[leads], key, stores + 1)
          /\ \A u \in PeerUnits \ {leads} : bag'[u] = bag[u]
      BY <2>1 DEF PeerInv, PeerOK
    <3>2. UpToDate(leads) /\ stores \in Nat /\ stores + 1 # 0
      <4>1. told = {} /\ leads \in PeerUnits /\ stores \in Nat
        BY <2>1 DEF PeerInv, PeerOK
      <4>2. UpToDate(leads) \/ \E v \in PeerUnits : <<leads, v>> \in told
        BY <4>1 DEF PeerInv, Echoing
      <4> QED  BY <4>1, <4>2
    <3>3. UpToDate(leads)'
      <4> SUFFICES ASSUME NEW k \in StoredKeys PROVE Peer!Value(bag'[leads], k) = latest'[k]
        BY <2>1 DEF UpToDate, Peer!Value
      <4>1. Peer!Value(bag'[leads], k) = IF k = key THEN stores + 1 ELSE Peer!Value(bag[leads], k)
        BY <3>1, PutValue
      <4> QED  BY <2>1, <3>2, <4>1 DEF PeerInv, PeerOK, UpToDate
    <3>4. \A u \in PeerUnits : UpToDate(u)' \/ \E v \in PeerUnits : <<u, v>> \in told'
      BY <2>1, <3>1, <3>3 DEF UpToDate
    <3>5. \A u, v \in PeerUnits : <<u, v>> \in told' => UpToDate(v)'
      BY <2>1, <3>1, <3>3 DEF UpToDate
    <3>6. ASSUME NEW u \in PeerUnits, NEW k \in DOMAIN bag'[u]
          PROVE  k \in StoredKeys /\ latest'[k] # 0 /\ bag'[u][k] # 0
      <4>1. CASE k = key
        <5>1. latest'[k] # 0
          BY <2>1, <3>2, <4>1 DEF PeerInv, PeerOK
        <5>2. bag'[u][k] # 0
          BY <3>1, <3>2, <4>1 DEF Peer!Put, Peer!Updated, PeerInv, Echoing
        <5> QED  BY <4>1, <5>1, <5>2
      <4>2. CASE k # key
        <5>1. k \in DOMAIN bag[u] /\ bag'[u][k] = bag[u][k]
          BY <3>1, <3>2, <4>2 DEF Peer!Put, Peer!Updated
        <5> QED  BY <2>1, <4>2, <5>1 DEF PeerInv, PeerOK, Echoing
      <4> QED  BY <4>1, <4>2
    <3> QED  BY <2>1, <3>4, <3>5, <3>6 DEF PeerInv, Echoing
  <2>5. Moving'
    <3> SUFFICES ASSUME Undamaged, leaders PROVE Moving'
      BY <2>1, <2>3 DEF Moving
    <3>1. \A k \in StoredKeys :
            Peer!Value(leaderKv', k) = IF k = key THEN stores + 1 ELSE Peer!Value(leaderKv, k)
      BY <2>1, PutValue
    <3>2. stores + 1 # 0 /\ latest'[key] = stores + 1 /\ UNCHANGED <<bag, migrated>>
          /\ \A k \in StoredKeys \ {key} : latest'[k] = latest[k]
      BY <2>1 DEF PeerInv, PeerOK
    <3> QED  BY <3>1, <3>2 DEF PeerInv, Moving, Peer!Value
  <2> QED  BY <2>2, <2>4, <2>5 DEF PeerInv
<1>3. ASSUME NEW key \in StoredKeys, Peer!Delete(key) PROVE PeerInv'
  <2>1. /\ latest' = [latest EXCEPT ![key] = 0] /\ leaderKv' = Peer!Put(leaderKv, key, 0) /\ leaders
        /\ UNCHANGED <<peerExposed, leaders, leads, migrated, bag, told, stores>>
        /\ Undamaged => key \in migrated
    BY <1>3 DEF Peer!Delete, Peer!peer_store, Undamaged, Peer!Spared
  <2>2. PeerOK'
    BY <2>1 DEF PeerInv, PeerOK
  <2>3. Undamaged' = Undamaged
    BY <2>1 DEF Undamaged, Peer!Spared
  <2>4. Moving'
    <3> SUFFICES ASSUME Undamaged PROVE Moving'
      BY <2>3 DEF Moving
    <3>1. \A k \in StoredKeys : Peer!Value(leaderKv', k) = IF k = key THEN 0 ELSE Peer!Value(leaderKv, k)
      BY <2>1, PutValue
    <3>2. /\ latest'[key] = 0 /\ \A k \in StoredKeys \ {key} : latest'[k] = latest[k]
      BY <2>1 DEF PeerInv, PeerOK
    <3> QED  BY <2>1, <3>1, <3>2 DEF PeerInv, Moving, Peer!Value
  <2> QED  BY <2>1, <2>2, <2>4 DEF PeerInv, Echoing
<1>4. ASSUME NEW key \in StoredKeys, Peer!Retrieve(key) PROVE PeerInv'
  <2> DEFINE r == Peer!peer_retrieve(key)
  <2>1. /\ leaderKv' = r.kv /\ migrated' = r.migrated
        /\ UNCHANGED <<peerExposed, leaders, leads, bag, told, latest, stores>>
    BY <1>4 DEF Peer!Retrieve
  <2>2. PeerOK' /\ Undamaged' = Undamaged
    BY <2>1 DEF PeerInv, PeerOK, Undamaged, Peer!Spared
  <2>3. CASE UNCHANGED <<leaderKv, migrated>>
    BY <2>1, <2>2, <2>3 DEF PeerInv, Echoing, Moving, UpToDate, Peer!Value
  <2>4. CASE ~UNCHANGED <<leaderKv, migrated>>
    <3> DEFINE mine == Peer!Value(leaderKv, key)
               found == IF mine # 0 THEN mine ELSE Peer!Value(bag[leads], key)
    <3>1. leaders /\ key \notin migrated /\ found # 0
      BY <2>1, <2>4 DEF Peer!peer_retrieve, Peer!leader_get
    <3>2. leaderKv' = Peer!Put(leaderKv, key, found) /\ migrated' = migrated \union {key}
      BY <2>1, <3>1 DEF Peer!peer_retrieve, Peer!leader_get
    <3>3. \A k \in StoredKeys : Peer!Value(leaderKv', k) = IF k = key THEN found ELSE Peer!Value(leaderKv, k)
      BY <3>2, PutValue
    <3>4. Undamaged => found = latest[key]
      BY <3>1 DEF PeerInv, PeerOK, Moving
    <3> HIDE DEF found
    <3>5. Moving'
      BY <2>1, <2>2, <3>1, <3>2, <3>3, <3>4 DEF PeerInv, Moving, Peer!Value
    <3> QED  BY <2>1, <2>2, <3>1, <3>5 DEF PeerInv, Echoing
  <2> QED  BY <2>3, <2>4
<1>5. ASSUME NEW u \in PeerUnits, NEW v \in PeerUnits, Peer!peer_echo(u, v) PROVE PeerInv'
  <2> DEFINE echo == Peer!Updated(bag[u], bag[v])
  <2>1. /\ UNCHANGED <<peerExposed, leaders, leads, leaderKv, migrated, latest, stores>>
        /\ <<u, v>> \in told
        /\ told' = IF leaders \/ echo = bag[u] THEN told \ {<<u, v>>}
                   ELSE (told \union {<<w, u>> : w \in PeerUnits \ {u}}) \ {<<u, v>>}
        /\ bag' = IF leaders THEN bag ELSE [bag EXCEPT ![u] = echo]
    BY <1>5 DEF Peer!peer_echo, Peer!Changed
  <2>2. PeerOK'
    BY <2>1 DEF PeerInv, PeerOK
  <2>3. Undamaged' = Undamaged
    BY <2>1 DEF Undamaged, Peer!Spared
  <2>4. Moving'
    BY <2>1, <2>3 DEF PeerInv, Moving, Peer!Value
  <2>5. Echoing'
    <3> SUFFICES ASSUME Undamaged, ~leaders PROVE Echoing'
      BY <2>1, <2>3 DEF Echoing
    <3>1. bag'[u] = echo /\ \A w \in PeerUnits \ {u} : bag'[w] = bag[w]
      BY <2>1 DEF PeerInv, PeerOK
    <3>2. /\ DOMAIN echo = DOMAIN bag[u] \union DOMAIN bag[v]
          /\ \A k \in DOMAIN echo : echo[k] = IF k \in DOMAIN bag[v] THEN bag[v][k] ELSE bag[u][k]
      BY DEF Peer!Updated
    <3>3. UpToDate(v) /\ \A w \in PeerUnits : \A k \in DOMAIN bag[w] :
                           k \in StoredKeys /\ latest[k] # 0 /\ bag[w][k] # 0
      BY <2>1 DEF PeerInv, Echoing
    <3> HIDE DEF echo
    <3>4. UpToDate(u)'
      <4> SUFFICES ASSUME NEW k \in StoredKeys PROVE Peer!Value(echo, k) = latest[k]
        BY <2>1, <3>1 DEF UpToDate, Peer!Value
      <4> QED  BY <3>2, <3>3 DEF UpToDate, Peer!Value
    <3>5. \A w \in PeerUnits : UpToDate(w) => UpToDate(w)'
      BY <2>1, <3>1, <3>4 DEF UpToDate, Peer!Value
    <3>6. \A w \in PeerUnits : UpToDate(w)' \/ \E x \in PeerUnits : <<w, x>> \in told'
      <4> TAKE w \in PeerUnits
      <4>1. CASE w = u
        BY <3>4, <4>1
      <4>2. CASE w # u
        BY <2>1, <3>5, <4>2 DEF PeerInv, Echoing
      <4> QED  BY <4>1, <4>2
    <3>7. \A w, x \in PeerUnits : <<w, x>> \in told' => UpToDate(x)'
      BY <2>1, <3>4, <3>5 DEF PeerInv, Echoing
    <3>8. \A w \in PeerUnits : \A k \in DOMAIN bag'[w] : k \in StoredKeys /\ latest'[k] # 0 /\ bag'[w][k] # 0
      BY <2>1, <3>1, <3>2, <3>3
    <3> QED  BY <2>1, <3>6, <3>7, <3>8 DEF PeerInv, Echoing
  <2> QED  BY <2>2, <2>4, <2>5 DEF PeerInv
<1>6. CASE Peer!UpgradeJuju
  <2>1. /\ ~leaders /\ leaders' /\ (Undamaged => told = {})
        /\ UNCHANGED <<peerExposed, leads, bag, leaderKv, migrated, told, latest, stores>>
    BY <1>6 DEF Peer!UpgradeJuju, Undamaged, Peer!Spared
  <2>2. PeerOK' /\ Undamaged' = Undamaged
    BY <2>1 DEF PeerInv, PeerOK, Undamaged, Peer!Spared
  <2>3. ASSUME Undamaged
        PROVE  migrated = {} /\ DOMAIN leaderKv = {} /\ \A u \in PeerUnits : UpToDate(u)
    <3>1. told = {} /\ leaderKv = << >> /\ migrated = {}
      BY <2>1, <2>3 DEF PeerInv, Echoing
    <3>2. \A u \in PeerUnits : UpToDate(u) \/ \E v \in PeerUnits : <<u, v>> \in told
      BY <2>1, <2>3 DEF PeerInv, Echoing
    <3> QED  BY <3>1, <3>2
  <2>4. Moving'
    BY <2>1, <2>2, <2>3 DEF Moving, UpToDate, Peer!Value
  <2> QED  BY <2>1, <2>2, <2>4 DEF PeerInv, Echoing
<1>7. CASE Peer!ChangeLeader
  <2>1. leads' \in PeerUnits /\ UNCHANGED <<peerExposed, leaders, bag, leaderKv, migrated, told, latest, stores>>
    BY <1>7 DEF Peer!ChangeLeader
  <2>2. PeerOK' /\ Undamaged' = Undamaged
    BY <2>1 DEF PeerInv, PeerOK, Undamaged, Peer!Spared
  <2>3. Echoing'
    BY <2>1, <2>2 DEF PeerInv, Echoing, UpToDate, Peer!Value
  <2>4. Moving'
    BY <2>1, <2>2 DEF PeerInv, Moving, Peer!Value
  <2> QED  BY <2>2, <2>3, <2>4 DEF PeerInv
<1> QED  BY <1>1, <1>2, <1>3, <1>4, <1>5, <1>6, <1>7 DEF Peer!PeerNext

(* Whoever leads retrieves what was stored last, for any units and keys:    *)
(* while units echo each other, and while the leader moves what it finds   *)
(* on the relation to its settings.                                        *)
THEOREM RetrievedIsLatest == StoresSpec => []RetrievesLatest
<1>1. PeerInv => Peer!RetrievesLatest
  <2> SUFFICES ASSUME PeerInv, Undamaged, NEW key \in StoredKeys, leaders \/ told = {}
               PROVE  Peer!peer_retrieve(key).value = latest[key]
    BY DEF Peer!RetrievesLatest, Undamaged
  <2>1. CASE leaders
    BY <2>1 DEF PeerInv, PeerOK, Moving, Peer!peer_retrieve, Peer!leader_get
  <2>2. CASE ~leaders
    BY <2>2 DEF PeerInv, PeerOK, Echoing, UpToDate, Peer!peer_retrieve
  <2> QED  BY <2>1, <2>2
<1>2. StoresInit => (part = "peer" => PeerInv)
  BY Starts, PeerInvInit
<1>3. (part = "peer" => PeerInv) /\ [StoresNext]_storesVars => (part = "peer" => PeerInv)'
  BY Steps, PeerInvStep
<1> QED  BY <1>1, <1>2, <1>3, PTL DEF StoresSpec, RetrievesLatest
-----------------------------------------------------------------------------
(***************************************************************************)
(* Secrets: the units of Vault are looked at in an order.                  *)
(***************************************************************************)
VaultSpared == Secrets!Spared({"killed", "expired", "two_fresh", "no_content", "no_hvac", "other_charm"})
StoredSpared == Secrets!Spared({"killed", "elsewhere"})

SecretsOK ==
  /\ lastIssued \in Nat /\ drawn \in Nat
  /\ token \in [Secrets!ToSet(Vaults) -> [wraps : Nat, good : BOOLEAN]]
  /\ secretOf \in {"vault", "stored"}
  /\ scHook \in IF secretOf = "vault"
                THEN {"idle", "flush_context", "flush_write", "context", "write", "install"}
                ELSE {"idle", "store", "reconfigure", "restart", "start"}

(* The secret that was issued last can be had still: for a token, from the *)
(* database, or, until it is flushed, from memory.                         *)
VaultKept ==
  VaultSpared /\ secretOf = "vault" =>
    /\ \A v \in Secrets!ToSet(Vaults) : token[v].good => token[v].wraps = lastIssued /\ lastIssued # 0
    /\ lastIssued # 0 <=> \E v \in Secrets!ToSet(Vaults) : token[v].wraps # 0
    /\ lastIssued # 0 /\ secret_id # lastIssued =>
         \/ \E v \in Secrets!ToSet(Vaults) : token[v].good
         \/ scHook \in {"flush_context", "flush_write"}
    /\ scHook \in {"flush_context", "flush_write", "write"} => held = lastIssued
    /\ scHook = "install" => vaultConf = lastIssued
    /\ scDone /\ lastIssued # 0 => vaultLink = "charm" /\ vaultConf = lastIssued

(* What is rendered with a password is rendered with the one on file, and  *)
(* the service runs with what was rendered last, or is about to.           *)
Wanted(password) == [password |-> password, option |-> option, units |-> Secrets!get_data]

StoredKept ==
  StoredSpared /\ secretOf = "stored" =>
    /\ stored \in Int
    /\ stored = Secrets!NoFile => firstDrawn = 0 /\ scHook = "idle"
    /\ stored = 0 => scHook = "store" /\ firstDrawn = 0
    /\ scHook = "store" => held \in Nat \ {0} /\ stored = 0
    /\ firstDrawn # 0 => firstDrawn = stored
    /\ scHook \in {"reconfigure", "restart", "start"} => held = stored
    /\ scHook \in {"restart", "start"} => Secrets!is_ready /\ target = Wanted(firstDrawn) /\ firstDrawn = stored
    /\ scHook # "restart" => inService \in {Secrets!Nothing, target}
    /\ scDone /\ Secrets!is_ready => inService = Wanted(firstDrawn) /\ firstDrawn # 0
    /\ scDone /\ ~Secrets!is_ready => inService = Secrets!Nothing

SecretsInv == Listed /\ SecretsOK /\ VaultKept /\ StoredKept

LEMMA SecretsInit == Listed /\ Secrets!ScInit => SecretsInv
<1> SUFFICES ASSUME Listed, Secrets!ScInit PROVE SecretsInv
  OBVIOUS
<1> USE DEF Secrets!ScInit
<1>1. SecretsOK
  BY DEF SecretsOK
<1>2. VaultKept
  BY DEF VaultKept
<1>3. StoredKept
  <2>1. /\ stored = Secrets!NoFile /\ scHook = "idle" /\ firstDrawn = 0 /\ ~scDone /\ inService = target
        /\ target = Secrets!Nothing
    BY DEF Secrets!NoFile
  <2> QED  BY ONLY <2>1 DEF StoredKept, Secrets!NoFile
<1> QED  BY <1>1, <1>2, <1>3 DEF SecretsInv

LEMMA Least == \A S \in SUBSET Nat : S # {} => \E n \in S : \A m \in S : n <= m
<1> SUFFICES ASSUME NEW S \in SUBSET Nat, S # {} PROVE \E n \in S : \A m \in S : n <= m
  OBVIOUS
<1>1. \E n \in S : \A m \in S : <<m, n>> \notin OpToRel(<, Nat)
  BY NatLessThanWellFounded, WFMin
<1>2. \A n, m \in Nat : <<m, n>> \notin OpToRel(<, Nat) => n <= m
  BY DEF OpToRel
<1> QED  BY <1>1, <1>2

LEMMA Flushing ==
  /\ DOMAIN Secrets!Flushes = {"context", "write"}
  /\ Secrets!Flushes["context"] = "flush_context" /\ Secrets!Flushes["write"] = "flush_write"
BY DEF Secrets!Flushes

LEMMA FirstIsGood ==
  ASSUME SecretsInv, Secrets!Good # {}
  PROVE  Secrets!FirstGood \in Secrets!ToSet(Vaults) /\ token[Secrets!FirstGood].good
<1>1. Secrets!Good \in SUBSET Nat
  BY DEF SecretsInv, Listed, Secrets!Good
<1>2. \E n \in Secrets!Good : \A m \in Secrets!Good : n <= m
  BY <1>1, Least
<1>3. Secrets!Min(Secrets!Good) \in Secrets!Good
  BY <1>2 DEF Secrets!Min
<1> QED  BY <1>3 DEF Secrets!Good, Secrets!FirstGood, Secrets!ToSet

LEMMA NoneGood ==
  ASSUME Secrets!Good = {}, NEW v \in Secrets!ToSet(Vaults)
  PROVE  ~token[v].good
BY DEF Secrets!Good, Secrets!ToSet

(* The context has the secret that was issued last, new or known. *)
LEMMA ContextStep ==
  ASSUME SecretsInv, NEW then \in {"context", "write"}, Secrets!VaultKVContext(then), secretOf = "vault",
         scHook \in {"idle", "context"}, VaultSpared
  PROVE  /\ \A v \in Secrets!ToSet(Vaults) :
              token'[v].wraps = token[v].wraps /\ (token'[v].good => token[v].good)
         /\ \/ scHook' = Secrets!Flushes[then] /\ held' = lastIssued /\ lastIssued # 0 /\ UNCHANGED scDone
            \/ /\ scHook' = then /\ held' = lastIssued /\ secret_id = lastIssued /\ UNCHANGED scDone
            \/ scHook' = "idle" /\ scDone' /\ UNCHANGED token /\ lastIssued = 0
<1> USE DEF SecretsInv, SecretsOK, VaultKept
<1>1. CASE Secrets!Good # {}
  <2> DEFINE first == Secrets!FirstGood
  <2>1. first \in Secrets!ToSet(Vaults) /\ token[first].good
    BY <1>1, FirstIsGood
  <2> HIDE DEF first
  <2>2. /\ held' = token[first].wraps /\ token' = [token EXCEPT ![first].good = FALSE]
        /\ scHook' = Secrets!Flushes[then] /\ UNCHANGED scDone
    BY <1>1 DEF Secrets!VaultKVContext, Secrets!retrieve_secret_id, Secrets!Goes, VaultSpared,
       Secrets!Spared, first
  <2> QED  BY <2>1, <2>2
<1>2. CASE Secrets!Good = {}
  <2>1. ASSUME lastIssued # 0 PROVE secret_id = lastIssued /\ Secrets!Related # {}
    BY <1>2, <2>1, NoneGood DEF Secrets!Related
  <2>2. CASE Secrets!Related # {} /\ secret_id # 0
    BY <1>2, <2>1, <2>2 DEF Secrets!VaultKVContext, Secrets!Goes, Secrets!Related
  <2>3. CASE ~(Secrets!Related # {} /\ secret_id # 0)
    BY <1>2, <2>1, <2>3 DEF Secrets!VaultKVContext, Secrets!Ends
  <2> QED  BY <2>2, <2>3
<1> QED  BY <1>1, <1>2

LEMMA TypesStep == SecretsInv /\ [Secrets!ScNext]_Secrets!scVars => SecretsOK'
<1> SUFFICES ASSUME SecretsInv, [Secrets!ScNext]_Secrets!scVars PROVE SecretsOK'
  OBVIOUS
<1> DEFINE Known == UNCHANGED <<secretOf, lastIssued>>
<1> USE DEF Secrets!Goes, Secrets!Ends, Secrets!world, Secrets!vaultSide, Secrets!storedSide
<1>1. CASE UNCHANGED Secrets!scVars
  BY <1>1 DEF Secrets!scVars, SecretsInv, SecretsOK
<1>2. ASSUME NEW then \in {"context", "write"}, Secrets!VaultKVContext(then), UNCHANGED <<secretOf, lastIssued, drawn>>,
             secretOf = "vault"
      PROVE  SecretsOK'
  <2>1. Secrets!Good # {} => Secrets!FirstGood \in Secrets!ToSet(Vaults)
    BY FirstIsGood
  <2>2. scHook' \in {"idle", "flush_context", "flush_write", "context", "write"}
    BY <1>2, Flushing DEF Secrets!VaultKVContext
  <2>3. token' \in [Secrets!ToSet(Vaults) -> [wraps : Nat, good : BOOLEAN]]
    BY <1>2, <2>1 DEF Secrets!VaultKVContext, Secrets!retrieve_secret_id, SecretsInv, SecretsOK
  <2> QED  BY <1>2, <2>2, <2>3 DEF SecretsInv, SecretsOK
<1>3. CASE Secrets!vault_relation_complete
  BY <1>2, <1>3 DEF Secrets!vault_relation_complete, SecretsInv, SecretsOK
<1>4. CASE Secrets!GetContext
  BY <1>2, <1>4 DEF Secrets!GetContext, SecretsInv, SecretsOK
<1>5. CASE Secrets!FlushSecret \/ Secrets!write_vaultlocker_conf \/ Secrets!install_alternative
  BY <1>5, Flushing DEF Secrets!FlushSecret, Secrets!write_vaultlocker_conf,
     Secrets!install_alternative, SecretsInv, SecretsOK
<1>6. CASE Secrets!StoredContext_init \/ Secrets!store_context \/ Secrets!TemplateCallback
  <2>1. /\ UNCHANGED <<secretOf, lastIssued, token>> /\ secretOf = "stored" /\ drawn' \in {drawn, drawn + 1}
        /\ scHook' \in {"idle", "store", "reconfigure", "restart", "start"}
    BY <1>6 DEF Secrets!StoredContext_init, Secrets!store_context, Secrets!TemplateCallback, SecretsInv,
       SecretsOK
  <2> QED  BY <2>1 DEF SecretsInv, SecretsOK
<1>7. CASE Secrets!StopsService \/ Secrets!on_change_action \/ Secrets!StartsService \/ Secrets!ScFails
  BY <1>7 DEF Secrets!StopsService, Secrets!on_change_action, Secrets!StartsService, Secrets!ScFails,
     SecretsInv, SecretsOK
<1>8. ASSUME NEW v \in Secrets!ToSet(Vaults), Secrets!Issue(v) \/ Secrets!Expire(v) PROVE SecretsOK'
  <2>1. lastIssued \in Nat /\ token \in [Secrets!ToSet(Vaults) -> [wraps : Nat, good : BOOLEAN]]
    BY DEF SecretsInv, SecretsOK
  <2>2. /\ UNCHANGED <<secretOf, drawn>> /\ scHook' = "idle" /\ lastIssued' \in Nat
        /\ \/ token' = [token EXCEPT ![v] = [wraps |-> lastIssued + 1, good |-> TRUE]]
           \/ token' = [token EXCEPT ![v].good = FALSE]
    BY <1>8, <2>1 DEF Secrets!Issue, Secrets!Expire, Secrets!Changes, Secrets!storedSide
  <2> DEFINE Token == [wraps : Nat, good : BOOLEAN]
  <2>3. CASE token' = [token EXCEPT ![v] = [wraps |-> lastIssued + 1, good |-> TRUE]]
    <3>1. lastIssued + 1 \in Nat
      BY <2>1
    <3>2. [wraps |-> lastIssued + 1, good |-> TRUE] \in Token
      BY <3>1, Zenon
    <3> HIDE DEF Token
    <3>3. token' \in [Secrets!ToSet(Vaults) -> Token]
      BY <2>1, <2>3, <3>2, Zenon DEF Token
    <3> QED  BY <2>2, <3>3 DEF SecretsInv, SecretsOK, Token
  <2>4. CASE token' = [token EXCEPT ![v].good = FALSE]
    <3>1. token' \in [Secrets!ToSet(Vaults) -> Token]
      BY <2>1, <2>4
    <3> QED  BY <2>2, <3>1 DEF SecretsInv, SecretsOK
  <2> QED  BY <2>2, <2>3, <2>4
<1>9. CASE \/ \E r \in Remotes, key \in RequiredKeys : Secrets!RemoteSets(r, key)
           \/ \E value \in ConfigOptions : Secrets!SetOption(value)
  BY <1>9 DEF Secrets!RemoteSets, Secrets!SetOption, Secrets!Changes, SecretsInv, SecretsOK
<1> QED  BY <1>1, <1>3, <1>4, <1>5, <1>6, <1>7, <1>8, <1>9 DEF Secrets!ScNext

LEMMA VaultStep == SecretsInv /\ [Secrets!ScNext]_Secrets!scVars => VaultKept'
<1> SUFFICES ASSUME SecretsInv, [Secrets!ScNext]_Secrets!scVars, VaultSpared', secretOf' = "vault"
             PROVE  VaultKept'
  BY DEF VaultKept
<1>1. VaultSpared /\ secretOf = "vault"
  BY DEF Secrets!ScNext, Secrets!scVars, Secrets!vault_relation_complete, Secrets!GetContext,
     Secrets!FlushSecret, Secrets!write_vaultlocker_conf, Secrets!install_alternative,
     Secrets!StoredContext_init, Secrets!store_context, Secrets!TemplateCallback, Secrets!StopsService,
     Secrets!on_change_action, Secrets!StartsService, Secrets!ScFails, Secrets!Issue, Secrets!Expire,
     Secrets!RemoteSets, Secrets!SetOption, Secrets!Changes, Secrets!world, VaultSpared, Secrets!Spared
<1>2. scHook \in {"idle", "flush_context", "flush_write", "context", "write", "install"} /\ SecretsOK'
  BY <1>1, TypesStep DEF SecretsInv, SecretsOK
<1>3. VaultKept
  BY DEF SecretsInv
<1> USE DEF Secrets!Goes, Secrets!Ends, Secrets!world, Secrets!vaultSide, Secrets!storedSide
<1>4. CASE UNCHANGED Secrets!scVars
  BY <1>1, <1>3, <1>4 DEF Secrets!scVars, VaultKept
<1>5. ASSUME NEW then \in {"context", "write"}, Secrets!VaultKVContext(then), scHook \in {"idle", "context"},
             UNCHANGED <<secretOf, lastIssued, secret_id, vaultConf, vaultLink>>
      PROVE  VaultKept'
  <2>1. /\ \A v \in Secrets!ToSet(Vaults) :
             token'[v].wraps = token[v].wraps /\ (token'[v].good => token[v].good)
        /\ \/ scHook' = Secrets!Flushes[then] /\ held' = lastIssued /\ lastIssued # 0 /\ UNCHANGED scDone
           \/ /\ scHook' = then /\ held' = lastIssued /\ secret_id = lastIssued /\ UNCHANGED scDone
           \/ scHook' = "idle" /\ scDone' /\ UNCHANGED token /\ lastIssued = 0
    BY <1>1, <1>5, ContextStep
  <2>2. Secrets!Flushes[then] \in {"flush_context", "flush_write"}
    BY Flushing
  <2> QED  BY <1>1, <1>3, <1>5, <2>1, <2>2 DEF VaultKept
<1>6. CASE Secrets!vault_relation_complete
  <2>1. Secrets!VaultKVContext("context") /\ scHook = "idle" /\ UNCHANGED <<secretOf, lastIssued, secret_id, vaultConf, vaultLink>>
    BY <1>1, <1>6 DEF Secrets!vault_relation_complete, VaultSpared, Secrets!Spared
  <2> QED  BY <1>5, <2>1
<1>7. CASE Secrets!GetContext
  BY <1>5, <1>7 DEF Secrets!GetContext
<1>8. CASE Secrets!FlushSecret
  <2>1. /\ UNCHANGED <<token, held, vaultConf, vaultLink, lastIssued, scDone>> /\ secret_id' = held
        /\ scHook \in {"flush_context", "flush_write"} /\ scHook' \in {"context", "write"}
    BY <1>8, Flushing DEF Secrets!FlushSecret
  <2> QED  BY <1>1, <1>3, <2>1 DEF VaultKept
<1>9. CASE Secrets!write_vaultlocker_conf
  BY <1>1, <1>3, <1>9 DEF Secrets!write_vaultlocker_conf, VaultKept
<1>10. CASE Secrets!install_alternative
  BY <1>1, <1>3, <1>10 DEF Secrets!install_alternative, VaultKept, VaultSpared, Secrets!Spared
<1>11. CASE Secrets!ScFails
  <2>1. /\ scHook \notin {"flush_context", "flush_write"} /\ scHook' = "idle" /\ ~scDone'
        /\ UNCHANGED <<token, lastIssued, secret_id, held, vaultConf, vaultLink>>
    BY <1>1, <1>11 DEF Secrets!ScFails, Secrets!InMemory, VaultSpared, Secrets!Spared
  <2> QED  BY <1>1, <1>3, <2>1 DEF VaultKept
<1>12. ASSUME NEW v \in Secrets!ToSet(Vaults), Secrets!Issue(v) PROVE VaultKept'
  <2>1. /\ lastIssued' = lastIssued + 1 /\ scHook' = "idle" /\ ~scDone'
        /\ token' = [token EXCEPT ![v] = [wraps |-> lastIssued + 1, good |-> TRUE]]
        /\ Secrets!Good = {} \/ {Vaults[i] : i \in Secrets!Good} = {v}
    BY <1>1, <1>12 DEF Secrets!Issue, Secrets!Changes, VaultSpared, Secrets!Spared
  <2>2. \A w \in Secrets!ToSet(Vaults) : token[w].good => w = v
    BY <2>1 DEF Secrets!Good, Secrets!ToSet
  <2>3. lastIssued \in Nat /\ token'[v].good /\ token'[v].wraps = lastIssued'
        /\ \A w \in Secrets!ToSet(Vaults) \ {v} : ~token'[w].good
    BY <2>1, <2>2 DEF SecretsInv, SecretsOK
  <2>4. lastIssued' # 0 /\ \E w \in Secrets!ToSet(Vaults) : token'[w].wraps # 0 /\ token'[w].good
    BY <2>1, <2>3
  <2> QED  BY <2>1, <2>3, <2>4 DEF VaultKept
<1>13. ASSUME NEW v \in Secrets!ToSet(Vaults) PROVE ~Secrets!Expire(v)
  BY <1>1 DEF Secrets!Expire, VaultSpared, Secrets!Spared
<1>14. ~ \/ Secrets!StoredContext_init \/ Secrets!store_context \/ Secrets!TemplateCallback
         \/ Secrets!StopsService \/ Secrets!on_change_action \/ Secrets!StartsService
         \/ \E r \in Remotes, key \in RequiredKeys : Secrets!RemoteSets(r, key)
         \/ \E value \in ConfigOptions : Secrets!SetOption(value)
  BY <1>1, <1>2 DEF Secrets!StoredContext_init, Secrets!store_context, Secrets!TemplateCallback,
     Secrets!StopsService, Secrets!on_change_action, Secrets!StartsService, Secrets!RemoteSets,
     Secrets!SetOption, Secrets!Changes
<1> QED
  BY <1>4, <1>6, <1>7, <1>8, <1>9, <1>10, <1>11, <1>12, <1>13, <1>14 DEF Secrets!ScNext

LEMMA StoredStep == SecretsInv /\ [Secrets!ScNext]_Secrets!scVars => StoredKept'
<1> SUFFICES ASSUME SecretsInv, [Secrets!ScNext]_Secrets!scVars, StoredSpared', secretOf' = "stored"
             PROVE  StoredKept'
  BY DEF StoredKept
<1>1. StoredSpared /\ secretOf = "stored"
  BY DEF Secrets!ScNext, Secrets!scVars, Secrets!vault_relation_complete, Secrets!GetContext,
     Secrets!FlushSecret, Secrets!write_vaultlocker_conf, Secrets!install_alternative,
     Secrets!StoredContext_init, Secrets!store_context, Secrets!TemplateCallback, Secrets!StopsService,
     Secrets!on_change_action, Secrets!StartsService, Secrets!ScFails, Secrets!Issue, Secrets!Expire,
     Secrets!RemoteSets, Secrets!SetOption, Secrets!Changes, Secrets!world, StoredSpared, Secrets!Spared
<1>2. scHook \in {"idle", "store", "reconfigure", "restart", "start"} /\ drawn \in Nat
  BY <1>1 DEF SecretsInv, SecretsOK
<1>3. StoredKept
  BY DEF SecretsInv
<1> DEFINE Given == UNCHANGED <<remoteKeys, option>>
<1>4. Given => UNCHANGED <<Secrets!is_ready, Secrets!get_data, Secrets!Nothing>>
               /\ \A password : Wanted(password)' = Wanted(password)
  BY DEF Secrets!is_ready, Secrets!get_data, Secrets!RequiredConfig_bool, Secrets!Nothing, Wanted
<1> USE DEF Secrets!Goes, Secrets!Ends, Secrets!world, Secrets!vaultSide, Secrets!storedSide
<1>5. CASE UNCHANGED Secrets!scVars
  BY <1>1, <1>3, <1>4, <1>5 DEF Secrets!scVars, StoredKept
<1>6. CASE Secrets!StoredContext_init
  <2>1. /\ scHook = "idle" /\ UNCHANGED <<firstDrawn, target, inService, remoteKeys, option>>
        /\ \/ /\ stored = Secrets!NoFile /\ drawn' = drawn + 1 /\ stored' = 0 /\ held' = drawn'
              /\ scHook' = "store" /\ UNCHANGED scDone
           \/ /\ stored # Secrets!NoFile /\ held' = stored /\ UNCHANGED <<stored, drawn>>
              /\ IF stored = 0 THEN scHook' = "idle" /\ ~scDone'
                 ELSE scHook' = "reconfigure" /\ UNCHANGED scDone
    BY <1>1, <1>6 DEF Secrets!StoredContext_init, StoredSpared, Secrets!Spared
  <2> QED  BY <1>1, <1>2, <1>3, <1>4, <2>1 DEF StoredKept, Secrets!NoFile
<1>7. CASE Secrets!store_context
  BY <1>1, <1>3, <1>4, <1>7 DEF Secrets!store_context, StoredKept, Secrets!NoFile
<1>8. CASE Secrets!TemplateCallback
  BY <1>1, <1>3, <1>4, <1>8 DEF Secrets!TemplateCallback, StoredKept, Wanted
<1>9. CASE Secrets!StopsService
  BY <1>1, <1>3, <1>4, <1>9 DEF Secrets!StopsService, StoredKept
<1>10. CASE Secrets!on_change_action
  BY <1>1, <1>3, <1>4, <1>10 DEF Secrets!on_change_action, StoredKept
<1>11. CASE Secrets!StartsService
  BY <1>1, <1>3, <1>4, <1>11 DEF Secrets!StartsService, StoredKept
<1>12. CASE Secrets!ScFails
  BY <1>1, <1>3, <1>4, <1>12 DEF Secrets!ScFails, Secrets!InMemory, StoredKept, StoredSpared, Secrets!Spared
<1>13. CASE \/ \E r \in Remotes, key \in RequiredKeys : Secrets!RemoteSets(r, key)
            \/ \E value \in ConfigOptions : Secrets!SetOption(value)
  <2>1. scHook = "idle" /\ scHook' = "idle" /\ ~scDone'
        /\ UNCHANGED <<held, stored, drawn, firstDrawn, target, inService>>
    BY <1>13 DEF Secrets!RemoteSets, Secrets!SetOption, Secrets!Changes
  <2> QED  BY <1>1, <1>3, <2>1 DEF StoredKept
<1>14. ~ \/ Secrets!vault_relation_complete \/ Secrets!GetContext \/ Secrets!FlushSecret
         \/ Secrets!write_vaultlocker_conf \/ Secrets!install_alternative
         \/ \E v \in Secrets!ToSet(Vaults) : Secrets!Issue(v) \/ Secrets!Expire(v)
  BY <1>1, <1>2, Flushing DEF Secrets!vault_relation_complete, Secrets!GetContext, Secrets!FlushSecret,
     Secrets!write_vaultlocker_conf, Secrets!install_alternative, Secrets!Issue, Secrets!Expire, Secrets!Changes
<1> QED  BY <1>5, <1>6, <1>7, <1>8, <1>9, <1>10, <1>11, <1>12, <1>13, <1>14 DEF Secrets!ScNext

LEMMA SecretsStep == SecretsInv /\ [Secrets!ScNext]_Secrets!scVars => SecretsInv'
BY TypesStep, VaultStep, StoredStep DEF SecretsInv, Listed

(* A secret that can be had only once is not lost: what vaultlocker and the *)
(* service have after a hook that succeeded is what was issued last and    *)
(* what was drawn first, although hooks fail in between.                   *)
THEOREM NoSecretLost == StoresSpec => []SecretsKept
<1>1. SecretsInv => Secrets!SecretsKept
  BY DEF SecretsInv, VaultKept, StoredKept, VaultSpared, StoredSpared, Wanted, Secrets!SecretsKept
<1>2. StoresInit => (part = "secrets" => SecretsInv)
  BY Starts, SecretsInit, VaultAssumption
<1>3. (part = "secrets" => SecretsInv) /\ [StoresNext]_storesVars => (part = "secrets" => SecretsInv)'
  BY Steps, SecretsStep
<1> QED  BY <1>1, <1>2, <1>3, PTL DEF StoresSpec, SecretsKept
-----------------------------------------------------------------------------
(***************************************************************************)
(* PolicyOverrides.  While a hook runs, the files that it has written are  *)
(* in place, which it was allowed to write; between hooks there are those  *)
(* of a whole resource or none.                                            *)
(***************************************************************************)
Policies(zip) == Policy!_yamlfiles(zip)

Clear(zip) == \A f \in zip.files : Docs[f.doc] \cap Always = {}

(* These files, and no other overrides, are in place, and all could be written. *)
InPlace(files) ==
  /\ Policy!Overrides = {f.name : f \in files}
  /\ \A f \in files : policyd[f.name] = f.doc /\ Policy!CanWrite(f) /\ Docs[f.doc] \cap Always = {}

PoInv ==
  Policy!Spared(Policy!PolicyHazards) =>
    /\ loaded = policyd /\ resource_ \in Zips /\ success \in BOOLEAN
    /\ usePolicy => Clear(resource_)
    /\ success => Policy!open_and_filter_yaml_files(resource_)
    /\ IF poHook.runs
       THEN /\ usePolicy /\ ~success /\ poHook.files \subseteq Policies(resource_)
            /\ Policy!open_and_filter_yaml_files(resource_)
            /\ InPlace(Policies(resource_) \ poHook.files)
       ELSE /\ poHook = Policy!NoHook
            /\ IF success THEN \E zip \in Zips : Policies(zip) # {} /\ InPlace(Policies(zip))
               ELSE Policy!Overrides = {}

LEMMA PoInvInit == Policy!PoInit => PoInv
<1> SUFFICES ASSUME Policy!PoInit PROVE PoInv
  OBVIOUS
<1>1. /\ loaded = policyd /\ resource_ \in Zips /\ success = FALSE /\ usePolicy = FALSE
      /\ poHook = [runs |-> FALSE, files |-> {}] /\ DOMAIN policyd = CharmFiles
  BY DEF Policy!PoInit, Policy!NoHook
<1>2. Policy!Overrides = {} /\ poHook.runs = FALSE
  BY <1>1 DEF Policy!Overrides
<1> QED  BY <1>1, <1>2 DEF PoInv, Policy!NoHook

LEMMA Cleaned ==
  ASSUME policyd' = Policy!clean_policyd_dir_for
  PROVE  Policy!Overrides' = {}
BY DEF Policy!clean_policyd_dir_for, Policy!Overrides

LEMMA PoInvStep == PoInv /\ [Policy!PoNext]_Policy!poVars => PoInv'
<1> SUFFICES ASSUME PoInv, [Policy!PoNext]_Policy!poVars PROVE PoInv'
  OBVIOUS
<1>1. UNCHANGED poExposed
  BY DEF Policy!PoNext, Policy!poVars, Policy!Operate, Policy!Disable, Policy!maybe_do_policyd_overrides, Policy!WriteFile,
     Policy!set_policy_success_file, Policy!Killed
<1> SUFFICES ASSUME Policy!Spared(Policy!PolicyHazards) PROVE PoInv'
  BY <1>1 DEF PoInv, Policy!Spared
<1>2. /\ loaded = policyd /\ resource_ \in Zips /\ success \in BOOLEAN
      /\ usePolicy => Clear(resource_)
      /\ success => Policy!open_and_filter_yaml_files(resource_)
      /\ poHook.runs => /\ usePolicy /\ ~success /\ poHook.files \subseteq Policies(resource_)
                        /\ Policy!open_and_filter_yaml_files(resource_)
                        /\ InPlace(Policies(resource_) \ poHook.files)
      /\ ~poHook.runs => poHook = Policy!NoHook
      /\ ~poHook.runs /\ success => \E zip \in Zips : Policies(zip) # {} /\ InPlace(Policies(zip))
      /\ ~poHook.runs /\ ~success => Policy!Overrides = {}
  BY DEF PoInv
<1>3. \A h \in Policy!PolicyHazards : h \notin poExposed
  BY DEF Policy!Spared
<1>4. \A files, restarts : Policy!Reads(files, restarts) = files
  BY <1>3 DEF Policy!Reads, Policy!PolicyHazards
<1>5. ASSUME UNCHANGED policyd PROVE /\ Policy!Overrides' = Policy!Overrides
                                     /\ \A files : InPlace(files)' <=> InPlace(files)
  BY <1>5 DEF Policy!Overrides, InPlace, Policy!CanWrite, Policy!read_and_validate_yaml
<1>a. CASE UNCHANGED Policy!poVars
  BY <1>2, <1>5, <1>a DEF Policy!poVars, PoInv, Clear, Policies, Policy!open_and_filter_yaml_files, Policy!_yamlfiles
<1>b. ASSUME NEW use \in BOOLEAN, NEW zip \in Zips, Policy!Operate(use, zip) PROVE PoInv'
  <2>1. /\ ~poHook.runs /\ usePolicy' = use /\ resource_' = zip /\ Policy!Usable(zip)
        /\ UNCHANGED <<success, policyd, loaded, poHook>>
    BY <1>b DEF Policy!Operate
  <2>2. Clear(zip) /\ (success => Policy!open_and_filter_yaml_files(zip))
    BY <1>3, <2>1 DEF Policy!Usable, Clear, Policy!PolicyHazards
  <2>3. Clear(resource_)' /\ (success' => Policy!open_and_filter_yaml_files(resource_)')
    BY <2>1, <2>2 DEF Clear, Policy!open_and_filter_yaml_files, Policy!_yamlfiles
  <2> QED  BY <1>2, <1>5, <2>1, <2>3 DEF PoInv, Policies, Policy!_yamlfiles
<1>c. CASE Policy!Disable
  <2>1. /\ ~poHook.runs /\ ~usePolicy /\ policyd' = Policy!clean_policyd_dir_for /\ loaded' = policyd'
        /\ ~success' /\ success' \in BOOLEAN /\ UNCHANGED <<usePolicy, resource_, poHook>>
    BY <1>4, <1>c DEF Policy!Disable
  <2> QED  BY <1>2, <2>1, Cleaned DEF PoInv
<1>6. ASSUME Policy!Fails, UNCHANGED <<usePolicy, resource_, success>>, ~success PROVE PoInv'
  <2>1. policyd' = Policy!clean_policyd_dir_for /\ loaded' = policyd'
      /\ poHook' = Policy!NoHook /\ ~(poHook').runs
    BY <1>4, <1>6 DEF Policy!Fails, Policy!NoHook
  <2> QED  BY <1>2, <1>6, <2>1, Cleaned DEF PoInv, Clear
<1>d. ASSUME NEW changed \in BOOLEAN, Policy!maybe_do_policyd_overrides(changed) PROVE PoInv'
  <2>1. /\ ~poHook.runs /\ usePolicy /\ UNCHANGED <<usePolicy, resource_>>
    BY <1>d DEF Policy!maybe_do_policyd_overrides
  <2>2. CASE Policy!open_and_filter_yaml_files(resource_)
    <3>1. /\ ~success' /\ success' \in BOOLEAN /\ policyd' = Policy!clean_policyd_dir_for /\ loaded' = policyd'
          /\ poHook' = [runs |-> TRUE, files |-> Policies(resource_)]
      BY <1>4, <1>d, <2>2 DEF Policy!maybe_do_policyd_overrides, Policies
    <3>2. Policies(resource_)' = Policies(resource_) /\ Policy!open_and_filter_yaml_files(resource_)' /\ Clear(resource_)'
      BY <1>2, <2>1, <2>2 DEF Policies, Policy!open_and_filter_yaml_files, Policy!_yamlfiles, Clear
    <3>3. InPlace(Policies(resource_) \ poHook.files)'
      BY <3>1, <3>2, Cleaned DEF InPlace
    <3> QED  BY <1>2, <2>1, <3>1, <3>2, <3>3 DEF PoInv
  <2>3. CASE ~Policy!open_and_filter_yaml_files(resource_)
    BY <1>2, <1>6, <1>d, <2>1, <2>3 DEF Policy!maybe_do_policyd_overrides
  <2> QED  BY <2>2, <2>3
<1>e. ASSUME NEW f \in poHook.files, Policy!WriteFile(f) PROVE PoInv'
  <2>1. UNCHANGED <<usePolicy, resource_, success>>
    BY <1>e DEF Policy!WriteFile
  <2>2. poHook.runs
    BY <1>2 DEF Policy!NoHook
  <2>3. CASE ~Policy!CanWrite(f)
    BY <1>2, <1>6, <1>e, <2>1, <2>2, <2>3 DEF Policy!WriteFile
  <2>4. CASE Policy!CanWrite(f)
    <3>1. /\ policyd' = Policy!Written(f) /\ loaded' = policyd'
          /\ poHook' = [runs |-> TRUE, files |-> poHook.files \ {f}]
      BY <1>4, <1>e, <2>4 DEF Policy!WriteFile
    <3> DEFINE before == Policies(resource_) \ poHook.files
    <3>2. f \in Policies(resource_) /\ Policies(resource_)' = Policies(resource_)
          /\ (Policies(resource_) \ poHook.files)' = before \cup {f}
      BY <1>2, <2>1, <2>2, <3>1 DEF Policies, Policy!_yamlfiles
    <3>3. InPlace(Policies(resource_) \ poHook.files)'
      <4>1. InPlace(before) /\ \A g \in before : g.name # f.name
        BY <1>2, <2>2, <3>2 DEF Policy!open_and_filter_yaml_files, Policies
      <4>2. /\ DOMAIN policyd' = DOMAIN policyd \cup {f.name} /\ policyd'[f.name] = f.doc
            /\ \A n \in DOMAIN policyd : n # f.name => policyd'[n] = policyd[n]
        BY <3>1 DEF Policy!Written
      <4>3. f.name \notin CharmFiles /\ Docs[f.doc] \cap Always = {}
        BY <1>2, <2>2, <2>4, <3>2 DEF Policy!CanWrite, Clear, Policies, Policy!_yamlfiles
      <4>4. Policy!Overrides' = Policy!Overrides \cup {f.name}
        BY <4>2, <4>3 DEF Policy!Overrides
      <4>5. Policy!Overrides' = {g.name : g \in before \cup {f}}
        BY <4>1, <4>4 DEF InPlace
      <4>6. \A g \in before : g.name \in DOMAIN policyd
        BY <4>1 DEF InPlace, Policy!Overrides
      <4> HIDE DEF before
      <4>7. \A g \in before \cup {f} : policyd'[g.name] = g.doc /\ Policy!CanWrite(g) /\ Docs[g.doc] \cap Always = {}
        BY <2>4, <4>1, <4>2, <4>3, <4>6 DEF InPlace
      <4>8. \A g : Policy!CanWrite(g)' <=> Policy!CanWrite(g)
        BY DEF Policy!CanWrite, Policy!read_and_validate_yaml
      <4> QED  BY <3>2, <4>5, <4>7, <4>8 DEF InPlace
    <3>4. Policy!open_and_filter_yaml_files(resource_)' /\ Clear(resource_)'
      BY <1>2, <2>1, <2>2 DEF Policy!open_and_filter_yaml_files, Policy!_yamlfiles, Clear
    <3>5. (poHook').runs /\ (poHook').files \subseteq Policies(resource_)
      BY <1>2, <2>2, <3>1
    <3> QED  BY <1>2, <2>1, <2>2, <3>1, <3>2, <3>3, <3>4, <3>5 DEF PoInv
  <2> QED  BY <2>3, <2>4
<1>f. CASE Policy!set_policy_success_file
  <2>1. /\ poHook.runs /\ poHook.files = {} /\ success' = TRUE /\ loaded' = policyd /\ poHook' = Policy!NoHook /\ ~(poHook').runs
        /\ UNCHANGED <<usePolicy, resource_, policyd>>
    BY <1>4, <1>f DEF Policy!set_policy_success_file, Policy!NoHook
  <2>2. Policies(resource_) # {} /\ InPlace(Policies(resource_))
    BY <1>2, <2>1 DEF Policy!open_and_filter_yaml_files, Policies
  <2>3. Policy!open_and_filter_yaml_files(resource_)' /\ Clear(resource_)'
    BY <1>2, <2>1 DEF Policy!open_and_filter_yaml_files, Policy!_yamlfiles, Clear
  <2>4. \E zip \in Zips : Policies(zip) # {} /\ InPlace(Policies(zip))'
    BY <1>2, <1>5, <2>1, <2>2
  <2> QED  BY <1>2, <2>1, <2>3, <2>4 DEF PoInv, Policies, Policy!_yamlfiles
<1>g. CASE Policy!Killed
  BY <1>3, <1>g DEF Policy!Killed, Policy!PolicyHazards
<1> QED  BY <1>a, <1>b, <1>c, <1>d, <1>e, <1>f, <1>g DEF Policy!PoNext

LEMMA PoInvTold == PoInv => Policy!OverridesAsTold
<1> SUFFICES ASSUME PoInv, Policy!Spared(Policy!PolicyHazards), ~poHook.runs
             PROVE  /\ Policy!Overrides # {} <=> Policy!policyd_status_message_prefix = "PO:"
                    /\ Policy!Overrides # {} => \E zip \in Zips : Policy!Whole(zip)
                    /\ \A n \in Policy!Overrides : Docs[policyd[n]] \cap (Blacklisted \cup Always) = {}
                    /\ loaded = policyd
  BY DEF Policy!OverridesAsTold
<1>1. CASE success
  <2>1. PICK zip \in Zips : Policies(zip) # {} /\ InPlace(Policies(zip))
    BY <1>1 DEF PoInv
  <2>2. Policy!Whole(zip) /\ Policy!Overrides # {}
    BY <2>1 DEF InPlace, Policy!Whole, Policies
  <2>3. \A f \in Policies(zip) : Docs[f.doc] \cap (Blacklisted \cup Always) = {}
    BY <2>1 DEF InPlace, Policy!CanWrite, Policy!read_and_validate_yaml
  <2>4. \A n \in Policy!Overrides : \E f \in Policies(zip) : policyd[n] = f.doc
    BY <2>1 DEF InPlace
  <2> QED  BY <1>1, <2>2, <2>3, <2>4 DEF PoInv, Policy!policyd_status_message_prefix
<1>2. CASE ~success
  BY <1>2 DEF PoInv, Policy!policyd_status_message_prefix
<1> QED  BY <1>1, <1>2

(* Between hooks the overrides in place are those of one whole resource,   *)
(* and the status says so, or there are none, and it calls them broken;    *)
(* none has a key that may not be overridden, and the service follows the  *)
(* files, whatever a hook finds in a resource half way.                    *)
THEOREM OverridesAreWhole == StoresSpec => []OverridesAsTold
<1>1. StoresInit => (part = "policy" => PoInv)
  BY Starts, PoInvInit
<1>2. (part = "policy" => PoInv) /\ [StoresNext]_storesVars => (part = "policy" => PoInv)'
  BY Steps, PoInvStep
<1>3. (part = "policy" => PoInv) => OverridesAsTold
  BY PoInvTold DEF OverridesAsTold
<1> QED  BY <1>1, <1>2, <1>3, PTL DEF StoresSpec
-----------------------------------------------------------------------------
(***************************************************************************)
(* MySQLUsers.  No files are left on the units, and each account has the   *)
(* password of its user's first key in the leader settings.                *)
(***************************************************************************)
NoFiles(s) ==
  /\ s = [settings |-> s.settings, disk |-> s.disk, next |-> s.next]
  /\ s.next \in Nat /\ DOMAIN s.disk = MySQLUnits
  /\ \A u \in MySQLUnits : DOMAIN s.disk[u] = {}

Has(s, user) == MySQL!Known(s, user) # {}
Password(s, user) == s.settings[MySQL!FirstKnown(s, user)]

(* What was known of users is. *)
Keeps(s, t, user) ==
  Has(s, user) => Has(t, user) /\ Password(t, user) = Password(s, user)

LEMMA FirstIsKnown ==
  ASSUME NEW s, NEW user, Has(s, user)
  PROVE  MySQL!FirstKnown(s, user) \in MySQL!Known(s, user)
BY DEF Has, MySQL!Known, MySQL!FirstKnown, MySQL!passwd_keys, MySQL!passwd_file

LEMMA KeysApart ==
  ASSUME NEW u, NEW v, u # v, u # "mysql", v # "mysql"
  PROVE  /\ MySQL!passwd_keys(u) \cap (MySQL!passwd_keys(v) \cup {MySQL!passwd_file(v), <<v>>}) = {}
         /\ MySQL!passwd_file(u) \notin MySQL!passwd_keys(v)
<1>1. /\ \A x, y : <<x>> = <<y>> => x = y
      /\ \A x, y, z, w : <<x, y>> = <<z, w>> => x = z /\ y = w
      /\ \A x, y, z : <<x, y>> # <<z>>
  OBVIOUS
<1> QED  BY <1>1 DEF MySQL!passwd_keys, MySQL!passwd_file, MySQL!RootKey, MySQL!Root

LEMMA KeepsWhen ==
  ASSUME NEW s, NEW t, NEW user,
         \A k \in MySQL!passwd_keys(user) \cup {MySQL!passwd_file(user), <<user>>} :
           /\ k \in DOMAIN t.settings <=> k \in DOMAIN s.settings
           /\ k \in DOMAIN s.settings => t.settings[k] = s.settings[k]
  PROVE  Keeps(s, t, user)
<1>1. MySQL!Known(t, user) = MySQL!Known(s, user)
  BY DEF MySQL!Known
<1>2. MySQL!FirstKnown(t, user) = MySQL!FirstKnown(s, user)
  BY DEF MySQL!FirstKnown
<1>3. Has(s, user) => MySQL!FirstKnown(s, user) \in MySQL!passwd_keys(user) /\ MySQL!FirstKnown(s, user) \in DOMAIN s.settings
  BY FirstIsKnown DEF MySQL!Known
<1> QED  BY <1>1, <1>2, <1>3 DEF Keeps, Has, Password

NoDbHazard == \A h \in MySQL!DbHazards : h \notin dbExposed

(* A password that is asked for is the user's first in the settings, where *)
(* the leader puts a new one.                                              *)
LEMMA GotPassword ==
  ASSUME NoDbHazard, NEW s, NEW u \in MySQLUnits, NEW user, NoFiles(s), user # "mysql",
         u = dbLeader \/ Has(s, user)
  PROVE  LET got == MySQL!get_mysql_password(s, u, user)
         IN  /\ NoFiles(got.store) /\ Has(got.store, user)
             /\ got.password = Password(got.store, user)
             /\ \A v : v # "mysql" => Keeps(s, got.store, v)
<1> DEFINE got == MySQL!get_mysql_password(s, u, user)
           file == MySQL!passwd_file(user)
<1>1. "keep_files" \notin dbExposed /\ "no_migration" \notin dbExposed
  BY DEF NoDbHazard, MySQL!DbHazards
<1>2. CASE Has(s, user)
  <2>1. PICK excludes : got = [[password |-> Password(s, user), store |-> s] EXCEPT
                                 !.store = MySQL!migrate_passwords_to_leader_storage(s, u, excludes)]
    BY <1>1, <1>2 DEF MySQL!get_mysql_password, Has, Password
  <2>2. got.password = Password(s, user) /\ got.store = MySQL!migrate_passwords_to_leader_storage(s, u, excludes)
    BY <2>1
  <2>3. /\ NoFiles(got.store) /\ DOMAIN got.store.settings = DOMAIN s.settings
        /\ \A k \in DOMAIN s.settings : got.store.settings[k] = s.settings[k]
    <3>1. CASE u # dbLeader
      BY <2>2, <3>1 DEF MySQL!migrate_passwords_to_leader_storage
    <3>2. CASE u = dbLeader
      <4> DEFINE files == [f \in DOMAIN s.disk[u] \ excludes |-> s.disk[u][f]]
                 left == [f \in DOMAIN s.disk[u] \cap excludes |-> s.disk[u][f]]
      <4>1. /\ got.store = [settings |-> MySQL!Over(files, s.settings), disk |-> [s.disk EXCEPT ![u] = left],
                            next |-> s.next]
        BY <1>1, <2>2, <3>2 DEF MySQL!migrate_passwords_to_leader_storage, NoFiles
      <4>2. DOMAIN files = {} /\ DOMAIN left = {}
        BY DEF NoFiles
      <4> HIDE DEF files, left
      <4>3. got.store.settings = [k \in DOMAIN s.settings |-> s.settings[k]]
        BY <4>1, <4>2 DEF MySQL!Over
      <4>4. NoFiles(got.store)
        BY <4>1, <4>2 DEF NoFiles
      <4> QED  BY <4>3, <4>4
    <3> QED  BY <3>1, <3>2
  <2>4. \A v : Keeps(s, got.store, v)
    BY <2>3, KeepsWhen
  <2> QED  BY <1>2, <2>2, <2>3, <2>4 DEF Keeps
<1>3. CASE ~Has(s, user)
  <2> DEFINE disked == [s EXCEPT !.disk[u] = MySQL!Over(MySQL!Only(file, s.next), @), !.next = @ + 1]
  <2>0. u = dbLeader /\ MySQL!Known(s, user) = {}
    BY <1>3 DEF Has
  <2>1. got = [[password |-> s.next, store |-> disked] EXCEPT
                 !.store = MySQL!migrate_passwords_to_leader_storage(disked, u, {})]
    BY <1>1, <2>0 DEF MySQL!get_mysql_password, MySQL!get_mysql_password_on_disk, NoFiles
  <2>2. got.password = s.next /\ got.store = MySQL!migrate_passwords_to_leader_storage(disked, u, {})
    BY <2>1
  <2>3. /\ disked = [settings |-> s.settings, disk |-> disked.disk, next |-> s.next + 1]
        /\ DOMAIN disked.disk = MySQLUnits
        /\ DOMAIN disked.disk[u] = {file} /\ disked.disk[u][file] = s.next
        /\ \A v \in MySQLUnits \ {u} : disked.disk[v] = s.disk[v]
    <3> DEFINE new == MySQL!Over(MySQL!Only(file, s.next), s.disk[u])
    <3>1. disked = [settings |-> s.settings, disk |-> [s.disk EXCEPT ![u] = new], next |-> s.next + 1]
      <4>1. disked = [s EXCEPT !.disk = [@ EXCEPT ![u] = new], !.next = @ + 1]
        OBVIOUS
      <4> HIDE DEF new, disked
      <4> QED  BY <4>1 DEF NoFiles
    <3>2. DOMAIN new = {file} /\ new[file] = s.next
      BY DEF NoFiles, MySQL!Over, MySQL!Only
    <3> HIDE DEF new, disked
    <3>3. disked.disk = [s.disk EXCEPT ![u] = new] /\ DOMAIN s.disk = MySQLUnits
      BY <3>1 DEF NoFiles
    <3> QED  BY <3>1, <3>2, <3>3
  <2> HIDE DEF disked
  <2> DEFINE files == [f \in DOMAIN disked.disk[u] \ {} |-> disked.disk[u][f]]
             left == [f \in DOMAIN disked.disk[u] \cap {} |-> disked.disk[u][f]]
  <2>4. got.store = [settings |-> MySQL!Over(files, s.settings), disk |-> [disked.disk EXCEPT ![u] = left],
                     next |-> s.next + 1]
    <3>1. got.store = [disked EXCEPT !.settings = MySQL!Over(files, @), !.disk = [@ EXCEPT ![u] = left]]
      BY <1>1, <2>0, <2>2 DEF MySQL!migrate_passwords_to_leader_storage
    <3> HIDE DEF files, left
    <3>2. PICK d, n : disked = [settings |-> s.settings, disk |-> d, next |-> n] /\ n = s.next + 1
      BY <2>3
    <3>3. got.store = [settings |-> MySQL!Over(files, s.settings), disk |-> [d EXCEPT ![u] = left], next |-> n]
      BY <3>1, <3>2
    <3>4. disked.disk = d
      BY <3>2
    <3> QED  BY <3>2, <3>3, <3>4
  <2>5. DOMAIN files = {file} /\ files[file] = s.next /\ DOMAIN left = {}
    BY <2>3
  <2> HIDE DEF files, left
  <2>6. /\ got.store.settings = MySQL!Over(files, s.settings)
        /\ file \in DOMAIN got.store.settings /\ got.store.settings[file] = s.next
        /\ DOMAIN got.store.settings = DOMAIN s.settings \cup {file}
        /\ \A k \in DOMAIN s.settings : k # file => got.store.settings[k] = s.settings[k]
    BY <2>4, <2>5 DEF MySQL!Over
  <2>7. NoFiles(got.store)
    BY <2>3, <2>4, <2>5 DEF NoFiles
  <2>8. Has(got.store, user) /\ Password(got.store, user) = s.next
    BY <2>6 DEF Has, Password, MySQL!Known, MySQL!FirstKnown, MySQL!passwd_keys, MySQL!passwd_file
  <2>9. ASSUME NEW v, v # "mysql" PROVE Keeps(s, got.store, v)
    <3>1. CASE v = user
      BY <1>3, <3>1 DEF Keeps
    <3>2. CASE v # user
      <4>1. file \notin MySQL!passwd_keys(v)
        BY <2>9, <3>2, KeysApart
      <4> HIDE DEF file
      <4>2. CASE v # MySQL!Root
        <5>1. MySQL!passwd_keys(v) = {MySQL!passwd_file(v), <<v>>}
          BY <4>2 DEF MySQL!passwd_keys
        <5> QED  BY <2>6, <4>1, <5>1, KeepsWhen
      <4>3. CASE v = MySQL!Root
        <5>1. MySQL!passwd_keys(v) = {MySQL!RootKey} /\ MySQL!passwd_file(v) = MySQL!RootKey
          BY <4>3 DEF MySQL!passwd_keys, MySQL!passwd_file
        <5>2. Has(s, v) => MySQL!RootKey \in DOMAIN s.settings
          BY <5>1 DEF Has, MySQL!Known
        <5>3. MySQL!RootKey \in DOMAIN s.settings => Has(got.store, v) /\ Password(got.store, v) = Password(s, v)
          BY <2>6, <4>1, <5>1 DEF Has, Password, MySQL!Known, MySQL!FirstKnown
        <5> QED  BY <5>2, <5>3 DEF Keeps
      <4> QED  BY <4>2, <4>3
    <3> QED  BY <3>1, <3>2
  <2> QED  BY <2>2, <2>7, <2>8, <2>9
<1> QED  BY <1>2, <1>3

Accepted(s, accounts) ==
  \A a \in DOMAIN accounts :
    a[1] # "mysql" /\ Has(s, a[1]) /\ accounts[a] = Password(s, a[1])

Answered(s, accounts, answers) ==
  \A p \in DOMAIN answers :
    /\ p \in MySQL!AskedFor /\ answers[p].user # "mysql"
    /\ Has(s, answers[p].user) /\ answers[p].password = Password(s, answers[p].user)
    /\ \A c \in answers[p].allowed : c \in DOMAIN asked /\
         \A address \in MySQL!AddressesOf(asked[c], p) : <<answers[p].user, address>> \in DOMAIN accounts

(* What the hook asks for. *)
WantsOf(h) == MySQL!Asks(h.client)[h.prefix]
User(h) == WantsOf(h)[<<"username">>]
Database(h) == WantsOf(h)[<<"database">>]

(* The leader's hook has a password when it has served a host. *)
Serves(s, d, h) ==
  h # MySQL!NoClient =>
    /\ h = [client |-> h.client, prefix |-> h.prefix, left |-> h.left, password |-> h.password]
    /\ h.client \in DOMAIN asked /\ h.prefix \in DOMAIN MySQL!Asks(h.client)
    /\ h.left \subseteq WantsOf(h)[<<"hostname">>] /\ DOMAIN d.accounts # {}
    /\ h.left # WantsOf(h)[<<"hostname">>] => Has(s, User(h)) /\ h.password = Password(s, User(h))
    /\ \A host \in WantsOf(h)[<<"hostname">>] \ h.left :
         MySQL!grant_exists(d, Database(h), User(h), MySQL!normalize_address(host))

(* A unit that is not served now has the grant for all its hosts or none. *)
AllOrNone(d, h) ==
  \A c \in DOMAIN asked, p \in MySQL!AskedFor : \A database, user :
    \/ MySQL!Granted(d, database, user, MySQL!AddressesOf(asked[c], p)) \in {{}, MySQL!AddressesOf(asked[c], p)}
    \/ h # MySQL!NoClient /\ c = h.client /\ database = Database(h) /\ user = User(h)

Granting(d) ==
  /\ d = [accounts |-> d.accounts, grants |-> d.grants]
  /\ DOMAIN d.accounts # {} => <<MySQL!Root, MySQL!Local>> \in DOMAIN d.accounts
  /\ \A g \in d.grants : g[1] \in DOMAIN d.accounts

DbInv ==
  MySQL!Spared(MySQL!DbHazards) =>
    /\ asked \in Requests /\ dbLeader \in MySQLUnits /\ ~MySQL!Shared
    /\ NoFiles(store) /\ Granting(db)
    /\ Accepted(store, db.accounts)
    /\ Answered(store, db.accounts, handed)
    /\ Serves(store, db, dbHook)
    /\ AllOrNone(db, dbHook)

LEMMA AskedHosts ==
  ASSUME CompleteRequests, asked \in Requests, NEW c \in DOMAIN asked
  PROVE  /\ c # ""
         /\ \A p, q \in LookedUpBy(asked) : MySQL!AddressesOf(asked[c], p) = MySQL!AddressesOf(asked[c], q)
         /\ \A p \in DOMAIN MySQL!Asks(c) : /\ MySQL!Asks(c)[p][<<"username">>] # "mysql"
                                            /\ MySQL!Asks(c)[p][<<"hostname">>] = MySQL!HostsOf(asked[c], p)
                                            /\ MySQL!Asks(c)[p][<<"hostname">>] # {}
                                            /\ p \in MySQL!AskedFor
                                            /\ MySQL!Asks(c)[p][<<"database">>] \in LookedUpBy(asked)
         /\ MySQL!AskedFor \subseteq LookedUpBy(asked)
<1>1. \A p, q \in LookedUpBy(asked) : MySQL!HostsOf(asked[c], p) = MySQL!HostsOf(asked[c], q)
  BY DEF CompleteRequests
<1>2. \A p \in DOMAIN MySQL!Asks(c) : /\ MySQL!Asks(c)[p][<<"username">>] # "mysql"
                                      /\ MySQL!Asks(c)[p][<<"hostname">>] = MySQL!HostsOf(asked[c], p)
                                      /\ MySQL!Asks(c)[p][<<"hostname">>] # {}
  BY DEF CompleteRequests, MySQL!Asks
<1>3. \A d \in DOMAIN asked : \A p \in DOMAIN MySQL!Asks(d) :
        p \in LookedUpBy(asked) /\ MySQL!Asks(d)[p][<<"database">>] \in LookedUpBy(asked)
  BY DEF LookedUpBy, MySQL!Asks
<1> QED  BY <1>1, <1>2, <1>3 DEF CompleteRequests, MySQL!AddressesOf, MySQL!AskedFor

LEMMA DbInvInit == CompleteRequests /\ MySQL!DbInit => DbInv
<1> SUFFICES ASSUME CompleteRequests, MySQL!DbInit, MySQL!Spared(MySQL!DbHazards) PROVE DbInv
  BY DEF DbInv
<1>1. /\ asked \in Requests /\ dbLeader \in MySQLUnits /\ handed = << >> /\ dbHook = MySQL!NoClient
      /\ ~MySQL!Shared /\ ~MySQL!PartlyGranted
  BY DEF MySQL!DbInit, MySQL!Spared, MySQL!DbHazards
<1>2. NoFiles(store)
  <2>1. store = [settings |-> store.settings, disk |-> [u \in MySQLUnits |-> << >>], next |-> store.next]
    BY DEF MySQL!DbInit
  <2>2. store.next \in Nat
    BY DEF MySQL!DbInit
  <2> QED  BY <2>1, <2>2 DEF NoFiles
<1>3. Granting(db) /\ Accepted(store, db.accounts)
  <2>1. CASE db = [accounts |-> << >>, grants |-> {}]
    BY <2>1 DEF Granting, Accepted
  <2>2. CASE /\ store.settings = MySQL!Over(MySQL!Only(MySQL!RootKey, 1), MySQL!Only(<<"nova">>, 2))
             /\ db = [accounts |-> MySQL!Over(MySQL!Only(<<MySQL!Root, MySQL!Local>>, 1), MySQL!Only(<<"nova", "h1">>, 2)),
                      grants |-> {<<<<"nova", "h1">>, "db">>}]
    <3>0. /\ <<"mysql">> # <<"nova">> /\ <<"mysql">> # <<"mysql", "nova">> /\ <<"nova">> # <<"mysql", "nova">>
          /\ <<"root", "localhost">> # <<"nova", "h1">>
      OBVIOUS
    <3>1. /\ DOMAIN store.settings = {<<"mysql">>, <<"nova">>}
          /\ store.settings[<<"mysql">>] = 1 /\ store.settings[<<"nova">>] = 2
      BY <2>2, <3>0 DEF MySQL!Over, MySQL!Only, MySQL!RootKey
    <3>2. /\ DOMAIN db.accounts = {<<"root", "localhost">>, <<"nova", "h1">>}
          /\ db.accounts[<<"root", "localhost">>] = 1 /\ db.accounts[<<"nova", "h1">>] = 2
          /\ db.grants = {<<<<"nova", "h1">>, "db">>} /\ db = [accounts |-> db.accounts, grants |-> db.grants]
      BY <2>2, <3>0 DEF MySQL!Over, MySQL!Only, MySQL!Root, MySQL!Local
    <3>3. /\ Has(store, "root") /\ Password(store, "root") = 1
          /\ Has(store, "nova") /\ Password(store, "nova") = 2
      BY <3>0, <3>1 DEF Has, Password, MySQL!Known, MySQL!FirstKnown, MySQL!passwd_keys, MySQL!passwd_file, MySQL!RootKey,
         MySQL!Root
    <3> QED  BY <3>2, <3>3 DEF Granting, Accepted, MySQL!Root, MySQL!Local
  <2> QED  BY <2>1, <2>2 DEF MySQL!DbInit
<1>4. AllOrNone(db, dbHook)
  <2> SUFFICES ASSUME NEW c \in DOMAIN asked, NEW p \in MySQL!AskedFor, NEW database, NEW user,
                      MySQL!Granted(db, database, user, MySQL!AddressesOf(asked[c], p)) # {}
               PROVE  MySQL!Granted(db, database, user, MySQL!AddressesOf(asked[c], p))
                        = MySQL!AddressesOf(asked[c], p)
    BY DEF AllOrNone
  <2>1. PICK a : <<<<user, a>>, database>> \in db.grants
    BY DEF MySQL!Granted, MySQL!grant_exists
  <2>2. <<<<user, a>>, database>>[2] = database /\ <<<<user, a>>, database>>[1][1] = user
    OBVIOUS
  <2> QED  BY <1>1, <2>1, <2>2 DEF MySQL!PartlyGranted
<1>5. Answered(store, db.accounts, handed)
  BY <1>1 DEF Answered
<1>6. Serves(store, db, dbHook)
  BY <1>1 DEF Serves
<1> QED  BY <1>1, <1>2, <1>3, <1>4, <1>5, <1>6 DEF DbInv

LEMMA PasswordsKept ==
  ASSUME NEW s, NEW t, \A v : v # "mysql" => Keeps(s, t, v), CompleteRequests, asked \in Requests,
         NEW accounts, NEW answers, NEW d, NEW h
  PROVE  /\ Accepted(s, accounts) => Accepted(t, accounts)
         /\ Answered(s, accounts, answers) => Answered(t, accounts, answers)
         /\ Serves(s, d, h) => Serves(t, d, h)
<1>1. Serves(s, d, h) /\ h # MySQL!NoClient => User(h) # "mysql"
  BY AskedHosts DEF Serves, User, WantsOf
<1> QED  BY <1>1 DEF Keeps, Accepted, Answered, Serves

(* The invariant after a step, from what the step leaves. *)
LEMMA AsBefore ==
  ASSUME asked \in Requests, ~MySQL!Shared, asked' = asked, dbLeader' \in MySQLUnits,
         NoFiles(store'), Granting(db'), Accepted(store', db'.accounts),
         Answered(store', db'.accounts, handed'), NEW h, h = dbHook',
         Serves(store', db', h), AllOrNone(db', h)
  PROVE  DbInv'
<1>1. Serves(store, db, dbHook)' /\ AllOrNone(db, dbHook)'
  BY DEF Serves, AllOrNone, User, Database, WantsOf, MySQL!Asks, MySQL!AskedFor
<1>2. Answered(store, db.accounts, handed)' /\ Accepted(store, db.accounts)'
  BY DEF Answered, Accepted, MySQL!AskedFor, MySQL!Asks
<1>3. asked' \in Requests /\ ~MySQL!Shared'
  BY DEF MySQL!Shared, MySQL!AskedFor, MySQL!Asks
<1>4. NoFiles(store)' /\ Granting(db)' /\ (dbLeader \in MySQLUnits)'
  OBVIOUS
<1> QED  BY <1>1, <1>2, <1>3, <1>4 DEF DbInv

(* Steps that only change the passwords known. *)
LEMMA DbInvKept ==
  ASSUME DbInv, NoDbHazard, CompleteRequests, NoFiles(store'), \A v : v # "mysql" => Keeps(store, store', v),
         UNCHANGED <<dbExposed, asked, dbLeader, db, handed, dbHook>>
  PROVE  DbInv'
<1>1. /\ asked \in Requests /\ dbLeader \in MySQLUnits /\ ~MySQL!Shared
      /\ Granting(db) /\ Accepted(store, db.accounts) /\ Answered(store, db.accounts, handed)
      /\ Serves(store, db, dbHook) /\ AllOrNone(db, dbHook)
  BY DEF DbInv, NoDbHazard, MySQL!Spared
<1>2. /\ Accepted(store', db.accounts) /\ Answered(store', db.accounts, handed)
      /\ Serves(store', db, dbHook)
  BY <1>1, PasswordsKept
<1>3. /\ asked' \in Requests /\ dbLeader' \in MySQLUnits /\ ~MySQL!Shared'
      /\ Granting(db') /\ AllOrNone(db, dbHook)'
  BY <1>1 DEF MySQL!Shared, MySQL!AskedFor, MySQL!Asks, Granting, AllOrNone, User, Database, WantsOf
<1>5. Serves(store, db, dbHook)'
  BY <1>2 DEF Serves, User, Database, WantsOf, MySQL!Asks
<1>6. Answered(store, db.accounts, handed)' /\ Accepted(store, db.accounts)'
  BY <1>2 DEF Answered, Accepted, MySQL!AskedFor, MySQL!Asks
<1> QED  BY <1>3, <1>5, <1>6 DEF DbInv

LEMMA HostConfigured ==
  ASSUME DbInv, NoDbHazard, CompleteRequests, NEW host, MySQL!configure_db(host)
  PROVE  DbInv'
<1> DEFINE h == dbHook  user == User(h)  database == Database(h)
           address == MySQL!normalize_address(host)
           mine == MySQL!get_mysql_password(store, dbLeader, user)
           hosts == WantsOf(h)[<<"hostname">>]
<1>1. /\ asked \in Requests /\ dbLeader \in MySQLUnits /\ ~MySQL!Shared /\ NoFiles(store)
      /\ Granting(db) /\ Accepted(store, db.accounts) /\ Answered(store, db.accounts, handed)
      /\ Serves(store, db, dbHook) /\ AllOrNone(db, dbHook)
  BY DEF DbInv, NoDbHazard, MySQL!Spared
<1>2. /\ h # MySQL!NoClient /\ host \in h.left /\ store' = mine.store
      /\ dbHook' = [h EXCEPT !.left = @ \ {host}, !.password = mine.password]
      /\ db' = IF MySQL!grant_exists(db, database, user, address) THEN db
               ELSE MySQL!create_grant(db, database, user, address, mine.password)
      /\ UNCHANGED <<asked, dbLeader, handed>>
  <2>1. MySQL!configure_db(host) => h # MySQL!NoClient
    <3>1. MySQL!NoClient.client = ""
      BY DEF MySQL!NoClient
    <3> QED  BY <3>1 DEF MySQL!configure_db, MySQL!Serving
  <2>2. User(h) = MySQL!Wants[<<"username">>] /\ Database(h) = MySQL!Wants[<<"database">>]
    BY DEF MySQL!Wants, WantsOf, User, Database
  <2> QED  BY <2>1, <2>2 DEF MySQL!configure_db
<1>3. /\ h.client \in DOMAIN asked /\ h.prefix \in DOMAIN MySQL!Asks(h.client) /\ h.client # ""
      /\ h = [client |-> h.client, prefix |-> h.prefix, left |-> h.left, password |-> h.password]
      /\ user # "mysql" /\ host \in hosts /\ h.left \subseteq hosts
      /\ hosts = MySQL!HostsOf(asked[h.client], h.prefix) /\ h.prefix \in MySQL!AskedFor
  BY <1>1, <1>2, AskedHosts DEF Serves, User, WantsOf
<1>4. /\ NoFiles(store') /\ Has(store', user) /\ mine.password = Password(store', user)
      /\ \A v : v # "mysql" => Keeps(store, store', v)
  BY <1>1, <1>2, <1>3, GotPassword
<1>5. /\ Accepted(store', db.accounts) /\ Answered(store', db.accounts, handed)
      /\ Serves(store', db, dbHook)
  BY <1>1, <1>4, PasswordsKept
<1> HIDE DEF mine
<1>6. /\ DOMAIN db.accounts \subseteq DOMAIN db'.accounts /\ Accepted(store', db'.accounts)
      /\ Granting(db')
      /\ \A g : g \in db'.grants <=> g \in db.grants \/ g = <<<<user, address>>, database>>
  <2>1. CASE MySQL!grant_exists(db, database, user, address)
    BY <1>1, <1>2, <1>5, <2>1 DEF MySQL!grant_exists
  <2>2. CASE ~MySQL!grant_exists(db, database, user, address)
    <3>1. db' = MySQL!create_grant(db, database, user, address, mine.password)
      BY <1>2, <2>2
    <3>2. /\ db' = [grants |-> db.grants \cup {<<<<user, address>>, database>>}, accounts |-> db'.accounts]
          /\ DOMAIN db'.accounts = DOMAIN db.accounts \cup {<<user, address>>}
          /\ \A a \in DOMAIN db'.accounts :
               \/ a \in DOMAIN db.accounts /\ db'.accounts[a] = db.accounts[a]
               \/ a = <<user, address>> /\ db'.accounts[a] = mine.password
      <4>1. PICK accounts : /\ db' = [grants |-> db.grants \cup {<<<<user, address>>, database>>}, accounts |-> accounts]
                            /\ accounts = IF eight THEN MySQL!Over(db.accounts, MySQL!Only(<<user, address>>, mine.password))
                                          ELSE MySQL!Over(MySQL!Only(<<user, address>>, mine.password), db.accounts)
        BY <3>1 DEF MySQL!create_grant
      <4>2. db'.accounts = accounts
        BY <4>1
      <4>3. /\ DOMAIN accounts = DOMAIN db.accounts \cup {<<user, address>>}
            /\ \A a \in DOMAIN accounts :
                 \/ a \in DOMAIN db.accounts /\ accounts[a] = db.accounts[a]
                 \/ a = <<user, address>> /\ accounts[a] = mine.password
        BY <4>1 DEF MySQL!Over, MySQL!Only
      <4> QED  BY <4>1, <4>2, <4>3
    <3>3. <<user, address>>[1] = user /\ \A g : g = <<<<user, address>>, database>> => g[1] = <<user, address>>
      OBVIOUS
    <3>4. Accepted(store', db'.accounts)
      BY <1>3, <1>4, <1>5, <3>2, <3>3 DEF Accepted
    <3>5. Granting(db')
      <4>1. db'.grants = db.grants \cup {<<<<user, address>>, database>>}
        BY <3>2
      <4>2. DOMAIN db.accounts # {}
        BY <1>1, <1>2 DEF Serves
      <4> QED  BY <1>1, <3>2, <3>3, <4>1, <4>2 DEF Granting
    <3> QED  BY <3>2, <3>4, <3>5
  <2> QED  BY <2>1, <2>2
<1> DEFINE next == [client |-> h.client, prefix |-> h.prefix, left |-> h.left \ {host}, password |-> Password(store', user)]
<1>7. dbHook' = next /\ User(next) = user /\ Database(next) = database /\ WantsOf(next) = WantsOf(h)
  <2>1. dbHook' = next
    BY <1>2, <1>3, <1>4
  <2>2. next.client = h.client /\ next.prefix = h.prefix
    OBVIOUS
  <2> QED  BY <2>1, <2>2 DEF User, Database, WantsOf
<1>8. Serves(store', db', next)
  <2>1. next.left = h.left \ {host} /\ next.password = Password(store', user) /\ next.client = h.client
        /\ next.prefix = h.prefix
    OBVIOUS
  <2>2. DOMAIN db'.accounts # {}
    BY <1>1, <1>2, <1>6 DEF Serves
  <2>3. ASSUME NEW other \in WantsOf(next)[<<"hostname">>] \ next.left
        PROVE  MySQL!grant_exists(db', Database(next), User(next), MySQL!normalize_address(other))
    <3>1. other = host \/ other \in WantsOf(h)[<<"hostname">>] \ h.left
      BY <1>7, <2>1
    <3>2. CASE other = host
      BY <1>6, <1>7, <3>2 DEF MySQL!grant_exists
    <3>3. CASE other \in WantsOf(h)[<<"hostname">>] \ h.left
      <4>1. MySQL!grant_exists(db, database, user, MySQL!normalize_address(other))
        BY <1>1, <1>2, <3>3 DEF Serves
      <4> QED  BY <1>6, <1>7, <4>1 DEF MySQL!grant_exists
    <3> QED  BY <3>1, <3>2, <3>3
  <2>4. next = [client |-> next.client, prefix |-> next.prefix, left |-> next.left, password |-> next.password]
    BY <2>1
  <2> HIDE DEF next
  <2> QED  BY <1>3, <1>4, <1>7, <2>1, <2>2, <2>3, <2>4 DEF Serves
<1>9. AllOrNone(db', next)
  <2> SUFFICES ASSUME NEW c \in DOMAIN asked, NEW p \in MySQL!AskedFor, NEW base, NEW name,
                      ~(c = h.client /\ base = database /\ name = user)
               PROVE  MySQL!Granted(db', base, name, MySQL!AddressesOf(asked[c], p))
                        \in {{}, MySQL!AddressesOf(asked[c], p)}
    <3>1. next # MySQL!NoClient /\ next.client = h.client
      BY <1>3 DEF MySQL!NoClient
    <3> HIDE DEF next
    <3> QED  BY <1>7, <3>1 DEF AllOrNone
  <2> DEFINE addresses == MySQL!AddressesOf(asked[c], p)
  <2>1. MySQL!Granted(db, base, name, addresses) \in {{}, addresses}
    BY <1>1 DEF AllOrNone
  <2>2. \A a \in addresses : <<<<name, a>>, base>> # <<<<user, address>>, database>>
    <3>1. CASE base # database \/ name # user
      BY <3>1
    <3>2. CASE c # h.client
      <4>1. address \in MySQL!AddressesOf(asked[h.client], h.prefix)
        BY <1>3 DEF MySQL!AddressesOf
      <4>2. MySQL!AddressesOf(asked[h.client], h.prefix) = MySQL!AddressesOf(asked[h.client], p)
        <5>1. p \in LookedUpBy(asked) /\ h.prefix \in LookedUpBy(asked)
          BY <1>1, <1>3, AskedHosts
        <5> QED  BY <1>1, <1>3, <5>1, AskedHosts
      <4>3. addresses \cap MySQL!AddressesOf(asked[h.client], p) = {}
        BY <1>1, <1>3, <3>2 DEF MySQL!Shared
      <4> QED  BY <4>1, <4>2, <4>3
    <3> QED  BY <3>1, <3>2
  <2>3. MySQL!Granted(db', base, name, addresses) = MySQL!Granted(db, base, name, addresses)
    BY <1>6, <2>2 DEF MySQL!Granted, MySQL!grant_exists
  <2> QED  BY <2>1, <2>3
<1>10. Answered(store', db'.accounts, handed)
  BY <1>5, <1>6 DEF Answered
<1> HIDE DEF next
<1> QED  BY <1>1, <1>2, <1>4, <1>6, <1>7, <1>8, <1>9, <1>10, AsBefore

LEMMA ClientServed ==
  ASSUME DbInv, NoDbHazard, CompleteRequests, MySQL!ServeClient
  PROVE  DbInv'
<1> DEFINE h == dbHook  user == User(h)  database == Database(h)
           hosts == WantsOf(h)[<<"hostname">>]
           prefix == IF h.prefix = "MYSQL" THEN database ELSE h.prefix
           allowed == MySQL!get_allowed_units(db, database, user, prefix)
           answer == [user |-> user, password |-> h.password, allowed |-> allowed]
<1>1. /\ asked \in Requests /\ dbLeader \in MySQLUnits /\ ~MySQL!Shared /\ NoFiles(store)
      /\ Granting(db) /\ Accepted(store, db.accounts) /\ Answered(store, db.accounts, handed)
      /\ Serves(store, db, dbHook) /\ AllOrNone(db, dbHook)
  BY DEF DbInv, NoDbHazard, MySQL!Spared
<1>2. /\ h # MySQL!NoClient /\ h.left = {} /\ dbHook' = MySQL!NoClient
      /\ handed' = MySQL!Over(MySQL!Only(h.prefix, answer), handed)
      /\ UNCHANGED <<asked, dbLeader, store, db>>
  <2>1. MySQL!ServeClient => h # MySQL!NoClient
    <3>1. MySQL!NoClient.client = ""
      BY DEF MySQL!NoClient
    <3> QED  BY <3>1 DEF MySQL!ServeClient, MySQL!Serving
  <2>2. User(h) = MySQL!Wants[<<"username">>] /\ Database(h) = MySQL!Wants[<<"database">>]
    BY DEF MySQL!Wants, WantsOf, User, Database
  <2> QED  BY <2>1, <2>2 DEF MySQL!ServeClient
<1>3. /\ h.client \in DOMAIN asked /\ h.prefix \in DOMAIN MySQL!Asks(h.client)
      /\ user # "mysql" /\ hosts = MySQL!HostsOf(asked[h.client], h.prefix)
      /\ h.prefix \in MySQL!AskedFor /\ h.prefix \in LookedUpBy(asked) /\ prefix \in LookedUpBy(asked)
      /\ Has(store, user) /\ h.password = Password(store, user)
  <2>1. h.client \in DOMAIN asked /\ h.prefix \in DOMAIN MySQL!Asks(h.client)
    BY <1>1, <1>2 DEF Serves
  <2>2. user # "mysql" /\ hosts = MySQL!HostsOf(asked[h.client], h.prefix) /\ hosts # {}
        /\ h.prefix \in MySQL!AskedFor /\ database \in LookedUpBy(asked)
    BY <1>1, <2>1, AskedHosts DEF User, Database, WantsOf
  <2>3. h.prefix \in LookedUpBy(asked)
    BY <1>1, <2>1, <2>2, AskedHosts
  <2> QED  BY <1>1, <1>2, <2>1, <2>2, <2>3 DEF Serves
<1>4. AllOrNone(db, MySQL!NoClient)
  <2> SUFFICES ASSUME NEW c \in DOMAIN asked, NEW p \in MySQL!AskedFor, NEW base, NEW name
               PROVE  MySQL!Granted(db, base, name, MySQL!AddressesOf(asked[c], p))
                        \in {{}, MySQL!AddressesOf(asked[c], p)}
    BY DEF AllOrNone
  <2>1. CASE ~(c = h.client /\ base = database /\ name = user)
    BY <1>1, <2>1 DEF AllOrNone
  <2>2. CASE c = h.client /\ base = database /\ name = user
    <3>1. MySQL!AddressesOf(asked[c], p) = MySQL!AddressesOf(asked[c], h.prefix)
      <4>1. p \in LookedUpBy(asked)
        BY <1>1, AskedHosts
      <4> QED  BY <1>1, <1>3, <4>1, AskedHosts
    <3>2. \A host \in hosts : MySQL!grant_exists(db, base, name, MySQL!normalize_address(host))
      BY <1>1, <1>2, <2>2 DEF Serves
    <3>3. \A a \in MySQL!AddressesOf(asked[c], p) : MySQL!grant_exists(db, base, name, a)
      BY <1>3, <2>2, <3>1, <3>2 DEF MySQL!AddressesOf
    <3> QED  BY <3>3 DEF MySQL!Granted
  <2> QED  BY <2>1, <2>2
<1>5. ASSUME NEW c \in allowed
      PROVE  /\ c \in DOMAIN asked
             /\ \A address \in MySQL!AddressesOf(asked[c], h.prefix) : <<user, address>> \in DOMAIN db.accounts
  <2>1. /\ c \in DOMAIN asked
        /\ MySQL!Granted(db, database, user, MySQL!AddressesOf(asked[c], prefix)) # {}
    BY <1>5 DEF MySQL!get_allowed_units
  <2>2. MySQL!AddressesOf(asked[c], prefix) = MySQL!AddressesOf(asked[c], h.prefix)
    BY <1>1, <1>3, <2>1, AskedHosts
  <2>3. MySQL!Granted(db, database, user, MySQL!AddressesOf(asked[c], h.prefix)) = MySQL!AddressesOf(asked[c], h.prefix)
    BY <1>3, <1>4, <2>1, <2>2 DEF AllOrNone
  <2>4. ASSUME NEW address \in MySQL!AddressesOf(asked[c], h.prefix)
        PROVE  <<user, address>> \in DOMAIN db.accounts
    <3>1. <<<<user, address>>, database>> \in db.grants
      BY <2>3, <2>4 DEF MySQL!Granted, MySQL!grant_exists
    <3>2. <<<<user, address>>, database>>[1] = <<user, address>>
      OBVIOUS
    <3> QED  BY <1>1, <3>1, <3>2 DEF Granting
  <2> QED  BY <2>1, <2>4
<1>6. Answered(store, db.accounts, handed')
  <2>1. /\ answer.user = user /\ answer.password = h.password /\ answer.allowed = allowed
    OBVIOUS
  <2> HIDE DEF answer, allowed
  <2>2. \A p \in DOMAIN handed' : \/ p = h.prefix /\ handed'[p] = answer
                                  \/ p \in DOMAIN handed /\ handed'[p] = handed[p]
    BY <1>2 DEF MySQL!Over, MySQL!Only
  <2> QED  BY <1>1, <1>3, <1>5, <2>1, <2>2 DEF Answered
<1>7. Serves(store', db', MySQL!NoClient)
  BY DEF Serves
<1> QED  BY <1>1, <1>2, <1>4, <1>6, <1>7, AsBefore

(* The leader has the root password of a database that there is. *)
LEMMA RootKnown ==
  ASSUME DbInv, NoDbHazard, MySQL!Installed
  PROVE  Has(store, MySQL!Root)
<1>1. <<MySQL!Root, MySQL!Local>> \in DOMAIN db.accounts /\ <<MySQL!Root, MySQL!Local>>[1] = MySQL!Root
  BY DEF DbInv, NoDbHazard, MySQL!Spared, Granting, MySQL!Installed
<1>2. Accepted(store, db.accounts)
  BY DEF DbInv, NoDbHazard, MySQL!Spared
<1> QED  BY <1>1, <1>2 DEF Accepted

LEMMA ClientConnected ==
  ASSUME DbInv, NoDbHazard, CompleteRequests, NEW c \in DOMAIN asked, NEW prefix \in DOMAIN MySQL!Asks(c),
         MySQL!Connect(c, prefix)
  PROVE  DbInv'
<1> DEFINE root == MySQL!get_mysql_password(store, dbLeader, MySQL!Root)
           next == [client |-> c, prefix |-> prefix, password |-> 0,
                    left |-> MySQL!Asks(c)[prefix][<<"hostname">>]]
<1>1. /\ asked \in Requests /\ dbLeader \in MySQLUnits /\ ~MySQL!Shared /\ NoFiles(store)
      /\ Granting(db) /\ Accepted(store, db.accounts) /\ Answered(store, db.accounts, handed)
      /\ Serves(store, db, dbHook) /\ AllOrNone(db, dbHook)
  BY DEF DbInv, NoDbHazard, MySQL!Spared
<1>2. /\ dbHook = MySQL!NoClient /\ DOMAIN db.accounts # {}
      /\ store' = root.store /\ dbHook' \in {next, dbHook}
      /\ UNCHANGED <<dbExposed, asked, dbLeader, handed, db>>
  <2>1. ~MySQL!Serving => dbHook = MySQL!NoClient
    BY <1>1, AskedHosts DEF Serves, MySQL!Serving
  <2> QED  BY <2>1 DEF MySQL!Connect, MySQL!Installed
<1>3. NoFiles(store') /\ \A v : v # "mysql" => Keeps(store, store', v)
  BY <1>1, <1>2, GotPassword DEF MySQL!Root
<1>4. CASE dbHook' = dbHook
  BY <1>2, <1>3, <1>4, DbInvKept
<1>5. CASE dbHook' = next
  <2>1. Accepted(store', db.accounts) /\ Answered(store', db.accounts, handed)
    BY <1>1, <1>3, PasswordsKept
  <2>2. next.client = c /\ next.prefix = prefix /\ next.left = MySQL!Asks(c)[prefix][<<"hostname">>]
        /\ next = [client |-> next.client, prefix |-> next.prefix, left |-> next.left, password |-> next.password]
    OBVIOUS
  <2> HIDE DEF next
  <2>3. Serves(store', db, next)
    BY <1>2, <2>2 DEF Serves, WantsOf
  <2>4. AllOrNone(db, next)
    BY <1>1, <1>2 DEF AllOrNone
  <2> QED  BY <1>1, <1>2, <1>3, <1>5, <2>1, <2>3, <2>4, AsBefore
<1> QED  BY <1>2, <1>4, <1>5

LEMMA Bootstrapped ==
  ASSUME DbInv, NoDbHazard, CompleteRequests, MySQL!Bootstrap
  PROVE  DbInv'
<1> DEFINE root == MySQL!get_mysql_password(store, dbLeader, MySQL!Root)
           accounts == MySQL!Only(<<MySQL!Root, MySQL!Local>>, root.password)
<1>1. /\ asked \in Requests /\ dbLeader \in MySQLUnits /\ ~MySQL!Shared /\ NoFiles(store)
      /\ Granting(db) /\ Accepted(store, db.accounts) /\ Answered(store, db.accounts, handed)
      /\ Serves(store, db, dbHook) /\ AllOrNone(db, dbHook)
  BY DEF DbInv, NoDbHazard, MySQL!Spared
<1>2. /\ dbHook = MySQL!NoClient /\ DOMAIN db.accounts = {} /\ store' = root.store
      /\ db' = [db EXCEPT !.accounts = accounts]
      /\ UNCHANGED <<asked, dbLeader, handed, dbHook>>
  <2>1. ~MySQL!Serving => dbHook = MySQL!NoClient
    BY <1>1, AskedHosts DEF Serves, MySQL!Serving
  <2> QED  BY <2>1 DEF MySQL!Bootstrap, MySQL!Installed
<1>3. /\ NoFiles(store') /\ \A v : v # "mysql" => Keeps(store, store', v)
      /\ Has(store', MySQL!Root) /\ root.password = Password(store', MySQL!Root)
  BY <1>1, <1>2, GotPassword DEF MySQL!Root
<1>4. DOMAIN accounts = {<<MySQL!Root, MySQL!Local>>} /\ accounts[<<MySQL!Root, MySQL!Local>>] = root.password
      /\ <<MySQL!Root, MySQL!Local>>[1] = MySQL!Root
  BY DEF MySQL!Only
<1> HIDE DEF accounts, root
<1>5. db' = [accounts |-> accounts, grants |-> db.grants] /\ db.grants = {}
  BY <1>1, <1>2 DEF Granting
<1>6. db'.accounts = accounts /\ db'.grants = {} /\ Granting(db')
  BY <1>4, <1>5 DEF Granting
<1>7. Accepted(store', db'.accounts)
  BY <1>3, <1>4, <1>6 DEF Accepted, MySQL!Root
<1>8. Answered(store', db.accounts, handed)
  BY <1>1, <1>3, PasswordsKept
<1>9. Answered(store', db'.accounts, handed)
  BY <1>2, <1>8 DEF Answered
<1>10. Serves(store', db', MySQL!NoClient)
  BY DEF Serves
<1>11. AllOrNone(db', MySQL!NoClient)
  BY <1>6 DEF AllOrNone, MySQL!Granted, MySQL!grant_exists
<1> QED  BY <1>1, <1>2, <1>3, <1>6, <1>7, <1>9, <1>10, <1>11, AsBefore

LEMMA PasswordSet ==
  ASSUME DbInv, NoDbHazard, CompleteRequests, NEW user, user \in {a[1] : a \in DOMAIN db.accounts},
         NEW changed, changed \subseteq MySQL!Accounts(user), MySQL!set_mysql_password(user, changed)
  PROVE  DbInv'
<1> DEFINE current == MySQL!get_mysql_password(store, dbLeader, user)
           new == current.store.next
           s == [current.store EXCEPT !.next = @ + 1]
           set == [k \in MySQL!Known(s, user) |-> new]
           accounts == MySQL!Over([a \in MySQL!Accounts(user) |-> new], db.accounts)
<1>1. /\ asked \in Requests /\ dbLeader \in MySQLUnits /\ ~MySQL!Shared /\ NoFiles(store)
      /\ Granting(db) /\ Accepted(store, db.accounts) /\ Answered(store, db.accounts, handed)
      /\ Serves(store, db, dbHook) /\ AllOrNone(db, dbHook)
  BY DEF DbInv, NoDbHazard, MySQL!Spared
<1>2. /\ dbHook = MySQL!NoClient /\ changed = MySQL!Accounts(user) /\ user # "mysql"
      /\ UNCHANGED <<dbExposed, asked, dbLeader, dbHook>>
  <2>1. ~MySQL!Serving => dbHook = MySQL!NoClient
    BY <1>1, AskedHosts DEF Serves, MySQL!Serving
  <2>2. "some_hosts" \notin dbExposed
    BY DEF NoDbHazard, MySQL!DbHazards
  <2>3. user # "mysql"
    BY <1>1 DEF Accepted
  <2> QED  BY <2>1, <2>2, <2>3 DEF MySQL!set_mysql_password
<1>3. /\ NoFiles(current.store) /\ Has(current.store, user)
      /\ \A v : v # "mysql" => Keeps(store, current.store, v)
  BY <1>1, <1>2, GotPassword
<1>4. CASE ~MySQL!Connects(user, current.password)
  BY <1>2, <1>3, <1>4, DbInvKept DEF MySQL!set_mysql_password
<1>5. CASE MySQL!Connects(user, current.password)
  <2>1. /\ db' = [db EXCEPT !.accounts = accounts]
        /\ store' = MySQL!_update_leader_settings(s, user, new)
        /\ handed' = [p \in {q \in DOMAIN handed : handed[q].user # user} |-> handed[p]]
    BY <1>2, <1>5 DEF MySQL!set_mysql_password
  <2>2. /\ s = [settings |-> current.store.settings, disk |-> current.store.disk, next |-> s.next]
        /\ s.next \in Nat
    BY <1>3 DEF NoFiles
  <2>3. MySQL!Known(s, user) = MySQL!Known(current.store, user) /\ MySQL!Known(s, user) # {}
    BY <1>3, <2>2 DEF Has, MySQL!Known
  <2>4. store' = [settings |-> MySQL!Over(set, current.store.settings), disk |-> current.store.disk, next |-> s.next]
    <3>1. store' = [s EXCEPT !.settings = MySQL!Over(set, @)]
      BY <2>1 DEF MySQL!_update_leader_settings
    <3> HIDE DEF s, set
    <3>2. PICK f, d, n : s = [settings |-> f, disk |-> d, next |-> n] /\ f = current.store.settings /\ d = current.store.disk
      BY <2>2
    <3> HIDE DEF current
    <3>3. store' = [settings |-> MySQL!Over(set, f), disk |-> d, next |-> n] /\ s.next = n
      BY <3>1, <3>2
    <3> QED  BY <3>2, <3>3
  <2>5. DOMAIN set = MySQL!Known(current.store, user) /\ \A k \in DOMAIN set : set[k] = new
    BY <2>3
  <2> HIDE DEF set, s
  <2>6. NoFiles(store')
    BY <1>3, <2>2, <2>4 DEF NoFiles
  <2>7. /\ DOMAIN store'.settings = DOMAIN current.store.settings
        /\ \A k \in MySQL!Known(current.store, user) : store'.settings[k] = new
        /\ \A k \in DOMAIN store'.settings \ MySQL!Known(current.store, user) :
             store'.settings[k] = current.store.settings[k]
    BY <2>4, <2>5 DEF MySQL!Over, MySQL!Known
  <2>8. Has(store', user) /\ Password(store', user) = new
    <3>1. MySQL!Known(store', user) = MySQL!Known(current.store, user)
          /\ MySQL!FirstKnown(store', user) = MySQL!FirstKnown(current.store, user)
      BY <2>7 DEF MySQL!Known, MySQL!FirstKnown
    <3> QED  BY <1>3, <2>7, <3>1, FirstIsKnown DEF Has, Password
  <2>9. ASSUME NEW v, v # "mysql", v # user PROVE Keeps(store, store', v)
    <3>1. Keeps(current.store, store', v)
      <4>1. MySQL!passwd_keys(user) \cap (MySQL!passwd_keys(v) \cup {MySQL!passwd_file(v), <<v>>}) = {}
        BY <1>2, <2>9, KeysApart
      <4> QED  BY <2>7, <4>1, KeepsWhen DEF MySQL!Known
    <3> QED  BY <1>3, <2>9, <3>1 DEF Keeps
  <2>10. /\ DOMAIN accounts = DOMAIN db.accounts
         /\ \A a \in DOMAIN db.accounts : accounts[a] = IF a[1] = user THEN new ELSE db.accounts[a]
    BY DEF MySQL!Over, MySQL!Accounts
  <2> HIDE DEF accounts, new
  <2>11. db' = [accounts |-> accounts, grants |-> db.grants]
    BY <1>1, <2>1 DEF Granting
  <2>12. db'.accounts = accounts /\ db'.grants = db.grants /\ Granting(db')
    BY <1>1, <2>10, <2>11 DEF Granting
  <2>13. Accepted(store', db'.accounts)
    BY <1>1, <2>8, <2>9, <2>10, <2>12 DEF Accepted, Keeps
  <2>14. Answered(store', db'.accounts, handed')
    BY <1>1, <2>1, <2>9, <2>10, <2>12 DEF Answered, Keeps
  <2>15. Serves(store', db', MySQL!NoClient)
    BY DEF Serves
  <2>16. AllOrNone(db', MySQL!NoClient)
    BY <1>1, <1>2, <2>12 DEF AllOrNone, MySQL!Granted, MySQL!grant_exists
  <2> QED  BY <1>1, <1>2, <2>6, <2>12, <2>13, <2>14, <2>15, <2>16, AsBefore
<1> QED  BY <1>4, <1>5

LEMMA DbInvStep == DbInv /\ CompleteRequests /\ [MySQL!DbNext]_MySQL!dbVars => DbInv'
<1> SUFFICES ASSUME DbInv, CompleteRequests, [MySQL!DbNext]_MySQL!dbVars, MySQL!Spared(MySQL!DbHazards)' PROVE DbInv'
  BY DEF DbInv
<1>0. dbExposed' = dbExposed
  BY DEF MySQL!DbNext, MySQL!dbVars, MySQL!Bootstrap, MySQL!ChangeDbLeader, MySQL!get_mysql_root_password,
     MySQL!Interrupted, MySQL!Connect, MySQL!configure_db, MySQL!ServeClient, MySQL!set_mysql_password
<1>1. NoDbHazard
  BY <1>0 DEF NoDbHazard, MySQL!Spared
<1>2. /\ asked \in Requests /\ dbLeader \in MySQLUnits /\ ~MySQL!Shared /\ NoFiles(store)
      /\ Granting(db) /\ Accepted(store, db.accounts) /\ Answered(store, db.accounts, handed)
      /\ Serves(store, db, dbHook) /\ AllOrNone(db, dbHook)
  BY <1>1 DEF DbInv, NoDbHazard, MySQL!Spared
<1>3. CASE MySQL!Bootstrap
  BY <1>1, <1>3, Bootstrapped
<1>4. CASE MySQL!ChangeDbLeader
  BY <1>2, <1>4, AsBefore DEF MySQL!ChangeDbLeader
<1>5. ASSUME NEW u \in MySQLUnits, MySQL!get_mysql_root_password(u) PROVE DbInv'
  <2>1. u # dbLeader => Has(store, MySQL!Root)
    <3>1. "follower_first" \notin dbExposed
      BY <1>1 DEF NoDbHazard, MySQL!DbHazards
    <3> QED  BY <1>1, <1>5, <3>1, RootKnown DEF MySQL!get_mysql_root_password
  <2>2. NoFiles(store') /\ \A v : v # "mysql" => Keeps(store, store', v)
    BY <1>1, <1>2, <1>5, <2>1, GotPassword DEF MySQL!get_mysql_root_password, MySQL!Root
  <2> QED  BY <1>1, <1>5, <2>2, DbInvKept DEF MySQL!get_mysql_root_password
<1>6. CASE MySQL!Interrupted("nova")
  BY <1>1, <1>6 DEF MySQL!Interrupted, NoDbHazard, MySQL!DbHazards
<1>7. ASSUME NEW c \in DOMAIN asked, NEW prefix \in DOMAIN MySQL!Asks(c), MySQL!Connect(c, prefix) PROVE DbInv'
  BY <1>1, <1>7, ClientConnected
<1>8. ASSUME NEW host, MySQL!configure_db(host) PROVE DbInv'
  BY <1>1, <1>8, HostConfigured
<1>9. CASE MySQL!ServeClient
  BY <1>1, <1>9, ClientServed
<1>10. ASSUME NEW user \in {a[1] : a \in DOMAIN db.accounts}, NEW changed \in SUBSET MySQL!Accounts(user),
              MySQL!set_mysql_password(user, changed)
       PROVE  DbInv'
  BY <1>1, <1>10, PasswordSet
<1>11. CASE UNCHANGED MySQL!dbVars
  BY <1>2, <1>11, AsBefore DEF MySQL!dbVars
<1> QED  BY <1>3, <1>4, <1>5, <1>6, <1>7, <1>8, <1>9, <1>10, <1>11 DEF MySQL!DbNext

LEMMA DbInvWork == DbInv => MySQL!PasswordsWork
<1> SUFFICES ASSUME DbInv, MySQL!Spared(MySQL!DbHazards) PROVE MySQL!PasswordsWork
  BY DEF MySQL!PasswordsWork
<1>1. /\ dbLeader \in MySQLUnits /\ NoFiles(store) /\ Accepted(store, db.accounts)
      /\ Answered(store, db.accounts, handed)
  BY DEF DbInv
<1>2. NoDbHazard
  BY DEF NoDbHazard, MySQL!Spared
<1>3. ASSUME NEW a \in DOMAIN db.accounts
      PROVE  MySQL!get_mysql_password(store, dbLeader, a[1]).password = db.accounts[a]
  BY <1>1, <1>2, <1>3, GotPassword DEF Accepted, Keeps
<1>4. ASSUME NEW prefix \in DOMAIN handed, NEW c \in handed[prefix].allowed,
             NEW address \in MySQL!AddressesOf(asked[c], prefix)
      PROVE  /\ <<handed[prefix].user, address>> \in DOMAIN db.accounts
             /\ db.accounts[<<handed[prefix].user, address>>] = handed[prefix].password
  <2>1. <<handed[prefix].user, address>>[1] = handed[prefix].user
    OBVIOUS
  <2> QED  BY <1>1, <2>1 DEF Answered, Accepted
<1> QED  BY <1>3, <1>4 DEF MySQL!PasswordsWork

(* Whoever leads, it gives out passwords that the database accepts, after   *)
(* leaders and passwords have changed and with the keys of older charms,   *)
(* and a unit that is told that it is allowed can log in from all of its   *)
(* hosts with the password that it was told.                               *)
THEOREM PasswordsAreAccepted == StoresSpec => []PasswordsWork
<1>1. StoresInit => (part = "mysql" => DbInv)
  BY Starts, DbInvInit, MySQLAssumption
<1>2. (part = "mysql" => DbInv) /\ [StoresNext]_storesVars => (part = "mysql" => DbInv)'
  BY Steps, DbInvStep, MySQLAssumption
<1>3. (part = "mysql" => DbInv) => PasswordsWork
  BY DbInvWork DEF PasswordsWork
<1> QED  BY <1>1, <1>2, <1>3, PTL DEF StoresSpec
-----------------------------------------------------------------------------
(***************************************************************************)
(* CephPools.  A pool of today's request is as asked as soon as the mon is *)
(* through with its operation: what is not right is still to be done, by   *)
(* a command for just that.                                                *)
(***************************************************************************)
Settable == {"size", "quota", "compression"}

Needed(op, key) ==
  IF key = "quota" THEN op.quota
  ELSE IF key = "compression" THEN op.compression
  ELSE IF op.op = "replicated" THEN op.size
  ELSE profiles[op.profile].k + profiles[op.profile].m

IsPool(op) == op.op # "profile"
There(op) == op.name \in (IF IsPool(op) THEN DOMAIN pools ELSE DOMAIN profiles)
ProfileThere(op) == op.op # "replicated" => op.profile \in DOMAIN profiles
ProfileRight(op) == profiles[op.name] = [k |-> op.k, m |-> op.m]

(* What is there of an operation that the mon is not at.                   *)
Whole(op) ==
  There(op) => /\ IsPool(op) => /\ ProfileThere(op)
                                /\ \A key \in Settable : pools[op.name][key] = Needed(op, key)
               /\ ~IsPool(op) => ProfileRight(op)

(* A command of an operation says what is wanted.                          *)
Fits(c, op) ==
  /\ c.name = op.name
  /\ IsPool(op) => c.do \in {"create", "set", "try"}
  /\ ~IsPool(op) => c.do = "set-profile" /\ c.value = [k |-> op.k, m |-> op.m]
  /\ c.do = "create" => DOMAIN c.value = Pools!PoolKeys
  /\ c.do \in {"set", "try"} => c.key \in Pools!PoolKeys
  /\ c.do \in {"set", "try"} /\ c.key \in Settable => c.do = "set" /\ c.value = Needed(op, c.key)

AllFit(S, op) == \A c \in S : Fits(c, op)
CommandsOf(s) == {s[i] : i \in DOMAIN s}
Lists(s, S) == s \in Seq(S) /\ CommandsOf(s) = S
Pending(S, key) == \E c \in S : c.do = "set" /\ c.key = key

(* What the mon still does for an operation.                               *)
Raising(op, todo) == todo # << >> /\ Head(todo).do = "raise" /\ Whole(op)
Making(op, todo) ==
  /\ IsPool(op) /\ ~There(op) /\ ProfileThere(op)
  /\ todo # << >> /\ Head(todo).do = "create"
  /\ \A key \in Settable : Head(todo).value[key] = Needed(op, key) \/ Pending(CommandsOf(todo), key)
Setting(op, todo) ==
  /\ IsPool(op) /\ There(op) /\ ProfileThere(op)
  /\ \A key \in Settable : pools[op.name][key] = Needed(op, key) \/ Pending(CommandsOf(todo), key)
Profiling(op, todo) ==
  /\ ~IsPool(op)
  /\ There(op) => ProfileRight(op)
  /\ There(op) \/ todo # << >>

AtIt(op, todo) ==
  /\ Lists(todo, CommandsOf(todo))
  /\ \/ Raising(op, todo)
     \/ /\ AllFit(CommandsOf(todo), op)
        /\ Making(op, todo) \/ Setting(op, todo) \/ Profiling(op, todo)

Job ==
  /\ poolJob = [op |-> poolJob.op, todo |-> poolJob.todo]
  /\ poolAsked = << >> \/ poolAsked \in PoolRequests
  /\ poolJob.op \in {0} \union DOMAIN poolAsked
  /\ poolJob.op = 0 => poolJob.todo = << >>
  /\ poolServed => poolJob.op = 0
  /\ poolServed \in BOOLEAN

(* Of an operation before the one that the mon is at, all of it is there.  *)
ServedBy(i, op) ==
  /\ i # poolJob.op => Whole(op)
  /\ i < poolJob.op \/ poolServed => There(op)

PoolsKeyed == \A n \in DOMAIN pools : DOMAIN pools[n] = Pools!PoolKeys

Serving ==
  /\ ~Pools!Twice(poolAsked)
  /\ PoolsKeyed
  /\ \A i \in DOMAIN poolAsked : \A op \in {poolAsked[i]} : ServedBy(i, op)
  /\ poolJob.op # 0 =>
       \A op \in {poolAsked[poolJob.op]}, todo \in {poolJob.todo} : AtIt(op, todo)

Calm == Pools!Spared({"command_fails", "other_request"})

PoolInv == Job /\ (Calm => Serving)

(* The commands of a list that is made of two.                             *)
LEMMA Joined2 ==
  ASSUME NEW s, NEW S, NEW t, NEW T, Lists(s, S), Lists(t, T)
  PROVE  /\ Lists(s \o t, S \union T)
         /\ s # << >> => s \o t # << >> /\ Head(s \o t) = Head(s)
<1>1. s \in Seq(S \union T) /\ t \in Seq(S \union T) /\ s \o t \in Seq(S \union T)
  <2>1. s \in Seq(S \union T) /\ t \in Seq(S \union T)
    BY DEF Lists
  <2> QED  BY <2>1
<1>2. /\ DOMAIN s = 1..Len(s) /\ DOMAIN t = 1..Len(t) /\ Len(s) \in Nat /\ Len(t) \in Nat
      /\ DOMAIN (s \o t) = 1..(Len(s) + Len(t))
      /\ \A i \in 1..(Len(s) + Len(t)) : (s \o t)[i] = IF i <= Len(s) THEN s[i] ELSE t[i - Len(s)]
  BY <1>1
<1>3. CommandsOf(s \o t) = S \union T
  <2>1. ASSUME NEW c \in S PROVE c \in CommandsOf(s \o t)
    <3>1. PICK i \in DOMAIN s : s[i] = c
      BY <2>1 DEF Lists, CommandsOf
    <3>2. i \in DOMAIN (s \o t) /\ (s \o t)[i] = c
      BY <1>2, <3>1
    <3> QED  BY <3>2 DEF CommandsOf
  <2>2. ASSUME NEW c \in T PROVE c \in CommandsOf(s \o t)
    <3>1. PICK i \in DOMAIN t : t[i] = c
      BY <2>2 DEF Lists, CommandsOf
    <3>2. i + Len(s) \in DOMAIN (s \o t) /\ (s \o t)[i + Len(s)] = c
      BY <1>2, <3>1
    <3> QED  BY <3>2 DEF CommandsOf
  <2>3. ASSUME NEW c \in CommandsOf(s \o t) PROVE c \in S \union T
    <3>1. PICK i \in DOMAIN (s \o t) : (s \o t)[i] = c
      BY <2>3 DEF CommandsOf
    <3>2. CASE i <= Len(s)
      BY <1>2, <3>1, <3>2 DEF Lists, CommandsOf
    <3>3. CASE ~(i <= Len(s))
      <4>1. i - Len(s) \in DOMAIN t /\ t[i - Len(s)] = c
        BY <1>2, <3>1, <3>3
      <4> QED  BY <4>1 DEF Lists, CommandsOf
    <3> QED  BY <3>2, <3>3
  <2> QED  BY <2>1, <2>2, <2>3
<1>4. s # << >> => s \o t # << >> /\ Head(s \o t) = Head(s)
  BY <1>1, <1>2
<1> QED  BY <1>1, <1>3, <1>4 DEF Lists

LEMMA ListsOf ==
  /\ Lists(<< >>, {})
  /\ \A a : Lists(<<a>>, {a})
  /\ \A a, b : Lists(<<a, b>>, {a, b})
  /\ \A a, b, c : Lists(<<a, b, c>>, {a, b, c})
<1>1. Lists(<< >>, {})
  BY DEF Lists, CommandsOf
<1>2. ASSUME NEW a PROVE Lists(<<a>>, {a})
  BY DEF Lists, CommandsOf
<1>3. ASSUME NEW a, NEW b PROVE Lists(<<a, b>>, {a, b})
  BY DEF Lists, CommandsOf
<1>4. ASSUME NEW a, NEW b, NEW c PROVE Lists(<<a, b, c>>, {a, b, c})
  BY DEF Lists, CommandsOf
<1> QED  BY <1>1, <1>2, <1>3, <1>4

LEMMA OwnCommands ==
  ASSUME NEW S, NEW s \in Seq(S)
  PROVE  s \in Seq(CommandsOf(s))
<1>1. Len(s) \in Nat /\ s \in [1..Len(s) -> S] /\ DOMAIN s = 1..Len(s)
  BY LenProperties
<1>2. s \in [1..Len(s) -> CommandsOf(s)]
  <2>1. \A i \in 1..Len(s) : s[i] \in CommandsOf(s)
    BY <1>1 DEF CommandsOf
  <2> QED  BY <1>1, <2>1
<1> QED  BY <1>1, <1>2, SeqDef

(* The first command is done or not, and the others are left.              *)
LEMMA Shorter ==
  ASSUME NEW todo, Lists(todo, CommandsOf(todo)), todo # << >>
  PROVE  /\ Head(todo) \in CommandsOf(todo)
         /\ Lists(Tail(todo), CommandsOf(Tail(todo)))
         /\ CommandsOf(todo) = {Head(todo)} \union CommandsOf(Tail(todo))
<1> DEFINE S == CommandsOf(todo)
<1>1. todo \in Seq(S) /\ S = {todo[i] : i \in DOMAIN todo}
  BY DEF Lists, CommandsOf
<1> HIDE DEF S
<1>2. /\ Len(todo) \in Nat /\ Len(todo) >= 1 /\ DOMAIN todo = 1..Len(todo) /\ Head(todo) = todo[1]
      /\ Tail(todo) \in Seq(S) /\ DOMAIN Tail(todo) = 1..(Len(todo) - 1)
      /\ \A i \in 1..(Len(todo) - 1) : Tail(todo)[i] = todo[i + 1]
  BY <1>1
<1>3. S = {Head(todo)} \union CommandsOf(Tail(todo))
  <2>1. ASSUME NEW c \in S, c # Head(todo) PROVE c \in CommandsOf(Tail(todo))
    <3>1. PICK i \in DOMAIN todo : todo[i] = c
      BY <1>1, <2>1
    <3>2. i - 1 \in DOMAIN Tail(todo) /\ Tail(todo)[i - 1] = c
      BY <1>2, <2>1, <3>1
    <3> QED  BY <3>2 DEF CommandsOf
  <2>2. ASSUME NEW c \in CommandsOf(Tail(todo)) PROVE c \in S
    <3>1. PICK i \in DOMAIN Tail(todo) : Tail(todo)[i] = c
      BY <2>2 DEF CommandsOf
    <3>2. i + 1 \in DOMAIN todo /\ todo[i + 1] = c
      BY <1>2, <3>1
    <3> QED  BY <1>1, <3>2
  <2>3. Head(todo) \in S
    BY <1>1, <1>2
  <2> QED  BY <2>1, <2>2, <2>3
<1>4. Tail(todo) \in Seq(CommandsOf(Tail(todo)))
  BY <1>2, OwnCommands
<1> QED  BY <1>2, <1>3, <1>4 DEF Lists, S

LEMMA CommandIs ==
  ASSUME NEW c, NEW do, NEW name, NEW key, NEW value, c = Pools!Cmd(do, name, key, value)
  PROVE  c.do = do /\ c.name = name /\ c.key = key /\ c.value = value
BY DEF Pools!Cmd

LEMMA NewPoolIs ==
  ASSUME NEW new, NEW pgs, NEW size, new = Pools!NewPool(pgs, size)
  PROVE  /\ DOMAIN new = Pools!PoolKeys
         /\ new["size"] = size /\ new["quota"] = 0 /\ new["compression"] = ""
BY DEF Pools!NewPool, Pools!PoolKeys

(* A command that sets what is wanted fits, and so does one that sets what *)
(* nobody asked for.                                                       *)
LEMMA SetFits ==
  ASSUME NEW op, IsPool(op)
  PROVE  /\ \A key \in Settable : LET c == Pools!update_pool(op.name, key, Needed(op, key))
                                  IN  Fits(c, op) /\ Pending({c}, key)
         /\ \A key \in Pools!PoolKeys \ Settable, do \in {"set", "try"} :
              \A value : Fits(Pools!Cmd(do, op.name, key, value), op)
         /\ \A pgs, size : Fits(Pools!Cmd("create", op.name, "pool", Pools!NewPool(pgs, size)), op)
<1>1. Settable \subseteq Pools!PoolKeys
  BY DEF Settable, Pools!PoolKeys
<1>2. ASSUME NEW key \in Settable
      PROVE  LET c == Pools!update_pool(op.name, key, Needed(op, key))
             IN  Fits(c, op) /\ Pending({c}, key)
  BY <1>1, CommandIs DEF Fits, Pending, Pools!update_pool
<1>3. ASSUME NEW key \in Pools!PoolKeys \ Settable, NEW do \in {"set", "try"}, NEW value
      PROVE  Fits(Pools!Cmd(do, op.name, key, value), op)
  BY CommandIs DEF Fits
<1>4. ASSUME NEW pgs, NEW size
      PROVE  Fits(Pools!Cmd("create", op.name, "pool", Pools!NewPool(pgs, size)), op)
  <2> DEFINE new == Pools!NewPool(pgs, size)
             c   == Pools!Cmd("create", op.name, "pool", new)
  <2>1. DOMAIN new = Pools!PoolKeys
    BY NewPoolIs
  <2> HIDE DEF new
  <2>2. c.do = "create" /\ c.name = op.name /\ c.value = new
    BY CommandIs
  <2> HIDE DEF c
  <2>3. Fits(c, op)
    BY <2>1, <2>2 DEF Fits
  <2> QED  BY <2>3 DEF c, new
<1> QED  BY <1>2, <1>3, <1>4

LEMMA Updates ==
  ASSUME NEW op, IsPool(op)
  PROVE  \E S : /\ Lists(Pools!update(op), S) /\ AllFit(S, op)
                /\ op.quota # 0 => Pending(S, "quota")
                /\ op.compression # "" => Pending(S, "compression")
<1> DEFINE Q == IF op.quota = 0 THEN {} ELSE {Pools!update_pool(op.name, "quota", op.quota)}
<1> DEFINE C == IF op.compression = "" THEN {}
                ELSE {Pools!update_pool(op.name, "compression", op.compression)}
<1>1. Needed(op, "quota") = op.quota /\ Needed(op, "compression") = op.compression
  BY DEF Needed
<1>2. /\ Lists(Pools!set_quota(op), Q) /\ AllFit(Q, op) /\ (op.quota # 0 => Pending(Q, "quota"))
  BY <1>1, ListsOf, SetFits DEF Pools!set_quota, AllFit, Settable
<1>3. /\ Lists(Pools!set_compression(op), C) /\ AllFit(C, op)
      /\ op.compression # "" => Pending(C, "compression")
  BY <1>1, ListsOf, SetFits DEF Pools!set_compression, AllFit, Settable
<1>4. Lists(Pools!update(op), Q \union C)
  BY <1>2, <1>3, Joined2 DEF Pools!update
<1>5. /\ AllFit(Q \union C, op)
      /\ op.quota # 0 => Pending(Q \union C, "quota")
      /\ op.compression # "" => Pending(Q \union C, "compression")
  BY <1>2, <1>3 DEF AllFit, Pending
<1> QED  BY <1>4, <1>5

LEMMA PostCreates ==
  ASSUME NEW op, IsPool(op)
  PROVE  \E S : Lists(Pools!_post_create(op), S) /\ AllFit(S, op)
<1> DEFINE r == Pools!update_pool(op.name, "ratio", Pools!Percent(op))
           a == Pools!Cmd("try", op.name, "app", op.app)
           u == Pools!Cmd("try", op.name, "autoscale", "on")
<1>1. {"ratio", "app", "autoscale"} \subseteq Pools!PoolKeys \ Settable
  BY DEF Pools!PoolKeys, Settable
<1>2. Fits(r, op) /\ Fits(a, op) /\ Fits(u, op)
  BY <1>1, SetFits DEF Pools!update_pool
<1>3. Lists(Pools!_post_create(op), {r, a, u})
  BY ListsOf DEF Pools!_post_create
<1> QED  BY <1>2, <1>3 DEF AllFit

(* A pool is made first, with what is wanted or will be set.               *)
LEMMA Creates ==
  ASSUME NEW op, op.op \in {"replicated", "erasure"}, ProfileThere(op)
  PROVE  LET todo == Pools!create(op)
         IN  \E S : /\ Lists(todo, S) /\ AllFit(S, op)
                    /\ todo # << >> /\ Head(todo).do = "create"
                    /\ \A key \in Settable : Head(todo).value[key] = Needed(op, key) \/ Pending(S, key)
<1>1. IsPool(op)
  BY DEF IsPool
<1>2. PICK P : Lists(Pools!_post_create(op), P) /\ AllFit(P, op)
  BY <1>1, PostCreates
<1>3. PICK U : /\ Lists(Pools!update(op), U) /\ AllFit(U, op)
               /\ op.quota # 0 => Pending(U, "quota")
               /\ op.compression # "" => Pending(U, "compression")
  BY <1>1, Updates
<1>4. Needed(op, "quota") = op.quota /\ Needed(op, "compression") = op.compression
  BY DEF Needed
<1>5. CASE op.op = "replicated"
  <2>1. PICK pgs : Pools!ReplicatedPool_create(op) =
                     << Pools!Cmd("create", op.name, "pool", Pools!NewPool(pgs, 0)),
                        Pools!update_pool(op.name, "size", op.size) >> \o Pools!_post_create(op)
    BY DEF Pools!ReplicatedPool_create
  <2> DEFINE m == Pools!Cmd("create", op.name, "pool", Pools!NewPool(pgs, 0))
             z == Pools!update_pool(op.name, "size", op.size)
  <2>2. Needed(op, "size") = op.size
    BY <1>5 DEF Needed
  <2>3. Fits(m, op) /\ Fits(z, op) /\ Pending({z}, "size")
    BY <1>1, <2>2, SetFits DEF Settable
  <2>4. Lists(<<m, z>>, {m, z}) /\ <<m, z>> # << >> /\ Head(<<m, z>>) = m
    BY ListsOf
  <2> HIDE DEF m, z
  <2>5. /\ Lists(<<m, z>> \o Pools!_post_create(op), {m, z} \union P)
        /\ <<m, z>> \o Pools!_post_create(op) # << >> /\ Head(<<m, z>> \o Pools!_post_create(op)) = m
    BY <1>2, <2>4, Joined2
  <2>6. Pools!create(op) = (<<m, z>> \o Pools!_post_create(op)) \o Pools!update(op)
    BY <1>5, <2>1 DEF Pools!create, m, z
  <2>7. /\ Lists(Pools!create(op), ({m, z} \union P) \union U)
        /\ Pools!create(op) # << >> /\ Head(Pools!create(op)) = m
    <3> DEFINE s == <<m, z>> \o Pools!_post_create(op)
               S == {m, z} \union P
               u == Pools!update(op)
    <3>1. Lists(s, S) /\ Lists(u, U) /\ Pools!create(op) = s \o u /\ s # << >> /\ Head(s) = m
      BY <1>3, <2>5, <2>6
    <3> HIDE DEF s, S, u
    <3>2. Lists(s \o u, S \union U) /\ s \o u # << >> /\ Head(s \o u) = m
      BY <3>1, Joined2
    <3> QED  BY <3>1, <3>2 DEF S
  <2>8. m.do = "create" /\ m.value["quota"] = 0 /\ m.value["compression"] = ""
    <3>1. m.do = "create" /\ m.value = Pools!NewPool(pgs, 0)
      BY CommandIs DEF m
    <3> QED  BY <3>1, NewPoolIs
  <2>9. \A key \in Settable : m.value[key] = Needed(op, key) \/ Pending(({m, z} \union P) \union U, key)
    BY <1>3, <1>4, <2>3, <2>8 DEF Settable, Pending
  <2>10. AllFit(({m, z} \union P) \union U, op)
    BY <1>2, <1>3, <2>3 DEF AllFit
  <2> QED  BY <2>7, <2>8, <2>9, <2>10
<1>6. CASE op.op = "erasure"
  <2>0. PICK full : full = profiles[op.profile].k + profiles[op.profile].m
    OBVIOUS
  <2> DEFINE W == IF op.overwrites THEN <<Pools!update_pool(op.name, "overwrites", "on")>> ELSE << >>
             V == IF op.overwrites THEN {Pools!update_pool(op.name, "overwrites", "on")} ELSE {}
  <2>1. PICK pgs : Pools!ErasurePool_create(op) =
                     (<< Pools!Cmd("create", op.name, "pool", Pools!NewPool(pgs, full)) >>
                        \o Pools!_post_create(op)) \o W
    BY <2>0 DEF Pools!ErasurePool_create
  <2> DEFINE m == Pools!Cmd("create", op.name, "pool", Pools!NewPool(pgs, full))
  <2>2. Needed(op, "size") = full
    BY <1>6, <2>0 DEF Needed
  <2>3. Lists(W, V) /\ AllFit(V, op)
    <3>1. "overwrites" \in Pools!PoolKeys \ Settable
      BY DEF Pools!PoolKeys, Settable
    <3>2. Fits(Pools!update_pool(op.name, "overwrites", "on"), op)
      BY <1>1, <3>1, SetFits DEF Pools!update_pool
    <3> QED  BY <3>2, ListsOf DEF AllFit
  <2>4. Fits(m, op)
    BY <1>1, SetFits
  <2> HIDE DEF W, V
  <2>13. m.do = "create" /\ m.value = Pools!NewPool(pgs, full)
    BY CommandIs
  <2> HIDE DEF m
  <2>5. m.do = "create" /\ m.value["size"] = full /\ m.value["quota"] = 0 /\ m.value["compression"] = ""
    <3>1. PICK new : new = m.value
      OBVIOUS
    <3>2. new = Pools!NewPool(pgs, full)
      BY <2>13, <3>1
    <3>3. new["size"] = full
      BY <3>2 DEF Pools!NewPool, Pools!PoolKeys
    <3>4. new["quota"] = 0
      BY <3>2, NewPoolIs
    <3>5. new["compression"] = ""
      BY <3>2, NewPoolIs
    <3> QED  BY <2>13, <3>1, <3>3, <3>4, <3>5
  <2>12. Lists(<<m>>, {m}) /\ <<m>> # << >> /\ Head(<<m>>) = m
    BY ListsOf
  <2>6. /\ Lists(<<m>> \o Pools!_post_create(op), {m} \union P)
        /\ <<m>> \o Pools!_post_create(op) # << >> /\ Head(<<m>> \o Pools!_post_create(op)) = m
    BY <1>2, <2>12, Joined2
  <2>7. /\ Lists((<<m>> \o Pools!_post_create(op)) \o W, ({m} \union P) \union V)
        /\ (<<m>> \o Pools!_post_create(op)) \o W # << >>
        /\ Head((<<m>> \o Pools!_post_create(op)) \o W) = m
    BY <2>3, <2>6, Joined2
  <2>8. Pools!create(op) = ((<<m>> \o Pools!_post_create(op)) \o W) \o Pools!update(op)
    BY <1>6, <2>1 DEF Pools!create, ProfileThere, m
  <2>9. /\ Lists(Pools!create(op), (({m} \union P) \union V) \union U)
        /\ Pools!create(op) # << >> /\ Head(Pools!create(op)) = m
    <3> DEFINE s == (<<m>> \o Pools!_post_create(op)) \o W
               S == ({m} \union P) \union V
               u == Pools!update(op)
    <3>1. Lists(s, S) /\ Lists(u, U) /\ Pools!create(op) = s \o u /\ s # << >> /\ Head(s) = m
      BY <1>3, <2>7, <2>8
    <3> HIDE DEF s, S, u
    <3>2. Lists(s \o u, S \union U) /\ s \o u # << >> /\ Head(s \o u) = m
      BY <3>1, Joined2
    <3> QED  BY <3>1, <3>2 DEF S
  <2>10. \A key \in Settable : \/ m.value[key] = Needed(op, key)
                               \/ Pending((({m} \union P) \union V) \union U, key)
    BY <1>3, <1>4, <2>2, <2>5 DEF Settable, Pending
  <2>11. AllFit((({m} \union P) \union V) \union U, op)
    BY <1>2, <1>3, <2>3, <2>4 DEF AllFit
  <2> QED  BY <2>5, <2>9, <2>10, <2>11
<1> QED  BY <1>5, <1>6

(* What the mon does for an operation that it takes up, whatever was seen  *)
(* of the pools: a pool that is there is as wanted already.                *)
LEMMA TakenUp ==
  ASSUME NEW op, op.op \in {"replicated", "erasure", "profile"}, Whole(op),
         NEW found \in BOOLEAN, found => There(op)
  PROVE  AtIt(op, Pools!Commands(op, found))
<1> DEFINE todo == Pools!Commands(op, found)
<1> USE DEF IsPool
<1>1. ASSUME todo = Pools!Raise(op) PROVE AtIt(op, todo)
  <2> DEFINE c == Pools!Cmd("raise", op.name, "", "")
  <2>1. c.do = "raise"
    BY DEF Pools!Cmd
  <2>2. todo = <<c>>
    BY <1>1 DEF Pools!Raise
  <2> HIDE DEF c, todo
  <2>3. Lists(todo, {c}) /\ todo # << >> /\ Head(todo) = c
    BY <2>2, ListsOf
  <2> QED  BY <2>1, <2>3 DEF AtIt, Raising, Lists
<1>2. CASE op.op = "profile"
  <2> DEFINE c == Pools!Cmd("set-profile", op.name, "profile", [k |-> op.k, m |-> op.m])
  <2>1. c.do = "set-profile" /\ c.name = op.name /\ c.value = [k |-> op.k, m |-> op.m]
    BY DEF Pools!Cmd
  <2>2. todo = IF found THEN << >> ELSE <<c>>
    BY <1>2 DEF Pools!Commands, Pools!create_erasure_profile
  <2> HIDE DEF c, todo
  <2>3. Fits(c, op)
    BY <1>2, <2>1 DEF Fits
  <2>4. AllFit(CommandsOf(todo), op) /\ Lists(todo, CommandsOf(todo)) /\ (~found => todo # << >>)
    <3>1. CASE found
      <4>1. Lists(todo, {})
        BY <2>2, <3>1, ListsOf
      <4> QED  BY <3>1, <4>1 DEF AllFit, Lists
    <3>2. CASE ~found
      <4>1. todo = <<c>>
        BY <2>2, <3>2
      <4>2. Lists(todo, {c}) /\ todo # << >>
        BY <4>1, ListsOf
      <4> QED  BY <2>3, <4>2 DEF AllFit, Lists
    <3> QED  BY <3>1, <3>2
  <2>5. AtIt(op, todo)
    BY <1>2, <2>4 DEF AtIt, Profiling, Whole
  <2> QED  BY <2>5 DEF todo
<1>3. CASE op.op # "profile" /\ ~Pools!Valid(op)
  BY <1>1, <1>3 DEF Pools!Commands
<1>4. CASE op.op # "profile" /\ ~ProfileThere(op)
  <2>1. ~found
    BY <1>4 DEF Whole
  <2>2. todo = Pools!Raise(op)
    BY <1>3, <1>4, <2>1 DEF Pools!Commands, Pools!create, ProfileThere
  <2> QED  BY <1>1, <2>2
<1>5. CASE op.op # "profile" /\ Pools!Valid(op) /\ ProfileThere(op)
  <2>1. todo = IF found THEN Pools!update(op) ELSE Pools!create(op)
    BY <1>5 DEF Pools!Commands
  <2> HIDE DEF todo
  <2>2. op.op \in {"replicated", "erasure"}
    BY <1>5
  <2>3. PICK S : /\ Lists(todo, S) /\ AllFit(S, op)
                 /\ ~found => /\ todo # << >> /\ Head(todo).do = "create"
                              /\ \A key \in Settable :
                                   Head(todo).value[key] = Needed(op, key) \/ Pending(S, key)
    <3>1. CASE found
      BY <1>5, <2>1, <3>1, Updates
    <3>2. CASE ~found
      BY <1>5, <2>1, <2>2, <3>2, Creates
    <3> QED  BY <3>1, <3>2
  <2>4. S = CommandsOf(todo)
    BY <2>3 DEF Lists
  <2>5. ASSUME There(op) PROVE AtIt(op, todo)
    BY <1>5, <2>3, <2>4, <2>5 DEF AtIt, Setting, Whole
  <2>6. ASSUME ~There(op) PROVE AtIt(op, todo)
    <3>1. Making(op, todo)
      BY <1>5, <2>3, <2>4, <2>6 DEF Making
    <3> QED  BY <2>3, <2>4, <3>1 DEF AtIt
  <2> QED  BY <2>5, <2>6 DEF todo
<1> QED  BY <1>2, <1>3, <1>4, <1>5

(* When nothing is left to do for an operation, all of it is there.        *)
LEMMA Through ==
  ASSUME NEW op, AtIt(op, << >>)
  PROVE  Whole(op) /\ There(op)
<1>1. \A key : ~Pending(CommandsOf(<< >>), key)
  BY DEF Pending, CommandsOf
<1> QED  BY <1>1 DEF AtIt, Raising, Making, Setting, Profiling, Whole

LEMMA PoolInvInit == Pools!PoolInit => PoolInv
<1> SUFFICES ASSUME Pools!PoolInit PROVE PoolInv
  OBVIOUS
<1>1. /\ pools = << >> /\ poolAsked = << >> /\ poolServed = TRUE
      /\ poolJob = [op |-> 0, todo |-> << >>]
  BY DEF Pools!PoolInit
<1>2. Job
  BY <1>1 DEF Job
<1>3. Serving
  BY <1>1 DEF Serving, Pools!Twice, PoolsKeyed
<1> QED  BY <1>2, <1>3 DEF PoolInv

(* A command for a pool changes no other pool and no profile.              *)
LEMMA DoneForPool ==
  ASSUME NEW op, NEW c, Fits(c, op), IsPool(op), Pools!Done(c), PoolsKeyed
  PROVE  /\ profiles' = profiles
         /\ PoolsKeyed'
         /\ \A n : n # op.name => (n \in DOMAIN pools' <=> n \in DOMAIN pools)
         /\ \A n \in DOMAIN pools : n # op.name => pools'[n] = pools[n]
         /\ c.do = "create" =>
              /\ op.name \in DOMAIN pools'
              /\ pools'[op.name] = IF op.name \in DOMAIN pools THEN pools[op.name] ELSE c.value
         /\ c.do \in {"set", "try"} /\ op.name \in DOMAIN pools =>
              /\ op.name \in DOMAIN pools'
              /\ pools'[op.name] = [pools[op.name] EXCEPT ![c.key] = c.value]
<1>1. c.name = op.name /\ c.do \in {"create", "set", "try"}
  BY DEF Fits
<1>2. CASE c.do = "create"
  <2>1. pools' = Pools!With(pools, op.name, c.value) /\ profiles' = profiles
    BY <1>1, <1>2 DEF Pools!Done
  <2>2. /\ DOMAIN pools' = DOMAIN pools \union {op.name}
        /\ \A n \in DOMAIN pools' : pools'[n] = IF n \in DOMAIN pools THEN pools[n] ELSE c.value
    BY <2>1 DEF Pools!With
  <2>3. PoolsKeyed'
    BY <1>2, <2>2 DEF PoolsKeyed, Fits
  <2> QED  BY <1>2, <2>1, <2>2, <2>3
<1>3. CASE c.do \in {"set", "try"}
  <2>1. pools' = [pools EXCEPT ![op.name][c.key] = c.value] /\ profiles' = profiles
    BY <1>1, <1>3 DEF Pools!Done
  <2>2. /\ DOMAIN pools' = DOMAIN pools
        /\ \A n \in DOMAIN pools :
             pools'[n] = IF n = op.name THEN [pools[n] EXCEPT ![c.key] = c.value] ELSE pools[n]
    BY <2>1
  <2>3. PoolsKeyed'
    BY <2>2 DEF PoolsKeyed
  <2> QED  BY <1>3, <2>1, <2>2, <2>3
<1> QED  BY <1>1, <1>2, <1>3

(* The command for a profile changes no pool and no other profile.         *)
LEMMA DoneForProfile ==
  ASSUME NEW op, NEW c, Fits(c, op), ~IsPool(op), Pools!Done(c)
  PROVE  /\ pools' = pools
         /\ DOMAIN profiles' = DOMAIN profiles \union {op.name}
         /\ \A n \in DOMAIN profiles : profiles'[n] = profiles[n]
         /\ op.name \notin DOMAIN profiles => profiles'[op.name] = c.value
<1>1. c.name = op.name /\ c.do = "set-profile"
  BY DEF Fits
<1>2. profiles' = Pools!With(profiles, op.name, c.value) /\ pools' = pools
  BY <1>1 DEF Pools!Done
<1> QED  BY <1>2 DEF Pools!With

(* What is there of other operations stays as it is.                       *)
LEMMA DoneElsewhere ==
  ASSUME NEW op, NEW other, NEW c, Fits(c, op), Pools!Done(c), PoolsKeyed,
         ~(other.name = op.name /\ (IsPool(other) <=> IsPool(op))), Whole(other)
  PROVE  Whole(other)' /\ (There(other) => There(other)')
<1>1. CASE IsPool(op) /\ IsPool(other)
  <2>1. /\ other.name # op.name /\ profiles' = profiles
        /\ other.name \in DOMAIN pools' <=> other.name \in DOMAIN pools
        /\ other.name \in DOMAIN pools => pools'[other.name] = pools[other.name]
    BY <1>1, DoneForPool
  <2> QED  BY <1>1, <2>1 DEF Whole, There, ProfileThere, Needed, IsPool
<1>2. CASE IsPool(op) /\ ~IsPool(other)
  <2>1. profiles' = profiles
    BY <1>2, DoneForPool
  <2> QED  BY <1>2, <2>1 DEF Whole, There, ProfileRight, IsPool
<1>3. CASE ~IsPool(op) /\ IsPool(other)
  <2>1. /\ pools' = pools
        /\ DOMAIN profiles' = DOMAIN profiles \union {op.name}
        /\ \A n \in DOMAIN profiles : profiles'[n] = profiles[n]
    BY <1>3, DoneForProfile
  <2>2. ProfileThere(other) => ProfileThere(other)' /\ \A key : Needed(other, key)' = Needed(other, key)
    BY <2>1 DEF ProfileThere, Needed
  <2> QED  BY <1>3, <2>1, <2>2 DEF Whole, There, IsPool
<1>4. CASE ~IsPool(op) /\ ~IsPool(other)
  <2>1. /\ other.name # op.name
        /\ DOMAIN profiles' = DOMAIN profiles \union {op.name}
        /\ \A n \in DOMAIN profiles : profiles'[n] = profiles[n]
    BY <1>4, DoneForProfile
  <2> QED  BY <1>4, <2>1 DEF Whole, There, ProfileRight, IsPool
<1> QED  BY <1>1, <1>2, <1>3, <1>4

(* A command brings the mon nearer to all of its operation.                *)
LEMMA DoneAtIt ==
  ASSUME NEW op, NEW todo, AtIt(op, todo), todo # << >>, PoolsKeyed,
         ~Pools!Refused(Head(todo)), Pools!Done(Head(todo))
  PROVE  AtIt(op, Tail(todo))' /\ PoolsKeyed'
<1> DEFINE c == Head(todo)
           rest == Tail(todo)
<1>1. /\ c \in CommandsOf(todo) /\ Lists(rest, CommandsOf(rest))
      /\ CommandsOf(todo) = {c} \union CommandsOf(rest)
  BY Shorter DEF AtIt
<1>2. ~Raising(op, todo)
  BY DEF Raising, Pools!Refused
<1>3. /\ AllFit(CommandsOf(todo), op)
      /\ Making(op, todo) \/ Setting(op, todo) \/ Profiling(op, todo)
  BY <1>2 DEF AtIt
<1>4. Fits(c, op) /\ AllFit(CommandsOf(rest), op)
  BY <1>1, <1>3 DEF AllFit
<1>5. ~Pools!Refused(c) /\ Pools!Done(c) /\ (Making(op, todo) => c.do = "create")
  BY DEF Making
<1>6. \A key : Pending(CommandsOf(todo), key) =>
                 Pending(CommandsOf(rest), key) \/ (c.do = "set" /\ c.key = key)
  BY <1>1 DEF Pending
<1> HIDE DEF c, rest
<1>7. ASSUME IsPool(op) PROVE AtIt(op, rest)' /\ PoolsKeyed'
  <2>1. profiles' = profiles /\ PoolsKeyed'
    BY <1>4, <1>5, <1>7, DoneForPool
  <2>2. AllFit(CommandsOf(rest), op)' /\ \A key : Needed(op, key)' = Needed(op, key)
    BY <1>4, <2>1 DEF AllFit, Fits, Needed
  <2>3. ProfileThere(op)'
    BY <1>3, <1>7, <2>1 DEF Making, Setting, Profiling, ProfileThere
  <2>4. Setting(op, rest)'
    <3>1. There(op)' /\ \A key \in Settable :
            (pools[op.name][key])' = Needed(op, key) \/ Pending(CommandsOf(rest), key)
      <4>1. CASE Making(op, todo)
        <5>1. /\ op.name \notin DOMAIN pools /\ c.do = "create"
              /\ \A key \in Settable : c.value[key] = Needed(op, key) \/ Pending(CommandsOf(todo), key)
          BY <1>5, <1>7, <4>1 DEF Making, There, c
        <5>2. op.name \in DOMAIN pools' /\ pools'[op.name] = c.value
          BY <1>4, <1>5, <1>7, <5>1, DoneForPool
        <5> QED  BY <1>6, <1>7, <2>2, <5>1, <5>2 DEF There, IsPool
      <4>2. CASE Setting(op, todo) /\ c.do = "create"
        <5>1. /\ op.name \in DOMAIN pools
              /\ \A key \in Settable : pools[op.name][key] = Needed(op, key) \/ Pending(CommandsOf(todo), key)
          BY <1>7, <4>2 DEF Setting, There
        <5>2. op.name \in DOMAIN pools' /\ pools'[op.name] = pools[op.name]
          BY <1>4, <1>5, <1>7, <4>2, <5>1, DoneForPool
        <5> QED  BY <1>6, <1>7, <2>2, <4>2, <5>1, <5>2 DEF There, IsPool
      <4>3. CASE Setting(op, todo) /\ c.do \in {"set", "try"}
        <5>1. /\ op.name \in DOMAIN pools
              /\ \A key \in Settable : pools[op.name][key] = Needed(op, key) \/ Pending(CommandsOf(todo), key)
          BY <1>7, <4>3 DEF Setting, There
        <5>2. op.name \in DOMAIN pools' /\ pools'[op.name] = [pools[op.name] EXCEPT ![c.key] = c.value]
          BY <1>4, <1>5, <1>7, <4>3, <5>1, DoneForPool
        <5>3. DOMAIN pools[op.name] = Pools!PoolKeys
          BY <5>1 DEF PoolsKeyed
        <5>4. /\ c.key \in Pools!PoolKeys
              /\ c.key \in Settable => c.value = Needed(op, c.key)
          BY <1>4, <4>3 DEF Fits
        <5>5. \A key \in Settable : pools'[op.name][key] = Needed(op, key) \/ Pending(CommandsOf(rest), key)
          <6>1. ASSUME NEW key \in Settable
                PROVE  pools'[op.name][key] = Needed(op, key) \/ Pending(CommandsOf(rest), key)
            <7>1. CASE key = c.key
              BY <5>2, <5>3, <5>4, <7>1
            <7>2. CASE key # c.key
              <8>1. key \in Pools!PoolKeys
                BY DEF Settable, Pools!PoolKeys
              <8>2. pools'[op.name][key] = pools[op.name][key]
                BY <5>2, <5>3, <7>2, <8>1
              <8> QED  BY <1>6, <5>1, <7>2, <8>2
            <7> QED  BY <7>1, <7>2
          <6> QED  BY <6>1
        <5> QED  BY <1>7, <2>2, <5>2, <5>5 DEF There, IsPool
      <4> QED  BY <1>3, <1>4, <1>5, <1>7, <4>1, <4>2, <4>3 DEF Fits, Profiling
    <3> QED  BY <1>7, <2>2, <2>3, <3>1 DEF Setting, IsPool, Pending
  <2> QED  BY <1>1, <2>1, <2>2, <2>4 DEF AtIt, Lists, CommandsOf
<1>8. ASSUME ~IsPool(op) PROVE AtIt(op, rest)' /\ PoolsKeyed'
  <2>1. /\ pools' = pools
        /\ DOMAIN profiles' = DOMAIN profiles \union {op.name}
        /\ \A n \in DOMAIN profiles : profiles'[n] = profiles[n]
        /\ op.name \notin DOMAIN profiles => profiles'[op.name] = c.value
    BY <1>4, <1>5, <1>8, DoneForProfile
  <2>2. Profiling(op, todo) /\ c.value = [k |-> op.k, m |-> op.m]
    BY <1>3, <1>4, <1>8 DEF Making, Setting, Fits
  <2>3. AllFit(CommandsOf(rest), op)'
    BY <1>4, <1>8 DEF AllFit, Fits, IsPool
  <2>4. Profiling(op, rest)'
    BY <1>8, <2>1, <2>2 DEF Profiling, There, ProfileRight, IsPool
  <2>5. PoolsKeyed'
    BY <2>1 DEF PoolsKeyed
  <2> QED  BY <1>1, <2>3, <2>4, <2>5 DEF AtIt, Lists, CommandsOf
<1> QED  BY <1>7, <1>8 DEF rest

(* A failed command that was only tried leaves the others.                 *)
LEMMA TriedAtIt ==
  ASSUME NEW op, NEW todo, AtIt(op, todo), todo # << >>, Head(todo).do = "try"
  PROVE  AtIt(op, Tail(todo))
<1> DEFINE c == Head(todo)
           rest == Tail(todo)
<1>1. Lists(rest, CommandsOf(rest)) /\ CommandsOf(todo) = {c} \union CommandsOf(rest)
  BY Shorter DEF AtIt
<1>2. /\ AllFit(CommandsOf(todo), op) /\ Fits(c, op)
      /\ Setting(op, todo)
  BY <1>1 DEF AtIt, AllFit, Raising, Making, Profiling, Fits
<1>3. \A key : Pending(CommandsOf(todo), key) => Pending(CommandsOf(rest), key)
  BY <1>1 DEF Pending
<1> HIDE DEF c
<1>4. AllFit(CommandsOf(rest), op) /\ Setting(op, rest)
  BY <1>1, <1>2, <1>3 DEF AllFit, Setting
<1> QED  BY <1>1, <1>4 DEF AtIt

(* What is there of an operation that the mon gives up is what was there   *)
(* before.                                                                 *)
LEMMA RefusedAtIt ==
  ASSUME NEW op, NEW todo, AtIt(op, todo), todo # << >>, Pools!Refused(Head(todo))
  PROVE  Whole(op)
<1>1. CASE Raising(op, todo)
  BY <1>1 DEF Raising
<1>2. CASE ~Raising(op, todo)
  <2> DEFINE c == Head(todo)
  <2>1. Fits(c, op)
    BY <1>2, Shorter DEF AtIt, AllFit
  <2>2. Making(op, todo) \/ Setting(op, todo) \/ Profiling(op, todo)
    BY <1>2 DEF AtIt
  <2>3. c.do = "raise" \/ (c.do = "set-profile" /\ c.name \in DOMAIN profiles /\ profiles[c.name] # c.value)
    BY DEF Pools!Refused
  <2> HIDE DEF c
  <2>4. ~IsPool(op) /\ c.name = op.name /\ c.value = [k |-> op.k, m |-> op.m]
    BY <2>1, <2>3 DEF Fits
  <2>5. Profiling(op, todo)
    BY <2>2, <2>4 DEF Making, Setting
  <2>6. ~There(op)
    BY <2>1, <2>3, <2>4, <2>5 DEF Profiling, There, ProfileRight, Fits
  <2> QED  BY <2>6 DEF Whole
<1> QED  BY <1>1, <1>2

LEMMA AskedOps ==
  ASSUME KnownOperations, Job
  PROVE  /\ Len(poolAsked) \in Nat /\ DOMAIN poolAsked = 1..Len(poolAsked)
         /\ \A i \in DOMAIN poolAsked : poolAsked[i].op \in {"replicated", "erasure", "profile"}
<1>1. CASE poolAsked = << >>
  BY <1>1
<1>2. CASE poolAsked \in PoolRequests
  <2>1. poolAsked \in Seq(Pools!ToSet(poolAsked))
    BY <1>2 DEF KnownOperations
  <2>2. Len(poolAsked) \in Nat /\ DOMAIN poolAsked = 1..Len(poolAsked)
    BY <2>1
  <2> QED  BY <1>2, <2>2 DEF KnownOperations
<1> QED  BY <1>1, <1>2 DEF Job

(* The client's new request is for nothing that is there.                  *)
LEMMA AskedKeeps ==
  ASSUME KnownOperations, PoolInv, NEW request \in PoolRequests, Pools!add_ops(request)
  PROVE  PoolInv'
<1>1. /\ poolJob.op = 0 /\ poolAsked' = request /\ poolServed' = FALSE
      /\ UNCHANGED <<poolExposed, pools, profiles, poolJob>>
  BY DEF Pools!add_ops, Pools!Idle
<1>2. Job'
  BY <1>1 DEF PoolInv, Job
<1>3. ASSUME Calm PROVE Serving'
  <2>1. ~Pools!Twice(request) /\ Pools!Names(request) \intersect (DOMAIN pools \union DOMAIN profiles) = {}
    <3>1. "other_request" \notin poolExposed
      BY <1>3 DEF Calm, Pools!Spared
    <3> QED  BY <3>1 DEF Pools!add_ops
  <2>2. (~Pools!Twice(poolAsked))'
    BY <1>1, <2>1 DEF Pools!Twice
  <2>3. PoolsKeyed'
    BY <1>1, <1>3 DEF PoolInv, Serving, PoolsKeyed, Calm
  <2>4. request \in Seq(Pools!ToSet(request)) /\ DOMAIN request \subseteq Nat \ {0}
    <3>1. request \in Seq(Pools!ToSet(request))
      BY DEF KnownOperations
    <3> QED  BY <3>1
  <2>5. ASSUME NEW i \in DOMAIN request, NEW op \in {request[i]} PROVE ServedBy(i, op)'
    <3>1. op.name \in Pools!Names(request)
      BY <2>5 DEF Pools!Names
    <3>2. ~There(op)'
      BY <1>1, <2>1, <3>1 DEF There
    <3>3. Whole(op)'
      BY <3>2 DEF Whole
    <3> QED  BY <1>1, <2>4, <3>3 DEF ServedBy
  <2> QED  BY <1>1, <2>2, <2>3, <2>5 DEF Serving
<1>4. Calm' = Calm
  BY <1>1 DEF Calm, Pools!Spared
<1> QED  BY <1>2, <1>3, <1>4 DEF PoolInv

(* OSDs are none of the settings.                                          *)
LEMMA OSDsKeep ==
  ASSUME PoolInv, UNCHANGED <<poolExposed, pools, profiles, poolAsked, poolServed, poolJob>>
  PROVE  PoolInv'
BY DEF PoolInv, Job, Serving, ServedBy, PoolsKeyed, Calm, AtIt, Raising, Making, Setting, Profiling,
       AllFit, Fits, Lists, CommandsOf, Pending, Whole, There, ProfileThere, ProfileRight, Needed,
       IsPool, Pools!Twice, Pools!Spared

(* The mon has been through the operations up to the one that it was at.   *)
LEMMA TakeKeeps ==
  ASSUME KnownOperations, PoolInv, NEW listed \in BOOLEAN, Pools!Take(listed)
  PROVE  PoolInv'
<1> DEFINE at == poolJob.op
           next == poolJob.op + 1
<1>1. /\ poolServed = FALSE /\ poolJob.todo = << >>
      /\ UNCHANGED <<poolExposed, osds, pools, profiles, poolAsks, poolAsked>>
  BY DEF Pools!Take, PoolInv, Job
<1>2. /\ Len(poolAsked) \in Nat /\ DOMAIN poolAsked = 1..Len(poolAsked) /\ at \in 0..Len(poolAsked)
      /\ \A i \in DOMAIN poolAsked : poolAsked[i].op \in {"replicated", "erasure", "profile"}
  <2>1. Job
    BY DEF PoolInv
  <2>2. at \in {0} \union DOMAIN poolAsked
    BY <2>1 DEF Job
  <2> QED  BY <2>1, <2>2, AskedOps
<1>3. ASSUME Calm, NEW i \in DOMAIN poolAsked, NEW op \in {poolAsked[i]}
      PROVE  Whole(op) /\ (i <= at => There(op))
  <2>1. ServedBy(i, op) /\ (at # 0 => \A o \in {poolAsked[at]}, todo \in {<< >>} : AtIt(o, todo))
    BY <1>1, <1>3 DEF PoolInv, Serving
  <2>2. CASE i = at
    <3>1. AtIt(op, << >>)
      BY <1>2, <1>3, <2>1, <2>2
    <3> QED  BY <3>1, Through
  <2>3. CASE i # at
    BY <1>2, <2>1, <2>3 DEF ServedBy
  <2> QED  BY <2>2, <2>3
<1>4. Calm' = Calm /\ (Calm => PoolsKeyed /\ ~Pools!Twice(poolAsked))
  BY <1>1 DEF Calm, Pools!Spared, PoolInv, Serving
<1>5. /\ PoolsKeyed' = PoolsKeyed /\ (Pools!Twice(poolAsked))' = Pools!Twice(poolAsked)
      /\ \A op : Whole(op)' = Whole(op) /\ There(op)' = There(op)
      /\ \A op, todo : AtIt(op, todo)' = AtIt(op, todo)
  BY <1>1 DEF PoolsKeyed, Pools!Twice, AtIt, Raising, Making, Setting, Profiling,
       AllFit, Fits, Lists, CommandsOf, Pending, Whole, There, ProfileThere, ProfileRight, Needed, IsPool
<1>6. CASE next > Len(poolAsked)
  <2>1. poolServed' = TRUE /\ poolJob' = [op |-> 0, todo |-> << >>]
    BY <1>6 DEF Pools!Take
  <2>2. Job'
    BY <1>1, <2>1 DEF PoolInv, Job
  <2>3. ASSUME Calm, NEW i \in DOMAIN poolAsked, NEW op \in {poolAsked[i]} PROVE ServedBy(i, op)'
    <3>1. Whole(op) /\ There(op)
      BY <1>2, <1>3, <1>6, <2>3
    <3> QED  BY <1>5, <3>1 DEF ServedBy
  <2> QED  BY <1>1, <1>4, <1>5, <2>1, <2>2, <2>3 DEF PoolInv, Serving
<1>7. CASE ~(next > Len(poolAsked))
  <2> DEFINE taken == poolAsked[next]
             found == Pools!pool_exists(taken, listed)
  <2>1. poolServed' = FALSE /\ poolJob' = [op |-> next, todo |-> Pools!Commands(taken, found)]
    BY <1>1, <1>7 DEF Pools!Take
  <2>2. next \in DOMAIN poolAsked /\ next # 0
    BY <1>2, <1>7
  <2>3. Job'
    BY <1>1, <2>1, <2>2 DEF PoolInv, Job
  <2>4. found \in BOOLEAN /\ (found => There(taken))
    BY DEF Pools!pool_exists, There, IsPool
  <2>5. Calm => AtIt(taken, Pools!Commands(taken, found))
    <3>1. Calm => Whole(taken)
      BY <1>3, <2>2
    <3>2. taken.op \in {"replicated", "erasure", "profile"}
      BY <1>2, <2>2
    <3> QED  BY <2>4, <3>1, <3>2, TakenUp
  <2>6. ASSUME Calm, NEW i \in DOMAIN poolAsked, NEW op \in {poolAsked[i]} PROVE ServedBy(i, op)'
    <3>1. Whole(op) /\ (i <= at => There(op))
      BY <1>3, <2>6
    <3> QED  BY <1>2, <1>5, <2>1, <3>1 DEF ServedBy
  <2> QED  BY <1>1, <1>4, <1>5, <2>1, <2>3, <2>5, <2>6 DEF PoolInv, Serving
<1> QED  BY <1>6, <1>7

(* The mon is at one operation, whose command touches none of the others.  *)
LEMMA CommandKeeps ==
  ASSUME KnownOperations, PoolInv, Pools!Command
  PROVE  PoolInv'
<1> DEFINE at == poolJob.op
<1>1. /\ poolJob.todo # << >> /\ ~Pools!Refused(Head(poolJob.todo)) /\ Pools!Done(Head(poolJob.todo))
      /\ poolJob' = [poolJob EXCEPT !.todo = Tail(@)]
      /\ UNCHANGED <<poolExposed, osds, poolAsks, poolAsked, poolServed>>
  BY DEF Pools!Command
<1>2. at # 0 /\ at \in DOMAIN poolAsked /\ poolServed = FALSE
  BY <1>1 DEF PoolInv, Job
<1>3. poolJob' = [op |-> at, todo |-> Tail(poolJob.todo)]
  BY <1>1 DEF PoolInv, Job
<1>4. Job'
  BY <1>1, <1>2, <1>3 DEF PoolInv, Job
<1>5. ASSUME Calm PROVE Serving'
  <2>1. /\ PoolsKeyed /\ ~Pools!Twice(poolAsked)
        /\ \A i \in DOMAIN poolAsked : \A op \in {poolAsked[i]} : ServedBy(i, op)
        /\ \A op \in {poolAsked[at]}, todo \in {poolJob.todo} : AtIt(op, todo)
    BY <1>2, <1>5 DEF PoolInv, Serving
  <2>2. PICK op, todo : op = poolAsked[at] /\ todo = poolJob.todo
    OBVIOUS
  <2>3. /\ AtIt(op, todo) /\ todo # << >>
        /\ ~Pools!Refused(Head(todo)) /\ Pools!Done(Head(todo))
    BY <1>1, <2>1, <2>2
  <2>4. AtIt(op, Tail(todo))' /\ PoolsKeyed'
    BY <2>1, <2>3, DoneAtIt
  <2>5. Fits(Head(todo), op)
    BY <2>3, Shorter DEF AtIt, Raising, Pools!Refused, AllFit
  <2>6. ASSUME NEW i \in DOMAIN poolAsked, NEW other \in {poolAsked[i]} PROVE ServedBy(i, other)'
    <3>1. CASE i = at
      BY <1>1, <1>2, <1>3, <3>1, AskedOps DEF ServedBy, PoolInv
    <3>2. CASE i # at
      <4>1. ~(other.name = op.name /\ (IsPool(other) <=> IsPool(op)))
        BY <1>2, <2>1, <2>2, <3>2 DEF Pools!Twice, IsPool
      <4>2. Whole(other) /\ (i < at => There(other))
        BY <2>1, <3>2 DEF ServedBy
      <4>3. Whole(other)' /\ (There(other) => There(other)')
        BY <2>1, <2>3, <2>5, <4>1, <4>2, DoneElsewhere
      <4> QED  BY <1>1, <1>2, <1>3, <4>2, <4>3 DEF ServedBy
    <3> QED  BY <3>1, <3>2
  <2>7. (~Pools!Twice(poolAsked))'
    BY <1>1, <2>1 DEF Pools!Twice
  <2> QED  BY <1>1, <1>3, <2>2, <2>4, <2>6, <2>7 DEF Serving
<1>6. Calm' = Calm
  BY <1>1 DEF Calm, Pools!Spared
<1> QED  BY <1>4, <1>5, <1>6 DEF PoolInv

(* The mon goes on after a command that it only tries; else it gives up.   *)
LEMMA FailureKeeps ==
  ASSUME KnownOperations, PoolInv, Pools!Failure
  PROVE  PoolInv'
<1> DEFINE at == poolJob.op
           c == Head(poolJob.todo)
<1>1. /\ poolJob.todo # << >>
      /\ Pools!Refused(c) \/ c.do = "try" \/ "command_fails" \in poolExposed
      /\ poolJob' = IF c.do = "try" THEN [poolJob EXCEPT !.todo = Tail(@)]
                    ELSE [op |-> 0, todo |-> << >>]
      /\ UNCHANGED <<poolExposed, osds, pools, profiles, poolAsks, poolAsked, poolServed>>
  BY DEF Pools!Failure
<1>2. at # 0 /\ at \in DOMAIN poolAsked /\ poolServed = FALSE
  BY <1>1 DEF PoolInv, Job
<1> HIDE DEF c
<1>3. UNCHANGED <<poolAsked, poolServed>>
  BY <1>1
<1>4. /\ c.do = "try" => poolJob' = [op |-> at, todo |-> Tail(poolJob.todo)]
      /\ c.do # "try" => poolJob' = [op |-> 0, todo |-> << >>]
  <2>1. CASE c.do = "try"
    <3>1. poolJob' = [poolJob EXCEPT !.todo = Tail(@)]
      BY <1>1, <2>1
    <3> QED  BY <2>1, <3>1 DEF PoolInv, Job
  <2>2. CASE c.do # "try"
    BY <1>1, <2>2
  <2> QED  BY <2>1, <2>2
<1>5. Job'
  <2>1. CASE c.do = "try"
    BY <1>2, <1>3, <1>4, <2>1 DEF PoolInv, Job
  <2>2. CASE c.do # "try"
    BY <1>2, <1>3, <1>4, <2>2 DEF PoolInv, Job
  <2> QED  BY <2>1, <2>2
<1>6. /\ PoolsKeyed' = PoolsKeyed /\ (Pools!Twice(poolAsked))' = Pools!Twice(poolAsked)
      /\ \A op : Whole(op)' = Whole(op) /\ There(op)' = There(op)
      /\ \A op, todo : AtIt(op, todo)' = AtIt(op, todo)
  BY <1>1 DEF PoolsKeyed, Pools!Twice, AtIt, Raising, Making, Setting, Profiling,
       AllFit, Fits, Lists, CommandsOf, Pending, Whole, There, ProfileThere, ProfileRight, Needed, IsPool
<1>7. ASSUME Calm PROVE Serving'
  <2>1. /\ PoolsKeyed /\ ~Pools!Twice(poolAsked)
        /\ \A i \in DOMAIN poolAsked : \A op \in {poolAsked[i]} : ServedBy(i, op)
        /\ \A op \in {poolAsked[at]}, todo \in {poolJob.todo} : AtIt(op, todo)
    BY <1>2, <1>7 DEF PoolInv, Serving
  <2>2. AtIt(poolAsked[at], poolJob.todo)
    BY <2>1
  <2>3. CASE c.do = "try"
    <3>1. AtIt(poolAsked[at], Tail(poolJob.todo))
      BY <1>1, <2>2, <2>3, TriedAtIt DEF c
    <3>2. poolJob' = [op |-> at, todo |-> Tail(poolJob.todo)]
      BY <1>4, <2>3
    <3>3. \A i \in DOMAIN poolAsked : \A op \in {poolAsked[i]} : ServedBy(i, op)'
      BY <1>1, <1>6, <2>1, <3>2 DEF ServedBy
    <3> QED  BY <1>1, <1>6, <2>1, <3>1, <3>2, <3>3 DEF Serving
  <2>4. CASE c.do # "try"
    <3>1. Pools!Refused(c)
      BY <1>1, <1>7, <2>4 DEF Calm, Pools!Spared
    <3>2. Whole(poolAsked[at])
      BY <1>1, <2>2, <3>1, RefusedAtIt DEF c
    <3>3. poolJob' = [op |-> 0, todo |-> << >>]
      BY <1>4, <2>4
    <3>4. ASSUME NEW i \in DOMAIN poolAsked, NEW op \in {poolAsked[i]} PROVE ServedBy(i, op)'
      <4>1. Whole(op)
        BY <2>1, <3>2, <3>4 DEF ServedBy
      <4>2. ~(i < 0)
        BY AskedOps DEF PoolInv
      <4> QED  BY <1>1, <1>2, <1>6, <3>3, <4>1, <4>2 DEF ServedBy
    <3> QED  BY <1>1, <1>6, <2>1, <3>3, <3>4 DEF Serving
  <2> QED  BY <2>3, <2>4
<1>8. Calm' = Calm
  BY <1>1 DEF Calm, Pools!Spared
<1> QED  BY <1>5, <1>7, <1>8 DEF PoolInv

LEMMA PoolInvNext == KnownOperations /\ PoolInv /\ Pools!PoolNext => PoolInv'
<1> SUFFICES ASSUME KnownOperations, PoolInv, Pools!PoolNext PROVE PoolInv'
  OBVIOUS
<1>1. ASSUME NEW request \in PoolRequests, Pools!add_ops(request) PROVE PoolInv'
  BY <1>1, AskedKeeps
<1>2. ASSUME Pools!osd_joins \/ Pools!osd_leaves PROVE PoolInv'
  BY <1>2, OSDsKeep DEF Pools!osd_joins, Pools!osd_leaves
<1>3. ASSUME NEW listed \in BOOLEAN, Pools!Take(listed) PROVE PoolInv'
  BY <1>3, TakeKeeps
<1>4. ASSUME Pools!Command PROVE PoolInv'
  BY <1>4, CommandKeeps
<1>5. ASSUME Pools!Failure PROVE PoolInv'
  BY <1>5, FailureKeeps
<1> QED  BY <1>1, <1>2, <1>3, <1>4, <1>5 DEF Pools!PoolNext

LEMMA PoolInvStep == KnownOperations /\ PoolInv /\ [Pools!PoolNext]_Pools!poolVars => PoolInv'
<1>1. PoolInv /\ UNCHANGED Pools!poolVars => PoolInv'
  BY OSDsKeep DEF Pools!poolVars
<1> QED  BY <1>1, PoolInvNext

LEMMA PoolInvDone == KnownOperations /\ PoolInv => Pools!DoneAsAsked
<1> SUFFICES ASSUME KnownOperations, PoolInv, Calm, poolServed, NEW i \in DOMAIN poolAsked
             PROVE  Pools!AsAsked(poolAsked[i])
  BY DEF Pools!DoneAsAsked, Calm
<1>1. PICK op : op = poolAsked[i]
  OBVIOUS
<1>2. ServedBy(i, op) /\ poolJob.op = 0
  BY <1>1 DEF PoolInv, Serving, Job
<1>3. Whole(op) /\ There(op)
  BY <1>2, AskedOps DEF ServedBy, PoolInv
<1>4. op.op \in {"replicated", "erasure", "profile"}
  BY <1>1, AskedOps DEF PoolInv
<1>5. Pools!AsAsked(op)
  BY <1>3, <1>4 DEF Pools!AsAsked, Whole, There, IsPool, Settable, Needed, ProfileRight
<1> QED  BY <1>1, <1>5

(* What a mon has reported done is there as asked. *)
PoolsDone == part = "pools" => Pools!DoneAsAsked

(* For any requests and any OSDs: when a mon has reported a request done,  *)
(* its profiles and pools are there with the sizes, quotas and compression *)
(* that were asked for, whatever it saw of the pools and whether or not    *)
(* the commands failed that it only tries; unless another command failed,  *)
(* or a pool was asked for before.                                         *)
THEOREM PoolsAreDone == StoresSpec => []PoolsDone
<1>1. StoresInit => (part = "pools" => PoolInv)
  BY Starts, PoolInvInit
<1>2. (part = "pools" => PoolInv) /\ [StoresNext]_storesVars => (part = "pools" => PoolInv)'
  BY Steps, PoolInvStep, PoolsAssumption
<1>3. (part = "pools" => PoolInv) => PoolsDone
  BY PoolInvDone, PoolsAssumption DEF PoolsDone
<1> QED  BY <1>1, <1>2, <1>3, PTL DEF StoresSpec
=============================================================================
