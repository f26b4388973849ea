---- MODULE HookTools ----
(***************************************************************************)
(* The hook tools for relation settings with the cache of their results    *)
(* (core/hookenv.py) and the mappings over them (context.py).              *)
(*                                                                         *)
(* Juju shows a hook the settings of others as they were when it started,  *)
(* and its own as it has changed them; the cache is kept for the whole     *)
(* hook and flushed by name: relation_set drops the results of calls that  *)
(* name the local unit.                                                    *)
(***************************************************************************)
EXTENDS Integers, FiniteSets, SequencesExt

CONSTANTS
  Settings,    \* names of settings
  Contents,    \* their values
  MaxHooks     \* bound: hooks that are run

(***************************************************************************)
(* app_data       the charm is the leader and sets data of its application *)
(* all_relations  it reads all relations at once, by relations()           *)
(* for_unit       it reads a unit by relation_for_unit, which splits lists *)
(*                and adds __unit__ in the dictionary that is in the cache *)
(***************************************************************************)
ToolHazards == {"app_data", "all_relations", "for_unit"}

VARIABLES
  toolExposed, \* the hazards of this charm; never changes
  bags,        \* the settings this hook sees, by whom they are set
  committed,   \* the settings of this unit and its application before it
  cache,       \* cached results by call
  hook         \* the number of the hook, 0 between hooks, and how many ran

toolVars == <<toolExposed, bags, committed, cache, hook>>

Owners == {"me", "app", "other"}     \* this unit, its application, a related unit
Own == {"me", "app"}
Kept == "private-address"            \* what relation_clear leaves alone
Spared(hazards) == toolExposed \cap hazards = {}
Running == hook.running
With(f, key, value) == [k \in DOMAIN f \cup {key} |-> IF k = key THEN value ELSE f[k]]

\* What a call returns that is not in the cache: the calls are
\* <<"relation_get", owner>>, <<"relations">> and <<"is_relation_made", key>>
relation_made(key) == key \in DOMAIN bags.other
relations == [o \in {"me", "other"} |-> bags[o]]

Result(call) ==
  CASE call[1] = "relation_get" -> [o \in {call[2]} |-> bags[call[2]]]
    [] call[1] = "relations" -> relations
    [] call[1] = "is_relation_made" ->
         IF relation_made(call[2]) THEN [other |-> {call[2]}] ELSE << >>

Calls == {<<"relation_get", o>> : o \in Owners} \cup {<<"relations">>}
           \cup {<<"is_relation_made", k>> : k \in Settings}

\* @cached
cached(call) == IF call \in DOMAIN cache THEN cache ELSE With(cache, call, Result(call))

\* flush(key): what names the key in its function or arguments
flush(key) == [c \in {d \in DOMAIN cache : key \notin Range(d)} |-> cache[c]]
-----------------------------------------------------------------------------
ToolInit ==
  /\ toolExposed \in SUBSET ToolHazards
  /\ bags = [o \in Owners |-> [k \in {Kept} |-> "1"]]
  /\ committed = [o \in Own |-> bags[o]]
  /\ cache = << >>
  /\ hook = [running |-> FALSE, count |-> 0]

\* A new process, with what the related unit has set in the meantime
StartHook ==
  /\ ~Running /\ hook.count < MaxHooks
  /\ hook' = [running |-> TRUE, count |-> hook.count + 1]
  /\ cache' = << >>
  /\ \E keys \in SUBSET Settings : \E theirs \in [keys \cup {Kept} -> Contents] :
       bags' = [me |-> committed.me, app |-> committed.app, other |-> theirs]
  /\ UNCHANGED <<toolExposed, committed>>

\* Settings reach Juju when the hook succeeds, and are dropped otherwise
EndHook(success) ==
  /\ Running
  /\ hook' = [hook EXCEPT !.running = FALSE]
  /\ committed' = IF success THEN [o \in Own |-> bags[o]] ELSE committed
  /\ UNCHANGED <<toolExposed, bags, cache>>

Read(call) ==
  /\ Running
  /\ call = <<"relations">> => "all_relations" \in toolExposed
  /\ cache' = cached(call)
  /\ UNCHANGED <<toolExposed, bags, committed, hook>>

\* The dictionary that relation_get returned, and keeps in the cache
relation_for_unit ==
  /\ Running /\ "for_unit" \in toolExposed
  /\ LET c == cached(<<"relation_get", "other">>)
     IN  cache' = [c EXCEPT ![<<"relation_get", "other">>] =
                     [other |-> With(@.other, "__unit__", "other")]]
  /\ UNCHANGED <<toolExposed, bags, committed, hook>>

relation_set_OnlyIfNew(owner, key, value) ==
  /\ Running
  /\ owner = "app" => "app_data" \in toolExposed
  /\ bags' = [bags EXCEPT ![owner] = With(@, key, value)]
  /\ cache' = IF key \in DOMAIN bags[owner] THEN cache ELSE flush("me")
  /\ UNCHANGED <<toolExposed, committed, hook>>

\* relation_set, and RelationInfo.__setitem__, which refuses remote units
relation_set(owner, key, value) ==
  /\ Running
  /\ owner = "app" => "app_data" \in toolExposed
  /\ bags' = [bags EXCEPT ![owner] = With(@, key, value)]
  /\ cache' = flush("me")
  /\ UNCHANGED <<toolExposed, committed, hook>>

relation_clear ==
  /\ Running
  /\ bags' = [bags EXCEPT !.me = [k \in {Kept} |-> @[k]]]
  /\ cache' = flush("me")
  /\ UNCHANGED <<toolExposed, committed, hook>>

ToolNext ==
  \/ StartHook
  \/ \E success \in BOOLEAN : EndHook(success)
  \/ \E call \in Calls : Read(call)
  \/ relation_for_unit
  \/ \E owner \in Own, key \in Settings, value \in Contents : relation_set(owner, key, value)
  \/ relation_clear

ToolSpec == ToolInit /\ [][ToolNext]_toolVars
-----------------------------------------------------------------------------
\* A hook that reads settings again gets what they are now, its own changes
\* included: whatever is in the cache is what the tool would say, except
\* for what the application's data, relations() and relation_for_unit leave
\* behind.
FreshReads ==
  \A call \in DOMAIN cache :
    \/ Running /\ cache[call] = Result(call)
    \/ ~Running
    \/ call = <<"relation_get", "app">> /\ ~Spared({"app_data"})
    \/ call = <<"relations">> /\ ~Spared({"all_relations"})
    \/ call = <<"relation_get", "other">> /\ ~Spared({"for_unit"})
====
