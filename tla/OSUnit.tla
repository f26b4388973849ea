---- MODULE OSUnit ----
(***************************************************************************)
(* A unit of an OpenStack charm: configuration files rendered from the     *)
(* contexts (contrib/openstack/templating.py), services restarted when     *)
(* they change, pause, resume, series upgrade and deferred hooks, and the  *)
(* workload status that is made of all of it (contrib/openstack/utils.py). *)
(*                                                                         *)
(* Juju runs one hook or action at a time, on relation data that does not  *)
(* change under it, so each of them is one step; what a step can leave     *)
(* half done is chosen inside it.                                          *)
(***************************************************************************)
EXTENDS OSContexts

CONSTANTS
  Charms        \* charms, one of which the unit runs, see below

(***************************************************************************)
(* A charm is a record of                                                  *)
(*   services  its services, all of which run from all its files           *)
(*   contexts  the interfaces of the contexts of each file, in their order *)
(*   required  the interfaces of each generic interface it cannot do       *)
(*             without                                                     *)
(*   needs     the keys a remote unit has to set                           *)
(*   says      what its own status function may return                     *)
(*   settings  for each interface the sets of keys a remote unit may set   *)
(*   units     the remote units there may be on each interface             *)
(*   cfg       the configuration options that are set                      *)
(*   versions  the versions of the other configuration options             *)
(*   exposures the sets of hazards the unit may face                       *)
(*                                                                         *)
(* hook_failure     a hook fails after it wrote the files                  *)
(* service_failure  a service does not stop or start when told to          *)
(* series_upgrade   the series of the machine is upgraded                  *)
(* option_together  enable-auto-restarts is turned off together with other *)
(*                  options, in one config-changed hook                    *)
(* mixed_versions   remote units on one relation differ in the optional    *)
(*                  settings they send                                     *)
(***************************************************************************)
AllHazards == {"hook_failure", "service_failure", "series_upgrade", "option_together",
               "mixed_versions"}
ASSUME CharmsAssumption == \A c \in Charms : c.exposures \subseteq SUBSET AllHazards

States == {"unknown", "active", "maintenance", "waiting", "blocked"}
ASSUME StatesAssumption == \A c \in Charms : c.says \subseteq States

(***************************************************************************)
(* What the remote units of an interface may have set, and what `needs' is *)
(* to mean: the context of a required interface is made of this interface, *)
(* and returns something only if one unit has set all that is needed.      *)
(***************************************************************************)
OnRelation(c, i) == UNION {[units -> c.settings[i]] : units \in SUBSET c.units}

OfOneRelation ==
  {"shared-db", "pgsql-db", "identity-service", "identity-credentials", "amqp", "ceph",
   "image-service", "zeromq-configuration", "neutron-plugin-api", "quantum-network-service"}

ASSUME NeedsAssumption ==
  \A c \in Charms : \A g \in DOMAIN c.required : \A i \in c.required[g] \cap DOMAIN c.settings :
    /\ i \in OfOneRelation
    /\ Context(i, << >>, c.cfg) = NoContext
    /\ \A s \in OnRelation(c, i) :
         \/ Context(i, [j \in {i} |-> s], c.cfg) = NoContext
         \/ \E u \in DOMAIN s : c.needs[i] \subseteq s[u]

\* What a unit has to set is none of what it may leave out.
Optional == {"api_version", "service_type", "public_auth_url", "internal_auth_url",
             "access-network"}
ASSUME OptionalAssumption ==
  \A c \in Charms : \A i \in DOMAIN c.settings : c.needs[i] \cap Optional = {}

VARIABLES
  exposed,        \* the hazards of this unit; never changes
  charm,          \* the charm it runs; never changes
  rel,            \* the settings of the units on each relation there is
  offered,        \* what the contexts return on these relations
  options,        \* the version of the other configuration options
  files,          \* what the files were rendered from: contexts and options
  up,             \* services that are running
  stale,          \* running services started before a file changed
  masked,         \* services that systemd will not start
  paused,         \* kv: unit-paused
  upgrading,      \* kv: unit-upgrading
  autoRestarts,   \* config: enable-auto-restarts
  deferred,       \* kv: deferred-hooks
  pending,        \* a change the charm has not been told of by a hook
  state           \* the workload status

vars == <<exposed, charm, rel, offered, options, files, up, stale, masked, paused, upgrading,
          autoRestarts, deferred, pending, state>>
unit == <<files, up, stale, masked, paused, upgrading, deferred, state>>

Services == charm.services
Interfaces == DOMAIN charm.settings
Files == DOMAIN charm.contexts
Named == UNION {Range(charm.contexts[f]) : f \in Files}
Spared(hazards) == exposed \cap hazards = {}
Failing == IF "service_failure" \in exposed THEN SUBSET Services ELSE {{}}
-----------------------------------------------------------------------------
(***************************************************************************)
(* Rendering.                                                              *)
(***************************************************************************)
\* OSConfigTemplate.context: later contexts override earlier ones
context(contexts, offers) == FoldLeft(LAMBDA c, i : offers[i] @@ c, NoContext, contexts)

rendered ==
  [f \in Files |-> [ctxt |-> context(charm.contexts[f], offered), options |-> options]]

\* the interfaces whose contexts returned something
complete_contexts ==
  {i \in Interfaces : /\ \E f \in Files : i \in Range(charm.contexts[f])
                      /\ offered[i] # NoContext}

Silent == {"image-service", "zeromq-configuration", "neutron-plugin-api", "cluster"}

\* Contexts that call context_complete know what they miss, once there is a
\* unit; the others have an empty list.
knows_missing(i) == i \notin Silent /\ DOMAIN Settings(rel, i) # {}

\* Writing the files makes the services that run from an older one stale
write_all(running) ==
  /\ files' = rendered
  /\ stale' = IF rendered = files THEN stale ELSE stale \cup running
-----------------------------------------------------------------------------
(***************************************************************************)
(* The workload status, from the state a hook leaves behind.               *)
(***************************************************************************)
hierarchy == [unknown |-> 0, active |-> 1, maintenance |-> 2, waiting |-> 3, blocked |-> 4]
workload_state_compare(a, b) == IF hierarchy[a] > hierarchy[b] THEN a ELSE b

\* sequence_status_check_functions: the gravest of all
sequence_status_check_functions(states) ==
  FoldLeft(LAMBDA worst, s : workload_state_compare(worst, s), "unknown", states)

check_actually_paused(running) == IF running = {} THEN "none" ELSE "blocked"

ows_check_if_paused(running, isPaused, isUpgrading) ==
  CASE isUpgrading -> "blocked"
    [] ~isUpgrading /\ isPaused ->
         IF check_actually_paused(running) = "none" THEN "maintenance" ELSE "blocked"
    [] OTHER -> "none"

incomplete_relation_data_Related ==
  {g \in DOMAIN charm.required : charm.required[g] \cap DOMAIN rel = {}}

\* The generic interfaces none of whose interfaces is complete
incomplete_relation_data ==
  {g \in DOMAIN charm.required : charm.required[g] \cap complete_contexts = {}}

ows_check_generic_interfaces(departing) ==
  LET related(g) == charm.required[g] \cap DOMAIN rel
      missing == {g \in incomplete_relation_data :
                    \/ related(g) = {}
                    \/ \E i \in related(g) : ~knows_missing(i) /\ departing = i}
  IN  CASE missing # {} -> "blocked"
        [] missing = {} /\ incomplete_relation_data # {} -> "waiting"
        [] OTHER -> "none"

ows_check_charm_func(s, says) ==
  IF says \in {"active", "unknown"} THEN s
  ELSE IF s = "none" THEN workload_state_compare("unknown", says)
  ELSE workload_state_compare(s, says)

ows_check_services_running(running) == IF running = Services THEN "none" ELSE "blocked"

determine_os_workload_status(running, isPaused, isUpgrading, departing, says) ==
  LET s1 == ows_check_if_paused(running, isPaused, isUpgrading)
      s2 == IF s1 = "none" THEN ows_check_generic_interfaces(departing) ELSE s1
      s3 == IF s2 = "maintenance" THEN s2 ELSE ows_check_charm_func(s2, says)
      s4 == IF s3 = "none" THEN ows_check_services_running(running) ELSE s3
  IN  IF s4 = "none" THEN "active" ELSE s4

\* set_os_workload_status at the end of a hook or action
Assess(departing) ==
  \E says \in charm.says :
    state' = determine_os_workload_status(up', paused', upgrading', departing, says)
-----------------------------------------------------------------------------
(***************************************************************************)
(* Services.                                                               *)
(***************************************************************************)
service_pause_NoMask(failing) == up' = up \cap failing /\ UNCHANGED masked

\* service_pause: stop it, then disable and mask it, whether it stopped or not
service_pause(failing) ==
  /\ up' = up \cap failing
  /\ masked' = Services

\* service_resume: unmask and enable what is not enabled, start what is not
\* running
service_resume(failing) ==
  /\ masked' = {}
  /\ up' = up \cup (Services \ failing)

\* manage_payload_services 'stop', then 'start' unless a service did not
\* stop; systemd refuses to start what is masked
stop_and_start(failing) ==
  /\ up' = IF up \cap failing # {} THEN up \cap failing ELSE Services \ (failing \cup masked)
  /\ stale' = stale \cap failing

restart_on_change_OnlyStart(changed) ==
  /\ up' = IF changed THEN up \cup (Services \ masked) ELSE up
  /\ stale' = IF changed THEN up ELSE stale

\* restart_on_change around the function of a hook that rewrote the files
restart_on_change(changed) ==
  /\ up' = IF changed THEN up \cup (Services \ masked) ELSE up
  /\ stale' = IF changed THEN stale \cap masked ELSE stale
-----------------------------------------------------------------------------
(***************************************************************************)
(* Hooks.                                                                  *)
(***************************************************************************)
\* is_hook_allowed(hookname): the last of its conditions wins
is_hook_allowed(check, permitted) == IF check THEN permitted ELSE ~paused

note_deferred_hook_OnChange(h, check, permitted, changed) ==
  CASE check /\ permitted -> deferred \ {h}
    [] check /\ ~permitted /\ changed -> deferred \cup {h}
    [] OTHER -> deferred

\* ... and the list of deferred hooks it keeps.  `changed' says that
\* enable-auto-restarts has changed since the last hook that completed.
note_deferred_hook(h, check, permitted, changed) ==
  CASE check /\ permitted -> deferred \ {h}
    [] check /\ ~permitted /\ ~changed -> deferred \cup {h}
    [] OTHER -> deferred

\* pausable_restart_on_change: a paused unit writes its files and leaves the
\* services alone
RunHook(departing) ==
  /\ files' = rendered
  /\ IF paused THEN up' = up /\ stale' = IF rendered = files THEN stale ELSE up
     ELSE restart_on_change(rendered # files)
  /\ UNCHANGED <<masked, paused, upgrading>>
  /\ Assess(departing)

Departing == {"none"} \cup {i \in DOMAIN rel : DOMAIN rel[i] = {}}

\* A hook of the charm that asks is_hook_allowed first
Hook(h, permitted, changed) ==
  /\ ~upgrading
  /\ pending' = FALSE
  /\ deferred' = note_deferred_hook(h, TRUE, permitted, changed)
  /\ IF is_hook_allowed(TRUE, permitted)
     THEN \E departing \in Departing : RunHook(departing)
     ELSE /\ UNCHANGED <<files, up, stale, masked, paused, upgrading>>
          /\ Assess("none")
  /\ UNCHANGED <<exposed, charm, rel, offered, options>>

RelationChanged == pending /\ Hook("relation-changed", autoRestarts, FALSE) /\ UNCHANGED autoRestarts
ConfigChanged == pending /\ Hook("config-changed", autoRestarts, FALSE) /\ UNCHANGED autoRestarts

\* A hook fails between writing the files and restarting the services; what
\* it noted in the kv is committed by then.  Juju runs it again.
HookFails ==
  /\ "hook_failure" \in exposed
  /\ pending /\ ~upgrading /\ autoRestarts /\ ~paused
  /\ write_all(up)
  /\ UNCHANGED <<exposed, charm, rel, offered, options, up, masked, paused, upgrading,
                 autoRestarts, deferred, pending, state>>

UpdateStatus ==
  /\ UNCHANGED <<exposed, charm, rel, offered, options, files, up, stale, masked, paused, upgrading,
                 autoRestarts, deferred, pending>>
  /\ Assess("none")

\* The charm's action that runs the hooks that were deferred
RunDeferredHooks ==
  /\ ~upgrading /\ deferred # {}
  /\ deferred' = {}
  /\ is_hook_allowed(FALSE, autoRestarts)
  /\ RunHook("none")
  /\ UNCHANGED <<exposed, charm, rel, offered, options, autoRestarts, pending>>
-----------------------------------------------------------------------------
(***************************************************************************)
(* Actions of the operator and the hooks of a series upgrade.              *)
(***************************************************************************)
pause_unit ==
  /\ \E failing \in Failing : service_pause(failing)
  /\ paused' = TRUE
  /\ stale' = stale \cap up'
  /\ Assess("none")

resume_unit ==
  /\ \E failing \in Failing : service_resume(failing)
  /\ paused' = FALSE
  /\ stale' = stale \cap up
  /\ Assess("none")

PauseAction ==
  /\ ~upgrading
  /\ UNCHANGED <<exposed, charm, rel, offered, options, files, upgrading, autoRestarts, deferred, pending>>
  /\ pause_unit

ResumeAction ==
  /\ ~upgrading
  /\ UNCHANGED <<exposed, charm, rel, offered, options, files, upgrading, autoRestarts, deferred, pending>>
  /\ resume_unit

\* restart_services_action does not ask whether the unit is paused
RestartAction ==
  /\ ~upgrading
  /\ \E failing \in Failing : stop_and_start(failing)
  /\ UNCHANGED <<exposed, charm, rel, offered, options, files, masked, paused, upgrading,
                 autoRestarts, deferred, pending, state>>

series_upgrade_prepare ==
  /\ "series_upgrade" \in exposed
  /\ ~upgrading
  /\ upgrading' = TRUE
  /\ IF paused THEN UNCHANGED <<up, stale, masked, paused, state>> ELSE pause_unit
  /\ UNCHANGED <<exposed, charm, rel, offered, options, files, autoRestarts, deferred, pending>>

series_upgrade_complete ==
  /\ upgrading
  /\ upgrading' = FALSE
  /\ files' = rendered
  /\ \E failing \in Failing : service_resume(failing)
  /\ paused' = FALSE
  /\ stale' = (IF rendered = files THEN stale ELSE up) \cap up
  /\ Assess("none")
  /\ UNCHANGED <<exposed, charm, rel, offered, options, autoRestarts, deferred, pending>>
-----------------------------------------------------------------------------
(***************************************************************************)
(* The environment.                                                        *)
(***************************************************************************)
Evaluate(relations) == [i \in Named |-> Context(i, relations, charm.cfg)]

Init ==
  /\ charm \in Charms
  /\ exposed \in charm.exposures
  /\ rel = << >> /\ offered = Evaluate(rel)
  /\ options = 0
  /\ files = [f \in Files |-> [ctxt |-> NoContext, options |-> 0]]
  /\ up = Services /\ stale = {} /\ masked = {}
  /\ paused = FALSE /\ upgrading = FALSE
  /\ autoRestarts = TRUE /\ deferred = {} /\ pending = TRUE
  /\ state = "unknown"

With(f, x, value) == [y \in DOMAIN f \cup {x} |-> IF y = x THEN value ELSE f[y]]

Relate(i) ==
  /\ i \notin DOMAIN rel
  /\ rel' = With(rel, i, << >>)

\* Units of one application send the same optional settings, unless they
\* are being upgraded
same_kind(i, u, keys) ==
  \A v \in DOMAIN rel[i] \ {u} :
    \/ rel[i][v] = {} \/ keys = {}
    \/ rel[i][v] \ charm.needs[i] = keys \ charm.needs[i]

\* A remote unit joins or changes what it has set
RemoteSets(i, u, keys) ==
  /\ i \in DOMAIN rel
  /\ same_kind(i, u, keys) \/ "mixed_versions" \in exposed
  /\ rel' = [rel EXCEPT ![i] = With(@, u, keys)]
  /\ rel' # rel

RemoteDeparts(i, u) ==
  /\ i \in DOMAIN rel
  /\ u \in DOMAIN rel[i]
  /\ rel' = [rel EXCEPT ![i] = [v \in DOMAIN @ \ {u} |-> @[v]]]

Unrelate(i) ==
  /\ i \in DOMAIN rel
  /\ rel' = [j \in DOMAIN rel \ {i} |-> rel[j]]

\* A relation changes and the hook about it is due
RelationsChange ==
  /\ \/ \E i \in Interfaces : Relate(i) \/ Unrelate(i)
     \/ \E i \in Interfaces, u \in charm.units :
          \/ RemoteDeparts(i, u)
          \/ \E keys \in charm.settings[i] : RemoteSets(i, u, keys)
  /\ offered' = Evaluate(rel')
  /\ pending' = TRUE
  /\ UNCHANGED <<exposed, charm, options, autoRestarts, unit>>

\* juju config: the hook config-changed is due
SetOptions ==
  /\ options' \in charm.versions \ {options}
  /\ pending' = TRUE
  /\ UNCHANGED <<exposed, charm, rel, offered, autoRestarts, unit>>

\* juju config switches enable-auto-restarts, and config-changed runs
SwitchAutoRestarts ==
  /\ pending => "option_together" \in exposed
  /\ autoRestarts' = ~autoRestarts
  /\ Hook("config-changed", ~autoRestarts, TRUE)

ServiceDies(s) ==
  /\ s \in up
  /\ up' = up \ {s} /\ stale' = stale \ {s}
  /\ UNCHANGED <<exposed, charm, rel, offered, options, files, masked, paused, upgrading,
                 autoRestarts, deferred, pending, state>>

Reboot ==
  /\ up' = Services \ masked /\ stale' = {}
  /\ UNCHANGED <<exposed, charm, rel, offered, options, files, masked, paused, upgrading,
                 autoRestarts, deferred, pending, state>>

Next ==
  \/ RelationsChange
  \/ SetOptions
  \/ SwitchAutoRestarts
  \/ RelationChanged \/ ConfigChanged
  \/ HookFails
  \/ UpdateStatus
  \/ RunDeferredHooks
  \/ PauseAction \/ ResumeAction \/ RestartAction
  \/ series_upgrade_prepare \/ series_upgrade_complete
  \/ \E s \in Services : ServiceDies(s)
  \/ Reboot

Spec == Init /\ [][Next]_vars
-----------------------------------------------------------------------------
(***************************************************************************)
(* Properties.                                                             *)
(***************************************************************************)
\* Services of a paused unit stay down through hooks, failed restarts,
\* restart actions and reboots, until the unit is resumed or its series
\* upgrade completes.  (Unless a service did not stop when it was paused.)
PausedStaysDown == (paused /\ Spared({"service_failure"})) => up = {}

\* When the charm has run a hook for every change, its files are what the
\* relations and options say, or the list of deferred hooks has the hook
\* that did not run.
NothingForgotten ==
  (~pending /\ ~upgrading /\ Spared({"option_together"})) => (files = rendered \/ deferred # {})

\* No service runs from files older than those on the disk, whatever paused,
\* upgraded or restarted it.
RunsOnFiles == Spared({"hook_failure", "service_failure"}) => stale = {}

\* A context is what one remote unit says: the first that says enough.
\* Settings of other units on the relation do not get into it.  (Contexts
\* that collect something from every unit are another matter.)
Collecting == {"ceph", "amqp", "zeromq-configuration", "neutron-plugin-api"}

OneUnit ==
  Spared({"mixed_versions"}) =>
  \A i \in (OfOneRelation \ Collecting) \cap Named \cap DOMAIN rel :
    LET alone(u) == Context(i, [j \in {i} |-> [v \in {u} |-> rel[i][v]]], charm.cfg)
        ready == {k \in Related(rel[i]) : alone(RemoteUnits[k]) # NoContext}
    IN  offered[i] = IF ready = {} THEN NoContext ELSE alone(RemoteUnits[Min(ready)])

\* A unit becomes active only if, for everything it requires, some remote
\* unit has sent all that is needed, and its services run.
ActiveIsTrue ==
  [][(state # "active" /\ state' = "active") =>
       /\ ~paused' /\ ~upgrading'
       /\ up' = Services
       /\ \A g \in DOMAIN charm.required : \E i \in charm.required[g] \cap DOMAIN rel :
            \E u \in DOMAIN rel[i] : charm.needs[i] \subseteq rel[i][u]]_vars
====
