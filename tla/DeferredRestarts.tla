--------------------------- MODULE DeferredRestarts ----------------------------
(***************************************************************************)
(* Restarts of the services of one machine, where operators may tell each  *)
(* application (charm) not to restart services by itself:                  *)
(* charmhelpers/core/host.py restart_on_change, contrib/openstack          *)
(* deferred_events, policy_rcd and the policy-rc.d script, and             *)
(* restart_services_action of contrib/openstack/utils.                     *)
(*                                                                         *)
(* A restart that is held back leaves an event file, which is removed when *)
(* the service is known to have been restarted.  The machine runs one hook *)
(* or action at a time, of one charm; the packaging system and the         *)
(* operator do not wait for it.                                            *)
(***************************************************************************)
EXTENDS Naturals, FiniteSets

CONSTANTS
  Apps,         \* charms on the machine, all of which manage the same services
  Services,
  MaxNow,       \* bound: the clock stops here
  MaxEvents,    \* bound: event files at a time
  Exposures     \* sets of the hazards below, one of which a machine faces

(***************************************************************************)
(* hook_failure     a hook may fail between two steps, and is retried      *)
(* service_failure  a service may fail to start or to stop                 *)
(* silent_restart   services with an event are restarted by one who does   *)
(*                  not clear it: operator, systemd, package, or the charm *)
(*                  by deferrable_svc_restart()                            *)
(* package_race     packages are upgraded while a hook is running          *)
(* same_second      restarts and requests fall into one second             *)
(* try_restart      packages ask for try-restart                           *)
(***************************************************************************)
AllHazards ==
  {"hook_failure", "service_failure", "silent_restart", "package_race",
   "same_second", "try_restart"}

ASSUME BoundsAssumption == MaxNow \in Nat /\ MaxEvents \in Nat
ASSUME ExposuresAssumption == Exposures \subseteq SUBSET AllHazards

VARIABLES
  exposed,      \* the hazards of this machine; never changes
  now,          \* the time, in full seconds
  permitted,    \* permitted[a]: a's option enable-auto-restarts
  configDue,    \* applications whose config-changed hook is due
  blocked,      \* blocked[a]: services whose restarts a's policy file blocks
  events,       \* the event files
  running,      \* services that run
  started,      \* started[s]: the second in which s last started, by systemd
  needs,        \* services that run with files older than those on the disk
  upgraded,     \* services whose packages are unpacked, but not yet configured
  hook,         \* the hook or action that is running
  answered      \* history: the events whose service was started after them

vars == <<exposed, now, permitted, configDue, blocked, events, running,
          started, needs, upgraded, hook, answered>>
-----------------------------------------------------------------------------
NoApp == "no application"
Idle == [op |-> "idle", app |-> NoApp, todo |-> {}, services |-> {},
         failed |-> FALSE]

Actions == {"restart", "try-restart"}
Event(ts, s, action, reason, a) ==
  [timestamp |-> ts, service |-> s, action |-> action, reason |-> reason,
   app |-> a]

RestartEvent(ts, s, a) == Event(ts, s, "restart", "File(s) changed", a)

(* Each definition whose name ends in an underscore and a remark is the one *)
(* after it with a mistake that could be made in the code; Spec uses none. *)

(* round(time.time()), where systemd shows full seconds, rounded down.     *)
Rounded == IF "same_second" \in exposed THEN {now, now + 1} ELSE {now}

(* deferred_events(), get_deferred_restarts(). *)
deferred_events(a) == {e \in events : e.app = a}
get_deferred_restarts(a) == {e \in deferred_events(a) : e.action = "restart"}

Listed(a) == {e.service : e \in get_deferred_restarts(a)}

duplicate_event_files(e) ==
  {f \in deferred_events(e.app) :
     f.service = e.service /\ f.action = e.action /\ f.reason = e.reason}

(* save_event(): nothing is written for a request that is on file.         *)
Saved(e) == IF duplicate_event_files(e) = {} THEN events \union {e} ELSE events

(* clear_deferred_events(): events of every application, and every action. *)
clear_deferred_events(svcs) == {e \in events : e.service \notin svcs}

(* A restart that leaves the events is a hazard of its own, *)
Unrecorded(s) ==
  "silent_restart" \in exposed \/ \A e \in events : e.service # s

(* and so is the clock's coarse grain. *)
ClockTold(s) == "same_second" \in exposed \/ started[s] < now

(* The clock goes on as long as a hook may wait for the next second.       *)
ClockRuns == now < MaxNow \/ hook = Idle

(* What may leave an event begins only while there is room for it. *)
Room == Cardinality(events) < MaxEvents

-----------------------------------------------------------------------------
Init ==
  /\ exposed \in Exposures
  /\ now = 0
  /\ permitted = [a \in Apps |-> TRUE]
  /\ configDue = {}
  /\ blocked = [a \in Apps |-> {}]
  /\ events = {}
  /\ running = Services
  /\ started = [s \in Services |-> 0]
  /\ needs = {}
  /\ upgraded = {}
  /\ hook = Idle
  /\ answered = {}

Tick ==
  /\ now < MaxNow
  /\ now' = now + 1
  /\ UNCHANGED <<exposed, permitted, configDue, blocked, events, running,
                 started, needs, upgraded, hook, answered>>

(* A process of s is there that was started now, or s did not start. *)
ServiceStarted(s) ==
  /\ needs' = needs \ {s}
  /\ \/ /\ running' = running \union {s}
        /\ started' = [started EXCEPT ![s] = now]
        /\ answered' = answered \union {e \in events : e.service = s}
     \/ /\ "service_failure" \in exposed
        /\ running' = running \ {s}
        /\ UNCHANGED <<started, answered>>

-----------------------------------------------------------------------------
(* The operator, systemd and the packaging system. *)

SetAutoRestarts(a) ==
  /\ hook = Idle
  /\ permitted' = [permitted EXCEPT ![a] = ~@]
  /\ configDue' = configDue \union {a}
  /\ UNCHANGED <<exposed, now, blocked, events, running, started, needs,
                 upgraded, hook, answered>>

OutsideRestart(s) ==
  /\ ClockRuns /\ Unrecorded(s)
  /\ ServiceStarted(s)
  /\ UNCHANGED <<exposed, now, permitted, configDue, blocked, events,
                 upgraded, hook>>

PackageUnpacked(s) ==
  /\ hook = Idle \/ "package_race" \in exposed
  /\ s \notin upgraded
  /\ upgraded' = upgraded \union {s}
  /\ needs' = needs \union ({s} \intersect running)
  /\ UNCHANGED <<exposed, now, permitted, configDue, blocked, events,
                 running, started, hook, answered>>

(* get_blocking_policies(): every action blocked is blocked for all of stop, *)
(* restart and try-restart.                                                *)
get_blocking_policies(s) == {a \in Apps : s \in blocked[a]}

(* The package's script asks for a restart, and policy-rc.d permits it or  *)
(* leaves an event for every policy that does not.                         *)
PackageConfigured(s, action) ==
  /\ hook = Idle \/ "package_race" \in exposed
  /\ s \in upgraded
  /\ action = "try-restart" => "try_restart" \in exposed
  /\ upgraded' = upgraded \ {s}
  /\ IF get_blocking_policies(s) # {}
     THEN /\ ClockTold(s) /\ Room
          /\ \E ts \in Rounded :
               events' = events \union
                 {Event(ts, s, action, "Package update", a) :
                    a \in get_blocking_policies(s)}
          /\ UNCHANGED <<running, started, needs, answered>>
     ELSE /\ ClockRuns /\ Unrecorded(s)
          /\ UNCHANGED events
          /\ IF s \in running \/ action = "restart" THEN ServiceStarted(s)
             ELSE UNCHANGED <<running, started, needs, answered>>
  /\ UNCHANGED <<exposed, now, permitted, configDue, blocked, hook>>

-----------------------------------------------------------------------------
(* Hooks and actions. *)

Begin(op, a, svcs) ==
  hook' = [op |-> op, app |-> a, todo |-> svcs, services |-> svcs,
           failed |-> FALSE]

Done(s) == [hook EXCEPT !.todo = @ \ {s}]

(* enable-auto-restarts, which a hook reads once. *)
is_restart_permitted(a) == permitted[a]

(* restart_on_change: the function writes the files.  Those with another    *)
(* checksum than before name the services to restart.                      *)
WriteFiles(a, svcs) ==
  /\ hook = Idle
  /\ svcs # {} /\ now < MaxNow /\ Room
  /\ Begin("restarting", a, svcs)
  /\ needs' = needs \union (svcs \intersect running)
  /\ UNCHANGED <<exposed, now, permitted, configDue, blocked, events, running,
                 started, upgraded, answered>>

(* check_and_record_restart_request(), or the restart it permits. *)
RestartOrRecord(s) ==
  /\ hook.op = "restarting"
  /\ s \in hook.todo
  /\ IF is_restart_permitted(hook.app)
     THEN /\ hook' = [Done(s) EXCEPT !.op = "clearing", !.services = {s}]
          /\ ServiceStarted(s)
          /\ UNCHANGED events
     ELSE /\ hook' = Done(s)
          /\ ClockTold(s)
          /\ \E ts \in Rounded :
               events' = Saved(RestartEvent(ts, s, hook.app))
          /\ UNCHANGED <<running, started, needs, answered>>
  /\ UNCHANGED <<exposed, now, permitted, configDue, blocked, upgraded>>

(* process_svc_restart(), after the restart. *)
ClearAfterRestart ==
  /\ hook.op = "clearing"
  /\ hook' = [hook EXCEPT !.op = "restarting"]
  /\ events' = clear_deferred_events(hook.services)
  /\ answered' = answered \intersect events'
  /\ UNCHANGED <<exposed, now, permitted, configDue, blocked, running,
                 started, needs, upgraded>>

(* deferrable_svc_restart(): the charm has a reason of its own. *)
RequestRestart(a, s) ==
  /\ hook = Idle
  /\ IF is_restart_permitted(a)
     THEN Unrecorded(s) /\ ServiceStarted(s) /\ UNCHANGED events
     ELSE /\ ClockTold(s) /\ Room
          /\ \E ts \in Rounded : events' = Saved(RestartEvent(ts, s, a))
          /\ needs' = needs \union ({s} \intersect running)
          /\ UNCHANGED <<running, started, answered>>
  /\ UNCHANGED <<exposed, now, permitted, configDue, blocked, upgraded, hook>>

ConfigChanged_Shared(a) ==
  /\ hook = Idle
  /\ a \in configDue
  /\ Begin("blocking", a, IF is_restart_permitted(a) THEN {} ELSE Services)
  /\ blocked' = IF is_restart_permitted(a) THEN [b \in Apps |-> {}] ELSE blocked
  /\ UNCHANGED <<exposed, now, permitted, configDue, events, running,
                 started, needs, upgraded, answered>>

(* configure_deferred_restarts(), in config-changed: the policy file goes, *)
(* or is extended service by service.                                      *)
ConfigChanged(a) ==
  /\ hook = Idle
  /\ a \in configDue
  /\ Begin("blocking", a, IF is_restart_permitted(a) THEN {} ELSE Services)
  /\ blocked' = IF is_restart_permitted(a) THEN [blocked EXCEPT ![a] = {}]
                ELSE blocked
  /\ UNCHANGED <<exposed, now, permitted, configDue, events, running,
                 started, needs, upgraded, answered>>

(* add_policy_block(): read the policy of the application, and extend it.  *)
add_policy_block(a, s) == blocked[a] \union {s}

BlockNext(s) ==
  /\ hook.op = "blocking"
  /\ s \in hook.todo
  /\ hook' = Done(s)
  /\ blocked' = [blocked EXCEPT ![hook.app] = add_policy_block(hook.app, s)]
  /\ UNCHANGED <<exposed, now, permitted, configDue, events, running,
                 started, needs, upgraded, answered>>

(* check_restart_timestamps(): the events are listed once, at the start.   *)
StartCheck(a) ==
  /\ hook = Idle
  /\ get_deferred_restarts(a) # {}
  /\ hook' = [Idle EXCEPT !.op = "checking", !.app = a,
                          !.todo = get_deferred_restarts(a)]
  /\ UNCHANGED <<exposed, now, permitted, configDue, blocked, events,
                 running, started, needs, upgraded, answered>>

StillRequired_OrEqual(e) == started[e.service] <= e.timestamp

StillRequired_Reversed(e) == started[e.service] >= e.timestamp

StillRequired(e) == started[e.service] < e.timestamp

CheckNext ==
  /\ hook.op = "checking"
  /\ \E e \in hook.todo :
       /\ hook' = Done(e)
       /\ events' = IF StillRequired(e) THEN events
                    ELSE clear_deferred_events({e.service})
  /\ answered' = answered \intersect events'
  /\ UNCHANGED <<exposed, now, permitted, configDue, blocked, running,
                 started, needs, upgraded>>

(* restart_services_action(): stop all, start all, clear. *)
StartAction(a, svcs) ==
  /\ hook = Idle
  /\ svcs # {}
  /\ Begin("stopping", a, svcs)
  /\ UNCHANGED <<exposed, now, permitted, configDue, blocked, events,
                 running, started, needs, upgraded, answered>>

StopNext(s) ==
  /\ hook.op = "stopping"
  /\ s \in hook.todo
  /\ \/ /\ hook' = Done(s)
        /\ running' = running \ {s}
        /\ needs' = needs \ {s}
     \/ /\ "service_failure" \in exposed
        /\ hook' = [Done(s) EXCEPT !.failed = TRUE]
        /\ UNCHANGED <<running, needs>>
  /\ UNCHANGED <<exposed, now, permitted, configDue, blocked, events,
                 started, upgraded, answered>>

AllStopped_Deferred ==
  /\ hook.op = "stopping"
  /\ hook.todo = {}
  /\ hook' = IF hook.failed THEN Idle
             ELSE [hook EXCEPT !.op = "starting", !.todo =
                     Listed(hook.app)]
  /\ UNCHANGED <<exposed, now, permitted, configDue, blocked, events,
                 running, started, needs, upgraded, answered>>

(* when_all_stopped_func() runs in between, and may fail, too. *)
AllStopped ==
  /\ hook.op = "stopping"
  /\ hook.todo = {}
  /\ \/ /\ ~hook.failed
        /\ hook' = [hook EXCEPT !.op = "starting", !.todo = hook.services]
     \/ /\ hook.failed \/ "service_failure" \in exposed
        /\ hook' = Idle
  /\ UNCHANGED <<exposed, now, permitted, configDue, blocked, events,
                 running, started, needs, upgraded, answered>>

StartNext(s) ==
  /\ hook.op = "starting"
  /\ s \in hook.todo
  /\ IF s \in running THEN UNCHANGED <<running, started, needs, answered>>
     ELSE ServiceStarted(s)
  /\ hook' = [Done(s) EXCEPT !.failed = @ \/ s \notin running']
  /\ UNCHANGED <<exposed, now, permitted, configDue, blocked, events, upgraded>>

AllStarted ==
  /\ hook.op = "starting"
  /\ hook.todo = {}
  /\ hook' = Idle
  /\ events' = IF hook.failed THEN events
               ELSE clear_deferred_events(hook.services)
  /\ answered' = answered \intersect events'
  /\ UNCHANGED <<exposed, now, permitted, configDue, blocked, running,
                 started, needs, upgraded>>

FinishHook ==
  /\ hook.op \in {"restarting", "blocking", "checking"}
  /\ hook.todo = {}
  /\ hook' = Idle
  /\ configDue' = IF hook.op = "blocking" THEN configDue \ {hook.app}
                  ELSE configDue
  /\ UNCHANGED <<exposed, now, permitted, blocked, events, running,
                 started, needs, upgraded, answered>>

(* The hook is run again, but finds the files as it has written them. *)
FailHook ==
  /\ "hook_failure" \in exposed
  /\ hook.op \in {"restarting", "clearing", "blocking", "checking"}
  /\ hook' = Idle
  /\ UNCHANGED <<exposed, now, permitted, configDue, blocked, events,
                 running, started, needs, upgraded, answered>>

-----------------------------------------------------------------------------
HookStep ==
  \/ \E s \in Services :
       RestartOrRecord(s) \/ BlockNext(s) \/ StopNext(s) \/ StartNext(s)
  \/ CheckNext \/ ClearAfterRestart \/ AllStopped \/ AllStarted \/ FinishHook

Next ==
  \/ Tick
  \/ \E a \in Apps :
       \/ SetAutoRestarts(a)
       \/ ConfigChanged(a)
       \/ StartCheck(a)
       \/ \E svcs \in SUBSET Services :
            WriteFiles(a, svcs) \/ StartAction(a, svcs)
       \/ StartAction(a, Listed(a))
       \/ \E s \in Services : RequestRestart(a, s)
  \/ \E s \in Services :
       \/ OutsideRestart(s)
       \/ PackageUnpacked(s)
       \/ \E action \in Actions : PackageConfigured(s, action)
  \/ HookStep
  \/ FailHook

Spec == Init /\ [][Next]_vars

(* Hooks and actions come to their end, and each charm checks the events in *)
(* a hook that runs again and again, as update-status does.                *)
Fairness ==
  /\ WF_vars(Tick)
  /\ WF_vars(HookStep)
  /\ \A a \in Apps : SF_vars(StartCheck(a))

FairSpec == Spec /\ Fairness

-----------------------------------------------------------------------------
(* Properties, stated for the hazards they hold under. *)

Spared(hazards) == exposed \intersect hazards = {}

(* A service that runs with old files is listed among the deferred restarts *)
(* of some charm, unless its restart is still to come: neither the policy, *)
(* nor what is cleared for other reasons, makes a request disappear.       *)
StillToCome(s) ==
  s \in upgraded \/ (hook.op \in {"restarting", "clearing"} /\ s \in hook.todo)

NoRestartForgotten ==
  exposed = {} =>
    \A s \in needs :
      StillToCome(s) \/ \E a \in Apps : s \in Listed(a)

(* check_restart_timestamps() clears an event only if its service has been  *)
(* restarted since that event.                                             *)
ClearedWhenRestarted ==
  [][hook.op = "checking" => events \ events' \subseteq answered]_vars

(* An event whose service was restarted, by whom ever, does not stay.      *)
AlarmEnds ==
  \A a \in Apps :
    []<>(Spared({"same_second", "hook_failure"}) =>
           answered \intersect get_deferred_restarts(a) = {})

(* No package restarts a service while a charm has restarts switched off   *)
(* and its config-changed hook has run.                                    *)
HeldBack ==
  [][\A s \in Services, action \in Actions, a \in Apps :
       PackageConfigured(s, action) /\ ~permitted[a] /\ a \notin configDue
         => UNCHANGED <<running, started, needs>>]_vars

(* Between hooks all services run, unless one could not be started.        *)
NoneLeftStopped ==
  hook = Idle /\ Spared({"service_failure"}) => running = Services
==============================================================================
