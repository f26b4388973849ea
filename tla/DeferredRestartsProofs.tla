------------------------ MODULE DeferredRestartsProofs ------------------------
(* Theorems about deferred restarts, for any applications and services, any *)
(* number of events and any bound of the clock.                            *)
EXTENDS DeferredRestarts, TLAPS

-----------------------------------------------------------------------------
Operations ==
  {"idle", "restarting", "clearing", "blocking", "checking", "stopping", "starting"}
Events ==
  [timestamp : Nat, service : Services, action : Actions,
   reason : {"File(s) changed", "Package update"}, app : Apps]
Hooks ==
  [op : Operations, app : Apps \union {NoApp}, todo : SUBSET (Services \union Events),
   services : SUBSET Services, failed : BOOLEAN]

TypeOK ==
  /\ exposed \in Exposures
  /\ now \in Nat
  /\ permitted \in [Apps -> BOOLEAN]
  /\ configDue \in SUBSET Apps
  /\ blocked \in [Apps -> SUBSET Services]
  /\ events \in SUBSET Events
  /\ running \in SUBSET Services
  /\ started \in [Services -> Nat]
  /\ needs \in SUBSET Services
  /\ hook \in Hooks
  /\ hook.op # "idle" => hook.app \in Apps
  /\ hook.op = "idle" => hook = Idle

(* The policy of an application that has restarts switched off blocks every *)
(* service, as soon as its config-changed hook is through.                 *)
Policies ==
  /\ \A a \in Apps : ~permitted[a] /\ a \notin configDue => blocked[a] = Services
  /\ hook.op = "blocking" =>
       /\ hook.app \in configDue
       /\ ~permitted[hook.app] => Services \ hook.todo \subseteq blocked[hook.app]

(* Services are down only while restart_services_action is at work on them. *)
Stopped ==
  CASE hook.op = "stopping" -> hook.services \ hook.todo
    [] hook.op = "starting" -> hook.todo
    [] OTHER -> {}

DownForAction ==
  /\ hook.op \in {"stopping", "starting"} => hook.todo \subseteq hook.services
  /\ Spared({"service_failure"}) =>
       /\ ~hook.failed
       /\ Services \ running \subseteq Stopped

(* A hook that will clear the events of a service has restarted it.        *)
Handled ==
  exposed = {} =>
    /\ hook.op \in {"clearing", "starting"} => needs \intersect hook.services = {}
    /\ hook.op = "stopping" => needs \intersect hook.services \subseteq hook.todo

(* Apart from these, every event is younger than its service, and a check  *)
(* finds the events as it has listed them.                                 *)
Timely ==
  exposed = {} =>
    /\ \A e \in events :
         \/ started[e.service] < e.timestamp
         \/ hook.op \in {"clearing", "starting"} /\ e.service \in hook.services
    /\ hook.op = "checking" => hook.todo \subseteq events

IInv ==
  /\ TypeOK
  /\ Policies
  /\ DownForAction
  /\ Handled
  /\ Timely
  /\ NoRestartForgotten

-----------------------------------------------------------------------------
(* What the hook is after a step of it. *)

LEMMA HookFields ==
  ASSUME TypeOK
  PROVE  /\ \A s : Done(s) = [hook EXCEPT !.todo = hook.todo \ {s}]
         /\ \A s : /\ Done(s) \in Hooks /\ Done(s).op = hook.op /\ Done(s).app = hook.app
                   /\ Done(s).todo = hook.todo \ {s} /\ Done(s).services = hook.services
                   /\ Done(s).failed = hook.failed
         /\ Idle \in Hooks /\ Idle.op = "idle" /\ Idle.services = {} /\ Idle.todo = {}
         /\ Idle.failed = FALSE
BY DEF TypeOK, Hooks, Done, Idle, Operations

LEMMA ListedServices ==
  ASSUME TypeOK, NEW a \in Apps
  PROVE  Listed(a) \in SUBSET Services
BY DEF TypeOK, Listed, get_deferred_restarts, deferred_events, Events

(* A step of the system is one of these. *)
LEMMA Cases ==
  ASSUME TypeOK, Next
  PROVE  \/ Tick
         \/ \E a \in Apps : SetAutoRestarts(a) \/ ConfigChanged(a) \/ StartCheck(a)
         \/ \E a \in Apps, svcs \in SUBSET Services : WriteFiles(a, svcs) \/ StartAction(a, svcs)
         \/ \E a \in Apps, s \in Services : RequestRestart(a, s)
         \/ \E s \in Services : OutsideRestart(s) \/ PackageUnpacked(s)
         \/ \E s \in Services, action \in Actions : PackageConfigured(s, action)
         \/ \E s \in Services : RestartOrRecord(s) \/ BlockNext(s) \/ StopNext(s) \/ StartNext(s)
         \/ CheckNext \/ ClearAfterRestart \/ AllStopped \/ AllStarted \/ FinishHook \/ FailHook
BY ListedServices DEF Next, HookStep

(* Events that are filed are events. *)
LEMMA EventTypes ==
  ASSUME TypeOK
  PROVE  /\ \A ts \in Nat, s \in Services, action \in Actions, a \in Apps :
              /\ Event(ts, s, action, "Package update", a) \in Events
              /\ RestartEvent(ts, s, a) \in Events
         /\ Rounded \subseteq Nat
         /\ \A e \in Events : Saved(e) \in SUBSET Events
         /\ \A svcs : clear_deferred_events(svcs) \subseteq events
<1>1. ASSUME NEW ts \in Nat, NEW s \in Services, NEW action \in Actions, NEW a \in Apps
      PROVE  /\ Event(ts, s, action, "Package update", a) \in Events
             /\ Event(ts, s, action, "File(s) changed", a) \in Events
  BY DEF Event, Events
<1>2. ASSUME NEW ts \in Nat, NEW s \in Services, NEW a \in Apps
      PROVE  RestartEvent(ts, s, a) \in Events
  BY <1>1 DEF RestartEvent, Actions
<1>3. Rounded \subseteq Nat
  BY DEF TypeOK, Rounded
<1>4. \A e \in Events : Saved(e) \in SUBSET Events
  BY DEF TypeOK, Saved
<1>5. \A svcs : clear_deferred_events(svcs) \subseteq events
  BY DEF clear_deferred_events
<1> QED  BY <1>1, <1>2, <1>3, <1>4, <1>5

(* A charm's request is on file after save_event(), if not before. *)
LEMMA Recorded ==
  ASSUME TypeOK, NEW s \in Services, NEW a \in Apps, NEW ts \in Rounded,
         events' = Saved(RestartEvent(ts, s, a))
  PROVE  /\ events' \in SUBSET Events
         /\ events \subseteq events'
         /\ \A e \in events' \ events : e.service = s /\ e.timestamp = ts
         /\ s \in Listed(a)'
<1> DEFINE new == RestartEvent(ts, s, a)
<1>1. ts \in Nat
  BY EventTypes
<1>2. new \in Events /\ new.service = s /\ new.timestamp = ts /\ new.app = a
      /\ new.action = "restart" /\ new.reason = "File(s) changed"
  BY <1>1, EventTypes DEF RestartEvent, Event, Actions
<1>3. \/ events' = events \union {new}
      \/ events' = events /\ duplicate_event_files(new) # {}
  BY DEF Saved
<1>4. PICK e \in events' : e.service = s /\ e.action = "restart" /\ e.app = a
  <2>1. CASE events' = events \union {new}
    BY <1>2, <2>1
  <2>2. CASE events' = events /\ duplicate_event_files(new) # {}
    BY <1>2, <2>2 DEF duplicate_event_files, deferred_events
  <2> QED  BY <1>3, <2>1, <2>2
<1>5. s \in Listed(a)'
  BY <1>4 DEF Listed, get_deferred_restarts, deferred_events
<1> HIDE DEF new
<1> QED  BY <1>2, <1>3, <1>5 DEF TypeOK

(* So are the requests of a package, one for each policy that blocks them. *)
LEMMA Blocked ==
  ASSUME TypeOK, NEW s \in Services, NEW action \in Actions, NEW ts \in Rounded,
         events' = events \union {Event(ts, s, action, "Package update", a) :
                                    a \in get_blocking_policies(s)}
  PROVE  /\ events' \in SUBSET Events
         /\ events \subseteq events'
         /\ \A e \in events' \ events : e.service = s /\ e.timestamp = ts
         /\ action = "restart" => \A a \in get_blocking_policies(s) : s \in Listed(a)'
<1> DEFINE new(a) == Event(ts, s, action, "Package update", a)
<1>1. ts \in Nat /\ get_blocking_policies(s) \subseteq Apps
  BY EventTypes DEF get_blocking_policies
<1>2. ASSUME NEW a \in get_blocking_policies(s)
      PROVE  new(a) \in Events /\ new(a).service = s /\ new(a).timestamp = ts
             /\ new(a).app = a /\ new(a).action = action
  BY <1>1, EventTypes DEF Event
<1> HIDE DEF new
<1>3. events' = events \union {new(a) : a \in get_blocking_policies(s)}
  BY DEF new
<1>4. ASSUME action = "restart", NEW a \in get_blocking_policies(s)
      PROVE  s \in Listed(a)'
  <2>1. new(a) \in events' /\ new(a).service = s /\ new(a).app = a
        /\ new(a).action = "restart"
    BY <1>2, <1>3, <1>4
  <2> QED  BY <2>1 DEF Listed, get_deferred_restarts, deferred_events
<1>5. events' \in SUBSET Events
  BY <1>2, <1>3 DEF TypeOK
<1>6. ASSUME NEW e \in events', e \notin events
      PROVE  e.service = s /\ e.timestamp = ts
  <2>1. PICK a \in get_blocking_policies(s) : e = new(a)
    BY <1>3, <1>6
  <2> QED  BY <1>2, <2>1
<1> QED  BY <1>3, <1>4, <1>5, <1>6

LEMMA TypeInit == Init => TypeOK
BY DEF Init, TypeOK, Idle, Hooks, Operations

LEMMA StartedTypes ==
  ASSUME TypeOK, NEW s \in Services, ServiceStarted(s)
  PROVE  /\ needs' \in SUBSET Services /\ running' \in SUBSET Services
         /\ started' \in [Services -> Nat]
BY DEF TypeOK, ServiceStarted

LEMMA TypeStep == TypeOK /\ [Next]_vars => TypeOK'
<1> SUFFICES ASSUME TypeOK, [Next]_vars
             PROVE  TypeOK'
  OBVIOUS
<1>0. /\ "restarting" \in Operations /\ "clearing" \in Operations
      /\ "blocking" \in Operations /\ "checking" \in Operations
      /\ "stopping" \in Operations /\ "starting" \in Operations
  BY DEF Operations
<1>1. CASE Tick
  BY <1>1 DEF Tick, TypeOK
<1>2. ASSUME NEW a \in Apps, SetAutoRestarts(a)
      PROVE  TypeOK'
  BY <1>2 DEF SetAutoRestarts, TypeOK
<1>3. ASSUME NEW a \in Apps, ConfigChanged(a)
      PROVE  TypeOK'
  BY <1>3 DEF ConfigChanged, Begin, TypeOK, Hooks, Operations
<1>4. ASSUME NEW a \in Apps, StartCheck(a)
      PROVE  TypeOK'
  <2>1. get_deferred_restarts(a) \in SUBSET Events
    BY DEF TypeOK, get_deferred_restarts, deferred_events
  <2>2. hook' = [op |-> "checking", app |-> a, todo |-> get_deferred_restarts(a),
                 services |-> {}, failed |-> FALSE]
    BY <1>4 DEF StartCheck, Idle
  <2> QED  BY <1>4, <2>1, <2>2 DEF StartCheck, TypeOK, Hooks, Operations
<1>5. ASSUME NEW a \in Apps, NEW svcs \in SUBSET Services, WriteFiles(a, svcs)
      PROVE  TypeOK'
  BY <1>5 DEF WriteFiles, Begin, TypeOK, Hooks, Operations
<1>6. ASSUME NEW a \in Apps, NEW svcs \in SUBSET Services, StartAction(a, svcs)
      PROVE  TypeOK'
  BY <1>6 DEF StartAction, Begin, TypeOK, Hooks, Operations
<1>7. ASSUME NEW a \in Apps, NEW s \in Services, RequestRestart(a, s)
      PROVE  TypeOK'
  <2>1. CASE is_restart_permitted(a)
    BY <1>7, <2>1, StartedTypes DEF RequestRestart, TypeOK
  <2>2. CASE ~is_restart_permitted(a)
    <3>1. PICK ts \in Rounded : events' = Saved(RestartEvent(ts, s, a))
      BY <1>7, <2>2 DEF RequestRestart
    <3>2. events' \in SUBSET Events
      BY <3>1, Recorded
    <3> QED  BY <1>7, <2>2, <3>2 DEF RequestRestart, TypeOK
  <2> QED  BY <2>1, <2>2
<1>8. ASSUME NEW s \in Services, OutsideRestart(s)
      PROVE  TypeOK'
  BY <1>8, StartedTypes DEF OutsideRestart, TypeOK
<1>9. ASSUME NEW s \in Services, PackageUnpacked(s)
      PROVE  TypeOK'
  BY <1>9 DEF PackageUnpacked, TypeOK
<1>10. ASSUME NEW s \in Services, NEW action \in Actions, PackageConfigured(s, action)
       PROVE  TypeOK'
  <2>1. CASE get_blocking_policies(s) # {}
    <3>2. PICK ts \in Rounded :
            events' = events \union {Event(ts, s, action, "Package update", a) :
                                       a \in get_blocking_policies(s)}
      BY <1>10, <2>1 DEF PackageConfigured
    <3>3. events' \in SUBSET Events
      BY <3>2, Blocked
    <3> QED  BY <1>10, <2>1, <3>3 DEF PackageConfigured, TypeOK
  <2>2. CASE get_blocking_policies(s) = {} /\ (s \in running \/ action = "restart")
    BY <1>10, <2>2, StartedTypes DEF PackageConfigured, TypeOK
  <2>3. CASE get_blocking_policies(s) = {} /\ ~(s \in running \/ action = "restart")
    BY <1>10, <2>3 DEF PackageConfigured, TypeOK
  <2> QED  BY <2>1, <2>2, <2>3
<1>11. ASSUME NEW s \in Services, RestartOrRecord(s)
       PROVE  TypeOK'
  <2>1. hook.op = "restarting" /\ hook.app \in Apps
    BY <1>11 DEF RestartOrRecord, TypeOK
  <2>2. CASE is_restart_permitted(hook.app)
    <3>1. hook' \in Hooks /\ hook'.op = "clearing" /\ hook'.app = hook.app
      <4>1. PICK d \in Hooks : /\ d.app = hook.app
                               /\ hook' = [d EXCEPT !.op = "clearing", !.services = {s}]
        BY <1>11, <2>2, HookFields DEF RestartOrRecord
      <4> QED  BY <1>0, <4>1 DEF Hooks
    <3> QED  BY <1>11, <2>1, <2>2, <3>1, StartedTypes DEF RestartOrRecord, TypeOK
  <2>3. CASE ~is_restart_permitted(hook.app)
    <3>1. hook' = Done(s)
      BY <1>11, <2>3 DEF RestartOrRecord
    <3>2. events' \in SUBSET Events
      <4>1. PICK ts \in Rounded : events' = Saved(RestartEvent(ts, s, hook.app))
        BY <1>11, <2>3 DEF RestartOrRecord
      <4> QED  BY <2>1, <4>1, Recorded
    <3> QED  BY <1>11, <2>1, <2>3, <3>1, <3>2, HookFields DEF RestartOrRecord, TypeOK
  <2> QED  BY <2>2, <2>3
<1>12. ASSUME NEW s \in Services, BlockNext(s)
       PROVE  TypeOK'
  BY <1>12, HookFields DEF BlockNext, add_policy_block, TypeOK
<1>13. ASSUME NEW s \in Services, StopNext(s)
       PROVE  TypeOK'
  <2>1. hook' \in Hooks /\ hook'.op = "stopping" /\ hook'.app = hook.app
    <3>1. PICK d \in Hooks : /\ d.app = hook.app /\ d.op = "stopping"
                             /\ hook' \in {d, [d EXCEPT !.failed = TRUE]}
      BY <1>13, HookFields DEF StopNext
    <3> QED  BY <3>1 DEF Hooks
  <2> QED  BY <1>13, <2>1 DEF StopNext, TypeOK
<1>14. ASSUME NEW s \in Services, StartNext(s)
       PROVE  TypeOK'
  <2>1. hook' \in Hooks /\ hook'.op = "starting" /\ hook'.app = hook.app
    BY <1>14, HookFields DEF StartNext, Hooks
  <2>2. CASE s \in running
    BY <1>14, <2>1, <2>2 DEF StartNext, TypeOK
  <2>3. CASE s \notin running
    BY <1>14, <2>1, <2>3, StartedTypes DEF StartNext, TypeOK
  <2> QED  BY <2>2, <2>3
<1>15. CASE CheckNext
  <2>1. events' \in SUBSET Events
    BY <1>15, EventTypes DEF CheckNext, TypeOK
  <2>2. hook' \in Hooks /\ hook'.op = "checking" /\ hook'.app = hook.app
    BY <1>15, HookFields DEF CheckNext
  <2> QED  BY <1>15, <2>1, <2>2 DEF CheckNext, TypeOK
<1>16. CASE ClearAfterRestart
  <2>1. events' \in SUBSET Events
    BY <1>16, EventTypes DEF ClearAfterRestart, TypeOK
  <2>2. hook' \in Hooks /\ hook'.op = "restarting" /\ hook'.app = hook.app
    BY <1>0, <1>16 DEF ClearAfterRestart, TypeOK, Hooks
  <2> QED  BY <1>16, <2>1, <2>2 DEF ClearAfterRestart, TypeOK
<1>17. CASE AllStopped
  <2>1. \/ hook' = Idle
        \/ hook' \in Hooks /\ hook'.op = "starting" /\ hook'.app = hook.app
    BY <1>0, <1>17 DEF AllStopped, TypeOK, Hooks
  <2> QED  BY <1>17, <2>1, HookFields DEF AllStopped, TypeOK
<1>18. CASE AllStarted
  <2>1. events' \in SUBSET Events
    BY <1>18, EventTypes DEF AllStarted, TypeOK
  <2> QED  BY <1>18, <2>1, HookFields DEF AllStarted, TypeOK
<1>19. CASE FinishHook
  BY <1>19, HookFields DEF FinishHook, TypeOK
<1>20. CASE FailHook
  BY <1>20, HookFields DEF FailHook, TypeOK
<1>21. CASE UNCHANGED vars
  BY <1>21 DEF vars, TypeOK
<1> QED  BY <1>1, <1>2, <1>3, <1>4, <1>5, <1>6, <1>7, <1>8, <1>9, <1>10, <1>11, <1>12,
            <1>13, <1>14, <1>15, <1>16, <1>17, <1>18, <1>19, <1>20, <1>21, Cases

-----------------------------------------------------------------------------
(* The policies: a service that is blocked stays so until the application  *)
(* permits restarts again, and its config-changed hook clears them.        *)

LEMMA PoliciesStep == IInv /\ [Next]_vars => Policies'
<1> SUFFICES ASSUME IInv, [Next]_vars
             PROVE  Policies'
  OBVIOUS
<1> USE DEF IInv
<1>0. TypeOK /\ Policies
  OBVIOUS
<1>1. ASSUME UNCHANGED <<permitted, configDue, blocked>>, hook'.op # "blocking" \/ hook' = hook
      PROVE  Policies'
  BY <1>0, <1>1 DEF Policies
<1>2. CASE Tick
  BY <1>1, <1>2 DEF Tick
<1>3. ASSUME NEW a \in Apps, SetAutoRestarts(a)
      PROVE  Policies'
  BY <1>0, <1>3, HookFields DEF SetAutoRestarts, Policies, TypeOK
<1>4. ASSUME NEW a \in Apps, ConfigChanged(a)
      PROVE  Policies'
  <2>1. /\ hook'.op = "blocking" /\ hook'.app = a
        /\ hook'.todo = IF permitted[a] THEN {} ELSE Services
    BY <1>4 DEF ConfigChanged, Begin, is_restart_permitted
  <2>2. a \in configDue /\ UNCHANGED <<permitted, configDue>>
    BY <1>4 DEF ConfigChanged
  <2>3. \A b \in Apps : b # a => blocked'[b] = blocked[b]
    BY <1>0, <1>4 DEF ConfigChanged, TypeOK
  <2> QED  BY <1>0, <2>1, <2>2, <2>3 DEF Policies
<1>5. ASSUME NEW a \in Apps, StartCheck(a)
      PROVE  Policies'
  <2>1. hook'.op = "checking"
    BY <1>5 DEF StartCheck, Idle
  <2> QED  BY <1>1, <1>5, <2>1 DEF StartCheck
<1>6. ASSUME NEW a \in Apps, NEW svcs \in SUBSET Services, WriteFiles(a, svcs)
      PROVE  Policies'
  BY <1>1, <1>6 DEF WriteFiles, Begin
<1>7. ASSUME NEW a \in Apps, NEW svcs \in SUBSET Services, StartAction(a, svcs)
      PROVE  Policies'
  BY <1>1, <1>7 DEF StartAction, Begin
<1>8. ASSUME NEW a \in Apps, NEW s \in Services, RequestRestart(a, s)
      PROVE  Policies'
  BY <1>1, <1>8 DEF RequestRestart
<1>9. ASSUME NEW s \in Services, OutsideRestart(s)
      PROVE  Policies'
  BY <1>1, <1>9 DEF OutsideRestart
<1>10. ASSUME NEW s \in Services, PackageUnpacked(s)
       PROVE  Policies'
  BY <1>1, <1>10 DEF PackageUnpacked
<1>11. ASSUME NEW s \in Services, NEW action \in Actions, PackageConfigured(s, action)
       PROVE  Policies'
  BY <1>1, <1>11 DEF PackageConfigured
<1>12. ASSUME NEW s \in Services, RestartOrRecord(s)
       PROVE  Policies'
  <2>1. hook'.op # "blocking"
    <3>1. CASE hook' = Done(s)
      BY <1>0, <1>12, <3>1, HookFields DEF RestartOrRecord
    <3>2. CASE hook' = [Done(s) EXCEPT !.op = "clearing", !.services = {s}]
      <4>1. PICK d \in Hooks : hook' = [d EXCEPT !.op = "clearing", !.services = {s}]
        BY <1>0, <3>2, HookFields
      <4> QED  BY <4>1 DEF Hooks
    <3> QED  BY <1>12, <3>1, <3>2 DEF RestartOrRecord
  <2> QED  BY <1>1, <1>12, <2>1 DEF RestartOrRecord
<1>13. ASSUME NEW s \in Services, BlockNext(s)
       PROVE  Policies'
  <2>1. /\ hook'.op = "blocking" /\ hook'.app = hook.app /\ hook'.todo = hook.todo \ {s}
        /\ hook.op = "blocking" /\ hook.app \in Apps
    BY <1>0, <1>13, HookFields DEF BlockNext, TypeOK
  <2>2. /\ blocked'[hook.app] = blocked[hook.app] \union {s}
        /\ \A b \in Apps : b # hook.app => blocked'[b] = blocked[b]
        /\ UNCHANGED <<permitted, configDue>>
    BY <1>0, <1>13, <2>1 DEF BlockNext, add_policy_block, TypeOK
  <2> QED  BY <1>0, <2>1, <2>2 DEF Policies
<1>14. ASSUME NEW s \in Services, StopNext(s)
       PROVE  Policies'
  <2>1. hook'.op = "stopping"
    <3>1. PICK d \in Hooks : /\ d.op = "stopping"
                             /\ hook' \in {d, [d EXCEPT !.failed = TRUE]}
      BY <1>0, <1>14, HookFields DEF StopNext
    <3> QED  BY <3>1 DEF Hooks
  <2> QED  BY <1>1, <1>14, <2>1 DEF StopNext
<1>15. ASSUME NEW s \in Services, StartNext(s)
       PROVE  Policies'
  <2>1. hook'.op = "starting"
    <3>1. PICK d \in Hooks : /\ d.op = "starting"
                             /\ hook' = [d EXCEPT !.failed = @ \/ s \notin running']
      BY <1>0, <1>15, HookFields DEF StartNext
    <3> QED  BY <3>1 DEF Hooks
  <2> QED  BY <1>1, <1>15, <2>1 DEF StartNext
<1>16. CASE CheckNext
  <2>1. hook'.op = "checking"
    BY <1>0, <1>16, HookFields DEF CheckNext
  <2> QED  BY <1>1, <1>16, <2>1 DEF CheckNext
<1>17. CASE ClearAfterRestart
  <2>1. hook'.op = "restarting"
    BY <1>0, <1>17 DEF ClearAfterRestart, TypeOK, Hooks
  <2> QED  BY <1>1, <1>17, <2>1 DEF ClearAfterRestart
<1>18. CASE AllStopped
  <2>1. hook'.op \in {"idle", "starting"}
    BY <1>0, <1>18, HookFields DEF AllStopped, TypeOK, Hooks
  <2> QED  BY <1>1, <1>18, <2>1 DEF AllStopped
<1>19. CASE AllStarted
  BY <1>0, <1>1, <1>19, HookFields DEF AllStarted
<1>20. CASE FinishHook
  <2>1. hook'.op = "idle" /\ UNCHANGED <<permitted, blocked>>
    BY <1>0, <1>20, HookFields DEF FinishHook
  <2>2. CASE hook.op = "blocking"
    <3>1. configDue' = configDue \ {hook.app} /\ hook.todo = {}
      BY <1>20, <2>2 DEF FinishHook
    <3>2. ~permitted[hook.app] => blocked[hook.app] = Services
      BY <1>0, <2>2, <3>1 DEF Policies, TypeOK
    <3> QED  BY <1>0, <2>1, <3>1, <3>2 DEF Policies
  <2>3. CASE hook.op # "blocking"
    BY <1>1, <1>20, <2>1, <2>3 DEF FinishHook
  <2> QED  BY <2>2, <2>3
<1>21. CASE FailHook
  BY <1>0, <1>1, <1>21, HookFields DEF FailHook
<1>22. CASE UNCHANGED vars
  BY <1>1, <1>22 DEF vars
<1> QED  BY <1>0, <1>2, <1>3, <1>4, <1>5, <1>6, <1>7, <1>8, <1>9, <1>10, <1>11, <1>12, <1>13,
            <1>14, <1>15, <1>16, <1>17, <1>18, <1>19, <1>20, <1>21, <1>22, Cases

-----------------------------------------------------------------------------
(* Services go down only in restart_services_action, which starts them     *)
(* again; where they cannot fail to, all run when it ends.                 *)

LEMMA StartsIt ==
  ASSUME TypeOK, NEW s \in Services, ServiceStarted(s)
  PROVE  /\ Spared({"service_failure"}) => running' = running \union {s}
         /\ needs' = needs \ {s}
         /\ running' \in {running \union {s}, running \ {s}}
BY DEF ServiceStarted, Spared

LEMMA DownStep == IInv /\ [Next]_vars => DownForAction'
<1> SUFFICES ASSUME IInv, [Next]_vars
             PROVE  DownForAction'
  OBVIOUS
<1> USE DEF IInv
<1>0. TypeOK /\ DownForAction
  OBVIOUS
<1>x. exposed' = exposed
  BY <1>0, Cases DEF vars, Tick, SetAutoRestarts, ConfigChanged, StartCheck, WriteFiles, StartAction,
     RequestRestart, OutsideRestart, PackageUnpacked, PackageConfigured, RestartOrRecord,
     BlockNext, StopNext, StartNext, CheckNext, ClearAfterRestart, AllStopped, AllStarted,
     FinishHook, FailHook
<1>a. Spared({"service_failure"})' = Spared({"service_failure"})
  BY <1>x DEF Spared
<1>b. ASSUME hook.op \notin {"stopping", "starting"}, hook'.op \notin {"stopping", "starting"},
             hook'.failed = hook.failed,
             Spared({"service_failure"}) => running \subseteq running'
      PROVE  DownForAction'
  BY <1>0, <1>a, <1>b DEF DownForAction, Stopped, TypeOK
<1>c. ASSUME hook' = hook, Spared({"service_failure"}) => running \subseteq running'
      PROVE  DownForAction'
  BY <1>0, <1>a, <1>c DEF DownForAction, Stopped, TypeOK
<1>1. CASE Tick
  BY <1>c, <1>1 DEF Tick
<1>2. ASSUME NEW a \in Apps, SetAutoRestarts(a)
      PROVE  DownForAction'
  BY <1>c, <1>2 DEF SetAutoRestarts
<1>3. ASSUME NEW a \in Apps, ConfigChanged(a)
      PROVE  DownForAction'
  BY <1>0, <1>b, <1>3, HookFields DEF ConfigChanged, Begin
<1>4. ASSUME NEW a \in Apps, StartCheck(a)
      PROVE  DownForAction'
  BY <1>0, <1>b, <1>4, HookFields DEF StartCheck, Idle
<1>5. ASSUME NEW a \in Apps, NEW svcs \in SUBSET Services, WriteFiles(a, svcs)
      PROVE  DownForAction'
  BY <1>0, <1>b, <1>5, HookFields DEF WriteFiles, Begin
<1>6. ASSUME NEW a \in Apps, NEW svcs \in SUBSET Services, StartAction(a, svcs)
      PROVE  DownForAction'
  <2>1. /\ hook'.op = "stopping" /\ hook'.todo = svcs /\ hook'.services = svcs
        /\ hook'.failed = FALSE /\ running' = running
    BY <1>6 DEF StartAction, Begin
  <2>2. Stopped = {}
    BY <1>0, <1>6, HookFields DEF StartAction, Stopped
  <2> QED  BY <1>0, <1>a, <2>1, <2>2 DEF DownForAction, Stopped
<1>7. ASSUME NEW a \in Apps, NEW s \in Services, RequestRestart(a, s)
      PROVE  DownForAction'
  BY <1>0, <1>c, <1>7, StartsIt DEF RequestRestart
<1>8. ASSUME NEW s \in Services, OutsideRestart(s)
      PROVE  DownForAction'
  BY <1>0, <1>c, <1>8, StartsIt DEF OutsideRestart
<1>9. ASSUME NEW s \in Services, PackageUnpacked(s)
      PROVE  DownForAction'
  BY <1>c, <1>9 DEF PackageUnpacked
<1>10. ASSUME NEW s \in Services, NEW action \in Actions, PackageConfigured(s, action)
       PROVE  DownForAction'
  <2>1. hook' = hook /\ (ServiceStarted(s) \/ running' = running)
    BY <1>10 DEF PackageConfigured
  <2> QED  BY <1>0, <1>c, <2>1, StartsIt
<1>11. ASSUME NEW s \in Services, RestartOrRecord(s)
       PROVE  DownForAction'
  <2>1. hook.op = "restarting" /\ (ServiceStarted(s) \/ running' = running)
    BY <1>11 DEF RestartOrRecord
  <2>2. hook'.op \in {"restarting", "clearing"} /\ hook'.failed = hook.failed
    <3>1. PICK d \in Hooks : /\ d.op = "restarting" /\ d.failed = hook.failed
                             /\ hook' \in {d, [d EXCEPT !.op = "clearing", !.services = {s}]}
      BY <1>0, <1>11, HookFields DEF RestartOrRecord
    <3> QED  BY <3>1 DEF Hooks
  <2> QED  BY <1>0, <1>b, <2>1, <2>2, StartsIt
<1>12. ASSUME NEW s \in Services, BlockNext(s)
       PROVE  DownForAction'
  BY <1>0, <1>b, <1>12, HookFields DEF BlockNext
<1>13. ASSUME NEW s \in Services, StopNext(s)
       PROVE  DownForAction'
  <2>1. hook.op = "stopping" /\ s \in hook.todo /\ hook.todo \subseteq hook.services
    BY <1>0, <1>13 DEF StopNext, DownForAction
  <2>2. hook'.op = "stopping" /\ hook'.todo = hook.todo \ {s} /\ hook'.services = hook.services
    <3>1. PICK d \in Hooks : /\ d.op = "stopping" /\ d.todo = hook.todo \ {s}
                             /\ d.services = hook.services
                             /\ hook' \in {d, [d EXCEPT !.failed = TRUE]}
      BY <1>0, <1>13, HookFields DEF StopNext
    <3> QED  BY <3>1 DEF Hooks
  <2>3. CASE Spared({"service_failure"})
    <3>1. hook' = Done(s) /\ running' = running \ {s}
      BY <1>13, <2>3 DEF StopNext, Spared
    <3>2. hook'.failed = hook.failed
      BY <1>0, <3>1, HookFields
    <3>3. Stopped = hook.services \ hook.todo /\ Stopped' = hook'.services \ hook'.todo
      BY <2>1, <2>2 DEF Stopped
    <3> QED  BY <1>0, <2>1, <2>2, <2>3, <3>1, <3>2, <3>3 DEF DownForAction
  <2> QED  BY <1>a, <2>1, <2>2, <2>3 DEF DownForAction
<1>14. ASSUME NEW s \in Services, StartNext(s)
       PROVE  DownForAction'
  <2>1. hook.op = "starting" /\ s \in hook.todo /\ hook.todo \subseteq hook.services
    BY <1>0, <1>14 DEF StartNext, DownForAction
  <2>2. /\ hook'.op = "starting" /\ hook'.todo = hook.todo \ {s}
        /\ hook'.services = hook.services
        /\ hook'.failed <=> hook.failed \/ s \notin running'
    <3>1. PICK d \in Hooks : /\ d.op = "starting" /\ d.todo = hook.todo \ {s}
                             /\ d.services = hook.services /\ d.failed = hook.failed
                             /\ hook' = [d EXCEPT !.failed = @ \/ s \notin running']
      BY <1>0, <1>14, HookFields DEF StartNext
    <3> QED  BY <3>1 DEF Hooks
  <2>3. CASE Spared({"service_failure"})
    <3>1. running' = running \union {s}
      BY <1>0, <1>14, <2>3, StartsIt DEF StartNext
    <3>2. Stopped = hook.todo /\ Stopped' = hook'.todo
      BY <2>1, <2>2 DEF Stopped
    <3> QED  BY <1>0, <2>1, <2>2, <2>3, <3>1, <3>2 DEF DownForAction
  <2> QED  BY <1>a, <2>1, <2>2, <2>3 DEF DownForAction
<1>15. CASE CheckNext
  BY <1>0, <1>b, <1>15, HookFields DEF CheckNext
<1>16. CASE ClearAfterRestart
  <2>1. hook'.op = "restarting" /\ hook'.failed = hook.failed
    BY <1>0, <1>16 DEF ClearAfterRestart, TypeOK, Hooks
  <2> QED  BY <1>b, <1>16, <2>1 DEF ClearAfterRestart
<1>17. CASE AllStopped
  <2>1. hook.op = "stopping" /\ hook.todo = {} /\ running' = running
    BY <1>17 DEF AllStopped
  <2>2. CASE hook' = Idle
    <3>1. ~Spared({"service_failure"})
      BY <1>0, <1>17, <2>2, HookFields DEF AllStopped, DownForAction, TypeOK, Hooks, Spared
    <3> QED  BY <1>0, <1>a, <2>2, <3>1, HookFields DEF DownForAction
  <2>3. CASE hook' = [hook EXCEPT !.op = "starting", !.todo = hook.services]
    <3>1. hook'.op = "starting" /\ hook'.todo = hook.services
          /\ hook'.services = hook.services /\ hook'.failed = hook.failed
      BY <1>0, <2>3 DEF TypeOK, Hooks
    <3>2. Stopped = hook.services \ hook.todo /\ Stopped' = hook.services
      BY <2>1, <3>1 DEF Stopped
    <3> QED  BY <1>0, <1>a, <2>1, <3>1, <3>2 DEF DownForAction
  <2> QED  BY <1>17, <2>2, <2>3 DEF AllStopped
<1>18. CASE AllStarted
  <2>1. hook.op = "starting" /\ hook.todo = {} /\ running' = running /\ hook' = Idle
    BY <1>18 DEF AllStarted
  <2>2. Stopped = {}
    BY <2>1 DEF Stopped
  <2> QED  BY <1>0, <1>a, <2>1, <2>2, HookFields DEF DownForAction
<1>19. CASE FinishHook
  <2>1. hook.op \notin {"stopping", "starting"} /\ hook' = Idle /\ running' = running
    BY <1>19 DEF FinishHook
  <2>2. Stopped = {}
    BY <2>1 DEF Stopped
  <2> QED  BY <1>0, <1>a, <2>1, <2>2, HookFields DEF DownForAction
<1>20. CASE FailHook
  <2>1. hook.op \notin {"stopping", "starting"} /\ hook' = Idle /\ running' = running
    BY <1>20 DEF FailHook
  <2>2. Stopped = {}
    BY <2>1 DEF Stopped
  <2> QED  BY <1>0, <1>a, <2>1, <2>2, HookFields DEF DownForAction
<1>21. CASE UNCHANGED vars
  BY <1>c, <1>21 DEF vars
<1> QED  BY <1>0, <1>1, <1>2, <1>3, <1>4, <1>5, <1>6, <1>7, <1>8, <1>9, <1>10, <1>11, <1>12,
            <1>13, <1>14, <1>15, <1>16, <1>17, <1>18, <1>19, <1>20, <1>21, Cases

-----------------------------------------------------------------------------
(* A machine that faces none of the hazards. *)

LEMMA Unexposed ==
  ASSUME TypeOK, exposed = {}
  PROVE  /\ Rounded = {now}
         /\ \A s : ClockTold(s) <=> started[s] < now
         /\ \A s : Unrecorded(s) <=> \A e \in events : e.service # s
         /\ \A hazards : Spared(hazards)
BY DEF Rounded, ClockTold, Unrecorded, Spared

LEMMA RestartedNow ==
  ASSUME TypeOK, exposed = {}, NEW s \in Services, ServiceStarted(s)
  PROVE  /\ needs' = needs \ {s}
         /\ started'[s] = now
         /\ \A r \in Services : r # s => started'[r] = started[r]
BY DEF ServiceStarted, TypeOK

LEMMA EventFields ==
  ASSUME TypeOK
  PROVE  \A e \in events : e.service \in Services /\ e.timestamp \in Nat
BY DEF TypeOK, Events

(* What is listed stays listed while its event does. *)
LEMMA StaysListed ==
  ASSUME NEW s, NEW a, s \in Listed(a),
         \A e \in events : e.service = s => e \in events'
  PROVE  s \in Listed(a)'
BY DEF Listed, get_deferred_restarts, deferred_events

LEMMA ClearedAway ==
  ASSUME NEW svcs, events' = clear_deferred_events(svcs)
  PROVE  /\ \A e \in events' : e \in events /\ e.service \notin svcs
         /\ \A e \in events : e.service \notin svcs => e \in events'
BY DEF clear_deferred_events

Accounted ==
  /\ \A e \in events :
       \/ started[e.service] < e.timestamp
       \/ hook.op \in {"clearing", "starting"} /\ e.service \in hook.services
  /\ hook.op = "checking" => hook.todo \subseteq events
  /\ hook.op \in {"clearing", "starting"} => needs \intersect hook.services = {}
  /\ hook.op = "stopping" => needs \intersect hook.services \subseteq hook.todo
  /\ \A s \in needs : StillToCome(s) \/ \E a \in Apps : s \in Listed(a)

LEMMA AccountedIsIt ==
  ASSUME exposed = {}
  PROVE  Accounted <=> Handled /\ Timely /\ NoRestartForgotten
BY DEF Accounted, Handled, Timely, NoRestartForgotten

LEMMA AccountedStep ==
  ASSUME IInv, Next, exposed = {}
  PROVE  Accounted'
<1> USE DEF IInv
<1>0. TypeOK /\ Accounted
  BY AccountedIsIt
<1>d. DownForAction /\ ~hook.failed
  BY DEF DownForAction, Spared
(* Most steps leave the events, and disturb no request. *)
<1>a. ASSUME UNCHANGED <<events, started>>,
             hook'.op \notin {"clearing", "starting", "checking", "stopping"},
             hook.op \notin {"clearing", "starting"},
             \A s \in needs' : \/ StillToCome(s)'
                               \/ s \in needs /\ (StillToCome(s) => StillToCome(s)')
      PROVE  Accounted'
  BY <1>0, <1>a DEF Accounted, Listed, get_deferred_restarts, deferred_events
<1>1. CASE Tick
  BY <1>0, <1>1 DEF Tick, Accounted, StillToCome, Listed, get_deferred_restarts, deferred_events
<1>2. ASSUME NEW a \in Apps, SetAutoRestarts(a)
      PROVE  Accounted'
  BY <1>a, <1>2, <1>0, HookFields DEF SetAutoRestarts, StillToCome
<1>3. ASSUME NEW a \in Apps, ConfigChanged(a)
      PROVE  Accounted'
  BY <1>a, <1>3, <1>0, HookFields DEF ConfigChanged, Begin, StillToCome
<1>4. ASSUME NEW a \in Apps, StartCheck(a)
      PROVE  Accounted'
  <2>1. hook.op = "idle" /\ hook'.op = "checking" /\ hook'.todo = get_deferred_restarts(a)
        /\ UNCHANGED <<events, started, needs, upgraded>>
    BY <1>0, <1>4, HookFields DEF StartCheck, Idle
  <2>2. get_deferred_restarts(a) \subseteq events
    BY DEF get_deferred_restarts, deferred_events
  <2> QED  BY <1>0, <2>1, <2>2 DEF Accounted, StillToCome, Listed, get_deferred_restarts,
              deferred_events
<1>5. ASSUME NEW a \in Apps, NEW svcs \in SUBSET Services, WriteFiles(a, svcs)
      PROVE  Accounted'
  <2>1. /\ hook.op = "idle" /\ hook'.op = "restarting" /\ hook'.todo = svcs
        /\ UNCHANGED <<events, started, upgraded>> /\ needs' \subseteq needs \union svcs
    BY <1>0, <1>5, HookFields DEF WriteFiles, Begin
  <2> QED  BY <1>a, <2>1 DEF StillToCome
<1>6. ASSUME NEW a \in Apps, NEW svcs \in SUBSET Services, StartAction(a, svcs)
      PROVE  Accounted'
  <2>1. /\ hook.op = "idle" /\ hook'.op = "stopping" /\ hook'.todo = svcs
        /\ hook'.services = svcs /\ UNCHANGED <<events, started, needs, upgraded>>
    BY <1>0, <1>6, HookFields DEF StartAction, Begin
  <2> QED  BY <1>0, <2>1 DEF Accounted, StillToCome, Listed, get_deferred_restarts,
              deferred_events
<1>7. ASSUME NEW s \in Services, hook' = hook, UNCHANGED events, Unrecorded(s),
             ServiceStarted(s), upgraded' \in {upgraded, upgraded \ {s}}
      PROVE  Accounted'
  <2>1. \A e \in events : e.service # s
    BY <1>0, <1>7, Unexposed
  <2>2. needs' = needs \ {s} /\ \A r \in Services : r # s => started'[r] = started[r]
    BY <1>0, <1>7, RestartedNow
  <2>3. \A e \in events : started'[e.service] = started[e.service]
    BY <1>0, <2>1, <2>2, EventFields
  <2>4. \A r \in needs' : StillToCome(r) => StillToCome(r)'
    BY <1>7, <2>2 DEF StillToCome
  <2>5. \A a : Listed(a)' = Listed(a)
    BY <1>7 DEF Listed, get_deferred_restarts, deferred_events
  <2> QED  BY <1>0, <1>7, <2>2, <2>3, <2>4, <2>5 DEF Accounted
(* A request on file is younger than its service. *)
<1>8. ASSUME NEW s \in Services, NEW ts \in Rounded, ClockTold(s), hook.op \in {"idle", "restarting"},
             hook'.op = hook.op, hook'.todo \subseteq hook.todo, hook.todo \subseteq hook'.todo \union {s},
             UNCHANGED started,
             events \subseteq events', \A e \in events' \ events : e.service = s /\ e.timestamp = ts,
             \E a \in Apps : s \in Listed(a)',
             needs' \subseteq needs \union {s}, upgraded' \in {upgraded, upgraded \ {s}}
      PROVE  Accounted'
  <2>1. \A e \in events' : started'[e.service] < e.timestamp
    BY <1>0, <1>8, Unexposed DEF Accounted
  <2>2. \A a \in Apps : Listed(a) \subseteq Listed(a)'
    BY <1>8 DEF Listed, get_deferred_restarts, deferred_events
  <2>3. \A r \in needs' : r # s => r \in needs /\ (StillToCome(r) => StillToCome(r)')
    BY <1>8 DEF StillToCome
  <2>4. \A r \in needs' : StillToCome(r)' \/ \E a \in Apps : r \in Listed(a)'
    BY <1>0, <1>8, <2>2, <2>3 DEF Accounted
  <2> QED  BY <1>8, <2>1, <2>4 DEF Accounted
<1>9. ASSUME NEW a \in Apps, NEW s \in Services, RequestRestart(a, s)
      PROVE  Accounted'
  <2>1. CASE is_restart_permitted(a)
    BY <1>7, <1>9, <2>1 DEF RequestRestart
  <2>2. CASE ~is_restart_permitted(a)
    <3>1. /\ hook = Idle /\ hook' = hook /\ ClockTold(s) /\ UNCHANGED <<started, upgraded>>
          /\ needs' \subseteq needs \union {s}
      BY <1>9, <2>2 DEF RequestRestart
    <3>2. PICK ts \in Rounded : events' = Saved(RestartEvent(ts, s, a))
      BY <1>9, <2>2 DEF RequestRestart
    <3>3. /\ events \subseteq events' /\ s \in Listed(a)'
          /\ \A e \in events' \ events : e.service = s /\ e.timestamp = ts
      BY <1>0, <3>2, Recorded
    <3> QED  BY <1>0, <1>8, <3>1, <3>3, HookFields
  <2> QED  BY <2>1, <2>2
<1>10. ASSUME NEW s \in Services, OutsideRestart(s)
       PROVE  Accounted'
  BY <1>7, <1>10 DEF OutsideRestart
<1>11. ASSUME NEW s \in Services, PackageUnpacked(s)
       PROVE  Accounted'
  <2>1. /\ hook = Idle /\ hook' = hook /\ upgraded' = upgraded \union {s}
        /\ UNCHANGED <<events, started>> /\ needs' \subseteq needs \union {s}
    BY <1>11 DEF PackageUnpacked
  <2> QED  BY <1>0, <1>a, <2>1, HookFields DEF StillToCome
<1>12. ASSUME NEW s \in Services, NEW action \in Actions, PackageConfigured(s, action)
       PROVE  Accounted'
  <2>1. hook = Idle /\ hook' = hook /\ action = "restart" /\ upgraded' = upgraded \ {s}
    BY <1>12 DEF PackageConfigured, Actions
  <2>2. CASE get_blocking_policies(s) # {}
    <3>1. ClockTold(s) /\ UNCHANGED <<started, needs>>
      BY <1>12, <2>2 DEF PackageConfigured
    <3>2. PICK ts \in Rounded :
            events' = events \union {Event(ts, s, action, "Package update", a) :
                                       a \in get_blocking_policies(s)}
      BY <1>12, <2>2 DEF PackageConfigured
    <3>3. /\ events \subseteq events'
          /\ \A e \in events' \ events : e.service = s /\ e.timestamp = ts
          /\ \A a \in get_blocking_policies(s) : s \in Listed(a)'
      <4>1. action = "restart" => \A a \in get_blocking_policies(s) : s \in Listed(a)'
        BY <1>0, <3>2, Blocked
      <4>2. /\ events \subseteq events'
            /\ \A e \in events' \ events : e.service = s /\ e.timestamp = ts
        BY <1>0, <3>2, Blocked
      <4> QED  BY <2>1, <4>1, <4>2
    <3>4. \E a \in Apps : s \in Listed(a)'
      BY <2>2, <3>3 DEF get_blocking_policies
    <3> QED  BY <1>0, <1>8, <2>1, <3>1, <3>3, <3>4, HookFields
  <2>3. CASE get_blocking_policies(s) = {}
    BY <1>7, <1>12, <2>1, <2>3 DEF PackageConfigured
  <2> QED  BY <2>2, <2>3
<1>13. ASSUME NEW s \in Services, RestartOrRecord(s)
       PROVE  Accounted'
  <2>1. hook.op = "restarting" /\ s \in hook.todo /\ hook.app \in Apps /\ upgraded' = upgraded
    BY <1>0, <1>13 DEF RestartOrRecord, TypeOK
  <2>2. CASE is_restart_permitted(hook.app)
    <3>1. ServiceStarted(s) /\ UNCHANGED events
      BY <1>13, <2>2 DEF RestartOrRecord
    <3>2. hook'.op = "clearing" /\ hook'.services = {s} /\ hook'.todo = hook.todo \ {s}
      <4>1. PICK d \in Hooks : /\ d.todo = hook.todo \ {s}
                               /\ hook' = [d EXCEPT !.op = "clearing", !.services = {s}]
        BY <1>0, <1>13, <2>2, HookFields DEF RestartOrRecord
      <4> QED  BY <4>1 DEF Hooks
    <3>3. needs' = needs \ {s} /\ \A r \in Services : r # s => started'[r] = started[r]
      BY <1>0, <3>1, RestartedNow
    <3>4. \A e \in events' : started'[e.service] < e.timestamp \/ e.service = s
      BY <1>0, <2>1, <3>1, <3>3, EventFields DEF Accounted
    <3>5. \A r \in needs' : StillToCome(r) => StillToCome(r)'
      BY <2>1, <3>2, <3>3 DEF StillToCome
    <3>6. \A a : Listed(a)' = Listed(a)
      BY <3>1 DEF Listed, get_deferred_restarts, deferred_events
    <3> QED  BY <1>0, <3>2, <3>3, <3>4, <3>5, <3>6 DEF Accounted
  <2>3. CASE ~is_restart_permitted(hook.app)
    <3>1. hook' = Done(s) /\ ClockTold(s) /\ UNCHANGED <<started, needs>>
      BY <1>13, <2>3 DEF RestartOrRecord
    <3>2. PICK a \in Apps : a = hook.app
      BY <2>1
    <3>3. PICK ts \in Rounded : events' = Saved(RestartEvent(ts, s, a))
      BY <1>13, <2>3, <3>2 DEF RestartOrRecord
    <3>4. /\ events \subseteq events' /\ s \in Listed(a)'
          /\ \A e \in events' \ events : e.service = s /\ e.timestamp = ts
      BY <1>0, <3>3, Recorded
    <3>5. hook'.op = hook.op /\ hook'.todo = hook.todo \ {s}
      BY <1>0, <3>1, HookFields
    <3> QED  BY <1>8, <2>1, <3>1, <3>4, <3>5
  <2> QED  BY <2>2, <2>3
<1>14. ASSUME NEW s \in Services, BlockNext(s)
       PROVE  Accounted'
  <2>1. hook.op = "blocking" /\ hook'.op = "blocking"
        /\ UNCHANGED <<events, started, needs, upgraded>>
    BY <1>0, <1>14, HookFields DEF BlockNext
  <2> QED  BY <1>a, <2>1 DEF StillToCome
<1>15. ASSUME NEW s \in Services, StopNext(s)
       PROVE  Accounted'
  <2>1. /\ hook.op = "stopping" /\ hook' = Done(s) /\ needs' = needs \ {s}
        /\ UNCHANGED <<events, started, upgraded>>
    BY <1>15 DEF StopNext
  <2>2. /\ hook'.op = "stopping" /\ hook'.todo = hook.todo \ {s}
        /\ hook'.services = hook.services
    BY <1>0, <2>1, HookFields
  <2> QED  BY <1>0, <2>1, <2>2 DEF Accounted, StillToCome, Listed, get_deferred_restarts,
              deferred_events
<1>16. ASSUME NEW s \in Services, StartNext(s)
       PROVE  Accounted'
  <2>1. /\ hook.op = "starting" /\ s \in hook.services
        /\ UNCHANGED <<events, upgraded>>
    BY <1>d, <1>16 DEF StartNext, DownForAction
  <2>2. hook'.op = "starting" /\ hook'.services = hook.services
    <3>1. PICK d \in Hooks : /\ d.op = "starting" /\ d.services = hook.services
                             /\ hook' = [d EXCEPT !.failed = @ \/ s \notin running']
      BY <1>0, <1>16, HookFields DEF StartNext
    <3> QED  BY <3>1 DEF Hooks
  <2>3. needs' \subseteq needs /\ \A r \in Services : r # s => started'[r] = started[r]
    BY <1>0, <1>16, RestartedNow DEF StartNext
  <2>4. \A e \in events : e.service # s => started'[e.service] = started[e.service]
    BY <1>0, <2>3, EventFields
  <2>5. \A r : /\ StillToCome(r) => StillToCome(r)'
               /\ \A a : Listed(a)' = Listed(a)
    BY <2>1, <2>2 DEF StillToCome, Listed, get_deferred_restarts, deferred_events
  <2> QED  BY <1>0, <2>1, <2>2, <2>3, <2>4, <2>5 DEF Accounted
(* The events that a check finds are all younger than their services. *)
<1>17. CASE CheckNext
  <2>1. PICK e \in hook.todo : /\ hook' = Done(e)
                               /\ events' = IF StillRequired(e) THEN events
                                            ELSE clear_deferred_events({e.service})
    BY <1>17 DEF CheckNext
  <2>2. hook.op = "checking" /\ UNCHANGED <<started, needs, upgraded>>
    BY <1>17 DEF CheckNext
  <2>3. events' = events
    BY <1>0, <2>1, <2>2 DEF Accounted, StillRequired
  <2>4. hook'.op = "checking" /\ hook'.todo \subseteq hook.todo
    BY <1>0, <2>1, <2>2, HookFields
  <2> QED  BY <1>0, <2>2, <2>3, <2>4 DEF Accounted, StillToCome, Listed, get_deferred_restarts,
              deferred_events
(* Only events of services that were restarted are cleared. *)
<1>18. ASSUME hook.op \in {"clearing", "starting"}, events' = clear_deferred_events(hook.services),
              hook'.op \in {"restarting", "idle"}, UNCHANGED <<started, needs, upgraded>>,
              hook.op = "clearing" => hook'.op = "restarting" /\ hook'.todo = hook.todo
       PROVE  Accounted'
  <2>1. needs \intersect hook.services = {}
    BY <1>0, <1>18 DEF Accounted
  <2>2. \A e \in events' : started'[e.service] < e.timestamp
    BY <1>0, <1>18, ClearedAway DEF Accounted
  <2>3. \A r \in needs, a \in Apps : r \in Listed(a) => r \in Listed(a)'
    BY <1>18, <2>1, ClearedAway, StaysListed
  <2>4. \A r : StillToCome(r) => StillToCome(r)'
    BY <1>18 DEF StillToCome
  <2> QED  BY <1>0, <1>18, <2>2, <2>3, <2>4 DEF Accounted
<1>19. CASE ClearAfterRestart
  <2>1. hook'.op = "restarting" /\ hook'.todo = hook.todo
    BY <1>0, <1>19 DEF ClearAfterRestart, TypeOK, Hooks
  <2> QED  BY <1>18, <1>19, <2>1 DEF ClearAfterRestart
<1>20. CASE AllStopped
  <2>1. hook.op = "stopping" /\ hook.todo = {} /\ UNCHANGED <<events, started, needs, upgraded>>
        /\ hook' = [hook EXCEPT !.op = "starting", !.todo = hook.services]
    BY <1>d, <1>20 DEF AllStopped
  <2>2. hook'.op = "starting" /\ hook'.services = hook.services
    BY <1>0, <2>1 DEF TypeOK, Hooks
  <2> QED  BY <1>0, <2>1, <2>2 DEF Accounted, StillToCome, Listed, get_deferred_restarts,
              deferred_events
<1>21. CASE AllStarted
  BY <1>0, <1>d, <1>18, <1>21, HookFields DEF AllStarted
<1>22. CASE FinishHook
  <2>1. /\ hook.op \notin {"clearing", "starting"} /\ hook.todo = {} /\ hook'.op = "idle"
        /\ UNCHANGED <<events, started, needs, upgraded>>
    BY <1>0, <1>22, HookFields DEF FinishHook
  <2> QED  BY <1>a, <2>1 DEF StillToCome
<1>23. CASE FailHook
  BY <1>23 DEF FailHook
<1> QED  BY <1>0, <1>1, <1>2, <1>3, <1>4, <1>5, <1>6, <1>9, <1>10, <1>11, <1>12, <1>13, <1>14,
            <1>15, <1>16, <1>17, <1>19, <1>20, <1>21, <1>22, <1>23, Cases

-----------------------------------------------------------------------------
LEMMA InvInit == Init => IInv
<1> SUFFICES ASSUME Init
             PROVE  IInv
  OBVIOUS
<1>1. TypeOK /\ hook.op = "idle"
  BY TypeInit, HookFields DEF Init
<1>2. Policies
  BY <1>1 DEF Init, Policies
<1>3. DownForAction
  BY <1>1, HookFields DEF Init, DownForAction, Stopped
<1>4. Handled /\ Timely /\ NoRestartForgotten
  BY <1>1 DEF Init, Handled, Timely, NoRestartForgotten
<1> QED  BY <1>1, <1>2, <1>3, <1>4 DEF IInv

LEMMA InvStep == IInv /\ [Next]_vars => IInv'
<1> SUFFICES ASSUME IInv, [Next]_vars
             PROVE  IInv'
  OBVIOUS
<1>1. TypeOK' /\ Policies' /\ DownForAction'
  BY TypeStep, PoliciesStep, DownStep DEF IInv
<1>2. (Handled /\ Timely /\ NoRestartForgotten)'
  <2>1. CASE UNCHANGED vars
    BY <2>1 DEF vars, IInv, Handled, Timely, NoRestartForgotten, StillToCome, Listed,
       get_deferred_restarts, deferred_events
  <2>2. ASSUME Next, exposed = {}
        PROVE  Handled' /\ Timely' /\ NoRestartForgotten'
    BY <2>2, AccountedStep DEF Accounted, Handled, Timely, NoRestartForgotten
  <2>3. ASSUME Next, exposed # {}
        PROVE  Handled' /\ Timely' /\ NoRestartForgotten'
    <3>1. exposed' # {}
      BY <2>3, Cases DEF IInv, Tick, SetAutoRestarts, ConfigChanged, StartCheck, WriteFiles,
         StartAction, RequestRestart, OutsideRestart, PackageUnpacked, PackageConfigured,
         RestartOrRecord, BlockNext, StopNext, StartNext, CheckNext, ClearAfterRestart,
         AllStopped, AllStarted, FinishHook, FailHook
    <3> QED  BY <3>1 DEF Handled, Timely, NoRestartForgotten
  <2> QED  BY <2>1, <2>2, <2>3
<1> QED  BY <1>1, <1>2 DEF IInv

(* The inductive invariant holds in every reachable state. *)
THEOREM Invariance == Spec => []IInv
BY InvInit, InvStep, PTL DEF Spec

(* A service that runs with old files is listed among the deferred restarts *)
(* of some charm, or its restart is still to come: save_event() files a    *)
(* request before the hook forgets it, and clear_deferred_events() is only *)
(* called for services that were restarted.                                *)
THEOREM RequestsStay == Spec => []NoRestartForgotten
BY Invariance, PTL DEF IInv

(* restart_services_action() leaves no service stopped, nor does any other *)
(* step, on a machine whose services do not fail to start or to stop.      *)
THEOREM AllRunAgain == Spec => []NoneLeftStopped
<1>1. IInv => NoneLeftStopped
  <2>1. ASSUME TypeOK, DownForAction, hook = Idle, Spared({"service_failure"})
        PROVE  running = Services
    <3>1. Stopped = {}
      BY <2>1, HookFields DEF Stopped
    <3> QED  BY <2>1, <3>1 DEF DownForAction, TypeOK
  <2> QED  BY <2>1 DEF IInv, NoneLeftStopped
<1> QED  BY <1>1, Invariance, PTL

(* policy-rc.d keeps the packaging system from restarting any service, once *)
(* configure_deferred_restarts() of an application has blocked them all,   *)
(* whatever the policies of the other applications say.                    *)
THEOREM PoliciesHold == Spec => HeldBack
<1>1. ASSUME IInv, NEW s \in Services, NEW action \in Actions, NEW a \in Apps,
             PackageConfigured(s, action), ~permitted[a], a \notin configDue
      PROVE  UNCHANGED <<running, started, needs>>
  <2>1. s \in blocked[a]
    BY <1>1 DEF IInv, Policies
  <2>2. get_blocking_policies(s) # {}
    BY <1>1, <2>1 DEF get_blocking_policies
  <2> QED  BY <1>1, <2>2 DEF PackageConfigured
<1> DEFINE Held == \A s \in Services, action \in Actions, a \in Apps :
                     PackageConfigured(s, action) /\ ~permitted[a] /\ a \notin configDue
                       => UNCHANGED <<running, started, needs>>
<1>2. IInv => Held
  BY <1>1
<1>3. IInv /\ [Next]_vars => [Held]_vars
  BY <1>2
<1> QED  BY <1>3, Invariance, PTL DEF Spec, HeldBack
===============================================================================
