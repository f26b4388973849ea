----------------------------- MODULE OSUnitProofs -----------------------------
(* Theorems about a unit of an OpenStack charm, for any charm: any services, *)
(* files, contexts, relations and remote units.                            *)
EXTENDS OSUnit, NaturalsInduction, WellFoundedInduction, TLAPS

-----------------------------------------------------------------------------
(* A paused unit has all its services masked, which is what keeps them     *)
(* down through restarts and reboots; its upgrade begins with a pause.     *)
Masked ==
  /\ autoRestarts \in BOOLEAN
  /\ paused => masked = Services
  /\ upgrading => paused

IInv ==
  /\ Masked
  /\ PausedStaysDown
  /\ RunsOnFiles
  /\ NothingForgotten

-----------------------------------------------------------------------------
(* What the steps have in common. *)

LEMMA Changes ==
  ASSUME Next
  PROVE  /\ UNCHANGED <<exposed, charm>>
         /\ Services' = Services
         /\ \A hazards : Spared(hazards)' = Spared(hazards)
         /\ RelationsChange \/ SetOptions \/ UNCHANGED <<rel, offered, options, rendered>>
<1>1. UNCHANGED <<exposed, charm>>
  BY DEF Next, RelationsChange, SetOptions, SwitchAutoRestarts, RelationChanged, ConfigChanged,
     Hook, HookFails, UpdateStatus, RunDeferredHooks, PauseAction, ResumeAction, RestartAction,
     series_upgrade_prepare, series_upgrade_complete, ServiceDies, Reboot
<1>2. RelationsChange \/ SetOptions \/ UNCHANGED <<rel, offered, options>>
  BY DEF Next, SwitchAutoRestarts, RelationChanged, ConfigChanged,
     Hook, HookFails, UpdateStatus, RunDeferredHooks, PauseAction, ResumeAction, RestartAction,
     series_upgrade_prepare, series_upgrade_complete, ServiceDies, Reboot
<1>3. UNCHANGED <<offered, options>> => UNCHANGED rendered
  BY <1>1 DEF rendered, Files
<1> QED  BY <1>1, <1>2, <1>3 DEF Services, Spared

LEMMA NoneFail ==
  ASSUME Spared({"service_failure"})
  PROVE  Failing = {{}}
BY DEF Spared, Failing

(* The hooks that concern a configuration write the files, or are deferred. *)
LEMMA HookEffect ==
  ASSUME NEW h, NEW permitted \in BOOLEAN, NEW changed \in BOOLEAN, Hook(h, permitted, changed)
  PROVE  /\ UNCHANGED <<masked, paused, upgrading>> /\ ~upgrading /\ pending' = FALSE
         /\ \/ permitted /\ \E departing : RunHook(departing)
            \/ /\ ~permitted /\ UNCHANGED <<files, up, stale>>
               /\ deferred' = IF changed THEN deferred ELSE deferred \union {h}
<1>1. is_hook_allowed(TRUE, permitted) = permitted
  BY DEF is_hook_allowed
<1>2. ~permitted => note_deferred_hook(h, TRUE, permitted, changed)
                      = IF changed THEN deferred ELSE deferred \union {h}
  BY DEF note_deferred_hook
<1>3. CASE permitted
  <2>1. PICK departing : RunHook(departing)
    BY <1>1, <1>3 DEF Hook
  <2>2. UNCHANGED <<masked, paused, upgrading>>
    BY <2>1 DEF RunHook
  <2> QED  BY <1>3, <2>1, <2>2 DEF Hook
<1>4. CASE ~permitted
  BY <1>1, <1>2, <1>4 DEF Hook
<1> QED  BY <1>3, <1>4

(* Next, with the hooks told apart by what they are permitted.             *)
LEMMA Cases ==
  ASSUME Masked, Next
  PROVE  \/ RelationsChange \/ SetOptions
         \/ /\ \E h : \E permitted, changed \in BOOLEAN :
                 /\ Hook(h, permitted, changed)
                 /\ changed => ~pending \/ "option_together" \in exposed
            /\ autoRestarts' \in BOOLEAN
         \/ /\ UNCHANGED <<autoRestarts, deferred, pending>>
            /\ \/ HookFails \/ UpdateStatus \/ PauseAction \/ ResumeAction \/ RestartAction
               \/ series_upgrade_prepare \/ series_upgrade_complete
               \/ \E s \in Services : ServiceDies(s)
               \/ Reboot
         \/ RunDeferredHooks
<1>1. CASE SwitchAutoRestarts
  <2>1. /\ Hook("config-changed", ~autoRestarts, TRUE) /\ autoRestarts' = ~autoRestarts
        /\ ~pending \/ "option_together" \in exposed
    BY <1>1 DEF SwitchAutoRestarts
  <2> QED  BY <2>1 DEF Masked
<1>2. CASE RelationChanged \/ ConfigChanged
  <2>1. \E h : Hook(h, autoRestarts, FALSE) /\ autoRestarts' = autoRestarts
    BY <1>2 DEF RelationChanged, ConfigChanged
  <2> QED  BY <2>1 DEF Masked
<1>3. CASE \/ HookFails \/ UpdateStatus \/ PauseAction \/ ResumeAction \/ RestartAction
           \/ series_upgrade_prepare \/ series_upgrade_complete
           \/ \E s \in Services : ServiceDies(s)
           \/ Reboot
  BY <1>3 DEF HookFails, UpdateStatus, PauseAction, ResumeAction, RestartAction,
     series_upgrade_prepare, series_upgrade_complete, ServiceDies, Reboot
<1> QED  BY <1>1, <1>2, <1>3 DEF Next

(* Services after a hook ran: a paused unit's are left alone.              *)
LEMMA HookRan ==
  ASSUME NEW departing, RunHook(departing)
  PROVE  /\ files' = rendered /\ UNCHANGED <<masked, paused, upgrading>>
         /\ paused => up' = up /\ stale' \in {stale, up}
         /\ ~paused => stale' \in {stale, stale \intersect masked}
BY DEF RunHook, restart_on_change

-----------------------------------------------------------------------------
LEMMA MaskedStep == IInv /\ Next => Masked'
<1> SUFFICES ASSUME IInv, Next
             PROVE  Masked'
  OBVIOUS
<1>0. Masked /\ Services' = Services
  BY Changes DEF IInv
<1>1. CASE RelationsChange \/ SetOptions
  BY <1>0, <1>1 DEF RelationsChange, SetOptions, unit, Masked
<1>2. ASSUME NEW h, NEW permitted \in BOOLEAN, NEW changed \in BOOLEAN,
             Hook(h, permitted, changed), autoRestarts' \in BOOLEAN
      PROVE  Masked'
  BY <1>0, <1>2, HookEffect DEF Masked
<1>3. CASE RunDeferredHooks
  <2>1. UNCHANGED <<masked, paused, upgrading, autoRestarts>>
    BY <1>3, HookRan DEF RunDeferredHooks
  <2> QED  BY <1>0, <2>1 DEF Masked
<1>4. ASSUME UNCHANGED autoRestarts, PauseAction
      PROVE  Masked'
  BY <1>0, <1>4 DEF PauseAction, pause_unit, service_pause, Masked
<1>5. ASSUME UNCHANGED autoRestarts, ResumeAction
      PROVE  Masked'
  BY <1>0, <1>5 DEF ResumeAction, resume_unit, Masked
<1>6. ASSUME UNCHANGED autoRestarts, series_upgrade_prepare
      PROVE  Masked'
  BY <1>0, <1>6 DEF series_upgrade_prepare, pause_unit, service_pause, Masked
<1>7. ASSUME UNCHANGED autoRestarts, series_upgrade_complete
      PROVE  Masked'
  BY <1>0, <1>7 DEF series_upgrade_complete, Masked
<1>8. ASSUME UNCHANGED autoRestarts,
             \/ HookFails \/ UpdateStatus \/ RestartAction \/ Reboot
             \/ \E s \in Services : ServiceDies(s)
      PROVE  Masked'
  BY <1>0, <1>8 DEF HookFails, UpdateStatus, RestartAction, ServiceDies, Reboot, Masked
<1> QED  BY <1>0, <1>1, <1>2, <1>3, <1>4, <1>5, <1>6, <1>7, <1>8, Cases

LEMMA DownStep == IInv /\ Next => PausedStaysDown'
<1> SUFFICES ASSUME IInv, Next
             PROVE  PausedStaysDown'
  OBVIOUS
<1>k. Spared({"service_failure"})' = Spared({"service_failure"}) /\ Services' = Services
  BY Changes
<1> SUFFICES ASSUME Spared({"service_failure"}), paused'
             PROVE  up' = {}
  BY <1>k DEF PausedStaysDown
<1>0. /\ Masked /\ Failing = {{}}
      /\ paused => up = {} /\ masked = Services
  BY NoneFail DEF IInv, Masked, PausedStaysDown
<1>1. CASE RelationsChange \/ SetOptions
  BY <1>0, <1>1 DEF RelationsChange, SetOptions, unit
<1>2. ASSUME NEW departing, RunHook(departing)
      PROVE  up' = {}
  BY <1>0, <1>2, HookRan
<1>3. ASSUME NEW h, NEW permitted \in BOOLEAN, NEW changed \in BOOLEAN,
             Hook(h, permitted, changed)
      PROVE  up' = {}
  <2>1. CASE UNCHANGED <<paused, up>>
    BY <1>0, <2>1
  <2> QED  BY <1>2, <1>3, <2>1, HookEffect
<1>4. CASE RunDeferredHooks
  BY <1>2, <1>4 DEF RunDeferredHooks
<1>5. CASE PauseAction
  BY <1>0, <1>5 DEF PauseAction, pause_unit, service_pause
<1>6. CASE ResumeAction \/ series_upgrade_complete
  BY <1>6 DEF ResumeAction, resume_unit, series_upgrade_complete
<1>7. CASE series_upgrade_prepare
  BY <1>0, <1>7 DEF series_upgrade_prepare, pause_unit, service_pause
<1>8. CASE RestartAction
  <2>1. up' = Services \ masked /\ paused' = paused
    BY <1>0, <1>8 DEF RestartAction, stop_and_start
  <2> QED  BY <1>0, <2>1
<1>9. CASE HookFails \/ UpdateStatus \/ Reboot \/ \E s \in Services : ServiceDies(s)
  BY <1>0, <1>9 DEF HookFails, UpdateStatus, Reboot, ServiceDies
<1> QED  BY <1>0, <1>1, <1>3, <1>4, <1>5, <1>6, <1>7, <1>8, <1>9, Cases

LEMMA FreshStep == IInv /\ Next => RunsOnFiles'
<1> SUFFICES ASSUME IInv, Next
             PROVE  RunsOnFiles'
  OBVIOUS
<1> DEFINE H == {"hook_failure", "service_failure"}
<1>k. /\ Spared(H)' = Spared(H)
      /\ Spared(H) => Spared({"service_failure"}) /\ "hook_failure" \notin exposed
  BY Changes DEF Spared
<1> SUFFICES ASSUME Spared(H)
             PROVE  stale' = {}
  BY <1>k DEF RunsOnFiles
<1> HIDE DEF H
<1>0. /\ Failing = {{}} /\ stale = {}
      /\ paused => up = {}
      /\ upgrading => up = {}
  BY <1>k, NoneFail DEF IInv, Masked, PausedStaysDown, RunsOnFiles, H
<1>1. CASE RelationsChange \/ SetOptions
  BY <1>0, <1>1 DEF RelationsChange, SetOptions, unit
<1>2. ASSUME NEW departing, RunHook(departing)
      PROVE  stale' = {}
  BY <1>0, <1>2, HookRan
<1>3. ASSUME NEW h, NEW permitted \in BOOLEAN, NEW changed \in BOOLEAN,
             Hook(h, permitted, changed)
      PROVE  stale' = {}
  BY <1>0, <1>2, <1>3, HookEffect
<1>4. CASE RunDeferredHooks
  BY <1>2, <1>4 DEF RunDeferredHooks
<1>5. CASE PauseAction \/ ResumeAction \/ series_upgrade_prepare
  BY <1>0, <1>5 DEF PauseAction, ResumeAction, resume_unit, series_upgrade_prepare, pause_unit
<1>6. CASE series_upgrade_complete
  BY <1>0, <1>6 DEF series_upgrade_complete
<1>7. CASE RestartAction
  BY <1>0, <1>7 DEF RestartAction, stop_and_start
<1>8. CASE HookFails
  BY <1>k, <1>8 DEF HookFails
<1>9. CASE UpdateStatus \/ Reboot \/ \E s \in Services : ServiceDies(s)
  BY <1>0, <1>9 DEF UpdateStatus, Reboot, ServiceDies
<1> QED  BY <1>1, <1>3, <1>4, <1>5, <1>6, <1>7, <1>8, <1>9, Cases DEF IInv

LEMMA TrackedStep == IInv /\ Next => NothingForgotten'
<1> SUFFICES ASSUME IInv, Next
             PROVE  NothingForgotten'
  OBVIOUS
<1>k. Spared({"option_together"})' = Spared({"option_together"})
  BY Changes
<1> SUFFICES ASSUME Spared({"option_together"}), ~pending', ~upgrading'
             PROVE  files' = rendered' \/ deferred' # {}
  BY <1>k DEF NothingForgotten
<1>0. ~pending /\ ~upgrading => files = rendered \/ deferred # {}
  BY DEF IInv, NothingForgotten
<1>1. CASE RelationsChange \/ SetOptions
  BY <1>1 DEF RelationsChange, SetOptions
<1> SUFFICES ASSUME UNCHANGED rendered
             PROVE  files' = rendered' \/ deferred' # {}
  BY <1>1, Changes
<1>2. ASSUME NEW departing, RunHook(departing)
      PROVE  files' = rendered'
  BY <1>2, HookRan
<1>3. ASSUME NEW h, NEW permitted \in BOOLEAN, NEW changed \in BOOLEAN,
             Hook(h, permitted, changed), changed => ~pending \/ "option_together" \in exposed
      PROVE  files' = rendered' \/ deferred' # {}
  <2>1. CASE permitted
    BY <1>2, <1>3, <2>1, HookEffect
  <2>2. CASE ~permitted /\ ~changed
    BY <1>3, <2>2, HookEffect
  <2>3. CASE ~permitted /\ changed
    <3>1. ~pending /\ ~upgrading /\ UNCHANGED <<files, deferred>>
      BY <1>3, <2>3, HookEffect DEF Spared
    <3> QED  BY <1>0, <3>1
  <2> QED  BY <2>1, <2>2, <2>3
<1>4. CASE RunDeferredHooks
  BY <1>2, <1>4 DEF RunDeferredHooks
<1>5. CASE series_upgrade_complete
  BY <1>5 DEF series_upgrade_complete
<1>6. CASE series_upgrade_prepare
  BY <1>6 DEF series_upgrade_prepare
<1>7. CASE HookFails
  BY <1>7 DEF HookFails, write_all
<1>8. CASE \/ UpdateStatus \/ Reboot \/ \E s \in Services : ServiceDies(s)
           \/ PauseAction \/ ResumeAction \/ RestartAction
  BY <1>0, <1>8 DEF UpdateStatus, Reboot, ServiceDies, PauseAction, ResumeAction, RestartAction
<1> QED  BY <1>1, <1>3, <1>4, <1>5, <1>6, <1>7, <1>8, Cases DEF IInv

-----------------------------------------------------------------------------
(* What the contexts have returned is of the settings that there are, and  *)
(* these are ones that remote units may set.                               *)
Offers ==
  /\ charm \in Charms
  /\ offered = Evaluate(rel)
  /\ DOMAIN rel \subseteq Interfaces
  /\ \A i \in DOMAIN rel : rel[i] \in OnRelation(charm, i)

LEMMA EmptyRelation == \A S : << >> \in [{} -> S]
<1>1. DOMAIN << >> = {} /\ << >> = [x \in {} |-> << >>[x]]
  OBVIOUS
<1> QED  BY <1>1

LEMMA OffersInit == Init => Offers
<1> SUFFICES ASSUME Init PROVE Offers
  OBVIOUS
<1>1. DOMAIN rel = {}
  BY DEF Init
<1> QED  BY <1>1 DEF Init, Offers

(* The settings of a relation after those of one unit changed. *)
LEMMA SettingsKept ==
  ASSUME NEW i, NEW s \in OnRelation(charm, i), NEW u \in charm.units
  PROVE  /\ \A keys \in charm.settings[i] : With(s, u, keys) \in OnRelation(charm, i)
         /\ [v \in DOMAIN s \ {u} |-> s[v]] \in OnRelation(charm, i)
<1>1. PICK units \in SUBSET charm.units : s \in [units -> charm.settings[i]]
  BY DEF OnRelation
<1>2. ASSUME NEW keys \in charm.settings[i] PROVE With(s, u, keys) \in OnRelation(charm, i)
  <2>1. With(s, u, keys) \in [units \union {u} -> charm.settings[i]]
    BY <1>1 DEF With
  <2>2. units \union {u} \in SUBSET charm.units
    OBVIOUS
  <2> QED  BY <2>1, <2>2 DEF OnRelation
<1>3. [v \in DOMAIN s \ {u} |-> s[v]] \in OnRelation(charm, i)
  <2>1. [v \in DOMAIN s \ {u} |-> s[v]] \in [units \ {u} -> charm.settings[i]]
    BY <1>1
  <2>2. units \ {u} \in SUBSET charm.units
    OBVIOUS
  <2> QED  BY <2>1, <2>2 DEF OnRelation
<1> QED  BY <1>2, <1>3

LEMMA OffersStep == Offers /\ [Next]_vars => Offers'
<1> SUFFICES ASSUME Offers, [Next]_vars PROVE Offers'
  OBVIOUS
<1>1. CASE UNCHANGED <<charm, rel, offered>>
  BY <1>1 DEF Offers, Evaluate, Named, Files, Interfaces, OnRelation
<1>2. CASE RelationsChange
  <2>1. charm' = charm /\ offered' = Evaluate(rel')
    BY <1>2 DEF RelationsChange
  <2>2. charm' \in Charms /\ offered' = Evaluate(rel)'
    BY <2>1 DEF Offers, Evaluate, Named, Files
  <2>k. Interfaces' = Interfaces /\ \A j : OnRelation(charm, j)' = OnRelation(charm, j)
    BY <2>1 DEF Interfaces, OnRelation
  <2>3. ASSUME NEW i \in Interfaces, Relate(i) \/ Unrelate(i) PROVE Offers'
    <3>1. /\ DOMAIN rel' \subseteq DOMAIN rel \union {i}
          /\ \A j \in DOMAIN rel' : rel'[j] = << >> \/ (j \in DOMAIN rel /\ rel'[j] = rel[j])
      BY <2>3 DEF Relate, Unrelate, With
    <3>2. \A j : << >> \in OnRelation(charm, j)
      <4>1. {} \in SUBSET charm.units
        OBVIOUS
      <4> QED  BY <4>1, EmptyRelation DEF OnRelation
    <3> QED  BY <2>2, <2>k, <3>1, <3>2 DEF Offers
  <2>4. ASSUME NEW i \in Interfaces, NEW u \in charm.units,
               \/ RemoteDeparts(i, u)
               \/ \E keys \in charm.settings[i] : RemoteSets(i, u, keys)
        PROVE  Offers'
    <3>1. i \in DOMAIN rel /\ rel[i] \in OnRelation(charm, i)
      BY <2>4 DEF RemoteDeparts, RemoteSets, Offers
    <3>2. /\ DOMAIN rel' = DOMAIN rel
          /\ \A j \in DOMAIN rel \ {i} : rel'[j] = rel[j]
          /\ \/ rel'[i] = [v \in DOMAIN rel[i] \ {u} |-> rel[i][v]]
             \/ \E keys \in charm.settings[i] : rel'[i] = With(rel[i], u, keys)
      BY <2>4, <3>1 DEF RemoteDeparts, RemoteSets
    <3>3. rel'[i] \in OnRelation(charm, i)
      <4>1. /\ \A keys \in charm.settings[i] : With(rel[i], u, keys) \in OnRelation(charm, i)
            /\ [v \in DOMAIN rel[i] \ {u} |-> rel[i][v]] \in OnRelation(charm, i)
        BY <3>1, SettingsKept
      <4> QED  BY <3>2, <4>1
    <3> QED  BY <2>2, <2>k, <3>2, <3>3 DEF Offers
  <2> QED  BY <1>2, <2>3, <2>4 DEF RelationsChange
<1>3. CASE SetOptions
  BY <1>1, <1>3 DEF SetOptions
<1>4. CASE UNCHANGED vars
  BY <1>1, <1>4 DEF vars
<1> QED  BY <1>1, <1>2, <1>3, <1>4, Changes

-----------------------------------------------------------------------------
(* The workload status is active only when every check finds nothing.      *)

LEMMA ActiveState ==
  ASSUME NEW running, NEW isPaused, NEW isUpgrading, NEW departing, NEW says \in States,
         determine_os_workload_status(running, isPaused, isUpgrading, departing, says) = "active"
  PROVE  ~isPaused /\ ~isUpgrading /\ running = Services /\ incomplete_relation_data = {}
<1> DEFINE s1 == ows_check_if_paused(running, isPaused, isUpgrading)
           s2 == IF s1 = "none" THEN ows_check_generic_interfaces(departing) ELSE s1
           s3 == IF s2 = "maintenance" THEN s2 ELSE ows_check_charm_func(s2, says)
           s4 == IF s3 = "none" THEN ows_check_services_running(running) ELSE s3
<1>1. /\ s1 \in {"none", "blocked", "maintenance"}
      /\ s1 = "none" => ~isPaused /\ ~isUpgrading
  BY DEF ows_check_if_paused, check_actually_paused
<1>2. /\ ows_check_generic_interfaces(departing) \in {"none", "blocked", "waiting"}
      /\ ows_check_generic_interfaces(departing) = "none" => incomplete_relation_data = {}
  BY DEF ows_check_generic_interfaces
<1>3. (IF s4 = "none" THEN "active" ELSE s4) = "active"
  BY DEF determine_os_workload_status
<1> HIDE DEF s1
<1>4. s2 \in {"none", "blocked", "maintenance", "waiting"}
  BY <1>1, <1>2
<1>5. s2 = "none" => s1 = "none" /\ incomplete_relation_data = {}
  BY <1>1, <1>2
<1> HIDE DEF s2
<1>6. s3 = s2 \/ s3 \in States \ {"active"}
  BY <1>4 DEF ows_check_charm_func, workload_state_compare, States
<1> HIDE DEF s3
<1>7. s4 = "none" \/ s4 = "active"
  BY <1>3
<1>8. s3 = "none" /\ ows_check_services_running(running) = "none"
  BY <1>4, <1>6, <1>7 DEF ows_check_services_running, States
<1>9. s2 = "none"
  BY <1>6, <1>8 DEF States
<1> QED  BY <1>1, <1>5, <1>8, <1>9 DEF ows_check_services_running

(* These contexts are made of the settings of their own interface. *)
LEMMA OneRelation ==
  ASSUME NEW i \in OfOneRelation, NEW r, NEW q, NEW cfg, Settings(r, i) = Settings(q, i)
  PROVE  Context(i, r, cfg) = Context(i, q, cfg)
<1>1. CASE i = "shared-db"
  BY <1>1 DEF Context
<1>2. CASE i = "pgsql-db"
  BY <1>2 DEF Context
<1>3. CASE i = "identity-service"
  BY <1>3 DEF Context
<1>4. CASE i = "identity-credentials"
  BY <1>4 DEF Context
<1>5. CASE i = "amqp"
  BY <1>5 DEF Context
<1>6. CASE i = "ceph"
  BY <1>6 DEF Context
<1>7. CASE i = "image-service"
  BY <1>7 DEF Context
<1>8. CASE i = "zeromq-configuration"
  BY <1>8 DEF Context
<1>9. CASE i = "neutron-plugin-api"
  BY <1>9 DEF Context
<1>10. CASE i = "quantum-network-service"
  BY <1>10 DEF Context
<1> QED  BY <1>1, <1>2, <1>3, <1>4, <1>5, <1>6, <1>7, <1>8, <1>9, <1>10 DEF OfOneRelation

(* What is complete and required, some remote unit has sent. *)
LEMMA Sent ==
  ASSUME Offers, NEW g \in DOMAIN charm.required, NEW i \in charm.required[g] \intersect complete_contexts
  PROVE  i \in DOMAIN rel /\ \E u \in DOMAIN rel[i] : charm.needs[i] \subseteq rel[i][u]
<1>1. i \in Interfaces /\ i \in Named /\ offered[i] # NoContext
  BY DEF complete_contexts, Named
<1>2. offered[i] = Context(i, rel, charm.cfg)
  BY <1>1 DEF Offers, Evaluate
<1>3. /\ charm \in Charms /\ i \in charm.required[g] \intersect DOMAIN charm.settings
  BY <1>1 DEF Offers, Interfaces
<1>4. /\ i \in OfOneRelation /\ Context(i, << >>, charm.cfg) = NoContext
      /\ \A s \in OnRelation(charm, i) :
           \/ Context(i, [j \in {i} |-> s], charm.cfg) = NoContext
           \/ \E u \in DOMAIN s : charm.needs[i] \subseteq s[u]
  BY <1>3, NeedsAssumption
<1>5. i \in DOMAIN rel
  <2> SUFFICES ASSUME i \notin DOMAIN rel PROVE FALSE
    OBVIOUS
  <2>1. Settings(rel, i) = Settings(<< >>, i)
    BY DEF Settings
  <2> QED  BY <1>1, <1>2, <1>4, <2>1, OneRelation
<1>6. rel[i] \in OnRelation(charm, i)
  BY <1>5 DEF Offers
<1>7. Settings(rel, i) = Settings([j \in {i} |-> rel[i]], i)
  BY <1>5 DEF Settings
<1>8. Context(i, [j \in {i} |-> rel[i]], charm.cfg) # NoContext
  BY <1>1, <1>2, <1>4, <1>7, OneRelation
<1> QED  BY <1>4, <1>5, <1>6, <1>8

LEMMA AssessedActive ==
  ASSUME Offers, NEW departing, Assess(departing), state' = "active"
  PROVE  /\ ~paused' /\ ~upgrading' /\ up' = Services
         /\ \A g \in DOMAIN charm.required : \E i \in charm.required[g] \intersect DOMAIN rel :
              \E u \in DOMAIN rel[i] : charm.needs[i] \subseteq rel[i][u]
<1>1. PICK says \in charm.says :
        determine_os_workload_status(up', paused', upgrading', departing, says) = "active"
  BY DEF Assess
<1>2. says \in States
  BY StatesAssumption DEF Offers
<1>3. ~paused' /\ ~upgrading' /\ up' = Services /\ incomplete_relation_data = {}
  BY <1>1, <1>2, ActiveState
<1>4. ASSUME NEW g \in DOMAIN charm.required
      PROVE  \E i \in charm.required[g] \intersect DOMAIN rel :
               \E u \in DOMAIN rel[i] : charm.needs[i] \subseteq rel[i][u]
  <2>1. PICK i : i \in charm.required[g] \intersect complete_contexts
    BY <1>3 DEF incomplete_relation_data
  <2> QED  BY <2>1, Sent
<1> QED  BY <1>3, <1>4

(* Every step that changes the status assesses it. *)
LEMMA Assessed == Next => state' = state \/ \E departing : Assess(departing)
<1>1. ASSUME NEW h, NEW permitted, NEW changed, Hook(h, permitted, changed)
      PROVE  \E departing : Assess(departing)
  BY <1>1 DEF Hook, RunHook
<1>2. CASE SwitchAutoRestarts \/ RelationChanged \/ ConfigChanged
  BY <1>1, <1>2 DEF SwitchAutoRestarts, RelationChanged, ConfigChanged
<1>3. CASE RelationsChange \/ SetOptions
  BY <1>3 DEF RelationsChange, SetOptions, unit
<1>4. CASE UpdateStatus \/ RunDeferredHooks \/ PauseAction \/ ResumeAction
  BY <1>4 DEF UpdateStatus, RunDeferredHooks, RunHook, PauseAction, pause_unit, ResumeAction, resume_unit
<1>5. CASE series_upgrade_prepare \/ series_upgrade_complete
  BY <1>5 DEF series_upgrade_prepare, pause_unit, series_upgrade_complete
<1>6. CASE HookFails \/ RestartAction \/ Reboot \/ \E s \in Services : ServiceDies(s)
  BY <1>6 DEF HookFails, RestartAction, Reboot, ServiceDies
<1> QED  BY <1>2, <1>3, <1>4, <1>5, <1>6 DEF Next

-----------------------------------------------------------------------------
(* A context of the settings of one remote unit. *)

(* A place among the related units, the first of them. *)
LEMMA FirstPlace ==
  ASSUME NEW places \in SUBSET DOMAIN RemoteUnits, places # {}
  PROVE  Min(places) \in places
<1>1. places \in SUBSET Nat
  BY UnitsAssumption
<1>2. PICK i \in places : \A j \in places : <<j, i>> \notin OpToRel(<, Nat)
  BY <1>1, NatLessThanWellFounded, WFMin
<1>3. ASSUME NEW j \in places PROVE ~(j < i)
  BY <1>1, <1>2, <1>3 DEF OpToRel
<1>4. \A j \in places : j \in Nat /\ ~(j < i)
  BY <1>1, <1>3
<1>5. i \in places /\ i \in Nat
  BY <1>1, <1>2
<1> QED  BY <1>4, <1>5 DEF Min

LEMMA Places ==
  ASSUME NEW s, NEW i \in Related(s)
  PROVE  /\ i \in Nat /\ RemoteUnits[i] \in DOMAIN s /\ RemoteUnits[i] # None
BY UnitsAssumption DEF Related

(* The settings of one unit, on a relation with no other. *)
Only(s, u) == [v \in {u} |-> s[v]]

LEMMA OnlyPlaces ==
  ASSUME NEW s, NEW i \in Related(s)
  PROVE  /\ i \in Related(Only(s, RemoteUnits[i]))
         /\ \A j \in Related(Only(s, RemoteUnits[i])) : RemoteUnits[j] = RemoteUnits[i]
BY DEF Related, Only

(* What the first unit says, alone, that says enough: `alone' has what the *)
(* context is for each of the units.                                       *)
FirstAlone(s, alone) ==
  LET ready == {i \in Related(s) : alone[RemoteUnits[i]] # NoContext}
  IN  IF ready = {} THEN NoContext ELSE alone[RemoteUnits[Min(ready)]]

(* The context is that of the first of the places that are `ready', which  *)
(* are those of the units that say enough.                                 *)
OfFirst(ctxt, s, alone, ready) ==
  /\ ready \in SUBSET Related(s)
  /\ \A i \in Related(s) : alone[RemoteUnits[i]] # NoContext <=> i \in ready
  /\ ready = {} => ctxt = NoContext
  /\ \A i \in ready : Min(ready) = i => ctxt = alone[RemoteUnits[i]]

LEMMA IsFirstAlone ==
  ASSUME NEW s, NEW alone, NEW ctxt, NEW ready, OfFirst(ctxt, s, alone, ready)
  PROVE  ctxt = FirstAlone(s, alone)
<1>1. ready = {i \in Related(s) : alone[RemoteUnits[i]] # NoContext}
  BY DEF OfFirst
<1>2. ready # {} => Min(ready) \in ready
  BY FirstPlace DEF OfFirst, Related
<1> QED  BY <1>1, <1>2 DEF OfFirst, FirstAlone

(* Contexts of which every unit makes a dictionary of its own. *)
LEMMA CompleteOfOne ==
  ASSUME NEW t, NEW i \in Related(t)
  PROVE  FirstComplete(Only(t, RemoteUnits[i]))
           = IF context_complete(t[RemoteUnits[i]]) THEN t[RemoteUnits[i]] ELSE NoContext
<1> DEFINE u == RemoteUnits[i]
           ready == {j \in Related(Only(t, u)) : context_complete(Only(t, u)[RemoteUnits[j]])}
<1>1. \A j \in Related(Only(t, u)) : Only(t, u)[RemoteUnits[j]] = t[u]
  <2>1. \A j \in Related(Only(t, u)) : RemoteUnits[j] = u
    BY OnlyPlaces
  <2>2. Only(t, u)[u] = t[u]
    BY DEF Only
  <2> HIDE DEF u
  <2> QED  BY <2>1, <2>2
<1>2. ready = IF context_complete(t[u]) THEN Related(Only(t, u)) ELSE {}
  BY <1>1
<1>3. i \in Related(Only(t, u))
  BY OnlyPlaces
<1>4. Min(Related(Only(t, u))) \in Related(Only(t, u))
  BY <1>3, FirstPlace DEF Related
<1> QED  BY <1>1, <1>2, <1>3, <1>4 DEF FirstComplete

LEMMA CompleteIsFirst ==
  ASSUME NEW s, NEW t, DOMAIN t = DOMAIN s, NEW alone,
         \A i \in Related(s) : /\ t[RemoteUnits[i]] # NoContext
                               /\ alone[RemoteUnits[i]] = FirstComplete(Only(t, RemoteUnits[i]))
  PROVE  FirstComplete(t) = FirstAlone(s, alone)
<1>1. Related(t) = Related(s)
  BY DEF Related
<1> DEFINE ready == {i \in Related(t) : context_complete(t[RemoteUnits[i]])}
<1>2. \A i \in Related(s) :
        alone[RemoteUnits[i]] = IF i \in ready THEN t[RemoteUnits[i]] ELSE NoContext
  BY <1>1, CompleteOfOne
<1>3. FirstComplete(t) = IF ready = {} THEN NoContext ELSE t[RemoteUnits[Min(ready)]]
  BY DEF FirstComplete
<1>4. ready \in SUBSET Related(s)
  BY <1>1
<1> HIDE DEF ready
<1>5. \A i \in Related(s) : alone[RemoteUnits[i]] # NoContext <=> i \in ready
  BY <1>2
<1>6. ready = {} => FirstComplete(t) = NoContext
  BY <1>3
<1>7. \A i \in ready : Min(ready) = i => FirstComplete(t) = alone[RemoteUnits[i]]
  BY <1>2, <1>3, <1>4
<1>q. OfFirst(FirstComplete(t), s, alone, ready)
  BY <1>4, <1>5, <1>6, <1>7 DEF OfFirst
<1> QED  BY <1>q, IsFirstAlone

(* Contexts of which all units update one dictionary: with what the last   *)
(* of them gives, and of earlier ones the keys that it does not give.      *)
LEMMA MergedLast ==
  ASSUME NEW t, NEW i \in Related(t)
  PROVE  /\ DOMAIN Merged(t, i) = UNION {DOMAIN t[RemoteUnits[j]] : j \in {j \in Related(t) : j <= i}}
         /\ \A k \in DOMAIN t[RemoteUnits[i]] :
              k \in DOMAIN Merged(t, i) /\ Merged(t, i)[k] = t[RemoteUnits[i]][k]
<1> DEFINE before == {j \in Related(t) : j <= i}
           giving(k) == {j \in before : k \in DOMAIN t[RemoteUnits[j]]}
<1>1. i \in before /\ before \subseteq Nat /\ \A j \in before : j <= i
  BY Places
<1>2. ASSUME NEW k \in DOMAIN t[RemoteUnits[i]] PROVE Max(giving(k)) = i
  <2>1. i \in giving(k) /\ \A j \in giving(k) : j \in Nat /\ j <= i
    BY <1>1
  <2> HIDE DEF giving
  <2> QED  BY <2>1 DEF Max
<1>3. Merged(t, i) = [k \in UNION {DOMAIN t[RemoteUnits[j]] : j \in before} |->
                        t[RemoteUnits[Max(giving(k))]][k]]
  BY DEF Merged
<1>4. \A k \in DOMAIN t[RemoteUnits[i]] : k \in UNION {DOMAIN t[RemoteUnits[j]] : j \in before}
  BY <1>1
<1> HIDE DEF before, giving
<1>5. \A k \in DOMAIN t[RemoteUnits[i]] :
              k \in DOMAIN Merged(t, i) /\ Merged(t, i)[k] = t[RemoteUnits[i]][k]
  BY <1>2, <1>3, <1>4
<1>6. DOMAIN Merged(t, i) = UNION {DOMAIN t[RemoteUnits[j]] : j \in before}
  BY <1>3
<1> QED  BY <1>5, <1>6 DEF before

IsDictionary(ctxt) == ctxt = [k \in DOMAIN ctxt |-> ctxt[k]]

(* If the unit at a place gives all keys the earlier ones do, or does not  *)
(* complete the dictionary, the earlier ones leave nothing in it.          *)
LEMMA MergedIsOwn ==
  ASSUME NEW t, NEW i \in Related(t), IsDictionary(t[RemoteUnits[i]]),
         \/ ~context_complete(t[RemoteUnits[i]])
         \/ \A j \in Related(t) : j <= i => DOMAIN t[RemoteUnits[j]] \subseteq DOMAIN t[RemoteUnits[i]]
  PROVE  /\ i \in MergedComplete(t) <=> context_complete(t[RemoteUnits[i]])
         /\ i \in MergedComplete(t) => Merged(t, i) = t[RemoteUnits[i]]
<1> DEFINE own == t[RemoteUnits[i]]  merged == Merged(t, i)
<1>0. /\ DOMAIN merged = UNION {DOMAIN t[RemoteUnits[j]] : j \in {j \in Related(t) : j <= i}}
      /\ \A k \in DOMAIN own : k \in DOMAIN merged /\ merged[k] = own[k]
  BY MergedLast
<1>m. merged = [k \in DOMAIN merged |-> merged[k]]
  BY DEF Merged
<1>c. i \in MergedComplete(t) <=> context_complete(merged)
  BY DEF MergedComplete
<1>h. HIDE DEF own, merged
<1>1. CASE ~context_complete(own)
  <2>1. PICK k \in DOMAIN own : own[k] = None
    BY <1>1 DEF context_complete, missing_data
  <2>2. ~context_complete(merged)
    BY <1>0, <2>1 DEF context_complete, missing_data
  <2> QED  BY <1>1, <1>c, <2>2 DEF own
<1>2. CASE \A j \in Related(t) : j <= i => DOMAIN t[RemoteUnits[j]] \subseteq DOMAIN own
  <2>1. DOMAIN merged = DOMAIN own
    BY <1>0, <1>2
  <2>2. merged = own
    BY <1>0, <1>m, <2>1 DEF IsDictionary, own
  <2> QED  BY <1>c, <2>2 DEF own, merged
<1> QED  BY <1>1, <1>2 DEF own

LEMMA MergedOfOne ==
  ASSUME NEW t, NEW i \in Related(t), IsDictionary(t[RemoteUnits[i]])
  PROVE  LET one == Only(t, RemoteUnits[i])
         IN  /\ MergedComplete(one) = {} <=> ~context_complete(t[RemoteUnits[i]])
             /\ MergedComplete(one) # {} =>
                  /\ RemoteUnits[Min(MergedComplete(one))] = RemoteUnits[i]
                  /\ Merged(one, Min(MergedComplete(one))) = t[RemoteUnits[i]]
<1> DEFINE u == RemoteUnits[i]  one == Only(t, u)
<1>1. \A j \in Related(one) : RemoteUnits[j] = u /\ one[RemoteUnits[j]] = t[u]
  <2>1. \A j \in Related(one) : RemoteUnits[j] = u
    BY OnlyPlaces
  <2>2. one[u] = t[u]
    BY DEF Only
  <2> HIDE DEF one, u
  <2> QED  BY <2>1, <2>2
<1>2. i \in Related(one) /\ MergedComplete(one) \subseteq Related(one)
  BY OnlyPlaces DEF MergedComplete
<1>h. HIDE DEF one
<1>3. \A j \in Related(one) : /\ j \in MergedComplete(one) <=> context_complete(t[u])
                              /\ j \in MergedComplete(one) => Merged(one, j) = t[u]
  <2> SUFFICES ASSUME NEW j \in Related(one)
               PROVE  /\ j \in MergedComplete(one) <=> context_complete(t[u])
                      /\ j \in MergedComplete(one) => Merged(one, j) = t[u]
    OBVIOUS
  <2>1. IsDictionary(one[RemoteUnits[j]])
    BY <1>1
  <2>2. \A l \in Related(one) : l <= j => DOMAIN one[RemoteUnits[l]] \subseteq DOMAIN one[RemoteUnits[j]]
    BY <1>1
  <2> QED  BY <1>1, <2>1, <2>2, MergedIsOwn
<1>4. MergedComplete(one) # {} => Min(MergedComplete(one)) \in MergedComplete(one)
  BY <1>2, FirstPlace DEF Related
<1> QED  BY <1>1, <1>2, <1>3, <1>4 DEF one

-----------------------------------------------------------------------------
LEMMA GetOnly ==
  ASSUME NEW s, NEW u, NEW key
  PROVE  Get(Only(s, u), u, key) = Get(s, u, key)
BY DEF Get, Only

LEMMA ImageServiceOfOne ==
  ASSUME NEW s, NEW alone,
         \A i \in Related(s) : alone[RemoteUnits[i]] = ImageServiceContext(Only(s, RemoteUnits[i]))
  PROVE  ImageServiceContext(s) = FirstAlone(s, alone)
<1> DEFINE key == "glance-api-server"
           ready == {i \in Related(s) : key \in s[RemoteUnits[i]]}
           only(u) == {j \in Related(Only(s, u)) : key \in Only(s, u)[RemoteUnits[j]]}
<1>0. \A v : /\ v = None => IfSet("glance_api_servers", v) = NoContext
             /\ v # None => IfSet("glance_api_servers", v) # NoContext
  <2>1. DOMAIN NoContext = {} /\ NoContext = [k \in {} |-> k]
    BY DEF NoContext
  <2> QED  BY <2>1 DEF IfSet
<1>1. ImageServiceContext(s)
        = IfSet("glance_api_servers", IF ready = {} THEN None ELSE RemoteUnits[Min(ready)])
  BY DEF ImageServiceContext, FirstSetting, FirstUnit
<1>2. ASSUME NEW i \in Related(s)
      PROVE  alone[RemoteUnits[i]]
               = IfSet("glance_api_servers", IF i \in ready THEN RemoteUnits[i] ELSE None)
  <2> DEFINE u == RemoteUnits[i]
  <2>0. Only(s, u)[u] = s[u] /\ \A j \in Related(Only(s, u)) : RemoteUnits[j] = u
    BY OnlyPlaces DEF Only
  <2>1. \A j \in Related(Only(s, u)) : RemoteUnits[j] = u /\ Only(s, u)[RemoteUnits[j]] = s[u]
    BY <2>0
  <2>2. only(u) = IF key \in s[u] THEN Related(Only(s, u)) ELSE {}
    BY <2>1
  <2>3. Related(Only(s, u)) # {} /\ Min(Related(Only(s, u))) \in Related(Only(s, u))
    BY OnlyPlaces, FirstPlace DEF Related
  <2>4. ImageServiceContext(Only(s, u))
          = IfSet("glance_api_servers", IF only(u) = {} THEN None ELSE RemoteUnits[Min(only(u))])
    BY DEF ImageServiceContext, FirstSetting, FirstUnit
  <2> HIDE DEF only
  <2> QED  BY <2>1, <2>2, <2>3, <2>4
<1>3. \A i \in Related(s) : RemoteUnits[i] # None
  BY Places
<1>4. ready \in SUBSET Related(s) /\ (ready # {} => Min(ready) \in ready)
  BY FirstPlace DEF Related
<1> HIDE DEF key, ready, only
<1>5. \A i \in Related(s) : alone[RemoteUnits[i]] # NoContext <=> i \in ready
  BY <1>0, <1>2, <1>3
<1>6. ready = {} => ImageServiceContext(s) = NoContext
  BY <1>0, <1>1
<1>7. \A i \in ready : Min(ready) = i => ImageServiceContext(s) = alone[RemoteUnits[i]]
  BY <1>1, <1>2, <1>4
<1>8. ready \in SUBSET Related(s)
  BY <1>4
<1>q. OfFirst(ImageServiceContext(s), s, alone, ready)
  BY <1>5, <1>6, <1>7, <1>8 DEF OfFirst
<1> QED  BY <1>q, IsFirstAlone

LEMMA PostgresqlOfOne ==
  ASSUME NEW s, NEW cfg, NEW alone,
         \A i \in Related(s) : alone[RemoteUnits[i]] = PostgresqlDBContext(Only(s, RemoteUnits[i]), cfg)
  PROVE  PostgresqlDBContext(s, cfg) = FirstAlone(s, alone)
<1> DEFINE record(q, u) == [database_host |-> Get(q, u, "host"),
                            database |-> Option(cfg, "database"),
                            database_user |-> Get(q, u, "user"),
                            database_password |-> Get(q, u, "password"),
                            database_type |-> "postgresql"]
           t == [u \in DOMAIN s |-> record(s, u)]
<1>1. PostgresqlDBContext(s, cfg) = FirstComplete(t)
  BY DEF PostgresqlDBContext
<1>2. \A u : DOMAIN record(s, u) # {} /\ record(Only(s, u), u) = record(s, u)
  BY GetOnly
<1>3. \A u : record(s, u) # NoContext
  <2>1. DOMAIN NoContext = {}
    BY DEF NoContext
  <2> QED  BY <1>2, <2>1
<1>4. ASSUME NEW i \in Related(s)
      PROVE  PostgresqlDBContext(Only(s, RemoteUnits[i]), cfg) = FirstComplete(Only(t, RemoteUnits[i]))
  <2> DEFINE u == RemoteUnits[i]
  <2>0. u \in DOMAIN s
    BY Places
  <2>1. PostgresqlDBContext(Only(s, u), cfg) = FirstComplete([v \in {u} |-> record(Only(s, u), v)])
    BY DEF PostgresqlDBContext, Only
  <2>2. [v \in {u} |-> record(Only(s, u), v)] = Only(t, u)
    BY <1>2, <2>0 DEF Only
  <2> QED  BY <2>1, <2>2
<1>5. \A i \in Related(s) : t[RemoteUnits[i]] # NoContext
  BY <1>3, Places
<1>6. DOMAIN t = DOMAIN s
  OBVIOUS
<1> HIDE DEF t
<1> QED  BY <1>1, <1>4, <1>5, <1>6, CompleteIsFirst

LEMMA NetworkServiceOfOne ==
  ASSUME NEW s, NEW alone,
         \A i \in Related(s) : alone[RemoteUnits[i]] = NetworkServiceContext(Only(s, RemoteUnits[i]))
  PROVE  NetworkServiceContext(s) = FirstAlone(s, alone)
<1> DEFINE required == {"keystone_host", "service_port", "auth_port", "service_tenant",
                        "service_username", "service_password", "quantum_host", "quantum_port",
                        "quantum_url", "region"}
           default == [service_protocol |-> "http", auth_protocol |-> "http", api_version |-> "2.0"]
           value(q, u, k) == IF k \in required THEN Get(q, u, k) ELSE Or(Get(q, u, k), default[k])
           record(q, u) == [k \in required \union DOMAIN default |-> value(q, u, k)]
           t == [u \in DOMAIN s |-> record(s, u)]
<1>1. \A q : NetworkServiceContext(q) = FirstComplete([u \in DOMAIN q |-> record(q, u)])
  BY DEF NetworkServiceContext
<1>2. \A u : DOMAIN record(s, u) # {}
  OBVIOUS
<1>3. \A u, k : value(Only(s, u), u, k) = value(s, u, k)
  BY GetOnly
<1> HIDE DEF required, default, value
<1>4. \A u : record(Only(s, u), u) = record(s, u)
  BY <1>3
<1>5. \A u : record(s, u) # NoContext
  <2>1. DOMAIN NoContext = {}
    BY DEF NoContext
  <2> QED  BY <1>2, <2>1
<1> HIDE DEF record
<1>6. ASSUME NEW i \in Related(s)
      PROVE  /\ NetworkServiceContext(Only(s, RemoteUnits[i])) = FirstComplete(Only(t, RemoteUnits[i]))
             /\ t[RemoteUnits[i]] # NoContext
  <2> DEFINE u == RemoteUnits[i]
  <2>0. u \in DOMAIN s
    BY Places
  <2>1. NetworkServiceContext(Only(s, u)) = FirstComplete([v \in {u} |-> record(Only(s, u), v)])
    BY <1>1 DEF Only
  <2>2. [v \in {u} |-> record(Only(s, u), v)] = Only(t, u)
    BY <1>4, <2>0 DEF Only
  <2> QED  BY <1>5, <2>0, <2>1, <2>2
<1>7. DOMAIN t = DOMAIN s
  OBVIOUS
<1>8. NetworkServiceContext(s) = FirstComplete(t)
  BY <1>1
<1> HIDE DEF t
<1> QED  BY <1>6, <1>7, <1>8, CompleteIsFirst

(* The units do not differ in the optional settings they send. *)
SameKind(s, needs) ==
  \A u, v \in DOMAIN s : s[u] = {} \/ s[v] = {} \/ s[u] \ needs = s[v] \ needs

LEMMA SharedDBOfOne ==
  ASSUME NEW s, NEW cfg, NEW alone, NEW needs, "access-network" \notin needs, SameKind(s, needs),
         \A i \in Related(s) : alone[RemoteUnits[i]] = SharedDBContext(Only(s, RemoteUnits[i]), cfg)
  PROVE  SharedDBContext(s, cfg) = FirstAlone(s, alone)
<1> DEFINE given(q, u) == [database_host |-> Get(q, u, "db_host"),
                           database |-> Option(cfg, "database"),
                           database_user |-> Option(cfg, "database-user"),
                           database_password |-> Get(q, u, "password"),
                           database_port |-> Get(q, u, "db_port"),
                           database_type |-> "mysql"]
           record(q, u) == Given({"database_port"}, given(q, u))
           table(q) == [u \in DOMAIN q |-> record(q, u)]
           t == table(s)
           found(q) == FirstComplete(table(q))
           defers(q) == (\E u \in DOMAIN q : "access-network" \in q[u]) /\ "announced" \notin cfg
           ready == {i \in Related(s) : ~defers(s) /\ context_complete(t[RemoteUnits[i]])}
<1>1. \A q : SharedDBContext(q, cfg)
               = IF defers(q) \/ found(q) = NoContext THEN NoContext
                 ELSE Updated(found(q), db_ssl(q, found(q).database_host, cfg))
  BY DEF SharedDBContext
<1>2. \A u : /\ "database_host" \in DOMAIN record(s, u) /\ record(s, u).database_host = Get(s, u, "db_host")
             /\ record(Only(s, u), u) = record(s, u)
             /\ db_ssl(Only(s, u), u, cfg) = db_ssl(s, u, cfg)
  BY GetOnly DEF Given, Restrict, db_ssl, Only, Get
<1> HIDE DEF record
<1>3. \A c : "database_host" \in DOMAIN c => c # NoContext /\ \A d : Updated(c, d) # NoContext
  <2>1. DOMAIN NoContext = {}
    BY DEF NoContext
  <2> QED  BY <2>1 DEF Updated
<1>4. \A u : context_complete(record(s, u)) => record(s, u).database_host = u /\ s[u] # {}
  BY <1>2 DEF context_complete, missing_data, Get
<1>5. ASSUME NEW i \in Related(s)
      PROVE  alone[RemoteUnits[i]]
               = IF defers(Only(s, RemoteUnits[i])) \/ ~context_complete(record(s, RemoteUnits[i]))
                 THEN NoContext
                 ELSE Updated(record(s, RemoteUnits[i]), db_ssl(s, RemoteUnits[i], cfg))
  <2> DEFINE u == RemoteUnits[i]
  <2>0. u \in DOMAIN s /\ i \in Related(t) /\ t[u] = record(s, u)
    BY Places DEF Related
  <2>1. table(Only(s, u)) = Only(t, u)
    BY <1>2, <2>0 DEF Only
  <2>2. found(Only(s, u)) = IF context_complete(record(s, u)) THEN record(s, u) ELSE NoContext
    BY <2>0, <2>1, CompleteOfOne
  <2>3. record(s, u) # NoContext
    BY <1>2, <1>3
  <2> HIDE DEF found, defers
  <2> QED  BY <1>1, <1>2, <1>4, <2>2, <2>3
<1>6. \A i \in Related(s) :
        context_complete(record(s, RemoteUnits[i])) => (defers(Only(s, RemoteUnits[i])) <=> defers(s))
  <2> SUFFICES ASSUME NEW i \in Related(s), context_complete(record(s, RemoteUnits[i]))
               PROVE  (\E u \in DOMAIN s : "access-network" \in s[u])
                        <=> "access-network" \in s[RemoteUnits[i]]
    BY DEF Only
  <2>1. RemoteUnits[i] \in DOMAIN s /\ s[RemoteUnits[i]] # {}
    BY <1>4, Places
  <2> QED  BY <2>1 DEF SameKind
<1>7. \A i \in Related(s) : t[RemoteUnits[i]] = record(s, RemoteUnits[i])
  BY Places
<1>8. Related(t) = Related(s)
  BY DEF Related
<1>9. ready \in SUBSET Related(s)
  OBVIOUS
<1>10. \A i \in Related(s) : alone[RemoteUnits[i]] # NoContext <=> i \in ready
  BY <1>2, <1>3, <1>5, <1>6, <1>7
<1>11. ready = {} => SharedDBContext(s, cfg) = NoContext
  BY <1>1, <1>8 DEF FirstComplete
<1>12. \A i \in ready : Min(ready) = i => SharedDBContext(s, cfg) = alone[RemoteUnits[i]]
  <2> SUFFICES ASSUME NEW i \in ready, Min(ready) = i
               PROVE  SharedDBContext(s, cfg) = alone[RemoteUnits[i]]
    OBVIOUS
  <2>1. ~defers(s) /\ ready = {j \in Related(t) : context_complete(t[RemoteUnits[j]])}
    BY <1>8
  <2>2. found(s) = record(s, RemoteUnits[i])
    BY <1>7, <2>1 DEF FirstComplete
  <2>3. context_complete(record(s, RemoteUnits[i])) /\ ~defers(Only(s, RemoteUnits[i]))
    BY <1>6, <1>7, <2>1
  <2> HIDE DEF found, defers
  <2> QED  BY <1>1, <1>2, <1>3, <1>4, <1>5, <2>1, <2>2, <2>3
<1> HIDE DEF ready
<1>q. OfFirst(SharedDBContext(s, cfg), s, alone, ready)
  BY <1>9, <1>10, <1>11, <1>12 DEF OfFirst
<1> QED  BY <1>q, IsFirstAlone

LEMMA MergedIsOwnForAll ==
  ASSUME NEW s, NEW t, DOMAIN t = DOMAIN s,
         \A i \in Related(s) :
           /\ IsDictionary(t[RemoteUnits[i]])
           /\ context_complete(t[RemoteUnits[i]]) =>
                \A j \in Related(s) : DOMAIN t[RemoteUnits[j]] \subseteq DOMAIN t[RemoteUnits[i]]
  PROVE  /\ MergedComplete(t) = {i \in Related(s) : context_complete(t[RemoteUnits[i]])}
         /\ \A i \in MergedComplete(t) : Merged(t, i) = t[RemoteUnits[i]]
<1>1. Related(t) = Related(s) /\ MergedComplete(t) \subseteq Related(t)
  BY DEF Related, MergedComplete
<1>2. ASSUME NEW i \in Related(s)
      PROVE  /\ i \in MergedComplete(t) <=> context_complete(t[RemoteUnits[i]])
             /\ i \in MergedComplete(t) => Merged(t, i) = t[RemoteUnits[i]]
  <2>1. IsDictionary(t[RemoteUnits[i]])
    OBVIOUS
  <2>2. i \in Related(t)
    BY <1>1
  <2>3. \/ ~context_complete(t[RemoteUnits[i]])
        \/ \A j \in Related(t) : j <= i => DOMAIN t[RemoteUnits[j]] \subseteq DOMAIN t[RemoteUnits[i]]
    BY <1>1
  <2> QED  BY <2>1, <2>2, <2>3, MergedIsOwn
<1> QED  BY <1>1, <1>2

LEMMA GivenKeys ==
  ASSUME NEW keys, NEW ctxt
  PROVE  /\ IsDictionary(Given(keys, ctxt))
         /\ \A k : k \in DOMAIN Given(keys, ctxt)
                    <=> k \in DOMAIN ctxt /\ (k \in keys => ctxt[k] # None)
         /\ \A k \in DOMAIN Given(keys, ctxt) : Given(keys, ctxt)[k] = ctxt[k]
BY DEF Given, Restrict, IsDictionary

CredentialsNames(given) ==
  {"service_port", "service_host", "auth_host", "auth_port", "admin_tenant_name",
   "admin_tenant_id", "admin_user", "admin_password", "service_protocol", "auth_protocol",
   "api_version"}
    \union (IF "api_version" \in given THEN {"admin_domain_name"} ELSE {})
    \union (given \intersect {"service_type"})

(* What a unit says of the credentials, by the settings it has sent. *)
LEMMA CredentialsKeys ==
  ASSUME NEW s, NEW u, u # None
  PROVE  LET c == CredentialsUpdate(s, u)
         IN  /\ IsDictionary(c)
             /\ DOMAIN c = CredentialsNames(s[u])
             /\ context_complete(c) => s[u] # {}
             /\ CredentialsUpdate(Only(s, u), u) = c
<1> DEFINE r(q, key) == Get(q, u, key)
           base(q) == [service_port |-> r(q, "credentials_port"), service_host |-> r(q, "credentials_host"),
               auth_host |-> r(q, "auth_host"), auth_port |-> r(q, "auth_port"),
               admin_tenant_name |-> r(q, "credentials_project"),
               admin_tenant_id |-> r(q, "credentials_project_id"),
               admin_user |-> r(q, "credentials_username"),
               admin_password |-> r(q, "credentials_password"),
               service_protocol |-> Or(r(q, "credentials_protocol"), "http"),
               auth_protocol |-> Or(r(q, "auth_protocol"), "http"),
               api_version |-> Or(r(q, "api_version"), "2.0"),
               service_type |-> r(q, "service_type")]
           v3(q) == [admin_domain_name |-> r(q, "domain")]
           all(q) == IF r(q, "api_version") = None THEN base(q) ELSE Updated(base(q), v3(q))
           c == CredentialsUpdate(s, u)
<1>1. \A q : CredentialsUpdate(q, u) = Given({"service_type"}, all(q))
  BY DEF CredentialsUpdate
<1>2. all(Only(s, u)) = all(s)
  BY GetOnly
<1>3. /\ DOMAIN all(s) = {"service_port", "service_host", "auth_host", "auth_port",
                          "admin_tenant_name", "admin_tenant_id", "admin_user",
                          "admin_password", "service_protocol", "auth_protocol", "api_version",
                          "service_type"}
                           \union (IF "api_version" \in s[u] THEN {"admin_domain_name"} ELSE {})
      /\ all(s).service_type = Get(s, u, "service_type")
      /\ all(s).service_port = Get(s, u, "credentials_port")
  BY DEF Updated, Get
<1>g. c = Given({"service_type"}, all(s))
  BY <1>1
<1>5. CredentialsUpdate(Only(s, u), u) = c
  BY <1>1, <1>2
<1> HIDE DEF all, c
<1>4. /\ IsDictionary(c)
      /\ \A k : k \in DOMAIN c <=> k \in DOMAIN all(s) /\ (k = "service_type" => all(s)[k] # None)
      /\ \A k \in DOMAIN c : c[k] = all(s)[k]
  BY <1>g, GivenKeys
<1>6. context_complete(c) => s[u] # {}
  BY <1>3, <1>4 DEF context_complete, missing_data, Get
<1>7. DOMAIN c = CredentialsNames(s[u])
  BY <1>3, <1>4 DEF Get, CredentialsNames
<1> QED  BY <1>4, <1>5, <1>6, <1>7 DEF c

LEMMA CredentialsOfOne ==
  ASSUME NEW s, NEW alone, NEW needs, needs \intersect Optional = {}, SameKind(s, needs),
         \A i \in Related(s) :
           alone[RemoteUnits[i]] = IdentityCredentialsContext(Only(s, RemoteUnits[i]))
  PROVE  IdentityCredentialsContext(s) = FirstAlone(s, alone)
<1> DEFINE t == [u \in DOMAIN s |-> CredentialsUpdate(s, u)]
           ready == {i \in Related(s) : context_complete(t[RemoteUnits[i]])}
<1>1. \A q : IdentityCredentialsContext(q)
               = LET m == [u \in DOMAIN q |-> CredentialsUpdate(q, u)]
                 IN  IF MergedComplete(m) = {} THEN NoContext ELSE Merged(m, Min(MergedComplete(m)))
  BY DEF IdentityCredentialsContext
<1>2. ASSUME NEW i \in Related(s)
      PROVE  /\ i \in Related(t) /\ RemoteUnits[i] \in DOMAIN s
             /\ t[RemoteUnits[i]] = CredentialsUpdate(s, RemoteUnits[i])
             /\ IsDictionary(t[RemoteUnits[i]])
             /\ t[RemoteUnits[i]] # NoContext
             /\ context_complete(t[RemoteUnits[i]]) => s[RemoteUnits[i]] # {}
  <2>1. i \in Related(t) /\ RemoteUnits[i] \in DOMAIN s /\ RemoteUnits[i] # None
    BY Places DEF Related
  <2>2. t[RemoteUnits[i]] = CredentialsUpdate(s, RemoteUnits[i])
    BY <2>1
  <2> DEFINE c == CredentialsUpdate(s, RemoteUnits[i])
  <2>3. /\ IsDictionary(c) /\ "service_port" \in DOMAIN c
        /\ context_complete(c) => s[RemoteUnits[i]] # {}
    <3>1. /\ IsDictionary(c) /\ DOMAIN c = CredentialsNames(s[RemoteUnits[i]])
          /\ context_complete(c) => s[RemoteUnits[i]] # {}
      BY <2>1, CredentialsKeys
    <3>2. "service_port" \in CredentialsNames(s[RemoteUnits[i]])
      BY DEF CredentialsNames
    <3> QED  BY <3>1, <3>2
  <2>4. DOMAIN NoContext = {}
    BY DEF NoContext
  <2> HIDE DEF t, c
  <2>5. c # NoContext
    BY <2>3, <2>4
  <2> QED  BY <2>1, <2>2, <2>3, <2>5 DEF c
<1>3. ASSUME NEW i \in Related(s), NEW j \in Related(s), context_complete(t[RemoteUnits[i]])
      PROVE  DOMAIN t[RemoteUnits[j]] \subseteq DOMAIN t[RemoteUnits[i]]
  <2> DEFINE u == RemoteUnits[i]  v == RemoteUnits[j]
  <2>1. u \in DOMAIN s /\ v \in DOMAIN s /\ u # None /\ v # None /\ s[u] # {}
    BY <1>2, <1>3, Places
  <2>2. \A k \in Optional : k \in s[v] => k \in s[u]
    BY <2>1 DEF SameKind
  <2>3. "api_version" \in Optional /\ "service_type" \in Optional
    BY DEF Optional
  <2>4. t[u] = CredentialsUpdate(s, u) /\ t[v] = CredentialsUpdate(s, v)
    BY <2>1
  <2>5. DOMAIN CredentialsUpdate(s, v) \subseteq DOMAIN CredentialsUpdate(s, u)
    <3>1. /\ DOMAIN CredentialsUpdate(s, v) = CredentialsNames(s[v])
          /\ DOMAIN CredentialsUpdate(s, u) = CredentialsNames(s[u])
      BY <2>1, CredentialsKeys
    <3>2. CredentialsNames(s[v]) \subseteq CredentialsNames(s[u])
      BY <2>2, <2>3 DEF CredentialsNames
    <3> QED  BY <3>1, <3>2
  <2> QED  BY <2>4, <2>5
<1>4. DOMAIN t = DOMAIN s
  OBVIOUS
<1>5. IdentityCredentialsContext(s)
        = IF MergedComplete(t) = {} THEN NoContext ELSE Merged(t, Min(MergedComplete(t)))
  BY <1>1
<1>6. ASSUME NEW i \in Related(s)
      PROVE  alone[RemoteUnits[i]]
               = IF context_complete(t[RemoteUnits[i]]) THEN t[RemoteUnits[i]] ELSE NoContext
  <2> DEFINE u == RemoteUnits[i]
  <2>1. u \in DOMAIN s /\ u # None
    BY Places
  <2>2. [v \in DOMAIN Only(s, u) |-> CredentialsUpdate(Only(s, u), v)] = Only(t, u)
    BY <2>1, CredentialsKeys DEF Only
  <2>3. IdentityCredentialsContext(Only(s, u))
          = IF MergedComplete(Only(t, u)) = {} THEN NoContext
            ELSE Merged(Only(t, u), Min(MergedComplete(Only(t, u))))
    BY <1>1, <2>2
  <2> HIDE DEF t
  <2> QED  BY <1>2, <2>3, MergedOfOne
<1> HIDE DEF t
<1>7. /\ MergedComplete(t) = ready
      /\ \A i \in MergedComplete(t) : Merged(t, i) = t[RemoteUnits[i]]
  BY <1>2, <1>3, <1>4, MergedIsOwnForAll
<1>8. ready \in SUBSET Related(s)
  OBVIOUS
<1>9. \A i \in Related(s) : alone[RemoteUnits[i]] # NoContext <=> i \in ready
  BY <1>2, <1>6
<1>10. ready = {} => IdentityCredentialsContext(s) = NoContext
  BY <1>5, <1>7
<1>11. \A i \in ready : Min(ready) = i => IdentityCredentialsContext(s) = alone[RemoteUnits[i]]
  BY <1>5, <1>6, <1>7
<1> HIDE DEF ready
<1>q. OfFirst(IdentityCredentialsContext(s), s, alone, ready)
  BY <1>8, <1>9, <1>10, <1>11 DEF OfFirst
<1> QED  BY <1>q, IsFirstAlone

IdentityNames(given) ==
  {"service_port", "service_host", "auth_host", "auth_port", "internal_host", "internal_port",
   "admin_tenant_name", "admin_user", "admin_password", "admin_role", "service_protocol",
   "auth_protocol", "internal_protocol", "api_version"}
    \union (IF "api_version" \in given
            THEN {"admin_domain_name", "service_project_id", "service_domain_id"} ELSE {})
    \union (given \intersect {"service_type", "public_auth_url", "internal_auth_url"})

(* What a unit says of the identity service, by the settings it has sent. *)
LEMMA IdentityKeys ==
  ASSUME NEW s, NEW u, u # None
  PROVE  LET c == IdentityUpdate(s, {}, u)
         IN  /\ IsDictionary(c)
             /\ DOMAIN c = IdentityNames(s[u])
             /\ context_complete(c) => s[u] # {}
             /\ IdentityUpdate(Only(s, u), {}, u) = c
<1> DEFINE r(q, key) == Get(q, u, key)
           base(q) == [service_port |-> r(q, "service_port"), service_host |-> r(q, "service_host"),
               auth_host |-> r(q, "auth_host"), auth_port |-> r(q, "auth_port"),
               internal_host |-> r(q, "internal_host"), internal_port |-> r(q, "internal_port"),
               admin_tenant_name |-> r(q, "service_tenant"), admin_user |-> r(q, "service_username"),
               admin_password |-> r(q, "service_password"),
               admin_role |-> Or(r(q, "admin_role"), "Admin"),
               service_protocol |-> Or(r(q, "service_protocol"), "http"),
               auth_protocol |-> Or(r(q, "auth_protocol"), "http"),
               internal_protocol |-> Or(r(q, "internal_protocol"), "http"),
               api_version |-> Or(r(q, "api_version"), "2.0"),
               service_type |-> r(q, "service_type"),
               public_auth_url |-> r(q, "public_auth_url"),
               internal_auth_url |-> r(q, "internal_auth_url")]
           v3(q) == [admin_domain_name |-> r(q, "service_domain"),
                     service_project_id |-> r(q, "service_tenant_id"),
                     service_domain_id |-> r(q, "service_domain_id")]
           all(q) == IF r(q, "api_version") = None THEN base(q) ELSE Updated(base(q), v3(q))
           optional == {"service_type", "public_auth_url", "internal_auth_url"}
           c == IdentityUpdate(s, {}, u)
           a == all(s)
<1>1. \A q : IdentityUpdate(q, {}, u) = Given(optional, all(q))
  BY DEF IdentityUpdate, Resolve
<1>2. all(Only(s, u)) = all(s)
  BY GetOnly
<1>3. /\ DOMAIN a = IdentityNames({"service_type", "public_auth_url", "internal_auth_url"}
                                    \union (s[u] \intersect {"api_version"}))
      /\ \A k \in optional : a[k] = Get(s, u, k)
      /\ a.service_port = Get(s, u, "service_port")
  BY DEF Updated, Get, IdentityNames
<1>g. c = Given(optional, a)
  BY <1>1
<1>5. IdentityUpdate(Only(s, u), {}, u) = c
  BY <1>1, <1>2
<1> HIDE DEF all, c, a
<1>4. /\ IsDictionary(c)
      /\ \A k : k \in DOMAIN c <=> k \in DOMAIN a /\ (k \in optional => a[k] # None)
      /\ \A k \in DOMAIN c : c[k] = a[k]
  BY <1>g, GivenKeys
<1>6. context_complete(c) => s[u] # {}
  <2>1. "service_port" \in DOMAIN c /\ c["service_port"] = Get(s, u, "service_port")
    BY <1>3, <1>4 DEF IdentityNames
  <2> QED  BY <2>1 DEF context_complete, missing_data, Get
<1>7. DOMAIN c = IdentityNames(s[u])
  BY <1>3, <1>4 DEF Get, IdentityNames
<1> QED  BY <1>4, <1>5, <1>6, <1>7 DEF c

LEMMA IdentityOfOne ==
  ASSUME NEW s, NEW alone, NEW needs, needs \intersect Optional = {}, SameKind(s, needs),
         \A i \in Related(s) :
           alone[RemoteUnits[i]] = IdentityServiceContext(Only(s, RemoteUnits[i]), {})
  PROVE  IdentityServiceContext(s, {}) = FirstAlone(s, alone)
<1> DEFINE table(q) == [u \in DOMAIN q |-> IdentityUpdate(q, {}, u)]
           t == table(s)
           ready == {i \in Related(s) : context_complete(t[RemoteUnits[i]])}
           extended(q, c, u) == Updated(c, [keystone_authtoken |-> keystone_authtoken(c),
                                            admin_user_id |-> Resolve(q, {}, u, "service_user_id"),
                                            admin_tenant_id |-> Resolve(q, {}, u, "service_tenant_id"),
                                            admin_domain_id |-> Resolve(q, {}, u, "service_domain_id")])
           made(q, m) == IF MergedComplete(m) = {} THEN NoContext
                         ELSE extended(q, Merged(m, Min(MergedComplete(m))),
                                       RemoteUnits[Min(MergedComplete(m))])
<1>1. \A q : IdentityServiceContext(q, {}) = made(q, table(q))
  BY DEF IdentityServiceContext
<1>e. \A c, u : /\ extended(s, c, u) # NoContext
                /\ extended(Only(s, u), c, u) = extended(s, c, u)
  <2>1. DOMAIN NoContext = {}
    BY DEF NoContext
  <2> QED  BY <2>1, GetOnly DEF Updated, Resolve
<1> HIDE DEF extended
<1>2. ASSUME NEW i \in Related(s)
      PROVE  /\ i \in Related(t) /\ RemoteUnits[i] \in DOMAIN s
             /\ t[RemoteUnits[i]] = IdentityUpdate(s, {}, RemoteUnits[i])
             /\ IsDictionary(t[RemoteUnits[i]])
             /\ context_complete(t[RemoteUnits[i]]) => s[RemoteUnits[i]] # {}
  <2>1. i \in Related(t) /\ RemoteUnits[i] \in DOMAIN s /\ RemoteUnits[i] # None
    BY Places DEF Related
  <2>2. t[RemoteUnits[i]] = IdentityUpdate(s, {}, RemoteUnits[i])
    BY <2>1
  <2> DEFINE c == IdentityUpdate(s, {}, RemoteUnits[i])
  <2>3. IsDictionary(c) /\ (context_complete(c) => s[RemoteUnits[i]] # {})
    BY <2>1, IdentityKeys
  <2> QED  BY <2>1, <2>2, <2>3 DEF c
<1>3. ASSUME NEW i \in Related(s), NEW j \in Related(s), context_complete(t[RemoteUnits[i]])
      PROVE  DOMAIN t[RemoteUnits[j]] \subseteq DOMAIN t[RemoteUnits[i]]
  <2> DEFINE u == RemoteUnits[i]  v == RemoteUnits[j]
  <2>1. u \in DOMAIN s /\ v \in DOMAIN s /\ u # None /\ v # None /\ s[u] # {}
    BY <1>2, <1>3, Places
  <2>2. \A k \in Optional : k \in s[v] => k \in s[u]
    BY <2>1 DEF SameKind
  <2>3. {"api_version", "service_type", "public_auth_url", "internal_auth_url"} \subseteq Optional
    BY DEF Optional
  <2>4. t[u] = IdentityUpdate(s, {}, u) /\ t[v] = IdentityUpdate(s, {}, v)
    BY <2>1
  <2>5. /\ DOMAIN IdentityUpdate(s, {}, v) = IdentityNames(s[v])
        /\ DOMAIN IdentityUpdate(s, {}, u) = IdentityNames(s[u])
    BY <2>1, IdentityKeys
  <2>6. IdentityNames(s[v]) \subseteq IdentityNames(s[u])
    BY <2>2, <2>3 DEF IdentityNames
  <2> QED  BY <2>4, <2>5, <2>6
<1>4. DOMAIN t = DOMAIN s
  OBVIOUS
<1>6. ASSUME NEW i \in Related(s)
      PROVE  alone[RemoteUnits[i]]
               = IF context_complete(t[RemoteUnits[i]])
                 THEN extended(s, t[RemoteUnits[i]], RemoteUnits[i]) ELSE NoContext
  <2> DEFINE u == RemoteUnits[i]
  <2>1. u \in DOMAIN s /\ u # None
    BY Places
  <2>2. table(Only(s, u)) = Only(t, u)
    BY <2>1, IdentityKeys DEF Only
  <2>3. alone[u] = made(Only(s, u), Only(t, u))
    BY <1>1, <2>2
  <2> HIDE DEF t
  <2> QED  BY <1>2, <1>e, <2>3, MergedOfOne
<1>5. IdentityServiceContext(s, {}) = made(s, t)
  BY <1>1
<1> HIDE DEF t
<1>7. /\ MergedComplete(t) = ready
      /\ \A i \in MergedComplete(t) : Merged(t, i) = t[RemoteUnits[i]]
  BY <1>2, <1>3, <1>4, MergedIsOwnForAll
<1>8. ready \in SUBSET Related(s)
  OBVIOUS
<1>9. \A i \in Related(s) : alone[RemoteUnits[i]] # NoContext <=> i \in ready
  BY <1>6, <1>e
<1>10. ready = {} => IdentityServiceContext(s, {}) = NoContext
  BY <1>5, <1>7
<1>11. \A i \in ready : Min(ready) = i => IdentityServiceContext(s, {}) = alone[RemoteUnits[i]]
  BY <1>5, <1>6, <1>7
<1> HIDE DEF ready
<1>q. OfFirst(IdentityServiceContext(s, {}), s, alone, ready)
  BY <1>8, <1>9, <1>10, <1>11 DEF OfFirst
<1> QED  BY <1>q, IsFirstAlone

-----------------------------------------------------------------------------
(* Units of one relation that are not being upgraded are of one kind.      *)
SameKinds ==
  Spared({"mixed_versions"}) => \A i \in DOMAIN rel : SameKind(rel[i], charm.needs[i])

LEMMA SameKindsInit == Init => SameKinds
BY DEF Init, SameKinds

LEMMA SameKindsStep == SameKinds /\ [Next]_vars => SameKinds'
<1> SUFFICES ASSUME SameKinds, [Next]_vars PROVE SameKinds'
  OBVIOUS
<1>1. CASE UNCHANGED <<exposed, charm, rel>>
  BY <1>1 DEF SameKinds, Spared
<1>2. CASE RelationsChange
  <2>1. UNCHANGED <<exposed, charm>>
    BY <1>2 DEF RelationsChange
  <2> SUFFICES ASSUME Spared({"mixed_versions"}), NEW i \in DOMAIN rel'
               PROVE  SameKind(rel'[i], charm.needs[i])
    BY <2>1 DEF SameKinds, Spared
  <2>2. \A j \in DOMAIN rel : SameKind(rel[j], charm.needs[j])
    BY DEF SameKinds
  <2>3. ASSUME NEW j \in Interfaces, Relate(j) \/ Unrelate(j)
        PROVE  SameKind(rel'[i], charm.needs[i])
    <3>1. rel'[i] = << >> \/ (i \in DOMAIN rel /\ rel'[i] = rel[i])
      BY <2>3 DEF Relate, Unrelate, With
    <3> QED  BY <2>2, <3>1 DEF SameKind
  <2>4. ASSUME NEW j \in Interfaces, NEW u \in charm.units, RemoteDeparts(j, u)
        PROVE  SameKind(rel'[i], charm.needs[i])
    <3>1. /\ i \in DOMAIN rel
          /\ rel'[i] = rel[i] \/ rel'[i] = [v \in DOMAIN rel[i] \ {u} |-> rel[i][v]]
      BY <2>4 DEF RemoteDeparts
    <3> QED  BY <2>2, <3>1 DEF SameKind
  <2>5. ASSUME NEW j \in Interfaces, NEW u \in charm.units, NEW keys \in charm.settings[j],
               RemoteSets(j, u, keys)
        PROVE  SameKind(rel'[i], charm.needs[i])
    <3>1. i \in DOMAIN rel /\ j \in DOMAIN rel /\ same_kind(j, u, keys)
      BY <2>5 DEF RemoteSets, Spared
    <3>2. rel'[i] = IF i = j THEN With(rel[j], u, keys) ELSE rel[i]
      BY <2>5, <3>1 DEF RemoteSets
    <3>3. SameKind(With(rel[j], u, keys), charm.needs[j])
      <4>1. SameKind(rel[j], charm.needs[j])
        BY <2>2, <3>1
      <4> QED  BY <3>1, <4>1 DEF With, same_kind, SameKind
    <3> QED  BY <2>2, <3>1, <3>2, <3>3
  <2> QED  BY <1>2, <2>3, <2>4, <2>5 DEF RelationsChange
<1>3. CASE SetOptions
  BY <1>1, <1>3 DEF SetOptions
<1>4. CASE UNCHANGED vars
  BY <1>1, <1>4 DEF vars
<1> QED  BY <1>1, <1>2, <1>3, <1>4, Changes

(* What the context of an interface is of each unit alone. *)
Alone(i, s, cfg) ==
  [u \in DOMAIN s |-> Context(i, [j \in {i} |-> [v \in {u} |-> s[v]]], cfg)]

LEMMA ContextOfOne ==
  ASSUME NEW i \in OfOneRelation \ Collecting, NEW r, i \in DOMAIN r, NEW needs, NEW cfg,
         needs \intersect Optional = {}, SameKind(r[i], needs)
  PROVE  Context(i, r, cfg) = FirstAlone(r[i], Alone(i, r[i], cfg))
<1> DEFINE s == r[i]  alone == Alone(i, s, cfg)
<1>1. Settings(r, i) = s /\ \A u : Settings([j \in {i} |-> [v \in {u} |-> s[v]]], i) = Only(s, u)
  BY DEF Settings, Only
<1>2. \A k \in Related(s) : RemoteUnits[k] \in DOMAIN s
  BY Places
<1>k. SameKind(s, needs)
  OBVIOUS
<1>3. CASE i = "shared-db"
  <2>1. \A q : Context(i, q, cfg) = SharedDBContext(Settings(q, i), cfg)
    BY <1>3 DEF Context
  <2>2. \A k \in Related(s) :
          alone[RemoteUnits[k]] = SharedDBContext(Only(s, RemoteUnits[k]), cfg)
    BY <1>1, <1>2, <2>1 DEF Alone
  <2>3. "access-network" \notin needs
    BY DEF Optional
  <2> HIDE DEF s, alone
  <2>4. Context(i, r, cfg) = FirstAlone(s, alone)
    BY <1>1, <1>k, <2>1, <2>2, <2>3, SharedDBOfOne
  <2> QED  BY <2>4 DEF s, alone
<1>4. CASE i = "pgsql-db"
  <2>1. \A q : Context(i, q, cfg) = PostgresqlDBContext(Settings(q, i), cfg)
    BY <1>4 DEF Context
  <2>2. \A k \in Related(s) :
          alone[RemoteUnits[k]] = PostgresqlDBContext(Only(s, RemoteUnits[k]), cfg)
    BY <1>1, <1>2, <2>1 DEF Alone
  <2> HIDE DEF s, alone
  <2> QED  BY <1>1, <2>1, <2>2, PostgresqlOfOne DEF s, alone
<1>5. CASE i = "identity-service"
  <2>1. \A q : Context(i, q, cfg) = IdentityServiceContext(Settings(q, i), {})
    BY <1>5 DEF Context
  <2>2. \A k \in Related(s) :
          alone[RemoteUnits[k]] = IdentityServiceContext(Only(s, RemoteUnits[k]), {})
    BY <1>1, <1>2, <2>1 DEF Alone
  <2> HIDE DEF s, alone
  <2>4. Context(i, r, cfg) = FirstAlone(s, alone)
    BY <1>1, <1>k, <2>1, <2>2, IdentityOfOne
  <2> QED  BY <2>4 DEF s, alone
<1>6. CASE i = "identity-credentials"
  <2>1. \A q : Context(i, q, cfg) = IdentityCredentialsContext(Settings(q, i))
    BY <1>6 DEF Context
  <2>2. \A k \in Related(s) :
          alone[RemoteUnits[k]] = IdentityCredentialsContext(Only(s, RemoteUnits[k]))
    BY <1>1, <1>2, <2>1 DEF Alone
  <2> HIDE DEF s, alone
  <2>4. Context(i, r, cfg) = FirstAlone(s, alone)
    BY <1>1, <1>k, <2>1, <2>2, CredentialsOfOne
  <2> QED  BY <2>4 DEF s, alone
<1>7. CASE i = "image-service"
  <2>1. \A q : Context(i, q, cfg) = ImageServiceContext(Settings(q, i))
    BY <1>7 DEF Context
  <2>2. \A k \in Related(s) :
          alone[RemoteUnits[k]] = ImageServiceContext(Only(s, RemoteUnits[k]))
    BY <1>1, <1>2, <2>1 DEF Alone
  <2> HIDE DEF s, alone
  <2> QED  BY <1>1, <2>1, <2>2, ImageServiceOfOne DEF s, alone
<1>8. CASE i = "quantum-network-service"
  <2>1. \A q : Context(i, q, cfg) = NetworkServiceContext(Settings(q, i))
    BY <1>8 DEF Context
  <2>2. \A k \in Related(s) :
          alone[RemoteUnits[k]] = NetworkServiceContext(Only(s, RemoteUnits[k]))
    BY <1>1, <1>2, <2>1 DEF Alone
  <2> HIDE DEF s, alone
  <2> QED  BY <1>1, <2>1, <2>2, NetworkServiceOfOne DEF s, alone
<1> QED  BY <1>3, <1>4, <1>5, <1>6, <1>7, <1>8 DEF OfOneRelation, Collecting

LEMMA OffersAreOfOne == Offers /\ SameKinds => OneUnit
<1> SUFFICES ASSUME Offers, SameKinds, Spared({"mixed_versions"}),
                    NEW i \in (OfOneRelation \ Collecting) \intersect Named \intersect DOMAIN rel
             PROVE  LET alone(u) == Context(i, [j \in {i} |-> [v \in {u} |-> rel[i][v]]], charm.cfg)
                        ready == {k \in Related(rel[i]) : alone(RemoteUnits[k]) # NoContext}
                    IN  offered[i] = IF ready = {} THEN NoContext ELSE alone(RemoteUnits[Min(ready)])
  BY DEF OneUnit
<1> DEFINE only(u) == Context(i, [j \in {i} |-> [v \in {u} |-> rel[i][v]]], charm.cfg)
           alone == Alone(i, rel[i], charm.cfg)
           ready == {k \in Related(rel[i]) : only(RemoteUnits[k]) # NoContext}
<1>1. offered[i] = Context(i, rel, charm.cfg)
  BY DEF Offers, Evaluate
<1>2. charm.needs[i] \intersect Optional = {}
  BY OptionalAssumption DEF Offers, Interfaces
<1>3. SameKind(rel[i], charm.needs[i])
  BY DEF SameKinds
<1>4. offered[i] = FirstAlone(rel[i], alone)
  BY <1>1, <1>2, <1>3, ContextOfOne
<1>5. \A k \in Related(rel[i]) : alone[RemoteUnits[k]] = only(RemoteUnits[k])
  BY Places DEF Alone
<1>6. ready # {} => Min(ready) \in ready
  BY FirstPlace DEF Related
<1> HIDE DEF only, alone
<1>7. ready = {k \in Related(rel[i]) : alone[RemoteUnits[k]] # NoContext}
  BY <1>5
<1>8. offered[i] = IF ready = {} THEN NoContext ELSE only(RemoteUnits[Min(ready)])
  BY <1>4, <1>5, <1>6, <1>7 DEF FirstAlone
<1> QED  BY <1>8 DEF only

-----------------------------------------------------------------------------
LEMMA InvInit == Init => IInv
BY DEF Init, IInv, Masked, PausedStaysDown, RunsOnFiles, NothingForgotten

LEMMA InvStep == IInv /\ [Next]_vars => IInv'
<1> SUFFICES ASSUME IInv, [Next]_vars
             PROVE  IInv'
  OBVIOUS
<1>1. CASE Next
  BY <1>1, MaskedStep, DownStep, FreshStep, TrackedStep DEF IInv
<1>2. CASE UNCHANGED vars
  BY <1>2 DEF vars, IInv, Masked, PausedStaysDown, RunsOnFiles, NothingForgotten, Spared,
     rendered, Files, Services
<1> QED  BY <1>1, <1>2

(* The inductive invariant holds in every reachable state. *)
THEOREM Invariance == Spec => []IInv
BY InvInit, InvStep, PTL DEF Spec

(* The services of a paused unit stay down: service_pause() masks them, and *)
(* is_unit_paused_set() keeps every hook from starting them.               *)
THEOREM PausedIsDown == Spec => []PausedStaysDown
BY Invariance, PTL DEF IInv

(* No service runs from files older than those on the disk: whatever writes *)
(* the files restarts the services, or finds them stopped.                 *)
THEOREM NoStaleService == Spec => []RunsOnFiles
BY Invariance, PTL DEF IInv

(* When every change has been told of, the files are what the relations and *)
(* options say, or a hook is on the list of deferred hooks.                *)
THEOREM EveryChangeKept == Spec => []NothingForgotten
BY Invariance, PTL DEF IInv

(* A unit becomes active only if no check of its status finds anything: it *)
(* is neither paused nor being upgraded, its services run, and whatever it *)
(* requires some remote unit has sent.                                     *)
THEOREM ActiveUnitsWork == Spec => ActiveIsTrue
<1>1. Offers /\ [Next]_vars =>
        [(state # "active" /\ state' = "active") =>
           /\ ~paused' /\ ~upgrading'
           /\ up' = Services
           /\ \A g \in DOMAIN charm.required : \E i \in charm.required[g] \cap DOMAIN rel :
                \E u \in DOMAIN rel[i] : charm.needs[i] \subseteq rel[i][u]]_vars
  BY Assessed, AssessedActive
<1> QED  BY <1>1, OffersInit, OffersStep, PTL DEF Spec, ActiveIsTrue

(* A context is what the first remote unit says that says enough, and      *)
(* nothing of what others on the relation say gets into it: an iteration   *)
(* of the loops of contrib/openstack/context.py leaves nothing behind in   *)
(* the dictionary that a later unit does not replace.                      *)
THEOREM OneUnitSpeaks == Spec => []OneUnit
BY OffersInit, OffersStep, SameKindsInit, SameKindsStep, OffersAreOfOne, PTL DEF Spec
===============================================================================
