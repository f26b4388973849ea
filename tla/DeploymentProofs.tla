--------------------------- MODULE DeploymentProofs ---------------------------
(* Theorems about what makes a deployed application serve, for any values   *)
(* of the constants of Deployment.                                          *)
EXTENDS Deployment, FiniteSetTheorems, WellFoundedInduction, TLAPS
-----------------------------------------------------------------------------
(***************************************************************************)
(* A behaviour of Deployment is one of the part that it is of.             *)
(***************************************************************************)
LEMMA Starts ==
  DeploymentInit => /\ (part = "ready" => Ready!ReadyInit)
                    /\ (part = "nagioschecks" => Nagios!NrInit)
                    /\ (part = "bs" => Bs!BsInit)
                    /\ (part = "cluster" => Cluster!HaInit)
                    /\ (part = "ssh" => Ssh!SshInit)
                    /\ (part = "net" => Net!NetInit)
                    /\ (part = "packages" => Packages!PkgInit)
                    /\ (part = "certs" => Certs!CertInit)
BY DEF DeploymentInit

LEMMA Steps ==
  [DeploymentNext]_deploymentVars => /\ part' = part
                                     /\ (part = "ready" => [Ready!ReadyNext]_Ready!readyVars)
                                     /\ (part = "nagioschecks" => [Nagios!NrNext]_Nagios!nrVars)
                                     /\ (part = "bs" => [Bs!BsNext]_Bs!bsVars)
                                     /\ (part = "cluster" => [Cluster!HaNext]_Cluster!haVars)
                                     /\ (part = "ssh" => [Ssh!SshNext]_Ssh!sshVars)
                                     /\ (part = "net" => [Net!NetNext]_Net!netVars)
                                     /\ (part = "packages" => [Packages!PkgNext]_Packages!pkgVars)
                                     /\ (part = "certs" => [Certs!CertNext]_Certs!certVars)
<1>1. CASE UNCHANGED deploymentVars
  BY <1>1 DEF deploymentVars, readyV, nagioschecksV, bsV, clusterV, sshV, netV, packagesV, certsV,
     Ready!readyVars, Nagios!nrVars, Bs!bsVars, Cluster!haVars, Ssh!sshVars,
     Net!netVars, Packages!pkgVars, Certs!certVars
<1>2. CASE DeploymentNext
  BY <1>2 DEF DeploymentNext
<1> QED  BY <1>1, <1>2
-----------------------------------------------------------------------------
(***************************************************************************)
(* Readiness: units count their peers, so the application is to be finite. *)
(***************************************************************************)
(* A unit has joined others only, of those that the application has.       *)
Joined ==
  /\ readyExposed \in {{}} \union {{h} : h \in Ready!ReadyHazards}
  /\ goal \subseteq ApiUnits
  /\ sees \in [ApiUnits -> SUBSET ApiUnits]
  /\ \A u \in ApiUnits : sees[u] \subseteq goal \ {u}
  /\ dbSees \in [ApiUnits -> SUBSET DbUnits]
  /\ allowedUnits \in [DbUnits -> SUBSET ApiUnits]
  /\ announced \in [ApiUnits -> {"", "READY", "NOTREADY"}]
  /\ "pausing" \notin readyExposed => unitPaused = {}

(* What was true of a unit when it announced that it is ready stays true,  *)
(* but for the series upgrade of its database.                             *)
Announced ==
  \A u \in ApiUnits : announced[u] = "READY" =>
    /\ u \in goal
    /\ "replaced" \notin readyExposed => Ready!is_db_ready(u)
    /\ Ready!Spared(Ready!ReadyHazards) => dbInit /\ Ready!is_expected_scale(u)

ReadyInv == FiniteApplication /\ Joined /\ Announced

LEMMA ReadyInvInit == FiniteApplication /\ Ready!ReadyInit => ReadyInv
BY DEF FiniteApplication, Ready!ReadyInit, ReadyInv, Joined, Announced

LEMMA SameCardinality == \A S : Ready!Cardinality(S) = Cardinality(S)
BY DEF Cardinality, Ready!Cardinality, IsFiniteSet, Ready!IsFiniteSet

(* A unit that sees as many peers as are expected sees all of them. *)
LEMMA AllSeen ==
  ASSUME ReadyInv, NEW u \in goal, Ready!is_expected_scale(u), "no_goal_state" \notin readyExposed
  PROVE  sees[u] = goal \ {u} /\ dbSees[u] = DbUnits
<1>1. u \in ApiUnits /\ IsFiniteSet(goal \ {u}) /\ IsFiniteSet(DbUnits)
  BY FS_Subset DEF ReadyInv, Joined, FiniteApplication
<1>2. sees[u] \in SUBSET (goal \ {u}) /\ dbSees[u] \in SUBSET DbUnits
  BY <1>1 DEF ReadyInv, Joined
<1>3. /\ Cardinality(sees[u]) >= Cardinality(goal \ {u})
      /\ Cardinality(dbSees[u]) >= Cardinality(DbUnits)
  BY SameCardinality DEF Ready!is_expected_scale, Ready!expected_peer_units
<1>4. /\ Cardinality(sees[u]) <= Cardinality(goal \ {u})
      /\ Cardinality(dbSees[u]) <= Cardinality(DbUnits)
      /\ Cardinality(sees[u]) \in Nat /\ Cardinality(goal \ {u}) \in Nat
      /\ Cardinality(dbSees[u]) \in Nat /\ Cardinality(DbUnits) \in Nat
  BY <1>1, <1>2, FS_Subset, FS_CardinalityType
<1>5. /\ Cardinality(sees[u]) = Cardinality(goal \ {u})
      /\ Cardinality(dbSees[u]) = Cardinality(DbUnits)
  BY <1>3, <1>4
<1> QED  BY <1>1, <1>2, <1>5, FS_Subset

LEMMA JoinedStep == ReadyInv /\ [Ready!ReadyNext]_Ready!readyVars => Joined'
<1> SUFFICES ASSUME ReadyInv, [Ready!ReadyNext]_Ready!readyVars PROVE Joined'
  OBVIOUS
<1> USE DEF ReadyInv, Joined, FiniteApplication
<1>1. CASE UNCHANGED Ready!readyVars
  BY <1>1 DEF Ready!readyVars
<1>2. CASE Ready!set_db_initialised
  BY <1>2 DEF Ready!set_db_initialised
<1>3. ASSUME NEW u \in ApiUnits, Ready!inform_peers_if_ready(u) PROVE Joined'
  BY <1>3 DEF Ready!inform_peers_if_ready
<1>4. ASSUME NEW u \in ApiUnits, Ready!HaJoins(u) PROVE Joined'
  BY <1>4 DEF Ready!HaJoins
<1>5. ASSUME NEW u \in ApiUnits, Ready!PauseOrResume(u) PROVE Joined'
  BY <1>5 DEF Ready!PauseOrResume
<1>6. ASSUME NEW u \in ApiUnits, Ready!AddUnit(u) PROVE Joined'
  BY <1>6 DEF Ready!AddUnit
<1>7. ASSUME NEW u \in ApiUnits, NEW v \in ApiUnits, Ready!PeersMeet(u, v) PROVE Joined'
  BY <1>7 DEF Ready!PeersMeet
<1>8. ASSUME NEW u \in ApiUnits, NEW d \in DbUnits, Ready!DatabaseJoins(u, d) PROVE Joined'
  BY <1>8 DEF Ready!DatabaseJoins
<1>9. ASSUME NEW u \in ApiUnits, NEW d \in DbUnits, Ready!Grant(u, d) PROVE Joined'
  BY <1>9 DEF Ready!Grant
<1>10. ASSUME NEW d \in DbUnits, Ready!SeriesUpgrade(d) PROVE Joined'
  BY <1>10 DEF Ready!SeriesUpgrade
<1> QED
  BY <1>1, <1>2, <1>3, <1>4, <1>5, <1>6, <1>7, <1>8, <1>9, <1>10 DEF Ready!ReadyNext

(* Nothing that a unit has got is taken from it again, without the hazards. *)
Grows ==
  /\ UNCHANGED <<readyExposed, ha>> /\ haSees \subseteq haSees' /\ goal \subseteq goal'
  /\ dbInit => dbInit'
  /\ "scale_out" \notin readyExposed => goal' = goal
  /\ \A u \in ApiUnits : sees[u] \subseteq sees'[u] /\ dbSees[u] \subseteq dbSees'[u]
  /\ "replaced" \notin readyExposed =>
       \A d \in DbUnits : allowedUnits[d] \subseteq allowedUnits'[d]

LEMMA NothingTaken ==
  ASSUME ReadyInv, Ready!ReadyNext
  PROVE  /\ Grows
         /\ (\E u \in ApiUnits : Ready!inform_peers_if_ready(u)) \/ UNCHANGED announced
<1> USE DEF ReadyInv, Joined, Grows
<1>1. CASE Ready!set_db_initialised
  BY <1>1 DEF Ready!set_db_initialised
<1>2. ASSUME NEW u \in ApiUnits, Ready!inform_peers_if_ready(u) PROVE Grows
  BY <1>2 DEF Ready!inform_peers_if_ready
<1>3. ASSUME NEW u \in ApiUnits, Ready!HaJoins(u) PROVE Grows /\ UNCHANGED announced
  BY <1>3 DEF Ready!HaJoins
<1>4. ASSUME NEW u \in ApiUnits, Ready!PauseOrResume(u) PROVE Grows /\ UNCHANGED announced
  BY <1>4 DEF Ready!PauseOrResume
<1>5. ASSUME NEW u \in ApiUnits, Ready!AddUnit(u) PROVE Grows /\ UNCHANGED announced
  BY <1>5 DEF Ready!AddUnit
<1>6. ASSUME NEW u \in ApiUnits, NEW v \in ApiUnits, Ready!PeersMeet(u, v)
      PROVE  Grows /\ UNCHANGED announced
  BY <1>6 DEF Ready!PeersMeet
<1>7. ASSUME NEW u \in ApiUnits, NEW d \in DbUnits, Ready!DatabaseJoins(u, d)
      PROVE  Grows /\ UNCHANGED announced
  BY <1>7 DEF Ready!DatabaseJoins
<1>8. ASSUME NEW u \in ApiUnits, NEW d \in DbUnits, Ready!Grant(u, d)
      PROVE  Grows /\ UNCHANGED announced
  BY <1>8 DEF Ready!Grant
<1>9. ASSUME NEW d \in DbUnits, Ready!SeriesUpgrade(d) PROVE Grows /\ UNCHANGED announced
  BY <1>9 DEF Ready!SeriesUpgrade
<1> QED
  BY <1>1, <1>2, <1>3, <1>4, <1>5, <1>6, <1>7, <1>8, <1>9 DEF Ready!ReadyNext, Ready!set_db_initialised

(* A unit that has all it expects, and whose peers do not change, keeps it. *)
LEMMA ScaleKept ==
  ASSUME ReadyInv, Joined', Grows, NEW u \in goal, Ready!Spared(Ready!ReadyHazards),
         Ready!is_expected_scale(u)
  PROVE  Ready!is_expected_scale(u)'
<1>1. readyExposed = {}
  BY DEF Ready!Spared, Ready!ReadyHazards, ReadyInv, Joined
<1>2. u \in ApiUnits /\ u \in goal' /\ UNCHANGED goal
  BY <1>1 DEF ReadyInv, Joined, Grows
<1>3. sees[u] = goal \ {u} /\ dbSees[u] = DbUnits
  BY <1>1, AllSeen
<1>4. sees'[u] = sees[u] /\ dbSees'[u] = dbSees[u]
  BY <1>2, <1>3 DEF Joined, Grows
<1> QED  BY <1>1, <1>2, <1>4 DEF Grows, Ready!is_expected_scale, Ready!expected_peer_units

LEMMA AnnouncedStep == ReadyInv /\ [Ready!ReadyNext]_Ready!readyVars /\ Joined' => Announced'
<1> SUFFICES ASSUME ReadyInv, [Ready!ReadyNext]_Ready!readyVars, Joined',
                    NEW v \in ApiUnits, announced'[v] = "READY"
             PROVE  /\ v \in goal'
                    /\ "replaced" \notin readyExposed' => Ready!is_db_ready(v)'
                    /\ Ready!Spared(Ready!ReadyHazards)' => dbInit' /\ Ready!is_expected_scale(v)'
  BY DEF Announced
<1>1. CASE UNCHANGED Ready!readyVars
  BY <1>1 DEF ReadyInv, Announced, Ready!readyVars, Ready!is_db_ready, Ready!is_expected_scale,
     Ready!expected_peer_units, Ready!Spared
<1>2. CASE Ready!ReadyNext
  <2>1. Grows
    BY <1>2, NothingTaken
  <2>2. CASE announced[v] = "READY"
    <3>1. v \in goal /\ v \in goal'
      BY <2>1, <2>2 DEF ReadyInv, Announced, Grows
    <3>2. ASSUME "replaced" \notin readyExposed' PROVE Ready!is_db_ready(v)'
      <4>1. PICK d \in dbSees[v] : v \in allowedUnits[d]
        BY <2>1, <2>2, <3>2 DEF ReadyInv, Announced, Grows, Ready!is_db_ready
      <4>2. d \in DbUnits
        BY <4>1 DEF ReadyInv, Joined
      <4> QED  BY <2>1, <3>2, <4>1, <4>2 DEF Grows, Ready!is_db_ready
    <3>3. ASSUME Ready!Spared(Ready!ReadyHazards)' PROVE dbInit' /\ Ready!is_expected_scale(v)'
      <4>1. Ready!Spared(Ready!ReadyHazards)
        BY <2>1, <3>3 DEF Grows, Ready!Spared, Ready!ReadyHazards
      <4> QED  BY <2>1, <2>2, <3>1, <4>1, ScaleKept DEF ReadyInv, Announced, Grows
    <3> QED  BY <3>1, <3>2, <3>3
  <2>3. CASE announced[v] # "READY"
    <3>1. PICK u \in ApiUnits : Ready!inform_peers_if_ready(u)
      BY <1>2, <2>3, NothingTaken
    <3>2. u = v /\ Ready!check_api_unit_ready(v) /\ v \in goal
      BY <2>3, <3>1 DEF Ready!inform_peers_if_ready, ReadyInv, Joined
    <3>3. Ready!is_db_ready(v) /\ dbInit /\ Ready!is_expected_scale(v)
      BY <3>2 DEF Ready!check_api_unit_ready, Ready!get_api_unit_status, Ready!is_db_initialised
    <3> QED
      BY <3>1, <3>2, <3>3 DEF Ready!inform_peers_if_ready, Ready!is_db_ready, Ready!is_expected_scale,
         Ready!expected_peer_units
  <2> QED  BY <2>2, <2>3
<1> QED  BY <1>1, <1>2

LEMMA ReadyInvStep == ReadyInv /\ [Ready!ReadyNext]_Ready!readyVars => ReadyInv'
BY JoinedStep, AnnouncedStep DEF ReadyInv, FiniteApplication

(* A unit that is ready, and has heard so from as many peers as there are,  *)
(* speaks for all: check_api_application_ready() is right about each unit,  *)
(* however late its peers' announcements are.                              *)
THEOREM SpeaksForAll == DeploymentSpec => []ReadyTogether
<1>1. ReadyInv => Ready!ReadyTogether
  <2> SUFFICES ASSUME ReadyInv, NEW u \in goal, Ready!check_api_application_ready(u), NEW v \in goal
               PROVE  /\ Ready!Spared(Ready!ReadyHazards) => Ready!check_api_unit_ready(v)
                      /\ "scale_out" \in readyExposed => Ready!is_db_ready(v)
    BY DEF Ready!ReadyTogether
  <2> USE DEF Ready!check_api_unit_ready, Ready!get_api_unit_status, Ready!is_db_initialised
  <2>1. /\ ~Ready!is_db_maintenance_mode(u) /\ Ready!is_db_ready(u) /\ Ready!is_expected_scale(u)
        /\ Ready!check_api_unit_ready(u)
    BY DEF Ready!check_api_application_ready
  <2>2. ASSUME "no_goal_state" \notin readyExposed, v # u PROVE announced[v] = "READY"
    <3>1. v \in sees[u]
      BY <2>1, <2>2, AllSeen
    <3>2. Ready!get_peers_unit_state(u)[v] = "READY"
      BY <3>1 DEF Ready!check_api_application_ready, Ready!are_peers_ready
    <3>3. announced[v] \in {"", "READY", "NOTREADY"}
      BY DEF ReadyInv, Joined
    <3> QED  BY <3>1, <3>2, <3>3 DEF Ready!get_peers_unit_state
  <2>3. v \in ApiUnits
    BY DEF ReadyInv, Joined
  <2>4. ASSUME Ready!Spared(Ready!ReadyHazards), v # u PROVE Ready!check_api_unit_ready(v)
    <3>1. readyExposed = {} /\ unitPaused = {}
      BY <2>4 DEF Ready!Spared, Ready!ReadyHazards, ReadyInv, Joined
    <3>2. Ready!is_db_ready(v) /\ dbInit /\ Ready!is_expected_scale(v)
      BY <2>2, <2>3, <2>4, <3>1 DEF ReadyInv, Announced
    <3>3. dbSees[u] = DbUnits
      BY <2>1, <3>1, AllSeen
    <3>4. ~Ready!is_db_maintenance_mode(v)
      BY <2>1, <2>3, <3>3 DEF Ready!is_db_maintenance_mode, ReadyInv, Joined
    <3> QED  BY <3>1, <3>2, <3>4
  <2>5. ASSUME "scale_out" \in readyExposed, v # u PROVE Ready!is_db_ready(v)
    <3>1. "no_goal_state" \notin readyExposed /\ "replaced" \notin readyExposed
      BY <2>5 DEF Ready!ReadyHazards, ReadyInv, Joined
    <3> QED  BY <2>2, <2>3, <2>5, <3>1 DEF ReadyInv, Announced
  <2> QED  BY <2>1, <2>4, <2>5
<1>2. DeploymentInit => (part = "ready" => ReadyInv)
  BY Starts, ReadyInvInit, ReadinessAssumption
<1>3. (part = "ready" => ReadyInv) /\ [DeploymentNext]_deploymentVars => (part = "ready" => ReadyInv)'
  BY Steps, ReadyInvStep
<1> QED  BY <1>1, <1>2, <1>3, PTL DEF DeploymentSpec, ReadyTogether
-----------------------------------------------------------------------------
(***************************************************************************)
(* NagiosChecks.                                                           *)
(***************************************************************************)
Undisturbed == Nagios!Spared({"forgotten", "ha_later", "shared"})
names(files) == {f[2] : f \in files}
ServerFiles == (Hostnames \union {Nagios!Elsewhere}) \X (CheckedServices \union {Nagios!HAProxy})

(* A hook has put the checks that the charm no longer has into the queue.  *)
InHook ==
  /\ exported \subseteq ServerFiles
  /\ hostname \in Hostnames /\ services \subseteq CheckedServices
  /\ nrpeHook # "" => ~nrUpdated
  /\ nrpeHook = "update-status" => "update_status" \in nrExposed
  /\ Undisturbed =>
       /\ queue = IF nrpeHook = "" THEN {} ELSE retired \ services
       /\ commands \intersect queue = {}

(* The server's files are of the same checks as the commands, and those, as *)
(* the monitors, are of services that the charm has or had.                *)
Ours ==
  Undisturbed =>
    /\ names(exported) = commands
    /\ commands \subseteq services \union retired
    /\ \A monitors \in offered : monitors \subseteq services \union retired
    /\ haLsb => Nagios!HAProxy \notin commands /\ \A monitors \in offered : Nagios!HAProxy \notin monitors

NagiosInv == InHook /\ Ours /\ Nagios!ChecksAgree

LEMMA NagiosInvInit == Nagios!NrInit => NagiosInv
BY DEF Nagios!NrInit, NagiosInv, InHook, ServerFiles, Ours, names, Nagios!ChecksAgree

(* Files of the checks written replace those of the same checks. *)
LEMMA Written ==
  ASSUME NagiosInv, NEW checks \in SUBSET CheckedServices, Nagios!Check_write(checks)
  PROVE  /\ names(exported') = names(exported) \union checks
         /\ exported' \subseteq ServerFiles
         /\ names(exported) \subseteq checks => exported' = {<<hostname, c>> : c \in checks}
         /\ commands' = commands \union checks
<1> DEFINE others == {f \in exported : f[2] \notin checks}
           new == {<<hostname, c>> : c \in checks}
<1>1. exported \subseteq ServerFiles /\ hostname \in Hostnames
  BY DEF NagiosInv, InHook
<1>2. exported' = others \union new /\ commands' = commands \union checks
  BY DEF Nagios!Check_write, Nagios!_remove_service_files
<1>3. new \subseteq ServerFiles
  BY <1>1 DEF ServerFiles
<1>4. names(new) = checks
  <2>1. ASSUME NEW c \in checks PROVE c \in names(new)
    <3>1. <<hostname, c>> \in new /\ <<hostname, c>>[2] = c
      OBVIOUS
    <3> QED  BY <3>1 DEF names
  <2>2. names(new) \subseteq checks
    BY DEF names
  <2> QED  BY <2>1, <2>2
<1>5. names(exported) \subseteq checks => others = {}
  BY DEF names
<1>6. names(others) = names(exported) \ checks
  BY DEF names
<1>7. names(exported') = names(others) \union names(new)
  BY <1>2 DEF names
<1> QED  BY <1>1, <1>2, <1>3, <1>4, <1>5, <1>6, <1>7

LEMMA NagiosInvStep == NagiosInv /\ [Nagios!NrNext]_Nagios!nrVars => NagiosInv'
<1> SUFFICES ASSUME NagiosInv, [Nagios!NrNext]_Nagios!nrVars PROVE NagiosInv'
  OBVIOUS
<1> DEFINE Checks == Nagios!add_init_service_checks
<1> USE DEF Nagios!Around, Nagios!Files
<1>1. CASE UNCHANGED Nagios!nrVars
  <2>1. UNCHANGED <<nrExposed, nagios, offered, services, retired, haLsb, hostname, nrpeHook, queue,
                    commands, daemon, exported, nrUpdated>>
    BY <1>1 DEF Nagios!nrVars
  <2>2. UNCHANGED <<Undisturbed, Checks, Nagios!Spared({"update_status"})>>
    BY <2>1 DEF Undisturbed, Nagios!Spared, Nagios!add_init_service_checks
  <2>3. InHook'
    BY <2>1, <2>2 DEF NagiosInv, InHook
  <2>4. Ours'
    BY <2>1, <2>2 DEF NagiosInv, Ours, names
  <2>5. Nagios!ChecksAgree'
    BY <2>1, <2>2 DEF NagiosInv, Nagios!ChecksAgree, Undisturbed
  <2> QED  BY <2>3, <2>4, <2>5 DEF NagiosInv
<1>2. ASSUME NEW name \in {"config-changed", "update-status"}, Nagios!remove_check(name)
      PROVE  NagiosInv'
  <2>1. exported' \subseteq exported /\ commands' \subseteq commands
    BY <1>2 DEF Nagios!remove_check, Nagios!_remove_service_files
  <2>2. ASSUME Undisturbed
        PROVE  /\ commands' = commands \ (retired \ services) /\ queue' = retired \ services
               /\ exported' = Nagios!_remove_service_files(exported, retired \ services)
    BY <1>2, <2>2 DEF Nagios!remove_check, Undisturbed, Nagios!Spared
  <2>3. Undisturbed => names(exported') = commands'
    BY <2>2 DEF NagiosInv, Ours, names, Nagios!_remove_service_files
  <2>4. /\ UNCHANGED <<nrExposed, offered, nrUpdated, services, retired, haLsb, hostname>>
        /\ nrpeHook' = name /\ ~nrUpdated
        /\ name = "update-status" => "update_status" \in nrExposed
    BY <1>2 DEF Nagios!remove_check
  <2>5. InHook'
    BY <1>2, <2>1, <2>2, <2>4 DEF NagiosInv, InHook, Undisturbed, Nagios!Spared
  <2>6. Ours'
    BY <2>1, <2>3, <2>4 DEF NagiosInv, Ours, Undisturbed, Nagios!Spared
  <2> QED  BY <2>4, <2>5, <2>6 DEF NagiosInv, Nagios!ChecksAgree
<1>3. CASE Nagios!write
  <2>1. CASE ~nagios
    BY <1>3, <2>1 DEF Nagios!write, NagiosInv, InHook, Ours, Undisturbed, Nagios!Spared, names,
       Nagios!ChecksAgree
  <2>2. CASE nagios
    <3>1. /\ Nagios!Check_write(Checks) /\ Checks \subseteq CheckedServices /\ nrpeHook # ""
          /\ UNCHANGED <<nrExposed, nagios, services, retired, haLsb, hostname>>
          /\ nrpeHook' = "" /\ queue' = {}
          /\ daemon' = IF nrpeHook = "update-status" THEN daemon ELSE commands'
          /\ offered' = {(monitors \ queue) \union Checks : monitors \in offered}
          /\ Checks' = Checks
      BY <1>3, <2>2 DEF Nagios!write, Nagios!add_init_service_checks, NagiosInv, InHook
    <3>2. ASSUME Undisturbed
          PROVE  /\ commands \subseteq Checks
                 /\ \A monitors \in offered : monitors \ queue \subseteq Checks
      <4>1. Checks = IF haLsb THEN services \ {Nagios!HAProxy} ELSE services
        BY DEF Nagios!add_init_service_checks
      <4>2. queue = retired \ services /\ commands \intersect queue = {}
        BY <3>1, <3>2 DEF NagiosInv, InHook
      <4>3. commands \subseteq Checks
        BY <3>2, <4>1, <4>2 DEF NagiosInv, Ours
      <4>4. ASSUME NEW monitors \in offered PROVE monitors \ queue \subseteq Checks
        BY <3>2, <4>1, <4>2 DEF NagiosInv, Ours
      <4> QED  BY <4>3, <4>4
    <3>3. /\ names(exported') = names(exported) \union Checks
          /\ exported' \subseteq ServerFiles
          /\ names(exported) \subseteq Checks => exported' = {<<hostname, c>> : c \in Checks}
          /\ commands' = commands \union Checks
      BY <3>1, Written
    <3>4. ASSUME Undisturbed
          PROVE  /\ commands' = Checks /\ names(exported') = commands'
                 /\ exported' = {<<hostname, c>> : c \in Checks}
                 /\ \A monitors \in offered' : monitors = Checks
      BY <3>1, <3>2, <3>3, <3>4 DEF NagiosInv, Ours
    <3>5. \A monitors \in offered' : Checks \subseteq monitors \intersect commands'
      BY <3>1, <3>3
    <3>6. Checks \subseteq services /\ (haLsb => Nagios!HAProxy \notin Checks)
      BY DEF Nagios!add_init_service_checks
    <3>7. Undisturbed' = Undisturbed
      BY <3>1 DEF Undisturbed, Nagios!Spared
    <3>8. InHook'
      BY <3>1, <3>3, <3>7 DEF NagiosInv, InHook
    <3>9. Ours'
      BY <3>1, <3>4, <3>6, <3>7 DEF Ours
    <3>10. Nagios!ChecksAgree'
      <4>1. Nagios!Spared({"update_status"})' => daemon' = commands'
        BY <3>1 DEF NagiosInv, InHook, Nagios!Spared
      <4> QED  BY <3>1, <3>4, <3>5, <3>7, <4>1 DEF Nagios!ChecksAgree, Undisturbed
    <3> QED  BY <3>8, <3>9, <3>10 DEF NagiosInv
  <2> QED  BY <2>1, <2>2
<1>4. CASE Nagios!Killed
  <2>1. /\ UNCHANGED <<nrExposed, nagios, offered, services, retired, haLsb, hostname, nrUpdated>>
        /\ nrpeHook' = "" /\ queue' = {} /\ ~nrUpdated
    BY <1>4 DEF Nagios!Killed, NagiosInv, InHook
  <2>2. CASE UNCHANGED <<commands, exported>>
    BY <2>1, <2>2 DEF NagiosInv, InHook, Ours, Undisturbed, Nagios!Spared, names, Nagios!ChecksAgree
  <2>3. CASE Nagios!Check_write(Checks)
    <3>1. Checks \subseteq CheckedServices /\ Checks \subseteq services /\ (haLsb => Nagios!HAProxy \notin Checks)
      BY DEF Nagios!add_init_service_checks, NagiosInv, InHook
    <3>2. /\ names(exported') = names(exported) \union Checks
          /\ exported' \subseteq ServerFiles
          /\ commands' = commands \union Checks
      BY <2>3, <3>1, Written
    <3>3. InHook'
      BY <2>1, <3>2 DEF NagiosInv, InHook, Undisturbed, Nagios!Spared
    <3>4. Ours'
      BY <2>1, <3>1, <3>2 DEF NagiosInv, Ours, Undisturbed, Nagios!Spared
    <3> QED  BY <2>1, <3>3, <3>4 DEF NagiosInv, Nagios!ChecksAgree
  <2> QED  BY <1>4, <2>2, <2>3 DEF Nagios!Killed
<1>5. ASSUME Nagios!NrpeInstalled \/ Nagios!MonitorsRelated \/ Nagios!HaRelated
             \/ (\E set \in SUBSET CheckedServices : Nagios!SetServices(set))
             \/ \E h \in Hostnames : Nagios!SetHostname(h)
      PROVE  NagiosInv'
  <2> DEFINE Moved ==
        /\ UNCHANGED <<nrExposed, nrpeHook, queue, commands, exported>> /\ nrpeHook = "" /\ ~nrUpdated'
        /\ services \union retired \subseteq services' \union retired'
        /\ hostname' \in Hostnames /\ services' \subseteq CheckedServices
        /\ \A monitors \in offered' : monitors \in offered \/ monitors = {}
        /\ haLsb' => haLsb \/ Nagios!HaRelated
  <2>1. Moved
    <3> USE DEF Nagios!Move, NagiosInv, InHook
    <3>1. CASE Nagios!NrpeInstalled
      BY <3>1 DEF Nagios!NrpeInstalled
    <3>2. CASE Nagios!MonitorsRelated
      BY <3>2 DEF Nagios!MonitorsRelated
    <3>3. CASE Nagios!HaRelated
      BY <3>3 DEF Nagios!HaRelated
    <3>4. ASSUME NEW set \in SUBSET CheckedServices, Nagios!SetServices(set)
          PROVE  Moved
      BY <3>4 DEF Nagios!SetServices
    <3>5. ASSUME NEW h \in Hostnames, Nagios!SetHostname(h)
          PROVE  Moved
      BY <3>5 DEF Nagios!SetHostname
    <3> QED  BY <1>5, <3>1, <3>2, <3>3, <3>4, <3>5
  <2>2. InHook'
    BY <2>1 DEF NagiosInv, InHook, Undisturbed, Nagios!Spared
  <2>3. ASSUME Undisturbed, haLsb'
        PROVE  Nagios!HAProxy \notin commands /\ \A monitors \in offered' : Nagios!HAProxy \notin monitors
    BY <2>1, <2>3 DEF NagiosInv, Ours, Nagios!HaRelated, Undisturbed, Nagios!Spared
  <2>4. Ours'
    BY <2>1, <2>3 DEF NagiosInv, Ours, Undisturbed, Nagios!Spared
  <2> QED  BY <2>1, <2>2, <2>4 DEF NagiosInv, Nagios!ChecksAgree
<1>6. CASE Nagios!OtherCharm
  <2>1. /\ "shared" \in nrExposed /\ nrpeHook = "" /\ commands \subseteq commands' /\ daemon' = commands'
        /\ UNCHANGED <<nrExposed, nagios, offered, nrpeHook, queue, nrUpdated, services, retired, haLsb, hostname>>
        /\ \A f \in exported' : f \in exported \/ f = <<Nagios!Elsewhere, Nagios!HAProxy>>
    BY <1>6 DEF Nagios!OtherCharm, Nagios!_remove_service_files
  <2>2. ~Undisturbed /\ ~Undisturbed'
    BY <2>1 DEF Undisturbed, Nagios!Spared
  <2>3. exported' \subseteq ServerFiles
    <3> DEFINE new == <<Nagios!Elsewhere, Nagios!HAProxy>>
    <3>1. new \in ServerFiles
      BY DEF ServerFiles
    <3>2. exported \subseteq ServerFiles
      BY DEF NagiosInv, InHook
    <3> HIDE DEF new
    <3>3. \A f \in exported' : f \in exported \/ f = new
      BY <2>1 DEF new
    <3> QED  BY <3>1, <3>2, <3>3
  <2>4. InHook'
    BY <2>1, <2>2, <2>3 DEF NagiosInv, InHook
  <2>5. Ours'
    BY <2>2 DEF Ours
  <2> QED
    BY <2>1, <2>2, <2>4, <2>5 DEF NagiosInv, Nagios!ChecksAgree, Nagios!add_init_service_checks, Undisturbed
<1> QED  BY <1>1, <1>2, <1>3, <1>4, <1>5, <1>6 DEF Nagios!NrNext

(* A check is exported, announced and known to the daemon, or none of it:   *)
(* write() repairs what hooks killed before have left, and the queue of    *)
(* remove_check() takes the monitors off every relation.                   *)
THEOREM SameChecks == DeploymentSpec => []ChecksAgree
<1>1. NagiosInv => Nagios!ChecksAgree
  BY DEF NagiosInv
<1>2. DeploymentInit => (part = "nagioschecks" => NagiosInv)
  BY Starts, NagiosInvInit
<1>3. (part = "nagioschecks" => NagiosInv) /\ [DeploymentNext]_deploymentVars => (part = "nagioschecks" => NagiosInv)'
  BY Steps, NagiosInvStep
<1> QED  BY <1>1, <1>2, <1>3, PTL DEF DeploymentSpec, ChecksAgree
-----------------------------------------------------------------------------
(***************************************************************************)
(* BlockStorage: the operator's volumes are devices, and other than the    *)
(* RADOS device, which ensure_ceph_storage is for.                         *)
(***************************************************************************)
Devices == Volumes \union {"root", "rbd", "sdb", "sdb1"}

Lines == [device : Devices, mountpoint : {"data", "/old"}, filesystem : {"ext3"}]
Formats == {"", "ext3", "ext4", "xfs"}

StorageOK ==
  /\ bsExposed \in {{}} \union {{h} : h \in Bs!BsHazards}
  /\ storage \in {"ceph", "volume", "disk"}
  /\ wanted \in Volumes \union {""}
  /\ mounts \in [{"data", "/mnt"} -> Devices \union {""}]
  /\ fstab \subseteq Lines
  /\ disk \in [Devices -> [format : Formats, has : SUBSET Writes]]
  /\ written \subseteq Writes
  /\ running \in BOOLEAN /\ bsDone \in BOOLEAN
  /\ bsHook \in CASE storage = "ceph" -> {"", "mkfs", "stop", "copy", "remount", "start"}
                  [] storage = "volume" ->
                       {"", "umount", "fstab_remove", "mount", "fstab_add", "start"}
                  [] storage = "disk" -> {""}
  /\ bsDone => bsHook = ""
  /\ bsHook \in {"mount", "fstab_add"} => wanted # ""

(* ensure_ceph_storage: what is written is on the device that the services *)
(* see, and, once it was copied, on the one that they will see.            *)
Moving ==
  storage = "ceph" /\ Bs!Spared({"reboot", "writing"}) =>
    /\ mounts["data"] \in {"", "rbd"}
    /\ written \subseteq disk[Bs!Visible].has
    /\ bsHook \in {"mkfs", "stop", "copy", "remount"} => mounts["data"] = ""
    /\ bsHook \in {"copy", "remount", "start"} => ~running
    /\ bsHook = "remount" => written \subseteq disk["rbd"].has

(* The services are down only in the middle of a hook. *)
Stopped ==
  /\ storage = "ceph" /\ Bs!Spared({"killed"}) =>
       (bsHook \in {"", "mkfs", "stop"} => running)
  /\ storage = "disk" => running

(* configure_volume: the one line of fstab follows the mount. *)
Line(d) ==
  IF d = "" THEN {} ELSE {[device |-> d, mountpoint |-> "data", filesystem |-> "ext3"]}

Volume ==
  storage = "volume" /\ Bs!Spared({"killed", "fstab_taken", "not_ext3"}) =>
    /\ \A d \in Volumes : disk[d].format = "ext3"
    /\ mounts["data"] \in Volumes \union {""}
    /\ bsDone => mounts["data"] = wanted
    /\ bsHook = "" => running
    /\ bsHook \in {"", "umount", "start"} => fstab = Line(mounts["data"])
    /\ bsHook = "umount" => mounts["data"] # ""
    /\ bsHook = "fstab_remove" => mounts["data"] = "" /\ \E d \in Volumes : fstab = Line(d)
    /\ bsHook = "mount" => mounts["data"] = "" /\ fstab = {}
    /\ bsHook = "fstab_add" => mounts["data"] = wanted /\ fstab = {}
    /\ bsHook = "start" => mounts["data"] = wanted

(* clean_storage: what is no longer formatted is not mounted at boot. *)
Cleaned ==
  storage = "disk" /\ Bs!Spared({"busy", "partition"}) =>
    /\ mounts["data"] \in {"", "sdb"}
    /\ \A e \in Bs!Entries("data") : e.device = "sdb"
    /\ bsDone => mounts["data"] = "" /\ disk["sdb"].format = ""

StorageInv == OtherDevices /\ StorageOK /\ Moving /\ Stopped /\ Volume /\ Cleaned

LEMMA StorageInvInit == OtherDevices /\ Bs!BsInit => StorageInv
<1> SUFFICES ASSUME OtherDevices, Bs!BsInit PROVE StorageInv
  OBVIOUS
<1> USE DEF OtherDevices, Bs!BsInit
<1>1. PICK device \in {"", "sdb"} \union (IF "partition" \in bsExposed THEN {"sdb1"} ELSE {}) :
        LET used == storage = "disk" /\ device # "" IN
        /\ mounts = [m \in {"data", "/mnt"} |-> IF m = "data" /\ used THEN device ELSE ""]
        /\ fstab = (IF used THEN {[device |-> device, mountpoint |-> "data", filesystem |-> "ext3"]}
                    ELSE {})
                     \union {[device |-> d, mountpoint |-> "/old", filesystem |-> "ext3"] :
                               d \in IF "fstab_taken" \in bsExposed THEN Volumes ELSE {}}
  OBVIOUS
<1>a. ASSUME NEW e \in fstab
      PROVE  \/ /\ storage = "disk" /\ device # ""
                /\ e = [device |-> device, mountpoint |-> "data", filesystem |-> "ext3"]
             \/ \E d \in Volumes : e = [device |-> d, mountpoint |-> "/old", filesystem |-> "ext3"]
  BY <1>1
<1>2. StorageOK
  <2>1. mounts \in [{"data", "/mnt"} -> Devices \union {""}]
    BY <1>1 DEF Devices
  <2>2. fstab \subseteq Lines
    <3>1. ASSUME NEW e \in fstab
          PROVE  e \in Lines
      <4>1. CASE e = [device |-> device, mountpoint |-> "data", filesystem |-> "ext3"] /\ device # ""
        BY <4>1 DEF Devices, Lines
      <4>2. ASSUME NEW d \in Volumes, e = [device |-> d, mountpoint |-> "/old", filesystem |-> "ext3"]
            PROVE  e \in Lines
        BY <4>2 DEF Devices, Lines
      <4> QED  BY <1>a, <4>1, <4>2
    <3> QED  BY <3>1
  <2>3. disk \in [Devices -> [format : Formats, has : SUBSET Writes]]
    BY DEF Devices, Formats
  <2>4. /\ written \subseteq Writes /\ running \in BOOLEAN /\ bsDone \in BOOLEAN
        /\ wanted \in Volumes \union {""} /\ ~bsDone
    OBVIOUS
  <2> QED  BY <2>1, <2>2, <2>3, <2>4 DEF StorageOK
<1>3. Moving /\ Stopped
  BY <1>1, <1>2 DEF Moving, Stopped, StorageOK, Devices, Bs!Visible
<1>4. Volume
  BY <1>1, <1>2 DEF Volume, Line, Bs!Spared
<1>5. Cleaned
  <2>1. SUFFICES ASSUME storage = "disk", Bs!Spared({"busy", "partition"})
                 PROVE  /\ mounts["data"] \in {"", "sdb"}
                        /\ \A e \in Bs!Entries("data") : e.device = "sdb"
    BY DEF Cleaned
  <2>2. device \in {"", "sdb"}
    BY <2>1 DEF Bs!Spared
  <2>3. mounts["data"] \in {"", "sdb"}
    BY <1>1, <2>1, <2>2
  <2>4. ASSUME NEW e \in Bs!Entries("data") PROVE e.device = "sdb"
    <3>1. e \in fstab /\ e.mountpoint = "data"
      BY <2>4 DEF Bs!Entries
    <3>2. e = [device |-> device, mountpoint |-> "data", filesystem |-> "ext3"] /\ device # ""
      <4>1. ASSUME NEW d \in Volumes, e = [device |-> d, mountpoint |-> "/old", filesystem |-> "ext3"]
            PROVE  FALSE
        BY <3>1, <4>1
      <4> QED  BY <1>a, <3>1, <4>1
    <3> QED  BY <2>2, <3>2
  <2> QED  BY <2>3, <2>4
<1> QED  BY <1>2, <1>3, <1>4, <1>5 DEF StorageInv

LEMMA LinesKept ==
  ASSUME StorageOK
  PROVE  /\ \A d \in Devices : Bs!fstab_add(d, "data") \subseteq Lines
         /\ Bs!fstab_remove("data") \subseteq fstab
         /\ \A d \in Volumes : fstab = Line(d) /\ d # "" =>
              Bs!fstab_remove("data") = {} /\ Bs!Entries("data") # {}
<1>1. ASSUME NEW d \in Devices PROVE Bs!fstab_add(d, "data") \subseteq Lines
  <2>1. [device |-> d, mountpoint |-> "data", filesystem |-> "ext3"] \in Lines
    BY DEF Lines
  <2> QED  BY <2>1 DEF Bs!fstab_add, StorageOK
<1>2. Bs!fstab_remove("data") \subseteq fstab
  BY DEF Bs!fstab_remove
<1>3. ASSUME NEW d \in Volumes, fstab = Line(d), d # ""
      PROVE  Bs!fstab_remove("data") = {} /\ Bs!Entries("data") # {}
  <2> DEFINE line == [device |-> d, mountpoint |-> "data", filesystem |-> "ext3"]
  <2>1. fstab = {line} /\ line.mountpoint = "data"
    BY <1>3 DEF Line
  <2>2. Bs!Entries("data") = {line}
    BY <2>1 DEF Bs!Entries
  <2>3. (CHOOSE e \in Bs!Entries("data") : TRUE) = line
    BY <2>2
  <2> QED  BY <2>1, <2>2, <2>3 DEF Bs!fstab_remove
<1> QED  BY <1>1, <1>2, <1>3

LEMMA StorageStep == StorageInv /\ [Bs!BsNext]_Bs!bsVars => StorageInv'
<1> SUFFICES ASSUME StorageInv, [Bs!BsNext]_Bs!bsVars PROVE StorageInv'
  OBVIOUS
<1> USE DEF StorageInv, StorageOK, Devices, Bs!Spared, Bs!Keep, Bs!Ends, Bs!mount
<1>1. CASE UNCHANGED Bs!bsVars
  <2>1. StorageOK'
    BY <1>1 DEF Bs!bsVars, OtherDevices, StorageOK
  <2>2. Moving'
    BY <1>1 DEF Bs!bsVars, OtherDevices, Moving, Bs!Visible
  <2>3. Stopped'
    BY <1>1 DEF Bs!bsVars, OtherDevices, Stopped
  <2>4. Volume'
    BY <1>1 DEF Bs!bsVars, OtherDevices, Volume, Line
  <2>5. Cleaned'
    BY <1>1 DEF Bs!bsVars, OtherDevices, Cleaned, Bs!Entries
  <2> QED  BY <2>1, <2>2, <2>3, <2>4, <2>5 DEF OtherDevices
<1>2. CASE Bs!ensure_ceph_storage
  <2>1. StorageOK'
    BY <1>2 DEF Bs!ensure_ceph_storage, Bs!filesystem_mounted, OtherDevices, StorageOK
  <2>2. Moving'
    BY <1>2 DEF Bs!ensure_ceph_storage, Bs!filesystem_mounted, OtherDevices, Moving, Bs!Visible
  <2>3. Stopped'
    BY <1>2 DEF Bs!ensure_ceph_storage, Bs!filesystem_mounted, OtherDevices, Stopped
  <2>4. Volume'
    BY <1>2 DEF Bs!ensure_ceph_storage, Bs!filesystem_mounted, OtherDevices, Volume, Line
  <2>5. Cleaned'
    BY <1>2 DEF Bs!ensure_ceph_storage, Bs!filesystem_mounted, OtherDevices, Cleaned, Bs!Entries
  <2> QED  BY <2>1, <2>2, <2>3, <2>4, <2>5 DEF OtherDevices
<1>3. CASE Bs!make_filesystem
  <2>1. StorageOK'
    <3>1. [format |-> "ext4", has |-> {}] \in [format : Formats, has : SUBSET Writes]
      BY DEF Formats
    <3>2. disk' \in [Devices -> [format : Formats, has : SUBSET Writes]]
      BY <1>3, <3>1 DEF Bs!make_filesystem
    <3> QED  BY <1>3, <3>2 DEF Bs!make_filesystem
  <2>2. Moving'
    BY <1>3 DEF Bs!make_filesystem, OtherDevices, Moving, Bs!Visible
  <2>3. Stopped'
    BY <1>3 DEF Bs!make_filesystem, OtherDevices, Stopped
  <2>4. Volume'
    BY <1>3 DEF Bs!make_filesystem, OtherDevices, Volume, Line
  <2>5. Cleaned'
    BY <1>3 DEF Bs!make_filesystem, OtherDevices, Cleaned, Bs!Entries
  <2> QED  BY <2>1, <2>2, <2>3, <2>4, <2>5 DEF OtherDevices
<1>4. CASE Bs!StopServices
  <2>1. StorageOK'
    BY <1>4 DEF Bs!StopServices, OtherDevices, StorageOK
  <2>2. Moving'
    BY <1>4 DEF Bs!StopServices, OtherDevices, Moving, Bs!Visible
  <2>3. Stopped'
    BY <1>4 DEF Bs!StopServices, OtherDevices, Stopped
  <2>4. Volume'
    BY <1>4 DEF Bs!StopServices, OtherDevices, Volume, Line
  <2>5. Cleaned'
    BY <1>4 DEF Bs!StopServices, OtherDevices, Cleaned, Bs!Entries
  <2> QED  BY <2>1, <2>2, <2>3, <2>4, <2>5 DEF OtherDevices
<1>5. CASE Bs!copy_files
  <2>1. StorageOK'
    BY <1>5 DEF Bs!copy_files, OtherDevices, StorageOK
  <2>2. Moving'
    <3> SUFFICES ASSUME storage = "ceph", Bs!Spared({"reboot", "writing"}) PROVE Moving'
      BY <1>5 DEF Bs!copy_files, Bs!Keep, Moving, Bs!Spared
    <3>1. /\ bsHook = "copy" /\ bsHook' = "remount" /\ UNCHANGED <<running, written, Bs!Visible>>
          /\ mounts'["data"] = mounts["data"]
      BY <1>5 DEF Bs!copy_files, Bs!mount, Bs!Visible
    <3>2. /\ disk' = [disk EXCEPT !["rbd"].has = @ \union disk["root"].has]
          /\ "rbd" \in Devices /\ disk \in [Devices -> [format : Formats, has : SUBSET Writes]]
      BY <1>5 DEF Bs!copy_files, Devices
    <3>3. /\ disk'["rbd"].has = disk["rbd"].has \union disk["root"].has
          /\ Bs!Visible = "root" /\ disk'["root"].has = disk["root"].has
      BY <3>1, <3>2 DEF Moving, Bs!Visible, Devices
    <3> QED  BY <3>1, <3>3 DEF Moving
  <2>3. Stopped'
    BY <1>5 DEF Bs!copy_files, OtherDevices, Stopped
  <2>4. Volume'
    BY <1>5 DEF Bs!copy_files, OtherDevices, Volume, Line
  <2>5. Cleaned'
    BY <1>5 DEF Bs!copy_files, OtherDevices, Cleaned, Bs!Entries
  <2> QED  BY <2>1, <2>2, <2>3, <2>4, <2>5 DEF OtherDevices
<1>6. CASE Bs!place_data_on_block_device
  <2>1. StorageOK'
    BY <1>6, LinesKept DEF Bs!place_data_on_block_device
  <2>2. Moving'
    BY <1>6 DEF Bs!place_data_on_block_device, Bs!fstab_add, Bs!CanAdd, OtherDevices, Moving, Bs!Visible
  <2>3. Stopped'
    BY <1>6 DEF Bs!place_data_on_block_device, Bs!fstab_add, Bs!CanAdd, OtherDevices, Stopped
  <2>4. Volume'
    BY <1>6 DEF Bs!place_data_on_block_device, Bs!fstab_add, Bs!CanAdd, OtherDevices, Volume, Line
  <2>5. Cleaned'
    BY <1>6 DEF Bs!place_data_on_block_device, Bs!fstab_add, Bs!CanAdd, OtherDevices, Cleaned, Bs!Entries
  <2> QED  BY <2>1, <2>2, <2>3, <2>4, <2>5 DEF OtherDevices
<1>7. CASE Bs!StartServices
  <2>1. StorageOK'
    BY <1>7 DEF Bs!StartServices, OtherDevices, StorageOK
  <2>2. Moving'
    BY <1>7 DEF Bs!StartServices, OtherDevices, Moving, Bs!Visible
  <2>3. Stopped'
    BY <1>7 DEF Bs!StartServices, OtherDevices, Stopped
  <2>4. Volume'
    BY <1>7 DEF Bs!StartServices, OtherDevices, Volume, Line
  <2>5. Cleaned'
    BY <1>7 DEF Bs!StartServices, OtherDevices, Cleaned, Bs!Entries
  <2> QED  BY <2>1, <2>2, <2>3, <2>4, <2>5 DEF OtherDevices
<1>8. CASE Bs!configure_volume
  <2>1. StorageOK'
    BY <1>8 DEF Bs!configure_volume, OtherDevices, StorageOK
  <2>2. Moving'
    BY <1>8 DEF Bs!configure_volume, OtherDevices, Moving, Bs!Visible
  <2>3. Stopped'
    BY <1>8 DEF Bs!configure_volume, OtherDevices, Stopped
  <2>4. Volume'
    BY <1>8 DEF Bs!configure_volume, OtherDevices, Volume, Line
  <2>5. Cleaned'
    BY <1>8 DEF Bs!configure_volume, OtherDevices, Cleaned, Bs!Entries
  <2> QED  BY <2>1, <2>2, <2>3, <2>4, <2>5 DEF OtherDevices
<1>9. CASE Bs!umount
  <2>1. StorageOK'
    BY <1>9 DEF Bs!umount, OtherDevices, StorageOK
  <2>2. Moving'
    BY <1>9 DEF Bs!umount, OtherDevices, Moving, Bs!Visible
  <2>3. Stopped'
    BY <1>9 DEF Bs!umount, OtherDevices, Stopped
  <2>4. Volume'
    BY <1>9 DEF Bs!umount, OtherDevices, Volume, Line
  <2>5. Cleaned'
    BY <1>9 DEF Bs!umount, OtherDevices, Cleaned, Bs!Entries
  <2> QED  BY <2>1, <2>2, <2>3, <2>4, <2>5 DEF OtherDevices
<1>10. CASE Bs!unmount_volume
  <2>1. StorageOK'
    BY <1>10, LinesKept DEF Bs!unmount_volume
  <2>2. Moving'
    BY <1>10 DEF Bs!unmount_volume, OtherDevices, Moving, Bs!Visible
  <2>3. Stopped'
    BY <1>10 DEF Bs!unmount_volume, OtherDevices, Stopped
  <2>4. Volume'
    BY <1>10, LinesKept DEF Bs!unmount_volume, OtherDevices, Volume, Line
  <2>5. Cleaned'
    BY <1>10 DEF Bs!unmount_volume, OtherDevices, Cleaned, Bs!Entries
  <2> QED  BY <2>1, <2>2, <2>3, <2>4, <2>5 DEF OtherDevices
<1>11. CASE Bs!MountVolume
  <2>1. StorageOK'
    BY <1>11 DEF Bs!MountVolume, OtherDevices, StorageOK
  <2>2. Moving'
    BY <1>11 DEF Bs!MountVolume, OtherDevices, Moving, Bs!Visible
  <2>3. Stopped'
    BY <1>11 DEF Bs!MountVolume, OtherDevices, Stopped
  <2>4. Volume'
    BY <1>11 DEF Bs!MountVolume, OtherDevices, Volume, Line
  <2>5. Cleaned'
    BY <1>11 DEF Bs!MountVolume, OtherDevices, Cleaned, Bs!Entries
  <2> QED  BY <2>1, <2>2, <2>3, <2>4, <2>5 DEF OtherDevices
<1>12. CASE Bs!mount_volume
  <2>1. StorageOK'
    <3>1. storage = "volume" /\ wanted \in Devices
      BY <1>12 DEF Bs!mount_volume
    <3>2. fstab' \subseteq Lines
      BY <1>12, <3>1, LinesKept DEF Bs!mount_volume
    <3> QED  BY <1>12, <3>2 DEF Bs!mount_volume
  <2>2. Moving'
    BY <1>12 DEF Bs!mount_volume, Bs!fstab_add, Bs!CanAdd, OtherDevices, Moving, Bs!Visible
  <2>3. Stopped'
    BY <1>12 DEF Bs!mount_volume, Bs!fstab_add, Bs!CanAdd, OtherDevices, Stopped
  <2>4. Volume'
    BY <1>12 DEF Bs!mount_volume, Bs!fstab_add, Bs!CanAdd, OtherDevices, Volume, Line
  <2>5. Cleaned'
    BY <1>12 DEF Bs!mount_volume, Bs!fstab_add, Bs!CanAdd, OtherDevices, Cleaned, Bs!Entries
  <2> QED  BY <2>1, <2>2, <2>3, <2>4, <2>5 DEF OtherDevices
<1>13. CASE Bs!clean_storage
  <2>1. StorageOK'
    BY <1>13, LinesKept DEF Bs!clean_storage, Bs!Zapped, Formats
  <2>2. Moving'
    BY <1>13 DEF Bs!clean_storage, Bs!fstab_remove, Bs!Zapped, OtherDevices, Moving, Bs!Visible
  <2>3. Stopped'
    BY <1>13 DEF Bs!clean_storage, Bs!fstab_remove, Bs!Zapped, OtherDevices, Stopped
  <2>4. Volume'
    BY <1>13 DEF Bs!clean_storage, Bs!fstab_remove, Bs!Zapped, OtherDevices, Volume, Line
  <2>5. Cleaned'
    BY <1>13 DEF Bs!clean_storage, Bs!fstab_remove, Bs!Zapped, OtherDevices, Cleaned, Bs!Entries
  <2> QED  BY <2>1, <2>2, <2>3, <2>4, <2>5 DEF OtherDevices
<1>14. CASE Bs!BsKilled
  <2>1. StorageOK'
    BY <1>14 DEF Bs!BsKilled, OtherDevices, StorageOK
  <2>2. Moving'
    BY <1>14 DEF Bs!BsKilled, OtherDevices, Moving, Bs!Visible
  <2>3. Stopped'
    BY <1>14 DEF Bs!BsKilled, OtherDevices, Stopped
  <2>4. Volume'
    BY <1>14 DEF Bs!BsKilled, OtherDevices, Volume, Line
  <2>5. Cleaned'
    BY <1>14 DEF Bs!BsKilled, OtherDevices, Cleaned, Bs!Entries
  <2> QED  BY <2>1, <2>2, <2>3, <2>4, <2>5 DEF OtherDevices
<1>15. CASE Bs!Reboot
  <2> DEFINE there == {e \in Bs!Entries("data") :
                         e.device # "rbd" /\ disk[e.device].format = e.filesystem}
  <2>0. /\ UNCHANGED <<bsExposed, storage, wanted, fstab, disk, written, bsHook, bsDone>>
        /\ bsHook = "" /\ running' = TRUE
        /\ storage = "ceph" => "reboot" \in bsExposed
        /\ mounts' = [mounts EXCEPT !["data"] =
                        IF there = {} THEN "" ELSE (CHOOSE e \in there : TRUE).device, !["/mnt"] = ""]
    BY <1>15 DEF Bs!Reboot
  <2>1. (mounts'["data"] = "" /\ there = {}) \/ \E e \in there : mounts'["data"] = e.device
    BY <2>0
  <2>2. StorageOK'
    <3>1. \A e \in there : e.device \in Devices
      BY DEF Bs!Entries, Lines
    <3>2. mounts'["data"] \in Devices \union {""}
      BY <2>1, <3>1
    <3>3. mounts' \in [{"data", "/mnt"} -> Devices \union {""}]
      BY <2>0, <3>2
    <3> QED  BY <2>0, <3>3
  <2>3. Moving' /\ Stopped'
    BY <2>0 DEF Moving, Stopped
  <2>4. Volume'
    <3> SUFFICES ASSUME storage = "volume", Bs!Spared({"killed", "fstab_taken", "not_ext3"})
                 PROVE  Volume'
      BY <2>0 DEF Volume
    <3>1. /\ fstab = Line(mounts["data"]) /\ \A d \in Volumes : disk[d].format = "ext3" /\ d # "rbd"
          /\ mounts["data"] \in Volumes \union {""}
      BY <2>0 DEF Volume, OtherDevices
    <3>2. mounts'["data"] = mounts["data"]
      <4>1. CASE mounts["data"] = ""
        <5>1. there = {}
          BY <3>1, <4>1 DEF Line, Bs!Entries
        <5> QED  BY <2>1, <4>1, <5>1
      <4>2. CASE mounts["data"] # ""
        <5> DEFINE line == [device |-> mounts["data"], mountpoint |-> "data", filesystem |-> "ext3"]
        <5>1. fstab = {line}
          BY <3>1, <4>2 DEF Line
        <5>2. line.mountpoint = "data" /\ line.device = mounts["data"] /\ line.filesystem = "ext3"
          OBVIOUS
        <5>3. there = {line}
          BY <3>1, <4>2, <5>1, <5>2 DEF Bs!Entries
        <5> QED  BY <2>1, <5>2, <5>3
      <4> QED  BY <4>1, <4>2
    <3> QED  BY <2>0, <3>2 DEF Volume
  <2>5. Cleaned'
    <3> SUFFICES ASSUME storage = "disk", Bs!Spared({"busy", "partition"})
                 PROVE  Cleaned'
      BY <2>0 DEF Cleaned
    <3>1. \A e \in Bs!Entries("data") : e.device = "sdb" /\ e.filesystem = "ext3"
      BY DEF Cleaned, Bs!Entries, Lines
    <3>2. bsDone => there = {}
      BY <3>1 DEF Cleaned
    <3>3. Bs!Entries("data")' = Bs!Entries("data")
      BY <2>0 DEF Bs!Entries
    <3> QED  BY <2>0, <2>1, <3>1, <3>2, <3>3 DEF Cleaned
  <2> QED  BY <2>2, <2>3, <2>4, <2>5 DEF OtherDevices
<1>16. ASSUME NEW w \in Writes, Bs!Write(w) PROVE StorageInv'
  <2>1. /\ UNCHANGED <<bsExposed, storage, wanted, mounts, fstab, running, bsHook, bsDone>>
        /\ storage = "ceph" /\ running /\ written' = written \union {w}
        /\ disk' = [disk EXCEPT ![Bs!Visible].has = @ \union {w}]
    BY <1>16 DEF Bs!Write
  <2>2. Bs!Visible \in Devices /\ Bs!Visible' = Bs!Visible
    BY <2>1 DEF Bs!Visible
  <2>3. disk' \in [Devices -> [format : Formats, has : SUBSET Writes]]
    BY <2>1, <2>2
  <2>4. disk'[Bs!Visible].has = disk[Bs!Visible].has \union {w}
    BY <2>1, <2>2
  <2>5. StorageOK'
    BY <2>1, <2>3
  <2>6. Moving'
    BY <2>1, <2>2, <2>4 DEF Moving
  <2> QED  BY <2>1, <2>5, <2>6 DEF OtherDevices, Stopped, Volume, Cleaned
<1>17. ASSUME NEW d \in Volumes \union {""}, Bs!SetVolumeMap(d) PROVE StorageInv'
  BY <1>17 DEF Bs!SetVolumeMap, Bs!Operates, Moving, Stopped, Volume, Cleaned, OtherDevices
<1> QED
  BY <1>1, <1>2, <1>3, <1>4, <1>5, <1>6, <1>7, <1>8, <1>9, <1>10, <1>11, <1>12, <1>13, <1>14, <1>15, <1>16, <1>17 DEF Bs!BsNext

(* Data is where the services look for it: it is copied before the device   *)
(* is mounted over it, while they are down; fstab is as the mounts are     *)
(* when a hook succeeds.                                                   *)
THEOREM InPlace == DeploymentSpec => []DataInPlace
<1>1. StorageInv => Bs!DataInPlace
  <2> SUFFICES ASSUME StorageInv PROVE Bs!DataInPlace
    OBVIOUS
  <2>1. storage = "ceph" /\ running /\ Bs!Spared({"reboot", "writing"}) =>
          written \subseteq disk[Bs!Visible].has
    BY DEF StorageInv, Moving
  <2>2. bsDone /\ Bs!Spared({"killed", "fstab_taken", "not_ext3"}) => running
    BY DEF StorageInv, StorageOK, Stopped, Volume, Bs!Spared
  <2>3. ASSUME bsDone, storage = "volume", Bs!Spared({"killed", "fstab_taken", "not_ext3"})
        PROVE  /\ mounts["data"] = wanted
               /\ {e.device : e \in Bs!Entries("data")} = {wanted} \ {""}
    <3>1. mounts["data"] = wanted /\ fstab = Line(wanted)
      BY <2>3 DEF StorageInv, StorageOK, Volume
    <3>2. ASSUME NEW e \in Bs!Entries("data") PROVE e.device = wanted /\ wanted # ""
      <4>1. e \in Line(wanted)
        BY <3>1, <3>2 DEF Bs!Entries
      <4>2. /\ wanted # ""
            /\ e = [device |-> wanted, mountpoint |-> "data", filesystem |-> "ext3"]
        BY <4>1 DEF Line
      <4> QED  BY <4>2
    <3>3. ASSUME wanted # ""
          PROVE  \E e \in Bs!Entries("data") : e.device = wanted
      <4> DEFINE line == [device |-> wanted, mountpoint |-> "data", filesystem |-> "ext3"]
      <4>1. line \in fstab /\ line.mountpoint = "data" /\ line.device = wanted
        BY <3>1, <3>3 DEF Line
      <4> QED  BY <4>1 DEF Bs!Entries
    <3> QED  BY <3>1, <3>2, <3>3
  <2>4. bsDone /\ storage = "disk" /\ Bs!Spared({"busy", "partition"}) =>
          mounts["data"] \notin {"sdb", "sdb1"}
    BY DEF StorageInv, Cleaned
  <2> QED  BY <2>1, <2>2, <2>3, <2>4 DEF Bs!DataInPlace
<1>2. DeploymentInit => (part = "bs" => StorageInv)
  BY Starts, StorageInvInit, StorageAssumption
<1>3. (part = "bs" => StorageInv) /\ [DeploymentNext]_deploymentVars => (part = "bs" => StorageInv)'
  BY Steps, StorageStep
<1> QED  BY <1>1, <1>2, <1>3, PTL DEF DeploymentSpec, DataInPlace
-----------------------------------------------------------------------------
(***************************************************************************)
(* HACluster: units are numbered, the option lists addresses.              *)
(***************************************************************************)
Steady == Cluster!Spared({"joining", "clustering", "moving", "lease", "host_names"})

(* All units elect by what they see of the same cluster, and who acts is   *)
(* the one they would elect still.                                         *)
Electing ==
  /\ "joining" \notin haExposed => \A u \in Units : known[u] = Units \ {u}
  /\ Steady => clustered \in {{}, Units}
  /\ Steady => \A u \in acting : u \in Units /\ Cluster!is_elected_leader(u)

(* Nobody advertises a virtual address before hacluster was asked for it,  *)
(* and the option stays as it was when it was.                             *)
Advertising ==
  /\ vips \in Seq(DOMAIN NetOf)
  /\ Cluster!Spared({"vip_option"}) =>
       /\ haData \in {{}, Cluster!update_hacluster_vip}
       /\ clustered # {} => Cluster!update_hacluster_vip \subseteq crm
       /\ \A e \in DOMAIN urls : IF clustered = {} THEN urls[e] = Cluster!Local
                                 ELSE urls[e] \in {Cluster!Local} \union crm \union Cluster!get_invalid_vips

(* Every unit with peers writes that they are there. *)
Serving ==
  "joining" \notin haExposed =>
    \A u \in DOMAIN serving :
      /\ u \in Units /\ serving[u].peers = Units \ {u}
      /\ Units \ {u} # {} => serving[u].port = Cluster!Public - 10

HaInv == Numbered /\ Electing /\ Advertising /\ Serving /\ known = [u \in Units |-> known[u]]

LEMMA HaInvInit == Numbered /\ Cluster!HaInit => HaInv
BY DEF Numbered, Cluster!HaInit, HaInv, Electing, Advertising, Serving, Steady, Cluster!Spared, Cluster!Exposed

LEMMA Least == \A S \in SUBSET Nat : S # {} => \E n \in S : \A m \in S : n <= m
<1> SUFFICES ASSUME NEW S \in SUBSET Nat, S # {} PROVE \E n \in S : \A m \in S : n <= m
  OBVIOUS
<1>1. \E n \in S : \A m \in S : <<m, n>> \notin OpToRel(<, Nat)
  BY NatLessThanWellFounded, WFMin
<1>2. \A n, m \in Nat : <<m, n>> \notin OpToRel(<, Nat) => n <= m
  BY DEF OpToRel
<1> QED  BY <1>1, <1>2

LEMMA SelfIsUnit == Numbered => Cluster!Self \in Units
<1> SUFFICES ASSUME Numbered PROVE Cluster!Self \in Units
  OBVIOUS
<1>1. \E u \in Units : \A v \in Units : u <= v
  BY Least DEF Numbered
<1> QED  BY <1>1 DEF Cluster!Self

(* An address that the unit resolves is one of the option's, if any. *)
LEMMA Resolved ==
  ASSUME HaInv, NEW e, Cluster!resolve_address(e) # "none"
  PROVE  \/ Cluster!resolve_address(e) = Cluster!Local
         \/ /\ Cluster!Self \in clustered
            /\ Cluster!resolve_address(e) \in Cluster!Range(vips)
<1>1. vips \in Seq(DOMAIN NetOf) /\ DOMAIN vips = 1..Len(vips)
  BY DEF HaInv, Advertising
<1>2. vips # << >> => Head(vips) = vips[1] /\ 1 \in DOMAIN vips
  BY <1>1
<1>3. ASSUME Cluster!InNetwork(e) # {} PROVE Cluster!Min(Cluster!InNetwork(e)) \in DOMAIN vips
  <2>1. Cluster!InNetwork(e) \in SUBSET Nat /\ Cluster!InNetwork(e) \subseteq DOMAIN vips
    BY <1>1 DEF Cluster!InNetwork
  <2>2. \E n \in Cluster!InNetwork(e) : \A m \in Cluster!InNetwork(e) : n <= m
    BY <1>3, <2>1, Least
  <2>3. Cluster!Min(Cluster!InNetwork(e)) \in Cluster!InNetwork(e)
    BY <2>2 DEF Cluster!Min
  <2> QED  BY <2>1, <2>3
<1>4. \A i \in DOMAIN vips : vips[i] \in Cluster!Range(vips)
  BY DEF Cluster!Range
<1> QED  BY <1>2, <1>3, <1>4 DEF Cluster!resolve_address, Cluster!is_clustered

LEMMA ElectingStep == HaInv /\ [Cluster!HaNext]_Cluster!haVars => Electing' /\ (known = [u \in Units |-> known[u]])'
<1> SUFFICES ASSUME HaInv, [Cluster!HaNext]_Cluster!haVars
             PROVE  Electing' /\ (known = [u \in Units |-> known[u]])'
  OBVIOUS
<1> DEFINE Same == UNCHANGED <<haExposed, newJuju, leader, known, clustered, resource>>
           Goal == Electing' /\ (known = [u \in Units |-> known[u]])'
<1> USE DEF HaInv
<1>1. ASSUME Same, acting' \subseteq acting PROVE Goal
  BY <1>1 DEF Electing, Steady, Cluster!Spared, Cluster!Exposed, Cluster!is_elected_leader,
     Cluster!is_clustered, Cluster!is_crm_leader, Cluster!oldest_peer, Cluster!peer_units
<1> HIDE DEF HaInv
<1>2. CASE UNCHANGED Cluster!haVars
  BY <1>1, <1>2 DEF Cluster!haVars
<1>3. ASSUME NEW u \in Units, NEW peer \in Units, Cluster!PeerJoins(u, peer) PROVE Goal
  <2>1. /\ "joining" \in haExposed /\ UNCHANGED haExposed
        /\ known' = [known EXCEPT ![u] = @ \union {peer}]
    BY <1>3 DEF Cluster!PeerJoins, HaInv, Electing
  <2> QED  BY <2>1 DEF HaInv, Electing, Steady, Cluster!Spared
<1>4. ASSUME NEW u \in Units, Cluster!Act(u) PROVE Goal
  <2>1. Cluster!is_elected_leader(u) /\ acting' = acting \union {u} /\ Same
    BY <1>4 DEF Cluster!Act
  <2> QED
    BY <2>1 DEF HaInv, Electing, Steady, Cluster!Spared, Cluster!Exposed, Cluster!is_elected_leader,
       Cluster!is_clustered, Cluster!is_crm_leader, Cluster!oldest_peer, Cluster!peer_units
<1>5. ASSUME NEW u \in Units, Cluster!Acted(u) PROVE Goal
  BY <1>1, <1>5 DEF Cluster!Acted
<1>6. ASSUME NEW u \in Units, Cluster!NewLeader(u) PROVE Goal
  BY <1>6 DEF Cluster!NewLeader, Cluster!Exposed, HaInv, Electing, Steady, Cluster!Spared
<1>7. ASSUME NEW place \in Units \union {0}, Cluster!NewPlace(place) PROVE Goal
  BY <1>7 DEF Cluster!NewPlace, Cluster!Exposed, HaInv, Electing, Steady, Cluster!Spared
<1>8. CASE Cluster!Configure
  BY <1>8 DEF Cluster!Configure, Cluster!ElectionUnchanged, Cluster!Exposed, HaInv, Electing, Steady,
     Cluster!Spared
<1>9. CASE \/ Cluster!generate_ha_relation_data
           \/ \E v \in VipOptions : Cluster!SetVips(v)
           \/ \E e \in DOMAIN EndpointNet : Cluster!Advertise(e)
           \/ \E u \in Units, https \in BOOLEAN : Cluster!Write(u, https)
  BY <1>1, <1>9 DEF Cluster!generate_ha_relation_data, Cluster!SetVips, Cluster!Advertise, Cluster!Write,
     Cluster!ElectionUnchanged
<1> QED  BY <1>2, <1>3, <1>4, <1>5, <1>6, <1>7, <1>8, <1>9 DEF Cluster!HaNext

LEMMA AdvertisingStep == HaInv /\ [Cluster!HaNext]_Cluster!haVars => Advertising'
<1> SUFFICES ASSUME HaInv, [Cluster!HaNext]_Cluster!haVars PROVE Advertising'
  OBVIOUS
<1> DEFINE Spared == Cluster!Spared({"vip_option"})
<1>1. ASSUME UNCHANGED <<haExposed, vips, clustered, haData, crm, urls>> PROVE Advertising'
  BY <1>1 DEF HaInv, Advertising, Cluster!Spared, Cluster!update_hacluster_vip, Cluster!get_invalid_vips,
     Cluster!is_clustered
<1>2. CASE Cluster!Configure
  <2>1. /\ haData # {} /\ crm' = haData \union crm /\ clustered' \in {clustered \union {Cluster!Self}, Units}
        /\ UNCHANGED <<haExposed, vips, haData, urls>>
    BY <1>2 DEF Cluster!Configure
  <2>2. Cluster!Self \in clustered'
    BY <2>1, SelfIsUnit DEF HaInv
  <2>3. /\ UNCHANGED <<Spared, Cluster!update_hacluster_vip>>
        /\ Cluster!get_invalid_vips \subseteq Cluster!get_invalid_vips'
    BY <2>1, <2>2 DEF Cluster!Spared, Cluster!update_hacluster_vip, Cluster!get_invalid_vips,
       Cluster!is_clustered
  <2>4. Spared => Cluster!update_hacluster_vip \subseteq crm'
    BY <2>1 DEF HaInv, Advertising
  <2> QED  BY <2>1, <2>2, <2>3, <2>4 DEF HaInv, Advertising
<1>3. ASSUME NEW v \in VipOptions, Cluster!SetVips(v) PROVE Advertising'
  <2>1. /\ vips' = v /\ UNCHANGED <<haExposed, clustered, haData, crm, urls>>
        /\ Spared => clustered = {} /\ haData = {}
    BY <1>3 DEF Cluster!SetVips, Cluster!Exposed, Cluster!Spared
  <2>2. UNCHANGED Spared /\ vips' \in Seq(DOMAIN NetOf)
    BY <2>1 DEF Cluster!Spared, HaInv, Numbered
  <2> QED  BY <2>1, <2>2 DEF HaInv, Advertising
<1>4. CASE Cluster!generate_ha_relation_data
  <2>1. /\ haData' = Cluster!update_hacluster_vip
        /\ UNCHANGED <<haExposed, vips, clustered, crm, urls>>
    BY <1>4 DEF Cluster!generate_ha_relation_data
  <2>2. UNCHANGED <<Spared, Cluster!update_hacluster_vip, Cluster!get_invalid_vips>>
    BY <2>1 DEF Cluster!Spared, Cluster!update_hacluster_vip, Cluster!get_invalid_vips, Cluster!is_clustered
  <2> QED  BY <2>1, <2>2 DEF HaInv, Advertising
<1>5. ASSUME NEW e \in DOMAIN EndpointNet, Cluster!Advertise(e) PROVE Advertising'
  <2> DEFINE addr == Cluster!resolve_address(e)
  <2>1. /\ addr # "none" /\ UNCHANGED <<haExposed, vips, clustered, haData, crm>>
        /\ urls' = Cluster!With(urls, e, addr)
    BY <1>5 DEF Cluster!Advertise
  <2>2. UNCHANGED <<Spared, Cluster!update_hacluster_vip, Cluster!get_invalid_vips>>
    BY <2>1 DEF Cluster!Spared, Cluster!update_hacluster_vip, Cluster!get_invalid_vips, Cluster!is_clustered
  <2>3. addr = Cluster!Local \/ (Cluster!Self \in clustered /\ addr \in Cluster!Range(vips))
    BY <2>1, Resolved
  <2> HIDE DEF addr
  <2>4. ASSUME Cluster!Self \in clustered, addr \in Cluster!Range(vips)
        PROVE  addr \in Cluster!update_hacluster_vip \union Cluster!get_invalid_vips
    BY <2>4 DEF Cluster!update_hacluster_vip, Cluster!get_invalid_vips, Cluster!is_clustered
  <2>5. \A x \in DOMAIN urls' : (x \in DOMAIN urls /\ urls'[x] = urls[x]) \/ urls'[x] = addr
    BY <2>1 DEF Cluster!With
  <2> QED  BY <2>1, <2>2, <2>3, <2>4, <2>5 DEF HaInv, Advertising
<1>6. CASE \/ \E u, peer \in Units : Cluster!PeerJoins(u, peer)
           \/ \E u \in Units : Cluster!Act(u) \/ Cluster!Acted(u) \/ Cluster!NewLeader(u)
           \/ \E place \in Units \union {0} : Cluster!NewPlace(place)
           \/ \E u \in Units, https \in BOOLEAN : Cluster!Write(u, https)
           \/ UNCHANGED Cluster!haVars
  BY <1>1, <1>6 DEF Cluster!PeerJoins, Cluster!Act, Cluster!Acted, Cluster!NewLeader, Cluster!NewPlace,
     Cluster!Write, Cluster!AddressUnchanged, Cluster!haVars
<1> QED  BY <1>2, <1>3, <1>4, <1>5, <1>6 DEF Cluster!HaNext

LEMMA ServingStep == HaInv /\ [Cluster!HaNext]_Cluster!haVars => Serving'
<1> SUFFICES ASSUME HaInv, [Cluster!HaNext]_Cluster!haVars PROVE Serving'
  OBVIOUS
<1>1. UNCHANGED haExposed
  BY DEF Cluster!HaNext, Cluster!haVars, Cluster!PeerJoins, Cluster!Act, Cluster!Acted, Cluster!NewLeader,
     Cluster!NewPlace, Cluster!Configure, Cluster!generate_ha_relation_data, Cluster!SetVips,
     Cluster!Advertise, Cluster!Write
<1>2. CASE UNCHANGED serving
  BY <1>1, <1>2 DEF HaInv, Serving
<1>3. ASSUME NEW u \in Units, NEW https \in BOOLEAN, Cluster!Write(u, https) PROVE Serving'
  <2> DEFINE files == [port |-> Cluster!Listens(u, https), peers |-> Cluster!peer_units(u)]
  <2>1. serving' = Cluster!With(serving, u, files)
    BY <1>3 DEF Cluster!Write
  <2>2. files.port = Cluster!Listens(u, https) /\ files.peers = known[u]
    BY DEF Cluster!peer_units
  <2>3. known[u] # {} => files.port = Cluster!Public - 10
    BY <2>2 DEF Cluster!Listens, Cluster!determine_apache_port, Cluster!determine_api_port, Cluster!Several,
       Cluster!peer_units, Cluster!Public
  <2> HIDE DEF files
  <2>4. \A x \in DOMAIN serving' : \/ x \in DOMAIN serving /\ serving'[x] = serving[x]
                                   \/ x = u /\ serving'[x] = files
    BY <2>1 DEF Cluster!With
  <2> QED  BY <1>1, <2>2, <2>3, <2>4 DEF HaInv, Serving, Electing
<1>4. (\E u \in Units, https \in BOOLEAN : Cluster!Write(u, https)) \/ UNCHANGED serving
  BY DEF Cluster!HaNext, Cluster!haVars, Cluster!PeerJoins, Cluster!Act, Cluster!Acted, Cluster!NewLeader,
     Cluster!NewPlace, Cluster!Configure, Cluster!generate_ha_relation_data, Cluster!SetVips,
     Cluster!Advertise
<1> QED  BY <1>2, <1>3, <1>4

LEMMA HaInvStep == HaInv /\ [Cluster!HaNext]_Cluster!haVars => HaInv'
BY ElectingStep, AdvertisingStep, ServingStep DEF HaInv, Numbered

LEMMA SameClusterCardinality == \A S : Cluster!Cardinality(S) = Cardinality(S)
BY DEF Cardinality, Cluster!Cardinality, IsFiniteSet, Cluster!IsFiniteSet

(* One unit at most does at a time what is for the elected one to do, by    *)
(* Juju's leader, by the cluster's resource and by the oldest peer, when   *)
(* none of them changes under a unit that acts.                            *)
THEOREM OneActs == DeploymentSpec => []OneElected
<1>1. HaInv => Cluster!OneElected
  <2> SUFFICES ASSUME HaInv, Steady PROVE Cluster!Cardinality(acting) <= 1
    BY DEF Cluster!OneElected, Steady
  <2>1. ASSUME NEW u \in acting, NEW v \in acting PROVE u = v
    <3>1. /\ u \in Units /\ v \in Units /\ Cluster!is_elected_leader(u) /\ Cluster!is_elected_leader(v)
          /\ clustered \in {{}, Units} /\ "joining" \notin haExposed /\ "host_names" \notin haExposed
      BY DEF HaInv, Electing, Steady, Cluster!Spared
    <3>2. CASE newJuju
      BY <3>1, <3>2 DEF Cluster!is_elected_leader
    <3>3. CASE ~newJuju /\ clustered = Units
      BY <3>1, <3>3 DEF Cluster!is_elected_leader, Cluster!is_clustered, Cluster!is_crm_leader,
         Cluster!Exposed
    <3>4. CASE ~newJuju /\ clustered = {}
      <4>1. known[u] = Units \ {u} /\ known[v] = Units \ {v}
        BY <3>1 DEF HaInv, Electing
      <4>2. u \in Nat /\ v \in Nat
        BY <3>1 DEF HaInv, Numbered
      <4>3. u # v => v > u /\ u > v
        BY <3>1, <3>4, <4>1 DEF Cluster!is_elected_leader, Cluster!is_clustered, Cluster!oldest_peer,
           Cluster!peer_units
      <4> QED  BY <4>2, <4>3
    <3> QED  BY <3>1, <3>2, <3>3, <3>4
  <2>2. acting = {} \/ \E u : acting = {u}
    BY <2>1
  <2>3. Cardinality(acting) <= 1
    BY <2>2, FS_EmptySet, FS_Singleton
  <2> QED  BY <2>3, SameClusterCardinality
<1>2. DeploymentInit => (part = "cluster" => HaInv)
  BY Starts, HaInvInit, ClusterAssumption
<1>3. (part = "cluster" => HaInv) /\ [DeploymentNext]_deploymentVars => (part = "cluster" => HaInv)'
  BY Steps, HaInvStep
<1> QED  BY <1>1, <1>2, <1>3, PTL DEF DeploymentSpec, OneElected

(* An address that a unit advertises is one that the cluster has a resource *)
(* for, or one that the unit complains of, and each proxy finds its peers' *)
(* services on the port it looks for them.                                 *)
THEOREM AdvertisedAreServed == DeploymentSpec => []AdvertisedIsServed
<1>1. HaInv => Cluster!AdvertisedIsServed
  <2> SUFFICES ASSUME HaInv PROVE Cluster!AdvertisedIsServed
    OBVIOUS
  <2>1. ASSUME Cluster!Spared({"vip_option"}), NEW e \in DOMAIN urls
        PROVE  urls[e] \in {Cluster!Local} \union crm \union Cluster!get_invalid_vips
    BY <2>1 DEF HaInv, Advertising
  <2>2. ASSUME Cluster!Spared({"joining"}), NEW u \in DOMAIN serving,
               NEW peer \in serving[u].peers \intersect DOMAIN serving
        PROVE  serving[peer].port = Cluster!Public - 10
    <3>1. "joining" \notin haExposed
      BY <2>2 DEF Cluster!Spared
    <3>2. u \in Units /\ peer \in Units \ {u}
      BY <3>1 DEF HaInv, Serving
    <3> QED  BY <3>1, <3>2 DEF HaInv, Serving
  <2> QED  BY <2>1, <2>2 DEF Cluster!AdvertisedIsServed
<1>2. DeploymentInit => (part = "cluster" => HaInv)
  BY Starts, HaInvInit, ClusterAssumption
<1>3. (part = "cluster" => HaInv) /\ [DeploymentNext]_deploymentVars => (part = "cluster" => HaInv)'
  BY Steps, HaInvStep
<1> QED  BY <1>1, <1>2, <1>3, PTL DEF DeploymentSpec, AdvertisedIsServed
-----------------------------------------------------------------------------
(***************************************************************************)
(* PeerSsh.  What a peer authorizes it has the key for, and what a unit    *)
(* has not heard of yet it has a hook due for.                             *)
(***************************************************************************)
PeersSpared == Ssh!Spared({"other_hook", "reused", "rekey"})
HostsSpared == Ssh!Spared({"nova_user", "last_key"})

Published(u) == <<u, 1>>

SshOK ==
  /\ address = [u \in SshUnits |-> address[u]]
  /\ published = [u \in SshUnits |-> published[u]]
  /\ authorizes = [u \in SshUnits |-> authorizes[u]]
  /\ authKeys = [u \in SshUnits |-> authKeys[u]]
  /\ knownHosts = [u \in SshUnits |-> knownHosts[u]]
  /\ due = [u \in SshUnits |-> due[u]]
  /\ \A u, v \in SshUnits : address[u] = address[v] => u = v

Authorized ==
  PeersSpared =>
    /\ keypair = [u \in SshUnits |-> 1]
    /\ \A u \in SshUnits : published[u] \in {<< >>, Published(u)}
    /\ \A v \in SshUnits :
         /\ authorizes[v] # {} => published[v] # << >>
         /\ \A u \in SshUnits : u # v /\ address[u] \in authorizes[v] => Published(u) \in authKeys[v]
         /\ \A key \in authKeys[v] : \E u \in SshUnits \ {v} : published[u] = key /\ key # << >>

Heard ==
  \A u, v \in SshUnits : u # v /\ published[v] # << >> => v \in due[u] \/ address[v] \in knownHosts[u]

PeersInv == SshOK /\ Authorized /\ Heard

LEMMA PeersInit == Ssh!SshInit => PeersInv
BY DEF Ssh!SshInit, PeersInv, SshOK, Authorized, Heard, Published

LEMMA PeersStep == PeersInv /\ [Ssh!SshNext]_Ssh!sshVars => PeersInv'
<1> SUFFICES ASSUME PeersInv, [Ssh!SshNext]_Ssh!sshVars PROVE PeersInv'
  OBVIOUS
<1> USE DEF PeersInv, PeersSpared, Ssh!Spared, Published
<1>1. CASE UNCHANGED Ssh!sshVars
  BY <1>1 DEF Ssh!sshVars, SshOK, Authorized, Heard
<1>2. ASSUME NEW u \in SshUnits, Ssh!Joined(u) PROVE PeersInv'
  <2>1. SshOK'
    BY <1>2 DEF Ssh!Joined, Ssh!Told, SshOK
  <2>2. Authorized'
    BY <1>2 DEF Ssh!Joined, Ssh!get_keypair, SshOK, Authorized
  <2>3. Heard'
    BY <1>2 DEF Ssh!Joined, Ssh!Told, SshOK, Heard
  <2> QED  BY <2>1, <2>2, <2>3
<1>3. ASSUME NEW u \in SshUnits, NEW peer \in SshUnits, Ssh!ssh_authorized_peers(u, peer) PROVE PeersInv'
  <2>1. SshOK'
    BY <1>3 DEF Ssh!ssh_authorized_peers, SshOK
  <2>2. Authorized'
    <3> SUFFICES ASSUME PeersSpared PROVE Authorized'
      BY <1>3 DEF Ssh!ssh_authorized_peers, Authorized
    <3>1. /\ UNCHANGED <<address, keypair, published>>
          /\ \A v \in SshUnits : v # u => authorizes'[v] = authorizes[v] /\ authKeys'[v] = authKeys[v]
          /\ authKeys'[u] = {published[v] : v \in Ssh!WithKey(u)}
          /\ authorizes'[u] \in {authorizes[u], {address[v] : v \in Ssh!WithKey(u)}}
          /\ published[u] # << >>
      BY <1>3 DEF Ssh!ssh_authorized_peers, SshOK
    <3>2. Ssh!WithKey(u) = {v \in SshUnits \ {u} : published[v] # << >>}
      BY DEF Ssh!WithKey, Ssh!Peers
    <3>3. \A v \in SshUnits : v # u /\ address[v] \in authorizes'[u] => Published(v) \in authKeys'[u]
      <4> SUFFICES ASSUME NEW v \in SshUnits, v # u, address[v] \in authorizes'[u]
                   PROVE  published[v] = Published(v) /\ v \in Ssh!WithKey(u)
        BY <3>1
      <4>1. \A w \in SshUnits : published[w] \in {<< >>, Published(w)}
        BY DEF Authorized
      <4>2. CASE authorizes'[u] = authorizes[u]
        <5>1. Published(v) \in authKeys[u]
          BY <4>2 DEF Authorized
        <5>2. PICK w \in SshUnits \ {u} : published[w] = Published(v) /\ Published(v) # << >>
          BY <5>1 DEF Authorized
        <5>3. published[w] = Published(w)
          BY <4>1, <5>2
        <5>4. w = v
          BY <5>2, <5>3 DEF Published
        <5> QED  BY <3>2, <5>2, <5>4
      <4>3. CASE authorizes'[u] = {address[w] : w \in Ssh!WithKey(u)}
        <5>1. PICK w \in Ssh!WithKey(u) : address[w] = address[v]
          BY <4>3
        <5>2. w = v
          BY <3>2, <5>1 DEF SshOK
        <5> QED  BY <3>2, <4>1, <5>1, <5>2
      <4> QED  BY <3>1, <4>2, <4>3
    <3>4. \A key \in authKeys'[u] : \E v \in SshUnits \ {u} : published[v] = key /\ key # << >>
      BY <3>1, <3>2
    <3>5. \A v \in SshUnits :
            /\ authorizes'[v] # {} => published'[v] # << >>
            /\ \A w \in SshUnits : w # v /\ address'[w] \in authorizes'[v] => Published(w) \in authKeys'[v]
            /\ \A key \in authKeys'[v] : \E w \in SshUnits \ {v} : published'[w] = key /\ key # << >>
      <4> TAKE v \in SshUnits
      <4>1. CASE v = u
        BY <3>1, <3>3, <3>4, <4>1
      <4>2. CASE v # u
        BY <3>1, <4>2 DEF Authorized
      <4> QED  BY <4>1, <4>2
    <3> QED  BY <3>1, <3>5 DEF Authorized
  <2>3. Heard'
    BY <1>3 DEF Ssh!ssh_authorized_peers, Ssh!WithKey, Ssh!Peers, SshOK, Heard
  <2> QED  BY <2>1, <2>2, <2>3
<1>4. ASSUME NEW u \in SshUnits, NEW a \in Addresses, Ssh!NewAddress(u, a) PROVE PeersInv'
  <2>1. SshOK'
    BY <1>4 DEF Ssh!NewAddress, Ssh!Told, SshOK
  <2>2. Authorized'
    BY <1>4 DEF Ssh!NewAddress, SshOK, Authorized
  <2>3. Heard'
    BY <1>4 DEF Ssh!NewAddress, Ssh!Told, SshOK, Heard
  <2> QED  BY <2>1, <2>2, <2>3
<1>5. ASSUME NEW u \in SshUnits, Ssh!Rekey(u) PROVE PeersInv'
  BY <1>5 DEF Ssh!Rekey, SshOK, Authorized, Heard
<1>6. ASSUME NEW key \in ComputeKeys, NEW user \in SshUsers,
             Ssh!ssh_compute_add(key, user) \/ Ssh!ssh_compute_remove(key, user)
      PROVE  PeersInv'
  BY <1>6 DEF Ssh!ssh_compute_add, Ssh!ssh_compute_remove, Ssh!PeerUnchanged, SshOK, Authorized, Heard
<1> QED  BY <1>1, <1>2, <1>3, <1>4, <1>5, <1>6 DEF Ssh!SshNext
-----------------------------------------------------------------------------
(***************************************************************************)
(* The lines of a user's file are the keys of today, each once, and what   *)
(* compute hosts read begins with them.                                    *)
(***************************************************************************)
Once(lines) == \A i, j \in DOMAIN lines : lines[i] = lines[j] => i = j

Begins(keys, lines) == Len(lines) <= Len(keys) /\ \A i \in 1..Len(lines) : keys[i] = lines[i]

HostsInv ==
  /\ RootIsUser
  /\ nova \in [SshUsers -> Seq(ComputeKeys)]
  /\ computes \in [SshUsers -> SUBSET ComputeKeys]
  /\ given \in [SshUsers -> [keys : Seq(ComputeKeys), max_index : Nat]]
  /\ HostsSpared =>
       \A user \in SshUsers :
         /\ Once(nova[user])
         /\ computes[user] = {nova[user][i] : i \in 1..Len(nova[user])}
         /\ given[user].max_index = Len(nova[user])
         /\ Begins(given[user].keys, nova[user])

LEMMA HostsInit == RootIsUser /\ Ssh!SshInit => HostsInv
BY DEF Ssh!SshInit, HostsInv, Once, Begins

LEMMA ConcatTail ==
  ASSUME NEW S, NEW head \in Seq(S), NEW tail \in Seq(S), NEW k \in 1..Len(tail)
  PROVE  (head \o tail)[Len(head) + k] = tail[k]
OBVIOUS

LEMMA Removed ==
  ASSUME NEW S, NEW lines \in Seq(S), NEW i \in DOMAIN lines
  PROVE  LET rest == Ssh!RemoveAt(lines, i)
         IN  /\ rest \in Seq(S) /\ Len(rest) = Len(lines) - 1
             /\ \A j \in 1..Len(rest) : rest[j] = IF j < i THEN lines[j] ELSE lines[j + 1]
<1> DEFINE before == SubSeq(lines, 1, i - 1)
           after == SubSeq(lines, i + 1, Len(lines))
<1>1. i \in 1..Len(lines) /\ Len(lines) \in Nat
  OBVIOUS
<1>2. before \in Seq(S) /\ Len(before) = i - 1 /\ \A j \in 1..(i - 1) : before[j] = lines[j]
  BY <1>1
<1>3. /\ after \in Seq(S) /\ Len(after) = Len(lines) - i
      /\ \A j \in 1..(Len(lines) - i) : after[j] = lines[i + j]
  BY <1>1
<1> HIDE DEF before, after
<1>4. Ssh!RemoveAt(lines, i) = before \o after
  BY DEF Ssh!RemoveAt, before, after
<1>5. before \o after \in Seq(S) /\ Len(before \o after) = Len(lines) - 1
  BY <1>1, <1>2, <1>3
<1>6. ASSUME NEW j \in 1..(Len(lines) - 1)
      PROVE  (before \o after)[j] = IF j < i THEN lines[j] ELSE lines[j + 1]
  <2>1. CASE j < i
    BY <1>1, <1>2, <1>3, <2>1
  <2>2. CASE j >= i
    <3>1. PICK k \in 1..(Len(lines) - i) : j = (i - 1) + k
      <4>1. j - (i - 1) \in 1..(Len(lines) - i) /\ j = (i - 1) + (j - (i - 1))
        BY <1>1, <2>2
      <4> QED  BY <4>1
    <3>2. (before \o after)[Len(before) + k] = after[k] /\ after[k] = lines[i + k]
      BY <1>2, <1>3, ConcatTail
    <3>3. i + k = j + 1 /\ Len(before) + k = j /\ ~(j < i)
      BY <1>1, <1>2, <3>1
    <3>4. (before \o after)[j] = lines[j + 1]
      BY <3>2, <3>3
    <3> QED  BY <3>3, <3>4
  <2>3. j < i \/ j >= i
    BY <1>1
  <2> QED  BY <2>1, <2>2, <2>3
<1> QED  BY <1>4, <1>5, <1>6

(* What is left of a list without repetitions when one entry is removed.   *)
LEMMA OnceWithout ==
  ASSUME NEW S, NEW lines \in Seq(S), NEW i \in DOMAIN lines, Once(lines)
  PROVE  LET rest == Ssh!RemoveAt(lines, i)
         IN  /\ Once(rest)
             /\ {lines[m] : m \in 1..Len(lines)} \ {lines[i]} = {rest[j] : j \in 1..Len(rest)}
<1> DEFINE rest == Ssh!RemoveAt(lines, i)
           at(j) == IF j < i THEN j ELSE j + 1
<1>0. /\ i \in 1..Len(lines) /\ Len(lines) \in Nat /\ Len(rest) = Len(lines) - 1
      /\ DOMAIN lines = 1..Len(lines) /\ DOMAIN rest = 1..Len(rest)
      /\ \A j \in 1..Len(rest) : rest[j] = IF j < i THEN lines[j] ELSE lines[j + 1]
  BY Removed
<1> HIDE DEF rest
<1>1. ASSUME NEW j \in 1..Len(rest) PROVE at(j) \in 1..Len(lines) /\ at(j) # i /\ rest[j] = lines[at(j)]
  BY <1>0
<1>2. ASSUME NEW j \in 1..Len(rest), NEW k \in 1..Len(rest), at(j) = at(k) PROVE j = k
  BY <1>2
<1>3. ASSUME NEW m \in 1..Len(lines), m # i PROVE \E j \in 1..Len(rest) : at(j) = m
  <2>1. CASE m < i
    <3>1. m \in 1..Len(rest) /\ at(m) = m
      BY <1>0, <2>1
    <3> QED  BY <3>1
  <2>2. CASE m > i
    <3>1. m - 1 \in 1..Len(rest) /\ at(m - 1) = m
      BY <1>0, <2>2
    <3> QED  BY <3>1
  <2> QED  BY <1>0, <1>3, <2>1, <2>2
<1> HIDE DEF at
<1>4. \A m, k \in 1..Len(lines) : lines[m] = lines[k] => m = k
  BY <1>0 DEF Once
<1>5. \A j, k \in 1..Len(rest) : rest[j] = rest[k] => j = k
  BY <1>1, <1>2, <1>4
<1>6. ASSUME NEW m \in 1..Len(lines), lines[m] # lines[i] PROVE \E j \in 1..Len(rest) : rest[j] = lines[m]
  <2>1. PICK j \in 1..Len(rest) : at(j) = m
    BY <1>3, <1>6
  <2> QED  BY <1>1, <2>1
<1>7. ASSUME NEW j \in 1..Len(rest)
      PROVE  \E m \in 1..Len(lines) : lines[m] # lines[i] /\ lines[m] = rest[j]
  BY <1>0, <1>1, <1>4
<1>8. Once(rest)
  BY <1>0, <1>5 DEF Once
<1>9. {lines[m] : m \in 1..Len(lines)} \ {lines[i]} = {rest[j] : j \in 1..Len(rest)}
  <2>1. ASSUME NEW line \in {lines[m] : m \in 1..Len(lines)}, line # lines[i]
        PROVE  line \in {rest[j] : j \in 1..Len(rest)}
    <3>1. PICK m \in 1..Len(lines) : line = lines[m]
      BY <2>1
    <3> QED  BY <1>6, <2>1, <3>1
  <2>2. ASSUME NEW j \in 1..Len(rest)
        PROVE  rest[j] \in {lines[m] : m \in 1..Len(lines)} \ {lines[i]}
    BY <1>7
  <2> QED  BY <2>1, <2>2
<1> QED  BY <1>8, <1>9 DEF rest

LEMMA Overlaid ==
  ASSUME NEW S, NEW lines \in Seq(S), NEW keys \in Seq(S)
  PROVE  LET new == lines \o SubSeq(keys, Len(lines) + 1, Len(keys))
         IN  new \in Seq(S) /\ Begins(new, lines)
BY DEF Begins

(* get_ssh_settings gives a user's compute hosts the lines of the file, and *)
(* leaves what the others were given.                                      *)
LEMMA Given ==
  ASSUME NEW user \in SshUsers, NEW lines \in Seq(ComputeKeys),
         given \in [SshUsers -> [keys : Seq(ComputeKeys), max_index : Nat]],
         Ssh!get_ssh_settings(lines, user)
  PROVE  /\ given' \in [SshUsers -> [keys : Seq(ComputeKeys), max_index : Nat]]
         /\ \A other \in SshUsers : other # user => given'[other] = given[other]
         /\ lines = << >> => given' = given
         /\ lines # << >> => given'[user].max_index = Len(lines) /\ Begins(given'[user].keys, lines)
<1> DEFINE new == lines \o SubSeq(given[user].keys, Len(lines) + 1, Len(given[user].keys))
<1>1. new \in Seq(ComputeKeys) /\ Begins(new, lines)
  BY Overlaid
<1>2. given' = IF lines = << >> THEN given
               ELSE [given EXCEPT ![user] = [keys |-> new, max_index |-> Len(lines)]]
  BY DEF Ssh!get_ssh_settings
<1> HIDE DEF new
<1> QED  BY <1>1, <1>2

LEMMA HostsStep == HostsInv /\ [Ssh!SshNext]_Ssh!sshVars => HostsInv'
<1> SUFFICES ASSUME HostsInv, [Ssh!SshNext]_Ssh!sshVars PROVE HostsInv'
  OBVIOUS
<1> USE DEF HostsInv
<1> DEFINE Agrees(user) == /\ Once(nova[user])
                           /\ computes[user] = {nova[user][i] : i \in 1..Len(nova[user])}
                           /\ given[user].max_index = Len(nova[user])
                           /\ Begins(given[user].keys, nova[user])
<1>1. CASE UNCHANGED <<sshExposed, nova, computes, given>>
  BY <1>1 DEF HostsSpared, Ssh!Spared, Once, Begins
<1>2. ASSUME NEW key \in ComputeKeys, NEW user \in SshUsers, NEW lines \in Seq(ComputeKeys),
             nova' = [nova EXCEPT ![user] = lines],
             computes' \in [SshUsers -> SUBSET ComputeKeys],
             \A other \in SshUsers : other # user => computes'[other] = computes[other],
             Ssh!get_ssh_settings(nova'[user], user),
             sshExposed' = sshExposed,
             HostsSpared => /\ Once(lines) /\ computes'[user] = {lines[i] : i \in 1..Len(lines)}
                            /\ lines = << >> => nova[user] = << >>
      PROVE  HostsInv'
  <2>1. nova'[user] = lines /\ nova' \in [SshUsers -> Seq(ComputeKeys)]
    BY <1>2
  <2>2. /\ given' \in [SshUsers -> [keys : Seq(ComputeKeys), max_index : Nat]]
        /\ \A other \in SshUsers : other # user => given'[other] = given[other]
        /\ lines = << >> => given' = given
        /\ lines # << >> => given'[user].max_index = Len(lines) /\ Begins(given'[user].keys, lines)
    BY <1>2, <2>1, Given
  <2>3. HostsSpared' = HostsSpared
    BY <1>2 DEF HostsSpared, Ssh!Spared
  <2>4. ASSUME HostsSpared, NEW other \in SshUsers PROVE Agrees(other)'
    <3>1. CASE other # user
      <4>1. nova'[other] = nova[other] /\ given'[other] = given[other] /\ computes'[other] = computes[other]
        BY <1>2, <2>2, <3>1
      <4>2. Agrees(other)
        BY <2>4
      <4> QED  BY <4>1, <4>2 DEF Once, Begins
    <3>2. CASE other = user
      <4>1. Once(lines) /\ computes'[user] = {lines[i] : i \in 1..Len(lines)}
        BY <1>2, <2>4
      <4>2. given'[user].max_index = Len(lines) /\ Begins(given'[user].keys, lines)
        <5>1. CASE lines = << >>
          <6>1. given[user] \in [keys : Seq(ComputeKeys), max_index : Nat]
            OBVIOUS
          <6>2. given' = given /\ nova[user] = << >> /\ given[user].max_index = Len(nova[user])
            BY <1>2, <2>2, <2>4, <5>1
          <6> QED  BY <5>1, <6>1, <6>2 DEF Begins
        <5>2. CASE lines # << >>
          BY <2>2, <5>2
        <5> QED  BY <5>1, <5>2
      <4>3. nova'[user] = lines
        BY <2>1
      <4> HIDE DEF HostsInv
      <4> QED  BY <3>2, <4>1, <4>2, <4>3 DEF Once, Begins
    <3> QED  BY <3>1, <3>2
  <2> QED  BY <1>2, <2>1, <2>2, <2>3, <2>4
<1>3. ASSUME NEW key \in ComputeKeys, NEW user \in SshUsers, Ssh!ssh_compute_add(key, user)
      PROVE  HostsInv'
  <2>1. /\ nova' = IF Ssh!ssh_authorized_key_exists(key, user) THEN nova
                   ELSE [nova EXCEPT ![user] = Append(@, key)]
        /\ computes' = [computes EXCEPT ![user] = @ \cup {key}]
        /\ sshExposed' = sshExposed /\ Ssh!get_ssh_settings(nova'[user], user)
    BY <1>3 DEF Ssh!ssh_compute_add
  <2>2. CASE Ssh!ssh_authorized_key_exists(key, user)
    <3>1. nova[user] \in Seq(ComputeKeys) /\ \E i \in 1..Len(nova[user]) : nova[user][i] = key
      BY <2>2 DEF Ssh!ssh_authorized_key_exists
    <3>2. nova' = [nova EXCEPT ![user] = nova[user]]
      BY <2>1, <2>2
    <3>3. HostsSpared => Once(nova[user]) /\ computes'[user] = {nova[user][i] : i \in 1..Len(nova[user])}
      BY <2>1, <3>1
    <3>4. computes' \in [SshUsers -> SUBSET ComputeKeys]
      BY <2>1
    <3> QED  BY <1>2, <2>1, <3>1, <3>2, <3>3, <3>4
  <2>3. CASE ~Ssh!ssh_authorized_key_exists(key, user)
    <3> DEFINE lines == Append(nova[user], key)
    <3>1. /\ lines \in Seq(ComputeKeys) /\ Len(lines) = Len(nova[user]) + 1 /\ lines[Len(lines)] = key
          /\ nova[user] \in Seq(ComputeKeys) /\ Len(nova[user]) \in Nat
          /\ \A i \in 1..Len(nova[user]) : lines[i] = nova[user][i] /\ nova[user][i] # key
      BY <2>3 DEF Ssh!ssh_authorized_key_exists
    <3>2. nova' = [nova EXCEPT ![user] = lines]
      BY <2>1, <2>3
    <3>6. HostsSpared => Once(nova[user]) /\ computes[user] = {nova[user][i] : i \in 1..Len(nova[user])}
      OBVIOUS
    <3>7. computes'[user] = computes[user] \cup {key}
      BY <2>1
    <3> HIDE DEF lines, HostsInv
    <3>3. HostsSpared => Once(lines)
      <4> SUFFICES ASSUME HostsSpared, NEW i \in 1..Len(lines), NEW j \in 1..Len(lines), lines[i] = lines[j]
                   PROVE  i = j
        BY <3>1 DEF Once
      <4>1. \A k, l \in 1..Len(nova[user]) : nova[user][k] = nova[user][l] => k = l
        BY <3>1, <3>6 DEF Once
      <4>2. (i \in 1..Len(nova[user]) \/ i = Len(lines)) /\ (j \in 1..Len(nova[user]) \/ j = Len(lines))
        BY <3>1
      <4> QED  BY <3>1, <4>1, <4>2
    <3>4. HostsSpared => computes'[user] = {lines[i] : i \in 1..Len(lines)}
      <4> SUFFICES ASSUME HostsSpared
                   PROVE  {nova[user][i] : i \in 1..Len(nova[user])} \cup {key} = {lines[i] : i \in 1..Len(lines)}
        BY <3>6, <3>7
      <4> QED  BY <3>1
    <3> USE DEF HostsInv
    <3>5. computes' \in [SshUsers -> SUBSET ComputeKeys] /\ lines # << >>
      BY <2>1, <3>1
    <3> QED  BY <1>2, <2>1, <3>1, <3>2, <3>3, <3>4, <3>5
  <2> QED  BY <2>2, <2>3
<1>4. ASSUME NEW key \in ComputeKeys, NEW user \in SshUsers, Ssh!ssh_compute_remove(key, user)
      PROVE  HostsInv'
  <2> DEFINE lines == nova["root"]
  <2>1. /\ (user # "root" /\ nova[user] # lines) => "nova_user" \in sshExposed
        /\ computes[user] = {key} => "last_key" \in sshExposed
        /\ \/ key \notin Ssh!Range(lines) /\ nova' = nova
           \/ \E i \in DOMAIN lines : lines[i] = key /\ nova' = [nova EXCEPT ![user] = Ssh!RemoveAt(lines, i)]
        /\ computes' = [computes EXCEPT ![user] = @ \ {key}]
        /\ sshExposed' = sshExposed /\ Ssh!get_ssh_settings(nova'[user], user)
    BY <1>4 DEF Ssh!ssh_compute_remove
  <2>2. computes' \in [SshUsers -> SUBSET ComputeKeys]
    BY <2>1
  <2>3. HostsSpared => lines = nova[user] /\ computes[user] # {key}
    BY <2>1 DEF HostsSpared, Ssh!Spared
  <2>4. CASE key \notin Ssh!Range(lines) /\ nova' = nova
    <3>1. nova[user] \in Seq(ComputeKeys) /\ nova' = [nova EXCEPT ![user] = nova[user]]
      BY <2>4
    <3>2. HostsSpared => Once(nova[user]) /\ computes'[user] = {nova[user][i] : i \in 1..Len(nova[user])}
      BY <2>1, <2>3, <2>4, <3>1 DEF Ssh!Range
    <3> QED  BY <1>2, <2>1, <2>2, <3>1, <3>2
  <2>5. ASSUME NEW i \in DOMAIN lines, lines[i] = key, nova' = [nova EXCEPT ![user] = Ssh!RemoveAt(lines, i)]
        PROVE  HostsInv'
    <3> DEFINE rest == Ssh!RemoveAt(lines, i)
    <3>1. lines \in Seq(ComputeKeys)
      BY DEF RootIsUser
    <3>2. /\ rest \in Seq(ComputeKeys) /\ Len(rest) = Len(lines) - 1
          /\ \A j \in 1..Len(rest) : rest[j] = IF j < i THEN lines[j] ELSE lines[j + 1]
      BY <3>1, <2>5, Removed
    <3>3. Once(lines) => Once(rest) /\ {lines[m] : m \in 1..Len(lines)} \ {lines[i]} = {rest[j] : j \in 1..Len(rest)}
      <4> HIDE DEF lines, HostsInv
      <4>1. i \in DOMAIN lines
        BY <2>5
      <4> QED  BY <3>1, <4>1, OnceWithout
    <3>4. nova' = [nova EXCEPT ![user] = rest]
      BY <2>5
    <3> HIDE DEF rest, lines
    <3>5. i \in 1..Len(lines) /\ Len(lines) \in Nat
      BY <3>1, <2>5
    <3>6. HostsSpared => Once(lines) /\ computes[user] = {lines[j] : j \in 1..Len(lines)}
      BY <2>3
    <3>7. HostsSpared => Once(rest) /\ computes'[user] = {rest[j] : j \in 1..Len(rest)}
      BY <2>1, <2>5, <3>6, <3>3 DEF lines
    <3>8. HostsSpared => rest # << >>
      BY <2>3, <2>5, <3>1, <3>2, <3>5, <3>6
    <3> QED  BY <1>2, <2>1, <2>2, <3>2, <3>4, <3>7, <3>8
  <2> QED  BY <2>1, <2>4, <2>5
<1>5. ASSUME NEW u \in SshUnits, Ssh!Joined(u) \/ Ssh!Rekey(u)
      PROVE  UNCHANGED <<sshExposed, nova, computes, given>>
  BY <1>5 DEF Ssh!Joined, Ssh!Rekey, Ssh!NovaUnchanged
<1>6. ASSUME NEW u \in SshUnits, NEW v, Ssh!ssh_authorized_peers(u, v) \/ Ssh!NewAddress(u, v)
      PROVE  UNCHANGED <<sshExposed, nova, computes, given>>
  BY <1>6 DEF Ssh!ssh_authorized_peers, Ssh!NewAddress, Ssh!NovaUnchanged
<1> QED  BY <1>1, <1>3, <1>4, <1>5, <1>6 DEF Ssh!SshNext, Ssh!sshVars

(* A unit that has had the hooks of its peers' changes knows the address of *)
(* each peer that authorizes it, and its key is there; what compute hosts  *)
(* read are the keys of the hosts that are there, for each user.           *)
THEOREM KeysAreThere == DeploymentSpec => []KeysReach
<1>1. PeersInv /\ HostsInv => Ssh!KeysReach
  <2> SUFFICES ASSUME PeersInv, HostsInv PROVE Ssh!KeysReach
    OBVIOUS
  <2>1. ASSUME PeersSpared, NEW u \in SshUnits, NEW v \in Ssh!collect_authed_hosts(u),
               due[u] = {} \/ "other_hook" \in sshExposed
        PROVE  Ssh!sync_path_to_host(u, v)
    <3>1. due[u] = {}
      BY <2>1 DEF PeersSpared, Ssh!Spared
    <3>2. v \in SshUnits /\ u # v /\ address[u] \in authorizes[v]
      BY <2>1 DEF Ssh!collect_authed_hosts, Ssh!Peers
    <3>3. Published(u) \in authKeys[v] /\ published[v] # << >> /\ keypair[u] = 1
      BY <2>1, <3>2 DEF PeersInv, Authorized
    <3>4. address[v] \in knownHosts[u]
      BY <3>1, <3>2, <3>3 DEF PeersInv, Heard
    <3> QED  BY <3>3, <3>4 DEF Ssh!sync_path_to_host, Ssh!get_keypair, Published
  <2>2. ASSUME HostsSpared, NEW user \in SshUsers
        PROVE  {given[user].keys[i] : i \in 1..given[user].max_index} = computes[user]
    <3>1. /\ given[user].max_index = Len(nova[user])
          /\ \A i \in 1..Len(nova[user]) : given[user].keys[i] = nova[user][i]
          /\ computes[user] = {nova[user][i] : i \in 1..Len(nova[user])}
      BY <2>2 DEF HostsInv, Begins
    <3> QED  BY <3>1
  <2> QED  BY <2>1, <2>2 DEF Ssh!KeysReach, PeersSpared, HostsSpared
<1>2. DeploymentInit => (part = "ssh" => PeersInv /\ HostsInv)
  BY Starts, PeersInit, HostsInit, SshAssumption
<1>3. (part = "ssh" => PeersInv /\ HostsInv) /\ [DeploymentNext]_deploymentVars
        => (part = "ssh" => PeersInv /\ HostsInv)'
  BY Steps, PeersStep, HostsStep
<1> QED  BY <1>1, <1>2, <1>3, PTL DEF DeploymentSpec, KeysReach
-----------------------------------------------------------------------------
(***************************************************************************)
(* NetDevices.  A behaviour is about one kind of devices, and the state of *)
(* the others is as in the beginning.                                      *)
(***************************************************************************)
NetApart ==
  /\ netKind \in {"ports", "vfs", "veth"}
  /\ netKind # "ports" => /\ ~half /\ interfaces = {} /\ dpdkBonds = {}
                          /\ \A c \in Cards : dataPort[c] = ""

PortsStep ==
  \/ Net!DPDKDeviceContext \/ Net!ConfigurePorts \/ Net!EnableDpdk
  \/ \E c \in Cards, b \in Bridges \cup {""} : Net!NameCard(c, b)
  \/ \E cards \in SUBSET Cards, b \in Bridges : Net!NameBond(cards, b)
  \/ \E c \in Cards, s \in Slots \cup {""} : Net!MoveCard(c, s)
VFsStep ==
  \/ \E c \in Cards : Net!set_sriov_numvfs(c)
  \/ Net!VFsDone \/ Net!Reboot
  \/ \E o \in NumVFs : Net!SetNumVFs(o)
VethStep ==
  \/ Net!WriteDhcpAgentIni
  \/ \E v \in {"", "yes", "no"} : Net!SetUseVeth(v)

NetSteps ==
  /\ netKind' = netKind /\ netExposed' = netExposed /\ NetApart'
  /\ \/ UNCHANGED Net!netVars
     \/ netKind = "ports" /\ PortsStep
     \/ netKind = "vfs" /\ VFsStep /\ UNCHANGED Net!Hardware
     \/ netKind = "veth" /\ VethStep /\ UNCHANGED Net!Hardware

LEMMA NetApartSteps ==
  NetApart /\ [Net!NetNext]_Net!netVars => NetSteps
<1> SUFFICES ASSUME NetApart, [Net!NetNext]_Net!netVars
             PROVE  NetSteps
  BY DEF NetSteps
<1>1. CASE UNCHANGED Net!netVars
  BY <1>1 DEF Net!netVars, NetApart, NetSteps
<1>2. ASSUME PortsStep PROVE netKind = "ports" /\ netKind' = netKind /\ netExposed' = netExposed
  BY <1>2 DEF PortsStep, NetApart, Net!DPDKDeviceContext, Net!ConfigurePorts, Net!EnableDpdk, Net!NameCard,
     Net!NameBond, Net!MoveCard, Net!OthersUnchanged
<1>3. ASSUME VFsStep
      PROVE  /\ netKind = "vfs" /\ netKind' = netKind /\ netExposed' = netExposed
             /\ UNCHANGED Net!Hardware
  BY <1>3 DEF VFsStep, Net!set_sriov_numvfs, Net!VFsDone, Net!Reboot, Net!SetNumVFs
<1>4. ASSUME VethStep
      PROVE  /\ netKind = "veth" /\ netKind' = netKind /\ netExposed' = netExposed
             /\ UNCHANGED Net!Hardware
  BY <1>4 DEF VethStep, Net!WriteDhcpAgentIni, Net!SetUseVeth
<1>5. CASE PortsStep
  BY <1>2, <1>5 DEF NetApart, NetSteps
<1>a. ASSUME UNCHANGED Net!Hardware, netKind' = netKind PROVE NetApart'
  BY <1>a DEF NetApart, Net!Hardware
<1>6. CASE VFsStep
  BY <1>3, <1>6, <1>a DEF NetSteps
<1>7. CASE VethStep
  BY <1>4, <1>7, <1>a DEF NetSteps
<1>8. Net!NetNext => PortsStep \/ VFsStep \/ VethStep
  BY DEF Net!NetNext, PortsStep, VFsStep, VethStep
<1> QED  BY <1>1, <1>5, <1>6, <1>7, <1>8

(***************************************************************************)
(* Virtual functions: a card that the option is not about has none, and    *)
(* those of the others are as determined when the hook is done.            *)
(***************************************************************************)
VFsInv ==
  netKind = "vfs" =>
    /\ vfs \in [Cards -> Nat]
    /\ numvfs.mode = "" \/ numvfs \in NumVFs
    /\ Net!Spared({"unmapped"}) => \A c \in Cards : vfs[c] # 0 => numvfs.mode # "" /\ Net!Determined(c)
    /\ netDone => numvfs.mode # "" /\ \A c \in Net!Present : ~Net!Differs(c)

LEMMA DeterminedNumber ==
  ASSUME NamedCards, numvfs \in NumVFs, NEW c \in Cards
  PROVE  Net!_determine_numvfs(c) \in Nat
BY DEF NamedCards, Net!_determine_numvfs, Net!MinOf

LEMMA VFsInvStep ==
  ASSUME NamedCards, NetApart, VFsInv, [Net!NetNext]_Net!netVars
  PROVE  VFsInv'
<1>1. /\ netKind' = netKind /\ netExposed' = netExposed
      /\ netKind = "vfs" => \/ UNCHANGED Net!netVars
                            \/ VFsStep /\ UNCHANGED Net!Hardware
  BY NetApartSteps DEF NetSteps
<1> SUFFICES ASSUME netKind = "vfs", netKind' = "vfs" PROVE VFsInv'
  BY <1>1 DEF VFsInv
<1>2. /\ vfs \in [Cards -> Nat]
      /\ numvfs.mode = "" \/ numvfs \in NumVFs
      /\ Net!Spared({"unmapped"}) => \A c \in Cards : vfs[c] # 0 => numvfs.mode # "" /\ Net!Determined(c)
      /\ netDone => numvfs.mode # "" /\ \A c \in Net!Present : ~Net!Differs(c)
  BY DEF VFsInv
<1>3. CASE UNCHANGED Net!netVars
  BY <1>2, <1>3 DEF VFsInv, Net!netVars, Net!Spared, Net!Determined, Net!Present, Net!Differs, Net!_determine_numvfs
<1>4. ASSUME VFsStep, UNCHANGED Net!Hardware PROVE VFsInv'
  <2>0. slot' = slot /\ Net!Present' = Net!Present
    BY <1>4 DEF Net!Hardware, Net!Present
  <2>1. ASSUME NEW c \in Cards, Net!set_sriov_numvfs(c) PROVE VFsInv'
    <3>1. PICK n \in {0, Net!_determine_numvfs(c)} : vfs' = [vfs EXCEPT ![c] = n]
      BY <2>1 DEF Net!set_sriov_numvfs
    <3>2. /\ numvfs.mode # "" /\ c \in Net!Present /\ Net!Determined(c) /\ Net!Differs(c)
          /\ numvfs' = numvfs /\ netDone' = netDone
      BY <2>1 DEF Net!set_sriov_numvfs, Net!Differs
    <3>a. numvfs \in NumVFs
      BY <1>2, <3>2
    <3>b. Net!_determine_numvfs(c) \in Nat
      BY <3>a, DeterminedNumber
    <3>3. n \in Nat
      BY <3>b
    <3>4. ~netDone /\ vfs' \in [Cards -> Nat] /\ \A d \in Cards \ {c} : vfs'[d] = vfs[d]
      BY <1>2, <3>1, <3>2, <3>3
    <3> QED  BY <1>1, <1>2, <3>2, <3>4 DEF VFsInv, Net!Spared, Net!Determined
  <2>2. CASE Net!VFsDone
    BY <1>1, <1>2, <2>0, <2>2 DEF Net!VFsDone, VFsInv, Net!Spared, Net!Determined, Net!Differs, Net!_determine_numvfs
  <2>3. CASE Net!Reboot
    BY <1>1, <1>2, <2>3 DEF Net!Reboot, Net!Change, VFsInv, Net!Spared
  <2>4. ASSUME NEW o \in NumVFs, Net!SetNumVFs(o) PROVE VFsInv'
    <3>1. /\ numvfs' = o /\ o.mode # "" /\ vfs' = vfs /\ netDone' = FALSE
          /\ (\E c \in Cards : vfs[c] > 0 /\ ~Net!Determined(c)') => "unmapped" \in netExposed
      BY <2>4 DEF Net!SetNumVFs, Net!Change, NamedCards
    <3>a. vfs \in [Cards -> Nat]
      BY <1>2
    <3>2. \A c \in Cards : vfs[c] # 0 => vfs[c] > 0
      BY <3>a
    <3>3. Net!Spared({"unmapped"})' => \A c \in Cards : vfs[c] # 0 => Net!Determined(c)'
      BY <1>1, <3>1, <3>2 DEF Net!Spared
    <3> QED  BY <1>2, <3>1, <3>3 DEF VFsInv
  <2> QED  BY <1>4, <2>1, <2>2, <2>3, <2>4 DEF VFsStep
<1> QED  BY <1>1, <1>3, <1>4

(***************************************************************************)
(* The DHCP agent: its file says what it said first.                       *)
(***************************************************************************)
VethInv ==
  netKind = "veth" => ini = deployed /\ (netDone => ini # "")

LEMMA VethInvStep ==
  ASSUME NetApart, VethInv, [Net!NetNext]_Net!netVars
  PROVE  VethInv'
<1>1. /\ netKind' = netKind
      /\ netKind = "veth" => UNCHANGED Net!netVars \/ VethStep
  BY NetApartSteps DEF NetSteps
<1>2. CASE UNCHANGED Net!netVars
  BY <1>2 DEF VethInv, Net!netVars
<1>3. CASE VethStep
  BY <1>3 DEF VethStep, Net!WriteDhcpAgentIni, Net!SetUseVeth, Net!Change, VethInv, Net!get_ovs_use_veth
<1> QED  BY <1>1, <1>2, <1>3 DEF VethInv

(***************************************************************************)
(* Ports.  What is known of a card is the address where it was seen last,  *)
(* which is bound to DPDK from then on, so that no other card comes there; *)
(* and an interface leads to no card, or to one that is named for its      *)
(* bridge.                                                                 *)
(***************************************************************************)
Known == Net!OnBridges \cup dpdkBonds

NamedFor(c, bridge) == c \in Known /\ bridge = Net!Bridge(c) /\ bridge # ""

LeadsRight(i) ==
  IF dpdk
  THEN /\ i.to = Net!Dpdk(i.to.at) /\ i.to.at \in dpdkBound
       /\ \A c \in Cards : pciOf[c] = i.to.at => NamedFor(c, i.bridge)
  ELSE /\ i.to = Net!Nic(i.to.at)
       /\ \A c \in Cards : c = i.to.at => NamedFor(c, i.bridge)

NetTypes ==
  /\ DOMAIN slot = Cards /\ DOMAIN pciOf = Cards /\ DOMAIN dataPort = Cards \cup {Net!Bond}
  /\ dpdk \in BOOLEAN /\ dpdkBonds \subseteq Cards /\ Net!OnBridges \cap dpdkBonds = {}

PortAddresses ==
  /\ \A c, d \in Net!Present : slot[c] = slot[d] => c = d
  /\ \A c \in Cards : pciOf[c] # "" => pciOf[c] \in dpdkBound
  /\ \A c, d \in Cards : pciOf[c] = pciOf[d] /\ pciOf[c] # "" => c = d
  /\ \A c \in Net!Present : slot[c] \in dpdkBound => pciOf[c] = slot[c]

Connected(c) == \E i \in interfaces : c \in Net!Reached(i.to) /\ i.bridge = Net!Bridge(c)

PortHazards == Net!NetHazards \ {"unmapped"}

PortsInv ==
  Net!Spared(PortHazards) =>
    /\ NetTypes /\ PortAddresses
    /\ ~dpdk => dpdkBound = {}
    /\ \A i \in interfaces : LeadsRight(i)
    /\ half => ~netDone
    /\ half /\ dpdk => \A c \in Known \cap Net!Present : pciOf[c] = slot[c] /\ slot[c] \in dpdkBound
    /\ netDone /\ netKind = "ports" =>
         \A c \in Net!Present : Net!Bridge(c) # "" => Connected(c)

(* What is known when the hook begins, and what it has then bound. *)
LEMMA DevicesBound ==
  ASSUME NetTypes, PortAddresses, dpdk, Net!Spared({"upper_case"}), Net!DPDKDeviceContext,
         \A i \in interfaces : LeadsRight(i)
  PROVE  /\ PortAddresses' /\ \A i \in interfaces : LeadsRight(i)'
         /\ \A c \in Known \cap Net!Present : pciOf'[c] = slot[c] /\ slot[c] \in dpdkBound'
<1>1. /\ pciOf' = [c \in Cards |-> IF c \in Known THEN Net!Stored[c] ELSE pciOf[c]]
      /\ dpdkBound' = dpdkBound \cup Net!resolve_pci_from_mapping_config(Known)
      /\ UNCHANGED <<slot, dataPort, dpdkBonds, dpdk, interfaces>>
  BY DEF Net!DPDKDeviceContext, Known
<1>2. Known \subseteq Cards
  BY DEF Known, Net!OnBridges, NetTypes
<1>3. \A c \in Cards : Net!get_device_from_mac(c) = IF c \in Net!Visible THEN slot[c] ELSE ""
  BY DEF Net!get_device_from_mac, Net!Spared
<1>4. \A c \in Cards : /\ c \in Net!Present <=> slot[c] # ""
                       /\ c \in Net!Visible <=> slot[c] # "" /\ slot[c] \notin dpdkBound
  BY DEF Net!Visible, Net!Present
<1>5. \A c \in Cards : pciOf'[c] = IF c \in Known /\ c \in Net!Visible THEN slot[c] ELSE pciOf[c]
  BY <1>1, <1>3, <1>4 DEF Net!Stored
<1>6. \A a : a \in dpdkBound' <=> a \in dpdkBound \/ \E c \in Known : a = pciOf'[c] /\ a # ""
  BY <1>1, <1>2 DEF Net!resolve_pci_from_mapping_config
<1>7. \A a : a \in dpdkBound' <=> a \in dpdkBound \/ \E c \in Known : c \in Net!Visible /\ a = slot[c]
  <2>1. ASSUME NEW c \in Known PROVE c \in Cards /\ (c \notin Net!Visible => pciOf'[c] = pciOf[c])
                                     /\ (c \in Net!Visible => pciOf'[c] = slot[c] /\ slot[c] # "")
    BY <1>2, <1>4, <1>5
  <2>2. \A c \in Cards : pciOf[c] # "" => pciOf[c] \in dpdkBound
    BY DEF PortAddresses
  <2> QED  BY <1>6, <2>1, <2>2
<1>8. Net!Present' = Net!Present /\ Known' = Known
  BY <1>1 DEF Net!Present, Known, Net!OnBridges
<1>9. PortAddresses'
  <2>1. \A c \in Cards : pciOf'[c] # "" => pciOf'[c] \in dpdkBound'
    BY <1>4, <1>5, <1>7 DEF PortAddresses
  <2>2. \A c, d \in Cards : pciOf'[c] = pciOf'[d] /\ pciOf'[c] # "" => c = d
    BY <1>4, <1>5 DEF PortAddresses
  <2>3. \A c \in Net!Present : slot[c] \in dpdkBound' => pciOf'[c] = slot[c]
    <3> SUFFICES ASSUME NEW c \in Net!Present, slot[c] \in dpdkBound' PROVE pciOf'[c] = slot[c]
      OBVIOUS
    <3>1. c \in Cards /\ slot[c] # ""
      BY DEF Net!Present
    <3>2. CASE slot[c] \in dpdkBound
      BY <1>4, <1>5, <3>1, <3>2 DEF PortAddresses
    <3>3. CASE slot[c] \notin dpdkBound
      <4>1. PICK d \in Known : d \in Net!Visible /\ slot[c] = slot[d]
        BY <1>7, <3>3
      <4>2. d = c
        BY <1>2, <1>4, <3>1, <4>1 DEF PortAddresses
      <4> QED  BY <1>5, <3>1, <4>1, <4>2
    <3> QED  BY <3>2, <3>3
  <2> QED  BY <1>1, <1>8, <2>1, <2>2, <2>3 DEF PortAddresses
<1>10. ASSUME NEW i \in interfaces PROVE LeadsRight(i)'
  <2>1. LeadsRight(i) /\ i.to.at \in dpdkBound
    BY DEF LeadsRight
  <2>2. \A c \in Cards : pciOf'[c] = i.to.at => pciOf[c] = i.to.at
    BY <1>4, <1>5, <2>1
  <2>3. \A c, b : NamedFor(c, b)' <=> NamedFor(c, b)
    BY <1>1, <1>8 DEF NamedFor, Net!Bridge
  <2> QED  BY <1>1, <1>7, <2>1, <2>2, <2>3 DEF LeadsRight, Net!Dpdk
<1>11. \A c \in Known \cap Net!Present : pciOf'[c] = slot[c] /\ slot[c] \in dpdkBound'
  BY <1>2, <1>4, <1>5, <1>7 DEF PortAddresses
<1> QED  BY <1>9, <1>10, <1>11

LEMMA ReachedKnown ==
  ASSUME PortAddresses, NEW i \in interfaces, NEW c \in Net!Reached(i.to), LeadsRight(i)
  PROVE  c \in Net!Present /\ NamedFor(c, i.bridge)
<1>1. CASE dpdk
  <2>1. i.to.type = "dpdk"
    BY <1>1 DEF LeadsRight, Net!Dpdk
  <2>2. c \in Net!Present /\ slot[c] = i.to.at /\ slot[c] \in dpdkBound
    BY <2>1 DEF Net!Reached
  <2>3. c \in Cards /\ pciOf[c] = i.to.at
    BY <2>2 DEF PortAddresses, Net!Present
  <2> QED  BY <1>1, <2>2, <2>3 DEF LeadsRight
<1>2. CASE ~dpdk
  <2>1. i.to.type = "system"
    BY <1>2 DEF LeadsRight, Net!Nic
  <2>2. c \in Net!Visible /\ c = i.to.at
    BY <2>1 DEF Net!Reached
  <2> QED  BY <1>2, <2>2 DEF LeadsRight, Net!Visible, Net!Present
<1> QED  BY <1>1, <1>2

(* What the service makes of the cards. *)
LEMMA InterfaceOf ==
  ASSUME NetTypes, PortAddresses, Net!Spared({"upper_case"}), NEW c \in Known,
         ~dpdk => dpdkBound = {},
         dpdk => \A d \in Known \cap Net!Present : pciOf[d] = slot[d] /\ slot[d] \in dpdkBound
  PROVE  /\ dpdk => Net!Interface(c) = IF pciOf[c] # "" THEN {Net!Dpdk(pciOf[c])} ELSE {}
         /\ ~dpdk => Net!Interface(c) = IF c \in Net!Present THEN {Net!Nic(c)} ELSE {}
         /\ c \in Cards /\ (dpdk /\ c \in Net!Present => pciOf[c] # "" /\ pciOf[c] = slot[c])
<1>1. c \in Cards
  BY DEF Known, NetTypes, Net!OnBridges
<1>2. c \in Net!Visible <=> c \in Net!Present /\ slot[c] \notin dpdkBound
  BY DEF Net!Visible
<1>3. "upper_case" \notin netExposed
  BY DEF Net!Spared
<1>4. c \in Net!Present => slot[c] # ""
  BY DEF Net!Present
<1> QED  BY <1>1, <1>2, <1>3, <1>4 DEF Net!Interface

LEMMA PortsConfigured ==
  ASSUME NamedCards, NetTypes, PortAddresses, Net!Spared({"upper_case"}), Net!ConfigurePorts,
         \A i \in interfaces : LeadsRight(i), ~dpdk => dpdkBound = {},
         dpdk => \A d \in Known \cap Net!Present : pciOf[d] = slot[d] /\ slot[d] \in dpdkBound
  PROVE  /\ \A i \in interfaces' : LeadsRight(i)
         /\ netDone' # netDone => /\ netDone'
                                  /\ \A c \in Net!Present : Net!Bridge(c) # "" =>
                                       \E i \in interfaces' : /\ c \in Net!Reached(i.to)
                                                              /\ i.bridge = Net!Bridge(c)
<1> DEFINE map == Net!BridgePortInterfaceMap
<1>1. map = Net!CardPorts \cup (IF dpdk /\ dataPort[Net!Bond] # "" THEN Net!BondPorts ELSE {})
  BY DEF Net!BridgePortInterfaceMap
<1>2. \A i : i \in Net!CardPorts <=> \E c \in Net!OnBridges : \E to \in Net!Interface(c) :
                                       i = [bridge |-> dataPort[c], port |-> to, to |-> to]
  BY DEF Net!CardPorts
<1>3. \A i : i \in Net!BondPorts <=> \E c \in dpdkBonds : \E to \in Net!Interface(c) :
                 i = [bridge |-> dataPort[Net!Bond], port |-> Net!Nic(Net!Bond), to |-> to]
  BY DEF Net!BondPorts
<1> HIDE DEF map
<1>4. /\ interfaces' = interfaces \cup map /\ netDone' = TRUE
      \/ UNCHANGED <<interfaces, netDone>>
  BY DEF Net!ConfigurePorts, map
<1>5. ASSUME NEW i \in map
      PROVE  \E c \in Known : i.to \in Net!Interface(c) /\ NamedFor(c, i.bridge)
  <2>1. CASE \E c \in Net!OnBridges : \E to \in Net!Interface(c) : i = [bridge |-> dataPort[c], port |-> to, to |-> to]
    <3>1. PICK c \in Net!OnBridges : \E to \in Net!Interface(c) : i = [bridge |-> dataPort[c], port |-> to, to |-> to]
      BY <2>1
    <3>2. c \in Known /\ c \notin dpdkBonds /\ dataPort[c] # ""
      BY DEF Known, NetTypes, Net!OnBridges
    <3>3. i.to \in Net!Interface(c) /\ i.bridge = dataPort[c]
      BY <3>1
    <3> QED  BY <3>2, <3>3 DEF NamedFor, Net!Bridge
  <2>2. CASE /\ dpdk /\ dataPort[Net!Bond] # ""
             /\ \E c \in dpdkBonds : \E to \in Net!Interface(c) :
                  i = [bridge |-> dataPort[Net!Bond], port |-> Net!Nic(Net!Bond), to |-> to]
    <3>1. PICK c \in dpdkBonds : \E to \in Net!Interface(c) :
                  i = [bridge |-> dataPort[Net!Bond], port |-> Net!Nic(Net!Bond), to |-> to]
      BY <2>2
    <3>2. c \in Known
      BY DEF Known
    <3>3. i.to \in Net!Interface(c) /\ i.bridge = dataPort[Net!Bond]
      BY <3>1
    <3> QED  BY <2>2, <3>2, <3>3 DEF NamedFor, Net!Bridge
  <2> QED  BY <1>1, <1>2, <1>3, <2>1, <2>2
<1>6. ASSUME NEW i \in map PROVE LeadsRight(i)
  <2>1. PICK c \in Known : i.to \in Net!Interface(c) /\ NamedFor(c, i.bridge)
    BY <1>5
  <2>2. CASE dpdk
    <3>1. c \in Cards /\ pciOf[c] # "" /\ i.to = Net!Dpdk(pciOf[c])
      BY <2>1, <2>2, InterfaceOf
    <3>2. Net!Dpdk(pciOf[c]).at = pciOf[c]
      BY DEF Net!Dpdk
    <3>3. i.to.at = pciOf[c]
      BY <3>1, <3>2
    <3>4. i.to.at \in dpdkBound /\ \A d \in Cards : pciOf[d] = i.to.at => d = c
      BY <3>1, <3>3 DEF PortAddresses
    <3>5. /\ i.to = Net!Dpdk(i.to.at) /\ i.to.at \in dpdkBound
          /\ \A d \in Cards : pciOf[d] = i.to.at => NamedFor(d, i.bridge)
      BY <2>1, <3>1, <3>3, <3>4
    <3> QED  BY <2>2, <3>5, ZenonT(30) DEF LeadsRight
  <2>3. CASE ~dpdk
    <3>1. i.to = Net!Nic(c)
      BY <2>1, <2>3, InterfaceOf
    <3>2. i.to.at = c
      BY <3>1 DEF Net!Nic
    <3> QED  BY <2>1, <2>3, <3>1, <3>2 DEF LeadsRight
  <2> QED  BY <2>2, <2>3
<1>7. ASSUME interfaces' = interfaces \cup map, NEW c \in Net!Present, Net!Bridge(c) # ""
      PROVE  \E i \in interfaces' : c \in Net!Reached(i.to) /\ i.bridge = Net!Bridge(c)
  <2>0. c \in Cards /\ c \in Known
    BY <1>7 DEF Net!Present, Net!Bridge, Known, Net!OnBridges
  <2>1. \A to \in Net!Interface(c) : \E i \in map : i.to = to /\ i.bridge = Net!Bridge(c)
    <3> SUFFICES ASSUME NEW to \in Net!Interface(c) PROVE \E i \in map : i.to = to /\ i.bridge = Net!Bridge(c)
      OBVIOUS
    <3>1. CASE c \in Net!OnBridges
      <4> DEFINE i == [bridge |-> dataPort[c], port |-> to, to |-> to]
      <4>1. i \in map
        BY <1>1, <1>2, <3>1
      <4>2. i.to = to /\ i.bridge = Net!Bridge(c)
        BY <3>1 DEF Net!Bridge, NetTypes
      <4> QED  BY <4>1, <4>2
    <3>2. CASE c \in dpdkBonds
      <4> DEFINE i == [bridge |-> dataPort[Net!Bond], port |-> Net!Nic(Net!Bond), to |-> to]
      <4>1. dpdk /\ dataPort[Net!Bond] = Net!Bridge(c)
        BY <1>7, <3>2 DEF Net!Bridge, NetTypes
      <4>2. i \in map
        BY <1>7, <1>1, <1>3, <3>2, <4>1
      <4>3. i.to = to /\ i.bridge = Net!Bridge(c)
        BY <4>1
      <4> QED  BY <4>2, <4>3
    <3> QED  BY <2>0, <3>1, <3>2 DEF Known
  <2>2. CASE dpdk
    <3>1. pciOf[c] = slot[c] /\ slot[c] \in dpdkBound /\ Net!Dpdk(slot[c]) \in Net!Interface(c)
      BY <2>0, <2>2, InterfaceOf
    <3>2. c \in Net!Reached(Net!Dpdk(slot[c]))
      BY <3>1 DEF Net!Reached, Net!Dpdk
    <3> QED  BY <1>7, <2>1, <3>1, <3>2
  <2>3. CASE ~dpdk
    <3>1. c \in Net!Visible /\ Net!Nic(c) \in Net!Interface(c)
      BY <2>0, <2>3, InterfaceOf DEF Net!Visible
    <3>2. c \in Net!Reached(Net!Nic(c))
      BY <3>1 DEF Net!Reached, Net!Nic
    <3> QED  BY <1>7, <2>1, <3>1, <3>2
  <2> QED  BY <2>2, <2>3
<1> QED  BY <1>4, <1>6, <1>7

LEMMA PortsInvStep ==
  ASSUME NamedCards, NetApart, PortsInv, [Net!NetNext]_Net!netVars
  PROVE  PortsInv'
<1>0. netKind' = netKind /\ netExposed' = netExposed
  BY NetApartSteps DEF NetSteps
<1> SUFFICES ASSUME Net!Spared(PortHazards) PROVE PortsInv'
  BY <1>0 DEF PortsInv, Net!Spared
<1>1. /\ NetTypes /\ PortAddresses
      /\ ~dpdk => dpdkBound = {}
      /\ \A i \in interfaces : LeadsRight(i)
      /\ half => ~netDone
      /\ half /\ dpdk => \A c \in Known \cap Net!Present : pciOf[c] = slot[c] /\ slot[c] \in dpdkBound
      /\ netDone /\ netKind = "ports" =>
           \A c \in Net!Present : Net!Bridge(c) # "" => Connected(c)
  BY DEF PortsInv
<1>2. /\ Net!Spared({"upper_case"}) /\ "moved_bridge" \notin netExposed
      /\ "enabled_later" \notin netExposed /\ "bond_changes" \notin netExposed
      /\ "slot_reused" \notin netExposed
  BY DEF Net!Spared, PortHazards, Net!NetHazards
<1>3. ASSUME UNCHANGED Net!Hardware, netKind = "ports" => netDone' = netDone, half => ~netDone' PROVE PortsInv'
  <2>1. UNCHANGED <<slot, dpdkBound, dataPort, dpdkBonds, dpdk, pciOf, interfaces, half>>
    BY <1>3 DEF Net!Hardware
  <2>2. /\ NetTypes' /\ PortAddresses' /\ Net!Present' = Net!Present /\ Known' = Known
        /\ Net!Visible' = Net!Visible
    BY <1>1, <2>1 DEF NetTypes, PortAddresses, Net!Present, Net!Visible, Known, Net!OnBridges
  <2>3. ASSUME NEW c PROVE Net!Bridge(c)' = Net!Bridge(c)
    BY <2>1 DEF Net!Bridge
  <2>4. ASSUME NEW i PROVE Net!Reached(i)' = Net!Reached(i)
    BY <2>1, <2>2 DEF Net!Reached
  <2>5. \A c : Connected(c)' <=> Connected(c)
    BY <2>1, <2>3, <2>4 DEF Connected
  <2>6. \A i \in interfaces : LeadsRight(i)'
    BY <1>1, <2>1, <2>2, <2>3 DEF LeadsRight, NamedFor
  <2> QED  BY <1>0, <1>1, <1>3, <2>1, <2>2, <2>3, <2>5, <2>6 DEF PortsInv
<1>4. CASE Net!DPDKDeviceContext
  <2>1. /\ UNCHANGED <<slot, dataPort, dpdkBonds, dpdk, interfaces, netDone>> /\ ~netDone
        /\ ~dpdk => UNCHANGED <<pciOf, dpdkBound>>
        /\ dpdk => DOMAIN pciOf' = Cards
    BY <1>4 DEF Net!DPDKDeviceContext
  <2>2. NetTypes' /\ Known' = Known /\ Net!Present' = Net!Present
    BY <1>1, <2>1 DEF NetTypes, Known, Net!OnBridges, Net!Present
  <2>3. CASE dpdk
    <3>1. /\ PortAddresses' /\ \A i \in interfaces : LeadsRight(i)'
          /\ \A c \in Known \cap Net!Present : pciOf'[c] = slot[c] /\ slot[c] \in dpdkBound'
      BY <1>1, <1>2, <1>4, <2>3, DevicesBound
    <3> QED  BY <2>1, <2>2, <2>3, <3>1 DEF PortsInv
  <2>4. CASE ~dpdk
    <3>1. PortAddresses'
      BY <1>1, <2>1, <2>2, <2>4 DEF PortAddresses
    <3>2. ASSUME NEW c PROVE Net!Bridge(c)' = Net!Bridge(c)
      BY <2>1 DEF Net!Bridge
    <3>3. \A i \in interfaces : LeadsRight(i)'
      BY <1>1, <2>1, <2>2, <2>4, <3>2 DEF LeadsRight, NamedFor
    <3> QED  BY <1>1, <2>1, <2>2, <2>4, <3>1, <3>3 DEF PortsInv
  <2> QED  BY <2>3, <2>4
<1>5. CASE Net!ConfigurePorts
  <2>1. /\ UNCHANGED <<slot, dpdkBound, dataPort, dpdkBonds, dpdk, pciOf>> /\ half /\ ~half'
    BY <1>5 DEF Net!ConfigurePorts
  <2>2. /\ NetTypes' /\ PortAddresses' /\ Known' = Known /\ Net!Present' = Net!Present
        /\ Net!Visible' = Net!Visible
    BY <1>1, <2>1 DEF NetTypes, PortAddresses, Known, Net!OnBridges, Net!Present, Net!Visible
  <2>3. ASSUME NEW c PROVE Net!Bridge(c)' = Net!Bridge(c)
    BY <2>1 DEF Net!Bridge
  <2>4. ASSUME NEW i PROVE Net!Reached(i)' = Net!Reached(i)
    BY <2>1, <2>2 DEF Net!Reached
  <2>5. /\ \A i \in interfaces' : LeadsRight(i)
        /\ netDone' # netDone => /\ netDone'
                                 /\ \A c \in Net!Present : Net!Bridge(c) # "" =>
                                      \E i \in interfaces' : /\ c \in Net!Reached(i.to)
                                                             /\ i.bridge = Net!Bridge(c)
    BY <1>1, <1>2, <1>5, <2>1, PortsConfigured
  <2>6. \A i : LeadsRight(i)' <=> LeadsRight(i)
    BY <2>1, <2>2, <2>3 DEF LeadsRight, NamedFor
  <2>7. \A c \in Net!Present : netDone' /\ Net!Bridge(c)' # "" => Connected(c)'
    BY <1>1, <2>1, <2>3, <2>4, <2>5 DEF Connected
  <2> QED  BY <1>1, <2>1, <2>2, <2>5, <2>6, <2>7 DEF PortsInv
<1>6. CASE Net!EnableDpdk
  <2>1. /\ UNCHANGED <<slot, dpdkBound, dataPort, dpdkBonds, pciOf, interfaces>> /\ dpdk' = ~dpdk
        /\ ~half' /\ ~netDone' /\ interfaces = {} /\ dpdkBound = {}
    BY <1>2, <1>6 DEF Net!EnableDpdk, Net!Change
  <2>2. NetTypes' /\ PortAddresses'
    BY <1>1, <2>1 DEF NetTypes, PortAddresses, Net!OnBridges, Net!Present
  <2> QED  BY <2>1, <2>2 DEF PortsInv
<1>7. ASSUME NEW d \in Cards, NEW b \in Bridges \cup {""}, Net!NameCard(d, b) PROVE PortsInv'
  <2>1. /\ UNCHANGED <<slot, dpdkBound, dpdkBonds, dpdk, pciOf, interfaces>>
        /\ dataPort' = [dataPort EXCEPT ![d] = b] /\ dataPort[d] = "" /\ d \notin dpdkBonds
        /\ ~half' /\ ~netDone' /\ b # ""
    BY <1>2, <1>7 DEF Net!NameCard, Net!Change
  <2>2. /\ dataPort'[d] = b /\ \A c \in (Cards \cup {Net!Bond}) \ {d} : dataPort'[c] = dataPort[c]
        /\ DOMAIN dataPort' = Cards \cup {Net!Bond} /\ d # Net!Bond /\ d \notin Known
    BY <1>1, <2>1 DEF NetTypes, Known, Net!OnBridges, NamedCards
  <2>3. Net!OnBridges' = Net!OnBridges \cup {d} /\ Known' = Known \cup {d}
    BY <2>1, <2>2 DEF Net!OnBridges, Known
  <2>a. PortAddresses'
    BY <1>1, <2>1 DEF PortAddresses, Net!Present
  <2>b. NetTypes'
    <3>1. (Net!OnBridges \cup {d}) \cap dpdkBonds = {}
      BY <1>1, <2>1 DEF NetTypes
    <3>2. Net!OnBridges' \cap dpdkBonds' = {}
      BY <2>1, <2>3, <3>1
    <3> QED  BY <1>1, <2>1, <2>2, <3>2 DEF NetTypes
  <2>4. NetTypes' /\ PortAddresses'
    BY <2>a, <2>b
  <2>5. \A c \in Known : Net!Bridge(c)' = Net!Bridge(c)
    <3> SUFFICES ASSUME NEW c \in Known PROVE Net!Bridge(c)' = Net!Bridge(c)
      OBVIOUS
    <3>1. c \in Cards \ {d}
      BY <1>1, <2>2 DEF Known, Net!OnBridges, NetTypes
    <3> QED  BY <2>1, <2>2, <3>1 DEF Net!Bridge
  <2>6. \A i \in interfaces : LeadsRight(i)'
    BY <1>1, <2>1, <2>3, <2>5 DEF LeadsRight, NamedFor
  <2> QED  BY <1>1, <2>1, <2>4, <2>6 DEF PortsInv
<1>8. ASSUME NEW cards \in SUBSET Cards, NEW b \in Bridges, Net!NameBond(cards, b) PROVE PortsInv'
  <2>1. /\ UNCHANGED <<slot, dpdkBound, dpdk, pciOf, interfaces>>
        /\ dataPort' = [dataPort EXCEPT ![Net!Bond] = b] /\ dpdkBonds = {} /\ dpdkBonds' = cards
        /\ cards \cap Net!OnBridges = {} /\ ~half' /\ ~netDone'
    BY <1>2, <1>8 DEF Net!NameBond, Net!Change
  <2>2. /\ \A c \in Cards : dataPort'[c] = dataPort[c]
        /\ DOMAIN dataPort' = Cards \cup {Net!Bond}
    BY <1>1, <2>1 DEF NetTypes, NamedCards
  <2>3. Net!OnBridges' = Net!OnBridges /\ Known = Net!OnBridges /\ Known' = Known \cup cards
    BY <2>1, <2>2 DEF Net!OnBridges, Known
  <2>4. NetTypes' /\ PortAddresses'
    BY <1>1, <2>1, <2>2, <2>3 DEF NetTypes, PortAddresses, Net!Present
  <2>5. \A c \in Known : Net!Bridge(c)' = Net!Bridge(c)
    BY <2>1, <2>2, <2>3 DEF Net!Bridge, Net!OnBridges
  <2>6. \A i \in interfaces : LeadsRight(i)'
    BY <1>1, <2>1, <2>3, <2>5 DEF LeadsRight, NamedFor
  <2> QED  BY <1>1, <2>1, <2>4, <2>6 DEF PortsInv
<1>9. ASSUME NEW d \in Cards, NEW s \in Slots \cup {""}, Net!MoveCard(d, s) PROVE PortsInv'
  <2>1. /\ UNCHANGED <<dpdkBound, dataPort, dpdkBonds, dpdk, pciOf, interfaces>>
        /\ slot' = [slot EXCEPT ![d] = s] /\ s \notin dpdkBound
        /\ \A c \in Cards : s # "" => slot[c] # s
        /\ ~half' /\ ~netDone'
    BY <1>2, <1>9 DEF Net!MoveCard, Net!Change
  <2>2. DOMAIN slot' = Cards /\ slot'[d] = s /\ \A c \in Cards \ {d} : slot'[c] = slot[c]
    BY <1>1, <2>1 DEF NetTypes
  <2>3. NetTypes' /\ Known' = Known
    BY <1>1, <2>1, <2>2 DEF NetTypes, Known, Net!OnBridges
  <2>4. PortAddresses'
    <3>1. \A c \in Cards : c \in Net!Present' <=> slot'[c] # ""
      BY DEF Net!Present
    <3>2. \A c \in Cards : c \in Net!Present <=> slot[c] # ""
      BY DEF Net!Present
    <3>3. Net!Present' \subseteq Cards
      BY DEF Net!Present
    <3>4. \A c, e \in Net!Present' : slot'[c] = slot'[e] => c = e
      <4> SUFFICES ASSUME NEW c \in Net!Present', NEW e \in Net!Present', slot'[c] = slot'[e], c # e
                   PROVE  FALSE
        OBVIOUS
      <4>1. c \in Cards /\ e \in Cards /\ slot'[c] # ""
        BY <3>1, <3>3
      <4>2. CASE c # d /\ e # d
        BY <1>1, <2>2, <3>2, <4>1, <4>2 DEF PortAddresses
      <4>3. CASE c = d \/ e = d
        BY <2>1, <2>2, <4>1, <4>3
      <4> QED  BY <4>2, <4>3
    <3>5. \A c \in Net!Present' : slot'[c] \in dpdkBound => pciOf[c] = slot'[c]
      BY <1>1, <2>1, <2>2, <3>1, <3>2, <3>3 DEF PortAddresses
    <3> QED  BY <1>1, <2>1, <3>4, <3>5 DEF PortAddresses
  <2>5. ASSUME NEW c PROVE Net!Bridge(c)' = Net!Bridge(c)
    BY <2>1 DEF Net!Bridge
  <2>6. \A i \in interfaces : LeadsRight(i)'
    BY <1>1, <2>1, <2>3, <2>5 DEF LeadsRight, NamedFor
  <2> QED  BY <1>1, <2>1, <2>3, <2>4, <2>6 DEF PortsInv
<1>10. CASE UNCHANGED Net!netVars
  BY <1>1, <1>3, <1>10 DEF Net!netVars, Net!Hardware
<1>11. CASE netKind = "vfs" /\ VFsStep /\ UNCHANGED Net!Hardware
  BY <1>3, <1>11 DEF NetApart
<1>12. CASE netKind = "veth" /\ VethStep /\ UNCHANGED Net!Hardware
  BY <1>3, <1>12 DEF NetApart
<1> QED  BY <1>4, <1>5, <1>6, <1>7, <1>8, <1>9, <1>10, <1>11, <1>12, NetApartSteps DEF NetSteps, PortsStep

-----------------------------------------------------------------------------
NetInv == NetApart /\ VFsInv /\ VethInv /\ PortsInv

LEMMA NetInvInit == NamedCards /\ Net!NetInit => NetInv
<1> SUFFICES ASSUME NamedCards, Net!NetInit PROVE NetInv
  OBVIOUS
<1>1. /\ netKind \in {"ports", "vfs", "veth"} /\ interfaces = {} /\ dpdkBonds = {} /\ ~half /\ ~netDone
      /\ dataPort = [c \in Cards \cup {Net!Bond} |-> ""] /\ dpdkBound = {} /\ dpdk \in BOOLEAN
      /\ pciOf = [c \in Cards |-> ""] /\ numvfs.mode = "" /\ vfs = [c \in Cards |-> 0]
      /\ deployed = ini
  BY DEF Net!NetInit
<1>2. PICK s \in Slots, d \in Cards : slot = [c \in Cards |-> IF c = d THEN s ELSE ""]
  BY DEF Net!NetInit
<1>3. NetApart
  BY <1>1 DEF NetApart
<1>4. VFsInv /\ VethInv
  BY <1>1 DEF VFsInv, VethInv
<1>5. NetTypes
  BY <1>1, <1>2 DEF NetTypes, Net!OnBridges
<1>6. PortAddresses
  BY <1>1, <1>2 DEF PortAddresses, Net!Present
<1> QED  BY <1>1, <1>3, <1>4, <1>5, <1>6 DEF NetInv, PortsInv

LEMMA NetInvStep == NamedCards /\ NetInv /\ [Net!NetNext]_Net!netVars => NetInv'
<1> SUFFICES ASSUME NamedCards, NetInv, [Net!NetNext]_Net!netVars PROVE NetInv'
  OBVIOUS
<1>1. NetApart'
  BY NetApartSteps DEF NetSteps, NetInv
<1> QED  BY <1>1, VFsInvStep, VethInvStep, PortsInvStep DEF NetInv

LEMMA NetInvNamed == NetInv => Net!DevicesAsNamed
<1> SUFFICES ASSUME NetInv, netDone PROVE Net!DevicesAsNamed
  BY DEF Net!DevicesAsNamed
<1>1. ASSUME Net!Spared(PortHazards), NEW c \in Net!Present
      PROVE  LET ways == {i \in interfaces : c \in Net!Reached(i.to)}
             IN  /\ {i.bridge : i \in ways} = {Net!Bridge(c)} \ {""}
                 /\ \A i \in ways : i.to.type = IF dpdk THEN "dpdk" ELSE "system"
  <2> DEFINE ways == {i \in interfaces : c \in Net!Reached(i.to)}
  <2>1. /\ PortAddresses /\ \A i \in interfaces : LeadsRight(i)
        /\ netKind = "ports" => (Net!Bridge(c) # "" => Connected(c))
    BY <1>1 DEF NetInv, PortsInv
  <2>2. \A i \in ways : NamedFor(c, i.bridge)
    BY <2>1, ReachedKnown
  <2>3. Net!Bridge(c) # "" => netKind = "ports"
    BY DEF NetInv, NetApart, Net!Bridge, Net!Present
  <2>4. Net!Bridge(c) # "" => \E i \in ways : i.bridge = Net!Bridge(c)
    BY <2>1, <2>3 DEF Connected
  <2>5. {i.bridge : i \in ways} = {Net!Bridge(c)} \ {""}
    BY <2>2, <2>4 DEF NamedFor
  <2>6. \A i \in ways : i.to.type = IF dpdk THEN "dpdk" ELSE "system"
    <3>1. \A a : Net!Dpdk(a).type = "dpdk" /\ Net!Nic(a).type = "system"
      BY DEF Net!Dpdk, Net!Nic
    <3> QED  BY <2>1, <3>1 DEF LeadsRight
  <2> QED  BY <2>5, <2>6
<1>2. ASSUME netKind = "vfs", Net!Spared({"unmapped"}), NEW c \in Net!Present
      PROVE  vfs[c] = IF Net!Determined(c) THEN Net!_determine_numvfs(c) ELSE 0
  BY <1>2 DEF NetInv, VFsInv, Net!Differs, Net!Present
<1>3. ASSUME netKind = "veth"
      PROVE  ini = deployed /\ (useVeth \in {"", ini} \/ Net!validate_ovs_use_veth)
  BY <1>3 DEF NetInv, VethInv, Net!validate_ovs_use_veth
<1> QED  BY <1>1, <1>2, <1>3 DEF Net!DevicesAsNamed, PortHazards

(* What the options say of the network reaches its devices: a card that is *)
(* named is a port of its bridge and of no other, wherever it was moved,   *)
(* cards have the virtual functions asked for as far as they can, and the  *)
(* DHCP agent keeps the kind of interface it was deployed with.            *)
THEOREM DevicesAreAsNamed == DeploymentSpec => []DevicesAsNamed
<1>1. DeploymentInit => (part = "net" => NetInv)
  BY Starts, NetInvInit, NetAssumption
<1>2. (part = "net" => NetInv) /\ [DeploymentNext]_deploymentVars => (part = "net" => NetInv)'
  BY Steps, NetInvStep, NetAssumption
<1>3. (part = "net" => NetInv) => DevicesAsNamed
  BY NetInvNamed DEF DevicesAsNamed
<1> QED  BY <1>1, <1>2, <1>3, PTL DEF DeploymentSpec
-----------------------------------------------------------------------------
(***************************************************************************)
(* PackageSources.  The files of apt are at most the one that the option's *)
(* source is in, so that the release on offer is the source's or Ubuntu's; *)
(* and unless dist-upgrade is to run, the newest one is installed.         *)
(***************************************************************************)
Releases == Nat \ {0}

ReleaseOf(src) == IF src.form \in {"distro", "proposed"} THEN Distro[Series] ELSE src.release

(* A source that no hazard is needed for, as the operator names it. *)
Named(src) ==
  /\ src.form \in {"distro", "proposed", "ppa", "bare", "cloud"}
  /\ src.form \in {"ppa", "bare", "cloud"} => src.release \in Releases
  /\ src.form = "cloud" => src.series # "" /\ src.pocket # "updates"
  /\ src.form = "bare" => src.pocket # "proposed"

OneFileAtMost ==
  /\ DOMAIN lists \subseteq {Packages!File(origin)} \ {"none", "error"}
  /\ \A f \in DOMAIN lists : lists[f] \in Releases

Todos == {<< >>, <<"source", "update", "dist-upgrade">>, <<"update", "dist-upgrade">>,
          <<"dist-upgrade">>}

TodoOk(todo) ==
  /\ Head(todo) \in {"source", "update", "dist-upgrade"} /\ Tail(todo) \in Todos
  /\ Head(todo) = "source" <=> todo = <<"source", "update", "dist-upgrade">>
  /\ Head(todo) = "update" <=> todo = <<"update", "dist-upgrade">> /\ Tail(todo) = <<"dist-upgrade">>
  /\ Head(todo) = "dist-upgrade" <=> todo = <<"dist-upgrade">> /\ Tail(todo) = << >>

PkgInv ==
  Packages!Spared(Packages!SourceHazards) =>
    /\ Named(origin)
    /\ OneFileAtMost
    /\ \E r \in Releases : index = {Distro[Series], r}
    /\ pkg \in Nat /\ job.todo \in Todos /\ job = [todo |-> job.todo, tries |-> job.tries]
    /\ pkg = 0 => orel = 0 /\ job.todo = << >>
    /\ pkg # 0 /\ job.todo # <<"dist-upgrade">> => pkg = Packages!Newest(index) /\ orel \in {0, pkg}

LEMMA TwoReleases ==
  ASSUME NEW a \in Releases, NEW b \in Releases
  PROVE  Packages!Newest({a, b}) = IF a > b THEN a ELSE b
<1> DEFINE m == IF a > b THEN a ELSE b
<1>1. m \in {a, b} /\ \A q \in {a, b} : q <= m
  BY DEF Releases
<1>2. \A r \in {a, b} : (\A q \in {a, b} : q <= r) => r = m
  BY <1>1 DEF Releases
<1> QED  BY <1>1, <1>2 DEF Packages!Newest

(* Configured, a source that can be is in its file, with its release. *)
LEMMA SourceAdded ==
  ASSUME Named(origin), OneFileAtMost, Packages!Works(Packages!add_source(origin)), Released
  PROVE  LET files == Packages!add_source(origin)
         IN  /\ DOMAIN files \subseteq {Packages!File(origin)} \ {"none", "error"}
             /\ \A f \in DOMAIN files : files[f] \in Releases
             /\ Packages!Offers(files) = {Distro[Series], ReleaseOf(origin)}
             /\ ReleaseOf(origin) \in Releases
             /\ Packages!install_source(origin) = ReleaseOf(origin)
<1> DEFINE files == Packages!add_source(origin)
<1>0. /\ Distro[Series] \in Releases /\ ReleaseOf(origin) \in Releases
      /\ Packages!install_source(origin) = ReleaseOf(origin)
  BY DEF Named, Released, Releases, ReleaseOf, Packages!install_source
<1>1. CASE files = lists /\ Packages!File(origin) = "none" /\ ReleaseOf(origin) = Distro[Series]
  <2>1. DOMAIN lists = {}
    BY <1>1 DEF OneFileAtMost
  <2>2. Packages!Offers(files) = {Distro[Series]}
    BY <1>1, <2>1 DEF Packages!Offers, Packages!Range
  <2> QED  BY <1>0, <1>1, <2>1, <2>2
<1>2. CASE /\ files = Packages!With(Packages!File(origin), ReleaseOf(origin))
           /\ Packages!File(origin) \notin {"none", "error"}
  <2>1. /\ DOMAIN files = {Packages!File(origin)} /\ files[Packages!File(origin)] = ReleaseOf(origin)
    BY <1>2 DEF OneFileAtMost, Packages!With
  <2>2. Packages!Offers(files) = {Distro[Series], ReleaseOf(origin)}
    BY <2>1 DEF Packages!Offers, Packages!Range
  <2> QED  BY <1>0, <1>2, <2>1, <2>2
<1>3. files # Packages!Refused
  BY DEF Packages!Works, Packages!Refused
<1>4. CASE origin.form = "distro"
  BY <1>1, <1>4 DEF Packages!add_source, Packages!File, ReleaseOf
<1>5. CASE origin.form \in {"proposed", "ppa"}
  BY <1>2, <1>5 DEF Packages!add_source, Packages!File, ReleaseOf, Packages!_add_proposed
<1>6. CASE origin.form = "bare"
  <2>1. files = Packages!__add_bare_helper(origin.release, FALSE)
    BY <1>6 DEF Packages!add_source, Named
  <2>2. CASE <<Series, origin.release>> \in Pockets
    <3>1. files = Packages!With("cloud-archive", origin.release)
      BY <2>1, <2>2 DEF Packages!__add_bare_helper, Packages!_add_cloud_pocket
    <3> QED  BY <1>2, <1>6, <2>2, <3>1 DEF Packages!File, ReleaseOf
  <2>3. CASE <<Series, origin.release>> \notin Pockets
    <3>1. files = lists /\ Distro[Series] = origin.release
      BY <1>3, <2>1, <2>3 DEF Packages!__add_bare_helper
    <3> QED  BY <1>1, <1>6, <2>3, <3>1 DEF Packages!File, ReleaseOf
  <2> QED  BY <2>2, <2>3
<1>7. CASE origin.form = "cloud" /\ origin.pocket = "staging"
  <2>1. files = Packages!_add_cloud(origin)
    BY <1>7 DEF Packages!add_source
  <2>2. files = Packages!With("staging", origin.release)
    BY <1>3, <1>7, <2>1 DEF Packages!_add_cloud
  <2> QED  BY <1>2, <1>7, <2>2 DEF Packages!File, ReleaseOf
<1>8. CASE origin.form = "cloud" /\ origin.pocket # "staging"
  <2>1. files = Packages!_add_cloud_distro_check(origin.series, origin.release)
    BY <1>8 DEF Packages!add_source, Packages!_add_cloud, Named
  <2>2. files = Packages!With("cloud-archive", origin.release)
    BY <1>3, <2>1 DEF Packages!_add_cloud_distro_check, Packages!_add_cloud_pocket
  <2> QED  BY <1>2, <1>8, <2>2 DEF Packages!File, ReleaseOf
<1> QED  BY <1>4, <1>5, <1>6, <1>7, <1>8 DEF Named

LEMMA OneFile ==
  ASSUME OneFileAtMost, Released
  PROVE  \E r \in Releases : Packages!Offers(lists) = {Distro[Series], r}
<1>0. Distro[Series] \in Releases
  BY DEF Released, Releases
<1>1. CASE DOMAIN lists = {}
  <2>1. Packages!Offers(lists) = {Distro[Series], Distro[Series]}
    BY <1>1 DEF Packages!Offers, Packages!Range
  <2> QED  BY <1>0, <2>1
<1>2. CASE DOMAIN lists # {}
  <2>1. DOMAIN lists = {Packages!File(origin)} /\ lists[Packages!File(origin)] \in Releases
    BY <1>2 DEF OneFileAtMost
  <2>2. Packages!Offers(lists) = {Distro[Series], lists[Packages!File(origin)]}
    BY <2>1 DEF Packages!Offers, Packages!Range
  <2> QED  BY <2>1, <2>2
<1> QED  BY <1>1, <1>2

LEMMA PkgInvInit == Released /\ Packages!PkgInit => PkgInv
<1> SUFFICES ASSUME Released, Packages!PkgInit PROVE PkgInv
  OBVIOUS
<1>1. Distro[Series] \in Releases /\ index = {Distro[Series], Distro[Series]}
  BY DEF Released, Releases, Packages!PkgInit
<1>2. Packages!Newest(index) = Distro[Series]
  BY <1>1, TwoReleases
<1>3. DOMAIN lists = {}
  BY DEF Packages!PkgInit
<1> QED  BY <1>1, <1>2, <1>3 DEF PkgInv, Packages!PkgInit, Named, OneFileAtMost, Todos, Releases

LEMMA NewestReleased ==
  ASSUME Released, NEW r \in Releases, index = {Distro[Series], r}
  PROVE  Packages!Newest(index) \in Releases
BY TwoReleases DEF Released, Releases

LEMMA PkgInvStep == Released /\ PkgInv /\ [Packages!PkgNext]_Packages!pkgVars => PkgInv'
<1> SUFFICES ASSUME Released, PkgInv, [Packages!PkgNext]_Packages!pkgVars,
                    Packages!Spared(Packages!SourceHazards)'
             PROVE  PkgInv'
  BY DEF PkgInv
<1>1. UNCHANGED pkgExposed
  BY DEF Packages!PkgNext, Packages!pkgVars, Packages!SetOrigin, Packages!Install, Packages!do_action_openstack_upgrade,
     Packages!do_action_package_upgrade, Packages!Configure, Packages!_run_with_retries, Packages!Silent
<1>2. /\ pkgExposed \intersect Packages!SourceHazards = {}
      /\ Named(origin) /\ OneFileAtMost
      /\ \E r \in Releases : index = {Distro[Series], r}
      /\ pkg \in Nat /\ job.todo \in Todos /\ job = [todo |-> job.todo, tries |-> job.tries]
      /\ pkg = 0 => orel = 0 /\ job.todo = << >>
      /\ pkg # 0 /\ job.todo # <<"dist-upgrade">> => pkg = Packages!Newest(index) /\ orel \in {0, pkg}
  BY <1>1 DEF PkgInv, Packages!Spared
<1>3. Packages!Newest(index) \in Releases
  BY <1>2, NewestReleased
<1>4. \A todo \in Todos \ {<< >>} : TodoOk(todo)
  <2> SUFFICES ASSUME NEW todo \in Todos \ {<< >>} PROVE TodoOk(todo)
    BY DEF TodoOk
  <2>1. CASE todo = <<"source", "update", "dist-upgrade">>
    <3>1. Head(todo) = "source" /\ Tail(todo) = <<"update", "dist-upgrade">> /\ Len(todo) = 3
      BY <2>1
    <3>2. Len(<<"update", "dist-upgrade">>) = 2 /\ Len(<<"dist-upgrade">>) = 1
      OBVIOUS
    <3> QED  BY <2>1, <3>1, <3>2 DEF TodoOk, Todos
  <2>2. CASE todo = <<"update", "dist-upgrade">>
    <3>1. Head(todo) = "update" /\ Tail(todo) = <<"dist-upgrade">> /\ Len(todo) = 2
      BY <2>2
    <3>2. Len(<<"source", "update", "dist-upgrade">>) = 3 /\ Len(<<"dist-upgrade">>) = 1
      OBVIOUS
    <3> QED  BY <2>2, <3>1, <3>2 DEF TodoOk, Todos
  <2>3. CASE todo = <<"dist-upgrade">>
    <3>1. Head(todo) = "dist-upgrade" /\ Tail(todo) = << >> /\ Len(todo) = 1
      BY <2>3
    <3>2. Len(<<"source", "update", "dist-upgrade">>) = 3 /\ Len(<<"update", "dist-upgrade">>) = 2
      OBVIOUS
    <3> QED  BY <2>3, <3>1, <3>2 DEF TodoOk, Todos
  <2> QED  BY <2>1, <2>2, <2>3 DEF Todos
<1>a. CASE UNCHANGED Packages!pkgVars
  BY <1>2, <1>a DEF Packages!pkgVars, PkgInv, OneFileAtMost, Packages!File, Packages!Newest
<1>b. ASSUME NEW src \in Sources, Packages!SetOrigin(src) PROVE PkgInv'
  <2>1. Named(src)
    BY <1>2, <1>b DEF Packages!SetOrigin, Packages!Usable, Packages!SourceHazards, Named, Released, Releases
  <2>2. lists # << >> => Packages!File(src) \in DOMAIN lists
    BY <1>2, <1>b DEF Packages!SetOrigin, Packages!Usable, Packages!SourceHazards
  <2>3. DOMAIN lists \subseteq {Packages!File(src)} \ {"none", "error"}
    BY <1>2, <2>2 DEF OneFileAtMost
  <2>4. origin' = src /\ UNCHANGED <<pkgExposed, lists, index, pkg, orel, job>>
    BY <1>b DEF Packages!SetOrigin
  <2>5. Packages!File(origin)' = Packages!File(src)
    BY <2>4 DEF Packages!File
  <2>6. OneFileAtMost'
    BY <1>2, <2>3, <2>4, <2>5 DEF OneFileAtMost
  <2> QED  BY <1>2, <2>1, <2>4, <2>6 DEF PkgInv, Packages!Newest, Named
<1>c. CASE Packages!Install
  <2>1. /\ pkg = 0 /\ Packages!Works(Packages!add_source(origin))
        /\ lists' = Packages!add_source(origin) /\ index' = Packages!Offers(lists')
        /\ pkg' = Packages!Newest(index') /\ UNCHANGED <<pkgExposed, origin, orel, job>>
    BY <1>c DEF Packages!Install
  <2>2. /\ OneFileAtMost' /\ Named(origin)'
        /\ index' = {Distro[Series], ReleaseOf(origin)} /\ ReleaseOf(origin) \in Releases
    BY <1>2, <2>1, SourceAdded DEF OneFileAtMost, Packages!File, Named
  <2>3. Packages!Newest(index') \in Releases
    BY <2>2, TwoReleases DEF Released, Releases
  <2> QED  BY <1>2, <2>1, <2>2, <2>3 DEF PkgInv, Packages!Newest, Releases
<1>d. ASSUME NEW works \in BOOLEAN,
             Packages!do_action_openstack_upgrade(works) \/ Packages!do_action_package_upgrade(works)
      PROVE  PkgInv'
  <2>1. /\ pkg # 0 /\ job.todo = << >> /\ orel' = Packages!Installed(works)
        /\ job'.todo \in {<< >>, <<"source", "update", "dist-upgrade">>, <<"update", "dist-upgrade">>}
        /\ job' = [todo |-> job'.todo, tries |-> job'.tries]
        /\ UNCHANGED <<pkgExposed, origin, lists, index, pkg>>
    BY <1>2, <1>d DEF Packages!do_action_openstack_upgrade, Packages!do_action_package_upgrade, Packages!Start, Packages!Idle
  <2>2. << >> # <<"dist-upgrade">>
    OBVIOUS
  <2>3. pkg = Packages!Newest(index) /\ orel' \in {0, pkg}
    BY <1>2, <2>1, <2>2 DEF Packages!Installed
  <2>4. OneFileAtMost' /\ Named(origin)'
    BY <1>2, <2>1 DEF OneFileAtMost, Packages!File, Named
  <2> QED  BY <1>2, <2>1, <2>3, <2>4 DEF PkgInv, Packages!Newest, Todos
<1>e. CASE Packages!Configure
  <2>1. /\ job.todo = <<"source", "update", "dist-upgrade">>
        /\ UNCHANGED <<pkgExposed, origin, index, pkg, orel>>
    BY <1>2, <1>4, <1>e DEF TodoOk, Packages!Configure, Packages!Idle
  <2>2. /\ job'.todo \in {<< >>, <<"update", "dist-upgrade">>} /\ job.todo # <<"dist-upgrade">>
        /\ job' = [todo |-> job'.todo, tries |-> job'.tries]
        /\ lists' = lists \/ (Packages!Works(Packages!add_source(origin)) /\ lists' = Packages!add_source(origin))
    BY <1>e, <2>1 DEF Packages!Configure, Packages!Start, Packages!Finish
  <2>3. OneFileAtMost' /\ Named(origin)'
    BY <1>2, <2>1, <2>2, SourceAdded DEF OneFileAtMost, Packages!File, Named
  <2> QED  BY <1>2, <2>1, <2>2, <2>3 DEF PkgInv, Packages!Newest, Todos
<1>f. ASSUME NEW code, Packages!_run_with_retries(code) PROVE PkgInv'
  <2>1. /\ job.todo \in {<<"update", "dist-upgrade">>, <<"dist-upgrade">>} /\ pkg # 0
        /\ UNCHANGED <<pkgExposed, origin, lists>>
    BY <1>2, <1>4, <1>f DEF TodoOk, Packages!_run_with_retries, Packages!Idle
  <2>2. OneFileAtMost' /\ Named(origin)'
    BY <1>2, <2>1 DEF OneFileAtMost, Packages!File, Named
  <2>3. CASE job.todo = <<"update", "dist-upgrade">>
    <3>0. /\ Head(job.todo) = "update" /\ Tail(job.todo) = <<"dist-upgrade">> /\ job.todo # << >>
          /\ [job EXCEPT !.tries = @ + 1] = [todo |-> job.todo, tries |-> job.tries + 1]
      BY <1>2, <1>4, <2>3 DEF TodoOk, Todos
    <3>1. /\ UNCHANGED <<pkg, orel>> /\ job' = [todo |-> job'.todo, tries |-> job'.tries]
          /\ index' \in {index, Packages!Offers(lists)}
          /\ \/ job'.todo = <<"dist-upgrade">>
             \/ job'.todo \in {job.todo, << >>} /\ index' = index
      <4>1. CASE code = 0
        <5>1. Packages!Effect("update") /\ Packages!Start(<<"dist-upgrade">>)
          BY <1>f, <3>0, <4>1 DEF Packages!_run_with_retries
        <5> QED  BY <5>1 DEF Packages!Effect, Packages!Start
      <4>2. CASE code # 0
        <5>1. UNCHANGED <<index, pkg, orel>>
          BY <1>f, <3>0, <4>2 DEF Packages!_run_with_retries, Packages!Partly
        <5>2. \/ job' = [job EXCEPT !.tries = @ + 1]
              \/ job' = [todo |-> << >>, tries |-> 0]
          BY <1>f, <3>0, <4>2 DEF Packages!_run_with_retries, Packages!Finish
        <5> QED  BY <3>0, <5>1, <5>2
      <4> QED  BY <4>1, <4>2
    <3>2. \E r \in Releases : Packages!Offers(lists) = {Distro[Series], r}
      BY <1>2, OneFile
    <3>3. job.todo # <<"dist-upgrade">>
      BY <2>3
    <3> QED  BY <1>2, <2>1, <2>2, <2>3, <3>1, <3>2, <3>3 DEF PkgInv, Packages!Newest, Todos
  <2>4. CASE job.todo = <<"dist-upgrade">>
    <3>0. /\ Head(job.todo) = "dist-upgrade" /\ Tail(job.todo) = << >>
          /\ [job EXCEPT !.tries = @ + 1] = [todo |-> job.todo, tries |-> job.tries + 1]
      BY <1>2, <1>4, <2>4 DEF TodoOk, Todos
    <3>1. /\ job' = [todo |-> job'.todo, tries |-> job'.tries]
          /\ index' = index /\ pkg' \in {pkg, Packages!Newest(index)}
          /\ \/ job'.todo = <<"dist-upgrade">>
             \/ job'.todo = << >> /\ pkg' = Packages!Newest(index) /\ orel' \in {0, pkg'}
      BY <1>2, <1>f, <2>4, <3>0 DEF Packages!_run_with_retries, Packages!Effect, Packages!Partly, Packages!Start, Packages!Finish,
         Packages!SourceHazards
    <3>2. pkg' \in Nat \ {0}
      BY <1>2, <1>3, <2>1, <3>1 DEF Releases
    <3> QED  BY <1>2, <2>1, <2>2, <3>1, <3>2 DEF PkgInv, Packages!Newest, Todos
  <2> QED  BY <2>1, <2>3, <2>4
<1>g. CASE Packages!Silent
  <2>1. /\ job.todo = <<"update", "dist-upgrade">> /\ job'.todo = <<"dist-upgrade">> /\ pkg # 0
        /\ job' = [todo |-> job'.todo, tries |-> job'.tries]
        /\ UNCHANGED <<pkgExposed, origin, lists, index, pkg, orel>>
    BY <1>2, <1>4, <1>g DEF TodoOk, Packages!Silent, Packages!Idle, Packages!Start
  <2>2. OneFileAtMost' /\ Named(origin)'
    BY <1>2, <2>1 DEF OneFileAtMost, Packages!File, Named
  <2> QED  BY <1>2, <2>1, <2>2 DEF PkgInv, Packages!Newest, Todos
<1> QED  BY <1>a, <1>b, <1>c, <1>d, <1>e, <1>f, <1>g DEF Packages!PkgNext

LEMMA PkgInvSeen == Released /\ PkgInv => Packages!UpgradeSeen
<1> SUFFICES ASSUME Released, PkgInv, Packages!Spared(Packages!SourceHazards), Packages!Idle, pkg # 0,
                    Packages!Works(Packages!add_source(origin)), NEW works \in BOOLEAN
             PROVE  Packages!openstack_upgrade_available(origin, Packages!Installed(works))
                      <=> Packages!Newest(Packages!Offers(Packages!add_source(origin))) > pkg
  BY DEF Packages!UpgradeSeen
<1>1. /\ Named(origin) /\ OneFileAtMost /\ pkg \in Releases
      /\ \E r \in Releases : index = {Distro[Series], r}
      /\ pkg = Packages!Newest(index) /\ orel \in {0, pkg}
  BY DEF PkgInv, Packages!Idle, Releases
<1>2. Distro[Series] \in Releases /\ pkg >= Distro[Series]
  BY <1>1, TwoReleases DEF Released, Releases
<1>3. Packages!get_os_version_package(Packages!Installed(works)) = pkg
  BY <1>1 DEF Packages!get_os_version_package, Packages!Installed
<1>4. /\ Packages!install_source(origin) = ReleaseOf(origin) /\ ReleaseOf(origin) \in Releases
      /\ Packages!Offers(Packages!add_source(origin)) = {Distro[Series], ReleaseOf(origin)}
  BY <1>1, SourceAdded
<1>5. Packages!Newest(Packages!Offers(Packages!add_source(origin)))
        = IF Distro[Series] > ReleaseOf(origin) THEN Distro[Series] ELSE ReleaseOf(origin)
  BY <1>2, <1>4, TwoReleases
<1> QED  BY <1>1, <1>2, <1>3, <1>4, <1>5 DEF Packages!openstack_upgrade_available, Releases

(* An upgrade is offered whenever the source that can be configured has a  *)
(* newer release than the installed package, and only then, also after     *)
(* upgrades that failed half way.                                          *)
THEOREM UpgradesAreSeen == DeploymentSpec => []UpgradeSeen
<1>1. DeploymentInit => (part = "packages" => PkgInv)
  BY Starts, PkgInvInit, SourcesAssumption
<1>2. (part = "packages" => PkgInv) /\ [DeploymentNext]_deploymentVars => (part = "packages" => PkgInv)'
  BY Steps, PkgInvStep, SourcesAssumption
<1>3. (part = "packages" => PkgInv) => UpgradeSeen
  BY PkgInvSeen, SourcesAssumption DEF UpgradeSeen
<1> QED  BY <1>1, <1>2, <1>3, PTL DEF DeploymentSpec
-----------------------------------------------------------------------------
(***************************************************************************)
(* UnitCerts.  A link leads to a name whose certificate is to cover what   *)
(* it is for: the host name, if no named binding has the address, or the   *)
(* name of a binding that has it.  Names that are requested are no links,  *)
(* so that the certificates of an answer are each in its own file.         *)
(***************************************************************************)
CertNames == OsHostNames \union {Host}
CertAddresses == Certs!IPs \union Certs!VIPs

CertOptions ==
  /\ certExposed \in {{}} \union {{h} : h \in Certs!CertHazards}
  /\ override \in [Certs!BindingSet -> OsHostNames \union {""}]
  /\ bound \subseteq Certs!BindingSet
  /\ vipsSet \subseteq Certs!VIPs
  /\ Certs!Spared({"same_name"}) =>
       \A b, c \in Certs!BindingSet : override[b] = override[c] /\ override[b] # "" => b = c

Answering ==
  /\ DOMAIN requested \subseteq CertNames
  /\ DOMAIN answers = Certs!Range(Providers)
  /\ \A v \in Certs!Range(Providers) :
       /\ DOMAIN answers[v] \subseteq CertNames
       /\ \A cn \in DOMAIN answers[v] : answers[v][cn].cn = cn
  /\ processed # "" => processed \in Certs!Range(Providers) /\ Certs!Answered(processed)
  /\ Certs!Spared({"two_units"}) =>
       \A v, w \in Certs!Range(Providers) : Certs!Answered(v) /\ Certs!Answered(w) => v = w

(* Files are those of names, and names are links to the host name's only. *)
NamesFiles(files, links) ==
  /\ links \in [Certs!FileNames -> CertNames \union {""}] /\ links[Host] = ""
  /\ \A n \in OsHostNames : links[n] \in {"", Host}
  /\ files = [n \in Certs!FileNames |-> files[n]]
  /\ \A n \in Certs!FileNames :
       files[n] # Certs!NoCert => n \in CertNames /\ (n # Host => files[n].cn = n)

NoNameLinked ==
  Certs!Spared({"linked_name"}) => \A b \in Certs!Named : certLinks[override[b]] = ""

(* The address n may lead to the name cn, which need not be there yet.     *)
Leads(n, cn) ==
  /\ cn = Host =>
       n \in Certs!NetworkOf(Private) \/ \A b \in Certs!Named : n \notin Certs!NetworkOf(IpOf[b])
  /\ cn \in OsHostNames =>
       \E b \in Certs!Named : override[b] = cn /\ n \in Certs!NetworkOf(IpOf[b])

LinksRight ==
  Certs!Spared({"moved", "linked_name", "same_name", "killed"}) =>
    /\ keyLinks = certLinks /\ keyFiles = certFiles
    /\ \A n \in CertAddresses : Leads(n, certLinks[n])

OwnFiles(files, links, certs) ==
  (\A cn \in DOMAIN certs : links[cn] = "") => \A cn \in DOMAIN certs : files[cn] = certs[cn]

Installed == processed # "" => OwnFiles(certFiles, certLinks, answers[processed])

AllLinked ==
  processed # "" /\ Certs!Spared({"killed"}) =>
    \A cn \in DOMAIN Certs!get_certificate_request :
      Certs!IsFile(certFiles, cn) =>
        \A n \in Certs!get_certificate_request[cn] : Certs!IsFile(certFiles, n)

CertInv ==
  /\ CertOptions /\ Answering
  /\ NamesFiles(certFiles, certLinks) /\ NamesFiles(keyFiles, keyLinks)
  /\ NoNameLinked /\ LinksRight /\ Installed /\ AllLinked

LEMMA Lasts ==
  ASSUME NEW S \in SUBSET Nat, S # {}, NEW k \in Nat, \A i \in S : i <= k
  PROVE  Certs!Max(S) \in S
<1> DEFINE T == {k - i : i \in S}
<1>1. T \in SUBSET Nat /\ T # {}
  <2>1. \A i \in S : k - i \in Nat
    OBVIOUS
  <2> QED  BY <2>1
<1>2. PICK m \in T : \A n \in T : m <= n
  BY <1>1, Least
<1>3. PICK i \in S : m = k - i
  BY <1>2
<1>4. ASSUME NEW j \in S PROVE i >= j
  <2>1. k - i <= k - j
    BY <1>2, <1>3
  <2> QED  BY <2>1
<1> QED  BY <1>4 DEF Certs!Max

LEMMA CertMin == \A S \in SUBSET Nat : S # {} => Certs!Min(S) \in S
BY Least DEF Certs!Min

LEMMA Elements ==
  ASSUME NamesApart
  PROVE  /\ \A b \in Certs!BindingSet : IpOf[b] \in Certs!IPs /\ VipOf[b] \in Certs!VIPs
         /\ \A ip \in Certs!IPs : /\ Certs!NetworkOf(ip) \subseteq {ip} \union Certs!VIPs
                                  /\ Certs!InNetworkOf(ip) = {n \in Certs!NetworkOf(ip) : n = ip \/ n \in vipsSet}
         /\ Private \in Certs!IPs
BY DEF NamesApart, Certs!IPs, Certs!VIPs, Certs!NetworkOf, Certs!InNetworkOf, Certs!get_vip_in_network

(* What is requested under which name. *)
LEMMA Requested ==
  ASSUME NamesApart, CertOptions
  PROVE  LET req == Certs!get_certificate_request
         IN  /\ DOMAIN req = {override[b] : b \in Certs!Named} \union {Host}
             /\ DOMAIN req \subseteq CertNames
             /\ \A cn \in DOMAIN req \ {Host} :
                  \E b \in Certs!Named : override[b] = cn /\ req[cn] = {cn} \union Certs!InNetworkOf(IpOf[b])
             /\ Certs!InNetworkOf(Private) \subseteq req[Host]
             /\ \A n \in req[Host] :
                  /\ n \in OsHostNames \union Certs!IPs \union vipsSet
                  /\ n \in Certs!InNetworkOf(Private) \/ \A b \in Certs!Named : n \notin {override[b]} \union Certs!InNetworkOf(IpOf[b])
<1> DEFINE req == Certs!get_certificate_request
<1>1. /\ DOMAIN req = {override[b] : b \in Certs!Named} \union {Host}
      /\ \A b \in Certs!Named : b \in Certs!BindingSet /\ override[b] \in OsHostNames
      /\ Host \notin OsHostNames
  BY DEF Certs!get_certificate_request, CertOptions, Certs!Named, NamesApart
<1>2. \A b \in Certs!Named : Certs!Override(b) = {override[b]}
  BY DEF Certs!Override, Certs!Named
<1>3. ASSUME NEW cn \in DOMAIN req \ {Host}
      PROVE  \E b \in Certs!Named : override[b] = cn /\ req[cn] = {cn} \union Certs!InNetworkOf(IpOf[b])
  <2>1. PICK c \in Certs!Named : override[c] = cn
    BY <1>1, <1>3
  <2>2. PICK k \in DOMAIN Bindings : Bindings[k] = c
    BY <1>1, <2>1 DEF Certs!BindingSet, Certs!Range
  <2>3. DOMAIN Bindings = 1..Len(Bindings) /\ Len(Bindings) \in Nat
    <3>1. Bindings \in Seq(Certs!BindingSet)
      BY DEF NamesApart
    <3> QED  BY <3>1
  <2>4. Certs!Places(cn) \in SUBSET Nat /\ k \in Certs!Places(cn) /\ \A i \in Certs!Places(cn) : i <= Len(Bindings)
    BY <2>1, <2>2, <2>3 DEF Certs!Places
  <2>5. Certs!Max(Certs!Places(cn)) \in Certs!Places(cn)
    BY <2>3, <2>4, Lasts
  <2>6. req[cn] = Certs!EntryOf(Bindings[Certs!Max(Certs!Places(cn))])
    BY <1>3 DEF Certs!get_certificate_request
  <2> QED  BY <1>2, <2>5, <2>6 DEF Certs!Places, Certs!EntryOf
<1>4. req[Host] = Certs!InNetworkOf(Private) \union (Certs!get_certificate_sans \ UNION {Certs!EntryOf(b) : b \in Certs!Named})
  BY <1>1 DEF Certs!get_certificate_request
<1>5. \A n \in Certs!get_certificate_sans \union Certs!InNetworkOf(Private) : n \in OsHostNames \union Certs!IPs \union vipsSet
  <2>1. \A ip \in Certs!IPs : Certs!InNetworkOf(ip) \subseteq Certs!IPs \union vipsSet
    BY DEF Certs!InNetworkOf, Certs!get_vip_in_network
  <2>2. \A b \in Certs!BindingSet : Certs!Override(b) \subseteq OsHostNames
    BY DEF CertOptions, Certs!Override
  <2>3. Private \in Certs!IPs /\ \A b \in Certs!BindingSet : IpOf[b] \in Certs!IPs
    BY Elements
  <2> QED  BY <2>1, <2>2, <2>3 DEF Certs!get_certificate_sans
<1>6. ASSUME NEW n \in req[Host], n \notin Certs!InNetworkOf(Private), NEW b \in Certs!Named
      PROVE  n \notin {override[b]} \union Certs!InNetworkOf(IpOf[b])
  BY <1>2, <1>4, <1>6 DEF Certs!EntryOf
<1> QED  BY <1>1, <1>3, <1>4, <1>5, <1>6 DEF CertNames

LEMMA Followed ==
  ASSUME NamesApart, NEW files, NEW links, NamesFiles(files, links)
  PROVE  /\ CertNames \subseteq Certs!FileNames
         /\ \A n \in Certs!FileNames : /\ links[n] = "" => Certs!Follow(links, n) = n
                                       /\ links[n] = Host => Certs!Follow(links, n) = Host
                                       /\ links[n] # "" /\ links[links[n]] = "" =>
                                            Certs!Follow(links, n) = links[n]
                                       /\ links[n] # "" /\ links[links[n]] # "" =>
                                            links[links[n]] = Host /\ Certs!Follow(links, n) = Host
         /\ \A cn \in CertNames : Certs!Follow(links, cn) \in {cn, Host}
<1>1. CertNames \subseteq Certs!FileNames /\ "" \notin CertNames
  BY DEF CertNames, Certs!FileNames, NamesApart
<1>2. /\ \A n \in Certs!FileNames : links[n] \in CertNames \union {""}
      /\ links[Host] = ""
      /\ \A n \in CertNames : links[n] \in {"", Host}
  BY DEF NamesFiles, CertNames
<1>3. Host \in CertNames /\ Host # ""
  BY <1>1 DEF CertNames
<1>4. ASSUME NEW n \in Certs!FileNames
      PROVE  /\ links[n] = "" => Certs!Follow(links, n) = n
             /\ links[n] = Host => Certs!Follow(links, n) = Host
             /\ links[n] # "" /\ links[links[n]] = "" => Certs!Follow(links, n) = links[n]
             /\ links[n] # "" /\ links[links[n]] # "" =>
                  links[links[n]] = Host /\ Certs!Follow(links, n) = Host
  <2>1. links[n] # "" => links[links[n]] \in {"", Host}
    BY <1>2
  <2> QED  BY <1>2, <1>3, <2>1 DEF Certs!Follow
<1>5. \A cn \in CertNames : Certs!Follow(links, cn) \in {cn, Host}
  BY <1>1, <1>2, <1>4
<1> QED  BY <1>1, <1>4, <1>5

(* Names of one file, of which one is the last.                            *)
LEMMA WrittenLast ==
  ASSUME NamesApart, NEW certs, NEW place \in Certs!Orders(certs),
         NEW cns \in SUBSET DOMAIN certs, cns # {}
  PROVE  Certs!Last(cns, place) \in cns
<1>1. Bindings \in Seq(Certs!BindingSet)
  BY DEF NamesApart
<1>2. Len(Bindings) \in Nat
  BY <1>1
<1>3. place \in [DOMAIN certs -> 0..Len(Bindings)]
  BY DEF Certs!Orders, Certs!Injection
<1> DEFINE T == {Len(Bindings) - place[cn] : cn \in cns}
<1>4. \A cn \in cns : place[cn] \in Nat /\ Len(Bindings) - place[cn] \in Nat
  BY <1>2, <1>3
<1>5. T \in SUBSET Nat /\ T # {}
  BY <1>4
<1>6. PICK m \in T : \A n \in T : m <= n
  BY <1>5, Least
<1>7. PICK last \in cns : m = Len(Bindings) - place[last]
  BY <1>6
<1>8. ASSUME NEW other \in cns PROVE place[other] <= place[last]
  <2>1. Len(Bindings) - place[last] <= Len(Bindings) - place[other]
    BY <1>6, <1>7
  <2> QED  BY <1>2, <1>4, <2>1
<1> QED  BY <1>8 DEF Certs!Last

(* What an answer leaves in the files of names.                            *)
LEMMA InstalledFiles ==
  ASSUME NamesApart, NEW files, NEW links, NamesFiles(files, links), NEW certs,
         DOMAIN certs \subseteq CertNames, \A cn \in DOMAIN certs : certs[cn].cn = cn,
         NEW place \in Certs!Orders(certs)
  PROVE  LET newFiles == Certs!install_certs(files, links, certs, place)
         IN  /\ NamesFiles(newFiles, links)
             /\ OwnFiles(newFiles, links, certs)
             /\ \A f \in Certs!FileNames : files[f] # Certs!NoCert => newFiles[f] # Certs!NoCert
<1> DEFINE newFiles == Certs!install_certs(files, links, certs, place)
<1> DEFINE cns(f) == {cn \in DOMAIN certs : Certs!Follow(links, cn) = f}
<1>1. /\ newFiles = [f \in Certs!FileNames |-> newFiles[f]]
      /\ \A f \in Certs!FileNames :
           /\ cns(f) = {} => newFiles[f] = files[f]
           /\ cns(f) # {} => \E cn \in cns(f) : newFiles[f] = certs[cn]
  <2>1. ASSUME NEW f \in Certs!FileNames, cns(f) # {} PROVE \E cn \in cns(f) : newFiles[f] = certs[cn]
    <3>1. Certs!Last(cns(f), place) \in cns(f)
      <4>1. cns(f) \in SUBSET DOMAIN certs
        OBVIOUS
      <4> QED  BY <2>1, <4>1, WrittenLast
    <3> QED  BY <2>1, <3>1 DEF Certs!install_certs
  <2> QED  BY <2>1 DEF Certs!install_certs
<1>2. \A f \in Certs!FileNames : \A cn \in cns(f) :
        /\ f \in CertNames /\ (f # Host => cn = f) /\ certs[cn].cn = cn
        /\ certs[cn] # Certs!NoCert
  <2>1. "" \notin CertNames /\ Host \in CertNames
    BY DEF CertNames, NamesApart
  <2>2. ASSUME NEW cn \in DOMAIN certs PROVE certs[cn] # Certs!NoCert
    <3>1. certs[cn].cn # ""
      BY <2>1
    <3>2. Certs!NoCert.cn = ""
      BY DEF Certs!NoCert
    <3> QED  BY <3>1, <3>2
  <2>3. \A cn \in DOMAIN certs : Certs!Follow(links, cn) \in {cn, Host}
    BY Followed
  <2> QED  BY <2>1, <2>2, <2>3
<1>3. NamesFiles(newFiles, links)
  BY <1>1, <1>2 DEF NamesFiles
<1>4. ASSUME \A cn \in DOMAIN certs : links[cn] = "", NEW cn \in DOMAIN certs
      PROVE  newFiles[cn] = certs[cn]
  <2>1. \A other \in DOMAIN certs : Certs!Follow(links, other) = other /\ other \in Certs!FileNames
    BY <1>4, Followed
  <2>2. cns(cn) = {cn}
    BY <2>1
  <2> QED  BY <1>1, <2>1, <2>2
<1>5. ASSUME NEW f \in Certs!FileNames, files[f] # Certs!NoCert PROVE newFiles[f] # Certs!NoCert
  BY <1>1, <1>2, <1>5
<1> QED  BY <1>3, <1>4, <1>5 DEF OwnFiles

LEMMA FirstIn ==
  ASSUME NamesApart, CertOptions,
         NEW cns \in SUBSET DOMAIN Certs!get_certificate_request, cns # {}
  PROVE  Certs!FirstOf(cns) \in cns
<1> DEFINE places == {i \in DOMAIN Bindings : Bindings[i] \in Certs!Named /\ override[Bindings[i]] \in cns \ {Host}}
<1>1. cns \subseteq {override[b] : b \in Certs!Named} \union {Host}
  BY Requested
<1>2. CASE places = {}
  <2>1. ASSUME NEW c \in cns, c # Host PROVE FALSE
    <3>1. PICK b \in Certs!Named : override[b] = c
      BY <1>1, <2>1
    <3>2. b \in Certs!BindingSet
      BY DEF CertOptions, Certs!Named
    <3>3. PICK i \in DOMAIN Bindings : Bindings[i] = b
      BY <3>2 DEF Certs!BindingSet, Certs!Range
    <3>4. i \in places
      BY <2>1, <3>1, <3>3
    <3> QED  BY <1>2, <3>4
  <2>2. Certs!FirstOf(cns) = Host
    BY <1>2 DEF Certs!FirstOf
  <2> QED  BY <2>1, <2>2
<1>3. CASE places # {}
  <2>1. Bindings \in Seq(Certs!BindingSet)
    BY DEF NamesApart
  <2>2. DOMAIN Bindings \in SUBSET Nat
    BY <2>1
  <2>3. places \in SUBSET Nat
    BY <2>2
  <2>4. Certs!Min(places) \in places
    BY <1>3, <2>3, CertMin
  <2>5. Certs!FirstOf(cns) = override[Bindings[Certs!Min(places)]]
    BY <1>3 DEF Certs!FirstOf
  <2> QED  BY <2>4, <2>5
<1> QED  BY <1>2, <1>3

(* A link that is made leads to a file for a name that is requested.       *)
LEMMA LinkedTo ==
  ASSUME NamesApart, CertOptions, NEW files, NEW n \in Certs!FileNames, Certs!LinkTo(files, n) # ""
  PROVE  LET cn == Certs!LinkTo(files, n)
         IN  /\ cn \in DOMAIN Certs!get_certificate_request
             /\ Certs!IsFile(files, cn) /\ ~Certs!IsFile(files, n)
             /\ n \in Certs!get_certificate_request[cn] \/ (cn = Host /\ n = Custom)
<1> DEFINE req == Certs!get_certificate_request
<1> DEFINE cns == {cn \in DOMAIN req : /\ Certs!IsFile(files, cn)
                                       /\ n \in req[cn] \/ (cn = Host /\ n = Custom)}
<1>1. ~Certs!IsFile(files, n) /\ cns # {} /\ Certs!LinkTo(files, n) = Certs!FirstOf(cns)
  BY DEF Certs!LinkTo
<1>2. cns \in SUBSET DOMAIN req
  OBVIOUS
<1>3. Certs!FirstOf(cns) \in cns
  BY <1>1, <1>2, FirstIn
<1> QED  BY <1>1, <1>3

(* Names of named bindings are not linked, other names lead to the host    *)
(* name, and addresses where they may.                                     *)
LEMMA LinkedRight ==
  ASSUME NamesApart, CertOptions, NEW files, NEW n \in Certs!FileNames, Certs!LinkTo(files, n) # ""
  PROVE  /\ Certs!LinkTo(files, n) \in CertNames /\ n # Host
         /\ n \in OsHostNames => Certs!LinkTo(files, n) = Host /\ \A b \in Certs!Named : override[b] # n
         /\ n \in CertAddresses => Leads(n, Certs!LinkTo(files, n))
<1> DEFINE req == Certs!get_certificate_request
<1> DEFINE cn == Certs!LinkTo(files, n)
<1>1. /\ cn \in DOMAIN req /\ cn # n
      /\ n \in req[cn] \/ (cn = Host /\ n = Custom)
  BY LinkedTo
<1>2. /\ Host \notin OsHostNames /\ Custom \notin OsHostNames \union {Host}
      /\ CertAddresses \cap (OsHostNames \union {Host, Custom}) = {}
      /\ Certs!IPs \cap Certs!VIPs = {}
  BY DEF NamesApart, CertAddresses
<1>3. \A b \in Certs!Named : b \in Certs!BindingSet /\ override[b] \in OsHostNames /\ IpOf[b] \in Certs!IPs
  BY Elements DEF CertOptions, Certs!Named
<1>4. vipsSet \subseteq Certs!VIPs /\ Private \in Certs!IPs
  BY Elements DEF CertOptions
<1>5. \A ip \in Certs!IPs : /\ Certs!InNetworkOf(ip) \subseteq Certs!NetworkOf(ip)
                            /\ Certs!NetworkOf(ip) \subseteq {ip} \union Certs!VIPs
                            /\ Certs!NetworkOf(ip) \cap ({ip} \union vipsSet) \subseteq Certs!InNetworkOf(ip)
                            /\ Certs!NetworkOf(ip) \subseteq CertAddresses
  BY Elements DEF CertAddresses
<1>6. CASE cn = Host /\ n \in req[Host]
  <2>1. /\ n \in OsHostNames \union Certs!IPs \union vipsSet
        /\ \/ n \in Certs!InNetworkOf(Private)
           \/ \A b \in Certs!Named : n \notin {override[b]} \union Certs!InNetworkOf(IpOf[b])
    BY <1>6, Requested
  <2>2. CASE n \in OsHostNames
    BY <1>2, <1>4, <1>5, <1>6, <2>1, <2>2 DEF CertNames
  <2>3. CASE n \in Certs!IPs \union vipsSet
    <3>1. ASSUME NEW b \in Certs!Named, n \in Certs!NetworkOf(IpOf[b])
          PROVE  n \in Certs!InNetworkOf(IpOf[b])
      BY <1>2, <1>3, <1>5, <2>3, <3>1
    <3>2. Leads(n, cn)
      BY <1>2, <1>4, <1>5, <1>6, <2>1, <3>1 DEF Leads
    <3>3. n \in CertAddresses
      BY <1>4, <2>3 DEF CertAddresses
    <3> QED  BY <1>2, <1>6, <3>2, <3>3 DEF CertNames
  <2> QED  BY <2>1, <2>2, <2>3
<1>7. CASE cn = Host /\ n = Custom
  BY <1>2, <1>7 DEF CertNames
<1>8. CASE cn # Host
  <2>1. PICK b \in Certs!Named : override[b] = cn /\ req[cn] = {cn} \union Certs!InNetworkOf(IpOf[b])
    BY <1>1, <1>8, Requested
  <2>2. n \in Certs!NetworkOf(IpOf[b])
    BY <1>1, <1>3, <1>5, <1>8, <2>1
  <2>3. n \in CertAddresses
    BY <1>3, <1>5, <2>1, <2>2
  <2> QED  BY <1>2, <1>3, <1>8, <2>1, <2>2, <2>3 DEF Leads, CertNames
<1> QED  BY <1>1, <1>6, <1>7, <1>8

LEMMA RequestedAreNames ==
  ASSUME NamesApart, CertOptions, NEW cn \in DOMAIN Certs!get_certificate_request,
         NEW n \in Certs!get_certificate_request[cn]
  PROVE  n \in Certs!FileNames
<1>1. \A b \in Certs!Named : override[b] \in OsHostNames /\ IpOf[b] \in Certs!IPs
  BY Elements DEF CertOptions, Certs!Named
<1>2. \A ip \in Certs!IPs : Certs!InNetworkOf(ip) \subseteq Certs!IPs \union Certs!VIPs
  BY Elements
<1>3. vipsSet \subseteq Certs!VIPs
  BY DEF CertOptions
<1>4. CASE cn = Host
  BY <1>3, <1>4, Requested DEF Certs!FileNames
<1>5. CASE cn # Host
  BY <1>1, <1>2, <1>5, Requested DEF Certs!FileNames
<1> QED  BY <1>4, <1>5

(* Every address of a name with a file is linked, if it is no file.        *)
LEMMA NoneMissing ==
  ASSUME NamesApart, CertOptions, NEW files, NEW cn \in DOMAIN Certs!get_certificate_request,
         NEW n \in Certs!get_certificate_request[cn],
         Certs!IsFile(files, cn), ~Certs!IsFile(files, n)
  PROVE  n \in Certs!FileNames /\ Certs!LinkTo(files, n) # ""
<1> DEFINE req == Certs!get_certificate_request
<1> DEFINE cns == {c \in DOMAIN req : /\ Certs!IsFile(files, c)
                                      /\ n \in req[c] \/ (c = Host /\ n = Custom)}
<1>1. n \in Certs!FileNames
  BY RequestedAreNames
<1>2. cn \in cns
  OBVIOUS
<1>3. Certs!LinkTo(files, n) = Certs!FirstOf(cns)
  BY <1>2 DEF Certs!LinkTo
<1>4. cns \in SUBSET DOMAIN req
  OBVIOUS
<1>5. Certs!FirstOf(cns) \in DOMAIN req
  BY <1>2, <1>4, FirstIn
<1>6. DOMAIN req \subseteq CertNames /\ "" \notin CertNames
  BY Requested DEF CertNames, NamesApart
<1> QED  BY <1>1, <1>3, <1>5, <1>6

(* `new' has the links of `links' or such as are made for what is newFiles.  *)
SomeMade(newFiles, links, new) ==
  /\ new = [n \in Certs!FileNames |-> new[n]]
  /\ \A n \in Certs!FileNames :
       \/ new[n] = links[n]
       \/ Certs!LinkTo(newFiles, n) # "" /\ new[n] = Certs!LinkTo(newFiles, n)

LEMMA LinksMade ==
  ASSUME NamesApart, CertOptions, NEW newFiles, NEW files, NEW links, NEW new,
         NamesFiles(files, links), SomeMade(newFiles, links, new)
  PROVE  NamesFiles(files, new)
<1>1. OsHostNames \subseteq Certs!FileNames /\ Host \in Certs!FileNames
  BY DEF Certs!FileNames
<1>2. /\ \A n \in Certs!FileNames : links[n] \in CertNames \union {""}
      /\ links[Host] = ""
      /\ \A n \in OsHostNames : links[n] \in {"", Host}
  BY DEF NamesFiles
<1>3. \A n \in Certs!FileNames : Certs!LinkTo(newFiles, n) # "" =>
        /\ Certs!LinkTo(newFiles, n) \in CertNames /\ n # Host
        /\ n \in OsHostNames => Certs!LinkTo(newFiles, n) = Host
  BY LinkedRight
<1>4. \A n \in Certs!FileNames : new[n] \in CertNames \union {""}
  BY <1>2, <1>3 DEF SomeMade
<1>5. new[Host] = "" /\ \A n \in OsHostNames : new[n] \in {"", Host}
  BY <1>1, <1>2, <1>3 DEF SomeMade
<1>6. new \in [Certs!FileNames -> CertNames \union {""}]
  BY <1>4 DEF SomeMade
<1> QED  BY <1>5, <1>6 DEF NamesFiles

(* What was a file is found where it was, and what is to lead to a file    *)
(* does.                                                                   *)
LEMMA MadeAll ==
  ASSUME NamesApart, CertOptions, NEW files, NamesFiles(files, certLinks),
         NEW links, links = Certs!create_ip_cert_links(certLinks, files),
         NEW cn \in DOMAIN Certs!get_certificate_request,
         files[Certs!Follow(links, cn)] # Certs!NoCert,
         NEW n \in Certs!get_certificate_request[cn]
  PROVE  files[Certs!Follow(links, n)] # Certs!NoCert
<1> DEFINE req == Certs!get_certificate_request
<1>1. \A m \in Certs!FileNames :
        /\ Certs!LinkTo(files, m) # "" => links[m] = Certs!LinkTo(files, m)
        /\ Certs!LinkTo(files, m) = "" => links[m] = certLinks[m]
  BY DEF Certs!create_ip_cert_links
<1>2. links = [m \in Certs!FileNames |-> links[m]]
  BY DEF Certs!create_ip_cert_links
<1>3. NamesFiles(files, links)
  <2>1. SomeMade(files, certLinks, links)
    BY <1>1, <1>2 DEF SomeMade
  <2> QED  BY <2>1, LinksMade
<1>4. \A m \in Certs!FileNames : Certs!IsFile(files, m) => links[m] = certLinks[m]
  BY <1>1, LinkedTo
<1>5. /\ CertNames \subseteq Certs!FileNames /\ Host \in CertNames /\ "" \notin CertNames
      /\ \A m \in Certs!FileNames : certLinks[m] \in CertNames \union {""}
      /\ \A m \in CertNames : certLinks[m] \in {"", Host}
      /\ certLinks[Host] = "" /\ links[Host] = ""
  BY <1>3 DEF NamesFiles, CertNames, Certs!FileNames, NamesApart
<1>6. ASSUME NEW m \in Certs!FileNames, Certs!IsFile(files, m)
      PROVE  Certs!Follow(links, m) = Certs!Follow(certLinks, m)
  <2>1. links[m] = certLinks[m]
    BY <1>4, <1>6
  <2>2. CASE certLinks[m] = ""
    BY <2>1, <2>2 DEF Certs!Follow
  <2>3. CASE certLinks[m] # ""
    <3>1. certLinks[m] \in CertNames /\ certLinks[m] \in Certs!FileNames
      BY <1>5, <2>3
    <3>2. Certs!IsFile(files, certLinks[m])
      BY <1>5, <1>6, <2>3, <3>1 DEF Certs!IsFile, Certs!Follow
    <3>3. links[certLinks[m]] = certLinks[certLinks[m]]
      BY <1>4, <3>1, <3>2
    <3> QED  BY <2>1, <3>3 DEF Certs!Follow
  <2> QED  BY <2>2, <2>3
<1>7. ASSUME NEW c \in DOMAIN req PROVE Certs!Follow(links, c) = Certs!Follow(certLinks, c)
  <2>1. c \in Certs!FileNames /\ c \in CertNames
    BY <1>5, Requested
  <2>2. Certs!LinkTo(files, c) = ""
    <3>1. c = Host \/ \E b \in Certs!Named : override[b] = c
      BY Requested
    <3> QED  BY <2>1, <3>1, LinkedRight DEF CertNames
  <2>3. links[c] = certLinks[c] /\ certLinks[c] \in {"", Host}
    BY <1>1, <1>5, <2>1, <2>2
  <2> QED  BY <1>5, <2>3 DEF Certs!Follow
<1>8. Certs!IsFile(files, cn)
  BY <1>7 DEF Certs!IsFile
<1>9. CASE n \in Certs!FileNames /\ Certs!IsFile(files, n)
  BY <1>6, <1>9 DEF Certs!IsFile
<1>10. CASE ~Certs!IsFile(files, n)
  <2> DEFINE c == Certs!LinkTo(files, n)
  <2>1. n \in Certs!FileNames /\ c # ""
    BY <1>8, <1>10, NoneMissing
  <2>2. c \in DOMAIN req /\ Certs!IsFile(files, c) /\ c \in CertNames /\ links[n] = c
    BY <1>1, <2>1, LinkedTo, LinkedRight
  <2>3. files[Certs!Follow(links, c)] # Certs!NoCert
    BY <1>7, <2>2 DEF Certs!IsFile
  <2>4. Certs!Follow(links, n) = Certs!Follow(links, c)
    <3>1. links[c] \in {"", Host}
      BY <1>3, <1>5, <2>2 DEF NamesFiles, CertNames
    <3> QED  BY <1>5, <2>1, <2>2, <3>1 DEF Certs!Follow
  <2> QED  BY <2>3, <2>4
<1>11. n \in Certs!FileNames
  BY RequestedAreNames
<1> QED  BY <1>9, <1>10, <1>11

-----------------------------------------------------------------------------
LEMMA CertInvInit == NamesApart /\ Certs!CertInit => CertInv
<1> SUFFICES ASSUME NamesApart, Certs!CertInit PROVE CertInv
  OBVIOUS
<1>1. /\ certFiles = [n \in Certs!FileNames |-> Certs!NoCert] /\ keyFiles = certFiles
      /\ certLinks = [n \in Certs!FileNames |-> ""] /\ keyLinks = certLinks
      /\ processed = "" /\ requested = Certs!NoAnswer
      /\ answers = [v \in Certs!Range(Providers) |-> Certs!NoAnswer]
      /\ override = [b \in Certs!BindingSet |-> ""]
      /\ certExposed \in {{}} \union {{h} : h \in Certs!CertHazards}
      /\ bound \in {Certs!BindingSet, {Bindings[1]}} /\ vipsSet \in {{}, Certs!VIPs}
  BY DEF Certs!CertInit
<1>2. DOMAIN Certs!NoAnswer = {}
  BY DEF Certs!NoAnswer
<1>3. Bindings[1] \in Certs!BindingSet
  <2>1. Bindings \in Seq(Certs!BindingSet) /\ Bindings # << >>
    BY DEF NamesApart
  <2> QED  BY <2>1
<1>4. CertOptions
  BY <1>1, <1>3 DEF CertOptions
<1>5. Answering
  BY <1>1, <1>2 DEF Answering, Certs!Answered
<1>6. OsHostNames \subseteq Certs!FileNames /\ Host \in Certs!FileNames /\ CertAddresses \subseteq Certs!FileNames
      /\ "" \notin OsHostNames /\ Host # ""
  BY DEF Certs!FileNames, CertAddresses, NamesApart
<1>7. NamesFiles(certFiles, certLinks) /\ NamesFiles(keyFiles, keyLinks)
  BY <1>1, <1>6 DEF NamesFiles
<1>8. NoNameLinked /\ LinksRight
  <2>1. Certs!Named = {}
    BY <1>1, <1>4 DEF CertOptions, Certs!Named
  <2>2. \A n \in CertAddresses : certLinks[n] = ""
    BY <1>1, <1>6
  <2> QED  BY <1>1, <1>6, <2>1, <2>2 DEF NoNameLinked, LinksRight, Leads
<1>9. Installed /\ AllLinked
  BY <1>1 DEF Installed, AllLinked
<1> QED  BY <1>4, <1>5, <1>7, <1>8, <1>9 DEF CertInv

(* The request is of the options.                                          *)
LEMMA RequestKept ==
  ASSUME UNCHANGED <<override, bound, vipsSet>>
  PROVE  /\ Certs!get_certificate_request' = Certs!get_certificate_request
         /\ Certs!Named' = Certs!Named
BY DEF Certs!get_certificate_request, Certs!Named, Certs!EntryOf, Certs!Override, Certs!Places,
       Certs!get_certificate_sans, Certs!InNetworkOf, Certs!get_vip_in_network

(* A change leaves the files and links, and no answer is to what is needed *)
(* now.                                                                    *)
LEMMA ChangeStep ==
  ASSUME CertInv, Certs!Change, CertOptions', NoNameLinked', LinksRight'
  PROVE  CertInv'
<1>1. /\ processed' = "" /\ UNCHANGED <<requested, answers, certExposed>>
      /\ UNCHANGED <<certFiles, certLinks, keyFiles, keyLinks>>
  BY DEF Certs!Change, Certs!Relation, Certs!SslDir
<1>2. Answering'
  BY <1>1 DEF CertInv, Answering, Certs!Answered, Certs!Spared
<1>3. NamesFiles(certFiles, certLinks)' /\ NamesFiles(keyFiles, keyLinks)'
  BY <1>1 DEF CertInv, NamesFiles
<1>4. Installed' /\ AllLinked'
  BY <1>1 DEF Installed, AllLinked
<1> QED  BY <1>2, <1>3, <1>4 DEF CertInv

LEMMA RightKept ==
  ASSUME CertInv, UNCHANGED <<certExposed, override>>, Certs!Named' = Certs!Named,
         UNCHANGED <<certFiles, certLinks, keyFiles, keyLinks>>
  PROVE  NoNameLinked' /\ LinksRight'
BY DEF CertInv, NoNameLinked, LinksRight, Leads, Certs!Spared, Certs!NetworkOf

(* A binding that has a name from now on, or another one.                  *)
LEMMA Renamed ==
  ASSUME NamesApart, CertInv, NEW b \in Certs!BindingSet, CertOptions', UNCHANGED <<certExposed>>,
         UNCHANGED <<certFiles, certLinks, keyFiles, keyLinks>>,
         b \in bound' => Certs!MayName(b, override'[b]),
         \A c \in Certs!BindingSet \ {b} : override'[c] = override[c] /\ (c \in bound' <=> c \in bound),
         bound \subseteq bound'
  PROVE  NoNameLinked' /\ LinksRight'
<1>1. \A c : c \in Certs!Named' <=> c \in bound' /\ override'[c] # ""
  BY DEF Certs!Named
<1>2. bound' \subseteq Certs!BindingSet /\ bound \subseteq Certs!BindingSet
  BY DEF CertInv, CertOptions
<1>3. \A c : c # b => (c \in Certs!Named' <=> c \in Certs!Named)
  BY <1>1, <1>2 DEF Certs!Named
<1>4. ASSUME Certs!Spared({"linked_name"})
      PROVE  \A c \in Certs!Named' : certLinks[override'[c]] = ""
  <2>1. \A c \in Certs!Named : certLinks[override[c]] = ""
    BY <1>4 DEF CertInv, NoNameLinked
  <2>2. b \in Certs!Named' => certLinks[override'[b]] = ""
    BY <1>1, <1>4 DEF Certs!MayName, Certs!Unlinked, Certs!Spared
  <2> QED  BY <1>1, <1>2, <1>3, <2>1, <2>2
<1>5. ASSUME Certs!Spared({"moved", "linked_name", "same_name", "killed"}), NEW n \in CertAddresses
      PROVE  Leads(n, certLinks[n])'
  <2>1. Leads(n, certLinks[n]) /\ Host # "" /\ "" \notin OsHostNames
    BY <1>5 DEF CertInv, LinksRight, NamesApart
  <2>2. b \in bound' /\ n \in Certs!NetworkOf(IpOf[b]) => certLinks[n] = ""
    BY <1>5 DEF Certs!MayName, Certs!Unlinked, Certs!Spared
  <2> QED  BY <1>1, <1>2, <1>3, <2>1, <2>2 DEF Leads, Certs!NetworkOf, Certs!Named
<1>6. NoNameLinked'
  BY <1>4 DEF NoNameLinked, Certs!Spared
<1>7. LinksRight'
  BY <1>5 DEF LinksRight, CertInv, Certs!Spared
<1> QED  BY <1>6, <1>7

LEMMA ProcessStep ==
  ASSUME NamesApart, CertInv, NEW v \in Certs!Range(Providers), Certs!process_certificates(v)
  PROVE  CertInv'
<1>1. PICK place \in Certs!Orders(answers[v]) :
        /\ certFiles' = Certs!install_certs(certFiles, certLinks, answers[v], place)
        /\ keyFiles' = Certs!install_certs(keyFiles, keyLinks, answers[v], place)
        /\ certLinks' = Certs!create_ip_cert_links(certLinks, certFiles')
        /\ keyLinks' = Certs!create_ip_cert_links(keyLinks, certFiles')
  BY DEF Certs!process_certificates
<1>2. /\ Certs!Answered(v) /\ processed' = v
      /\ UNCHANGED <<certExposed, requested, answers, override, bound, vipsSet>>
  BY DEF Certs!process_certificates, Certs!Relation, Certs!Options
<1>3. CertOptions /\ DOMAIN answers[v] \subseteq CertNames /\ \A cn \in DOMAIN answers[v] : answers[v][cn].cn = cn
  BY DEF CertInv, Answering
<1>4. /\ NamesFiles(certFiles', certLinks) /\ NamesFiles(keyFiles', keyLinks)
      /\ OwnFiles(certFiles', certLinks, answers[v])
  <2>1. NamesFiles(certFiles, certLinks) /\ NamesFiles(keyFiles, keyLinks)
    BY DEF CertInv
  <2>2. NamesFiles(certFiles', certLinks)
    BY <1>1, <1>3, <2>1, InstalledFiles
  <2>3. NamesFiles(keyFiles', keyLinks)
    BY <1>1, <1>3, <2>1, InstalledFiles
  <2>4. OwnFiles(certFiles', certLinks, answers[v])
    BY <1>1, <1>3, <2>1, InstalledFiles
  <2> QED  BY <2>2, <2>3, <2>4
<1>5. /\ SomeMade(certFiles', certLinks, certLinks') /\ SomeMade(certFiles', keyLinks, keyLinks')
      /\ \A n \in Certs!FileNames : certLinks'[n] = "" => certLinks[n] = ""
  BY <1>1 DEF SomeMade, Certs!create_ip_cert_links
<1>6. CertOptions'
  BY <1>2, <1>3 DEF CertOptions, Certs!Spared
<1>7. Answering'
  BY <1>2 DEF CertInv, Answering, Certs!Answered, Certs!Spared
<1>8. NamesFiles(certFiles, certLinks)' /\ NamesFiles(keyFiles, keyLinks)'
  <2>1. NamesFiles(certFiles', certLinks') /\ NamesFiles(keyFiles', keyLinks')
    BY <1>3, <1>4, <1>5, LinksMade
  <2> QED  BY <2>1 DEF NamesFiles
<1>9. NoNameLinked'
  <2>1. ASSUME Certs!Spared({"linked_name"}), NEW b \in Certs!Named PROVE certLinks'[override[b]] = ""
    <3>1. override[b] \in OsHostNames /\ override[b] \in Certs!FileNames
      BY <1>3 DEF CertOptions, Certs!Named, Certs!FileNames
    <3>2. certLinks[override[b]] = ""
      BY <2>1 DEF CertInv, NoNameLinked
    <3> QED  BY <1>3, <1>5, <3>1, <3>2, LinkedRight DEF SomeMade
  <2> QED  BY <1>2, <2>1, RequestKept DEF NoNameLinked, Certs!Spared
<1>10. LinksRight'
  <2>1. ASSUME Certs!Spared({"moved", "linked_name", "same_name", "killed"}), NEW n \in CertAddresses
        PROVE  Leads(n, certLinks'[n])
    <3>1. n \in Certs!FileNames /\ Leads(n, certLinks[n])
      BY <2>1 DEF CertInv, LinksRight, CertAddresses, Certs!FileNames
    <3> QED  BY <1>3, <1>5, <3>1, LinkedRight DEF SomeMade
  <2>2. Certs!Spared({"moved", "linked_name", "same_name", "killed"}) => keyLinks' = certLinks' /\ keyFiles' = certFiles'
    BY <1>1 DEF CertInv, LinksRight
  <2>3. \A n \in CertAddresses : Leads(n, certLinks'[n]) => Leads(n, certLinks[n])'
    BY <1>2, RequestKept DEF Leads, Certs!NetworkOf
  <2> QED  BY <1>2, <2>1, <2>2, <2>3 DEF LinksRight, Certs!Spared
<1>11. Installed'
  <2>1. \A cn \in DOMAIN answers[v] : cn \in Certs!FileNames
    BY <1>3 DEF CertNames, Certs!FileNames
  <2> QED  BY <1>2, <1>4, <1>5, <2>1 DEF Installed, OwnFiles
<1>12. AllLinked'
  <2>1. NamesFiles(certFiles', certLinks)
    BY <1>4
  <2>2. ASSUME NEW cn \in DOMAIN Certs!get_certificate_request,
               certFiles'[Certs!Follow(certLinks', cn)] # Certs!NoCert,
               NEW n \in Certs!get_certificate_request[cn]
        PROVE  certFiles'[Certs!Follow(certLinks', n)] # Certs!NoCert
    BY <1>1, <1>3, <2>1, <2>2, MadeAll
  <2>3. Certs!get_certificate_request' = Certs!get_certificate_request
    BY <1>2, RequestKept
  <2> QED  BY <2>2, <2>3 DEF AllLinked, Certs!IsFile
<1> QED  BY <1>6, <1>7, <1>8, <1>9, <1>10, <1>11, <1>12 DEF CertInv

LEMMA KilledStep ==
  ASSUME NamesApart, CertInv, NEW v \in Certs!Range(Providers), Certs!Killed(v)
  PROVE  CertInv'
<1>1. PICK place \in Certs!Orders(answers[v]), m \in Certs!FileNames :
        /\ certFiles' = Certs!install_certs(certFiles, certLinks, answers[v], place)
        /\ keyFiles' = Certs!install_certs(keyFiles, keyLinks, answers[v], place)
        /\ Certs!LinkTo(certFiles', m) # ""
        /\ certLinks' = [certLinks EXCEPT ![m] = Certs!LinkTo(certFiles', m)]
  BY DEF Certs!Killed
<1>2. /\ Certs!Answered(v) /\ "killed" \in certExposed
      /\ UNCHANGED <<certExposed, requested, answers, override, bound, vipsSet, processed, keyLinks>>
  BY DEF Certs!Killed, Certs!Relation, Certs!Options
<1>3. CertOptions /\ DOMAIN answers[v] \subseteq CertNames /\ \A cn \in DOMAIN answers[v] : answers[v][cn].cn = cn
  BY DEF CertInv, Answering
<1>4. /\ NamesFiles(certFiles', certLinks) /\ NamesFiles(keyFiles', keyLinks)
      /\ OwnFiles(certFiles', certLinks, answers[v])
  <2>1. NamesFiles(certFiles, certLinks) /\ NamesFiles(keyFiles, keyLinks)
    BY DEF CertInv
  <2>2. NamesFiles(certFiles', certLinks)
    BY <1>1, <1>3, <2>1, InstalledFiles
  <2>3. NamesFiles(keyFiles', keyLinks)
    BY <1>1, <1>3, <2>1, InstalledFiles
  <2>4. OwnFiles(certFiles', certLinks, answers[v])
    BY <1>1, <1>3, <2>1, InstalledFiles
  <2> QED  BY <2>2, <2>3, <2>4
<1>5. /\ SomeMade(certFiles', certLinks, certLinks')
      /\ \A n \in Certs!FileNames : certLinks'[n] = "" => certLinks[n] = ""
  BY <1>1, <1>4 DEF SomeMade, NamesFiles
<1>6. CertOptions'
  BY <1>2, <1>3 DEF CertOptions, Certs!Spared
<1>7. Answering'
  BY <1>2 DEF CertInv, Answering, Certs!Answered, Certs!Spared
<1>8. NamesFiles(certFiles, certLinks)' /\ NamesFiles(keyFiles, keyLinks)'
  <2>1. NamesFiles(certFiles', certLinks') /\ NamesFiles(keyFiles', keyLinks')
    BY <1>2, <1>3, <1>4, <1>5, LinksMade
  <2> QED  BY <2>1 DEF NamesFiles
<1>9. NoNameLinked'
  <2>1. ASSUME Certs!Spared({"linked_name"}), NEW b \in Certs!Named PROVE certLinks'[override[b]] = ""
    <3>1. override[b] \in OsHostNames /\ override[b] \in Certs!FileNames
      BY <1>3 DEF CertOptions, Certs!Named, Certs!FileNames
    <3>2. certLinks[override[b]] = ""
      BY <2>1 DEF CertInv, NoNameLinked
    <3> QED  BY <1>3, <1>5, <3>1, <3>2, LinkedRight DEF SomeMade
  <2> QED  BY <1>2, <2>1, RequestKept DEF NoNameLinked, Certs!Spared
<1>10. LinksRight' /\ AllLinked'
  BY <1>2 DEF LinksRight, AllLinked, Certs!Spared
<1>11. Installed'
  <2>1. \A cn \in DOMAIN answers[v] : cn \in Certs!FileNames
    BY <1>3 DEF CertNames, Certs!FileNames
  <2>2. processed # "" => processed = v
    <3>1. Certs!Spared({"two_units"})
      <4>1. certExposed = {"killed"}
        BY <1>2, <1>3 DEF CertOptions
      <4> QED  BY <4>1 DEF Certs!Spared
    <3> QED  BY <1>2, <3>1 DEF CertInv, Answering
  <2> QED  BY <1>2, <1>4, <1>5, <2>1, <2>2 DEF Installed, OwnFiles
<1> QED  BY <1>6, <1>7, <1>8, <1>9, <1>10, <1>11 DEF CertInv

LEMMA CertInvStep == NamesApart /\ CertInv /\ [Certs!CertNext]_Certs!certVars => CertInv'
<1> SUFFICES ASSUME NamesApart, CertInv, [Certs!CertNext]_Certs!certVars
             PROVE  CertInv'
  OBVIOUS
<1>1. ASSUME UNCHANGED <<override, bound, vipsSet, certExposed, answers, processed>>,
             UNCHANGED <<certFiles, certLinks, keyFiles, keyLinks>>,
             DOMAIN requested' \subseteq CertNames
      PROVE  CertInv'
  <2>1. /\ Certs!get_certificate_request' = Certs!get_certificate_request
        /\ Certs!Named' = Certs!Named
    BY <1>1, RequestKept
  <2>2. CertOptions' /\ Answering'
    BY <1>1 DEF CertInv, CertOptions, Answering, Certs!Answered, Certs!Spared
  <2>3. NamesFiles(certFiles, certLinks)' /\ NamesFiles(keyFiles, keyLinks)'
    BY <1>1 DEF CertInv, NamesFiles
  <2>4. NoNameLinked' /\ LinksRight'
    BY <1>1, <2>1, RightKept
  <2>5. Installed' /\ AllLinked'
    BY <1>1, <2>1 DEF CertInv, Installed, OwnFiles, AllLinked, Certs!IsFile, Certs!Follow, Certs!Spared
  <2> QED  BY <2>2, <2>3, <2>4, <2>5 DEF CertInv
<1>2. CASE UNCHANGED Certs!certVars
  BY <1>1, <1>2 DEF Certs!certVars, CertInv, Answering
<1>3. CASE Certs!Request
  <2>1. DOMAIN Certs!get_certificate_request \subseteq CertNames
    BY Requested DEF CertInv
  <2> QED  BY <1>1, <1>3, <2>1 DEF Certs!Request, Certs!Options, Certs!SslDir
<1>4. ASSUME NEW v \in Certs!Range(Providers), Certs!Answer(v) PROVE CertInv'
  <2>1. /\ (\A w \in Certs!Range(Providers) \ {v} : ~Certs!Answered(w)) \/ "two_units" \in certExposed
        /\ answers' = [answers EXCEPT ![v] =
                         [cn \in DOMAIN requested |->
                            [cn |-> cn, sans |-> requested[cn], issue |-> issued']]]
        /\ processed' = "" /\ UNCHANGED <<certExposed, requested, override, bound, vipsSet>>
        /\ UNCHANGED <<certFiles, certLinks, keyFiles, keyLinks>>
    BY <1>4 DEF Certs!Answer, Certs!Options, Certs!SslDir
  <2>2. /\ DOMAIN answers' = Certs!Range(Providers)
        /\ DOMAIN (answers'[v]) = DOMAIN requested
        /\ \A cn \in DOMAIN requested : answers'[v][cn].cn = cn
        /\ \A w \in Certs!Range(Providers) \ {v} : answers'[w] = answers[w]
    BY <2>1 DEF CertInv, Answering
  <2>3. Answering'
    BY <2>1, <2>2 DEF CertInv, Answering, Certs!Answered, Certs!Spared
  <2>4. CertOptions' /\ NamesFiles(certFiles, certLinks)' /\ NamesFiles(keyFiles, keyLinks)'
    BY <2>1 DEF CertInv, CertOptions, NamesFiles, Certs!Spared
  <2>5. NoNameLinked' /\ LinksRight'
    BY <2>1, RequestKept, RightKept
  <2>6. Installed' /\ AllLinked'
    BY <2>1 DEF Installed, AllLinked
  <2> QED  BY <2>3, <2>4, <2>5, <2>6 DEF CertInv
<1>5. ASSUME NEW v \in Certs!Range(Providers), Certs!process_certificates(v) PROVE CertInv'
  BY <1>5, ProcessStep
<1>6. ASSUME NEW v \in Certs!Range(Providers), Certs!Killed(v) PROVE CertInv'
  BY <1>6, KilledStep
<1>7. ASSUME Certs!Change
      PROVE  UNCHANGED <<certExposed>> /\ UNCHANGED <<certFiles, certLinks, keyFiles, keyLinks>>
  BY <1>7 DEF Certs!Change, Certs!SslDir
<1>8. ASSUME NEW b \in Certs!BindingSet, NEW n \in OsHostNames \union {""}, Certs!SetName(b, n)
      PROVE  CertInv'
  <2>1. /\ Certs!Change /\ (b \in bound => Certs!MayName(b, n))
        /\ n # "" /\ (\E c \in Certs!BindingSet \ {b} : override[c] = n) => "same_name" \in certExposed
        /\ override' = [override EXCEPT ![b] = n] /\ bound' = bound /\ vipsSet' = vipsSet
    BY <1>8 DEF Certs!SetName
  <2>2. /\ override' \in [Certs!BindingSet -> OsHostNames \union {""}] /\ override'[b] = n
        /\ \A c \in Certs!BindingSet \ {b} : override'[c] = override[c]
    BY <2>1 DEF CertInv, CertOptions
  <2>3. CertOptions'
    BY <1>7, <2>1, <2>2 DEF CertInv, CertOptions, Certs!Spared
  <2>4. NoNameLinked' /\ LinksRight'
    BY <1>7, <2>1, <2>2, <2>3, Renamed
  <2> QED  BY <2>1, <2>3, <2>4, ChangeStep
<1>9. ASSUME NEW new \in {{}, Certs!VIPs}, Certs!SetVips(new) PROVE CertInv'
  <2>1. Certs!Change /\ vipsSet' \subseteq Certs!VIPs /\ UNCHANGED <<override, bound>>
    BY <1>9 DEF Certs!SetVips
  <2>2. CertOptions'
    BY <1>7, <2>1 DEF CertInv, CertOptions, Certs!Spared
  <2>3. NoNameLinked' /\ LinksRight'
    <3>1. Certs!Named' = Certs!Named
      BY <2>1 DEF Certs!Named
    <3> QED  BY <1>7, <2>1, <3>1, RightKept
  <2> QED  BY <2>1, <2>2, <2>3, ChangeStep
<1>10. ASSUME NEW b \in Certs!BindingSet, Certs!Bind(b) PROVE CertInv'
  <2>1. /\ Certs!Change /\ b \notin bound /\ (override[b] # "" => Certs!MayName(b, override[b]))
        /\ bound' = bound \union {b} /\ UNCHANGED <<override, vipsSet>>
    BY <1>10 DEF Certs!Bind
  <2>2. CertOptions'
    BY <1>7, <2>1 DEF CertInv, CertOptions, Certs!Spared
  <2>3. CASE override[b] # ""
    <3>1. NoNameLinked' /\ LinksRight'
      BY <1>7, <2>1, <2>2, <2>3, Renamed
    <3> QED  BY <2>1, <2>2, <3>1, ChangeStep
  <2>4. CASE override[b] = ""
    <3>1. Certs!Named' = Certs!Named
      BY <2>1, <2>4 DEF Certs!Named
    <3>2. NoNameLinked' /\ LinksRight'
      BY <1>7, <2>1, <3>1, RightKept
    <3> QED  BY <2>1, <2>2, <3>2, ChangeStep
  <2> QED  BY <2>3, <2>4
<1> QED  BY <1>2, <1>3, <1>4, <1>5, <1>6, <1>8, <1>9, <1>10 DEF Certs!CertNext

(* What is requested with a name: addresses and other names.               *)
LEMMA RequestedWith ==
  ASSUME NamesApart, CertOptions, NEW cn \in DOMAIN Certs!get_certificate_request,
         NEW n \in Certs!get_certificate_request[cn], n # cn
  PROVE  /\ n # Host
         /\ n \in Certs!IPs \union vipsSet \/ (n \in OsHostNames /\ cn = Host)
<1>1. \A b \in Certs!Named : IpOf[b] \in Certs!IPs
  BY Elements DEF CertOptions, Certs!Named
<1>2. vipsSet \subseteq Certs!VIPs /\ Host \notin OsHostNames /\ Host \notin Certs!IPs \union Certs!VIPs
  BY DEF CertOptions, NamesApart
<1>3. \A ip \in Certs!IPs : Certs!InNetworkOf(ip) \subseteq Certs!IPs \union vipsSet
  BY DEF Certs!InNetworkOf, Certs!get_vip_in_network
<1>4. CASE cn = Host
  BY <1>2, <1>4, Requested
<1>5. CASE cn # Host
  BY <1>1, <1>2, <1>3, <1>5, Requested
<1> QED  BY <1>4, <1>5

(* Where a link leads, what it is for is requested.                        *)
LEMMA WellLed ==
  ASSUME NamesApart, CertInv, Certs!Spared({"linked_name"}), Certs!Spared({"same_name"}),
         NEW cn \in DOMAIN Certs!get_certificate_request,
         NEW n \in Certs!get_certificate_request[cn], n # cn, certLinks[n] # "",
         \A a \in CertAddresses : Leads(a, certLinks[a])
  PROVE  /\ n \in Certs!FileNames /\ certLinks[n] \in DOMAIN Certs!get_certificate_request
         /\ n \in Certs!get_certificate_request[certLinks[n]]
<1> DEFINE req == Certs!get_certificate_request
<1>1. CertOptions /\ n \in Certs!FileNames /\ Host \in DOMAIN req
  BY RequestedAreNames, Requested DEF CertInv
<1>2. /\ certLinks[n] \in CertNames /\ Host \notin OsHostNames /\ Certs!IPs \cap Certs!VIPs = {}
      /\ n \in OsHostNames => certLinks[n] = Host
  <2>1. NamesFiles(certFiles, certLinks)
    BY DEF CertInv
  <2>2. Host \notin OsHostNames /\ Certs!IPs \cap Certs!VIPs = {}
    BY DEF NamesApart
  <2> QED  BY <1>1, <2>1, <2>2 DEF NamesFiles
<1>3. n \in Certs!IPs \union vipsSet \/ (n \in OsHostNames /\ cn = Host)
  BY <1>1, RequestedWith
<1>4. CASE n \in OsHostNames /\ cn = Host
  BY <1>1, <1>2, <1>4
<1>5. CASE n \in Certs!IPs \union vipsSet
  <2>1. Leads(n, certLinks[n])
    BY <1>1, <1>5 DEF CertAddresses, CertOptions
  <2>2. \A ip \in Certs!IPs : /\ Certs!InNetworkOf(ip) \subseteq Certs!NetworkOf(ip)
                              /\ n \in Certs!NetworkOf(ip) => n \in Certs!InNetworkOf(ip)
    <3>1. vipsSet \subseteq Certs!VIPs
      BY <1>1 DEF CertOptions
    <3>2. ASSUME NEW ip \in Certs!IPs, n \in Certs!NetworkOf(ip) PROVE n = ip \/ n \in vipsSet
      <4>1. n \in {ip} \union Certs!VIPs
        BY <3>2, Elements
      <4> QED  BY <1>2, <1>5, <4>1
    <3>3. \A ip \in Certs!IPs :
            Certs!InNetworkOf(ip) = {m \in Certs!NetworkOf(ip) : m = ip \/ m \in vipsSet}
      BY Elements
    <3> QED  BY <3>2, <3>3
  <2>3. Private \in Certs!IPs /\ \A b \in Certs!Named : b \in Certs!BindingSet /\ IpOf[b] \in Certs!IPs
    BY <1>1, Elements DEF CertOptions, Certs!Named
  <2>4. cn = Host \/ \E b \in Certs!Named : n \in Certs!InNetworkOf(IpOf[b])
    <3>1. ASSUME cn # Host PROVE \E b \in Certs!Named : n \in Certs!InNetworkOf(IpOf[b])
      <4>1. PICK b \in Certs!Named : req[cn] = {cn} \union Certs!InNetworkOf(IpOf[b])
        BY <1>1, <3>1, Requested
      <4> QED  BY <4>1
    <3> QED  BY <3>1
  <2>5. CASE certLinks[n] = Host
    <3>1. CASE n \in Certs!NetworkOf(Private)
      BY <1>1, <2>2, <2>3, <2>5, <3>1, Requested
    <3>2. CASE \A b \in Certs!Named : n \notin Certs!NetworkOf(IpOf[b])
      BY <1>1, <2>2, <2>3, <2>4, <2>5, <3>2
    <3> QED  BY <2>1, <2>5, <3>1, <3>2 DEF Leads
  <2>6. CASE certLinks[n] \in OsHostNames
    <3>1. PICK b \in Certs!Named : override[b] = certLinks[n] /\ n \in Certs!NetworkOf(IpOf[b])
      BY <2>1, <2>6 DEF Leads
    <3>2. certLinks[n] \in DOMAIN req \ {Host}
      <4>1. DOMAIN req = {override[d] : d \in Certs!Named} \union {Host}
        BY <1>1, Requested
      <4> QED  BY <1>2, <2>6, <3>1, <4>1
    <3>3. PICK c \in Certs!Named : override[c] = certLinks[n] /\ req[certLinks[n]] = {certLinks[n]} \union Certs!InNetworkOf(IpOf[c])
      BY <1>1, <3>2, Requested
    <3>4. c = b
      BY <1>1, <2>3, <3>1, <3>3 DEF CertOptions
    <3> QED  BY <1>1, <2>2, <2>3, <3>1, <3>2, <3>3, <3>4
  <2> QED  BY <1>2, <2>5, <2>6 DEF CertNames
<1> QED  BY <1>3, <1>4, <1>5

(* Each name that is requested has its certificate in its own file, and    *)
(* each address leads to a name that it is requested with.                 *)
LEMMA CertServed == NamesApart /\ CertInv => Certs!EachAddressServed
<1> SUFFICES ASSUME NamesApart, CertInv, Certs!Settled PROVE Certs!EachAddressServed
  BY DEF Certs!EachAddressServed
<1> DEFINE req == Certs!get_certificate_request
<1>1. CertOptions
  BY DEF CertInv
<1>2. /\ processed # "" /\ processed \in Certs!Range(Providers) /\ Certs!Answered(processed)
      /\ DOMAIN answers[processed] = DOMAIN req
      /\ \A cn \in DOMAIN req : answers[processed][cn].sans = req[cn] /\ answers[processed][cn].cn = cn
  <2>1. /\ processed # ""
        /\ [cn \in DOMAIN answers[processed] |-> answers[processed][cn].sans] = req
    BY DEF Certs!Settled
  <2> QED  BY <2>1 DEF CertInv, Answering
<1>3. /\ DOMAIN req = {override[b] : b \in Certs!Named} \union {Host} /\ DOMAIN req \subseteq CertNames
      /\ CertNames \subseteq Certs!FileNames /\ "" \notin CertNames
  BY <1>1, Requested DEF CertNames, Certs!FileNames, NamesApart
<1>4. ASSUME Certs!Spared({"linked_name"}), NEW cn \in DOMAIN req
      PROVE  certLinks[cn] = "" /\ Certs!Follow(certLinks, cn) = cn /\ certFiles[cn] = answers[processed][cn]
  <2>1. \A c \in DOMAIN req : certLinks[c] = ""
    <3>1. certLinks[Host] = "" /\ \A b \in Certs!Named : certLinks[override[b]] = ""
      BY <1>4 DEF CertInv, NoNameLinked, NamesFiles
    <3> QED  BY <1>3, <3>1
  <2>2. certFiles[cn] = answers[processed][cn]
    BY <1>2, <2>1 DEF CertInv, Installed, OwnFiles
  <2> QED  BY <2>1, <2>2 DEF Certs!Follow
<1>5. ASSUME Certs!Spared({"moved", "linked_name", "same_name", "killed"}),
             NEW cn \in DOMAIN req, NEW n \in req[cn] \union {cn}
      PROVE  n \in Certs!Cert(n).sans \union {Certs!Cert(n).cn} /\ Certs!Key(n) = Certs!Cert(n)
  <2>1. /\ Certs!Spared({"linked_name"}) /\ Certs!Spared({"same_name"}) /\ Certs!Spared({"killed"})
        /\ keyLinks = certLinks /\ keyFiles = certFiles
        /\ \A a \in CertAddresses : Leads(a, certLinks[a])
    BY <1>5 DEF CertInv, LinksRight, Certs!Spared
  <2>2. Certs!Key(n) = Certs!Cert(n)
    BY <2>1 DEF Certs!Key, Certs!Cert
  <2>3. \A c \in DOMAIN req : /\ certLinks[c] = "" /\ Certs!Follow(certLinks, c) = c
                              /\ certFiles[c].sans = req[c] /\ certFiles[c].cn = c
                              /\ certFiles[c] = answers[processed][c]
    BY <1>2, <1>4, <2>1
  <2>4. CASE n = cn
    BY <2>2, <2>3, <2>4 DEF Certs!Cert
  <2>5. CASE n \in req[cn] /\ certLinks[n] = "" /\ n # cn
    <3>1. Certs!IsFile(certFiles, cn)
      <4>1. certFiles[cn].cn # ""
        BY <1>3, <2>3
      <4>2. Certs!NoCert.cn = ""
        BY DEF Certs!NoCert
      <4>3. certFiles[cn] # Certs!NoCert
        BY <4>1, <4>2
      <4> QED  BY <2>3, <4>3 DEF Certs!IsFile
    <3>2. Certs!IsFile(certFiles, n)
      BY <1>2, <2>1, <2>5, <3>1 DEF CertInv, AllLinked
    <3>3. n \in Certs!FileNames /\ n # Host
      <4>1. n \in Certs!FileNames
        BY <1>1, <2>5, RequestedAreNames
      <4> QED  BY <4>1, <1>1, <2>5, RequestedWith
    <3>4. Certs!Cert(n) = certFiles[n] /\ certFiles[n] # Certs!NoCert
      BY <2>5, <3>2 DEF Certs!IsFile, Certs!Cert, Certs!Follow
    <3> QED  BY <2>2, <3>3, <3>4 DEF CertInv, NamesFiles
  <2>6. CASE n \in req[cn] /\ certLinks[n] # "" /\ n # cn
    <3>1. /\ n \in Certs!FileNames /\ certLinks[n] \in DOMAIN req
          /\ n \in req[certLinks[n]]
      BY <1>1, <2>1, <2>6, WellLed
    <3>2. Certs!Cert(n) = certFiles[certLinks[n]]
      BY <2>3, <2>6, <3>1 DEF Certs!Cert, Certs!Follow
    <3> QED  BY <2>2, <2>3, <3>1, <3>2
  <2> QED  BY <2>4, <2>5, <2>6
<1>6. ASSUME Certs!Spared({"same_name"}), NEW b \in bound, NEW n \in Certs!InNetworkOf(IpOf[b])
      PROVE  \E cn \in DOMAIN req : n \in req[cn]
  <2>1. \A c \in Certs!Named : Certs!Override(c) = {override[c]} /\ c \in Certs!BindingSet
    BY <1>1 DEF Certs!Override, Certs!Named, CertOptions
  <2>2. ASSUME NEW c \in Certs!Named, n \in {override[c]} \union Certs!InNetworkOf(IpOf[c])
        PROVE  override[c] \in DOMAIN req /\ n \in req[override[c]]
    <3>1. override[c] \in DOMAIN req \ {Host} /\ override[c] # ""
      <4>1. override[c] # "" /\ c \in Certs!BindingSet
        BY <2>1 DEF Certs!Named
      <4>2. override[c] \in OsHostNames /\ Host \notin OsHostNames
        BY <1>1, <4>1 DEF NamesApart, CertOptions
      <4> QED  BY <1>3, <4>1, <4>2
    <3>2. PICK d \in Certs!Named : /\ override[d] = override[c]
                                   /\ req[override[c]] = {override[c]} \union Certs!InNetworkOf(IpOf[d])
      BY <1>1, <3>1, Requested
    <3>3. d = c
      BY <1>1, <1>6, <2>1, <3>1, <3>2 DEF CertOptions
    <3> QED  BY <2>2, <3>1, <3>2, <3>3
  <2>3. CASE \A c \in Certs!Named : n \notin {override[c]} \union Certs!InNetworkOf(IpOf[c])
    <3>1. b \in Certs!BindingSet
      BY <1>1 DEF CertOptions
    <3>2. n \in Certs!get_certificate_sans
      BY <1>6, <3>1 DEF Certs!get_certificate_sans
    <3>3. n \notin UNION {Certs!EntryOf(c) : c \in Certs!Named}
      BY <2>1, <2>3 DEF Certs!EntryOf
    <3>4. n \in req[Host] /\ Host \in DOMAIN req
      BY <1>3, <3>2, <3>3 DEF Certs!get_certificate_request
    <3> QED  BY <3>4
  <2> QED  BY <2>2, <2>3
<1>7. ASSUME Certs!Spared({"two_units", "linked_name"}), NEW cn \in DOMAIN req
      PROVE  Certs!get_bundle_for_cn(cn) = Certs!Cert(cn)
  <2>1. Certs!Spared({"two_units"}) /\ Certs!Spared({"linked_name"})
    BY <1>7 DEF Certs!Spared
  <2> DEFINE with == {i \in Certs!get_requests_for_local_unit : cn \in DOMAIN answers[Providers[i]]}
  <2>2. \A i \in with : i \in DOMAIN Providers /\ Providers[i] = processed
    BY <1>2, <2>1 DEF CertInv, Answering, Certs!get_requests_for_local_unit, Certs!Range
  <2>3. with # {}
    <3>1. PICK i \in DOMAIN Providers : Providers[i] = processed
      BY <1>2 DEF Certs!Range
    <3>2. i \in with
      BY <1>2, <3>1 DEF Certs!get_requests_for_local_unit
    <3> QED  BY <3>2
  <2>4. with \in SUBSET Nat
    <3>1. Providers \in Seq(Certs!Range(Providers))
      BY DEF NamesApart
    <3>2. DOMAIN Providers \in SUBSET Nat
      BY <3>1
    <3> QED  BY <2>2, <3>2
  <2>5. Certs!Min(with) \in with
    BY <2>3, <2>4, CertMin
  <2>6. Certs!get_bundle_for_cn(cn) = answers[processed][cn]
    BY <2>2, <2>3, <2>5 DEF Certs!get_bundle_for_cn
  <2> QED  BY <1>4, <2>1, <2>6 DEF Certs!Cert
<1> QED  BY <1>5, <1>6, <1>7 DEF Certs!EachAddressServed

(* Once the answer to what a unit needs now was processed, each of its     *)
(* names and addresses finds a certificate that covers it, with its key,   *)
(* through files and links of earlier answers.                             *)
THEOREM AddressesAreServed == DeploymentSpec => []EachAddressServed
<1>1. DeploymentInit => (part = "certs" => CertInv)
  BY Starts, CertInvInit, CertsAssumption
<1>2. (part = "certs" => CertInv) /\ [DeploymentNext]_deploymentVars => (part = "certs" => CertInv)'
  BY Steps, CertInvStep, CertsAssumption
<1>3. (part = "certs" => CertInv) => EachAddressServed
  BY CertServed, CertsAssumption DEF EachAddressServed
<1> QED  BY <1>1, <1>2, <1>3, PTL DEF DeploymentSpec
=============================================================================
