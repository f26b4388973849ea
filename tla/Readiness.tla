---- MODULE Readiness ----
(***************************************************************************)
(* When the units of an API application are ready together                 *)
(* (contrib/openstack/utils): each tells its peers on the peer relation    *)
(* whether it is ready, and one that is ready and has heard the same from  *)
(* all of its peers reports the application ready.                         *)
(***************************************************************************)
EXTENDS Integers, FiniteSets

CONSTANTS
  ApiUnits, \* units that the application may have
  First,    \* the units that it is deployed with
  DbUnits   \* the units of the database

(***************************************************************************)
(* scale_out     a unit is added                                           *)
(* pausing       a unit is paused                                          *)
(* no_goal_state Juju is too old for goal-state                            *)
(* replaced      the database withdraws a unit from its list               *)
(***************************************************************************)
ReadyHazards == {"scale_out", "pausing", "no_goal_state", "replaced"}

VARIABLES
  readyExposed, \* the hazards of this application; never changes
  goal,         \* the units in goal-state
  sees,         \* sees[u]: the peers that have joined at u
  dbSees,       \* dbSees[u]: the database's units that have joined at u
  haSees,       \* the units that the local hacluster unit has joined
  ha,           \* whether goal-state or the options tell of hacluster
  allowedUnits, \* allowedUnits[d]: allowed_units of d on shared-db
  upgrading,    \* the database's units that announce their series upgrade
  dbInit,       \* db-initialised in leader storage
  unitPaused,   \* the units whose flag is set
  announced          \* announced[u]: the state of u on the peer relation

readyVars == <<readyExposed, goal, sees, dbSees, haSees, ha, allowedUnits, upgrading, dbInit,
               unitPaused, announced>>

Spared(hazards) == readyExposed \cap hazards = {}
-----------------------------------------------------------------------------
(***************************************************************************)
(* What a unit finds in one of its hooks.                                  *)
(***************************************************************************)
is_db_maintenance_mode(u) == dbSees[u] \cap upgrading # {}
is_db_ready(u) == \E d \in dbSees[u] : u \in allowedUnits[d]
is_db_initialised == dbInit

expected_peer_units(u) == goal \ {u}

\* shared-db is expected always, ha only if expect_ha; the count of ha is 1
\* since its scope is the machine
is_expected_scale(u) ==
  \/ "no_goal_state" \in readyExposed /\ dbSees[u] # {} /\ (ha => u \in haSees)
  \/ /\ Cardinality(sees[u]) >= Cardinality(expected_peer_units(u))
     /\ dbSees[u] # {} /\ Cardinality(dbSees[u]) >= Cardinality(DbUnits)
     /\ ha => u \in haSees

get_api_unit_status(u) ==
  IF is_db_maintenance_mode(u) THEN "maintenance"
  ELSE IF u \in unitPaused THEN "blocked"
  ELSE IF ~is_db_ready(u) \/ ~is_db_initialised \/ ~is_expected_scale(u) THEN "waiting"
  ELSE "active"

check_api_unit_ready(u) == get_api_unit_status(u) = "active"

get_peers_unit_state_AsReady(u) == [v \in sees[u] |-> IF announced[v] = "" THEN "READY" ELSE announced[v]]

get_peers_unit_state(u) == [v \in sees[u] |-> IF announced[v] = "" THEN "UNKNOWN" ELSE announced[v]]

are_peers_ready(u) == \A v \in sees[u] : get_peers_unit_state(u)[v] = "READY"

check_api_application_ready(u) == check_api_unit_ready(u) /\ are_peers_ready(u)
-----------------------------------------------------------------------------
(***************************************************************************)
(* Hooks, and what happens around the application.                         *)
(***************************************************************************)
inform_peers_if_ready(u) ==
  /\ u \in goal
  /\ announced' = [announced EXCEPT ![u] = IF check_api_unit_ready(u) THEN "READY" ELSE "NOTREADY"]
  /\ UNCHANGED <<readyExposed, goal, sees, dbSees, haSees, ha, allowedUnits, upgrading, dbInit,
                 unitPaused>>

PeersMeet(u, v) ==
  /\ u \in goal /\ v \in goal \ (sees[u] \cup {u})
  /\ sees' = [sees EXCEPT ![u] = @ \cup {v}]
  /\ UNCHANGED <<readyExposed, goal, dbSees, haSees, ha, allowedUnits, upgrading, dbInit,
                 unitPaused, announced>>

DatabaseJoins(u, d) ==
  /\ u \in goal /\ d \notin dbSees[u]
  /\ dbSees' = [dbSees EXCEPT ![u] = @ \cup {d}]
  /\ UNCHANGED <<readyExposed, goal, sees, haSees, ha, allowedUnits, upgrading, dbInit,
                 unitPaused, announced>>

HaJoins(u) ==
  /\ ha /\ u \in goal \ haSees
  /\ haSees' = haSees \cup {u}
  /\ UNCHANGED <<readyExposed, goal, sees, dbSees, ha, allowedUnits, upgrading, dbInit,
                 unitPaused, announced>>

\* The database's unit d lists u, or no longer
Grant(u, d) ==
  /\ d \in dbSees[u]
  /\ \/ u \notin allowedUnits[d]
     \/ "replaced" \in readyExposed
  /\ allowedUnits' = [allowedUnits EXCEPT ![d] = IF u \in @ THEN @ \ {u} ELSE @ \cup {u}]
  /\ UNCHANGED <<readyExposed, goal, sees, dbSees, haSees, ha, upgrading, dbInit, unitPaused, announced>>

SeriesUpgrade(d) ==
  /\ upgrading' = IF d \in upgrading THEN upgrading \ {d} ELSE upgrading \cup {d}
  /\ UNCHANGED <<readyExposed, goal, sees, dbSees, haSees, ha, allowedUnits, dbInit, unitPaused,
                 announced>>

\* The leader migrates the database when it may use it
set_db_initialised ==
  /\ ~dbInit /\ \E u \in goal : is_db_ready(u)
  /\ dbInit' = TRUE
  /\ UNCHANGED <<readyExposed, goal, sees, dbSees, haSees, ha, allowedUnits, upgrading,
                 unitPaused, announced>>

PauseOrResume(u) ==
  /\ "pausing" \in readyExposed /\ u \in goal
  /\ unitPaused' = IF u \in unitPaused THEN unitPaused \ {u} ELSE unitPaused \cup {u}
  /\ UNCHANGED <<readyExposed, goal, sees, dbSees, haSees, ha, allowedUnits, upgrading, dbInit,
                 announced>>

AddUnit(u) ==
  /\ "scale_out" \in readyExposed /\ u \notin goal
  /\ goal' = goal \cup {u}
  /\ UNCHANGED <<readyExposed, sees, dbSees, haSees, ha, allowedUnits, upgrading, dbInit,
                 unitPaused, announced>>

ReadyInit ==
  /\ readyExposed \in {{}} \cup {{h} : h \in ReadyHazards}
  /\ goal = First /\ ha \in BOOLEAN /\ haSees = {}
  /\ sees = [u \in ApiUnits |-> {}] /\ dbSees = sees
  /\ allowedUnits = [d \in DbUnits |-> {}]
  /\ upgrading = {} /\ dbInit = FALSE /\ unitPaused = {}
  /\ announced = [u \in ApiUnits |-> ""]

ReadyNext ==
  \/ set_db_initialised
  \/ \E u \in ApiUnits : \/ inform_peers_if_ready(u) \/ HaJoins(u)
                         \/ PauseOrResume(u) \/ AddUnit(u)
  \/ \E u, v \in ApiUnits : PeersMeet(u, v)
  \/ \E u \in ApiUnits, d \in DbUnits : DatabaseJoins(u, d) \/ Grant(u, d)
  \/ \E d \in DbUnits : SeriesUpgrade(d)

ReadySpec == ReadyInit /\ [][ReadyNext]_readyVars
-----------------------------------------------------------------------------
\* When a unit reports the application ready, each unit of it is ready: none
\* is unknown to the reporter, none still waits for its database, its peers or
\* its cluster, and what peers announced earlier is still so. While the
\* application is scaled out, each unit at least may use the database.
ReadyTogether ==
  \A u \in goal : check_api_application_ready(u) =>
    /\ Spared(ReadyHazards) => \A v \in goal : check_api_unit_ready(v)
    /\ "scale_out" \in readyExposed => \A v \in goal : is_db_ready(v)
====
