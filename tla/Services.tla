------------------------------ MODULE Services -------------------------------
(***************************************************************************)
(* charmhelpers/core/services/base.py: the ServiceManager of one unit.     *)
(* Every hook brings each service in line with its required data: one whose *)
(* data is complete is configured, restarted and has its ports opened, one *)
(* whose data is missing has its ports closed and is stopped.  What earlier *)
(* hooks did is known from two kinds of files, which are written on the way. *)
(*                                                                         *)
(* The calls that change something outside the process are steps of their  *)
(* own: the hook may fail between any two of them.  Juju opens and closes  *)
(* ports when the hook has succeeded, and forgets about it when it fails.  *)
(***************************************************************************)
EXTENDS Naturals, Sequences, SequencesExt

CONSTANTS
  Order,        \* the services, in the order they are registered
  PortLists,    \* PortLists[s]: the lists of ports s may be defined with
  ICMP,         \* the entry of such a list that is no number
  Hazards       \* "failure": a callback or a hook tool may raise, and
                \* "new_ports": definitions of ports change

Services == ToSet(Order)
Own(s) == UNION {ToSet(list) : list \in PortLists[s]}

ASSUME OrderAssumption == Order \in Seq(Services) /\ IsInjective(Order)
ASSUME PortListsAssumption == \A s \in Services : PortLists[s] \subseteq Seq(Own(s))
ASSUME ServicesHazardsAssumption == Hazards \subseteq {"failure", "new_ports"}

VARIABLES
  charm,        \* the hazards the charm is exposed to; never changes
  avail,        \* services all of whose required_data is complete
  ports,        \* ports[s]: the list of ports in the definition of s
  ready,        \* READY-SERVICES.json
  portFile,     \* portFile[s]: the list in .s.ports
  opened,       \* the ports that Juju has open for the unit
  pending,      \* those it will have open if the hook succeeds
  running,      \* services the host runs
  told,         \* services whose remote services were told they are ready
  phase,        \* "idle", "managing" or "failed"
  hook,         \* name of the hook: "stop" or any "other"
  todo,         \* services that manage() has yet to do; it is at the first one
  call,         \* what it does next for that one
  left,         \* ports that the loop it is in, or comes to, has yet to see
  configured    \* history: services told data_ready, and not data_lost since

vars == <<charm, avail, ports, ready, portFile, opened, pending, running, told,
          phase, hook, todo, call, left, configured>>

-----------------------------------------------------------------------------
(* Each definition whose name ends in an underscore and a remark is the one *)
(* after it with a mistake that could be made in the code; Spec uses none. *)

(* reconfigure_services() and stop_services(): what a service begins with. *)
Starts(s) == hook # "stop" /\ s \in avail

FirstCall_OnlyChanges(name, s) ==
  IF name # "stop" /\ s \in avail /\ s \notin ready THEN "data_ready"
  ELSE IF name # "stop" /\ s \notin avail /\ s \in ready THEN "data_lost"
  ELSE "close_old"

FirstCall(name, s) ==
  IF name = "stop" THEN "close_old"
  ELSE IF s \in avail THEN "data_ready"
  ELSE IF s \in ready THEN "data_lost"
  ELSE "close_old"

(* The loop over the services comes to the first of these. *)
Begin(name, services) ==
  /\ todo' = services
  /\ call' = IF services = << >> THEN "none" ELSE FirstCall(name, Head(services))
  /\ left' = IF services = << >> THEN << >> ELSE portFile[Head(services)]

At(s, c) == phase = "managing" /\ todo # << >> /\ s = Head(todo) /\ call = c
Then(c) == call' = c /\ UNCHANGED todo
GivenUnchanged == UNCHANGED <<charm, avail, ports, opened, told, phase, hook>>

-----------------------------------------------------------------------------
Init ==
  /\ charm \in SUBSET Hazards
  /\ avail = {}
  /\ ports \in [Services -> UNION {PortLists[s] : s \in Services}]
  /\ \A s \in Services : ports[s] \in PortLists[s]
  /\ ready = {}
  /\ portFile = [s \in Services |-> <<>>]
  /\ opened = {}
  /\ pending = {}
  /\ running = {}
  /\ told = {}
  /\ phase = "idle"
  /\ hook = "other"
  /\ todo = <<>> /\ call = "none" /\ left = <<>>
  /\ configured = {}

(* Relations and configuration change between the hooks. *)
ChangeData(s) ==
  /\ phase # "managing"
  /\ avail' = IF s \in avail THEN avail \ {s} ELSE avail \union {s}
  /\ UNCHANGED <<charm, ports, ready, portFile, opened, pending, running, told,
                 phase, hook, todo, call, left, configured>>

ChangePorts(s) ==
  /\ "new_ports" \in charm
  /\ phase # "managing"
  /\ \E list \in PortLists[s] \ {ports[s]} : ports' = [ports EXCEPT ![s] = list]
  /\ UNCHANGED <<charm, avail, ready, portFile, opened, pending, running, told,
                 phase, hook, todo, call, left, configured>>

(* A hook starts, or a failed one is run again; manage() goes through the   *)
(* services in their order.                                                *)
StartHook(name) ==
  /\ phase = "idle" \/ (phase = "failed" /\ hook = name)
  /\ phase' = "managing"
  /\ hook' = name
  /\ Begin(name, Order)
  /\ pending' = opened
  /\ UNCHANGED <<charm, avail, ports, ready, portFile, opened, running, told,
                 configured>>

-----------------------------------------------------------------------------
(* The calls of manage() for a service. *)

DataReady(s) ==
  /\ At(s, "data_ready")
  /\ configured' = configured \union {s}
  /\ Then("service_restart")
  /\ GivenUnchanged /\ UNCHANGED <<ready, portFile, pending, running, left>>

ServiceRestart(s) ==
  /\ At(s, "service_restart")
  /\ running' = running \union {s}
  /\ Then("close_old")
  /\ GivenUnchanged /\ UNCHANGED <<ready, portFile, pending, left, configured>>

DataLost(s) ==
  /\ At(s, "data_lost")
  /\ configured' = configured \ {s}
  /\ Then("close_old")
  /\ GivenUnchanged /\ UNCHANGED <<ready, portFile, pending, running, left>>

(* PortManagerCallback: close what the last definition had and this has not, *)
(* remember this one, and open or close its ports.  close_port() is not     *)
(* told that an old port is ICMP, and Juju refuses ICMP/TCP.               *)
Old(s) == left # << >> /\ Head(left) \notin ToSet(ports[s])
Refused == \E s \in Services : At(s, "close_old") /\ Old(s) /\ Head(left) = ICMP

CloseOld(s) ==
  /\ At(s, "close_old") /\ left # << >> /\ ~Refused
  /\ pending' = IF Old(s) THEN pending \ {Head(left)} ELSE pending
  /\ left' = Tail(left)
  /\ GivenUnchanged /\ UNCHANGED <<ready, portFile, running, todo, call, configured>>

WritePorts(s) ==
  /\ At(s, "close_old") /\ left = << >>
  /\ portFile' = [portFile EXCEPT ![s] = ports[s]]
  /\ left' = ports[s]
  /\ Then("manage_ports")
  /\ GivenUnchanged /\ UNCHANGED <<ready, pending, running, configured>>

ManagePort(s) ==
  /\ At(s, "manage_ports") /\ left # << >>
  /\ pending' = IF Starts(s) THEN pending \union {Head(left)} ELSE pending \ {Head(left)}
  /\ left' = Tail(left)
  /\ GivenUnchanged /\ UNCHANGED <<ready, portFile, running, todo, call, configured>>

SaveReady(s) ==
  /\ At(s, "manage_ports") /\ left = << >> /\ Starts(s)
  /\ ready' = ready \union {s}
  /\ Begin(hook, Tail(todo))
  /\ GivenUnchanged /\ UNCHANGED <<portFile, pending, running, configured>>

ServiceStop(s) ==
  /\ At(s, "manage_ports") /\ left = << >> /\ ~Starts(s)
  /\ running' = running \ {s}
  /\ IF hook = "stop" THEN Begin(hook, Tail(todo)) ELSE Then("save_lost") /\ UNCHANGED left
  /\ GivenUnchanged /\ UNCHANGED <<ready, portFile, pending, configured>>

SaveLost(s) ==
  /\ At(s, "save_lost")
  /\ ready' = ready \ {s}
  /\ Begin(hook, Tail(todo))
  /\ GivenUnchanged /\ UNCHANGED <<portFile, pending, running, configured>>

Step ==
  \E s \in Services :
    \/ DataReady(s) \/ ServiceRestart(s) \/ DataLost(s)
    \/ CloseOld(s) \/ WritePorts(s) \/ ManagePort(s)
    \/ SaveReady(s) \/ ServiceStop(s) \/ SaveLost(s)

(* A call raises, and the hook fails. *)
Fail ==
  /\ phase = "managing"
  /\ "failure" \in charm \/ Refused
  /\ phase' = "failed"
  /\ todo' = <<>> /\ call' = "none" /\ left' = <<>>
  /\ pending' = opened
  /\ UNCHANGED <<charm, avail, ports, ready, portFile, opened, running, told, hook,
                 configured>>

(* All services are done; provide_data() says which are ready, on relations *)
(* whose remote side sees it when the hook has succeeded.                  *)
FinishHook ==
  /\ phase = "managing"
  /\ todo = <<>>
  /\ phase' = "idle"
  /\ opened' = pending
  /\ told' = IF hook = "stop" THEN told ELSE avail
  /\ UNCHANGED <<charm, avail, ports, ready, portFile, pending, running, hook, todo,
                 call, left, configured>>

Next ==
  \/ \E s \in Services : ChangeData(s) \/ ChangePorts(s)
  \/ \E name \in {"stop", "other"} : StartHook(name)
  \/ Step
  \/ Fail
  \/ FinishHook

Spec == Init /\ [][Next]_vars

-----------------------------------------------------------------------------
(* Properties. *)

(* A hook that succeeds leaves the services with complete data running, with *)
(* exactly their ports open, and no others, and unless the unit stops it    *)
(* says so.                                                                *)
Up == IF hook = "stop" THEN {} ELSE avail
InLine ==
  /\ running = Up
  /\ opened' = UNION {ToSet(ports[s]) : s \in Up}
  /\ hook = "other" => told' = running

Converged == [][FinishHook => InLine]_vars

PortsOnFile == pending \subseteq UNION {ToSet(portFile[s]) : s \in Services}

(* That holds whatever failed before as long as the definitions of the     *)
(* ports stay, and if they change as long as no hook fails; and then every *)
(* open port is on file, for a later hook to close it.  A service that was *)
(* told its data is ready is told when it is lost.                         *)
ConvergedUnlessBoth ==
  [][FinishHook =>
       /\ charm # {"failure", "new_ports"} => InLine /\ PortsOnFile
       /\ hook = "other" /\ "failure" \notin charm => configured \subseteq avail]_vars

====
