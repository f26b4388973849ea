---- MODULE NagiosChecks ----
(***************************************************************************)
(* Nagios checks of a unit (contrib/charmsupport/nrpe): commands for the   *)
(* daemon of nrpe, which the charm nrpe installs on the machine, files for *)
(* the Nagios server, and monitors on the relations.                       *)
(***************************************************************************)
EXTENDS Integers, FiniteSets

CONSTANTS
  Checked,    \* services that the charm may have
  Hostnames,  \* names that Nagios may have for the unit
  MaxNrMoves  \* bound: changes around the unit

HAProxy == "haproxy"
Elsewhere == "other unit"

(***************************************************************************)
(* forgotten     the charm no longer adds a check that it does not remove  *)
(* ha_later      hacluster takes over haproxy                              *)
(* update_status checks change in the hook update-status                   *)
(* shared        another charm of the machine has a check of the same name *)
(***************************************************************************)
NrHazards == {"forgotten", "ha_later", "update_status", "shared"}

VARIABLES
  nrExposed, \* the hazards of this unit; never changes
  nrMoves,   \* changes so far
  nagios,    \* nrpe is installed: its user and directories are there
  offered,   \* the relations with nrpe or monitors, with the monitors on each
  services,  \* the services that the charm has now
  retired,   \* those that it had before
  haLsb,     \* json_resources on the relation ha have lsb:haproxy
  hostname,  \* nagios_hostname
  nrpeHook,  \* the hook that runs, or ""
  queue,     \* remove_check_queue of this hook
  commands,  \* the checks with a file in nrpe.d
  daemon,    \* those that the daemon has read
  exported,  \* the files for the server: <<hostname, check>>
  nrUpdated  \* the last hook succeeded and nothing changed since

nrVars == <<nrExposed, nrMoves, nagios, offered, services, retired, haLsb, hostname, nrpeHook,
            queue, commands, daemon, exported, nrUpdated>>

Spared(hazards) == nrExposed \cap hazards = {}
Around == <<nagios, services, retired, haLsb, hostname>>
Files == <<commands, daemon, exported>>
-----------------------------------------------------------------------------
(***************************************************************************)
(* The hook of a charm that updates its checks.                            *)
(***************************************************************************)
\* Whatever the host name was, it is the end of the file's name that counts
_remove_service_files(files, checks) == {f \in files : f[2] \notin checks}

remove_check(hook) ==
  /\ nrpeHook = "" /\ ~nrUpdated
  /\ hook = "update-status" => "update_status" \in nrExposed
  /\ nrpeHook' = hook
  /\ LET removed == IF "forgotten" \in nrExposed THEN {} ELSE retired \ services
     IN  /\ commands' = commands \ removed
         /\ exported' = _remove_service_files(exported, removed)
         /\ queue' = removed
  /\ UNCHANGED <<nrExposed, nrMoves, offered, daemon, nrUpdated>> /\ UNCHANGED Around

\* check_crm of hacluster monitors haproxy, then
add_init_service_checks == services \ (IF haLsb THEN {HAProxy} ELSE {})

Check_write_AddsOnly(checks) ==
  /\ commands' = commands \cup checks
  /\ exported' = exported \cup {<<hostname, c>> : c \in checks}

Check_write(checks) ==
  /\ commands' = commands \cup checks
  /\ exported' = _remove_service_files(exported, checks) \cup {<<hostname, c>> : c \in checks}

\* Monitors that are on a relation stay there unless they are in the queue
write ==
  /\ nrpeHook # ""
  /\ IF nagios
     THEN /\ Check_write(add_init_service_checks)
          /\ daemon' = IF nrpeHook = "update-status" THEN daemon ELSE commands'
          /\ offered' = {(monitors \ queue) \cup add_init_service_checks : monitors \in offered}
     ELSE UNCHANGED <<commands, exported, daemon, offered>>
  /\ nrpeHook' = "" /\ queue' = {} /\ nrUpdated' = TRUE
  /\ UNCHANGED <<nrExposed, nrMoves>> /\ UNCHANGED Around

\* Juju drops what a hook that fails set on relations, and runs it again
Killed ==
  /\ nrpeHook # ""
  /\ \/ nagios /\ Check_write(add_init_service_checks)
     \/ UNCHANGED <<commands, exported>>
  /\ nrpeHook' = "" /\ queue' = {}
  /\ UNCHANGED <<nrExposed, nrMoves, offered, daemon, nrUpdated>> /\ UNCHANGED Around
-----------------------------------------------------------------------------
Move == /\ nrMoves < MaxNrMoves /\ nrMoves' = nrMoves + 1
        /\ nrpeHook = "" /\ nrUpdated' = FALSE

NrpeInstalled ==
  /\ Move /\ ~nagios
  /\ nagios' = TRUE /\ offered' = offered \cup {{}}
  /\ UNCHANGED <<nrExposed, services, retired, haLsb, hostname, nrpeHook, queue>> /\ UNCHANGED Files

MonitorsRelated ==
  /\ Move
  /\ offered' = offered \cup {{}}
  /\ UNCHANGED <<nrExposed, nrpeHook, queue>> /\ UNCHANGED Around /\ UNCHANGED Files

SetServices(set) ==
  /\ Move /\ set # services
  /\ services' = set /\ retired' = retired \cup services
  /\ UNCHANGED <<nrExposed, nagios, offered, haLsb, hostname, nrpeHook, queue>> /\ UNCHANGED Files

SetHostname(h) ==
  /\ Move /\ h # hostname
  /\ hostname' = h
  /\ UNCHANGED <<nrExposed, nagios, offered, services, retired, haLsb, nrpeHook, queue>>
  /\ UNCHANGED Files

HaRelated ==
  /\ Move /\ ~haLsb
  /\ HAProxy \in commands \cup UNION offered => "ha_later" \in nrExposed
  /\ haLsb' = TRUE
  /\ UNCHANGED <<nrExposed, nagios, offered, services, retired, hostname, nrpeHook, queue>>
  /\ UNCHANGED Files

OtherCharm ==
  /\ "shared" \in nrExposed /\ nagios /\ nrpeHook = ""
  /\ commands' = commands \cup {HAProxy} /\ daemon' = commands'
  /\ exported' = _remove_service_files(exported, {HAProxy}) \cup {<<Elsewhere, HAProxy>>}
  /\ UNCHANGED <<nrExposed, nrMoves, offered, nrpeHook, queue, nrUpdated>> /\ UNCHANGED Around

NrInit ==
  /\ nrExposed \in {{}} \cup {{h} : h \in NrHazards}
  /\ nrMoves = 0 /\ nagios = FALSE /\ offered = {}
  /\ services \in SUBSET Checked /\ retired = {}
  /\ haLsb = FALSE /\ hostname \in Hostnames
  /\ nrpeHook = "" /\ queue = {} /\ nrUpdated = FALSE
  /\ commands = {} /\ daemon = {} /\ exported = {}

NrNext ==
  \/ \E hook \in {"config-changed", "update-status"} : remove_check(hook)
  \/ write \/ Killed \/ NrpeInstalled \/ MonitorsRelated \/ HaRelated \/ OtherCharm
  \/ \E set \in SUBSET Checked : SetServices(set)
  \/ \E h \in Hostnames : SetHostname(h)

NrSpec == NrInit /\ [][NrNext]_nrVars
-----------------------------------------------------------------------------
\* After a hook on a machine with nrpe, the server's files, the monitors on
\* every relation and the commands that the daemon knows are of the same
\* checks, those that the charm adds, for the unit's name of today, however
\* the services changed and whichever hooks were killed.
ChecksAgree ==
  (nagios /\ nrUpdated) =>
    /\ Spared({"forgotten", "ha_later", "shared"}) =>
         /\ exported = {<<hostname, c>> : c \in add_init_service_checks}
         /\ \A monitors \in offered : monitors = add_init_service_checks
    /\ Spared({"update_status"}) => daemon = commands
    /\ Spared({"forgotten", "ha_later", "shared"}) => commands = add_init_service_checks
    /\ \A monitors \in offered : add_init_service_checks \subseteq monitors \cap commands
====
