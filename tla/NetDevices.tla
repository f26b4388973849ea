---- MODULE NetDevices ----
(***************************************************************************)
(* The network devices of a machine (contrib/openstack/context,            *)
(* contrib/hardware/pci): cards that the options name by their MAC address *)
(* become ports of Open vSwitch, through DPDK if that is enabled; SR-IOV   *)
(* cards get virtual functions; and the DHCP agent uses veth pairs or not. *)
(***************************************************************************)
EXTENDS Integers, FiniteSets

CONSTANTS
  Cards,     \* the cards, by their MAC addresses
  Slots,     \* PCI addresses
  Bridges,   \* bridges of Open vSwitch
  TotalVFs,  \* TotalVFs[c]: the virtual functions that card c can have
  NumVFs,    \* values of sriov-numvfs as [mode, numvfs]
  MaxChanges \* bound: changes of the options and the hardware

Bond == "bond0"

(***************************************************************************)
(* moved_bridge  a card that is a port is named for another bridge or none *)
(* enabled_later enable-dpdk changes when there are ports or bound devices *)
(* bond_changes  dpdk-bond-mappings or the address of such a card changes  *)
(* slot_reused   a card is put where a device was bound to DPDK            *)
(* upper_case    the options have MAC addresses in upper case              *)
(* unmapped      a card is no longer one that gets virtual functions       *)
(***************************************************************************)
NetHazards == {"moved_bridge", "enabled_later", "bond_changes", "slot_reused", "upper_case",
               "unmapped"}

VARIABLES
  netExposed, \* the hazards of this machine; never changes
  netKind,    \* what this behaviour is about: "ports", "vfs" or "veth"
  netChanges, \* changes of the options and the hardware
  slot,       \* slot[c]: the PCI address of card c, "" if it is not there
  dpdkBound,  \* the PCI addresses that are bound to the driver of DPDK
  dataPort,   \* data-port: the bridge of a card, or ""; and of Bond
  dpdkBonds,  \* dpdk-bond-mappings: the cards of Bond
  dpdk,       \* enable-dpdk
  pciOf,      \* pciOf[c]: the address of c in the unit's key-value store
  interfaces, \* of Open vSwitch: [bridge, port, to], to a card or an address
  half,       \* the hook has bound the devices
  netDone,    \* the last hook succeeded, and nothing changed since
  numvfs,     \* sriov-numvfs
  vfs,        \* vfs[c]: the virtual functions of c
  useVeth,    \* ovs-use-veth: "", "yes" or "no"
  ini,        \* ovs_use_veth in dhcp_agent.ini: "" if there is no such file
  deployed    \* history: what ini said first

netVars == <<netExposed, netKind, netChanges, slot, dpdkBound, dataPort, dpdkBonds, dpdk, pciOf,
             interfaces, half, netDone, numvfs, vfs, useVeth, ini, deployed>>

Spared(hazards) == netExposed \cap hazards = {}
OthersUnchanged == UNCHANGED <<netExposed, netKind, numvfs, vfs, useVeth, ini, deployed>>
Hardware == <<slot, dpdkBound, dataPort, dpdkBonds, dpdk, pciOf, interfaces, half>>
-----------------------------------------------------------------------------
(***************************************************************************)
(* Devices.                                                                *)
(***************************************************************************)
Present == {c \in Cards : slot[c] # ""}
\* A device that is bound to DPDK has no interface in the kernel
Visible == {c \in Present : slot[c] \notin dpdkBound}

get_device_from_mac(c) == IF c \in Visible /\ "upper_case" \notin netExposed THEN slot[c] ELSE ""

\* What is seen is stored, since it disappears when it is bound
Stored_FirstSeen == [c \in Cards |-> IF pciOf[c] = "" THEN get_device_from_mac(c) ELSE pciOf[c]]

Stored == [c \in Cards |-> IF get_device_from_mac(c) = "" THEN pciOf[c] ELSE get_device_from_mac(c)]

OnBridges == {c \in Cards : dataPort[c] # ""}

resolve_pci_from_mapping_config(named) == {Stored[c] : c \in {d \in named : Stored[d] # ""}}

\* DPDKDeviceContext, the file of it and the service that reads it
DPDKDeviceContext ==
  /\ netKind = "ports" /\ ~half /\ ~netDone
  /\ half' = TRUE
  /\ IF dpdk
     THEN /\ pciOf' = [c \in Cards |-> IF c \in OnBridges \cup dpdkBonds THEN Stored[c] ELSE pciOf[c]]
          /\ dpdkBound' = dpdkBound \cup resolve_pci_from_mapping_config(OnBridges \cup dpdkBonds)
     ELSE UNCHANGED <<pciOf, dpdkBound>>
  /\ UNCHANGED <<netChanges, slot, dataPort, dpdkBonds, dpdk, interfaces, netDone>>
  /\ OthersUnchanged

Nic(c) == [type |-> "system", at |-> c]
Dpdk(address) == [type |-> "dpdk", at |-> address]

\* A card of data-port that the kernel shows is a system interface; a card
\* that is unknown is for another unit
Interface(c) ==
  IF dpdk /\ c \in dpdkBonds /\ pciOf[c] # "" THEN {Dpdk(pciOf[c])}
  ELSE IF c \in Visible /\ "upper_case" \notin netExposed THEN {Nic(c)}
  ELSE IF dpdk /\ pciOf[c] # "" THEN {Dpdk(pciOf[c])}
  ELSE {}

CardPorts ==
  UNION {{[bridge |-> dataPort[c], port |-> i, to |-> i] : i \in Interface(c)} : c \in OnBridges}

BondPorts ==
  UNION {{[bridge |-> dataPort[Bond], port |-> Nic(Bond), to |-> i] : i \in Interface(c)} :
         c \in dpdkBonds}

BridgePortInterfaceMap ==
  CardPorts \cup (IF dpdk /\ dataPort[Bond] # "" THEN BondPorts ELSE {})

Of(port, set) == {i \in set : i.port = port}

\* With --may-exist, a port that exists has to have the same bridge and, when
\* it is a bond, the same interfaces
add_bridge_port(i) == \A j \in Of(i.port, interfaces) : j.bridge = i.bridge
add_bridge_bond(i, map) == Of(i.port, interfaces) \in {{}, Of(i.port, map)}

ConfigurePorts ==
  /\ half
  /\ half' = FALSE
  /\ LET map == BridgePortInterfaceMap
         Taken == {i \in map : IF i.port = Nic(Bond) THEN add_bridge_bond(i, map) ELSE add_bridge_port(i)}
     IN  IF Taken = map
         THEN interfaces' = interfaces \cup map /\ netDone' = TRUE
         ELSE UNCHANGED <<interfaces, netDone>>
  /\ UNCHANGED <<netChanges, slot, dpdkBound, dataPort, dpdkBonds, dpdk, pciOf>>
  /\ OthersUnchanged
-----------------------------------------------------------------------------
(***************************************************************************)
(* The operator.                                                           *)
(***************************************************************************)
Change == netChanges < MaxChanges /\ netChanges' = netChanges + 1 /\ netDone' = FALSE

NameCard(c, bridge) ==
  /\ netKind = "ports" /\ Change
  /\ bridge # dataPort[c] /\ c \notin dpdkBonds
  /\ dataPort[c] # "" => "moved_bridge" \in netExposed
  /\ dataPort' = [dataPort EXCEPT ![c] = bridge]
  /\ half' = FALSE
  /\ UNCHANGED <<slot, dpdkBound, dpdkBonds, dpdk, pciOf, interfaces>>
  /\ OthersUnchanged

NameBond(cards, bridge) ==
  /\ netKind = "ports" /\ Change
  /\ cards # {} /\ cards \cap OnBridges = {}
  /\ <<cards, bridge>> # <<dpdkBonds, dataPort[Bond]>>
  /\ dpdkBonds = {} \/ "bond_changes" \in netExposed
  /\ dpdkBonds' = cards /\ dataPort' = [dataPort EXCEPT ![Bond] = bridge]
  /\ half' = FALSE
  /\ UNCHANGED <<slot, dpdkBound, dpdk, pciOf, interfaces>>
  /\ OthersUnchanged

EnableDpdk ==
  /\ netKind = "ports" /\ Change
  /\ (interfaces = {} /\ dpdkBound = {}) \/ "enabled_later" \in netExposed
  /\ dpdk' = ~dpdk /\ half' = FALSE
  /\ UNCHANGED <<slot, dpdkBound, dataPort, dpdkBonds, pciOf, interfaces>>
  /\ OthersUnchanged

\* With the machine off
MoveCard(c, s) ==
  /\ netKind = "ports" /\ Change
  /\ s # slot[c] /\ \A d \in Cards : s # "" => slot[d] # s
  /\ s \in dpdkBound => "slot_reused" \in netExposed
  /\ c \in dpdkBonds => "bond_changes" \in netExposed
  /\ slot' = [slot EXCEPT ![c] = s] /\ half' = FALSE
  /\ UNCHANGED <<dpdkBound, dataPort, dpdkBonds, dpdk, pciOf, interfaces>>
  /\ OthersUnchanged
-----------------------------------------------------------------------------
(***************************************************************************)
(* Virtual functions.                                                      *)
(***************************************************************************)
MinOf(a, b) == IF a < b THEN a ELSE b

\* Cards without an entry in the map are left alone
Determined(c) == CASE numvfs.mode = "auto" -> numvfs.mapped = {} \/ c \in numvfs.mapped
                   [] numvfs.mode = "blanket" -> TRUE
                   [] numvfs.mode = "explicit" -> numvfs.asked[c] > 0

_determine_numvfs(c) == CASE numvfs.mode = "auto" -> TotalVFs[c]
                          [] numvfs.mode = "blanket" -> MinOf(numvfs.all, TotalVFs[c])
                          [] numvfs.mode = "explicit" -> MinOf(numvfs.asked[c], TotalVFs[c])

Differs(c) == Determined(c) /\ vfs[c] # _determine_numvfs(c)

\* From one number to another only by way of none; a hook may be killed there
set_sriov_numvfs(c) ==
  /\ netKind = "vfs" /\ numvfs.mode # "" /\ c \in Present /\ Differs(c)
  /\ \E n \in {0, _determine_numvfs(c)} : vfs' = [vfs EXCEPT ![c] = n]
  /\ UNCHANGED <<netExposed, netKind, netChanges, netDone, numvfs, useVeth, ini, deployed>>
  /\ UNCHANGED Hardware

VFsDone ==
  /\ netKind = "vfs" /\ ~netDone /\ numvfs.mode # ""
  /\ \A c \in Present : ~Differs(c)
  /\ netDone' = TRUE
  /\ UNCHANGED <<netExposed, netKind, netChanges, numvfs, vfs, useVeth, ini, deployed>>
  /\ UNCHANGED Hardware

SetNumVFs(option) ==
  /\ netKind = "vfs" /\ Change
  /\ option # numvfs /\ numvfs' = option
  /\ (\E c \in Cards : vfs[c] > 0 /\ ~Determined(c)') => "unmapped" \in netExposed
  /\ UNCHANGED <<netExposed, netKind, vfs, useVeth, ini, deployed>> /\ UNCHANGED Hardware

Reboot ==
  /\ netKind = "vfs" /\ Change
  /\ vfs' = [c \in Cards |-> 0]
  /\ UNCHANGED <<netExposed, netKind, numvfs, useVeth, ini, deployed>> /\ UNCHANGED Hardware
-----------------------------------------------------------------------------
(***************************************************************************)
(* The DHCP agent.                                                         *)
(***************************************************************************)
get_ovs_use_veth == IF ini # "" THEN ini ELSE IF useVeth # "" THEN useVeth ELSE "no"

\* The unit is blocked
validate_ovs_use_veth == ini # "" /\ useVeth # "" /\ ini # useVeth

WriteDhcpAgentIni ==
  /\ netKind = "veth" /\ ~netDone
  /\ ini' = get_ovs_use_veth
  /\ deployed' = IF deployed = "" THEN ini' ELSE deployed
  /\ netDone' = TRUE
  /\ UNCHANGED <<netExposed, netKind, netChanges, numvfs, vfs, useVeth>> /\ UNCHANGED Hardware

SetUseVeth(v) ==
  /\ netKind = "veth" /\ Change
  /\ useVeth' = v
  /\ UNCHANGED <<netExposed, netKind, numvfs, vfs, ini, deployed>> /\ UNCHANGED Hardware
-----------------------------------------------------------------------------
NetInit ==
  /\ netExposed \in {{}} \cup {{h} : h \in NetHazards}
  /\ netKind \in {"ports", "vfs", "veth"} /\ netChanges = 0
  /\ \E s \in Slots, c \in Cards : slot = [d \in Cards |-> IF d = c THEN s ELSE ""]
  /\ dpdkBound = {} /\ dpdkBonds = {} /\ interfaces = {} /\ half = FALSE /\ netDone = FALSE
  /\ dataPort = [c \in Cards \cup {Bond} |-> ""] /\ dpdk \in BOOLEAN
  /\ pciOf = [c \in Cards |-> ""]
  /\ numvfs = [mode |-> ""] /\ vfs = [c \in Cards |-> 0]
  /\ useVeth = "" /\ ini \in {"", "yes", "no"} /\ deployed = ini
  /\ netKind # "veth" => ini = ""

NetNext ==
  \/ DPDKDeviceContext \/ ConfigurePorts \/ EnableDpdk
  \/ \E c \in Cards, b \in Bridges \cup {""} : NameCard(c, b)
  \/ \E cards \in SUBSET Cards, b \in Bridges : NameBond(cards, b)
  \/ \E c \in Cards, s \in Slots \cup {""} : MoveCard(c, s)
  \/ \E c \in Cards : set_sriov_numvfs(c)
  \/ VFsDone \/ Reboot
  \/ \E option \in NumVFs : SetNumVFs(option)
  \/ WriteDhcpAgentIni
  \/ \E v \in {"", "yes", "no"} : SetUseVeth(v)

NetSpec == NetInit /\ [][NetNext]_netVars
-----------------------------------------------------------------------------
\* What an interface of Open vSwitch leads to
Reached(i) == IF i.type = "system" THEN Visible \cap {i.at}
              ELSE {c \in Present : slot[c] = i.at /\ slot[c] \in dpdkBound}

Bridge(c) == IF c \in dpdkBonds THEN IF dpdk THEN dataPort[Bond] ELSE "" ELSE dataPort[c]

\* After a hook each card that the options name and the machine has is a port
\* of the bridge that they name and of no other, through DPDK exactly if that
\* is enabled and wherever the card was moved; each card has the virtual
\* functions that are asked for as far as it can, whatever hooks were killed;
\* and the DHCP agent keeps the kind of interface that it was deployed with,
\* or the unit is blocked.
DevicesAsNamed ==
  netDone =>
    /\ Spared(NetHazards \ {"unmapped"}) => \A c \in Present :
         LET ways == {i \in interfaces : c \in Reached(i.to)}
         IN  /\ {i.bridge : i \in ways} = {Bridge(c)} \ {""}
             /\ \A i \in ways : i.to.type = IF dpdk THEN "dpdk" ELSE "system"
    /\ netKind = "vfs" /\ Spared({"unmapped"}) =>
         \A c \in Present : vfs[c] = IF Determined(c) THEN _determine_numvfs(c) ELSE 0
    /\ netKind = "veth" =>
         /\ ini = deployed
         /\ useVeth \in {"", ini} \/ validate_ovs_use_veth
====
