---- MODULE Deployment ----
(***************************************************************************)
(* What makes a deployed application serve: that its units know of each    *)
(* other when all are ready, that one of them acts and addresses are where *)
(* they are advertised, that it is monitored, that its data is on the      *)
(* device, that units reach each other, that devices of the network are as *)
(* named, that packages are of the release, and that certificates cover    *)
(* its addresses. The parts have no state in common: each behaviour is one *)
(* of one part, and the others' variables stay Unused.                     *)
(***************************************************************************)
EXTENDS OnePart, Integers, Sequences, FiniteSets

CONSTANTS
  ApiUnits, First, DbUnits, \* Readiness
  Units, SubNames, VipOptions, NetOf, Nics, EndpointNet, MaxMoves, \* HACluster
  CheckedServices, Hostnames, MaxNrMoves, \* NagiosChecks
  Volumes, Writes, MaxOperated, \* BlockStorage
  SshUnits, Addresses, ComputeKeys, SshUsers, MaxSshMoves, MaxSshHosts, \* PeerSsh
  Cards, Slots, Bridges, TotalVFs, NumVFs, MaxNetChanges, \* NetDevices
  Series, Distro, Pockets, Sources, ReleasePackage, MaxRetries, MaxOptions, \* PackageSources
  Bindings, IpOf, VipOf, Private, OsHostNames, Host, Custom, Providers, MaxIssues, MaxCertChanges \* UnitCerts

VARIABLES
  readyExposed, goal, sees, dbSees, haSees, ha, allowedUnits, upgrading, dbInit, unitPaused,
  announced,
  haExposed, newJuju, vips, moves, leader, known, clustered, resource, acting, haData, crm,
  urls, serving,
  nrExposed, nrMoves, nagios, offered, services, retired, haLsb, hostname, nrpeHook, queue,
  commands, daemon, exported, nrUpdated,
  bsExposed, storage, operated, wanted, mounts, fstab, disk, written, running, bsHook,
  bsDone,
  sshExposed, peering, sshMoves, address, keypair, published, authorizes, authKeys,
  knownHosts, due, nova, computes, given,
  netExposed, netKind, netChanges, slot, dpdkBound, dataPort, dpdkBonds, dpdk, pciOf,
  interfaces, half, netDone, numvfs, vfs, useVeth, ini, deployed,
  pkgExposed, origin, options, lists, index, pkg, orel, job,
  certExposed, certChanges, override, bound, vipsSet, requested, issued, answers, processed,
  certFiles, keyFiles, certLinks, keyLinks
-----------------------------------------------------------------------------
Ready == INSTANCE Readiness
Cluster == INSTANCE HACluster
Nagios == INSTANCE NagiosChecks WITH Checked <- CheckedServices
Bs == INSTANCE BlockStorage
Ssh == INSTANCE PeerSsh
Net == INSTANCE NetDevices WITH MaxChanges <- MaxNetChanges
Packages == INSTANCE PackageSources
Certs == INSTANCE UnitCerts WITH HostNames <- OsHostNames, MaxChanges <- MaxCertChanges

\* Units count their peers, and the application begins with some of its units
FiniteApplication == IsFiniteSet(ApiUnits) /\ First \subseteq ApiUnits /\ IsFiniteSet(DbUnits)

\* Units have numbers, and VIPs are addresses in some network
Numbered == Units \subseteq Nat /\ Units # {} /\ VipOptions \subseteq Seq(DOMAIN NetOf)

\* Volumes are devices, and other than the RADOS device of ensure_ceph_storage
OtherDevices == "rbd" \notin Volumes /\ "" \notin Volumes

\* get_ssh_settings reads the file of root, whose user is there
RootIsUser == "root" \in SshUsers

\* The bond is no card, and sriov-numvfs asks for numbers
NamedCards ==
  /\ Net!Bond \notin Cards /\ TotalVFs \in [Cards -> Nat]
  /\ \A o \in NumVFs :
       /\ o.mode \in {"auto", "blanket", "explicit"}
       /\ o.mode = "blanket" => o.all \in Nat
       /\ o.mode = "explicit" => o.asked \in [Cards -> Nat]

\* Ubuntu and the sources of packages have numbered releases of the package
Released ==
  /\ Distro[Series] \in Nat \ {0}
  /\ \A src \in Sources : /\ src.form \in {"distro", "proposed", "ppa", "bare", "cloud"}
                          /\ src.form \in {"ppa", "bare", "cloud"} => src.release \in Nat \ {0}

\* Bindings and units of the relation are in an order, and names and addresses
\* are apart: a name is not an address, nor is a VIP the address of a unit
NamesApart ==
  /\ Bindings \in Seq(Certs!BindingSet) /\ Bindings # << >>
  /\ Providers \in Seq(Certs!Range(Providers)) /\ "" \notin Certs!Range(Providers)
  /\ \A S \in {OsHostNames, {Host}, {Custom}, Certs!IPs, Certs!VIPs} : "" \notin S
  /\ Host \notin OsHostNames /\ Custom \notin OsHostNames \cup {Host}
  /\ (Certs!IPs \cup Certs!VIPs) \cap (OsHostNames \cup {Host, Custom}) = {}
  /\ Certs!IPs \cap Certs!VIPs = {}

ASSUME ReadinessAssumption == FiniteApplication
ASSUME ClusterAssumption == Numbered
ASSUME StorageAssumption == OtherDevices
ASSUME SshAssumption == RootIsUser
ASSUME NetAssumption == NamedCards
ASSUME SourcesAssumption == Released
ASSUME CertsAssumption == NamesApart
-----------------------------------------------------------------------------
readyV == <<readyExposed, goal, sees, dbSees, haSees, ha, allowedUnits, upgrading, dbInit,
        unitPaused, announced>>
clusterV == <<haExposed, newJuju, vips, moves, leader, known, clustered, resource, acting,
        haData, crm, urls, serving>>
nagioschecksV == <<nrExposed, nrMoves, nagios, offered, services, retired, haLsb, hostname,
        nrpeHook, queue, commands, daemon, exported, nrUpdated>>
bsV == <<bsExposed, storage, operated, wanted, mounts, fstab, disk, written, running,
        bsHook, bsDone>>
sshV == <<sshExposed, peering, sshMoves, address, keypair, published, authorizes, authKeys,
        knownHosts, due, nova, computes, given>>
netV == <<netExposed, netKind, netChanges, slot, dpdkBound, dataPort, dpdkBonds, dpdk,
        pciOf, interfaces, half, netDone, numvfs, vfs, useVeth, ini, deployed>>
packagesV == <<pkgExposed, origin, options, lists, index, pkg, orel, job>>
certsV == <<certExposed, certChanges, override, bound, vipsSet, requested, issued, answers,
        processed, certFiles, keyFiles, certLinks, keyLinks>>
deploymentVars == <<part, readyV, clusterV, nagioschecksV, bsV, sshV, netV, packagesV,
          certsV>>
deploymentV == <<readyV, clusterV, nagioschecksV, bsV, sshV, netV, packagesV, certsV>>

NoReady ==
  /\ readyExposed = Unused /\ goal = Unused /\ sees = Unused /\ dbSees = Unused
  /\ haSees = Unused /\ ha = Unused /\ allowedUnits = Unused /\ upgrading = Unused
  /\ dbInit = Unused /\ unitPaused = Unused /\ announced = Unused
NoCluster ==
  /\ haExposed = Unused /\ newJuju = Unused /\ vips = Unused /\ moves = Unused
  /\ leader = Unused /\ known = Unused /\ clustered = Unused /\ resource = Unused
  /\ acting = Unused /\ haData = Unused /\ crm = Unused /\ urls = Unused
  /\ serving = Unused
NoNagios ==
  /\ nrExposed = Unused /\ nrMoves = Unused /\ nagios = Unused /\ offered = Unused
  /\ services = Unused /\ retired = Unused /\ haLsb = Unused /\ hostname = Unused
  /\ nrpeHook = Unused /\ queue = Unused /\ commands = Unused /\ daemon = Unused
  /\ exported = Unused /\ nrUpdated = Unused
NoBs ==
  /\ bsExposed = Unused /\ storage = Unused /\ operated = Unused /\ wanted = Unused
  /\ mounts = Unused /\ fstab = Unused /\ disk = Unused /\ written = Unused
  /\ running = Unused /\ bsHook = Unused /\ bsDone = Unused
NoSsh ==
  /\ sshExposed = Unused /\ peering = Unused /\ sshMoves = Unused /\ address = Unused
  /\ keypair = Unused /\ published = Unused /\ authorizes = Unused /\ authKeys = Unused
  /\ knownHosts = Unused /\ due = Unused /\ nova = Unused /\ computes = Unused
  /\ given = Unused
NoNet ==
  /\ netExposed = Unused /\ netKind = Unused /\ netChanges = Unused /\ slot = Unused
  /\ dpdkBound = Unused /\ dataPort = Unused /\ dpdkBonds = Unused /\ dpdk = Unused
  /\ pciOf = Unused /\ interfaces = Unused /\ half = Unused /\ netDone = Unused
  /\ numvfs = Unused /\ vfs = Unused /\ useVeth = Unused /\ ini = Unused
  /\ deployed = Unused
NoPackages ==
  /\ pkgExposed = Unused /\ origin = Unused /\ options = Unused /\ lists = Unused
  /\ index = Unused /\ pkg = Unused /\ orel = Unused /\ job = Unused
NoCerts ==
  /\ certExposed = Unused /\ certChanges = Unused /\ override = Unused /\ bound = Unused
  /\ vipsSet = Unused /\ requested = Unused /\ issued = Unused /\ answers = Unused
  /\ processed = Unused /\ certFiles = Unused /\ keyFiles = Unused /\ certLinks = Unused
  /\ keyLinks = Unused
NoDeployment == NoReady /\ NoCluster /\ NoNagios /\ NoBs /\ NoSsh /\ NoNet /\ NoPackages /\ NoCerts

DeploymentInit ==
  \/ /\ part = "ready" /\ Ready!ReadyInit
     /\ NoCluster /\ NoNagios /\ NoBs /\ NoSsh /\ NoNet /\ NoPackages /\ NoCerts
  \/ /\ part = "cluster" /\ Cluster!HaInit
     /\ NoReady /\ NoNagios /\ NoBs /\ NoSsh /\ NoNet /\ NoPackages /\ NoCerts
  \/ /\ part = "nagioschecks" /\ Nagios!NrInit
     /\ NoReady /\ NoCluster /\ NoBs /\ NoSsh /\ NoNet /\ NoPackages /\ NoCerts
  \/ /\ part = "bs" /\ Bs!BsInit
     /\ NoReady /\ NoCluster /\ NoNagios /\ NoSsh /\ NoNet /\ NoPackages /\ NoCerts
  \/ /\ part = "ssh" /\ Ssh!SshInit
     /\ NoReady /\ NoCluster /\ NoNagios /\ NoBs /\ NoNet /\ NoPackages /\ NoCerts
  \/ /\ part = "net" /\ Net!NetInit
     /\ NoReady /\ NoCluster /\ NoNagios /\ NoBs /\ NoSsh /\ NoPackages /\ NoCerts
  \/ /\ part = "packages" /\ Packages!PkgInit
     /\ NoReady /\ NoCluster /\ NoNagios /\ NoBs /\ NoSsh /\ NoNet /\ NoCerts
  \/ /\ part = "certs" /\ Certs!CertInit
     /\ NoReady /\ NoCluster /\ NoNagios /\ NoBs /\ NoSsh /\ NoNet /\ NoPackages

DeploymentNext ==
  /\ UNCHANGED part
  /\ \/ /\ part = "ready" /\ Ready!ReadyNext
        /\ UNCHANGED <<clusterV, nagioschecksV, bsV, sshV, netV, packagesV, certsV>>
     \/ /\ part = "cluster" /\ Cluster!HaNext
        /\ UNCHANGED <<readyV, nagioschecksV, bsV, sshV, netV, packagesV, certsV>>
     \/ /\ part = "nagioschecks" /\ Nagios!NrNext
        /\ UNCHANGED <<readyV, clusterV, bsV, sshV, netV, packagesV, certsV>>
     \/ /\ part = "bs" /\ Bs!BsNext
        /\ UNCHANGED <<readyV, clusterV, nagioschecksV, sshV, netV, packagesV, certsV>>
     \/ /\ part = "ssh" /\ Ssh!SshNext
        /\ UNCHANGED <<readyV, clusterV, nagioschecksV, bsV, netV, packagesV, certsV>>
     \/ /\ part = "net" /\ Net!NetNext
        /\ UNCHANGED <<readyV, clusterV, nagioschecksV, bsV, sshV, packagesV, certsV>>
     \/ /\ part = "packages" /\ Packages!PkgNext
        /\ UNCHANGED <<readyV, clusterV, nagioschecksV, bsV, sshV, netV, certsV>>
     \/ /\ part = "certs" /\ Certs!CertNext
        /\ UNCHANGED <<readyV, clusterV, nagioschecksV, bsV, sshV, netV, packagesV>>

DeploymentSpec == DeploymentInit /\ [][DeploymentNext]_deploymentVars
-----------------------------------------------------------------------------
\* Readiness: When a unit reports the application ready, each unit of it is ready: none
\* is unknown to the reporter, none still waits for its database, its peers or
\* its cluster, and what peers announced earlier is still so. While the
\* application is scaled out, each unit at least may use the database.
ReadyTogether == part = "ready" => Ready!ReadyTogether

\* HACluster: Two units never do at a time what is for the elected one to do, whichever
\* way of election their Juju and their cluster leave them.
OneElected == part = "cluster" => Cluster!OneElected

\* HACluster: An address that a unit advertises is one that Pacemaker has a resource
\* for, or that the unit calls invalid, and the proxy of each unit finds its
\* peers' services on the port it looks for them.
AdvertisedIsServed == part = "cluster" => Cluster!AdvertisedIsServed

\* NagiosChecks: After a hook on a machine with nrpe, the server's files, the monitors on
\* every relation and the commands that the daemon knows are of the same
\* checks, those that the charm adds, for the unit's name of today, however
\* the services changed and whichever hooks were killed.
ChecksAgree == part = "nagioschecks" => Nagios!ChecksAgree

\* BlockStorage: What the services wrote they find, while the directory moves to the device
\* and afterwards, even when the hook is killed. When a hook succeeded the
\* services run, the directory is the volume that the operator asked for, and
\* is again after a reboot. A disk that was cleaned is not in use.
DataInPlace == part = "bs" => Bs!DataInPlace

\* PeerSsh: A unit that has had the hooks of its peers' changes reaches every peer it
\* synchronizes files to, though hooks fail and units change to new addresses;
\* and compute hosts see exactly the keys of the hosts that are there, for
\* each user.
KeysReach == part = "ssh" => Ssh!KeysReach

\* NetDevices: After a hook each card that the options name and the machine has is a port
\* of the bridge that they name and of no other, through DPDK exactly if that
\* is enabled and wherever the card was moved; each card has the virtual
\* functions that are asked for as far as it can, whatever hooks were killed;
\* and the DHCP agent keeps the kind of interface that it was deployed with,
\* or the unit is blocked.
DevicesAsNamed == part = "net" => Net!DevicesAsNamed

\* PackageSources: With a source that can be configured, an upgrade is offered whenever the
\* source has a newer release than the installed package, and only then:
\* also after upgrades that failed half way, and whatever is known of
\* openstack-release.
UpgradeSeen == part = "packages" => Packages!UpgradeSeen

\* UnitCerts: Once a unit has processed the answer to the request for its names and
\* addresses as they are now, each of them finds a certificate that covers it,
\* with its key; none of its addresses was left out of the request, and the
\* bundle of a name is the one that was installed.
EachAddressServed == part = "certs" => Certs!EachAddressServed
====
