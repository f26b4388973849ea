---- MODULE HACluster ----
(***************************************************************************)
(* Units of a highly available application (contrib/hahelpers/cluster.py,  *)
(* contrib/openstack/ha/utils.py, contrib/openstack/ip.py): who of them is *)
(* elected, on which ports their services are, what they ask of hacluster, *)
(* and which addresses they advertise.  Juju and hacluster are external.   *)
(***************************************************************************)
EXTENDS Integers, FiniteSets, SequencesExt

CONSTANTS
  Units,        \* the unit numbers
  SubNames,     \* SubNames[u]: units whose host name is part of that of u
  VipOptions,   \* values of the option vip, sequences
  NetOf,        \* NetOf[v]: the network of address v
  Nics,         \* the networks that units have an interface in
  EndpointNet,  \* EndpointNet[e]: the network of endpoint e
  MaxMoves      \* bound: changes that Juju, Pacemaker and the operator make

(***************************************************************************)
(* joining    units ask or serve before they have seen all their peers     *)
(* clustering units learn of the cluster while another acts                *)
(* moving     Pacemaker moves the resource while a unit acts               *)
(* lease      Juju chooses another leader while a unit acts                *)
(* host_names the name of one host is part of another's                    *)
(* vip_option the option vip changes after the units are clustered         *)
(***************************************************************************)
HaHazards == {"joining", "clustering", "moving", "lease", "host_names", "vip_option"}

VARIABLES
  haExposed, \* the hazards of this application; never changes
  newJuju,   \* whether Juju elects leaders and has bindings; never changes
  vips,      \* the option vip
  moves,     \* how much was changed
  leader,    \* Juju's leader
  known,     \* known[u]: the peers that u has seen
  clustered, \* the units that hacluster has told so
  resource,  \* the unit that has the resource, 0 if it is not running
  acting,    \* the units that do what the elected one does, until a hook ends
  haData,    \* the addresses of the unit's request to hacluster
  crm,       \* the addresses that Pacemaker has resources for
  urls,      \* what the unit has advertised, by endpoint
  serving    \* serving[u]: [port, peers], as of when u last wrote its files

haVars == <<haExposed, newJuju, vips, moves, leader, known, clustered,
            resource, acting, haData, crm, urls, serving>>

Spared(hazards) == haExposed \cap hazards = {}
Exposed(hazard) == hazard \in haExposed
Self == CHOOSE u \in Units : \A v \in Units : u <= v
Public == 100
Local == "local"
With(f, k, v) == [x \in DOMAIN f \cup {k} |-> IF x = k THEN v ELSE f[x]]
-----------------------------------------------------------------------------
(***************************************************************************)
(* Who is elected.  FALSE is also the outcome if Pacemaker keeps answering *)
(* that the resource is not running and the hook fails.                    *)
(***************************************************************************)
is_clustered(u) == u \in clustered
peer_units(u) == known[u]
oldest_peer(u) == \A peer \in peer_units(u) : peer > u

is_crm_leader_Absent(u) == resource = 0 \/ u = resource

\* `get_unit_hostname() in status'
is_crm_leader(u) ==
  resource # 0 /\ u \in (IF Exposed("host_names") THEN SubNames[resource] ELSE {resource})

is_elected_leader(u) ==
  IF newJuju THEN leader = u
  ELSE IF is_clustered(u) THEN is_crm_leader(u)
  ELSE oldest_peer(u)
-----------------------------------------------------------------------------
(***************************************************************************)
(* Ports: each proxy in front of the service moves it ten ports down.      *)
(***************************************************************************)
Several(u) == peer_units(u) # {} \/ is_clustered(u)

determine_api_port(u, https) ==
  Public - (IF Several(u) THEN 10 ELSE 0) - (IF https THEN 10 ELSE 0)
determine_apache_port(u) == Public - (IF Several(u) THEN 10 ELSE 0)

\* What is behind haproxy: Apache with https, the service without
Listens(u, https) == IF https THEN determine_apache_port(u) ELSE determine_api_port(u, https)
-----------------------------------------------------------------------------
(***************************************************************************)
(* Addresses.                                                              *)
(***************************************************************************)
\* Without dns-ha, an exception if there is no address
valid_hacluster_config == vips # << >>

\* get_vip_settings: nothing is asked for an address without an interface
update_hacluster_vip == {v \in Range(vips) : NetOf[v] \in Nics}

InNetwork(e) == {i \in DOMAIN vips : NetOf[vips[i]] = EndpointNet[e]}

\* "none" is a ValueError
resolve_address_Early(e) ==
  IF vips = << >> THEN Local
  ELSE IF ~newJuju THEN Head(vips)
  ELSE IF InNetwork(e) # {} THEN vips[Min(InNetwork(e))] ELSE "none"

resolve_address(e) ==
  IF ~(is_clustered(Self) /\ vips # << >>) THEN Local
  ELSE IF ~newJuju THEN Head(vips)
  ELSE IF InNetwork(e) # {} THEN vips[Min(InNetwork(e))] ELSE "none"

\* Addresses that the unit's status tells the operator of
get_invalid_vips == IF is_clustered(Self) THEN {v \in Range(vips) : NetOf[v] \notin Nics} ELSE {}
-----------------------------------------------------------------------------
HaInit ==
  /\ haExposed \in {{}} \cup {{h} : h \in HaHazards}
  /\ newJuju \in BOOLEAN
  /\ vips \in VipOptions
  /\ moves = 0
  /\ leader = Self
  /\ known = [u \in Units |-> IF Exposed("joining") THEN {} ELSE Units \ {u}]
  /\ clustered = {}
  /\ resource = 0
  /\ acting = {}
  /\ haData = {} /\ crm = {}
  /\ urls = << >>
  /\ serving = << >>

Move == moves < MaxMoves /\ moves' = moves + 1
ElectionUnchanged == UNCHANGED <<leader, known, resource, acting>>
AddressUnchanged == UNCHANGED <<vips, haData, crm, urls>>

PeerJoins(u, peer) ==
  /\ u # peer /\ peer \notin known[u]
  /\ known' = [known EXCEPT ![u] = @ \cup {peer}]
  /\ UNCHANGED <<haExposed, newJuju, moves, leader, clustered, resource, acting, serving>>
  /\ AddressUnchanged

\* A hook asks who is elected, and does what the elected unit does
Act(u) ==
  /\ is_elected_leader(u)
  /\ acting' = acting \cup {u}
  /\ UNCHANGED <<haExposed, newJuju, moves, leader, known, clustered, resource, serving>>
  /\ AddressUnchanged

Acted(u) ==
  /\ u \in acting /\ acting' = acting \ {u}
  /\ UNCHANGED <<haExposed, newJuju, moves, leader, known, clustered, resource, serving>>
  /\ AddressUnchanged

NewLeader(u) ==
  /\ newJuju /\ Move
  /\ acting = {} \/ Exposed("lease")
  /\ leader' = u
  /\ UNCHANGED <<haExposed, newJuju, known, clustered, resource, acting, serving>>
  /\ AddressUnchanged

NewPlace(place) ==
  /\ ~newJuju /\ Move
  /\ acting = {} \/ Exposed("moving")
  /\ resource' = place
  /\ UNCHANGED <<haExposed, newJuju, leader, known, clustered, acting, serving>>
  /\ AddressUnchanged

\* hacluster acts on the unit's request, and tells one unit or all
Configure ==
  /\ haData # {} /\ crm' = haData \cup crm
  /\ clustered' \in {clustered \cup {Self}, Units}
  /\ (acting # {} \/ clustered' # Units) => Exposed("clustering")
  /\ UNCHANGED <<haExposed, newJuju, vips, moves, haData, urls, serving>>
  /\ ElectionUnchanged

\* config-changed: a charm answers the option by a new request to hacluster
SetVips(option) ==
  /\ Move
  /\ (clustered # {} \/ haData # {}) => Exposed("vip_option")
  /\ vips' = option
  /\ UNCHANGED <<haExposed, newJuju, clustered, haData, crm, urls, serving>>
  /\ ElectionUnchanged

generate_ha_relation_data ==
  /\ valid_hacluster_config /\ haData' = update_hacluster_vip
  /\ UNCHANGED <<haExposed, newJuju, vips, moves, clustered, crm, urls, serving>>
  /\ ElectionUnchanged

Advertise(e) ==
  /\ resolve_address(e) # "none"
  /\ urls' = With(urls, e, resolve_address(e))
  /\ UNCHANGED <<haExposed, newJuju, vips, moves, clustered, haData, crm, serving>>
  /\ ElectionUnchanged

\* A unit writes the files of its proxies and its service
Write(u, https) ==
  /\ serving' = With(serving, u, [port |-> Listens(u, https), peers |-> peer_units(u)])
  /\ UNCHANGED <<haExposed, newJuju, moves, clustered>>
  /\ ElectionUnchanged /\ AddressUnchanged

HaNext ==
  \/ \E u, peer \in Units : PeerJoins(u, peer)
  \/ \E u \in Units : Act(u) \/ Acted(u) \/ NewLeader(u)
  \/ \E place \in Units \cup {0} : NewPlace(place)
  \/ Configure \/ generate_ha_relation_data
  \/ \E option \in VipOptions : SetVips(option)
  \/ \E e \in DOMAIN EndpointNet : Advertise(e)
  \/ \E u \in Units, https \in BOOLEAN : Write(u, https)

HaSpec == HaInit /\ [][HaNext]_haVars
-----------------------------------------------------------------------------
\* Two units never do at a time what is for the elected one to do, whichever
\* way of election their Juju and their cluster leave them.
OneElected ==
  Spared({"joining", "clustering", "moving", "lease", "host_names"}) => Cardinality(acting) <= 1

\* An address that a unit advertises is one that Pacemaker has a resource
\* for, or that the unit calls invalid, and the proxy of each unit finds its
\* peers' services on the port it looks for them.
AdvertisedIsServed ==
  /\ Spared({"vip_option"}) =>
       \A e \in DOMAIN urls : urls[e] \in {Local} \cup crm \cup get_invalid_vips
  /\ Spared({"joining"}) =>
       \A u \in DOMAIN serving : \A peer \in serving[u].peers \cap DOMAIN serving :
         serving[peer].port = Public - 10
====
