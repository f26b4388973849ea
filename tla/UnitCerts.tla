---- MODULE UnitCerts ----
(***************************************************************************)
(* Certificates of a unit (contrib/openstack/cert_utils): a unit requests  *)
(* one for each of its names, installs what the certificates relation      *)
(* answers, and links each of its addresses to the certificate that covers *)
(* it.                                                                     *)
(***************************************************************************)
EXTENDS Integers, Sequences, FiniteSetsExt, Functions

CONSTANTS
  Bindings,  \* the sequence of endpoint bindings
  IpOf,      \* IpOf[b]: the unit's address in the network of binding b
  VipOf,     \* VipOf[b]: the VIP in that network
  Private,   \* the private address of the unit; its VIP is that of its network
  HostNames, \* the names that os-<endpoint>-hostname may have
  Host,      \* the host name of the unit
  Custom,    \* custom_hostname_link
  Providers, \* the sequence of the units of the certificates relation
  MaxIssues, \* bound: answers
  MaxChanges \* bound: changes of the network and the options

(***************************************************************************)
(* moved        a name is set or taken for addresses that have links       *)
(* linked_name  a name that has a link gets a certificate of its own       *)
(* same_name    two bindings have one name                                 *)
(* killed       a hook is killed while it makes links                      *)
(* two_units    another unit of the provider answers                       *)
(***************************************************************************)
CertHazards == {"moved", "linked_name", "same_name", "killed", "two_units"}

BindingSet == Range(Bindings)
IPs == {Private} \cup {IpOf[b] : b \in BindingSet}
VIPs == {VipOf[b] : b \in BindingSet}
FileNames == HostNames \cup {Host, Custom} \cup IPs \cup VIPs

NoCert == [cn |-> "", sans |-> {}, issue |-> 0]
NoAnswer == [cn \in {} |-> NoCert]

VARIABLES
  certExposed, \* the hazards of this unit; never changes
  certChanges, \* changes of the network and the options
  override,    \* override[b]: os-<b>-hostname, "" if not set
  bound,       \* the bindings that have a network
  vipsSet,     \* the VIPs of the option vip
  requested,   \* cert_requests on the relation: a set of sans for each name
  issued,      \* answers so far
  answers,     \* answers[v]: certificates by name, NoAnswer if there are none
  processed,   \* the unit whose answer was processed, "" after a change
  certFiles,   \* certFiles[n]: what cert_<n> holds when it is a file
  keyFiles,    \* keyFiles[n]: the certificate that key_<n> belongs to
  certLinks,   \* certLinks[n]: what cert_<n> links to, "" if it is no link
  keyLinks     \* likewise for key_<n>

certVars == <<certExposed, certChanges, override, bound, vipsSet, requested, issued, answers,
              processed, certFiles, keyFiles, certLinks, keyLinks>>

Spared(hazards) == certExposed \cap hazards = {}
SslDir == <<certFiles, keyFiles, certLinks, keyLinks>>
Options == <<override, bound, vipsSet>>
Relation == <<requested, issued, answers>>
-----------------------------------------------------------------------------
(***************************************************************************)
(* The request.                                                            *)
(***************************************************************************)
NetworkOf(ip) == {ip} \cup {VipOf[b] : b \in {c \in BindingSet : IpOf[c] = ip}}
get_vip_in_network(ip) == vipsSet \cap {VipOf[b] : b \in {c \in BindingSet : IpOf[c] = ip}}
InNetworkOf(ip) == {ip} \cup get_vip_in_network(ip)
Override(b) == {override[b]} \ {""}

\* Not the bindings without a network: NoNetworkBinding
Named == {b \in bound : override[b] # ""}
EntryOf(b) == Override(b) \cup InNetworkOf(IpOf[b])
Places(cn) == {i \in DOMAIN Bindings : Bindings[i] \in Named /\ override[Bindings[i]] = cn}

get_certificate_sans ==
  {Private} \cup UNION {Override(b) \cup InNetworkOf(IF b \in bound THEN IpOf[b] ELSE Private) :
                        b \in BindingSet}

\* Of two entries with one name the last one stays
get_certificate_request ==
  [cn \in {override[b] : b \in Named} \cup {Host} |->
     IF cn = Host
     THEN InNetworkOf(Private) \cup (get_certificate_sans \ UNION {EntryOf(b) : b \in Named})
     ELSE EntryOf(Bindings[Max(Places(cn))])]

\* The first of the names cns: as they are added, and the host name last
FirstOf(cns) ==
  LET places == {i \in DOMAIN Bindings : Bindings[i] \in Named /\ override[Bindings[i]] \in cns \ {Host}}
  IN  IF places = {} THEN Host ELSE override[Bindings[Min(places)]]
-----------------------------------------------------------------------------
(***************************************************************************)
(* Files and links.                                                        *)
(***************************************************************************)
\* A link may lead to another
Follow(links, n) == LET m == IF links[n] = "" THEN n ELSE links[n]
                    IN  IF links[m] = "" THEN m ELSE links[m]
Cert(n) == certFiles[Follow(certLinks, n)]
Key(n) == keyFiles[Follow(keyLinks, n)]

\* write_file writes where a link leads; of two names that lead to one file
\* the later one stays
Last(cns, place) == CHOOSE cn \in cns : \A other \in cns : place[other] <= place[cn]

install_certs(files, links, certs, place) ==
  [f \in FileNames |->
     LET cns == {cn \in DOMAIN certs : Follow(links, cn) = f}
     IN  IF cns = {} THEN files[f] ELSE certs[Last(cns, place)]]

IsFile(files, n) == files[Follow(certLinks, n)] # NoCert

\* The name that n is linked to, now that files are there, or ""
LinkTo(files, n) ==
  LET req == get_certificate_request
      cns == {cn \in DOMAIN req : /\ IsFile(files, cn)
                                  /\ n \in req[cn] \/ (cn = Host /\ n = Custom)}
  IN  IF IsFile(files, n) \/ cns = {} THEN "" ELSE FirstOf(cns)

create_ip_cert_links_HostOnly(links, files) ==
  [n \in FileNames |-> IF LinkTo(files, n) = Host THEN Host ELSE links[n]]

create_ip_cert_links(links, files) ==
  [n \in FileNames |-> LET cn == LinkTo(files, n) IN IF cn = "" THEN links[n] ELSE cn]
-----------------------------------------------------------------------------
(***************************************************************************)
(* The conversation.                                                       *)
(***************************************************************************)
Answered(v) == DOMAIN answers[v] # {}

\* A hook of the charm that sets the request
Request ==
  /\ requested # get_certificate_request
  /\ requested' = get_certificate_request
  /\ UNCHANGED <<certExposed, certChanges, issued, answers, processed>>
  /\ UNCHANGED Options /\ UNCHANGED SslDir

\* A unit of the provider answers what is requested
Answer(v) ==
  /\ issued < MaxIssues /\ DOMAIN requested # {}
  /\ (\A w \in Range(Providers) \ {v} : ~Answered(w)) \/ "two_units" \in certExposed
  /\ issued' = issued + 1
  /\ answers' = [answers EXCEPT ![v] =
                   [cn \in DOMAIN requested |->
                      [cn |-> cn, sans |-> requested[cn], issue |-> issued']]]
  /\ processed' = ""
  /\ UNCHANGED <<certExposed, certChanges, requested>>
  /\ UNCHANGED Options /\ UNCHANGED SslDir

\* The names of certs, at most those of all bindings and Host, in some order
Orders(certs) ==
  {place \in Injection(DOMAIN certs, 0..Len(Bindings)) :
     \A cn \in DOMAIN certs : place[cn] = 0 \/ place[cn] - 1 \in Range(place)}

\* In the hook about the answer of v
process_certificates(v) ==
  /\ Answered(v)
  /\ processed' = v
  /\ \E place \in Orders(answers[v]) :
       LET files == install_certs(certFiles, certLinks, answers[v], place)
       IN  /\ certFiles' = files
           /\ keyFiles' = install_certs(keyFiles, keyLinks, answers[v], place)
           /\ certLinks' = create_ip_cert_links(certLinks, files)
           /\ keyLinks' = create_ip_cert_links(keyLinks, files)
  /\ UNCHANGED <<certExposed, certChanges>> /\ UNCHANGED Relation /\ UNCHANGED Options

\* Before a link to a key
Killed(v) ==
  /\ "killed" \in certExposed /\ Answered(v)
  /\ \E place \in Orders(answers[v]), n \in FileNames :
       LET files == install_certs(certFiles, certLinks, answers[v], place)
       IN  /\ LinkTo(files, n) # ""
           /\ certFiles' = files
           /\ keyFiles' = install_certs(keyFiles, keyLinks, answers[v], place)
           /\ certLinks' = [certLinks EXCEPT ![n] = LinkTo(files, n)]
  /\ UNCHANGED <<certExposed, certChanges, processed, keyLinks>>
  /\ UNCHANGED Relation /\ UNCHANGED Options

get_requests_for_local_unit == {i \in DOMAIN Providers : Answered(Providers[i])}

get_bundle_for_cn(cn) ==
  LET with == {i \in get_requests_for_local_unit : cn \in DOMAIN answers[Providers[i]]}
  IN  IF with = {} THEN NoCert ELSE answers[Providers[Min(with)]][cn]

\* Without the options use-https, ssl_cert and ssl_key
https == get_requests_for_local_unit # {}

Change ==
  /\ certChanges < MaxChanges /\ certChanges' = certChanges + 1
  /\ processed' = ""
  /\ UNCHANGED certExposed /\ UNCHANGED Relation /\ UNCHANGED SslDir

Unlinked(names) == \A n \in names : certLinks[n] = ""

\* A binding with a network has the name n from now on
MayName(b, n) ==
  /\ Unlinked(NetworkOf(IpOf[b])) \/ "moved" \in certExposed
  /\ Unlinked({n} \ {""}) \/ "linked_name" \in certExposed

SetName(b, n) ==
  /\ Change
  /\ n # override[b]
  /\ b \in bound => MayName(b, n)
  /\ n # "" /\ (\E c \in BindingSet \ {b} : override[c] = n) => "same_name" \in certExposed
  /\ override' = [override EXCEPT ![b] = n]
  /\ UNCHANGED <<bound, vipsSet>>

SetVips(vips) ==
  /\ Change
  /\ vips # vipsSet
  /\ vipsSet' = vips
  /\ UNCHANGED <<override, bound>>

Bind(b) ==
  /\ Change
  /\ b \notin bound
  /\ override[b] # "" => MayName(b, override[b])
  /\ bound' = bound \cup {b}
  /\ UNCHANGED <<override, vipsSet>>

CertInit ==
  /\ certExposed \in {{}} \cup {{h} : h \in CertHazards}
  /\ certChanges = 0
  /\ override = [b \in BindingSet |-> ""]
  /\ bound \in {BindingSet, {Bindings[1]}}
  /\ vipsSet \in {{}, VIPs}
  /\ requested = NoAnswer /\ issued = 0 /\ processed = ""
  /\ answers = [v \in Range(Providers) |-> NoAnswer]
  /\ certFiles = [n \in FileNames |-> NoCert] /\ keyFiles = certFiles
  /\ certLinks = [n \in FileNames |-> ""] /\ keyLinks = certLinks

CertNext ==
  \/ Request
  \/ \E v \in Range(Providers) : Answer(v) \/ process_certificates(v) \/ Killed(v)
  \/ \E b \in BindingSet, n \in HostNames \cup {""} : SetName(b, n)
  \/ SetVips({}) \/ SetVips(VIPs)
  \/ \E b \in BindingSet : Bind(b)

CertSpec == CertInit /\ [][CertNext]_certVars
-----------------------------------------------------------------------------
\* The unit processed the answer to what it needs now
Settled ==
  /\ processed # "" /\ https
  /\ [cn \in DOMAIN answers[processed] |-> answers[processed][cn].sans] = get_certificate_request

\* Once a unit has processed the answer to the request for its names and
\* addresses as they are now, each of them finds a certificate that covers it,
\* with its key; none of its addresses was left out of the request, and the
\* bundle of a name is the one that was installed.
EachAddressServed ==
  Settled =>
    /\ Spared({"moved", "linked_name", "same_name", "killed"}) =>
         \A cn \in DOMAIN get_certificate_request :
           \A n \in get_certificate_request[cn] \cup {cn} :
             /\ n \in Cert(n).sans \cup {Cert(n).cn}
             /\ Key(n) = Cert(n)
    /\ Spared({"same_name"}) =>
         \A b \in bound : \A n \in InNetworkOf(IpOf[b]) :
           \E cn \in DOMAIN get_certificate_request : n \in get_certificate_request[cn]
    /\ Spared({"two_units", "linked_name"}) =>
         \A cn \in DOMAIN get_certificate_request : get_bundle_for_cn(cn) = Cert(cn)
====
