---- MODULE MCParts ----
(***************************************************************************)
(* Instances of the parts for TLC, those of Stores and Deployment and the  *)
(* others, in one run: each behaviour is one of one part. Constants that   *)
(* are no definitions here are in MCParts.cfg.                             *)
(***************************************************************************)
EXTENDS Stores, Deployment, SequencesExt

VARIABLES
  hdExposed, hdCharm, hdSettings, template, happened, host, hdDone
-----------------------------------------------------------------------------
\* What hardened charms ask of Hardening, and the paths of their machines
OsDefaults == {"passwdqc", "retries", "suid_sgid_enforce", "arp_restricted"}
HdSet(os, client, server) == [os |-> os, client |-> client, server |-> server, trusty |-> TRUE]
HardenedCharms ==
  { [asked |-> {"os"}, settings |-> {HdSet(OsDefaults, {}, {}), HdSet({"core_dump", "forwarding"}, {}, {})}],
    [asked |-> {"mysql", "apache"}, settings |-> {HdSet({}, {}, {}), HdSet({"other"}, {}, {})}],
    [asked |-> {"ssh"},
     settings |-> { HdSet({}, {"weak_hmac"}, {"weak_hmac", "sftp_enable"}), HdSet({}, {"weak_hmac"}, {}),
                    [HdSet({}, {"roaming"}, {}) EXCEPT !.trusty = FALSE],
                    HdSet({}, {"weak_kex"}, {"weak_kex"}),
                    [HdSet({}, {"cbc_required"}, {"cbc_required"}) EXCEPT !.trusty = FALSE] }] }
HardeningPaths ==
  [p \in {"login.defs", "shadow", "passwdqc.conf", "tally2", "99-juju-hardening.conf", "sysctl.conf",
          "limits.d", "bin", "/etc/mysql", "/etc/apache2", "ssh_config", "sshd_config", "index.html"} |-> ""]
    @@ [p \in {"10.hardcore.conf"} |-> "limits.d"] @@ [p \in {"su", "rcp"} |-> "bin"]
    @@ [p \in {"my.cnf", "conf.d"} |-> "/etc/mysql"] @@ [p \in {"hardening.cnf"} |-> "conf.d"]
    @@ [p \in {"apache2.conf", "conf-enabled"} |-> "/etc/apache2"]
    @@ [p \in {"99-hardening.conf"} |-> "conf-enabled"]

\* What units of a client ask of MySQLUsers, plainly and under prefixes
Single(user, hosts) ==
  <<"database">> :> "db" @@ <<"username">> :> user @@ <<"hostname">> :> hosts
    @@ <<"private-address">> :> hosts
Prefixed(p, user, hosts) ==
  <<p, "database">> :> p @@ <<p, "username">> :> user @@ <<p, "hostname">> :> hosts
    @@ <<"private-address">> :> hosts
DbRequests ==
  { [c0 |-> Single("nova", {"h1", "h2"})],
    [c0 |-> Single("nova", {"h1", "h2"}), c1 |-> Single("nova", {"own", "h2"})],
    [c0 |-> Single("nova", {"h1"}), c1 |-> Single("nova", {"own", "h2"})],
    [c0 |-> Prefixed("api", "nova", {"h2"}) @@ Prefixed("cell0", "nova", {"h2"}),
     c1 |-> Prefixed("api", "nova", {"own"})] }

\* Values of openstack-origin
OriginSources ==
  {[form |-> "distro"], [form |-> "proposed"], [form |-> "ppa", release |-> 2]}
    \cup [form : {"bare"}, release : 1..3, pocket : {"", "proposed"}]
    \cup [form : {"cloud"}, series : {"", "jammy", "focal"}, release : 2..3,
          pocket : {"", "proposed", "updates", "staging"}]

\* Pools that clients ask CephPools for
Replicated(n, size, weight, quota, compression) ==
  [op |-> "replicated", name |-> n, size |-> size, pgs |-> 0, weight |-> weight,
   quota |-> quota, compression |-> compression, app |-> "rbd"]
Erasure(n, weight, compression) ==
  [op |-> "erasure", name |-> n, profile |-> "ec", weight |-> weight, quota |-> 0,
   compression |-> compression, app |-> "rgw", overwrites |-> TRUE]
PoolWishes ==
  { <<Replicated("a", 3, 30, 0, ""), Replicated("b", 2, 40, 5, "lz4")>>,
    <<[op |-> "profile", name |-> "ec", k |-> 2, m |-> 1], Erasure("c", 100, "lz4")>>,
    <<Replicated("a", 2, 30, 0, "")>>, <<Replicated("d", 3, 100, 7, "")>>,
    <<[Replicated("e", 3, 0, 0, "") EXCEPT !.pgs = 700],
      [Replicated("b", 3, 0, 0, "") EXCEPT !.pgs = 700]>>,
    <<Replicated("d", 3, 10, 0, ""), Replicated("d", 3, 10, 6, "")>>,
    <<Erasure("d", 10, "bad")>>, <<Replicated("d", 3, 10, 0, "bad")>> }

\* Resources for PolicyOverrides
Yaml(name, doc) == [name |-> name, ext |-> "yaml", doc |-> doc]
PolicyZips ==
  {[opens |-> FALSE, files |-> {}]}
    \cup [opens : {TRUE},
          files : { {},
                    {Yaml("a", "d1"), Yaml("b", "d2"), [name |-> "c", ext |-> "txt", doc |-> "no"]},
                    {Yaml("a", "d1"), [name |-> "a", ext |-> "yml", doc |-> "d2"]},
                    {Yaml("b", "d1"), [name |-> "a", ext |-> "j2", doc |-> "d2"]},
                    {Yaml("a", "d2"), Yaml("b", "no")}, {Yaml("a", "d2"), Yaml("own", "d1")},
                    {Yaml("a", "d2"), Yaml("b", "black")}, {Yaml("b", "d1"), Yaml("a", "admin")} }]

\* Virtual functions for NetDevices
CardVFs == [m1 |-> 2, m2 |-> 4]
SriovOptions ==
  [mode : {"auto"}, mapped : {{}, {"m1"}}] \cup {[mode |-> "blanket", all |-> 3]}
    \cup [mode : {"explicit"}, asked : {[m1 |-> 5, m2 |-> 0], [m1 |-> 1, m2 |-> 1]}]

MCLike == ("a" :> {"a", "ab"} @@ "b" :> {"b"})
MCVaults == <<"v1", "v2">>
MCDocs == [d1 |-> {"k"}, d2 |-> {"k", "l"}, no |-> {}, black |-> {"k", "x"}, admin |-> {"admin"}]
MCUnits == 1..2
MCSubNames == <<{1}, {1, 2}>>
MCVipOptions == {<< >>, <<"v1", "v2">>, <<"w", "v1">>}
MCNetOf == [v1 |-> "n1", v2 |-> "n2", w |-> "n3"]
MCEndpointNet == [public |-> "n1", admin |-> "n2"]
MCDistro == [focal |-> 1, jammy |-> 1]
MCPockets == {"jammy"} \X {2, 3}
MCBindings == <<"internal", "public">>
MCIpOf == [internal |-> "i0", public |-> "i1"]
MCVipOf == [internal |-> "v0", public |-> "v1"]
MCProviders == <<"p", "q">>
-----------------------------------------------------------------------------
Hd == INSTANCE Hardening WITH
        Charms <- HardenedCharms,
        Parent <- HardeningPaths,
        Dirs <- {"limits.d", "bin", "/etc/mysql", "conf.d", "/etc/apache2", "conf-enabled"},
        MaxHappens <- 1

hdV == <<hdExposed, hdCharm, hdSettings, template, happened, host, hdDone>>
vars == <<part, storesV, deploymentV, hdV>>

NoHd ==
  /\ hdExposed = Unused /\ hdCharm = Unused /\ hdSettings = Unused /\ template = Unused
  /\ happened = Unused /\ host = Unused /\ hdDone = Unused

Init ==
  \/ /\ StoresInit
     /\ NoDeployment /\ NoHd
  \/ /\ DeploymentInit
     /\ NoStores /\ NoHd
  \/ /\ part = "hd" /\ Hd!HdInit
     /\ NoStores /\ NoDeployment

Next ==
  /\ UNCHANGED part
  /\ \/ /\ StoresNext
        /\ UNCHANGED <<deploymentV, hdV>>
     \/ /\ DeploymentNext
        /\ UNCHANGED <<storesV, hdV>>
     \/ /\ part = "hd" /\ Hd!HdNext
        /\ UNCHANGED <<storesV, deploymentV>>

Spec == Init /\ [][Next]_vars
-----------------------------------------------------------------------------
\* Hardening: After a hardened hook the machine is as every audit of the modules asks,
\* by the templates and settings of today, services have loaded their files,
\* and the audits of the ssh files find what the same settings rendered to be
\* right, whatever happened to the machine and whichever hooks failed.
HardenedAsAsked == part = "hd" => Hd!HardenedAsAsked
====
