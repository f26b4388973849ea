---- MODULE OSContexts ----
(***************************************************************************)
(* The context generators of contrib/openstack/context.py: what each of    *)
(* them makes of the settings of the remote units and of the charm's       *)
(* configuration.                                                          *)
(*                                                                         *)
(* What matters of a value is where it comes from, so a setting's value is *)
(* the remote unit that set it: the settings on a relation are a function  *)
(* from the related units to the set of keys each of them has set, `cfg'   *)
(* is the set of configuration options that are set (for a flag: true),    *)
(* and a context is a function from template variables to a source.  None  *)
(* is what the code finds missing: Python's None or the empty string.      *)
(***************************************************************************)
EXTENDS Integers, Sequences, FiniteSets, SequencesExt

CONSTANTS
  RemoteUnits,  \* all units that may be related, in the order related_units lists them
  None          \* no value

ASSUME UnitsAssumption == RemoteUnits \in Seq(Range(RemoteUnits) \ {None})

NoContext == << >>                       \* the empty dictionary

\* related_units over the relation ids of an interface: their places
Related(s) == {i \in DOMAIN RemoteUnits : RemoteUnits[i] \in DOMAIN s}
FirstUnit(places) == IF places = {} THEN None ELSE RemoteUnits[Min(places)]
LastUnit(places) == IF places = {} THEN None ELSE RemoteUnits[Max(places)]

\* relation_get(key, unit): the value unit u has set, its source being u
Get(s, u, key) == IF key \in s[u] THEN u ELSE None

\* `a or b'
Or(a, b) == IF a = None THEN b ELSE a

\* config(option)
Option(cfg, o) == IF o \in cfg THEN "config" ELSE None

\* A dictionary with the entry only if there is a value for it
IfSet(key, value) == [k \in IF value = None THEN {} ELSE {key} |-> value]

\* A dictionary with the entries of these keys only if there are values for them
Given(keys, ctxt) == Restrict(ctxt, {k \in DOMAIN ctxt : k \in keys => ctxt[k] # None})

\* ctxt.update(new)
Updated(ctxt, new) ==
  [k \in DOMAIN ctxt \cup DOMAIN new |-> IF k \in DOMAIN new THEN new[k] ELSE ctxt[k]]

missing_data(ctxt) == {k \in DOMAIN ctxt : ctxt[k] = None}
context_complete(ctxt) == missing_data(ctxt) = {}

\* The loop `for rid: for unit: ctxt = ...; if complete: return ctxt', where
\* every unit starts from an empty dictionary: t is what each makes of it
FirstComplete(t) ==
  LET ready == {i \in Related(t) : context_complete(t[RemoteUnits[i]])}
  IN  IF ready = {} THEN NoContext ELSE t[RemoteUnits[Min(ready)]]

\* The same loop over one dictionary that every unit updates.  At a place in
\* the list it has each key from the last unit so far that gave it.
Merged(t, place) ==
  LET before == {i \in Related(t) : i <= place}
      giving(k) == {i \in before : k \in DOMAIN t[RemoteUnits[i]]}
  IN  [k \in UNION {DOMAIN t[RemoteUnits[i]] : i \in before} |->
         t[RemoteUnits[Max(giving(k))]][k]]

MergedComplete(t) == {i \in Related(t) : context_complete(Merged(t, i))}
-----------------------------------------------------------------------------
(***************************************************************************)
(* Databases.                                                              *)
(***************************************************************************)

\* db_ssl: files for the certificates that the unit offers
db_ssl(s, u, cfg) ==
  IF "ssl_ca" \in s[u] /\ "ssl_dir" \notin cfg THEN NoContext
  ELSE IfSet("database_ssl_ca", Get(s, u, "ssl_ca"))
         @@ (IF "ssl_cert" \in s[u]
             THEN [database_ssl_cert |-> u, database_ssl_key |-> Get(s, u, "ssl_key")]
             ELSE NoContext)

SharedDBContext(s, cfg) ==
  LET ctxt(u) == [database_host |-> Get(s, u, "db_host"),
                  database |-> Option(cfg, "database"),
                  database_user |-> Option(cfg, "database-user"),
                  database_password |-> Get(s, u, "password"),
                  database_port |-> Get(s, u, "db_port"),
                  database_type |-> "mysql"]
      found == FirstComplete([u \in DOMAIN s |-> Given({"database_port"}, ctxt(u))])
      \* asked for an address in a network, the hook first announces that one
      defers == (\E u \in DOMAIN s : "access-network" \in s[u]) /\ "announced" \notin cfg
  IN  IF defers \/ found = NoContext THEN NoContext
      ELSE Updated(found, db_ssl(s, found.database_host, cfg))

PostgresqlDBContext(s, cfg) ==
  FirstComplete([u \in DOMAIN s |-> [database_host |-> Get(s, u, "host"),
                                     database |-> Option(cfg, "database"),
                                     database_user |-> Get(s, u, "user"),
                                     database_password |-> Get(s, u, "password"),
                                     database_type |-> "postgresql"]])

OsloDBContext(cfg) ==
  IfSet("db_max_pool_size", Option(cfg, "db-max-pool-size"))
    @@ IfSet("db_max_overflow", Option(cfg, "db-max-overflow"))
-----------------------------------------------------------------------------
(***************************************************************************)
(* Identity.  The application's data, when there is any, comes before the  *)
(* unit's; its source is "app".  A value of the key api_version stands for *)
(* version 3, none for the default 2.0.  The dictionary is one for all     *)
(* units: what is set only for some of them stays from unit to unit.       *)
(***************************************************************************)
Resolve_AnyUnit(s, app, u, key) ==
  IF key \in app THEN "app"
  ELSE IF key \in s[u] THEN u
  ELSE LET have == {v \in DOMAIN s : key \in s[v]}
       IN  IF have = {} THEN None ELSE CHOOSE v \in have : TRUE

Resolve(s, app, u, key) == IF key \in app THEN "app" ELSE Get(s, u, key)

\* _get_keystone_authtoken_ctxt: nested, made of the same dictionary
keystone_authtoken(c) ==
  [auth_url |-> IF "internal_auth_url" \in DOMAIN c THEN c.internal_auth_url ELSE c.auth_host,
   www_authenticate_uri |-> IF "public_auth_url" \in DOMAIN c
                            THEN c.public_auth_url ELSE c.service_host,
   user_domain_name |-> IF "admin_domain_name" \in DOMAIN c
                        THEN c.admin_domain_name ELSE None,
   project_name |-> c.admin_tenant_name,
   username |-> c.admin_user,
   password |-> c.admin_password]

\* What a unit updates the dictionary with; version 3 has domains
IdentityUpdate(s, app, u) ==
  LET r(key) == Resolve(s, app, u, key)
      base == [service_port |-> r("service_port"), service_host |-> r("service_host"),
               auth_host |-> r("auth_host"), auth_port |-> r("auth_port"),
               internal_host |-> r("internal_host"), internal_port |-> r("internal_port"),
               admin_tenant_name |-> r("service_tenant"), admin_user |-> r("service_username"),
               admin_password |-> r("service_password"),
               admin_role |-> Or(r("admin_role"), "Admin"),
               service_protocol |-> Or(r("service_protocol"), "http"),
               auth_protocol |-> Or(r("auth_protocol"), "http"),
               internal_protocol |-> Or(r("internal_protocol"), "http"),
               api_version |-> Or(r("api_version"), "2.0"),
               service_type |-> r("service_type"),
               public_auth_url |-> r("public_auth_url"),
               internal_auth_url |-> r("internal_auth_url")]
      v3 == [admin_domain_name |-> r("service_domain"),
             service_project_id |-> r("service_tenant_id"),
             service_domain_id |-> r("service_domain_id")]
  IN  Given({"service_type", "public_auth_url", "internal_auth_url"},
            IF r("api_version") = None THEN base ELSE Updated(base, v3))

\* The nested dictionary is made anew for every unit and never missing, so
\* that of the unit that completes the dictionary is the one there is.
IdentityServiceContext(s, app) ==
  LET t == [u \in DOMAIN s |-> IdentityUpdate(s, app, u)]
      place == Min(MergedComplete(t))
      ctxt == Merged(t, place)
      r(key) == Resolve(s, app, RemoteUnits[place], key)
  IN  IF MergedComplete(t) = {} THEN NoContext
      ELSE Updated(ctxt, [keystone_authtoken |-> keystone_authtoken(ctxt),
                          admin_user_id |-> r("service_user_id"),
                          admin_tenant_id |-> r("service_tenant_id"),
                          admin_domain_id |-> r("service_domain_id")])

CredentialsUpdate(s, u) ==
  LET r(key) == Get(s, u, key)
      base == [service_port |-> r("credentials_port"), service_host |-> r("credentials_host"),
               auth_host |-> r("auth_host"), auth_port |-> r("auth_port"),
               admin_tenant_name |-> r("credentials_project"),
               admin_tenant_id |-> r("credentials_project_id"),
               admin_user |-> r("credentials_username"),
               admin_password |-> r("credentials_password"),
               service_protocol |-> Or(r("credentials_protocol"), "http"),
               auth_protocol |-> Or(r("auth_protocol"), "http"),
               api_version |-> Or(r("api_version"), "2.0"),
               service_type |-> r("service_type")]
      v3 == [admin_domain_name |-> r("domain")]
  IN  Given({"service_type"}, IF r("api_version") = None THEN base ELSE Updated(base, v3))

IdentityCredentialsContext(s) ==
  LET t == [u \in DOMAIN s |-> CredentialsUpdate(s, u)]
  IN  IF MergedComplete(t) = {} THEN NoContext ELSE Merged(t, Min(MergedComplete(t)))
-----------------------------------------------------------------------------
(***************************************************************************)
(* Messaging.  One dictionary for all units again; after the first unit    *)
(* that makes it complete the hosts of all units that have sent a password *)
(* are collected, and the transport URL is made with the password in the   *)
(* dictionary.                                                             *)
(***************************************************************************)
AMQPUpdate(s, u) ==
  LET r(key) == Get(s, u, key)
      flag(value) == IF value = None THEN None ELSE "True"
  IN  Given({"rabbitmq_ha_queues", "rabbit_ssl_ca", "rabbit_ssl_port", "clustered"},
            [rabbitmq_user |-> "config", rabbitmq_virtual_host |-> "config",
             rabbitmq_password |-> r("password"),
             rabbitmq_host |-> IF r("clustered") # None THEN r("vip") ELSE u,
             clustered |-> flag(r("clustered")), rabbitmq_ha_queues |-> flag(r("ha_queues")),
             rabbit_ssl_ca |-> r("ssl_ca"), rabbit_ssl_port |-> r("ssl_port")])

AMQPOptions(cfg) ==
  IfSet("oslo_messaging_flags", Option(cfg, "oslo-messaging-flags"))
    @@ "oslo_messaging_driver" :> Or(Option(cfg, "oslo-messaging-driver"), "messagingv2")
    @@ IfSet("notification_format", Option(cfg, "notification-format"))
    @@ IfSet("notification_topics", Option(cfg, "notification-topics"))
    @@ IfSet("send_notifications_to_logs", Option(cfg, "send-notifications-to-logs"))

AMQPContext(s, cfg) ==
  LET t == [u \in DOMAIN s |-> AMQPUpdate(s, u)]
      place == Min(MergedComplete(t))
      ctxt == Merged(t, place)
      vip_only == Get(s, RemoteUnits[place], "ha-vip-only") # None
      many == ("clustered" \notin DOMAIN ctxt \/ vip_only) /\ Cardinality(Related(s)) > 1
      ready == {u \in DOMAIN s : Get(s, u, "password") # None}
      hosts == IF many THEN ready ELSE {ctxt.rabbitmq_host}
  IN  IF MergedComplete(t) = {} THEN NoContext
      ELSE AMQPOptions(cfg)
             @@ (IF many THEN "rabbitmq_hosts" :> ready ELSE NoContext)
             @@ "transport_url" :> [hosts |-> hosts, password |-> ctxt.rabbitmq_password]
             @@ ctxt

ZeroMQContext(s) ==
  LET u == LastUnit(Related(s))
  IN  IF \A v \in DOMAIN s : "host" \notin s[v] THEN NoContext
      ELSE [zmq_nonce |-> Get(s, u, "nonce"), zmq_host |-> Get(s, u, "host"),
            zmq_redis_address |-> Get(s, u, "zmq_redis_address")]

NotificationDriverContext(amqp) ==
  [notifications |-> IF \E u \in DOMAIN amqp : "private-address" \in amqp[u]
                     THEN "True" ELSE "False"]
-----------------------------------------------------------------------------
(***************************************************************************)
(* Storage, images and proxies.                                            *)
(***************************************************************************)
FirstSetting(s, key) == FirstUnit({i \in Related(s) : key \in s[RemoteUnits[i]]})

\* Key and mode of authentication are taken from the first unit that has
\* each of them, the hosts are those of all units
CephContext(s, cfg) ==
  LET ctxt == [auth |-> FirstSetting(s, "auth"), key |-> FirstSetting(s, "key"),
               use_syslog |-> "config", mon_hosts |-> DOMAIN s]
              @@ IfSet("rbd_features", FirstSetting(s, "rbd-features"))
              @@ (IF "erasure-coded" \in cfg
                  THEN "rbd_default_data_pool" :> Or(Or(Option(cfg, "rbd-pool"),
                                                        Option(cfg, "rbd-pool-name")), "service")
                  ELSE NoContext)
  IN  IF DOMAIN s # {} /\ context_complete(ctxt) THEN ctxt ELSE NoContext

ImageServiceContext(s) == IfSet("glance_api_servers", FirstSetting(s, "glance-api-server"))

\* Backends of a frontend: this unit and the peers that gave an address of
\* the type.  The context exists as soon as one frontend has a peer.
backends(s, me, key) == {me} \cup {u \in DOMAIN s : key \in s[u]}

\* Frontends are named by this unit's address in each network; the one of the
\* cluster binding comes last and replaces one with the same address.
HAProxyContext(s, related, cfg, me, address) ==
  LET networks == DOMAIN address
      named(a) == CHOOSE n \in networks : address[n] = a /\ (address.cluster = a => n = "cluster")
      key(n) == IF n = "cluster" THEN "private-address" ELSE n
      frontends == [a \in Range(address) |-> backends(s, me, key(named(a)))]
      singlenode_mode == "singlenode-mode" \in cfg
  IN  IF ~related /\ ~singlenode_mode THEN NoContext
      ELSE IF \E a \in DOMAIN frontends : Cardinality(frontends[a]) > 1 \/ singlenode_mode
      THEN [frontends |-> frontends, default_backend |-> address.cluster,
            local_host |-> IF "prefer-ipv6" \in cfg THEN "ip6-localhost" ELSE "127.0.0.1",
            stat_password |-> "kv", stat_port |-> "8888"]
      ELSE NoContext

\* Certificates come from the keystone relation unless there is a unit on
\* the certificates relation.  The name of a key is what is left of the
\* setting's name when the characters of "ssl_key_" are taken off its front,
\* some of which belong to the host's name.
lstrip == "alpha" :> "alpha" @@ "keystone" :> "tone" @@ "local" :> "ocal"

canonical_names(s) == {lstrip[n] : n \in {m \in DOMAIN lstrip :
                         \E u \in DOMAIN s : "ssl_key_" \o m \in s[u]}}

configured_certs(certificates, identity) ==
  IF DOMAIN certificates # {} THEN {}
  ELSE {n \in (IF canonical_names(identity) # {} THEN canonical_names(identity)
               ELSE {"internal", "admin", "public"}) :
          \E u \in DOMAIN identity : {"ssl_cert_" \o n, "ssl_key_" \o n} \subseteq identity[u]}

\* one endpoint per network address and external port
ApacheSSLContext(external_ports, https, addresses, namespace) ==
  IF external_ports = {} \/ ~https THEN NoContext
  ELSE [namespace |-> namespace,
        endpoints |-> {<<a, p, p - 10, p - 20>> : a \in addresses, p \in external_ports},
        ext_ports |-> {p - 10 : p \in external_ports}]
-----------------------------------------------------------------------------
(***************************************************************************)
(* Configuration exported by subordinates.  A blob is a function from      *)
(* services to functions from files to sets of sections.  The loop over    *)
(* the services narrows `sub_config' to the first service it finds, and    *)
(* goes on from there.                                                     *)
(***************************************************************************)
SubordinateSections(services, blob, file) ==
  LET found == SelectSeq(services, LAMBDA svc : svc \in DOMAIN blob)
  IN  IF found = << >> THEN {}
      ELSE IF file \in DOMAIN blob[Head(found)] THEN blob[Head(found)][file]
      ELSE {}

SubordinateConfigContext(blobs, services, file) ==
  LET sections == UNION {SubordinateSections(services, blobs[u], file) : u \in DOMAIN blobs}
  IN  IF sections = {} THEN NoContext ELSE [sections |-> sections]
-----------------------------------------------------------------------------
(***************************************************************************)
(* Neutron.                                                                *)
(***************************************************************************)
NeutronPlugins == {"ovs", "nvp", "nsx", "n1kv", "Calico", "vsp", "plumgrid", "midonet"}

\* <plugin>_ctxt: driver and configuration of the plugin, nvp for nsx
plugin_ctxt(plugin, cfg) ==
  [neutron_plugin |-> IF plugin = "nsx" THEN "nvp" ELSE plugin,
   core_plugin |-> plugin, config |-> plugin, local_ip |-> "unit"]
  @@ (IF plugin = "n1kv"
      THEN [vsm_ip |-> Option(cfg, "n1kv-vsm-ip"),
            vsm_username |-> Option(cfg, "n1kv-vsm-username"),
            vsm_password |-> Option(cfg, "n1kv-vsm-password")]
           @@ IfSet("user_config_flags", Option(cfg, "n1kv-config-flags"))
      ELSE NoContext)

NeutronContext(plugin, network_manager, cfg) ==
  IF network_manager \notin {"quantum", "neutron"} \/ plugin = None THEN NoContext
  ELSE IfSet("neutron_alchemy_flags", Option(cfg, "neutron-alchemy-flags"))
         @@ (IF plugin \in NeutronPlugins THEN plugin_ctxt(plugin, cfg) ELSE NoContext)
         @@ [network_manager |-> network_manager,
             neutron_url |-> <<IF "https" \in cfg THEN "https" ELSE "http",
                               IF "clustered" \in cfg THEN "vip" ELSE "unit">>]

\* The settings of the last unit that sends l2-population win as a whole:
\* each such unit overwrites every option, with the default if it has none
NeutronAPIContext(s) ==
  LET recent == LastUnit({i \in Related(s) : "l2-population" \in s[RemoteUnits[i]]})
      option(key) == IF recent = None THEN None ELSE Get(s, recent, key)
      on(key) == option(key) # None
  IN  [enable_dvr |-> option("enable-dvr"), enable_l3ha |-> option("enable-l3ha"),
       network_device_mtu |-> option("network-device-mtu"),
       dns_domain |-> option("dns-domain"),
       extension_drivers |-> {d \in {"qos", "log"} :
                                on(IF d = "qos" THEN "enable-qos" ELSE "enable-nsg-logging")},
       l3_extension_plugins |->
         (IF on("enable-port-forwarding") THEN {"port_forwarding"} ELSE {})
           \cup (IF on("enable-fwaas") THEN {"fwaas_v2"} ELSE {})
           \cup (IF on("enable-fwaas") /\ on("enable-nfg-logging") THEN {"fwaas_v2_log"} ELSE {})]

NetworkServiceContext(s) ==
  LET required == {"keystone_host", "service_port", "auth_port", "service_tenant",
                   "service_username", "service_password", "quantum_host", "quantum_port",
                   "quantum_url", "region"}
      default == [service_protocol |-> "http", auth_protocol |-> "http", api_version |-> "2.0"]
      value(u, k) == IF k \in required THEN Get(s, u, k) ELSE Or(Get(s, u, k), default[k])
  IN  FirstComplete([u \in DOMAIN s |-> [k \in required \cup DOMAIN default |-> value(u, k)]])
-----------------------------------------------------------------------------
(***************************************************************************)
(* Contexts of configuration options and of the host.  Arithmetic on       *)
(* weights is in hundredths.                                               *)
(***************************************************************************)
NovaVendorMetadataContext(cfg) ==
  LET after_mitaka == "mitaka" \in cfg
      static == "vendor-data" \in cfg /\ "vendor-data-valid" \in cfg
      dynamic == "vendor-data-url" \in cfg /\ after_mitaka
      providers == (IF static /\ after_mitaka THEN {"StaticJSON"} ELSE {})
                     \cup (IF dynamic THEN {"DynamicJSON"} ELSE {})
  IN  [vendor_data |-> static]
        @@ (IF dynamic THEN "vendor_data_url" :> "config" ELSE NoContext)
        @@ (IF providers = {} THEN NoContext ELSE "vendordata_providers" :> providers)

NovaVendorMetadataJSONContext(cfg) ==
  [vendor_data_json |-> IF {"vendor-data", "vendor-data-valid"} \subseteq cfg
                        THEN "config" ELSE "{}"]

OSConfigFlagContext(cfg, charm_flag, template_flag) ==
  IfSet(template_flag, Option(cfg, charm_flag))

LibvirtConfigFlagsContext(cfg) == IfSet("libvirt_flags", Option(cfg, "libvirt-flags"))

\* _calculate_workers: cpus times the multiplier, at least one; without any
\* multiplier at most four.  None and a multiplier that is not positive
\* fall back to the configured one.
calculate_workers(cpus, multiplier, configured) ==
  LET given == multiplier # None /\ (IF multiplier = None THEN FALSE ELSE multiplier > 0)
      scale == IF given THEN multiplier ELSE IF configured = None THEN 200 ELSE configured
      count == (cpus * scale) \div 100
      least == IF count <= 0 THEN 1 ELSE count
  IN  IF multiplier = None /\ configured = None /\ least > 4 THEN 4 ELSE least

CeilShare(weight, total) == (weight * total + 99) \div 100

WSGIWorkerConfigContext(cpus, configured, admin, public, weights) ==
  LET total == calculate_workers(cpus, None, configured)
      share(mult, weight) ==
        IF mult = None THEN CeilShare(weight, total)
        ELSE IF mult <= 0 THEN CeilShare(weight, total)
        ELSE calculate_workers(cpus, mult, configured)
  IN  [processes |-> CeilShare(weights.process, total),
       admin_processes |-> share(admin, weights.admin),
       public_processes |-> share(public, weights.public), threads |-> 1]

VolumeAPIContext(cfg) ==
  LET pike == "pike" \in cfg
  IN  [volume_api_version |-> IF pike THEN "3" ELSE "2",
       volume_catalog_info |-> <<IF pike THEN "volumev3" ELSE "volumev2",
                                 IF "use-internal-endpoints" \in cfg
                                 THEN "internalURL" ELSE "publicURL">>]

MemcacheContext(cfg) ==
  LET enabled == "memcache" \in cfg
      after_trusty == "after-trusty" \in cfg
      ipv6_disabled == "ipv6-disabled" \in cfg
  IN
  "use_memcache" :> enabled
    @@ (IF ~enabled THEN NoContext
        ELSE [memcache_server |->
                CASE ipv6_disabled /\ after_trusty -> "127.0.0.1"
                  [] ipv6_disabled /\ ~after_trusty -> "localhost"
                  [] ~ipv6_disabled /\ after_trusty -> "::1"
                  [] OTHER -> "ip6-localhost",
              memcache_port |-> "11211",
              memcache_url |-> IF ipv6_disabled THEN "127.0.0.1:11211" ELSE "inet6:[::1]:11211"])

HostInfoContext(cfg) ==
  [host_fqdn |-> Or(Option(cfg, "canonical-name"), "host"), host |-> "host",
   use_fqdn_hint |-> "fqdn-hint" \in cfg]
-----------------------------------------------------------------------------
(***************************************************************************)
(* The context of a name, by which the files of a unit list theirs.  `rel' *)
(* is the settings on each relation there is; facts about the machine and  *)
(* its packages are members of `cfg' as well.                              *)
(***************************************************************************)
Settings(rel, i) == IF i \in DOMAIN rel THEN rel[i] ELSE NoContext

Context(i, rel, cfg) ==
  LET s == Settings(rel, i)
  IN  CASE i = "shared-db" -> SharedDBContext(s, cfg)
        [] i = "pgsql-db" -> PostgresqlDBContext(s, cfg)
        [] i = "identity-service" -> IdentityServiceContext(s, {})
        [] i = "identity-credentials" -> IdentityCredentialsContext(s)
        [] i = "amqp" -> AMQPContext(s, cfg)
        [] i = "ceph" -> CephContext(s, cfg)
        [] i = "image-service" -> ImageServiceContext(s)
        [] i = "zeromq-configuration" -> ZeroMQContext(s)
        [] i = "neutron-plugin-api" -> NeutronAPIContext(s)
        [] i = "quantum-network-service" -> NetworkServiceContext(s)
        [] i = "cluster" ->
             HAProxyContext(s, i \in DOMAIN rel, cfg, "me", [cluster |-> "a", public |-> "b"])
        [] i = "https" ->
             ApacheSSLContext({80}, "https" \in cfg, {"a", "b"},
                              configured_certs(Settings(rel, "certificates"),
                                               Settings(rel, "identity-service")))
        [] i = "subordinate" ->
             SubordinateConfigContext([u \in DOMAIN s |-> [svc \in s[u] |-> [conf |-> {svc}]]],
                                      <<"nova", "cinder">>, "conf")
        [] i = "notifications" -> NotificationDriverContext(Settings(rel, "amqp"))
        [] i = "neutron" -> NeutronContext("ovs", "neutron", cfg)
        [] i = "oslo-db" -> OsloDBContext(cfg)
        [] i = "vendor-data" -> NovaVendorMetadataContext(cfg) @@ NovaVendorMetadataJSONContext(cfg)
        [] i = "flags" -> OSConfigFlagContext(cfg, "config-flags", "user_config_flags")
                            @@ LibvirtConfigFlagsContext(cfg)
        [] i = "workers" -> WSGIWorkerConfigContext(2, None, None, None,
                                                    [process |-> 100, admin |-> 25, public |-> 75])
        [] i = "volume" -> VolumeAPIContext(cfg)
        [] i = "memcache" -> MemcacheContext(cfg)
        [] i = "host-info" -> HostInfoContext(cfg)
====
