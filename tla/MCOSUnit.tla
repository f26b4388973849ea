---- MODULE MCOSUnit ----
EXTENDS OSUnit
MCUnits == <<"remote/0", "remote/1">>
Db == {"db_host", "password"}
Pg == {"host", "user", "password"}
Id == {"service_port", "service_host", "auth_host", "auth_port", "internal_host", "internal_port",
       "service_tenant", "service_username", "service_password"}
V3 == {"api_version", "service_domain", "service_tenant_id", "service_domain_id"}
Credentials == {"credentials_port", "credentials_host", "auth_host", "auth_port",
  "credentials_project", "credentials_project_id", "credentials_username", "credentials_password"}
Net == {"keystone_host", "service_port", "auth_port", "service_tenant", "service_username",
        "service_password", "quantum_host", "quantum_port", "quantum_url", "region"}
Both == {"remote/0", "remote/1"}
One == {"remote/0"}
MCCharms ==
  { \* two services and one relation: pause, resume, upgrade, failures
    [services |-> {"api", "worker"}, contexts |-> [conf |-> <<"shared-db", "oslo-db">>],
     required |-> [database |-> {"shared-db"}], needs |-> ("shared-db" :> Db),
     says |-> {"active"}, settings |-> ("shared-db" :> {Db}), units |-> One,
     cfg |-> {"database", "database-user"}, versions |-> {0, 1},
     exposures |-> {{}, {"series_upgrade"}, {"hook_failure"}, {"service_failure"},
                    {"option_together"}}],
    \* a database of either kind, and a charm that may have to wait itself
    [services |-> {"api"}, contexts |-> [conf |-> <<"shared-db", "pgsql-db">>],
     required |-> [database |-> {"shared-db", "pgsql-db"}],
     needs |-> ("shared-db" :> Db @@ "pgsql-db" :> Pg),
     says |-> {"active", "waiting"},
     settings |-> ("shared-db" :> {{}, Db \cup {"ssl_ca"}} @@ "pgsql-db" :> {Pg}),
     units |-> One, cfg |-> {"database", "database-user", "ssl_dir"}, versions |-> {0},
     exposures |-> {{}}],
    \* two files, and keystone units that send their settings in two hooks
    [services |-> {"api"},
     contexts |-> [conf |-> <<"identity-service">>, paste |-> <<"identity-service", "https">>],
     required |-> [identity |-> {"identity-service"}],
     needs |-> ("identity-service" :> Id),
     says |-> {"active"},
     settings |-> ("identity-service" :> {Id, Id \cup V3, (Id \cup V3) \ {"service_password"}}),
     units |-> Both, cfg |-> {"https"}, versions |-> {0},
     exposures |-> {{}, {"mixed_versions"}}],
    \* message brokers and other users of the same services
    [services |-> {"api"}, contexts |-> [conf |-> <<"amqp", "notifications">>],
     required |-> [messaging |-> {"amqp"}], needs |-> ("amqp" :> {"password"}),
     says |-> {"active"},
     settings |-> ("amqp" :> {{}, {"password"}, {"password", "clustered", "vip"}}),
     units |-> Both, cfg |-> {"notification-format"}, versions |-> {0}, exposures |-> {{}}],
    \* everything else
    [services |-> {"api"},
     contexts |-> [conf |-> <<"identity-credentials", "vendor-data", "flags", "workers",
                             "volume", "memcache", "host-info", "neutron">>],
     required |-> [identity |-> {"identity-credentials"}],
     needs |-> ("identity-credentials" :> Credentials), says |-> {"active"},
     settings |-> ("identity-credentials" :> {{}, Credentials, Credentials \cup {"api_version"}}),
     units |-> Both, cfg |-> {"vendor-data", "vendor-data-valid", "pike", "memcache"},
     versions |-> {0}, exposures |-> {{}}],
    [services |-> {"api"},
     contexts |-> [conf |-> <<"ceph", "image-service">>,
                   net |-> <<"neutron-plugin-api", "zeromq-configuration">>],
     required |-> [storage |-> {"ceph"}, images |-> {"image-service"}],
     needs |-> ("ceph" :> {"auth", "key"} @@ "image-service" :> {"glance-api-server"}
                @@ "neutron-plugin-api" :> {} @@ "zeromq-configuration" :> {"host"}),
     says |-> {"active"},
     settings |-> ("ceph" :> {{"auth", "key"}} @@ "image-service" :> {{"glance-api-server"}}
                   @@ "neutron-plugin-api" :> {{"l2-population", "enable-fwaas"}}
                   @@ "zeromq-configuration" :> {{"host"}}),
     units |-> One, cfg |-> {"erasure-coded", "rbd-pool"}, versions |-> {0}, exposures |-> {{}}],
    [services |-> {"haproxy"},
     contexts |-> [conf |-> <<"cluster", "quantum-network-service">>, sub |-> <<"subordinate">>],
     required |-> [network |-> {"quantum-network-service"}],
     needs |-> ("cluster" :> {"private-address"} @@ "subordinate" :> {}
                @@ "quantum-network-service" :> Net),
     says |-> {"active"},
     settings |-> ("cluster" :> {{"private-address"}} @@ "subordinate" :> {{"nova", "cinder"}}
                   @@ "quantum-network-service" :> {Net}),
     units |-> One, cfg |-> {}, versions |-> {0}, exposures |-> {{}}] }
====
