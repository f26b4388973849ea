---- MODULE Stores ----
(***************************************************************************)
(* What a unit stores and reads again: its database, the settings of       *)
(* relations through a cache, the storage of peers, secrets, overrides of  *)
(* policies, the passwords of a database, and the pools of a Ceph cluster. *)
(* The parts have no state in common: each behaviour is one of one part,   *)
(* and the others' variables stay Unused.                                  *)
(***************************************************************************)
EXTENDS OnePart, Integers, Sequences, FiniteSets

CONSTANTS
  Keys, Values, Like, MaxHooks, \* UnitKv
  Settings, Contents, \* HookTools
  PeerUnits, StoredKeys, MaxStores, \* PeerStorage
  Vaults, Remotes, RequiredKeys, ConfigOptions, DefaultOption, Blank, MaxChanges, MaxDrawn, \* Secrets
  Zips, Docs, Blacklisted, Always, CharmFiles, MaxAttached, \* PolicyOverrides
  MySQLUnits, Requests, MaxPasswords, \* MySQLUsers
  PoolRequests, Algorithms, PgsPerOSD, ExpectedOSDs, MaxOSDs, MaxAsks \* CephPools

VARIABLES
  kvExposed, kvDisk, kvWork, revision,
  toolExposed, bags, committed, cache, hook,
  peerExposed, leaders, leads, bag, leaderKv, migrated, told, latest, stores,
  scExposed, secretOf, scChanges, token, lastIssued, secret_id, held, vaultConf, vaultLink,
  stored, drawn, firstDrawn, remoteKeys, option, target, inService, scHook, scDone,
  poExposed, usePolicy, resource_, attached, success, policyd, loaded, poHook,
  dbExposed, eight, asked, dbLeader, store, db, handed, dbHook,
  poolExposed, osds, pools, profiles, poolAsks, poolAsked, poolServed, poolJob
-----------------------------------------------------------------------------
Kv == INSTANCE UnitKv
Tools == INSTANCE HookTools
Peer == INSTANCE PeerStorage WITH Peers <- PeerUnits, Stored <- StoredKeys
Secrets == INSTANCE Secrets WITH Options <- ConfigOptions
Policy == INSTANCE PolicyOverrides WITH Kept <- CharmFiles
MySQL == INSTANCE MySQLUsers WITH DbUnits <- MySQLUnits
Pools == INSTANCE CephPools

\* The units of Vault are looked at in an order
Listed == Vaults \in Seq(Secrets!ToSet(Vaults))

\* The prefixes that the units of a client are looked up under
LookedUpBy(units) ==
  UNION {LET asks == MySQL!get_db_data(units[c], "MYSQL")
         IN  DOMAIN asks \cup {asks[p][<<"database">>] : p \in DOMAIN asks} : c \in DOMAIN units}

\* Units of a client have names and some hosts, which are the same ones under
\* each prefix; no user is called mysql, whose older key is that of root
CompleteRequests ==
  \A units \in Requests : \A c \in DOMAIN units :
    /\ c # ""
    /\ \A p, q \in LookedUpBy(units) : MySQL!HostsOf(units[c], p) = MySQL!HostsOf(units[c], q)
    /\ LET asks == MySQL!get_db_data(units[c], "MYSQL")
       IN  \A p \in DOMAIN asks : /\ asks[p][<<"username">>] # "mysql"
                                  /\ asks[p][<<"hostname">>] = MySQL!HostsOf(units[c], p)
                                  /\ asks[p][<<"hostname">>] # {}

\* Requests for pools are sequences of the operations that CephBrokerRq knows
KnownOperations ==
  \A request \in PoolRequests :
    /\ request \in Seq(Pools!ToSet(request))
    /\ \A i \in DOMAIN request : request[i].op \in {"replicated", "erasure", "profile"}

ASSUME VaultAssumption == Listed
ASSUME MySQLAssumption == CompleteRequests
ASSUME PoolsAssumption == KnownOperations
-----------------------------------------------------------------------------
kvV == <<kvExposed, kvDisk, kvWork, revision>>
toolsV == <<toolExposed, bags, committed, cache, hook>>
peerV == <<peerExposed, leaders, leads, bag, leaderKv, migrated, told, latest, stores>>
secretsV == <<scExposed, secretOf, scChanges, token, lastIssued, secret_id, held, vaultConf,
        vaultLink, stored, drawn, firstDrawn, remoteKeys, option, target, inService, scHook,
        scDone>>
policyV == <<poExposed, usePolicy, resource_, attached, success, policyd, loaded, poHook>>
mysqlV == <<dbExposed, eight, asked, dbLeader, store, db, handed, dbHook>>
poolsV == <<poolExposed, osds, pools, profiles, poolAsks, poolAsked, poolServed, poolJob>>
storesVars == <<part, kvV, toolsV, peerV, secretsV, policyV, mysqlV, poolsV>>
storesV == <<kvV, toolsV, peerV, secretsV, policyV, mysqlV, poolsV>>

NoKv ==
  /\ kvExposed = Unused /\ kvDisk = Unused /\ kvWork = Unused /\ revision = Unused
NoTools ==
  /\ toolExposed = Unused /\ bags = Unused /\ committed = Unused /\ cache = Unused
  /\ hook = Unused
NoPeer ==
  /\ peerExposed = Unused /\ leaders = Unused /\ leads = Unused /\ bag = Unused
  /\ leaderKv = Unused /\ migrated = Unused /\ told = Unused /\ latest = Unused
  /\ stores = Unused
NoSecrets ==
  /\ scExposed = Unused /\ secretOf = Unused /\ scChanges = Unused /\ token = Unused
  /\ lastIssued = Unused /\ secret_id = Unused /\ held = Unused /\ vaultConf = Unused
  /\ vaultLink = Unused /\ stored = Unused /\ drawn = Unused /\ firstDrawn = Unused
  /\ remoteKeys = Unused /\ option = Unused /\ target = Unused /\ inService = Unused
  /\ scHook = Unused /\ scDone = Unused
NoPolicy ==
  /\ poExposed = Unused /\ usePolicy = Unused /\ resource_ = Unused /\ attached = Unused
  /\ success = Unused /\ policyd = Unused /\ loaded = Unused /\ poHook = Unused
NoMySQL ==
  /\ dbExposed = Unused /\ eight = Unused /\ asked = Unused /\ dbLeader = Unused
  /\ store = Unused /\ db = Unused /\ handed = Unused /\ dbHook = Unused
NoPools ==
  /\ poolExposed = Unused /\ osds = Unused /\ pools = Unused /\ profiles = Unused
  /\ poolAsks = Unused /\ poolAsked = Unused /\ poolServed = Unused /\ poolJob = Unused
NoStores == NoKv /\ NoTools /\ NoPeer /\ NoSecrets /\ NoPolicy /\ NoMySQL /\ NoPools

StoresInit ==
  \/ /\ part = "kv" /\ Kv!KvInit
     /\ NoTools /\ NoPeer /\ NoSecrets /\ NoPolicy /\ NoMySQL /\ NoPools
  \/ /\ part = "tools" /\ Tools!ToolInit
     /\ NoKv /\ NoPeer /\ NoSecrets /\ NoPolicy /\ NoMySQL /\ NoPools
  \/ /\ part = "peer" /\ Peer!PeerInit
     /\ NoKv /\ NoTools /\ NoSecrets /\ NoPolicy /\ NoMySQL /\ NoPools
  \/ /\ part = "secrets" /\ Secrets!ScInit
     /\ NoKv /\ NoTools /\ NoPeer /\ NoPolicy /\ NoMySQL /\ NoPools
  \/ /\ part = "policy" /\ Policy!PoInit
     /\ NoKv /\ NoTools /\ NoPeer /\ NoSecrets /\ NoMySQL /\ NoPools
  \/ /\ part = "mysql" /\ MySQL!DbInit
     /\ NoKv /\ NoTools /\ NoPeer /\ NoSecrets /\ NoPolicy /\ NoPools
  \/ /\ part = "pools" /\ Pools!PoolInit
     /\ NoKv /\ NoTools /\ NoPeer /\ NoSecrets /\ NoPolicy /\ NoMySQL

StoresNext ==
  /\ UNCHANGED part
  /\ \/ /\ part = "kv" /\ Kv!KvNext
        /\ UNCHANGED <<toolsV, peerV, secretsV, policyV, mysqlV, poolsV>>
     \/ /\ part = "tools" /\ Tools!ToolNext
        /\ UNCHANGED <<kvV, peerV, secretsV, policyV, mysqlV, poolsV>>
     \/ /\ part = "peer" /\ Peer!PeerNext
        /\ UNCHANGED <<kvV, toolsV, secretsV, policyV, mysqlV, poolsV>>
     \/ /\ part = "secrets" /\ Secrets!ScNext
        /\ UNCHANGED <<kvV, toolsV, peerV, policyV, mysqlV, poolsV>>
     \/ /\ part = "policy" /\ Policy!PoNext
        /\ UNCHANGED <<kvV, toolsV, peerV, secretsV, mysqlV, poolsV>>
     \/ /\ part = "mysql" /\ MySQL!DbNext
        /\ UNCHANGED <<kvV, toolsV, peerV, secretsV, policyV, poolsV>>
     \/ /\ part = "pools" /\ Pools!PoolNext
        /\ UNCHANGED <<kvV, toolsV, peerV, secretsV, policyV, mysqlV>>

StoresSpec == StoresInit /\ [][StoresNext]_storesVars
-----------------------------------------------------------------------------
\* UnitKv: The history tells the database: the latest row of a key says what its
\* value is, through hooks that fail, flush half way or change a key twice,
\* unless keys are removed by prefix or outside of a hook.
HistoryTrue == part = "kv" => Kv!HistoryTrue

\* HookTools: A hook that reads settings again gets what they are now, its own changes
\* included: whatever is in the cache is what the tool would say, except
\* for what the application's data, relations() and relation_for_unit leave
\* behind.
FreshReads == part = "tools" => Tools!FreshReads

\* PeerStorage: Whoever leads retrieves what was last stored, before, during and after
\* the move to the leader settings, and does not find what was deleted
\* again on the relation.
RetrievesLatest == part = "peer" => Peer!RetrievesLatest

\* Secrets: After a hook that succeeded vaultlocker is configured with the secret id
\* that Vault issued last, though its token is good for one call only and
\* hooks fail; and a service has the password that was drawn first, with the
\* present data of the relation and the configuration.
SecretsKept == part = "secrets" => Secrets!SecretsKept

\* PolicyOverrides: Between hooks the status is true: policy files of one whole resource are
\* in place exactly when it does not call the overrides broken, none of them
\* has a key that may not be overridden, and the service follows the files.
OverridesAsTold == part = "policy" => Policy!OverridesAsTold

\* MySQLUsers: The leader hands out passwords that the database accepts: whoever leads,
\* what get_mysql_password returns for a user is the password of all of the
\* user's accounts, after leaders and passwords have changed and with keys of
\* either format; and a unit that is told it is allowed can log in from all
\* of its hosts with the password on the relation.
PasswordsWork == part = "mysql" => MySQL!PasswordsWork

\* CephPools: What a mon has reported done is there as asked, whatever the cluster did
\* with the optional settings and whatever was seen of the pools; and pools
\* whose shares are at most the whole never have more than half as many
\* placement groups again as their OSDs are meant for.
PoolsAsAsked == part = "pools" => Pools!PoolsAsAsked
====
