---- MODULE PeerStorage ----
(***************************************************************************)
(* Key-value storage shared by the units of an application                 *)
(* (contrib/peerstorage): on the peer relation, where every unit echoes    *)
(* what the others have set, and, once Juju has leaders, in the leader     *)
(* settings, to which the leader moves what it finds in its own settings   *)
(* on the peer relation.                                                   *)
(***************************************************************************)
EXTENDS Integers, FiniteSets, SequencesExt

CONSTANTS
  Peers,       \* units
  Stored,      \* keys
  MaxStores    \* bound: stored values, which are numbered

(***************************************************************************)
(* unread     a key is deleted before the leader has ever read it          *)
(* unechoed   Juju is upgraded, or a key stored again, while echoes are    *)
(*            still to come                                                *)
(***************************************************************************)
PeerHazards == {"unread", "unechoed"}

VARIABLES
  peerExposed, \* the hazards the application faces; never changes
  leaders,     \* whether Juju has leader settings
  leads,       \* the leader; before: the unit that the charm lets store
  bag,         \* bag[u]: what unit u has set on the peer relation
  leaderKv,    \* the leader settings
  migrated,    \* __leader_get_migrated_settings__
  told,        \* the pairs <<u, v>> where u is to run a hook about v's settings
  latest,      \* what was last stored of each key, 0 for deleted or never
  stores       \* how many values were stored

peerVars == <<peerExposed, leaders, leads, bag, leaderKv, migrated, told, latest, stores>>

Spared(hazards) == peerExposed \cap hazards = {}
Without(f, keys) == [k \in DOMAIN f \ keys |-> f[k]]
Value(f, k) == IF k \in DOMAIN f THEN f[k] ELSE 0
Updated(f, g) == [k \in DOMAIN f \cup DOMAIN g |-> IF k \in DOMAIN g THEN g[k] ELSE f[k]]
Put(f, k, v) == IF v = 0 THEN Without(f, {k}) ELSE Updated(f, [x \in {k} |-> v])
Changed(u) == told \cup {<<v, u>> : v \in Peers \ {u}}
-----------------------------------------------------------------------------
PeerInit ==
  /\ peerExposed \in SUBSET PeerHazards
  /\ leaders = FALSE
  /\ leads \in Peers
  /\ bag = [u \in Peers |-> << >>]
  /\ leaderKv = << >> /\ migrated = {} /\ told = {}
  /\ latest = [k \in Stored |-> 0] /\ stores = 0

\* peer_store(key, value), by the unit that leads
peer_store(key, value) ==
  /\ latest' = [latest EXCEPT ![key] = value]
  /\ IF leaders
     THEN leaderKv' = Put(leaderKv, key, value) /\ UNCHANGED <<bag, told>>
     ELSE /\ bag' = [bag EXCEPT ![leads] = Put(@, key, value)]
          /\ told' = Changed(leads)
          /\ UNCHANGED leaderKv
  /\ UNCHANGED <<peerExposed, leaders, leads, migrated>>

Store(key) ==
  /\ stores < MaxStores /\ stores' = stores + 1
  /\ (~leaders /\ told # {}) => "unechoed" \in peerExposed
  /\ peer_store(key, stores + 1)

Delete(key) ==
  /\ leaders
  /\ latest[key] # 0
  /\ key \notin migrated => "unread" \in peerExposed
  /\ peer_store(key, 0)
  /\ UNCHANGED stores

\* leader_get(attribute) of the leader, which moves the key if it has to:
\* what it returns and what it leaves in the leader settings
leader_get_Again(key) ==
  LET mine == Value(leaderKv, key)
      theirs == Value(bag[leads], key)
      found == IF mine # 0 THEN mine ELSE theirs
  IN  [value |-> found,
       kv |-> IF found # 0 THEN Put(leaderKv, key, found) ELSE leaderKv,
       migrated |-> IF found # 0 THEN migrated \cup {key} ELSE migrated]

leader_get(key) ==
  LET mine == Value(leaderKv, key)
      theirs == Value(bag[leads], key)
      found == IF mine # 0 THEN mine ELSE theirs
  IN  IF key \in migrated
      THEN [value |-> mine, kv |-> leaderKv, migrated |-> migrated]
      ELSE [value |-> found,
            kv |-> IF found # 0 THEN Put(leaderKv, key, found) ELSE leaderKv,
            migrated |-> IF found # 0 THEN migrated \cup {key} ELSE migrated]

\* peer_retrieve(key), by the unit that leads
peer_retrieve(key) ==
  IF leaders THEN leader_get(key)
  ELSE [value |-> Value(bag[leads], key), kv |-> leaderKv, migrated |-> migrated]

Retrieve(key) ==
  /\ LET r == peer_retrieve(key) IN leaderKv' = r.kv /\ migrated' = r.migrated
  /\ UNCHANGED <<peerExposed, leaders, leads, bag, told, latest, stores>>

\* peer_echo in the hook of unit u about unit v's settings, of which those
\* of the unit that is included in the hook's relation data are copied
peer_echo(u, v) ==
  /\ <<u, v>> \in told
  /\ told' = IF leaders \/ Updated(bag[u], bag[v]) = bag[u] THEN told \ {<<u, v>>}
             ELSE Changed(u) \ {<<u, v>>}
  /\ bag' = IF leaders THEN bag ELSE [bag EXCEPT ![u] = Updated(@, bag[v])]
  /\ UNCHANGED <<peerExposed, leaders, leads, leaderKv, migrated, latest, stores>>

\* Juju is upgraded and has leaders from now on
UpgradeJuju ==
  /\ ~leaders /\ leaders' = TRUE
  /\ told # {} => "unechoed" \in peerExposed
  /\ UNCHANGED <<peerExposed, leads, bag, leaderKv, migrated, told, latest, stores>>

ChangeLeader ==
  /\ leads' \in Peers \ {leads}
  /\ (~leaders /\ told # {}) => "unechoed" \in peerExposed
  /\ UNCHANGED <<peerExposed, leaders, bag, leaderKv, migrated, told, latest, stores>>

PeerNext ==
  \/ \E key \in Stored : Store(key) \/ Delete(key) \/ Retrieve(key)
  \/ \E u, v \in Peers : peer_echo(u, v)
  \/ UpgradeJuju \/ ChangeLeader

PeerSpec == PeerInit /\ [][PeerNext]_peerVars
-----------------------------------------------------------------------------
\* Whoever leads retrieves what was last stored, before, during and after
\* the move to the leader settings, and does not find what was deleted
\* again on the relation.
RetrievesLatest ==
  Spared({"unread", "unechoed"}) =>
    \A key \in Stored :
      \/ peer_retrieve(key).value = latest[key]
      \/ ~leaders /\ told # {}
====
