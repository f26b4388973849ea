---- MODULE PeerSsh ----
(***************************************************************************)
(* SSH between units: peers authorize each other to synchronize files      *)
(* (contrib/unison), and the cloud controller collects the keys of compute *)
(* hosts and gives all of them to each (contrib/openstack/ssh_migrations). *)
(***************************************************************************)
EXTENDS Integers, FiniteSets, SequencesExt

CONSTANTS
  SshUnits,   \* the peers
  Addresses,  \* addresses that they may have
  ComputeKeys,\* the public keys of compute hosts
  SshUsers,   \* "root" and the other users of the compute hosts
  MaxSshMoves,\* bound: changes of addresses and key pairs
  MaxSshHosts \* bound: compute hosts that are added and removed

(***************************************************************************)
(* other_hook files are synchronized before the hook about a peer's        *)
(*            changed settings                                             *)
(* reused     a unit gets an address that peers still authorize            *)
(* rekey      a user's key pair is made again                              *)
(* nova_user  the keys of another user than root are removed               *)
(* last_key   the last key is removed                                      *)
(***************************************************************************)
SshHazards == {"other_hook", "reused", "rekey", "nova_user", "last_key"}

VARIABLES
  sshExposed, \* the hazards of these units; never changes
  peering,    \* whether the charm has peers to synchronize with, or compute hosts
  sshMoves,   \* changes that were made
  address,    \* address[u]: its private-address
  keypair,    \* keypair[u]: the generation of its user's key pair
  published,  \* published[u]: ssh_pub_key on the relation, <<>> if not set
  authorizes, \* authorizes[u]: ssh_authorized_hosts on the relation
  authKeys,   \* authKeys[u]: the file authorized_keys of its user
  knownHosts, \* knownHosts[u]: the addresses in its known_hosts
  due,        \* due[u]: the peers whose relation-changed hook is due at u
  nova,       \* nova[user]: the lines of authorized_keys for compute hosts
  computes,   \* history: computes[user]: the keys that were added and not removed
  given       \* given[user]: what compute hosts see: [keys, max_index]

sshVars == <<sshExposed, peering, sshMoves, address, keypair, published, authorizes, authKeys,
             knownHosts, due, nova, computes, given>>

Spared(hazards) == sshExposed \cap hazards = {}
Peers(u) == SshUnits \ {u}
PeerUnchanged == UNCHANGED <<address, keypair, published, authorizes, authKeys, knownHosts, due>>
NovaUnchanged == UNCHANGED <<nova, computes, given>>
Move == sshMoves < (IF peering THEN MaxSshMoves ELSE MaxSshHosts) /\ sshMoves' = sshMoves + 1
-----------------------------------------------------------------------------
(***************************************************************************)
(* Peers.                                                                  *)
(***************************************************************************)
\* get_keypair makes what is missing, and is called in each hook
get_keypair(u) == <<u, keypair[u]>>

\* A changed setting of u is told to its peers
Told(u) == due' = [v \in SshUnits |-> IF v = u THEN due[v] ELSE due[v] \cup {u}]

Joined(u) ==
  /\ published[u] = << >>
  /\ published' = [published EXCEPT ![u] = get_keypair(u)]
  /\ Told(u)
  /\ UNCHANGED <<sshExposed, peering, sshMoves, address, keypair, authorizes, authKeys, knownHosts>>
  /\ NovaUnchanged

WithKey(u) == {v \in Peers(u) : published[v] # << >>}

\* In relation-changed and -departed; ssh-keyscan may fail on a host, which
\* is after authorized_keys was written
ssh_authorized_peers_AnyHost(u, peer) ==
  /\ published[u] # << >> /\ peer \in due[u]
  /\ authKeys' = [authKeys EXCEPT ![u] = {published[v] : v \in WithKey(u)}]
  /\ knownHosts' = [knownHosts EXCEPT ![u] = {address[v] : v \in WithKey(u)}]
  /\ authorizes' = [authorizes EXCEPT ![u] = {address[v] : v \in Peers(u)}]
  /\ due' = [v \in SshUnits |-> IF v = u THEN due[v] \ {peer}
                                ELSE IF authorizes'[u] = authorizes[u] THEN due[v]
                                ELSE due[v] \cup {u}]
  /\ UNCHANGED <<sshExposed, peering, sshMoves, address, keypair, published>>
  /\ NovaUnchanged

ssh_authorized_peers(u, peer) ==
  /\ published[u] # << >> /\ peer \in due[u]
  /\ authKeys' = [authKeys EXCEPT ![u] = {published[v] : v \in WithKey(u)}]
  /\ \/ /\ knownHosts' = [knownHosts EXCEPT ![u] = {address[v] : v \in WithKey(u)}]
        /\ authorizes' = [authorizes EXCEPT ![u] = {address[v] : v \in WithKey(u)}]
        /\ due' = [v \in SshUnits |-> IF v = u THEN due[v] \ {peer}
                                      ELSE IF authorizes'[u] = authorizes[u] THEN due[v]
                                      ELSE due[v] \cup {u}]
     \/ WithKey(u) # {} /\ UNCHANGED <<knownHosts, authorizes, due>>
  /\ UNCHANGED <<sshExposed, peering, sshMoves, address, keypair, published>>
  /\ NovaUnchanged

NewAddress(u, a) ==
  /\ Move
  /\ \A v \in SshUnits : address[v] # a
  /\ (\E v \in SshUnits : a \in authorizes[v]) => "reused" \in sshExposed
  /\ address' = [address EXCEPT ![u] = a]
  /\ Told(u)
  /\ UNCHANGED <<sshExposed, peering, keypair, published, authorizes, authKeys, knownHosts>>
  /\ NovaUnchanged

Rekey(u) ==
  /\ Move /\ "rekey" \in sshExposed
  /\ keypair' = [keypair EXCEPT ![u] = @ + 1]
  /\ UNCHANGED <<sshExposed, peering, address, published, authorizes, authKeys, knownHosts, due>>
  /\ NovaUnchanged

\* The peers that sync_to_peers goes to; an error there is only logged
collect_authed_hosts(u) == {v \in Peers(u) : address[u] \in authorizes[v]}

sync_path_to_host(u, v) == get_keypair(u) \in authKeys[v] /\ address[v] \in knownHosts[u]
-----------------------------------------------------------------------------
(***************************************************************************)
(* Compute hosts.                                                          *)
(***************************************************************************)
ssh_authorized_key_exists(key, user) == \E i \in DOMAIN nova[user] : nova[user][i] = key

\* get_ssh_settings: nothing is set for a file without lines, and settings of
\* a relation stay until they are set anew
get_ssh_settings(lines, user) ==
  given' = IF lines = << >> THEN given
           ELSE [given EXCEPT ![user] =
                   [keys |-> lines \o SubSeq(@.keys, Len(lines) + 1, Len(@.keys)),
                    max_index |-> Len(lines)]]

ssh_compute_add(key, user) ==
  /\ Move
  /\ nova' = IF ssh_authorized_key_exists(key, user) THEN nova
             ELSE [nova EXCEPT ![user] = Append(@, key)]
  /\ computes' = [computes EXCEPT ![user] = @ \cup {key}]
  /\ get_ssh_settings(nova'[user], user)
  /\ UNCHANGED <<sshExposed, peering>> /\ PeerUnchanged

\* The lines are those of the file of root, whoever the user is
ssh_compute_remove(key, user) ==
  /\ Move
  /\ (user # "root" /\ nova[user] # nova["root"]) => "nova_user" \in sshExposed
  /\ computes[user] = {key} => "last_key" \in sshExposed
  /\ LET lines == nova["root"]
     IN  \/ key \notin Range(lines) /\ nova' = nova
         \/ \E i \in DOMAIN lines : lines[i] = key /\ nova' = [nova EXCEPT ![user] = RemoveAt(lines, i)]
  /\ computes' = [computes EXCEPT ![user] = @ \ {key}]
  /\ get_ssh_settings(nova'[user], user)
  /\ UNCHANGED <<sshExposed, peering>> /\ PeerUnchanged
-----------------------------------------------------------------------------
SshInit ==
  /\ sshExposed \in {{}} \cup {{h} : h \in SshHazards}
  /\ peering \in BOOLEAN
  /\ sshMoves = 0
  /\ address = [u \in SshUnits |-> u]
  /\ keypair = [u \in SshUnits |-> 1]
  /\ published = [u \in SshUnits |-> << >>]
  /\ authorizes = [u \in SshUnits |-> {}]
  /\ authKeys = authorizes /\ knownHosts = authorizes /\ due = authorizes
  /\ nova = [user \in SshUsers |-> << >>]
  /\ computes = [user \in SshUsers |-> {}]
  /\ given = [user \in SshUsers |-> [keys |-> << >>, max_index |-> 0]]

SshNext ==
  \/ peering /\ \E u \in SshUnits : Joined(u) \/ Rekey(u)
  \/ peering /\ \E u, peer \in SshUnits : ssh_authorized_peers(u, peer)
  \/ peering /\ \E u \in SshUnits, a \in Addresses : NewAddress(u, a)
  \/ ~peering /\ \E key \in ComputeKeys, user \in SshUsers :
       ssh_compute_add(key, user) \/ ssh_compute_remove(key, user)

SshSpec == SshInit /\ [][SshNext]_sshVars
-----------------------------------------------------------------------------
\* A unit that has had the hooks of its peers' changes reaches every peer it
\* synchronizes files to, though hooks fail and units change to new addresses;
\* and compute hosts see exactly the keys of the hosts that are there, for
\* each user.
KeysReach ==
  /\ Spared({"other_hook", "reused", "rekey"}) =>
       \A u \in SshUnits : due[u] = {} \/ "other_hook" \in sshExposed =>
         \A v \in collect_authed_hosts(u) : sync_path_to_host(u, v)
  /\ Spared({"nova_user", "last_key"}) =>
       \A user \in SshUsers :
         {given[user].keys[i] : i \in 1..given[user].max_index} = computes[user]
====
