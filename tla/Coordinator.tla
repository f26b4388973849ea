----------------------------- MODULE Coordinator -----------------------------
(***************************************************************************)
(* charmhelpers/coordinator.py: units of one application take turns by     *)
(* means of named locks.  A unit asks for a lock on the peers relation,    *)
(* the Juju leader answers in the leader settings, and whoever holds a     *)
(* lock gives it back when its hook ends.  The model is of the Serial      *)
(* coordinator: one holder at a time, earliest request first.              *)
(*                                                                         *)
(* Every unit runs its hooks one after another; hooks of different units   *)
(* run concurrently.  A hook loads the shared state once, at its start,    *)
(* works on that copy, and publishes at its end.                           *)
(***************************************************************************)
EXTENDS Naturals, FiniteSets

CONSTANTS
  Units,        \* unit numbers; the order breaks ties between equal timestamps
  Locks,        \* names of locks
  MaxTs,        \* bound: timestamps are 1..MaxTs
  Hazards       \* which environment hazards this instance exhibits

(***************************************************************************)
(* hook_failure   a hook may fail at any point and is retried              *)
(* new_leader     leadership may move although the leader is there         *)
(* lease_lost     and away from a unit inside its hook                     *)
(* promoted       and to a unit inside its hook                            *)
(* early_leader   and to a unit with nothing on the peers relation yet     *)
(* departure      a unit may be removed, between two of its hooks          *)
(***************************************************************************)
AllHazards ==
  {"hook_failure", "new_leader", "lease_lost", "promoted", "early_leader",
   "departure"}

ASSUME UnitsAssumption == Units \subseteq Nat
ASSUME MaxTsAssumption == MaxTs \in Nat
ASSUME HazardsAssumption == Hazards \subseteq AllHazards

VARIABLES
  leader,       \* the unit Juju holds to be the leader
  joined,       \* units that have the peers relation
  published,    \* units that have written their requests on the peers relation
  peerData,     \* peerData[u][l]: timestamp of u's request on the peers relation
  localFile,    \* localFile[u][l]: u's requests in its local fallback file
  leaderData,   \* leaderData[u][l]: timestamp of the grant in the leader settings
  phase,        \* where each unit's agent is in running a hook
  requests,     \* requests[u]: the running hook's self.requests
  grants,       \* grants[u]: the running hook's self.grants
  holding,      \* holding[u]: locks the charm code of u was told it holds
  lastTs,       \* the last timestamp the unit's clock produced
  changed,      \* changed[u]: peers whose relation-changed hook u has yet to run
  leaderHook    \* leaderHook[u]: leader-elected or leader-settings-changed is due

vars == <<leader, joined, published, peerData, localFile, leaderData, phase,
          requests, grants, holding, lastTs, changed, leaderHook>>

-----------------------------------------------------------------------------
(* Data.  A missing entry of the Python dictionaries is the timestamp 0.   *)

NoTs == 0
Timestamps == 1..MaxTs
NoLocks == [l \in Locks |-> NoTs]
NoTable == [u \in Units |-> NoLocks]
Table == [Units -> [Locks -> {NoTs} \union Timestamps]]

Phases == {"idle", "running", "saved", "failed", "gone"}
InHook(u) == phase[u] \in {"running", "saved"}

-----------------------------------------------------------------------------
(* Pure parts: the decisions taken on a table of requests r and of grants g *)

(* Each definition whose name ends in an underscore and a remark is the one *)
(* after it with a mistake that could be made in the code.  The checks show *)
(* which property the mistake would break; Spec uses none of them.          *)

Granted_AnyTime(r, g, u, l) == r[u][l] # NoTs /\ g[u][l] # NoTs

Granted_AnyLock(r, g, u, l) ==
  r[u][l] # NoTs /\ \E k \in Locks : g[u][k] # NoTs /\ g[u][k] = r[u][k]

(* granted(): the grant answers the very request that is outstanding. *)
Granted(r, g, u, l) == r[u][l] # NoTs /\ g[u][l] = r[u][l]

(* grant(): units on record for the lock, whatever their timestamp. *)
GrantedTo(g, l) == {v \in Units : g[v][l] # NoTs}

(* grant(): the queue, sorted by (timestamp, unit). *)
Queue(r, g, l) == {v \in Units : g[v][l] = NoTs /\ r[v][l] # NoTs}

NotAfter_Tie(r, l, v, w) == r[v][l] <= r[w][l]

NotAfter(r, l, v, w) ==
  \/ r[v][l] < r[w][l]
  \/ r[v][l] = r[w][l] /\ v <= w

default_grant_Crowd(r, g, l, u) ==
  /\ u \in Queue(r, g, l)
  /\ \A w \in Queue(r, g, l) : NotAfter(r, l, u, w)

(* Serial.default_grant(): first of the queue, and nobody has the lock. *)
default_grant(r, g, l, u) ==
  /\ GrantedTo(g, l) = {}
  /\ u \in Queue(r, g, l)
  /\ \A w \in Queue(r, g, l) : NotAfter(r, l, u, w)

Revoke_Never(r, g) == g

Revoke_Renewed(r, g) ==
  [u \in Units |-> [l \in Locks |->
     IF r[u][l] \in {NoTs, g[u][l]} THEN g[u][l] ELSE NoTs]]

(* handle(), first loop: drop the grants whose request is gone or renewed. *)
Revoke(r, g) ==
  [u \in Units |-> [l \in Locks |-> IF r[u][l] = g[u][l] THEN g[u][l] ELSE NoTs]]

(* handle(), second loop: grant() for every request.  default_grant accepts *)
(* at most one unit of a lock, so the order of the loop makes no difference. *)
GrantFirst(r, g) ==
  [u \in Units |-> [l \in Locks |->
     IF default_grant(r, g, l, u) THEN r[u][l] ELSE g[u][l]]]

Handle(r, g) == GrantFirst(r, Revoke(r, g))

(* _release_granted(): what is left of u's requests after its turn. *)
Release(r, g, u) ==
  [l \in Locks |-> IF Granted(r, g, u, l) THEN NoTs ELSE r[u][l]]

-----------------------------------------------------------------------------
(* What a starting hook loads. *)

HasPeers_Always(u) == TRUE

(* initialize(): relation_ids() has the peers relation, relid is not None. *)
HasPeers(u) == u \in joined

OwnRequests_NoMerge(u) == IF HasPeers(u) THEN peerData[u] ELSE localFile[u]

(* The requests of the unit itself: _load_local_state is the fallback while *)
(* there is no peers relation, and is merged on the first hook that has it. *)
OwnRequests(u) ==
  IF HasPeers(u) /\ u \in published THEN peerData[u] ELSE localFile[u]

LoadRequests_OwnOnly(u) ==
  [v \in Units |-> IF v = u THEN OwnRequests(u) ELSE NoLocks]

(* _load_state and _load_peer_state. *)
LoadRequests(u) ==
  [v \in Units |-> IF v = u THEN OwnRequests(u)
                   ELSE IF HasPeers(u) THEN peerData[v] ELSE NoLocks]

-----------------------------------------------------------------------------
Init ==
  /\ leader \in Units
  /\ joined = {}
  /\ published = {}
  /\ peerData = NoTable
  /\ localFile = NoTable
  /\ leaderData = NoTable
  /\ phase = [u \in Units |-> "idle"]
  /\ requests = [u \in Units |-> NoTable]
  /\ grants = [u \in Units |-> NoTable]
  /\ holding = [u \in Units |-> {}]
  /\ lastTs = [u \in Units |-> 0]
  /\ changed = [u \in Units |-> {}]
  /\ leaderHook = [u \in Units |-> u = leader]

-----------------------------------------------------------------------------
(* Juju: the environment the hooks run in. *)

(* The peers relation becomes available to u, between two of its hooks; u   *)
(* sees relation-changed for the peers that have data there.               *)
JoinPeers(u) ==
  /\ u \notin joined
  /\ phase[u] \in {"idle", "failed"}
  /\ joined' = joined \union {u}
  /\ changed' = [changed EXCEPT ![u] = published \ {u}]
  /\ UNCHANGED <<leader, published, peerData, localFile, leaderData, phase,
                 requests, grants, holding, lastTs, leaderHook>>

(* Leadership moves to u, and u is due a leader-elected hook. *)
ChangeLeader(u) ==
  /\ u # leader
  /\ phase[u] # "gone"
  /\ phase[leader] # "gone" => "new_leader" \in Hazards
  /\ InHook(leader) => "lease_lost" \in Hazards
  /\ InHook(u) => "promoted" \in Hazards
  /\ u \notin published => "early_leader" \in Hazards
  /\ leader' = u
  /\ leaderHook' = [leaderHook EXCEPT ![u] = TRUE]
  /\ UNCHANGED <<joined, published, peerData, localFile, leaderData, phase,
                 requests, grants, holding, lastTs, changed>>

(* The unit is removed and leaves the peers relation: its settings there go *)
(* with it, and the peers are due a relation-departed hook.  One unit stays. *)
Depart(u) ==
  /\ "departure" \in Hazards
  /\ phase[u] = "idle"
  /\ \E v \in Units \ {u} : phase[v] # "gone"
  /\ phase' = [phase EXCEPT ![u] = "gone"]
  /\ joined' = joined \ {u}
  /\ published' = published \ {u}
  /\ peerData' = [peerData EXCEPT ![u] = NoLocks]
  /\ localFile' = [localFile EXCEPT ![u] = NoLocks]
  /\ changed' = [v \in Units |-> IF v = u THEN {}
                                 ELSE IF {u, v} \subseteq joined
                                 THEN changed[v] \union {u} ELSE changed[v]]
  /\ UNCHANGED <<leader, leaderData, requests, grants, holding, lastTs,
                 leaderHook>>

-----------------------------------------------------------------------------
(* A hook starts: atstart runs initialize() and then handle(). *)
Start(u) ==
  LET r == LoadRequests(u)
      g == IF u = leader THEN Handle(r, leaderData) ELSE leaderData
  IN  /\ phase' = [phase EXCEPT ![u] = "running"]
      /\ requests' = [requests EXCEPT ![u] = r]
      /\ grants' = [grants EXCEPT ![u] = g]
      /\ holding' = [holding EXCEPT ![u] = {l \in Locks : Granted(r, g, u, l)}]
      /\ UNCHANGED <<leader, joined, published, peerData, localFile,
                     leaderData, lastTs>>

(* The peers relation-changed or relation-departed hook, about peer v. *)
PeerHook(u, v) ==
  /\ phase[u] = "idle"
  /\ v \in changed[u]
  /\ changed' = [changed EXCEPT ![u] = @ \ {v}]
  /\ Start(u)
  /\ UNCHANGED leaderHook

LeaderHook(u) ==
  /\ phase[u] = "idle"
  /\ leaderHook[u]
  /\ leaderHook' = [leaderHook EXCEPT ![u] = FALSE]
  /\ Start(u)
  /\ UNCHANGED changed

(* config-changed, update-status and the other hooks nobody here triggers. *)
OtherHook(u) ==
  /\ phase[u] = "idle"
  /\ Start(u)
  /\ UNCHANGED <<changed, leaderHook>>

(* Juju runs a failed hook again before anything else on that unit. *)
RetryHook(u) ==
  /\ phase[u] = "failed"
  /\ Start(u)
  /\ UNCHANGED <<changed, leaderHook>>

-----------------------------------------------------------------------------
(* acquire(): enter a request if there is none, then see whether the grant *)
(* is on record or, on the leader, can be given at once.  t is the time.   *)
Acquire(u, l, t) ==
  LET r == IF requests[u][u][l] # NoTs THEN requests[u]
           ELSE [requests[u] EXCEPT ![u][l] = t]
      already == Granted(r, grants[u], u, l)
      recorded == u \in GrantedTo(grants[u], l)
      first == default_grant(r, grants[u], l, u)
  IN  /\ phase[u] = "running"
      /\ t \in Timestamps
      /\ requests[u][u][l] = NoTs => t > lastTs[u]
      /\ requests' = [requests EXCEPT ![u] = r]
      /\ lastTs' = [lastTs EXCEPT ![u] = IF r = requests[u] THEN @ ELSE t]
      /\ grants' = IF u = leader /\ ~recorded /\ first
                   THEN [grants EXCEPT ![u][u][l] = r[u][l]] ELSE grants
      /\ holding' = IF already \/ (u = leader /\ (recorded \/ first))
                    THEN [holding EXCEPT ![u] = @ \union {l}] ELSE holding
      /\ UNCHANGED <<leader, joined, published, peerData, localFile,
                     leaderData, phase, changed, leaderHook>>

(* The body is done: atexit runs _release_granted() and then _save_state(). *)
(* leader-set takes effect at once, and so does the local file; what        *)
(* relation-set writes waits for the hook to complete.                      *)
EndBody(u) ==
  LET mine == Release(requests[u], grants[u], u)
  IN  /\ phase[u] = "running"
      /\ phase' = [phase EXCEPT ![u] = "saved"]
      /\ requests' = [requests EXCEPT ![u][u] = mine]
      /\ holding' = [holding EXCEPT ![u] = {}]
      /\ leaderData' = IF u = leader THEN grants[u] ELSE leaderData
      /\ leaderHook' = IF u = leader /\ grants[u] # leaderData
                       THEN [v \in Units |-> leaderHook[v] \/ v # u]
                       ELSE leaderHook
      /\ localFile' = IF HasPeers(u) THEN localFile
                      ELSE [localFile EXCEPT ![u] = mine]
      /\ UNCHANGED <<leader, joined, published, peerData, grants, lastTs, changed>>

(* Forget the process: its memory is gone with it. *)
Forget(u) ==
  /\ requests' = [requests EXCEPT ![u] = NoTable]
  /\ grants' = [grants EXCEPT ![u] = NoTable]
  /\ holding' = [holding EXCEPT ![u] = {}]

(* The hook completes: its relation settings become visible to the peers,  *)
(* which are due a relation-changed hook if they differ from before.       *)
CompleteHook(u) ==
  /\ phase[u] = "saved"
  /\ phase' = [phase EXCEPT ![u] = "idle"]
  /\ Forget(u)
  /\ IF HasPeers(u)
     THEN /\ peerData' = [peerData EXCEPT ![u] = requests[u][u]]
          /\ published' = published \union {u}
          /\ changed' = IF peerData' # peerData \/ u \notin published
                        THEN [v \in Units |-> IF v \in joined \ {u}
                                              THEN changed[v] \union {u}
                                              ELSE changed[v]]
                        ELSE changed
     ELSE UNCHANGED <<peerData, published, changed>>
  /\ UNCHANGED <<leader, joined, localFile, leaderData, lastTs, leaderHook>>

(* The hook raises, in its body or in a later atexit callback. *)
FailHook(u) ==
  /\ "hook_failure" \in Hazards
  /\ InHook(u)
  /\ phase' = [phase EXCEPT ![u] = "failed"]
  /\ Forget(u)
  /\ UNCHANGED <<leader, joined, published, peerData, localFile, leaderData,
                 lastTs, changed, leaderHook>>

-----------------------------------------------------------------------------
WiredHook(u) == LeaderHook(u) \/ \E v \in Units : PeerHook(u, v)
FinishHook(u) == EndBody(u) \/ CompleteHook(u)

Next ==
  \E u \in Units :
    \/ JoinPeers(u)
    \/ ChangeLeader(u)
    \/ Depart(u)
    \/ LeaderHook(u)
    \/ \E v \in Units : PeerHook(u, v)
    \/ OtherHook(u)
    \/ RetryHook(u)
    \/ \E l \in Locks, t \in Timestamps : Acquire(u, l, t)
    \/ EndBody(u)
    \/ CompleteHook(u)
    \/ FailHook(u)

Spec == Init /\ [][Next]_vars

-----------------------------------------------------------------------------
(* Fairness.  Juju adds units to the peers relation and retries failed     *)
(* hooks; a failing hook is repaired in the end, so its body and its commit *)
(* get through; and the leadership of a removed unit moves on.             *)

Fairness ==
  /\ \A u \in Units :
       /\ SF_vars(JoinPeers(u))
       /\ WF_vars(RetryHook(u))
       /\ SF_vars(EndBody(u))
       /\ SF_vars(CompleteHook(u))
  /\ SF_vars(phase[leader] = "gone" /\ \E u \in Units : ChangeLeader(u))

(* Hooks that are due are run, in any order. *)
Delivery == \A u \in Units : SF_vars(WiredHook(u))

(* update-status, which Juju runs periodically on every unit. *)
UpdateStatus == \A u \in Units : SF_vars(OtherHook(u))

-----------------------------------------------------------------------------
(* Properties. *)

TypeOK ==
  /\ leader \in Units
  /\ joined \subseteq Units
  /\ published \subseteq joined
  /\ peerData \in Table
  /\ localFile \in Table
  /\ leaderData \in Table
  /\ phase \in [Units -> Phases]
  /\ requests \in [Units -> Table]
  /\ grants \in [Units -> Table]
  /\ holding \in [Units -> SUBSET Locks]
  /\ lastTs \in [Units -> {NoTs} \union Timestamps]
  /\ changed \in [Units -> SUBSET Units]
  /\ leaderHook \in [Units -> BOOLEAN]

(* The charm code of at most one unit believes it has a lock: acquire() and *)
(* granted() read copies of the shared state that are as old as the hook.   *)
Mutex ==
  \A l \in Locks : \A u, v \in Units :
    l \in holding[u] /\ l \in holding[v] => u = v

(* The leader settings name at most one unit per lock, although leaders of *)
(* different times decided on different copies of requests and grants.     *)
OneGrantee ==
  \A l \in Locks : \A u, v \in Units :
    {u, v} \subseteq GrantedTo(leaderData, l) => u = v

(* The grant on record for u and l answers u's request on record. *)
Served(u, l) ==
  /\ OwnRequests(u)[l] # NoTs
  /\ leaderData[u][l] = OwnRequests(u)[l]

(* A request on record, in the local file or on the peers relation, stays  *)
(* as it is until the grant that answers it is on record: not a failed hook, *)
(* nor the move from the file to the relation, nor a renewed acquire() lose it. *)
RequestKept ==
  \A u \in Units : \A l \in Locks :
    OwnRequests(u)[l] # NoTs =>
      \/ OwnRequests(u)'[l] = OwnRequests(u)[l]
      \/ leaderData'[u][l] = OwnRequests(u)[l]
      \/ phase'[u] = "gone"

RequestNotLost == [][RequestKept]_vars

(* handle() never takes back a grant its unit has not finished with: once  *)
(* a grant answers a request on record, it stays until that request goes.  *)
GrantKept ==
  \A u \in Units : \A l \in Locks :
    Served(u, l) /\ OwnRequests(u)'[l] = OwnRequests(u)[l]
      => leaderData'[u][l] = leaderData[u][l]

NoRevocation == [][GrantKept]_vars

(* Nobody waits for ever: a published request is served, or withdrawn, which *)
(* by RequestNotLost it is only after it was served or with its unit.      *)
NoStarvation ==
  \A u \in Units : \A l \in Locks :
    (peerData[u][l] # NoTs) ~> (l \in holding[u] \/ peerData[u][l] = NoTs)

-----------------------------------------------------------------------------
(* Every lock is a turn-taking lock. *)
Turn(l) == INSTANCE TurnTaking WITH
  members <- {u \in Units : phase[u] # "gone"},
  waiting <- {u \in Units : OwnRequests(u)[l] # NoTs},
  owner <- {u \in Units : Served(u, l)},
  inside <- {u \in Units : l \in holding[u]}

TakeTurns ==
  /\ \A l \in Locks : Turn(l)!Init
  /\ [][\A l \in Locks : [Turn(l)!Next]_(Turn(l)!vars)]_vars
=============================================================================
