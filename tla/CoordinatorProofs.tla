-------------------------- MODULE CoordinatorProofs --------------------------
(* Theorems about the Serial coordinator, for any units, locks and clock.  *)
EXTENDS Coordinator, TLAPS

-----------------------------------------------------------------------------
(* The tables of requests and grants stay tables.                          *)

LEMMA NoTableType ==
  /\ NoLocks \in [Locks -> {NoTs} \union Timestamps]
  /\ NoTable \in Table
BY DEF NoLocks, NoTable, Table

LEMMA HandleType ==
  ASSUME NEW r \in Table, NEW g \in Table
  PROVE  Handle(r, g) \in Table
<1>1. Revoke(r, g) \in Table
  BY DEF Revoke, Table
<1>2. ASSUME NEW h \in Table
      PROVE  GrantFirst(r, h) \in Table
  BY <1>2 DEF GrantFirst, Table
<1> QED  BY <1>1, <1>2 DEF Handle

LEMMA LoadType ==
  ASSUME TypeOK, NEW u \in Units
  PROVE  /\ OwnRequests(u) \in [Locks -> {NoTs} \union Timestamps]
         /\ LoadRequests(u) \in Table
<1>1. OwnRequests(u) \in [Locks -> {NoTs} \union Timestamps]
  BY DEF TypeOK, OwnRequests, Table
<1>2. LoadRequests(u) \in Table
  BY <1>1, NoTableType DEF TypeOK, LoadRequests, Table
<1> QED  BY <1>1, <1>2

LEMMA ReleaseType ==
  ASSUME NEW r \in Table, NEW g \in Table, NEW u \in Units
  PROVE  Release(r, g, u) \in [Locks -> {NoTs} \union Timestamps]
BY DEF Release, Table

LEMMA TypeInit == Init => TypeOK
BY NoTableType DEF Init, TypeOK, Phases, NoTs, Timestamps

(* Starting a hook keeps the types, whatever makes it start.               *)
LEMMA StartKeepsType ==
  ASSUME TypeOK, NEW u \in Units, Start(u),
         changed' \in [Units -> SUBSET Units],
         leaderHook' \in [Units -> BOOLEAN]
  PROVE  TypeOK'
<1> DEFINE r == LoadRequests(u)
           g == IF u = leader THEN Handle(r, leaderData) ELSE leaderData
           held == {l \in Locks : Granted(r, g, u, l)}
<1>1. r \in Table
  BY LoadType
<1>2. g \in Table
  BY <1>1, HandleType DEF TypeOK
<1>3. held \in SUBSET Locks
  OBVIOUS
<1>4. /\ phase' = [phase EXCEPT ![u] = "running"]
      /\ requests' = [requests EXCEPT ![u] = r]
      /\ grants' = [grants EXCEPT ![u] = g]
      /\ holding' = [holding EXCEPT ![u] = held]
      /\ UNCHANGED <<leader, joined, published, peerData, localFile,
                     leaderData, lastTs>>
  BY DEF Start
<1> HIDE DEF r, g, held
<1> QED  BY <1>1, <1>2, <1>3, <1>4 DEF TypeOK, Phases

LEMMA TypeStep == TypeOK /\ [Next]_vars => TypeOK'
<1> SUFFICES ASSUME TypeOK, [Next]_vars
             PROVE  TypeOK'
  OBVIOUS
<1>1. ASSUME NEW u \in Units, JoinPeers(u)
      PROVE  TypeOK'
  BY <1>1 DEF TypeOK, JoinPeers
<1>2. ASSUME NEW u \in Units, ChangeLeader(u)
      PROVE  TypeOK'
  BY <1>2 DEF TypeOK, ChangeLeader
<1>3. ASSUME NEW u \in Units, Depart(u)
      PROVE  TypeOK'
  <2>1. peerData' \in Table /\ localFile' \in Table
    BY <1>3, NoTableType DEF TypeOK, Depart, Table
  <2>2. changed' \in [Units -> SUBSET Units]
    BY <1>3 DEF TypeOK, Depart
  <2> QED  BY <1>3, <2>1, <2>2 DEF TypeOK, Depart, Phases
<1>4. ASSUME NEW u \in Units, LeaderHook(u)
      PROVE  TypeOK'
  BY <1>4, StartKeepsType DEF LeaderHook, TypeOK
<1>5. ASSUME NEW u \in Units, NEW v \in Units, PeerHook(u, v)
      PROVE  TypeOK'
  BY <1>5, StartKeepsType DEF PeerHook, TypeOK
<1>6. ASSUME NEW u \in Units, OtherHook(u)
      PROVE  TypeOK'
  BY <1>6, StartKeepsType DEF OtherHook, TypeOK
<1>7. ASSUME NEW u \in Units, RetryHook(u)
      PROVE  TypeOK'
  BY <1>7, StartKeepsType DEF RetryHook, TypeOK
<1>8. ASSUME NEW u \in Units, NEW l \in Locks, NEW t \in Timestamps,
             Acquire(u, l, t)
      PROVE  TypeOK'
  <2>1. requests' \in [Units -> Table]
    BY <1>8 DEF Acquire, TypeOK, Table
  <2>2. grants' \in [Units -> Table]
    BY <1>8, <2>1 DEF Acquire, TypeOK, Table
  <2>3. holding' \in [Units -> SUBSET Locks]
    BY <1>8 DEF Acquire, TypeOK
  <2>4. lastTs' \in [Units -> {NoTs} \union Timestamps]
    BY <1>8 DEF Acquire, TypeOK
  <2> QED  BY <1>8, <2>1, <2>2, <2>3, <2>4 DEF Acquire, TypeOK
<1>9. ASSUME NEW u \in Units, EndBody(u)
      PROVE  TypeOK'
  <2> DEFINE mine == Release(requests[u], grants[u], u)
  <2>1. mine \in [Locks -> {NoTs} \union Timestamps]
    BY ReleaseType DEF TypeOK
  <2>2. /\ phase' = [phase EXCEPT ![u] = "saved"]
        /\ requests' = [requests EXCEPT ![u][u] = mine]
        /\ holding' = [holding EXCEPT ![u] = {}]
        /\ leaderData' \in {grants[u], leaderData}
        /\ leaderHook' \in [Units -> BOOLEAN]
        /\ localFile' \in {localFile, [localFile EXCEPT ![u] = mine]}
        /\ UNCHANGED <<leader, joined, published, peerData, grants, lastTs,
                       changed>>
    BY <1>9 DEF EndBody, TypeOK
  <2> HIDE DEF mine
  <2>3. requests' \in [Units -> Table] /\ localFile' \in Table
    <3>1. [requests[u] EXCEPT ![u] = mine] \in Table
      BY <2>1 DEF TypeOK, Table
    <3>2. requests' \in [Units -> Table]
      BY <2>2, <3>1 DEF TypeOK
    <3>3. [localFile EXCEPT ![u] = mine] \in Table
      BY <2>1 DEF TypeOK, Table
    <3> QED  BY <2>2, <3>2, <3>3 DEF TypeOK
  <2>4. leaderData' \in Table
    BY <2>2 DEF TypeOK
  <2> QED  BY <2>2, <2>3, <2>4 DEF TypeOK, Phases
<1>10. ASSUME NEW u \in Units, CompleteHook(u)
       PROVE  TypeOK'
  <2>1. requests' \in [Units -> Table] /\ grants' \in [Units -> Table]
    BY <1>10, NoTableType DEF CompleteHook, Forget, TypeOK
  <2>2. changed' \in [Units -> SUBSET Units]
    BY <1>10 DEF CompleteHook, TypeOK
  <2>3. peerData' \in Table
    <3>1. requests[u][u] \in [Locks -> {NoTs} \union Timestamps]
      BY DEF TypeOK, Table
    <3>2. peerData' \in {peerData, [peerData EXCEPT ![u] = requests[u][u]]}
      BY <1>10 DEF CompleteHook
    <3> QED  BY <3>1, <3>2 DEF TypeOK, Table
  <2>4. published' \subseteq joined'
    BY <1>10 DEF CompleteHook, HasPeers, TypeOK
  <2> QED  BY <1>10, <2>1, <2>2, <2>3, <2>4
           DEF CompleteHook, Forget, TypeOK, Phases
<1>11. ASSUME NEW u \in Units, FailHook(u)
       PROVE  TypeOK'
  BY <1>11, NoTableType DEF FailHook, Forget, TypeOK, Phases
<1>12. CASE UNCHANGED vars
  BY <1>12 DEF vars, TypeOK
<1> QED  BY <1>1, <1>2, <1>3, <1>4, <1>5, <1>6, <1>7, <1>8, <1>9, <1>10,
            <1>11, <1>12 DEF Next

(* The coordinator's state is always of the form the handlers rely on; in  *)
(* particular only units with the peers relation have settings published.  *)
THEOREM Typing == Spec => []TypeOK
BY TypeInit, TypeStep, PTL DEF Spec

-----------------------------------------------------------------------------
(* The inductive invariant behind mutual exclusion.                        *)

(* Hooks may fail, leaders change and units go, but leadership stays with  *)
(* a unit during its hooks and goes only to a unit that has published.     *)
Calm == Hazards \cap {"lease_lost", "promoted", "early_leader"} = {}

(* A timestamp of u that no one else, in particular no leader, has seen.   *)
Fresh(u, l, t) ==
  /\ t > peerData[u][l]
  /\ t > leaderData[u][l]
  /\ t > requests[leader][u][l]
  /\ t > grants[leader][u][l]

(* Between hooks there is no memory. *)
Idle ==
  \A u \in Units : ~InHook(u) => requests[u] = NoTable /\ grants[u] = NoTable

(* No timestamp about u is ahead of u's clock. *)
Clock ==
  \A u \in Units, l \in Locks :
    /\ peerData[u][l] <= lastTs[u]
    /\ localFile[u][l] <= lastTs[u]
    /\ leaderData[u][l] <= lastTs[u]
    /\ \A w \in Units : requests[w][u][l] <= lastTs[u] /\ grants[w][u][l] <= lastTs[u]

(* The charm code was told the lock is its own when it is in the copies.   *)
Told ==
  \A u \in Units, l \in Locks :
    l \in holding[u] <=> phase[u] = "running" /\ Granted(requests[u], grants[u], u, l)

(* A follower's hook publishes what is on record, less what it released,   *)
(* and requests that are news to everybody.                                *)
News ==
  \A u \in Units \ {leader}, l \in Locks :
    InHook(u) => \/ requests[u][u][l] \in {NoTs, OwnRequests(u)[l]}
                 \/ Fresh(u, l, requests[u][u][l])

(* So are the requests in a follower's local file. *)
FileIsNews ==
  \A u \in Units \ {leader}, l \in Locks :
    u \notin published /\ OwnRequests(u)[l] # NoTs => Fresh(u, l, OwnRequests(u)[l])

NothingPublished == \A u \in Units \ published : peerData[u] = NoLocks

(* A leader that has not published is the first one, and never waits. *)
EarlyLeader ==
  /\ leader \notin published => localFile[leader] = NoLocks
  /\ leader \notin joined /\ phase[leader] # "gone" =>
       \A v \in Units \ {leader} :
         leaderData[v] = NoLocks /\ requests[leader][v] = NoLocks /\ grants[leader][v] = NoLocks
  /\ leader \notin joined /\ phase[leader] = "running" =>
       requests[leader][leader] = grants[leader][leader]

OneEach(g) ==
  \A l \in Locks, u \in Units, v \in Units :
    g[u][l] # NoTs /\ g[v][l] # NoTs => u = v

(* The leader's copy and its grants agree, in particular on the grants that *)
(* answer a request on record.                                             *)
LeaderCopy ==
  /\ phase[leader] = "running" =>
       \A v \in Units, l \in Locks :
         grants[leader][v][l] \in {NoTs, requests[leader][v][l]}
  /\ InHook(leader) =>
       \A v \in Units \ {leader}, l \in Locks :
         Served(v, l) => grants[leader][v][l] = leaderData[v][l]

(* A follower that holds a lock is on record for it. *)
OnRecord ==
  \A u \in Units \ {leader} : \A l \in holding[u] :
    Served(u, l) /\ requests[u][u][l] = OwnRequests(u)[l]

IInv ==
  /\ TypeOK
  /\ Idle
  /\ Clock
  /\ Told
  /\ News
  /\ FileIsNews
  /\ NothingPublished
  /\ EarlyLeader
  /\ OneEach(leaderData)
  /\ OneEach(grants[leader])
  /\ LeaderCopy
  /\ OnRecord

-----------------------------------------------------------------------------
(* Lemmas. *)

(* Timestamps are numbers. *)
LEMMA Values ==
  ASSUME TypeOK, NEW u \in Units, NEW l \in Locks
  PROVE  /\ peerData[u][l] \in Nat /\ localFile[u][l] \in Nat
         /\ leaderData[u][l] \in Nat /\ lastTs[u] \in Nat
         /\ OwnRequests(u)[l] \in Nat
         /\ \A w \in Units : requests[w][u][l] \in Nat /\ grants[w][u][l] \in Nat
<1>1. {NoTs} \union Timestamps \subseteq Nat
  BY MaxTsAssumption DEF NoTs, Timestamps
<1>2. \A f \in Table : f[u][l] \in Nat
  BY <1>1 DEF Table
<1>3. \A w \in Units : requests[w] \in Table /\ grants[w] \in Table
  BY DEF TypeOK
<1>4. lastTs[u] \in Nat
  BY <1>1 DEF TypeOK
<1> QED  BY <1>2, <1>3, <1>4 DEF TypeOK, OwnRequests

(* handle() keeps what answers a request, grants nothing else than what was *)
(* requested, and grants every lock once.                                  *)
LEMMA HandleGrants ==
  ASSUME NEW r \in Table, NEW g \in Table, OneEach(g)
  PROVE  /\ OneEach(Handle(r, g))
         /\ \A v \in Units, l \in Locks :
              /\ Handle(r, g)[v][l] \in {NoTs, r[v][l]}
              /\ r[v][l] = g[v][l] => Handle(r, g)[v][l] = g[v][l]
<1> DEFINE h == Revoke(r, g)
<1>1. \A v \in Units, l \in Locks :
        h[v][l] = IF r[v][l] = g[v][l] THEN g[v][l] ELSE NoTs
  BY DEF Revoke
<1> HIDE DEF h
<1>2. \A v \in Units, l \in Locks :
        Handle(r, g)[v][l] = IF default_grant(r, h, l, v) THEN r[v][l] ELSE h[v][l]
  BY DEF Handle, GrantFirst, h
<1>3. ASSUME NEW l \in Locks, NEW v \in Units, default_grant(r, h, l, v)
      PROVE  /\ h[v][l] = NoTs /\ r[v][l] # NoTs
             /\ \A w \in Units : h[w][l] = NoTs
             /\ \A w \in Units : r[w][l] # NoTs => NotAfter(r, l, v, w)
  BY <1>3 DEF default_grant, GrantedTo, Queue
<1>4. ASSUME NEW l \in Locks, NEW v \in Units, NEW w \in Units,
             Handle(r, g)[v][l] # NoTs, Handle(r, g)[w][l] # NoTs
      PROVE  v = w
  <2>1. CASE default_grant(r, h, l, v) /\ default_grant(r, h, l, w)
    <3>1. NotAfter(r, l, v, w) /\ NotAfter(r, l, w, v)
      BY <1>3, <2>1
    <3>2. r[v][l] \in Nat /\ r[w][l] \in Nat
      BY MaxTsAssumption DEF Table, NoTs, Timestamps
    <3>3. v \in Nat /\ w \in Nat
      BY UnitsAssumption
    <3> QED  BY <3>1, <3>2, <3>3 DEF NotAfter
  <2>2. CASE ~default_grant(r, h, l, v) /\ ~default_grant(r, h, l, w)
    BY <1>1, <1>2, <1>4, <2>2 DEF OneEach
  <2>3. CASE default_grant(r, h, l, v) /\ ~default_grant(r, h, l, w)
    BY <1>2, <1>3, <1>4, <2>3
  <2>4. CASE ~default_grant(r, h, l, v) /\ default_grant(r, h, l, w)
    BY <1>2, <1>3, <1>4, <2>4
  <2> QED  BY <2>1, <2>2, <2>3, <2>4
<1> QED  BY <1>1, <1>2, <1>3, <1>4 DEF OneEach

(* What a hook loads. *)
LEMMA Loaded ==
  ASSUME NEW u \in Units
  PROVE  /\ LoadRequests(u)[u] = OwnRequests(u)
         /\ \A v \in Units \ {u} :
              LoadRequests(u)[v] = IF u \in joined THEN peerData[v] ELSE NoLocks
BY DEF LoadRequests, HasPeers

-----------------------------------------------------------------------------
(* Every step keeps the invariant: one lemma for each kind of step.        *)

LEMMA StartKeepsInv ==
  ASSUME IInv, TypeOK', NEW u \in Units, ~InHook(u), phase[u] # "gone", Start(u)
  PROVE  IInv'
<1> DEFINE r == LoadRequests(u)
           g == IF u = leader THEN Handle(r, leaderData) ELSE leaderData
<1>1. /\ r \in Table
      /\ r[u] = OwnRequests(u)
      /\ \A v \in Units \ {u} : r[v] = IF u \in joined THEN peerData[v] ELSE NoLocks
  BY LoadType, Loaded DEF IInv
<1>2. u # leader => g = leaderData
  OBVIOUS
<1>3. u = leader =>
        /\ OneEach(g)
        /\ \A v \in Units, l \in Locks :
             /\ g[v][l] \in {NoTs, r[v][l]}
             /\ r[v][l] = leaderData[v][l] => g[v][l] = leaderData[v][l]
  BY <1>1, HandleGrants DEF IInv, TypeOK
<1>4. /\ requests' = [requests EXCEPT ![u] = r]
      /\ grants' = [grants EXCEPT ![u] = g]
      /\ phase' = [phase EXCEPT ![u] = "running"]
      /\ holding' = [holding EXCEPT ![u] = {l \in Locks : Granted(r, g, u, l)}]
      /\ UNCHANGED <<leader, joined, published, peerData, localFile,
                     leaderData, lastTs>>
  BY DEF Start
<1> HIDE DEF r, g
<1>5. /\ requests'[u] = r /\ grants'[u] = g /\ phase'[u] = "running"
      /\ \A l \in Locks : l \in holding'[u] <=> Granted(r, g, u, l)
      /\ \A v \in Units \ {u} : /\ requests'[v] = requests[v] /\ grants'[v] = grants[v]
                                /\ phase'[v] = phase[v] /\ holding'[v] = holding[v]
  BY <1>4 DEF IInv, TypeOK
<1>6. Idle'
  BY <1>4, <1>5 DEF IInv, Idle, InHook
<1>7. Clock'
  <2> SUFFICES ASSUME NEW v \in Units, NEW l \in Locks
               PROVE  /\ peerData[v][l] <= lastTs[v] /\ localFile[v][l] <= lastTs[v]
                      /\ leaderData[v][l] <= lastTs[v]
                      /\ \A w \in Units : requests'[w][v][l] <= lastTs[v]
                                         /\ grants'[w][v][l] <= lastTs[v]
    BY <1>4 DEF Clock
  <2>1. /\ peerData[v][l] <= lastTs[v] /\ localFile[v][l] <= lastTs[v]
        /\ leaderData[v][l] <= lastTs[v]
        /\ \A w \in Units : requests[w][v][l] <= lastTs[v] /\ grants[w][v][l] <= lastTs[v]
    BY DEF IInv, Clock
  <2>2. NoTs <= lastTs[v] /\ NoLocks[l] = NoTs
    BY Values DEF IInv, NoTs, NoLocks
  <2>3. r[v][l] <= lastTs[v]
    BY <1>1, <2>1, <2>2 DEF OwnRequests
  <2>4. g[v][l] <= lastTs[v]
    BY <1>2, <1>3, <2>1, <2>2, <2>3
  <2> QED  BY <1>5, <2>1, <2>3, <2>4
<1>8. Told'
  BY <1>4, <1>5 DEF IInv, Told, Granted
<1>9. ASSUME NEW v \in Units \ {leader}, NEW l \in Locks, NEW t \in Nat, Fresh(v, l, t)
      PROVE  Fresh(v, l, t)'
  <2>1. NoTs < t /\ NoLocks[l] = NoTs
    BY <1>9, Values DEF IInv, Fresh, NoTs, NoLocks
  <2>2. CASE u = leader
    <3>1. r[v][l] < t
      BY <1>1, <1>9, <2>1, <2>2 DEF Fresh
    <3>2. g[v][l] < t
      BY <1>3, <2>1, <2>2, <3>1
    <3> QED  BY <1>4, <1>5, <1>9, <2>2, <3>1, <3>2 DEF Fresh
  <2>3. CASE u # leader
    BY <1>4, <1>5, <1>9, <2>3 DEF Fresh, IInv, TypeOK
  <2> QED  BY <2>2, <2>3
<1>10. News'
  <2> SUFFICES ASSUME NEW v \in Units \ {leader}, NEW l \in Locks, InHook(v)'
               PROVE  \/ requests'[v][v][l] \in {NoTs, OwnRequests(v)[l]}
                      \/ Fresh(v, l, requests[v][v][l])'
    BY <1>4 DEF News, OwnRequests, HasPeers
  <2>1. CASE v = u
    BY <1>1, <1>5, <2>1
  <2>2. CASE v # u
    <3>1. \/ requests[v][v][l] \in {NoTs, OwnRequests(v)[l]}
          \/ Fresh(v, l, requests[v][v][l])
      BY <1>5, <2>2 DEF IInv, News, InHook
    <3>2. requests[v][v][l] \in Nat
      BY Values DEF IInv
    <3>3. requests'[v][v][l] = requests[v][v][l]
      BY <1>5, <2>2
    <3>4. Fresh(v, l, requests[v][v][l]) =>
            /\ requests'[v][v][l] > peerData'[v][l]
            /\ requests'[v][v][l] > leaderData'[v][l]
            /\ requests'[v][v][l] > requests'[leader'][v][l]
            /\ requests'[v][v][l] > grants'[leader'][v][l]
      BY <1>9, <3>2, <3>3 DEF Fresh
    <3> QED  BY <3>1, <3>3, <3>4 DEF Fresh
  <2> QED  BY <2>1, <2>2
<1>11. FileIsNews'
  <2> SUFFICES ASSUME NEW v \in Units \ {leader}, NEW l \in Locks,
                      v \notin published, OwnRequests(v)[l] # NoTs
               PROVE  Fresh(v, l, OwnRequests(v)[l])'
    BY <1>4 DEF FileIsNews, OwnRequests, HasPeers
  <2>1. Fresh(v, l, OwnRequests(v)[l])
    BY DEF IInv, FileIsNews
  <2>2. OwnRequests(v)[l] \in Nat
    BY Values DEF IInv
  <2>3. OwnRequests(v)' = OwnRequests(v)
    BY <1>4 DEF OwnRequests, HasPeers
  <2> QED  BY <1>9, <2>1, <2>2, <2>3
<1>12. NothingPublished'
  BY <1>4 DEF IInv, NothingPublished
<1>13. EarlyLeader'
  <2>1. CASE u # leader
    BY <1>4, <1>5, <2>1 DEF IInv, EarlyLeader, TypeOK
  <2>2. CASE u = leader /\ u \in joined
    BY <1>4, <2>2 DEF IInv, EarlyLeader
  <2>3. CASE u = leader /\ u \notin joined
    <3>1. \A v \in Units : r[v] = NoLocks
      BY <1>1, <2>3 DEF IInv, EarlyLeader, TypeOK, OwnRequests, HasPeers
    <3>2. \A v \in Units, l \in Locks : g[v][l] = NoTs
      BY <1>3, <2>3, <3>1 DEF NoLocks
    <3>3. g \in Table
      BY <1>5 DEF TypeOK
    <3>4. \A v \in Units : g[v] = NoLocks
      BY <3>2, <3>3 DEF Table, NoLocks
    <3> QED  BY <1>4, <1>5, <2>3, <3>1, <3>4 DEF IInv, EarlyLeader
  <2> QED  BY <2>1, <2>2, <2>3
<1>14. OneEach(leaderData)'
  BY <1>4 DEF IInv, OneEach
<1>15. OneEach(grants[leader])'
  <2>1. CASE u = leader
    BY <1>3, <1>4, <1>5, <2>1 DEF OneEach
  <2>2. CASE u # leader
    BY <1>4, <1>5, <2>2 DEF IInv, OneEach, TypeOK
  <2> QED  BY <2>1, <2>2
<1>16. LeaderCopy'
  <2>1. CASE u # leader
    <3>1. /\ requests'[leader] = requests[leader] /\ grants'[leader] = grants[leader]
          /\ phase'[leader] = phase[leader]
      BY <1>5, <2>1 DEF IInv, TypeOK
    <3> QED  BY <1>4, <3>1 DEF IInv, LeaderCopy, Served, OwnRequests, HasPeers, InHook
  <2>2. CASE u = leader
    <3>1. ASSUME NEW v \in Units \ {leader}, NEW l \in Locks, Served(v, l)
          PROVE  g[v][l] = leaderData[v][l]
      <4>1. v \in published
        BY <3>1, Values DEF IInv, FileIsNews, Fresh, Served
      <4>2. leaderData[v][l] = peerData[v][l] /\ peerData[v][l] # NoTs
        BY <3>1, <4>1 DEF IInv, TypeOK, Served, OwnRequests, HasPeers
      <4>3. u \in joined
        BY <2>2, <4>2 DEF IInv, EarlyLeader, NoLocks
      <4> QED  BY <1>1, <1>3, <2>2, <3>1, <4>2, <4>3
    <3>2. \A v \in Units, l \in Locks : Served(v, l)' <=> Served(v, l)
      BY <1>4 DEF Served, OwnRequests, HasPeers
    <3> QED  BY <1>3, <1>4, <1>5, <2>2, <3>1, <3>2 DEF LeaderCopy
  <2> QED  BY <2>1, <2>2
<1>17. OnRecord'
  <2> SUFFICES ASSUME NEW v \in Units \ {leader}, NEW l \in holding'[v]
               PROVE  Served(v, l) /\ requests'[v][v][l] = OwnRequests(v)[l]
    BY <1>4 DEF OnRecord, Served, OwnRequests, HasPeers
  <2>1. l \in Locks
    BY DEF TypeOK
  <2>2. CASE v = u
    BY <1>1, <1>2, <1>5, <2>1, <2>2 DEF Granted, Served
  <2>3. CASE v # u
    BY <1>5, <2>3 DEF IInv, OnRecord
  <2> QED  BY <2>2, <2>3
<1> QED  BY <1>6, <1>7, <1>8, <1>10, <1>11, <1>12, <1>13, <1>14, <1>15, <1>16,
            <1>17 DEF IInv

(* A request enters with a timestamp nobody has seen; only a leader grants *)
(* on the spot, and only to itself.                                        *)
LEMMA AcquireKeepsInv ==
  ASSUME IInv, TypeOK', NEW u \in Units, NEW k \in Locks, NEW t \in Timestamps,
         Acquire(u, k, t)
  PROVE  IInv'
<1> DEFINE r == IF requests[u][u][k] # NoTs THEN requests[u]
                ELSE [requests[u] EXCEPT ![u][k] = t]
           first == default_grant(r, grants[u], k, u)
           recorded == u \in GrantedTo(grants[u], k)
           g == IF u = leader /\ ~recorded /\ first
                THEN [grants[u] EXCEPT ![u][k] = r[u][k]] ELSE grants[u]
<1>1. /\ phase[u] = "running"
      /\ requests' = [requests EXCEPT ![u] = r]
      /\ grants' = [grants EXCEPT ![u] = g]
      /\ holding' = IF Granted(r, grants[u], u, k) \/ (u = leader /\ (recorded \/ first))
                    THEN [holding EXCEPT ![u] = @ \union {k}] ELSE holding
      /\ lastTs' = [lastTs EXCEPT ![u] = IF r = requests[u] THEN @ ELSE t]
      /\ UNCHANGED <<leader, joined, published, peerData, localFile,
                     leaderData, phase>>
  <2>1. requests' = [requests EXCEPT ![u] = r]
    BY DEF Acquire
  <2>2. grants' = [grants EXCEPT ![u] = g]
    <3>1. CASE u = leader /\ ~recorded /\ first
      BY <3>1 DEF Acquire
    <3>2. CASE ~(u = leader /\ ~recorded /\ first)
      <4>1. g = grants[u] /\ grants' = grants
        BY <3>2 DEF Acquire
      <4> HIDE DEF g
      <4> QED  BY <4>1 DEF IInv, TypeOK
    <3> QED  BY <3>1, <3>2
  <2> QED  BY <2>1, <2>2 DEF Acquire
<1>2. /\ r \in Table /\ t \in Nat /\ t # NoTs
      /\ requests[u] \in Table /\ grants[u] \in Table
  BY MaxTsAssumption DEF IInv, TypeOK, Table, Timestamps, NoTs
<1>3. /\ \A v \in Units, l \in Locks : v # u \/ l # k => r[v][l] = requests[u][v][l]
      /\ requests[u][u][k] # NoTs => r = requests[u]
      /\ requests[u][u][k] = NoTs => r[u][k] = t /\ t > lastTs[u]
      /\ r[u][k] # NoTs
  BY <1>2 DEF Acquire, Table
<1>4. /\ \A v \in Units, l \in Locks : v # u \/ l # k => g[v][l] = grants[u][v][l]
      /\ g[u][k] = IF u = leader /\ ~recorded /\ first THEN r[u][k] ELSE grants[u][u][k]
  BY <1>2 DEF Table
<1>5. /\ recorded <=> grants[u][u][k] # NoTs
      /\ first => \A v \in Units : grants[u][v][k] = NoTs
  BY DEF GrantedTo, default_grant
<1> HIDE DEF r, g
<1>6. /\ requests'[u] = r /\ grants'[u] = g
      /\ \A v \in Units \ {u} : requests'[v] = requests[v] /\ grants'[v] = grants[v]
      /\ u # leader => grants' = grants
  BY <1>1, <1>4, <1>2 DEF IInv, TypeOK, g
<1>7. \A v \in Units : lastTs[v] <= lastTs'[v]
  <2>1. r # requests[u] => t > lastTs[u]
    BY <1>3
  <2>2. \A v \in Units : lastTs[v] \in Nat
    BY MaxTsAssumption DEF IInv, TypeOK, Timestamps, NoTs
  <2>3. \A v \in Units : lastTs'[v] = IF v = u /\ r # requests[u] THEN t ELSE lastTs[v]
    BY <1>1 DEF IInv, TypeOK
  <2> QED  BY <1>2, <2>1, <2>2, <2>3
<1>8. requests[u][u][k] = NoTs => lastTs'[u] = t
  BY <1>1, <1>2, <1>3 DEF IInv, TypeOK
<1> DEFINE told == Granted(r, grants[u], u, k) \/ (u = leader /\ (recorded \/ first))
<1>9. /\ told => holding'[u] = holding[u] \union {k}
      /\ ~told => holding'[u] = holding[u]
      /\ \A v \in Units \ {u} : holding'[v] = holding[v]
  BY <1>1 DEF IInv, TypeOK
<1>10. Idle'
  BY <1>1, <1>6 DEF IInv, Idle, InHook
<1>11. \A v \in Units, l \in Locks : r[v][l] <= lastTs'[v] /\ g[v][l] <= lastTs'[v]
  <2> SUFFICES ASSUME NEW v \in Units, NEW l \in Locks
               PROVE  r[v][l] <= lastTs'[v] /\ g[v][l] <= lastTs'[v]
    OBVIOUS
  <2>1. /\ requests[u][v][l] <= lastTs[v] /\ grants[u][v][l] <= lastTs[v]
        /\ requests[u][v][l] \in Nat /\ grants[u][v][l] \in Nat
        /\ lastTs[v] \in Nat
    BY Values DEF IInv, Clock
  <2>2. lastTs'[v] \in Nat
    BY <1>1, <1>2, <2>1 DEF IInv, TypeOK
  <2>3. r[v][l] <= lastTs'[v]
    BY <1>2, <1>3, <1>7, <1>8, <2>1, <2>2
  <2> QED  BY <1>4, <1>7, <2>1, <2>2, <2>3
<1>12. Clock'
  <2> SUFFICES ASSUME NEW v \in Units, NEW l \in Locks
               PROVE  /\ peerData[v][l] <= lastTs'[v] /\ localFile[v][l] <= lastTs'[v]
                      /\ leaderData[v][l] <= lastTs'[v]
                      /\ \A w \in Units : requests'[w][v][l] <= lastTs'[v]
                                         /\ grants'[w][v][l] <= lastTs'[v]
    BY <1>1 DEF Clock
  <2>1. /\ peerData[v][l] <= lastTs[v] /\ localFile[v][l] <= lastTs[v]
        /\ leaderData[v][l] <= lastTs[v]
        /\ \A w \in Units : requests[w][v][l] <= lastTs[v] /\ grants[w][v][l] <= lastTs[v]
    BY DEF IInv, Clock
  <2>2. /\ peerData[v][l] \in Nat /\ localFile[v][l] \in Nat
        /\ leaderData[v][l] \in Nat /\ lastTs[v] \in Nat
        /\ \A w \in Units : requests[w][v][l] \in Nat /\ grants[w][v][l] \in Nat
    BY Values DEF IInv
  <2>3. lastTs'[v] \in Nat
    BY <1>1, <1>2, <2>2 DEF IInv, TypeOK
  <2> QED  BY <1>6, <1>7, <1>11, <2>1, <2>2, <2>3
<1>13. Told'
  <2> SUFFICES ASSUME NEW v \in Units, NEW l \in Locks
               PROVE  l \in holding'[v] <=>
                        phase[v] = "running" /\ Granted(requests'[v], grants'[v], v, l)
    BY <1>1 DEF Told, Granted
  <2>1. l \in holding[v] <=> phase[v] = "running" /\ Granted(requests[v], grants[v], v, l)
    BY DEF IInv, Told
  <2>2. CASE v # u \/ l # k
    <3>1. l \in holding'[v] <=> l \in holding[v]
      BY <1>1, <2>2 DEF IInv, TypeOK
    <3> QED  BY <1>3, <1>4, <1>6, <2>1, <2>2, <3>1 DEF Granted
  <2>3. CASE v = u /\ l = k
    <3>1. k \in holding'[u] <=> k \in holding[u] \/ told
      BY <1>9
    <3>2. k \in holding[u] => Granted(r, grants[u], u, k)
      BY <1>3, <2>1, <2>3 DEF Granted
    <3>3. u = leader /\ recorded => Granted(r, grants[u], u, k)
      BY <1>1, <1>3, <1>5 DEF IInv, LeaderCopy, Granted
    <3>4. Granted(r, g, u, k) <=> \/ Granted(r, grants[u], u, k)
                                  \/ u = leader /\ ~recorded /\ first
      BY <1>3, <1>4, <1>5 DEF Granted
    <3> QED  BY <1>1, <1>6, <2>3, <3>1, <3>2, <3>3, <3>4
  <2> QED  BY <2>2, <2>3
<1>14. ASSUME NEW v \in Units \ {leader}, NEW l \in Locks, NEW n \in Nat, Fresh(v, l, n)
       PROVE  Fresh(v, l, n)'
  <2>1. requests'[leader][v][l] = requests[leader][v][l] /\ grants'[leader][v][l] = grants[leader][v][l]
    BY <1>3, <1>4, <1>6 DEF IInv, TypeOK
  <2> QED  BY <1>1, <1>14, <2>1 DEF Fresh
<1>15. News'
  <2> SUFFICES ASSUME NEW v \in Units \ {leader}, NEW l \in Locks, InHook(v)
               PROVE  \/ requests'[v][v][l] \in {NoTs, OwnRequests(v)[l]}
                      \/ Fresh(v, l, requests[v][v][l])'
    BY <1>1 DEF News, OwnRequests, HasPeers, InHook
  <2>1. CASE requests'[v][v][l] = requests[v][v][l]
    <3>1. \/ requests[v][v][l] \in {NoTs, OwnRequests(v)[l]}
          \/ Fresh(v, l, requests[v][v][l])
      BY DEF IInv, News
    <3>2. requests[v][v][l] \in Nat
      BY Values DEF IInv
    <3> QED  BY <1>14, <2>1, <3>1, <3>2 DEF Fresh
  <2>2. CASE requests'[v][v][l] # requests[v][v][l]
    <3>1. v = u /\ l = k /\ requests'[v][v][l] = t /\ t > lastTs[v]
      BY <1>3, <1>6, <2>2
    <3>2. Fresh(v, l, t)
      BY <1>2, <3>1, Values DEF IInv, TypeOK, Clock, Fresh
    <3> QED  BY <1>2, <1>14, <3>1, <3>2 DEF Fresh
  <2> QED  BY <2>1, <2>2
<1>16. FileIsNews'
  <2> SUFFICES ASSUME NEW v \in Units \ {leader}, NEW l \in Locks,
                      v \notin published, OwnRequests(v)[l] # NoTs
               PROVE  Fresh(v, l, OwnRequests(v)[l])'
    BY <1>1 DEF FileIsNews, OwnRequests, HasPeers
  <2>1. Fresh(v, l, OwnRequests(v)[l])
    BY DEF IInv, FileIsNews
  <2>2. OwnRequests(v)[l] \in Nat
    BY Values DEF IInv
  <2>3. OwnRequests(v)' = OwnRequests(v)
    BY <1>1 DEF OwnRequests, HasPeers
  <2> QED  BY <1>14, <2>1, <2>2, <2>3
<1>17. NothingPublished'
  BY <1>1 DEF IInv, NothingPublished
<1>18. EarlyLeader'
  <2>1. CASE u # leader
    BY <1>1, <1>6, <2>1 DEF IInv, EarlyLeader, TypeOK
  <2>2. CASE u = leader /\ u \in joined
    BY <1>1, <2>2 DEF IInv, EarlyLeader
  <2>3. CASE u = leader /\ u \notin joined
    <3>1. \A v \in Units \ {u} :
            leaderData[v] = NoLocks /\ requests[u][v] = NoLocks /\ grants[u][v] = NoLocks
      BY <1>1, <2>3 DEF IInv, EarlyLeader
    <3>2. requests[u][u] = grants[u][u]
      BY <1>1, <2>3 DEF IInv, EarlyLeader
    <3>3. \A v \in Units \ {u} : r[v] = requests[u][v] /\ g[v] = grants[u][v]
      BY <1>2 DEF r, g, Table
    <3>4. r \in Table /\ g \in Table
      BY <1>6 DEF TypeOK
    <3>5. requests[u][u][k] = NoTs => first
      BY <1>1, <1>2, <1>3, <3>1, <3>2, UnitsAssumption
      DEF default_grant, GrantedTo, Queue, NotAfter, NoLocks, NoTs
    <3>6. \A l \in Locks : r[u][l] = g[u][l]
      BY <1>3, <1>4, <1>5, <2>3, <3>2, <3>5
    <3>7. r[u] = g[u]
      BY <3>4, <3>6 DEF Table
    <3> QED  BY <1>1, <1>6, <2>3, <3>1, <3>3, <3>7 DEF IInv, EarlyLeader
  <2> QED  BY <2>1, <2>2, <2>3
<1>19. OneEach(leaderData)'
  BY <1>1 DEF IInv, OneEach
<1>20. OneEach(grants[leader])'
  <2>1. CASE u = leader
    BY <1>1, <1>4, <1>5, <1>6, <2>1 DEF IInv, OneEach
  <2>2. CASE u # leader
    BY <1>1, <1>6, <2>2 DEF IInv, OneEach
  <2> QED  BY <2>1, <2>2
<1>21. LeaderCopy'
  <2>1. \A v \in Units \ {leader}, l \in Locks : grants'[leader][v][l] = grants[leader][v][l]
    BY <1>4, <1>6 DEF IInv, TypeOK
  <2>2. \A v \in Units, l \in Locks : Served(v, l)' <=> Served(v, l)
    BY <1>1 DEF Served, OwnRequests, HasPeers
  <2>3. ASSUME phase[leader] = "running", NEW v \in Units, NEW l \in Locks
        PROVE  grants'[leader][v][l] \in {NoTs, requests'[leader][v][l]}
    <3>1. grants[leader][v][l] \in {NoTs, requests[leader][v][l]}
      BY <2>3 DEF IInv, LeaderCopy
    <3> QED  BY <1>3, <1>4, <1>5, <1>6, <3>1 DEF IInv, TypeOK
  <2> QED  BY <1>1, <2>1, <2>2, <2>3 DEF IInv, LeaderCopy, InHook
<1>22. OnRecord'
  <2> SUFFICES ASSUME NEW v \in Units \ {leader}, NEW l \in holding'[v]
               PROVE  Served(v, l) /\ requests'[v][v][l] = OwnRequests(v)[l]
    BY <1>1 DEF OnRecord, Served, OwnRequests, HasPeers
  <2>1. l \in Locks
    BY DEF TypeOK
  <2>2. CASE l \in holding[v]
    <3>1. Served(v, l) /\ requests[v][v][l] = OwnRequests(v)[l]
      BY <2>2 DEF IInv, OnRecord
    <3> QED  BY <1>3, <1>6, <2>1, <3>1 DEF Served
  <2>3. CASE l \notin holding[v]
    <3>1. v = u /\ l = k /\ Granted(r, grants[u], u, k)
      BY <1>9, <2>3
    <3>2. CASE requests[u][u][k] # NoTs
      BY <1>1, <1>3, <2>1, <2>3, <3>1, <3>2 DEF IInv, Told
    <3>3. CASE requests[u][u][k] = NoTs
      BY <1>2, <1>3, <3>1, <3>3, Values DEF IInv, Clock, Granted
    <3> QED  BY <3>2, <3>3
  <2> QED  BY <2>2, <2>3
<1> QED  BY <1>10, <1>12, <1>13, <1>15, <1>16, <1>17, <1>18, <1>19, <1>20,
            <1>21, <1>22 DEF IInv

(* The end of a hook's body: locks are given back in the hook's own copy,  *)
(* and a leader puts its grants on record.                                 *)
LEMMA EndBodyKeepsInv ==
  ASSUME IInv, TypeOK', NEW u \in Units, EndBody(u)
  PROVE  IInv'
<1> DEFINE mine == Release(requests[u], grants[u], u)
<1>1. /\ phase[u] = "running"
      /\ phase' = [phase EXCEPT ![u] = "saved"]
      /\ requests' = [requests EXCEPT ![u][u] = mine]
      /\ holding' = [holding EXCEPT ![u] = {}]
      /\ leaderData' = IF u = leader THEN grants[u] ELSE leaderData
      /\ localFile' = IF u \in joined THEN localFile ELSE [localFile EXCEPT ![u] = mine]
      /\ UNCHANGED <<leader, joined, published, peerData, grants, lastTs>>
  BY DEF EndBody, HasPeers
<1>2. mine \in [Locks -> {NoTs} \union Timestamps]
  BY ReleaseType DEF IInv, TypeOK
<1>3. \A l \in Locks :
        mine[l] = IF Granted(requests[u], grants[u], u, l) THEN NoTs ELSE requests[u][u][l]
  BY DEF Release
<1> HIDE DEF mine
<1>4. /\ requests'[u][u] = mine
      /\ \A v \in Units : v # u => requests'[v] = requests[v] /\ requests'[u][v] = requests[u][v]
  BY <1>1, <1>2 DEF IInv, TypeOK, Table
<1>5. /\ phase'[u] = "saved" /\ holding'[u] = {}
      /\ \A v \in Units \ {u} : phase'[v] = phase[v] /\ holding'[v] = holding[v]
  BY <1>1 DEF IInv, TypeOK
<1>6. /\ u \notin joined => localFile'[u] = mine
      /\ u \in joined => localFile' = localFile
      /\ \A v \in Units \ {u} : localFile'[v] = localFile[v]
  BY <1>1, <1>2 DEF IInv, TypeOK, Table
<1>7. \A v \in Units \ {u} : OwnRequests(v)' = OwnRequests(v)
  BY <1>1, <1>6 DEF OwnRequests, HasPeers
<1>8. OwnRequests(u)' = IF u \in joined THEN OwnRequests(u) ELSE mine
  BY <1>1, <1>6 DEF IInv, TypeOK, OwnRequests, HasPeers
<1>9. \A v, w \in Units, l \in Locks :
        \/ requests'[w][v][l] = requests[w][v][l]
        \/ w = u /\ v = u /\ requests'[w][v][l] = NoTs
  BY <1>3, <1>4
<1>10. Idle'
  BY <1>1, <1>4, <1>5 DEF IInv, Idle, InHook
<1>11. Clock'
  <2> SUFFICES ASSUME NEW v \in Units, NEW l \in Locks
               PROVE  /\ peerData[v][l] <= lastTs[v] /\ localFile'[v][l] <= lastTs[v]
                      /\ leaderData'[v][l] <= lastTs[v]
                      /\ \A w \in Units : requests'[w][v][l] <= lastTs[v]
                                         /\ grants[w][v][l] <= lastTs[v]
    BY <1>1 DEF Clock
  <2>1. /\ peerData[v][l] <= lastTs[v] /\ localFile[v][l] <= lastTs[v]
        /\ leaderData[v][l] <= lastTs[v]
        /\ \A w \in Units : requests[w][v][l] <= lastTs[v] /\ grants[w][v][l] <= lastTs[v]
    BY DEF IInv, Clock
  <2>2. NoTs <= lastTs[v]
    BY Values DEF IInv, NoTs
  <2>3. \A w \in Units : requests'[w][v][l] <= lastTs[v]
    BY <1>9, <2>1, <2>2
  <2>4. localFile'[v][l] <= lastTs[v]
    BY <1>3, <1>6, <2>1, <2>2
  <2> QED  BY <1>1, <2>1, <2>3, <2>4
<1>12. Told'
  BY <1>1, <1>4, <1>5 DEF IInv, Told, Granted
<1>13. ASSUME NEW v \in Units \ {leader}, NEW l \in Locks, NEW n \in Nat, Fresh(v, l, n)
       PROVE  /\ n > peerData'[v][l]
              /\ n > leaderData'[v][l]
              /\ n > requests'[leader'][v][l]
              /\ n > grants'[leader'][v][l]
  <2>1. leader \in Units
    BY DEF IInv, TypeOK
  <2>2. requests'[leader][v][l] = requests[leader][v][l]
    BY <1>9, <2>1
  <2> QED  BY <1>1, <1>13, <2>2 DEF Fresh
<1>14. ASSUME NEW v \in Units \ {leader}, NEW l \in Locks, InHook(v)
       PROVE  \/ requests'[v][v][l] \in {NoTs, OwnRequests(v)[l]}
              \/ Fresh(v, l, requests[v][v][l])'
  <2>1. requests'[v][v][l] = requests[v][v][l] \/ requests'[v][v][l] = NoTs
    BY <1>9
  <2>2. \/ requests[v][v][l] \in {NoTs, OwnRequests(v)[l]}
        \/ Fresh(v, l, requests[v][v][l])
    BY <1>14 DEF IInv, News
  <2>3. requests[v][v][l] \in Nat
    BY Values DEF IInv
  <2> QED  BY <1>13, <2>1, <2>2, <2>3 DEF Fresh
<1>15. News'
  <2> SUFFICES ASSUME NEW v \in Units \ {leader}, NEW l \in Locks, InHook(v)'
               PROVE  \/ requests'[v][v][l] \in {NoTs, OwnRequests(v)'[l]}
                      \/ Fresh(v, l, requests[v][v][l])'
    BY <1>1 DEF News
  <2>1. InHook(v)
    BY <1>1, <1>5 DEF InHook
  <2>2. OwnRequests(v)' = OwnRequests(v) \/ requests'[v][v] = OwnRequests(v)'
    BY <1>4, <1>7, <1>8
  <2> QED  BY <1>14, <2>1, <2>2
<1>16. FileIsNews'
  <2> SUFFICES ASSUME NEW v \in Units \ {leader}, NEW l \in Locks,
                      v \notin published, OwnRequests(v)'[l] # NoTs
               PROVE  Fresh(v, l, OwnRequests(v)[l])'
    BY <1>1 DEF FileIsNews
  <2>1. ASSUME OwnRequests(v)'[l] = OwnRequests(v)[l]
        PROVE  Fresh(v, l, OwnRequests(v)[l])'
    <3>1. Fresh(v, l, OwnRequests(v)[l]) /\ OwnRequests(v)[l] \in Nat
      BY <2>1, Values DEF IInv, FileIsNews
    <3> QED  BY <1>13, <2>1, <3>1 DEF Fresh
  <2>2. CASE v = u /\ OwnRequests(v)'[l] # OwnRequests(v)[l]
    <3>1. OwnRequests(v)'[l] = requests'[v][v][l]
      BY <1>4, <1>8, <2>2
    <3>2. Fresh(v, l, requests[v][v][l])'
      BY <1>1, <1>14, <2>2, <3>1 DEF InHook
    <3> QED  BY <3>1, <3>2 DEF Fresh
  <2> QED  BY <1>7, <2>1, <2>2
<1>17. NothingPublished'
  BY <1>1 DEF IInv, NothingPublished
<1>18. EarlyLeader'
  <2>1. CASE u # leader
    BY <1>1, <1>4, <1>5, <1>6, <2>1 DEF IInv, EarlyLeader, TypeOK
  <2>2. CASE u = leader
    <3>1. leader \notin published => localFile'[leader] = NoLocks
      <4>1. CASE u \in joined
        BY <1>6, <2>2, <4>1 DEF IInv, EarlyLeader
      <4>2. CASE u \notin joined
        <5>1. requests[u][u] = grants[u][u]
          BY <1>1, <2>2, <4>2 DEF IInv, EarlyLeader
        <5>2. \A l \in Locks : mine[l] = NoTs
          BY <1>3, <5>1 DEF Granted
        <5>3. mine = NoLocks
          BY <1>2, <5>2 DEF NoLocks
        <5> QED  BY <1>6, <2>2, <4>2, <5>3
      <4> QED  BY <4>1, <4>2
    <3>2. leader \notin joined =>
            \A v \in Units \ {leader} :
              leaderData'[v] = NoLocks /\ requests'[leader][v] = NoLocks /\ grants'[leader][v] = NoLocks
      BY <1>1, <1>4, <2>2 DEF IInv, EarlyLeader
    <3> QED  BY <1>1, <1>5, <2>2, <3>1, <3>2 DEF EarlyLeader
  <2> QED  BY <2>1, <2>2
<1>19. OneEach(leaderData)'
  BY <1>1 DEF IInv, OneEach
<1>20. OneEach(grants[leader])'
  BY <1>1 DEF IInv, OneEach
<1>21. LeaderCopy'
  <2>1. CASE u = leader
    BY <1>1, <1>5, <2>1 DEF LeaderCopy
  <2>2. CASE u # leader
    <3>1. /\ leaderData' = leaderData /\ leader' = leader /\ grants' = grants
          /\ phase'[leader] = phase[leader] /\ requests'[leader] = requests[leader]
      BY <1>1, <1>4, <1>5, <2>2 DEF IInv, TypeOK
    <3>2. ASSUME NEW v \in Units \ {leader}, NEW l \in Locks, Served(v, l)'
          PROVE  Served(v, l)
      <4>1. CASE OwnRequests(v)'[l] = OwnRequests(v)[l]
        BY <3>1, <3>2, <4>1 DEF Served
      <4>2. CASE OwnRequests(v)'[l] # OwnRequests(v)[l]
        <5>1. v = u /\ u \notin published /\ OwnRequests(v)' = mine
          BY <1>7, <1>8, <4>2 DEF IInv, TypeOK
        <5>2. requests'[v][v][l] = leaderData[v][l] /\ requests'[v][v][l] # NoTs
          BY <1>4, <3>1, <3>2, <5>1 DEF Served
        <5>3. Fresh(v, l, requests[v][v][l])'
          BY <1>1, <1>4, <1>14, <4>2, <5>1, <5>2 DEF InHook
        <5>4. leaderData[v][l] \in Nat
          BY Values DEF IInv
        <5> QED  BY <3>1, <5>2, <5>3, <5>4 DEF Fresh
      <4> QED  BY <4>1, <4>2
    <3> QED  BY <3>1, <3>2 DEF IInv, LeaderCopy, InHook
  <2> QED  BY <2>1, <2>2
<1>22. OnRecord'
  <2> SUFFICES ASSUME NEW v \in Units \ {leader}, NEW l \in holding'[v]
               PROVE  Served(v, l)' /\ requests'[v][v][l] = OwnRequests(v)'[l]
    BY <1>1 DEF OnRecord
  <2>1. l \in Locks
    BY DEF TypeOK
  <2>2. v # u /\ l \in holding[v]
    BY <1>5
  <2>3. Served(v, l) /\ requests[v][v][l] = OwnRequests(v)[l]
    BY <2>2 DEF IInv, OnRecord
  <2>4. leaderData'[v][l] = leaderData[v][l]
    BY <1>1, <2>1, <2>3 DEF IInv, LeaderCopy, InHook
  <2> QED  BY <1>4, <1>7, <2>2, <2>3, <2>4 DEF Served
<1> QED  BY <1>10, <1>11, <1>12, <1>15, <1>16, <1>17, <1>18, <1>19, <1>20,
            <1>21, <1>22 DEF IInv

(* The end of the process: nothing is left of the hook's memory.           *)
LEMMA Forgotten ==
  ASSUME IInv, NEW u \in Units, Forget(u)
  PROVE  /\ requests'[u] = NoTable /\ grants'[u] = NoTable /\ holding'[u] = {}
         /\ \A v \in Units \ {u} : /\ requests'[v] = requests[v] /\ grants'[v] = grants[v]
                                   /\ holding'[v] = holding[v]
         /\ \A v, w \in Units, l \in Locks :
              /\ requests'[w][v][l] \in {NoTs, requests[w][v][l]}
              /\ grants'[w][v][l] \in {NoTs, grants[w][v][l]}
<1>1. \A v \in Units, l \in Locks : NoTable[v][l] = NoTs
  BY DEF NoTable, NoLocks
<1>2. /\ requests'[u] = NoTable /\ grants'[u] = NoTable /\ holding'[u] = {}
      /\ \A v \in Units \ {u} : /\ requests'[v] = requests[v] /\ grants'[v] = grants[v]
                                /\ holding'[v] = holding[v]
  BY DEF Forget, IInv, TypeOK
<1> QED  BY <1>1, <1>2

LEMMA CompleteKeepsInv ==
  ASSUME IInv, TypeOK', NEW u \in Units, CompleteHook(u)
  PROVE  IInv'
<1>1. /\ phase[u] = "saved"
      /\ phase' = [phase EXCEPT ![u] = "idle"]
      /\ Forget(u)
      /\ peerData' = IF u \in joined THEN [peerData EXCEPT ![u] = requests[u][u]] ELSE peerData
      /\ published' = IF u \in joined THEN published \union {u} ELSE published
      /\ UNCHANGED <<leader, joined, localFile, leaderData, lastTs>>
  BY DEF CompleteHook, HasPeers
<1>2. /\ requests'[u] = NoTable /\ grants'[u] = NoTable /\ holding'[u] = {}
      /\ \A v \in Units \ {u} : /\ requests'[v] = requests[v] /\ grants'[v] = grants[v]
                                /\ holding'[v] = holding[v]
      /\ \A v, w \in Units, l \in Locks :
           /\ requests'[w][v][l] \in {NoTs, requests[w][v][l]}
           /\ grants'[w][v][l] \in {NoTs, grants[w][v][l]}
  BY <1>1, Forgotten
<1>3. /\ phase'[u] = "idle"
      /\ \A v \in Units \ {u} : phase'[v] = phase[v]
  BY <1>1 DEF IInv, TypeOK
<1>4. /\ u \in joined => peerData'[u] = requests[u][u]
      /\ u \notin joined => peerData' = peerData
      /\ \A v \in Units \ {u} : peerData'[v] = peerData[v]
  BY <1>1 DEF IInv, TypeOK, Table
<1>5. \A v \in Units \ {u} : OwnRequests(v)' = OwnRequests(v)
  BY <1>1, <1>4 DEF OwnRequests, HasPeers
<1>6. OwnRequests(u)' = IF u \in joined THEN requests[u][u] ELSE OwnRequests(u)
  BY <1>1, <1>4 DEF IInv, TypeOK, OwnRequests, HasPeers
<1>7. Idle'
  BY <1>1, <1>2, <1>3 DEF IInv, Idle, InHook
<1>8. Clock'
  <2> SUFFICES ASSUME NEW v \in Units, NEW l \in Locks
               PROVE  /\ peerData'[v][l] <= lastTs[v] /\ localFile[v][l] <= lastTs[v]
                      /\ leaderData[v][l] <= lastTs[v]
                      /\ \A w \in Units : requests'[w][v][l] <= lastTs[v]
                                         /\ grants'[w][v][l] <= lastTs[v]
    BY <1>1 DEF Clock
  <2>1. /\ peerData[v][l] <= lastTs[v] /\ localFile[v][l] <= lastTs[v]
        /\ leaderData[v][l] <= lastTs[v]
        /\ \A w \in Units : requests[w][v][l] <= lastTs[v] /\ grants[w][v][l] <= lastTs[v]
    BY DEF IInv, Clock
  <2>2. NoTs <= lastTs[v]
    BY Values DEF IInv, NoTs
  <2>3. peerData'[v][l] <= lastTs[v]
    BY <1>4, <2>1
  <2> QED  BY <1>2, <2>1, <2>2, <2>3
<1>9. Told'
  BY <1>2, <1>3 DEF IInv, Told, Granted
<1>10. ASSUME NEW v \in Units \ {leader, u}, NEW l \in Locks, NEW n \in Nat, Fresh(v, l, n)
       PROVE  /\ n > peerData'[v][l]
              /\ n > leaderData'[v][l]
              /\ n > requests'[leader'][v][l]
              /\ n > grants'[leader'][v][l]
  <2>1. leader \in Units /\ n > NoTs
    BY <1>10, Values DEF IInv, TypeOK, Fresh, NoTs
  <2>2. requests'[leader][v][l] \in {NoTs, requests[leader][v][l]}
    BY <1>2, <2>1
  <2>3. grants'[leader][v][l] \in {NoTs, grants[leader][v][l]}
    BY <1>2, <2>1
  <2> QED  BY <1>1, <1>4, <1>10, <2>1, <2>2, <2>3 DEF Fresh
<1>11. News'
  <2> SUFFICES ASSUME NEW v \in Units \ {leader}, NEW l \in Locks, InHook(v)'
               PROVE  \/ requests'[v][v][l] \in {NoTs, OwnRequests(v)'[l]}
                      \/ Fresh(v, l, requests[v][v][l])'
    BY <1>1 DEF News
  <2>1. v # u /\ InHook(v)
    BY <1>3 DEF InHook
  <2>2. \/ requests[v][v][l] \in {NoTs, OwnRequests(v)[l]}
        \/ Fresh(v, l, requests[v][v][l])
    BY <2>1 DEF IInv, News
  <2>3. requests[v][v][l] \in Nat
    BY Values DEF IInv
  <2> QED  BY <1>2, <1>5, <1>10, <2>1, <2>2, <2>3 DEF Fresh
<1>12. FileIsNews'
  <2> SUFFICES ASSUME NEW v \in Units \ {leader}, NEW l \in Locks,
                      v \notin published', OwnRequests(v)'[l] # NoTs
               PROVE  Fresh(v, l, OwnRequests(v)[l])'
    BY <1>1 DEF FileIsNews
  <2>1. v \notin published /\ OwnRequests(v)' = OwnRequests(v)
    BY <1>1, <1>5, <1>6
  <2>2. Fresh(v, l, OwnRequests(v)[l]) /\ OwnRequests(v)[l] \in Nat
    BY <2>1, Values DEF IInv, FileIsNews
  <2>3. CASE v # u
    BY <1>10, <2>1, <2>2, <2>3 DEF Fresh
  <2>4. CASE v = u
    <3>1. u \notin joined /\ peerData' = peerData
      BY <1>1, <1>4, <2>4
    <3>2. requests'[leader] = requests[leader] /\ grants'[leader] = grants[leader]
      BY <1>2, <2>4 DEF IInv, TypeOK
    <3> QED  BY <1>1, <2>1, <2>2, <3>1, <3>2 DEF Fresh
  <2> QED  BY <2>3, <2>4
<1>13. NothingPublished'
  BY <1>1, <1>4 DEF IInv, NothingPublished
<1>14. EarlyLeader'
  <2>1. leader \notin published' => leader \notin published
    BY <1>1
  <2>2. NoTable[leader] = NoLocks /\ \A v \in Units : NoTable[v] = NoLocks
    BY DEF IInv, TypeOK, NoTable
  <2>3. CASE u # leader
    BY <1>1, <1>2, <1>3, <2>1, <2>3 DEF IInv, EarlyLeader, TypeOK
  <2>4. CASE u = leader
    BY <1>1, <1>2, <1>3, <2>1, <2>2, <2>4 DEF IInv, EarlyLeader
  <2> QED  BY <2>3, <2>4
<1>15. OneEach(leaderData)'
  BY <1>1 DEF IInv, OneEach
<1>16. OneEach(grants[leader])'
  <2>1. leader \in Units
    BY DEF IInv, TypeOK
  <2>2. \A v \in Units, l \in Locks : grants'[leader][v][l] # NoTs => grants[leader][v][l] # NoTs
    BY <1>2, <2>1
  <2> QED  BY <1>1, <2>2 DEF IInv, OneEach
<1>17. LeaderCopy'
  <2>1. CASE u = leader
    BY <1>1, <1>3, <2>1 DEF LeaderCopy, InHook
  <2>2. CASE u # leader
    <3>1. /\ leaderData' = leaderData /\ leader' = leader
          /\ grants'[leader] = grants[leader]
          /\ phase'[leader] = phase[leader] /\ requests'[leader] = requests[leader]
      BY <1>1, <1>2, <1>3, <2>2 DEF IInv, TypeOK
    <3>2. ASSUME NEW v \in Units \ {leader}, NEW l \in Locks, Served(v, l)'
          PROVE  Served(v, l)
      <4>1. CASE OwnRequests(v)'[l] = OwnRequests(v)[l]
        BY <3>1, <3>2, <4>1 DEF Served
      <4>2. CASE OwnRequests(v)'[l] # OwnRequests(v)[l]
        <5>1. v = u /\ OwnRequests(v)' = requests[v][v]
          BY <1>5, <1>6, <4>2
        <5>2. Fresh(v, l, requests[v][v][l])
          BY <1>1, <3>2, <4>2, <5>1 DEF IInv, News, InHook, Served
        <5>3. leaderData[v][l] = requests[v][v][l] /\ leaderData[v][l] \in Nat
          BY <3>1, <3>2, <5>1, Values DEF IInv, Served
        <5> QED  BY <5>2, <5>3 DEF Fresh
      <4> QED  BY <4>1, <4>2
    <3> QED  BY <3>1, <3>2 DEF IInv, LeaderCopy, InHook
  <2> QED  BY <2>1, <2>2
<1>18. OnRecord'
  <2> SUFFICES ASSUME NEW v \in Units \ {leader}, NEW l \in holding'[v]
               PROVE  Served(v, l)' /\ requests'[v][v][l] = OwnRequests(v)'[l]
    BY <1>1 DEF OnRecord
  <2>1. v # u /\ l \in holding[v]
    BY <1>2
  <2>2. Served(v, l) /\ requests[v][v][l] = OwnRequests(v)[l]
    BY <2>1 DEF IInv, OnRecord
  <2> QED  BY <1>1, <1>2, <1>5, <2>1, <2>2 DEF Served
<1> QED  BY <1>7, <1>8, <1>9, <1>11, <1>12, <1>13, <1>14, <1>15, <1>16, <1>17,
            <1>18 DEF IInv

LEMMA FailKeepsInv ==
  ASSUME IInv, TypeOK', NEW u \in Units, FailHook(u)
  PROVE  IInv'
<1>1. /\ phase' = [phase EXCEPT ![u] = "failed"]
      /\ Forget(u)
      /\ UNCHANGED <<leader, joined, published, peerData, localFile, leaderData, lastTs>>
  BY DEF FailHook
<1>2. /\ requests'[u] = NoTable /\ grants'[u] = NoTable /\ holding'[u] = {}
      /\ \A v \in Units \ {u} : /\ requests'[v] = requests[v] /\ grants'[v] = grants[v]
                                /\ holding'[v] = holding[v]
      /\ \A v, w \in Units, l \in Locks :
           /\ requests'[w][v][l] \in {NoTs, requests[w][v][l]}
           /\ grants'[w][v][l] \in {NoTs, grants[w][v][l]}
  BY <1>1, Forgotten
<1>3. /\ phase'[u] = "failed"
      /\ \A v \in Units \ {u} : phase'[v] = phase[v]
  BY <1>1 DEF IInv, TypeOK
<1>4. \A v \in Units : OwnRequests(v)' = OwnRequests(v)
  BY <1>1 DEF OwnRequests, HasPeers
<1>5. Idle'
  BY <1>1, <1>2, <1>3 DEF IInv, Idle, InHook
<1>6. Clock'
  <2>1. \A v \in Units : NoTs <= lastTs[v]
    BY MaxTsAssumption DEF IInv, TypeOK, Timestamps, NoTs
  <2> QED  BY <1>1, <1>2, <2>1 DEF IInv, Clock
<1>7. Told'
  BY <1>2, <1>3 DEF IInv, Told, Granted
<1>8. ASSUME NEW v \in Units \ {leader}, NEW l \in Locks, NEW n \in Nat, Fresh(v, l, n)
      PROVE  /\ n > peerData'[v][l]
             /\ n > leaderData'[v][l]
             /\ n > requests'[leader'][v][l]
             /\ n > grants'[leader'][v][l]
  <2>1. leader \in Units /\ n > NoTs
    BY <1>8, Values DEF IInv, TypeOK, Fresh, NoTs
  <2> QED  BY <1>1, <1>2, <1>8, <2>1 DEF Fresh
<1>9. News'
  <2> SUFFICES ASSUME NEW v \in Units \ {leader}, NEW l \in Locks, InHook(v)'
               PROVE  \/ requests'[v][v][l] \in {NoTs, OwnRequests(v)'[l]}
                      \/ Fresh(v, l, requests[v][v][l])'
    BY <1>1 DEF News
  <2>1. v # u /\ InHook(v)
    BY <1>3 DEF InHook
  <2>2. requests[v][v][l] \in Nat
    BY Values DEF IInv
  <2> QED  BY <1>2, <1>4, <1>8, <2>1, <2>2 DEF IInv, News, Fresh
<1>10. FileIsNews'
  <2> SUFFICES ASSUME NEW v \in Units \ {leader}, NEW l \in Locks,
                      v \notin published, OwnRequests(v)[l] # NoTs
               PROVE  Fresh(v, l, OwnRequests(v)[l])'
    BY <1>1, <1>4 DEF FileIsNews
  <2>1. Fresh(v, l, OwnRequests(v)[l]) /\ OwnRequests(v)[l] \in Nat
    BY Values DEF IInv, FileIsNews
  <2> QED  BY <1>4, <1>8, <2>1 DEF Fresh
<1>11. NothingPublished'
  BY <1>1 DEF IInv, NothingPublished
<1>12. EarlyLeader'
  <2>1. \A v \in Units : NoTable[v] = NoLocks
    BY DEF NoTable
  <2>2. CASE u # leader
    BY <1>1, <1>2, <1>3, <2>2 DEF IInv, EarlyLeader, TypeOK
  <2>3. CASE u = leader
    <3>1. phase[u] # "gone"
      BY DEF FailHook, InHook
    <3> QED  BY <1>1, <1>2, <1>3, <2>1, <2>3, <3>1 DEF IInv, EarlyLeader
  <2> QED  BY <2>2, <2>3
<1>13. OneEach(leaderData)'
  BY <1>1 DEF IInv, OneEach
<1>14. OneEach(grants[leader])'
  <2>1. leader \in Units
    BY DEF IInv, TypeOK
  <2>2. \A v \in Units, l \in Locks : grants'[leader][v][l] # NoTs => grants[leader][v][l] # NoTs
    BY <1>2, <2>1
  <2> QED  BY <1>1, <2>2 DEF IInv, OneEach
<1>15. LeaderCopy'
  <2>1. CASE u = leader
    BY <1>1, <1>3, <2>1 DEF LeaderCopy, InHook
  <2>2. CASE u # leader
    <3>1. /\ leaderData' = leaderData /\ leader' = leader
          /\ grants'[leader] = grants[leader]
          /\ phase'[leader] = phase[leader] /\ requests'[leader] = requests[leader]
      BY <1>1, <1>2, <1>3, <2>2 DEF IInv, TypeOK
    <3> QED  BY <1>4, <3>1 DEF IInv, LeaderCopy, InHook, Served
  <2> QED  BY <2>1, <2>2
<1>16. OnRecord'
  BY <1>1, <1>2, <1>4 DEF IInv, OnRecord, Served
<1> QED  BY <1>5, <1>6, <1>7, <1>9, <1>10, <1>11, <1>12, <1>13, <1>14, <1>15,
            <1>16 DEF IInv

(* What happens between hooks.                                             *)
LEMMA JoinKeepsInv ==
  ASSUME IInv, TypeOK', NEW u \in Units, JoinPeers(u)
  PROVE  IInv'
<1>1. /\ u \notin joined /\ phase[u] \in {"idle", "failed"}
      /\ joined' = joined \union {u}
      /\ UNCHANGED <<leader, published, peerData, localFile, leaderData, phase,
                     requests, grants, holding, lastTs>>
  BY DEF JoinPeers
<1>2. u \notin published
  BY <1>1 DEF IInv, TypeOK
<1>3. \A v \in Units : OwnRequests(v)' = OwnRequests(v)
  BY <1>1, <1>2 DEF OwnRequests, HasPeers
<1>4. Idle' /\ Clock' /\ Told' /\ NothingPublished'
  BY <1>1 DEF IInv, Idle, Clock, Told, NothingPublished, InHook
<1>5. News' /\ FileIsNews'
  BY <1>1, <1>3 DEF IInv, News, FileIsNews, InHook, Fresh
<1>6. EarlyLeader'
  BY <1>1 DEF IInv, EarlyLeader
<1>7. OneEach(leaderData)' /\ OneEach(grants[leader])'
  BY <1>1 DEF IInv, OneEach
<1>8. LeaderCopy' /\ OnRecord'
  BY <1>1, <1>3 DEF IInv, LeaderCopy, OnRecord, Served, InHook
<1> QED  BY <1>4, <1>5, <1>6, <1>7, <1>8 DEF IInv

LEMMA ChangeLeaderKeepsInv ==
  ASSUME IInv, TypeOK', Calm, NEW u \in Units, ChangeLeader(u)
  PROVE  IInv'
<1>1. /\ u # leader /\ leader' = u
      /\ ~InHook(leader) /\ ~InHook(u) /\ u \in published
      /\ UNCHANGED <<joined, published, peerData, localFile, leaderData, phase,
                     requests, grants, holding, lastTs>>
  BY DEF ChangeLeader, Calm
<1>2. \A v \in Units : OwnRequests(v)' = OwnRequests(v)
  BY <1>1 DEF OwnRequests, HasPeers
<1>3. /\ leader \in Units
      /\ \A w \in {u, leader} : requests[w] = NoTable /\ grants[w] = NoTable /\ holding[w] = {}
  BY <1>1 DEF IInv, TypeOK, Idle, Told, InHook
<1>4. \A v \in Units, l \in Locks : NoTable[v][l] = NoTs
  BY DEF NoTable, NoLocks
<1>5. ASSUME NEW v \in Units, NEW l \in Locks, NEW n \in Nat, Fresh(v, l, n)
      PROVE  /\ n > peerData'[v][l]
             /\ n > leaderData'[v][l]
             /\ n > requests'[leader'][v][l]
             /\ n > grants'[leader'][v][l]
  BY <1>1, <1>3, <1>4, <1>5 DEF Fresh
<1>6. Idle' /\ Clock' /\ Told' /\ NothingPublished'
  BY <1>1 DEF IInv, Idle, Clock, Told, NothingPublished, InHook
<1>7. News'
  <2> SUFFICES ASSUME NEW v \in Units \ {u}, NEW l \in Locks, InHook(v)
               PROVE  \/ requests'[v][v][l] \in {NoTs, OwnRequests(v)'[l]}
                      \/ Fresh(v, l, requests[v][v][l])'
    BY <1>1 DEF News, InHook
  <2>1. v \in Units \ {leader}
    BY <1>1
  <2>2. requests[v][v][l] \in Nat
    BY Values DEF IInv
  <2> QED  BY <1>1, <1>2, <1>5, <2>1, <2>2 DEF IInv, News, Fresh
<1>8. FileIsNews'
  <2> SUFFICES ASSUME NEW v \in Units \ {u}, NEW l \in Locks,
                      v \notin published, OwnRequests(v)[l] # NoTs
               PROVE  Fresh(v, l, OwnRequests(v)[l])'
    BY <1>1, <1>2 DEF FileIsNews
  <2>1. v # leader
    BY DEF IInv, TypeOK, EarlyLeader, OwnRequests, HasPeers, NoLocks
  <2>2. Fresh(v, l, OwnRequests(v)[l]) /\ OwnRequests(v)[l] \in Nat
    BY <2>1, Values DEF IInv, FileIsNews
  <2> QED  BY <1>2, <1>5, <2>2 DEF Fresh
<1>9. EarlyLeader'
  BY <1>1 DEF IInv, TypeOK, EarlyLeader
<1>10. OneEach(leaderData)' /\ OneEach(grants[leader])'
  BY <1>1, <1>3, <1>4 DEF IInv, OneEach
<1>11. LeaderCopy'
  BY <1>1, <1>3 DEF LeaderCopy, InHook
<1>12. OnRecord'
  BY <1>1, <1>2, <1>3 DEF IInv, OnRecord, Served
<1> QED  BY <1>6, <1>7, <1>8, <1>9, <1>10, <1>11, <1>12 DEF IInv

LEMMA DepartKeepsInv ==
  ASSUME IInv, TypeOK', NEW u \in Units, Depart(u)
  PROVE  IInv'
<1>1. /\ phase[u] = "idle"
      /\ phase' = [phase EXCEPT ![u] = "gone"]
      /\ joined' = joined \ {u} /\ published' = published \ {u}
      /\ peerData' = [peerData EXCEPT ![u] = NoLocks]
      /\ localFile' = [localFile EXCEPT ![u] = NoLocks]
      /\ UNCHANGED <<leader, leaderData, requests, grants, holding, lastTs>>
  BY DEF Depart
<1>2. /\ phase'[u] = "gone" /\ peerData'[u] = NoLocks /\ localFile'[u] = NoLocks
      /\ \A v \in Units \ {u} : /\ phase'[v] = phase[v] /\ peerData'[v] = peerData[v]
                                /\ localFile'[v] = localFile[v]
  BY <1>1 DEF IInv, TypeOK, Table
<1>3. \A v \in Units \ {u} : OwnRequests(v)' = OwnRequests(v)
  BY <1>1, <1>2 DEF OwnRequests, HasPeers
<1>4. \A l \in Locks : OwnRequests(u)'[l] = NoTs
  BY <1>2 DEF OwnRequests, HasPeers, NoLocks
<1>5. \A v \in Units : InHook(v)' <=> InHook(v)
  BY <1>1, <1>2 DEF InHook
<1>6. Idle' /\ Told'
  BY <1>1, <1>2, <1>5 DEF IInv, Idle, Told, Granted
<1>7. Clock'
  <2>1. \A v \in Units : NoTs <= lastTs[v]
    BY MaxTsAssumption DEF IInv, TypeOK, Timestamps, NoTs
  <2> QED  BY <1>1, <1>2, <2>1 DEF IInv, Clock, NoLocks
<1>8. News' /\ FileIsNews'
  BY <1>1, <1>2, <1>3, <1>4, <1>5 DEF IInv, News, FileIsNews, Fresh, InHook
<1>9. NothingPublished'
  BY <1>1, <1>2 DEF IInv, NothingPublished
<1>10. EarlyLeader'
  BY <1>1, <1>2 DEF IInv, TypeOK, EarlyLeader
<1>11. OneEach(leaderData)' /\ OneEach(grants[leader])'
  BY <1>1 DEF IInv, OneEach
<1>12. LeaderCopy'
  BY <1>1, <1>2, <1>3, <1>4, <1>5 DEF IInv, TypeOK, LeaderCopy, Served, InHook
<1>13. OnRecord'
  <2>1. holding[u] = {}
    BY <1>1 DEF IInv, TypeOK, Told
  <2> QED  BY <1>1, <1>3, <2>1 DEF IInv, OnRecord, Served
<1> QED  BY <1>6, <1>7, <1>8, <1>9, <1>10, <1>11, <1>12, <1>13 DEF IInv

LEMMA InvInit == Init => IInv
<1> SUFFICES ASSUME Init
             PROVE  IInv
  OBVIOUS
<1>1. TypeOK
  BY TypeInit
<1>2. \A v \in Units : NoTable[v] = NoLocks /\ \A l \in Locks : NoTable[v][l] = NoTs
  BY DEF NoTable, NoLocks
<1>3. Idle /\ Clock /\ Told
  BY <1>2 DEF Init, Idle, Clock, Told, NoTs
<1>a. /\ leader \in Units
      /\ peerData = NoTable /\ localFile = NoTable /\ leaderData = NoTable
      /\ \A v \in Units : /\ phase[v] = "idle"
                          /\ requests[v] = NoTable /\ grants[v] = NoTable
  BY DEF Init
<1>b. \A v \in Units : OwnRequests(v) = NoLocks /\ ~InHook(v)
  BY <1>a, <1>2 DEF OwnRequests, InHook
<1>c. \A l \in Locks : NoLocks[l] = NoTs
  BY DEF NoLocks
<1>4. News /\ FileIsNews /\ NothingPublished
  <2>1. News
    BY <1>b DEF News
  <2>2. FileIsNews
    BY <1>b, <1>c DEF FileIsNews
  <2>3. NothingPublished
    BY <1>a, <1>2 DEF NothingPublished
  <2> QED  BY <2>1, <2>2, <2>3
<1>5. EarlyLeader
  <2>1. localFile[leader] = NoLocks
    BY <1>a, <1>2
  <2>2. \A v \in Units : /\ leaderData[v] = NoLocks
                         /\ requests[leader][v] = NoLocks
                         /\ grants[leader][v] = NoLocks
    BY <1>a, <1>2
  <2> QED  BY <1>a, <2>1, <2>2 DEF EarlyLeader
<1>6. OneEach(leaderData) /\ OneEach(grants[leader])
  BY <1>1, <1>2 DEF Init, OneEach, TypeOK
<1>7. LeaderCopy /\ OnRecord
  BY <1>1 DEF Init, LeaderCopy, OnRecord, InHook, TypeOK
<1> QED  BY <1>1, <1>3, <1>4, <1>5, <1>6, <1>7 DEF IInv

LEMMA InvStep == Calm /\ IInv /\ [Next]_vars => IInv'
<1> SUFFICES ASSUME Calm, IInv, [Next]_vars
             PROVE  IInv'
  OBVIOUS
<1>1. TypeOK'
  BY TypeStep DEF IInv
<1>2. ASSUME NEW u \in Units, JoinPeers(u)
      PROVE  IInv'
  BY <1>1, <1>2, JoinKeepsInv
<1>3. ASSUME NEW u \in Units, ChangeLeader(u)
      PROVE  IInv'
  BY <1>1, <1>3, ChangeLeaderKeepsInv
<1>4. ASSUME NEW u \in Units, Depart(u)
      PROVE  IInv'
  BY <1>1, <1>4, DepartKeepsInv
<1>5. ASSUME NEW u \in Units, phase[u] \in {"idle", "failed"}, Start(u)
      PROVE  IInv'
  BY <1>1, <1>5, StartKeepsInv DEF InHook
<1>6. ASSUME NEW u \in Units, NEW l \in Locks, NEW t \in Timestamps, Acquire(u, l, t)
      PROVE  IInv'
  BY <1>1, <1>6, AcquireKeepsInv
<1>7. ASSUME NEW u \in Units, EndBody(u)
      PROVE  IInv'
  BY <1>1, <1>7, EndBodyKeepsInv
<1>8. ASSUME NEW u \in Units, CompleteHook(u)
      PROVE  IInv'
  BY <1>1, <1>8, CompleteKeepsInv
<1>9. ASSUME NEW u \in Units, FailHook(u)
      PROVE  IInv'
  BY <1>1, <1>9, FailKeepsInv
<1>10. CASE UNCHANGED vars
  <2> USE <1>10 DEF vars
  <2>1. \A v \in Units : OwnRequests(v)' = OwnRequests(v)
    BY DEF OwnRequests, HasPeers
  <2>2. Idle' /\ Clock' /\ Told' /\ NothingPublished' /\ EarlyLeader'
    BY DEF IInv, Idle, Clock, Told, NothingPublished, EarlyLeader, InHook
  <2>3. News' /\ FileIsNews'
    BY <2>1 DEF IInv, News, FileIsNews, Fresh, InHook
  <2>4. OneEach(leaderData)' /\ OneEach(grants[leader])'
    BY DEF IInv, OneEach
  <2>5. LeaderCopy' /\ OnRecord'
    BY <2>1 DEF IInv, LeaderCopy, OnRecord, Served, InHook
  <2> QED  BY <1>1, <2>2, <2>3, <2>4, <2>5 DEF IInv
<1> QED  BY <1>2, <1>3, <1>4, <1>5, <1>6, <1>7, <1>8, <1>9, <1>10
         DEF Next, LeaderHook, PeerHook, OtherHook, RetryHook

-----------------------------------------------------------------------------
(* The theorems. *)

(* The invariant holds of every behaviour in a calm environment.           *)
THEOREM Invariance == Calm /\ Spec => []IInv
<1>1. Calm /\ IInv /\ [Next]_vars => IInv'
  BY InvStep
<1> SUFFICES ASSUME Calm
             PROVE  Spec => []IInv
  OBVIOUS
<1>2. IInv /\ [Next]_vars => IInv'
  BY <1>1
<1> QED  BY InvInit, <1>2, PTL DEF Spec

LEMMA InvMutex == IInv => Mutex /\ OneGrantee
<1> SUFFICES ASSUME IInv
             PROVE  Mutex /\ OneGrantee
  OBVIOUS
<1>1. OneGrantee
  BY DEF IInv, OneEach, OneGrantee, GrantedTo
<1>2. ASSUME NEW l \in Locks, NEW u \in Units \ {leader}, l \in holding[u]
      PROVE  leaderData[u][l] # NoTs /\ (InHook(leader) => grants[leader][u][l] # NoTs)
  BY <1>2 DEF IInv, OnRecord, Served, LeaderCopy
<1>3. ASSUME NEW l \in Locks, l \in holding[leader]
      PROVE  InHook(leader) /\ grants[leader][leader][l] # NoTs
  BY <1>3 DEF IInv, TypeOK, Told, Granted, InHook
<1>4. leader \in Units
  BY DEF IInv, TypeOK
<1>5. ASSUME NEW l \in Locks, NEW u \in Units, NEW v \in Units,
             l \in holding[u], l \in holding[v]
      PROVE  u = v
  <2>1. CASE u # leader /\ v # leader
    BY <1>2, <1>5, <2>1 DEF IInv, OneEach
  <2>2. CASE u = leader \/ v = leader
    BY <1>2, <1>3, <1>4, <1>5, <2>2 DEF IInv, OneEach
  <2> QED  BY <2>1, <2>2
<1> QED  BY <1>1, <1>5 DEF Mutex

(* Two units never hold a lock at once, and the record never names two,    *)
(* for any number of units, locks and requests, with failing hooks, moving *)
(* leadership and departing units.                                         *)
THEOREM MutualExclusion == Calm /\ Spec => [](Mutex /\ OneGrantee)
BY Invariance, InvMutex, PTL

(* The leader settings name at most one unit per lock, however leaders of  *)
(* different times decided on different copies of requests and grants.     *)
THEOREM SingleGrantee == Calm /\ Spec => []OneGrantee
BY Invariance, InvMutex, PTL

-----------------------------------------------------------------------------
(* The strengthening of IInv that says what a hook carries through.        *)

(* A hook carries the unit's request on record until it has released it.   *)
Carried ==
  \A u \in Units, l \in Locks :
    InHook(u) /\ OwnRequests(u)[l] # NoTs =>
      \/ requests[u][u][l] = OwnRequests(u)[l]
      \/ /\ phase[u] = "saved"
         /\ requests[u][u][l] = NoTs
         /\ leaderData[u][l] = OwnRequests(u)[l]

(* The leader keeps the grant to itself that it has not used, and what it  *)
(* still requests after it has saved is not granted.                       *)
OwnGrant ==
  \A l \in Locks :
    /\ phase[leader] = "running" /\ Served(leader, l) =>
         grants[leader][leader][l] = leaderData[leader][l]
    /\ phase[leader] = "saved" /\ requests[leader][leader][l] # NoTs =>
         leaderData[leader][l] # requests[leader][leader][l]

RInv == IInv /\ Carried /\ OwnGrant

-----------------------------------------------------------------------------
(* What is on record about the owner and the holder of a lock. *)

members == {u \in Units : phase[u] # "gone"}
waiting(l) == {u \in Units : OwnRequests(u)[l] # NoTs}
owner(l) == {u \in Units : Served(u, l)}
inside(l) == {u \in Units : l \in holding[u]}

(* The steps of the abstract lock, in terms of these sets. *)
LEMMA TurnSteps ==
  ASSUME NEW l \in Locks, NEW u \in Units
  PROVE
    /\ /\ members' = members /\ waiting(l)' = waiting(l)
       /\ owner(l)' = owner(l) /\ inside(l)' = inside(l)
       => UNCHANGED Turn(l)!vars
    /\ /\ u \in members \ waiting(l) /\ waiting(l)' = waiting(l) \union {u}
       /\ members' = members /\ owner(l)' = owner(l) /\ inside(l)' = inside(l)
       => Turn(l)!Request(u)
    /\ /\ owner(l) = {} /\ u \in waiting(l) /\ inside(l) \subseteq {u}
       /\ owner(l)' = {u} /\ inside(l)' = {}
       /\ members' = members /\ waiting(l)' = waiting(l)
       => Turn(l)!Grant(u)
    /\ /\ u \in members /\ inside(l) = {} /\ owner(l) \subseteq {u} /\ inside(l)' = {u}
       /\ members' = members /\ waiting(l)' = waiting(l) /\ owner(l)' = owner(l)
       => Turn(l)!Enter(u)
    /\ /\ inside(l) = {u} /\ inside(l)' = {}
       /\ members' = members /\ waiting(l)' = waiting(l) /\ owner(l)' = owner(l)
       => Turn(l)!Leave(u)
    /\ /\ owner(l) = {u} /\ inside(l) = {} /\ owner(l)' = {}
       /\ waiting(l)' = waiting(l) \ {u}
       /\ members' = members /\ inside(l)' = inside(l)
       => Turn(l)!Release(u)
    /\ /\ u \in members \ inside(l) /\ members' = members \ {u}
       /\ waiting(l)' = waiting(l) \ {u} /\ owner(l)' = owner(l) \ {u}
       /\ inside(l)' = inside(l)
       => Turn(l)!Depart(u)
BY DEF Turn!vars, Turn!Request, Turn!Grant, Turn!Enter, Turn!Leave, Turn!Release,
       Turn!Depart, members, waiting, owner, inside

(* Whoever holds a lock is alone, and no other unit's request is answered. *)
Alone ==
  \A l \in Locks, u \in Units :
    l \in holding[u] => inside(l) = {u} /\ owner(l) \subseteq {u}

LEMMA Holder == IInv => Alone
<1> SUFFICES ASSUME IInv, NEW l \in Locks, NEW u \in Units, l \in holding[u]
             PROVE  inside(l) = {u} /\ owner(l) \subseteq {u}
  BY DEF Alone
<1>1. inside(l) = {u}
  BY InvMutex DEF Mutex, inside
<1>2. ASSUME NEW v \in Units, Served(v, l)
      PROVE  v = u
  <2>1. leaderData[v][l] # NoTs
    BY <1>2 DEF Served
  <2>2. CASE u # leader
    BY <2>1, <2>2 DEF IInv, OnRecord, OneEach, Served
  <2>3. CASE u = leader /\ v # leader
    <3>1. InHook(leader) /\ grants[leader][leader][l] # NoTs
      BY <2>3 DEF IInv, Told, Granted, InHook
    <3>2. grants[leader][v][l] = leaderData[v][l]
      BY <1>2, <2>3, <3>1 DEF IInv, LeaderCopy
    <3> QED  BY <2>1, <2>3, <3>1, <3>2 DEF IInv, OneEach
  <2> QED  BY <2>2, <2>3
<1> QED  BY <1>1, <1>2 DEF owner

(* The record names one owner. *)
LEMMA Owner ==
  ASSUME IInv, NEW l \in Locks, NEW u \in Units, Served(u, l)
  PROVE  owner(l) = {u}
BY DEF IInv, OneEach, Served, owner

(* A follower that is inside is the owner. *)
LEMMA FollowerOwns ==
  ASSUME IInv, NEW l \in Locks, NEW u \in Units \ {leader}, l \in holding[u]
  PROVE  Served(u, l)
BY DEF IInv, OnRecord

-----------------------------------------------------------------------------
(* What the actions leave of the requests and grants on record. *)

(* Nothing but a unit's own hooks and its departure changes its request.   *)
LEMMA JoinEffect ==
  ASSUME TypeOK, NEW u \in Units, JoinPeers(u)
  PROVE  /\ \A v \in Units : OwnRequests(v)' = OwnRequests(v)
         /\ UNCHANGED <<leader, leaderData, phase, requests, grants, holding>>
BY DEF TypeOK, JoinPeers, OwnRequests, HasPeers

LEMMA ChangeLeaderEffect ==
  ASSUME Calm, TypeOK, NEW u \in Units, ChangeLeader(u)
  PROVE  /\ \A v \in Units : OwnRequests(v)' = OwnRequests(v)
         /\ leader' = u /\ ~InHook(u)
         /\ UNCHANGED <<leaderData, phase, requests, grants, holding>>
BY DEF Calm, ChangeLeader, OwnRequests, HasPeers

LEMMA DepartEffect ==
  ASSUME IInv, NEW u \in Units, Depart(u)
  PROVE  /\ phase[u] = "idle" /\ phase'[u] = "gone" /\ holding[u] = {}
         /\ \A l \in Locks : OwnRequests(u)'[l] = NoTs
         /\ \A v \in Units \ {u} : phase'[v] = phase[v] /\ OwnRequests(v)' = OwnRequests(v)
         /\ UNCHANGED <<leader, leaderData, requests, grants, holding>>
<1>1. /\ phase[u] = "idle" /\ phase' = [phase EXCEPT ![u] = "gone"]
      /\ joined' = joined \ {u} /\ published' = published \ {u}
      /\ peerData' = [peerData EXCEPT ![u] = NoLocks]
      /\ localFile' = [localFile EXCEPT ![u] = NoLocks]
      /\ UNCHANGED <<leader, leaderData, requests, grants, holding>>
  BY DEF Depart
<1>2. holding[u] = {}
  BY <1>1 DEF IInv, TypeOK, Told
<1> QED  BY <1>1, <1>2 DEF IInv, TypeOK, Table, OwnRequests, HasPeers, NoLocks

LEMMA StartEffect ==
  ASSUME IInv, NEW u \in Units, ~InHook(u), phase[u] # "gone", Start(u)
  PROVE  /\ \A v \in Units : OwnRequests(v)' = OwnRequests(v)
         /\ phase'[u] = "running" /\ requests'[u][u] = OwnRequests(u)
         /\ holding[u] = {}
         /\ u = leader => \A l \in Locks :
              Served(u, l) => grants'[u][u][l] = leaderData[u][l]
         /\ \A v \in Units \ {u} : /\ phase'[v] = phase[v] /\ requests'[v] = requests[v]
                                   /\ grants'[v] = grants[v] /\ holding'[v] = holding[v]
         /\ UNCHANGED <<leader, leaderData>>
<1> DEFINE r == LoadRequests(u)
           g == IF u = leader THEN Handle(r, leaderData) ELSE leaderData
<1>1. r \in Table /\ r[u] = OwnRequests(u)
  BY LoadType, Loaded DEF IInv
<1>2. u = leader => \A l \in Locks : Served(u, l) => g[u][l] = leaderData[u][l]
  BY <1>1, HandleGrants DEF IInv, TypeOK, Served
<1>3. /\ requests' = [requests EXCEPT ![u] = r]
      /\ grants' = [grants EXCEPT ![u] = g]
      /\ phase' = [phase EXCEPT ![u] = "running"]
      /\ holding' = [holding EXCEPT ![u] = {l \in Locks : Granted(r, g, u, l)}]
      /\ UNCHANGED <<leader, joined, published, peerData, localFile, leaderData>>
  BY DEF Start
<1> HIDE DEF r, g
<1>4. \A v \in Units : OwnRequests(v)' = OwnRequests(v)
  BY <1>3 DEF OwnRequests, HasPeers
<1>5. holding[u] = {}
  BY DEF IInv, TypeOK, Told, InHook
<1> QED  BY <1>1, <1>2, <1>3, <1>4, <1>5 DEF IInv, TypeOK

LEMMA AcquireEffect ==
  ASSUME IInv, NEW u \in Units, NEW k \in Locks, NEW t \in Timestamps, Acquire(u, k, t)
  PROVE  /\ \A v \in Units : OwnRequests(v)' = OwnRequests(v)
         /\ phase[u] = "running"
         /\ \A l \in Locks :
              /\ requests[u][u][l] # NoTs => requests'[u][u][l] = requests[u][u][l]
              /\ grants[u][u][l] # NoTs => grants'[u][u][l] = grants[u][u][l]
         /\ holding'[u] \in {holding[u], holding[u] \union {k}}
         /\ \A v \in Units \ {u} : /\ requests'[v] = requests[v]
                                   /\ grants'[v] = grants[v] /\ holding'[v] = holding[v]
         /\ UNCHANGED <<leader, leaderData, phase>>
<1> DEFINE r == IF requests[u][u][k] # NoTs THEN requests[u]
                ELSE [requests[u] EXCEPT ![u][k] = t]
           first == default_grant(r, grants[u], k, u)
<1>1. /\ phase[u] = "running"
      /\ requests' = [requests EXCEPT ![u] = r]
      /\ grants' = IF u = leader /\ u \notin GrantedTo(grants[u], k) /\ first
                   THEN [grants EXCEPT ![u][u][k] = r[u][k]] ELSE grants
      /\ holding' \in {holding, [holding EXCEPT ![u] = @ \union {k}]}
      /\ UNCHANGED <<leader, joined, published, peerData, localFile, leaderData, phase>>
  BY DEF Acquire
<1>2. \A l \in Locks : requests[u][u][l] # NoTs => r[u][l] = requests[u][u][l]
  BY DEF IInv, TypeOK, Table
<1> HIDE DEF r, first
<1>3. \A v \in Units : OwnRequests(v)' = OwnRequests(v)
  BY <1>1 DEF OwnRequests, HasPeers
<1>4. \A l \in Locks : grants[u][u][l] # NoTs => grants'[u][u][l] = grants[u][u][l]
  BY <1>1 DEF IInv, TypeOK, Table, GrantedTo
<1> QED  BY <1>1, <1>2, <1>3, <1>4 DEF IInv, TypeOK

(* A leader's turn ends with its grants on record, a follower's without.   *)
LEMMA EndBodyEffect ==
  ASSUME IInv, NEW u \in Units, EndBody(u)
  PROVE  /\ phase[u] = "running" /\ phase'[u] = "saved" /\ holding'[u] = {}
         /\ \A l \in Locks :
              requests'[u][u][l] = IF l \in holding[u] THEN NoTs ELSE requests[u][u][l]
         /\ \A l \in Locks : OwnRequests(u)'[l] =
              IF u \in joined THEN OwnRequests(u)[l] ELSE requests'[u][u][l]
         /\ leaderData' = IF u = leader THEN grants[u] ELSE leaderData
         /\ \A v \in Units \ {u} : /\ phase'[v] = phase[v] /\ requests'[v] = requests[v]
                                   /\ holding'[v] = holding[v]
                                   /\ OwnRequests(v)' = OwnRequests(v)
         /\ UNCHANGED <<leader, grants>>
<1> DEFINE mine == Release(requests[u], grants[u], u)
<1>1. /\ phase[u] = "running"
      /\ phase' = [phase EXCEPT ![u] = "saved"]
      /\ requests' = [requests EXCEPT ![u][u] = mine]
      /\ holding' = [holding EXCEPT ![u] = {}]
      /\ leaderData' = IF u = leader THEN grants[u] ELSE leaderData
      /\ localFile' = IF u \in joined THEN localFile ELSE [localFile EXCEPT ![u] = mine]
      /\ UNCHANGED <<leader, joined, published, peerData, grants>>
  BY DEF EndBody, HasPeers
<1>2. \A l \in Locks : mine[l] = IF l \in holding[u] THEN NoTs ELSE requests[u][u][l]
  BY <1>1 DEF IInv, Told, Release
<1> HIDE DEF mine
<1>3. requests'[u][u] = mine /\ \A v \in Units \ {u} : requests'[v] = requests[v]
  BY <1>1 DEF IInv, TypeOK, Table
<1>4. \A v \in Units \ {u} : OwnRequests(v)' = OwnRequests(v)
  BY <1>1 DEF IInv, TypeOK, Table, OwnRequests, HasPeers
<1>5. OwnRequests(u)' = IF u \in joined THEN OwnRequests(u) ELSE mine
  BY <1>1 DEF IInv, TypeOK, Table, OwnRequests, HasPeers
<1> QED  BY <1>1, <1>2, <1>3, <1>4, <1>5 DEF IInv, TypeOK

LEMMA CompleteEffect ==
  ASSUME IInv, NEW u \in Units, CompleteHook(u)
  PROVE  /\ phase[u] = "saved" /\ phase'[u] = "idle"
         /\ holding[u] = {} /\ holding'[u] = {}
         /\ OwnRequests(u)' = IF u \in joined THEN requests[u][u] ELSE OwnRequests(u)
         /\ \A v \in Units \ {u} : /\ phase'[v] = phase[v] /\ requests'[v] = requests[v]
                                   /\ grants'[v] = grants[v] /\ holding'[v] = holding[v]
                                   /\ OwnRequests(v)' = OwnRequests(v)
         /\ UNCHANGED <<leader, leaderData>>
<1>1. /\ phase[u] = "saved" /\ phase' = [phase EXCEPT ![u] = "idle"]
      /\ requests' = [requests EXCEPT ![u] = NoTable]
      /\ grants' = [grants EXCEPT ![u] = NoTable]
      /\ holding' = [holding EXCEPT ![u] = {}]
      /\ UNCHANGED <<leader, joined, localFile, leaderData>>
      /\ u \in joined => /\ peerData' = [peerData EXCEPT ![u] = requests[u][u]]
                         /\ published' = published \union {u}
      /\ u \notin joined => UNCHANGED <<peerData, published>>
  BY DEF CompleteHook, Forget, HasPeers
<1>2. holding[u] = {}
  BY <1>1 DEF IInv, TypeOK, Told
<1>3. /\ OwnRequests(u)' = IF u \in joined THEN requests[u][u] ELSE OwnRequests(u)
      /\ \A v \in Units \ {u} : OwnRequests(v)' = OwnRequests(v)
  BY <1>1 DEF IInv, TypeOK, Table, OwnRequests, HasPeers
<1> QED  BY <1>1, <1>2, <1>3 DEF IInv, TypeOK

LEMMA FailEffect ==
  ASSUME IInv, NEW u \in Units, FailHook(u)
  PROVE  /\ InHook(u) /\ phase'[u] = "failed" /\ holding'[u] = {}
         /\ \A v \in Units : OwnRequests(v)' = OwnRequests(v)
         /\ \A v \in Units \ {u} : /\ phase'[v] = phase[v] /\ requests'[v] = requests[v]
                                   /\ grants'[v] = grants[v] /\ holding'[v] = holding[v]
         /\ UNCHANGED <<leader, leaderData>>
BY DEF FailHook, Forget, IInv, TypeOK, OwnRequests, HasPeers

-----------------------------------------------------------------------------
(* RInv is inductive. *)

LEMMA RInvInit == Init => RInv
BY InvInit DEF Init, RInv, Carried, OwnGrant, InHook, IInv, TypeOK

LEMMA EndBodyKeepsRInv ==
  ASSUME RInv, NEW u \in Units, EndBody(u)
  PROVE  Carried' /\ OwnGrant'
<1> USE DEF RInv
<1>1. IInv /\ leader \in Units
  BY DEF IInv, TypeOK
<1>2. Carried'
  <2> SUFFICES ASSUME NEW v \in Units, NEW l \in Locks,
                      InHook(v)', OwnRequests(v)'[l] # NoTs,
                      requests'[v][v][l] # OwnRequests(v)'[l]
               PROVE  /\ phase'[v] = "saved" /\ requests'[v][v][l] = NoTs
                      /\ leaderData'[v][l] = OwnRequests(v)'[l]
    BY DEF Carried
  <2>1. CASE v = u
    <3>1. u \in joined /\ OwnRequests(u)'[l] = OwnRequests(u)[l]
      BY <1>1, <2>1, EndBodyEffect
    <3>2. requests[u][u][l] = OwnRequests(u)[l]
      BY <1>1, <2>1, <3>1, EndBodyEffect DEF Carried, InHook
    <3>3. l \in holding[u] /\ requests'[u][u][l] = NoTs /\ phase'[u] = "saved"
      BY <1>1, <2>1, <3>1, <3>2, EndBodyEffect
    <3>4. grants[u][u][l] = OwnRequests(u)[l]
      BY <1>1, <3>2, <3>3 DEF IInv, Told, Granted
    <3>5. CASE u = leader
      BY <1>1, <2>1, <3>1, <3>3, <3>4, <3>5, EndBodyEffect
    <3>6. CASE u # leader
      <4>1. leaderData[u][l] = OwnRequests(u)[l]
        BY <1>1, <3>3, <3>6, FollowerOwns DEF Served
      <4> QED  BY <1>1, <2>1, <3>1, <3>3, <3>6, <4>1, EndBodyEffect
    <3> QED  BY <3>5, <3>6
  <2>2. CASE v # u
    <3>1. /\ InHook(v) /\ OwnRequests(v)' = OwnRequests(v) /\ phase'[v] = phase[v]
          /\ requests'[v] = requests[v]
      BY <1>1, <2>2, EndBodyEffect DEF InHook
    <3>2. /\ phase[v] = "saved" /\ requests[v][v][l] = NoTs
          /\ leaderData[v][l] = OwnRequests(v)[l]
      BY <3>1 DEF Carried
    <3>3. u = leader => grants[leader][v][l] = leaderData[v][l]
      BY <1>1, <2>2, <3>1, <3>2, EndBodyEffect DEF IInv, LeaderCopy, Served, InHook
    <3>4. leaderData'[v][l] = leaderData[v][l]
      BY <1>1, <3>3, EndBodyEffect
    <3> QED  BY <3>1, <3>2, <3>4
  <2> QED  BY <2>1, <2>2
<1>3. OwnGrant'
  <2> SUFFICES ASSUME NEW l \in Locks
               PROVE  /\ phase'[leader] = "running" /\ Served(leader, l)' =>
                           grants'[leader][leader][l] = leaderData'[leader][l]
                      /\ phase'[leader] = "saved" /\ requests'[leader][leader][l] # NoTs =>
                           leaderData'[leader][l] # requests'[leader][leader][l]
    BY <1>1, EndBodyEffect DEF OwnGrant
  <2>1. CASE u # leader
    BY <1>1, <2>1, EndBodyEffect DEF OwnGrant, Served
  <2>2. CASE u = leader
    <3>1. requests'[u][u][l] # NoTs => leaderData'[u][l] # requests'[u][u][l]
      BY <1>1, <2>2, EndBodyEffect DEF IInv, Told, Granted
    <3> QED  BY <1>1, <2>2, <3>1, EndBodyEffect
  <2> QED  BY <2>1, <2>2
<1> QED  BY <1>2, <1>3

LEMMA RInvStep == Calm /\ RInv /\ [Next]_vars => RInv'
<1> SUFFICES ASSUME Calm, RInv, [Next]_vars
             PROVE  RInv'
  OBVIOUS
<1> USE DEF RInv
<1>1. IInv /\ IInv' /\ TypeOK /\ leader \in Units
  BY InvStep DEF IInv, TypeOK
<1>2. ASSUME NEW u \in Units, JoinPeers(u)
      PROVE  RInv'
  BY <1>1, <1>2, JoinEffect DEF Carried, OwnGrant, InHook, Served
<1>3. ASSUME NEW u \in Units, ChangeLeader(u)
      PROVE  RInv'
  BY <1>1, <1>3, ChangeLeaderEffect DEF Carried, OwnGrant, InHook, Served
<1>4. ASSUME NEW u \in Units, Depart(u)
      PROVE  RInv'
  BY <1>1, <1>4, DepartEffect DEF Carried, OwnGrant, InHook, Served
<1>5. ASSUME NEW u \in Units, phase[u] \in {"idle", "failed"}, Start(u)
      PROVE  RInv'
  <2>1. ~InHook(u) /\ phase[u] # "gone"
    BY <1>5 DEF InHook
  <2>2. Carried'
    BY <1>1, <1>5, <2>1, StartEffect DEF Carried, InHook
  <2>3. OwnGrant'
    BY <1>1, <1>5, <2>1, StartEffect DEF OwnGrant, Served
  <2> QED  BY <1>1, <2>2, <2>3
<1>6. ASSUME NEW u \in Units, NEW l \in Locks, NEW t \in Timestamps, Acquire(u, l, t)
      PROVE  RInv'
  <2>1. Carried'
    BY <1>1, <1>6, AcquireEffect DEF Carried, InHook
  <2>2. OwnGrant'
    BY <1>1, <1>6, AcquireEffect DEF OwnGrant, Served
  <2> QED  BY <1>1, <2>1, <2>2
<1>7. ASSUME NEW u \in Units, EndBody(u)
      PROVE  RInv'
  BY <1>1, <1>7, EndBodyKeepsRInv
<1>8. ASSUME NEW u \in Units, CompleteHook(u)
      PROVE  RInv'
  BY <1>1, <1>8, CompleteEffect DEF Carried, OwnGrant, InHook, Served
<1>9. ASSUME NEW u \in Units, FailHook(u)
      PROVE  RInv'
  BY <1>1, <1>9, FailEffect DEF Carried, OwnGrant, InHook, Served
<1>10. CASE UNCHANGED vars
  <2>1. \A v \in Units : OwnRequests(v)' = OwnRequests(v)
    BY <1>10 DEF vars, OwnRequests, HasPeers
  <2> QED  BY <1>1, <1>10, <2>1 DEF vars, Carried, OwnGrant, InHook, Served
<1> QED  BY <1>2, <1>3, <1>4, <1>5, <1>6, <1>7, <1>8, <1>9, <1>10
         DEF Next, LeaderHook, PeerHook, OtherHook, RetryHook

-----------------------------------------------------------------------------
(* Each action keeps requests and grants, and is a step of the abstract    *)
(* lock or none.                                                           *)

Kept == RequestKept /\ GrantKept
Turns == \A l \in Locks : [Turn(l)!Next]_(Turn(l)!vars)

(* An action that changes neither the record nor who holds a lock. *)
LEMMA Stutters ==
  ASSUME \A v \in Units : OwnRequests(v)' = OwnRequests(v),
         \A v \in Units : phase'[v] = "gone" <=> phase[v] = "gone",
         UNCHANGED <<leaderData, holding>>
  PROVE  Kept /\ Turns
<1>1. Kept
  BY DEF Kept, RequestKept, GrantKept, Served
<1>2. ASSUME NEW l \in Locks
      PROVE  UNCHANGED Turn(l)!vars
  BY DEF Turn!vars, Served
<1> QED  BY <1>1, <1>2 DEF Turns

LEMMA DepartTurns ==
  ASSUME IInv, NEW u \in Units, Depart(u)
  PROVE  Kept /\ Turns
<1>1. Kept
  BY DepartEffect DEF Kept, RequestKept, GrantKept
<1>2. ASSUME NEW l \in Locks
      PROVE  Turn(l)!Depart(u)
  <2>1. ~Served(u, l)'
    BY DepartEffect DEF Served
  <2>2. /\ u \in members \ inside(l) /\ members' = members \ {u}
        /\ waiting(l)' = waiting(l) \ {u} /\ owner(l)' = owner(l) \ {u}
        /\ inside(l)' = inside(l)
    BY <2>1, DepartEffect DEF members, waiting, owner, inside, Served
  <2> QED  BY <2>2, TurnSteps
<1> QED  BY <1>1, <1>2 DEF Turns, Turn!Next

(* Whoever enters finds nobody else inside or on record. *)
LEMMA EnterTurns ==
  ASSUME IInv', NEW u \in Units, NEW l \in Locks,
         \A v \in Units : OwnRequests(v)' = OwnRequests(v),
         \A v \in Units : phase'[v] = "gone" <=> phase[v] = "gone",
         phase[u] # "gone", leaderData' = leaderData,
         l \in holding'[u] \/ l \notin holding[u],
         \A v \in Units \ {u} : holding'[v] = holding[v]
  PROVE  [Turn(l)!Next]_(Turn(l)!vars)
<1>1. /\ members' = members /\ waiting(l)' = waiting(l) /\ owner(l)' = owner(l)
      /\ u \in members
  BY DEF members, waiting, owner, Served
<1>2. CASE (l \in holding[u]) <=> (l \in holding'[u])
  <2>1. inside(l)' = inside(l)
    BY <1>2 DEF inside
  <2> QED  BY <1>1, <2>1, TurnSteps
<1>3. CASE l \notin holding[u] /\ l \in holding'[u]
  <2>1. inside(l)' = {u} /\ owner(l)' \subseteq {u}
    <3>1. Alone'
      BY Holder, PTL
    <3> QED  BY <1>3, <3>1 DEF Alone
  <2>2. inside(l) = {}
    BY <1>3, <2>1 DEF inside
  <2>3. Turn(l)!Enter(u)
    BY <1>1, <2>1, <2>2, TurnSteps
  <2> QED  BY <2>3 DEF Turn!Next
<1> QED  BY <1>2, <1>3

LEMMA StartTurns ==
  ASSUME IInv, IInv', NEW u \in Units, phase[u] \in {"idle", "failed"}, Start(u)
  PROVE  Kept /\ Turns
<1>1. ~InHook(u) /\ phase[u] # "gone"
  BY DEF InHook
<1>2. Kept
  BY <1>1, StartEffect DEF Kept, RequestKept, GrantKept
<1>3. /\ \A v \in Units : OwnRequests(v)' = OwnRequests(v)
      /\ \A v \in Units : phase'[v] = "gone" <=> phase[v] = "gone"
      /\ holding[u] = {} /\ leaderData' = leaderData
      /\ \A v \in Units \ {u} : holding'[v] = holding[v]
  BY <1>1, StartEffect
<1> QED  BY <1>1, <1>2, <1>3, EnterTurns DEF Turns

LEMMA AcquireTurns ==
  ASSUME IInv, IInv', NEW u \in Units, NEW k \in Locks, NEW t \in Timestamps,
         Acquire(u, k, t)
  PROVE  Kept /\ Turns
<1>1. Kept
  BY AcquireEffect DEF Kept, RequestKept, GrantKept
<1>2. ASSUME NEW l \in Locks
      PROVE  [Turn(l)!Next]_(Turn(l)!vars)
  <2>1. l \in holding'[u] \/ l \notin holding[u]
    BY AcquireEffect
  <2> QED  BY <2>1, AcquireEffect, EnterTurns
<1> QED  BY <1>1, <1>2 DEF Turns

(* The owner who leaves is still on record; a holder without a record was  *)
(* the leader, whose grant to itself comes on record now.                  *)
LEMMA EndBodyTurns ==
  ASSUME RInv, NEW u \in Units, EndBody(u)
  PROVE  Kept /\ Turns
<1>1. IInv /\ leader \in Units /\ u \in members
  BY EndBodyEffect DEF RInv, IInv, TypeOK, members
<1>2. ASSUME NEW l \in Locks, u # leader, u \notin joined, Served(u, l)
      PROVE  FALSE
  <2>1. /\ u \notin published /\ OwnRequests(u)[l] # NoTs
        /\ leaderData[u][l] = OwnRequests(u)[l]
    BY <1>1, <1>2 DEF IInv, TypeOK, Served
  <2>2. leaderData[u][l] < OwnRequests(u)[l]
    BY <1>1, <1>2, <2>1 DEF IInv, FileIsNews, Fresh
  <2>3. leaderData[u][l] \in Nat /\ OwnRequests(u)[l] \in Nat
    BY <1>1, Values DEF IInv
  <2> QED  BY <2>1, <2>2, <2>3
<1>3. ASSUME u = leader
      PROVE  /\ \A l \in Locks : OwnRequests(u)'[l] = OwnRequests(u)[l]
             /\ \A l \in Locks, v \in Units :
                  Served(v, l) => leaderData'[v][l] = leaderData[v][l]
  <2>1. ASSUME NEW l \in Locks, u \notin joined
        PROVE  OwnRequests(u)'[l] = NoTs /\ OwnRequests(u)[l] = NoTs
    <3>1. requests[u][u][l] = grants[u][u][l] /\ OwnRequests(u)[l] = NoTs
      BY <1>1, <1>3, <2>1, EndBodyEffect
         DEF IInv, TypeOK, EarlyLeader, OwnRequests, HasPeers, NoLocks
    <3>2. requests'[u][u][l] = NoTs
      BY <1>1, <3>1, EndBodyEffect DEF IInv, Told, Granted
    <3> QED  BY <1>1, <2>1, <3>1, <3>2, EndBodyEffect
  <2>2. \A l \in Locks : OwnRequests(u)'[l] = OwnRequests(u)[l]
    BY <1>1, <2>1, EndBodyEffect
  <2>3. ASSUME NEW l \in Locks, NEW v \in Units, Served(v, l)
        PROVE  leaderData'[v][l] = leaderData[v][l]
    BY <1>1, <1>3, <2>3, EndBodyEffect DEF RInv, OwnGrant, IInv, LeaderCopy, InHook
  <2> QED  BY <2>2, <2>3
<1>4. Kept
  <2>1. RequestKept
    <3> SUFFICES ASSUME NEW v \in Units, NEW l \in Locks, OwnRequests(v)[l] # NoTs,
                        OwnRequests(v)'[l] # OwnRequests(v)[l]
                 PROVE  FALSE
      BY DEF RequestKept
    <3>1. v = u /\ u # leader /\ u \notin joined
      BY <1>1, <1>3, EndBodyEffect
    <3>2. requests[u][u][l] = OwnRequests(u)[l]
      BY <1>1, <3>1, EndBodyEffect DEF RInv, Carried, InHook
    <3>3. l \in holding[u]
      BY <1>1, <3>1, <3>2, EndBodyEffect
    <3> QED  BY <1>1, <1>2, <3>1, <3>3, FollowerOwns
  <2>2. GrantKept
    BY <1>1, <1>3, EndBodyEffect DEF GrantKept
  <2> QED  BY <2>1, <2>2 DEF Kept
<1>5. ASSUME NEW l \in Locks, u # leader
      PROVE  [Turn(l)!Next]_(Turn(l)!vars)
  <2>1. /\ members' = members
        /\ \A v \in Units \ {u} : /\ OwnRequests(v)' = OwnRequests(v)
                                  /\ Served(v, l)' = Served(v, l)
                                  /\ holding'[v] = holding[v]
        /\ holding'[u] = {}
    BY <1>1, <1>5, EndBodyEffect DEF members, Served
  <2>2. CASE OwnRequests(u)'[l] = OwnRequests(u)[l]
    <3>1. waiting(l)' = waiting(l) /\ owner(l)' = owner(l)
      BY <1>1, <1>5, <2>1, <2>2, EndBodyEffect DEF waiting, owner, Served
    <3>2. CASE l \in holding[u]
      <4>1. inside(l) = {u} /\ inside(l)' = {}
        BY <1>1, <2>1, <3>2, Holder DEF Alone, inside
      <4>2. Turn(l)!Leave(u)
        BY <2>1, <3>1, <4>1, TurnSteps
      <4> QED  BY <4>2 DEF Turn!Next
    <3>3. CASE l \notin holding[u]
      <4>1. inside(l)' = inside(l)
        BY <2>1, <3>3 DEF inside
      <4> QED  BY <2>1, <3>1, <4>1, TurnSteps
    <3> QED  BY <3>2, <3>3
  <2>3. CASE OwnRequests(u)'[l] # OwnRequests(u)[l]
    <3>1. u \notin joined /\ l \notin holding[u]
      BY <1>1, <1>2, <1>5, <2>3, EndBodyEffect, FollowerOwns
    <3>2. OwnRequests(u)[l] = NoTs /\ OwnRequests(u)'[l] = requests[u][u][l]
      BY <1>1, <1>4, <2>3, <3>1, EndBodyEffect DEF RInv, Carried, InHook
    <3>3. requests[u][u][l] # leaderData[u][l]
      <4>1. requests[u][u][l] > leaderData[u][l]
        BY <1>1, <1>5, <2>3, <3>2, EndBodyEffect DEF IInv, News, Fresh, InHook
      <4> QED  BY <1>1, <4>1, Values DEF IInv
    <3>4. waiting(l)' = waiting(l) \union {u} /\ u \notin waiting(l)
      BY <2>1, <2>3, <3>2 DEF waiting
    <3>5. owner(l)' = owner(l)
      BY <1>1, <1>5, <2>1, <3>2, <3>3, EndBodyEffect DEF owner, Served
    <3>6. inside(l)' = inside(l)
      BY <2>1, <3>1 DEF inside
    <3>7. Turn(l)!Request(u)
      BY <1>1, <2>1, <3>4, <3>5, <3>6, TurnSteps
    <3> QED  BY <3>7 DEF Turn!Next
  <2> QED  BY <2>2, <2>3
<1>6. ASSUME NEW l \in Locks, u = leader
      PROVE  [Turn(l)!Next]_(Turn(l)!vars)
  <2>1. /\ members' = members /\ waiting(l)' = waiting(l)
        /\ inside(l)' = inside(l) \ {u}
        /\ \A v \in Units : OwnRequests(v)'[l] = OwnRequests(v)[l]
    BY <1>1, <1>3, <1>6, EndBodyEffect DEF members, waiting, inside
  <2>2. owner(l) \subseteq owner(l)'
    BY <1>3, <1>6, <2>1 DEF owner, Served
  <2>3. ASSUME NEW v \in owner(l)', NEW w \in owner(l)'
        PROVE  v = w
    BY <1>1, <1>6, EndBodyEffect DEF owner, Served, IInv, OneEach
  <2>4. \A v \in owner(l)' : v \in Units /\ v \in waiting(l)
    BY <2>1 DEF owner, waiting, Served
  <2>5. inside(l) \ {u} \subseteq owner(l)
    BY <1>1, <1>6, FollowerOwns DEF inside, owner
  <2>6. ASSUME l \in holding[u], NEW v \in owner(l)'
        PROVE  v = u
    BY <1>1, <1>6, <2>6, EndBodyEffect DEF owner, Served, IInv, Told, Granted, OneEach
  <2>7. ASSUME l \notin holding[u]
        PROVE  inside(l)' = inside(l)
    BY <2>1, <2>7 DEF inside
  <2>8. CASE owner(l)' = owner(l)
    <3>1. CASE l \in holding[u]
      <4>1. inside(l) = {u} /\ inside(l)' = {}
        BY <1>1, <2>1, <3>1, Holder DEF Alone
      <4>2. Turn(l)!Leave(u)
        BY <2>1, <2>8, <4>1, TurnSteps
      <4> QED  BY <4>2 DEF Turn!Next
    <3>2. CASE l \notin holding[u]
      BY <2>1, <2>7, <2>8, <3>2, TurnSteps
    <3> QED  BY <3>1, <3>2
  <2>9. CASE owner(l)' # owner(l)
    <3>1. PICK v \in owner(l)' : v \notin owner(l)
      BY <2>2, <2>9
    <3>2. owner(l)' = {v} /\ owner(l) = {} /\ v \in Units /\ v \in waiting(l)
      BY <2>2, <2>3, <2>4, <3>1
    <3>3. inside(l) \subseteq {v} /\ inside(l)' = {}
      BY <2>1, <2>5, <2>6, <3>1, <3>2 DEF inside
    <3>4. Turn(l)!Grant(v)
      BY <2>1, <3>2, <3>3, TurnSteps
    <3> QED  BY <3>2, <3>4 DEF Turn!Next
  <2> QED  BY <2>8, <2>9
<1> QED  BY <1>4, <1>5, <1>6 DEF Turns

(* A completed hook publishes the unit's new requests, and withdraws those *)
(* that had their turn.                                                    *)
LEMMA CompleteTurns ==
  ASSUME RInv, NEW u \in Units, CompleteHook(u)
  PROVE  Kept /\ Turns
<1>1. IInv /\ leader \in Units /\ u \in members
  BY CompleteEffect DEF RInv, IInv, TypeOK, members
<1>2. /\ leaderData' = leaderData /\ phase[u] = "saved"
      /\ \A v \in Units : holding'[v] = holding[v]
      /\ \A v \in Units \ {u} : OwnRequests(v)' = OwnRequests(v)
  BY <1>1, CompleteEffect
<1>3. ASSUME NEW l \in Locks, OwnRequests(u)'[l] # OwnRequests(u)[l], OwnRequests(u)[l] # NoTs
      PROVE  OwnRequests(u)'[l] = NoTs /\ Served(u, l)
  BY <1>1, <1>3, CompleteEffect DEF RInv, Carried, InHook, Served
<1>4. ASSUME NEW l \in Locks, OwnRequests(u)'[l] # OwnRequests(u)[l], OwnRequests(u)[l] = NoTs
      PROVE  ~Served(u, l)'
  <2>1. OwnRequests(u)'[l] = requests[u][u][l] /\ requests[u][u][l] # NoTs
    BY <1>1, <1>4, CompleteEffect
  <2>2. CASE u = leader
    BY <1>1, <1>2, <2>1, <2>2 DEF RInv, OwnGrant, Served
  <2>3. CASE u # leader
    <3>1. requests[u][u][l] > leaderData[u][l]
      BY <1>1, <1>2, <1>4, <2>1, <2>3 DEF IInv, News, Fresh, InHook
    <3>2. requests[u][u][l] # leaderData[u][l]
      BY <1>1, <3>1, Values DEF IInv
    <3> QED  BY <1>2, <2>1, <3>2 DEF Served
  <2> QED  BY <2>2, <2>3
<1>5. Kept
  BY <1>2, <1>3 DEF Kept, RequestKept, GrantKept, Served
<1>6. ASSUME NEW l \in Locks
      PROVE  [Turn(l)!Next]_(Turn(l)!vars)
  <2>1. members' = members /\ inside(l)' = inside(l) /\ u \notin inside(l)
    BY <1>1, CompleteEffect DEF members, inside
  <2>2. \A v \in Units \ {u} : Served(v, l)' = Served(v, l)
    BY <1>2 DEF Served
  <2>3. CASE OwnRequests(u)'[l] = OwnRequests(u)[l]
    <3>1. waiting(l)' = waiting(l) /\ owner(l)' = owner(l)
      BY <1>2, <2>3 DEF waiting, owner, Served
    <3> QED  BY <2>1, <3>1, TurnSteps
  <2>4. CASE OwnRequests(u)'[l] # OwnRequests(u)[l] /\ OwnRequests(u)[l] # NoTs
    <3>1. owner(l) = {u}
      BY <1>1, <1>3, <2>4, Owner
    <3>2. inside(l) = {}
      BY <1>1, <2>1, <3>1, Holder DEF Alone, inside
    <3>3. waiting(l)' = waiting(l) \ {u}
      BY <1>2, <1>3, <2>4 DEF waiting
    <3>4. owner(l)' = {}
      BY <1>2, <1>3, <2>2, <2>4, <3>1 DEF owner, Served
    <3>5. Turn(l)!Release(u)
      BY <2>1, <3>1, <3>2, <3>3, <3>4, TurnSteps
    <3> QED  BY <3>5 DEF Turn!Next
  <2>5. CASE OwnRequests(u)'[l] # OwnRequests(u)[l] /\ OwnRequests(u)[l] = NoTs
    <3>1. waiting(l)' = waiting(l) \union {u} /\ u \notin waiting(l)
      BY <1>2, <2>5 DEF waiting
    <3>2. owner(l)' = owner(l)
      BY <1>4, <2>2, <2>5 DEF owner, Served
    <3>3. Turn(l)!Request(u)
      BY <1>1, <2>1, <3>1, <3>2, TurnSteps
    <3> QED  BY <3>3 DEF Turn!Next
  <2> QED  BY <2>3, <2>4, <2>5
<1> QED  BY <1>5, <1>6 DEF Turns

LEMMA FailTurns ==
  ASSUME IInv, NEW u \in Units, FailHook(u)
  PROVE  Kept /\ Turns
<1>1. Kept
  BY FailEffect DEF Kept, RequestKept, GrantKept
<1>2. ASSUME NEW l \in Locks
      PROVE  [Turn(l)!Next]_(Turn(l)!vars)
  <2>1. /\ members' = members /\ waiting(l)' = waiting(l) /\ owner(l)' = owner(l)
        /\ inside(l)' = inside(l) \ {u}
    BY FailEffect DEF members, waiting, owner, inside, Served, InHook
  <2>2. CASE l \in holding[u]
    <3>1. Turn(l)!Leave(u)
      BY <2>1, <2>2, Holder, TurnSteps DEF Alone
    <3> QED  BY <3>1 DEF Turn!Next
  <2>3. CASE l \notin holding[u]
    <3>1. inside(l)' = inside(l)
      BY <2>1, <2>3 DEF inside
    <3> QED  BY <2>1, <3>1, TurnSteps
  <2> QED  BY <2>2, <2>3
<1> QED  BY <1>1, <1>2 DEF Turns

LEMMA Step == Calm /\ RInv /\ [Next]_vars => Kept /\ Turns
<1> SUFFICES ASSUME Calm, RInv, [Next]_vars
             PROVE  Kept /\ Turns
  OBVIOUS
<1>1. IInv /\ IInv' /\ TypeOK
  BY InvStep DEF RInv, IInv
<1>2. ASSUME NEW u \in Units, JoinPeers(u)
      PROVE  Kept /\ Turns
  BY <1>1, <1>2, JoinEffect, Stutters
<1>3. ASSUME NEW u \in Units, ChangeLeader(u)
      PROVE  Kept /\ Turns
  BY <1>1, <1>3, ChangeLeaderEffect, Stutters
<1>4. ASSUME NEW u \in Units, Depart(u)
      PROVE  Kept /\ Turns
  BY <1>1, <1>4, DepartTurns
<1>5. ASSUME NEW u \in Units, phase[u] \in {"idle", "failed"}, Start(u)
      PROVE  Kept /\ Turns
  BY <1>1, <1>5, StartTurns
<1>6. ASSUME NEW u \in Units, NEW l \in Locks, NEW t \in Timestamps, Acquire(u, l, t)
      PROVE  Kept /\ Turns
  BY <1>1, <1>6, AcquireTurns
<1>7. ASSUME NEW u \in Units, EndBody(u)
      PROVE  Kept /\ Turns
  BY <1>7, EndBodyTurns
<1>8. ASSUME NEW u \in Units, CompleteHook(u)
      PROVE  Kept /\ Turns
  BY <1>8, CompleteTurns
<1>9. ASSUME NEW u \in Units, FailHook(u)
      PROVE  Kept /\ Turns
  BY <1>1, <1>9, FailTurns
<1>10. CASE UNCHANGED vars
  BY <1>10, Stutters DEF vars, OwnRequests, HasPeers
<1> QED  BY <1>2, <1>3, <1>4, <1>5, <1>6, <1>7, <1>8, <1>9, <1>10
         DEF Next, LeaderHook, PeerHook, OtherHook, RetryHook

-----------------------------------------------------------------------------
(* The theorems. *)

(* The carried requests and the leader's own grants are as RInv says, in   *)
(* every behaviour in a calm environment.                                  *)
THEOREM CarriedInvariance == Calm /\ Spec => []RInv
<1>1. Calm /\ RInv /\ [Next]_vars => RInv'
  BY RInvStep
<1> SUFFICES ASSUME Calm
             PROVE  Spec => []RInv
  OBVIOUS
<1>2. RInv /\ [Next]_vars => RInv'
  BY <1>1
<1> QED  BY RInvInit, <1>2, PTL DEF Spec

(* A request on record stays until the grant that answers it is on record: *)
(* no failed hook, no move from the file to the relation loses it.         *)
THEOREM RequestsAreKept == Calm /\ Spec => RequestNotLost
<1> SUFFICES ASSUME Calm
             PROVE  Spec => RequestNotLost
  OBVIOUS
<1>1. RInv /\ [Next]_vars => [RequestKept]_vars
  BY Step DEF Kept
<1> QED  BY <1>1, CarriedInvariance, PTL DEF Spec, RequestNotLost

(* A grant stays on record as long as the request that it answers.         *)
THEOREM GrantsAreKept == Calm /\ Spec => NoRevocation
<1> SUFFICES ASSUME Calm
             PROVE  Spec => NoRevocation
  OBVIOUS
<1>1. RInv /\ [Next]_vars => [GrantKept]_vars
  BY Step DEF Kept
<1> QED  BY <1>1, CarriedInvariance, PTL DEF Spec, NoRevocation

(* Every lock of the coordinator is the abstract turn-taking lock: its     *)
(* units start as that lock's do, and every step is one of its or none.    *)
THEOREM Refinement == Calm /\ Spec => TakeTurns
<1> SUFFICES ASSUME Calm
             PROVE  Spec => TakeTurns
  OBVIOUS
<1>1. Init => \A l \in Locks : Turn(l)!Init
  BY DEF Init, Turn!Init, OwnRequests, HasPeers, Served, NoTable, NoLocks
<1>2. RInv /\ [Next]_vars => [\A l \in Locks : [Turn(l)!Next]_(Turn(l)!vars)]_vars
  BY Step DEF Turns
<1> QED  BY <1>1, <1>2, CarriedInvariance, PTL DEF Spec, TakeTurns
=============================================================================
