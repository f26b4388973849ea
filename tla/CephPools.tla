---- MODULE CephPools ----
(***************************************************************************)
(* Pools of a Ceph cluster (contrib/storage/linux/ceph.py): a client's     *)
(* request names pools and erasure profiles with their settings; a mon     *)
(* serves it one operation after the other, each by commands to the        *)
(* cluster.  The mon's dispatch of operations is external: create() for a  *)
(* pool it does not find, update() for one it finds, until one fails.      *)
(***************************************************************************)
EXTENDS Integers, FiniteSets, SequencesExt

CONSTANTS
  PoolRequests, \* sequences of operations that clients ask for
  Algorithms,   \* the valid compression algorithms
  PgsPerOSD,    \* the option pgs-per-osd
  ExpectedOSDs, \* the option expected-osd-count, 0 for unset
  MaxOSDs,      \* bound: OSDs of the cluster
  MaxAsks       \* bound: requests of the client

(***************************************************************************)
(* command_fails a command to the cluster fails, and the hook is retried   *)
(* other_request the client asks for other settings of the same pools, or  *)
(*               names a pool twice                                        *)
(* no_osds       a pool is made before there are OSDs                      *)
(* fewer_osds    OSDs leave the cluster                                    *)
(* explicit      an operation gives its number of placement groups         *)
(* over_share    the pools' shares of the data are more than the whole     *)
(***************************************************************************)
PoolHazards ==
  {"command_fails", "other_request", "no_osds", "fewer_osds", "explicit", "over_share"}

VARIABLES
  poolExposed, \* the hazards of this cluster; never changes
  osds,        \* number of OSDs
  pools,       \* by name, the pools and their properties
  profiles,    \* by name, the erasure profiles
  poolAsks,    \* number of requests
  poolAsked,   \* the client's request
  poolServed,  \* whether all of it was done
  poolJob      \* the hook that serves it: operation and commands that are left

poolVars == <<poolExposed, osds, pools, profiles, poolAsks, poolAsked, poolServed, poolJob>>

Spared(hazards) == poolExposed \cap hazards = {}
Idle == poolJob.op = 0
-----------------------------------------------------------------------------
(***************************************************************************)
(* get_pgs: the number of placement groups for a share of the data.        *)
(***************************************************************************)
OSDCount == IF osds > ExpectedOSDs THEN osds ELSE ExpectedOSDs
NearestPower(n) == CHOOSE p \in {2^e : e \in 0..16} : p <= n /\ n < 2 * p

get_pgs_Upwards(size, percent) ==
  LET n == (PgsPerOSD * OSDCount * percent) \div (100 * size)
  IN  IF OSDCount = 0 THEN 200
      ELSE IF n <= 2 THEN 2 ELSE 2 * NearestPower(n)

get_pgs(size, percent) ==
  LET share   == (PgsPerOSD * OSDCount * percent) \div (100 * size)
      n       == IF share < 2 THEN 2 ELSE share
      nearest == NearestPower(n)
  IN  IF OSDCount = 0 THEN 200
      ELSE IF 4 * (n - nearest) > n THEN 2 * nearest ELSE nearest

\* percent_data defaults to 10
Percent(op) == IF op.weight = 0 THEN 10 ELSE op.weight

\* BasePool.validate
Valid(op) == op.compression \in Algorithms \cup {""}
-----------------------------------------------------------------------------
(***************************************************************************)
(* The operations, as sequences of commands.                               *)
(***************************************************************************)
Cmd(do, name, key, value) == [do |-> do, name |-> name, key |-> key, value |-> value]

PoolKeys == {"pgs", "size", "quota", "compression", "ratio", "app", "autoscale", "overwrites"}
NewPool(pgs, size) ==
  [key \in PoolKeys |-> IF key = "pgs" THEN pgs ELSE IF key = "size" THEN size
                        ELSE IF key \in {"quota", "ratio"} THEN 0 ELSE ""]

update_pool(name, key, value) == Cmd("set", name, key, value)

set_quota(op) ==
  IF op.quota = 0 THEN << >> ELSE <<update_pool(op.name, "quota", op.quota)>>

set_compression(op) ==
  IF op.compression = "" THEN << >>
  ELSE <<update_pool(op.name, "compression", op.compression)>>

update(op) == set_quota(op) \o set_compression(op)

\* The application and the autoscaler may fail
_post_create(op) ==
  << update_pool(op.name, "ratio", Percent(op)),
     Cmd("try", op.name, "app", op.app),
     Cmd("try", op.name, "autoscale", "on") >>

\* A pool is made with the default size
ReplicatedPool_create(op) ==
  LET most == get_pgs(op.size, 100)
      pgs  == IF op.pgs = 0 THEN get_pgs(op.size, Percent(op))
              ELSE IF op.pgs < most THEN op.pgs ELSE most
  IN  << Cmd("create", op.name, "pool", NewPool(pgs, 0)), update_pool(op.name, "size", op.size) >>
        \o _post_create(op)

ErasurePool_create(op) ==
  LET size == profiles[op.profile].k + profiles[op.profile].m
  IN  << Cmd("create", op.name, "pool", NewPool(get_pgs(size, Percent(op)), size)) >>
        \o _post_create(op)
        \o (IF op.overwrites THEN <<update_pool(op.name, "overwrites", "on")>> ELSE << >>)

\* What is done for an operation; "raise" is an exception.  A failed listing
\* of the pools or profiles is taken for their absence.
create_erasure_profile(op, found) ==
  IF found THEN << >> ELSE <<Cmd("set-profile", op.name, "profile", [k |-> op.k, m |-> op.m])>>

pool_exists(op, listed) ==
  listed /\ op.name \in (IF op.op = "profile" THEN DOMAIN profiles ELSE DOMAIN pools)

Raise(op) == <<Cmd("raise", op.name, "", "")>>

create(op) ==
  IF op.op = "replicated" THEN ReplicatedPool_create(op) \o update(op)
  ELSE IF op.profile \notin DOMAIN profiles THEN Raise(op)
  ELSE ErasurePool_create(op) \o update(op)

Commands(op, found) ==
  IF op.op = "profile" THEN create_erasure_profile(op, found)
  ELSE IF ~Valid(op) THEN Raise(op)
  ELSE IF found THEN update(op) ELSE create(op)
-----------------------------------------------------------------------------
(***************************************************************************)
(* add_op_create_replicated_pool and _erasure_pool: the latter gives its   *)
(* operation to ErasurePool for a name, so that nothing is validated.      *)
(***************************************************************************)
Accepted(op) == op.op = "replicated" => Valid(op) /\ (op.pgs = 0 \/ op.weight = 0)

Names(request) == {request[i].name : i \in DOMAIN request}

Twice(request) ==
  \E i, j \in DOMAIN request :
    i # j /\ request[i].name = request[j].name /\ (request[i].op = "profile" <=> request[j].op = "profile")

\* The percentages that the pools were made for, and those of a request
Shares(request) ==
  LET new == [i \in DOMAIN request |-> IF request[i].op = "profile" THEN 0 ELSE Percent(request[i])]
  IN  FoldFunction(+, 0, new) + FoldSet(LAMBDA n, sum : sum + pools[n]["ratio"], 0, DOMAIN pools)

add_ops(request) ==
  /\ Idle
  /\ poolAsks < MaxAsks /\ poolAsks' = poolAsks + 1
  /\ \A i \in DOMAIN request : Accepted(request[i])
  /\ (\E i \in DOMAIN request : request[i].op = "replicated" /\ request[i].pgs # 0)
       => "explicit" \in poolExposed
  /\ Twice(request) \/ Names(request) \cap (Names(poolAsked) \cup DOMAIN pools \cup DOMAIN profiles) # {}
       => "other_request" \in poolExposed
  /\ Shares(request) > 100 => "over_share" \in poolExposed
  /\ poolAsked' = request /\ poolServed' = FALSE
  /\ UNCHANGED <<poolExposed, osds, pools, profiles, poolJob>>

PoolInit ==
  /\ poolExposed \in {{}} \cup {{h} : h \in PoolHazards}
  /\ osds \in 0..MaxOSDs /\ (osds = 0 => "no_osds" \in poolExposed)
  /\ pools = << >> /\ profiles = << >>
  /\ poolAsks = 0 /\ poolAsked = << >> /\ poolServed = TRUE
  /\ poolJob = [op |-> 0, todo |-> << >>]

\* OSDs join and leave
osd_joins ==
  /\ osds < MaxOSDs /\ osds' = osds + 1
  /\ UNCHANGED <<poolExposed, pools, profiles, poolAsks, poolAsked, poolServed, poolJob>>
osd_leaves ==
  /\ "fewer_osds" \in poolExposed /\ osds > 1 /\ osds' = osds - 1
  /\ UNCHANGED <<poolExposed, pools, profiles, poolAsks, poolAsked, poolServed, poolJob>>

\* The mon takes up the next operation, or answers that all were done
Take(listed) ==
  /\ ~poolServed /\ poolJob.todo = << >>
  /\ LET next == poolJob.op + 1
         op   == poolAsked[next]
     IN  IF next > Len(poolAsked)
         THEN poolServed' = TRUE /\ poolJob' = [op |-> 0, todo |-> << >>]
         ELSE /\ poolJob' = [op |-> next, todo |-> Commands(op, pool_exists(op, listed))]
              /\ UNCHANGED poolServed
  /\ UNCHANGED <<poolExposed, osds, pools, profiles, poolAsks, poolAsked>>

\* What the cluster does: it leaves a pool that there is, and refuses to
\* override a profile
With(f, name, value) == [n \in DOMAIN f \cup {name} |-> IF n \in DOMAIN f THEN f[n] ELSE value]

Done(c) ==
  \/ c.do = "create" /\ pools' = With(pools, c.name, c.value) /\ UNCHANGED profiles
  \/ c.do = "set-profile" /\ profiles' = With(profiles, c.name, c.value) /\ UNCHANGED pools
  \/ c.do \in {"set", "try"} /\ pools' = [pools EXCEPT ![c.name][c.key] = c.value] /\ UNCHANGED profiles

Refused(c) ==
  \/ c.do = "raise"
  \/ c.do = "set-profile" /\ c.name \in DOMAIN profiles /\ profiles[c.name] # c.value

Command ==
  /\ poolJob.todo # << >>
  /\ LET c == Head(poolJob.todo)
     IN  /\ ~Refused(c)
         /\ Done(c)
         /\ poolJob' = [poolJob EXCEPT !.todo = Tail(@)]
  /\ UNCHANGED <<poolExposed, osds, poolAsks, poolAsked, poolServed>>

\* A failed command ends the hook, but for the two that are tried
Failure ==
  /\ poolJob.todo # << >>
  /\ LET c == Head(poolJob.todo)
     IN  /\ Refused(c) \/ c.do = "try" \/ "command_fails" \in poolExposed
         /\ poolJob' = IF c.do = "try" THEN [poolJob EXCEPT !.todo = Tail(@)]
                       ELSE [op |-> 0, todo |-> << >>]
  /\ UNCHANGED <<poolExposed, osds, pools, profiles, poolAsks, poolAsked, poolServed>>

PoolNext ==
  \/ \E request \in PoolRequests : add_ops(request)
  \/ osd_joins \/ osd_leaves
  \/ \E listed \in BOOLEAN : Take(listed)
  \/ Command \/ Failure

PoolSpec == PoolInit /\ [][PoolNext]_poolVars
-----------------------------------------------------------------------------
AsAsked(op) ==
  /\ op.op = "profile" =>
       op.name \in DOMAIN profiles /\ profiles[op.name] = [k |-> op.k, m |-> op.m]
  /\ op.op # "profile" =>
       /\ op.name \in DOMAIN pools
       /\ pools[op.name]["quota"] = op.quota /\ pools[op.name]["compression"] = op.compression
       /\ pools[op.name]["size"] = IF op.op = "replicated" THEN op.size
                                   ELSE profiles[op.profile].k + profiles[op.profile].m

\* What was reported done is there
DoneAsAsked ==
  Spared({"command_fails", "other_request"}) /\ poolServed =>
    \A i \in DOMAIN poolAsked : AsAsked(poolAsked[i])

\* Placement groups on all OSDs: a rounded share is at most half as much
\* again, and a pool has at least two
PgsInBudget ==
  LET Load(names) ==
        FoldSet(LAMBDA n, sum : sum + 2 * pools[n]["size"] * (pools[n]["pgs"] - 2), 0, names)
  IN  Spared({"command_fails", "no_osds", "fewer_osds", "explicit", "over_share"}) =>
        Load(DOMAIN pools) <= 3 * PgsPerOSD * OSDCount

\* What a mon has reported done is there as asked, whatever the cluster did
\* with the optional settings and whatever was seen of the pools; and pools
\* whose shares are at most the whole never have more than half as many
\* placement groups again as their OSDs are meant for.
PoolsAsAsked == DoneAsAsked /\ PgsInBudget
====
