------------------------------ MODULE CephBroker -------------------------------
(***************************************************************************)
(* charmhelpers/contrib/storage/linux/ceph.py: a unit asks Ceph clusters   *)
(* for pools and permissions by a request on the ceph relation, and learns *)
(* from the answers there that all of it was done.                         *)
(*                                                                         *)
(* One client unit, related to several clusters, each of several mons.     *)
(* The client's charm is the one the source's comment shows: it asks       *)
(* is_request_complete() in each hook, acts once per completed request by  *)
(* means of the broker action marks, and calls send_request_if_needed()    *)
(* otherwise.  How mons answer is theirs; the client only relies on an     *)
(* answer that carries the id of a request being given after it was done.  *)
(***************************************************************************)
EXTENDS Naturals, SequencesExt

CONSTANTS
  Rids,         \* ids of ceph relations, one for each cluster
  MonsOf,       \* MonsOf[r]: number of mons of the cluster on r
  Wishes,       \* sequences of operations the charm may want to have done
  MaxWishes,    \* bound: how many wishes the charm has, and it goes back but once
  Exposures     \* sets of the hazards below, one of which the unit faces

(***************************************************************************)
(* hook_failure  a hook may fail between two steps, and is retried         *)
(* broker_error  Ceph may refuse a request                                 *)
(* several_mons  several mons of a cluster answer                          *)
(* legacy        mons give one answer for all clients, without an id       *)
(* no_relation   hooks ask before there is a ceph relation                 *)
(* same_keys     wishes may differ in what requests are not compared by    *)
(* return        the charm may go back to an earlier wish                  *)
(***************************************************************************)
AllHazards ==
  {"hook_failure", "broker_error", "several_mons", "legacy", "no_relation",
   "same_keys", "return"}

ASSUME BoundsAssumption == MonsOf \in [Rids -> Nat \ {0}] /\ MaxWishes \in Nat
ASSUME ExposuresAssumption == Exposures \subseteq SUBSET AllHazards

VARIABLES
  exposed,      \* the hazards of this unit; never changes
  wishes,       \* history: what the charm wanted, the last one being current
  rids,         \* the ceph relations there are
  sent,         \* sent[r]: the request on relation r, as the mons see it
  work,         \* work[r][m]: the last request that mon m of r took up
  answer,       \* answer[r][m]: what mon m has on r for the client
  holds,        \* holds[r][n]: the operation that pool or key n of r was last set by
  due,          \* relation and mon whose relation-changed hook is due
  hook,         \* the client's hook
  mark,         \* request id that the action's mark is set to in the kv store
  acted         \* history: the request on whose completion the charm last acted

vars == <<exposed, wishes, rids, sent, work, answer, holds, due, hook, mark, acted>>

-----------------------------------------------------------------------------
(* Requests.  An operation has the name of its pool or key, the settings   *)
(* requests are compared by, and the rest of its settings.                 *)

NoRequest == <<>>

(* Each definition whose name ends in an underscore and a remark is the one *)
(* after it with a mistake that could be made in the code; Spec uses none. *)

add_op(ops, op) == IF Contains(ops, op) THEN ops ELSE Append(ops, op)

Request(calls) == FoldLeft(add_op, NoRequest, calls)
want == Last(wishes)

(* _ops_equal(): some of the keys, operation by operation. *)
ops_equal(p, q) ==
  /\ Len(p) = Len(q)
  /\ \A i \in DOMAIN p : p[i].name = q[i].name /\ p[i].settings = q[i].settings

(* The hash of the operations, which stands for them. *)
request_id(rq) == rq

Requests == {Request(calls) : calls \in Wishes}
Names == UNION {{rq[i].name : i \in DOMAIN rq} : rq \in Requests}

(* Of several operations on a pool or key, the last one counts. *)
Concerns(rq, n) == {i \in DOMAIN rq : rq[i].name = n}
LastOp(rq, n) == rq[Max(Concerns(rq, n))]
Holds(r, rq) == \A n \in Names : Concerns(rq, n) # {} => holds[r][n] = LastOp(rq, n)

Mons(r) == 1..MonsOf[r]
mons(r) == IF "several_mons" \in exposed THEN Mons(r) ELSE {1}
NoLink == <<>>

(* Answers: to this unit, or the broker_rsp of old, which has no id. *)
NoId == NoRequest
AnswerOf(kind, id, ok) == [kind |-> kind, id |-> id, ok |-> ok]
NoAnswer == AnswerOf("none", NoId, FALSE)
Targeted(a) == a.kind = "unit"

Idle == [phase |-> "idle", on |-> NoLink, rsp |-> NoAnswer,
         complete |-> FALSE, send |-> FALSE]
NoWork == [rq |-> NoRequest, ok |-> FALSE, busy |-> FALSE]

-----------------------------------------------------------------------------
(* What the client reads on the relations. *)

complete_for_rid_AnyAnswer(rq, r) ==
  \E m \in mons(r) : answer[r][m].ok

(* is_request_complete_for_rid(): one answer will do. *)
complete_for_rid(rq, r) ==
  \E m \in mons(r) :
    /\ answer[r][m].ok
    /\ Targeted(answer[r][m]) => answer[r][m].id = request_id(rq)

(* get_request_states(): completeness is that of the request on the relation. *)
Equivalent(rq, r) == sent[r] # NoRequest /\ ops_equal(rq, sent[r])

is_request_sent(rq) == \A r \in rids : Equivalent(rq, r)

is_request_complete(rq) ==
  \A r \in rids : Equivalent(rq, r) /\ complete_for_rid(sent[r], r)

is_broker_action_done_Ever(rsp) == Targeted(rsp) /\ mark # NoId

is_broker_action_done(rsp) == Targeted(rsp) /\ mark = rsp.id

mark_broker_action_done_Never(rsp) == mark

(* mark_broker_action_done(): nothing without an answer to this unit. *)
mark_broker_action_done(rsp) == IF Targeted(rsp) THEN rsp.id ELSE mark

-----------------------------------------------------------------------------
Init ==
  /\ exposed \in Exposures
  /\ wishes \in {<<rq>> : rq \in Requests}
  /\ rids = {}
  /\ sent = [r \in Rids |-> NoRequest]
  /\ work = [r \in Rids |-> [m \in Mons(r) |-> NoWork]]
  /\ answer = [r \in Rids |-> [m \in Mons(r) |-> NoAnswer]]
  /\ holds = [r \in Rids |-> [n \in Names |-> NoRequest]]
  /\ due = {}
  /\ hook = Idle
  /\ mark = NoId
  /\ acted = NoRequest

(* The configuration changes, between two hooks. *)
ChangeWish(rq) ==
  /\ hook = Idle
  /\ \/ ~Contains(wishes, rq) /\ Len(wishes) < MaxWishes
     \/ /\ "return" \in exposed
        /\ rq # want /\ Contains(wishes, rq) /\ Len(wishes) <= MaxWishes
  /\ \/ \A w \in ToSet(wishes) : ops_equal(rq, w) => rq = w
     \/ "same_keys" \in exposed
  /\ wishes' = Append(wishes, rq)
  /\ UNCHANGED <<exposed, rids, sent, work, answer, holds, due, hook, mark, acted>>

(* The client is related to one more cluster, whose mons appear. *)
AddRelation(r) ==
  /\ hook = Idle
  /\ r \notin rids
  /\ rids' = rids \union {r}
  /\ due' = due \union ({r} \X mons(r))
  /\ UNCHANGED <<exposed, wishes, sent, work, answer, holds, hook, mark, acted>>

(* A mon does what the request on the relation says, or refuses, *)
TakeUp(r, m) ==
  /\ m \in mons(r)
  /\ ~work[r][m].busy
  /\ sent[r] \notin {NoRequest, work[r][m].rq}
  /\ \E ok \in {TRUE} \union {"broker_error" \notin exposed} :
       /\ work' = [work EXCEPT ![r][m] = [rq |-> sent[r], ok |-> ok, busy |-> TRUE]]
       /\ holds' = IF ~ok THEN holds
                   ELSE [holds EXCEPT ![r] =
                        [n \in Names |-> IF Concerns(sent[r], n) = {} THEN @[n]
                                         ELSE LastOp(sent[r], n)]]
  /\ UNCHANGED <<exposed, wishes, rids, sent, answer, due, hook, mark, acted>>

(* and answers in its own time.  The client is due a relation-changed hook *)
(* if that makes a difference to what the mon has on the relation.         *)
Answer(r, m) ==
  LET rsp == IF "legacy" \in exposed THEN AnswerOf("legacy", NoId, work[r][m].ok)
             ELSE AnswerOf("unit", request_id(work[r][m].rq), work[r][m].ok)
  IN  /\ work[r][m].busy
      /\ work' = [work EXCEPT ![r][m].busy = FALSE]
      /\ answer' = [answer EXCEPT ![r][m] = rsp]
      /\ due' = IF answer' = answer THEN due ELSE due \union {<<r, m>>}
      /\ UNCHANGED <<exposed, wishes, rids, sent, holds, hook, mark, acted>>

-----------------------------------------------------------------------------
(* The client's hooks. *)

(* is_request_complete(), and what follows from it.  The hook may be about *)
(* a mon or not, and only one that is can see to the action.  What a hook  *)
(* reads on a relation stays as it is until the hook ends.                 *)
Decide(on) ==
  LET complete == is_request_complete(want)
      rsp == IF on = NoLink THEN NoAnswer ELSE answer[on[1]][on[2]]
      act == complete /\ on # NoLink /\ ~is_broker_action_done(rsp)
  IN  /\ hook' = [phase |-> IF act THEN "acting" ELSE "decided", on |-> on,
                  rsp |-> rsp, complete |-> complete,
                  send |-> ~complete /\ ~is_request_sent(want)]
      /\ UNCHANGED <<exposed, wishes, rids, sent, work, answer, holds, mark, acted>>

RelationChanged(r, m) ==
  /\ hook = Idle
  /\ <<r, m>> \in due
  /\ due' = due \ {<<r, m>>}
  /\ Decide(<<r, m>>)

(* config-changed, update-status and the like. *)
OtherHook ==
  /\ hook = Idle
  /\ rids = {} => "no_relation" \in exposed
  /\ Decide(NoLink)
  /\ UNCHANGED due

RetryHook ==
  /\ hook.phase = "failed"
  /\ Decide(hook.on)
  /\ UNCHANGED due

(* The action, say, the restart of a service, *)
Act ==
  /\ hook.phase = "acting"
  /\ hook' = [hook EXCEPT !.phase = "marking"]
  /\ acted' = want
  /\ UNCHANGED <<exposed, wishes, rids, sent, work, answer, holds, due, mark>>

(* and its mark, which is flushed at once. *)
Mark ==
  /\ hook.phase = "marking"
  /\ hook' = [hook EXCEPT !.phase = "decided"]
  /\ mark' = mark_broker_action_done(hook.rsp)
  /\ UNCHANGED <<exposed, wishes, rids, sent, work, answer, holds, due, acted>>

(* Relation settings become visible when the hook completes. *)
CompleteHook ==
  /\ hook.phase = "decided"
  /\ hook' = Idle
  /\ sent' = IF hook.send THEN [r \in Rids |-> IF r \in rids THEN want ELSE sent[r]]
             ELSE sent
  /\ UNCHANGED <<exposed, wishes, rids, work, answer, holds, due, mark, acted>>

FailHook ==
  /\ "hook_failure" \in exposed
  /\ hook.phase \in {"acting", "marking", "decided"}
  /\ hook' = [Idle EXCEPT !.phase = "failed", !.on = hook.on]
  /\ UNCHANGED <<exposed, wishes, rids, sent, work, answer, holds, due, mark, acted>>

-----------------------------------------------------------------------------
HookStep == RetryHook \/ Act \/ Mark \/ CompleteHook

Next ==
  \/ \E rq \in Requests : ChangeWish(rq)
  \/ \E r \in Rids :
       \/ AddRelation(r)
       \/ \E m \in Mons(r) : TakeUp(r, m) \/ Answer(r, m) \/ RelationChanged(r, m)
  \/ OtherHook
  \/ HookStep
  \/ FailHook

Spec == Init /\ [][Next]_vars

(* Mons take requests up and answer them; hooks that are due are run,      *)
(* update-status again and again; and a failing hook is repaired in the end. *)
Fairness ==
  /\ \A r \in Rids : \A m \in Mons(r) :
       /\ WF_vars(TakeUp(r, m) \/ Answer(r, m))
       /\ SF_vars(RelationChanged(r, m))
  /\ SF_vars(OtherHook)
  /\ WF_vars(HookStep)
  /\ <>[][~FailHook]_vars

FairSpec == Spec /\ Fairness

-----------------------------------------------------------------------------
(* Properties, stated for the hazards they hold under. *)

Spared(hazards) == exposed \intersect hazards = {}

(* When is_request_complete() says so, every cluster is as the charm now   *)
(* wants it: no late answer, no answer to an earlier request, and none of  *)
(* another cluster is taken for the answer.                                *)
CompleteIsTrue ==
  Spared({"legacy", "no_relation", "same_keys", "return"}) =>
    (hook.complete => rids # {} /\ \A r \in rids : Holds(r, want))

(* The marks keep the action from being done again on a request's          *)
(* completion, although each cluster answers on its own.                   *)
ActOnce ==
  Spared({"several_mons", "hook_failure", "legacy", "same_keys"}) =>
    (hook.phase = "acting" => acted # want)

(* In the end all clusters, early or late related, are as the charm wants, *)
(* and the charm has acted on that: no mark left by an earlier request     *)
(* stands in the way.  Nor is it missed, unless there is nothing new in    *)
(* the answer: to a request made before, or without an id, for which Juju  *)
(* runs no hook.                                                           *)
ActedUpon ==
  /\ Spared({"broker_error", "same_keys"}) =>
       <>[](\A r \in rids : Holds(r, want))
  /\ Spared({"broker_error", "same_keys", "legacy", "return"}) =>
       <>[](rids # {} => acted = want)
=============================================================================
