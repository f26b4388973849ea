--------------------------- MODULE CephBrokerProofs ---------------------------
(* Theorems about the conversation with Ceph's broker, for any clusters,   *)
(* any number of mons and any requests a charm may make.                   *)
EXTENDS CephBroker, TLAPS

-----------------------------------------------------------------------------
Asked == Requests \union {NoRequest}
Links == Rids \X Nat
Phases == {"idle", "acting", "marking", "decided", "failed"}
Works == [rq : Asked, ok : BOOLEAN, busy : BOOLEAN]
Answers == [kind : {"none", "unit", "legacy"}, id : Asked, ok : BOOLEAN]
Hooks ==
  [phase : Phases, on : Links \union {NoLink}, rsp : Answers, complete : BOOLEAN,
   send : BOOLEAN]

(* The relations there are, with the mons that take part. *)
Linked(l) == l[1] \in rids /\ l[2] \in mons(l[1])

TypeOK ==
  /\ exposed \in Exposures
  /\ wishes \in Seq(Requests) /\ wishes # <<>>
  /\ rids \in SUBSET Rids
  /\ sent \in [Rids -> Asked]
  /\ DOMAIN work = Rids /\ \A r \in Rids : work[r] \in [Mons(r) -> Works]
  /\ DOMAIN answer = Rids /\ \A r \in Rids : answer[r] \in [Mons(r) -> Answers]
  /\ DOMAIN holds = Rids /\ \A r \in Rids : DOMAIN holds[r] = Names
  /\ due \in SUBSET Links
  /\ hook \in Hooks
  /\ hook.phase = "idle" => hook = Idle
  /\ mark \in Asked
  /\ acted \in Asked

(* Nothing is asked, done or due where there is no relation. *)
Related ==
  /\ \A l \in due : Linked(l)
  /\ hook.on # NoLink => Linked(hook.on)
  /\ \A r \in Rids : sent[r] # NoRequest => r \in rids
  /\ \A r \in Rids : \A m \in Mons(r) : work[r][m].busy => Linked(<<r, m>>)
  /\ Spared({"no_relation"}) /\ hook.phase # "idle" => rids # {}

(* What is on a relation was wished, and the comparison tells wishes apart. *)
Wished ==
  /\ \A r \in Rids : sent[r] # NoRequest => \E i \in 1..Len(wishes) : sent[r] = wishes[i]
  /\ Spared({"same_keys"}) =>
       \A i \in 1..Len(wishes) : \A j \in 1..i :
         ops_equal(wishes[i], wishes[j]) => wishes[i] = wishes[j]

(* Each wish is sent once; mons took up that request, or one before it.    *)
Upto(rq, i) == rq = NoRequest \/ \E j \in 1..i : rq = wishes[j]
Reached(r, i) ==
  /\ IF i = 0 THEN sent[r] = NoRequest ELSE sent[r] = wishes[i]
  /\ \A m \in Mons(r) : Upto(work[r][m].rq, i) /\ Upto(answer[r][m].id, i)

InOrder ==
  Spared({"return"}) =>
    /\ \A i, j \in 1..Len(wishes) : i # j => wishes[i] # wishes[j]
    /\ \A r \in Rids : \E i \in 0..Len(wishes) : Reached(r, i)

(* A request that a mon has granted is in effect while it is on the relation. *)
Granted(r, m) ==
  \/ work[r][m].ok /\ work[r][m].rq = sent[r]
  \/ answer[r][m].ok /\ Targeted(answer[r][m]) /\ answer[r][m].id = sent[r]
InEffect ==
  Spared({"return"}) =>
    \A r \in Rids : \A m \in Mons(r) : Granted(r, m) => Holds(r, sent[r])

(* Only mons of old grant a request without naming it. *)
Named ==
  Spared({"legacy"}) =>
    \A r \in Rids : \A m \in Mons(r) : answer[r][m].ok => Targeted(answer[r][m])

(* A hook that found the request complete may rely on it. *)
Complete ==
  Spared({"legacy", "no_relation", "same_keys", "return"}) =>
    (hook.complete =>
       rids # {} /\ \A r \in rids : sent[r] = want /\ Holds(r, want))

(* The mark is the request acted upon, unless it is just about to be. *)
Marked ==
  Spared({"several_mons", "hook_failure", "legacy", "same_keys"}) =>
    /\ hook.phase # "failed"
    /\ hook.phase \in {"acting", "marking"} => Targeted(hook.rsp)
    /\ hook.phase = "acting" => hook.rsp.id = want /\ mark # want
    /\ hook.phase = "marking" => hook.rsp.id = acted
    /\ hook.phase # "marking" => mark = acted

IInv ==
  /\ TypeOK
  /\ Related
  /\ Wished
  /\ InOrder
  /\ InEffect
  /\ Named
  /\ Complete
  /\ Marked

-----------------------------------------------------------------------------
(* Requests are compared, kept and carried out, but never taken apart here. *)

LEMMA WishTypes ==
  ASSUME TypeOK
  PROVE  /\ Len(wishes) \in Nat /\ Len(wishes) >= 1
         /\ want = wishes[Len(wishes)] /\ want \in Requests
         /\ \A i \in 1..Len(wishes) : wishes[i] \in Requests
<1>1. wishes \in Seq(Requests) /\ wishes # <<>>
  BY DEF TypeOK
<1>2. Len(wishes) \in Nat /\ Len(wishes) >= 1
  BY <1>1
<1>3. \A i \in 1..Len(wishes) : wishes[i] \in Requests
  BY <1>1
<1> QED  BY <1>2, <1>3 DEF want, Last

LEMMA NothingAsked ==
  ASSUME NEW r
  PROVE  Holds(r, NoRequest)
BY DEF Holds, Concerns, NoRequest

LEMMA MonTypes ==
  /\ \A r \in Rids : Mons(r) \subseteq Nat /\ mons(r) \subseteq Mons(r) /\ mons(r) # {}
  /\ Spared({"several_mons"}) => \A r : mons(r) = {1}
<1>1. \A r \in Rids : MonsOf[r] \in Nat /\ MonsOf[r] >= 1
  BY BoundsAssumption
<1> QED  BY <1>1 DEF Mons, mons, Spared

LEMMA HookTypes ==
  ASSUME TypeOK
  PROVE  /\ hook.phase \in Phases /\ hook.rsp \in Answers /\ hook.complete \in BOOLEAN
         /\ hook.send \in BOOLEAN /\ hook.on \in Links \union {NoLink}
         /\ Idle \in Hooks /\ Idle.phase = "idle" /\ Idle.on = NoLink
         /\ Idle.complete = FALSE /\ Idle.send = FALSE
         /\ NoAnswer \in Answers /\ NoAnswer.ok = FALSE /\ NoAnswer.id = NoRequest
         /\ NoAnswer.kind = "none"
BY DEF TypeOK, Hooks, Idle, Phases, Answers, NoAnswer, AnswerOf, NoId, Asked

LEMMA Cases ==
  ASSUME Next
  PROVE  \/ \E rq \in Requests : ChangeWish(rq)
         \/ \E r \in Rids : AddRelation(r)
         \/ \E r \in Rids : \E m \in Mons(r) :
              TakeUp(r, m) \/ Answer(r, m) \/ RelationChanged(r, m)
         \/ OtherHook \/ RetryHook \/ Act \/ Mark \/ CompleteHook \/ FailHook
BY DEF Next, HookStep

-----------------------------------------------------------------------------
(* What the steps do to the entries of a relation and of a mon. *)

LEMMA TakenUp ==
  ASSUME TypeOK, NEW r \in Rids, NEW m \in Mons(r), TakeUp(r, m)
  PROVE  /\ work'[r][m] \in Works /\ work'[r][m].rq = sent[r]
         /\ \A q \in Rids : \A n \in Mons(q) :
              q # r \/ n # m => work'[q][n] = work[q][n]
         /\ work'[r][m].ok => Holds(r, sent[r])'
         /\ Holds(r, sent[r]) => Holds(r, sent[r])'
         /\ \A q \in Rids : q # r => holds'[q] = holds[q]
         /\ DOMAIN work' = Rids /\ \A q \in Rids : DOMAIN work'[q] = DOMAIN work[q]
         /\ DOMAIN holds' = Rids /\ \A q \in Rids : DOMAIN holds'[q] = Names
<1>0. PICK ok \in {TRUE} \union {"broker_error" \notin exposed} :
        /\ work' = [work EXCEPT ![r][m] = [rq |-> sent[r], ok |-> ok, busy |-> TRUE]]
        /\ holds' = IF ~ok THEN holds
                    ELSE [holds EXCEPT ![r] =
                            [n \in Names |-> IF Concerns(sent[r], n) = {} THEN @[n]
                                             ELSE LastOp(sent[r], n)]]
  BY DEF TakeUp
<1> DEFINE new == [rq |-> sent[r], ok |-> ok, busy |-> TRUE]
<1>1. ok \in BOOLEAN /\ sent[r] \in Asked /\ UNCHANGED sent
  BY DEF TypeOK, TakeUp
<1>2. new \in Works /\ new.rq = sent[r] /\ new.ok = ok
  BY <1>1 DEF Works
<1>3. work' = [work EXCEPT ![r][m] = new]
  BY <1>0
<1> HIDE DEF new
<1>4. /\ work'[r][m] = new
      /\ \A q \in Rids : \A n \in Mons(q) : q # r \/ n # m => work'[q][n] = work[q][n]
      /\ DOMAIN work' = Rids /\ \A q \in Rids : DOMAIN work'[q] = DOMAIN work[q]
  BY <1>3 DEF TypeOK
<1>5. CASE ok
  <2>1. \A n \in Names : holds'[r][n] = IF Concerns(sent[r], n) = {} THEN holds[r][n]
                                        ELSE LastOp(sent[r], n)
    BY <1>0, <1>5 DEF TypeOK
  <2>2. \A q \in Rids : q # r => holds'[q] = holds[q]
    BY <1>0, <1>5 DEF TypeOK
  <2>3. DOMAIN holds' = Rids /\ \A q \in Rids : DOMAIN holds'[q] = Names
    BY <1>0, <1>5 DEF TypeOK
  <2>4. Holds(r, sent[r])'
    BY <1>1, <2>1 DEF Holds
  <2> QED  BY <1>2, <1>4, <2>2, <2>3, <2>4
<1>6. CASE ~ok
  <2>1. holds' = holds
    BY <1>0, <1>6
  <2> QED  BY <1>1, <1>2, <1>4, <1>6, <2>1 DEF Holds, TypeOK
<1> QED  BY <1>1, <1>5, <1>6

LEMMA Answered ==
  ASSUME TypeOK, NEW r \in Rids, NEW m \in Mons(r), Answer(r, m)
  PROVE  /\ work'[r][m] \in Works /\ work'[r][m].rq = work[r][m].rq
         /\ work'[r][m].ok = work[r][m].ok /\ ~work'[r][m].busy
         /\ answer'[r][m] \in Answers /\ answer'[r][m].ok = work[r][m].ok
         /\ answer'[r][m].id \in {work[r][m].rq, NoRequest}
         /\ Targeted(answer[r][m])' => answer'[r][m].id = work[r][m].rq
         /\ Spared({"legacy"}) => Targeted(answer[r][m])'
         /\ \A q \in Rids : \A n \in Mons(q) :
              q # r \/ n # m => work'[q][n] = work[q][n] /\ answer'[q][n] = answer[q][n]
         /\ DOMAIN work' = Rids /\ \A q \in Rids : DOMAIN work'[q] = DOMAIN work[q]
         /\ DOMAIN answer' = Rids /\ \A q \in Rids : DOMAIN answer'[q] = DOMAIN answer[q]
<1> DEFINE rsp == IF "legacy" \in exposed THEN AnswerOf("legacy", NoId, work[r][m].ok)
                  ELSE AnswerOf("unit", request_id(work[r][m].rq), work[r][m].ok)
<1>0. /\ work' = [work EXCEPT ![r][m].busy = FALSE]
      /\ answer' = [answer EXCEPT ![r][m] = rsp]
  BY DEF Answer
<1>1. work[r][m] \in Works
  BY DEF TypeOK
<1>2. /\ rsp \in Answers /\ rsp.ok = work[r][m].ok /\ rsp.id \in {work[r][m].rq, NoRequest}
      /\ rsp.kind = "unit" => rsp.id = work[r][m].rq
      /\ "legacy" \notin exposed => rsp.kind = "unit"
  BY <1>1 DEF Works, Answers, AnswerOf, NoId, Asked, request_id
<1> HIDE DEF rsp
<1>3. /\ answer'[r][m] = rsp
      /\ \A q \in Rids : \A n \in Mons(q) : q # r \/ n # m => answer'[q][n] = answer[q][n]
      /\ DOMAIN answer' = Rids /\ \A q \in Rids : DOMAIN answer'[q] = DOMAIN answer[q]
  BY <1>0 DEF TypeOK
<1>4. /\ work'[r][m] = [work[r][m] EXCEPT !.busy = FALSE]
      /\ \A q \in Rids : \A n \in Mons(q) : q # r \/ n # m => work'[q][n] = work[q][n]
      /\ DOMAIN work' = Rids /\ \A q \in Rids : DOMAIN work'[q] = DOMAIN work[q]
  BY <1>0 DEF TypeOK
<1>5. /\ work'[r][m] \in Works /\ work'[r][m].rq = work[r][m].rq
      /\ work'[r][m].ok = work[r][m].ok /\ work'[r][m].busy = FALSE
  BY <1>1, <1>4 DEF Works
<1>6. Targeted(answer[r][m])' <=> rsp.kind = "unit"
  BY <1>3 DEF Targeted
<1> QED  BY <1>2, <1>3, <1>4, <1>5, <1>6 DEF Spared

LEMMA Decided ==
  ASSUME TypeOK, NEW on \in Links \union {NoLink}, on # NoLink => Linked(on), Decide(on)
  PROVE  /\ hook' \in Hooks /\ hook'.phase \in {"acting", "decided"} /\ hook'.on = on
         /\ hook'.rsp = IF on = NoLink THEN NoAnswer ELSE answer[on[1]][on[2]]
         /\ hook'.complete = is_request_complete(want)
         /\ hook'.phase = "acting" =>
              hook'.complete /\ on # NoLink /\ ~is_broker_action_done(hook'.rsp)
         /\ UNCHANGED <<exposed, wishes, rids, sent, work, answer, holds, mark, acted>>
<1> DEFINE complete == is_request_complete(want)
           rsp == IF on = NoLink THEN NoAnswer ELSE answer[on[1]][on[2]]
           act == complete /\ on # NoLink /\ ~is_broker_action_done(rsp)
<1>1. hook' = [phase |-> IF act THEN "acting" ELSE "decided", on |-> on,
               rsp |-> rsp, complete |-> complete,
               send |-> ~complete /\ ~is_request_sent(want)]
      /\ UNCHANGED <<exposed, wishes, rids, sent, work, answer, holds, mark, acted>>
  BY DEF Decide
<1>2. complete \in BOOLEAN /\ is_request_sent(want) \in BOOLEAN
  BY DEF is_request_complete, is_request_sent
<1>3. rsp \in Answers
  <2>1. CASE on = NoLink
    BY <2>1, HookTypes
  <2>2. CASE on # NoLink
    <3>1. on[1] \in Rids /\ on[2] \in Mons(on[1])
      BY <2>2, MonTypes DEF Linked, TypeOK
    <3> QED  BY <2>2, <3>1 DEF TypeOK
  <2> QED  BY <2>1, <2>2
<1> HIDE DEF complete, rsp
<1>4. hook' \in Hooks
  BY <1>1, <1>2, <1>3 DEF Hooks, Phases
<1>5. hook'.complete = complete /\ hook'.rsp = rsp /\ hook'.on = on
      /\ hook'.phase = IF act THEN "acting" ELSE "decided"
  BY <1>1
<1> QED  BY <1>1, <1>4, <1>5 DEF complete, rsp

(* A wish is the last one from then on. *)
LEMMA Wishing ==
  ASSUME TypeOK, NEW rq \in Requests, ChangeWish(rq)
  PROVE  /\ wishes' \in Seq(Requests) /\ wishes' # <<>>
         /\ Len(wishes') = Len(wishes) + 1
         /\ \A i \in 1..Len(wishes) : wishes'[i] = wishes[i]
         /\ wishes'[Len(wishes) + 1] = rq
         /\ Spared({"return"}) => \A i \in 1..Len(wishes) : rq # wishes[i]
         /\ Spared({"same_keys"}) =>
              \A i \in 1..Len(wishes) : ops_equal(rq, wishes[i]) => rq = wishes[i]
         /\ hook = Idle
         /\ UNCHANGED <<exposed, rids, sent, work, answer, holds, due, hook, mark, acted>>
<1>1. wishes \in Seq(Requests) /\ wishes # <<>> /\ wishes' = Append(wishes, rq)
  BY DEF TypeOK, ChangeWish
<1>2. /\ wishes' \in Seq(Requests) /\ wishes' # <<>>
      /\ Len(wishes') = Len(wishes) + 1
      /\ \A i \in 1..Len(wishes) : wishes'[i] = wishes[i]
      /\ wishes'[Len(wishes) + 1] = rq
  BY <1>1
<1>3. \A i \in 1..Len(wishes) : wishes[i] \in ToSet(wishes)
  BY <1>1 DEF ToSet
<1>4. Contains(wishes, rq) <=> \E i \in 1..Len(wishes) : wishes[i] = rq
  BY <1>1 DEF Contains
<1> QED  BY <1>2, <1>3, <1>4 DEF ChangeWish, Spared

LEMMA TypeInit == Init => TypeOK
<1> SUFFICES ASSUME Init
             PROVE  TypeOK
  OBVIOUS
<1>1. PICK rq \in Requests : wishes = <<rq>>
  BY DEF Init
<1>2. wishes \in Seq(Requests) /\ wishes # <<>>
  BY <1>1
<1>3. Idle \in Hooks /\ NoAnswer \in Answers /\ NoWork \in Works
  BY DEF Idle, NoAnswer, NoWork, Hooks, Answers, Works, AnswerOf, NoId, Asked, Phases
<1> QED  BY <1>2, <1>3 DEF Init, TypeOK, Asked, NoId

LEMMA TypeStep == TypeOK /\ Related /\ [Next]_vars => TypeOK'
<1> SUFFICES ASSUME TypeOK, Related, [Next]_vars
             PROVE  TypeOK'
  OBVIOUS
<1>1. ASSUME NEW rq \in Requests, ChangeWish(rq)
      PROVE  TypeOK'
  BY <1>1, Wishing DEF TypeOK
<1>2. ASSUME NEW r \in Rids, AddRelation(r)
      PROVE  TypeOK'
  <2>1. {r} \X mons(r) \in SUBSET Links
    BY MonTypes DEF Links
  <2> QED  BY <1>2, <2>1 DEF AddRelation, TypeOK
<1>3. ASSUME NEW r \in Rids, NEW m \in Mons(r), TakeUp(r, m)
      PROVE  TypeOK'
  <2>1. \A q \in Rids : work'[q] \in [Mons(q) -> Works]
    <3>1. PICK w : work' = [work EXCEPT ![r][m] = w]
      BY <1>3 DEF TakeUp
    <3>2. w \in Works
      BY <1>3, <3>1, TakenUp DEF TypeOK
    <3> QED  BY <3>1, <3>2 DEF TypeOK
  <2> QED  BY <1>3, <2>1, TakenUp DEF TakeUp, TypeOK
<1>4. ASSUME NEW r \in Rids, NEW m \in Mons(r), Answer(r, m)
      PROVE  TypeOK'
  <2>1. \A q \in Rids : work'[q] \in [Mons(q) -> Works]
    <3>1. \A q \in Rids : \A n \in Mons(q) : work'[q][n] \in Works
      BY <1>4, Answered DEF TypeOK
    <3>2. work' = [work EXCEPT ![r][m].busy = FALSE]
      BY <1>4 DEF Answer
    <3> QED  BY <3>1, <3>2 DEF TypeOK
  <2>2. \A q \in Rids : answer'[q] \in [Mons(q) -> Answers]
    <3>1. PICK a : answer' = [answer EXCEPT ![r][m] = a]
      BY <1>4 DEF Answer
    <3>2. a \in Answers
      BY <1>4, <3>1, Answered DEF TypeOK
    <3> QED  BY <3>1, <3>2 DEF TypeOK
  <2>3. due' \in SUBSET Links
    <3>1. <<r, m>> \in Links
      BY MonTypes DEF Links
    <3> QED  BY <1>4, <3>1 DEF Answer, TypeOK
  <2> QED  BY <1>4, <2>1, <2>2, <2>3, Answered DEF Answer, TypeOK
<1>5. ASSUME NEW on \in Links \union {NoLink}, on # NoLink => Linked(on), Decide(on),
             due' \in SUBSET due
      PROVE  TypeOK'
  <2>1. hook' \in Hooks /\ hook'.phase # "idle"
    BY <1>5, Decided
  <2> QED  BY <1>5, <2>1, Decided DEF TypeOK
<1>6. ASSUME NEW r \in Rids, NEW m \in Mons(r), RelationChanged(r, m)
      PROVE  TypeOK'
  BY <1>5, <1>6 DEF RelationChanged, Related, TypeOK
<1>7. CASE OtherHook
  BY <1>5, <1>7 DEF OtherHook, TypeOK
<1>8. CASE RetryHook
  BY <1>5, <1>8, HookTypes DEF RetryHook, Related, TypeOK
<1>9. CASE Act
  <2>1. hook' \in Hooks /\ hook'.phase = "marking"
    BY <1>9 DEF Act, TypeOK, Hooks, Phases
  <2> QED  BY <1>9, <2>1, WishTypes DEF Act, TypeOK, Asked
<1>10. CASE Mark
  <2>1. hook' \in Hooks /\ hook'.phase = "decided"
    BY <1>10 DEF Mark, TypeOK, Hooks, Phases
  <2>2. mark' \in Asked
    BY <1>10, HookTypes DEF Mark, mark_broker_action_done, TypeOK, Answers
  <2> QED  BY <1>10, <2>1, <2>2 DEF Mark, TypeOK
<1>11. CASE CompleteHook
  <2>1. sent' \in [Rids -> Asked]
    BY <1>11, WishTypes DEF CompleteHook, TypeOK, Asked
  <2> QED  BY <1>11, <2>1, HookTypes DEF CompleteHook, TypeOK
<1>12. CASE FailHook
  <2>1. hook' \in Hooks /\ hook'.phase = "failed"
    <3>1. PICK d \in Hooks : hook' = [d EXCEPT !.phase = "failed", !.on = hook.on]
      BY <1>12, HookTypes DEF FailHook
    <3> QED  BY <3>1, HookTypes DEF Hooks, Phases
  <2> QED  BY <1>12, <2>1 DEF FailHook, TypeOK
<1>13. CASE UNCHANGED vars
  BY <1>13 DEF vars, TypeOK
<1> QED  BY <1>1, <1>2, <1>3, <1>4, <1>6, <1>7, <1>8, <1>9, <1>10, <1>11, <1>12, <1>13, Cases

(* A step that leaves the relations leaves what is linked. *)
LEMMA SameLinks ==
  ASSUME TypeOK, Next
  PROVE  exposed' = exposed /\ rids \subseteq rids' /\ \A l : Linked(l) => Linked(l)'
<1>1. exposed' = exposed /\ rids \subseteq rids'
  BY Cases DEF ChangeWish, AddRelation, TakeUp, Answer, RelationChanged, OtherHook,
     RetryHook, Act, Mark, CompleteHook, FailHook, Decide
<1> QED  BY <1>1 DEF Linked, mons, Mons

(* The phases of a hook that is at work. *)
LEMMA HookSteps ==
  ASSUME TypeOK
  PROVE  /\ Act => hook'.on = hook.on /\ hook'.phase = "marking"
                   /\ hook'.rsp = hook.rsp /\ hook'.complete = hook.complete
         /\ Mark => hook'.on = hook.on /\ hook'.phase = "decided"
                    /\ hook'.rsp = hook.rsp /\ hook'.complete = hook.complete
         /\ FailHook => hook'.on = hook.on /\ hook'.phase = "failed"
                        /\ hook'.complete = FALSE
         /\ CompleteHook => hook'.on = NoLink /\ hook'.phase = "idle"
                            /\ hook'.complete = FALSE
<1>1. ASSUME Act
      PROVE  hook'.on = hook.on /\ hook'.phase = "marking"
             /\ hook'.rsp = hook.rsp /\ hook'.complete = hook.complete
  BY <1>1 DEF Act, TypeOK, Hooks
<1>2. ASSUME Mark
      PROVE  hook'.on = hook.on /\ hook'.phase = "decided"
             /\ hook'.rsp = hook.rsp /\ hook'.complete = hook.complete
  BY <1>2 DEF Mark, TypeOK, Hooks
<1>3. ASSUME FailHook
      PROVE  hook'.on = hook.on /\ hook'.phase = "failed" /\ hook'.complete = FALSE
  <2>1. PICK d \in Hooks : d.complete = FALSE
                          /\ hook' = [d EXCEPT !.phase = "failed", !.on = hook.on]
    BY <1>3, HookTypes DEF FailHook
  <2> QED  BY <2>1 DEF Hooks
<1>4. ASSUME CompleteHook
      PROVE  hook'.on = NoLink /\ hook'.phase = "idle" /\ hook'.complete = FALSE
  BY <1>4, HookTypes DEF CompleteHook
<1> QED  BY <1>1, <1>2, <1>3, <1>4

-----------------------------------------------------------------------------
LEMMA RelatedStep == IInv /\ Next => Related'
<1> SUFFICES ASSUME IInv, Next
             PROVE  Related'
  OBVIOUS
<1>0. TypeOK /\ Related
  BY DEF IInv
<1>k. exposed' = exposed /\ rids \subseteq rids' /\ \A l : Linked(l) => Linked(l)'
  BY <1>0, SameLinks
<1>a. ASSUME \A l \in due' : Linked(l)', (hook.on # NoLink => Linked(hook.on))',
             UNCHANGED <<sent, work>>,
             Spared({"no_relation"}) /\ hook'.phase # "idle" => rids' # {}
      PROVE  Related'
  BY <1>0, <1>k, <1>a DEF Related, Spared
<1>1. ASSUME NEW rq \in Requests, ChangeWish(rq)
      PROVE  Related'
  BY <1>0, <1>1 DEF ChangeWish, Related, Linked, mons, Mons, Spared
<1>2. ASSUME NEW r \in Rids, AddRelation(r)
      PROVE  Related'
  <2>1. \A l \in {r} \X mons(r) : Linked(l)'
    BY <1>2 DEF AddRelation, Linked, mons, Mons
  <2> QED  BY <1>0, <1>2, <1>k, <1>a, <2>1, HookTypes DEF AddRelation, Related
<1>3. ASSUME NEW r \in Rids, NEW m \in Mons(r), TakeUp(r, m)
      PROVE  Related'
  <2>1. Linked(<<r, m>>) /\ UNCHANGED <<due, hook, sent, rids>>
    BY <1>0, <1>3 DEF TakeUp, Related, Linked
  <2>2. \A q \in Rids : \A n \in Mons(q) : work'[q][n].busy => Linked(<<q, n>>)
    BY <1>0, <1>3, <2>1, TakenUp DEF Related
  <2> QED  BY <1>0, <1>k, <2>1, <2>2 DEF Related, Spared
<1>4. ASSUME NEW r \in Rids, NEW m \in Mons(r), Answer(r, m)
      PROVE  Related'
  <2>1. Linked(<<r, m>>) /\ UNCHANGED <<hook, sent, rids>> /\ due' \subseteq due \union {<<r, m>>}
    BY <1>0, <1>4 DEF Answer, Related
  <2>2. \A q \in Rids : \A n \in Mons(q) : work'[q][n].busy => Linked(<<q, n>>)
    BY <1>0, <1>4, Answered DEF Related
  <2> QED  BY <1>0, <1>k, <2>1, <2>2 DEF Related, Spared
<1>5. ASSUME NEW r \in Rids, NEW m \in Mons(r), RelationChanged(r, m)
      PROVE  Related'
  <2>1. <<r, m>> \in due /\ Linked(<<r, m>>) /\ due' \subseteq due /\ Decide(<<r, m>>)
        /\ <<r, m>> \in Links
    BY <1>0, <1>5 DEF RelationChanged, Related, TypeOK
  <2>2. rids # {}
    BY <2>1 DEF Linked
  <2>3. hook'.on = <<r, m>> /\ UNCHANGED <<rids, sent, work>>
    BY <1>0, <2>1, Decided
  <2> QED  BY <1>0, <1>a, <1>k, <2>1, <2>2, <2>3 DEF Related
<1>6. CASE OtherHook
  <2>1. hook'.on = NoLink /\ UNCHANGED <<rids, sent, work, due>>
    BY <1>0, <1>6, Decided DEF OtherHook
  <2>2. Spared({"no_relation"}) => rids # {}
    BY <1>6 DEF OtherHook, Spared
  <2> QED  BY <1>0, <1>a, <1>k, <2>1, <2>2 DEF Related
<1>7. CASE RetryHook
  <2>1. hook'.on = hook.on /\ UNCHANGED <<rids, sent, work, due>> /\ hook.phase # "idle"
    BY <1>0, <1>7, HookTypes, Decided DEF RetryHook, Related
  <2> QED  BY <1>0, <1>a, <1>k, <2>1 DEF Related
<1>8. CASE Act
  BY <1>0, <1>8, <1>a, <1>k, HookSteps DEF Act, Related
<1>9. CASE Mark
  BY <1>0, <1>9, <1>a, <1>k, HookSteps DEF Mark, Related
<1>10. CASE CompleteHook
  <2>1. \A r \in Rids : sent'[r] # NoRequest => r \in rids
    BY <1>0, <1>10 DEF CompleteHook, Related, TypeOK
  <2>2. hook'.on = NoLink /\ hook'.phase = "idle" /\ UNCHANGED <<rids, work, due>>
    BY <1>0, <1>10, HookSteps DEF CompleteHook
  <2> QED  BY <1>0, <1>k, <2>1, <2>2 DEF Related
<1>11. CASE FailHook
  BY <1>0, <1>11, <1>a, <1>k, HookSteps DEF FailHook, Related
<1> QED  BY <1>1, <1>2, <1>3, <1>4, <1>5, <1>6, <1>7, <1>8, <1>9, <1>10, <1>11, Cases

(* Apart from a wish, and from the end of a hook, nothing new is asked for. *)
LEMMA SameWishes ==
  ASSUME Next, \A rq \in Requests : ~ChangeWish(rq)
  PROVE  UNCHANGED wishes /\ (CompleteHook \/ UNCHANGED sent)
BY Cases DEF AddRelation, TakeUp, Answer, RelationChanged, OtherHook,
   RetryHook, Act, Mark, CompleteHook, FailHook, Decide

LEMMA WishedStep == IInv /\ Next => Wished'
<1> SUFFICES ASSUME IInv, Next
             PROVE  Wished'
  OBVIOUS
<1>0. TypeOK /\ Wished
  BY DEF IInv
<1>k. Spared({"same_keys"})' = Spared({"same_keys"})
  BY <1>0, SameLinks DEF Spared
<1>1. ASSUME NEW rq \in Requests, ChangeWish(rq)
      PROVE  Wished'
  <2> DEFINE L == Len(wishes)
  <2>1. /\ L \in Nat /\ Len(wishes') = L + 1 /\ wishes'[L + 1] = rq
        /\ \A i \in 1..L : wishes'[i] = wishes[i]
        /\ UNCHANGED sent
        /\ Spared({"same_keys"}) => \A i \in 1..L : ops_equal(rq, wishes[i]) => rq = wishes[i]
    BY <1>0, <1>1, Wishing, WishTypes
  <2>2. ASSUME NEW r \in Rids, sent'[r] # NoRequest
        PROVE  \E i \in 1..Len(wishes') : sent'[r] = wishes'[i]
    <3>1. PICK i \in 1..L : sent[r] = wishes[i]
      BY <1>0, <2>1, <2>2 DEF Wished
    <3>2. i \in 1..Len(wishes') /\ sent'[r] = wishes'[i]
      BY <2>1, <3>1
    <3> QED  BY <3>2
  <2>3. ASSUME Spared({"same_keys"}), NEW i \in 1..(L + 1), NEW j \in 1..i,
               ops_equal(wishes'[i], wishes'[j])
        PROVE  wishes'[i] = wishes'[j]
    <3>1. CASE i = L + 1
      <4>1. j = L + 1 \/ j \in 1..L
        BY <2>1, <2>3, <3>1
      <4> QED  BY <2>1, <2>3, <3>1, <4>1
    <3>2. CASE i \in 1..L
      <4>1. j \in 1..L
        BY <2>1, <2>3, <3>2
      <4>2. wishes'[i] = wishes[i] /\ wishes'[j] = wishes[j]
        BY <2>1, <3>2, <4>1
      <4> QED  BY <1>0, <2>3, <3>2, <4>2 DEF Wished
    <3> QED  BY <2>1, <2>3, <3>1, <3>2
  <2> QED  BY <1>k, <2>1, <2>2, <2>3 DEF Wished
<1>2. CASE CompleteHook
  <2>1. \A r \in Rids : sent'[r] \in {sent[r], want}
    BY <1>0, <1>2 DEF CompleteHook, TypeOK
  <2>2. Len(wishes) \in 1..Len(wishes) /\ want = wishes[Len(wishes)]
    BY <1>0, WishTypes
  <2> QED  BY <1>0, <1>2, <1>k, <2>1, <2>2 DEF CompleteHook, Wished
<1>3. CASE UNCHANGED wishes /\ UNCHANGED sent
  BY <1>0, <1>3, <1>k DEF Wished
<1> QED  BY <1>1, <1>2, <1>3, SameWishes

LEMMA NamedStep == IInv /\ Next => Named'
<1> SUFFICES ASSUME IInv, Next
             PROVE  Named'
  OBVIOUS
<1>0. TypeOK /\ Named
  BY DEF IInv
<1>k. Spared({"legacy"})' = Spared({"legacy"})
  BY <1>0, SameLinks DEF Spared
<1>1. ASSUME NEW r \in Rids, NEW m \in Mons(r), Answer(r, m)
      PROVE  Named'
  <2>1. ASSUME Spared({"legacy"}), NEW q \in Rids, NEW n \in Mons(q), answer'[q][n].ok
        PROVE  Targeted(answer[q][n])'
    <3>1. CASE q = r /\ n = m
      BY <1>0, <1>1, <2>1, <3>1, Answered
    <3>2. CASE q # r \/ n # m
      <4>1. answer'[q][n] = answer[q][n]
        BY <1>0, <1>1, <3>2, Answered
      <4> QED  BY <1>0, <2>1, <4>1 DEF Named, Targeted
    <3> QED  BY <3>1, <3>2
  <2> QED  BY <1>k, <2>1 DEF Named, Mons
<1>2. CASE UNCHANGED answer
  BY <1>0, <1>2, <1>k DEF Named, Targeted, Mons
<1>3. UNCHANGED answer \/ \E r \in Rids : \E m \in Mons(r) : Answer(r, m)
  BY Cases DEF ChangeWish, AddRelation, TakeUp, RelationChanged, OtherHook,
     RetryHook, Act, Mark, CompleteHook, FailHook, Decide
<1> QED  BY <1>1, <1>2, <1>3

-----------------------------------------------------------------------------
(* These steps concern a relation; the others only the client's hook.      *)
LEMMA Conversation ==
  ASSUME Next
  PROVE  \/ \E rq \in Requests : ChangeWish(rq)
         \/ \E r \in Rids : \E m \in Mons(r) : TakeUp(r, m) \/ Answer(r, m)
         \/ CompleteHook
         \/ UNCHANGED <<wishes, sent, work, answer, holds>>
BY Cases DEF AddRelation, RelationChanged, OtherHook, RetryHook, Act, Mark, FailHook, Decide

LEMMA InOrderStep == IInv /\ Next => InOrder'
<1> SUFFICES ASSUME IInv, Next
             PROVE  InOrder'
  OBVIOUS
<1>k. Spared({"return"})' = Spared({"return"})
  BY SameLinks DEF IInv, Spared
<1> SUFFICES ASSUME Spared({"return"})
             PROVE  /\ \A i, j \in 1..Len(wishes') : i # j => wishes'[i] # wishes'[j]
                    /\ \A r \in Rids : \E i \in 0..Len(wishes') : Reached(r, i)'
  BY <1>k DEF InOrder
<1> DEFINE L == Len(wishes)
<1>0. /\ TypeOK
      /\ \A i, j \in 1..L : i # j => wishes[i] # wishes[j]
      /\ \A r \in Rids : \E i \in 0..L : Reached(r, i)
  BY DEF IInv, InOrder
<1>l. L \in Nat /\ L >= 1 /\ want = wishes[L] /\ want \in Requests
  BY <1>0, WishTypes
<1>a. ASSUME NEW rq \in Requests, ChangeWish(rq)
      PROVE  /\ \A i, j \in 1..Len(wishes') : i # j => wishes'[i] # wishes'[j]
             /\ \A r \in Rids : \E i \in 0..Len(wishes') : Reached(r, i)'
  <2>1. /\ Len(wishes') = L + 1 /\ wishes'[L + 1] = rq
        /\ \A i \in 1..L : wishes'[i] = wishes[i]
        /\ \A i \in 1..L : rq # wishes[i]
        /\ UNCHANGED <<sent, work, answer>>
    BY <1>0, <1>a, Wishing
  <2>2. ASSUME NEW i \in 1..(L + 1), NEW j \in 1..(L + 1), i # j
        PROVE  wishes'[i] # wishes'[j]
    <3>1. (i = L + 1 \/ i \in 1..L) /\ (j = L + 1 \/ j \in 1..L)
      BY <1>l, <2>2
    <3> QED  BY <1>0, <2>1, <2>2, <3>1
  <2>3. ASSUME NEW r \in Rids
        PROVE  \E i \in 0..Len(wishes') : Reached(r, i)'
    <3>1. PICK i \in 0..L : Reached(r, i)
      BY <1>0
    <3>2. \A j \in 1..i : wishes'[j] = wishes[j]
      BY <1>l, <2>1
    <3>3. \A q : Upto(q, i) => Upto(q, i)'
      BY <3>2 DEF Upto
    <3>4. i = 0 \/ i \in 1..i
      BY <3>1
    <3>5. Reached(r, i)'
      BY <2>1, <3>1, <3>2, <3>3, <3>4 DEF Reached, Mons
    <3>6. i \in 0..Len(wishes')
      BY <1>l, <2>1, <3>1
    <3> QED  BY <3>5, <3>6
  <2> QED  BY <2>1, <2>2, <2>3
<1> SUFFICES ASSUME UNCHANGED wishes, NEW r \in Rids
             PROVE  \E i \in 0..L : Reached(r, i)'
  BY <1>0, <1>a, SameWishes
<1>1. PICK i \in 0..L : Reached(r, i)
  BY <1>0
<1>2. \A q, k : Upto(q, k) <=> Upto(q, k)'
  BY DEF Upto
<1>3. i = 0 \/ i \in 1..i
  BY <1>1
<1>4. Upto(sent[r], i) /\ \A k : Upto(NoRequest, k)
  BY <1>1, <1>3 DEF Reached, Upto
<1>5. ASSUME NEW q \in Rids, NEW m \in Mons(q), TakeUp(q, m)
      PROVE  Reached(r, i)'
  <2>1. \A n \in Mons(r) : work'[r][n].rq \in {sent[r], work[r][n].rq}
    BY <1>0, <1>5, TakenUp
  <2>2. UNCHANGED <<sent, answer>>
    BY <1>5 DEF TakeUp
  <2> QED  BY <1>1, <1>2, <1>4, <2>1, <2>2 DEF Reached, Mons
<1>6. ASSUME NEW q \in Rids, NEW m \in Mons(q), Answer(q, m)
      PROVE  Reached(r, i)'
  <2>1. \A n \in Mons(r) : /\ work'[r][n].rq = work[r][n].rq
                           /\ answer'[r][n].id \in {work[r][n].rq, NoRequest, answer[r][n].id}
    BY <1>0, <1>6, Answered
  <2>2. UNCHANGED sent
    BY <1>6 DEF Answer
  <2> QED  BY <1>1, <1>2, <1>4, <2>1, <2>2 DEF Reached, Mons
<1>7. CASE CompleteHook
  <2>1. sent'[r] \in {sent[r], want} /\ UNCHANGED <<work, answer>>
    BY <1>0, <1>7 DEF CompleteHook, TypeOK
  <2>2. CASE sent'[r] = sent[r]
    BY <1>1, <1>2, <2>1, <2>2 DEF Reached, Mons
  <2>3. CASE sent'[r] = want
    <3>1. 1..i \subseteq 1..L /\ L # 0
      BY <1>l, <1>1
    <3>2. \A q : Upto(q, i) => Upto(q, L)'
      BY <3>1 DEF Upto
    <3>3. Reached(r, L)'
      BY <1>l, <1>1, <2>1, <2>3, <3>1, <3>2 DEF Reached, Mons
    <3> QED  BY <1>l, <3>3
  <2> QED  BY <2>1, <2>2, <2>3
<1>8. CASE UNCHANGED <<wishes, sent, work, answer, holds>>
  BY <1>1, <1>2, <1>8 DEF Reached, Mons
<1>9. (\E rq \in Requests : ChangeWish(rq)) => UNCHANGED <<sent, work, answer>>
  BY DEF ChangeWish
<1>10. CASE \E rq \in Requests : ChangeWish(rq)
  BY <1>1, <1>2, <1>9, <1>10 DEF Reached, Mons
<1> QED  BY <1>1, <1>5, <1>6, <1>7, <1>8, <1>10, Conversation

(* A mon that granted a request has done it, and so leaves every later one *)
(* that takes up the same; a new request has not been granted before.      *)
LEMMA InEffectStep == IInv /\ Next => InEffect'
<1> SUFFICES ASSUME IInv, Next
             PROVE  InEffect'
  OBVIOUS
<1>k. Spared({"return"})' = Spared({"return"})
  BY SameLinks DEF IInv, Spared
<1> SUFFICES ASSUME Spared({"return"}), NEW r \in Rids, NEW m \in Mons(r), Granted(r, m)'
             PROVE  Holds(r, sent[r])'
  BY <1>k DEF InEffect, Mons
<1>0. TypeOK /\ InOrder /\ \A n \in Mons(r) : Granted(r, n) => Holds(r, sent[r])
  BY DEF IInv, InEffect
<1>1. CASE UNCHANGED <<sent, work, answer, holds>>
  BY <1>0, <1>1 DEF Granted, Holds, Targeted
<1>2. ASSUME NEW q \in Rids, NEW n \in Mons(q), TakeUp(q, n)
      PROVE  Holds(r, sent[r])'
  <2>1. UNCHANGED <<sent, answer>>
    BY <1>2 DEF TakeUp
  <2>2. CASE q = r /\ n = m /\ work'[r][m].ok
    BY <1>0, <1>2, <2>1, <2>2, TakenUp DEF Holds
  <2>3. CASE ~(q = r /\ n = m /\ work'[r][m].ok)
    <3>1. Granted(r, m)
      BY <1>0, <1>2, <2>1, <2>3, TakenUp DEF Granted, Targeted
    <3>2. Holds(r, sent[r])
      BY <1>0, <3>1
    <3> QED  BY <1>0, <1>2, <2>1, <3>2, TakenUp DEF Holds
  <2> QED  BY <2>2, <2>3
<1>3. ASSUME NEW q \in Rids, NEW n \in Mons(q), Answer(q, n)
      PROVE  Holds(r, sent[r])'
  <2>1. UNCHANGED <<sent, holds>>
    BY <1>3 DEF Answer
  <2>2. Granted(r, m)
    <3>1. CASE q = r /\ n = m
      BY <1>0, <1>3, <2>1, <3>1, Answered DEF Granted
    <3>2. CASE q # r \/ n # m
      BY <1>0, <1>3, <2>1, <3>2, Answered DEF Granted, Targeted
    <3> QED  BY <3>1, <3>2
  <2> QED  BY <1>0, <2>1, <2>2 DEF Holds
<1>4. CASE CompleteHook
  <2>1. sent'[r] \in {sent[r], want} /\ UNCHANGED <<work, answer, holds>>
    BY <1>0, <1>4 DEF CompleteHook, TypeOK
  <2>2. CASE sent'[r] = sent[r]
    <3>1. Granted(r, m)
      BY <2>1, <2>2 DEF Granted, Targeted
    <3> QED  BY <1>0, <2>1, <2>2, <3>1 DEF Holds
  <2>3. CASE sent'[r] = want /\ want # sent[r]
    <3> DEFINE L == Len(wishes)
    <3>1. L \in Nat /\ L >= 1 /\ want = wishes[L]
      BY <1>0, WishTypes
    <3>2. PICK i \in 0..L : Reached(r, i)
      BY <1>0 DEF InOrder
    <3>3. i \in 0..L /\ i # L
      BY <2>3, <3>1, <3>2 DEF Reached
    <3>4. \A j \in 1..i : wishes[j] # want
      <4>1. \A j \in 1..i : j \in 1..L /\ j # L /\ L \in 1..L
        BY <3>1, <3>3
      <4> QED  BY <1>0, <3>1, <4>1 DEF InOrder
    <3>5. \A rq : Upto(rq, i) /\ rq = want => want = NoRequest
      BY <3>4 DEF Upto
    <3>6. want = NoRequest
      BY <2>1, <2>3, <3>2, <3>5 DEF Granted, Reached
    <3>7. sent'[r] = NoRequest
      BY <2>3, <3>6
    <3> QED  BY <3>7 DEF Holds, Concerns, NoRequest
  <2> QED  BY <2>1, <2>2, <2>3
<1>5. (\E rq \in Requests : ChangeWish(rq)) => UNCHANGED <<sent, work, answer, holds>>
  BY DEF ChangeWish
<1> QED  BY <1>1, <1>2, <1>3, <1>4, <1>5, Conversation

-----------------------------------------------------------------------------
(* What is_request_complete() finds is what holds.                         *)
LEMMA FoundComplete ==
  ASSUME IInv, is_request_complete(want), NEW r \in rids
  PROVE  /\ Spared({"same_keys"}) => sent[r] = want
         /\ Spared({"same_keys", "legacy", "return"}) => Holds(r, want)
         /\ Spared({"same_keys", "legacy", "several_mons"}) =>
              answer[r][1].id = want /\ Targeted(answer[r][1])
<1>1. /\ r \in Rids /\ sent[r] # NoRequest /\ ops_equal(want, sent[r])
      /\ complete_for_rid(sent[r], r)
  BY DEF is_request_complete, Equivalent, IInv, TypeOK
<1>2. PICK m \in mons(r) : /\ answer[r][m].ok
                           /\ Targeted(answer[r][m]) => answer[r][m].id = sent[r]
  BY <1>1 DEF complete_for_rid, request_id
<1>3. m \in Mons(r) /\ (Spared({"several_mons"}) => m = 1)
  BY <1>1, <1>2, MonTypes
<1>4. ASSUME Spared({"same_keys"})
      PROVE  sent[r] = want
  <2> DEFINE L == Len(wishes)
  <2>1. PICK i \in 1..L : sent[r] = wishes[i]
    BY <1>1 DEF IInv, Wished
  <2>2. want = wishes[L] /\ L \in 1..L
    BY WishTypes DEF IInv
  <2> QED  BY <1>1, <1>4, <2>1, <2>2 DEF IInv, Wished
<1>5. Spared({"legacy"}) => Targeted(answer[r][m])
  <2>1. Spared({"legacy"}) => (answer[r][m].ok => Targeted(answer[r][m]))
    BY <1>1, <1>3 DEF IInv, Named
  <2> QED  BY <1>2, <2>1, Zenon
<1>6. Spared({"legacy"}) => Granted(r, m)
  BY <1>2, <1>5, Zenon DEF Granted
<1>7. Spared({"legacy"}) /\ Spared({"return"}) => Holds(r, sent[r])
  BY <1>1, <1>3, <1>6 DEF IInv, InEffect
<1>8. /\ Spared({"same_keys", "legacy", "return"}) =>
           Spared({"same_keys"}) /\ Spared({"legacy"}) /\ Spared({"return"})
      /\ Spared({"same_keys", "legacy", "several_mons"}) =>
           Spared({"same_keys"}) /\ Spared({"legacy"}) /\ Spared({"several_mons"})
  BY DEF Spared
<1>9. ASSUME Spared({"same_keys"}), Spared({"legacy"}), Spared({"several_mons"})
      PROVE  answer[r][1].id = want /\ Targeted(answer[r][1])
  <2>1. m = 1 /\ sent[r] = want /\ Targeted(answer[r][m])
    BY <1>3, <1>4, <1>5, <1>9
  <2>2. answer[r][m].id = want
    BY <1>2, <2>1, Zenon
  <2> QED  BY <2>1, <2>2
<1>10. ASSUME Spared({"same_keys"}), Spared({"legacy"}), Spared({"return"})
       PROVE  Holds(r, want)
  BY <1>4, <1>7, <1>10
<1> QED  BY <1>4, <1>8, <1>9, <1>10

LEMMA CompleteStep == IInv /\ Next => Complete'
<1> SUFFICES ASSUME IInv, Next
             PROVE  Complete'
  OBVIOUS
<1> DEFINE H == {"legacy", "no_relation", "same_keys", "return"}
<1>k. /\ Spared(H)' = Spared(H)
      /\ Spared(H) => Spared({"same_keys"}) /\ Spared({"no_relation"})
                      /\ Spared({"same_keys", "legacy", "return"})
  BY SameLinks DEF IInv, Spared
<1> SUFFICES ASSUME Spared(H), hook'.complete
             PROVE  /\ rids' # {}
                    /\ \A r \in rids' : sent'[r] = want' /\ Holds(r, want)'
  BY <1>k DEF Complete
<1> HIDE DEF H
<1>0. /\ TypeOK /\ Related
      /\ hook.complete => rids # {} /\ \A r \in rids : sent[r] = want /\ Holds(r, want)
  BY DEF IInv, Complete, H
(* A hook is at work, so that there are neither wishes nor new relations. *)
<1>1. ASSUME hook'.complete => hook.complete, UNCHANGED <<wishes, sent, rids, holds>>
      PROVE  /\ rids' # {}
             /\ \A r \in rids' : sent'[r] = want' /\ Holds(r, want)'
  BY <1>0, <1>1 DEF want, Holds
<1>2. ASSUME NEW on \in Links \union {NoLink}, on # NoLink => Linked(on), Decide(on),
             rids # {}
      PROVE  /\ rids' # {}
             /\ \A r \in rids' : sent'[r] = want' /\ Holds(r, want)'
  <2>1. is_request_complete(want) /\ UNCHANGED <<wishes, sent, rids, holds>>
    BY <1>0, <1>2, Decided
  <2>2. \A r \in rids : sent[r] = want /\ Holds(r, want)
    BY <1>k, <2>1, FoundComplete
  <2> QED  BY <1>2, <2>1, <2>2 DEF want, Holds
<1>3. ASSUME NEW rq \in Requests, ChangeWish(rq)
      PROVE  FALSE
  BY <1>0, <1>3, HookTypes DEF ChangeWish
<1>4. ASSUME NEW r \in Rids, AddRelation(r)
      PROVE  FALSE
  BY <1>0, <1>4, HookTypes DEF AddRelation
<1>5. ASSUME NEW r \in Rids, NEW m \in Mons(r), TakeUp(r, m)
      PROVE  /\ rids' # {}
             /\ \A q \in rids' : sent'[q] = want' /\ Holds(q, want)'
  <2>1. UNCHANGED <<wishes, sent, rids, hook>>
    BY <1>5 DEF TakeUp
  <2>2. ASSUME NEW q \in rids
        PROVE  Holds(q, want)'
    <3>1. sent[q] = want /\ Holds(q, want) /\ q \in Rids /\ want' = want
      BY <1>0, <2>1 DEF want, TypeOK
    <3>2. CASE q = r
      BY <1>0, <1>5, <2>1, <3>1, <3>2, TakenUp DEF Holds
    <3>3. CASE q # r
      BY <1>0, <1>5, <2>1, <3>1, <3>3, TakenUp DEF Holds
    <3> QED  BY <3>2, <3>3
  <2> QED  BY <1>0, <2>1, <2>2 DEF want
<1>6. ASSUME NEW r \in Rids, NEW m \in Mons(r), Answer(r, m)
      PROVE  /\ rids' # {}
             /\ \A q \in rids' : sent'[q] = want' /\ Holds(q, want)'
  BY <1>1, <1>6 DEF Answer
<1>7. ASSUME NEW r \in Rids, NEW m \in Mons(r), RelationChanged(r, m)
      PROVE  /\ rids' # {}
             /\ \A q \in rids' : sent'[q] = want' /\ Holds(q, want)'
  <2>1. <<r, m>> \in Links /\ Linked(<<r, m>>) /\ Decide(<<r, m>>)
    BY <1>0, <1>7 DEF RelationChanged, Related, TypeOK
  <2> QED  BY <1>2, <2>1 DEF Linked
<1>8. CASE OtherHook
  <2>1. rids # {}
    BY <1>8, <1>k DEF OtherHook, Spared
  <2> QED  BY <1>2, <1>8, <2>1 DEF OtherHook
<1>9. CASE RetryHook
  <2>1. rids # {}
    BY <1>9, <1>0, <1>k DEF RetryHook, Related
  <2> QED  BY <1>0, <1>2, <1>9, <2>1, HookTypes DEF RetryHook, Related
<1>10. CASE Act \/ Mark
  BY <1>0, <1>1, <1>10, HookSteps DEF Act, Mark
<1>11. CASE CompleteHook \/ FailHook
  BY <1>0, <1>11, HookSteps
<1> QED  BY <1>3, <1>4, <1>5, <1>6, <1>7, <1>8, <1>9, <1>10, <1>11, Cases

LEMMA MarkedStep == IInv /\ Next => Marked'
<1> SUFFICES ASSUME IInv, Next
             PROVE  Marked'
  OBVIOUS
<1> DEFINE H == {"several_mons", "hook_failure", "legacy", "same_keys"}
<1>k. /\ Spared(H)' = Spared(H)
      /\ Spared(H) => /\ Spared({"several_mons"}) /\ "hook_failure" \notin exposed
                      /\ Spared({"same_keys", "legacy", "several_mons"})
  BY SameLinks DEF IInv, Spared
<1> DEFINE Sound ==
      /\ hook.phase # "failed"
      /\ hook.phase \in {"acting", "marking"} => Targeted(hook.rsp)
      /\ hook.phase = "acting" => hook.rsp.id = want /\ mark # want
      /\ hook.phase = "marking" => hook.rsp.id = acted
      /\ hook.phase # "marking" => mark = acted
<1> SUFFICES ASSUME Spared(H)
             PROVE  Sound'
  BY <1>k DEF Marked
<1> HIDE DEF H
<1>0. TypeOK /\ Related /\ Sound
  BY DEF IInv, Marked, H
<1>1. ASSUME UNCHANGED <<hook, wishes, mark, acted>>
      PROVE  Sound'
  BY <1>0, <1>1 DEF want, Targeted
<1>2. ASSUME NEW on \in Links \union {NoLink}, on # NoLink => Linked(on), Decide(on),
             hook.phase # "marking"
      PROVE  Sound'
  <2>1. /\ hook'.phase \in {"acting", "decided"} /\ UNCHANGED <<wishes, mark, acted>>
        /\ hook'.rsp = IF on = NoLink THEN NoAnswer ELSE answer[on[1]][on[2]]
        /\ hook'.phase = "acting" => is_request_complete(want) /\ on # NoLink
                                     /\ ~is_broker_action_done(hook'.rsp)
    BY <1>0, <1>2, Decided
  <2>2. ASSUME hook'.phase = "acting"
        PROVE  Targeted(hook.rsp)' /\ hook'.rsp.id = want /\ mark # want
    <3>1. on[1] \in rids /\ on[2] = 1
      BY <1>0, <1>2, <1>k, <2>1, <2>2, MonTypes DEF Linked, TypeOK
    <3>2. hook'.rsp = answer[on[1]][1]
      BY <2>1, <2>2, <3>1
    <3>3. hook'.rsp.id = want /\ Targeted(answer[on[1]][1])
      BY <1>k, <2>1, <2>2, <3>1, <3>2, FoundComplete
    <3>4. mark # want
      BY <2>1, <2>2, <3>2, <3>3 DEF is_broker_action_done
    <3> QED  BY <3>2, <3>3, <3>4 DEF Targeted
  <2> QED  BY <1>0, <1>2, <2>1, <2>2 DEF want
<1>3. ASSUME NEW r \in Rids, NEW m \in Mons(r), RelationChanged(r, m)
      PROVE  Sound'
  <2>1. <<r, m>> \in Links /\ Linked(<<r, m>>) /\ Decide(<<r, m>>) /\ hook = Idle
    BY <1>0, <1>3 DEF RelationChanged, Related, TypeOK
  <2> QED  BY <1>0, <1>2, <2>1, HookTypes
<1>4. CASE OtherHook
  BY <1>0, <1>2, <1>4, HookTypes DEF OtherHook
<1>5. CASE RetryHook \/ FailHook
  BY <1>0, <1>5, <1>k DEF RetryHook, FailHook
<1>6. CASE Act
  <2>1. /\ hook'.phase = "marking" /\ hook'.rsp = hook.rsp /\ hook.phase = "acting"
        /\ acted' = want
    BY <1>0, <1>6, HookSteps DEF Act
  <2> QED  BY <1>0, <2>1 DEF Targeted
<1>7. CASE Mark
  <2>1. /\ hook'.phase = "decided" /\ hook.phase = "marking" /\ acted' = acted
        /\ mark' = mark_broker_action_done(hook.rsp)
    BY <1>0, <1>7, HookSteps DEF Mark
  <2> QED  BY <1>0, <2>1 DEF mark_broker_action_done
<1>8. CASE CompleteHook
  <2>1. hook'.phase = "idle" /\ hook.phase = "decided" /\ UNCHANGED <<mark, acted>>
    BY <1>0, <1>8, HookSteps DEF CompleteHook
  <2> QED  BY <1>0, <2>1
<1>9. ASSUME NEW rq \in Requests, ChangeWish(rq)
      PROVE  Sound'
  <2>1. hook' = hook /\ hook.phase = "idle" /\ UNCHANGED <<mark, acted>>
    BY <1>0, <1>9, HookTypes DEF ChangeWish
  <2> QED  BY <1>0, <2>1
<1>10. ASSUME NEW r \in Rids, AddRelation(r)
       PROVE  Sound'
  BY <1>1, <1>10 DEF AddRelation
<1>11. ASSUME NEW r \in Rids, NEW m \in Mons(r), TakeUp(r, m) \/ Answer(r, m)
       PROVE  Sound'
  BY <1>1, <1>11 DEF TakeUp, Answer
<1> QED  BY <1>3, <1>4, <1>5, <1>6, <1>7, <1>8, <1>9, <1>10, <1>11, Cases

-----------------------------------------------------------------------------
LEMMA InvInit == Init => IInv
<1> SUFFICES ASSUME Init
             PROVE  IInv
  OBVIOUS
<1>0. TypeOK
  BY TypeInit
<1>1. PICK rq \in Requests : wishes = <<rq>>
  BY DEF Init
<1>2. Len(wishes) = 1 /\ wishes[1] = rq
  BY <1>1
<1>3. /\ hook = Idle /\ rids = {} /\ due = {} /\ mark = NoRequest /\ acted = NoRequest
      /\ \A r \in Rids : sent[r] = NoRequest
      /\ \A r \in Rids : \A m \in Mons(r) : work[r][m] = NoWork /\ answer[r][m] = NoAnswer
  BY DEF Init, NoId
<1>4. hook.phase = "idle" /\ hook.on = NoLink /\ hook.complete = FALSE
      /\ NoAnswer.ok = FALSE /\ NoAnswer.id = NoRequest
      /\ NoWork.ok = FALSE /\ NoWork.busy = FALSE /\ NoWork.rq = NoRequest
  BY <1>0, <1>3, HookTypes DEF NoWork
<1>5. Related /\ InEffect /\ Named /\ Complete /\ Marked
  BY <1>3, <1>4 DEF Related, InEffect, Granted, Named, Complete, Marked
<1>6. Wished
  BY <1>2, <1>3 DEF Wished
<1>7. InOrder
  <2>1. \A r \in Rids : Reached(r, 0)
    BY <1>3, <1>4 DEF Reached, Upto
  <2>2. 0 \in 0..Len(wishes)
    BY <1>2
  <2>3. \A i, j \in 1..Len(wishes) : i = j
    BY <1>2
  <2> QED  BY <2>1, <2>2, <2>3 DEF InOrder
<1> QED  BY <1>0, <1>5, <1>6, <1>7 DEF IInv

LEMMA InvStep == IInv /\ [Next]_vars => IInv'
<1> SUFFICES ASSUME IInv, [Next]_vars
             PROVE  IInv'
  OBVIOUS
<1>1. CASE Next
  <2>1. TypeOK'
    BY <1>1, TypeStep DEF IInv
  <2> QED  BY <1>1, <2>1, RelatedStep, WishedStep, InOrderStep, InEffectStep, NamedStep,
              CompleteStep, MarkedStep DEF IInv
<1>2. CASE UNCHANGED vars
  BY <1>2 DEF vars, IInv, TypeOK, Related, Linked, mons, Mons, Spared, Wished, InOrder,
     Reached, Upto, InEffect, Granted, Targeted, Holds, Named, Complete, Marked, want
<1> QED  BY <1>1, <1>2

(* The inductive invariant holds in every reachable state. *)
THEOREM Invariance == Spec => []IInv
BY InvInit, InvStep, PTL DEF Spec

(* When is_request_complete() says so, every cluster is as the charm now   *)
(* wants it, however many clusters and mons there are and however late     *)
(* they answer.                                                            *)
THEOREM CompleteMeansDone == Spec => []CompleteIsTrue
<1>1. IInv => CompleteIsTrue
  BY DEF IInv, Complete, CompleteIsTrue
<1> QED  BY <1>1, Invariance, PTL

(* is_broker_action_done() and mark_broker_action_done() keep the charm    *)
(* from acting again on the completion of a request it has acted upon last. *)
THEOREM ActsOnce == Spec => []ActOnce
<1>1. IInv => ActOnce
  BY DEF IInv, Marked, ActOnce
<1> QED  BY <1>1, Invariance, PTL
===============================================================================
