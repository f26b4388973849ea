---------------------------- MODULE MCCoordinator ----------------------------
(* Coordinator from later in the application's life, for the liveness runs. *)
EXTENDS Coordinator

(* Every unit has run its first hooks: all are on the peers relation with  *)
(* nothing requested, and no hook is due.                                  *)
Settled ==
  /\ leader \in Units
  /\ joined = Units
  /\ published = Units
  /\ peerData = NoTable
  /\ localFile = NoTable
  /\ leaderData = NoTable
  /\ phase = [u \in Units |-> "idle"]
  /\ requests = [u \in Units |-> NoTable]
  /\ grants = [u \in Units |-> NoTable]
  /\ holding = [u \in Units |-> {}]
  /\ lastTs = [u \in Units |-> 0]
  /\ changed = [u \in Units |-> {}]
  /\ leaderHook = [u \in Units |-> FALSE]

SettledSpec == Settled /\ [][Next]_vars

(* A charm with only the hooks that the module documentation asks for, and *)
(* one that can count on update-status alone.                              *)
SettledWired == SettledSpec /\ Fairness /\ Delivery
SettledPeriodic == SettledSpec /\ Fairness /\ UpdateStatus
=============================================================================
