----------------------------- MODULE MCCephBroker ------------------------------
(* CephBroker with a pool, a key and the wishes a charm may have.           *)
EXTENDS CephBroker

Pool(settings, rest) == [name |-> "pool", settings |-> settings, rest |-> rest]
Key == [name |-> "key", settings |-> "rwx", rest |-> "none"]

(* A pool with its key, the pool asked for twice; another number of         *)
(* replicas; and another crush profile, which requests are not compared by. *)
PoolWishes ==
  {<<Pool("3 replicas", "default"), Key, Pool("3 replicas", "default")>>,
   <<Pool("2 replicas", "default"), Key>>,
   <<Pool("2 replicas", "ssd"), Key>>}

(* The first cluster may have two mons. *)
OneAndTwo == [r \in {"ceph:1", "ceph:2"} |-> IF r = "ceph:1" THEN 2 ELSE 1]
=============================================================================
