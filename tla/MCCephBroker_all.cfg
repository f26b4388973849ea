\* Two clusters, under one hazard at a time.
SPECIFICATION FairSpec
CONSTANTS
  Rids = {"ceph:1", "ceph:2"}
  MonsOf <- OneAndTwo
  Wishes <- PoolWishes
  MaxWishes = 2
  Exposures = {{}, {"hook_failure"}, {"broker_error"}, {"several_mons"}, {"legacy"}, {"no_relation"}, {"same_keys"}, {"return"}}
INVARIANTS CompleteIsTrue ActOnce
PROPERTY ActedUpon
