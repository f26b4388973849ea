\* Two units with two timestamps each, so that a unit can ask again after its
\* turn, and leaders, hook failures and removals at every point.
CONSTANTS
  Units = {1, 2}
  Locks = {"restart"}
  MaxTs = 2
  Hazards = {"hook_failure", "new_leader", "departure"}
SPECIFICATION Spec
INVARIANTS TypeOK Mutex OneGrantee
PROPERTIES RequestNotLost NoRevocation TakeTurns
