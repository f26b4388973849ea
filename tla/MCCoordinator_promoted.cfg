\* A unit becomes leader inside a hook that it started as a follower.
CONSTANTS
  Units = {1, 2, 3}
  Locks = {"restart"}
  MaxTs = 1
  Hazards = {"new_leader", "promoted"}
SPECIFICATION SettledSpec
INVARIANTS Mutex
