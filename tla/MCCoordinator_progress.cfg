\* Progress with update-status, while hooks fail and units are removed.
CONSTANTS
  Units = {1, 2}
  Locks = {"restart"}
  MaxTs = 2
  Hazards = {"departure", "hook_failure"}
SPECIFICATION SettledPeriodic
PROPERTIES NoStarvation
