\* One charm, and an operator who restarts the service.
SPECIFICATION Spec
CONSTANTS
  Apps = {"ovn"}
  Services = {"vswitchd"}
  MaxNow = 2
  MaxEvents = 2
  Exposures = {{"silent_restart"}}
PROPERTIES ClearedWhenRestarted
CHECK_DEADLOCK FALSE
