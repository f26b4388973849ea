\* Two charms that manage one service, under one hazard at a time.
SPECIFICATION FairSpec
CONSTANTS
  Apps = {"ovn", "nova"}
  Services = {"vswitchd"}
  MaxNow = 2
  MaxEvents = 2
  Exposures = {{}, {"service_failure"}, {"silent_restart"}, {"package_race"}, {"hook_failure"}, {"try_restart"}}
INVARIANTS NoRestartForgotten NoneLeftStopped
PROPERTIES HeldBack AlarmEnds
\* The clock and the number of events are bounded.
CHECK_DEADLOCK FALSE
