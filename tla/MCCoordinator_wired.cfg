\* Progress with the documented hooks only.
CONSTANTS
  Units = {1, 2}
  Locks = {"restart"}
  MaxTs = 2
  Hazards = {}
SPECIFICATION SettledWired
PROPERTIES NoStarvation
