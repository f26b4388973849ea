\* Hooks that fail, and ports that change, in every combination.
SPECIFICATION Spec
CONSTANTS
  Order <- WebFirst
  PortLists <- Changing
  ICMP = 1
  Hazards = {"failure", "new_ports"}
PROPERTY ConvergedUnlessBoth
