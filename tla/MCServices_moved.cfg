\* No hook fails, but a port moves from one service to the other.
SPECIFICATION Spec
CONSTANTS
  Order <- WebFirst
  PortLists <- Moving
  ICMP = 1
  Hazards = {"new_ports"}
PROPERTIES Converged
