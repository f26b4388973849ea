---- MODULE OnePart ----
(***************************************************************************)
(* Parts of the library that have no state in common are checked together, *)
(* one in each behaviour.                                                  *)
(***************************************************************************)
CONSTANT
  Unused \* the value of the variables of other parts

VARIABLE
  part    \* the part that the behaviour is of; never changes
====
