\* Both frameworks, under every combination of the hazards.
SPECIFICATION Spec
CONSTANTS
  Values = {1, 2}
  Frameworks = {"Hooks", "ServiceManager"}
  Hazards = {"exit", "callback_failure", "late_config", "crash"}
  MaxCallbacks = 2
INVARIANTS  SameHook
PROPERTY StoredOnSuccess
