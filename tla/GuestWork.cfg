SPECIFICATION Spec
CHECK_DEADLOCK FALSE
CONSTANTS
  Guests = {"vm1", "vm2"}
  Plans <- SomePlans
  MaxCalls = 3
  MaxFaults = 1
INVARIANTS
  ShownFailure
  DenialIsReal
  ServersStopped
