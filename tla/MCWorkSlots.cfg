SPECIFICATION Spec
CONSTANTS
  Requests = {r1, r2, r3, r4}
  Slots = 2
  Threads = 1
INVARIANTS
  PermitsConserved
PROPERTIES
  WaitingIsServed
  ImplementsPromise
CHECK_DEADLOCK FALSE
