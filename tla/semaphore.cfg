SPECIFICATION FairSpec
CONSTANTS
  Runs = {r1, r2, r3, r4, r5, r6}
  Max = 2
INVARIANTS TypeOK CountsHolders NoIdleSlot
PROPERTIES NoOvertaking ImplementsPool EveryWaiterEnters
