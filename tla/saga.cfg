SPECIFICATION FairSpec
CONSTANTS
  Steps = 5
  NoUndo = {5}
INVARIANTS TypeOK StandsInOrder
PROPERTIES KeepsPromise Ends
CHECK_DEADLOCK FALSE
