SPECIFICATION Spec
CONSTANTS
  Boxes = {x, y}
  Vals = {v1, v2}
  Nothrow <- MCNothrow
  SecondTypes = {"solid", "mover", "copier"}
  Big = {"solid"}
  Raw = Raw
  Null = Null
  Moved = Moved
  Idle = Idle
  Gone = Gone
  Empty = Empty
INVARIANTS
  CellsUsedRightly
  NothingLeaksNorLies
PROPERTY
  ImplementsValues
