\* Three writers, two names, two contents: both may meet at either.
SPECIFICATION Spec
CONSTANTS
  Writers = {w1, w2, w3}
  Slots = {s1, s2}
  Contents = {x, y}
  NoContent = NoContent
INVARIANTS
  TypeOK
  RowsHaveFiles
PROPERTIES
  ImplementsWriteOnce
CHECK_DEADLOCK FALSE
