CONSTANTS
  Paths = {own, other, scratch}
  Owned = {own}
  Scratch = {scratch}
  Contents = {c1, c2}
  Absent = Absent
  None = None
  MaxChanges = 2
SPECIFICATION Spec
INVARIANTS
  UndeclaredChangeIsFound
  OwnedWorkReconciles
CHECK_DEADLOCK FALSE
