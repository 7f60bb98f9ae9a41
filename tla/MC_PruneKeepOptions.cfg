CONSTANTS
  Width = 8
  Counts = {1, 2, 127}
  None = None
  Panic = Panic

SPECIFICATION Spec

INVARIANT KeepsSomethingExact
