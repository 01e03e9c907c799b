SPECIFICATION Spec
SYMMETRY Symmetry
CONSTANTS
  a = a
  b = b
  c = c
  d = d
  AnySnapshot = FALSE
  Setups <- Working
CHECK_DEADLOCK FALSE
INVARIANTS
    PageShowsThePromise
    RowsShowTheirData
    ListenersFollowRows
PROPERTIES
    KeptRowsStay
