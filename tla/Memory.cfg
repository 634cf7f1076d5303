SPECIFICATION Spec
CONSTANTS
  Procs = {p1, p2, p3}
  Frames = {f1, f2, f3, f4, f5}
  Null = Null
  NUM_OF_SHARED_PAGES = 2
  Ids = {1, 2, 3}
  MaxPages = 3
  ExecSizes = {1, 2}
  Careful = TRUE
SYMMETRY MCSymmetry
INVARIANTS FramesAccounted 
CHECK_DEADLOCK FALSE
