SPECIFICATION Spec
CONSTANTS
  U32Max = 63
  SizeMax = 63
  PageSize = 8
  Threads = {"t1", "t2"}
  Objects = {1}
  DumbArgs <- MCDumb
  FbArgs <- MCFbs
  MaxMaps = 1
  Overlap = TRUE
INVARIANT NothingLeaks
