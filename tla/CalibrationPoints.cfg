\* The number of points is changed between the last standard and DONE.
SPECIFICATION Spec
CONSTANTS
  Ranges = {"hf"}
  PointCounts = {2, 3}
  Kits = {{"open", "short"}}
  Operations = {}
INVARIANT DoneCoversRange
