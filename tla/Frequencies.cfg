\* Frequencies of 5 bits; four bands, the middle ones narrower than a step of
\* three points and wider than one of five.
SPECIFICATION Spec
CONSTANTS
  Wrap = 32
  FMin = 2
  FMax = 21
  PointCounts = {3, 5}
  Inputs = {0, 3, 6, 11, 19, 31}
  Limits = {8, 13, 18}
INVARIANT TypeOK
INVARIANT StopWithinMax
INVARIANT GridIsLine
INVARIANT InterpolationEncloses
INVARIANT SameBandUsed
