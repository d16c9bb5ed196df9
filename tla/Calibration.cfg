\* Three kits of standards, every operation; one range, two point counts.
SPECIFICATION Spec
CONSTANTS
  Ranges = {"hf"}
  PointCounts = {2, 3}
  Kits = {{"load", "open", "short"}, {"open", "thru"}, {"thru", "isoln"}}
  Operations = {"scan", "live_sweep"}
INVARIANT TypeOK
INVARIANT StandardsMatchRange
INVARIANT DoneLeavesTerms
INVARIANT DirectCopyRight
