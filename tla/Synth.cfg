\* The MS5351 table, every operation but muting and a new table or threshold.
SPECIFICATION Spec
CONSTANTS
  Tables <- OnlyMS
  Freqs = {20, 500, 50000, 200000, 250000, 350000, 500000, 800000, 1500000}
  Powers = {0, 3, 255}
  Xtals = {26000, 26001}
  Offsets = {12, 6}
  Thresholds = {300000}
  Operations = {"pause"}
INVARIANT TypeOK
INVARIANT ToneCorrect
INVARIANT GainCorrect
INVARIANT DriveCorrect
