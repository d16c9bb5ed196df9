\* Pause with muting, then resume, at one frequency.
SPECIFICATION Spec
CONSTANTS
  Tables <- OnlyMS
  Freqs = {50000}
  Powers = {0}
  Xtals = {26000}
  Offsets = {12}
  Thresholds = {300000}
  Operations = {"pause", "mute"}
INVARIANT ToneCorrect
