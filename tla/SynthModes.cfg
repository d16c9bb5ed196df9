\* Tables and thresholds change, outputs are muted, the reference changes at any moment.
SPECIFICATION Spec
CONSTANTS
  Tables <- H4Modes
  Freqs = {20, 120000, 280000, 500000}
  Powers = {0, 255}
  Xtals = {26000, 26001}
  Offsets = {12}
  Thresholds = {250000, 300000}
  Operations = {"pause", "live_tcxo", "mode", "mute"}
INVARIANT CacheCoherent
