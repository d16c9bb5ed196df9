\* Console and touch change the stimulus while sweeps are broken and resumed.
SPECIFICATION Spec
CONSTANTS
  Stimuli = {"hf", "vhf"}
  PointCounts = {2, 3}
  Console = {"resume", "sweep", "scan"}
  Touch = {"toggle", "points", "recall", "load_snp", "save"}
INVARIANT TypeOK
PROPERTY SweepCoherent
