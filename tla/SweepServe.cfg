\* Scans, pauses with muting, scripts and bad files, under a fair sweep thread.
SPECIFICATION FairSpec
CONSTANTS
  Stimuli = {"hf", "vhf"}
  PointCounts = {2}
  Console = {"pause", "resume", "sweep", "scan", "scan_f"}
  Touch = {"stimulus", "mute", "load_bad", "load_cmd"}
PROPERTY LiveGridIsStimulus
PROPERTY QueuedCommandServed
PROPERTY SweepCompletes
PROPERTY PausedIsMuted
CHECK_DEADLOCK FALSE
