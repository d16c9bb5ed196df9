\* One slot and the configuration; saves by both threads, a power failure at any step
SPECIFICATION Spec
CONSTANTS
  SaveAreaMax = 1
  Stimuli = {"hf", "vhf"}
  Rests = {"plain"}
  Bandwidths = {"1k"}
  DefStimulus = "hf"
  DefRest = "plain"
  DefBandwidth = "1k"
  UiAreas = {0}
  ConsoleAreas = {0, 1}
  Tears = {3}
INVARIANT TypeOK
INVARIANT CacheTrue
 
PROPERTY ImplementsStore
