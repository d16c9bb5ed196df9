\* The smallest bandwidth settings: with 0 and 1 a dump does not get its four buffers
SPECIFICATION FairSpec
CONSTANTS
  Bandwidths = {0, 1, 2}
  Delays = {0, 1, 3, 8}
  TimeWrap = 16
  BufferTicks = 2
  DumpBuffers = 4
INVARIANT TypeOK
INVARIANT SampleClean
PROPERTY NeverServedEarly
PROPERTY WaitEnds
PROPERTY DumpEnds
