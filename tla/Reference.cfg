\* Two grids, two processings, one slot, sweeps of two points, two presses in a gap
SPECIFICATION Spec
CONSTANTS
  g1 = g1
  g2 = g2
  Grids = {g1, g2}
  p1 = p1
  p2 = p2
  Procs = {p1, p2}
  Slots = {"s1"}
  N = 2
  PressMax = 2
SYMMETRY Interchangeable
INVARIANTS TypeOK PanelReadsItsKind OkIsSame RepeatOfThis
PROPERTY FixtureFirst
