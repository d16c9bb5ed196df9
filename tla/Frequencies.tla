---------------------------- MODULE Frequencies ----------------------------
(***************************************************************************)
(* The frequency arithmetic of the sweep: how start, stop, center, span,   *)
(* CW and step inputs change frequency0 and frequency1                     *)
(* (set_sweep_frequency), which frequencies a sweep visits                 *)
(* (set_frequencies, getFrequency), and which calibrated points correct a  *)
(* frequency between them (cal_interpolate).  freq_t is an unsigned        *)
(* integer modulo Wrap (2^32 in the code).                                 *)
(***************************************************************************)
EXTENDS Integers, FiniteSets

CONSTANTS
  Wrap,            \* 2^32
  FMin, FMax,      \* FREQUENCY_MIN, FREQUENCY_MAX
  PointCounts,     \* the numbers of points in use
  Inputs,          \* the numbers typed
  Limits           \* band limits of the generator (si5351_get_harmonic_lvl)

ASSUME WidthAssumption == /\ Wrap \in Nat /\ FMin \in Nat /\ FMax \in Nat
                          /\ 0 < FMin /\ FMin < FMax /\ FMax < Wrap
ASSUME InputAssumption == /\ PointCounts \subseteq Nat \ {0, 1}
                          /\ PointCounts # {}
                          /\ Inputs \subseteq 0 .. Wrap - 1
                          /\ Limits \subseteq Nat

VARIABLES
  frequency0, frequency1,
  center_span,     \* TD_CENTER_SPAN of props_mode
  sweep_points,
  grid,            \* _f_start, _f_points, _f_delta, _f_error
  cal              \* cal_frequency0, cal_frequency1, cal_sweep_points

range == <<frequency0, frequency1>>
vars == <<frequency0, frequency1, center_span, sweep_points, grid, cal>>

Freq == 0 .. Wrap - 1
Type == {"start", "stop", "center", "span", "cw", "step"}

-----------------------------------------------------------------------------
(***************************************************************************)
(* set_frequencies and getFrequency.                                       *)
(***************************************************************************)
Grid(start, stop, points) ==
  [start |-> start, points |-> points - 1,
   delta |-> (stop - start) \div (points - 1),
   error |-> (stop - start) % (points - 1)]

\* A variant that drops the remainder of the division
WholeSteps(g, idx) == g.start + g.delta * idx

GetFrequency(g, idx) ==
  g.start + g.delta * idx + (((g.points \div 2) + g.error * idx) \div g.points)

-----------------------------------------------------------------------------
(***************************************************************************)
(* set_sweep_frequency.                                                    *)
(***************************************************************************)
Least(a, b) == IF a <= b THEN a ELSE b
Most(a, b) == IF a >= b THEN a ELSE b

\* get_sweep_frequency(ST_CENTER)
Center == (frequency0 \div 2) + (frequency1 \div 2) + (frequency0 % 2)

\* The bounds: start, stop and center have a lower one; a step is turned into
\* a span or a stop; then all have the upper one
StepInput(f) ==
  LET width == (f * (sweep_points - 1)) % Wrap
  IN  IF center_span THEN width ELSE (width + frequency0) % Wrap

Input(type, f) ==
  Least(CASE type \in {"start", "stop", "center"} -> Most(f, FMin)
          [] type = "step" -> StepInput(f)
          [] type \in {"span", "cw"} -> f,
        FMax)

\* Variants leave the other end alone, or the half span open above
StartOnly(f) == <<f, frequency1>>
StartAt(f) == <<f, Most(frequency1, f)>>
StopAt(f) == <<Least(frequency0, f), f>>

HalfSpan == (frequency1 - frequency0 + 1) \div 2
OpenAbove(c) ==
  LET s == Least(HalfSpan, c - FMin) IN <<c - s, c + s>>
CenterAt(c) ==
  LET s == Least(Least(HalfSpan, c - FMin), FMax - c) IN <<c - s, c + s>>

\* The lower bound on the center gives way to the upper one
SpanOf(f) ==
  LET s == f \div 2
      c == Least(Most(Center, FMin + s), FMax - s)
  IN  <<c - s, c + s>>

NewRange(type, f) ==
  CASE type = "start" -> StartAt(f)
    [] type = "stop" \/ (type = "step" /\ ~center_span) -> StopAt(f)
    [] type = "center" -> CenterAt(f)
    [] type = "span" \/ (type = "step" /\ center_span) -> SpanOf(f)
    [] type = "cw" -> <<f, f>>

NewMode(type) == IF type = "step" THEN center_span
                 ELSE type \in {"center", "span", "cw"}

UpdateFrequencies(r, n) ==
  /\ frequency0' = r[1] /\ frequency1' = r[2] /\ sweep_points' = n
  /\ grid' = Grid(r[1], r[2], n)

SetSweepFrequency(type, f) ==
  /\ UpdateFrequencies(NewRange(type, Input(type, f)), sweep_points)
  /\ center_span' = NewMode(type)
  /\ UNCHANGED cal

SetSweepPoints(n) ==
  /\ n # sweep_points
  /\ UpdateFrequencies(range, n)
  /\ UNCHANGED <<center_span, cal>>

\* cal_collect takes over a range that is not the calibrated one
CalCollect ==
  /\ cal # <<frequency0, frequency1, sweep_points>>
  /\ cal' = <<frequency0, frequency1, sweep_points>>
  /\ UNCHANGED <<range, center_span, sweep_points, grid>>

ResetSweepFrequency ==
  /\ UpdateFrequencies(<<cal[1], cal[2]>>, cal[3])
  /\ UNCHANGED <<center_span, cal>>

Init ==
  /\ frequency0 = FMin /\ frequency1 = FMax
  /\ center_span = FALSE
  /\ sweep_points \in PointCounts
  /\ grid = Grid(frequency0, frequency1, sweep_points)
  /\ cal = <<frequency0, frequency1, sweep_points>>

Next ==
  \/ \E type \in Type, f \in Inputs : SetSweepFrequency(type, f)
  \/ \E n \in PointCounts : SetSweepPoints(n)
  \/ CalCollect \/ ResetSweepFrequency

Spec == Init /\ [][Next]_vars

-----------------------------------------------------------------------------
(***************************************************************************)
(* cal_interpolate: the calibrated points used for frequency f, one or two *)
(* neighbours that are blended (or extended, when a band limit lies        *)
(* between them).                                                          *)
(***************************************************************************)
HarmonicLevel(f) == Cardinality({l \in Limits : l < f})

\* A variant that divides by the number of points
IndexByPoints(f) == ((f - cal[1]) * cal[3]) \div (cal[2] - cal[1])
IndexBelow(f) == ((f - cal[1]) * (cal[3] - 1)) \div (cal[2] - cal[1])

\* src_f0 and src_f1, by the rounding of getFrequency
SourceFrequency(idx) ==
  cal[1] + (((cal[2] - cal[1]) * idx + ((cal[3] - 1) \div 2)) \div (cal[3] - 1))

\* The move away from a band limit; a variant that extends the wrong side
AcrossLimit(idx, f) ==
  IF HarmonicLevel(SourceFrequency(idx)) = HarmonicLevel(f)
  THEN <<idx + 1, idx + 2>>
  ELSE IF idx < 1 THEN <<idx, idx>> ELSE <<idx - 1, idx>>

AwayFromLimit(idx, f) ==
  IF HarmonicLevel(SourceFrequency(idx)) = HarmonicLevel(f)
  THEN IF idx < 1 THEN <<idx, idx>> ELSE <<idx - 1, idx>>
  ELSE IF idx >= cal[3] - 1 THEN <<idx, idx>> ELSE <<idx + 1, idx + 2>>

CalInterpolate(f) ==
  LET idx == IndexBelow(f)
      s0 == SourceFrequency(idx)
      s1 == SourceFrequency(idx + 1)
  IN  IF f <= cal[1] THEN <<0, 0>>
      ELSE IF f >= cal[2] THEN <<cal[3] - 1, cal[3] - 1>>
      ELSE IF f = s0 THEN <<idx, idx>>
      ELSE IF HarmonicLevel(s0) = HarmonicLevel(s1) THEN <<idx, idx + 1>>
      ELSE AwayFromLimit(idx, f)

-----------------------------------------------------------------------------
\* The type of every variable; start never exceeds stop, so that no span wraps.
TypeOK ==
  /\ frequency0 \in Freq /\ frequency1 \in Freq /\ frequency0 <= frequency1
  /\ center_span \in BOOLEAN /\ sweep_points \in PointCounts
  /\ grid.points \in Nat \ {0} /\ cal \in Freq \X Freq \X PointCounts

(***************************************************************************)
(* Whatever is typed, in whatever order, with a multiplication and         *)
(* additions that wrap, the sweep stays below FREQUENCY_MAX                *)
(* (main.c:1564, "Check frequency for out of bounds").                     *)
(***************************************************************************)
StopWithinMax == frequency1 <= FMax

(***************************************************************************)
(* getFrequency without a table (main.c:1388) visits the range from start  *)
(* to stop: the first point is start, the last is stop, and every point is *)
(* an integer nearest to its place on the line between them.               *)
(***************************************************************************)
GridIsLine ==
  LET n == sweep_points - 1
      Error(i) == (GetFrequency(grid, i) - frequency0) * n
                    - (frequency1 - frequency0) * i
  IN  /\ GetFrequency(grid, 0) = frequency0
      /\ GetFrequency(grid, n) = frequency1
      /\ \A i \in 0 .. n : 2 * Error(i) <= n /\ -2 * Error(i) <= n

CalFrequency(idx) == GetFrequency(Grid(cal[1], cal[2], cal[3]), idx)
Between == cal[1] + 1 .. cal[2] - 1
Used(f) == {CalInterpolate(f)[1], CalInterpolate(f)[2]}

(***************************************************************************)
(* The formulas of cal_interpolate (main.c:2008) and of getFrequency find  *)
(* the same frequencies: the point below f and the one above it are        *)
(* calibrated points, and they enclose f, so that no difference wraps.     *)
(***************************************************************************)
InterpolationEncloses ==
  \A f \in Between :
    LET idx == IndexBelow(f)
    IN  /\ idx + 1 <= cal[3] - 1
        /\ SourceFrequency(idx) = CalFrequency(idx)
        /\ SourceFrequency(idx + 1) = CalFrequency(idx + 1)
        /\ CalFrequency(idx) <= f /\ f <= CalFrequency(idx + 1)

\* The calibrated points measured in the band of f
InBand(f) ==
  {p \in 0 .. cal[3] - 1 : HarmonicLevel(CalFrequency(p)) = HarmonicLevel(f)}

(***************************************************************************)
(* "avoid glitch between freqs in different harmonics mode" (main.c:2018): *)
(* if two neighbours among the points idx - 1 .. idx + 2 around f were     *)
(* measured in the band of f, only points of that band are used for f,     *)
(* however many band limits there are and however close they lie.  With    *)
(* just one of the two points next to f in its band, it is among those     *)
(* used.                                                                   *)
(***************************************************************************)
SameBandUsed ==
  \A f \in Between :
    LET idx == IndexBelow(f)
    IN  /\ (\E i \in idx - 1 .. idx + 1 : {i, i + 1} \subseteq InBand(f))
             => Used(f) \subseteq InBand(f)
        /\ {idx, idx + 1} \cap InBand(f) # {} => Used(f) \cap InBand(f) # {}
=============================================================================
