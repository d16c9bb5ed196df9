------------------------- MODULE FrequenciesProofs -------------------------
(***************************************************************************)
(* Proofs about Frequencies: for every word width, frequency range, point  *)
(* count and sequence of inputs, start stays at or below stop and stop at  *)
(* or below FREQUENCY_MAX, the grid is the rounded line between them, and  *)
(* cal_interpolate blends calibrated points that enclose the frequency and *)
(* do not mix bands.                                                       *)
(***************************************************************************)
EXTENDS Frequencies, FiniteSetTheorems, TLAPS

\* A range with start <= stop <= FREQUENCY_MAX
Ordered(r) == r[1] \in Nat /\ r[2] \in Nat /\ r[1] <= r[2] /\ r[2] <= FMax

\* The calibrated range needs the same bounds, since RANGE takes it over.
RangeInv ==
  /\ TypeOK /\ StopWithinMax
  /\ cal[2] <= FMax /\ cal[1] <= cal[2]

(***************************************************************************)
(* The bounded input of set_sweep_frequency is a frequency up to           *)
(* FREQUENCY_MAX whatever the wrapping arithmetic made of it, and start,   *)
(* stop and center are at least FREQUENCY_MIN.                             *)
(***************************************************************************)
LEMMA InputBounded ==
  ASSUME TypeOK, NEW type \in Type, NEW f \in Freq
  PROVE  /\ Input(type, f) \in Nat /\ Input(type, f) <= FMax
         /\ type \in {"start", "stop", "center"} => Input(type, f) >= FMin
<1>1. StepInput(f) \in Nat
  <2>1. sweep_points \in Nat /\ frequency0 \in Nat /\ f \in Nat /\ Wrap \in Nat /\ Wrap > 0
    BY WidthAssumption, InputAssumption DEF TypeOK, Freq
  <2>2. ASSUME NEW n \in Int PROVE n % Wrap \in Nat
    BY <2>1
  <2>3. f * (sweep_points - 1) \in Int
    BY <2>1
  <2>4. (f * (sweep_points - 1)) % Wrap \in Nat
    BY <2>2, <2>3
  <2>5. (((f * (sweep_points - 1)) % Wrap) + frequency0) % Wrap \in Nat
    BY <2>1, <2>2, <2>4
  <2> QED BY <2>4, <2>5 DEF StepInput
<1>2. f \in Nat /\ FMin \in Nat /\ FMax \in Nat /\ FMin < FMax
  BY WidthAssumption DEF Freq
<1>3. CASE type \in {"start", "stop", "center"}
  BY <1>2, <1>3 DEF Input, Least, Most
<1>4. CASE type = "step"
  BY <1>1, <1>2, <1>4 DEF Input, Least
<1>5. CASE type \in {"span", "cw"}
  BY <1>2, <1>5 DEF Input, Least
<1> QED BY <1>3, <1>4, <1>5 DEF Type

\* Each of the five ways to place the range leaves it ordered and bounded.
LEMMA RangeOrdered ==
  ASSUME RangeInv, NEW type \in Type, NEW f \in Nat, f <= FMax,
         type \in {"start", "stop", "center"} => f >= FMin
  PROVE  Ordered(NewRange(type, f))
<1>1. /\ frequency0 \in Nat /\ frequency1 \in Nat /\ frequency0 <= frequency1
      /\ frequency1 <= FMax /\ FMin \in Nat /\ FMax \in Nat /\ FMin < FMax
  BY WidthAssumption DEF RangeInv, TypeOK, StopWithinMax, Freq
<1>2. Ordered(StartAt(f)) /\ Ordered(StopAt(f)) /\ Ordered(<<f, f>>)
  BY <1>1 DEF Ordered, StartAt, StopAt, Most, Least
<1>3. f >= FMin => Ordered(CenterAt(f))
  <2>1. HalfSpan \in Nat
    BY <1>1 DEF HalfSpan
  <2> HIDE DEF HalfSpan
  <2> QED BY <1>1, <2>1 DEF Ordered, CenterAt, Least
<1>4. Ordered(SpanOf(f))
  <2>1. Center \in Nat
    BY <1>1 DEF Center
  <2>2. f \div 2 \in Nat /\ 2 * (f \div 2) <= f
    OBVIOUS
  <2> HIDE DEF Center
  <2> DEFINE s == f \div 2
             c == Least(Most(Center, FMin + s), FMax - s)
  <2>3. c \in Nat /\ s <= c /\ c <= FMax - s
    BY <1>1, <2>1, <2>2 DEF Least, Most
  <2> HIDE DEF c, s
  <2>4. s \in Nat
    BY <2>2 DEF s
  <2>5. Ordered(<<c - s, c + s>>)
    BY <1>1, <2>3, <2>4 DEF Ordered
  <2> QED BY <2>5 DEF SpanOf, c, s
<1> QED BY <1>2, <1>3, <1>4 DEF NewRange, Type

\* set_frequencies is never called with fewer than two points.
LEMMA GridPoints ==
  ASSUME NEW start \in Nat, NEW stop \in Nat, NEW n \in PointCounts
  PROVE  Grid(start, stop, n).points \in Nat \ {0}
BY InputAssumption DEF Grid

\* The bounds hold in the initial states.
LEMMA RangeInit == Init => RangeInv
<1> SUFFICES ASSUME Init PROVE RangeInv OBVIOUS
<1>1. /\ FMin \in Freq /\ FMax \in Freq /\ FMin <= FMax
      /\ FMin \in Nat /\ FMax \in Nat
  BY WidthAssumption DEF Freq
<1>2. grid.points \in Nat \ {0}
  BY <1>1, GridPoints DEF Init
<1>3. cal \in Freq \X Freq \X PointCounts /\ cal[1] <= cal[2] /\ cal[2] <= FMax
  BY <1>1 DEF Init
<1>4. center_span \in BOOLEAN
  BY DEF Init
<1> QED BY <1>1, <1>2, <1>3, <1>4 DEF Init, RangeInv, TypeOK, StopWithinMax

\* update_frequencies with an ordered range keeps the bounds.
LEMMA UpdateKeeps ==
  ASSUME RangeInv, NEW r, Ordered(r), NEW n \in PointCounts,
         UpdateFrequencies(r, n), center_span' \in BOOLEAN, UNCHANGED cal
  PROVE  RangeInv'
<1>1. grid'.points \in Nat \ {0}
  BY GridPoints DEF UpdateFrequencies, Ordered
<1>2. r[1] \in Freq /\ r[2] \in Freq
  BY WidthAssumption DEF Ordered, Freq
<1> QED BY <1>1, <1>2 DEF RangeInv, TypeOK, StopWithinMax, UpdateFrequencies, Ordered

\* Every step keeps the bounds.
LEMMA RangeStep == RangeInv /\ [Next]_vars => RangeInv'
<1> SUFFICES ASSUME RangeInv, [Next]_vars PROVE RangeInv' OBVIOUS
<1>1. ASSUME NEW type \in Type, NEW f \in Inputs, SetSweepFrequency(type, f)
      PROVE  RangeInv'
  <2>1. f \in Freq /\ TypeOK
    BY InputAssumption DEF Freq, RangeInv
  <2> DEFINE g == Input(type, f)
  <2>2. /\ g \in Nat /\ g <= FMax
        /\ type \in {"start", "stop", "center"} => g >= FMin
    BY <2>1, InputBounded
  <2> HIDE DEF g
  <2>3. Ordered(NewRange(type, g))
    BY <2>2, RangeOrdered
  <2>4. sweep_points \in PointCounts /\ center_span \in BOOLEAN
    BY <2>1 DEF TypeOK
  <2>5. NewMode(type) \in BOOLEAN
    <3>1. CASE type = "step"
      BY <2>4, <3>1 DEF NewMode
    <3>2. CASE type # "step"
      <4>1. NewMode(type) = (type \in {"center", "span", "cw"})
        BY <3>2 DEF NewMode
      <4> QED BY <4>1
    <3> QED BY <3>1, <3>2
  <2>6. center_span' \in BOOLEAN
    <3>1. center_span' = NewMode(type)
      BY <1>1 DEF SetSweepFrequency
    <3> QED BY <2>5, <3>1
  <2>7. UpdateFrequencies(NewRange(type, g), sweep_points) /\ UNCHANGED cal
    BY <1>1 DEF SetSweepFrequency, g
  <2> QED BY <2>3, <2>4, <2>6, <2>7, UpdateKeeps
<1>2. ASSUME NEW n \in PointCounts, SetSweepPoints(n) PROVE RangeInv'
  <2>1. Ordered(range)
    BY DEF Ordered, range, RangeInv, TypeOK, StopWithinMax, Freq
  <2>2. UpdateFrequencies(range, n) /\ UNCHANGED cal /\ center_span' \in BOOLEAN
    BY <1>2 DEF SetSweepPoints, RangeInv, TypeOK
  <2> QED BY <2>1, <2>2, UpdateKeeps
<1>3. CASE CalCollect
  BY <1>3 DEF CalCollect, range, RangeInv, TypeOK, StopWithinMax
<1>4. CASE ResetSweepFrequency
  <2> DEFINE r == <<cal[1], cal[2]>>
  <2>1. Ordered(r) /\ cal[3] \in PointCounts
    BY DEF Ordered, RangeInv, TypeOK, Freq
  <2>2. UpdateFrequencies(r, cal[3]) /\ UNCHANGED cal /\ center_span' \in BOOLEAN
    BY <1>4 DEF ResetSweepFrequency, RangeInv, TypeOK
  <2> HIDE DEF r
  <2> QED BY <2>1, <2>2, UpdateKeeps
<1>5. CASE UNCHANGED vars
  BY <1>5 DEF vars, RangeInv, TypeOK, StopWithinMax
<1> QED BY <1>1, <1>2, <1>3, <1>4, <1>5 DEF Next

(***************************************************************************)
(* Type correctness with start <= stop (set_sweep_frequency,               *)
(* set_sweep_points, reset_sweep_frequency): no span of update_frequencies *)
(* is a wrapped difference.                                                *)
(***************************************************************************)
THEOREM RangeTypeCorrect == Spec => []TypeOK
<1>1. RangeInv => TypeOK
  BY DEF RangeInv
<1> QED BY RangeInit, RangeStep, <1>1, PTL DEF Spec

(***************************************************************************)
(* The stop frequency never exceeds FREQUENCY_MAX, for every width of      *)
(* freq_t and every sequence of inputs, wrapping step inputs included      *)
(* (set_sweep_frequency, main.c:1564).                                     *)
(***************************************************************************)
THEOREM StopBounded == Spec => []StopWithinMax
<1>1. RangeInv => StopWithinMax
  BY DEF RangeInv
<1> QED BY RangeInit, RangeStep, <1>1, PTL DEF Spec

-----------------------------------------------------------------------------
\* Integer division, for a divisor that is a variable.
LEMMA Division ==
  ASSUME NEW a \in Nat, NEW n \in Nat \ {0}
  PROVE  /\ a \div n \in Nat /\ a % n \in Nat
         /\ a = (a \div n) * n + (a % n) /\ a % n < n
OBVIOUS

\* A quotient is known from the multiples of n around the dividend.
LEMMA Quotient ==
  ASSUME NEW a \in Nat, NEW n \in Nat \ {0}, NEW q \in Nat,
         q * n <= a, a < q * n + n
  PROVE  a \div n = q
<1> DEFINE d == a \div n
<1>1. d \in Nat /\ d * n <= a /\ a < d * n + n
  BY Division
<1> HIDE DEF d
<1>2. CASE d < q
  <2>1. d + 1 <= q
    BY <1>1, <1>2
  <2>2. (d + 1) * n <= q * n
    BY <1>1, <2>1
  <2> QED BY <1>1, <2>2
<1>3. CASE q < d
  <2>1. q + 1 <= d
    BY <1>1, <1>3
  <2>2. (q + 1) * n <= d * n
    BY <1>1, <2>1
  <2> QED BY <1>1, <2>2
<1> QED BY <1>1, <1>2, <1>3 DEF d

(***************************************************************************)
(* The distance of point i from the line, times the number of steps, is    *)
(* what the rounding of getFrequency leaves: at most half a step each way. *)
(***************************************************************************)
LEMMA PointOnLine ==
  ASSUME NEW start \in Nat, NEW stop \in Nat, start <= stop,
         NEW points \in Nat \ {0, 1}, NEW i \in 0 .. points - 1
  PROVE  LET n == points - 1
             f == GetFrequency(Grid(start, stop, points), i)
             e == (f - start) * n - (stop - start) * i
         IN  /\ f \in Nat /\ 2 * e <= n /\ -2 * e <= n
             /\ i = 0 => f = start
             /\ i = n => f = stop
<1> DEFINE n == points - 1
           S == stop - start
           q == S \div n
           r == S % n
           h == n \div 2
           d == (h + r * i) \div n
           f == GetFrequency(Grid(start, stop, points), i)
<1>1. n \in Nat \ {0} /\ S \in Nat /\ i \in Nat /\ i <= n
  OBVIOUS
<1>2. f = start + q * i + d
  BY DEF GetFrequency, Grid
<1>3. h \in Nat /\ 2 * h <= n /\ n <= 2 * h + 1
  BY <1>1
<1> HIDE DEF n, S, h
<1>4. q \in Nat /\ r \in Nat /\ S = q * n + r /\ r < n
  BY <1>1, Division
<1> HIDE DEF q, r
<1>5. h + r * i \in Nat
  BY <1>1, <1>3, <1>4
<1>6. d \in Nat /\ d * n <= h + r * i /\ h + r * i < d * n + n
  BY <1>1, <1>5, Division
<1>7. i = 0 => d = 0
  <2> SUFFICES ASSUME i = 0 PROVE d = 0 OBVIOUS
  <2>1. h + r * i = h /\ 0 * n <= h /\ h < 0 * n + n
    BY <1>1, <1>3, <1>4
  <2> QED BY <1>1, <1>3, <2>1, Quotient
<1>8. i = n => d = r
  <2> SUFFICES ASSUME i = n PROVE d = r OBVIOUS
  <2>1. h + r * i = h + r * n /\ h < n
    BY <1>1, <1>3, <1>4
  <2>2. r * n \in Nat
    BY <1>1, <1>4
  <2>3. r * n <= h + r * i /\ h + r * i < r * n + n
    BY <1>1, <1>3, <2>1, <2>2
  <2> QED BY <1>1, <1>4, <1>5, <2>3, Quotient
<1> HIDE DEF d, f
<1>9. f \in Nat /\ (f - start) * n - S * i = d * n - r * i
  <2>1. q * i \in Nat
    BY <1>1, <1>4
  <2>2. f - start = q * i + d
    BY <1>2, <1>6, <2>1
  <2>3. (q * i + d) * n = (q * n) * i + d * n
    BY <1>1, <1>4, <1>6
  <2>4. S * i = (q * n) * i + r * i
    BY <1>1, <1>4
  <2>5. (q * n) * i \in Int /\ d * n \in Int /\ r * i \in Int
    BY <1>1, <1>4, <1>6
  <2>6. f \in Nat
    BY <1>2, <1>6, <2>1
  <2> QED BY <2>2, <2>3, <2>4, <2>5, <2>6
<1>10. 2 * (d * n - r * i) <= n /\ -2 * (d * n - r * i) <= n
  <2>1. d * n \in Nat /\ r * i \in Nat
    BY <1>1, <1>4, <1>6
  <2> QED BY <1>1, <1>3, <1>6, <2>1
<1>11. i = 0 => f = start
  BY <1>1, <1>2, <1>4, <1>7
<1>12. i = n => f = stop
  <2>1. stop = start + S
    BY DEF S
  <2> QED BY <1>1, <1>2, <1>4, <1>8, <2>1
<1> QED BY <1>9, <1>10, <1>11, <1>12 DEF n, S, f

\* The grid is always the one set_frequencies computes from the range in force.
GridInv == RangeInv /\ grid = Grid(frequency0, frequency1, sweep_points)

\* Every step keeps the grid in step with the range.
LEMMA GridStep == GridInv /\ [Next]_vars => GridInv'
<1> SUFFICES ASSUME GridInv, [Next]_vars PROVE GridInv' OBVIOUS
<1>1. RangeInv'
  BY RangeStep DEF GridInv
<1>2. ASSUME NEW r, NEW n, UpdateFrequencies(r, n)
      PROVE  (grid = Grid(frequency0, frequency1, sweep_points))'
  BY <1>2 DEF UpdateFrequencies
<1>3. (grid = Grid(frequency0, frequency1, sweep_points))'
  <2>1. CASE \E type \in Type, f \in Inputs : SetSweepFrequency(type, f)
    BY <1>2, <2>1 DEF SetSweepFrequency
  <2>2. CASE \E n \in PointCounts : SetSweepPoints(n)
    BY <1>2, <2>2 DEF SetSweepPoints
  <2>3. CASE CalCollect
    BY <2>3 DEF CalCollect, range, GridInv
  <2>4. CASE ResetSweepFrequency
    BY <1>2, <2>4 DEF ResetSweepFrequency
  <2>5. CASE UNCHANGED vars
    BY <2>5 DEF vars, GridInv
  <2> QED BY <2>1, <2>2, <2>3, <2>4, <2>5 DEF Next
<1> QED BY <1>1, <1>3 DEF GridInv

(***************************************************************************)
(* getFrequency (main.c:1388) runs exactly from start to stop and rounds   *)
(* every point to a nearest integer, for every range and number of points. *)
(***************************************************************************)
THEOREM GridExact == Spec => []GridIsLine
<1>1. GridInv => GridIsLine
  <2> SUFFICES ASSUME GridInv PROVE GridIsLine OBVIOUS
  <2>1. /\ frequency0 \in Nat /\ frequency1 \in Nat /\ frequency0 <= frequency1
        /\ sweep_points \in Nat \ {0, 1}
    BY InputAssumption DEF GridInv, RangeInv, TypeOK, Freq
  <2>2. grid = Grid(frequency0, frequency1, sweep_points)
    BY DEF GridInv
  <2>3. 0 \in 0 .. sweep_points - 1 /\ sweep_points - 1 \in 0 .. sweep_points - 1
    BY <2>1
  <2> QED BY <2>1, <2>2, <2>3, PointOnLine DEF GridIsLine
<1>2. Init => GridInv
  BY RangeInit DEF Init, GridInv
<1> QED BY <1>1, <1>2, GridStep, PTL DEF Spec

-----------------------------------------------------------------------------
\* Bounds on a quotient from bounds on the dividend.
LEMMA QuotientBounds ==
  ASSUME NEW a \in Nat, NEW n \in Nat \ {0}, NEW k \in Nat
  PROVE  /\ a < (k + 1) * n => a \div n <= k
         /\ k * n <= a => k <= a \div n
<1> DEFINE d == a \div n
<1>1. d \in Nat /\ d * n <= a /\ a < d * n + n
  BY Division
<1> HIDE DEF d
<1>2. ASSUME a < (k + 1) * n, k < d PROVE FALSE
  <2>1. k + 1 <= d
    BY <1>1, <1>2
  <2>2. (k + 1) * n <= d * n
    BY <1>1, <2>1
  <2> QED BY <1>1, <1>2, <2>2
<1>3. ASSUME k * n <= a, d < k PROVE FALSE
  <2>1. d + 1 <= k
    BY <1>1, <1>3
  <2>2. (d + 1) * n <= k * n
    BY <1>1, <2>1
  <2> QED BY <1>1, <1>3, <2>2
<1> QED BY <1>1, <1>2, <1>3 DEF d

(***************************************************************************)
(* The 64-bit formula of cal_interpolate (main.c:2009) and getFrequency's  *)
(* quotient and remainder give the same frequency of a calibrated point.   *)
(***************************************************************************)
LEMMA SameSource ==
  ASSUME cal[1] \in Nat, cal[2] \in Nat, cal[1] <= cal[2],
         cal[3] \in Nat \ {0, 1}, NEW idx \in Nat
  PROVE  SourceFrequency(idx) = CalFrequency(idx)
<1> DEFINE n == cal[3] - 1
           S == cal[2] - cal[1]
           q == S \div n
           r == S % n
           h == n \div 2
           d == (h + r * idx) \div n
<1>1. n \in Nat \ {0} /\ S \in Nat /\ h \in Nat
  OBVIOUS
<1>2. CalFrequency(idx) = cal[1] + q * idx + d
  BY DEF CalFrequency, GetFrequency, Grid
<1>3. SourceFrequency(idx) = cal[1] + ((S * idx + h) \div n)
  BY DEF SourceFrequency
<1> HIDE DEF n, S, h
<1>4. q \in Nat /\ r \in Nat /\ S = q * n + r
  BY <1>1, Division
<1> HIDE DEF q, r
<1>5. h + r * idx \in Nat
  BY <1>1, <1>4
<1>6. d \in Nat /\ d * n <= h + r * idx /\ h + r * idx < d * n + n
  BY <1>1, <1>5, Division
<1> HIDE DEF d
<1>7. q * idx + d \in Nat
  BY <1>4, <1>6
<1>8. (S * idx + h) \div n = q * idx + d
  <2>1. S * idx = (q * n) * idx + r * idx
    BY <1>1, <1>4
  <2>2. (q * idx + d) * n = (q * n) * idx + d * n
    BY <1>1, <1>4, <1>6
  <2>3. (q * n) * idx \in Nat /\ r * idx \in Nat /\ d * n \in Nat
    BY <1>1, <1>4, <1>6
  <2>4. S * idx + h \in Nat
    BY <1>1, <2>1, <2>3
  <2>5. (q * idx + d) * n <= S * idx + h /\ S * idx + h < (q * idx + d) * n + n
    BY <1>1, <1>6, <2>1, <2>2, <2>3
  <2> QED BY <1>1, <1>7, <2>4, <2>5, Quotient
<1> QED BY <1>2, <1>3, <1>7, <1>8, <1>4, <1>6

(***************************************************************************)
(* The index of cal_interpolate (main.c:2008) and the one after it are     *)
(* calibrated points, and their frequencies enclose f.                     *)
(***************************************************************************)
LEMMA Enclosed ==
  ASSUME RangeInv, NEW f \in Between
  PROVE  LET idx == IndexBelow(f)
         IN  /\ idx \in Nat /\ idx + 1 <= cal[3] - 1
             /\ SourceFrequency(idx) = CalFrequency(idx)
             /\ SourceFrequency(idx + 1) = CalFrequency(idx + 1)
             /\ CalFrequency(idx) <= f /\ f <= CalFrequency(idx + 1)
<1>1. /\ cal[1] \in Nat /\ cal[2] \in Nat /\ cal[1] <= cal[2]
      /\ cal[3] \in Nat \ {0, 1}
  <2>1. cal[1] \in Freq /\ cal[2] \in Freq /\ cal[3] \in PointCounts
    BY DEF RangeInv, TypeOK
  <2>2. cal[1] \in Nat /\ cal[2] \in Nat
    BY <2>1, WidthAssumption DEF Freq
  <2>3. cal[3] \in Nat \ {0, 1}
    BY <2>1, InputAssumption, Zenon
  <2>4. cal[1] <= cal[2]
    BY DEF RangeInv
  <2> QED BY <2>2, <2>3, <2>4
<1>2. f \in Nat /\ cal[1] < f /\ f < cal[2]
  BY <1>1 DEF Between
<1> DEFINE n == cal[3] - 1
           S == cal[2] - cal[1]
           x == f - cal[1]
           h == n \div 2
           idx == IndexBelow(f)
<1>3. /\ n \in Nat \ {0} /\ S \in Nat \ {0} /\ x \in Nat /\ x < S
      /\ h \in Nat /\ h < n
  BY <1>1, <1>2
<1>4. idx = (x * n) \div S
  BY DEF IndexBelow
<1>5. \A k : SourceFrequency(k) = cal[1] + ((S * k + h) \div n)
  BY DEF SourceFrequency
<1>6. f = cal[1] + x
  BY <1>1, <1>2
<1> HIDE DEF n, S, x, h, idx
<1>7. x * n \in Nat /\ x * n < S * n
  BY <1>3
<1>8. idx \in Nat /\ idx * S <= x * n /\ x * n < idx * S + S
  BY <1>3, <1>4, <1>7, Division
<1>9. idx + 1 <= n
  <2>1. SUFFICES ASSUME n <= idx PROVE FALSE
    BY <1>3, <1>8
  <2>2. n * S <= idx * S
    BY <1>3, <1>8, <2>1
  <2> QED BY <1>3, <1>7, <1>8, <2>2
<1>10. SourceFrequency(idx) <= f
  <2>1. S * idx + h \in Nat /\ S * idx + h < (x + 1) * n
    <3>1. S * idx \in Nat /\ S * idx <= x * n /\ (x + 1) * n = x * n + n
      BY <1>3, <1>8
    <3> QED BY <1>3, <1>7, <3>1
  <2>2. (S * idx + h) \div n <= x
    BY <1>3, <2>1, QuotientBounds
  <2>3. (S * idx + h) \div n \in Nat
    BY <1>3, <2>1, Division
  <2> QED BY <1>1, <1>3, <1>5, <1>6, <2>2, <2>3
<1>11. f <= SourceFrequency(idx + 1)
  <2>1. S * (idx + 1) + h \in Nat /\ x * n <= S * (idx + 1) + h
    <3>1. S * (idx + 1) = idx * S + S /\ idx * S \in Nat
      BY <1>3, <1>8
    <3> QED BY <1>3, <1>7, <1>8, <3>1
  <2>2. x <= (S * (idx + 1) + h) \div n
    BY <1>3, <2>1, QuotientBounds
  <2>3. (S * (idx + 1) + h) \div n \in Nat
    BY <1>3, <2>1, Division
  <2> QED BY <1>1, <1>3, <1>5, <1>6, <2>2, <2>3
<1>12. /\ SourceFrequency(idx) = CalFrequency(idx)
       /\ SourceFrequency(idx + 1) = CalFrequency(idx + 1)
  BY <1>1, <1>8, SameSource
<1> QED BY <1>8, <1>9, <1>10, <1>11, <1>12 DEF n, idx

(***************************************************************************)
(* cal_interpolate (main.c:2008) always finds two calibrated points, and   *)
(* they enclose the frequency, for every calibrated range and number of    *)
(* points: neither f - src_f0 nor the index leaves its range.              *)
(***************************************************************************)
THEOREM InterpolationSound == Spec => []InterpolationEncloses
<1>1. RangeInv => InterpolationEncloses
  BY Enclosed DEF InterpolationEncloses
<1> QED BY <1>1, RangeInit, RangeStep, PTL DEF Spec

-----------------------------------------------------------------------------
\* A higher frequency is in the same band or in a later one.
LEMMA LevelAscends ==
  ASSUME NEW f \in Nat, NEW g \in Nat, f <= g
  PROVE  /\ HarmonicLevel(f) \in Nat /\ HarmonicLevel(g) \in Nat
         /\ HarmonicLevel(f) <= HarmonicLevel(g)
<1> DEFINE Below(x) == {l \in Limits : l < x}
<1>0. \A l \in Limits : l \in Nat
  BY InputAssumption, Zenon
<1>1. IsFiniteSet(Below(g))
  <2>1. Below(g) \in SUBSET Nat /\ \A l \in Below(g) : l <= g
    BY <1>0
  <2> QED BY <2>1, FS_BoundedSetOfNaturals
<1>2. Below(f) \in SUBSET Below(g)
  BY <1>0
<1>3. IsFiniteSet(Below(f)) /\ Cardinality(Below(f)) <= Cardinality(Below(g))
  BY <1>1, <1>2, FS_Subset
<1>4. Cardinality(Below(f)) \in Nat /\ Cardinality(Below(g)) \in Nat
  BY <1>1, <1>3, FS_CardinalityType
<1> QED BY <1>3, <1>4 DEF HarmonicLevel

\* The frequencies of the calibrated points do not decrease.
LEMMA PointsAscend ==
  ASSUME RangeInv, NEW i \in Nat
  PROVE  /\ CalFrequency(i) \in Nat /\ CalFrequency(i + 1) \in Nat
         /\ CalFrequency(i) <= CalFrequency(i + 1)
         /\ CalFrequency(i) = SourceFrequency(i)
<1>1. /\ cal[1] \in Nat /\ cal[2] \in Nat /\ cal[1] <= cal[2]
      /\ cal[3] \in Nat \ {0, 1}
  <2>1. cal[1] \in Freq /\ cal[2] \in Freq /\ cal[3] \in PointCounts
    BY DEF RangeInv, TypeOK
  <2>2. cal[1] \in Nat /\ cal[2] \in Nat
    BY <2>1, WidthAssumption DEF Freq
  <2>3. cal[3] \in Nat \ {0, 1}
    BY <2>1, InputAssumption, Zenon
  <2>4. cal[1] <= cal[2]
    BY DEF RangeInv
  <2> QED BY <2>2, <2>3, <2>4
<1> DEFINE n == cal[3] - 1
           S == cal[2] - cal[1]
           h == n \div 2
           a == S * i + h
           b == S * (i + 1) + h
<1>2. n \in Nat \ {0} /\ S \in Nat /\ h \in Nat
  BY <1>1
<1>3. SourceFrequency(i) = cal[1] + (a \div n) /\ SourceFrequency(i + 1) = cal[1] + (b \div n)
  BY DEF SourceFrequency
<1> HIDE DEF n, S, h
<1>4. a \in Nat /\ b \in Nat /\ a <= b
  <2>1. S * i \in Nat /\ S * (i + 1) = S * i + S
    BY <1>2
  <2> QED BY <1>2, <2>1
<1> HIDE DEF a, b
<1> DEFINE d == a \div n
<1>5. d \in Nat /\ d * n <= a
  BY <1>2, <1>4, Division
<1> HIDE DEF d
<1>6. d * n <= b
  <2>1. d * n \in Nat
    BY <1>2, <1>5
  <2> QED BY <1>4, <1>5, <2>1
<1>7. d <= b \div n /\ b \div n \in Nat
  BY <1>2, <1>4, <1>5, <1>6, QuotientBounds, Division
<1>8. SourceFrequency(i) = cal[1] + d
  BY <1>3 DEF d
<1>9. SourceFrequency(i) = CalFrequency(i) /\ SourceFrequency(i + 1) = CalFrequency(i + 1)
  BY <1>1, SameSource
<1> DEFINE e == b \div n
<1>10. SourceFrequency(i + 1) = cal[1] + e /\ d <= e /\ e \in Nat
  BY <1>3, <1>7
<1> HIDE DEF e
<1> QED BY <1>1, <1>5, <1>8, <1>9, <1>10

(***************************************************************************)
(* cal_interpolate (main.c:2018) does not mix bands where it need not: for *)
(* every band table, range and number of points, if two neighbouring       *)
(* points around f were measured in its band, only points of that band are *)
(* used for f; if one of the two next to f was, it is used.                *)
(***************************************************************************)
THEOREM BandsAreNotMixed == Spec => []SameBandUsed
<1>1. RangeInv => SameBandUsed
  <2> SUFFICES ASSUME RangeInv, NEW f \in Between
               PROVE  LET idx == IndexBelow(f)
                      IN  /\ (\E i \in idx - 1 .. idx + 1 : {i, i + 1} \subseteq InBand(f))
                               => Used(f) \subseteq InBand(f)
                          /\ {idx, idx + 1} \cap InBand(f) # {}
                               => Used(f) \cap InBand(f) # {}
    BY DEF SameBandUsed
  <2>2. PICK idx : idx = IndexBelow(f)
    OBVIOUS
  <2>3. PICK c0, c1, n : c0 = CalFrequency(idx) /\ c1 = CalFrequency(idx + 1) /\ n = cal[3] - 1
    OBVIOUS
  <2>4. /\ idx \in Nat /\ idx + 1 <= n /\ c0 <= f /\ f <= c1
        /\ SourceFrequency(idx) = c0 /\ SourceFrequency(idx + 1) = c1
    BY <2>2, <2>3, Enclosed
  <2>5. c0 \in Nat /\ c1 \in Nat /\ c0 <= c1
    BY <2>3, <2>4, PointsAscend
  <2>6. f \in Nat /\ ~(f <= cal[1]) /\ ~(f >= cal[2]) /\ n \in Int
    <3>1. cal[1] \in Freq /\ cal[2] \in Freq /\ cal[3] \in PointCounts
      BY DEF RangeInv, TypeOK
    <3>2. cal[1] \in Nat /\ cal[2] \in Nat
      BY <3>1, WidthAssumption DEF Freq
    <3>3. cal[3] \in Nat
      BY <3>1, InputAssumption, Zenon
    <3> QED BY <2>3, <3>2, <3>3 DEF Between
  <2>7. PICK h0, h, h1 : h0 = HarmonicLevel(c0) /\ h = HarmonicLevel(f) /\ h1 = HarmonicLevel(c1)
    OBVIOUS
  <2>8. h0 \in Nat /\ h \in Nat /\ h1 \in Nat /\ h0 <= h /\ h <= h1
    BY <2>4, <2>5, <2>6, <2>7, LevelAscends
  <2>9. PICK B : B = InBand(f)
    OBVIOUS
  <2>10. /\ idx \in B <=> h0 = h
         /\ idx + 1 \in B <=> h1 = h
    BY <2>3, <2>4, <2>6, <2>7, <2>9 DEF InBand
  <2>11. PICK U : U = Used(f)
    OBVIOUS
  <2>12. \E u : /\ U = {u[1], u[2]}
                /\ u = IF f = c0 THEN <<idx, idx>>
                       ELSE IF h0 = h1 THEN <<idx, idx + 1>>
                       ELSE AwayFromLimit(idx, f)
    <3>1. CalInterpolate(f) = IF f = c0 THEN <<idx, idx>>
                              ELSE IF h0 = h1 THEN <<idx, idx + 1>>
                              ELSE AwayFromLimit(idx, f)
      BY <2>2, <2>4, <2>6, <2>7 DEF CalInterpolate
    <3> QED BY <2>11, <3>1 DEF Used
  <2>13. AwayFromLimit(idx, f) = IF h0 = h
                                 THEN IF idx < 1 THEN <<idx, idx>> ELSE <<idx - 1, idx>>
                                 ELSE <<idx + 1, idx + 2>>
    <3>1. ~(idx >= cal[3] - 1)
      BY <2>3, <2>4, <2>6
    <3> QED BY <2>4, <2>7, <3>1 DEF AwayFromLimit
  <2> SUFFICES /\ (\E i \in idx - 1 .. idx + 1 : {i, i + 1} \subseteq B) => U \subseteq B
               /\ {idx, idx + 1} \cap B # {} => U \cap B # {}
    BY <2>2, <2>9, <2>11
  <2>14. CASE f = c0
    <3>1. U = {idx} /\ idx \in B
      BY <2>7, <2>10, <2>12, <2>14
    <3> QED BY <3>1
  <2>15. CASE f # c0 /\ h0 = h1
    <3>1. U = {idx, idx + 1}
      BY <2>12, <2>15
    <3>2. idx \in B /\ idx + 1 \in B
      BY <2>8, <2>10, <2>15
    <3> QED BY <3>1, <3>2
  <2>16. CASE f # c0 /\ h0 # h1 /\ h0 = h
    <3>1. idx \in B /\ idx + 1 \notin B
      BY <2>10, <2>16
    <3>2. U = {idx} \/ U = {idx - 1, idx}
      BY <2>12, <2>13, <2>16
    <3>3. ASSUME NEW i \in idx - 1 .. idx + 1, {i, i + 1} \subseteq B
          PROVE  idx - 1 \in B
      <4>1. i # idx /\ i # idx + 1
        BY <3>1, <3>3
      <4>2. i = idx - 1
        BY <2>4, <3>3, <4>1
      <4> QED BY <3>3, <4>2
    <3> QED BY <3>1, <3>2, <3>3
  <2>17. CASE f # c0 /\ h0 # h1 /\ h0 # h
    <3>1. idx \notin B
      BY <2>10, <2>17
    <3>2. U = {idx + 1, idx + 2}
      BY <2>12, <2>13, <2>17
    <3>3. ASSUME NEW i \in idx - 1 .. idx + 1, {i, i + 1} \subseteq B
          PROVE  idx + 1 \in B /\ idx + 2 \in B
      <4>1. i # idx /\ i + 1 # idx
        BY <3>1, <3>3
      <4>2. i = idx + 1 /\ i + 1 = idx + 2
        BY <2>4, <3>3, <4>1
      <4> QED BY <3>3, <4>2
    <3> QED BY <3>1, <3>2, <3>3
  <2> QED BY <2>14, <2>15, <2>16, <2>17
<1> QED BY <1>1, RangeInit, RangeStep, PTL DEF Spec
=============================================================================
