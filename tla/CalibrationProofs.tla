------------------------- MODULE CalibrationProofs -------------------------
(***************************************************************************)
(* Proofs about Calibration: for every set of ranges, point counts and     *)
(* kits, the flags of cal_status tell the truth about the arrays of        *)
(* standards, terms are copied point by point only when the calibrated     *)
(* grid is the sweep's, and DONE leaves error terms at every point.        *)
(***************************************************************************)
EXTENDS Calibration, TLAPS

Data == [Types -> [Index -> Values]]
CalRec == [st : SUBSET Flags, d : Data]

\* A step of cal_done leaves LOAD and ISOLN alone once they are taken, and the
\* interpolation flag.
Keeps(c, e) ==
  /\ e \in CalRec
  /\ \A u \in {"load", "isoln"} : u \in c.st => e.d[u] = c.d[u]
  /\ \A u \in {"load", "isoln", "INTERPOLATED"} : u \in e.st <=> u \in c.st

\* The points of a number of points in use are indices of the arrays.
LEMMA IndexFacts ==
  /\ Index \subseteq Nat
  /\ \A n \in PointCounts : n \in Nat /\ n > 1 /\ \A i \in 0 .. n - 1 : i \in Index
BY CalConstants DEF Index

\* The parts of a grid.
LEMMA SetType ==
  ASSUME NEW g \in Grids
  PROVE  g[2] \in PointCounts /\ g[1] \in Ranges
BY DEF Grids

\* What a measurement and the eterm_ formulas give is a value.
LEMMA RawValue ==
  ASSUME NEW t \in Types, NEW g \in Grids
  PROVE  Raw(t, g) \in Values /\ Raw(t, g)[3] = g
BY DEF Raw, Values

\* The constants are values.
LEMMA ConstantValues == {Zero, One, Bad, Other} \subseteq Values
BY DEF Values

\* The formulas of eterm_calc_es, eterm_calc_er and eterm_calc_et give values.
LEMMA TermValues ==
  ASSUME NEW c \in CalRec, NEW i \in Index
  PROVE  /\ EsOf(c, i) \in Values
         /\ \A from \in Types : ErOf(c, from, i) \in Values
         /\ EtOf(c, i) \in Values
<1>1. ASSUME NEW v PROVE Ed(v) \in {"load", "zero"}
  BY DEF Ed
<1>2. ASSUME NEW g \in Grids, NEW d \in {"load", "zero"}
      PROVE  /\ <<"es", g, d>> \in Values /\ <<"er", g, d>> \in Values
             /\ <<"et", g>> \in Values
  BY DEF Values
<1>3. EsOf(c, i) \in Values
  <2>1. CASE \E g \in Grids : /\ c.d["open"][i] = Raw("open", g)
                              /\ c.d["short"][i] = Raw("short", g)
                              /\ c.d["load"][i] \in {Raw("load", g), Zero}
    <3>1. PICK g \in Grids : c.d["open"][i] = Raw("open", g)
      BY <2>1
    <3>2. c.d["open"][i][3] = g
      BY <3>1, RawValue DEF Types
    <3>3. EsOf(c, i) = <<"es", g, Ed(c.d["load"][i])>>
      BY <2>1, <3>2 DEF EsOf
    <3> QED BY <1>1, <1>2, <3>3
  <2>2. CASE ~ \E g \in Grids : /\ c.d["open"][i] = Raw("open", g)
                                /\ c.d["short"][i] = Raw("short", g)
                                /\ c.d["load"][i] \in {Raw("load", g), Zero}
    BY <2>2, ConstantValues DEF EsOf
  <2> QED BY <2>1, <2>2
<1>4. ASSUME NEW from \in Types PROVE ErOf(c, from, i) \in Values
  <2> DEFINE Right(g) == /\ c.d["short"][i] = Raw(from, g)
                         /\ c.d["load"][i] \in {Raw("load", g), Zero}
                         /\ c.d["open"][i] \in {Zero, <<"es", g, Ed(c.d["load"][i])>>}
  <2>1. CASE \E g \in Grids : Right(g)
    <3>1. PICK g \in Grids : Right(g)
      BY <2>1
    <3>2. c.d["short"][i][3] = g
      BY <3>1, RawValue
    <3>3. ErOf(c, from, i) = <<"er", g, Ed(c.d["load"][i])>>
      BY <2>1, <3>2 DEF ErOf
    <3> QED BY <1>1, <1>2, <3>3
  <2>2. CASE ~ \E g \in Grids : Right(g)
    BY <2>2, ConstantValues DEF ErOf
  <2> QED BY <2>1, <2>2
<1>5. EtOf(c, i) \in Values
  <2> DEFINE Right(g) == /\ c.d["thru"][i] = Raw("thru", g)
                         /\ c.d["isoln"][i] \in {Raw("isoln", g), Zero}
  <2>1. CASE \E g \in Grids : Right(g)
    <3>1. PICK g \in Grids : Right(g)
      BY <2>1
    <3>2. c.d["thru"][i][3] = g
      BY <3>1, RawValue DEF Types
    <3>3. EtOf(c, i) = <<"et", g>>
      BY <2>1, <3>2 DEF EtOf
    <3> QED BY <1>2, <3>3
  <2>2. CASE ~ \E g \in Grids : Right(g)
    BY <2>2, ConstantValues DEF EtOf
  <2> QED BY <2>1, <2>2
<1> QED BY <1>3, <1>4, <1>5

-----------------------------------------------------------------------------
\* The loops of the eterm_ functions change one array and no flag.
LEMMA ForPointsKeeps ==
  ASSUME NEW c \in CalRec, NEW t \in Types, NEW terms \in [Index -> Values]
  PROVE  /\ ForPoints(c, t, terms) \in CalRec
         /\ ForPoints(c, t, terms).st = c.st
         /\ \A u \in Types : u # t => ForPoints(c, t, terms).d[u] = c.d[u]
<1> DEFINE new == [i \in Index |-> IF i < sweep_points THEN terms[i] ELSE c.d[t][i]]
           e == [c EXCEPT !.d = [c.d EXCEPT ![t] = new]]
<1>1. c.d \in Data /\ c.st \in SUBSET Flags
  BY DEF CalRec
<1>2. new \in [Index -> Values]
  BY <1>1 DEF Data
<1>3. ForPoints(c, t, terms) = e
  BY <1>1 DEF ForPoints, CalRec
<1> HIDE DEF new
<1>4. [c.d EXCEPT ![t] = new] \in Data
  BY <1>1, <1>2 DEF Data
<1>5. e \in CalRec /\ e.st = c.st /\ e.d = [c.d EXCEPT ![t] = new]
  BY <1>1, <1>4 DEF CalRec
<1>6. \A u \in Types : u # t => e.d[u] = c.d[u]
  BY <1>1, <1>5 DEF Data
<1> QED BY <1>3, <1>5, <1>6

\* eterm_set.
LEMMA EtermSetKeeps ==
  ASSUME NEW c \in CalRec, NEW t \in Types, NEW v \in Values,
         t \in {"load", "isoln"} => t \notin c.st
  PROVE  Keeps(c, EtermSet(c, t, v)) /\ EtermSet(c, t, v).st = c.st
<1> DEFINE terms == [i \in Index |-> v]
           e == ForPoints(c, t, terms)
<1>1. terms \in [Index -> Values]
  OBVIOUS
<1>2. /\ e \in CalRec /\ e.st = c.st
      /\ \A u \in Types : u # t => e.d[u] = c.d[u]
  BY <1>1, ForPointsKeeps
<1>3. EtermSet(c, t, v) = e
  BY DEF EtermSet
<1> HIDE DEF e
<1> QED BY <1>2, <1>3 DEF Keeps, Types

\* A change of flags other than LOAD, ISOLN and INTERPOLATED.
LEMMA FlagKeeps ==
  ASSUME NEW c \in CalRec, NEW s \in SUBSET Flags,
         \A u \in {"load", "isoln", "INTERPOLATED"} : u \in s <=> u \in c.st
  PROVE  Keeps(c, [c EXCEPT !.st = s]) /\ [c EXCEPT !.st = s].st = s
BY DEF Keeps, CalRec

\* The steps of cal_done compose.
LEMMA KeepsTrans ==
  ASSUME NEW c, NEW d, NEW e, Keeps(c, d), Keeps(d, e)
  PROVE  Keeps(c, e)
BY DEF Keeps

\* A step of cal_done that does nothing keeps everything.
LEMMA KeepsSelf == ASSUME NEW c \in CalRec PROVE Keeps(c, c)
BY DEF Keeps

\* eterm_calc_es, eterm_calc_er, eterm_calc_et: one array, two flags.
LEMMA CalcKeeps ==
  ASSUME NEW c \in CalRec, NEW t \in {"open", "short", "thru"}, NEW term \in Terms,
         NEW terms \in [Index -> Values]
  PROVE  LET e == ForPoints(c, t, terms)
             r == [e EXCEPT !.st = (@ \ {t}) \cup {term}]
         IN  Keeps(c, r) /\ r.st = (c.st \ {t}) \cup {term}
<1> DEFINE e == ForPoints(c, t, terms)
           s == (e.st \ {t}) \cup {term}
<1>1. /\ e \in CalRec /\ e.st = c.st
      /\ \A u \in Types : u # t => e.d[u] = c.d[u]
  BY ForPointsKeeps DEF Types
<1> HIDE DEF e
<1>2. Keeps(c, e)
  BY <1>1 DEF Keeps, Types
<1>3. s \in SUBSET Flags
  BY <1>1 DEF CalRec, Flags, Types, Terms
<1>4. \A u \in {"load", "isoln", "INTERPOLATED"} : u \in s <=> u \in e.st
  BY <1>1 DEF Terms
<1> HIDE DEF s
<1>5. Keeps(e, [e EXCEPT !.st = s]) /\ [e EXCEPT !.st = s].st = s
  BY <1>1, <1>3, <1>4, FlagKeeps
<1>6. Keeps(c, [e EXCEPT !.st = s])
  BY <1>2, <1>5, KeepsTrans
<1>7. [e EXCEPT !.st = (@ \ {t}) \cup {term}] = [e EXCEPT !.st = s]
  BY DEF s
<1>8. s = (c.st \ {t}) \cup {term}
  BY <1>1 DEF s
<1> QED BY <1>5, <1>6, <1>7, <1>8 DEF e

\* The three functions, each with its array and flags.
LEMMA EtermCalcKeeps ==
  ASSUME NEW c \in CalRec
  PROVE  /\ Keeps(c, EtermCalcEs(c)) /\ EtermCalcEs(c).st = (c.st \ {"open"}) \cup {"ES"}
         /\ \A from \in Types :
              /\ Keeps(c, EtermCalcEr(c, from))
              /\ EtermCalcEr(c, from).st = (c.st \ {"short"}) \cup {"ER"}
         /\ Keeps(c, EtermCalcEt(c)) /\ EtermCalcEt(c).st = (c.st \ {"thru"}) \cup {"ET"}
<1>1. [i \in Index |-> EsOf(c, i)] \in [Index -> Values]
  BY TermValues
<1>2. ASSUME NEW from \in Types
      PROVE  [i \in Index |-> ErOf(c, from, i)] \in [Index -> Values]
  BY TermValues
<1>3. [i \in Index |-> EtOf(c, i)] \in [Index -> Values]
  BY TermValues
<1>4. "ES" \in Terms /\ "ER" \in Terms /\ "ET" \in Terms
  BY DEF Terms
<1>5. Keeps(c, EtermCalcEs(c)) /\ EtermCalcEs(c).st = (c.st \ {"open"}) \cup {"ES"}
  BY <1>1, <1>4, CalcKeeps DEF EtermCalcEs
<1>6. ASSUME NEW from \in Types
      PROVE  /\ Keeps(c, EtermCalcEr(c, from))
             /\ EtermCalcEr(c, from).st = (c.st \ {"short"}) \cup {"ER"}
  BY <1>2, <1>4, CalcKeeps DEF EtermCalcEr
<1>7. Keeps(c, EtermCalcEt(c)) /\ EtermCalcEt(c).st = (c.st \ {"thru"}) \cup {"ET"}
  BY <1>3, <1>4, CalcKeeps DEF EtermCalcEt
<1> QED BY <1>5, <1>6, <1>7

\* eterm_copy of the OPEN to the SHORT.
LEMMA EtermCopyKeeps ==
  ASSUME NEW c \in CalRec
  PROVE  Keeps(c, EtermCopy(c)) /\ EtermCopy(c).st = c.st \ {"open"}
<1> DEFINE n == [c.d EXCEPT !["short"] = c.d["open"]]
           e == [c EXCEPT !.d = n, !.st = c.st \ {"open"}]
<1>1. c.d \in Data /\ c.st \in SUBSET Flags
  BY DEF CalRec
<1>2. n \in Data /\ \A u \in Types : u # "short" => n[u] = c.d[u]
  BY <1>1 DEF Data, Types
<1>3. EtermCopy(c) = e
  BY DEF EtermCopy, CalRec
<1> HIDE DEF n
<1>4. e \in CalRec /\ e.d = n /\ e.st = c.st \ {"open"}
  BY <1>1, <1>2 DEF CalRec
<1> HIDE DEF e
<1> QED BY <1>2, <1>3, <1>4 DEF Keeps, Types

\* A default is set only for a standard or term whose flag is clear.
LEMMA DefaultKeeps ==
  ASSUME NEW c \in CalRec, NEW t \in Types, NEW flag, NEW v \in Values,
         t \in {"load", "isoln"} => flag = t
  PROVE  Keeps(c, Default(c, flag, t, v)) /\ Default(c, flag, t, v).st = c.st
BY EtermSetKeeps, KeepsSelf DEF Default

(***************************************************************************)
(* The reflection part of cal_done leaves neither OPEN nor SHORT flagged,  *)
(* and does nothing without them.                                          *)
(***************************************************************************)
LEMMA ReflectionKeeps ==
  ASSUME NEW c \in CalRec
  PROVE  /\ Keeps(c, Reflection(c))
         /\ Reflection(c).st \cap {"open", "short"} = {}
         /\ c.st \cap {"open", "short"} = {} => Reflection(c) = c
<1>1. CASE {"open", "short"} \subseteq c.st
  <2> DEFINE e == EtermCalcEs(c)
             r == EtermCalcEr(e, "short")
  <2>1. Keeps(c, e) /\ e.st = (c.st \ {"open"}) \cup {"ES"}
    BY EtermCalcKeeps
  <2>2. e \in CalRec
    BY <2>1 DEF Keeps
  <2> HIDE DEF e
  <2>3. Keeps(e, r) /\ r.st = (e.st \ {"short"}) \cup {"ER"}
    BY <2>2, EtermCalcKeeps DEF Types
  <2> HIDE DEF r
  <2>4. Reflection(c) = r
    BY <1>1 DEF Reflection, r, e
  <2>5. Keeps(c, r)
    BY <2>1, <2>3, KeepsTrans
  <2> QED BY <1>1, <2>1, <2>3, <2>4, <2>5
<1>2. CASE c.st \cap {"open", "short"} = {"open"}
  <2> DEFINE e == EtermCopy(c)
             f == EtermSet(e, "open", Zero)
             r == EtermCalcEr(f, "open")
  <2>1. Keeps(c, e) /\ e.st = c.st \ {"open"}
    BY EtermCopyKeeps
  <2>2. e \in CalRec
    BY <2>1 DEF Keeps
  <2> HIDE DEF e
  <2>3. Keeps(e, f) /\ f.st = e.st
    BY <2>2, EtermSetKeeps, ConstantValues DEF Types
  <2>4. f \in CalRec
    BY <2>3 DEF Keeps
  <2> HIDE DEF f
  <2>5. Keeps(f, r) /\ r.st = (f.st \ {"short"}) \cup {"ER"}
    BY <2>4, EtermCalcKeeps DEF Types
  <2> HIDE DEF r
  <2>6. ~({"open", "short"} \subseteq c.st)
    BY <1>2
  <2>7. Reflection(c) = r
    BY <1>2, <2>6 DEF Reflection, r, f, e
  <2>8. Keeps(c, f)
    BY <2>1, <2>3, KeepsTrans
  <2>9. Keeps(c, r)
    BY <2>5, <2>8, KeepsTrans
  <2> QED BY <1>2, <2>1, <2>3, <2>5, <2>7, <2>9
<1>3. CASE c.st \cap {"open", "short"} = {"short"}
  <2> DEFINE f == EtermSet(c, "open", Zero)
             r == EtermCalcEr(f, "short")
  <2>1. Keeps(c, f) /\ f.st = c.st
    BY EtermSetKeeps, ConstantValues DEF Types
  <2>2. f \in CalRec
    BY <2>1 DEF Keeps
  <2> HIDE DEF f
  <2>3. Keeps(f, r) /\ r.st = (f.st \ {"short"}) \cup {"ER"}
    BY <2>2, EtermCalcKeeps DEF Types
  <2> HIDE DEF r
  <2>4. ~({"open", "short"} \subseteq c.st) /\ c.st \cap {"open", "short"} # {"open"}
    BY <1>3
  <2>5. Reflection(c) = r
    BY <1>3, <2>4 DEF Reflection, r, f
  <2>6. Keeps(c, r)
    BY <2>1, <2>3, KeepsTrans
  <2> QED BY <1>3, <2>1, <2>3, <2>5, <2>6
<1>4. CASE c.st \cap {"open", "short"} = {}
  <2>1. /\ ~({"open", "short"} \subseteq c.st)
        /\ c.st \cap {"open", "short"} # {"open"}
        /\ c.st \cap {"open", "short"} # {"short"}
    BY <1>4
  <2>2. Reflection(c) = c
    BY <2>1 DEF Reflection
  <2> QED BY <1>4, <2>2, KeepsSelf
<1> QED BY <1>1, <1>2, <1>3, <1>4

\* The transmission part likewise.
LEMMA TransmissionKeeps ==
  ASSUME NEW c \in CalRec
  PROVE  /\ Keeps(c, Transmission(c))
         /\ Transmission(c).st \cap {"open", "short", "thru"}
              = c.st \cap {"open", "short"}
         /\ "thru" \notin c.st => Transmission(c) = c
<1>1. CASE "thru" \in c.st
  <2>1. Transmission(c) = EtermCalcEt(c)
    BY <1>1 DEF Transmission
  <2> QED BY <1>1, <2>1, EtermCalcKeeps
<1>2. CASE "thru" \notin c.st
  BY <1>2, KeepsSelf DEF Transmission
<1> QED BY <1>1, <1>2

(***************************************************************************)
(* cal_done: OPEN, SHORT and THRU are turned into terms, LOAD and ISOLN    *)
(* stay, and without any standard or term it adds none.                    *)
(***************************************************************************)
LEMMA DoneKeeps ==
  ASSUME NEW c \in CalRec
  PROVE  /\ Keeps(c, DoneTerms(c))
         /\ DoneTerms(c).st \cap {"open", "short", "thru"} = {}
         /\ c.st \cap (Types \cup Terms) = {} => DoneTerms(c).st = c.st
<1> DEFINE a == Default(c, "load", "load", Zero)
           b == Default(a, "isoln", "isoln", Zero)
           r == Reflection(b)
           t == Transmission(r)
           x == Default(t, "ET", "thru", One)
           y == Default(x, "ER", "short", One)
           z == Default(y, "ES", "open", Zero)
<1>0. /\ {Zero, One} \subseteq Values
      /\ {"load", "isoln", "open", "short", "thru"} \subseteq Types
  BY ConstantValues DEF Types
<1>1. Keeps(c, a) /\ a.st = c.st
  BY <1>0, DefaultKeeps
<1>2. a \in CalRec
  BY <1>1 DEF Keeps
<1> HIDE DEF a
<1>3. Keeps(a, b) /\ b.st = a.st
  BY <1>0, <1>2, DefaultKeeps
<1>4. b \in CalRec
  BY <1>3 DEF Keeps
<1> HIDE DEF b
<1>5. /\ Keeps(b, r) /\ r.st \cap {"open", "short"} = {}
      /\ b.st \cap {"open", "short"} = {} => r = b
  BY <1>4, ReflectionKeeps
<1>6. r \in CalRec
  BY <1>5 DEF Keeps
<1> HIDE DEF r
<1>7. /\ Keeps(r, t) /\ t.st \cap {"open", "short", "thru"} = r.st \cap {"open", "short"}
      /\ "thru" \notin r.st => t = r
  BY <1>6, TransmissionKeeps
<1>8. t \in CalRec
  BY <1>7 DEF Keeps
<1> HIDE DEF t
<1>9. Keeps(t, x) /\ x.st = t.st
  BY <1>0, <1>8, DefaultKeeps
<1>10. x \in CalRec
  BY <1>9 DEF Keeps
<1> HIDE DEF x
<1>11. Keeps(x, y) /\ y.st = x.st
  BY <1>0, <1>10, DefaultKeeps
<1>12. y \in CalRec
  BY <1>11 DEF Keeps
<1> HIDE DEF y
<1>13. Keeps(y, z) /\ z.st = y.st
  BY <1>0, <1>12, DefaultKeeps
<1> HIDE DEF z
<1>14. DoneTerms(c) = z
  BY DEF DoneTerms, a, b, r, t, x, y, z
<1>15. Keeps(c, z)
  BY <1>1, <1>3, <1>5, <1>7, <1>9, <1>11, <1>13 DEF Keeps
<1>16. c.st \cap (Types \cup Terms) = {} => z.st = c.st
  BY <1>0, <1>1, <1>3, <1>5, <1>7, <1>9, <1>11, <1>13
<1> QED BY <1>5, <1>7, <1>9, <1>11, <1>13, <1>14, <1>15, <1>16

-----------------------------------------------------------------------------
\* The sweep that measures a standard restarts at point 0, and without a
\* scan the grid in force is the stimulus's.
PlaceInv ==
  /\ pc = "idle" => p_sweep = 0
  /\ ~foreign => grid = Here

\* What a standard being taken has measured so far, when nothing disturbed it.
CollectInv ==
  pc # "idle" /\ std \notin spoiled =>
    /\ cal_range = Here /\ grid = Here
    /\ \A i \in Index : i < p_sweep => measured[i] = Raw(std, cal_range)

CalInv == TypeOK /\ PlaceInv /\ CollectInv /\ StandardsMatchRange /\ DirectCopyRight

\* The stimulus in force is a grid.
LEMMA HereType == ASSUME TypeOK PROVE Here \in Grids
BY DEF TypeOK, Here, Grids

\* The invariant holds in the initial states.
LEMMA CalInit == Init => CalInv
<1> SUFFICES ASSUME Init PROVE CalInv OBVIOUS
<1>1. Here \in Grids
  BY DEF Init, Here, Grids
<1>2. /\ cal_data \in [Types -> [Index -> Values]]
      /\ measured \in [Index -> Values]
  BY ConstantValues DEF Init
<1>3. p_sweep \in Nat /\ \E n \in PointCounts : p_sweep <= n
  BY IndexFacts DEF Init
<1>4. TypeOK
  BY <1>1, <1>2, <1>3 DEF Init, TypeOK, Types
<1>5. PlaceInv /\ CollectInv
  BY DEF Init, PlaceInv, CollectInv
<1>6. StandardsMatchRange /\ DirectCopyRight
  BY DEF Init, StandardsMatchRange, DirectCopyRight
<1> QED BY <1>4, <1>5, <1>6 DEF CalInv

\* update_frequencies sets or clears one flag.
LEMMA MarkFacts ==
  ASSUME TypeOK, NEW g \in Grids
  PROVE  /\ MarkInterpolated(g) \subseteq Flags
         /\ MarkInterpolated(g) \cap (Types \cup Terms) = cal_status \cap (Types \cup Terms)
         /\ MarkInterpolated(g) \cap Types = cal_status \cap Types
         /\ "INTERPOLATED" \notin MarkInterpolated(g) => g = cal_range
BY DEF MarkInterpolated, TypeOK, Flags, Types, Terms

\* What update_frequencies keeps, however it is reached.
LEMMA UpdateFacts ==
  ASSUME CalInv, NEW g \in Grids, UpdateFrequencies(g)
  PROVE  /\ stim' \in Ranges /\ sweep_points' \in PointCounts /\ grid' = g /\ Here' = g
         /\ cal_status' \subseteq Flags /\ cal_status' \cap Types = cal_status \cap Types
         /\ foreign' = FALSE
         /\ UNCHANGED <<kit, cal_range, cal_data, computed>>
         /\ DirectCopyRight'
<1>1. stim' = g[1] /\ sweep_points' = g[2] /\ g = <<g[1], g[2]>> /\ grid' = g
  BY DEF UpdateFrequencies, Grids
<1>2. g[1] \in Ranges /\ g[2] \in PointCounts
  BY SetType
<1>3. Here' = g
  BY <1>1 DEF Here
<1>4. /\ cal_status' \subseteq Flags /\ cal_status' \cap Types = cal_status \cap Types
      /\ "INTERPOLATED" \notin cal_status' => g = cal_range
  BY MarkFacts DEF UpdateFrequencies, CalInv
<1>5. foreign' = FALSE /\ UNCHANGED <<kit, cal_range, cal_data, computed>>
  BY DEF UpdateFrequencies
<1>6. DirectCopyRight'
  BY <1>3, <1>4, <1>5 DEF DirectCopyRight
<1> QED BY <1>1, <1>2, <1>3, <1>4, <1>5, <1>6

\* An idle change of stimulus or points.
LEMMA IdleUpdate ==
  ASSUME CalInv, NEW g \in Grids, UpdateFrequencies(g), pc = "idle",
         UNCHANGED <<collectVars, spoiled>>
  PROVE  CalInv'
<1>1. /\ stim' \in Ranges /\ sweep_points' \in PointCounts /\ grid' = g /\ Here' = g
      /\ cal_status' \subseteq Flags /\ cal_status' \cap Types = cal_status \cap Types
      /\ foreign' = FALSE
      /\ UNCHANGED <<kit, cal_range, cal_data, computed>>
      /\ DirectCopyRight'
  BY UpdateFacts
<1>2. TypeOK'
  BY <1>1 DEF CalInv, TypeOK, collectVars
<1>3. PlaceInv' /\ CollectInv'
  BY <1>1 DEF CalInv, PlaceInv, CollectInv, collectVars
<1>4. StandardsMatchRange'
  BY <1>1 DEF CalInv, StandardsMatchRange, CalPoints, collectVars
<1> QED BY <1>1, <1>2, <1>3, <1>4 DEF CalInv

\* A console sweep in the middle of a standard spoils that standard only.
LEMMA LiveSweepStep ==
  ASSUME CalInv, NEW g \in Grids, LiveSweep(g)
  PROVE  CalInv'
<1>1. /\ stim' \in Ranges /\ sweep_points' \in PointCounts /\ grid' = g /\ Here' = g
      /\ cal_status' \subseteq Flags /\ cal_status' \cap Types = cal_status \cap Types
      /\ foreign' = FALSE
      /\ UNCHANGED <<kit, cal_range, cal_data, computed>>
      /\ DirectCopyRight'
  BY UpdateFacts DEF LiveSweep
<1>2. /\ pc = "ui" /\ UNCHANGED <<std, pc>>
      /\ spoiled' = spoiled \cup {std}
  BY DEF LiveSweep
<1>3. TypeOK
  BY DEF CalInv
<1>4. measured' \in [Index -> Values]
  <2>1. Raw(std, grid) \in Values
    BY <1>3, RawValue DEF TypeOK
  <2> QED BY <1>3, <2>1 DEF LiveSweep, TypeOK
<1>5. p_sweep' \in Nat /\ \E n \in PointCounts : p_sweep' <= n
  BY <1>3, IndexFacts DEF LiveSweep, TypeOK
<1>6. std \in Types /\ spoiled' \subseteq Types
  BY <1>2, <1>3 DEF TypeOK
<1>7. TypeOK'
  BY <1>1, <1>2, <1>3, <1>4, <1>5, <1>6 DEF TypeOK
<1>8. PlaceInv' /\ CollectInv'
  BY <1>1, <1>2 DEF PlaceInv, CollectInv
<1>9. StandardsMatchRange'
  BY <1>1, <1>2 DEF CalInv, StandardsMatchRange, CalPoints
<1> QED BY <1>1, <1>7, <1>8, <1>9 DEF CalInv

\* scan changes the grid and the points and says so in foreign.
LEMMA ScanStep ==
  ASSUME CalInv, NEW g \in Grids, Scan(g)
  PROVE  CalInv'
<1>1. g[2] \in PointCounts
  BY SetType
<1>2. TypeOK'
  BY <1>1 DEF CalInv, Scan, TypeOK, calVars, collectVars
<1>3. PlaceInv' /\ CollectInv' /\ DirectCopyRight'
  BY DEF CalInv, Scan, PlaceInv, CollectInv, DirectCopyRight, calVars, collectVars
<1>4. StandardsMatchRange'
  BY DEF CalInv, Scan, StandardsMatchRange, CalPoints, calVars, collectVars
<1> QED BY <1>2, <1>3, <1>4 DEF CalInv

\* The start of cal_collect.
LEMMA CollectStartStep ==
  ASSUME CalInv, NEW t \in kit, NEW by \in {"ui", "cmd"}, CollectStart(t, by)
  PROVE  CalInv'
<1>1. TypeOK /\ t \in Types /\ Here \in Grids
  BY HereType, CalConstants DEF CalInv, TypeOK
<1>2. /\ pc = "idle" /\ cal_range' = Here /\ std' = t /\ pc' = by
      /\ cal_status' = (StatusForHere \ ClearFlags(t)) \cup {t}
      /\ spoiled' = IF foreign THEN spoiled \cup {t} ELSE spoiled \ {t}
      /\ UNCHANGED <<kit, sweepVars, cal_data, measured, p_sweep, foreign>>
      /\ computed' = FALSE
  BY DEF CollectStart
<1>3. StatusForHere \subseteq Flags /\ cal_status' \subseteq Flags
  BY <1>1, <1>2 DEF StatusForHere, TypeOK, Flags
<1>4. Here' = Here
  BY <1>2 DEF Here, sweepVars
<1>5. by \in {"idle", "ui", "cmd"}
  OBVIOUS
<1>6. spoiled' \subseteq Types
  BY <1>1, <1>2 DEF TypeOK
<1>7. TypeOK'
  BY <1>1, <1>2, <1>3, <1>5, <1>6 DEF TypeOK, sweepVars
<1>8. PlaceInv'
  BY <1>2, <1>4 DEF CalInv, PlaceInv, sweepVars
<1>9. CollectInv'
  <2>1. p_sweep' = 0
    BY <1>2 DEF CalInv, PlaceInv
  <2>2. ~foreign => grid = Here
    BY DEF CalInv, PlaceInv
  <2>3. \A i \in Index : ~(i < 0)
    BY IndexFacts
  <2> QED BY <1>2, <1>4, <2>1, <2>2, <2>3 DEF CollectInv, sweepVars
<1>10. StandardsMatchRange'
  <2> SUFFICES ASSUME NEW u \in (cal_status' \cap Types) \ spoiled', u # t,
                      NEW i \in CalPoints'
               PROVE  cal_data'[u][i] = Raw(u, cal_range')
    BY <1>2 DEF StandardsMatchRange
  <2>1. u \in StatusForHere
    BY <1>2
  <2>2. cal_range = Here /\ u \in cal_status
    BY <2>1 DEF StatusForHere
  <2>3. u \in (cal_status \cap Types) \ spoiled
    BY <1>2, <2>2
  <2>4. i \in CalPoints
    BY <1>2, <2>2 DEF CalPoints
  <2>5. cal_data[u][i] = Raw(u, cal_range)
    BY <1>2, <2>3, <2>4 DEF CalInv, StandardsMatchRange
  <2> QED BY <1>2, <2>2, <2>5
<1>11. DirectCopyRight'
  BY <1>2, <1>4 DEF DirectCopyRight
<1> QED BY <1>7, <1>8, <1>9, <1>10, <1>11 DEF CalInv

\* One point of the sweep of cal_collect.
LEMMA CollectPointStep ==
  ASSUME CalInv, CollectPoint
  PROVE  CalInv'
<1>1. TypeOK
  BY DEF CalInv
<1>2. /\ pc # "idle" /\ p_sweep < sweep_points
      /\ measured' = [measured EXCEPT ![p_sweep] = Raw(std, grid)]
      /\ p_sweep' = p_sweep + 1
      /\ UNCHANGED <<kit, sweepVars, calVars, std, pc, foreign>>
  BY DEF CollectPoint, MorePoints
<1>3. sweep_points \in PointCounts /\ sweep_points \in Nat /\ p_sweep \in Index
  BY <1>1, <1>2, IndexFacts DEF TypeOK
<1>4. measured' \in [Index -> Values]
  <2>1. Raw(std, grid) \in Values
    BY <1>1, RawValue DEF TypeOK
  <2> QED BY <1>1, <1>2, <1>3, <2>1 DEF TypeOK
<1>5. p_sweep' \in Nat /\ \E n \in PointCounts : p_sweep' <= n
  <2>1. p_sweep' \in Nat /\ p_sweep' <= sweep_points
    BY <1>1, <1>2, <1>3 DEF TypeOK
  <2> QED BY <1>3, <2>1
<1>6. TypeOK'
  BY <1>1, <1>2, <1>4, <1>5 DEF TypeOK, sweepVars, calVars
<1>7. Here' = Here
  BY <1>2 DEF Here, sweepVars
<1>8. PlaceInv'
  BY <1>2, <1>7 DEF CalInv, PlaceInv, sweepVars
<1>9. CollectInv'
  <2> SUFFICES ASSUME std \notin spoiled
               PROVE  /\ cal_range = Here /\ grid = Here
                      /\ \A i \in Index : i < p_sweep' => measured'[i] = Raw(std, cal_range)
    BY <1>2, <1>7 DEF CollectInv, sweepVars, calVars
  <2>1. /\ cal_range = Here /\ grid = Here
        /\ \A i \in Index : i < p_sweep => measured[i] = Raw(std, cal_range)
    BY <1>2 DEF CalInv, CollectInv
  <2>2. ASSUME NEW i \in Index, i < p_sweep' PROVE measured'[i] = Raw(std, cal_range)
    <3>1. i < p_sweep \/ i = p_sweep
      BY <1>1, <1>2, <2>2, IndexFacts DEF TypeOK
    <3>2. CASE i = p_sweep
      BY <1>1, <1>2, <2>1, <3>2 DEF TypeOK
    <3>3. CASE i < p_sweep
      <4>1. i # p_sweep
        BY <1>1, <3>3, IndexFacts DEF TypeOK
      <4> QED BY <1>1, <1>2, <2>1, <3>3, <4>1 DEF TypeOK
    <3> QED BY <3>1, <3>2, <3>3
  <2> QED BY <2>1, <2>2
<1>10. StandardsMatchRange' /\ DirectCopyRight'
  BY <1>2, <1>7 DEF CalInv, StandardsMatchRange, DirectCopyRight, CalPoints, calVars, sweepVars
<1> QED BY <1>6, <1>8, <1>9, <1>10 DEF CalInv

\* The end of cal_collect: the copy of the measured points.
LEMMA CollectEndStep ==
  ASSUME CalInv, CollectEnd
  PROVE  CalInv'
<1>1. TypeOK
  BY DEF CalInv
<1> DEFINE new == IF std \in spoiled THEN [i \in Index |-> Other] ELSE measured
<1>2. /\ pc # "idle" /\ ~(p_sweep < sweep_points)
      /\ cal_data' = [cal_data EXCEPT ![std] = new]
      /\ measured' = [i \in Index |-> Other]
      /\ p_sweep' = 0 /\ std' = "load" /\ pc' = "idle"
      /\ UNCHANGED <<kit, sweepVars, cal_range, cal_status, foreign, spoiled, computed>>
  BY DEF CollectEnd, MorePoints
<1>3. new \in [Index -> Values] /\ measured' \in [Index -> Values]
  BY <1>1, <1>2, ConstantValues DEF TypeOK
<1> HIDE DEF new
<1>4. cal_data' \in [Types -> [Index -> Values]]
  BY <1>1, <1>2, <1>3 DEF TypeOK
<1>5. p_sweep' \in Nat /\ \E n \in PointCounts : p_sweep' <= n
  BY <1>1, <1>2, IndexFacts DEF TypeOK
<1>6. "load" \in Types
  BY DEF Types
<1>7. TypeOK'
  BY <1>1, <1>2, <1>3, <1>4, <1>5, <1>6 DEF TypeOK, sweepVars
<1>8. Here' = Here
  BY <1>2 DEF Here, sweepVars
<1>9. PlaceInv' /\ CollectInv'
  BY <1>2, <1>8 DEF CalInv, PlaceInv, CollectInv, sweepVars
<1>10. DirectCopyRight'
  BY <1>2, <1>8 DEF CalInv, DirectCopyRight
<1>11. StandardsMatchRange'
  <2> SUFFICES ASSUME NEW u \in (cal_status \cap Types) \ spoiled, NEW i \in CalPoints
               PROVE  cal_data'[u][i] = Raw(u, cal_range)
    BY <1>2 DEF StandardsMatchRange, CalPoints
  <2>1. CASE u # std
    <3>1. cal_data'[u] = cal_data[u]
      BY <1>1, <1>2, <2>1 DEF TypeOK
    <3>2. cal_data[u][i] = Raw(u, cal_range)
      BY <2>1 DEF CalInv, StandardsMatchRange
    <3> QED BY <3>1, <3>2
  <2>2. CASE u = std
    <3>1. cal_data'[u] = measured
      BY <1>1, <1>2, <2>2 DEF TypeOK, new
    <3>2. /\ cal_range = Here
          /\ \A j \in Index : j < p_sweep => measured[j] = Raw(std, cal_range)
      BY <1>2, <2>2 DEF CalInv, CollectInv
    <3>3. cal_range[2] = sweep_points /\ sweep_points \in PointCounts
      BY <1>1, <3>2 DEF Here, TypeOK
    <3>4. i \in Index /\ i < p_sweep
      BY <1>1, <1>2, <3>3, IndexFacts DEF CalPoints, TypeOK
    <3> QED BY <2>2, <3>1, <3>2, <3>4
  <2> QED BY <2>1, <2>2
<1> QED BY <1>7, <1>9, <1>10, <1>11 DEF CalInv

\* DONE.
LEMMA DoneStep ==
  ASSUME CalInv, Done
  PROVE  CalInv'
<1>1. TypeOK
  BY DEF CalInv
<1> DEFINE c == [st |-> cal_status, d |-> cal_data]
           e == DoneTerms(c)
<1>2. c \in CalRec
  BY <1>1 DEF CalRec, Data, TypeOK
<1>3. /\ Keeps(c, e) /\ e.st \cap {"open", "short", "thru"} = {}
      /\ c.st \cap (Types \cup Terms) = {} => e.st = c.st
  BY <1>2, DoneKeeps
<1>4. c.st = cal_status /\ c.d = cal_data
  OBVIOUS
<1>5. /\ pc = "idle" /\ cal_status' = e.st \cup {"APPLY"} /\ cal_data' = e.d
      /\ spoiled' = Spoils /\ computed' = TRUE
      /\ UNCHANGED <<kit, sweepVars, cal_range, collectVars, foreign>>
  BY DEF Done
<1> HIDE DEF c, e
<1>6. e.st \subseteq Flags /\ e.d \in [Types -> [Index -> Values]]
  BY <1>3 DEF Keeps, CalRec, Data
<1>7. spoiled \subseteq spoiled' /\ spoiled' \subseteq Types
  BY <1>1, <1>5 DEF Spoils, TypeOK, Types
<1>8. cal_status' \subseteq Flags
  BY <1>5, <1>6 DEF Flags
<1>9. TypeOK'
  BY <1>1, <1>5, <1>6, <1>7, <1>8 DEF TypeOK, sweepVars, collectVars
<1>10. Here' = Here
  BY <1>5 DEF Here, sweepVars
<1>11. PlaceInv' /\ CollectInv'
  BY <1>5, <1>10 DEF CalInv, PlaceInv, CollectInv, sweepVars, collectVars
<1>12. StandardsMatchRange'
  <2> SUFFICES ASSUME NEW u \in (cal_status' \cap Types) \ spoiled', NEW i \in CalPoints
               PROVE  cal_data'[u][i] = Raw(u, cal_range)
    BY <1>5 DEF StandardsMatchRange, CalPoints
  <2>1. u \in e.st /\ u \in {"load", "isoln"}
    BY <1>3, <1>5 DEF Types
  <2>2. u \in cal_status /\ e.d[u] = cal_data[u]
    BY <1>3, <1>4, <2>1 DEF Keeps
  <2>3. u \in (cal_status \cap Types) \ spoiled
    BY <1>7, <2>2
  <2>4. cal_data[u][i] = Raw(u, cal_range)
    BY <1>5, <2>3 DEF CalInv, StandardsMatchRange
  <2> QED BY <1>5, <2>2, <2>4
<1>13. DirectCopyRight'
  <2>1. "INTERPOLATED" \in cal_status' <=> "INTERPOLATED" \in cal_status
    BY <1>3, <1>4, <1>5 DEF Keeps
  <2>2. cal_status' \cap (Types \cup Terms) # {} => cal_status \cap (Types \cup Terms) # {}
    BY <1>3, <1>4, <1>5 DEF Types, Terms
  <2> QED BY <1>5, <1>10, <2>1, <2>2 DEF CalInv, DirectCopyRight
<1> QED BY <1>9, <1>11, <1>12, <1>13 DEF CalInv

\* RESET and APPLY change flags only.
LEMMA FlagSteps ==
  ASSUME CalInv, Reset \/ Apply
  PROVE  CalInv'
<1>1. /\ UNCHANGED <<kit, sweepVars, cal_range, cal_data, spoiled, collectVars, foreign>>
      /\ cal_status' \subseteq cal_status \cup {"APPLY"}
      /\ \/ cal_status' = {}
         \/ cal_status' \cup {"APPLY"} = cal_status \cup {"APPLY"}
      /\ computed' \in BOOLEAN
  BY DEF Reset, Apply, CalInv, TypeOK
<1>2. cal_status' \subseteq Flags
  BY <1>1 DEF CalInv, TypeOK, Flags
<1>3. TypeOK'
  BY <1>1, <1>2 DEF CalInv, TypeOK, sweepVars, collectVars
<1>4. Here' = Here
  BY <1>1 DEF Here, sweepVars
<1>5. PlaceInv' /\ CollectInv'
  BY <1>1, <1>4 DEF CalInv, PlaceInv, CollectInv, sweepVars, collectVars
<1>6. (cal_status' \cap Types) \subseteq (cal_status \cap Types)
  BY <1>1 DEF Types
<1>7. StandardsMatchRange'
  BY <1>1, <1>6 DEF CalInv, StandardsMatchRange, CalPoints, collectVars
<1>8. DirectCopyRight'
  <2>1. CASE cal_status' = {}
    BY <2>1 DEF DirectCopyRight
  <2>2. CASE cal_status' \cup {"APPLY"} = cal_status \cup {"APPLY"}
    <3>1. /\ "INTERPOLATED" \in cal_status' <=> "INTERPOLATED" \in cal_status
          /\ cal_status' \cap (Types \cup Terms) = cal_status \cap (Types \cup Terms)
      BY <2>2 DEF Types, Terms
    <3> QED BY <1>1, <1>4, <3>1 DEF CalInv, DirectCopyRight
  <2> QED BY <1>1, <2>1, <2>2
<1> QED BY <1>3, <1>5, <1>7, <1>8 DEF CalInv

\* Every step keeps the invariant.
LEMMA CalStep == CalInv /\ [Next]_vars => CalInv'
<1> SUFFICES ASSUME CalInv, [Next]_vars PROVE CalInv' OBVIOUS
<1>1. ASSUME NEW g \in Grids, SetStimulus(g) PROVE CalInv'
  BY <1>1, IdleUpdate DEF SetStimulus
<1>2. CASE ResetRange
  <2>1. cal_range \in Grids
    BY DEF CalInv, TypeOK
  <2> QED BY <1>2, <2>1, IdleUpdate DEF ResetRange
<1>3. CASE UNCHANGED vars
  <2>1. UNCHANGED <<kit, stim, sweep_points, grid, cal_range, cal_status, cal_data,
                    measured, p_sweep, std, pc, foreign, spoiled, computed>> /\ Here' = Here
    BY <1>3 DEF vars, Here
  <2> QED BY <2>1 DEF CalInv, TypeOK, PlaceInv, CollectInv, StandardsMatchRange,
                      DirectCopyRight, CalPoints
<1> QED BY <1>1, <1>2, <1>3, ScanStep, LiveSweepStep, CollectStartStep,
           CollectPointStep, CollectEndStep, DoneStep, FlagSteps DEF Next

-----------------------------------------------------------------------------
(***************************************************************************)
(* Type correctness: in particular p_sweep never leaves the arrays         *)
(* cal_collect's sweep writes to.                                          *)
(***************************************************************************)
THEOREM CalTypeCorrect == Spec => []TypeOK
<1>1. CalInv => TypeOK
  BY DEF CalInv
<1> QED BY CalInit, CalStep, <1>1, PTL DEF Spec

(***************************************************************************)
(* A flag of a standard in cal_status (cal_collect, main.c:1901) is set    *)
(* only when its array holds that standard, measured on the calibrated     *)
(* grid, unless the measurement was disturbed.                             *)
(***************************************************************************)
THEOREM FlagsTellTruth == Spec => []StandardsMatchRange
<1>1. CalInv => StandardsMatchRange
  BY DEF CalInv
<1> QED BY CalInit, CalStep, <1>1, PTL DEF Spec

(***************************************************************************)
(* sweep() (main.c:1184) copies terms point by point only when the         *)
(* calibrated grid is the sweep's.                                         *)
(***************************************************************************)
THEOREM DirectCopySound == Spec => []DirectCopyRight
<1>1. CalInv => DirectCopyRight
  BY DEF CalInv
<1> QED BY CalInit, CalStep, <1>1, PTL DEF Spec

-----------------------------------------------------------------------------
(***************************************************************************)
(* What cal_done leaves at one point i that the eterm_ loops reach.        *)
(***************************************************************************)
\* The error terms of grid g, or the default of a term that was not computed.
EsTerms(g) == {Zero} \cup {<<"es", g, d>> : d \in {"load", "zero"}}
ErTerms(g) == {One} \cup {<<"er", g, d>> : d \in {"load", "zero"}}
EtTerms(g) == {One, <<"et", g>>}

\* A loop of the eterm_ functions writes point i of one array.
LEMMA ForPointsAt ==
  ASSUME NEW c \in CalRec, NEW t \in Types, NEW terms \in [Index -> Values],
         NEW i \in Index, i < sweep_points
  PROVE  ForPoints(c, t, terms).d[t][i] = terms[i]
<1> DEFINE new == [j \in Index |-> IF j < sweep_points THEN terms[j] ELSE c.d[t][j]]
           e == [c EXCEPT !.d = [c.d EXCEPT ![t] = new]]
<1>1. c.d \in Data
  BY DEF CalRec
<1>2. new[i] = terms[i]
  OBVIOUS
<1>3. ForPoints(c, t, terms) = e
  BY <1>1 DEF ForPoints, CalRec
<1> HIDE DEF new
<1>4. e.d = [c.d EXCEPT ![t] = new]
  BY DEF CalRec
<1>5. e.d[t] = new
  BY <1>1, <1>4 DEF Data
<1> QED BY <1>2, <1>3, <1>5

\* eterm_set.
LEMMA EtermSetAt ==
  ASSUME NEW c \in CalRec, NEW t \in Types, NEW v \in Values,
         NEW i \in Index, i < sweep_points, NEW e, e = EtermSet(c, t, v)
  PROVE  /\ e \in CalRec /\ e.st = c.st /\ e.d[t][i] = v
         /\ \A u \in Types : u # t => e.d[u] = c.d[u]
<1> DEFINE terms == [j \in Index |-> v]
<1>1. terms \in [Index -> Values] /\ terms[i] = v
  OBVIOUS
<1>2. e = ForPoints(c, t, terms)
  BY DEF EtermSet
<1> HIDE DEF terms
<1> QED BY <1>1, <1>2, ForPointsKeeps, ForPointsAt

\* The flags an eterm_calc_ function changes: the standard's and the term's.
SetTerm(f, t, term) == [f EXCEPT !.st = (@ \ {t}) \cup {term}]

\* A computed term: one array and two flags.
LEMMA CalcAt ==
  ASSUME NEW c \in CalRec, NEW t \in {"open", "short", "thru"}, NEW term \in Terms,
         NEW terms \in [Index -> Values], NEW i \in Index, i < sweep_points,
         NEW f, f = ForPoints(c, t, terms),
         NEW e, e = SetTerm(f, t, term)
  PROVE  /\ e \in CalRec /\ e.st = (c.st \ {t}) \cup {term} /\ e.d[t][i] = terms[i]
         /\ \A u \in Types : u # t => e.d[u] = c.d[u]
<1>0. t \in Types
  BY DEF Types
<1>1. /\ f \in CalRec /\ f.st = c.st /\ \A u \in Types : u # t => f.d[u] = c.d[u]
  BY <1>0, ForPointsKeeps
<1>2. f.d[t][i] = terms[i]
  BY <1>0, ForPointsAt
<1>3. (f.st \ {t}) \cup {term} \in SUBSET Flags
  BY <1>1 DEF CalRec, Flags
<1>4. e.st = (f.st \ {t}) \cup {term} /\ e.d = f.d /\ e \in CalRec
  BY <1>1, <1>3 DEF SetTerm, CalRec
<1> QED BY <1>1, <1>2, <1>4

\* eterm_calc_es.
LEMMA EtermCalcEsAt ==
  ASSUME NEW c \in CalRec, NEW i \in Index, i < sweep_points,
         NEW e, e = EtermCalcEs(c)
  PROVE  /\ e \in CalRec /\ e.st = (c.st \ {"open"}) \cup {"ES"}
         /\ e.d["open"][i] = EsOf(c, i)
         /\ \A u \in Types : u # "open" => e.d[u] = c.d[u]
<1>1. "ES" \in Terms
  BY DEF Terms
<1>2. PICK terms : terms = [j \in Index |-> EsOf(c, j)]
  OBVIOUS
<1>3. terms \in [Index -> Values] /\ terms[i] = EsOf(c, i)
  BY <1>2, TermValues
<1>4. PICK f : f = ForPoints(c, "open", terms)
  OBVIOUS
<1>5. e = SetTerm(f, "open", "ES")
  BY <1>2, <1>4 DEF SetTerm, EtermCalcEs
<1> QED BY <1>1, <1>3, <1>4, <1>5, CalcAt

\* eterm_calc_er.
LEMMA EtermCalcErAt ==
  ASSUME NEW c \in CalRec, NEW i \in Index, i < sweep_points, NEW from \in Types,
         NEW e, e = EtermCalcEr(c, from)
  PROVE  /\ e \in CalRec /\ e.st = (c.st \ {"short"}) \cup {"ER"}
         /\ e.d["short"][i] = ErOf(c, from, i)
         /\ \A u \in Types : u # "short" => e.d[u] = c.d[u]
<1>1. "ER" \in Terms
  BY DEF Terms
<1>2. PICK terms : terms = [j \in Index |-> ErOf(c, from, j)]
  OBVIOUS
<1>3. terms \in [Index -> Values] /\ terms[i] = ErOf(c, from, i)
  BY <1>2, TermValues
<1>4. PICK f : f = ForPoints(c, "short", terms)
  OBVIOUS
<1>5. e = SetTerm(f, "short", "ER")
  BY <1>2, <1>4 DEF SetTerm, EtermCalcEr
<1> QED BY <1>1, <1>3, <1>4, <1>5, CalcAt

\* eterm_calc_et.
LEMMA EtermCalcEtAt ==
  ASSUME NEW c \in CalRec, NEW i \in Index, i < sweep_points,
         NEW e, e = EtermCalcEt(c)
  PROVE  /\ e \in CalRec /\ e.st = (c.st \ {"thru"}) \cup {"ET"}
         /\ e.d["thru"][i] = EtOf(c, i)
         /\ \A u \in Types : u # "thru" => e.d[u] = c.d[u]
<1>1. "ET" \in Terms
  BY DEF Terms
<1>2. PICK terms : terms = [j \in Index |-> EtOf(c, j)]
  OBVIOUS
<1>3. terms \in [Index -> Values] /\ terms[i] = EtOf(c, i)
  BY <1>2, TermValues
<1>4. PICK f : f = ForPoints(c, "thru", terms)
  OBVIOUS
<1>5. e = SetTerm(f, "thru", "ET")
  BY <1>2, <1>4 DEF SetTerm, EtermCalcEt
<1> QED BY <1>1, <1>3, <1>4, <1>5, CalcAt

\* eterm_copy.
LEMMA EtermCopyAt ==
  ASSUME NEW c \in CalRec, NEW e, e = EtermCopy(c)
  PROVE  /\ e \in CalRec /\ e.st = c.st \ {"open"} /\ e.d["short"] = c.d["open"]
         /\ \A u \in Types : u # "short" => e.d[u] = c.d[u]
<1> DEFINE n == [c.d EXCEPT !["short"] = c.d["open"]]
<1>1. c.d \in Data /\ c.st \in SUBSET Flags
  BY DEF CalRec
<1>2. /\ n \in Data /\ n["short"] = c.d["open"]
      /\ \A u \in Types : u # "short" => n[u] = c.d[u]
  BY <1>1 DEF Data, Types
<1>3. e = [c EXCEPT !.d = n, !.st = c.st \ {"open"}]
  BY DEF EtermCopy, CalRec
<1> HIDE DEF n
<1>4. e \in CalRec /\ e.d = n /\ e.st = c.st \ {"open"}
  BY <1>1, <1>2, <1>3 DEF CalRec
<1> QED BY <1>2, <1>4

\* What a default leaves at point i: the array as it was when the flag is set,
\* the value v otherwise.
Defaulted(e, c, flag, t, v, i) ==
  /\ e \in CalRec /\ e.st = c.st
  /\ e.d[t][i] = IF flag \in c.st THEN c.d[t][i] ELSE v
  /\ \A u \in Types : u # t => e.d[u] = c.d[u]

\* The default of a standard or term.
LEMMA DefaultAt ==
  ASSUME NEW c \in CalRec, NEW flag \in Flags, NEW t \in Types, NEW v \in Values,
         NEW i \in Index, i < sweep_points, NEW e, e = Default(c, flag, t, v)
  PROVE  Defaulted(e, c, flag, t, v, i)
<1>1. CASE flag \in c.st
  BY <1>1 DEF Default, Defaulted
<1>2. CASE flag \notin c.st
  <2>1. e = EtermSet(c, t, v)
    BY <1>2 DEF Default
  <2>2. /\ e \in CalRec /\ e.st = c.st /\ e.d[t][i] = v
        /\ \A u \in Types : u # t => e.d[u] = c.d[u]
    BY <2>1, EtermSetAt
  <2> QED BY <1>2, <2>2 DEF Defaulted
<1> QED BY <1>1, <1>2

\* The formulas on standards of one grid: eterm_calc_es,
LEMMA EsTermOf ==
  ASSUME NEW c \in CalRec, NEW i \in Index, NEW g \in Grids,
         c.d["open"][i] = Raw("open", g), c.d["short"][i] = Raw("short", g),
         c.d["load"][i] \in {Zero, Raw("load", g)}
  PROVE  EsOf(c, i) = <<"es", g, Ed(c.d["load"][i])>>
<1>1. c.d["open"][i][3] = g
  BY RawValue DEF Types
<1> QED BY <1>1 DEF EsOf

\* eterm_calc_er,
LEMMA ErTermOf ==
  ASSUME NEW c \in CalRec, NEW i \in Index, NEW g \in Grids, NEW from \in Types,
         c.d["short"][i] = Raw(from, g), c.d["load"][i] \in {Zero, Raw("load", g)},
         c.d["open"][i] \in {Zero, <<"es", g, Ed(c.d["load"][i])>>}
  PROVE  ErOf(c, from, i) = <<"er", g, Ed(c.d["load"][i])>>
<1>1. c.d["short"][i][3] = g
  BY RawValue
<1> QED BY <1>1 DEF ErOf

\* eterm_calc_et.
LEMMA EtTermOf ==
  ASSUME NEW c \in CalRec, NEW i \in Index, NEW g \in Grids,
         c.d["thru"][i] = Raw("thru", g), c.d["isoln"][i] \in {Zero, Raw("isoln", g)}
  PROVE  EtOf(c, i) = <<"et", g>>
<1>1. c.d["thru"][i][3] = g
  BY RawValue DEF Types
<1> QED BY <1>1 DEF EtOf

\* What the reflection part of cal_done may find at point i: raw standards of
\* grid g where a standard's flag is set, terms of g where a term's flag is.
ReflectionRight(c, g, i) ==
  /\ c.d["load"][i] \in {Zero, Raw("load", g)}
  /\ "open" \in c.st => c.d["open"][i] = Raw("open", g)
  /\ "short" \in c.st => c.d["short"][i] = Raw("short", g)
  /\ "ES" \in c.st => c.d["open"][i] \in EsTerms(g)
  /\ "ER" \in c.st => c.d["short"][i] \in ErTerms(g)

\* The same of the transmission part.
TransmissionRight(c, g, i) ==
  /\ c.d["isoln"][i] \in {Zero, Raw("isoln", g)}
  /\ "thru" \in c.st => c.d["thru"][i] = Raw("thru", g)
  /\ "ET" \in c.st => c.d["thru"][i] \in EtTerms(g)

\* A formula's value is a term.
LEMMA TermIn ==
  ASSUME NEW g \in Grids, NEW v
  PROVE  /\ Zero \in EsTerms(g) /\ <<"es", g, Ed(v)>> \in EsTerms(g)
         /\ One \in ErTerms(g) /\ <<"er", g, Ed(v)>> \in ErTerms(g)
         /\ One \in EtTerms(g) /\ <<"et", g>> \in EtTerms(g)
<1>1. Ed(v) \in {"load", "zero"}
  BY DEF Ed
<1> QED BY <1>1 DEF EsTerms, ErTerms, EtTerms

(***************************************************************************)
(* The reflection part of cal_done leaves terms of grid g in the arrays    *)
(* whose flag says so, and does not touch the other three arrays.          *)
(***************************************************************************)
LEMMA ReflectionAt ==
  ASSUME NEW c \in CalRec, NEW g \in Grids, NEW i \in Index, i < sweep_points,
         NEW r, r = Reflection(c)
  PROVE  /\ r \in CalRec
         /\ \A u \in {"load", "thru", "isoln"} : r.d[u] = c.d[u]
         /\ \A u \in {"load", "thru", "isoln", "ET"} : u \in r.st <=> u \in c.st
         /\ ReflectionRight(c, g, i) =>
              /\ "ES" \in r.st => r.d["open"][i] \in EsTerms(g)
              /\ "ER" \in r.st => r.d["short"][i] \in ErTerms(g)
<1>0. "open" \in Types /\ "short" \in Types /\ "load" \in Types /\ Zero \in Values
  BY ConstantValues DEF Types
<1>1. CASE {"open", "short"} \subseteq c.st
  <2>1. PICK e : e = EtermCalcEs(c)
    OBVIOUS
  <2>2. r = EtermCalcEr(e, "short")
    BY <1>1, <2>1 DEF Reflection
  <2>3. /\ e \in CalRec /\ e.st = (c.st \ {"open"}) \cup {"ES"}
        /\ e.d["open"][i] = EsOf(c, i)
        /\ \A u \in Types : u # "open" => e.d[u] = c.d[u]
    BY <2>1, EtermCalcEsAt
  <2>4. /\ r \in CalRec /\ r.st = (e.st \ {"short"}) \cup {"ER"}
        /\ r.d["short"][i] = ErOf(e, "short", i)
        /\ \A u \in Types : u # "short" => r.d[u] = e.d[u]
    BY <1>0, <2>2, <2>3, EtermCalcErAt
  <2>5. ASSUME ReflectionRight(c, g, i)
        PROVE  r.d["open"][i] \in EsTerms(g) /\ r.d["short"][i] \in ErTerms(g)
    <3>1. e.d["open"][i] = <<"es", g, Ed(c.d["load"][i])>>
      BY <1>1, <2>3, <2>5, EsTermOf DEF ReflectionRight
    <3>2. e.d["load"] = c.d["load"] /\ e.d["short"] = c.d["short"]
      BY <1>0, <2>3
    <3>3. e.d["short"][i] = Raw("short", g) /\ e.d["load"][i] \in {Zero, Raw("load", g)}
      BY <1>1, <2>5, <3>2 DEF ReflectionRight
    <3>4. e.d["open"][i] \in {Zero, <<"es", g, Ed(e.d["load"][i])>>}
      BY <3>1, <3>2
    <3>5. ErOf(e, "short", i) = <<"er", g, Ed(e.d["load"][i])>>
      BY <1>0, <2>3, <3>3, <3>4, ErTermOf
    <3> QED BY <1>0, <2>4, <3>1, <3>5, TermIn
  <2> QED BY <2>3, <2>4, <2>5 DEF Types
<1>2. CASE c.st \cap {"open", "short"} = {"open"}
  <2>1. PICK e : e = EtermCopy(c)
    OBVIOUS
  <2>2. PICK f : f = EtermSet(e, "open", Zero)
    OBVIOUS
  <2>3. ~({"open", "short"} \subseteq c.st)
    BY <1>2
  <2>4. r = EtermCalcEr(f, "open")
    BY <1>2, <2>1, <2>2, <2>3 DEF Reflection
  <2>5. /\ e \in CalRec /\ e.st = c.st \ {"open"} /\ e.d["short"] = c.d["open"]
        /\ \A u \in Types : u # "short" => e.d[u] = c.d[u]
    BY <2>1, EtermCopyAt
  <2>6. /\ f \in CalRec /\ f.st = e.st /\ f.d["open"][i] = Zero
        /\ \A u \in Types : u # "open" => f.d[u] = e.d[u]
    BY <1>0, <2>2, <2>5, EtermSetAt
  <2>7. /\ r \in CalRec /\ r.st = (f.st \ {"short"}) \cup {"ER"}
        /\ r.d["short"][i] = ErOf(f, "open", i)
        /\ \A u \in Types : u # "short" => r.d[u] = f.d[u]
    BY <1>0, <2>4, <2>6, EtermCalcErAt
  <2>8. ASSUME ReflectionRight(c, g, i)
        PROVE  r.d["open"][i] \in EsTerms(g) /\ r.d["short"][i] \in ErTerms(g)
    <3>1. f.d["short"][i] = Raw("open", g)
      BY <1>0, <1>2, <2>5, <2>6, <2>8 DEF ReflectionRight
    <3>2. f.d["load"] = c.d["load"]
      BY <1>0, <2>5, <2>6
    <3>3. f.d["load"][i] \in {Zero, Raw("load", g)}
      BY <2>8, <3>2 DEF ReflectionRight
    <3>4. ErOf(f, "open", i) = <<"er", g, Ed(f.d["load"][i])>>
      BY <1>0, <2>6, <3>1, <3>3, ErTermOf
    <3> QED BY <1>0, <2>6, <2>7, <3>4, TermIn
  <2> QED BY <2>5, <2>6, <2>7, <2>8 DEF Types
<1>3. CASE c.st \cap {"open", "short"} = {"short"}
  <2>1. PICK f : f = EtermSet(c, "open", Zero)
    OBVIOUS
  <2>2. ~({"open", "short"} \subseteq c.st) /\ c.st \cap {"open", "short"} # {"open"}
    BY <1>3
  <2>3. r = EtermCalcEr(f, "short")
    BY <1>3, <2>1, <2>2 DEF Reflection
  <2>4. /\ f \in CalRec /\ f.st = c.st /\ f.d["open"][i] = Zero
        /\ \A u \in Types : u # "open" => f.d[u] = c.d[u]
    BY <1>0, <2>1, EtermSetAt
  <2>5. /\ r \in CalRec /\ r.st = (f.st \ {"short"}) \cup {"ER"}
        /\ r.d["short"][i] = ErOf(f, "short", i)
        /\ \A u \in Types : u # "short" => r.d[u] = f.d[u]
    BY <1>0, <2>3, <2>4, EtermCalcErAt
  <2>6. ASSUME ReflectionRight(c, g, i)
        PROVE  r.d["open"][i] \in EsTerms(g) /\ r.d["short"][i] \in ErTerms(g)
    <3>1. f.d["short"] = c.d["short"] /\ f.d["load"] = c.d["load"]
      BY <1>0, <2>4
    <3>2. f.d["short"][i] = Raw("short", g) /\ f.d["load"][i] \in {Zero, Raw("load", g)}
      BY <1>3, <2>6, <3>1 DEF ReflectionRight
    <3>3. ErOf(f, "short", i) = <<"er", g, Ed(f.d["load"][i])>>
      BY <1>0, <2>4, <3>2, ErTermOf
    <3> QED BY <1>0, <2>4, <2>5, <3>3, TermIn
  <2> QED BY <2>4, <2>5, <2>6 DEF Types
<1>4. CASE c.st \cap {"open", "short"} = {}
  <2>1. r = c
    BY <1>4, ReflectionKeeps
  <2> QED BY <2>1 DEF ReflectionRight
<1> QED BY <1>1, <1>2, <1>3, <1>4

\* The transmission part changes the THRU's array alone, and leaves a term of
\* grid g in it when its flag says so.
LEMMA TransmissionAt ==
  ASSUME NEW c \in CalRec, NEW g \in Grids, NEW i \in Index, i < sweep_points,
         NEW r, r = Transmission(c)
  PROVE  /\ r \in CalRec
         /\ \A u \in Types : u # "thru" => r.d[u] = c.d[u]
         /\ \A u \in {"load", "isoln", "ES", "ER"} : u \in r.st <=> u \in c.st
         /\ TransmissionRight(c, g, i) /\ "ET" \in r.st => r.d["thru"][i] \in EtTerms(g)
<1>1. CASE "thru" \in c.st
  <2>1. r = EtermCalcEt(c)
    BY <1>1 DEF Transmission
  <2>2. /\ r \in CalRec /\ r.st = (c.st \ {"thru"}) \cup {"ET"}
        /\ r.d["thru"][i] = EtOf(c, i)
        /\ \A u \in Types : u # "thru" => r.d[u] = c.d[u]
    BY <2>1, EtermCalcEtAt
  <2>3. ASSUME TransmissionRight(c, g, i) PROVE r.d["thru"][i] \in EtTerms(g)
    <3>1. EtOf(c, i) = <<"et", g>>
      BY <1>1, <2>3, EtTermOf DEF TransmissionRight
    <3> QED BY <2>2, <3>1, TermIn
  <2> QED BY <2>2, <2>3
<1>2. CASE "thru" \notin c.st
  BY <1>2 DEF Transmission, TransmissionRight
<1> QED BY <1>1, <1>2

\* What cal_done finds at point i when nothing disturbed a standard, when the
\* three of the reflection were not, and when the two of the transmission were not.
StandardTaken(c, g, i, t) == t \in c.st => c.d[t][i] = Raw(t, g)
ReflectionTaken(c, g, i) ==
  /\ \A t \in {"load", "open", "short"} : StandardTaken(c, g, i, t)
  /\ "ES" \in c.st => c.d["open"][i] \in EsTerms(g)
  /\ "ER" \in c.st => c.d["short"][i] \in ErTerms(g)
TransmissionTaken(c, g, i) ==
  /\ \A t \in {"thru", "isoln"} : StandardTaken(c, g, i, t)
  /\ "ET" \in c.st => c.d["thru"][i] \in EtTerms(g)

(***************************************************************************)
(* What cal_done leaves at a point the eterm_ loops reach: in each array   *)
(* whose standards were right, a term of grid g or the default.            *)
(***************************************************************************)
LEMMA DoneAt ==
  ASSUME NEW c \in CalRec, NEW g \in Grids, NEW i \in Index, i < sweep_points,
         NEW e, e = DoneTerms(c)
  PROVE  /\ StandardTaken(c, g, i, "load") => e.d["load"][i] \in {Zero, Raw("load", g)}
         /\ StandardTaken(c, g, i, "isoln") => e.d["isoln"][i] \in {Zero, Raw("isoln", g)}
         /\ ReflectionTaken(c, g, i) =>
              e.d["open"][i] \in EsTerms(g) /\ e.d["short"][i] \in ErTerms(g)
         /\ TransmissionTaken(c, g, i) => e.d["thru"][i] \in EtTerms(g)
<1>0. /\ Zero \in Values /\ One \in Values /\ "load" \in Types /\ "isoln" \in Types
      /\ "open" \in Types /\ "short" \in Types /\ "thru" \in Types
      /\ "load" \in Flags /\ "isoln" \in Flags
      /\ "ET" \in Flags /\ "ER" \in Flags /\ "ES" \in Flags
  BY ConstantValues DEF Types, Flags, Terms
<1>1. PICK a : a = Default(c, "load", "load", Zero)
  OBVIOUS
<1>2. PICK b : b = Default(a, "isoln", "isoln", Zero)
  OBVIOUS
<1>3. PICK r : r = Reflection(b)
  OBVIOUS
<1>4. PICK t : t = Transmission(r)
  OBVIOUS
<1>5. PICK x : x = Default(t, "ET", "thru", One)
  OBVIOUS
<1>6. PICK y : y = Default(x, "ER", "short", One)
  OBVIOUS
<1>7. e = Default(y, "ES", "open", Zero)
  BY <1>1, <1>2, <1>3, <1>4, <1>5, <1>6 DEF DoneTerms
<1>8. /\ a \in CalRec /\ a.st = c.st
      /\ a.d["load"][i] = IF "load" \in c.st THEN c.d["load"][i] ELSE Zero
      /\ \A u \in Types : u # "load" => a.d[u] = c.d[u]
  <2>1. Defaulted(a, c, "load", "load", Zero, i)
    BY <1>0, <1>1, DefaultAt
  <2> QED BY <2>1 DEF Defaulted
<1>9. /\ b \in CalRec /\ b.st = a.st
      /\ b.d["isoln"][i] = IF "isoln" \in a.st THEN a.d["isoln"][i] ELSE Zero
      /\ \A u \in Types : u # "isoln" => b.d[u] = a.d[u]
  <2>1. Defaulted(b, a, "isoln", "isoln", Zero, i)
    BY <1>0, <1>2, <1>8, DefaultAt
  <2> QED BY <2>1 DEF Defaulted
<1>10. /\ r \in CalRec
       /\ \A u \in {"load", "thru", "isoln"} : r.d[u] = b.d[u]
       /\ \A u \in {"load", "thru", "isoln", "ET"} : u \in r.st <=> u \in b.st
       /\ ReflectionRight(b, g, i) =>
            /\ "ES" \in r.st => r.d["open"][i] \in EsTerms(g)
            /\ "ER" \in r.st => r.d["short"][i] \in ErTerms(g)
  BY <1>3, <1>9, ReflectionAt
<1>11. /\ t \in CalRec
       /\ \A u \in Types : u # "thru" => t.d[u] = r.d[u]
       /\ \A u \in {"load", "isoln", "ES", "ER"} : u \in t.st <=> u \in r.st
       /\ TransmissionRight(r, g, i) /\ "ET" \in t.st => t.d["thru"][i] \in EtTerms(g)
  BY <1>4, <1>10, TransmissionAt
<1>12. /\ x \in CalRec /\ x.st = t.st
       /\ x.d["thru"][i] = IF "ET" \in t.st THEN t.d["thru"][i] ELSE One
       /\ \A u \in Types : u # "thru" => x.d[u] = t.d[u]
  <2>1. Defaulted(x, t, "ET", "thru", One, i)
    BY <1>0, <1>5, <1>11, DefaultAt
  <2> QED BY <2>1 DEF Defaulted
<1>13. /\ y \in CalRec /\ y.st = x.st
       /\ y.d["short"][i] = IF "ER" \in x.st THEN x.d["short"][i] ELSE One
       /\ \A u \in Types : u # "short" => y.d[u] = x.d[u]
  <2>1. Defaulted(y, x, "ER", "short", One, i)
    BY <1>0, <1>6, <1>12, DefaultAt
  <2> QED BY <2>1 DEF Defaulted
<1>14. /\ e \in CalRec /\ e.st = y.st
       /\ e.d["open"][i] = IF "ES" \in y.st THEN y.d["open"][i] ELSE Zero
       /\ \A u \in Types : u # "open" => e.d[u] = y.d[u]
  <2>1. Defaulted(e, y, "ES", "open", Zero, i)
    BY <1>0, <1>7, <1>13, DefaultAt
  <2> QED BY <2>1 DEF Defaulted
<1>15. /\ e.d["load"] = b.d["load"] /\ e.d["isoln"] = b.d["isoln"]
       /\ e.d["thru"] = x.d["thru"] /\ e.d["short"] = y.d["short"]
       /\ y.d["open"] = r.d["open"] /\ x.d["short"] = r.d["short"]
  BY <1>0, <1>10, <1>11, <1>12, <1>13, <1>14
<1>16. StandardTaken(c, g, i, "load") => b.d["load"][i] \in {Zero, Raw("load", g)}
  BY <1>0, <1>8, <1>9 DEF StandardTaken
<1>17. StandardTaken(c, g, i, "isoln") => b.d["isoln"][i] \in {Zero, Raw("isoln", g)}
  BY <1>0, <1>8, <1>9 DEF StandardTaken
<1>18. ASSUME ReflectionTaken(c, g, i)
       PROVE  e.d["open"][i] \in EsTerms(g) /\ e.d["short"][i] \in ErTerms(g)
  <2>1. b.d["open"] = c.d["open"] /\ b.d["short"] = c.d["short"] /\ b.st = c.st
    BY <1>0, <1>8, <1>9
  <2>2. ReflectionRight(b, g, i)
    BY <1>16, <1>18, <2>1 DEF ReflectionRight, ReflectionTaken, StandardTaken
  <2>3. /\ "ES" \in y.st => y.d["open"][i] \in EsTerms(g)
        /\ "ER" \in x.st => x.d["short"][i] \in ErTerms(g)
    BY <1>10, <1>11, <1>12, <1>13, <1>15, <2>2
  <2>4. e.d["open"][i] \in EsTerms(g)
    BY <1>14, <2>3, TermIn
  <2>5. y.d["short"][i] \in ErTerms(g)
    BY <1>13, <2>3, TermIn
  <2> QED BY <1>15, <2>4, <2>5
<1>19. ASSUME TransmissionTaken(c, g, i)
       PROVE  e.d["thru"][i] \in EtTerms(g)
  <2>1. r.d["thru"] = c.d["thru"] /\ r.d["isoln"] = b.d["isoln"]
    BY <1>0, <1>8, <1>9, <1>10
  <2>2. ("thru" \in r.st <=> "thru" \in c.st) /\ ("ET" \in r.st <=> "ET" \in c.st)
    BY <1>8, <1>9, <1>10
  <2>3. TransmissionRight(r, g, i)
    BY <1>17, <1>19, <2>1, <2>2 DEF TransmissionRight, TransmissionTaken, StandardTaken
  <2> QED BY <1>11, <1>12, <1>15, <2>3, TermIn
<1> QED BY <1>15, <1>16, <1>17, <1>18, <1>19

-----------------------------------------------------------------------------
\* While a standard is taken the terms it will replace are not flagged, and
\* DONE has not come after it (cal_collect clears them before it sweeps).
CollectClears ==
  pc # "idle" =>
    /\ ~computed
    /\ std \in {"open", "short"} => {"ES", "ER"} \cap cal_status = {}
    /\ std = "thru" => "ET" \notin cal_status

\* A term whose flag is set is one of the calibrated grid, also before DONE
\* computes it anew: cal_done takes it over as it is.
FlaggedTerms ==
  \A i \in CalPoints :
    /\ "ES" \in cal_status /\ "open" \notin spoiled =>
         cal_data["open"][i] \in EsTerms(cal_range)
    /\ "ER" \in cal_status /\ "short" \notin spoiled =>
         cal_data["short"][i] \in ErTerms(cal_range)
    /\ "ET" \in cal_status /\ "thru" \notin spoiled =>
         cal_data["thru"][i] \in EtTerms(cal_range)

\* The invariant of the terms.
TermInv == CollectClears /\ FlaggedTerms /\ DoneLeavesTerms

\* The initial states have no flag and no terms.
LEMMA TermInit == Init => TermInv
BY DEF Init, TermInv, CollectClears, FlaggedTerms, DoneLeavesTerms

\* A step that leaves the arrays and their grid alone and sets no term's flag.
LEMMA TermsKept ==
  ASSUME TermInv, UNCHANGED <<cal_range, cal_data>>,
         cal_status' \cap Terms \subseteq cal_status, spoiled \subseteq spoiled',
         computed' => computed
  PROVE  FlaggedTerms' /\ DoneLeavesTerms'
<1>1. CalPoints' = CalPoints
  BY DEF CalPoints
<1>2. ASSUME NEW i \in CalPoints, TermsAt(i) PROVE TermsAt(i)'
  BY <1>2 DEF TermsAt
<1>3. DoneLeavesTerms'
  BY <1>1, <1>2 DEF TermInv, DoneLeavesTerms
<1>4. \A f \in Terms : f \in cal_status' => f \in cal_status
  OBVIOUS
<1>5. FlaggedTerms'
  BY <1>1, <1>4 DEF TermInv, FlaggedTerms, Terms
<1> QED BY <1>3, <1>5

\* update_frequencies touches no term and no term's flag.
LEMMA UpdateKeepsTerms ==
  ASSUME TermInv, NEW g \in Grids, UpdateFrequencies(g), spoiled \subseteq spoiled',
         UNCHANGED <<std, pc>>
  PROVE  TermInv'
<1>1. cal_status' \cap Terms = cal_status \cap Terms
  BY DEF UpdateFrequencies, MarkInterpolated, Terms
<1>2. FlaggedTerms' /\ DoneLeavesTerms'
  BY <1>1, TermsKept DEF UpdateFrequencies
<1>3. \A f \in Terms : f \in cal_status' <=> f \in cal_status
  BY <1>1
<1>4. CollectClears'
  BY <1>3 DEF TermInv, CollectClears, UpdateFrequencies, Terms
<1> QED BY <1>2, <1>4 DEF TermInv

\* cal_collect clears the flags of the terms the standard makes stale.
LEMMA CollectStartTerms ==
  ASSUME CalInv, TermInv, NEW t \in Types, NEW by \in {"ui", "cmd"}, CollectStart(t, by)
  PROVE  TermInv'
<1>1. /\ cal_status' = (StatusForHere \ ClearFlags(t)) \cup {t}
      /\ std' = t /\ computed' = FALSE /\ cal_range' = Here /\ cal_data' = cal_data
      /\ spoiled \ {t} \subseteq spoiled'
  BY DEF CollectStart
<1>2. CollectClears'
  BY <1>1 DEF CollectClears, ClearFlags, Types
<1>3. DoneLeavesTerms'
  BY <1>1 DEF DoneLeavesTerms
<1>4. FlaggedTerms'
  <2>1. CASE cal_range = Here
    <3>1. CalPoints' = CalPoints /\ cal_range' = cal_range
      BY <1>1, <2>1 DEF CalPoints
    <3>2. \A f \in Terms : f \in cal_status' => f \in cal_status /\ f \notin ClearFlags(t)
      BY <1>1, <2>1 DEF StatusForHere, Terms, Types
    <3>3. /\ "ES" \in cal_status' => t # "open"
          /\ "ER" \in cal_status' => t # "short"
          /\ "ET" \in cal_status' => t # "thru"
      BY <3>2 DEF ClearFlags, Terms
    <3> QED BY <1>1, <3>1, <3>2, <3>3 DEF TermInv, FlaggedTerms, Terms
  <2>2. CASE cal_range # Here
    <3>1. "ES" \notin cal_status' /\ "ER" \notin cal_status' /\ "ET" \notin cal_status'
      BY <1>1, <2>2 DEF StatusForHere, Types
    <3> QED BY <3>1 DEF FlaggedTerms
  <2> QED BY <2>1, <2>2
<1> QED BY <1>2, <1>3, <1>4 DEF TermInv

\* The copy at the end of cal_collect writes an array whose term is not flagged.
LEMMA CollectEndTerms ==
  ASSUME CalInv, TermInv, CollectEnd
  PROVE  TermInv'
<1>1. PICK v : cal_data' = [cal_data EXCEPT ![std] = v]
  BY DEF CollectEnd
<1>2. /\ pc # "idle" /\ pc' = "idle" /\ UNCHANGED <<cal_range, cal_status, spoiled, computed>>
  BY DEF CollectEnd
<1>3. cal_data \in [Types -> [Index -> Values]]
  BY DEF CalInv, TypeOK
<1>4. \A u \in Types : u # std => cal_data'[u] = cal_data[u]
  BY <1>1, <1>3
<1>5. CollectClears' /\ DoneLeavesTerms'
  BY <1>2 DEF TermInv, CollectClears, DoneLeavesTerms
<1>6. /\ "ES" \in cal_status => std # "open"
      /\ "ER" \in cal_status => std # "short"
      /\ "ET" \in cal_status => std # "thru"
  BY <1>2 DEF TermInv, CollectClears
<1>7. CalPoints' = CalPoints
  BY <1>2 DEF CalPoints
<1>8. FlaggedTerms'
  BY <1>2, <1>4, <1>6, <1>7 DEF TermInv, FlaggedTerms, Types
<1> QED BY <1>5, <1>8 DEF TermInv

(***************************************************************************)
(* DONE.  With fewer points than were calibrated everything is spoiled;    *)
(* otherwise the loops reach every calibrated point, where the flagged     *)
(* standards are raw (StandardsMatchRange) and the flagged terms are terms *)
(* (FlaggedTerms).                                                         *)
(***************************************************************************)
LEMMA DoneTermsStep ==
  ASSUME CalInv, TermInv, Done
  PROVE  TermInv'
<1>1. PICK c : c = [st |-> cal_status, d |-> cal_data]
  OBVIOUS
<1>2. PICK e : e = DoneTerms(c)
  OBVIOUS
<1>3. /\ pc = "idle" /\ pc' = "idle" /\ cal_data' = e.d /\ cal_range' = cal_range
      /\ spoiled' = Spoils
  BY <1>1, <1>2 DEF Done, collectVars
<1>4. TypeOK
  BY DEF CalInv
<1>5. c \in CalRec /\ c.st = cal_status /\ c.d = cal_data
  BY <1>1, <1>4 DEF CalRec, Data, TypeOK
<1>6. CollectClears'
  BY <1>3 DEF CollectClears
<1>7. CalPoints' = CalPoints
  BY <1>3 DEF CalPoints
<1>8. ASSUME NEW i \in CalPoints
      PROVE  /\ "load" \notin spoiled' => e.d["load"][i] \in {Zero, Raw("load", cal_range)}
             /\ "isoln" \notin spoiled' => e.d["isoln"][i] \in {Zero, Raw("isoln", cal_range)}
             /\ "open" \notin spoiled' => e.d["open"][i] \in EsTerms(cal_range)
             /\ "short" \notin spoiled' => e.d["short"][i] \in ErTerms(cal_range)
             /\ "thru" \notin spoiled' => e.d["thru"][i] \in EtTerms(cal_range)
  <2>1. CASE sweep_points < cal_range[2]
    BY <1>3, <2>1 DEF Spoils, Types
  <2>2. CASE ~(sweep_points < cal_range[2])
    <3>1. /\ spoiled \subseteq spoiled'
          /\ "open" \notin spoiled' \/ "short" \notin spoiled' =>
               spoiled \cap {"load", "open", "short"} = {}
          /\ "thru" \notin spoiled' => spoiled \cap {"thru", "isoln"} = {}
      BY <1>3, <2>2 DEF Spoils
    <3>2. cal_range \in Grids /\ sweep_points \in PointCounts
      BY <1>4 DEF TypeOK
    <3>3. cal_range[2] \in Nat /\ sweep_points \in Nat /\ i \in Index
      BY <3>2, SetType, IndexFacts DEF CalPoints
    <3>4. i < sweep_points
      BY <2>2, <3>3 DEF CalPoints
    <3>5. ASSUME NEW u \in Types, u \notin spoiled PROVE StandardTaken(c, cal_range, i, u)
      BY <1>3, <1>5, <3>5 DEF CalInv, StandardsMatchRange, StandardTaken
    <3>6. "open" \notin spoiled' \/ "short" \notin spoiled' => ReflectionTaken(c, cal_range, i)
      BY <1>5, <3>1, <3>5 DEF ReflectionTaken, TermInv, FlaggedTerms, Types
    <3>7. "thru" \notin spoiled' => TransmissionTaken(c, cal_range, i)
      BY <1>5, <3>1, <3>5 DEF TransmissionTaken, TermInv, FlaggedTerms, Types
    <3>8. PICK g \in Grids : g = cal_range
      BY <3>2
    <3>9. /\ StandardTaken(c, g, i, "load") => e.d["load"][i] \in {Zero, Raw("load", g)}
          /\ StandardTaken(c, g, i, "isoln") => e.d["isoln"][i] \in {Zero, Raw("isoln", g)}
          /\ ReflectionTaken(c, g, i) =>
               e.d["open"][i] \in EsTerms(g) /\ e.d["short"][i] \in ErTerms(g)
          /\ TransmissionTaken(c, g, i) => e.d["thru"][i] \in EtTerms(g)
      BY <1>2, <1>5, <3>3, <3>4, DoneAt
    <3> QED BY <3>1, <3>5, <3>6, <3>7, <3>8, <3>9 DEF Types
  <2> QED BY <2>1, <2>2
<1>9. ASSUME NEW i \in CalPoints PROVE TermsAt(i)'
  BY <1>3, <1>8 DEF TermsAt, EsTerms, ErTerms, EtTerms
<1>10. DoneLeavesTerms'
  BY <1>7, <1>9 DEF DoneLeavesTerms
<1>11. FlaggedTerms'
  BY <1>3, <1>7, <1>8 DEF FlaggedTerms
<1> QED BY <1>6, <1>10, <1>11 DEF TermInv

\* Every step keeps the invariant of the terms.
LEMMA TermStep == CalInv /\ TermInv /\ [Next]_vars => TermInv'
<1> SUFFICES ASSUME CalInv, TermInv, [Next]_vars PROVE TermInv' OBVIOUS
<1>1. ASSUME NEW g \in Grids, SetStimulus(g) \/ LiveSweep(g) PROVE TermInv'
  <2>1. UpdateFrequencies(g) /\ spoiled \subseteq spoiled' /\ UNCHANGED <<std, pc>>
    BY <1>1 DEF SetStimulus, LiveSweep, collectVars
  <2> QED BY <2>1, UpdateKeepsTerms
<1>2. CASE ResetRange
  <2>1. PICK g \in Grids : g = cal_range
    BY DEF CalInv, TypeOK
  <2>2. UpdateFrequencies(g) /\ spoiled \subseteq spoiled' /\ UNCHANGED <<std, pc>>
    BY <1>2, <2>1 DEF ResetRange, collectVars
  <2> QED BY <2>2, UpdateKeepsTerms
<1>3. ASSUME (\E g \in Grids : Scan(g)) \/ CollectPoint \/ UNCHANGED vars PROVE TermInv'
  <2>1. UNCHANGED <<cal_range, cal_data, cal_status, spoiled, computed, std, pc>>
    BY <1>3 DEF Scan, CollectPoint, calVars, collectVars, vars
  <2>2. FlaggedTerms' /\ DoneLeavesTerms'
    BY <2>1, TermsKept
  <2> QED BY <2>1, <2>2 DEF TermInv, CollectClears
<1>4. ASSUME Reset \/ Apply PROVE TermInv'
  <2>1. /\ pc' = "idle" /\ UNCHANGED <<cal_range, cal_data, spoiled>>
        /\ cal_status' \cap Terms \subseteq cal_status /\ (computed' => computed)
    BY <1>4 DEF Reset, Apply, collectVars, Terms
  <2>2. FlaggedTerms' /\ DoneLeavesTerms'
    BY <2>1, TermsKept
  <2> QED BY <2>1, <2>2 DEF TermInv, CollectClears
<1>5. kit \subseteq Types
  BY CalConstants DEF CalInv, TypeOK
<1> QED BY <1>1, <1>2, <1>3, <1>4, <1>5, CollectStartTerms, CollectEndTerms,
           DoneTermsStep DEF Next

(***************************************************************************)
(* After DONE (cal_done, main.c) the five arrays hold error terms of the   *)
(* calibrated grid, never a raw standard or a term computed twice,         *)
(* whichever standards were taken, retaken or left out and in whatever     *)
(* order, for every grid and every number of points.                       *)
(***************************************************************************)
THEOREM DoneIsComplete == Spec => []DoneLeavesTerms
<1>1. Init => CalInv /\ TermInv
  BY CalInit, TermInit
<1>2. CalInv /\ TermInv /\ [Next]_vars => (CalInv /\ TermInv)'
  BY CalStep, TermStep
<1>3. TermInv => DoneLeavesTerms
  BY DEF TermInv
<1> QED BY <1>1, <1>2, <1>3, PTL DEF Spec
=============================================================================
