---------------------------- MODULE Calibration ----------------------------
(***************************************************************************)
(* Taking the calibration standards, computing the error terms from them   *)
(* and keeping both in step with the sweep (main.c cal_collect, cal_done,  *)
(* the eterm_ functions and update_frequencies; ui.c's CALIBRATE menu).    *)
(*                                                                         *)
(* cal_data has one array per standard, and cal_done computes the error    *)
(* terms in place: Ed in the LOAD array, Es in OPEN's, Er in SHORT's, Et   *)
(* in THRU's, Ex in ISOLN's.  cal_status alone tells what an array holds.  *)
(*                                                                         *)
(* A grid <<range, points>> is start, stop and number of points.  A value  *)
(* of a point records what it was measured or computed from; "bad" is the  *)
(* result of a formula applied to values that do not belong together.      *)
(*                                                                         *)
(* foreign, spoiled and computed are history variables: the grid in force  *)
(* is a scan's; the arrays whose measurement was disturbed or whose terms  *)
(* were computed for a part of the points; DONE came after the last        *)
(* standard.  Drive current and enhanced response are left out.            *)
(***************************************************************************)
EXTENDS Integers

CONSTANTS
  Ranges,          \* start and stop frequencies
  PointCounts,     \* numbers of points
  Kits,            \* sets of standards, one of which is at hand
  Operations       \* {"scan", "live_sweep"}: what else may happen

Types == {"load", "open", "short", "thru", "isoln"}
Terms == {"ES", "ER", "ET"}
Flags == Types \cup Terms \cup {"APPLY", "INTERPOLATED"}

ASSUME CalConstants == /\ Ranges # {}
                       /\ PointCounts \subseteq Nat \ {0, 1} /\ PointCounts # {}
                       /\ Kits \subseteq SUBSET Types
                       /\ Operations \subseteq {"scan", "live_sweep"}

VARIABLES
  kit,             \* the standards at hand
  stim,            \* frequency0, frequency1
  sweep_points,
  grid,            \* what set_frequencies computed
  cal_range,       \* cal_frequency0, cal_frequency1, cal_sweep_points
  cal_status,      \* the CALSTAT_ flags that are set
  cal_data,
  measured,        \* the channel the standard is measured on
  p_sweep,
  std,             \* the standard being taken
  pc,              \* "idle", or cal_collect run by "ui" or by the command "cmd"
  foreign, spoiled, computed

sweepVars == <<stim, sweep_points, grid>>
calVars == <<cal_range, cal_status, cal_data, spoiled, computed>>
collectVars == <<measured, p_sweep, std, pc>>
vars == <<kit, stim, sweep_points, grid, cal_range, cal_status, cal_data,
          measured, p_sweep, std, pc, foreign, spoiled, computed>>

Grids == Ranges \X PointCounts
Index == UNION {0 .. n - 1 : n \in PointCounts}
Here == <<stim, sweep_points>>

Zero == <<"zero">>
One == <<"one">>
Bad == <<"bad">>
Other == <<"other">>
Raw(t, g) == <<"raw", t, g>>
Values == {Zero, One, Bad, Other}
            \cup {Raw(t, g) : t \in Types, g \in Grids}
            \cup {<<"es", g, d>> : g \in Grids, d \in {"load", "zero"}}
            \cup {<<"er", g, d>> : g \in Grids, d \in {"load", "zero"}}
            \cup {<<"et", g>> : g \in Grids}

Init ==
  /\ kit \in Kits
  /\ stim \in Ranges /\ sweep_points \in PointCounts
  /\ grid = Here /\ cal_range = Here
  /\ cal_status = {}
  /\ cal_data = [t \in Types |-> [i \in Index |-> Zero]]
  /\ measured = [i \in Index |-> Other]
  /\ p_sweep = 0 /\ std = "load" /\ pc = "idle"
  /\ foreign = FALSE /\ spoiled = {} /\ computed = FALSE

-----------------------------------------------------------------------------
(***************************************************************************)
(* The sweep setup.                                                        *)
(***************************************************************************)
\* The interpolation flag; a variant leaves it as it was
KeepFlag(g) == cal_status
MarkInterpolated(g) ==
  IF g # cal_range THEN cal_status \cup {"INTERPOLATED"}
  ELSE cal_status \ {"INTERPOLATED"}

UpdateFrequencies(g) ==
  /\ stim' = g[1] /\ sweep_points' = g[2]
  /\ grid' = g
  /\ cal_status' = MarkInterpolated(g)
  /\ foreign' = FALSE
  /\ UNCHANGED <<kit, cal_range, cal_data, computed>>

\* sweep, freq, points, the STIMULUS menu, resume; a recall replaces everything
SetStimulus(g) ==
  /\ pc = "idle"
  /\ UpdateFrequencies(g)
  /\ UNCHANGED <<collectVars, spoiled>>

\* CALIBRATE -> RANGE: menu_cal_range_acb and reset_sweep_frequency
ResetRange ==
  /\ pc = "idle"
  /\ cal_status \cap (Types \cup Terms) # {} /\ "INTERPOLATED" \in cal_status
  /\ UpdateFrequencies(cal_range)
  /\ UNCHANGED <<collectVars, spoiled>>

\* cmd_scan takes points and grid and leaves the range and the flags
Scan(g) ==
  /\ "scan" \in Operations /\ pc = "idle"
  /\ sweep_points' = g[2]
  /\ grid' = g
  /\ foreign' = TRUE
  /\ UNCHANGED <<kit, stim, calVars, collectVars>>

(***************************************************************************)
(* A console `sweep' may run at once while the sweep thread is in          *)
(* ui_process (CMD_RUN_IN_UI), also when that is in cal_collect's sweep:   *)
(* RESET_SWEEP comes between two points, or within one, which is then      *)
(* stored as point 0.                                                      *)
(***************************************************************************)
LiveSweep(g) ==
  /\ "live_sweep" \in Operations /\ pc = "ui"
  /\ UpdateFrequencies(g)
  /\ \/ p_sweep' = 0 /\ UNCHANGED measured
     \/ p_sweep' = 1 /\ measured' = [measured EXCEPT ![0] = Raw(std, grid)]
  /\ spoiled' = spoiled \cup {std}
  /\ UNCHANGED <<std, pc>>

-----------------------------------------------------------------------------
(***************************************************************************)
(* cal_collect: the flags, one sweep that no request breaks, the copy.     *)
(***************************************************************************)
\* The flags a standard clears
ClearFlags(t) ==
  {"APPLY"} \cup (IF t \in {"open", "short"} THEN {"ES", "ER"} ELSE {})
            \cup (IF t = "thru" THEN {"ET"} ELSE {})

\* A new range or number of points discards the old calibration; a variant
\* keeps its flags
KeepStatus == cal_status
StatusForHere == IF cal_range = Here THEN cal_status ELSE {}

CollectStart(t, by) ==
  /\ pc = "idle"
  /\ cal_range' = Here
  /\ cal_status' = (StatusForHere \ ClearFlags(t)) \cup {t}
  /\ std' = t /\ pc' = by
  /\ spoiled' = IF foreign THEN spoiled \cup {t} ELSE spoiled \ {t}
  /\ computed' = FALSE
  /\ UNCHANGED <<kit, sweepVars, cal_data, measured, p_sweep, foreign>>

\* The bound of sweep()'s loop, and a variant that is off by one
OnePointMore == p_sweep <= sweep_points
MorePoints == p_sweep < sweep_points

CollectPoint ==
  /\ pc # "idle" /\ MorePoints
  /\ measured' = [measured EXCEPT ![p_sweep] = Raw(std, grid)]
  /\ p_sweep' = p_sweep + 1
  /\ UNCHANGED <<kit, sweepVars, calVars, std, pc, foreign>>

\* What a disturbed measurement leaves is not told apart; live sweeps then
\* overwrite measured
CollectEnd ==
  /\ pc # "idle" /\ ~MorePoints
  /\ cal_data' = [cal_data EXCEPT ![std] =
                    IF std \in spoiled THEN [i \in Index |-> Other] ELSE measured]
  /\ measured' = [i \in Index |-> Other]
  /\ p_sweep' = 0 /\ std' = "load" /\ pc' = "idle"
  /\ UNCHANGED <<kit, sweepVars, cal_range, cal_status, foreign, spoiled, computed>>

-----------------------------------------------------------------------------
(***************************************************************************)
(* cal_done on c = [st, d]: status and data.  The eterm_ functions work on *)
(* the first sweep_points points.                                          *)
(***************************************************************************)
ForPoints(c, t, terms) ==
  [c EXCEPT !.d[t] = [i \in Index |-> IF i < sweep_points THEN terms[i] ELSE @[i]]]

EtermSet(c, t, v) == ForPoints(c, t, [i \in Index |-> v])

\* The name of the directivity a formula used
Ed(v) == IF v = Zero THEN "zero" ELSE "load"

EsOf(c, i) ==
  IF \E g \in Grids : /\ c.d["open"][i] = Raw("open", g)
                      /\ c.d["short"][i] = Raw("short", g)
                      /\ c.d["load"][i] \in {Raw("load", g), Zero}
  THEN <<"es", c.d["open"][i][3], Ed(c.d["load"][i])>>
  ELSE Bad

EtermCalcEs(c) ==
  LET e == ForPoints(c, "open", [i \in Index |-> EsOf(c, i)])
  IN  [e EXCEPT !.st = (@ \ {"open"}) \cup {"ES"}]

\* Er from `from', the OPEN (sign 1) or the SHORT (sign -1)
ErOf(c, from, i) ==
  IF \E g \in Grids :
       /\ c.d["short"][i] = Raw(from, g)
       /\ c.d["load"][i] \in {Raw("load", g), Zero}
       /\ c.d["open"][i] \in {Zero, <<"es", g, Ed(c.d["load"][i])>>}
  THEN <<"er", c.d["short"][i][3], Ed(c.d["load"][i])>>
  ELSE Bad

EtermCalcEr(c, from) ==
  LET e == ForPoints(c, "short", [i \in Index |-> ErOf(c, from, i)])
  IN  [e EXCEPT !.st = (@ \ {"short"}) \cup {"ER"}]

EtOf(c, i) ==
  IF \E g \in Grids : /\ c.d["thru"][i] = Raw("thru", g)
                      /\ c.d["isoln"][i] \in {Raw("isoln", g), Zero}
  THEN <<"et", c.d["thru"][i][3]>>
  ELSE Bad

EtermCalcEt(c) ==
  LET e == ForPoints(c, "thru", [i \in Index |-> EtOf(c, i)])
  IN  [e EXCEPT !.st = (@ \ {"thru"}) \cup {"ET"}]

\* eterm_copy copies the whole array
EtermCopy(c) == [c EXCEPT !.d["short"] = c.d["open"], !.st = @ \ {"open"}]

\* The term of a standard that was not taken; a variant forgets it
NoDefault(c, flag, t, v) == c
Default(c, flag, t, v) == IF flag \in c.st THEN c ELSE EtermSet(c, t, v)

Reflection(c) ==
  CASE {"open", "short"} \subseteq c.st -> EtermCalcEr(EtermCalcEs(c), "short")
    [] c.st \cap {"open", "short"} = {"open"} ->
         EtermCalcEr(EtermSet(EtermCopy(c), "open", Zero), "open")
    [] c.st \cap {"open", "short"} = {"short"} ->
         EtermCalcEr(EtermSet(c, "open", Zero), "short")
    [] OTHER -> c

Transmission(c) == IF "thru" \in c.st THEN EtermCalcEt(c) ELSE c

DoneTerms(c) ==
  LET basic == Default(Default(c, "load", "load", Zero), "isoln", "isoln", Zero)
      terms == Transmission(Reflection(basic))
  IN  Default(Default(Default(terms, "ET", "thru", One),
                      "ER", "short", One), "ES", "open", Zero)

\* What is computed from a spoiled array is spoiled, and everything is when
\* fewer points are computed than were calibrated
Spoils ==
  IF sweep_points < cal_range[2] THEN Types
  ELSE spoiled
         \cup (IF spoiled \cap {"load", "open", "short"} = {} THEN {} ELSE {"open", "short"})
         \cup (IF spoiled \cap {"thru", "isoln"} = {} THEN {} ELSE {"thru"})

Done ==
  /\ pc = "idle"
  /\ LET c == DoneTerms([st |-> cal_status, d |-> cal_data])
     IN  /\ cal_status' = c.st \cup {"APPLY"}
         /\ cal_data' = c.d
  /\ spoiled' = Spoils
  /\ computed' = TRUE
  /\ UNCHANGED <<kit, sweepVars, cal_range, collectVars, foreign>>

-----------------------------------------------------------------------------
\* RESET of the menu and of the console; APPLY, `cal on' and `cal off'
Reset ==
  /\ pc = "idle"
  /\ cal_status' = {}
  /\ computed' = FALSE
  /\ UNCHANGED <<kit, sweepVars, cal_range, cal_data, spoiled, collectVars, foreign>>

Apply ==
  /\ pc = "idle"
  /\ cal_status' = IF "APPLY" \in cal_status THEN cal_status \ {"APPLY"}
                   ELSE cal_status \cup {"APPLY"}
  /\ UNCHANGED <<kit, sweepVars, cal_range, cal_data, spoiled, computed, collectVars,
                 foreign>>

Next ==
  \/ \E g \in Grids : SetStimulus(g) \/ Scan(g) \/ LiveSweep(g)
  \/ ResetRange
  \/ \E t \in kit, by \in {"ui", "cmd"} : CollectStart(t, by)
  \/ CollectPoint \/ CollectEnd
  \/ Done \/ Reset \/ Apply

Spec == Init /\ [][Next]_vars

-----------------------------------------------------------------------------
\* The type of every variable.
TypeOK ==
  /\ kit \in Kits
  /\ stim \in Ranges /\ sweep_points \in PointCounts
  /\ grid \in Grids /\ cal_range \in Grids
  /\ cal_status \subseteq Flags
  /\ cal_data \in [Types -> [Index -> Values]]
  /\ measured \in [Index -> Values]
  /\ p_sweep \in Nat /\ \E n \in PointCounts : p_sweep <= n
  /\ std \in Types /\ pc \in {"idle", "ui", "cmd"}
  /\ foreign \in BOOLEAN /\ spoiled \subseteq Types /\ computed \in BOOLEAN

CalPoints == 0 .. cal_range[2] - 1

(***************************************************************************)
(* cal_status tells the truth about the standards (main.c:1901 "reset old  *)
(* calibration if frequency range/points not some"): an array whose flag   *)
(* is set holds, at every calibrated point, that standard measured on the  *)
(* calibrated grid, whatever changed the sweep between two standards.      *)
(***************************************************************************)
StandardsMatchRange ==
  \A t \in (cal_status \cap Types) \ spoiled :
    (pc = "idle" \/ std # t) => \A i \in CalPoints : cal_data[t][i] = Raw(t, cal_range)

\* The array of every term holds a term of that kind at point i
TermsAt(i) ==
  /\ "load" \notin spoiled => cal_data["load"][i] \in {Zero, Raw("load", cal_range)}
  /\ "open" \notin spoiled =>
       cal_data["open"][i] \in {Zero} \cup {<<"es", cal_range, d>> : d \in {"load", "zero"}}
  /\ "short" \notin spoiled =>
       cal_data["short"][i] \in {One} \cup {<<"er", cal_range, d>> : d \in {"load", "zero"}}
  /\ "thru" \notin spoiled => cal_data["thru"][i] \in {One, <<"et", cal_range>>}
  /\ "isoln" \notin spoiled => cal_data["isoln"][i] \in {Zero, Raw("isoln", cal_range)}

(***************************************************************************)
(* After DONE the five arrays hold error terms, each computed from         *)
(* standards of the calibrated grid, and never a raw standard or a term    *)
(* computed twice, whichever standards were taken, retaken or left out     *)
(* ("Partial calibrations are allowed", docs/manual/03-calibration.md).    *)
(***************************************************************************)
DoneLeavesTerms == computed => \A i \in CalPoints : TermsAt(i)

(***************************************************************************)
(* Without CALSTAT_INTERPOLATED sweep() takes the terms of point p_sweep   *)
(* as they are (main.c:1184): then the calibrated grid is the sweep's.     *)
(***************************************************************************)
DirectCopyRight ==
  /\ cal_status \cap (Types \cup Terms) # {}
  /\ "INTERPOLATED" \notin cal_status
  /\ ~foreign
  => cal_range = Here

(***************************************************************************)
(* "The correction is stored per sweep point at the calibrated start, stop *)
(* and point count.  If you change any of them, the firmware does not      *)
(* discard the calibration; it interpolates"                               *)
(* (docs/manual/03-calibration.md): DONE computes the term of every        *)
(* calibrated point, also when the number of points was changed before it. *)
(***************************************************************************)
DoneCoversRange ==
  (computed /\ {"ES", "ER"} \subseteq cal_status) =>
    \A i \in CalPoints :
      /\ cal_data["open"][i][1] \in {"es", "zero"}
      /\ cal_data["short"][i][1] = "er"
=============================================================================
