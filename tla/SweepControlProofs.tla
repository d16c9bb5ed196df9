------------------------- MODULE SweepControlProofs -------------------------
(***************************************************************************)
(* Proofs about SweepControl, for every set of stimuli and point counts    *)
(* and every choice of console commands and touch actions: the type, the   *)
(* coherence of finished sweeps, and the grid that live sweeps run on.     *)
(***************************************************************************)
EXTENDS SweepControl, TLAPS

(***************************************************************************)
(* A point is only measured inside the sweep, and the user interface holds *)
(* a range when it uses one: without these the types of p_sweep and of the *)
(* grid are not inductive.                                                 *)
(***************************************************************************)
PointInv ==
  /\ pc \in {"point", "scan"} => p_sweep < sweep_points
  /\ pc \in {"store_grid", "apply"} => range \in Grids
  /\ (call = "load_snp" /\ pc \in {"load_pause", "store_pause"}) => range \in Grids

TInv == TypeOK /\ PointInv

(***************************************************************************)
(* The points before p_sweep were measured live on the grid in force,      *)
(* until load_snp, which has put a file's points there, stores its grid;   *)
(* the two operations that break this for good are not in use.             *)
(***************************************************************************)
FileRead == /\ call = "load_snp"
            /\ pc \in {"load_pause", "store_pause", "apply", "load_range", "store_grid"}

CoherenceInv ==
  /\ shell_function # "scan_f"
  /\ FileRead \/ \A i \in Index : i < p_sweep => measured[i] = Live(grid)

-----------------------------------------------------------------------------
\* A point below a possible point count indexes the measured array.
LEMMA PointIndex ==
  ASSUME NEW n \in PointCounts, NEW p \in Nat, p < n
  PROVE  p \in Index
<1>1. n \in Nat
  BY PointsAssumption
<1>2. p \in 0 .. n - 1
  BY <1>1
<1>3. QED
  BY <1>2 DEF Index

\* A sweep has at least one point (SWEEP_POINTS_MIN, and cmd_scan refuses 0).
LEMMA PositivePoints ==
  ASSUME NEW n \in PointCounts
  PROVE  n \in Nat /\ 0 < n
  BY PointsAssumption

\* What update_frequencies leaves behind is well typed (main.c:1541).
LEMMA UpdateTypes ==
  ASSUME NEW f \in Stimuli, NEW n \in PointCounts, UpdateFrequencies(f, n)
  PROVE  /\ stim' \in Stimuli /\ sweep_points' \in PointCounts /\ grid' \in Grids
         /\ torn' \in BOOLEAN /\ p_sweep' = 0 /\ p_sweep' < sweep_points'
         /\ \E m \in PointCounts : p_sweep' <= m
<1>1. n \in Nat /\ n > 0
  BY PointsAssumption
<1>2. torn' \in BOOLEAN
  BY Zenon DEF UpdateFrequencies
<1>3. stim' = f /\ sweep_points' = n /\ grid' = <<f, n>> /\ p_sweep' = 0
  BY Zenon DEF UpdateFrequencies
<1>4. QED
  BY <1>1, <1>2, <1>3 DEF Grids

(***************************************************************************)
(* The part of the state the commands and menu entries change, and what    *)
(* they leave of it.                                                       *)
(***************************************************************************)
GridTypes ==
  /\ sweep_mode \subseteq Flags
  /\ stim \in Stimuli /\ sweep_points \in PointCounts /\ grid \in Grids /\ torn \in BOOLEAN
  /\ p_sweep \in Nat /\ \E n \in PointCounts : p_sweep <= n

\* A console command keeps the types and restarts or leaves the sweep.
LEMMA CommandTypes ==
  ASSUME GridTypes, NEW op, NEW a \in Args, Command(op, a)
  PROVE  /\ GridTypes'
         /\ UNCHANGED <<grid, sweep_points, p_sweep>> \/ (p_sweep' = 0 /\ p_sweep' < sweep_points')
<1> USE DEF GridTypes, Flags
<1>0. a[1] \in Stimuli /\ a[2] \in PointCounts
  BY DEF Args, Grids
<1>1. CASE op = "pause" /\ Pause
  BY <1>1 DEF Pause, gridVars
<1>2. CASE op = "resume" /\ Resume
  BY <1>2, UpdateTypes DEF Resume
<1>3. CASE op = "sweep" /\ Sweep(a)
  BY <1>0, <1>3, UpdateTypes DEF Sweep, SetSweepFrequency
<1>4. CASE op = "recall" /\ Recall(a)
  BY <1>0, <1>4, UpdateTypes DEF Recall
<1>5. QED
  BY <1>1, <1>2, <1>3, <1>4 DEF Command

\* The flags after the menu's PAUSE / RESUME are flags (main.c:301).
LEMMA ToggleTypes ==
  ASSUME NEW m \in SUBSET Flags
  PROVE  ToggleSweep(m) \in SUBSET Flags
  BY DEF ToggleSweep, Flags

-----------------------------------------------------------------------------
\* Init satisfies the types.
LEMMA InitTypes == Init => TInv
<1> SUFFICES ASSUME Init PROVE TInv
  OBVIOUS
<1>1. PICK n \in PointCounts : TRUE
  BY PointsAssumption
<1>2. 0 <= n
  BY PointsAssumption
<1>3. measured \in [Index -> Values]
  BY DEF Init, Values, Grids
<1>4. QED
  BY <1>1, <1>2, <1>3 DEF Init, TInv, TypeOK, PointInv, Flags, Args, Grids, ConsoleOps, UiSteps

-----------------------------------------------------------------------------
\* The parts of the user interface's handlers keep the types.
LEMMA UiPartTypes ==
  ASSUME TInv, UiPart
  PROVE  TInv'
<1> USE DEF TInv, TypeOK, PointInv, uiVars
<1>1. CASE PausePart \/ ResumePart \/ MarkPart \/ LeaveView \/ TogglePart
  <2>1. sweep_mode' \subseteq Flags /\ reg' \subseteq Flags
    BY <1>1, ToggleTypes
       DEF PausePart, ResumePart, MarkPart, LeaveView, TogglePart, LoadMode, StoreMode, Flags
  <2>2. pc' \in UiSteps \cup {"script", "ui_end"}
    BY <1>1 DEF PausePart, ResumePart, MarkPart, LeaveView, TogglePart, AfterView,
                LoadMode, StoreMode, UiSteps
  <2>3. /\ pc' # "store_grid"
        /\ pc' = "apply" => range \in Grids
        /\ (call = "load_snp" /\ pc' \in {"load_pause", "store_pause"}) => range \in Grids
    BY <1>1 DEF PausePart, ResumePart, MarkPart, LeaveView, TogglePart, AfterView,
                LoadMode, StoreMode
  <2>4. UNCHANGED <<operation_requested, shellVars, outVars, gridVars, p_sweep, measured,
                    completed, uiVars>>
    BY <1>1 DEF PausePart, ResumePart, MarkPart, LeaveView, TogglePart, LoadMode, StoreMode
  <2>5. QED
    BY <2>1, <2>2, <2>3, <2>4 DEF UiSteps, shellVars, gridVars, outVars
<1>2. CASE LoadRange \/ ToggleBack
  <2>1. range' \in Grids \cup {<<>>} /\ (pc' = "store_grid" => range' \in Grids)
    BY <1>2 DEF LoadRange, ToggleBack, Grids
  <2>2. QED
    BY <1>2, <2>1 DEF LoadRange, ToggleBack, UiSteps, modeVars, shellVars, gridVars, outVars
<1>3. CASE StoreGrid
  <2>1. grid' \in Grids /\ torn' \in BOOLEAN /\ p_sweep' = 0 /\ range' = <<>>
    BY <1>3 DEF StoreGrid
  <2>2. pc' \in {"load_view", "load_enable", "script", "ui_end"}
    BY <1>3 DEF StoreGrid
  <2>3. \E n \in PointCounts : 0 <= n
    BY PointsAssumption
  <2>4. QED
    BY <1>3, <2>1, <2>2, <2>3 DEF StoreGrid, UiSteps, modeVars, shellVars, outVars
<1>4. CASE ApplyFile
  BY <1>4 DEF ApplyFile, UiSteps, Grids, modeVars, shellVars, outVars
<1>5. QED
  BY <1>1, <1>2, <1>3, <1>4 DEF UiPart

\* The sweep thread's own steps keep the types.
LEMMA SweepThreadTypes ==
  ASSUME TInv, SweepThread
  PROVE  TInv'
<1> USE DEF TInv, TypeOK, PointInv, uiVars
<1>1. CASE LoopTop
  <2>1. p_sweep' \in Nat /\ (\E n \in PointCounts : p_sweep' <= n)
        /\ (pc' = "point" => p_sweep' < sweep_points)
    BY <1>1, PointsAssumption DEF LoopTop, FirstPoint
  <2>2. output_muted' \in BOOLEAN /\ outputs' \in {"on", "off"} /\ completed' \in BOOLEAN
    BY <1>1 DEF LoopTop, MuteWanted
  <2>3. pc' \in {"point", "serve"}
    BY <1>1 DEF LoopTop, MuteWanted
  <2>4. QED
    BY <1>1, <2>1, <2>2, <2>3 DEF LoopTop, modeVars, shellVars, gridVars
<1>2. CASE MeasurePoint
  <2>1. p_sweep \in Index /\ sweep_points \in Nat
    BY <1>2, PointIndex, PointsAssumption DEF MeasurePoint
  <2>2. measured' \in [Index -> Values]
    BY <1>2, <2>1 DEF MeasurePoint, StorePoint, Values, Live
  <2>3. p_sweep' \in Nat /\ (\E n \in PointCounts : p_sweep' <= n)
        /\ (pc' = "point" => p_sweep' < sweep_points)
    BY <1>2, <2>1 DEF MeasurePoint
  <2>4. completed' \in BOOLEAN /\ pc' \in {"point", "load_once"}
    BY <1>2 DEF MeasurePoint, Finished
  <2>5. QED
    BY <1>2, <2>2, <2>3, <2>4 DEF MeasurePoint, modeVars, shellVars, gridVars, outVars
<1>3. CASE ClearOnce \/ EnterUi \/ LeaveUi
  <2>1. sweep_mode' \subseteq Flags /\ reg' \subseteq Flags
    BY <1>3 DEF ClearOnce, EnterUi, LeaveUi, LoadMode, StoreMode, Flags
  <2>2. QED
    BY <1>3, <2>1 DEF ClearOnce, EnterUi, LeaveUi, LoadMode, StoreMode,
                      shellVars, gridVars, outVars
<1>4. CASE NoCommand \/ UiIdle \/ ScriptEnd \/ UiEnd
  BY <1>4 DEF NoCommand, UiIdle, ScriptEnd, UiEnd, modeVars, shellVars, gridVars, outVars, UiSteps
<1>5. CASE RunCommand
  <2>1. GridTypes
    BY DEF GridTypes
  <2>2. GridTypes'
    BY <1>5, <2>1, CommandTypes DEF RunCommand
  <2>3. QED
    BY <1>5, <2>2 DEF GridTypes, RunCommand, outVars
<1>6. CASE ScanStart
  <2>0. shell_args[2] \in PointCounts /\ shell_args \in Grids
    BY DEF Args, Grids
  <2>1. 0 < shell_args[2]
    BY <2>0, PositivePoints
  <2>2. p_sweep' \in {0, p_sweep} /\ sweep_mode' \subseteq Flags
        /\ (pc' = "scan" => p_sweep' = 0)
    BY <1>6 DEF ScanStart, Flags
  <2>3. \E n \in PointCounts : p_sweep' <= n
    BY <2>0, <2>1, <2>2, PointsAssumption
  <2>4. torn' \in BOOLEAN
    BY <1>6, Zenon DEF ScanStart
  <2>5. QED
    BY <1>6, <2>0, <2>1, <2>2, <2>3, <2>4 DEF ScanStart, outVars
<1>7. CASE ScanPoint
  <2>1. p_sweep \in Index /\ sweep_points \in Nat
    BY <1>7, PointIndex, PointsAssumption DEF ScanPoint
  <2>2. measured' \in [Index -> Values]
    BY <1>7, <2>1 DEF ScanPoint, StorePoint, Values, Live
  <2>3. p_sweep' \in Nat /\ (\E n \in PointCounts : p_sweep' <= n)
        /\ (pc' = "scan" => p_sweep' < sweep_points)
    BY <1>7, <2>1 DEF ScanPoint
  <2>4. sweep_mode' \subseteq Flags /\ pc' \in {"scan", "serve"}
        /\ shell_function' \in ConsoleOps \cup {"none"}
    BY <1>7 DEF ScanPoint, Flags
  <2>5. QED
    BY <1>7, <2>2, <2>3, <2>4 DEF ScanPoint, gridVars, outVars
<1>8. QED
  BY <1>1, <1>2, <1>3, <1>4, <1>5, <1>6, <1>7, UiPartTypes DEF SweepThread

\* The touch actions, scripts, the console and the interrupts keep the types.
LEMMA InputTypes ==
  ASSUME TInv, Next, ~SweepThread
  PROVE  TInv'
<1> USE DEF TInv, TypeOK, PointInv, uiVars
<1>0. GridTypes
  BY DEF GridTypes
<1>1. CASE UiToggle \/ SaveAsk \/ SaveAuto \/ SaveEnter \/ SaveCancel \/ ScriptStart
  BY <1>1 DEF UiToggle, SaveAsk, SaveAuto, SaveEnter, SaveCancel, ScriptStart, UiStep, UiSteps,
              modeVars, shellVars, gridVars, outVars
<1>2. CASE UiMute
  BY <1>2 DEF UiMute, modeVars, shellVars, gridVars
<1>3. ASSUME NEW f \in Stimuli, UiStimulus(f) PROVE TInv'
  BY <1>3 DEF UiStimulus, UiStep, UiSteps, modeVars, shellVars, outVars
<1>4. ASSUME NEW n \in PointCounts, UiPoints(n) PROVE TInv'
  BY <1>4 DEF UiPoints, UiStep, UiSteps, modeVars, shellVars, outVars
<1>5. ASSUME NEW a \in Args, UiRecall(a) PROVE TInv'
  BY <1>5 DEF UiRecall, UiStep, UiSteps, Args, Grids, modeVars, shellVars, outVars
<1>6. ASSUME NEW a \in Args, ReadFile(a, a[2]) PROVE measured' \in [Index -> Values]
  BY <1>6 DEF ReadFile, Values, Stored, Args
<1>7. ASSUME NEW a \in Args, LoadSnp(a) PROVE TInv'
  <2>1. measured' \in [Index -> Values]
    BY <1>6, <1>7 DEF LoadSnp
  <2>2. QED
    BY <1>7, <2>1 DEF LoadSnp, UiStep, UiSteps, Args, modeVars, shellVars, gridVars, outVars
<1>8. ASSUME NEW a \in Args, LoadBad(a) PROVE TInv'
  <2>1. measured' \in [Index -> Values]
    BY <1>6, <1>8 DEF LoadBad
  <2>2. QED
    BY <1>8, <2>1 DEF LoadBad, UiStep, UiSteps, modeVars, shellVars, gridVars, outVars
<1>9. ASSUME NEW op \in Console, NEW a \in Args, ScriptLine(op, a) PROVE TInv'
  <2>1. stim' \in Stimuli /\ sweep_points' \in PointCounts
    BY <1>9 DEF ScriptLine, Args, Grids
  <2>2. call' \in ConsoleOps /\ call' # "load_snp"
    BY <1>9, InputsAssumption DEF ScriptLine, ConsoleOps
  <2>3. QED
    BY <1>9, <2>1, <2>2 DEF ScriptLine, UiSteps, modeVars, outVars
<1>10. ASSUME NEW op \in Console, NEW a \in Args, ConsoleQueue(op, a) PROVE TInv'
  BY <1>10, InputsAssumption DEF ConsoleQueue, modeVars, gridVars, outVars
<1>11. ASSUME NEW op \in Console, NEW a \in Args, ConsoleDirect(op, a) PROVE TInv'
  <2>1. GridTypes' /\ (UNCHANGED <<grid, sweep_points, p_sweep>>
                        \/ (p_sweep' = 0 /\ p_sweep' < sweep_points'))
    BY <1>0, <1>11, CommandTypes DEF ConsoleDirect
  <2>2. QED
    BY <1>11, <2>1 DEF ConsoleDirect, GridTypes, outVars
<1>12. CASE InputInterrupt
  BY <1>12 DEF InputInterrupt, modeVars, shellVars, gridVars, outVars
<1>13. QED
  BY <1>1, <1>2, <1>3, <1>4, <1>5, <1>7, <1>8, <1>9, <1>10, <1>11, <1>12
     DEF Next, UiAction, Script

\* Every step keeps the types.
LEMMA StepTypes ==
  ASSUME TInv, [Next]_vars
  PROVE  TInv'
<1>1. CASE UNCHANGED vars
  BY <1>1 DEF TInv, TypeOK, PointInv, vars
<1>2. QED
  BY <1>1, SweepThreadTypes, InputTypes

(***************************************************************************)
(* Every state of the sweep thread and its inputs is well typed: p_sweep   *)
(* never leaves the measured array, whatever commands and touches come in  *)
(* whatever order (main.c sweep, cmd_scan, set_sweep_points).              *)
(***************************************************************************)
THEOREM SweepTypeCorrect == Spec => []TypeOK
<1>1. Init => TInv
  BY InitTypes
<1>2. TInv /\ [Next]_vars => TInv'
  BY StepTypes
<1>3. TInv => TypeOK
  BY DEF TInv
<1>4. QED
  BY <1>1, <1>2, <1>3, PTL DEF Spec

-----------------------------------------------------------------------------
\* A live or scan point extends the measured prefix by one (main.c:1179).
LEMMA PointExtends ==
  ASSUME TypeOK, CoherenceInv, ~FileRead, p_sweep < sweep_points, StorePoint
  PROVE  \A i \in Index : i < p_sweep + 1 => measured'[i] = Live(grid)
<1>1. p_sweep \in Index
  BY PointIndex DEF TypeOK
<1>2. \A i \in Index : i \in Int
  BY PointsAssumption DEF Index
<1>3. QED
  BY <1>1, <1>2 DEF TypeOK, CoherenceInv, StorePoint

\* Whatever restarts the sweep leaves nothing to be coherent.
LEMMA RestartCoherent ==
  ASSUME p_sweep' = 0, shell_function' # "scan_f"
  PROVE  CoherenceInv'
<1>1. \A i \in Index : ~(i < 0)
  BY PointsAssumption DEF Index
<1>2. QED
  BY <1>1 DEF CoherenceInv

\* Every step keeps the measured prefix coherent.
LEMMA StepCoherent ==
  ASSUME "scan_f" \notin Console, "load_bad" \notin Touch, TInv, CoherenceInv, [Next]_vars
  PROVE  CoherenceInv'
<1> USE DEF TInv, PointInv
<1>0. GridTypes
  BY DEF TypeOK, GridTypes
<1>1. CASE LoopTop
  <2>1. p_sweep' \in {0, p_sweep} /\ ~FileRead
    BY <1>1 DEF LoopTop, FirstPoint, FileRead
  <2>2. QED
    BY <1>1, <2>1, RestartCoherent DEF CoherenceInv, LoopTop, shellVars, gridVars
<1>2. CASE MeasurePoint \/ ScanPoint
  <2>0. ~FileRead
    BY <1>2 DEF MeasurePoint, ScanPoint, FileRead
  <2>1. \A i \in Index : i < p_sweep + 1 => measured'[i] = Live(grid)
    BY <1>2, <2>0, PointExtends DEF MeasurePoint, ScanPoint
  <2>2. p_sweep' \in {p_sweep, p_sweep + 1} /\ UNCHANGED grid /\ shell_function' # "scan_f"
    BY <1>2 DEF MeasurePoint, ScanPoint, CoherenceInv, shellVars, gridVars
  <2>3. \A i \in Index : i \in Int
    BY PointsAssumption DEF Index
  <2>4. QED
    BY <2>1, <2>2, <2>3 DEF CoherenceInv, TypeOK
<1>3. ASSUME NEW op, NEW a \in Args, Command(op, a), UNCHANGED <<measured, call, pc>>,
             shell_function' # "scan_f"
      PROVE  CoherenceInv'
  BY <1>0, <1>3, CommandTypes, RestartCoherent DEF CoherenceInv, FileRead
<1>4. CASE RunCommand
  BY <1>3, <1>4 DEF RunCommand, TypeOK, uiVars
<1>5. CASE ScanStart
  BY <1>5, RestartCoherent DEF ScanStart, CoherenceInv
<1>6. ASSUME UNCHANGED <<measured, grid, p_sweep, shell_function>>, FileRead => FileRead'
      PROVE  CoherenceInv'
  BY <1>6 DEF CoherenceInv
<1>7. CASE UiPart
  <2>1. CASE StoreGrid
    BY <2>1, RestartCoherent DEF StoreGrid, CoherenceInv, shellVars
  <2>2. CASE ~StoreGrid
    <3>1. UNCHANGED <<measured, grid, p_sweep, shell_function>>
      BY <1>7, <2>2 DEF UiPart, PausePart, ResumePart, MarkPart, LoadRange, LeaveView,
                        TogglePart, ToggleBack, ApplyFile, LoadMode, StoreMode, shellVars, gridVars
    <3>2. FileRead => FileRead'
      BY <1>7, <2>2 DEF UiPart, PausePart, ResumePart, MarkPart, LoadRange, LeaveView,
                        TogglePart, ToggleBack, ApplyFile, LoadMode, StoreMode, FileRead, uiVars
    <3>3. QED
      BY <1>6, <3>1, <3>2
  <2>3. QED
    BY <2>1, <2>2
<1>8. CASE SweepThread
  <2>1. CASE ClearOnce \/ EnterUi \/ LeaveUi \/ NoCommand \/ UiIdle \/ ScriptEnd \/ UiEnd
    BY <1>6, <2>1 DEF ClearOnce, EnterUi, LeaveUi, LoadMode, StoreMode, NoCommand, UiIdle,
                      ScriptEnd, UiEnd, shellVars, gridVars, FileRead
  <2>2. QED
    BY <1>1, <1>2, <1>4, <1>5, <1>7, <1>8, <2>1 DEF SweepThread
<1>9. CASE UiAction
  <2>1. ASSUME NEW f \in Stimuli, UiStimulus(f) PROVE CoherenceInv'
    BY <1>6, <2>1 DEF UiStimulus, UiStep, shellVars, FileRead
  <2>2. ASSUME NEW n \in PointCounts, UiPoints(n) PROVE CoherenceInv'
    BY <1>6, <2>2 DEF UiPoints, UiStep, shellVars, FileRead
  <2>3. ASSUME NEW a \in Args, UiRecall(a) PROVE CoherenceInv'
    BY <1>6, <2>3 DEF UiRecall, UiStep, shellVars, FileRead
  <2>4. ASSUME NEW a \in Args, LoadSnp(a) PROVE CoherenceInv'
    BY <2>4 DEF LoadSnp, UiStep, shellVars, FileRead, CoherenceInv
  <2>5. ASSUME NEW a \in Args, LoadBad(a) PROVE FALSE
    BY <2>5 DEF LoadBad, Menu
  <2>6. CASE UiToggle \/ UiMute \/ SaveAsk \/ SaveAuto \/ SaveEnter \/ SaveCancel \/ ScriptStart
    BY <1>6, <2>6 DEF UiToggle, UiMute, SaveAsk, SaveAuto, SaveEnter, SaveCancel, ScriptStart, UiStep,
                      shellVars, gridVars, FileRead
  <2>7. QED
    BY <1>9, <2>1, <2>2, <2>3, <2>4, <2>5, <2>6 DEF UiAction
<1>10. ASSUME NEW op \in Console, NEW a \in Args, ConsoleDirect(op, a)
       PROVE  CoherenceInv'
  BY <1>3, <1>10 DEF ConsoleDirect, CoherenceInv, uiVars
<1>11. ASSUME NEW op \in Console, NEW a \in Args, ConsoleQueue(op, a) PROVE CoherenceInv'
  BY <1>11 DEF ConsoleQueue, CoherenceInv, FileRead, gridVars, uiVars
<1>12. ASSUME NEW op \in Console, NEW a \in Args, ScriptLine(op, a) PROVE CoherenceInv'
  BY <1>6, <1>12 DEF ScriptLine, FileRead
<1>13. CASE InputInterrupt \/ UNCHANGED vars
  BY <1>6, <1>13 DEF InputInterrupt, vars, shellVars, gridVars, uiVars, FileRead
<1>14. QED
  BY <1>8, <1>9, <1>10, <1>11, <1>12, <1>13 DEF Next, Script

(***************************************************************************)
(* Every finished sweep, live or of a scan, has all its points on the one  *)
(* grid in force, as long as no scan without a channel and no broken       *)
(* Touchstone file comes between (main.c sweep, cmd_scan; ui.c load_snp).  *)
(***************************************************************************)
THEOREM FinishedSweepsCoherent ==
  ("scan_f" \notin Console /\ "load_bad" \notin Touch) => (Spec => SweepCoherent)
<1> SUFFICES ASSUME "scan_f" \notin Console, "load_bad" \notin Touch
             PROVE  Spec => SweepCoherent
  OBVIOUS
<1>1. Init => TInv /\ CoherenceInv
  <2>1. \A i \in Index : ~(i < 0)
    BY PointsAssumption DEF Index
  <2>2. QED
    BY <2>1, InitTypes DEF Init, CoherenceInv
<1>2. TInv /\ CoherenceInv /\ [Next]_vars => (TInv /\ CoherenceInv)'
  BY StepTypes, StepCoherent
<1>3. TInv /\ CoherenceInv /\ [Next]_vars =>
        [((MeasurePoint \/ ScanPoint) /\ p_sweep' = sweep_points) =>
           \A i \in 0 .. sweep_points - 1 : measured'[i] = Live(grid)]_vars
  <2> SUFFICES ASSUME TInv, CoherenceInv, MeasurePoint \/ ScanPoint, p_sweep' = sweep_points,
                      NEW i \in 0 .. sweep_points - 1
               PROVE  measured'[i] = Live(grid)
    OBVIOUS
  <2>1. /\ p_sweep < sweep_points /\ StorePoint /\ p_sweep' \in {p_sweep, p_sweep + 1}
        /\ ~FileRead
    BY DEF MeasurePoint, ScanPoint, TInv, PointInv, FileRead
  <2>2. \A k \in Index : k < p_sweep + 1 => measured'[k] = Live(grid)
    BY <2>1, PointExtends DEF TInv
  <2>3. sweep_points \in PointCounts /\ sweep_points \in Nat /\ p_sweep \in Nat
    BY PointsAssumption DEF TInv, TypeOK
  <2>4. i \in Nat /\ i < sweep_points /\ i < p_sweep + 1
    BY <2>1, <2>3
  <2>5. i \in Index
    BY <2>3, <2>4, PointIndex
  <2>6. QED
    BY <2>2, <2>4, <2>5
<1>4. QED
  BY <1>1, <1>2, <1>3, PTL DEF Spec, SweepCoherent

-----------------------------------------------------------------------------
\* The menu's PAUSE / RESUME and the saves, which use it, are not in use: they
\* enable the sweep without update_frequencies.
NoToggle == Touch \cap {"toggle", "save"} = {}

(***************************************************************************)
(* The grid is the stimulus', or it was torn, or nothing sweeps: the user  *)
(* interface is about to store it, a scan is running, or a scan has left   *)
(* ENABLE clear, and no store of sweep_mode that the sweep thread has      *)
(* under way brings it back.                                               *)
(***************************************************************************)
GridRight == grid = <<stim, sweep_points>> \/ torn

Storing == {"store_once", "store_ui", "store_noui", "store_pause", "store_mark"}
Enabling == {"point", "load_view", "store_view", "load_enable", "store_enable"}

GridInv ==
  /\ "ONCE" \notin sweep_mode /\ "ONCE" \notin reg
  /\ keypad = "closed" /\ pc \notin {"load_toggle", "store_toggle", "again"}
  /\ \/ GridRight
     \/ pc \in {"scan", "load_range", "store_grid"}
     \/ /\ "ENABLE" \notin sweep_mode /\ pc \notin Enabling
        /\ pc \in Storing => "ENABLE" \notin reg

\* A command takes the grid of the stimulus, or leaves the grid and at most
\* clears ENABLE.
LEMMA CommandGrid ==
  ASSUME NEW op, NEW a, Command(op, a)
  PROVE  /\ "ONCE" \in sweep_mode' => "ONCE" \in sweep_mode
         /\ \/ grid' = <<stim', sweep_points'>>
            \/ UNCHANGED gridVars /\ sweep_mode' \subseteq sweep_mode
BY DEF Command, Pause, Resume, Sweep, Recall, SetSweepFrequency, UpdateFrequencies

\* A step that leaves the grid alone and enables nothing.
LEMMA GridKept ==
  ASSUME GridInv, UNCHANGED <<gridVars, keypad>>, sweep_mode' \subseteq sweep_mode, reg' = reg,
         pc' = pc \/ (pc \notin {"scan", "load_range", "store_grid"}
                       /\ pc' \notin Enabling \cup Storing \cup {"load_toggle", "store_toggle", "again"})
  PROVE  GridInv'
BY DEF GridInv, GridRight, gridVars

\* A step that takes the grid of the stimulus.
LEMMA GridTaken ==
  ASSUME GridInv, grid' = <<stim', sweep_points'>>, UNCHANGED <<reg, keypad, pc>>,
         "ONCE" \in sweep_mode' => "ONCE" \in sweep_mode
  PROVE  GridInv'
BY DEF GridInv, GridRight

\* A handler that has changed the stimulus goes on to store the grid.
LEMMA GridToStore ==
  ASSUME GridInv, UNCHANGED <<modeVars, keypad>>, pc' = "load_range"
  PROVE  GridInv'
BY DEF GridInv, modeVars

\* A load and a store of sweep_mode that enable nothing they did not load.
LEMMA GridMode ==
  ASSUME GridInv,
         pc \notin {"scan", "load_range", "store_grid"}, UNCHANGED <<gridVars, keypad>>,
         pc' \notin Enabling \cup {"load_toggle", "store_toggle", "again"},
         \/ reg' = sweep_mode /\ UNCHANGED sweep_mode
         \/ /\ pc \in Storing /\ pc' \notin Storing /\ reg' = {}
            /\ "ENABLE" \in sweep_mode' => "ENABLE" \in reg
            /\ "ONCE" \in sweep_mode' => "ONCE" \in reg
  PROVE  GridInv'
BY DEF GridInv, GridRight, gridVars

\* The parts of the handlers keep the invariant of the grid.
LEMMA UiPartGrid ==
  ASSUME GridInv, UiPart
  PROVE  GridInv'
<1>1. CASE PausePart
  BY <1>1, GridMode DEF PausePart, LoadMode, StoreMode, Storing, Enabling, uiVars
<1>2. CASE MarkPart
  BY <1>2, GridMode DEF MarkPart, LoadMode, StoreMode, Storing, Enabling, uiVars
<1>3. CASE ResumePart \/ LeaveView
  <2>1. GridRight /\ UNCHANGED gridVars
    BY <1>3 DEF ResumePart, LeaveView, LoadMode, StoreMode, GridInv, Enabling
  <2>2. GridRight'
    BY <2>1 DEF GridRight, gridVars
  <2>3. pc' \notin {"load_toggle", "store_toggle", "again"} /\ UNCHANGED keypad
        /\ "ONCE" \notin sweep_mode' /\ "ONCE" \notin reg'
    BY <1>3 DEF ResumePart, LeaveView, AfterView, LoadMode, StoreMode, GridInv, uiVars
  <2>4. QED
    BY <2>2, <2>3 DEF GridInv
<1>4. CASE LoadRange
  BY <1>4 DEF LoadRange, GridInv, modeVars
<1>5. CASE StoreGrid
  <2>1. GridRight'
    BY <1>5 DEF StoreGrid, GridRight
  <2>2. pc' \in {"load_view", "load_enable", "script", "ui_end"}
    BY <1>5 DEF StoreGrid
  <2>3. QED
    BY <1>5, <2>1, <2>2 DEF StoreGrid, GridInv, modeVars
<1>6. CASE ApplyFile
  BY <1>6, GridToStore DEF ApplyFile, uiVars
<1>7. ~(TogglePart \/ ToggleBack)
  BY DEF TogglePart, ToggleBack, LoadMode, StoreMode, GridInv
<1>8. QED
  BY <1>1, <1>2, <1>3, <1>4, <1>5, <1>6, <1>7 DEF UiPart

\* Every step keeps the invariant of the grid.
LEMMA StepGrid ==
  ASSUME NoToggle, GridInv, [Next]_vars
  PROVE  GridInv'
<1> USE DEF uiVars
<1>1. CASE LoopTop
  BY <1>1 DEF LoopTop, GridInv, GridRight, Enabling, Storing, gridVars, modeVars
<1>2. CASE MeasurePoint
  BY <1>2 DEF MeasurePoint, GridInv, GridRight, Enabling, Storing, gridVars, modeVars
<1>3. CASE ClearOnce
  BY <1>3, GridMode DEF ClearOnce, LoadMode, StoreMode, Storing, Enabling
<1>4. CASE EnterUi
  BY <1>4, GridMode DEF EnterUi, LoadMode, StoreMode, Storing, Enabling
<1>5. CASE LeaveUi
  BY <1>5, GridMode DEF LeaveUi, LoadMode, StoreMode, Storing, Enabling
<1>6. CASE NoCommand \/ UiIdle \/ ScriptEnd \/ UiEnd \/ InputInterrupt \/ UNCHANGED vars
  BY <1>6, GridKept DEF NoCommand, UiIdle, ScriptEnd, UiEnd, InputInterrupt, vars, modeVars, gridVars,
                        Enabling, Storing
<1>7. ASSUME NEW op, NEW a, Command(op, a), UNCHANGED <<reg, keypad, pc>>
      PROVE  GridInv'
  BY <1>7, CommandGrid, GridKept, GridTaken
<1>8. CASE RunCommand
  BY <1>7, <1>8 DEF RunCommand
<1>9. CASE ScanStart
  BY <1>9 DEF ScanStart, GridInv, Enabling, Storing
<1>10. CASE ScanPoint
  BY <1>10 DEF ScanPoint, GridInv, GridRight, Enabling, Storing, gridVars
<1>11. CASE UiAction
  <2>1. ASSUME NEW f \in Stimuli, UiStimulus(f) PROVE GridInv'
    BY <2>1, GridToStore DEF UiStimulus, UiStep
  <2>2. ASSUME NEW n \in PointCounts, UiPoints(n) PROVE GridInv'
    <3>1. CASE n = sweep_points
      BY <2>2, <3>1, GridKept DEF UiPoints, UiStep, Enabling, Storing, gridVars, modeVars
    <3>2. CASE n # sweep_points
      BY <2>2, <3>2, GridToStore DEF UiPoints, UiStep
    <3>3. QED
      BY <3>1, <3>2
  <2>3. ASSUME NEW a \in Args, UiRecall(a) PROVE GridInv'
    BY <2>3, GridToStore DEF UiRecall, UiStep
  <2>4. ASSUME NEW a \in Args, LoadBad(a) \/ LoadSnp(a) PROVE GridInv'
    BY <2>4, GridKept DEF LoadBad, LoadSnp, UiStep, Enabling, Storing, modeVars
  <2>5. CASE UiMute \/ ScriptStart
    BY <2>5, GridKept DEF UiMute, ScriptStart, UiStep, Enabling, Storing, modeVars
  <2>6. ~(UiToggle \/ SaveAsk \/ SaveAuto \/ SaveEnter \/ SaveCancel)
    BY DEF NoToggle, GridInv, UiToggle, SaveAsk, SaveAuto, SaveEnter, SaveCancel, Menu
  <2>7. QED
    BY <1>11, <2>1, <2>2, <2>3, <2>4, <2>5, <2>6 DEF UiAction
<1>12. ASSUME NEW op \in Console, NEW a \in Args, ConsoleDirect(op, a)
       PROVE  GridInv'
  BY <1>7, <1>12 DEF ConsoleDirect
<1>13. ASSUME NEW op \in Console, NEW a \in Args, ConsoleQueue(op, a) PROVE GridInv'
  BY <1>13, GridKept DEF ConsoleQueue, modeVars
<1>14. ASSUME NEW op \in Console, NEW a \in Args, ScriptLine(op, a) PROVE GridInv'
  <2>1. CASE op = "pause"
    BY <1>14, <2>1, GridKept DEF ScriptLine, Enabling, Storing, gridVars, modeVars
  <2>2. CASE op # "pause"
    BY <1>14, <2>2, GridToStore DEF ScriptLine
  <2>3. QED
    BY <2>1, <2>2
<1>15. QED
  BY <1>1, <1>2, <1>3, <1>4, <1>5, <1>6, <1>8, <1>9, <1>10, <1>11, <1>12, <1>13, <1>14, UiPartGrid
     DEF Next, SweepThread, Script

(***************************************************************************)
(* A live sweep that finishes ran on the grid of the stimulus the axis     *)
(* shows, whatever scans took the grid over before it (main.c:539), also   *)
(* when a console command came between the load and the store of           *)
(* sweep_mode; as long as the menu does not re-enable the sweep and no     *)
(* command moved the sweep while the user interface stored its grid.       *)
(***************************************************************************)
THEOREM LiveGridFollows ==
  NoToggle => (Spec => LiveGridIsStimulus)
<1> SUFFICES ASSUME NoToggle PROVE Spec => LiveGridIsStimulus
  OBVIOUS
<1>1. Init => GridInv
  BY DEF Init, GridInv, GridRight
<1>2. GridInv /\ [Next]_vars => GridInv'
  BY StepGrid
<1>3. GridInv => [(MeasurePoint /\ completed' /\ ~torn) => grid = <<stim, sweep_points>>]_vars
  BY DEF GridInv, GridRight, Enabling, MeasurePoint
<1>4. QED
  BY <1>1, <1>2, <1>3, PTL DEF Spec, LiveGridIsStimulus
=============================================================================
