---------------------------- MODULE SweepControl ----------------------------
(***************************************************************************)
(* The sweep thread (main.c Thread1 and sweep), the console thread that    *)
(* hands it commands (VNAShell_executeLine), the scripts and touch actions *)
(* it runs itself (ui_process) and the flags they share: sweep_mode,       *)
(* operation_requested, shell_function and shell_args.                     *)
(*                                                                         *)
(* The console thread has the higher priority: what it does is atomic for  *)
(* the sweep thread, but it may come between any two steps of it: between  *)
(* the load and the store of sweep_mode, and, in the user interface,       *)
(* between the range update_frequencies loads and the grid it stores.      *)
(*                                                                         *)
(* Data: a stimulus (start and stop frequency) is a member of Stimuli; a   *)
(* grid <<stimulus, points>> is what set_frequencies computed; the value   *)
(* of a measured point is the grid it was measured on, or read from a file *)
(* with.  One measured point is one step (Acquisition opens it up); it     *)
(* needs the codec's clock, which is output CLK2 of the generator.         *)
(* get_sweep_mask() always asks for both channels, so sweep() never        *)
(* returns early for an empty mask.                                        *)
(***************************************************************************)
EXTENDS Integers

CONSTANTS
  Stimuli,         \* frequency ranges
  PointCounts,     \* numbers of sweep points
  Console,         \* the console commands in use
  Touch            \* the touch and button actions in use

ConsoleOps == {"pause", "resume", "sweep", "recall", "scan", "scan_f"}
TouchOps == {"toggle", "stimulus", "points", "recall", "load_snp", "load_bad",
             "load_cmd", "save", "mute"}

ASSUME StimuliAssumption == Stimuli # {}
ASSUME PointsAssumption == PointCounts \subseteq Nat \ {0} /\ PointCounts # {}
ASSUME InputsAssumption == /\ Console \subseteq ConsoleOps
                           /\ Touch \subseteq TouchOps

VARIABLES
  sweep_mode,          \* the SWEEP_* flags that are set
  reg,                 \* sweep_mode as the sweep thread loaded it
  operation_requested, \* the OP_* flags that are set
  shell_function,      \* command queued for the sweep thread, or "none"
  shell_args,          \* its parsed arguments
  mute_pause,          \* VNA_MODE_MUTE_PAUSE: "mute" or "keep"
  output_muted,
  outputs,             \* generator outputs (CLK2 clocks the codec): "on", "off"
  stim,                \* frequency0, frequency1
  sweep_points,
  grid,                \* _f_start, _f_delta, _f_points
  torn,                \* the sweep moved while its grid was stored (history)
  p_sweep,
  measured,
  completed,
  keypad,              \* the file name keypad: "closed", or what `save' found
  call,                \* the handler the user interface is in
  range,               \* start, stop and points as it holds them, or <<>>
  pc                   \* where the sweep thread is

modeVars == <<sweep_mode, reg>>
shellVars == <<shell_function, shell_args>>
outVars == <<mute_pause, output_muted, outputs>>
gridVars == <<stim, sweep_points, grid, torn>>
uiVars == <<keypad, call, range>>
vars == <<sweep_mode, reg, operation_requested, shell_function, shell_args,
          mute_pause, output_muted, outputs, stim, sweep_points, grid, torn, p_sweep,
          measured, completed, keypad, call, range, pc>>

Grids == Stimuli \X PointCounts
Args == Grids
Index == UNION {0 .. n - 1 : n \in PointCounts}
Live(g) == <<"live", g>>
Stored(g) == <<"file", g>>
Values == {"live", "file", "blank"} \X Grids
Flags == {"ENABLE", "ONCE", "FILE_VIEW", "UI"}
UiSteps == {"load_pause", "store_pause", "load_enable", "store_enable", "load_mark",
            "store_mark", "load_range", "store_grid", "load_view", "store_view",
            "load_toggle", "store_toggle", "again", "apply"}

Init ==
  /\ sweep_mode = {"ENABLE"}
  /\ reg = {}
  /\ operation_requested = {}
  /\ shell_function = "none"
  /\ shell_args \in Args
  /\ mute_pause = "keep" /\ output_muted = FALSE /\ outputs = "on"
  /\ stim \in Stimuli /\ sweep_points \in PointCounts
  /\ grid = <<stim, sweep_points>> /\ torn = FALSE
  /\ p_sweep = 0
  /\ measured = [i \in Index |-> <<"blank", grid>>]
  /\ completed = FALSE
  /\ keypad = "closed" /\ call = "none" /\ range = <<>>
  /\ pc = "top"

-----------------------------------------------------------------------------
(***************************************************************************)
(* What the commands change when nothing can come between: run by the      *)
(* console thread, or by the sweep thread while the console waits for it.  *)
(***************************************************************************)
\* A variant of update_frequencies without RESET_SWEEP
UpdateKeepsPoint(f, n) ==
  /\ stim' = f /\ sweep_points' = n
  /\ grid' = <<f, n>> /\ torn' = FALSE
  /\ UNCHANGED p_sweep

\* update_frequencies(): the grid follows the stimulus and the sweep restarts
UpdateFrequencies(f, n) ==
  /\ stim' = f /\ sweep_points' = n
  /\ grid' = <<f, n>> /\ torn' = FALSE
  /\ p_sweep' = 0

\* set_sweep_frequency() leaves the view of a stored file and measures live
SetSweepFrequency(f, n) ==
  /\ UpdateFrequencies(f, n)
  /\ sweep_mode' = IF "FILE_VIEW" \in sweep_mode
                   THEN (sweep_mode \ {"FILE_VIEW"}) \cup {"ENABLE"}
                   ELSE sweep_mode

\* The console commands other than scan: what their functions do
Pause == sweep_mode' = sweep_mode \ {"ENABLE"} /\ UNCHANGED <<gridVars, p_sweep>>

\* A variant of cmd_resume without update_frequencies
ResumeOnly == sweep_mode' = sweep_mode \cup {"ENABLE"} /\ UNCHANGED <<gridVars, p_sweep>>

Resume == UpdateFrequencies(stim, sweep_points) /\ sweep_mode' = sweep_mode \cup {"ENABLE"}

Sweep(a) == SetSweepFrequency(a[1], a[2])

Recall(a) == UpdateFrequencies(a[1], a[2]) /\ UNCHANGED sweep_mode

Command(op, a) ==
  \/ op = "pause" /\ Pause
  \/ op = "resume" /\ Resume
  \/ op = "sweep" /\ Sweep(a)
  \/ op = "recall" /\ Recall(a)

-----------------------------------------------------------------------------
(***************************************************************************)
(* Thread1: the top of the loop and sweep(true, mask).                     *)
(***************************************************************************)
\* sweep() starts over from a finished sweep, and a variant that does not
NoRestart == p_sweep
FirstPoint == IF p_sweep >= sweep_points THEN 0 ELSE p_sweep

\* Outputs are muted in a pause; a variant waits for the sweep to be finished
MuteWhenFinished(sweeping) ==
  ~sweeping /\ mute_pause = "mute" /\ p_sweep >= sweep_points
MuteWanted(sweeping) == ~sweeping /\ mute_pause = "mute"

\* Generator outputs follow the pause.  Enabling them again brings CLK2 back
\* only if its control register is written later (module Synth).
LoopTop ==
  LET sweeping == sweep_mode \cap {"ENABLE", "ONCE"} # {}
      mute == MuteWanted(sweeping)
  IN  /\ pc = "top"
      /\ completed' = FALSE
      /\ output_muted' = mute
      /\ \/ mute = output_muted /\ outputs' = outputs
         \/ mute /\ ~output_muted /\ outputs' = "off"
         \/ ~mute /\ output_muted /\ outputs' \in {"on", "off"}
      /\ p_sweep' = IF sweeping THEN FirstPoint ELSE p_sweep
      /\ pc' = IF sweeping THEN "point" ELSE "serve"
      /\ UNCHANGED <<modeVars, operation_requested, shellVars, mute_pause, gridVars,
                     measured, uiVars>>

\* One point of sweep(): DSP_WAIT spins for ever without the codec's clock
StorePoint ==
  /\ outputs = "on"
  /\ measured' = [measured EXCEPT ![p_sweep] = Live(grid)]

\* What sweep() returns, and a variant that is off by one
PastLast(p) == p > sweep_points
Finished(p) == p = sweep_points

MeasurePoint ==
  /\ pc = "point"
  /\ StorePoint
  /\ IF operation_requested # {}
     THEN /\ pc' = "load_once"
          /\ UNCHANGED <<p_sweep, completed>>
     ELSE /\ p_sweep' = p_sweep + 1
          /\ completed' = Finished(p_sweep + 1)
          /\ pc' = IF p_sweep + 1 < sweep_points THEN "point" ELSE "load_once"
  /\ UNCHANGED <<modeVars, operation_requested, shellVars, outVars, gridVars, uiVars>>

(***************************************************************************)
(* sweep_mode &= ~SWEEP_ONCE, |= SWEEP_UI_MODE, &= ~SWEEP_UI_MODE: each is *)
(* a load, a change in a register and a store.                             *)
(***************************************************************************)
LoadMode(from, to) ==
  /\ pc = from
  /\ reg' = sweep_mode
  /\ pc' = to
  /\ UNCHANGED <<sweep_mode, operation_requested, shellVars, outVars, gridVars,
                 p_sweep, measured, completed, uiVars>>

StoreMode(from, mode, to) ==
  /\ pc = from
  /\ sweep_mode' = mode /\ reg' = {}
  /\ pc' = to
  /\ UNCHANGED <<operation_requested, shellVars, outVars, gridVars,
                 p_sweep, measured, completed, uiVars>>

ClearOnce == LoadMode("load_once", "store_once") \/ StoreMode("store_once", reg \ {"ONCE"}, "serve")
EnterUi == LoadMode("load_ui", "store_ui") \/ StoreMode("store_ui", reg \cup {"UI"}, "ui")
LeaveUi == LoadMode("load_noui", "store_noui") \/ StoreMode("store_noui", reg \ {"UI"}, "top")

(***************************************************************************)
(* while (shell_function): the queued command runs here, then the console  *)
(* thread is woken.                                                        *)
(***************************************************************************)
NoCommand ==
  /\ pc = "serve" /\ shell_function = "none"
  /\ pc' = "load_ui"
  /\ UNCHANGED <<modeVars, operation_requested, shellVars, outVars, gridVars,
                 p_sweep, measured, completed, uiVars>>

\* A variant without `shell_function = 0'
RunCommandAgain ==
  /\ pc = "serve"
  /\ Command(shell_function, shell_args)
  /\ UNCHANGED <<reg, operation_requested, shellVars, outVars, measured,
                 completed, uiVars, pc>>

RunCommand ==
  /\ pc = "serve"
  /\ Command(shell_function, shell_args)
  /\ shell_function' = "none"
  /\ UNCHANGED <<reg, operation_requested, shell_args, outVars, measured,
                 completed, uiVars, pc>>

\* cmd_scan takes its grid without touching the stimulus; with an output mask
\* that selects no channel (scan_f) it prints frequencies and measures nothing
ScanStart ==
  /\ pc = "serve" /\ shell_function \in {"scan", "scan_f"}
  /\ sweep_points' = shell_args[2]
  /\ grid' = shell_args /\ torn' = FALSE
  /\ IF shell_function = "scan"
     THEN /\ p_sweep' = 0
          /\ pc' = "scan"
          /\ UNCHANGED <<sweep_mode, shell_function>>
     ELSE /\ sweep_mode' = sweep_mode \ {"ENABLE"}
          /\ shell_function' = "none"
          /\ UNCHANGED <<p_sweep, pc>>
  /\ UNCHANGED <<reg, operation_requested, shell_args, outVars, stim, measured,
                 completed, uiVars>>

\* sweep(false, mask) does not break; pause_sweep() at its end
ScanPoint ==
  /\ pc = "scan"
  /\ StorePoint
  /\ p_sweep' = p_sweep + 1
  /\ IF p_sweep + 1 < sweep_points
     THEN UNCHANGED <<sweep_mode, shell_function, pc>>
     ELSE /\ sweep_mode' = sweep_mode \ {"ENABLE"}
          /\ shell_function' = "none"
          /\ pc' = "serve"
  /\ UNCHANGED <<reg, operation_requested, shell_args, outVars, gridVars,
                 completed, uiVars>>

-----------------------------------------------------------------------------
(***************************************************************************)
(* ui_process() with SWEEP_UI_MODE set: a touch or button action runs here *)
(* when one is requested, then every request is dropped.                   *)
(***************************************************************************)
UiStep(handler, to) ==
  /\ pc = "ui" /\ "INPUT" \in operation_requested
  /\ call' = handler /\ pc' = to
  /\ UNCHANGED <<operation_requested, outVars, completed, shellVars>>

Menu(item) == item \in Touch /\ keypad = "closed"

UiIdle ==
  /\ pc = "ui"
  /\ pc' = "ui_end"
  /\ UNCHANGED <<modeVars, operation_requested, shellVars, outVars, gridVars,
                 p_sweep, measured, completed, uiVars>>

(***************************************************************************)
(* Parts of handlers.  A handler has set `call'; each part ends where the  *)
(* handler goes on.  Console commands may come between any two steps.      *)
(***************************************************************************)
\* pause_sweep(), resume_sweep(), and `|= SWEEP_FILE_VIEW' of load_snp
PausePart ==
  \/ LoadMode("load_pause", "store_pause")
  \/ StoreMode("store_pause", reg \ {"ENABLE"}, IF call = "load_snp" THEN "apply" ELSE "script")
ResumePart ==
  \/ LoadMode("load_enable", "store_enable")
  \/ StoreMode("store_enable", reg \cup {"ENABLE"}, "script")
MarkPart ==
  \/ LoadMode("load_mark", "store_mark")
  \/ StoreMode("store_mark", reg \cup {"FILE_VIEW"}, "ui_end")

\* update_frequencies(): the range is loaded, then the grid stored from it
LoadRange ==
  /\ pc = "load_range"
  /\ range' = <<stim, sweep_points>>
  /\ pc' = "store_grid"
  /\ UNCHANGED <<modeVars, operation_requested, shellVars, outVars, gridVars,
                 p_sweep, measured, completed, keypad, call>>

StoreGrid ==
  /\ pc = "store_grid"
  /\ grid' = range /\ torn' = (range # <<stim, sweep_points>>)
  /\ p_sweep' = 0
  /\ range' = <<>>
  /\ pc' = CASE call \in {"stimulus", "load_snp", "sweep"} -> "load_view"
             [] call = "resume" -> "load_enable"
             [] call = "recall" -> "script"
             [] OTHER -> "ui_end"
  /\ UNCHANGED <<modeVars, operation_requested, shellVars, outVars, stim, sweep_points,
                 measured, completed, keypad, call>>

\* set_sweep_frequency() goes on to leave the view of a stored file
AfterView == CASE call = "load_snp" -> "load_mark"
               [] call = "sweep" -> "script"
               [] OTHER -> "ui_end"

LeaveView ==
  \/ LoadMode("load_view", IF "FILE_VIEW" \in sweep_mode THEN "store_view" ELSE AfterView)
  \/ StoreMode("store_view", (reg \ {"FILE_VIEW"}) \cup {"ENABLE"}, AfterView)

\* toggle_sweep(): sweep_mode is not volatile, one load and one store
ToggleSweep(mode) ==
  LET m == (IF "ENABLE" \in mode THEN mode \ {"ENABLE"} ELSE mode \cup {"ENABLE"})
             \ {"FILE_VIEW"}
  IN  IF "ENABLE" \notin m /\ mute_pause = "mute" THEN m \cup {"ONCE"} ELSE m

TogglePart ==
  \/ LoadMode("load_toggle", "store_toggle")
  \/ StoreMode("store_toggle", ToggleSweep(reg), IF call = "save_auto" THEN "again" ELSE "ui_end")

\* ui_save_file() of an automatic save undoes the pause
ToggleBack ==
  /\ pc = "again"
  /\ pc' = "load_toggle" /\ call' = "none"
  /\ UNCHANGED <<modeVars, operation_requested, shellVars, outVars, gridVars,
                 p_sweep, measured, completed, keypad, range>>

\* load_snp: the count and the two frequencies of the file
ApplyFile ==
  /\ pc = "apply"
  /\ stim' = range[1] /\ sweep_points' = range[2]
  /\ pc' = "load_range"
  /\ UNCHANGED <<modeVars, operation_requested, shellVars, outVars, grid, torn,
                 p_sweep, measured, completed, uiVars>>

UiPart ==
  \/ PausePart \/ ResumePart \/ MarkPart \/ LoadRange \/ StoreGrid \/ LeaveView
  \/ TogglePart \/ ToggleBack \/ ApplyFile

-----------------------------------------------------------------------------
(***************************************************************************)
(* The handlers: the first step, up to the first part.                     *)
(***************************************************************************)
UiToggle ==
  /\ Menu("toggle")
  /\ UiStep("none", "load_toggle")
  /\ UNCHANGED <<modeVars, gridVars, p_sweep, measured, keypad, range>>

UiMute ==
  /\ Menu("mute")
  /\ pc = "ui" /\ "INPUT" \in operation_requested
  /\ mute_pause' = IF mute_pause = "mute" THEN "keep" ELSE "mute"
  /\ pc' = "ui_end"
  /\ UNCHANGED <<modeVars, operation_requested, shellVars, output_muted, outputs,
                 gridVars, p_sweep, measured, completed, uiVars>>

UiStimulus(f) ==
  /\ Menu("stimulus")
  /\ UiStep("stimulus", "load_range")
  /\ stim' = f
  /\ UNCHANGED <<modeVars, sweep_points, grid, torn, p_sweep, measured, keypad, range>>

\* set_sweep_points() returns early when the count does not change
UiPoints(n) ==
  /\ Menu("points")
  /\ UiStep("none", IF n = sweep_points THEN "ui_end" ELSE "load_range")
  /\ sweep_points' = n
  /\ UNCHANGED <<modeVars, stim, grid, torn, p_sweep, measured, keypad, range>>

UiRecall(a) ==
  /\ Menu("recall")
  /\ UiStep("none", "load_range")
  /\ stim' = a[1] /\ sweep_points' = a[2]
  /\ UNCHANGED <<modeVars, grid, torn, p_sweep, measured, keypad, range>>

\* The lines of a Touchstone file go straight into measured
ReadFile(a, n) ==
  measured' = [i \in Index |-> IF i < n THEN Stored(a) ELSE measured[i]]

\* load_snp, "Format err": returns in the middle of the file
LoadBad(a) ==
  /\ Menu("load_bad")
  /\ UiStep("none", "ui_end")
  /\ ReadFile(a, a[2])
  /\ UNCHANGED <<modeVars, gridVars, p_sweep, keypad, range>>

\* load_snp: pause_sweep(), the file's points and frequencies (both
\* set_sweep_frequency calls in one), and only then the FILE_VIEW flag
LoadSnp(a) ==
  /\ Menu("load_snp")
  /\ UiStep("load_snp", "load_pause")
  /\ ReadFile(a, a[2])
  /\ range' = a
  /\ UNCHANGED <<modeVars, gridVars, p_sweep, keypad>>

\* menu_sdcard_cb: pause if sweeping, remember it, ask for a name
SaveAsk ==
  /\ Menu("save")
  /\ UiStep("none", IF "ENABLE" \in sweep_mode THEN "load_toggle" ELSE "ui_end")
  /\ keypad' = IF "ENABLE" \in sweep_mode THEN "was_on" ELSE "was_off"
  /\ UNCHANGED <<modeVars, gridVars, p_sweep, measured, range>>

\* menu_sdcard_cb with AUTO NAME: ui_save_file(NULL) is called at once
SaveAuto ==
  /\ Menu("save")
  /\ UiStep("save_auto", IF "ENABLE" \in sweep_mode THEN "load_toggle" ELSE "ui_end")
  /\ UNCHANGED <<modeVars, gridVars, p_sweep, measured, keypad, range>>

\* ui_save_file: write, then undo the pause
SaveEnter ==
  /\ keypad # "closed"
  /\ UiStep("none", IF keypad = "was_on" THEN "load_toggle" ELSE "ui_end")
  /\ keypad' = "closed"
  /\ UNCHANGED <<modeVars, gridVars, p_sweep, measured, range>>

\* Leaving the keypad without a name undoes nothing
SaveCancel ==
  /\ keypad # "closed"
  /\ UiStep("none", "ui_end")
  /\ keypad' = "closed"
  /\ UNCHANGED <<modeVars, gridVars, p_sweep, measured, range>>

\* load_cmd: every line of a script is parsed into shell_args; the commands
\* allowed in scripts run at once
ScriptStart ==
  /\ Menu("load_cmd")
  /\ UiStep("none", "script")
  /\ UNCHANGED <<modeVars, gridVars, p_sweep, measured, keypad, range>>

ScriptLine(op, a) ==
  /\ pc = "script"
  /\ shell_args' = a
  /\ call' = op
  /\ pc' = IF op = "pause" THEN "load_pause" ELSE "load_range"
  /\ IF op \in {"sweep", "recall"}
     THEN stim' = a[1] /\ sweep_points' = a[2]
     ELSE UNCHANGED <<stim, sweep_points>>
  /\ UNCHANGED <<modeVars, operation_requested, shell_function, outVars, grid, torn,
                 p_sweep, measured, completed, keypad, range>>

ScriptEnd ==
  /\ pc = "script"
  /\ pc' = "ui_end"
  /\ UNCHANGED <<modeVars, operation_requested, shellVars, outVars, gridVars,
                 p_sweep, measured, completed, uiVars>>

\* operation_requested = OP_NONE
UiEnd ==
  /\ pc = "ui_end"
  /\ operation_requested' = {}
  /\ call' = "none"
  /\ pc' = "load_noui"
  /\ UNCHANGED <<modeVars, shellVars, outVars, gridVars, p_sweep, measured, completed,
                 keypad, range>>

UiAction ==
  \/ UiToggle \/ UiMute \/ SaveAsk \/ SaveAuto \/ SaveEnter \/ SaveCancel \/ ScriptStart
  \/ \E f \in Stimuli : UiStimulus(f)
  \/ \E n \in PointCounts : UiPoints(n)
  \/ \E a \in Args : UiRecall(a) \/ LoadSnp(a) \/ LoadBad(a)

Script == \E op \in Console \cap {"pause", "resume", "sweep", "recall"}, a \in Args :
            ScriptLine(op, a)

-----------------------------------------------------------------------------
(***************************************************************************)
(* The console thread and the interrupts.  A command with CMD_WAIT_MUTEX   *)
(* is queued, unless it may run in the UI and the sweep thread is there.   *)
(***************************************************************************)
RunInUi == {"resume", "sweep", "recall"}

ConsoleQueue(op, a) ==
  /\ shell_function = "none"
  /\ op # "pause" /\ ~(op \in RunInUi /\ "UI" \in sweep_mode)
  /\ operation_requested' = operation_requested \cup {"CONSOLE"}
  /\ shell_function' = op
  /\ shell_args' = a
  /\ UNCHANGED <<modeVars, outVars, gridVars, p_sweep, measured, completed, uiVars, pc>>

ConsoleDirect(op, a) ==
  /\ shell_function = "none"
  /\ op = "pause" \/ (op \in RunInUi /\ "UI" \in sweep_mode)
  /\ operation_requested' = operation_requested \cup {"CONSOLE"}
  /\ Command(op, a)
  /\ shell_args' = a
  /\ UNCHANGED <<reg, shell_function, outVars, measured, completed, uiVars, pc>>

\* handle_button_interrupt, handle_touch_interrupt
InputInterrupt ==
  /\ Touch # {}
  /\ "INPUT" \notin operation_requested
  /\ operation_requested' = operation_requested \cup {"INPUT"}
  /\ UNCHANGED <<modeVars, shellVars, outVars, gridVars, p_sweep, measured,
                 completed, uiVars, pc>>

-----------------------------------------------------------------------------
SweepThread ==
  \/ LoopTop \/ MeasurePoint \/ ClearOnce
  \/ NoCommand \/ RunCommand \/ ScanStart \/ ScanPoint
  \/ EnterUi \/ UiIdle \/ UiPart \/ ScriptEnd \/ UiEnd \/ LeaveUi

Next ==
  \/ SweepThread
  \/ UiAction \/ Script
  \/ \E op \in Console, a \in Args : ConsoleQueue(op, a) \/ ConsoleDirect(op, a)
  \/ InputInterrupt

\* The sweep thread is scheduled and its interrupts come; users and consoles
\* owe nothing, and no script is endless.
Fairness == WF_vars(SweepThread) /\ SF_vars(ScriptEnd)

Spec == Init /\ [][Next]_vars
FairSpec == Spec /\ Fairness

-----------------------------------------------------------------------------
\* The type of every variable; p_sweep never leaves the arrays it indexes.
TypeOK ==
  /\ sweep_mode \subseteq Flags /\ reg \subseteq Flags
  /\ operation_requested \subseteq {"INPUT", "CONSOLE"}
  /\ shell_function \in ConsoleOps \cup {"none"}
  /\ shell_args \in Args
  /\ mute_pause \in {"mute", "keep"} /\ output_muted \in BOOLEAN /\ outputs \in {"on", "off"}
  /\ stim \in Stimuli /\ sweep_points \in PointCounts /\ grid \in Grids /\ torn \in BOOLEAN
  /\ p_sweep \in Nat /\ \E n \in PointCounts : p_sweep <= n
  /\ measured \in [Index -> Values]
  /\ completed \in BOOLEAN
  /\ keypad \in {"closed", "was_on", "was_off"}
  /\ call \in {"none", "stimulus", "load_snp", "save_auto"} \cup ConsoleOps
  /\ range \in Grids \cup {<<>>}
  /\ pc \in {"top", "point", "load_once", "store_once", "serve", "scan", "load_ui",
             "store_ui", "ui", "script", "ui_end", "load_noui", "store_noui"} \cup UiSteps

(***************************************************************************)
(* A sweep that reaches its last point (p_sweep == sweep_points,           *)
(* main.c:1259), live or of a scan, has measured every point of it on the  *)
(* one grid in force, however often operations broke and resumed it.       *)
(***************************************************************************)
SweepCoherent ==
  [][((MeasurePoint \/ ScanPoint) /\ p_sweep' = sweep_points) =>
       \A i \in 0 .. sweep_points - 1 : measured'[i] = Live(grid)]_vars

(***************************************************************************)
(* What a live sweep measures is what the axis shows: the grid of a        *)
(* completed sweep is the one of frequency0/frequency1 and sweep_points    *)
(* ("restore frequencies array and cal", main.c:539), unless a console     *)
(* command moved the sweep between the load of its range and the store of  *)
(* its grid in update_frequencies (main.c:1543).                           *)
(***************************************************************************)
LiveGridIsStimulus ==
  [][(MeasurePoint /\ completed' /\ ~torn) => grid = <<stim, sweep_points>>]_vars

(***************************************************************************)
(* Every command the console queues is run and the console thread comes    *)
(* back (main.c:3286 waits with TIME_INFINITE), even when its OP_CONSOLE   *)
(* request was dropped by ui_process, unless the generator that clocks the *)
(* codec stays off.                                                        *)
(***************************************************************************)
QueuedCommandServed ==
  <>[](outputs = "on") => (shell_function # "none" ~> shell_function = "none")

(***************************************************************************)
(* A sweep that operations broke is taken up and finished: once the sweep  *)
(* is on, nobody asks for anything and the codec is clocked, sweeps are    *)
(* completed for ever (main.c:122, "used for continue sweep if user        *)
(* break").                                                                *)
(***************************************************************************)
SweepCompletes ==
  <>[]("ENABLE" \in sweep_mode /\ operation_requested = {} /\ outputs = "on")
    => []<>completed

(***************************************************************************)
(* "a paused NanoVNA radiates nothing" (docs/manual/06-fork-features.md):  *)
(* with the option set, a lasting pause with no command on its way leads   *)
(* to outputs off for good.                                                *)
(***************************************************************************)
PausedIsMuted ==
  <>[]("ENABLE" \notin sweep_mode /\ shell_function = "none" /\ mute_pause = "mute")
    => <>[](outputs = "off")
=============================================================================
