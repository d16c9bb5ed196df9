----------------------------- MODULE Reference -----------------------------
(***************************************************************************)
(* The reference curve and the fixture of the workflow panels              *)
(* (vna_workref.c): STORE REF, CLEAR REF, REPEAT CHECK, FIXTURE and CLEAR  *)
(* FIXTURE (ui.c), the deferred capture in measure_prepare (plot.c), and   *)
(* what the TUNE and CHOKE panels read.                                    *)
(*                                                                         *)
(* The sweep thread loops: sweep, presses and commands, post-processing of *)
(* a completed sweep, drawing.  A lever and a touch press may both be      *)
(* handled in one gap.  The console commands that change these settings    *)
(* are taken to run in the gap too.                                        *)
(*                                                                         *)
(* A point of measured[] is abstracted to what it is worth now: "raw" was  *)
(* measured under the current settings, "done" was also smoothed as they   *)
(* say, "old" is anything else (other settings, time domain, a file).      *)
(* proc stands for what is compared by value and does not restart the      *)
(* sweep: e-delay, S21 offset, smoothing factor and cal_status.  The       *)
(* reference remembers, as history, the settings of its data: of.          *)
(***************************************************************************)
EXTENDS Integers

CONSTANTS
  Grids,        \* frequencies and numbers of points
  Procs,        \* e-delay, S21 offset, smoothing factor and cal_status
  Slots,        \* calibration slots
  N,            \* sweep_points
  PressMax      \* presses handled in one gap

ASSUME ReferenceConstants ==
  /\ Grids # {} /\ Procs # {}
  /\ N \in Nat \ {0} /\ PressMax \in Nat \ {0}
  /\ Slots \cap {"new", "none"} = {}

VARIABLES
  cur,          \* the settings
  measured,     \* what each point is worth
  p_sweep,
  completed,    \* the sweep of this turn of the loop ran to its end
  phase,        \* "sweep" or "ui"
  presses,      \* handled since the sweep
  pend,         \* wref_store_pending and _kind, wfix_store_pending
  wref, wfix,   \* the two blocks
  fill_z,       \* wref_fill_z_cb is installed
  hidden,       \* area_width is 0: the keypad or the browser is on the screen
  repeat        \* the block wref_repeat_gamma was measured against

vars == <<cur, measured, p_sweep, completed, phase, presses, pend, wref, wfix, fill_z,
          hidden, repeat>>

Point == 0 .. N - 1
Panels == {"tune", "choke"}
Headers == [grid : Grids, proc : Procs, slot : Slots \cup {"none"}]

Settings == [grid : Grids, proc : Procs, slot : Slots \cup {"none"},
             cal : Slots \cup {"new"}, panel : Panels, time : BOOLEAN, file : BOOLEAN]

-----------------------------------------------------------------------------
(***************************************************************************)
(* Blocks.  kind is what the data are, "none" when the magic word is not   *)
(* there; flag is WREF_HAS_S21; fix is whether a series Z was computed     *)
(* with the fixture that is stored now.                                    *)
(***************************************************************************)
Worth(c) == <<c.grid, c.proc, c.cal>>

\* wref_hdr_fill; flags is 0
HdrFill(c) == [grid |-> c.grid, proc |-> c.proc, slot |-> c.slot]

\* The calibration in use is the one in the slot lastsaveid names: no standard
\* was taken since
InSlot(c) == c.slot # "none" /\ c.cal = c.slot

\* What the data are known to be: nothing, unless every point is done and
\* the calibration has a slot to be known by
Of(c, data) ==
  IF InSlot(c) /\ \A i \in Point : data[i] = "done" THEN Worth(c) ELSE <<>>

\* WREF_HAS_S21 of a plain store; a variant leaves the flag as it was
FlagKept(b) == b.flag
FlagCleared(b) == FALSE

Block(kind, flag, of) ==
  [kind |-> kind, flag |-> flag, hdr |-> HdrFill(cur), of |-> of, fix |-> "this"]

NoBlock ==
  [kind |-> "none", flag |-> FALSE, of |-> <<>>, fix |-> "this",
   hdr |-> [grid |-> "none", proc |-> "none", slot |-> "none"]]

\* Whether the calibration is the header's; a variant forgets lastsaveid
StatusOnly(h, c) == h.proc = c.proc
SameCal(h, c) == h.proc = c.proc /\ h.slot = c.slot

\* wref_hdr_state; why a block is stale is left out
HdrState(b, c) ==
  IF b.kind = "none" THEN "none"
  ELSE IF b.hdr.grid = c.grid /\ SameCal(b.hdr, c) THEN "ok"
  ELSE "stale"

\* What the CHOKE panel reads
wref_state_z ==
  IF wref.flag /\ HdrState(wfix, cur) = "ok" THEN HdrState(wref, cur) ELSE "none"

\* What the TUNE and RESONANCE panels read
wref_state_s11 == IF wref.flag THEN "none" ELSE HdrState(wref, cur)

wref_can_store == ~cur.time /\ ~cur.file

-----------------------------------------------------------------------------
(***************************************************************************)
(* The loop of the sweep thread.                                           *)
(***************************************************************************)
NoRequest == [ref |-> "no", fix |-> FALSE]

Init ==
  /\ cur \in [grid : Grids, proc : Procs, slot : {"none"}, cal : {"new"},
              panel : {"tune"}, time : {FALSE}, file : {FALSE}]
  /\ measured = [i \in Point |-> "old"] /\ p_sweep = 0
  /\ completed = FALSE /\ phase = "sweep" /\ presses = 0
  /\ pend = NoRequest /\ wref = NoBlock /\ wfix = NoBlock
  /\ fill_z = FALSE /\ hidden = FALSE /\ repeat = "none"

\* Paused, or no traces: nothing is measured
NoSweep ==
  /\ phase = "sweep" /\ phase' = "ui"
  /\ completed' = FALSE
  /\ UNCHANGED <<cur, measured, p_sweep, presses, pend, wref, wfix, fill_z, hidden, repeat>>

\* Where a sweep that got to a point goes on: after the last it starts over; a
\* variant forgets that
PastLast(to) == to
GoesOn(to) == to % N

\* sweep: from where the last one was broken off, to the end or to a press;
\* a point at which it is broken off is measured again
Sweep ==
  /\ phase = "sweep" /\ phase' = "ui"
  /\ \E to \in p_sweep .. N :
       /\ p_sweep' = GoesOn(to) /\ completed' = (to = N)
       /\ measured' = [i \in Point |-> IF i \in p_sweep .. to THEN "raw" ELSE measured[i]]
  /\ UNCHANGED <<cur, presses, pend, wref, wfix, fill_z, hidden, repeat>>

\* measurementDataSmooth and transform_domain
Processed ==
  [i \in Point |-> IF ~completed THEN measured[i]
                   ELSE IF measured[i] = "raw" /\ ~cur.time THEN "done" ELSE "old"]

\* wfix_store_consume
FixStored(b) ==
  IF pend.fix /\ wref_can_store THEN Block("s21", FALSE, <<>>) ELSE b

\* A pending store of the reference succeeds, with fixture f in its block
Stores(f) ==
  /\ wref_can_store
  /\ pend.ref = "gamma" \/ (pend.ref = "z" /\ HdrState(f, cur) = "ok" /\ fill_z)

\* wref_store_consume
RefStored(b, f, data) ==
  IF ~Stores(f) THEN b
  ELSE IF pend.ref = "gamma" THEN Block("gamma", FlagCleared(b), Of(cur, data))
  ELSE Block("z", TRUE, Of(cur, data))

\* With the block replaced, a reading of REPEAT CHECK is one of an older
\* reference
Aged(r) == IF r = "this" THEN "older" ELSE r

\* wref_repeat_gamma where the block is replaced; a variant forgets to reset it
KeepReading(r) == r
ResetReading(r) == "none"

\* A new fixture under a reference that stays
Refixed(b) == IF b.kind = "z" THEN [b EXCEPT !.fix = "older"] ELSE b

\* measure_prepare: the fixture, then the reference; a variant has them the
\* other way round
RefFirst(data) ==
  /\ wfix' = FixStored(wfix)
  /\ wref' = LET r == RefStored(wref, wfix, data)
             IN IF pend.fix /\ wref_can_store THEN Refixed(r) ELSE r
FixFirst(data) ==
  /\ wfix' = FixStored(wfix)
  /\ wref' = LET r == IF pend.fix /\ wref_can_store THEN Refixed(wref) ELSE wref
             IN RefStored(r, FixStored(wfix), data)

\* The end of a turn: a completed sweep is processed, then draw_all draws
Turn ==
  /\ phase = "ui" /\ phase' = "sweep"
  /\ measured' = Processed
  /\ presses' = 0 /\ completed' = FALSE
  /\ UNCHANGED <<cur, p_sweep, hidden>>

\* Drawing the panel captures what was asked for
Draw ==
  /\ Turn /\ ~hidden
  /\ FixFirst(measured')
  /\ repeat' = IF Stores(wfix') THEN ResetReading(Aged(repeat)) ELSE repeat
  /\ pend' = NoRequest
  /\ fill_z' = (fill_z \/ (cur.panel = "choke" /\ ~cur.time))

\* draw_all drops what there is to redraw; the capture stays to be done
DrawNothing ==
  /\ Turn /\ hidden
  /\ UNCHANGED <<pend, wref, wfix, fill_z, repeat>>

-----------------------------------------------------------------------------
(***************************************************************************)
(* Presses and commands.                                                   *)
(***************************************************************************)
Press ==
  /\ phase = "ui" /\ presses < PressMax /\ presses' = presses + 1
  /\ UNCHANGED <<phase, completed, fill_z>>

\* ui_mode_keypad, ui_mode_normal; what follows is pressed on a menu
Keypad ==
  /\ Press
  /\ hidden' = ~hidden
  /\ UNCHANGED <<cur, measured, p_sweep, pend, wref, wfix, repeat>>

\* menu_wref_store_acb
StoreRef ==
  /\ Press /\ ~hidden /\ wref_can_store
  /\ pend' = [pend EXCEPT !.ref = IF cur.panel = "choke" THEN "z" ELSE "gamma"]
  /\ UNCHANGED <<cur, measured, p_sweep, wref, wfix, hidden, repeat>>

\* menu_wfix_store_acb, on the CHOKE panel's menu
StoreFixture ==
  /\ Press /\ ~hidden /\ wref_can_store /\ cur.panel = "choke"
  /\ pend' = [pend EXCEPT !.fix = TRUE]
  /\ UNCHANGED <<cur, measured, p_sweep, wref, wfix, hidden, repeat>>

\* menu_wref_clear_cb
ClearRef ==
  /\ Press /\ ~hidden
  /\ wref' = NoBlock /\ repeat' = ResetReading(Aged(repeat))
  /\ UNCHANGED <<cur, measured, p_sweep, pend, wfix, hidden>>

\* menu_wfix_clear_cb
ClearFixture ==
  /\ Press /\ ~hidden /\ cur.panel = "choke"
  /\ wfix' = NoBlock
  /\ UNCHANGED <<cur, measured, p_sweep, pend, wref, hidden, repeat>>

\* menu_wref_repeat_cb and wref_repeat_measure
RepeatCheck ==
  /\ Press /\ ~hidden /\ cur.panel = "tune" /\ wref_state_s11 = "ok"
  /\ repeat' = IF cur.time THEN "none" ELSE "this"
  /\ UNCHANGED <<cur, measured, p_sweep, pend, wref, wfix, hidden>>

\* A change of the settings: the points were measured under others
Changed(c) ==
  /\ Press
  /\ cur' = c
  /\ measured' = IF Worth(c) = Worth(cur) /\ c.time = cur.time THEN measured
                 ELSE [i \in Point |-> "old"]
  /\ UNCHANGED <<pend, wfix, hidden, repeat>>

\* set_sweep_frequency and update_frequencies; it ends the file view
SetGrid ==
  \E g \in Grids :
    /\ Changed([cur EXCEPT !.grid = g, !.file = FALSE])
    /\ p_sweep' = 0 /\ UNCHANGED wref

\* set_electrical_delay, set_s21_offset, set_smooth_factor, CORRECTION on or
\* off; PAUSE or RESUME by the menu, which ends the file view; TRANSFORM on or
\* off; the panel; clearconfig, after which no slot is in use.  None of them
\* restarts the sweep
SetOther ==
  /\ \/ \E q \in Procs : Changed([cur EXCEPT !.proc = q])
     \/ Changed([cur EXCEPT !.file = FALSE])
     \/ Changed([cur EXCEPT !.time = ~@])
     \/ \E n \in Panels : Changed([cur EXCEPT !.panel = n])
     \/ Changed([cur EXCEPT !.slot = "none"])
  /\ UNCHANGED <<p_sweep, wref>>

\* load_snp: the points are a file's
LoadFile ==
  /\ Press
  /\ \E g \in Grids, q \in Procs : cur' = [cur EXCEPT !.grid = g, !.proc = q, !.file = TRUE]
  /\ measured' = [i \in Point |-> "old"] /\ p_sweep' = 0
  /\ UNCHANGED <<pend, wref, wfix, hidden, repeat>>

\* cal_collect: a standard is taken into cal_data, which then is not the
\* slot's any more; lastsaveid stays
Collect ==
  /\ Press
  /\ \E q \in Procs : cur' = [cur EXCEPT !.proc = q, !.cal = "new"]
  /\ measured' = [i \in Point |-> "old"] /\ p_sweep' = 0
  /\ UNCHANGED <<pend, wref, wfix, hidden, repeat>>

\* cal_done and menu_cal_reset_cb
Recalibrate ==
  /\ Press
  /\ \E q \in Procs : cur' = [cur EXCEPT !.proc = q, !.cal = "new", !.slot = "none"]
  /\ measured' = [i \in Point |-> "old"]
  /\ UNCHANGED <<p_sweep, pend, wref, wfix, hidden, repeat>>

\* load_cal: settings and calibration of a file
LoadCal ==
  /\ Press
  /\ \E g \in Grids, q \in Procs, n \in Panels, t \in BOOLEAN :
       cur' = [cur EXCEPT !.grid = g, !.proc = q, !.panel = n, !.time = t,
                          !.cal = "new", !.slot = "none"]
  /\ measured' = [i \in Point |-> "old"] /\ p_sweep' = 0
  /\ UNCHANGED <<pend, wref, wfix, hidden, repeat>>

\* caldata_save; a slot that held another calibration is no identity for a
\* curve stored under it
Save ==
  \E s \in Slots :
    /\ Press
    /\ cur' = [cur EXCEPT !.slot = s, !.cal = s]
    /\ wref' = IF cur.cal # s /\ wref.hdr.slot = s THEN [wref EXCEPT !.of = <<>>] ELSE wref
    /\ UNCHANGED <<measured, p_sweep, pend, wfix, hidden, repeat>>

\* load_properties: whatever settings the slot was saved with, or no slot
Recall ==
  /\ \/ \E s \in Slots, g \in Grids, q \in Procs, n \in Panels, t \in BOOLEAN :
          Changed([cur EXCEPT !.grid = g, !.proc = q, !.panel = n, !.time = t,
                              !.cal = s, !.slot = s])
     \/ Changed([cur EXCEPT !.slot = "none"])
  /\ p_sweep' = 0 /\ UNCHANGED wref

Next ==
  \/ NoSweep \/ Sweep \/ Draw \/ DrawNothing \/ Keypad
  \/ StoreRef \/ StoreFixture \/ ClearRef \/ ClearFixture \/ RepeatCheck
  \/ SetGrid \/ SetOther \/ LoadFile \/ Collect \/ Recalibrate \/ LoadCal
  \/ Save \/ Recall

Spec == Init /\ [][Next]_vars

-----------------------------------------------------------------------------
(***************************************************************************)
(* Properties.                                                             *)
(***************************************************************************)
Blocks(kinds) ==
  [kind : kinds, flag : BOOLEAN, hdr : Headers \cup {NoBlock.hdr}, fix : {"this", "older"},
   of : (Grids \X Procs \X (Slots \cup {"new"})) \cup {<<>>}]

\* Types; a sweep goes on within the points.
TypeOK ==
  /\ cur \in Settings
  /\ measured \in [Point -> {"old", "raw", "done"}] /\ p_sweep \in Point
  /\ phase \in {"sweep", "ui"} /\ presses \in 0 .. PressMax
  /\ completed \in BOOLEAN /\ (phase = "sweep" => ~completed)
  /\ pend \in [ref : {"no", "gamma", "z"}, fix : BOOLEAN]
  /\ wref \in Blocks({"none", "gamma", "z"}) /\ wfix \in Blocks({"none", "s21"})
  /\ fill_z \in BOOLEAN /\ hidden \in BOOLEAN /\ repeat \in {"none", "this", "older"}

\* One block holds either kind: whichever panel reads "ok", the data are of
\* the kind it computes with (vna_workref.c wref_state_s11, wref_state_z).
PanelReadsItsKind ==
  /\ wref_state_s11 = "ok" => wref.kind = "gamma"
  /\ wref_state_z = "ok" => wref.kind = "z"

\* A reference that was captured whole and processed, under a calibration known by
\* its slot, reads "ok" only while the settings it was measured under are the
\* current ones, through every recall, save and change there and back
\* (vna_workref.c wref_hdr_state).  Not claimed while a standard taken since the
\* slot was recalled or saved is in cal_data: the header cannot tell.
OkIsSame ==
  HdrState(wref, cur) = "ok" /\ wref.of # <<>> /\ (cur.slot # "none" => InSlot(cur))
    => wref.of = Worth(cur)

\* The repeat reading on the TUNE panel is of the reference it is shown with,
\* although the capture that replaces the reference comes later than the press
\* that asked for it, and a REPEAT CHECK may be pressed in between
\* (measure.c draw_tune, vna_workref.c wref_store).
RepeatOfThis == wref_state_s11 = "ok" => repeat # "older"

\* FIXTURE and STORE REF pressed in one gap: the reference is computed with
\* the fixture of that gap (plot.c measure_prepare).
FixtureFirst == [][pend.ref = "z" /\ pend.fix /\ wref' # wref /\ Draw => wref'.fix = "this"]_vars
=============================================================================
