# NanoVNA-D: TLA+ models, model checking and proofs

This directory is the verification project of the NanoVNA-D firmware (the C
sources in the root of the repository; ChibiOS, FatFs and the STM32 support code
are used by it and are not its subject).

## 1. The system

A NanoVNA measures the reflection (S11) and transmission (S21) of a two-port.
A clock generator (Si5351 or a clone) makes a test tone and a local oscillator
a few kHz away; an audio codec samples the mixed-down signals; the processor
correlates the samples with a reference, applies the error terms of a
calibration, draws traces and answers a console on USB or a serial line.

Three things run concurrently:

* the **sweep thread** (`main.c` `Thread1`): measures points, runs the console
  commands that were queued for it, runs the touch and button actions
  (`ui_process`) and draws;
* the **console thread** (`main`, `VNAShell_executeLine`), of higher priority:
  runs the commands without `CMD_WAIT_MUTEX` itself and at once, queues the
  others in `shell_function` and sleeps until the sweep thread has run them;
* **interrupts**: the I2S DMA (`i2s_lld_serve_rx_interrupt`) and buttons and
  touch (`handle_button_interrupt`, `handle_touch_interrupt`), which set a bit in
  `operation_requested`.

There is no lock around what they share; the code relies on who runs when.

| component | source | state | operations |
|---|---|---|---|
| acquisition | `main.c`, `dsp.c` | `wait_count`, `ready_time`, accumulators, `dump_len` | DSP_START, DSP_WAIT, the I2S interrupt, `cmd_dump`, `set_bandwidth` |
| sweep control | `main.c`, `ui.c` | `sweep_mode`, `operation_requested`, `shell_function`, `shell_args`, `p_sweep`, `measured`, frequency grid, stimulus | `Thread1`, `sweep`, pause, resume, sweep, scan, recall, toggle, load of Touchstone files and scripts, saves |
| synthesizer | `si5351.c`, `main.c` | `current_band`, `current_freq`, `current_power`, `clk_cache`, the chip's registers | `si5351_set_frequency` and its helpers, power, TCXO, offset, threshold, band table, output mute |
| storage | `data_storage.c`, `flash.c`, `main.c` | flash slots, `current_props`, `config`, `lastsaveid`, `checksum_ok`, backup registers | save, recall, clear, backup, power-up |
| calibration | `main.c` | `cal_status`, `cal_data`, calibration range | collect, done, interpolate, apply, reset |
| file browser | `vna_browser.c`, `ui.c` | folder path, counts of files and pages, delete mode, `browser_savedir` | open, turn, enter, delete, new folder, picture viewer, SAVE |
| field guide | `vna_guide.c` | page | `guide_pages`, `guide_draw_page` |
| reference curves | `vna_workref.c`, `plot.c`, `ui.c` | reference and fixture blocks with headers, pending requests, `wref_repeat_gamma` | STORE REF, CLEAR REF, REPEAT CHECK, FIXTURE, capture while drawing |
| menus, keypad | `ui.c` | menu stack, `ui_mode` | menu callbacks, keypad input |
| plotting, markers, measurements | `plot.c`, `measure.c`, `lcd.c` | cell buffers, marker positions, `redraw_request` | drawing, marker search, LC and filter measurements |
| numerics | `vna_math.c`, `dsp.c` | none | trigonometry, FFT, correlation |
| console I/O | `main.c`, `usbcfg.c`, `chprintf.c` | USB and serial queues | line input, formatting |

### What is hard in it

* the interrupt and the sweep thread share three words (`ready_time`,
  `wait_count`, `config._bandwidth`) and a clock that wraps;
* a console command may land between any two steps of the sweep thread, also
  between the load and the store of `sweep_mode |= ...`;
* a sweep is broken by any request and continued later from `p_sweep`, while
  every command that changes the grid must restart it;
* the synthesizer driver skips every register write it believes redundant, so
  every change of anything a register depends on must reset a cache;
* data written to flash is written by words over milliseconds while another
  thread may change it, and power may fail meanwhile;
* the browser keeps counts of a directory it walks anew for every drawing and
  every press, while the directory may change;
* a reference is captured by a later drawing than the press that asked for it,
  under settings that may have changed in between, and is valid by comparison.

`PROJECT.json` lists these places one by one under `hazards`.

## 2. Modules, and how they correspond to the code

### Acquisition

State: the variables of the same names in the code (`ready_time`, `wait_count`,
`bandwidth`, `dump_len`); `now` is the system time modulo `TimeWrap`; `fill` how
much of the half DMA buffer is filled; `pc` where the thread is. The variables
`settle`, `fill_q`, `acc` and `steady` are history: how long the analog path is
still disturbed, whether the buffer being filled contains disturbed samples, and
what has been added up. `DSP_START` is two steps, because the interrupt may come
between its two assignments. `config._bandwidth` may change at any step.

### SweepControl

The loop of `Thread1` step by step: the top of the loop (mute, start or continue
the sweep), one step per measured point, the service of the queued command, `scan`
point by point, `ui_process` with the touch actions and scripts, and the drop of
all requests at its end. Every change of `sweep_mode` by the sweep thread, in the
loop, in the menus (`toggle_sweep`, `load_snp`) and in scripts, is a load and a
store; `update_frequencies` in the user interface is a load of the range and a
store of the grid (with the restart of the sweep, which nobody sees apart from
it). A handler sets `call` and goes through such parts (`UiPart`). `sweep_mode` is
not volatile and `toggle_sweep` calls nothing, so it has one load and one store;
the two `set_sweep_frequency` calls of `load_snp` are one. The console thread's
actions are atomic (it has the higher priority) and may come between any two
steps; a queued command is one step, because the console sleeps while it runs.
`torn` is history: a console command moved the sweep between the load of the
range and the store of the grid. A command among the four words of the grid
leaves a mixture of both, and counts as one before them. A stimulus is a model
value; a grid is what `set_frequencies` computed; a measured value is the grid it
was measured on, or the file it was read from. Markers, drawing and error terms
are not part of the state.

### Synth, SynthTables, MCSynth

`Synth` is `si5351_set_frequency` with its helpers and the chip. A register
holds what it was computed from (multiplier, divider, target frequency, believed
reference), so two registers agree when they were computed from the same
things. `SynthTables` holds the firmware's band tables in kHz. The call that
tunes is split before it records band and frequency, where a console `tcxo` may
come. `approximate_fraction` is taken to be exact.

### Calibration

`cal_collect` is a start (flags, calibrated range), one step per point of the
sweep that no request breaks, and the copy; `cal_done` is one step that runs the
`eterm_` functions in the code's order on a pair of status and data. The five
arrays hold, per point, what was measured there (standard and grid) or what was
computed from what; a formula applied to values that do not belong together
gives "bad". `LiveSweep` is a console `sweep` that runs at once during a
standard taken from the menu. The history variable `spoiled` names the arrays a
scan's grid, such a sweep or too few points at DONE really spoil; the
properties say nothing of them. Enhanced response, drive current, the
bandwidth during a standard and recall of a slot are left out.

### Frequencies

`set_sweep_frequency` on words modulo `Wrap`, with the clamps in the code's order;
`Grid` and `GetFrequency` are `set_frequencies` and `getFrequency` as built
(`__USE_FREQ_TABLE__` is off); `CalInterpolate` returns the two calibrated points
that are blended. Only the expressions that can wrap have a modulus: the step
input; for the others `TypeOK` (start <= stop <= maximum) shows that they cannot.

### SlotStore and Storage

`SlotStore` is the abstract specification: every place (slot or configuration)
holds a whole content or nothing; only a place that is being written may lose
its content, and it may get only what was checksummed for it. `Storage` is
`data_storage.c` with `flash.c`, the backup registers, `load_settings` and the
menus and commands that use them. An image has four parts in the order of their
addresses (magic word, two parts of data, checksum); a save by the sweep thread
is six steps (two pages erased, four parts written) between which the console
thread may change the data, save, clear or recall. A save by the console thread
is one step, and power may fail after any of its six parts (`FailsInSave`).
Programming a part that is not erased leaves it as it is, as the flash does.
`spoiled` is history: the slots whose last save was disturbed by a change of the
data. `draw_all` runs in the loop of the sweep thread and inside the user
interface (`redraw_marker`, `ui_save_file`); there a console `sweep`, `freq` or
`recall` runs at once, also during the drawing, which drops its request for a
backup when it ends. `missed` is history: the stimulus was changed during a
drawing and the backup does not have it; the next drawing that updates the backup
clears it.

### Guide, Browser, MCBrowser

`Guide` has the three passes of `guide_pages` and `guide_draw_page` (count, seek,
draw) as recursive functions over the lines of a text (title, rule, fence,
other), and beside them the pages by the rules of `tools/manual/guide.py`, which
`vna_guide.c:3` names as its reference: a section with an empty code block and
nothing else is a page of the passes and none of the reference. `Browser` is `vna_browser.c`: the variables of the browser in one
record `br` with, as `drawn`, the labels on the screen. Drawing and pressing walk
the directory of `card` separately, as the code does; `Kept` is such a walk.
`Tree` is what FatFs keeps of a card, assumed of the cards at power-up only
(`CardsAssumption`). Picture and guide viewers
are loops inside `browser_open_file` and are states of `ui` here. `behind` and
`orphan` are history: a console `sd_delete` since the files were counted, and a
save folder deleted from outside. `MCBrowser` gives names, types and cards.

### Reference, MCReference

`Reference` is the loop of the sweep thread once more, seen from
`vna_workref.c`: a sweep that a press may break off at any point, at most two
presses, the processing of a completed sweep, and the drawing, in which
`measure_prepare` captures what was asked for. A measured point is what it is
worth under the current settings: "raw", "done" (processed) or "old". Settings
are a grid, a calibration with its slot, `proc` (e-delay, S21 offset, smoothing
and `cal_status`, which all are compared by value and do not restart the sweep),
panel, time domain and file view. What a recall brings besides the calibration
is any setting. `Collect` is `cal_collect`: a standard taken anew changes the
calibration in place and leaves its slot's number; `InSlot` tells whether the
calibration in use is still the one in the slot it names. `Aged` makes the repeat
reading one of an older reference at every capture that does not reset it.
While the keypad is on the screen nothing is drawn and a capture
waits. `of` and `fix` are history: the settings of the data, and whether a
series impedance was computed with the fixture that is stored now.

## 3. Runs

| run | expects | what it shows |
|---|---|---|
| `acquisition` | pass | every sample taken at a steady bandwidth is `bandwidth + 1` clean buffers; no buffer is served before the path settled, across wraps; every wait of `sweep` ends, and every `cmd_dump` that starts with a bandwidth setting of 2 or more |
| `sweep_control` | pass | every finished sweep was measured on one grid; `p_sweep` stays in the arrays |
| `sweep_serve` | pass | completed live sweeps are of the stimulus shown, unless a console `sweep` fell into the menu's update of the grid; queued commands are run; broken sweeps are finished; a lasting pause with muting ends with the outputs off |
| `synth` | pass | what the driver believes tuned is what the chip makes, with the right gain and drive |
| `synth_modes` | pass | `clk_cache` never claims a control value the chip does not hold, except of outputs muted |
| `synth_mute_resume` | violation | after muting and resuming, outputs stay powered down |
| `calibration` | pass | the flags tell the truth about the standards; after DONE the arrays hold error terms of the calibrated grid; terms are copied point by point only when the grids agree |
| `calibration_points` | violation | fewer points at DONE than at the standards leave raw standards in a calibration that counts as complete |
| `frequencies` | pass | the range stays ordered and below the maximum; the grid is the rounded line; interpolation finds points that enclose the frequency, and uses only points of its band wherever two neighbours of the band are at hand |
| `storage` | pass | what a power-up finds implements `SlotStore`; the checksum cache names whole slots only; REMEMBER STATE brings the stimulus back, unless it was set during a drawing that dropped the request for its backup |
| `browser` | pass | a press acts on the entry drawn on it, by whatever pages, folders and deletes; the buttons offered are the entries of the page; the erase loop stays in its table; the folder for SAVE exists; every page of a guide without an empty code block shows its section |
| `reference` | pass | each panel reads only its own kind of data; a reference that reads ok is of the current settings, unless a standard was taken anew under the number of its slot; a repeat reading goes with its reference; a fixture is captured before the reference of the same gap |

Bounds. `acquisition`: the time wraps at 16 ticks, a buffer takes 2, delays are
up to 8, exactly half the modulus, where the signed comparison is at its limit;
the bandwidths 0, 1 and 2 differ by one, so that a change makes the interrupt skip
or repeat the reset, and a dump of four buffers fits the last only. `sweep_control` has two stimuli and two point counts, so
that grids differ in either part and a sweep can be broken before, in and after
its middle; `sweep_serve` one point count of 2. The two take different
sets of commands so that each stays within minutes. `synth` has a frequency in
every band of the MS5351 table up to 1.5 GHz (the four bands above
differ from the last of these in harmonics, drive and gain only) and below each special limit; `synth_modes` four
frequencies that fall in different bands of three tables.

`calibration` has two point counts and one range (the code compares the three
numbers of a grid alike), and three kits, so that DONE computes with both
reflection standards, with one of them, and with and without the isolation; `frequencies` has words of 5 bits, a range of 2 to 21, inputs below, in
and above it, and three band limits inside, so that a band is narrower than a step of three points and about as wide as one of five. The properties are also proved for all sizes
(section 4).

`storage` has one slot and the configuration, two stimuli and one value of the
rest (a change of the rest to the same value still disturbs a save); power fails
at every step of a save by the sweep thread and after the magic word of one by
the console. `browser` has pages of two entries, folders two deep, up to two
names in a folder, so that a folder fills one page and, with `..`, a second;
guides have up to three lines (two sections, or a fence across a rule). The
theorems of section 4 hold for every size.
`reference` has two grids and two processings, interchangeable (symmetry), one
slot beside the unsaved calibration, sweeps of two points, so that a broken sweep
is new in front and old behind, and two presses in a gap, as lever and touch give.

Fairness. Time passes, the DMA runs and a thread that can run is scheduled
(ChibiOS runs the highest ready thread; the console thread sleeps while its
command is queued). Nobody is obliged to type, touch or start a measurement.
Scripts are finite (strong fairness of the end of a script, which its lines
interrupt). `sweep_serve` turns deadlock checking off, because a `scan`
with the outputs muted really stops everything (section 6).

## 4. Theorems

`AcquisitionProofs`, `SweepControlProofs`, `SynthProofs`, `CalibrationProofs`,
`FrequenciesProofs`, `StorageProofs`, `ReferenceProofs` and `BrowserProofs` are
checked by TLAPS, for every value of the constants that satisfies the named assumptions, which TLC
evaluates in the runs. A theorem that needs more says so: the hypothesis is a
named definition beside it, it excludes what section 6 (or a violation run)
shows to break the property, and the run that checks the property satisfies it.

* `TypeCorrect`, `ServedOnlyWhenSettled`, `SamplesAreClean`. The invariant
  `TypeOK` is inductive. `TimeInv` ties the history to the clock: `settle` ticks
  from now it is `ready_time`, and `settle` is at most half the modulus; with the
  lemma `FutureIsBefore` the signed comparison then refuses every early buffer.
  `SampleClean` needs `CountInv`: from the first served interrupt on the path
  has settled and the accumulators hold exactly the buffers already counted.
  The assumption on the delays (at most half of the modulus) is the one the cast
  to `int32_t` makes.
* `SweepTypeCorrect`, `FinishedSweepsCoherent`. Type correctness needs
  `PointInv` (while a sweep is under way `p_sweep` is below `sweep_points`, and the
  user interface holds a range when it stores one).
  Coherence needs `CoherenceInv`: the points before `p_sweep` hold values of the
  grid in force, whichever command broke the sweep, except while `load_snp` has
  read its file and not yet stored its grid. It is proved without
  `scan` with an empty mask and without malformed Touchstone files: with either
  it is false (section 6).
* `LiveGridFollows`. `GridInv` says that the grid is that of the stimulus, or torn,
  unless the user interface is about to store it, or a scan runs, or has run and
  left `sweep_mode` without ENABLE; the value of
  `sweep_mode` that the sweep thread loaded and is about to store belongs to it,
  since a stale one would enable the sweep again. Proved under `NoToggle`, without
  the menu's RESUME and the saves, which call it: after a scan it enables the
  sweep on the scan's grid (section 6).
* `SynthTypeCorrect`, `CacheIsCoherent`, without hypotheses. `DriverInv` adds to
  the type which states a call that tunes can leave pending, and that `clk_cache`
  claims only what the control registers hold; every helper of
  `si5351_set_frequency` is shown to keep that, in the code's order.
  `TablesAssumption` and `BandsAssumption` say that the search of a table ends.
* `GainIsCorrect`. `GainInv`: the recorded band is the band of the recorded
  frequency, and the codec has its gain. Proved under `OneSearch`, one table and one
  threshold: a new one resets neither band nor frequency (section 6).
* `ToneIsCorrect`, `DriveIsCorrect`. `ToneInv`: whatever the driver recorded, or is
  about to record in a pending call, is true of the chip: PLLs and dividers were
  computed for that frequency, band and reference, and the outputs are on with
  the drive of that band. So a write that is skipped is redundant. Proved under
  `SeparateDividers` (no band that moves the PLL has the divider of one that moves
  the dividers; the MS5351 table has none, the H4 table has, section 6) and
  `Undisturbed` (no muting, see `synth_mute_resume`, no `tcxo` during a call, no new table).
* `RangeTypeCorrect`, `StopBounded`, `GridExact`, `InterpolationSound`. `RangeInv`
  adds the bounds of the calibrated range, which RANGE takes over, to those of
  the range in force; `GridInv` adds that the grid is the one computed from it.
  The arithmetic rests on `Division` and `Quotient`, which characterise a quotient
  by the multiples around the dividend: `PointOnLine` writes a point's distance
  from the line as `d * n - r * i`, and `SameSource` shows that quotient and
  remainder give the frequency the one division of `cal_interpolate` gives.
  They assume at least two points, and `0 < FREQUENCY_MIN < FREQUENCY_MAX < Wrap`.
* `BandsAreNotMixed`, for every table of band limits. `LevelAscends`: the band of a
  frequency does not decrease with it, and the grid is monotone, so the frequency
  and the two points around it have ascending bands. When these two differ, the
  pair is moved to the side of the frequency; that leaves its band only when no
  two neighbours among the four points around it are in that band.
* `CalTypeCorrect`, `FlagsTellTruth`, `DirectCopySound`. `CollectInv` says what a standard
  being taken has measured so far, `PlaceInv` that its sweep starts at point 0 and
  that without a scan the grid is the stimulus's. `cal_done` is a chain of steps
  that each satisfy `Keeps`: LOAD and ISOLN stay as taken, the interpolation
  flag stays, and at the end OPEN, SHORT and THRU are not flagged any more.
* `DoneIsComplete`: DONE leaves error terms of the calibrated grid at every point.
  `TermInv` adds to the property that a collect clears the terms it invalidates
  (`CollectClears`) and what the arrays hold while a term is flagged
  (`FlaggedTerms`). The chain of `cal_done` is followed at one point:
  `ReflectionAt` and `TransmissionAt` say what each formula makes of the standards
  there, `DoneAt` puts them together for every kit.
* `StorageTypeCorrect`, `SweepIsRemembered`, `CacheIsTrue`, `FlashIsAStore`, for up
  to 15 slots. `TypeOK` is inductive. `BackupInv` says that once the request to
  update the backup is served, and already while that drawing goes on, the
  registers hold the stimulus in use, or `missed` tells that a drawing has dropped
  the request (section 6). `ProgressInv` says what an undisturbed save
  of a cached slot has erased and programmed so far, including that a console
  save of the same slot in between writes the same data. `FlashIsAStore` is the
  refinement `Spec => ImplementsStore`; its strengthening `RInv` says that after
  the erase an area has no checksum, or is an image a console save put there
  whole, which the remaining steps of the interrupted save leave as it is or
  spoil, but cannot turn into another whole one. So the run's one slot and one
  point of failure are no restriction. Assumed: `Tears` within steps 1 to 5
  (after step 6 the save is complete), and injective checksums.
* `ReferenceTypeCorrect`, `PanelsReadTheirKind`, `OkMeansSame`, `RepeatIsOfThis`,
  `FixtureComesFirst`, without hypotheses. Next to `TypeOK` the invariant is
  `BlockInv`: the flag of the block tells its kind, an impedance is stored only
  while `wref_fill_z_cb` is installed, a block whose data were all measured under
  one setting has that setting in its header, and a repeat reading is never one of an
  older reference, because every capture of a reference, which would age it,
  resets it. `OkMeansSame` is about calibrations that are in the slot they name:
  a standard taken anew leaves the number (section 6). `FixtureComesFirst` follows from the order in which a drawing
  serves the pending captures.

* `BrowserTypeCorrect`, `ButtonsOffered`, `ErasesInTable`, `SaveFolderExists`,
  `GuidePagesRight`, `ButtonHitsDrawn`, without hypotheses, for cards, folders,
  pages and guides of every size. Next to `TypeOK` the invariant has `CountInv`
  (until a console delete, the counts and the buttons are those of the folder on
  the screen and the page starts within its files, in every mode, because the
  keypad and the viewers return to the browser without counting), `ViewerInv` (no
  viewer in delete mode, so leaving one never deletes) and `SaveInv` (the guides
  apart, the folder for SAVE is the one on the screen, so a delete, which takes an
  entry of that folder, leaves it). `PressActs` joins the two walks: the one of
  the press, counted from `StartFile`, ends at the entry that the one of the
  drawing put on that button.
  The argument of `GuidePagesRight` is about a text: `CountedRight` and
  `SoughtRight` say what the count and the seek have computed after every line
  (`CountAt`, `SeekAt`: the heads of sections so far, and whether a fence is open),
  `DrawSteps` the same of the rows drawn; so a page is a section, and the seek
  finds its head. It is stated of the texts whose sections are the pages of
  `guide.py`, those without an empty code block standing alone.
  The library's induction theorems cannot be applied to a property given as an
  operator; here induction is over sets: a set of numbers that holds 0 and is
  closed under successor is all of them (`UpTo`, `SeqInduction`), from the least
  element of its complement (`WFMin`). `Recursion` gives the recursive functions
  their equations the same way.

Every invariant and every action property that a run checks is stated by a
theorem. Checked by TLC only: the liveness properties (`WaitEnds`, `DumpEnds`,
`QueuedCommandServed`, `SweepCompletes`, `PausedIsMuted`), which need fairness.

## 5. Plan

Done: Acquisition, SweepControl, Synth, Calibration, Frequencies, Storage with
SlotStore, Browser with Guide, Reference, their runs, and the proofs above.

Left: the menu stack and number entry of `ui.c`, whose state is a stack of constant
tables and a text.

Not modelled, and why:

* rendering, fonts, LCD, PNG: their result is pixels or bytes, with no state that
  lives on;
* numerics, measurements, workflow math, choke, coax, SWR bandwidth: floating
  point functions of one sweep, which TLC cannot evaluate; the repository tests
  them on the host;
* marker search: a comparison of floating point values of one trace;
* SD card protocol, FatFs, ChibiOS, USB, board support, codec registers: vendored
  code or register tables; what the modules need of them is external there;
* host tools: clients of the console on another machine.

## 6. Disagreements met that are not runs

The hazards name the lines.

Met by TLC on variants of the runs:

* `cmd_dump` waits for 192 samples, four buffers (`main.c:1275`), but DSP_START lets
  only `bandwidth + 2` buffers through: at the settings 0 and 1 it never returns;
* loading a second Touchstone file while one is viewed switches the sweep on
  (`ui.c:1706`, `main.c:1624`) and overwrites the file's points under the file
  view; the manual (07-sd-card.md:69) says "with the sweep held so the stored data
  stays on screen";
* with a band limit between the last two calibrated points `cal_interpolate` uses
  a point that was never calibrated; the test commented "point limit"
  (`main.c:2029`) never holds;
* without a slot in use (after DONE, RESET or a loaded .cal file) the backup names
  slot 15, which does not exist, and power-up takes the sweep of slot 0
  (`main.c:1010`), although REMEMBER STATE (09-menu-map.md:717) promises the
  sweep; `SweepRemembered` in Storage states the promise;
* a change of the data by the console during a save leaves a slot whose checksum
  is wrong but which is used, because it is cached, until the next restart
  (`data_storage.c:90`);
* a bandwidth set from the console while the screen is drawn is not backed up
  (`plot.c:1924`), nor is a `sweep`, `freq` or `recall` during a drawing made inside
  the user interface (`plot.c:1775` from `ui.c:4010` and `ui.c:4118`, `ui.c:2172`,
  `ui.c:1121`), where these commands run at once (`main.c:3279`);
* a console `sd_delete` runs while the browser is open (`main.c:3279`), although
  07-sd-card.md:106 has the sd commands in the sweep thread; a button then acts on
  another entry than the one drawn (`vna_browser.c:214`), and after several the
  erase loop indexes before its table (`vna_browser.c:357`);
* deleting the only entry of the last page leaves a blank page after the last
  (`vna_browser.c:286`);
* the picture viewer, stepping left or right onto a folder, enters it;
* the guides' browser can delete the folder that SAVE writes into
  (`vna_browser.c:44`);
* a section that is only an empty fence is a page for `vna_guide.c` and none for
  `tools/manual/guide.py`, although `vna_guide.c:3` says "keep the rules identical";
* the press of STORE REF itself breaks the sweep off, so that the deferred capture
  of a running sweep takes new unprocessed points in front and old processed ones
  behind: the mixing that the deferral is to avoid (`vna_workref.c:119`);
* settings changed between the sweep and the capture (the grid among them) are
  written into the header of data that were measured under the old ones
  (`vna_workref.c:106`); TRANSFORM switched off while paused stores time domain data;
* calibrations that are in no slot, and a slot that was saved anew, are not told
  apart by a header (`vna_workref.c:95`); a LOAD retaken under a recalled slot clears
  only APPLY (`main.c:1893`), so that with CORRECTION switched on again (`ui.c:830`) a
  header reads ok under another calibration;
* a console `bandwidth` during DSP_WAIT makes the interrupt skip the reset of the
  accumulators (`main.c:1079`);
* `scan` with the outputs muted never returns (`main.c:1455`): only an enabled
  sweep turns the generator, which clocks the codec, back on;
* a second touch breaks the one sweep a muting pause still wanted, and the
  outputs go off in mid-scan (`main.c:308`);
* the console's `resume` leaves `SWEEP_FILE_VIEW` set (`main.c:541`);
* a script overwrites the arguments of a queued command (`main.c:3300`);
* `pause` between the load and the store of `sweep_mode` is lost (`main.c:264`), and
  so is a `pause` or `resume` between those of the menu's toggle (`main.c:304`);
* a console `sweep` or `recall` between the load of the range and the store of the
  grid in a change made from the menu leaves the grid of one stimulus under the
  axis of another (`main.c:1543`);
* `resume` during the file name keypad makes the save switch the sweep off
  (`ui.c:2207`);
* a malformed Touchstone file leaves its points in the sweep it interrupted
  (`ui.c:1683`);
* in the H4 table a jump between two bands whose `pll_n` and `div` are both 8
  skips the dividers (`si5351.c:564`);
* a new band table keeps the band index of the old one (`si5351.c:440`);
* a new threshold does not move a frequency already tuned (`main.c:737`);
* `tcxo` during a tune is forgotten (`si5351.c:187`);
* after a `scan` the menu's RESUME sweeps the scan's grid under the stimulus's axis
  (`main.c:304`), because only the console's `resume` rebuilds the grid;
* a standard taken by `cal` after a `scan` is measured on the scan's grid and
  recorded for the stimulus (`main.c:1902`);
* a console `sweep` during a standard taken from the menu mixes two grids in it
  (`main.c:2968`).

Met while reading the code for the model:

* REPEAT CHECK is not deferred and compares unprocessed data with a processed
  reference (`vna_workref.c:211`);
* 05-measure.md has the panels' references "never overwrite each other's number",
  but there is one block for both (`ui.c:1407`);
* a threshold so small that the maximum frequency exceeds all its multiples runs
  past the table of `si5351_get_harmonic_lvl` (`si5351.c:447`);
* a LOAD taken after DONE leaves Es and Er computed with the old Ed
  (`main.c:1892`);
* `cal_collect` keeps the bandwidth in a `uint8_t` (`main.c:1916`) although settings
  go up to 511, so a setting above 255 is not restored;
* `sweep cw` and spans wider than the range give start frequencies below
  `FREQUENCY_MIN` (`main.c:1565`, `main.c:1606`);
* `scan` with one point divides by zero (`main.c:1385`); a division by zero gives
  0 on this processor unless the trap is enabled.
