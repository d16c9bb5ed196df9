------------------------------ MODULE Storage ------------------------------
(***************************************************************************)
(* Settings and calibrations in flash (data_storage.c, flash.c), the       *)
(* backup registers and power-up (main.c load_settings), the commands and  *)
(* menus that use them (save, recall, saveconfig, clearconfig; SAVE,       *)
(* RECALL, CONFIG and LOAD CAL in ui.c) and the part of draw_all that      *)
(* updates the backup.                                                     *)
(*                                                                         *)
(* An image is a properties_t or a config_t: the magic word, two parts of  *)
(* the data in the order of their addresses, the checksum.  The data of    *)
(* current_props are the stimulus (what the backup registers also hold)    *)
(* and the rest; of config, REMEMBER STATE and the bandwidth.  Checksums   *)
(* are taken to be injective.  What update_frequencies recomputes from the *)
(* stimulus is not part of the data.                                       *)
(*                                                                         *)
(* The sweep thread writes flash step by step, and the console thread may  *)
(* come between any two steps; what the console thread does itself is not  *)
(* interrupted, except by a power failure.                                 *)
(*                                                                         *)
(* spoiled and missed are history variables: the slots whose last save by  *)
(* the sweep thread was disturbed by a console command that changed the    *)
(* data; and whether a request to back up the stimulus came while draw_all *)
(* ran in the user interface, which drops it.                              *)
(***************************************************************************)
EXTENDS Integers

CONSTANTS
  SaveAreaMax,     \* SAVEAREA_MAX
  Stimuli,         \* frequencies and number of points
  Rests,           \* the other settings and the calibration
  Bandwidths,
  DefStimulus, DefRest, DefBandwidth,
  UiAreas,         \* what is saved from the menus and by scripts
  ConsoleAreas,    \* what is saved from the console
  Tears            \* the steps of a console save after which power may fail

Modes == {"remember", "forget"}

ASSUME StorageConstants ==
  /\ SaveAreaMax \in 1 .. 15
  /\ DefStimulus \in Stimuli /\ DefRest \in Rests /\ DefBandwidth \in Bandwidths
  /\ UiAreas \cup ConsoleAreas \subseteq 0 .. SaveAreaMax
  /\ Tears \subseteq 1 .. 5

Slots == 0 .. SaveAreaMax - 1
Config == SaveAreaMax        \* the area of config_t follows the slots
Areas == 0 .. SaveAreaMax
NO_SAVE_SLOT == 65535

VARIABLES
  flash,           \* what the flash holds, per area
  ram,             \* current_props and config
  lastsaveid, checksum_ok,
  job,             \* what the sweep thread is writing
  redraw,          \* REDRAW_BACKUP in redraw_request
  drawing,         \* the sweep thread is in draw_all
  backup,          \* the backup registers
  spoiled, missed

vars == <<flash, ram, lastsaveid, checksum_ok, job, redraw, drawing, backup, spoiled, missed>>

-----------------------------------------------------------------------------
(***************************************************************************)
(* Images.                                                                 *)
(***************************************************************************)
Parts == {"magic", "a", "b", "sum"}
\* An area is erased page by page, here in two pages; the configuration has one,
\* for which a failure between the two is one state more than it can be in
EraseStep == [magic |-> 1, a |-> 1, b |-> 2, sum |-> 2]
WriteStep == [magic |-> 3, a |-> 4, b |-> 5, sum |-> 6]
LastStep == 6
Erased == [magic |-> "erased", a |-> "erased", b |-> "erased", sum |-> <<"erased">>]

Kinds == {"props", "config"}
Kind(area) == IF area = Config THEN "config" ELSE "props"

First == Stimuli \cup Modes \cup {"erased"}
Second == Rests \cup Bandwidths \cup {"erased"}
Sums == (First \X Second) \cup {<<"erased">>}
Images == [magic : {"magic", "erased"}, a : First, b : Second, sum : Sums]

Image(x, y, s) == [magic |-> "magic", a |-> x, b |-> y, sum |-> s]

\* The magic word and the checksum, as the save functions apply them
Sealed(img) == Image(img.a, img.b, <<img.a, img.b>>)

\* What a recall asks of an area; a variant trusts the magic word alone
MagicOnly(img) == img.magic = "magic"
Valid(img) == img.magic = "magic" /\ img.sum = <<img.a, img.b>>

(***************************************************************************)
(* flash_program_half_word_buffer: erase from the first page on, then the  *)
(* half words in order.  Written is what n of these steps leave.           *)
(***************************************************************************)
Written(old, new, n) ==
  [p \in Parts |-> IF n < EraseStep[p] THEN old[p]
                   ELSE IF n < WriteStep[p] THEN Erased[p] ELSE new[p]]

\* Step n of a save over what is there now: a part that is not erased cannot
\* be programmed
FlashStep(now, new, n) ==
  [p \in Parts |-> IF n = EraseStep[p] THEN Erased[p]
                   ELSE IF n = WriteStep[p] /\ now[p] = Erased[p] THEN new[p]
                   ELSE now[p]]

Cleared(fl, n) == [i \in Areas |-> IF i < n THEN Erased ELSE fl[i]]

-----------------------------------------------------------------------------
(***************************************************************************)
(* Power-up: load_settings.                                                *)
(***************************************************************************)
NoJob == [kind |-> "none", area |-> 0, step |-> 0]
NoBackup == [valid |-> FALSE, id |-> 0, stim |-> DefStimulus, bw |-> DefBandwidth]

DefaultProps == Image(DefStimulus, DefRest, <<"erased">>)
DefaultConfig == Image("forget", DefBandwidth, <<"erased">>)

\* The stimulus a slot is used with; a variant takes the slot's own
SlotStimulus(img, bk) == img
WithStimulus(img, bk) == [img EXCEPT !.a = bk.stim]

\* load_settings, from the flash and the backup registers as they are
LoadSettings(fl, bk) ==
  LET cfg == IF Valid(fl[Config]) THEN fl[Config] ELSE DefaultConfig
      use == Valid(fl[Config]) /\ cfg.a = "remember" /\ bk.valid
      own == use /\ bk.id < SaveAreaMax /\ Valid(fl[bk.id])
      id == IF own THEN bk.id ELSE 0
  IN /\ ram' = [props |-> IF own THEN WithStimulus(fl[id], bk)
                          ELSE IF Valid(fl[0]) THEN fl[0] ELSE DefaultProps,
                config |-> IF use THEN [cfg EXCEPT !.a = "remember", !.b = bk.bw]
                           ELSE cfg]
     /\ lastsaveid' = IF Valid(fl[id]) THEN id ELSE NO_SAVE_SLOT
     /\ checksum_ok' = IF Valid(fl[id]) THEN {id} ELSE {}

\* A reset, or power that fails and returns; with no battery the backup is lost
Restart(fl, kept) ==
  /\ flash' = fl
  /\ backup' = IF kept THEN backup ELSE NoBackup
  /\ LoadSettings(fl, backup')
  /\ job' = NoJob
  /\ redraw' = TRUE
  /\ drawing' = FALSE
  /\ spoiled' = {} /\ missed' = FALSE

Init ==
  /\ flash = [i \in Areas |-> Erased]
  /\ ram = [props |-> DefaultProps, config |-> DefaultConfig]
  /\ lastsaveid = NO_SAVE_SLOT /\ checksum_ok = {}
  /\ job = NoJob /\ redraw = TRUE /\ drawing = FALSE
  /\ backup = NoBackup
  /\ spoiled = {} /\ missed = FALSE

-----------------------------------------------------------------------------
(***************************************************************************)
(* Settings.  The console's sweep, freq and recall run in the sweep thread *)
(* or at once while that is in the user interface, a drawing made there    *)
(* included; trace, marker, edelay, power and bandwidth at any moment.     *)
(***************************************************************************)
\* The slot whose save a change of current_props disturbs
Disturbed == IF job.kind = "save" THEN {job.area} \cap Slots ELSE {}

\* A change asks for the backup; a variant forgets to
NotAsked == redraw
Asked == TRUE

\* A request that comes during a drawing is dropped at its end, which matters
\* where the registers hold another stimulus
Missed(s) == (missed \/ drawing) /\ backup.stim # s

SetStimulus(s) ==
  /\ ram' = [ram EXCEPT !.props.a = s]
  /\ redraw' = Asked
  /\ spoiled' = spoiled \cup Disturbed
  /\ missed' = Missed(s)
  /\ UNCHANGED <<flash, lastsaveid, checksum_ok, job, drawing, backup>>

SetRest(r) ==
  /\ ram' = [ram EXCEPT !.props.b = r]
  /\ spoiled' = spoiled \cup Disturbed
  /\ UNCHANGED <<flash, lastsaveid, checksum_ok, job, redraw, drawing, backup, missed>>

SetBandwidth(w) ==
  /\ ram' = [ram EXCEPT !.config.b = w]
  /\ redraw' = TRUE
  /\ UNCHANGED <<flash, lastsaveid, checksum_ok, job, drawing, backup, spoiled, missed>>

\* The sweep thread is in the user interface and writes nothing
UiFree == job.kind = "none" /\ ~drawing

SetRemember(m) ==
  /\ UiFree
  /\ m # ram.config.a
  /\ ram' = [ram EXCEPT !.config.a = m]
  /\ redraw' = TRUE
  /\ UNCHANGED <<flash, lastsaveid, checksum_ok, job, drawing, backup, spoiled, missed>>

-----------------------------------------------------------------------------
(***************************************************************************)
(* Saves and clears by the sweep thread.  A menu's SAVE of a slot asks for *)
(* the backup, a script's save does not.                                   *)
(***************************************************************************)
SaveStart(i) ==
  /\ UiFree
  /\ ram' = [ram EXCEPT ![Kind(i)] = Sealed(@)]
  /\ job' = [kind |-> "save", area |-> i, step |-> 0]
  /\ spoiled' = spoiled \ {i}
  /\ UNCHANGED <<flash, lastsaveid, checksum_ok, redraw, drawing, backup, missed>>

SaveStep ==
  /\ job.kind = "save" /\ job.step < LastStep
  /\ flash' = [flash EXCEPT ![job.area] =
                 FlashStep(@, ram[Kind(job.area)], job.step + 1)]
  /\ job' = [job EXCEPT !.step = @ + 1]
  /\ UNCHANGED <<ram, lastsaveid, checksum_ok, redraw, drawing, backup, spoiled, missed>>

SaveEnd ==
  /\ job.kind = "save" /\ job.step = LastStep
  /\ lastsaveid' = IF job.area = Config THEN lastsaveid ELSE job.area
  /\ redraw' \in IF job.area = Config THEN {redraw} ELSE {redraw, TRUE}
  /\ job' = NoJob
  /\ UNCHANGED <<flash, ram, checksum_ok, drawing, backup, spoiled, missed>>

\* What a clear leaves of the cache; a variant leaves all of it
KeepCache == checksum_ok
NoCache == {}

\* clear_all_config_prop_data erases up to the area of the configuration; a
\* variant goes on to the next one
PastConfig == Config + 1
LastCleared == Config

\* CONFIG -> CLEAR ALL AND RESET
ClearStart ==
  /\ UiFree
  /\ lastsaveid' = NO_SAVE_SLOT
  /\ checksum_ok' = NoCache
  /\ job' = [NoJob EXCEPT !.kind = "clear"]
  /\ UNCHANGED <<flash, ram, redraw, drawing, backup, spoiled, missed>>

ClearStep ==
  /\ job.kind = "clear" /\ job.area <= LastCleared
  /\ flash' = [flash EXCEPT ![job.area] = Erased]
  /\ job' = [job EXCEPT !.area = @ + 1]
  /\ UNCHANGED <<ram, lastsaveid, checksum_ok, redraw, drawing, backup, spoiled, missed>>

ClearEnd ==
  /\ job.kind = "clear" /\ job.area > LastCleared
  /\ Restart(flash, TRUE)

(***************************************************************************)
(* save, saveconfig and clearconfig on the console thread.                 *)
(***************************************************************************)
ConsoleSave(i) ==
  LET img == Sealed(ram[Kind(i)])
  IN /\ ram' = [ram EXCEPT ![Kind(i)] = img]
     /\ flash' = [flash EXCEPT ![i] = Written(@, img, LastStep)]
     /\ lastsaveid' = IF i = Config THEN lastsaveid ELSE i
     /\ spoiled' = spoiled \ ({i} \ Disturbed)
     /\ UNCHANGED <<checksum_ok, job, redraw, drawing, backup, missed>>

ConsoleClear ==
  /\ flash' = Cleared(flash, Config + 1)
  /\ lastsaveid' = NO_SAVE_SLOT
  /\ checksum_ok' = NoCache
  /\ UNCHANGED <<ram, job, redraw, drawing, backup, spoiled, missed>>

-----------------------------------------------------------------------------
(***************************************************************************)
(* Recalls.                                                                *)
(***************************************************************************)
\* get_properties # NULL
Usable(i) == i \in checksum_ok \/ Valid(flash[i])

Recall(i) ==
  /\ IF Usable(i)
     THEN /\ lastsaveid' = i
          /\ checksum_ok' = checksum_ok \cup {i}
          /\ ram' = [ram EXCEPT !.props = flash[i]]
          /\ spoiled' = spoiled \cup Disturbed
          /\ missed' = Missed(flash[i].a)
     ELSE /\ lastsaveid' = NO_SAVE_SLOT
          /\ UNCHANGED <<checksum_ok, ram, spoiled, missed>>
  /\ redraw' = Asked
  /\ UNCHANGED <<flash, job, drawing, backup>>

\* The labels of the SAVE and RECALL menus
MenuLabel(i) ==
  /\ UiFree
  /\ Valid(flash[i]) /\ i \notin checksum_ok
  /\ checksum_ok' = checksum_ok \cup {i}
  /\ UNCHANGED <<flash, ram, lastsaveid, job, redraw, drawing, backup, spoiled, missed>>

\* load_cal: the checksum that comes with the file is not looked at
LoadCal(s, r) ==
  /\ UiFree
  /\ ram' = [ram EXCEPT !.props = Image(s, r, <<"erased">>)]
  /\ lastsaveid' = NO_SAVE_SLOT
  /\ redraw' = TRUE
  /\ UNCHANGED <<flash, checksum_ok, job, drawing, backup, spoiled, missed>>

-----------------------------------------------------------------------------
(***************************************************************************)
(* draw_all: update_backup_data if it was asked for, drawing, and all      *)
(* requests dropped at the end.  It runs in the user interface             *)
(* (redraw_marker, the lever, a menu that draws before it waits), where a  *)
(* console sweep, freq or recall comes at once, and in the loop of the     *)
(* sweep thread, where they wait for its end: there a drawing is one       *)
(* during which none of them comes.  A request that comes between the load *)
(* and the store of redraw_request by the sweep thread is lost likewise: a *)
(* drawing that serves nothing stands for that too.                        *)
(***************************************************************************)
UpdateBackupData ==
  [valid |-> TRUE, id |-> lastsaveid % 16, stim |-> ram.props.a,
   bw |-> ram.config.b]

DrawStart ==
  /\ UiFree
  /\ drawing' = TRUE
  /\ IF redraw THEN backup' = UpdateBackupData /\ missed' = FALSE
               ELSE UNCHANGED <<backup, missed>>
  /\ UNCHANGED <<flash, ram, lastsaveid, checksum_ok, job, redraw, spoiled>>

DrawEnd ==
  /\ drawing
  /\ drawing' = FALSE
  /\ redraw' = FALSE
  /\ UNCHANGED <<flash, ram, lastsaveid, checksum_ok, job, backup, spoiled, missed>>

-----------------------------------------------------------------------------
(***************************************************************************)
(* Power fails, at any moment of the sweep thread or within what the       *)
(* console thread does at once.                                            *)
(***************************************************************************)
PowerFails(kept) == Restart(flash, kept)

FailsInSave(i, n, kept) ==
  Restart([flash EXCEPT ![i] = Written(@, Sealed(ram[Kind(i)]), n)], kept)

FailsInClear(n, kept) == Restart(Cleared(flash, n), kept)

Next ==
  \/ \E s \in Stimuli : SetStimulus(s)
  \/ \E r \in Rests : SetRest(r)
  \/ \E w \in Bandwidths : SetBandwidth(w)
  \/ \E m \in Modes : SetRemember(m)
  \/ \E i \in UiAreas : SaveStart(i)
  \/ SaveStep \/ SaveEnd
  \/ ClearStart \/ ClearStep \/ ClearEnd
  \/ \E i \in ConsoleAreas : ConsoleSave(i)
  \/ ConsoleClear
  \/ \E i \in Slots : Recall(i) \/ MenuLabel(i)
  \/ \E s \in Stimuli, r \in Rests : LoadCal(s, r)
  \/ DrawStart \/ DrawEnd
  \/ \E kept \in BOOLEAN :
       \/ PowerFails(kept)
       \/ \E i \in ConsoleAreas, n \in Tears : FailsInSave(i, n, kept)
       \/ \E n \in 1 .. Config : FailsInClear(n, kept)

Spec == Init /\ [][Next]_vars

-----------------------------------------------------------------------------
Jobs == [kind : {"none", "save", "clear"}, area : 0 .. Config + 1,
         step : 0 .. LastStep]
Backups == [valid : BOOLEAN, id : 0 .. 15, stim : First, bw : Second]

\* The flash holds images; the sweep thread writes an area that exists; a slot
\* in use or cached exists
TypeOK ==
  /\ flash \in [Areas -> Images]
  /\ ram \in [Kinds -> Images]
  /\ lastsaveid \in Slots \cup {NO_SAVE_SLOT} /\ checksum_ok \subseteq Slots
  /\ job \in Jobs /\ (job.kind = "save" => job.area \in Areas)
  /\ (job.kind # "none" => ~drawing)
  /\ redraw \in BOOLEAN /\ drawing \in BOOLEAN
  /\ backup \in Backups
  /\ spoiled \subseteq Slots /\ missed \in BOOLEAN

(***************************************************************************)
(* checksum_ok lets a recall skip the check (get_properties).  A slot it   *)
(* names is whole, although saves, clears and power failures come in any   *)
(* order and a save does not clear it; except while it is written, and     *)
(* after a console command changed the data during its save.               *)
(***************************************************************************)
CacheTrue ==
  \A i \in checksum_ok \ spoiled :
    job.kind = "clear" \/ (job.kind = "save" /\ job.area = i) \/ Valid(flash[i])

(***************************************************************************)
(* REMEMBER STATE (load_settings, update_backup_data): power that returns  *)
(* finds the stimulus that was in use, if the request to update the backup *)
(* was served and the slot that the registers name is whole; except after  *)
(* a console sweep, freq or recall whose request came during a drawing of  *)
(* the menus, until the next one is served.                                *)
(***************************************************************************)
Remembered == Valid(flash[Config]) /\ flash[Config].a = "remember"
NamedSlotWhole == backup.id < SaveAreaMax /\ Valid(flash[backup.id])

SweepSurvives ==
  [][ PowerFails(TRUE) /\ Remembered /\ ~redraw /\ ~missed /\ NamedSlotWhole
        => ram'.props.a = ram.props.a ]_vars

\* The same whatever slot is in use, as the manual promises it
SweepRemembered ==
  [][ PowerFails(TRUE) /\ Remembered /\ ~redraw /\ ~missed
        => ram'.props.a = ram.props.a ]_vars

(***************************************************************************)
(* What a power-up would find is a SlotStore: an area changes only while   *)
(* it is saved or cleared, and a whole content is one that was sealed,     *)
(* whatever the console thread does between the steps of a save.           *)
(***************************************************************************)
Store == INSTANCE SlotStore WITH
  Places <- Areas, KindOf <- Kind, Contents <- Sums, None <- <<"none">>,
  sealed <- [k \in Kinds |-> ram[k].sum],
  stored <- [i \in Areas |-> IF Valid(flash[i]) THEN flash[i].sum ELSE <<"none">>],
  open <- IF job.kind = "save" THEN {job.area}
          ELSE IF job.kind = "clear" THEN Areas ELSE {}

ImplementsStore == Store!Spec
=============================================================================
