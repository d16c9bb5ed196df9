--------------------------- MODULE StorageProofs ---------------------------
(***************************************************************************)
(* Proofs about Storage, for every number of slots, every set of settings  *)
(* and every choice of what the two threads save and where power fails.    *)
(***************************************************************************)
EXTENDS Storage, TLAPS

\* What n steps of flash_program_half_word_buffer leave is an image (flash.c:36).
LEMMA WrittenTyped ==
  ASSUME NEW old \in Images, NEW new \in Images, NEW n \in Nat
  PROVE  Written(old, new, n) \in Images
  BY DEF Written, Images, Parts, EraseStep, WriteStep, Erased, First, Second, Sums

\* So is what one step of it leaves of whatever is there.
LEMMA StepTyped ==
  ASSUME NEW old \in Images, NEW new \in Images, NEW n \in Nat
  PROVE  FlashStep(old, new, n) \in Images
  BY DEF FlashStep, Images, Parts, EraseStep, WriteStep, Erased, First, Second, Sums

\* The magic word and the checksum make an image of an image (data_storage.c:71).
LEMMA SealedTyped ==
  ASSUME NEW img \in Images
  PROVE  Sealed(img) \in Images
  BY DEF Sealed, Image, Images, Sums

\* What load_default_properties, the default config and an erase leave is typed.
LEMMA DefaultsTyped ==
  DefaultProps \in Images /\ DefaultConfig \in Images /\ NoBackup \in Backups /\ Erased \in Images
<1>1. DefaultProps \in Images
  BY StorageConstants DEF DefaultProps, Image, Images, First, Second, Sums
<1>2. DefaultConfig \in Images
  BY StorageConstants DEF DefaultConfig, Image, Images, First, Second, Sums, Modes
<1>3. NoBackup \in Backups
  BY StorageConstants DEF NoBackup, Backups, First, Second
<1>4. Erased \in Images
  BY DEF Erased, Images, First, Second, Sums
<1>5. QED
  BY <1>1, <1>2, <1>3, <1>4

\* load_settings leaves typed settings, and in the cache only a slot it checked.
LEMMA LoadTyped ==
  ASSUME NEW fl \in [Areas -> Images], NEW bk \in Backups, LoadSettings(fl, bk)
  PROVE  /\ ram' \in [Kinds -> Images]
         /\ lastsaveid' \in Slots \cup {NO_SAVE_SLOT}
         /\ checksum_ok' \subseteq Slots
         /\ \A i \in checksum_ok' : Valid(fl[i])
<1> DEFINE cfg == IF Valid(fl[Config]) THEN fl[Config] ELSE DefaultConfig
           use == Valid(fl[Config]) /\ cfg.a = "remember" /\ bk.valid
           own == use /\ bk.id < SaveAreaMax /\ Valid(fl[bk.id])
           id == IF own THEN bk.id ELSE 0
<1>1. id \in Slots
  BY StorageConstants DEF Slots, Backups
<1>2. Slots \subseteq Areas /\ Config \in Areas /\ 0 \in Areas
  BY StorageConstants DEF Slots, Areas, Config
<1>3. fl[id] \in Images /\ fl[Config] \in Images /\ fl[0] \in Images
  BY <1>1, <1>2
<1>4. cfg \in Images
  BY <1>3, DefaultsTyped
<1>5. WithStimulus(fl[id], bk) \in Images
  BY <1>3 DEF WithStimulus, Images, Backups
<1>6. [cfg EXCEPT !.a = "remember", !.b = bk.bw] \in Images
  BY <1>4 DEF Images, Backups, First, Modes
<1>7. /\ ram' = [props |-> IF own THEN WithStimulus(fl[id], bk)
                          ELSE IF Valid(fl[0]) THEN fl[0] ELSE DefaultProps,
                 config |-> IF use THEN [cfg EXCEPT !.a = "remember", !.b = bk.bw] ELSE cfg]
      /\ lastsaveid' = (IF Valid(fl[id]) THEN id ELSE NO_SAVE_SLOT)
      /\ checksum_ok' = (IF Valid(fl[id]) THEN {id} ELSE {})
  BY DEF LoadSettings
<1> HIDE DEF cfg, use, own, id
<1>8. ram' \in [Kinds -> Images]
  BY <1>3, <1>4, <1>5, <1>6, <1>7, DefaultsTyped DEF Kinds
<1>9. QED
  BY <1>1, <1>7, <1>8

\* So does a reset, whatever flash it finds and with or without the backup.
LEMMA RestartTyped ==
  ASSUME TypeOK, NEW fl \in [Areas -> Images], NEW kept \in BOOLEAN, Restart(fl, kept)
  PROVE  TypeOK' /\ \A i \in checksum_ok' : Valid(fl[i])
<1>1. backup' \in Backups
  BY DefaultsTyped DEF Restart, TypeOK
<1>2. LoadSettings(fl, backup')
  BY DEF Restart
<1>3. /\ ram' \in [Kinds -> Images]
      /\ lastsaveid' \in Slots \cup {NO_SAVE_SLOT}
      /\ checksum_ok' \subseteq Slots
      /\ \A i \in checksum_ok' : Valid(fl[i])
  BY <1>1, <1>2, LoadTyped
<1>4. job' = NoJob /\ NoJob \in Jobs /\ NoJob.kind = "none"
  BY StorageConstants DEF Restart, NoJob, Jobs, Config, LastStep
<1>5. QED
  BY <1>1, <1>3, <1>4 DEF Restart, TypeOK

\* An area holds properties or the configuration.
LEMMA KindTyped == \A i \in Areas : Kind(i) \in Kinds
  BY DEF Kind, Kinds

\* clear_all_config_prop_data leaves images, wherever it stopped.
LEMMA ClearedTyped ==
  ASSUME NEW fl \in [Areas -> Images], NEW n \in Int
  PROVE  Cleared(fl, n) \in [Areas -> Images]
  BY DefaultsTyped DEF Cleared

\* What menus and console save are areas; slots and the configuration are areas.
LEMMA AreasChosen ==
  /\ UiAreas \subseteq Areas /\ ConsoleAreas \subseteq Areas /\ Slots \subseteq Areas
  /\ Config \in Areas /\ Config \in Nat /\ \A i \in Areas : i \in Nat
  BY StorageConstants DEF Areas, Slots, Config

\* The first power-up, with an erased flash, is well typed.
LEMMA TypeInit == Init => TypeOK
<1> SUFFICES ASSUME Init PROVE TypeOK
  OBVIOUS
<1>1. flash \in [Areas -> Images] /\ ram \in [Kinds -> Images] /\ backup \in Backups
  BY DefaultsTyped DEF Init, Kinds
<1>2. job \in Jobs /\ job.kind = "none"
  BY StorageConstants DEF Init, NoJob, Jobs, Config, LastStep
<1>3. QED
  BY <1>1, <1>2 DEF Init, TypeOK

\* Every step of the two threads and every power failure keeps TypeOK.
LEMMA TypeStep == ASSUME TypeOK, [Next]_vars PROVE TypeOK'
<1> USE DEF TypeOK
<1>1. ASSUME NEW s \in Stimuli, SetStimulus(s) PROVE TypeOK'
  <2>1. s \in First
    BY DEF First
  <2>2. ram' \in [Kinds -> Images]
    BY <1>1, <2>1 DEF SetStimulus, Images, Kinds
  <2>3. spoiled' \subseteq Slots /\ missed' \in BOOLEAN
    BY <1>1 DEF SetStimulus, Disturbed, Missed
  <2>4. QED
    BY <1>1, <2>2, <2>3 DEF SetStimulus, Asked
<1>2. ASSUME NEW r \in Rests, SetRest(r) PROVE TypeOK'
  <2>1. r \in Second
    BY DEF Second
  <2>2. ram' \in [Kinds -> Images]
    BY <1>2, <2>1 DEF SetRest, Images, Kinds
  <2>3. spoiled' \subseteq Slots
    BY <1>2 DEF SetRest, Disturbed
  <2>4. QED
    BY <1>2, <2>2, <2>3 DEF SetRest
<1>3. ASSUME NEW w \in Bandwidths, SetBandwidth(w) PROVE TypeOK'
  <2>1. w \in Second
    BY DEF Second
  <2>2. ram' \in [Kinds -> Images]
    BY <1>3, <2>1 DEF SetBandwidth, Images, Kinds
  <2>3. QED
    BY <1>3, <2>2 DEF SetBandwidth
<1>4. ASSUME NEW md \in Modes, SetRemember(md) PROVE TypeOK'
  <2>1. md \in First
    BY DEF First
  <2>2. ram' \in [Kinds -> Images]
    BY <1>4, <2>1 DEF SetRemember, Images, Kinds
  <2>3. QED
    BY <1>4, <2>2 DEF SetRemember
<1>5. ASSUME NEW i \in UiAreas, SaveStart(i) PROVE TypeOK'
  <2>1. i \in Areas /\ Kind(i) \in Kinds
    BY AreasChosen, KindTyped
  <2>2. ram' \in [Kinds -> Images]
    BY <1>5, <2>1, SealedTyped DEF SaveStart
  <2>3. job' \in Jobs /\ job'.kind = "save" /\ job'.area \in Areas
    BY <1>5, <2>1, StorageConstants DEF SaveStart, Jobs, Areas, Config, LastStep
  <2>4. QED
    BY <1>5, <2>2, <2>3 DEF SaveStart, UiFree
<1>6. ASSUME SaveStep PROVE TypeOK'
  <2>1. job.area \in Areas /\ job.step + 1 \in Nat /\ Kind(job.area) \in Kinds
    BY <1>6, KindTyped DEF SaveStep, Jobs
  <2>2. flash' \in [Areas -> Images]
    BY <1>6, <2>1, StepTyped DEF SaveStep
  <2>3. job' \in Jobs /\ job'.kind = "save" /\ job'.area = job.area
    BY <1>6, <2>1 DEF SaveStep, Jobs, LastStep
  <2>4. QED
    BY <1>6, <2>1, <2>2, <2>3 DEF SaveStep
<1>7. ASSUME SaveEnd PROVE TypeOK'
  <2>1. job.area # Config => job.area \in Slots
    BY <1>7, StorageConstants DEF SaveEnd, Areas, Slots, Config
  <2>2. job' \in Jobs /\ job'.kind = "none"
    BY <1>7, StorageConstants DEF SaveEnd, NoJob, Jobs, Config, LastStep
  <2>3. redraw' \in BOOLEAN
    BY <1>7 DEF SaveEnd
  <2>4. QED
    BY <1>7, <2>1, <2>2, <2>3 DEF SaveEnd
<1>8. ASSUME ClearStart PROVE TypeOK'
  <2>1. job' \in Jobs /\ job'.kind = "clear"
    BY <1>8, StorageConstants DEF ClearStart, NoJob, Jobs, Config, LastStep
  <2>2. QED
    BY <1>8, <2>1 DEF ClearStart, UiFree, NoCache
<1>9. ASSUME ClearStep PROVE TypeOK'
  <2>1. job.area \in Areas
    BY <1>9 DEF ClearStep, LastCleared, Jobs, Areas, Config
  <2>2. flash' \in [Areas -> Images]
    BY <1>9, <2>1, DefaultsTyped DEF ClearStep
  <2>3. job' \in Jobs /\ job'.kind = "clear"
    BY <1>9, AreasChosen DEF ClearStep, LastCleared, Jobs
  <2>4. QED
    BY <1>9, <2>2, <2>3 DEF ClearStep
<1>10. ASSUME ClearEnd PROVE TypeOK'
  BY <1>10, RestartTyped DEF ClearEnd
<1>11. ASSUME NEW i \in ConsoleAreas, ConsoleSave(i) PROVE TypeOK'
  <2>1. i \in Areas /\ Kind(i) \in Kinds /\ LastStep \in Nat
    BY AreasChosen, KindTyped DEF LastStep
  <2>2. ram' \in [Kinds -> Images] /\ flash' \in [Areas -> Images]
    BY <1>11, <2>1, SealedTyped, WrittenTyped DEF ConsoleSave
  <2>3. i # Config => i \in Slots
    BY <2>1, StorageConstants DEF Areas, Slots, Config
  <2>4. QED
    BY <1>11, <2>2, <2>3 DEF ConsoleSave
<1>12. ASSUME ConsoleClear PROVE TypeOK'
  <2>1. flash' \in [Areas -> Images]
    BY <1>12, ClearedTyped, AreasChosen DEF ConsoleClear
  <2>2. QED
    BY <1>12, <2>1 DEF ConsoleClear, NoCache
<1>13. ASSUME NEW i \in Slots, Recall(i) PROVE TypeOK'
  <2>1. flash[i] \in Images
    BY AreasChosen
  <2>2. ram' \in [Kinds -> Images]
    BY <1>13, <2>1 DEF Recall, Kinds
  <2>3. spoiled' \subseteq Slots /\ missed' \in BOOLEAN
    BY <1>13 DEF Recall, Disturbed, Missed
  <2>4. QED
    BY <1>13, <2>2, <2>3 DEF Recall, Asked
<1>14. ASSUME NEW i \in Slots, MenuLabel(i) PROVE TypeOK'
  BY <1>14 DEF MenuLabel
<1>15. ASSUME NEW s \in Stimuli, NEW r \in Rests, LoadCal(s, r) PROVE TypeOK'
  <2>1. Image(s, r, <<"erased">>) \in Images
    BY DEF Image, Images, First, Second, Sums
  <2>2. ram' \in [Kinds -> Images]
    BY <1>15, <2>1 DEF LoadCal, Kinds
  <2>3. QED
    BY <1>15, <2>2 DEF LoadCal
<1>16. ASSUME DrawStart PROVE TypeOK'
  <2>1. lastsaveid % 16 \in 0 .. 15
    BY StorageConstants DEF Slots, NO_SAVE_SLOT
  <2>2. ram.props \in Images /\ ram.config \in Images
    BY DEF Kinds
  <2>3. UpdateBackupData \in Backups
    BY <2>1, <2>2 DEF UpdateBackupData, Backups, Images
  <2>4. QED
    BY <1>16, <2>3 DEF DrawStart, UiFree
<1>17. ASSUME DrawEnd PROVE TypeOK'
  BY <1>17 DEF DrawEnd
<1>18. ASSUME NEW kept \in BOOLEAN, PowerFails(kept) PROVE TypeOK'
  BY <1>18, RestartTyped DEF PowerFails
<1>19. ASSUME NEW kept \in BOOLEAN, NEW i \in ConsoleAreas, NEW n \in Tears, FailsInSave(i, n, kept)
       PROVE TypeOK'
  <2>1. i \in Areas /\ Kind(i) \in Kinds /\ n \in Nat
    BY AreasChosen, KindTyped, StorageConstants
  <2>2. [flash EXCEPT ![i] = Written(@, Sealed(ram[Kind(i)]), n)] \in [Areas -> Images]
    BY <2>1, SealedTyped, WrittenTyped
  <2>3. QED
    BY <1>19, <2>2, RestartTyped DEF FailsInSave
<1>20. ASSUME NEW kept \in BOOLEAN, NEW n \in 1 .. Config, FailsInClear(n, kept) PROVE TypeOK'
  BY <1>20, RestartTyped, ClearedTyped DEF FailsInClear
<1>21. CASE UNCHANGED vars
  BY <1>21 DEF vars
<1>22. QED
  BY <1>1, <1>2, <1>3, <1>4, <1>5, <1>6, <1>7, <1>8, <1>9, <1>10, <1>11, <1>12, <1>13, <1>14,
     <1>15, <1>16, <1>17, <1>18, <1>19, <1>20, <1>21 DEF Next

(***************************************************************************)
(* The flash always holds images, the slot in use and the cached slots exist, *)
(* and the sweep thread never writes outside the save area: TypeOK is      *)
(* inductive as it stands.                                                 *)
(***************************************************************************)
THEOREM StorageTypeCorrect == Spec => []TypeOK
<1>1. Init => TypeOK
  BY TypeInit
<1>2. TypeOK /\ [Next]_vars => TypeOK'
  BY TypeStep
<1>3. QED
  BY <1>1, <1>2, PTL DEF Spec

-----------------------------------------------------------------------------
(***************************************************************************)
(* Once the request to update the backup is served, and already while the  *)
(* drawing that serves it goes on, the registers hold the stimulus in use: *)
(* what changes it asks again, or comes during a drawing and is missed.    *)
(***************************************************************************)
BackupInv ==
  drawing \/ ~redraw => backup.valid /\ (missed \/ backup.stim = ram.props.a)

\* After a reset everything is asked for again.
LEMMA RestartAsks ==
  ASSUME NEW fl, NEW kept, Restart(fl, kept)
  PROVE  BackupInv'
  BY DEF Restart, BackupInv

\* Every step keeps the registers and the stimulus together.
LEMMA BackupStep == ASSUME TypeOK, BackupInv, [Next]_vars PROVE BackupInv'
<1> USE DEF BackupInv
<1>a. DOMAIN ram = Kinds /\ ram.props \in Images /\ ram.config \in Images
  BY DEF TypeOK, Kinds
<1>b. "props" \in Kinds /\ "config" \in Kinds
  BY DEF Kinds
<1>1. ASSUME NEW s \in Stimuli, SetStimulus(s) PROVE BackupInv'
  <2>1. ram'.props.a = s
    BY <1>1, <1>a, <1>b DEF SetStimulus, Images
  <2>2. drawing' = drawing /\ redraw' = TRUE /\ backup' = backup
    BY <1>1 DEF SetStimulus, Asked
  <2>3. missed' = ((missed \/ drawing) /\ backup.stim # s)
    BY <1>1 DEF SetStimulus, Missed
  <2>4. QED
    BY <2>1, <2>2, <2>3
<1>2. ASSUME NEW r \in Rests, SetRest(r) PROVE BackupInv'
  BY <1>2, <1>a, <1>b DEF SetRest, Images
<1>3. ASSUME NEW w \in Bandwidths, SetBandwidth(w) PROVE BackupInv'
  <2>1. ram'.props = ram.props
    BY <1>3, <1>a, <1>b DEF SetBandwidth
  <2>2. drawing' = drawing /\ redraw' = TRUE /\ backup' = backup /\ missed' = missed
    BY <1>3 DEF SetBandwidth
  <2>3. QED
    BY <2>1, <2>2
<1>4. ASSUME NEW md \in Modes, SetRemember(md) PROVE BackupInv'
  BY <1>4 DEF SetRemember, UiFree
<1>5. ASSUME NEW i \in UiAreas, SaveStart(i) PROVE BackupInv'
  <2>1. ram'.props.a = ram.props.a
    BY <1>5, <1>a, <1>b DEF SaveStart, Sealed, Image, Kind
  <2>2. QED
    BY <1>5, <2>1 DEF SaveStart
<1>6. ASSUME SaveStep PROVE BackupInv'
  BY <1>6 DEF SaveStep
<1>7. ASSUME SaveEnd PROVE BackupInv'
  <2>1. ~drawing
    BY <1>7 DEF SaveEnd, TypeOK
  <2>2. redraw' = redraw \/ redraw' = TRUE
    BY <1>7 DEF SaveEnd
  <2>3. QED
    BY <1>7, <2>1, <2>2 DEF SaveEnd
<1>8. ASSUME ClearStart PROVE BackupInv'
  BY <1>8 DEF ClearStart
<1>9. ASSUME ClearStep PROVE BackupInv'
  BY <1>9 DEF ClearStep
<1>10. ASSUME ClearEnd PROVE BackupInv'
  BY <1>10, RestartAsks DEF ClearEnd
<1>11. ASSUME NEW i \in ConsoleAreas, ConsoleSave(i) PROVE BackupInv'
  <2>1. ram'.props.a = ram.props.a
    BY <1>11, <1>a, <1>b DEF ConsoleSave, Sealed, Image, Kind
  <2>2. QED
    BY <1>11, <2>1 DEF ConsoleSave
<1>12. ASSUME ConsoleClear PROVE BackupInv'
  BY <1>12 DEF ConsoleClear
<1>13. ASSUME NEW i \in Slots, Recall(i) PROVE BackupInv'
  <2>1. drawing' = drawing /\ redraw' = TRUE /\ backup' = backup
    BY <1>13 DEF Recall, Asked
  <2>2. CASE Usable(i)
    <3>1. ram'.props = flash[i]
      BY <1>13, <2>2, <1>a, <1>b DEF Recall
    <3>2. missed' = ((missed \/ drawing) /\ backup.stim # flash[i].a)
      BY <1>13, <2>2 DEF Recall, Missed
    <3>3. QED
      BY <2>1, <3>1, <3>2
  <2>3. CASE ~Usable(i)
    BY <1>13, <2>1, <2>3 DEF Recall
  <2>4. QED
    BY <2>2, <2>3
<1>14. ASSUME NEW i \in Slots, MenuLabel(i) PROVE BackupInv'
  BY <1>14 DEF MenuLabel
<1>15. ASSUME NEW s \in Stimuli, NEW r \in Rests, LoadCal(s, r) PROVE BackupInv'
  BY <1>15 DEF LoadCal, UiFree
<1>16. ASSUME DrawStart PROVE BackupInv'
  <2>1. CASE redraw
    BY <1>16, <2>1 DEF DrawStart, UpdateBackupData
  <2>2. CASE ~redraw
    BY <1>16, <2>2 DEF DrawStart
  <2>3. QED
    BY <2>1, <2>2
<1>17. ASSUME DrawEnd PROVE BackupInv'
  BY <1>17 DEF DrawEnd
<1>18. ASSUME NEW kept \in BOOLEAN, PowerFails(kept) PROVE BackupInv'
  BY <1>18, RestartAsks DEF PowerFails
<1>19. ASSUME NEW kept \in BOOLEAN, NEW i \in ConsoleAreas, NEW n \in Tears, FailsInSave(i, n, kept)
       PROVE BackupInv'
  BY <1>19, RestartAsks DEF FailsInSave
<1>20. ASSUME NEW kept \in BOOLEAN, NEW n \in 1 .. Config, FailsInClear(n, kept) PROVE BackupInv'
  BY <1>20, RestartAsks DEF FailsInClear
<1>21. CASE UNCHANGED vars
  BY <1>21 DEF vars
<1>22. QED
  BY <1>1, <1>2, <1>3, <1>4, <1>5, <1>6, <1>7, <1>8, <1>9, <1>10, <1>11, <1>12, <1>13, <1>14,
     <1>15, <1>16, <1>17, <1>18, <1>19, <1>20, <1>21 DEF Next

(***************************************************************************)
(* REMEMBER STATE keeps its promise: power that fails after the request was *)
(* served returns to the stimulus in use, if the slot the registers name is *)
(* whole (update_backup_data, load_settings), however the console's sweep, *)
(* freq and recall fall between the steps of saves, clears and drawings;   *)
(* only a request dropped at the end of a drawing (plot.c:1924) is excepted. *)
(***************************************************************************)
THEOREM SweepIsRemembered == Spec => SweepSurvives
<1> DEFINE Kept == PowerFails(TRUE) /\ Remembered /\ ~redraw /\ ~missed /\ NamedSlotWhole
                     => ram'.props.a = ram.props.a
<1>1. Init => TypeOK /\ BackupInv
  BY TypeInit DEF Init, BackupInv
<1>2. TypeOK /\ BackupInv /\ [Next]_vars => (TypeOK /\ BackupInv)'
  BY TypeStep, BackupStep
<1>3. TypeOK /\ BackupInv /\ [Next]_vars => [Kept]_vars
  <2> SUFFICES ASSUME TypeOK, BackupInv, PowerFails(TRUE), Remembered, ~redraw, ~missed, NamedSlotWhole
               PROVE  ram'.props.a = ram.props.a
    OBVIOUS
  <2>1. backup.valid /\ backup.stim = ram.props.a
    BY DEF BackupInv
  <2>2. LoadSettings(flash, backup)
    BY DEF PowerFails, Restart
  <2>3. ram'.props = WithStimulus(flash[backup.id], backup)
    BY <2>1, <2>2 DEF LoadSettings, Remembered, NamedSlotWhole
  <2>4. flash[backup.id] \in Images
    BY StorageConstants DEF NamedSlotWhole, TypeOK, Backups, Areas
  <2>5. QED
    BY <2>1, <2>3, <2>4 DEF WithStimulus, Images
<1>4. Spec => [](TypeOK /\ BackupInv)
  BY <1>1, <1>2, PTL DEF Spec
<1>5. QED
  BY <1>3, <1>4, PTL DEF Spec, SweepSurvives

-----------------------------------------------------------------------------
(***************************************************************************)
(* What an undisturbed save of a cached slot has done so far: the checksum in *)
(* RAM is the data's, what it has erased is erased or what it writes, and  *)
(* what it has programmed is what it writes.  Without it nothing says that *)
(* the slot is whole when the save ends.                                   *)
(***************************************************************************)
ProgressInv ==
  job.kind = "save" /\ job.area \in checksum_ok \ spoiled =>
    /\ ram.props = Sealed(ram.props)
    /\ \A p \in Parts :
         /\ EraseStep[p] <= job.step => flash[job.area][p] \in {Erased[p], ram.props[p]}
         /\ WriteStep[p] <= job.step => flash[job.area][p] = ram.props[p]

\* The inductive invariant behind CacheTrue.
CInv == TypeOK /\ CacheTrue /\ ProgressInv

\* A sealed image is whole, and sealing it again changes nothing.
LEMMA ImageParts ==
  ASSUME NEW img \in Images
  PROVE  /\ img.magic = img["magic"] /\ img.a = img["a"] /\ img.b = img["b"] /\ img.sum = img["sum"]
         /\ Sealed(Sealed(img)) = Sealed(img)
         /\ Valid(Sealed(img))
  BY DEF Sealed, Image, Valid, Images

\* A save that runs to its end leaves what it was to write.
LEMMA WrittenWhole ==
  ASSUME NEW old \in Images, NEW new \in Images
  PROVE  Written(old, new, LastStep) = new
  BY DEF Written, Images, Parts, EraseStep, WriteStep, LastStep

\* A slot holds properties, and is not the configuration.
LEMMA SlotKind == \A i \in Slots : Kind(i) = "props" /\ i \in Areas /\ i # Config
  BY StorageConstants DEF Slots, Kind, Config, Areas

\* After a reset only a slot that was just checked is cached, and no save runs.
LEMMA RestartCache ==
  ASSUME TypeOK, NEW fl \in [Areas -> Images], NEW kept \in BOOLEAN, Restart(fl, kept)
  PROVE  CInv'
<1>1. TypeOK' /\ (\A i \in checksum_ok' : Valid(fl[i])) /\ flash' = fl
  BY RestartTyped DEF Restart
<1>2. job'.kind = "none"
  BY DEF Restart, NoJob
<1>3. QED
  BY <1>1, <1>2 DEF CInv, CacheTrue, ProgressInv

(***************************************************************************)
(* Every step keeps the cache true.  The step that takes work is a console *)
(* save of the slot the sweep thread is saving: it writes the same data.   *)
(***************************************************************************)
LEMMA CacheStep == ASSUME CInv, [Next]_vars PROVE CInv'
<1>t. TypeOK /\ TypeOK'
  BY TypeStep DEF CInv
<1>a. DOMAIN ram = Kinds /\ ram.props \in Images /\ "props" \in Kinds /\ "config" \in Kinds
  BY <1>t DEF TypeOK, Kinds
<1>b. checksum_ok \subseteq Slots /\ spoiled \subseteq Slots
  BY <1>t DEF TypeOK
\* A change of the data takes the slot being saved out of the claim
<1>c. ASSUME spoiled' = spoiled \cup Disturbed, flash' = flash, job' = job,
             checksum_ok' \subseteq Slots,
             \A i \in checksum_ok' : i \in checksum_ok \/ Valid(flash[i])
      PROVE  CInv'
  <2>1. ~(job.kind = "save" /\ job.area \in checksum_ok' \ spoiled')
    BY <1>c DEF Disturbed
  <2>2. CacheTrue'
    BY <1>c DEF CInv, CacheTrue
  <2>3. QED
    BY <1>c, <1>t, <2>1, <2>2 DEF CInv, ProgressInv
\* Nothing that the claim is about changes
<1>d. ASSUME spoiled' = spoiled, flash' = flash, job' = job, ram'.props = ram.props,
             checksum_ok' = checksum_ok
      PROVE  CInv'
  <2>1. CacheTrue'
    BY <1>d DEF CInv, CacheTrue
  <2>2. ProgressInv'
    BY <1>d DEF CInv, ProgressInv
  <2>3. QED
    BY <1>t, <2>1, <2>2 DEF CInv
<1>1. ASSUME NEW s \in Stimuli, SetStimulus(s) PROVE CInv'
  BY <1>1, <1>b, <1>c DEF SetStimulus
<1>2. ASSUME NEW r \in Rests, SetRest(r) PROVE CInv'
  BY <1>2, <1>b, <1>c DEF SetRest
<1>3. ASSUME NEW w \in Bandwidths, SetBandwidth(w) PROVE CInv'
  BY <1>3, <1>a, <1>d DEF SetBandwidth
<1>4. ASSUME NEW md \in Modes, SetRemember(md) PROVE CInv'
  BY <1>4, <1>a, <1>d DEF SetRemember
<1>5. ASSUME NEW i \in UiAreas, SaveStart(i) PROVE CInv'
  <2>1. /\ job.kind = "none" /\ job'.kind = "save" /\ job'.area = i /\ job'.step = 0
        /\ flash' = flash /\ checksum_ok' = checksum_ok /\ spoiled' = spoiled \ {i}
    BY <1>5 DEF SaveStart, UiFree
  <2>2. CacheTrue'
    BY <2>1 DEF CInv, CacheTrue
  <2>3. i \in Slots => ram'.props = Sealed(ram.props)
    BY <1>5, <1>a, SlotKind DEF SaveStart
  <2>4. i \in Slots => ram'.props = Sealed(ram'.props)
    BY <2>3, <1>a, ImageParts
  <2>5. ProgressInv'
    BY <1>b, <2>1, <2>4 DEF ProgressInv, Parts, EraseStep, WriteStep
  <2>6. QED
    BY <1>t, <2>2, <2>5 DEF CInv
<1>6. ASSUME SaveStep PROVE CInv'
  <2>1. /\ job.kind = "save" /\ job'.kind = "save" /\ job'.area = job.area
        /\ job'.step = job.step + 1 /\ job.step \in 0 .. 5
        /\ checksum_ok' = checksum_ok /\ spoiled' = spoiled /\ ram' = ram
    BY <1>6, <1>t DEF SaveStep, TypeOK, Jobs, LastStep
  <2>2. /\ job.area \in Areas /\ flash[job.area] \in Images
        /\ \A i \in Areas \ {job.area} : flash'[i] = flash[i]
        /\ flash'[job.area] = FlashStep(flash[job.area], ram[Kind(job.area)], job.step + 1)
    BY <1>6, <1>t, <2>1 DEF SaveStep, TypeOK
  <2>3. CacheTrue'
    BY <1>b, <2>1, <2>2, SlotKind DEF CInv, CacheTrue
  <2>4. ASSUME job.area \in checksum_ok \ spoiled PROVE ProgressInv'
    <3>1. Kind(job.area) = "props"
      BY <1>b, <2>4, SlotKind
    <3>2. /\ ram.props = Sealed(ram.props)
          /\ \A p \in Parts :
               /\ EraseStep[p] <= job.step => flash[job.area][p] \in {Erased[p], ram.props[p]}
               /\ WriteStep[p] <= job.step => flash[job.area][p] = ram.props[p]
      BY <2>1, <2>4 DEF CInv, ProgressInv
    <3>3. ASSUME NEW p \in Parts
          PROVE  /\ EraseStep[p] <= job.step + 1 => flash'[job.area][p] \in {Erased[p], ram.props[p]}
                 /\ WriteStep[p] <= job.step + 1 => flash'[job.area][p] = ram.props[p]
      <4>1. flash'[job.area][p] = IF job.step + 1 = EraseStep[p] THEN Erased[p]
              ELSE IF job.step + 1 = WriteStep[p] /\ flash[job.area][p] = Erased[p]
                   THEN ram.props[p] ELSE flash[job.area][p]
        BY <2>2, <3>1, <3>3 DEF FlashStep
      <4>2. EraseStep[p] \in Nat /\ WriteStep[p] \in Nat /\ EraseStep[p] < WriteStep[p]
        BY <3>3 DEF Parts, EraseStep, WriteStep
      <4>3. QED
        BY <2>1, <3>2, <3>3, <4>1, <4>2
    <3>4. QED
      BY <2>1, <3>2, <3>3 DEF ProgressInv
  <2>5. ASSUME job.area \notin checksum_ok \ spoiled PROVE ProgressInv'
    BY <2>1, <2>5 DEF ProgressInv
  <2>6. QED
    BY <1>t, <2>3, <2>4, <2>5 DEF CInv
<1>7. ASSUME SaveEnd PROVE CInv'
  <2>1. /\ job.kind = "save" /\ job.step = 6 /\ job'.kind = "none"
        /\ flash' = flash /\ checksum_ok' = checksum_ok /\ spoiled' = spoiled
    BY <1>7 DEF SaveEnd, NoJob, LastStep
  <2>2. ASSUME job.area \in checksum_ok \ spoiled PROVE Valid(flash[job.area])
    <3>1. /\ ram.props = Sealed(ram.props)
          /\ \A p \in Parts : WriteStep[p] <= job.step => flash[job.area][p] = ram.props[p]
      BY <2>1, <2>2 DEF CInv, ProgressInv
    <3>2. Valid(ram.props)
      BY <1>a, <3>1, ImageParts
    <3>3. /\ flash[job.area].magic = ram.props.magic /\ flash[job.area].a = ram.props.a
          /\ flash[job.area].b = ram.props.b /\ flash[job.area].sum = ram.props.sum
      BY <2>1, <3>1 DEF Parts, WriteStep
    <3>4. QED
      BY <3>2, <3>3 DEF Valid
  <2>3. CacheTrue'
    BY <2>1, <2>2 DEF CInv, CacheTrue
  <2>4. QED
    BY <1>t, <2>1, <2>3 DEF CInv, ProgressInv
<1>8. ASSUME ClearStart PROVE CInv'
  BY <1>8, <1>t DEF ClearStart, NoCache, CInv, CacheTrue, ProgressInv
<1>9. ASSUME ClearStep PROVE CInv'
  BY <1>9, <1>t DEF ClearStep, CInv, CacheTrue, ProgressInv
<1>10. ASSUME ClearEnd PROVE CInv'
  BY <1>10, <1>t, RestartCache DEF ClearEnd, TypeOK
<1>11. ASSUME NEW i \in ConsoleAreas, ConsoleSave(i) PROVE CInv'
  <2>1. i \in Areas /\ Kind(i) \in Kinds
    BY AreasChosen, KindTyped
  <2>2. /\ job' = job /\ checksum_ok' = checksum_ok /\ spoiled' = spoiled \ ({i} \ Disturbed)
        /\ ram' = [ram EXCEPT ![Kind(i)] = Sealed(ram[Kind(i)])]
        /\ flash' = [flash EXCEPT ![i] = Written(flash[i], Sealed(ram[Kind(i)]), LastStep)]
    BY <1>11 DEF ConsoleSave
  <2>3. flash[i] \in Images /\ ram[Kind(i)] \in Images
    BY <1>t, <2>1 DEF TypeOK
  <2>4. /\ flash'[i] = Sealed(ram[Kind(i)]) /\ Valid(flash'[i])
        /\ \A j \in Areas \ {i} : flash'[j] = flash[j]
    BY <1>t, <2>1, <2>2, <2>3, WrittenWhole, SealedTyped, ImageParts DEF TypeOK
  <2>5. CacheTrue'
    BY <1>b, <2>2, <2>4, SlotKind DEF CInv, CacheTrue
  <2>6. ASSUME job.kind = "save", job.area \in checksum_ok \ spoiled' PROVE ProgressInv'
    <3>1. job.area \in Slots /\ job.area \in checksum_ok \ spoiled
      BY <1>b, <2>2, <2>6 DEF Disturbed
    <3>2. /\ ram.props = Sealed(ram.props)
          /\ \A p \in Parts :
               /\ EraseStep[p] <= job.step => flash[job.area][p] \in {Erased[p], ram.props[p]}
               /\ WriteStep[p] <= job.step => flash[job.area][p] = ram.props[p]
      BY <2>6, <3>1 DEF CInv, ProgressInv
    <3>3. ram'.props = ram.props
      BY <1>a, <2>2, <3>2 DEF Kind
    <3>4. CASE job.area = i
      <4>1. flash'[job.area] = ram.props
        BY <2>4, <3>1, <3>2, <3>4, SlotKind
      <4>2. QED
        BY <2>2, <3>2, <3>3, <4>1 DEF ProgressInv
    <3>5. CASE job.area # i
      <4>1. flash'[job.area] = flash[job.area]
        BY <2>4, <3>1, <3>5, SlotKind
      <4>2. QED
        BY <2>2, <3>2, <3>3, <4>1 DEF ProgressInv
    <3>6. QED
      BY <3>4, <3>5
  <2>7. ASSUME ~(job.kind = "save" /\ job.area \in checksum_ok \ spoiled') PROVE ProgressInv'
    BY <2>2, <2>7 DEF ProgressInv
  <2>8. QED
    BY <1>t, <2>5, <2>6, <2>7 DEF CInv
<1>12. ASSUME ConsoleClear PROVE CInv'
  BY <1>12, <1>t DEF ConsoleClear, NoCache, CInv, CacheTrue, ProgressInv
<1>13. ASSUME NEW i \in Slots, Recall(i) PROVE CInv'
  <2>1. CASE Usable(i)
    BY <1>13, <1>b, <1>c, <2>1 DEF Recall, Usable
  <2>2. CASE ~Usable(i)
    BY <1>13, <1>d, <2>2 DEF Recall
  <2>3. QED
    BY <2>1, <2>2
<1>14. ASSUME NEW i \in Slots, MenuLabel(i) PROVE CInv'
  BY <1>14, <1>t DEF MenuLabel, UiFree, CInv, CacheTrue, ProgressInv
<1>15. ASSUME NEW s \in Stimuli, NEW r \in Rests, LoadCal(s, r) PROVE CInv'
  BY <1>15, <1>t DEF LoadCal, UiFree, CInv, CacheTrue, ProgressInv
<1>16. ASSUME DrawStart PROVE CInv'
  BY <1>16, <1>d DEF DrawStart
<1>17. ASSUME DrawEnd PROVE CInv'
  BY <1>17, <1>d DEF DrawEnd
<1>18. ASSUME NEW kept \in BOOLEAN, PowerFails(kept) PROVE CInv'
  BY <1>18, <1>t, RestartCache DEF PowerFails, TypeOK
<1>19. ASSUME NEW kept \in BOOLEAN, NEW i \in ConsoleAreas, NEW n \in Tears, FailsInSave(i, n, kept)
       PROVE CInv'
  <2>1. i \in Areas /\ Kind(i) \in Kinds /\ n \in Nat
    BY AreasChosen, KindTyped, StorageConstants
  <2>2. [flash EXCEPT ![i] = Written(@, Sealed(ram[Kind(i)]), n)] \in [Areas -> Images]
    BY <1>t, <2>1, SealedTyped, WrittenTyped DEF TypeOK
  <2>3. QED
    BY <1>19, <1>t, <2>2, RestartCache DEF FailsInSave
<1>20. ASSUME NEW kept \in BOOLEAN, NEW n \in 1 .. Config, FailsInClear(n, kept) PROVE CInv'
  BY <1>20, <1>t, RestartCache, ClearedTyped DEF FailsInClear, TypeOK
<1>21. CASE UNCHANGED vars
  BY <1>21, <1>d DEF vars
<1>22. QED
  BY <1>1, <1>2, <1>3, <1>4, <1>5, <1>6, <1>7, <1>8, <1>9, <1>10, <1>11, <1>12, <1>13, <1>14,
     <1>15, <1>16, <1>17, <1>18, <1>19, <1>20, <1>21 DEF Next, CInv

(***************************************************************************)
(* A slot that checksum_ok names is whole unless it is being written or was *)
(* disturbed, so that get_properties may skip the checksum although no save *)
(* clears the cache (data_storage.c:90).                                   *)
(***************************************************************************)
THEOREM CacheIsTrue == Spec => []CacheTrue
<1>1. Init => CInv
  <2> SUFFICES ASSUME Init PROVE CInv
    OBVIOUS
  <2>1. job.kind = "none" /\ checksum_ok = {}
    BY DEF Init, NoJob
  <2>2. QED
    BY <2>1, TypeInit DEF CInv, CacheTrue, ProgressInv
<1>2. CInv /\ [Next]_vars => CInv'
  BY CacheStep
<1>3. CInv => CacheTrue
  BY DEF CInv
<1>4. QED
  BY <1>1, <1>2, <1>3, PTL DEF Spec

-----------------------------------------------------------------------------
(***************************************************************************)
(* A save in progress, once it has erased its area, finds no checksum there, *)
(* or a whole image (a console save came between) in which it could only   *)
(* fill in what that image itself has erased: then part and checksum differ. *)
(***************************************************************************)
Agree(x, s) == x = s \/ (x # "erased" /\ s = "erased")

\* The strengthening the refinement needs: steps 3 to 6 cannot complete an image
\* that is not the one being saved.
RInv ==
  job.kind = "save" /\ job.step \in 2 .. 5 =>
    LET im == flash[job.area]
    IN \/ im.sum = <<"erased">>
       \/ /\ im.magic = "magic"
          /\ \E s \in First, t \in Second :
               im.sum = <<s, t>> /\ Agree(im.a, s) /\ Agree(im.b, t)

\* An area without magic word or checksum is not recalled.
LEMMA ErasedInvalid ==
  ASSUME NEW img, img.magic = "erased" \/ img.sum = <<"erased">>
  PROVE  ~Valid(img)
  BY DEF Valid

\* Images with the same parts are the same.
LEMMA SameParts ==
  ASSUME NEW x \in Images, NEW y \in Images,
         x.magic = y.magic, x.a = y.a, x.b = y.b, x.sum = y.sum
  PROVE  x = y
  BY DEF Images

(***************************************************************************)
(* One step of a save leaves its area as it was, or not recallable, or with *)
(* the checksum of what is being saved, whatever the console thread wrote  *)
(* there since the last step (flash_program_half_word_buffer).             *)
(***************************************************************************)
LEMMA StepOutcome ==
  ASSUME TypeOK, RInv, SaveStep
  PROVE  /\ \/ flash'[job.area] = flash[job.area]
            \/ ~Valid(flash'[job.area])
            \/ flash'[job.area].sum = ram[Kind(job.area)].sum
         /\ RInv'
<1> DEFINE im == flash[job.area]
           new == ram[Kind(job.area)]
           after == FlashStep(im, new, job.step + 1)
<1>1. /\ job.kind = "save" /\ job'.kind = "save" /\ job'.area = job.area
      /\ job'.step = job.step + 1 /\ job.step \in 0 .. 5
  BY DEF SaveStep, TypeOK, Jobs, LastStep
<1>2. im \in Images /\ new \in Images /\ flash'[job.area] = after
  BY <1>1, KindTyped DEF SaveStep, TypeOK
<1>3. after = [p \in Parts |-> IF job.step + 1 = EraseStep[p] THEN Erased[p]
                 ELSE IF job.step + 1 = WriteStep[p] /\ im[p] = Erased[p]
                      THEN new[p] ELSE im[p]]
  BY DEF FlashStep
<1>4. /\ after.magic = IF job.step = 0 THEN "erased"
                        ELSE IF job.step = 2 /\ im.magic = "erased" THEN new.magic ELSE im.magic
      /\ after.a = IF job.step = 0 THEN "erased"
                    ELSE IF job.step = 3 /\ im.a = "erased" THEN new.a ELSE im.a
      /\ after.b = IF job.step = 1 THEN "erased"
                    ELSE IF job.step = 4 /\ im.b = "erased" THEN new.b ELSE im.b
      /\ after.sum = IF job.step = 1 THEN <<"erased">>
                      ELSE IF job.step = 5 /\ im.sum = <<"erased">> THEN new.sum ELSE im.sum
  BY <1>1, <1>3 DEF Parts, EraseStep, WriteStep, Erased
<1>5. after.magic = im.magic /\ after.a = im.a /\ after.b = im.b /\ after.sum = im.sum
        => after = im
  <2>1. job.step + 1 \in Nat
    BY <1>1
  <2>2. after \in Images
    BY <1>2, <2>1, StepTyped
  <2>3. QED
    BY <1>2, <2>2, SameParts
<1>6. RInv <=> (job.step \in 2 .. 5 =>
                  \/ im.sum = <<"erased">>
                  \/ /\ im.magic = "magic"
                     /\ \E s \in First, t \in Second :
                          im.sum = <<s, t>> /\ Agree(im.a, s) /\ Agree(im.b, t))
  BY <1>1 DEF RInv
<1>7. RInv' <=> (job.step + 1 \in 2 .. 5 =>
                  \/ after.sum = <<"erased">>
                  \/ /\ after.magic = "magic"
                     /\ \E s \in First, t \in Second :
                          after.sum = <<s, t>> /\ Agree(after.a, s) /\ Agree(after.b, t))
  BY <1>1, <1>2 DEF RInv
<1> HIDE DEF im, new, after
<1> SUFFICES /\ after = im \/ ~Valid(after) \/ after.sum = new.sum
             /\ RInv'
  BY <1>2 DEF im, new
<1>8. CASE job.step = 0
  BY <1>4, <1>7, <1>8, ErasedInvalid
<1>9. CASE job.step = 1
  BY <1>4, <1>7, <1>9, ErasedInvalid
<1>10. CASE job.step \in 2 .. 4 /\ im.sum = <<"erased">>
  <2>1. after.sum = <<"erased">>
    BY <1>4, <1>10
  <2>2. QED
    BY <1>7, <2>1, ErasedInvalid
<1>11. CASE job.step \in 2 .. 5 /\ im.sum # <<"erased">>
  <2>1. PICK s \in First, t \in Second : im.sum = <<s, t>> /\ Agree(im.a, s) /\ Agree(im.b, t)
    BY <1>6, <1>11
  <2>2. im.magic = "magic" /\ after.magic = "magic" /\ after.sum = <<s, t>>
    BY <1>4, <1>6, <1>11, <2>1
  <2>3. Agree(after.a, s) /\ (after.a = im.a \/ after.a # s)
    BY <1>4, <1>11, <2>1 DEF Agree
  <2>4. Agree(after.b, t) /\ (after.b = im.b \/ after.b # t)
    BY <1>4, <1>11, <2>1 DEF Agree
  <2>5. RInv'
    BY <1>7, <2>2, <2>3, <2>4
  <2>6. after.a # s \/ after.b # t => ~Valid(after)
    BY <2>2 DEF Valid
  <2>7. QED
    BY <1>5, <2>1, <2>2, <2>3, <2>4, <2>5, <2>6
<1>12. CASE job.step = 5 /\ im.sum = <<"erased">>
  BY <1>4, <1>7, <1>12
<1>13. QED
  BY <1>1, <1>8, <1>9, <1>10, <1>11, <1>12

\* What a power-up finds in an area.
Whole(fl, i) == IF Valid(fl[i]) THEN fl[i].sum ELSE <<"none">>

\* The checksums in RAM are contents of the store.
LEMMA SumsTyped ==
  ASSUME NEW r \in [Kinds -> Images]
  PROVE  [k \in Kinds |-> r[k].sum] \in [Kinds -> Sums]
<1>1. ASSUME NEW k \in Kinds PROVE r[k].sum \in Sums
  BY <1>1 DEF Images
<1>2. QED
  BY <1>1

\* What a power-up finds is a content of the store, or none.
LEMMA WholeTyped ==
  ASSUME NEW fl \in [Areas -> Images]
  PROVE  [i \in Areas |-> Whole(fl, i)] \in [Areas -> Sums \cup {<<"none">>}]
<1>1. ASSUME NEW i \in Areas PROVE Whole(fl, i) \in Sums \cup {<<"none">>}
  BY <1>1 DEF Images, Whole
<1>2. QED
  BY <1>1

\* A reset is a failure of the store if it finds each area as it was or, within
\* what was being written, not recallable.
LEMMA RestartFails ==
  ASSUME TypeOK, TypeOK', NEW fl \in [Areas -> Images], NEW kept, Restart(fl, kept),
         NEW Q, \A i \in Areas : fl[i] = flash[i] \/ (i \in Q /\ ~Valid(fl[i]))
  PROVE  Store!Fail(Q)
<1>1. job'.kind = "none" /\ flash' = fl
  BY DEF Restart, NoJob
<1>2. [k \in Kinds |-> ram'[k].sum] \in [Kinds -> Sums]
  BY SumsTyped DEF TypeOK
<1>3. [i \in Areas |-> Whole(flash', i)] \in [Areas -> Sums \cup {<<"none">>}]
  BY <1>1, WholeTyped
<1>4. QED
  BY <1>1, <1>2, <1>3 DEF Store!Fail, Store!Sealings, Whole

\* What touches neither flash nor the save keeps the strengthening.
LEMMA RInvKept ==
  ASSUME RInv, job' = job, flash' = flash
  PROVE  RInv'
  BY DEF RInv

\* It says nothing where no save runs, or a save has not started to erase.
LEMMA RInvIdle ==
  ASSUME job'.kind # "save" \/ job'.step = 0
  PROVE  RInv'
  BY DEF RInv

\* An erased flash is an empty store.
LEMMA RefinementInit == Init => Store!Init
<1> SUFFICES ASSUME Init PROVE Store!Init
  OBVIOUS
<1>1. [k \in Kinds |-> ram[k].sum] \in [Kinds -> Sums]
  BY TypeInit, SumsTyped DEF TypeOK
<1>2. \A i \in Areas : ~Valid(flash[i])
  BY DEF Init, Valid, Erased
<1>3. job.kind = "none"
  BY DEF Init, NoJob
<1>4. QED
  BY <1>1, <1>2, <1>3 DEF Store!Init, Store!Sealings

(***************************************************************************)
(* Every step maps to a step of the store: a save by the sweep thread to   *)
(* Begin, Lose, Commit and End, a save or a clear by the console thread to *)
(* one step, a power failure to Fail of what was being written.            *)
(***************************************************************************)
LEMMA RefinementStep ==
  ASSUME TypeOK, RInv, [Next]_vars
  PROVE  RInv' /\ [Store!Next]_(Store!vars)
<1>t. TypeOK /\ TypeOK'
  BY TypeStep
<1>s. [k \in Kinds |-> ram'[k].sum] \in [Kinds -> Sums]
  BY <1>t, SumsTyped DEF TypeOK
<1>p. ASSUME flash' = flash, job' = job PROVE RInv' /\ [Store!Next]_(Store!vars)
  <2>1. Store!Prepare
    BY <1>p, <1>s DEF Store!Prepare, Store!Sealings
  <2>2. QED
    BY <1>p, <2>1, RInvKept DEF Store!Next
<1>f. ASSUME NEW Q \in {{p} : p \in Areas} \cup {0 .. p : p \in Areas}, Store!Fail(Q)
      PROVE  Store!Next
  BY <1>f DEF Store!Next
<1>r. ASSUME NEW fl, NEW kept, Restart(fl, kept) PROVE RInv'
  BY <1>r, RInvIdle DEF Restart, NoJob
<1>1. ASSUME NEW s \in Stimuli, SetStimulus(s) PROVE RInv' /\ [Store!Next]_(Store!vars)
  BY <1>1, <1>p DEF SetStimulus
<1>2. ASSUME NEW r \in Rests, SetRest(r) PROVE RInv' /\ [Store!Next]_(Store!vars)
  BY <1>2, <1>p DEF SetRest
<1>3. ASSUME NEW w \in Bandwidths, SetBandwidth(w) PROVE RInv' /\ [Store!Next]_(Store!vars)
  BY <1>3, <1>p DEF SetBandwidth
<1>4. ASSUME NEW md \in Modes, SetRemember(md) PROVE RInv' /\ [Store!Next]_(Store!vars)
  BY <1>4, <1>p DEF SetRemember
<1>5. ASSUME NEW i \in UiAreas, SaveStart(i) PROVE RInv' /\ [Store!Next]_(Store!vars)
  <2>1. /\ job.kind = "none" /\ job'.kind = "save" /\ job'.area = i /\ job'.step = 0
        /\ flash' = flash /\ i \in Areas
    BY <1>5, AreasChosen DEF SaveStart, UiFree
  <2>2. Store!Begin({i})
    BY <1>s, <2>1 DEF Store!Begin, Store!Sealings
  <2>3. QED
    BY <2>1, <2>2, RInvIdle DEF Store!Next
<1>6. ASSUME SaveStep PROVE RInv' /\ [Store!Next]_(Store!vars)
  <2>1. /\ job.kind = "save" /\ job'.kind = "save" /\ job'.area = job.area /\ ram' = ram
        /\ job.area \in Areas /\ Kind(job.area) \in Kinds
        /\ \A i \in Areas \ {job.area} : flash'[i] = flash[i]
    BY <1>6, <1>t, KindTyped DEF SaveStep, TypeOK, Jobs
  <2>2. RInv'
    BY <1>6, StepOutcome
  <2>p. PICK p \in Areas : p = job.area
    BY <2>1
  <2>3. CASE flash'[job.area] = flash[job.area]
    <3>1. \A i \in Areas : flash'[i] = flash[i]
      BY <2>1, <2>3
    <3>2. UNCHANGED Store!vars
      BY <2>1, <3>1 DEF Store!vars
    <3>3. QED
      BY <2>2, <3>2
  <2>4. CASE ~Valid(flash'[job.area])
    <3>1. Store!Lose(p)
      BY <2>1, <2>4, <2>p DEF Store!Lose
    <3>2. QED
      BY <2>2, <2>p, <3>1 DEF Store!Next
  <2>5. CASE Valid(flash'[job.area]) /\ flash'[job.area].sum = ram[Kind(job.area)].sum
    <3>1. Store!Commit(p)
      BY <2>1, <2>5, <2>p DEF Store!Commit
    <3>2. QED
      BY <2>2, <2>p, <3>1 DEF Store!Next
  <2>6. QED
    BY <1>6, <2>3, <2>4, <2>5, StepOutcome
<1>7. ASSUME SaveEnd PROVE RInv' /\ [Store!Next]_(Store!vars)
  <2>1. job'.kind = "none" /\ flash' = flash /\ ram' = ram
    BY <1>7 DEF SaveEnd, NoJob
  <2>2. Store!End
    BY <2>1 DEF Store!End
  <2>3. QED
    BY <2>1, <2>2, RInvIdle DEF Store!Next
<1>8. ASSUME ClearStart PROVE RInv' /\ [Store!Next]_(Store!vars)
  <2>1. job.kind = "none" /\ job'.kind = "clear" /\ flash' = flash /\ ram' = ram
    BY <1>8 DEF ClearStart, NoJob, UiFree
  <2>2. Store!Begin(Areas)
    BY <1>s, <2>1 DEF Store!Begin, Store!Sealings
  <2>3. QED
    BY <2>1, <2>2, RInvIdle DEF Store!Next
<1>9. ASSUME ClearStep PROVE RInv' /\ [Store!Next]_(Store!vars)
  <2>1. /\ job.kind = "clear" /\ job'.kind = "clear" /\ ram' = ram /\ job.area \in Areas
        /\ flash' = [flash EXCEPT ![job.area] = Erased]
    BY <1>9, <1>t DEF ClearStep, LastCleared, TypeOK, Jobs, Areas, Config
  <2>2. ~Valid(flash'[job.area]) /\ \A i \in Areas \ {job.area} : flash'[i] = flash[i]
    BY <1>t, <2>1 DEF TypeOK, Valid, Erased
  <2>3. PICK p \in Areas : p = job.area
    BY <2>1
  <2>4. Store!Lose(p)
    <3>1. \A i \in Areas : Whole(flash', i) = IF i = p THEN <<"none">> ELSE Whole(flash, i)
      BY <2>2, <2>3 DEF Whole
    <3>2. job.kind = "clear" /\ job'.kind = "clear" /\ ram' = ram
      BY <2>1
    <3>3. QED
      BY <2>3, <3>1, <3>2 DEF Store!Lose, Whole
  <2>5. QED
    BY <2>1, <2>3, <2>4, RInvIdle DEF Store!Next
<1>10. ASSUME ClearEnd PROVE RInv' /\ [Store!Next]_(Store!vars)
  <2>1. Restart(flash, TRUE)
    BY <1>10 DEF ClearEnd
  <2>2. flash \in [Areas -> Images] /\ 0 \in Areas
    BY <1>t, StorageConstants DEF TypeOK, Areas
  <2>3. Store!Fail({0})
    BY <1>t, <2>1, <2>2, RestartFails
  <2>4. QED
    BY <1>f, <1>r, <2>1, <2>2, <2>3
<1>11. ASSUME NEW i \in ConsoleAreas, ConsoleSave(i) PROVE RInv' /\ [Store!Next]_(Store!vars)
  <2> DEFINE img == Sealed(ram[Kind(i)])
  <2>1. i \in Areas /\ Kind(i) \in Kinds
    BY AreasChosen, KindTyped
  <2>2. /\ job' = job
        /\ ram' = [ram EXCEPT ![Kind(i)] = img]
        /\ flash' = [flash EXCEPT ![i] = Written(flash[i], img, LastStep)]
    BY <1>11 DEF ConsoleSave
  <2>3. flash[i] \in Images /\ ram[Kind(i)] \in Images /\ img \in Images
    BY <1>t, <2>1, SealedTyped DEF TypeOK
  <2>4. /\ flash'[i] = img /\ Valid(img)
        /\ \A j \in Areas \ {i} : flash'[j] = flash[j]
    BY <1>t, <2>1, <2>2, <2>3, WrittenWhole, ImageParts DEF TypeOK
  <2>5. /\ img.magic = "magic" /\ img.sum = <<img.a, img.b>>
        /\ img.a \in First /\ img.b \in Second /\ img.sum \in Sums
    BY <2>3, <2>4 DEF Valid, Images
  <2>6. /\ ram'[Kind(i)] = img
        /\ \A k \in Kinds \ {Kind(i)} : ram'[k] = ram[k]
    BY <1>t, <2>1, <2>2 DEF TypeOK
  <2> HIDE DEF img
  <2>7. RInv'
    <3>1. CASE job.kind = "save" /\ job.area = i
      BY <2>2, <2>4, <2>5, <3>1 DEF RInv, Agree
    <3>2. CASE job.kind = "save" /\ job.area # i
      <4>1. flash'[job.area] = flash[job.area]
        BY <1>t, <2>4, <3>2 DEF TypeOK
      <4>2. QED
        BY <2>2, <4>1 DEF RInv
    <3>3. CASE job.kind # "save"
      BY <2>2, <3>3, RInvIdle
    <3>4. QED
      BY <3>1, <3>2, <3>3
  <2>c. PICK c \in Sums : c = img.sum
    BY <2>5
  <2>8. Store!SaveAtOnce(i, c)
    <3>1. [k \in Kinds |-> ram'[k].sum] = [[k \in Kinds |-> ram[k].sum] EXCEPT ![Kind(i)] = c]
      BY <2>1, <2>6, <2>c
    <3>2. [j \in Areas |-> Whole(flash', j)] = [[j \in Areas |-> Whole(flash, j)] EXCEPT ![i] = c]
      BY <2>1, <2>4, <2>c DEF Whole
    <3>3. QED
      BY <2>2, <3>1, <3>2 DEF Store!SaveAtOnce, Whole
  <2>9. QED
    BY <2>1, <2>7, <2>8, <2>c DEF Store!Next
<1>12. ASSUME ConsoleClear PROVE RInv' /\ [Store!Next]_(Store!vars)
  <2>1. job' = job /\ ram' = ram /\ \A i \in Areas : flash'[i] = Erased
    BY <1>12, StorageConstants DEF ConsoleClear, Cleared, Areas, Config
  <2>2. \A i \in Areas : ~Valid(flash'[i])
    BY <2>1 DEF Valid, Erased
  <2>3. RInv'
    BY <1>t, <2>1 DEF RInv, Erased, TypeOK
  <2>4. Store!ClearAtOnce
    BY <2>1, <2>2 DEF Store!ClearAtOnce
  <2>5. QED
    BY <2>3, <2>4 DEF Store!Next
<1>13. ASSUME NEW i \in Slots, Recall(i) PROVE RInv' /\ [Store!Next]_(Store!vars)
  BY <1>13, <1>p DEF Recall
<1>14. ASSUME NEW i \in Slots, MenuLabel(i) PROVE RInv' /\ [Store!Next]_(Store!vars)
  BY <1>14, <1>p DEF MenuLabel
<1>15. ASSUME NEW s \in Stimuli, NEW r \in Rests, LoadCal(s, r)
       PROVE RInv' /\ [Store!Next]_(Store!vars)
  BY <1>15, <1>p DEF LoadCal
<1>16. ASSUME DrawStart PROVE RInv' /\ [Store!Next]_(Store!vars)
  BY <1>16, <1>p DEF DrawStart
<1>17. ASSUME DrawEnd PROVE RInv' /\ [Store!Next]_(Store!vars)
  BY <1>17, <1>p DEF DrawEnd
<1>18. ASSUME NEW kept \in BOOLEAN, PowerFails(kept) PROVE RInv' /\ [Store!Next]_(Store!vars)
  <2>1. Restart(flash, kept) /\ flash \in [Areas -> Images] /\ 0 \in Areas
    BY <1>18, <1>t, StorageConstants DEF PowerFails, TypeOK, Areas
  <2>2. Store!Fail({0})
    BY <1>t, <2>1, RestartFails
  <2>3. QED
    BY <1>f, <1>r, <2>1, <2>2
<1>19. ASSUME NEW kept \in BOOLEAN, NEW i \in ConsoleAreas, NEW n \in Tears, FailsInSave(i, n, kept)
       PROVE RInv' /\ [Store!Next]_(Store!vars)
  <2> DEFINE img == Sealed(ram[Kind(i)])
             fl == [flash EXCEPT ![i] = Written(flash[i], img, n)]
  <2>1. i \in Areas /\ Kind(i) \in Kinds /\ n \in 1 .. 5
    BY AreasChosen, KindTyped, StorageConstants
  <2>2. flash[i] \in Images /\ img \in Images
    BY <1>t, <2>1, SealedTyped DEF TypeOK
  <2>3. fl \in [Areas -> Images]
    BY <1>t, <2>1, <2>2, WrittenTyped DEF TypeOK
  <2>4. Restart(fl, kept)
    BY <1>19 DEF FailsInSave
  <2>5. Written(flash[i], img, n).magic = "erased" \/ Written(flash[i], img, n).sum = <<"erased">>
    BY <2>1, <2>2 DEF Written, Parts, EraseStep, WriteStep, Erased
  <2>6. fl[i] = Written(flash[i], img, n) /\ \A j \in Areas \ {i} : fl[j] = flash[j]
    BY <1>t, <2>1 DEF TypeOK
  <2>7. ~Valid(fl[i])
    BY <2>5, <2>6, ErasedInvalid
  <2> HIDE DEF fl, img
  <2>8. Store!Fail({i})
    BY <1>t, <2>3, <2>4, <2>6, <2>7, RestartFails
  <2>9. QED
    BY <1>f, <1>r, <2>1, <2>4, <2>8
<1>20. ASSUME NEW kept \in BOOLEAN, NEW n \in 1 .. Config, FailsInClear(n, kept)
       PROVE RInv' /\ [Store!Next]_(Store!vars)
  <2>1. Restart(Cleared(flash, n), kept) /\ n \in Int /\ n - 1 \in Areas
    BY <1>20, StorageConstants DEF FailsInClear, Config, Areas
  <2>2. Cleared(flash, n) \in [Areas -> Images]
    BY <1>t, <2>1, ClearedTyped DEF TypeOK
  <2>3. \A i \in Areas : \/ Cleared(flash, n)[i] = flash[i]
                         \/ i \in 0 .. n - 1 /\ ~Valid(Cleared(flash, n)[i])
    BY <2>1, StorageConstants DEF Cleared, Areas, Erased, Valid
  <2>4. Store!Fail(0 .. n - 1)
    BY <1>t, <2>1, <2>2, <2>3, RestartFails
  <2>5. QED
    BY <1>f, <1>r, <2>1, <2>4
<1>21. CASE UNCHANGED vars
  BY <1>21, <1>p DEF vars
<1>22. QED
  BY <1>1, <1>2, <1>3, <1>4, <1>5, <1>6, <1>7, <1>8, <1>9, <1>10, <1>11, <1>12, <1>13, <1>14,
     <1>15, <1>16, <1>17, <1>18, <1>19, <1>20, <1>21 DEF Next

(***************************************************************************)
(* The flash storage implements SlotStore: power may fail at any step and the *)
(* console thread may come between any two, and a recall still finds whole *)
(* contents only, that were sealed for that kind of area, and loses none   *)
(* that was not being written.                                             *)
(***************************************************************************)
THEOREM FlashIsAStore == Spec => ImplementsStore
<1>1. Init => TypeOK /\ RInv /\ Store!Init
  <2>1. Init => RInv
    BY DEF Init, NoJob, RInv
  <2>2. QED
    BY <2>1, TypeInit, RefinementInit
<1>2. TypeOK /\ RInv /\ [Next]_vars => TypeOK' /\ RInv' /\ [Store!Next]_(Store!vars)
  BY TypeStep, RefinementStep
<1>3. QED
  BY <1>1, <1>2, PTL DEF Spec, ImplementsStore, Store!Spec
=============================================================================
