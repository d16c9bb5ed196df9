-------------------------- MODULE ReferenceProofs --------------------------
(***************************************************************************)
(* Proofs about Reference: for every set of grids, processing settings,    *)
(* slots and panels, and whatever the user presses between two sweeps,     *)
(* what a reference block says about itself is what was stored in it, and  *)
(* the panels compare like with like.                                      *)
(***************************************************************************)
EXTENDS Reference, TLAPS

\* What a stored curve is worth: the grid, the processing and the
\* calibration it was taken with.
Worths == Grids \X Procs \X (Slots \cup {"new"})

\* wref_hdr_fill writes a header of the settings in force.
LEMMA HdrTyped ==
  ASSUME NEW c \in Settings
  PROVE  HdrFill(c) \in Headers /\ Worth(c) \in Worths
  BY DEF Settings, Headers, HdrFill, Worth, Worths

\* The record of what a block was taken from is a worth, or empty.
LEMMA OfTyped ==
  ASSUME NEW c \in Settings, NEW data
  PROVE  Of(c, data) \in Worths \cup {<<>>}
  BY HdrTyped DEF Of

\* A block filled by a store is a block of its kind.
LEMMA BlockTyped ==
  ASSUME cur \in Settings, NEW kinds, NEW kind \in kinds, NEW flag \in BOOLEAN,
         NEW of \in Worths \cup {<<>>}
  PROVE  Block(kind, flag, of) \in Blocks(kinds)
<1>1. HdrFill(cur) \in Headers
  BY HdrTyped
<1>2. QED
  BY <1>1 DEF Block, Blocks, Worths

\* So is the block that was cleared.
LEMMA NoBlockTyped ==
  ASSUME NEW kinds, "none" \in kinds
  PROVE  NoBlock \in Blocks(kinds)
  BY DEF NoBlock, Blocks

\* The parts of a block, and the two updates made to it in place.
LEMMA Fields ==
  ASSUME NEW kinds, NEW b \in Blocks(kinds)
  PROVE  /\ b.kind \in kinds /\ b.flag \in BOOLEAN /\ b.fix \in {"this", "older"}
         /\ b.hdr \in Headers \cup {NoBlock.hdr}
         /\ b.of \in Worths \cup {<<>>}
         /\ [b EXCEPT !.fix = "older"] \in Blocks(kinds)
         /\ [b EXCEPT !.of = <<>>] \in Blocks(kinds)
  BY DEF Blocks, Worths

\* The kinds of reference and fixture
RefKinds == {"none", "gamma", "z"}
FixKinds == {"none", "s21"}

\* wref_store_consume leaves a block of the two kinds of reference.
LEMMA StoredTyped ==
  ASSUME TypeOK, NEW b \in Blocks(RefKinds), NEW f, NEW data
  PROVE  RefStored(b, f, data) \in Blocks(RefKinds)
<1>1. Of(cur, data) \in Worths \cup {<<>>}
  BY OfTyped DEF TypeOK
<1>2. /\ Block("gamma", FALSE, Of(cur, data)) \in Blocks(RefKinds)
      /\ Block("z", TRUE, Of(cur, data)) \in Blocks(RefKinds)
  BY <1>1, BlockTyped DEF TypeOK, RefKinds
<1>3. QED
  BY <1>2 DEF RefStored, FlagCleared

\* The fixture store leaves a block of the fixture.
LEMMA FixTyped ==
  ASSUME TypeOK, NEW b \in Blocks(FixKinds)
  PROVE  FixStored(b) \in Blocks(FixKinds)
<1>1. Block("s21", FALSE, <<>>) \in Blocks(FixKinds)
  BY BlockTyped DEF TypeOK, FixKinds
<1>2. QED
  BY <1>1 DEF FixStored

\* A new fixture under a stored impedance reference leaves a block.
LEMMA RefixedTyped ==
  ASSUME NEW b \in Blocks(RefKinds)
  PROVE  Refixed(b) \in Blocks(RefKinds)
  BY Fields DEF Refixed

\* What a change of the settings keeps.
LEMMA ChangedTyped ==
  ASSUME TypeOK, NEW c \in Settings, Changed(c), p_sweep' \in Point, wref' = wref
  PROVE  TypeOK'
<1>1. measured' \in [Point -> {"old", "raw", "done"}]
  BY DEF Changed, TypeOK
<1>2. presses' \in 0 .. PressMax
  BY ReferenceConstants DEF Changed, Press, TypeOK
<1>3. QED
  BY <1>1, <1>2 DEF Changed, Press, TypeOK

\* The initial states are typed.
LEMMA TypeInit == Init => TypeOK
<1> SUFFICES ASSUME Init PROVE TypeOK
  OBVIOUS
<1>1. cur \in Settings
  BY DEF Init, Settings, Panels
<1>2. wref \in Blocks(RefKinds) /\ wfix \in Blocks(FixKinds)
  BY NoBlockTyped DEF Init, RefKinds, FixKinds
<1>3. 0 \in Point /\ 0 \in 0 .. PressMax
  BY ReferenceConstants DEF Point
<1>4. pend \in [ref : {"no", "gamma", "z"}, fix : BOOLEAN]
  BY DEF Init, NoRequest
<1>5. QED
  BY <1>1, <1>2, <1>3, <1>4 DEF Init, TypeOK, RefKinds, FixKinds

\* Every sweep, redraw and key press keeps the types.
LEMMA TypeStep == ASSUME TypeOK, [Next]_vars PROVE TypeOK'
<1>z. 0 \in Point /\ 0 \in 0 .. PressMax
  BY ReferenceConstants DEF Point
<1>p. ASSUME Press PROVE presses' \in 0 .. PressMax
  BY <1>p, ReferenceConstants DEF Press, TypeOK
<1>n. "none" \in RefKinds /\ "none" \in FixKinds /\ wref \in Blocks(RefKinds)
      /\ wfix \in Blocks(FixKinds)
  BY DEF RefKinds, FixKinds, TypeOK
<1>1. ASSUME NoSweep PROVE TypeOK'
  BY <1>1 DEF NoSweep, TypeOK
<1>2. ASSUME Sweep PROVE TypeOK'
  <2>1. PICK to \in p_sweep .. N :
          /\ p_sweep' = GoesOn(to) /\ completed' = (to = N)
          /\ measured' = [i \in Point |-> IF i \in p_sweep .. to THEN "raw" ELSE measured[i]]
    BY <1>2 DEF Sweep
  <2>2. to \in Nat /\ to <= N /\ N \in Nat /\ N > 0
    BY ReferenceConstants DEF TypeOK, Point
  <2>3. p_sweep' \in Point
    <3>1. to % N \in 0 .. N - 1
      BY <2>2
    <3>2. QED
      BY <2>1, <3>1 DEF Point, GoesOn
  <2>4. measured' \in [Point -> {"old", "raw", "done"}]
    BY <2>1 DEF TypeOK
  <2>5. completed' \in BOOLEAN
    BY <2>1
  <2>6. QED
    BY <1>2, <2>3, <2>4, <2>5 DEF Sweep, TypeOK
<1>3. ASSUME Turn PROVE measured' \in [Point -> {"old", "raw", "done"}]
  BY <1>3 DEF Turn, Processed, TypeOK
<1>4. ASSUME Draw PROVE TypeOK'
  <2>1. wfix' \in Blocks(FixKinds)
    BY <1>4, <1>n, FixTyped DEF Draw, FixFirst
  <2>2. wref' \in Blocks(RefKinds)
    BY <1>4, <1>n, RefixedTyped, StoredTyped DEF Draw, FixFirst
  <2>3. repeat' \in {"none", "this", "older"}
    BY <1>4 DEF Draw, ResetReading, TypeOK
  <2>4. pend' \in [ref : {"no", "gamma", "z"}, fix : BOOLEAN] /\ fill_z' \in BOOLEAN
    BY <1>4 DEF Draw, NoRequest
  <2>5. QED
    BY <1>3, <1>4, <1>z, <2>1, <2>2, <2>3, <2>4 DEF Draw, Turn, TypeOK, RefKinds, FixKinds
<1>5. ASSUME DrawNothing PROVE TypeOK'
  BY <1>3, <1>5, <1>z DEF DrawNothing, Turn, TypeOK
<1>6. ASSUME Keypad PROVE TypeOK'
  BY <1>6, <1>p DEF Keypad, Press, TypeOK
<1>7. ASSUME StoreRef PROVE TypeOK'
  <2>1. pend' \in [ref : {"no", "gamma", "z"}, fix : BOOLEAN]
    BY <1>7 DEF StoreRef, TypeOK
  <2>2. QED
    BY <1>7, <1>p, <2>1 DEF StoreRef, Press, TypeOK
<1>8. ASSUME StoreFixture PROVE TypeOK'
  <2>1. pend' \in [ref : {"no", "gamma", "z"}, fix : BOOLEAN]
    BY <1>8 DEF StoreFixture, TypeOK
  <2>2. QED
    BY <1>8, <1>p, <2>1 DEF StoreFixture, Press, TypeOK
<1>9. ASSUME ClearRef PROVE TypeOK'
  <2>1. wref' \in Blocks(RefKinds)
    BY <1>9, <1>n, NoBlockTyped DEF ClearRef
  <2>2. QED
    BY <1>9, <1>p, <2>1 DEF ClearRef, ResetReading, Press, TypeOK, RefKinds
<1>10. ASSUME ClearFixture PROVE TypeOK'
  <2>1. wfix' \in Blocks(FixKinds)
    BY <1>10, <1>n, NoBlockTyped DEF ClearFixture
  <2>2. QED
    BY <1>10, <1>p, <2>1 DEF ClearFixture, Press, TypeOK, FixKinds
<1>11. ASSUME RepeatCheck PROVE TypeOK'
  BY <1>11, <1>p DEF RepeatCheck, Press, TypeOK
<1>12. ASSUME SetGrid PROVE TypeOK'
  <2>1. PICK g \in Grids : Changed([cur EXCEPT !.grid = g, !.file = FALSE])
                           /\ p_sweep' = 0 /\ wref' = wref
    BY <1>12 DEF SetGrid
  <2> DEFINE c == [cur EXCEPT !.grid = g, !.file = FALSE]
  <2>2. c \in Settings
    BY DEF TypeOK, Settings
  <2>3. QED
    BY <1>z, <2>1, <2>2, ChangedTyped
<1>13. ASSUME SetOther PROVE TypeOK'
  <2>1. p_sweep' \in Point /\ wref' = wref
    BY <1>13 DEF SetOther, TypeOK
  <2>2. ASSUME NEW q \in Procs, Changed([cur EXCEPT !.proc = q]) PROVE TypeOK'
    <3>1. [cur EXCEPT !.proc = q] \in Settings
      BY DEF TypeOK, Settings
    <3>2. QED
      BY <2>1, <2>2, <3>1, ChangedTyped
  <2>3. ASSUME Changed([cur EXCEPT !.file = FALSE]) PROVE TypeOK'
    <3>1. [cur EXCEPT !.file = FALSE] \in Settings
      BY DEF TypeOK, Settings
    <3>2. QED
      BY <2>1, <2>3, <3>1, ChangedTyped
  <2>4. ASSUME Changed([cur EXCEPT !.time = ~@]) PROVE TypeOK'
    <3>1. [cur EXCEPT !.time = ~cur.time] \in Settings
      BY DEF TypeOK, Settings
    <3>2. QED
      BY <2>1, <2>4, <3>1, ChangedTyped
  <2>5. ASSUME NEW n \in Panels, Changed([cur EXCEPT !.panel = n]) PROVE TypeOK'
    <3>1. [cur EXCEPT !.panel = n] \in Settings
      BY DEF TypeOK, Settings
    <3>2. QED
      BY <2>1, <2>5, <3>1, ChangedTyped
  <2>6. ASSUME Changed([cur EXCEPT !.slot = "none"]) PROVE TypeOK'
    <3>1. [cur EXCEPT !.slot = "none"] \in Settings
      BY DEF TypeOK, Settings
    <3>2. QED
      BY <2>1, <2>6, <3>1, ChangedTyped
  <2>7. QED
    BY <1>13, <2>2, <2>3, <2>4, <2>5, <2>6 DEF SetOther
<1>14. ASSUME LoadFile PROVE TypeOK'
  <2>1. cur' \in Settings
    BY <1>14 DEF LoadFile, TypeOK, Settings
  <2>2. measured' \in [Point -> {"old", "raw", "done"}]
    BY <1>14 DEF LoadFile
  <2>3. QED
    BY <1>14, <1>p, <1>z, <2>1, <2>2 DEF LoadFile, Press, TypeOK
<1>15. ASSUME Recalibrate PROVE TypeOK'
  <2>1. cur' \in Settings
    BY <1>15 DEF Recalibrate, TypeOK, Settings
  <2>2. measured' \in [Point -> {"old", "raw", "done"}]
    BY <1>15 DEF Recalibrate
  <2>3. QED
    BY <1>15, <1>p, <2>1, <2>2 DEF Recalibrate, Press, TypeOK
<1>16. ASSUME Save PROVE TypeOK'
  <2>1. PICK s \in Slots :
          /\ Press
          /\ cur' = [cur EXCEPT !.slot = s, !.cal = s]
          /\ wref' = IF cur.cal # s /\ wref.hdr.slot = s THEN [wref EXCEPT !.of = <<>>] ELSE wref
          /\ UNCHANGED <<measured, p_sweep, pend, wfix, hidden, repeat>>
    BY <1>16 DEF Save
  <2>2. cur' \in Settings
    BY <2>1 DEF TypeOK, Settings
  <2>3. wref' \in Blocks(RefKinds)
    BY <1>n, <2>1, Fields
  <2>4. QED
    BY <1>p, <2>1, <2>2, <2>3 DEF Press, TypeOK, RefKinds
<1>17. ASSUME Recall PROVE TypeOK'
  <2>1. p_sweep' \in Point /\ wref' = wref
    BY <1>17, <1>z DEF Recall
  <2>2. ASSUME NEW s \in Slots, NEW g \in Grids, NEW q \in Procs, NEW n \in Panels, NEW t \in BOOLEAN,
               Changed([cur EXCEPT !.grid = g, !.proc = q, !.panel = n, !.time = t,
                                   !.cal = s, !.slot = s])
        PROVE  TypeOK'
    <3> DEFINE c == [cur EXCEPT !.grid = g, !.proc = q, !.panel = n, !.time = t,
                                !.cal = s, !.slot = s]
    <3>1. c \in Settings
      BY DEF TypeOK, Settings
    <3>2. QED
      BY <2>1, <2>2, <3>1, ChangedTyped
  <2>3. ASSUME Changed([cur EXCEPT !.slot = "none"]) PROVE TypeOK'
    <3>1. [cur EXCEPT !.slot = "none"] \in Settings
      BY DEF TypeOK, Settings
    <3>2. QED
      BY <2>1, <2>3, <3>1, ChangedTyped
  <2>4. QED
    BY <1>17, <2>2, <2>3 DEF Recall
<1>18. ASSUME Collect PROVE TypeOK'
  <2>1. cur' \in Settings
    BY <1>18 DEF Collect, TypeOK, Settings
  <2>2. measured' \in [Point -> {"old", "raw", "done"}]
    BY <1>18 DEF Collect
  <2>3. QED
    BY <1>18, <1>p, <1>z, <2>1, <2>2 DEF Collect, Press, TypeOK
<1>19. ASSUME LoadCal PROVE TypeOK'
  <2>1. cur' \in Settings
    BY <1>19 DEF LoadCal, TypeOK, Settings
  <2>2. measured' \in [Point -> {"old", "raw", "done"}]
    BY <1>19 DEF LoadCal
  <2>3. QED
    BY <1>19, <1>p, <1>z, <2>1, <2>2 DEF LoadCal, Press, TypeOK
<1>20. CASE UNCHANGED vars
  BY <1>20 DEF vars, TypeOK
<1>21. QED
  BY <1>1, <1>2, <1>4, <1>5, <1>6, <1>7, <1>8, <1>9, <1>10, <1>11, <1>12, <1>13, <1>14, <1>15,
     <1>16, <1>17, <1>18, <1>19, <1>20 DEF Next

(***************************************************************************)
(* Type correctness: whatever is pressed, recalled or calibrated between   *)
(* the points of a sweep, it goes on within them (p_sweep), and blocks and *)
(* settings stay within their types.                                       *)
(***************************************************************************)
THEOREM ReferenceTypeCorrect == Spec => []TypeOK
<1>1. TypeOK /\ [Next]_vars => TypeOK'
  BY TypeStep
<1>2. QED
  BY <1>1, TypeInit, PTL DEF Spec

-----------------------------------------------------------------------------
(***************************************************************************)
(* What makes the panels' readings right. The flag of a block tells its    *)
(* kind, and an impedance is stored only while wref_fill_z_cb is           *)
(* installed; what a block was taken from is what its header says; a       *)
(* repeat check is never one of an older reference.                        *)
(***************************************************************************)
BlockInv ==
  /\ wref.kind = "gamma" => ~wref.flag
  /\ wref.kind = "z" => wref.flag /\ fill_z
  /\ wref.of # <<>> => /\ wref.hdr.slot # "none"
                       /\ wref.of = <<wref.hdr.grid, wref.hdr.proc, wref.hdr.slot>>
  /\ repeat # "older"

(***************************************************************************)
(* The inductive invariant of this module.                                 *)
(***************************************************************************)
IInv == TypeOK /\ BlockInv

\* A store that goes through writes a whole block: its kind, its flag and
\* its header agree.
LEMMA StoredBlock ==
  ASSUME TypeOK, NEW b \in Blocks(RefKinds), NEW f, NEW data, NEW r, r = RefStored(b, f, data)
  PROVE  \/ r = b /\ ~Stores(f)
         \/ /\ Stores(f) /\ r.fix = "this"
            /\ r.kind \in {"gamma", "z"} /\ r.kind = pend.ref
            /\ r.flag <=> r.kind = "z"
            /\ r.kind = "z" => fill_z
            /\ r.of # <<>> => r.hdr.slot # "none" /\ r.of = <<r.hdr.grid, r.hdr.proc, r.hdr.slot>>
<1>1. CASE ~Stores(f)
  BY <1>1 DEF RefStored
<1>2. CASE Stores(f)
  <2>1. \/ pend.ref = "gamma" /\ r = Block("gamma", FALSE, Of(cur, data))
        \/ pend.ref = "z" /\ fill_z /\ r = Block("z", TRUE, Of(cur, data))
    BY <1>2 DEF Stores, RefStored, FlagCleared
  <2>2. /\ r.kind \in {"gamma", "z"} /\ r.kind = pend.ref /\ (r.flag <=> r.kind = "z")
        /\ r.kind = "z" => fill_z
        /\ r.fix = "this" /\ r.of = Of(cur, data)
        /\ r.hdr.grid = cur.grid /\ r.hdr.proc = cur.proc /\ r.hdr.slot = cur.slot
    BY <2>1 DEF Block, HdrFill
  <2>3. r.of # <<>> => cur.slot # "none" /\ r.of = <<cur.grid, cur.proc, cur.slot>>
    BY <2>2 DEF Of, InSlot, Worth
  <2>4. QED
    BY <1>2, <2>2, <2>3
<1>3. QED
  BY <1>1, <1>2

\* Every step keeps the blocks in agreement with themselves.
LEMMA BlockStep == ASSUME IInv, [Next]_vars PROVE IInv'
<1>t. TypeOK /\ TypeOK' /\ BlockInv
  BY TypeStep DEF IInv
<1>k. ASSUME UNCHANGED <<wref, fill_z, repeat>> PROVE IInv'
  BY <1>k, <1>t DEF IInv, BlockInv
<1>n. wref \in Blocks(RefKinds)
  BY <1>t DEF TypeOK, RefKinds
<1>1. ASSUME Draw PROVE IInv'
  <2> DEFINE r == IF pend.fix /\ wref_can_store THEN Refixed(wref) ELSE wref
             f == FixStored(wfix)
  <2>1. r \in Blocks(RefKinds) /\ r.kind = wref.kind /\ r.flag = wref.flag
        /\ r.of = wref.of /\ r.hdr = wref.hdr
    BY <1>n, RefixedTyped DEF Refixed, Blocks
  <2>2. wref' = RefStored(r, f, measured') /\ (fill_z => fill_z')
    BY <1>1 DEF Draw, FixFirst
  <2>3. repeat' \in {repeat, "none"}
    BY <1>1 DEF Draw, ResetReading
  <2> HIDE DEF r, f
  <2>4. BlockInv'
    <3>1. CASE wref' = r
      BY <1>t, <2>1, <2>2, <2>3, <3>1 DEF BlockInv
    <3>2. CASE wref' # r
      BY <1>t, <2>1, <2>2, <2>3, <3>2, StoredBlock DEF BlockInv
    <3>3. QED
      BY <3>1, <3>2
  <2>5. QED
    BY <1>t, <2>4 DEF IInv
<1>2. ASSUME ClearRef PROVE IInv'
  BY <1>2, <1>t DEF ClearRef, ResetReading, NoBlock, IInv, BlockInv
<1>3. ASSUME RepeatCheck PROVE IInv'
  BY <1>3, <1>t DEF RepeatCheck, Press, IInv, BlockInv
<1>4. ASSUME Save PROVE IInv'
  <2>1. wref' = wref \/ wref' = [wref EXCEPT !.of = <<>>]
    BY <1>4 DEF Save
  <2>2. wref'.kind = wref.kind /\ wref'.flag = wref.flag /\ wref'.hdr = wref.hdr
        /\ wref'.of \in {wref.of, <<>>}
    BY <1>n, <2>1 DEF Blocks
  <2>3. UNCHANGED <<fill_z, repeat>>
    BY <1>4 DEF Save, Press
  <2>4. QED
    BY <1>t, <2>2, <2>3 DEF IInv, BlockInv
<1>5. ASSUME NoSweep \/ Sweep \/ DrawNothing PROVE IInv'
  BY <1>5, <1>k DEF NoSweep, Sweep, DrawNothing
<1>6. ASSUME Keypad \/ StoreRef \/ StoreFixture \/ ClearFixture \/ LoadFile
             \/ Collect \/ Recalibrate \/ LoadCal
      PROVE  IInv'
  BY <1>6, <1>k DEF Keypad, StoreRef, StoreFixture, ClearFixture, LoadFile, Collect, Recalibrate,
                    LoadCal, Press
<1>7. ASSUME SetGrid \/ SetOther \/ Recall PROVE IInv'
  BY <1>7, <1>k DEF SetGrid, SetOther, Recall, Changed, Press
<1>8. CASE UNCHANGED vars
  BY <1>8, <1>k DEF vars
<1>9. QED
  BY <1>1, <1>2, <1>3, <1>4, <1>5, <1>6, <1>7, <1>8 DEF Next

\* The invariant holds in every reachable state.
LEMMA Invariance == Spec => []IInv
<1>1. Init => IInv
  BY TypeInit DEF Init, IInv, BlockInv, NoBlock
<1>2. IInv /\ [Next]_vars => IInv'
  BY BlockStep
<1>3. QED
  BY <1>1, <1>2, PTL DEF Spec

(***************************************************************************)
(* The S11 panel never reads an impedance as a reflection nor the          *)
(* impedance panel a reflection (wref_state_s11, wref_state_z), though     *)
(* both curves are kept in one buffer.                                     *)
(***************************************************************************)
THEOREM PanelsReadTheirKind == Spec => []PanelReadsItsKind
<1>1. IInv => PanelReadsItsKind
  <2> SUFFICES ASSUME IInv PROVE PanelReadsItsKind
    OBVIOUS
  <2>1. wref.kind \in {"none", "gamma", "z"}
    BY Fields DEF IInv, TypeOK
  <2>2. QED
    BY <2>1 DEF IInv, BlockInv, PanelReadsItsKind, wref_state_s11, wref_state_z, HdrState
<1>2. QED
  BY <1>1, Invariance, PTL

(***************************************************************************)
(* A reference reported as ok was taken on the grid, with the processing   *)
(* and under the calibration now in force (wref_hdr_state), whatever was   *)
(* changed, recalled or saved in between, unless a standard taken since is *)
(* in cal_data (cal_collect).                                              *)
(***************************************************************************)
THEOREM OkMeansSame == Spec => []OkIsSame
<1>1. IInv => OkIsSame
  <2> SUFFICES ASSUME IInv, HdrState(wref, cur) = "ok", wref.of # <<>>,
                      cur.slot # "none" => InSlot(cur)
               PROVE  wref.of = Worth(cur)
    BY DEF OkIsSame
  <2>1. wref.hdr.grid = cur.grid /\ wref.hdr.proc = cur.proc /\ wref.hdr.slot = cur.slot
    BY DEF HdrState, SameCal
  <2>2. QED
    BY <2>1 DEF IInv, BlockInv, InSlot, Worth
<1>2. QED
  BY <1>1, Invariance, PTL

(***************************************************************************)
(* A repeat check on the screen was made against the reference now stored: *)
(* every capture and every clear, which would make the reading one of an   *)
(* older reference, drops it, whenever the capture was asked for.          *)
(***************************************************************************)
THEOREM RepeatIsOfThis == Spec => []RepeatOfThis
<1>1. IInv => RepeatOfThis
  BY DEF IInv, BlockInv, RepeatOfThis
<1>2. QED
  BY <1>1, Invariance, PTL

(***************************************************************************)
(* When a fixture and an impedance reference are requested together the    *)
(* reference is computed with the new fixture (the order of the two store  *)
(* services in one turn).                                                  *)
(***************************************************************************)
THEOREM FixtureComesFirst == Spec => FixtureFirst
<1> DEFINE Kept == pend.ref = "z" /\ pend.fix /\ wref' # wref /\ Draw => wref'.fix = "this"
<1>1. IInv => [Kept]_vars
  <2> SUFFICES ASSUME IInv, pend.ref = "z", pend.fix, wref' # wref, Draw
               PROVE  wref'.fix = "this"
    OBVIOUS
  <2> DEFINE r == IF pend.fix /\ wref_can_store THEN Refixed(wref) ELSE wref
             f == FixStored(wfix)
  <2>1. r \in Blocks(RefKinds) /\ wref \in Blocks(RefKinds)
    BY RefixedTyped DEF IInv, TypeOK, RefKinds
  <2>2. wref' = RefStored(r, f, measured')
    BY DEF Draw, FixFirst
  <2>3. CASE Stores(f)
    BY <2>1, <2>2, <2>3, StoredBlock DEF IInv, RefStored, Block
  <2>4. CASE ~Stores(f)
    <3>1. wref' = r /\ r # wref
      BY <2>2, <2>4 DEF RefStored
    <3>2. wref_can_store /\ wref.kind = "z" /\ fill_z
      BY <3>1 DEF Refixed, IInv, BlockInv
    <3>3. f = Block("s21", FALSE, <<>>)
      BY <3>2 DEF FixStored
    <3>4. HdrState(f, cur) = "ok"
      BY <3>3 DEF Block, HdrFill, HdrState, SameCal
    <3>5. QED
      BY <2>4, <3>2, <3>4 DEF Stores
  <2>5. QED
    BY <2>3, <2>4
<1>2. QED
  BY <1>1, Invariance, PTL DEF Spec, FixtureFirst
=============================================================================
