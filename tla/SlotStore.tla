----------------------------- MODULE SlotStore -----------------------------
(***************************************************************************)
(* What the flash storage promises, as a power-up sees it: every place (a  *)
(* slot, or the configuration) holds a whole content or None.              *)
(*                                                                         *)
(* A place being written is open.  An open place may be lost, and may get  *)
(* the content that was sealed (checksummed) for its kind, nothing else; a *)
(* place that is not open changes only when a save at once, a clear or a   *)
(* power failure in one of these touches it.                               *)
(***************************************************************************)
EXTENDS Naturals

CONSTANTS Places,      \* an interval 0 .. n
          Kinds, KindOf(_), Contents, None

VARIABLES sealed, stored, open

vars == <<sealed, stored, open>>

Sealings == [Kinds -> Contents]

Init ==
  /\ sealed \in Sealings
  /\ stored = [p \in Places |-> None]
  /\ open = {}

\* A recall, a loaded file or a change of settings brings another checksum
Prepare ==
  /\ sealed' \in Sealings
  /\ UNCHANGED <<stored, open>>

\* Writing starts: a save opens one place, a clear all of them
Begin(P) ==
  /\ open = {}
  /\ open' = P
  /\ sealed' \in Sealings
  /\ UNCHANGED stored

Lose(p) ==
  /\ p \in open
  /\ stored' = [stored EXCEPT ![p] = None]
  /\ UNCHANGED <<sealed, open>>

Commit(p) ==
  /\ p \in open
  /\ stored' = [stored EXCEPT ![p] = sealed[KindOf(p)]]
  /\ UNCHANGED <<sealed, open>>

End ==
  /\ open' = {}
  /\ UNCHANGED <<sealed, stored>>

\* A save that nothing interrupts, also between two steps of another
SaveAtOnce(p, c) ==
  /\ sealed' = [sealed EXCEPT ![KindOf(p)] = c]
  /\ stored' = [stored EXCEPT ![p] = c]
  /\ UNCHANGED open

ClearAtOnce ==
  /\ stored' = [p \in Places |-> None]
  /\ UNCHANGED <<sealed, open>>

\* Power fails: what was being saved or cleared (from place 0 upwards) may be
\* gone, and nothing else
Fail(Q) ==
  /\ open' = {}
  /\ sealed' \in Sealings
  /\ stored' \in [Places -> Contents \cup {None}]
  /\ \A p \in Places : stored'[p] = stored[p] \/ (p \in Q /\ stored'[p] = None)

Next ==
  \/ Prepare \/ End \/ ClearAtOnce
  \/ \E P \in {Places} \cup {{p} : p \in Places} : Begin(P)
  \/ \E p \in Places : Lose(p) \/ Commit(p)
  \/ \E p \in Places : Fail({p}) \/ Fail(0 .. p)
  \/ \E p \in Places, c \in Contents : SaveAtOnce(p, c)

Spec == Init /\ [][Next]_vars
=============================================================================
