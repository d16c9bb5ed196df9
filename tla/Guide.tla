------------------------------- MODULE Guide -------------------------------
(***************************************************************************)
(* The pages of a field guide (vna_guide.c).  A text is a sequence of      *)
(* lines of four kinds: "title" is a line that starts with "# ", "rule" a  *)
(* line of "---", "fence" one of "```", "text" any other, table rows and   *)
(* empty lines included.  Every line drawn takes one row.                  *)
(***************************************************************************)
EXTENDS Integers, FiniteSets, SequencesExt

CONSTANT GUIDE_ROWS

ASSUME GuideConstants == GUIDE_ROWS \in Nat \ {0}

LineKinds == {"title", "rule", "fence", "text"}

HasTitle(text) == text # <<>> /\ text[1] = "title"

\* The first line the passes look at
FirstLine(text) == IF HasTitle(text) THEN 2 ELSE 1

(***************************************************************************)
(* guide_pages: one pass that counts the sections between rules.           *)
(***************************************************************************)
CountLine(text, s, i) ==
  IF text[i] = "fence" THEN [s EXCEPT !.fence = ~@, !.content = TRUE]
  ELSE IF text[i] = "rule" /\ ~s.fence
  THEN [s EXCEPT !.pages = IF s.content THEN @ + 1 ELSE @, !.content = FALSE]
  ELSE [s EXCEPT !.content = TRUE]

CountStart == [pages |-> 0, content |-> FALSE, fence |-> FALSE]

\* The pass after each line
Counting(text) ==
  LET after[i \in 0 .. Len(text)] ==
        IF i < FirstLine(text) THEN CountStart ELSE CountLine(text, after[i - 1], i)
  IN after

guide_pages(text) ==
  LET end == Counting(text)[Len(text)]
  IN end.pages + (IF end.content THEN 1 ELSE 0)

(***************************************************************************)
(* guide_draw_page: seek to the first line of the page, draw up to a rule. *)
(* A seek has found its line when pos # 0; a variant of its step counts a  *)
(* page at every rule.                                                     *)
(***************************************************************************)
SeekLine(text, s, i, page) ==
  IF s.pos # 0 THEN s
  ELSE IF text[i] = "rule" /\ ~s.fence
  THEN [s EXCEPT !.p = IF s.content THEN @ + 1 ELSE @, !.content = FALSE]
  ELSE IF s.p = page THEN [s EXCEPT !.pos = i]
  ELSE [s EXCEPT !.content = TRUE, !.fence = IF text[i] = "fence" THEN ~@ ELSE @]

SeekEveryRule(text, s, i, page) ==
  IF s.pos = 0 /\ text[i] = "rule" /\ ~s.fence
  THEN [s EXCEPT !.p = @ + 1, !.content = FALSE]
  ELSE SeekLine(text, s, i, page)

SeekStep(text, s, i, page) == SeekLine(text, s, i, page)

SeekStart == [p |-> 1, content |-> FALSE, fence |-> FALSE, pos |-> 0]

Seeking(text, page) ==
  LET after[i \in 0 .. Len(text)] ==
        IF i < FirstLine(text) THEN SeekStart ELSE SeekStep(text, after[i - 1], i, page)
  IN after

SeekPage(text, page) ==
  LET end == Seeking(text, page)[Len(text)]
  IN IF end.pos # 0 THEN end.pos ELSE Len(text) + 1

\* The lines drawn, in order
DrawLine(text, s, i) ==
  IF s.done \/ Len(s.rows) >= GUIDE_ROWS THEN s
  ELSE IF text[i] = "fence" THEN [s EXCEPT !.fence = ~@]
  ELSE IF text[i] = "rule" /\ ~s.fence THEN [s EXCEPT !.done = TRUE]
  ELSE [s EXCEPT !.rows = Append(@, i)]

DrawStart == [done |-> FALSE, fence |-> FALSE, rows |-> <<>>]

Drawing(text, pos) ==
  LET after[i \in 0 .. Len(text)] ==
        IF i < pos THEN DrawStart ELSE DrawLine(text, after[i - 1], i)
  IN after

guide_draw_page(text, page) == Drawing(text, SeekPage(text, page))[Len(text)].rows

-----------------------------------------------------------------------------
(***************************************************************************)
(* The pages as the manual and tools/manual/guide.py (parse) have them:    *)
(* what lies between two rules that are outside fences, unless that is     *)
(* fences only.                                                            *)
(***************************************************************************)
Fenced(text, i) ==
  Cardinality({j \in 1 .. i - 1 : text[j] = "fence"}) % 2 = 1

Breaks(text) == {i \in 1 .. Len(text) : text[i] = "rule" /\ ~Fenced(text, i)}

Lines(text) == {i \in 1 .. Len(text) : ~(i = 1 /\ text[i] = "title")} \ Breaks(text)

\* The first line of every section, and the section it is the first line of
Heads(text) == {i \in Lines(text) : i - 1 \notin Lines(text)}
SectionOf(text, h) == {i \in Lines(text) : i >= h /\ \A j \in h .. i : j \in Lines(text)}

\* The sections that are pages
Pages(text) == {h \in Heads(text) : \E i \in SectionOf(text, h) : text[i] # "fence"}

Section(text, k) ==
  SectionOf(text, CHOOSE i \in Pages(text) :
                    Cardinality({j \in Pages(text) : j < i}) = k - 1)

\* What a page should show: its lines without the fences, as many as fit
Shows(text, k) ==
  LET all == {i \in Section(text, k) : text[i] # "fence"}
  IN {i \in all : Cardinality({j \in all : j < i}) < GUIDE_ROWS}
=============================================================================
