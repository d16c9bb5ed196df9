------------------------------ MODULE Browser ------------------------------
(***************************************************************************)
(* The file browser (vna_browser.c): folders, pages, delete mode, the NEW  *)
(* folder keypad, the picture viewer that steps through the files, the     *)
(* field guides, and the folder that SAVE writes into (ui.c ui_save_file). *)
(* The browser holds no listing: it walks the directory for every drawing  *)
(* and for every press of a file button, and keeps only counts.            *)
(*                                                                         *)
(* The card is a function from the paths of its folders to the names in    *)
(* them, in the order of the directory; FatFs, external, may put a new     *)
(* name anywhere.  The console's sd_delete may come between any two steps, *)
(* and the card may be taken out and put back.                             *)
(*                                                                         *)
(* An empty name stands for what f_readdir leaves behind at the end of a   *)
(* directory.  FatFs ignores the separator after a folder, so that an      *)
(* empty name in a path means the folder itself.                           *)
(*                                                                         *)
(* behind and orphan are history variables: a file was deleted from the    *)
(* console since the files were counted for a first page; the folder for   *)
(* SAVE was deleted from the console or from the browser of the guides.    *)
(***************************************************************************)
EXTENDS Guide

CONSTANTS
  BROWSER_DEPTH_MAX, FILES_PER_PAGE,
  Names,           \* folder and file names
  Type,            \* "dir", or the format that lists the file
  InitCards,       \* what may be on the card at power-up
  NewNames,        \* the folders and files the user creates
  EntryMax,        \* bound: names in a folder
  TextMax          \* bound: lines of a guide

Formats == {"data", "picture", "guide"}
GUIDES == "GUIDES"

ASSUME BrowserConstants ==
  /\ BROWSER_DEPTH_MAX \in Nat \ {0} /\ FILES_PER_PAGE \in Nat \ {0}
  /\ Type \in [Names -> Formats \cup {"dir"}] /\ "" \notin Names /\ ".." \notin Names
  /\ NewNames \subseteq Names /\ GUIDES \in Names
  /\ EntryMax \in Nat /\ TextMax \in Nat

\* What FatFs keeps on a card: the root, folders that are entries of folders,
\* and no name twice in a folder
Tree(c) ==
  /\ <<>> \in DOMAIN c
  /\ \A p \in DOMAIN c : p \in Seq(Names) /\ c[p] \in Seq(Names) /\ IsInjective(c[p])
  /\ \A p \in DOMAIN c : p # <<>> => Front(p) \in DOMAIN c /\ Last(p) \in Range(c[Front(p)])
  /\ \A p \in DOMAIN c, n \in Names :
       Type[n] = "dir" /\ n \in Range(c[p]) => Append(p, n) \in DOMAIN c

ASSUME CardsAssumption == \A c \in InitCards : Tree(c)

VARIABLES
  card, present,   \* the folders and their names; whether the card is in
  ui,              \* ui_mode, and inside browser_open_file what is on the screen
  br,              \* the browser's variables and the buttons on the screen
  view,            \* the file loaded last; sel and page inside a viewer
  savedir,         \* browser_savedir
  behind, orphan

vars == <<card, present, ui, br, view, savedir, behind, orphan>>

-----------------------------------------------------------------------------
(***************************************************************************)
(* The card.                                                               *)
(***************************************************************************)
Folders == DOMAIN card

\* The elements of s that are in S, in their order
Kept(s, S) ==
  LET upTo[k \in 0 .. Len(s)] ==
        IF k = 0 THEN <<>>
        ELSE IF s[k] \in S THEN Append(upTo[k - 1], s[k]) ELSE upTo[k - 1]
  IN upTo[Len(s)]

Resolve(path) == Kept(path, Names)

\* f_unlink: a file, or a folder that is empty
CanUnlink(c, path) ==
  LET p == Resolve(path)
  IN /\ p # <<>> /\ Front(p) \in DOMAIN c
     /\ \E k \in DOMAIN c[Front(p)] : c[Front(p)][k] = Last(p)
     /\ p \in DOMAIN c => c[p] = <<>>

Unlinked(c, path) ==
  LET p == Resolve(path)
      up == Front(p)
  IN IF ~CanUnlink(c, path) THEN c
     ELSE [q \in DOMAIN c \ {p} |->
             IF q = up THEN Kept(c[q], Names \ {Last(p)}) ELSE c[q]]

\* f_mkdir and f_open with FA_CREATE_ALWAYS: the cards that may result
Created(c, path, name) ==
  LET p == Resolve(path)
      old == c[p]
      inserted == {[q \in DOMAIN c \cup (IF Type[name] = "dir" THEN {Append(p, name)} ELSE {}) |->
                      IF q = p THEN InsertAt(old, k, name)
                      ELSE IF q \in DOMAIN c THEN c[q] ELSE <<>>] : k \in 1 .. Len(old) + 1}
  IN IF p \notin DOMAIN c \/ (\E k \in DOMAIN old : old[k] = name) \/ Len(old) >= EntryMax
     THEN {c} ELSE inserted

(***************************************************************************)
(* sd_findnext: folders while another level can be entered, and the files  *)
(* of the format.                                                          *)
(***************************************************************************)
Listed(b, n) ==
  \/ Type[n] = "dir" /\ Len(b.dir) < BROWSER_DEPTH_MAX
  \/ Type[n] = b.fmt

Listing(c, b) == Kept(c[Resolve(b.dir)], {n \in Names : Listed(b, n)})

\* The listing with the virtual ".." of a folder
Entries(c, b) == (IF b.dir = <<>> THEN <<>> ELSE <<"..">>) \o Listing(c, b)

-----------------------------------------------------------------------------
(***************************************************************************)
(* browser_draw_page.                                                      *)
(***************************************************************************)
Readable(c, b) == present /\ Resolve(b.dir) \in DOMAIN c

StartFile(b) == (b.page - 1) * FILES_PER_PAGE

\* With file_count 0 the walk counts all entries
Counted(c, b) ==
  LET n == Len(Entries(c, b))
  IN IF b.files # 0 THEN b
     ELSE [b EXCEPT !.files = n,
                    !.pages = IF n = 0 THEN 1
                              ELSE (n + FILES_PER_PAGE - 1) \div FILES_PER_PAGE]

OnPage(c, b) ==
  [k \in 1 .. FILES_PER_PAGE |->
     IF StartFile(b) + k \in DOMAIN Entries(c, b) THEN Entries(c, b)[StartFile(b) + k] ELSE ""]

\* What the next ui_mode_browser sets anew is forgotten
Closed == [dir |-> <<>>, fmt |-> "data", page |-> 1, pages |-> 1, files |-> 0,
           del |-> FALSE, drawn |-> [k \in 1 .. FILES_PER_PAGE |-> ""]]

Leave == ui' = "normal" /\ br' = Closed /\ behind' = FALSE

\* Draw the page, or say NO CARD and leave
Draw(c, b) ==
  IF Readable(c, b)
  THEN /\ ui' = "browser"
       /\ br' = [Counted(c, b) EXCEPT !.drawn = OnPage(c, b)]
       /\ behind' = (behind /\ ~(b.files = 0 /\ b.page = 1))
  ELSE Leave

(***************************************************************************)
(* browser_note_savedir.  A variant follows the browser down only.         *)
(***************************************************************************)
DeepestDir(b) == IF Len(b.dir) > Len(savedir) THEN b.dir ELSE savedir
NotedDir(b) == b.dir

NoteSavedir(b) ==
  IF b.fmt = "guide" THEN UNCHANGED <<savedir, orphan>>
  ELSE savedir' = NotedDir(b) /\ orphan' = (Resolve(b.dir) \notin DOMAIN card)

\* The folder for SAVE may be deleted under the browser that noted it
Orphaned(c, blind) == orphan \/ (blind /\ Resolve(savedir) \notin DOMAIN c)

\* The first page of a folder; a variant stays on the page it was on
SamePage(b) == b.page
FirstPage(b) == 1

\* browser_goto_folder
GotoFolder(dir) ==
  LET b == [br EXCEPT !.dir = dir, !.page = FirstPage(br), !.files = 0]
  IN /\ NoteSavedir(b)
     /\ Draw(card, b)
     /\ UNCHANGED <<card, view>>

(***************************************************************************)
(* ui_mode_browser, from a menu.                                           *)
(***************************************************************************)
NoView == [file |-> "", sel |-> 0, text |-> <<>>, page |-> 1]

ModeBrowser(fmt) ==
  LET b == [Closed EXCEPT !.dir = IF fmt = "guide" THEN <<GUIDES>> ELSE <<>>,
                          !.fmt = fmt]
  IN /\ ui = "normal"
     /\ NoteSavedir(b)
     /\ Draw(card, b)
     /\ view' = NoView
     /\ UNCHANGED <<card, present>>

-----------------------------------------------------------------------------
(***************************************************************************)
(* browser_key_press: the bottom row.                                      *)
(***************************************************************************)
\* Pages wrap around; a variant tests for the first page too late
LeftLate(b) == IF b.page - 1 < 0 THEN b.pages ELSE b.page - 1
LeftPage(b) == IF b.page - 1 < 1 THEN b.pages ELSE b.page - 1
RightPage(b) == IF b.page + 1 > b.pages THEN 1 ELSE b.page + 1

TurnTo(page) ==
  /\ ui = "browser" /\ page # br.page
  /\ Draw(card, [br EXCEPT !.page = page])
  /\ UNCHANGED <<card, present, view, savedir, orphan>>

Turn == TurnTo(LeftPage(br)) \/ TurnTo(RightPage(br))

ToggleDelete ==
  /\ ui = "browser"
  /\ br' = [br EXCEPT !.del = ~@]
  /\ UNCHANGED <<card, present, ui, view, savedir, behind, orphan>>

Exit ==
  /\ ui = "browser"
  /\ Leave
  /\ UNCHANGED <<card, present, view, savedir, orphan>>

\* NEW: the text keypad, and back to the same folder (browser_reopen)
NewFolder ==
  /\ ui = "browser" /\ Len(br.dir) < BROWSER_DEPTH_MAX
  /\ ui' = "keypad"
  /\ UNCHANGED <<card, present, br, view, savedir, behind, orphan>>

Reopen(c) ==
  /\ ui = "keypad"
  /\ card' = c
  /\ Draw(c, [br EXCEPT !.page = 1, !.files = 0, !.del = FALSE])
  /\ UNCHANGED <<present, view, savedir, orphan>>

KeypadDone(name) ==
  /\ Type[name] = "dir"
  /\ \E c \in IF present THEN Created(card, br.dir, name) ELSE {card} : Reopen(c)

KeypadCancel == Reopen(card)

(***************************************************************************)
(* browser_key_press and browser_open_file: a file button.                 *)
(***************************************************************************)
\* browser_get_max; a variant forgets the last page that is full
Remainder(b) == IF b.page = b.pages THEN b.files % FILES_PER_PAGE ELSE FILES_PER_PAGE
GetMax(b) == IF b.files > 0 /\ Remainder(b) = 0 THEN FILES_PER_PAGE ELSE Remainder(b)

\* What browser_key_press does when browser_open_file returns true; a delete
\* makes the next drawing count again, which a variant forgets
OldCount(b) == b.files
Recount(b) == 0

Done(c) ==
  /\ card' = c
  /\ IF br.del THEN Draw(c, [br EXCEPT !.files = Recount(br), !.del = FALSE])
     ELSE IF br.fmt = "guide" THEN Draw(c, br)
     ELSE Leave
  /\ UNCHANGED savedir
  /\ orphan' = Orphaned(c, behind \/ br.fmt = "guide")

\* The entry that a walk over n others finds; at the end of the directory the
\* attributes are those of the name read last, or never set
EndIsDir(c, b) ==
  LET raw == c[Resolve(b.dir)]
  IN IF raw = <<>> THEN BOOLEAN ELSE {Type[Last(raw)] = "dir"}

Found(c, b, n) ==
  LET list == Listing(c, b)
  IN IF ~Readable(c, b) THEN {}
     ELSE IF n < Len(list) THEN {[name |-> list[n + 1], dir |-> Type[list[n + 1]] = "dir"]}
     ELSE IF n = Len(list) THEN {[name |-> "", dir |-> d] : d \in EndIsDir(c, b)}
     ELSE {}

Texts == UNION {[1 .. n -> LineKinds] : n \in 0 .. TextMax}

\* file_opt[].load, and the viewer that it opens
Load(n, name) ==
  \/ /\ name = ""                     \* f_open fails
     /\ Done(card) /\ UNCHANGED view
  \/ /\ name # "" /\ br.fmt = "data"
     /\ Done(card)
     /\ view' = [NoView EXCEPT !.file = name]
  \/ /\ name # "" /\ br.fmt = "picture"
     /\ ui' = "picture"
     /\ view' = [NoView EXCEPT !.file = name, !.sel = n]
     /\ UNCHANGED <<card, br, savedir, behind, orphan>>
  \/ /\ name # "" /\ br.fmt = "guide"
     /\ ui' = "guide"
     /\ \E t \in Texts : view' = [NoView EXCEPT !.file = name, !.text = t]
     /\ UNCHANGED <<card, br, savedir, behind, orphan>>

\* From the label repeat: walk to an entry and enter, delete or load it
Take(n) ==
  LET deeper(name) == IF Len(br.dir) < BROWSER_DEPTH_MAX THEN Append(br.dir, name) ELSE br.dir
  IN \/ Found(card, br, n) = {} /\ Done(card) /\ UNCHANGED view
     \/ \E e \in Found(card, br, n) :
          \/ br.del /\ Done(Unlinked(card, Append(br.dir, e.name))) /\ UNCHANGED view
          \/ ~br.del /\ e.dir /\ GotoFolder(deeper(e.name))
          \/ ~br.del /\ ~e.dir /\ Load(n, e.name)

\* The walk does not count the virtual ".."; a variant forgets that
CountsDots(b, sel) == sel
WalkIndex(b, sel) == IF b.dir = <<>> THEN sel ELSE sel - 1

PressFile(k) ==
  LET sel == StartFile(br) + k - 1
  IN /\ ui = "browser" /\ k <= GetMax(br)
     /\ \/ /\ sel >= br.files \/ ~present
           /\ Done(card) /\ UNCHANGED view
        \/ /\ sel < br.files /\ present
           /\ br.dir # <<>> /\ sel = 0
           /\ IF br.del THEN UNCHANGED <<card, ui, br, view, savedir, behind, orphan>>
              ELSE GotoFolder(Front(br.dir))
        \/ /\ sel < br.files /\ present
           /\ ~(br.dir # <<>> /\ sel = 0)
           /\ Take(WalkIndex(br, sel))
     /\ UNCHANGED present

(***************************************************************************)
(* The viewers.  Pictures wrap around within the counts of the browser;    *)
(* the pages of a guide do not wrap.                                       *)
(***************************************************************************)
PictureTurn ==
  LET last == WalkIndex(br, br.files - 1)
      sels == {IF view.sel - 1 < 0 THEN last ELSE view.sel - 1,
               IF view.sel + 1 > last THEN 0 ELSE view.sel + 1}
  IN /\ ui = "picture"
     /\ \E n \in sels \ {view.sel} : Take(n)
     /\ UNCHANGED present

\* Pages of the guide on the screen
GuidePages == IF guide_pages(view.text) < 1 THEN 1 ELSE guide_pages(view.text)

GuideTurn ==
  /\ ui = "guide"
  /\ \E p \in {view.page - 1, view.page + 1} \cap (1 .. GuidePages) :
       view' = [view EXCEPT !.page = p]
  /\ UNCHANGED <<card, present, ui, br, savedir, behind, orphan>>

CloseViewer ==
  /\ ui \in {"picture", "guide"}
  /\ Done(card)
  /\ view' = NoView
  /\ UNCHANGED present

-----------------------------------------------------------------------------
(***************************************************************************)
(* ui_save_file, the console's sd_delete, and the card's owner.            *)
(***************************************************************************)
SaveFile(name) ==
  /\ ui = "normal" /\ present
  /\ Type[name] \in {"data", "picture"}
  /\ card' \in Created(card, savedir, name)
  /\ UNCHANGED <<present, ui, br, view, savedir, behind, orphan>>

ConsoleDelete(p, name) ==
  /\ present
  /\ CanUnlink(card, Append(p, name))
  /\ card' = Unlinked(card, Append(p, name))
  /\ behind' = (ui # "normal")
  /\ orphan' = Orphaned(card', TRUE)
  /\ UNCHANGED <<present, ui, br, view, savedir>>

CardSwitch ==
  /\ present' = ~present
  /\ UNCHANGED <<card, ui, br, view, savedir, behind, orphan>>

Init ==
  /\ card \in InitCards /\ present = TRUE
  /\ ui = "normal" /\ br = Closed /\ view = NoView
  /\ savedir = <<>> /\ behind = FALSE /\ orphan = FALSE

Next ==
  \/ \E fmt \in Formats : ModeBrowser(fmt)
  \/ Turn \/ ToggleDelete \/ Exit
  \/ NewFolder \/ KeypadCancel \/ (\E n \in NewNames : KeypadDone(n))
  \/ \E k \in 1 .. FILES_PER_PAGE : PressFile(k)
  \/ PictureTurn \/ GuideTurn \/ CloseViewer
  \/ \E n \in NewNames : SaveFile(n)
  \/ \E p \in Folders, n \in Names : ConsoleDelete(p, n)
  \/ CardSwitch

Spec == Init /\ [][Next]_vars

-----------------------------------------------------------------------------
Labels == Names \cup {"", ".."}

\* What browser_path holds; an empty name is left by a walk past the end
Paths == Seq(Names \cup {""})

Browsers ==
  [dir : Paths, fmt : Formats, page : Nat \ {0}, pages : Nat \ {0}, files : Nat,
   del : BOOLEAN, drawn : [1 .. FILES_PER_PAGE -> Labels]]

\* The counts are numbers of pages and files, the depth stays within the
\* names kept for it, and the card is a tree of folders
TypeOK ==
  /\ Tree(card)
  /\ present \in BOOLEAN /\ behind \in BOOLEAN /\ orphan \in BOOLEAN
  /\ ui \in {"normal", "browser", "keypad", "picture", "guide"}
  /\ br \in Browsers /\ Len(br.dir) <= BROWSER_DEPTH_MAX
  /\ savedir \in Paths /\ Len(savedir) <= BROWSER_DEPTH_MAX
  /\ view \in [file : Labels, sel : Nat, text : Texts, page : Nat]
  /\ view.page \in 1 .. GuidePages

(***************************************************************************)
(* The buttons that can be pressed are the entries of the page, as drawn   *)
(* and as counted, and the page exists or is the one after the last (where *)
(* a delete may leave the browser).  Not after a delete from the console.  *)
(***************************************************************************)
OfferedRight ==
  ui = "browser" /\ ~behind =>
    /\ br.files = Len(Entries(card, br))
    /\ br.drawn = OnPage(card, br)
    /\ br.page <= br.pages =>
         \A k \in 1 .. FILES_PER_PAGE : k <= GetMax(br) <=> br.drawn[k] # ""

\* browser_draw_page erases from button cnt - start_file on, which indexes the
\* table of buttons: the page may not start behind the last file
EraseInTable ==
  ui = "browser" /\ ~behind => StartFile(br) <= br.files

(***************************************************************************)
(* SAVE writes into the folder that the browser showed last (manual,       *)
(* 07-sd-card.md): that folder still exists, although folders can be       *)
(* deleted in the browser; unless it was deleted from the console or from  *)
(* the browser of the guides, which does not note its folder.              *)
(***************************************************************************)
SaveDirExists == orphan \/ Resolve(savedir) \in Folders

(***************************************************************************)
(* What a file button does it does to the entry that is drawn on it, by    *)
(* whatever pages, folders and deletes the browser came there: in delete   *)
(* mode the card loses that entry or nothing, else that folder is entered, *)
(* or that file loaded.                                                    *)
(***************************************************************************)
ActsOn(entry) ==
  IF br.del
  THEN card' = IF entry \in Names THEN Unlinked(card, Append(br.dir, entry)) ELSE card
  ELSE /\ card' = card
       /\ entry = ".." => br'.dir = Front(br.dir)
       /\ entry \in Names => IF Type[entry] = "dir" THEN br'.dir = Append(br.dir, entry)
                             ELSE view'.file = entry
       /\ entry = "" => view'.file = view.file

PressHitsDrawn ==
  [][ present /\ ~behind =>
        \A k \in 1 .. FILES_PER_PAGE : PressFile(k) => ActsOn(br.drawn[k]) ]_vars

(***************************************************************************)
(* The viewer of guides: there are as many pages to turn to as the text    *)
(* has, and each shows its section (guide_pages and guide_draw_page walk   *)
(* the file separately and must agree on what a page is, and with          *)
(* tools/manual/guide.py: "keep the rules identical", vna_guide.c:3).  Not *)
(* claimed of a text with an empty code block for a section, which is a    *)
(* page here and none there.                                               *)
(***************************************************************************)
GuidePageRight ==
  ui = "guide" /\ Pages(view.text) = Heads(view.text) =>
    LET rows == guide_draw_page(view.text, view.page)
    IN IF Pages(view.text) = {} THEN rows = <<>>
       ELSE /\ GuidePages = Cardinality(Pages(view.text))
            /\ Range(rows) = Shows(view.text, view.page)
            /\ \A j, k \in DOMAIN rows : j < k => rows[j] < rows[k]
=============================================================================
