----------------------------- MODULE FileManager -----------------------------
(***************************************************************************)
(* The file manager: two panes (D2Xdbrowser) over the drives, the screens  *)
(* of the main loop that act on them (cases 20 to 105), the one on-screen  *)
(* keyboard all screens share, and the copy thread (D2Xfilecopy), of which *)
(* a copy of several items starts one after the other.  Meanwhile the disc *)
(* in the drive may be exchanged.                                          *)
(*                                                                         *)
(* A path is the sequence of its names, the drive first; <<>> is "root:",  *)
(* the list of drives.  A frame is one step; the threads and the disc move *)
(* between frames, and between Create() and FileCopy().  Left out: what a  *)
(* copy does file by file (CopyJob), torn reads of what FileCopy() writes  *)
(* and the page of errors (CopyWizard), ftp: and smb: paths, the rows of   *)
(* the window, audio discs, patching, and what the viewers show.  A        *)
(* directory is never copied into itself, which in the code descends until *)
(* the path is too long.                                                   *)
(***************************************************************************)
EXTENDS Naturals, Sequences, FiniteSets, SequencesExt

CONSTANTS
  Drives,     \* the drives, hard disk partitions and the DVD drive
  D,          \* the DVD drive
  Names,      \* names of files and directories
  Rank,       \* their order; case is ignored, in it as in FATX
  OnDisk,     \* what is there at first: a function from paths to kinds
  Discs,      \* the discs: functions from paths to kinds
  Presses,    \* BOUND: the buttons pressed while each pane is the active one
  MaxPresses, \* BOUND on the buttons pressed in all
  MaxActs,    \* BOUND on the choices in the action menus
  MaxDiscs,   \* BOUND on the exchanges of the disc
  MaxLevel,   \* BOUND on the depth of each pane's way back
  MaxDepth    \* BOUND on the length of a path

Buttons == {"none", "up", "down", "a", "b", "back", "y", "x", "left", "right", "white",
            "black"}

Root    == <<>>
Paths   == UNION {[1..n -> Drives \cup Names] : n \in 0..MaxDepth + 1}
IsDisk(f) ==
  \A p \in DOMAIN f : p \in Paths /\ Len(p) \in 1..MaxDepth /\ f[p] \in {"dir", "file"}

ASSUME FileManagerAssumption ==
  /\ D \in Drives /\ IsFiniteSet(Drives) /\ IsFiniteSet(Names)
  /\ Rank \in [Names \cup Drives -> Nat]
  /\ \A S \in {Drives, Names} : \A m, n \in S : Rank[m] = Rank[n] => m = n
  /\ IsDisk(OnDisk) /\ \A disc \in Discs : IsDisk(disc)
  /\ MaxDepth # 0
  /\ Presses \in [1..2 -> SUBSET Buttons]
  /\ {MaxPresses, MaxActs, MaxDiscs, MaxDepth} \subseteq Nat
  /\ MaxLevel \in [1..2 -> Nat]

VARIABLES
  disk,          \* the paths there are, and whether each is a "dir" or a "file"
  exchanged,     \* the disc is another one than the main loop knows (type, prevtype)
  pane,          \* p_browser, p_browser2, and mBrowse1path, mBrowse2path
  renewAll, activebrowser,
  mCounter, m_Return,
  confirmed,     \* the keyboard's m_bConfirmed
  p_fcopy,       \* whether there is a D2Xfilecopy
  told,          \* what its FileCopy() was told last
  thread,        \* its thread: "none", "created", "running", "done"
  job,           \* what the thread copies
  orphans,       \* what threads copy whose D2Xfilecopy is deleted or has another thread
  b_finished,
  iselected_item,\* the place in the list of the item a copy of several is at
  presses, acts, \* how many buttons were pressed, and choices made in the menu
  discs,         \* how often the disc was exchanged
  shown,         \* what the screen asked to delete (read by properties only)
  tried, sound   \* what was copied since the choice to copy, and whether no thread
                 \* started early or was left from before (read by properties only)

paneVars == <<pane, renewAll, activebrowser>>
copyVars == <<p_fcopy, told, thread, job, orphans, b_finished, iselected_item>>
checkVars == <<presses, acts, shown, tried, sound>>
discVars == <<exchanged, discs>>
vars == <<disk, discVars, paneVars, mCounter, m_Return, confirmed, copyVars,
          checkVars>>

NoJob == [item |-> Root, kind |-> "none", dest |-> Root]

Kinds   == {"root", "dir", "file"}
Infos   == [kind : Kinds, path : Paths, item : Paths]
Panes   == [path : Paths, url : Paths, back : Seq([path : Paths, cursor : Nat \ {0}]),
            list : Seq([name : Drives \cup Names, kind : {"dir", "file"}]),
            cursor : Nat \ {0}, renew : BOOLEAN,
            selected : SUBSET [at : Nat, item : Paths, kind : Kinds], info : Infos]
Jobs    == [item : Paths, kind : Kinds \cup {"none"}, dest : Paths]
Screens == {"elsewhere", "20", "21", "22", "23", "25", "50", "52", "60", "60 FileCopy",
            "61", "65", "65 FileCopy", "66", "70", "80", "90", "95", "100", "711",
            "shows", "off"}

TypeOK ==
  /\ DOMAIN disk \subseteq Paths /\ \A p \in DOMAIN disk : disk[p] \in {"dir", "file"}
  /\ pane[1] \in Panes /\ pane[2] \in Panes /\ DOMAIN pane = 1..2
  /\ activebrowser \in 1..2
  /\ {exchanged, renewAll, confirmed, p_fcopy, b_finished, sound} \subseteq BOOLEAN
  /\ {mCounter, m_Return} \subseteq Screens
  /\ thread \in {"none", "created", "running", "done"}
  /\ {told, job} \cup orphans \subseteq Jobs
  /\ iselected_item \in Nat /\ presses \in 0..MaxPresses /\ acts \in 0..MaxActs
  /\ discs \in 0..MaxDiscs
  /\ shown \subseteq Paths /\ tried \subseteq Paths

-----------------------------------------------------------------------------
(* The file system.                                                        *)

Within(p)  == {q \in DOMAIN disk : IsPrefix(p, q)}
OnD(p)     == p # Root /\ p[1] = D
Without(S) == [p \in DOMAIN disk \ S |-> disk[p]]
With(f, g) == [p \in DOMAIN f \cup DOMAIN g |-> IF p \in DOMAIN f THEN f[p] ELSE g[p]]

(* DeleteFile and DeleteDirectory (DelTree) of one item; a disc is not     *)
(* written to, and neither deletes what is of the other kind.              *)
Doomed(item, kind) ==
  IF item \in DOMAIN disk /\ ~OnD(item) /\ disk[item] = kind THEN Within(item) ELSE {}

(* What is at and below a path, as it is when put somewhere else.          *)
Moved(from, to) ==
  LET New(p) == to \o SubSeq(p, Len(from) + 1, Len(p))
  IN  [q \in {New(p) : p \in Within(from)} |->
         disk[from \o SubSeq(q, Len(to) + 1, Len(q))]]

Short(f)   == [p \in {q \in DOMAIN f : Len(q) <= MaxDepth} |-> f[p]]

(* A copy: the item with all below it appears in the other directory, if   *)
(* both are there; what has the name of something else stays away.         *)
Copied(j) ==
  LET to == Append(j.dest, Last(j.item))
  IN  IF /\ j.kind # "none" /\ j.item \in DOMAIN disk /\ disk[j.item] = j.kind
         /\ j.dest \in DOMAIN disk /\ disk[j.dest] = "dir" /\ ~IsPrefix(j.item, to)
         /\ to \in DOMAIN disk => disk[to] = j.kind
      THEN With(disk, Short(Moved(j.item, to)))
      ELSE disk

(* MoveItem: MoveFileEx, which does not replace.                           *)
Renamed(from, to) ==
  IF /\ from \in DOMAIN disk /\ Len(from) > 1 /\ ~OnD(from) /\ to \notin DOMAIN disk
     /\ Len(to) > 1 /\ Front(to) \in DOMAIN disk /\ ~IsPrefix(from, to)
  THEN With(Without(Within(from)), Short(Moved(from, to)))
  ELSE disk

Made(path) ==
  IF /\ Len(path) > 1 /\ Len(path) <= MaxDepth /\ path \notin DOMAIN disk
     /\ Front(path) \in DOMAIN disk /\ disk[Front(path)] = "dir" /\ ~OnD(path)
  THEN With(disk, [p \in {path} |-> "dir"])
  ELSE disk

-----------------------------------------------------------------------------
(* A pane.                                                                 *)

Place(S, n) == Cardinality({m \in S : Rank[m] <= Rank[n]})
Sorted(S)   == [k \in 1..Cardinality(S) |-> CHOOSE n \in S : Place(S, n) = k]

(* What a pane lists of a path: directories first, each kind by name.      *)
Listing(path) ==
  LET Of(kind) == {n \in Names : Append(path, n) \in DOMAIN disk
                                 /\ disk[Append(path, n)] = kind}
      As(kind, names) == [i \in DOMAIN names |-> [name |-> names[i], kind |-> kind]]
  IN  IF path = Root THEN As("file", Sorted(Drives))
      ELSE As("dir", Sorted(Of("dir"))) \o As("file", Sorted(Of("file")))

Fresh == [path |-> Root, url |-> <<D, D>>, back |-> <<>>, list |-> <<>>, cursor |-> 1,
          renew |-> TRUE, selected |-> {},
          info |-> [kind |-> "root", path |-> Root, item |-> Root]]

Emptied(p) == [p EXCEPT !.list = <<>>, !.selected = {}, !.renew = TRUE]

ResetCurrentDir(p) == [p EXCEPT !.renew = TRUE, !.cursor = 1]

(* resetToDevice, after the main loop has set the path to the drive.       *)
ResetToDevice(p) ==
  IF p.back = <<>> THEN p
  ELSE [Emptied(p) EXCEPT !.back = <<[path |-> Root, cursor |-> p.back[1].cursor]>>,
                          !.cursor = 1]

(* The first part of processDirBrowser: another drive empties the pane     *)
(* (resetDirBrowser), and a pane to be renewed is read again.              *)
Settled(p, all) ==
  LET drive == IF p.path = Root THEN Root ELSE <<p.path[1]>>
      q == IF drive # p.url THEN [Emptied(p) EXCEPT !.url = drive] ELSE p
  IN  IF q.renew \/ all
      THEN [q EXCEPT !.list = Listing(q.path), !.selected = {}, !.renew = FALSE] ELSE q

HasCursor(p) == p.cursor \in DOMAIN p.list

(* info: what the cursor is on; the path stays when it is on nothing.      *)
Info(p) ==
  IF ~HasCursor(p) THEN [kind |-> "file", path |-> p.info.path, item |-> p.path]
  ELSE [kind |-> IF p.path = Root THEN "root" ELSE p.list[p.cursor].kind,
        path |-> p.path, item |-> Append(p.path, p.list[p.cursor].name)]

(* Down a directory, or into a drive; the latter returns at once.          *)
Entered(p) ==
  LET q == [p EXCEPT !.back = Append(p.back, [path |-> p.path, cursor |-> p.cursor]),
                     !.path = Append(p.path, p.list[p.cursor].name), !.cursor = 1]
  IN  IF p.path = Root THEN [q EXCEPT !.info.kind = "root", !.info.item = q.path]
      ELSE LET r == [q EXCEPT !.renew = TRUE, !.selected = {}]
           IN  [r EXCEPT !.info = Info(r)]

(* Back to where the pane came from; the info is left without an item.     *)
Left(p) ==
  [p EXCEPT !.path = Last(p.back).path, !.cursor = Last(p.back).cursor,
            !.back = Front(p.back), !.renew = TRUE, !.selected = {}, !.info.item = Root]

(* Mutant: no end at the top.                                              *)
Raised_NoBound(p) == [p EXCEPT !.cursor = @ - 1]

Raised(p) == [p EXCEPT !.cursor = IF @ > 1 THEN @ - 1 ELSE @]
Lowered(p) == [p EXCEPT !.cursor = IF @ < Len(p.list) THEN @ + 1 ELSE @]

(* Y: the entry under the cursor is selected, or is not any more.          *)
Toggled(p) ==
  LET here == {s \in p.selected : s.at = p.cursor}
      new  == [at |-> p.cursor, item |-> p.info.item, kind |-> p.info.kind]
  IN  Lowered([p EXCEPT !.selected = IF here = {} THEN @ \cup {new} ELSE @ \ here])

(* X: so is every entry.                                                   *)
Inverted(p) ==
  LET new == {[at |-> i, item |-> Append(p.path, p.list[i].name), kind |-> p.list[i].kind] :
                i \in DOMAIN p.list}
  IN  [p EXCEPT !.selected =
         {s \in @ : s.at > Len(p.list)} \cup {s \in new : \A t \in @ : t.at # s.at}]

(* processDirBrowser: one button, on one pane.                             *)
Process(pane0, button, all) ==
  LET p == Settled(pane0, all)
      q == CASE button = "up"   -> Raised(p)
             [] button = "down" -> Lowered(p)
             [] OTHER -> p
      r == [q EXCEPT !.info = Info(q)]
  IN  CASE button = "a" /\ HasCursor(p)
             /\ (p.path = Root \/ p.list[p.cursor].kind = "dir") -> Entered(p)
        [] button \in {"b", "back"} /\ p.back # <<>> -> Left(p)
        [] button = "y" -> Toggled(r)
        [] button = "x" -> Inverted(r)
        [] OTHER -> r

Active   == pane[activebrowser]
Other    == 3 - activebrowser
Chosen   == {s.item : s \in Active.selected}

-----------------------------------------------------------------------------
(* The copy thread.                                                        *)

(* Create() while the thread runs, or deleting its object, leaves it alone. *)
Orphaned ==
  IF thread \in {"none", "done"} THEN orphans
  ELSE orphans \cup {IF thread = "running" THEN job ELSE told}

InFileCopy == mCounter \in {"60 FileCopy", "65 FileCopy"}

ThreadBegins ==
  /\ thread = "created"
  /\ thread' = "running" /\ job' = told
  /\ sound' = (sound /\ ~InFileCopy)
  /\ UNCHANGED <<disk, discVars, paneVars, mCounter, m_Return, confirmed,
                 p_fcopy, told, orphans, b_finished, iselected_item, presses, acts, shown, tried>>

(* The copy done or failed, OnExit.                                        *)
ThreadEnds ==
  /\ thread = "running"
  /\ thread' = "done" /\ b_finished' = TRUE
  /\ disk' \in {disk, Copied(job)}
  /\ tried' = tried \cup {job.item}
  /\ UNCHANGED <<discVars, paneVars, mCounter, m_Return, confirmed, p_fcopy,
                 told, job, orphans, iselected_item, presses, acts, shown, sound>>

OrphanEnds(j) ==
  /\ j \in orphans
  /\ orphans' = orphans \ {j} /\ b_finished' = TRUE
  /\ disk' \in {disk, Copied(j)}
  /\ UNCHANGED <<discVars, paneVars, mCounter, m_Return, confirmed, p_fcopy,
                 told, thread, job, iselected_item, checkVars>>

-----------------------------------------------------------------------------
(* The screens.                                                            *)

Go(screen) == mCounter' = screen

(* Case 20.                                                                *)
Open ==
  /\ mCounter = "20" /\ Go("21")
  /\ pane' = [i \in 1..2 |-> Process(Fresh, "none", TRUE)]
  /\ renewAll' = FALSE
  /\ UNCHANGED <<disk, discVars, activebrowser, m_Return, confirmed, copyVars,
                 checkVars>>

(* The panes after a frame of case 21.  A pane that is to be renewed gets  *)
(* the frame's button once more, before the active one gets it.            *)
Frame21(button) ==
  LET all    == IF renewAll THEN [i \in 1..2 |-> Process(pane[i], button, TRUE)] ELSE pane
      renew  == [i \in 1..2 |-> IF all[i].renew THEN Process(all[i], button, FALSE)
                                ELSE all[i]]
      active == CASE button = "left" -> 1 [] button = "right" -> 2
                  [] OTHER -> activebrowser
  IN  [active |-> active, pane |-> [renew EXCEPT ![active] = Process(@, button, FALSE)]]

(* Where case 21 goes to, for what the cursor is on; "shows" is any screen *)
(* that shows something (30, 45 to 47, 105, 600), here a file, depending   *)
(* on its name.  A shortcut may leave at once.                             *)
After21(button, kind) ==
  CASE button = "white" /\ kind # "root" -> {"25"}
    [] button = "black" /\ kind # "root" -> {"50"}
    [] button = "a" /\ kind = "file" -> {"21", "shows"}
    [] button = "a" /\ kind = "root" -> {"52"}
    [] button = "back" /\ kind = "root" -> {"elsewhere"}
    [] button = "none" -> {"21", "elsewhere"}
    [] OTHER -> {"21"}

(* Case 21; it first deletes what is left of a copy.  BOUND: no button     *)
(* falls on the frame that renews the other pane, nothing is selected in   *)
(* the list of drives, and no directory is entered too deep.               *)
Browse(button) ==
  LET f == Frame21(button)
  IN  /\ mCounter = "21"
      /\ button # "none" => ~renewAll /\ ~pane[Other].renew
      /\ button \in {"y", "x"} => Active.path # Root
      /\ button = "a" => Len(Active.back) < MaxLevel[activebrowser]
      /\ button # "none" => presses < MaxPresses
      /\ Cardinality(Orphaned) <= 1
      /\ orphans' = Orphaned
      /\ p_fcopy' = FALSE /\ thread' = "none" /\ told' = NoJob /\ job' = NoJob
      /\ activebrowser' = f.active /\ renewAll' = FALSE
      /\ mCounter' \in After21(button, f.pane[f.active].info.kind)
      /\ pane' = IF mCounter' = "elsewhere" THEN [i \in 1..2 |-> Fresh] ELSE f.pane
      /\ iselected_item' = 0 /\ b_finished' = FALSE   \* not read before they are set
      /\ shown' = {} /\ tried' = {} /\ sound' = TRUE
      /\ presses' = presses + (IF button = "none" THEN 0 ELSE 1)
      /\ UNCHANGED <<disk, discVars, m_Return, confirmed, acts>>

(* Case 22, after the menu has asked.                                      *)
Confirm ==
  /\ mCounter = "22"
  /\ Go("23") \/ Go("21")
  /\ UNCHANGED <<disk, discVars, paneVars, m_Return, confirmed, copyVars,
                 checkVars>>

(* Mutant: the first pane's selection goes first, whichever pane is active. *)
Doomed23_FirstPane ==
  IF pane[1].selected # {} THEN UNION {Doomed(s.item, s.kind) : s \in pane[1].selected}
  ELSE Doomed(Active.info.item, Active.info.kind)

(* What case 23 deletes: the selection of the active pane, or without one  *)
(* the item under its cursor.                                              *)
Doomed23 ==
  IF Active.selected # {} THEN UNION {Doomed(s.item, s.kind) : s \in Active.selected}
  ELSE Doomed(Active.info.item, Active.info.kind)

Delete ==
  /\ mCounter = "23" /\ Go("21")
  /\ disk' = Without(Doomed23)
  /\ pane' = [i \in 1..2 |-> ResetCurrentDir(
                IF i = activebrowser THEN [pane[i] EXCEPT !.selected = {}] ELSE pane[i])]
  /\ UNCHANGED <<discVars, renewAll, activebrowser, m_Return, confirmed, copyVars,
                 checkVars>>

(* Case 25, the action menu.                                               *)
Act == acts < MaxActs /\ acts' = acts + 1 /\ UNCHANGED presses

MenuCopy ==
  /\ mCounter = "25" /\ Act
  /\ p_fcopy' = TRUE
  /\ Go(IF Active.selected # {} THEN "65" ELSE "60")
  /\ sound' = (orphans = {})
  /\ UNCHANGED <<disk, discVars, paneVars, m_Return, confirmed, told, thread, job, orphans,
                 b_finished, iselected_item, shown, tried>>

MenuDelete ==
  /\ mCounter = "25" /\ Act /\ Go("22")
  /\ shown' = IF Active.selected # {} THEN Chosen ELSE {Active.info.item}
  /\ UNCHANGED <<disk, discVars, paneVars, m_Return, confirmed, copyVars,
                 tried, sound>>

(* Rename, make a directory, edit a title: reset the keyboard, ask it.     *)
MenuKeyboard(return) ==
  /\ mCounter = "25" /\ Act /\ Go("70")
  /\ confirmed' = FALSE /\ m_Return' = return
  /\ UNCHANGED <<disk, discVars, paneVars, copyVars, shown, tried, sound>>

MenuOther ==
  /\ mCounter = "25" /\ Act
  /\ \/ mCounter' \in {"100", "shows"} /\ UNCHANGED m_Return
     \/ Go("711") /\ m_Return' = "21"
  /\ UNCHANGED <<disk, discVars, paneVars, confirmed, copyVars, shown, tried, sound>>

MenuLeft ==
  /\ mCounter = "25" /\ mCounter' \in {"21", "50"}
  /\ UNCHANGED <<disk, discVars, paneVars, m_Return, confirmed, copyVars, checkVars>>

(* Cases 30 (which may start another program), 45 to 47, 105, 600 and 711. *)
LeaveScreen ==
  /\ \/ mCounter = "shows" /\ mCounter' \in {"21", "25", "off"}
     \/ mCounter = "711" /\ Go(m_Return)
  /\ UNCHANGED <<disk, discVars, paneVars, m_Return, confirmed, copyVars,
                 checkVars>>

(* Mutant: the pane is not renewed.                                        *)
ToDrive_NotRenewed(drive) ==
  pane' = [pane EXCEPT ![activebrowser].path = <<drive>>, ![activebrowser].cursor = 1]

ToDrive(drive) ==
  pane' = [pane EXCEPT ![activebrowser] = ResetCurrentDir([@ EXCEPT !.path = <<drive>>])]

(* Case 50, the drive window.                                              *)
DriveWindow ==
  /\ mCounter = "50"
  /\ \/ \E drive \in Drives : ToDrive(drive) /\ Go("21")
     \/ mCounter' \in {"21", "25"} /\ UNCHANGED pane
  /\ UNCHANGED <<disk, discVars, renewAll, activebrowser, m_Return, confirmed, copyVars,
                 checkVars>>

(* Case 52, a drive chosen from the list of drives.                        *)
DriveChosen ==
  /\ mCounter = "52" /\ Go("21")
  /\ ToDrive(Active.info.item[1])
  /\ UNCHANGED <<disk, discVars, renewAll, activebrowser, m_Return, confirmed, copyVars,
                 checkVars>>

-----------------------------------------------------------------------------
(* Copying.                                                                *)

(* FileCopy(); the disc drive is refused, after waiting for the thread.    *)
FileCopy(source) ==
  LET dest == pane[Other].path
  IN  IF OnD(dest)
      THEN thread = "done" /\ b_finished' = TRUE /\ UNCHANGED told
      ELSE /\ b_finished' = FALSE
           /\ told' = [item |-> source.item, kind |-> source.kind, dest |-> dest]

(* Cases 60 and 65: Create(), which lets the thread begin ...              *)
CreateThread ==
  /\ mCounter \in {"60", "65"}
  /\ Cardinality(Orphaned) <= 1
  /\ orphans' = Orphaned /\ thread' = "created" /\ job' = NoJob
  /\ Go(IF mCounter = "60" THEN "60 FileCopy" ELSE "65 FileCopy")
  /\ UNCHANGED <<disk, discVars, paneVars, m_Return, confirmed, p_fcopy, told,
                 b_finished, iselected_item, checkVars>>

(* ... and FileCopy().                                                     *)
CopyOne ==
  /\ mCounter = "60 FileCopy" /\ Go("61")
  /\ FileCopy(Active.info)
  /\ UNCHANGED <<disk, discVars, paneVars, m_Return, confirmed, p_fcopy, thread,
                 job, orphans, iselected_item, checkVars>>

(* With a disc noticed since case 66 there may be none: begin() is end().   *)
CopyNext ==
  /\ mCounter = "65 FileCopy"
  /\ \/ /\ \E s \in Active.selected :
            /\ \A t \in Active.selected : s.at <= t.at
            /\ iselected_item' = s.at
            /\ FileCopy(s)
        /\ Go("66")
     \/ /\ Active.selected = {}
        /\ iselected_item' = 0
        /\ FileCopy(NoJob)
        /\ Go("66") \/ Go("off")
  /\ UNCHANGED <<disk, discVars, paneVars, m_Return, confirmed, p_fcopy, thread,
                 job, orphans, checkVars>>

(* Case 61; it waits for ever for a thread that ended before FileCopy().   *)
CopiedOne ==
  /\ mCounter = "61"
  /\ IF b_finished
     THEN Go("21") /\ pane' = [pane EXCEPT ![Other] = ResetCurrentDir(@)]
     ELSE UNCHANGED <<mCounter, pane>>
  /\ UNCHANGED <<disk, discVars, renewAll, activebrowser, m_Return, confirmed,
                 copyVars, checkVars>>

(* Case 70, the keyboard, in a frame that has set mCounter to screen; BACK *)
(* goes to the caller, and a confirmed keyboard always to m_Return.        *)
Keyboard(screen, caller) ==
  \/ /\ UNCHANGED confirmed
     /\ \E s \in {screen, caller} : Go(IF confirmed THEN m_Return ELSE s)
  \/ confirmed' = TRUE /\ Go(m_Return)

KeyboardFrame ==
  /\ mCounter = "70"
  /\ Keyboard("70", "25")
  /\ UNCHANGED <<disk, discVars, paneVars, m_Return, copyVars, checkVars>>

(* Mutant: the selection loses an item whether or not it is finished.      *)
CopyStep_Hasty ==
  LET left == {s \in Active.selected : s.at # iselected_item}
  IN  pane' = [pane EXCEPT ![activebrowser].selected = left, ![Other] = ResetCurrentDir(@)]

(* What case 66 makes of the panes when an item is finished.               *)
CopyStep ==
  LET left == {s \in Active.selected : s.at # iselected_item}
  IN  IF b_finished
      THEN pane' = [pane EXCEPT ![activebrowser].selected = left,
                                ![Other] = ResetCurrentDir(@)]
      ELSE UNCHANGED pane

(* Case 66: an item finished leaves the selection; there is no break, so   *)
(* every frame runs on into case 70.  If the disc has taken the selection  *)
(* away, erase() gets a dangling iterator: the program dies, or goes on.   *)
CopyWait ==
  /\ mCounter = "66"
  /\ CopyStep
  /\ IF ~b_finished THEN Keyboard("66", "21")
     ELSE \/ Keyboard(IF pane'[activebrowser].selected = {} THEN "21" ELSE "65", "21")
          \/ /\ \A s \in Active.selected : s.at # iselected_item
             /\ Go("off") /\ UNCHANGED confirmed
  /\ UNCHANGED <<disk, discVars, renewAll, activebrowser, m_Return, copyVars,
                 checkVars>>

(* Case 80: rename what info says.  Case 90: make a directory.  Case 95.   *)
Rename ==
  /\ mCounter = "80" /\ Go("21") /\ renewAll' = TRUE
  /\ \E text \in Names : disk' = Renamed(Active.info.item, Append(Active.info.path, text))
  /\ UNCHANGED <<discVars, pane, activebrowser, m_Return, confirmed, copyVars,
                 checkVars>>

CreateDirectory ==
  /\ mCounter = "90" /\ Go("21") /\ renewAll' = TRUE
  /\ \E text \in Names : disk' = Made(Append(Active.info.path, text))
  /\ UNCHANGED <<discVars, pane, activebrowser, m_Return, confirmed, copyVars,
                 checkVars>>

WriteTitle ==
  /\ mCounter = "95" /\ Go("21")
  /\ UNCHANGED <<disk, discVars, paneVars, m_Return, confirmed, copyVars,
                 checkVars>>

(* Case 100: the action control list of each directory selected.  It       *)
(* erases what its iterator stands on, which may kill the program or end   *)
(* the loop early.                                                         *)
ProcessACL ==
  /\ mCounter = "100"
  /\ \E gone \in SUBSET Active.selected :
       pane' = [i \in 1..2 |-> ResetCurrentDir(
                  IF i = activebrowser THEN [pane[i] EXCEPT !.selected = @ \ gone]
                  ELSE pane[i])]
  /\ \/ /\ \E s \in Active.selected \cup {Active.info} : s.kind = "dir"
        /\ Go("21")
     \/ Go("shows")
     \/ Active.selected # {} /\ Go("off")
  /\ UNCHANGED <<disk, discVars, renewAll, activebrowser, m_Return, confirmed,
                 copyVars, checkVars>>

-----------------------------------------------------------------------------
(* The disc, and the rest of the program.                                  *)

Exchange ==
  /\ mCounter # "off" /\ discs < MaxDiscs
  /\ \E disc \in Discs :
       disk' = With(Without(Within(<<D>>) \ {<<D>>}), disc)
  /\ disk' # disk
  /\ exchanged' = TRUE /\ discs' = discs + 1
  /\ UNCHANGED <<paneVars, mCounter, m_Return, confirmed, copyVars, checkVars>>

(* Mutant: the pane goes to the new disc wherever it was.                  *)
ToNewDisc_AnyDrive == [pane EXCEPT ![1] = ResetToDevice([@ EXCEPT !.path = <<D>>])]

(* A pane that shows the disc goes back to its first directory; the second *)
(* one only if the first does not show it.                                 *)
ToNewDisc ==
  LET Reset(i) == [pane EXCEPT ![i] = ResetToDevice([@ EXCEPT !.path = <<D>>])]
  IN  IF OnD(pane[1].path) THEN Reset(1)
      ELSE IF OnD(pane[2].path) THEN Reset(2) ELSE pane

(* The end of a frame: type # prevtype.                                    *)
DiscNoticed ==
  /\ exchanged /\ ~InFileCopy /\ mCounter \notin {"elsewhere", "20", "off"}
  /\ exchanged' = FALSE /\ renewAll' = TRUE /\ UNCHANGED discs
  /\ pane' = ToNewDisc
  /\ UNCHANGED <<disk, activebrowser, mCounter, m_Return, confirmed, copyVars,
                 checkVars>>

(* The main menu opens the file manager; the wizard and the settings use   *)
(* the same keyboard, and return to their own screens.                     *)
Enter ==
  /\ mCounter = "elsewhere" /\ Go("20")
  /\ UNCHANGED <<disk, discVars, paneVars, m_Return, confirmed, copyVars,
                 checkVars>>

KeyboardElsewhere ==
  /\ mCounter = "elsewhere"
  /\ confirmed' = TRUE /\ m_Return' = "elsewhere"
  /\ UNCHANGED <<disk, discVars, paneVars, mCounter, copyVars, checkVars>>

Init ==
  /\ disk = OnDisk
  /\ exchanged = FALSE
  /\ pane = [i \in 1..2 |-> Fresh] /\ renewAll = TRUE /\ activebrowser = 1
  /\ mCounter = "elsewhere" /\ m_Return = "elsewhere"
  /\ confirmed = FALSE
  /\ p_fcopy = FALSE /\ told = NoJob /\ thread = "none" /\ job = NoJob /\ orphans = {}
  /\ b_finished = FALSE /\ iselected_item = 0
  /\ presses = 0 /\ acts = 0 /\ discs = 0 /\ shown = {} /\ tried = {} /\ sound = TRUE

(* Another program runs, or this one died.                                 *)
OffForGood == mCounter = "off" /\ UNCHANGED vars

Next ==
  \/ Open \/ \E button \in Presses[activebrowser] : Browse(button)
  \/ Confirm \/ Delete
  \/ MenuCopy \/ MenuDelete \/ MenuOther \/ MenuLeft \/ LeaveScreen
  \/ \E return \in {"80", "90", "95"} : MenuKeyboard(return)
  \/ DriveWindow \/ DriveChosen
  \/ CreateThread \/ CopyOne \/ CopyNext \/ CopiedOne \/ CopyWait
  \/ KeyboardFrame \/ Rename \/ CreateDirectory \/ WriteTitle \/ ProcessACL
  \/ ThreadBegins \/ ThreadEnds \/ \E j \in orphans : OrphanEnds(j)
  \/ Exchange \/ DiscNoticed
  \/ Enter \/ KeyboardElsewhere \/ OffForGood

Spec == Init /\ [][Next]_vars

-----------------------------------------------------------------------------
(* Properties.                                                             *)

(* Whatever the screens act on with a selection, it is of the directory    *)
(* its pane shows, through changes of drive, directory and disc.           *)
SelectionInPane ==
  mCounter \in {"22", "23", "25", "60", "65", "65 FileCopy", "66", "100"} =>
    \A s \in Active.selected :
      s.item = Active.path \/ Front(s.item) = Active.path

(* Case 23 deletes nothing from the hard disk but what was selected, or    *)
(* under the cursor, when the confirmation came up.                        *)
DeletesWhatWasShown ==
  [][mCounter = "23" =>
       \A p \in DOMAIN disk \ DOMAIN disk' :
         OnD(p) \/ \E item \in shown : IsPrefix(item, p)]_vars

(* An item that a copy of several takes off the selection was copied, or   *)
(* tried to, by the thread; provided no thread read its orders before they *)
(* were given, or was left running by an earlier copy, and while no disc   *)
(* was exchanged that the main loop has not noticed.  After an exchange    *)
(* the end of the frame empties the selection of a pane on the disc, which *)
(* is no copy's doing, and the erase() of dvd2xbox.cpp:1918 then gets a    *)
(* dangling iterator: that case is left out here (see README).             *)
TakenOffWhenCopied ==
  [][mCounter = "66" /\ sound /\ ~exchanged =>
       \A s \in Active.selected \ Active'.selected : s.item \in tried]_vars

(* A copy of several items is not cut short by a keyboard nobody was asked *)
(* to use: README.md:13 has the disk browser copy files, case 70 is the    *)
(* keyboard of the other screens.                                          *)
NoKeyboardDuringCopy ==
  [][mCounter = "66" => mCounter' \in {"65", "66", "21", "off"}]_vars
====
