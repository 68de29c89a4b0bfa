----------------------------- MODULE GameManager -----------------------------
(***************************************************************************)
(* The game manager: the file of games on the hard disk (disk_statsPath),  *)
(* the list D2XGM keeps of it in memory, and the directories both are      *)
(* about.  The main loop scans the game directories into the file (cases   *)
(* 750 to 757) and shows the list (case 760), from which games are         *)
(* deleted; the copy wizard adds a game it has copied (case 6).  The FTP   *)
(* server changes the directories at any time, a scan included.            *)
(*                                                                         *)
(* A scan looks at one directory at a time.  addItem and deleteItem are    *)
(* one step each, which a power-off may cut in two.  What they write is    *)
(* written, the disk is never full, one item or header reaches the disk    *)
(* whole or not at all, and MoveFileEx replaces the old file at once.      *)
(*                                                                         *)
(* A power-off in addItem leaves a count that is ahead of the items.  The  *)
(* program does not notice: it reads past the end of the list and leaves   *)
(* holes in the file, whose bytes may be an old entry or anything else.    *)
(*                                                                         *)
(* Left out: titles other than as the order of the list, sizes, deleting   *)
(* game saves (nothing here depends on them), what the window draws.       *)
(***************************************************************************)
EXTENDS Integers, Sequences, FiniteSets

CONSTANTS
  Games,      \* the paths of the directories games live in
  Junk,       \* what else an entry that nobody wrote may hold: no path there is
  Covers,     \* the paths whose text begins with a given path
  Title,      \* the order of the titles
  ShowLines,  \* showlines: rows of the window
  MaxItems,   \* BOUND on the count up to which copies and cut additions go
  MaxGarbage, \* BOUND on the count in a header that has not been read
  PowerOff    \* whether the console may be switched off without notice

Entries == Games \cup Junk

ASSUME GameAssumption ==
  /\ Games \cap Junk = {}
  /\ Covers \in [Games -> SUBSET Games]
  /\ \A g \in Games : g \in Covers[g]
  /\ Title \in [Entries -> Nat]
  /\ ShowLines \in Nat \ {0}
  /\ MaxItems \in Nat /\ MaxGarbage \in Nat
  /\ PowerOff \in BOOLEAN

VARIABLES
  disk,      \* each directory: not there, there, or with a default.xbe
  stats,     \* the file of games: there or not, with a header, its count, the items
  leaked,    \* PrepareList left the file open
  list,      \* global_list: the header's count and the items
  mCounter,  \* the screen, or the part of a scan
  todo,      \* what a scan has still to look at
  gm_mode, cbrowse, crelbrowse, coffset,
  moved      \* the directories changed since the scan began (read by properties only)

listVars   == <<stats, leaked, list>>
windowVars == <<gm_mode, cbrowse, crelbrowse, coffset>>
vars == <<disk, listVars, mCounter, todo, windowVars, moved>>

NoFile == [there |-> FALSE, headed |-> FALSE, total |-> 0, items |-> <<>>]
Modes  == {"SHOWLIST", "OPTIONS", "DELETE_GAME", "DELETE_GAME_PROGRESS",
           "NO_GAMES_FOUND"}
Screens == {"mainmenu", "750", "755", "757 prepare", "757 scan", "757 vanished", "760",
            "off"}

TypeOK ==
  /\ disk \in [Games -> {"none", "dir", "game"}]
  /\ stats \in [there : BOOLEAN, headed : BOOLEAN, total : Nat, items : Seq(Entries)]
  /\ (stats.there \/ stats = NoFile)
  /\ (stats.headed \/ (stats.total = 0 /\ stats.items = <<>>))
  /\ list \in [total : Nat, items : Seq(Entries)]
  /\ leaked \in BOOLEAN
  /\ mCounter \in Screens
  /\ todo \subseteq Entries
  /\ gm_mode \in Modes
  /\ cbrowse \in Nat \ {0} /\ crelbrowse \in 1..ShowLines /\ coffset \in Nat
  /\ moved \subseteq Games

-----------------------------------------------------------------------------
(* The file of games.                                                      *)

(* The count addItem reads: from a file without a header, any.             *)
Counts == IF stats.there /\ ~stats.headed THEN 0..MaxGarbage ELSE {stats.total}

(* Its item goes where the count says.  If that is further on than the end *)
(* of the file, nobody writes what lies between.                           *)
Written(n, g) ==
  {s \in [1..(n + 1) \cup DOMAIN stats.items -> Entries] :
     s[n + 1] = g /\ \A i \in DOMAIN stats.items \ {n + 1} : s[i] = stats.items[i]}

(* What addItem makes of the file; it makes the file if need be.           *)
Added(g) ==
  UNION {{[there |-> TRUE, headed |-> TRUE, total |-> n + 1, items |-> s] :
            s \in Written(n, g)} : n \in Counts}

(* What a power-off in addItem leaves: a new file without a header, or a   *)
(* header with the new count and not yet the item.                         *)
AddedTorn ==
  {[stats EXCEPT !.there = TRUE]} \cup
  {[there |-> TRUE, headed |-> TRUE, total |-> n + 1, items |-> stats.items] : n \in Counts}

(* Mutant: the file is read to its end, not as far as its header says.     *)
Reads_Stops(x) == stats.items

(* deleteItem reads as many items as the header counts.  Beyond the last   *)
(* one fread fails and leaves in sitem what it had, x.                     *)
Reads(x) == [i \in 1..stats.total |-> IF i \in DOMAIN stats.items THEN stats.items[i] ELSE x]
Spare    == IF stats.items = <<>> THEN Entries ELSE {stats.items[Len(stats.items)]}

(* The items it copies: all but those with that very path, in their order. *)
Kept(s, g)    == {i \in DOMAIN s : s[i] # g}
Rank(s, g, i) == Cardinality({j \in Kept(s, g) : j <= i})
Without(s, g) ==
  [k \in 1..Cardinality(Kept(s, g)) |-> s[CHOOSE i \in Kept(s, g) : Rank(s, g, i) = k]]

(* What it moves over the old file (which has a header: with none, the     *)
(* list is empty, and there is nothing to delete) ...                      *)
Copied(s, g) ==
  [there |-> TRUE, headed |-> TRUE,
   total |-> stats.total - (Len(s) - Len(Without(s, g))), items |-> Without(s, g)]
Rewritten(g) == {Copied(Reads(x), g) : x \in Spare}

(* ... and deletes if it has become empty.  The move fails if the file is  *)
(* open.                                                                   *)
Deleted(g) ==
  IF ~stats.there \/ leaked THEN {stats}
  ELSE {IF f.total = 0 THEN NoFile ELSE f : f \in Rewritten(g)}

(* Mutant: the file is emptied and written in place.                       *)
Torn_InPlace(g) == {stats, [stats EXCEPT !.items = <<>>, !.total = 0]} \cup Rewritten(g)

(* What a power-off in deleteItem leaves of it.                            *)
Torn(g) == IF leaked THEN {stats} ELSE {stats} \cup Rewritten(g)

(* What global_list.item[0] to item[total_items-1] may read: beyond the    *)
(* end of the vector, anything.                                            *)
AsRead ==
  {e \in [1..list.total -> Entries] :
     \A i \in 1..list.total \cap DOMAIN list.items : e[i] = list.items[i]}

(* GetFileAttributes.                                                      *)
Attributes(p) == IF p \in Games THEN disk[p] ELSE "none"

(* Mutant: the path is looked up among all paths that begin alike.         *)
IsPathListed_Both(g, e) ==
  \E i \in DOMAIN e : e[i] \in Games /\ (g \in Covers[e[i]] \/ e[i] \in Covers[g])

(* isPathListed: is there an item whose path begins with this one?         *)
IsPathListed(g, e) == \E i \in DOMAIN e : e[i] \in Covers[g]

(* The items in the order of their titles; equal titles in any order.      *)
Sorted(items) ==
  LET Times(r, g) == Cardinality({i \in DOMAIN r : r[i] = g})
  IN  {r \in [DOMAIN items -> {items[i] : i \in DOMAIN items}] :
         /\ \A g \in Entries : Times(r, g) = Times(items, g)
         /\ \A i, j \in DOMAIN r : i < j => Title[r[i]] <= Title[r[j]]}

(* Mutant: the cursor stays where it was.                                  *)
PrepareList_KeepCursor ==
  /\ IF stats'.there /\ stats'.total > 0
     THEN \E r \in Sorted(stats'.items) : list' = [total |-> stats'.total, items |-> r]
     ELSE list' = [total |-> 0, items |-> <<>>]
  /\ UNCHANGED <<cbrowse, crelbrowse, coffset>>
  /\ leaked' = (leaked \/ (stats'.there /\ stats'.total = 0))

(* PrepareList reads the file it is given; one without items stays open.   *)
PrepareList ==
  /\ IF stats'.there /\ stats'.total > 0
     THEN /\ \E r \in Sorted(stats'.items) :
               list' = [total |-> stats'.total, items |-> r]
          /\ cbrowse' = 1 /\ crelbrowse' = 1 /\ coffset' = 0
     ELSE /\ list' = [total |-> 0, items |-> <<>>]
          /\ UNCHANGED <<cbrowse, crelbrowse, coffset>>
  /\ leaked' = (leaked \/ (stats'.there /\ stats'.total = 0))

-----------------------------------------------------------------------------
(* Power, and opening the game manager.                                    *)

(* The constructor; also stands for no D2XGM at all.                       *)
FreshManager ==
  /\ list' = [total |-> 0, items |-> <<>>]
  /\ gm_mode' = "SHOWLIST" /\ cbrowse' = 1 /\ crelbrowse' = 1 /\ coffset' = 0
  /\ moved' = {}

(* All that is in memory is gone.                                          *)
Off ==
  /\ mCounter' = "off"
  /\ leaked' = FALSE
  /\ todo' = {}
  /\ FreshManager

(* The power goes.  Stands also for a read past the end of the list that   *)
(* stops the program.                                                      *)
SwitchOff ==
  /\ PowerOff /\ mCounter # "off"
  /\ Off
  /\ UNCHANGED <<disk, stats>>

(* The power goes in addItem or in deleteItem, after part of the writing.  *)
CutAdd       == PowerOff /\ stats.total < MaxItems /\ stats' \in AddedTorn /\ Off
CutDelete(g) == PowerOff /\ stats.there /\ stats' \in Torn(g) /\ Off

(* A scan goes on to the next one.                                         *)
Seen(g) == todo' = todo \ {g} /\ UNCHANGED <<leaked, list, mCounter, windowVars, moved>>

(* Case 750: a new D2XGM; with no file a full scan, else a quick one.      *)
Open ==
  /\ mCounter = "750"
  /\ FreshManager
  /\ mCounter' = IF stats.there THEN "757 prepare" ELSE "755"
  /\ todo' = Games
  /\ UNCHANGED <<disk, stats, leaked>>

(* Case 755: ScanHardDrive looks at the next directory ...                 *)
FullScan(g) ==
  /\ mCounter = "755"
  /\ g \in todo
  /\ \/ disk[g] # "game" /\ UNCHANGED stats /\ Seen(g)
     \/ disk[g] = "game" /\ stats' \in Added(g) /\ Seen(g)
     \/ disk[g] = "game" /\ CutAdd
  /\ UNCHANGED disk

(* ... until all have been seen.                                           *)
FullScanDone ==
  /\ mCounter = "755" /\ todo = {}
  /\ UNCHANGED stats /\ PrepareList
  /\ mCounter' = "760"
  /\ UNCHANGED <<disk, todo, gm_mode, moved>>

(* Case 757: the list as it was ...                                        *)
QuickPrepare ==
  /\ mCounter = "757 prepare"
  /\ UNCHANGED stats /\ PrepareList
  /\ mCounter' = "757 scan"
  /\ UNCHANGED <<disk, todo, gm_mode, moved>>

(* ... "check if we have a new directory on hdd which isn't listed" ...    *)
QuickScan(g) ==
  /\ mCounter = "757 scan"
  /\ g \in todo
  /\ \E e \in AsRead :
       IF disk[g] = "game" /\ ~IsPathListed(g, e)
       THEN (stats' \in Added(g) /\ Seen(g)) \/ CutAdd
       ELSE UNCHANGED stats /\ Seen(g)
  /\ UNCHANGED disk

(* Mutant: the second check starts from the games found by the first.      *)
QuickScanned_NoSecond ==
  /\ mCounter = "757 scan" /\ todo = {}
  /\ mCounter' = "757 vanished"
  /\ UNCHANGED <<disk, listVars, todo, windowVars, moved>>

QuickScanned ==
  /\ mCounter = "757 scan" /\ todo = {}
  /\ mCounter' = "757 vanished"
  /\ \E e \in AsRead : todo' = {e[i] : i \in DOMAIN e}
  /\ UNCHANGED <<disk, listVars, windowVars, moved>>

(* ... "check if we have a directory in the list which is vanished from    *)
(* hdd" ...                                                                *)
Vanished(p) ==
  /\ mCounter = "757 vanished"
  /\ p \in todo
  /\ \/ Attributes(p) # "none" /\ UNCHANGED stats /\ Seen(p)
     \/ Attributes(p) = "none" /\ stats' \in Deleted(p) /\ Seen(p)
     \/ Attributes(p) = "none" /\ CutDelete(p)
  /\ UNCHANGED disk

(* ... and the list as it is now.                                          *)
QuickScanDone ==
  /\ mCounter = "757 vanished" /\ todo = {}
  /\ UNCHANGED stats /\ PrepareList
  /\ mCounter' = "760"
  /\ UNCHANGED <<disk, todo, gm_mode, moved>>

-----------------------------------------------------------------------------
(* Case 760: the list and its options.                                     *)

Listing == mCounter = "760" /\ gm_mode = "SHOWLIST" /\ list.total # 0

Up ==
  /\ Listing
  /\ cbrowse' = IF cbrowse > 1 THEN cbrowse - 1 ELSE cbrowse
  /\ crelbrowse' = IF crelbrowse > 1 THEN crelbrowse - 1 ELSE crelbrowse
  /\ coffset' = IF crelbrowse = 1 /\ coffset > 0 THEN coffset - 1 ELSE coffset
  /\ UNCHANGED <<disk, listVars, mCounter, todo, gm_mode, moved>>

(* Mutant: the row of the cursor is counted on beyond the window.          *)
Down_NoBound ==
  /\ Listing
  /\ cbrowse' = IF cbrowse < list.total THEN cbrowse + 1 ELSE cbrowse
  /\ crelbrowse' = crelbrowse + 1
  /\ UNCHANGED <<disk, listVars, mCounter, todo, gm_mode, coffset, moved>>

Down ==
  /\ Listing
  /\ cbrowse' = IF cbrowse < list.total THEN cbrowse + 1 ELSE cbrowse
  /\ crelbrowse' = IF crelbrowse < ShowLines THEN crelbrowse + 1 ELSE crelbrowse
  /\ coffset' = IF crelbrowse = ShowLines /\ coffset < list.total - ShowLines
                THEN coffset + 1 ELSE coffset
  /\ UNCHANGED <<disk, listVars, mCounter, todo, gm_mode, moved>>

(* Keys that change the mode.                                              *)
Mode ==
  /\ mCounter = "760"
  /\ \/ Listing /\ gm_mode' = "OPTIONS"
     \/ gm_mode = "OPTIONS" /\ gm_mode' \in {"DELETE_GAME", "SHOWLIST"}
     \/ gm_mode = "DELETE_GAME" /\ gm_mode' \in {"DELETE_GAME_PROGRESS", "SHOWLIST"}
     \/ gm_mode = "SHOWLIST" /\ list.total = 0 /\ gm_mode' = "NO_GAMES_FOUND"
  /\ UNCHANGED <<disk, listVars, mCounter, todo, cbrowse, crelbrowse, coffset, moved>>

(* By BACK, or from any mode by a shortcut.                                *)
Leave ==
  /\ mCounter = "760" /\ gm_mode # "DELETE_GAME_PROGRESS"
  /\ mCounter' = "mainmenu"
  /\ FreshManager
  /\ UNCHANGED <<disk, stats, leaked, todo>>

(* A starts the game, if its default.xbe is there, and ends this program.  *)
Launch ==
  /\ Listing
  /\ \E e \in AsRead : Attributes(e[cbrowse]) = "game"
  /\ Off
  /\ UNCHANGED <<disk, stats>>

(* "Rescan HDD": DeleteStats, then case 750 anew.                          *)
Rescan ==
  /\ mCounter = "760" /\ gm_mode = "OPTIONS"
  /\ stats' = IF leaked THEN stats ELSE NoFile
  /\ mCounter' = "750"
  /\ FreshManager   \* case 750 makes a new one anyway
  /\ UNCHANGED <<disk, leaked, todo>>

(* Delete a game: whatever DeleteDirectory leaves of it, it leaves the     *)
(* file, and the list is read again.                                       *)
DeleteGame ==
  /\ mCounter = "760" /\ gm_mode = "DELETE_GAME_PROGRESS"
  /\ \E e \in AsRead :
       LET g == e[cbrowse] IN
       /\ \E d \in {"none", "dir", Attributes(g)} :
            disk' = [h \in Games |-> IF h = g THEN d ELSE disk[h]]
       /\ \/ /\ stats' \in Deleted(g)
             /\ PrepareList
             /\ gm_mode' = "SHOWLIST"
             /\ UNCHANGED <<mCounter, todo, moved>>
          \/ CutDelete(g)

-----------------------------------------------------------------------------
(* The rest of the program.                                                *)

(* The user opens the game manager.                                        *)
Enter ==
  /\ mCounter = "mainmenu"
  /\ mCounter' = "750"
  /\ UNCHANGED <<disk, listVars, todo, windowVars, moved>>

(* Case 6: a game has been copied to g, which may have been there before;  *)
(* AddGameToList adds it if its default.xbe has come along.                *)
CopyGame(g) ==
  /\ mCounter = "mainmenu"
  /\ \/ /\ disk' = [disk EXCEPT ![g] = "game"]
        /\ \/ /\ stats.total < MaxItems /\ stats' \in Added(g)
              /\ UNCHANGED <<leaked, list, mCounter, todo, windowVars, moved>>
           \/ CutAdd
     \/ /\ disk[g] # "game"
        /\ disk' = [disk EXCEPT ![g] = "dir"]
        /\ UNCHANGED <<listVars, mCounter, todo, windowVars, moved>>

(* Somebody makes, fills or deletes a directory by FTP.                    *)
Ftp(g) ==
  /\ mCounter # "off"
  /\ \E d \in {"none", "dir", "game"} \ {disk[g]} : disk' = [disk EXCEPT ![g] = d]
  /\ moved' = IF mCounter = "mainmenu" THEN moved ELSE moved \cup {g}
  /\ UNCHANGED <<listVars, mCounter, todo, windowVars>>

(* The console is switched on again.                                       *)
Boot ==
  /\ mCounter = "off"
  /\ mCounter' = "mainmenu"
  /\ UNCHANGED <<disk, listVars, todo, windowVars, moved>>

-----------------------------------------------------------------------------
Init ==
  /\ disk \in [Games -> {"none", "game"}]
  /\ stats = NoFile
  /\ leaked = FALSE
  /\ list = [total |-> 0, items |-> <<>>]
  /\ mCounter = "mainmenu"
  /\ todo = {}
  /\ gm_mode = "SHOWLIST" /\ cbrowse = 1 /\ crelbrowse = 1 /\ coffset = 0
  /\ moved = {}

Next ==
  \/ Enter \/ Open \/ FullScanDone \/ QuickPrepare \/ QuickScanned \/ QuickScanDone
  \/ Up \/ Down \/ Mode \/ Leave \/ Launch \/ Rescan \/ DeleteGame
  \/ SwitchOff \/ Boot
  \/ \E g \in Games : FullScan(g) \/ QuickScan(g) \/ CopyGame(g) \/ Ftp(g)
  \/ \E p \in Entries : Vanished(p)

Spec == Init /\ [][Next]_vars
-----------------------------------------------------------------------------
(* Properties.                                                             *)

InFile == {stats.items[i] : i \in DOMAIN stats.items}
Rows   == DOMAIN list.items

(* The list has an item for all that its header counts: it was not read    *)
(* from a file in which addItem was cut by a power-off.                    *)
WholeList == list.total = Len(list.items)

(* Whatever power-offs have made of the file of games, the count and the   *)
(* items agree again after the next addItem or deleteItem that comes to    *)
(* its end: only a power-off leaves them apart, and no addItem writes over *)
(* an item or deleteItem leaves one behind.                                *)
CountRestored ==
  [][stats' # stats /\ mCounter' # "off" => stats'.total = Len(stats'.items)]_vars

(* Whenever the game manager uses global_list.item[cbrowse-1], that row is *)
(* one the window shows, and its item exists if the list is whole: no      *)
(* deletion, rescan or scrolling leaves the cursor on another row than the *)
(* one the user sees.                                                      *)
CursorOnShownItem ==
  mCounter = "760" /\ (gm_mode = "DELETE_GAME_PROGRESS" \/ list.total # 0) =>
    /\ cbrowse \in 1..list.total /\ coffset < cbrowse /\ cbrowse <= coffset + ShowLines
    /\ WholeList => cbrowse \in Rows

(* A game that stayed in its directory during the whole scan is in the     *)
(* list the scan ends with, unless the list it began with was not whole or *)
(* held a longer path that begins with the game's: isPathListed takes it   *)
(* for listed then, even if the longer path is gone from the disk.         *)
ScanFinds ==
  [][mCounter' = "760" /\ mCounter \in {"755", "757 vanished"} /\ WholeList =>
       \A g \in Games \ moved : disk[g] = "game" =>
         \/ \E i \in DOMAIN list'.items : list'.items[i] = g
         \/ \E i \in DOMAIN list.items : list.items[i] \in Covers[g] \ {g}]_vars

(* A directory that was gone during the whole scan is in that list no      *)
(* more, unless a file that was left open cannot be replaced, or the list  *)
(* the scan began with was not whole: a hole may hold an old entry.        *)
ScanForgets ==
  [][mCounter' = "760" /\ mCounter \in {"755", "757 vanished"} /\ ~leaked /\ WholeList =>
       \A g \in Games \ moved : disk[g] = "none" =>
         \A i \in DOMAIN list'.items : list'.items[i] # g]_vars

(* Games get lost from the file only by a rescan, if the user deletes      *)
(* them, and if their directories are gone: adding or deleting one spares  *)
(* all the others, and so does a power-off meanwhile.  (Deleting in a row  *)
(* that has no item, in a list that is not whole, may hit any of them.)    *)
KeepsOthers ==
  [][\A g \in Games \cap (InFile \ InFile') :
       \/ mCounter' = "750"
       \/ gm_mode = "DELETE_GAME_PROGRESS" /\ (cbrowse \in Rows => g = list.items[cbrowse])
       \/ mCounter = "757 vanished" /\ disk[g] = "none"]_vars
====
