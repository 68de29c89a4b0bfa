--------------------------- MODULE MCFileManager ---------------------------
(***************************************************************************)
(* The DVD drive and one partition with a directory that holds a file, a   *)
(* disc with two files, and an empty drive; two names.                     *)
(***************************************************************************)
EXTENDS FileManager, TLC

CONSTANTS d, e, x, y

TwoDrives == {d, e}
TwoNames  == {x, y}
Ranks     == [n \in TwoDrives \cup TwoNames |-> IF n \in {e, x} THEN 1 ELSE 2]
Partition == [p \in {<<d>>, <<e>>, <<e, y>>} |-> "dir"]
TwoFiles  == [p \in {<<d, x>>, <<d, y>>} |-> "file"]
AtFirst   == Partition @@ TwoFiles @@ (<<e, y, x>> :> "file")
NoDisc    == [p \in {} |-> "file"]
Levels    == <<2, 1>>
ThePresses == <<{"none", "down", "a", "y", "x", "right", "white"},
                {"none", "up", "a", "back", "left", "white"}>>
TheDiscs  == {TwoFiles, NoDisc}
====
