---------------------------- MODULE MCDriveStatus ----------------------------
(***************************************************************************)
(* Two kinds of discs; every transition, and a file that leaves out two of *)
(* the statuses.                                                           *)
(***************************************************************************)
EXTENDS DriveStatus

Threads     == {"main", "drive", "light"}
AllStatuses == {"general", "opentray", "shutdown"}
TwoKinds    == {"game", "dvd"}
TheMaps ==
  {[general |-> "switch", opentray |-> "none", shutdown |-> "none"],
   [general |-> "fadeloop", opentray |-> "blink", shutdown |-> "fade"],
   [general |-> "faderepeat"]}
TheMoves   == [lit \in BOOLEAN |-> IF lit THEN 1 ELSE 5]
TheChoices == [lit \in BOOLEAN |-> IF lit THEN 0 ELSE 3]
====
