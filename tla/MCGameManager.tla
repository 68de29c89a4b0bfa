--------------------------- MODULE MCGameManager ---------------------------
(***************************************************************************)
(* Two games, the path of the second beginning with that of the first      *)
(* ("Halo", "Halo 2"), entries that are no game, and a window of two rows. *)
(***************************************************************************)
EXTENDS GameManager

CONSTANTS halo, halo2, junk

TwoGames == {halo, halo2}
NoGames  == {junk}
HaloCovers == [g \in TwoGames |-> IF g = halo THEN {halo, halo2} ELSE {g}]
Titles == [g \in TwoGames \cup NoGames |-> IF g = halo THEN 2 ELSE 1]
====
