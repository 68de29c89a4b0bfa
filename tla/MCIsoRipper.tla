---------------------------- MODULE MCIsoRipper ----------------------------
(* Discs of up to two slices and a bit, with up to two bad sectors.        *)
EXTENDS IsoRipper, FiniteSets

MCLevels == <<4, 2, 1>>
MCBad == {b \in SUBSET (0..10) : Cardinality(b) <= 2}
MCNames == [k \in 0..11 |-> IF k = 0 THEN "title.part 00.iso" ELSE
                          IF k = 1 THEN "title.part 01.iso" ELSE "title.part 02.iso"]
====
