-------------------------- MODULE GameManagerProofs --------------------------
(***************************************************************************)
(* That the count of the file of games is put right after a power-off,     *)
(* that the list and the window agree, that a scan finds what is there and *)
(* forgets what is gone, and that deleting one game spares the others, for *)
(* any games, entries, paths, titles and window.                           *)
(***************************************************************************)
EXTENDS GameManager, FiniteSetTheorems, TLAPS

InList == {list.items[i] : i \in DOMAIN list.items}

(* The window: once the list is longer, the cursor is in row crelbrowse;   *)
(* a shorter one never scrolls, but crelbrowse may run ahead.              *)
CursorInv ==
  list.total # 0 =>
    /\ cbrowse <= list.total
    /\ list.total <= ShowLines => coffset = 0
    /\ list.total > ShowLines =>
         coffset <= list.total - ShowLines /\ cbrowse = coffset + crelbrowse

(* There are options only for a game.                                      *)
ModeInv ==
  /\ mCounter # "760" => gm_mode = "SHOWLIST"
  /\ gm_mode \in {"OPTIONS", "DELETE_GAME", "DELETE_GAME_PROGRESS"} => list.total # 0


Hidden(g) == \E i \in DOMAIN list.items : list.items[i] \in Covers[g] \ {g}

(* A count is never behind the items: addItem writes it first.             *)
CountCovers == Len(stats.items) <= stats.total /\ Len(list.items) <= list.total

(* There is nothing for the next addItem to leave a hole in.               *)
Agreed == stats.total = Len(stats.items) /\ (stats.there => stats.headed)

AgreeInv ==
  /\ mCounter = "755" => Agreed
  /\ mCounter \in {"757 scan", "757 vanished"} /\ WholeList /\ ~leaked => Agreed

(* What has been looked at and stayed is in the file, if it is a game ...  *)
FoundInv ==
  /\ mCounter = "757 prepare" => todo = Games
  /\ mCounter = "755" =>
       \A g \in Games \ (todo \cup moved) : disk[g] = "game" => g \in InFile
  /\ mCounter = "757 scan" => InList \subseteq InFile
  /\ mCounter = "757 scan" /\ WholeList =>
       \A g \in Games \ (todo \cup moved) : disk[g] = "game" => g \in InFile \/ Hidden(g)
  /\ mCounter = "757 vanished" /\ WholeList =>
       \A g \in Games \ moved : disk[g] = "game" => g \in InFile \/ Hidden(g)

(* ... and not, or not for long, if it is gone.                            *)
GoneInv ==
  \A g \in (Games \cap InFile) \ moved : disk[g] = "none" =>
    /\ mCounter # "755"
    /\ mCounter = "757 scan" /\ WholeList /\ ~leaked => g \in InList
    /\ mCounter = "757 vanished" /\ WholeList /\ ~leaked => g \in todo

WindowInv == TypeOK /\ CountCovers /\ CursorInv /\ ModeInv
ScanInv   == AgreeInv /\ FoundInv /\ GoneInv

-----------------------------------------------------------------------------
(* What deleteItem copies.                                                 *)

LEMMA StatsTypes ==
  ASSUME TypeOK
  PROVE  /\ stats.there \in BOOLEAN /\ stats.headed \in BOOLEAN
         /\ stats.total \in Nat /\ stats.items \in Seq(Entries)
         /\ Len(stats.items) \in Nat /\ DOMAIN stats.items = 1..Len(stats.items)
         /\ \A i \in DOMAIN stats.items : stats.items[i] \in Entries
         /\ InFile \subseteq Entries
<1>1. /\ stats.there \in BOOLEAN /\ stats.headed \in BOOLEAN
      /\ stats.total \in Nat /\ stats.items \in Seq(Entries)
  BY DEF TypeOK
<1>2. Len(stats.items) \in Nat /\ DOMAIN stats.items = 1..Len(stats.items)
  BY <1>1
<1>3. \A i \in DOMAIN stats.items : stats.items[i] \in Entries
  BY <1>1
<1> QED BY <1>1, <1>2, <1>3 DEF InFile

Values(s) == {s[i] : i \in DOMAIN s}

LEMMA KeptFinite ==
  ASSUME NEW s \in Seq(Entries), NEW g
  PROVE  /\ IsFiniteSet(Kept(s, g)) /\ Cardinality(Kept(s, g)) \in Nat
         /\ Kept(s, g) \subseteq 1..Len(s) /\ Len(s) \in Nat
         /\ \A i : IsFiniteSet({j \in Kept(s, g) : j <= i})
<1>1. Kept(s, g) \subseteq 1..Len(s) /\ Len(s) \in Nat
  BY DEF Kept
<1>2. IsFiniteSet(1..Len(s))
  BY <1>1, FS_Interval
<1>3. IsFiniteSet(Kept(s, g))
  BY <1>1, <1>2, FS_Subset
<1> QED BY <1>1, <1>3, FS_Subset, FS_CardinalityType

(* The items kept are counted through without a gap.                       *)
LEMMA Ranks ==
  ASSUME NEW s \in Seq(Entries), NEW g
  PROVE  /\ \A i \in Kept(s, g) : Rank(s, g, i) \in 1..Cardinality(Kept(s, g))
         /\ \A i, j \in Kept(s, g) : i < j => Rank(s, g, i) < Rank(s, g, j)
         /\ \A k \in 1..Cardinality(Kept(s, g)) : \E i \in Kept(s, g) : Rank(s, g, i) = k
<1> DEFINE K == Kept(s, g)
           upTo(i) == {j \in K : j <= i}
           n == Cardinality(K)
<1>1. IsFiniteSet(K) /\ n \in Nat /\ K \subseteq Nat /\ \A i : IsFiniteSet(upTo(i))
  <2>1. K \subseteq 1..Len(s) /\ Len(s) \in Nat
    BY KeptFinite
  <2>2. K \subseteq Nat
    BY <2>1
  <2> QED BY <2>2, KeptFinite
<1>2. \A i \in K : Rank(s, g, i) = Cardinality(upTo(i)) /\ i \in upTo(i) /\ upTo(i) \subseteq K
  BY <1>1 DEF Rank
<1>3. \A i \in K : Rank(s, g, i) \in 1..n
  <2> TAKE i \in K
  <2>1. Cardinality(upTo(i)) \in Nat /\ Cardinality(upTo(i)) <= n
    BY <1>1, <1>2, FS_Subset, FS_CardinalityType
  <2>2. Cardinality(upTo(i)) # 0
    BY <1>1, <1>2, FS_EmptySet
  <2> HIDE DEF n, upTo
  <2> QED BY <1>1, <1>2, <2>1, <2>2
<1>4. \A i, j \in K : i < j => Rank(s, g, i) < Rank(s, g, j)
  <2> SUFFICES ASSUME NEW i \in K, NEW j \in K, i < j
               PROVE  Rank(s, g, i) < Rank(s, g, j)
    OBVIOUS
  <2>1. i \in Nat /\ j \in Nat
    BY <1>1
  <2>2. upTo(i) \subseteq upTo(j) /\ j \notin upTo(i) /\ j \in upTo(j)
    BY <1>1, <2>1
  <2>3. Cardinality(upTo(i)) < Cardinality(upTo(j))
    <3>1. upTo(i) # upTo(j)
      BY <2>2
    <3>2. Cardinality(upTo(i)) # Cardinality(upTo(j))
          /\ Cardinality(upTo(i)) <= Cardinality(upTo(j))
      BY <1>1, <2>2, <3>1, FS_Subset
    <3>3. Cardinality(upTo(i)) \in Nat /\ Cardinality(upTo(j)) \in Nat
      BY <1>1, FS_CardinalityType
    <3> HIDE DEF upTo
    <3> QED BY <3>2, <3>3
  <2> QED BY <1>2, <2>3
<1>5. \A k \in 1..n : \E i \in K : Rank(s, g, i) = k
  <2> DEFINE f == [i \in K |-> Rank(s, g, i)]
  <2>1. f \in [K -> 1..n]
    BY <1>3
  <2>2. \A i, j \in K : i # j => f[i] # f[j]
    <3> SUFFICES ASSUME NEW i \in K, NEW j \in K, i # j
                 PROVE  Rank(s, g, i) # Rank(s, g, j)
      OBVIOUS
    <3>1. i \in Nat /\ j \in Nat /\ Rank(s, g, i) \in Nat /\ Rank(s, g, j) \in Nat
      BY <1>1, <1>3
    <3>2. i < j \/ j < i
      BY <3>1
    <3> QED BY <1>4, <3>1, <3>2
  <2>3. f \in Injection(K, 1..n)
    BY <2>1, <2>2 DEF Injection, IsInjective
  <2>4. IsFiniteSet(1..n) /\ Cardinality(1..n) = n
    <3> HIDE DEF n
    <3> QED BY <1>1, FS_Interval
  <2>5. f \in Surjection(K, 1..n)
    <3> HIDE DEF f
    <3> QED BY <2>3, <2>4, FS_Injection
  <2> QED BY <2>5 DEF Surjection
<1> QED BY <1>3, <1>4, <1>5

(* deleteItem keeps every other item, in the order they were in.           *)
LEMMA WithoutKeeps ==
  ASSUME NEW s \in Seq(Entries), NEW g
  PROVE  /\ Without(s, g) \in Seq(Entries) /\ Len(Without(s, g)) = Cardinality(Kept(s, g))
         /\ Len(Without(s, g)) \in Nat /\ DOMAIN Without(s, g) = 1..Len(Without(s, g))
         /\ \A i \in Kept(s, g) : Without(s, g)[Rank(s, g, i)] = s[i]
         /\ {Without(s, g)[k] : k \in DOMAIN Without(s, g)} = Values(s) \ {g}
<1> DEFINE n == Cardinality(Kept(s, g))
           At(k) == CHOOSE i \in Kept(s, g) : Rank(s, g, i) = k
           w == Without(s, g)
<1>1. n \in Nat /\ Kept(s, g) \subseteq DOMAIN s
  BY KeptFinite DEF Kept
<1>2. /\ \A i \in Kept(s, g) : Rank(s, g, i) \in 1..n
      /\ \A k \in 1..n : At(k) \in Kept(s, g) /\ Rank(s, g, At(k)) = k
  BY Ranks
<1>3. \A i \in Kept(s, g) : At(Rank(s, g, i)) = i
  <2> SUFFICES ASSUME NEW i \in Kept(s, g), NEW j \in Kept(s, g), Rank(s, g, j) = Rank(s, g, i)
               PROVE  j = i
    BY <1>2
  <2>1. i \in Nat /\ j \in Nat
    BY <1>1, KeptFinite
  <2>2. ~(i < j) /\ ~(j < i)
    <3>1. Rank(s, g, i) \in Nat
      BY <1>1, <1>2
    <3> QED BY <3>1, Ranks
  <2> QED BY <2>1, <2>2
<1>4. w = [k \in 1..n |-> s[At(k)]]
  BY DEF Without
<1>5. \A k \in 1..n : s[At(k)] \in Entries /\ s[At(k)] # g
  BY <1>1, <1>2 DEF Kept
<1> HIDE DEF n, At, w
<1>6. w \in Seq(Entries) /\ Len(w) = n /\ DOMAIN w = 1..n
  BY <1>1, <1>4, <1>5
<1>7. \A i \in Kept(s, g) : w[Rank(s, g, i)] = s[i]
  BY <1>2, <1>3, <1>4
<1>8. {w[k] : k \in DOMAIN w} = Values(s) \ {g}
  <2>1. ASSUME NEW k \in 1..n
        PROVE  w[k] \in Values(s) \ {g}
    BY <1>1, <1>2, <1>4, <1>5, <2>1 DEF Values
  <2>2. ASSUME NEW x \in Values(s) \ {g}
        PROVE  \E k \in 1..n : w[k] = x
    <3>1. PICK i \in Kept(s, g) : s[i] = x
      BY <2>2 DEF Values, Kept
    <3> QED BY <1>2, <1>7, <3>1
  <2> QED BY <1>6, <2>1, <2>2
<1> QED BY <1>1, <1>6, <1>7, <1>8 DEF n, w

Files == [there : BOOLEAN, headed : BOOLEAN, total : Nat, items : Seq(Entries)]
Contents(f) == {f.items[i] : i \in DOMAIN f.items}

(* A file that addItem and deleteItem can go on with, and one whose count  *)
(* and items agree.                                                        *)
Sound(f) ==
  /\ f \in Files /\ (f.there \/ f = NoFile)
  /\ (f.headed \/ (f.total = 0 /\ f.items = <<>>))
  /\ Len(f.items) <= f.total
Right(f) == f.total = Len(f.items)

LEMMA NoFileFacts == Sound(NoFile) /\ Right(NoFile) /\ Contents(NoFile) = {}
BY DEF Sound, Right, NoFile, Files, Contents

LEMMA StatsSound ==
  ASSUME TypeOK, CountCovers
  PROVE  Sound(stats) /\ Contents(stats) = InFile
BY DEF TypeOK, CountCovers, Sound, Files, Contents, InFile

LEMMA CountsFacts ==
  ASSUME TypeOK, CountCovers, NEW n \in Counts
  PROVE  n \in Nat /\ Len(stats.items) <= n /\ (Agreed => n = Len(stats.items))
<1>1. stats.total \in Nat /\ Len(stats.items) \in Nat /\ Len(stats.items) <= stats.total
  BY StatsTypes DEF CountCovers
<1>2. CASE stats.there /\ ~stats.headed
  <2>1. n \in 0..MaxGarbage /\ ~Agreed
    BY <1>2 DEF Counts, Agreed
  <2>2. stats.items = <<>>
    BY <1>2 DEF TypeOK
  <2> QED BY <2>1, <2>2, GameAssumption
<1>3. CASE ~(stats.there /\ ~stats.headed)
  BY <1>1, <1>3 DEF Counts, Agreed
<1> QED BY <1>2, <1>3

(* addItem adds the item, and at most fills up what a power-off left open. *)
LEMMA AddedFacts ==
  ASSUME TypeOK, CountCovers, NEW g \in Games, NEW f \in Added(g)
  PROVE  /\ Sound(f) /\ Right(f) /\ f.headed
         /\ InFile \cup {g} \subseteq Contents(f)
         /\ Agreed => Contents(f) = InFile \cup {g}
<1> DEFINE s == stats.items
<1>1. s \in Seq(Entries) /\ Len(s) \in Nat /\ DOMAIN s = 1..Len(s)
  BY StatsTypes
<1>2. PICK n \in Counts : \E r \in Written(n, g) :
        f = [there |-> TRUE, headed |-> TRUE, total |-> n + 1, items |-> r]
  BY DEF Added
<1>3. PICK r \in Written(n, g) :
        f = [there |-> TRUE, headed |-> TRUE, total |-> n + 1, items |-> r]
  BY <1>2
<1>4. n \in Nat /\ Len(s) <= n /\ (Agreed => n = Len(s))
  BY <1>2, CountsFacts
<1>5. InFile = Values(s)
  BY DEF InFile, Values
<1>6. /\ r \in [1..(n + 1) \cup DOMAIN s -> Entries] /\ r[n + 1] = g
      /\ \A i \in DOMAIN s \ {n + 1} : r[i] = s[i]
  BY <1>3 DEF Written
<1> HIDE DEF s
<1>7. 1..(n + 1) \cup DOMAIN s = 1..(n + 1) /\ n + 1 \notin DOMAIN s /\ n + 1 \in Nat
  <2>1. \A m \in Nat : m <= n => 1..(n + 1) \cup 1..m = 1..(n + 1) /\ n + 1 \notin 1..m
    BY <1>4
  <2>2. 1..(n + 1) \cup 1..Len(s) = 1..(n + 1) /\ n + 1 \notin 1..Len(s)
    BY <1>1, <1>4, <2>1
  <2>3. n + 1 \in Nat
    BY <1>4
  <2> QED BY <1>1, <2>2, <2>3
<1>8. r \in Seq(Entries) /\ Len(r) = n + 1 /\ DOMAIN r = 1..(n + 1)
  BY <1>6, <1>7
<1>9. Values(s) \cup {g} \subseteq Values(r)
  <2>1. n + 1 \in DOMAIN r /\ DOMAIN s \subseteq DOMAIN r
    BY <1>4, <1>7, <1>8
  <2> QED BY <1>6, <1>7, <2>1 DEF Values
<1>10. ASSUME n = Len(s)
       PROVE  Values(r) \subseteq Values(s) \cup {g}
  <2>1. \A i \in DOMAIN r : i \in DOMAIN s \/ i = n + 1
    BY <1>1, <1>8, <1>10
  <2> QED BY <1>6, <1>7, <2>1 DEF Values
<1>11. /\ f.items = r /\ f.total = n + 1 /\ f.there /\ f.headed /\ f \in Files
  BY <1>3, <1>7, <1>8 DEF Files
<1>12. Sound(f) /\ Right(f)
  BY <1>7, <1>8, <1>11 DEF Sound, Right
<1>13. Contents(f) = Values(r)
  BY <1>11 DEF Contents, Values
<1> QED BY <1>4, <1>5, <1>9, <1>10, <1>11, <1>12, <1>13

LEMMA AddedTornFacts ==
  ASSUME TypeOK, CountCovers, NEW f \in AddedTorn
  PROVE  Sound(f) /\ Contents(f) = InFile
<1>1. CASE f = [stats EXCEPT !.there = TRUE]
  <2>1. stats \in Files
    BY DEF TypeOK, Files
  <2>2. /\ f.there /\ f.headed = stats.headed /\ f.total = stats.total
        /\ f.items = stats.items /\ f \in Files
    BY <1>1, <2>1 DEF Files
  <2> QED BY <2>2, StatsSound DEF Sound, Contents
<1>2. CASE \E n \in Counts :
             f = [there |-> TRUE, headed |-> TRUE, total |-> n + 1, items |-> stats.items]
  <2>1. PICK n \in Counts :
          f = [there |-> TRUE, headed |-> TRUE, total |-> n + 1, items |-> stats.items]
    BY <1>2
  <2>2. n \in Nat /\ Len(stats.items) <= n
    BY <2>1, CountsFacts
  <2>3. /\ f.there /\ f.headed /\ f.total = n + 1 /\ f.items = stats.items /\ f \in Files
    BY <2>1, <2>2, StatsTypes DEF Files
  <2>4. Len(f.items) <= f.total
    BY <2>2, <2>3, StatsTypes
  <2>5. Contents(f) = InFile
    BY <2>3 DEF Contents, InFile
  <2> QED BY <2>3, <2>4, <2>5 DEF Sound
<1> QED BY <1>1, <1>2 DEF AddedTorn

(* deleteItem reads all items, and if there are too few the last one again.*)
LEMMA ReadsFacts ==
  ASSUME TypeOK, CountCovers, NEW x \in Spare
  PROVE  /\ Reads(x) \in Seq(Entries) /\ Len(Reads(x)) = stats.total
         /\ InFile \subseteq Values(Reads(x))
         /\ Agreed => Values(Reads(x)) = InFile
<1> DEFINE s == stats.items
           r == Reads(x)
<1>1. /\ s \in Seq(Entries) /\ Len(s) \in Nat /\ DOMAIN s = 1..Len(s)
      /\ stats.total \in Nat /\ Len(s) <= stats.total
  BY StatsTypes DEF CountCovers
<1>2. x \in Entries
  <2>1. CASE s = <<>>
    BY <2>1 DEF Spare
  <2>2. CASE s # <<>>
    <3>1. x = s[Len(s)]
      BY <2>2 DEF Spare
    <3>2. Len(s) \in DOMAIN s
      BY <1>1, <2>2
    <3> QED BY <1>1, <3>1, <3>2
  <2> QED BY <2>1, <2>2
<1>3. r = [i \in 1..stats.total |-> IF i \in DOMAIN s THEN s[i] ELSE x]
  BY DEF Reads
<1>4. Agreed => stats.total = Len(s)
  BY DEF Agreed
<1>5. InFile = Values(s)
  BY DEF InFile, Values
<1> HIDE DEF s, r
<1>6. r \in Seq(Entries) /\ Len(r) = stats.total /\ DOMAIN r = 1..stats.total
  <2>1. \A i \in DOMAIN s : s[i] \in Entries
    BY <1>1
  <2>2. r \in [1..stats.total -> Entries]
    BY <1>2, <1>3, <2>1
  <2> QED BY <1>1, <2>2
<1>7. \A i \in DOMAIN s : i \in DOMAIN r /\ r[i] = s[i]
  BY <1>1, <1>3, <1>6
<1>8. Values(s) \subseteq Values(r)
  BY <1>7 DEF Values
<1>9. ASSUME stats.total = Len(s)
      PROVE  Values(r) \subseteq Values(s)
  BY <1>1, <1>6, <1>7, <1>9 DEF Values
<1> QED BY <1>4, <1>5, <1>6, <1>8, <1>9 DEF r

LEMMA RewrittenFacts ==
  ASSUME TypeOK, CountCovers, NEW g, NEW f \in Rewritten(g)
  PROVE  /\ Sound(f) /\ Right(f) /\ f.headed
         /\ InFile \ {g} \subseteq Contents(f)
         /\ Agreed => Contents(f) = InFile \ {g}
<1>1. PICK x \in Spare : f = Copied(Reads(x), g)
  BY DEF Rewritten
<1> DEFINE r == Reads(x)
           w == Without(r, g)
<1>2. /\ r \in Seq(Entries) /\ Len(r) = stats.total /\ stats.total \in Nat
      /\ InFile \subseteq Values(r) /\ (Agreed => Values(r) = InFile)
  BY <1>1, ReadsFacts, StatsTypes
<1>3. f = [there |-> TRUE, headed |-> TRUE,
           total |-> stats.total - (Len(r) - Len(w)), items |-> w]
  BY <1>1 DEF Copied
<1> HIDE DEF r
<1>4. w \in Seq(Entries) /\ Len(w) \in Nat /\ Values(w) = Values(r) \ {g}
  BY <1>2, WithoutKeeps DEF Values
<1> HIDE DEF w
<1>5. stats.total - (Len(r) - Len(w)) = Len(w)
  BY <1>2, <1>4
<1>6. /\ f.there /\ f.headed /\ f.total = Len(w) /\ f.items = w /\ f \in Files
  BY <1>3, <1>4, <1>5 DEF Files
<1>7. Sound(f) /\ Right(f)
  BY <1>4, <1>6 DEF Sound, Right
<1>8. Contents(f) = Values(w)
  BY <1>6 DEF Contents, Values
<1> QED BY <1>2, <1>4, <1>6, <1>7, <1>8

LEMMA TornFacts ==
  ASSUME TypeOK, CountCovers, NEW g, NEW f \in Torn(g)
  PROVE  Sound(f) /\ InFile \ {g} \subseteq Contents(f)
BY StatsSound, RewrittenFacts DEF Torn

LEMMA DeletedFacts ==
  ASSUME TypeOK, CountCovers, NEW g, NEW f \in Deleted(g)
  PROVE  /\ Sound(f) /\ InFile \ {g} \subseteq Contents(f)
         /\ f = stats \/ Right(f)
         /\ Agreed /\ ~leaked => /\ Contents(f) = InFile \ {g} /\ Right(f)
                                 /\ f.there => f.headed
<1>1. CASE ~stats.there \/ leaked
  <2>1. f = stats
    BY <1>1 DEF Deleted
  <2>2. ~stats.there => InFile = {}
    BY NoFileFacts, StatsSound DEF Sound
  <2> QED BY <1>1, <2>1, <2>2, StatsSound DEF Agreed, Right
<1>2. CASE stats.there /\ ~leaked
  <2>1. PICK h \in Rewritten(g) : f = IF h.total = 0 THEN NoFile ELSE h
    BY <1>2 DEF Deleted
  <2>2. /\ Sound(h) /\ Right(h) /\ h.headed /\ InFile \ {g} \subseteq Contents(h)
        /\ Agreed => Contents(h) = InFile \ {g}
    BY <2>1, RewrittenFacts
  <2>3. ASSUME h.total = 0
        PROVE  Contents(h) = {}
    <3>1. h.items \in Seq(Entries) /\ Len(h.items) = 0
      BY <2>2, <2>3 DEF Sound, Files, Right
    <3>2. \A q \in Seq(Entries) : Len(q) = 0 => DOMAIN q = {}
      OBVIOUS
    <3> QED BY <3>1, <3>2 DEF Contents
  <2>4. CASE h.total = 0
    <3>1. ~NoFile.there
      BY DEF NoFile
    <3> QED BY <2>1, <2>2, <2>3, <2>4, <3>1, NoFileFacts
  <2>5. CASE h.total # 0
    BY <2>1, <2>2, <2>5
  <2> QED BY <2>4, <2>5
<1> QED BY <1>1, <1>2

-----------------------------------------------------------------------------
(* What PrepareList reads.                                                 *)

LEMMA SortedKeeps ==
  ASSUME NEW items \in Seq(Entries), NEW r \in Sorted(items)
  PROVE  /\ r \in Seq(Entries) /\ Len(r) = Len(items)
         /\ {r[i] : i \in DOMAIN r} = {items[i] : i \in DOMAIN items}
<1> DEFINE S == {items[i] : i \in DOMAIN items}
           At(s, g) == {i \in DOMAIN s : s[i] = g}
<1>1. /\ r \in [DOMAIN items -> S]
      /\ \A g \in Entries : Cardinality(At(r, g)) = Cardinality(At(items, g))
  BY DEF Sorted
<1>2. S \subseteq Entries /\ Len(items) \in Nat /\ DOMAIN items = 1..Len(items)
  OBVIOUS
<1>3. r \in Seq(Entries) /\ Len(r) = Len(items) /\ DOMAIN r = 1..Len(items)
  <2> HIDE DEF S
  <2> QED BY <1>1, <1>2
<1>4. IsFiniteSet(1..Len(items))
  BY <1>2, FS_Interval
<1>5. \A g \in Entries : At(r, g) = {} => At(items, g) = {}
  <2> TAKE g \in Entries
  <2>1. IsFiniteSet(At(r, g)) /\ IsFiniteSet(At(items, g))
    BY <1>2, <1>3, <1>4, FS_Subset
  <2> QED BY <1>1, <2>1, FS_EmptySet
<1>6. \A i \in DOMAIN r : r[i] \in S
  <2> HIDE DEF S
  <2> QED BY <1>1
<1>7. \A g \in S : \E i \in DOMAIN r : r[i] = g
  BY <1>2, <1>5
<1>8. {r[i] : i \in DOMAIN r} = S
  <2> HIDE DEF S
  <2> QED BY <1>6, <1>7
<1> QED BY <1>3, <1>8

ListOK == list \in [total : Nat, items : Seq(Entries)] /\ Len(list.items) <= list.total
Cursor == /\ cbrowse \in Nat \ {0} /\ crelbrowse \in 1..ShowLines /\ coffset \in Nat
          /\ CursorInv

LEMMA NoList == ASSUME NEW l, l = [total |-> 0, items |-> <<>>]
                PROVE  /\ l \in [total : Nat, items : Seq(Entries)] /\ l.total = Len(l.items)
                       /\ Len(l.items) <= l.total
                       /\ l.total = 0 /\ {l.items[i] : i \in DOMAIN l.items} = {}
OBVIOUS

(* The list has what the file has, and the cursor is on its first item.    *)
LEMMA Prepared ==
  ASSUME TypeOK, CursorInv, Sound(stats'), PrepareList
  PROVE  /\ ListOK' /\ Cursor' /\ InList' = Contents(stats') /\ leaked' \in BOOLEAN
         /\ WholeList' => Right(stats')
         /\ ~leaked' => (stats'.there => stats'.headed)
<1> DEFINE f == stats'
<1>1. /\ f.items \in Seq(Entries) /\ f.total \in Nat /\ Len(f.items) <= f.total
      /\ Len(f.items) \in Nat /\ f \in Files
  BY DEF Sound, Files
<1>2. leaked' \in BOOLEAN
  BY DEF PrepareList, TypeOK
<1>3. ~leaked' => (f.there => f.headed)
  <2>1. f.headed \/ f.total = 0
    BY DEF Sound
  <2> QED BY <2>1 DEF PrepareList
<1>4. CASE f.there /\ f.total > 0
  <2>1. PICK r \in Sorted(f.items) : list' = [total |-> f.total, items |-> r]
    BY <1>4 DEF PrepareList
  <2>2. /\ r \in Seq(Entries) /\ Len(r) = Len(f.items)
        /\ {r[i] : i \in DOMAIN r} = {f.items[i] : i \in DOMAIN f.items}
    BY <1>1, SortedKeeps
  <2>3. list'.items = r /\ list'.total = f.total
    BY <2>1
  <2>4. ListOK' /\ InList' = Contents(f)
    BY <1>1, <2>1, <2>2, <2>3 DEF ListOK, InList, Contents
  <2>5. WholeList' => Right(f)
    BY <2>2, <2>3 DEF WholeList, Right
  <2>6. Cursor'
    BY <1>1, <1>4, <2>3, GameAssumption DEF Cursor, CursorInv, PrepareList
  <2> QED BY <1>2, <1>3, <2>4, <2>5, <2>6
<1>5. CASE ~(f.there /\ f.total > 0)
  <2>1. list' = [total |-> 0, items |-> <<>>] /\ UNCHANGED <<cbrowse, crelbrowse, coffset>>
    BY <1>5 DEF PrepareList
  <2>2. ListOK' /\ list'.total = 0 /\ InList' = {}
    BY <2>1, NoList DEF ListOK, InList
  <2>3. f.total = 0
    <3>1. CASE f.there
      BY <1>1, <1>5, <3>1
    <3>2. CASE ~f.there
      BY <1>1, <3>2 DEF Sound, NoFile
    <3> QED BY <3>1, <3>2
  <2>4. Len(f.items) = 0
    BY <1>1, <2>3
  <2>5. Contents(f) = {} /\ Right(f)
    <3>1. \A q \in Seq(Entries) : Len(q) = 0 => DOMAIN q = {}
      OBVIOUS
    <3> QED BY <1>1, <2>3, <2>4, <3>1 DEF Contents, Right
  <2>6. Cursor'
    BY <2>1, <2>2 DEF Cursor, CursorInv, TypeOK
  <2> QED BY <1>2, <1>3, <2>2, <2>5, <2>6
<1> QED BY <1>4, <1>5

LEMMA Fresh ==
  ASSUME FreshManager
  PROVE  /\ ListOK' /\ Cursor' /\ InList' = {} /\ list'.total = 0
         /\ gm_mode' = "SHOWLIST" /\ moved' = {}
<1>1. ListOK' /\ InList' = {} /\ list'.total = 0
  BY NoList DEF FreshManager, ListOK, InList
<1> QED BY <1>1, GameAssumption DEF FreshManager, Cursor, CursorInv

-----------------------------------------------------------------------------
(* The types, the counts and the window.                                   *)

DiskOK == disk \in [Games -> {"none", "dir", "game"}]
RestOK == /\ mCounter \in Screens /\ todo \subseteq Entries /\ moved \subseteq Games
          /\ leaked \in BOOLEAN /\ gm_mode \in Modes

Parts  == DiskOK /\ Sound(stats) /\ ListOK /\ Cursor /\ RestOK /\ ModeInv

LEMMA WindowParts == WindowInv <=> Parts
BY DEF Parts, WindowInv, TypeOK, CountCovers, DiskOK, Sound, Files, ListOK, Cursor, RestOK

LEMMA WindowInit == Init => WindowInv
<1> SUFFICES ASSUME Init
             PROVE  DiskOK /\ Sound(stats) /\ ListOK /\ Cursor /\ RestOK /\ ModeInv
  BY WindowParts DEF Parts
<1>1. ListOK /\ list.total = 0
  BY NoList DEF Init, ListOK
<1>2. DiskOK
  BY DEF Init, DiskOK
<1>3. Sound(stats)
  BY NoFileFacts DEF Init
<1>4. Cursor
  BY <1>1, GameAssumption DEF Init, Cursor, CursorInv
<1>5. RestOK /\ ModeInv
  BY DEF Init, RestOK, ModeInv, Modes, Screens
<1> QED BY <1>1, <1>2, <1>3, <1>4, <1>5

(* The row under the cursor.                                               *)
LEMMA UnderCursor ==
  ASSUME WindowInv, list.total # 0
  PROVE  /\ cbrowse \in 1..list.total
         /\ coffset < cbrowse /\ cbrowse <= coffset + ShowLines
         /\ WholeList => cbrowse \in DOMAIN list.items
         /\ \A e \in AsRead : /\ e[cbrowse] \in Entries
                              /\ cbrowse \in DOMAIN list.items => e[cbrowse] = list.items[cbrowse]
<1>1. /\ cbrowse \in Nat \ {0} /\ cbrowse <= list.total /\ list.total \in Nat
      /\ list.items \in Seq(Entries)
      /\ crelbrowse \in 1..ShowLines /\ coffset \in Nat /\ ShowLines \in Nat
  BY GameAssumption DEF WindowInv, TypeOK, CursorInv
<1>2. cbrowse \in 1..list.total /\ (WholeList => cbrowse \in DOMAIN list.items)
  BY <1>1 DEF WholeList
<1>3. coffset < cbrowse /\ cbrowse <= coffset + ShowLines
  <2>1. CASE list.total <= ShowLines
    BY <1>1, <2>1 DEF WindowInv, CursorInv
  <2>2. CASE list.total > ShowLines
    BY <1>1, <2>2 DEF WindowInv, CursorInv
  <2> QED BY <1>1, <2>1, <2>2
<1>4. \A e \in AsRead : /\ e[cbrowse] \in Entries
                        /\ cbrowse \in DOMAIN list.items => e[cbrowse] = list.items[cbrowse]
  BY <1>2 DEF AsRead
<1> QED BY <1>2, <1>3, <1>4

LEMMA OffKeeps ==
  ASSUME Off, Sound(stats')
  PROVE  Sound(stats)' /\ ListOK' /\ Cursor' /\ RestOK' /\ ModeInv'
<1>1. ListOK' /\ Cursor' /\ gm_mode' = "SHOWLIST" /\ moved' = {}
  BY Fresh DEF Off
<1>2. RestOK' /\ ModeInv'
  BY <1>1 DEF Off, RestOK, ModeInv, Screens, Modes
<1>3. Sound(stats)'
  BY DEF Sound, NoFile, Files
<1> QED BY <1>1, <1>2, <1>3

LEMMA CutAddKeeps ==
  ASSUME WindowInv, CutAdd
  PROVE  /\ Sound(stats)' /\ ListOK' /\ Cursor' /\ RestOK' /\ ModeInv'
         /\ mCounter' = "off" /\ Contents(stats') = InFile
<1>1. stats' \in AddedTorn /\ Off
  BY DEF CutAdd
<1>2. Sound(stats') /\ Contents(stats') = InFile
  BY <1>1, AddedTornFacts DEF WindowInv
<1> QED BY <1>1, <1>2, OffKeeps DEF Off

LEMMA CutDeleteKeeps ==
  ASSUME WindowInv, NEW g, CutDelete(g)
  PROVE  /\ Sound(stats)' /\ ListOK' /\ Cursor' /\ RestOK' /\ ModeInv'
         /\ mCounter' = "off" /\ InFile \ {g} \subseteq Contents(stats')
<1>1. stats' \in Torn(g) /\ Off
  BY DEF CutDelete
<1>2. Sound(stats') /\ InFile \ {g} \subseteq Contents(stats')
  BY <1>1, TornFacts DEF WindowInv
<1> QED BY <1>1, <1>2, OffKeeps DEF Off

LEMMA WindowNext == WindowInv /\ [Next]_vars => WindowInv'
<1> SUFFICES ASSUME WindowInv, [Next]_vars
             PROVE  Parts'
  <2>1. Parts' => WindowInv'
    BY DEF Parts, WindowInv, TypeOK, CountCovers, DiskOK, Sound, Files, ListOK, Cursor, RestOK,
           NoFile
  <2> QED BY <2>1
<1> USE DEF Parts
<1>0. /\ DiskOK /\ Sound(stats) /\ ListOK /\ Cursor /\ RestOK /\ ModeInv
      /\ TypeOK /\ CountCovers /\ CursorInv
  BY WindowParts DEF WindowInv
<1>a. UNCHANGED disk => DiskOK'
  BY <1>0 DEF DiskOK
<1>b. UNCHANGED stats => Sound(stats') /\ Sound(stats)'
  BY <1>0 DEF Sound, NoFile, Files
<1>c. UNCHANGED list => ListOK'
  BY <1>0 DEF ListOK
<1>d. UNCHANGED <<list, cbrowse, crelbrowse, coffset>> => Cursor'
  BY <1>0 DEF Cursor, CursorInv
<1>e. Sound(stats') => Sound(stats)'
  BY DEF Sound, NoFile, Files
<1>1. CASE Enter
  BY <1>0, <1>1, <1>a, <1>b, <1>c, <1>d
     DEF Enter, listVars, windowVars, RestOK, ModeInv, Screens
<1>2. CASE Open
  <2>1. ListOK' /\ Cursor' /\ gm_mode' = "SHOWLIST" /\ moved' = {}
    BY <1>2, Fresh DEF Open
  <2> QED BY <1>0, <1>2, <1>a, <1>b, <2>1 DEF Open, RestOK, ModeInv, Screens, Modes, Entries
<1>3. CASE FullScanDone
  <2>1. ListOK' /\ Cursor' /\ leaked' \in BOOLEAN
    BY <1>0, <1>3, <1>b, Prepared DEF FullScanDone
  <2>2. gm_mode' = "SHOWLIST"
    BY <1>0, <1>3 DEF FullScanDone, ModeInv
  <2> QED BY <1>0, <1>3, <1>a, <1>b, <2>1, <2>2
          DEF FullScanDone, RestOK, ModeInv, Screens, Modes
<1>4. CASE QuickPrepare
  <2>1. ListOK' /\ Cursor' /\ leaked' \in BOOLEAN
    BY <1>0, <1>4, <1>b, Prepared DEF QuickPrepare
  <2>2. gm_mode' = "SHOWLIST"
    BY <1>0, <1>4 DEF QuickPrepare, ModeInv
  <2> QED BY <1>0, <1>4, <1>a, <1>b, <2>1, <2>2
          DEF QuickPrepare, RestOK, ModeInv, Screens, Modes
<1>5. CASE QuickScanned
  <2>1. \A e \in AsRead : {e[i] : i \in DOMAIN e} \subseteq Entries
    BY DEF AsRead
  <2> QED BY <1>0, <1>5, <1>a, <1>b, <1>c, <1>d, <2>1
          DEF QuickScanned, listVars, windowVars, RestOK, ModeInv, Screens, Modes
<1>6. CASE QuickScanDone
  <2>1. ListOK' /\ Cursor' /\ leaked' \in BOOLEAN
    BY <1>0, <1>6, <1>b, Prepared DEF QuickScanDone
  <2>2. gm_mode' = "SHOWLIST"
    BY <1>0, <1>6 DEF QuickScanDone, ModeInv
  <2> QED BY <1>0, <1>6, <1>a, <1>b, <2>1, <2>2
          DEF QuickScanDone, RestOK, ModeInv, Screens, Modes
<1>7. CASE Up
  <2>1. /\ list.total # 0 /\ list.total \in Nat /\ ShowLines \in Nat \ {0}
        /\ UNCHANGED <<disk, listVars, mCounter, todo, gm_mode, moved>>
    BY <1>0, <1>7, GameAssumption DEF Up, Listing, ListOK
  <2>2. Cursor'
    BY <1>0, <1>7, <2>1 DEF Up, Cursor, CursorInv, listVars
  <2> QED BY <1>0, <1>a, <1>b, <1>c, <2>1, <2>2 DEF listVars, RestOK, ModeInv
<1>8. CASE Down
  <2>1. /\ list.total # 0 /\ list.total \in Nat /\ ShowLines \in Nat \ {0}
        /\ UNCHANGED <<disk, listVars, mCounter, todo, gm_mode, moved>>
    BY <1>0, <1>8, GameAssumption DEF Down, Listing, ListOK
  <2>2. Cursor'
    BY <1>0, <1>8, <2>1 DEF Down, Cursor, CursorInv, listVars
  <2> QED BY <1>0, <1>a, <1>b, <1>c, <2>1, <2>2 DEF listVars, RestOK, ModeInv
<1>9. CASE Mode
  BY <1>0, <1>9, <1>a, <1>b, <1>c, <1>d
     DEF Mode, Listing, listVars, RestOK, ModeInv, Modes
<1>10. CASE Leave
  <2>1. ListOK' /\ Cursor' /\ gm_mode' = "SHOWLIST" /\ moved' = {}
    BY <1>10, Fresh DEF Leave
  <2> QED BY <1>0, <1>10, <1>a, <1>b, <2>1 DEF Leave, RestOK, ModeInv, Screens, Modes
<1>11. CASE Launch
  <2>1. Off /\ UNCHANGED <<disk, stats>>
    BY <1>11 DEF Launch
  <2> QED BY <1>0, <1>a, <1>b, <2>1, OffKeeps
<1>12. CASE Rescan
  <2>1. ListOK' /\ Cursor' /\ gm_mode' = "SHOWLIST" /\ moved' = {}
    BY <1>12, Fresh DEF Rescan
  <2>2. Sound(stats')
    BY <1>0, <1>12, NoFileFacts DEF Rescan
  <2> QED BY <1>0, <1>12, <1>a, <1>e, <2>1, <2>2 DEF Rescan, RestOK, ModeInv, Screens, Modes
<1>13. CASE DeleteGame
  <2>1. PICK e \in AsRead :
          /\ \E d \in {"none", "dir", Attributes(e[cbrowse])} :
               disk' = [h \in Games |-> IF h = e[cbrowse] THEN d ELSE disk[h]]
          /\ \/ /\ stats' \in Deleted(e[cbrowse])
                /\ PrepareList
                /\ gm_mode' = "SHOWLIST"
                /\ UNCHANGED <<mCounter, todo, moved>>
             \/ CutDelete(e[cbrowse])
    BY <1>13 DEF DeleteGame
  <2> DEFINE g == e[cbrowse]
  <2>2. Attributes(g) \in {"none", "dir", "game"}
    BY <1>0 DEF Attributes, DiskOK
  <2>3. PICK d \in {"none", "dir", Attributes(g)} :
          disk' = [h \in Games |-> IF h = g THEN d ELSE disk[h]]
    BY <2>1
  <2> HIDE DEF g
  <2>4. DiskOK'
    BY <1>0, <2>2, <2>3 DEF DiskOK
  <2>5. CASE /\ stats' \in Deleted(g)
             /\ PrepareList
             /\ gm_mode' = "SHOWLIST"
             /\ UNCHANGED <<mCounter, todo, moved>>
    <3>1. Sound(stats')
      BY <1>0, <2>5, DeletedFacts
    <3>2. ListOK' /\ Cursor' /\ leaked' \in BOOLEAN
      BY <1>0, <2>5, <3>1, Prepared
    <3> QED BY <1>0, <1>e, <2>4, <2>5, <3>1, <3>2 DEF RestOK, ModeInv, Modes
  <2>6. CASE CutDelete(g)
    BY <2>4, <2>6, CutDeleteKeeps
  <2> QED BY <2>1, <2>5, <2>6 DEF g
<1>14. CASE Boot
  BY <1>0, <1>14, <1>a, <1>b, <1>c, <1>d
     DEF Boot, listVars, windowVars, RestOK, ModeInv, Screens
<1>15. ASSUME NEW g \in Games, FullScan(g)
       PROVE  Parts'
  <2>1. CASE CutAdd
    BY <1>15, <1>a, <2>1, CutAddKeeps DEF FullScan
  <2>2. CASE Seen(g) /\ (UNCHANGED stats \/ stats' \in Added(g))
    <3>1. Sound(stats)'
      BY <1>0, <1>b, <1>e, <2>2, AddedFacts
    <3> QED BY <1>0, <1>15, <1>a, <1>c, <1>d, <2>2, <3>1
            DEF FullScan, Seen, windowVars, RestOK, ModeInv
  <2> QED BY <1>15, <2>1, <2>2 DEF FullScan
<1>16. ASSUME NEW g \in Games, QuickScan(g)
       PROVE  Parts'
  <2>1. CASE CutAdd
    BY <1>16, <1>a, <2>1, CutAddKeeps DEF QuickScan
  <2>2. CASE Seen(g) /\ (UNCHANGED stats \/ stats' \in Added(g))
    <3>1. Sound(stats)'
      BY <1>0, <1>b, <1>e, <2>2, AddedFacts
    <3> QED BY <1>0, <1>16, <1>a, <1>c, <1>d, <2>2, <3>1
            DEF QuickScan, Seen, windowVars, RestOK, ModeInv
  <2> QED BY <1>16, <2>1, <2>2 DEF QuickScan
<1>17. ASSUME NEW p \in Entries, Vanished(p)
       PROVE  Parts'
  <2>1. CASE CutDelete(p)
    BY <1>17, <1>a, <2>1, CutDeleteKeeps DEF Vanished
  <2>2. CASE Seen(p) /\ (UNCHANGED stats \/ stats' \in Deleted(p))
    <3>1. Sound(stats)'
      BY <1>0, <1>b, <1>e, <2>2, DeletedFacts
    <3> QED BY <1>0, <1>17, <1>a, <1>c, <1>d, <2>2, <3>1
            DEF Vanished, Seen, windowVars, RestOK, ModeInv
  <2> QED BY <1>17, <2>1, <2>2 DEF Vanished
<1>18. ASSUME NEW g \in Games, CopyGame(g)
       PROVE  Parts'
  <2>1. DiskOK'
    BY <1>0, <1>18 DEF CopyGame, DiskOK
  <2>2. CASE CutAdd
    BY <2>1, <2>2, CutAddKeeps
  <2>3. CASE /\ UNCHANGED stats \/ stats' \in Added(g)
             /\ UNCHANGED <<leaked, list, mCounter, todo, windowVars, moved>>
    <3>1. Sound(stats)'
      BY <1>0, <1>b, <1>e, <2>3, AddedFacts
    <3> QED BY <1>0, <1>c, <1>d, <2>1, <2>3, <3>1 DEF windowVars, RestOK, ModeInv
  <2> QED BY <1>18, <2>2, <2>3 DEF CopyGame, listVars
<1>19. ASSUME NEW g \in Games, Ftp(g)
       PROVE  Parts'
  <2>1. DiskOK'
    BY <1>0, <1>19 DEF Ftp, DiskOK
  <2> QED BY <1>0, <1>19, <1>b, <1>c, <1>d, <2>1
          DEF Ftp, listVars, windowVars, RestOK, ModeInv
<1>20. CASE UNCHANGED vars
  BY <1>0, <1>20, <1>a, <1>b, <1>c, <1>d DEF vars, listVars, windowVars, RestOK, ModeInv
<1>21. CASE SwitchOff
  BY <1>0, <1>21, <1>a, <1>b, OffKeeps DEF SwitchOff
<1> QED
  BY <1>1, <1>2, <1>3, <1>4, <1>5, <1>6, <1>7, <1>8, <1>9, <1>10, <1>11, <1>12, <1>13, <1>14,
     <1>15, <1>16, <1>17, <1>18, <1>19, <1>20, <1>21 DEF Next

LEMMA WindowAlways == Spec => []WindowInv
BY WindowInit, WindowNext, PTL DEF Spec

(* The file, the list and the window keep their types.                     *)
THEOREM TypeCorrect == Spec => []TypeOK
<1>1. WindowInv => TypeOK
  BY DEF WindowInv
<1> QED BY WindowAlways, <1>1, PTL

RestoredStep == stats' # stats /\ mCounter' # "off" => stats'.total = Len(stats'.items)

(* After every addItem and deleteItem that comes to its end the count is   *)
(* the number of items, whatever power-offs have left before.              *)
THEOREM CountRestoredCorrect == Spec => CountRestored
<1>1. WindowInv /\ [Next]_vars => [RestoredStep]_vars
  <2> SUFFICES ASSUME WindowInv, Next, stats' # stats, mCounter' # "off"
               PROVE  Right(stats')
    BY DEF RestoredStep, Right
  <2>1. TypeOK /\ CountCovers
    BY DEF WindowInv
  <2>2. CASE Rescan
    BY <2>2, NoFileFacts DEF Rescan
  <2>3. ASSUME NEW g \in Games, FullScan(g) \/ QuickScan(g) \/ CopyGame(g)
        PROVE  Right(stats')
    <3>1. stats' \in Added(g)
      BY <2>3 DEF FullScan, QuickScan, CopyGame, CutAdd, Off, listVars
    <3> QED BY <2>1, <3>1, AddedFacts
  <2>4. ASSUME NEW p, stats' \in Deleted(p)
        PROVE  Right(stats')
    BY <2>1, <2>4, DeletedFacts
  <2>5. ASSUME NEW p \in Entries, Vanished(p)
        PROVE  Right(stats')
    BY <2>4, <2>5 DEF Vanished, CutDelete, Off
  <2>6. CASE DeleteGame
    BY <2>4, <2>6 DEF DeleteGame, CutDelete, Off
  <2> QED
    BY <2>2, <2>3, <2>5, <2>6
       DEF Next, Enter, Open, FullScanDone, QuickPrepare, QuickScanned, QuickScanDone, Up, Down,
           Mode, Leave, Launch, SwitchOff, Boot, Ftp, listVars
<1> QED BY <1>1, WindowAlways, PTL DEF Spec, CountRestored, RestoredStep

(* The row a key acts on is one the user sees, and has an item if the list *)
(* is whole, for a window of any height.                                   *)
THEOREM CursorCorrect == Spec => []CursorOnShownItem
<1>1. WindowInv => CursorOnShownItem
  BY UnderCursor DEF WindowInv, ModeInv, CursorOnShownItem, Rows
<1> QED BY WindowAlways, <1>1, PTL

-----------------------------------------------------------------------------
(* The scans.                                                              *)

Scanning == {"755", "757 prepare", "757 scan", "757 vanished"}

LEMMA NoScan == ASSUME mCounter' \notin Scanning PROVE ScanInv'
BY DEF Scanning, ScanInv, AgreeInv, FoundInv, GoneInv

LEMMA OffScan == ASSUME mCounter' = "off" PROVE ScanInv'
BY NoScan DEF Scanning

LEMMA ScanSame ==
  ASSUME ScanInv, UNCHANGED <<disk, stats, leaked, list, mCounter, todo, moved>>
  PROVE  ScanInv'
<1>1. InFile' = InFile /\ InList' = InList /\ \A g : Hidden(g)' <=> Hidden(g)
  BY DEF InFile, InList, Hidden
<1>2. (Agreed' <=> Agreed) /\ (WholeList' <=> WholeList)
  BY DEF Agreed, WholeList
<1> QED BY <1>1, <1>2 DEF ScanInv, AgreeInv, FoundInv, GoneInv

(* What addItem does to the file of games.                                 *)
LEMMA Adds ==
  ASSUME WindowInv, NEW g \in Games, stats' \in Added(g)
  PROVE  /\ InFile \cup {g} \subseteq InFile' /\ Agreed'
         /\ Agreed => InFile' = InFile \cup {g}
<1>1. /\ Sound(stats') /\ Right(stats') /\ stats'.headed
      /\ InFile \cup {g} \subseteq Contents(stats')
      /\ Agreed => Contents(stats') = InFile \cup {g}
  BY AddedFacts DEF WindowInv
<1>2. Contents(stats') = InFile'
  BY DEF Contents, InFile
<1>3. Agreed'
  BY <1>1 DEF Agreed, Right
<1> QED BY <1>1, <1>2, <1>3

LEMMA FullScanKeeps ==
  ASSUME WindowInv, ScanInv, NEW g \in Games, FullScan(g)
  PROVE  ScanInv'
<1>1. CASE CutAdd
  BY <1>1, OffScan DEF CutAdd, Off
<1>2. CASE Seen(g) /\ (disk[g] = "game" => stats' \in Added(g))
           /\ (disk[g] # "game" => UNCHANGED stats)
  <2>1. /\ mCounter = "755" /\ mCounter' = "755" /\ todo' = todo \ {g}
        /\ UNCHANGED <<disk, moved>>
    BY <1>2 DEF FullScan, Seen
  <2>2. Agreed
    BY <2>1 DEF ScanInv, AgreeInv
  <2>3. Agreed' /\ InFile' = IF disk[g] = "game" THEN InFile \cup {g} ELSE InFile
    <3>1. CASE disk[g] = "game"
      BY <1>2, <2>2, <3>1, Adds
    <3>2. CASE disk[g] # "game"
      BY <1>2, <2>2, <3>2 DEF Agreed, InFile
    <3> QED BY <3>1, <3>2
  <2>4. AgreeInv'
    BY <2>1, <2>3 DEF AgreeInv
  <2>5. FoundInv'
    BY <2>1, <2>3 DEF ScanInv, FoundInv
  <2>6. GoneInv'
    BY <2>1, <2>3 DEF ScanInv, GoneInv
  <2> QED BY <2>4, <2>5, <2>6 DEF ScanInv
<1> QED BY <1>1, <1>2 DEF FullScan

LEMMA QuickScanKeeps ==
  ASSUME WindowInv, ScanInv, NEW g \in Games, QuickScan(g)
  PROVE  ScanInv'
<1>1. PICK e \in AsRead :
        IF disk[g] = "game" /\ ~IsPathListed(g, e)
        THEN (stats' \in Added(g) /\ Seen(g)) \/ CutAdd
        ELSE UNCHANGED stats /\ Seen(g)
  BY DEF QuickScan
<1>2. CASE CutAdd
  BY <1>2, OffScan DEF CutAdd, Off
<1>3. ASSUME Seen(g), disk[g] = "game" /\ ~IsPathListed(g, e) => stats' \in Added(g),
             ~(disk[g] = "game" /\ ~IsPathListed(g, e)) => UNCHANGED stats
      PROVE  ScanInv'
  <2>1. /\ mCounter = "757 scan" /\ mCounter' = "757 scan" /\ todo' = todo \ {g}
        /\ UNCHANGED <<disk, moved, list, leaked>>
    BY <1>3 DEF QuickScan, Seen
  <2>2. /\ InList' = InList /\ (WholeList' <=> WholeList) /\ \A h : Hidden(h)' <=> Hidden(h)
    BY <2>1 DEF InList, Hidden, WholeList
  <2>3. /\ InFile \subseteq InFile'
        /\ disk[g] = "game" /\ ~IsPathListed(g, e) => g \in InFile'
        /\ Agreed => /\ Agreed' /\ InFile' \subseteq InFile \cup {g}
                     /\ disk[g] # "game" => InFile' = InFile
    <3>1. CASE disk[g] = "game" /\ ~IsPathListed(g, e)
      BY <1>3, <3>1, Adds
    <3>2. CASE ~(disk[g] = "game" /\ ~IsPathListed(g, e))
      BY <1>3, <3>2 DEF Agreed, InFile
    <3> QED BY <3>1, <3>2
  <2>4. ASSUME IsPathListed(g, e), WholeList
        PROVE  g \in InFile \/ Hidden(g)
    <3>1. PICK i \in DOMAIN e : e[i] \in Covers[g]
      BY <2>4 DEF IsPathListed
    <3>2. i \in 1..list.total /\ DOMAIN list.items = 1..list.total
      BY <2>4, <3>1, WindowParts DEF Parts, ListOK, WholeList, AsRead
    <3>3. i \in DOMAIN list.items /\ list.items[i] \in Covers[g]
      BY <3>1, <3>2 DEF AsRead
    <3>4. CASE list.items[i] = g
      BY <2>1, <3>3, <3>4 DEF ScanInv, FoundInv, InList
    <3>5. CASE list.items[i] # g
      BY <3>3, <3>5 DEF Hidden
    <3> QED BY <3>4, <3>5
  <2>5. FoundInv'
    <3>1. InList' \subseteq InFile'
      BY <2>1, <2>2, <2>3 DEF ScanInv, FoundInv
    <3>2. ASSUME WholeList', NEW h \in Games \ (todo' \cup moved'), disk'[h] = "game"
          PROVE  h \in InFile' \/ Hidden(h)'
      <4>1. CASE h = g
        BY <2>1, <2>2, <2>3, <2>4, <3>2, <4>1
      <4>2. CASE h # g
        BY <2>1, <2>2, <2>3, <3>2, <4>2 DEF ScanInv, FoundInv
      <4> QED BY <4>1, <4>2
    <3> QED BY <2>1, <3>1, <3>2 DEF FoundInv
  <2>6. AgreeInv'
    BY <2>1, <2>2, <2>3 DEF ScanInv, AgreeInv
  <2>7. GoneInv'
    <3>1. ASSUME NEW h \in (Games \cap InFile') \ moved', disk'[h] = "none",
                 WholeList', ~leaked'
          PROVE  h \in InList'
      <4>1. Agreed
        BY <2>1, <2>2, <3>1 DEF ScanInv, AgreeInv
      <4>2. h \in InFile
        BY <2>1, <2>3, <3>1, <4>1
      <4> QED BY <2>1, <2>2, <3>1, <4>2 DEF ScanInv, GoneInv
    <3> QED BY <2>1, <3>1 DEF GoneInv
  <2> QED BY <2>5, <2>6, <2>7 DEF ScanInv
<1> QED BY <1>1, <1>2, <1>3

LEMMA VanishedKeeps ==
  ASSUME WindowInv, ScanInv, NEW p \in Entries, Vanished(p)
  PROVE  ScanInv'
<1>1. CASE CutDelete(p)
  BY <1>1, OffScan DEF CutDelete, Off
<1>2. ASSUME Seen(p), Attributes(p) # "none" => UNCHANGED stats,
             Attributes(p) = "none" => stats' \in Deleted(p)
      PROVE  ScanInv'
  <2>1. /\ mCounter = "757 vanished" /\ mCounter' = "757 vanished" /\ todo' = todo \ {p}
        /\ UNCHANGED <<disk, moved, list, leaked>>
    BY <1>2 DEF Vanished, Seen
  <2>2. /\ (WholeList' <=> WholeList) /\ \A h : Hidden(h)' <=> Hidden(h)
    BY <2>1 DEF Hidden, WholeList
  <2>3. p \in Games => Attributes(p) = disk[p]
    BY DEF Attributes
  <2>4. /\ InFile \ {p} \subseteq InFile'
        /\ Attributes(p) # "none" => InFile' = InFile
        /\ Agreed /\ ~leaked => Agreed' /\ InFile' \subseteq InFile
        /\ Agreed /\ ~leaked /\ Attributes(p) = "none" => p \notin InFile'
    <3>1. CASE Attributes(p) = "none"
      <4>1. /\ InFile \ {p} \subseteq Contents(stats')
            /\ Agreed /\ ~leaked => /\ Contents(stats') = InFile \ {p} /\ Right(stats')
                                    /\ stats'.there => stats'.headed
        BY <1>2, <3>1, DeletedFacts DEF WindowInv
      <4>2. Contents(stats') = InFile' /\ (Right(stats') <=> stats'.total = Len(stats'.items))
        BY DEF Contents, InFile, Right
      <4> QED BY <3>1, <4>1, <4>2 DEF Agreed
    <3>2. CASE Attributes(p) # "none"
      BY <1>2, <3>2 DEF Agreed, InFile
    <3> QED BY <3>1, <3>2
  <2>5. AgreeInv'
    BY <2>1, <2>2, <2>4 DEF ScanInv, AgreeInv
  <2>6. FoundInv'
    <3>1. ASSUME WholeList', NEW h \in Games \ moved', disk'[h] = "game"
          PROVE  h \in InFile' \/ Hidden(h)'
      <4>1. h \in InFile \/ Hidden(h)
        BY <2>1, <2>2, <3>1 DEF ScanInv, FoundInv
      <4>2. h = p => Attributes(p) # "none"
        BY <2>1, <2>3, <3>1
      <4> QED BY <2>2, <2>4, <4>1, <4>2
    <3> QED BY <2>1, <3>1 DEF FoundInv
  <2>7. GoneInv'
    <3>1. ASSUME NEW h \in (Games \cap InFile') \ moved', disk'[h] = "none",
                 WholeList', ~leaked'
          PROVE  h \in todo'
      <4>1. Agreed /\ ~leaked
        BY <2>1, <2>2, <3>1 DEF ScanInv, AgreeInv
      <4>2. h \in InFile
        BY <2>4, <3>1, <4>1
      <4>3. h \in todo
        BY <2>1, <2>2, <3>1, <4>1, <4>2 DEF ScanInv, GoneInv
      <4>4. h # p
        BY <2>1, <2>3, <2>4, <3>1, <4>1
      <4> QED BY <2>1, <4>3, <4>4
    <3> QED BY <2>1, <3>1 DEF GoneInv
  <2> QED BY <2>5, <2>6, <2>7 DEF ScanInv
<1> QED BY <1>1, <1>2 DEF Vanished

LEMMA ScanNext == WindowInv /\ ScanInv /\ [Next]_vars => ScanInv'
<1> SUFFICES ASSUME WindowInv, ScanInv, [Next]_vars
             PROVE  ScanInv'
  OBVIOUS
<1>0. Sound(stats) /\ TypeOK /\ CursorInv /\ ListOK
  BY WindowParts DEF Parts, WindowInv
<1>1. CASE Open
  <2>1. /\ todo' = Games /\ moved' = {} /\ InFile' = InFile
        /\ mCounter' = IF stats.there THEN "757 prepare" ELSE "755"
        /\ Agreed' <=> Agreed
    BY <1>1, Fresh DEF Open, InFile, Agreed
  <2>2. ~stats.there => InFile = {} /\ Agreed
    BY <1>0, NoFileFacts DEF Sound, InFile, Contents, Right, Agreed
  <2> QED BY <2>1, <2>2 DEF ScanInv, AgreeInv, FoundInv, GoneInv
<1>2. CASE QuickPrepare
  <2>1. /\ mCounter = "757 prepare" /\ mCounter' = "757 scan"
        /\ UNCHANGED <<disk, stats, todo, moved>>
    BY <1>2 DEF QuickPrepare
  <2>2. Sound(stats') /\ PrepareList
    BY <1>0, <1>2, <2>1 DEF QuickPrepare
  <2>3. /\ InList' = InFile' /\ todo' = Games
        /\ WholeList' /\ ~leaked' => Agreed'
    BY <1>0, <2>1, <2>2, Prepared DEF InFile, Contents, ScanInv, FoundInv, Agreed, Right
  <2> QED BY <2>1, <2>3 DEF ScanInv, AgreeInv, FoundInv, GoneInv
<1>3. CASE QuickScanned
  <2>1. /\ mCounter = "757 scan" /\ todo = {} /\ mCounter' = "757 vanished"
        /\ UNCHANGED <<disk, stats, list, leaked, moved>>
    BY <1>3 DEF QuickScanned, listVars
  <2>2. WholeList => todo' = InList
    <3>1. PICK e \in AsRead : todo' = {e[i] : i \in DOMAIN e}
      BY <1>3 DEF QuickScanned
    <3>2. WholeList => DOMAIN list.items = 1..list.total
      BY <1>0 DEF ListOK, WholeList
    <3>3. WholeList => DOMAIN e = DOMAIN list.items
                       /\ \A i \in DOMAIN list.items : e[i] = list.items[i]
      BY <3>2 DEF AsRead
    <3> QED BY <3>1, <3>3 DEF InList
  <2>3. /\ InFile' = InFile /\ (Agreed' <=> Agreed) /\ (WholeList' <=> WholeList)
        /\ \A h : Hidden(h)' <=> Hidden(h)
    BY <2>1 DEF InFile, Hidden, Agreed, WholeList
  <2>4. AgreeInv'
    BY <2>1, <2>3 DEF ScanInv, AgreeInv
  <2>5. FoundInv'
    BY <2>1, <2>3 DEF ScanInv, FoundInv
  <2>6. GoneInv'
    BY <2>1, <2>2, <2>3 DEF ScanInv, GoneInv
  <2> QED BY <2>4, <2>5, <2>6 DEF ScanInv
<1>4. CASE \/ Enter \/ FullScanDone \/ QuickScanDone \/ Leave \/ Launch \/ Rescan \/ DeleteGame
           \/ SwitchOff \/ Boot
  BY <1>4, NoScan DEF Enter, FullScanDone, QuickScanDone, Leave, Launch, Rescan, DeleteGame,
                      CutDelete, SwitchOff, Off, Boot, Scanning
<1>5. CASE Up \/ Down \/ Mode \/ UNCHANGED vars
  BY <1>5, ScanSame DEF Up, Down, Mode, vars, listVars
<1>6. ASSUME NEW g \in Games, CopyGame(g)
      PROVE  ScanInv'
  BY <1>6, NoScan DEF CopyGame, CutAdd, Off, Scanning
<1>7. ASSUME NEW g \in Games, Ftp(g)
      PROVE  ScanInv'
  <2>1. CASE mCounter = "mainmenu"
    BY <1>7, <2>1, NoScan DEF Ftp, Scanning
  <2>2. CASE mCounter # "mainmenu"
    <3>1. /\ UNCHANGED <<stats, leaked, list, mCounter, todo>> /\ moved' = moved \cup {g}
          /\ \A h \in Games \ {g} : disk'[h] = disk[h]
      BY <1>0, <1>7, <2>2 DEF Ftp, listVars, TypeOK
    <3>2. /\ InFile' = InFile /\ InList' = InList /\ \A h : Hidden(h)' <=> Hidden(h)
          /\ (Agreed' <=> Agreed) /\ (WholeList' <=> WholeList)
      BY <3>1 DEF InFile, InList, Hidden, Agreed, WholeList
    <3>3. AgreeInv'
      BY <3>1, <3>2 DEF ScanInv, AgreeInv
    <3>4. FoundInv'
      BY <3>1, <3>2 DEF ScanInv, FoundInv
    <3>5. GoneInv'
      BY <3>1, <3>2 DEF ScanInv, GoneInv
    <3> QED BY <3>3, <3>4, <3>5 DEF ScanInv
  <2> QED BY <2>1, <2>2
<1> QED
  BY <1>1, <1>2, <1>3, <1>4, <1>5, <1>6, <1>7, FullScanKeeps, QuickScanKeeps, VanishedKeeps
     DEF Next

LEMMA ScanAlways == Spec => [](WindowInv /\ ScanInv)
<1>1. Init => ScanInv
  BY DEF Init, ScanInv, AgreeInv, FoundInv, GoneInv, InFile, NoFile
<1> QED BY <1>1, ScanNext, WindowAlways, PTL DEF Spec

-----------------------------------------------------------------------------
(* What the steps do.                                                      *)

(* A scan ends with the last preparation of the list.                      *)
LEMMA ScanEnds ==
  ASSUME WindowInv, Next, mCounter' = "760", mCounter \in {"755", "757 vanished"}
  PROVE  /\ todo = {} /\ InList' = InFile /\ UNCHANGED <<disk, moved>>
         /\ InList' = {list'.items[i] : i \in DOMAIN list'.items}
<1>1. FullScanDone \/ QuickScanDone
  BY DEF Next, Enter, Open, QuickPrepare, QuickScanned, Up, Down, Mode, Listing, Leave, Launch,
         Rescan, DeleteGame, SwitchOff, Boot, FullScan, QuickScan, Vanished, CutAdd, CutDelete,
         Seen, Off, CopyGame, Ftp
<1>2. todo = {} /\ UNCHANGED <<disk, stats, moved>> /\ PrepareList
  BY <1>1 DEF FullScanDone, QuickScanDone
<1>3. Sound(stats') /\ TypeOK /\ CursorInv
  BY <1>2, WindowParts DEF Parts, WindowInv
<1> QED BY <1>2, <1>3, Prepared DEF InFile, Contents, InList

FindsStep ==
  mCounter' = "760" /\ mCounter \in {"755", "757 vanished"} /\ WholeList =>
    \A g \in Games \ moved : disk[g] = "game" =>
      \/ \E i \in DOMAIN list'.items : list'.items[i] = g
      \/ \E i \in DOMAIN list.items : list.items[i] \in Covers[g] \ {g}

ForgetsStep ==
  mCounter' = "760" /\ mCounter \in {"755", "757 vanished"} /\ ~leaked /\ WholeList =>
    \A g \in Games \ moved : disk[g] = "none" =>
      \A i \in DOMAIN list'.items : list'.items[i] # g

(* A game that stayed where it is through a whole scan is found, as far as *)
(* the comparison of the paths allows and if the list was whole.           *)
THEOREM ScanFindsCorrect == Spec => ScanFinds
<1>1. WindowInv /\ ScanInv /\ [Next]_vars => [FindsStep]_vars
  <2> SUFFICES ASSUME WindowInv, ScanInv, Next,
                      mCounter' = "760", mCounter \in {"755", "757 vanished"}, WholeList,
                      NEW g \in Games \ moved, disk[g] = "game"
               PROVE  \/ \E i \in DOMAIN list'.items : list'.items[i] = g
                      \/ \E i \in DOMAIN list.items : list.items[i] \in Covers[g] \ {g}
    BY DEF FindsStep
  <2>1. todo = {} /\ InFile = {list'.items[i] : i \in DOMAIN list'.items}
    BY ScanEnds
  <2>2. g \in InFile \/ Hidden(g)
    BY <2>1 DEF ScanInv, FoundInv
  <2> QED BY <2>1, <2>2 DEF Hidden
<1> QED BY <1>1, ScanAlways, PTL DEF Spec, ScanFinds, FindsStep

(* A directory that was gone through a whole scan is in the list no more,  *)
(* if the file could be replaced and the list was whole.                   *)
THEOREM ScanForgetsCorrect == Spec => ScanForgets
<1>1. WindowInv /\ ScanInv /\ [Next]_vars => [ForgetsStep]_vars
  <2> SUFFICES ASSUME WindowInv, ScanInv, Next,
                      mCounter' = "760", mCounter \in {"755", "757 vanished"}, ~leaked,
                      WholeList, NEW g \in Games \ moved, disk[g] = "none"
               PROVE  \A i \in DOMAIN list'.items : list'.items[i] # g
    BY DEF ForgetsStep
  <2>1. todo = {} /\ InFile = {list'.items[i] : i \in DOMAIN list'.items}
    BY ScanEnds
  <2>2. g \notin InFile
    BY <2>1 DEF ScanInv, GoneInv
  <2> QED BY <2>1, <2>2
<1> QED BY <1>1, ScanAlways, PTL DEF Spec, ScanForgets, ForgetsStep

SparesOthers ==
  \A g \in Games \cap (InFile \ InFile') :
    \/ mCounter' = "750"
    \/ gm_mode = "DELETE_GAME_PROGRESS" /\ (cbrowse \in Rows => g = list.items[cbrowse])
    \/ mCounter = "757 vanished" /\ disk[g] = "none"

(* A game leaves the file only by a rescan, at the user's order or because *)
(* its directory is gone: no other one is lost, not even to a power-off.   *)
THEOREM KeepsOthersCorrect == Spec => KeepsOthers
<1>1. WindowInv /\ [Next]_vars => [SparesOthers]_vars
  <2> SUFFICES ASSUME WindowInv, Next, NEW g \in Games, g \in InFile, g \notin InFile',
                      mCounter' # "750"
               PROVE  \/ /\ gm_mode = "DELETE_GAME_PROGRESS"
                         /\ cbrowse \in Rows => g = list.items[cbrowse]
                      \/ mCounter = "757 vanished" /\ disk[g] = "none"
    BY DEF SparesOthers
  <2>1. TypeOK /\ CountCovers /\ InFile' = Contents(stats')
    BY DEF WindowInv, InFile, Contents
  <2>2. stats' # stats
    BY <2>1 DEF InFile, Contents
  <2>3. ~CutAdd /\ \A h \in Games : stats' \notin Added(h)
    BY <2>1, Adds, CutAddKeeps
  <2>4. ASSUME NEW h, stats' \in Deleted(h) \/ CutDelete(h)
        PROVE  g = h
    <3>1. InFile \ {h} \subseteq InFile'
      BY <2>1, <2>4, DeletedFacts, CutDeleteKeeps
    <3> QED BY <3>1
  <2>5. CASE DeleteGame
    <3>1. PICK e \in AsRead : stats' \in Deleted(e[cbrowse]) \/ CutDelete(e[cbrowse])
      BY <2>5 DEF DeleteGame
    <3>2. g = e[cbrowse]
      BY <2>4, <3>1
    <3>3. gm_mode = "DELETE_GAME_PROGRESS" /\ list.total # 0
      BY <2>5 DEF DeleteGame, WindowInv, ModeInv
    <3> QED BY <3>2, <3>3, UnderCursor DEF Rows
  <2>6. CASE \E p \in Entries : Vanished(p)
    <3>1. PICK p \in Entries : Vanished(p)
      BY <2>6
    <3>2. Attributes(p) = "none" /\ g = p
      BY <2>2, <2>4, <3>1 DEF Vanished
    <3> QED BY <3>1, <3>2 DEF Vanished, Attributes
  <2> QED
    BY <2>2, <2>3, <2>5, <2>6
       DEF Next, Enter, Open, FullScanDone, QuickPrepare, QuickScanned, QuickScanDone, Up, Down,
           Mode, Leave, Launch, Rescan, SwitchOff, Boot, FullScan, QuickScan, CopyGame, Ftp,
           listVars
<1> QED BY <1>1, WindowAlways, PTL DEF Spec, KeepsOthers, SparesOthers
====
