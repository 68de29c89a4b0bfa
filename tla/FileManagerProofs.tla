-------------------------- MODULE FileManagerProofs --------------------------
(***************************************************************************)
(* That a selection belongs to the directory its pane shows, that only     *)
(* what the confirmation asked about is deleted, and that an item leaves   *)
(* the selection when it was copied, for any drives, names and discs.      *)
(***************************************************************************)
EXTENDS FileManager, FiniteSetTheorems, SequenceTheorems, TLAPS

Letters == Drives \cup Names

-----------------------------------------------------------------------------
(* Paths.                                                                  *)

LEMMA PathsAre ==
  /\ MaxDepth \in Nat \ {0} /\ Root \in Paths
  /\ \A p : p \in Paths <=> p \in Seq(Letters) /\ Len(p) \in 0..MaxDepth + 1
  /\ \A p : p \in Paths => Len(p) \in Nat /\ DOMAIN p = 1..Len(p)
<1>1. MaxDepth \in Nat \ {0}
  BY FileManagerAssumption
<1>2. ASSUME NEW p \in Paths
      PROVE  p \in Seq(Letters) /\ Len(p) \in 0..MaxDepth + 1
  <2>1. PICK n \in 0..MaxDepth + 1 : p \in [1..n -> Letters]
    BY DEF Paths, Letters
  <2> QED BY <1>1, <2>1
<1>3. ASSUME NEW p \in Seq(Letters), Len(p) \in 0..MaxDepth + 1
      PROVE  p \in Paths
  <2>1. p \in [1..Len(p) -> Letters]
    BY LenProperties
  <2> QED BY <1>3, <2>1 DEF Paths, Letters
<1>4. Root \in Seq(Letters) /\ Len(Root) = 0
  BY DEF Root
<1>5. ASSUME NEW p \in Paths
      PROVE  Len(p) \in Nat /\ DOMAIN p = 1..Len(p)
  BY <1>1, <1>2, LenProperties
<1>6. Root \in Paths
  <2>1. 0 \in 0..MaxDepth + 1
    BY <1>1
  <2> QED BY <1>3, <1>4, <2>1
<1>7. \A p : p \in Paths <=> p \in Seq(Letters) /\ Len(p) \in 0..MaxDepth + 1
  BY <1>2, <1>3
<1> QED BY <1>1, <1>5, <1>6, <1>7

LEMMA PathAppended ==
  ASSUME NEW p \in Seq(Letters), NEW n \in Letters
  PROVE  /\ Append(p, n) \in Seq(Letters) /\ Len(Append(p, n)) = Len(p) + 1
         /\ Append(p, n) # Root /\ Front(Append(p, n)) = p
         /\ Len(p) <= MaxDepth => Append(p, n) \in Paths
<1> DEFINE a == Append(p, n)
<1>1. a \in Seq(Letters) /\ Len(a) = Len(p) + 1 /\ Len(p) \in Nat
      /\ \A i \in 1..Len(p) : a[i] = p[i]
  BY AppendProperties
<1>2. Front(a) = p
  <2> HIDE DEF a
  <2>1. Front(a) = SubSeq(a, 1, Len(p))
    BY <1>1 DEF Front
  <2>2. \A i \in 1..Len(p) : a[i] \in Letters
    BY <1>1
  <2>3. SubSeq(a, 1, Len(p)) \in Seq(Letters) /\ Len(SubSeq(a, 1, Len(p))) = Len(p)
        /\ \A i \in 1..Len(p) : SubSeq(a, 1, Len(p))[i] = p[i]
    BY <1>1, <2>2
  <2> QED BY <2>1, <2>3, SeqEqual
<1>3. a # Root
  <2> HIDE DEF a
  <2> QED BY <1>1 DEF Root
<1>4. Len(p) <= MaxDepth => a \in Paths
  <2> HIDE DEF a
  <2> QED BY <1>1, PathsAre
<1> QED BY <1>1, <1>2, <1>3, <1>4

(* An item of a directory on the disc is on the disc.                      *)
InPath(item, path) == item = path \/ Front(item) = path

LEMMA FrontOnD ==
  ASSUME NEW item \in Seq(Letters), NEW path \in Seq(Letters), InPath(item, path), OnD(path)
  PROVE  OnD(item)
<1>1. CASE item = path
  BY <1>1
<1>2. CASE Front(item) = path
  <2>1. Len(item) \in Nat /\ Len(path) \in Nat /\ path # <<>> /\ path[1] = D
    BY DEF OnD, Root
  <2>2. path = SubSeq(item, 1, Len(item) - 1)
    BY <1>2 DEF Front
  <2>3. Len(path) # 0
    BY <2>1, EmptySeq
  <2>4. \A i \in 1..Len(item) - 1 : item[i] \in Letters
    BY <2>1
  <2>5. Len(item) - 1 >= 1 /\ path[1] = item[1]
    BY <2>1, <2>2, <2>3, <2>4
  <2>6. item # Root
    BY <2>1, <2>5 DEF Root
  <2> QED BY <2>1, <2>5, <2>6 DEF OnD
<1> QED BY <1>1, <1>2 DEF InPath

(* What is below a path on the disc is on the disc.                        *)
LEMMA BelowD ==
  ASSUME NEW p \in Seq(Letters), IsPrefix(<<D>>, p)
  PROVE  OnD(p)
<1>1. Len(p) \in Nat /\ Len(<<D>>) = 1 /\ Len(p) >= 1
      /\ SubSeq(<<D>>, 1, 1) = SubSeq(p, 1, 1)
  BY DEF IsPrefix
<1>2. p[1] \in Letters
  BY <1>1
<1>3. SubSeq(<<D>>, 1, 1)[1] = D
  OBVIOUS
<1>4. SubSeq(p, 1, 1)[1] = p[1]
  BY <1>1, <1>2
<1>5. p # Root
  BY <1>1 DEF Root
<1> QED BY <1>1, <1>3, <1>4, <1>5 DEF OnD

-----------------------------------------------------------------------------
(* What a pane lists: different names have different places in the order.  *)

LEMMA SortedNames ==
  ASSUME NEW S, S \subseteq Names \/ S \subseteq Drives
  PROVE  Sorted(S) \in Seq(S)
<1> DEFINE n == Cardinality(S)
           upTo(x) == {y \in S : Rank[y] <= Rank[x]}
<1>1. IsFiniteSet(S) /\ n \in Nat /\ \A x : IsFiniteSet(upTo(x))
  <2>1. IsFiniteSet(S)
    BY FileManagerAssumption, FS_Subset
  <2> QED BY <2>1, FS_Subset, FS_CardinalityType
<1>2. \A x \in S : Rank[x] \in Nat
  BY FileManagerAssumption
<1>3. \A x, y \in S : Rank[x] = Rank[y] => x = y
  BY FileManagerAssumption
<1>4. \A x \in S : /\ Place(S, x) = Cardinality(upTo(x)) /\ Place(S, x) \in 1..n
                   /\ x \in upTo(x) /\ upTo(x) \subseteq S
  <2> TAKE x \in S
  <2>1. Place(S, x) = Cardinality(upTo(x)) /\ x \in upTo(x) /\ upTo(x) \subseteq S
    BY <1>2 DEF Place
  <2>2. /\ Cardinality(upTo(x)) \in Nat /\ Cardinality(upTo(x)) <= n
        /\ Cardinality(upTo(x)) # 0
    BY <1>1, <2>1, FS_Subset, FS_CardinalityType, FS_EmptySet
  <2> HIDE DEF n, upTo
  <2> QED BY <1>1, <2>1, <2>2
<1>5. \A x, y \in S : Rank[x] < Rank[y] => Place(S, x) < Place(S, y)
  <2> SUFFICES ASSUME NEW x \in S, NEW y \in S, Rank[x] < Rank[y]
               PROVE  Place(S, x) < Place(S, y)
    OBVIOUS
  <2>1. upTo(x) \subseteq upTo(y) /\ y \in upTo(y) /\ y \notin upTo(x)
    BY <1>2
  <2>2. upTo(x) # upTo(y)
    BY <2>1
  <2>3. /\ Cardinality(upTo(x)) # Cardinality(upTo(y))
        /\ Cardinality(upTo(x)) <= Cardinality(upTo(y))
    BY <1>1, <2>1, <2>2, FS_Subset
  <2>4. Cardinality(upTo(x)) \in Nat /\ Cardinality(upTo(y)) \in Nat
    BY <1>1, FS_CardinalityType
  <2> HIDE DEF upTo
  <2> QED BY <1>4, <2>3, <2>4
<1>6. \A x, y \in S : x # y => Place(S, x) # Place(S, y)
  <2> SUFFICES ASSUME NEW x \in S, NEW y \in S, x # y
               PROVE  Place(S, x) # Place(S, y)
    OBVIOUS
  <2>1. Rank[x] < Rank[y] \/ Rank[y] < Rank[x]
    BY <1>2, <1>3
  <2>2. Place(S, x) \in Nat /\ Place(S, y) \in Nat
    <3>1. Place(S, x) \in 1..n /\ Place(S, y) \in 1..n /\ n \in Nat
      BY <1>1, <1>4
    <3> HIDE DEF n
    <3> QED BY <3>1
  <2> QED BY <1>5, <2>1, <2>2
<1>7. \A k \in 1..n : \E x \in S : Place(S, x) = k
  <2> DEFINE f == [x \in S |-> Place(S, x)]
  <2>1. f \in [S -> 1..n] /\ \A x, y \in S : x # y => f[x] # f[y]
    BY <1>4, <1>6
  <2>2. f \in Injection(S, 1..n)
    BY <2>1 DEF Injection, IsInjective
  <2>3. IsFiniteSet(1..n) /\ Cardinality(1..n) = n
    <3> HIDE DEF n
    <3> QED BY <1>1, FS_Interval
  <2>4. f \in Surjection(S, 1..n)
    <3> HIDE DEF f
    <3> QED BY <2>2, <2>3, FS_Injection
  <2> QED BY <2>4 DEF Surjection
<1>8. \A k \in 1..n : (CHOOSE x \in S : Place(S, x) = k) \in S
  BY <1>7
<1>9. Sorted(S) = [k \in 1..n |-> CHOOSE x \in S : Place(S, x) = k]
  BY DEF Sorted
<1> QED
  <2> HIDE DEF n
  <2> QED BY <1>1, <1>8, <1>9

Lists == Seq([name : Letters, kind : {"dir", "file"}])

(* Every entry but a drive is on the disk, as what it is listed.           *)
LEMMA ListingIsThere ==
  ASSUME NEW path
  PROVE  /\ Listing(path) \in Lists
         /\ Len(Listing(path)) \in Nat /\ DOMAIN Listing(path) = 1..Len(Listing(path))
         /\ path # Root => \A k \in DOMAIN Listing(path) :
              Append(path, Listing(path)[k].name) \in DOMAIN disk
<1> DEFINE Of(kind) == {n \in Names : Append(path, n) \in DOMAIN disk
                                      /\ disk[Append(path, n)] = kind}
           As(kind, names) == [i \in DOMAIN names |-> [name |-> names[i], kind |-> kind]]
           There == {n \in Names : Append(path, n) \in DOMAIN disk}
           E(S) == [name : S, kind : {"dir", "file"}]
<1>1. ASSUME NEW S, NEW s \in Seq(S), NEW kind \in {"dir", "file"}
      PROVE  As(kind, s) \in Seq(E(S))
  <2>1. Len(s) \in Nat /\ DOMAIN s = 1..Len(s) /\ \A i \in 1..Len(s) : s[i] \in S
    OBVIOUS
  <2>2. \A i \in 1..Len(s) : [name |-> s[i], kind |-> kind] \in E(S)
    BY <2>1
  <2>3. As(kind, s) = [i \in 1..Len(s) |-> [name |-> s[i], kind |-> kind]]
    BY <2>1
  <2> HIDE DEF E, As
  <2> QED BY <2>1, <2>2, <2>3
<1>2. CASE path = Root
  <2>1. Sorted(Drives) \in Seq(Drives)
    BY SortedNames
  <2>2. Listing(path) = As("file", Sorted(Drives))
    BY <1>2 DEF Listing
  <2>3. Listing(path) \in Seq(E(Drives))
    <3> HIDE DEF As, E
    <3> QED BY <1>1, <2>1, <2>2
  <2>4. E(Drives) \subseteq E(Letters)
    BY DEF Letters
  <2>5. Listing(path) \in Seq(E(Letters))
    <3> HIDE DEF E
    <3> QED BY <2>3, <2>4, SeqMonotonic
  <2> QED BY <1>2, <2>5, LenProperties DEF Lists
<1>3. CASE path # Root
  <2> DEFINE d == As("dir", Sorted(Of("dir")))
             f == As("file", Sorted(Of("file")))
  <2>1. Sorted(Of("dir")) \in Seq(Of("dir")) /\ Sorted(Of("file")) \in Seq(Of("file"))
    BY SortedNames
  <2>2. Of("dir") \subseteq There /\ Of("file") \subseteq There
    OBVIOUS
  <2>3. Listing(path) = d \o f
    BY <1>3 DEF Listing
  <2>4. Sorted(Of("dir")) \in Seq(There) /\ Sorted(Of("file")) \in Seq(There)
    <3> HIDE DEF Of, There
    <3> QED BY <2>1, <2>2, SeqMonotonic
  <2>5. d \in Seq(E(There)) /\ f \in Seq(E(There))
    <3> HIDE DEF As, E, There, Of
    <3> QED BY <1>1, <2>4
  <2>6. d \o f \in Seq(E(There))
    <3> HIDE DEF d, f, E, There
    <3> QED BY <2>5, ConcatProperties
  <2>7. E(There) \subseteq E(Letters)
    BY DEF Letters
  <2>8. Listing(path) \in Seq(E(Letters))
    <3> HIDE DEF E, There, d, f
    <3> QED BY <2>3, <2>6, <2>7, SeqMonotonic
  <2>9. \A k \in DOMAIN Listing(path) : Listing(path)[k] \in E(There)
    <3> HIDE DEF E, There, d, f
    <3> QED BY <2>3, <2>6
  <2>10. \A k \in DOMAIN Listing(path) : Listing(path)[k].name \in There
    <3> HIDE DEF There
    <3> QED BY <2>9
  <2> QED BY <2>8, <2>10, LenProperties DEF Lists
<1> QED BY <1>2, <1>3

-----------------------------------------------------------------------------
(* The file system.                                                        *)

LEMMA WithDisks ==
  ASSUME NEW f, NEW g, IsDisk(f), IsDisk(g)
  PROVE  IsDisk(With(f, g)) /\ DOMAIN With(f, g) = DOMAIN f \cup DOMAIN g
BY DEF IsDisk, With

LEMMA WithoutDisk ==
  ASSUME NEW S, IsDisk(disk)
  PROVE  IsDisk(Without(S)) /\ DOMAIN Without(S) = DOMAIN disk \ S
BY DEF IsDisk, Without

(* What is moved from one path below another has paths again.              *)
LEMMA MovedDisk ==
  ASSUME IsDisk(disk), NEW from \in Seq(Letters), NEW to \in Seq(Letters), to # Root
  PROVE  IsDisk(Short(Moved(from, to)))
<1> DEFINE tail(p) == SubSeq(p, Len(from) + 1, Len(p))
           New(p) == to \o tail(p)
           back(q) == from \o SubSeq(q, Len(to) + 1, Len(q))
           m == Moved(from, to)
<1>1. Len(from) \in Nat /\ Len(to) \in Nat \ {0}
  BY LenProperties, EmptySeq DEF Root
<1>2. ASSUME NEW p \in Within(from)
      PROVE  /\ p \in DOMAIN disk /\ p \in Seq(Letters) /\ Len(p) \in Nat
             /\ Len(from) <= Len(p) /\ SubSeq(p, 1, Len(from)) = from
  <2>1. p \in DOMAIN disk /\ p \in Seq(Letters) /\ Len(p) \in Nat
        /\ Len(from) <= Len(p) /\ SubSeq(from, 1, Len(from)) = SubSeq(p, 1, Len(from))
    BY PathsAre DEF Within, IsPrefix, IsDisk
  <2>2. SubSeq(from, 1, Len(from)) = from
    BY SubSeqFull
  <2> QED BY <2>1, <2>2
<1>3. ASSUME NEW p \in Within(from)
      PROVE  /\ tail(p) \in Seq(Letters) /\ New(p) \in Seq(Letters)
             /\ Len(New(p)) \in Nat \ {0} /\ back(New(p)) = p
  <2>1. \A i \in Len(from) + 1..Len(p) : p[i] \in Letters
    BY <1>1, <1>2, ElementOfSeq
  <2>2. tail(p) \in Seq(Letters) /\ Len(tail(p)) = Len(p) - Len(from)
    BY <1>1, <1>2, <2>1, SubSeqProperties
  <2> HIDE DEF tail
  <2>3. New(p) \in Seq(Letters) /\ Len(New(p)) = Len(to) + Len(tail(p))
    BY <2>2, ConcatProperties
  <2>4. Len(New(p)) \in Nat \ {0}
    BY <1>1, <1>2, <2>2, <2>3
  <2>5. SubSeq(New(p), Len(to) + 1, Len(New(p))) = tail(p)
    <3>1. CASE tail(p) = <<>>
      <4>1. Len(tail(p)) = 0
        BY <3>1
      <4>2. Len(New(p)) < Len(to) + 1
        BY <1>1, <2>3, <4>1
      <4> HIDE DEF New
      <4> QED BY <1>1, <2>4, <3>1, <4>2, SubSeqEmpty
    <3>2. CASE tail(p) # <<>>
      <4>1. Len(tail(p)) \in Nat \ {0}
        BY <2>2, <3>2, EmptySeq
      <4>2. SubSeq(New(p), Len(to) + 1, Len(New(p)))
            = SubSeq(tail(p), (Len(to) + 1) - Len(to), Len(New(p)) - Len(to))
        BY <1>1, <2>2, <2>3, <4>1, SubSeqOfConcat2
      <4>3. (Len(to) + 1) - Len(to) = 1 /\ Len(New(p)) - Len(to) = Len(tail(p))
        <5> HIDE DEF New
        <5> QED BY <1>1, <2>3, <4>1
      <4> QED BY <2>2, <4>2, <4>3, SubSeqFull
    <3> QED BY <3>1, <3>2
  <2>6. from \o tail(p) = p
    <3>1. SubSeq(p, 1, Len(from)) \o SubSeq(p, Len(from) + 1, Len(p)) = SubSeq(p, 1, Len(p))
      <4>1. 1 \in 1..Len(p) + 1 /\ Len(from) \in 1 - 1..Len(p) /\ Len(p) \in Len(from)..Len(p)
        BY <1>1, <1>2
      <4> QED BY <1>2, <4>1, ConcatAdjacentSubSeq
    <3> QED BY <1>2, <3>1, SubSeqFull DEF tail
  <2> QED BY <2>2, <2>3, <2>4, <2>5, <2>6
<1>4. m = [q \in {New(p) : p \in Within(from)} |-> disk[back(q)]]
  BY DEF Moved
<1> HIDE DEF New, back, m
<1>5. ASSUME NEW q \in DOMAIN m
      PROVE  q \in Seq(Letters) /\ Len(q) \in Nat \ {0} /\ m[q] \in {"dir", "file"}
  <2>1. PICK p \in Within(from) : q = New(p)
    BY <1>4
  <2>2. back(q) = p
    BY <1>3, <2>1
  <2>3. m[q] = disk[p]
    BY <1>4, <2>2
  <2> QED BY <1>2, <1>3, <2>1, <2>3 DEF IsDisk
<1>6. ASSUME NEW q \in DOMAIN Short(m)
      PROVE  q \in Paths /\ Len(q) \in 1..MaxDepth /\ Short(m)[q] \in {"dir", "file"}
  <2>1. q \in DOMAIN m /\ Len(q) <= MaxDepth /\ Short(m)[q] = m[q]
    BY DEF Short
  <2>2. Len(q) \in 1..MaxDepth
    BY <1>5, <2>1, PathsAre
  <2> QED BY <1>5, <2>1, <2>2, PathsAre
<1> QED BY <1>6 DEF IsDisk, m

(* A copy only adds to the disk.                                           *)
LEMMA CopiedDisk ==
  ASSUME IsDisk(disk), NEW j \in Jobs
  PROVE  IsDisk(Copied(j)) /\ DOMAIN disk \subseteq DOMAIN Copied(j)
<1> DEFINE to == Append(j.dest, Last(j.item))
<1>1. CASE j.item \in DOMAIN disk
  <2>1. j.item \in Seq(Letters) /\ Len(j.item) \in 1..Len(j.item) /\ j.dest \in Seq(Letters)
    BY <1>1, PathsAre DEF IsDisk, Jobs
  <2>2. Last(j.item) \in Letters
    BY <2>1, ElementOfSeq DEF Last
  <2>3. to \in Seq(Letters) /\ to # Root
    BY <2>1, <2>2, PathAppended
  <2>4. IsDisk(Short(Moved(j.item, to)))
    <3> HIDE DEF to
    <3> QED BY <2>1, <2>3, MovedDisk
  <2> QED BY <2>4, WithDisks DEF Copied
<1>2. CASE j.item \notin DOMAIN disk
  BY <1>2 DEF Copied
<1> QED BY <1>1, <1>2

LEMMA RenamedDisk ==
  ASSUME IsDisk(disk), NEW from \in Seq(Letters), NEW to \in Seq(Letters)
  PROVE  IsDisk(Renamed(from, to))
<1>1. CASE Len(to) > 1
  <2>1. to # Root
    <3>1. Len(<<>>) = 0
      OBVIOUS
    <3> QED BY <1>1, <3>1 DEF Root
  <2>2. IsDisk(Short(Moved(from, to))) /\ IsDisk(Without(Within(from)))
    BY <2>1, MovedDisk, WithoutDisk
  <2> QED BY <2>2, WithDisks DEF Renamed
<1>2. CASE ~(Len(to) > 1)
  BY <1>2 DEF Renamed
<1> QED BY <1>1, <1>2

LEMMA MadeDisk ==
  ASSUME IsDisk(disk), NEW path \in Seq(Letters)
  PROVE  IsDisk(Made(path))
<1> DEFINE g == [p \in {path} |-> "dir"]
<1>1. CASE Len(path) > 1 /\ Len(path) <= MaxDepth
  <2>1. path \in Paths /\ Len(path) \in 1..MaxDepth
    BY <1>1, PathsAre, LenProperties
  <2>2. IsDisk(g)
    BY <2>1 DEF IsDisk
  <2> QED BY <2>2, WithDisks DEF Made
<1>2. CASE ~(Len(path) > 1 /\ Len(path) <= MaxDepth)
  BY <1>2 DEF Made
<1> QED BY <1>1, <1>2

-----------------------------------------------------------------------------
(* A pane.                                                                 *)

Drive(p) == IF p.path = Root THEN Root ELSE <<p.path[1]>>

(* A directory that may be entered is in one.                              *)
ListFits(p) ==
  \A k \in DOMAIN p.list : p.list[k].kind = "dir" => Len(p.path) < MaxDepth

(* A pane without a way back shows a drive or the list of them; nothing is *)
(* selected in the latter, and no place in a list twice.                   *)
PaneOK(p) ==
  /\ p \in Panes
  /\ Len(p.path) <= MaxDepth /\ \A k \in DOMAIN p.back : Len(p.back[k].path) <= MaxDepth
  /\ Len(IF p.back = <<>> THEN p.path ELSE p.back[1].path) <= 1
  /\ p.path = Root => p.selected = {}
  /\ ~p.renew /\ p.url = Drive(p) => ListFits(p)
  /\ \A s, t \in p.selected : s.at = t.at => s = t

InPane(p) == \A s \in p.selected : InPath(s.item, p.path)
InfoOK(p) == InPath(p.info.item, p.path) /\ (p.info.kind = "root" => p.info.item # Root)

LEMMA PaneFacts ==
  ASSUME NEW p \in Panes
  PROVE  /\ p.path \in Paths /\ p.path \in Seq(Letters) /\ Len(p.path) \in Nat
         /\ p.url \in Paths
         /\ p.back \in Seq([path : Paths, cursor : Nat \ {0}]) /\ Len(p.back) \in Nat
         /\ DOMAIN p.back = 1..Len(p.back)
         /\ p.list \in Lists /\ Len(p.list) \in Nat /\ DOMAIN p.list = 1..Len(p.list)
         /\ \A k \in DOMAIN p.list : p.list[k].name \in Letters /\ p.list[k].kind \in Kinds
         /\ p.cursor \in Nat \ {0} /\ p.renew \in BOOLEAN
         /\ p.selected \subseteq [at : Nat, item : Paths, kind : Kinds]
         /\ p.info \in Infos
         /\ p.info.kind \in Kinds /\ p.info.path \in Paths /\ p.info.item \in Paths
<1>1. /\ p.path \in Paths /\ p.url \in Paths
      /\ p.back \in Seq([path : Paths, cursor : Nat \ {0}]) /\ p.list \in Lists
      /\ p.cursor \in Nat \ {0} /\ p.renew \in BOOLEAN
      /\ p.selected \subseteq [at : Nat, item : Paths, kind : Kinds] /\ p.info \in Infos
  BY DEF Panes, Lists, Letters
<1>2. /\ Len(p.back) \in Nat /\ DOMAIN p.back = 1..Len(p.back)
      /\ Len(p.list) \in Nat /\ DOMAIN p.list = 1..Len(p.list)
  BY <1>1, LenProperties DEF Lists
<1>3. \A k \in DOMAIN p.list : p.list[k] \in [name : Letters, kind : {"dir", "file"}]
  BY <1>1, <1>2, ElementOfSeq DEF Lists
<1>4. \A k \in DOMAIN p.list : p.list[k].name \in Letters /\ p.list[k].kind \in Kinds
  BY <1>3 DEF Kinds
<1>5. p.path \in Seq(Letters) /\ Len(p.path) \in Nat
  BY <1>1, PathsAre
<1>6. p.info.kind \in Kinds /\ p.info.path \in Paths /\ p.info.item \in Paths
  BY <1>1 DEF Infos
<1> QED BY <1>1, <1>2, <1>4, <1>5, <1>6

(* A pane in the middle of a frame.                                        *)
Ready(p) == PaneOK(p) /\ InPane(p) /\ ListFits(p) /\ p.url = Drive(p)

(* Settled: what is selected is in the path, and the list is of the path.  *)
LEMMA SettledPane ==
  ASSUME IsDisk(disk), NEW p, PaneOK(p), NEW all \in BOOLEAN, InPane(p) \/ p.renew \/ all,
         NEW q, q = Settled(p, all)
  PROVE  Ready(q) /\ q.path = p.path /\ q.back = p.back
<1> DEFINE drive == Drive(p)
           e == IF drive # p.url
                THEN [p EXCEPT !.list = <<>>, !.selected = {}, !.renew = TRUE, !.url = drive]
                ELSE p
           l == Listing(p.path)
<1>1. p \in Panes
  BY DEF PaneOK
<1>2. drive \in Paths
  <2>1. CASE p.path = Root
    BY <2>1, PathsAre DEF Drive
  <2>2. CASE p.path # Root
    <3>1. p.path[1] \in Letters
      BY <1>1, <2>2, PaneFacts, EmptySeq, ElementOfSeq DEF Root
    <3>2. <<p.path[1]>> \in Seq(Letters) /\ Len(<<p.path[1]>>) = 1
      BY <3>1
    <3>3. 1 \in 0..MaxDepth + 1
      BY PathsAre
    <3> QED BY <2>2, <3>2, <3>3, PathsAre DEF Drive
  <2> QED BY <2>1, <2>2
<1>3. <<>> \in Lists /\ l \in Lists
  <2>1. l \in Lists
    BY ListingIsThere
  <2> QED BY <2>1, EmptySeq DEF Lists
<1>4. e \in Panes /\ e.path = p.path /\ e.back = p.back /\ e.info = p.info /\ e.url = drive
      /\ (e = p \/ (e.selected = {} /\ e.renew = TRUE))
  <2>1. CASE drive # p.url
    <3> DEFINE n == [p EXCEPT !.list = <<>>, !.selected = {}, !.renew = TRUE, !.url = drive]
    <3> HIDE DEF drive
    <3>1. n \in Panes /\ n.path = p.path /\ n.back = p.back /\ n.info = p.info
          /\ n.url = drive /\ n.selected = {} /\ n.renew = TRUE
      BY <1>1, <1>2, <1>3 DEF Panes, Lists, Letters
    <3> QED BY <2>1, <3>1
  <2>2. CASE drive = p.url
    BY <1>1, <2>2
  <2> QED BY <2>1, <2>2
<1>5. q = IF e.renew \/ all THEN [e EXCEPT !.list = Listing(e.path), !.selected = {},
                                           !.renew = FALSE] ELSE e
  BY DEF Settled, Emptied, Drive
<1> HIDE DEF e, l, drive
<1>6. CASE e.renew \/ all
  <2>1. q = [e EXCEPT !.list = l, !.selected = {}, !.renew = FALSE]
    BY <1>4, <1>5, <1>6 DEF l
  <2>2. q \in Panes /\ q.path = p.path /\ q.back = p.back /\ q.url = drive /\ q.list = l
        /\ q.selected = {} /\ q.renew = FALSE
    BY <1>3, <1>4, <2>1 DEF Panes, Lists, Letters
  <2>3. ListFits(q)
    <3> SUFFICES ASSUME NEW k \in DOMAIN l PROVE Len(p.path) < MaxDepth
      BY <2>2 DEF ListFits
    <3>1. CASE p.path = Root
      BY <3>1, PathsAre DEF Root
    <3>2. CASE p.path # Root
      <4>1. Append(p.path, l[k].name) \in DOMAIN disk /\ l[k].name \in Letters
        BY <2>2, <3>2, ListingIsThere, PaneFacts DEF l
      <4>2. \A a \in DOMAIN disk : Len(a) <= MaxDepth
        BY PathsAre DEF IsDisk
      <4>3. Len(Append(p.path, l[k].name)) <= MaxDepth
        BY <4>1, <4>2
      <4> QED BY <1>1, <4>1, <4>3, PaneFacts, PathAppended, PathsAre
    <3> QED BY <3>1, <3>2
  <2> QED BY <2>2, <2>3 DEF Ready, PaneOK, InPane, drive, Drive
<1>7. CASE ~(e.renew \/ all)
  <2>1. q = p /\ ~p.renew /\ p.url = drive
    BY <1>4, <1>5, <1>7
  <2> QED BY <1>7, <2>1 DEF Ready, PaneOK, drive
<1> QED BY <1>6, <1>7

LEMMA InfoOfPane ==
  ASSUME NEW p \in Panes, Len(p.path) <= MaxDepth
  PROVE  /\ Info(p) \in Infos /\ InPath(Info(p).item, p.path)
         /\ Info(p).kind = "root" => Info(p).item # Root
<1>1. CASE HasCursor(p)
  <2> DEFINE item == Append(p.path, p.list[p.cursor].name)
             kind == IF p.path = Root THEN "root" ELSE p.list[p.cursor].kind
  <2>1. p.list[p.cursor].name \in Letters /\ kind \in Kinds
    BY <1>1, PaneFacts DEF HasCursor, Kinds
  <2>2. item \in Paths /\ item # Root /\ Front(item) = p.path
    BY <2>1, PaneFacts, PathAppended
  <2>3. Info(p) = [kind |-> kind, path |-> p.path, item |-> item]
    BY <1>1 DEF Info
  <2> HIDE DEF item, kind
  <2> QED BY <2>1, <2>2, <2>3, PaneFacts DEF Infos, InPath
<1>2. CASE ~HasCursor(p)
  <2>1. Info(p) = [kind |-> "file", path |-> p.info.path, item |-> p.path]
    BY <1>2 DEF Info
  <2> QED BY <2>1, PaneFacts DEF Infos, InPath, Kinds
<1> QED BY <1>1, <1>2

LEMMA CursorPane ==
  ASSUME NEW p, Ready(p), NEW cursor \in Nat \ {0}, NEW q, q = [p EXCEPT !.cursor = cursor]
  PROVE  Ready(q) /\ q.path = p.path /\ q.back = p.back /\ q.info = p.info
<1>1. p \in Panes
  BY DEF Ready, PaneOK
<1>2. /\ q \in Panes /\ q.path = p.path /\ q.url = p.url /\ q.back = p.back
      /\ q.list = p.list /\ q.renew = p.renew /\ q.selected = p.selected /\ q.info = p.info
  BY <1>1 DEF Panes
<1> QED BY <1>2 DEF Ready, PaneOK, InPane, ListFits, Drive

LEMMA RaisedLowered ==
  ASSUME NEW p, Ready(p), NEW q \in {Raised(p), Lowered(p)}
  PROVE  Ready(q) /\ q.path = p.path /\ q.back = p.back /\ q.info = p.info
<1> DEFINE up == IF p.cursor > 1 THEN p.cursor - 1 ELSE p.cursor
           down == IF p.cursor < Len(p.list) THEN p.cursor + 1 ELSE p.cursor
<1>1. p \in Panes
  BY DEF Ready, PaneOK
<1>2. up \in Nat \ {0} /\ down \in Nat \ {0}
  BY <1>1, PaneFacts
<1>3. q = [p EXCEPT !.cursor = up] \/ q = [p EXCEPT !.cursor = down]
  BY DEF Raised, Lowered
<1> HIDE DEF up, down
<1> QED BY <1>2, <1>3, CursorPane

LEMMA InfoPane ==
  ASSUME NEW p, Ready(p), NEW q, q = [p EXCEPT !.info = Info(p)]
  PROVE  Ready(q) /\ InfoOK(q) /\ q.path = p.path /\ q.back = p.back
<1> DEFINE i == Info(p)
<1>1. p \in Panes /\ Len(p.path) <= MaxDepth
  BY DEF Ready, PaneOK
<1>2. i \in Infos /\ InPath(i.item, p.path) /\ (i.kind = "root" => i.item # Root)
  BY <1>1, InfoOfPane
<1> HIDE DEF i
<1>3. /\ q \in Panes /\ q.path = p.path /\ q.url = p.url /\ q.back = p.back
      /\ q.list = p.list /\ q.renew = p.renew /\ q.selected = p.selected /\ q.info = i
  BY <1>1, <1>2 DEF Panes, i
<1> QED BY <1>2, <1>3 DEF Ready, PaneOK, InPane, ListFits, Drive, InfoOK

MayEnter(p) == HasCursor(p) /\ (p.path = Root \/ p.list[p.cursor].kind = "dir")

(* Into a directory, which takes the selection away, or into a drive, from *)
(* where nothing is selected.                                              *)
LEMMA EnteredPane ==
  ASSUME NEW p, Ready(p), MayEnter(p), NEW q, q = Entered(p)
  PROVE  PaneOK(q) /\ InPane(q) /\ InfoOK(q)
<1> DEFINE name == p.list[p.cursor].name
           path == Append(p.path, name)
           here == [path |-> p.path, cursor |-> p.cursor]
           back == Append(p.back, here)
           e == [p EXCEPT !.back = back, !.path = path, !.cursor = 1]
<1>1. p \in Panes /\ name \in Letters /\ p.cursor \in Nat \ {0}
  BY PaneFacts DEF MayEnter, HasCursor, Ready, PaneOK
<1>2. Len(p.path) < MaxDepth
  <2>1. CASE p.path = Root
    BY <2>1, PathsAre DEF Root
  <2>2. CASE p.path # Root
    BY <2>2 DEF MayEnter, Ready, ListFits, HasCursor
  <2> QED BY <2>1, <2>2
<1>3. path \in Paths /\ path # Root /\ Len(path) <= MaxDepth /\ Len(path) = Len(p.path) + 1
  <2>1. Len(path) = Len(p.path) + 1 /\ path # Root /\ path \in Paths /\ Len(p.path) \in Nat
    BY <1>1, <1>2, PaneFacts, PathAppended, PathsAre
  <2> HIDE DEF path
  <2> QED BY <1>2, <2>1, PathsAre
<1>4. /\ back \in Seq([path : Paths, cursor : Nat \ {0}]) /\ back # <<>>
      /\ \A k \in DOMAIN back : Len(back[k].path) <= MaxDepth
      /\ Len(back[1].path) <= 1
  <2>1. here \in [path : Paths, cursor : Nat \ {0}] /\ here.path = p.path
    BY <1>1, PaneFacts
  <2> DEFINE Ways == [path : Paths, cursor : Nat \ {0}]
  <2>0. p.back \in Seq(Ways)
    BY <1>1, PaneFacts
  <2> HIDE DEF here, Ways
  <2>2. /\ back \in Seq(Ways) /\ back # <<>>
        /\ Len(back) = Len(p.back) + 1 /\ DOMAIN back = 1..Len(p.back) + 1
        /\ \A k \in 1..Len(p.back) : back[k] = p.back[k]
        /\ back[Len(p.back) + 1] = here
    BY <2>0, <2>1, AppendProperties, LenProperties DEF Ways
  <2> HIDE DEF back
  <2>3. Len(p.back) \in Nat /\ DOMAIN p.back = 1..Len(p.back)
        /\ (p.back = <<>> <=> Len(p.back) = 0)
    BY <1>1, PaneFacts, EmptySeq
  <2>4. \A k \in DOMAIN back : Len(back[k].path) <= MaxDepth
    <3> SUFFICES ASSUME NEW k \in DOMAIN back PROVE Len(back[k].path) <= MaxDepth
      OBVIOUS
    <3>1. k \in DOMAIN p.back \/ k = Len(p.back) + 1
      BY <2>2, <2>3
    <3>2. CASE k \in DOMAIN p.back
      BY <2>2, <2>3, <3>2 DEF Ready, PaneOK
    <3>3. CASE k = Len(p.back) + 1
      BY <2>1, <2>2, <3>3 DEF Ready, PaneOK
    <3> QED BY <3>1, <3>2, <3>3
  <2>5. Len(back[1].path) <= 1
    <3>1. CASE p.back = <<>>
      BY <2>1, <2>2, <2>3, <3>1 DEF Ready, PaneOK
    <3>2. CASE p.back # <<>>
      BY <2>2, <2>3, <3>2 DEF Ready, PaneOK
    <3> QED BY <3>1, <3>2
  <2> QED BY <2>2, <2>4, <2>5 DEF Ways
<1> HIDE DEF path, back
<1>5. /\ e \in Panes /\ e.path = path /\ e.url = p.url /\ e.back = back /\ e.list = p.list
      /\ e.renew = p.renew /\ e.selected = p.selected /\ e.info = p.info
  <2>1. PICK w \in Seq([path : Paths, cursor : Nat \ {0}]), to \in Paths : w = back /\ to = path
    BY <1>3, <1>4
  <2>2. p \in Panes /\ 1 \in Nat \ {0}
    BY DEF Ready, PaneOK
  <2>3. e = [p EXCEPT !.back = w, !.path = to, !.cursor = 1]
    BY <2>1 DEF e
  <2> HIDE DEF e
  <2>4. /\ e \in Panes /\ e.path = to /\ e.url = p.url /\ e.back = w /\ e.list = p.list
        /\ e.renew = p.renew /\ e.selected = p.selected /\ e.info = p.info
    BY <2>2, <2>3 DEF Panes
  <2> QED BY <2>1, <2>4
<1>6. CASE p.path = Root
  <2> DEFINE i == [p.info EXCEPT !.kind = "root", !.item = path]
  <2>1. q = [e EXCEPT !.info.kind = "root", !.info.item = e.path]
    BY <1>6 DEF Entered, path, back
  <2>2. q = [e EXCEPT !.info = i]
    <3> HIDE DEF e
    <3> QED BY <1>5, <2>1 DEF Panes, Infos
  <2>3. i \in Infos /\ i.item = path
    BY <1>1, <1>3, PaneFacts DEF Infos, Kinds
  <2> HIDE DEF i, e
  <2>4. /\ q \in Panes /\ q.path = path /\ q.url = p.url /\ q.back = back
        /\ q.selected = {} /\ q.info = i
    BY <1>5, <1>6, <2>2, <2>3 DEF Panes, Ready, PaneOK
  <2>5. q.url # Drive(q)
    <3>1. q.url = Root
      BY <1>6, <2>4 DEF Ready, Drive
    <3>2. Drive(q) = <<path[1]>>
      BY <1>3, <2>4 DEF Drive
    <3> QED BY <3>1, <3>2 DEF Root
  <2> QED BY <1>3, <1>4, <2>3, <2>4, <2>5 DEF PaneOK, InPane, InfoOK, InPath
<1>7. CASE p.path # Root
  <2> DEFINE r == [e EXCEPT !.renew = TRUE, !.selected = {}]
             i == Info(r)
  <2>1. q = [r EXCEPT !.info = i]
    BY <1>7 DEF Entered, path, back
  <2>2. r \in Panes /\ r.path = path /\ r.back = back /\ r.selected = {} /\ r.renew = TRUE
    <3> HIDE DEF e
    <3> QED BY <1>5 DEF Panes
  <2> HIDE DEF r
  <2>3. i \in Infos /\ InPath(i.item, path) /\ (i.kind = "root" => i.item # Root)
    BY <1>3, <2>2, InfoOfPane
  <2> HIDE DEF i
  <2>4. /\ q \in Panes /\ q.path = path /\ q.back = back /\ q.selected = {}
        /\ q.renew = TRUE /\ q.info = i
    BY <2>1, <2>2, <2>3 DEF Panes
  <2> QED BY <1>3, <1>4, <2>3, <2>4 DEF PaneOK, InPane, InfoOK
<1> QED BY <1>6, <1>7

LEMMA LeftPane ==
  ASSUME NEW p, Ready(p), p.back # <<>>, NEW q, q = Left(p)
  PROVE  PaneOK(q) /\ InPane(q)
<1> DEFINE Ways == [path : Paths, cursor : Nat \ {0}]
           n == Len(p.back)
           last == p.back[n]
           front == SubSeq(p.back, 1, n - 1)
<1>1. p \in Panes /\ p.back \in Seq(Ways) /\ n \in Nat /\ DOMAIN p.back = 1..n
  BY PaneFacts DEF Ready, PaneOK
<1>2. n # 0
  BY <1>1, EmptySeq
<1>3. last \in Ways /\ Len(last.path) <= MaxDepth
  <2>1. n \in 1..n
    BY <1>1, <1>2
  <2>2. last \in Ways
    <3> HIDE DEF Ways
    <3> QED BY <1>1, <2>1, ElementOfSeq
  <2> QED BY <1>1, <2>1, <2>2 DEF Ready, PaneOK
<1>4. /\ front \in Seq(Ways) /\ Len(front) = n - 1 /\ DOMAIN front = 1..n - 1
      /\ \A k \in 1..n - 1 : front[k] = p.back[k]
  <2> HIDE DEF Ways
  <2>1. \A k \in 1..n - 1 : p.back[k] \in Ways
    BY <1>1, ElementOfSeq
  <2>2. /\ front \in Seq(Ways) /\ Len(front) = IF 1 <= n - 1 THEN (n - 1) - 1 + 1 ELSE 0
        /\ \A k \in 1..(n - 1) - 1 + 1 : front[k] = p.back[1 + k - 1]
    BY <1>1, <2>1, SubSeqProperties
  <2> HIDE DEF front
  <2>3. Len(front) = n - 1
    BY <1>1, <1>2, <2>2
  <2>4. \A k \in 1..n - 1 : k \in 1..(n - 1) - 1 + 1 /\ 1 + k - 1 = k
    BY <1>1
  <2> QED BY <2>2, <2>3, <2>4, LenProperties
<1>5. \A k \in DOMAIN front : Len(front[k].path) <= MaxDepth
  BY <1>1, <1>4 DEF Ready, PaneOK
<1>6. Len(IF front = <<>> THEN last.path ELSE front[1].path) <= 1
  <2>1. Len(p.back[1].path) <= 1
    BY DEF Ready, PaneOK
  <2> HIDE DEF front
  <2>2. CASE front = <<>>
    <3>1. n - 1 = 0
      BY <1>4, <2>2, EmptySeq
    <3> QED BY <1>1, <2>1, <2>2, <3>1
  <2>3. CASE front # <<>>
    <3>1. n - 1 # 0
      BY <1>4, <2>3, EmptySeq
    <3>2. 1 \in 1..n - 1
      <4>1. n \in Nat
        BY <1>1
      <4> HIDE DEF n
      <4> QED BY <1>2, <3>1, <4>1
    <3> QED BY <1>4, <2>1, <2>3, <3>2
  <2> QED BY <2>2, <2>3
<1>7. PICK w \in Seq(Ways), to \in Paths, c \in Nat \ {0} :
        w = front /\ to = last.path /\ c = last.cursor
  BY <1>3, <1>4
<1> HIDE DEF front, last
<1>8. q = [p EXCEPT !.path = to, !.cursor = c, !.back = w, !.renew = TRUE, !.selected = {},
                    !.info.item = Root]
  BY <1>7 DEF Left, Last, Front, front, last
<1>9. PICK i \in Infos : i = [p.info EXCEPT !.item = Root]
  BY <1>1, PaneFacts, PathsAre DEF Infos
<1>10. q = [p EXCEPT !.path = to, !.cursor = c, !.back = w, !.renew = TRUE, !.selected = {},
                     !.info = i]
  BY <1>1, <1>8, <1>9 DEF Panes
<1>11. q \in Panes /\ q.path = to /\ q.back = w /\ q.renew = TRUE /\ q.selected = {}
  BY <1>1, <1>10 DEF Panes
<1> QED BY <1>3, <1>5, <1>6, <1>7, <1>11 DEF PaneOK, InPane

LEMMA ToggledPane ==
  ASSUME NEW p, Ready(p), InfoOK(p), p.path # Root, NEW q, q = Toggled(p)
  PROVE  Ready(q) /\ InfoOK(q) /\ q.path = p.path
<1> DEFINE here == {s \in p.selected : s.at = p.cursor}
           new == [at |-> p.cursor, item |-> p.info.item, kind |-> p.info.kind]
           sel == IF here = {} THEN p.selected \cup {new} ELSE p.selected \ here
           r == [p EXCEPT !.selected = sel]
<1>1. p \in Panes
  BY DEF Ready, PaneOK
<1>2. /\ p.cursor \in Nat /\ p.info.item \in Paths /\ p.info.kind \in Kinds
      /\ p.selected \subseteq [at : Nat, item : Paths, kind : Kinds]
  BY <1>1, PaneFacts
<1>3. new \in [at : Nat, item : Paths, kind : Kinds] /\ new.at = p.cursor
      /\ new.item = p.info.item
  BY <1>2
<1> HIDE DEF new
<1>4. sel \in SUBSET [at : Nat, item : Paths, kind : Kinds]
  BY <1>2, <1>3
<1>5. \A s, t \in sel : s.at = t.at => s = t
  BY <1>3 DEF Ready, PaneOK
<1>6. \A s \in sel : InPath(s.item, p.path)
  BY <1>3 DEF Ready, InPane, InfoOK
<1>7. q = Lowered(r)
  BY DEF Toggled, new
<1> HIDE DEF sel
<1>8. /\ r \in Panes /\ r.path = p.path /\ r.url = p.url /\ r.back = p.back
      /\ r.list = p.list /\ r.renew = p.renew /\ r.selected = sel /\ r.info = p.info
  BY <1>1, <1>4 DEF Panes
<1>9. Ready(r)
  BY <1>5, <1>6, <1>8 DEF Ready, PaneOK, InPane, ListFits, Drive
<1> HIDE DEF r
<1> QED BY <1>7, <1>8, <1>9, RaisedLowered DEF InfoOK

LEMMA InvertedPane ==
  ASSUME NEW p, Ready(p), InfoOK(p), p.path # Root, NEW q, q = Inverted(p)
  PROVE  Ready(q) /\ InfoOK(q) /\ q.path = p.path
<1> DEFINE Entry(i) == [at |-> i, item |-> Append(p.path, p.list[i].name),
                        kind |-> p.list[i].kind]
           new == {Entry(i) : i \in DOMAIN p.list}
           sel == {s \in p.selected : s.at > Len(p.list)}
                    \cup {s \in new : \A t \in p.selected : t.at # s.at}
<1>1. p \in Panes
  BY DEF Ready, PaneOK
<1>2. \A i \in DOMAIN p.list :
        /\ i \in Nat /\ p.list[i].kind \in Kinds
        /\ Append(p.path, p.list[i].name) \in Paths
        /\ Front(Append(p.path, p.list[i].name)) = p.path
  <2> TAKE i \in DOMAIN p.list
  <2>1. i \in Nat /\ p.list[i].kind \in Kinds /\ p.list[i].name \in Letters
    BY <1>1, PaneFacts
  <2>2. p.path \in Seq(Letters) /\ Len(p.path) <= MaxDepth
    BY <1>1, PaneFacts DEF Ready, PaneOK
  <2> QED BY <2>1, <2>2, PathAppended
<1>3. \A i \in DOMAIN p.list :
        /\ Entry(i) \in [at : Nat, item : Paths, kind : Kinds] /\ Entry(i).at = i
        /\ InPath(Entry(i).item, p.path)
  BY <1>2 DEF InPath
<1> HIDE DEF Entry
<1>4. sel \in SUBSET [at : Nat, item : Paths, kind : Kinds]
  BY <1>1, <1>3, PaneFacts
<1>5. \A s, t \in sel : s.at = t.at => s = t
  <2>1. \A s, t \in new : s.at = t.at => s = t
    BY <1>3
  <2>2. \A s, t \in p.selected : s.at = t.at => s = t
    BY DEF Ready, PaneOK
  <2> HIDE DEF new
  <2> QED BY <2>1, <2>2
<1>6. \A s \in sel : InPath(s.item, p.path)
  BY <1>3 DEF Ready, InPane
<1>7. q = [p EXCEPT !.selected = sel]
  BY DEF Inverted, Entry
<1> HIDE DEF sel
<1>8. /\ q \in Panes /\ q.path = p.path /\ q.url = p.url /\ q.back = p.back
      /\ q.list = p.list /\ q.renew = p.renew /\ q.selected = sel /\ q.info = p.info
  BY <1>1, <1>4, <1>7 DEF Panes
<1> QED BY <1>5, <1>6, <1>8 DEF Ready, PaneOK, InPane, ListFits, Drive, InfoOK

(* A frame of one pane.                                                    *)
LEMMA ProcessPane ==
  ASSUME IsDisk(disk), NEW p, PaneOK(p), NEW all \in BOOLEAN, InPane(p) \/ p.renew \/ all,
         NEW button, button \in {"y", "x"} => p.path # Root,
         NEW q, q = Process(p, button, all)
  PROVE  /\ PaneOK(q) /\ InPane(q)
         /\ button \notin {"b", "back"} => InfoOK(q)
         /\ button \in {"y", "x"} => q.path = p.path
<1> DEFINE s == Settled(p, all)
           m == CASE button = "up" -> Raised(s) [] button = "down" -> Lowered(s) [] OTHER -> s
           r == [m EXCEPT !.info = Info(m)]
<1>1. Ready(s) /\ s.path = p.path
  BY SettledPane
<1>2. q = CASE button = "a" /\ HasCursor(s)
               /\ (s.path = Root \/ s.list[s.cursor].kind = "dir") -> Entered(s)
            [] button \in {"b", "back"} /\ s.back # <<>> -> Left(s)
            [] button = "y" -> Toggled(r)
            [] button = "x" -> Inverted(r)
            [] OTHER -> r
  BY DEF Process
<1> HIDE DEF s
<1>3. Ready(m) /\ m.path = s.path
  BY <1>1, RaisedLowered
<1> HIDE DEF m
<1>4. Ready(r) /\ InfoOK(r) /\ r.path = p.path
  BY <1>1, <1>3, InfoPane
<1> HIDE DEF r
<1>5. CASE button = "a"
  <2>1. q = r \/ (q = Entered(s) /\ MayEnter(s))
    BY <1>2, <1>5 DEF MayEnter
  <2> QED BY <1>1, <1>4, <1>5, <2>1, EnteredPane DEF Ready
<1>6. CASE button \in {"b", "back"}
  <2>1. q = r \/ (q = Left(s) /\ s.back # <<>>)
    BY <1>2, <1>6
  <2> QED BY <1>1, <1>4, <1>6, <2>1, LeftPane DEF Ready
<1>7. CASE button = "y"
  <2>1. q = Toggled(r)
    BY <1>2, <1>7
  <2> QED BY <1>4, <1>7, <2>1, ToggledPane DEF Ready
<1>8. CASE button = "x"
  <2>1. q = Inverted(r)
    BY <1>2, <1>8
  <2> QED BY <1>4, <1>8, <2>1, InvertedPane DEF Ready
<1>9. CASE button \notin {"a", "b", "back", "y", "x"}
  <2>1. q = r
    BY <1>2, <1>9
  <2> QED BY <1>4, <1>9, <2>1 DEF Ready
<1> QED BY <1>5, <1>6, <1>7, <1>8, <1>9

-----------------------------------------------------------------------------
(* The invariant.                                                          *)

(* A selection of another directory only waits to be cleared.              *)
PaneInv ==
  \A i \in 1..2 :
    PaneOK(pane[i]) /\ (InPane(pane[i]) \/ (pane[i].renew /\ mCounter = "21"))

(* Screens that act have an item of what the active pane shows.            *)
InfoInv ==
  /\ mCounter \notin {"elsewhere", "20", "21", "off"} =>
       (OnD(Active.path) => OnD(Active.info.item))
  /\ mCounter = "52" => Active.info.item # Root

(* Between the question and the deletion nothing is added.                 *)
ShownInv ==
  mCounter \in {"22", "23"} =>
    IF Active.selected # {} THEN Chosen \subseteq shown
    ELSE Active.info.item \in shown \/ OnD(Active.info.item)

(* No thread is left when the menu comes up.                               *)
MenuInv ==
  /\ m_Return \in {"elsewhere", "21", "80", "90", "95"}
  /\ mCounter \in {"25", "50", "70", "100", "shows"} => thread = "none"

(* In a copy of several items there is no other thread, and it copies what *)
(* it was told, which is the item the copy is at.                          *)
SoundInv ==
  sound =>
    /\ mCounter \in {"65", "65 FileCopy", "66"} => orphans = {}
    /\ mCounter = "65" => thread \in {"none", "done"}
    /\ mCounter = "65 FileCopy" => thread = "created"
    /\ mCounter = "66" =>
         /\ thread \in {"created", "running", "done"}
         /\ thread = "running" => job = told
         /\ thread = "done" => told.item \in tried
         /\ b_finished => thread = "done"
         /\ \A s \in Active.selected : s.at = iselected_item => s.item = told.item

FileInv == TypeOK /\ IsDisk(disk) /\ PaneInv /\ InfoInv /\ ShownInv /\ MenuInv /\ SoundInv

(* A pane that goes to its first entry, is to be renewed or loses some of  *)
(* its selection.                                                          *)
Trimmed(p, q) ==
  /\ q \in Panes /\ q.path = p.path /\ q.url = p.url /\ q.back = p.back
  /\ q.list = p.list /\ q.info = p.info /\ (p.renew => q.renew)
  /\ q.selected \subseteq p.selected

LEMMA ResetPane ==
  ASSUME NEW p \in Panes, NEW q, q = ResetCurrentDir(p)
  PROVE  /\ q \in Panes /\ q.path = p.path /\ q.url = p.url /\ q.back = p.back
         /\ q.list = p.list /\ q.info = p.info /\ q.renew = TRUE /\ q.selected = p.selected
<1>1. PICK r \in BOOLEAN : r = TRUE
  OBVIOUS
<1>2. PICK c \in Nat \ {0} : c = 1
  OBVIOUS
<1>3. q = [p EXCEPT !.renew = r, !.cursor = c]
  BY <1>1, <1>2 DEF ResetCurrentDir
<1>4. /\ q \in Panes /\ q.path = p.path /\ q.url = p.url /\ q.back = p.back
      /\ q.list = p.list /\ q.info = p.info /\ q.renew = r /\ q.selected = p.selected
  BY <1>3 DEF Panes
<1> QED BY <1>1, <1>4

LEMMA TrimmedWays ==
  ASSUME NEW p \in Panes, NEW S \in SUBSET p.selected
  PROVE  /\ Trimmed(p, p) /\ Trimmed(p, ResetCurrentDir(p))
         /\ Trimmed(p, [p EXCEPT !.selected = S])
         /\ Trimmed(p, ResetCurrentDir([p EXCEPT !.selected = S]))
         /\ [p EXCEPT !.selected = S].selected = S
         /\ ResetCurrentDir([p EXCEPT !.selected = S]).selected = S
<1> DEFINE q == [p EXCEPT !.selected = S]
<1>1. S \in SUBSET [at : Nat, item : Paths, kind : Kinds] /\ p.renew \in BOOLEAN
  BY PaneFacts
<1>2. /\ q \in Panes /\ q.path = p.path /\ q.url = p.url /\ q.back = p.back
      /\ q.list = p.list /\ q.info = p.info /\ q.renew = p.renew /\ q.selected = S
  BY <1>1 DEF Panes
<1> DEFINE Same(r, t) ==
             /\ t \in Panes /\ t.path = r.path /\ t.url = r.url /\ t.back = r.back
             /\ t.list = r.list /\ t.info = r.info /\ t.renew = TRUE /\ t.selected = r.selected
<1>3. \A r \in Panes : Same(r, ResetCurrentDir(r))
  BY ResetPane
<1> HIDE DEF q
<1>4. Trimmed(p, p) /\ Trimmed(p, ResetCurrentDir(p))
  BY <1>3 DEF Trimmed
<1>5. Trimmed(p, q) /\ Trimmed(p, ResetCurrentDir(q)) /\ ResetCurrentDir(q).selected = S
  BY <1>2, <1>3 DEF Trimmed
<1> QED BY <1>2, <1>4, <1>5 DEF q

LEMMA TrimmedPane ==
  ASSUME NEW p, PaneOK(p), NEW q, Trimmed(p, q)
  PROVE  PaneOK(q) /\ (InPane(p) => InPane(q))
BY DEF PaneOK, Trimmed, InPane, ListFits, Drive

PanesTrimmed ==
  /\ DOMAIN pane' = 1..2 /\ \A i \in 1..2 : Trimmed(pane[i], pane'[i])
  /\ activebrowser' = activebrowser

LEMMA PanesSame ==
  ASSUME FileInv, UNCHANGED <<pane, activebrowser>>
  PROVE  PanesTrimmed /\ Active'.selected = Active.selected
<1>1. pane[1] \in Panes /\ pane[2] \in Panes /\ DOMAIN pane = 1..2
  BY DEF FileInv, TypeOK
<1>2. \A i \in 1..2 : Trimmed(pane[i], pane[i])
  BY <1>1 DEF Trimmed
<1> QED BY <1>1, <1>2 DEF PanesTrimmed, Active

LEMMA Stays ==
  ASSUME FileInv, PanesTrimmed,
         mCounter = "21" => mCounter' = "21",
         mCounter \in {"elsewhere", "20", "off"} => mCounter' \in {"elsewhere", "20", "off"},
         mCounter' = "52" => mCounter = "52"
  PROVE  PaneInv' /\ InfoInv' /\ Active'.path = Active.path /\ Active'.info = Active.info
<1>1. activebrowser \in 1..2 /\ activebrowser' = activebrowser
  BY DEF FileInv, TypeOK, PanesTrimmed
<1>2. \A i \in 1..2 : PaneOK(pane[i]) /\ PaneOK(pane'[i])
                       /\ (InPane(pane[i]) => InPane(pane'[i]))
                       /\ (pane[i].renew => pane'[i].renew)
  BY TrimmedPane DEF FileInv, PaneInv, PanesTrimmed, Trimmed
<1>3. PaneInv'
  BY <1>2 DEF FileInv, PaneInv
<1>4. Active'.path = Active.path /\ Active'.info = Active.info
  BY <1>1 DEF Active, PanesTrimmed, Trimmed
<1>5. InfoInv'
  BY <1>4 DEF FileInv, InfoInv
<1> QED BY <1>3, <1>4, <1>5

LEMMA StillShown ==
  ASSUME FileInv, Active'.info = Active.info,
         mCounter' \in {"22", "23"} => mCounter \in {"22", "23"} /\ shown' = shown
                                     /\ Active'.selected = Active.selected
  PROVE  ShownInv'
<1> SUFFICES ASSUME mCounter' \in {"22", "23"} PROVE ShownInv'
  BY DEF ShownInv
<1>1. mCounter \in {"22", "23"} /\ shown' = shown /\ Active'.selected = Active.selected
  OBVIOUS
<1>2. Chosen' = Chosen
  BY <1>1 DEF Chosen
<1> QED BY <1>1, <1>2 DEF FileInv, ShownInv

(* The types of what is put together.                                      *)
LEMMA Types ==
  ASSUME FileInv
  PROVE  /\ pane[1] \in Panes /\ pane[2] \in Panes /\ DOMAIN pane = 1..2
         /\ activebrowser \in 1..2 /\ Active \in Panes /\ pane[Other] \in Panes
         /\ Other \in 1..2 /\ Other # activebrowser
         /\ Active.info \in Infos
         /\ Active.selected \subseteq [at : Nat, item : Paths, kind : Kinds]
         /\ Active.info.item \in Paths /\ Active.info.path \in Paths
         /\ IsDisk(disk)
<1>1. pane[1] \in Panes /\ pane[2] \in Panes /\ DOMAIN pane = 1..2 /\ activebrowser \in 1..2
  BY DEF FileInv, TypeOK
<1>2. Other \in 1..2 /\ Other # activebrowser
  BY <1>1 DEF Other
<1>3. Active \in Panes /\ pane[Other] \in Panes
  BY <1>1, <1>2 DEF Active
<1> QED BY <1>1, <1>2, <1>3, PaneFacts DEF FileInv

LEMMA OrphanedFacts ==
  ASSUME TypeOK
  PROVE  Orphaned \subseteq Jobs /\ (thread \in {"none", "done"} => Orphaned = orphans)
BY DEF TypeOK, Orphaned

-----------------------------------------------------------------------------
(* Steps that leave the panes alone.                                       *)

LEMMA ActTypes ==
  ASSUME TypeOK, Act
  PROVE  acts' \in 0..MaxActs /\ presses' = presses
<1>1. MaxActs \in Nat
  BY FileManagerAssumption
<1> QED BY <1>1 DEF TypeOK, Act

LEMMA MenuSteps ==
  ASSUME FileInv,
         Confirm \/ MenuCopy \/ MenuOther \/ MenuLeft \/ LeaveScreen
           \/ (\E return \in {"80", "90", "95"} : MenuKeyboard(return))
           \/ WriteTitle \/ Enter \/ KeyboardElsewhere \/ KeyboardFrame
  PROVE  FileInv'
<1>1. UNCHANGED <<disk, pane, activebrowser>>
  BY DEF Confirm, MenuCopy, MenuOther, MenuLeft, LeaveScreen, MenuKeyboard, WriteTitle, Enter,
         KeyboardElsewhere, KeyboardFrame, paneVars
<1>2. TypeOK'
  <2> USE DEF FileInv, TypeOK, MenuInv, Screens, paneVars, copyVars, checkVars, discVars, Go
  <2>1. CASE Confirm
    BY <2>1 DEF Confirm
  <2>2. CASE MenuCopy
    BY <2>2, ActTypes DEF MenuCopy
  <2>3. CASE MenuOther
    BY <2>3, ActTypes DEF MenuOther
  <2>4. CASE MenuLeft
    BY <2>4 DEF MenuLeft
  <2>5. CASE LeaveScreen
    BY <2>5 DEF LeaveScreen
  <2>6. CASE \E return \in {"80", "90", "95"} : MenuKeyboard(return)
    BY <2>6, ActTypes DEF MenuKeyboard
  <2>7. CASE WriteTitle \/ Enter \/ KeyboardElsewhere
    BY <2>7 DEF WriteTitle, Enter, KeyboardElsewhere
  <2>8. CASE KeyboardFrame
    BY <2>8 DEF KeyboardFrame, Keyboard
  <2> QED BY <2>1, <2>2, <2>3, <2>4, <2>5, <2>6, <2>7, <2>8
<1>3. PaneInv' /\ InfoInv' /\ ShownInv'
  <2>1. /\ mCounter # "21" /\ (mCounter = "20" => mCounter' = "20")
        /\ mCounter \in {"elsewhere", "off"} => mCounter' \in {"elsewhere", "20", "off"}
        /\ mCounter' # "52"
        /\ mCounter' \in {"22", "23"} => mCounter \in {"22", "23"} /\ shown' = shown
    BY DEF FileInv, MenuInv, checkVars, Confirm, MenuCopy, MenuOther, MenuLeft, LeaveScreen,
           MenuKeyboard, WriteTitle, Enter, KeyboardElsewhere, KeyboardFrame, Keyboard, Go
  <2> QED BY <1>1, <2>1, PanesSame, Stays, StillShown
<1>4. MenuInv'
  BY DEF FileInv, MenuInv, copyVars, Confirm, MenuCopy, MenuOther, MenuLeft, LeaveScreen,
         MenuKeyboard, WriteTitle, Enter, KeyboardElsewhere, KeyboardFrame, Keyboard, Go
<1>5. SoundInv'
  <2>1. CASE MenuCopy
    BY <2>1 DEF FileInv, MenuInv, SoundInv, MenuCopy, Go
  <2>2. CASE ~MenuCopy
    <3>1. sound' = sound /\ mCounter' \notin {"65", "65 FileCopy", "66"}
      BY <2>2 DEF FileInv, MenuInv, checkVars, Confirm, MenuOther, MenuLeft, LeaveScreen,
         MenuKeyboard, WriteTitle, Enter, KeyboardElsewhere, KeyboardFrame, Keyboard, Go
    <3> QED BY <3>1 DEF SoundInv
  <2> QED BY <2>1, <2>2
<1> QED BY <1>1, <1>2, <1>3, <1>4, <1>5 DEF FileInv, IsDisk

LEMMA MenuDeleteStep ==
  ASSUME FileInv, MenuDelete
  PROVE  FileInv'
<1>1. UNCHANGED <<disk, pane, activebrowser>> /\ mCounter = "25" /\ mCounter' = "22"
  BY DEF MenuDelete, paneVars, Go
<1>2. Active' = Active /\ Chosen' = Chosen
  BY <1>1 DEF Active, Chosen
<1>3. Chosen \subseteq Paths /\ {Active.info.item} \subseteq Paths
  BY Types DEF Chosen
<1>4. TypeOK'
  BY <1>3, ActTypes
     DEF FileInv, TypeOK, Screens, paneVars, copyVars, discVars, Go, MenuDelete
<1>5. PaneInv' /\ InfoInv'
  BY <1>1, PanesSame, Stays
<1>6. ShownInv'
  BY <1>2 DEF ShownInv, MenuDelete
<1>7. MenuInv' /\ SoundInv'
  BY <1>1 DEF FileInv, MenuInv, SoundInv, MenuDelete, copyVars
<1> QED BY <1>1, <1>4, <1>5, <1>6, <1>7 DEF FileInv, IsDisk

LEMMA ThreadSteps ==
  ASSUME FileInv, ThreadBegins \/ ThreadEnds \/ \E j \in orphans : OrphanEnds(j)
  PROVE  FileInv'
<1>1. UNCHANGED <<pane, activebrowser, mCounter, m_Return, shown, told, iselected_item>>
  BY DEF ThreadBegins, ThreadEnds, OrphanEnds, paneVars, checkVars
<1>2. {told, job} \cup orphans \subseteq Jobs
  BY DEF FileInv, TypeOK
<1>3. IsDisk(disk')
  BY <1>2, CopiedDisk DEF FileInv, ThreadBegins, ThreadEnds, OrphanEnds
<1>4. DOMAIN disk' \subseteq Paths /\ \A p \in DOMAIN disk' : disk'[p] \in {"dir", "file"}
  BY <1>3 DEF IsDisk
<1>5. job.item \in Paths
  BY <1>2 DEF Jobs
<1>6. TypeOK'
  <2>1. CASE ThreadBegins
    BY <2>1 DEF FileInv, TypeOK, discVars, paneVars, ThreadBegins
  <2>2. CASE ThreadEnds
    BY <1>4, <1>5, <2>2 DEF FileInv, TypeOK, discVars, paneVars, ThreadEnds
  <2>3. CASE \E j \in orphans : OrphanEnds(j)
    BY <1>4, <2>3 DEF FileInv, TypeOK, discVars, paneVars, checkVars, OrphanEnds
  <2> QED BY <2>1, <2>2, <2>3
<1>7. PaneInv' /\ InfoInv' /\ ShownInv'
  BY <1>1, PanesSame, Stays, StillShown
<1>8. MenuInv'
  BY <1>1 DEF FileInv, MenuInv, ThreadBegins, ThreadEnds, OrphanEnds
<1>9. SoundInv'
  <2>1. Active' = Active
    BY <1>1 DEF Active
  <2>2. CASE ThreadBegins
    BY <1>1, <2>1, <2>2 DEF FileInv, SoundInv, ThreadBegins, InFileCopy
  <2>3. CASE ThreadEnds
    BY <1>1, <2>1, <2>3 DEF FileInv, SoundInv, ThreadEnds
  <2>4. CASE \E j \in orphans : OrphanEnds(j)
    <3>1. orphans # {} /\ sound' = sound
      BY <2>4 DEF OrphanEnds, checkVars
    <3>2. sound => mCounter \notin {"65", "65 FileCopy", "66"}
      BY <3>1 DEF FileInv, SoundInv
    <3> QED BY <1>1, <3>1, <3>2 DEF SoundInv
  <2> QED BY <2>2, <2>3, <2>4
<1> QED BY <1>3, <1>6, <1>7, <1>8, <1>9 DEF FileInv, IsDisk

LEMMA DiskSteps ==
  ASSUME FileInv, Rename \/ CreateDirectory \/ Exchange
  PROVE  FileInv'
<1>1. UNCHANGED <<pane, activebrowser>>
  BY DEF Rename, CreateDirectory, Exchange, paneVars
<1>2. Active.info.item \in Seq(Letters) /\ Active.info.path \in Seq(Letters)
  BY Types, PathsAre
<1>3. \A text \in Names : Append(Active.info.path, text) \in Seq(Letters)
  BY <1>2, PathAppended DEF Letters
<1>4. IsDisk(disk')
  <2>1. CASE Rename
    <3>1. PICK text \in Names : disk' = Renamed(Active.info.item, Append(Active.info.path, text))
      BY <2>1 DEF Rename
    <3> QED BY <1>2, <1>3, <3>1, RenamedDisk DEF FileInv
  <2>2. CASE CreateDirectory
    <3>1. PICK text \in Names : disk' = Made(Append(Active.info.path, text))
      BY <2>2 DEF CreateDirectory
    <3> QED BY <1>3, <3>1, MadeDisk DEF FileInv
  <2>3. CASE Exchange
    <3>1. PICK disc \in Discs : disk' = With(Without(Within(<<D>>) \ {<<D>>}), disc)
      BY <2>3 DEF Exchange
    <3>2. IsDisk(disc)
      BY FileManagerAssumption
    <3> QED BY <3>1, <3>2, WithDisks, WithoutDisk DEF FileInv
  <2> QED BY <2>1, <2>2, <2>3
<1>5. DOMAIN disk' \subseteq Paths /\ \A p \in DOMAIN disk' : disk'[p] \in {"dir", "file"}
  BY <1>4 DEF IsDisk
<1>6. TypeOK'
  <2>1. CASE Rename \/ CreateDirectory
    <3>1. UNCHANGED <<discVars, pane, activebrowser, m_Return, confirmed, copyVars, checkVars>>
          /\ renewAll' = TRUE
      BY <2>1 DEF Rename, CreateDirectory
    <3>2. mCounter' \in Screens
      BY <2>1 DEF Screens, Go, Rename, CreateDirectory
    <3> QED BY <1>5, <3>1, <3>2 DEF FileInv, TypeOK, discVars, copyVars, checkVars
  <2>2. CASE Exchange
    <3>1. discs' \in 0..MaxDiscs
      BY <2>2, FileManagerAssumption DEF FileInv, TypeOK, Exchange
    <3> QED BY <1>5, <2>2, <3>1 DEF FileInv, TypeOK, paneVars, copyVars, checkVars, Exchange
  <2> QED BY <2>1, <2>2
<1>7. /\ shown' = shown /\ UNCHANGED copyVars /\ sound' = sound /\ m_Return' = m_Return
      /\ tried' = tried
      /\ mCounter' = mCounter \/ (mCounter \in {"80", "90"} /\ mCounter' = "21")
  BY DEF Rename, CreateDirectory, Exchange, checkVars, Go
<1>8. PaneInv' /\ InfoInv' /\ ShownInv'
  BY <1>1, <1>7, PanesSame, Stays, StillShown
<1>9. Active' = Active
  BY <1>1 DEF Active
<1>10. MenuInv' /\ SoundInv'
  BY <1>7, <1>9 DEF FileInv, MenuInv, SoundInv, copyVars
<1> QED BY <1>4, <1>6, <1>8, <1>10 DEF FileInv, IsDisk

LEMMA CopyingSteps ==
  ASSUME FileInv, CreateThread \/ CopyOne \/ CopyNext
  PROVE  FileInv'
<1>1. UNCHANGED <<disk, pane, activebrowser, m_Return, shown, tried, sound>>
  BY DEF CreateThread, CopyOne, CopyNext, paneVars, checkVars
<1>2. Active' = Active
  BY <1>1 DEF Active
<1>3. ASSUME NEW source, source.item \in Paths, source.kind \in Kinds \cup {"none"},
             FileCopy(source)
      PROVE  told' \in Jobs /\ b_finished' \in BOOLEAN
  <2>1. pane[Other].path \in Paths
    BY Types, PaneFacts
  <2>2. CASE told' = told
    BY <1>3, <2>2 DEF FileInv, TypeOK, FileCopy
  <2>3. CASE told' = [item |-> source.item, kind |-> source.kind, dest |-> pane[Other].path]
    BY <1>3, <2>1, <2>3 DEF Jobs, FileCopy
  <2> QED BY <1>3, <2>2, <2>3 DEF FileCopy
<1>4. ASSUME NEW s \in Active.selected
      PROVE  s.item \in Paths /\ s.kind \in Kinds /\ s.at \in Nat
  BY Types
<1>5. NoJob \in Jobs /\ NoJob.item \in Paths /\ NoJob.kind = "none"
  BY PathsAre DEF NoJob, Jobs
<1>6. TypeOK'
  <2>1. CASE CreateThread
    BY <1>5, <2>1, OrphanedFacts
       DEF FileInv, TypeOK, Screens, paneVars, discVars, checkVars, Go, CreateThread
  <2>2. CASE CopyOne
    <3>1. told' \in Jobs /\ b_finished' \in BOOLEAN
      BY <1>3, <2>2, Types DEF CopyOne, Infos
    <3> QED BY <2>2, <3>1
            DEF FileInv, TypeOK, Screens, paneVars, discVars, checkVars, Go, CopyOne
  <2>3. CASE CopyNext
    <3>1. told' \in Jobs /\ b_finished' \in BOOLEAN /\ iselected_item' \in Nat
          /\ mCounter' \in {"66", "off"}
      <4>1. CASE Active.selected = {}
        <5>1. FileCopy(NoJob) /\ iselected_item' = 0 /\ mCounter' \in {"66", "off"}
          BY <2>3, <4>1 DEF CopyNext, Go
        <5>2. told' \in Jobs /\ b_finished' \in BOOLEAN
          BY <1>3, <1>5, <5>1
        <5> QED BY <5>1, <5>2
      <4>2. CASE Active.selected # {}
        <5>1. PICK s \in Active.selected : iselected_item' = s.at /\ FileCopy(s)
          BY <2>3, <4>2 DEF CopyNext
        <5>2. mCounter' = "66"
          BY <2>3, <4>2 DEF CopyNext, Go
        <5> QED BY <1>3, <1>4, <5>1, <5>2
      <4> QED BY <4>1, <4>2
    <3> QED BY <2>3, <3>1
            DEF FileInv, TypeOK, Screens, paneVars, discVars, checkVars, CopyNext
  <2> QED BY <2>1, <2>2, <2>3
<1>7. PaneInv' /\ InfoInv' /\ ShownInv'
  <2>1. /\ mCounter \in {"60", "65", "60 FileCopy", "65 FileCopy"}
        /\ mCounter' \in {"60 FileCopy", "65 FileCopy", "61", "66", "off"}
    BY DEF CreateThread, CopyOne, CopyNext, Go
  <2> QED BY <1>1, <1>2, <2>1, PanesSame, Stays, StillShown
<1>8. MenuInv'
  BY DEF FileInv, MenuInv, CreateThread, CopyOne, CopyNext, Go
<1>9. SoundInv'
  <2> SUFFICES ASSUME sound PROVE SoundInv'
    BY <1>1 DEF SoundInv
  <2>1. CASE CreateThread
    BY <2>1, OrphanedFacts DEF FileInv, SoundInv, CreateThread, Go
  <2>2. CASE CopyOne
    BY <2>2 DEF SoundInv, CopyOne, Go
  <2>3. CASE CopyNext
    <3>1. mCounter = "65 FileCopy" /\ thread = "created" /\ orphans = {}
      BY <2>3 DEF FileInv, SoundInv, CopyNext
    <3>2. thread' = "created" /\ orphans' = {} /\ mCounter' \in {"66", "off"}
      BY <2>3, <3>1 DEF CopyNext, Go
    <3>3. b_finished' = FALSE
      BY <2>3, <3>1 DEF CopyNext, FileCopy
    <3>4. \A s \in Active.selected : s.at = iselected_item' => s.item = told'.item
      <4>1. CASE Active.selected = {}
        BY <4>1
      <4>2. CASE Active.selected # {}
        <5>1. PICK s \in Active.selected : iselected_item' = s.at /\ FileCopy(s)
          BY <2>3, <4>2 DEF CopyNext
        <5>2. told' = [item |-> s.item, kind |-> s.kind, dest |-> pane[Other].path]
          BY <3>1, <5>1 DEF FileCopy
        <5>3. told'.item = s.item
          BY <5>2
        <5>4. \A t \in Active.selected : t.at = s.at => t = s
          BY Types DEF FileInv, PaneInv, PaneOK, Active
        <5> QED BY <5>1, <5>3, <5>4
      <4> QED BY <4>1, <4>2
    <3> QED BY <1>2, <3>2, <3>3, <3>4 DEF SoundInv
  <2> QED BY <2>1, <2>2, <2>3
<1> QED BY <1>1, <1>6, <1>7, <1>8, <1>9 DEF FileInv, IsDisk

-----------------------------------------------------------------------------
(* Steps that change the panes.                                            *)

(* What the screens make of the selection of the active pane, and of the   *)
(* other one.                                                              *)
LEMMA TrimmingSteps ==
  ASSUME FileInv, Delete \/ CopiedOne \/ CopyWait \/ ProcessACL
  PROVE  PanesTrimmed
<1>1. /\ pane[1] \in Panes /\ pane[2] \in Panes /\ DOMAIN pane = 1..2
      /\ activebrowser \in 1..2 /\ Other \in 1..2 /\ Other # activebrowser
  BY Types
<1>2. ASSUME NEW gone \in SUBSET Active.selected,
             pane' = [i \in 1..2 |-> ResetCurrentDir(
                        IF i = activebrowser
                        THEN [pane[i] EXCEPT !.selected = pane[i].selected \ gone]
                        ELSE pane[i])]
      PROVE  DOMAIN pane' = 1..2 /\ \A i \in 1..2 : Trimmed(pane[i], pane'[i])
  <2>1. \A i \in 1..2 : pane[i] \in Panes /\ pane[i].selected \ gone \in SUBSET pane[i].selected
    BY <1>1
  <2>2. \A i \in 1..2 : /\ Trimmed(pane[i], ResetCurrentDir(pane[i]))
                        /\ Trimmed(pane[i], ResetCurrentDir(
                             [pane[i] EXCEPT !.selected = pane[i].selected \ gone]))
    BY <2>1, TrimmedWays
  <2> QED BY <1>2, <2>2
<1>3. CASE Delete
  <2>1. PICK gone \in SUBSET Active.selected : gone = Active.selected
    OBVIOUS
  <2>2. Active.selected \ gone = {} /\ activebrowser' = activebrowser
    BY <1>3, <2>1 DEF Delete
  <2>3. pane' = [i \in 1..2 |-> ResetCurrentDir(
                   IF i = activebrowser
                   THEN [pane[i] EXCEPT !.selected = pane[i].selected \ gone] ELSE pane[i])]
    BY <1>3, <2>2 DEF Delete, Active
  <2> QED BY <1>2, <2>2, <2>3 DEF PanesTrimmed
<1>4. CASE ProcessACL
  <2>1. PICK gone \in SUBSET Active.selected :
          pane' = [i \in 1..2 |-> ResetCurrentDir(
                     IF i = activebrowser THEN [pane[i] EXCEPT !.selected = @ \ gone]
                     ELSE pane[i])]
    BY <1>4 DEF ProcessACL
  <2>2. activebrowser' = activebrowser
    BY <1>4 DEF ProcessACL
  <2> QED BY <1>2, <2>1, <2>2 DEF PanesTrimmed
<1>5. \A i \in 1..2 : Trimmed(pane[i], pane[i]) /\ Trimmed(pane[i], ResetCurrentDir(pane[i]))
  <2>1. \A i \in 1..2 : pane[i] \in Panes /\ {} \in SUBSET pane[i].selected
    BY <1>1
  <2> QED BY <2>1, TrimmedWays
<1>6. CASE CopiedOne
  <2>1. pane' = pane \/ pane' = [pane EXCEPT ![Other] = ResetCurrentDir(@)]
    BY <1>6 DEF CopiedOne
  <2> QED BY <1>1, <1>5, <1>6, <2>1 DEF PanesTrimmed, CopiedOne
<1>7. CASE CopyWait
  <2> DEFINE left == {s \in Active.selected : s.at # iselected_item}
             a == [pane[activebrowser] EXCEPT !.selected = left]
  <2>1. Trimmed(pane[activebrowser], a)
    <3>1. left \in SUBSET pane[activebrowser].selected /\ pane[activebrowser] \in Panes
      BY <1>1 DEF Active
    <3> HIDE DEF left
    <3> QED BY <3>1, TrimmedWays
  <2>2. pane' = pane \/ pane' = [pane EXCEPT ![activebrowser] = a, ![Other] = ResetCurrentDir(@)]
    BY <1>1, <1>7 DEF CopyWait, CopyStep
  <2> HIDE DEF a
  <2>3. \A i \in 1..2 : i = activebrowser \/ i = Other
    BY <1>1 DEF Other
  <2>4. CASE pane' = pane
    BY <1>1, <1>5, <1>7, <2>4 DEF PanesTrimmed, CopyWait
  <2>5. CASE pane' # pane
    <3>1. DOMAIN pane' = 1..2 /\ pane'[activebrowser] = a
          /\ pane'[Other] = ResetCurrentDir(pane[Other])
      BY <1>1, <2>2, <2>5
    <3> QED BY <1>1, <1>5, <1>7, <2>1, <2>3, <3>1 DEF PanesTrimmed, CopyWait
  <2> QED BY <2>4, <2>5
<1> QED BY <1>3, <1>4, <1>6, <1>7

LEMMA TrimmingKeeps ==
  ASSUME FileInv, Delete \/ CopiedOne \/ CopyWait \/ ProcessACL
  PROVE  FileInv'
<1>1. PanesTrimmed
  BY TrimmingSteps
<1>2. IsDisk(disk')
  BY WithoutDisk DEF FileInv, Delete, CopiedOne, CopyWait, ProcessACL
<1>3. DOMAIN disk' \subseteq Paths /\ \A p \in DOMAIN disk' : disk'[p] \in {"dir", "file"}
  BY <1>2 DEF IsDisk
<1>4. mCounter \in {"23", "61", "66", "100"}
  BY DEF Delete, CopiedOne, CopyWait, ProcessACL
<1>5. mCounter' \in Screens \ {"22", "23", "52", "25", "50", "70", "100", "65 FileCopy"}
      \/ (mCounter' = mCounter /\ CopiedOne)
  BY DEF FileInv, MenuInv, Screens, Delete, CopiedOne, CopyWait, ProcessACL, Keyboard, Go
<1>6. pane'[1] \in Panes /\ pane'[2] \in Panes /\ DOMAIN pane' = 1..2 /\ activebrowser' \in 1..2
  BY Types, <1>1 DEF PanesTrimmed, Trimmed
<1>7. confirmed' \in BOOLEAN
  BY DEF FileInv, TypeOK, Delete, CopiedOne, CopyWait, ProcessACL, Keyboard
<1>8. UNCHANGED <<discVars, renewAll, m_Return, copyVars, checkVars>>
  BY DEF Delete, CopiedOne, CopyWait, ProcessACL
<1>9. mCounter' \in Screens
  BY <1>4, <1>5 DEF Screens
<1>10. TypeOK'
  BY <1>3, <1>6, <1>7, <1>8, <1>9 DEF FileInv, TypeOK, discVars, copyVars, checkVars
<1>11. PaneInv' /\ InfoInv' /\ Active'.path = Active.path /\ Active'.info = Active.info
  <2>1. /\ mCounter = "21" => mCounter' = "21"
        /\ mCounter \in {"elsewhere", "20", "off"} => mCounter' \in {"elsewhere", "20", "off"}
        /\ mCounter' = "52" => mCounter = "52"
    BY <1>4, <1>5
  <2> QED BY <1>1, <2>1, Stays
<1>12. ShownInv'
  BY <1>4, <1>5 DEF ShownInv, CopiedOne
<1>13. MenuInv'
  <2>1. CASE ProcessACL
    BY <1>8, <2>1 DEF FileInv, MenuInv, ProcessACL, copyVars
  <2>2. CASE ~ProcessACL
    <3>1. mCounter' # "shows"
      BY <2>2 DEF FileInv, MenuInv, Delete, CopiedOne, CopyWait, Keyboard, Go
    <3> QED BY <1>4, <1>5, <1>8, <3>1 DEF FileInv, MenuInv, CopiedOne
  <2> QED BY <2>1, <2>2
<1>14. SoundInv'
  <2> SUFFICES ASSUME sound, mCounter' \in {"65", "65 FileCopy", "66"} PROVE SoundInv'
    BY <1>8 DEF SoundInv, checkVars
  <2>1. CopyWait
    BY <1>4 DEF Delete, CopiedOne, ProcessACL, Go
  <2>2. mCounter = "66" /\ mCounter' # "65 FileCopy" /\ (mCounter' = "65" => b_finished)
    BY <2>1 DEF FileInv, MenuInv, CopyWait, Keyboard, Go
  <2>3. Active'.selected \subseteq Active.selected
    BY <1>1, <1>6 DEF PanesTrimmed, Trimmed, Active
  <2> QED BY <1>8, <2>2, <2>3 DEF FileInv, SoundInv, copyVars, checkVars
<1> QED BY <1>2, <1>10, <1>11, <1>12, <1>13, <1>14 DEF FileInv, IsDisk

(* A pane sent to a drive waits to be renewed.                             *)
LEMMA PaneToDrive ==
  ASSUME NEW p, PaneOK(p), NEW drive \in Letters,
         NEW q, q = ResetCurrentDir([p EXCEPT !.path = <<drive>>])
  PROVE  PaneOK(q) /\ q.renew
<1>1. PICK to \in Paths : to = <<drive>>
  <2>1. <<drive>> \in Seq(Letters) /\ Len(<<drive>>) = 1 /\ 1 \in 0..MaxDepth + 1
    BY PathsAre
  <2> QED BY <2>1, PathsAre
<1>2. Len(to) = 1 /\ to # Root /\ Len(to) <= MaxDepth
  BY <1>1, PathsAre DEF Root
<1>3. PICK r : r = [p EXCEPT !.path = to]
  OBVIOUS
<1>4. p \in Panes
  BY DEF PaneOK
<1>5. /\ r \in Panes /\ r.path = to /\ r.back = p.back /\ r.selected = p.selected
  BY <1>3, <1>4 DEF Panes
<1>6. /\ q \in Panes /\ q.path = to /\ q.back = p.back /\ q.selected = p.selected
      /\ q.renew = TRUE
  <2>1. q = ResetCurrentDir(r)
    BY <1>1, <1>3
  <2> QED BY <1>5, <2>1, ResetPane
<1>7. Len(IF q.back = <<>> THEN q.path ELSE q.back[1].path) <= 1
  <2>1. CASE p.back = <<>>
    <3>1. (IF q.back = <<>> THEN q.path ELSE q.back[1].path) = to
      BY <1>6, <2>1
    <3>2. Len(to) <= 1
      BY <1>2
    <3> QED BY <3>1, <3>2
  <2>2. CASE p.back # <<>>
    BY <1>6, <2>2 DEF PaneOK
  <2> QED BY <2>1, <2>2
<1>8. \A k \in DOMAIN q.back : Len(q.back[k].path) <= MaxDepth
  BY <1>6 DEF PaneOK
<1>9. \A s, t \in q.selected : s.at = t.at => s = t
  BY <1>6 DEF PaneOK
<1> QED BY <1>2, <1>6, <1>7, <1>8, <1>9 DEF PaneOK

LEMMA DriveSteps ==
  ASSUME FileInv, DriveWindow \/ DriveChosen
  PROVE  FileInv'
<1>1. UNCHANGED <<disk, discVars, renewAll, activebrowser, m_Return, confirmed, copyVars,
                  checkVars>>
  BY DEF DriveWindow, DriveChosen
<1>2. \/ mCounter' = "21" /\ \E drive \in Letters : ToDrive(drive)
      \/ mCounter = "50" /\ mCounter' \in {"21", "25"} /\ UNCHANGED pane
  <2>1. CASE DriveWindow
    BY <2>1 DEF DriveWindow, Go, Letters
  <2>2. CASE DriveChosen
    <3>1. Active.info.item \in Seq(Letters) /\ Active.info.item # <<>>
      BY <2>2, Types, PathsAre DEF FileInv, InfoInv, DriveChosen, Root
    <3>2. Active.info.item[1] \in Letters
      BY <3>1, EmptySeq, ElementOfSeq
    <3> QED BY <2>2, <3>2 DEF DriveChosen, Go
  <2> QED BY <2>1, <2>2
<1>3. mCounter \in {"50", "52"}
  BY DEF DriveWindow, DriveChosen
<1>4. CASE mCounter = "50" /\ mCounter' \in {"21", "25"} /\ UNCHANGED pane
  <2>1. TypeOK'
    BY <1>1, <1>4 DEF FileInv, TypeOK, Screens, discVars, copyVars, checkVars
  <2>2. PaneInv' /\ InfoInv' /\ ShownInv'
    BY <1>1, <1>4, PanesSame, Stays, StillShown
  <2>3. MenuInv' /\ SoundInv'
    BY <1>1, <1>4 DEF FileInv, MenuInv, SoundInv, copyVars, checkVars
  <2> QED BY <1>1, <2>1, <2>2, <2>3 DEF FileInv, IsDisk
<1>5. CASE mCounter' = "21" /\ \E drive \in Letters : ToDrive(drive)
  <2>1. PICK drive \in Letters : ToDrive(drive)
    BY <1>5
  <2> DEFINE q == ResetCurrentDir([pane[activebrowser] EXCEPT !.path = <<drive>>])
  <2>2. pane' = [pane EXCEPT ![activebrowser] = q]
    BY <2>1 DEF ToDrive
  <2>3. \A i \in 1..2 : PaneOK(pane[i]) /\ (InPane(pane[i]) \/ pane[i].renew)
    BY DEF FileInv, PaneInv
  <2>4. PaneOK(q) /\ q.renew
    BY <2>3, Types, PaneToDrive
  <2> HIDE DEF q
  <2>5. DOMAIN pane' = 1..2 /\ \A i \in 1..2 : pane'[i] = q \/ pane'[i] = pane[i]
    BY <2>2, Types
  <2>6. PaneInv'
    BY <1>5, <2>3, <2>4, <2>5 DEF PaneInv
  <2>7. TypeOK'
    <3>1. pane'[1] \in Panes /\ pane'[2] \in Panes
      BY <2>3, <2>4, <2>5 DEF PaneOK
    <3> QED BY <1>1, <1>5, <2>5, <3>1
            DEF FileInv, TypeOK, Screens, discVars, copyVars, checkVars
  <2>8. InfoInv' /\ ShownInv' /\ MenuInv' /\ SoundInv'
    BY <1>1, <1>5 DEF FileInv, InfoInv, ShownInv, MenuInv, SoundInv, copyVars, checkVars
  <2> QED BY <1>1, <2>6, <2>7, <2>8 DEF FileInv, IsDisk
<1> QED BY <1>2, <1>4, <1>5

(* A pane that shows the disc when another is noticed.                     *)
LEMMA PaneToDevice ==
  ASSUME NEW p, PaneOK(p), OnD(p.path), NEW q, q = ResetToDevice([p EXCEPT !.path = <<D>>])
  PROVE  /\ PaneOK(q) /\ (InPane(p) => InPane(q)) /\ (p.renew => q.renew)
         /\ OnD(q.path) /\ q.info = p.info
         /\ q.selected = p.selected \/ q.selected = {}
<1>1. p \in Panes /\ p.path \in Seq(Letters) /\ Len(p.path) \in Nat
  BY PaneFacts DEF PaneOK
<1>2. PICK to \in Paths : to = <<D>>
  <2>1. <<D>> \in Seq(Letters) /\ Len(<<D>>) = 1 /\ 1 \in 0..MaxDepth + 1
    BY PathsAre, FileManagerAssumption DEF Letters
  <2> QED BY <2>1, PathsAre
<1>3. Len(to) = 1 /\ to # Root /\ Len(to) <= MaxDepth /\ OnD(to)
  BY <1>2, PathsAre DEF Root, OnD
<1>4. PICK r : r = [p EXCEPT !.path = to]
  OBVIOUS
<1>5. /\ r \in Panes /\ r.path = to /\ r.url = p.url /\ r.back = p.back /\ r.list = p.list
      /\ r.cursor = p.cursor /\ r.renew = p.renew /\ r.selected = p.selected
      /\ r.info = p.info
  BY <1>1, <1>4 DEF Panes
<1>6. q = ResetToDevice(r)
  BY <1>2, <1>4
<1>7. CASE p.back = <<>>
  <2>1. q = r
    BY <1>5, <1>6, <1>7 DEF ResetToDevice
  <2>2. p.path = to
    <3>1. Len(p.path) <= 1
      BY <1>7 DEF PaneOK
    <3>2. p.path # <<>> /\ p.path[1] = D
      BY DEF OnD, Root
    <3>3. Len(p.path) = 1
      BY <1>1, <3>1, <3>2, EmptySeq
    <3> QED BY <1>1, <1>2, <3>2, <3>3, PathsAre, SeqEqual
  <2> QED BY <1>3, <1>5, <1>7, <2>1, <2>2 DEF PaneOK, InPane, ListFits, Drive
<1>8. CASE p.back # <<>>
  <2> DEFINE Ways == [path : Paths, cursor : Nat \ {0}]
             way == [path |-> Root, cursor |-> p.back[1].cursor]
  <2>1. p.back[1] \in Ways
    <3>1. p.back \in Seq(Ways)
      BY <1>1, PaneFacts
    <3> HIDE DEF Ways
    <3>2. 1 \in 1..Len(p.back)
      BY <1>8, <3>1, EmptySeq
    <3> QED BY <3>1, <3>2, ElementOfSeq
  <2>2. way \in Ways /\ way.path = Root
    BY <2>1, PathsAre
  <2> HIDE DEF way, Ways
  <2>3. PICK w \in Seq(Ways) : w = <<way>>
    <3>1. <<way>> \in Seq(Ways)
      BY <2>2
    <3> QED BY <3>1
  <2>4. w # <<>> /\ w[1].path = Root /\ DOMAIN w = 1..1
    BY <2>2, <2>3
  <2>5. PICK e : e = Emptied(r)
    OBVIOUS
  <2>6. PICK t \in BOOLEAN : t = TRUE
    OBVIOUS
  <2>7. PICK l \in Lists : l = <<>>
    BY EmptySeq DEF Lists
  <2>8. e = [r EXCEPT !.list = l, !.selected = {}, !.renew = t]
    BY <2>5, <2>6, <2>7 DEF Emptied
  <2>9. e \in Panes /\ e.path = to /\ e.renew = t /\ e.selected = {} /\ e.info = p.info
    BY <1>5, <2>8 DEF Panes, Lists, Letters
  <2>10. PICK c \in Nat \ {0} : c = 1
    OBVIOUS
  <2>11. q = [e EXCEPT !.back = w, !.cursor = c]
    BY <1>5, <1>6, <1>8, <2>3, <2>5, <2>10 DEF ResetToDevice, way
  <2>12. /\ q \in Panes /\ q.path = to /\ q.renew = t /\ q.selected = {}
         /\ q.info = p.info /\ q.back = w
    BY <2>9, <2>11 DEF Panes, Ways
  <2>13. \A k \in DOMAIN w : Len(w[k].path) <= MaxDepth
    <3>1. Len(Root) = 0
      BY DEF Root
    <3> QED BY <2>4, <3>1, PathsAre
  <2>14. Len(w[1].path) <= 1
    BY <2>4 DEF Root
  <2> QED BY <1>3, <2>4, <2>6, <2>12, <2>13, <2>14 DEF PaneOK, InPane
<1> QED BY <1>7, <1>8

LEMMA DiscStep ==
  ASSUME FileInv, DiscNoticed
  PROVE  FileInv'
<1> DEFINE q(i) == ResetToDevice([pane[i] EXCEPT !.path = <<D>>])
<1>1. /\ UNCHANGED <<disk, discs, activebrowser, mCounter, m_Return, confirmed, copyVars,
                     checkVars>>
      /\ exchanged' = FALSE /\ renewAll' = TRUE
  BY DEF DiscNoticed
<1>2. pane' = pane \/ \E i \in 1..2 : OnD(pane[i].path) /\ pane' = [pane EXCEPT ![i] = q(i)]
  BY DEF DiscNoticed, ToNewDisc
<1>3. \A i \in 1..2 : PaneOK(pane[i]) /\ pane[i] \in Panes
  BY DEF FileInv, PaneInv, PaneOK
<1>4. \A i \in 1..2 : OnD(pane[i].path) =>
        /\ PaneOK(q(i)) /\ (InPane(pane[i]) => InPane(q(i))) /\ (pane[i].renew => q(i).renew)
        /\ OnD(q(i).path) /\ q(i).info = pane[i].info
        /\ q(i).selected = pane[i].selected \/ q(i).selected = {}
  BY <1>3, PaneToDevice
<1> HIDE DEF q
<1>5. /\ DOMAIN pane' = 1..2
      /\ \A i \in 1..2 :
           /\ PaneOK(pane'[i]) /\ (InPane(pane[i]) => InPane(pane'[i]))
           /\ pane[i].renew => pane'[i].renew
           /\ pane'[i].info = pane[i].info
           /\ OnD(pane'[i].path) => OnD(pane[i].path)
           /\ \/ pane'[i].selected = pane[i].selected
              \/ pane'[i].selected = {} /\ OnD(pane[i].path)
  <2>1. CASE pane' = pane
    BY <1>3, <2>1, Types
  <2>2. CASE pane' # pane
    <3>1. PICK i \in 1..2 : OnD(pane[i].path) /\ pane' = [pane EXCEPT ![i] = q(i)]
      BY <1>2, <2>2
    <3>2. DOMAIN pane' = 1..2 /\ pane'[i] = q(i) /\ \A j \in 1..2 \ {i} : pane'[j] = pane[j]
      BY <3>1, Types
    <3> QED BY <1>3, <1>4, <3>1, <3>2
  <2> QED BY <2>1, <2>2
<1>6. PaneInv'
  BY <1>1, <1>5 DEF FileInv, PaneInv
<1>7. TypeOK'
  <2>1. pane'[1] \in Panes /\ pane'[2] \in Panes
    BY <1>5 DEF PaneOK
  <2> QED BY <1>1, <1>5, <2>1 DEF FileInv, TypeOK, copyVars, checkVars
<1>8. /\ Active'.info = Active.info /\ (OnD(Active'.path) => OnD(Active.path))
      /\ Active'.selected = Active.selected \/ (Active'.selected = {} /\ OnD(Active.path))
  BY <1>1, <1>5, Types DEF Active
<1>9. InfoInv'
  BY <1>1, <1>8 DEF FileInv, InfoInv
<1>10. ShownInv'
  <2>1. CASE Active'.selected = Active.selected
    <3>1. Chosen' = Chosen
      BY <2>1 DEF Chosen
    <3> QED BY <1>1, <1>8, <2>1, <3>1 DEF FileInv, ShownInv, checkVars
  <2>2. CASE Active'.selected = {} /\ OnD(Active.path)
    BY <1>1, <1>8, <2>2 DEF FileInv, InfoInv, ShownInv
  <2> QED BY <1>8, <2>1, <2>2
<1>11. MenuInv' /\ SoundInv'
  BY <1>1, <1>8 DEF FileInv, MenuInv, SoundInv, copyVars, checkVars
<1> QED BY <1>1, <1>6, <1>7, <1>9, <1>10, <1>11 DEF FileInv, IsDisk

LEMMA FreshPane ==
  PaneOK(Fresh) /\ InPane(Fresh) /\ Fresh.renew /\ Fresh.path = Root
<1>1. Root \in Paths /\ Len(Root) = 0 /\ MaxDepth \in Nat \ {0}
  BY PathsAre DEF Root
<1>2. <<D, D>> \in Paths
  <2>1. <<D, D>> \in Seq(Letters) /\ Len(<<D, D>>) = 2
    BY FileManagerAssumption DEF Letters
  <2>2. 2 \in 0..MaxDepth + 1
    BY <1>1
  <2> QED BY <2>1, <2>2, PathsAre
<1>3. PICK url \in Paths : url = <<D, D>>
  BY <1>2
<1>4. PICK w \in Seq([path : Paths, cursor : Nat \ {0}]) : w = <<>>
  BY EmptySeq
<1>5. PICK l \in Lists : l = <<>>
  BY EmptySeq DEF Lists
<1>6. PICK i \in Infos : i = [kind |-> "root", path |-> Root, item |-> Root]
  <2>1. [kind |-> "root", path |-> Root, item |-> Root] \in Infos
    BY <1>1 DEF Infos, Kinds
  <2> QED BY <2>1
<1>7. PICK t \in BOOLEAN : t = TRUE
  OBVIOUS
<1>8. PICK c \in Nat \ {0} : c = 1
  OBVIOUS
<1>9. PICK to \in Paths : to = Root
  BY <1>1
<1>10. Fresh = [path |-> to, url |-> url, back |-> w, list |-> l, cursor |-> c, renew |-> t,
                selected |-> {}, info |-> i]
  BY <1>3, <1>4, <1>5, <1>6, <1>7, <1>8, <1>9 DEF Fresh
<1>11. /\ Fresh \in Panes /\ Fresh.path = to /\ Fresh.back = w /\ Fresh.selected = {}
       /\ Fresh.renew = t
  BY <1>10 DEF Panes, Lists, Letters
<1> QED BY <1>1, <1>4, <1>7, <1>9, <1>11 DEF PaneOK, InPane

(* Both panes after a frame of case 21.                                    *)
LEMMA Frame ==
  ASSUME FileInv, NEW button, button # "none" => ~renewAll /\ ~pane[Other].renew,
         button \in {"y", "x"} => Active.path # Root,
         NEW f, f = Frame21(button)
  PROVE  /\ f.active \in 1..2 /\ DOMAIN f.pane = 1..2
         /\ \A i \in 1..2 : PaneOK(f.pane[i]) /\ InPane(f.pane[i])
         /\ button \notin {"b", "back"} => InfoOK(f.pane[f.active])
<1> DEFINE all == IF renewAll THEN [i \in 1..2 |-> Process(pane[i], button, TRUE)] ELSE pane
           renew == [i \in 1..2 |-> IF all[i].renew THEN Process(all[i], button, FALSE)
                                   ELSE all[i]]
           active == CASE button = "left" -> 1 [] button = "right" -> 2 [] OTHER -> activebrowser
           last == Process(renew[active], button, FALSE)
<1>1. f.active = active /\ f.pane = [renew EXCEPT ![active] = last]
  BY DEF Frame21
<1>2. active \in 1..2 /\ (button \in {"y", "x"} => active = activebrowser)
      /\ DOMAIN pane = 1..2
  BY Types
<1>3. \A i \in 1..2 : PaneOK(pane[i]) /\ (InPane(pane[i]) \/ pane[i].renew)
  BY DEF FileInv, PaneInv
<1>4. DOMAIN all = 1..2 /\ \A i \in 1..2 :
        /\ PaneOK(all[i]) /\ (InPane(all[i]) \/ all[i].renew)
        /\ button # "none" => all[i] = pane[i]
  <2>1. CASE renewAll
    <3>1. button = "none"
      BY <2>1
    <3>2. \A i \in 1..2 : all[i] = Process(pane[i], button, TRUE)
      BY <2>1
    <3>4. DOMAIN all = 1..2
      BY <2>1
    <3> HIDE DEF all
    <3>3. ASSUME NEW i \in 1..2
          PROVE  PaneOK(all[i]) /\ InPane(all[i])
      <4>1. IsDisk(disk) /\ PaneOK(pane[i])
        BY <1>3 DEF FileInv
      <4>2. PICK t \in BOOLEAN : t = TRUE
        OBVIOUS
      <4>3. all[i] = Process(pane[i], button, t)
        BY <3>2, <4>2
      <4>4. /\ InPane(pane[i]) \/ pane[i].renew \/ t
            /\ button \in {"y", "x"} => pane[i].path # Root
        BY <3>1, <4>2
      <4> QED BY <4>1, <4>3, <4>4, ProcessPane
    <3> QED BY <3>1, <3>3, <3>4
  <2>2. CASE ~renewAll
    BY <1>2, <1>3, <2>2
  <2> QED BY <2>1, <2>2
<1> HIDE DEF all
<1>5. \A i \in 1..2 : button \in {"y", "x"} /\ (all[i].renew \/ i = activebrowser) =>
        all[i].path # Root
  <2> SUFFICES ASSUME NEW i \in 1..2, button \in {"y", "x"}, all[i].renew \/ i = activebrowser
               PROVE  all[i].path # Root
    OBVIOUS
  <2>1. all[i] = pane[i] /\ ~pane[Other].renew
    BY <1>4
  <2>2. i = activebrowser
    BY <2>1, Types DEF Other
  <2> QED BY <2>1, <2>2 DEF Active
<1>6. DOMAIN renew = 1..2 /\ \A i \in 1..2 :
        /\ PaneOK(renew[i]) /\ InPane(renew[i])
        /\ button \in {"y", "x"} /\ i = activebrowser => renew[i].path # Root
  <2>1. DOMAIN renew = 1..2
    OBVIOUS
  <2>2. ASSUME NEW i \in 1..2
        PROVE  /\ PaneOK(renew[i]) /\ InPane(renew[i])
               /\ button \in {"y", "x"} /\ i = activebrowser => renew[i].path # Root
    <3>1. CASE all[i].renew
      <4>1. renew[i] = Process(all[i], button, FALSE)
        BY <3>1
      <4> HIDE DEF renew
      <4>2. /\ PaneOK(renew[i]) /\ InPane(renew[i])
            /\ button \in {"y", "x"} => renew[i].path = all[i].path
        <5>1. IsDisk(disk) /\ PaneOK(all[i])
          BY <1>4 DEF FileInv
        <5>2. PICK t \in BOOLEAN : t = FALSE
          OBVIOUS
        <5>3. renew[i] = Process(all[i], button, t)
          BY <4>1, <5>2
        <5>4. /\ InPane(all[i]) \/ all[i].renew \/ t
              /\ button \in {"y", "x"} => all[i].path # Root
          BY <1>5, <3>1
        <5> QED BY <5>1, <5>3, <5>4, ProcessPane
      <4> QED BY <1>5, <3>1, <4>2
    <3>2. CASE ~all[i].renew
      <4>1. renew[i] = all[i]
        BY <3>2
      <4> HIDE DEF renew
      <4> QED BY <1>4, <1>5, <3>2, <4>1
    <3> QED BY <3>1, <3>2
  <2> HIDE DEF renew
  <2> QED BY <2>1, <2>2
<1> HIDE DEF renew, active
<1>7. PaneOK(last) /\ InPane(last) /\ (button \notin {"b", "back"} => InfoOK(last))
  BY <1>2, <1>6, ProcessPane DEF FileInv
<1> HIDE DEF last
<1>8. /\ DOMAIN f.pane = 1..2 /\ f.pane[active] = last
      /\ \A i \in 1..2 \ {active} : f.pane[i] = renew[i]
  BY <1>1, <1>2, <1>6
<1> QED BY <1>1, <1>2, <1>6, <1>7, <1>8

LEMMA OpenStep ==
  ASSUME FileInv, Open
  PROVE  FileInv'
<1> DEFINE q == Process(Fresh, "none", TRUE)
<1>1. PaneOK(q) /\ InPane(q)
  BY FreshPane, ProcessPane DEF FileInv
<1> HIDE DEF q
<1>2. /\ DOMAIN pane' = 1..2 /\ \A i \in 1..2 : pane'[i] = q
      /\ mCounter' = "21" /\ renewAll' = FALSE
      /\ UNCHANGED <<disk, discVars, activebrowser, m_Return, confirmed, copyVars, checkVars>>
  BY DEF Open, Go, q
<1>3. PaneInv'
  BY <1>1, <1>2 DEF PaneInv
<1>4. TypeOK'
  <2>1. pane'[1] \in Panes /\ pane'[2] \in Panes
    BY <1>1, <1>2 DEF PaneOK
  <2> QED BY <1>2, <2>1 DEF FileInv, TypeOK, Screens, discVars, copyVars, checkVars
<1>5. InfoInv' /\ ShownInv' /\ MenuInv' /\ SoundInv'
  BY <1>2 DEF FileInv, InfoInv, ShownInv, MenuInv, SoundInv, copyVars, checkVars
<1> QED BY <1>2, <1>3, <1>4, <1>5 DEF FileInv, IsDisk

LEMMA BrowseStep ==
  ASSUME FileInv, NEW button \in Presses[activebrowser], Browse(button)
  PROVE  FileInv'
<1> DEFINE f == Frame21(button)
<1>1. /\ f.active \in 1..2 /\ DOMAIN f.pane = 1..2
      /\ \A i \in 1..2 : PaneOK(f.pane[i]) /\ InPane(f.pane[i])
      /\ button \notin {"b", "back"} => InfoOK(f.pane[f.active])
  BY Frame DEF Browse
<1>2. /\ activebrowser' = f.active /\ mCounter' \in After21(button, f.pane[f.active].info.kind)
      /\ pane' = IF mCounter' = "elsewhere" THEN [i \in 1..2 |-> Fresh] ELSE f.pane
  BY DEF Browse
<1> HIDE DEF f
<1>3. /\ orphans' = Orphaned /\ p_fcopy' = FALSE /\ thread' = "none" /\ told' = NoJob
      /\ job' = NoJob /\ renewAll' = FALSE /\ iselected_item' = 0 /\ b_finished' = FALSE
      /\ shown' = {} /\ tried' = {} /\ sound' = TRUE
      /\ button # "none" => presses < MaxPresses
      /\ presses' = presses + (IF button = "none" THEN 0 ELSE 1)
      /\ UNCHANGED <<disk, discVars, m_Return, confirmed, acts>>
  BY DEF Browse
<1>4. /\ mCounter' \in {"21", "25", "50", "52", "shows", "elsewhere"}
      /\ mCounter' \notin {"21", "elsewhere"} => button \notin {"b", "back"}
      /\ mCounter' = "52" => f.pane[f.active].info.kind = "root"
  BY <1>2 DEF After21
<1>5. DOMAIN pane' = 1..2 /\ \A i \in 1..2 : PaneOK(pane'[i]) /\ InPane(pane'[i])
  BY <1>1, <1>2, FreshPane
<1>6. PaneInv'
  BY <1>5 DEF PaneInv
<1>7. presses' \in 0..MaxPresses
  <2>1. MaxPresses \in Nat /\ presses \in 0..MaxPresses
    BY FileManagerAssumption DEF FileInv, TypeOK
  <2> QED BY <1>3, <2>1
<1>8. TypeOK'
  <2>1. pane'[1] \in Panes /\ pane'[2] \in Panes
    BY <1>5 DEF PaneOK
  <2>2. NoJob \in Jobs
    BY PathsAre DEF NoJob, Jobs
  <2>3. mCounter' \in Screens /\ activebrowser' \in 1..2
    BY <1>1, <1>2, <1>4 DEF Screens
  <2>4. Orphaned \subseteq Jobs
    BY OrphanedFacts DEF FileInv
  <2> QED BY <1>3, <1>5, <1>7, <2>1, <2>2, <2>3, <2>4 DEF FileInv, TypeOK, discVars
<1>9. InfoInv'
  <2> SUFFICES ASSUME mCounter' \notin {"elsewhere", "21"} PROVE InfoInv'
    BY DEF InfoInv
  <2>1. Active' = f.pane[f.active] /\ InfoOK(f.pane[f.active]) /\ Active' \in Panes
    BY <1>1, <1>2, <1>4 DEF Active, PaneOK
  <2>2. OnD(Active'.path) => OnD(Active'.info.item)
    <3>1. \A p \in Panes : InPath(p.info.item, p.path) /\ OnD(p.path) => OnD(p.info.item)
      BY PaneFacts, PathsAre, FrontOnD
    <3> QED BY <2>1, <3>1 DEF InfoOK
  <2> QED BY <1>4, <2>1, <2>2 DEF InfoInv, InfoOK
<1>10. ShownInv' /\ MenuInv' /\ SoundInv'
  BY <1>3, <1>4 DEF FileInv, ShownInv, MenuInv, SoundInv
<1> QED BY <1>3, <1>6, <1>8, <1>9, <1>10 DEF FileInv, IsDisk

LEMMA FileStep == FileInv /\ [Next]_vars => FileInv'
<1> SUFFICES ASSUME FileInv, [Next]_vars PROVE FileInv'
  OBVIOUS
<1>1. ASSUME UNCHANGED vars
      PROVE  FileInv'
  <2>1. /\ UNCHANGED <<disk, exchanged, discs, pane, renewAll, activebrowser, mCounter>>
        /\ UNCHANGED <<m_Return, confirmed, p_fcopy, told, thread, job, orphans>>
        /\ UNCHANGED <<b_finished, iselected_item, presses, acts, shown, tried, sound>>
    BY <1>1 DEF vars, discVars, paneVars, copyVars, checkVars
  <2>2. Active' = Active /\ Chosen' = Chosen
    BY <2>1 DEF Active, Chosen
  <2>3. TypeOK'
    BY <2>1 DEF FileInv, TypeOK
  <2>4. IsDisk(disk')
    BY <2>1 DEF FileInv
  <2>5. PaneInv'
    BY <2>1, <2>2 DEF FileInv, PaneInv
  <2>6. InfoInv' /\ ShownInv'
    BY <2>1, <2>2 DEF FileInv, InfoInv, ShownInv
  <2>7. MenuInv'
    BY <2>1 DEF FileInv, MenuInv
  <2>8. SoundInv'
    BY <2>1, <2>2 DEF FileInv, SoundInv
  <2> QED BY <2>3, <2>4, <2>5, <2>6, <2>7, <2>8 DEF FileInv, IsDisk
<1>2. CASE OffForGood
  BY <1>1, <1>2 DEF OffForGood
<1>3. CASE Open
  BY <1>3, OpenStep
<1>4. CASE \E button \in Presses[activebrowser] : Browse(button)
  BY <1>4, BrowseStep
<1>5. CASE Confirm \/ MenuCopy \/ MenuOther \/ MenuLeft \/ LeaveScreen
             \/ (\E return \in {"80", "90", "95"} : MenuKeyboard(return))
             \/ WriteTitle \/ Enter \/ KeyboardElsewhere \/ KeyboardFrame
  BY <1>5, MenuSteps
<1>6. CASE MenuDelete
  BY <1>6, MenuDeleteStep
<1>7. CASE Delete \/ CopiedOne \/ CopyWait \/ ProcessACL
  BY <1>7, TrimmingKeeps
<1>8. CASE DriveWindow \/ DriveChosen
  BY <1>8, DriveSteps
<1>9. CASE CreateThread \/ CopyOne \/ CopyNext
  BY <1>9, CopyingSteps
<1>10. CASE ThreadBegins \/ ThreadEnds \/ \E j \in orphans : OrphanEnds(j)
  BY <1>10, ThreadSteps
<1>11. CASE Rename \/ CreateDirectory \/ Exchange
  BY <1>11, DiskSteps
<1>12. CASE DiscNoticed
  BY <1>12, DiscStep
<1> QED BY <1>1, <1>2, <1>3, <1>4, <1>5, <1>6, <1>7, <1>8, <1>9, <1>10, <1>11, <1>12 DEF Next

LEMMA FileInit == Init => FileInv
<1> SUFFICES ASSUME Init PROVE FileInv
  OBVIOUS
<1>1. IsDisk(disk)
  BY FileManagerAssumption DEF Init
<1>2. DOMAIN disk \subseteq Paths /\ \A p \in DOMAIN disk : disk[p] \in {"dir", "file"}
  BY <1>1 DEF IsDisk
<1>3. DOMAIN pane = 1..2 /\ \A i \in 1..2 : PaneOK(pane[i]) /\ InPane(pane[i])
  BY FreshPane DEF Init
<1>4. pane[1] \in Panes /\ pane[2] \in Panes
  BY <1>3 DEF PaneOK
<1>5. NoJob \in Jobs
  BY PathsAre DEF NoJob, Jobs
<1>6. {MaxPresses, MaxActs, MaxDiscs} \subseteq Nat
  BY FileManagerAssumption
<1>7. TypeOK
  <2>1. presses \in 0..MaxPresses /\ acts \in 0..MaxActs /\ discs \in 0..MaxDiscs
    BY <1>6 DEF Init
  <2>2. {told, job} \cup orphans \subseteq Jobs
    BY <1>5 DEF Init
  <2>3. /\ exchanged \in BOOLEAN /\ renewAll \in BOOLEAN /\ confirmed \in BOOLEAN
        /\ p_fcopy \in BOOLEAN /\ b_finished \in BOOLEAN /\ sound \in BOOLEAN
    BY DEF Init
  <2>4. mCounter \in Screens /\ m_Return \in Screens
    BY DEF Init, Screens
  <2>5. /\ activebrowser \in 1..2 /\ thread \in {"none", "created", "running", "done"}
        /\ iselected_item \in Nat /\ shown \subseteq Paths /\ tried \subseteq Paths
    BY DEF Init
  <2> QED BY <1>2, <1>3, <1>4, <2>1, <2>2, <2>3, <2>4, <2>5 DEF TypeOK
<1>8. PaneInv /\ InfoInv /\ ShownInv /\ MenuInv /\ SoundInv
  BY <1>3 DEF Init, PaneInv, InfoInv, ShownInv, MenuInv, SoundInv
<1> QED BY <1>1, <1>7, <1>8 DEF FileInv

LEMMA FileAlways == Spec => []FileInv
<1> QED BY FileInit, FileStep, PTL DEF Spec

-----------------------------------------------------------------------------
(* What the runs check of the file manager.                                *)

(* The panes, the screens and the copies are what they are declared to be: *)
(* every path a button leads to stays one the program can hold.            *)
THEOREM TypeCorrect == Spec => []TypeOK
<1>1. FileInv => TypeOK
  BY DEF FileInv
<1> QED BY <1>1, FileAlways, PTL

(* Whatever case 22, 23, 25, 60, 65, 66 or 100 acts on is of the directory *)
(* its pane shows: when the directory, the drive or the disc changes under *)
(* a selection, the pane is read again before any of these screens.        *)
THEOREM SelectionInPaneCorrect == Spec => []SelectionInPane
<1>1. ASSUME FileInv, mCounter # "21", NEW s \in Active.selected
      PROVE  s.item = Active.path \/ Front(s.item) = Active.path
  <2>1. InPane(Active)
    BY <1>1, Types DEF FileInv, PaneInv, Active
  <2> QED BY <1>1, <2>1 DEF InPane, InPath
<1>2. FileInv => SelectionInPane
  BY <1>1 DEF SelectionInPane
<1> QED BY <1>2, FileAlways, PTL

(* At case 23 the disk is changed by the deletion, the threads and whoever *)
(* exchanges the disc.                                                     *)
LEMMA WhileDeleting ==
  ASSUME [Next]_vars, mCounter = "23"
  PROVE  \/ disk' = disk \/ Delete \/ ThreadEnds
         \/ (\E j \in orphans : OrphanEnds(j)) \/ Exchange
<1>1. CASE UNCHANGED vars
  BY <1>1 DEF vars
<1>2. CASE Open \/ \E button \in Presses[activebrowser] : Browse(button)
  BY <1>2 DEF Open, Browse
<1>3. CASE Confirm \/ MenuCopy \/ MenuDelete \/ MenuOther \/ MenuLeft \/ LeaveScreen
             \/ \E return \in {"80", "90", "95"} : MenuKeyboard(return)
  BY <1>3 DEF Confirm, MenuCopy, MenuDelete, MenuOther, MenuLeft, LeaveScreen, MenuKeyboard
<1>4. CASE DriveWindow \/ DriveChosen \/ CreateThread \/ CopyOne \/ CopyNext \/ CopiedOne
             \/ CopyWait \/ KeyboardFrame \/ Rename \/ CreateDirectory \/ WriteTitle \/ ProcessACL
  BY <1>4 DEF DriveWindow, DriveChosen, CreateThread, CopyOne, CopyNext, CopiedOne, CopyWait,
              KeyboardFrame, Rename, CreateDirectory, WriteTitle, ProcessACL
<1>5. CASE ThreadBegins \/ DiscNoticed \/ Enter \/ KeyboardElsewhere \/ OffForGood
  BY <1>5 DEF ThreadBegins, DiscNoticed, Enter, KeyboardElsewhere, OffForGood
<1> QED BY <1>1, <1>2, <1>3, <1>4, <1>5 DEF Next

LEMMA DeletedWasShown ==
  ASSUME FileInv, [Next]_vars, mCounter = "23", NEW p \in DOMAIN disk \ DOMAIN disk'
  PROVE  OnD(p) \/ \E item \in shown : IsPrefix(item, p)
<1>1. IsDisk(disk) /\ {told, job} \cup orphans \subseteq Jobs /\ ShownInv
  BY DEF FileInv, TypeOK
<1>2. CASE disk' = disk
  BY <1>2
<1>3. CASE ThreadEnds \/ \E j \in orphans : OrphanEnds(j)
  <2>1. DOMAIN disk \subseteq DOMAIN disk'
    BY <1>1, <1>3, CopiedDisk DEF ThreadEnds, OrphanEnds
  <2> QED BY <2>1
<1>4. CASE Exchange
  <2>1. PICK disc \in Discs : disk' = With(Without(Within(<<D>>) \ {<<D>>}), disc)
    BY <1>4 DEF Exchange
  <2>2. p \in Within(<<D>>)
    BY <2>1 DEF With, Without
  <2>3. p \in Seq(Letters) /\ IsPrefix(<<D>>, p)
    BY <1>1, <2>2, PathsAre DEF Within, IsDisk
  <2> QED BY <2>3, BelowD
<1>5. CASE Delete
  <2>1. p \in Doomed23
    BY <1>5 DEF Delete, Without
  <2>2. CASE Active.selected # {}
    <3>1. PICK s \in Active.selected : p \in Doomed(s.item, s.kind)
      BY <2>1, <2>2 DEF Doomed23
    <3>2. IsPrefix(s.item, p)
      BY <3>1 DEF Doomed, Within
    <3>3. s.item \in shown
      BY <1>1, <2>2, <3>1 DEF ShownInv, Chosen
    <3> QED BY <3>2, <3>3
  <2>3. CASE Active.selected = {}
    <3>1. p \in Doomed(Active.info.item, Active.info.kind)
      BY <2>1, <2>3 DEF Doomed23
    <3>2. IsPrefix(Active.info.item, p) /\ ~OnD(Active.info.item)
      BY <3>1 DEF Doomed, Within
    <3> QED BY <1>1, <2>3, <3>2 DEF ShownInv
  <2> QED BY <2>2, <2>3
<1> QED BY <1>2, <1>3, <1>4, <1>5, WhileDeleting

(* Case 23 deletes from the hard disk only what is at or below something   *)
(* the confirmation of case 22 asked about, whatever the threads and the   *)
(* disc drive do in between.                                               *)
THEOREM DeletesWhatWasShownCorrect == Spec => DeletesWhatWasShown
<1> DEFINE Shows == mCounter = "23" =>
       \A p \in DOMAIN disk \ DOMAIN disk' :
         OnD(p) \/ \E item \in shown : IsPrefix(item, p)
<1>1. FileInv /\ [Next]_vars => Shows
  BY DeletedWasShown
<1>2. FileInv /\ [Next]_vars => [Shows]_vars
  BY <1>1
<1> QED BY <1>2, FileAlways, PTL DEF Spec, DeletesWhatWasShown

(* At case 66 only the frame itself and the disc noticed at its end change *)
(* the panes.                                                              *)
LEMMA WhileCopying ==
  ASSUME [Next]_vars, mCounter = "66"
  PROVE  UNCHANGED <<pane, activebrowser>> \/ CopyWait \/ DiscNoticed
<1>1. CASE UNCHANGED vars
  BY <1>1 DEF vars, paneVars
<1>2. CASE Open \/ \E button \in Presses[activebrowser] : Browse(button)
  BY <1>2 DEF Open, Browse
<1>3. CASE Confirm \/ MenuCopy \/ MenuDelete \/ MenuOther \/ MenuLeft \/ LeaveScreen
             \/ \E return \in {"80", "90", "95"} : MenuKeyboard(return)
  BY <1>3 DEF Confirm, MenuCopy, MenuDelete, MenuOther, MenuLeft, LeaveScreen, MenuKeyboard
<1>4. CASE DriveWindow \/ DriveChosen \/ CreateThread \/ CopyOne \/ CopyNext \/ CopiedOne
             \/ Delete \/ KeyboardFrame \/ Rename \/ CreateDirectory \/ WriteTitle \/ ProcessACL
  BY <1>4 DEF DriveWindow, DriveChosen, CreateThread, CopyOne, CopyNext, CopiedOne, Delete,
              KeyboardFrame, Rename, CreateDirectory, WriteTitle, ProcessACL
<1>5. CASE ThreadBegins \/ ThreadEnds \/ (\E j \in orphans : OrphanEnds(j)) \/ Exchange
             \/ Enter \/ KeyboardElsewhere \/ OffForGood
  BY <1>5 DEF ThreadBegins, ThreadEnds, OrphanEnds, Exchange, Enter, KeyboardElsewhere,
              OffForGood, paneVars, vars
<1> QED BY <1>1, <1>2, <1>3, <1>4, <1>5 DEF Next

LEMMA TakenOffWasTried ==
  ASSUME FileInv, [Next]_vars, mCounter = "66", sound, ~exchanged,
         NEW s \in Active.selected \ Active'.selected
  PROVE  s.item \in tried
<1>1. CopyWait
  <2>1. ~DiscNoticed
    BY DEF DiscNoticed
  <2>2. UNCHANGED <<pane, activebrowser>> => Active' = Active
    BY DEF Active
  <2> QED BY <2>1, <2>2, WhileCopying
<1>2. b_finished /\ s.at = iselected_item
  <2>1. activebrowser' = activebrowser /\ CopyStep
    BY <1>1 DEF CopyWait
  <2>2. b_finished
    BY <2>1 DEF CopyStep, Active
  <2>3. Active'.selected = {t \in Active.selected : t.at # iselected_item}
    <3> DEFINE left == {t \in Active.selected : t.at # iselected_item}
    <3>1. pane' = [pane EXCEPT ![activebrowser].selected = left, ![Other] = ResetCurrentDir(@)]
      BY <2>1, <2>2 DEF CopyStep
    <3> HIDE DEF left
    <3>2. pane'[activebrowser] = [pane[activebrowser] EXCEPT !.selected = left]
      BY <3>1, Types
    <3>3. pane'[activebrowser].selected = left
      BY <3>2, Types DEF Active, Panes
    <3> QED BY <2>1, <3>3 DEF Active, left
  <2> QED BY <2>2, <2>3
<1>3. /\ \A t \in Active.selected : t.at = iselected_item => t.item = told.item
      /\ told.item \in tried
  BY <1>2 DEF FileInv, SoundInv
<1> QED BY <1>2, <1>3

(* Case 66 takes an item off the selection only after the thread copied    *)
(* it, or tried to: the item at iselected_item, b_finished and the orders  *)
(* of the thread are of one and the same copy, if no thread is early or    *)
(* left over (sound) and no exchange of the disc waits to be noticed.      *)
THEOREM TakenOffWhenCopiedCorrect == Spec => TakenOffWhenCopied
<1> DEFINE Takes == mCounter = "66" /\ sound /\ ~exchanged =>
       \A s \in Active.selected \ Active'.selected : s.item \in tried
<1>1. FileInv /\ [Next]_vars => Takes
  BY TakenOffWasTried
<1>2. FileInv /\ [Next]_vars => [Takes]_vars
  BY <1>1
<1> QED BY <1>2, FileAlways, PTL DEF Spec, TakenOffWhenCopied
====
