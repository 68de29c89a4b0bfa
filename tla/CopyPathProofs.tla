---------------------------- MODULE CopyPathProofs ----------------------------
(***************************************************************************)
(* That a game copied to hard disk is there, and that a retry spares what  *)
(* was copied, for any tree whose names getvalidFilename can keep apart.   *)
(*                                                                         *)
(* The argument: entries dealt with have destinations of their own         *)
(* (Apart), since everything present in a directory of the copy was put    *)
(* there for an entry of the source directory (Placed, DiskIsLogged); so   *)
(* no write, and no retry, hits the file of another entry.                 *)
(***************************************************************************)
EXTENDS CopyJobProofs, SequenceTheorems

GameJob == [from |-> "game", to |-> "hdd"]
NeedsRename(x) == Fatx[NameOf[x]] # NameOf[x]
Siblings(x) == {y \in Items \ {Root} : y # x /\ Parent[y] = Parent[x]}
TriesOf(x) == {Tries[NameOf[x]][k] : k \in DOMAIN Tries[NameOf[x]]}

(* A directory holds each name once, and no name that FATX allows is one   *)
(* that is tried for another entry.  Where it is, files get lost: see the  *)
(* violation of GameIsThere under MCCopyNames.                             *)
NamesApart ==
  \A x \in Items \ {Root} : \A y \in Siblings(x) :
    /\ NameOf[x] # NameOf[y]
    /\ NeedsRename(x) /\ ~NeedsRename(y) => NameOf[y] \notin TriesOf(x)

(* A directory has fewer entries than there are names to try.              *)
TriesSuffice ==
  \A x \in Items \ {Root} : NeedsRename(x) =>
    \A given \in [Siblings(x) -> Names] : \E n \in TriesOf(x) : \A y \in Siblings(x) : given[y] # n

Placed == {f \in Files : logged[f].what # "none"} \cup DOMAIN made
PathOf(x) == IF x \in Files THEN logged[x].path ELSE made[x]
LastName(p) == p[Len(p)]

(* Entry x has a destination in the directory of its parent.               *)
InParent(x) ==
  /\ Parent[x] \in DOMAIN made
  /\ \E n \in Names :
       /\ PathOf(x) = Append(made[Parent[x]], n)
       /\ IF NeedsRename(x) THEN n \in TriesOf(x) ELSE n = NameOf[x]

Apart == \A x, y \in Placed : x # y => PathOf(x) # PathOf(y)

PlacesInv ==
  job = GameJob =>
    /\ Root \in DOMAIN made => made[Root] = <<>>
    /\ \A x \in Placed : x # Root => InParent(x)
    /\ Apart

(* While a directory is walked, its destination is where it was made, and  *)
(* the disk holds the files that were dealt with and nothing else.         *)
DiskInv ==
  job = GameJob /\ phase = "copying" /\ stack # <<>> =>
    /\ Root \in DOMAIN made
    /\ \A k \in DOMAIN stack : stack[k].path = made[stack[k].dir]
    /\ DOMAIN disk = {logged[f].path : f \in Placed \cap Files}

(* FAILlist and its successor hold the destinations the log has.           *)
RetryInv ==
  /\ phase # "copying" => stack = <<>>
  /\ phase = "retrying" => job.from # "net"
  /\ job = GameJob =>
       /\ \A f \in DOMAIN FAILlist : FAILlist[f] = logged[f].path
       /\ phase = "retrying" =>
            \A f \in DOMAIN temp_FAILlist : temp_FAILlist[f] = logged[f].path

PathInv == PlacesInv /\ DiskInv /\ RetryInv

-----------------------------------------------------------------------------
(* The destination of the next entry is a new one.                         *)

LEMMA NamesType ==
  ASSUME NEW x \in Items
  PROVE  /\ NameOf[x] \in Names /\ TriesOf(x) \subseteq Names
         /\ Tries[NameOf[x]] \in Seq(Names) /\ Tries[NameOf[x]] # <<>>
         /\ DOMAIN Tries[NameOf[x]] = 1..Len(Tries[NameOf[x]])
         /\ Len(Tries[NameOf[x]]) \in Nat \ {0}
<1>1. NameOf[x] \in Names
  BY JobAssumption
<1>2. Tries[NameOf[x]] \in Seq(Names) /\ Tries[NameOf[x]] # <<>>
  BY <1>1, JobAssumption
<1>3. /\ DOMAIN Tries[NameOf[x]] = 1..Len(Tries[NameOf[x]])
      /\ Len(Tries[NameOf[x]]) \in Nat \ {0}
  BY <1>2, LenProperties, EmptySeq
<1>4. TriesOf(x) \subseteq Names
  BY <1>2, <1>3, ElementOfSeq DEF TriesOf
<1> QED BY <1>1, <1>2, <1>3, <1>4

LEMMA PlacedTypes ==
  ASSUME TypeOK
  PROVE  /\ Placed \subseteq Items
         /\ \A x \in Placed : PathOf(x) \in Paths
         /\ \A d \in DOMAIN made : d \in Placed /\ PathOf(d) = made[d]
<1>1. LoggedOK /\ DOMAIN made \subseteq Dirs /\ \A d \in DOMAIN made : made[d] \in Paths
  BY FrameTypes DEF TypeOK
<1> QED BY <1>1, JobAssumption DEF Placed, PathOf, Items, LoggedOK

(* What stands under a name in the directory on top is there for a sibling.*)
LEMMA NameTakenBySibling ==
  ASSUME IInv, PathInv, job = GameJob, NEW x \in Items, Entry(x), NEW y \in Placed,
         NEW n \in Names, PathOf(y) = Append(Top.path, n)
  PROVE  /\ y \in Siblings(x)
         /\ IF NeedsRename(y) THEN n \in TriesOf(y) ELSE n = NameOf[y]
<1>1. phase = "copying" /\ stack # <<>> /\ TypeOK /\ WalkInv
  BY DEF Entry, IInv
<1>2. /\ ~Seen(x) /\ x # Root /\ Parent[x] = Top.dir /\ Top.dir \in DOMAIN made
  BY <1>1, EntryIsNew
<1>3. Top.path = made[Parent[x]] /\ Top.path \in Paths
  <2>1. Len(stack) \in DOMAIN stack /\ Top.path \in Paths
    BY <1>1, FrameTypes, WithoutFacts, TopType
  <2> QED BY <1>1, <1>2, <2>1 DEF PathInv, DiskInv, Top
<1>4. made[Root] = <<>> /\ Root \in DOMAIN made /\ PathOf(Root) = <<>>
  BY <1>1, PlacedTypes DEF PathInv, PlacesInv, DiskInv
<1>5. y # Root
  BY <1>3, <1>4, AppendProperties DEF Paths
<1>6. PICK m \in Names :
        /\ Parent[y] \in DOMAIN made
        /\ PathOf(y) = Append(made[Parent[y]], m)
        /\ IF NeedsRename(y) THEN m \in TriesOf(y) ELSE m = NameOf[y]
  BY <1>5 DEF PathInv, PlacesInv, InParent
<1>7. made[Parent[y]] = made[Parent[x]] /\ m = n
  <2>1. made[Parent[y]] \in Seq(Names) /\ Top.path \in Seq(Names)
    BY <1>1, <1>3, <1>6 DEF TypeOK, Paths
  <2>2. Append(made[Parent[y]], m) = Append(Top.path, n)
    BY <1>6
  <2>3. made[Parent[y]] = Top.path /\ m = n
    <3> DEFINE s == made[Parent[y]]
               t == Top.path
    <3>1. s \in Seq(Names) /\ t \in Seq(Names) /\ m \in Names /\ n \in Names
      BY <2>1
    <3> HIDE DEF s, t
    <3>2. Append(s, m) = Append(t, n) <=> s = t /\ m = n
      BY <3>1, AppendInjective
    <3> QED BY <2>2, <3>2 DEF s, t
  <2> QED BY <1>3, <2>3
<1>8. Parent[y] = Parent[x]
  <2>1. Parent[x] \in Placed /\ Parent[y] \in Placed
        /\ PathOf(Parent[x]) = made[Parent[x]] /\ PathOf(Parent[y]) = made[Parent[y]]
    BY <1>1, <1>2, <1>6, PlacedTypes
  <2> QED BY <1>7, <2>1 DEF PathInv, PlacesInv, Apart
<1>9. x \notin Placed
  BY <1>2 DEF Seen, Placed
<1> QED BY <1>1, <1>5, <1>6, <1>7, <1>8, <1>9, PlacedTypes DEF Siblings

(* getvalidFilename finds a name that is free.                             *)
LEMMA FreeName ==
  ASSUME IInv, PathInv, TriesSuffice, job = GameJob, NEW x \in Items, Entry(x),
         NeedsRename(x), ~IsEmptyDir(Top.path), NEW n \in ValidNames(Top.path, NameOf[x])
  PROVE  n \in TriesOf(x) /\ ~Taken(Top.path, n)
<1> DEFINE tries == Tries[NameOf[x]]
           free == {i \in DOMAIN tries : ~Taken(Top.path, tries[i])}
<1>1. phase = "copying" /\ stack # <<>> /\ TypeOK /\ WalkInv
  BY DEF Entry, IInv
<1>2. x # Root /\ x \notin Placed
  BY <1>1, EntryIsNew DEF Seen, Placed
<1>3. free # {}
  <2> SUFFICES ASSUME \A i \in DOMAIN tries : Taken(Top.path, tries[i])
               PROVE  FALSE
    OBVIOUS
  <2> DEFINE at(y) == LastName(PathOf(y))
             given == [y \in Siblings(x) |-> IF at(y) \in Names THEN at(y) ELSE NameOf[y]]
  <2>1. given \in [Siblings(x) -> Names]
    BY NamesType DEF Siblings
  <2>2. PICK m \in TriesOf(x) : \A y \in Siblings(x) : given[y] # m
    BY <1>2, <2>1 DEF TriesSuffice
  <2>3. m \in Names /\ Taken(Top.path, m)
    BY <2>2, NamesType DEF TriesOf
  <2>4. PICK y \in Placed : PathOf(y) = Append(Top.path, m)
    <3>1. DOMAIN disk = {logged[f].path : f \in Placed \cap Files}
      BY <1>1 DEF PathInv, DiskInv
    <3>2. CASE Append(Top.path, m) \in DOMAIN disk
      BY <3>1, <3>2 DEF PathOf
    <3>3. CASE Append(Top.path, m) \in {made[d] : d \in DOMAIN made}
      BY <1>1, <3>3, PlacedTypes
    <3> QED BY <2>3, <3>2, <3>3 DEF Taken, Present
  <2>5. y \in Siblings(x)
    BY <2>3, <2>4, NameTakenBySibling
  <2>6. Top.path \in Seq(Names)
    BY <1>1, FrameTypes, TopType DEF Paths
  <2>7. at(y) = m
    BY <2>3, <2>4, <2>6, AppendProperties DEF LastName
  <2> QED BY <2>2, <2>3, <2>5, <2>7
<1>4. n \in {tries[i] : i \in {j \in free : \A k \in free : j <= k}}
  BY <1>3 DEF ValidNames
<1> QED BY <1>4 DEF TriesOf

LEMMA NewPlace ==
  ASSUME IInv, PathInv, NamesApart, TriesSuffice, job = GameJob, NEW x \in Items, Entry(x),
         NEW path \in DestPaths(x, Top.path)
  PROVE  /\ x \notin Placed /\ x # Root /\ Parent[x] \in DOMAIN made /\ path \in Paths
         /\ \A y \in Placed : PathOf(y) # path
         /\ \E n \in Names :
              /\ path = Append(made[Parent[x]], n)
              /\ IF NeedsRename(x) THEN n \in TriesOf(x) ELSE n = NameOf[x]
<1>1. phase = "copying" /\ stack # <<>> /\ TypeOK /\ WalkInv
  BY DEF Entry, IInv
<1>2. x \notin Placed /\ x # Root /\ Parent[x] = Top.dir /\ Parent[x] \in DOMAIN made
  BY <1>1, EntryIsNew DEF Seen, Placed
<1>3. Top.path = made[Parent[x]] /\ Top.path \in Paths
  <2>1. Len(stack) \in DOMAIN stack /\ Top.path \in Paths
    BY <1>1, FrameTypes, WithoutFacts, TopType
  <2> QED BY <1>1, <1>2, <2>1 DEF PathInv, DiskInv, Top
<1>4. path \in Paths
  BY <1>1, <1>3, DestPathsType
<1>5. Renames(x) <=> NeedsRename(x)
  BY DEF Renames, NeedsRename, GameJob
<1>6. PICK n \in IF NeedsRename(x) THEN ValidNames(Top.path, NameOf[x]) ELSE {NameOf[x]} :
        path = Append(Top.path, n)
  BY <1>5 DEF DestPaths
<1>7. IF NeedsRename(x) THEN n \in TriesOf(x) ELSE n = NameOf[x]
  <2>1. CASE NeedsRename(x) /\ IsEmptyDir(Top.path)
    BY <1>6, <2>1 DEF ValidNames, TriesOf
  <2>2. CASE NeedsRename(x) /\ ~IsEmptyDir(Top.path)
    BY <1>6, <2>2, FreeName
  <2> QED BY <1>6, <2>1, <2>2
<1>8. n \in Names
  BY <1>7, NamesType
<1>9. ASSUME NEW y \in Placed, PathOf(y) = path
      PROVE  FALSE
  <2>1. y \in Siblings(x) /\ IF NeedsRename(y) THEN n \in TriesOf(y) ELSE n = NameOf[y]
    BY <1>6, <1>8, <1>9, NameTakenBySibling
  <2>2. x \in Siblings(y) /\ y \in Items \ {Root} /\ x \in Items \ {Root}
    BY <1>2, <2>1 DEF Siblings
  <2>3. CASE ~NeedsRename(x)
    BY <1>7, <2>1, <2>2, <2>3 DEF NamesApart
  <2>4. CASE NeedsRename(x)
    <3>1. Taken(Top.path, n)
      <4>1. DOMAIN disk = {logged[f].path : f \in Placed \cap Files}
        BY <1>1 DEF PathInv, DiskInv
      <4>2. CASE y \in Files
        BY <1>6, <1>9, <4>1, <4>2 DEF PathOf, Taken, Present
      <4>3. CASE y \notin Files
        BY <1>6, <1>9, <4>3 DEF Placed, PathOf, Taken, Present
      <4> QED BY <4>2, <4>3
    <3>2. ~IsEmptyDir(Top.path)
      BY <1>8, <3>1 DEF IsEmptyDir
    <3> QED BY <1>6, <2>4, <3>1, <3>2, FreeName
  <2> QED BY <2>3, <2>4
<1> QED BY <1>2, <1>3, <1>4, <1>6, <1>7, <1>8, <1>9

-----------------------------------------------------------------------------
(* PathInv is inductive: first what single pieces of a step do to it.      *)

LEMMA PlacesSame ==
  ASSUME PlacesInv, UNCHANGED <<job, logged, made>>
  PROVE  PlacesInv'
BY DEF PlacesInv, Placed, PathOf, InParent, Apart

LEMMA PlaceAdded ==
  ASSUME IInv, PathInv, NamesApart, TriesSuffice, job = GameJob,
         NEW x \in Items, Entry(x), NEW path \in DestPaths(x, Top.path),
         job' = job, Placed' = Placed \cup {x}, PathOf(x)' = path,
         \A y \in Placed : PathOf(y)' = PathOf(y),
         DOMAIN made \subseteq DOMAIN made', DOMAIN made' \subseteq DOMAIN made \cup {x},
         \A d \in DOMAIN made : made'[d] = made[d]
  PROVE  PlacesInv'
<1>1. /\ x \notin Placed /\ x # Root /\ Parent[x] \in DOMAIN made
      /\ \A y \in Placed : PathOf(y) # path
      /\ \E n \in Names :
           /\ path = Append(made[Parent[x]], n)
           /\ IF NeedsRename(x) THEN n \in TriesOf(x) ELSE n = NameOf[x]
  BY NewPlace
<1>2. Root \in DOMAIN made' => made'[Root] = <<>>
  BY <1>1 DEF PathInv, PlacesInv
<1>3. ASSUME NEW y \in Placed', y # Root
      PROVE  InParent(y)'
  <2>1. CASE y = x
    BY <1>1, <2>1 DEF InParent
  <2>2. CASE y # x
    <3>1. y \in Placed /\ InParent(y) /\ PathOf(y)' = PathOf(y)
      BY <1>3, <2>2 DEF PathInv, PlacesInv
    <3> QED BY <3>1 DEF InParent
  <2> QED BY <2>1, <2>2
<1>4. Apart'
  <2>1. ASSUME NEW y \in Placed', NEW z \in Placed', y # z
        PROVE  PathOf(y)' # PathOf(z)'
    BY <1>1, <2>1 DEF PathInv, PlacesInv, Apart
  <2> QED BY <2>1 DEF Apart
<1> QED BY <1>2, <1>3, <1>4 DEF PlacesInv

LEMMA WithoutPath ==
  ASSUME stack \in Seq(Frames), NEW x, Entry(x)
  PROVE  \A k \in DOMAIN stack : Without(x)[k].path = stack[k].path
<1> DEFINE n == Len(stack)
           top == [stack[n] EXCEPT !.rest = stack[n].rest \ {x}]
<1>1. n \in Nat /\ DOMAIN stack = 1..n /\ n \in DOMAIN stack
  BY DEF Entry
<1>2. stack[n] \in Frames
  BY <1>1
<1>3. Without(x) = [stack EXCEPT ![n] = top]
  BY DEF Without
<1>4. top.path = stack[n].path
  BY <1>2 DEF Frames
<1> HIDE DEF top
<1> QED BY <1>1, <1>3, <1>4

(* Taking an entry off the directory on top leaves all else as it was.     *)
LEMMA DiskSame ==
  ASSUME TypeOK, DiskInv, NEW x, Entry(x), stack' = Without(x),
         UNCHANGED <<job, phase, disk, logged, made>>
  PROVE  DiskInv'
<1> SUFFICES ASSUME job = GameJob, stack' # <<>>
             PROVE  /\ Root \in DOMAIN made'
                    /\ \A k \in DOMAIN stack' : stack'[k].path = made'[stack'[k].dir]
                    /\ DOMAIN disk' = {logged'[f].path : f \in Placed' \cap Files}
  BY DEF DiskInv
<1>1. phase = "copying" /\ stack # <<>> /\ stack \in Seq(Frames)
  BY FrameTypes DEF Entry
<1>2. /\ Root \in DOMAIN made
      /\ \A k \in DOMAIN stack : stack[k].path = made[stack[k].dir]
      /\ DOMAIN disk = {logged[f].path : f \in Placed \cap Files}
  BY <1>1 DEF DiskInv
<1>3. Placed' = Placed
  BY DEF Placed
<1>4. /\ DOMAIN stack' = DOMAIN stack
      /\ \A k \in DOMAIN stack : stack'[k].dir = stack[k].dir /\ stack'[k].path = stack[k].path
  BY <1>1, WithoutFacts, WithoutPath
<1>5. \A k \in DOMAIN stack' : stack'[k].path = made'[stack'[k].dir]
  BY <1>2, <1>4
<1>6. DOMAIN disk' = {logged'[f].path : f \in Placed' \cap Files}
  BY <1>2, <1>3
<1> QED BY <1>2, <1>5, <1>6

LEMMA RetrySame ==
  ASSUME RetryInv, phase = "copying", UNCHANGED <<phase, job, FAILlist, logged>>
  PROVE  RetryInv'
BY DEF RetryInv

(* How a file of a game turns out: it is always created.                   *)
LEMMA GameStores ==
  ASSUME job = GameJob, NEW f, NEW path, NEW r \in Reads, NEW w \in Writes, Store(f, path, r, w)
  PROVE  /\ disk' = Put(disk, path, [of |-> f, whole |-> r = "ok" /\ w = "ok"])
         /\ r \in {"ok", "failed"} /\ w \in {"ok", "lost"}
         /\ ~WritesFail => w = "ok"
<1>1. Generic = FALSE /\ job.from = "game" /\ job.to = "hdd"
  BY DEF Generic, GameJob
<1>2. r \in {"ok", "failed"}
  BY <1>1 DEF Reads
<1>3. w \in {"ok", "lost"} /\ (~WritesFail => w = "ok")
  BY <1>1 DEF Writes
<1> QED BY <1>2, <1>3 DEF Store

LEMMA DiskGone ==
  ASSUME stack' = <<>> \/ phase' # "copying"
  PROVE  DiskInv'
BY DEF DiskInv

(* A copy starts with nothing in place but, at most, the root.             *)
LEMMA PathReset ==
  ASSUME Reset, made' = Empty \/ made' = Put(Empty, Root, <<>>)
  PROVE  PlacesInv' /\ RetryInv' /\ \A f \in Files : f \notin Placed'
<1>1. \A f \in Files : logged'[f].what = "none"
  BY DEF Reset, None
<1>2. Root \in Dirs /\ Root \notin Files
  BY JobAssumption
<1>3. DOMAIN made' \subseteq {Root} /\ (Root \in DOMAIN made' => made'[Root] = <<>>)
  BY DEF Empty, Put
<1>4. Placed' \subseteq {Root}
  BY <1>1, <1>3 DEF Placed
<1>5. PlacesInv'
  BY <1>3, <1>4 DEF PlacesInv, Apart
<1>6. RetryInv'
  BY <1>1 DEF Reset, RetryInv, Empty
<1> QED BY <1>2, <1>4, <1>5, <1>6

LEMMA PathEnterDir ==
  ASSUME IInv, PathInv, NamesApart, TriesSuffice, NEW x \in Items, EnterDir(x)
  PROVE  PathInv'
<1>1. /\ Entry(x) /\ x \in Dirs /\ x \notin Files /\ phase = "copying" /\ stack # <<>>
      /\ UNCHANGED <<phase, job, FAILlist, logged, disk>>
  BY JobAssumption DEF EnterDir, Entry
<1>2. RetryInv'
  BY <1>1, RetrySame DEF PathInv
<1>3. SUFFICES ASSUME job = GameJob
               PROVE  PlacesInv' /\ DiskInv'
  BY <1>1, <1>2 DEF PathInv, PlacesInv, DiskInv
<1>4. PICK path \in DestPaths(x, Top.path) :
        /\ made' = Put(made, x, path)
        /\ \/ stack' = Append(Without(x), [dir |-> x, path |-> path, rest |-> Children(x)])
           \/ stack' = Without(x)
  BY <1>1, <1>3 DEF EnterDir, OpenDir, GameJob
<1>5. /\ TypeOK /\ WalkInv /\ stack \in Seq(Frames)
      /\ x \notin Placed /\ x # Root /\ x \notin DOMAIN made
  BY <1>1, FrameTypes, EntryIsNew DEF IInv, Seen, Placed
<1>6. /\ DOMAIN made' = DOMAIN made \cup {x} /\ made'[x] = path
      /\ \A d \in DOMAIN made : made'[d] = made[d]
  BY <1>4, <1>5 DEF Put
<1>7. Placed' = Placed \cup {x} /\ Placed' \cap Files = Placed \cap Files
  BY <1>1, <1>6 DEF Placed
<1>8. /\ PathOf(x)' = path
      /\ \A y \in Placed : PathOf(y)' = PathOf(y)
  <2>1. DOMAIN made \subseteq Dirs
    BY <1>5 DEF TypeOK
  <2> QED BY <1>1, <1>6, <2>1 DEF PathOf, Placed
<1>9. PlacesInv'
  BY <1>1, <1>3, <1>4, <1>6, <1>7, <1>8, PlaceAdded
<1>10. /\ Root \in DOMAIN made
       /\ \A k \in DOMAIN stack : stack[k].path = made[stack[k].dir]
                                  /\ stack[k].dir \in DOMAIN made
       /\ DOMAIN disk = {logged[f].path : f \in Placed \cap Files}
  BY <1>1, <1>3, <1>5 DEF PathInv, DiskInv, WalkInv
<1>11. \A k \in DOMAIN stack :
         Without(x)[k].dir \in DOMAIN made /\ Without(x)[k].path = made[Without(x)[k].dir]
  <2>1. /\ \A k \in DOMAIN stack : Without(x)[k].dir = stack[k].dir
        /\ \A k \in DOMAIN stack : Without(x)[k].path = stack[k].path
    BY <1>1, <1>5, WithoutFacts, WithoutPath
  <2> QED BY <1>10, <2>1
<1>12. \A k \in DOMAIN stack' : stack'[k].path = made'[stack'[k].dir]
  <2>1. Without(x) \in Seq(Frames) /\ DOMAIN Without(x) = DOMAIN stack
    BY <1>1, <1>5, TopType, WithoutFacts
  <2>2. CASE stack' = Without(x)
    BY <1>6, <1>11, <2>1, <2>2
  <2>3. CASE stack' = Append(Without(x), [dir |-> x, path |-> path, rest |-> Children(x)])
    <3> DEFINE frame == [dir |-> x, path |-> path, rest |-> Children(x)]
               n == Len(Without(x))
    <3>1. frame.dir = x /\ frame.path = path
      OBVIOUS
    <3> HIDE DEF frame
    <3>2. stack' = Append(Without(x), frame)
      BY <2>3 DEF frame
    <3>3. n \in Nat /\ DOMAIN Without(x) = 1..n
      BY <2>1
    <3>4. /\ DOMAIN stack' = 1..(n + 1) /\ stack'[n + 1] = frame
          /\ \A k \in 1..n : stack'[k] = Without(x)[k]
      BY <2>1, <3>2, <3>3
    <3>5. \A k \in 1..(n + 1) : k \in 1..n \/ k = n + 1
      BY <3>3, LastOrBefore
    <3>6. \A k \in 1..n : stack'[k].path = made'[stack'[k].dir]
      BY <1>6, <1>11, <2>1, <3>3, <3>4
    <3> QED BY <1>6, <3>1, <3>4, <3>5, <3>6
  <2> QED BY <1>4, <2>2, <2>3
<1>13. Root \in DOMAIN made' /\ DOMAIN disk' = {logged'[f].path : f \in Placed' \cap Files}
  BY <1>1, <1>6, <1>7, <1>10
<1>14. DiskInv'
  BY <1>12, <1>13 DEF DiskInv
<1> QED BY <1>9, <1>14

LEMMA PathCopyItem ==
  ASSUME IInv, PathInv, NamesApart, TriesSuffice, NEW x \in Items, CopyItem(x)
  PROVE  PathInv'
<1>1. /\ Entry(x) /\ x \in Files /\ x \notin Dirs /\ phase = "copying" /\ stack # <<>>
      /\ stack' = Without(x)
      /\ UNCHANGED <<phase, job, made>>
  BY JobAssumption DEF CopyItem, Entry
<1>2. PICK path \in DestPaths(x, Top.path), r \in Reads, w \in Writes :
        /\ Store(x, path, r, w)
        /\ \/ /\ logged' = [logged EXCEPT ![x] = [what |-> "copied", path |-> path]]
              /\ UNCHANGED FAILlist
           \/ /\ logged' = [logged EXCEPT ![x] = [what |-> "failed", path |-> path]]
              /\ FAILlist' = IF KeepsLists THEN ListFailure(x, path) ELSE FAILlist
  BY DEF CopyItem
<1>3. SUFFICES ASSUME job = GameJob
               PROVE  PlacesInv' /\ DiskInv' /\ RetryInv'
  BY <1>1 DEF PathInv, PlacesInv, DiskInv, RetryInv
<1>4. /\ TypeOK /\ WalkInv /\ ListInv /\ stack \in Seq(Frames) /\ LoggedOK
      /\ x \notin Placed /\ x # Root
  BY <1>1, FrameTypes, EntryIsNew DEF IInv, Seen, Placed
<1>5. PICK v \in {"copied", "failed"} :
        logged' = [logged EXCEPT ![x] = [what |-> v, path |-> path]]
  BY <1>2
<1>6. /\ logged'[x].what # "none" /\ logged'[x].path = path
      /\ \A f \in Files : f # x => logged'[f] = logged[f]
  <2> DEFINE entry == [what |-> v, path |-> path]
  <2>1. entry.what = v /\ entry.path = path
    OBVIOUS
  <2> HIDE DEF entry
  <2>2. logged' = [logged EXCEPT ![x] = entry]
    BY <1>5 DEF entry
  <2> QED BY <1>1, <1>4, <2>1, <2>2 DEF LoggedOK
<1>7. Placed' = Placed \cup {x} /\ Placed' \cap Files = (Placed \cap Files) \cup {x}
  BY <1>1, <1>6 DEF Placed
<1>8. PathOf(x)' = path /\ \A y \in Placed : PathOf(y)' = PathOf(y)
  BY <1>1, <1>4, <1>6 DEF PathOf
<1>9. PlacesInv'
  BY <1>1, <1>3, <1>7, <1>8, PlaceAdded
<1>10. DiskInv'
  <2>1. /\ Root \in DOMAIN made
        /\ \A k \in DOMAIN stack : stack[k].path = made[stack[k].dir]
        /\ DOMAIN disk = {logged[f].path : f \in Placed \cap Files}
    BY <1>1, <1>3 DEF PathInv, DiskInv
  <2>2. DOMAIN disk' = DOMAIN disk \cup {path}
    BY <1>2, <1>3, GameStores, ZenonT(30) DEF Put
  <2>3. DOMAIN disk' = {logged'[f].path : f \in Placed' \cap Files}
    <3>1. \A f \in Placed \cap Files : logged'[f].path = logged[f].path
      BY <1>4, <1>6
    <3> QED BY <1>6, <1>7, <2>1, <2>2, <3>1
  <2>4. /\ DOMAIN stack' = DOMAIN stack
        /\ \A k \in DOMAIN stack : stack'[k].dir = stack[k].dir /\ stack'[k].path = stack[k].path
    BY <1>1, <1>4, WithoutFacts, WithoutPath
  <2>5. \A k \in DOMAIN stack' : stack'[k].path = made'[stack'[k].dir]
    BY <1>1, <2>1, <2>4
  <2> QED BY <1>1, <2>1, <2>3, <2>5 DEF DiskInv
<1>11. RetryInv'
  <2>1. \A f \in DOMAIN FAILlist : f \in Files /\ f # x /\ FAILlist[f] = logged[f].path
    BY <1>1, <1>3, <1>4 DEF PathInv, RetryInv, ListInv, Logged, Placed
  <2>2. FAILlist' = FAILlist \/ FAILlist' = Put(FAILlist, x, path)
    BY <1>2 DEF ListFailure
  <2>3. \A f \in DOMAIN FAILlist' : FAILlist'[f] = logged'[f].path
    BY <1>6, <2>1, <2>2 DEF Put
  <2> QED BY <1>1, <2>3 DEF RetryInv
<1> QED BY <1>9, <1>10, <1>11

LEMMA PathRetryItem ==
  ASSUME IInv, PathInv, NEW f \in Files, RetryItem(f)
  PROVE  PathInv'
<1>1. /\ phase = "retrying" /\ f \in left
      /\ UNCHANGED <<phase, job, stack, FAILlist, made>>
  BY DEF RetryItem, lists
<1>2. /\ LoggedOK /\ ListInv /\ f \in Logged("failed") /\ left \subseteq DOMAIN FAILlist
  BY <1>1, FrameTypes DEF IInv, ListInv, TypeOK
<1>3. /\ \A g \in Files : logged'[g].path = logged[g].path
      /\ \A g \in Files : logged'[g].what # "none" <=> logged[g].what # "none"
  <2>1. logged' = logged \/ logged' = [logged EXCEPT ![f].what = "copied"]
    BY DEF RetryItem
  <2>2. logged[f].what # "none"
    BY <1>2 DEF Logged
  <2>3. CASE logged' = [logged EXCEPT ![f].what = "copied"]
    <3> DEFINE entry == [logged[f] EXCEPT !.what = "copied"]
    <3>1. entry.what = "copied" /\ entry.path = logged[f].path
      BY <1>2 DEF LoggedOK
    <3> HIDE DEF entry
    <3>2. logged' = [logged EXCEPT ![f] = entry]
      BY <2>3 DEF entry
    <3> QED BY <1>2, <2>2, <3>1, <3>2 DEF LoggedOK
  <2> QED BY <2>1, <2>3
<1>4. Placed' = Placed
  BY <1>1, <1>3 DEF Placed
<1>5. \A y \in Items : PathOf(y)' = PathOf(y)
  BY <1>1, <1>3 DEF PathOf
<1>6. PlacesInv'
  <2>1. Placed \subseteq Items
    BY PlacedTypes DEF IInv
  <2> QED BY <1>1, <1>4, <1>5, <2>1 DEF PathInv, PlacesInv, InParent, Apart
<1>7. DiskInv'
  BY <1>1, DiskGone
<1>8. RetryInv'
  <2>1. ASSUME job = GameJob
        PROVE  /\ \A g \in DOMAIN FAILlist' : FAILlist'[g] = logged'[g].path
               /\ \A g \in DOMAIN temp_FAILlist' : temp_FAILlist'[g] = logged'[g].path
    <3>1. /\ \A g \in DOMAIN FAILlist : g \in Files /\ FAILlist[g] = logged[g].path
          /\ \A g \in DOMAIN temp_FAILlist : g \in Files /\ temp_FAILlist[g] = logged[g].path
      BY <1>1, <2>1 DEF PathInv, RetryInv, IInv, TypeOK, IsList
    <3>2. temp_FAILlist' = temp_FAILlist \/ temp_FAILlist' = Put(temp_FAILlist, f, FAILlist[f])
      BY DEF RetryItem
    <3> QED BY <1>1, <1>2, <1>3, <3>1, <3>2 DEF Put
  <2> QED BY <1>1, <2>1 DEF PathInv, RetryInv
<1> QED BY <1>6, <1>7, <1>8 DEF PathInv

LEMMA PathInvNext ==
  ASSUME NamesApart, TriesSuffice
  PROVE  IInv /\ PathInv /\ [Next]_vars => PathInv'
<1> SUFFICES ASSUME IInv, PathInv, [Next]_vars
             PROVE  PathInv'
  OBVIOUS
<1> USE DEF PathInv
<1>1. CASE CopyTree
  <2>1. PlacesInv' /\ RetryInv' /\ \A f \in Files : f \notin Placed'
    BY <1>1, PathReset DEF CopyTree
  <2>2. CASE stack' = <<>>
    BY <2>1, <2>2, DiskGone
  <2>3. CASE stack' = <<[dir |-> Root, path |-> <<>>, rest |-> Children(Root)]>>
    <3>1. DOMAIN stack' = {1} /\ stack'[1].dir = Root /\ stack'[1].path = <<>>
      BY <2>3
    <3>2. made'[Root] = <<>> /\ Root \in DOMAIN made' /\ DOMAIN disk' = {}
      BY <1>1 DEF CopyTree, Put, Empty
    <3>3. Placed' \cap Files = {}
      BY <2>1
    <3>4. DiskInv'
      BY <3>1, <3>2, <3>3 DEF DiskInv
    <3> QED BY <2>1, <3>4
  <2> QED BY <1>1, <2>2, <2>3 DEF CopyTree
<1>2. ASSUME NEW f \in Files, CopySingle(f)
      PROVE  PathInv'
  BY <1>2, PathReset, DiskGone DEF CopySingle
<1>3. CASE CopyFailed
  <2>1. PlacesInv'
    BY <1>3, PlacesSame DEF CopyFailed
  <2>2. DiskInv'
    BY <1>3, DiskGone DEF CopyFailed
  <2>3. RetryInv'
    BY <1>3 DEF CopyFailed, RetryInv, Empty, lists
  <2> QED BY <2>1, <2>2, <2>3
<1>4. ASSUME NEW x \in Items, ExcludeItem(x)
      PROVE  PathInv'
  <2>1. TypeOK /\ Entry(x) /\ phase = "copying" /\ stack' = Without(x)
        /\ UNCHANGED <<phase, job, disk, logged, made, FAILlist>>
    BY <1>4 DEF ExcludeItem, Entry, IInv
  <2> QED BY <2>1, PlacesSame, DiskSame, RetrySame
<1>5. ASSUME NEW x \in Items, EnterDir(x)
      PROVE  PathInv'
  BY <1>5, PathEnterDir
<1>6. ASSUME NEW x \in Items, CopyItem(x)
      PROVE  PathInv'
  BY <1>6, PathCopyItem
<1>7. CASE LeaveDir
  <2>1. /\ phase = "copying" /\ stack # <<>> /\ stack \in Seq(Frames)
        /\ stack' = SubSeq(stack, 1, Len(stack) - 1)
        /\ UNCHANGED <<phase, job, disk, logged, made, FAILlist>>
    BY <1>7, FrameTypes DEF LeaveDir, lists, IInv
  <2>2. DOMAIN stack' \subseteq DOMAIN stack /\ \A k \in DOMAIN stack' : stack'[k] = stack[k]
    BY <2>1
  <2>3. Placed' = Placed
    BY <2>1 DEF Placed
  <2>4. DiskInv'
    BY <2>1, <2>2, <2>3 DEF DiskInv
  <2> QED BY <2>1, <2>4, PlacesSame, RetrySame
<1>8. CASE Finish
  <2>1. PlacesInv'
    BY <1>8, PlacesSame DEF Finish
  <2>2. DiskInv' /\ RetryInv'
    BY <1>8, DiskGone DEF Finish, RetryInv, lists
  <2> QED BY <2>1, <2>2
<1>9. ASSUME NEW f \in Files, RetryItem(f)
      PROVE  PathInv'
  BY <1>9, PathRetryItem
<1>10. CASE FinishRetry
  <2>1. PlacesInv'
    BY <1>10, PlacesSame DEF FinishRetry
  <2>2. DiskInv' /\ RetryInv'
    BY <1>10, DiskGone DEF FinishRetry, RetryInv
  <2> QED BY <2>1, <2>2
<1>11. CASE UNCHANGED vars
  BY <1>11 DEF vars, lists, retry, PlacesInv, DiskInv, RetryInv, Placed, PathOf, InParent, Apart
<1> QED
  BY <1>1, <1>2, <1>3, <1>4, <1>5, <1>6, <1>7, <1>8, <1>9, <1>10, <1>11
     DEF Next, ThreadStep

LEMMA PathInvInit == Init => PathInv
<1> SUFFICES ASSUME Init
             PROVE  PathInv
  OBVIOUS
<1>1. Placed = {} /\ DOMAIN made = {} /\ DOMAIN FAILlist = {}
  BY DEF Init, Placed, None, Empty
<1> QED BY <1>1 DEF Init, PathInv, PlacesInv, DiskInv, RetryInv, Apart

(* How the first pass and a retry leave what was copied.                   *)
LEMMA GameIsThereNext ==
  ASSUME NamesApart, TriesSuffice, ~WritesFail
  PROVE  IInv /\ PathInv /\ GameIsThere /\ [Next]_vars => GameIsThere'
<1> SUFFICES ASSUME IInv, PathInv, GameIsThere, [Next]_vars, job' = GameJob
             PROVE  CopiedIsThere'
  BY DEF GameIsThere, GameJob
<1> USE DEF GameIsThere, CopiedIsThere
<1>1. LoggedOK
  BY FrameTypes DEF IInv
<1>2. ASSUME Reset
      PROVE  CopiedIsThere'
  <2>1. Logged("copied")' = {}
    BY <1>2 DEF Reset, None, Logged
  <2> QED BY <2>1
<1>3. ASSUME UNCHANGED <<job, logged, disk>>
      PROVE  CopiedIsThere'
  BY <1>3 DEF GameJob, Logged, IsThere
<1>4. ASSUME NEW x \in Items, CopyItem(x)
      PROVE  CopiedIsThere'
  <2>1. job = GameJob /\ Entry(x) /\ x \in Files
    BY <1>4 DEF CopyItem
  <2>2. PICK path \in DestPaths(x, Top.path), r \in Reads, w \in Writes :
          /\ Store(x, path, r, w)
          /\ \/ /\ Succeeds(r, w)
                /\ logged' = [logged EXCEPT ![x] = [what |-> "copied", path |-> path]]
             \/ logged' = [logged EXCEPT ![x] = [what |-> "failed", path |-> path]]
    BY <1>4 DEF CopyItem
  <2>3. /\ disk' = Put(disk, path, [of |-> x, whole |-> r = "ok" /\ w = "ok"])
        /\ r \in {"ok", "failed"} /\ w = "ok"
    BY <2>1, <2>2, GameStores
  <2>4. \A y \in Placed : PathOf(y) # path
    BY <2>1, NewPlace
  <2>5. ASSUME NEW g \in Files, logged'[g].what = "copied"
        PROVE  IsThere(g)'
    <3>1. CASE g = x
      <4>1. r = "ok" /\ logged'[x].path = path
        <5>1. CASE logged' = [logged EXCEPT ![x] = [what |-> "failed", path |-> path]]
          <6>1. logged'[x].what = "failed"
            BY <1>1, <2>1, <5>1 DEF LoggedOK
          <6> QED BY <2>5, <3>1, <6>1
        <5>2. CASE /\ Succeeds(r, w)
                   /\ logged' = [logged EXCEPT ![x] = [what |-> "copied", path |-> path]]
          <6>1. logged'[x].path = path
            BY <1>1, <2>1, <5>2 DEF LoggedOK
          <6> QED BY <2>3, <5>2, <6>1 DEF Succeeds
        <5> QED BY <2>2, <5>1, <5>2
      <4>2. disk' = Put(disk, path, [of |-> x, whole |-> TRUE])
        BY <2>3, <4>1
      <4> QED BY <3>1, <4>1, <4>2 DEF IsThere, Put
    <3>2. CASE g # x
      <4>1. logged'[g] = logged[g]
        BY <1>1, <2>2, <3>2 DEF LoggedOK
      <4>2. g \in Placed /\ PathOf(g) = logged[g].path /\ IsThere(g)
        BY <2>1, <2>5, <4>1 DEF Placed, PathOf, Logged, GameJob
      <4>3. logged[g].path # path
        BY <2>4, <4>2
      <4> QED BY <2>3, <4>1, <4>2, <4>3 DEF IsThere, Put
    <3> QED BY <3>1, <3>2
  <2> QED BY <2>5 DEF Logged
<1>5. ASSUME NEW f \in Files, RetryItem(f)
      PROVE  CopiedIsThere'
  <2>1. job = GameJob /\ phase = "retrying" /\ f \in left /\ left \subseteq DOMAIN FAILlist
    BY <1>5 DEF RetryItem, IInv, TypeOK
  <2>2. f \in Logged("failed") /\ FAILlist[f] = logged[f].path
    BY <2>1 DEF IInv, ListInv, PathInv, RetryInv
  <2>3. PICK r \in Reads, w \in Writes :
          /\ Store(f, FAILlist[f], r, w)
          /\ \/ Succeeds(r, w) /\ logged' = [logged EXCEPT ![f].what = "copied"]
             \/ logged' = logged
    BY <1>5, <2>1 DEF RetryItem, GameJob
  <2>4. /\ disk' = Put(disk, FAILlist[f], [of |-> f, whole |-> r = "ok" /\ w = "ok"])
        /\ r \in {"ok", "failed"} /\ w = "ok"
    BY <2>1, <2>3, GameStores
  <2>5. ASSUME NEW g \in Files, logged'[g].what = "copied"
        PROVE  IsThere(g)'
    <3>1. CASE g = f
      <4>1. logged[f].what # "copied"
        BY <2>2 DEF Logged
      <4>2. Succeeds(r, w) /\ logged' = [logged EXCEPT ![f].what = "copied"]
        BY <2>3, <2>5, <3>1, <4>1
      <4>3. logged'[f].path = logged[f].path
        BY <1>1, <4>2 DEF LoggedOK
      <4>4. disk' = Put(disk, FAILlist[f], [of |-> f, whole |-> TRUE])
        BY <2>4, <4>2 DEF Succeeds
      <4> QED BY <2>2, <3>1, <4>3, <4>4 DEF IsThere, Put
    <3>2. CASE g # f
      <4>1. logged'[g] = logged[g]
        BY <1>1, <2>3, <3>2 DEF LoggedOK
      <4>2. IsThere(g) /\ g \in Placed /\ PathOf(g) = logged[g].path
        BY <2>1, <2>5, <4>1 DEF Placed, PathOf, Logged, GameJob
      <4>3. f \in Placed /\ PathOf(f) = logged[f].path
        BY <2>2 DEF Placed, PathOf, Logged
      <4>4. logged[g].path # FAILlist[f]
        BY <2>1, <2>2, <3>2, <4>2, <4>3 DEF PathInv, PlacesInv, Apart
      <4> QED BY <2>4, <4>1, <4>2, <4>4 DEF IsThere, Put
    <3> QED BY <3>1, <3>2
  <2> QED BY <2>5 DEF Logged
<1>6. CASE CopyTree
  BY <1>2, <1>6 DEF CopyTree
<1>7. ASSUME NEW f \in Files, CopySingle(f)
      PROVE  CopiedIsThere'
  BY <1>2, <1>7 DEF CopySingle
<1>8. ASSUME NEW x \in Items, ExcludeItem(x) \/ EnterDir(x)
      PROVE  CopiedIsThere'
  BY <1>3, <1>8 DEF ExcludeItem, EnterDir
<1>9. CASE CopyFailed \/ LeaveDir \/ Finish \/ FinishRetry \/ UNCHANGED vars
  BY <1>3, <1>9 DEF CopyFailed, LeaveDir, Finish, FinishRetry, vars
<1> QED
  BY <1>4, <1>5, <1>6, <1>7, <1>8, <1>9 DEF Next, ThreadStep

LEMMA PathInvAlways == ASSUME NamesApart, TriesSuffice
                       PROVE  Spec => []PathInv
<1>1. IInv /\ PathInv /\ [Next]_vars => PathInv'
  BY PathInvNext
<1> QED BY PathInvInit, <1>1, IInvAlways, PTL DEF Spec

(* Every file of a game that is reported as copied to hard disk is there,  *)
(* whole, with the name the log gives it, as long as the disk has room.    *)
THEOREM GameIsThereCorrect ==
  ASSUME NamesApart, TriesSuffice, ~WritesFail
  PROVE  Spec => []GameIsThere
<1>1. Init => GameIsThere
  BY DEF Init, GameIsThere, CopiedIsThere, Logged, None
<1>2. IInv /\ PathInv /\ GameIsThere /\ [Next]_vars => GameIsThere'
  BY GameIsThereNext
<1> QED BY <1>1, <1>2, IInvAlways, PathInvAlways, PTL DEF Spec

-----------------------------------------------------------------------------
(* The retry.                                                              *)

(* Only the walks of games and of copies that involve a share leave a list *)
(* to retry, and no retry is offered for a copy from a share.              *)
LEMMA WhatIsRetried ==
  ASSUME IInv, RetryInv, NEW f \in Files, RetryItem(f)
  PROVE  /\ phase = "retrying" /\ f \in Logged("failed") /\ f \in DOMAIN FAILlist
         /\ job.to = "net" \/ job = GameJob
<1>1. phase = "retrying" /\ f \in left
  BY DEF RetryItem
<1>2. f \in Logged("failed") /\ KeepsLists
  BY <1>1 DEF IInv, ListInv
<1>3. job \in [from : Sources, to : Targets] /\ left \subseteq DOMAIN FAILlist
  BY <1>1 DEF IInv, TypeOK
<1>4. job.from # "net"
  BY <1>1 DEF RetryInv
<1>5. ASSUME job.to # "net"
      PROVE  job = GameJob
  <2>1. job.to = "hdd" /\ job.from = "game"
    BY <1>2, <1>3, <1>4, <1>5 DEF KeepsLists, Generic, Targets
  <2> QED BY <1>3, <2>1 DEF GameJob
<1> QED BY <1>1, <1>2, <1>3, <1>5

KeepsCopies ==
  phase = "retrying" =>
    \A f \in Logged("copied") : IsThere(f) => IsThere(f)' /\ logged'[f] = logged[f]

LEMMA RetryItemKeepsCopies ==
  ASSUME IInv, PathInv, NEW g \in Files, RetryItem(g)
  PROVE  KeepsCopies
<1>1. /\ LoggedOK /\ g \in Logged("failed") /\ g \in DOMAIN FAILlist
      /\ job.to = "net" \/ job = GameJob
  BY FrameTypes, WhatIsRetried DEF IInv, PathInv
<1>2. SUFFICES ASSUME NEW f \in Logged("copied"), IsThere(f)
               PROVE  IsThere(f)' /\ logged'[f] = logged[f]
  BY DEF KeepsCopies
<1>3. f \in Files /\ f # g
  BY <1>1 DEF Logged
<1>4. logged'[f] = logged[f]
  BY <1>1, <1>3 DEF RetryItem, LoggedOK
<1>5. CASE job.to = "net"
  BY <1>2, <1>4, <1>5 DEF RetryItem, IsThere
<1>6. CASE job = GameJob
  <2>1. PICK r \in Reads, w \in Writes : Store(g, FAILlist[g], r, w)
    BY <1>6 DEF RetryItem, GameJob
  <2>2. PICK c : disk' = Put(disk, FAILlist[g], c)
    BY <1>6, <2>1, GameStores
  <2>3. FAILlist[g] = logged[g].path
    BY <1>1, <1>6 DEF PathInv, RetryInv
  <2>4. logged[f].path # logged[g].path
    <3>1. f \in Placed /\ g \in Placed /\ PathOf(f) = logged[f].path /\ PathOf(g) = logged[g].path
      BY <1>1, <1>3 DEF Placed, PathOf, Logged
    <3> QED BY <1>3, <1>6, <3>1 DEF PathInv, PlacesInv, Apart
  <2> QED BY <1>2, <1>4, <2>2, <2>3, <2>4 DEF IsThere, Put
<1> QED BY <1>1, <1>4, <1>5, <1>6

(* A retry leaves what was copied alone, in the log and at its             *)
(* destination, for every kind of copy, even where the disk is full.       *)
THEOREM RetryKeepsCopiesCorrect ==
  ASSUME NamesApart, TriesSuffice
  PROVE  Spec => RetryKeepsCopies
<1>1. IInv /\ PathInv /\ [Next]_vars => [KeepsCopies]_vars
  <2> SUFFICES ASSUME IInv, PathInv, Next, phase = "retrying"
               PROVE  KeepsCopies
    BY DEF KeepsCopies
  <2>1. \/ \E g \in Files : RetryItem(g)
        \/ FinishRetry
    BY DEF Next, ThreadStep, CopyTree, CopySingle, Reset, CopyFailed, ExcludeItem, EnterDir,
           CopyItem, Entry, LeaveDir, Finish
  <2>2. CASE FinishRetry
    BY <2>2 DEF FinishRetry, KeepsCopies, IsThere
  <2> QED BY <2>1, <2>2, RetryItemKeepsCopies
<1> QED BY <1>1, IInvAlways, PathInvAlways, PTL DEF Spec, RetryKeepsCopies, KeepsCopies
====
