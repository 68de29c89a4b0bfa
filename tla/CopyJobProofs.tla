---------------------------- MODULE CopyJobProofs ----------------------------
(* Proofs about the copy of a disc, for any tree of files.                 *)
EXTENDS CopyJob, FiniteSetTheorems, TLAPS

(* What the walk has dealt with: renamed, copied or not, or opened.        *)
Seen(x) ==
  \/ x \in RENlist
  \/ x \in Files /\ logged[x].what # "none"
  \/ x \in DOMAIN made /\ x # Root

(* No directory is on the stack twice, and what the walk has dealt with it *)
(* does not meet again.                                                    *)
WalkInv ==
  phase = "copying" =>
    /\ \A i \in DOMAIN stack :
         stack[i].rest \subseteq Children(stack[i].dir) /\ stack[i].dir \in DOMAIN made
    /\ \A i, j \in DOMAIN stack : stack[i].dir = stack[j].dir => i = j
    /\ \A x \in Items : Seen(x) =>
         /\ x # Root /\ Parent[x] \in DOMAIN made
         /\ \A i \in DOMAIN stack : x \notin stack[i].rest

(* FAILlist is the list of what failed; in a retry, the iterator and the   *)
(* new list together are.                                                  *)
ListInv ==
  LET failed == IF KeepsLists THEN Logged("failed") ELSE {} IN
  /\ phase # "retrying" => DOMAIN FAILlist = failed
  /\ phase = "retrying" =>
       left \cap DOMAIN temp_FAILlist = {} /\ left \cup DOMAIN temp_FAILlist = failed

IInv == TypeOK /\ WalkInv /\ ListInv /\ ReportMatchesLog
-----------------------------------------------------------------------------
LEMMA TypeOKInit == Init => TypeOK
BY JobAssumption
   DEF Init, TypeOK, Sources, Targets, IsList, Empty, None, Verdicts, Paths

LEMMA PutList == ASSUME NEW l, IsList(l), NEW f \in Files, NEW p \in Paths
                 PROVE IsList(Put(l, f, p)) /\ DOMAIN Put(l, f, p) = DOMAIN l \cup {f}
BY DEF IsList, Put

LEMMA PathsAreFinite == \A dir \in Paths, n \in Names : Append(dir, n) \in Paths
BY DEF Paths

LEMMA DestPathsType ==
  ASSUME TypeOK, NEW x \in Items, NEW dir \in Paths
  PROVE  DestPaths(x, dir) \subseteq Paths
<1>1. NameOf[x] \in Names /\ Tries[NameOf[x]] \in Seq(Names) BY JobAssumption
<1>2. ValidNames(dir, NameOf[x]) \subseteq Names
  <2> DEFINE tries == Tries[NameOf[x]]
  <2>1. tries \in Seq(Names) /\ tries # <<>> BY <1>1, JobAssumption
  <2>2. tries[Len(tries)] \in Names BY <2>1
  <2>3. \A i \in DOMAIN tries : tries[i] \in Names BY <2>1
  <2>4. QED BY <2>2, <2>3 DEF ValidNames
<1>3. QED BY <1>1, <1>2 DEF DestPaths, Paths

(* The parts of TypeOK that need a proof of their own.                     *)
Frames == [dir : Dirs, path : Paths, rest : SUBSET Items]
DiskOK == DOMAIN disk \subseteq Paths /\ \A p \in DOMAIN disk : disk[p] \in Contents
MadeOK == DOMAIN made \subseteq Dirs /\ \A d \in DOMAIN made : made[d] \in Paths
LoggedOK == logged \in [Files -> [what : Verdicts, path : Paths]]

LEMMA LastOrBefore == \A n \in Nat : \A i \in 1..(n + 1) : i \in 1..n \/ i = n + 1
OBVIOUS

LEMMA PushType == ASSUME NEW S, NEW s \in Seq(S), NEW e \in S
                  PROVE  Append(s, e) \in Seq(S)
OBVIOUS

LEMMA PopType == ASSUME NEW S, NEW s \in Seq(S), s # <<>>
                 PROVE  SubSeq(s, 1, Len(s) - 1) \in Seq(S)
<1>1. Len(s) - 1 \in Nat /\ Len(s) - 1 <= Len(s) OBVIOUS
<1>2. \A i \in 1..(Len(s) - 1) : s[i] \in S BY <1>1
<1>3. SubSeq(s, 1, Len(s) - 1) = [i \in 1..(Len(s) - 1) |-> s[i]] BY <1>1
<1>4. QED BY <1>1, <1>2, <1>3

LEMMA TopType ==
  ASSUME stack \in Seq(Frames), NEW x, Entry(x)
  PROVE  Top \in Frames /\ Top.path \in Paths /\ Top.dir \in Dirs
         /\ Top.rest \in SUBSET Items /\ Without(x) \in Seq(Frames)
<1>1. Len(stack) \in DOMAIN stack BY DEF Entry
<1>2. Top \in Frames BY <1>1 DEF Top
<1>3. Top.path \in Paths /\ Top.dir \in Dirs /\ Top.rest \in SUBSET Items
  BY <1>2 DEF Frames
<1>4. [Top EXCEPT !.rest = Top.rest \ {x}] \in Frames BY <1>2 DEF Frames
<1>5. Without(x) = [stack EXCEPT ![Len(stack)] = [Top EXCEPT !.rest = Top.rest \ {x}]]
  BY DEF Without, Top
<1>6. Without(x) \in Seq(Frames) BY <1>1, <1>4, <1>5
<1>7. QED BY <1>2, <1>3, <1>6

LEMMA StoreType ==
  ASSUME DiskOK, NEW f \in Files, NEW p \in Paths, NEW r, NEW w, Store(f, p, r, w)
  PROVE  DiskOK'
<1> DEFINE c == [of |-> f, whole |-> r = "ok" /\ w = "ok"]
<1>1. c \in Contents BY DEF Contents
<1>2. CASE "refused" \in {r, w} BY <1>2 DEF Store, DiskOK
<1>3. CASE ~("refused" \in {r, w})
  <2>1. disk' = Put(disk, p, c) BY <1>3 DEF Store
  <2> HIDE DEF c
  <2>2. QED BY <1>1, <2>1 DEF Put, DiskOK
<1>4. QED BY <1>2, <1>3

LEMMA MadeType ==
  ASSUME MadeOK, NEW d \in Dirs, NEW p \in Paths, made' = Put(made, d, p)
  PROVE  MadeOK'
BY DEF MadeOK, Put

LEMMA LoggedType ==
  ASSUME LoggedOK, NEW f \in Files, NEW v \in Verdicts, NEW p \in Paths
  PROVE  [logged EXCEPT ![f] = [what |-> v, path |-> p]]
           \in [Files -> [what : Verdicts, path : Paths]]
BY DEF LoggedOK

LEMMA TypeOKNext == TypeOK /\ [Next]_vars => TypeOK'
<1> SUFFICES ASSUME TypeOK, [Next]_vars PROVE TypeOK'
  OBVIOUS
<1> USE JobAssumption DEF lists, counters, retry
<1>0. /\ DiskOK /\ MadeOK /\ LoggedOK /\ stack \in Seq(Frames)
      /\ Frames = [dir : Dirs, path : Paths, rest : SUBSET Items]
  BY DEF TypeOK, DiskOK, MadeOK, LoggedOK, Frames
<1>a. ASSUME Reset
      PROVE /\ phase' = "copying" /\ job' \in [from : Sources, to : Targets]
            /\ copy_ok' \in Nat /\ copy_failed' \in Nat /\ copy_renamed' \in Nat
            /\ IsList(FAILlist') /\ IsList(temp_FAILlist') /\ RENlist' \subseteq Items
            /\ left' \subseteq Files /\ LoggedOK'
  <2>1. None \in [what : Verdicts, path : Paths] BY DEF None, Verdicts, Paths
  <2>2. LoggedOK' BY <1>a, <2>1 DEF Reset, LoggedOK
  <2>3. IsList(FAILlist') BY <1>a DEF Reset, IsList, Empty
  <2>4. QED BY <1>a, <2>2, <2>3 DEF Reset, TypeOK
<1>b. ASSUME NEW x \in Items, Entry(x)
      PROVE /\ Top.path \in Paths
            /\ Without(x) \in Seq(Frames)
            /\ DestPaths(x, Top.path) \subseteq Paths
  BY <1>b, <1>0, TopType, DestPathsType
<1>c. ASSUME NEW x \in Items, Rename(x)
      PROVE RENlist' \subseteq Items /\ copy_renamed' \in Nat
  BY <1>c DEF Rename, TypeOK
<1>1. CASE CopyTree
  <2>1. Children(Root) \in SUBSET Items BY DEF Children
  <2>2. [dir |-> Root, path |-> <<>>, rest |-> Children(Root)] \in Frames
    BY <2>1 DEF Frames, Paths
  <2> DEFINE root == [dir |-> Root, path |-> <<>>, rest |-> Children(Root)]
  <2>3. stack' \in Seq(Frames)
    <3>1. stack' = <<root>> \/ stack' = <<>> BY <1>1 DEF CopyTree
    <3>2. root \in Frames BY <2>2
    <3> HIDE DEF root
    <3>3. <<root>> \in Seq(Frames) /\ <<>> \in Seq(Frames) BY <3>2
    <3>4. QED BY <3>1, <3>3
  <2>4. DiskOK' /\ MadeOK' BY <1>1 DEF CopyTree, DiskOK, MadeOK, Put, Empty, Paths
  <2>5. QED BY <1>1, <1>0, <1>a, <2>3, <2>4 DEF CopyTree, TypeOK, DiskOK, MadeOK, LoggedOK
<1>2. ASSUME NEW f \in Files, CopySingle(f) PROVE TypeOK'
  <2>1. <<Fatx[NameOf[f]]>> \in Paths BY DEF Paths, Items
  <2>2. PICK whole \in BOOLEAN :
          disk' = Put(Empty, <<Fatx[NameOf[f]]>>, [of |-> f, whole |-> whole])
    BY <1>2 DEF CopySingle
  <2>3. [of |-> f, whole |-> whole] \in Contents BY DEF Contents
  <2>4. DiskOK' BY <2>1, <2>2, <2>3 DEF DiskOK, Put, Empty
  <2>5. MadeOK' /\ stack' \in Seq(Frames) BY <1>2 DEF CopySingle, MadeOK, Empty
  <2>6. QED BY <1>2, <1>0, <1>a, <2>4, <2>5 DEF CopySingle, TypeOK, DiskOK, MadeOK, LoggedOK
<1>3. CASE CopyFailed
  BY <1>3 DEF CopyFailed, IsList, Empty, TypeOK
<1>4. ASSUME NEW x \in Items, ExcludeItem(x) PROVE TypeOK'
  BY <1>4, <1>0, <1>b, <1>c DEF ExcludeItem, TypeOK
<1>5. ASSUME NEW x \in Items, EnterDir(x) PROVE TypeOK'
  <2>1. Entry(x) /\ Rename(x) /\ x \in Dirs BY <1>5 DEF EnterDir
  <2>2. PICK path \in DestPaths(x, Top.path) : OpenDir(x, path, Without(x))
    BY <1>5 DEF EnterDir
  <2>3. path \in Paths /\ Without(x) \in Seq(Frames) BY <1>b, <2>1
  <2>4. [dir |-> x, path |-> path, rest |-> Children(x)] \in Frames
    BY <2>1, <2>3 DEF Frames, Children
  <2> DEFINE frame == [dir |-> x, path |-> path, rest |-> Children(x)]
  <2>5. stack' \in Seq(Frames)
    <3>1. stack' = Append(Without(x), frame) \/ stack' = Without(x) BY <2>2 DEF OpenDir
    <3>2. frame \in Frames BY <2>4
    <3> HIDE DEF frame
    <3>3. Append(Without(x), frame) \in Seq(Frames) BY <2>3, <3>2, PushType
    <3>4. QED BY <2>3, <3>1, <3>3
  <2>6. made' = Put(made, x, path) \/ made' = made BY <2>2 DEF OpenDir
  <2>7. MadeOK' BY <1>0, <2>1, <2>3, <2>6, MadeType DEF MadeOK
  <2>8. QED BY <1>5, <1>0, <1>c, <2>1, <2>5, <2>7 DEF EnterDir, TypeOK, MadeOK
<1>6. ASSUME NEW x \in Items, CopyItem(x) PROVE TypeOK'
  <2>1. Entry(x) /\ Rename(x) /\ x \in Files BY <1>6 DEF CopyItem
  <2>2. PICK path \in DestPaths(x, Top.path), r \in Reads, w \in Writes :
          /\ Store(x, path, r, w)
          /\ \/ /\ copy_ok' = copy_ok + 1
                /\ logged' = [logged EXCEPT ![x] = [what |-> "copied", path |-> path]]
                /\ UNCHANGED <<copy_failed, FAILlist>>
             \/ /\ copy_failed' = copy_failed + 1
                /\ logged' = [logged EXCEPT ![x] = [what |-> "failed", path |-> path]]
                /\ FAILlist' = IF KeepsLists THEN ListFailure(x, path) ELSE FAILlist
                /\ UNCHANGED copy_ok
    BY <1>6 DEF CopyItem
  <2>3. path \in Paths /\ Without(x) \in Seq(Frames) BY <1>b, <2>1
  <2>4. DiskOK' BY <1>0, <2>1, <2>2, <2>3, StoreType
  <2>5. LoggedOK'
    <3>1. PICK v \in Verdicts : logged' = [logged EXCEPT ![x] = [what |-> v, path |-> path]]
      BY <2>2 DEF Verdicts
    <3>2. [logged EXCEPT ![x] = [what |-> v, path |-> path]]
            \in [Files -> [what : Verdicts, path : Paths]]
      BY <1>0, <2>1, <2>3, LoggedType
    <3>3. QED BY <3>1, <3>2 DEF LoggedOK
  <2>6. IsList(FAILlist')
    <3>1. IsList(FAILlist) BY DEF TypeOK
    <3>2. IsList(Put(FAILlist, x, path)) BY <2>1, <2>3, <3>1, PutList
    <3>3. FAILlist' = Put(FAILlist, x, path) \/ FAILlist' = FAILlist BY <2>2 DEF ListFailure
    <3>4. QED BY <3>1, <3>2, <3>3
  <2>7. copy_ok' \in Nat /\ copy_failed' \in Nat BY <2>2 DEF TypeOK
  <2>8. phase = "copying" /\ UNCHANGED <<phase, job, left, temp_FAILlist, made>>
        /\ stack' = Without(x)
    BY <1>6 DEF CopyItem, Entry
  <2>9. QED BY <1>0, <1>c, <2>1, <2>3, <2>4, <2>5, <2>6, <2>7, <2>8
             DEF TypeOK, DiskOK, LoggedOK
<1>7. CASE LeaveDir
  <2>1. SubSeq(stack, 1, Len(stack) - 1) \in Seq(Frames)
    <3>1. stack # <<>> BY <1>7 DEF LeaveDir
    <3>2. QED BY <1>0, <3>1, PopType
  <2>2. QED BY <1>0, <1>7, <2>1 DEF LeaveDir, TypeOK
<1>8. CASE Finish BY <1>8 DEF Finish, TypeOK
<1>9. ASSUME NEW f \in Files, RetryItem(f) PROVE TypeOK'
  <2>1. FAILlist[f] \in Paths /\ f \in left BY <1>9 DEF RetryItem, TypeOK, IsList
  <2>2. DiskOK' BY <1>9, <1>0, <2>1, StoreType DEF RetryItem, DiskOK
  <2>3. LoggedOK'
    <3>1. "copied" \in Verdicts BY DEF Verdicts
    <3>3. [logged[f] EXCEPT !.what = "copied"] \in [what : Verdicts, path : Paths]
      BY <1>0, <3>1 DEF LoggedOK
    <3>4. [logged EXCEPT ![f].what = "copied"] \in [Files -> [what : Verdicts, path : Paths]]
      BY <1>0, <3>3 DEF LoggedOK
    <3>5. logged' = [logged EXCEPT ![f].what = "copied"] \/ logged' = logged
      BY <1>9 DEF RetryItem
    <3>6. QED BY <1>0, <3>4, <3>5 DEF LoggedOK
  <2>4. IsList(temp_FAILlist')
    <3>1. IsList(temp_FAILlist) BY DEF TypeOK
    <3>2. IsList(Put(temp_FAILlist, f, FAILlist[f])) BY <2>1, <3>1, PutList
    <3>3. temp_FAILlist' = Put(temp_FAILlist, f, FAILlist[f]) \/ temp_FAILlist' = temp_FAILlist
      BY <1>9 DEF RetryItem
    <3>4. QED BY <3>1, <3>2, <3>3
  <2>5. copy_ok' \in Nat BY <1>9 DEF RetryItem, TypeOK
  <2>6. QED BY <1>9, <1>0, <2>2, <2>3, <2>4, <2>5 DEF RetryItem, TypeOK, DiskOK, LoggedOK
<1>10. CASE FinishRetry
  BY <1>10, FS_CardinalityType, FS_Subset DEF FinishRetry, IsList, Items, TypeOK
<1>11. CASE UNCHANGED vars BY <1>11 DEF vars, TypeOK
<1>12. QED
  BY <1>1, <1>2, <1>3, <1>4, <1>5, <1>6, <1>7, <1>8, <1>9, <1>10, <1>11
     DEF Next, ThreadStep

(* Every variable of the copy keeps its type.                              *)
THEOREM JobTypeCorrect == Spec => []TypeOK
BY TypeOKInit, TypeOKNext, PTL DEF Spec

-----------------------------------------------------------------------------
(* The walk.                                                               *)

LEMMA FrameTypes == TypeOK => stack \in Seq(Frames) /\ LoggedOK
BY DEF TypeOK, Frames, LoggedOK

LEMMA WithoutFacts ==
  ASSUME stack \in Seq(Frames), NEW x, Entry(x)
  PROVE  /\ DOMAIN Without(x) = DOMAIN stack /\ Len(Without(x)) = Len(stack)
         /\ Len(stack) \in DOMAIN stack
         /\ \A i \in DOMAIN stack :
              /\ Without(x)[i].dir = stack[i].dir
              /\ Without(x)[i].rest =
                   IF i = Len(stack) THEN stack[i].rest \ {x} ELSE stack[i].rest
<1> DEFINE n == Len(stack)
           top == [stack[n] EXCEPT !.rest = stack[n].rest \ {x}]
<1>1. n \in Nat /\ DOMAIN stack = 1..n /\ n \in DOMAIN stack BY DEF Entry
<1>2. \A i \in DOMAIN stack : stack[i] \in Frames OBVIOUS
<1>3. Without(x) = [stack EXCEPT ![n] = top] BY DEF Without
<1>4. /\ DOMAIN Without(x) = DOMAIN stack
      /\ Without(x)[n] = top
      /\ \A i \in DOMAIN stack : i # n => Without(x)[i] = stack[i]
  BY <1>1, <1>3
<1>5. top.dir = stack[n].dir /\ top.rest = stack[n].rest \ {x}
  BY <1>1, <1>2 DEF Frames
<1>6. Len(Without(x)) = n
  <2>1. Without(x) \in Seq(Frames) BY TopType
  <2>2. QED BY <1>1, <1>4, <2>1
<1>7. QED BY <1>1, <1>4, <1>5, <1>6

(* The next entry is one the walk has not dealt with, in no other          *)
(* directory of the stack.                                                 *)
LEMMA EntryIsNew ==
  ASSUME TypeOK, WalkInv, NEW x \in Items, Entry(x)
  PROVE  /\ ~Seen(x) /\ x # Root /\ Parent[x] = Top.dir /\ Top.dir \in DOMAIN made
         /\ \A i \in DOMAIN stack : i # Len(stack) => x \notin stack[i].rest
<1>1. Len(stack) \in DOMAIN stack BY FrameTypes, WithoutFacts
<1>2. x \in stack[Len(stack)].rest /\ phase = "copying" BY DEF Entry, Top
<1>3. ~Seen(x) BY <1>1, <1>2 DEF WalkInv
<1>4. \A i \in DOMAIN stack : x \in stack[i].rest => x # Root /\ Parent[x] = stack[i].dir
  BY <1>2 DEF WalkInv, Children
<1>5. QED BY <1>1, <1>2, <1>3, <1>4 DEF WalkInv, Top

(* A step that takes x off the stack and deals with nothing else.          *)
LEMMA DealtWith ==
  ASSUME TypeOK, WalkInv, NEW x \in Items, Entry(x), stack' = Without(x),
         DOMAIN made \subseteq DOMAIN made',
         \A y \in Items : Seen(y)' => Seen(y) \/ y = x
  PROVE  WalkInv'
<1>1. phase = "copying" BY DEF Entry
<1>2. /\ ~Seen(x) /\ x # Root /\ Parent[x] \in DOMAIN made
      /\ \A i \in DOMAIN stack : i # Len(stack) => x \notin stack[i].rest
  BY EntryIsNew
<1>3. /\ DOMAIN stack' = DOMAIN stack
      /\ \A i \in DOMAIN stack :
           /\ stack'[i].dir = stack[i].dir
           /\ stack'[i].rest = IF i = Len(stack) THEN stack[i].rest \ {x} ELSE stack[i].rest
  BY FrameTypes, WithoutFacts
<1>4. \A i \in DOMAIN stack' : x \notin stack'[i].rest BY <1>2, <1>3
<1>5. \A y \in Items : Seen(y)' =>
        /\ y # Root /\ Parent[y] \in DOMAIN made'
        /\ \A i \in DOMAIN stack' : y \notin stack'[i].rest
  BY <1>1, <1>2, <1>3, <1>4, ZenonT(30) DEF WalkInv
<1>6. QED BY <1>1, <1>3, <1>5, ZenonT(30) DEF WalkInv, Children

LEMMA RenameSeen == ASSUME NEW x, Rename(x) PROVE RENlist' \subseteq RENlist \cup {x}
BY DEF Rename

LEMMA WalkNext == TypeOK /\ WalkInv /\ [Next]_vars => WalkInv'
<1> SUFFICES ASSUME TypeOK, WalkInv, [Next]_vars PROVE WalkInv'
  OBVIOUS
<1> USE JobAssumption
<1>1. CASE CopyTree
  <2>1. RENlist' = {} /\ \A f \in Files : logged'[f].what = "none"
    BY <1>1 DEF CopyTree, Reset, None
  <2>2. DOMAIN made' = {Root} BY <1>1 DEF CopyTree, Put, Empty
  <2>3. \A y : ~Seen(y)' BY <2>1, <2>2 DEF Seen
  <2>4. CASE stack' = <<>> BY <2>3, <2>4 DEF WalkInv
  <2>5. CASE stack' = <<[dir |-> Root, path |-> <<>>, rest |-> Children(Root)]>>
    <3>1. DOMAIN stack' = {1} /\ stack'[1].dir = Root /\ stack'[1].rest = Children(Root)
      BY <2>5
    <3>2. QED BY <2>2, <2>3, <3>1 DEF WalkInv, Children
  <2>6. QED BY <1>1, <2>4, <2>5 DEF CopyTree
<1>2. ASSUME NEW f \in Files, CopySingle(f) PROVE WalkInv'
  <2>1. RENlist' = {} /\ \A g \in Files : logged'[g].what = "none"
    BY <1>2 DEF CopySingle, Reset, None
  <2>2. DOMAIN made' = {} /\ stack' = <<>> BY <1>2 DEF CopySingle, Empty
  <2>3. QED BY <2>1, <2>2 DEF WalkInv, Seen
<1>3. CASE CopyFailed BY <1>3 DEF CopyFailed, WalkInv
<1>4. ASSUME NEW x \in Items, ExcludeItem(x) PROVE WalkInv'
  <2>1. Entry(x) /\ stack' = Without(x) /\ Rename(x) /\ UNCHANGED <<logged, made>>
    BY <1>4 DEF ExcludeItem
  <2>2. \A y \in Items : Seen(y)' => Seen(y) \/ y = x BY <2>1, RenameSeen DEF Seen
  <2>3. QED BY <2>1, <2>2, DealtWith
<1>5. ASSUME NEW x \in Items, EnterDir(x) PROVE WalkInv'
  <2>1. Entry(x) /\ Rename(x) /\ UNCHANGED <<phase, logged>> /\ x \in Dirs
    BY <1>5 DEF EnterDir
  <2>2. PICK path : OpenDir(x, path, Without(x)) BY <1>5 DEF EnterDir
  <2>3. made' = Put(made, x, path) \/ made' = made BY <2>2 DEF OpenDir
  <2>4. DOMAIN made \subseteq DOMAIN made' /\ DOMAIN made' \subseteq DOMAIN made \cup {x}
    BY <2>3 DEF Put
  <2>5. \A y \in Items : Seen(y)' => Seen(y) \/ y = x BY <2>1, <2>4, RenameSeen DEF Seen
  <2>6. CASE stack' = Without(x) BY <2>1, <2>4, <2>5, <2>6, DealtWith
  <2>7. CASE /\ stack' = Append(Without(x), [dir |-> x, path |-> path, rest |-> Children(x)])
             /\ made' = Put(made, x, path)
    <3> DEFINE n == Len(stack)
    <3>1. /\ ~Seen(x) /\ x # Root /\ Parent[x] = Top.dir /\ Top.dir \in DOMAIN made
          /\ \A i \in DOMAIN stack : i # n => x \notin stack[i].rest
      BY <2>1, EntryIsNew
    <3>2. x \notin DOMAIN made BY <3>1 DEF Seen
    <3>3. /\ n \in Nat /\ DOMAIN stack = 1..n
          /\ Without(x) \in Seq(Frames) /\ Len(Without(x)) = n
      BY <2>1, FrameTypes, WithoutFacts, TopType
    <3>4. /\ DOMAIN stack' = 1..(n + 1)
          /\ stack'[n + 1].dir = x /\ stack'[n + 1].rest = Children(x)
          /\ \A i \in 1..n : stack'[i] = Without(x)[i]
      BY <2>7, <3>3
    <3>5. \A i \in 1..n :
            /\ stack'[i].dir = stack[i].dir
            /\ stack'[i].rest = IF i = n THEN stack[i].rest \ {x} ELSE stack[i].rest
      <4>1. \A i \in DOMAIN stack :
              /\ Without(x)[i].dir = stack[i].dir
              /\ Without(x)[i].rest = IF i = n THEN stack[i].rest \ {x} ELSE stack[i].rest
        BY <2>1, FrameTypes, WithoutFacts
      <4>2. QED BY <3>3, <3>4, <4>1
    <3>6. phase = "copying" /\ x \in DOMAIN made' BY <2>1, <2>7 DEF Entry, Put
    <3>7. \A i \in 1..n : stack[i].rest \subseteq Children(stack[i].dir)
                         /\ stack[i].dir \in DOMAIN made
      BY <3>3, <3>6 DEF WalkInv
    <3>8. \A i \in 1..(n + 1) : stack'[i].rest \subseteq Children(stack'[i].dir)
                               /\ stack'[i].dir \in DOMAIN made'
      <4>1. stack'[n + 1].rest \subseteq Children(stack'[n + 1].dir)
            /\ stack'[n + 1].dir \in DOMAIN made'
        BY <3>4, <3>6
      <4>2. ASSUME NEW i \in 1..n
            PROVE  stack'[i].rest \subseteq Children(stack'[i].dir)
                   /\ stack'[i].dir \in DOMAIN made'
        BY <2>4, <3>5, <3>7
      <4>3. \A i \in 1..(n + 1) : i \in 1..n \/ i = n + 1 BY <3>3, LastOrBefore
      <4>4. QED BY <4>1, <4>2, <4>3
    <3>9. \A i, j \in 1..(n + 1) : stack'[i].dir = stack'[j].dir => i = j
      <4>1. \A i, j \in 1..n : stack'[i].dir = stack'[j].dir => i = j
        BY <3>3, <3>5, <3>6 DEF WalkInv
      <4>2. \A i \in 1..n : stack'[i].dir # x BY <3>2, <3>5, <3>7
      <4>3. \A i \in 1..(n + 1) : i \in 1..n \/ i = n + 1 BY <3>3, LastOrBefore
      <4>4. QED BY <3>4, <4>1, <4>2, <4>3
    <3>10. ASSUME NEW y \in Items, Seen(y)'
           PROVE  /\ y # Root /\ Parent[y] \in DOMAIN made'
                  /\ \A i \in 1..(n + 1) : y \notin stack'[i].rest
      <4>1. CASE y = x
        <5>1. Parent[x] # x BY <3>1, <3>2
        <5>2. x \notin Children(x) BY <5>1 DEF Children
        <5>3. \A i \in 1..n : x \notin stack'[i].rest BY <3>1, <3>3, <3>5
        <5>4. \A i \in 1..(n + 1) : i \in 1..n \/ i = n + 1 BY <3>3, LastOrBefore
        <5>5. QED BY <2>4, <3>1, <3>4, <4>1, <5>2, <5>3, <5>4
      <4>2. CASE y # x
        <5>1. Seen(y) BY <2>5, <3>10, <4>2
        <5>2. /\ y # Root /\ Parent[y] \in DOMAIN made
              /\ \A i \in 1..n : y \notin stack[i].rest
          BY <3>3, <3>6, <5>1 DEF WalkInv
        <5>3. y \notin Children(x) BY <3>2, <5>2 DEF Children
        <5>4. \A i \in 1..(n + 1) : i \in 1..n \/ i = n + 1 BY <3>3, LastOrBefore
        <5>5. \A i \in 1..n : y \notin stack'[i].rest BY <3>5, <5>2
        <5>6. QED BY <2>4, <3>4, <5>2, <5>3, <5>4, <5>5
      <4>3. QED BY <4>1, <4>2
    <3>11. QED BY <3>4, <3>8, <3>9, <3>10 DEF WalkInv
  <2>8. QED BY <2>2, <2>6, <2>7 DEF OpenDir
<1>6. ASSUME NEW x \in Items, CopyItem(x) PROVE WalkInv'
  <2>1. Entry(x) /\ stack' = Without(x) /\ Rename(x) /\ UNCHANGED made
    BY <1>6 DEF CopyItem
  <2>2. PICK r : logged' = [logged EXCEPT ![x] = r] BY <1>6 DEF CopyItem
  <2>3. \A y \in Items : Seen(y)' => Seen(y) \/ y = x
    BY <2>1, <2>2, RenameSeen, FrameTypes DEF Seen, LoggedOK
  <2>4. QED BY <2>1, <2>3, DealtWith
<1>7. CASE LeaveDir
  <2>1. stack \in Seq(Frames) /\ stack # <<>> /\ phase = "copying"
        /\ stack' = SubSeq(stack, 1, Len(stack) - 1)
        /\ UNCHANGED <<phase, RENlist, logged, made>>
    BY <1>7, FrameTypes DEF LeaveDir, lists
  <2>2. DOMAIN stack' \subseteq DOMAIN stack /\ \A i \in DOMAIN stack' : stack'[i] = stack[i]
    BY <2>1
  <2>3. \A y : Seen(y)' <=> Seen(y) BY <2>1 DEF Seen
  <2>4. QED BY <2>1, <2>2, <2>3 DEF WalkInv, Children
<1>8. CASE Finish BY <1>8 DEF Finish, WalkInv
<1>9. ASSUME NEW f \in Files, RetryItem(f) PROVE WalkInv' BY <1>9 DEF RetryItem, WalkInv
<1>10. CASE FinishRetry BY <1>10 DEF FinishRetry, WalkInv
<1>11. CASE UNCHANGED vars BY <1>11 DEF vars, lists, WalkInv, Seen, Children
<1>12. QED
  BY <1>1, <1>2, <1>3, <1>4, <1>5, <1>6, <1>7, <1>8, <1>9, <1>10, <1>11
     DEF Next, ThreadStep

-----------------------------------------------------------------------------
(* The counters.                                                           *)

LEMMA Finiteness ==
  ASSUME TypeOK
  PROVE  IsFiniteSet(RENlist) /\ \A v : IsFiniteSet(Logged(v))
<1>1. IsFiniteSet(Files) BY JobAssumption, FS_Subset DEF Items
<1>2. RENlist \subseteq Items BY DEF TypeOK
<1>3. QED BY <1>1, <1>2, JobAssumption, FS_Subset DEF Logged

LEMMA LoggedBecomes ==
  ASSUME LoggedOK, NEW f \in Files, NEW r, NEW u, r.what = u,
         logged' = [logged EXCEPT ![f] = r]
  PROVE  \A v : Logged(v)' = IF u = v THEN Logged(v) \cup {f} ELSE Logged(v) \ {f}
BY DEF Logged, LoggedOK

(* A step of the walk renames what was not renamed yet.                    *)
LEMMA RenameCounts ==
  ASSUME TypeOK, WalkInv, NEW x \in Items, Entry(x), Rename(x),
         copy_renamed = Cardinality(RENlist)
  PROVE  copy_renamed' = Cardinality(RENlist')
<1>1. x \notin RENlist BY EntryIsNew DEF Seen
<1>2. IsFiniteSet(RENlist) BY Finiteness
<1>3. Cardinality(RENlist \cup {x}) = Cardinality(RENlist) + 1
  BY <1>1, <1>2, FS_AddElement
<1>4. QED BY <1>3 DEF Rename

LEMMA NothingLogged ==
  ASSUME \A f \in Files : logged'[f].what = "none",
         copy_ok' = 0, copy_failed' = 0, copy_renamed' = 0, RENlist' = {},
         FAILlist' = Empty, phase' # "retrying"
  PROVE  ListInv' /\ ReportMatchesLog'
<1>1. Logged("copied")' = {} /\ Logged("failed")' = {} BY DEF Logged
<1>2. QED BY <1>1, FS_EmptySet DEF ListInv, ReportMatchesLog, Empty

LEMMA IInvInit == Init => IInv
<1> SUFFICES ASSUME Init PROVE IInv
  OBVIOUS
<1>1. TypeOK BY TypeOKInit
<1>2. WalkInv BY DEF Init, WalkInv
<1>3. Logged("copied") = {} /\ Logged("failed") = {} BY DEF Init, Logged, None
<1>4. ListInv /\ ReportMatchesLog
  BY <1>3, FS_EmptySet DEF Init, ListInv, ReportMatchesLog, Empty
<1>5. QED BY <1>1, <1>2, <1>4 DEF IInv

LEMMA CountsNext == IInv /\ [Next]_vars => ListInv' /\ ReportMatchesLog'
<1> SUFFICES ASSUME IInv, [Next]_vars PROVE ListInv' /\ ReportMatchesLog'
  OBVIOUS
<1> USE JobAssumption DEF IInv
<1>0. /\ LoggedOK /\ IsFiniteSet(RENlist)
      /\ IsFiniteSet(Logged("copied")) /\ IsFiniteSet(Logged("failed"))
      /\ copy_renamed = Cardinality(RENlist) /\ copy_ok = Cardinality(Logged("copied"))
  BY FrameTypes, Finiteness DEF ReportMatchesLog
<1>1. ASSUME Reset PROVE ListInv' /\ ReportMatchesLog'
  BY <1>1, NothingLogged DEF Reset, None
<1>2. CASE CopyTree BY <1>1, <1>2 DEF CopyTree
<1>3. ASSUME NEW f \in Files, CopySingle(f) PROVE ListInv' /\ ReportMatchesLog'
  BY <1>1, <1>3 DEF CopySingle
<1>4. CASE CopyFailed
  <2>1. Logged("failed")' = Logged("failed") /\ Logged("copied")' = Logged("copied")
    BY <1>4 DEF CopyFailed, Logged
  <2>2. KeepsLists' = KeepsLists BY <1>4 DEF CopyFailed, KeepsLists, Generic
  <2>3. ListInv' BY <1>4, <2>1, <2>2 DEF CopyFailed, ListInv, Empty
  <2>4. ReportMatchesLog'
    BY <1>0, <1>4, <2>1 DEF CopyFailed, ReportMatchesLog, counters, lists
  <2>5. QED BY <2>3, <2>4
<1>5. ASSUME NEW x \in Items, Entry(x), Rename(x),
             UNCHANGED <<phase, job, copy_ok, copy_failed, FAILlist, retry, logged>>
      PROVE  ListInv' /\ ReportMatchesLog'
  <2>1. copy_renamed' = Cardinality(RENlist') BY <1>0, <1>5, RenameCounts
  <2>2. QED BY <1>5, <2>1 DEF ListInv, ReportMatchesLog, Logged, KeepsLists, Generic, retry
<1>6. ASSUME NEW x \in Items, ExcludeItem(x) PROVE ListInv' /\ ReportMatchesLog'
  BY <1>5, <1>6 DEF ExcludeItem
<1>7. ASSUME NEW x \in Items, EnterDir(x) PROVE ListInv' /\ ReportMatchesLog'
  BY <1>5, <1>7 DEF EnterDir
<1>8. ASSUME NEW x \in Items, CopyItem(x) PROVE ListInv' /\ ReportMatchesLog'
  <2>1. Entry(x) /\ Rename(x) /\ x \in Files /\ phase = "copying"
        /\ UNCHANGED <<phase, job>>
    BY <1>8 DEF CopyItem, Entry
  <2>2. copy_renamed' = Cardinality(RENlist') BY <1>0, <2>1, RenameCounts
  <2>3. logged[x].what = "none" BY <2>1, EntryIsNew DEF Seen
  <2>4. x \notin Logged("copied") /\ x \notin Logged("failed") BY <2>3 DEF Logged
  <2>5. KeepsLists' = KeepsLists BY <2>1 DEF KeepsLists, Generic
  <2>6. PICK path :
          \/ /\ copy_ok' = copy_ok + 1
             /\ logged' = [logged EXCEPT ![x] = [what |-> "copied", path |-> path]]
             /\ UNCHANGED <<copy_failed, FAILlist>>
          \/ /\ copy_failed' = copy_failed + 1
             /\ logged' = [logged EXCEPT ![x] = [what |-> "failed", path |-> path]]
             /\ FAILlist' = IF KeepsLists THEN ListFailure(x, path) ELSE FAILlist
             /\ UNCHANGED copy_ok
    BY <1>8 DEF CopyItem
  <2>7. CASE /\ copy_ok' = copy_ok + 1
             /\ logged' = [logged EXCEPT ![x] = [what |-> "copied", path |-> path]]
             /\ UNCHANGED <<copy_failed, FAILlist>>
    <3>1. Logged("copied")' = Logged("copied") \cup {x} /\ Logged("failed")' = Logged("failed")
      <4>1. \A v : Logged(v)' = IF "copied" = v THEN Logged(v) \cup {x} ELSE Logged(v) \ {x}
        <5> DEFINE r == [what |-> "copied", path |-> path]
        <5>1. r.what = "copied" /\ logged' = [logged EXCEPT ![x] = r] BY <2>7
        <5> HIDE DEF r
        <5>2. QED BY <1>0, <2>1, <5>1, LoggedBecomes
      <4>2. QED BY <2>4, <4>1
    <3>2. Cardinality(Logged("copied")') = Cardinality(Logged("copied")) + 1
      BY <1>0, <2>4, <3>1, FS_AddElement
    <3>3. QED BY <1>0, <2>1, <2>2, <2>5, <2>7, <3>1, <3>2 DEF ListInv, ReportMatchesLog
  <2>8. CASE /\ copy_failed' = copy_failed + 1
             /\ logged' = [logged EXCEPT ![x] = [what |-> "failed", path |-> path]]
             /\ FAILlist' = IF KeepsLists THEN ListFailure(x, path) ELSE FAILlist
             /\ UNCHANGED copy_ok
    <3>1. Logged("failed")' = Logged("failed") \cup {x} /\ Logged("copied")' = Logged("copied")
      <4>1. \A v : Logged(v)' = IF "failed" = v THEN Logged(v) \cup {x} ELSE Logged(v) \ {x}
        <5> DEFINE r == [what |-> "failed", path |-> path]
        <5>1. r.what = "failed" /\ logged' = [logged EXCEPT ![x] = r] BY <2>8
        <5> HIDE DEF r
        <5>2. QED BY <1>0, <2>1, <5>1, LoggedBecomes
      <4>2. QED BY <2>4, <4>1
    <3>2. Cardinality(Logged("failed")') = Cardinality(Logged("failed")) + 1
      BY <1>0, <2>4, <3>1, FS_AddElement
    <3>3. KeepsLists => DOMAIN FAILlist' = DOMAIN FAILlist \cup {x}
      BY <2>8 DEF ListFailure, Put
    <3>4. ListInv' BY <2>1, <2>5, <2>8, <3>1, <3>3 DEF ListInv
    <3>5. ReportMatchesLog'
      BY <1>0, <2>1, <2>2, <2>5, <2>8, <3>1, <3>2 DEF ReportMatchesLog
    <3>6. QED BY <3>4, <3>5
  <2>9. QED BY <2>6, <2>7, <2>8
<1>9. ASSUME UNCHANGED <<copy_ok, copy_failed, copy_renamed, FAILlist, RENlist, left,
                         temp_FAILlist, logged, job>>,
             phase # "retrying", phase' # "retrying"
      PROVE  ListInv' /\ ReportMatchesLog'
  BY <1>9 DEF ListInv, ReportMatchesLog, Logged, KeepsLists, Generic
<1>10. CASE LeaveDir BY <1>9, <1>10 DEF LeaveDir, counters, lists, retry
<1>11. CASE Finish BY <1>9, <1>11 DEF Finish, counters, lists, retry
<1>12. ASSUME NEW f \in Files, RetryItem(f) PROVE ListInv' /\ ReportMatchesLog'
  <2>1. /\ phase = "retrying" /\ f \in left /\ left' = left \ {f}
        /\ UNCHANGED <<phase, job, copy_failed, copy_renamed, FAILlist, RENlist>>
    BY <1>12 DEF RetryItem, lists
  <2>2. KeepsLists' = KeepsLists BY <2>1 DEF KeepsLists, Generic
  <2>3. f \in Logged("failed") /\ f \notin DOMAIN temp_FAILlist /\ KeepsLists
    BY <2>1 DEF ListInv
  <2>4. f \notin Logged("copied") BY <2>3 DEF Logged
  <2>5. CASE /\ copy_ok' = copy_ok + 1
             /\ logged' = [logged EXCEPT ![f].what = "copied"]
             /\ UNCHANGED temp_FAILlist
    <3>1. [logged[f] EXCEPT !.what = "copied"].what = "copied" BY <1>0 DEF LoggedOK
    <3>2. Logged("copied")' = Logged("copied") \cup {f}
          /\ Logged("failed")' = Logged("failed") \ {f}
      <4>1. \A v : Logged(v)' = IF "copied" = v THEN Logged(v) \cup {f} ELSE Logged(v) \ {f}
        <5> DEFINE r == [logged[f] EXCEPT !.what = "copied"]
        <5>1. r.what = "copied" /\ logged' = [logged EXCEPT ![f] = r] BY <2>5, <3>1
        <5> HIDE DEF r
        <5>2. QED BY <1>0, <5>1, LoggedBecomes
      <4>2. QED BY <4>1
    <3>3. Cardinality(Logged("copied")') = Cardinality(Logged("copied")) + 1
      BY <1>0, <2>4, <3>2, FS_AddElement
    <3>4. ListInv' BY <2>1, <2>2, <2>3, <2>5, <3>2 DEF ListInv
    <3>5. ReportMatchesLog' BY <1>0, <2>1, <2>5, <3>2, <3>3 DEF ReportMatchesLog
    <3>6. QED BY <3>4, <3>5
  <2>6. CASE /\ temp_FAILlist' = Put(temp_FAILlist, f, FAILlist[f])
             /\ UNCHANGED <<copy_ok, logged>>
    <3>1. Logged("failed")' = Logged("failed") /\ Logged("copied")' = Logged("copied")
      BY <2>6 DEF Logged
    <3>2. DOMAIN temp_FAILlist' = DOMAIN temp_FAILlist \cup {f} BY <2>6 DEF Put
    <3>3. ListInv' BY <2>1, <2>2, <2>3, <3>1, <3>2 DEF ListInv
    <3>4. ReportMatchesLog' BY <1>0, <2>1, <2>6, <3>1 DEF ReportMatchesLog
    <3>5. QED BY <3>3, <3>4
  <2>7. QED BY <1>12, <2>5, <2>6 DEF RetryItem
<1>13. CASE FinishRetry
  <2>1. Logged("failed")' = Logged("failed") /\ Logged("copied")' = Logged("copied")
        /\ KeepsLists' = KeepsLists
    BY <1>13 DEF FinishRetry, Logged, KeepsLists, Generic
  <2>2. ListInv' BY <1>13, <2>1 DEF FinishRetry, ListInv
  <2>3. KeepsLists => DOMAIN temp_FAILlist = Logged("failed")
    BY <1>13 DEF FinishRetry, ListInv
  <2>4. ReportMatchesLog'
    BY <1>0, <1>13, <2>1, <2>3 DEF FinishRetry, ReportMatchesLog
  <2>5. QED BY <2>2, <2>4
<1>14. CASE UNCHANGED vars
  BY <1>14 DEF vars, counters, lists, retry, ListInv, ReportMatchesLog, Logged,
               KeepsLists, Generic
<1>15. QED
  BY <1>2, <1>3, <1>4, <1>6, <1>7, <1>8, <1>10, <1>11, <1>12, <1>13, <1>14
     DEF Next, ThreadStep

LEMMA IInvAlways == Spec => []IInv
<1>1. IInv /\ [Next]_vars => IInv' BY TypeOKNext, WalkNext, CountsNext DEF IInv
<1>2. QED BY IInvInit, <1>1, PTL DEF Spec

(* What the report shows is what happened, for any tree, whatever fails    *)
(* and however often the user retries.                                     *)
THEOREM ReportCorrect == Spec => []ReportMatchesLog
<1>1. IInv => ReportMatchesLog BY DEF IInv
<1>2. QED BY IInvAlways, <1>1, PTL

-----------------------------------------------------------------------------
(* The copy implements the ledger.                                         *)

Status == [f \in Files |-> IF logged[f].what = "none" THEN "pending" ELSE logged[f].what]

LEMMA LedgerInit == Init => Ledger!Init
BY DEF Init, None, Ledger!Init

LEMMA LedgerNext == IInv /\ [Next]_vars => [Ledger!Next]_(Ledger!vars)
<1> SUFFICES ASSUME IInv, [Next]_vars PROVE [Ledger!Next]_(Ledger!vars)
  OBVIOUS
<1> USE DEF IInv
<1>0. LoggedOK BY FrameTypes
<1>1. ASSUME UNCHANGED <<phase, logged>> PROVE UNCHANGED Ledger!vars
  BY <1>1 DEF Ledger!vars
<1>2. ASSUME Reset PROVE Ledger!Begin
  <2>1. Status' = [f \in Files |-> "pending"] BY <1>2 DEF Reset, None, Status
  <2>2. QED BY <1>2, <2>1 DEF Reset, Ledger!Begin, Status
<1>3. CASE CopyTree BY <1>2, <1>3 DEF CopyTree, Ledger!Next
<1>4. ASSUME NEW f \in Files, CopySingle(f) PROVE Ledger!Next
  BY <1>2, <1>4 DEF CopySingle, Ledger!Next
<1>5. CASE CopyFailed
  BY <1>5 DEF CopyFailed, Ledger!BeginRetry, Ledger!Next
<1>6. ASSUME NEW x \in Items, ExcludeItem(x) PROVE UNCHANGED Ledger!vars
  BY <1>1, <1>6 DEF ExcludeItem
<1>7. ASSUME NEW x \in Items, EnterDir(x) PROVE UNCHANGED Ledger!vars
  BY <1>1, <1>7 DEF EnterDir
<1>8. ASSUME NEW x \in Items, CopyItem(x) PROVE Ledger!Next
  <2>1. Entry(x) /\ x \in Files /\ phase = "copying" /\ phase' = phase
    BY <1>8 DEF CopyItem, Entry
  <2>2. logged[x].what = "none" BY <2>1, EntryIsNew DEF Seen
  <2>3. PICK v \in {"copied", "failed"}, path \in DestPaths(x, Top.path) :
          logged' = [logged EXCEPT ![x] = [what |-> v, path |-> path]]
    BY <1>8 DEF CopyItem
  <2>4. logged' = [f \in Files |-> IF f = x THEN [what |-> v, path |-> path] ELSE logged[f]]
    BY <1>0, <2>3 DEF LoggedOK
  <2>5. Status' = [Status EXCEPT ![x] = v] BY <2>1, <2>4 DEF Status
  <2>6. Status[x] = "pending" BY <2>1, <2>2 DEF Status
  <2>7. Ledger!Decide(x) BY <2>1, <2>5, <2>6 DEF Ledger!Decide, Status
  <2>8. QED BY <2>1, <2>7 DEF Ledger!Next
<1>9. CASE LeaveDir BY <1>1, <1>9 DEF LeaveDir
<1>10. CASE Finish BY <1>10 DEF Finish, Ledger!Finish, Ledger!Next
<1>11. ASSUME NEW f \in Files, RetryItem(f) PROVE [Ledger!Next]_(Ledger!vars)
  <2>1. phase = "retrying" /\ phase' = phase /\ f \in left BY <1>11 DEF RetryItem
  <2>2. logged[f].what = "failed" BY <2>1 DEF ListInv, Logged
  <2>3. CASE logged' = logged BY <1>1, <2>1, <2>3
  <2>4. CASE logged' = [logged EXCEPT ![f].what = "copied"]
    <3>1. logged' = [g \in Files |-> IF g = f THEN [logged[f] EXCEPT !.what = "copied"]
                                              ELSE logged[g]]
      BY <1>0, <2>4 DEF LoggedOK
    <3>2. [logged[f] EXCEPT !.what = "copied"].what = "copied" BY <1>0 DEF LoggedOK
    <3>3. Status' = [Status EXCEPT ![f] = "copied"] BY <3>1, <3>2 DEF Status
    <3>4. Status[f] = "failed" BY <2>2 DEF Status
    <3>5. Ledger!Recover(f) BY <2>1, <3>3, <3>4 DEF Ledger!Recover, Status
    <3>6. QED BY <3>5 DEF Ledger!Next
  <2>5. QED BY <1>11, <2>3, <2>4 DEF RetryItem
<1>12. CASE FinishRetry BY <1>12 DEF FinishRetry, Ledger!FinishRetry, Ledger!Next
<1>13. CASE UNCHANGED vars BY <1>1, <1>13 DEF vars
<1>14. QED
  BY <1>3, <1>4, <1>5, <1>6, <1>7, <1>8, <1>9, <1>10, <1>11, <1>12, <1>13
     DEF Next, ThreadStep

(* Whatever tree is copied, each file is decided once, and a retry only    *)
(* ever turns a failure into a copy.                                       *)
THEOREM JobImplementsLedger == Spec => ImplementsLedger
<1>1. IInv /\ [Next]_vars => [Ledger!Next]_(Ledger!vars) BY LedgerNext
<1>2. QED BY LedgerInit, IInvAlways, <1>1, PTL DEF Spec, ImplementsLedger, Ledger!Spec
====
