--------------------------- MODULE IsoRipperProofs ---------------------------
(***************************************************************************)
(* The safety properties of IsoRipper, for discs, slices, chunk sizes and  *)
(* sets of bad sectors of any size.                                        *)
(*                                                                         *)
(* The argument: the calls of IsoCopySlice on the stack nest, each in the  *)
(* chunk its caller is at (Nested), and the innermost one is where the     *)
(* slice's file ends (Current); so a call that returns has copied exactly  *)
(* the chunk its caller then skips.                                        *)
(***************************************************************************)
EXTENDS IsoRipper, SequenceTheorems, TLAPS

Call == [level : Nat, our_ofs : Nat, data_left : Nat]

Types ==
  /\ pc \in {"idle", "slices", "copying", "done", "refused"}
  /\ fileSize \in 0..MaxDisc /\ bad \subseteq 0..(fileSize - 1)
  /\ ofs \in 0..fileSize /\ i \in Nat
  /\ stack \in Seq(Call)
  /\ Len(stack) <= MAX_COPY_LEVEL
  /\ \A d \in 1..Len(stack) : stack[d].level = d
  /\ copy_ok \in Nat /\ copy_failed \in 0..1

(* Where the loop of IsoRipper is.                                         *)
Progress ==
  /\ copy_ok = i
  /\ ofs = Least(i * SliceSize, fileSize)
  /\ i > 0 => (i - 1) * SliceSize < fileSize
  /\ pc = "idle" => fileSize = 0
  /\ pc \in {"idle", "slices", "copying"} => copy_failed = 0
  /\ pc = "done" /\ copy_failed = 0 => ofs >= fileSize

Nested ==
  /\ pc = "copying" <=> stack # <<>>
  /\ pc = "copying" =>
       /\ ofs < fileSize
       /\ stack[1].our_ofs + stack[1].data_left = ofs + slice_size
       /\ \A d \in 1..Len(stack) :
            /\ ofs <= stack[d].our_ofs
            /\ stack[d].our_ofs + stack[d].data_left <= ofs + slice_size
       /\ \A d \in 1..(Len(stack) - 1) :
            /\ stack[d].data_left > 0
            /\ stack[d + 1].our_ofs + stack[d + 1].data_left =
                 stack[d].our_ofs + chunk_size(stack[d])

LoopInv == Types /\ Progress /\ Nested

-----------------------------------------------------------------------------
(* Facts about the constants and about products.                           *)

LEMMA Levels ==
  /\ MAX_COPY_LEVEL \in Nat \ {0}
  /\ \A l \in 1..MAX_COPY_LEVEL : CopyLevelSize[l] \in Nat \ {0}
  /\ CopyLevelSize[MAX_COPY_LEVEL] = 1
BY RipperAssumption DEF MAX_COPY_LEVEL

LEMMA Products ==
  ASSUME NEW S \in Nat \ {0}, NEW a \in Nat
  PROVE  /\ a * S \in Nat
         /\ a <= a * S
         /\ (a + 1) * S = a * S + S
         /\ a > 0 => (a - 1) * S \in Nat /\ a * S = (a - 1) * S + S
OBVIOUS

(* The innermost call and its chunk, when there is one.                    *)
LEMMA TopFacts ==
  ASSUME LoopInv, pc = "copying"
  PROVE  /\ Len(stack) \in 1..MAX_COPY_LEVEL
         /\ Top \in Call
         /\ Top.level = Len(stack)
         /\ ofs <= Top.our_ofs
         /\ Top.our_ofs + Top.data_left <= ofs + slice_size
         /\ slice_size \in 1..SliceSize
         /\ ofs + slice_size <= fileSize
         /\ chunk_size(Top) \in 0..Top.data_left
         /\ Top.data_left > 0 => chunk_size(Top) > 0
<1> USE DEF LoopInv, Types, Nested
<1>1. Len(stack) \in 1..MAX_COPY_LEVEL
  BY EmptySeq, LenProperties, Levels
<1>2. Top \in Call /\ Top.level = Len(stack)
  BY <1>1, ElementOfSeq DEF Top
<1>3. ofs <= Top.our_ofs /\ Top.our_ofs + Top.data_left <= ofs + slice_size
  BY <1>1 DEF Top
<1>4. slice_size \in 1..SliceSize /\ ofs + slice_size <= fileSize
  BY RipperAssumption DEF slice_size, Least
<1>5. CopyLevelSize[Top.level] \in Nat \ {0}
  BY <1>1, <1>2, Levels
<1>6. chunk_size(Top) \in 0..Top.data_left /\ (Top.data_left > 0 => chunk_size(Top) > 0)
  BY <1>2, <1>5 DEF chunk_size, Least, Call
<1> QED BY <1>1, <1>2, <1>3, <1>4, <1>6

-----------------------------------------------------------------------------
(* LoopInv is inductive: first the steps that move along the disc without  *)
(* changing the nesting, then those that do.                               *)

LEMMA LoopInit == Init => LoopInv
<1> SUFFICES ASSUME Init PROVE LoopInv
  OBVIOUS
<1> USE DEF Init
<1>1. Types
  BY RipperAssumption, Levels, EmptySeq DEF Types
<1>2. Progress
  BY RipperAssumption, Products DEF Progress, Least
<1>3. Nested
  BY DEF Nested
<1> QED BY <1>1, <1>2, <1>3 DEF LoopInv

LEMMA Advanced ==
  ASSUME NEW f \in Call, chunk_size(f) \in 1..f.data_left
  PROVE  /\ Advance(f) \in Call
         /\ Advance(f).level = f.level
         /\ Advance(f).our_ofs = f.our_ofs + chunk_size(f)
         /\ Advance(f).data_left = f.data_left - chunk_size(f)
<1> DEFINE c == chunk_size(f)
           n == f.our_ofs + c
           m == f.data_left - c
<1>1. n \in Nat /\ m \in Nat
  BY DEF Call
<1> HIDE DEF n, m
<1>2. [f EXCEPT !.our_ofs = n, !.data_left = m] \in Call
  BY <1>1 DEF Call
<1>3. [f EXCEPT !.our_ofs = n, !.data_left = m] = Advance(f)
  BY DEF Advance, n, m
<1>4. /\ Advance(f).level = f.level
      /\ Advance(f).our_ofs = n
      /\ Advance(f).data_left = m
  BY <1>3 DEF Call
<1> QED BY <1>2, <1>3, <1>4 DEF n, m

(* A write ends the rip, or the innermost call is advanced by its chunk.   *)
LEMMA WriteLoop ==
  ASSUME LoopInv, Reading, NEW zeros \in BOOLEAN, WriteChunk(zeros),
         UNCHANGED <<disc, ofs, i, copy_ok>>
  PROVE  LoopInv'
<1> DEFINE L == Len(stack)
<1> USE DEF LoopInv, disc
<1>0. pc = "copying" /\ Top.data_left > 0
  BY DEF Reading
<1>1. L \in 1..MAX_COPY_LEVEL /\ Top \in Call /\ Top.level = L /\ stack \in Seq(Call)
      /\ chunk_size(Top) \in 1..Top.data_left
  BY <1>0, TopFacts DEF Types, Call
<1>2. CASE stack' = [stack EXCEPT ![Len(stack)] = Advance(@)] /\ UNCHANGED <<pc, copy_failed>>
  <2>1. /\ Advance(Top).level = L
        /\ Advance(Top).our_ofs = Top.our_ofs + chunk_size(Top)
        /\ Advance(Top).data_left = Top.data_left - chunk_size(Top)
    BY <1>1, Advanced
  <2>2. Advance(Top) \in Call
    BY <1>1, Advanced
  <2>3. stack' \in Seq(Call) /\ Len(stack') = L
        /\ \A d \in 1..L : stack'[d] = IF d = L THEN Advance(Top) ELSE stack[d]
    BY <1>1, <1>2, <2>2, ExceptSeq, LenProperties DEF Top
  <2>4. Types'
    BY <1>1, <1>2, <2>1, <2>3 DEF Types, MAX_COPY_LEVEL
  <2>5. Progress'
    BY <1>2 DEF Progress
  <2>6. slice_size' = slice_size
    BY DEF slice_size
  <2>7. \A d \in 1..(L - 1) : chunk_size(stack'[d]) = chunk_size(stack[d])
    BY <2>3, <1>1
  <2>8. \A d \in 1..L : stack[d] \in Call /\ stack'[d] \in Call
    BY <1>1, <2>3, ElementOfSeq
  <2>9. \A d \in 1..L : stack'[d].our_ofs + stack'[d].data_left =
                          stack[d].our_ofs + stack[d].data_left
                        /\ stack'[d].our_ofs >= stack[d].our_ofs
    <3>1. stack[L] = Top
      BY DEF Top
    <3>3. /\ Advance(Top).our_ofs + Advance(Top).data_left = Top.our_ofs + Top.data_left
          /\ Advance(Top).our_ofs >= Top.our_ofs
      BY <1>1, <2>1 DEF Call
    <3>4. \A d \in 1..L : stack[d].our_ofs \in Nat
      BY <2>8 DEF Call
    <3> QED BY <2>3, <3>1, <3>3, <3>4
  <2>10. stack' # <<>>
    BY <2>3, <1>1
  <2>11. \A d \in 1..L : ofs <= stack'[d].our_ofs
            /\ stack'[d].our_ofs + stack'[d].data_left <= ofs + slice_size
    <3>1. \A d \in 1..L : ofs <= stack[d].our_ofs
            /\ stack[d].our_ofs + stack[d].data_left <= ofs + slice_size
      BY <1>0 DEF Nested
    <3>2. ofs \in Int
      BY DEF Types
    <3>3. \A d \in 1..L : stack[d].our_ofs \in Int /\ stack'[d].our_ofs \in Int
      BY <2>8 DEF Call
    <3> QED BY <2>9, <3>1, <3>2, <3>3
  <2>12. ASSUME NEW d \in 1..(L - 1)
         PROVE  /\ stack'[d].data_left > 0
                /\ stack'[d + 1].our_ofs + stack'[d + 1].data_left =
                     stack'[d].our_ofs + chunk_size(stack'[d])
    <3>1. d \in 1..L /\ d + 1 \in 1..L /\ d # L
      BY <1>1
    <3>2. stack'[d] = stack[d]
      BY <3>1, <2>3
    <3>3. stack[d].data_left > 0 /\ stack[d + 1].our_ofs + stack[d + 1].data_left =
                 stack[d].our_ofs + chunk_size(stack[d])
      BY <1>0 DEF Nested
    <3> QED BY <3>1, <3>2, <3>3, <2>9
  <2>13. stack'[1].our_ofs + stack'[1].data_left = ofs + slice_size
    BY <1>0, <1>1, <2>9 DEF Nested
  <2>14. Nested'
    BY <1>0, <1>2, <2>3, <2>6, <2>10, <2>11, <2>12, <2>13 DEF Nested, chunk_size
  <2> QED BY <2>4, <2>5, <2>14
<1>3. CASE stack' = <<>> /\ copy_failed' = copy_failed + 1 /\ pc' = "done"
  <2>1. Types'
    BY <1>0, <1>3, Levels, EmptySeq DEF Types, Progress, MAX_COPY_LEVEL
  <2>2. Progress'
    BY <1>0, <1>3 DEF Progress
  <2>3. Nested'
    BY <1>3 DEF Nested
  <2> QED BY <2>1, <2>2, <2>3
<1> QED BY <1>2, <1>3 DEF WriteChunk

LEMMA LoopControl ==
  ASSUME LoopInv, StartRip \/ GiveUp \/ StartSlice \/ SliceDone \/ RipDone
  PROVE  LoopInv'
<1> USE DEF LoopInv, disc
<1>1. CASE StartRip
  <2>1. fileSize' \in 1..MaxDisc /\ bad' \subseteq 0..(fileSize' - 1)
    BY <1>1, RipperAssumption DEF StartRip
  <2>2. Types'
    BY <1>1, <2>1, EmptySeq, Levels DEF StartRip, Types, MAX_COPY_LEVEL
  <2>3. Progress'
    BY <1>1, <2>1, RipperAssumption, Products DEF StartRip, Progress, Least
  <2>4. Nested'
    BY <1>1 DEF StartRip, Nested
  <2> QED BY <2>2, <2>3, <2>4
<1>2. CASE GiveUp \/ RipDone
  <2>1. Types'
    BY <1>2 DEF GiveUp, RipDone, Types, MAX_COPY_LEVEL
  <2>2. Progress'
    BY <1>2 DEF GiveUp, RipDone, Progress
  <2>3. Nested'
    BY <1>2 DEF GiveUp, RipDone, Nested
  <2> QED BY <2>1, <2>2, <2>3
<1>3. CASE StartSlice
  <2> DEFINE first == [level |-> 1, our_ofs |-> ofs, data_left |-> slice_size]
  <2>1. slice_size \in Nat /\ first \in Call
    BY <1>3, RipperAssumption DEF StartSlice, Types, slice_size, Least, Call
  <2>2. stack' = <<first>> /\ stack' \in Seq(Call) /\ Len(stack') = 1 /\ stack'[1] = first
    BY <1>3, <2>1 DEF StartSlice
  <2>3. Types'
    BY <1>3, <2>2, Levels DEF StartSlice, Types, MAX_COPY_LEVEL
  <2>4. Progress'
    BY <1>3 DEF StartSlice, Progress
  <2>5. slice_size' = slice_size /\ pc' = "copying" /\ ofs' = ofs /\ ofs < fileSize'
    BY <1>3 DEF StartSlice, slice_size
  <2>6. ofs \in Nat
    BY DEF Types
  <2>7. Nested'
    BY <2>1, <2>2, <2>5, <2>6 DEF Nested
  <2> QED BY <2>3, <2>4, <2>7
<1>4. CASE SliceDone
  <2>1. pc = "copying" /\ ofs < fileSize /\ ofs = i * SliceSize
    BY <1>4 DEF SliceDone, Nested, Progress, Least
  <2>2. /\ i \in Nat /\ ofs \in Nat /\ fileSize \in Nat /\ SliceSize \in Nat \ {0}
        /\ i * SliceSize \in Nat /\ (i + 1) * SliceSize = i * SliceSize + SliceSize
    BY RipperAssumption, Products DEF Types
  <2>3. ofs' = Least((i + 1) * SliceSize, fileSize)
    BY <1>4, <2>1, <2>2 DEF SliceDone, slice_size, Least
  <2>4. ofs' \in 0..fileSize
    BY <2>2, <2>3 DEF Least
  <2>5. Types'
    BY <1>4, <2>4, EmptySeq, Levels DEF SliceDone, Types, MAX_COPY_LEVEL
  <2>6. Progress'
    BY <1>4, <2>1, <2>2, <2>3 DEF SliceDone, Progress
  <2>7. Nested'
    BY <1>4 DEF SliceDone, Nested
  <2> QED BY <2>5, <2>6, <2>7
<1> QED BY <1>1, <1>2, <1>3, <1>4

LEMMA LoopSmaller ==
  ASSUME LoopInv, SmallerChunks
  PROVE  LoopInv'
<1> DEFINE L == Len(stack)
           inner == [level |-> Top.level + 1, our_ofs |-> Top.our_ofs,
                     data_left |-> chunk_size(Top)]
<1> USE DEF LoopInv, disc
<1>1. pc = "copying" /\ Top.data_left > 0
  BY DEF SmallerChunks, Reading
<1>2. /\ L \in 1..MAX_COPY_LEVEL /\ Top \in Call /\ Top.level = L /\ stack \in Seq(Call)
      /\ chunk_size(Top) \in 1..Top.data_left /\ Top.our_ofs \in Nat /\ Top.data_left \in Nat
  BY <1>1, TopFacts DEF Types, Call
<1>3. inner \in Call
  BY <1>2 DEF Call
<1>4. /\ stack' \in Seq(Call) /\ Len(stack') = L + 1 /\ stack' # <<>>
      /\ \A d \in 1..L : stack'[d] = stack[d]
      /\ stack'[L + 1] = inner
  BY <1>2, <1>3, AppendProperties DEF SmallerChunks
<1>5. Types'
  BY <1>2, <1>4, Levels DEF SmallerChunks, Types, MAX_COPY_LEVEL
<1>6. Progress'
  BY DEF SmallerChunks, Progress
<1>7. Nested'
  <2>1. UNCHANGED <<pc, ofs, fileSize>> /\ slice_size' = slice_size
    BY DEF SmallerChunks, slice_size
  <2>2. stack'[1].our_ofs + stack'[1].data_left = ofs + slice_size
    BY <1>1, <1>2, <1>4 DEF Nested
  <2>3. /\ ofs <= inner.our_ofs
        /\ inner.our_ofs + inner.data_left <= ofs + slice_size
    BY <1>1, <1>2, TopFacts DEF Types
  <2>4. \A d \in 1..(L + 1) : ofs <= stack'[d].our_ofs
           /\ stack'[d].our_ofs + stack'[d].data_left <= ofs + slice_size
    BY <1>1, <1>2, <1>4, <2>3 DEF Nested
  <2>5. ASSUME NEW d \in 1..L
        PROVE  /\ stack'[d].data_left > 0
               /\ stack'[d + 1].our_ofs + stack'[d + 1].data_left =
                    stack'[d].our_ofs + chunk_size(stack'[d])
    <3>1. CASE d = L
      BY <1>1, <1>2, <1>4, <3>1 DEF Top
    <3>2. CASE d # L
      BY <1>1, <1>2, <1>4, <3>2 DEF Nested
    <3> QED BY <3>1, <3>2
  <2> QED BY <1>1, <1>2, <1>4, <2>1, <2>2, <2>4, <2>5 DEF Nested, chunk_size
<1> QED BY <1>5, <1>6, <1>7

(* The caller skips the chunk it had its inner call copy, and that is where *)
(* the inner call has come to.                                             *)
LEMMA Returned ==
  ASSUME LoopInv, Return
  PROVE  LET L == Len(stack)  caller == L - 1  f == stack[caller] IN
         /\ pc = "copying" /\ L \in 2..MAX_COPY_LEVEL /\ caller \in 1..(L - 1)
         /\ f \in Call /\ chunk_size(f) \in 1..f.data_left
         /\ Advance(f) \in Call /\ Advance(f).level = caller
         /\ Advance(f).our_ofs = f.our_ofs + chunk_size(f)
         /\ Advance(f).data_left = f.data_left - chunk_size(f)
         /\ Top.our_ofs = f.our_ofs + chunk_size(f)
         /\ stack' \in Seq(Call) /\ Len(stack') = caller
         /\ \A d \in 1..caller : stack'[d] = IF d = caller THEN Advance(f) ELSE stack[d]
<1> DEFINE L == Len(stack)
           caller == L - 1
           f == stack[caller]
<1> USE DEF LoopInv, disc
<1>1. pc = "copying" /\ Top.data_left = 0 /\ L > 1
  BY DEF Return
<1>2. /\ L \in 1..MAX_COPY_LEVEL /\ Top \in Call /\ Top.level = L /\ stack \in Seq(Call)
      /\ L \in Nat /\ caller \in 1..(L - 1) /\ caller \in 1..L
  BY <1>1, TopFacts, LenProperties DEF Types
<1>3. f \in Call /\ f.level = caller /\ CopyLevelSize[f.level] \in Nat \ {0}
  BY <1>2, ElementOfSeq, Levels DEF Types
<1>4. f.data_left > 0 /\ Top.our_ofs = f.our_ofs + chunk_size(f)
  <2>1. /\ f.data_left > 0
        /\ stack[caller + 1].our_ofs + stack[caller + 1].data_left = f.our_ofs + chunk_size(f)
    BY <1>1, <1>2 DEF Nested
  <2>2. stack[caller + 1] = Top
    BY <1>2 DEF Top
  <2>3. Top.our_ofs + 0 = Top.our_ofs
    BY <1>2 DEF Call
  <2> QED BY <1>1, <2>1, <2>2, <2>3
<1>5. chunk_size(f) \in 1..f.data_left
  BY <1>3, <1>4 DEF chunk_size, Least, Call
<1>6. /\ Advance(f) \in Call /\ Advance(f).level = caller
      /\ Advance(f).our_ofs = f.our_ofs + chunk_size(f)
      /\ Advance(f).data_left = f.data_left - chunk_size(f)
  BY <1>3, <1>5, Advanced
<1>7. /\ SubSeq(stack, 1, caller) \in Seq(Call) /\ Len(SubSeq(stack, 1, caller)) = caller
      /\ \A d \in 1..caller : SubSeq(stack, 1, caller)[d] = stack[d]
  BY <1>2, SubSeqProperties, ElementOfSeq
<1>8. /\ stack' \in Seq(Call) /\ Len(stack') = caller
      /\ \A d \in 1..caller : stack'[d] = IF d = caller THEN Advance(f) ELSE stack[d]
  <2> DEFINE sub == SubSeq(stack, 1, caller)
  <2>1. sub[caller] = f
    BY <1>2, <1>7
  <2>2. stack' = [sub EXCEPT ![caller] = Advance(f)]
    BY <2>1 DEF Return
  <2> HIDE DEF sub
  <2>3. /\ stack' \in Seq(Call) /\ Len(stack') = Len(sub)
        /\ \A d \in 1..Len(sub) : stack'[d] = IF d = caller THEN Advance(f) ELSE sub[d]
    <3>1. sub \in Seq(Call) /\ caller \in 1..Len(sub)
      BY <1>2, <1>7 DEF sub
    <3> QED BY <1>6, <2>2, <3>1, ExceptSeq
  <2> QED BY <2>3, <1>7 DEF sub
<1> QED BY <1>1, <1>2, <1>3, <1>4, <1>5, <1>6, <1>8

LEMMA LoopReturn ==
  ASSUME LoopInv, Return
  PROVE  LoopInv'
<1> DEFINE L == Len(stack)
           caller == L - 1
           f == stack[caller]
<1> USE DEF LoopInv, disc
<1>1. /\ pc = "copying" /\ L \in 2..MAX_COPY_LEVEL /\ L \in Nat /\ caller \in 1..(L - 1)
      /\ stack \in Seq(Call) /\ f \in Call /\ chunk_size(f) \in 1..f.data_left
      /\ Advance(f) \in Call /\ Advance(f).level = caller
      /\ Advance(f).our_ofs = f.our_ofs + chunk_size(f)
      /\ Advance(f).data_left = f.data_left - chunk_size(f)
      /\ stack' \in Seq(Call) /\ Len(stack') = caller
      /\ \A d \in 1..caller : stack'[d] = IF d = caller THEN Advance(f) ELSE stack[d]
  BY Returned DEF Types
<1>2. Types'
  <2>1. caller \in 0..MAX_COPY_LEVEL /\ MAX_COPY_LEVEL \in Nat
    BY <1>1, Levels
  <2>2. \A d \in 1..caller : stack'[d].level = d
    BY <1>1 DEF Types
  <2>3. UNCHANGED <<pc, fileSize, bad, ofs, i, copy_ok, copy_failed>>
    BY DEF Return
  <2> QED BY <1>1, <2>1, <2>2, <2>3 DEF Types, MAX_COPY_LEVEL
<1>3. Progress'
  BY DEF Return, Progress
<1>4. Nested'
  <2>1. UNCHANGED <<pc, ofs, fileSize>> /\ slice_size' = slice_size /\ stack' # <<>>
    <3>1. stack' # <<>>
      BY <1>1
    <3> QED BY <3>1 DEF Return, slice_size
  <2>2. \A d \in 1..caller : stack[d] \in Call /\ stack'[d] \in Call
    BY <1>1, ElementOfSeq
  <2>3. \A d \in 1..caller : stack'[d].our_ofs + stack'[d].data_left =
                               stack[d].our_ofs + stack[d].data_left
                             /\ stack'[d].our_ofs >= stack[d].our_ofs
    <3>1. /\ Advance(f).our_ofs + Advance(f).data_left = f.our_ofs + f.data_left
          /\ Advance(f).our_ofs >= f.our_ofs
      <4>1. /\ f.our_ofs \in Nat /\ f.data_left \in Nat
            /\ chunk_size(f) \in 1..f.data_left
        BY <1>1 DEF Call
      <4>2. /\ Advance(f).our_ofs = f.our_ofs + chunk_size(f)
            /\ Advance(f).data_left = f.data_left - chunk_size(f)
        BY <1>1
      <4> QED BY <4>1, <4>2
    <3>2. \A d \in 1..caller : stack[d].our_ofs \in Nat
      BY <2>2 DEF Call
    <3> QED BY <1>1, <3>1, <3>2
  <2>4. stack'[1].our_ofs + stack'[1].data_left = ofs + slice_size
    BY <1>1, <2>3 DEF Nested
  <2>5. \A d \in 1..caller : ofs <= stack'[d].our_ofs
           /\ stack'[d].our_ofs + stack'[d].data_left <= ofs + slice_size
    <3>1. \A d \in 1..caller : ofs <= stack[d].our_ofs
             /\ stack[d].our_ofs + stack[d].data_left <= ofs + slice_size
      BY <1>1 DEF Nested
    <3>2. ofs \in Int /\ \A d \in 1..caller : stack[d].our_ofs \in Int /\ stack'[d].our_ofs \in Int
      <4>1. ofs \in Int
        BY DEF Types
      <4> QED BY <2>2, <4>1 DEF Call
    <3> QED BY <2>3, <3>1, <3>2
  <2>6. ASSUME NEW d \in 1..(caller - 1)
        PROVE  /\ stack'[d].data_left > 0
               /\ stack'[d + 1].our_ofs + stack'[d + 1].data_left =
                    stack'[d].our_ofs + chunk_size(stack'[d])
    <3>1. d \in 1..caller /\ d + 1 \in 1..caller /\ d # caller /\ d \in 1..(L - 1)
      BY <1>1
    <3>2. stack'[d] = stack[d]
      BY <3>1, <1>1
    <3>3. stack[d].data_left > 0 /\ stack[d + 1].our_ofs + stack[d + 1].data_left =
                 stack[d].our_ofs + chunk_size(stack[d])
      BY <1>1, <3>1 DEF Nested
    <3> QED BY <3>1, <3>2, <3>3, <2>3
  <2> QED BY <1>1, <2>1, <2>4, <2>5, <2>6 DEF Nested, chunk_size
<1> QED BY <1>2, <1>3, <1>4

LEMMA LoopStep == LoopInv /\ [Next]_vars => LoopInv'
<1> SUFFICES ASSUME LoopInv, [Next]_vars
             PROVE  LoopInv'
  OBVIOUS
<1>1. CASE StartRip \/ GiveUp \/ StartSlice \/ SliceDone \/ RipDone
  BY <1>1, LoopControl
<1>2. CASE CopyChunk
  BY <1>2, WriteLoop DEF CopyChunk
<1>3. CASE ZeroSector
  BY <1>3, WriteLoop DEF ZeroSector
<1>4. CASE SmallerChunks
  BY <1>4, LoopSmaller
<1>5. CASE Return
  BY <1>5, LoopReturn
<1>6. CASE UNCHANGED vars
  BY <1>6 DEF vars, disc, LoopInv, Types, Progress, Nested, slice_size, chunk_size,
              MAX_COPY_LEVEL
<1> QED BY <1>1, <1>2, <1>3, <1>4, <1>5, <1>6 DEF Next, RipStep

LEMMA LoopAlways == Spec => []LoopInv
<1>1. Init => LoopInv
  BY LoopInit
<1>2. LoopInv /\ [Next]_vars => LoopInv'
  BY LoopStep
<1> QED BY <1>1, <1>2, PTL DEF Spec

(* A rip is in a state the code knows, for every disc: no call of          *)
(* IsoCopySlice is deeper than there are chunk sizes, and none has more to *)
(* copy than a slice holds.                                                *)
THEOREM TypeCorrect == Spec => []TypeOK
<1>1. LoopInv => TypeOK
  <2> SUFFICES ASSUME LoopInv PROVE TypeOK
    OBVIOUS
  <2> USE DEF LoopInv
  <2>1. DOMAIN stack = 1..Len(stack) /\ \A d \in 1..Len(stack) : stack[d] \in Call
    BY LenProperties, ElementOfSeq DEF Types
  <2>2. ASSUME NEW d \in 1..Len(stack)
        PROVE  stack[d].level = d /\ stack[d].data_left \in 0..SliceSize
    <3>1. pc = "copying"
      BY <2>1 DEF Nested
    <3>2. ofs <= stack[d].our_ofs /\ stack[d].our_ofs + stack[d].data_left <= ofs + slice_size
      BY <3>1 DEF Nested
    <3>3. slice_size \in 1..SliceSize
      BY <3>1, TopFacts
    <3>4. ofs \in Nat /\ SliceSize \in Nat
      BY RipperAssumption DEF Types
    <3>5. stack[d].our_ofs \in Nat /\ stack[d].data_left \in Nat
      BY <2>1 DEF Call
    <3>6. stack[d].level = d
      BY <2>1 DEF Types
    <3> QED BY <3>2, <3>3, <3>4, <3>5, <3>6
  <2> QED BY <2>1, <2>2 DEF Types, TypeOK
<1> QED BY <1>1, LoopAlways, PTL

(* An image that is reported without a failure is whole: a rip that ends   *)
(* before the last sector has counted a failed slice (IsoRipper).          *)
THEOREM WholeImageCorrect == Spec => []WholeImage
<1>1. LoopInv => WholeImage
  <2> SUFFICES ASSUME LoopInv, pc = "done", copy_failed = 0
               PROVE  copy_ok * SliceSize >= fileSize
    BY DEF WholeImage
  <2>1. ofs >= fileSize /\ ofs = Least(copy_ok * SliceSize, fileSize)
    BY DEF LoopInv, Progress
  <2>2. copy_ok * SliceSize \in Nat /\ fileSize \in Nat
    BY RipperAssumption, Products DEF LoopInv, Types
  <2> QED BY <2>1, <2>2 DEF Least
<1> QED BY <1>1, LoopAlways, PTL

-----------------------------------------------------------------------------
(* What is in the files.                                                   *)

FilesType == files \in [DOMAIN files -> Seq(Int)]

(* The slice being written holds the disc up to where the innermost call   *)
(* is; the calls around it have not noticed yet.                           *)
Current ==
  pc = "copying" =>
    /\ SliceName[i] \in DOMAIN files
    /\ Len(files[SliceName[i]]) = Top.our_ofs - ofs
    /\ \A j \in 1..(Top.our_ofs - ofs) : files[SliceName[i]][j] = Content(ofs + j - 1)

ImageInv == FilesType /\ Current /\ SlicesExact

(* The slices a disc can have are written under different names.  For a    *)
(* title that leaves no room for the number they are not, see getFatxName. *)
DistinctNames ==
  \A j, k \in 0..MaxDisc :
    j * SliceSize < MaxDisc /\ k * SliceSize < MaxDisc /\ SliceName[j] = SliceName[k] => j = k

LEMMA SliceNumbers ==
  ASSUME LoopInv
  PROVE  /\ copy_ok = i
         /\ pc = "copying" \/ (pc = "slices" /\ ofs < fileSize) =>
              ofs = i * SliceSize /\ i \in 0..MaxDisc /\ i * SliceSize < MaxDisc
         /\ \A k \in 0..(i - 1) : k \in 0..MaxDisc /\ k * SliceSize < MaxDisc
<1> USE DEF LoopInv, Types, Progress
<1>1. i \in Nat /\ fileSize \in 0..MaxDisc /\ SliceSize \in Nat \ {0} /\ MaxDisc \in Nat
  BY RipperAssumption
<1>2. ASSUME pc = "copying" \/ (pc = "slices" /\ ofs < fileSize)
      PROVE  ofs = i * SliceSize /\ i \in 0..MaxDisc /\ i * SliceSize < MaxDisc
  <2>1. ofs < fileSize
    BY <1>2 DEF Nested
  <2>2. ofs = i * SliceSize
    BY <2>1 DEF Least
  <2>3. i <= i * SliceSize /\ i * SliceSize \in Nat
    BY <1>1, Products
  <2> QED BY <1>1, <2>1, <2>2, <2>3
<1>3. ASSUME NEW k \in 0..(i - 1)
      PROVE  k \in 0..MaxDisc /\ k * SliceSize < MaxDisc
  <2>1. (i - 1) * SliceSize < fileSize /\ i - 1 \in Nat
    BY <1>1
  <2>2. k \in Nat /\ k <= i - 1 /\ k <= k * SliceSize /\ k * SliceSize \in Nat
    BY <1>1, Products
  <2>3. k * SliceSize <= (i - 1) * SliceSize
    BY <1>1, <2>1, <2>2
  <2>4. (i - 1) * SliceSize \in Nat
    BY <1>1, <2>1, Products
  <2> QED BY <1>1, <2>1, <2>2, <2>3, <2>4
<1> QED BY <1>2, <1>3

LEMMA WrittenFacts ==
  ASSUME LoopInv, ImageInv, pc = "copying",
         NEW zeros \in BOOLEAN, NEW n \in 0..chunk_size(Top),
         files' = Written(n, zeros)
  PROVE  /\ FilesType'
         /\ DOMAIN files' = DOMAIN files
         /\ \A f \in DOMAIN files : f # SliceName[i] => files'[f] = files[f]
         /\ Len(files'[SliceName[i]]) = Top.our_ofs - ofs + n
         /\ \A j \in 1..(Top.our_ofs - ofs + n) : files'[SliceName[i]][j] =
              IF j <= Top.our_ofs - ofs THEN Content(ofs + j - 1)
              ELSE IF zeros THEN Zeros ELSE ofs + j - 1
<1> DEFINE f == SliceName[i]
           sofar == files[f]
           more == [k \in 1..n |-> IF zeros THEN Zeros ELSE Top.our_ofs + k - 1]
           m == Top.our_ofs - ofs
<1>1. /\ f \in DOMAIN files /\ sofar \in Seq(Int) /\ Len(sofar) = m
      /\ \A j \in 1..m : sofar[j] = Content(ofs + j - 1)
  BY DEF ImageInv, Current, FilesType
<1>2. /\ Top.our_ofs \in Nat /\ ofs \in Nat /\ ofs <= Top.our_ofs /\ n \in Nat /\ m \in Nat
  <2>1. Top \in Call /\ ofs <= Top.our_ofs /\ chunk_size(Top) \in 0..Top.data_left
    BY TopFacts
  <2>2. Top.our_ofs \in Nat /\ Top.data_left \in Nat
    BY <2>1 DEF Call
  <2>3. ofs \in Nat
    <3>1. fileSize \in 0..MaxDisc /\ ofs \in 0..fileSize
      BY DEF LoopInv, Types
    <3> QED BY <3>1, RipperAssumption
  <2>4. n \in Nat
    <3>1. chunk_size(Top) \in Nat
      BY <2>1, <2>2
    <3> QED BY <3>1
  <2> QED BY <2>1, <2>2, <2>3, <2>4
<1>3. more \in Seq(Int) /\ Len(more) = n
      /\ \A k \in 1..n : more[k] = IF zeros THEN Zeros ELSE Top.our_ofs + k - 1
  BY <1>2 DEF Zeros
<1>4. files' = [files EXCEPT ![f] = sofar \o more]
  BY DEF Written, Top
<1> HIDE DEF sofar, more, f
<1>5. /\ sofar \o more \in Seq(Int) /\ Len(sofar \o more) = m + n
      /\ \A j \in 1..(m + n) : (sofar \o more)[j] = IF j <= m THEN sofar[j] ELSE more[j - m]
  <2>1. Len(sofar) = m /\ Len(more) = n /\ sofar \in Seq(Int) /\ more \in Seq(Int)
    BY <1>1, <1>3
  <2> HIDE DEF m
  <2> QED BY <2>1, ConcatProperties
<1>6. files'[f] = sofar \o more /\ DOMAIN files' = DOMAIN files
      /\ \A g \in DOMAIN files : g # f => files'[g] = files[g]
  BY <1>1, <1>4
<1>7. FilesType'
  BY <1>4, <1>5 DEF FilesType, ImageInv
<1>8. ASSUME NEW j \in 1..(m + n)
      PROVE  files'[f][j] = IF j <= m THEN Content(ofs + j - 1)
                            ELSE IF zeros THEN Zeros ELSE ofs + j - 1
  <2>1. CASE j <= m
    BY <1>1, <1>2, <1>5, <1>6, <2>1
  <2>2. CASE ~(j <= m)
    <3>1. j - m \in 1..n /\ Top.our_ofs + (j - m) - 1 = ofs + j - 1
      BY <1>2, <2>2
    <3>2. files'[f][j] = more[j - m]
      BY <1>5, <1>6, <2>2
    <3> HIDE DEF m
    <3> QED BY <1>3, <2>2, <3>1, <3>2
  <2> QED BY <2>1, <2>2
<1> QED BY <1>5, <1>6, <1>7, <1>8 DEF f

(* What is written for a chunk is what the disc holds there.               *)
LEMMA ChunkContent ==
  ASSUME LoopInv, NEW zeros \in BOOLEAN, Reading,
         zeros => ~Readable /\ Top.level = MAX_COPY_LEVEL,
         ~zeros => Readable,
         NEW s \in Top.our_ofs..(Top.our_ofs + chunk_size(Top) - 1)
  PROVE  Content(s) = IF zeros THEN Zeros ELSE s
<1>1. Top \in Call /\ chunk_size(Top) \in 1..Top.data_left
  BY TopFacts DEF Reading, Call
<1>2. Top.our_ofs \in Nat /\ chunk_size(Top) \in Nat /\ Top.data_left \in Nat /\ Top.data_left > 0
  BY <1>1 DEF Call, Reading
<1>3. CASE zeros
  <2>1. chunk_size(Top) = 1
    BY <1>2, <1>3, Levels DEF chunk_size, Least
  <2>2. PICK b \in bad : Top.our_ofs <= b /\ b < Top.our_ofs + chunk_size(Top)
    BY <1>3 DEF Readable
  <2>3. b \in Int /\ s = b
    BY <1>2, <2>1, <2>2 DEF LoopInv, Types
  <2> QED BY <1>3, <2>3 DEF Content
<1>4. CASE ~zeros
  <2>1. s \notin bad
    BY <1>2, <1>4 DEF Readable
  <2> QED BY <1>4, <2>1 DEF Content
<1> QED BY <1>3, <1>4

LEMMA WriteImage ==
  ASSUME LoopInv, ImageInv, DistinctNames, NEW zeros \in BOOLEAN, Reading,
         zeros => ~Readable /\ Top.level = MAX_COPY_LEVEL,
         ~zeros => Readable,
         WriteChunk(zeros), UNCHANGED <<disc, ofs, i, copy_ok>>
  PROVE  ImageInv'
<1> DEFINE c == chunk_size(Top)
<1>0. pc = "copying"
  BY DEF Reading
<1>1. /\ Top \in Call /\ c \in 1..Top.data_left /\ Len(stack) \in 1..MAX_COPY_LEVEL
      /\ Top.our_ofs \in Nat /\ ofs \in Nat /\ ofs <= Top.our_ofs /\ c \in Nat
  BY <1>0, TopFacts DEF Reading, LoopInv, Types, Call
<1>2. PICK n \in 0..c :
        /\ files' = Written(n, zeros)
        /\ \/ n = c /\ pc' = pc /\ stack' = [stack EXCEPT ![Len(stack)] = Advance(@)]
           \/ pc' = "done"
  BY <1>1 DEF WriteChunk
<1>3. FilesType'
  BY <1>0, <1>2, WrittenFacts
<1>4. Current'
  <2>1. CASE pc' = "done"
    BY <2>1 DEF Current
  <2>2. CASE n = c /\ pc' = pc /\ stack' = [stack EXCEPT ![Len(stack)] = Advance(@)]
    <3>1. Advance(Top).our_ofs = Top.our_ofs + c /\ Advance(Top) \in Call
      BY <1>1, Advanced
    <3>2. Top'.our_ofs = Top.our_ofs + c
      BY <1>1, <2>2, <3>1, ExceptSeq DEF Top, LoopInv, Types
    <3>3. \A j : Content(ofs + j - 1)' = Content(ofs + j - 1)
      BY DEF Content, disc
    <3>4. /\ DOMAIN files' = DOMAIN files
          /\ Len(files'[SliceName[i]]) = Top.our_ofs - ofs + c
          /\ \A j \in 1..(Top.our_ofs - ofs + c) : files'[SliceName[i]][j] =
               IF j <= Top.our_ofs - ofs THEN Content(ofs + j - 1)
               ELSE IF zeros THEN Zeros ELSE ofs + j - 1
      BY <1>0, <1>2, <2>2, WrittenFacts
    <3>5. ASSUME NEW j \in 1..(Top.our_ofs + c - ofs)
          PROVE  files'[SliceName[i]][j] = Content(ofs + j - 1)
      <4>1. CASE j <= Top.our_ofs - ofs
        BY <1>1, <3>4, <4>1
      <4>2. CASE ~(j <= Top.our_ofs - ofs)
        <5>1. ofs + j - 1 \in Top.our_ofs..(Top.our_ofs + c - 1)
          BY <1>1, <4>2
        <5>2. Content(ofs + j - 1) = IF zeros THEN Zeros ELSE ofs + j - 1
          BY <5>1, ChunkContent
        <5> QED BY <1>1, <3>4, <4>2, <5>2
      <4> QED BY <4>1, <4>2
    <3>6. SliceName[i] \in DOMAIN files'
      BY <1>0, <3>4 DEF ImageInv, Current
    <3>7. Top.our_ofs - ofs + c = Top.our_ofs + c - ofs
      BY <1>1
    <3>8. \A j \in 1..(Top.our_ofs + c - ofs) : files'[SliceName[i]][j] = Content(ofs + j - 1)'
      BY <3>3, <3>5
    <3>9. /\ Len(files'[SliceName[i']]) = Top'.our_ofs - ofs'
          /\ \A j \in 1..(Top'.our_ofs - ofs') :
               files'[SliceName[i']][j] = Content(ofs + j - 1)'
      <4>1. i' = i /\ ofs' = ofs /\ Top'.our_ofs - ofs' = Top.our_ofs + c - ofs
        BY <1>1, <3>2
      <4> HIDE DEF c
      <4> QED BY <3>4, <3>7, <3>8, <4>1
    <3> QED BY <3>6, <3>9 DEF Current, Content, disc
  <2> QED BY <1>2, <2>1, <2>2
<1>5. SlicesExact'
  <2>1. ASSUME NEW k \in 0..(copy_ok - 1)
        PROVE  SliceName[k] \in DOMAIN files' /\ files'[SliceName[k]] = Slice(k)
    <3>1. SliceName[k] \in DOMAIN files /\ files[SliceName[k]] = Slice(k)
      BY DEF ImageInv, SlicesExact
    <3>2. SliceName[k] # SliceName[i]
      BY <1>0, SliceNumbers DEF DistinctNames, LoopInv, Types
    <3> QED BY <1>0, <1>2, <3>1, <3>2, WrittenFacts
  <2>2. \A k : Slice(k)' = Slice(k)
    BY DEF Slice, Content, disc
  <2> QED BY <2>1, <2>2 DEF SlicesExact
<1> QED BY <1>3, <1>4, <1>5 DEF ImageInv

LEMMA ControlImage ==
  ASSUME LoopInv, ImageInv, DistinctNames,
         StartRip \/ GiveUp \/ StartSlice \/ SliceDone \/ RipDone
  PROVE  ImageInv'
<1>1. CASE StartRip
  <2>1. files' = [n \in {} |-> <<>>] /\ copy_ok' = 0 /\ pc' = "slices"
    BY <1>1 DEF StartRip
  <2> QED BY <2>1 DEF ImageInv, FilesType, Current, SlicesExact
<1>2. CASE GiveUp \/ RipDone
  BY <1>2 DEF GiveUp, RipDone, disc, ImageInv, FilesType, Current, SlicesExact, Slice, Content
<1>3. CASE StartSlice
  <2> DEFINE f == SliceName[i]
  <2>1. /\ files' = [n \in DOMAIN files \cup {f} |-> IF n = f THEN <<>> ELSE files[n]]
        /\ Len(stack') = 1 /\ stack'[1].our_ofs = ofs
        /\ UNCHANGED <<fileSize, bad, ofs, i, copy_ok>>
    BY <1>3 DEF StartSlice, disc
  <2>2. files'[f] = <<>> /\ DOMAIN files' = DOMAIN files \cup {f}
        /\ \A g \in DOMAIN files : g # f => files'[g] = files[g]
    BY <2>1
  <2>3. FilesType'
    BY <2>1 DEF ImageInv, FilesType
  <2>4. Top'.our_ofs = ofs /\ ofs \in Nat
    BY <2>1 DEF Top, LoopInv, Types
  <2>5. Current'
    BY <2>1, <2>2, <2>4 DEF Current
  <2>6. ASSUME NEW k \in 0..(copy_ok - 1)
        PROVE  SliceName[k] \in DOMAIN files' /\ files'[SliceName[k]] = Slice(k)
    <3>1. SliceName[k] \in DOMAIN files /\ files[SliceName[k]] = Slice(k)
      BY DEF ImageInv, SlicesExact
    <3>2. SliceName[k] # SliceName[i]
      BY <1>3, SliceNumbers DEF DistinctNames, LoopInv, Types, StartSlice
    <3> QED BY <2>2, <3>1, <3>2
  <2>7. SlicesExact'
    <3>1. \A k : Slice(k)' = Slice(k)
      BY <2>1 DEF Slice, Content
    <3> QED BY <2>1, <2>6, <3>1 DEF SlicesExact
  <2> QED BY <2>3, <2>5, <2>7 DEF ImageInv
<1>4. CASE SliceDone
  <2>1. /\ pc = "copying" /\ Len(stack) = 1 /\ Top = stack[1] /\ Top.data_left = 0
        /\ UNCHANGED <<fileSize, bad, files>> /\ pc' = "slices" /\ copy_ok' = copy_ok + 1
    BY <1>4 DEF SliceDone, Top, disc
  <2>2. FilesType' /\ Current'
    BY <2>1 DEF ImageInv, FilesType, Current
  <2>3. /\ ofs = i * SliceSize /\ copy_ok = i /\ i \in Nat /\ ofs \in Nat
        /\ slice_size \in 1..SliceSize
    BY <2>1, SliceNumbers, TopFacts DEF LoopInv, Types
  <2>4. Top.our_ofs = ofs + slice_size
    <3>1. Top.our_ofs + Top.data_left = ofs + slice_size
      BY <2>1 DEF LoopInv, Nested
    <3>2. Top.our_ofs \in Nat
      BY <2>1, TopFacts DEF Call
    <3> QED BY <2>1, <3>1, <3>2
  <2>5. /\ SliceName[i] \in DOMAIN files /\ files[SliceName[i]] \in Seq(Int)
        /\ Len(files[SliceName[i]]) = slice_size
        /\ \A j \in 1..slice_size : files[SliceName[i]][j] = Content(ofs + j - 1)
    <3>1. Top.our_ofs - ofs = slice_size
      BY <2>3, <2>4
    <3> QED BY <2>1, <3>1 DEF ImageInv, Current, FilesType
  <2>6. files[SliceName[i]] = Slice(i)
    <3>1. Slice(i) = [j \in 1..slice_size |-> Content(ofs + j - 1)]
      BY <2>3 DEF Slice, slice_size
    <3>2. files[SliceName[i]] \in [1..slice_size -> Int]
      BY <2>5, LenProperties
    <3> HIDE DEF Slice
    <3> QED BY <2>5, <3>1, <3>2
  <2>7. SlicesExact'
    <3>1. ASSUME NEW k \in 0..(copy_ok' - 1)
          PROVE  SliceName[k] \in DOMAIN files /\ files[SliceName[k]] = Slice(k)
      <4>1. CASE k = i
        BY <2>5, <2>6, <4>1
      <4>2. CASE k # i
        BY <2>1, <2>3, <4>2 DEF ImageInv, SlicesExact
      <4> QED BY <4>1, <4>2
    <3> QED BY <2>1, <3>1 DEF SlicesExact, Slice, Content
  <2> QED BY <2>2, <2>7 DEF ImageInv
<1> QED BY <1>1, <1>2, <1>3, <1>4

(* A smaller chunk starts where the larger one did, and a call that        *)
(* returns leaves its caller where it was itself.                          *)
LEMMA NestingImage ==
  ASSUME LoopInv, ImageInv, SmallerChunks \/ Return
  PROVE  ImageInv'
<1>1. UNCHANGED <<pc, fileSize, bad, ofs, i, files, copy_ok>>
  BY DEF SmallerChunks, Return, disc
<1>2. Top'.our_ofs = Top.our_ofs
  <2>1. CASE SmallerChunks
    <3> DEFINE inner == [level |-> Top.level + 1, our_ofs |-> Top.our_ofs,
                         data_left |-> chunk_size(Top)]
    <3>1. pc = "copying" /\ Top.data_left > 0
      BY <2>1 DEF SmallerChunks, Reading
    <3>2. inner \in Call /\ stack \in Seq(Call)
      <4>1. Top \in Call /\ chunk_size(Top) \in 0..Top.data_left
        BY <3>1, TopFacts
      <4>2. chunk_size(Top) \in Nat
        BY <4>1 DEF Call
      <4> QED BY <4>1, <4>2 DEF Call, LoopInv, Types
    <3>3. Len(stack') = Len(stack) + 1 /\ stack'[Len(stack) + 1] = inner
      BY <2>1, <3>2, AppendProperties DEF SmallerChunks
    <3> QED BY <3>3 DEF Top
  <2>2. CASE Return
    <3>1. Len(stack') \in 1..Len(stack')
      BY <2>2, Returned
    <3> QED BY <2>2, <3>1, Returned DEF Top
  <2> QED BY <2>1, <2>2
<1>3. FilesType' /\ Current'
  BY <1>1, <1>2 DEF ImageInv, FilesType, Current, Content
<1>4. SlicesExact'
  BY <1>1 DEF ImageInv, SlicesExact, Slice, Content
<1> QED BY <1>3, <1>4 DEF ImageInv

LEMMA ImageStep ==
  ASSUME DistinctNames
  PROVE  LoopInv /\ ImageInv /\ [Next]_vars => ImageInv'
<1> SUFFICES ASSUME LoopInv, ImageInv, [Next]_vars
             PROVE  ImageInv'
  OBVIOUS
<1>1. CASE StartRip \/ GiveUp \/ StartSlice \/ SliceDone \/ RipDone
  BY <1>1, ControlImage
<1>2. CASE CopyChunk
  BY <1>2, WriteImage DEF CopyChunk
<1>3. CASE ZeroSector
  BY <1>3, WriteImage DEF ZeroSector
<1>4. CASE SmallerChunks \/ Return
  BY <1>4, NestingImage
<1>5. CASE UNCHANGED vars
  BY <1>5 DEF vars, disc, ImageInv, FilesType, Current, SlicesExact, Slice, Content, Top
<1> QED BY <1>1, <1>2, <1>3, <1>4, <1>5 DEF Next, RipStep

(* The slices put together are the disc, whichever sectors are bad,        *)
(* however many chunk sizes there are and whatever they are; provided the  *)
(* slices' files have different names (IsoRipper, IsoCopySlice).           *)
THEOREM SlicesExactCorrect ==
  ASSUME DistinctNames
  PROVE  Spec => []SlicesExact
<1>1. Init => ImageInv
  BY DEF Init, ImageInv, FilesType, Current, SlicesExact
<1>2. LoopInv /\ ImageInv /\ [Next]_vars => ImageInv'
  BY ImageStep
<1>3. ImageInv => SlicesExact
  BY DEF ImageInv
<1> QED BY <1>1, <1>2, <1>3, LoopAlways, PTL DEF Spec
====
