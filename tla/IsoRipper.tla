----------------------------- MODULE IsoRipper -----------------------------
(***************************************************************************)
(* The copy of a disc to an image (D2Xfilecopy::IsoRipper), written in     *)
(* slices of at most 4 GB.  IsoCopySlice reads a slice in large chunks; a  *)
(* chunk that cannot be read it reads again in smaller ones, and a single  *)
(* sector that cannot be read it replaces with zeros.                      *)
(*                                                                         *)
(* The unit is a sector of 2 KB.  A file is the sequence of the sectors it *)
(* holds, Zeros for one that was replaced.  Left out: the attach file, and *)
(* i_process, which only the progress bar reads.                           *)
(***************************************************************************)
EXTENDS Integers, Sequences

CONSTANTS
  MaxDisc,        \* BOUND on the size of the disc
  SliceSize,      \* DEFAULT_ISO_SLICE_SIZE
  CopyLevelSize,  \* copy_level_size, from large chunks to single sectors
  Bad,            \* the sets of sectors that may be unreadable
  SliceName,      \* getFatxNameStr of "<title>.part <i>.iso"
  WritesFail,     \* whether the target may run out of space
  OpensFail       \* whether a file or directory may fail to be created

ASSUME RipperAssumption ==
  /\ MaxDisc \in Nat /\ SliceSize \in Nat \ {0}
  /\ CopyLevelSize \in Seq(Nat \ {0}) /\ CopyLevelSize # <<>>
  /\ CopyLevelSize[Len(CopyLevelSize)] = 1
  /\ Bad \subseteq SUBSET Nat
  /\ SliceName \in [0..MaxDisc -> STRING]
  /\ WritesFail \in BOOLEAN /\ OpensFail \in BOOLEAN

VARIABLES
  pc,         \* idle, slices (in the loop of IsoRipper), copying (in IsoCopySlice),
              \* done (IsoRipper has returned 1), refused (it has returned early)
  fileSize, bad,         \* the disc
  ofs, i,                \* what is done of it, and the next slice's number
  stack,                 \* the calls of IsoCopySlice: [level, our_ofs, data_left]
  files,                 \* the destination directory, by name
  copy_ok, copy_failed

disc == <<fileSize, bad>>
vars == <<pc, disc, ofs, i, stack, files, copy_ok, copy_failed>>

Zeros == -1
MAX_COPY_LEVEL == Len(CopyLevelSize)
Least(a, b) == IF a < b THEN a ELSE b
Content(s) == IF s \in bad THEN Zeros ELSE s

slice_size == Least(fileSize - ofs, SliceSize)

(* p_dest is open on the slice's file, which is created anew.              *)
Written(n, zeros) ==
  LET top == stack[Len(stack)] IN
  [files EXCEPT ![SliceName[i]] =
     @ \o [k \in 1..n |-> IF zeros THEN Zeros ELSE top.our_ofs + k - 1]]

-----------------------------------------------------------------------------
(* IsoRipper.                                                              *)

StartRip ==
  /\ pc \in {"idle", "done", "refused"}
  /\ fileSize' \in 1..MaxDisc
  /\ \E b \in Bad : bad' = {s \in b : s < fileSize'}
  /\ ofs' = 0 /\ i' = 0
  /\ stack' = <<>> /\ files' = [n \in {} |-> <<>>]
  /\ copy_ok' = 0 /\ copy_failed' = 0
  /\ pc' = "slices"

(* The destination, the drive or a slice cannot be opened: IsoRipper       *)
(* returns, and copy_failed stays 0.                                       *)
GiveUp ==
  /\ OpensFail
  /\ pc = "slices"
  /\ pc' = "refused"
  /\ UNCHANGED <<disc, ofs, i, stack, files, copy_ok, copy_failed>>

StartSlice ==
  /\ pc = "slices" /\ ofs < fileSize
  /\ files' = [n \in DOMAIN files \cup {SliceName[i]} |->
                 IF n = SliceName[i] THEN <<>> ELSE files[n]]
  /\ stack' = <<[level |-> 1, our_ofs |-> ofs, data_left |-> slice_size]>>
  /\ pc' = "copying"
  /\ UNCHANGED <<disc, ofs, i, copy_ok, copy_failed>>

(* Mutant: the offset advances by the default size.                        *)
SliceDone_FullSize ==
  /\ pc = "copying" /\ Len(stack) = 1 /\ stack[1].data_left = 0
  /\ stack' = <<>>
  /\ copy_ok' = copy_ok + 1
  /\ ofs' = ofs + SliceSize
  /\ i' = i + 1
  /\ pc' = "slices"
  /\ UNCHANGED <<disc, files, copy_failed>>

(* Mutant: the offset does not advance.                                    *)
SliceDone_SameOffset ==
  /\ pc = "copying" /\ Len(stack) = 1 /\ stack[1].data_left = 0
  /\ stack' = <<>>
  /\ pc' = "slices"
  /\ UNCHANGED <<disc, ofs, i, files, copy_ok, copy_failed>>

SliceDone ==
  /\ pc = "copying" /\ Len(stack) = 1 /\ stack[1].data_left = 0
  /\ stack' = <<>>
  /\ copy_ok' = copy_ok + 1
  /\ ofs' = ofs + slice_size
  /\ i' = i + 1
  /\ pc' = "slices"
  /\ UNCHANGED <<disc, files, copy_failed>>

RipDone ==
  /\ pc = "slices" /\ ofs >= fileSize
  /\ pc' = "done"
  /\ UNCHANGED <<disc, ofs, i, stack, files, copy_ok, copy_failed>>

-----------------------------------------------------------------------------
(* IsoCopySlice.                                                           *)

Top == stack[Len(stack)]
chunk_size(f) == Least(f.data_left, CopyLevelSize[f.level])
Reading == pc = "copying" /\ Top.data_left > 0
Readable == \A s \in bad : ~(Top.our_ofs <= s /\ s < Top.our_ofs + chunk_size(Top))

(* The end of the loop's body.                                             *)
Advance(f) == [f EXCEPT !.our_ofs = @ + chunk_size(f), !.data_left = @ - chunk_size(f)]

(* Mutant: a failed write ends the rip and is not counted.                 *)
WriteChunk_NotCounted(zeros) ==
  \/ /\ files' = Written(chunk_size(Top), zeros)
     /\ stack' = [stack EXCEPT ![Len(stack)] = Advance(@)]
     /\ UNCHANGED <<pc, copy_failed>>
  \/ /\ WritesFail
     /\ \E n \in 0..(chunk_size(Top) - 1) : files' = Written(n, zeros)
     /\ stack' = <<>>
     /\ pc' = "done"
     /\ UNCHANGED copy_failed

WriteChunk(zeros) ==
  \/ /\ files' = Written(chunk_size(Top), zeros)
     /\ stack' = [stack EXCEPT ![Len(stack)] = Advance(@)]
     /\ UNCHANGED <<pc, copy_failed>>
  \/ (* STATUS_DATA_ERROR on every level, and the rip is over.             *)
     /\ WritesFail
     /\ \E n \in 0..(chunk_size(Top) - 1) : files' = Written(n, zeros)
     /\ stack' = <<>>
     /\ copy_failed' = copy_failed + 1
     /\ pc' = "done"

CopyChunk ==
  /\ Reading /\ Readable
  /\ WriteChunk(FALSE)
  /\ UNCHANGED <<disc, ofs, i, copy_ok>>

SmallerChunks ==
  /\ Reading /\ ~Readable
  /\ Top.level < MAX_COPY_LEVEL
  /\ stack' = Append(stack, [level |-> Top.level + 1, our_ofs |-> Top.our_ofs,
                             data_left |-> chunk_size(Top)])
  /\ UNCHANGED <<pc, disc, ofs, i, files, copy_ok, copy_failed>>

ZeroSector ==
  /\ Reading /\ ~Readable
  /\ Top.level = MAX_COPY_LEVEL
  /\ WriteChunk(TRUE)
  /\ UNCHANGED <<disc, ofs, i, copy_ok>>

(* Mutant: the caller does not skip what the inner call has copied.        *)
Return_NoAdvance ==
  /\ pc = "copying" /\ Len(stack) > 1 /\ Top.data_left = 0
  /\ LET caller == Len(stack) - 1 IN
     stack' = [SubSeq(stack, 1, caller) EXCEPT ![caller].data_left = @ - chunk_size(stack[caller])]
  /\ UNCHANGED <<pc, disc, ofs, i, files, copy_ok, copy_failed>>

Return ==
  /\ pc = "copying" /\ Len(stack) > 1 /\ Top.data_left = 0
  /\ LET caller == Len(stack) - 1 IN
     stack' = [SubSeq(stack, 1, caller) EXCEPT ![caller] = Advance(@)]
  /\ UNCHANGED <<pc, disc, ofs, i, files, copy_ok, copy_failed>>

Init ==
  /\ pc = "idle"
  /\ fileSize = 0 /\ bad = {}
  /\ ofs = 0 /\ i = 0
  /\ stack = <<>> /\ files = [n \in {} |-> <<>>]
  /\ copy_ok = 0 /\ copy_failed = 0

RipStep == GiveUp \/ StartSlice \/ SliceDone \/ RipDone
             \/ CopyChunk \/ SmallerChunks \/ ZeroSector \/ Return

Next == StartRip \/ RipStep

(* The copy thread runs on; a rip is the user's choice.                    *)
Spec == Init /\ [][Next]_vars /\ WF_vars(RipStep)

-----------------------------------------------------------------------------
(* Properties.                                                             *)

TypeOK ==
  /\ pc \in {"idle", "slices", "copying", "done", "refused"}
  /\ fileSize \in 0..MaxDisc /\ bad \subseteq 0..(fileSize - 1)
  /\ ofs \in 0..fileSize /\ i \in Nat
  /\ \A d \in DOMAIN stack : stack[d].level = d /\ stack[d].data_left \in 0..SliceSize
  /\ Len(stack) <= MAX_COPY_LEVEL
  /\ copy_ok \in Nat /\ copy_failed \in 0..1

(* What slice k holds when it is complete: a part of the disc, with zeros  *)
(* for the sectors that cannot be read and for no others.                  *)
Slice(k) == [j \in 1..Least(fileSize - k * SliceSize, SliceSize) |->
               Content(k * SliceSize + j - 1)]

(* The slices put together are the disc: a bad sector costs no other       *)
(* sector, nothing is doubled or skipped when IsoCopySlice calls itself    *)
(* with smaller chunks, and no slice overwrites another.                   *)
SlicesExact ==
  \A k \in 0..(copy_ok - 1) :
    SliceName[k] \in DOMAIN files /\ files[SliceName[k]] = Slice(k)

(* An image is whole unless the report counts a failure (or the drive or a *)
(* file could not be opened).  The retry the wizard offers after a failure *)
(* is not part of this: it finds nothing to retry, see CopyJob.            *)
WholeImage == pc = "done" /\ copy_failed = 0 => copy_ok * SliceSize >= fileSize

(* A rip ends, however many sectors are bad.                               *)
RipEnds == (pc = "slices") ~> (pc \in {"done", "refused"})
====
