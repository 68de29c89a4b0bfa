------------------------------ MODULE IsoFile ------------------------------
(***************************************************************************)
(* How a file of a CD gets to its destination: iso9660::OpenFile and       *)
(* ReadFile with their ring of cached sectors, and the two loops that read *)
(* from it, CopyISOFile (CD to hard disc) and CopyFileGeneric (CD to a     *)
(* share).                                                                 *)
(*                                                                         *)
(* A byte of the disc is the pair <<sector, offset>>.  The ring has Slots  *)
(* slots, but slot i begins at BYTE i of its memory, so slots overlap; the *)
(* memory is therefore modelled byte by byte.                              *)
(***************************************************************************)
EXTENDS Integers, Sequences

CONSTANTS
  DataSize,   \* data bytes of a sector
  Mode2Size,  \* ... and of a mode 2 sector, MODE2_DATA_SIZE
  Slots,      \* CIRC_BUFFER_SIZE
  Chunk,      \* bytes a loop asks for at a time
  MaxSize,    \* BOUND on the size of a file
  Starts,     \* the sectors at which files start
  Loops,      \* the loops that copy
  ReadErrors  \* whether reading a sector may fail

ASSUME IsoAssumption ==
  /\ DataSize \in Nat \ {0} /\ Mode2Size \in Nat \ {0}
  /\ Slots \in Nat \ {0, 1} /\ Chunk \in Nat \ {0}
  /\ MaxSize \in Nat /\ Starts \subseteq Nat
  /\ Loops \subseteq {"CopyISOFile", "CopyFileGeneric"}
  /\ ReadErrors \in BOOLEAN

VARIABLES
  pc,        \* closed, reading (in ReadFile), filled (it has returned), done
  loop,      \* who copies
  dwStartBlock, dwFileSize, dwFilePos, sectorSize,  \* the open file
  cache,     \* its ring: memory, first and next slot, first sector
  pBuffer,   \* what ReadFile has delivered so far
  written,   \* what the destination has
  fetched,   \* the sectors read into the ring so far; only properties read it
  probed     \* ... and the one OpenFile has read, if it could

file == <<loop, dwStartBlock, dwFileSize, sectorSize, probed>>
vars == <<pc, file, dwFilePos, cache, pBuffer, written, fetched>>

Junk   == <<-1, 0>>
Memory == 0..(Slots + (IF DataSize > Mode2Size THEN DataSize ELSE Mode2Size) - 2)
ByteAt(p) == <<dwStartBlock + p \div sectorSize, p % sectorSize>>

(* m_pBuffer is allocated with the file, and sector s is read to slot i.   *)
Blank == [b \in Memory |-> Junk]
Sector(mem, s, i) ==
  [b \in Memory |-> IF b \in i..(i + sectorSize - 1) THEN <<s, b - i>> ELSE mem[b]]

-----------------------------------------------------------------------------
(* The ring.                                                               *)

Count(c) == IF c.end >= c.begin THEN c.end - c.begin ELSE Slots - (c.begin - c.end)
Cached(c, s) == c.first <= s /\ s < c.first + Count(c)
Wrap(i) == IF i >= Slots THEN i - Slots ELSE i

(* Mutant: slots are counted from 0, not from the first one in use.        *)
SlotOf_FromZero(c, s) == Wrap(s - c.first)

SlotOf(c, s) == Wrap(s - c.first + c.begin)

(* Before a sector that is not cached is read: drop the oldest one if the  *)
(* ring is full and s follows, everything if s does not follow.            *)
MakeRoom(c, s) ==
  LET follows == c.first + Count(c) = s IN
  IF follows /\ Count(c) = Slots - 1
    THEN [c EXCEPT !.begin = Wrap(@ + 1), !.first = @ + 1]
  ELSE IF ~follows THEN [c EXCEPT !.begin = 0, !.end = 0, !.first = 0]
  ELSE c

(* Mutant: the next slot is not wrapped around.                            *)
Fetch_NoWrap(c, s) ==
  [c EXCEPT !.mem = Sector(@, s, c.end),
            !.first = IF c.end = c.begin THEN s ELSE @,
            !.end = @ + 1]

Fetch(c, s) ==
  [c EXCEPT !.mem = Sector(@, s, c.end),
            !.first = IF c.end = c.begin THEN s ELSE @,
            !.end = Wrap(@ + 1)]

ReleaseSectorFromCache(c, s) ==
  IF Cached(c, s)
    THEN [c EXCEPT !.begin = Wrap(@ + s - c.first + 1), !.first = s + 1]
    ELSE c

-----------------------------------------------------------------------------
(* FileOpenRead and FileOpenWrite.  To find out its mode the first sector  *)
(* is read to slot 0 already; the ring is not told, so that ReadFile will  *)
(* read it again.  Where it can be read in neither mode the file counts as *)
(* mode 1.                                                                 *)
OpenFile ==
  /\ pc \in {"closed", "done"}
  /\ loop' \in Loops
  /\ dwStartBlock' \in Starts
  /\ \E size \in 0..MaxSize, mode2 \in BOOLEAN, readable \in BOOLEAN :
       /\ mode2 \/ ~ReadErrors => readable
       /\ probed' = IF readable THEN {dwStartBlock'} ELSE {}
       /\ sectorSize' = IF mode2 THEN Mode2Size ELSE DataSize
       /\ dwFileSize' = IF mode2 THEN (size \div DataSize) * Mode2Size ELSE size
  /\ dwFilePos' = 0
  /\ cache' = [mem |-> IF probed' = {} THEN Blank ELSE Sector(Blank, dwStartBlock, 0)',
               begin |-> 0, end |-> 0, first |-> 0]
  /\ pBuffer' = <<>> /\ written' = <<>> /\ fetched' = {}
  /\ pc' = "reading"

(* The rest of the current sector, as far as the caller has asked for it.  *)
BlockOf == dwStartBlock + dwFilePos \div sectorSize
OffsetOf == dwFilePos % sectorSize
Bytes2Copy == LET rest == sectorSize - OffsetOf  want == Chunk - Len(pBuffer)
              IN  IF want > rest THEN rest ELSE want

Wanted == pc = "reading" /\ Len(pBuffer) < Chunk /\ dwFilePos <= dwFileSize

(* Mutant: the sector is released although only a part of it was used.     *)
Deliver_Eager(c) ==
  LET at == SlotOf(c, BlockOf) + OffsetOf IN
  /\ pBuffer' = pBuffer \o [i \in 1..Bytes2Copy |-> c.mem[at + i - 1]]
  /\ dwFilePos' = dwFilePos + Bytes2Copy
  /\ cache' = ReleaseSectorFromCache(c, BlockOf)

(* memcpy from the ring, and release of a sector that is used up.          *)
Deliver(c) ==
  LET at == SlotOf(c, BlockOf) + OffsetOf IN
  /\ pBuffer' = pBuffer \o [i \in 1..Bytes2Copy |-> c.mem[at + i - 1]]
  /\ dwFilePos' = dwFilePos + Bytes2Copy
  /\ cache' = IF OffsetOf + Bytes2Copy = sectorSize
                THEN ReleaseSectorFromCache(c, BlockOf) ELSE c

ReadCached ==
  /\ Wanted
  /\ Cached(cache, BlockOf)
  /\ Deliver(cache)
  /\ UNCHANGED <<pc, file, written, fetched>>

ReadSector ==
  /\ Wanted
  /\ ~Cached(cache, BlockOf)
  /\ Deliver(Fetch(MakeRoom(cache, BlockOf), BlockOf))
  /\ fetched' = fetched \cup {BlockOf}
  /\ UNCHANGED <<pc, file, written>>

(* A sector that cannot be read ends the call ...                          *)
ReadFails ==
  /\ ReadErrors
  /\ Wanted
  /\ ~Cached(cache, BlockOf)
  /\ cache' = MakeRoom(cache, BlockOf)
  /\ pc' = "filled"
  /\ UNCHANGED <<file, dwFilePos, pBuffer, written, fetched>>

(* ... as do the end of the file and a full buffer.                        *)
ReadReturns ==
  /\ pc = "reading" /\ ~Wanted
  /\ pc' = "filled"
  /\ UNCHANGED <<file, dwFilePos, cache, pBuffer, written, fetched>>

(* Mutant: no bytes are not taken for the end.                             *)
EndOfCopy_Again ==
  /\ pc = "filled"
  /\ pBuffer = <<>>
  /\ pc' = "reading"
  /\ UNCHANGED <<file, dwFilePos, cache, pBuffer, written, fetched>>

(* The loops.  ReadFile returns -1 for no bytes, which FileRead makes 0,   *)
(* and both loops take 0 for the end of the file.                          *)
EndOfCopy ==
  /\ pc = "filled"
  /\ pBuffer = <<>>
  /\ pc' = "done"
  /\ UNCHANGED <<file, dwFilePos, cache, pBuffer, written, fetched>>

(* Mutant: CopyISOFile writes all it has read.                             *)
WriteISOFile_NoClamp ==
  /\ pc = "filled" /\ loop = "CopyISOFile"
  /\ pBuffer # <<>>
  /\ written' = written \o pBuffer
  /\ pBuffer' = <<>>
  /\ pc' = IF Len(written') < dwFileSize THEN "reading" ELSE "done"
  /\ UNCHANGED <<file, dwFilePos, cache, fetched>>

(* Mutant: the last byte is taken for one beyond the end.                  *)
WriteISOFile_OffByOne ==
  /\ pc = "filled" /\ loop = "CopyISOFile"
  /\ pBuffer # <<>>
  /\ LET left == dwFileSize - Len(written)
     IN  written' = written \o SubSeq(pBuffer, 1, IF Len(pBuffer) >= left THEN left - 1
                                                   ELSE Len(pBuffer))
  /\ pBuffer' = <<>>
  /\ pc' = IF Len(written') < dwFileSize THEN "reading" ELSE "done"
  /\ UNCHANGED <<file, dwFilePos, cache, fetched>>

(* CopyISOFile writes what belongs to the file and stops at its size.      *)
WriteISOFile ==
  /\ pc = "filled" /\ loop = "CopyISOFile"
  /\ pBuffer # <<>>
  /\ LET left == dwFileSize - Len(written)
     IN  written' = written \o SubSeq(pBuffer, 1, IF Len(pBuffer) > left THEN left
                                                   ELSE Len(pBuffer))
  /\ pBuffer' = <<>>
  /\ pc' = IF Len(written') < dwFileSize THEN "reading" ELSE "done"
  /\ UNCHANGED <<file, dwFilePos, cache, fetched>>

(* CopyFileGeneric writes what it has read and asks for more.              *)
WriteGeneric ==
  /\ pc = "filled" /\ loop = "CopyFileGeneric"
  /\ pBuffer # <<>>
  /\ written' = written \o pBuffer
  /\ pBuffer' = <<>>
  /\ pc' = "reading"
  /\ UNCHANGED <<file, dwFilePos, cache, fetched>>

Init ==
  /\ pc = "closed"
  /\ loop \in Loops
  /\ dwStartBlock = 0 /\ dwFileSize = 0 /\ dwFilePos = 0 /\ sectorSize = DataSize
  /\ cache = [mem |-> Blank, begin |-> 0, end |-> 0, first |-> 0]
  /\ pBuffer = <<>> /\ written = <<>> /\ fetched = {} /\ probed = {}

CopyStep == ReadCached \/ ReadSector \/ ReadFails \/ ReadReturns
              \/ EndOfCopy \/ WriteISOFile \/ WriteGeneric

Next == OpenFile \/ CopyStep

(* The copy thread runs on; which file it copies next is the disc's.       *)
Spec == Init /\ [][Next]_vars /\ WF_vars(CopyStep)

-----------------------------------------------------------------------------
(* Properties.                                                             *)

RingOK ==
  /\ cache.begin \in 0..(Slots - 1) /\ cache.end \in 0..(Slots - 1)
  /\ cache.first \in Nat
  /\ cache.mem \in [Memory -> Nat \X Nat \cup {Junk}]
TypeOK ==
  /\ pc \in {"closed", "reading", "filled", "done"}
  /\ loop \in Loops
  /\ sectorSize \in {DataSize, Mode2Size}
  /\ dwStartBlock \in Nat /\ dwFileSize \in Nat /\ dwFilePos \in Nat
  /\ RingOK
  /\ Len(pBuffer) <= Chunk
  /\ fetched \subseteq Nat /\ probed \subseteq Nat

(* The bytes delivered and written are those of the file in their order,   *)
(* although the slots of the ring overlap (iso9660::ReadSectorFromCache).  *)
InOrder ==
  /\ \A i \in 1..Len(written) : written[i] = ByteAt(i - 1)
  /\ \A i \in 1..Len(pBuffer) : pBuffer[i] = ByteAt(dwFilePos - Len(pBuffer) + i - 1)

(* What was read gets written: a finished copy lacks a byte only if a      *)
(* sector up to it could not be read by ReadFile (that OpenFile could read *)
(* it does not help).                                                      *)
ShortOnlyByUnread ==
  pc = "done" =>
    \A p \in 0..(dwFileSize - 1) :
      dwStartBlock..(dwStartBlock + p \div sectorSize) \subseteq fetched => p < Len(written)

(* The ring does its work, also when the caller's buffer ends in the       *)
(* middle of a sector: ReadFile reads off the disc again only what         *)
(* OpenFile has read (iso9660.cpp:554), with its very first read.  The     *)
(* first sector of a file is so read twice, every other one once.          *)
OnlyFirstReadTwice ==
  [][ReadSector /\ BlockOf \in fetched \cup probed => fetched = {}]_vars

(* Reading beyond the end of the file, which ReadFile does, leaves no      *)
(* trace in a copy to hard disc (CopyISOFile).                             *)
NeverLonger == loop = "CopyISOFile" => Len(written) <= dwFileSize

(* Every copy of a file ends, whatever fails.                              *)
CopyEnds == (pc = "reading") ~> (pc = "done")
====
