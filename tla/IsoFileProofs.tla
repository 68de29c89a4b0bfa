---------------------------- MODULE IsoFileProofs ----------------------------
(***************************************************************************)
(* The safety properties of IsoFile, for sectors, rings, chunks and files  *)
(* of any size.                                                            *)
(*                                                                         *)
(* The argument: both loops read a file from its beginning to its end, so  *)
(* the ring never holds more than one sector, the one the position is in   *)
(* (RingInv).  That is why overlapping slots do no harm here, and why a    *)
(* sector that is read is always beyond those already read (FetchInv).     *)
(***************************************************************************)
EXTENDS IsoFile, SequenceTheorems, TLAPS

Bytes == Nat \X Nat
Ring  == [mem : [Memory -> Bytes \cup {Junk}],
          begin : 0..(Slots - 1), end : 0..(Slots - 1), first : Nat]

Types ==
  /\ pc \in {"closed", "reading", "filled", "done"}
  /\ loop \in Loops
  /\ sectorSize \in {DataSize, Mode2Size}
  /\ dwStartBlock \in Nat /\ dwFileSize \in Nat /\ dwFilePos \in Nat
  /\ cache \in Ring
  /\ pBuffer \in Seq(Bytes) /\ Len(pBuffer) <= Chunk
  /\ written \in Seq(Bytes)
  /\ fetched \subseteq Nat /\ probed \subseteq {dwStartBlock}

(* Ring c holds nothing, or it holds sector s and nothing else.            *)
Empty(c) == c.begin = c.end
Holds(c, s) ==
  /\ c.end = Wrap(c.begin + 1)
  /\ c.first = s
  /\ \A b \in 0..(sectorSize - 1) : c.mem[c.begin + b] = <<s, b>>

RingInv == Empty(cache) \/ Holds(cache, BlockOf)

FetchInv ==
  \A s \in fetched :
    dwStartBlock <= s /\ s <= BlockOf /\ (Empty(cache) => s < BlockOf)

(* What has been delivered and what has been written add up to the         *)
(* position, until CopyISOFile cuts off what is beyond the file.           *)
LengthInv ==
  /\ pc \in {"closed", "reading", "filled"} => Len(written) + Len(pBuffer) = dwFilePos
  /\ NeverLonger

(* ReadFile returns nothing only at the end and at a sector not read yet.  *)
EndInv ==
  pc = "filled" /\ pBuffer = <<>> => dwFilePos > dwFileSize \/ BlockOf \notin fetched

FileInv ==
  Types /\ RingInv /\ FetchInv /\ LengthInv /\ EndInv /\ InOrder /\ ShortOnlyByUnread

-----------------------------------------------------------------------------
(* Arithmetic of sectors.                                                  *)

LEMMA Sizes ==
  ASSUME Types
  PROVE  /\ sectorSize \in Nat \ {0}
         /\ \A i \in 0..(Slots - 1), b \in 0..(sectorSize - 1) : i + b \in Memory
         /\ Slots \in Nat /\ Slots >= 2
BY IsoAssumption DEF Types, Memory

LEMMA DivMod ==
  ASSUME NEW n \in Nat, NEW s \in Nat \ {0}
  PROVE  /\ n \div s \in Nat
         /\ n % s \in 0..(s - 1)
         /\ n = (n \div s) * s + (n % s)
OBVIOUS

LEMMA DivUnique ==
  ASSUME NEW q \in Nat, NEW s \in Nat \ {0}, NEW r \in 0..(s - 1)
  PROVE  (q * s + r) \div s = q /\ (q * s + r) % s = r
<1> DEFINE n == q * s + r
           d == n \div s
           m == n % s
<1>1. n \in Nat /\ q * s \in Nat
  OBVIOUS
<1> HIDE DEF n
<1>2. d \in Nat /\ m \in 0..(s - 1) /\ n = d * s + m
  BY <1>1, DivMod
<1> HIDE DEF d, m
<1>3. d * s \in Nat /\ d * s + m = q * s + r
  BY <1>1, <1>2 DEF n
<1>4. d = q
  <2>1. CASE d < q
    <3>1. (d + 1) * s <= q * s /\ (d + 1) * s = d * s + s
      BY <1>2, <2>1
    <3> QED BY <1>1, <1>2, <1>3, <3>1
  <2>2. CASE q < d
    <3>1. (q + 1) * s <= d * s /\ (q + 1) * s = q * s + s
      BY <1>2, <2>2
    <3> QED BY <1>1, <1>2, <1>3, <3>1
  <2> QED BY <1>2, <2>1, <2>2
<1>5. m = r
  BY <1>1, <1>2, <1>3, <1>4
<1> QED BY <1>4, <1>5 DEF n, d, m

(* Within a sector the offset grows, and at its end the next one begins.   *)
LEMMA Within ==
  ASSUME NEW n \in Nat, NEW s \in Nat \ {0}, NEW k \in 0..(s - (n % s))
  PROVE  /\ (n % s) + k < s =>
              (n + k) \div s = n \div s /\ (n + k) % s = (n % s) + k
         /\ (n % s) + k = s =>
              (n + k) \div s = n \div s + 1 /\ (n + k) % s = 0
<1> DEFINE q == n \div s
           r == n % s
<1>1. q \in Nat /\ r \in 0..(s - 1) /\ n = q * s + r
  BY DivMod
<1>2. k \in Nat /\ k <= s - r
  BY <1>1
<1> HIDE DEF q, r
<1>3. q * s \in Nat /\ (q + 1) * s = q * s + s
  BY <1>1
<1>4. ASSUME r + k < s
      PROVE  (n + k) \div s = q /\ (n + k) % s = r + k
  <2> DEFINE x == r + k
  <2>1. x \in 0..(s - 1) /\ n + k = q * s + x
    BY <1>1, <1>2, <1>3, <1>4
  <2> HIDE DEF x
  <2>2. (q * s + x) \div s = q /\ (q * s + x) % s = x
    BY <1>1, <2>1, DivUnique
  <2> QED BY <2>1, <2>2 DEF x
<1>5. ASSUME r + k = s
      PROVE  (n + k) \div s = q + 1 /\ (n + k) % s = 0
  <2> DEFINE y == q + 1
             z == 0
  <2>1. y \in Nat /\ z \in 0..(s - 1) /\ n + k = y * s + z
    BY <1>1, <1>2, <1>3, <1>5
  <2> HIDE DEF y, z
  <2>2. (y * s + z) \div s = y /\ (y * s + z) % s = z
    BY <2>1, DivUnique
  <2> QED BY <2>1, <2>2 DEF y, z
<1> QED BY <1>4, <1>5 DEF q, r

LEMMA DivMonotonic ==
  ASSUME NEW n \in Nat, NEW m \in Nat, NEW s \in Nat \ {0}, n <= m
  PROVE  n \div s <= m \div s
<1> DEFINE q == n \div s
           p == m \div s
<1>1. q \in Nat /\ p \in Nat /\ n >= q * s /\ m < p * s + s
  BY DivMod
<1> HIDE DEF q, p
<1>2. q * s < (p + 1) * s
  BY <1>1
<1>3. q < p + 1
  BY <1>1, <1>2
<1> QED BY <1>1, <1>3 DEF q, p

-----------------------------------------------------------------------------
(* The ring while it is used for one sector at a time.                     *)

LEMMA RingFacts ==
  ASSUME Types, NEW c \in Ring, NEW s \in Nat
  PROVE  /\ Empty(c) => Count(c) = 0 /\ ~Cached(c, s)
         /\ Holds(c, s) => Count(c) = 1 /\ Cached(c, s) /\ SlotOf(c, s) = c.begin /\ ~Empty(c)
         /\ Wrap(c.begin + 1) \in 0..(Slots - 1)
<1>1. /\ c.begin \in 0..(Slots - 1) /\ c.end \in 0..(Slots - 1) /\ c.first \in Nat
      /\ Slots \in Nat /\ Slots >= 2
  BY Sizes DEF Ring
<1>2. ASSUME Empty(c)
      PROVE  Count(c) = 0 /\ ~Cached(c, s)
  BY <1>1, <1>2 DEF Empty, Count, Cached
<1>3. ASSUME Holds(c, s)
      PROVE  Count(c) = 1 /\ Cached(c, s) /\ SlotOf(c, s) = c.begin /\ ~Empty(c)
  <2>1. c.end = Wrap(c.begin + 1) /\ c.first = s
    BY <1>3 DEF Holds
  <2>2. Count(c) = 1 /\ ~Empty(c)
    <3>1. CASE c.begin + 1 >= Slots
      <4>1. c.begin = Slots - 1 /\ c.end = 0
        BY <1>1, <2>1, <3>1 DEF Wrap
      <4> QED BY <1>1, <4>1 DEF Count, Empty
    <3>2. CASE ~(c.begin + 1 >= Slots)
      <4>1. c.end = c.begin + 1
        BY <2>1, <3>2 DEF Wrap
      <4> QED BY <1>1, <4>1 DEF Count, Empty
    <3> QED BY <3>1, <3>2
  <2> QED BY <1>1, <2>1, <2>2 DEF Cached, SlotOf, Wrap
<1>4. Wrap(c.begin + 1) \in 0..(Slots - 1)
  BY <1>1 DEF Wrap
<1> QED BY <1>2, <1>3, <1>4

(* An empty ring stays empty until the sector is read ...                  *)
LEMMA RoomMade ==
  ASSUME Types, NEW c \in Ring, NEW s \in Nat, Empty(c)
  PROVE  MakeRoom(c, s) \in Ring /\ Empty(MakeRoom(c, s))
<1>1. Count(c) = 0 /\ Slots - 1 # 0 /\ 0 \in 0..(Slots - 1)
  BY RingFacts, Sizes
<1>2. CASE c.first + Count(c) = s
  BY <1>1, <1>2 DEF MakeRoom
<1>3. CASE c.first + Count(c) # s
  <2>1. MakeRoom(c, s) = [c EXCEPT !.begin = 0, !.end = 0, !.first = 0]
    BY <1>3 DEF MakeRoom
  <2>2. [c EXCEPT !.begin = 0, !.end = 0, !.first = 0] \in Ring
    BY <1>1 DEF Ring
  <2>3. Empty([c EXCEPT !.begin = 0, !.end = 0, !.first = 0])
    BY DEF Empty, Ring
  <2> QED BY <2>1, <2>2, <2>3
<1> QED BY <1>2, <1>3

(* ... then it holds that sector ...                                       *)
LEMMA Fetched ==
  ASSUME Types, NEW c \in Ring, NEW s \in Nat, Empty(c)
  PROVE  Fetch(c, s) \in Ring /\ Holds(Fetch(c, s), s)
<1> DEFINE m == Sector(c.mem, s, c.end)
           e == Wrap(c.end + 1)
           d == Fetch(c, s)
<1>1. /\ c.begin \in 0..(Slots - 1) /\ c.end = c.begin
      /\ c.mem \in [Memory -> Bytes \cup {Junk}]
  BY DEF Ring, Empty
<1>2. e \in 0..(Slots - 1)
  BY <1>1, RingFacts
<1>3. \A b \in 0..(sectorSize - 1) : c.end + b \in Memory
                                     /\ c.end + b \in c.end..(c.end + sectorSize - 1)
                                     /\ (c.end + b) - c.end = b
  BY <1>1, Sizes
<1>4. m \in [Memory -> Bytes \cup {Junk}]
  <2>1. \A b \in c.end..(c.end + sectorSize - 1) : b - c.end \in Nat
    BY <1>1, Sizes
  <2> QED BY <1>1, <2>1 DEF Sector, Bytes
<1>5. \A b \in 0..(sectorSize - 1) : m[c.end + b] = <<s, b>>
  <2> SUFFICES ASSUME NEW b \in 0..(sectorSize - 1)
               PROVE  m[c.end + b] = <<s, b>>
    OBVIOUS
  <2>1. m[c.end + b] = <<s, (c.end + b) - c.end>>
    <3> DEFINE x == c.end + b
    <3>1. x \in Memory /\ x \in c.end..(c.end + sectorSize - 1)
      BY <1>3
    <3> HIDE DEF x
    <3>2. m[x] = <<s, x - c.end>>
      BY <3>1 DEF Sector
    <3> QED BY <3>2 DEF x
  <2> QED BY <1>3, <2>1
<1>6. d = [c EXCEPT !.mem = m, !.first = s, !.end = e]
  BY <1>1 DEF Fetch
<1> HIDE DEF m, e, d
<1>7. d \in Ring
  BY <1>2, <1>4, <1>6 DEF Ring
<1>8. d.begin = c.begin /\ d.end = e /\ d.first = s /\ d.mem = m
  BY <1>6 DEF Ring
<1>9. Holds(d, s)
  BY <1>1, <1>5, <1>8 DEF Holds, e
<1> QED BY <1>7, <1>9 DEF d

(* ... until it is released.                                               *)
LEMMA Released ==
  ASSUME Types, NEW c \in Ring, NEW s \in Nat, Holds(c, s)
  PROVE  ReleaseSectorFromCache(c, s) \in Ring /\ Empty(ReleaseSectorFromCache(c, s))
<1> DEFINE n == Wrap(c.begin + 1)
           d == [c EXCEPT !.begin = n, !.first = s + 1]
<1>1. c.first = s /\ c.end = n /\ c.begin \in 0..(Slots - 1) /\ Cached(c, s)
  BY RingFacts DEF Holds, Ring
<1>2. n \in 0..(Slots - 1) /\ c.begin + s - c.first + 1 = c.begin + 1
  BY <1>1, RingFacts
<1>3. ReleaseSectorFromCache(c, s) = d
  BY <1>1, <1>2 DEF ReleaseSectorFromCache
<1>4. d \in Ring
  <2> DEFINE f == s + 1
  <2>1. f \in Nat
    OBVIOUS
  <2> HIDE DEF n, f
  <2>2. [c EXCEPT !.begin = n, !.first = f] \in Ring
    BY <1>2, <2>1 DEF Ring
  <2> QED BY <2>2 DEF f
<1> HIDE DEF n
<1>5. d.begin = n /\ d.end = c.end
  BY DEF Ring
<1> QED BY <1>1, <1>3, <1>4, <1>5 DEF Empty

-----------------------------------------------------------------------------
(* What ReadFile takes out of the ring.                                    *)

LEMMA Position ==
  ASSUME Types
  PROVE  /\ BlockOf \in Nat /\ dwStartBlock <= BlockOf /\ OffsetOf \in 0..(sectorSize - 1)
         /\ \A k \in 0..(sectorSize - OffsetOf - 1) :
              ByteAt(dwFilePos + k) = <<BlockOf, OffsetOf + k>>
<1>1. dwFilePos \in Nat /\ dwStartBlock \in Nat /\ sectorSize \in Nat \ {0}
  BY Sizes DEF Types
<1>2. dwFilePos \div sectorSize \in Nat /\ (dwFilePos % sectorSize) \in 0..(sectorSize - 1)
  BY <1>1, DivMod
<1>3. ASSUME NEW k \in 0..(sectorSize - OffsetOf - 1)
      PROVE  ByteAt(dwFilePos + k) = <<BlockOf, OffsetOf + k>>
  <2>1. /\ k \in 0..(sectorSize - (dwFilePos % sectorSize))
        /\ (dwFilePos % sectorSize) + k < sectorSize
    BY <1>1, <1>2, <1>3 DEF OffsetOf
  <2>2. /\ (dwFilePos + k) \div sectorSize = dwFilePos \div sectorSize
        /\ (dwFilePos + k) % sectorSize = (dwFilePos % sectorSize) + k
    BY <1>1, <2>1, Within
  <2> QED BY <2>2 DEF ByteAt, BlockOf, OffsetOf
<1> QED BY <1>1, <1>2, <1>3 DEF BlockOf, OffsetOf

LEMMA Amount ==
  ASSUME Types, Wanted
  PROVE  /\ Bytes2Copy \in Nat \ {0}
         /\ OffsetOf + Bytes2Copy <= sectorSize
         /\ Len(pBuffer) + Bytes2Copy <= Chunk
<1>1. /\ OffsetOf \in 0..(sectorSize - 1) /\ sectorSize \in Nat \ {0}
      /\ Len(pBuffer) \in Nat /\ Len(pBuffer) < Chunk /\ Chunk \in Nat
  BY Position, Sizes, IsoAssumption DEF Types, Wanted
<1> QED BY <1>1 DEF Bytes2Copy

(* Deliver with a ring that holds the sector the position is in.           *)
LEMMA Delivery ==
  ASSUME Types, Wanted, NEW d \in Ring, Holds(d, BlockOf), Deliver(d), UNCHANGED file
  PROVE  LET n == Bytes2Copy IN
         /\ dwFilePos' = dwFilePos + n
         /\ pBuffer' \in Seq(Bytes) /\ Len(pBuffer') = Len(pBuffer) + n
         /\ \A j \in 1..Len(pBuffer) : pBuffer'[j] = pBuffer[j]
         /\ \A j \in 1..n : pBuffer'[Len(pBuffer) + j] = ByteAt(dwFilePos + j - 1)
         /\ cache' \in Ring
         /\ \/ BlockOf' = BlockOf /\ Holds(cache', BlockOf)
            \/ BlockOf' = BlockOf + 1 /\ Empty(cache')
<1> DEFINE n == Bytes2Copy
           L == Len(pBuffer)
           at == SlotOf(d, BlockOf) + OffsetOf
           more == [i \in 1..n |-> d.mem[at + i - 1]]
<1>1. /\ n \in Nat \ {0} /\ OffsetOf + n <= sectorSize
      /\ OffsetOf \in 0..(sectorSize - 1) /\ sectorSize \in Nat \ {0}
      /\ dwFilePos \in Nat /\ BlockOf \in Nat /\ L \in Nat /\ pBuffer \in Seq(Bytes)
  BY Amount, Position, Sizes DEF Types
<1>2. pBuffer' = pBuffer \o more /\ dwFilePos' = dwFilePos + n
      /\ cache' = IF OffsetOf + n = sectorSize THEN ReleaseSectorFromCache(d, BlockOf) ELSE d
  BY DEF Deliver
<1>3. SlotOf(d, BlockOf) = d.begin /\ d.begin \in Nat
  BY <1>1, RingFacts DEF Ring
<1> HIDE DEF n
<1>4. ASSUME NEW j \in 1..n
      PROVE  more[j] = ByteAt(dwFilePos + j - 1) /\ more[j] \in Bytes
  <2> DEFINE k == j - 1
  <2>1. k \in 0..(sectorSize - OffsetOf - 1) /\ OffsetOf + k \in 0..(sectorSize - 1)
    BY <1>1
  <2>2. ByteAt(dwFilePos + k) = <<BlockOf, OffsetOf + k>>
    BY <2>1, Position
  <2>3. d.mem[d.begin + (OffsetOf + k)] = <<BlockOf, OffsetOf + k>>
    BY <2>1 DEF Holds
  <2>4. at + j - 1 = d.begin + (OffsetOf + k) /\ dwFilePos + j - 1 = dwFilePos + k
    BY <1>1, <1>3
  <2>5. more[j] = d.mem[at + j - 1]
    OBVIOUS
  <2>6. <<BlockOf, OffsetOf + k>> \in Bytes
    BY <1>1, <2>1 DEF Bytes
  <2>7. more[j] = <<BlockOf, OffsetOf + k>>
    <3> HIDE DEF more, k, at
    <3> QED BY <2>3, <2>4, <2>5
  <2>8. ByteAt(dwFilePos + j - 1) = <<BlockOf, OffsetOf + k>>
    BY <2>2
  <2> HIDE DEF more, k
  <2> QED BY <2>6, <2>7, <2>8
<1>5. more \in Seq(Bytes) /\ Len(more) = n
  BY <1>1, <1>4
<1> HIDE DEF more, L
<1>6. /\ pBuffer' \in Seq(Bytes) /\ Len(pBuffer') = L + n
      /\ \A j \in 1..(L + n) : pBuffer'[j] = IF j <= L THEN pBuffer[j] ELSE more[j - L]
  BY <1>1, <1>2, <1>5, ConcatProperties DEF L
<1>7. \A j \in 1..n : pBuffer'[L + j] = more[j]
  <2> SUFFICES ASSUME NEW j \in 1..n PROVE pBuffer'[L + j] = more[j]
    OBVIOUS
  <2>1. L + j \in 1..(L + n) /\ ~(L + j <= L) /\ (L + j) - L = j
    BY <1>1
  <2> QED BY <1>6, <2>1
<1>8. cache' \in Ring /\ \/ BlockOf' = BlockOf /\ Holds(cache', BlockOf)
                         \/ BlockOf' = BlockOf + 1 /\ Empty(cache')
  <2>1. /\ BlockOf' = dwStartBlock + (dwFilePos + n) \div sectorSize
        /\ BlockOf = dwStartBlock + dwFilePos \div sectorSize
        /\ OffsetOf = dwFilePos % sectorSize
        /\ dwStartBlock \in Nat /\ dwFilePos \div sectorSize \in Nat
    BY <1>1, <1>2, DivMod DEF BlockOf, OffsetOf, file, Types
  <2>2. CASE OffsetOf + n = sectorSize
    <3>1. (dwFilePos + n) \div sectorSize = dwFilePos \div sectorSize + 1
      <4>1. n \in 0..(sectorSize - (dwFilePos % sectorSize))
            /\ (dwFilePos % sectorSize) + n = sectorSize
        BY <1>1, <2>1, <2>2
      <4> QED BY <1>1, <4>1, Within
    <3> QED BY <1>1, <1>2, <2>1, <2>2, <3>1, Released
  <2>3. CASE OffsetOf + n # sectorSize
    <3>1. (dwFilePos + n) \div sectorSize = dwFilePos \div sectorSize
      <4>1. n \in 0..(sectorSize - (dwFilePos % sectorSize))
            /\ (dwFilePos % sectorSize) + n < sectorSize
        BY <1>1, <2>1, <2>3
      <4> QED BY <1>1, <4>1, Within
    <3> QED BY <1>2, <2>1, <2>3, <3>1
  <2> QED BY <2>2, <2>3
<1>9. \A j \in 1..L : pBuffer'[j] = pBuffer[j]
  <2> SUFFICES ASSUME NEW j \in 1..L PROVE pBuffer'[j] = pBuffer[j]
    OBVIOUS
  <2>1. j \in 1..(L + n) /\ j <= L
    BY <1>1
  <2> QED BY <1>6, <2>1
<1>10. \A j \in 1..n : pBuffer'[L + j] = ByteAt(dwFilePos + j - 1)
  BY <1>4, <1>7
<1> QED BY <1>2, <1>6, <1>8, <1>9, <1>10 DEF n, L

-----------------------------------------------------------------------------
(* FileInv is inductive: one lemma for each kind of step.                  *)

LEMMA FileInit == Init => FileInv
<1> SUFFICES ASSUME Init PROVE FileInv
  OBVIOUS
<1> USE DEF Init
<1>1. cache \in Ring
  BY IsoAssumption DEF Ring, Blank
<1>2. Types
  BY <1>1, IsoAssumption DEF Types
<1>3. RingInv /\ FetchInv /\ LengthInv /\ EndInv /\ InOrder /\ ShortOnlyByUnread
  BY DEF RingInv, Empty, FetchInv, LengthInv, NeverLonger, EndInv, InOrder, ShortOnlyByUnread
<1> QED BY <1>2, <1>3 DEF FileInv

LEMMA OpenStep ==
  ASSUME FileInv, OpenFile
  PROVE  FileInv'
<1>1. /\ loop' \in Loops /\ dwStartBlock' \in Nat /\ sectorSize' \in {DataSize, Mode2Size}
      /\ dwFilePos' = 0 /\ pBuffer' = <<>> /\ written' = <<>> /\ fetched' = {}
      /\ pc' = "reading"
      /\ probed' \subseteq {dwStartBlock'}
      /\ cache' = [mem |-> IF probed' = {} THEN Blank ELSE Sector(Blank, dwStartBlock, 0)',
                   begin |-> 0, end |-> 0, first |-> 0]
  BY IsoAssumption DEF OpenFile
<1>2. dwFileSize' \in Nat
  <2>1. PICK size \in 0..MaxSize, mode2 \in BOOLEAN :
          dwFileSize' = IF mode2 THEN (size \div DataSize) * Mode2Size ELSE size
    BY DEF OpenFile
  <2>2. size \div DataSize \in Nat
    BY IsoAssumption, DivMod
  <2>3. (size \div DataSize) * Mode2Size \in Nat
    BY <2>2, IsoAssumption
  <2> QED BY <2>1, <2>3, IsoAssumption
<1>3. cache' \in Ring
  <2>1. /\ Sector(Blank, dwStartBlock, 0)' \in [Memory -> Bytes \cup {Junk}]
        /\ Blank \in [Memory -> Bytes \cup {Junk}]
    BY <1>1, IsoAssumption DEF Sector, Blank, Bytes
  <2> QED BY <1>1, <2>1, IsoAssumption DEF Ring
<1>4. Types'
  BY <1>1, <1>2, <1>3, IsoAssumption DEF Types
<1>5. /\ RingInv' /\ FetchInv' /\ LengthInv' /\ EndInv' /\ InOrder' /\ ShortOnlyByUnread'
  BY <1>1, <1>2 DEF RingInv, Empty, FetchInv, LengthInv, NeverLonger, EndInv, InOrder,
                    ShortOnlyByUnread
<1> QED BY <1>4, <1>5 DEF FileInv

LEMMA DeliverStep ==
  ASSUME FileInv, Wanted, NEW d \in Ring, Holds(d, BlockOf), Deliver(d),
         UNCHANGED <<pc, file, written>>, fetched' \subseteq fetched \cup {BlockOf}
  PROVE  FileInv'
<1> DEFINE n == Bytes2Copy
           L == Len(pBuffer)
<1>1. /\ UNCHANGED <<loop, dwStartBlock, dwFileSize, sectorSize, probed, pc, written>>
      /\ pc = "reading"
  BY DEF file, Wanted
<1>2. /\ n \in Nat \ {0} /\ L + n <= Chunk /\ BlockOf \in Nat /\ L \in Nat /\ dwFilePos \in Nat
      /\ Len(written) \in Nat
  BY Amount, Position DEF FileInv, Types
<1>3. /\ dwFilePos' = dwFilePos + n
      /\ pBuffer' \in Seq(Bytes) /\ Len(pBuffer') = L + n
      /\ \A j \in 1..L : pBuffer'[j] = pBuffer[j]
      /\ \A j \in 1..n : pBuffer'[L + j] = ByteAt(dwFilePos + j - 1)
      /\ cache' \in Ring
      /\ \/ BlockOf' = BlockOf /\ Holds(cache', BlockOf)
         \/ BlockOf' = BlockOf + 1 /\ Empty(cache')
  BY Delivery DEF FileInv
<1> HIDE DEF n, L
<1>4. Types'
  BY <1>1, <1>2, <1>3 DEF FileInv, Types
<1>5. RingInv'
  <2>1. Holds(cache', BlockOf) /\ BlockOf' = BlockOf => Holds(cache, BlockOf)'
    BY <1>1 DEF Holds
  <2>2. Empty(cache') => Empty(cache)'
    BY DEF Empty
  <2> QED BY <1>3, <2>1, <2>2 DEF RingInv
<1>6. FetchInv'
  <2>1. \A s \in fetched' : s \in Nat /\ dwStartBlock <= s /\ s <= BlockOf
    BY <1>2, Position DEF FileInv, FetchInv, Types
  <2>2. CASE BlockOf' = BlockOf /\ Holds(cache', BlockOf)
    <3>1. ~Empty(cache')
      BY <1>2, <1>3, <2>2, RingFacts DEF FileInv
    <3> QED BY <1>1, <2>1, <2>2, <3>1 DEF FetchInv, Empty
  <2>3. CASE BlockOf' = BlockOf + 1
    BY <1>1, <1>2, <2>1, <2>3 DEF FetchInv
  <2> QED BY <1>3, <2>2, <2>3
<1>7. LengthInv'
  BY <1>1, <1>2, <1>3 DEF FileInv, LengthInv, NeverLonger, L
<1>8. EndInv' /\ ShortOnlyByUnread'
  BY <1>1 DEF EndInv, ShortOnlyByUnread
<1>9. InOrder'
  <2>1. \A q : ByteAt(q)' = ByteAt(q)
    BY <1>1 DEF ByteAt
  <2>2. \A j \in 1..Len(written) : written[j] = ByteAt(j - 1)
    BY DEF FileInv, InOrder
  <2>3. dwFilePos' - Len(pBuffer') = dwFilePos - L
    BY <1>2, <1>3
  <2>4. ASSUME NEW j \in 1..(L + n)
        PROVE  pBuffer'[j] = ByteAt(dwFilePos - L + j - 1)
    <3>1. CASE j <= L
      BY <1>2, <1>3, <3>1 DEF FileInv, InOrder, L
    <3>2. CASE ~(j <= L)
      <4> DEFINE k == j - L
      <4>1. k \in 1..n /\ L + k = j /\ dwFilePos + k - 1 = dwFilePos - L + j - 1
        BY <1>2, <3>2
      <4> HIDE DEF k
      <4>2. pBuffer'[L + k] = ByteAt(dwFilePos + k - 1)
        BY <1>3, <4>1
      <4> QED BY <4>1, <4>2
    <3> QED BY <3>1, <3>2
  <2> QED BY <1>1, <1>3, <2>1, <2>2, <2>3, <2>4 DEF InOrder
<1> QED BY <1>4, <1>5, <1>6, <1>7, <1>8, <1>9 DEF FileInv

LEMMA ReadStep ==
  ASSUME FileInv, ReadCached \/ ReadSector
  PROVE  FileInv'
<1>0. BlockOf \in Nat /\ cache \in Ring /\ Types
  BY Position DEF FileInv, Types
<1>1. CASE ReadCached
  <2>1. Holds(cache, BlockOf)
    BY <1>0, <1>1, RingFacts DEF FileInv, RingInv, ReadCached
  <2> QED BY <1>0, <1>1, <2>1, DeliverStep DEF ReadCached
<1>2. CASE ReadSector
  <2> DEFINE c == MakeRoom(cache, BlockOf)
  <2>1. Empty(cache)
    BY <1>0, <1>2, RingFacts DEF FileInv, RingInv, ReadSector
  <2>2. c \in Ring /\ Empty(c)
    BY <1>0, <2>1, RoomMade
  <2>3. Fetch(c, BlockOf) \in Ring /\ Holds(Fetch(c, BlockOf), BlockOf)
    BY <1>0, <2>2, Fetched
  <2> QED BY <1>2, <2>3, DeliverStep DEF ReadSector
<1> QED BY <1>1, <1>2

LEMMA ReturnStep ==
  ASSUME FileInv, ReadFails \/ ReadReturns
  PROVE  FileInv'
<1>1. /\ pc = "reading" /\ pc' = "filled"
      /\ UNCHANGED <<loop, dwStartBlock, dwFileSize, sectorSize, probed, dwFilePos,
                     pBuffer, written, fetched>>
  BY DEF ReadFails, ReadReturns, Wanted, file
<1>2. /\ Types /\ BlockOf \in Nat /\ BlockOf' = BlockOf
      /\ \A q : ByteAt(q)' = ByteAt(q)
  BY <1>1, Position DEF FileInv, BlockOf, ByteAt
<1>3. LengthInv' /\ InOrder' /\ ShortOnlyByUnread'
  <2>1. InOrder'
    BY <1>1, <1>2 DEF FileInv, InOrder
  <2> QED BY <1>1, <2>1 DEF FileInv, LengthInv, NeverLonger, ShortOnlyByUnread
<1>4. CASE ReadFails
  <2>1. Empty(cache) /\ cache' = MakeRoom(cache, BlockOf)
    BY <1>2, <1>4, RingFacts DEF FileInv, RingInv, ReadFails, Types
  <2>2. cache' \in Ring /\ Empty(cache')
    BY <1>2, <2>1, RoomMade DEF Types
  <2>3. Types' /\ RingInv'
    BY <1>1, <2>2 DEF FileInv, Types, RingInv, Empty
  <2>4. \A s \in fetched : dwStartBlock <= s /\ s < BlockOf
    BY <2>1 DEF FileInv, FetchInv
  <2>5. FetchInv' /\ EndInv'
    BY <1>1, <1>2, <2>4 DEF FetchInv, EndInv, Types
  <2> QED BY <1>3, <2>3, <2>5 DEF FileInv
<1>5. CASE ReadReturns
  <2>1. cache' = cache /\ ~Wanted
    BY <1>5 DEF ReadReturns
  <2>2. Types' /\ RingInv' /\ FetchInv'
    BY <1>1, <1>2, <2>1 DEF FileInv, Types, RingInv, FetchInv, Empty, Holds
  <2>3. EndInv'
    <3>1. pBuffer = <<>> => dwFilePos > dwFileSize
      BY <1>1, <1>2, <2>1, IsoAssumption DEF Wanted, Types
    <3> QED BY <1>1, <3>1 DEF EndInv
  <2> QED BY <1>3, <2>2, <2>3 DEF FileInv
<1> QED BY <1>4, <1>5

(* A copy that ends because nothing came is short only of bytes in or      *)
(* after a sector that was not read.                                       *)
LEMMA EndStep ==
  ASSUME FileInv, EndOfCopy
  PROVE  FileInv'
<1>1. /\ pc = "filled" /\ pBuffer = <<>> /\ pc' = "done"
      /\ UNCHANGED <<loop, dwStartBlock, dwFileSize, sectorSize, probed, dwFilePos, cache,
                     pBuffer, written, fetched>>
  BY DEF EndOfCopy, file
<1>2. Types' /\ RingInv' /\ FetchInv' /\ LengthInv' /\ EndInv' /\ InOrder'
  BY <1>1 DEF FileInv, Types, RingInv, FetchInv, LengthInv, NeverLonger, EndInv, InOrder,
              Empty, Holds, BlockOf, ByteAt
<1>3. ASSUME NEW p \in 0..(dwFileSize - 1),
             dwStartBlock..(dwStartBlock + p \div sectorSize) \subseteq fetched
      PROVE  p < Len(written)
  <2>1. /\ Len(written) = dwFilePos /\ dwFilePos \in Nat /\ p \in Nat /\ dwFileSize \in Nat
        /\ dwStartBlock \in Nat /\ sectorSize \in Nat \ {0} /\ p < dwFileSize
    BY <1>1, Sizes DEF FileInv, LengthInv, Types
  <2>2. CASE dwFilePos > dwFileSize
    BY <2>1, <2>2
  <2>3. CASE BlockOf \notin fetched
    <3> SUFFICES ASSUME ~(p < dwFilePos) PROVE FALSE
      BY <2>1
    <3>1. dwFilePos \div sectorSize <= p \div sectorSize
      BY <2>1, DivMonotonic
    <3>2. dwFilePos \div sectorSize \in Nat /\ p \div sectorSize \in Nat
      BY <2>1, DivMod
    <3>3. BlockOf \in dwStartBlock..(dwStartBlock + p \div sectorSize)
      BY <2>1, <3>1, <3>2 DEF BlockOf
    <3> QED BY <1>3, <2>3, <3>3
  <2> QED BY <1>1, <2>2, <2>3 DEF FileInv, EndInv
<1>4. ShortOnlyByUnread'
  BY <1>1, <1>3 DEF ShortOnlyByUnread
<1> QED BY <1>2, <1>4 DEF FileInv

(* What a loop appends continues what it has written.                      *)
LEMMA Continued ==
  ASSUME FileInv, pc = "filled", NEW k \in 0..Len(pBuffer),
         written' = written \o SubSeq(pBuffer, 1, k)
  PROVE  /\ written' \in Seq(Bytes) /\ Len(written') = Len(written) + k
         /\ \A j \in 1..Len(written') : written'[j] = ByteAt(j - 1)
<1> DEFINE W == Len(written)
           L == Len(pBuffer)
           part == SubSeq(pBuffer, 1, k)
<1>1. /\ written \in Seq(Bytes) /\ pBuffer \in Seq(Bytes) /\ W \in Nat /\ L \in Nat
      /\ W + L = dwFilePos /\ k \in Nat /\ k <= L
  BY DEF FileInv, Types, LengthInv
<1>2. part \in Seq(Bytes) /\ Len(part) = k /\ \A j \in 1..k : part[j] = pBuffer[j]
  BY <1>1, SubSeqProperties, ElementOfSeq
<1> HIDE DEF part, W, L
<1>3. /\ written' \in Seq(Bytes) /\ Len(written') = W + k
      /\ \A j \in 1..(W + k) : written'[j] = IF j <= W THEN written[j] ELSE part[j - W]
  BY <1>1, <1>2, ConcatProperties DEF W, part
<1>4. ASSUME NEW j \in 1..(W + k)
      PROVE  written'[j] = ByteAt(j - 1)
  <2>1. CASE j <= W
    <3>1. \A m \in 1..W : written[m] = ByteAt(m - 1)
      BY DEF FileInv, InOrder, W
    <3>2. j \in 1..W /\ written'[j] = written[j]
      BY <1>1, <1>3, <2>1
    <3> QED BY <3>1, <3>2
  <2>2. CASE ~(j <= W)
    <3> DEFINE m == j - W
    <3>1. m \in 1..k /\ m \in 1..L /\ dwFilePos - L + m - 1 = j - 1
      BY <1>1, <2>2
    <3>2. written'[j] = pBuffer[m]
      BY <1>2, <1>3, <2>2, <3>1
    <3> HIDE DEF m
    <3>3. pBuffer[m] = ByteAt(dwFilePos - L + m - 1)
      BY <3>1 DEF FileInv, InOrder, L
    <3> QED BY <3>1, <3>2, <3>3
  <2> QED BY <2>1, <2>2
<1> QED BY <1>3, <1>4 DEF W

LEMMA WriteStep ==
  ASSUME FileInv, WriteISOFile \/ WriteGeneric
  PROVE  FileInv'
<1>1. /\ pc = "filled" /\ pBuffer' = <<>>
      /\ UNCHANGED <<loop, dwStartBlock, dwFileSize, sectorSize, probed, dwFilePos, cache, fetched>>
  BY DEF WriteISOFile, WriteGeneric, file
<1>2. /\ Len(pBuffer) \in Nat /\ Len(written) \in Nat /\ dwFileSize \in Nat
      /\ pBuffer \in Seq(Bytes) /\ Len(written) + Len(pBuffer) = dwFilePos
      /\ NeverLonger
  BY <1>1 DEF FileInv, Types, LengthInv
<1>3. PICK k \in 0..Len(pBuffer) :
        /\ written' = written \o SubSeq(pBuffer, 1, k)
        /\ loop = "CopyISOFile" => Len(written) + k <= dwFileSize
        /\ \/ pc' = "reading" /\ k = Len(pBuffer)
           \/ pc' = "done" /\ Len(written') >= dwFileSize
  <2>1. CASE WriteISOFile
    <3> DEFINE left == dwFileSize - Len(written)
               k == IF Len(pBuffer) > left THEN left ELSE Len(pBuffer)
    <3>1. loop = "CopyISOFile" /\ written' = written \o SubSeq(pBuffer, 1, k)
          /\ pc' = IF Len(written') < dwFileSize THEN "reading" ELSE "done"
      BY <2>1 DEF WriteISOFile
    <3>2. left \in Nat
      BY <1>2, <3>1 DEF NeverLonger
    <3>3. k \in 0..Len(pBuffer) /\ Len(written) + k <= dwFileSize
          /\ (k = Len(pBuffer) \/ Len(written) + k = dwFileSize)
      BY <1>2, <3>2
    <3>4. written' \in Seq(Bytes) /\ Len(written') = Len(written) + k
      BY <1>1, <3>1, <3>3, Continued
    <3> HIDE DEF k, left
    <3>5. pc' = "reading" => k = Len(pBuffer)
      BY <1>2, <3>1, <3>3, <3>4
    <3>6. pc' = "reading" \/ (pc' = "done" /\ Len(written') >= dwFileSize)
      BY <1>2, <3>1, <3>3, <3>4
    <3> QED BY <3>1, <3>3, <3>5, <3>6
  <2>2. CASE WriteGeneric
    <3>1. SubSeq(pBuffer, 1, Len(pBuffer)) = pBuffer
      BY <1>2, SubSeqFull
    <3>2. /\ loop = "CopyFileGeneric" /\ pc' = "reading"
          /\ written' = written \o SubSeq(pBuffer, 1, Len(pBuffer))
      BY <2>2, <3>1 DEF WriteGeneric
    <3>3. Len(pBuffer) \in 0..Len(pBuffer)
      BY <1>2
    <3> QED BY <3>2, <3>3
  <2> QED BY <2>1, <2>2
<1>4. /\ written' \in Seq(Bytes) /\ Len(written') = Len(written) + k
      /\ \A j \in 1..Len(written') : written'[j] = ByteAt(j - 1)
  BY <1>1, <1>3, Continued
<1>5. \/ pc' = "reading" /\ k = Len(pBuffer)
      \/ pc' = "done" /\ Len(written') >= dwFileSize
  BY <1>3
<1>6. Types'
  BY <1>1, <1>4, <1>5, IsoAssumption DEF FileInv, Types
<1>7. RingInv' /\ FetchInv'
  BY <1>1 DEF FileInv, RingInv, FetchInv, Empty, Holds, BlockOf
<1>8. LengthInv'
  <2>1. NeverLonger'
    BY <1>1, <1>3, <1>4 DEF NeverLonger
  <2>2. Len(pBuffer') = 0
    BY <1>1
  <2>3. pc' = "reading" => Len(written') + Len(pBuffer') = dwFilePos'
    <3> SUFFICES ASSUME pc' = "reading" PROVE Len(written') + Len(pBuffer') = dwFilePos'
      OBVIOUS
    <3>1. k = Len(pBuffer)
      BY <1>5
    <3>2. Len(written') = dwFilePos /\ dwFilePos \in Nat
      BY <1>2, <1>4, <3>1
    <3> QED BY <1>1, <2>2, <3>2
  <2> QED BY <1>5, <2>1, <2>3 DEF LengthInv
<1>9. EndInv' /\ InOrder'
  BY <1>1, <1>4, <1>5 DEF EndInv, InOrder, ByteAt
<1>10. ShortOnlyByUnread'
  BY <1>1, <1>2, <1>4, <1>5 DEF ShortOnlyByUnread
<1> QED BY <1>6, <1>7, <1>8, <1>9, <1>10 DEF FileInv

LEMMA FileStep == FileInv /\ [Next]_vars => FileInv'
<1> SUFFICES ASSUME FileInv, [Next]_vars
             PROVE  FileInv'
  OBVIOUS
<1>1. CASE UNCHANGED vars
  BY <1>1 DEF vars, file, FileInv, Types, RingInv, FetchInv, LengthInv, NeverLonger, EndInv,
              InOrder, ShortOnlyByUnread, Empty, Holds, BlockOf, ByteAt
<1> QED BY <1>1, OpenStep, ReadStep, ReturnStep, EndStep, WriteStep DEF Next, CopyStep

LEMMA FileAlways == Spec => []FileInv
<1>1. Init => FileInv
  BY FileInit
<1>2. FileInv /\ [Next]_vars => FileInv'
  BY FileStep
<1> QED BY <1>1, <1>2, PTL DEF Spec

-----------------------------------------------------------------------------
(* The theorems.                                                           *)

(* The ring's slots and the position stay in range, and ReadFile never     *)
(* delivers more than it was asked for (iso9660::ReadFile).                *)
THEOREM TypeCorrect == Spec => []TypeOK
<1>1. FileInv => TypeOK
  BY DEF FileInv, Types, TypeOK, RingOK, Ring, Bytes
<1> QED BY <1>1, FileAlways, PTL

(* What is delivered and written is the file, byte by byte and in order,   *)
(* for every size of ring, sector and buffer, although slots overlap       *)
(* (iso9660::ReadSectorFromCache).                                         *)
THEOREM InOrderCorrect == Spec => []InOrder
<1>1. FileInv => InOrder
  BY DEF FileInv
<1> QED BY <1>1, FileAlways, PTL

(* A finished copy is short only of bytes from the first sector on that    *)
(* could not be read: neither loop loses the last bytes of a file.         *)
THEOREM ShortOnlyByUnreadCorrect == Spec => []ShortOnlyByUnread
<1>1. FileInv => ShortOnlyByUnread
  BY DEF FileInv
<1> QED BY <1>1, FileAlways, PTL

(* CopyISOFile writes nothing that lies beyond the end of the file.        *)
THEOREM NeverLongerCorrect == Spec => []NeverLonger
<1>1. FileInv => NeverLonger
  BY DEF FileInv, LengthInv
<1> QED BY <1>1, FileAlways, PTL

(* Once a file is open its sectors come off the disc once each, wherever   *)
(* the caller's buffer ends, but for the first one, which OpenFile has     *)
(* read without telling the ring (iso9660::ReadSectorFromCache).           *)
THEOREM OnlyFirstReadTwiceCorrect == Spec => OnlyFirstReadTwice
<1>1. ASSUME FileInv, ReadSector, BlockOf \in fetched \cup probed
      PROVE  fetched = {}
  <2>1. BlockOf \in Nat /\ cache \in Ring /\ dwStartBlock \in Nat
    BY <1>1, Position DEF FileInv, Types
  <2>2. Empty(cache)
    BY <1>1, <2>1, RingFacts DEF FileInv, RingInv, ReadSector
  <2>3. \A s \in fetched : s \in Nat /\ dwStartBlock <= s /\ s < BlockOf
    BY <1>1, <2>2 DEF FileInv, FetchInv, Types
  <2>4. BlockOf = dwStartBlock
    BY <1>1, <2>1, <2>3 DEF FileInv, Types
  <2> QED BY <2>1, <2>3, <2>4
<1>2. FileInv /\ [Next]_vars =>
        [ReadSector /\ BlockOf \in fetched \cup probed => fetched = {}]_vars
  BY <1>1
<1> QED BY <1>2, FileAlways, PTL DEF Spec, OnlyFirstReadTwice
====
