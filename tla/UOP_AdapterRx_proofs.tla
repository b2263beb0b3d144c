------------------------ MODULE UOP_AdapterRx_proofs ------------------------
(***************************************************************************)
(* Proofs about UOP_AdapterRx and UOP_RxBursts, for every size of the      *)
(* buffer, every delay and everything the stream may write: types, the     *)
(* count of bytes held, and the packets of packet mode.                    *)
(***************************************************************************)
EXTENDS UOP_RxBursts, TLAPS

(* Write does not interrupt an application that uses packet mode: its      *)
(* flush would change positions under a read.                              *)
PacketModeIsPolled == \A use \in Uses : ~(use.PacketMode /\ use.preemptive)

Cells == Byte \cup {Garbage}

-----------------------------------------------------------------------------
(* Cells that are stored into stay cells.                                  *)
LEMMA Stores ==
    ASSUME size_max \in Nat, NEW cells \in [0..size_max - 1 -> Cells],
           NEW at \in Nat, NEW data \in Seq(Byte)
    PROVE  Stored(cells, at, data) \in [0..size_max - 1 -> Cells]
<1>1. ASSUME NEW i \in 0..size_max - 1, i \in at..at + Len(data) - 1
      PROVE  data[i - at + 1] \in Cells
  <2>1. i - at + 1 \in 1..Len(data)
    BY <1>1
  <2> QED
    BY <2>1 DEF Cells
<1> QED
    BY <1>1 DEF Stored

(* Bytes of the buffer are cells, as many as were asked for.               *)
LEMMA BytesAre ==
    ASSUME size_max \in Nat, buffer \in [0..size_max - 1 -> Cells],
           NEW from \in Nat, NEW n \in Nat, from + n <= size_max
    PROVE  Bytes(from, n) \in Seq(Cells) /\ Len(Bytes(from, n)) = n
<1>1. \A i \in 1..n : buffer[from + i - 1] \in Cells
    OBVIOUS
<1> QED
    BY <1>1 DEF Bytes

LEMMA SmallerIs ==
    ASSUME NEW a \in Int, NEW b \in Int
    PROVE  /\ Smaller(a, b) \in Int /\ Smaller(a, b) <= a /\ Smaller(a, b) <= b
           /\ Smaller(a, b) \in {a, b}
    BY DEF Smaller

-----------------------------------------------------------------------------
(* The inductive invariant.  A read that has begun finds what it is going  *)
(* to take, and the count it has loaded is one that the buffer held:       *)
(* nothing but the flush of packet mode could take bytes away.             *)
Reading ==
    /\ part1size \in Nat
    /\ pc \in {"limit", "copy", "size", "size_loaded"} => part1size <= size
    /\ pc = "copy" => part1size <= maxsize
    /\ pc = "size_loaded" => part1size <= loaded /\ loaded <= size
    /\ pc \in {"size", "size_loaded", "read_pos", "read_pos_loaded"} =>
           read_pos + part1size <= size_max
    /\ pc = "read_pos_loaded" => loaded = read_pos

PacketModePolled == ~(PacketMode /\ Preemptive)

IInv == TypeOK /\ SizeInRange /\ Reading /\ PacketModePolled

LEMMA InitIInv == PacketModeIsPolled /\ Init => IInv
<1> SUFFICES ASSUME PacketModeIsPolled, Init PROVE IInv
    OBVIOUS
<1>1. /\ DefaultSize \in Nat \ {0} /\ Horizon \in Nat /\ TimeoutDelay \in Nat
      /\ \A use \in Uses : /\ use.PacketMode \in BOOLEAN /\ use.preemptive \in BOOLEAN
                           /\ use.flushes \in BOOLEAN
    BY RxAssumption DEF Use
<1>2. PICK use \in Uses : /\ PacketMode = use.PacketMode
                          /\ Preemptive = use.preemptive
                          /\ Flushes = use.flushes
    BY DEF Init
<1>3. PacketMode \in BOOLEAN /\ Preemptive \in BOOLEAN /\ Flushes \in BOOLEAN
    BY <1>1, <1>2
<1>4. PacketModePolled
    BY <1>2 DEF PacketModeIsPolled, PacketModePolled
<1>5. [i \in 0..DefaultSize - 1 |-> Garbage] \in [0..DefaultSize - 1 -> Byte \cup {Garbage}]
    OBVIOUS
<1>6. <<>> \in Seq(Byte) /\ <<>> \in Seq(Byte \cup {Garbage})
    OBVIOUS
<1>7. TypeOK
    BY <1>1, <1>3, <1>5, <1>6 DEF Init, TypeOK, PC
<1> QED
    BY <1>1, <1>4, <1>7 DEF Init, IInv, SizeInRange, Reading

(* The types, one fact each.                                               *)
LEMMA Typed ==
    ASSUME IInv
    PROVE  /\ size_max \in Nat \ {0} /\ buffer \in [0..size_max - 1 -> Cells]
           /\ size \in 0..size_max /\ read_pos \in 0..size_max
           /\ write_pos \in 0..size_max /\ sinceIn \in 0..Horizon
           /\ maxsize \in Nat /\ part1size \in Nat /\ loaded \in Int
           /\ waited \in 0..TimeoutDelay
           /\ got \in Seq(Cells) /\ offered \in Seq(Byte)
           /\ PacketMode \in BOOLEAN /\ pc \in PC
           /\ Horizon \in Nat /\ TimeoutDelay \in Nat
    BY RxAssumption DEF IInv, TypeOK, SizeInRange, Reading, Cells

(* What a step that lets the application's call be has to keep.            *)
LEMMA ReceiveKeeps ==
    ASSUME IInv, StreamSide, NEW data \in Seq(Byte), NEW taken \in Nat,
           Receive(data, taken), Kept(size) + taken <= size_max,
           buffer' \in [0..size_max - 1 -> Cells], write_pos' \in 0..size_max
    PROVE  IInv'
<1>1. /\ size' = Kept(size) + taken /\ read_pos' = Kept(read_pos) /\ sinceIn' = 0
      /\ offered' = data /\ UNCHANGED <<size_max, fixed, read>>
    BY DEF Receive
<1>2. UNCHANGED <<IncomePacketDelay, PacketMode, Preemptive, Flushes>>
      /\ UNCHANGED <<pc, maxsize, part1size, loaded, waited, got>>
    BY <1>1 DEF fixed, read
<1>3. size' \in 0..size_max /\ read_pos' \in 0..size_max
  <2>1. /\ size \in 0..size_max /\ read_pos \in 0..size_max /\ size_max \in Nat
    BY Typed
  <2>2. Kept(size) \in Nat /\ Kept(read_pos) \in 0..size_max
    BY <2>1 DEF Kept
  <2> QED
    BY <1>1, <2>1, <2>2
<1>5. TypeOK'
    BY <1>1, <1>2, <1>3, Typed DEF IInv, TypeOK, Cells
<1>7. Reading'
  <2>1. CASE FlushFirst
    <3>1. pc = "idle"
        BY <2>1 DEF FlushFirst, IInv, PacketModePolled, StreamSide
    <3> QED
        BY <1>2, <3>1 DEF IInv, Reading
  <2>2. CASE ~FlushFirst
    <3>1. size' = size + taken /\ read_pos' = read_pos
        BY <1>1, <2>2 DEF Kept
    <3>2. size \in Nat /\ part1size \in Nat /\ loaded \in Int
        BY Typed
    <3>3. /\ part1size <= size => part1size <= size'
          /\ loaded <= size => loaded <= size'
        BY <3>1, <3>2
    <3>4. Reading /\ UNCHANGED <<pc, maxsize, part1size, loaded, size_max>>
        BY <1>1, <1>2 DEF IInv
    <3> QED
        BY <3>1, <3>3, <3>4 DEF Reading
  <2> QED
    BY <2>1, <2>2
<1> QED
    BY <1>1, <1>2, <1>3, <1>5, <1>7 DEF IInv, SizeInRange, PacketModePolled

LEMMA KeptIs ==
    ASSUME IInv, NEW position \in 0..size_max
    PROVE  Kept(position) \in 0..size_max
    BY Typed DEF Kept

LEMMA WriteByteKeeps ==
    ASSUME IInv, NEW b \in Byte, WriteByte(b) PROVE IInv'
<1>1. /\ StreamSide /\ size # size_max /\ write_pos' = ByteAt + 1
      /\ buffer' = Stored(buffer, ByteAt, <<b>>) /\ Receive(<<b>>, 1)
    BY DEF WriteByte, IncomeBufferIsFull
<1>2. Kept(write_pos) \in 0..size_max /\ size_max \in Nat \ {0}
    BY Typed, KeptIs
<1>3. ByteAt \in 0..size_max - 1
    BY <1>2 DEF ByteAt
<1>4. write_pos' \in 0..size_max
    BY <1>1, <1>2, <1>3
<1>6. Kept(size) + 1 <= size_max
    BY <1>1, Typed DEF Kept
<1>7. <<b>> \in Seq(Byte)
    OBVIOUS
<1>8. buffer \in [0..size_max - 1 -> Cells] /\ ByteAt \in Nat /\ size_max \in Nat
    BY <1>3, Typed
<1>5. buffer' \in [0..size_max - 1 -> Cells]
    BY <1>1, <1>7, <1>8, Stores
<1> QED
    BY <1>1, <1>4, <1>5, <1>6, <1>7, ReceiveKeeps

LEMMA TakenIs ==
    ASSUME IInv, NEW data \in Seq(Byte)
    PROVE  /\ Taken(data) \in 0..Len(data)
           /\ Kept(size) + Taken(data) <= size_max
           /\ \A m, n \in 0..Len(data) : SubSeq(data, m + 1, n) \in Seq(Byte)
<1>1. Kept(size) \in 0..size_max /\ size_max \in Nat
    BY Typed, KeptIs
<1>2. Len(data) \in Nat
    OBVIOUS
<1> QED
    BY <1>1, <1>2 DEF Taken, Smaller

LEMMA WriteBlockKeeps ==
    ASSUME IInv, NEW data \in Seq(Byte), WriteBlock(data) \/ WriteBlockInTwo(data)
    PROVE  IInv'
<1> DEFINE n == Taken(data)
           at == Kept(write_pos)
           part1 == size_max - at
<1>1. /\ StreamSide /\ Receive(data, n)
    BY DEF WriteBlock, WriteBlockInTwo
<1>2. n \in 0..Len(data) /\ Kept(size) + n <= size_max
    BY TakenIs
<1>3. at \in 0..size_max /\ size_max \in Nat /\ buffer \in [0..size_max - 1 -> Cells]
    BY Typed, KeptIs
<1> HIDE DEF n, at
<1>4. CASE WriteBlock(data)
  <2>1. /\ buffer' = Stored(buffer, at, SubSeq(data, 1, n))
        /\ write_pos' = at + n /\ at + n <= size_max
    BY <1>4 DEF WriteBlock, n, at
  <2>2. SubSeq(data, 1, n) \in Seq(Byte)
    BY <1>2, TakenIs
  <2>4. buffer' \in [0..size_max - 1 -> Cells]
    <3>1. at \in Nat
        BY <1>3
    <3> QED
        BY <1>3, <2>1, <2>2, <3>1, Stores
  <2>3. buffer' \in [0..size_max - 1 -> Cells] /\ write_pos' \in 0..size_max
    BY <1>2, <1>3, <2>1, <2>4
  <2> QED
    BY <1>1, <1>2, <2>3, ReceiveKeeps
<1>5. CASE WriteBlockInTwo(data)
  <2>1. /\ buffer' = Stored(Stored(buffer, at, SubSeq(data, 1, part1)), 0,
                            SubSeq(data, part1 + 1, n))
        /\ write_pos' = 0 /\ at + n > size_max
    BY <1>5 DEF WriteBlockInTwo, n, at
  <2>2. part1 \in 0..Len(data)
    BY <1>2, <1>3, <2>1
  <2>3. SubSeq(data, 1, part1) \in Seq(Byte) /\ SubSeq(data, part1 + 1, n) \in Seq(Byte)
    BY <1>2, <2>2, TakenIs
  <2>4. Stored(buffer, at, SubSeq(data, 1, part1)) \in [0..size_max - 1 -> Cells]
    <3>1. at \in Nat
        BY <1>3
    <3> QED
        BY <1>3, <2>3, <3>1, Stores
  <2>5. buffer' \in [0..size_max - 1 -> Cells] /\ write_pos' \in 0..size_max
    <3>1. 0 \in Nat /\ 0 \in 0..size_max
        BY <1>3
    <3> QED
        BY <1>3, <2>1, <2>3, <2>4, <3>1, Stores
  <2> QED
    BY <1>1, <1>2, <2>5, ReceiveKeeps
<1> QED
    BY <1>4, <1>5

(* A step of the application that leaves the buffer as it is.              *)
LEMMA LookKeeps ==
    ASSUME IInv, NEW next \in PC, Look(next), maxsize' \in Nat, loaded' \in Int,
           waited' \in 0..TimeoutDelay, got' \in Seq(Cells), Reading'
    PROVE  IInv'
<1>1. /\ pc' = next
      /\ UNCHANGED <<buffer, size_max, size, read_pos, write_pos, sinceIn,
                     IncomePacketDelay, PacketMode, Preemptive, Flushes, offered>>
    BY DEF Look, input, fixed
<1>2. TypeOK'
    BY <1>1 DEF IInv, TypeOK, Reading, Cells
<1> QED
    BY <1>1, <1>2 DEF IInv, SizeInRange, PacketModePolled

(* One outside the body of ReadAll.                                        *)
LEMMA OutsideKeeps ==
    ASSUME IInv, NEW next \in {"idle", "waiting", "checking", "available", "undefined"},
           Look(next), maxsize' \in Nat, loaded' \in Int,
           part1size' \in Nat, waited' \in 0..TimeoutDelay, got' \in Seq(Cells)
    PROVE  IInv'
<1>1. pc' = next
    BY DEF Look
<1>2. Reading'
    BY <1>1 DEF Reading
<1>3. next \in PC
    BY DEF PC
<1> QED
    BY <1>2, <1>3, LookKeeps

(* A step that moves positions, of a call that goes on or is over.         *)
LEMMA MoveKeeps ==
    ASSUME IInv, size' \in 0..size_max, read_pos' \in 0..size_max,
           write_pos' \in 0..size_max, pc' \in PC, maxsize' \in Nat,
           loaded' \in Int, waited' \in 0..TimeoutDelay,
           got' \in Seq(Cells), sinceIn' \in 0..Horizon, Reading',
           UNCHANGED <<buffer, size_max, fixed, offered>>
    PROVE  IInv'
<1>1. UNCHANGED <<buffer, size_max, IncomePacketDelay, PacketMode, Preemptive, Flushes,
                  offered>>
    BY DEF fixed
<1>3. TypeOK'
    BY <1>1 DEF IInv, TypeOK, Reading, Cells
<1> QED
    BY <1>1, <1>3 DEF IInv, SizeInRange, PacketModePolled

LEMMA ReadPacketKeeps ==
    ASSUME IInv,
           \/ \E max \in MaxSizes, fits \in BOOLEAN : ReadPacket(max, fits)
           \/ ReadPacketLoops \/ ReadPacketChecks \/ ReadPacketTimeout
    PROVE  IInv'
<1>1. ASSUME NEW max \in MaxSizes, NEW fits \in BOOLEAN, ReadPacket(max, fits)
      PROVE  IInv'
  <2>1. Look("waiting") /\ maxsize' \in Nat /\ UNCHANGED <<part1size, loaded, got>>
        /\ waited' \in 0..TimeoutDelay
    BY <1>1, RxAssumption DEF ReadPacket
  <2> QED
    BY <2>1, Typed, OutsideKeeps
<1>2. CASE ReadPacketLoops
    BY <1>2, Typed, OutsideKeeps DEF ReadPacketLoops
<1>3. CASE ReadPacketChecks
  <2>1. PICK next \in {"available", "waiting"} :
           Look(next) /\ UNCHANGED <<maxsize, part1size, loaded, waited, got>>
    BY <1>3 DEF ReadPacketChecks
  <2> QED
    BY <2>1, Typed, OutsideKeeps
<1>4. CASE ReadPacketTimeout
  <2>1. Look("idle") /\ maxsize' = 0 /\ part1size' = 0
        /\ loaded' = 0 /\ waited' = 0 /\ got' = <<>>
    BY <1>4 DEF ReadPacketTimeout, Over, Look
  <2>2. <<>> \in Seq(Cells) /\ 0 \in 0..TimeoutDelay
    BY Typed
  <2> QED
    BY <2>1, <2>2, OutsideKeeps
<1> QED
    BY <1>1, <1>2, <1>3, <1>4

LEMMA ReadAllBegins ==
    ASSUME IInv, NEW max \in Nat, ReadAll(max) PROVE IInv'
<1>1. /\ Look("limit") /\ maxsize' = max /\ part1size' = size
      /\ waited' = 0 /\ UNCHANGED <<loaded, got>>
    BY DEF ReadAll
<1>2. pc' = "limit" /\ size' = size
    BY <1>1 DEF Look, input
<1>3. Reading' /\ 0 \in 0..TimeoutDelay
    BY <1>1, <1>2, Typed DEF Reading
<1> QED
    BY <1>1, <1>3, Typed, LookKeeps DEF PC

LEMMA ReadAllKeeps ==
    ASSUME IInv,
           \/ ReadAllLimits \/ ReadAllCopies \/ ReadAllLoadsSize \/ ReadAllMovesSize
           \/ ReadAllLoadsReadPos \/ ReadAllMovesReadPos
           \/ ReadAllInTwo \/ ReadAllOverruns
    PROVE  IInv'
<1>0. CASE ReadAllLimits
  <2>1. /\ pc = "limit" /\ pc' = "copy" /\ Look("copy")
        /\ part1size' = IF maxsize < size THEN maxsize ELSE part1size
        /\ UNCHANGED <<size, maxsize, loaded, waited, got>>
    BY <1>0 DEF ReadAllLimits, Look, input
  <2>2. Reading'
    BY <2>1, Typed DEF IInv, Reading
  <2> QED
    BY <2>1, <2>2, Typed, LookKeeps DEF PC
<1>1. CASE ReadAllCopies
  <2>1. /\ pc = "copy" /\ read_pos + part1size <= size_max /\ pc' = "size"
        /\ got' = Bytes(read_pos, part1size)
        /\ UNCHANGED <<buffer, size_max, size, read_pos, write_pos, sinceIn, fixed,
                       maxsize, part1size, loaded, waited, offered>>
    BY <1>1 DEF ReadAllCopies, input
  <2>2. got' \in Seq(Cells)
    BY <2>1, Typed, BytesAre
  <2>4. Reading'
    BY <2>1, Typed DEF IInv, Reading
  <2> QED
    BY <2>1, <2>2, <2>4, Typed, MoveKeeps DEF PC
<1>2a. CASE ReadAllLoadsSize
  <2>1. /\ pc = "size" /\ pc' = "size_loaded" /\ loaded' = size /\ Look("size_loaded")
        /\ UNCHANGED <<size_max, size, read_pos, maxsize, part1size, waited, got>>
    BY <1>2a DEF ReadAllLoadsSize, Look, input
  <2>2. Reading'
    BY <2>1, Typed DEF IInv, Reading
  <2> QED
    BY <2>1, <2>2, Typed, LookKeeps DEF PC
<1>2. CASE ReadAllMovesSize
  <2>1. /\ pc = "size_loaded" /\ pc' = "read_pos" /\ size' = loaded - part1size
        /\ UNCHANGED <<buffer, size_max, read_pos, write_pos, sinceIn, fixed, maxsize,
                       part1size, loaded, waited, got, offered>>
    BY <1>2 DEF ReadAllMovesSize
  <2>2. size' \in 0..size_max
    BY <2>1, Typed DEF IInv, Reading
  <2>3. Reading'
    BY <2>1 DEF IInv, Reading
  <2> QED
    BY <2>1, <2>2, <2>3, Typed, MoveKeeps DEF PC
<1>3a. CASE ReadAllLoadsReadPos
  <2>1. /\ pc = "read_pos" /\ pc' = "read_pos_loaded" /\ loaded' = read_pos
        /\ Look("read_pos_loaded")
        /\ UNCHANGED <<size_max, size, read_pos, maxsize, part1size, waited, got>>
    BY <1>3a DEF ReadAllLoadsReadPos, Look, input
  <2>2. Reading'
    BY <2>1, Typed DEF IInv, Reading
  <2> QED
    BY <2>1, <2>2, Typed, LookKeeps DEF PC
<1>3. CASE ReadAllMovesReadPos
  <2>1. /\ pc = "read_pos_loaded" /\ pc' = "idle" /\ read_pos' = loaded + part1size
        /\ maxsize' = 0 /\ part1size' = 0 /\ loaded' = 0 /\ waited' = 0
        /\ UNCHANGED <<buffer, size_max, size, write_pos, sinceIn, fixed, got, offered>>
    BY <1>3 DEF ReadAllMovesReadPos, ReadPosPastPart, Over
  <2>2. read_pos' \in 0..size_max /\ 0 \in 0..TimeoutDelay
    BY <2>1, Typed DEF IInv, Reading
  <2>3. Reading'
    BY <2>1 DEF Reading
  <2> QED
    BY <2>1, <2>2, <2>3, Typed, MoveKeeps DEF PC
<1>4. CASE ReadAllInTwo
  <2> DEFINE part1 == size - read_pos
             part2 == Smaller(read_pos, maxsize - part1)
  <2>1. /\ part1 \in 0..maxsize /\ pc' = "idle"
        /\ got' = Bytes(read_pos, part1) \o Bytes(0, part2)
        /\ size' = size - part2 /\ read_pos' = 0
        /\ maxsize' = 0 /\ part1size' = 0 /\ loaded' = 0 /\ waited' = 0
        /\ UNCHANGED <<buffer, size_max, write_pos, sinceIn, fixed, offered>>
    BY <1>4 DEF ReadAllInTwo, Over
  <2>a. /\ size \in 0..size_max /\ read_pos \in 0..size_max /\ maxsize \in Nat
        /\ size_max \in Nat /\ TimeoutDelay \in Nat
    BY Typed
  <2>b. part1 \in Nat /\ maxsize - part1 \in Nat /\ read_pos + part1 = size
    BY <2>1, <2>a
  <2>2. part1 \in Nat /\ part2 \in 0..read_pos /\ read_pos + part1 <= size_max
    BY <2>a, <2>b DEF Smaller
  <2> HIDE DEF part2
  <2>3. size' \in 0..size_max /\ 0 \in 0..size_max /\ 0 \in 0..TimeoutDelay
    BY <2>1, <2>2, <2>a, <2>b
  <2>4. part2 \in Nat /\ 0 + part2 <= size_max
    BY <2>2, Typed
  <2>6. Bytes(read_pos, part1) \in Seq(Cells)
    BY <2>2, Typed, BytesAre
  <2>7. Bytes(0, part2) \in Seq(Cells)
    BY <2>4, Typed, BytesAre
  <2>8. got' \in Seq(Cells)
    BY <2>1, <2>6, <2>7
  <2>9. Reading'
    BY <2>1 DEF Reading
  <2> QED
    BY <2>1, <2>3, <2>8, <2>9, Typed, MoveKeeps DEF PC
<1>5. CASE ReadAllOverruns
    BY <1>5, Typed, OutsideKeeps DEF ReadAllOverruns
<1> QED
    BY <1>0, <1>1, <1>2a, <1>2, <1>3a, <1>3, <1>4, <1>5

LEMMA FlushKeeps ==
    ASSUME IInv, FlushIncomeBuffer \/ FlushMovesWritePos \/ FlushMovesReadPos
    PROVE  IInv'
<1>1. /\ pc' \in {"idle", "flush_write_pos", "flush_read_pos"}
      /\ size' \in {0, size} /\ read_pos' \in {0, read_pos} /\ write_pos' \in {0, write_pos}
      /\ UNCHANGED <<buffer, size_max, sinceIn, fixed, maxsize, part1size, loaded, waited,
                     got, offered>>
    BY DEF FlushIncomeBuffer, FlushMovesWritePos, FlushMovesReadPos
<1>2. /\ size' \in 0..size_max /\ read_pos' \in 0..size_max /\ write_pos' \in 0..size_max
  <2>1. /\ size \in 0..size_max /\ read_pos \in 0..size_max /\ write_pos \in 0..size_max
    BY Typed
  <2>2. 0 \in 0..size_max
    BY Typed
  <2> QED
    BY <1>1, <2>1, <2>2, Zenon
<1>3. Reading' /\ pc' \in PC
    BY <1>1, Typed DEF Reading, PC
<1> QED
    BY <1>1, <1>2, <1>3, Typed, MoveKeeps

LEMMA ResizeKeeps ==
    ASSUME IInv, NEW new \in BufferSizes, GrowBuffer(new) \/ ShrinkBuffer(new)
    PROVE  IInv'
<1>1. CASE GrowBuffer(new)
  <2>1. /\ pc = "idle" /\ new >= size_max /\ size_max' = new
        /\ buffer' = [i \in 0..new - 1 |-> IF i < size_max THEN buffer[i] ELSE Garbage]
        /\ UNCHANGED <<size, read_pos, write_pos, sinceIn, IncomePacketDelay, PacketMode,
                       Preemptive, Flushes, pc, maxsize, part1size, loaded, waited, got,
                       offered>>
    BY <1>1 DEF GrowBuffer, fixed, read
  <2>2. size_max' \in Nat \ {0} /\ new \in Nat
    BY <2>1, RxAssumption
  <2>3. \A i \in 0..new - 1 : i < size_max => buffer[i] \in Cells
    <3>1. buffer \in [0..size_max - 1 -> Cells] /\ size_max \in Nat
        BY Typed
    <3> QED
        BY <2>2, <3>1
  <2>4. buffer' \in [0..size_max' - 1 -> Cells]
    BY <2>1, <2>3 DEF Cells
  <2>5. size' \in 0..size_max' /\ read_pos' \in 0..size_max' /\ write_pos' \in 0..size_max'
    BY <2>1, <2>2, Typed
  <2>6. TypeOK'
    BY <2>1, <2>2, <2>4, <2>5 DEF IInv, TypeOK, Cells
  <2> QED
    BY <2>1, <2>5, <2>6 DEF IInv, SizeInRange, Reading, PacketModePolled
<1>2. CASE ShrinkBuffer(new)
    BY <1>2, Typed, OutsideKeeps DEF ShrinkBuffer
<1> QED
    BY <1>1, <1>2

LEMMA TickKeeps ==
    ASSUME IInv, Tick PROVE IInv'
<1>1. /\ sinceIn' = Smaller(sinceIn + 1, Horizon)
      /\ waited' = IF Waiting THEN Smaller(waited + 1, TimeoutDelay) ELSE waited
      /\ UNCHANGED <<buffer, size_max, size, read_pos, write_pos, fixed, pc, maxsize,
                     part1size, loaded, got, offered>>
    BY DEF Tick
<1>2. sinceIn' \in 0..Horizon /\ waited' \in 0..TimeoutDelay
  <2>1. /\ sinceIn \in 0..Horizon /\ waited \in 0..TimeoutDelay
        /\ Horizon \in Nat /\ TimeoutDelay \in Nat
    BY Typed
  <2> QED
    BY <1>1, <2>1 DEF Smaller
<1>3. Reading'
    BY <1>1, Typed DEF IInv, Reading
<1> QED
    BY <1>1, <1>2, <1>3, Typed, MoveKeeps

LEMMA NextIInv == IInv /\ [Next]_vars => IInv'
<1> SUFFICES ASSUME IInv, [Next]_vars PROVE IInv'
    OBVIOUS
<1>1. CASE StreamStep
    BY <1>1, RxAssumption, WriteByteKeeps, WriteBlockKeeps DEF StreamStep
<1>2. CASE ApplicationStep
  <2>1. ASSUME NEW max \in MaxSizes, ReadAll(max) PROVE IInv'
    BY <2>1, RxAssumption, ReadAllBegins
  <2>2. ASSUME ReadAll(maxsize) PROVE IInv'
    BY <2>2, Typed, ReadAllBegins
  <2>3. CASE ReadStep
    BY <2>2, <2>3, ReadPacketKeeps, ReadAllKeeps DEF ReadStep
  <2> QED
    BY <1>2, <2>1, <2>3, ReadPacketKeeps, FlushKeeps, ResizeKeeps DEF ApplicationStep
<1>3. CASE Tick
    BY <1>3, TickKeeps
<1>4. CASE UNCHANGED vars
  <2>1. UNCHANGED <<buffer, size_max, size, read_pos, write_pos, sinceIn, fixed, offered,
                    pc, maxsize, part1size, loaded, waited, got>>
    BY <1>4 DEF vars, input, read
  <2>2. Reading'
    BY <2>1, Typed DEF IInv, Reading
  <2> QED
    BY <2>1, <2>2, Typed, MoveKeeps
<1> QED
    BY <1>1, <1>2, <1>3, <1>4 DEF Next

THEOREM Invariance ==
    ASSUME PacketModeIsPolled PROVE Spec => []IInv
<1>1. Init => IInv
    BY InitIInv
<1> QED
    BY <1>1, NextIInv, PTL DEF Spec

(* Every variable keeps its type and no position leaves the buffer: for    *)
(* every size of the buffer and all that the stream may write, round its   *)
(* end too, where the bytes are no longer the right ones.                  *)
THEOREM TypeCorrect ==
    ASSUME PacketModeIsPolled PROVE Spec => []TypeOK
<1>1. IInv => TypeOK
    BY DEF IInv
<1> QED
    BY <1>1, Invariance, PTL

(* The count of bytes held stays within the buffer, though Write may       *)
(* interrupt a read anywhere: between its two looks at size, behind the    *)
(* copy, or where its own count is overwritten by the store of the read.   *)
THEOREM CountInRange ==
    ASSUME PacketModeIsPolled PROVE Spec => []SizeInRange
<1>1. IInv => SizeInRange
    BY DEF IInv
<1> QED
    BY <1>1, Invariance, PTL

-----------------------------------------------------------------------------
(* The bursts on the wire.  LastIncomeTime is no younger than the last     *)
(* offer of the stream; while nothing of the running burst was taken, what *)
(* is held is old enough for the flush of packet mode.                     *)
BurstInv ==
    /\ IInv
    /\ silence \in 0..Horizon
    /\ fresh \in Nat
    /\ silence <= sinceIn
    /\ PacketMode /\ fresh = 0 /\ size > 0 => Gap
    /\ OneBurst

(* Nothing but a Write puts bytes into the buffer.                         *)
LEMMA ApplicationTakes ==
    ASSUME IInv, ApplicationStep
    PROVE  size' \in Int /\ size' <= size
           /\ UNCHANGED <<sinceIn, IncomePacketDelay, PacketMode>>
<1>1. CASE ReadAllMovesSize
    BY <1>1, Typed DEF ReadAllMovesSize, fixed, IInv, Reading
<1>2. CASE ReadAllInTwo
  <2> DEFINE part1 == size - read_pos
             part2 == Smaller(read_pos, maxsize - part1)
  <2>1. /\ part1 \in 0..maxsize /\ size' = size - part2
        /\ UNCHANGED <<sinceIn, IncomePacketDelay, PacketMode>>
    BY <1>2 DEF ReadAllInTwo, fixed
  <2>2. size \in Nat /\ read_pos \in Nat /\ maxsize \in Nat
    BY Typed
  <2>3. part2 \in Nat
    BY <2>1, <2>2 DEF Smaller
  <2> HIDE DEF part2
  <2> QED
    BY <2>1, <2>2, <2>3
<1>3. CASE FlushIncomeBuffer
    BY <1>3, Typed DEF FlushIncomeBuffer, fixed
<1>4. CASE ~ReadAllMovesSize /\ ~ReadAllInTwo /\ ~FlushIncomeBuffer
  <2>1. UNCHANGED <<size, sinceIn, fixed>>
    BY <1>4 DEF ApplicationStep, ReadStep, ReadPacket, ReadPacketLoops,
       ReadPacketChecks, ReadPacketTimeout, ReadAll, ReadAllLimits, ReadAllCopies,
       ReadAllLoadsSize, ReadAllLoadsReadPos, ReadAllMovesReadPos, ReadAllOverruns,
       FlushMovesWritePos, FlushMovesReadPos, GrowBuffer, ShrinkBuffer, Look, input
  <2> QED
    BY <2>1, Typed DEF fixed
<1> QED
    BY <1>1, <1>2, <1>3, <1>4

LEMMA BurstNextInv == BurstInv /\ [BurstNext]_burstVars => BurstInv'
<1> SUFFICES ASSUME BurstInv, [BurstNext]_burstVars PROVE BurstInv'
    OBVIOUS
<1>0. IInv /\ Horizon \in Nat /\ IncomePacketDelay \in Nat
    BY RxAssumption, Typed DEF BurstInv, IInv, TypeOK
<1>1. IInv'
    BY <1>0, NextIInv DEF BurstNext, TakenWrite, RefusedWrite, BurstApplication,
       BurstTick, burstVars, Next
<1>2. CASE TakenWrite
  <2>1. /\ silence' = 0
        /\ fresh' = IF silence > IncomePacketDelay THEN size' - Kept(size)
                    ELSE Smaller(fresh + (size' - Kept(size)), size_max)
    BY <1>2 DEF TakenWrite, Offers
  <2>2. /\ sinceIn' = 0 /\ UNCHANGED <<size_max, IncomePacketDelay, PacketMode>>
        /\ \E n \in Nat : n > 0 /\ size' = Kept(size) + n
    <3>1. ASSUME NEW b \in Byte, WriteByte(b) PROVE Receive(<<b>>, 1)
        BY <3>1 DEF WriteByte
    <3>2. ASSUME NEW data \in Data, WriteBlock(data) \/ WriteBlockInTwo(data)
          PROVE  Receive(data, Taken(data)) /\ Taken(data) \in Nat /\ Taken(data) > 0
        <4>1. /\ Receive(data, Taken(data)) /\ size # size_max /\ Len(data) > 0
          BY <3>2 DEF WriteBlock, WriteBlockInTwo, IncomeBufferIsFull
        <4>2. Len(data) \in Nat
          BY RxAssumption
        <4>3. size \in 0..size_max /\ Kept(size) \in {0, size} /\ size_max \in Nat \ {0}
          BY <1>0, Typed DEF Kept
        <4> QED
          BY <4>1, <4>2, <4>3 DEF Taken, Smaller
    <3>3. ASSUME NEW data, NEW n \in Nat, n > 0, Receive(data, n)
          PROVE  /\ sinceIn' = 0 /\ UNCHANGED <<size_max, IncomePacketDelay, PacketMode>>
                 /\ size' = Kept(size) + n
        BY <3>3 DEF Receive, fixed
    <3>4. CASE \E b \in Byte : WriteByte(b)
      <4>1. PICK b \in Byte : WriteByte(b)
        BY <3>4
      <4>2. 1 \in Nat /\ 1 > 0 /\ Receive(<<b>>, 1)
        BY <3>1, <4>1
      <4> QED
        BY <3>3, <4>2
    <3>5. CASE \E data \in Data : WriteBlock(data) \/ WriteBlockInTwo(data)
      <4>1. PICK data \in Data : WriteBlock(data) \/ WriteBlockInTwo(data)
        BY <3>5
      <4> QED
        BY <3>2, <3>3, <4>1
    <3> QED
        BY <1>2, <3>4, <3>5 DEF TakenWrite, StreamStep
  <2>3. PICK n \in Nat : n > 0 /\ size' = Kept(size) + n
    BY <2>2
  <2>4. /\ size \in 0..size_max /\ size_max \in Nat /\ size' \in 0..size_max
        /\ fresh \in Nat /\ silence \in Nat /\ sinceIn \in Nat /\ silence <= sinceIn
    BY <1>0, <1>1, <2>2, Typed DEF BurstInv, IInv, SizeInRange
  <2>5. fresh' \in Nat /\ fresh' > 0
    BY <2>1, <2>3, <2>4 DEF Kept, Smaller
  <2>6. ASSUME PacketMode PROVE size' <= fresh'
    <3>1. CASE silence > IncomePacketDelay
      <4>1. Kept(size) = 0
        BY <1>0, <2>4, <2>6, <3>1 DEF Kept, FlushFirst, IncomePacketAvailable, Gap
      <4> QED
        BY <2>1, <2>3, <3>1, <4>1
    <3>2. CASE ~(silence > IncomePacketDelay)
      <4>1. Kept(size) \in Nat /\ Kept(size) <= fresh
        BY <2>4, <2>6 DEF BurstInv, OneBurst, Kept, FlushFirst, IncomePacketAvailable
      <4> QED
        BY <2>1, <2>3, <2>4, <3>2, <4>1 DEF Smaller
    <3> QED
        BY <3>1, <3>2
  <2> QED
    BY <1>0, <1>1, <2>1, <2>2, <2>5, <2>6 DEF BurstInv, OneBurst
<1>3. CASE RefusedWrite
  <2>1. /\ silence' = 0 /\ UNCHANGED <<size_max, size, sinceIn, IncomePacketDelay, PacketMode>>
        /\ fresh' = IF silence > IncomePacketDelay THEN 0
                    ELSE Smaller(fresh + 0, size_max)
        /\ size = size_max
    BY <1>3 DEF RefusedWrite, Offers, vars, input, fixed, IncomeBufferIsFull
  <2>2. /\ size \in Nat /\ size_max \in Nat \ {0} /\ fresh \in Nat /\ silence \in Nat
        /\ sinceIn \in 0..Horizon /\ silence <= sinceIn
    BY <1>0, Typed DEF BurstInv
  <2>3. /\ fresh' \in Nat
        /\ fresh' = 0 => fresh = 0 \/ silence > IncomePacketDelay
        /\ fresh' # 0 => fresh' = Smaller(fresh, size_max)
    BY <2>1, <2>2 DEF Smaller
  <2>4. PacketMode /\ fresh' = 0 => Gap
    BY <1>0, <2>1, <2>2, <2>3 DEF BurstInv, Gap
  <2>5. PacketMode => fresh' = 0 \/ size <= fresh'
    BY <2>1, <2>2, <2>3 DEF BurstInv, OneBurst, Smaller
  <2> QED
    BY <1>0, <1>1, <2>1, <2>2, <2>3, <2>4, <2>5 DEF BurstInv, OneBurst, Gap
<1>4. CASE BurstApplication \/ UNCHANGED burstVars
  <2>1. /\ UNCHANGED <<silence, fresh, sinceIn, IncomePacketDelay, PacketMode>>
        /\ size' \in Int /\ size' <= size
    BY <1>0, <1>4, ApplicationTakes, Typed
    DEF BurstApplication, burstVars, vars, input, fixed
  <2>2. size \in Nat /\ fresh \in Nat
    BY <1>0, Typed DEF BurstInv
  <2> QED
    BY <1>1, <2>1, <2>2 DEF BurstInv, OneBurst, Gap
<1>5. CASE BurstTick
  <2>1. /\ silence' = Smaller(silence + 1, Horizon)
        /\ UNCHANGED <<fresh, size, IncomePacketDelay, PacketMode>>
        /\ sinceIn' = Smaller(sinceIn + 1, Horizon)
    BY <1>0, <1>5, Typed DEF BurstTick, Tick, Still, vars, input, fixed, Smaller
  <2>2. /\ silence \in 0..Horizon /\ sinceIn \in 0..Horizon /\ silence <= sinceIn
    BY <1>0, Typed DEF BurstInv
  <2>3. /\ silence' \in 0..Horizon /\ silence' <= sinceIn'
        /\ Gap => sinceIn' > IncomePacketDelay
    BY <1>0, <2>1, <2>2 DEF Smaller, Gap
  <2> QED
    BY <1>1, <2>1, <2>3 DEF BurstInv, OneBurst, Gap
<1> QED
    BY <1>2, <1>3, <1>4, <1>5 DEF BurstNext

(* In packet mode no read gets bytes of two packets: what the buffer holds *)
(* is of one burst of the wire, though LastIncomeTime is that of the last  *)
(* byte taken, and bytes that a full buffer refuses leave no trace in it.  *)
(* For every size of the buffer and every delay.                           *)
THEOREM OnePacket ==
    ASSUME PacketModeIsPolled PROVE BurstSpec => []OneBurst
<1>1. BurstInit => BurstInv
  <2> SUFFICES ASSUME BurstInit PROVE BurstInv
    OBVIOUS
  <2>1. IInv /\ Horizon \in Nat
    BY InitIInv, RxAssumption DEF BurstInit
  <2> QED
    BY <2>1 DEF BurstInit, Init, BurstInv, OneBurst
<1>2. BurstInv => OneBurst
    BY DEF BurstInv
<1> QED
    BY <1>1, <1>2, BurstNextInv, PTL DEF BurstSpec

-----------------------------------------------------------------------------
(* The clock.  UOP_AdapterRx cuts it off at Horizon, GetTime_ms() runs on. *)
(* Nothing is lost: a model whose clock runs further implements the one    *)
(* that cuts it off at Coarse, if every delay is smaller than that.        *)
CONSTANT Coarse

Fits == Coarse \in 0..Horizon /\ IncomePacketDelays \subseteq 0..Coarse - 1

Cut == INSTANCE UOP_AdapterRx
         WITH Horizon <- Coarse, sinceIn <- Smaller(sinceIn, Coarse)

(* The clocks and the delay one is compared with, for any use of the       *)
(* adapter.                                                                *)
ClockInv ==
    /\ sinceIn \in 0..Horizon
    /\ waited \in 0..TimeoutDelay
    /\ IncomePacketDelay \in IncomePacketDelays

LEMMA ClockKept ==
    ASSUME ClockInv, [Next]_vars PROVE ClockInv'
<1> USE RxAssumption DEF ClockInv
<1>1. ASSUME waited' \in {waited, 0, TimeoutDelay}, UNCHANGED <<sinceIn, IncomePacketDelay>>
      PROVE  ClockInv'
    BY <1>1
<1>2. ASSUME sinceIn' = 0, UNCHANGED <<waited, IncomePacketDelay>> PROVE ClockInv'
    BY <1>2
<1>3. CASE StreamStep
    BY <1>2, <1>3 DEF StreamStep, WriteByte, WriteBlock, WriteBlockInTwo, Receive, fixed,
       read
<1>4. CASE ApplicationStep
    BY <1>1, <1>4 DEF ApplicationStep, ReadStep, ReadPacket, ReadPacketLoops,
       ReadPacketChecks, ReadPacketTimeout, ReadAll, ReadAllLimits, ReadAllCopies,
       ReadAllLoadsSize, ReadAllMovesSize, ReadAllLoadsReadPos, ReadAllMovesReadPos,
       ReadAllInTwo, ReadAllOverruns, FlushIncomeBuffer,
       FlushMovesWritePos, FlushMovesReadPos, GrowBuffer, ShrinkBuffer, Look, input, fixed,
       read, Over
<1>5. CASE Tick
    BY <1>5 DEF Tick, Smaller, fixed
<1>6. CASE UNCHANGED vars
    BY <1>1, <1>6 DEF vars, input, fixed, read
<1> QED
    BY <1>3, <1>4, <1>5, <1>6 DEF Next

(* What the code asks of the clock, the clock cut off answers as well, and *)
(* nothing else depends on it.                                             *)
LEMMA CutAnswers ==
    ASSUME Fits, ClockInv
    PROVE  /\ Cut!Gap <=> Gap
           /\ Cut!IncomePacketAvailable <=> IncomePacketAvailable
           /\ \A position : Cut!Kept(position) = Kept(position)
<1>1. /\ sinceIn \in Nat /\ IncomePacketDelay \in Nat
      /\ Coarse \in Nat /\ IncomePacketDelay < Coarse
    BY RxAssumption DEF Fits, ClockInv
<1>2. Cut!Gap <=> Gap
    BY <1>1 DEF Gap, Cut!Gap, Smaller
<1>3. Cut!IncomePacketAvailable <=> IncomePacketAvailable
    BY <1>2 DEF IncomePacketAvailable, Cut!IncomePacketAvailable
<1>4. \A position : Cut!Kept(position) = Kept(position)
    BY <1>3 DEF Kept, Cut!Kept, FlushFirst, Cut!FlushFirst
<1> QED
    BY <1>2, <1>3, <1>4

LEMMA CutReceives ==
    ASSUME Fits, ClockInv, NEW data, NEW taken, Receive(data, taken)
    PROVE  Cut!Receive(data, taken)
<1>1. Smaller(sinceIn', Coarse) = 0
    BY RxAssumption DEF Fits, Receive, Smaller
<1> QED
    BY <1>1, CutAnswers DEF Receive, Cut!Receive, fixed, read, Cut!fixed, Cut!read

LEMMA CutStores ==
    ASSUME Fits, ClockInv
    PROVE  /\ StreamStep => Cut!StreamStep
           /\ StreamStepInTurn => Cut!StreamStepInTurn
<1>1. /\ Cut!StreamSide <=> StreamSide
      /\ Cut!IncomeBufferIsFull <=> IncomeBufferIsFull
      /\ Cut!ByteAt = ByteAt
      /\ \A data : Cut!Taken(data) = Taken(data)
      /\ \A cells, at, data : Cut!Stored(cells, at, data) = Stored(cells, at, data)
    BY CutAnswers DEF StreamSide, Cut!StreamSide, IncomeBufferIsFull,
       Cut!IncomeBufferIsFull, ByteAt, Cut!ByteAt, Taken, Cut!Taken, Smaller,
       Cut!Smaller, Stored, Cut!Stored
<1>2. ASSUME NEW b \in Byte, WriteByte(b) PROVE Cut!WriteByte(b)
    BY <1>1, <1>2, CutReceives DEF WriteByte, Cut!WriteByte
<1>3. ASSUME NEW data \in Data, WriteBlock(data) PROVE Cut!WriteBlock(data)
    BY <1>1, <1>3, CutAnswers, CutReceives DEF WriteBlock, Cut!WriteBlock
<1>4. ASSUME NEW data \in Data, WriteBlockInTwo(data) PROVE Cut!WriteBlockInTwo(data)
    BY <1>1, <1>4, CutAnswers, CutReceives DEF WriteBlockInTwo, Cut!WriteBlockInTwo
<1> QED
    BY <1>2, <1>3, <1>4, CutAnswers DEF StreamStep, Cut!StreamStep, StreamStepInTurn,
       Cut!StreamStepInTurn

LEMMA CutReads ==
    ASSUME Fits, ClockInv, ReadStep
    PROVE  Cut!ReadStep
<1> USE DEF input, fixed, read, Cut!input, Cut!fixed, Cut!read, Look, Cut!Look,
            Over, Cut!Over
<1>1. CASE ReadPacketLoops \/ ReadPacketTimeout
    BY <1>1 DEF ReadPacketLoops, ReadPacketTimeout, Cut!ReadPacketLoops,
       Cut!ReadPacketTimeout, Cut!ReadStep
<1>2. CASE ReadPacketChecks
    BY <1>2, CutAnswers DEF ReadPacketChecks, Cut!ReadPacketChecks, Cut!ReadStep
<1>3. CASE pc = "available" /\ ReadAll(maxsize)
    BY <1>3 DEF ReadAll, Cut!ReadAll, Cut!ReadStep
<1>4. \A from, n : Cut!Bytes(from, n) = Bytes(from, n)
    BY DEF Bytes, Cut!Bytes
<1>5. CASE ReadAllCopies
    BY <1>4, <1>5 DEF ReadAllCopies, Cut!ReadAllCopies, Cut!ReadStep
<1>6. CASE ReadAllMovesSize \/ ReadAllMovesReadPos
    BY <1>6 DEF ReadAllMovesSize, ReadAllMovesReadPos, ReadPosPastPart,
       Cut!ReadAllMovesSize, Cut!ReadAllMovesReadPos, Cut!ReadPosPastPart, Cut!ReadStep
<1>9. CASE ReadAllLimits \/ ReadAllLoadsSize \/ ReadAllLoadsReadPos
    BY <1>9 DEF ReadAllLimits, ReadAllLoadsSize, ReadAllLoadsReadPos, Cut!ReadAllLimits,
       Cut!ReadAllLoadsSize, Cut!ReadAllLoadsReadPos, Cut!ReadStep
<1>7. CASE ReadAllInTwo
    BY <1>4, <1>7 DEF ReadAllInTwo, Cut!ReadAllInTwo, Smaller, Cut!Smaller, Cut!ReadStep
<1>8. CASE ReadAllOverruns
    BY <1>8 DEF ReadAllOverruns, Cut!ReadAllOverruns, Cut!ReadStep
<1> QED
    BY <1>1, <1>2, <1>3, <1>5, <1>6, <1>7, <1>8, <1>9 DEF ReadStep

LEMMA CutApplies ==
    ASSUME Fits, ClockInv, ApplicationStep
    PROVE  Cut!ApplicationStep
<1> USE DEF input, fixed, read, Cut!input, Cut!fixed, Cut!read, Look, Cut!Look,
            Over, Cut!Over
<1>1. ASSUME NEW max \in MaxSizes, NEW fits \in BOOLEAN, ReadPacket(max, fits)
      PROVE  Cut!ReadPacket(max, fits)
    BY <1>1 DEF ReadPacket, Cut!ReadPacket
<1>2. ASSUME NEW max \in MaxSizes, ReadAll(max) PROVE Cut!ReadAll(max)
    BY <1>2 DEF ReadAll, Cut!ReadAll
<1>3. CASE FlushIncomeBuffer \/ FlushMovesWritePos \/ FlushMovesReadPos
    BY <1>3 DEF FlushIncomeBuffer, FlushMovesWritePos, FlushMovesReadPos,
       Cut!FlushIncomeBuffer, Cut!FlushMovesWritePos, Cut!FlushMovesReadPos,
       Cut!ApplicationStep
<1>4. ASSUME NEW new \in BufferSizes, GrowBuffer(new) \/ ShrinkBuffer(new)
      PROVE  Cut!GrowBuffer(new) \/ Cut!ShrinkBuffer(new)
    BY <1>4 DEF GrowBuffer, ShrinkBuffer, Cut!GrowBuffer, Cut!ShrinkBuffer
<1> QED
    BY <1>1, <1>2, <1>3, <1>4, CutReads DEF ApplicationStep, Cut!ApplicationStep

(* A millisecond is one on both clocks, until the cut one stands still.    *)
LEMMA CutTicks ==
    ASSUME Fits, ClockInv, Tick
    PROVE  Cut!Tick \/ UNCHANGED Cut!vars
<1>1. /\ sinceIn \in Nat /\ Horizon \in Nat /\ Coarse \in Nat /\ Coarse <= Horizon
      /\ sinceIn' = Smaller(sinceIn + 1, Horizon)
    BY RxAssumption DEF Fits, ClockInv, Tick
<1>2. Smaller(sinceIn', Coarse) = Smaller(Smaller(sinceIn, Coarse) + 1, Coarse)
    BY <1>1 DEF Smaller
<1>3. /\ waited' = IF Waiting THEN Smaller(waited + 1, TimeoutDelay) ELSE waited
      /\ pc # "undefined"
      /\ UNCHANGED <<buffer, size_max, size, read_pos, write_pos, fixed, pc,
                     maxsize, part1size, loaded, got, offered>>
    BY DEF Tick
<1>4. CASE Smaller(sinceIn, Coarse) < Coarse \/ (Waiting /\ waited < TimeoutDelay)
    BY <1>2, <1>3, <1>4 DEF Cut!Tick, Waiting, Cut!Waiting, Smaller, Cut!Smaller,
       fixed, Cut!fixed
<1>5. CASE ~(Smaller(sinceIn, Coarse) < Coarse) /\ ~(Waiting /\ waited < TimeoutDelay)
  <2>1. Smaller(sinceIn', Coarse) = Smaller(sinceIn, Coarse)
    BY <1>1, <1>2, <1>5 DEF Smaller
  <2>2. waited' = waited
    BY <1>3, <1>5, RxAssumption DEF ClockInv, Smaller
  <2> QED
    BY <1>3, <2>1, <2>2 DEF Cut!vars, Cut!input, Cut!read, Cut!fixed, fixed
<1> QED
    BY <1>4, <1>5

(* GetTime_ms, against which IncomePacketAvailable and the flush of packet *)
(* mode measure: the horizon of the clock is no bound of the program.      *)
(* Behaviours are those of a clock that stops behind the largest delay,    *)
(* for every use of the adapter.                                           *)
THEOREM HorizonSuffices ==
    ASSUME Fits
    PROVE  (Spec => Cut!Spec) /\ (InTurnSpec => Cut!InTurnSpec)
<1>1. Init => Cut!Init /\ ClockInv
  <2>1. Smaller(Horizon, Coarse) = Coarse /\ Horizon \in 0..Horizon
      /\ 0 \in 0..TimeoutDelay
    BY RxAssumption DEF Fits, Smaller
  <2> QED
    BY <2>1 DEF Init, Cut!Init, ClockInv
<1>2. ASSUME ClockInv, UNCHANGED vars PROVE UNCHANGED Cut!vars
    BY <1>2 DEF vars, input, fixed, read, Cut!vars, Cut!input, Cut!fixed, Cut!read
<1>3. ClockInv /\ [Next]_vars => [Cut!Next]_(Cut!vars)
    BY <1>2, CutStores, CutApplies, CutTicks DEF Next, Cut!Next
<1>4. Spec => Cut!Spec
    BY <1>1, <1>3, ClockKept, PTL DEF Spec, Cut!Spec
<1> DEFINE InTurn == StreamStepInTurn \/ ApplicationStep \/ Tick
           CutInTurn == Cut!StreamStepInTurn \/ Cut!ApplicationStep \/ Cut!Tick
<1>5. ClockInv /\ [InTurn]_vars => [CutInTurn]_(Cut!vars)
    BY <1>2, CutStores, CutApplies, CutTicks
<1>6. ClockInv /\ [InTurn]_vars => ClockInv'
    BY ClockKept DEF StreamStepInTurn, StreamStep, Next
<1>7. InTurnSpec => Cut!InTurnSpec
    BY <1>1, <1>5, <1>6, PTL DEF InTurnSpec, Cut!InTurnSpec
<1> QED
    BY <1>4, <1>7

=============================================================================
