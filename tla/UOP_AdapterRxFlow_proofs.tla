---------------------- MODULE UOP_AdapterRxFlow_proofs ----------------------
(***************************************************************************)
(* Proofs about UOP_AdapterRx while the stream stays within the buffer:    *)
(* reads return the bytes written, in order, each once, also when Write    *)
(* interrupts them.                                                        *)
(***************************************************************************)
EXTENDS UOP_AdapterRx_proofs, SequenceTheorems

InTurnNext == StreamStepInTurn \/ ApplicationStep \/ Tick

(* Write interrupts only an application that uses neither packet mode nor  *)
(* FlushIncomeBuffer: a byte that comes in the middle of a flush is lost.  *)
InterruptsNoFlush ==
    \A use \in Uses : use.preemptive => ~use.PacketMode /\ ~use.flushes

-----------------------------------------------------------------------------
(* The inductive invariant: what is held lies between read_pos and         *)
(* write_pos, wherever the application is in its call.  size does not      *)
(* count more than that: it counts less once the store of a read has       *)
(* overwritten the count of a Write.                                       *)
Flushing == pc \in {"flush_write_pos", "flush_read_pos"}

Start == read_pos + Copied
Counted == IF pc \in {"size", "size_loaded"} THEN size - part1size ELSE size

InOrder ==
    /\ Preemptive => ~Flushes
    /\ Flushing => ~Preemptive /\ size = 0
    /\ pc = "flush_read_pos" => write_pos = 0
    /\ ~Flushing => write_pos = Start + HeldCount /\ Counted <= HeldCount
    /\ pc = "size_loaded" /\ ~Preemptive => loaded = size

Flow == IInv /\ InOrder

LEMMA PlainTypes ==
    ASSUME Flow
    PROVE  /\ size_max \in Nat \ {0} /\ size \in 0..size_max
           /\ read_pos \in 0..size_max /\ write_pos \in 0..size_max
           /\ part1size \in Nat /\ maxsize \in Nat /\ loaded \in Int
           /\ pc \in {"limit", "copy", "size", "size_loaded"} => part1size <= size
           /\ pc = "size_loaded" => part1size <= loaded /\ loaded <= size
           /\ pc \in {"size", "size_loaded", "read_pos", "read_pos_loaded"} =>
                  read_pos + part1size <= size_max
           /\ pc = "read_pos_loaded" => loaded = read_pos
    BY Typed DEF Flow, IInv, Reading

(* Where Start and HeldCount are, by what the application is doing.            *)
Copying == pc \in {"size", "size_loaded", "read_pos", "read_pos_loaded"}

LEMMA Placed ==
    ASSUME Flow
    PROVE  /\ Copying => Start = read_pos + part1size
           /\ ~Copying => Start = read_pos
           /\ Preemptive => HeldCount = write_pos - Start
           /\ ~Preemptive => HeldCount = Counted
           /\ Counted \in Nat
<1>1. /\ Copied = IF Copying THEN part1size ELSE 0
      /\ read_pos \in Nat /\ part1size \in Nat /\ size \in Nat
    BY PlainTypes DEF Copied, Copying
<1> QED
    BY <1>1, PlainTypes DEF Start, HeldCount, Counted

LEMMA Places ==
    ASSUME Flow
    PROVE  /\ Start \in Nat /\ HeldCount \in Nat /\ Start + HeldCount <= size_max
           /\ Counted \in Nat /\ Counted <= HeldCount
<1>1. Start \in Nat /\ HeldCount \in Int
    BY Placed, PlainTypes DEF Copying
<1>2. CASE Flushing
  <2>1. Start = read_pos /\ HeldCount = 0 /\ Counted = 0
    BY <1>2, Placed, PlainTypes DEF Flow, InOrder, Flushing, Copying, Counted
  <2> QED
    BY <2>1, PlainTypes
<1>3. CASE ~Flushing
  <2>1. write_pos = Start + HeldCount /\ Counted <= HeldCount
    BY <1>3 DEF Flow, InOrder
  <2> QED
    BY <1>1, <2>1, Placed, PlainTypes
<1> QED
    BY <1>2, <1>3

(* The bytes held do not go round the end.                                 *)
LEMMA HeldPlain == Flow => Held = Bytes(Start, HeldCount)
<1> SUFFICES ASSUME Flow PROVE Held = Bytes(Start, HeldCount)
    OBVIOUS
<1>1. Start \in Nat /\ HeldCount \in Nat /\ Start + HeldCount <= size_max /\ size_max \in Nat
    BY Places, PlainTypes
<1>2. \A i \in 1..HeldCount : (Start + i - 1) % size_max = Start + i - 1
    BY <1>1
<1>3. Held = [i \in 1..HeldCount |-> buffer[(Start + i - 1) % size_max]]
    BY DEF Held, Start
<1> HIDE DEF Start
<1> QED
    BY <1>2, <1>3 DEF Bytes

LEMMA InitFlow == InterruptsNoFlush /\ Init => Flow
<1> SUFFICES ASSUME InterruptsNoFlush, Init PROVE Flow
    OBVIOUS
<1>1. IInv
    BY InitIInv DEF InterruptsNoFlush, PacketModeIsPolled
<1>2. PICK use \in Uses : Preemptive = use.preemptive /\ Flushes = use.flushes
    BY DEF Init
<1> QED
    BY <1>1, <1>2
    DEF Init, Flow, InOrder, Flushing, Start, HeldCount, Counted, Copied, InterruptsNoFlush

-----------------------------------------------------------------------------
(* The steps of the stream.                                                *)
LEMMA ReceiveInOrder ==
    ASSUME Flow, StreamSide, NEW data, NEW n \in Nat, Receive(data, n),
           write_pos' = Kept(write_pos) + n
    PROVE  /\ InOrder'
           /\ FlushFirst => Start' = 0 /\ HeldCount' = n
           /\ ~FlushFirst => Start' = Start /\ HeldCount' = HeldCount + n
<1>1. /\ size' = Kept(size) + n /\ read_pos' = Kept(read_pos)
      /\ UNCHANGED <<Flushes, Preemptive, PacketMode, pc, part1size, loaded>>
    BY DEF Receive, fixed, read
<1>2. ~Flushing
    BY DEF Flow, InOrder, Flushing, StreamSide
<1>3. write_pos = Start + HeldCount /\ Counted <= HeldCount /\ (Preemptive => ~Flushes)
    BY <1>2 DEF Flow, InOrder
<1>4. CASE FlushFirst
  <2>1. pc = "idle" /\ ~Preemptive
    BY <1>4 DEF FlushFirst, Flow, IInv, PacketModePolled, StreamSide
  <2>2. size' = n /\ read_pos' = 0 /\ write_pos' = n
    BY <1>1, <1>4 DEF Kept
  <2>3. Start' = 0 /\ HeldCount' = n /\ Counted' = n
    BY <1>1, <2>1, <2>2 DEF Start, HeldCount, Counted, Copied
  <2> QED
    BY <1>1, <1>4, <2>1, <2>2, <2>3 DEF InOrder, Flushing
<1>5. CASE ~FlushFirst
  <2>1. size' = size + n /\ read_pos' = read_pos /\ write_pos' = write_pos + n
    BY <1>1, <1>5 DEF Kept
  <2>2. Start' = Start /\ HeldCount' = HeldCount + n /\ Counted' = Counted + n
    <3>1. Start' = Start
        BY <1>1, <2>1 DEF Start, Copied
    <3>2. Counted' = Counted + n
        BY <1>1, <2>1, PlainTypes DEF Counted
    <3>3. Copied' = Copied /\ Copied \in Nat
        BY <1>1, PlainTypes DEF Copied
    <3>4. HeldCount' = HeldCount + n
        BY <1>1, <2>1, <3>3, PlainTypes DEF HeldCount
    <3> QED
        BY <3>1, <3>2, <3>4
  <2>3. write_pos' = Start' + HeldCount' /\ Counted' <= HeldCount'
    BY <1>3, <2>1, <2>2, Places
  <2>4. pc = "size_loaded" => Preemptive
    BY DEF StreamSide
  <2> QED
    BY <1>1, <1>2, <1>3, <1>5, <2>2, <2>3, <2>4 DEF InOrder, Flushing
<1> QED
    BY <1>4, <1>5

(* What a step of the stream stores: n bytes, where the last one ended.    *)
Arrived(data, n) ==
    /\ StreamSide
    /\ n \in 0..Len(data)
    /\ Kept(write_pos) + n <= size_max
    /\ buffer' = Stored(buffer, Kept(write_pos), SubSeq(data, 1, n))
    /\ write_pos' = Kept(write_pos) + n
    /\ Receive(data, n)

LEMMA Arrivals ==
    ASSUME Flow, StreamStepInTurn
    PROVE  \E data \in Data \cup {<<b>> : b \in Byte} :
               data \in Seq(Byte) /\ \E n \in Nat : Arrived(data, n)
<1>1. ASSUME NEW b \in Byte, Kept(write_pos) < size_max, WriteByte(b)
      PROVE  Arrived(<<b>>, 1)
  <2>1. Kept(write_pos) \in Nat /\ size_max \in Nat
    BY Typed, KeptIs DEF Flow
  <2>2. ByteAt = Kept(write_pos)
    BY <1>1, <2>1 DEF ByteAt
  <2>3. SubSeq(<<b>>, 1, 1) = <<b>> /\ Len(<<b>>) = 1
    <3>1. <<b>> \in Seq(Byte) /\ Len(<<b>>) = 1
        OBVIOUS
    <3> QED
        BY <3>1, SubSeqFull
  <2>4. /\ StreamSide /\ Receive(<<b>>, 1)
        /\ buffer' = Stored(buffer, Kept(write_pos), SubSeq(<<b>>, 1, 1))
        /\ write_pos' = Kept(write_pos) + 1
    BY <1>1, <2>2, <2>3 DEF WriteByte
  <2>5. 1 \in 0..Len(<<b>>) /\ Kept(write_pos) + 1 <= size_max
    BY <1>1, <2>1, <2>3
  <2> QED
    BY <2>4, <2>5 DEF Arrived
<1>2. ASSUME NEW data \in Data, WriteBlock(data)
      PROVE  Arrived(data, Taken(data)) /\ Taken(data) \in Nat
  <2>1. data \in Seq(Byte)
    BY RxAssumption
  <2>2. Taken(data) \in 0..Len(data) /\ Len(data) \in Nat
    BY <2>1, TakenIs DEF Flow
  <2> QED
    BY <1>2, <2>2 DEF WriteBlock, Arrived
<1>3. \A b \in Byte : <<b>> \in Seq(Byte)
    OBVIOUS
<1> QED
    BY <1>1, <1>2, <1>3, RxAssumption DEF StreamStepInTurn

LEMMA StoredBytes ==
    ASSUME Flow, NEW data \in Seq(Byte), NEW n \in Nat, Arrived(data, n)
    PROVE  /\ FlushFirst => Held' = SubSeq(data, 1, n)
           /\ ~FlushFirst => Held' = Held \o SubSeq(data, 1, n)
<1> DEFINE new == SubSeq(data, 1, n)
           at == Kept(write_pos)
<1>0. Len(data) \in Nat /\ n <= Len(data)
    BY DEF Arrived
<1>1. new \in Seq(Byte) /\ Len(new) = n
    BY <1>0
<1>2. /\ size' = Kept(size) + n /\ read_pos' = Kept(read_pos)
      /\ UNCHANGED <<size_max, pc, part1size>>
      /\ buffer' = Stored(buffer, at, new) /\ at + n <= size_max
    BY DEF Arrived, Receive, read
<1> HIDE DEF new
<1>3. at \in Nat /\ size_max \in Nat /\ buffer \in [0..size_max - 1 -> Cells]
    BY Typed, KeptIs DEF Flow
<1>4. /\ \A i \in 0..size_max - 1 : ~(i \in at..at + n - 1) => buffer'[i] = buffer[i]
      /\ \A i \in 1..n : buffer'[at + i - 1] = new[i]
  <2> HIDE DEF at
  <2>1. buffer' = [i \in 0..size_max - 1 |->
                      IF i \in at..at + n - 1 THEN new[i - at + 1] ELSE buffer[i]]
    BY <1>1, <1>2, <1>3 DEF Stored
  <2>2. \A i \in 1..n : /\ at + i - 1 \in 0..size_max - 1
                        /\ at + i - 1 \in at..at + n - 1
                        /\ (at + i - 1) - at + 1 = i
    BY <1>2, <1>3
  <2> QED
    BY <2>1, <2>2
<1>5. Flow'
  <2>1. InOrder'
    BY ReceiveInOrder DEF Arrived
  <2>2. IInv'
    <3>1. buffer' \in [0..size_max - 1 -> Cells]
        BY <1>1, <1>2, <1>3, Stores
    <3>2. write_pos' \in 0..size_max
        BY <1>2, <1>3 DEF Arrived
    <3>3. Kept(size) + n <= size_max
      <4>1. CASE FlushFirst
        BY <1>2, <1>3, <4>1 DEF Kept
      <4>2. CASE ~FlushFirst
        <5>1. ~Flushing
            BY DEF Flow, InOrder, Flushing, Arrived, StreamSide
        <5>2. write_pos = Start + HeldCount /\ at = write_pos /\ Kept(size) = size
            BY <4>2, <5>1 DEF Flow, InOrder, Kept
        <5>3. size <= Start + HeldCount
          <6>1. /\ size \in Nat /\ part1size \in Nat /\ read_pos \in Nat
                /\ HeldCount \in Nat /\ Start \in Nat /\ Counted <= HeldCount
            BY PlainTypes, Places
          <6>2. CASE pc \in {"size", "size_loaded"}
            BY <6>1, <6>2, Placed DEF Counted, Copying
          <6>3. CASE pc \notin {"size", "size_loaded"}
            BY <6>1, <6>3 DEF Counted
          <6> QED
            BY <6>2, <6>3
        <5> QED
            BY <1>2, <1>3, <5>2, <5>3, PlainTypes, Places
      <4> QED
        BY <4>1, <4>2
    <3> QED
        BY <3>1, <3>2, <3>3, ReceiveKeeps DEF Flow, Arrived
  <2> QED
    BY <2>1, <2>2 DEF Flow
<1>6. Held' = Bytes(Start, HeldCount)'
  <2>1. (Flow => Held = Bytes(Start, HeldCount))'
    BY HeldPlain, PTL
  <2> QED
    BY <1>5, <2>1
<1>7. CASE FlushFirst
  <2>1. pc = "idle"
    BY <1>7 DEF FlushFirst, Flow, IInv, PacketModePolled, StreamSide, Arrived
  <2>2. Start' = 0 /\ HeldCount' = n /\ at = 0
    BY <1>7, ReceiveInOrder DEF Kept, Arrived
  <2>3. Held' = [i \in 1..n |-> buffer'[0 + i - 1]]
    BY <1>6, <2>2 DEF Bytes
  <2>4. Held' = new
    BY <1>1, <1>4, <2>2, <2>3
  <2> QED
    BY <1>7, <2>4 DEF new
<1>8. CASE ~FlushFirst
  <2>1. ~Flushing
    BY DEF Flow, InOrder, Flushing, Arrived, StreamSide
  <2>2. write_pos = Start + HeldCount /\ at = write_pos
    BY <1>8, <2>1 DEF Flow, InOrder, Kept
  <2>3. Start' = Start /\ HeldCount' = HeldCount + n
    BY <1>8, ReceiveInOrder DEF Arrived
  <2> DEFINE s == Start
             c == HeldCount
  <2>4. Held = [i \in 1..c |-> buffer[s + i - 1]]
        /\ Held' = [i \in 1..c + n |-> buffer'[s + i - 1]]
    BY <1>6, <2>3, HeldPlain DEF Bytes
  <2>5. s \in Nat /\ c \in Nat /\ at = s + c
    BY <2>2, Places
  <2> HIDE DEF s, c, at
  <2>6. \A i \in 1..c : buffer'[s + i - 1] = buffer[s + i - 1]
    BY <1>2, <1>3, <1>4, <2>5
  <2>7. \A i \in c + 1..c + n : buffer'[s + i - 1] = new[i - c]
    <3>1. ASSUME NEW i \in c + 1..c + n PROVE buffer'[s + i - 1] = new[i - c]
      <4>1. i - c \in 1..n /\ at + (i - c) - 1 = s + i - 1
        BY <2>5, <3>1
      <4> QED
        BY <1>4, <4>1
    <3> QED
        BY <3>1
  <2>8. Held' = Held \o new
    <3>1. Len(Held) = c
        BY <2>4, <2>5
    <3>2. Held \o new = [i \in 1..c + n |-> IF i <= c THEN buffer[s + i - 1] ELSE new[i - c]]
        BY <1>1, <2>4, <2>5, <3>1
    <3>3. ASSUME NEW i \in 1..c + n
          PROVE  buffer'[s + i - 1] = IF i <= c THEN buffer[s + i - 1] ELSE new[i - c]
      <4>1. i \in 1..c \/ (i \in c + 1..c + n /\ ~(i <= c))
        BY <2>5, <3>3
      <4>2. i \in 1..c => i <= c
        BY <2>5
      <4> QED
        BY <2>6, <2>7, <4>1, <4>2
    <3> QED
        BY <2>4, <3>2, <3>3
  <2> QED
    BY <1>8, <2>8 DEF new
<1> QED
    BY <1>7, <1>8

-----------------------------------------------------------------------------
(* The steps of the application.                                           *)
LEMMA BytesCut ==
    ASSUME size_max \in Nat, buffer \in [0..size_max - 1 -> Cells],
           NEW from \in Nat, NEW n \in Nat, NEW m \in 0..n, from + n <= size_max
    PROVE  /\ Bytes(from, m) = SubSeq(Bytes(from, n), 1, m)
           /\ Bytes(from + m, n - m) = SubSeq(Bytes(from, n), m + 1, Len(Bytes(from, n)))
<1>1. Bytes(from, n) \in Seq(Cells) /\ Len(Bytes(from, n)) = n
    BY BytesAre
<1>2. Bytes(from, n) = [i \in 1..n |-> buffer[from + i - 1]]
      /\ Bytes(from, m) = [i \in 1..m |-> buffer[from + i - 1]]
      /\ Bytes(from + m, n - m) = [i \in 1..n - m |-> buffer[from + m + i - 1]]
    BY DEF Bytes
<1> DEFINE t == Bytes(from, n)
<1>3. /\ SubSeq(t, 1, m) = [i \in 1..m |-> t[i]]
      /\ SubSeq(t, m + 1, n) = [i \in 1..n - m |-> t[m + i]]
  <2> HIDE DEF t
  <2> QED
    BY <1>1
<1>4. \A i \in 1..m : t[i] = buffer[from + i - 1]
    BY <1>2
<1>5. \A i \in 1..n - m : t[m + i] = buffer[from + m + i - 1]
    BY <1>2
<1> QED
    BY <1>1, <1>2, <1>3, <1>4, <1>5

LEMMA NothingHeld == Flow /\ HeldCount = 0 => Held = <<>>
<1> SUFFICES ASSUME Flow, HeldCount = 0 PROVE Held = <<>>
    OBVIOUS
<1>1. Held = [i \in 1..0 |-> buffer[Start + i - 1]]
    BY HeldPlain DEF Bytes
<1> QED
    BY <1>1

(* What is held stays where nothing that Held depends on changes.          *)
LEMMA HeldStays ==
    ASSUME Flow, Flow', HeldCount' = HeldCount, Start' = Start \/ HeldCount = 0,
           \A i \in 0..size_max - 1 : buffer'[i] = buffer[i]
    PROVE  Held' = Held
<1>1. Held = Bytes(Start, HeldCount)
    BY HeldPlain
<1>2. (Flow => Held = Bytes(Start, HeldCount))'
    BY HeldPlain, PTL
<1>3. Start \in Nat /\ HeldCount \in Nat /\ Start + HeldCount <= size_max /\ size_max \in Nat
    BY Places, PlainTypes
<1>4. CASE Start' = Start
  <2>1. \A i \in 1..HeldCount : buffer'[Start + i - 1] = buffer[Start + i - 1]
    BY <1>3
  <2> QED
    BY <1>1, <1>2, <1>4, <2>1 DEF Bytes
<1>5. CASE HeldCount = 0
  <2>1. Held = <<>>
    BY <1>5, NothingHeld
  <2>2. (Flow /\ HeldCount = 0 => Held = <<>>)'
    BY NothingHeld, PTL
  <2> QED
    BY <1>5, <2>1, <2>2
<1> QED
    BY <1>4, <1>5

(* No read goes past the end of the buffer.                                *)
LEMMA ReadFits ==
    ASSUME Flow, pc \in {"limit", "copy"} PROVE read_pos + part1size <= size_max
<1>1. Start = read_pos /\ Counted = size
    BY Placed DEF Copying, Counted
<1> QED
    BY <1>1, Places, PlainTypes

(* A step of the application that does not touch the positions.            *)
LEMMA LookInOrder ==
    ASSUME Flow, NEW next, Look(next), ~Flushing, ~Copying,
           next \in {"idle", "waiting", "checking", "available", "limit", "copy",
                    "undefined"}
    PROVE  InOrder' /\ Start' = Start /\ HeldCount' = HeldCount
<1>1. /\ pc' = next /\ UNCHANGED <<size, read_pos, write_pos, Preemptive, Flushes>>
    BY DEF Look, input, fixed
<1>2. /\ Start' = read_pos + 0 /\ Counted' = size
      /\ HeldCount' = IF Preemptive THEN write_pos - (read_pos + 0) ELSE size
    BY <1>1 DEF Start, HeldCount, Counted, Copied
<1>3. Start = read_pos /\ Counted = size
      /\ HeldCount = IF Preemptive THEN write_pos - read_pos ELSE size
    BY Placed DEF Copying, Counted
<1>4. read_pos + 0 = read_pos
    BY PlainTypes
<1> QED
    BY <1>1, <1>2, <1>3, <1>4 DEF Flow, InOrder, Flushing

LEMMA ApplicationInOrder ==
    ASSUME Flow, ApplicationStep \/ Tick \/ UNCHANGED vars
    PROVE  /\ InOrder'
           /\ \/ /\ HeldCount' = HeldCount /\ (Start' = Start \/ HeldCount = 0)
                 /\ UNCHANGED <<offered, PacketMode>>
                 /\ got' = got \/ got' = <<>>
                 /\ \A i \in 0..size_max - 1 : buffer'[i] = buffer[i]
              \/ ReadAllCopies /\ Start' = Start + part1size /\ HeldCount' = HeldCount - part1size
              \/ FlushIncomeBuffer /\ HeldCount' = 0
<1> DEFINE Stays == /\ HeldCount' = HeldCount /\ (Start' = Start \/ HeldCount = 0)
                    /\ UNCHANGED <<offered, PacketMode>>
                    /\ got' = got \/ got' = <<>>
                    /\ \A i \in 0..size_max - 1 : buffer'[i] = buffer[i]
           Goal == /\ InOrder'
                   /\ \/ Stays
                      \/ /\ ReadAllCopies
                         /\ Start' = Start + part1size /\ HeldCount' = HeldCount - part1size
                      \/ FlushIncomeBuffer /\ HeldCount' = 0
<1>1. ASSUME NEW next, Look(next), ~Flushing,
             next \in {"idle", "waiting", "checking", "available", "limit", "copy",
                      "undefined"},
             ~Copying, got' = got \/ got' = <<>>
      PROVE  Goal
  <2>1. UNCHANGED <<offered, PacketMode, buffer>>
    BY <1>1 DEF Look, input, fixed
  <2> QED
    BY <1>1, <2>1, LookInOrder
<1>2. ASSUME \/ \E max \in MaxSizes, fits \in BOOLEAN : ReadPacket(max, fits)
             \/ ReadPacketLoops \/ ReadPacketChecks
             \/ \E max \in Nat : ReadAll(max)
             \/ ReadAllLimits
             \/ \E new \in BufferSizes : ShrinkBuffer(new)
      PROVE  Goal
  <2>1. PICK next \in {"idle", "waiting", "checking", "available", "limit", "copy",
                       "undefined"} : Look(next) /\ got' = got
    BY <1>2 DEF ReadPacket, ReadPacketLoops, ReadPacketChecks, ReadAll, ReadAllLimits,
       ShrinkBuffer
  <2>2. pc \in {"idle", "waiting", "checking", "available", "limit"}
    BY <1>2 DEF ReadPacket, ReadPacketLoops, ReadPacketChecks, ReadAll, ReadAllLimits,
       ShrinkBuffer
  <2> QED
    BY <1>1, <2>1, <2>2 DEF Flushing, Copying
<1>3. ASSUME ReadPacketTimeout PROVE Goal
    BY <1>1, <1>3 DEF ReadPacketTimeout, Over, Look, Flushing, Copying
<1>4. ASSUME ReadAllCopies PROVE Goal
  <2>1. /\ pc = "copy" /\ pc' = "size"
        /\ UNCHANGED <<size, read_pos, write_pos, part1size, Preemptive, Flushes>>
    BY <1>4 DEF ReadAllCopies, input, fixed
  <2>2. /\ Start = read_pos /\ Counted = size
        /\ HeldCount = IF Preemptive THEN write_pos - read_pos ELSE size
    BY <2>1, Placed DEF Copying, Counted
  <2>3. /\ Start' = Start + part1size /\ Counted' = Counted - part1size
        /\ HeldCount' = IF Preemptive THEN write_pos - (read_pos + part1size)
                    ELSE size - part1size
    BY <2>1, <2>2 DEF Start, HeldCount, Counted, Copied
  <2>4. HeldCount' = HeldCount - part1size
    BY <2>2, <2>3, PlainTypes
  <2>5. write_pos = Start + HeldCount /\ Counted <= HeldCount
    BY <2>1 DEF Flow, InOrder, Flushing
  <2>6. write_pos' = Start' + HeldCount' /\ Counted' <= HeldCount'
    BY <2>1, <2>3, <2>4, <2>5, Places, PlainTypes
  <2>7. InOrder'
    BY <2>1, <2>6 DEF Flow, InOrder, Flushing
  <2> QED
    BY <1>4, <2>3, <2>4, <2>7
<1>5. ASSUME ReadAllLoadsSize \/ ReadAllMovesSize \/ ReadAllLoadsReadPos PROVE Goal
  <2>1. /\ Copying /\ Copying' /\ pc' # "size"
        /\ UNCHANGED <<buffer, read_pos, write_pos, part1size, Preemptive, Flushes, got,
                       offered, PacketMode>>
    BY <1>5 DEF ReadAllLoadsSize, ReadAllMovesSize, ReadAllLoadsReadPos, Copying, Look,
       input, fixed
  <2>2. /\ Start = read_pos + part1size
        /\ Preemptive => HeldCount = write_pos - Start
        /\ ~Preemptive => HeldCount = Counted
    BY <2>1, Placed
  <2>3. /\ Start' = read_pos + part1size
        /\ Preemptive => HeldCount' = write_pos - (read_pos + part1size)
        /\ ~Preemptive => HeldCount' = Counted'
    BY <2>1 DEF Copying, Start, HeldCount, Counted, Copied
  <2>4. Counted' <= Counted /\ (~Preemptive => Counted' = Counted) /\ Counted' \in Int
        /\ (pc' = "size_loaded" => loaded' = size')
    <3>1. CASE ReadAllLoadsSize
        BY <3>1, PlainTypes DEF ReadAllLoadsSize, Look, input, Counted
    <3>2. CASE ReadAllMovesSize
      <4>1. Counted = size - part1size /\ Counted' = loaded - part1size
            /\ pc' = "read_pos" /\ (~Preemptive => loaded = size)
        BY <3>2 DEF ReadAllMovesSize, Counted, Flow, InOrder
      <4> QED
        BY <3>2, <4>1, PlainTypes DEF ReadAllMovesSize
    <3>3. CASE ReadAllLoadsReadPos
        BY <3>3, PlainTypes DEF ReadAllLoadsReadPos, Look, input, Counted
    <3> QED
        BY <1>5, <3>1, <3>2, <3>3
  <2>5. Start' = Start /\ HeldCount' = HeldCount
    BY <2>2, <2>3, <2>4
  <2>6. write_pos = Start + HeldCount /\ Counted <= HeldCount /\ (Preemptive => ~Flushes)
    BY <2>1 DEF Flow, InOrder, Flushing, Copying
  <2>7. Counted' <= HeldCount'
    BY <2>4, <2>5, <2>6, Places
  <2>8. ~Flushing'
    BY <2>1 DEF Flushing, Copying
  <2>9. InOrder'
    BY <2>1, <2>4, <2>5, <2>6, <2>7, <2>8 DEF InOrder, Flushing
  <2> QED
    BY <2>1, <2>5, <2>9
<1>6. ASSUME ReadAllMovesReadPos PROVE Goal
  <2>1. /\ pc = "read_pos_loaded" /\ pc' = "idle" /\ read_pos' = loaded + part1size
        /\ UNCHANGED <<buffer, size, write_pos, Preemptive, Flushes, got, offered,
                       PacketMode>>
    BY <1>6 DEF ReadAllMovesReadPos, ReadPosPastPart, Over, fixed
  <2>2. /\ Start = read_pos + part1size /\ Counted = size
        /\ HeldCount = IF Preemptive THEN write_pos - Start ELSE size
    BY <2>1, Placed DEF Copying, Counted
  <2>3. /\ Start' = read_pos' + 0 /\ Counted' = size
        /\ HeldCount' = IF Preemptive THEN write_pos - (read_pos' + 0) ELSE size
    BY <2>1 DEF Start, HeldCount, Counted, Copied
  <2>4. read_pos' + 0 = Start
    BY <2>1, <2>2, PlainTypes
  <2>5. Start' = Start /\ HeldCount' = HeldCount /\ Counted' = Counted
    BY <2>2, <2>3, <2>4
  <2>6. InOrder'
    BY <2>1, <2>5 DEF Flow, InOrder, Flushing
  <2> QED
    BY <2>1, <2>5, <2>6
<1>7. ASSUME ReadAllInTwo \/ ReadAllOverruns PROVE FALSE
  <2>1. pc = "copy"
    BY <1>7 DEF ReadAllInTwo, ReadAllOverruns
  <2>2. /\ read_pos + part1size <= size_max /\ ~(read_pos + part1size > size_max)
        /\ part1size \in 0..maxsize
    BY <2>1, ReadFits, PlainTypes DEF Flow, IInv, Reading
  <2> QED
    BY <1>7, <2>2 DEF ReadAllInTwo, ReadAllOverruns
<1>8. ASSUME FlushIncomeBuffer PROVE Goal
  <2>1. /\ pc' = "flush_write_pos" /\ size' = 0 /\ Flushes /\ ~Preemptive
        /\ UNCHANGED <<Preemptive, Flushes>>
    BY <1>8 DEF FlushIncomeBuffer, fixed, Flow, InOrder
  <2>2. HeldCount' = 0 /\ InOrder'
    BY <2>1 DEF HeldCount, Flow, InOrder, Flushing
  <2> QED
    BY <1>8, <2>2
<1>9. ASSUME FlushMovesWritePos \/ FlushMovesReadPos PROVE Goal
  <2>1. /\ Flushing /\ size = 0 /\ size' = 0 /\ ~Preemptive
        /\ UNCHANGED <<buffer, part1size, Preemptive, Flushes, got, offered, PacketMode>>
    BY <1>9 DEF FlushMovesWritePos, FlushMovesReadPos, fixed, Flow, InOrder, Flushing
  <2>2. CASE FlushMovesWritePos
    <3>1. /\ pc = "flush_write_pos" /\ pc' = "flush_read_pos" /\ write_pos' = 0
          /\ read_pos' = read_pos
        BY <2>2 DEF FlushMovesWritePos
    <3> QED
        BY <2>1, <3>1, PlainTypes DEF Flow, InOrder, Flushing, Start, HeldCount, Copied
  <2>3. CASE FlushMovesReadPos
    <3>1. /\ pc = "flush_read_pos" /\ pc' = "idle" /\ write_pos' = 0 /\ read_pos' = 0
        BY <2>3 DEF FlushMovesReadPos, Flow, InOrder
    <3>4. Copied' = 0 /\ HeldCount' = size' /\ HeldCount = size /\ Counted' = size' /\ ~Flushing'
        BY <2>1, <3>1 DEF Copied, HeldCount, Counted, Flushing
    <3>5. Start' = 0
      <4>1. Start' = read_pos' + Copied'
        BY DEF Start
      <4>2. read_pos' \in Nat /\ read_pos' = 0 /\ Copied' = 0
        BY <3>1, <3>4
      <4> QED
        BY <4>1, <4>2
    <3>6. HeldCount' = 0
        BY <2>1, <3>4
    <3>2. Start' = 0 /\ HeldCount' = 0 /\ HeldCount = 0
        BY <2>1, <3>4, <3>5, <3>6
    <3>7. write_pos' = Start' + HeldCount' /\ Counted' <= HeldCount'
      <4>1. Start' \in Nat /\ HeldCount' \in Nat /\ Start' = 0 /\ HeldCount' = 0 /\ write_pos' = 0
        BY <3>1, <3>2
      <4>2. Counted' = 0
        BY <2>1, <3>4
      <4> QED
        BY <4>1, <4>2
    <3>8. pc' = "idle" /\ ~Preemptive'
        BY <2>1, <3>1
    <3>3. InOrder'
        BY <3>4, <3>7, <3>8 DEF InOrder
    <3> QED
        BY <2>1, <3>2, <3>3
  <2> QED
    BY <1>9, <2>2, <2>3
<1>10. ASSUME NEW new \in BufferSizes, GrowBuffer(new) PROVE Goal
  <2>1. /\ pc = "idle" /\ UNCHANGED <<size, read_pos, write_pos, part1size, pc, Preemptive,
                                      Flushes, got, offered, PacketMode>>
        /\ \A i \in 0..size_max - 1 : buffer'[i] = buffer[i]
    <3>1. /\ pc = "idle" /\ new >= size_max
          /\ buffer' = [i \in 0..new - 1 |-> IF i < size_max THEN buffer[i] ELSE Garbage]
          /\ UNCHANGED <<size, read_pos, write_pos, fixed, read, offered>>
        BY <1>10 DEF GrowBuffer
    <3>2. new \in Nat /\ size_max \in Nat
        BY PlainTypes, RxAssumption
    <3> QED
        BY <3>1, <3>2 DEF fixed, read
  <2>2. Start' = Start /\ HeldCount' = HeldCount /\ Counted' = Counted
    BY <2>1 DEF Start, HeldCount, Counted, Copied
  <2>3. InOrder'
    BY <2>1, <2>2 DEF Flow, InOrder, Flushing
  <2> QED
    BY <2>1, <2>2, <2>3
<1>11. ASSUME Tick \/ UNCHANGED vars PROVE Goal
  <2>1. UNCHANGED <<buffer, size, read_pos, write_pos, part1size, loaded, pc, Preemptive,
                    Flushes, got, offered, PacketMode>>
    BY <1>11 DEF Tick, vars, input, fixed, read
  <2>2. Start' = Start /\ HeldCount' = HeldCount /\ Counted' = Counted
    BY <2>1 DEF Start, HeldCount, Counted, Copied
  <2>3. InOrder'
    BY <2>1, <2>2 DEF Flow, InOrder, Flushing
  <2> QED
    BY <2>1, <2>2, <2>3
<1> HIDE DEF Goal
<1>12. ASSUME ReadStep PROVE Goal
  <2>1. maxsize \in Nat
    BY Typed DEF Flow
  <2> QED
    BY <1>2, <1>3, <1>4, <1>5, <1>6, <1>7, <1>12, <2>1 DEF ReadStep
<1>13. Goal
    BY <1>2, <1>8, <1>9, <1>10, <1>11, <1>12, RxAssumption DEF ApplicationStep
<1> QED
    BY <1>13 DEF Goal

-----------------------------------------------------------------------------
LEMMA InTurnIsNext == InTurnNext => Next
    BY DEF InTurnNext, StreamStepInTurn, StreamStep, Next

LEMMA FlowNext == Flow /\ [InTurnNext]_vars => Flow'
<1> SUFFICES ASSUME Flow, [InTurnNext]_vars PROVE Flow'
    OBVIOUS
<1>1. IInv'
    BY InTurnIsNext, NextIInv DEF Flow
<1>2. ASSUME StreamStepInTurn PROVE InOrder'
  <2>1. \E data : \E n \in Nat : Arrived(data, n)
    BY <1>2, Arrivals
  <2> QED
    BY <2>1, ReceiveInOrder DEF Arrived
<1>3. ASSUME ApplicationStep \/ Tick \/ UNCHANGED vars PROVE InOrder'
    BY <1>3, ApplicationInOrder
<1> QED
    BY <1>1, <1>2, <1>3 DEF Flow, InTurnNext

THEOREM FlowInvariance ==
    ASSUME InterruptsNoFlush PROVE InTurnSpec => []Flow
<1>1. Init => Flow
    BY InitFlow
<1> QED
    BY <1>1, FlowNext, PTL DEF InTurnSpec, InTurnNext

(* While the stream stays within the buffer no read takes the two-part     *)
(* branch, with its negative lengths: not even one that is interrupted     *)
(* by Write before its copy.                                               *)
THEOREM StaysDefined ==
    ASSUME InterruptsNoFlush PROVE InTurnSpec => ReadAllStaysDefined
<1>1. Flow /\ [InTurnNext]_vars => [pc = "copy" => pc' \in {"copy", "size"}]_vars
  <2> SUFFICES ASSUME Flow, InTurnNext, pc = "copy" PROVE pc' \in {"copy", "size"}
    OBVIOUS
  <2>1. ASSUME StreamStepInTurn PROVE pc' = pc
    BY <2>1 DEF StreamStepInTurn, WriteByte, WriteBlock, Receive, read
  <2>2. ASSUME Tick PROVE pc' = pc
    BY <2>2 DEF Tick
  <2>3. ASSUME ApplicationStep PROVE pc' = "size"
    <3>1. ReadAllCopies
      <4>1. read_pos + part1size <= size_max /\ part1size \in 0..maxsize
            /\ ~(read_pos + part1size > size_max)
        BY ReadFits, PlainTypes DEF Flow, IInv, Reading
      <4> QED
        BY <2>3, <4>1
        DEF ApplicationStep, ReadPacket, ReadAll, ReadStep, FlushIncomeBuffer,
            FlushMovesWritePos, FlushMovesReadPos, GrowBuffer, ShrinkBuffer,
            ReadPacketLoops, ReadPacketChecks, ReadPacketTimeout, ReadAllLimits,
            ReadAllLoadsSize, ReadAllMovesSize, ReadAllLoadsReadPos,
            ReadAllMovesReadPos, ReadAllInTwo, ReadAllOverruns
    <3> QED
        BY <3>1 DEF ReadAllCopies
  <2> QED
    BY <2>1, <2>2, <2>3 DEF InTurnNext
<1> QED
    BY <1>1, FlowInvariance, PTL DEF InTurnSpec, InTurnNext, ReadAllStaysDefined

-----------------------------------------------------------------------------
(***************************************************************************)
(* The byte channel that the receive side implements.                      *)
(***************************************************************************)
LEMMA InitChannel == InterruptsNoFlush /\ Init => Channel!Init
<1> SUFFICES ASSUME InterruptsNoFlush, Init PROVE Channel!Init
    OBVIOUS
<1>1. Flow
    BY InitFlow
<1>2. Held = <<>>
    BY <1>1, NothingHeld, PlainTypes DEF Init, HeldCount, Copied
<1>3. PacketMode \in BOOLEAN
    BY <1>1, Typed DEF Flow
<1> QED
    BY <1>2, <1>3 DEF Init, Channel!Init

LEMMA StepChannel ==
    Flow /\ [InTurnNext]_vars => [Channel!Next]_(Channel!vars)
<1> SUFFICES ASSUME Flow, [InTurnNext]_vars PROVE [Channel!Next]_(Channel!vars)
    OBVIOUS
<1> DEFINE Goal == [Channel!Next]_(Channel!vars)
<1>0. Flow'
    BY FlowNext
<1>1. ASSUME StreamStepInTurn PROVE Goal
  <2>1. PICK data \in Data \cup {<<b>> : b \in Byte} :
           data \in Seq(Byte) /\ \E n \in Nat : Arrived(data, n)
    BY <1>1, Arrivals
  <2>2. PICK n \in Nat : Arrived(data, n)
    BY <2>1
  <2>3. /\ n \in 0..Len(data) /\ offered' = data /\ UNCHANGED <<PacketMode, got>>
    BY <2>2 DEF Arrived, Receive, fixed, read
  <2>4. /\ FlushFirst => PacketMode /\ Held' = SubSeq(data, 1, n)
        /\ ~FlushFirst => Held' = Held \o SubSeq(data, 1, n)
    BY <2>1, <2>2, StoredBytes DEF FlushFirst
  <2>5. Channel!Arrive(data)
    BY <2>3, <2>4 DEF Channel!Arrive
  <2> QED
    BY <2>5 DEF Channel!Next
<1>2. ASSUME ApplicationStep \/ Tick \/ UNCHANGED vars PROVE Goal
  <2>1. CASE /\ HeldCount' = HeldCount /\ (Start' = Start \/ HeldCount = 0)
             /\ UNCHANGED <<offered, PacketMode>>
             /\ got' = got \/ got' = <<>>
             /\ \A i \in 0..size_max - 1 : buffer'[i] = buffer[i]
    <3>1. Held' = Held
        BY <1>0, <2>1, HeldStays
    <3> QED
        BY <2>1, <3>1 DEF Channel!Next, Channel!TakeNothing, Channel!vars
  <2>2. CASE ReadAllCopies /\ Start' = Start + part1size /\ HeldCount' = HeldCount - part1size
    <3>1. /\ pc = "copy" /\ got' = Bytes(read_pos, part1size)
          /\ UNCHANGED <<buffer, offered, PacketMode>>
        BY <2>2 DEF ReadAllCopies, input, fixed
    <3>2. Start = read_pos /\ part1size \in 0..HeldCount
      <4>1. Start = read_pos /\ Counted = size /\ part1size <= size
        BY <3>1, Placed, PlainTypes DEF Copying, Counted
      <4> QED
        BY <4>1, Places, PlainTypes
    <3>3. Start \in Nat /\ HeldCount \in Nat /\ Start + HeldCount <= size_max /\ size_max \in Nat
          /\ buffer \in [0..size_max - 1 -> Cells]
        BY Places, Typed DEF Flow
    <3>4. Held = Bytes(Start, HeldCount)
        BY HeldPlain
    <3>5. (Flow => Held = Bytes(Start, HeldCount))'
        BY HeldPlain, PTL
    <3>6. Held' = Bytes(Start + part1size, HeldCount - part1size)
        BY <1>0, <2>2, <3>1, <3>5 DEF Bytes
    <3>7. /\ got' = SubSeq(Held, 1, part1size)
          /\ Held' = SubSeq(Held, part1size + 1, Len(Held))
        BY <3>1, <3>2, <3>3, <3>4, <3>6, BytesCut
    <3>8. part1size \in 0..Len(Held)
        BY <3>2, <3>3, <3>4, BytesAre
    <3> QED
        BY <3>1, <3>7, <3>8 DEF Channel!Next, Channel!Take
  <2>3. CASE FlushIncomeBuffer /\ HeldCount' = 0
    <3>1. (Flow /\ HeldCount = 0 => Held = <<>>)'
        BY NothingHeld, PTL
    <3>2. Held' = <<>>
        BY <1>0, <2>3, <3>1
    <3> QED
        BY <2>3, <3>2 DEF FlushIncomeBuffer, fixed, Channel!Next, Channel!Discard
  <2> QED
    BY <1>2, <2>1, <2>2, <2>3, ApplicationInOrder
<1> QED
    BY <1>1, <1>2 DEF InTurnNext

(* The receive side is a byte channel, for every size of the buffer and    *)
(* every delay, as long as the stream stays within the buffer between two  *)
(* flushes: reads return the bytes written, in order, each once.  Also     *)
(* when Write interrupts them between any two statements, or between the   *)
(* load and the store of input.size -= part1size and of the move of        *)
(* read_pos: its bytes are then not counted and wait in their place, but   *)
(* none is read twice, skipped or taken for another.                       *)
THEOREM ImplementsChannel ==
    ASSUME InterruptsNoFlush PROVE InTurnSpec => ChannelSpec
<1>1. Init => Channel!Init
    BY InitChannel
<1> QED
    BY <1>1, StepChannel, FlowInvariance, PTL
    DEF InTurnSpec, InTurnNext, ChannelSpec, Channel!Spec

=============================================================================
