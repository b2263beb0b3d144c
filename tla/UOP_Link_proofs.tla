-------------------------- MODULE UOP_Link_proofs --------------------------
(***************************************************************************)
(* Proofs about UOP_Link, for every packet, chunk size, buffer, delay and  *)
(* latency: the sender is none the wiser for the receiver, every variable  *)
(* keeps its type, and, where the pauses separate the chunks, the receiver *)
(* refuses nothing and reads whole chunks.                                 *)
(***************************************************************************)
EXTENDS UOP_Link, UOP_AdapterTx_proofs

Chunk == [bytes : Seq(Byte) \ {<<>>}, begun : BOOLEAN, age : 0..Latency]
Cells == Byte \cup {Garbage}

Begun == wire # <<>> /\ Head(wire).begun

(* A call that has read nothing yet, and the application not about to      *)
(* flush: the bytes held are those that have come since the last flush.    *)
Settled ==
    reader \in {"idle", "waiting", "checking", "available", "limit", "copy"}
Calm == Settled /\ ~flushDue
Flushing == reader \in {"flush_write_pos", "flush_read_pos"}
Reading == {"limit", "copy", "size", "size_loaded", "read_pos", "read_pos_loaded"}

-----------------------------------------------------------------------------
(* The sender in the link is the sender alone; it has a function to call.  *)
Driven == StreamWrite /\ pc # "undefined"

LEMMA SenderStep == Driven /\ [LinkNext]_linkVars => [Next]_vars
<1> SUFFICES ASSUME Driven, [LinkNext]_linkVars PROVE [Next]_vars
    OBVIOUS
<1> USE DEF Driven
<1>1. CASE Sends
    BY <1>1 DEF Sends, Next
<1>2. ASSUME NEW n, Crosses(n) PROVE [Next]_vars
    BY <1>2 DEF Crosses, Next
<1>3. CASE ByteArrives \/ BlockArrives
    BY <1>2, <1>3 DEF ByteArrives, BlockArrives
<1>4. CASE Reads \/ Flush
    BY <1>4 DEF Reads, Flush
<1>5. CASE TimePasses
    BY <1>5 DEF TimePasses, Next
<1>6. CASE UNCHANGED linkVars
    BY <1>6 DEF linkVars
<1> QED
    BY <1>1, <1>3, <1>4, <1>5, <1>6 DEF LinkNext

(* The settings are never changed.                                         *)
LEMMA SettingsStay ==
    ASSUME [Next]_vars
    PROVE  UNCHANGED settings
<1>1. ASSUME NEW t, NEW d, NEW w, NEW s, Leave(t, d, w, s)
      PROVE  UNCHANGED settings
    BY <1>1 DEF Leave
<1>2. Poll => UNCHANGED settings
    BY <1>1 DEF Poll, PollNotRunning, PollInDelay, PollTimeout, PollStreamBusy,
       PollStartDelay, PollComplete, PollTxBusy, PollStreamWrite, PollCallsNull
<1> QED
    BY <1>2 DEF Next, WritePacketAccepted, WritePacketRefused, StreamWriteReturns,
       ReturnFromStreamWrite, StreamDrains, TxComplete, Tick, vars

LEMMA DrivenStays == Driven /\ [LinkNext]_linkVars => Driven'
<1> SUFFICES ASSUME Driven, [LinkNext]_linkVars PROVE Driven'
    OBVIOUS
<1>1. [Next]_vars
    BY SenderStep
<1>2. StreamWrite' = StreamWrite
    BY <1>1, SettingsStay DEF settings
<1>3. ASSUME NEW t, NEW d, NEW w, NEW s, Leave(t, d, w, s)
      PROVE  pc' = pc
    BY <1>3 DEF Leave
<1>4. Poll => pc' # "undefined"
    BY <1>3 DEF Poll, PollNotRunning, PollInDelay, PollTimeout, PollStreamBusy,
       PollStartDelay, PollComplete, PollTxBusy, PollStreamWrite, PollCallsNull, Driven
<1>5. pc' # "undefined"
    BY <1>1, <1>4 DEF Next, WritePacketAccepted, WritePacketRefused, StreamWriteReturns,
       ReturnFromStreamWrite, StreamDrains, TxComplete, Tick, vars, call, Driven
<1> QED
    BY <1>2, <1>5 DEF Driven

LEMMA DrivenInvariance == LinkSpec => []Driven
<1>1. LinkInit => Driven
    BY DEF LinkInit, Init, Driven
<1> QED
    BY <1>1, DrivenStays, PTL DEF LinkSpec

(* Whatever the wire and the receiver do, the sender behaves as it does    *)
(* alone: all that is proved of Spec holds in the link.                    *)
THEOREM SenderAlone == LinkSpec => Spec
<1>1. LinkInit => Init
    BY DEF LinkInit
<1> QED
    BY <1>1, SenderStep, DrivenInvariance, PTL DEF LinkSpec, Spec

SenderInv == Inv /\ Driven

LEMMA SenderInvariance == LinkSpec => [](SenderInv /\ PaceInv)
<1>1. Inv /\ Driven => SenderInv
    BY DEF SenderInv
<1> QED
    BY <1>1, SenderAlone, DrivenInvariance, SpecInv, SpecPace, PTL

(* What a step of the sender does to the stream and to the clock that      *)
(* runs from the last chunk: it puts a chunk on the wire, or calls Stream- *)
(* Write in vain, or returns from it, or does none of this.                *)
Puts(n) ==
    /\ MaySend /\ pc' = "StreamWrite" /\ chunk' = n /\ quiet' = quiet
    /\ pending' = IF n > 0 THEN pending + 1 ELSE pending

LEMMA SendsDoes ==
    ASSUME SenderInv, Sends
    PROVE  \/ \E n \in 0..PacketSize : PollStreamWrite(n) /\ Puts(n)
           \/ StreamWriteReturns /\ pending' = pending
           \/ UNCHANGED <<pc, chunk, quiet, pending>>
<1>1. CASE \E packet \in Packets : WritePacketAccepted(packet, TRUE)
    BY <1>1 DEF WritePacketAccepted
<1>2. ASSUME NEW t, NEW d, NEW w, NEW s, Leave(t, d, w, s)
      PROVE  UNCHANGED <<pc, chunk, quiet, pending>>
    BY <1>2 DEF Leave, clocks, stream
<1>3. ASSUME NEW n \in 0..PacketSize, PollStreamWrite(n)
      PROVE  Puts(n)
    BY <1>3 DEF PollStreamWrite, Puts, StreamWriteTakes, clocks
<1>4. CASE Poll
    BY <1>2, <1>3, <1>4 DEF Poll, PollNotRunning, PollInDelay, PollTimeout,
       PollStreamBusy, PollStartDelay, PollComplete, PollTxBusy, PollCallsNull,
       SenderInv, Driven
<1>5. CASE StreamWriteReturns
    BY <1>5 DEF StreamWriteReturns, ReturnFromStreamWrite, stream
<1>6. CASE TxComplete
    BY <1>6 DEF TxComplete, call, clocks
<1> QED
    BY <1>1, <1>4, <1>5, <1>6 DEF Sends

-----------------------------------------------------------------------------
(* The wire.                                                               *)
WireOK == wire \in Seq(Chunk) /\ Len(wire) = pending

LEMMA Front ==
    ASSUME wire \in Seq(Chunk), wire # <<>>
    PROVE  /\ Len(wire) \in Nat \ {0} /\ Head(wire) = wire[1] /\ wire[1] \in Chunk
           /\ Head(wire).bytes \in Seq(Byte) /\ Len(Head(wire).bytes) \in Nat \ {0}
           /\ Head(wire).begun \in BOOLEAN /\ Head(wire).age \in 0..Latency
<1>1. Len(wire) \in Nat \ {0} /\ Head(wire) = wire[1] /\ wire[1] \in Chunk
    OBVIOUS
<1>2. /\ Head(wire).bytes \in Seq(Byte) /\ Head(wire).bytes # <<>>
      /\ Head(wire).begun \in BOOLEAN /\ Head(wire).age \in 0..Latency
    BY <1>1 DEF Chunk
<1>3. Len(Head(wire).bytes) \in Nat \ {0}
    BY <1>2, EmptySeq, LenProperties
<1> QED
    BY <1>1, <1>2, <1>3

LEMMA PutOnWire ==
    ASSUME SenderInv, WireOK, NEW n \in 0..PacketSize, n > 0, PollStreamWrite(n), Sends
    PROVE  /\ WireOK'
           /\ \E bytes \in Seq(Byte) \ {<<>>} :
                 /\ Len(bytes) = n
                 /\ wire' = Append(wire, [bytes |-> bytes, begun |-> FALSE, age |-> 0])
<1> DEFINE bytes == SubSeq(output.buffer, output.read_pos + 1, output.read_pos + chunk')
           new == [bytes |-> bytes, begun |-> FALSE, age |-> 0]
<1>1. /\ pc = "idle" /\ chunk' = n /\ pending' = pending + 1
    BY DEF PollStreamWrite, MaySend, Polling, StreamWriteTakes
<1>2. /\ output.buffer \in Seq(Byte) /\ Len(output.buffer) \in Nat
      /\ output.size \in Nat /\ output.read_pos \in Nat /\ MaxPacketSize \in Nat
      /\ pending \in Nat /\ Latency \in Nat
    BY TxAssumption, LinkAssumption, LenProperties DEF SenderInv, Inv, TypeOK
<1>3. n \in Nat /\ n <= output.size
    BY <1>2 DEF PacketSize, Smaller
<1>4. output.read_pos + output.size = Len(output.buffer)
    BY <1>1 DEF SenderInv, Inv, DeliveredPrefix
<1>5. bytes \in Seq(Byte) /\ Len(bytes) = n
    BY <1>1, <1>2, <1>3, <1>4
<1>6. wire' = Append(wire, new)
    BY <1>1, <1>2 DEF Sends
<1> HIDE DEF bytes
<1>7. bytes # <<>>
    BY <1>3, <1>5, EmptySeq
<1>8. new \in Chunk
    BY <1>2, <1>5, <1>7 DEF Chunk
<1> HIDE DEF new
<1>9. WireOK'
    BY <1>1, <1>2, <1>6, <1>8 DEF WireOK
<1> QED
    BY <1>5, <1>6, <1>7, <1>9 DEF new

LEMMA CrossesWire ==
    ASSUME SenderInv, WireOK, wire # <<>>, NEW n \in 1..Len(Head(wire).bytes), Crosses(n)
    PROVE  /\ WireOK'
           /\ \/ /\ n = Len(Head(wire).bytes) /\ wire' = Tail(wire) /\ StreamDrains
              \/ /\ n < Len(Head(wire).bytes) /\ UNCHANGED vars
                 /\ Len(wire') = Len(wire) /\ Begun'
                 /\ Head(wire').age = Head(wire).age
                 /\ Head(wire').bytes = Rest(Head(wire), n)
           /\ Rest(Head(wire), n) \in Seq(Byte)
           /\ Len(Rest(Head(wire), n)) = Len(Head(wire).bytes) - n
           /\ \A i \in 1..Len(Head(wire).bytes) - n :
                 Rest(Head(wire), n)[i] = Head(wire).bytes[n + i]
<1> DEFINE head == Head(wire)
           rest == Rest(head, n)
<1>1. /\ Len(wire) \in Nat \ {0} /\ head = wire[1] /\ wire[1] \in Chunk
      /\ head.bytes \in Seq(Byte) /\ Len(head.bytes) \in Nat \ {0}
    BY Front DEF WireOK
<1>2. /\ rest \in Seq(Byte) /\ Len(rest) = Len(head.bytes) - n
      /\ \A i \in 1..Len(head.bytes) - n : rest[i] = head.bytes[n + i]
    BY <1>1 DEF Rest
<1>3. rest = <<>> <=> n = Len(head.bytes)
    BY <1>1, <1>2, EmptySeq
<1>4. /\ wire' = IF rest = <<>> THEN Tail(wire)
                 ELSE [wire EXCEPT ![1].bytes = rest, ![1].begun = TRUE]
      /\ IF rest = <<>> THEN StreamDrains ELSE UNCHANGED vars
    BY DEF Crosses, Arrives
<1>5. CASE rest = <<>>
  <2>1. pending' = pending - 1
    BY <1>4, <1>5 DEF StreamDrains
  <2>2. WireOK'
    BY <1>1, <1>4, <1>5, <2>1 DEF WireOK
  <2> QED
    BY <1>2, <1>3, <1>4, <1>5, <2>2
<1>6. CASE rest # <<>>
  <2> DEFINE left == [head EXCEPT !.bytes = rest, !.begun = TRUE]
  <2>1. /\ left \in Chunk /\ left.bytes = rest /\ left.begun /\ left.age = head.age
    BY <1>1, <1>2, <1>6 DEF Chunk
  <2>2. wire' = [wire EXCEPT ![1] = left]
    BY <1>1, <1>4, <1>6
  <2> HIDE DEF left, rest, head
  <2>3. /\ wire' \in Seq(Chunk) /\ Len(wire') = Len(wire) /\ wire'[1] = left
    BY <1>1, <2>1, <2>2 DEF WireOK
  <2>4. wire' # <<>> /\ Head(wire') = left
    BY <1>1, <2>3
  <2>5. pending' = pending
    BY <1>4, <1>6 DEF vars, stream
  <2>6. WireOK' /\ Begun'
    BY <2>1, <2>3, <2>4, <2>5 DEF WireOK, Begun
  <2>7. n < Len(head.bytes)
    BY <1>1, <1>3, <1>6 DEF head
  <2> QED
    BY <1>2, <1>4, <1>6, <2>1, <2>3, <2>4, <2>6, <2>7 DEF head, rest
<1> QED
    BY <1>5, <1>6

LEMMA OlderWire ==
    ASSUME WireOK, TimePasses
    PROVE  /\ WireOK' /\ Len(wire') = Len(wire)
           /\ \A i \in 1..Len(wire) : /\ InTime(wire[i])
                                      /\ wire'[i].bytes = wire[i].bytes
                                      /\ wire'[i].begun = wire[i].begun
                                      /\ wire'[i].age = wire[i].age + 1
<1>1. /\ wire \in Seq(Chunk) /\ DOMAIN wire = 1..Len(wire) /\ Len(wire) \in Nat
      /\ \A i \in 1..Len(wire) : wire[i] \in Chunk /\ InTime(wire[i])
      /\ wire' = [i \in 1..Len(wire) |-> [wire[i] EXCEPT !.age = @ + 1]]
    BY DEF WireOK, TimePasses
<1>2. ASSUME NEW i \in 1..Len(wire)
      PROVE  /\ wire'[i] \in Chunk /\ wire'[i].bytes = wire[i].bytes
             /\ wire'[i].begun = wire[i].begun /\ wire'[i].age = wire[i].age + 1
  <2>1. wire[i] \in Chunk /\ wire[i].age < Latency /\ Latency \in Nat
    BY <1>1, LinkAssumption DEF InTime
  <2>2. wire'[i] = [wire[i] EXCEPT !.age = @ + 1]
    BY <1>1
  <2> QED
    BY <2>1, <2>2 DEF Chunk
<1>3. wire' \in Seq(Chunk) /\ Len(wire') = Len(wire)
  <2> DEFINE older == [i \in 1..Len(wire) |-> [wire[i] EXCEPT !.age = @ + 1]]
  <2>1. \A i \in 1..Len(wire) : older[i] \in Chunk
    BY <1>1, <1>2
  <2>2. older \in Seq(Chunk) /\ Len(older) = Len(wire)
    BY <1>1, <2>1
  <2> QED
    BY <1>1, <2>2
<1>4. pending' = pending
    BY DEF TimePasses, Tick, vars, stream
<1> QED
    BY <1>1, <1>2, <1>3, <1>4 DEF WireOK

-----------------------------------------------------------------------------
(* The receiver.  What it holds is in order because each read is followed  *)
(* by a flush before the next one: read_pos is 0 until the flush, and a    *)
(* read never goes round the end of the buffer.                            *)
Positions ==
    /\ PacketMode /\ Preemptive /\ Flushes
    /\ size_max = DefaultSize /\ size <= size_max
    /\ Calm \/ Flushing => size >= 0
    /\ Flushing => flushDue
    /\ flushDue => Flushing \/ reader = "idle"
    /\ ~flushDue => read_pos = 0
    /\ part1size >= 0
    /\ reader \in Reading => part1size <= size_max
    /\ reader = "size_loaded" => loaded <= size_max
    /\ reader = "read_pos_loaded" => loaded = 0
    /\ reader \in {"available", "limit", "copy"} => size > 0
    /\ reader \in {"waiting", "checking", "available", "limit", "copy"}
          => maxsize \in MaxSizes
    /\ Calm \/ reader = "flush_read_pos" => (size = 0 => write_pos = 0)

LinkInv == LinkTypeOK /\ Positions

(* The types, one fact each.                                               *)
LEMMA RxTypes ==
    ASSUME LinkInv
    PROVE  /\ size_max \in Nat \ {0} /\ size_max = DefaultSize
           /\ buffer \in [0..size_max - 1 -> Cells]
           /\ size \in Int /\ size <= size_max
           /\ read_pos \in 0..size_max /\ write_pos \in 0..size_max
           /\ sinceIn \in 0..Horizon /\ IncomePacketDelay \in 0..Horizon - 1
           /\ PacketMode = TRUE /\ Preemptive = TRUE /\ Flushes = TRUE
           /\ reader \in Rx!PC /\ loaded \in Int
           /\ maxsize \in Nat /\ part1size \in Nat /\ waited \in 0..ReadTimeout
           /\ got \in Seq(Cells) /\ offered \in Seq(Byte)
           /\ flushDue \in BOOLEAN /\ latest \in Seq(Byte) /\ torn \in BOOLEAN
           /\ Horizon \in Nat /\ ReadTimeout \in Nat /\ Latency \in Nat
           /\ WireOK
    BY LinkAssumption, TxAssumption
    DEF LinkInv, LinkTypeOK, Rx!TypeOK, Positions, Cells, WireOK, Chunk

LEMMA WireTyped == LinkInv => WireOK
BY RxTypes

LEMMA RxNumbers ==
    ASSUME LinkInv
    PROVE  /\ size \in Int /\ size_max \in Nat \ {0} /\ size <= size_max
           /\ read_pos \in 0..size_max /\ write_pos \in 0..size_max
           /\ sinceIn \in 0..Horizon /\ sinceIn \in Nat /\ Horizon \in Nat
           /\ IncomePacketDelay \in Nat
BY RxTypes

LEMMA InitLinkInv == LinkInit => LinkInv
<1> SUFFICES ASSUME LinkInit PROVE LinkInv
    OBVIOUS
<1>1. /\ DefaultSize \in Nat \ {0} /\ Horizon \in Nat /\ ReadTimeout \in Nat
      /\ <<>> \in Seq(Byte) /\ <<>> \in Seq(Byte \cup {Garbage})
      /\ <<>> \in Seq([bytes : Seq(Byte) \ {<<>>}, begun : BOOLEAN, age : 0..Latency])
      /\ Len(<<>>) = 0
    BY LinkAssumption, TxAssumption
<1>2. PacketMode = TRUE /\ Preemptive = TRUE /\ Flushes = TRUE
    BY DEF LinkInit, Rx!Init
<1>3. [i \in 0..DefaultSize - 1 |-> Garbage] \in [0..DefaultSize - 1 -> Byte \cup {Garbage}]
    OBVIOUS
<1>4. /\ buffer = [i \in 0..DefaultSize - 1 |-> Garbage] /\ size_max = DefaultSize
      /\ size = 0 /\ read_pos = 0 /\ write_pos = 0 /\ sinceIn = Horizon
      /\ IncomePacketDelay \in IncomePacketDelays
      /\ reader = "idle" /\ maxsize = 0 /\ part1size = 0 /\ loaded = 0 /\ waited = 0
      /\ got = <<>> /\ offered = <<>>
    BY DEF LinkInit, Rx!Init
<1>5. Rx!TypeOK
    BY <1>1, <1>2, <1>3, <1>4 DEF Rx!TypeOK, Rx!PC
<1>6. Inv /\ pending = 0
    BY InitInv DEF LinkInit, Init
<1>7. LinkTypeOK
    BY <1>1, <1>5, <1>6 DEF LinkInit, LinkTypeOK, Inv
<1>8. Positions
    BY <1>1, <1>2, <1>4 DEF LinkInit, Positions, Calm, Settled, Flushing, Reading
<1> QED
    BY <1>7, <1>8 DEF LinkInv

(* What Write does, a byte or a block.                                     *)
Writes(data) ==
    \/ \E b \in Byte : data = <<b>> /\ Rx!WriteByte(b)
    \/ Rx!WriteBlock(data)
    \/ Rx!WriteBlockInTwo(data)

LEMMA KeptIs ==
    ASSUME LinkInv
    PROVE  /\ Rx!FlushFirst <=> size > 0 /\ sinceIn > IncomePacketDelay
           /\ Rx!Kept(size) = IF size > 0 /\ sinceIn > IncomePacketDelay THEN 0 ELSE size
           /\ Rx!Kept(write_pos) = (IF Rx!FlushFirst THEN 0 ELSE write_pos)
           /\ Rx!Kept(write_pos) \in 0..size_max
           /\ Rx!Kept(read_pos) \in {0, read_pos}
    BY RxTypes DEF Rx!Kept, Rx!FlushFirst, Rx!IncomePacketAvailable, Rx!Gap

LEMMA StoresCells ==
    ASSUME LinkInv, NEW cells \in [0..size_max - 1 -> Cells],
           NEW at \in Nat, NEW data \in Seq(Byte)
    PROVE  Rx!Stored(cells, at, data) \in [0..size_max - 1 -> Cells]
<1>1. ASSUME NEW i \in 0..size_max - 1, i \in at..at + Len(data) - 1
      PROVE  data[i - at + 1] \in Cells
  <2>1. i - at + 1 \in 1..Len(data)
    BY <1>1, RxTypes
  <2> QED
    BY <2>1 DEF Cells
<1>2. DOMAIN cells = 0..size_max - 1 /\ \A i \in 0..size_max - 1 : cells[i] \in Cells
    OBVIOUS
<1> QED
    BY <1>1, <1>2 DEF Rx!Stored

LEMMA WriteDoes ==
    ASSUME LinkInv, NEW data \in Seq(Byte), Len(data) > 0, Writes(data)
    PROVE  /\ size < size_max
           /\ \E taken \in 1..Len(data) :
                 size' = Rx!Kept(size) + taken /\ size' <= size_max
           /\ read_pos' \in {0, read_pos} /\ write_pos' \in 0..size_max
           /\ buffer' \in [0..size_max - 1 -> Cells]
           /\ sinceIn' = 0 /\ offered' = data
           /\ UNCHANGED <<size_max, IncomePacketDelay, PacketMode, Preemptive, Flushes,
                          reader, maxsize, part1size, loaded, waited, got>>
<1> DEFINE at == Rx!Kept(write_pos)
           n == Rx!Taken(data)
<1>1. /\ size_max \in Nat \ {0} /\ size \in Int /\ size <= size_max
      /\ buffer \in [0..size_max - 1 -> Cells] /\ at \in 0..size_max /\ at \in Nat
      /\ Len(data) \in Nat \ {0} /\ Rx!Kept(size) \in Int /\ size_max >= 0
  <2>1. size_max \in Nat \ {0} /\ size \in Int /\ size <= size_max /\ size_max >= 0
    BY RxNumbers
  <2>2. buffer \in [0..size_max - 1 -> Cells]
    BY RxTypes
  <2>3. at \in 0..size_max /\ Rx!Kept(size) \in Int
    BY <2>1, KeptIs
  <2>4. Len(data) \in Nat \ {0}
    BY LenProperties
  <2> HIDE DEF at
  <2>5. at \in Nat
    BY <2>1, <2>3
  <2> QED
    BY <2>1, <2>2, <2>3, <2>4, <2>5
<1>2. size # size_max
    BY DEF Writes, Rx!WriteByte, Rx!WriteBlock, Rx!WriteBlockInTwo,
       Rx!IncomeBufferIsFull
<1>3. size < size_max /\ Rx!Kept(size) < size_max
    BY <1>1, <1>2, KeptIs
<1>4. n \in 1..Len(data) /\ Rx!Kept(size) + n <= size_max
    BY <1>1, <1>3 DEF Rx!Taken, Rx!Smaller
<1>5. \A i, j \in 0..Len(data) : SubSeq(data, i + 1, j) \in Seq(Byte)
    OBVIOUS
<1> HIDE DEF at, n
<1>6. /\ \E taken \in 1..Len(data) :
            Rx!Receive(data, taken) /\ Rx!Kept(size) + taken <= size_max
      /\ buffer' \in [0..size_max - 1 -> Cells] /\ write_pos' \in 0..size_max
  <2>1. ASSUME NEW b \in Byte, data = <<b>>, Rx!WriteByte(b)
        PROVE  /\ Rx!Receive(data, 1) /\ Len(data) = 1
               /\ buffer' \in [0..size_max - 1 -> Cells] /\ write_pos' \in 0..size_max
    <3>1. /\ Rx!ByteAt \in Nat /\ Rx!ByteAt < size_max
      BY <1>1 DEF Rx!ByteAt, at
    <3>2. /\ buffer' = Rx!Stored(buffer, Rx!ByteAt, data)
          /\ write_pos' = Rx!ByteAt + 1 /\ Rx!Receive(data, 1)
      BY <2>1 DEF Rx!WriteByte
    <3>3. buffer' \in [0..size_max - 1 -> Cells]
      BY <1>1, <3>1, <3>2, StoresCells
    <3> QED
      BY <1>1, <2>1, <3>1, <3>2, <3>3
  <2>2. ASSUME Rx!WriteBlock(data)
        PROVE  /\ Rx!Receive(data, n)
               /\ buffer' \in [0..size_max - 1 -> Cells] /\ write_pos' \in 0..size_max
    <3>1. /\ buffer' = Rx!Stored(buffer, at, SubSeq(data, 1, n))
          /\ write_pos' = at + n /\ at + n <= size_max /\ Rx!Receive(data, n)
      BY <2>2 DEF Rx!WriteBlock, at, n
    <3>2. SubSeq(data, 1, n) \in Seq(Byte)
      BY <1>1, <1>4
    <3>3. buffer' \in [0..size_max - 1 -> Cells]
      BY <1>1, <3>1, <3>2, StoresCells
    <3> QED
      BY <1>1, <1>4, <3>1, <3>3
  <2>3. ASSUME Rx!WriteBlockInTwo(data)
        PROVE  /\ Rx!Receive(data, n)
               /\ buffer' \in [0..size_max - 1 -> Cells] /\ write_pos' \in 0..size_max
    <3> DEFINE part1 == size_max - at
               first == Rx!Stored(buffer, at, SubSeq(data, 1, part1))
    <3>1. /\ buffer' = Rx!Stored(first, 0, SubSeq(data, part1 + 1, n))
          /\ write_pos' = 0 /\ at + n > size_max /\ Rx!Receive(data, n)
      BY <2>3 DEF Rx!WriteBlockInTwo, at, n
    <3>2. part1 \in 0..Len(data) /\ n \in 0..Len(data) /\ 0 \in Nat /\ 0 \in 0..Len(data)
      BY <1>1, <1>4, <3>1
    <3>3. SubSeq(data, 1, part1) \in Seq(Byte) /\ SubSeq(data, part1 + 1, n) \in Seq(Byte)
      BY <1>5, <3>2
    <3>4. first \in [0..size_max - 1 -> Cells]
      BY <1>1, <3>3, StoresCells
    <3> HIDE DEF first
    <3>5. buffer' \in [0..size_max - 1 -> Cells]
      BY <1>1, <3>1, <3>2, <3>3, <3>4, StoresCells
    <3> QED
      BY <1>1, <3>1, <3>5
  <2>4. 1 \in 1..Len(data) /\ Rx!Kept(size) + 1 <= size_max
    BY <1>1, <1>3
  <2>5. CASE \E b \in Byte : data = <<b>> /\ Rx!WriteByte(b)
    BY <2>1, <2>4, <2>5
  <2> QED
    BY <1>4, <2>2, <2>3, <2>5 DEF Writes
<1>7. PICK taken \in 1..Len(data) :
         Rx!Receive(data, taken) /\ Rx!Kept(size) + taken <= size_max
    BY <1>6
<1>8. /\ size' = Rx!Kept(size) + taken /\ read_pos' = Rx!Kept(read_pos)
      /\ sinceIn' = 0 /\ offered' = data
      /\ UNCHANGED <<size_max, IncomePacketDelay, PacketMode, Preemptive, Flushes,
                     reader, maxsize, part1size, loaded, waited, got>>
    BY <1>7 DEF Rx!Receive, Rx!fixed, Rx!read
<1> QED
    BY <1>3, <1>6, <1>7, <1>8, KeptIs

LEMMA TypesNext ==
    ASSUME LinkInv, SenderInv', WireOK',
           UNCHANGED <<size_max, IncomePacketDelay, PacketMode, Preemptive, Flushes>>,
           buffer' \in [0..size_max - 1 -> Cells], size' \in Int,
           read_pos' \in 0..size_max, write_pos' \in 0..size_max,
           sinceIn' \in 0..Horizon, reader' \in Rx!PC,
           maxsize' \in Nat, part1size' \in Nat, loaded' \in Int,
           waited' \in 0..ReadTimeout, got' \in Seq(Cells), offered' \in Seq(Byte),
           flushDue' \in BOOLEAN, latest' \in Seq(Byte), torn' \in BOOLEAN
    PROVE  LinkTypeOK'
<1>1. Rx!TypeOK'
    BY DEF LinkInv, LinkTypeOK, Rx!TypeOK, Cells
<1>2. TypeOK'
    BY DEF SenderInv, Inv
<1> QED
    BY <1>1, <1>2 DEF LinkTypeOK, WireOK, Chunk

LEMMA ReceiverStays ==
    ASSUME LinkInv, SenderInv', WireOK', UNCHANGED <<received, flushDue>>,
           latest' \in Seq(Byte), torn' \in BOOLEAN
    PROVE  LinkInv'
<1>1. UNCHANGED <<buffer, size_max, size, read_pos, write_pos, sinceIn, IncomePacketDelay,
                  PacketMode, Preemptive, Flushes, reader, maxsize, part1size, loaded,
                  waited, got, offered, flushDue>>
    BY DEF received
<1>2. LinkTypeOK'
    BY <1>1, RxTypes, TypesNext
<1>3. UNCHANGED <<reader, PacketMode, Preemptive, Flushes, size_max, size, loaded,
                  flushDue, read_pos, write_pos, part1size, maxsize>>
    BY <1>1
<1>4. Positions' <=> Positions
    BY <1>3 DEF Positions, Calm, Settled, Flushing, Reading
<1> QED
    BY <1>2, <1>4 DEF LinkInv

(* What arrives, and what becomes of it.                                   *)
Arrival(n, data) ==
    /\ wire # <<>> /\ Crosses(n)
    /\ data \in Seq(Byte) /\ Len(data) = n
    /\ \A i \in 1..n : data[i] = Head(wire).bytes[i]
    /\ n = 1 \/ (~Head(wire).begun /\ n = Len(Head(wire).bytes))
    /\ IF size = size_max THEN UNCHANGED received ELSE Writes(data)

LEMMA ArrivalIs ==
    ASSUME LinkInv, ByteArrives \/ BlockArrives
    PROVE  \E n \in 1..Len(Head(wire).bytes), data \in Seq(Byte) : Arrival(n, data)
<1>1. wire # <<>> /\ wire \in Seq(Chunk)
    BY WireTyped DEF ByteArrives, BlockArrives, WireOK
<1>2. Head(wire).bytes \in Seq(Byte) /\ Len(Head(wire).bytes) \in Nat \ {0}
    BY <1>1, Front
<1> USE DEF Rx!IncomeBufferIsFull
<1>3. CASE ByteArrives
  <2> DEFINE b == Head(Head(wire).bytes)
  <2>1. b \in Byte /\ b = Head(wire).bytes[1]
    BY <1>2
  <2>2. /\ Crosses(1)
        /\ IF size = size_max THEN UNCHANGED received ELSE Rx!WriteByte(b)
    BY <1>3 DEF ByteArrives
  <2> HIDE DEF b
  <2>3. <<b>> \in Seq(Byte) /\ Len(<<b>>) = 1 /\ <<b>>[1] = b
    BY <2>1
  <2>4. Arrival(1, <<b>>)
    BY <1>1, <2>1, <2>2, <2>3 DEF Arrival, Writes
  <2>5. 1 \in 1..Len(Head(wire).bytes)
    BY <1>2
  <2> QED
    BY <2>3, <2>4, <2>5, Zenon
<1>4. CASE BlockArrives
  <2>1. Arrival(Len(Head(wire).bytes), Head(wire).bytes)
    BY <1>1, <1>2, <1>4 DEF Arrival, Writes, BlockArrives
  <2> QED
    BY <1>2, <2>1
<1> QED
    BY <1>3, <1>4

(* What an arrival does to the receiver, refused or taken.                 *)
LEMMA ArrivalDoes ==
    ASSUME LinkInv, NEW data \in Seq(Byte), NEW n \in Nat \ {0}, Arrival(n, data)
    PROVE  /\ UNCHANGED <<size_max, IncomePacketDelay, PacketMode, Preemptive, Flushes,
                          reader, maxsize, part1size, loaded, waited, got, flushDue>>
           /\ \/ UNCHANGED received
              \/ /\ size' \in Rx!Kept(size) + 1..size_max
                 /\ read_pos' \in {0, read_pos} /\ write_pos' \in 0..size_max
                 /\ buffer' \in [0..size_max - 1 -> Cells]
                 /\ sinceIn' = 0 /\ offered' = data
<1>1. UNCHANGED flushDue
    BY DEF Arrival, Crosses, Arrives
<1>2. CASE UNCHANGED received
    BY <1>1, <1>2 DEF received
<1>3. CASE Writes(data)
  <2>1. Len(data) > 0
    BY DEF Arrival
  <2>2. Rx!Kept(size) \in Int /\ size_max \in Nat /\ Len(data) \in Nat
    BY RxNumbers, KeptIs
  <2> QED
    BY <1>1, <1>3, <2>1, <2>2, WriteDoes
<1> QED
    BY <1>2, <1>3 DEF Arrival

LEMMA ArrivalKeeps ==
    ASSUME LinkInv, SenderInv, SenderInv', ByteArrives \/ BlockArrives
    PROVE  LinkInv'
<1>1. PICK n \in 1..Len(Head(wire).bytes), data \in Seq(Byte) : Arrival(n, data)
    BY ArrivalIs
<1>2. wire # <<>> /\ Crosses(n)
    BY <1>1 DEF Arrival
<1>3. /\ Head(wire).bytes \in Seq(Byte) /\ Len(Head(wire).bytes) \in Nat \ {0}
      /\ Head(wire).begun \in BOOLEAN
    BY <1>2, WireTyped, Front DEF WireOK
<1>4. WireOK'
    BY <1>2, WireTyped, CrossesWire
<1>5. latest' \in Seq(Byte) /\ torn' \in BOOLEAN
    BY <1>2, <1>3, RxTypes DEF Crosses, Arrives, BadMoment
<1>6. n \in Nat \ {0}
    BY <1>3
<1>7. /\ UNCHANGED <<size_max, IncomePacketDelay, PacketMode, Preemptive, Flushes,
                     reader, maxsize, part1size, loaded, waited, got, flushDue>>
      /\ \/ UNCHANGED received
         \/ /\ size' \in Rx!Kept(size) + 1..size_max
            /\ read_pos' \in {0, read_pos} /\ write_pos' \in 0..size_max
            /\ buffer' \in [0..size_max - 1 -> Cells]
            /\ sinceIn' = 0 /\ offered' = data
    BY <1>1, <1>6, ArrivalDoes
<1>8. CASE UNCHANGED received
    BY <1>4, <1>5, <1>7, <1>8, ReceiverStays
<1>9. CASE /\ size' \in Rx!Kept(size) + 1..size_max
           /\ read_pos' \in {0, read_pos} /\ write_pos' \in 0..size_max
           /\ buffer' \in [0..size_max - 1 -> Cells]
           /\ sinceIn' = 0 /\ offered' = data
  <2>1. size' \in Int /\ size' <= size_max /\ (size >= 0 => size' > 0)
    <3> DEFINE kept == Rx!Kept(size)
    <3>1. kept \in Int /\ (size >= 0 => kept >= 0) /\ size_max \in Nat
      BY RxNumbers, KeptIs
    <3>2. size' \in kept + 1..size_max
      BY <1>9
    <3> HIDE DEF kept
    <3> QED
      BY <3>1, <3>2
  <2>2. 0 \in 0..size_max /\ 0 \in 0..Horizon
    BY RxTypes
  <2>3. LinkTypeOK'
    BY <1>4, <1>5, <1>7, <1>9, <2>1, <2>2, RxTypes, TypesNext
  <2>4. Positions'
    <3>1. /\ reader' = reader /\ flushDue' = flushDue /\ part1size' = part1size
          /\ loaded' = loaded /\ maxsize' = maxsize /\ size_max' = size_max /\ read_pos' \in {0, read_pos}
          /\ PacketMode' = TRUE /\ Preemptive' = TRUE /\ Flushes' = TRUE
          /\ size_max' = DefaultSize /\ size' <= size_max'
      BY <1>7, <1>9, <2>1, RxTypes
    <3>2. /\ Calm' <=> Calm
          /\ Flushing' <=> Flushing
      BY <3>1 DEF Calm, Settled, Flushing
    <3>3. /\ Calm \/ Flushing => size' > 0
          /\ reader \in {"available", "limit", "copy"} => size' > 0
          /\ reader = "flush_read_pos" => size' > 0
      <4>1. size > 0 => size >= 0
        BY RxTypes
      <4>2. /\ Calm \/ Flushing => size >= 0
            /\ reader \in {"available", "limit", "copy"} => size > 0
            /\ reader = "flush_read_pos" => Flushing
        BY DEF LinkInv, Positions, Flushing
      <4> QED
        BY <2>1, <4>1, <4>2
    <3>4. ~flushDue' => read_pos' = 0
      BY <3>1 DEF LinkInv, Positions
    <3>5. size' > 0 => size' >= 0 /\ size' # 0
      BY <2>1
    <3> QED
      BY <3>1, <3>2, <3>3, <3>4, <3>5 DEF LinkInv, Positions, Reading
  <2> QED
    BY <2>3, <2>4 DEF LinkInv
<1> QED
    BY <1>7, <1>8, <1>9

LEMMA SendsKeeps ==
    ASSUME LinkInv, SenderInv, SenderInv', Sends
    PROVE  LinkInv'
<1>1. UNCHANGED <<received, flushDue>> /\ latest' = latest /\ torn' = torn
    BY DEF Sends, observed
<1>2. WireOK'
  <2>1. CASE pending' = pending
    BY <2>1, WireTyped DEF Sends, WireOK
  <2>2. CASE pending' # pending
    <3>1. PICK n \in 0..PacketSize : PollStreamWrite(n) /\ Puts(n)
      BY <2>2, SendsDoes
    <3>2. n > 0
      BY <2>2, <3>1 DEF Puts
    <3> QED
      BY <3>1, <3>2, WireTyped, PutOnWire
  <2> QED
    BY <2>1, <2>2
<1> QED
    BY <1>1, <1>2, RxTypes, ReceiverStays

LEMMA TimeKeeps ==
    ASSUME LinkInv, SenderInv', TimePasses
    PROVE  LinkInv' /\ sinceIn' = Advance(sinceIn)
<1>1. UNCHANGED <<flushDue, latest, torn>> /\ (Rx!Tick \/ (RxSaturated /\ UNCHANGED received))
    BY DEF TimePasses, observed
<1>2. /\ UNCHANGED <<buffer, size_max, size, read_pos, write_pos, IncomePacketDelay,
                     PacketMode, Preemptive, Flushes, reader, maxsize, part1size, loaded,
                     got, offered>>
      /\ sinceIn' = Advance(sinceIn) /\ waited' \in 0..ReadTimeout
  <2>1. CASE Rx!Tick
    <3>1. waited' \in 0..ReadTimeout
      <4>1. waited \in 0..ReadTimeout /\ ReadTimeout \in Nat
        BY RxTypes
      <4>2. waited' \in {waited, Rx!Smaller(waited + 1, ReadTimeout)}
        BY <2>1 DEF Rx!Tick
      <4> QED
        BY <4>1, <4>2 DEF Rx!Smaller
    <3> QED
      BY <2>1, <3>1 DEF Rx!Tick, Rx!fixed, Rx!Smaller, Advance, Smaller
  <2>2. CASE RxSaturated /\ UNCHANGED received
    <3>1. sinceIn = Horizon /\ Horizon \in Nat /\ waited \in 0..ReadTimeout
      BY <2>2, RxTypes DEF RxSaturated
    <3> QED
      BY <2>2, <3>1 DEF received, Advance, Smaller
  <2> QED
    BY <1>1, <2>1, <2>2
<1>3. sinceIn' \in 0..Horizon
    BY <1>2, RxNumbers DEF Advance, Smaller
<1>4. WireOK'
    BY WireTyped, OlderWire
<1>5. LinkTypeOK'
    BY <1>1, <1>2, <1>3, <1>4, RxTypes, TypesNext
<1>6. Positions'
    BY <1>1, <1>2 DEF LinkInv, Positions, Calm, Settled, Flushing, Reading
<1> QED
    BY <1>2, <1>5, <1>6 DEF LinkInv

-----------------------------------------------------------------------------
(* The steps of the receiving application, one by one.                     *)
Looking == {"idle", "waiting", "checking"}

Looks ==
    /\ reader \in Looking /\ reader' \in Looking /\ ~flushDue /\ ~flushDue'
    /\ reader' # "idle" => maxsize' \in MaxSizes
    /\ UNCHANGED <<size, read_pos, write_pos>>

FindsPacket ==
    /\ reader = "checking" /\ reader' = "available" /\ ~flushDue'
    /\ size > 0 /\ sinceIn > IncomePacketDelay
    /\ UNCHANGED <<size, read_pos, write_pos, maxsize>>

BeginsToRead ==
    /\ reader = "available" /\ reader' = "limit" /\ ~flushDue'
    /\ part1size' = size
    /\ UNCHANGED <<size, read_pos, write_pos, maxsize, loaded>>

Limits ==
    /\ reader = "limit" /\ reader' = "copy" /\ ~flushDue'
    /\ part1size' = IF maxsize < size THEN maxsize ELSE part1size
    /\ UNCHANGED <<size, read_pos, write_pos, maxsize, loaded>>

CopiesBytes ==
    /\ reader = "copy" /\ reader' = "size" /\ ~flushDue'
    /\ got' = Rx!Bytes(read_pos, part1size)
    /\ UNCHANGED <<size, read_pos, write_pos, part1size, loaded>>

Overruns ==
    /\ reader = "copy" /\ reader' = "undefined" /\ ~flushDue'
    /\ part1size > maxsize
    /\ UNCHANGED <<size, read_pos, write_pos, part1size, loaded>>

LoadsSize ==
    /\ reader = "size" /\ reader' = "size_loaded" /\ ~flushDue'
    /\ loaded' = size
    /\ UNCHANGED <<size, read_pos, write_pos, part1size>>

CountsRead ==
    /\ reader = "size_loaded" /\ reader' = "read_pos" /\ ~flushDue'
    /\ size' = loaded - part1size
    /\ UNCHANGED <<read_pos, write_pos, part1size>>

LoadsReadPos ==
    /\ reader = "read_pos" /\ reader' = "read_pos_loaded" /\ ~flushDue'
    /\ loaded' = read_pos
    /\ UNCHANGED <<size, read_pos, write_pos, part1size>>

EndsRead ==
    /\ reader = "read_pos_loaded" /\ reader' = "idle" /\ flushDue'
    /\ read_pos' = loaded + part1size
    /\ UNCHANGED <<size, write_pos>>

BeginsToFlush ==
    /\ reader = "idle" /\ reader' = "flush_write_pos" /\ flushDue /\ flushDue'
    /\ size' = 0
    /\ UNCHANGED <<read_pos, write_pos>>

FlushesWritePos ==
    /\ reader = "flush_write_pos" /\ reader' = "flush_read_pos" /\ flushDue'
    /\ write_pos' = 0
    /\ UNCHANGED <<size, read_pos>>

FlushesReadPos ==
    /\ reader = "flush_read_pos" /\ reader' = "idle" /\ ~flushDue'
    /\ read_pos' = 0
    /\ UNCHANGED <<size, write_pos>>

ReaderMoves ==
    \/ Looks \/ FindsPacket \/ BeginsToRead \/ Limits \/ CopiesBytes \/ Overruns
    \/ LoadsSize \/ CountsRead \/ LoadsReadPos \/ EndsRead
    \/ BeginsToFlush \/ FlushesWritePos \/ FlushesReadPos

LEMMA BytesAre ==
    ASSUME LinkInv, NEW from \in Nat, NEW n \in Nat, from + n <= size_max
    PROVE  Rx!Bytes(from, n) \in Seq(Cells)
<1>1. size_max \in Nat /\ buffer \in [0..size_max - 1 -> Cells]
    BY RxTypes
<1>2. \A i \in 1..n : buffer[from + i - 1] \in Cells
    BY <1>1
<1> QED
    BY <1>2 DEF Rx!Bytes

(* A read from position 0 on never goes past the end of the buffer.        *)
LEMMA ReadsInOne ==
    ASSUME LinkInv, reader \in Reading
    PROVE  ~flushDue /\ read_pos = 0 /\ read_pos + part1size <= size_max
<1>1. ~flushDue
    BY DEF LinkInv, Positions, Flushing, Reading
<1>2. read_pos = 0 /\ part1size <= size_max
    BY <1>1 DEF LinkInv, Positions
<1> QED
    BY <1>1, <1>2, RxTypes

(* What none of them changes, and the types of what they may change.       *)
ReaderKeeps ==
    /\ UNCHANGED <<buffer, size_max, sinceIn, offered, IncomePacketDelay,
                   PacketMode, Preemptive, Flushes>>
    /\ maxsize' \in Nat /\ part1size' \in Nat /\ loaded' \in Int
    /\ waited' \in 0..ReadTimeout /\ got' \in Seq(Cells)

LEMMA LookDoes ==
    ASSUME NEW next, Rx!Look(next)
    PROVE  /\ UNCHANGED <<buffer, size_max, sinceIn, offered, IncomePacketDelay,
                          PacketMode, Preemptive, Flushes>>
           /\ UNCHANGED <<size, read_pos, write_pos>>
           /\ reader' = next
    BY DEF Rx!Look, Rx!input, Rx!fixed

LEMMA LocalTypes ==
    ASSUME LinkInv
    PROVE  /\ 0 \in Nat /\ 0 \in 0..ReadTimeout /\ <<>> \in Seq(Cells)
           /\ maxsize \in Nat /\ part1size \in Nat /\ waited \in 0..ReadTimeout
           /\ got \in Seq(Cells) /\ loaded \in Int /\ size \in Int /\ read_pos \in Nat
           /\ flushDue \in BOOLEAN
<1>1. <<>> \in Seq(Cells)
    OBVIOUS
<1> QED
    BY <1>1, RxTypes

LEMMA ReadPacketDoes ==
    ASSUME LinkInv, flushDue' = (reader = "read_pos_loaded" \/ flushDue),
           \/ ~flushDue /\ \E max \in MaxSizes : Rx!ReadPacket(max, TRUE)
           \/ Rx!ReadPacketLoops \/ Rx!ReadPacketChecks \/ Rx!ReadPacketTimeout
    PROVE  ReaderKeeps /\ (Looks \/ FindsPacket)
<1> USE DEF ReaderKeeps, Looks, FindsPacket, Looking
<1>1. reader \in {"waiting", "checking"} => ~flushDue /\ maxsize \in MaxSizes
    BY DEF LinkInv, Positions, Flushing
<1>2. ASSUME ~flushDue, NEW max \in MaxSizes, Rx!ReadPacket(max, TRUE)
      PROVE  ReaderKeeps /\ Looks
  <2>1. /\ reader = "idle" /\ maxsize' = max /\ waited' = 0 /\ Rx!Look("waiting")
        /\ UNCHANGED <<part1size, loaded, got>> /\ max \in Nat
    BY <1>2, LinkAssumption DEF Rx!ReadPacket
  <2> QED
    BY <1>2, <2>1, LookDoes, LocalTypes
<1>3. CASE Rx!ReadPacketLoops
  <2>1. /\ reader = "waiting" /\ Rx!Look("checking")
        /\ UNCHANGED <<maxsize, part1size, loaded, waited, got>>
    BY <1>3 DEF Rx!ReadPacketLoops
  <2> QED
    BY <1>1, <2>1, LookDoes, LocalTypes
<1>4. CASE Rx!ReadPacketChecks
  <2>1. /\ reader = "checking"
        /\ Rx!Look(IF size > 0 /\ sinceIn > IncomePacketDelay
                   THEN "available" ELSE "waiting")
        /\ UNCHANGED <<maxsize, part1size, loaded, waited, got>>
    BY <1>4 DEF Rx!ReadPacketChecks, Rx!IncomePacketAvailable, Rx!Gap
  <2>2. CASE size > 0 /\ sinceIn > IncomePacketDelay
    <3>1. Rx!Look("available")
      BY <2>1, <2>2
    <3> QED
      BY <1>1, <2>1, <2>2, <3>1, LookDoes, LocalTypes
  <2>3. CASE ~(size > 0 /\ sinceIn > IncomePacketDelay)
    <3>1. Rx!Look("waiting")
      BY <2>1, <2>3
    <3> QED
      BY <1>1, <2>1, <3>1, LookDoes, LocalTypes
  <2> QED
    BY <2>2, <2>3
<1>5. CASE Rx!ReadPacketTimeout
  <2>1. /\ reader = "waiting" /\ Rx!Look("idle") /\ got' = <<>>
        /\ maxsize' = 0 /\ part1size' = 0 /\ loaded' = 0 /\ waited' = 0
    BY <1>5 DEF Rx!ReadPacketTimeout, Rx!Over, Rx!Look
  <2> QED
    BY <1>1, <2>1, LookDoes, LocalTypes
<1> QED
    BY <1>2, <1>3, <1>4, <1>5

LEMMA ReadAllDoes ==
    ASSUME LinkInv, flushDue' = (reader = "read_pos_loaded" \/ flushDue),
           \/ reader = "available" /\ Rx!ReadAll(maxsize)
           \/ Rx!ReadAllLimits \/ Rx!ReadAllCopies
           \/ Rx!ReadAllLoadsSize \/ Rx!ReadAllMovesSize
           \/ Rx!ReadAllLoadsReadPos \/ Rx!ReadAllMovesReadPos
           \/ Rx!ReadAllInTwo \/ Rx!ReadAllOverruns
    PROVE  /\ ReaderKeeps
           /\ \/ BeginsToRead \/ Limits \/ CopiesBytes \/ Overruns
              \/ LoadsSize \/ CountsRead \/ LoadsReadPos \/ EndsRead
<1> USE DEF ReaderKeeps
<1>1. CASE reader = "available" /\ Rx!ReadAll(maxsize)
  <2>1. /\ reader = "available" /\ Rx!Look("limit") /\ maxsize' = maxsize
        /\ part1size' = size /\ waited' = 0 /\ got' = got /\ loaded' = loaded
    BY <1>1 DEF Rx!ReadAll
  <2>2. ~flushDue /\ size > 0
    BY <2>1 DEF LinkInv, Positions, Flushing
  <2>3. part1size' \in Nat
    BY <2>1, <2>2, LocalTypes
  <2>4. ~flushDue'
    BY <2>1, <2>2
  <2> QED
    BY <2>1, <2>3, <2>4, LookDoes, LocalTypes DEF BeginsToRead
<1>2. CASE Rx!ReadAllLimits
  <2>1. /\ reader = "limit" /\ Rx!Look("copy")
        /\ part1size' = IF maxsize < size THEN maxsize ELSE part1size
        /\ UNCHANGED <<maxsize, loaded, waited, got>>
    BY <1>2 DEF Rx!ReadAllLimits
  <2>2. ~flushDue' /\ part1size' \in Nat
    BY <2>1, ReadsInOne, LocalTypes DEF Reading
  <2> QED
    BY <2>1, <2>2, LookDoes, LocalTypes DEF Limits
<1>3. CASE Rx!ReadAllCopies
  <2>1. /\ reader = "copy" /\ reader' = "size"
        /\ read_pos + part1size <= size_max /\ got' = Rx!Bytes(read_pos, part1size)
        /\ UNCHANGED <<buffer, size_max, sinceIn, offered, IncomePacketDelay,
                       PacketMode, Preemptive, Flushes>>
        /\ UNCHANGED <<size, read_pos, write_pos, maxsize, part1size, loaded, waited>>
    BY <1>3 DEF Rx!ReadAllCopies, Rx!input, Rx!fixed
  <2>2. got' \in Seq(Cells)
    BY <2>1, BytesAre, LocalTypes
  <2>3. ~flushDue'
    BY <2>1, ReadsInOne DEF Reading
  <2> QED
    BY <2>1, <2>2, <2>3, LocalTypes DEF CopiesBytes
<1>4. CASE Rx!ReadAllLoadsSize
  <2>1. /\ reader = "size" /\ Rx!Look("size_loaded") /\ loaded' = size
        /\ UNCHANGED <<maxsize, part1size, waited, got>>
    BY <1>4 DEF Rx!ReadAllLoadsSize
  <2>2. ~flushDue'
    BY <2>1, ReadsInOne DEF Reading
  <2> QED
    BY <2>1, <2>2, LookDoes, LocalTypes DEF LoadsSize
<1>5. CASE Rx!ReadAllMovesSize
  <2>1. /\ reader = "size_loaded" /\ ~flushDue
    BY <1>5, ReadsInOne DEF Rx!ReadAllMovesSize, Reading
  <2> QED
    BY <1>5, <2>1, LocalTypes DEF Rx!ReadAllMovesSize, Rx!fixed, CountsRead
<1>6. CASE Rx!ReadAllLoadsReadPos
  <2>1. /\ reader = "read_pos" /\ Rx!Look("read_pos_loaded") /\ loaded' = read_pos
        /\ UNCHANGED <<maxsize, part1size, waited, got>>
    BY <1>6 DEF Rx!ReadAllLoadsReadPos
  <2>2. ~flushDue'
    BY <2>1, ReadsInOne DEF Reading
  <2> QED
    BY <2>1, <2>2, LookDoes, LocalTypes DEF LoadsReadPos
<1>7. CASE Rx!ReadAllMovesReadPos
  <2>1. /\ reader = "read_pos_loaded" /\ flushDue'
    BY <1>7 DEF Rx!ReadAllMovesReadPos
  <2> QED
    BY <1>7, <2>1, LocalTypes
    DEF Rx!ReadAllMovesReadPos, Rx!ReadPosPastPart, Rx!Over, Rx!fixed, EndsRead
<1>8. reader = "copy" => ~flushDue /\ read_pos + part1size <= size_max
    BY ReadsInOne DEF Reading
<1>9. size_max \in Int /\ part1size \in Nat /\ read_pos \in Int /\ maxsize \in Nat
    BY RxTypes
<1>10. CASE Rx!ReadAllOverruns
  <2>1. /\ reader = "copy" /\ Rx!Look("undefined")
        /\ UNCHANGED <<maxsize, part1size, loaded, waited, got>>
    BY <1>10 DEF Rx!ReadAllOverruns
  <2>2. part1size > maxsize
    BY <1>8, <1>9, <1>10 DEF Rx!ReadAllOverruns
  <2>3. ~flushDue'
    BY <1>8, <2>1
  <2> QED
    BY <2>1, <2>2, <2>3, LookDoes, LocalTypes DEF Overruns
<1>11. ~Rx!ReadAllInTwo
    BY <1>8, <1>9 DEF Rx!ReadAllInTwo
<1> QED
    BY <1>1, <1>2, <1>3, <1>4, <1>5, <1>6, <1>7, <1>10, <1>11

LEMMA FlushDoes ==
    ASSUME LinkInv, Flush
    PROVE  ReaderKeeps /\ (BeginsToFlush \/ FlushesWritePos \/ FlushesReadPos)
<1> USE DEF ReaderKeeps
<1>1. flushDue' = (reader # "flush_read_pos")
    BY DEF Flush
<1>2. CASE flushDue /\ Rx!FlushIncomeBuffer
    BY <1>1, <1>2, LocalTypes DEF Rx!FlushIncomeBuffer, Rx!fixed, BeginsToFlush
<1>3. CASE Rx!FlushMovesWritePos
    BY <1>1, <1>3, LocalTypes DEF Rx!FlushMovesWritePos, Rx!fixed, FlushesWritePos
<1>4. CASE Rx!FlushMovesReadPos
    BY <1>1, <1>4, LocalTypes DEF Rx!FlushMovesReadPos, Rx!fixed, FlushesReadPos
<1> QED
    BY <1>2, <1>3, <1>4 DEF Flush

LEMMA ReaderDoes ==
    ASSUME LinkInv, Reads \/ Flush
    PROVE  /\ UNCHANGED <<vars, wire, latest, torn>> /\ flushDue' \in BOOLEAN
           /\ ReaderKeeps /\ ReaderMoves
<1>1. UNCHANGED <<vars, wire, latest, torn>> /\ flushDue' \in BOOLEAN
    BY LocalTypes DEF Reads, Flush, observed
<1>2. CASE Reads
  <2>1. /\ flushDue' = (reader = "read_pos_loaded" \/ flushDue)
        /\ \/ \/ ~flushDue /\ \E max \in MaxSizes : Rx!ReadPacket(max, TRUE)
              \/ Rx!ReadPacketLoops \/ Rx!ReadPacketChecks \/ Rx!ReadPacketTimeout
           \/ \/ reader = "available" /\ Rx!ReadAll(maxsize)
              \/ Rx!ReadAllLimits \/ Rx!ReadAllCopies
              \/ Rx!ReadAllLoadsSize \/ Rx!ReadAllMovesSize
              \/ Rx!ReadAllLoadsReadPos \/ Rx!ReadAllMovesReadPos
              \/ Rx!ReadAllInTwo \/ Rx!ReadAllOverruns
    BY <1>2 DEF Reads, Rx!ReadStep
  <2> QED
    BY <1>1, <2>1, ReadPacketDoes, ReadAllDoes DEF ReaderMoves
<1> QED
    BY <1>1, <1>2, FlushDoes DEF ReaderMoves

LEMMA MovesInRange ==
    ASSUME LinkInv, ReaderKeeps, ReaderMoves
    PROVE  /\ size' \in Int /\ size' <= size_max /\ read_pos' \in 0..size_max
           /\ write_pos' \in 0..size_max /\ reader' \in Rx!PC
<1>1. /\ size_max \in Nat \ {0} /\ size \in Int /\ size <= size_max
      /\ read_pos \in 0..size_max /\ write_pos \in 0..size_max /\ part1size \in Nat
      /\ loaded \in Int
    BY RxTypes
<1>2. CASE Looks
    BY <1>1, <1>2 DEF Looks, Looking, Rx!PC
<1>3. CASE \/ FindsPacket \/ BeginsToRead \/ Limits \/ CopiesBytes \/ Overruns
           \/ LoadsSize \/ LoadsReadPos
    BY <1>1, <1>3 DEF FindsPacket, BeginsToRead, Limits, CopiesBytes, Overruns, LoadsSize,
       LoadsReadPos, Rx!PC
<1>4. CASE CountsRead
  <2>1. reader = "size_loaded" /\ loaded <= size_max
    BY <1>4 DEF CountsRead, LinkInv, Positions
  <2> QED
    BY <1>1, <1>4, <2>1 DEF CountsRead, Rx!PC
<1>5. CASE EndsRead
  <2>1. loaded = 0 /\ part1size <= size_max
    BY <1>5 DEF EndsRead, LinkInv, Positions, Reading
  <2> QED
    BY <1>1, <1>5, <2>1 DEF EndsRead, Rx!PC
<1>6. CASE BeginsToFlush \/ FlushesWritePos \/ FlushesReadPos
    BY <1>1, <1>6 DEF BeginsToFlush, FlushesWritePos, FlushesReadPos, Rx!PC
<1> QED
    BY <1>2, <1>3, <1>4, <1>5, <1>6 DEF ReaderMoves

LEMMA MovesKeepPositions ==
    ASSUME LinkInv, ReaderKeeps, ReaderMoves
    PROVE  Positions'
<1>1. /\ PacketMode' = TRUE /\ Preemptive' = TRUE /\ Flushes' = TRUE
      /\ size_max' = DefaultSize /\ size' <= size_max' /\ part1size' >= 0
    BY RxTypes, MovesInRange DEF ReaderKeeps
<1> SUFFICES /\ (Calm \/ Flushing)' => size' >= 0
             /\ Flushing' => flushDue'
             /\ flushDue' => Flushing' \/ reader' = "idle"
             /\ ~flushDue' => read_pos' = 0
             /\ reader' \in Reading => part1size' <= size_max'
             /\ reader' = "size_loaded" => loaded' <= size_max'
             /\ reader' = "read_pos_loaded" => loaded' = 0
             /\ reader' \in {"available", "limit", "copy"} => size' > 0
             /\ reader' \in {"waiting", "checking", "available", "limit", "copy"}
                   => maxsize' \in MaxSizes
             /\ (Calm \/ reader = "flush_read_pos")' => (size' = 0 => write_pos' = 0)
    BY <1>1 DEF Positions, Reading
<1> USE DEF Calm, Settled, Flushing, Reading
<1>2. CASE Looks
    BY <1>2 DEF Looks, Looking, LinkInv, Positions
<1>3. CASE FindsPacket
    BY <1>3, LocalTypes DEF FindsPacket, LinkInv, Positions
<1>4. CASE BeginsToRead
    BY <1>4, RxNumbers DEF BeginsToRead, ReaderKeeps, LinkInv, Positions
<1>10. CASE Limits
  <2>1. part1size' <= size_max'
    BY <1>10, RxNumbers, LocalTypes DEF Limits, ReaderKeeps, LinkInv, Positions
  <2> QED
    BY <1>10, <2>1 DEF Limits, LinkInv, Positions
<1>5. CASE CopiesBytes \/ CountsRead
    BY <1>5, ReadsInOne DEF CopiesBytes, CountsRead, ReaderKeeps, LinkInv, Positions
<1>11. CASE Overruns
    BY <1>11, ReadsInOne DEF Overruns
<1>12. CASE LoadsSize \/ LoadsReadPos
    BY <1>12, ReadsInOne DEF LoadsSize, LoadsReadPos, ReaderKeeps, LinkInv, Positions
<1>6. CASE EndsRead
    BY <1>6 DEF EndsRead
<1>9. CASE BeginsToFlush
    BY <1>9 DEF BeginsToFlush
<1>7. CASE FlushesWritePos
    BY <1>7 DEF FlushesWritePos, LinkInv, Positions
<1>8. CASE FlushesReadPos
    BY <1>8 DEF FlushesReadPos, LinkInv, Positions
<1> QED
    BY <1>2, <1>3, <1>4, <1>5, <1>6, <1>7, <1>8, <1>9, <1>10, <1>11, <1>12 DEF ReaderMoves

LEMMA ReaderInv ==
    ASSUME LinkInv, SenderInv', Reads \/ Flush
    PROVE  LinkInv'
<1>1. /\ UNCHANGED <<vars, wire, latest, torn>> /\ flushDue' \in BOOLEAN
      /\ ReaderKeeps /\ ReaderMoves
    BY ReaderDoes
<1>2. WireOK'
    BY <1>1, WireTyped DEF WireOK, vars, stream
<1>3. LinkTypeOK'
    BY <1>1, <1>2, RxTypes, MovesInRange, TypesNext DEF ReaderKeeps
<1> QED
    BY <1>1, <1>3, MovesKeepPositions DEF LinkInv

LEMMA LinkStep ==
    ASSUME LinkInv, SenderInv, SenderInv', [LinkNext]_linkVars
    PROVE  LinkInv'
<1>1. CASE UNCHANGED linkVars
  <2>1. UNCHANGED <<received, flushDue>> /\ latest' = latest /\ torn' = torn
        /\ wire' = wire /\ pending' = pending
    BY <1>1 DEF linkVars, observed, vars, stream
  <2>2. WireOK'
    BY <2>1, WireTyped DEF WireOK
  <2> QED
    BY <2>1, <2>2, RxTypes, ReceiverStays
<1> QED
    BY <1>1, SendsKeeps, ArrivalKeeps, ReaderInv, TimeKeeps DEF LinkNext

LEMMA LinkInvariance == LinkSpec => []LinkInv
    BY InitLinkInv, LinkStep, SenderInvariance, PTL DEF LinkSpec

(* Both sides and the wire keep their types, and the wire carries the      *)
(* chunks that the sender counts as pending, separated or not.             *)
THEOREM LinkTypeCorrect == LinkSpec => []LinkTypeOK
<1>1. LinkInv => LinkTypeOK
    BY DEF LinkInv
<1> QED
    BY <1>1, LinkInvariance, PTL

-----------------------------------------------------------------------------
(* Where the pauses separate the chunks: what the receiver knows of time.  *)
(* At most one chunk is under way, and it is at least as old as the time   *)
(* since the sender's last one (an age that stops where the pause is long  *)
(* enough); with nothing under way the receiver has been without a byte    *)
(* for as long as the sender has been quiet, less the latency.  So a chunk *)
(* begins to arrive after a gap, and goes on without one.                  *)
Timing ==
    /\ Len(wire) <= 1
    /\ pc = "idle" /\ wire # <<>> => Head(wire).age >= quiet
    /\ pc = "StreamWrite" /\ chunk = 0 => wire = <<>>
    /\ wire = <<>> /\ ~(pc = "StreamWrite" /\ chunk > 0) => sinceIn + Latency >= quiet
    /\ wire # <<>> /\ ~Begun => sinceIn > IncomePacketDelay
    /\ Begun => sinceIn <= IncomePacketDelay

LEMMA LinkDelays ==
    ASSUME LinkInv, SenderInv, Separated
    PROVE  /\ OutcomePacketDelay \in Nat /\ TimeoutDelay \in Nat /\ quiet \in 0..Horizon
           /\ IncomePacketDelay \in 0..Horizon - 1 /\ Latency \in Nat /\ Horizon \in Nat
           /\ sinceIn \in 0..Horizon /\ chunk \in Nat /\ pc \in {"idle", "StreamWrite"}
           /\ OutcomePacketDelay > IncomePacketDelay + Latency
           /\ TimeoutDelay - OutcomePacketDelay > IncomePacketDelay + Latency
           /\ MaxPacketSize \in Nat /\ MaxPacketSize < DefaultSize
           /\ 2 * MaxPacketSize < DefaultSize + 2
           /\ \A m \in MaxSizes : m \in Nat /\ MaxPacketSize <= m
<1>1. /\ OutcomePacketDelay \in Nat /\ TimeoutDelay \in Nat /\ quiet \in 0..Horizon
      /\ chunk \in Nat /\ pc \in {"idle", "StreamWrite"}
    BY TxAssumption DEF SenderInv, Inv, Driven, TypeOK
<1>2. MaxPacketSize \in MaxPacketSizes
    BY DEF SenderInv, Inv, TypeOK
<1>3. /\ MaxPacketSize \in Nat /\ MaxPacketSize < DefaultSize
      /\ 2 * MaxPacketSize < DefaultSize + 2
      /\ \A m \in MaxSizes : m \in Nat /\ MaxPacketSize <= m
    BY <1>2, TxAssumption, LinkAssumption
<1> QED
    BY <1>1, <1>3, RxTypes DEF Separated

(* Both pauses, the one a timeout cuts short included, outlast the         *)
(* latency and a gap.                                                      *)
LEMMA QuietEnough ==
    ASSUME LinkInv, SenderInv, PaceInv, Separated, MaySend
    PROVE  quiet > IncomePacketDelay + Latency
    BY MaySendServed, LinkDelays DEF SenderInv, Served

LEMMA WireIsOut ==
    ASSUME LinkInv, SenderInv, PaceInv, Separated, Timing, MaySend
    PROVE  pc = "idle" /\ wire = <<>> /\ sinceIn > IncomePacketDelay
           /\ sinceIn + Latency >= quiet
<1>1. pc = "idle"
    BY DEF MaySend, Polling
<1>2. quiet > IncomePacketDelay + Latency
    BY QuietEnough
<1>3. wire = <<>>
  <2> SUFFICES ASSUME wire # <<>> PROVE FALSE
    OBVIOUS
  <2>1. Head(wire).age \in 0..Latency
    BY WireTyped, Front DEF WireOK
  <2>2. Head(wire).age >= quiet
    BY <1>1 DEF Timing
  <2> QED
    BY <1>2, <2>1, <2>2, LinkDelays
<1>4. sinceIn + Latency >= quiet
    BY <1>1, <1>3 DEF Timing
<1> QED
    BY <1>1, <1>2, <1>3, <1>4, LinkDelays

LEMMA SendsTiming ==
    ASSUME LinkInv, SenderInv, PaceInv, Separated, Timing, Sends
    PROVE  Timing'
<1>1. UNCHANGED <<sinceIn, IncomePacketDelay>>
    BY DEF Sends, received
<1>2. pending' = pending => wire' = wire
    BY DEF Sends
<1>3. Len(<<>>) = 0
    OBVIOUS
<1>4. ASSUME NEW n \in 0..PacketSize, PollStreamWrite(n), Puts(n)
      PROVE  Timing'
  <2>1. /\ pc = "idle" /\ wire = <<>> /\ sinceIn > IncomePacketDelay
        /\ sinceIn + Latency >= quiet
    BY <1>4, WireIsOut DEF Puts
  <2>2. pc' = "StreamWrite" /\ chunk' = n /\ quiet' = quiet
    BY <1>4 DEF Puts
  <2>3. CASE n > 0
    <3>1. PICK bytes \in Seq(Byte) \ {<<>>} :
             wire' = Append(wire, [bytes |-> bytes, begun |-> FALSE, age |-> 0])
      BY <1>4, <2>3, WireTyped, PutOnWire
    <3> DEFINE new == [bytes |-> bytes, begun |-> FALSE, age |-> 0]
    <3>2. ~new.begun
      OBVIOUS
    <3> HIDE DEF new
    <3>3. wire' = <<new>>
      BY <2>1, <3>1 DEF new
    <3>4. Len(wire') = 1 /\ wire' # <<>> /\ ~Begun'
      BY <3>2, <3>3 DEF Begun
    <3> QED
      BY <1>1, <2>1, <2>2, <2>3, <3>4 DEF Timing
  <2>4. CASE ~(n > 0)
    <3>1. n = 0
      BY <2>4 DEF PacketSize
    <3>2. wire' = <<>> /\ ~Begun'
      BY <1>2, <1>4, <2>1, <2>4 DEF Puts, Begun
    <3> QED
      BY <1>1, <1>3, <2>1, <2>2, <3>1, <3>2 DEF Timing
  <2> QED
    BY <2>3, <2>4
<1>5. CASE StreamWriteReturns /\ pending' = pending
  <2>1. /\ wire' = wire /\ pc = "StreamWrite" /\ pc' = "idle"
        /\ quiet' = IF chunk > 0 THEN 0 ELSE quiet
    BY <1>2, <1>5 DEF StreamWriteReturns, ReturnFromStreamWrite
  <2>2. wire # <<>> => chunk > 0 /\ Head(wire).age >= 0
    <3>1. wire # <<>> => chunk # 0
      BY <2>1 DEF Timing
    <3>2. wire # <<>> => Head(wire).age \in 0..Latency
      BY WireTyped, Front DEF WireOK
    <3> QED
      BY <3>1, <3>2, LinkDelays
  <2>3. wire' # <<>> => Head(wire').age >= quiet'
    BY <2>1, <2>2
  <2>4. wire' = <<>> => sinceIn' + Latency >= quiet'
    BY <1>1, <2>1, LinkDelays DEF Timing
  <2>5. Begun' <=> Begun
    BY <2>1 DEF Begun
  <2> QED
    BY <1>1, <2>1, <2>3, <2>4, <2>5 DEF Timing
<1>6. CASE UNCHANGED <<pc, chunk, quiet, pending>>
    BY <1>1, <1>2, <1>6 DEF Timing, Begun
<1> QED
    BY <1>4, <1>5, <1>6, SendsDoes

LEMMA AloneOnTheWay ==
    ASSUME LinkInv, Timing, wire # <<>>
    PROVE  Len(wire) = 1 /\ Tail(wire) = <<>>
<1> DEFINE len == Len(wire)
<1>1. wire \in Seq(Chunk) /\ len \in Nat \ {0}
    BY WireTyped, Front DEF WireOK
<1>2. len <= 1
    BY DEF Timing
<1> HIDE DEF len
<1>3. len = 1
    BY <1>1, <1>2
<1>4. Len(wire) = 1
    BY <1>3 DEF len
<1>5. Tail(wire) \in Seq(Chunk) /\ Len(Tail(wire)) = 0
    BY <1>1, <1>4
<1> QED
    BY <1>4, <1>5, EmptySeq

(* The arrival of a byte that is not refused.                              *)
LEMMA ArrivalTiming ==
    ASSUME LinkInv, SenderInv, Separated, Timing, NEW data \in Seq(Byte),
           NEW n \in 1..Len(Head(wire).bytes), Arrival(n, data), size < size_max
    PROVE  Timing'
<1>1. wire # <<>> /\ Crosses(n) /\ wire \in Seq(Chunk)
    BY WireTyped DEF Arrival, WireOK
<1>2. /\ Head(wire).bytes \in Seq(Byte) /\ Len(Head(wire).bytes) \in Nat \ {0}
      /\ Head(wire).age \in 0..Latency /\ Len(wire) \in Nat \ {0}
    BY <1>1, Front
<1>3. sinceIn' = 0 /\ IncomePacketDelay' = IncomePacketDelay
  <2>1. size # size_max
    BY RxNumbers
  <2>2. Writes(data)
    BY <2>1 DEF Arrival
  <2>3. Len(data) > 0
    <3>1. n \in Nat \ {0}
      BY <1>2
    <3> QED
      BY <3>1 DEF Arrival
  <2> QED
    BY <2>2, <2>3, WriteDoes
<1>4. Len(wire) = 1 /\ Tail(wire) = <<>>
    BY <1>1, AloneOnTheWay
<1>5. CASE wire' = Tail(wire) /\ StreamDrains
  <2>1. wire' = <<>> /\ Len(wire') = 0 /\ ~Begun'
    BY <1>1, <1>4, <1>5 DEF Begun
  <2>2. UNCHANGED <<pc, chunk, quiet>>
    BY <1>5 DEF StreamDrains, call, clocks
  <2>3. pc = "idle" => Latency >= quiet
    BY <1>1, <1>2, LinkDelays DEF Timing
  <2>4. pc = "StreamWrite" => chunk > 0
    BY <1>1, LinkDelays DEF Timing
  <2> QED
    BY <1>3, <2>1, <2>2, <2>3, <2>4, LinkDelays DEF Timing
<1>6. CASE /\ UNCHANGED vars /\ Len(wire') = Len(wire) /\ Begun'
           /\ Head(wire').age = Head(wire).age
  <2>1. UNCHANGED <<pc, chunk, quiet>> /\ wire' # <<>>
    BY <1>6 DEF vars, call, clocks, Begun
  <2> QED
    BY <1>1, <1>3, <1>4, <1>6, <2>1, LinkDelays DEF Timing
<1> QED
    BY <1>1, <1>5, <1>6, WireTyped, CrossesWire

LEMMA TimeTiming ==
    ASSUME LinkInv, SenderInv, SenderInv', Separated, Timing, TimePasses
    PROVE  Timing'
<1>1. sinceIn' = Advance(sinceIn) /\ LinkInv'
    BY TimeKeeps
<1>2. /\ UNCHANGED <<pc, chunk, IncomePacketDelay>>
      /\ quiet' = Advance(quiet)
  <2>1. UNCHANGED IncomePacketDelay
    BY DEF TimePasses, Rx!Tick, Rx!fixed, received
  <2>2. CASE Tick
    BY <2>1, <2>2 DEF Tick, call
  <2>3. CASE Saturated /\ UNCHANGED vars
    BY <2>1, <2>3, LinkDelays DEF Saturated, vars, call, clocks, Advance, Smaller
  <2> QED
    BY <2>2, <2>3 DEF TimePasses
<1>3. /\ Len(wire') = Len(wire) /\ wire \in Seq(Chunk) /\ wire' \in Seq(Chunk)
      /\ \A i \in 1..Len(wire) : /\ InTime(wire[i])
                                 /\ wire'[i].begun = wire[i].begun
                                 /\ wire'[i].age = wire[i].age + 1
    BY WireTyped, OlderWire DEF WireOK
<1>4. wire' = <<>> <=> wire = <<>>
    BY <1>3, EmptySeq
<1>5. wire # <<>> => /\ InTime(Head(wire)) /\ (Begun' <=> Begun)
                     /\ Head(wire').age = Head(wire).age + 1
                     /\ Head(wire).age \in 0..Latency
  <2> SUFFICES ASSUME wire # <<>> PROVE /\ InTime(Head(wire)) /\ (Begun' <=> Begun)
                                        /\ Head(wire').age = Head(wire).age + 1
                                        /\ Head(wire).age \in 0..Latency
    OBVIOUS
  <2>1. /\ Len(wire) \in Nat \ {0} /\ Head(wire) = wire[1] /\ Head(wire') = wire'[1]
        /\ Head(wire).age \in 0..Latency
    BY <1>3, <1>4, Front
  <2> QED
    BY <1>3, <1>4, <2>1 DEF Begun
<1>6. /\ sinceIn' \in Nat /\ quiet' \in Nat /\ quiet' <= quiet + 1
      /\ sinceIn + Latency >= quiet => sinceIn' + Latency >= quiet'
      /\ sinceIn > IncomePacketDelay => sinceIn' > IncomePacketDelay
      /\ sinceIn < IncomePacketDelay => sinceIn' <= IncomePacketDelay
    BY <1>1, <1>2, LinkDelays DEF Advance, Smaller
<1>7. wire = <<>> => ~Begun /\ ~Begun'
    BY <1>4 DEF Begun
<1>8. pc = "idle" /\ wire # <<>> => Head(wire').age >= quiet'
  <2> SUFFICES ASSUME pc = "idle", wire # <<>> PROVE Head(wire').age >= quiet'
    OBVIOUS
  <2>1. Head(wire).age >= quiet
    BY DEF Timing
  <2>2. quiet \in Nat /\ Head(wire).age \in Nat
    BY <1>5, LinkDelays
  <2> QED
    BY <1>5, <1>6, <2>1, <2>2
<1>9. Begun => sinceIn < IncomePacketDelay
    BY <1>5 DEF Begun, InTime
<1> QED
    BY <1>2, <1>3, <1>4, <1>5, <1>6, <1>7, <1>8, <1>9 DEF Timing

LEMMA ReaderTiming ==
    ASSUME LinkInv, Timing, Reads \/ Flush
    PROVE  Timing'
<1>1. UNCHANGED <<vars, wire, sinceIn, IncomePacketDelay>>
    BY ReaderDoes DEF ReaderKeeps
<1> QED
    BY <1>1 DEF Timing, Begun, vars, call, clocks

-----------------------------------------------------------------------------
(* ... and what it knows of the chunk that began to arrive last: how many  *)
(* bytes of it have come, and where they are if all came at good moments.  *)
Left == IF Begun THEN Len(Head(wire).bytes) ELSE 0
Came == Len(latest) - Left

Account ==
    /\ Len(latest) <= MaxPacketSize
    /\ wire # <<>> => Len(Head(wire).bytes) <= MaxPacketSize
    /\ Came >= 0
    /\ Begun => \A i \in 1..Left : Head(wire).bytes[i] = latest[Came + i]

(* The count is not above it, but for a stale one: the read has stored the *)
(* count of a chunk before, less what it has read.                         *)
Counted ==
    /\ size <= Came \/ (Stale /\ size <= Came + (MaxPacketSize - 2))
    /\ reader \in {"limit", "copy", "size", "size_loaded"}
          => Came >= 1 /\ part1size >= 1 /\ part1size <= MaxPacketSize
    /\ reader = "size_loaded" => loaded <= MaxPacketSize

Sizes == Account /\ Counted

InPlace ==
    /\ size = Came /\ write_pos = Came
    /\ \A i \in 1..Came : buffer[i - 1] = latest[i]

Content ==
    ~torn => /\ Begun => ~BadMoment /\ size = Came
             /\ Calm => size = 0 \/ InPlace
             /\ Flushing => size = 0
             /\ reader \in {"limit", "copy"} => part1size = Len(latest)

SeparateInv == Timing /\ Sizes /\ Content

LEMMA CameIs ==
    ASSUME LinkInv, Sizes
    PROVE  /\ Len(latest) \in Nat /\ Left \in Nat /\ Came \in Nat /\ Left + Came = Len(latest)
           /\ ~Begun => Left = 0 /\ Came = Len(latest)
           /\ Begun => Left = Len(Head(wire).bytes)
<1>1. Len(latest) \in Nat /\ Left \in Nat
    BY WireTyped, Front DEF WireOK, Begun, Left
<1>2. Came >= 0
    BY DEF Sizes, Account
<1>3. (~Begun => Left = 0) /\ (Begun => Left = Len(Head(wire).bytes))
    BY DEF Left
<1>4. Came = Len(latest) - Left
    BY DEF Came
<1>5. Came \in Nat /\ Left + Came = Len(latest) /\ (Left = 0 => Came = Len(latest))
    BY <1>1, <1>2, <1>4
<1> QED
    BY <1>1, <1>3, <1>5, Zenon

(* A chunk always finds room.                                              *)
LEMMA NeverFull ==
    ASSUME LinkInv, SenderInv, Separated, Sizes
    PROVE  size < size_max /\ Came < size_max
<1>1. /\ Len(latest) <= MaxPacketSize
      /\ size <= Came \/ size <= Came + (MaxPacketSize - 2)
    BY DEF Sizes, Account, Counted
<1>2. /\ Came \in Nat /\ Left \in Nat /\ Left + Came = Len(latest)
      /\ size \in Int /\ size_max = DefaultSize /\ size_max \in Nat
      /\ MaxPacketSize \in Nat /\ MaxPacketSize < DefaultSize
      /\ 2 * MaxPacketSize < DefaultSize + 2
    BY CameIs, LinkDelays, RxTypes
<1> QED
    BY <1>1, <1>2

LEMMA CrossesSettings ==
    ASSUME SenderInv, NEW n, Crosses(n)
    PROVE  UNCHANGED settings
    BY SettingsStay DEF Crosses, Next, SenderInv, Driven

(* What an arrival does to the account of the latest chunk.                *)
Before == IF Begun THEN Came ELSE 0

LEMMA LatestDoes ==
    ASSUME LinkInv, SenderInv, Separated, Timing, Sizes, NEW data \in Seq(Byte),
           NEW n \in 1..Len(Head(wire).bytes), Arrival(n, data)
    PROVE  /\ Before \in Nat /\ Came' = Before + n /\ Len(latest') <= MaxPacketSize
           /\ wire' # <<>> => Len(Head(wire').bytes) <= MaxPacketSize
           /\ Begun' => \A i \in 1..Left' : Head(wire').bytes[i] = latest'[Came' + i]
           /\ \A i \in 1..n : data[i] = latest'[Before + i]
           /\ Begun => latest' = latest
           /\ Came' <= Len(latest') /\ Len(latest') \in Nat
<1> DEFINE head == Head(wire)
           rest == Rest(head, n)
<1>1. /\ wire # <<>> /\ wire \in Seq(Chunk) /\ Crosses(n)
      /\ \A i \in 1..n : data[i] = head.bytes[i]
    BY WireTyped DEF Arrival, WireOK
<1>2. /\ head.bytes \in Seq(Byte) /\ Len(head.bytes) \in Nat \ {0}
      /\ head.begun \in BOOLEAN /\ Len(wire) \in Nat \ {0} /\ n \in Nat \ {0}
    BY <1>1, Front
<1>3. /\ latest' = IF head.begun THEN latest ELSE head.bytes
      /\ Begun <=> head.begun
    BY <1>1 DEF Crosses, Arrives, Begun
<1>4. /\ Len(rest) = Len(head.bytes) - n
      /\ \A i \in 1..Len(head.bytes) - n : rest[i] = head.bytes[n + i]
    BY <1>1, WireTyped, CrossesWire
<1>5. /\ Len(latest) <= MaxPacketSize /\ Len(head.bytes) <= MaxPacketSize
      /\ Begun => \A i \in 1..Left : head.bytes[i] = latest[Came + i]
    BY <1>1 DEF Sizes, Account
<1>6. Len(latest') <= MaxPacketSize /\ Len(latest') \in Nat
    BY <1>2, <1>3, <1>5, CameIs
<1>7. /\ Before \in Nat
      /\ Len(latest') = Before + Len(head.bytes)
      /\ \A i \in 1..Len(head.bytes) : head.bytes[i] = latest'[Before + i]
  <2>1. CASE Begun
    BY <1>3, <1>5, <2>1, CameIs DEF Before
  <2>2. CASE ~Begun
    BY <1>2, <1>3, <2>2 DEF Before
  <2> QED
    BY <2>1, <2>2
<1>8. Begun => latest' = latest
    BY <1>3
<1> HIDE DEF head, rest
<1>9. Left' = Len(head.bytes) - n
  <2>1. CASE n = Len(head.bytes) /\ wire' = Tail(wire)
    <3>1. wire' = <<>>
      BY <1>1, <2>1, AloneOnTheWay
    <3>2. ~Begun'
      BY <3>1 DEF Begun
    <3> QED
      BY <1>2, <2>1, <3>2 DEF Left
  <2>2. CASE Begun' /\ Head(wire').bytes = rest
    BY <1>4, <2>2 DEF Left
  <2> QED
    BY <1>1, <2>1, <2>2, WireTyped, CrossesWire DEF head, rest
<1>10. Came' = Before + n /\ Came' <= Len(latest')
  <2>1. Came' = Len(latest') - Left'
    BY DEF Came
  <2>2. n \in 1..Len(head.bytes)
    BY DEF head
  <2>3. /\ Before \in Nat /\ Len(latest') = Before + Len(head.bytes)
        /\ Len(head.bytes) \in Nat
    BY <1>2, <1>7
  <2>4. \A before, len \in Nat : \A m \in 1..len :
           /\ (before + len) - (len - m) = before + m
           /\ before + m <= before + len
    OBVIOUS
  <2>5. Came' = (Before + Len(head.bytes)) - (Len(head.bytes) - n)
    BY <1>9, <2>1, <2>3
  <2> QED
    BY <2>2, <2>3, <2>4, <2>5
<1>11. wire' # <<>> => Begun' /\ Head(wire').bytes = rest
  <2>1. CASE wire' = Tail(wire)
    BY <1>1, <2>1, AloneOnTheWay
  <2>2. \/ wire' = Tail(wire)
        \/ Begun' /\ Head(wire').bytes = rest
    BY <1>1, WireTyped, CrossesWire DEF head, rest
  <2> QED
    BY <2>1, <2>2
<1>12. wire' # <<>> => Len(Head(wire').bytes) <= MaxPacketSize
  <2>1. MaxPacketSize \in Nat
    BY LinkDelays
  <2>2. Len(rest) <= MaxPacketSize
    BY <1>2, <1>4, <1>5, <2>1
  <2> QED
    BY <1>11, <2>2
<1>13. ASSUME Begun', NEW i \in 1..Left'
       PROVE  Head(wire').bytes[i] = latest'[Came' + i]
  <2>1. wire' # <<>> /\ Head(wire').bytes = rest
    BY <1>11, <1>13 DEF Begun
  <2>2. rest[i] = head.bytes[n + i] /\ n + i \in 1..Len(head.bytes)
    BY <1>2, <1>4, <1>9 DEF head
  <2>3. head.bytes[n + i] = latest'[Before + (n + i)]
    BY <1>7, <2>2
  <2>4. Before + (n + i) = Came' + i
    BY <1>2, <1>7, <1>9, <1>10 DEF head
  <2> QED
    BY <2>1, <2>2, <2>3, <2>4
<1>14. \A i \in 1..n : data[i] = latest'[Before + i]
    BY <1>1, <1>2, <1>7 DEF head
<1> QED
    BY <1>6, <1>7, <1>8, <1>10, <1>12, <1>13, <1>14

(* A write that stays within the buffer: the data go to write_pos, one     *)
(* after the other, and nothing else changes there.                        *)
LEMMA WritesInOne ==
    ASSUME LinkInv, NEW data \in Seq(Byte), Len(data) > 0, Writes(data),
           NEW at \in Nat, Rx!Kept(write_pos) = at, at + Len(data) <= size_max,
           NEW n \in Nat, Rx!Kept(size) = n, n + Len(data) <= size_max
    PROVE  /\ size' = n + Len(data) /\ write_pos' = at + Len(data)
           /\ \A i \in 1..Len(data) : buffer'[at + i - 1] = data[i]
           /\ \A i \in 1..at : buffer'[i - 1] = buffer[i - 1]
<1>1. /\ size_max \in Nat /\ buffer \in [0..size_max - 1 -> Cells] /\ Len(data) \in Nat
    BY RxTypes, LenProperties
<1>2. Rx!Taken(data) = Len(data)
    BY <1>1 DEF Rx!Taken, Rx!Smaller
<1>3. /\ size' = n + Len(data) /\ write_pos' = at + Len(data)
      /\ buffer' = Rx!Stored(buffer, at, data)
  <2>1. ASSUME NEW b \in Byte, data = <<b>>, Rx!WriteByte(b)
        PROVE  /\ size' = n + Len(data) /\ write_pos' = at + Len(data)
               /\ buffer' = Rx!Stored(buffer, at, data)
    <3>1. Len(data) = 1
      BY <2>1
    <3>2. Rx!ByteAt = at
      BY <1>1, <3>1 DEF Rx!ByteAt
    <3> QED
      BY <2>1, <3>1, <3>2 DEF Rx!WriteByte, Rx!Receive
  <2>2. CASE Rx!WriteBlock(data)
    <3>1. SubSeq(data, 1, Len(data)) = data
      BY SubSeqFull
    <3> QED
      BY <1>2, <2>2, <3>1 DEF Rx!WriteBlock, Rx!Receive
  <2>3. ~Rx!WriteBlockInTwo(data)
    BY <1>1, <1>2 DEF Rx!WriteBlockInTwo
  <2> QED
    BY <2>1, <2>2, <2>3 DEF Writes
<1>4. ASSUME NEW i \in 1..Len(data)
      PROVE  buffer'[at + i - 1] = data[i]
  <2> DEFINE j == at + i - 1
  <2>1. j \in DOMAIN buffer /\ j \in at..at + Len(data) - 1 /\ j - at + 1 = i
    BY <1>1
  <2> HIDE DEF j
  <2>2. buffer'[j] = data[j - at + 1]
    BY <1>3, <2>1 DEF Rx!Stored
  <2> QED
    BY <2>1, <2>2 DEF j
<1>5. ASSUME NEW i \in 1..at
      PROVE  buffer'[i - 1] = buffer[i - 1]
  <2> DEFINE j == i - 1
  <2>1. j \in DOMAIN buffer /\ j \notin at..at + Len(data) - 1
    BY <1>1
  <2> HIDE DEF j
  <2>2. buffer'[j] = buffer[j]
    BY <1>3, <2>1 DEF Rx!Stored
  <2> QED
    BY <2>2 DEF j
<1> QED
    BY <1>3, <1>4, <1>5

LEMMA ArrivalWrites ==
    ASSUME LinkInv, SenderInv, Separated, Timing, Sizes, NEW data \in Seq(Byte),
           NEW n \in 1..Len(Head(wire).bytes), Arrival(n, data)
    PROVE  wire # <<>> /\ n \in Nat \ {0} /\ Len(data) = n /\ Writes(data)
<1>1. wire # <<>> /\ Len(data) = n
    BY DEF Arrival
<1>2. wire \in Seq(Chunk)
    BY WireTyped DEF WireOK
<1>3. Len(Head(wire).bytes) \in Nat
    BY <1>1, <1>2, Front
<1>4. n \in Nat \ {0}
    BY <1>3
<1>5. size < size_max
    BY <1>1, NeverFull
<1>6. size # size_max
    BY <1>5, RxNumbers
<1>7. Writes(data)
    BY <1>6 DEF Arrival
<1> QED
    BY <1>1, <1>4, <1>7

LEMMA ArrivalSizes ==
    ASSUME LinkInv, SenderInv, Separated, Timing, Sizes, NEW data \in Seq(Byte),
           NEW n \in 1..Len(Head(wire).bytes), Arrival(n, data)
    PROVE  Sizes'
<1>1. wire # <<>> /\ n \in Nat \ {0} /\ Len(data) = n /\ Writes(data)
    BY ArrivalWrites
<1>2. PICK taken \in 1..n : size' = Rx!Kept(size) + taken
    BY <1>1, WriteDoes
<1>3. /\ Rx!Kept(size) \in Int
      /\ \/ Rx!Kept(size) <= Before
         \/ Stale /\ Rx!Kept(size) <= Before + (MaxPacketSize - 2)
  <2>1. CASE Begun
    <3>1. /\ sinceIn <= IncomePacketDelay
          /\ size <= Came \/ (Stale /\ size <= Came + (MaxPacketSize - 2))
      BY <2>1 DEF Timing, Sizes, Counted
    <3>2. Rx!Kept(size) = size
      BY <3>1, KeptIs, RxNumbers
    <3> QED
      BY <2>1, <3>1, <3>2, RxNumbers DEF Before
  <2>2. CASE ~Begun
    <3>1. sinceIn > IncomePacketDelay
      BY <1>1, <2>2 DEF Timing
    <3> QED
      BY <2>2, <3>1, KeptIs, RxNumbers DEF Before
  <2> QED
    BY <2>1, <2>2
<1>4. Before \in Nat /\ Came' = Before + n
    BY LatestDoes
<1>5. MaxPacketSize' = MaxPacketSize /\ MaxPacketSize \in Nat
    BY CrossesSettings, LinkDelays DEF Arrival, settings
<1>6. UNCHANGED <<reader, flushDue, part1size, loaded>>
    BY <1>1, ArrivalDoes
<1>7. Account'
  <2>1. Came' >= 0
    BY <1>1, <1>4
  <2>2. /\ Len(latest') <= MaxPacketSize
        /\ wire' # <<>> => Len(Head(wire').bytes) <= MaxPacketSize
        /\ Begun' => \A i \in 1..Left' : Head(wire').bytes[i] = latest'[Came' + i]
    BY LatestDoes
  <2> QED
    BY <1>5, <2>1, <2>2, Zenon DEF Account
<1>8. Counted'
  <2>1. /\ Came' >= 1
        /\ size' <= Came' \/ (Stale /\ size' <= Came' + (MaxPacketSize - 2))
    BY <1>1, <1>2, <1>3, <1>4, <1>5
  <2>2. Stale' <=> Stale
    BY <1>6 DEF Stale
  <2>3. size' <= Came' \/ (Stale' /\ size' <= Came' + (MaxPacketSize' - 2))
    BY <1>5, <2>1, <2>2
  <2> QED
    BY <1>5, <1>6, <2>1, <2>3 DEF Sizes, Counted
<1> QED
    BY <1>7, <1>8 DEF Sizes

LEMMA ArrivalContent ==
    ASSUME LinkInv, SenderInv, Separated, Timing, Sizes, Content, NEW data \in Seq(Byte),
           NEW n \in 1..Len(Head(wire).bytes), Arrival(n, data)
    PROVE  Content'
<1> SUFFICES ASSUME ~torn'
             PROVE  /\ Begun' => ~BadMoment' /\ size' = Came'
                    /\ Calm' => size' = 0 \/ InPlace'
                    /\ Flushing' => size' = 0
                    /\ reader' \in {"limit", "copy"} => part1size' = Len(latest')
    BY DEF Content
<1>1. wire # <<>> /\ n \in Nat \ {0} /\ Len(data) = n /\ Writes(data)
    BY ArrivalWrites
<1>2. ~BadMoment /\ (Begun => ~torn)
    BY DEF Arrival, Crosses, Arrives, Begun
<1>3. /\ reader \in Looking /\ ~flushDue /\ Calm
      /\ reader' = reader /\ flushDue' = flushDue
  <2>1. reader \in Looking /\ ~flushDue
    BY <1>2 DEF BadMoment, Looking
  <2> QED
    BY <1>1, <2>1, ArrivalDoes DEF Calm, Settled, Looking
<1>4. ~BadMoment' /\ ~Flushing' /\ reader' \notin {"limit", "copy"}
    BY <1>3 DEF BadMoment, Flushing, Looking
<1>5. size >= 0 /\ (size = 0 => write_pos = 0)
    BY <1>3 DEF LinkInv, Positions
<1>6. /\ Before \in Nat /\ Came' = Before + n /\ Came' <= Len(latest')
      /\ Len(latest') <= MaxPacketSize
      /\ \A i \in 1..n : data[i] = latest'[Before + i]
      /\ Begun => latest' = latest
    BY LatestDoes
<1>7. Rx!Kept(write_pos) = Before /\ Rx!Kept(size) = Before
  <2>1. CASE Begun
    <3>1. sinceIn <= IncomePacketDelay
      BY <2>1 DEF Timing
    <3>2. size = Came /\ (size = 0 \/ InPlace)
      BY <1>2, <1>3, <2>1 DEF Content
    <3>3. write_pos = Came
      BY <1>5, <3>2 DEF InPlace
    <3> QED
      BY <2>1, <3>1, <3>2, <3>3, KeptIs, RxNumbers DEF Before
  <2>2. CASE ~Begun
    <3>1. sinceIn > IncomePacketDelay
      BY <1>1, <2>2 DEF Timing
    <3> QED
      BY <1>5, <2>2, <3>1, KeptIs, RxNumbers DEF Before
  <2> QED
    BY <2>1, <2>2
<1>8. Before + Len(data) <= size_max /\ Len(data) > 0
  <2>1. MaxPacketSize < size_max
    BY LinkDelays, RxTypes
  <2>2. MaxPacketSize \in Int /\ size_max \in Int /\ Len(latest') \in Int
    BY LatestDoes, LinkDelays, RxTypes
  <2> QED
    BY <1>1, <1>6, <2>1, <2>2
<1>9. /\ size' = Before + n /\ write_pos' = Before + n
      /\ \A i \in 1..n : buffer'[Before + i - 1] = data[i]
      /\ \A i \in 1..Before : buffer'[i - 1] = buffer[i - 1]
    BY <1>1, <1>6, <1>7, <1>8, WritesInOne
<1>10. ASSUME NEW i \in 1..Before
       PROVE  buffer[i - 1] = latest'[i]
  <2>1. Begun /\ i \in 1..Came
    BY DEF Before
  <2>2. size = Came /\ (size = 0 \/ InPlace)
    BY <1>2, <1>3, <2>1 DEF Content
  <2>3. Came # 0
    BY <2>1, CameIs
  <2> QED
    BY <1>6, <2>1, <2>2, <2>3 DEF InPlace
<1>11. ASSUME NEW i \in 1..Before + n
       PROVE  buffer'[i - 1] = latest'[i]
  <2>1. CASE i \in 1..Before
    BY <1>9, <1>10, <2>1
  <2>2. CASE i \notin 1..Before
    <3> DEFINE k == i - Before
    <3>1. k \in 1..n /\ Before + k = i /\ Before + k - 1 = i - 1
      BY <1>1, <1>6, <2>2
    <3> HIDE DEF k
    <3>2. buffer'[Before + k - 1] = latest'[Before + k]
      BY <1>6, <1>9, <3>1
    <3> QED
      BY <3>1, <3>2
  <2> QED
    BY <2>1, <2>2
<1>12. size' = Came' /\ InPlace'
    BY <1>6, <1>9, <1>11 DEF InPlace
<1> QED
    BY <1>4, <1>12

(* Steps that bring no byte: the account stays, and what is held with it.  *)
LEMMA AccountStays ==
    ASSUME Account, UNCHANGED <<latest, MaxPacketSize>>, Begun' <=> Begun,
           Begun => Head(wire').bytes = Head(wire).bytes,
           wire' # <<>> => Len(Head(wire').bytes) <= MaxPacketSize
    PROVE  Account' /\ Came' = Came /\ Left' = Left
<1>1. Left' = Left
    BY DEF Left
<1>2. Came' = Came
    BY <1>1 DEF Came
<1> QED
    BY <1>1, <1>2 DEF Account

LEMMA CountedStays ==
    ASSUME Counted, Came' = Came,
           UNCHANGED <<size, part1size, loaded, reader, flushDue, MaxPacketSize>>
    PROVE  Counted'
<1>1. Stale' <=> Stale
    BY DEF Stale
<1> QED
    BY <1>1 DEF Counted

LEMMA ContentStays ==
    ASSUME Content, Came' = Came, Begun' <=> Begun,
           UNCHANGED <<latest, torn, size, write_pos, buffer, part1size, reader, flushDue>>
    PROVE  Content'
<1>1. /\ Calm' <=> Calm
      /\ Flushing' <=> Flushing
      /\ BadMoment' <=> BadMoment
      /\ InPlace' <=> InPlace
    BY DEF Calm, Settled, Flushing, BadMoment, InPlace
<1> QED
    BY <1>1 DEF Content

LEMMA SendsSeparate ==
    ASSUME LinkInv, SenderInv, PaceInv, Separated, SeparateInv, Sends
    PROVE  SeparateInv'
<1> USE DEF SeparateInv
<1>1. /\ UNCHANGED <<latest, torn, size, write_pos, buffer, part1size, loaded, reader,
                     flushDue>>
      /\ UNCHANGED MaxPacketSize
    BY SettingsStay DEF Sends, received, observed, Next, settings, SenderInv, Driven
<1>2. /\ Begun' <=> Begun
      /\ Begun => Head(wire').bytes = Head(wire).bytes
      /\ wire' # <<>> => Len(Head(wire').bytes) <= MaxPacketSize
  <2>1. CASE pending' = pending
    BY <2>1 DEF Sends, Begun, Sizes, Account
  <2>2. CASE pending' # pending
    <3>1. PICK n \in 0..PacketSize : PollStreamWrite(n) /\ Puts(n)
      BY <2>2, SendsDoes
    <3>2. n > 0
      BY <2>2, <3>1 DEF Puts
    <3>3. PICK bytes \in Seq(Byte) \ {<<>>} :
             /\ Len(bytes) = n
             /\ wire' = Append(wire, [bytes |-> bytes, begun |-> FALSE, age |-> 0])
      BY <3>1, <3>2, WireTyped, PutOnWire
    <3>4. wire = <<>>
      BY <3>1, WireIsOut DEF Puts
    <3> DEFINE new == [bytes |-> bytes, begun |-> FALSE, age |-> 0]
    <3>5. ~new.begun /\ new.bytes = bytes
      OBVIOUS
    <3> HIDE DEF new
    <3>6. wire' = <<new>>
      BY <3>3, <3>4 DEF new
    <3>7. ~Begun /\ ~Begun' /\ Head(wire').bytes = bytes
      BY <3>4, <3>5, <3>6 DEF Begun
    <3>8. n <= MaxPacketSize
      <4>1. output.size \in Nat
        BY DEF SenderInv, Inv, TypeOK
      <4> QED
        BY <4>1, LinkDelays DEF PacketSize, Smaller
    <3> QED
      BY <3>3, <3>7, <3>8
  <2> QED
    BY <2>1, <2>2
<1>3. Account' /\ Came' = Came
    BY <1>1, <1>2, AccountStays DEF Sizes
<1>4. Sizes' /\ Came' = Came
    BY <1>1, <1>3, CountedStays DEF Sizes
<1>5. Content'
    BY <1>1, <1>2, <1>4, ContentStays
<1> QED
    BY <1>4, <1>5, SendsTiming

LEMMA ArrivalSeparate ==
    ASSUME LinkInv, SenderInv, Separated, SeparateInv, ByteArrives \/ BlockArrives
    PROVE  SeparateInv'
<1> USE DEF SeparateInv
<1>1. PICK n \in 1..Len(Head(wire).bytes), data \in Seq(Byte) : Arrival(n, data)
    BY ArrivalIs
<1>2. size < size_max
    BY NeverFull
<1> QED
    BY <1>1, <1>2, ArrivalTiming, ArrivalSizes, ArrivalContent

LEMMA TimeSeparate ==
    ASSUME LinkInv, SenderInv, SenderInv', Separated, SeparateInv, TimePasses
    PROVE  SeparateInv'
<1> USE DEF SeparateInv
<1>1. UNCHANGED <<latest, torn, size, write_pos, buffer, part1size, loaded, reader,
                  flushDue>>
  <2>1. UNCHANGED <<latest, torn, flushDue>>
    BY DEF TimePasses, observed
  <2>2. UNCHANGED <<size, write_pos, buffer, part1size, loaded, reader>>
    BY DEF TimePasses, Rx!Tick, received
  <2> QED
    BY <2>1, <2>2
<1>2. UNCHANGED MaxPacketSize
    BY DEF TimePasses, Tick, vars, settings
<1>3. /\ Len(wire') = Len(wire) /\ wire \in Seq(Chunk) /\ wire' \in Seq(Chunk)
      /\ \A i \in 1..Len(wire) : /\ wire'[i].begun = wire[i].begun
                                 /\ wire'[i].bytes = wire[i].bytes
    BY WireTyped, OlderWire DEF WireOK
<1>4. wire' = <<>> <=> wire = <<>>
    BY <1>3, EmptySeq
<1>5. wire # <<>> => /\ Head(wire').begun = Head(wire).begun
                     /\ Head(wire').bytes = Head(wire).bytes
  <2> SUFFICES ASSUME wire # <<>> PROVE /\ Head(wire').begun = Head(wire).begun
                                        /\ Head(wire').bytes = Head(wire).bytes
    OBVIOUS
  <2>1. Len(wire) \in Nat \ {0} /\ Head(wire) = wire[1] /\ Head(wire') = wire'[1]
    BY <1>3, <1>4, Front
  <2> QED
    BY <1>3, <2>1
<1>6. /\ Begun' <=> Begun
      /\ Begun => Head(wire').bytes = Head(wire).bytes
      /\ wire' # <<>> => Len(Head(wire').bytes) <= MaxPacketSize
    BY <1>4, <1>5 DEF Begun, Sizes, Account
<1>7. Account' /\ Came' = Came
    BY <1>1, <1>2, <1>6, AccountStays DEF Sizes
<1>8. Sizes' /\ Came' = Came
    BY <1>1, <1>2, <1>7, CountedStays DEF Sizes
<1>9. Content'
    BY <1>1, <1>6, <1>8, ContentStays
<1> QED
    BY <1>8, <1>9, TimeTiming

LEMMA ReaderAccount ==
    ASSUME LinkInv, Account, Reads \/ Flush
    PROVE  /\ Account' /\ Came' = Came
           /\ Begun' <=> Begun
<1>1. UNCHANGED <<wire, latest, MaxPacketSize>>
    BY ReaderDoes DEF vars, settings
<1>2. Begun' <=> Begun
    BY <1>1 DEF Begun
<1>3. wire' # <<>> => Len(Head(wire').bytes) <= MaxPacketSize
    BY <1>1 DEF Account
<1> QED
    BY <1>1, <1>2, <1>3, AccountStays

LEMMA ReaderSizes ==
    ASSUME LinkInv, SenderInv, Separated, Sizes, Reads \/ Flush
    PROVE  /\ Sizes' /\ Came' = Came
           /\ Begun' <=> Begun
<1>1. /\ Account' /\ Came' = Came
      /\ Begun' <=> Begun
    BY ReaderAccount DEF Sizes
<1>2. ReaderMoves /\ MaxPacketSize' = MaxPacketSize
    BY ReaderDoes DEF vars, settings
<1>3. /\ Came \in Nat /\ Came <= MaxPacketSize /\ MaxPacketSize \in Nat
      /\ size \in Int /\ part1size \in Nat /\ loaded \in Int /\ maxsize \in Nat
  <2>1. Len(latest) <= MaxPacketSize
    BY DEF Sizes, Account
  <2>2. Came \in Nat /\ Left \in Nat /\ Left + Came = Len(latest)
    BY CameIs
  <2>3. MaxPacketSize \in Nat
    BY LinkDelays
  <2>4. Came <= MaxPacketSize
    BY <2>1, <2>2, <2>3
  <2> QED
    BY <2>2, <2>3, <2>4, LocalTypes
<1>4. /\ size <= Came \/ (Stale /\ size <= Came + (MaxPacketSize - 2))
      /\ reader \in {"limit", "copy", "size", "size_loaded"}
            => Came >= 1 /\ part1size >= 1 /\ part1size <= MaxPacketSize
      /\ reader = "size_loaded" => loaded <= MaxPacketSize
    BY DEF Sizes, Counted
<1>5. reader \in {"waiting", "checking", "available"} => ~flushDue
    BY DEF LinkInv, Positions, Flushing
<1> DEFINE Counts ==
              /\ size' <= Came \/ (Stale' /\ size' <= Came + (MaxPacketSize - 2))
              /\ reader' \in {"limit", "copy", "size", "size_loaded"}
                    => Came >= 1 /\ part1size' >= 1 /\ part1size' <= MaxPacketSize
              /\ reader' = "size_loaded" => loaded' <= MaxPacketSize
<1> SUFFICES Counts
    BY <1>1, <1>2 DEF Sizes, Counted
<1> USE DEF Stale
<1>6. CASE Looks \/ FindsPacket
    BY <1>4, <1>5, <1>6 DEF Looks, Looking, FindsPacket
<1>7. CASE BeginsToRead
  <2>1. reader = "available" /\ size > 0
    BY <1>7 DEF BeginsToRead, LinkInv, Positions
  <2>2. size <= Came
    BY <1>4, <1>5, <2>1
  <2> QED
    BY <1>3, <1>7, <2>1, <2>2 DEF BeginsToRead
<1>8. CASE Limits
  <2>1. reader = "limit" /\ maxsize \in MaxSizes /\ size <= Came
    BY <1>4, <1>8 DEF Limits, LinkInv, Positions
  <2>2. MaxPacketSize <= maxsize
    BY <2>1, LinkDelays
  <2>3. part1size' = part1size /\ size' = size /\ reader' = "copy"
    BY <1>3, <1>8, <2>1, <2>2 DEF Limits
  <2> QED
    BY <1>4, <2>1, <2>3
<1>9. CASE CopiesBytes \/ Overruns
    BY <1>4, <1>9 DEF CopiesBytes, Overruns
<1>10. CASE LoadsSize
    BY <1>3, <1>4, <1>10 DEF LoadsSize
<1>11. CASE CountsRead
    BY <1>3, <1>4, <1>11 DEF CountsRead
<1>12. CASE LoadsReadPos
    BY <1>4, <1>12 DEF LoadsReadPos
<1>13. CASE EndsRead
    BY <1>4, <1>13 DEF EndsRead
<1>14. CASE BeginsToFlush
    BY <1>3, <1>14 DEF BeginsToFlush
<1>15. CASE FlushesWritePos \/ FlushesReadPos
    BY <1>4, <1>15 DEF FlushesWritePos, FlushesReadPos
<1> QED
    BY <1>2, <1>6, <1>7, <1>8, <1>9, <1>10, <1>11, <1>12, <1>13, <1>14, <1>15
    DEF ReaderMoves

(* What the reader finds stays whole: it begins to read only after a gap,  *)
(* when no chunk is on its way in, and what comes until it has flushed     *)
(* comes at a bad moment.                                                  *)
LEMMA ReaderContent ==
    ASSUME LinkInv, Separated, SenderInv, Timing, Sizes, Content, Reads \/ Flush
    PROVE  Content'
<1> SUFFICES ASSUME ~torn'
             PROVE  /\ Begun' => ~BadMoment' /\ size' = Came'
                    /\ Calm' => size' = 0 \/ InPlace'
                    /\ Flushing' => size' = 0
                    /\ reader' \in {"limit", "copy"} => part1size' = Len(latest')
    BY DEF Content
<1>1. /\ UNCHANGED <<wire, latest, torn, buffer>>
      /\ Came' = Came
      /\ Begun' <=> Begun
    BY ReaderDoes, ReaderSizes DEF ReaderKeeps
<1>2. /\ ~torn
      /\ Begun => ~BadMoment /\ size = Came
      /\ Calm => size = 0 \/ InPlace
      /\ Flushing => size = 0
      /\ reader \in {"limit", "copy"} => part1size = Len(latest)
    BY <1>1 DEF Content
<1>3. UNCHANGED <<size, write_pos>> => (InPlace' <=> InPlace)
    BY <1>1 DEF InPlace
<1> USE DEF Calm, Settled, Flushing, BadMoment
<1>4. CASE Looks
    BY <1>1, <1>2, <1>3, <1>4 DEF Looks, Looking
<1>5. CASE FindsPacket
  <2>1. ~Begun
    <3>1. sinceIn > IncomePacketDelay /\ (Begun => sinceIn <= IncomePacketDelay)
      BY <1>5 DEF FindsPacket, Timing
    <3>2. sinceIn \in Int /\ IncomePacketDelay \in Int
      BY LinkDelays
    <3>3. sinceIn > IncomePacketDelay => ~(sinceIn <= IncomePacketDelay)
      BY <3>2
    <3> QED
      BY <3>1, <3>3, Zenon
  <2>2. Calm
    BY <1>5 DEF FindsPacket, LinkInv, Positions
  <2> QED
    BY <1>1, <1>2, <1>3, <1>5, <2>1, <2>2 DEF FindsPacket
<1>6. CASE BeginsToRead
  <2>1. reader = "available" /\ reader' = "limit" /\ UNCHANGED <<size, write_pos>>
        /\ part1size' = size
    BY <1>6 DEF BeginsToRead
  <2>2. ~flushDue /\ size > 0
    BY <2>1 DEF LinkInv, Positions
  <2>3. ~Begun /\ Calm
    BY <1>2, <2>1, <2>2
  <2>4. size = Len(latest) /\ InPlace
    BY <1>2, <2>2, <2>3, CameIs DEF InPlace
  <2> QED
    BY <1>1, <1>3, <2>1, <2>3, <2>4
<1>10. CASE Limits
  <2>1. /\ reader = "limit" /\ reader' = "copy" /\ UNCHANGED <<size, write_pos>>
        /\ part1size' = IF maxsize < size THEN maxsize ELSE part1size
        /\ ~flushDue' /\ ~flushDue
    BY <1>10, ReadsInOne DEF Limits, Reading
  <2>2. part1size' = part1size
    <3>1. maxsize \in MaxSizes /\ size > 0
      BY <2>1 DEF LinkInv, Positions
    <3>2. ~Begun /\ Calm
      BY <1>2, <2>1
    <3>3. size = Len(latest)
      BY <1>2, <3>1, <3>2, CameIs DEF InPlace
    <3>4. Len(latest) <= MaxPacketSize
      BY DEF Sizes, Account
    <3>5. /\ Len(latest) \in Int /\ MaxPacketSize \in Int
          /\ maxsize \in Int /\ MaxPacketSize <= maxsize
      BY <3>1, CameIs, LinkDelays
    <3> QED
      BY <2>1, <3>3, <3>4, <3>5
  <2>3. ~Begun /\ Calm
    BY <1>2, <2>1
  <2>4. reader' = "copy" /\ part1size' = Len(latest)
    BY <1>2, <2>1, <2>2
  <2> QED
    BY <1>1, <1>2, <1>3, <2>1, <2>3, <2>4
<1>7. CASE CopiesBytes \/ Overruns \/ LoadsSize \/ CountsRead \/ LoadsReadPos \/ EndsRead
  <2>1. ~Begun
    BY <1>2, <1>7 DEF CopiesBytes, Overruns, LoadsSize, CountsRead, LoadsReadPos, EndsRead
  <2>2. \/ reader' \in {"size", "size_loaded", "read_pos", "read_pos_loaded", "undefined"}
        \/ reader' = "idle" /\ flushDue'
    BY <1>7 DEF CopiesBytes, Overruns, LoadsSize, CountsRead, LoadsReadPos, EndsRead
  <2> QED
    BY <1>1, <2>1, <2>2
<1>8. CASE BeginsToFlush
  <2>1. ~Begun
    BY <1>2, <1>8 DEF BeginsToFlush
  <2> QED
    BY <1>1, <1>8, <2>1 DEF BeginsToFlush
<1>9. CASE FlushesWritePos \/ FlushesReadPos
  <2>1. ~Begun /\ size = 0 /\ size' = size /\ reader' \in {"flush_read_pos", "idle"}
    BY <1>2, <1>9 DEF FlushesWritePos, FlushesReadPos
  <2> QED
    BY <1>1, <2>1
<1> QED
    BY <1>4, <1>5, <1>6, <1>7, <1>8, <1>9, <1>10, ReaderDoes DEF ReaderMoves

LEMMA InitSeparate == LinkInit => SeparateInv
<1> SUFFICES ASSUME LinkInit PROVE SeparateInv
    OBVIOUS
<1>1. /\ wire = <<>> /\ Len(wire) = 0 /\ ~Begun /\ pc = "idle"
      /\ latest = <<>> /\ Len(latest) = 0
    BY EmptySeq DEF LinkInit, Init, Begun
<1>2. /\ sinceIn = Horizon /\ quiet = Horizon /\ Horizon \in Nat /\ Latency \in Nat
      /\ size = 0 /\ reader = "idle"
    BY TxAssumption, LinkAssumption DEF LinkInit, Init, Rx!Init
<1>3. Timing
    BY <1>1, <1>2 DEF Timing
<1>4. Left = 0 /\ Came = 0
    BY <1>1 DEF Left, Came
<1>5. MaxPacketSize >= 0
    BY TxAssumption DEF LinkInit, Init
<1>6. Sizes
    BY <1>1, <1>2, <1>4, <1>5 DEF Sizes, Account, Counted
<1>7. Content
    BY <1>1, <1>2 DEF Content, Flushing
<1> QED
    BY <1>3, <1>6, <1>7 DEF SeparateInv

(* Nothing changes a delay or the size of the chunks.                      *)
LEMMA SeparatedStays ==
    ASSUME SenderInv, [LinkNext]_linkVars
    PROVE  /\ Separated' <=> Separated
           /\ MaxPacketSize' = MaxPacketSize
<1>1. UNCHANGED settings
    BY SenderStep, SettingsStay DEF SenderInv
<1>2. UNCHANGED IncomePacketDelay
    BY DEF LinkNext, linkVars, received, Sends, ByteArrives, BlockArrives, Reads, Flush,
       TimePasses, Rx!WriteByte, Rx!WriteBlock, Rx!WriteBlockInTwo, Rx!Receive,
       Rx!ReadPacket, Rx!ReadStep, Rx!Look, Rx!ReadPacketLoops, Rx!ReadPacketChecks,
       Rx!ReadPacketTimeout, Rx!ReadAll, Rx!ReadAllLimits, Rx!ReadAllCopies,
       Rx!ReadAllLoadsSize, Rx!ReadAllMovesSize, Rx!ReadAllLoadsReadPos,
       Rx!ReadAllMovesReadPos, Rx!ReadAllInTwo, Rx!ReadAllOverruns,
       Rx!FlushIncomeBuffer, Rx!FlushMovesWritePos, Rx!FlushMovesReadPos, Rx!Tick,
       Rx!fixed
<1> QED
    BY <1>1, <1>2 DEF Separated, settings

LEMMA SeparateStep ==
    ASSUME LinkInv, SenderInv, SenderInv', PaceInv, Separated => SeparateInv, [LinkNext]_linkVars
    PROVE  (Separated => SeparateInv)'
<1> SUFFICES ASSUME Separated, SeparateInv PROVE SeparateInv'
    BY SeparatedStays
<1>1. CASE Sends
    BY <1>1, SendsSeparate
<1>2. CASE ByteArrives \/ BlockArrives
    BY <1>2, ArrivalSeparate
<1>3. CASE Reads \/ Flush
    BY <1>3, ReaderTiming, ReaderSizes, ReaderContent DEF SeparateInv
<1>4. CASE TimePasses
    BY <1>4, TimeSeparate
<1>5. CASE UNCHANGED linkVars
  <2>1. /\ UNCHANGED <<wire, pc, chunk, quiet, sinceIn, IncomePacketDelay, MaxPacketSize>>
        /\ UNCHANGED <<latest, torn, size, write_pos, buffer, part1size, loaded, reader,
                       flushDue>>
    BY <1>5 DEF linkVars, vars, call, clocks, settings, received, observed
  <2>2. Begun' <=> Begun
    BY <2>1 DEF Begun
  <2>3. Timing'
    BY <2>1, <2>2 DEF SeparateInv, Timing
  <2>4. Sizes' /\ Came' = Came
    BY <2>1, <2>2, AccountStays, CountedStays DEF SeparateInv, Sizes, Account
  <2> QED
    BY <2>1, <2>2, <2>3, <2>4, ContentStays DEF SeparateInv
<1> QED
    BY <1>1, <1>2, <1>3, <1>4, <1>5 DEF LinkNext

LEMMA SeparateInvariance == LinkSpec => [](Separated => SeparateInv)
<1>1. LinkInit => (Separated => SeparateInv)
    BY InitSeparate
<1> QED
    BY <1>1, SeparateStep, LinkInvariance, SenderInvariance, PTL DEF LinkSpec

(* Where the pauses separate the chunks, the buffer never fills, though    *)
(* nobody may ever read: every byte that arrives is taken.                 *)
THEOREM NothingRefused == LinkSpec => []RoomForTheNext
<1>1. LinkInv /\ SenderInv /\ (Separated => SeparateInv) => RoomForTheNext
  <2> SUFFICES ASSUME LinkInv, SenderInv, Separated, SeparateInv
               PROVE  size < size_max /\ (Stale \/ size <= MaxPacketSize)
    BY DEF RoomForTheNext
  <2>1. Len(latest) <= MaxPacketSize /\ (Stale \/ size <= Came)
    BY DEF SeparateInv, Sizes, Account, Counted
  <2>2. MaxPacketSize \in Nat
    BY LinkDelays
  <2>3. /\ Came \in Nat /\ Left \in Nat /\ Left + Came = Len(latest)
        /\ size \in Int
    BY CameIs, RxTypes DEF SeparateInv
  <2>4. size < size_max
    BY NeverFull DEF SeparateInv
  <2> QED
    BY <2>1, <2>2, <2>3, <2>4
<1> QED
    BY <1>1, LinkInvariance, SenderInvariance, SeparateInvariance, PTL

(* Nor does a read overrun the caller's buffer, though the interrupt may   *)
(* change the count between the two loads of ReadAll.                      *)
NoOverrun == Separated => reader # "undefined"

LEMMA ReadsWithinMaxsize ==
    ASSUME LinkInv, SenderInv, Separated, Sizes
    PROVE  ~Overruns
<1> SUFFICES ASSUME Overruns PROVE FALSE
    OBVIOUS
<1>1. reader = "copy" /\ part1size > maxsize
    BY DEF Overruns
<1>2. maxsize \in MaxSizes /\ part1size <= MaxPacketSize
    BY <1>1 DEF LinkInv, Positions, Sizes, Counted
<1>3. /\ maxsize \in Nat /\ MaxPacketSize \in Nat /\ MaxPacketSize <= maxsize
      /\ part1size \in Nat
    BY <1>2, LinkDelays, RxTypes
<1> QED
    BY <1>1, <1>2, <1>3

THEOREM NeverOverruns == LinkSpec => []NoOverrun
<1>1. LinkInit => NoOverrun
    BY DEF LinkInit, Rx!Init, NoOverrun
<1>2. ASSUME LinkInv, SenderInv, Separated => SeparateInv, NoOverrun, [LinkNext]_linkVars
      PROVE  NoOverrun'
  <2> SUFFICES ASSUME Separated, SeparateInv, reader # "undefined"
               PROVE  reader' # "undefined"
    BY <1>2, SeparatedStays DEF NoOverrun
  <2>1. CASE Reads \/ Flush
    BY <1>2, <2>1, ReaderDoes, ReadsWithinMaxsize
    DEF SeparateInv, ReaderMoves, Looks, Looking, FindsPacket, BeginsToRead, Limits,
        CopiesBytes, LoadsSize, CountsRead, LoadsReadPos, EndsRead, BeginsToFlush,
        FlushesWritePos, FlushesReadPos
  <2>2. CASE ByteArrives \/ BlockArrives
    <3>1. PICK n \in 1..Len(Head(wire).bytes), data \in Seq(Byte) : Arrival(n, data)
      BY <1>2, <2>2, ArrivalIs
    <3>2. n \in Nat \ {0}
      OBVIOUS
    <3> QED
      BY <1>2, <3>1, <3>2, ArrivalDoes
  <2>3. CASE Sends \/ TimePasses \/ UNCHANGED linkVars
    BY <2>3 DEF Sends, TimePasses, linkVars, received, Rx!Tick
  <2> QED
    BY <1>2, <2>1, <2>2, <2>3 DEF LinkNext
<1> QED
    BY <1>1, <1>2, LinkInvariance, SenderInvariance, SeparateInvariance, PTL DEF LinkSpec

(* ... and a read returns the chunk that has come last, all of it and      *)
(* nothing else, unless bytes of it came between the test for a packet and *)
(* the end of the flush.                                                   *)
THEOREM WholeChunks == LinkSpec => ReadsWholeChunks
<1> DEFINE Step == Separated /\ ~torn /\ reader = "copy" /\ reader' # "copy"
                      => reader' = "size" /\ got' = latest
<1>1. ASSUME LinkInv, SenderInv, Separated => SeparateInv, [LinkNext]_linkVars
      PROVE  [Step]_linkVars
  <2> SUFFICES ASSUME LinkNext, Separated, ~torn, reader = "copy", reader' # "copy"
               PROVE  reader' = "size" /\ got' = latest
    BY <1>1
  <2>1. Reads \/ Flush
    <3>1. ~(ByteArrives \/ BlockArrives)
      <4> SUFFICES ASSUME ByteArrives \/ BlockArrives PROVE FALSE
        OBVIOUS
      <4>1. PICK n \in 1..Len(Head(wire).bytes), data \in Seq(Byte) : Arrival(n, data)
        BY <1>1, ArrivalIs
      <4>2. n \in Nat \ {0}
        OBVIOUS
      <4> QED
        BY <1>1, <4>1, <4>2, ArrivalDoes
    <3>2. ~Sends /\ ~TimePasses
      BY DEF Sends, TimePasses, received, Rx!Tick
    <3> QED
      BY <3>1, <3>2 DEF LinkNext
  <2>2. CopiesBytes
    BY <1>1, <2>1, ReaderDoes, ReadsWithinMaxsize
    DEF SeparateInv, ReaderMoves, Looks, Looking, FindsPacket, BeginsToRead, Limits,
        CopiesBytes, LoadsSize, CountsRead, LoadsReadPos, EndsRead, BeginsToFlush,
        FlushesWritePos, FlushesReadPos
  <2>3. /\ reader' = "size" /\ got' = Rx!Bytes(0, Len(latest))
    <3>1. part1size = Len(latest)
      BY <1>1 DEF SeparateInv, Content
    <3>2. read_pos = 0
      BY <1>1, ReadsInOne DEF Reading
    <3> QED
      BY <2>2, <3>1, <3>2 DEF CopiesBytes
  <2>4. ~Begun /\ Calm
    <3>1. ~flushDue
      BY <1>1, ReadsInOne DEF Reading
    <3> QED
      BY <1>1, <3>1 DEF SeparateInv, Content, BadMoment, Calm, Settled
  <2>5. Came = Len(latest) /\ latest \in Seq(Byte) /\ Len(latest) \in Nat
    BY <1>1, <2>4, CameIs, RxTypes DEF SeparateInv
  <2>6. \A i \in 1..Len(latest) : buffer[i - 1] = latest[i]
    <3>1. size = 0 \/ InPlace
      BY <1>1, <2>4 DEF SeparateInv, Content
    <3>2. size > 0
      BY <1>1 DEF LinkInv, Positions
    <3> QED
      BY <2>5, <3>1, <3>2 DEF InPlace
  <2>7. Rx!Bytes(0, Len(latest)) = latest
    <3>1. Rx!Bytes(0, Len(latest)) = [i \in 1..Len(latest) |-> buffer[i - 1]]
      BY <2>5 DEF Rx!Bytes
    <3>2. latest = [i \in 1..Len(latest) |-> latest[i]]
      BY <2>5
    <3> QED
      BY <2>6, <3>1, <3>2
  <2> QED
    BY <2>3, <2>7
<1> QED
    BY <1>1, LinkInvariance, SenderInvariance, SeparateInvariance, PTL
    DEF LinkSpec, ReadsWholeChunks

=============================================================================
