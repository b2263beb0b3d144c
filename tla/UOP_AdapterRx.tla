---------------------------- MODULE UOP_AdapterRx ----------------------------
(***************************************************************************)
(* The receive side of class UOP_Adapter: the stream driver puts bytes     *)
(* into the ring buffer input (Write), the application takes them out      *)
(* (ReadAll, ReadPacket) or drops them (FlushIncomeBuffer).  ReadPacket    *)
(* waits, for TimeoutDelay at most, until no byte has come for more than   *)
(* IncomePacketDelay; in packet mode a byte that comes after such a gap    *)
(* drops what is held.                                                     *)
(*                                                                         *)
(* The calls of the application are split where the stream side can see or *)
(* change the buffer: between statements, and between the load and the     *)
(* store of one that updates a position or the count.  With Preemptive     *)
(* Write runs there, as an interrupt does: the busy loop of ReadPacket can *)
(* be ended by new bytes in no other way.  Without it the stream is polled *)
(* by the thread that reads.  One step each are Write itself, the test and *)
(* the memcpy of ReadAll, its faulty branch, and IncomePacketAvailable.    *)
(*                                                                         *)
(* Time.  As in UOP_AdapterTx only differences are kept, saturating at     *)
(* Horizon.                                                                *)
(***************************************************************************)
EXTENDS Integers, Sequences

CONSTANTS
    Byte,                 \* the values of a byte
    Garbage,              \* the value of a byte that was never written
    Data,                 \* what the stream side writes: Write(buffer, size)
    BufferSizes,          \* values SetMaxIncomeBufferSize is called with
    DefaultSize,          \* MaxBufferSize_Default
    MaxSizes,             \* the maxsize arguments of the reads
    IncomePacketDelays,   \* values SetIncomePacketDelay is called with
    TimeoutDelay,
    Horizon,              \* bound of sinceIn: greater than every delay
    Uses                  \* ways to use the adapter, see Use

(* Is packet mode enabled before the first byte; can Write interrupt the   *)
(* application's calls; does the application call FlushIncomeBuffer?       *)
Use == [PacketMode : BOOLEAN, preemptive : BOOLEAN, flushes : BOOLEAN]

ASSUME RxAssumption ==
    /\ Garbage \notin Byte
    /\ Data \subseteq Seq(Byte)
    /\ BufferSizes \subseteq Nat \ {0}
    /\ DefaultSize \in Nat \ {0}
    /\ MaxSizes \subseteq Nat
    /\ Horizon \in Nat
    /\ IncomePacketDelays \subseteq 0..Horizon - 1
    /\ TimeoutDelay \in Nat
    /\ Uses \subseteq Use

VARIABLES
    buffer,               \* input.buffer
    size_max,
    size,
    read_pos,
    write_pos,
    sinceIn,              \* GetTime_ms() - input.LastIncomeTime
    IncomePacketDelay,
    PacketMode,
    Preemptive,           \* Use.preemptive
    Flushes,              \* Use.flushes
    pc,                   \* where the application is in its call
    maxsize,              \* argument of the read in progress
    part1size,            \* local variable of ReadAll
    loaded,               \* what ReadAll has loaded to update
    waited,               \* GetTime_ms() - time_s in ReadPacket
    got,                  \* what the last read returned
    offered               \* history: what the stream side wrote last

input == <<buffer, size_max, size, read_pos, write_pos, sinceIn>>
read  == <<pc, maxsize, part1size, loaded, waited, got>>
fixed == <<IncomePacketDelay, PacketMode, Preemptive, Flushes>>
vars  == <<input, fixed, read, offered>>

Smaller(a, b) == IF a < b THEN a ELSE b

PC == {"idle", "waiting", "checking", "available",
       "limit", "copy", "size", "size_loaded", "read_pos", "read_pos_loaded",
       "flush_write_pos", "flush_read_pos", "undefined"}

-----------------------------------------------------------------------------
(* A constructed adapter, packet mode and gap chosen.                      *)
Init ==
    /\ buffer = [i \in 0..DefaultSize - 1 |-> Garbage]
    /\ size_max = DefaultSize
    /\ size = 0
    /\ read_pos = 0
    /\ write_pos = 0
    /\ sinceIn = Horizon
    /\ IncomePacketDelay \in IncomePacketDelays
    /\ \E use \in Uses :
          /\ PacketMode = use.PacketMode
          /\ Preemptive = use.preemptive
          /\ Flushes = use.flushes
    /\ pc = "idle"
    /\ maxsize = 0
    /\ part1size = 0
    /\ loaded = 0
    /\ waited = 0
    /\ got = <<>>
    /\ offered = <<>>

\* Mutant: a gap of exactly the delay counts.
GapOfTheDelay == sinceIn >= IncomePacketDelay

Gap == sinceIn > IncomePacketDelay
IncomePacketAvailable == size > 0 /\ Gap
IncomeBufferIsFull == size = size_max

(* The bytes held, oldest first: size bytes from read_pos on, round the    *)
(* end of the buffer.  A read that has copied its bytes and not yet moved  *)
(* the positions holds them no longer.  A Write between the load and the   *)
(* store of size is not counted, and never will be: the bytes held, up to  *)
(* write_pos, may be more than size.                                       *)
Copied ==
    IF pc \in {"size", "size_loaded", "read_pos", "read_pos_loaded"}
    THEN part1size ELSE 0
HeldCount ==
    IF Preemptive THEN write_pos - (read_pos + Copied)
    ELSE IF pc \in {"size", "size_loaded"} THEN size - part1size
    ELSE size
Held == [i \in 1..HeldCount |-> buffer[(read_pos + Copied + i - 1) % size_max]]

-----------------------------------------------------------------------------
(* Write.  A full buffer refuses everything, before packet mode is looked  *)
(* at; so does Write(buffer, 0).  Nothing changes then.                    *)
StreamSide == pc = "idle" \/ (Preemptive /\ pc # "undefined")

\* Mutant: the flush of packet mode is forgotten.
FlushNever == FALSE

FlushFirst == PacketMode /\ IncomePacketAvailable

(* size, write_pos and read_pos as the flush of packet mode leaves them.   *)
Kept(position) == IF FlushFirst THEN 0 ELSE position

(* Store the data from position at on.                                     *)
Stored(cells, at, data) ==
    [i \in DOMAIN cells |->
        IF i \in at..at + Len(data) - 1 THEN data[i - at + 1] ELSE cells[i]]

(* What every Write that takes bytes does besides storing them.            *)
Receive(data, taken) ==
    /\ size' = Kept(size) + taken
    /\ read_pos' = Kept(read_pos)
    /\ sinceIn' = 0
    /\ offered' = data
    /\ UNCHANGED <<size_max, fixed, read>>

\* Mutant: the wrap test is off by one.
ByteAtLate == IF Kept(write_pos) > size_max THEN 0 ELSE Kept(write_pos)

ByteAt == IF Kept(write_pos) >= size_max THEN 0 ELSE Kept(write_pos)

WriteByte(b) ==
    /\ StreamSide /\ ~IncomeBufferIsFull
    /\ buffer' = Stored(buffer, ByteAt, <<b>>)
    /\ write_pos' = ByteAt + 1
    /\ Receive(<<b>>, 1)

\* Mutant: a block is not cut to the room there is.
TakenAll(data) == Len(data)

Taken(data) == Smaller(Len(data), size_max - Kept(size))

(* The block fits between write_pos and the end of the buffer.             *)
WriteBlock(data) ==
    /\ StreamSide /\ ~IncomeBufferIsFull
    /\ Len(data) > 0
    /\ Kept(write_pos) + Taken(data) <= size_max
    /\ buffer' = Stored(buffer, Kept(write_pos), SubSeq(data, 1, Taken(data)))
    /\ write_pos' = Kept(write_pos) + Taken(data)
    /\ Receive(data, Taken(data))

(* It does not: the second part goes to the start of the buffer, and       *)
(* write_pos stays there.                                                  *)
WriteBlockInTwo(data) ==
    /\ StreamSide /\ ~IncomeBufferIsFull
    /\ Len(data) > 0
    /\ Kept(write_pos) + Taken(data) > size_max
    /\ LET part1 == size_max - Kept(write_pos)
       IN  buffer' = Stored(Stored(buffer, Kept(write_pos), SubSeq(data, 1, part1)),
                            0, SubSeq(data, part1 + 1, Taken(data)))
    /\ write_pos' = 0
    /\ Receive(data, Taken(data))

-----------------------------------------------------------------------------
(* A step of the application that leaves the buffer alone.                 *)
Look(next) ==
    /\ pc' = next
    /\ UNCHANGED <<input, fixed, offered>>

(* The call is over, and its local variables with it.                      *)
Over ==
    /\ pc' = "idle"
    /\ maxsize' = 0
    /\ part1size' = 0
    /\ loaded' = 0
    /\ waited' = 0

(* ReadPacket.  time_s is an int: when GetTime_ms() does not fit, from     *)
(* 2^31 ms on, the difference is at least 2^32 and the loop over at once.  *)
ReadPacket(max, fits) ==
    /\ pc = "idle"
    /\ maxsize' = max
    /\ waited' = IF fits THEN 0 ELSE TimeoutDelay
    /\ Look("waiting")
    /\ UNCHANGED <<part1size, loaded, got>>

ReadPacketLoops ==
    /\ pc = "waiting"
    /\ waited < TimeoutDelay
    /\ Look("checking")
    /\ UNCHANGED <<maxsize, part1size, loaded, waited, got>>

ReadPacketChecks ==
    /\ pc = "checking"
    /\ Look(IF IncomePacketAvailable THEN "available" ELSE "waiting")
    /\ UNCHANGED <<maxsize, part1size, loaded, waited, got>>

ReadPacketTimeout ==
    /\ pc = "waiting"
    /\ waited >= TimeoutDelay
    /\ got' = <<>>
    /\ Over
    /\ UNCHANGED <<input, fixed, offered>>

(* ReadAll, called by the application or by ReadPacket.  It reads size     *)
(* twice before it copies.                                                 *)
ReadAll(max) ==
    /\ pc = "idle" \/ (pc = "available" /\ max = maxsize)
    /\ maxsize' = max
    /\ part1size' = size
    /\ waited' = 0
    /\ Look("limit")
    /\ UNCHANGED <<loaded, got>>

ReadAllLimits ==
    /\ pc = "limit"
    /\ part1size' = IF maxsize < size THEN maxsize ELSE part1size
    /\ Look("copy")
    /\ UNCHANGED <<maxsize, loaded, waited, got>>

Bytes(from, n) == [i \in 1..n |-> buffer[from + i - 1]]

ReadAllCopies ==
    /\ pc = "copy"
    /\ read_pos + part1size <= size_max
    /\ part1size \in 0..maxsize
    /\ pc' = "size"
    /\ got' = Bytes(read_pos, part1size)
    /\ UNCHANGED <<input, fixed, maxsize, part1size, loaded, waited, offered>>

(* input.size -= part1size: a Write between the load and the store is      *)
(* overwritten, its bytes are in the buffer and not in size.               *)
ReadAllLoadsSize ==
    /\ pc = "size"
    /\ loaded' = size
    /\ Look("size_loaded")
    /\ UNCHANGED <<maxsize, part1size, waited, got>>

\* Mutant: everything counts as read, what came during the copy included.
ReadAllMovesSizeToZero ==
    /\ pc = "size_loaded"
    /\ pc' = "read_pos"
    /\ size' = 0
    /\ UNCHANGED <<buffer, size_max, read_pos, write_pos, sinceIn, fixed,
                   maxsize, part1size, loaded, waited, got, offered>>

ReadAllMovesSize ==
    /\ pc = "size_loaded"
    /\ pc' = "read_pos"
    /\ size' = loaded - part1size
    /\ UNCHANGED <<buffer, size_max, read_pos, write_pos, sinceIn, fixed,
                   maxsize, part1size, loaded, waited, got, offered>>

(* input.read_pos += part1size, likewise.                                  *)
ReadAllLoadsReadPos ==
    /\ pc = "read_pos"
    /\ loaded' = read_pos
    /\ Look("read_pos_loaded")
    /\ UNCHANGED <<maxsize, part1size, waited, got>>

\* Mutant: read_pos moves by maxsize, not by what was read.
ReadPosPastMaxsize == Smaller(loaded + maxsize, size_max)

ReadPosPastPart == loaded + part1size

ReadAllMovesReadPos ==
    /\ pc = "read_pos_loaded"
    /\ read_pos' = ReadPosPastPart
    /\ Over
    /\ UNCHANGED <<buffer, size_max, size, write_pos, sinceIn, fixed, got,
                   offered>>

(* The read goes past the end of the buffer.  part1size is computed from   *)
(* size, not from size_max; size is reduced by the second part only; and   *)
(* read_pos stays at the start.  One step: nothing is known of what an     *)
(* interrupt would find in the middle of it.                               *)
ReadAllInTwo ==
    /\ pc = "copy"
    /\ read_pos + part1size > size_max
    /\ LET part1 == size - read_pos
           part2 == Smaller(read_pos, maxsize - part1)
       IN  /\ part1 \in 0..maxsize /\ size <= size_max
           /\ got' = Bytes(read_pos, part1) \o Bytes(0, part2)
           /\ size' = size - part2
    /\ read_pos' = 0
    /\ Over
    /\ UNCHANGED <<buffer, size_max, write_pos, sinceIn, fixed, offered>>

(* ... or hands memcpy a negative length or overruns a buffer; the other   *)
(* branch does when size has changed between its two loads.                *)
ReadAllOverruns ==
    /\ pc = "copy"
    /\ IF read_pos + part1size > size_max
       THEN size - read_pos \notin 0..maxsize \/ size > size_max
       ELSE part1size \notin 0..maxsize
    /\ Look("undefined")
    /\ UNCHANGED <<maxsize, part1size, loaded, waited, got>>

-----------------------------------------------------------------------------
(* FlushIncomeBuffer, called by the application.                           *)
FlushIncomeBuffer ==
    /\ Flushes
    /\ pc = "idle"
    /\ pc' = "flush_write_pos"
    /\ size' = 0
    /\ UNCHANGED <<buffer, size_max, read_pos, write_pos, sinceIn, fixed,
                   maxsize, part1size, loaded, waited, got, offered>>

FlushMovesWritePos ==
    /\ pc = "flush_write_pos"
    /\ pc' = "flush_read_pos"
    /\ write_pos' = 0
    /\ UNCHANGED <<buffer, size_max, size, read_pos, sinceIn, fixed,
                   maxsize, part1size, loaded, waited, got, offered>>

FlushMovesReadPos ==
    /\ pc = "flush_read_pos"
    /\ pc' = "idle"
    /\ read_pos' = 0
    /\ UNCHANGED <<buffer, size_max, size, write_pos, sinceIn, fixed,
                   maxsize, part1size, loaded, waited, got, offered>>

(* SetMaxIncomeBufferSize: AllocBuffer copies size_max bytes into the new  *)
(* buffer and leaves the positions alone.                                  *)
GrowBuffer(new) ==
    /\ pc = "idle"
    /\ new >= size_max
    /\ buffer' = [i \in 0..new - 1 |->
                    IF i < size_max THEN buffer[i] ELSE Garbage]
    /\ size_max' = new
    /\ UNCHANGED <<size, read_pos, write_pos, sinceIn, fixed, read, offered>>

(* A smaller buffer is overrun by that copy.                               *)
ShrinkBuffer(new) ==
    /\ pc = "idle"
    /\ new < size_max
    /\ Look("undefined")
    /\ UNCHANGED <<maxsize, part1size, loaded, waited, got>>

-----------------------------------------------------------------------------
(* One millisecond passes.                                                 *)
Waiting == pc \in {"waiting", "checking"}

Tick ==
    /\ pc # "undefined"
    /\ sinceIn < Horizon \/ (Waiting /\ waited < TimeoutDelay)
    /\ sinceIn' = Smaller(sinceIn + 1, Horizon)
    /\ waited' = IF Waiting THEN Smaller(waited + 1, TimeoutDelay) ELSE waited
    /\ UNCHANGED <<buffer, size_max, size, read_pos, write_pos, fixed, pc,
                   maxsize, part1size, loaded, got, offered>>

StreamStep ==
    \/ \E b \in Byte : WriteByte(b)
    \/ \E data \in Data : WriteBlock(data) \/ WriteBlockInTwo(data)

(* What is left of a call of ReadPacket or ReadAll.                        *)
ReadStep ==
    \/ ReadPacketLoops
    \/ ReadPacketChecks
    \/ ReadPacketTimeout
    \/ pc = "available" /\ ReadAll(maxsize)
    \/ ReadAllLimits
    \/ ReadAllCopies
    \/ ReadAllLoadsSize
    \/ ReadAllMovesSize
    \/ ReadAllLoadsReadPos
    \/ ReadAllMovesReadPos
    \/ ReadAllInTwo
    \/ ReadAllOverruns

ApplicationStep ==
    \/ \E max \in MaxSizes, fits \in BOOLEAN : ReadPacket(max, fits)
    \/ \E max \in MaxSizes : pc = "idle" /\ ReadAll(max)
    \/ ReadStep
    \/ FlushIncomeBuffer
    \/ FlushMovesWritePos
    \/ FlushMovesReadPos
    \/ \E new \in BufferSizes : GrowBuffer(new) \/ ShrinkBuffer(new)

Next == StreamStep \/ ApplicationStep \/ Tick

Spec == Init /\ [][Next]_vars

(* Between two flushes the stream brings no more than the buffer holds:    *)
(* nothing is written past its end.                                        *)
StreamStepInTurn ==
    \/ Kept(write_pos) < size_max /\ \E b \in Byte : WriteByte(b)
    \/ \E data \in Data : WriteBlock(data)

InTurnSpec ==
    Init /\ [][StreamStepInTurn \/ ApplicationStep \/ Tick]_vars

-----------------------------------------------------------------------------
(* Every variable has its type; no position leaves the buffer.             *)
TypeOK ==
    /\ size_max \in Nat \ {0}
    /\ buffer \in [0..size_max - 1 -> Byte \cup {Garbage}]
    /\ size \in Int
    /\ read_pos \in 0..size_max
    /\ write_pos \in 0..size_max
    /\ sinceIn \in 0..Horizon
    /\ IncomePacketDelay \in IncomePacketDelays
    /\ PacketMode \in BOOLEAN
    /\ Preemptive \in BOOLEAN
    /\ Flushes \in BOOLEAN
    /\ pc \in PC
    /\ maxsize \in Nat
    /\ part1size \in Int
    /\ loaded \in Int
    /\ waited \in 0..TimeoutDelay
    /\ got \in Seq(Byte \cup {Garbage})
    /\ offered \in Seq(Byte)

(* The count of bytes held stays a count of bytes of the buffer, also when *)
(* the positions have gone round its end and the bytes are the wrong ones. *)
SizeInRange == size \in 0..size_max

(* The two-part branch of ReadAll, with its negative lengths, is not       *)
(* reached while the stream stays within the buffer.                       *)
ReadAllStaysDefined ==
    [][pc = "copy" => pc' \in {"copy", "size"}]_vars

-----------------------------------------------------------------------------
(* The receive side implements the byte channel: reads return the bytes    *)
(* written, in order, each once.                                           *)
Channel == INSTANCE UOP_ByteChannel
             WITH Data <- Data \cup {<<b>> : b \in Byte},
                  packetMode <- PacketMode, held <- Held

ChannelSpec == Channel!Spec

=============================================================================
