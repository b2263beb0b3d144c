------------------------------ MODULE UOP_Link ------------------------------
(***************************************************************************)
(* Two adapters and what is between them: the transmit side of one hands   *)
(* chunks to its stream driver, the wire carries them, and an interrupt    *)
(* writes them into the receive side of the other, byte by byte or as a    *)
(* block.  The receiver is in packet mode: it knows the packets apart by   *)
(* the silence between them, which the sender makes with its pauses.       *)
(*                                                                         *)
(* The pause runs from the return of StreamWrite, not from the moment the  *)
(* chunk is out, and it is cut short by a timeout.  How long the receiver  *)
(* may wait for the next byte of a packet depends on it, and on the wire.  *)
(*                                                                         *)
(* The receiving application reads a packet and then flushes the buffer,   *)
(* which keeps the positions away from the end of the ring buffer.         *)
(***************************************************************************)
EXTENDS UOP_AdapterTx

CONSTANTS
    Garbage,
    DefaultSize,
    MaxSizes,
    IncomePacketDelays,
    ReadTimeout,          \* TimeoutDelay of the receiver
    Latency               \* a chunk is across after this many ms

(* Those of the receiver, and: a chunk fits into its buffer, with room to  *)
(* spare, and into one read; so does what a stale count adds to it.        *)
ASSUME LinkAssumption ==
    /\ Garbage \notin Byte
    /\ DefaultSize \in Nat \ {0}
    /\ MaxSizes \subseteq Nat
    /\ IncomePacketDelays \subseteq 0..Horizon - 1
    /\ ReadTimeout \in Nat
    /\ Latency \in Nat
    /\ \A n \in MaxPacketSizes : /\ n < DefaultSize /\ 2 * n < DefaultSize + 2
                                  /\ \A m \in MaxSizes : n <= m

VARIABLES
    wire,                 \* chunks on the way: the bytes left, begun, the age
    buffer, size_max, size, read_pos, write_pos, sinceIn,
    IncomePacketDelay, PacketMode, Preemptive, Flushes,
    reader,               \* pc of the receiving application
    maxsize, part1size, loaded, waited, got, offered,
    flushDue,             \* has it read, and not yet flushed?
    latest,               \* history: the chunk that began to arrive last, whole
    torn                  \* history: have bytes of it come at a bad moment?

Rx == INSTANCE UOP_AdapterRx
        WITH Data <- {}, BufferSizes <- {}, TimeoutDelay <- ReadTimeout, pc <- reader,
             Uses <- {[PacketMode |-> TRUE, preemptive |-> TRUE, flushes |-> TRUE]}

received == <<buffer, size_max, size, read_pos, write_pos, sinceIn,
              IncomePacketDelay, PacketMode, Preemptive, Flushes, reader,
              maxsize, part1size, loaded, waited, got, offered>>
observed == <<latest, torn>>
linkVars == <<vars, wire, received, flushDue, observed>>

(* Any settings, with one source of completions at most; both sides have   *)
(* been up for a while.                                                    *)
LinkInit ==
    /\ Init
    /\ StreamWrite /\ ~(TxCompleteUse /\ StreamOutEmpty)
    /\ uptime = Horizon
    /\ Rx!Init
    /\ wire = <<>>
    /\ flushDue = FALSE
    /\ latest = <<>>
    /\ torn = FALSE

-----------------------------------------------------------------------------
(* A step of the sender; what its StreamWrite takes goes on the wire.      *)
Sends ==
    /\ \/ \E packet \in Packets : WritePacketAccepted(packet, TRUE)
       \/ Poll
       \/ StreamWriteReturns
       \/ TxComplete
    /\ wire' = IF pending' = pending THEN wire
               ELSE Append(wire, [bytes |-> SubSeq(output.buffer, output.read_pos + 1,
                                                   output.read_pos + chunk'),
                                  begun |-> FALSE, age |-> 0])
    /\ UNCHANGED <<received, flushDue, observed>>

(* Between the test for a packet and the end of the flush, what arrives is *)
(* taken for part of the packet that is read, or lost.                     *)
BadMoment == reader \notin {"idle", "waiting", "checking"} \/ flushDue

Rest(head, n) == SubSeq(head.bytes, n + 1, Len(head.bytes))

(* n bytes of the first chunk arrive; what the receiver is to make of it.  *)
Arrives(head, n) ==
    /\ latest' = IF head.begun THEN latest ELSE head.bytes
    /\ torn' = (BadMoment \/ (head.begun /\ torn))
    /\ wire' = IF Rest(head, n) = <<>> THEN Tail(wire)
               ELSE [wire EXCEPT ![1].bytes = Rest(head, n), ![1].begun = TRUE]
    /\ UNCHANGED flushDue

\* Mutant: the driver reports a chunk out with its first byte.
CrossesWithItsFirstByte(n) ==
    LET head == Head(wire)
    IN  /\ Arrives(head, n)
        /\ IF head.begun THEN UNCHANGED vars ELSE StreamDrains

(* With its last byte the chunk is out of the stream.                      *)
Crosses(n) ==
    LET head == Head(wire)
    IN  /\ Arrives(head, n)
        /\ IF Rest(head, n) = <<>> THEN StreamDrains ELSE UNCHANGED vars

(* A full buffer refuses: what arrives is lost.                            *)
ByteArrives ==
    /\ wire # <<>>
    /\ IF Rx!IncomeBufferIsFull THEN UNCHANGED received
       ELSE Rx!WriteByte(Head(Head(wire).bytes))
    /\ Crosses(1)

BlockArrives ==
    /\ wire # <<>> /\ ~Head(wire).begun
    /\ IF Rx!IncomeBufferIsFull THEN UNCHANGED received
       ELSE \/ Rx!WriteBlock(Head(wire).bytes)
            \/ Rx!WriteBlockInTwo(Head(wire).bytes)
    /\ Crosses(Len(Head(wire).bytes))

-----------------------------------------------------------------------------
(* The receiving application: a packet, a flush, the next packet.          *)
Reads ==
    /\ \/ /\ ~flushDue
          /\ \E max \in MaxSizes : Rx!ReadPacket(max, TRUE)
       \/ Rx!ReadStep
    /\ flushDue' = (reader = "read_pos_loaded" \/ flushDue)
    /\ UNCHANGED <<vars, wire, observed>>

Flush ==
    /\ \/ flushDue /\ Rx!FlushIncomeBuffer
       \/ Rx!FlushMovesWritePos
       \/ Rx!FlushMovesReadPos
    /\ flushDue' = (reader # "flush_read_pos")
    /\ UNCHANGED <<vars, wire, observed>>

(* A millisecond passes, on both sides.  The wire keeps its promise: a     *)
(* chunk is across within Latency, and its bytes come without a gap.       *)
InTime(c) == c.age < Latency /\ (c.begun => sinceIn < IncomePacketDelay)

Saturated == uptime = Horizon /\ sinceOut = Horizon /\ quiet = Horizon
RxSaturated == sinceIn = Horizon /\ (Rx!Waiting => waited = ReadTimeout)

TimePasses ==
    /\ \A i \in DOMAIN wire : InTime(wire[i])
    /\ wire' = [i \in DOMAIN wire |-> [wire[i] EXCEPT !.age = @ + 1]]
    /\ Tick \/ (Saturated /\ UNCHANGED vars)
    /\ Rx!Tick \/ (RxSaturated /\ UNCHANGED received)
    /\ UNCHANGED <<flushDue, observed>>

LinkNext ==
    \/ Sends
    \/ ByteArrives
    \/ BlockArrives
    \/ Reads
    \/ Flush
    \/ TimePasses

LinkSpec == LinkInit /\ [][LinkNext]_linkVars

-----------------------------------------------------------------------------
(* Both sides have their types, and the wire carries the chunks that the   *)
(* sender counts as pending.                                               *)
LinkTypeOK ==
    /\ TypeOK
    /\ Rx!TypeOK
    /\ wire \in Seq([bytes : Seq(Byte) \ {<<>>}, begun : BOOLEAN, age : 0..Latency])
    /\ Len(wire) = pending
    /\ flushDue \in BOOLEAN
    /\ latest \in Seq(Byte)
    /\ torn \in BOOLEAN

(* The pauses are long enough for this wire and this receiver, those that  *)
(* a timeout cuts short included.                                          *)
Separated ==
    /\ OutcomePacketDelay > IncomePacketDelay + Latency
    /\ TimeoutDelay - OutcomePacketDelay > IncomePacketDelay + Latency

(* Then a read returns the chunk that has come last: all of it and nothing *)
(* else - unless bytes of it came at a bad moment.                         *)
ReadsWholeChunks ==
    [][Separated /\ ~torn /\ reader = "copy" /\ reader' # "copy"
          => reader' = "size" /\ got' = latest]_linkVars

(* A read that was interrupted as it updated the count has stored an old   *)
(* one: it may count bytes that packet mode has dropped, until the flush.  *)
Stale == reader \in {"read_pos", "read_pos_loaded"} \/ (reader = "idle" /\ flushDue)

(* And the buffer never fills: nothing that arrives is refused, though     *)
(* nobody may ever read.  But for a stale count it holds a chunk at most.  *)
RoomForTheNext ==
    Separated => size < size_max /\ (Stale \/ size <= MaxPacketSize)

=============================================================================
