--------------------------- MODULE UOP_AdapterTx ---------------------------
(***************************************************************************)
(* The transmit side of class UOP_Adapter (lib/UOP_Adapter.h,              *)
(* lib/UOP_Adapter.cpp): WritePacket takes a packet, WritePacketAsync is   *)
(* polled until the packet is out or has timed out, and hands it to the    *)
(* stream driver in chunks of at most MaxPacketSize bytes, spaced by       *)
(* OutcomePacketDelay milliseconds.                                        *)
(*                                                                         *)
(* Actors: the application (WritePacket, WritePacketCompleteCheck), the    *)
(* stream driver behind the function pointers StreamWrite and              *)
(* StreamOutEmpty (external), its completion interrupt (TxComplete), and   *)
(* the clock.  Between the call of StreamWrite and its return the driver   *)
(* runs: the stream may drain, TxComplete may be called, time passes.      *)
(*                                                                         *)
(* Time.  The code compares only GetTime_ms() - LastOutcomeTime with       *)
(* delays of at most Horizon, so the model keeps differences, saturating   *)
(* at Horizon: a saturated clock passes every comparison the real one      *)
(* passes.  LastOutcomeTime = 0 is the difference "uptime".                *)
(***************************************************************************)
EXTENDS Integers, Sequences

CONSTANTS
    Byte,                 \* the values of a byte
    Packets,              \* packets the application sends
    MaxPacketSizes,       \* values SetMaxPacketSize is called with
    OutcomePacketDelays,  \* values SetOutcomePacketDelay is called with
    TimeoutDelays,        \* values SetTimeoutDelay is called with
    Horizon,              \* bound of the clocks: no delay exceeds it
    Depth,                \* chunks the stream driver holds at a time
    RefuseWhenIdle        \* may StreamWrite take nothing with no chunk held?

ASSUME TxAssumption ==
    /\ Horizon \in Nat
    /\ Depth \in Nat \ {0}
    /\ MaxPacketSizes \subseteq Nat
    /\ OutcomePacketDelays \subseteq 0..Horizon
    /\ TimeoutDelays \subseteq 0..Horizon
    /\ RefuseWhenIdle \in BOOLEAN
    /\ Packets \subseteq Seq(Byte)

VARIABLES
    StreamWrite,             \* is the function pointer set?
    StreamOutEmpty,          \* is the function pointer set?
    TxCompleteUse,
    MaxPacketSize,
    OutcomePacketDelay,
    TimeoutDelay,
    TxEmpty,
    StreamWriteRunning,
    OutcomePacketDelayWait,
    WriteStreamWait,
    output,                  \* [buffer, size, read_pos] of BufferType output
    pc,                      \* "idle", or "StreamWrite" inside the call, or
                             \* "undefined" once a NULL pointer was called
    chunk,                   \* what the last StreamWrite call returned
    blocked,                 \* is a synchronous WritePacket looping?
    ret,                     \* last return of WritePacket or WritePacketAsync
    uptime,                  \* GetTime_ms()
    sinceOut,                \* GetTime_ms() - output.LastOutcomeTime
    pending,                 \* stream driver: chunks taken and not yet out
    irq,                     \* stream driver: a TxComplete call is due
    sent,                    \* history: bytes of this packet the driver took
    quiet                    \* history: time since a StreamWrite that took bytes

settings == <<StreamWrite, StreamOutEmpty, TxCompleteUse,
              MaxPacketSize, OutcomePacketDelay, TimeoutDelay>>
flags    == <<TxEmpty, StreamWriteRunning, OutcomePacketDelayWait,
              WriteStreamWait>>
call     == <<pc, chunk, blocked, ret>>
clocks   == <<uptime, sinceOut, quiet>>
stream   == <<pending, irq, sent>>
vars     == <<settings, flags, output, call, clocks, stream>>

StateType == {"OK", "RUNNING", "BUSY", "ERROR", "WRITE_TIMEOUT"}

Smaller(a, b) == IF a < b THEN a ELSE b

-----------------------------------------------------------------------------
(* A constructed adapter whose owner has made any of the settings calls.   *)
Init ==
    /\ StreamWrite \in BOOLEAN
    /\ StreamOutEmpty \in BOOLEAN
    /\ TxCompleteUse \in BOOLEAN
    /\ MaxPacketSize \in MaxPacketSizes
    /\ OutcomePacketDelay \in OutcomePacketDelays
    /\ TimeoutDelay \in TimeoutDelays
    /\ TxEmpty = TRUE
    /\ StreamWriteRunning = FALSE
    /\ OutcomePacketDelayWait = FALSE
    /\ WriteStreamWait = FALSE
    /\ output = [buffer |-> <<>>, size |-> 0, read_pos |-> 0]
    /\ pc = "idle"
    /\ chunk = 0
    /\ blocked = FALSE
    /\ ret = "OK"
    /\ uptime \in {0, Horizon}
    /\ sinceOut = uptime
    /\ pending = 0
    /\ irq = FALSE
    /\ sent = <<>>
    /\ quiet = Horizon

-----------------------------------------------------------------------------
(* WritePacket.  The UOP side is one thread: while a synchronous call      *)
(* loops, only the driver can call again, from inside StreamWrite.         *)
CanCall == ~blocked \/ pc = "StreamWrite"

\* Mutant: the test of StreamWriteRunning is gone.
AlwaysFree == StreamWrite

Free == StreamWrite /\ ~StreamWriteRunning

WritePacketRefused ==
    /\ CanCall /\ ~Free
    /\ ret' = IF StreamWrite THEN "BUSY" ELSE "ERROR"
    /\ UNCHANGED <<settings, flags, output, pc, chunk, blocked, clocks, stream>>

(* BufferType::Write replaces the buffer and zeroes LastOutcomeTime.       *)
WritePacketAccepted(packet, async) ==
    /\ CanCall /\ Free
    /\ StreamWriteRunning' = TRUE
    /\ output' = [buffer |-> packet, size |-> Len(packet), read_pos |-> 0]
    /\ sinceOut' = uptime
    /\ blocked' = ~async
    /\ ret' = IF async THEN "OK" ELSE ret
    /\ sent' = <<>>
    /\ UNCHANGED <<settings, TxEmpty, OutcomePacketDelayWait, WriteStreamWait,
                   pc, chunk, uptime, quiet, pending, irq>>

-----------------------------------------------------------------------------
(* WritePacketAsync, one action per way out.  The application calls it     *)
(* through WritePacketCompleteCheck, a synchronous WritePacket in a loop.  *)
Polling == pc = "idle" /\ StreamWriteRunning

InDelay == OutcomePacketDelayWait /\ sinceOut < OutcomePacketDelay
Waiting == WriteStreamWait /\ ~TxEmpty

\* Mutant: a packet of which nothing is out does not time out.
TimedOutOnceStarted ==
    output.read_pos > 0 /\ sinceOut + OutcomePacketDelay >= TimeoutDelay

\* Mutant: the timeout runs from GetTime_ms() = 0, not from the last chunk.
TimedOutByUptime == uptime + OutcomePacketDelay >= TimeoutDelay

TimedOut == sinceOut + OutcomePacketDelay >= TimeoutDelay

(* What StreamOutEmpty() answers (external), if there is one to ask.       *)
StreamSaysEmpty == StreamOutEmpty /\ pending = 0

(* Line 167 is reached: no wait for the stream, or it is over; and then    *)
(* the value of TxEmpty, line 164 included.                                *)
Released == ~Waiting \/ (~TimedOut /\ StreamSaysEmpty)
TxIsEmpty == TxEmpty \/ Waiting

PacketSize == Smaller(output.size, MaxPacketSize)

\* Mutant: a synchronous WritePacket loops until UOP_OK.
ReturnOnlyOk(state) ==
    /\ ret' = state
    /\ StreamWriteRunning' = (state = "RUNNING")
    /\ blocked' = (blocked /\ state # "OK")

Return(state) ==
    /\ ret' = state
    /\ StreamWriteRunning' = (state = "RUNNING")
    /\ blocked' = (blocked /\ state = "RUNNING")

(* Leave with the flags as given and without touching the stream.          *)
Leave(txEmpty, delayWait, streamWait, state) ==
    /\ TxEmpty' = txEmpty
    /\ OutcomePacketDelayWait' = delayWait
    /\ WriteStreamWait' = streamWait
    /\ Return(state)
    /\ UNCHANGED <<settings, output, pc, chunk, clocks, stream>>

PollNotRunning ==
    /\ pc = "idle" /\ ~StreamWriteRunning
    /\ Leave(TxEmpty, OutcomePacketDelayWait, WriteStreamWait, "OK")

PollInDelay ==
    /\ Polling /\ InDelay
    /\ Leave(TxEmpty, TRUE, WriteStreamWait, "RUNNING")

\* Mutant: a timeout resets TxEmpty with the other flags.
PollTimeoutForgets ==
    /\ Polling /\ ~InDelay /\ Waiting /\ TimedOut
    /\ Leave(TRUE, FALSE, FALSE, "WRITE_TIMEOUT")

PollTimeout ==
    /\ Polling /\ ~InDelay /\ Waiting /\ TimedOut
    /\ Leave(TxEmpty, FALSE, FALSE, "WRITE_TIMEOUT")

PollStreamBusy ==
    /\ Polling /\ ~InDelay /\ Waiting /\ ~TimedOut /\ ~StreamSaysEmpty
    /\ Leave(TxEmpty, FALSE, WriteStreamWait, "RUNNING")

\* Mutant: the wait is not cleared when the pause starts.
PollStartDelayStillWaits ==
    /\ Polling /\ ~InDelay /\ Released
    /\ WriteStreamWait /\ OutcomePacketDelay > 0
    /\ Leave(TxIsEmpty, TRUE, TRUE, "RUNNING")

(* The chunk is out: start the pause that follows it.                      *)
PollStartDelay ==
    /\ Polling /\ ~InDelay /\ Released
    /\ WriteStreamWait /\ OutcomePacketDelay > 0
    /\ Leave(TxIsEmpty, TRUE, FALSE, "RUNNING")

(* Past line 173: neither a wait nor a pause is left.                      *)
MaySend ==
    /\ Polling /\ ~InDelay /\ Released
    /\ ~(WriteStreamWait /\ OutcomePacketDelay > 0)

PollComplete ==
    /\ MaySend /\ TxIsEmpty /\ PacketSize = 0
    /\ Leave(TRUE, FALSE, FALSE, "OK")

(* A chunk of an earlier packet is still out: wait for it.                 *)
PollTxBusy ==
    /\ MaySend /\ ~TxIsEmpty
    /\ Leave(FALSE, FALSE, TRUE, "RUNNING")

(* StreamWrite takes n bytes of the chunk it is offered (external).        *)
StreamWriteTakes(n) ==
    /\ IF n > 0 THEN pending < Depth ELSE pending > 0 \/ RefuseWhenIdle
    /\ pending' = IF n > 0 THEN pending + 1 ELSE pending
    /\ sent' = sent \o SubSeq(output.buffer, output.read_pos + 1,
                              output.read_pos + n)

PollStreamWrite(n) ==
    /\ MaySend /\ TxIsEmpty /\ StreamWrite
    /\ n \in 0..PacketSize /\ PacketSize > 0
    /\ OutcomePacketDelayWait' = FALSE
    /\ TxEmpty' = ~(TxCompleteUse \/ StreamOutEmpty)
    /\ WriteStreamWait' = TRUE
    /\ pc' = "StreamWrite"
    /\ chunk' = n
    /\ StreamWriteTakes(n)
    /\ UNCHANGED <<settings, StreamWriteRunning, output, blocked, ret, clocks,
                   irq>>

(* Line 182 with a pointer that SetStreamWriteFunc has set to NULL in the   *)
(* middle of the packet.  Nothing is known of what follows: the model      *)
(* stops.                                                                  *)
PollCallsNull ==
    /\ MaySend /\ TxIsEmpty /\ ~StreamWrite
    /\ PacketSize > 0
    /\ pc' = "undefined"
    /\ UNCHANGED <<settings, flags, output, chunk, blocked, ret, clocks, stream>>

\* Mutants: a short write counts as a whole chunk; the last byte ends the
\* packet without its pause, or any chunk ends it when there is no pause.
OutputAdvancedByOffer ==
    [output EXCEPT !.read_pos = @ + PacketSize, !.size = @ - PacketSize]
OutOnLastByte == output.size = chunk
OutOnNoDelay == OutcomePacketDelay = 0

OutputAdvanced ==
    [output EXCEPT !.read_pos = @ + chunk, !.size = @ - chunk]
OutAtOnce == output.size = chunk /\ OutcomePacketDelay = 0

(* StreamWrite returns: the rest of the call, TxEmpty ending as given.     *)
ReturnFromStreamWrite(txEmpty) ==
    /\ pc = "StreamWrite"
    /\ pc' = "idle"
    /\ output' = OutputAdvanced
    /\ sinceOut' = IF chunk > 0 THEN 0 ELSE sinceOut
    /\ quiet' = IF chunk > 0 THEN 0 ELSE quiet
    /\ TxEmpty' = txEmpty
    /\ Return(IF OutAtOnce THEN "OK" ELSE "RUNNING")
    /\ UNCHANGED <<settings, OutcomePacketDelayWait, WriteStreamWait, chunk,
                   uptime, stream>>

\* Mutant: TxEmpty is cleared after the call instead of before it.
StreamWriteReturnsThenClears ==
    ReturnFromStreamWrite(~(TxCompleteUse \/ StreamOutEmpty))

StreamWriteReturns == ReturnFromStreamWrite(TxEmpty)

Poll ==
    \/ PollNotRunning
    \/ PollInDelay
    \/ PollTimeout
    \/ PollStreamBusy
    \/ PollStartDelay
    \/ PollComplete
    \/ PollTxBusy
    \/ \E n \in 0..PacketSize : PollStreamWrite(n)
    \/ PollCallsNull

-----------------------------------------------------------------------------
(* A chunk leaves the stream (external); the integrator who turned on      *)
(* TxCompleteUse has wired the completion interrupt to TxComplete.         *)
StreamDrains ==
    /\ pending > 0
    /\ pending' = pending - 1
    /\ irq' = (irq \/ TxCompleteUse)
    /\ UNCHANGED <<settings, flags, output, call, clocks, sent>>

\* Mutant: a completion that comes with no packet in progress is dropped.
TxCompleteWhileRunning ==
    /\ irq
    /\ irq' = FALSE
    /\ TxEmpty' = (TxEmpty \/ StreamWriteRunning)
    /\ UNCHANGED <<settings, StreamWriteRunning, OutcomePacketDelayWait,
                   WriteStreamWait, output, call, clocks, pending, sent>>

TxComplete ==
    /\ irq
    /\ irq' = FALSE
    /\ TxEmpty' = TRUE
    /\ UNCHANGED <<settings, StreamWriteRunning, OutcomePacketDelayWait,
                   WriteStreamWait, output, call, clocks, pending, sent>>

(* One millisecond passes.                                                 *)
Advance(clock) == Smaller(clock + 1, Horizon)

Tick ==
    /\ uptime < Horizon \/ sinceOut < Horizon \/ quiet < Horizon
    /\ uptime' = Advance(uptime)
    /\ sinceOut' = Advance(sinceOut)
    /\ quiet' = Advance(quiet)
    /\ UNCHANGED <<settings, flags, output, call, stream>>

Next ==
    /\ pc # "undefined"
    /\ \/ \E packet \in Packets, async \in BOOLEAN :
              WritePacketAccepted(packet, async)
       \/ WritePacketRefused
       \/ Poll
       \/ StreamWriteReturns
       \/ StreamDrains
       \/ TxComplete
       \/ Tick

(* All settings are made before the first packet.                          *)
Spec == Init /\ [][Next]_vars

-----------------------------------------------------------------------------
(* The settings calls: the code lets them come at any time, TxComplete-    *)
(* Enable and -Disable from the driver, the others from the UOP side.      *)
TxCompleteSwitch(use) ==
    /\ TxCompleteUse' = use
    /\ TxEmpty' = TRUE
    /\ UNCHANGED <<StreamWrite, StreamOutEmpty, MaxPacketSize,
                   OutcomePacketDelay, TimeoutDelay, StreamWriteRunning,
                   OutcomePacketDelayWait, WriteStreamWait, output, call,
                   clocks, stream>>

TxCompleteEnable == TxCompleteSwitch(TRUE)
TxCompleteDisable == TxCompleteSwitch(FALSE)

SetStreamWriteFunc ==
    /\ StreamWrite' \in BOOLEAN
    /\ UNCHANGED <<StreamOutEmpty, TxCompleteUse, MaxPacketSize,
                   OutcomePacketDelay, TimeoutDelay>>

SetStreamOutEmptyFunc ==
    /\ StreamOutEmpty' \in BOOLEAN
    /\ UNCHANGED <<StreamWrite, TxCompleteUse, MaxPacketSize,
                   OutcomePacketDelay, TimeoutDelay>>

SetMaxPacketSize ==
    /\ MaxPacketSize' \in MaxPacketSizes
    /\ UNCHANGED <<StreamWrite, StreamOutEmpty, TxCompleteUse,
                   OutcomePacketDelay, TimeoutDelay>>

SetTimeoutDelay ==
    /\ TimeoutDelay' \in TimeoutDelays
    /\ UNCHANGED <<StreamWrite, StreamOutEmpty, TxCompleteUse, MaxPacketSize,
                   OutcomePacketDelay>>

SetOutcomePacketDelay ==
    /\ OutcomePacketDelay' \in OutcomePacketDelays
    /\ UNCHANGED <<StreamWrite, StreamOutEmpty, TxCompleteUse, MaxPacketSize,
                   TimeoutDelay>>

Set ==
    /\ CanCall
    /\ \/ SetStreamWriteFunc
       \/ SetStreamOutEmptyFunc
       \/ SetMaxPacketSize
       \/ SetTimeoutDelay
       \/ SetOutcomePacketDelay
    /\ UNCHANGED <<flags, output, call, clocks, stream>>

ReconfigureNext ==
    \/ Next
    \/ pc # "undefined" /\ (TxCompleteEnable \/ TxCompleteDisable \/ Set)

ReconfigureSpec == Init /\ [][ReconfigureNext]_vars

-----------------------------------------------------------------------------
(* Fairness.  The do-while of a synchronous WritePacket keeps calling      *)
(* WritePacketAsync, a StreamWrite call returns, and the clock runs.       *)
SchedulerFairness ==
    /\ WF_vars(blocked /\ Poll)
    /\ WF_vars(StreamWriteReturns)
    /\ WF_vars(Tick)

(* A stream that works: chunks drain, completions are signalled, and a     *)
(* driver offered bytes again and again takes some.                        *)
StreamFairness ==
    /\ WF_vars(StreamDrains)
    /\ WF_vars(TxComplete)
    /\ SF_vars(\E n \in 1..PacketSize : PollStreamWrite(n))

(* An application that sends packets forever and polls them to the end, as *)
(* the loop of UOP_Test.cpp does.                                          *)
ApplicationFairness ==
    /\ WF_vars(Poll)
    /\ WF_vars(\E packet \in Packets :
                  packet # <<>> /\ WritePacketAccepted(packet, TRUE))

SchedulerSpec == Spec /\ SchedulerFairness
BusySpec == SchedulerSpec /\ StreamFairness /\ ApplicationFairness

-----------------------------------------------------------------------------
(* Every variable has its type, and the flags their meaning: a pause or a  *)
(* StreamWrite call belongs to a packet in progress.                       *)
TypeOK ==
    /\ StreamWrite \in BOOLEAN
    /\ StreamOutEmpty \in BOOLEAN
    /\ TxCompleteUse \in BOOLEAN
    /\ MaxPacketSize \in MaxPacketSizes
    /\ OutcomePacketDelay \in OutcomePacketDelays
    /\ TimeoutDelay \in TimeoutDelays
    /\ TxEmpty \in BOOLEAN
    /\ StreamWriteRunning \in BOOLEAN
    /\ OutcomePacketDelayWait \in BOOLEAN
    /\ WriteStreamWait \in BOOLEAN
    /\ output \in [buffer : Seq(Byte), size : Nat, read_pos : Nat]
    /\ pc \in {"idle", "StreamWrite", "undefined"}
    /\ chunk \in Nat
    /\ blocked \in BOOLEAN
    /\ ret \in StateType
    /\ uptime \in 0..Horizon
    /\ sinceOut \in 0..Horizon
    /\ pending \in 0..Depth
    /\ irq \in BOOLEAN
    /\ sent \in Seq(Byte)
    /\ quiet \in 0..Horizon
    /\ OutcomePacketDelayWait \/ blocked \/ pc = "StreamWrite"
          => StreamWriteRunning
    /\ pc = "StreamWrite" => ~OutcomePacketDelayWait /\ chunk <= output.size

(* What the stream has been given is exactly the part of the packet that   *)
(* read_pos and the call in progress account for: in order, nothing twice, *)
(* nothing skipped, whatever chunk sizes StreamWrite returns and whatever  *)
(* calls arrive while it runs.                                             *)
DeliveredPrefix ==
    LET taken == output.read_pos + (IF pc = "StreamWrite" THEN chunk ELSE 0)
    IN  /\ output.read_pos + output.size = Len(output.buffer)
        /\ sent = SubSeq(output.buffer, 1, taken)

(* A packet that ends with UOP_OK has been taken by the stream to its last *)
(* byte; with UOP_WRITE_TIMEOUT its last chunk is unconfirmed.  A chunk    *)
(* size of 0 set by SetMaxPacketSize is the exception: packet_size is then *)
(* 0 and the packet ends at once.                                          *)
EndIsReported ==
    [][StreamWriteRunning /\ ~StreamWriteRunning' =>
          \/ ret' = "OK" /\ (sent = output.buffer \/ MaxPacketSize = 0)
          \/ ret' = "WRITE_TIMEOUT" /\ ~TxEmpty]_vars

(* With one source of completions, TxComplete or StreamOutEmpty, a chunk   *)
(* is handed over only when the previous one is out - across packets and   *)
(* timeouts too.  Depth > 1 makes a second chunk possible.                 *)
OneChunkInFlight ==
    TxCompleteUse # StreamOutEmpty => pending <= 1

(* With both, a chunk that StreamOutEmpty has reported out may be reported *)
(* again by its TxComplete, which then counts for the chunk behind it.     *)
(* However long that goes on, the adapter is ahead by one chunk only.      *)
TwoChunksAtMost ==
    TxCompleteUse /\ StreamOutEmpty => pending <= 2

(* No completion is lost: while the adapter waits for TxComplete, a chunk  *)
(* is still out or its interrupt is due, unless StreamWrite took nothing.  *)
(* TxComplete may be called before StreamWrite returns.                    *)
NoLostCompletion ==
    TxCompleteUse /\ ~StreamOutEmpty /\ ~TxEmpty
        => pending > 0 \/ irq \/ chunk = 0

(* Chunks are OutcomePacketDelay apart, across packets too: LastOutcome-   *)
(* Time is zeroed by each new packet, so the pause must have been served   *)
(* by the packet before.  After a timeout the gap is that of the timeout.  *)
ChunksArePaced ==
    [][pc = "idle" /\ pc' = "StreamWrite" =>
          \/ quiet >= OutcomePacketDelay
          \/ quiet + OutcomePacketDelay >= TimeoutDelay]_vars

(* A packet of which bytes are out is given up only when the stream has    *)
(* been silent for TimeoutDelay (less the pause the code adds).            *)
TimeoutNotPremature ==
    [][ret' = "WRITE_TIMEOUT" /\ StreamWriteRunning /\ ~StreamWriteRunning'
          => output.read_pos = 0
             \/ quiet + OutcomePacketDelay >= TimeoutDelay]_vars

(* A synchronous WritePacket returns, if the stream works.                 *)
WritePacketReturns == StreamFairness => (blocked ~> ~blocked)

(* With TxComplete as the only source of completions it returns whatever   *)
(* the stream does: a chunk that never completes ends in a timeout.        *)
WritePacketReturnsAnyway ==
    [](TxCompleteUse /\ ~StreamOutEmpty) => (blocked ~> ~blocked)

(* Bytes keep going out if the application keeps sending and the stream    *)
(* works: no timeout wedges the adapter.                                   *)
StreamRecovers == StreamWrite /\ MaxPacketSize > 0 => []<>(sent # <<>>)

(* So it is without StreamOutEmpty, for a driver that refuses bytes only   *)
(* while it holds some: the late TxComplete of a timed-out chunk restarts  *)
(* it.                                                                     *)
RefusesOnlyWhenBusy ==
    pc = "StreamWrite" /\ chunk = 0 => pending > 0 \/ irq \/ TxEmpty

StreamRecoversByTxComplete ==
    StreamFairness /\ ApplicationFairness /\ []RefusesOnlyWhenBusy
        => (~StreamOutEmpty => StreamRecovers)

-----------------------------------------------------------------------------
(* The adapter implements the abstract sender, settings calls included.    *)
Sender == INSTANCE UOP_PacketSender
            WITH running <- StreamWriteRunning, packet <- output.buffer

SenderSpec == Sender!Spec

=============================================================================
