------------------------ MODULE UOP_AdapterTx_proofs ------------------------
(***************************************************************************)
(* Proofs about UOP_AdapterTx, for every value of its constants.  What the *)
(* settings calls cannot break is proved of ReconfigureSpec, which allows  *)
(* every behaviour of Spec; flow control and pacing, at the end, of Spec.  *)
(***************************************************************************)
EXTENDS UOP_AdapterTx, SequenceTheorems, TLAPS

(* Inductive invariant: the types, and the account of the packet's bytes,  *)
(* on which the type of sent depends.                                      *)
Inv == TypeOK /\ DeliveredPrefix

-----------------------------------------------------------------------------
(* Two adjacent pieces of a packet make one.                               *)
LEMMA TakeMore ==
    ASSUME NEW S, NEW s \in Seq(S), NEW m \in Nat, NEW n \in Nat,
           m + n <= Len(s)
    PROVE  /\ SubSeq(s, 1, m) \o SubSeq(s, m + 1, m + n) = SubSeq(s, 1, m + n)
           /\ SubSeq(s, 1, m + n) \in Seq(S)
  <1>1. Len(s) \in Nat
    BY LenProperties
  <1>2. /\ 1 \in 1..Len(s) + 1
        /\ m \in 1 - 1..Len(s)
        /\ m + n \in m..Len(s)
    BY <1>1
  <1>3. SubSeq(s, 1, m) \o SubSeq(s, m + 1, m + n) = SubSeq(s, 1, m + n)
    BY <1>2, ConcatAdjacentSubSeq
  <1>4. \A i \in 1..m + n : s[i] \in S
    BY <1>1, ElementOfSeq
  <1>5. SubSeq(s, 1, m + n) \in Seq(S)
    BY <1>4, SubSeqProperties
  <1> QED
    BY <1>3, <1>5

LEMMA InitInv == Init => Inv
  <1> SUFFICES ASSUME Init PROVE Inv
    OBVIOUS
  <1>1. TypeOK
    <2>1. <<>> \in Seq(Byte)
      BY EmptySeq
    <2>2. /\ output \in [buffer : Seq(Byte), size : Nat, read_pos : Nat]
          /\ sent \in Seq(Byte)
      BY <2>1 DEF Init
    <2>3. /\ uptime \in 0..Horizon /\ sinceOut \in 0..Horizon
          /\ quiet \in 0..Horizon /\ pending \in 0..Depth
          /\ chunk \in Nat
      BY TxAssumption DEF Init
    <2>4. /\ TxEmpty \in BOOLEAN /\ StreamWriteRunning \in BOOLEAN
          /\ OutcomePacketDelayWait \in BOOLEAN /\ WriteStreamWait \in BOOLEAN
          /\ blocked \in BOOLEAN /\ irq \in BOOLEAN
          /\ ~OutcomePacketDelayWait /\ ~blocked
          /\ pc = "idle" /\ pc # "StreamWrite" /\ ret \in StateType
      BY DEF Init, StateType
    <2> QED
      BY <2>2, <2>3, <2>4 DEF Init, TypeOK
  <1>2. SubSeq(<<>>, 1, 0) = <<>>
    BY SubSeqEmpty
  <1>3. DeliveredPrefix
    BY <1>2 DEF Init, DeliveredPrefix
  <1> QED
    BY <1>1, <1>3 DEF Inv

-----------------------------------------------------------------------------
(* A poll that does not reach StreamWrite.                                 *)
LEMMA LeaveInv ==
    ASSUME Inv, pc = "idle",
           NEW t \in BOOLEAN, NEW d \in BOOLEAN, NEW w \in BOOLEAN,
           NEW state \in StateType, d => state = "RUNNING",
           Leave(t, d, w, state)
    PROVE  Inv'
  <1>1. TypeOK'
    BY DEF Inv, TypeOK, Leave, Return, settings, clocks, stream
  <1>2. DeliveredPrefix'
    BY DEF Inv, DeliveredPrefix, Leave, stream
  <1> QED
    BY <1>1, <1>2 DEF Inv

LEMMA WritePacketAcceptedInv ==
    ASSUME Inv, NEW packet \in Packets, NEW async \in BOOLEAN,
           WritePacketAccepted(packet, async)
    PROVE  Inv'
  <1>1. packet \in Seq(Byte) /\ Len(packet) \in Nat
    BY TxAssumption, LenProperties
  <1>2. pc # "StreamWrite"
    BY DEF Inv, TypeOK, WritePacketAccepted, Free
  <1>3. TypeOK'
    BY <1>1, <1>2 DEF Inv, TypeOK, WritePacketAccepted, Free, settings, StateType
  <1>4. SubSeq(packet, 1, 0) = <<>>
    BY SubSeqEmpty
  <1>5. DeliveredPrefix'
    BY <1>1, <1>2, <1>4 DEF DeliveredPrefix, WritePacketAccepted
  <1> QED
    BY <1>3, <1>5 DEF Inv

LEMMA PollStreamWriteInv ==
    ASSUME Inv, NEW n \in 0..PacketSize, PollStreamWrite(n)
    PROVE  Inv'
  <1>1. /\ pc = "idle" /\ StreamWriteRunning
        /\ pc' = "StreamWrite" /\ chunk' = n /\ output' = output
    BY DEF PollStreamWrite, MaySend, Polling
  <1>2. /\ output.buffer \in Seq(Byte)
        /\ output.size \in Nat /\ output.read_pos \in Nat
        /\ Len(output.buffer) \in Nat
        /\ MaxPacketSize \in Nat
    BY TxAssumption, LenProperties DEF Inv, TypeOK
  <1>3. n \in Nat /\ n <= output.size
    BY <1>2 DEF PacketSize, Smaller
  <1>4. /\ output.read_pos + output.size = Len(output.buffer)
        /\ sent = SubSeq(output.buffer, 1, output.read_pos)
    BY <1>1, <1>2 DEF Inv, DeliveredPrefix
  <1>5. /\ sent' = SubSeq(output.buffer, 1, output.read_pos + n)
        /\ sent' \in Seq(Byte)
    <2>1. sent' = sent \o SubSeq(output.buffer, output.read_pos + 1,
                                 output.read_pos + n)
      BY DEF PollStreamWrite, StreamWriteTakes
    <2>2. output.read_pos + n <= Len(output.buffer)
      BY <1>2, <1>3, <1>4
    <2> QED
      BY <1>2, <1>3, <1>4, <2>1, <2>2, TakeMore
  <1>6. DeliveredPrefix'
    BY <1>1, <1>4, <1>5 DEF DeliveredPrefix
  <1>7. pending' \in 0..Depth
    BY TxAssumption DEF Inv, TypeOK, PollStreamWrite, StreamWriteTakes
  <1>8. TypeOK'
    BY <1>1, <1>3, <1>5, <1>7 DEF Inv, TypeOK, PollStreamWrite, settings, clocks
  <1> QED
    BY <1>6, <1>8 DEF Inv

LEMMA StreamWriteReturnsInv ==
    ASSUME Inv, StreamWriteReturns
    PROVE  Inv'
  <1> USE DEF StreamWriteReturns, ReturnFromStreamWrite
  <1>1. /\ output' = [output EXCEPT !.read_pos = @ + chunk, !.size = @ - chunk]
        /\ pc' = "idle" /\ pc = "StreamWrite" /\ sent' = sent
    BY DEF OutputAdvanced, stream
  <1>2. /\ output \in [buffer : Seq(Byte), size : Nat, read_pos : Nat]
        /\ chunk \in Nat /\ chunk <= output.size
    BY <1>1 DEF Inv, TypeOK
  <1>3. /\ output'.buffer = output.buffer
        /\ output'.size = output.size - chunk
        /\ output'.read_pos = output.read_pos + chunk
        /\ output' \in [buffer : Seq(Byte), size : Nat, read_pos : Nat]
    <2> DEFINE size == output.size - chunk
               read_pos == output.read_pos + chunk
    <2>1. size \in Nat /\ read_pos \in Nat
      BY <1>2
    <2>2. output' = [buffer |-> output.buffer, size |-> size,
                     read_pos |-> read_pos]
      BY <1>1, <1>2
    <2> HIDE DEF size, read_pos
    <2>3. /\ output'.buffer = output.buffer
          /\ output'.size = size /\ output'.read_pos = read_pos
      BY <2>2
    <2>4. output' \in [buffer : Seq(Byte), size : Nat, read_pos : Nat]
      BY <1>2, <2>1, <2>2
    <2> QED
      BY <2>3, <2>4 DEF size, read_pos
  <1>4. DeliveredPrefix'
    <2>1. Len(output.buffer) \in Nat
      BY <1>2, LenProperties
    <2> QED
      BY <1>1, <1>2, <1>3, <2>1 DEF Inv, DeliveredPrefix
  <1>5. /\ sinceOut' \in 0..Horizon
        /\ quiet' \in 0..Horizon
    BY TxAssumption DEF Inv, TypeOK
  <1>6. /\ StreamWriteRunning' \in BOOLEAN /\ blocked' \in BOOLEAN
        /\ ret' \in StateType
        /\ blocked' => StreamWriteRunning'
        /\ OutcomePacketDelayWait' = OutcomePacketDelayWait
        /\ ~OutcomePacketDelayWait' \/ StreamWriteRunning'
    BY DEF Inv, TypeOK, Return, StateType
  <1>7. TypeOK'
    BY <1>1, <1>3, <1>5, <1>6 DEF Inv, TypeOK, settings, stream
  <1> QED
    BY <1>4, <1>7 DEF Inv

(* Steps that leave the packet and the flags of its progress alone.        *)
LEMMA TickInv ==
    ASSUME Inv, Tick
    PROVE  Inv'
  <1>1. \A c \in 0..Horizon : Advance(c) \in 0..Horizon
    BY TxAssumption DEF Advance, Smaller
  <1>2. TypeOK'
    BY <1>1 DEF Inv, TypeOK, Tick, settings, flags, call, stream
  <1>3. DeliveredPrefix'
    BY DEF Inv, DeliveredPrefix, Tick, call, stream
  <1> QED
    BY <1>2, <1>3 DEF Inv

LEMMA StreamInv ==
    ASSUME Inv, StreamDrains \/ TxComplete
    PROVE  Inv'
  <1>1. CASE StreamDrains
    <2>1. TypeOK'
      BY <1>1, TxAssumption
      DEF Inv, TypeOK, StreamDrains, settings, flags, call, clocks
    <2>2. DeliveredPrefix'
      BY <1>1 DEF Inv, DeliveredPrefix, StreamDrains, call
    <2> QED
      BY <2>1, <2>2 DEF Inv
  <1>2. CASE TxComplete
    <2>1. TypeOK'
      BY <1>2 DEF Inv, TypeOK, TxComplete, settings, call, clocks
    <2>2. DeliveredPrefix'
      BY <1>2 DEF Inv, DeliveredPrefix, TxComplete, call
    <2> QED
      BY <2>1, <2>2 DEF Inv
  <1> QED
    BY <1>1, <1>2

LEMMA SettingsInv ==
    ASSUME Inv, TxCompleteEnable \/ TxCompleteDisable \/ Set
    PROVE  Inv'
  <1>1. ASSUME NEW use \in BOOLEAN, TxCompleteSwitch(use)
        PROVE  Inv'
    <2>1. TypeOK'
      BY <1>1 DEF Inv, TypeOK, TxCompleteSwitch, call, clocks, stream
    <2>2. DeliveredPrefix'
      BY <1>1 DEF Inv, DeliveredPrefix, TxCompleteSwitch, call, stream
    <2> QED
      BY <2>1, <2>2 DEF Inv
  <1>2. CASE Set
    <2>1. /\ StreamWrite' \in BOOLEAN /\ StreamOutEmpty' \in BOOLEAN
          /\ TxCompleteUse' \in BOOLEAN
          /\ MaxPacketSize' \in MaxPacketSizes
          /\ OutcomePacketDelay' \in OutcomePacketDelays
          /\ TimeoutDelay' \in TimeoutDelays
      BY <1>2 DEF Inv, TypeOK, Set, SetStreamWriteFunc, SetStreamOutEmptyFunc,
         SetMaxPacketSize, SetTimeoutDelay, SetOutcomePacketDelay
    <2>2. UNCHANGED <<flags, output, call, clocks, stream>>
      BY <1>2 DEF Set
    <2>3. TypeOK'
      BY <2>1, <2>2 DEF Inv, TypeOK, flags, call, clocks, stream
    <2>4. DeliveredPrefix'
      BY <2>2 DEF Inv, DeliveredPrefix, call, stream
    <2> QED
      BY <2>3, <2>4 DEF Inv
  <1> QED
    BY <1>1, <1>2 DEF TxCompleteEnable, TxCompleteDisable

LEMMA PollInv ==
    ASSUME Inv, Poll
    PROVE  Inv'
  <1>1. /\ TxEmpty \in BOOLEAN /\ TxIsEmpty \in BOOLEAN
        /\ OutcomePacketDelayWait \in BOOLEAN /\ WriteStreamWait \in BOOLEAN
        /\ {"OK", "RUNNING", "WRITE_TIMEOUT"} \subseteq StateType
    BY DEF Inv, TypeOK, TxIsEmpty, Waiting, StateType
  <1>2. CASE PollNotRunning
    <2>1. ~OutcomePacketDelayWait
      BY <1>2 DEF Inv, TypeOK, PollNotRunning
    <2> QED
      BY <1>1, <1>2, <2>1, LeaveInv DEF PollNotRunning
  <1>3. CASE PollInDelay
    BY <1>1, <1>3, LeaveInv DEF PollInDelay, Polling
  <1>4. CASE PollTimeout
    BY <1>1, <1>4, LeaveInv DEF PollTimeout, Polling
  <1>5. CASE PollStreamBusy
    BY <1>1, <1>5, LeaveInv DEF PollStreamBusy, Polling
  <1>6. CASE PollStartDelay
    BY <1>1, <1>6, LeaveInv DEF PollStartDelay, Polling
  <1>7. CASE PollComplete
    BY <1>1, <1>7, LeaveInv DEF PollComplete, MaySend, Polling
  <1>8. CASE PollTxBusy
    BY <1>1, <1>8, LeaveInv DEF PollTxBusy, MaySend, Polling
  <1>9. CASE \E n \in 0..PacketSize : PollStreamWrite(n)
    BY <1>9, PollStreamWriteInv
  <1>10. CASE PollCallsNull
    <2>1. pc = "idle" /\ pc' = "undefined"
          /\ UNCHANGED <<settings, flags, output, chunk, blocked, ret, clocks, stream>>
      BY <1>10 DEF PollCallsNull, MaySend, Polling
    <2>2. StreamWriteRunning
      BY <1>10 DEF PollCallsNull, MaySend, Polling
    <2>3. TypeOK'
      BY <2>1, <2>2 DEF Inv, TypeOK, settings, flags, clocks, stream
    <2>4. DeliveredPrefix'
      BY <2>1 DEF Inv, DeliveredPrefix, stream
    <2> QED
      BY <2>3, <2>4 DEF Inv
  <1> QED
    BY <1>2, <1>3, <1>4, <1>5, <1>6, <1>7, <1>8, <1>9, <1>10 DEF Poll

LEMMA StepInv == Inv /\ [ReconfigureNext]_vars => Inv'
  <1> SUFFICES ASSUME Inv, [ReconfigureNext]_vars PROVE Inv'
    OBVIOUS
  <1>1. CASE \E packet \in Packets, async \in BOOLEAN :
                WritePacketAccepted(packet, async)
    BY <1>1, WritePacketAcceptedInv
  <1>2. CASE WritePacketRefused
    <2>1. TypeOK'
      BY <1>2 DEF Inv, TypeOK, WritePacketRefused, settings, flags, clocks,
         stream, StateType
    <2>2. DeliveredPrefix'
      BY <1>2 DEF Inv, DeliveredPrefix, WritePacketRefused, stream
    <2> QED
      BY <2>1, <2>2 DEF Inv
  <1>3. CASE Poll
    BY <1>3, PollInv
  <1>4. CASE StreamWriteReturns
    BY <1>4, StreamWriteReturnsInv
  <1>5. CASE StreamDrains \/ TxComplete
    BY <1>5, StreamInv
  <1>6. CASE Tick
    BY <1>6, TickInv
  <1>7. CASE TxCompleteEnable \/ TxCompleteDisable \/ Set
    BY <1>7, SettingsInv
  <1>8. CASE UNCHANGED vars
    <2>1. TypeOK'
      BY <1>8 DEF Inv, TypeOK, vars, settings, flags, call, clocks, stream
    <2>2. DeliveredPrefix'
      BY <1>8 DEF Inv, DeliveredPrefix, vars, call, stream
    <2> QED
      BY <2>1, <2>2 DEF Inv
  <1> QED
    BY <1>1, <1>2, <1>3, <1>4, <1>5, <1>6, <1>7, <1>8 DEF ReconfigureNext, Next

(* Whatever settings calls are made, every variable keeps its type.        *)
THEOREM TypeCorrect == ReconfigureSpec => []TypeOK
  <1>1. Inv => TypeOK
    BY DEF Inv
  <1> QED
    BY <1>1, InitInv, StepInv, PTL DEF ReconfigureSpec

(* Whatever settings calls are made, the stream has been given exactly the *)
(* bytes of the packet that read_pos and the call in progress account for. *)
THEOREM Delivered == ReconfigureSpec => []DeliveredPrefix
  <1>1. Inv => DeliveredPrefix
    BY DEF Inv
  <1> QED
    BY <1>1, InitInv, StepInv, PTL DEF ReconfigureSpec

-----------------------------------------------------------------------------
(* What the stream has been given when the account closes.                 *)
LEMMA AllSent ==
    ASSUME Inv,
           \/ pc = "idle" /\ output.size = 0
           \/ pc = "StreamWrite" /\ output.size = chunk
    PROVE  sent = output.buffer
  <1>1. /\ output.buffer \in Seq(Byte)
        /\ output.size \in Nat /\ output.read_pos \in Nat /\ chunk \in Nat
    BY DEF Inv, TypeOK
  <1>2. /\ output.read_pos + output.size = Len(output.buffer)
        /\ sent = SubSeq(output.buffer, 1,
                      output.read_pos + (IF pc = "StreamWrite" THEN chunk ELSE 0))
    BY DEF Inv, DeliveredPrefix
  <1>3. sent = SubSeq(output.buffer, 1, Len(output.buffer))
    BY <1>1, <1>2
  <1> QED
    BY <1>1, <1>3, SubSeqFull

(* The three ways a packet ends.                                           *)
LEMMA EndStep ==
    ASSUME Inv, ReconfigureNext, StreamWriteRunning, ~StreamWriteRunning'
    PROVE  \/ PollTimeout /\ ret' = "WRITE_TIMEOUT" /\ ~TxEmpty
           \/ PollComplete /\ ret' = "OK" /\ (output.size = 0 \/ MaxPacketSize = 0)
           \/ StreamWriteReturns /\ ret' = "OK" /\ output.size = chunk
  <1>1. CASE PollTimeout
    BY <1>1 DEF PollTimeout, Leave, Return, Waiting
  <1>2. CASE PollComplete
    BY <1>2 DEF PollComplete, PacketSize, Smaller, Leave, Return
  <1>3. CASE StreamWriteReturns
    BY <1>3 DEF StreamWriteReturns, ReturnFromStreamWrite, Return, OutAtOnce
  <1>4. ASSUME NEW t, NEW d, NEW w, Leave(t, d, w, "RUNNING")
        PROVE  FALSE
    BY <1>4 DEF Leave, Return
  <1>5. ~ \/ PollNotRunning \/ PollInDelay \/ PollStreamBusy
          \/ PollStartDelay \/ PollTxBusy
          \/ \E n \in 0..PacketSize : PollStreamWrite(n)
          \/ PollCallsNull
    BY <1>4 DEF PollNotRunning, PollInDelay, PollStreamBusy, PollStartDelay,
       PollTxBusy, PollStreamWrite, PollCallsNull, flags
  <1>6. ~ \/ \E packet \in Packets, async \in BOOLEAN :
                WritePacketAccepted(packet, async)
          \/ WritePacketRefused
          \/ StreamDrains
          \/ TxComplete
          \/ Tick
    BY DEF WritePacketAccepted, WritePacketRefused, StreamDrains, TxComplete,
       Tick, flags
  <1>7. ~(TxCompleteEnable \/ TxCompleteDisable \/ Set)
    BY DEF TxCompleteEnable, TxCompleteDisable, TxCompleteSwitch, Set, flags
  <1> QED
    BY <1>1, <1>2, <1>3, <1>5, <1>6, <1>7 DEF ReconfigureNext, Next, Poll

(* Whatever settings calls are made, a packet that ends with UOP_OK is out *)
(* (but for a chunk size of 0), and one that ends otherwise has timed out  *)
(* with its last chunk unconfirmed.                                        *)
THEOREM EndReported == ReconfigureSpec => EndIsReported
  <1> DEFINE End == StreamWriteRunning /\ ~StreamWriteRunning' =>
                      \/ ret' = "OK" /\ (sent = output.buffer \/ MaxPacketSize = 0)
                      \/ ret' = "WRITE_TIMEOUT" /\ ~TxEmpty
  <1>1. ASSUME Inv, [ReconfigureNext]_vars
        PROVE  [End]_vars
    <2> SUFFICES ASSUME ReconfigureNext, StreamWriteRunning, ~StreamWriteRunning'
                 PROVE  \/ ret' = "OK" /\ (sent = output.buffer \/ MaxPacketSize = 0)
                        \/ ret' = "WRITE_TIMEOUT" /\ ~TxEmpty
      BY <1>1
    <2>1. PollComplete => pc = "idle"
      BY DEF PollComplete, MaySend, Polling
    <2>2. StreamWriteReturns => pc = "StreamWrite"
      BY DEF StreamWriteReturns, ReturnFromStreamWrite
    <2> QED
      BY <1>1, <2>1, <2>2, EndStep, AllSent
  <1> QED
    BY <1>1, InitInv, StepInv, PTL DEF ReconfigureSpec, EndIsReported

-----------------------------------------------------------------------------
(* The steps of the adapter are steps of the abstract sender.              *)
LEMMA StreamWriteIsTransfer ==
    ASSUME Inv, NEW n \in 0..PacketSize, PollStreamWrite(n)
    PROVE  Sender!Transfer
  <1>1. /\ StreamWriteRunning /\ pc = "idle"
        /\ pc' = "StreamWrite" /\ chunk' = n /\ output' = output
        /\ UNCHANGED <<StreamWriteRunning, ret>>
    BY DEF PollStreamWrite, MaySend, Polling
  <1>2. /\ output.buffer \in Seq(Byte) /\ Len(output.buffer) \in Nat
        /\ output.size \in Nat /\ output.read_pos \in Nat
        /\ MaxPacketSize \in Nat
    BY TxAssumption, LenProperties DEF Inv, TypeOK
  <1>3. n \in Nat /\ n <= output.size
    BY <1>2 DEF PacketSize, Smaller
  <1>4. /\ output.read_pos + output.size = Len(output.buffer)
        /\ sent = SubSeq(output.buffer, 1, output.read_pos)
    BY <1>1, <1>2 DEF Inv, DeliveredPrefix
  <1>5. sent' = SubSeq(output.buffer, 1, output.read_pos + n)
    BY <1>1, PollStreamWriteInv DEF Inv, DeliveredPrefix
  <1>6. Len(sent) = output.read_pos
    <2>1. \A i \in 1..output.read_pos : output.buffer[i] \in Byte
      BY <1>2, <1>4, ElementOfSeq
    <2> QED
      BY <1>2, <1>4, <2>1, SubSeqProperties
  <1>7. output.read_pos + n \in Len(sent)..Len(output.buffer)
    BY <1>2, <1>3, <1>4, <1>6
  <1> QED
    BY <1>1, <1>5, <1>7 DEF Sender!Transfer

LEMMA StepIsSenderStep ==
    ASSUME 0 \notin MaxPacketSizes, Inv, [ReconfigureNext]_vars
    PROVE  [Sender!Next]_(Sender!vars)
  <1> USE DEF Sender!Next, Sender!vars
  <1>1. CASE \E packet \in Packets, async \in BOOLEAN :
                WritePacketAccepted(packet, async)
    <2>1. PICK packet \in Packets, async \in BOOLEAN :
                WritePacketAccepted(packet, async)
      BY <1>1
    <2>2. Sender!Accept(packet)
      BY <2>1 DEF WritePacketAccepted, Free, Sender!Accept
    <2> QED
      BY <2>2
  <1>2. CASE WritePacketRefused
    BY <1>2 DEF WritePacketRefused, Free, flags, stream, Sender!Refuse
  <1>3. CASE PollNotRunning
    <2>1. StreamWriteRunning = FALSE /\ StreamWriteRunning' = FALSE
      BY <1>3 DEF PollNotRunning, Leave, Return, Inv, TypeOK
    <2> QED
      BY <1>3, <2>1 DEF PollNotRunning, Leave, Return, stream, Sender!Query
  <1>4. ASSUME NEW t, NEW d, NEW w, Polling, Leave(t, d, w, "RUNNING")
        PROVE  Sender!Progress
    BY <1>4 DEF Polling, Leave, Return, Inv, TypeOK, stream, Sender!Progress
  <1>5. CASE PollInDelay \/ PollStreamBusy \/ PollStartDelay \/ PollTxBusy
    BY <1>4, <1>5 DEF PollInDelay, PollStreamBusy, PollStartDelay, PollTxBusy,
       MaySend
  <1>6. CASE PollTimeout
    BY <1>6 DEF PollTimeout, Polling, Leave, Return, stream, Sender!GiveUp
  <1>7. CASE PollComplete
    <2>1. output.size = 0 /\ pc = "idle"
      BY <1>7 DEF PollComplete, MaySend, Polling, PacketSize, Smaller,
         Inv, TypeOK
    <2>2. sent = output.buffer
      BY <2>1, AllSent
    <2> QED
      BY <1>7, <2>2 DEF PollComplete, MaySend, Polling, Leave, Return, stream,
         Sender!Complete
  <1>8. CASE \E n \in 0..PacketSize : PollStreamWrite(n)
    BY <1>8, StreamWriteIsTransfer
  <1>9. CASE StreamWriteReturns
    <2>1. /\ pc = "StreamWrite" /\ StreamWriteRunning
          /\ output'.buffer = output.buffer /\ sent' = sent
      BY <1>9 DEF StreamWriteReturns, ReturnFromStreamWrite, OutputAdvanced,
         stream, Inv, TypeOK
    <2>2. CASE OutAtOnce
      <3>1. sent = output.buffer
        BY <2>1, <2>2, AllSent DEF OutAtOnce
      <3> QED
        BY <1>9, <2>1, <2>2, <3>1 DEF StreamWriteReturns, ReturnFromStreamWrite,
           Return, Sender!Complete
    <2>3. CASE ~OutAtOnce
      BY <1>9, <2>1, <2>3 DEF StreamWriteReturns, ReturnFromStreamWrite,
         Return, Sender!Progress
    <2> QED
      BY <2>2, <2>3
  <1>10. CASE \/ StreamDrains \/ TxComplete \/ Tick \/ UNCHANGED vars
              \/ PollCallsNull \/ TxCompleteEnable \/ TxCompleteDisable \/ Set
    <2>1. UNCHANGED <<StreamWriteRunning, output, sent, ret>>
      BY <1>10 DEF StreamDrains, TxComplete, Tick, PollCallsNull, TxCompleteEnable,
         TxCompleteDisable, TxCompleteSwitch, Set, vars, flags, call, stream
    <2> QED
      BY <2>1
  <1> QED
    BY <1>1, <1>2, <1>3, <1>5, <1>6, <1>7, <1>8, <1>9, <1>10
    DEF ReconfigureNext, Next, Poll

(* With chunk sizes other than 0 the adapter implements the abstract       *)
(* sender: one packet at a time, its bytes in order, OK only when all of   *)
(* them are out, whatever settings calls are made.                         *)
THEOREM ImplementsSender ==
    ASSUME 0 \notin MaxPacketSizes
    PROVE  ReconfigureSpec => SenderSpec
  <1>1. Init => Sender!Init
    BY DEF Init, Sender!Init
  <1> QED
    BY <1>1, InitInv, StepInv, StepIsSenderStep, PTL
    DEF ReconfigureSpec, SenderSpec, Sender!Spec

-----------------------------------------------------------------------------
(* Flow control and pacing.  What follows is of Spec: a settings call in   *)
(* the middle of a packet sets TxEmpty, or changes the delays, and these   *)
(* properties are not about that.                                          *)

(* Inductive invariant of flow control.  OneSource: with one source of     *)
(* completions TxEmpty means that no chunk is out and none is being        *)
(* reported, and a chunk is not out and reported at once.  TwoSources:     *)
(* with both a chunk in the stream, a report that is due and the leave to  *)
(* send the next are two things together at most.                          *)
OneSource ==
    /\ irq => TxCompleteUse
    /\ TxCompleteUse # StreamOutEmpty =>
          /\ pending <= 1
          /\ TxEmpty => pending = 0 /\ ~irq
          /\ irq => pending = 0

TwoSources ==
    TxCompleteUse /\ StreamOutEmpty =>
        /\ pending <= 2
        /\ TxEmpty \/ irq => pending <= 1
        /\ TxEmpty /\ irq => pending = 0

FlowInv == OneSource /\ TwoSources /\ NoLostCompletion

(* Inductive invariant of pacing: while bytes of the packet are out        *)
(* LastOutcomeTime is the time of the last chunk; a packet with neither a  *)
(* wait nor a pause behind it has sent nothing; and whoever sends nothing  *)
(* may do so at once.                                                      *)
Served == quiet >= OutcomePacketDelay \/ quiet + OutcomePacketDelay >= TimeoutDelay

PaceInv ==
    /\ StreamWriteRunning /\ output.read_pos > 0 => sinceOut = quiet
    /\ pc = "StreamWrite" => WriteStreamWait
    /\ /\ StreamWriteRunning /\ pc = "idle"
       /\ ~WriteStreamWait /\ ~OutcomePacketDelayWait
       => output.read_pos = 0
    /\ ~StreamWriteRunning \/ output.read_pos = 0 => Served

-----------------------------------------------------------------------------
LEMMA SpecInv == Spec => []Inv
  <1>1. [Next]_vars => [ReconfigureNext]_vars
    BY DEF ReconfigureNext
  <1> QED
    BY <1>1, InitInv, StepInv, PTL DEF Spec

(* Where TxIsEmpty holds past the wait, TxEmpty said so or the stream did. *)
LEMMA Emptied ==
    ASSUME Inv, Released, TxIsEmpty
    PROVE  TxEmpty \/ (StreamOutEmpty /\ pending = 0)
  BY DEF Released, TxIsEmpty, StreamSaysEmpty, Waiting

(* A poll that does not reach StreamWrite and sets TxEmpty only on grounds.*)
LEMMA LeaveFlow ==
    ASSUME Inv, FlowInv, NEW t \in BOOLEAN, NEW d, NEW w, NEW state,
           Leave(t, d, w, state),
           TxEmpty => t,
           t => TxEmpty \/ (StreamOutEmpty /\ pending = 0)
    PROVE  FlowInv'
  <1>1. UNCHANGED <<TxCompleteUse, StreamOutEmpty, pending, irq, chunk>> /\ TxEmpty' = t
    BY DEF Leave, settings, stream
  <1>2. TxEmpty \in BOOLEAN /\ pending \in Nat
    BY TxAssumption DEF Inv, TypeOK
  <1>3. OneSource'
    BY <1>1, <1>2 DEF FlowInv, OneSource, Inv, TypeOK
  <1>4. NoLostCompletion'
    BY <1>1, <1>2 DEF FlowInv, NoLostCompletion
  <1>5. TwoSources'
    BY <1>1, <1>2 DEF FlowInv, TwoSources, Inv, TypeOK
  <1> QED
    BY <1>3, <1>4, <1>5 DEF FlowInv

LEMMA PollFlow ==
    ASSUME Inv, FlowInv, Poll
    PROVE  FlowInv'
  <1>1. TxEmpty \in BOOLEAN /\ TxIsEmpty \in BOOLEAN /\ (TxEmpty => TxIsEmpty)
    BY DEF Inv, TypeOK, TxIsEmpty, Waiting
  <1>2. CASE PollNotRunning
    BY <1>1, <1>2, LeaveFlow DEF PollNotRunning
  <1>3. CASE PollInDelay
    BY <1>1, <1>3, LeaveFlow DEF PollInDelay
  <1>4. CASE PollTimeout
    BY <1>1, <1>4, LeaveFlow DEF PollTimeout
  <1>5. CASE PollStreamBusy
    BY <1>1, <1>5, LeaveFlow DEF PollStreamBusy
  <1>6. CASE PollStartDelay
    BY <1>1, <1>6, LeaveFlow, Emptied DEF PollStartDelay
  <1>7. CASE PollComplete
    BY <1>1, <1>7, LeaveFlow, Emptied DEF PollComplete, MaySend
  <1>8. CASE PollTxBusy
    BY <1>1, <1>8, LeaveFlow DEF PollTxBusy, TxIsEmpty
  <1>9. ASSUME NEW n \in 0..PacketSize, PollStreamWrite(n)
        PROVE  FlowInv'
    <2>1. /\ TxEmpty \/ (StreamOutEmpty /\ pending = 0)
          /\ UNCHANGED <<TxCompleteUse, StreamOutEmpty, irq>>
          /\ TxEmpty' = ~(TxCompleteUse \/ StreamOutEmpty)
          /\ pending' = IF n > 0 THEN pending + 1 ELSE pending
          /\ chunk' = n
      BY <1>9, Emptied DEF PollStreamWrite, StreamWriteTakes, MaySend, settings
    <2>2. /\ TxCompleteUse \in BOOLEAN /\ StreamOutEmpty \in BOOLEAN
          /\ pending \in Nat /\ irq \in BOOLEAN
      BY TxAssumption DEF Inv, TypeOK
    <2>3. n \in Nat
      BY DEF PacketSize
    <2>4. OneSource'
      BY <2>1, <2>2, <2>3 DEF FlowInv, OneSource
    <2>5. NoLostCompletion'
      BY <2>1, <2>2, <2>3 DEF NoLostCompletion
    <2>6. TwoSources'
      <3>1. SUFFICES ASSUME TxCompleteUse, StreamOutEmpty
                     PROVE  /\ pending' <= 2
                            /\ TxEmpty' \/ irq' => pending' <= 1
                            /\ TxEmpty' /\ irq' => pending' = 0
        BY <2>1 DEF TwoSources
      <3>2. ~TxEmpty' /\ (irq' <=> irq)
        BY <2>1, <3>1
      <3>3. /\ TxEmpty \/ irq => pending <= 1
            /\ TxEmpty /\ irq => pending = 0
            /\ TxEmpty \/ pending = 0
        BY <2>1, <3>1 DEF FlowInv, TwoSources
      <3>4. pending <= 1 /\ (irq => pending = 0)
        BY <2>2, <3>3
      <3> QED
        BY <2>1, <2>2, <2>3, <3>2, <3>4
    <2> QED
      BY <2>4, <2>5, <2>6 DEF FlowInv
  <1>10. CASE PollCallsNull
    BY <1>10 DEF PollCallsNull, FlowInv, OneSource, TwoSources, NoLostCompletion,
       settings, flags, stream
  <1> QED
    BY <1>2, <1>3, <1>4, <1>5, <1>6, <1>7, <1>8, <1>9, <1>10 DEF Poll

LEMMA StepFlow ==
    ASSUME Inv, FlowInv, [Next]_vars
    PROVE  FlowInv'
  <1> USE DEF FlowInv, OneSource, TwoSources, NoLostCompletion
  <1>1. CASE \E packet \in Packets, async \in BOOLEAN :
                WritePacketAccepted(packet, async)
    BY <1>1 DEF WritePacketAccepted, settings
  <1>2. CASE WritePacketRefused
    BY <1>2 DEF WritePacketRefused, settings, flags, stream
  <1>3. CASE Poll
    BY <1>3, PollFlow
  <1>4. CASE StreamWriteReturns
    BY <1>4 DEF StreamWriteReturns, ReturnFromStreamWrite, settings, stream
  <1>5. CASE StreamDrains
    <2>1. pending \in Nat /\ irq \in BOOLEAN /\ TxCompleteUse \in BOOLEAN
          /\ StreamOutEmpty \in BOOLEAN
      BY TxAssumption DEF Inv, TypeOK
    <2> QED
      BY <1>5, <2>1 DEF StreamDrains, settings, flags, call
  <1>6. CASE TxComplete
    BY <1>6 DEF TxComplete, settings, call
  <1>7. CASE Tick \/ UNCHANGED vars
    BY <1>7 DEF Tick, vars, settings, flags, call, stream
  <1> QED
    BY <1>1, <1>2, <1>3, <1>4, <1>5, <1>6, <1>7 DEF Next

LEMMA SpecFlow == Spec => []FlowInv
  <1>1. Init => FlowInv
    BY DEF Init, FlowInv, OneSource, TwoSources, NoLostCompletion
  <1> QED
    BY <1>1, StepFlow, SpecInv, PTL DEF Spec

(* With one source of completions at most one chunk is in the stream's     *)
(* hands, however deep the stream is and however often WritePacket has     *)
(* timed out.                                                              *)
THEOREM OneChunk == Spec => []OneChunkInFlight
  <1>1. FlowInv => OneChunkInFlight
    BY DEF FlowInv, OneSource, OneChunkInFlight
  <1> QED
    BY <1>1, SpecFlow, PTL

(* With both sources the adapter is one chunk ahead at most, however deep  *)
(* the stream is and however often a chunk is reported twice.              *)
THEOREM TwoChunks == Spec => []TwoChunksAtMost
  <1>1. FlowInv => TwoChunksAtMost
    BY DEF FlowInv, TwoSources, TwoChunksAtMost
  <1> QED
    BY <1>1, SpecFlow, PTL

(* No TxComplete call is lost, those that come before StreamWrite returns  *)
(* included.                                                               *)
THEOREM CompletionKept == Spec => []NoLostCompletion
  <1>1. FlowInv => NoLostCompletion
    BY DEF FlowInv
  <1> QED
    BY <1>1, SpecFlow, PTL

-----------------------------------------------------------------------------
LEMMA Delays ==
    ASSUME Inv
    PROVE  /\ Horizon \in Nat
           /\ OutcomePacketDelay \in 0..Horizon /\ TimeoutDelay \in 0..Horizon
           /\ sinceOut \in 0..Horizon /\ quiet \in 0..Horizon
           /\ output.read_pos \in Nat
  BY TxAssumption DEF Inv, TypeOK

(* Past line 173 the pause has been served.                                *)
LEMMA MaySendServed ==
    ASSUME Inv, PaceInv, MaySend
    PROVE  Served
  <1>1. StreamWriteRunning /\ pc = "idle"
    BY DEF MaySend, Polling
  <1>2. CASE output.read_pos = 0
    BY <1>2 DEF PaceInv
  <1>3. CASE output.read_pos # 0
    <2>1. sinceOut = quiet
      BY <1>1, <1>3, Delays DEF PaceInv
    <2>2. WriteStreamWait \/ OutcomePacketDelayWait
      BY <1>1, <1>3 DEF PaceInv
    <2>3. CASE OutcomePacketDelayWait
      BY <2>1, <2>3, Delays DEF MaySend, InDelay, Served
    <2>4. CASE WriteStreamWait
      BY <2>4, Delays DEF MaySend, Served
    <2> QED
      BY <2>2, <2>3, <2>4
  <1> QED
    BY <1>2, <1>3

LEMMA TimeoutServed ==
    ASSUME Inv, PaceInv, PollTimeout
    PROVE  Served /\ (output.read_pos = 0 \/ quiet + OutcomePacketDelay >= TimeoutDelay)
  BY Delays DEF PollTimeout, Polling, TimedOut, PaceInv, Served

(* A poll that ends the packet has been served; one that does not leaves a *)
(* wait or a pause behind.                                                 *)
LEMMA LeavePace ==
    ASSUME Inv, PaceInv, pc = "idle", NEW t, NEW d \in BOOLEAN, NEW w \in BOOLEAN,
           NEW state, Leave(t, d, w, state),
           state = "RUNNING" => StreamWriteRunning /\ (d \/ w),
           state # "RUNNING" => Served
    PROVE  PaceInv'
  <1>1. /\ UNCHANGED <<output, pc, sinceOut, quiet, OutcomePacketDelay, TimeoutDelay>>
        /\ OutcomePacketDelayWait' = d /\ WriteStreamWait' = w
        /\ StreamWriteRunning' = (state = "RUNNING")
    BY DEF Leave, Return, settings, clocks
  <1>2. Served' <=> Served
    BY <1>1 DEF Served
  <1> QED
    BY <1>1, <1>2 DEF PaceInv

LEMMA PollPace ==
    ASSUME Inv, PaceInv, Poll
    PROVE  PaceInv'
  <1>1. /\ OutcomePacketDelayWait \in BOOLEAN /\ WriteStreamWait \in BOOLEAN
        /\ StreamWriteRunning \in BOOLEAN
    BY DEF Inv, TypeOK
  <1>2. CASE PollNotRunning
    BY <1>1, <1>2, LeavePace DEF PollNotRunning, PaceInv
  <1>3. CASE PollInDelay
    BY <1>1, <1>3, LeavePace DEF PollInDelay, Polling
  <1>4. CASE PollTimeout
    BY <1>1, <1>4, LeavePace, TimeoutServed DEF PollTimeout, Polling
  <1>5. CASE PollStreamBusy
    BY <1>1, <1>5, LeavePace DEF PollStreamBusy, Polling, Waiting
  <1>6. CASE PollStartDelay
    BY <1>1, <1>6, LeavePace DEF PollStartDelay, Polling
  <1>7. CASE PollComplete
    BY <1>1, <1>7, LeavePace, MaySendServed DEF PollComplete, MaySend, Polling
  <1>8. CASE PollTxBusy
    BY <1>1, <1>8, LeavePace DEF PollTxBusy, MaySend, Polling
  <1>9. ASSUME NEW n \in 0..PacketSize, PollStreamWrite(n)
        PROVE  PaceInv'
    <2>1. Served' <=> Served
      BY <1>9 DEF PollStreamWrite, Served, settings, clocks
    <2> QED
      BY <1>9, <2>1 DEF PollStreamWrite, PaceInv, settings, clocks
  <1>10. CASE PollCallsNull
    <2>1. Served' <=> Served
      BY <1>10 DEF PollCallsNull, Served, settings, clocks
    <2> QED
      BY <1>10, <2>1 DEF PollCallsNull, PaceInv, flags, clocks
  <1> QED
    BY <1>2, <1>3, <1>4, <1>5, <1>6, <1>7, <1>8, <1>9, <1>10 DEF Poll

LEMMA StreamWriteReturnsPace ==
    ASSUME Inv, PaceInv, StreamWriteReturns
    PROVE  PaceInv'
  <1>1. /\ pc = "StreamWrite" /\ pc' = "idle"
        /\ StreamWriteRunning /\ WriteStreamWait /\ WriteStreamWait'
        /\ UNCHANGED <<OutcomePacketDelay, TimeoutDelay>>
        /\ sinceOut' = IF chunk > 0 THEN 0 ELSE sinceOut
        /\ quiet' = IF chunk > 0 THEN 0 ELSE quiet
        /\ chunk \in Nat
        /\ ~StreamWriteRunning' => OutcomePacketDelay = 0
    BY DEF StreamWriteReturns, ReturnFromStreamWrite, Return, OutAtOnce,
       settings, PaceInv, Inv, TypeOK
  <1>2. output'.read_pos = output.read_pos + chunk
    <2>1. output' = [output EXCEPT !.read_pos = @ + chunk, !.size = @ - chunk]
      BY DEF StreamWriteReturns, ReturnFromStreamWrite, OutputAdvanced
    <2> QED
      BY <2>1 DEF Inv, TypeOK
  <1>3. StreamWriteRunning' /\ output'.read_pos > 0 => sinceOut' = quiet'
    BY <1>1, <1>2, Delays DEF PaceInv
  <1>4. ~StreamWriteRunning' \/ output'.read_pos = 0 => Served'
    BY <1>1, <1>2, Delays DEF PaceInv, Served
  <1> QED
    BY <1>1, <1>3, <1>4 DEF PaceInv

LEMMA TickPace ==
    ASSUME Inv, PaceInv, Tick
    PROVE  PaceInv'
  <1>1. quiet' >= quiet /\ (quiet >= OutcomePacketDelay => quiet' >= OutcomePacketDelay)
        /\ quiet' \in Nat
    BY Delays DEF Tick, Advance, Smaller
  <1>2. Served => Served'
    BY <1>1, Delays DEF Tick, Served, settings
  <1>3. sinceOut = quiet => sinceOut' = quiet'
    BY DEF Tick
  <1> QED
    BY <1>2, <1>3 DEF PaceInv, Tick, flags, call

LEMMA StepPace ==
    ASSUME Inv, PaceInv, [Next]_vars
    PROVE  PaceInv'
  <1>1. CASE pc # "undefined" /\ \E packet \in Packets, async \in BOOLEAN :
                                    WritePacketAccepted(packet, async)
    <2>1. PICK packet \in Packets, async \in BOOLEAN :
                WritePacketAccepted(packet, async)
      BY <1>1
    <2>2. ~StreamWriteRunning /\ pc = "idle" /\ pc' = pc
      BY <1>1, <2>1 DEF WritePacketAccepted, Free, Inv, TypeOK
    <2>3. output'.read_pos = 0
      BY <2>1 DEF WritePacketAccepted
    <2>4. Served' <=> Served
      BY <2>1 DEF WritePacketAccepted, Served, settings
    <2> QED
      BY <2>2, <2>3, <2>4 DEF PaceInv
  <1>2. CASE WritePacketRefused \/ StreamDrains \/ TxComplete \/ UNCHANGED vars
    <2>1. UNCHANGED <<StreamWriteRunning, OutcomePacketDelayWait, WriteStreamWait,
                      output, pc, sinceOut, quiet, OutcomePacketDelay, TimeoutDelay>>
      BY <1>2 DEF WritePacketRefused, StreamDrains, TxComplete, vars, settings,
         flags, call, clocks
    <2> QED
      BY <2>1 DEF PaceInv, Served
  <1>3. CASE Poll
    BY <1>3, PollPace
  <1>4. CASE StreamWriteReturns
    BY <1>4, StreamWriteReturnsPace
  <1>5. CASE Tick
    BY <1>5, TickPace
  <1> QED
    BY <1>1, <1>2, <1>3, <1>4, <1>5 DEF Next

LEMMA SpecPace == Spec => []PaceInv
  <1>1. Init => PaceInv
    BY TxAssumption DEF Init, PaceInv, Served
  <1> QED
    BY <1>1, StepPace, SpecInv, PTL DEF Spec

(* StreamWrite is called only when the pause after the last chunk, of      *)
(* whichever packet, has been served or given up with the packet.          *)
THEOREM Paced == Spec => ChunksArePaced
  <1> DEFINE Step == pc = "idle" /\ pc' = "StreamWrite" =>
                        \/ quiet >= OutcomePacketDelay
                        \/ quiet + OutcomePacketDelay >= TimeoutDelay
  <1>1. ASSUME Inv, PaceInv, [Next]_vars
        PROVE  [Step]_vars
    <2> SUFFICES ASSUME Next, pc = "idle", pc' = "StreamWrite" PROVE Served
      BY <1>1 DEF Served
    <2>1. MaySend
      BY DEF Next, WritePacketAccepted, WritePacketRefused, Poll, PollNotRunning,
         PollInDelay, PollTimeout, PollStreamBusy, PollStartDelay, PollComplete,
         PollTxBusy, PollStreamWrite, PollCallsNull, Leave, StreamWriteReturns,
         ReturnFromStreamWrite, StreamDrains, TxComplete, Tick, call
    <2> QED
      BY <1>1, <2>1, MaySendServed
  <1> QED
    BY <1>1, SpecInv, SpecPace, PTL DEF Spec, ChunksArePaced

(* A packet of which bytes are out is given up only after TimeoutDelay,    *)
(* less the pause the code adds, without a chunk.                          *)
THEOREM NotPremature == Spec => TimeoutNotPremature
  <1> DEFINE Step == ret' = "WRITE_TIMEOUT" /\ StreamWriteRunning /\ ~StreamWriteRunning'
                        => output.read_pos = 0
                           \/ quiet + OutcomePacketDelay >= TimeoutDelay
  <1>1. ASSUME Inv, PaceInv, [Next]_vars
        PROVE  [Step]_vars
    <2> SUFFICES ASSUME Next, ret' = "WRITE_TIMEOUT", StreamWriteRunning,
                        ~StreamWriteRunning'
                 PROVE  output.read_pos = 0
                        \/ quiet + OutcomePacketDelay >= TimeoutDelay
      BY <1>1
    <2>1. PollTimeout
      BY <1>1, EndStep DEF ReconfigureNext
    <2> QED
      BY <1>1, <2>1, TimeoutServed
  <1> QED
    BY <1>1, SpecInv, SpecPace, PTL DEF Spec, TimeoutNotPremature

-----------------------------------------------------------------------------
(* The clocks.  UOP_AdapterTx cuts them off at Horizon; GetTime_ms() does  *)
(* not.  That nothing is lost: a model whose clocks run on implements the  *)
(* one that cuts them off at Coarse, if no delay is larger than that.      *)
CONSTANT Coarse

Fits ==
    /\ Coarse \in 0..Horizon
    /\ OutcomePacketDelays \subseteq 0..Coarse
    /\ TimeoutDelays \subseteq 0..Coarse

Cut == INSTANCE UOP_AdapterTx
         WITH Horizon <- Coarse,
              uptime <- Smaller(uptime, Coarse),
              sinceOut <- Smaller(sinceOut, Coarse),
              quiet <- Smaller(quiet, Coarse)

(* What the code asks of a clock, the clock cut off answers as well.       *)
LEMMA CutAnswers ==
    ASSUME Fits, Inv
    PROVE  /\ Cut!InDelay <=> InDelay
           /\ Cut!TimedOut <=> TimedOut
  <1>1. /\ sinceOut \in Nat /\ OutcomePacketDelay \in 0..Coarse
        /\ TimeoutDelay \in 0..Coarse /\ Coarse \in Nat
    BY TxAssumption DEF Fits, Inv, TypeOK
  <1>2. sinceOut < OutcomePacketDelay <=> Smaller(sinceOut, Coarse) < OutcomePacketDelay
    BY <1>1 DEF Smaller
  <1>3. sinceOut + OutcomePacketDelay >= TimeoutDelay
           <=> Smaller(sinceOut, Coarse) + OutcomePacketDelay >= TimeoutDelay
    BY <1>1 DEF Smaller
  <1>4. Cut!InDelay <=> InDelay
    BY <1>2 DEF Cut!InDelay, InDelay
  <1>5. Cut!TimedOut <=> TimedOut
    BY <1>3 DEF Cut!TimedOut, TimedOut
  <1> QED
    BY <1>4, <1>5

(* A millisecond is one on both clocks, until the cut one stands still.    *)
LEMMA CutAdvances ==
    ASSUME Fits, NEW clock \in 0..Horizon
    PROVE  Smaller(Advance(clock), Coarse) = Cut!Advance(Smaller(clock, Coarse))
  BY TxAssumption DEF Fits, Advance, Cut!Advance, Smaller, Cut!Smaller

LEMMA CutTicks ==
    ASSUME Fits, Inv, Tick
    PROVE  Cut!Tick \/ UNCHANGED Cut!vars
  <1>1. /\ uptime \in 0..Horizon /\ sinceOut \in 0..Horizon /\ quiet \in 0..Horizon
        /\ Coarse \in 0..Horizon /\ Horizon \in Nat
    BY TxAssumption DEF Fits, Inv, TypeOK
  <1>2. /\ Smaller(uptime', Coarse) = Cut!Advance(Smaller(uptime, Coarse))
        /\ Smaller(sinceOut', Coarse) = Cut!Advance(Smaller(sinceOut, Coarse))
        /\ Smaller(quiet', Coarse) = Cut!Advance(Smaller(quiet, Coarse))
    BY <1>1, CutAdvances DEF Tick
  <1>3. UNCHANGED <<settings, flags, output, call, stream>>
    BY DEF Tick
  <1>4. CASE \/ Smaller(uptime, Coarse) < Coarse
             \/ Smaller(sinceOut, Coarse) < Coarse
             \/ Smaller(quiet, Coarse) < Coarse
    BY <1>2, <1>3, <1>4 DEF Cut!Tick, settings, flags, call, stream,
       Cut!settings, Cut!flags, Cut!call, Cut!stream
  <1>5. CASE /\ ~(Smaller(uptime, Coarse) < Coarse)
             /\ ~(Smaller(sinceOut, Coarse) < Coarse)
             /\ ~(Smaller(quiet, Coarse) < Coarse)
    <2>1. \A clock \in 0..Horizon :
             ~(Smaller(clock, Coarse) < Coarse) =>
                Cut!Advance(Smaller(clock, Coarse)) = Smaller(clock, Coarse)
      BY <1>1 DEF Cut!Advance, Smaller, Cut!Smaller
    <2>2. /\ Smaller(uptime', Coarse) = Smaller(uptime, Coarse)
          /\ Smaller(sinceOut', Coarse) = Smaller(sinceOut, Coarse)
          /\ Smaller(quiet', Coarse) = Smaller(quiet, Coarse)
      BY <1>1, <1>2, <1>5, <2>1
    <2> QED
      BY <1>3, <2>2 DEF settings, flags, call, stream, Cut!vars, Cut!settings,
         Cut!flags, Cut!call, Cut!clocks, Cut!stream
  <1> QED
    BY <1>4, <1>5

LEMMA CutLeaves ==
    ASSUME NEW t, NEW d, NEW w, NEW state, Leave(t, d, w, state)
    PROVE  Cut!Leave(t, d, w, state)
  BY DEF Leave, Return, settings, call, clocks, stream,
     Cut!Leave, Cut!Return, Cut!settings, Cut!call, Cut!clocks, Cut!stream

LEMMA CutPolls ==
    ASSUME Fits, Inv, Poll
    PROVE  Cut!Poll
  <1>1. (Cut!InDelay <=> InDelay) /\ (Cut!TimedOut <=> TimedOut)
    BY CutAnswers
  <1>2. /\ Cut!Waiting <=> Waiting
        /\ Cut!StreamSaysEmpty <=> StreamSaysEmpty
        /\ Cut!Polling <=> Polling
        /\ Cut!PacketSize = PacketSize
    BY DEF Cut!Waiting, Waiting, Cut!StreamSaysEmpty, StreamSaysEmpty,
       Cut!Polling, Polling, Cut!PacketSize, PacketSize, Cut!Smaller, Smaller
  <1>3. (Cut!Released <=> Released) /\ Cut!TxIsEmpty = TxIsEmpty
    BY <1>1, <1>2, Zenon DEF Cut!Released, Released, Cut!TxIsEmpty, TxIsEmpty,
       Cut!Waiting, Waiting
  <1>4. Cut!MaySend <=> MaySend
    BY <1>1, <1>2, <1>3 DEF Cut!MaySend, MaySend
  <1> USE DEF Cut!Poll
  <1>5. CASE PollNotRunning
    BY <1>5, CutLeaves DEF PollNotRunning, Cut!PollNotRunning
  <1>6. CASE PollInDelay
    BY <1>1, <1>2, <1>6, CutLeaves DEF PollInDelay, Cut!PollInDelay
  <1>7. CASE PollTimeout
    BY <1>1, <1>2, <1>7, CutLeaves DEF PollTimeout, Cut!PollTimeout
  <1>8. CASE PollStreamBusy
    BY <1>1, <1>2, <1>8, CutLeaves DEF PollStreamBusy, Cut!PollStreamBusy
  <1>9. CASE PollStartDelay
    BY <1>1, <1>2, <1>3, <1>9, CutLeaves DEF PollStartDelay, Cut!PollStartDelay
  <1>10. CASE PollComplete
    BY <1>2, <1>3, <1>4, <1>10, CutLeaves DEF PollComplete, Cut!PollComplete
  <1>11. CASE PollTxBusy
    BY <1>3, <1>4, <1>11, CutLeaves DEF PollTxBusy, Cut!PollTxBusy
  <1>12. ASSUME NEW n \in 0..PacketSize, PollStreamWrite(n)
         PROVE  Cut!PollStreamWrite(n)
    <2>1. Cut!StreamWriteTakes(n)
      BY <1>12 DEF PollStreamWrite, StreamWriteTakes, Cut!StreamWriteTakes
    <2>2. UNCHANGED <<Cut!settings, Cut!clocks>>
      BY <1>12 DEF PollStreamWrite, settings, clocks, Cut!settings, Cut!clocks
    <2> QED
      BY <1>2, <1>3, <1>4, <1>12, <2>1, <2>2 DEF PollStreamWrite, Cut!PollStreamWrite
  <1>13. CASE PollCallsNull
    BY <1>2, <1>3, <1>4, <1>13 DEF PollCallsNull, Cut!PollCallsNull, settings, flags,
       clocks, stream, Cut!settings, Cut!flags, Cut!clocks, Cut!stream
  <1> QED
    BY <1>2, <1>5, <1>6, <1>7, <1>8, <1>9, <1>10, <1>11, <1>12, <1>13 DEF Poll

LEMMA CutReturns ==
    ASSUME Fits, StreamWriteReturns
    PROVE  Cut!StreamWriteReturns
  <1>1. Smaller(0, Coarse) = 0
    BY TxAssumption DEF Fits, Smaller
  <1>2. Cut!OutputAdvanced = OutputAdvanced /\ (Cut!OutAtOnce <=> OutAtOnce)
    BY DEF Cut!OutputAdvanced, OutputAdvanced, Cut!OutAtOnce, OutAtOnce
  <1>3. Cut!Return(IF Cut!OutAtOnce THEN "OK" ELSE "RUNNING")
    BY <1>2 DEF StreamWriteReturns, ReturnFromStreamWrite, Return, Cut!Return
  <1>4. /\ Smaller(sinceOut', Coarse) = IF chunk > 0 THEN 0 ELSE Smaller(sinceOut, Coarse)
        /\ Smaller(quiet', Coarse) = IF chunk > 0 THEN 0 ELSE Smaller(quiet, Coarse)
        /\ Smaller(uptime', Coarse) = Smaller(uptime, Coarse)
    BY <1>1 DEF StreamWriteReturns, ReturnFromStreamWrite
  <1> QED
    BY <1>2, <1>3, <1>4 DEF StreamWriteReturns, ReturnFromStreamWrite, settings, stream,
       Cut!StreamWriteReturns, Cut!ReturnFromStreamWrite, Cut!settings, Cut!stream

LEMMA CutSettings ==
    ASSUME TxCompleteEnable \/ TxCompleteDisable \/ Set
    PROVE  Cut!TxCompleteEnable \/ Cut!TxCompleteDisable \/ Cut!Set
  <1> USE DEF settings, flags, call, clocks, stream,
              Cut!settings, Cut!flags, Cut!call, Cut!clocks, Cut!stream
  <1>1. CASE TxCompleteEnable
    BY <1>1 DEF TxCompleteEnable, TxCompleteSwitch, Cut!TxCompleteEnable,
       Cut!TxCompleteSwitch
  <1>2. CASE TxCompleteDisable
    BY <1>2 DEF TxCompleteDisable, TxCompleteSwitch, Cut!TxCompleteDisable,
       Cut!TxCompleteSwitch
  <1>3. CASE Set
    <2>1. \/ Cut!SetStreamWriteFunc \/ Cut!SetStreamOutEmptyFunc
          \/ Cut!SetMaxPacketSize \/ Cut!SetTimeoutDelay
          \/ Cut!SetOutcomePacketDelay
      BY <1>3 DEF Set, SetStreamWriteFunc, SetStreamOutEmptyFunc, SetMaxPacketSize,
         SetTimeoutDelay, SetOutcomePacketDelay, Cut!SetStreamWriteFunc,
         Cut!SetStreamOutEmptyFunc, Cut!SetMaxPacketSize, Cut!SetTimeoutDelay,
         Cut!SetOutcomePacketDelay
    <2> QED
      BY <1>3, <2>1 DEF Set, Cut!Set, CanCall, Cut!CanCall
  <1> QED
    BY <1>1, <1>2, <1>3

LEMMA CutStep ==
    ASSUME Fits, Inv
    PROVE  [Next]_vars => [Cut!Next]_(Cut!vars)
  <1> SUFFICES ASSUME [Next]_vars PROVE [Cut!Next]_(Cut!vars)
    OBVIOUS
  <1>0. CASE UNCHANGED vars
    BY <1>0 DEF vars, settings, flags, call, clocks, stream, Cut!vars,
       Cut!settings, Cut!flags, Cut!call, Cut!clocks, Cut!stream
  <1> SUFFICES ASSUME Next PROVE Cut!Next \/ UNCHANGED Cut!vars
    BY <1>0
  <1> pc # "undefined"
    BY DEF Next
  <1> USE DEF Cut!Next
  <1>1. ASSUME NEW packet \in Packets, NEW async \in BOOLEAN,
               WritePacketAccepted(packet, async)
        PROVE  Cut!WritePacketAccepted(packet, async)
    <2>1. UNCHANGED Cut!settings
      BY <1>1 DEF WritePacketAccepted, settings, Cut!settings
    <2> QED
      BY <1>1, <2>1 DEF WritePacketAccepted, Cut!WritePacketAccepted, CanCall,
         Cut!CanCall, Free, Cut!Free
  <1>2. CASE WritePacketRefused
    BY <1>2 DEF WritePacketRefused, Cut!WritePacketRefused, CanCall, Cut!CanCall,
       Free, Cut!Free, settings, flags, clocks, stream, Cut!settings, Cut!flags,
       Cut!clocks, Cut!stream
  <1>3. CASE Poll
    BY <1>3, CutPolls
  <1>4. CASE StreamWriteReturns
    BY <1>4, CutReturns
  <1>5. CASE StreamDrains
    BY <1>5 DEF StreamDrains, Cut!StreamDrains, settings, flags, call, clocks,
       Cut!settings, Cut!flags, Cut!call, Cut!clocks
  <1>6. CASE TxComplete
    BY <1>6 DEF TxComplete, Cut!TxComplete, settings, call, clocks,
       Cut!settings, Cut!call, Cut!clocks
  <1>7. CASE Tick
    BY <1>7, CutTicks
  <1> QED
    BY <1>1, <1>2, <1>3, <1>4, <1>5, <1>6, <1>7 DEF Next

(* GetTime_ms, against which WritePacketAsync measures: the horizon of the *)
(* clocks is no bound of the program.  Whatever they run to, behaviours    *)
(* are those of clocks that stop at the largest delay, settings calls      *)
(* included.                                                               *)
THEOREM HorizonSuffices ==
    ASSUME Fits
    PROVE  (Spec => Cut!Spec) /\ (ReconfigureSpec => Cut!ReconfigureSpec)
  <1>1. Init => Cut!Init
    <2>1. Smaller(0, Coarse) = 0 /\ Smaller(Horizon, Coarse) = Coarse
      BY TxAssumption DEF Fits, Smaller
    <2> QED
      BY <2>1 DEF Init, Cut!Init
  <1>2. Inv /\ [Next]_vars => [Cut!Next]_(Cut!vars)
    BY CutStep
  <1>3. Inv /\ [ReconfigureNext]_vars => [Cut!ReconfigureNext]_(Cut!vars)
    BY CutStep, CutSettings DEF ReconfigureNext, Cut!ReconfigureNext
  <1>4. Spec => Cut!Spec
    BY <1>1, <1>2, SpecInv, PTL DEF Spec, Cut!Spec
  <1>5. ReconfigureSpec => Cut!ReconfigureSpec
    BY <1>1, <1>3, InitInv, StepInv, PTL DEF ReconfigureSpec, Cut!ReconfigureSpec
  <1> QED
    BY <1>4, <1>5

=============================================================================
