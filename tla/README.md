# Verification of UOP

UOP is a small C++ library that connects byte streams (serial lines and the
like) to a frame protocol. This directory holds its formal model: TLA+ modules
translated from `src/lib`, TLC runs that check them on small instances, and
TLAPS proofs of what matters most for every value of the constants.

## 1. The system

| Part | Source | State | Operations |
|---|---|---|---|
| `UOP_Adapter`, transmit | `lib/UOP_Adapter.cpp` 117-196, 212-235 | packet in `output`, four flags, last-output time, settings | `WritePacket`, `WritePacketCompleteCheck` (= `WritePacketAsync`), `TxComplete`, `TxCompleteEnable/Disable`, setters |
| `UOP_Adapter`, receive | `lib/UOP_Adapter.cpp` 2-25, 59-116, 197-211, 218-226 | ring buffer `input`, last-input time, packet mode | `Write` (byte and block), `ReadAll`, `ReadPacket`, `IncomePacketAvailable`, `FlushIncomeBuffer`, `SetMaxIncomeBufferSize` |
| `UOP_Buffer` | `lib/UOP_Buffer.cpp` | allocated memory, `buffer_size`, `size` | `Resize`, `Write` |
| `UOP_Codec` | `lib/UOP_Codec.cpp` | frame and packet are the caller's and are reused | `EncodeFrame`, `DecodePacket` |
| registry | `lib/UOP.cpp` | list of adapters, in memory it does not own | `AddAdapter`, `AddNewAdapter`, `RemoveAdapter`, `Core`, constructor, destructor; constructor, `DefaultInit` and destructor of `UOP_Adapter` |
| `libcrc` | `lib/libcrc/` | per file: a table of 256 entries and a flag that says it is filled | one-pass functions (`crc_16`, `crc_modbus`, ...), `update_crc_x`, `init_crcx_tab` |
| clock | `lib/UOP.h` 23-31 | `InitialTime` | `GetTime_ms`, `delay_ms` |
| `UOP_CommonTypes` | `lib/UOP_CommonTypes.h` | - | the result codes |
| `UOP_Interaction` | `lib/UOP_Interaction.*` | a pointer to an adapter | - |

How they interact. The application encodes a frame into a packet, hands the
packet to an adapter's `WritePacket` and polls. The adapter passes it in chunks
of at most `MaxPacketSize` bytes to the *stream driver* through the function
pointer `StreamWrite`, waits until the driver says that a chunk is out - by
calling `TxComplete`, typically from an interrupt, or when asked through
`StreamOutEmpty` - and pauses `OutcomePacketDelay` ms between chunks. The driver
calls `Write` with bytes that come in; the application takes them out with
`ReadPacket`, which waits until no byte has come for more than
`IncomePacketDelay` ms. Nothing is persisted and there are no threads of the
library's own; the concurrency is that of the driver's interrupts, of callbacks
made from inside `StreamWrite`, and of time.

Two adapters interact through nothing but the wire: the receiver in packet mode
knows packets apart by the silence between them, which the sender makes with its
pauses. `UOP_Codec`'s constructor fills the tables of `libcrc` that its checksums
use. `UOP` keeps the addresses of adapters and, in its destructor, runs theirs.

What is hard, and what makes each part correct:

* **transmit**: a completion may come before `StreamWrite` returns, or after
  the packet it belongs to has timed out; `LastOutcomeTime` is zeroed by a new
  packet although the pause of the old one still has to be served; the driver
  may take any part of a chunk; setters and `TxCompleteEnable` may come at any
  time. Correct means: bytes go out once and in order; chunks do not overlap in
  the stream; no completion is lost; pauses and timeouts are kept; a synchronous
  `WritePacket` returns; the result code says what happened.
* **receive**: positions and count of a ring buffer that goes round its end,
  packet mode that drops what is held, interrupts between the statements of a
  read. Correct means: what is read is what was written, in order, each byte
  once; the buffer's limits hold; packets are not mixed.
* **buffer, codec**: objects that are used again, flags that are or-ed into the
  caller's frame, a decoder that writes into the packet it decodes. Correct
  means: a decoded frame is the encoded one; nothing is written past a buffer.
* **two adapters**: the pause runs from the return of `StreamWrite`, not from the
  moment the chunk is out; a timeout cuts it short; bytes come while the receiver
  reads and flushes. Correct means: a read returns one chunk, whole; nothing is
  refused.
* **registry**: the limit of the list, `NULL` entries, adapters destroyed twice, by
  the UOP and by the application, addresses that outlive an adapter and are used
  again. Correct means: an application that keeps some rules gets no undefined
  behaviour, and the list it expects. Which rules is part of the question.
* **libcrc**: the first call fills a table that other calls, from interrupts, are
  about to use; registers are narrower than `int`. Correct means: no entry is
  used before it is filled, and the result is the polynomial's remainder.

`PROJECT.json` lists every hazard at its line with the properties that cover it.

## 2. Modules

| Module | What it is |
|---|---|
| `UOP_PacketSender` | abstract specification: what an adapter promises to a sender |
| `UOP_AdapterTx` | the transmit side, statement by statement where it matters |
| `UOP_AdapterTx_proofs` | types, account of the bytes, refinement of `UOP_PacketSender`; flow control, pacing, timeouts |
| `UOP_ByteChannel` | abstract specification: bytes come out in the order they came in |
| `UOP_AdapterRx` | the receive side with its ring buffer |
| `UOP_RxBursts` | the receive side with an observer on the wire, who counts bursts by the silence between them |
| `UOP_Buffer` | class `UOP_Buffer` as operators on a value |
| `UOP_FrameChannel` | abstract specification: what is accepted is what was sent |
| `UOP_Codec` | encoder, what a packet may suffer on its way, decoder |
| `UOP_Codec_proofs` | types, memory of the buffers, causes of overruns |
| `UOP_CodecFlow_proofs` | the round trip: intact packets are accepted, those with a wrong byte are not, refinement of `UOP_FrameChannel` |
| `UOP_AdapterRx_proofs` | types, count and packet mode of the receive side |
| `UOP_AdapterRxFlow_proofs` | refinement of `UOP_ByteChannel` |
| `UOP_Link` | composition: a sending adapter, the wire, a receiving adapter, one clock |
| `UOP_Link_proofs` | the sender is undisturbed, types, nothing is refused, reads return whole chunks |
| `UOP_AdapterList` | abstract specification: an ordered list of adapters that are alive |
| `UOP_Registry` | class `UOP` and the lifetimes of the adapters it refers to |
| `UOP_Registry_proofs` | types, rules, memory, refinement of `UOP_AdapterList` |
| `LibCrcBits` | bytes, registers and polynomials as sets of bits; division; table entries |
| `LibCrcFiles` | the six table-driven files as records of what tells them apart |
| `LibCrcSerial` | abstract specification: each call divides its bytes bit by bit |
| `LibCrc` | one file with its table, its flag and any number of callers |
| `LibCrc_proofs` | the arithmetic of the table, refinement of `LibCrcSerial`, a burst of errors shows |
| `MC_AdapterTx`, `MC_AdapterRx`, `MC_RxBursts`, `MC_Codec`, `MC_Link`, `MC_Registry`, `MC_LibCrc` | values of the constants for TLC |

Definitions named "Mutant" in a comment are variants of the code with a
plausible bug in them. No specification uses them; putting one in the place of
the definition it varies must make TLC report the property it is there for.

### UOP_AdapterTx

State: the private fields of `UOP_Adapter` under their own names; `output` as
`[buffer, size, read_pos]`, where `buffer` is the packet; what the caller sees
(`ret`, `blocked` while a synchronous `WritePacket` loops); where the code is
(`pc`, inside or outside the `StreamWrite` call, with `chunk` the number that
call will return); the stream driver (`pending` chunks it holds, `irq` a
completion interrupt that is due); two history variables, `sent` (the bytes of
this packet the driver took) and `quiet` (time since it took any).

Actions: `WritePacketAccepted` / `WritePacketRefused`; `WritePacketAsync` has one
action per way out (`PollNotRunning`, `PollInDelay`, `PollTimeout`,
`PollStreamBusy`, `PollStartDelay`, `PollComplete`, `PollTxBusy`) and two for the
way through `StreamWrite` (`PollStreamWrite` up to the call, `StreamWriteReturns`
after it), because the driver runs in between; `TxComplete`, `StreamDrains`,
`Tick`; and, in `ReconfigureSpec`, the settings calls.

Abstractions. The code compares only differences `GetTime_ms() - LastOutcomeTime`
with delays, so the model keeps differences that saturate at `Horizon`, at least
as large as every delay: saturated or not, they compare the same (`HorizonSuffices`,
proved for both sides). A
`LastOutcomeTime` of 0 is the difference `uptime`; it starts at 0 (`InitialTime`
set just now) or at `Horizon` (never set: the epoch is 1970). Completions that
are due at the same time coalesce into one, as an interrupt flag does.

Assumed of the environment: the driver takes between 0 and the offered number of
bytes and holds at most `Depth` chunks; with `TxCompleteUse` on it signals the end
of each chunk; callbacks
made from inside `StreamWrite` do not poll `WritePacketCompleteCheck` (a nested
poll is not modelled); `WritePacket` from there is, and is refused.

`SetStreamWriteFunc` may set any function or `NULL`, in the middle of a packet too.
`WritePacket` tests for `NULL`, `WritePacketAsync` does not: the next poll that would
send calls the pointer (line 182). That is `PollCallsNull`; nothing is known of what
follows it, and the model stops there (`pc = "undefined"`). Only `ReconfigureSpec` gets
there, and no property claims otherwise.

### UOP_AdapterRx

State: the fields of `input`, `buffer` as a function from `0..size_max-1`;
`sinceIn`, the saturating age of the last byte; the application's place in its
call (`pc`) with the locals of `ReadAll` and `ReadPacket`; `loaded`, the value a
statement has loaded and is about to store changed; `got`, what the last
read returned; history: `offered`, what the driver wrote last.

`Write` is one action for the byte form and two for the block form (with and
without going round the end). A `Write` that takes nothing changes nothing and is
a stuttering step. A behaviour starts by choosing a `Use` of the adapter: packet
mode or not, whether the application flushes, and whether `Write` can interrupt it
(`Preemptive`); with it the driver runs between any two steps of the application, as
an interrupt that runs to its end.

The steps of the application, then, decide what an interrupt can hit. `ReadPacket` has
one for each evaluation of its loop, `FlushIncomeBuffer` one for each assignment,
`ReadAll` one for each load and each store of `size` and `read_pos` between the
statements: `ReadAll` (line 94), `ReadAllLimits` (96), `ReadAllCopies` (99-100),
`ReadAllLoadsSize` and `ReadAllMovesSize` (101), `ReadAllLoadsReadPos` and
`ReadAllMovesReadPos` (102). So `input.size -= part1size` is a load, a subtraction and a
store, as a compiler may make it: a `Write` between the two is overwritten in the
count, though its bytes are in the buffer. Taken to be one
step, and assumed not to be interrupted inside: `Write`, the test of line 99 with the
`memcpy` of line 100, `IncomePacketAvailable`, the second branch of `ReadAll` and
`SetMaxIncomeBufferSize`. Where the code hands `memcpy` a
length that is negative or more than the caller's buffer has room for, the model
goes to the state `undefined` and ends there.

`Held` reads the ring buffer as a ring buffer: `size` bytes from `read_pos`, round
the end. It is the refinement mapping to `UOP_ByteChannel`. Where `Write` can interrupt,
the bytes held are those up to `write_pos` instead: after a lost update there are
more of them than `size` says. The channel then still has them, in order and each
once; that they are all read is not what it says, and not so: the count stays short,
and as many bytes wait in the buffer until it is flushed.

`UOP_RxBursts` adds to `UOP_AdapterRx` somebody who sees the wire only, for the
question whether packet mode mixes packets. `silence` is the time since the driver last
offered a byte, one that the full buffer refused included - `LastIncomeTime`, which
the code goes by, is not renewed by those; `fresh` counts the bytes taken since the
last silence of more than `IncomePacketDelay`. `OneBurst` compares what the buffer counts
as held with that: no more than the burst that runs has brought, unless nothing of
it has been taken yet. A flush that is forgotten, or one that comes late because the
code's clock is older than the wire's, leaves more in the buffer than `fresh`. `BurstSpec` is `Spec` so observed, `BurstInTurnSpec`
is `InTurnSpec`; the run has the second, the theorem is about the first.

`InTurnSpec` adds one assumption: nothing is written past the end of the buffer,
that is, between two flushes the stream brings no more than the buffer holds.
That is how the code has to be used today - see the findings.

### UOP_Codec

State: the sender's `frame` and `packet`, the receiver's packet `income` and his
frame `received`, what the last `DecodePacket` returned (`ok`), whether memory is
still what the code believes (`defined`); history: what `packet` and `income` are
known to carry (`sent`, `arrived`), and the strongest marker `income` still has.
Buffers are values of `UOP_Buffer`: besides `buffer_size`, which the class records,
they have `allocated`, the length of the memory, which it does not.

Actions: `Compose` (the application fills in the frame it has), `EncodeFrame` or
`EncodeFrameOverruns`, `Carry(lost)` (the packet without its first `lost` bytes is
put into a new one), and `DecodePacket(required)` with one action per way out:
no packet, bad checksum, no data, data too short, data, overrun. Each is the whole
function. Packets are sequences of bytes, because the decoder tells markers, flags
and sizes by their values; a field is cut to its width (`ToBytes`, `ReadValue`).
Memory that was not written holds any byte of `Garbage`.

Abstractions. Checksums are an operator constant `Checksum(type, bytes)`: nothing but
that they are functions is used, and in the proofs that XOR and CRC-8 return
bytes. So what a *wrong* packet may look like is left open: of a packet that lost
the first byte of its preamble, or more than its marker, the history says
`Unknown`, and the channel promises nothing of it but a well-typed answer. Bytes
do not change on the way: `WrongByteIsRefused` asks at every state, of every byte
of the packet that would be accepted, what would happen if another one (of
`WrongBytes`) had come in its place. The
receiver takes a new packet for each one that comes and is done with it before
the sender fills in the next frame: otherwise the number of combinations, not
of behaviours, grows. After an overrun of memory the model stops.

Assumed of the application: the flags it writes are its own (`OwnFlags`: ACK, ST, SP,
AR); it leaves Z at 0, as the header asks, and DZ and CS to the encoder. With
`KeepFlags` it may use a frame again without writing its flags anew.

### UOP_Link

`UOP_Link` extends `UOP_AdapterTx` and instantiates `UOP_AdapterRx` as `Rx`, with the
clashing names substituted (`pc <- reader`, `TimeoutDelay <- ReadTimeout`); neither is
changed. What it adds: `wire`, the chunks on their way, each with the bytes left
and its age; one clock for both sides; and `flushDue`, the order in which the
receiving application works - read a packet, flush, read the next.

Actions: `Sends` is a step of the sender, and what its `StreamWrite` takes goes on the
wire; `ByteArrives` and `BlockArrives` are the receiver's interrupt, one byte or a whole
chunk, with the chunk out of the sender's stream when its last byte is across;
`Reads` and `Flush` are the steps of `ReadPacket`, `ReadAll` and `FlushIncomeBuffer`,
between any two of which bytes arrive; `TimePasses`. A full buffer refuses a byte or a block,
which is then lost; a block is stored in one part or in two, as `Write` does it.

History: `latest`, the chunk that began to arrive last, and `torn`, whether bytes of it
came at a bad moment - after `ReadPacket` has found a packet and before the flush
is over. Those are taken for part of the packet read, or lost: the code does not
protect that stretch, and the properties do not judge such a read. They do judge
the next one.

Assumed: the wire carries a chunk within `Latency` ms and, once begun, without a
gap longer than the receiver's `IncomePacketDelay`; one source of completions at
most; both sides have been up for a while; the receive buffer is larger than a
chunk (`LinkAssumption`), because a full buffer refuses before packet mode flushes, and
at least twice as large less one byte, because of stale counts (below); a chunk fits
into one read;
the reader flushes after each read, because positions do not survive the end of
the ring buffer (findings 2 and the note on `ReadAll`).

A chunk that arrives between the load and the store of `size` in `ReadAll` flushes, in
packet mode, what is being read; the store then puts the old count back. Until the
flush the count may be that much too large (`Stale`). `RoomForTheNext` says that the
buffer does not fill even so, and that without it there is one chunk in it at most.

### UOP_Registry

State: `AdaptersVector` and its `capacity`, whether the UOP is still there (`open`); per
place in memory whether an adapter stands there (`free`, `live`, or `dead`: destroyed
by the UOP, its memory not returned) and what its `output` buffer is; the number of
buffers allocated; `undefined`. History: `registered`, what the application has added and
not removed according to the calls it made; `broken`, the rules it did not keep; `lost`,
the calls that leave a buffer behind.

Actions: construction, `DefaultInit` called again (it is public), a packet written to
`output` (`BufferType::Write`, which does not delete a buffer of 0 bytes), destruction
by the application; `AddAdapter`, `AddNewAdapter`, `RemoveAdapter`, `Core`, `~UOP`. Each
call is one step: nothing interrupts these. Where the code touches an adapter that
is no more, or ends one twice, the model goes to `undefined` and ends. Nothing in the
code stops an application from calling what has ended, so the model does not
either: `UseEnded` is any call of an adapter that is no more (`~UOP_Adapter` leaves the
addresses of the buffers it deletes, so that a packet written there is written to, or
deletes, memory that was returned), `DestroyAgain` its second end, `CallEnded` any call
of a UOP that is no more, and `AddAdapter` takes an adapter that has ended.

The rules are nowhere written in the repository; they are the weakest found that
keep `undefined` away. There are eight:

1. add no `NULL`;
2. add no adapter twice;
3. add no adapter that has ended;
4. call no adapter after its end;
5. end no adapter that is registered;
6. end no adapter again, one that the UOP has ended included;
7. call no UOP after its end;
8. end the UOP once.

Rules 4, 6, 7 and 8 forbid a call that is undefined at once. What breaks one of the
others is not: it goes wrong when `Core` or `~UOP` gets there, perhaps never, and
that nothing else goes wrong so late is what `RulesSuffice` is about. An address may
be used again, and then counts as a new adapter.

Left out: ids (`GetID`, a counter), the contents of buffers, copies of an adapter or
of a UOP (neither class has a copy constructor, so a copy shares its buffers). The memory of an adapter
made by `AddNewAdapter` is never returned by `~UOP`; `dead` is that state.

### LibCrc

The six files `crc8.c`, `crc16.c`, `crc32.c`, `crcccitt.c`, `crcdnp.c`, `crckrmit.c` are the
same program with another width, polynomial, start value and ending; `LibCrcFiles`
has them as records, and a behaviour of `LibCrc` begins by choosing one. A byte, a
register, a polynomial is the set of the positions of its 1 bits: XOR is symmetric
difference, a shift moves positions, a cut to the width is an intersection - so
that the width of `uint16_t` and the promotion to `int` are in the model, and a proof
for every polynomial is set theory. `crcccitt.c` shifts to the left: it is modelled
bit-reversed.

State: the flag and the parts of the table that are filled; per caller (threads, or
an application and its interrupts) the place in its call, the entry to be filled
next, the bytes left and the register. Actions: `OnePass`, `UpdateFirst` and `UpdateNext` begin a
call, `Construct` is `UOP_Codec`'s constructor, which fills the tables whatever the
flag says; `Check`, `Fill`, `SetFlag`, `LookUp`, `Return` are its steps, and any caller may
run between any two of them. In the proofs `Parts` is any division of the table, one
entry each included.

Assumed: statements take effect in program order, as the build does it (`g++ -g`,
no optimisation: neither flag nor table is volatile), and an entry is stored at
once. `update_crc_dnp` and `update_crc_kermit` return the register without the final
complement and swap of the one-pass functions; so does the model.

## 3. Runs

| Run | Specification | Shows |
|---|---|---|
| `tx_traffic` | `Spec` | types, account of bytes, one chunk in the stream (two at most with both sources of completions), no lost completion, results, pauses, timeouts; settings fixed, all modes of flow control |
| `tx_reconfigure` | `ReconfigureSpec` | account of bytes and refinement of `UOP_PacketSender` with settings calls at any moment |
| `tx_returns` | `SchedulerSpec` | a synchronous `WritePacket` returns if the stream works and, with `TxComplete` alone, over any stream; without `StreamOutEmpty`, bytes keep going out whatever times out |
| `tx_wedged` (violation) | `BusySpec` | with `StreamOutEmpty` they do not |
| `rx_calls` | `Spec` | positions and count stay in the buffer, round its end, through the faulty branches and over changes of its size too |
| `rx_in_turn` | `BurstInTurnSpec` | refinement of `UOP_ByteChannel`: whole calls in both modes, and, without packet mode and flushes, `Write` between the statements of a read and between the load and the store of one; in packet mode the buffer holds bytes of one packet only, by what an observer of the wire has seen |
| `rx_block_wraps` (violation) | `Spec` | a block round the end of the buffer is damaged |
| `codec_frames` | `Spec` | types, memory, causes of overruns, intact packets are accepted, no single wrong byte would be, refinement of `UOP_FrameChannel` |
| `codec_flags` (violation) | `Spec` | a frame used again is sent with the DZ flag of the one before |
| `link` | `LinkSpec` | with pauses that fit the receiver's gap and the wire, every read returns one chunk whole, and nothing is refused, though nobody may read |
| `registry` | `Spec` | eight rules suffice, calls of what has ended included, the list is what the application expects, no buffer is lost, refinement of `UOP_AdapterList` |
| `crc_callers` | `Spec` | for each file and two callers: no entry is used before it is filled, the published results, a burst of errors not longer than the register shows, refinement of `LibCrcSerial` |

Bounds. Packets of 0 to 3 bytes with chunk sizes 0, 1, 2: empty packet, one chunk,
a whole and a partial last chunk, and three chunks, so that a wait and a pause
lie between two others. Two packets in a row and any number after them, since
runs are not bounded in length. Delays 0, 1, 2 with timeouts 1 and 4 lie on both
sides of each other; `Horizon` is the largest delay. `Depth` 2, in `tx_traffic` 3, lets
chunks overlap if the code allows it. On the receive side a buffer of 3 bytes (made 4, or 2, which overruns it), blocks of 2 and
4 (more than fits), reads of 1 and 3, gaps 0 and 1: blocks end before, at and
past the end of the buffer and reads take part of, exactly and more than what
is held. Two byte values tell a wrong byte from a right one. These runs use no symmetry.

Six frames for the codec: both types that have a layout and one that has none; with
data, without, with less and with more of it than `data_size` says, so that buffers
grow, shrink and grow back; fields that look like markers (170, 162, 93) and fields
that do not fit into a byte (257, 300). Losses from 0 to 4 bytes: nothing, half
of the preamble, the preamble, and both ways into the marker. Data of at most two
bytes: that `data_size` is cut to a byte is seen by the proof, not by the run. The
checksums are sums of the right widths, one that does not depend on the order of
the bytes and one that does; both tell strings apart that differ in one byte (the
factor is odd, the modulus a power of 2), as XOR and the CRCs do. A real CRC would
change no outcome the properties speak of.

`link`: one packet that goes as a chunk of two bytes or, when the driver takes it in
parts, as two of one byte. `Latency` 1 and a gap of 0 make 2 the smallest pause that
is long enough and 4 the smallest timeout; with either inequality of `Separated`
weakened to `>=` TLC finds violations, so the hypothesis is not stronger than it
has to be. `ReadTimeout` 1 lets reads time out. `registry`: three
adapters, a list that starts with room for one and grows to three, seven buffers,
so that an adapter can leak and another still be made; the three places are
symmetric, and no property tells them apart. `crc_callers`: the nine digits for which
catalogues publish results, no byte, and strings of two bytes that differ in one of
them or, close together, in both; the table in four parts, so that a call can be interrupted while it fills it.

`tx_reconfigure`, `rx_calls`, `rx_block_wraps`, `registry` and the codec's runs switch deadlock checking
off: the program does stop where its behaviour is undefined. All other runs check
for deadlock; in `link` that shows that the assumption on the wire, which holds the
clock back, never leaves the two adapters without a step.

Fairness. `SchedulerSpec`: the loop of a synchronous `WritePacket` goes on
(`WF` of a poll while `blocked`), a `StreamWrite` call returns, the clock runs.
`StreamFairness` is a stream that works: chunks drain, completions are delivered,
and - strong fairness, because the offer comes and goes with the pauses - a driver
that is offered bytes again and again takes some. `WritePacketReturns` takes it as
a hypothesis, because its companion has to do without. `BusySpec` adds to both an
application that polls and sends non-empty packets again and again, as the loop in
`UOP_Test.cpp` does; `StreamRecoversByTxComplete` takes both as hypotheses, and a driver
that refuses bytes only while it holds some.
No liveness is claimed for the other parts: `ReadPacket`'s loop ends with its
timeout, everything else is a call that returns.

## 4. Findings

1. **`UOP_Adapter.cpp:155`, `tx_wedged`.** With `StreamOutEmpty` the timeout is
   tested before the stream is asked, and a timeout leaves `TxEmpty` false. A new
   packet sets `LastOutcomeTime` to 0, so its wait is over `TimeoutDelay` at once:
   every later packet times out, though the stream has long been empty.
2. **`UOP_Adapter.cpp:84`, `rx_block_wraps`.** `write_pos` is 0 after a block went
   round the end, not the length of its second part.
3. **`UOP_Codec.cpp:182`, `codec_flags`.** `UOP_Codec.h:21` says that DZ is set if
   there is no data. The encoder sets it in the caller's frame and nothing clears it:
   a frame encoded empty and then with data is accepted as one without data.

Seen while modelling, without a statement of the repository that a run could refute:

* The poll after a timeout returns `UOP_OK` (line 150): the result can be read once.
* The second branch of `ReadAll` (line 105) uses `size` where `size_max` is meant,
  subtracts the second part only and leaves `read_pos` at 0: a read round the end
  returns bytes twice or passes a negative length to `memcpy`.
* With the default delays, 5 ms to send and 5 ms to receive, the pauses neither
  reliably separate two chunks nor reliably join them.
* `AddAdapter` never refuses an adapter: the limit of 50 is the capacity the list
  starts with. It takes `NULL` while there is room, and `Core` then calls through it.
* `SetStreamWriteFunc(NULL)` in the middle of a packet lets the next poll call `NULL`.
* An interrupt between the load and the store of `size` in `ReadAll` (line 101) loses
  what it counted; those bytes are not read until the buffer is flushed, and then lost.
* `UOP_Test.cpp:84` ends its UOP by name, and the end of `main` ends it again.
* The header defines a lock for `input` that nothing takes; in packet mode an
  interrupt during `ReadAll` (line 101) makes the count negative.
* `UOP_Buffer::Resize` shrinks the memory and keeps the old `buffer_size`: a
  buffer that grows back to its largest size is written past its end.
* Type A has no data in its layout; a type A frame with data is copied past the end
  of the packet. Types C and D have no layout at all.
* A packet can be decoded once only: the decoder zeroes its checksum.

## 5. Proofs

Proved: both sides of the adapter, the two of them over a wire, buffer and codec, the
registry, and libcrc.

### Transmit side

For every set of bytes, packets, chunk sizes and delays, every `Horizon` and every
`Depth`. Assumed is `TxAssumption` only: chunk sizes are naturals, delays at most
`Horizon`, `Depth` positive.

`UOP_AdapterTx_proofs` - the inductive invariant is `Inv == TypeOK /\
DeliveredPrefix`. Neither half is inductive alone: that `sent` is a sequence of
bytes follows from its being a prefix of the packet, and that a chunk lies within
the packet needs the type. `TakeMore` (two adjacent pieces of a sequence make one)
carries the step of `StreamWrite`; `LeaveInv` covers at once all polls that do not
reach it. It yields, for `ReconfigureSpec` and so for `Spec` too:

* `TypeCorrect`, `Delivered`;
* `EndReported` (`EndIsReported`): `EndStep` shows that only a timeout, a
  completed packet or the return of `StreamWrite` ends a packet, `AllSent` that the
  account is then closed;
* `ImplementsSender`: the refinement of `UOP_PacketSender`, for chunk sizes other
  than 0 - with 0 the code ends a packet with `UOP_OK` and sends nothing.

Its second half is about `Spec`, because settings calls in the middle of a
packet set `TxEmpty` or change the delays these properties speak of:

* `OneChunk`, `CompletionKept` from `FlowInv`: `OneChunkInFlight` is strengthened by
  what `TxEmpty` means (no chunk out, no interrupt due) and by a chunk being
  either out or reported, not both;
* `TwoChunks` (`TwoChunksAtMost`), what is left of it with both sources: a chunk may be
  reported out twice, and the second report counts for the chunk behind it. That
  does not add up: `TwoSources`, the third part of `FlowInv`, says that a chunk in the
  stream, an interrupt that is due and the leave to send are two things at most;
* `Paced`, `NotPremature` from `PaceInv`: while bytes of the packet are out,
  `LastOutcomeTime` is the time of the last chunk; a packet with neither a wait nor
  a pause behind it has sent nothing; an adapter that may send the first chunk of
  a packet has served the pause of the packet before.

Last, the clocks. `HorizonSuffices`: a model whose clocks run on to any horizon
implements the one that cuts them off at a smaller one, `Coarse`, as long as no delay
is larger (`Fits`), settings calls included. So cutting off is no restriction: what
holds of the cut model, on the values TLC gives it too, holds whatever `GetTime_ms`
has come to. Every question the code asks of a clock has the same answer
(`CutAnswers`), a millisecond is one on both (`CutTicks`), and where the cut clock
stands still it stutters. The receive side has a theorem of the same name.

### Buffer and codec

For all frames (any field values, any data), all losses, all garbage and every
`Checksum`. Assumed are `CodecAssumption` (what is filled in has the type of a frame)
and, as a hypothesis of each theorem, `ChecksumsAreBytes`: the two checksums the
layouts use return bytes. It is not an `ASSUME`, because TLC cannot evaluate it.

`UOP_Codec_proofs` - the inductive invariant `Inv` says of every buffer that it holds
as many bytes as its size and how it has been used: a `Growing` one (only written
to: the frame's data, the arriving packet) has all its memory, a `Reused` one (resized
by the codec: the sender's packet, the receiver's data) has memory for its contents
unless it is back at its largest size. `EncodedFrame` and `ReadsInside` are the two
arguments about positions: what the encoder writes is exactly as long as
`GetFrameSize` says, and what the decoder reads lies within the packet once
`IsPacket` holds. It yields, for `Spec`:

* `TypeOKHolds`, `BuffersHoldAlways`;
* `OverrunCausesHold`: memory is overrun for the three reasons listed in
  `OverrunCauses`, never because of the bytes that arrive alone.

`UOP_CodecFlow_proofs` - for applications that write the flags of each frame anew
(`KeepFlags = FALSE`; without it `codec_flags` is the counterexample). `FlowInv` has
three parts. `OwnFlagsInv`: the frame's flags are the application's, with at most what
the encoder adds for this frame. `SentInv`: the sender's packet is laid out as `IsA` or
`IsB` of its content - positions, complement, checksum, size byte and data.
`ArrivedInv`: what arrived is what is left (`IsRest`) of such a packet, and still
`Acceptable` as long as nobody has decoded it, or shows no marker. The steps that
matter: `EncodedFlagsTell` (added bits tell data from no data and the checksum
from the others, and the flags are no marker nor the complement of one),
`WithoutPreamble` (the checksum does not change when the preamble is lost),
`BeginningLost` (the rest of a broken marker is none), `SealedSeal` and `RestMatches`
(the decoder zeroes the field the encoder had zeroed, so both compute the same
checksum, whatever it is), `DataFetches`. It yields:

* `IntactAlwaysAccepted` (`IntactIsAccepted`);
* `ImplementsChannel`: the refinement of `UOP_FrameChannel`;
* `WrongByteAlwaysRefused` (`WrongByteIsRefused`), for any set `WrongBytes` and so for all bytes, under one more hypothesis,
  `ChecksumsShow`: a checksum tells two strings of one length apart which differ in one
  byte. XOR does; for the CRCs `OneErrorShows` of `LibCrc_proofs` proves it. The proof is about
  what is summed: the sum covers every byte from the flags on (`PartDiffers`), and
  zeroing the checksum field leaves the wrong byte unless it is the checksum itself
  (`ZeroedDiffers`), which is then compared (`WrongByteShows`). The two cases the
  property leaves out are real: other bits of CS make the receiver compute another
  checksum, and flags that become a byte of the marker move where the sum begins.

### Receive side

For every set of bytes, buffer size, block and delay. Assumed are `RxAssumption` and,
as a hypothesis of each theorem, which uses of the adapter there are.

`UOP_AdapterRx_proofs` - of `Spec`, with all the ways round the end of the buffer and
the faulty branches, for adapters whose packet mode is not interrupted
(`PacketModeIsPolled`; with both the count becomes negative). `IInv` adds to the two
properties what makes them inductive: `Reading`, a read that has begun finds what it
is going to take, because nothing but the flush of packet mode could take it away, and
what it has loaded is no less than that. It yields `TypeCorrect` and `CountInRange`
(`SizeInRange`).
`OnePacket` (`OneBurst`) is about `BurstSpec`, with the observer of the wire. It rests
on two relations between what the observer knows and what the code goes by
(`BurstInv`): the last byte taken is no younger than the last one offered, so a silence
that ends a burst on the wire is a gap for the code; and while nothing of the running
burst has been taken, what is held is old enough to be flushed. The application only
takes bytes away (`ApplicationTakes`).
`HorizonSuffices` is about any use of the adapter: its clock cut off behind the largest
gap tells the same as one that runs on.

`UOP_AdapterRxFlow_proofs` - of `InTurnSpec`, for adapters that are not interrupted or
use neither packet mode nor flushes (`InterruptsNoFlush`). `InOrder` says what an
adapter looks like whose stream stays within the buffer: what is held lies between
`read_pos` and `write_pos`, less what a read has copied, wherever the application is - and the count is at most
that many, for it may have missed a `Write`.
So `HeldPlain`: the bytes held do not go round the end. `StoredBytes` and `BytesCut` are
the effect of a `Write` and of a read on them. It yields:

* `StaysDefined` (`ReadAllStaysDefined`);
* `ImplementsChannel`: the refinement of `UOP_ByteChannel`.

### Two adapters

`UOP_Link_proofs` - for every packet, chunk size, buffer size, block and read, every delay
and `Latency`, and with the receiver interrupted between any two of its steps, those between load and
store of the count included. Assumed are `TxAssumption` and `LinkAssumption`.

* `SenderAlone`: `LinkSpec => Spec`, step by step (`SenderStep`). The wire and the receiver
  only watch the sender or take its completions, which `UOP_AdapterTx` has as steps of
  its own (`Driven`: the link never takes `StreamWrite` away, so that the step that calls
  `NULL` is not reached); so everything proved of the transmit side holds in the link,
  and `Inv` and `PaceInv` are used here.
* `LinkTypeCorrect` from `LinkInv == LinkTypeOK /\ Positions`, whatever the delays. The
  receiver alone may run into its faulty branches; `Positions` says why it does not
  here: each read is followed by a flush, so `read_pos` is 0 when a read begins, and
  the count is not negative while the application is between two of its calls or
  flushes. It is where a chunk smaller than the buffer is needed.
* `NothingRefused` (`RoomForTheNext`) and `WholeChunks` (`ReadsWholeChunks`) from
  `SeparateInv`, which holds as long as the pauses are `Separated`. Its parts: `Timing`, at
  most one chunk is under way, it is as old as the sender's pause says, and with
  none the receiver has been quiet as long as the sender less the latency - so a
  chunk begins after a gap, even one that a timeout lets go early, and packet mode
  flushes what nobody has read; `Account`, how many bytes of the latest chunk have come;
  `Counted`, that `size` is no more than that, or stale and then at most a chunk less two
  bytes more: the old count was that of a chunk, the read has taken a byte of it at
  least, and a byte of the next has come;
  `Content`, that they stand in the buffer from its beginning on, unless bytes came at a
  bad moment (`torn`). None is inductive alone: where a chunk lies depends on when it
  began, and that depends on no other being under way. `SendsTiming` and
  `ReaderContent` are the central steps: no chunk is sent while another is on its way,
  and the reader starts only on a whole one.
* `NeverOverruns`, from the same invariant: no read hands `memcpy` a length its buffers
  have no room for, though packet mode may empty the buffer between any two steps of
  it. It is proved only: the run that would show it on an instance where it can go
  wrong (a buffer of four) takes too long to be kept.

### Registry

`UOP_Registry_proofs` - for any finite number of places, any capacity and any bounds.
`IInv` adds `Counted` to the properties - that at least the live adapters' buffers are
allocated, and exactly those if nothing is lost, so that none is deleted twice - and that
a closed UOP has an empty list. `Index` and `Removed` are about a search that finds
the first of several equal entries; `AppendedOnce`, `RemovedOnce` about lists without
repetition. It yields `TypeCorrect`, `RulesSufficeAlways`, `LedgerAgreesAlways`,
`NothingLostAlways`, and `Implements`, the refinement of `UOP_AdapterList`.

### libcrc

`LibCrc_proofs` - for every width, polynomial, start value and string, any number of
callers, and any division of the table into parts. First the arithmetic:
`EntriesAgree`, entries computed in the register and beside it are the same;
`LookUpDivides`, one look-up is eight rounds of the division, because a round of the
division is linear (`DivideBitMixed`) and the high bits only move down (`RoundsHigh`);
`OneByteShows`, different registers stay different, because the polynomial's highest
bit is set - so a single wrong byte is never missed. Then the callers: `IInv` says that
a set flag means a filled table (`Ready`), that a caller who fills it has filled what
lies behind it (`Filling`), and that whoever is past the check has a table
(`PastCheck`). It yields `TypeCorrect`, `LookUpsCorrect` and `Refinement`.

Last, whole strings. `Left` is what a division leaves of a string, stated without
recursion: the end of a trace of registers, one per byte (`LeftOfNone`, `LeftOfMore`).
`BurstShows`: of two strings of one length whose wrong bits lie, from the first to the
last, within the width of the register, the traces end apart. The difference of two
traces is divided like a string of its own (`RoundsDifference`: the division is
linear), so it is enough to follow it from the first wrong bit on: `Reaches` says how
far down the register it has come, and until it has come all the way no bit of the
burst can fall behind it and cancel it (`RoundReaches`, `RoundsReach`). One wrong byte is
a burst, whatever is wrong in it (`OneErrorShows`). Instead of an induction, which the
provers do not have, the proof takes the first place of the traces where it would be
otherwise (`Least`, from the well-foundedness of the naturals) and contradicts it with
the step before. The invariant `Traced` says that a caller's register
is what the table-driven code leaves of the bytes it has been fed, `FinishKeepsApart` that
complement and byte swap lose nothing; together they are `ErrorsAreShown` (`ErrorsShow`).

Only model-checked: everything about liveness (out of the prover's reach), and
`PublishedResults` of `libcrc`, which is about numbers. Not provable because false: the
properties of the violation runs. Of the six files the proofs use `IsLibrary` only: the
polynomial fits the width and its highest bit is set, and only 16-bit registers are
swapped. TLC evaluates it for the records of `LibCrcFiles`.

## 6. Not modelled

* `UOP_Interaction` has no behaviour. `GetVersion` and `GetID` return a value, `delay_ms`
  is a busy wait that only the test uses.
* `UOP_Test.cpp` is a manual program; the driver it passes in is one of those
  `UOP_AdapterTx` allows, and its two destructions of the UOP are steps of `UOP_Registry`.
* `crcsick.c` and `nmea-chk.c`: pure functions without table or state, which UOP does
  not use. (Nor does it use `crcccitt.c`, `crcdnp.c` and `crckrmit.c`, which are modelled,
  being the same program.)
* `PacketModeEnable`, `PacketModeDisable` and `SetIncomePacketDelay` after the first byte.
* Nested polls, threads of the adapter (as opposed to interrupts), and what happens
  after memory has been overrun.

## 7. Plan

Done, with runs and proofs: `UOP_AdapterTx`; `UOP_Buffer`, `UOP_Codec`; `UOP_AdapterRx`;
`UOP_Link`; `UOP_Registry`; `LibCrc`.

What is left, should the code grow into it:

1. Frames over the link: `UOP_Codec` at both ends, once the code has something that
   calls encoder and adapter together (`Core` and `UOP_Interaction` do nothing yet).
2. Packet mode switched on and off while bytes are held.
