---------------------------- MODULE MC_AdapterRx ----------------------------
(* Instances of UOP_AdapterRx for TLC.                                    *)
EXTENDS UOP_AdapterRx

MCByte == 1..2

(* A block of two different bytes and one that does not fit the buffer.    *)
MCData == {<<1, 2>>, <<2, 1, 1, 2>>}

(* Where only bytes are counted, one value is enough.                      *)
OneByte == {1}
OneByteData == {<<1, 1>>, <<1, 1, 1, 1>>}

(* Each call whole.                                                        *)
Polled == [PacketMode : BOOLEAN, preemptive : {FALSE}, flushes : {TRUE}]
PolledStream == {use \in Polled : ~use.PacketMode}

(* Write interrupts the calls, of an application without packet mode that  *)
(* does not flush.                                                         *)
PreemptedStream == [PacketMode : {FALSE}, preemptive : {TRUE}, flushes : {FALSE}]

PolledOrStream == Polled \cup PreemptedStream

=============================================================================
