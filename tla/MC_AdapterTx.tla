---------------------------- MODULE MC_AdapterTx ----------------------------
(* Instances of UOP_AdapterTx for TLC.                                     *)
EXTENDS UOP_AdapterTx

MCByte == 1..3

(* Longer than two chunks, one chunk, and empty.                           *)
MCPackets == {<<1, 2, 3>>, <<2>>, <<>>}

MCTwoPackets == {<<1, 2>>, <<3>>}

=============================================================================
