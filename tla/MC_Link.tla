------------------------------ MODULE MC_Link -------------------------------
(* Instances of UOP_Link for TLC.                                          *)
EXTENDS UOP_Link

MCByte == 1..2

(* One chunk, or two when the driver takes it in parts.                    *)
MCPackets == {<<1, 2>>}

=============================================================================
