-------------------------- MODULE UOP_ByteChannel ---------------------------
(***************************************************************************)
(* What the receive side of UOP_Adapter is for, with the ring buffer, its  *)
(* positions and time left out: bytes that arrive are kept in the order in *)
(* which they came, as far as there is room; a read takes the oldest ones; *)
(* everything held may be discarded, in packet mode also by an arrival.    *)
(***************************************************************************)
EXTENDS Integers, Sequences

CONSTANTS
    Data          \* what the stream can offer in one call

VARIABLES
    packetMode,
    offered,      \* what the stream offered last
    held,         \* bytes received and not yet read
    got           \* what the last read returned

vars == <<packetMode, offered, held, got>>

Init ==
    /\ packetMode \in BOOLEAN
    /\ offered = <<>>
    /\ held = <<>>
    /\ got = <<>>

(* A prefix of the data is kept, behind the bytes held or in their place.  *)
Arrive(data) ==
    /\ offered' = data
    /\ \E n \in 0..Len(data) :
          \/ held' = held \o SubSeq(data, 1, n)
          \/ packetMode /\ held' = SubSeq(data, 1, n)
    /\ UNCHANGED <<packetMode, got>>

Take ==
    /\ \E n \in 0..Len(held) :
          /\ got' = SubSeq(held, 1, n)
          /\ held' = SubSeq(held, n + 1, Len(held))
    /\ UNCHANGED <<packetMode, offered>>

(* A read that has waited in vain.                                         *)
TakeNothing ==
    /\ got' = <<>>
    /\ UNCHANGED <<packetMode, offered, held>>

Discard ==
    /\ held' = <<>>
    /\ UNCHANGED <<packetMode, offered, got>>

Next ==
    \/ \E data \in Data : Arrive(data)
    \/ Take
    \/ TakeNothing
    \/ Discard

Spec == Init /\ [][Next]_vars

=============================================================================
