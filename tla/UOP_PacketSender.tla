-------------------------- MODULE UOP_PacketSender --------------------------
(***************************************************************************)
(* What UOP_Adapter promises to whoever sends through it, with chunks,     *)
(* pauses, flow control and time left out: one packet at a time is taken;  *)
(* its bytes go out in order; it ends with OK when all of them are out, or *)
(* with WRITE_TIMEOUT; a packet offered meanwhile is refused and changes   *)
(* nothing.                                                                *)
(***************************************************************************)
EXTENDS Integers, Sequences

CONSTANTS Byte, Packets

VARIABLES
    running,   \* is a packet in progress?
    packet,    \* the last packet taken
    sent,      \* the part of it that is out
    ret        \* the last return value

vars == <<running, packet, sent, ret>>

Init ==
    /\ running = FALSE
    /\ packet = <<>>
    /\ sent = <<>>
    /\ ret = "OK"

Accept(p) ==
    /\ ~running
    /\ running' = TRUE
    /\ packet' = p
    /\ sent' = <<>>
    /\ ret' \in {"OK", ret}

(* "BUSY" while a packet is in progress; "ERROR" from an adapter that can- *)
(* not send at all.                                                        *)
Refuse ==
    /\ ret' \in {"BUSY", "ERROR"}
    /\ ret' = "BUSY" => running
    /\ UNCHANGED <<running, packet, sent>>

Transfer ==
    /\ running
    /\ \E n \in Len(sent)..Len(packet) : sent' = SubSeq(packet, 1, n)
    /\ UNCHANGED <<running, packet, ret>>

Progress ==
    /\ running
    /\ ret' = "RUNNING"
    /\ UNCHANGED <<running, packet, sent>>

Complete ==
    /\ running
    /\ sent = packet
    /\ running' = FALSE
    /\ ret' = "OK"
    /\ UNCHANGED <<packet, sent>>

GiveUp ==
    /\ running
    /\ running' = FALSE
    /\ ret' = "WRITE_TIMEOUT"
    /\ UNCHANGED <<packet, sent>>

(* A poll with nothing in progress says OK, whatever the last packet did.  *)
Query ==
    /\ ~running
    /\ ret' = "OK"
    /\ UNCHANGED <<running, packet, sent>>

Next ==
    \/ \E p \in Packets : Accept(p)
    \/ Refuse
    \/ Transfer
    \/ Progress
    \/ Complete
    \/ GiveUp
    \/ Query

Spec == Init /\ [][Next]_vars

=============================================================================
