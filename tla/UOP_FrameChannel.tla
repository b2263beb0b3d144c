--------------------------- MODULE UOP_FrameChannel ---------------------------
(***************************************************************************)
(* What UOP_Codec is for, with markers, layout and checksums left out: a   *)
(* frame is put into a packet, the packet is carried to the receiver and   *)
(* taken apart there.  The decoder may refuse; what it accepts is what the *)
(* encoder was given.                                                      *)
(***************************************************************************)
CONSTANTS
    Content,      \* what a packet can carry
    Unknown       \* nothing is known of it; not in Content

VARIABLES
    packed,       \* what is in the sender's packet
    carried,      \* what is in the receiver's packet
    received,     \* the receiver's frame
    ok            \* what the last DecodePacket returned

vars == <<packed, carried, received, ok>>

Init ==
    /\ packed = Unknown
    /\ carried = Unknown
    /\ received = Unknown
    /\ ok = FALSE

Encode ==
    /\ packed' \in Content \cup {Unknown}
    /\ UNCHANGED <<carried, received, ok>>

(* Of what is damaged on the way nothing is known.                         *)
Carry ==
    /\ carried' \in {packed, Unknown}
    /\ UNCHANGED <<packed, received, ok>>

Accept ==
    /\ ok' = TRUE
    /\ carried # Unknown => received' = carried
    /\ UNCHANGED <<packed, carried>>

Refuse ==
    /\ ok' = FALSE
    /\ received' = Unknown
    /\ UNCHANGED <<packed, carried>>

(* The receiver is done with the packet.                                   *)
Drop ==
    /\ carried' = Unknown
    /\ UNCHANGED <<packed, received, ok>>

Next == Encode \/ Carry \/ Drop \/ Accept \/ Refuse

Spec == Init /\ [][Next]_vars

=============================================================================
