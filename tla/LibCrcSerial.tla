---------------------------- MODULE LibCrcSerial -----------------------------
(***************************************************************************)
(* What a file of libcrc promises to each of its callers, however many     *)
(* there are: the register of a call goes through the bit by bit division  *)
(* of the caller's bytes.  There is no table to be ready or not.           *)
(***************************************************************************)
EXTENDS LibCrcBits

CONSTANTS Caller

VARIABLES
    lib,
    call,                 \* per caller: the call in progress, or none
    rest,                 \* per caller: bytes still to be divided
    crc                   \* per caller: the register

vars == <<lib, call, rest, crc>>

Init ==
    /\ IsLibrary(lib)
    /\ call = [p \in Caller |-> "none"]
    /\ rest = [p \in Caller |-> <<>>]
    /\ crc = [p \in Caller |-> {}]

(* A one-pass call divides its bytes from a start value, an update one     *)
(* byte from there or from where the caller's last call ended; a           *)
(* constructor leaves the register alone.                                  *)
Call(p, kind) ==
    /\ call[p] = "none"
    /\ call' = [call EXCEPT ![p] = kind]
    /\ rest'[p] \in Seq(Byte)
    /\ rest' = [rest EXCEPT ![p] = rest'[p]]
    /\ kind = "construct" => rest'[p] = <<>>
    /\ kind = "update" => Len(rest'[p]) = 1
    /\ crc'[p] \in (IF kind = "construct" THEN {} ELSE lib.starts)
                      \cup (IF kind = "one_pass" THEN {} ELSE {crc[p]})
    /\ crc' = [crc EXCEPT ![p] = crc'[p]]
    /\ UNCHANGED lib

Divide(p) ==
    /\ rest[p] # <<>>
    /\ crc' = [crc EXCEPT ![p] = DivideByte(lib.poly, crc[p], Head(rest[p]))]
    /\ rest' = [rest EXCEPT ![p] = Tail(rest[p])]
    /\ UNCHANGED <<lib, call>>

Return(p) ==
    /\ call[p] # "none" /\ rest[p] = <<>>
    /\ call' = [call EXCEPT ![p] = "none"]
    /\ crc' = [crc EXCEPT ![p] = IF call[p] = "one_pass" THEN Finish(lib, crc[p])
                                 ELSE crc[p]]
    /\ UNCHANGED <<lib, rest>>

Next ==
    \E p \in Caller :
        \/ \E kind \in {"one_pass", "update", "construct"} : Call(p, kind)
        \/ Divide(p)
        \/ Return(p)

Spec == Init /\ [][Next]_vars

=============================================================================
