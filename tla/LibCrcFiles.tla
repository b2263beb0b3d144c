----------------------------- MODULE LibCrcFiles -----------------------------
(***************************************************************************)
(* The table-driven files of libcrc: the same code, each with its own      *)
(* flag, table, polynomial and start values.                               *)
(***************************************************************************)
EXTENDS LibCrcBits

(* The 1 bits of hi * 65536 + lo, and the same seen from the other end.    *)
Ones(hi, lo) ==
    {n \in 0..15 : (lo \div 2^n) % 2 = 1}
        \cup {n + 16 : n \in {m \in 0..15 : (hi \div 2^m) % 2 = 1}}

Mirrored(bits, width) == {width - 1 - n : n \in bits}

File(width, poly, starts) ==
    [width |-> width, poly |-> poly, starts |-> starts, complements |-> FALSE,
     swaps |-> FALSE, static |-> FALSE, inRegister |-> FALSE,
     constructed |-> FALSE]

(* 0x8C, that is x^8 + x^5 + x^4 + 1: written nowhere in crc8.c, which has *)
(* the table only.                                                         *)
Crc8 == [File(8, Ones(0, 140), {{}}) EXCEPT !.static = TRUE]

(* 0xA001; crc_16 starts with 0, crc_modbus with 0xFFFF.                   *)
Crc16 == [File(16, Ones(0, 40961), {{}, 0..15}) EXCEPT !.constructed = TRUE]

(* 0xEDB88320.                                                             *)
Crc32 ==
    [File(32, Ones(60856, 33568), {0..31}) EXCEPT
        !.complements = TRUE, !.inRegister = TRUE, !.constructed = TRUE]

(* 0x1021, to the left; start values 0, 0xFFFF and 0x1D0F.                 *)
CrcCcitt ==
    File(16, Mirrored(Ones(0, 4129), 16),
         {{}, 0..15, Mirrored(Ones(0, 7439), 16)})

(* 0xA6BC.                                                                 *)
CrcDnp ==
    [File(16, Ones(0, 42684), {{}}) EXCEPT !.complements = TRUE, !.swaps = TRUE]

(* 0x8408.                                                                 *)
CrcKermit == [File(16, Ones(0, 33800), {{}}) EXCEPT !.swaps = TRUE]

=============================================================================
