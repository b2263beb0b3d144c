------------------------------ MODULE MC_LibCrc ------------------------------
(* Instances of LibCrc for TLC: every table-driven file of libcrc.         *)
EXTENDS LibCrc, LibCrcFiles

CONSTANTS a, b

MCLibraries == {Crc8, Crc16, Crc32, CrcCcitt, CrcDnp, CrcKermit}

ByteOf(file, n) == IF file = CrcCcitt THEN Mirrored(BitsOf(n), 8) ELSE BitsOf(n)

(* "123456789", the string the catalogues of CRCs give results for; no     *)
(* byte; and strings of two, one bit wrong or several, in both bytes.      *)
Digits == [n \in 1..9 |-> 48 + n]

MCMessages ==
    [file \in MCLibraries |->
        {[n \in DOMAIN s |-> ByteOf(file, s[n])] :
            s \in {<<>>, <<128, 255>>, <<129, 255>>, <<1, 254>>, Digits}}]

MCUpdateBytes == {BitsOf(254)}

(* 64 entries of the table in a row.                                       *)
MCParts == [n \in 1..4 |-> {BitsOf(m) : m \in 64 * (n - 1)..64 * n - 1}]

-----------------------------------------------------------------------------
(* The published results, high and low half, as the functions return them: *)
(* crc_8, crc_16, crc_modbus, crc_32, crc_xmodem, crc_ccitt_ffff,          *)
(* crc_ccitt_1d0f, crc_dnp and crc_kermit.                                 *)
Published(file, from) ==
    CASE file = Crc8 -> Ones(0, 161)
      [] file = Crc16 -> IF from = {} THEN Ones(0, 47933) ELSE Ones(0, 19255)
      [] file = Crc32 -> Ones(52212, 14630)
      [] file = CrcCcitt -> Mirrored(CASE from = {} -> Ones(0, 12739)
                                       [] from = 0..15 -> Ones(0, 10673)
                                       [] OTHER -> Ones(0, 58828), 16)
      [] file = CrcDnp -> Ones(0, 33514)
      [] file = CrcKermit -> Ones(0, 35105)

(* The one-pass functions compute the CRCs they are named after, and which *)
(* UOP_Checksum_Type promises: CRC-8/MAXIM, CRC-16/ARC, CRC-32/zlib.       *)
PublishedResults ==
    \A p \in Caller :
        Checked(p) /\ fed[p] = [n \in 1..9 |-> ByteOf(lib, Digits[n])]
            => crc[p] = Published(lib, start[p])

=============================================================================
