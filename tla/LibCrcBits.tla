----------------------------- MODULE LibCrcBits ------------------------------
(***************************************************************************)
(* The arithmetic of libcrc's CRCs.  A register is the set of its 1 bits,  *)
(* numbered in the order in which it shifts them out: from bit 0 upwards   *)
(* in the files that shift to the right, from the top bit downwards in     *)
(* crcccitt.c, which shifts to the left.  A byte is numbered the same way, *)
(* so one definition stands for both directions: only the polynomial and   *)
(* the start value are written down mirrored.                              *)
(***************************************************************************)
EXTENDS Integers, Sequences

Bits == 0..31
ByteBits == 0..7
Byte == SUBSET ByteBits

Xor(r, s) == (r \ s) \cup (s \ r)
Shift(r, n) == {b \in Bits : b + n \in r}

(* What the files differ in.  width: bits of the register; poly:           *)
(* CRC_POLY_x; starts: CRC_START_x of each function of the file;           *)
(* complements, swaps: what is done to the result of a one-pass function;  *)
(* static: the table is part of the program text; inRegister: entries are  *)
(* computed in the register itself; constructed: the constructor of        *)
(* UOP_Codec fills the table.                                              *)
Library ==
    [width : 8..32, poly : SUBSET Bits, starts : SUBSET (SUBSET Bits),
     complements : BOOLEAN, swaps : BOOLEAN, static : BOOLEAN,
     inRegister : BOOLEAN, constructed : BOOLEAN]

Register(lib) == SUBSET (0..lib.width - 1)

(* A polynomial that divides by something: its highest power is the bit    *)
(* the register is filled up from.                                         *)
IsLibrary(lib) ==
    /\ lib \in Library
    /\ lib.poly \in Register(lib)
    /\ lib.width - 1 \in lib.poly
    /\ lib.starts \subseteq Register(lib)
    /\ lib.swaps => lib.width = 16

-----------------------------------------------------------------------------
(* One round of the loop over j in the init functions, for a register crc  *)
(* and the data c still to be divided.                                     *)
DivideBit(poly, d) ==
    [crc |-> IF (0 \in d.crc) # (0 \in d.c) THEN Xor(Shift(d.crc, 1), poly)
             ELSE Shift(d.crc, 1),
     c |-> Shift(d.c, 1)]

Divide2(poly, d) == DivideBit(poly, DivideBit(poly, d))
Divide8(poly, d) == Divide2(poly, Divide2(poly, Divide2(poly, Divide2(poly, d))))

(* Division of one more byte, bit by bit: what a CRC is, without a table.  *)
DivideByte(poly, crc, byte) == Divide8(poly, [crc |-> crc, c |-> byte]).crc

(* An entry of the table: byte divided from an empty register.             *)
TableEntry(poly, byte) == DivideByte(poly, {}, byte)

(* init_crc32_tab starts with the byte in the register instead.            *)
DivideRegister(poly, r) ==
    IF 0 \in r THEN Xor(Shift(r, 1), poly) ELSE Shift(r, 1)
Divide2Register(poly, r) == DivideRegister(poly, DivideRegister(poly, r))

\* Mutant: a round of the loop is missing.
EntryOfSevenRounds(poly, byte) ==
    DivideRegister(poly, Divide2Register(poly, Divide2Register(poly,
        Divide2Register(poly, byte))))

TableEntryInRegister(poly, byte) ==
    Divide2Register(poly, Divide2Register(poly,
        Divide2Register(poly, Divide2Register(poly, byte))))

\* Mutant: the lowest bit of the byte is lost.
TableIndexEven(crc, byte) == Xor(crc, byte \ {0}) \cap ByteBits

(* The entry of the table a byte is looked up in.                          *)
TableIndex(crc, byte) == Xor(crc, byte) \cap ByteBits

-----------------------------------------------------------------------------
(* What a one-pass function does to the register before it returns it.     *)
Complement(lib, r) == IF lib.complements THEN (0..lib.width - 1) \ r ELSE r

SwapBytes(lib, r) == IF lib.swaps THEN {b \in 0..15 : (b + 8) % 16 \in r} ELSE r

\* Mutant: the bytes are not swapped.
FinishUnswapped(lib, r) == Complement(lib, r)

\* Mutant: the complement comes last and is as wide as an int.
FinishAtIntWidth(lib, r) ==
    IF lib.complements THEN Bits \ SwapBytes(lib, r) ELSE SwapBytes(lib, r)

Finish(lib, r) == SwapBytes(lib, Complement(lib, r))

-----------------------------------------------------------------------------
(* The table of crc8.c, as it is written there.                            *)
Crc8Table ==
    <<0, 94, 188, 226, 97, 63, 221, 131, 194, 156, 126, 32, 163, 253, 31, 65,
      157, 195, 33, 127, 252, 162, 64, 30, 95, 1, 227, 189, 62, 96, 130, 220,
      35, 125, 159, 193, 66, 28, 254, 160, 225, 191, 93, 3, 128, 222, 60, 98,
      190, 224, 2, 92, 223, 129, 99, 61, 124, 34, 192, 158, 29, 67, 161, 255,
      70, 24, 250, 164, 39, 121, 155, 197, 132, 218, 56, 102, 229, 187, 89,
      7, 219, 133, 103, 57, 186, 228, 6, 88, 25, 71, 165, 251, 120, 38, 196,
      154, 101, 59, 217, 135, 4, 90, 184, 230, 167, 249, 27, 69, 198, 152,
      122, 36, 248, 166, 68, 26, 153, 199, 37, 123, 58, 100, 134, 216, 91, 5,
      231, 185, 140, 210, 48, 110, 237, 179, 81, 15, 78, 16, 242, 172, 47,
      113, 147, 205, 17, 79, 173, 243, 112, 46, 204, 146, 211, 141, 111, 49,
      178, 236, 14, 80, 175, 241, 19, 77, 206, 144, 114, 44, 109, 51, 209,
      143, 12, 82, 176, 238, 50, 108, 142, 208, 83, 13, 239, 177, 240, 174,
      76, 18, 145, 207, 45, 115, 202, 148, 118, 40, 171, 245, 23, 73, 8, 86,
      180, 234, 105, 55, 213, 139, 87, 9, 235, 181, 54, 104, 138, 212, 149,
      203, 41, 119, 244, 170, 72, 22, 233, 183, 85, 11, 136, 214, 52, 106,
      43, 117, 151, 201, 74, 20, 246, 168, 116, 42, 200, 150, 21, 75, 169,
      247, 182, 232, 10, 84, 215, 137, 107, 53>>

BitsOf(n) == {b \in ByteBits : (n \div 2^b) % 2 = 1}

StaticTable ==
    [byte \in Byte |->
        BitsOf(Crc8Table[1 + (CHOOSE n \in 0..255 : BitsOf(n) = byte)])]

(* What a file fills its table with.                                       *)
EntryOf(lib, byte) ==
    IF lib.static THEN StaticTable[byte]
    ELSE IF lib.inRegister THEN TableEntryInRegister(lib.poly, byte)
    ELSE TableEntry(lib.poly, byte)

=============================================================================
