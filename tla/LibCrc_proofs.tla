---------------------------- MODULE LibCrc_proofs ----------------------------
(***************************************************************************)
(* Looking a byte up in the table is the same as dividing it bit by bit,   *)
(* for every polynomial; and the table is filled whenever a byte is looked *)
(* up, for every number of callers and every way they interrupt each       *)
(* other.                                                                  *)
(***************************************************************************)
EXTENDS LibCrc, WellFoundedInduction, TLAPS

-----------------------------------------------------------------------------
(* Registers.                                                              *)
LEMMA ShiftBits == \A r, n : Shift(r, n) \in SUBSET Bits
BY DEF Shift

LEMMA ShiftDown ==
    \A n \in -1..6 : \A c : c \subseteq 0..n + 1 => Shift(c, 1) \subseteq 0..n
<1>1. SUFFICES ASSUME NEW n \in -1..6, NEW c, c \subseteq 0..n + 1, NEW b \in Shift(c, 1)
               PROVE  b \in 0..n
    OBVIOUS
<1>2. b \in Bits /\ b + 1 \in c
    BY <1>1 DEF Shift
<1>3. b + 1 \in 0..n + 1
    BY <1>1, <1>2
<1> QED
    BY <1>2, <1>3 DEF Bits

(* The same with the numbers put in.                                       *)
LEMMA ShiftDowns ==
    \A c : /\ c \subseteq 0..7 => Shift(c, 1) \subseteq 0..6
           /\ c \subseteq 0..6 => Shift(c, 1) \subseteq 0..5
           /\ c \subseteq 0..5 => Shift(c, 1) \subseteq 0..4
           /\ c \subseteq 0..4 => Shift(c, 1) \subseteq 0..3
           /\ c \subseteq 0..3 => Shift(c, 1) \subseteq 0..2
           /\ c \subseteq 0..2 => Shift(c, 1) \subseteq 0..1
           /\ c \subseteq 0..1 => Shift(c, 1) \subseteq 0..0
           /\ c \subseteq 0..0 => Shift(c, 1) = {}
<1>1. \A n \in -1..6, m \in 0..7 : \A c :
          m = n + 1 /\ c \subseteq 0..m => Shift(c, 1) \subseteq 0..n
    BY ShiftDown
<1>2. 0..-1 = {}
    OBVIOUS
<1> QED
    BY <1>1, <1>2

LEMMA ShiftAgain ==
    \A r \in SUBSET Bits, n \in 0..7 : Shift(Shift(r, n), 1) = Shift(r, n + 1)
<1>1. SUFFICES ASSUME NEW r \in SUBSET Bits, NEW n \in 0..7, NEW b
               PROVE  b \in Shift(Shift(r, n), 1) <=> b \in Shift(r, n + 1)
    OBVIOUS
<1>2. b \in Shift(Shift(r, n), 1) <=> (b \in Bits /\ b + 1 \in Bits /\ b + 1 + n \in r)
    BY DEF Shift
<1>3. b \in Shift(r, n + 1) <=> (b \in Bits /\ b + (n + 1) \in r)
    BY DEF Shift
<1>4. b \in Bits /\ b + (n + 1) \in r => b + 1 \in Bits
    BY DEF Bits
<1> QED
    BY <1>2, <1>3, <1>4 DEF Bits

LEMMA ShiftXor ==
    \A r, s, n : Shift(Xor(r, s), n) = Xor(Shift(r, n), Shift(s, n))
BY DEF Shift, Xor

LEMMA XorLaws ==
    /\ \A r, s, t : Xor(Xor(r, s), t) = Xor(r, Xor(s, t))
    /\ \A r, s : Xor(r, s) = Xor(s, r)
    /\ \A r : Xor(r, {}) = r
    /\ \A r, s \in SUBSET Bits : Xor(r, s) \in SUBSET Bits
    /\ \A r, s, t : Xor(r, s) = Xor(r, t) => s = t
BY DEF Xor

LEMMA DivideRegisterBits ==
    \A poly \in SUBSET Bits : \A r : DivideRegister(poly, r) \in SUBSET Bits
BY ShiftBits, XorLaws DEF DivideRegister

(* The register and the data still to be divided may be mixed at the       *)
(* start: what is left in the register then is the same.                   *)
LEMMA DivideBitMixed ==
    ASSUME NEW poly \in SUBSET Bits, NEW d
    PROVE  Xor(DivideBit(poly, d).crc, DivideBit(poly, d).c)
               = DivideRegister(poly, Xor(d.crc, d.c))
<1>1. 0 \in Xor(d.crc, d.c) <=> (0 \in d.crc) # (0 \in d.c)
    BY DEF Xor
<1>2. Shift(Xor(d.crc, d.c), 1) = Xor(Shift(d.crc, 1), Shift(d.c, 1))
    BY ShiftXor
<1> DEFINE s == Shift(d.crc, 1)
           t == Shift(d.c, 1)
<1>3. Xor(Xor(s, poly), t) = Xor(Xor(s, t), poly)
    BY DEF Xor
<1>4. DivideBit(poly, d).c = t
    BY DEF DivideBit
<1>5. DivideBit(poly, d).crc = IF (0 \in d.crc) # (0 \in d.c) THEN Xor(s, poly) ELSE s
    BY DEF DivideBit
<1>6. DivideRegister(poly, Xor(d.crc, d.c))
          = IF 0 \in Xor(d.crc, d.c) THEN Xor(Xor(s, t), poly) ELSE Xor(s, t)
    BY <1>2 DEF DivideRegister
<1> HIDE DEF s, t
<1> QED
    BY <1>1, <1>3, <1>4, <1>5, <1>6

(* Dividing bit by bit: the byte mixed into the register, then eight       *)
(* rounds without data.                                                    *)
Rounds(poly, r) ==
    Divide2Register(poly, Divide2Register(poly,
        Divide2Register(poly, Divide2Register(poly, r))))

LEMMA DivideByteRounds ==
    ASSUME NEW poly \in SUBSET Bits, NEW r, NEW byte \in Byte
    PROVE  DivideByte(poly, r, byte) = Rounds(poly, Xor(r, byte))
<1> DEFINE D(d) == DivideBit(poly, d)
           R(s) == DivideRegister(poly, s)
           M(d) == Xor(d.crc, d.c)
           d0 == [crc |-> r, c |-> byte]
           d1 == D(d0)  d2 == D(d1)  d3 == D(d2)  d4 == D(d3)
           d5 == D(d4)  d6 == D(d5)  d7 == D(d6)  d8 == D(d7)
<1>1. \A d : M(D(d)) = R(M(d)) /\ D(d).c = Shift(d.c, 1)
    BY DivideBitMixed DEF DivideBit
<1>2. DivideByte(poly, r, byte) = d8.crc
    BY DEF DivideByte, Divide8, Divide2
<1>3. Rounds(poly, Xor(r, byte)) = R(R(R(R(R(R(R(R(Xor(r, byte)))))))))
    BY DEF Rounds, Divide2Register
<1>4. M(d0) = Xor(r, byte) /\ d0.c = byte
    OBVIOUS
<1> HIDE DEF D, R, M, d0
<1>5. M(d8) = R(R(R(R(R(R(R(R(M(d0)))))))))
    BY <1>1
<1> HIDE DEF d1, d2, d3, d4, d5, d6, d7, d8
<1>6. d8.c = {}
  <2>1. /\ d1.c = Shift(d0.c, 1) /\ d2.c = Shift(d1.c, 1) /\ d3.c = Shift(d2.c, 1)
        /\ d4.c = Shift(d3.c, 1) /\ d5.c = Shift(d4.c, 1) /\ d6.c = Shift(d5.c, 1)
        /\ d7.c = Shift(d6.c, 1) /\ d8.c = Shift(d7.c, 1)
    BY <1>1 DEF d1, d2, d3, d4, d5, d6, d7, d8
  <2>2. d0.c \subseteq 0..7
    BY <1>4 DEF Byte, ByteBits
  <2> QED
    BY <2>1, <2>2, ShiftDowns
<1>7. M(d8) = d8.crc
    BY <1>6, XorLaws DEF M
<1> QED
    BY <1>2, <1>3, <1>4, <1>5, <1>7

(* The two ways in which the files compute their tables agree.             *)
THEOREM EntriesAgree ==
    \A poly \in SUBSET Bits, byte \in Byte :
        TableEntryInRegister(poly, byte) = TableEntry(poly, byte)
<1>1. SUFFICES ASSUME NEW poly \in SUBSET Bits, NEW byte \in Byte
               PROVE  TableEntryInRegister(poly, byte) = TableEntry(poly, byte)
    OBVIOUS
<1>2. Xor({}, byte) = byte
    BY XorLaws
<1> QED
    BY <1>2, DivideByteRounds DEF TableEntry, TableEntryInRegister, Rounds

(* Bits of the register above its low byte only move down.                 *)
LEMMA DivideHigh ==
    ASSUME NEW poly \in SUBSET Bits, NEW h, NEW l, 0 \notin h
    PROVE  DivideRegister(poly, Xor(h, l)) = Xor(Shift(h, 1), DivideRegister(poly, l))
<1>1. 0 \in Xor(h, l) <=> 0 \in l
    BY DEF Xor
<1>2. Shift(Xor(h, l), 1) = Xor(Shift(h, 1), Shift(l, 1))
    BY ShiftXor
<1>3. Xor(Xor(Shift(h, 1), Shift(l, 1)), poly) = Xor(Shift(h, 1), Xor(Shift(l, 1), poly))
    BY XorLaws
<1> QED
    BY <1>1, <1>2, <1>3 DEF DivideRegister

LEMMA RoundsHigh ==
    ASSUME NEW poly \in SUBSET Bits, NEW h \in SUBSET (Bits \ ByteBits), NEW l
    PROVE  Rounds(poly, Xor(h, l)) = Xor(Shift(h, 8), Rounds(poly, l))
<1> DEFINE R(r) == DivideRegister(poly, r)
           H(n) == Shift(h, n)
<1>1. \A n \in 0..7 : 0 \notin H(n) /\ Shift(H(n), 1) = H(n + 1)
    BY ShiftAgain DEF Shift, Bits, ByteBits
<1>2. \A n \in 0..7 : \A r : R(Xor(H(n), r)) = Xor(H(n + 1), R(r))
    BY <1>1, DivideHigh
<1>3. h = H(0)
  <2>1. SUFFICES ASSUME NEW b PROVE b \in h <=> b \in Shift(h, 0)
    OBVIOUS
  <2>2. b \in Shift(h, 0) <=> b \in Bits /\ b + 0 \in h
    BY DEF Shift
  <2>3. b \in Bits => b + 0 = b
    BY DEF Bits
  <2>4. b \in h => b \in Bits
    OBVIOUS
  <2> QED
    BY <2>2, <2>3, <2>4
<1>4. \A r : Rounds(poly, r) = R(R(R(R(R(R(R(R(r))))))))
    BY DEF Rounds, Divide2Register
<1> HIDE DEF R, H
<1>5. /\ \A r : R(Xor(H(0), r)) = Xor(H(1), R(r))
      /\ \A r : R(Xor(H(1), r)) = Xor(H(2), R(r))
      /\ \A r : R(Xor(H(2), r)) = Xor(H(3), R(r))
      /\ \A r : R(Xor(H(3), r)) = Xor(H(4), R(r))
      /\ \A r : R(Xor(H(4), r)) = Xor(H(5), R(r))
      /\ \A r : R(Xor(H(5), r)) = Xor(H(6), R(r))
      /\ \A r : R(Xor(H(6), r)) = Xor(H(7), R(r))
      /\ \A r : R(Xor(H(7), r)) = Xor(H(8), R(r))
    BY <1>2
<1>6. R(R(R(R(R(R(R(R(Xor(H(0), l)))))))))
          = Xor(H(8), R(R(R(R(R(R(R(R(l)))))))))
    BY <1>5
<1> QED
    BY <1>3, <1>4, <1>6 DEF H

(* Looking a byte up is dividing it: the body of every one-pass loop and   *)
(* of every update_crc_x, over a table that is filled.                     *)
THEOREM LookUpDivides ==
    ASSUME NEW poly \in SUBSET Bits, NEW r \in SUBSET Bits, NEW byte \in Byte
    PROVE  Xor(Shift(r, 8), TableEntry(poly, TableIndex(r, byte)))
               = DivideByte(poly, r, byte)
<1> DEFINE low == TableIndex(r, byte)
           high == r \ ByteBits
<1>1. low \in Byte /\ high \in SUBSET (Bits \ ByteBits)
    BY DEF TableIndex, Byte
<1>2. Xor(r, byte) = Xor(high, low)
    BY DEF TableIndex, Xor, Byte
<1>3. Shift(high, 8) = Shift(r, 8)
    BY DEF Shift, Bits, ByteBits
<1>4. TableEntry(poly, low) = Rounds(poly, low)
    BY <1>1, EntriesAgree DEF TableEntryInRegister, Rounds
<1>5. DivideByte(poly, r, byte) = Rounds(poly, Xor(high, low))
    BY <1>2, DivideByteRounds
<1>6. Rounds(poly, Xor(high, low)) = Xor(Shift(high, 8), Rounds(poly, low))
    BY <1>1, RoundsHigh
<1> QED
    BY <1>3, <1>4, <1>5, <1>6

-----------------------------------------------------------------------------
(* Registers keep to their width, and nothing that is done to one makes    *)
(* two of them equal.                                                      *)
LEMMA DivideRegisterKeepsApart ==
    ASSUME NEW file, IsLibrary(file),
           NEW x \in Register(file), NEW y \in Register(file)
    PROVE  /\ DivideRegister(file.poly, x) \in Register(file)
           /\ DivideRegister(file.poly, x) = DivideRegister(file.poly, y) => x = y
<1> DEFINE top == file.width - 1
           poly == file.poly
<1>1. /\ file.width \in 8..32 /\ top \in 7..31 /\ top \in poly
      /\ poly \in SUBSET (0..top) /\ x \in SUBSET (0..top) /\ y \in SUBSET (0..top)
    BY DEF IsLibrary, Library, Register
<1> HIDE DEF top, poly
<1>2. ASSUME NEW z \in SUBSET (0..top)
      PROVE  /\ Shift(z, 1) \in SUBSET (0..top) /\ top \notin Shift(z, 1)
             /\ \A b \in 1..top : b \in z <=> b - 1 \in Shift(z, 1)
  <2>1. \A b : b \in Shift(z, 1) <=> b \in Bits /\ b + 1 \in z
    BY DEF Shift
  <2>2. \A b \in Bits : b + 1 \in z => b \in 0..top - 1
    BY <1>1, <1>2 DEF Bits
  <2>3. top \notin 0..top - 1 /\ 0..top - 1 \subseteq 0..top
    BY <1>1
  <2>4. \A b \in 1..top : b - 1 \in Bits /\ (b - 1) + 1 = b
    BY <1>1 DEF Bits
  <2> QED
    BY <2>1, <2>2, <2>3, <2>4
<1>3. ASSUME NEW z \in SUBSET (0..top)
      PROVE  /\ DivideRegister(poly, z) \in SUBSET (0..top)
             /\ top \in DivideRegister(poly, z) <=> 0 \in z
    BY <1>1, <1>2, <1>3 DEF DivideRegister, Xor
<1>4. ASSUME DivideRegister(poly, x) = DivideRegister(poly, y)
      PROVE  x = y
  <2>1. 0 \in x <=> 0 \in y
    BY <1>1, <1>3, <1>4
  <2>2. Shift(x, 1) = Shift(y, 1)
    BY <1>4, <2>1 DEF DivideRegister, Xor
  <2>3. \A b \in 1..top : b \in x <=> b \in y
    BY <1>1, <1>2, <2>2
  <2>4. \A b \in 0..top : b = 0 \/ b \in 1..top
    BY <1>1
  <2>5. \A b : b \in x <=> b \in y
    BY <1>1, <2>1, <2>3, <2>4
  <2> QED
    BY <2>5
<1> QED
    BY <1>1, <1>3, <1>4 DEF Register, top, poly

LEMMA RoundsKeepApart ==
    ASSUME NEW file, IsLibrary(file),
           NEW x \in Register(file), NEW y \in Register(file)
    PROVE  /\ Rounds(file.poly, x) \in Register(file)
           /\ Rounds(file.poly, x) = Rounds(file.poly, y) => x = y
<1> DEFINE R(r) == DivideRegister(file.poly, r)
           S == Register(file)
<1>1. \A r \in S : R(r) \in S /\ \A t \in S : R(r) = R(t) => r = t
    BY DivideRegisterKeepsApart
<1>2. \A r : Rounds(file.poly, r) = R(R(R(R(R(R(R(R(r))))))))
    BY DEF Rounds, Divide2Register
<1> HIDE DEF R, S
<1> DEFINE R2(r) == R(R(r))
<1>3. \A r \in S : R2(r) \in S /\ \A t \in S : R2(r) = R2(t) => r = t
    BY <1>1
<1> DEFINE R4(r) == R2(R2(r))
<1>4. \A r : R(R(R(R(R(R(R(R(r)))))))) = R4(R4(r))
    OBVIOUS
<1> HIDE DEF R2
<1>5. \A r \in S : R4(r) \in S /\ \A t \in S : R4(r) = R4(t) => r = t
    BY <1>3
<1> HIDE DEF R4
<1>6. x \in S /\ y \in S
    BY DEF S
<1>7. R4(R4(x)) \in S /\ (R4(R4(x)) = R4(R4(y)) => x = y)
    BY <1>5, <1>6
<1> QED
    BY <1>2, <1>4, <1>7 DEF S

LEMMA DivideByteInRegister ==
    ASSUME NEW file, IsLibrary(file), NEW r \in Register(file), NEW byte \in Byte
    PROVE  /\ DivideByte(file.poly, r, byte) \in Register(file)
           /\ DivideByte(file.poly, r, byte) = Rounds(file.poly, Xor(r, byte))
           /\ Xor(r, byte) \in Register(file)
           /\ file.poly \in SUBSET Bits /\ r \in SUBSET Bits
<1>1. 0..7 \subseteq 0..file.width - 1 /\ 0..file.width - 1 \subseteq 0..31
    BY DEF IsLibrary, Library
<1>2. /\ file.poly \in SUBSET Bits /\ r \in SUBSET Bits
      /\ Xor(r, byte) \in Register(file)
    BY <1>1 DEF IsLibrary, Register, Xor, Byte, ByteBits, Bits
<1>3. DivideByte(file.poly, r, byte) = Rounds(file.poly, Xor(r, byte))
    BY <1>2, DivideByteRounds
<1> QED
    BY <1>2, <1>3, RoundsKeepApart

(* Two registers that differ still differ after the same byte, and one     *)
(* register ends differently after two different bytes: a single byte that *)
(* is wrong is never missed, however many right ones come after it.        *)
THEOREM OneByteShows ==
    ASSUME NEW file, IsLibrary(file),
           NEW r \in Register(file), NEW s \in Register(file),
           NEW c \in Byte, NEW d \in Byte
    PROVE  /\ r # s => DivideByte(file.poly, r, c) # DivideByte(file.poly, s, c)
           /\ c # d => DivideByte(file.poly, r, c) # DivideByte(file.poly, r, d)
<1>1. \A x, y \in Register(file) :
          Rounds(file.poly, x) = Rounds(file.poly, y) => x = y
    BY RoundsKeepApart
<1>2. /\ Xor(r, c) = Xor(s, c) => r = s
      /\ Xor(r, c) = Xor(r, d) => c = d
    BY XorLaws
<1> QED
    BY <1>1, <1>2, DivideByteInRegister

LEMMA FinishInRegister ==
    ASSUME NEW file, IsLibrary(file), NEW r \in Register(file)
    PROVE  Finish(file, r) \in Register(file)
<1>1. Complement(file, r) \in Register(file)
    BY DEF Complement, Register
<1>2. file.swaps => file.width - 1 = 15
    BY DEF IsLibrary, Library
<1>3. SwapBytes(file, Complement(file, r)) \in Register(file)
    BY <1>1, <1>2 DEF SwapBytes, Register
<1> QED
    BY <1>3 DEF Finish

-----------------------------------------------------------------------------
(* The inductive invariant.  A caller that fills has filled the parts      *)
(* before the next; the flag is set only over a full table; and nobody     *)
(* gets past the check without the flag.                                   *)
Filling ==
    \A p \in Caller : pc[p] = "fill" => 1..i[p] - 1 \subseteq filled

Ready == table_init => lib.static \/ filled = DOMAIN Parts

PastCheck == \A p \in Caller : pc[p] = "bytes" => table_init

(* What a caller is doing agrees with what it called.                      *)
Calls ==
    \A p \in Caller :
        /\ pc[p] = "idle" => rest[p] = <<>>
        /\ pc[p] # "idle" => call[p] # "none"
        /\ call[p] = "construct" => pc[p] \in {"idle", "fill"} /\ rest[p] = <<>>
        /\ pc[p] # "fill" => i[p] = 1

IInv == TypeOK /\ Filling /\ Ready /\ PastCheck /\ Calls

LEMMA LibrariesAre == lib \in Libraries => IsLibrary(lib)
BY CrcAssumption

LEMMA PartsDomain == DOMAIN Parts = 1..Len(Parts) /\ Len(Parts) \in Nat
BY CrcAssumption

(* The entries of a table that is ready.                                   *)
LEMMA ReadyTable ==
    ASSUME lib \in Libraries, lib.static \/ filled = DOMAIN Parts
    PROVE  \A byte \in Byte : Table(byte) = TableEntry(lib.poly, byte)
<1>1. TAKE byte \in Byte
<1>2. Table(byte) = EntryOf(lib, byte)
    BY CrcAssumption DEF Table
<1>3. lib.poly \in SUBSET Bits
    BY LibrariesAre DEF IsLibrary, Library
<1>4. TableEntryInRegister(lib.poly, byte) = TableEntry(lib.poly, byte)
    BY <1>3, EntriesAgree
<1>5. lib.static => StaticTable[byte] = TableEntry(lib.poly, byte)
    BY StaticAssumption
<1> QED
    BY <1>2, <1>4, <1>5 DEF EntryOf

(* A byte that is looked up in a table that is ready.                      *)
LEMMA ByReadyTable ==
    ASSUME lib \in Libraries, lib.static \/ filled = DOMAIN Parts,
           NEW r \in Register(lib), NEW byte \in Byte
    PROVE  /\ ByTable(r, byte) = DivideByte(lib.poly, r, byte)
           /\ ByTable(r, byte) \in Register(lib)
<1>1. IsLibrary(lib)
    BY LibrariesAre
<1>2. TableIndex(r, byte) \in Byte
    BY DEF TableIndex, Byte
<1>3. ByTable(r, byte) = Xor(Shift(r, 8), TableEntry(lib.poly, TableIndex(r, byte)))
    BY <1>2, ReadyTable DEF ByTable
<1>4. lib.poly \in SUBSET Bits /\ r \in SUBSET Bits
    BY <1>1, DivideByteInRegister
<1>5. ByTable(r, byte) = DivideByte(lib.poly, r, byte)
    BY <1>3, <1>4, LookUpDivides
<1> QED
    BY <1>1, <1>5, DivideByteInRegister

LEMMA InitIInv == Init => IInv
<1> SUFFICES ASSUME Init PROVE IInv
    OBVIOUS
<1>1. lib \in Libraries /\ lib.static \in BOOLEAN /\ {} \in Register(lib)
    BY LibrariesAre DEF Init, IsLibrary, Library, Register
<1>2. TypeOK
    BY <1>1, PartsDomain DEF Init, TypeOK
<1> QED
    BY <1>1, <1>2 DEF Init, IInv, Filling, Ready, PastCheck, Calls

LEMMA NoneBeforeFirst == ASSUME NEW S, NEW n, n = 1 PROVE 1..n - 1 \subseteq S
OBVIOUS

(* A call: the caller leaves idle, nobody else is disturbed.               *)
LEMMA CalledIInv ==
    ASSUME IInv, NEW p \in Caller,
           NEW kind \in {"one_pass", "update", "construct"},
           NEW from \in Register(lib), NEW bytes \in Seq(Byte),
           kind = "construct" => bytes = <<>>,
           Called(p, kind, from, bytes),
           Go(p, IF kind = "construct" THEN "fill" ELSE "check"),
           start' \in [Caller -> Register(lib)], fed' \in [Caller -> Seq(Byte)]
    PROVE  IInv'
<1> USE DEF IInv
<1>1. TypeOK'
    BY DEF TypeOK, Called, Go, shared, Register
<1>2. ASSUME NEW q \in Caller, pc'[q] = "fill"
      PROVE  1..i'[q] - 1 \subseteq filled'
  <2>1. i' = i /\ filled' = filled /\ pc[p] = "idle"
    BY DEF Called, shared
  <2>2. CASE q = p
    <3>1. i[p] = 1
        BY <2>1 DEF Calls
    <3>2. i'[q] = 1
        BY <2>1, <2>2, <3>1
    <3> QED
        BY <3>2, NoneBeforeFirst
  <2>3. CASE q # p
    BY <1>2, <2>1, <2>3 DEF Filling, Go, TypeOK
  <2> QED
    BY <2>2, <2>3
<1>3. Ready' /\ PastCheck'
    BY DEF TypeOK, Ready, PastCheck, Called, Go, shared
<1>4. Calls'
    BY DEF TypeOK, Calls, Called, Go, shared
<1> QED
    BY <1>1, <1>2, <1>3, <1>4 DEF Filling

(* What a step finds in the state of one caller.                           *)
LEMMA CallerTypes ==
    ASSUME IInv, NEW p \in Caller
    PROVE  /\ crc[p] \in Register(lib)
           /\ rest[p] \in Seq(Byte)
           /\ fed[p] \in Seq(Byte)
           /\ i[p] \in 1..Len(Parts) + 1
BY DEF IInv, TypeOK

LEMMA NextIInv == IInv /\ [Next]_vars => IInv'
<1> SUFFICES ASSUME IInv, [Next]_vars PROVE IInv'
    OBVIOUS
<1>0. /\ IsLibrary(lib) /\ lib \in Libraries /\ lib.starts \subseteq Register(lib)
      /\ UpdateBytes \subseteq Byte /\ Messages[lib] \subseteq Seq(Byte)
    BY LibrariesAre, CrcAssumption DEF IInv, TypeOK, IsLibrary
<1>1. ASSUME NEW p \in Caller, NEW from \in lib.starts, NEW bytes \in Messages[lib],
             OnePass(p, from, bytes)
      PROVE  IInv'
  <2>1. from \in Register(lib) /\ bytes \in Seq(Byte) /\ <<>> \in Seq(Byte)
    BY <1>0
  <2>2. start' \in [Caller -> Register(lib)] /\ fed' \in [Caller -> Seq(Byte)]
    BY <1>1, <2>1 DEF OnePass, IInv, TypeOK
  <2> QED
    BY <1>1, <2>1, <2>2, CalledIInv DEF OnePass
<1>2. ASSUME NEW p \in Caller, NEW from \in lib.starts, NEW byte \in UpdateBytes,
             UpdateFirst(p, from, byte)
      PROVE  IInv'
  <2>1. from \in Register(lib) /\ byte \in Byte /\ <<>> \in Seq(Byte)
    BY <1>0
  <2>2. start' \in [Caller -> Register(lib)] /\ fed' \in [Caller -> Seq(Byte)]
    BY <1>2, <2>1 DEF UpdateFirst, IInv, TypeOK
  <2>3. <<byte>> \in Seq(Byte)
    BY <2>1
  <2> QED
    BY <1>2, <2>1, <2>2, <2>3, CalledIInv DEF UpdateFirst
<1>3. ASSUME NEW p \in Caller, NEW byte \in UpdateBytes, UpdateNext(p, byte)
      PROVE  IInv'
  <2>1. byte \in Byte
    BY <1>0
  <2>2. start' \in [Caller -> Register(lib)] /\ fed' \in [Caller -> Seq(Byte)]
    BY <1>3 DEF UpdateNext, IInv, TypeOK
  <2>3. <<byte>> \in Seq(Byte)
    BY <2>1
  <2> QED
    BY <1>3, <2>2, <2>3, CallerTypes, CalledIInv DEF UpdateNext
<1>4. ASSUME NEW p \in Caller, Construct(p)
      PROVE  IInv'
  <2>1. <<>> \in Seq(Byte)
    OBVIOUS
  <2>2. start' \in [Caller -> Register(lib)] /\ fed' \in [Caller -> Seq(Byte)]
    BY <1>4 DEF Construct, IInv, TypeOK
  <2> QED
    BY <1>4, <2>1, <2>2, CallerTypes, CalledIInv DEF Construct
<1> USE DEF IInv
<1>5. ASSUME NEW p \in Caller, Check(p)
      PROVE  IInv'
  <2>1. TypeOK'
    BY <1>5 DEF TypeOK, Check, Go, shared, Register
  <2>2. ASSUME NEW q \in Caller, pc'[q] = "fill"
        PROVE  1..i'[q] - 1 \subseteq filled'
    <3>1. i' = i /\ filled' = filled /\ pc[p] = "check"
        BY <1>5 DEF Check, shared
    <3>2. CASE q = p
        BY <3>1, <3>2 DEF Calls
    <3>3. CASE q # p
        BY <1>5, <2>2, <3>1, <3>3 DEF Filling, Check, Go, TypeOK
    <3> QED
        BY <3>2, <3>3
  <2>3. Ready' /\ PastCheck'
    BY <1>5 DEF TypeOK, Ready, PastCheck, Check, Go, shared
  <2>4. Calls'
    BY <1>5 DEF TypeOK, Calls, Check, Go, shared
  <2> QED
    BY <2>1, <2>2, <2>3, <2>4 DEF Filling
<1>6. ASSUME NEW p \in Caller, Fill(p)
      PROVE  IInv'
  <2>1. i[p] \in DOMAIN Parts /\ i[p] + 1 \in 1..Len(Parts) + 1
    BY <1>6, PartsDomain DEF Fill
  <2>2. TypeOK'
    BY <1>6, <2>1 DEF TypeOK, Fill, Register
  <2>3. ASSUME NEW q \in Caller, pc'[q] = "fill"
        PROVE  1..i'[q] - 1 \subseteq filled'
    <3>1. 1..i[q] - 1 \subseteq filled /\ filled' = filled \cup {i[p]}
        BY <1>6, <2>3 DEF Filling, Fill
    <3>2. i' = [i EXCEPT ![p] = i[p] + 1] /\ i \in [Caller -> 1..Len(Parts) + 1]
        BY <1>6 DEF Fill, TypeOK
    <3>3. CASE q = p
      <4>1. i'[q] = i[p] + 1 /\ i[p] \in Int
        BY <3>2, <3>3, PartsDomain
      <4> QED
        BY <3>1, <3>3, <4>1
    <3>4. CASE q # p
        BY <3>1, <3>2, <3>4
    <3> QED
        BY <3>3, <3>4
  <2>4. Ready' /\ PastCheck'
    BY <1>6, <2>1 DEF TypeOK, Ready, PastCheck, Fill
  <2>5. Calls'
    BY <1>6 DEF TypeOK, Calls, Fill
  <2> QED
    BY <2>2, <2>3, <2>4, <2>5 DEF Filling
<1>7. ASSUME NEW p \in Caller, SetFlag(p)
      PROVE  IInv'
  <2>1. TypeOK'
    <3>1. 1 \in 1..Len(Parts) + 1
        BY PartsDomain
    <3>2. i' \in [Caller -> 1..Len(Parts) + 1]
        BY <1>7, <3>1 DEF SetFlag, TypeOK
    <3> QED
        BY <1>7, <3>2 DEF TypeOK, SetFlag, Go
  <2>2. filled = DOMAIN Parts
    <3>1. i[p] \in 1..Len(Parts) + 1 /\ i[p] \notin 1..Len(Parts)
        BY <1>7, PartsDomain DEF SetFlag, TypeOK
    <3>2. i[p] - 1 = Len(Parts)
        BY <3>1, PartsDomain
    <3>3. 1..Len(Parts) \subseteq filled
        BY <1>7, <3>2 DEF SetFlag, Filling
    <3> QED
        BY <3>3, PartsDomain DEF TypeOK
  <2>3. Filling'
    BY <1>7 DEF TypeOK, Filling, SetFlag, Go
  <2>4. Ready' /\ PastCheck'
    BY <1>7, <2>2 DEF TypeOK, Ready, PastCheck, SetFlag, Go
  <2>5. Calls'
    BY <1>7 DEF TypeOK, Calls, SetFlag, Go
  <2> QED
    BY <2>1, <2>3, <2>4, <2>5
<1>8. ASSUME NEW p \in Caller, LookUp(p)
      PROVE  IInv'
  <2>1. /\ Head(rest[p]) \in Byte /\ Tail(rest[p]) \in Seq(Byte)
        /\ Append(fed[p], Head(rest[p])) \in Seq(Byte)
    BY <1>8, CallerTypes DEF LookUp
  <2>2. ByTable(crc[p], Head(rest[p])) \in Register(lib)
    BY <1>8, <1>0, <2>1, ByReadyTable DEF TypeOK, LookUp, Ready, PastCheck
  <2>3. TypeOK'
    BY <1>8, <2>1, <2>2 DEF TypeOK, LookUp, shared, Register
  <2>4. Filling' /\ Ready' /\ PastCheck'
    BY <1>8 DEF TypeOK, Filling, Ready, PastCheck, LookUp, shared
  <2>5. Calls'
    BY <1>8 DEF TypeOK, Calls, LookUp, shared
  <2> QED
    BY <2>3, <2>4, <2>5
<1>9. ASSUME NEW p \in Caller, Return(p)
      PROVE  IInv'
  <2>1. crc[p] \in Register(lib) /\ Finish(lib, crc[p]) \in Register(lib)
    BY <1>0, FinishInRegister DEF TypeOK
  <2>2. TypeOK'
    BY <1>9, <2>1 DEF TypeOK, Return, Go, shared, Register
  <2>3. Filling' /\ Ready' /\ PastCheck'
    BY <1>9 DEF TypeOK, Filling, Ready, PastCheck, Return, Go, shared
  <2>4. Calls'
    BY <1>9 DEF TypeOK, Calls, Return, Go, shared
  <2> QED
    BY <2>2, <2>3, <2>4
<1>10. CASE UNCHANGED vars
    BY <1>10 DEF TypeOK, Filling, Ready, PastCheck, Calls, vars, shared, Table, Register
<1> QED
    BY <1>1, <1>2, <1>3, <1>4, <1>5, <1>6, <1>7, <1>8, <1>9, <1>10
    DEF Next, CallStep, Step

THEOREM Invariance == Spec => []IInv
<1>1. Init => IInv
    BY InitIInv
<1>2. IInv /\ [Next]_vars => IInv'
    BY NextIInv
<1> QED
    BY <1>1, <1>2, PTL DEF Spec

(* Every variable keeps its type.                                          *)
THEOREM TypeCorrect == Spec => []TypeOK
<1>1. IInv => TypeOK
    BY DEF IInv
<1> QED
    BY <1>1, Invariance, PTL

(* No byte is ever looked up in an entry that is not filled.               *)
THEOREM LookUpsCorrect == Spec => []LookUpsAreFilled
<1>1. ASSUME IInv PROVE LookUpsAreFilled
  <2>1. SUFFICES ASSUME NEW p \in Caller, pc[p] = "bytes", rest[p] # <<>>
                 PROVE  Table(TableIndex(crc[p], Head(rest[p])))
                            = TableEntry(lib.poly, TableIndex(crc[p], Head(rest[p])))
    BY DEF LookUpsAreFilled
  <2>2. lib \in Libraries /\ (lib.static \/ filled = DOMAIN Parts)
    BY <1>1, <2>1 DEF IInv, TypeOK, Ready, PastCheck
  <2>3. TableIndex(crc[p], Head(rest[p])) \in Byte
    BY DEF TableIndex, Byte
  <2> QED
    BY <2>2, <2>3, ReadyTable
<1> QED
    BY <1>1, Invariance, PTL

-----------------------------------------------------------------------------
(* The file implements the division of its callers' bytes.                 *)
(* The instance speaks of the same operators.                              *)
LEMMA SerialDivides ==
    ASSUME NEW poly, NEW r, NEW byte
    PROVE  Serial!DivideByte(poly, r, byte) = DivideByte(poly, r, byte)
<1>1. ASSUME NEW d PROVE Serial!DivideBit(poly, d) = DivideBit(poly, d)
    BY DEF Serial!DivideBit, DivideBit, Serial!Xor, Xor, Serial!Shift, Shift,
           Serial!Bits, Bits
<1>2. ASSUME NEW d PROVE Serial!Divide2(poly, d) = Divide2(poly, d)
    BY <1>1 DEF Serial!Divide2, Divide2
<1>3. ASSUME NEW d PROVE Serial!Divide8(poly, d) = Divide8(poly, d)
    BY <1>2 DEF Serial!Divide8, Divide8
<1> QED
    BY <1>3 DEF Serial!DivideByte, DivideByte

LEMMA SerialFinishes ==
    ASSUME NEW file, NEW r
    PROVE  Serial!Finish(file, r) = Finish(file, r)
<1>1. Serial!Complement(file, r) = Complement(file, r)
    BY DEF Serial!Complement, Complement
<1>2. ASSUME NEW s PROVE Serial!SwapBytes(file, s) = SwapBytes(file, s)
    BY DEF Serial!SwapBytes, SwapBytes
<1> QED
    BY <1>1, <1>2 DEF Serial!Finish, Finish

LEMMA SerialTypes ==
    /\ Serial!Byte = Byte
    /\ \A file : IsLibrary(file) => Serial!IsLibrary(file)
<1>1. Serial!Byte = Byte
    BY DEF Serial!Byte, Byte, Serial!ByteBits, ByteBits
<1>2. Serial!Library = Library
    BY DEF Serial!Library, Library, Serial!Bits, Bits
<1>3. ASSUME NEW file PROVE Serial!Register(file) = Register(file)
    BY DEF Serial!Register, Register
<1> QED
    BY <1>1, <1>2, <1>3 DEF Serial!IsLibrary, IsLibrary

LEMMA InitSerial == Init => Serial!Init
BY LibrariesAre, SerialTypes DEF Init, Serial!Init

Abstract(p) == IF pc[p] = "idle" THEN "none" ELSE call[p]

LEMMA CalledSerial ==
    ASSUME IInv, NEW p \in Caller,
           NEW kind \in {"one_pass", "update", "construct"},
           NEW from \in (IF kind = "construct" THEN {} ELSE lib.starts)
                            \cup (IF kind = "one_pass" THEN {} ELSE {crc[p]}),
           NEW bytes \in Seq(Byte),
           kind = "construct" => bytes = <<>>,
           kind = "update" => Len(bytes) = 1,
           Called(p, kind, from, bytes),
           Go(p, IF kind = "construct" THEN "fill" ELSE "check")
    PROVE  Serial!Call(p, kind)
<1>1. /\ pc' = [pc EXCEPT ![p] = IF kind = "construct" THEN "fill" ELSE "check"]
      /\ call' = [call EXCEPT ![p] = kind]
      /\ pc \in [Caller -> {"idle", "check", "fill", "bytes"}]
      /\ call \in [Caller -> {"none", "one_pass", "update", "construct"}]
      /\ rest \in [Caller -> Seq(Byte)] /\ crc \in [Caller -> Register(lib)]
    BY DEF Called, Go, IInv, TypeOK
<1>2. [q \in Caller |-> Abstract(q)]'
          = [[q \in Caller |-> Abstract(q)] EXCEPT ![p] = kind]
    BY <1>1 DEF Abstract
<1>3. Abstract(p) = "none"
    BY DEF Called, Abstract
<1>4. rest'[p] = bytes /\ crc'[p] = from
    BY <1>1 DEF Called
<1>5. rest' = [rest EXCEPT ![p] = rest'[p]] /\ crc' = [crc EXCEPT ![p] = crc'[p]]
    BY <1>4 DEF Called
<1> QED
    BY <1>2, <1>3, <1>4, <1>5, SerialTypes DEF Serial!Call, Abstract, Called

LEMMA StepSerial == IInv /\ [Next]_vars => [Serial!Next]_(Serial!vars)
<1> SUFFICES ASSUME IInv, [Next]_vars PROVE [Serial!Next]_(Serial!vars)
    OBVIOUS
<1>0. /\ pc \in [Caller -> {"idle", "check", "fill", "bytes"}]
      /\ call \in [Caller -> {"none", "one_pass", "update", "construct"}]
      /\ rest \in [Caller -> Seq(Byte)] /\ crc \in [Caller -> Register(lib)]
      /\ lib \in Libraries /\ UpdateBytes \subseteq Byte
      /\ Messages[lib] \subseteq Seq(Byte)
    BY CrcAssumption DEF IInv, TypeOK
<1>1. ASSUME NEW p \in Caller, NEW from \in lib.starts, NEW bytes \in Messages[lib],
             OnePass(p, from, bytes)
      PROVE  Serial!Next
  <2>1. Serial!Call(p, "one_pass")
    BY <1>0, <1>1, CalledSerial DEF OnePass
  <2> QED
    BY <2>1 DEF Serial!Next
<1>2. ASSUME NEW p \in Caller, NEW from \in lib.starts, NEW byte \in UpdateBytes,
             UpdateFirst(p, from, byte)
      PROVE  Serial!Next
  <2>1. byte \in Byte
    BY <1>0
  <2>2. <<byte>> \in Seq(Byte) /\ Len(<<byte>>) = 1
    BY <2>1
  <2>3. Serial!Call(p, "update")
    BY <1>2, <2>2, CalledSerial DEF UpdateFirst
  <2> QED
    BY <2>3 DEF Serial!Next
<1>3. ASSUME NEW p \in Caller, NEW byte \in UpdateBytes, UpdateNext(p, byte)
      PROVE  Serial!Next
  <2>1. byte \in Byte
    BY <1>0
  <2>2. <<byte>> \in Seq(Byte) /\ Len(<<byte>>) = 1
    BY <2>1
  <2>3. Serial!Call(p, "update")
    BY <1>3, <2>2, CalledSerial DEF UpdateNext
  <2> QED
    BY <2>3 DEF Serial!Next
<1>4. ASSUME NEW p \in Caller, Construct(p)
      PROVE  Serial!Next
  <2>1. Serial!Call(p, "construct")
    <3>1. <<>> \in Seq(Byte)
        OBVIOUS
    <3>2. crc[p] \in {} \cup {crc[p]}
        OBVIOUS
    <3>3. Called(p, "construct", crc[p], <<>>) /\ Go(p, "fill")
        BY <1>4 DEF Construct
    <3> QED
        BY <3>1, <3>2, <3>3, CalledSerial
  <2> QED
    BY <2>1 DEF Serial!Next
<1>5. ASSUME NEW p \in Caller, Check(p) \/ Fill(p)
      PROVE  UNCHANGED Serial!vars
  <2>1. lib' = lib /\ rest' = rest /\ crc' = crc /\ call' = call
    BY <1>5 DEF Check, Fill
  <2>2. \A q \in Caller : pc'[q] = "idle" <=> pc[q] = "idle"
    BY <1>0, <1>5 DEF Check, Fill, Go
  <2>3. [q \in Caller |-> Abstract(q)]' = [q \in Caller |-> Abstract(q)]
    BY <2>1, <2>2 DEF Abstract
  <2> QED
    BY <2>1, <2>3 DEF Serial!vars, Abstract
<1>6. ASSUME NEW p \in Caller, SetFlag(p)
      PROVE  [Serial!Next]_(Serial!vars)
  <2>1. /\ lib' = lib /\ rest' = rest /\ crc' = crc /\ call' = call
        /\ pc' = [pc EXCEPT ![p] = IF call[p] = "construct" THEN "idle" ELSE "bytes"]
        /\ pc[p] = "fill"
    BY <1>6 DEF SetFlag, Go
  <2>2. CASE call[p] = "construct"
    <3>1. [q \in Caller |-> Abstract(q)]'
              = [[q \in Caller |-> Abstract(q)] EXCEPT ![p] = "none"]
        BY <1>0, <2>1, <2>2 DEF Abstract
    <3>2. Abstract(p) = "construct" /\ rest[p] = <<>>
        BY <2>1, <2>2 DEF Abstract, IInv, Calls
    <3>3. crc' = [crc EXCEPT ![p] = crc[p]]
        BY <1>0, <2>1
    <3>4. Serial!Return(p)
        BY <2>1, <3>1, <3>2, <3>3 DEF Serial!Return, Abstract
    <3> QED
        BY <3>4 DEF Serial!Next
  <2>3. CASE call[p] # "construct"
    <3>1. \A q \in Caller : pc'[q] = "idle" <=> pc[q] = "idle"
        BY <1>0, <2>1, <2>3
    <3>2. [q \in Caller |-> Abstract(q)]' = [q \in Caller |-> Abstract(q)]
        BY <2>1, <3>1 DEF Abstract
    <3> QED
        BY <2>1, <3>2 DEF Serial!vars, Abstract
  <2> QED
    BY <2>2, <2>3
<1>7. ASSUME NEW p \in Caller, LookUp(p)
      PROVE  Serial!Next
  <2>1. /\ rest[p] \in Seq(Byte) /\ rest[p] # <<>> /\ crc[p] \in Register(lib)
        /\ lib.static \/ filled = DOMAIN Parts
    BY <1>0, <1>7 DEF LookUp, IInv, Ready, PastCheck
  <2>2. Head(rest[p]) \in Byte
    BY <2>1
  <2>3. ByTable(crc[p], Head(rest[p])) = DivideByte(lib.poly, crc[p], Head(rest[p]))
    BY <1>0, <2>1, <2>2, ByReadyTable
  <2>4. [q \in Caller |-> Abstract(q)]' = [q \in Caller |-> Abstract(q)]
    BY <1>7 DEF LookUp, Abstract
  <2>5. Serial!Divide(p)
    BY <1>7, <2>1, <2>3, <2>4, SerialDivides DEF LookUp, Serial!Divide, Abstract
  <2> QED
    BY <2>5 DEF Serial!Next
<1>8. ASSUME NEW p \in Caller, Return(p)
      PROVE  Serial!Next
  <2>1. /\ lib' = lib /\ rest' = rest /\ call' = call
        /\ pc' = [pc EXCEPT ![p] = "idle"]
        /\ pc[p] = "bytes" /\ rest[p] = <<>>
    BY <1>8 DEF Return, Go
  <2>2. [q \in Caller |-> Abstract(q)]'
            = [[q \in Caller |-> Abstract(q)] EXCEPT ![p] = "none"]
    BY <1>0, <2>1 DEF Abstract
  <2>3. Abstract(p) = call[p] /\ Abstract(p) # "none"
    BY <2>1 DEF Abstract, IInv, Calls
  <2>4. Serial!Return(p)
    BY <1>8, <2>1, <2>2, <2>3, SerialFinishes DEF Return, Serial!Return, Abstract
  <2> QED
    BY <2>4 DEF Serial!Next
<1>9. CASE UNCHANGED vars
  <2>1. [q \in Caller |-> Abstract(q)]' = [q \in Caller |-> Abstract(q)]
    BY <1>9 DEF vars, Abstract
  <2> QED
    BY <1>9, <2>1 DEF vars, Serial!vars, Abstract
<1> QED
    BY <1>1, <1>2, <1>3, <1>4, <1>5, <1>6, <1>7, <1>8, <1>9
    DEF Next, CallStep, Step

THEOREM Refinement == Spec => SerialSpec
<1>1. Init => Serial!Init
    BY InitSerial
<1>2. IInv /\ [Next]_vars => [Serial!Next]_(Serial!vars)
    BY StepSerial
<1> QED
    BY <1>1, <1>2, Invariance, PTL DEF Spec, SerialSpec, Serial!Spec

-----------------------------------------------------------------------------
(* What the register has been through: the value it began with, and one    *)
(* more after each byte.                                                   *)
Traces(file, from, bytes) ==
    {t \in [0..Len(bytes) -> Register(file)] :
        /\ t[0] = from
        /\ \A n \in 1..Len(bytes) : t[n] = DivideByte(file.poly, t[n - 1], bytes[n])}

(* What is left in the register then.                                      *)
Left(file, from, bytes) == {t[Len(bytes)] : t \in Traces(file, from, bytes)}

LEMMA LeftOfNone ==
    ASSUME NEW file, NEW from \in Register(file)
    PROVE  from \in Left(file, from, <<>>)
<1> DEFINE t == [n \in 0..0 |-> from]
<1>1. Len(<<>>) = 0 /\ 1..0 = {} /\ 0 \in 0..0
    OBVIOUS
<1>2. t \in Traces(file, from, <<>>) /\ t[0] = from
    BY <1>1 DEF Traces
<1> QED
    BY <1>1, <1>2 DEF Left

LEMMA LeftOfMore ==
    ASSUME NEW file, IsLibrary(file), NEW from, NEW bytes \in Seq(Byte),
           NEW r \in Left(file, from, bytes), NEW byte \in Byte
    PROVE  DivideByte(file.poly, r, byte) \in Left(file, from, Append(bytes, byte))
<1> DEFINE more == Append(bytes, byte)
           len == Len(bytes)
           next == DivideByte(file.poly, r, byte)
<1>1. PICK t \in Traces(file, from, bytes) : r = t[len]
    BY DEF Left
<1>2. /\ t \in [0..len -> Register(file)] /\ t[0] = from
      /\ \A n \in 1..len : t[n] = DivideByte(file.poly, t[n - 1], bytes[n])
    BY <1>1 DEF Traces
<1>3. /\ len \in Nat /\ Len(more) = len + 1 /\ more[len + 1] = byte
      /\ \A n \in 1..len : more[n] = bytes[n]
    OBVIOUS
<1>4. next \in Register(file)
  <2>1. r \in Register(file)
    BY <1>1, <1>2, <1>3
  <2> QED
    BY <2>1, DivideByteInRegister
<1> DEFINE u == [n \in 0..len + 1 |-> IF n <= len THEN t[n] ELSE next]
<1> HIDE DEF more, len, next
<1>5. u \in [0..len + 1 -> Register(file)] /\ u[0] = from /\ u[len + 1] = next
    BY <1>2, <1>3, <1>4
<1>6. \A n \in 1..len + 1 : u[n] = DivideByte(file.poly, u[n - 1], more[n])
  <2>1. ASSUME NEW n \in 1..len
        PROVE  u[n] = DivideByte(file.poly, u[n - 1], more[n])
    <3>1. u[n] = t[n] /\ u[n - 1] = t[n - 1]
        BY <1>3
    <3> QED
        BY <1>2, <1>3, <3>1
  <2>2. u[len + 1] = DivideByte(file.poly, u[(len + 1) - 1], more[len + 1])
    <3>1. (len + 1) - 1 = len /\ u[len] = t[len]
        BY <1>3
    <3> QED
        BY <1>1, <1>3, <1>5, <3>1 DEF next
  <2>3. \A n \in 1..len + 1 : n \in 1..len \/ n = len + 1
    BY <1>3
  <2> QED
    BY <2>1, <2>2, <2>3
<1> HIDE DEF u
<1>7. u \in Traces(file, from, more)
    BY <1>3, <1>5, <1>6 DEF Traces
<1> QED
    BY <1>3, <1>5, <1>7 DEF Left, more, next

LEMMA Least ==
    ASSUME NEW T, T \subseteq Nat, T # {}
    PROVE  \E n \in T : \A m \in T : ~(m < n)
<1> DEFINE R == {ss \in Nat \X Nat : ss[1] < ss[2]}
<1>1. OpToRel(<, Nat) = R
    BY DEF OpToRel
<1>2. IsWellFoundedOn(R, Nat)
    BY <1>1, NatLessThanWellFounded
<1>3. \A m, n \in T : m < n => <<m, n>> \in R
    OBVIOUS
<1> HIDE DEF R
<1>4. \E n \in T : \A m \in T : ~(<<m, n>> \in R)
    BY <1>2, WFMin
<1> QED
    BY <1>3, <1>4

-----------------------------------------------------------------------------
(* Bursts.  A round of the division is linear: the difference of two       *)
(* registers is divided like a register.                                   *)
LEMMA DivideDifference ==
    ASSUME NEW poly \in SUBSET Bits, NEW x, NEW y
    PROVE  DivideRegister(poly, Xor(x, y))
               = Xor(DivideRegister(poly, x), DivideRegister(poly, y))
<1>1. 0 \in Xor(x, y) <=> (0 \in x) # (0 \in y)
    BY DEF Xor
<1>2. Shift(Xor(x, y), 1) = Xor(Shift(x, 1), Shift(y, 1))
    BY ShiftXor
<1> DEFINE s == Shift(x, 1)
           t == Shift(y, 1)
<1>3. /\ Xor(Xor(s, poly), Xor(t, poly)) = Xor(s, t)
      /\ Xor(Xor(s, poly), t) = Xor(Xor(s, t), poly)
      /\ Xor(s, Xor(t, poly)) = Xor(Xor(s, t), poly)
    BY DEF Xor
<1>4. DivideRegister(poly, Xor(x, y))
          = IF 0 \in Xor(x, y) THEN Xor(Xor(s, t), poly) ELSE Xor(s, t)
    BY <1>2 DEF DivideRegister
<1>5. /\ DivideRegister(poly, x) = IF 0 \in x THEN Xor(s, poly) ELSE s
      /\ DivideRegister(poly, y) = IF 0 \in y THEN Xor(t, poly) ELSE t
    BY DEF DivideRegister
<1> HIDE DEF s, t
<1> QED
    BY <1>1, <1>3, <1>4, <1>5

LEMMA RoundsDifference ==
    ASSUME NEW poly \in SUBSET Bits, NEW x, NEW y
    PROVE  Rounds(poly, Xor(x, y)) = Xor(Rounds(poly, x), Rounds(poly, y))
<1> DEFINE R(r) == DivideRegister(poly, r)
<1>1. \A r, s : R(Xor(r, s)) = Xor(R(r), R(s))
    BY DivideDifference
<1>2. \A r : Rounds(poly, r) = R(R(R(R(R(R(R(R(r))))))))
    BY DEF Rounds, Divide2Register
<1> HIDE DEF R
<1>3. \A r, s : R(R(Xor(r, s))) = Xor(R(R(r)), R(R(s)))
    BY <1>1
<1>4. \A r, s : R(R(R(R(Xor(r, s))))) = Xor(R(R(R(R(r)))), R(R(R(R(s)))))
    BY <1>3
<1>5. R(R(R(R(R(R(R(R(Xor(x, y)))))))))
          = Xor(R(R(R(R(R(R(R(R(x)))))))), R(R(R(R(R(R(R(R(y)))))))))
    BY <1>4
<1> QED
    BY <1>2, <1>5

(* How far ahead of the division the difference d of two registers reaches *)
(* at least: bit b of a register is about the data bit that is divided b   *)
(* bits from now.  A difference in the data that no round has met yet will *)
(* reach a whole register further when one does, but no sooner: no other   *)
(* may come before it.                                                     *)
Reaches(file, d, h) ==
    IF h < file.width THEN \E b \in d : b >= h
    ELSE h - file.width \in d /\ \A b \in d : b >= h - file.width

LEMMA RoundReaches ==
    ASSUME NEW file, IsLibrary(file), NEW d \in Register(file), NEW h \in Int,
           Reaches(file, d, h)
    PROVE  Reaches(file, DivideRegister(file.poly, d), h - 1)
<1> DEFINE w == file.width
           e == DivideRegister(file.poly, d)
           s == Shift(d, 1)
<1> SUFFICES Reaches(file, e, h - 1)
    OBVIOUS
<1>1. /\ w \in 8..32 /\ w - 1 \in file.poly /\ d \subseteq 0..w - 1
      /\ file.poly \subseteq 0..w - 1
    BY DEF IsLibrary, Library, Register
<1>2. \A b : b \in s <=> b \in 0..31 /\ b + 1 \in d
    BY DEF Shift, Bits
<1>3. e = IF 0 \in d THEN Xor(s, file.poly) ELSE s
    BY DEF DivideRegister
<1>4. Reaches(file, d, h) <=> IF h < w THEN \E b \in d : b >= h
                              ELSE h - w \in d /\ \A b \in d : b >= h - w
    BY DEF Reaches
<1>5. Reaches(file, e, h - 1) <=> IF h - 1 < w THEN \E b \in e : b >= h - 1
                                  ELSE h - 1 - w \in e /\ \A b \in e : b >= h - 1 - w
    BY DEF Reaches
<1> HIDE DEF w, e, s
<1>6. \A b \in d : b # 0 => b - 1 \in s
    BY <1>1, <1>2
<1>7. CASE 0 \in d
  <2>1. w - 1 \notin s /\ w - 1 \in e
    BY <1>1, <1>2, <1>3, <1>7 DEF Xor
  <2>2. h <= w
    BY <1>1, <1>4, <1>7
  <2> QED
    BY <1>1, <1>5, <2>1, <2>2
<1>8. CASE 0 \notin d
  <2>1. e = s
    BY <1>3, <1>8
  <2>2. CASE h < w
    <3>1. PICK b \in d : b >= h
        BY <1>4, <2>2
    <3>2. b \in 0..w - 1 /\ b - 1 \in e /\ b - 1 >= h - 1
        BY <1>1, <1>6, <1>8, <2>1, <3>1
    <3> QED
        BY <1>1, <1>5, <2>2, <3>2
  <2>3. CASE ~(h < w)
    <3>1. h - w \in d /\ \A b \in d : b >= h - w
        BY <1>4, <2>3
    <3>2. h - w # 0 /\ h - w - 1 \in e
        BY <1>1, <1>6, <1>8, <2>1, <3>1
    <3>3. \A b \in e : b >= h - w - 1
        BY <1>1, <1>2, <2>1, <3>1
    <3> QED
        BY <1>1, <1>5, <2>3, <3>2, <3>3
  <2> QED
    BY <2>2, <2>3
<1> QED
    BY <1>7, <1>8

LEMMA RoundsReach ==
    ASSUME NEW file, IsLibrary(file), NEW d \in Register(file), NEW h \in Int,
           Reaches(file, d, h)
    PROVE  Reaches(file, Rounds(file.poly, d), h - 8)
<1> DEFINE R(r) == DivideRegister(file.poly, r)
           S == Register(file)
           P(r, n) == Reaches(file, r, n)
<1>1. \A r \in S : R(r) \in S /\ \A n \in Int : P(r, n) => P(R(r), n - 1)
    BY RoundReaches, DivideRegisterKeepsApart
<1>2. \A r : Rounds(file.poly, r) = R(R(R(R(R(R(R(R(r))))))))
    BY DEF Rounds, Divide2Register
<1>3. d \in S /\ P(d, h)
    OBVIOUS
<1> HIDE DEF R, S, P
<1>4. \A r \in S : R(R(r)) \in S /\ \A n \in Int : P(r, n) => P(R(R(r)), n - 2)
    BY <1>1
<1>5. \A r \in S : R(R(R(R(r)))) \in S
                    /\ \A n \in Int : P(r, n) => P(R(R(R(R(r)))), n - 4)
    BY <1>4
<1>6. P(R(R(R(R(R(R(R(R(d)))))))), h - 8)
    BY <1>3, <1>5
<1> QED
    BY <1>2, <1>6 DEF P

(* The wrong bits, byte by byte.                                           *)
LEMMA WrongBitsAre ==
    ASSUME NEW s1 \in Seq(Byte), NEW s2 \in Seq(Byte), Len(s1) = Len(s2)
    PROVE  /\ WrongBits(s1, s2) \subseteq Nat
           /\ \A n \in 1..Len(s1) : /\ s1[n] \in Byte /\ s2[n] \in Byte
                                    /\ Xor(s1[n], s2[n]) \in Byte
                                    /\ \A b \in Xor(s1[n], s2[n]) :
                                          8 * (n - 1) + b \in WrongBits(s1, s2)
           /\ \A x \in WrongBits(s1, s2) : \E n \in 1..Len(s1) :
                  \E b \in Xor(s1[n], s2[n]) : x = 8 * (n - 1) + b
<1>1. DOMAIN s1 = 1..Len(s1) /\ Len(s1) \in Nat
    OBVIOUS
<1>2. \A n \in 1..Len(s1) : s1[n] \in Byte /\ s2[n] \in Byte
    OBVIOUS
<1>3. \A n \in 1..Len(s1) : Xor(s1[n], s2[n]) \in Byte
    BY <1>2 DEF Byte, Xor
<1>4. \A x : x \in WrongBits(s1, s2) <=> \E n \in 1..Len(s1) :
                 \E b \in Xor(s1[n], s2[n]) : x = 8 * (n - 1) + b
  <2> DEFINE At(n) == {8 * (n - 1) + b : b \in Xor(s1[n], s2[n])}
  <2>1. WrongBits(s1, s2) = UNION {At(n) : n \in 1..Len(s1)}
    BY <1>1 DEF WrongBits
  <2>2. \A x, n : x \in At(n) <=> \E b \in Xor(s1[n], s2[n]) : x = 8 * (n - 1) + b
    OBVIOUS
  <2> HIDE DEF At
  <2>3. \A x : x \in UNION {At(n) : n \in 1..Len(s1)}
                   <=> \E n \in 1..Len(s1) : x \in At(n)
    OBVIOUS
  <2> QED
    BY <2>1, <2>2, <2>3
<1>5. \A n \in 1..Len(s1) : \A b \in Xor(s1[n], s2[n]) : 8 * (n - 1) + b \in Nat
  <2>1. TAKE n \in 1..Len(s1)
  <2>2. TAKE b \in Xor(s1[n], s2[n])
  <2>3. b \in 0..7 /\ n \in Nat /\ n >= 1
    BY <1>1, <1>3 DEF Byte, ByteBits
  <2> QED
    BY <2>3
<1> QED
    BY <1>2, <1>3, <1>4, <1>5

(* What one byte does to two registers, as seen in their difference.       *)
LEMMA ByteDifference ==
    ASSUME NEW file, IsLibrary(file), NEW r \in Register(file), NEW s \in Register(file),
           NEW c \in Byte, NEW d \in Byte
    PROVE  /\ Xor(DivideByte(file.poly, r, c), DivideByte(file.poly, s, d))
                  = Rounds(file.poly, Xor(Xor(r, s), Xor(c, d)))
           /\ Xor(Xor(r, s), Xor(c, d)) \in Register(file)
           /\ Xor(r, s) \in Register(file)
<1>1. /\ DivideByte(file.poly, r, c) = Rounds(file.poly, Xor(r, c))
      /\ DivideByte(file.poly, s, d) = Rounds(file.poly, Xor(s, d))
      /\ file.poly \in SUBSET Bits
      /\ Xor(r, c) \in Register(file) /\ Xor(s, d) \in Register(file)
    BY DivideByteInRegister
<1>2. Xor(Xor(r, c), Xor(s, d)) = Xor(Xor(r, s), Xor(c, d))
    BY DEF Xor
<1>3. \A x, y \in Register(file) : Xor(x, y) \in Register(file)
    BY DEF Register, Xor
<1> QED
    BY <1>1, <1>2, <1>3, RoundsDifference

(* A burst: all wrong bits, f the first, within the length of a register.  *)
(* Up to the byte with f both registers are the same.  From then on their  *)
(* difference reaches a whole register beyond f, so that no wrong bit that *)
(* follows can take it back, and no right one does.                        *)
THEOREM BurstShows ==
    ASSUME NEW file, IsLibrary(file), NEW from,
           NEW s1 \in Seq(Byte), NEW s2 \in Seq(Byte), Len(s1) = Len(s2),
           WrongBits(s1, s2) # {},
           \A x, y \in WrongBits(s1, s2) : x - y < file.width,
           NEW r1 \in Left(file, from, s1), NEW r2 \in Left(file, from, s2)
    PROVE  r1 # r2
<1> DEFINE len == Len(s1)
           D(r, byte) == DivideByte(file.poly, r, byte)
           wrong == WrongBits(s1, s2)
           E(n) == Xor(s1[n], s2[n])
           w == file.width
<1>1. PICK t \in Traces(file, from, s1), u \in Traces(file, from, s2) :
          r1 = t[len] /\ r2 = u[len]
    BY DEF Left
<1>2. /\ t \in [0..len -> Register(file)] /\ u \in [0..len -> Register(file)]
      /\ t[0] = from /\ u[0] = from
      /\ \A n \in 1..len : t[n] = D(t[n - 1], s1[n]) /\ u[n] = D(u[n - 1], s2[n])
    BY <1>1 DEF Traces
<1>3. /\ len \in Nat /\ w \in 8..32
      /\ \A n \in 1..len : n - 1 \in 0..len
    BY DEF IsLibrary, Library
<1>4. /\ wrong \subseteq Nat
      /\ \A n \in 1..len : /\ s1[n] \in Byte /\ s2[n] \in Byte /\ E(n) \subseteq 0..7
                          /\ \A b \in E(n) : 8 * (n - 1) + b \in wrong
      /\ \A x \in wrong : \E n \in 1..len : \E b \in E(n) : x = 8 * (n - 1) + b
    BY WrongBitsAre DEF Byte, ByteBits
<1>5. PICK f \in wrong : \A x \in wrong : ~(x < f)
    BY <1>4, Least
<1>6. PICK k \in 1..len : \E b \in E(k) : f = 8 * (k - 1) + b
    BY <1>4, <1>5
<1>7. PICK j \in E(k) : f = 8 * (k - 1) + j
    BY <1>6
<1>8. ASSUME NEW n \in 1..len
      PROVE  /\ Xor(t[n], u[n]) = Rounds(file.poly, Xor(Xor(t[n - 1], u[n - 1]), E(n)))
             /\ Xor(Xor(t[n - 1], u[n - 1]), E(n)) \in Register(file)
  <2>1. t[n - 1] \in Register(file) /\ u[n - 1] \in Register(file)
    BY <1>2, <1>3
  <2> QED
    BY <1>2, <1>4, <2>1, ByteDifference
<1>9. \A x, y : (x = y <=> Xor(x, y) = {})
    BY DEF Xor
<1>10. \A x \in wrong : x - f < w
    BY <1>5
<1>. /\ k \in Nat /\ k >= 1 /\ k <= len /\ len \in Nat /\ w \in 8..32
    BY <1>3
<1>. j \in 0..7 /\ f \in Nat
    BY <1>4
<1> DEFINE Apart(n) == Reaches(file, Xor(t[n], u[n]), f + w - 8 * n)
<1> HIDE DEF D, len, wrong, E, w
<1>11. \A n \in 1..k - 1 : E(n) = {}
  <2>1. SUFFICES ASSUME NEW n \in 1..k - 1, NEW b \in E(n) PROVE FALSE
    OBVIOUS
  <2>2. n \in 1..len /\ n \in Nat /\ n < k
    OBVIOUS
  <2>3. b \in 0..7 /\ 8 * (n - 1) + b \in wrong
    BY <1>4, <2>1, <2>2
  <2>4. ~(8 * (n - 1) + b < 8 * (k - 1) + j)
    BY <1>5, <1>7, <2>3
  <2> QED
    BY <2>2, <2>3, <2>4
<1>12. t[k - 1] = u[k - 1]
  <2> DEFINE T == {m \in 0..k - 1 : t[m] # u[m]}
  <2>1. SUFFICES ASSUME T # {} PROVE FALSE
    BY <1>3
  <2>2. T \subseteq Nat
    OBVIOUS
  <2>3. PICK m \in T : \A l \in T : ~(l < m)
    BY <2>1, <2>2, Least
  <2>4. m # 0 /\ m \in 0..k - 1 /\ t[m] # u[m]
    BY <1>2, <2>3
  <2>5. m \in 1..len /\ m \in 1..k - 1 /\ m - 1 \in 0..k - 1 /\ m - 1 < m
    BY <1>3, <2>4
  <2>6. t[m - 1] = u[m - 1]
    BY <2>3, <2>5
  <2>7. s1[m] = s2[m]
    BY <1>9, <1>11, <2>5 DEF E
  <2> QED
    BY <1>2, <2>4, <2>5, <2>6, <2>7
<1>13. Apart(k)
  <2>1. Xor(Xor(t[k - 1], u[k - 1]), E(k)) = E(k)
    BY <1>12 DEF Xor
  <2>2. \A b \in E(k) : b >= j
    <3>1. TAKE b \in E(k)
    <3>2. b \in 0..7 /\ j \in 0..7 /\ 8 * (k - 1) + b \in wrong
        BY <1>4
    <3>3. ~(8 * (k - 1) + b < 8 * (k - 1) + j)
        BY <1>5, <1>7, <3>2
    <3> QED
        BY <1>3, <3>2, <3>3
  <2> DEFINE h == w + j
  <2>3. h \in Int /\ h - w = j /\ ~(h < w) /\ h - 8 = f + w - 8 * k
    BY <1>7
  <2> HIDE DEF h
  <2>4. Reaches(file, Xor(Xor(t[k - 1], u[k - 1]), E(k)), h)
    BY <2>1, <2>2, <2>3 DEF Reaches, w
  <2>5. Reaches(file, Xor(t[k], u[k]), h - 8)
    BY <1>8, <2>3, <2>4, RoundsReach
  <2> QED
    BY <2>3, <2>5
<1>14. \A n \in k..len : f + w - 8 * n < w /\ f + w - 8 * n \in Int
    BY <1>7
<1>15. ASSUME NEW n \in k + 1..len, Apart(n - 1)
       PROVE  Apart(n)
  <2> DEFINE d == Xor(t[n - 1], u[n - 1])
             h == f + w - 8 * (n - 1)
  <2>1. n \in 1..len /\ n - 1 \in k..len
    BY <1>3
  <2>2. h < w /\ h \in Int
    BY <1>14, <2>1
  <2>3. PICK b \in d : b >= h
    BY <1>15, <2>2 DEF Reaches, w
  <2>4. \A c \in E(n) : c < h
    <3>1. TAKE c \in E(n)
    <3>2. c \in 0..7 /\ 8 * (n - 1) + c \in wrong
        BY <1>4, <2>1
    <3>3. (8 * (n - 1) + c) - f < w
        BY <1>10, <3>2
    <3>4. n \in Nat
        BY <2>1
    <3> QED
        BY <3>2, <3>3, <3>4
  <2>5. b \in Xor(d, E(n))
    <3>1. b \in Int
        BY <1>2, <1>3, <2>1 DEF Xor, Register
    <3>2. b \notin E(n)
        BY <2>2, <2>3, <2>4, <3>1
    <3> QED
        BY <3>2 DEF Xor
  <2>6. Reaches(file, Xor(d, E(n)), h)
    BY <2>2, <2>3, <2>5 DEF Reaches, w
  <2>7. Reaches(file, Xor(t[n], u[n]), h - 8)
    BY <1>8, <2>1, <2>2, <2>6, RoundsReach
  <2>8. h - 8 = f + w - 8 * n
    BY <1>3, <1>4, <2>1
  <2> QED
    BY <2>7, <2>8
<1> HIDE DEF Apart
<1>16. Apart(len)
  <2> DEFINE T == {m \in k..len : ~Apart(m)}
  <2>1. SUFFICES ASSUME T # {} PROVE FALSE
    BY <1>3
  <2>2. T \subseteq Nat
    BY <1>3
  <2>3. PICK m \in T : \A l \in T : ~(l < m)
    BY <2>1, <2>2, Least
  <2>4. m # k /\ m \in k..len /\ ~Apart(m)
    BY <1>13, <2>3
  <2>5. m \in k + 1..len /\ m - 1 \in k..len /\ m - 1 < m
    BY <1>3, <2>4
  <2>6. Apart(m - 1)
    BY <2>3, <2>5
  <2> QED
    BY <1>15, <2>4, <2>5, <2>6
<1>17. Xor(t[len], u[len]) # {}
  <2>1. len \in k..len
    BY <1>3
  <2> QED
    BY <1>14, <1>16, <2>1 DEF Apart, Reaches, w
<1> QED
    BY <1>1, <1>9, <1>17

(* One wrong byte is a burst, whatever is wrong in it.                     *)
THEOREM OneErrorShows ==
    ASSUME NEW file, IsLibrary(file), NEW from,
           NEW s1 \in Seq(Byte), NEW s2 \in Seq(Byte), Len(s1) = Len(s2),
           NEW k \in 1..Len(s1), s1[k] # s2[k],
           \A m \in 1..Len(s1) \ {k} : s1[m] = s2[m],
           NEW r1 \in Left(file, from, s1), NEW r2 \in Left(file, from, s2)
    PROVE  r1 # r2
<1>1. Xor(s1[k], s2[k]) # {} /\ \A m \in 1..Len(s1) \ {k} : Xor(s1[m], s2[m]) = {}
    BY DEF Xor
<1>2. WrongBits(s1, s2) # {}
    BY <1>1, WrongBitsAre
<1>3. \A x \in WrongBits(s1, s2) : \E b \in Xor(s1[k], s2[k]) : x = 8 * (k - 1) + b
  <2>1. TAKE x \in WrongBits(s1, s2)
  <2>2. PICK n \in 1..Len(s1) : \E b \in Xor(s1[n], s2[n]) : x = 8 * (n - 1) + b
    BY WrongBitsAre
  <2>3. ASSUME n # k PROVE FALSE
    <3>1. Xor(s1[n], s2[n]) = {}
        BY <1>1, <2>3
    <3> QED
        BY <2>2, <3>1
  <2> QED
    BY <2>2, <2>3
<1>4. ASSUME NEW x \in WrongBits(s1, s2), NEW y \in WrongBits(s1, s2)
      PROVE  x - y < file.width
  <2>1. PICK b \in Xor(s1[k], s2[k]) : x = 8 * (k - 1) + b
    BY <1>3
  <2>2. PICK c \in Xor(s1[k], s2[k]) : y = 8 * (k - 1) + c
    BY <1>3
  <2>3. Xor(s1[k], s2[k]) \subseteq 0..7
    BY WrongBitsAre DEF Byte, ByteBits
  <2>4. b \in 0..7 /\ c \in 0..7 /\ k \in Nat /\ file.width \in 8..32
    BY <2>3 DEF IsLibrary, Library
  <2>5. \A m, n \in 0..7, v \in 8..32 : m - n < v
    OBVIOUS
  <2>6. x - y = b - c
    BY <2>1, <2>2, <2>4
  <2> QED
    BY <2>4, <2>5, <2>6
<1> QED
    BY <1>2, <1>4, BurstShows

(* What is done to the result at the end keeps two of them apart too.      *)
LEMMA FinishKeepsApart ==
    ASSUME NEW file, IsLibrary(file), NEW r \in Register(file), NEW s \in Register(file),
           Finish(file, r) = Finish(file, s)
    PROVE  r = s
<1> DEFINE c == Complement(file, r)
           d == Complement(file, s)
<1>1. file.swaps => file.width - 1 = 15
    BY DEF IsLibrary, Library
<1>2. c \in Register(file) /\ d \in Register(file)
    BY DEF Complement, Register
<1>3. c = d => r = s
    BY DEF Complement, Register
<1> HIDE DEF c, d
<1>4. CASE file.swaps
  <2>1. c \subseteq 0..15 /\ d \subseteq 0..15
    BY <1>1, <1>2, <1>4 DEF Register
  <2>2. {b \in 0..15 : (b + 8) % 16 \in c} = {b \in 0..15 : (b + 8) % 16 \in d}
    BY <1>4 DEF Finish, SwapBytes, c, d
  <2>3. \A b \in 0..15 : (b + 8) % 16 \in 0..15 /\ (((b + 8) % 16) + 8) % 16 = b
    OBVIOUS
  <2>4. \A b \in 0..15 : b \in c <=> b \in d
    BY <2>2, <2>3
  <2>5. c = d
    BY <2>1, <2>4
  <2> QED
    BY <1>3, <2>5
<1>5. CASE ~file.swaps
    BY <1>3, <1>5 DEF Finish, SwapBytes, c, d
<1> QED
    BY <1>4, <1>5

(* Where a caller is in its string: its register is what is left of the    *)
(* bytes so far, to which a call that has returned has done what the file  *)
(* does at the end.                                                        *)
TracedOf(p) ==
    call[p] \in {"one_pass", "update"} =>
        \E r \in Left(lib, start[p], fed[p]) :
            crc[p] = IF Checked(p) THEN Finish(lib, r) ELSE r

Traced == \A p \in Caller : TracedOf(p)

LEMMA TracedStays ==
    ASSUME lib' = lib, NEW p \in Caller, TracedOf(p),
           call'[p] = call[p], crc'[p] = crc[p], start'[p] = start[p],
           fed'[p] = fed[p],
           call[p] \in {"one_pass", "update"} => (pc'[p] = "idle" <=> pc[p] = "idle")
    PROVE  TracedOf(p)'
BY DEF TracedOf, Checked

(* ... and while it is in its call, or goes on from where it was.          *)
LEMMA TracedInCall ==
    ASSUME lib' = lib, NEW p \in Caller,
           crc'[p] \in Left(lib, start'[p], fed'[p]), ~Checked(p)'
    PROVE  TracedOf(p)'
BY DEF TracedOf

LEMMA NextTraced == IInv /\ Traced /\ [Next]_vars => Traced'
<1> SUFFICES ASSUME IInv, Traced, [Next]_vars, NEW q \in Caller PROVE TracedOf(q)'
    BY DEF Traced
<1>0. /\ pc \in [Caller -> {"idle", "check", "fill", "bytes"}]
      /\ call \in [Caller -> {"none", "one_pass", "update", "construct"}]
      /\ rest \in [Caller -> Seq(Byte)] /\ crc \in [Caller -> Register(lib)]
      /\ start \in [Caller -> Register(lib)] /\ fed \in [Caller -> Seq(Byte)]
      /\ IsLibrary(lib) /\ UpdateBytes \subseteq Byte /\ lib.starts \subseteq Register(lib)
    BY LibrariesAre, CrcAssumption DEF IInv, TypeOK, IsLibrary
<1>1. TracedOf(q)
    BY DEF Traced
<1>2. ASSUME NEW p \in Caller, NEW kind \in {"one_pass", "update"},
             NEW from \in Register(lib), NEW bytes, Called(p, kind, from, bytes),
             Go(p, "check"),
             \/ /\ start' = [start EXCEPT ![p] = from]
                /\ fed' = [fed EXCEPT ![p] = <<>>]
             \/ /\ call[p] = "update" /\ from = crc[p]
                /\ UNCHANGED <<start, fed>>
      PROVE  TracedOf(q)'
  <2>1. CASE q # p
    BY <1>0, <1>1, <1>2, <2>1, TracedStays DEF Called, Go
  <2>2. CASE q = p
    <3>1. lib' = lib /\ crc'[q] = from /\ pc'[q] = "check"
        BY <1>0, <1>2, <2>2 DEF Called, Go
    <3>2. ~Checked(q)'
        BY <3>1 DEF Checked
    <3>3. from \in Left(lib, start'[q], fed'[q])
      <4>1. CASE start' = [start EXCEPT ![p] = from] /\ fed' = [fed EXCEPT ![p] = <<>>]
        <5>1. start'[q] = from /\ fed'[q] = <<>>
            BY <1>0, <2>2, <4>1
        <5> QED
            BY <5>1, LeftOfNone
      <4>2. CASE call[p] = "update" /\ from = crc[p] /\ UNCHANGED <<start, fed>>
        <5>1. crc[q] \in Left(lib, start[q], fed[q])
            BY <1>1, <2>2, <4>2 DEF TracedOf, Checked
        <5> QED
            BY <2>2, <4>2, <5>1
      <4> QED
        BY <1>2, <4>1, <4>2
    <3> QED
        BY <3>1, <3>2, <3>3, TracedInCall
  <2> QED
    BY <2>1, <2>2
<1>3. ASSUME NEW p \in Caller, CallStep(p)
      PROVE  TracedOf(q)'
  <2>1. ASSUME NEW from \in lib.starts, NEW bytes \in Messages[lib], OnePass(p, from, bytes)
        PROVE  TracedOf(q)'
    BY <1>0, <1>2, <2>1 DEF OnePass
  <2>2. ASSUME NEW from \in lib.starts, NEW byte \in UpdateBytes, UpdateFirst(p, from, byte)
        PROVE  TracedOf(q)'
    BY <1>0, <1>2, <2>2 DEF UpdateFirst
  <2>3. ASSUME NEW byte \in UpdateBytes, UpdateNext(p, byte)
        PROVE  TracedOf(q)'
    <3>1. crc[p] \in Register(lib)
        BY <1>0
    <3> QED
        BY <1>2, <2>3, <3>1 DEF UpdateNext
  <2>4. CASE Construct(p)
    <3>1. /\ lib' = lib /\ call' = [call EXCEPT ![p] = "construct"]
          /\ crc' = [crc EXCEPT ![p] = crc[p]] /\ start' = start /\ fed' = fed
          /\ pc' = [pc EXCEPT ![p] = "fill"]
        BY <2>4 DEF Construct, Called, Go
    <3>2. CASE q = p
        BY <1>0, <3>1, <3>2 DEF TracedOf
    <3>3. CASE q # p
        BY <1>0, <1>1, <3>1, <3>3, TracedStays
    <3> QED
        BY <3>2, <3>3
  <2> QED
    BY <1>3, <2>1, <2>2, <2>3, <2>4 DEF CallStep
<1>4. ASSUME NEW p \in Caller, Check(p) \/ Fill(p) \/ SetFlag(p)
      PROVE  TracedOf(q)'
  <2>1. /\ lib' = lib /\ call' = call /\ crc' = crc /\ start' = start /\ fed' = fed
    BY <1>4 DEF Check, Fill, SetFlag
  <2>2. call[q] \in {"one_pass", "update"} => (pc'[q] = "idle" <=> pc[q] = "idle")
    BY <1>0, <1>4 DEF Check, Fill, SetFlag, Go
  <2> QED
    BY <1>1, <2>1, <2>2, TracedStays
<1>5. ASSUME NEW p \in Caller, LookUp(p)
      PROVE  TracedOf(q)'
  <2>1. CASE q # p
    BY <1>0, <1>1, <1>5, <2>1, TracedStays DEF LookUp
  <2>2. CASE q = p
    <3>1. /\ pc[p] = "bytes" /\ rest[p] \in Seq(Byte) /\ rest[p] # <<>>
          /\ crc[p] \in Register(lib) /\ fed[p] \in Seq(Byte) /\ lib \in Libraries
          /\ lib.static \/ filled = DOMAIN Parts
        BY <1>0, <1>5 DEF LookUp, IInv, TypeOK, Ready, PastCheck
    <3>2. Head(rest[p]) \in Byte
        BY <3>1
    <3>3. ByTable(crc[p], Head(rest[p])) = DivideByte(lib.poly, crc[p], Head(rest[p]))
        BY <3>1, <3>2, ByReadyTable
    <3>4. call[p] \in {"one_pass", "update"}
        BY <1>0, <3>1 DEF IInv, Calls
    <3>5. crc[p] \in Left(lib, start[p], fed[p])
        BY <1>1, <2>2, <3>1, <3>4 DEF TracedOf, Checked
    <3>6. DivideByte(lib.poly, crc[p], Head(rest[p]))
              \in Left(lib, start[p], Append(fed[p], Head(rest[p])))
        BY <1>0, <3>1, <3>2, <3>5, LeftOfMore
    <3>7. /\ lib' = lib /\ start' = start /\ pc'[p] = "bytes"
          /\ crc'[p] = ByTable(crc[p], Head(rest[p]))
          /\ fed'[p] = Append(fed[p], Head(rest[p]))
        BY <1>0, <1>5, <3>1 DEF LookUp
    <3>8. ~Checked(p)'
        BY <3>7 DEF Checked
    <3> QED
        BY <2>2, <3>3, <3>6, <3>7, <3>8, TracedInCall
  <2> QED
    BY <2>1, <2>2
<1>6. ASSUME NEW p \in Caller, Return(p)
      PROVE  TracedOf(q)'
  <2>1. /\ lib' = lib /\ call' = call /\ start' = start /\ fed' = fed
        /\ pc' = [pc EXCEPT ![p] = "idle"] /\ pc[p] = "bytes"
        /\ crc' = [crc EXCEPT ![p] = IF call[p] = "one_pass" THEN Finish(lib, crc[p])
                                     ELSE crc[p]]
    BY <1>6 DEF Return, Go
  <2>2. CASE q # p
    BY <1>0, <1>1, <2>1, <2>2, TracedStays
  <2>3. CASE q = p
    BY <1>0, <1>1, <2>1, <2>3 DEF TracedOf, Checked
  <2> QED
    BY <2>2, <2>3
<1>7. CASE UNCHANGED vars
    BY <1>1, <1>7, TracedStays DEF vars
<1> QED
    BY <1>3, <1>4, <1>5, <1>6, <1>7 DEF Next, Step

LEMMA TracedInvariance == Spec => []Traced
<1>1. Init => Traced
    BY DEF Init, Traced, TracedOf
<1> QED
    BY <1>1, NextTraced, Invariance, PTL DEF Spec

(* Two one-pass calls that began alike and were given strings of one       *)
(* length, whose wrong bits are not further apart than a register is long, *)
(* return different results.                                               *)
THEOREM ErrorsAreShown == Spec => []ErrorsShow
<1>1. ASSUME IInv, Traced PROVE ErrorsShow
  <2> SUFFICES ASSUME NEW p \in Caller, NEW q \in Caller,
                      Checked(p), Checked(q), start[p] = start[q],
                      Len(fed[p]) = Len(fed[q]), WrongBits(fed[p], fed[q]) # {},
                      \A x, y \in WrongBits(fed[p], fed[q]) : x - y < lib.width
               PROVE  crc[p] # crc[q]
    BY DEF ErrorsShow
  <2>1. IsLibrary(lib) /\ fed[p] \in Seq(Byte) /\ fed[q] \in Seq(Byte)
    BY <1>1, CallerTypes, LibrariesAre DEF IInv, TypeOK
  <2>2. PICK r \in Left(lib, start[p], fed[p]) : crc[p] = Finish(lib, r)
    BY <1>1 DEF Traced, TracedOf, Checked
  <2>3. PICK s \in Left(lib, start[p], fed[q]) : crc[q] = Finish(lib, s)
    BY <1>1 DEF Traced, TracedOf, Checked
  <2>4. r # s
    BY <2>1, BurstShows
  <2>5. r \in Register(lib) /\ s \in Register(lib)
    BY <2>1 DEF Left, Traces
  <2> QED
    BY <2>1, <2>2, <2>3, <2>4, <2>5, FinishKeepsApart
<1> QED
    BY <1>1, Invariance, TracedInvariance, PTL

=============================================================================
