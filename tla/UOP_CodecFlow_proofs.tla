------------------------- MODULE UOP_CodecFlow_proofs -------------------------
(***************************************************************************)
(* Proofs about UOP_Codec: a frame survives its way through a packet.      *)
(* The invariant says what the bytes of a packet are, with its marker and  *)
(* with what is left of it.                                                *)
(***************************************************************************)
EXTENDS UOP_Codec_proofs

-----------------------------------------------------------------------------
(* Flags.  The encoder adds to the application's bits what the frame       *)
(* demands; encoding the same frame again adds nothing.                    *)
Added(f) ==
    (IF f.data_size = 0 THEN 128 ELSE 0) + (IF f.type = TypeB THEN 1 ELSE 0)

LEMMA FlagArithmetic ==
    ASSUME NEW own \in OwnFlags
    PROVE  /\ own \in Nat /\ own <= 60 /\ own % 4 = 0
           /\ OrBit(own, 128) = own + 128 /\ OrBit(own + 128, 128) = own + 128
           /\ OrBit(own + 129, 128) = own + 129
           /\ OrBit(own, 1) = own + 1 /\ OrBit(own + 1, 1) = own + 1
           /\ OrBit(own + 128, 1) = own + 129 /\ OrBit(own + 129, 1) = own + 129
  <1>1. PICK k \in 0..15 : own = 4 * k
    BY DEF OwnFlags
  <1>2. own \in Nat /\ own <= 60 /\ own % 4 = 0
    BY <1>1
  <1>3. /\ own \div 128 = 0 /\ (own + 128) \div 128 = 1 /\ (own + 129) \div 128 = 1
    BY <1>2
  <1>4. /\ (own \div 1) % 2 = 0 /\ ((own + 1) \div 1) % 2 = 1
        /\ ((own + 128) \div 1) % 2 = 0 /\ ((own + 129) \div 1) % 2 = 1
    BY <1>1
  <1> QED
    BY <1>2, <1>3, <1>4 DEF OrBit

LEMMA EncodedOwn ==
    ASSUME NEW f, Filled(f), NEW own \in OwnFlags,
           f.flags \in {own, own + Added(f)}
    PROVE  EncodedFlags(f) = own + Added(f)
  <1> DEFINE g == IF f.data_size = 0 THEN OrBit(f.flags, 128) ELSE f.flags
  <1>1. EncodedFlags(f) = OrChecksum(g, HeaderDef(f.type).checksum)
    BY DEF EncodedFlags
  <1>2. OrChecksum(g, XOR) = g /\ OrChecksum(g, CRC8) = OrBit(g, 1)
    BY DEF OrChecksum, XOR, CRC8, CRC16
  <1>3. CASE f.type = TypeB
    <2>1. EncodedFlags(f) = OrBit(g, 1)
      BY <1>1, <1>2, <1>3, LayoutB
    <2>2. CASE f.data_size = 0
      <3>1. Added(f) = 129
        BY <1>3, <2>2 DEF Added
      <3>2. g = OrBit(f.flags, 128) /\ f.flags \in {own, own + 129}
        BY <2>2, <3>1
      <3> QED
        BY <2>1, <3>1, <3>2, FlagArithmetic
    <2>3. CASE f.data_size # 0
      <3>1. Added(f) = 1
        BY <1>3, <2>3 DEF Added
      <3>2. g = f.flags /\ f.flags \in {own, own + 1}
        BY <2>3, <3>1
      <3> QED
        BY <2>1, <3>1, <3>2, FlagArithmetic
    <2> QED
      BY <2>2, <2>3
  <1>4. CASE f.type # TypeB
    <2>1. EncodedFlags(f) = g
      BY <1>1, <1>2, <1>4, LayoutA, NoLayout
    <2>2. CASE f.data_size = 0
      <3>1. Added(f) = 128
        BY <1>4, <2>2 DEF Added
      <3>2. g = OrBit(f.flags, 128) /\ f.flags \in {own, own + 128}
        BY <2>2, <3>1
      <3> QED
        BY <2>1, <3>1, <3>2, FlagArithmetic
    <2>3. CASE f.data_size # 0
      <3>1. Added(f) = 0
        BY <1>4, <2>3 DEF Added
      <3>2. g = f.flags /\ f.flags = own
        BY <2>3, <3>1, FlagArithmetic
      <3> QED
        BY <2>1, <3>1, <3>2, FlagArithmetic
    <2> QED
      BY <2>2, <2>3
  <1> QED
    BY <1>3, <1>4

(* The flags in a packet say whether it has data and which checksum it     *)
(* has, and are neither a type nor the complement of one.                  *)
Telling(flags, checksum) ==
    /\ flags \in Bytes /\ flags % 4 = checksum
    /\ flags \notin HeaderTypes /\ flags # 93

LEMMA EncodedFlagsTell ==
    ASSUME NEW f, f.data_size \in Nat, NEW own \in OwnFlags,
           f.flags = own + Added(f)
    PROVE  /\ f.flags \in Nat /\ f.flags % 256 = f.flags
           /\ Telling(f.flags, IF f.type = TypeB THEN CRC8 ELSE XOR)
           /\ DataZero(f.flags) <=> f.data_size = 0
  <1>1. PICK k \in 0..15 : own = 4 * k
    BY DEF OwnFlags
  <1>2. Added(f) \in {0, 1, 128, 129}
    BY DEF Added
  <1>3. CASE f.type = TypeB /\ f.data_size = 0
    <2>1. f.flags = 4 * k + 129
      BY <1>1, <1>3 DEF Added
    <2>2. f.flags \in 129..189 /\ f.flags % 4 = 1 /\ f.flags \div 128 = 1
      BY <2>1
    <2> QED
      BY <1>3, <2>2 DEF Telling, Bytes, HeaderTypes, TypeA, TypeB, TypeC, TypeD, CRC8,
                        DataZero
  <1>4. CASE f.type = TypeB /\ f.data_size # 0
    <2>1. f.flags = 4 * k + 1
      BY <1>1, <1>4 DEF Added
    <2>2. f.flags \in 1..61 /\ f.flags % 4 = 1 /\ f.flags \div 128 = 0
      BY <2>1
    <2> QED
      BY <1>4, <2>2 DEF Telling, Bytes, HeaderTypes, TypeA, TypeB, TypeC, TypeD, CRC8,
                        DataZero
  <1>5. CASE f.type # TypeB /\ f.data_size = 0
    <2>1. f.flags = 4 * k + 128
      BY <1>1, <1>5 DEF Added
    <2>2. f.flags \in 128..188 /\ f.flags % 4 = 0 /\ f.flags \div 128 = 1
      BY <2>1
    <2> QED
      BY <1>5, <2>2 DEF Telling, Bytes, HeaderTypes, TypeA, TypeB, TypeC, TypeD, XOR,
                        DataZero
  <1>6. CASE f.type # TypeB /\ f.data_size # 0
    <2>1. f.flags = 4 * k
      BY <1>1, <1>6 DEF Added
    <2>2. f.flags \in 0..60 /\ f.flags % 4 = 0 /\ f.flags \div 128 = 0
      BY <2>1
    <2> QED
      BY <1>6, <2>2 DEF Telling, Bytes, HeaderTypes, TypeA, TypeB, TypeC, TypeD, XOR,
                        DataZero
  <1> QED
    BY <1>3, <1>4, <1>5, <1>6

-----------------------------------------------------------------------------
(* What is in a packet.                                                    *)
HasContent(s, p, c) ==
    /\ At(s, p, c.flags) /\ At(s, p + 1, c.cmd) /\ At(s, p + 2, c.src)
    /\ At(s, p + 3, c.dsc) /\ At(s, p + 4, c.sn)

(* The size byte is at position p, the data behind it.                     *)
HasDataAt(s, p, data) ==
    /\ data \in Seq(Bytes) /\ At(s, p, Len(data)) /\ p + Len(data) <= Len(s)
    /\ \A i \in 1..Len(data) : s[p + i] = data[i]

(* The byte at position p is the checksum of what follows position k when  *)
(* it is zero.                                                             *)
SealedAt(s, p, type, k) ==
    /\ p \in 1..Len(s)
    /\ s[p] = Checksum(type, SubSeq(Overwrite(s, p, <<0>>), k + 1, Len(s)))

IsA(s, c) ==
    /\ s \in Seq(Bytes) /\ Len(s) = 10
    /\ At(s, 1, 170) /\ At(s, 2, 170) /\ At(s, 3, 170) /\ At(s, 4, 85)
    /\ HasContent(s, 5, c) /\ SealedAt(s, 10, XOR, 3)
    /\ Telling(c.flags, XOR) /\ DataZero(c.flags) /\ c.data = <<>>

IsB(s, c) ==
    /\ s \in Seq(Bytes) /\ Len(s) >= 8
    /\ At(s, 1, 162) /\ HasContent(s, 2, c) /\ SealedAt(s, 7, CRC8, 0)
    /\ Telling(c.flags, CRC8)
    /\ IF DataZero(c.flags) THEN c.data = <<>> ELSE HasDataAt(s, 8, c.data)

LEMMA OverwriteBack ==
    ASSUME NEW u \in Seq(Bytes), NEW p \in 1..Len(u), u[p] = 0, NEW x \in Bytes
    PROVE  Overwrite(Overwrite(u, p, <<x>>), p, <<0>>) = u
  <1> DEFINE s == Overwrite(u, p, <<x>>)
             t == Overwrite(s, p, <<0>>)
  <1>1. /\ s \in Seq(Bytes) /\ Len(s) = Len(u)
        /\ \A q, y : At(u, q, y) /\ q # p => At(s, q, y)
    BY OverwriteByte
  <1>z. 0 \in Bytes
    BY DEF Bytes
  <1> HIDE DEF s
  <1>2. /\ t \in Seq(Bytes) /\ Len(t) = Len(s) /\ At(t, p, 0)
        /\ \A q, y : At(s, q, y) /\ q # p => At(t, q, y)
    BY <1>1, <1>z, OverwriteByte
  <1> HIDE DEF t
  <1>3. \A i \in 1..Len(t) : t[i] = u[i]
    <2> TAKE i \in 1..Len(t)
    <2>1. CASE i = p
      BY <1>2, <2>1 DEF At
    <2>2. CASE i # p
      <3>1. At(u, i, u[i])
        BY <1>1, <1>2 DEF At
      <3>2. At(t, i, u[i])
        BY <1>1, <1>2, <2>2, <3>1
      <3> QED
        BY <3>2 DEF At
    <2> QED
      BY <2>1, <2>2
  <1>4. t = u
    BY <1>1, <1>2, <1>3, SeqEqual
  <1> QED
    BY <1>4 DEF s, t

(* Sealing keeps what is not the checksum and makes the packet sealed.     *)
LEMMA SealedSeal ==
    ASSUME ChecksumsAreBytes, NEW f, Filled(f),
           NEW rest \in [1..Unwritten(f) -> Bytes]
    PROVE  LET u == Unsealed(f, rest)
               p == Len(HeaderBytes(f)) + 1
               s == Sealed(f, rest)
           IN  /\ s \in Seq(Bytes) /\ Len(s) = Extent(f)
               /\ \A q, y : At(u, q, y) /\ q # p => At(s, q, y)
               /\ SealedAt(s, p, HeaderDef(f.type).checksum,
                           ChecksumOffset(HeaderDef(f.type).marker))
  <1> DEFINE u == Unsealed(f, rest)
             p == Len(HeaderBytes(f)) + 1
             v == SealOf(f, u)
             s == Overwrite(u, p, <<v>>)
             type == HeaderDef(f.type).checksum
             k == ChecksumOffset(HeaderDef(f.type).marker)
  <1>1. /\ u \in Seq(Bytes) /\ v \in Bytes /\ p \in 1..Len(u)
        /\ Sealed(f, rest) = s
    BY SealedByte
  <1>2. At(u, p, 0) /\ Len(u) = Extent(f)
    BY SizeOfUnsealed
  <1>3. v = Checksum(type, SubSeq(u, k + 1, Len(u)))
    BY DEF SealOf, Sum
  <1> HIDE DEF u, p, v, type, k
  <1>4. /\ s \in Seq(Bytes) /\ Len(s) = Len(u) /\ At(s, p, v)
        /\ \A q, y : At(u, q, y) /\ q # p => At(s, q, y)
    BY <1>1, OverwriteByte
  <1>5. Overwrite(s, p, <<0>>) = u
    BY <1>1, <1>2, OverwriteBack DEF At
  <1> HIDE DEF s
  <1>6. SealedAt(s, p, type, k)
    BY <1>3, <1>4, <1>5 DEF SealedAt, At
  <1>7. /\ s \in Seq(Bytes) /\ Len(s) = Extent(f)
        /\ \A q, y : At(u, q, y) /\ q # p => At(s, q, y)
        /\ SealedAt(s, p, type, k)
    BY <1>2, <1>4, <1>6
  <1> QED
    BY <1>1, <1>7 DEF u, p, type, k

(* The fields of a frame with its flags encoded are those it carries.      *)
LEMMA FieldsCarried ==
    ASSUME NEW f, Carried(f) # Nothing
    PROVE  LET c == Carried(f).content
           IN  /\ f.type \in {TypeA, TypeB} /\ (f.data_size = 0 \/ HasData(f))
               /\ c.flags = f.flags % 256 /\ c.cmd = f.cmd % 256
               /\ c.src = f.src % 256 /\ c.dsc = f.dsc % 256 /\ c.sn = f.sn % 256
               /\ c.data = SubSeq(f.data.bytes, 1, f.data_size % 256)
               /\ Carried(f).marker = HeaderDef(f.type).marker
  BY DEF Carried

LEMMA EncodeMakesA ==
    ASSUME ChecksumsAreBytes, NEW f, Filled(f), f.type = TypeA,
           Carried(f) # Nothing, Extent(f) = FrameSize(f),
           NEW own \in OwnFlags, f.flags = own + Added(f),
           NEW rest \in [1..Unwritten(f) -> Bytes]
    PROVE  IsA(Sealed(f, rest), Carried(f).content) /\ Carried(f).marker = U32
  <1> DEFINE u == Unsealed(f, rest)
             h == HeaderBytes(f)
             s == Sealed(f, rest)
             c == Carried(f).content
  <1>1. f.data_size = 0
    <2>1. CASE HasData(f)
      <3>1. /\ Extent(f) = Len(h) + 1 + Len(DataField(f))
            /\ Len(DataField(f)) = f.data_size
            /\ Len(h) = 9 /\ FrameSize(f) = 10
        BY <2>1, ExtentOfFrame, SizeOfData, SizeOfHeader, SizeOfFrame DEF TypeA, TypeB
      <3>2. f.data_size \in Nat
        BY DEF Filled
      <3>3. 10 = 9 + 1 + f.data_size
        BY <3>1
      <3> QED
        BY <3>2, <3>3
    <2> QED
      BY <2>1, FieldsCarried
  <1>2. /\ Len(h) = 9 /\ At(h, 1, 170) /\ At(h, 2, 170) /\ At(h, 3, 170)
        /\ At(h, 4, 85) /\ HasFields(h, 5, f)
    BY HeaderBytesA
  <1>3. \A p, y : At(h, p, y) => At(u, p, y)
    BY SizeOfUnsealed
  <1>4. /\ s \in Seq(Bytes) /\ Len(s) = Extent(f)
        /\ \A q, y : At(u, q, y) /\ q # Len(h) + 1 => At(s, q, y)
        /\ SealedAt(s, Len(h) + 1, HeaderDef(f.type).checksum,
                    ChecksumOffset(HeaderDef(f.type).marker))
    BY SealedSeal
  <1>5. Extent(f) = 10
    BY SizeOfFrame
  <1>6. f.type # TypeB
    BY DEF TypeA, TypeB
  <1>7. Telling(f.flags, XOR) /\ DataZero(f.flags) /\ f.flags % 256 = f.flags
    BY <1>1, <1>6, EncodedFlagsTell
  <1>8. /\ c.flags = f.flags % 256 /\ c.cmd = f.cmd % 256
        /\ c.src = f.src % 256 /\ c.dsc = f.dsc % 256 /\ c.sn = f.sn % 256
        /\ c.data = SubSeq(f.data.bytes, 1, f.data_size % 256)
        /\ Carried(f).marker = HeaderDef(f.type).marker
    BY FieldsCarried
  <1>9. c.data = <<>>
    <2>1. f.data_size % 256 = 0 /\ 1 \in Int /\ 0 \in Int /\ 0 < 1
      BY <1>1
    <2>2. SubSeq(f.data.bytes, 1, 0) = <<>>
      BY <2>1, SubSeqEmpty
    <2> QED
      BY <1>8, <2>1, <2>2
  <1>10. /\ HeaderDef(f.type).checksum = XOR /\ HeaderDef(f.type).marker = U32
         /\ ChecksumOffset(U32) = 3
    BY LayoutA, Offsets
  <1> HIDE DEF u, h, s, c
  <1>11. \A p \in 1..9 : \A y : At(h, p, y) => At(s, p, y)
    BY <1>2, <1>3, <1>4
  <1>12. At(s, 1, 170) /\ At(s, 2, 170) /\ At(s, 3, 170) /\ At(s, 4, 85)
    BY <1>2, <1>11
  <1>13. HasContent(s, 5, c)
    BY <1>2, <1>8, <1>11 DEF HasFields, HasContent
  <1>14. SealedAt(s, 10, XOR, 3)
    BY <1>2, <1>4, <1>10
  <1>15. Telling(c.flags, XOR) /\ DataZero(c.flags)
    BY <1>7, <1>8
  <1>16. IsA(s, c)
    BY <1>4, <1>5, <1>9, <1>12, <1>13, <1>14, <1>15 DEF IsA
  <1> QED
    BY <1>8, <1>10, <1>16 DEF s, c

LEMMA EncodeMakesB ==
    ASSUME ChecksumsAreBytes, NEW f, Filled(f), f.type = TypeB,
           Carried(f) # Nothing, Extent(f) = FrameSize(f),
           NEW own \in OwnFlags, f.flags = own + Added(f),
           NEW rest \in [1..Unwritten(f) -> Bytes]
    PROVE  IsB(Sealed(f, rest), Carried(f).content) /\ Carried(f).marker = U8
  <1> DEFINE u == Unsealed(f, rest)
             h == HeaderBytes(f)
             s == Sealed(f, rest)
             c == Carried(f).content
             n == f.data_size
  <1>1. n \in Nat /\ Extent(f) = 8 + n
    BY SizeOfFrame DEF Filled
  <1>2. /\ Len(h) = 6 /\ At(h, 1, 162) /\ HasFields(h, 2, f)
    BY HeaderBytesB
  <1>3. \A p, y : At(h, p, y) => At(u, p, y)
    BY SizeOfUnsealed
  <1>4. /\ s \in Seq(Bytes) /\ Len(s) = Extent(f)
        /\ \A q, y : At(u, q, y) /\ q # Len(h) + 1 => At(s, q, y)
        /\ SealedAt(s, Len(h) + 1, HeaderDef(f.type).checksum,
                    ChecksumOffset(HeaderDef(f.type).marker))
    BY SealedSeal
  <1>5. /\ Telling(f.flags, CRC8) /\ (DataZero(f.flags) <=> n = 0)
        /\ f.flags % 256 = f.flags
    BY <1>1, EncodedFlagsTell
  <1>6. /\ c.flags = f.flags % 256 /\ c.cmd = f.cmd % 256
        /\ c.src = f.src % 256 /\ c.dsc = f.dsc % 256 /\ c.sn = f.sn % 256
        /\ c.data = SubSeq(f.data.bytes, 1, n % 256)
        /\ Carried(f).marker = HeaderDef(f.type).marker
        /\ n = 0 \/ HasData(f)
    BY FieldsCarried
  <1>7. /\ HeaderDef(f.type).checksum = CRC8 /\ HeaderDef(f.type).marker = U8
        /\ ChecksumOffset(U8) = 0
    BY LayoutB, Offsets
  <1>8. ASSUME n # 0 PROVE HasDataAt(s, 8, c.data)
    <2> DEFINE bytes == f.data.bytes
               d == n % 256
               part == SubSeq(bytes, 1, d)
               whole == SubSeq(bytes, 1, n)
               k == h \o <<0>>
               field == <<d>> \o whole
    <2>1. HasData(f)
      BY <1>6, <1>8
    <2>2. bytes \in Seq(Bytes) /\ n <= Len(bytes) /\ Len(bytes) \in Nat
      BY <2>1, LenProperties DEF HasData, Filled
    <2>3. d \in Bytes /\ d \in Nat /\ d <= n
      BY <1>1, LowByte
    <2>4. DataField(f) = field
      BY <1>1, LayoutB, Written DEF DataField
    <2>5. u = k \o field
      BY <2>1, <2>4, ChecksumFieldIsByte DEF Unsealed
    <2> HIDE DEF bytes, d, n
    <2>6. /\ whole \in Seq(Bytes) /\ Len(whole) = n
          /\ \A i \in 1..n : whole[i] = bytes[i]
      <3>1. /\ whole \in Seq(Bytes)
            /\ Len(whole) = IF 1 <= n THEN n - 1 + 1 ELSE 0
            /\ \A i \in 1..n - 1 + 1 : whole[i] = bytes[1 + i - 1]
        <4>1. \A i \in 1..n : bytes[i] \in Bytes
          BY <1>1, <2>2, ElementOfSeq
        <4> QED
          BY <1>1, <4>1, SubSeqProperties
      <3> QED
        BY <1>1, <1>8, <3>1
    <2>7. /\ part \in Seq(Bytes) /\ Len(part) = d
          /\ \A i \in 1..d : part[i] = bytes[i]
      <3>1. /\ part \in Seq(Bytes)
            /\ Len(part) = IF 1 <= d THEN d - 1 + 1 ELSE 0
            /\ \A i \in 1..d - 1 + 1 : part[i] = bytes[1 + i - 1]
        <4>1. \A i \in 1..d : bytes[i] \in Bytes
          BY <1>1, <2>2, <2>3, ElementOfSeq
        <4> QED
          BY <2>3, <4>1, SubSeqProperties
      <3> QED
        BY <2>3, <3>1
    <2> HIDE DEF whole, part
    <2>8. <<d>> \in Seq(Bytes) /\ Len(<<d>>) = 1 /\ <<d>>[1] = d
      BY <2>3
    <2>9. /\ field \in Seq(Bytes) /\ Len(field) = Len(<<d>>) + Len(whole)
          /\ \A i \in 1 .. Len(<<d>>) + Len(whole) :
                field[i] = IF i <= Len(<<d>>) THEN <<d>>[i] ELSE whole[i - Len(<<d>>)]
      BY <2>6, <2>8, ConcatProperties
    <2>10. /\ Len(field) = n + 1 /\ field[1] = d
           /\ \A i \in 1..n : field[i + 1] = bytes[i]
      BY <1>1, <2>6, <2>8, <2>9
    <2>11. field \in Seq(Bytes)
      BY <2>9
    <2> HIDE DEF field
    <2>12. k \in Seq(Bytes) /\ Len(k) = 7
      <3>1. h \in Seq(Bytes) /\ 0 \in Bytes
        BY SizeOfHeader DEF Bytes
      <3>2. k \in Seq(Bytes) /\ Len(k) = Len(h) + 1
        BY <3>1, OneMore
      <3> QED
        BY <1>2, <3>2
    <2> HIDE DEF k
    <2>13. /\ Len(k \o field) = Len(k) + Len(field)
           /\ \A i \in 1 .. Len(k) + Len(field) :
                 (k \o field)[i] = IF i <= Len(k) THEN k[i] ELSE field[i - Len(k)]
      BY <2>11, <2>12, ConcatProperties
    <2> HIDE DEF u
    <2>14. /\ Len(u) = 8 + n /\ u[8] = d
           /\ \A i \in 1..n : u[8 + i] = bytes[i]
      <3>1. Len(u) = 8 + n
        BY <1>1, <2>5, <2>10, <2>12, <2>13
      <3>2. \A j \in 1..n + 1 : u[7 + j] = field[j]
        BY <1>1, <2>5, <2>10, <2>12, <2>13
      <3>3. u[8] = d
        <4>1. 1 \in 1..n + 1 /\ 7 + 1 = 8
          BY <1>1
        <4> QED
          BY <2>10, <3>2, <4>1
      <3>4. ASSUME NEW i \in 1..n PROVE u[8 + i] = bytes[i]
        <4>1. i + 1 \in 1..n + 1 /\ 7 + (i + 1) = 8 + i
          BY <1>1
        <4> QED
          BY <2>10, <3>2, <4>1
      <3> QED
        BY <3>1, <3>3, <3>4
    <2> HIDE DEF h, s
    <2>15. /\ At(s, 8, d)
           /\ \A i \in 1..d : s[8 + i] = bytes[i]
      <3>1. At(u, 8, d) /\ 8 # Len(h) + 1
        BY <1>1, <1>2, <2>14 DEF At
      <3>2. ASSUME NEW i \in 1..d PROVE s[8 + i] = bytes[i]
        <4>1. i \in 1..n /\ 8 + i \in 1..Len(u) /\ 8 + i # Len(h) + 1
          BY <1>1, <1>2, <2>3, <2>14
        <4>2. At(u, 8 + i, bytes[i])
          BY <2>14, <4>1 DEF At
        <4>3. At(s, 8 + i, bytes[i])
          BY <1>4, <4>1, <4>2
        <4> QED
          BY <4>3 DEF At
      <3> QED
        BY <1>4, <3>1, <3>2
    <2>16. HasDataAt(s, 8, part)
      <3>1. 8 + Len(part) <= Len(s)
        BY <1>1, <1>4, <2>3, <2>7
      <3>2. \A i \in 1..Len(part) : s[8 + i] = part[i]
        BY <2>7, <2>15
      <3> QED
        BY <2>7, <2>15, <3>1, <3>2 DEF HasDataAt
    <2> QED
      BY <1>6, <2>16 DEF part, bytes, d, n
  <1>9. ASSUME n = 0 PROVE c.data = <<>>
    <2>1. n % 256 = 0 /\ 1 \in Int /\ 0 \in Int /\ 0 < 1
      BY <1>9
    <2>2. SubSeq(f.data.bytes, 1, 0) = <<>>
      BY <2>1, SubSeqEmpty
    <2> QED
      BY <1>6, <2>1, <2>2
  <1>10. IF n = 0 THEN c.data = <<>> ELSE HasDataAt(s, 8, c.data)
    BY <1>8, <1>9
  <1> HIDE DEF u, h, s, c, n
  <1>11. \A p \in 1..6 : \A y : At(h, p, y) => At(s, p, y)
    BY <1>2, <1>3, <1>4
  <1>12. At(s, 1, 162)
    BY <1>2, <1>11
  <1>13. HasContent(s, 2, c)
    BY <1>2, <1>6, <1>11 DEF HasFields, HasContent
  <1>14. SealedAt(s, 7, CRC8, 0)
    BY <1>2, <1>4, <1>7
  <1>15. Telling(c.flags, CRC8) /\ (DataZero(c.flags) <=> n = 0)
    BY <1>5, <1>6
  <1>16. s \in Seq(Bytes) /\ Len(s) >= 8
    BY <1>1, <1>4
  <1>17. IsB(s, c)
    BY <1>10, <1>12, <1>13, <1>14, <1>15, <1>16 DEF IsB
  <1> QED
    BY <1>6, <1>7, <1>17 DEF s, c

-----------------------------------------------------------------------------
(* What is left of a packet, as the decoder sees it.                       *)
IsRest(s, c, marker) ==
    /\ s \in Seq(Bytes) /\ marker \in {U8, U16, U32} /\ MarkerType(s) = marker
    /\ TypeIn(s) = IF marker = U8 THEN TypeB ELSE TypeA
    /\ HasContent(s, TypeSize(marker) + 1, c)
    /\ IF DataZero(c.flags) THEN c.data = <<>>
       ELSE marker = U8 /\ HasDataAt(s, 8, c.data)

(* Nothing is missing for DecodePacket to return TRUE.                     *)
Acceptable(s) ==
    /\ Len(s) >= 4 /\ Len(s) - TypeSize(MarkerType(s)) >= HeaderSize(HeaderIn(s))
    /\ ChecksumMatches(s) /\ (DataZero(FlagsIn(s)) \/ IsComplete(s))

LEMMA NoMarker ==
    ASSUME NEW s, s[1] \notin HeaderTypes
    PROVE  MarkerType(s) = NONE
  <1>1. s[1] # MarkerPreambule
    BY DEF HeaderTypes, MarkerPreambule, TypeA
  <1> QED
    BY <1>1 DEF MarkerType, IsPair, IsValueMarker

LEMMA LongMarker ==
    ASSUME NEW s, s[1] = 170, s[2] = 170, s[3] = 170, s[4] = 85
    PROVE  MarkerType(s) = U32 /\ TypeIn(s) = TypeA
  <1>1. MarkerType(s) = U32
    BY DEF MarkerType, IsPair, IsValueMarker, HeaderTypes, MarkerPreambule, TypeA
  <1> QED
    BY <1>1 DEF TypeIn, TypeA

LEMMA MiddleMarker ==
    ASSUME NEW s, s[1] = 170, s[2] = 85
    PROVE  MarkerType(s) = U16 /\ TypeIn(s) = TypeA
  <1>1. MarkerType(s) = U16
    BY DEF MarkerType, IsPair, IsValueMarker, HeaderTypes, MarkerPreambule, TypeA
  <1> QED
    BY <1>1 DEF TypeIn, TypeA, U16, U32

LEMMA ShortMarker ==
    ASSUME NEW s, s[1] = 162, s[2] \in Bytes, s[2] # 93
    PROVE  MarkerType(s) = U8 /\ TypeIn(s) = TypeB
  <1>1. 162 # 255 - s[2]
    BY DEF Bytes
  <1>2. MarkerType(s) = U8
    BY <1>1 DEF MarkerType, IsPair, IsValueMarker, HeaderTypes, MarkerPreambule, TypeB
  <1> QED
    BY <1>2 DEF TypeIn, TypeB, U8, U32

LEMMA SameMarker ==
    ASSUME NEW s, NEW t, s[1] = t[1], s[2] = t[2], s[3] = t[3], s[4] = t[4]
    PROVE  MarkerType(s) = MarkerType(t) /\ TypeIn(s) = TypeIn(t)
  BY DEF MarkerType, TypeIn, IsPair

(* The decoder finds the fields where they are.                            *)
LEMMA RestReads ==
    ASSUME NEW s, NEW c, NEW marker, IsRest(s, c, marker),
           NEW m \in Nat, m = TypeSize(marker)
    PROVE  LET h == HeaderIn(s)
           IN  /\ FlagsIn(s) = c.flags
               /\ ReadValue(s, CmdAt(s), h.cmd) = c.cmd
               /\ ReadValue(s, SrcAt(s), h.src) = c.src
               /\ ReadValue(s, DscAt(s), h.dsc) = c.dsc
               /\ ReadValue(s, SnAt(s), h.sn) = c.sn
               /\ ChecksumAt(s) = m + 6
               /\ HeaderSize(h) = IF marker = U8 THEN 7 ELSE 6
               /\ marker = U8 =>
                     m = 1 /\ DataAt(s) = 9 /\ DataSizeIn(s) = s[8]
               /\ ChecksumVariableType(h.checksum) = U8
  <1> DEFINE h == HeaderIn(s)
  <1>1. /\ s \in Seq(Bytes) /\ marker \in {U8, U16, U32} /\ MarkerType(s) = marker
        /\ TypeIn(s) \in {TypeA, TypeB} /\ HasContent(s, m + 1, c)
        /\ marker = U8 => TypeIn(s) = TypeB
        /\ marker # U8 => TypeIn(s) = TypeA
    BY DEF IsRest
  <1>2. /\ FlagsAt(s) = m + 1 /\ CmdAt(s) = m + 2 /\ SrcAt(s) = m + 3
        /\ DscAt(s) = m + 4 /\ SnAt(s) = m + 5 /\ ChecksumAt(s) = m + 6
        /\ DataSizeAt(s) = m + 7
        /\ TypeIn(s) = TypeA => HeaderSize(h) = 6
        /\ TypeIn(s) = TypeB => DataAt(s) = m + 8 /\ HeaderSize(h) = 7
    BY <1>1, Positions
  <1>3. /\ h.flags = U8 /\ h.cmd = U8 /\ h.src = U8 /\ h.dsc = U8 /\ h.sn = U8
        /\ TypeIn(s) = TypeB => h.data_size = U8
    BY <1>1, LayoutA, LayoutB DEF HeaderIn
  <1>4. \A p : ReadValue(s, p, U8) = s[p]
    BY <1>1, ReadByte
  <1>5. /\ s[m + 1] = c.flags /\ s[m + 2] = c.cmd /\ s[m + 3] = c.src
        /\ s[m + 4] = c.dsc /\ s[m + 5] = c.sn
    <2>1. /\ m + 1 + 1 = m + 2 /\ m + 1 + 2 = m + 3 /\ m + 1 + 3 = m + 4
          /\ m + 1 + 4 = m + 5
      OBVIOUS
    <2> QED
      BY <1>1, <2>1 DEF HasContent, At
  <1>6. marker = U8 => m = 1
    BY Sizes
  <1>7. ChecksumVariableType(h.checksum) = U8
    BY LayoutOf DEF HeaderIn
  <1>8. U8 # U16 /\ U8 # U32
    BY DEF U8, U16, U32
  <1>9. marker = U8 => DataAt(s) = 9 /\ DataSizeIn(s) = s[8]
    BY <1>1, <1>2, <1>3, <1>4, <1>6 DEF DataSizeIn
  <1>10. HeaderSize(h) = IF marker = U8 THEN 7 ELSE 6
    BY <1>1, <1>2
  <1>11. /\ FlagsIn(s) = c.flags
         /\ ReadValue(s, CmdAt(s), h.cmd) = c.cmd
         /\ ReadValue(s, SrcAt(s), h.src) = c.src
         /\ ReadValue(s, DscAt(s), h.dsc) = c.dsc
         /\ ReadValue(s, SnAt(s), h.sn) = c.sn
    BY <1>2, <1>3, <1>4, <1>5 DEF FlagsIn
  <1> QED
    BY <1>2, <1>6, <1>7, <1>9, <1>10, <1>11

(* It leaves them there when it zeroes the checksum.                       *)
LEMMA ZeroedRest ==
    ASSUME NEW s, NEW c, NEW marker, IsRest(s, c, marker),
           NEW required, IsPacket(s, required)
    PROVE  IsRest(Zeroed(s), c, marker)
  <1> DEFINE m == TypeSize(marker)
             t == Zeroed(s)
  <1>1. /\ s \in Seq(Bytes) /\ marker \in {U8, U16, U32} /\ MarkerType(s) = marker
        /\ HasContent(s, m + 1, c)
    BY DEF IsRest
  <1>2. m \in {1, 2, 4}
    BY <1>1, Sizes
  <1>3. ChecksumAt(s) = m + 6
    BY <1>2, RestReads
  <1>4. /\ t = Overwrite(s, m + 6, <<0>>) /\ t \in Seq(Bytes) /\ Len(t) = Len(s)
    BY <1>1, <1>3, ZeroedSize
  <1>5. m + 6 \in 1..Len(s) /\ 0 \in Bytes
    BY <1>1, <1>3, ReadsInside DEF Bytes
  <1> HIDE DEF t
  <1>6. \A q, y : At(s, q, y) /\ q # m + 6 => At(t, q, y)
    <2> HIDE DEF m
    <2> QED
      BY <1>1, <1>4, <1>5, OverwriteByte
  <1>7. Len(s) >= 4 /\ Len(s) \in Nat
    BY <1>1, LenProperties DEF IsPacket
  <1> HIDE DEF m
  <1>8. ASSUME NEW q \in 1..Len(s), q # m + 6 PROVE t[q] = s[q]
    <2>1. At(s, q, s[q])
      BY DEF At
    <2> QED
      BY <1>6, <1>8, <2>1 DEF At
  <1>9. MarkerType(t) = MarkerType(s) /\ TypeIn(t) = TypeIn(s)
    <2>1. t[1] = s[1] /\ t[2] = s[2] /\ t[3] = s[3] /\ t[4] = s[4]
      BY <1>2, <1>7, <1>8
    <2> QED
      BY <2>1, SameMarker
  <1>10. HasContent(t, m + 1, c)
    BY <1>1, <1>2, <1>6 DEF HasContent
  <1>11. ASSUME marker = U8, HasDataAt(s, 8, c.data) PROVE HasDataAt(t, 8, c.data)
    <2>1. m = 1
      BY <1>11, Sizes DEF m
    <2>2. /\ c.data \in Seq(Bytes) /\ At(s, 8, Len(c.data)) /\ 8 + Len(c.data) <= Len(s)
          /\ \A i \in 1..Len(c.data) : s[8 + i] = c.data[i]
      BY <1>11 DEF HasDataAt
    <2>3. Len(c.data) \in Nat
      BY <2>2, LenProperties
    <2>4. ASSUME NEW i \in 1..Len(c.data) PROVE t[8 + i] = c.data[i]
      <3>1. 8 + i \in 1..Len(s) /\ 8 + i # m + 6
        BY <1>7, <2>1, <2>2, <2>3
      <3> QED
        BY <1>8, <2>2, <3>1
    <2>5. At(t, 8, Len(c.data))
      BY <1>6, <2>1, <2>2
    <2> QED
      BY <1>4, <2>2, <2>4, <2>5 DEF HasDataAt
  <1>12. /\ TypeIn(s) = IF marker = U8 THEN TypeB ELSE TypeA
         /\ IF DataZero(c.flags) THEN c.data = <<>>
            ELSE marker = U8 /\ HasDataAt(s, 8, c.data)
    BY DEF IsRest
  <1>13. IsRest(t, c, marker)
    BY <1>1, <1>4, <1>9, <1>10, <1>11, <1>12 DEF IsRest, m
  <1> QED
    BY <1>13 DEF t

-----------------------------------------------------------------------------
(* A packet that is whole, or has lost its preamble, will be accepted.     *)
LEMMA RestMatches ==
    ASSUME NEW s, NEW c, NEW marker, IsRest(s, c, marker),
           NEW type, Telling(c.flags, type),
           SealedAt(s, TypeSize(marker) + 6, type, ChecksumOffset(marker))
    PROVE  ChecksumMatches(s)
  <1> DEFINE p == TypeSize(marker) + 6
             z == Overwrite(s, p, <<0>>)
  <1>1. s \in Seq(Bytes) /\ MarkerType(s) = marker /\ marker \in {U8, U16, U32}
    BY DEF IsRest
  <1>m. TypeSize(marker) \in Nat
    BY <1>1, Sizes
  <1>2. /\ FlagsIn(s) = c.flags /\ ChecksumAt(s) = p
        /\ ChecksumVariableType(HeaderIn(s).checksum) = U8
    BY <1>m, RestReads
  <1>p. /\ p \in 1..Len(s)
        /\ s[p] = Checksum(type, SubSeq(z, ChecksumOffset(marker) + 1, Len(s)))
    BY DEF SealedAt
  <1> HIDE DEF p
  <1>3. Zeroed(s) = z
    <2>1. ToBytes(0, U8) = <<0>>
      BY Written
    <2> QED
      BY <1>2, <2>1 DEF Zeroed
  <1>4. Len(z) = Len(s)
    <2>1. 0 \in Bytes
      BY DEF Bytes
    <2> QED
      BY <1>1, <1>p, <2>1, OverwriteByte
  <1>5. ChecksumBits(FlagsIn(s)) = type
    BY <1>2 DEF ChecksumBits, Telling
  <1>6. ReadValue(s, p, U8) = s[p]
    BY <1>1, ReadByte
  <1> HIDE DEF z
  <1>7. Sum(type, z, ChecksumOffset(marker)) =
           Checksum(type, SubSeq(z, ChecksumOffset(marker) + 1, Len(s)))
    BY <1>4 DEF Sum
  <1>9. Sum(type, z, ChecksumOffset(marker)) = ReadValue(s, p, U8)
    BY <1>p, <1>6, <1>7
  <1> QED
    BY <1>1, <1>2, <1>3, <1>5, <1>9 DEF ChecksumMatches

LEMMA WholeA ==
    ASSUME NEW s, NEW c, IsA(s, c)
    PROVE  IsRest(s, c, U32) /\ Acceptable(s)
  <1>1. /\ s \in Seq(Bytes) /\ Len(s) = 10 /\ HasContent(s, 5, c)
        /\ s[1] = 170 /\ s[2] = 170 /\ s[3] = 170 /\ s[4] = 85
        /\ Telling(c.flags, XOR) /\ DataZero(c.flags) /\ c.data = <<>>
        /\ SealedAt(s, 10, XOR, 3)
    BY DEF IsA, At
  <1>2. MarkerType(s) = U32 /\ TypeIn(s) = TypeA
    BY <1>1, LongMarker
  <1>3. TypeSize(U32) = 4 /\ U32 # U8 /\ 4 + 1 = 5 /\ 4 + 6 = 10 /\ 4 \in Nat
    BY Sizes DEF U8, U32
  <1>4. IsRest(s, c, U32)
    BY <1>1, <1>2, <1>3 DEF IsRest
  <1>5. SealedAt(s, TypeSize(U32) + 6, XOR, ChecksumOffset(U32))
    BY <1>1, <1>3, Offsets
  <1>7. ChecksumMatches(s)
    BY <1>1, <1>4, <1>5, RestMatches
  <1>8. FlagsIn(s) = c.flags /\ HeaderSize(HeaderIn(s)) = 6
    BY <1>3, <1>4, RestReads
  <1> QED
    BY <1>1, <1>2, <1>3, <1>4, <1>7, <1>8 DEF Acceptable

LEMMA WholeB ==
    ASSUME NEW s, NEW c, IsB(s, c)
    PROVE  IsRest(s, c, U8) /\ Acceptable(s)
  <1>1. /\ s \in Seq(Bytes) /\ Len(s) >= 8 /\ HasContent(s, 2, c)
        /\ s[1] = 162 /\ Telling(c.flags, CRC8) /\ SealedAt(s, 7, CRC8, 0)
        /\ IF DataZero(c.flags) THEN c.data = <<>> ELSE HasDataAt(s, 8, c.data)
    BY DEF IsB, At
  <1>l. Len(s) \in Nat
    BY <1>1, LenProperties
  <1>2. MarkerType(s) = U8 /\ TypeIn(s) = TypeB
    <2>1. s[2] = c.flags
      BY <1>1 DEF HasContent, At
    <2>2. s[2] \in Bytes /\ s[2] # 93
      BY <1>1, <2>1 DEF Telling
    <2> QED
      BY <1>1, <2>2, ShortMarker
  <1>3. TypeSize(U8) = 1 /\ 1 + 1 = 2 /\ 1 + 6 = 7 /\ 1 \in Nat
    BY Sizes
  <1>4. IsRest(s, c, U8)
    BY <1>1, <1>2, <1>3 DEF IsRest
  <1>5. SealedAt(s, TypeSize(U8) + 6, CRC8, ChecksumOffset(U8))
    BY <1>1, <1>3, Offsets
  <1>7. ChecksumMatches(s)
    BY <1>1, <1>4, <1>5, RestMatches
  <1>8. /\ FlagsIn(s) = c.flags /\ HeaderSize(HeaderIn(s)) = 7
        /\ DataAt(s) = 9 /\ DataSizeIn(s) = s[8]
    BY <1>3, <1>4, RestReads
  <1>9. ~DataZero(c.flags) => IsComplete(s)
    <2>1. SUFFICES ASSUME ~DataZero(c.flags) PROVE s[8] <= Len(s) - 9 + 1
      BY <1>8 DEF IsComplete
    <2>2. s[8] = Len(c.data) /\ 8 + Len(c.data) <= Len(s) /\ c.data \in Seq(Bytes)
      BY <1>1, <2>1 DEF HasDataAt, At
    <2>3. Len(c.data) \in Nat
      BY <2>2, LenProperties
    <2> QED
      BY <1>l, <2>2, <2>3
  <1>10. Len(s) - 1 >= 7 /\ Len(s) >= 4
    BY <1>1, <1>l
  <1> QED
    BY <1>2, <1>3, <1>4, <1>7, <1>8, <1>9, <1>10 DEF Acceptable

(* What is left of a sequence.                                             *)
LEMMA Rest ==
    ASSUME NEW s \in Seq(Bytes), NEW j \in Nat \ {0}, j <= Len(s)
    PROVE  LET r == SubSeq(s, j, Len(s))
           IN  /\ r \in Seq(Bytes) /\ Len(r) = Len(s) - j + 1
               /\ \A i \in 1..Len(s) - j + 1 : r[i] = s[j + i - 1]
  <1> DEFINE n == Len(s)
             r == SubSeq(s, j, n)
  <1>1. n \in Nat /\ j \in Int /\ n \in Int /\ j <= n
    BY LenProperties
  <1>2. \A i \in j..n : s[i] \in Bytes
    BY <1>1, ElementOfSeq
  <1> HIDE DEF n
  <1>4. /\ r \in Seq(Bytes) /\ Len(r) = IF j <= n THEN n - j + 1 ELSE 0
        /\ \A i \in 1..n - j + 1 : r[i] = s[j + i - 1]
    BY <1>1, <1>2, SubSeqProperties
  <1>5. r \in Seq(Bytes) /\ Len(r) = n - j + 1
    BY <1>1, <1>4
  <1> QED
    BY <1>4, <1>5 DEF n

(* The same, element by element, for a length that is known.               *)
LEMMA RestOf ==
    ASSUME NEW s \in Seq(Bytes), NEW n \in Nat, Len(s) = n,
           NEW j \in Nat \ {0}, j <= n
    PROVE  /\ SubSeq(s, j, n) \in Seq(Bytes) /\ Len(SubSeq(s, j, n)) = n - j + 1
           /\ \A i \in 1..n - j + 1 : At(SubSeq(s, j, n), i, s[j + i - 1])
  <1> DEFINE r == SubSeq(s, j, Len(s))
  <1>1. /\ r \in Seq(Bytes) /\ Len(r) = Len(s) - j + 1
        /\ \A i \in 1..Len(s) - j + 1 : r[i] = s[j + i - 1]
    BY Rest
  <1>2. r = SubSeq(s, j, n)
    OBVIOUS
  <1> HIDE DEF r
  <1> QED
    BY <1>1, <1>2 DEF At

LEMMA WithoutPreamble ==
    ASSUME NEW s, NEW c, IsA(s, c)
    PROVE  IsRest(SubSeq(s, 3, 10), c, U16) /\ Acceptable(SubSeq(s, 3, 10))
  <1> DEFINE r == SubSeq(s, 3, 10)
  <1>1. /\ s \in Seq(Bytes) /\ Len(s) = 10 /\ HasContent(s, 5, c)
        /\ s[3] = 170 /\ s[4] = 85
        /\ Telling(c.flags, XOR) /\ DataZero(c.flags) /\ c.data = <<>>
        /\ SealedAt(s, 10, XOR, 3)
    BY DEF IsA, At
  <1>s. s \in Seq(Bytes)
    BY <1>1
  <1>2. r \in Seq(Bytes) /\ Len(r) = 8 /\ \A i \in 1..8 : r[i] = s[2 + i]
    <2>1. /\ r \in Seq(Bytes) /\ Len(r) = 10 - 3 + 1
          /\ \A i \in 1..10 - 3 + 1 : At(r, i, s[3 + i - 1])
      <3> DEFINE n == 10
                 j == 3
      <3>1. n \in Nat /\ j \in Nat \ {0} /\ j <= n /\ Len(s) = n
        BY <1>1
      <3> HIDE DEF n, j
      <3>2. /\ SubSeq(s, j, n) \in Seq(Bytes) /\ Len(SubSeq(s, j, n)) = n - j + 1
            /\ \A i \in 1..n - j + 1 : At(SubSeq(s, j, n), i, s[j + i - 1])
        BY <1>s, <3>1, RestOf
      <3> QED
        BY <3>2 DEF n, j, r
    <2> HIDE DEF r
    <2>2. ASSUME NEW i \in 1..8 PROVE r[i] = s[2 + i]
      <3>1. 3 + i - 1 = 2 + i
        OBVIOUS
      <3> QED
        BY <2>1, <3>1 DEF At
    <2> QED
      BY <2>1, <2>2
  <1> HIDE DEF r
  <1>3. /\ r[1] = s[3] /\ r[2] = s[4] /\ r[3] = s[5] /\ r[4] = s[6] /\ r[5] = s[7]
        /\ r[6] = s[8] /\ r[7] = s[9] /\ r[8] = s[10]
    BY <1>2
  <1>4. MarkerType(r) = U16 /\ TypeIn(r) = TypeA
    BY <1>1, <1>3, MiddleMarker
  <1>5. /\ TypeSize(U16) = 2 /\ U16 # U8 /\ 2 + 1 = 3 /\ 2 + 6 = 8 /\ 2 \in Nat
        /\ ChecksumOffset(U16) = 1
    BY Sizes, Offsets DEF U8, U16
  <1>6. HasContent(r, 3, c)
    BY <1>1, <1>2, <1>3 DEF HasContent, At
  <1>7. IsRest(r, c, U16)
    BY <1>1, <1>2, <1>4, <1>5, <1>6 DEF IsRest
  <1>8. SealedAt(r, 8, XOR, 1)
    <2> DEFINE y == Overwrite(s, 10, <<0>>)
               z == Overwrite(r, 8, <<0>>)
    <2>1. s[10] = Checksum(XOR, SubSeq(y, 4, 10))
      BY <1>1 DEF SealedAt
    <2>2. 0 \in Bytes /\ 10 \in 1..Len(s) /\ 8 \in 1..Len(r)
      BY <1>1, <1>2 DEF Bytes
    <2>3. /\ y \in Seq(Bytes) /\ Len(y) = Len(s) /\ At(y, 10, 0)
          /\ \A q, x : At(s, q, x) /\ q # 10 => At(y, q, x)
      <3> DEFINE p == 10
      <3>1. p \in 1..Len(s)
        BY <2>2
      <3>z. 0 \in Bytes
        BY <2>2
      <3> HIDE DEF p
      <3>2. LET o == Overwrite(s, p, <<0>>)
            IN  /\ o \in Seq(Bytes) /\ Len(o) = Len(s) /\ At(o, p, 0)
                /\ \A q, x : At(s, q, x) /\ q # p => At(o, q, x)
        BY <1>s, <3>z, <3>1, OverwriteByte
      <3> QED
        BY <3>2 DEF p, y
    <2>4. /\ z \in Seq(Bytes) /\ Len(z) = Len(r) /\ At(z, 8, 0)
          /\ \A q, x : At(r, q, x) /\ q # 8 => At(z, q, x)
      BY <1>2, <2>2, OverwriteByte
    <2> HIDE DEF y, z
    <2>5. \A i \in 1..9 : y[i] = s[i]
      BY <1>1, <2>3 DEF At
    <2>6. \A i \in 1..7 : z[i] = r[i]
      BY <1>2, <2>4 DEF At
    <2>7. \A i \in 1..8 : z[i] = y[2 + i]
      <3>1. \A i \in 1..7 : z[i] = y[2 + i]
        BY <1>2, <2>5, <2>6
      <3>2. z[8] = y[10]
        BY <2>3, <2>4 DEF At
      <3> QED
        BY <3>1, <3>2
    <2>8. SubSeq(y, 4, 10) = SubSeq(z, 2, 8)
      <3> DEFINE a == SubSeq(y, 4, 10)
                 b == SubSeq(z, 2, 8)
      <3>1. /\ a \in Seq(Bytes) /\ Len(a) = 10 - 4 + 1
            /\ \A i \in 1..10 - 4 + 1 : At(a, i, y[4 + i - 1])
        <4> DEFINE n == 10
                   j == 4
        <4>1. n \in Nat /\ j \in Nat \ {0} /\ j <= n /\ Len(y) = n
          BY <1>1, <2>3
        <4> HIDE DEF n, j
        <4>2. /\ SubSeq(y, j, n) \in Seq(Bytes) /\ Len(SubSeq(y, j, n)) = n - j + 1
              /\ \A i \in 1..n - j + 1 : At(SubSeq(y, j, n), i, y[j + i - 1])
          BY <2>3, <4>1, RestOf
        <4> QED
          BY <4>2 DEF n, j, a
      <3>2. /\ b \in Seq(Bytes) /\ Len(b) = 8 - 2 + 1
            /\ \A i \in 1..8 - 2 + 1 : At(b, i, z[2 + i - 1])
        <4> DEFINE n == 8
                   j == 2
        <4>1. n \in Nat /\ j \in Nat \ {0} /\ j <= n /\ Len(z) = n
          BY <1>2, <2>4
        <4> HIDE DEF n, j
        <4>2. /\ SubSeq(z, j, n) \in Seq(Bytes) /\ Len(SubSeq(z, j, n)) = n - j + 1
              /\ \A i \in 1..n - j + 1 : At(SubSeq(z, j, n), i, z[j + i - 1])
          BY <2>4, <4>1, RestOf
        <4> QED
          BY <4>2 DEF n, j, b
      <3> HIDE DEF a, b
      <3>3. ASSUME NEW i \in 1..7 PROVE a[i] = b[i]
        <4>1. 2 + i - 1 \in 1..8 /\ 2 + (2 + i - 1) = 4 + i - 1
          OBVIOUS
        <4>2. z[2 + i - 1] = y[4 + i - 1]
          BY <2>7, <4>1
        <4>3. a[i] = y[4 + i - 1] /\ b[i] = z[2 + i - 1]
          BY <3>1, <3>2 DEF At
        <4> QED
          BY <4>2, <4>3
      <3>4. a = b
        BY <3>1, <3>2, <3>3, SeqEqual
      <3> QED
        BY <3>4 DEF a, b
    <2>9. r[8] = Checksum(XOR, SubSeq(z, 2, 8))
      BY <1>3, <2>1, <2>8
    <2> QED
      BY <1>2, <2>2, <2>9 DEF z, SealedAt
  <1>9. ChecksumMatches(r)
    <2>1. SealedAt(r, TypeSize(U16) + 6, XOR, ChecksumOffset(U16))
      BY <1>5, <1>8
    <2> QED
      BY <1>1, <1>7, <2>1, RestMatches
  <1>10. FlagsIn(r) = c.flags /\ HeaderSize(HeaderIn(r)) = 6
    BY <1>5, <1>7, RestReads
  <1>11. Acceptable(r)
    BY <1>1, <1>2, <1>4, <1>5, <1>9, <1>10 DEF Acceptable
  <1> QED
    BY <1>7, <1>11 DEF r

(* What has lost its first marker byte behind the preamble, or more, is    *)
(* no packet: the complement of a type and the flags are no types.         *)
LEMMA BeginningLost ==
    ASSUME NEW s \in Seq(Bytes), NEW lost \in Nat, lost < Len(s),
           s[lost + 1] \notin HeaderTypes
    PROVE  MarkerType(SubSeq(s, lost + 1, Len(s))) = NONE
  <1> DEFINE j == lost + 1
             r == SubSeq(s, j, Len(s))
  <1>1. j \in Nat \ {0} /\ j <= Len(s) /\ Len(s) \in Nat
    BY LenProperties
  <1>j. s[j] \notin HeaderTypes
    OBVIOUS
  <1> HIDE DEF j
  <1>2. \A i \in 1..Len(s) - j + 1 : r[i] = s[j + i - 1]
    BY <1>1, Rest
  <1>3. 1 \in 1..Len(s) - j + 1 /\ j + 1 - 1 = j
    BY <1>1
  <1>4. r[1] = s[j]
    BY <1>2, <1>3
  <1>5. MarkerType(r) = NONE
    BY <1>j, <1>4, NoMarker
  <1> QED
    BY <1>5 DEF j

-----------------------------------------------------------------------------
(* The invariant: the frame's flags are its own or those the encoder has   *)
(* added, the sender's packet is what the encoder makes of a frame, and    *)
(* the receiver's is what is left of it.                                   *)
OwnFlagsInv ==
    \E own \in OwnFlags : frame.flags \in {own, own + Added(frame)}

IsContent(c) ==
    /\ c = [flags |-> c.flags, cmd |-> c.cmd, src |-> c.src, dsc |-> c.dsc,
            sn |-> c.sn, data |-> c.data]
    /\ c \in Content

SentInv ==
    \/ sent.content = Unknown /\ sent.marker = Garbled
    \/ /\ sent.marker = U32 /\ IsA(packet.bytes, sent.content)
       /\ IsContent(sent.content)
    \/ /\ sent.marker = U8 /\ IsB(packet.bytes, sent.content)
       /\ IsContent(sent.content)

ArrivedInv ==
    /\ arrived = [content |-> arrived.content, marker |-> arrived.marker]
    /\ \/ arrived.content = Unknown /\ arrived.marker = Garbled
       \/ MarkerType(income.bytes) = NONE /\ arrived.marker = Garbled
       \/ /\ IsContent(arrived.content)
          /\ \E marker \in {U8, U16, U32} :
                /\ IsRest(income.bytes, arrived.content, marker)
                /\ arrived.marker # Garbled =>
                      arrived.marker = marker /\ Acceptable(income.bytes)

FlowInv == OwnFlagsInv /\ SentInv /\ ArrivedInv

LEMMA NothingArrived ==
    arrived = Nothing => ArrivedInv
  BY DEF ArrivedInv, Nothing

LEMMA CarriedIsContent ==
    ASSUME NEW f, Filled(f), Carried(f) # Nothing
    PROVE  IsContent(Carried(f).content)
  <1> DEFINE c == Carried(f).content
             d == f.data_size % 256
             data == SubSeq(f.data.bytes, 1, d)
  <1>1. /\ f.flags % 256 \in Bytes /\ f.cmd % 256 \in Bytes /\ f.src % 256 \in Bytes
        /\ f.dsc % 256 \in Bytes /\ f.sn % 256 \in Bytes
    BY LowByte DEF Filled
  <1>2. c = [flags |-> f.flags % 256, cmd |-> f.cmd % 256, src |-> f.src % 256,
             dsc |-> f.dsc % 256, sn |-> f.sn % 256, data |-> data]
    BY DEF Carried
  <1>3. data \in Seq(Bytes)
    <2>1. d \in Nat /\ d <= f.data_size
      BY DEF Filled
    <2>2. f.data_size = 0 \/ HasData(f)
      BY FieldsCarried
    <2>3. f.data.bytes \in Seq(Bytes) /\ Len(f.data.bytes) \in Nat /\ d <= Len(f.data.bytes)
      <3>1. f.data.bytes \in Seq(Bytes) /\ f.data.size = Len(f.data.bytes)
            /\ f.data_size \in Nat
        BY DEF Filled
      <3>2. Len(f.data.bytes) \in Nat
        BY <3>1, LenProperties
      <3>3. CASE f.data_size = 0
        BY <2>1, <3>1, <3>2, <3>3
      <3>4. CASE HasData(f)
        <4>1. f.data.size >= f.data_size
          BY <3>4 DEF HasData
        <4> QED
          BY <2>1, <3>1, <3>2, <4>1
      <3> QED
        BY <2>2, <3>1, <3>2, <3>3, <3>4
    <2> HIDE DEF d
    <2>4. \A i \in 1..d : f.data.bytes[i] \in Bytes
      BY <2>1, <2>3, ElementOfSeq
    <2> QED
      BY <2>1, <2>4, SubSeqProperties
  <1> HIDE DEF c, data
  <1>4. c \in Content
    BY <1>1, <1>2, <1>3 DEF Content
  <1>5. IsContent(c)
    BY <1>2, <1>4 DEF IsContent
  <1> QED
    BY <1>5 DEF c

LEMMA InitFlow == Init => FlowInv
  <1> SUFFICES ASSUME Init PROVE FlowInv
    OBVIOUS
  <1>1. OwnFlagsInv
    <2>1. PICK f \in Frames : frame = Composed(f, f.flags, Empty)
      BY DEF Init
    <2>2. f.flags \in OwnFlags /\ f \in FrameType
      BY OwnFlagsAreNat, CodecAssumption
    <2>3. frame.flags = f.flags
      BY <2>1, <2>2 DEF Composed, FrameType
    <2> QED
      BY <2>2, <2>3 DEF OwnFlagsInv
  <1>2. SentInv
    BY DEF Init, SentInv, Nothing
  <1>3. ArrivedInv
    BY NothingArrived DEF Init
  <1> QED
    BY <1>1, <1>2, <1>3 DEF FlowInv

LEMMA ComposeKeepsFlow ==
    ASSUME KeepFlags = FALSE, FlowInv, NEW f \in Frames, Compose(f)
    PROVE  FlowInv'
  <1>1. OwnFlagsInv'
    <2>1. frame' = Composed(f, f.flags, frame.data)
      BY DEF Compose
    <2>2. f.flags \in OwnFlags /\ f \in FrameType
      BY OwnFlagsAreNat, CodecAssumption
    <2>3. frame'.flags = f.flags
      BY <2>1, <2>2 DEF Composed, FrameType
    <2> QED
      BY <2>2, <2>3 DEF OwnFlagsInv
  <1>2. SentInv'
    BY DEF Compose, FlowInv, SentInv
  <1>3. ArrivedInv'
    BY DEF Compose, ArrivedInv, Nothing
  <1> QED
    BY <1>1, <1>2, <1>3 DEF FlowInv

LEMMA EncodeKeepsFlow ==
    ASSUME ChecksumsAreBytes, Inv, FlowInv, EncodeFrame
    PROVE  FlowInv'
  <1> DEFINE n == FrameSize(frame)
             r == Resize(packet, n, TRUE)
  <1>1. PICK own \in OwnFlags : frame.flags \in {own, own + Added(frame)}
    BY DEF FlowInv, OwnFlagsInv
  <1>2. /\ frame'.type = frame.type /\ frame'.data_size = frame.data_size
        /\ frame'.flags = EncodedFlags(frame)
        /\ Filled(frame) /\ Filled(frame')
        /\ Extent(frame') = FrameSize(frame') /\ sent' = Carried(frame')
    BY EncodedFrame
  <1>3. Added(frame') = Added(frame)
    BY <1>2 DEF Added
  <1>4. frame'.flags = own + Added(frame')
    BY <1>1, <1>2, <1>3, EncodedOwn
  <1>5. OwnFlagsInv'
    <2>1. \E o \in OwnFlags : frame'.flags \in {o, o + Added(frame')}
      BY <1>4
    <2> QED
      BY <2>1 DEF OwnFlagsInv, Added
  <1>6. PICK rest \in [1..Unwritten(frame') -> Bytes] :
           packet' = [r EXCEPT !.bytes = Sealed(frame', rest)]
    BY EncodedFrame
  <1>7. packet'.bytes = Sealed(frame', rest)
    <2>1. r \in Buffer
      <3>1. n \in Nat /\ packet \in Buffer /\ Reused(packet)
        BY <1>2, SizeOfFrame DEF Inv, Contains
      <3> QED
        BY <3>1, ResizeReuses
    <2> HIDE DEF r
    <2> QED
      BY <1>6, <2>1 DEF Buffer
  <1>8. SentInv'
    <2>1. CASE Carried(frame') = Nothing
      BY <1>2, <2>1 DEF SentInv, Nothing
    <2>2. CASE Carried(frame') # Nothing
      <3>1. frame'.type \in {TypeA, TypeB}
        BY <2>2, FieldsCarried
      <3>2. IsContent(Carried(frame').content)
        BY <1>2, <2>2, CarriedIsContent
      <3>3. CASE frame'.type = TypeA
        <4>1. /\ IsA(Sealed(frame', rest), Carried(frame').content)
              /\ Carried(frame').marker = U32
          BY <1>2, <1>4, <2>2, <3>3, EncodeMakesA
        <4>2. /\ sent'.marker = U32 /\ IsA(packet'.bytes, sent'.content)
              /\ IsContent(sent'.content)
          BY <1>2, <1>7, <3>2, <4>1
        <4> QED
          BY <4>2 DEF SentInv
      <3>4. CASE frame'.type = TypeB
        <4>1. /\ IsB(Sealed(frame', rest), Carried(frame').content)
              /\ Carried(frame').marker = U8
          BY <1>2, <1>4, <2>2, <3>4, EncodeMakesB
        <4>2. /\ sent'.marker = U8 /\ IsB(packet'.bytes, sent'.content)
              /\ IsContent(sent'.content)
          BY <1>2, <1>7, <3>2, <4>1
        <4> QED
          BY <4>2 DEF SentInv
      <3> QED
        BY <3>1, <3>3, <3>4
    <2> QED
      BY <2>1, <2>2
  <1>9. ArrivedInv'
    BY DEF EncodeFrame, FlowInv, ArrivedInv
  <1> QED
    BY <1>5, <1>8, <1>9 DEF FlowInv

LEMMA OverrunKeepsFlow ==
    ASSUME FlowInv, Overrun
    PROVE  FlowInv'
  BY DEF FlowInv, OwnFlagsInv, SentInv, ArrivedInv, Overrun

(* What Carry delivers of a packet that carries something.                 *)
LEMMA CarriedA ==
    ASSUME NEW s, NEW c, IsA(s, c), NEW lost \in Nat, lost < 10
    PROVE  LET r == SubSeq(s, lost + 1, 10)
           IN  /\ lost = 0 => IsRest(r, c, U32) /\ Acceptable(r)
               /\ lost = 2 => IsRest(r, c, U16) /\ Acceptable(r)
               /\ lost \in {3, 4} => MarkerType(r) = NONE
  <1>1. /\ s \in Seq(Bytes) /\ Len(s) = 10 /\ s[4] = 85 /\ s[5] = c.flags
        /\ Telling(c.flags, XOR)
    BY DEF IsA, HasContent, At
  <1>2. CASE lost = 0
    <2>1. SubSeq(s, 1, Len(s)) = s
      BY <1>1, SubSeqFull
    <2>2. SubSeq(s, lost + 1, 10) = s
      BY <1>1, <1>2, <2>1
    <2>3. IsRest(s, c, U32) /\ Acceptable(s)
      BY WholeA
    <2>4. lost # 2 /\ lost \notin {3, 4}
      BY <1>2
    <2> DEFINE r == SubSeq(s, lost + 1, 10)
    <2>5. r = s
      BY <2>2
    <2> HIDE DEF r
    <2>6. IsRest(r, c, U32) /\ Acceptable(r)
      BY <2>3, <2>5
    <2> QED
      BY <2>4, <2>6 DEF r
  <1>3. CASE lost = 2
    <2>1. lost + 1 = 3
      BY <1>3
    <2> QED
      BY <1>3, <2>1, WithoutPreamble
  <1>4. CASE lost \in {3, 4}
    <2>1. lost + 1 \in {4, 5}
      BY <1>4
    <2>2. 85 \notin HeaderTypes
      BY DEF HeaderTypes, TypeA, TypeB, TypeC, TypeD
    <2>3. s[lost + 1] \notin HeaderTypes
      BY <1>1, <2>1, <2>2 DEF Telling
    <2>4. lost < Len(s) /\ s \in Seq(Bytes)
      BY <1>1
    <2>5. MarkerType(SubSeq(s, lost + 1, Len(s))) = NONE
      BY <2>3, <2>4, BeginningLost
    <2> QED
      BY <1>1, <1>4, <2>5
  <1> QED
    BY <1>2, <1>3, <1>4

LEMMA CarriedB ==
    ASSUME NEW s, NEW c, IsB(s, c), NEW lost \in {0, 1}
    PROVE  LET r == SubSeq(s, lost + 1, Len(s))
           IN  /\ lost = 0 => IsRest(r, c, U8) /\ Acceptable(r)
               /\ lost = 1 => MarkerType(r) = NONE
  <1>1. s \in Seq(Bytes) /\ Len(s) >= 8 /\ s[2] = c.flags /\ Telling(c.flags, CRC8)
    BY DEF IsB, HasContent, At
  <1>2. CASE lost = 0
    <2>1. SubSeq(s, 1, Len(s)) = s
      BY <1>1, SubSeqFull
    <2>2. lost + 1 = 1 /\ lost # 1
      BY <1>2
    <2>3. IsRest(s, c, U8) /\ Acceptable(s)
      BY WholeB
    <2> DEFINE r == SubSeq(s, lost + 1, Len(s))
    <2>4. r = s
      BY <2>1, <2>2
    <2> HIDE DEF r
    <2>5. IsRest(r, c, U8) /\ Acceptable(r)
      BY <2>3, <2>4
    <2> QED
      BY <2>2, <2>5 DEF r
  <1>3. CASE lost = 1
    <2>1. lost + 1 = 2
      BY <1>3
    <2>2. s[lost + 1] \notin HeaderTypes
      BY <1>1, <2>1 DEF Telling
    <2>3. lost < Len(s) /\ lost \in Nat
      BY <1>1, <1>3, LenProperties
    <2> QED
      BY <1>1, <1>3, <2>2, <2>3, BeginningLost
  <1> QED
    BY <1>2, <1>3

LEMMA CarryKeepsFlow ==
    ASSUME Inv, FlowInv, NEW lost \in Losses, Carry(lost)
    PROVE  FlowInv'
  <1> DEFINE r == SubSeq(packet.bytes, lost + 1, packet.size)
             c == sent.content
  <1>1. lost \in Nat
    BY CodecAssumption
  <1>2. packet.bytes \in Seq(Bytes) /\ Len(packet.bytes) = packet.size
    BY DEF Inv, Contains, Buffer
  <1>3. lost < Len(packet.bytes)
    BY <1>2 DEF Carry
  <1>4. income'.bytes = r
    <2>1. r \in Seq(Bytes)
      <3>1. \A i \in lost + 1..packet.size : packet.bytes[i] \in Bytes
        BY <1>1, <1>2, ElementOfSeq
      <3>2. lost + 1 \in Int /\ packet.size \in Int
        BY <1>1, <1>2, LenProperties
      <3> QED
        BY <3>1, <3>2, SubSeqProperties
    <2>2. income' = Write(Empty, r)
      BY DEF Carry
    <2> HIDE DEF r
    <2> QED
      BY <2>1, <2>2, EmptyBuffer, WriteGrows
  <1>5. /\ arrived' = [content |-> arrived'.content, marker |-> arrived'.marker]
        /\ arrived'.content = IF Survives(sent.marker, lost) THEN c ELSE Unknown
        /\ arrived'.marker = IF lost = 0 THEN sent.marker
                             ELSE IF lost = 2 /\ sent.marker = U32 THEN U16
                             ELSE Garbled
    BY DEF Carry
  <1>6. U8 = 1 /\ U16 = 2 /\ U32 = 3 /\ Garbled = -1
    BY DEF U8, U16, U32, Garbled
  <1> HIDE DEF r, c
  <1>7. ArrivedInv'
    <2>1. CASE sent.content = Unknown /\ sent.marker = Garbled
      <3>1. arrived'.marker = Garbled /\ arrived'.content = Unknown
        BY <1>5, <1>6, <2>1 DEF c
      <3> QED
        BY <1>5, <3>1 DEF ArrivedInv
    <2>2. CASE sent.marker = U32 /\ IsA(packet.bytes, c) /\ IsContent(c)
      <3>1. Survives(sent.marker, lost) <=> lost \in {0, 2, 3, 4}
        BY <1>6, <2>2 DEF Survives
      <3>2. Len(packet.bytes) = 10
        BY <2>2 DEF IsA
      <3>3. /\ lost = 0 => IsRest(r, c, U32) /\ Acceptable(r)
            /\ lost = 2 => IsRest(r, c, U16) /\ Acceptable(r)
            /\ lost \in {3, 4} => MarkerType(r) = NONE
        BY <1>1, <1>2, <1>3, <2>2, <3>2, CarriedA DEF r
      <3>4. CASE lost = 0
        <4>1. /\ IsContent(arrived'.content) /\ arrived'.marker = U32
              /\ IsRest(income'.bytes, arrived'.content, U32)
              /\ Acceptable(income'.bytes)
          BY <1>4, <1>5, <2>2, <3>1, <3>3, <3>4
        <4> QED
          BY <1>5, <4>1 DEF ArrivedInv
      <3>5. CASE lost = 2
        <4>1. /\ IsContent(arrived'.content) /\ arrived'.marker = U16
              /\ IsRest(income'.bytes, arrived'.content, U16)
              /\ Acceptable(income'.bytes)
          BY <1>4, <1>5, <2>2, <3>1, <3>3, <3>5
        <4> QED
          BY <1>5, <4>1 DEF ArrivedInv
      <3>6. CASE lost \in {3, 4}
        <4>1. MarkerType(income'.bytes) = NONE /\ arrived'.marker = Garbled
          BY <1>4, <1>5, <3>3, <3>6
        <4> QED
          BY <1>5, <4>1 DEF ArrivedInv
      <3>7. CASE lost \notin {0, 2, 3, 4}
        <4>1. arrived'.content = Unknown /\ arrived'.marker = Garbled
          BY <1>5, <3>1, <3>7
        <4> QED
          BY <1>5, <4>1 DEF ArrivedInv
      <3> QED
        BY <3>4, <3>5, <3>6, <3>7
    <2>3. CASE sent.marker = U8 /\ IsB(packet.bytes, c) /\ IsContent(c)
      <3>1. Survives(sent.marker, lost) <=> lost \in {0, 1}
        BY <1>6, <2>3 DEF Survives
      <3>2. ~(lost = 2 /\ sent.marker = U32)
        BY <1>6, <2>3
      <3>3. CASE lost = 0
        <4>1. IsRest(r, c, U8) /\ Acceptable(r)
          BY <1>2, <2>3, <3>3, CarriedB DEF r
        <4>2. /\ IsContent(arrived'.content) /\ arrived'.marker = U8
              /\ IsRest(income'.bytes, arrived'.content, U8)
              /\ Acceptable(income'.bytes)
          BY <1>4, <1>5, <2>3, <3>1, <3>3, <4>1
        <4> QED
          BY <1>5, <4>2 DEF ArrivedInv
      <3>4. CASE lost = 1
        <4>1. MarkerType(r) = NONE
          BY <1>2, <2>3, <3>4, CarriedB DEF r
        <4>2. MarkerType(income'.bytes) = NONE /\ arrived'.marker = Garbled
          BY <1>4, <1>5, <3>2, <3>4, <4>1
        <4> QED
          BY <1>5, <4>2 DEF ArrivedInv
      <3>5. CASE lost \notin {0, 1}
        <4>1. arrived'.content = Unknown /\ arrived'.marker = Garbled
          BY <1>5, <3>1, <3>2, <3>5
        <4> QED
          BY <1>5, <4>1 DEF ArrivedInv
      <3> QED
        BY <3>3, <3>4, <3>5
    <2> QED
      BY <2>1, <2>2, <2>3 DEF FlowInv, SentInv, c
  <1>8. OwnFlagsInv' /\ SentInv'
    BY DEF Carry, FlowInv, OwnFlagsInv, SentInv
  <1> QED
    BY <1>7, <1>8 DEF FlowInv

LEMMA DecodeKeepsFlow ==
    ASSUME Inv, FlowInv, NEW required, DecodePacket(required)
    PROVE  FlowInv'
  <1>1. CASE DecodeNoPacket(required)
    BY <1>1 DEF DecodeNoPacket, FlowInv, OwnFlagsInv, SentInv, ArrivedInv
  <1>2. CASE DecodeOverruns(required)
    BY <1>2, OverrunKeepsFlow DEF DecodeOverruns
  <1>3. CASE \E result \in BOOLEAN : Opens(required) /\ Returns(result)
    <2> DEFINE s == income.bytes
               c == arrived.content
    <2>1. IsPacket(s, required)
      BY <1>3 DEF Opens
    <2>2. MarkerType(s) # NONE
      BY <2>1 DEF IsPacket
    <2>3. income'.bytes = Zeroed(s)
      BY <1>3 DEF Returns, Inv, Contains, Buffer
    <2>4. arrived = [content |-> c, marker |-> arrived.marker]
      BY DEF FlowInv, ArrivedInv
    <2>5. arrived' = [arrived EXCEPT !.marker = Garbled]
      BY <1>3 DEF Returns
    <2> HIDE DEF s, c
    <2>6. arrived'.content = c /\ arrived'.marker = Garbled
          /\ arrived' = [content |-> arrived'.content, marker |-> arrived'.marker]
      BY <2>4, <2>5
    <2>7. ASSUME c = Unknown
          PROVE  ArrivedInv'
      BY <2>6, <2>7 DEF ArrivedInv
    <2>8. ASSUME IsContent(c), \E marker \in {U8, U16, U32} : IsRest(s, c, marker)
          PROVE  ArrivedInv'
      <3>1. PICK marker \in {U8, U16, U32} : IsRest(s, c, marker)
        BY <2>8
      <3>2. IsRest(Zeroed(s), c, marker)
        BY <2>1, <3>1, ZeroedRest
      <3>3. IsContent(arrived'.content) /\ IsRest(income'.bytes, arrived'.content, marker)
        BY <2>3, <2>6, <2>8, <3>2
      <3> QED
        BY <2>6, <3>3 DEF ArrivedInv
    <2>9. ArrivedInv'
      BY <2>2, <2>7, <2>8 DEF FlowInv, ArrivedInv, s, c
    <2>10. OwnFlagsInv' /\ SentInv'
      BY <1>3 DEF Returns, FlowInv, OwnFlagsInv, SentInv
    <2> QED
      BY <2>9, <2>10 DEF FlowInv
  <1>4. CASE \/ DecodeBadChecksum(required) \/ DecodeWithoutData(required)
             \/ DecodeTooShort(required) \/ DecodeData(required)
    <2>1. \E result \in BOOLEAN : Opens(required) /\ Returns(result)
      BY <1>4 DEF DecodeBadChecksum, DecodeWithoutData, DecodeTooShort, DecodeData,
                  OpensData
    <2> QED
      BY <1>3, <2>1
  <1> QED
    BY <1>1, <1>2, <1>4 DEF DecodePacket

LEMMA NextKeepsFlow ==
    ASSUME ChecksumsAreBytes, KeepFlags = FALSE, Inv, FlowInv, [Next]_vars
    PROVE  FlowInv'
  <1>1. CASE \E f \in Frames : Compose(f)
    BY <1>1, ComposeKeepsFlow
  <1>2. CASE EncodeFrame
    BY <1>2, EncodeKeepsFlow
  <1>3. CASE EncodeFrameOverruns
    BY <1>3, OverrunKeepsFlow DEF EncodeFrameOverruns
  <1>4. CASE \E lost \in Losses : Carry(lost)
    BY <1>4, CarryKeepsFlow
  <1>5. CASE \E required \in VariableTypes : DecodePacket(required)
    BY <1>5, DecodeKeepsFlow
  <1>6. CASE UNCHANGED vars
    BY <1>6 DEF FlowInv, OwnFlagsInv, SentInv, ArrivedInv, vars
  <1> QED
    BY <1>1, <1>2, <1>3, <1>4, <1>5, <1>6 DEF Next

LEMMA FlowHolds ==
    ASSUME ChecksumsAreBytes, KeepFlags = FALSE
    PROVE  Spec => []FlowInv
  <1>1. Init => FlowInv
    BY InitFlow
  <1>2. Inv /\ FlowInv /\ [Next]_vars => FlowInv'
    BY NextKeepsFlow
  <1> QED
    BY <1>1, <1>2, InvHolds, PTL DEF Spec

-----------------------------------------------------------------------------
(* A packet that may ask for its marker is accepted.                       *)
LEMMA IntactStep ==
    ASSUME FlowInv, NEW required \in VariableTypes, required <= arrived.marker,
           DecodePacket(required)
    PROVE  ok' \/ ~defined'
  <1> DEFINE s == income.bytes
             marker == arrived.marker
  <1>1. required \in Nat /\ Garbled = -1
    BY DEF VariableTypes, NONE, U8, U16, U32, Garbled
  <1>2. marker # Garbled
    BY <1>1
  <1>3. PICK m \in {U8, U16, U32} :
           /\ IsRest(s, arrived.content, m)
           /\ marker = m /\ Acceptable(s)
    BY <1>2 DEF FlowInv, ArrivedInv
  <1>4. MarkerType(s) = m /\ m # NONE /\ m >= required
    BY <1>3 DEF IsRest, U8, U16, U32, NONE
  <1>5. IsPacket(s, required)
    BY <1>3, <1>4 DEF Acceptable, IsPacket
  <1>6. ChecksumMatches(s) /\ (DataZero(FlagsIn(s)) \/ IsComplete(s))
    BY <1>3 DEF Acceptable
  <1> HIDE DEF marker
  <1>7. CASE DecodeNoPacket(required)
    BY <1>5, <1>7 DEF DecodeNoPacket
  <1>8. CASE DecodeBadChecksum(required)
    BY <1>6, <1>8 DEF DecodeBadChecksum
  <1>9. CASE DecodeWithoutData(required)
    BY <1>9 DEF DecodeWithoutData, Returns
  <1>10. CASE DecodeTooShort(required)
    BY <1>6, <1>10 DEF DecodeTooShort, OpensData
  <1>11. CASE DecodeData(required)
    BY <1>11 DEF DecodeData, Returns
  <1>12. CASE DecodeOverruns(required)
    BY <1>12 DEF DecodeOverruns, Overrun
  <1> QED
    BY <1>7, <1>8, <1>9, <1>10, <1>11, <1>12 DEF DecodePacket

(* UOP_Codec::EncodeFrame and DecodePacket.  For every frame whose flags   *)
(* the caller sets anew and all contents: the packet it is encoded into,   *)
(* or what is left of it when only the preamble is lost, is not refused by *)
(* a receiver who does not ask for more marker than is left.               *)
THEOREM IntactAlwaysAccepted ==
    ASSUME ChecksumsAreBytes, KeepFlags = FALSE
    PROVE  Spec => IntactIsAccepted
  <1>1. FlowInv /\ [Next]_vars =>
          [\A required \in VariableTypes :
              required <= arrived.marker /\ DecodePacket(required)
                 => ok' \/ ~defined']_vars
    BY IntactStep
  <1> QED
    BY <1>1, FlowHolds, PTL DEF Spec, IntactIsAccepted

-----------------------------------------------------------------------------
(* One wrong byte.  The checksums tell two strings of one length apart of  *)
(* which one byte differs: XOR does, and for the CRCs it is OneErrorShows  *)
(* of LibCrc_proofs.                                                       *)
WrongAt(s, t, k) ==
    /\ Len(t) = Len(s) /\ k \in 1..Len(s) /\ s[k] # t[k]
    /\ \A m \in 1..Len(s) : m # k => s[m] = t[m]

ChecksumsShow ==
    \A type \in {XOR, CRC8, CRC16, CRC32} : \A s, t \in Seq(Bytes) :
        (\E k \in 1..Len(s) : WrongAt(s, t, k)) => Checksum(type, s) # Checksum(type, t)

(* The part of a packet that the checksum covers differs in the same byte. *)
LEMMA PartDiffers ==
    ASSUME NEW s \in Seq(Bytes), NEW t \in Seq(Bytes), NEW n \in Nat, NEW k, n < k,
           WrongAt(s, t, k)
    PROVE  LET u == SubSeq(s, n + 1, Len(s))
               v == SubSeq(t, n + 1, Len(t))
           IN  u \in Seq(Bytes) /\ v \in Seq(Bytes) /\ WrongAt(u, v, k - n)
  <1> DEFINE len == Len(s)
             u == SubSeq(s, n + 1, len)
             v == SubSeq(t, n + 1, len)
  <1>1. /\ len \in Nat /\ Len(t) = len /\ k \in 1..len /\ k \in n + 1..len
        /\ s[k] # t[k] /\ \A m \in 1..len : m # k => s[m] = t[m]
    BY LenProperties DEF WrongAt
  <1>2. \A i \in 1..len : s[i] \in Bytes /\ t[i] \in Bytes
    BY <1>1, ElementOfSeq
  <1> HIDE DEF len
  <1>3. n + 1 \in Int /\ len \in Int /\ n + 1 <= len /\ len - (n + 1) + 1 = len - n
    BY <1>1
  <1>4. \A i \in n + 1..len : s[i] \in Bytes /\ t[i] \in Bytes
    BY <1>1, <1>2
  <1>5. /\ u \in Seq(Bytes) /\ Len(u) = len - n
        /\ \A i \in 1..len - n : u[i] = s[n + 1 + i - 1]
    BY <1>3, <1>4, SubSeqProperties
  <1>6. /\ v \in Seq(Bytes) /\ Len(v) = len - n
        /\ \A i \in 1..len - n : v[i] = t[n + 1 + i - 1]
    BY <1>3, <1>4, SubSeqProperties
  <1> HIDE DEF u, v
  <1>7. k - n \in 1..len - n /\ n + 1 + (k - n) - 1 = k
    BY <1>1
  <1>8. u[k - n] # v[k - n]
    BY <1>1, <1>5, <1>6, <1>7
  <1>9. ASSUME NEW m \in 1..len - n, m # k - n PROVE u[m] = v[m]
    <2>1. n + 1 + m - 1 \in 1..len /\ n + 1 + m - 1 # k
      BY <1>1, <1>9
    <2> QED
      BY <1>1, <1>5, <1>6, <2>1
  <1> QED
    BY <1>1, <1>5, <1>6, <1>7, <1>8, <1>9 DEF WrongAt, u, v, len

(* The checksum is computed with its own field zeroed: that leaves the     *)
(* wrong byte, unless it is that of the checksum itself.                   *)
LEMMA ZeroedDiffers ==
    ASSUME NEW s \in Seq(Bytes), NEW t \in Seq(Bytes), NEW k, WrongAt(s, t, k),
           NEW p \in 1..Len(s)
    PROVE  LET y == Overwrite(s, p, <<0>>)
               z == Overwrite(t, p, <<0>>)
           IN  /\ y \in Seq(Bytes) /\ z \in Seq(Bytes) /\ Len(y) = Len(s) /\ Len(z) = Len(s)
               /\ k = p => y = z
               /\ k # p => WrongAt(y, z, k)
  <1> DEFINE y == Overwrite(s, p, <<0>>)
             z == Overwrite(t, p, <<0>>)
  <1>1. /\ Len(t) = Len(s) /\ k \in 1..Len(s) /\ s[k] # t[k] /\ p \in 1..Len(t)
        /\ \A m \in 1..Len(s) : m # k => s[m] = t[m]
    BY DEF WrongAt
  <1>2. 0 \in Bytes
    BY DEF Bytes
  <1>3. /\ y \in Seq(Bytes) /\ Len(y) = Len(s) /\ At(y, p, 0)
        /\ \A q, x : At(s, q, x) /\ q # p => At(y, q, x)
    BY <1>2, OverwriteByte
  <1>4. /\ z \in Seq(Bytes) /\ Len(z) = Len(t) /\ At(z, p, 0)
        /\ \A q, x : At(t, q, x) /\ q # p => At(z, q, x)
    BY <1>1, <1>2, OverwriteByte
  <1> HIDE DEF y, z
  <1>5. y[p] = 0 /\ z[p] = 0
    BY <1>3, <1>4 DEF At
  <1>6. ASSUME NEW q \in 1..Len(s), q # p PROVE y[q] = s[q] /\ z[q] = t[q]
    <2>1. At(s, q, s[q]) /\ At(t, q, t[q])
      BY <1>1 DEF At
    <2>2. At(y, q, s[q]) /\ At(z, q, t[q])
      BY <1>3, <1>4, <1>6, <2>1
    <2> QED
      BY <2>2 DEF At
  <1>7. ASSUME k = p PROVE y = z
    <2>1. \A q \in 1..Len(s) : y[q] = z[q]
      BY <1>1, <1>5, <1>6, <1>7
    <2> QED
      BY <1>1, <1>3, <1>4, <2>1, SeqEqual
  <1>8. ASSUME k # p PROVE WrongAt(y, z, k)
    <2>1. y[k] # z[k]
      BY <1>1, <1>6, <1>8
    <2>2. \A m \in 1..Len(s) : m # k => y[m] = z[m]
      BY <1>1, <1>5, <1>6
    <2> QED
      BY <1>1, <1>3, <1>4, <2>1, <2>2 DEF WrongAt
  <1> QED
    BY <1>1, <1>3, <1>4, <1>7, <1>8 DEF y, z

(* So the packet with the wrong byte is not accepted.                      *)
LEMMA WrongByteShows ==
    ASSUME ChecksumsShow, NEW s, NEW c, NEW marker, IsRest(s, c, marker), Acceptable(s),
           NEW t \in Seq(Bytes), NEW k \in Nat, k > TypeSize(marker), WrongAt(s, t, k),
           MarkerType(t) = MarkerType(s),
           ChecksumBits(FlagsIn(t)) = ChecksumBits(FlagsIn(s))
    PROVE  ~ChecksumMatches(t)
  <1> DEFINE m == TypeSize(marker)
             p == m + 6
             offset == ChecksumOffset(marker)
             type == ChecksumBits(FlagsIn(s))
             y == Overwrite(s, p, <<0>>)
             z == Overwrite(t, p, <<0>>)
             u == SubSeq(y, offset + 1, Len(y))
             v == SubSeq(z, offset + 1, Len(z))
  <1>1. /\ s \in Seq(Bytes) /\ marker \in {U8, U16, U32} /\ MarkerType(s) = marker
        /\ TypeIn(s) \in {TypeA, TypeB} /\ ChecksumMatches(s)
        /\ Len(t) = Len(s) /\ \A i \in 1..Len(s) : i # k => s[i] = t[i]
        /\ s[k] # t[k] /\ Len(s) >= 4
    BY DEF IsRest, Acceptable, WrongAt
  <1>2. /\ m \in {1, 2, 4} /\ m \in Nat /\ offset \in Nat /\ offset < k
        /\ MarkerType(s) = U32 => m = 4
    BY <1>1, Sizes, Offsets DEF U8, U16, U32
  <1>3. IsPacket(s, marker)
    <2>1. marker # NONE /\ marker >= marker
      BY <1>1 DEF U8, U16, U32, NONE
    <2> QED
      BY <1>1, <2>1 DEF IsPacket, Acceptable
  <1>4. TypeIn(t) = TypeIn(s)
    <2>1. 1 \in 1..Len(s) /\ 3 \in 1..Len(s) /\ 1 # k /\ (m = 4 => 3 # k)
      BY <1>1, <1>2, LenProperties
    <2> QED
      BY <1>1, <1>2, <2>1 DEF TypeIn
  <1>5. ChecksumAt(s) = p /\ ChecksumAt(t) = p
    BY <1>1, <1>2, <1>4, Positions
  <1>6. /\ ChecksumVariableType(HeaderIn(s).checksum) = U8
        /\ ChecksumVariableType(HeaderIn(t).checksum) = U8
        /\ ToBytes(0, U8) = <<0>>
    BY LayoutOf, Written DEF HeaderIn
  <1>7. Zeroed(s) = y /\ Zeroed(t) = z
    BY <1>5, <1>6 DEF Zeroed
  <1>8. p \in 1..Len(s)
    BY <1>1, <1>3, <1>5, ReadsInside
  <1>9. FlagsIn(s) \in Bytes
    BY <1>1, <1>3, ReadsInside
  <1>10. type \in {XOR, CRC8, CRC16, CRC32}
    <2>1. \A n \in Bytes : n % 4 \in {0, 1, 2, 3}
      BY DEF Bytes
    <2> QED
      BY <1>9, <2>1 DEF ChecksumBits, XOR, CRC8, CRC16, CRC32
  <1>11. ReadValue(s, p, U8) = s[p] /\ ReadValue(t, p, U8) = t[p]
    BY <1>1, ReadByte
  <1>12. /\ ChecksumMatches(s) <=> Checksum(type, u) = s[p]
         /\ ChecksumMatches(t) <=> Checksum(type, v) = t[p]
    BY <1>1, <1>5, <1>6, <1>7, <1>11 DEF ChecksumMatches, Sum
  <1>13. /\ y \in Seq(Bytes) /\ z \in Seq(Bytes) /\ Len(y) = Len(s) /\ Len(z) = Len(s)
         /\ k = p => y = z
         /\ k # p => WrongAt(y, z, k)
    BY <1>1, <1>8, ZeroedDiffers
  <1> HIDE DEF m, p, offset, type, y, z
  <1>14. CASE k = p
    BY <1>1, <1>12, <1>13, <1>14
  <1>15. CASE k # p
    <2>1. s[p] = t[p]
      BY <1>1, <1>8, <1>15
    <2>2. u \in Seq(Bytes) /\ v \in Seq(Bytes) /\ WrongAt(u, v, k - offset)
      BY <1>2, <1>13, <1>15, PartDiffers
    <2> HIDE DEF u, v
    <2>3. k - offset \in 1..Len(u)
      BY <2>2 DEF WrongAt
    <2>4. Checksum(type, u) # Checksum(type, v)
      BY <1>10, <2>2, <2>3 DEF ChecksumsShow
    <2> QED
      BY <1>1, <1>12, <2>1, <2>4
  <1> QED
    BY <1>14, <1>15

LEMMA OtherByteIsWrong ==
    ASSUME NEW s \in Seq(Bytes), NEW p \in 1..Len(s), NEW byte \in Bytes \ {s[p]}
    PROVE  [s EXCEPT ![p] = byte] \in Seq(Bytes) /\ WrongAt(s, [s EXCEPT ![p] = byte], p)
  <1> DEFINE t == [i \in 1..Len(s) |-> IF i = p THEN byte ELSE s[i]]
  <1>1. Len(s) \in Nat /\ DOMAIN s = 1..Len(s)
    BY LenProperties
  <1>2. [s EXCEPT ![p] = byte] = t
    BY <1>1
  <1>3. \A i \in 1..Len(s) : s[i] \in Bytes
    BY ElementOfSeq
  <1>4. t \in Seq(Bytes) /\ Len(t) = Len(s)
    <2>1. t \in [1..Len(s) -> Bytes]
      BY <1>3
    <2>2. DOMAIN t = 1..Len(s)
      OBVIOUS
    <2> HIDE DEF t
    <2>3. t \in Seq(Bytes)
      BY <1>1, <2>1, SeqDef
    <2>4. Len(t) \in Nat /\ DOMAIN t = 1..Len(t)
      BY <2>3, LenProperties
    <2> QED
      BY <1>1, <2>2, <2>3, <2>4
  <1>5. s[p] # t[p] /\ \A i \in 1..Len(s) : i # p => s[i] = t[i]
    OBVIOUS
  <1> HIDE DEF t
  <1>6. WrongAt(s, t, p)
    BY <1>4, <1>5 DEF WrongAt
  <1> QED
    BY <1>2, <1>4, <1>6

(* UOP_Codec::GetChecksum, DecodePacket.  For every frame whose flags the  *)
(* caller sets anew: no single wrong byte, from the flags to the end, gets *)
(* past the checksum of the packet, with its preamble or without, unless   *)
(* it turns the flags into something else.                                 *)
THEOREM WrongByteAlwaysRefused ==
    ASSUME ChecksumsAreBytes, ChecksumsShow, KeepFlags = FALSE
    PROVE  Spec => []WrongByteIsRefused
  <1>1. Inv /\ FlowInv => WrongByteIsRefused
    <2> DEFINE s == income.bytes
    <2> SUFFICES ASSUME Inv, FlowInv, arrived.marker # Garbled,
                        NEW p \in FlagsAt(s)..income.size,
                        NEW byte \in WrongBytes \ {s[p]},
                        MarkerType([s EXCEPT ![p] = byte]) = MarkerType(s),
                        ChecksumBits(FlagsIn([s EXCEPT ![p] = byte]))
                            = ChecksumBits(FlagsIn(s))
                 PROVE  ~ChecksumMatches([s EXCEPT ![p] = byte])
      BY DEF WrongByteIsRefused
    <2>1. PICK m \in {U8, U16, U32} :
             IsRest(s, arrived.content, m) /\ Acceptable(s)
      BY DEF FlowInv, ArrivedInv
    <2>2. /\ s \in Seq(Bytes) /\ MarkerType(s) = m /\ income.size = Len(s)
          /\ TypeIn(s) \in {TypeA, TypeB}
      BY <2>1 DEF IsRest, Inv, Contains
    <2>3. TypeSize(m) \in Nat
      BY Sizes
    <2>4. FlagsAt(s) = TypeSize(m) + 1
      BY <2>2, <2>3, Positions
    <2>5. Len(s) \in Nat /\ DOMAIN s = 1..Len(s)
      BY <2>2, LenProperties
    <2>6. p \in 1..Len(s) /\ p \in Nat /\ p > TypeSize(m)
      BY <2>2, <2>3, <2>4, <2>5
    <2> HIDE DEF s
    <2>7. byte \in Bytes \ {s[p]}
      BY CodecAssumption
    <2>8. /\ [s EXCEPT ![p] = byte] \in Seq(Bytes)
          /\ WrongAt(s, [s EXCEPT ![p] = byte], p)
      <3>1. s \in Seq(Bytes)
        BY <2>2
      <3>2. p \in 1..Len(s)
        BY <2>6
      <3> QED
        BY <2>7, <3>1, <3>2, OtherByteIsWrong
    <2> QED
      BY <2>1, <2>6, <2>8, WrongByteShows
  <1> QED
    BY <1>1, InvHolds, FlowHolds, PTL

-----------------------------------------------------------------------------
(* What the receiver is given is what the packet carries.                  *)
Fetched == IF ok THEN Received ELSE Unknown

LEMMA ContentOfFields ==
    ASSUME NEW c, IsContent(c), NEW marker, IsRest(income.bytes, c, marker),
           received'.flags = FlagsIn(income.bytes),
           received'.cmd = ReadValue(income.bytes, CmdAt(income.bytes),
                                     HeaderIn(income.bytes).cmd),
           received'.src = ReadValue(income.bytes, SrcAt(income.bytes),
                                     HeaderIn(income.bytes).src),
           received'.dsc = ReadValue(income.bytes, DscAt(income.bytes),
                                     HeaderIn(income.bytes).dsc),
           received'.sn = ReadValue(income.bytes, SnAt(income.bytes),
                                    HeaderIn(income.bytes).sn),
           SubSeq(received'.data.bytes, 1, received'.data_size) = c.data
    PROVE  Received' = c
  <1>1. marker \in {U8, U16, U32}
    BY DEF IsRest
  <1>2. TypeSize(marker) \in Nat
    BY <1>1, Sizes
  <1>3. /\ received'.flags = c.flags /\ received'.cmd = c.cmd
        /\ received'.src = c.src /\ received'.dsc = c.dsc
        /\ received'.sn = c.sn
    BY <1>2, RestReads
  <1> QED
    BY <1>3 DEF Received, IsContent

LEMMA FieldsReadAre ==
    ASSUME Inv
    PROVE  LET f == FieldsRead(income.bytes)
               h == HeaderIn(income.bytes)
           IN  /\ f.flags = FlagsIn(income.bytes)
               /\ f.cmd = ReadValue(income.bytes, CmdAt(income.bytes), h.cmd)
               /\ f.src = ReadValue(income.bytes, SrcAt(income.bytes), h.src)
               /\ f.dsc = ReadValue(income.bytes, DscAt(income.bytes), h.dsc)
               /\ f.sn = ReadValue(income.bytes, SnAt(income.bytes), h.sn)
               /\ f = [flags |-> f.flags, cmd |-> f.cmd, src |-> f.src,
                       dsc |-> f.dsc, sn |-> f.sn, data_size |-> f.data_size,
                       data |-> f.data]
  <1> DEFINE h == HeaderIn(income.bytes)
             flags == FlagsIn(income.bytes)
             cmd == ReadValue(income.bytes, CmdAt(income.bytes), h.cmd)
             src == ReadValue(income.bytes, SrcAt(income.bytes), h.src)
             dsc == ReadValue(income.bytes, DscAt(income.bytes), h.dsc)
             sn == ReadValue(income.bytes, SnAt(income.bytes), h.sn)
             f == FieldsRead(income.bytes)
  <1>1. received \in Fields
    BY DEF Inv
  <1>2. f = [received EXCEPT !.flags = flags, !.cmd = cmd, !.src = src,
                             !.dsc = dsc, !.sn = sn]
    BY DEF FieldsRead
  <1> HIDE DEF h, flags, cmd, src, dsc, sn, f
  <1>3. f = [flags |-> flags, cmd |-> cmd, src |-> src, dsc |-> dsc, sn |-> sn,
             data_size |-> f.data_size, data |-> f.data]
    BY <1>1, <1>2 DEF Fields
  <1>4. /\ f.flags = flags /\ f.cmd = cmd /\ f.src = src /\ f.dsc = dsc /\ f.sn = sn
    BY <1>3
  <1> QED
    BY <1>3, <1>4 DEF h, flags, cmd, src, dsc, sn, f

LEMMA WithoutDataFetches ==
    ASSUME Inv, FlowInv, NEW required, DecodeWithoutData(required),
           arrived.content # Unknown
    PROVE  Received' = arrived.content
  <1> DEFINE s == income.bytes
             c == arrived.content
             f == FieldsRead(s)
  <1>1. IsPacket(s, required) /\ DataZero(FlagsIn(s)) /\ received' = WithoutData(f)
    BY DEF DecodeWithoutData, Opens
  <1>2. MarkerType(s) # NONE
    BY <1>1 DEF IsPacket
  <1>3. IsContent(c)
    BY <1>2 DEF FlowInv, ArrivedInv
  <1>4. PICK marker \in {U8, U16, U32} : IsRest(s, c, marker)
    BY <1>2 DEF FlowInv, ArrivedInv
  <1>5. TypeSize(marker) \in Nat
    BY Sizes
  <1>6. FlagsIn(s) = c.flags
    BY <1>4, <1>5, RestReads
  <1>7. c.data = <<>>
    BY <1>1, <1>4, <1>6 DEF IsRest
  <1>8. /\ f.flags = FlagsIn(s)
        /\ f.cmd = ReadValue(s, CmdAt(s), HeaderIn(s).cmd)
        /\ f.src = ReadValue(s, SrcAt(s), HeaderIn(s).src)
        /\ f.dsc = ReadValue(s, DscAt(s), HeaderIn(s).dsc)
        /\ f.sn = ReadValue(s, SnAt(s), HeaderIn(s).sn)
        /\ f = [flags |-> f.flags, cmd |-> f.cmd, src |-> f.src,
                dsc |-> f.dsc, sn |-> f.sn, data_size |-> f.data_size,
                data |-> f.data]
    BY FieldsReadAre
  <1> HIDE DEF f
  <1>9. /\ received'.flags = f.flags /\ received'.cmd = f.cmd
        /\ received'.src = f.src /\ received'.dsc = f.dsc
        /\ received'.sn = f.sn /\ received'.data_size = 0
    BY <1>1, <1>8 DEF WithoutData
  <1>10. SubSeq(received'.data.bytes, 1, received'.data_size) = c.data
    <2>1. 1 \in Int /\ 0 \in Int /\ 0 < 1
      OBVIOUS
    <2>2. SubSeq(received'.data.bytes, 1, 0) = <<>>
      BY <2>1, SubSeqEmpty
    <2> QED
      BY <1>7, <1>9, <2>2
  <1> HIDE DEF s, c
  <1> QED
    BY <1>3, <1>4, <1>8, <1>9, <1>10, ContentOfFields DEF s, c

LEMMA DataFetches ==
    ASSUME Inv, FlowInv, NEW required, DecodeData(required),
           arrived.content # Unknown
    PROVE  Received' = arrived.content
  <1> DEFINE s == income.bytes
             c == arrived.content
             f == FieldsRead(s)
             n == DataSizeIn(s)
             r == Resize(received.data, n, TRUE)
             data == SubSeq(s, DataAt(s), DataAt(s) + n - 1)
  <1>1. /\ IsPacket(s, required) /\ ~DataZero(FlagsIn(s)) /\ IsComplete(s)
        /\ received' = [f EXCEPT !.data_size = n, !.data = [r EXCEPT !.bytes = data]]
    BY DEF DecodeData, OpensData, Opens
  <1>2. MarkerType(s) # NONE
    BY <1>1 DEF IsPacket
  <1>3. IsContent(c)
    BY <1>2 DEF FlowInv, ArrivedInv
  <1>4. PICK marker \in {U8, U16, U32} : IsRest(s, c, marker)
    BY <1>2 DEF FlowInv, ArrivedInv
  <1>5. TypeSize(marker) \in Nat
    BY Sizes
  <1>6. /\ FlagsIn(s) = c.flags
        /\ marker = U8 => DataAt(s) = 9 /\ n = s[8]
    BY <1>4, <1>5, RestReads
  <1>7. s \in Seq(Bytes) /\ marker = U8 /\ HasDataAt(s, 8, c.data)
    BY <1>1, <1>4, <1>6 DEF IsRest
  <1>8. /\ DataAt(s) = 9 /\ n = Len(c.data) /\ c.data \in Seq(Bytes)
        /\ 8 + n <= Len(s) /\ \A i \in 1..n : s[8 + i] = c.data[i]
    BY <1>6, <1>7 DEF HasDataAt, At
  <1>9. n \in Nat /\ Len(s) \in Nat
    BY <1>7, <1>8, LenProperties
  <1>10. r = [allocated |-> r.allocated, buffer_size |-> r.buffer_size,
              size |-> r.size, bytes |-> r.bytes]
    <2>1. received.data \in Buffer /\ Reused(received.data)
      BY DEF Inv, Contains
    <2>2. r \in Buffer
      BY <1>9, <2>1, ResizeReuses
    <2> HIDE DEF r
    <2> QED
      BY <2>2 DEF Buffer
  <1>11. data = c.data
    <2> DEFINE lo == DataAt(s)
               hi == DataAt(s) + n - 1
    <2>1. lo = 9 /\ hi = n + 8
      BY <1>8, <1>9
    <2>2. lo \in Int /\ hi \in Int
      BY <1>9, <2>1
    <2>3. \A i \in lo..hi : s[i] \in Bytes
      BY <1>7, <1>8, <1>9, <2>1, ElementOfSeq
    <2>4. /\ SubSeq(s, lo, hi) \in Seq(Bytes)
          /\ Len(SubSeq(s, lo, hi)) = IF lo <= hi THEN hi - lo + 1 ELSE 0
          /\ \A i \in 1..(hi - lo + 1) : SubSeq(s, lo, hi)[i] = s[lo + i - 1]
      <3> HIDE DEF lo, hi, s
      <3> QED
        BY <2>2, <2>3, SubSeqProperties
    <2>5. data = SubSeq(s, lo, hi)
      OBVIOUS
    <2> HIDE DEF data, lo, hi
    <2>6. data \in Seq(Bytes) /\ Len(data) = n
      BY <1>9, <2>1, <2>4, <2>5
    <2>7. \A i \in 1..n : data[i] = s[8 + i]
      <3> TAKE i \in 1..n
      <3>1. i \in 1..(hi - lo + 1) /\ lo + i - 1 = 8 + i
        BY <1>9, <2>1
      <3> QED
        BY <2>4, <2>5, <3>1
    <2>8. \A i \in 1..Len(data) : data[i] = c.data[i]
      BY <1>8, <2>6, <2>7
    <2>9. Len(data) = Len(c.data)
      BY <1>8, <2>6
    <2> HIDE DEF n, c
    <2> QED
      BY <1>8, <2>6, <2>8, <2>9, SeqEqual
  <1>12. /\ f.flags = FlagsIn(s)
         /\ f.cmd = ReadValue(s, CmdAt(s), HeaderIn(s).cmd)
         /\ f.src = ReadValue(s, SrcAt(s), HeaderIn(s).src)
         /\ f.dsc = ReadValue(s, DscAt(s), HeaderIn(s).dsc)
         /\ f.sn = ReadValue(s, SnAt(s), HeaderIn(s).sn)
         /\ f = [flags |-> f.flags, cmd |-> f.cmd, src |-> f.src,
                 dsc |-> f.dsc, sn |-> f.sn, data_size |-> f.data_size,
                 data |-> f.data]
    BY FieldsReadAre
  <1> HIDE DEF f, r, data, n
  <1>13. /\ received'.flags = f.flags /\ received'.cmd = f.cmd
         /\ received'.src = f.src /\ received'.dsc = f.dsc
         /\ received'.sn = f.sn /\ received'.data_size = n
         /\ received'.data = [r EXCEPT !.bytes = data]
    BY <1>1, <1>12
  <1>14. received'.data.bytes = c.data
    BY <1>10, <1>11, <1>13
  <1>15. SubSeq(received'.data.bytes, 1, received'.data_size) = c.data
    <2>1. SubSeq(c.data, 1, Len(c.data)) = c.data
      BY <1>8, SubSeqFull
    <2> QED
      BY <1>8, <1>13, <1>14, <2>1
  <1> HIDE DEF s, c
  <1> QED
    BY <1>3, <1>4, <1>12, <1>13, <1>15, ContentOfFields DEF s, c

LEMMA InitIsChannel == Init => Channel!Init
  BY DEF Init, Nothing, Channel!Init

LEMMA ComposeDrops ==
    ASSUME NEW f \in Frames, Compose(f)
    PROVE  Channel!Drop
  <1>1. arrived'.content = Unknown /\ sent' = sent /\ received' = received /\ ok' = ok
    BY DEF Compose, Nothing
  <1> QED
    BY <1>1 DEF Channel!Drop, Received

LEMMA EncodeEncodes ==
    ASSUME Inv, EncodeFrame
    PROVE  Channel!Encode
  <1>1. sent' = Carried(frame') /\ Filled(frame')
    BY EncodedFrame
  <1>2. sent'.content \in Content \cup {Unknown}
    <2>1. CASE Carried(frame') = Nothing
      BY <1>1, <2>1 DEF Nothing
    <2>2. CASE Carried(frame') # Nothing
      BY <1>1, <2>2, CarriedIsContent DEF IsContent
    <2> QED
      BY <2>1, <2>2
  <1>3. arrived' = arrived /\ received' = received /\ ok' = ok
    BY DEF EncodeFrame
  <1> QED
    BY <1>2, <1>3 DEF Channel!Encode, Received

LEMMA CarryCarries ==
    ASSUME NEW lost \in Losses, Carry(lost)
    PROVE  Channel!Carry
  <1>1. /\ arrived'.content \in {sent.content, Unknown}
        /\ sent' = sent /\ received' = received /\ ok' = ok
    BY DEF Carry
  <1> QED
    BY <1>1 DEF Channel!Carry, Received

LEMMA DecodeIsChannel ==
    ASSUME Inv, FlowInv, NEW required, DecodePacket(required)
    PROVE  Channel!Next \/ UNCHANGED Channel!vars
  <1>1. ASSUME Returns(ok') PROVE arrived'.content = arrived.content /\ sent' = sent
    <2>1. arrived = [content |-> arrived.content, marker |-> arrived.marker]
      BY DEF FlowInv, ArrivedInv
    <2> QED
      BY <1>1, <2>1 DEF Returns
  <1>2. ASSUME ok' = FALSE, sent' = sent, arrived'.content = arrived.content
        PROVE  Channel!Next
    <2>1. Channel!Refuse
      BY <1>2 DEF Channel!Refuse
    <2> QED
      BY <2>1 DEF Channel!Next
  <1>3. ASSUME ok' = TRUE, sent' = sent, arrived'.content = arrived.content,
               arrived.content # Unknown => Received' = arrived.content
        PROVE  Channel!Next
    <2>1. Channel!Accept
      BY <1>3 DEF Channel!Accept
    <2> QED
      BY <2>1 DEF Channel!Next
  <1>4. CASE DecodeNoPacket(required)
    BY <1>2, <1>4 DEF DecodeNoPacket
  <1>5. CASE DecodeBadChecksum(required)
    <2>1. ok' = FALSE /\ Returns(ok')
      BY <1>5 DEF DecodeBadChecksum, Returns
    <2> QED
      BY <1>1, <1>2, <2>1
  <1>6. CASE DecodeTooShort(required)
    <2>1. ok' = FALSE /\ Returns(ok')
      BY <1>6 DEF DecodeTooShort, Returns
    <2> QED
      BY <1>1, <1>2, <2>1
  <1>7. CASE DecodeWithoutData(required)
    <2>1. ok' = TRUE /\ Returns(ok')
      BY <1>7 DEF DecodeWithoutData, Returns
    <2>2. arrived.content # Unknown => Received' = arrived.content
      BY <1>7, WithoutDataFetches
    <2> QED
      BY <1>1, <1>3, <2>1, <2>2
  <1>8. CASE DecodeData(required)
    <2>1. ok' = TRUE /\ Returns(ok')
      BY <1>8 DEF DecodeData, Returns
    <2>2. arrived.content # Unknown => Received' = arrived.content
      BY <1>8, DataFetches
    <2> QED
      BY <1>1, <1>3, <2>1, <2>2
  <1>9. CASE DecodeOverruns(required)
    BY <1>9 DEF DecodeOverruns, Overrun, Channel!vars, Received
  <1> QED
    BY <1>4, <1>5, <1>6, <1>7, <1>8, <1>9 DEF DecodePacket

LEMMA StepIsChannel ==
    ASSUME Inv, FlowInv, [Next]_vars
    PROVE  [Channel!Next]_Channel!vars
  <1>1. CASE \E f \in Frames : Compose(f)
    BY <1>1, ComposeDrops DEF Channel!Next
  <1>2. CASE EncodeFrame
    BY <1>2, EncodeEncodes DEF Channel!Next
  <1>3. CASE EncodeFrameOverruns
    BY <1>3 DEF EncodeFrameOverruns, Overrun, Channel!vars, Received
  <1>4. CASE \E lost \in Losses : Carry(lost)
    BY <1>4, CarryCarries DEF Channel!Next
  <1>5. CASE \E required \in VariableTypes : DecodePacket(required)
    BY <1>5, DecodeIsChannel
  <1>6. CASE UNCHANGED vars
    BY <1>6 DEF vars, Channel!vars, Received
  <1> QED
    BY <1>1, <1>2, <1>3, <1>4, <1>5, <1>6 DEF Next

(* UOP_Codec::EncodeFrame and DecodePacket.  What the decoder accepts of a *)
(* packet that survives is the content the encoder was given, whatever     *)
(* frames and packets were used for before, whatever is in memory that was *)
(* not written, and whatever the checksums are.                            *)
THEOREM ImplementsChannel ==
    ASSUME ChecksumsAreBytes, KeepFlags = FALSE
    PROVE  Spec => FrameChannelSpec
  <1>1. Init => Channel!Init
    BY InitIsChannel
  <1>2. Inv /\ FlowInv /\ [Next]_vars => [Channel!Next]_Channel!vars
    BY StepIsChannel
  <1> QED
    BY <1>1, <1>2, InvHolds, FlowHolds, PTL DEF Spec, FrameChannelSpec, Channel!Spec

=============================================================================
