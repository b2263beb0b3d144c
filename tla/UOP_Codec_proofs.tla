--------------------------- MODULE UOP_Codec_proofs ---------------------------
(***************************************************************************)
(* Proofs about UOP_Codec, for all frames, losses and garbage, and for     *)
(* every pair of checksum functions that return bytes.                     *)
(***************************************************************************)
EXTENDS UOP_Codec, SequenceTheorems, TLAPS

(* A frame as the encoder finds it.                                        *)
Filled(f) ==
    /\ f.type \in HeaderTypes
    /\ f.flags \in Nat /\ f.cmd \in Nat /\ f.src \in Nat
    /\ f.dsc \in Nat /\ f.sn \in Nat /\ f.data_size \in Nat
    /\ f.data.bytes \in Seq(Bytes)
    /\ f.data.size = Len(f.data.bytes)

-----------------------------------------------------------------------------
(* Sequences.                                                              *)
At(s, p, x) == p \in 1..Len(s) /\ s[p] = x

LEMMA OneMore ==
    ASSUME NEW s \in Seq(Bytes), NEW x \in Bytes
    PROVE  /\ s \o <<x>> \in Seq(Bytes)
           /\ Len(s \o <<x>>) = Len(s) + 1
           /\ At(s \o <<x>>, Len(s) + 1, x)
           /\ \A p, y : At(s, p, y) => At(s \o <<x>>, p, y)
  <1>1. /\ <<x>> \in Seq(Bytes) /\ Len(<<x>>) = 1 /\ <<x>>[1] = x
    OBVIOUS
  <1>2. Len(s) \in Nat
    BY LenProperties
  <1>3. /\ s \o <<x>> \in Seq(Bytes)
        /\ Len(s \o <<x>>) = Len(s) + Len(<<x>>)
        /\ \A i \in 1 .. Len(s) + Len(<<x>>) :
              (s \o <<x>>)[i] = IF i <= Len(s) THEN s[i] ELSE <<x>>[i - Len(s)]
    BY <1>1, ConcatProperties
  <1> QED
    BY <1>1, <1>2, <1>3 DEF At

LEMMA LowByte == ASSUME NEW v \in Nat PROVE v % 256 \in Bytes
  BY DEF Bytes

(* What one value becomes.                                                 *)
LEMMA Written ==
    ASSUME NEW v \in Nat
    PROVE  ToBytes(v, U8) = <<v % 256>> /\ ToBytes(v, NONE) = <<>>
  BY DEF ToBytes, U8, NONE, U16, U32

(* Five bytes behind a marker.                                             *)
Five(s, a, b, c, d, e) == s \o <<a>> \o <<b>> \o <<c>> \o <<d>> \o <<e>>

LEMMA FiveMore ==
    ASSUME NEW s \in Seq(Bytes), NEW a \in Bytes, NEW b \in Bytes,
           NEW c \in Bytes, NEW d \in Bytes, NEW e \in Bytes
    PROVE  /\ Five(s, a, b, c, d, e) \in Seq(Bytes)
           /\ Len(Five(s, a, b, c, d, e)) = Len(s) + 5
           /\ \A p, y : At(s, p, y) => At(Five(s, a, b, c, d, e), p, y)
           /\ At(Five(s, a, b, c, d, e), Len(s) + 1, a)
           /\ At(Five(s, a, b, c, d, e), Len(s) + 2, b)
           /\ At(Five(s, a, b, c, d, e), Len(s) + 3, c)
           /\ At(Five(s, a, b, c, d, e), Len(s) + 4, d)
           /\ At(Five(s, a, b, c, d, e), Len(s) + 5, e)
  <1> DEFINE n == Len(s)
             t1 == s \o <<a>>
             t2 == t1 \o <<b>>
             t3 == t2 \o <<c>>
             t4 == t3 \o <<d>>
             t5 == t4 \o <<e>>
  <1>s. n \in Nat /\ Len(s) = n
    BY LenProperties
  <1> HIDE DEF n
  <1>n. /\ n + 1 + 1 = n + 2 /\ n + 2 + 1 = n + 3
        /\ n + 3 + 1 = n + 4 /\ n + 4 + 1 = n + 5
    BY <1>s
  <1>1. /\ t1 \in Seq(Bytes) /\ Len(t1) = n + 1 /\ At(t1, n + 1, a)
        /\ \A p, y : At(s, p, y) => At(t1, p, y)
    BY <1>s, OneMore, Zenon
  <1> HIDE DEF t1
  <1>2. /\ t2 \in Seq(Bytes) /\ Len(t2) = n + 2 /\ At(t2, n + 2, b)
        /\ \A p, y : At(t1, p, y) => At(t2, p, y)
    BY <1>1, <1>n, OneMore, Zenon
  <1> HIDE DEF t2
  <1>3. /\ t3 \in Seq(Bytes) /\ Len(t3) = n + 3 /\ At(t3, n + 3, c)
        /\ \A p, y : At(t2, p, y) => At(t3, p, y)
    BY <1>2, <1>n, OneMore, Zenon
  <1> HIDE DEF t3
  <1>4. /\ t4 \in Seq(Bytes) /\ Len(t4) = n + 4 /\ At(t4, n + 4, d)
        /\ \A p, y : At(t3, p, y) => At(t4, p, y)
    BY <1>3, <1>n, OneMore, Zenon
  <1> HIDE DEF t4
  <1>5. /\ t5 \in Seq(Bytes) /\ Len(t5) = n + 5 /\ At(t5, n + 5, e)
        /\ \A p, y : At(t4, p, y) => At(t5, p, y)
    BY <1>4, <1>n, OneMore, Zenon
  <1> HIDE DEF t5
  <1>6. /\ t5 \in Seq(Bytes) /\ Len(t5) = n + 5
        /\ \A p, y : At(s, p, y) => At(t5, p, y)
        /\ At(t5, n + 1, a) /\ At(t5, n + 2, b) /\ At(t5, n + 3, c)
        /\ At(t5, n + 4, d) /\ At(t5, n + 5, e)
    BY <1>1, <1>2, <1>3, <1>4, <1>5, Zenon
  <1> QED
    BY <1>6, Zenon DEF Five, n, t1, t2, t3, t4, t5

-----------------------------------------------------------------------------
(* Layouts.                                                                *)
LEMMA LayoutA ==
    LET h == HeaderDef(TypeA)
    IN  /\ h.checksum = XOR /\ h.marker = U32 /\ h.flags = U8 /\ h.cmd = U8
        /\ h.src = U8 /\ h.dsc = U8 /\ h.sn = U8
        /\ h.data_size = NONE /\ h.data = NONE
  BY DEF HeaderDef, TypeA, TypeB

LEMMA LayoutB ==
    LET h == HeaderDef(TypeB)
    IN  /\ h.checksum = CRC8 /\ h.marker = U8 /\ h.flags = U8 /\ h.cmd = U8
        /\ h.src = U8 /\ h.dsc = U8 /\ h.sn = U8
        /\ h.data_size = U8 /\ h.data = U8
  BY DEF HeaderDef, TypeA, TypeB

LEMMA NoLayout ==
    ASSUME NEW type, type # TypeA, type # TypeB
    PROVE  LET h == HeaderDef(type)
           IN  /\ h.checksum = XOR /\ h.marker = NONE /\ h.flags = NONE
               /\ h.cmd = NONE /\ h.src = NONE /\ h.dsc = NONE /\ h.sn = NONE
               /\ h.data_size = NONE /\ h.data = NONE
  BY DEF HeaderDef

LEMMA Sizes ==
    /\ TypeSize(NONE) = 0 /\ TypeSize(U8) = 1 /\ TypeSize(U16) = 2
    /\ TypeSize(U32) = 4
    /\ ChecksumVariableType(XOR) = U8 /\ ChecksumVariableType(CRC8) = U8
  BY DEF TypeSize, ChecksumVariableType, NONE, U8, U16, U32, XOR, CRC8, CRC16, CRC32

(* Does s have the fields of f from position p on?                         *)
HasFields(s, p, f) ==
    /\ At(s, p, f.flags % 256) /\ At(s, p + 1, f.cmd % 256)
    /\ At(s, p + 2, f.src % 256) /\ At(s, p + 3, f.dsc % 256)
    /\ At(s, p + 4, f.sn % 256)

LEMMA HeaderBytesA ==
    ASSUME NEW f, Filled(f), f.type = TypeA
    PROVE  /\ HeaderBytes(f) \in Seq(Bytes) /\ Len(HeaderBytes(f)) = 9
           /\ At(HeaderBytes(f), 1, 170) /\ At(HeaderBytes(f), 2, 170)
           /\ At(HeaderBytes(f), 3, 170) /\ At(HeaderBytes(f), 4, 85)
           /\ HasFields(HeaderBytes(f), 5, f)
  <1> DEFINE m == <<170, 170, 170, 85>>
  <1>1. Marker(TypeA, U32) = m
    BY DEF Marker, U8, U16, U32, TypeA, MarkerPreambule
  <1>2. /\ m \in Seq(Bytes) /\ Len(m) = 4
        /\ m[1] = 170 /\ m[2] = 170 /\ m[3] = 170 /\ m[4] = 85
    BY DEF Bytes
  <1>m. At(m, 1, 170) /\ At(m, 2, 170) /\ At(m, 3, 170) /\ At(m, 4, 85)
    BY <1>2 DEF At
  <1> HIDE DEF m
  <1>3. HeaderBytes(f) =
          m \o <<f.flags % 256>> \o <<f.cmd % 256>>
              \o <<f.src % 256>> \o <<f.dsc % 256>> \o <<f.sn % 256>>
    <2>1. HeaderBytes(f) =
            Marker(TypeA, U32) \o ToBytes(f.flags, U8) \o ToBytes(f.cmd, U8)
                \o ToBytes(f.src, U8) \o ToBytes(f.dsc, U8) \o ToBytes(f.sn, U8)
      BY LayoutA DEF HeaderBytes
    <2>2. /\ ToBytes(f.flags, U8) = <<f.flags % 256>>
          /\ ToBytes(f.cmd, U8) = <<f.cmd % 256>>
          /\ ToBytes(f.src, U8) = <<f.src % 256>>
          /\ ToBytes(f.dsc, U8) = <<f.dsc % 256>>
          /\ ToBytes(f.sn, U8) = <<f.sn % 256>>
      BY Written DEF Filled
    <2> QED
      BY <1>1, <2>1, <2>2
  <1>4. /\ f.flags % 256 \in Bytes /\ f.cmd % 256 \in Bytes /\ f.src % 256 \in Bytes
        /\ f.dsc % 256 \in Bytes /\ f.sn % 256 \in Bytes
    BY LowByte DEF Filled
  <1> DEFINE w == Five(m, f.flags % 256, f.cmd % 256, f.src % 256,
                       f.dsc % 256, f.sn % 256)
  <1>5. /\ w \in Seq(Bytes) /\ Len(w) = Len(m) + 5
        /\ \A p, y : At(m, p, y) => At(w, p, y)
        /\ At(w, Len(m) + 1, f.flags % 256) /\ At(w, Len(m) + 2, f.cmd % 256)
        /\ At(w, Len(m) + 3, f.src % 256) /\ At(w, Len(m) + 4, f.dsc % 256)
        /\ At(w, Len(m) + 5, f.sn % 256)
    <2> DEFINE a == f.flags % 256
               b == f.cmd % 256
               c == f.src % 256
               d == f.dsc % 256
               e == f.sn % 256
    <2>1. a \in Bytes /\ b \in Bytes /\ c \in Bytes /\ d \in Bytes /\ e \in Bytes
      BY <1>4
    <2> HIDE DEF a, b, c, d, e
    <2>2. /\ Five(m, a, b, c, d, e) \in Seq(Bytes)
          /\ Len(Five(m, a, b, c, d, e)) = Len(m) + 5
          /\ \A p, y : At(m, p, y) => At(Five(m, a, b, c, d, e), p, y)
          /\ At(Five(m, a, b, c, d, e), Len(m) + 1, a)
          /\ At(Five(m, a, b, c, d, e), Len(m) + 2, b)
          /\ At(Five(m, a, b, c, d, e), Len(m) + 3, c)
          /\ At(Five(m, a, b, c, d, e), Len(m) + 4, d)
          /\ At(Five(m, a, b, c, d, e), Len(m) + 5, e)
      BY <1>2, <2>1, FiveMore
    <2> QED
      BY <2>2 DEF w, a, b, c, d, e
  <1> HIDE DEF w
  <1>6. HeaderBytes(f) = w
    BY <1>3 DEF w, Five
  <1> QED
    BY <1>2, <1>5, <1>6, <1>m DEF HasFields

LEMMA HeaderBytesB ==
    ASSUME NEW f, Filled(f), f.type = TypeB
    PROVE  /\ HeaderBytes(f) \in Seq(Bytes) /\ Len(HeaderBytes(f)) = 6
           /\ At(HeaderBytes(f), 1, 162)
           /\ HasFields(HeaderBytes(f), 2, f)
  <1> DEFINE m == <<162>>
  <1>1. Marker(TypeB, U8) = m
    BY DEF Marker, U8, U16, U32, TypeB
  <1>2. m \in Seq(Bytes) /\ Len(m) = 1 /\ m[1] = 162
    BY DEF Bytes
  <1>m. At(m, 1, 162)
    BY <1>2 DEF At
  <1> HIDE DEF m
  <1>3. HeaderBytes(f) =
          m \o <<f.flags % 256>> \o <<f.cmd % 256>>
              \o <<f.src % 256>> \o <<f.dsc % 256>> \o <<f.sn % 256>>
    <2>1. HeaderBytes(f) =
            Marker(TypeB, U8) \o ToBytes(f.flags, U8) \o ToBytes(f.cmd, U8)
                \o ToBytes(f.src, U8) \o ToBytes(f.dsc, U8) \o ToBytes(f.sn, U8)
      BY LayoutB DEF HeaderBytes
    <2>2. /\ ToBytes(f.flags, U8) = <<f.flags % 256>>
          /\ ToBytes(f.cmd, U8) = <<f.cmd % 256>>
          /\ ToBytes(f.src, U8) = <<f.src % 256>>
          /\ ToBytes(f.dsc, U8) = <<f.dsc % 256>>
          /\ ToBytes(f.sn, U8) = <<f.sn % 256>>
      BY Written DEF Filled
    <2> QED
      BY <1>1, <2>1, <2>2
  <1>4. /\ f.flags % 256 \in Bytes /\ f.cmd % 256 \in Bytes /\ f.src % 256 \in Bytes
        /\ f.dsc % 256 \in Bytes /\ f.sn % 256 \in Bytes
    BY LowByte DEF Filled
  <1> DEFINE w == Five(m, f.flags % 256, f.cmd % 256, f.src % 256,
                       f.dsc % 256, f.sn % 256)
  <1>5. /\ w \in Seq(Bytes) /\ Len(w) = Len(m) + 5
        /\ \A p, y : At(m, p, y) => At(w, p, y)
        /\ At(w, Len(m) + 1, f.flags % 256) /\ At(w, Len(m) + 2, f.cmd % 256)
        /\ At(w, Len(m) + 3, f.src % 256) /\ At(w, Len(m) + 4, f.dsc % 256)
        /\ At(w, Len(m) + 5, f.sn % 256)
    <2> DEFINE a == f.flags % 256
               b == f.cmd % 256
               c == f.src % 256
               d == f.dsc % 256
               e == f.sn % 256
    <2>1. a \in Bytes /\ b \in Bytes /\ c \in Bytes /\ d \in Bytes /\ e \in Bytes
      BY <1>4
    <2> HIDE DEF a, b, c, d, e
    <2>2. /\ Five(m, a, b, c, d, e) \in Seq(Bytes)
          /\ Len(Five(m, a, b, c, d, e)) = Len(m) + 5
          /\ \A p, y : At(m, p, y) => At(Five(m, a, b, c, d, e), p, y)
          /\ At(Five(m, a, b, c, d, e), Len(m) + 1, a)
          /\ At(Five(m, a, b, c, d, e), Len(m) + 2, b)
          /\ At(Five(m, a, b, c, d, e), Len(m) + 3, c)
          /\ At(Five(m, a, b, c, d, e), Len(m) + 4, d)
          /\ At(Five(m, a, b, c, d, e), Len(m) + 5, e)
      BY <1>2, <2>1, FiveMore
    <2> QED
      BY <2>2 DEF w, a, b, c, d, e
  <1> HIDE DEF w
  <1>6. HeaderBytes(f) = w
    BY <1>3 DEF w, Five
  <1> QED
    BY <1>2, <1>5, <1>6, <1>m DEF HasFields

LEMMA HeaderBytesNone ==
    ASSUME NEW f, Filled(f), f.type # TypeA, f.type # TypeB
    PROVE  HeaderBytes(f) = <<>>
  <1>1. /\ Marker(f.type, NONE) = <<>>
        /\ \A v \in Nat : ToBytes(v, NONE) = <<>>
    BY Written DEF Marker, NONE, U8, U16, U32
  <1>2. HeaderBytes(f) = <<>> \o <<>> \o <<>> \o <<>> \o <<>> \o <<>>
    BY <1>1, NoLayout DEF HeaderBytes, Filled
  <1>3. <<>> \in Seq(Bytes)
    OBVIOUS
  <1> QED
    BY <1>2, <1>3, ConcatEmptySeq

-----------------------------------------------------------------------------
(* The packet the encoder makes.                                           *)
LEMMA SizeOfFrame ==
    ASSUME NEW f, Filled(f)
    PROVE  /\ f.type = TypeA => FrameSize(f) = 10
           /\ f.type = TypeB => FrameSize(f) = 8 + f.data_size
           /\ f.type \notin {TypeA, TypeB} => FrameSize(f) = 1
           /\ FrameSize(f) \in Nat
  <1>n. f.data_size \in Nat
    BY DEF Filled
  <1>1. CASE f.type = TypeA
    <2>1. FrameSize(f) = 10
      BY <1>1, <1>n, LayoutA, Sizes DEF FrameSize, HeaderSize
    <2> QED
      BY <1>1, <2>1 DEF TypeA, TypeB
  <1>2. CASE f.type = TypeB
    <2>1. FrameSize(f) = 8 + f.data_size
      BY <1>2, <1>n, LayoutB, Sizes DEF FrameSize, HeaderSize
    <2> QED
      BY <1>2, <1>n, <2>1 DEF TypeA, TypeB
  <1>3. CASE f.type # TypeA /\ f.type # TypeB
    <2>1. FrameSize(f) = 1
      BY <1>3, <1>n, NoLayout, Sizes DEF FrameSize, HeaderSize
    <2> QED
      BY <1>3, <2>1
  <1> QED
    BY <1>1, <1>2, <1>3

LEMMA SizeOfHeader ==
    ASSUME NEW f, Filled(f)
    PROVE  /\ HeaderBytes(f) \in Seq(Bytes)
           /\ f.type = TypeA => Len(HeaderBytes(f)) = 9
           /\ f.type = TypeB => Len(HeaderBytes(f)) = 6
           /\ f.type \notin {TypeA, TypeB} => Len(HeaderBytes(f)) = 0
  <1>1. CASE f.type = TypeA
    BY <1>1, HeaderBytesA DEF TypeA, TypeB
  <1>2. CASE f.type = TypeB
    BY <1>2, HeaderBytesB DEF TypeA, TypeB
  <1>3. CASE f.type # TypeA /\ f.type # TypeB
    <2>1. HeaderBytes(f) = <<>>
      BY <1>3, HeaderBytesNone
    <2> QED
      BY <1>3, <2>1
  <1> QED
    BY <1>1, <1>2, <1>3

LEMMA ChecksumFieldIsByte ==
    ASSUME NEW f
    PROVE  ChecksumField(f) = <<0>> /\ Len(ChecksumField(f)) = 1
  <1>1. ChecksumVariableType(HeaderDef(f.type).checksum) = U8
    BY LayoutA, LayoutB, NoLayout, Sizes
  <1>2. ToBytes(0, U8) = <<0 % 256>>
    BY Written
  <1>3. 0 % 256 = 0
    OBVIOUS
  <1> QED
    BY <1>1, <1>2, <1>3 DEF ChecksumField

LEMMA SizeOfData ==
    ASSUME NEW f, Filled(f), HasData(f)
    PROVE  /\ DataField(f) \in Seq(Bytes)
           /\ f.type = TypeB => Len(DataField(f)) = 1 + f.data_size
           /\ f.type # TypeB => Len(DataField(f)) = f.data_size
  <1> DEFINE n == f.data_size
             part == SubSeq(f.data.bytes, 1, n)
  <1>n. n \in Nat /\ n <= Len(f.data.bytes) /\ f.data.bytes \in Seq(Bytes)
    BY DEF Filled, HasData
  <1>1. \A i \in 1..n : f.data.bytes[i] \in Bytes
    BY <1>n, ElementOfSeq
  <1> HIDE DEF n
  <1>2. part \in Seq(Bytes) /\ Len(part) = n
    <2>1. /\ part \in Seq(Bytes)
          /\ Len(part) = IF 1 <= n THEN n - 1 + 1 ELSE 0
      BY <1>n, <1>1, SubSeqProperties
    <2> QED
      BY <2>1, <1>n
  <1> HIDE DEF part
  <1>3. CASE f.type = TypeB
    <2>1. ToBytes(n, U8) = <<n % 256>> /\ n % 256 \in Bytes
      BY <1>n, Written, LowByte
    <2>2. DataField(f) = ToBytes(n, U8) \o part
      BY <1>3, LayoutB DEF DataField, n, part
    <2>3. <<n % 256>> \in Seq(Bytes) /\ Len(<<n % 256>>) = 1
      BY <2>1
    <2>4. /\ <<n % 256>> \o part \in Seq(Bytes)
          /\ Len(<<n % 256>> \o part) = Len(<<n % 256>>) + Len(part)
      BY <2>3, <1>2, ConcatProperties
    <2> QED
      BY <1>2, <1>3, <2>1, <2>2, <2>3, <2>4 DEF n
  <1>4. CASE f.type # TypeB
    <2>1. HeaderDef(f.type).data_size = NONE
      BY <1>4, LayoutA, NoLayout
    <2>2. DataField(f) = <<>> \o part
      BY <1>n, <2>1, Written DEF DataField, n, part
    <2>3. <<>> \o part = part
      BY <1>2, ConcatEmptySeq
    <2> QED
      BY <1>2, <1>4, <2>2, <2>3 DEF n
  <1> QED
    BY <1>3, <1>4

LEMMA Shapes ==
    ASSUME NEW f, Filled(f)
    PROVE  /\ f.type = TypeB => FrameSize(f) = Len(HeaderBytes(f)) + 2 + f.data_size
           /\ f.type # TypeB => FrameSize(f) = Len(HeaderBytes(f)) + 1
           /\ FrameSize(f) >= Len(HeaderBytes(f)) + 1
           /\ Len(HeaderBytes(f)) \in Nat /\ FrameSize(f) \in Nat
           /\ Len(ChecksumField(f)) = 1 /\ f.data_size \in Nat
  <1> DEFINE h == Len(HeaderBytes(f))
             n == FrameSize(f)
             d == f.data_size
  <1>1. d \in Nat /\ h \in Nat /\ n \in Nat
    BY SizeOfHeader, SizeOfFrame, LenProperties DEF Filled
  <1>2. Len(ChecksumField(f)) = 1
    BY ChecksumFieldIsByte
  <1>3. CASE f.type = TypeA
    <2>1. h = 9 /\ n = 10
      BY <1>3, SizeOfFrame, SizeOfHeader
    <2>2. f.type # TypeB
      BY <1>3 DEF TypeA, TypeB
    <2> QED
      BY <1>1, <1>2, <2>1, <2>2
  <1>4. CASE f.type = TypeB
    <2>1. h = 6 /\ n = 8 + d
      BY <1>4, SizeOfFrame, SizeOfHeader
    <2> QED
      BY <1>1, <1>2, <1>4, <2>1
  <1>5. CASE f.type \notin {TypeA, TypeB}
    <2>1. h = 0 /\ n = 1
      BY <1>5, SizeOfFrame, SizeOfHeader
    <2> QED
      BY <1>1, <1>2, <1>5, <2>1
  <1> QED
    BY <1>3, <1>4, <1>5

LEMMA UnwrittenIsNat ==
    ASSUME NEW f, Filled(f)
    PROVE  /\ Unwritten(f) \in Nat
           /\ ~HasData(f) => Len(HeaderBytes(f)) + 1 + Unwritten(f) = FrameSize(f)
  <1>1. Unwritten(f) = IF HasData(f) THEN 0
                       ELSE FrameSize(f) - Len(HeaderBytes(f)) - 1
    BY Shapes DEF Unwritten
  <1> DEFINE h == Len(HeaderBytes(f))
             n == FrameSize(f)
  <1>2. h \in Nat /\ n \in Nat /\ n >= h + 1
    BY Shapes
  <1> HIDE DEF h, n
  <1>3. Unwritten(f) = IF HasData(f) THEN 0 ELSE n - h - 1
    BY <1>1 DEF h, n
  <1>4. Unwritten(f) \in Nat /\ (~HasData(f) => h + 1 + Unwritten(f) = n)
    BY <1>2, <1>3
  <1> QED
    BY <1>4 DEF h, n

LEMMA LargerOf ==
    ASSUME NEW a \in Nat, NEW b \in Nat
    PROVE  /\ Larger(a, b) \in {a, b} /\ Larger(a, b) >= a /\ Larger(a, b) >= b
  BY DEF Larger

(* EncodeFrame goes beyond the frame only with data that has no place.     *)
LEMMA ExtentOfFrame ==
    ASSUME NEW f, Filled(f)
    PROVE  /\ Extent(f) \in Nat /\ Extent(f) >= FrameSize(f)
           /\ Extent(f) > FrameSize(f) => HasData(f) /\ HeaderDef(f.type).data = NONE
           /\ HasData(f) => Extent(f) = Len(HeaderBytes(f)) + 1 + Len(DataField(f))
           /\ ~HasData(f) => Extent(f) = Len(HeaderBytes(f)) + 1 + Unwritten(f)
  <1> DEFINE h == Len(HeaderBytes(f))
             n == FrameSize(f)
             d == IF HasData(f) THEN Len(DataField(f)) ELSE 0
  <1>1. h \in Nat /\ n \in Nat /\ n >= h + 1
    BY Shapes
  <1>2. d \in Nat
    BY SizeOfData, LenProperties
  <1>3. Extent(f) = Larger(n, h + 1 + d)
    BY Shapes DEF Extent
  <1>4. CASE ~HasData(f)
    <2>1. d = 0 /\ h + 1 + Unwritten(f) = n
      BY <1>4, UnwrittenIsNat
    <2> HIDE DEF h, n, d
    <2>2. Extent(f) = n
      BY <1>1, <1>3, <2>1 DEF Larger
    <2> QED
      BY <1>1, <1>4, <2>1, <2>2 DEF h, n
  <1>5. CASE HasData(f) /\ f.type = TypeB
    <2>1. d = Len(DataField(f)) /\ n = h + 1 + d
      BY <1>5, Shapes, SizeOfData DEF TypeA, TypeB
    <2> HIDE DEF h, n, d
    <2>2. Extent(f) = n
      BY <1>1, <1>2, <1>3, <2>1 DEF Larger
    <2> QED
      BY <1>1, <1>5, <2>1, <2>2 DEF h, n
  <1>6. CASE HasData(f) /\ f.type # TypeB
    <2>1. HeaderDef(f.type).data = NONE
      BY <1>6, LayoutA, NoLayout
    <2>2. d = Len(DataField(f)) /\ n = h + 1
      BY <1>6, Shapes
    <2> HIDE DEF h, n, d
    <2>3. Extent(f) = h + 1 + d /\ Extent(f) >= n
      BY <1>1, <1>2, <1>3, <2>2 DEF Larger
    <2> QED
      BY <1>1, <1>2, <1>6, <2>1, <2>2, <2>3 DEF h, n
  <1> QED
    BY <1>4, <1>5, <1>6

LEMMA SizeOfUnsealed ==
    ASSUME NEW f, Filled(f), NEW rest \in [1..Unwritten(f) -> Bytes]
    PROVE  /\ Unsealed(f, rest) \in Seq(Bytes)
           /\ Len(Unsealed(f, rest)) = Extent(f)
           /\ At(Unsealed(f, rest), Len(HeaderBytes(f)) + 1, 0)
           /\ \A p, y : At(HeaderBytes(f), p, y) => At(Unsealed(f, rest), p, y)
  <1> DEFINE h == HeaderBytes(f)
             k == h \o <<0>>
             tail == IF HasData(f) THEN DataField(f) ELSE rest
  <1>n. f.data_size \in Nat
    BY DEF Filled
  <1>1. h \in Seq(Bytes)
    BY SizeOfHeader
  <1>2. /\ tail \in Seq(Bytes)
        /\ Len(tail) = IF HasData(f) THEN Len(DataField(f)) ELSE Unwritten(f)
    <2>1. CASE HasData(f)
      BY <2>1, SizeOfData
    <2>2. CASE ~HasData(f)
      <3>1. rest \in Seq(Bytes) /\ Len(rest) = Unwritten(f)
        BY UnwrittenIsNat
      <3> QED
        BY <2>2, <3>1
    <2> QED
      BY <2>1, <2>2
  <1>z. 0 \in Bytes
    BY DEF Bytes
  <1>3. Unsealed(f, rest) = k \o tail
    BY ChecksumFieldIsByte DEF Unsealed
  <1>l. Len(h) \in Nat /\ Len(tail) \in Nat
    BY <1>1, <1>2, LenProperties
  <1>e. Extent(f) = Len(h) + 1 + Len(tail)
    BY <1>2, ExtentOfFrame
  <1> HIDE DEF h, tail
  <1>4. /\ k \in Seq(Bytes) /\ Len(k) = Len(h) + 1 /\ At(k, Len(h) + 1, 0)
        /\ \A p, y : At(h, p, y) => At(k, p, y)
    BY <1>1, <1>z, OneMore
  <1> HIDE DEF k
  <1>5. /\ k \o tail \in Seq(Bytes)
        /\ Len(k \o tail) = Len(k) + Len(tail)
        /\ \A i \in 1 .. Len(k) + Len(tail) :
              (k \o tail)[i] = IF i <= Len(k) THEN k[i] ELSE tail[i - Len(k)]
    BY <1>2, <1>4, ConcatProperties
  <1>6. \A p, y : At(k, p, y) => At(k \o tail, p, y)
    BY <1>4, <1>5, <1>l DEF At
  <1>7. k \o tail \in Seq(Bytes) /\ Len(k \o tail) = Extent(f)
    BY <1>4, <1>5, <1>e, <1>l
  <1>8. /\ At(k \o tail, Len(h) + 1, 0)
        /\ \A p, y : At(h, p, y) => At(k \o tail, p, y)
    BY <1>4, <1>6
  <1> QED
    BY <1>3, <1>7, <1>8 DEF h

(* A byte put into a sequence.                                             *)
LEMMA OverwriteByte ==
    ASSUME NEW s \in Seq(Bytes), NEW p \in 1..Len(s), NEW x \in Bytes
    PROVE  /\ Overwrite(s, p, <<x>>) \in Seq(Bytes)
           /\ Len(Overwrite(s, p, <<x>>)) = Len(s)
           /\ At(Overwrite(s, p, <<x>>), p, x)
           /\ \A q, y : At(s, q, y) /\ q # p => At(Overwrite(s, p, <<x>>), q, y)
           /\ \A q, y : At(Overwrite(s, p, <<x>>), q, y) /\ q # p => At(s, q, y)
  <1>1. /\ Len(s) \in Nat /\ DOMAIN s = 1..Len(s)
        /\ \A i \in 1..Len(s) : s[i] \in Bytes
    BY LenProperties, ElementOfSeq
  <1>2. Overwrite(s, p, <<x>>) = [i \in 1..Len(s) |-> IF i = p THEN x ELSE s[i]]
    <2>1. Len(<<x>>) = 1 /\ <<x>>[1] = x
      OBVIOUS
    <2>2. p + 1 - 1 = p /\ p - p + 1 = 1
      BY <1>1
    <2>3. \A i \in 1..Len(s) : i \in p..p + Len(<<x>>) - 1 <=> i = p
      BY <1>1, <2>1
    <2> QED
      BY <1>1, <2>1, <2>2, <2>3 DEF Overwrite
  <1> DEFINE t == [i \in 1..Len(s) |-> IF i = p THEN x ELSE s[i]]
  <1>3. t \in Seq(Bytes) /\ Len(t) = Len(s)
    BY <1>1
  <1>4. /\ At(t, p, x)
        /\ \A q, y : At(s, q, y) /\ q # p => At(t, q, y)
        /\ \A q, y : At(t, q, y) /\ q # p => At(s, q, y)
    BY <1>1, <1>3 DEF At
  <1> QED
    BY <1>2, <1>3, <1>4

LEMMA SumIsByte ==
    ASSUME ChecksumsAreBytes, NEW type \in {XOR, CRC8}, NEW s \in Seq(Bytes),
           NEW k \in Nat
    PROVE  Sum(type, s, k) \in Bytes
  <1> DEFINE part == SubSeq(s, k + 1, Len(s))
  <1>1. \A i \in k + 1..Len(s) : s[i] \in Bytes
    BY ElementOfSeq, LenProperties
  <1>2. k + 1 \in Int /\ Len(s) \in Int
    BY LenProperties
  <1>3. part \in Seq(Bytes)
    BY <1>1, <1>2, SubSeqProperties
  <1> HIDE DEF part
  <1>4. Checksum(type, part) \in Bytes
    BY <1>3 DEF ChecksumsAreBytes
  <1> QED
    BY <1>4 DEF Sum, part

LEMMA Offsets ==
    /\ ChecksumOffset(U32) = 3 /\ ChecksumOffset(U16) = 1
    /\ ChecksumOffset(U8) = 0 /\ ChecksumOffset(NONE) = 0
  BY DEF ChecksumOffset, U8, U16, U32, NONE

LEMMA LayoutOf ==
    ASSUME NEW type
    PROVE  /\ HeaderDef(type).checksum \in {XOR, CRC8}
           /\ ChecksumOffset(HeaderDef(type).marker) \in {0, 3}
           /\ ChecksumVariableType(HeaderDef(type).checksum) = U8
  BY LayoutA, LayoutB, NoLayout, Sizes, Offsets

(* Sealing writes one byte, the checksum of what was there.                *)
SealOf(f, u) ==
    Sum(HeaderDef(f.type).checksum, u, ChecksumOffset(HeaderDef(f.type).marker))

LEMMA SealedByte ==
    ASSUME ChecksumsAreBytes, NEW f, Filled(f),
           NEW rest \in [1..Unwritten(f) -> Bytes]
    PROVE  LET u == Unsealed(f, rest)
           IN  /\ u \in Seq(Bytes) /\ SealOf(f, u) \in Bytes
               /\ Len(HeaderBytes(f)) + 1 \in 1..Len(u)
               /\ Sealed(f, rest) =
                     Overwrite(u, Len(HeaderBytes(f)) + 1, <<SealOf(f, u)>>)
  <1> DEFINE u == Unsealed(f, rest)
             v == SealOf(f, u)
  <1>1. u \in Seq(Bytes) /\ At(u, Len(HeaderBytes(f)) + 1, 0)
    BY SizeOfUnsealed
  <1>2. v \in Bytes
    <2>1. ChecksumOffset(HeaderDef(f.type).marker) \in Nat
      BY LayoutOf
    <2> HIDE DEF u
    <2> QED
      BY <1>1, <2>1, LayoutOf, SumIsByte DEF SealOf
  <1>3. ToBytes(v, U8) = <<v>>
    <2> HIDE DEF v
    <2>1. v \in Nat /\ v % 256 = v
      BY <1>2 DEF Bytes
    <2> QED
      BY <2>1, Written
  <1>4. Sealed(f, rest) = Overwrite(u, Len(HeaderBytes(f)) + 1, ToBytes(v, U8))
    BY LayoutOf DEF Sealed, SealOf
  <1> QED
    BY <1>1, <1>2, <1>3, <1>4 DEF At

LEMMA SizeOfSealed ==
    ASSUME ChecksumsAreBytes, NEW f, Filled(f),
           NEW rest \in [1..Unwritten(f) -> Bytes]
    PROVE  Sealed(f, rest) \in Seq(Bytes) /\ Len(Sealed(f, rest)) = Extent(f)
  <1> DEFINE u == Unsealed(f, rest)
             p == Len(HeaderBytes(f)) + 1
             v == SealOf(f, u)
  <1>1. /\ u \in Seq(Bytes) /\ v \in Bytes /\ p \in 1..Len(u)
        /\ Sealed(f, rest) = Overwrite(u, p, <<v>>)
    BY SealedByte
  <1>2. Len(u) = Extent(f)
    BY SizeOfUnsealed
  <1> HIDE DEF u, p, v
  <1>3. Overwrite(u, p, <<v>>) \in Seq(Bytes) /\ Len(Overwrite(u, p, <<v>>)) = Len(u)
    BY <1>1, OverwriteByte
  <1> QED
    BY <1>1, <1>2, <1>3

-----------------------------------------------------------------------------
(* Buffers.                                                                *)
Reused(b) ==
    /\ b.size <= b.buffer_size /\ b.allocated <= b.buffer_size
    /\ b.size < b.buffer_size => b.allocated = b.size

Growing(b) == b.size <= b.buffer_size /\ ~Shrunk(b)

(* A buffer that shrinks has at most the memory for its contents; it has   *)
(* less only back at its largest size.                                     *)
LEMMA ResizeReuses ==
    ASSUME NEW b \in Buffer, Reused(b), NEW n \in Nat
    PROVE  LET r == Resize(b, n, TRUE)
           IN  /\ r \in Buffer /\ Reused(r) /\ r.size = n /\ r.bytes = b.bytes
               /\ r.allocated <= n
               /\ r.allocated < n => Shrunk(b) /\ n = b.buffer_size
  <1>1. /\ b.allocated \in Nat /\ b.buffer_size \in Nat /\ b.size \in Nat
        /\ b.bytes \in Seq(Bytes)
    BY DEF Buffer
  <1> DEFINE r == Resize(b, n, TRUE)
  <1>2. /\ r.size = n /\ r.bytes = b.bytes
        /\ r.allocated = IF Allocates(b, n, TRUE) THEN n ELSE b.allocated
        /\ r.buffer_size = Larger(n, b.buffer_size)
    BY DEF Resize, Buffer
  <1>3. Larger(n, b.buffer_size) \in Nat
    BY <1>1 DEF Larger
  <1>4. r \in Buffer
    BY <1>1, <1>3 DEF Resize, Buffer
  <1> HIDE DEF r
  <1>5. CASE n = b.buffer_size
    <2>1. ~Allocates(b, n, TRUE) /\ Larger(n, b.buffer_size) = n
      BY <1>1, <1>5 DEF Allocates, Larger
    <2>2. r.allocated = b.allocated /\ r.buffer_size = n
      BY <1>2, <2>1
    <2>3. b.allocated <= n
      BY <1>5 DEF Reused
    <2>4. r.size = n /\ r.allocated <= n
      BY <1>2, <2>2, <2>3
    <2>5. Reused(r)
      BY <2>2, <2>4 DEF Reused
    <2>6. r.allocated < n => Shrunk(b)
      BY <1>5, <2>2 DEF Shrunk
    <2> QED
      BY <1>2, <1>4, <1>5, <2>4, <2>5, <2>6 DEF r
  <1>6. CASE n # b.buffer_size
    <2>1. Allocates(b, n, TRUE)
      BY <1>1, <1>6 DEF Allocates
    <2>2. r.allocated = n /\ r.buffer_size \in Nat /\ r.buffer_size >= n
      BY <1>1, <1>2, <2>1 DEF Larger
    <2>3. r.size = n
      BY <1>2
    <2>4. Reused(r)
      BY <2>2, <2>3 DEF Reused
    <2>5. r.allocated <= n /\ ~(r.allocated < n)
      BY <2>2
    <2> QED
      BY <1>2, <1>4, <2>4, <2>5 DEF r
  <1> QED
    BY <1>5, <1>6

LEMMA WriteGrows ==
    ASSUME NEW b \in Buffer, Growing(b), NEW data \in Seq(Bytes)
    PROVE  LET w == Write(b, data)
           IN  /\ w \in Buffer /\ Growing(w)
               /\ w.size = Len(data) /\ w.bytes = data
  <1>1. /\ b.allocated \in Nat /\ b.buffer_size \in Nat /\ b.size \in Nat
        /\ Len(data) \in Nat
    BY LenProperties DEF Buffer
  <1> DEFINE n == Len(data)
             w == Write(b, data)
  <1>2. /\ w.size = n /\ w.bytes = data
        /\ w.allocated = IF Allocates(b, n, FALSE) THEN n ELSE b.allocated
        /\ w.buffer_size = Larger(n, b.buffer_size)
    BY DEF Write, Resize, Buffer
  <1>3. Larger(n, b.buffer_size) \in Nat
    BY <1>1 DEF Larger
  <1>4. w \in Buffer
    BY <1>1, <1>3 DEF Write, Resize, Buffer
  <1>5. n \in Nat
    BY <1>1
  <1> HIDE DEF n, w
  <1>6. Growing(w)
    BY <1>1, <1>2, <1>5 DEF Growing, Shrunk, Allocates, Larger
  <1> QED
    BY <1>2, <1>4, <1>6 DEF n, w

LEMMA EmptyBuffer ==
    Empty \in Buffer /\ Growing(Empty) /\ Reused(Empty) /\ Len(Empty.bytes) = Empty.size
  BY EmptySeq DEF Empty, Buffer, Growing, Reused, Shrunk, Bytes

-----------------------------------------------------------------------------
(* What the decoder reads.                                                 *)
LEMMA ReadByte ==
    ASSUME NEW s \in Seq(Bytes), NEW p
    PROVE  /\ ReadValue(s, p, NONE) = 0
           /\ ReadValue(s, p, U8) = s[p]
           /\ p \in 1..Len(s) => ReadValue(s, p, U8) \in Bytes
  <1>1. ReadValue(s, p, NONE) = 0 /\ ReadValue(s, p, U8) = s[p]
    BY DEF ReadValue, NONE, U8, U16, U32
  <1>2. p \in 1..Len(s) => s[p] \in Bytes
    BY ElementOfSeq
  <1> QED
    BY <1>1, <1>2

LEMMA Markers ==
    ASSUME NEW bytes
    PROVE  /\ MarkerType(bytes) \in {U32, U16, U8, NONE}
           /\ MarkerType(bytes) # NONE => TypeSize(MarkerType(bytes)) \in {1, 2, 4}
  BY Sizes DEF MarkerType

LEMMA Positions ==
    ASSUME NEW bytes \in Seq(Bytes), NEW m \in Nat, m = TypeSize(MarkerType(bytes))
    PROVE  /\ TypeIn(bytes) \in {TypeA, TypeB} =>
                 /\ FlagsAt(bytes) = m + 1 /\ CmdAt(bytes) = m + 2
                 /\ SrcAt(bytes) = m + 3 /\ DscAt(bytes) = m + 4
                 /\ SnAt(bytes) = m + 5 /\ ChecksumAt(bytes) = m + 6
                 /\ DataSizeAt(bytes) = m + 7
           /\ TypeIn(bytes) = TypeA =>
                 DataAt(bytes) = m + 7 /\ HeaderSize(HeaderIn(bytes)) = 6
           /\ TypeIn(bytes) = TypeB =>
                 DataAt(bytes) = m + 8 /\ HeaderSize(HeaderIn(bytes)) = 7
           /\ TypeIn(bytes) \notin {TypeA, TypeB} =>
                 /\ ChecksumAt(bytes) = m + 1 /\ DataAt(bytes) = m + 2
                 /\ HeaderSize(HeaderIn(bytes)) = 1
  <1> DEFINE h == HeaderIn(bytes)
  <1>1. CASE TypeIn(bytes) = TypeA
    <2>1. /\ TypeSize(h.flags) = 1 /\ TypeSize(h.cmd) = 1 /\ TypeSize(h.src) = 1
          /\ TypeSize(h.dsc) = 1 /\ TypeSize(h.sn) = 1 /\ TypeSize(h.data_size) = 0
          /\ TypeSize(ChecksumVariableType(h.checksum)) = 1
      BY <1>1, LayoutA, Sizes DEF HeaderIn
    <2>2. TypeA # TypeB
      BY DEF TypeA, TypeB
    <2>3. HeaderSize(h) = 6
      BY <2>1 DEF HeaderSize
    <2>4. /\ FlagsAt(bytes) = m + 1 /\ CmdAt(bytes) = m + 2
          /\ SrcAt(bytes) = m + 3 /\ DscAt(bytes) = m + 4
          /\ SnAt(bytes) = m + 5 /\ ChecksumAt(bytes) = m + 6
          /\ DataSizeAt(bytes) = m + 7 /\ DataAt(bytes) = m + 7
      BY <2>1 DEF FlagsAt, CmdAt, SrcAt, DscAt, SnAt, ChecksumAt, DataSizeAt, DataAt
    <2> QED
      BY <1>1, <2>2, <2>3, <2>4
  <1>2. CASE TypeIn(bytes) = TypeB
    <2>1. /\ TypeSize(h.flags) = 1 /\ TypeSize(h.cmd) = 1 /\ TypeSize(h.src) = 1
          /\ TypeSize(h.dsc) = 1 /\ TypeSize(h.sn) = 1 /\ TypeSize(h.data_size) = 1
          /\ TypeSize(ChecksumVariableType(h.checksum)) = 1
      BY <1>2, LayoutB, Sizes DEF HeaderIn
    <2>2. TypeA # TypeB
      BY DEF TypeA, TypeB
    <2>3. HeaderSize(h) = 7
      BY <2>1 DEF HeaderSize
    <2>4. /\ FlagsAt(bytes) = m + 1 /\ CmdAt(bytes) = m + 2
          /\ SrcAt(bytes) = m + 3 /\ DscAt(bytes) = m + 4
          /\ SnAt(bytes) = m + 5 /\ ChecksumAt(bytes) = m + 6
          /\ DataSizeAt(bytes) = m + 7 /\ DataAt(bytes) = m + 8
      BY <2>1 DEF FlagsAt, CmdAt, SrcAt, DscAt, SnAt, ChecksumAt, DataSizeAt, DataAt
    <2> QED
      BY <1>2, <2>2, <2>3, <2>4
  <1>3. CASE TypeIn(bytes) # TypeA /\ TypeIn(bytes) # TypeB
    <2>1. /\ TypeSize(h.flags) = 0 /\ TypeSize(h.cmd) = 0 /\ TypeSize(h.src) = 0
          /\ TypeSize(h.dsc) = 0 /\ TypeSize(h.sn) = 0 /\ TypeSize(h.data_size) = 0
          /\ TypeSize(ChecksumVariableType(h.checksum)) = 1
      BY <1>3, NoLayout, Sizes DEF HeaderIn
    <2>2. HeaderSize(h) = 1
      BY <2>1 DEF HeaderSize
    <2>3. ChecksumAt(bytes) = m + 1 /\ DataAt(bytes) = m + 2
      BY <2>1 DEF FlagsAt, CmdAt, SrcAt, DscAt, SnAt, ChecksumAt, DataSizeAt, DataAt
    <2> QED
      BY <1>3, <2>2, <2>3
  <1> QED
    BY <1>1, <1>2, <1>3

(* In a packet that IsPacket has passed, everything the decoder reads is   *)
(* there, and its checksum field can be zeroed.                            *)
LEMMA ReadsInside ==
    ASSUME NEW bytes \in Seq(Bytes), NEW required, IsPacket(bytes, required)
    PROVE  LET h == HeaderIn(bytes)
           IN  /\ FlagsIn(bytes) \in Bytes /\ DataSizeIn(bytes) \in Bytes
               /\ ReadValue(bytes, CmdAt(bytes), h.cmd) \in Bytes
               /\ ReadValue(bytes, SrcAt(bytes), h.src) \in Bytes
               /\ ReadValue(bytes, DscAt(bytes), h.dsc) \in Bytes
               /\ ReadValue(bytes, SnAt(bytes), h.sn) \in Bytes
               /\ ChecksumAt(bytes) \in 1..Len(bytes)
               /\ DataAt(bytes) \in Nat \ {0}
  <1> DEFINE h == HeaderIn(bytes)
             m == TypeSize(MarkerType(bytes))
             n == Len(bytes)
  <1>1. m \in {1, 2, 4}
    BY Markers DEF IsPacket
  <1>2. n \in Nat /\ n - m >= HeaderSize(h)
    BY LenProperties DEF IsPacket
  <1>z. 0 \in Bytes
    BY DEF Bytes
  <1>r. \A p : /\ ReadValue(bytes, p, NONE) = 0
               /\ p \in 1..n => ReadValue(bytes, p, U8) \in Bytes
    BY ReadByte
  <1>3. CASE TypeIn(bytes) = TypeA
    <2>1. /\ h.flags = U8 /\ h.cmd = U8 /\ h.src = U8 /\ h.dsc = U8 /\ h.sn = U8
          /\ h.data_size = NONE
      BY <1>3, LayoutA DEF HeaderIn
    <2>2. /\ FlagsAt(bytes) = m + 1 /\ CmdAt(bytes) = m + 2 /\ SrcAt(bytes) = m + 3
          /\ DscAt(bytes) = m + 4 /\ SnAt(bytes) = m + 5 /\ ChecksumAt(bytes) = m + 6
          /\ DataAt(bytes) = m + 7 /\ HeaderSize(h) = 6
      BY <1>1, <1>3, Positions
    <2> HIDE DEF m, n, h
    <2>3. /\ FlagsAt(bytes) \in 1..n /\ CmdAt(bytes) \in 1..n /\ SrcAt(bytes) \in 1..n
          /\ DscAt(bytes) \in 1..n /\ SnAt(bytes) \in 1..n /\ ChecksumAt(bytes) \in 1..n
          /\ DataAt(bytes) \in Nat \ {0}
      BY <1>1, <1>2, <2>2
    <2>4. /\ FlagsIn(bytes) = ReadValue(bytes, FlagsAt(bytes), h.flags)
          /\ DataSizeIn(bytes) = ReadValue(bytes, DataSizeAt(bytes), h.data_size)
      BY DEF FlagsIn, DataSizeIn, h
    <2>5. /\ FlagsIn(bytes) \in Bytes /\ DataSizeIn(bytes) \in Bytes
          /\ ReadValue(bytes, CmdAt(bytes), h.cmd) \in Bytes
          /\ ReadValue(bytes, SrcAt(bytes), h.src) \in Bytes
          /\ ReadValue(bytes, DscAt(bytes), h.dsc) \in Bytes
          /\ ReadValue(bytes, SnAt(bytes), h.sn) \in Bytes
      BY <1>z, <1>r, <2>1, <2>3, <2>4
    <2> QED
      BY <2>3, <2>5 DEF h, n
  <1>4. CASE TypeIn(bytes) = TypeB
    <2>1. /\ h.flags = U8 /\ h.cmd = U8 /\ h.src = U8 /\ h.dsc = U8 /\ h.sn = U8
          /\ h.data_size = U8
      BY <1>4, LayoutB DEF HeaderIn
    <2>2. /\ FlagsAt(bytes) = m + 1 /\ CmdAt(bytes) = m + 2 /\ SrcAt(bytes) = m + 3
          /\ DscAt(bytes) = m + 4 /\ SnAt(bytes) = m + 5 /\ ChecksumAt(bytes) = m + 6
          /\ DataSizeAt(bytes) = m + 7 /\ DataAt(bytes) = m + 8 /\ HeaderSize(h) = 7
      BY <1>1, <1>4, Positions
    <2> HIDE DEF m, n, h
    <2>3. /\ FlagsAt(bytes) \in 1..n /\ CmdAt(bytes) \in 1..n /\ SrcAt(bytes) \in 1..n
          /\ DscAt(bytes) \in 1..n /\ SnAt(bytes) \in 1..n /\ ChecksumAt(bytes) \in 1..n
          /\ DataSizeAt(bytes) \in 1..n /\ DataAt(bytes) \in Nat \ {0}
      BY <1>1, <1>2, <2>2
    <2>4. /\ FlagsIn(bytes) = ReadValue(bytes, FlagsAt(bytes), h.flags)
          /\ DataSizeIn(bytes) = ReadValue(bytes, DataSizeAt(bytes), h.data_size)
      BY DEF FlagsIn, DataSizeIn, h
    <2>5. /\ FlagsIn(bytes) \in Bytes /\ DataSizeIn(bytes) \in Bytes
          /\ ReadValue(bytes, CmdAt(bytes), h.cmd) \in Bytes
          /\ ReadValue(bytes, SrcAt(bytes), h.src) \in Bytes
          /\ ReadValue(bytes, DscAt(bytes), h.dsc) \in Bytes
          /\ ReadValue(bytes, SnAt(bytes), h.sn) \in Bytes
      BY <1>z, <1>r, <2>1, <2>3, <2>4
    <2> QED
      BY <2>3, <2>5 DEF h, n
  <1>5. CASE TypeIn(bytes) # TypeA /\ TypeIn(bytes) # TypeB
    <2>1. /\ h.flags = NONE /\ h.cmd = NONE /\ h.src = NONE /\ h.dsc = NONE
          /\ h.sn = NONE /\ h.data_size = NONE
      BY <1>5, NoLayout DEF HeaderIn
    <2>2. ChecksumAt(bytes) = m + 1 /\ DataAt(bytes) = m + 2 /\ HeaderSize(h) = 1
      BY <1>1, <1>5, Positions
    <2> HIDE DEF m, n, h
    <2>3. ChecksumAt(bytes) \in 1..n /\ DataAt(bytes) \in Nat \ {0}
      BY <1>1, <1>2, <2>2
    <2>4. /\ FlagsIn(bytes) = ReadValue(bytes, FlagsAt(bytes), h.flags)
          /\ DataSizeIn(bytes) = ReadValue(bytes, DataSizeAt(bytes), h.data_size)
      BY DEF FlagsIn, DataSizeIn, h
    <2>5. /\ FlagsIn(bytes) \in Bytes /\ DataSizeIn(bytes) \in Bytes
          /\ ReadValue(bytes, CmdAt(bytes), h.cmd) \in Bytes
          /\ ReadValue(bytes, SrcAt(bytes), h.src) \in Bytes
          /\ ReadValue(bytes, DscAt(bytes), h.dsc) \in Bytes
          /\ ReadValue(bytes, SnAt(bytes), h.sn) \in Bytes
      BY <1>z, <1>r, <2>1, <2>4
    <2> QED
      BY <2>3, <2>5 DEF h, n
  <1> QED
    BY <1>3, <1>4, <1>5

LEMMA ZeroedSize ==
    ASSUME NEW bytes \in Seq(Bytes), NEW required, IsPacket(bytes, required)
    PROVE  /\ Zeroed(bytes) = Overwrite(bytes, ChecksumAt(bytes), <<0>>)
           /\ Zeroed(bytes) \in Seq(Bytes) /\ Len(Zeroed(bytes)) = Len(bytes)
  <1>1. Zeroed(bytes) = Overwrite(bytes, ChecksumAt(bytes), <<0>>)
    <2>1. ToBytes(0, U8) = <<0>>
      BY Written
    <2> QED
      BY <2>1, LayoutOf DEF Zeroed, HeaderIn
  <1>2. ChecksumAt(bytes) \in 1..Len(bytes) /\ 0 \in Bytes
    BY ReadsInside DEF Bytes
  <1>3. /\ Overwrite(bytes, ChecksumAt(bytes), <<0>>) \in Seq(Bytes)
        /\ Len(Overwrite(bytes, ChecksumAt(bytes), <<0>>)) = Len(bytes)
    BY <1>2, OverwriteByte
  <1> QED
    BY <1>1, <1>3

-----------------------------------------------------------------------------
(* The inductive invariant: every object has its type, every buffer as     *)
(* many bytes as it says, and as much memory as its way of being used      *)
(* leaves it.                                                              *)
FrameObject ==
    [type : HeaderTypes, flags : Nat, cmd : Nat, src : Nat, dsc : Nat,
     sn : Nat, data_size : Nat, data : Buffer]

Contains(b) == b \in Buffer /\ Len(b.bytes) = b.size

Inv ==
    /\ frame \in FrameObject /\ Contains(frame.data) /\ Growing(frame.data)
    /\ Contains(packet) /\ Reused(packet)
    /\ Contains(income) /\ Growing(income)
    /\ received \in Fields /\ Contains(received.data) /\ Reused(received.data)
    /\ ok \in BOOLEAN /\ defined \in BOOLEAN

LEMMA InvIsTypeOK == Inv => TypeOK
  BY DEF Inv, TypeOK, FrameObject, Contains

LEMMA InvIsBuffersHold == Inv => BuffersHold
  BY DEF Inv, BuffersHold, Growing, Reused

LEMMA FrameIsFilled ==
    ASSUME NEW f \in FrameObject, Contains(f.data)
    PROVE  Filled(f)
  BY DEF FrameObject, Contains, Filled, Buffer

LEMMA ComposedIsFrame ==
    ASSUME NEW f \in Frames, NEW flags \in Nat, NEW data \in Buffer, Growing(data)
    PROVE  /\ Composed(f, flags, data) \in FrameObject
           /\ Contains(Composed(f, flags, data).data)
           /\ Growing(Composed(f, flags, data).data)
  <1>1. f \in FrameType
    BY CodecAssumption
  <1>2. f.data \in Seq(Bytes)
    BY <1>1 DEF FrameType
  <1>3. /\ Write(data, f.data) \in Buffer /\ Growing(Write(data, f.data))
        /\ Write(data, f.data).size = Len(f.data)
        /\ Write(data, f.data).bytes = f.data
    BY <1>2, WriteGrows
  <1>4. /\ Composed(f, flags, data) \in FrameObject
        /\ Composed(f, flags, data).data = Write(data, f.data)
    BY <1>1, <1>3 DEF Composed, FrameType, FrameObject
  <1> QED
    BY <1>3, <1>4 DEF Contains

LEMMA OwnFlagsAreNat ==
    ASSUME NEW f \in Frames
    PROVE  f.flags \in OwnFlags /\ f.flags \in Nat
  <1>1. f.flags \in OwnFlags
    BY CodecAssumption DEF FrameType
  <1>2. \A x \in OwnFlags : x \in Nat
    BY DEF OwnFlags
  <1> QED
    BY <1>1, <1>2

LEMMA InitInv == Init => Inv
  <1> SUFFICES ASSUME Init PROVE Inv
    OBVIOUS
  <1>1. /\ Empty \in Buffer /\ Growing(Empty) /\ Reused(Empty)
        /\ Len(Empty.bytes) = Empty.size
    BY EmptyBuffer
  <1>2. frame \in FrameObject /\ Contains(frame.data) /\ Growing(frame.data)
    <2>1. PICK f \in Frames : frame = Composed(f, f.flags, Empty)
      BY DEF Init
    <2>2. f.flags \in Nat
      BY OwnFlagsAreNat
    <2> QED
      BY <1>1, <2>1, <2>2, ComposedIsFrame
  <1>3. received \in Fields /\ received.data = Empty
    BY <1>1 DEF Init, NoFields, Fields
  <1> QED
    BY <1>1, <1>2, <1>3 DEF Init, Inv, Contains

LEMMA ComposeKeepsInv ==
    ASSUME Inv, NEW f \in Frames, Compose(f)
    PROVE  Inv'
  <1>1. PICK flags \in {f.flags, frame.flags} :
           frame' = Composed(f, flags, frame.data)
    BY DEF Compose
  <1>2. flags \in Nat
    BY <1>1, OwnFlagsAreNat DEF Inv, FrameObject
  <1>3. frame.data \in Buffer /\ Growing(frame.data)
    BY DEF Inv, Contains
  <1>4. /\ frame' \in FrameObject /\ Contains(frame'.data)
        /\ Growing(frame'.data)
    BY <1>1, <1>2, <1>3, ComposedIsFrame
  <1>5. Contains(income') /\ Growing(income')
    BY EmptyBuffer DEF Compose, Contains
  <1> QED
    BY <1>4, <1>5 DEF Inv, Compose

LEMMA EncodedFlagsAreNat ==
    ASSUME NEW f, Filled(f)
    PROVE  EncodedFlags(f) \in Nat
  <1>1. f.flags \in Nat
    BY DEF Filled
  <1>2. \A n \in Nat : OrBit(n, 128) \in Nat /\ OrBit(n, 1) \in Nat /\ OrBit(n, 2) \in Nat
    BY DEF OrBit
  <1>3. \A n \in Nat : OrChecksum(n, XOR) \in Nat /\ OrChecksum(n, CRC8) \in Nat
    BY <1>2 DEF OrChecksum, XOR, CRC8, CRC16
  <1> QED
    BY <1>1, <1>2, <1>3, LayoutOf DEF EncodedFlags

(* EncodeFrame succeeds only if the packet is just what the frame needs.   *)
LEMMA EncodedFrame ==
    ASSUME Inv, EncodeFrame
    PROVE  /\ frame' = [frame EXCEPT !.flags = EncodedFlags(frame)]
           /\ frame' \in FrameObject /\ frame'.data = frame.data
           /\ frame'.type = frame.type /\ frame'.data_size = frame.data_size
           /\ frame'.flags = EncodedFlags(frame)
           /\ Filled(frame) /\ Filled(frame')
           /\ FrameSize(frame') = FrameSize(frame)
           /\ Extent(frame') = FrameSize(frame')
           /\ sent' = Carried(frame')
           /\ \E rest \in [1..Unwritten(frame') -> Bytes] :
                 packet' = [Resize(packet, FrameSize(frame), TRUE)
                               EXCEPT !.bytes = Sealed(frame', rest)]
  <1> DEFINE f == [frame EXCEPT !.flags = EncodedFlags(frame)]
             n == FrameSize(frame)
             r == Resize(packet, n, TRUE)
  <1>1. frame \in FrameObject /\ Contains(frame.data) /\ Filled(frame)
    BY FrameIsFilled DEF Inv
  <1>2. /\ f \in FrameObject /\ f.data = frame.data /\ f.type = frame.type
        /\ f.data_size = frame.data_size /\ f.flags = EncodedFlags(frame)
    BY <1>1, EncodedFlagsAreNat DEF FrameObject
  <1>3. Filled(f)
    BY <1>1, <1>2, FrameIsFilled
  <1>4. Extent(f) = Extent(frame) /\ FrameSize(f) = n
    <2>1. Len(HeaderBytes(f)) = Len(HeaderBytes(frame))
      BY <1>1, <1>2, <1>3, SizeOfHeader
    <2>2. FrameSize(f) = FrameSize(frame)
      BY <1>2 DEF FrameSize
    <2>3. /\ ChecksumField(f) = ChecksumField(frame)
          /\ HasData(f) <=> HasData(frame)
          /\ DataField(f) = DataField(frame)
      BY <1>2 DEF ChecksumField, HasData, DataField
    <2> QED
      BY <2>1, <2>2, <2>3 DEF Extent
  <1>5. n \in Nat
    BY <1>1, SizeOfFrame
  <1>6. packet \in Buffer /\ Reused(packet)
    BY DEF Inv, Contains
  <1>7. r \in Buffer /\ r.allocated <= n
    BY <1>5, <1>6, ResizeReuses
  <1>8. PICK rest \in [1..Unwritten(f) -> Garbage] :
           packet' = [r EXCEPT !.bytes = Sealed(f, rest)]
    BY DEF EncodeFrame, Resized
  <1>9. rest \in [1..Unwritten(f) -> Bytes]
    BY <1>8, CodecAssumption
  <1>10. Extent(f) = n
    <2>1. Extent(frame) <= r.allocated
      BY DEF EncodeFrame, Resized
    <2>2. Extent(f) \in Nat /\ Extent(f) >= FrameSize(f)
      BY <1>3, ExtentOfFrame
    <2>3. r.allocated \in Nat
      BY <1>7 DEF Buffer
    <2> HIDE DEF f, n, r
    <2> QED
      BY <1>4, <1>5, <1>7, <2>1, <2>2, <2>3
  <1>11. frame' = f /\ sent' = Carried(f)
    BY DEF EncodeFrame
  <1> HIDE DEF f
  <1> QED
    BY <1>1, <1>2, <1>3, <1>4, <1>8, <1>9, <1>10, <1>11 DEF f

LEMMA EncodeKeepsInv ==
    ASSUME ChecksumsAreBytes, Inv, EncodeFrame
    PROVE  Inv'
  <1> DEFINE n == FrameSize(frame)
             r == Resize(packet, n, TRUE)
  <1>1. PICK rest \in [1..Unwritten(frame') -> Bytes] :
           packet' = [r EXCEPT !.bytes = Sealed(frame', rest)]
    BY EncodedFrame
  <1>2. Filled(frame') /\ Extent(frame') = n
    BY EncodedFrame
  <1>3. Sealed(frame', rest) \in Seq(Bytes) /\ Len(Sealed(frame', rest)) = n
    BY <1>1, <1>2, SizeOfSealed
  <1>4. r \in Buffer /\ Reused(r) /\ r.size = n
    <2>1. n \in Nat /\ packet \in Buffer /\ Reused(packet)
      BY EncodedFrame, SizeOfFrame DEF Inv, Contains
    <2> QED
      BY <2>1, ResizeReuses
  <1> HIDE DEF n, r
  <1>5. Contains(packet') /\ Reused(packet')
    BY <1>1, <1>3, <1>4 DEF Contains, Reused, Buffer
  <1>6. frame' \in FrameObject /\ Contains(frame'.data) /\ Growing(frame'.data)
    BY EncodedFrame DEF Inv
  <1> QED
    BY <1>5, <1>6 DEF Inv, EncodeFrame

LEMMA OverrunKeepsInv ==
    ASSUME Inv, Overrun
    PROVE  Inv'
  BY DEF Inv, Overrun

LEMMA CarryKeepsInv ==
    ASSUME Inv, NEW lost \in Losses, Carry(lost)
    PROVE  Inv'
  <1> DEFINE part == SubSeq(packet.bytes, lost + 1, packet.size)
  <1>1. lost \in Nat
    BY CodecAssumption
  <1>2. packet.bytes \in Seq(Bytes) /\ Len(packet.bytes) = packet.size
    BY DEF Inv, Contains, Buffer
  <1>3. \A i \in lost + 1..packet.size : packet.bytes[i] \in Bytes
    BY <1>1, <1>2, ElementOfSeq
  <1>4. lost + 1 \in Int /\ packet.size \in Int
    BY <1>1, <1>2, LenProperties
  <1>5. part \in Seq(Bytes)
    BY <1>3, <1>4, SubSeqProperties
  <1>6. income' = Write(Empty, part)
    BY DEF Carry
  <1> HIDE DEF part
  <1>7. Contains(income') /\ Growing(income')
    BY <1>5, <1>6, EmptyBuffer, WriteGrows DEF Contains
  <1> QED
    BY <1>7 DEF Inv, Carry

LEMMA FieldsReadAreFields ==
    ASSUME Inv, NEW required, IsPacket(income.bytes, required)
    PROVE  /\ FieldsRead(income.bytes) \in Fields
           /\ FieldsRead(income.bytes).data = received.data
           /\ FieldsRead(income.bytes).data_size = received.data_size
  <1> DEFINE bytes == income.bytes
             h == HeaderIn(bytes)
  <1>1. bytes \in Seq(Bytes)
    BY DEF Inv, Contains, Buffer
  <1>2. /\ FlagsIn(bytes) \in Bytes
        /\ ReadValue(bytes, CmdAt(bytes), h.cmd) \in Bytes
        /\ ReadValue(bytes, SrcAt(bytes), h.src) \in Bytes
        /\ ReadValue(bytes, DscAt(bytes), h.dsc) \in Bytes
        /\ ReadValue(bytes, SnAt(bytes), h.sn) \in Bytes
    BY <1>1, ReadsInside
  <1>3. \A b \in Bytes : b \in Nat
    BY DEF Bytes
  <1>4. received \in Fields
    BY DEF Inv
  <1> HIDE DEF bytes
  <1> QED
    BY <1>2, <1>3, <1>4 DEF FieldsRead, Fields, bytes

LEMMA ZeroedIncome ==
    ASSUME Inv, NEW required, IsPacket(income.bytes, required),
           NEW result \in BOOLEAN, Returns(result)
    PROVE  /\ Contains(income') /\ Growing(income')
           /\ ok' \in BOOLEAN
           /\ UNCHANGED <<frame, packet, defined>>
  <1>1. income \in Buffer /\ Growing(income) /\ Len(income.bytes) = income.size
    BY DEF Inv, Contains
  <1>2. income.bytes \in Seq(Bytes)
    BY <1>1 DEF Buffer
  <1>3. /\ Zeroed(income.bytes) \in Seq(Bytes)
        /\ Len(Zeroed(income.bytes)) = Len(income.bytes)
    BY <1>2, ZeroedSize
  <1>4. income' = [income EXCEPT !.bytes = Zeroed(income.bytes)]
    BY DEF Returns
  <1>5. Contains(income')
    BY <1>1, <1>3, <1>4 DEF Contains, Buffer
  <1>6. Growing(income')
    BY <1>1, <1>4 DEF Growing, Shrunk, Buffer
  <1> QED
    BY <1>5, <1>6 DEF Returns

LEMMA DecodeKeepsInv ==
    ASSUME Inv, NEW required, DecodePacket(required)
    PROVE  Inv'
  <1> DEFINE bytes == income.bytes
             fields == FieldsRead(bytes)
             n == DataSizeIn(bytes)
  <1>1. bytes \in Seq(Bytes) /\ received \in Fields
    BY DEF Inv, Contains, Buffer
  <1>2. CASE DecodeNoPacket(required)
    BY <1>2 DEF DecodeNoPacket, Inv
  <1>3. CASE DecodeOverruns(required)
    BY <1>3, OverrunKeepsInv DEF DecodeOverruns
  <1>4. ASSUME Opens(required)
        PROVE  /\ fields \in Fields /\ fields.data = received.data
               /\ fields.data_size = received.data_size
               /\ n \in Nat /\ DataAt(bytes) \in Nat \ {0}
    <2>1. IsPacket(bytes, required)
      BY <1>4 DEF Opens
    <2>2. n \in Bytes /\ DataAt(bytes) \in Nat \ {0}
      BY <1>1, <2>1, ReadsInside
    <2>3. n \in Nat
      BY <2>2 DEF Bytes
    <2> QED
      BY <2>1, <2>2, <2>3, FieldsReadAreFields
  <1>5. ASSUME Opens(required), NEW result \in BOOLEAN, Returns(result),
               received' \in Fields, Contains(received'.data), Reused(received'.data)
        PROVE  Inv'
    <2>1. IsPacket(bytes, required)
      BY <1>5 DEF Opens
    <2>2. /\ Contains(income') /\ Growing(income') /\ ok' \in BOOLEAN
          /\ UNCHANGED <<frame, packet, defined>>
      BY <1>5, <2>1, ZeroedIncome
    <2> QED
      BY <1>5, <2>2 DEF Inv
  <1>6. Contains(received.data) /\ Reused(received.data)
    BY DEF Inv
  <1>7. CASE DecodeBadChecksum(required)
    <2>1. Opens(required) /\ received' = fields /\ Returns(FALSE)
      BY <1>7 DEF DecodeBadChecksum
    <2> HIDE DEF fields
    <2> QED
      BY <1>4, <1>5, <1>6, <2>1
  <1>8. CASE DecodeWithoutData(required)
    <2>1. /\ Opens(required) /\ Returns(TRUE)
          /\ received' = [fields EXCEPT !.data_size = 0]
      BY <1>8 DEF DecodeWithoutData, WithoutData
    <2>2. fields \in Fields /\ fields.data = received.data
      BY <1>4, <2>1
    <2> HIDE DEF fields
    <2>3. received' \in Fields /\ received'.data = received.data
      BY <2>1, <2>2 DEF Fields
    <2> QED
      BY <1>5, <1>6, <2>1, <2>3
  <1>9. CASE DecodeTooShort(required)
    <2>1. /\ Opens(required) /\ Returns(FALSE)
          /\ received' = [fields EXCEPT !.data_size = n]
      BY <1>9 DEF DecodeTooShort, OpensData
    <2>2. fields \in Fields /\ fields.data = received.data /\ n \in Nat
      BY <1>4, <2>1
    <2> HIDE DEF fields, n
    <2>3. received' \in Fields /\ received'.data = received.data
      BY <2>1, <2>2 DEF Fields
    <2> QED
      BY <1>5, <1>6, <2>1, <2>3
  <1>10. CASE DecodeData(required)
    <2> DEFINE r == Resize(received.data, n, TRUE)
               at == DataAt(bytes)
               last == at + n - 1
               part == SubSeq(bytes, at, last)
               d == [r EXCEPT !.bytes = part]
    <2>1. /\ Opens(required) /\ Returns(TRUE) /\ IsComplete(bytes)
          /\ received' = [fields EXCEPT !.data_size = n, !.data = d]
      BY <1>10 DEF DecodeData, OpensData
    <2>2. fields \in Fields /\ n \in Nat /\ at \in Nat \ {0}
      BY <1>4, <2>1
    <2>3. received.data \in Buffer /\ Reused(received.data)
      BY <1>6 DEF Contains
    <2>4. n <= Len(bytes) - at + 1
      BY <2>1 DEF IsComplete
    <2>5. Len(bytes) \in Nat
      BY <1>1, LenProperties
    <2>6. r \in Buffer /\ Reused(r) /\ r.size = n
      BY <2>2, <2>3, ResizeReuses
    <2> HIDE DEF fields, n, bytes, at, r
    <2>7. part \in Seq(Bytes) /\ Len(part) = n
      <3>1. /\ at \in Int /\ last \in Int /\ last - at + 1 = n
            /\ last <= Len(bytes) /\ 1 <= at /\ (at <= last <=> 1 <= n)
        BY <2>2, <2>4, <2>5
      <3> HIDE DEF last
      <3>2. \A i \in at..last : bytes[i] \in Bytes
        BY <1>1, <2>5, <3>1, ElementOfSeq
      <3>3. /\ part \in Seq(Bytes)
            /\ Len(part) = IF at <= last THEN last - at + 1 ELSE 0
        BY <3>1, <3>2, SubSeqProperties
      <3> QED
        BY <2>2, <3>1, <3>3
    <2> HIDE DEF part
    <2>8. d \in Buffer /\ Contains(d) /\ Reused(d)
      BY <2>6, <2>7 DEF Contains, Reused, Buffer
    <2> HIDE DEF d
    <2>9. received' \in Fields /\ received'.data = d
      BY <2>1, <2>2, <2>8 DEF Fields
    <2> QED
      BY <1>5, <2>1, <2>8, <2>9
  <1> QED
    BY <1>2, <1>3, <1>7, <1>8, <1>9, <1>10 DEF DecodePacket

(* Every step preserves the invariant.                                     *)
LEMMA NextKeepsInv ==
    ASSUME ChecksumsAreBytes, Inv, [Next]_vars
    PROVE  Inv'
  <1>1. CASE \E f \in Frames : Compose(f)
    BY <1>1, ComposeKeepsInv
  <1>2. CASE EncodeFrame
    BY <1>2, EncodeKeepsInv
  <1>3. CASE EncodeFrameOverruns
    BY <1>3, OverrunKeepsInv DEF EncodeFrameOverruns
  <1>4. CASE \E lost \in Losses : Carry(lost)
    BY <1>4, CarryKeepsInv
  <1>5. CASE \E required \in VariableTypes : DecodePacket(required)
    BY <1>5, DecodeKeepsInv
  <1>6. CASE UNCHANGED vars
    BY <1>6 DEF Inv, vars
  <1> QED
    BY <1>1, <1>2, <1>3, <1>4, <1>5, <1>6 DEF Next

-----------------------------------------------------------------------------
THEOREM InvHolds ==
    ASSUME ChecksumsAreBytes
    PROVE  Spec => []Inv
  <1>1. Init => Inv
    BY InitInv
  <1>2. Inv /\ [Next]_vars => Inv'
    BY NextKeepsInv
  <1> QED
    BY <1>1, <1>2, PTL DEF Spec

(* UOP_Codec.  Whatever frames are encoded and whatever packets arrive,    *)
(* every object keeps its type.                                            *)
THEOREM TypeOKHolds ==
    ASSUME ChecksumsAreBytes
    PROVE  Spec => []TypeOK
  BY InvHolds, InvIsTypeOK, PTL

(* UOP_Buffer.  The memory a buffer has follows from how it is used: one   *)
(* that is only written to always has as much as it says.                  *)
THEOREM BuffersHoldAlways ==
    ASSUME ChecksumsAreBytes
    PROVE  Spec => []BuffersHold
  BY InvHolds, InvIsBuffersHold, PTL

(* The decoder and the encoder overrun memory for three reasons only.      *)
LEMMA OverrunHasCause ==
    ASSUME Inv, Next, ~defined'
    PROVE  \/ Shrunk(packet) /\ FrameSize(frame) = packet.buffer_size
           \/ HasData(frame) /\ HeaderDef(frame.type).data = NONE
           \/ /\ Shrunk(received.data)
              /\ DataSizeIn(income.bytes) = received.data.buffer_size
  <1>1. CASE EncodeFrameOverruns
    <2> DEFINE n == FrameSize(frame)
               r == Resize(packet, n, TRUE)
    <2>1. Filled(frame)
      BY FrameIsFilled DEF Inv
    <2>2. n \in Nat
      BY <2>1, SizeOfFrame
    <2>3. packet \in Buffer /\ Reused(packet)
      BY DEF Inv, Contains
    <2>4. /\ r \in Buffer /\ r.allocated <= n
          /\ r.allocated < n => Shrunk(packet) /\ n = packet.buffer_size
      BY <2>2, <2>3, ResizeReuses
    <2>5. r.allocated \in Nat
      BY <2>4 DEF Buffer
    <2>6. Extent(frame) > r.allocated
      BY <1>1 DEF EncodeFrameOverruns, Resized
    <2>7. /\ Extent(frame) \in Nat /\ Extent(frame) >= n
          /\ Extent(frame) > n => HasData(frame) /\ HeaderDef(frame.type).data = NONE
      BY <2>1, ExtentOfFrame
    <2> HIDE DEF n, r
    <2>8. Extent(frame) > n \/ r.allocated < n
      BY <2>2, <2>4, <2>5, <2>6, <2>7
    <2> QED
      BY <2>4, <2>7, <2>8 DEF n
  <1>2. CASE \E required \in VariableTypes : DecodeOverruns(required)
    <2> DEFINE n == DataSizeIn(income.bytes)
               r == Resize(received.data, n, TRUE)
    <2>1. PICK required \in VariableTypes : DecodeOverruns(required)
      BY <1>2
    <2>2. IsPacket(income.bytes, required)
      BY <2>1 DEF DecodeOverruns, OpensData, Opens
    <2>3. income.bytes \in Seq(Bytes)
      BY DEF Inv, Contains, Buffer
    <2>4. n \in Nat
      <3>1. n \in Bytes
        BY <2>2, <2>3, ReadsInside
      <3> QED
        BY <3>1 DEF Bytes
    <2>5. received.data \in Buffer /\ Reused(received.data)
      BY DEF Inv, Contains
    <2>6. /\ r \in Buffer /\ r.size = n
          /\ r.allocated < n =>
                Shrunk(received.data) /\ n = received.data.buffer_size
      BY <2>4, <2>5, ResizeReuses
    <2>7. ~(r.size <= r.allocated)
      BY <2>1 DEF DecodeOverruns, Holds
    <2>8. r.allocated \in Nat
      BY <2>6 DEF Buffer
    <2> HIDE DEF n, r
    <2>9. r.allocated < n
      BY <2>4, <2>6, <2>7, <2>8
    <2> QED
      BY <2>6, <2>9 DEF n
  <1>3. CASE \E f \in Frames : Compose(f)
    BY <1>3 DEF Compose
  <1>4. CASE EncodeFrame
    BY <1>4 DEF EncodeFrame
  <1>5. CASE \E lost \in Losses : Carry(lost)
    BY <1>5 DEF Carry
  <1>6. ASSUME NEW required \in VariableTypes, DecodePacket(required),
               ~DecodeOverruns(required)
        PROVE  FALSE
    <2>1. defined /\ defined' = defined
      <3>1. CASE DecodeNoPacket(required)
        BY <3>1 DEF DecodeNoPacket
      <3>2. CASE DecodeBadChecksum(required)
        BY <3>2 DEF DecodeBadChecksum, Opens, Returns
      <3>3. CASE DecodeWithoutData(required)
        BY <3>3 DEF DecodeWithoutData, Opens, Returns
      <3>4. CASE DecodeTooShort(required)
        BY <3>4 DEF DecodeTooShort, OpensData, Opens, Returns
      <3>5. CASE DecodeData(required)
        BY <3>5 DEF DecodeData, OpensData, Opens, Returns
      <3> QED
        BY <1>6, <3>1, <3>2, <3>3, <3>4, <3>5 DEF DecodePacket
    <2> QED
      BY <2>1
  <1> QED
    BY <1>1, <1>2, <1>3, <1>4, <1>5, <1>6 DEF Next

(* UOP_Codec::EncodeFrame and DecodePacket, UOP_Buffer::Resize.  Memory is *)
(* overrun only when a buffer grows back to its largest size, or data is   *)
(* written for a layout without data: never because of what arrives alone. *)
THEOREM OverrunCausesHold ==
    ASSUME ChecksumsAreBytes
    PROVE  Spec => OverrunCauses
  <1>1. Inv /\ [Next]_vars =>
          [~defined' =>
             \/ Shrunk(packet) /\ FrameSize(frame) = packet.buffer_size
             \/ HasData(frame) /\ HeaderDef(frame.type).data = NONE
             \/ /\ Shrunk(received.data)
                /\ DataSizeIn(income.bytes) = received.data.buffer_size]_vars
    BY OverrunHasCause
  <1> QED
    BY <1>1, InvHolds, PTL DEF Spec, OverrunCauses

=============================================================================
