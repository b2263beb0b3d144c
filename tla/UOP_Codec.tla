------------------------------ MODULE UOP_Codec ------------------------------
(***************************************************************************)
(* Class UOP_Codec.  An application fills in a frame and encodes it into   *)
(* a packet; the packet goes to the receiver, who decodes it into a frame  *)
(* of his own.  Both frames and the sender's packet are used again and     *)
(* again; the receiver takes a new packet for each one that comes, and is  *)
(* done with it before the sender fills in another frame.                  *)
(*                                                                         *)
(* A packet is a sequence of bytes, so that what the decoder takes for a   *)
(* marker, a flag or a size is decided by their values, as in the code.    *)
(* Checksums are any functions of the bytes.                               *)
(***************************************************************************)
EXTENDS UOP_Buffer

CONSTANTS
    Frames,               \* what the application fills in
    KeepFlags,            \* may it leave the flags of the frame before?
    Garbage,              \* bytes found in memory that was not written
    Losses,               \* how many bytes may be lost at the front
    WrongBytes,           \* what may arrive in place of a byte
    Checksum(_, _),       \* GetChecksum: checksum type, bytes
    Unknown               \* see UOP_FrameChannel

(* UOP_Variable_Type, UOP_Checksum_Type and UOP_Header_Type with their     *)
(* values: the code compares and casts them.                               *)
NONE == 0
U8 == 1
U16 == 2
U32 == 3

XOR == 0
CRC8 == 1
CRC16 == 2
CRC32 == 3

TypeA == 170
TypeB == 162
TypeC == 42
TypeD == 34
MarkerPreambule == 170

VariableTypes == {NONE, U8, U16, U32}
HeaderTypes == {TypeA, TypeB, TypeC, TypeD}

(* What the application writes into a UOP_Frame.  The flags are its own    *)
(* (ACK, ST, SP, AR): Z is '0', DZ and CS are the encoder's.               *)
OwnFlags == {4 * n : n \in 0..15}

FrameType ==
    [type : HeaderTypes, flags : OwnFlags, cmd : Nat, src : Nat, dsc : Nat,
     sn : Nat, data_size : Nat, data : Seq(Bytes)]

ASSUME CodecAssumption ==
    /\ Frames \subseteq FrameType
    /\ KeepFlags \in BOOLEAN
    /\ Garbage \subseteq Bytes
    /\ Losses \subseteq Nat
    /\ WrongBytes \subseteq Bytes

(* GetChecksumXOR and crc_8 return bytes.  Not an ASSUME, because TLC      *)
(* cannot evaluate it: theorems that need it say so.                       *)
ChecksumsAreBytes ==
    \A type \in {XOR, CRC8} : \A bytes \in Seq(Bytes) :
        Checksum(type, bytes) \in Bytes

VARIABLES
    frame,                \* the sender's UOP_Frame; data is a Buffer
    packet,               \* packet.buffer of the sender
    income,               \* packet.buffer of the receiver
    received,             \* the receiver's UOP_Frame
    ok,                   \* what the last DecodePacket returned
    defined,              \* FALSE after memory has been overrun
    sent,                 \* history: what packet is known to carry
    arrived               \* history: what income is known to carry

vars == <<frame, packet, income, received, ok, defined, sent, arrived>>

Fields ==
    [flags : Nat, cmd : Nat, src : Nat, dsc : Nat, sn : Nat,
     data_size : Nat, data : Buffer]

NoFields ==
    [flags |-> 0, cmd |-> 0, src |-> 0, dsc |-> 0, sn |-> 0,
     data_size |-> 0, data |-> Empty]

(* What a packet carries, if that is known, and the strongest marker the   *)
(* decoder must recognise it by; Garbled if it may as well refuse it.      *)
Garbled == -1
Nothing == [content |-> Unknown, marker |-> Garbled]

-----------------------------------------------------------------------------
(* Layouts.  UOP_Header_C and UOP_Header_D are declared and never filled   *)
(* in.                                                                     *)
HeaderDef(type) ==
    CASE type = TypeA -> [checksum |-> XOR, marker |-> U32, flags |-> U8,
                          cmd |-> U8, src |-> U8, dsc |-> U8, sn |-> U8,
                          data_size |-> NONE, data |-> NONE]
      [] type = TypeB -> [checksum |-> CRC8, marker |-> U8, flags |-> U8,
                          cmd |-> U8, src |-> U8, dsc |-> U8, sn |-> U8,
                          data_size |-> U8, data |-> U8]
      [] OTHER        -> [checksum |-> XOR, marker |-> NONE, flags |-> NONE,
                          cmd |-> NONE, src |-> NONE, dsc |-> NONE,
                          sn |-> NONE, data_size |-> NONE, data |-> NONE]

TypeSize(type) ==
    CASE type = U8 -> 1 [] type = U16 -> 2 [] type = U32 -> 4 [] OTHER -> 0

ChecksumVariableType(type) ==
    CASE type = CRC16 -> U16 [] type = CRC32 -> U32 [] OTHER -> U8

HeaderSize(h) ==
    TypeSize(h.flags) + TypeSize(h.cmd) + TypeSize(h.src) + TypeSize(h.dsc)
        + TypeSize(h.sn) + TypeSize(h.data_size)
        + TypeSize(ChecksumVariableType(h.checksum))

FrameSize(f) ==
    LET h == HeaderDef(f.type)
    IN  TypeSize(h.marker) + HeaderSize(h) + TypeSize(h.data) * f.data_size

(* WriteValueToArray and ReadValueFromArray: little-endian, cut to type.   *)
ToBytes(value, type) ==
    CASE type = U8  -> <<value % 256>>
      [] type = U16 -> <<value % 256, (value \div 256) % 256>>
      [] type = U32 -> <<value % 256, (value \div 256) % 256,
                         (value \div 65536) % 256, (value \div 16777216) % 256>>
      [] OTHER      -> <<>>

ReadValue(bytes, p, type) ==
    CASE type = U8  -> bytes[p]
      [] type = U16 -> bytes[p] + 256 * bytes[p + 1]
      [] type = U32 -> bytes[p] + 256 * bytes[p + 1] + 65536 * bytes[p + 2]
                           + 16777216 * bytes[p + 3]
      [] OTHER      -> 0

(* The bytes with those from position p on replaced.                       *)
Overwrite(bytes, p, new) ==
    [i \in DOMAIN bytes |->
        IF i \in p..p + Len(new) - 1 THEN new[i - p + 1] ELSE bytes[i]]

(* The checksum leaves out the marker up to its last byte, which is the    *)
(* complement of the type: so it does not change when the preamble is lost.*)
ChecksumOffset(markerType) ==
    CASE markerType = U32 -> 3 [] markerType = U16 -> 1 [] OTHER -> 0

\* Mutant: the checksum leaves out the last byte.
SumWithoutLast(type, bytes, offset) ==
    Checksum(type, SubSeq(bytes, offset + 1, Len(bytes) - 1))

Sum(type, bytes, offset) ==
    Checksum(type, SubSeq(bytes, offset + 1, Len(bytes)))

-----------------------------------------------------------------------------
(* Flags.                                                                  *)
DataZero(flags) == (flags \div 128) % 2 = 1
ChecksumBits(flags) == flags % 4

OrBit(flags, bit) == IF (flags \div bit) % 2 = 1 THEN flags ELSE flags + bit

OrChecksum(flags, type) ==
    CASE type = XOR   -> flags
      [] type = CRC8  -> OrBit(flags, 1)
      [] type = CRC16 -> OrBit(flags, 2)
      [] OTHER        -> OrBit(OrBit(flags, 1), 2)

(* The flags of the frame after EncodeFrame: bits are added to those the   *)
(* caller has left there, none is taken away.                              *)
EncodedFlags(f) ==
    OrChecksum(IF f.data_size = 0 THEN OrBit(f.flags, 128) ELSE f.flags,
               HeaderDef(f.type).checksum)

-----------------------------------------------------------------------------
(* The encoder.                                                            *)
Marker(type, markerType) ==
    CASE markerType = U8  -> <<type>>
      [] markerType = U16 -> <<type, 255 - type>>
      [] markerType = U32 -> <<MarkerPreambule, MarkerPreambule, type, 255 - type>>
      [] OTHER            -> <<>>

HeaderBytes(f) ==
    LET h == HeaderDef(f.type)
    IN  Marker(f.type, h.marker)
            \o ToBytes(f.flags, h.flags) \o ToBytes(f.cmd, h.cmd)
            \o ToBytes(f.src, h.src) \o ToBytes(f.dsc, h.dsc)
            \o ToBytes(f.sn, h.sn)

(* A frame says how much data it has; data is written if there is so much. *)
HasData(f) == f.data_size # 0 /\ f.data.size >= f.data_size

DataField(f) ==
    ToBytes(f.data_size, HeaderDef(f.type).data_size)
        \o SubSeq(f.data.bytes, 1, f.data_size)

ChecksumField(f) ==
    ToBytes(0, ChecksumVariableType(HeaderDef(f.type).checksum))

(* The size byte of a frame without data and all of the data of a frame    *)
(* that has too little are not written.                                    *)
Unwritten(f) ==
    IF HasData(f) THEN 0
    ELSE FrameSize(f) - Len(HeaderBytes(f)) - Len(ChecksumField(f))

(* What EncodeFrame has written before it fills in the checksum; rest is   *)
(* what it has not written.                                                *)
Unsealed(f, rest) ==
    HeaderBytes(f) \o ChecksumField(f) \o (IF HasData(f) THEN DataField(f) ELSE rest)

\* Mutant: the checksum covers the marker.
SealedWithMarker(f, rest) ==
    LET h == HeaderDef(f.type)
    IN  Overwrite(Unsealed(f, rest), Len(HeaderBytes(f)) + 1,
                  ToBytes(Sum(h.checksum, Unsealed(f, rest), 0),
                          ChecksumVariableType(h.checksum)))

Sealed(f, rest) ==
    LET h == HeaderDef(f.type)
    IN  Overwrite(Unsealed(f, rest), Len(HeaderBytes(f)) + 1,
                  ToBytes(Sum(h.checksum, Unsealed(f, rest), ChecksumOffset(h.marker)),
                          ChecksumVariableType(h.checksum)))

(* What a packet carries: the fields, as far as they fit into a byte, and  *)
(* as much of the data as the size byte says.  A frame with too little     *)
(* data carries garbage, and one of a type without layout nothing.         *)
Carried(f) ==
    IF f.type \notin {TypeA, TypeB} \/ (f.data_size # 0 /\ ~HasData(f))
    THEN Nothing
    ELSE [content |->
             [flags |-> f.flags % 256, cmd |-> f.cmd % 256, src |-> f.src % 256,
              dsc |-> f.dsc % 256, sn |-> f.sn % 256,
              data |-> SubSeq(f.data.bytes, 1, f.data_size % 256)],
          marker |-> HeaderDef(f.type).marker]

(* A frame the application has filled in.                                  *)
Composed(f, flags, data) == [f EXCEPT !.flags = flags, !.data = Write(data, f.data)]

Init ==
    /\ \E f \in Frames : frame = Composed(f, f.flags, Empty)
    /\ packet = Empty
    /\ income = Empty
    /\ received = NoFields
    /\ ok = FALSE
    /\ defined = TRUE
    /\ sent = Nothing
    /\ arrived = Nothing

Compose(f) ==
    /\ defined
    /\ \E flags \in {f.flags} \cup (IF KeepFlags THEN {frame.flags} ELSE {}) :
          frame' = Composed(f, flags, frame.data)
    /\ income' = Empty
    /\ arrived' = Nothing
    /\ UNCHANGED <<packet, received, ok, defined, sent>>

(* The last byte EncodeFrame touches: it reads the whole packet for the    *)
(* checksum, and writes data even where the layout has none.               *)
Extent(f) ==
    Larger(FrameSize(f),
           Len(HeaderBytes(f)) + Len(ChecksumField(f))
               + (IF HasData(f) THEN Len(DataField(f)) ELSE 0))

Resized == Resize(packet, FrameSize(frame), TRUE)

EncodeFrame ==
    LET f == [frame EXCEPT !.flags = EncodedFlags(frame)]
    IN  /\ defined
        /\ Extent(frame) <= Resized.allocated
        /\ frame' = f
        /\ \E rest \in [1..Unwritten(f) -> Garbage] :
              packet' = [Resized EXCEPT !.bytes = Sealed(f, rest)]
        /\ sent' = Carried(f)
        /\ UNCHANGED <<income, received, ok, defined, arrived>>

Overrun ==
    /\ defined
    /\ defined' = FALSE
    /\ UNCHANGED <<frame, packet, income, received, ok, sent, arrived>>

EncodeFrameOverruns ==
    /\ Extent(frame) > Resized.allocated
    /\ Overrun

-----------------------------------------------------------------------------
(* The packet is carried to the receiver, who puts it into a new one; the  *)
(* first bytes may be lost while he is not yet listening.  Two bytes of    *)
(* preamble are there to be lost.  The bytes of a marker that has lost its *)
(* beginning, and the flags after it, are no marker; what remains of a     *)
(* type A packet without its first byte, or of any packet that has lost    *)
(* more, may look like another packet: then only the checksum can tell.    *)
Survives(markerType, lost) ==
    CASE markerType = U32 -> lost \in {0, 2, 3, 4}
      [] markerType = U8  -> lost \in {0, 1}
      [] OTHER            -> FALSE

Carry(lost) ==
    /\ defined
    /\ lost < packet.size
    /\ income' = Write(Empty, SubSeq(packet.bytes, lost + 1, packet.size))
    /\ arrived' =
          [content |-> IF Survives(sent.marker, lost) THEN sent.content ELSE Unknown,
           marker |-> CASE lost = 0 -> sent.marker
                        [] lost = 2 /\ sent.marker = U32 -> U16
                        [] OTHER -> Garbled]
    /\ UNCHANGED <<frame, packet, received, ok, defined, sent>>

-----------------------------------------------------------------------------
(* The decoder.  The marker it finds: four bytes with a preamble of two or *)
(* more, a type and its complement, or a type alone.                       *)
IsValueMarker(byte) == byte \in HeaderTypes

IsPair(bytes, p) == bytes[p] = 255 - bytes[p + 1] /\ IsValueMarker(bytes[p])

MarkerType(bytes) ==
    IF bytes[1] = MarkerPreambule /\ bytes[2] = MarkerPreambule /\ IsPair(bytes, 3)
    THEN U32
    ELSE IF IsPair(bytes, 1) THEN U16
    ELSE IF IsValueMarker(bytes[1]) THEN U8
    ELSE NONE

TypeIn(bytes) == IF MarkerType(bytes) = U32 THEN bytes[3] ELSE bytes[1]

HeaderIn(bytes) == HeaderDef(TypeIn(bytes))

(* Is there a packet to decode: a marker as strong as the caller wants,    *)
(* and room for the header behind it?                                      *)
IsPacket(bytes, required) ==
    /\ Len(bytes) >= 4
    /\ MarkerType(bytes) # NONE
    /\ MarkerType(bytes) >= required
    /\ Len(bytes) - TypeSize(MarkerType(bytes)) >= HeaderSize(HeaderIn(bytes))

(* Where the fields are, in the order in which they are read.              *)
FlagsAt(bytes) == TypeSize(MarkerType(bytes)) + 1
CmdAt(bytes) == FlagsAt(bytes) + TypeSize(HeaderIn(bytes).flags)
SrcAt(bytes) == CmdAt(bytes) + TypeSize(HeaderIn(bytes).cmd)
DscAt(bytes) == SrcAt(bytes) + TypeSize(HeaderIn(bytes).src)
SnAt(bytes) == DscAt(bytes) + TypeSize(HeaderIn(bytes).dsc)
ChecksumAt(bytes) == SnAt(bytes) + TypeSize(HeaderIn(bytes).sn)
DataSizeAt(bytes) ==
    ChecksumAt(bytes) + TypeSize(ChecksumVariableType(HeaderIn(bytes).checksum))
DataAt(bytes) == DataSizeAt(bytes) + TypeSize(HeaderIn(bytes).data_size)

FlagsIn(bytes) == ReadValue(bytes, FlagsAt(bytes), HeaderIn(bytes).flags)

DataSizeIn(bytes) == ReadValue(bytes, DataSizeAt(bytes), HeaderIn(bytes).data_size)

(* The packet with its checksum field set to zero, as the decoder leaves   *)
(* it behind.                                                              *)
Zeroed(bytes) ==
    Overwrite(bytes, ChecksumAt(bytes),
              ToBytes(0, ChecksumVariableType(HeaderIn(bytes).checksum)))

(* The flags say which checksum to compute, the layout how many bytes to   *)
(* compare it with.                                                        *)
ChecksumMatches(bytes) ==
    Sum(ChecksumBits(FlagsIn(bytes)), Zeroed(bytes), ChecksumOffset(MarkerType(bytes)))
        = ReadValue(bytes, ChecksumAt(bytes),
                    ChecksumVariableType(HeaderIn(bytes).checksum))

(* The fields before the checksum go into the receiver's frame before it   *)
(* is compared.                                                            *)
FieldsRead(bytes) ==
    LET h == HeaderIn(bytes)
    IN  [received EXCEPT !.flags = FlagsIn(bytes),
                         !.cmd = ReadValue(bytes, CmdAt(bytes), h.cmd),
                         !.src = ReadValue(bytes, SrcAt(bytes), h.src),
                         !.dsc = ReadValue(bytes, DscAt(bytes), h.dsc),
                         !.sn = ReadValue(bytes, SnAt(bytes), h.sn)]

Opens(required) == defined /\ IsPacket(income.bytes, required)

(* DecodePacket leaves the packet with its checksum zeroed: it will not be *)
(* accepted again.                                                         *)
Returns(result) ==
    /\ ok' = result
    /\ income' = [income EXCEPT !.bytes = Zeroed(@)]
    /\ arrived' = [arrived EXCEPT !.marker = Garbled]
    /\ UNCHANGED <<frame, packet, defined, sent>>

DecodeNoPacket(required) ==
    /\ defined
    /\ ~IsPacket(income.bytes, required)
    /\ ok' = FALSE
    /\ UNCHANGED <<frame, packet, income, received, defined, sent, arrived>>

DecodeBadChecksum(required) ==
    /\ Opens(required)
    /\ ~ChecksumMatches(income.bytes)
    /\ received' = FieldsRead(income.bytes)
    /\ Returns(FALSE)

\* Mutant: a frame without data keeps the data before.
WithoutDataAsBefore(fields) == [fields EXCEPT !.data_size = fields.data.size]

WithoutData(fields) == [fields EXCEPT !.data_size = 0]

DecodeWithoutData(required) ==
    /\ Opens(required)
    /\ ChecksumMatches(income.bytes)
    /\ DataZero(FlagsIn(income.bytes))
    /\ received' = WithoutData(FieldsRead(income.bytes))
    /\ Returns(TRUE)

OpensData(required) ==
    /\ Opens(required)
    /\ ChecksumMatches(income.bytes)
    /\ ~DataZero(FlagsIn(income.bytes))

IsComplete(bytes) == DataSizeIn(bytes) <= Len(bytes) - DataAt(bytes) + 1

DecodeTooShort(required) ==
    /\ OpensData(required)
    /\ ~IsComplete(income.bytes)
    /\ received' = [FieldsRead(income.bytes) EXCEPT !.data_size = DataSizeIn(income.bytes)]
    /\ Returns(FALSE)

DecodeData(required) ==
    LET bytes == income.bytes
        n == DataSizeIn(bytes)
        data == Resize(received.data, n, TRUE)
    IN  /\ OpensData(required)
        /\ IsComplete(bytes)
        /\ Holds(data)
        /\ received' =
              [FieldsRead(bytes) EXCEPT
                  !.data_size = n,
                  !.data = [data EXCEPT
                      !.bytes = SubSeq(bytes, DataAt(bytes), DataAt(bytes) + n - 1)]]
        /\ Returns(TRUE)

DecodeOverruns(required) ==
    /\ OpensData(required)
    /\ IsComplete(income.bytes)
    /\ ~Holds(Resize(received.data, DataSizeIn(income.bytes), TRUE))
    /\ Overrun

DecodePacket(required) ==
    \/ DecodeNoPacket(required)
    \/ DecodeBadChecksum(required)
    \/ DecodeWithoutData(required)
    \/ DecodeTooShort(required)
    \/ DecodeData(required)
    \/ DecodeOverruns(required)

Next ==
    \/ \E f \in Frames : Compose(f)
    \/ EncodeFrame
    \/ EncodeFrameOverruns
    \/ \E lost \in Losses : Carry(lost)
    \/ \E required \in VariableTypes : DecodePacket(required)

Spec == Init /\ [][Next]_vars

-----------------------------------------------------------------------------
(* Every object has its type, and a buffer as many bytes of contents as it *)
(* says.                                                                   *)
TypeOK ==
    /\ frame \in [type : HeaderTypes, flags : Nat, cmd : Nat, src : Nat, dsc : Nat,
                  sn : Nat, data_size : Nat, data : Buffer]
    /\ packet \in Buffer
    /\ income \in Buffer
    /\ received \in Fields
    /\ \A b \in {frame.data, packet, income, received.data} : Len(b.bytes) = b.size
    /\ ok \in BOOLEAN
    /\ defined \in BOOLEAN

(* UOP_Buffer::Resize and Write.  A buffer that is only written to, as     *)
(* Write does by default, has the memory it says it has, so nothing is     *)
(* ever written past its end.  One that is resized, as the codec does, has *)
(* it except when its size is back at the largest it ever had.             *)
BuffersHold ==
    /\ \A b \in {frame.data, income} : b.size <= b.buffer_size /\ ~Shrunk(b)
    /\ \A b \in {packet, received.data} :
          /\ b.size <= b.buffer_size /\ b.allocated <= b.buffer_size
          /\ b.size < b.buffer_size => b.allocated = b.size

(* UOP_Codec::EncodeFrame and DecodePacket.  Memory is overrun by nothing  *)
(* else than a buffer that grows back to its largest size after a smaller  *)
(* one, and data in a frame whose layout has no data.                      *)
OverrunCauses ==
    [][~defined' =>
          \/ Shrunk(packet) /\ FrameSize(frame) = packet.buffer_size
          \/ HasData(frame) /\ HeaderDef(frame.type).data = NONE
          \/ /\ Shrunk(received.data)
             /\ DataSizeIn(income.bytes) = received.data.buffer_size]_vars

(* UOP_Codec::DecodePacket.  A packet as the encoder has made it, or one   *)
(* that has lost its preamble, is accepted by whoever does not ask for     *)
(* more marker than is left of it; whatever the frames and packets were    *)
(* used for before.                                                        *)
IntactIsAccepted ==
    [][\A required \in VariableTypes :
          required <= arrived.marker /\ DecodePacket(required)
              => ok' \/ ~defined']_vars

(* UOP_Codec::GetChecksum, DecodePacket.  What the checksum is for: if any  *)
(* one byte of a packet that would be accepted had arrived as another one, *)
(* from the flags to the end, it would have been refused - unless the      *)
(* flags then ask for another checksum or are taken for a part of the      *)
(* marker.                                                                 *)
WrongByteIsRefused ==
    arrived.marker # Garbled =>
        \A p \in FlagsAt(income.bytes)..income.size :
        \A byte \in WrongBytes \ {income.bytes[p]} :
            LET bytes == [income.bytes EXCEPT ![p] = byte]
            IN  /\ MarkerType(bytes) = MarkerType(income.bytes)
                /\ ChecksumBits(FlagsIn(bytes)) = ChecksumBits(FlagsIn(income.bytes))
                => ~ChecksumMatches(bytes)

(* The flags tell the receiver whether there is data, and which checksum   *)
(* to compute: UOP_Codec.h, UOP_Flags_DZ_Mask.                             *)
DataZeroMeansNoData ==
    [][EncodeFrame => (DataZero(frame'.flags) <=> frame.data_size = 0)]_vars

-----------------------------------------------------------------------------
(* Encoder and decoder implement the abstract channel: what is accepted is *)
(* what was sent.                                                          *)
Content ==
    [flags : Bytes, cmd : Bytes, src : Bytes, dsc : Bytes, sn : Bytes,
     data : Seq(Bytes)]

Received ==
    [flags |-> received.flags, cmd |-> received.cmd, src |-> received.src,
     dsc |-> received.dsc, sn |-> received.sn,
     data |-> SubSeq(received.data.bytes, 1, received.data_size)]

Channel == INSTANCE UOP_FrameChannel
              WITH packed <- sent.content, carried <- arrived.content,
                   received <- IF ok THEN Received ELSE Unknown

FrameChannelSpec == Channel!Spec

=============================================================================
