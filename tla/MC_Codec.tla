------------------------------- MODULE MC_Codec -------------------------------
(* Instances of UOP_Codec for TLC.                                         *)
EXTENDS UOP_Codec, SequencesExt

Plain(bytes) == FoldLeft(LAMBDA sum, byte : sum + byte, 0, bytes)
Weighted(bytes) == FoldLeft(LAMBDA sum, byte : (3 * sum + byte) % 65536, 7, bytes)

(* Sums in place of the checksums, of the same widths; only that of the    *)
(* CRCs depends on the order of the bytes.                                 *)
MCChecksum(type, bytes) ==
    CASE type = XOR  -> Plain(bytes) % 256
      [] type = CRC8 -> Weighted(bytes) % 256
      [] OTHER       -> Weighted(bytes)

MCFrame(type, flags, cmd, n, data) ==
    [type |-> type, flags |-> flags, cmd |-> cmd, src |-> 162, dsc |-> 93,
     sn |-> 300, data_size |-> n, data |-> data]

(* With and without data; too little of it and more than wanted; fields    *)
(* that look like markers or do not fit into a byte; types without layout. *)
MCFrames ==
    {MCFrame(TypeA, 28, 170, 0, <<>>),
     MCFrame(TypeA, 0, 257, 1, <<5>>),
     MCFrame(TypeB, 28, 170, 0, <<>>),
     MCFrame(TypeB, 0, 93, 1, <<170, 6>>),
     MCFrame(TypeB, 28, 1, 1, <<>>),
     MCFrame(TypeC, 0, 1, 0, <<>>)}

=============================================================================
