------------------------------- MODULE LibCrc --------------------------------
(***************************************************************************)
(* One of the table-driven files of libcrc (crc8.c, crc16.c, crc32.c,      *)
(* crcccitt.c, crcdnp.c, crckrmit.c) with its callers.  The first call     *)
(* fills the table, and a flag says that this has been done.  Callers      *)
(* interrupt one another: the flag may be found clear while another call   *)
(* is filling the table, which is then filled twice, and the constructor   *)
(* of UOP_Codec fills it again whatever the flag says.                     *)
(*                                                                         *)
(* Statements take effect in program order, as the build without           *)
(* optimisation makes them: neither flag nor table is volatile.            *)
(***************************************************************************)
EXTENDS LibCrcBits

CONSTANTS
    Caller,               \* threads, or the application and its interrupts
    Libraries,            \* the files
    Messages,             \* per file: byte strings given to one-pass calls
    UpdateBytes,          \* bytes given to update_crc_x
    MaxLength,            \* bound of the bytes given to update_crc_x in a row
    Parts                 \* the entries filled between two interruptions

(* Every entry is filled.  In which order the code does it (by number) and *)
(* how often it can be interrupted makes no difference.                    *)
ASSUME CrcAssumption ==
    /\ \A file \in Libraries : IsLibrary(file)
    /\ Messages \in [Libraries -> SUBSET Seq(Byte)]
    /\ UpdateBytes \subseteq Byte
    /\ MaxLength \in Nat
    /\ Parts \in Seq(SUBSET Byte)
    /\ \A byte \in Byte : \E n \in DOMAIN Parts : byte \in Parts[n]

VARIABLES
    lib,                  \* the file: CONSTANT, chosen at the start
    table_init,           \* crc_tabx_init
    filled,               \* the parts of crc_tabx that are filled
    pc,                   \* per caller: where it is in its call
    i,                    \* per caller: the part to be filled next
    call,                 \* per caller: what it called last
    rest,                 \* per caller: bytes still to be looked up
    crc,                  \* per caller: the register
    start,                \* history: what crc began with
    fed                   \* history: the bytes looked up since

shared == <<table_init, filled>>
vars   == <<lib, shared, pc, i, call, rest, crc, start, fed>>

(* The table of crc8.c is the one its polynomial gives.                    *)
ASSUME StaticAssumption ==
    \A file \in Libraries : file.static =>
        \A byte \in Byte : StaticTable[byte] = TableEntry(file.poly, byte)

(* What a caller finds in the table: 0 in an entry nobody has filled.      *)
Table(byte) ==
    IF lib.static \/ \E n \in filled : byte \in Parts[n] THEN EntryOf(lib, byte)
    ELSE {}

Init ==
    /\ lib \in Libraries
    /\ table_init = lib.static
    /\ filled = {}
    /\ pc = [p \in Caller |-> "idle"]
    /\ i = [p \in Caller |-> 1]
    /\ call = [p \in Caller |-> "none"]
    /\ rest = [p \in Caller |-> <<>>]
    /\ crc = [p \in Caller |-> {}]
    /\ start = [p \in Caller |-> {}]
    /\ fed = [p \in Caller |-> <<>>]

-----------------------------------------------------------------------------
\* Mutant: the rest of the register is dropped.
EntryAlone(r, byte) == Table(TableIndex(r, byte))

(* One byte by table: the body of every one-pass loop and of update_crc_x. *)
ByTable(r, byte) == Xor(Shift(r, 8), Table(TableIndex(r, byte)))

Go(p, where) == pc' = [pc EXCEPT ![p] = where]

(* A call with the register it starts from and the bytes it is given.      *)
Called(p, kind, from, bytes) ==
    /\ pc[p] = "idle"
    /\ call' = [call EXCEPT ![p] = kind]
    /\ rest' = [rest EXCEPT ![p] = bytes]
    /\ crc' = [crc EXCEPT ![p] = from]
    /\ UNCHANGED <<lib, shared, i>>

(* crc_x(input_str, num_bytes); NULL counts as no bytes.                   *)
OnePass(p, from, bytes) ==
    /\ Called(p, "one_pass", from, bytes)
    /\ start' = [start EXCEPT ![p] = from]
    /\ fed' = [fed EXCEPT ![p] = <<>>]
    /\ Go(p, "check")

(* update_crc_x(crc, c): with a start value, or with what the update       *)
(* before returned.                                                        *)
UpdateFirst(p, from, byte) ==
    /\ Called(p, "update", from, <<byte>>)
    /\ start' = [start EXCEPT ![p] = from]
    /\ fed' = [fed EXCEPT ![p] = <<>>]
    /\ Go(p, "check")

UpdateNext(p, byte) ==
    /\ call[p] = "update" /\ Len(fed[p]) < MaxLength
    /\ Called(p, "update", crc[p], <<byte>>)
    /\ Go(p, "check")
    /\ UNCHANGED <<start, fed>>

(* The constructor of UOP_Codec calls init_crc16_tab and init_crc32_tab.   *)
Construct(p) ==
    /\ lib.constructed
    /\ Called(p, "construct", crc[p], <<>>)
    /\ Go(p, "fill")
    /\ UNCHANGED <<start, fed>>

\* Mutant: the flag is set before the table is filled.
CheckSetsFlag(p) ==
    /\ pc[p] = "check"
    /\ Go(p, IF table_init THEN "bytes" ELSE "fill")
    /\ table_init' = TRUE
    /\ UNCHANGED <<lib, filled, i, call, rest, crc, start, fed>>

Check(p) ==
    /\ pc[p] = "check"
    /\ Go(p, IF table_init THEN "bytes" ELSE "fill")
    /\ UNCHANGED <<lib, shared, i, call, rest, crc, start, fed>>

Fill(p) ==
    /\ pc[p] = "fill"
    /\ i[p] \in DOMAIN Parts
    /\ filled' = filled \cup {i[p]}
    /\ i' = [i EXCEPT ![p] = i[p] + 1]
    /\ UNCHANGED <<lib, table_init, pc, call, rest, crc, start, fed>>

SetFlag(p) ==
    /\ pc[p] = "fill"
    /\ i[p] \notin DOMAIN Parts
    /\ table_init' = TRUE
    /\ i' = [i EXCEPT ![p] = 1]
    /\ Go(p, IF call[p] = "construct" THEN "idle" ELSE "bytes")
    /\ UNCHANGED <<lib, filled, call, rest, crc, start, fed>>

LookUp(p) ==
    /\ pc[p] = "bytes"
    /\ rest[p] # <<>>
    /\ crc' = [crc EXCEPT ![p] = ByTable(crc[p], Head(rest[p]))]
    /\ fed' = [fed EXCEPT ![p] = Append(fed[p], Head(rest[p]))]
    /\ rest' = [rest EXCEPT ![p] = Tail(rest[p])]
    /\ UNCHANGED <<lib, shared, pc, i, call, start>>

Return(p) ==
    /\ pc[p] = "bytes"
    /\ rest[p] = <<>>
    /\ crc' = [crc EXCEPT ![p] = IF call[p] = "one_pass" THEN Finish(lib, crc[p])
                                 ELSE crc[p]]
    /\ Go(p, "idle")
    /\ UNCHANGED <<lib, shared, i, call, rest, start, fed>>

CallStep(p) ==
    \/ \E from \in lib.starts, bytes \in Messages[lib] : OnePass(p, from, bytes)
    \/ \E from \in lib.starts, byte \in UpdateBytes : UpdateFirst(p, from, byte)
    \/ \E byte \in UpdateBytes : UpdateNext(p, byte)
    \/ Construct(p)

Step(p) ==
    Check(p) \/ Fill(p) \/ SetFlag(p) \/ LookUp(p) \/ Return(p)

Next == \E p \in Caller : CallStep(p) \/ Step(p)

Spec == Init /\ [][Next]_vars

-----------------------------------------------------------------------------
(* Every variable has its type; registers keep to their width.             *)
TypeOK ==
    /\ lib \in Libraries
    /\ table_init \in BOOLEAN
    /\ filled \subseteq DOMAIN Parts
    /\ pc \in [Caller -> {"idle", "check", "fill", "bytes"}]
    /\ i \in [Caller -> 1..Len(Parts) + 1]
    /\ call \in [Caller -> {"none", "one_pass", "update", "construct"}]
    /\ rest \in [Caller -> Seq(Byte)]
    /\ crc \in [Caller -> Register(lib)]
    /\ start \in [Caller -> Register(lib)]
    /\ fed \in [Caller -> Seq(Byte)]

(* Whoever looks a byte up finds it in the table, whoever was filling the  *)
(* table at the same time, and however often it has been filled before.    *)
LookUpsAreFilled ==
    \A p \in Caller : pc[p] = "bytes" /\ rest[p] # <<>> =>
        LET byte == TableIndex(crc[p], Head(rest[p]))
        IN  Table(byte) = TableEntry(lib.poly, byte)

(* The bits in which two byte strings of one length differ, numbered as    *)
(* the division takes them.                                                *)
WrongBits(s, t) ==
    UNION {{8 * (n - 1) + b : b \in Xor(s[n], t[n])} : n \in DOMAIN s}

(* What a CRC is for: the results of two calls differ if their strings do  *)
(* and all wrong bits lie within the length of the register, wherever in   *)
(* the strings that is and however many they are.                          *)
Checked(p) == pc[p] = "idle" /\ call[p] = "one_pass"

ErrorsShow ==
    \A p, q \in Caller :
        LET wrong == WrongBits(fed[p], fed[q])
        IN  (/\ Checked(p) /\ Checked(q) /\ start[p] = start[q]
             /\ Len(fed[p]) = Len(fed[q]) /\ wrong # {}
             /\ \A x, y \in wrong : x - y < lib.width)
            => crc[p] # crc[q]

-----------------------------------------------------------------------------
(* The table does not show: the file divides its callers' bytes one bit at *)
(* a time.                                                                 *)
Serial == INSTANCE LibCrcSerial
            WITH call <- [p \in Caller |-> IF pc[p] = "idle" THEN "none"
                                           ELSE call[p]]

SerialSpec == Serial!Spec

=============================================================================
