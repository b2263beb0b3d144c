------------------------------ MODULE UOP_Buffer ------------------------------
(***************************************************************************)
(* Class UOP_Buffer: memory that is used again for contents of different   *)
(* sizes.  A buffer is a value here; the objects that own buffers keep     *)
(* them in their variables.                                                *)
(***************************************************************************)
EXTENDS Integers, Sequences

Bytes == 0..255

(* allocated is the length of the memory itself, which the class does not  *)
(* record: buffer_size is the largest size it ever had.                    *)
Buffer == [allocated : Nat, buffer_size : Nat, size : Nat, bytes : Seq(Bytes)]

(* A constructed buffer.                                                   *)
Empty == [allocated |-> 0, buffer_size |-> 0, size |-> 0, bytes |-> <<>>]

Larger(a, b) == IF a > b THEN a ELSE b

\* Mutant: memory is allocated only once.
AllocatesFirst(b, size, shrink) == b.buffer_size = 0 /\ size > 0

\* Mutant: the size of the contents is taken for that of the memory.
AllocatesByContents(b, size, shrink) ==
    size > b.size \/ (size < b.size /\ shrink)

Allocates(b, size, shrink) ==
    size > b.buffer_size \/ (size < b.buffer_size /\ shrink)

\* Mutant: the size is set only when memory is allocated.
ResizeReturnsEarly(b, size, shrink) ==
    IF Allocates(b, size, shrink)
    THEN [b EXCEPT !.allocated = size,
                   !.buffer_size = Larger(size, @),
                   !.size = size]
    ELSE b

(* Resize(size, shrink).  The new memory is not initialised: its contents  *)
(* are what the caller writes, or garbage.                                 *)
Resize(b, size, shrink) ==
    [b EXCEPT !.allocated = IF Allocates(b, size, shrink) THEN size ELSE @,
              !.buffer_size = Larger(size, @),
              !.size = size]

(* Write(data, size): shrink is false unless the caller says otherwise,    *)
(* and nobody does.                                                        *)
Write(b, data) ==
    [Resize(b, Len(data), FALSE) EXCEPT !.bytes = data]

(* All of the contents lie in the memory.                                  *)
Holds(b) == b.size <= b.allocated

(* A shrink has left the memory smaller than the class believes.           *)
Shrunk(b) == b.allocated < b.buffer_size

=============================================================================
