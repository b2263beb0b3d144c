---------------------------- MODULE UOP_Registry ----------------------------
(***************************************************************************)
(* Class UOP as a registry of adapters, and who ends an adapter: the list  *)
(* holds addresses, the destructor of UOP runs the destructors of what is  *)
(* at these addresses, and the application runs them as well - at the end  *)
(* of a scope, or by delete.  A place in memory is used again.             *)
(*                                                                         *)
(* Undefined behaviour ends the model.  What the application has to do to  *)
(* keep out of it is nowhere written down; broken records where it did     *)
(* not, judged by what it knows: the calls it made and what they returned. *)
(***************************************************************************)
EXTENDS Integers, FiniteSets, SequencesExt

CONSTANTS
    Place,                \* where an adapter may stand in memory
    NULL,
    AdaptersList_Max_Size,
    MaxLength,            \* bound of the list
    MaxAllocated          \* bound of the buffers

ASSUME RegistryAssumption ==
    /\ IsFiniteSet(Place) /\ NULL \notin Place
    /\ AdaptersList_Max_Size \in Nat \ {0}
    /\ MaxLength \in Nat
    /\ MaxAllocated \in Nat

VARIABLES
    AdaptersVector,
    capacity,             \* what AdaptersVector.capacity() returns
    open,                 \* has the UOP not been destroyed?
    object,               \* per place: free, live, or dead: destroyed by
                          \* the UOP, and its memory not returned
    output,               \* per place: output.buffer: none, of 0 bytes, of more
    allocated,            \* buffers that were allocated and not deleted
    undefined,
    registered,           \* history: added and not removed, as the application
                          \* was told
    broken,               \* history: the rules that were not kept
    lost                  \* history: the calls that leave a buffer behind

entries == <<AdaptersVector, capacity, open>>
heap == <<object, output, allocated>>
vars == <<entries, heap, undefined, registered, broken, lost>>

Init ==
    /\ AdaptersVector = <<>>
    /\ capacity = AdaptersList_Max_Size
    /\ open = TRUE
    /\ object = [a \in Place |-> "free"]
    /\ output = [a \in Place |-> "none"]
    /\ allocated = 0
    /\ undefined = FALSE
    /\ registered = {}
    /\ broken = {}
    /\ lost = {}

Live(a) == a \in Place /\ object[a] = "live"
Ended(a) == a \in Place /\ object[a] # "live"
Entries == Range(AdaptersVector)

(* The buffers of some adapters: input.buffer of each, output.buffer if    *)
(* there is one.                                                           *)
Buffers(S) == Cardinality(S) + Cardinality({a \in S : output[a] # "none"})

-----------------------------------------------------------------------------
(* An adapter is constructed, on its own or by AddNewAdapter.              *)
Constructed(a) ==
    /\ ~undefined
    /\ object[a] = "free"
    /\ allocated < MaxAllocated
    /\ object' = [object EXCEPT ![a] = "live"]
    /\ output' = [output EXCEPT ![a] = "none"]
    /\ allocated' = allocated + 1

Construct(a) ==
    /\ Constructed(a)
    /\ UNCHANGED <<entries, undefined, registered, broken, lost>>

(* Nothing in the code stops a call of what is no more.                    *)
Misuse(rule) ==
    /\ ~undefined
    /\ undefined' = TRUE
    /\ broken' = broken \cup {rule}
    /\ UNCHANGED <<entries, heap, registered, lost>>

(* A call of an adapter that has ended.  ~UOP_Adapter leaves the addresses *)
(* of the buffers it deletes, and a packet or a byte goes there.           *)
UseEnded(a) == ~Live(a) /\ Misuse("used after its end")

(* DefaultInit is public: called again it forgets the input buffer.        *)
DefaultInit(a) ==
    /\ ~undefined
    /\ Live(a)
    /\ allocated < MaxAllocated
    /\ allocated' = allocated + 1
    /\ lost' = lost \cup {"DefaultInit called again"}
    /\ UNCHANGED <<entries, object, output, undefined, registered, broken>>

\* Mutant: the buffer of the packet before is not deleted.
OutputWriteKeeps(a, size) ==
    /\ ~undefined
    /\ Live(a)
    /\ allocated < MaxAllocated
    /\ allocated' = allocated + 1
    /\ output' = [output EXCEPT ![a] = size]
    /\ lost' = IF size = "empty" THEN lost \cup {"empty packet"} ELSE lost
    /\ UNCHANGED <<entries, object, undefined, registered, broken>>

(* BufferType::Write of a packet that WritePacket accepts: the buffer of   *)
(* the one before is deleted unless that was empty.                        *)
OutputWrite(a, size) ==
    /\ ~undefined
    /\ Live(a)
    /\ allocated < MaxAllocated
    /\ allocated' = IF output[a] = "some" THEN allocated ELSE allocated + 1
    /\ output' = [output EXCEPT ![a] = size]
    /\ lost' = IF size = "empty" THEN lost \cup {"empty packet"} ELSE lost
    /\ UNCHANGED <<entries, object, undefined, registered, broken>>

(* The application ends an adapter.                                        *)
Destroy(a) ==
    /\ ~undefined
    /\ object[a] = "live"
    /\ object' = [object EXCEPT ![a] = "free"]
    /\ output' = [output EXCEPT ![a] = "none"]
    /\ allocated' = allocated - Buffers({a})
    /\ broken' = IF a \in registered
                 THEN broken \cup {"destroyed while registered"} ELSE broken
    /\ UNCHANGED <<entries, undefined, registered, lost>>

(* It has ended already, by the UOP or by the application: ~UOP_Adapter    *)
(* deletes the same buffers again.                                         *)
DestroyAgain(a) == ~Live(a) /\ Misuse("destroyed again")

-----------------------------------------------------------------------------
\* Mutant: a full list keeps its capacity.
GrownNot == capacity

(* push_back: a vector that is full grows.                                 *)
Grown ==
    IF Len(AdaptersVector) = capacity THEN 2 * capacity ELSE capacity

\* Mutant: a full list gives up its last entry.
AppendedInPlace(adapter) ==
    IF Len(AdaptersVector) = capacity
    THEN [AdaptersVector EXCEPT ![capacity] = adapter]
    ELSE Append(AdaptersVector, adapter)

\* Mutant: the newest adapter comes first.
AppendedInFront(adapter) == <<adapter>> \o AdaptersVector

Appended(adapter) == Append(AdaptersVector, adapter)

(* Only NULL is ever refused, and only by a list that is full.             *)
Refused(adapter) ==
    adapter = NULL /\ Len(AdaptersVector) = capacity

Added(adapter) ==
    /\ ~undefined
    /\ open
    /\ ~Refused(adapter)
    /\ Len(AdaptersVector) < MaxLength
    /\ AdaptersVector' = Appended(adapter)
    /\ capacity' = Grown
    /\ registered' = registered \cup {adapter}
    /\ broken' = broken \cup (IF adapter = NULL THEN {"NULL added"} ELSE {})
                        \cup (IF adapter \in registered THEN {"added twice"} ELSE {})
                        \cup (IF Ended(adapter)' THEN {"added after its end"} ELSE {})
    /\ UNCHANGED <<open, undefined, lost>>

(* A call that is refused changes nothing.                                 *)
AddAdapter(adapter) ==
    /\ UNCHANGED heap
    /\ Added(adapter)

AddNewAdapter(a) == Constructed(a) /\ Added(a)

\* Mutant: GetAdapterIterator, which is one past the adapter.
GetAdapterIterator(adapter) ==
    LET n == CHOOSE n \in DOMAIN AdaptersVector :
                /\ AdaptersVector[n] = adapter
                /\ \A m \in 1..n - 1 : AdaptersVector[m] # adapter
    IN  IF n < Len(AdaptersVector) THEN n + 1 ELSE n

(* GetAdapterIndex, for an adapter that is in the list.                    *)
GetAdapterIndex(adapter) ==
    CHOOSE n \in DOMAIN AdaptersVector :
        /\ AdaptersVector[n] = adapter
        /\ \A m \in 1..n - 1 : AdaptersVector[m] # adapter

(* The address of an adapter that is no more can be removed, too; one that *)
(* is not in the list changes nothing.                                     *)
RemoveAdapter(adapter) ==
    /\ ~undefined
    /\ open
    /\ adapter # NULL
    /\ adapter \in Entries
    /\ AdaptersVector' = RemoveAt(AdaptersVector, GetAdapterIndex(adapter))
    /\ registered' = registered \ {adapter}
    /\ UNCHANGED <<capacity, open, heap, undefined, broken, lost>>

(* The list ends with the UOP: no member function has one to work on.      *)
CallEnded == ~open /\ Misuse("UOP used after its end")

(* Core asks every entry IncomePacketAvailable and does nothing about it.  *)
CoreFails ==
    /\ ~undefined
    /\ open
    /\ \E a \in Entries : ~Live(a)
    /\ undefined' = TRUE
    /\ UNCHANGED <<entries, heap, registered, broken, lost>>

(* ~UOP ends the adapters in the list, wherever they stand, and does not   *)
(* return the memory of those AddNewAdapter has made.                      *)
Orderly == IsInjective(AdaptersVector) /\ \A a \in Entries : Live(a)

DestroyUOP ==
    /\ ~undefined
    /\ open
    /\ Orderly
    /\ open' = FALSE
    /\ AdaptersVector' = <<>>
    /\ object' = [a \in Place |-> IF a \in Entries THEN "dead" ELSE object[a]]
    /\ output' = [a \in Place |-> IF a \in Entries THEN "none" ELSE output[a]]
    /\ allocated' = allocated - Buffers(Entries)
    /\ registered' = {}
    /\ UNCHANGED <<capacity, undefined, broken, lost>>

(* NULL, an adapter that is no more, an adapter twice, or a second time:   *)
(* the test program destroys its UOP by name and again at the end of main. *)
DestroyUOPFails ==
    /\ ~undefined
    /\ ~open \/ ~Orderly
    /\ undefined' = TRUE
    /\ broken' = IF open THEN broken ELSE broken \cup {"UOP destroyed twice"}
    /\ UNCHANGED <<entries, heap, registered, lost>>

ApplicationStep(a) ==
    \/ Construct(a) \/ DefaultInit(a) \/ Destroy(a)
    \/ UseEnded(a) \/ DestroyAgain(a)
    \/ \E size \in {"empty", "some"} : OutputWrite(a, size)

RegistryStep ==
    \/ \E adapter \in Place \cup {NULL} :
          AddAdapter(adapter) \/ RemoveAdapter(adapter)
    \/ \E a \in Place : AddNewAdapter(a)
    \/ CallEnded \/ CoreFails \/ DestroyUOP \/ DestroyUOPFails

Next == RegistryStep \/ \E a \in Place : ApplicationStep(a)

Spec == Init /\ [][Next]_vars

-----------------------------------------------------------------------------
(* What the application has to keep from.                                  *)
Rule == {"NULL added", "added twice", "added after its end", "used after its end",
         "destroyed while registered", "destroyed again",
         "UOP used after its end", "UOP destroyed twice"}

(* Every variable has its type, and the list fits its capacity.            *)
TypeOK ==
    /\ AdaptersVector \in Seq(Place \cup {NULL})
    /\ capacity \in Nat \ {0}
    /\ Len(AdaptersVector) <= capacity
    /\ open \in BOOLEAN
    /\ object \in [Place -> {"free", "live", "dead"}]
    /\ output \in [Place -> {"none", "empty", "some"}]
    /\ allocated \in 0..MaxAllocated
    /\ undefined \in BOOLEAN
    /\ registered \subseteq Place \cup {NULL}
    /\ broken \subseteq Rule
    /\ lost \subseteq {"DefaultInit called again", "empty packet"}

(* Eight rules keep an application out of undefined behaviour: it adds no  *)
(* NULL, no adapter twice and none that has ended; ends no adapter that is *)
(* registered, and none again - those included that the UOP has ended;     *)
(* calls neither an adapter nor the UOP after its end; and ends the UOP    *)
(* once.  Each is a rule for a call; what goes wrong may do so much later. *)
RulesSuffice == broken = {} => ~undefined

(* Whoever keeps them finds in the list what it has added and not removed, *)
(* each adapter once and alive, even where an address is used again.       *)
LedgerAgrees == broken = {} /\ open => Entries = registered /\ Orderly

(* No buffer is left behind, nor deleted twice, unless DefaultInit is      *)
(* called again or an empty packet is written: its buffer is not deleted.  *)
NothingLost == lost = {} => allocated = Buffers({a \in Place : Live(a)})

-----------------------------------------------------------------------------
(* For an application that keeps the rules the class is a list of adapters *)
(* that are alive.                                                         *)
List == INSTANCE UOP_AdapterList
            WITH list <- AdaptersVector, alive <- {a \in Place : Live(a)},
                 kept <- broken = {}

ListSpec == List!Spec

=============================================================================
