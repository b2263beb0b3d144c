------------------------- MODULE UOP_Registry_proofs -------------------------
(***************************************************************************)
(* Proofs about UOP_Registry, for any number of adapters: types, buffers,  *)
(* the rules that suffice, and the list the class implements for who keeps *)
(* them.                                                                   *)
(***************************************************************************)
EXTENDS UOP_Registry, FiniteSetTheorems, SequenceTheorems, WellFoundedInduction,
        TLAPS

(***************************************************************************)
(* Sequences.                                                              *)
(***************************************************************************)
LEMMA Least ==
    ASSUME NEW T, T \subseteq Nat, T # {}
    PROVE  \E n \in T : \A m \in T : ~(m < n)
<1> DEFINE R == {ss \in Nat \X Nat : ss[1] < ss[2]}
<1>1. OpToRel(<, Nat) = R
    BY DEF OpToRel
<1>2. IsWellFoundedOn(R, Nat)
    BY <1>1, NatLessThanWellFounded
<1>3. \A m, n \in T : m < n => <<m, n>> \in R
    OBVIOUS
<1> HIDE DEF R
<1>4. \E n \in T : \A m \in T : ~(<<m, n>> \in R)
    BY <1>2, WFMin
<1> QED
    BY <1>3, <1>4

LEMMA Index ==
    ASSUME NEW S, AdaptersVector \in Seq(S), NEW adapter \in Entries
    PROVE  /\ GetAdapterIndex(adapter) \in 1..Len(AdaptersVector)
           /\ AdaptersVector[GetAdapterIndex(adapter)] = adapter
<1> DEFINE T == {n \in 1..Len(AdaptersVector) : AdaptersVector[n] = adapter}
<1>1. T # {} /\ T \subseteq Nat
    BY DEF Entries, Range
<1>2. PICK n \in T : \A m \in T : ~(m < n)
    BY <1>1, Least
<1>3. n \in DOMAIN AdaptersVector /\ AdaptersVector[n] = adapter
    BY <1>2
<1>4. ASSUME NEW m \in 1..n - 1 PROVE AdaptersVector[m] # adapter
    BY <1>2
<1> QED
    BY <1>3, <1>4 DEF GetAdapterIndex

LEMMA Removed ==
    ASSUME NEW S, NEW s \in Seq(S), NEW n \in 1..Len(s)
    PROVE  RemoveAt(s, n)
               = [m \in 1..Len(s) - 1 |-> s[IF m < n THEN m ELSE m + 1]]
<1> DEFINE l == SubSeq(s, 1, n - 1)
           r == SubSeq(s, n + 1, Len(s))
           t == [m \in 1..Len(s) - 1 |-> s[IF m < n THEN m ELSE m + 1]]
<1>1. l \in Seq(S) /\ Len(l) = n - 1 /\ \A m \in 1..n - 1 : l[m] = s[m]
    OBVIOUS
<1>2. /\ r \in Seq(S) /\ Len(r) = Len(s) - n
      /\ \A m \in 1..Len(s) - n : r[m] = s[n + m]
    OBVIOUS
<1>4. t \in Seq(S) /\ Len(t) = Len(s) - 1
    OBVIOUS
<1> HIDE DEF l, r
<1>3. l \o r \in Seq(S) /\ Len(l \o r) = Len(s) - 1
  <2>1. l \o r \in Seq(S) /\ Len(l \o r) = Len(l) + Len(r)
    BY <1>1, <1>2, ConcatProperties
  <2> QED
    BY <1>1, <1>2, <2>1
<1>5. ASSUME NEW m \in 1..Len(s) - 1 PROVE (l \o r)[m] = t[m]
  <2>1. CASE m < n
    BY <1>1, <1>2, <2>1
  <2>2. CASE ~(m < n)
    <3>1. (l \o r)[m] = r[m - (n - 1)]
        BY <1>1, <1>2, <2>2
    <3>2. m - (n - 1) \in 1..Len(s) - n /\ n + (m - (n - 1)) = m + 1
        BY <2>2
    <3> QED
        BY <1>2, <2>2, <3>1, <3>2
  <2> QED
    BY <2>1, <2>2
<1> HIDE DEF t
<1>6. l \o r = t
    BY <1>3, <1>4, <1>5, SeqEqual
<1> QED
    BY <1>6 DEF RemoveAt, l, r, t

(* Whoever is in the list but the one that was removed, in the same order. *)
LEMMA RemovedOnce ==
    ASSUME NEW S, NEW s \in Seq(S), IsInjective(s), NEW n \in 1..Len(s)
    PROVE  /\ Range(RemoveAt(s, n)) = Range(s) \ {s[n]}
           /\ IsInjective(RemoveAt(s, n))
<1> DEFINE t == [m \in 1..Len(s) - 1 |-> s[IF m < n THEN m ELSE m + 1]]
<1>1. RemoveAt(s, n) = t
    BY Removed
<1>2. \A k, m \in 1..Len(s) : s[k] = s[m] => k = m
    BY DEF IsInjective
<1>3. IsInjective(t)
    BY <1>2 DEF IsInjective
<1>4. ASSUME NEW x PROVE x \in Range(t) <=> x \in Range(s) \ {s[n]}
  <2>1. ASSUME NEW m \in 1..Len(s) - 1, x = t[m]
        PROVE  x \in Range(s) \ {s[n]}
    <3>1. (IF m < n THEN m ELSE m + 1) \in 1..Len(s) \ {n}
        OBVIOUS
    <3> QED
        BY <1>2, <2>1, <3>1 DEF Range
  <2>2. ASSUME NEW k \in 1..Len(s), x = s[k], k # n
        PROVE  x \in Range(t)
    <3>1. CASE k < n
      <4>1. k \in 1..Len(s) - 1 /\ t[k] = x
        BY <2>2, <3>1
      <4> QED
        BY <4>1 DEF Range
    <3>2. CASE ~(k < n)
      <4>1. k - 1 \in 1..Len(s) - 1 /\ t[k - 1] = x
        BY <2>2, <3>2
      <4> QED
        BY <4>1 DEF Range
    <3> QED
        BY <3>1, <3>2
  <2> QED
    BY <2>1, <2>2 DEF Range
<1> QED
    BY <1>1, <1>3, <1>4

LEMMA AppendedOnce ==
    ASSUME NEW S, NEW s \in Seq(S), NEW x \in S
    PROVE  /\ Append(s, x) \in Seq(S) /\ Len(Append(s, x)) = Len(s) + 1
           /\ Range(Append(s, x)) = Range(s) \cup {x}
           /\ IsInjective(s) /\ x \notin Range(s) => IsInjective(Append(s, x))
<1>1. Append(s, x) \in Seq(S) /\ Len(Append(s, x)) = Len(s) + 1
    OBVIOUS
<1>2. /\ \A n \in 1..Len(s) : Append(s, x)[n] = s[n]
      /\ Append(s, x)[Len(s) + 1] = x
    OBVIOUS
<1>3. Range(Append(s, x)) = Range(s) \cup {x}
    BY <1>1, <1>2 DEF Range
<1>4. IsInjective(s) /\ x \notin Range(s) => IsInjective(Append(s, x))
    BY <1>1, <1>2 DEF Range, IsInjective
<1> QED
    BY <1>1, <1>3, <1>4

-----------------------------------------------------------------------------
(***************************************************************************)
(* Buffers.                                                                *)
(***************************************************************************)
BuffersOf(S, out) == Cardinality(S) + Cardinality({a \in S : out[a] # "none"})

LEMMA BuffersAre ==
    ASSUME NEW S \in SUBSET Place, NEW out
    PROVE  /\ IsFiniteSet(S) /\ IsFiniteSet({a \in S : out[a] # "none"})
           /\ Cardinality(S) \in Nat
           /\ Cardinality({a \in S : out[a] # "none"}) \in Nat
           /\ BuffersOf(S, out) \in Nat
<1>1. IsFiniteSet(S) /\ IsFiniteSet({a \in S : out[a] # "none"})
    BY RegistryAssumption, FS_Subset
<1>2. Cardinality(S) \in Nat /\ Cardinality({a \in S : out[a] # "none"}) \in Nat
    BY <1>1, FS_CardinalityType
<1> QED
    BY <1>1, <1>2 DEF BuffersOf

(* One more adapter, without a packet.                                     *)
LEMMA BuffersOfOneMore ==
    ASSUME NEW S \in SUBSET Place, NEW a \in Place \ S, NEW out, NEW new,
           new[a] = "none", \A b \in S : new[b] = out[b]
    PROVE  BuffersOf(S \cup {a}, new) = BuffersOf(S, out) + 1
<1>1. {b \in S \cup {a} : new[b] # "none"} = {b \in S : out[b] # "none"}
    OBVIOUS
<1>2. Cardinality(S \cup {a}) = Cardinality(S) + 1
    BY BuffersAre, FS_AddElement
<1>3. Cardinality(S) \in Nat /\ Cardinality({b \in S : out[b] # "none"}) \in Nat
    BY BuffersAre
<1>4. BuffersOf(S \cup {a}, new)
          = Cardinality(S \cup {a}) + Cardinality({b \in S : out[b] # "none"})
    BY <1>1 DEF BuffersOf
<1> QED
    BY <1>2, <1>3, <1>4 DEF BuffersOf

(* Adapters that end take their buffers with them.                         *)
LEMMA BuffersOfTheOthers ==
    ASSUME NEW S \in SUBSET Place, NEW T \in SUBSET S, NEW out, NEW new,
           \A b \in S \ T : new[b] = out[b]
    PROVE  BuffersOf(S \ T, new) = BuffersOf(S, out) - BuffersOf(T, out)
<1> DEFINE P(U) == {b \in U : out[b] # "none"}
<1>1. {b \in S \ T : new[b] # "none"} = P(S) \ P(T)
    OBVIOUS
<1>2. S \cap T = T /\ P(S) \cap P(T) = P(T)
    OBVIOUS
<1>3. /\ IsFiniteSet(S) /\ IsFiniteSet(P(S)) /\ IsFiniteSet(T) /\ IsFiniteSet(P(T))
      /\ Cardinality(S) \in Nat /\ Cardinality(P(S)) \in Nat
      /\ Cardinality(T) \in Nat /\ Cardinality(P(T)) \in Nat
    BY BuffersAre
<1> HIDE DEF P
<1>4. /\ Cardinality(S \ T) = Cardinality(S) - Cardinality(T)
      /\ Cardinality(P(S) \ P(T)) = Cardinality(P(S)) - Cardinality(P(T))
  <2>1. Cardinality(S \ T) = Cardinality(S) - Cardinality(S \cap T)
    BY <1>3, FS_Difference
  <2>2. Cardinality(P(S) \ P(T)) = Cardinality(P(S)) - Cardinality(P(S) \cap P(T))
    BY <1>3, FS_Difference
  <2> QED
    BY <1>2, <2>1, <2>2
<1>5. /\ BuffersOf(S \ T, new) = Cardinality(S \ T) + Cardinality(P(S) \ P(T))
      /\ BuffersOf(S, out) = Cardinality(S) + Cardinality(P(S))
      /\ BuffersOf(T, out) = Cardinality(T) + Cardinality(P(T))
    BY <1>1 DEF BuffersOf, P
<1> QED
    BY <1>3, <1>4, <1>5

(* An adapter is given a packet.                                           *)
LEMMA BuffersOfAPacket ==
    ASSUME NEW S \in SUBSET Place, NEW a \in S, NEW out, NEW new,
           new[a] # "none", \A b \in S \ {a} : new[b] = out[b]
    PROVE  BuffersOf(S, new)
               = BuffersOf(S, out) + (IF out[a] = "none" THEN 1 ELSE 0)
<1> DEFINE P == {b \in S : out[b] # "none"}
<1>1. {b \in S : new[b] # "none"} = P \cup {a}
    OBVIOUS
<1>2. IsFiniteSet(P) /\ Cardinality(P) \in Nat /\ Cardinality(S) \in Nat
    BY BuffersAre
<1>3. a \in P <=> out[a] # "none"
    OBVIOUS
<1>4. /\ BuffersOf(S, new) = Cardinality(S) + Cardinality(P \cup {a})
      /\ BuffersOf(S, out) = Cardinality(S) + Cardinality(P)
    BY <1>1 DEF BuffersOf
<1> HIDE DEF P
<1>5. Cardinality(P \cup {a}) = IF a \in P THEN Cardinality(P) ELSE Cardinality(P) + 1
    BY <1>2, FS_AddElement
<1> QED
    BY <1>2, <1>3, <1>4, <1>5

-----------------------------------------------------------------------------
(* The inductive invariant: what the rules give, and what is allocated is  *)
(* at least what the live adapters hold, and no more while nothing is      *)
(* lost - where no adapter holds a buffer that it will not delete.         *)
Alive == {a \in Place : Live(a)}

Counted ==
    /\ BuffersOf(Alive, output) <= allocated
    /\ lost = {} => /\ allocated = BuffersOf(Alive, output)
                    /\ \A a \in Place : output[a] # "empty"

ClosedIsEmpty == ~open => AdaptersVector = <<>>

Rules == RulesSuffice /\ LedgerAgrees /\ ClosedIsEmpty

IInv == TypeOK /\ Counted /\ Rules

LEMMA InitIInv == Init => IInv
<1> SUFFICES ASSUME Init PROVE IInv
    OBVIOUS
<1>1. TypeOK
  <2>1. <<>> \in Seq(Place \cup {NULL}) /\ Len(<<>>) = 0
    OBVIOUS
  <2>2. 0 \in 0..MaxAllocated /\ 0 <= AdaptersList_Max_Size
    BY RegistryAssumption
  <2> QED
    BY <2>1, <2>2, RegistryAssumption DEF Init, TypeOK
<1>2. Alive = {}
    BY DEF Init, Alive, Live
<1>3. BuffersOf(Alive, output) = 0
  <2>1. {a \in {} : output[a] # "none"} = {}
    OBVIOUS
  <2> QED
    BY <1>2, <2>1, FS_EmptySet DEF BuffersOf
<1>4. Rules
    BY DEF Init, Rules, RulesSuffice, LedgerAgrees, ClosedIsEmpty, Orderly,
           Entries, Range, IsInjective
<1> QED
    BY <1>1, <1>3, <1>4 DEF Init, IInv, Counted

(* What there is to know of the adapters that end.                         *)
LEMMA Ending ==
    ASSUME IInv, NEW T \in SUBSET Alive, NEW new,
           \A a \in Alive \ T : new[a] = output[a]
    PROVE  /\ allocated - BuffersOf(T, output) \in 0..MaxAllocated
           /\ BuffersOf(Alive \ T, new) <= allocated - BuffersOf(T, output)
           /\ lost = {} => allocated - BuffersOf(T, output) = BuffersOf(Alive \ T, new)
<1>1. Alive \in SUBSET Place /\ T \in SUBSET Place
    BY DEF Alive
<1>2. BuffersOf(Alive \ T, new) = BuffersOf(Alive, output) - BuffersOf(T, output)
    BY <1>1, BuffersOfTheOthers
<1>3. BuffersOf(Alive \ T, new) \in Nat /\ BuffersOf(Alive, output) \in Nat
      /\ BuffersOf(T, output) \in Nat
    BY <1>1, BuffersAre
<1>4. allocated \in 0..MaxAllocated /\ MaxAllocated \in Nat
    BY RegistryAssumption DEF IInv, TypeOK
<1> QED
    BY <1>2, <1>3, <1>4 DEF IInv, Counted

LEMMA ConstructedCounts ==
    ASSUME IInv, NEW a \in Place, Constructed(a), lost' = lost
    PROVE  /\ Counted' /\ allocated' \in 0..MaxAllocated
           /\ object' \in [Place -> {"free", "live", "dead"}]
           /\ output' \in [Place -> {"none", "empty", "some"}]
           /\ Alive' = Alive \cup {a} /\ a \notin Alive
<1>1. /\ object \in [Place -> {"free", "live", "dead"}]
      /\ output \in [Place -> {"none", "empty", "some"}]
      /\ allocated \in 0..MaxAllocated /\ MaxAllocated \in Nat
    BY RegistryAssumption DEF IInv, TypeOK
<1>2. Alive' = Alive \cup {a} /\ a \notin Alive
    BY <1>1 DEF Constructed, Alive, Live
<1>3. output'[a] = "none" /\ \A b \in Alive : output'[b] = output[b]
    BY <1>1, <1>2 DEF Constructed, Alive
<1>4. BuffersOf(Alive \cup {a}, output') = BuffersOf(Alive, output) + 1
  <2>1. Alive \in SUBSET Place /\ a \in Place \ Alive
    BY <1>2 DEF Alive
  <2> QED
    BY <1>3, <2>1, BuffersOfOneMore
<1>5. BuffersOf(Alive, output) \in Nat
    BY BuffersAre DEF Alive
<1>6. Counted'
    BY <1>1, <1>2, <1>4, <1>5 DEF IInv, Counted, Constructed
<1> QED
    BY <1>1, <1>2, <1>6 DEF Constructed

LEMMA CountedNext ==
    ASSUME IInv, Next
    PROVE  /\ Counted' /\ allocated' \in 0..MaxAllocated
           /\ object' \in [Place -> {"free", "live", "dead"}]
           /\ output' \in [Place -> {"none", "empty", "some"}]
<1>1. /\ object \in [Place -> {"free", "live", "dead"}]
      /\ output \in [Place -> {"none", "empty", "some"}]
      /\ allocated \in 0..MaxAllocated /\ MaxAllocated \in Nat
    BY RegistryAssumption DEF IInv, TypeOK
<1>2. BuffersOf(Alive, output) \in Nat /\ Alive \in SUBSET Place
    BY BuffersAre DEF Alive
<1> DEFINE Goal == /\ Counted' /\ allocated' \in 0..MaxAllocated
                   /\ object' \in [Place -> {"free", "live", "dead"}]
                   /\ output' \in [Place -> {"none", "empty", "some"}]
<1>3. ASSUME NEW a \in Place, Constructed(a), lost' = lost PROVE Goal
    BY <1>3, ConstructedCounts
<1>4. ASSUME UNCHANGED <<heap, lost>> PROVE Goal
    BY <1>1, <1>4 DEF heap, IInv, Counted, Alive, Live
<1>5. ASSUME NEW a \in Place, DefaultInit(a) PROVE Goal
  <2>1. Alive' = Alive /\ lost' # {} /\ output' = output /\ object' = object
    BY <1>5 DEF DefaultInit, Alive, Live
  <2>2. allocated' = allocated + 1 /\ allocated < MaxAllocated
    BY <1>5 DEF DefaultInit
  <2>3. allocated' \in 0..MaxAllocated /\ allocated <= allocated'
    BY <1>1, <2>2
  <2>4. BuffersOf(Alive, output) <= allocated'
    BY <1>1, <1>2, <2>2 DEF IInv, Counted
  <2> QED
    BY <1>1, <2>1, <2>3, <2>4 DEF Counted
<1>6. ASSUME NEW a \in Place, NEW size \in {"empty", "some"}, OutputWrite(a, size)
      PROVE  Goal
  <2>1. Alive' = Alive /\ a \in Alive /\ object' = object
    BY <1>6 DEF OutputWrite, Alive, Live
  <2>2. output' \in [Place -> {"none", "empty", "some"}]
        /\ output'[a] = size /\ \A b \in Place \ {a} : output'[b] = output[b]
    BY <1>1, <1>6 DEF OutputWrite
  <2>3. BuffersOf(Alive, output')
            = BuffersOf(Alive, output) + (IF output[a] = "none" THEN 1 ELSE 0)
    BY <1>2, <2>1, <2>2, BuffersOfAPacket
  <2>4. allocated' = (IF output[a] = "some" THEN allocated ELSE allocated + 1)
        /\ allocated' \in 0..MaxAllocated
    <3>1. /\ allocated' = (IF output[a] = "some" THEN allocated ELSE allocated + 1)
          /\ allocated < MaxAllocated
        BY <1>6 DEF OutputWrite
    <3> QED
        BY <1>1, <3>1
  <2>5. lost' = {} => lost = {} /\ size = "some"
    BY <1>6 DEF OutputWrite
  <2>6. output[a] \in {"none", "empty", "some"}
    BY <1>1
  <2>7. BuffersOf(Alive, output') <= allocated'
    BY <1>1, <1>2, <2>3, <2>4, <2>6 DEF IInv, Counted
  <2>8. ASSUME lost' = {}
        PROVE  /\ allocated' = BuffersOf(Alive, output')
               /\ \A b \in Place : output'[b] # "empty"
    BY <1>1, <1>2, <2>2, <2>3, <2>4, <2>5, <2>6, <2>8 DEF IInv, Counted
  <2>9. Counted'
    BY <2>1, <2>7, <2>8 DEF Counted
  <2> QED
    BY <1>1, <2>1, <2>2, <2>4, <2>9
<1>7. ASSUME NEW a \in Place, Destroy(a) PROVE Goal
  <2>1. a \in Alive /\ Alive' = Alive \ {a}
    BY <1>1, <1>7 DEF Destroy, Alive, Live
  <2>2. allocated' = allocated - BuffersOf({a}, output) /\ lost' = lost
    BY <1>7 DEF Destroy, Buffers, BuffersOf
  <2>3. output' \in [Place -> {"none", "empty", "some"}]
        /\ output'[a] = "none" /\ \A b \in Place \ {a} : output'[b] = output[b]
    BY <1>1, <1>7 DEF Destroy
  <2>4. {a} \in SUBSET Alive /\ \A b \in Alive \ {a} : output'[b] = output[b]
    BY <1>2, <2>1, <2>3
  <2>5. Counted' /\ allocated' \in 0..MaxAllocated
    BY <2>1, <2>2, <2>3, <2>4, Ending DEF Counted, IInv
  <2> QED
    BY <1>1, <1>7, <2>3, <2>5 DEF Destroy
<1>8. ASSUME DestroyUOP PROVE Goal
  <2>1. Entries \in SUBSET Alive
    BY <1>8 DEF DestroyUOP, Orderly, Alive, Live
  <2>2. object' = [a \in Place |-> IF a \in Entries THEN "dead" ELSE object[a]]
        /\ output' = [a \in Place |-> IF a \in Entries THEN "none" ELSE output[a]]
    BY <1>8 DEF DestroyUOP
  <2>3. Alive' = Alive \ Entries
    BY <2>2 DEF Alive, Live
  <2>4. allocated' = allocated - BuffersOf(Entries, output) /\ lost' = lost
    BY <1>8 DEF DestroyUOP, Buffers, BuffersOf
  <2>5. \A b \in Alive \ Entries : output'[b] = output[b]
    BY <1>2, <2>2
  <2>6. lost = {} => \A b \in Place : output'[b] # "empty"
    BY <2>2 DEF IInv, Counted
  <2>7. Counted' /\ allocated' \in 0..MaxAllocated
    BY <2>1, <2>3, <2>4, <2>5, <2>6, Ending DEF Counted
  <2> QED
    BY <1>1, <2>2, <2>7
<1> HIDE DEF Goal
<1>9. ASSUME NEW a \in Place, ApplicationStep(a) PROVE Goal
    BY <1>3, <1>4, <1>5, <1>6, <1>7, <1>9
    DEF ApplicationStep, Construct, UseEnded, DestroyAgain, Misuse
<1>10. ASSUME RegistryStep PROVE Goal
  <2>1. ASSUME NEW adapter, AddAdapter(adapter) \/ RemoveAdapter(adapter) PROVE Goal
    BY <1>4, <2>1 DEF AddAdapter, Added, RemoveAdapter
  <2>2. ASSUME NEW a \in Place, AddNewAdapter(a) PROVE Goal
    BY <1>3, <2>2 DEF AddNewAdapter, Added
  <2>3. ASSUME CallEnded \/ CoreFails \/ DestroyUOPFails PROVE Goal
    BY <1>4, <2>3 DEF CallEnded, Misuse, CoreFails, DestroyUOPFails
  <2> QED
    BY <1>8, <1>10, <2>1, <2>2, <2>3 DEF RegistryStep
<1>11. Goal
    BY <1>9, <1>10 DEF Next
<1> QED
    BY <1>11 DEF Goal

(* The list after each step that changes it.                               *)
LEMMA AddedTypes ==
    ASSUME TypeOK, NEW adapter \in Place \cup {NULL}, Added(adapter)
    PROVE  /\ AdaptersVector' \in Seq(Place \cup {NULL})
           /\ capacity' \in Nat \ {0} /\ Len(AdaptersVector') <= capacity'
           /\ Entries' = Entries \cup {adapter}
           /\ IsInjective(AdaptersVector) /\ adapter \notin Entries
                 => IsInjective(AdaptersVector')
<1>0. AdaptersVector \in Seq(Place \cup {NULL}) /\ capacity \in Nat \ {0}
      /\ Len(AdaptersVector) <= capacity
    BY DEF TypeOK
<1>1. AdaptersVector \in Seq(Place \cup {NULL}) /\ capacity \in Nat \ {0}
      /\ Len(AdaptersVector) <= capacity /\ Len(AdaptersVector) \in Nat
    BY <1>0, LenProperties
<1>2. AdaptersVector' = Append(AdaptersVector, adapter) /\ capacity' = Grown
    BY DEF Added, Appended
<1>3. /\ AdaptersVector' \in Seq(Place \cup {NULL})
      /\ Len(AdaptersVector') = Len(AdaptersVector) + 1
      /\ Range(AdaptersVector') = Range(AdaptersVector) \cup {adapter}
      /\ IsInjective(AdaptersVector) /\ adapter \notin Range(AdaptersVector)
            => IsInjective(AdaptersVector')
    BY <1>1, <1>2, AppendedOnce
<1>4. capacity' \in Nat \ {0} /\ Len(AdaptersVector') <= capacity'
    BY <1>1, <1>2, <1>3 DEF Grown
<1> QED
    BY <1>3, <1>4 DEF Entries

LEMMA RemovedTypes ==
    ASSUME TypeOK, NEW adapter, RemoveAdapter(adapter)
    PROVE  /\ AdaptersVector' \in Seq(Place \cup {NULL})
           /\ Len(AdaptersVector') <= capacity'
           /\ IsInjective(AdaptersVector)
                 => Entries' = Entries \ {adapter} /\ IsInjective(AdaptersVector')
           /\ \E n \in DOMAIN AdaptersVector :
                 /\ AdaptersVector[n] = adapter
                 /\ AdaptersVector' = [m \in 1..Len(AdaptersVector) - 1 |->
                                          AdaptersVector[IF m < n THEN m ELSE m + 1]]
<1> DEFINE n == GetAdapterIndex(adapter)
           s == AdaptersVector
<1>0. s \in Seq(Place \cup {NULL}) /\ capacity \in Nat /\ Len(s) <= capacity
    BY DEF TypeOK
<1>1. s \in Seq(Place \cup {NULL}) /\ capacity \in Nat /\ Len(s) <= capacity
      /\ Len(s) \in Nat
    BY <1>0, LenProperties
<1>2. adapter \in Entries /\ s' = RemoveAt(s, n) /\ capacity' = capacity
    BY DEF RemoveAdapter, entries
<1>3. n \in 1..Len(s) /\ s[n] = adapter
    BY <1>1, <1>2, Index
<1> HIDE DEF n
<1>4. s' = [m \in 1..Len(s) - 1 |-> s[IF m < n THEN m ELSE m + 1]]
    BY <1>1, <1>2, <1>3, Removed
<1>5. \A m \in 1..Len(s) - 1 : s[IF m < n THEN m ELSE m + 1] \in Place \cup {NULL}
    BY <1>1, <1>3
<1>6. s' \in Seq(Place \cup {NULL}) /\ Len(s') = Len(s) - 1
    BY <1>1, <1>3, <1>4, <1>5
<1>7. IsInjective(s) => Range(s') = Range(s) \ {adapter} /\ IsInjective(s')
    BY <1>1, <1>2, <1>3, RemovedOnce
<1>8. n \in DOMAIN s
    BY <1>1, <1>3
<1> QED
    BY <1>1, <1>2, <1>3, <1>4, <1>6, <1>7, <1>8 DEF Entries

LEMMA TypesNext == IInv /\ Next => TypeOK'
<1> SUFFICES ASSUME IInv, Next PROVE TypeOK'
    OBVIOUS
<1> DEFINE List1 == /\ AdaptersVector' \in Seq(Place \cup {NULL})
                    /\ capacity' \in Nat \ {0}
                    /\ Len(AdaptersVector') <= capacity'
                    /\ open' \in BOOLEAN
           Books == /\ undefined' \in BOOLEAN
                    /\ registered' \subseteq Place \cup {NULL}
                    /\ broken' \subseteq Rule
                    /\ lost' \subseteq {"DefaultInit called again", "empty packet"}
<1>1. TypeOK
    BY DEF IInv
<1>2. ASSUME UNCHANGED entries PROVE List1
    BY <1>1, <1>2 DEF TypeOK, entries
<1>0. ASSUME NEW rule \in Rule, Misuse(rule) PROVE List1 /\ Books
  <2>1. UNCHANGED entries
    BY <1>0 DEF Misuse
  <2>2. Books
    BY <1>0, <1>1 DEF Misuse, TypeOK
  <2> QED
    BY <1>2, <2>1, <2>2
<1>3. ASSUME NEW a \in Place, ApplicationStep(a) PROVE List1 /\ Books
  <2>1. ASSUME Construct(a) \/ DefaultInit(a) \/ Destroy(a)
               \/ \E size \in {"empty", "some"} : OutputWrite(a, size)
        PROVE  List1 /\ Books
    <3>1. UNCHANGED entries
        BY <2>1 DEF Construct, DefaultInit, Destroy, OutputWrite
    <3>2. Books
        BY <1>1, <2>1 DEF TypeOK, Construct, DefaultInit, Destroy, OutputWrite, Rule
    <3> QED
        BY <1>2, <3>1, <3>2
  <2>2. ASSUME UseEnded(a) \/ DestroyAgain(a) PROVE List1 /\ Books
    BY <1>0, <2>2 DEF UseEnded, DestroyAgain, Rule
  <2> QED
    BY <1>3, <2>1, <2>2 DEF ApplicationStep
<1>4. ASSUME NEW adapter \in Place \cup {NULL}, Added(adapter) PROVE List1 /\ Books
  <2>1. List1
    BY <1>1, <1>4, AddedTypes DEF TypeOK, Added
  <2>2. Books
    BY <1>1, <1>4 DEF TypeOK, Added, Rule
  <2> QED
    BY <2>1, <2>2
<1>5. ASSUME NEW adapter, RemoveAdapter(adapter) PROVE List1 /\ Books
  <2>1. List1
    BY <1>1, <1>5, RemovedTypes DEF TypeOK, RemoveAdapter
  <2>2. Books
    BY <1>1, <1>5 DEF TypeOK, RemoveAdapter
  <2> QED
    BY <2>1, <2>2
<1>6. ASSUME CallEnded \/ CoreFails \/ DestroyUOPFails PROVE List1 /\ Books
  <2>0. CallEnded => List1 /\ Books
    BY <1>0 DEF CallEnded, Rule
  <2>1. List1
    BY <1>2, <1>6, <2>0 DEF CoreFails, DestroyUOPFails
  <2>2. Books
    BY <1>1, <1>6, <2>0 DEF TypeOK, CoreFails, DestroyUOPFails, Rule
  <2> QED
    BY <2>1, <2>2
<1>7. ASSUME DestroyUOP PROVE List1 /\ Books
  <2>1. <<>> \in Seq(Place \cup {NULL}) /\ Len(<<>>) = 0
    OBVIOUS
  <2>4. AdaptersVector' = <<>> /\ capacity' = capacity /\ open' = FALSE
        /\ capacity \in Nat \ {0}
    BY <1>1, <1>7 DEF TypeOK, DestroyUOP
  <2>5. 0 <= capacity
    BY <2>4
  <2>2. List1
    BY <2>1, <2>4, <2>5
  <2>3. Books
    BY <1>1, <1>7 DEF TypeOK, DestroyUOP
  <2> QED
    BY <2>2, <2>3
<1> HIDE DEF List1, Books
<1>8. List1 /\ Books
    BY <1>3, <1>4, <1>5, <1>6, <1>7
    DEF Next, RegistryStep, AddAdapter, AddNewAdapter
<1>9. /\ object' \in [Place -> {"free", "live", "dead"}]
      /\ output' \in [Place -> {"none", "empty", "some"}]
      /\ allocated' \in 0..MaxAllocated
    BY CountedNext
<1> QED
    BY <1>8, <1>9 DEF TypeOK, List1, Books

LEMMA RulesNext == IInv /\ Next => Rules'
<1> SUFFICES ASSUME IInv, Next PROVE Rules'
    OBVIOUS
<1> DEFINE Agree == /\ Entries = registered /\ IsInjective(AdaptersVector)
                    /\ \A e \in Entries : e \in Place /\ object[e] = "live"
           Goal == /\ broken' = {} => ~undefined' /\ (open' => Agree')
                   /\ ~open' => AdaptersVector' = <<>>
<1>1. /\ broken = {} => ~undefined /\ (open => Agree)
      /\ ~open => AdaptersVector = <<>>
    BY DEF IInv, Rules, RulesSuffice, LedgerAgrees, ClosedIsEmpty, Orderly, Live
<1>2. TypeOK
    BY DEF IInv
<1>3. object \in [Place -> {"free", "live", "dead"}]
    BY <1>2 DEF TypeOK
<1>4. ASSUME NEW a \in Place, Construct(a) \/ DefaultInit(a) \/ Destroy(a)
                              \/ \E size \in {"empty", "some"} : OutputWrite(a, size)
      PROVE  Goal
  <2>1. UNCHANGED <<entries, undefined, registered>>
    BY <1>4 DEF Construct, DefaultInit, Destroy, OutputWrite
  <2>2. Entries' = Entries
    BY <2>1 DEF entries, Entries
  <2>3. /\ broken' = {} => broken = {}
        /\ \A e \in Place : /\ object[e] = "live" /\ object'[e] # "live"
                            /\ broken' = {}
                            => e \notin registered
    BY <1>3, <1>4 DEF Construct, Constructed, DefaultInit, Destroy, OutputWrite
  <2> QED
    BY <1>1, <2>1, <2>2, <2>3 DEF entries
<1>5. ASSUME NEW rule, Misuse(rule) PROVE Goal
    BY <1>1, <1>5 DEF Misuse, entries
<1>6. ASSUME NEW adapter \in Place \cup {NULL}, Added(adapter),
             \A e \in Place : object[e] = "live" => object'[e] = "live"
      PROVE  Goal
  <2>1. /\ open /\ open' = open /\ undefined' = undefined /\ ~undefined
        /\ registered' = registered \cup {adapter}
        /\ broken' = {} => /\ broken = {} /\ adapter # NULL /\ adapter \notin registered
                           /\ object'[adapter] = "live"
    BY <1>6 DEF Added, Ended
  <2>2. /\ Entries' = Entries \cup {adapter}
        /\ IsInjective(AdaptersVector) /\ adapter \notin Entries
              => IsInjective(AdaptersVector')
    BY <1>2, <1>6, AddedTypes
  <2> QED
    BY <1>1, <1>6, <2>1, <2>2
<1>7. ASSUME NEW adapter, RemoveAdapter(adapter) PROVE Goal
  <2>1. /\ open /\ open' = open /\ undefined' = undefined /\ broken' = broken
        /\ object' = object /\ registered' = registered \ {adapter}
    BY <1>7 DEF RemoveAdapter, heap
  <2>2. IsInjective(AdaptersVector)
           => Entries' = Entries \ {adapter} /\ IsInjective(AdaptersVector')
    BY <1>2, <1>7, RemovedTypes
  <2> QED
    BY <1>1, <2>1, <2>2
<1>8. ASSUME CoreFails \/ DestroyUOPFails PROVE Goal
  <2>1. open => ~Agree \/ broken' # {}
    BY <1>8 DEF CoreFails, DestroyUOPFails, Orderly, Live
  <2>2. UNCHANGED entries /\ broken' = {} => broken = {} /\ open
    BY <1>8 DEF CoreFails, DestroyUOPFails
  <2>3. UNCHANGED entries
    BY <1>8 DEF CoreFails, DestroyUOPFails
  <2> QED
    BY <1>1, <2>1, <2>2, <2>3 DEF entries
<1>9. ASSUME DestroyUOP PROVE Goal
    BY <1>1, <1>9 DEF DestroyUOP
<1> HIDE DEF Goal
<1>10. ASSUME NEW adapter \in Place \cup {NULL}, AddAdapter(adapter) PROVE Goal
  <2>1. Added(adapter) /\ object' = object
    BY <1>10 DEF AddAdapter, heap
  <2> QED
    BY <1>6, <2>1
<1>11. ASSUME NEW a \in Place, AddNewAdapter(a) PROVE Goal
  <2>1. /\ Added(a)
        /\ \A e \in Place : object[e] = "live" => object'[e] = "live"
    BY <1>3, <1>11 DEF AddNewAdapter, Constructed
  <2> QED
    BY <1>6, <2>1
<1>12. Goal
    BY <1>4, <1>5, <1>7, <1>8, <1>9, <1>10, <1>11
    DEF Next, RegistryStep, ApplicationStep, UseEnded, DestroyAgain, CallEnded
<1> QED
    BY <1>12 DEF Goal, Rules, RulesSuffice, LedgerAgrees, ClosedIsEmpty, Orderly, Live

LEMMA NextIInv == IInv /\ [Next]_vars => IInv'
<1>1. IInv /\ Next => IInv'
    BY TypesNext, CountedNext, RulesNext DEF IInv
<1>2. IInv /\ UNCHANGED vars => IInv'
  <2> SUFFICES ASSUME IInv, UNCHANGED vars PROVE IInv'
    OBVIOUS
  <2>1. TypeOK'
    BY DEF IInv, TypeOK, vars, entries, heap
  <2>2. Counted'
    BY DEF IInv, Counted, Alive, Live, vars, entries, heap
  <2>3. Rules'
    BY DEF IInv, Rules, RulesSuffice, LedgerAgrees, ClosedIsEmpty, Orderly,
           Entries, Live, vars, entries, heap
  <2> QED
    BY <2>1, <2>2, <2>3 DEF IInv
<1> QED
    BY <1>1, <1>2

THEOREM Invariance == Spec => []IInv
<1> QED
    BY InitIInv, NextIInv, PTL DEF Spec

(* Every variable of the registry keeps its type, whatever the application *)
(* calls, and the list always fits the room that it has.                   *)
THEOREM TypeCorrect == Spec => []TypeOK
<1>1. IInv => TypeOK
    BY DEF IInv
<1> QED
    BY <1>1, Invariance, PTL

(* Whoever keeps the eight rules meets no undefined behaviour in the        *)
(* registry, however many adapters and in whatever order of calls.         *)
THEOREM RulesSufficeAlways == Spec => []RulesSuffice
<1>1. IInv => RulesSuffice
    BY DEF IInv, Rules
<1> QED
    BY <1>1, Invariance, PTL

(* Whoever keeps them finds in the list what was added and not removed,    *)
(* each adapter once and alive.                                            *)
THEOREM LedgerAgreesAlways == Spec => []LedgerAgrees
<1>1. IInv => LedgerAgrees
    BY DEF IInv, Rules
<1> QED
    BY <1>1, Invariance, PTL

(* What is allocated is what the live adapters hold, as long as nobody     *)
(* calls DefaultInit again or writes an empty packet.                      *)
THEOREM NothingLostAlways == Spec => []NothingLost
<1>1. IInv => NothingLost
    BY DEF IInv, Counted, NothingLost, Buffers, BuffersOf, Alive
<1> QED
    BY <1>1, Invariance, PTL

-----------------------------------------------------------------------------
(***************************************************************************)
(* The list that the class implements.                                     *)
(***************************************************************************)
LEMMA Members == List!Members = Entries
    BY DEF List!Members, Entries, Range

LEMMA StepImplements == IInv /\ Next => List!Next \/ UNCHANGED List!vars
<1> SUFFICES ASSUME IInv, Next PROVE List!Next \/ UNCHANGED List!vars
    OBVIOUS
<1> DEFINE Goal == List!Next \/ UNCHANGED List!vars
<1>1. broken # {} => broken' # {}
    BY DEF Next, RegistryStep, ApplicationStep, AddAdapter, AddNewAdapter, Added,
           RemoveAdapter, CoreFails, DestroyUOP, DestroyUOPFails, Construct,
           DefaultInit, Destroy, UseEnded, DestroyAgain, CallEnded, Misuse, OutputWrite
<1>2. ASSUME broken' # {} PROVE Goal
    BY <1>2 DEF List!Next, List!Lapse
<1>3. TypeOK /\ object \in [Place -> {"free", "live", "dead"}]
    BY DEF IInv, TypeOK
<1>4. /\ broken = {} => ~undefined
      /\ broken = {} /\ open
            => /\ Entries = registered /\ IsInjective(AdaptersVector)
               /\ \A e \in Entries : e \in Alive
      /\ ~open => Entries = {}
  <2>1. AdaptersVector = <<>> => Entries = {}
    BY DEF Entries, Range
  <2> QED
    BY <2>1 DEF IInv, Rules, RulesSuffice, LedgerAgrees, ClosedIsEmpty, Orderly, Live, Alive
<1>5. ASSUME NEW a \in Place, Constructed(a), broken = {}
      PROVE  List!Begin(a)
  <2>1. a \notin Alive /\ {b \in Place : Live(b)}' = Alive \cup {a}
    BY <1>3, <1>5 DEF Constructed, Alive, Live
  <2>2. a \notin Entries
    BY <1>4, <1>5, <2>1
  <2> QED
    BY <2>1, <2>2, Members DEF List!Begin, Alive
<1>6. ASSUME NEW adapter \in Place, Added(adapter), broken' = {}, Live(adapter)'
      PROVE  List!Add(adapter)
  <2>1. broken = {} /\ adapter \notin registered /\ open /\ open' = open
        /\ AdaptersVector' = Append(AdaptersVector, adapter)
    BY <1>6 DEF Added, Appended
  <2>2. adapter \notin Entries
    BY <1>4, <2>1
  <2> QED
    BY <1>6, <2>1, <2>2, Members DEF List!Add
<1>7. ASSUME NEW a \in Place, ApplicationStep(a), broken' = {} PROVE Goal
  <2>1. CASE Construct(a)
    BY <1>1, <1>5, <1>7, <2>1 DEF Construct, entries, List!Next
  <2>2. ASSUME DefaultInit(a) \/ \E size \in {"empty", "some"} : OutputWrite(a, size)
        PROVE Goal
    BY <2>2 DEF DefaultInit, OutputWrite, entries, Live, List!vars
  <2>3. ASSUME Destroy(a) PROVE Goal
    <3>1. a \in Alive /\ {b \in Place : Live(b)}' = Alive \ {a}
        BY <1>3, <2>3 DEF Destroy, Alive, Live
    <3>2. a \notin registered /\ broken = {}
        BY <1>7, <2>3 DEF Destroy
    <3>3. a \notin Entries
        BY <1>4, <3>2
    <3>4. List!End(a)
        BY <1>7, <2>3, <3>1, <3>2, <3>3, Members DEF List!End, Destroy, entries, Alive
    <3> QED
        BY <3>4 DEF List!Next
  <2>4. ~UseEnded(a) /\ ~DestroyAgain(a)
    BY <1>7 DEF UseEnded, DestroyAgain, Misuse
  <2> QED
    BY <1>7, <2>1, <2>2, <2>3, <2>4 DEF ApplicationStep
<1>8. ASSUME NEW adapter \in Place \cup {NULL}, AddAdapter(adapter), broken' = {}
      PROVE  Goal
  <2>1. Added(adapter) /\ object' = object /\ adapter # NULL /\ Live(adapter)
    BY <1>8 DEF AddAdapter, heap, Added, Ended, Live
  <2>2. Live(adapter)' /\ {b \in Place : Live(b)}' = {b \in Place : Live(b)}
    BY <2>1 DEF Live
  <2>3. List!Add(adapter)
    BY <1>6, <1>8, <2>1, <2>2 DEF Live
  <2> QED
    BY <2>1, <2>2, <2>3 DEF List!Next, Live
<1>9. ASSUME NEW a \in Place, AddNewAdapter(a), broken' = {} PROVE Goal
  <2>1. Added(a) /\ Constructed(a) /\ Live(a)'
    BY <1>3, <1>9 DEF AddNewAdapter, Constructed, Live
  <2>2. List!Begin(a) /\ List!Add(a)
    BY <1>1, <1>5, <1>6, <1>9, <2>1
  <2> QED
    BY <2>2 DEF List!Next
<1>10. ASSUME NEW adapter, RemoveAdapter(adapter), broken' = {} PROVE Goal
  <2>1. /\ open /\ open' = open /\ broken' = broken /\ object' = object
        /\ adapter \in Entries
    BY <1>10 DEF RemoveAdapter, heap
  <2>2. adapter \in Place
    BY <1>4, <1>10, <2>1 DEF Alive
  <2>3. \E n \in DOMAIN AdaptersVector :
           /\ AdaptersVector[n] = adapter
           /\ AdaptersVector' = [m \in 1..Len(AdaptersVector) - 1 |->
                                    AdaptersVector[IF m < n THEN m ELSE m + 1]]
    BY <1>3, <1>10, RemovedTypes
  <2>4. {b \in Place : Live(b)}' = {b \in Place : Live(b)}
    BY <2>1 DEF Live
  <2>5. List!Remove(adapter)
    BY <2>1, <2>3, <2>4 DEF List!Remove
  <2> QED
    BY <2>2, <2>5 DEF List!Next
<1>11. ASSUME DestroyUOP PROVE Goal
  <2>1. /\ open /\ open' = FALSE /\ AdaptersVector' = <<>> /\ broken' = broken
        /\ object' = [a \in Place |-> IF a \in Entries THEN "dead" ELSE object[a]]
    BY <1>11 DEF DestroyUOP
  <2>2. {b \in Place : Live(b)}' = {b \in Place : Live(b)} \ Entries
    BY <2>1 DEF Live
  <2> QED
    BY <2>1, <2>2, Members DEF List!Next, List!Close
<1>12. ASSUME CallEnded \/ CoreFails \/ DestroyUOPFails, broken' = {} PROVE FALSE
  <2>1. IInv' /\ undefined'
    BY <1>12, NextIInv DEF CallEnded, Misuse, CoreFails, DestroyUOPFails
  <2> QED
    BY <1>12, <2>1 DEF IInv, Rules, RulesSuffice
<1> HIDE DEF Goal
<1>13. Goal
    BY <1>2, <1>7, <1>8, <1>9, <1>10, <1>11, <1>12 DEF Next, RegistryStep
<1> QED
    BY <1>13 DEF Goal

(* For an application that keeps the rules the class is a list of adapters *)
(* that are alive: in the order in which they were added, each once; the   *)
(* UOP ends those that are still in it.                                    *)
THEOREM Implements == Spec => ListSpec
<1>1. Init => List!Init
  <2>1. Init => {a \in Place : Live(a)} = {}
    BY DEF Init, Live
  <2> QED
    BY <2>1 DEF Init, List!Init
<1>2. IInv /\ [Next]_vars => [List!Next]_(List!vars)
  <2>1. UNCHANGED vars => UNCHANGED List!vars
    BY DEF vars, entries, heap, List!vars, Live
  <2> QED
    BY <2>1, StepImplements
<1> QED
    BY <1>1, <1>2, Invariance, PTL DEF Spec, ListSpec, List!Spec

=============================================================================
