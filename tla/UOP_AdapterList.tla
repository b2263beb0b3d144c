-------------------------- MODULE UOP_AdapterList --------------------------
(***************************************************************************)
(* What the registry of class UOP promises an application that keeps its   *)
(* rules: adapters stand in the list in the order in which they were       *)
(* added, each once; one that is removed leaves the others as they are;    *)
(* whoever is in the list is alive; and with the registry end the adapters *)
(* that are still in it, and no others.                                    *)
(***************************************************************************)
EXTENDS Naturals, Sequences

CONSTANTS Place           \* where an adapter may stand in memory

VARIABLES
    list,                 \* the adapters of the registry
    alive,                \* the adapters there are
    open,                 \* is there a registry?
    kept                  \* has the application kept the rules?

vars == <<list, alive, open, kept>>

Members == {list[n] : n \in DOMAIN list}

Init == list = <<>> /\ alive = {} /\ open = TRUE /\ kept = TRUE

Begin(a) ==
    /\ a \in Place \ (alive \cup Members)
    /\ alive' = alive \cup {a}

Add(a) ==
    /\ open
    /\ a \in alive' \ Members
    /\ list' = Append(list, a)
    /\ UNCHANGED <<open, kept>>

(* The others keep their order.                                            *)
Remove(a) ==
    /\ open
    /\ \E n \in DOMAIN list :
          /\ list[n] = a
          /\ list' = [m \in 1..Len(list) - 1 |-> list[IF m < n THEN m ELSE m + 1]]
    /\ UNCHANGED <<alive, open, kept>>

End(a) ==
    /\ a \in alive \ Members
    /\ alive' = alive \ {a}
    /\ UNCHANGED <<list, open, kept>>

Close ==
    /\ open
    /\ open' = FALSE
    /\ alive' = alive \ Members
    /\ list' = <<>>
    /\ UNCHANGED kept

(* Nothing is promised once a rule has been broken.                        *)
Lapse == ~kept'

Next ==
    \/ \E a \in Place :
          \/ Begin(a) /\ UNCHANGED <<list, open, kept>>
          \/ Begin(a) /\ Add(a)
          \/ alive' = alive /\ Add(a)
          \/ Remove(a)
          \/ End(a)
    \/ Close
    \/ Lapse

Spec == Init /\ [][Next]_vars

=============================================================================
