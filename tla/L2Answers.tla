------------------------------ MODULE L2Answers ------------------------------
(***************************************************************************)
(* What the L2 contract promises, one step per transaction: a bag of       *)
(* one-shot answers that only the system address adds to, an exact count   *)
(* of it, and an ether reserve that a transaction draws on at most by the  *)
(* ether the system sends along with the call it delivers.                 *)
(*                                                                         *)
(* A bag is the function that says how often each answer is in it.         *)
(***************************************************************************)
EXTENDS Integers, FiniteSets

CONSTANTS
    Entries,  \* the answers there are
    Tables,   \* bags of answers the system may add
    Values,   \* ether it may send along with a call
    Reserve   \* ether of the system address at genesis

VARIABLES
    pending,  \* the answers not used yet
    count,    \* how many there are
    system,   \* ether of the system address
    manager   \* ether of the contract

answers == <<pending, count, system, manager>>

Size(bag) == Cardinality(UNION {{<<e, i>> : i \in 1..bag[e]} : e \in Entries})

Init ==
    /\ pending = [e \in Entries |-> 0]
    /\ count = 0
    /\ system = Reserve
    /\ manager = 0

Load(table) ==
    /\ pending' = [e \in Entries |-> pending[e] + table[e]]
    /\ count' = Size(pending')
    /\ UNCHANGED <<system, manager>>

Transact(value) ==
    /\ \A e \in Entries : pending'[e] <= pending[e]
    /\ count' = Size(pending')
    /\ system' >= system - value
    /\ manager' <= manager + value

Next == \/ \E table \in Tables : Load(table)
        \/ \E value \in Values \cup {0} : Transact(value)

Spec == Init /\ [][Next]_answers
=============================================================================
