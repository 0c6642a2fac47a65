----------------------------- MODULE TaskSlots -----------------------------
(***************************************************************************)
(* What the task queue promises: `held` is the set of tasks agents are at   *)
(* work on.  A task is taken only when its agent has a free slot and holds  *)
(* no other task of the same subject, one at a time; any number may be      *)
(* dropped at once, and new tasks may appear in a step that takes none.     *)
(***************************************************************************)
EXTENDS Integers, FiniteSets

CONSTANTS Rows, Capacity, Nobody
VARIABLES who,   \* task -> << agent, subject >>, Nobody before it exists
          held   \* the tasks agents are at work on

vars == << who, held >>

Load(i) == {j \in held : who[j][1] = who[i][1]}

Init == who = [i \in Rows |-> Nobody] /\ held = {}

Take(i) ==
    /\ i \in Rows \ held /\ who[i] # Nobody
    /\ Cardinality(Load(i)) < Capacity
    /\ \A j \in held : who[j] # who[i]
    /\ held' = held \cup {i}
    /\ UNCHANGED who

Release ==
    /\ held' \subseteq held
    /\ DOMAIN who' = Rows
    /\ \A i \in Rows : who[i] # Nobody => who'[i] = who[i]

Next == Release \/ \E i \in Rows : Take(i)

Spec == Init /\ [][Next]_vars

\* No agent holds more than Capacity tasks, nor two of one subject.
Exclusive ==
    /\ \A i, j \in held : who[i] = who[j] => i = j
    /\ \A i \in held : Cardinality(Load(i)) <= Capacity
=============================================================================
