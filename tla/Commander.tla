------------------------------ MODULE Commander ------------------------------
(***************************************************************************)
(* One group of literals under exactlyOne, alone: the members get truth    *)
(* values, and unit propagation decides the auxiliary variables and        *)
(* whether the group is satisfied.                                         *)
(***************************************************************************)
EXTENDS ExactlyOne

CONSTANT MaxGroup       \* the longest group

VARIABLES size,         \* how many literals the group has
          commander,    \* the commander encoding is used
          chosen,       \* the members that are true
          assigned,     \* the literals that are true
          phase

vars == <<size, commander, chosen, assigned, phase>>

(* The group is 1..size; a zero in it is an entry without a variable.      *)
Group(n) == <<0>> \o [i \in 1..n |-> i]
Encoded == exactlyOne(Group(size), size + 1, ~commander)

Init ==
  /\ size \in 1..MaxGroup
  /\ commander \in BOOLEAN
  /\ chosen \in SUBSET (1..size)
  /\ assigned = chosen \cup {-i : i \in (1..size) \ chosen}
  /\ phase = "propagate"

Propagate ==
  /\ phase = "propagate"
  /\ LET C == Encoded.cnf
     IN IF Falsified(C, assigned) THEN phase' = "unsat" /\ UNCHANGED assigned
        ELSE IF UnitLits(C, assigned) = {} THEN phase' = "sat" /\ UNCHANGED assigned
        ELSE assigned' = assigned \cup UnitLits(C, assigned) /\ UNCHANGED phase
  /\ UNCHANGED <<size, commander, chosen>>

Done == phase # "propagate" /\ UNCHANGED vars

Next == Propagate \/ Done

Spec == Init /\ [][Next]_vars
-----------------------------------------------------------------------------
(* A block boundary off by one leaves a literal out or two literals        *)
(* unrelated: the clauses hold for exactly the assignments with one true   *)
(* member, for every length of the group.                                  *)
ExactlyOneTrue ==
  /\ phase = "sat" => Cardinality(chosen) = 1
  /\ phase = "unsat" => Cardinality(chosen) # 1

(* The members decide every auxiliary variable, and the encoding uses the  *)
(* variables it took from the counter and no others.                       *)
AuxiliariesDecided ==
  phase = "sat" => {IF l < 0 THEN -l ELSE l : l \in assigned} = 1..(Encoded.free - 1)
=============================================================================
