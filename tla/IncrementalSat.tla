--------------------------- MODULE IncrementalSat ---------------------------
(***************************************************************************)
(* What the incremental interface of CaDiCaL promises, whatever happens to *)
(* the clauses inside: solve answers for the clauses added so far under    *)
(* the assumptions and the constraint made since the previous answer, and  *)
(* with 10 there is a model of all of them.                                *)
(***************************************************************************)
EXTENDS Integers, FiniteSets

CONSTANT Vars       \* the variables, a set 1..n

VARIABLES clauses,    \* the clauses added so far
          assumptions, \* the literals assumed for the next answer
          constraint, \* the constraint clause of the next answer, in a set
          answer      \* the last answer: res 10, 20 or 0, and a model

svars == <<clauses, assumptions, constraint, answer>>

AllLits == Vars \cup {-v : v \in Vars}
Models == {{IF f[v] THEN v ELSE -v : v \in Vars} : f \in [Vars -> BOOLEAN]}

(* A model of the query: the clauses, the assumptions and the constraint.  *)
Solves(A) == /\ \A c \in clauses \cup constraint : c \cap A # {}
             /\ assumptions \subseteq A

NoAnswer == [res |-> 0, model |-> {}]

Init == /\ clauses = {} /\ assumptions = {} /\ constraint = {}
        /\ answer = NoAnswer

(* The user may add to the query at any time; after a definite answer this *)
(* starts a new query.                                                     *)
Ask ==
    /\ clauses \subseteq clauses'
    /\ assumptions' \in SUBSET AllLits
    /\ assumptions \subseteq assumptions' \/ answer.res # 0
    /\ answer' = NoAnswer

Solve ==
    /\ answer.res = 0
    /\ \/ answer' = NoAnswer /\ assumptions' = {} /\ constraint' = {}
       \/ /\ \E A \in Models : Solves(A) /\ answer' = [res |-> 10, model |-> A]
          /\ UNCHANGED <<assumptions, constraint>>
       \/ /\ ~\E A \in Models : Solves(A)
          /\ answer' = [res |-> 20, model |-> {}]
          /\ UNCHANGED <<assumptions, constraint>>
    /\ UNCHANGED clauses

Next == Ask \/ Solve

Spec == Init /\ [][Next]_svars
=============================================================================
