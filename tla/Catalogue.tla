----------------------------- MODULE Catalogue -----------------------------
(***************************************************************************)
(* What the enumeration promises: the solutions written to the output file *)
(* are minimal cycle sets, each is written at most once, and a search that *)
(* ends because the formula is unsatisfiable has written all of them.      *)
(***************************************************************************)
EXTENDS Naturals

CONSTANT Minimal       \* the minimal cycle sets, one per isomorphism class

VARIABLES written,     \* how often each one was written
          finished     \* "no", "complete" or "cut short" (time limit)

vars == <<written, finished>>

Init == /\ written = [m \in Minimal |-> 0]
        /\ finished = "no"

Write(m) == /\ finished = "no"
            /\ written[m] = 0
            /\ written' = [written EXCEPT ![m] = 1]
            /\ UNCHANGED finished

Finish == /\ finished = "no"
          /\ finished' = "complete"
          /\ \A m \in Minimal : written[m] = 1
          /\ UNCHANGED written

CutShort == /\ finished = "no"
            /\ finished' = "cut short"
            /\ UNCHANGED written

Next == (\E m \in Minimal : Write(m)) \/ Finish \/ CutShort

Spec == Init /\ [][Next]_vars
=============================================================================
