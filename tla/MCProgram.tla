----------------------------- MODULE MCProgram -----------------------------
EXTENDS Program

O(n, a) == [name |-> n, arg |-> a]
Arguments ==
  {O("size", 3), O("size", 4), O("diagPart", 0), O("diag", 3), O("diag", 4),
   O("firstRow", 3), O("fixFR", 1), O("fixFR", 0), O("unfixFR", 2), O("maxMC", 0),
   O("maxMC", 5)}

(* Every command line of up to three options, and the loop for the other   *)
(* sizes.                                                                  *)
TheLines == UNION {[1 .. k -> Arguments] : k \in 0 .. 3}
              \cup {<<O("size", s), O("diagPart", 0)>> : s \in 0 .. 7}

(* Searches that differ in variables and models.                           *)
Sizes == [i \in 1 .. 15 |-> 10 + ((3 * i) % 5)]
Counts == [i \in 1 .. 15 |-> i * i]
=============================================================================
