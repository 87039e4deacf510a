----------------------------- MODULE MCMinCheck -----------------------------
EXTENDS MinCheck

Cyc(n) == [x \in Val |-> IF x < n THEN (x + 1) % n ELSE x]
TwoTwo == [x \in Val |-> CASE x = 0 -> 1 [] x = 1 -> 0 [] x = 2 -> 3 [] x = 3 -> 2]

(* Limits that never apply, and limits that stop most checks of partial    *)
(* tables: pairs of maxMC and maxDepth.                                    *)
Unlimited == <<1000, 1000>>
Tight == <<3, 1>>

Conf(D, B, P, O, S, L) ==
  {s \in [diag : D, useBit : B, propagateMincheck : P, oldBreakingClauses : O,
          smallerEncoding : S, maxMC : {L[1]}, maxDepth : {L[2]}] :
     /\ s.smallerEncoding => s.diag # NoDiagonal
     /\ s.useBit => s.diag # NoDiagonal}

TheSettings ==
  Conf({NoDiagonal}, {FALSE}, BOOLEAN, BOOLEAN, {FALSE}, Unlimited)
    \cup Conf({Cyc(2), TwoTwo, Cyc(3), Cyc(4)}, BOOLEAN, BOOLEAN, BOOLEAN, {TRUE}, Unlimited)
    \cup Conf({Cyc(2), TwoTwo}, BOOLEAN, {FALSE}, BOOLEAN, {FALSE}, Tight)

(* The domains once the entries in K have the values of table M: what unit *)
(* propagation in the rows leaves.                                         *)
Partly(M, K) ==
  [r \in Val |-> [c \in Val |->
     IF <<r, c>> \in K THEN {M[r][c]}
     ELSE Val \ {M[r][x] : x \in {y \in Val : <<r, y>> \in K}}]]

(* The domains that two tables leave open between them.                    *)
Hull(A, B) == [r \in Val |-> [c \in Val |-> {A[r][c], B[r][c]}]]

(* The sets of known entries: with a diagonal, the diagonal, any entries   *)
(* of the first row and whole rows of the others; without one, the first   *)
(* rows.                                                                   *)
Known(d) ==
  IF d = NoDiagonal
  THEN {(0 .. n) \X Val : n \in Val}
  ELSE {{<<x, x>> : x \in Val} \cup ({0} \X A) \cup (R \X Val) :
          A \in SUBSET Val, R \in SUBSET (Val \ {0})}

TheDoms == UNION {{<<x[1], Partly(x[2], K)>> : K \in Known(x[1])} : x \in Tables}
             \cup {<<z[1][1], Hull(z[1][2], z[2][2])>> :
                     z \in {w \in Tables \X Tables :
                              w[1][1] = w[2][1] /\ w[1][1] # NoDiagonal}}

(* What the theorems about the check ask of its caller.                    *)
ASSUME CallerAssumption == DiagonalsBuilt /\ DiagonalsKnown /\ CompleteAreTables
=============================================================================
