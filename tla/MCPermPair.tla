----------------------------- MODULE MCPermPair -----------------------------
EXTENDS PermPair

(* Diagonals made of the cycles that makeDiagonals builds: consecutive     *)
(* points, cycles of length > 1 first, shorter before longer.              *)
Block(p) ==
  LET sum[j \in 0..Len(p)] == IF j = 0 THEN 0 ELSE sum[j - 1] + p[j]
  IN [x \in Val |->
        IF \E j \in DOMAIN p : sum[j - 1] <= x /\ x < sum[j]
        THEN LET j == CHOOSE j \in DOMAIN p : sum[j - 1] <= x /\ x < sum[j]
             IN IF x + 1 < sum[j] THEN x + 1 ELSE sum[j - 1]
        ELSE x]
BlockDiags ==
  {Block(p) : p \in {<<>>, <<2>>, <<2, 2>>, <<2, 2, 2>>, <<3>>, <<3, 3>>, <<2, 3>>, <<2, 4>>, <<6>>}}

ASSUME BlockDiagsAssumption == \A d \in BlockDiags : Consecutive(d)
=============================================================================
