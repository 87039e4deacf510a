------------------------------ MODULE CycleSets ------------------------------
(***************************************************************************)
(* What the program enumerates: cycle sets on 0..N-1, up to isomorphism.   *)
(* Nothing here is translated from code; the other modules are compared    *)
(* with these definitions.                                                 *)
(***************************************************************************)
EXTENDS Integers, FiniteSets, Sequences

CONSTANT N

V == 0..(N - 1)
Bijections == {f \in [V -> V] : \A x \in V : \E y \in V : f[y] = x}

(* A cycle set: every row of the table is a permutation, the law           *)
(* (x.y).(x.z) = (y.x).(y.z) holds, and the diagonal is a permutation.     *)
IsCycleSet(M) ==
  /\ \A x, y \in V : x < y =>
       \A z \in V : M[M[x][y]][M[x][z]] = M[M[y][x]][M[y][z]]
  /\ \A v \in V : \E x \in V : M[x][x] = v

(* All of them, and those with a given diagonal.                           *)
AllCycleSets == {M \in [V -> Bijections] : IsCycleSet(M)}

(* The latter are built row by row.                                        *)
RowsWith(d, x) == {f \in Bijections : f[x] = d[x]}
Prefixes(d) ==
  LET rows[k \in 0..N] ==
        IF k = 0 THEN {<<>>}
        ELSE {Append(t, f) : t \in rows[k - 1], f \in RowsWith(d, k - 1)}
  IN rows

WithDiagonal(d) ==
  {M \in {[x \in V |-> t[x + 1]] : t \in Prefixes(d)[N]} : IsCycleSet(M)}

(* Renaming the points of M by p.                                          *)
Renamed(M, p) ==
  LET inv == [v \in V |-> CHOOSE x \in V : p[x] = v]
  IN [r \in V |-> [c \in V |-> inv[M[p[r]][p[c]]]]]

(* Row by row comparison of two tables.                                    *)
LexLess(A, B) ==
  \E r, c \in V :
    /\ A[r][c] < B[r][c]
    /\ \A i, j \in V : i < r \/ (i = r /\ j < c) => A[i][j] = B[i][j]

(* The representative of its class: no renaming by a permutation of G is   *)
(* smaller.                                                                *)
IsMinimal(M, G) == \A p \in G : ~LexLess(Renamed(M, p), M)

(* The permutations that keep a diagonal: renaming by them keeps M[x][x].  *)
Centraliser(d) == {p \in Bijections : \A x \in V : p[d[x]] = d[p[x]]}

Symmetric == Bijections
=============================================================================
