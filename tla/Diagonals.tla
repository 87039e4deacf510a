------------------------------ MODULE Diagonals ------------------------------
(***************************************************************************)
(* Which diagonals the search visits: main.cpp calls part, a recursive     *)
(* generator of integer partitions that writes into ONE vector v shared by *)
(* all activations, and makeDiagonals turns every partition into a         *)
(* permutation.  Two conjugate diagonals would report every solution       *)
(* twice, a missing class would lose solutions, and the partial            *)
(* permutations of the minimality check rely on the shape of the           *)
(* permutations built here.                                                *)
(*                                                                         *)
(* The recursion is explicit: stack is the sequence of the activations of  *)
(* part, each with its arguments n and level and its loop variable i       *)
(* (0 before the loop).  Vectors are functions on 0..k-1.                  *)
(***************************************************************************)
EXTENDS Integers, FiniteSets, SequencesExt

VARIABLES
  size,                 \* problem_size
  v,                    \* the vector toPart
  parts,                \* the partitions found, without their ones
  stack,                \* the activations of part, the innermost one last
  diags,                \* the diagonals, in the order the driver visits them
  done                  \* makeDiagonals has returned

vars == <<size, v, parts, stack, diags, done>>

Val == 0..(size - 1)
Frame(n, level) == [n |-> n, level |-> level, i |-> 0]
Top == stack[Len(stack)]

(* No call of part yet.                                                    *)
Init ==
  /\ size = 0 /\ v = <<>> /\ parts = <<>> /\ stack = <<>> /\ diags = <<>>
  /\ done = FALSE

(* main fills toPart with 0, 1, 2, ..., pushes the identity as the first   *)
(* diagonal and calls part(problem_size, toPart, 0, parts).                *)
CallPart(n) ==
  /\ diags = <<>>
  /\ size' = n
  /\ v' = [x \in 0..(n - 1) |-> x]
  /\ parts' = <<>>
  /\ stack' = <<Frame(n, 0)>>
  /\ diags' = <<[x \in 0..(n - 1) |-> x]>>
  /\ done' = FALSE

(* The entries of v up to level that are not 1, in order.                  *)
BigParts(w, level) ==
  SelectSeq([j \in 1..(level + 1) |-> w[j - 1]], LAMBDA x : x # 1)

(* part is entered with n < 1 and returns at once.                         *)
ReturnEmpty ==
  /\ stack # <<>>
  /\ Top.n < 1
  /\ stack' = Front(stack)
  /\ UNCHANGED <<size, v, parts, diags, done>>

(* Mutant: the loop starts at 1 on every level.                            *)
EnterFromOne ==
  /\ stack # <<>> /\ Top.n >= 1 /\ Top.i = 0
  /\ v' = [v EXCEPT ![Top.level] = Top.n]
  /\ LET p == BigParts(v', Top.level)
     IN parts' = IF p = <<>> THEN parts ELSE Append(parts, p)
  /\ stack' = [stack EXCEPT ![Len(stack)].i = 1]
  /\ UNCHANGED <<size, diags, done>>

(* The head of part: the partition that ends with n is recorded, and the   *)
(* loop starts at the part before it.                                      *)
Enter ==
  /\ stack # <<>>
  /\ Top.n >= 1
  /\ Top.i = 0
  /\ v' = [v EXCEPT ![Top.level] = Top.n]
  /\ LET p == BigParts(v', Top.level)
     IN parts' = IF p = <<>> THEN parts ELSE Append(parts, p)
  /\ stack' = [stack EXCEPT ![Len(stack)].i =
                 IF Top.level = 0 THEN 1 ELSE v'[Top.level - 1]]
  /\ UNCHANGED <<size, diags, done>>

(* One iteration: v[level] = i, then the recursive call; the caller's loop *)
(* variable already points to the next iteration.                          *)
Recurse ==
  /\ stack # <<>>
  /\ Top.i # 0
  /\ Top.i <= Top.n \div 2
  /\ v' = [v EXCEPT ![Top.level] = Top.i]
  /\ stack' = Append([stack EXCEPT ![Len(stack)].i = Top.i + 1],
                     Frame(Top.n - Top.i, Top.level + 1))
  /\ UNCHANGED <<size, parts, diags, done>>

(* The loop is over and part returns.                                      *)
Return ==
  /\ stack # <<>>
  /\ Top.i # 0
  /\ Top.i > Top.n \div 2
  /\ stack' = Front(stack)
  /\ UNCHANGED <<size, v, parts, diags, done>>

(* The permutation of a partition: the j-th cycle consists of the next     *)
(* p[j] numbers, each mapped to its successor and the last one to the      *)
(* first; the remaining numbers are fixed.                                 *)
Before(p, j) == FoldLeft(LAMBDA a, b : a + b, 0, SubSeq(p, 1, j))
PermOfPart(p) ==
  [x \in Val |->
     IF \E j \in DOMAIN p : Before(p, j - 1) <= x /\ x < Before(p, j)
     THEN LET j == CHOOSE j \in DOMAIN p :
                     Before(p, j - 1) <= x /\ x < Before(p, j)
          IN IF x + 1 < Before(p, j) THEN x + 1 ELSE Before(p, j - 1)
     ELSE x]

makeDiagonals ==
  /\ stack = <<>>
  /\ diags # <<>>
  /\ ~done
  /\ diags' = diags \o [k \in DOMAIN parts |-> PermOfPart(parts[k])]
  /\ done' = TRUE
  /\ UNCHANGED <<size, v, parts, stack>>

PartStep == ReturnEmpty \/ Enter \/ Recurse \/ Return \/ makeDiagonals
-----------------------------------------------------------------------------
(* Reference definitions: orbits and cycle types of permutations.          *)
Perms == {f \in [Val -> Val] : \A x, y \in Val : f[x] = f[y] => x = y}

Iterate(f, x) ==
  LET it[k \in 0..size] == IF k = 0 THEN x ELSE f[it[k - 1]]
  IN {it[k] : k \in 0..size}

(* How many points lie on cycles of each length: conjugate permutations    *)
(* are those that agree on it.                                             *)
CycleType(f) ==
  LET len == [x \in Val |-> Cardinality(Iterate(f, x))]
  IN [k \in 1..size |-> Cardinality({x \in Val : len[x] = k})]

(* part writes v[level] without a bounds check: the recursion never goes   *)
(* deeper than the vector is long (useful.cpp, part).                      *)
LevelInBounds ==
  \A k \in DOMAIN stack : stack[k].n >= 1 => stack[k].level < size

(* The shared vector survives the recursion: whenever control is back in   *)
(* an activation, the entries its callers wrote are still theirs.  Each    *)
(* callee splits what its caller's entry leaves, so v[0..l-1] and n of an  *)
(* activation add up to the whole size, and these entries never decrease.  *)
SharedVectorKept ==
  /\ \A k \in DOMAIN stack :
       /\ stack[k].level = k - 1
       /\ stack[k].n = IF k = 1 THEN size ELSE stack[k - 1].n - v[k - 2]
  /\ \A k \in 1..(Len(stack) - 2) : v[k - 1] <= v[k]

(* The diagonals visited are permutations, exactly one of every conjugacy  *)
(* class (main.cpp runs one search per entry and adds up the counts).      *)
OnePerClass ==
  done =>
    /\ \A k \in DOMAIN diags : diags[k] \in Perms
    /\ \A k, l \in DOMAIN diags :
         CycleType(diags[k]) = CycleType(diags[l]) => k = l
    /\ {CycleType(f) : f \in Perms} = {CycleType(diags[k]) : k \in DOMAIN diags}

(* What the partial permutations need of a diagonal: its cycles are        *)
(* intervals run through upwards, and so are the classes of points on      *)
(* cycles of equal length, because positions in cyclePerm_t and            *)
(* pperm_plain are used as if they were the points themselves.             *)
CyclesAreIntervals ==
  done => \A k \in DOMAIN diags :
    LET d == diags[k]
        len == [x \in Val |-> Cardinality(Iterate(d, x))]
    IN /\ \A x \in Val : d[x] = x + 1 \/ \A y \in Iterate(d, x) : d[x] <= y
       /\ \A x, y, z \in Val : x < y /\ y < z /\ len[x] = len[z] => len[y] = len[x]
=============================================================================
