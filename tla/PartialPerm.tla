----------------------------- MODULE PartialPerm -----------------------------
(***************************************************************************)
(* Partial permutations of useful.cpp, on which the minimality check       *)
(* branches.  There are two representations behind one interface           *)
(* (pperm_common):                                                         *)
(*                                                                         *)
(*   pperm_plain  a full permutation `element` cut into blocks (`part`     *)
(*                holds the block starts): the points at the positions of  *)
(*                a block may still be exchanged, a position that is a     *)
(*                block of its own is fixed;                               *)
(*   pperm_bit    the set of possible images of every point.               *)
(*                                                                         *)
(* Both are used as values; Fix returns the object after the call and the  *)
(* call's result.  The diagonal d is a permutation of Val given to the     *)
(* constructors, and cyclePerm_t keeps its cycles one after the other.     *)
(***************************************************************************)
EXTENDS Integers, Sequences, FiniteSets, FiniteSetsExt

CONSTANT N              \* problem_size

ASSUME NAssumption == N \in Nat \ {0}

Val == 0..(N - 1)
None == -1              \* "no image": what permOf and invPermOf return

Identity == [x \in Val |-> x]

(* The members of a set of numbers in increasing order.                    *)
Ascending(S) ==
  [k \in 1..Cardinality(S) |->
     CHOOSE x \in S : Cardinality({y \in S : y < x}) = k - 1]
-----------------------------------------------------------------------------
(* permToCyclePerm: the cycles of d, each started at its least point, the  *)
(* cycles in the order of these points.                                    *)
Power(d, x) == LET it[k \in 0..N] == IF k = 0 THEN x ELSE d[it[k - 1]]
               IN it

CycleOf(d, x) == {Power(d, x)[k] : k \in 0..N}
CycleMin(d, x) == Min(CycleOf(d, x))

(* Where the concatenated cycles hold x, and where cycles start.           *)
CyclePosition(d, x) ==
  Cardinality({y \in Val : CycleMin(d, y) < CycleMin(d, x)})
    + Min({k \in 0..N : Power(d, CycleMin(d, x))[k] = x})

CycleStarts(d) == {CyclePosition(d, x) : x \in {y \in Val : y = CycleMin(d, y)}}

(* The loops of cycle, options and invOptions: the positions of the block  *)
(* of el, from el to the end and then from the start up to el.             *)
BlockStart(S, el) == Max({0} \cup {i \in S : i <= el})
BlockEnd(S, el) == Min({N} \cup {i \in S : i > el})

Ring(S, el) ==
  LET p == BlockStart(S, el)
      n == BlockEnd(S, el) - p
  IN [k \in 1..n |-> p + ((el - p + k - 1) % n)]

(* cyclePerm_t::cycle: positions, which the caller takes for points.  For  *)
(* el = -1 it reads part[-1]: `below` says whether that word is positive.  *)
cycle(S, el, below) ==
  IF el # None THEN Ring(S, el)
  ELSE IF below THEN <<>> ELSE <<None>> \o Ring(S, 0)
-----------------------------------------------------------------------------
(* cycleToParts: the points on cycles of the same length form a class; the *)
(* classes are ordered by their least points, each in increasing order.    *)
ClassOf(d, x) ==
  {y \in Val : Cardinality(CycleOf(d, y)) = Cardinality(CycleOf(d, x))}

ClassPosition(d, x) ==
  Cardinality({y \in Val : \/ Min(ClassOf(d, y)) < Min(ClassOf(d, x))
                           \/ y \in ClassOf(d, x) /\ y < x})

(* The constructors.                                                       *)
pperm_plain(d) ==
  [kind |-> "plain",
   element |-> [i \in Val |-> CHOOSE x \in Val : ClassPosition(d, x) = i],
   part |-> {ClassPosition(d, x) : x \in {y \in Val : y = Min(ClassOf(d, y))}}]

pperm_bit(d) == [kind |-> "bit", info |-> [x \in Val |-> ClassOf(d, x)]]
-----------------------------------------------------------------------------
(* pperm_plain.                                                            *)
PlainFixed(p, el) == el \in p.part /\ (el = N - 1 \/ el + 1 \in p.part)
IndexOf(p, img) == CHOOSE i \in Val : p.element[i] = img

PlainOptions(p, el) ==
  LET ring == Ring(p.part, el) IN [k \in DOMAIN ring |-> p.element[ring[k]]]

PlainInvOptions(p, img) == Ring(p.part, IndexOf(p, img))

(* Mutant: a fixed position is exchanged like any other.                   *)
PlainFixUnguarded(p, el, img) ==
  [perm |-> [p EXCEPT !.element =
                 [@ EXCEPT ![el] = img, ![IndexOf(p, img)] = p.element[el]],
                      !.part = @ \cup ({el + 1} \cap Val)],
   ok |-> TRUE]

(* The images of el and of the position of img are exchanged, whatever the *)
(* block of that position, and a new block starts after el.                *)
PlainFix(p, el, img) ==
  IF PlainFixed(p, el) \/ PlainFixed(p, IndexOf(p, img))
  THEN [perm |-> p, ok |-> p.element[el] = img]
  ELSE LET swp == IndexOf(p, img)
       IN [perm |-> [p EXCEPT
                       !.element = [@ EXCEPT ![el] = img, ![swp] = p.element[el]],
                       !.part = @ \cup ({el + 1} \cap Val)],
           ok |-> TRUE]
-----------------------------------------------------------------------------
(* pperm_bit.                                                              *)
BitFixed(p, el) == Cardinality(p.info[el]) = 1
BitInverse(p, img) == {i \in Val : p.info[i] = {img}}

(* Mutant: the image stays possible for the other points.                  *)
BitFixAlone(p, el, img) ==
  [perm |-> IF img \in p.info[el] THEN [p EXCEPT !.info[el] = {img}] ELSE p,
   ok |-> img \in p.info[el]]

(* The points are visited in increasing order and the call returns false   *)
(* at the first one left without an image; those after it are untouched.   *)
BitFix(p, el, img) ==
  LET emptied == {i \in Val \ {el} : p.info[i] \subseteq {img}}
      last == IF emptied = {} THEN N - 1 ELSE Min(emptied)
  IN IF img \notin p.info[el] THEN [perm |-> p, ok |-> FALSE]
     ELSE [perm |-> [p EXCEPT !.info =
                       [i \in Val |-> IF i > last THEN p.info[i]
                                      ELSE IF i = el THEN {img}
                                      ELSE p.info[i] \ {img}]],
           ok |-> emptied = {}]
-----------------------------------------------------------------------------
(* The interface pperm_common.                                             *)
fixed(p, el) == IF p.kind = "plain" THEN PlainFixed(p, el) ELSE BitFixed(p, el)
fullDefined(p) == \A i \in Val : fixed(p, i)

permOf(p, el) ==
  IF ~fixed(p, el) THEN None
  ELSE IF p.kind = "plain" THEN p.element[el] ELSE Min(p.info[el])

invPermOf(p, img) ==
  IF p.kind = "plain"
  THEN IF PlainFixed(p, IndexOf(p, img)) THEN IndexOf(p, img) ELSE None
  ELSE IF BitInverse(p, img) = {} THEN None ELSE Min(BitInverse(p, img))

options(p, el) ==
  IF p.kind = "plain" THEN PlainOptions(p, el) ELSE Ascending(p.info[el])

invOptions(p, img) ==
  IF p.kind = "plain" THEN {PlainInvOptions(p, img)[k] :
                              k \in DOMAIN PlainInvOptions(p, img)}
  ELSE {i \in Val : img \in p.info[i]}

fix(p, el, img) ==
  IF p.kind = "plain" THEN PlainFix(p, el, img) ELSE BitFix(p, el, img)

(* getPerm: pperm_plain returns `element`, fixed or not.                   *)
getPerm(p) ==
  IF p.kind = "plain" THEN p.element ELSE [i \in Val |-> permOf(p, i)]
-----------------------------------------------------------------------------
(* fix for a sequence of pairs, up to the first one that fails.            *)
FixAll(p, pairs) ==
  LET after[k \in 0..Len(pairs)] ==
        IF k = 0 THEN [perm |-> p, ok |-> TRUE]
        ELSE LET prev == after[k - 1]
             IN IF prev.ok THEN fix(prev.perm, pairs[k][1], pairs[k][2]) ELSE prev
  IN after[Len(pairs)]

(* Mutant: a cycle is not followed to the end.                             *)
propagateDecisionFirst(p, r, S, below) ==
  LET og == cycle(S, r, below)
      to == cycle(S, permOf(p, r), below)
  IN IF Len(og) # Len(to) \/ Len(og) = 1
     THEN [perm |-> p, ok |-> Len(og) = Len(to)]
     ELSE fix(p, og[2], to[2])

(* MinCheck_V2::propagateDecision: the image of r decides those of the     *)
(* points on its cycle.  An image on the cycle itself, at distance k, is   *)
(* followed along the cycle; another cycle must have the same length.      *)
FollowCycle(p, og, dec, S, below) ==
  LET at == {k \in DOMAIN og : og[k] = dec}
      to == IF at # {}
            THEN [k \in DOMAIN og |-> og[((k + Min(at) - 2) % Len(og)) + 1]]
            ELSE cycle(S, dec, below)
  IN IF Len(to) # Len(og) THEN [perm |-> p, ok |-> FALSE]
     ELSE FixAll(p, [k \in 1..(Len(og) - 1) |-> <<og[k + 1], to[k + 1]>>])

propagateDecision(p, r, S, below) ==
  FollowCycle(p, cycle(S, r, below), permOf(p, r), S, below)

(* MinCheck_V2::fixAndPropagate; f is what fix returned.                   *)
PropagateFixed(f, i, S, below, diagIsId) ==
  IF f.ok /\ ~diagIsId THEN propagateDecision(f.perm, i, S, below) ELSE f

fixAndPropagate(p, i, j, S, below, diagIsId) ==
  PropagateFixed(fix(p, i, j), i, S, below, diagIsId)

(* MinCheck_V2::extendPerm: with --useBit the points without an image get  *)
(* their first option, one after the other; failures are ignored.          *)
extendPerm(p, useBit, S, below, diagIsId) ==
  LET after[k \in 0..N] ==
        IF k = 0 THEN p
        ELSE LET prev == after[k - 1]
                 opts == options(prev, k - 1)
             IN IF permOf(prev, k - 1) # None \/ opts = <<>> THEN prev
                ELSE fixAndPropagate(prev, k - 1, opts[1], S, below, diagIsId).perm
  IN IF ~useBit \/ fullDefined(p) THEN p ELSE after[N]
-----------------------------------------------------------------------------
(* What makeDiagonals builds and --diag need not be: the points of a cycle *)
(* are an interval run through upwards (S: the first points), and so are   *)
(* those on cycles of equal length.                                        *)
Follows(d, S) ==
  /\ 0 \in S
  /\ \A x \in Val : d[x] = IF x + 1 \in Val \ S THEN x + 1 ELSE BlockStart(S, x)

Adjacent(d) ==
  \A x, y, z \in Val : x < y /\ y < z /\ z \in ClassOf(d, x) => y \in ClassOf(d, x)

Consecutive(d) == Adjacent(d) /\ \E S \in SUBSET Val : Follows(d, S)
=============================================================================
