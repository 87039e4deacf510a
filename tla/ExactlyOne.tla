----------------------------- MODULE ExactlyOne -----------------------------
(***************************************************************************)
(* The clauses of clause.cpp for groups of literals of which exactly one,  *)
(* or at most one, is true.  A literal is an integer, a clause a set of    *)
(* literals; `free` is the counter of free variables, which the commander  *)
(* encoding draws its auxiliary variables from.                            *)
(***************************************************************************)
EXTENDS Integers, FiniteSets, SequencesExt

(* atMostOne and atLeastOne.                                               *)
atMostOne(g) == {{-g[i], -g[j]} : i, j \in DOMAIN g} \ {{-g[i]} : i \in DOMAIN g}
atLeastOne(g) == {Range(g)}

(* The end of commanderEncoding: cmd is the disjunction of the two or      *)
(* three members, of which at most one is true.                            *)
Command(cmd, members) ==
  {{-m, cmd} : m \in members}
    \cup {members \cup {-cmd}}
    \cup ({{-m, -n} : m, n \in members} \ {{-m} : m \in members})

(* Mutant: the third block starts one literal late.                        *)
RECURSIVE commanderEncodingGap(_, _)
commanderEncodingGap(g, free) ==
  IF Len(g) <= 1 THEN [first |-> IF g = <<>> THEN 0 ELSE g[1], cnf |-> {}, free |-> free]
  ELSE IF Len(g) <= 3
  THEN [first |-> free, cnf |-> Command(free, Range(g)), free |-> free + 1]
  ELSE LET p == Len(g) \div 3
           c1 == commanderEncodingGap(SubSeq(g, 1, p), free)
           c2 == commanderEncodingGap(SubSeq(g, p + 1, 2 * p), c1.free)
           c3 == commanderEncodingGap(SubSeq(g, 2 * p + 2, Len(g)), c2.free)
       IN [first |-> c3.free,
           cnf |-> c1.cnf \cup c2.cnf \cup c3.cnf
                     \cup Command(c3.free, {c1.first, c2.first, c3.first}),
           free |-> c3.free + 1]

(* commanderEncoding: a group of more than three is cut into three blocks, *)
(* the last one the longest, and their commanders form a group of three.   *)
RECURSIVE commanderEncoding(_, _)
commanderEncoding(g, free) ==
  IF Len(g) <= 1 THEN [first |-> IF g = <<>> THEN 0 ELSE g[1], cnf |-> {}, free |-> free]
  ELSE IF Len(g) <= 3
  THEN [first |-> free, cnf |-> Command(free, Range(g)), free |-> free + 1]
  ELSE LET p == Len(g) \div 3
           c1 == commanderEncoding(SubSeq(g, 1, p), free)
           c2 == commanderEncoding(SubSeq(g, p + 1, 2 * p), c1.free)
           c3 == commanderEncoding(SubSeq(g, 2 * p + 1, Len(g)), c2.free)
       IN [first |-> c3.free,
           cnf |-> c1.cnf \cup c2.cnf \cup c3.cnf
                     \cup Command(c3.free, {c1.first, c2.first, c3.first}),
           free |-> c3.free + 1]

(* Mutant: zeros are kept.                                                 *)
exactlyOneZeros(group, free, noCommander) ==
  [cnf |-> atMostOne(group) \cup atLeastOne(group), free |-> free]

(* exactlyOne: the literals that exist (entries without a variable are 0). *)
exactlyOne(group, free, noCommander) ==
  LET g == SelectSeq(group, LAMBDA l : l # 0)
      c == commanderEncoding(g, free)
  IN IF noCommander
     THEN [cnf |-> atMostOne(g) \cup atLeastOne(g), free |-> free]
     ELSE [cnf |-> c.cnf \cup atLeastOne(g), free |-> c.free]

-----------------------------------------------------------------------------
(* Unit propagation on a set of clauses, from a set A of true literals.    *)
OpenLits(c, A) == {l \in c : -l \notin A}
Falsified(C, A) == \E c \in C : OpenLits(c, A) = {}
UnitLits(C, A) ==
  UNION {OpenLits(c, A) :
           c \in {d \in C : d \cap A = {} /\ Cardinality(OpenLits(d, A)) = 1}}
=============================================================================
