----------------------------- MODULE BitDomain -----------------------------
(***************************************************************************)
(* bitdomain_t of domains.cpp: a subset of 0..N-1 kept together with two   *)
(* cached values, its least member and its size.  Every operation updates  *)
(* the caches incrementally; cb_decide and the minimality check read only  *)
(* the caches, so a stale one silently changes the search.                 *)
(*                                                                         *)
(* The bits are a set; the caches are explicit, as the code keeps them.    *)
(***************************************************************************)
EXTENDS Integers, FiniteSets

CONSTANT N            \* problem_size

ASSUME NAssumption == N \in Nat \ {0}

Val == 0 .. N - 1

NoElement == -1       \* firstel of an empty domain

VARIABLES dom,        \* the elements whose bit is true
          firstel,    \* cached least element, NoElement when there is none
          numTrue     \* cached number of elements

vars == <<dom, firstel, numTrue>>

IsLeast(n, S) == n \in S /\ \A m \in S : n <= m

\* The scan `for(i=n+1;i<size;i++) if(dom[i]) {firstel=i; break;}`.
NextAfter(n, S) == IF \E m \in S : m > n
                     THEN CHOOSE m \in S : IsLeast(m, {i \in S : i > n})
                     ELSE NoElement

-----------------------------------------------------------------------------
\* bitdomain_t(n, init): the propagator starts full, cycleToParts empty.
Init == \/ dom = Val /\ firstel = 0 /\ numTrue = N
        \/ dom = {}  /\ firstel = NoElement /\ numTrue = 0

\* set(n) returns at once when the bit is already set.
SetBit(n) ==
  /\ n \notin dom
  /\ dom' = dom \cup {n}
  /\ numTrue' = numTrue + 1
  /\ firstel' = IF firstel = NoElement \/ n < firstel THEN n ELSE firstel

\* reset(n) that never rescans.
ResetBitStale(n) ==
  /\ n \in dom
  /\ dom' = dom \ {n}
  /\ numTrue' = numTrue - 1
  /\ UNCHANGED firstel

\* reset(n) returns at once when the bit is already clear; it looks for a new
\* least element only above the one removed.
ResetBit(n) ==
  /\ n \in dom
  /\ dom' = dom \ {n}
  /\ numTrue' = numTrue - 1
  /\ firstel' = IF n = firstel THEN NextAfter(n, dom') ELSE firstel

SetAll   == dom' = Val /\ firstel' = 0 /\ numTrue' = N
ResetAll == dom' = {} /\ firstel' = NoElement /\ numTrue' = 0

Next == \/ \E n \in Val : SetBit(n) \/ ResetBit(n)
        \/ SetAll
        \/ ResetAll

Spec == Init /\ [][Next]_vars

-----------------------------------------------------------------------------
TypeOK == /\ dom \subseteq Val
          /\ firstel \in Val \cup {NoElement}
          /\ numTrue \in 0 .. N

\* firstel is what cb_decide branches on and what preCheck compares with the
\* diagonal: through any sequence of set and reset it is the least element of
\* the domain, and -1 exactly when the domain is empty.
FirstelIsLeast == IF dom = {} THEN firstel = NoElement ELSE IsLeast(firstel, dom)

\* numTrue decides whether a cell is open (cb_decide) and whether a value is
\* still removed from it (notify_assignment): it is the number of set bits.
NumTrueCounts == numTrue = Cardinality(dom)
=============================================================================
