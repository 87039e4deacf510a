-------------------------- MODULE PropagatorProofs --------------------------
(***************************************************************************)
(* The observer knows what the solver knows, for every problem_size, every *)
(* set of rows, every diagonal and any number of levels, but for the root  *)
(* literals cb_propagate proposed.  Then what it asks its cycle set: the   *)
(* buckets list the trail in order, the matrix shows every literal that    *)
(* can be undone, the domains hold what the row still allows, and          *)
(* cb_decide finds an open literal.                                        *)
(***************************************************************************)
EXTENDS Propagator, FiniteSetTheorems, SequenceTheorems, TLAPS

Rank(P, i) == Cardinality({j \in P : j <= i})

\* Nth enumerates a finite set of positions: every member once, by its rank.
LEMMA NthEnumerates ==
  ASSUME NEW P \in SUBSET Nat, IsFiniteSet(P)
  PROVE  /\ Cardinality(P) \in Nat
         /\ \A n \in 1 .. Cardinality(P) : Nth(P, n) \in P /\ Rank(P, Nth(P, n)) = n
         /\ \A i \in P : Rank(P, i) \in 1 .. Cardinality(P) /\ Nth(P, Rank(P, i)) = i
<1> DEFINE n0 == Cardinality(P)
           Upto(i) == {j \in P : j <= i}
<1>1. n0 \in Nat
  BY FS_CardinalityType
<1>2. ASSUME NEW i \in P
      PROVE  IsFiniteSet(Upto(i)) /\ Rank(P, i) \in 1 .. n0
  <2>1. Upto(i) \in SUBSET P
    OBVIOUS
  <2>2. IsFiniteSet(Upto(i)) /\ Cardinality(Upto(i)) <= n0
    BY <2>1, FS_Subset
  <2>3. i \in Upto(i)
    OBVIOUS
  <2>4. Cardinality(Upto(i)) \in Nat /\ Cardinality(Upto(i)) # 0
    BY <2>2, <2>3, FS_CardinalityType, FS_EmptySet
  <2> QED BY <1>1, <2>2, <2>4 DEF Rank
<1>3. ASSUME NEW i \in P, NEW k \in P, i < k
      PROVE  Rank(P, i) # Rank(P, k)
  <2>1. Upto(i) \in SUBSET Upto(k)
    <3>1. \A j \in P : j <= i => j <= k
      BY <1>3, P \subseteq Nat
    <3> QED BY <3>1
  <2>2. k \in Nat /\ i \in Nat /\ i < k
    BY <1>3
  <2>3. k \in Upto(k) /\ k \notin Upto(i)
    BY <2>2
  <2> QED BY <1>2, <2>1, <2>3, FS_Subset DEF Rank
<1>4. \A i, k \in P : Rank(P, i) = Rank(P, k) => i = k
  <2>1. ASSUME NEW i \in P, NEW k \in P, Rank(P, i) = Rank(P, k)
        PROVE  i = k
    <3>1. i < k \/ k < i \/ i = k
      OBVIOUS
    <3> QED BY <1>3, <2>1, <3>1
  <2> QED BY <2>1
<1> DEFINE f == [i \in P |-> Rank(P, i)]
<1>5. f \in Injection(P, 1 .. n0)
  <2>1. f \in [P -> 1 .. n0]
    BY <1>2
  <2>2. \A i, k \in P : f[i] = f[k] => i = k
    BY <1>4
  <2> QED BY <2>1, <2>2 DEF Injection, IsInjective
<1>6. IsFiniteSet(1 .. n0) /\ Cardinality(1 .. n0) = n0
  BY <1>1, FS_Interval
<1>7. f \in Surjection(P, 1 .. n0)
  <2> HIDE DEF f
  <2> QED BY <1>5, <1>6, FS_Injection
<1>8. \A n \in 1 .. n0 : \E i \in P : Rank(P, i) = n
  BY <1>7 DEF Surjection
<1>9. \A n \in 1 .. n0 : Nth(P, n) \in P /\ Rank(P, Nth(P, n)) = n
  BY <1>8 DEF Nth, Rank
<1>10. \A i \in P : Nth(P, Rank(P, i)) = i
  BY <1>2, <1>4, <1>9
<1> QED BY <1>1, <1>2, <1>9, <1>10
-----------------------------------------------------------------------------
(* The inductive invariant *)

Positions == 1 .. Len(trail)
Start(l) == IF l = 1 THEN 0 ELSE control[l - 1]

\* Decision levels, the notified prefix and the buckets of the observer fit.
LevelsFit ==
  /\ level <= MaxLevel
  /\ notified <= Len(trail)
  /\ \A l \in 1 .. level : control[l] <= notified
  /\ \A l, m \in 1 .. level : l <= m => control[l] <= control[m]
  /\ pc = "quiet" => notified = Len(trail)
  /\ pc # "undo" => Len(current_trail) = level + 1
  /\ pc = "undo" => /\ target \in Nat
                    /\ target < level
                    /\ target + 1 <= Len(current_trail)
                    /\ Len(current_trail) <= level + 1

\* The trail lists the assigned variables once each, and what was assigned
\* before level l was opened has a lower level than l: backtracking keeps it.
TrailFits ==
  /\ \A i, j \in Positions : trail[i] = trail[j] => i = j
  /\ \A i \in Positions : val[trail[i]] # Unknown
  /\ \A e \in Observed : val[e] # Unknown => \E i \in Positions : trail[i] = e
  /\ \A e \in Observed : lvl[e] <= level
  /\ \A l \in 1 .. level, i \in Positions : i <= control[l] => lvl[trail[i]] < l

\* On a decision level, or explained as a unit after it was listed.
Listable(e) == lvl[e] > 0 \/ (PropLits /\ e \in units)

\* A bucket holds notified literals of its own control segment, once each.
BucketsSound ==
  \A l \in 1 .. Len(current_trail) : \A p \in 1 .. Len(current_trail[l]) :
    /\ \E i \in 1 .. notified :
         /\ trail[i] = current_trail[l][p]
         /\ Listable(trail[i])
         /\ Start(l) < i
         /\ l <= level => i <= control[l]
    /\ \A q \in 1 .. Len(current_trail[l]) :
         current_trail[l][p] = current_trail[l][q] => p = q

InBucket(e) == \E l \in 1 .. Len(current_trail) :
                 \E p \in 1 .. Len(current_trail[l]) : current_trail[l][p] = e

\* Every notified non-root literal is in a bucket; while notify_backtrack runs,
\* those that the backtrack keeps for sure.
BucketsComplete ==
  \A i \in 1 .. notified :
    (lvl[trail[i]] > 0 /\ (pc = "undo" => i <= control[target + 1])) => InBucket(trail[i])

\* The observer is told of the units, which are root literals for good; other root
\* literals, and levels that a conflict may lower, exist only with --propLits.
FixedFits ==
  /\ \A e \in Observed : e \in fixedCycleSet <=> e \in units
  /\ \A e \in units : val[e] # Unknown /\ lvl[e] = 0
  /\ \A e \in inexact : val[e] # Unknown /\ lvl[e] > 0
  /\ ~PropLits => inexact = {} /\ Unheard = {}

Known(e) == e \in fixedCycleSet \/ InBucket(e)

\* The observer has the solver's value for every literal it remembers, and no
\* value for the others.
ObserverAgrees ==
  \A e \in Observed : assignments[e[1]][e[2]][e[3]] = IF Known(e) THEN val[e] ELSE Unknown

MatrixAgrees ==
  \A r \in Rows, c \in Val : matrix[r][c] # NoVal => IsTrue(r, c, matrix[r][c])

TrailInv == TypeOK /\ LevelsFit /\ TrailFits /\ BucketsSound /\ BucketsComplete
IInv == TrailInv /\ FixedFits /\ ObserverAgrees /\ MatrixAgrees
-----------------------------------------------------------------------------
(* What the handlers of the observer do to its state *)

LEMMA EntryParts ==
  /\ Observed \subseteq Entry
  /\ Rows \subseteq Val
  /\ \A e \in Entry : /\ e[1] \in Rows /\ e[2] \in Val /\ e[3] \in Val
                      /\ e = <<e[1], e[2], e[3]>>
  /\ \A r \in Rows, c \in Val, k \in Val : <<r, c, k>> \in Entry
  /\ \A g \in Groups : g \subseteq Observed
  /\ NoVal \notin Val
<1>1. Observed \subseteq Entry /\ Rows \subseteq Val /\ NoVal \notin Val
  BY ConstantsAssumption DEF Observed, NoVal, Val
<1>2. \A e \in Entry : /\ e[1] \in Rows /\ e[2] \in Val /\ e[3] \in Val
                       /\ e = <<e[1], e[2], e[3]>>
  BY DEF Entry
<1>3. \A r \in Rows, c \in Val, k \in Val : <<r, c, k>> \in Entry
  BY DEF Entry
<1>4. ASSUME NEW g \in Groups
      PROVE  g \subseteq Observed
  BY DEF Groups, Cell, RowValue
<1> QED BY <1>1, <1>2, <1>3, <1>4

\* Truth values are distinct from one another.
LEMMA TruthParts == /\ Unknown \notin Polarity /\ True # False
                    /\ True # Unknown /\ False # Unknown
                    /\ \A v \in Polarity : v \in Truth /\ v # Unknown
                    /\ Unknown \in Truth
                    /\ \A v \in Truth : v # Unknown => v \in Polarity
BY DEF Polarity, Truth, Unknown, True, False

AssignmentsType == [Rows -> [Val -> [Val -> Truth]]]
MatrixType == [Rows -> [Val -> Val \cup {NoVal}]]
DomainsType == [Rows -> [Val -> SUBSET Val]]

\* Setting one entry of assignments, matrix or bitdomains leaves the others alone.
LEMMA SetAssignment ==
  ASSUME assignments \in AssignmentsType, NEW e \in Entry, NEW v \in Truth,
         assignments' = [assignments EXCEPT ![e[1]][e[2]][e[3]] = v]
  PROVE  /\ assignments' \in AssignmentsType
         /\ \A r \in Rows, c \in Val, k \in Val :
              assignments'[r][c][k] = IF <<r, c, k>> = e THEN v ELSE assignments[r][c][k]
<1>1. /\ e[1] \in Rows /\ e[2] \in Val /\ e[3] \in Val
      /\ e = <<e[1], e[2], e[3]>>
  BY EntryParts
<1>2. assignments' \in AssignmentsType
  BY <1>1 DEF AssignmentsType
<1>3. ASSUME NEW r \in Rows, NEW c \in Val, NEW k \in Val
      PROVE  assignments'[r][c][k] = IF <<r, c, k>> = e THEN v ELSE assignments[r][c][k]
  <2>1. assignments'[r][c][k]
          = IF r = e[1] /\ c = e[2] /\ k = e[3] THEN v ELSE assignments[r][c][k]
    BY <1>1 DEF AssignmentsType
  <2>2. (r = e[1] /\ c = e[2] /\ k = e[3]) <=> <<r, c, k>> = e
    BY <1>1
  <2> QED BY <2>1, <2>2
<1> QED BY <1>2, <1>3

LEMMA SetMatrix ==
  ASSUME matrix \in MatrixType, NEW e \in Entry, NEW k \in Val \cup {NoVal},
         matrix' = [matrix EXCEPT ![e[1]][e[2]] = k]
  PROVE  /\ matrix' \in MatrixType
         /\ \A r \in Rows, c \in Val :
              matrix'[r][c] = IF r = e[1] /\ c = e[2] THEN k ELSE matrix[r][c]
<1>1. e[1] \in Rows /\ e[2] \in Val
  BY EntryParts
<1> QED BY <1>1 DEF MatrixType

LEMMA SetDomain ==
  ASSUME bitdomains \in DomainsType, NEW e \in Entry, NEW D \in SUBSET Val,
         bitdomains' = [bitdomains EXCEPT ![e[1]][e[2]] = D]
  PROVE  /\ bitdomains' \in DomainsType
         /\ \A r \in Rows, c \in Val :
              bitdomains'[r][c] = IF r = e[1] /\ c = e[2] THEN D ELSE bitdomains[r][c]
<1>1. e[1] \in Rows /\ e[2] \in Val
  BY EntryParts
<1> QED BY <1>1 DEF DomainsType

LEMMA SetRow ==
  ASSUME bitdomains \in DomainsType, NEW e \in Entry, NEW R \in [Val -> SUBSET Val],
         bitdomains' = [bitdomains EXCEPT ![e[1]] = R]
  PROVE  bitdomains' \in DomainsType
<1>1. e[1] \in Rows
  BY EntryParts
<1> QED BY <1>1 DEF DomainsType

\* notify_assignment appends to the last bucket (unless fixed) and sets one entry.
LEMMA NotifyEffect ==
  ASSUME TypeOK, Len(current_trail) >= 1,
         NEW e \in Observed, NEW v \in Polarity, NEW fixed \in BOOLEAN,
         notify_assignment(e, v, fixed)
  PROVE  /\ assignments' \in AssignmentsType
         /\ \A r \in Rows, c \in Val, k \in Val :
              assignments'[r][c][k] = IF <<r, c, k>> = e THEN v ELSE assignments[r][c][k]
         /\ matrix' \in MatrixType
         /\ v = True => \A r \in Rows, c \in Val :
              matrix'[r][c] = IF r = e[1] /\ c = e[2] THEN e[3] ELSE matrix[r][c]
         /\ v # True => matrix' = matrix
         /\ bitdomains' \in DomainsType
         /\ fixedCycleSet' = IF fixed THEN fixedCycleSet \cup {e} ELSE fixedCycleSet
         /\ fixedCycleSet' \subseteq Entry
         /\ current_trail' \in Seq(Seq(Entry))
         /\ Len(current_trail') = Len(current_trail)
         /\ fixed => current_trail' = current_trail
         /\ ~fixed => \A l \in 1 .. Len(current_trail) :
              current_trail'[l] = IF l = Len(current_trail)
                                    THEN Append(current_trail[l], e) ELSE current_trail[l]
<1> USE DEF notify_assignment
<1>1. /\ e \in Entry /\ e[1] \in Rows /\ e[2] \in Val /\ e[3] \in Val
      /\ v \in Truth
  BY EntryParts, TruthParts
<1>2. /\ assignments \in AssignmentsType /\ matrix \in MatrixType
      /\ bitdomains \in DomainsType /\ fixedCycleSet \subseteq Entry
      /\ current_trail \in Seq(Seq(Entry))
  BY DEF TypeOK, AssignmentsType, MatrixType, DomainsType
<1>3. /\ assignments' \in AssignmentsType
      /\ \A r \in Rows, c \in Val, k \in Val :
           assignments'[r][c][k] = IF <<r, c, k>> = e THEN v ELSE assignments[r][c][k]
  <2>1. assignments' = [assignments EXCEPT ![e[1]][e[2]][e[3]] = v]
    OBVIOUS
  <2> HIDE DEF notify_assignment
  <2> QED BY <1>1, <1>2, <2>1, SetAssignment
<1>4. /\ matrix' \in MatrixType
      /\ v = True => \A r \in Rows, c \in Val :
           matrix'[r][c] = IF r = e[1] /\ c = e[2] THEN e[3] ELSE matrix[r][c]
      /\ v # True => matrix' = matrix
  <2>1. /\ v = True => matrix' = [matrix EXCEPT ![e[1]][e[2]] = e[3]]
        /\ v # True => matrix' = matrix
    OBVIOUS
  <2> HIDE DEF notify_assignment
  <2>2. e[3] \in Val \cup {NoVal}
    BY <1>1
  <2> QED BY <1>1, <1>2, <2>1, <2>2, SetMatrix
<1>5. bitdomains' \in DomainsType
  <2>1. RowAfterTrue(e) \in [Val -> SUBSET Val]
    BY <1>1, <1>2 DEF RowAfterTrue, DomainsType
  <2>2. /\ v = True => bitdomains' = [bitdomains EXCEPT ![e[1]] = RowAfterTrue(e)]
        /\ v # True => bitdomains' = [bitdomains EXCEPT ![e[1]][e[2]] =
                                        bitdomains[e[1]][e[2]] \ {e[3]}]
    OBVIOUS
  <2> HIDE DEF notify_assignment
  <2>3. bitdomains[e[1]][e[2]] \ {e[3]} \in SUBSET Val
    BY <1>1, <1>2 DEF DomainsType
  <2>4. CASE v = True
    BY <1>1, <1>2, <2>1, <2>2, <2>4, SetRow
  <2>5. CASE v # True
    BY <1>1, <1>2, <2>2, <2>3, <2>5, SetDomain
  <2> QED BY <2>4, <2>5
<1>6. /\ fixedCycleSet' = IF fixed THEN fixedCycleSet \cup {e} ELSE fixedCycleSet
      /\ fixedCycleSet' \subseteq Entry
  BY <1>1, <1>2
<1>7. /\ current_trail' \in Seq(Seq(Entry))
      /\ Len(current_trail') = Len(current_trail)
      /\ fixed => current_trail' = current_trail
      /\ ~fixed => \A l \in 1 .. Len(current_trail) :
           current_trail'[l] = IF l = Len(current_trail)
                                 THEN Append(current_trail[l], e) ELSE current_trail[l]
  <2> DEFINE L == Len(current_trail)
  <2>1. L \in 1 .. L /\ current_trail[L] \in Seq(Entry)
    BY <1>2, LenProperties, ElementOfSeq
  <2>2. Append(current_trail[L], e) \in Seq(Entry)
    BY <1>1, <2>1, AppendProperties
  <2>3. ~fixed => current_trail' = [current_trail EXCEPT ![L] = Append(current_trail[L], e)]
    BY <1>2
  <2> QED BY <1>2, <2>1, <2>2, <2>3, ExceptSeq
<1> QED BY <1>3, <1>4, <1>5, <1>6, <1>7

\* A notified literal shows in the matrix if it is true, and contradicts no entry if
\* it is false: the observer did not know it, or knew it with that value.
LEMMA NotifyKeepsMatrix ==
  ASSUME TypeOK, MatrixAgrees, Len(current_trail) >= 1,
         NEW e \in Observed, NEW v \in Polarity, NEW fixed \in BOOLEAN,
         notify_assignment(e, v, fixed),
         assignments[e[1]][e[2]][e[3]] \in {Unknown, v}
  PROVE  MatrixAgrees'
<1>1. /\ e[1] \in Rows /\ e[2] \in Val /\ e[3] \in Val
      /\ e = <<e[1], e[2], e[3]>>
      /\ NoVal \notin Val
  BY EntryParts
<1>2. /\ \A r \in Rows, c \in Val, k \in Val :
           assignments'[r][c][k] = IF <<r, c, k>> = e THEN v ELSE assignments[r][c][k]
      /\ v = True => \A r \in Rows, c \in Val :
           matrix'[r][c] = IF r = e[1] /\ c = e[2] THEN e[3] ELSE matrix[r][c]
      /\ v # True => matrix' = matrix
  BY NotifyEffect
<1> SUFFICES ASSUME NEW r \in Rows, NEW c \in Val, matrix'[r][c] # NoVal
             PROVE  assignments'[r][c][matrix'[r][c]] = True
  BY DEF MatrixAgrees, IsTrue
<1>3. CASE v = True /\ r = e[1] /\ c = e[2]
  BY <1>1, <1>2, <1>3
<1>4. CASE ~(v = True /\ r = e[1] /\ c = e[2])
  <2>1. matrix'[r][c] = matrix[r][c]
    BY <1>2, <1>4
  <2>2. matrix[r][c] \in Val /\ assignments[r][c][matrix[r][c]] = True
    BY <2>1 DEF MatrixAgrees, IsTrue, TypeOK
  <2>3. <<r, c, matrix[r][c]>> = e => v = True
    BY <1>1, <2>2, TruthParts
  <2> QED BY <1>2, <2>1, <2>2, <2>3
<1> QED BY <1>3, <1>4

\* The lengths and positions that the levels refer to are naturals.
LEMMA Sizes ==
  ASSUME TypeOK, LevelsFit
  PROVE  /\ Len(trail) \in Nat /\ Len(control) \in Nat /\ Len(current_trail) \in Nat
         /\ level \in Nat /\ level = Len(control)
         /\ notified \in Nat /\ notified <= Len(trail)
         /\ MaxLevel \in Nat /\ level <= MaxLevel
         /\ \A l \in 1 .. level : control[l] \in Nat /\ control[l] <= notified
<1>1. trail \in Seq(Observed) /\ control \in Seq(Nat) /\ current_trail \in Seq(Seq(Entry))
  BY DEF TypeOK
<1>2. Len(trail) \in Nat /\ Len(control) \in Nat /\ Len(current_trail) \in Nat
  BY <1>1, LenProperties
<1>3. \A l \in 1 .. Len(control) : control[l] \in Nat
  BY <1>1, ElementOfSeq
<1>4. notified \in Nat /\ MaxLevel \in Nat
  BY ConstantsAssumption DEF TypeOK
<1> QED BY <1>2, <1>3, <1>4 DEF LevelsFit, level

\* What a literal in a bucket is.
LEMMA BucketMember ==
  ASSUME TypeOK, LevelsFit, TrailFits, BucketsSound, NEW e, InBucket(e)
  PROVE  /\ e \in Observed
         /\ val[e] # Unknown
         /\ Listable(e)
         /\ \E i \in 1 .. notified : trail[i] = e
<1>1. PICK l \in 1 .. Len(current_trail) :
        \E p \in 1 .. Len(current_trail[l]) : current_trail[l][p] = e
  BY DEF InBucket
<1>2. PICK p \in 1 .. Len(current_trail[l]) : current_trail[l][p] = e
  BY <1>1
<1>3. PICK i \in 1 .. notified : trail[i] = e /\ Listable(trail[i])
  BY <1>2 DEF BucketsSound
<1>4. i \in Positions /\ trail[i] \in Observed
  <2>1. notified \in Nat /\ Len(trail) \in Nat /\ notified <= Len(trail)
    BY LenProperties DEF TypeOK, LevelsFit
  <2>2. i \in 1 .. Len(trail)
    BY <2>1
  <2> QED BY <2>2, ElementOfSeq DEF TypeOK, Positions
<1> QED BY <1>3, <1>4 DEF TrailFits

-----------------------------------------------------------------------------
(* The steps *)

\* A literal is assigned: on level 0 the observer is told, unless the literal is
\* one that cb_propagate proposed.
Learned(e, v, lv) ==
  \/ lv = 0 /\ mark_fixed(e, v)
  \/ (lv > 0 \/ PropLits) /\ UNCHANGED units /\ UNCHANGED observerVars
NewLiteral(e, v, lv) ==
  /\ AssignAt(e, v, lv)
  /\ Learned(e, v, lv)
  /\ inexact' \in {inexact, inexact \cup {e}}
  /\ e \in inexact' => lv > 0 /\ PropLits

LEMMA AssignIsNew ==
  ASSUME IInv, NEW e \in Observed, val[e] = Unknown, NEW v \in Polarity,
         NEW lv \in 0 .. level, NEW reason, Assign(e, v, lv, reason)
  PROVE  NewLiteral(e, v, lv)
<1>1. e \notin inexact
  BY DEF IInv, FixedFits
<1>2. Unsure(reason, lv) => lv > 0 /\ PropLits
  BY DEF Unsure, IInv, FixedFits
<1>3. lv = 0 \/ lv > 0
  BY Sizes DEF IInv, TrailInv
<1>4. Learned(e, v, lv)
  BY <1>3 DEF Assign, Learned
<1> QED BY <1>1, <1>2, <1>4 DEF Assign, NewLiteral

LEMMA ExternalIsNew ==
  ASSUME IInv, NEW e \in Observed, NEW v \in Polarity, PropagateExternal(e, v)
  PROVE  NewLiteral(e, v, level) /\ val[e] = Unknown
<1>1. /\ PropLits /\ val[e] = Unknown
      /\ AssignAt(e, v, level)
      /\ inexact' = IF level > 0 THEN inexact \cup {e} ELSE inexact
      /\ UNCHANGED units /\ UNCHANGED observerVars
  BY DEF PropagateExternal
<1>2. e \notin inexact
  BY <1>1 DEF IInv, FixedFits
<1>3. Learned(e, v, level)
  BY <1>1 DEF Learned
<1> QED BY <1>1, <1>2, <1>3 DEF NewLiteral

\* A new literal, whatever its clause and level.
LEMMA AssignStep ==
  ASSUME IInv, NEW e \in Observed, val[e] = Unknown, NEW v \in Polarity,
         NEW lv \in 0 .. level, pc \in {"bcp", "quiet", "jumped"}, NewLiteral(e, v, lv),
         UNCHANGED <<control, notified, target>>, pc' \in {"bcp", "handover"},
         implied' \in 0 .. MaxImplied
  PROVE  IInv'
<1> USE DEF IInv, TrailInv
<1> DEFINE Fixes == lv = 0 /\ mark_fixed(e, v)
<1>0. /\ Len(trail) \in Nat /\ Len(control) \in Nat /\ level = Len(control)
      /\ notified \in Nat /\ MaxLevel \in Nat
      /\ \A l \in 1 .. level : control[l] \in Nat
      /\ level <= MaxLevel
      /\ Len(current_trail) = level + 1
  BY Sizes DEF LevelsFit
<1>1. /\ trail' \in Seq(Observed) /\ Len(trail') = Len(trail) + 1
      /\ \A i \in Positions : trail'[i] = trail[i] /\ trail[i] \in Observed
      /\ trail'[Len(trail) + 1] = e
  BY AppendProperties, ElementOfSeq DEF NewLiteral, AssignAt, TypeOK, Positions
<1>2. /\ \A x \in Observed : val'[x] = IF x = e THEN v ELSE val[x]
      /\ \A x \in Observed : lvl'[x] = IF x = e THEN lv ELSE lvl[x]
      /\ val' \in [Observed -> Truth]
      /\ lvl' \in [Observed -> 0 .. MaxLevel]
  <2>1. lv \in 0 .. MaxLevel
    BY <1>0
  <2> QED BY <2>1, TruthParts DEF NewLiteral, AssignAt, TypeOK
<1>3. \A i \in Positions : trail[i] # e
  BY DEF TrailFits
<1>4. /\ current_trail' = current_trail
      /\ \/ units' = units \cup {e} /\ lv = 0
         \/ units' = units /\ (lv > 0 \/ PropLits)
      /\ inexact' \subseteq Observed /\ units' \subseteq Observed
      /\ Len(current_trail) >= 1
  <2>1. Len(current_trail) >= 1
    BY <1>0
  <2>2. inexact' \subseteq Observed
    BY DEF NewLiteral, TypeOK
  <2>3. CASE Fixes
    <3>1. notify_assignment(e, v, TRUE) /\ units' = units \cup {e}
      BY <2>3 DEF mark_fixed
    <3>2. current_trail' = current_trail
      BY <3>1 DEF notify_assignment
    <3>3. units' \subseteq Observed
      BY <3>1 DEF TypeOK
    <3> QED BY <2>1, <2>2, <2>3, <3>1, <3>2, <3>3, Zenon
  <2>4. CASE ~Fixes
    <3>1. units' = units /\ (lv > 0 \/ PropLits) /\ current_trail' = current_trail
      BY <2>4 DEF NewLiteral, Learned, observerVars
    <3>2. units' \subseteq Observed
      BY <3>1 DEF TypeOK
    <3> QED BY <2>1, <2>2, <3>1, <3>2
  <2> QED BY <2>3, <2>4
<1>4b. Fixes => notify_assignment(e, v, TRUE) /\ units' = units \cup {e} /\ lv = 0
  BY DEF mark_fixed
<1>4c. ~Fixes => UNCHANGED observerVars /\ units' = units
  BY DEF NewLiteral, Learned
<1> HIDE DEF Fixes
<1>4a. Fixes => /\ fixedCycleSet' = fixedCycleSet \cup {e}
                /\ \A r \in Rows, c \in Val, k \in Val :
                     assignments'[r][c][k] = IF <<r, c, k>> = e THEN v ELSE assignments[r][c][k]
  BY <1>4, <1>4b, NotifyEffect, TRUE \in BOOLEAN, ZenonT(40)
<1>5. TypeOK'
  <2>1. /\ assignments' \in AssignmentsType /\ matrix' \in MatrixType
        /\ bitdomains' \in DomainsType /\ fixedCycleSet' \subseteq Entry
    <3>1. CASE Fixes
      BY <1>4, <1>4b, <3>1, NotifyEffect, TRUE \in BOOLEAN, Zenon
    <3>2. CASE ~Fixes
      BY <1>4c, <3>2 DEF observerVars, TypeOK, AssignmentsType, MatrixType, DomainsType
    <3> QED BY <3>1, <3>2
  <2> QED BY <1>1, <1>2, <1>4, <2>1
          DEF TypeOK, Phase, AssignmentsType, MatrixType, DomainsType
<1>6. LevelsFit'
  <2>1. level' = level
    BY DEF level
  <2> QED BY <1>0, <1>1, <1>4, <2>1 DEF LevelsFit
<1>7. TrailFits'
  <2>1. level' = level
    BY DEF level
  <2>2. Positions' = Positions \cup {Len(trail) + 1}
    BY <1>0, <1>1 DEF Positions
  <2>3. \A i, j \in Positions' : trail'[i] = trail'[j] => i = j
    BY <1>1, <1>3, <2>2 DEF TrailFits
  <2>4. \A i \in Positions' : val'[trail'[i]] # Unknown
    BY <1>1, <1>2, <1>3, <2>2, TruthParts DEF TrailFits
  <2>5. \A x \in Observed : val'[x] # Unknown => \E i \in Positions' : trail'[i] = x
    BY <1>1, <1>2, <2>2 DEF TrailFits
  <2>6. \A x \in Observed : lvl'[x] <= level
    BY <1>2 DEF TrailFits
  <2>7. ASSUME NEW l \in 1 .. level, NEW i \in Positions', i <= control[l]
        PROVE  lvl'[trail'[i]] < l
    <3>1. i \in Positions
      BY <1>0, <2>7, <2>2 DEF LevelsFit, Positions
    <3> QED BY <1>1, <1>2, <1>3, <2>7, <3>1 DEF TrailFits
  <2> QED BY <2>1, <2>3, <2>4, <2>5, <2>6, <2>7 DEF TrailFits
<1>8. \A i \in 1 .. notified : /\ trail'[i] = trail[i] /\ trail[i] \in Observed
                               /\ lvl'[trail[i]] = lvl[trail[i]]
                               /\ Listable(trail[i]) => Listable(trail[i])'
  <2>1. \A i \in 1 .. notified : i \in Positions
    BY <1>0 DEF LevelsFit, Positions
  <2>2. \A i \in Positions : trail'[i] = trail[i] /\ trail[i] \in Observed /\ trail[i] # e
    BY <1>1, <1>3
  <2>3. \A i \in Positions : lvl'[trail[i]] = lvl[trail[i]]
    BY <1>2, <2>2
  <2>4. units \subseteq units'
    BY <1>4
  <2> QED BY <2>1, <2>2, <2>3, <2>4 DEF Listable
<1>9. BucketsSound'
  <2>1. level' = level /\ \A l : Start(l)' = Start(l)
    BY DEF level, Start
  <2>2. UNCHANGED <<control, notified, current_trail>>
    BY <1>4
  <2>3. ASSUME NEW l \in 1 .. Len(current_trail), NEW p \in 1 .. Len(current_trail[l])
        PROVE  \E i \in 1 .. notified :
                 /\ trail'[i] = current_trail[l][p]
                 /\ Listable(trail[i])'
                 /\ Start(l) < i
                 /\ l <= level => i <= control[l]
    <3>1. PICK i \in 1 .. notified :
            /\ trail[i] = current_trail[l][p]
            /\ Listable(trail[i])
            /\ Start(l) < i
            /\ l <= level => i <= control[l]
      BY DEF BucketsSound
    <3> QED BY <1>8, <3>1
  <2>4. \A l \in 1 .. Len(current_trail) : \A p, q \in 1 .. Len(current_trail[l]) :
          current_trail[l][p] = current_trail[l][q] => p = q
    BY DEF BucketsSound
  <2> QED BY <2>2, <2>3, <2>4 DEF BucketsSound, Start, level
<1>10. \A x : InBucket(x)' <=> InBucket(x)
  BY <1>4 DEF InBucket
<1>11. BucketsComplete'
  BY <1>8, <1>10 DEF BucketsComplete
<1>12. ~InBucket(e) /\ e \notin fixedCycleSet /\ assignments[e[1]][e[2]][e[3]] = Unknown
  BY BucketMember DEF FixedFits, ObserverAgrees, Known
<1>13. FixedFits'
  <2>0. \A x \in Observed : val[x] # Unknown => x # e /\ val'[x] = val[x] /\ lvl'[x] = lvl[x]
    BY <1>2
  <2>1. \A x \in Observed : x \in fixedCycleSet' <=> x \in units'
    <3>1. CASE Fixes
      BY <1>4a, <1>4b, <3>1 DEF FixedFits
    <3>2. CASE ~Fixes
      BY <1>4c, <3>2 DEF FixedFits, observerVars
    <3> QED BY <3>1, <3>2
  <2>2. \A x \in units' : val'[x] # Unknown /\ lvl'[x] = 0
    <3>1. \A x \in units : x \in Observed /\ val'[x] # Unknown /\ lvl'[x] = 0
      BY <2>0 DEF FixedFits, TypeOK
    <3>2. lv = 0 => val'[e] # Unknown /\ lvl'[e] = 0
      BY <1>2, TruthParts
    <3> QED BY <1>4, <3>1, <3>2
  <2>3. \A x \in inexact' : val'[x] # Unknown /\ lvl'[x] > 0
    <3>1. \A x \in inexact : x \in Observed /\ val'[x] # Unknown /\ lvl'[x] > 0
      BY <2>0 DEF FixedFits, TypeOK
    <3>2. e \in inexact' => val'[e] # Unknown /\ lvl'[e] > 0
      BY <1>2, TruthParts DEF NewLiteral
    <3> QED BY <3>1, <3>2 DEF NewLiteral
  <2>4. ASSUME ~PropLits
        PROVE  inexact' = {} /\ Unheard' = {}
    <3>1. inexact' = {}
      BY <2>4 DEF NewLiteral, FixedFits
    <3>2. ASSUME NEW x \in Observed, val'[x] # Unknown, lvl'[x] = 0, x \notin units'
          PROVE  FALSE
      <4>1. CASE x = e
        BY <1>2, <1>4, <2>4, <3>2, <4>1
      <4>2. CASE x # e
        BY <1>2, <1>4, <2>4, <3>2, <4>2 DEF FixedFits, Unheard
      <4> QED BY <4>1, <4>2
    <3> QED BY <3>1, <3>2 DEF Unheard
  <2> QED BY <2>1, <2>2, <2>3, <2>4 DEF FixedFits
<1>14. ObserverAgrees'
  <2> SUFFICES ASSUME NEW x \in Observed
               PROVE  assignments'[x[1]][x[2]][x[3]] = IF Known(x)' THEN val'[x] ELSE Unknown
    BY DEF ObserverAgrees
  <2>1. /\ x[1] \in Rows /\ x[2] \in Val /\ x[3] \in Val
        /\ x = <<x[1], x[2], x[3]>>
    BY EntryParts
  <2>2. CASE Fixes
    <3>1. /\ fixedCycleSet' = fixedCycleSet \cup {e}
          /\ assignments'[x[1]][x[2]][x[3]]
               = IF x = e THEN v ELSE assignments[x[1]][x[2]][x[3]]
      BY <1>4a, <2>1, <2>2
    <3> QED BY <1>2, <1>10, <3>1 DEF ObserverAgrees, Known
  <2>3. CASE ~Fixes
    BY <1>2, <1>4c, <1>10, <1>12, <2>3 DEF ObserverAgrees, Known, observerVars
  <2> QED BY <2>2, <2>3
<1>15. MatrixAgrees'
  <2>1. CASE Fixes
    BY <1>4, <1>4b, <1>12, <2>1, NotifyKeepsMatrix, TRUE \in BOOLEAN, Zenon
  <2>2. CASE ~Fixes
    BY <1>4c, <2>2 DEF MatrixAgrees, IsTrue, observerVars
  <2> QED BY <2>1, <2>2
<1> QED BY <1>5, <1>6, <1>7, <1>9, <1>11, <1>13, <1>14, <1>15

\* Steps that only move the solver to another phase.
LEMMA PhaseStep ==
  ASSUME IInv, Resume \/ ExternalPropagate \/ NotifyDone \/ (\E nl \in 0 .. level : Backtrack(nl))
  PROVE  IInv'
<1> USE DEF IInv, TrailInv
<1>1. /\ UNCHANGED <<trail, val, lvl, control, inexact, units, notified, implied>>
      /\ UNCHANGED <<assignments, matrix, bitdomains, fixedCycleSet, current_trail>>
      /\ pc # "undo" /\ pc' \in Phase
  BY DEF Resume, ExternalPropagate, NotifyDone, Backtrack, observerVars, Phase, Notifying
<1>2. \/ pc' # "undo" /\ target' = target /\ (pc' = "quiet" => notified = Len(trail))
      \/ pc' = "undo" /\ target' \in 0 .. level /\ target' < level
  BY DEF Resume, ExternalPropagate, NotifyDone, Backtrack, Notifying
<1>3. level' = level /\ level \in Nat /\ Positions' = Positions
  BY <1>1, LenProperties DEF level, TypeOK, Positions
<1>4. TypeOK'
  <2>1. target' \in Nat \cup {NoTarget}
    BY <1>2, <1>3 DEF TypeOK
  <2> QED BY <1>1, <2>1 DEF TypeOK
<1>5. LevelsFit'
  BY <1>1, <1>2, <1>3 DEF LevelsFit
<1>6. TrailFits'
  BY <1>1, <1>3 DEF TrailFits
<1>7. BucketsSound'
  BY <1>1 DEF BucketsSound, Start, level, Listable
<1>8. BucketsComplete'
  BY <1>1 DEF BucketsComplete, InBucket
<1>9. FixedFits' /\ MatrixAgrees' /\ ObserverAgrees'
  BY <1>1 DEF FixedFits, Unheard, MatrixAgrees, IsTrue, ObserverAgrees, Known, InBucket
<1> QED BY <1>4, <1>5, <1>6, <1>7, <1>8, <1>9

\* A new decision level, with or without an observed decision.
LEMMA DecideStep ==
  ASSUME IInv, OpenLevel,
         \/ \E e \in Observed, v \in Polarity : val[e] = Unknown /\ AssignDecision(e, v)
         \/ UNCHANGED <<trail, val, lvl, inexact>>
  PROVE  IInv'
<1> USE DEF IInv, TrailInv
<1>0. /\ Len(trail) \in Nat /\ level \in Nat /\ level = Len(control)
      /\ notified = Len(trail) /\ MaxLevel \in Nat
      /\ level < MaxLevel
      /\ \A l \in 1 .. level : control[l] \in Nat
      /\ Len(current_trail) = level + 1
      /\ pc = "quiet"
  BY Sizes DEF LevelsFit, OpenLevel
<1>1. /\ control' \in Seq(Nat) /\ Len(control') = level + 1 /\ level' = level + 1
      /\ \A l \in 1 .. level : control'[l] = control[l]
      /\ control'[level + 1] = Len(trail)
  BY <1>0, AppendProperties DEF OpenLevel, TypeOK, level
<1>2. /\ current_trail' \in Seq(Seq(Entry)) /\ Len(current_trail') = level + 2
      /\ \A l \in 1 .. level + 1 : current_trail'[l] = current_trail[l]
      /\ current_trail'[level + 2] = <<>>
  <2>1. <<>> \in Seq(Entry)
    BY EmptySeq
  <2> QED BY <1>0, <2>1, AppendProperties DEF OpenLevel, TypeOK
<1>3. /\ UNCHANGED <<notified, target, implied, assignments, matrix, bitdomains, fixedCycleSet>>
      /\ UNCHANGED <<units, inexact>>
      /\ pc' = "bcp"
  BY DEF OpenLevel, cycleSet, AssignDecision
<1> DEFINE Grown ==
       /\ trail' \in Seq(Observed) /\ Len(trail') \in Nat /\ Len(trail) <= Len(trail')
       /\ \A i \in Positions : trail'[i] = trail[i] /\ trail[i] \in Observed
       /\ \A i \in Positions : val'[trail[i]] = val[trail[i]] /\ lvl'[trail[i]] = lvl[trail[i]]
       /\ val' \in [Observed -> Truth] /\ lvl' \in [Observed -> 0 .. MaxLevel]
       /\ \A i, j \in Positions' : trail'[i] = trail'[j] => i = j
       /\ \A i \in Positions' : val'[trail'[i]] # Unknown
       /\ \A e \in Observed : val'[e] # Unknown => \E i \in Positions' : trail'[i] = e
       /\ \A e \in Observed : lvl'[e] <= level + 1
       /\ \A e \in Observed : (val'[e] # Unknown /\ lvl'[e] = 0)
                                <=> (val[e] # Unknown /\ lvl[e] = 0)
       /\ \A e \in Observed : val[e] # Unknown => val'[e] = val[e]
<1>4. Grown
  <2>1. \A i \in Positions : trail[i] \in Observed /\ val[trail[i]] # Unknown
    BY ElementOfSeq DEF TypeOK, Positions, TrailFits
  <2>2. \A e \in Observed : lvl[e] \in Nat /\ lvl[e] <= level
    BY DEF TypeOK, TrailFits
  <2>3. CASE UNCHANGED <<trail, val, lvl, inexact>>
    BY <1>0, <2>1, <2>2, <2>3 DEF TypeOK, TrailFits, Positions
  <2>4. ASSUME NEW e \in Observed, NEW v \in Polarity, val[e] = Unknown, AssignDecision(e, v)
        PROVE  Grown
    <3>1. /\ trail' \in Seq(Observed) /\ Len(trail') = Len(trail) + 1
          /\ \A i \in Positions : trail'[i] = trail[i]
          /\ trail'[Len(trail) + 1] = e
      BY <2>4, AppendProperties DEF AssignDecision, TypeOK, Positions
    <3>2. /\ \A x \in Observed : val'[x] = IF x = e THEN v ELSE val[x]
          /\ \A x \in Observed : lvl'[x] = IF x = e THEN level + 1 ELSE lvl[x]
          /\ val' \in [Observed -> Truth]
          /\ lvl' \in [Observed -> 0 .. MaxLevel]
      <4>1. level + 1 \in 0 .. MaxLevel /\ v \in Truth
        BY <1>0, TruthParts
      <4> QED BY <2>4, <4>1 DEF AssignDecision, TypeOK
    <3>3. \A i \in Positions : trail[i] # e
      BY <2>1, <2>4
    <3>4. Positions' = Positions \cup {Len(trail) + 1}
      BY <1>0, <3>1 DEF Positions
    <3>5. \A i, j \in Positions' : trail'[i] = trail'[j] => i = j
      BY <3>1, <3>3, <3>4 DEF TrailFits
    <3>6. /\ \A i \in Positions' : val'[trail'[i]] # Unknown
          /\ \A x \in Observed : val'[x] # Unknown => \E i \in Positions' : trail'[i] = x
      <4>1. \A i \in Positions' : val'[trail'[i]] # Unknown
        <5>1. \A i \in Positions : val'[trail'[i]] # Unknown
          BY <2>1, <3>1, <3>2, <3>3
        <5>2. val'[trail'[Len(trail) + 1]] # Unknown
          BY <3>1, <3>2, TruthParts
        <5> QED BY <3>4, <5>1, <5>2
      <4>2. ASSUME NEW x \in Observed, val'[x] # Unknown
            PROVE  \E i \in Positions' : trail'[i] = x
        <5>1. CASE x = e
          BY <3>1, <3>4, <5>1
        <5>2. CASE x # e
          <6>1. PICK i \in Positions : trail[i] = x
            BY <3>2, <4>2, <5>2 DEF TrailFits
          <6> QED BY <3>1, <3>4, <6>1
        <5> QED BY <5>1, <5>2
      <4> QED BY <4>1, <4>2
    <3>7. /\ \A x \in Observed : lvl'[x] <= level + 1
          /\ \A x \in Observed : (val'[x] # Unknown /\ lvl'[x] = 0)
                                   <=> (val[x] # Unknown /\ lvl[x] = 0)
          /\ \A x \in Observed : val[x] # Unknown => val'[x] = val[x]
      <4>1. level + 1 # 0 /\ \A x \in Observed : lvl[x] <= level + 1
        BY <1>0, <2>2
      <4>2. \A x \in Observed : lvl'[x] <= level + 1
        BY <1>0, <3>2, <4>1
      <4>3. \A x \in Observed : (val'[x] # Unknown /\ lvl'[x] = 0)
                                   <=> (val[x] # Unknown /\ lvl[x] = 0)
        BY <2>4, <3>2, <4>1
      <4>4. \A x \in Observed : val[x] # Unknown => val'[x] = val[x]
        BY <2>4, <3>2
      <4> QED BY <4>2, <4>3, <4>4
    <3>8. \A i \in Positions : val'[trail[i]] = val[trail[i]] /\ lvl'[trail[i]] = lvl[trail[i]]
      BY <2>1, <3>2, <3>3
    <3> QED BY <1>0, <2>1, <3>1, <3>2, <3>5, <3>6, <3>7, <3>8
  <2> QED BY <2>3, <2>4
<1>5. TypeOK'
  BY <1>1, <1>2, <1>3, <1>4 DEF TypeOK, Phase
<1>6. LevelsFit'
  <2>1. \A l \in 1 .. level + 1 : control'[l] <= notified
    BY <1>0, <1>1 DEF LevelsFit
  <2>2. ASSUME NEW l \in 1 .. level + 1, NEW m \in 1 .. level + 1, l <= m
        PROVE  control'[l] <= control'[m]
    <3>1. CASE m = level + 1
      BY <1>0, <1>1, <2>1, <3>1
    <3>2. CASE m # level + 1
      <4>1. l \in 1 .. level /\ m \in 1 .. level
        BY <1>0, <2>2, <3>2
      <4> QED BY <1>1, <2>2, <4>1 DEF LevelsFit
    <3> QED BY <3>1, <3>2
  <2>3. level' <= MaxLevel /\ notified' <= Len(trail')
    BY <1>0, <1>1, <1>3, <1>4
  <2>4. Len(current_trail') = level' + 1
    BY <1>0, <1>1, <1>2
  <2> QED BY <1>1, <1>3, <2>1, <2>2, <2>3, <2>4 DEF LevelsFit
<1>7. TrailFits'
  <2>1. ASSUME NEW l \in 1 .. level + 1, NEW i \in Positions', i <= control'[l]
        PROVE  lvl'[trail'[i]] < l
    <3>1. control'[l] <= Len(trail)
      BY <1>0, <1>1 DEF LevelsFit
    <3>2. i \in Positions
      BY <1>0, <1>1, <2>1, <3>1 DEF Positions
    <3>3. CASE l = level + 1
      <4>1. lvl'[trail'[i]] = lvl[trail[i]] /\ trail[i] \in Observed
        BY <1>4, <3>2
      <4>2. lvl[trail[i]] \in Nat /\ lvl[trail[i]] <= level
        BY <4>1 DEF TrailFits, TypeOK
      <4> QED BY <1>0, <3>3, <4>1, <4>2
    <3>4. CASE l # level + 1
      <4>1. l \in 1 .. level /\ i <= control[l]
        BY <1>0, <1>1, <2>1, <3>4
      <4>2. lvl[trail[i]] < l
        BY <3>2, <4>1 DEF TrailFits
      <4> QED BY <1>4, <3>2, <4>2
    <3> QED BY <3>3, <3>4
  <2> QED BY <1>1, <1>4, <2>1 DEF TrailFits
<1>8. \A l \in 1 .. level + 2 : Len(current_trail'[l]) =
                                  IF l = level + 2 THEN 0 ELSE Len(current_trail[l])
  BY <1>0, <1>2, EmptySeq
<1>9. BucketsSound'
  <2>1. ASSUME NEW l \in 1 .. level + 2, NEW p \in 1 .. Len(current_trail'[l])
        PROVE  /\ \E i \in 1 .. notified' :
                    /\ trail'[i] = current_trail'[l][p]
                    /\ Listable(trail[i])'
                    /\ (IF l = 1 THEN 0 ELSE control'[l - 1]) < i
                    /\ l <= level' => i <= control'[l]
               /\ \A q \in 1 .. Len(current_trail'[l]) :
                    current_trail'[l][p] = current_trail'[l][q] => p = q
    <3>1. l \in 1 .. level + 1 /\ current_trail'[l] = current_trail[l]
      <4>1. l \in 1 .. level + 2 /\ l # level + 2
        BY <1>0, <1>2, <1>8, <2>1
      <4>2. l \in 1 .. level + 1
        BY <1>0, <4>1
      <4> QED BY <1>2, <4>2
    <3>2. l \in 1 .. Len(current_trail) /\ p \in 1 .. Len(current_trail[l])
      BY <1>0, <3>1
    <3>3. PICK i \in 1 .. notified : /\ trail[i] = current_trail[l][p]
                                     /\ Listable(trail[i])
                                     /\ Start(l) < i
                                     /\ l <= level => i <= control[l]
      BY <3>2 DEF BucketsSound
    <3>4. i \in Positions /\ trail'[i] = trail[i] /\ Listable(trail[i])'
      BY <1>0, <1>3, <1>4, <3>3 DEF Positions, Listable
    <3>5. (IF l = 1 THEN 0 ELSE control'[l - 1]) = Start(l)
      <4>1. CASE l = 1
        BY <4>1 DEF Start
      <4>2. CASE l # 1
        <5>1. l - 1 \in 1 .. level
          BY <1>0, <3>1, <4>2
        <5>2. control'[l - 1] = control[l - 1]
          BY <1>1, <5>1
        <5> QED BY <4>2, <5>2 DEF Start
      <4> QED BY <4>1, <4>2
    <3>6. l <= level' => i <= control'[l]
      <4>1. CASE l <= level
        BY <1>0, <1>1, <3>1, <3>3, <4>1
      <4>2. CASE l = level + 1
        BY <1>0, <1>1, <3>3, <4>2
      <4> QED BY <1>0, <3>1, <4>1, <4>2
    <3>7. \A q \in 1 .. Len(current_trail[l]) :
            current_trail[l][p] = current_trail[l][q] => p = q
      BY <3>2 DEF BucketsSound
    <3> QED BY <1>3, <3>1, <3>3, <3>4, <3>5, <3>6, <3>7
  <2> QED BY <1>2, <2>1 DEF BucketsSound, Start
<1>10. \A x : InBucket(x)' <=> InBucket(x)
  <2>1. ASSUME NEW x, NEW l \in 1 .. Len(current_trail'),
               NEW p \in 1 .. Len(current_trail'[l]), current_trail'[l][p] = x
        PROVE  InBucket(x)
    <3>1. l \in 1 .. level + 1 /\ current_trail'[l] = current_trail[l]
      <4>1. l \in 1 .. level + 2 /\ l # level + 2
        BY <1>0, <1>2, <1>8, <2>1
      <4>2. l \in 1 .. level + 1
        BY <1>0, <4>1
      <4> QED BY <1>2, <4>2
    <3> QED BY <1>0, <2>1, <3>1 DEF InBucket
  <2>2. ASSUME NEW x, NEW l \in 1 .. Len(current_trail),
               NEW p \in 1 .. Len(current_trail[l]), current_trail[l][p] = x
        PROVE  InBucket(x)'
    BY <1>0, <1>2, <2>2 DEF InBucket
  <2> QED BY <2>1, <2>2 DEF InBucket
<1>11. BucketsComplete'
  <2>1. ASSUME NEW i \in 1 .. notified, lvl'[trail'[i]] > 0
        PROVE  InBucket(trail[i])'
    <3>1. i \in Positions
      BY <1>0 DEF Positions
    <3>2. trail'[i] = trail[i] /\ lvl[trail[i]] > 0
      BY <1>4, <2>1, <3>1
    <3>3. InBucket(trail[i])
      BY <1>0, <3>2 DEF BucketsComplete
    <3> QED BY <1>10, <3>2, <3>3
  <2> QED BY <1>3, <2>1 DEF BucketsComplete
<1>12. FixedFits'
  <2>1. \A x \in units : x \in Observed /\ val'[x] # Unknown /\ lvl'[x] = 0
    BY <1>4 DEF FixedFits, TypeOK
  <2>2. \A x \in inexact : val'[x] # Unknown /\ lvl'[x] > 0
    <3>1. ASSUME NEW x \in inexact
          PROVE  val'[x] # Unknown /\ lvl'[x] > 0
      <4>1. x \in Observed /\ val[x] # Unknown /\ lvl[x] > 0
        BY DEF FixedFits, TypeOK
      <4>2. val'[x] # Unknown /\ lvl'[x] # 0 /\ lvl'[x] \in Nat
        BY <1>4, <4>1
      <4> QED BY <4>2
    <3> QED BY <3>1
  <2>3. Unheard' = Unheard
    BY <1>3, <1>4 DEF Unheard
  <2> QED BY <1>3, <2>1, <2>2, <2>3 DEF FixedFits
<1>13. ObserverAgrees'
  <2>1. ASSUME NEW x \in Observed
        PROVE  /\ Known(x)' <=> Known(x)
               /\ Known(x) => val'[x] = val[x]
    <3>1. Known(x)' <=> Known(x)
      BY <1>3, <1>10 DEF Known
    <3>2. Known(x) => val[x] # Unknown
      BY BucketMember DEF Known, FixedFits
    <3> QED BY <1>4, <3>1, <3>2
  <2> QED BY <1>3, <2>1 DEF ObserverAgrees
<1>14. MatrixAgrees'
  BY <1>3 DEF MatrixAgrees, IsTrue
<1> QED BY <1>5, <1>6, <1>7, <1>9, <1>11, <1>12, <1>13, <1>14

\* The next literal of the trail reaches the observer.
LEMMA NotifyStep ==
  ASSUME IInv, NotifyAssignment
  PROVE  IInv'
<1> USE DEF IInv, TrailInv
<1> DEFINE n == notified + 1
           e == trail[n]
           L == level + 1
<1>0. /\ Len(trail) \in Nat /\ level \in Nat /\ level = Len(control)
      /\ notified \in Nat /\ n \in Positions /\ n <= Len(trail)
      /\ \A l \in 1 .. level : control[l] \in Nat /\ control[l] <= notified
      /\ Len(current_trail) = L /\ L >= 1
      /\ pc \in {"notify", "handover", "renotify"}
  <2>1. notified < Len(trail) /\ pc \in {"notify", "handover", "renotify"}
    BY DEF NotifyAssignment, Notifying
  <2>2. n \in Positions /\ n <= Len(trail)
    BY <2>1, Sizes DEF Positions
  <2>3. Len(current_trail) = L /\ L >= 1
    BY <2>1, Sizes DEF LevelsFit
  <2> QED BY <2>1, <2>2, <2>3, Sizes
<1>1. /\ UNCHANGED <<trail, val, lvl, control, inexact, units, pc, target, implied>>
      /\ notified' = n
      /\ lvl[e] = 0 => UNCHANGED observerVars
      /\ lvl[e] # 0 => notify_assignment(e, val[e], FALSE)
  BY DEF NotifyAssignment
<1>2. /\ e \in Observed /\ val[e] # Unknown /\ val[e] \in Polarity
      /\ lvl[e] \in Nat
  <2>1. e \in Observed
    BY <1>0, ElementOfSeq DEF TypeOK, Positions
  <2>2. val[e] # Unknown
    BY <1>0 DEF TrailFits
  <2> QED BY <2>1, <2>2, TruthParts DEF TypeOK
<1>3. /\ LevelsFit' <=> Len(current_trail') = Len(current_trail)
      /\ TrailFits'
  <2>1. LevelsFit' <=> Len(current_trail') = Len(current_trail)
    BY <1>0, <1>1 DEF LevelsFit, level
  <2>2. TrailFits'
    BY <1>1 DEF TrailFits, Positions, level
  <2> QED BY <2>1, <2>2
<1> HIDE DEF n, e, L
<1>4. CASE lvl[e] = 0
  <2>1. UNCHANGED <<assignments, matrix, bitdomains, fixedCycleSet, current_trail>>
    BY <1>1, <1>4 DEF observerVars
  <2>2. TypeOK'
    BY <1>0, <1>1, <2>1 DEF TypeOK, n
  <2>3. BucketsSound'
    <3>1. ASSUME NEW l \in 1 .. Len(current_trail), NEW p \in 1 .. Len(current_trail[l])
          PROVE  \E i \in 1 .. n : /\ trail[i] = current_trail[l][p]
                                   /\ Listable(trail[i])
                                   /\ Start(l) < i
                                   /\ l <= level => i <= control[l]
      <4>1. \A i \in 1 .. notified : i \in 1 .. n
        BY <1>0 DEF n
      <4> QED BY <4>1 DEF BucketsSound
    <3> QED BY <1>1, <2>1, <3>1 DEF BucketsSound, Start, level, Listable
  <2>4. BucketsComplete'
    <3>1. \A i \in 1 .. n : i = n \/ i \in 1 .. notified
      BY <1>0 DEF n
    <3>2. \A x : InBucket(x)' <=> InBucket(x)
      BY <2>1 DEF InBucket
    <3>3. ASSUME NEW i \in 1 .. n, lvl[trail[i]] > 0
          PROVE  InBucket(trail[i])
      <4>1. i \in 1 .. notified
        BY <1>4, <3>1, <3>3 DEF e
      <4> QED BY <1>0, <3>3, <4>1 DEF BucketsComplete
    <3> QED BY <1>1, <3>2, <3>3 DEF BucketsComplete
  <2>5. FixedFits' /\ ObserverAgrees' /\ MatrixAgrees'
    BY <1>1, <2>1 DEF FixedFits, Unheard, ObserverAgrees, MatrixAgrees, IsTrue, Known, InBucket
  <2> QED BY <1>3, <2>1, <2>2, <2>3, <2>4, <2>5
<1>5. CASE lvl[e] # 0
  <2>0. Len(current_trail) >= 1 /\ notify_assignment(e, val[e], FALSE)
    BY <1>0, <1>1, <1>5
  <2>1. /\ assignments' \in AssignmentsType /\ matrix' \in MatrixType
        /\ bitdomains' \in DomainsType
        /\ \A r \in Rows, c \in Val, k \in Val :
             assignments'[r][c][k] = IF <<r, c, k>> = e THEN val[e] ELSE assignments[r][c][k]
        /\ fixedCycleSet' = fixedCycleSet
        /\ fixedCycleSet' \subseteq Entry
        /\ current_trail' \in Seq(Seq(Entry))
        /\ Len(current_trail') = Len(current_trail)
        /\ \A l \in 1 .. Len(current_trail) :
             current_trail'[l] = IF l = Len(current_trail)
                                   THEN Append(current_trail[l], e) ELSE current_trail[l]
    BY <1>2, <2>0, NotifyEffect, FALSE \in BOOLEAN, ZenonT(40)
  <2>2. TypeOK'
    BY <1>0, <1>1, <2>1 DEF TypeOK, n, AssignmentsType, MatrixType, DomainsType
  <2> DEFINE B == current_trail[L]
  <2>3. /\ B \in Seq(Entry) /\ Len(B) \in Nat /\ L \in 1 .. L
        /\ current_trail'[L] = Append(B, e)
        /\ Len(current_trail'[L]) = Len(B) + 1
        /\ \A p \in 1 .. Len(B) : current_trail'[L][p] = B[p]
        /\ current_trail'[L][Len(B) + 1] = e
        /\ \A l \in 1 .. L : l # L => current_trail'[l] = current_trail[l]
    <3>1. L \in 1 .. L /\ L = Len(current_trail)
      BY <1>0 DEF L
    <3>2. B \in Seq(Entry) /\ Len(B) \in Nat
      BY <3>1, ElementOfSeq, LenProperties DEF TypeOK
    <3>3. e \in Entry
      BY <1>2, EntryParts
    <3>4. /\ current_trail'[L] = Append(B, e)
          /\ \A l \in 1 .. L : l # L => current_trail'[l] = current_trail[l]
      BY <2>1, <3>1
    <3> HIDE DEF B
    <3> QED BY <3>1, <3>2, <3>3, <3>4, AppendProperties
  <2>4. \A l \in 1 .. L : \A p \in 1 .. Len(current_trail[l]) :
          current_trail[l][p] # e
    <3>1. ASSUME NEW l \in 1 .. L, NEW p \in 1 .. Len(current_trail[l])
          PROVE  current_trail[l][p] # e
      <4>1. PICK i \in 1 .. notified : trail[i] = current_trail[l][p]
        BY <1>0 DEF BucketsSound
      <4>2. i \in Positions /\ i # n
        BY <1>0 DEF Positions, n
      <4> QED BY <1>0, <4>1, <4>2 DEF TrailFits, e
    <3> QED BY <3>1
  <2>5. ~InBucket(e)
    BY <1>0, <2>4 DEF InBucket
  <2>6. e \notin fixedCycleSet /\ assignments[e[1]][e[2]][e[3]] = Unknown
    BY <1>2, <1>5, <2>5 DEF FixedFits, ObserverAgrees, Known
  <2>7. MatrixAgrees'
    BY <1>2, <2>0, <2>6, NotifyKeepsMatrix, FALSE \in BOOLEAN, Zenon
  <2>8. BucketsSound'
    <3>1. ASSUME NEW l \in 1 .. L, NEW p \in 1 .. Len(current_trail'[l])
          PROVE  /\ \E i \in 1 .. n : /\ trail[i] = current_trail'[l][p]
                                      /\ Listable(trail[i])
                                      /\ Start(l) < i
                                      /\ l <= level => i <= control[l]
                 /\ \A q \in 1 .. Len(current_trail'[l]) :
                      current_trail'[l][p] = current_trail'[l][q] => p = q
      <4>1. CASE l = L /\ p = Len(B) + 1
        <5>1. Start(l) < n /\ n \in 1 .. n
          BY <1>0, <4>1 DEF Start, n, L
        <5>2. \A q \in 1 .. Len(B) : current_trail'[l][q] # e
          BY <2>3, <2>4, <4>1
        <5>3. \A q \in 1 .. Len(current_trail'[l]) : q = p \/ q \in 1 .. Len(B)
          BY <2>3, <4>1
        <5>4. ~(l <= level) /\ Listable(e) /\ current_trail'[l][p] = e
          BY <1>0, <1>2, <1>5, <2>3, <4>1 DEF L, Listable
        <5> QED BY <5>1, <5>2, <5>3, <5>4 DEF e
      <4>2. CASE ~(l = L /\ p = Len(B) + 1)
        <5>1. p \in 1 .. Len(current_trail[l]) /\ current_trail'[l][p] = current_trail[l][p]
          BY <2>3, <4>2
        <5>2. PICK i \in 1 .. notified : /\ trail[i] = current_trail[l][p]
                                         /\ Listable(trail[i])
                                         /\ Start(l) < i
                                         /\ l <= level => i <= control[l]
          BY <1>0, <5>1 DEF BucketsSound
        <5>3. i \in 1 .. n
          BY <1>0 DEF n
        <5>4. \A q \in 1 .. Len(current_trail[l]) :
                current_trail[l][p] = current_trail[l][q] => p = q
          BY <1>0, <5>1 DEF BucketsSound
        <5>5. ASSUME NEW q \in 1 .. Len(current_trail'[l]),
                     current_trail'[l][p] = current_trail'[l][q]
              PROVE  p = q
          <6>1. CASE q \in 1 .. Len(current_trail[l])
            <7>1. current_trail'[l][q] = current_trail[l][q]
              BY <2>3, <6>1
            <7> QED BY <5>1, <5>4, <5>5, <6>1, <7>1
          <6>2. CASE q \notin 1 .. Len(current_trail[l])
            <7>1. l = L /\ q = Len(B) + 1
              BY <2>3, <6>2
            <7> QED BY <2>3, <2>4, <5>1, <5>5, <7>1
          <6> QED BY <6>1, <6>2
        <5> QED BY <5>1, <5>2, <5>3, <5>5
      <4> QED BY <4>1, <4>2
    <3> QED BY <1>0, <1>1, <2>1, <3>1 DEF BucketsSound, Start, level, Listable
  <2>9. \A x : InBucket(x)' <=> (InBucket(x) \/ x = e)
    <3>1. ASSUME NEW x, NEW l \in 1 .. L, NEW p \in 1 .. Len(current_trail'[l]),
                 current_trail'[l][p] = x
          PROVE  InBucket(x) \/ x = e
      <4>1. CASE l = L /\ p = Len(B) + 1
        BY <2>3, <3>1, <4>1
      <4>2. CASE ~(l = L /\ p = Len(B) + 1)
        <5>1. p \in 1 .. Len(current_trail[l]) /\ current_trail'[l][p] = current_trail[l][p]
          BY <2>3, <4>2
        <5> QED BY <1>0, <3>1, <5>1 DEF InBucket
      <4> QED BY <4>1, <4>2
    <3>2. ASSUME NEW x, NEW l \in 1 .. L, NEW p \in 1 .. Len(current_trail[l]),
                 current_trail[l][p] = x
          PROVE  InBucket(x)'
      <4>1. p \in 1 .. Len(current_trail'[l]) /\ current_trail'[l][p] = x
        BY <2>3, <3>2
      <4> QED BY <1>0, <2>1, <4>1 DEF InBucket
    <3>3. ASSUME NEW x, x = e
          PROVE  InBucket(x)'
      <4>1. Len(B) + 1 \in 1 .. Len(current_trail'[L]) /\ L \in 1 .. Len(current_trail')
        BY <1>0, <2>1, <2>3
      <4> QED BY <2>3, <3>3, <4>1 DEF InBucket
    <3>4. Len(current_trail') = L
      BY <1>0, <2>1
    <3>5. \A x : InBucket(x)' => InBucket(x) \/ x = e
      BY <3>1, <3>4 DEF InBucket
    <3>6. \A x : InBucket(x) => InBucket(x)'
      BY <1>0, <3>2 DEF InBucket
    <3> QED BY <3>3, <3>5, <3>6
  <2>10. BucketsComplete'
    <3>1. ASSUME NEW i \in 1 .. n, lvl[trail[i]] > 0
          PROVE  InBucket(trail[i])'
      <4>1. i = n \/ i \in 1 .. notified
        BY <1>0 DEF n
      <4>2. InBucket(trail[i]) \/ trail[i] = e
        BY <1>0, <3>1, <4>1 DEF BucketsComplete, e
      <4> QED BY <1>1, <2>9, <4>2
    <3> QED BY <1>1, <3>1 DEF BucketsComplete
  <2>11. FixedFits'
    BY <1>1, <2>1 DEF FixedFits, Unheard
  <2>12. ObserverAgrees'
    <3>1. ASSUME NEW x \in Observed
          PROVE  assignments'[x[1]][x[2]][x[3]] = IF Known(x)' THEN val[x] ELSE Unknown
      <4>1. /\ x[1] \in Rows /\ x[2] \in Val /\ x[3] \in Val
            /\ x = <<x[1], x[2], x[3]>>
        BY EntryParts
      <4>2. assignments'[x[1]][x[2]][x[3]]
              = IF x = e THEN val[e] ELSE assignments[x[1]][x[2]][x[3]]
        BY <2>1, <4>1
      <4>3. Known(x)' <=> (Known(x) \/ x = e)
        BY <2>1, <2>9 DEF Known
      <4> QED BY <4>2, <4>3 DEF ObserverAgrees
    <3> QED BY <1>1, <3>1 DEF ObserverAgrees
  <2> QED BY <1>3, <2>1, <2>2, <2>7, <2>8, <2>10, <2>11, <2>12
<1> QED BY <1>4, <1>5

\* One iteration of notify_backtrack: it skips what is fixed and clears the rest.
LEMMA UndoEffect ==
  ASSUME TypeOK, NEW e \in Observed, UndoAssignment(e),
         assignments[e[1]][e[2]][e[3]] \in Polarity
  PROVE  /\ assignments' \in AssignmentsType
         /\ \A r \in Rows, c \in Val, k \in Val :
              assignments'[r][c][k] = IF <<r, c, k>> = e /\ e \notin fixedCycleSet
                                        THEN Unknown ELSE assignments[r][c][k]
         /\ matrix' \in MatrixType
         /\ \A r \in Rows, c \in Val :
              matrix'[r][c] = IF /\ r = e[1] /\ c = e[2] /\ e \notin fixedCycleSet
                                 /\ assignments[e[1]][e[2]][e[3]] = True
                                THEN NoVal ELSE matrix[r][c]
         /\ bitdomains' \in DomainsType
<1> DEFINE v == assignments[e[1]][e[2]][e[3]]
<1>1. /\ e \in Entry /\ e[1] \in Rows /\ e[2] \in Val /\ e[3] \in Val
  BY EntryParts
<1>2. /\ assignments \in AssignmentsType /\ matrix \in MatrixType
      /\ bitdomains \in DomainsType
  BY DEF TypeOK, AssignmentsType, MatrixType, DomainsType
<1>0. CASE e \in fixedCycleSet
  BY <1>0, <1>2 DEF UndoAssignment, cycleSet
<1> SUFFICES ASSUME e \notin fixedCycleSet
             PROVE  /\ assignments' \in AssignmentsType
                    /\ \A r \in Rows, c \in Val, k \in Val :
                         assignments'[r][c][k] =
                           IF <<r, c, k>> = e THEN Unknown ELSE assignments[r][c][k]
                    /\ matrix' \in MatrixType
                    /\ \A r \in Rows, c \in Val :
                         matrix'[r][c] = IF r = e[1] /\ c = e[2] /\ v = True
                                           THEN NoVal ELSE matrix[r][c]
                    /\ bitdomains' \in DomainsType
  BY <1>0
<1>3. /\ assignments' = [assignments EXCEPT ![e[1]][e[2]][e[3]] = Unknown]
      /\ v = True => matrix' = [matrix EXCEPT ![e[1]][e[2]] = NoVal]
      /\ v # True => matrix' = matrix
      /\ v = True => bitdomains' = [bitdomains EXCEPT ![e[1]] = RowAfterUndoTrue(e)]
      /\ v = False => bitdomains' = [bitdomains EXCEPT ![e[1]][e[2]] =
                                       bitdomains[e[1]][e[2]] \cup {e[3]}]
  BY TruthParts DEF UndoAssignment
<1>4. v = True \/ v = False
  BY DEF Polarity
<1>5. /\ assignments' \in AssignmentsType
      /\ \A r \in Rows, c \in Val, k \in Val :
           assignments'[r][c][k] = IF <<r, c, k>> = e THEN Unknown ELSE assignments[r][c][k]
  BY <1>1, <1>2, <1>3, SetAssignment, TruthParts
<1>6. /\ matrix' \in MatrixType
      /\ \A r \in Rows, c \in Val :
           matrix'[r][c] = IF r = e[1] /\ c = e[2] /\ v = True THEN NoVal ELSE matrix[r][c]
  <2>1. CASE v = True
    <3>1. NoVal \in Val \cup {NoVal}
      OBVIOUS
    <3> QED BY <1>1, <1>2, <1>3, <2>1, <3>1, SetMatrix
  <2>2. CASE v # True
    BY <1>2, <1>3, <2>2
  <2> QED BY <2>1, <2>2
<1>7. bitdomains' \in DomainsType
  <2>1. CASE v = True
    <3>1. RowAfterUndoTrue(e) \in [Val -> SUBSET Val]
      BY <1>1, <1>2 DEF RowAfterUndoTrue, DomainsType
    <3> QED BY <1>1, <1>2, <1>3, <2>1, <3>1, SetRow
  <2>2. CASE v = False
    <3>1. bitdomains[e[1]][e[2]] \cup {e[3]} \in SUBSET Val
      BY <1>1, <1>2 DEF DomainsType
    <3> QED BY <1>1, <1>2, <1>3, <2>2, <3>1, SetDomain
  <2> QED BY <1>4, <2>1, <2>2
<1> QED BY <1>5, <1>6, <1>7

\* notify_backtrack undoes the first literal of its last bucket.
LEMMA UndoStep ==
  ASSUME IInv, Undo
  PROVE  IInv'
<1> USE DEF IInv, TrailInv
<1> DEFINE L == Len(current_trail)
           B == current_trail[L]
           e == Head(B)
<1>0. /\ Len(trail) \in Nat /\ level \in Nat /\ level = Len(control)
      /\ notified \in Nat /\ notified <= Len(trail)
      /\ \A l \in 1 .. level : control[l] \in Nat
      /\ target \in Nat /\ target < level /\ L \in Nat
      /\ target + 1 < L /\ L <= level + 1
      /\ pc = "undo"
  <2>1. pc = "undo" /\ target + 1 < L
    BY DEF Undo
  <2> QED BY <2>1, Sizes DEF LevelsFit
<1>1. /\ UNCHANGED <<trail, val, lvl, control, inexact, units, notified, pc, target>>
      /\ UNCHANGED <<implied, fixedCycleSet>>
      /\ current_trail' = [current_trail EXCEPT ![L] = Tail(B)]
      /\ UndoAssignment(e)
      /\ B # <<>>
  BY DEF Undo, solverVars
<1>2. /\ L \in 1 .. L /\ B \in Seq(Entry) /\ Len(B) \in Nat /\ Len(B) >= 1
      /\ Tail(B) \in Seq(Entry) /\ Len(Tail(B)) = Len(B) - 1
      /\ \A p \in 1 .. Len(B) - 1 : Tail(B)[p] = B[p + 1]
      /\ e = B[1]
  <2>1. L \in 1 .. L
    BY <1>0
  <2>2. B \in Seq(Entry)
    BY <2>1, ElementOfSeq DEF TypeOK
  <2> HIDE DEF B
  <2>3. Len(B) \in Nat /\ Len(B) >= 1
    BY <1>1, <2>2, EmptySeq
  <2>4. /\ Tail(B) \in Seq(Entry) /\ Len(Tail(B)) = Len(B) - 1
        /\ \A p \in 1 .. Len(B) - 1 : Tail(B)[p] = B[p + 1]
    BY <1>1, <2>2, HeadTailProperties
  <2>5. Head(B) = B[1]
    <3>1. 1 \in 1 .. Len(B) /\ Len(B) \in 1 .. Len(B)
      BY <2>3
    <3> QED BY <2>2, <3>1, HeadTailOfSubSeq, SubSeqFull
  <2> QED BY <2>1, <2>2, <2>3, <2>4, <2>5
<1>3. /\ current_trail' \in Seq(Seq(Entry)) /\ Len(current_trail') = L
      /\ current_trail'[L] = Tail(B)
      /\ \A l \in 1 .. L : l # L => current_trail'[l] = current_trail[l]
  <2>1. current_trail \in Seq(Seq(Entry))
    BY DEF TypeOK
  <2> HIDE DEF B
  <2> QED BY <1>1, <1>2, <2>1, ExceptSeq
<1>4. PICK i0 \in 1 .. notified : /\ trail[i0] = e
                                  /\ Start(L) < i0
  BY <1>2 DEF BucketsSound
<1> HIDE DEF e
<1>5. InBucket(e) /\ e \in Observed /\ val[e] \in Polarity
  <2>1. 1 \in 1 .. Len(current_trail[L]) /\ L \in 1 .. Len(current_trail)
    BY <1>2
  <2>2. InBucket(e)
    BY <1>2, <2>1 DEF InBucket
  <2> QED BY <2>2, BucketMember, TruthParts DEF TypeOK
<1>7. assignments[e[1]][e[2]][e[3]] = val[e]
  BY <1>5 DEF ObserverAgrees, Known
<1>8. /\ assignments' \in AssignmentsType
      /\ \A r \in Rows, c \in Val, k \in Val :
           assignments'[r][c][k] = IF <<r, c, k>> = e /\ e \notin fixedCycleSet
                                     THEN Unknown ELSE assignments[r][c][k]
      /\ matrix' \in MatrixType
      /\ \A r \in Rows, c \in Val :
           matrix'[r][c] = IF /\ r = e[1] /\ c = e[2] /\ e \notin fixedCycleSet
                              /\ val[e] = True
                             THEN NoVal ELSE matrix[r][c]
      /\ bitdomains' \in DomainsType
  BY <1>1, <1>5, <1>7, UndoEffect
<1>9. /\ Start(L) = control[L - 1] /\ L - 1 \in 1 .. level
      /\ control[target + 1] <= control[L - 1]
      /\ \A l \in 1 .. L : l # L => l \in 1 .. level /\ control[l] <= control[L - 1]
  <2>1. Start(L) = control[L - 1] /\ L - 1 \in 1 .. level /\ target + 1 \in 1 .. level
    <3>1. L # 1
      <4> HIDE DEF L, B
      <4> QED BY <1>0
    <3>2. Start(L) = control[L - 1]
      BY <3>1 DEF Start
    <3>3. L - 1 \in 1 .. level /\ target + 1 \in 1 .. level
      BY <1>0
    <3> QED BY <3>2, <3>3
  <2>2. ASSUME NEW l \in 1 .. L, l # L
        PROVE  l \in 1 .. level /\ control[l] <= control[L - 1]
    <3>1. l \in 1 .. level /\ l <= L - 1
      BY <1>0, <2>2
    <3> QED BY <2>1, <3>1 DEF LevelsFit
  <2>3. control[target + 1] <= control[L - 1]
    <3>1. target + 1 <= L - 1
      BY <1>0
    <3> QED BY <2>1, <3>1 DEF LevelsFit
  <2> QED BY <2>1, <2>2, <2>3
<1>10. \A i \in 1 .. notified : i <= control[L - 1] => trail[i] # e
  <2>1. ASSUME NEW i \in 1 .. notified, i <= control[L - 1], trail[i] = e
        PROVE  FALSE
    <3>1. i \in Positions /\ i0 \in Positions
      BY <1>0 DEF Positions
    <3>2. i = i0
      BY <1>4, <2>1, <3>1 DEF TrailFits
    <3>3. control[L - 1] \in Nat /\ control[L - 1] < i0
      BY <1>0, <1>4, <1>9
    <3> QED BY <2>1, <3>2, <3>3
  <2> QED BY <2>1
<1>11. \A x : InBucket(x)' => InBucket(x) /\ x # e
  <2> SUFFICES ASSUME NEW x, NEW l \in 1 .. L, NEW p \in 1 .. Len(current_trail'[l]),
                      current_trail'[l][p] = x
               PROVE  InBucket(x) /\ x # e
    BY <1>3 DEF InBucket
  <2>1. CASE l = L
    <3>1. p \in 1 .. Len(B) - 1 /\ B[p + 1] = x /\ p + 1 \in 1 .. Len(B)
      <4>1. Len(current_trail'[l]) = Len(B) - 1 /\ current_trail'[l] = Tail(B)
        BY <1>2, <1>3, <2>1
      <4>2. p \in 1 .. Len(B) - 1 /\ p + 1 \in 1 .. Len(B)
        BY <1>2, <4>1
      <4> QED BY <1>2, <4>1, <4>2
    <3>2. B[p + 1] # B[1]
      <4>1. 1 \in 1 .. Len(current_trail[L]) /\ p + 1 \in 1 .. Len(current_trail[L]) /\ p + 1 # 1
        BY <1>2, <3>1
      <4> QED BY <1>2, <4>1 DEF BucketsSound
    <3>3. InBucket(x)
      BY <1>2, <3>1 DEF InBucket
    <3> QED BY <1>2, <3>1, <3>2, <3>3
  <2>2. CASE l # L
    <3>1. current_trail'[l] = current_trail[l] /\ p \in 1 .. Len(current_trail[l])
      BY <1>3, <2>2
    <3>2. InBucket(x)
      BY <3>1 DEF InBucket
    <3>3. PICK i \in 1 .. notified : trail[i] = x /\ (l <= level => i <= control[l])
      BY <3>1 DEF BucketsSound
    <3>4. i <= control[L - 1]
      <4>1. l \in 1 .. level /\ control[l] <= control[L - 1] /\ L - 1 \in 1 .. level
        BY <1>9, <2>2
      <4>2. control[l] \in Nat /\ control[L - 1] \in Nat /\ i <= control[l]
        BY <1>0, <3>3, <4>1
      <4> QED BY <4>1, <4>2
    <3> QED BY <1>10, <3>2, <3>3, <3>4
  <2> QED BY <2>1, <2>2
<1>12. \A x : InBucket(x) /\ x # e => InBucket(x)'
  <2> SUFFICES ASSUME NEW x, NEW l \in 1 .. L, NEW p \in 1 .. Len(current_trail[l]),
                      current_trail[l][p] = x, x # e
               PROVE  InBucket(x)'
    BY DEF InBucket
  <2>1. CASE l = L
    <3>1. p # 1 /\ p \in 1 .. Len(B) /\ Len(B) \in Nat
      BY <1>2, <2>1
    <3>2. p - 1 \in 1 .. Len(B) - 1 /\ (p - 1) + 1 = p
      BY <3>1
    <3>3. current_trail'[L][p - 1] = x /\ p - 1 \in 1 .. Len(current_trail'[L])
      BY <1>2, <1>3, <2>1, <3>2
    <3> QED BY <1>2, <1>3, <3>3 DEF InBucket
  <2>2. CASE l # L
    BY <1>3, <2>2 DEF InBucket
  <2> QED BY <2>1, <2>2
<1>13. TypeOK'
  BY <1>1, <1>3, <1>8 DEF TypeOK, AssignmentsType, MatrixType, DomainsType
<1>14. LevelsFit' /\ TrailFits'
  <2>1. LevelsFit'
    BY <1>0, <1>1, <1>3 DEF LevelsFit, level
  <2>2. TrailFits'
    BY <1>1 DEF TrailFits, Positions, level
  <2> QED BY <2>1, <2>2
<1>15. BucketsSound'
  <2>1. ASSUME NEW l \in 1 .. L, NEW p \in 1 .. Len(current_trail'[l])
        PROVE  /\ \E i \in 1 .. notified : /\ trail[i] = current_trail'[l][p]
                                           /\ Listable(trail[i])
                                           /\ Start(l) < i
                                           /\ l <= level => i <= control[l]
               /\ \A q \in 1 .. Len(current_trail'[l]) :
                    current_trail'[l][p] = current_trail'[l][q] => p = q
    <3>1. CASE l = L
      <4>0. Len(current_trail'[l]) = Len(B) - 1 /\ current_trail'[l] = Tail(B)
        BY <1>2, <1>3, <3>1
      <4>1. ASSUME NEW q \in 1 .. Len(current_trail'[l])
            PROVE  /\ q \in Nat
                   /\ q + 1 \in 1 .. Len(current_trail[L])
                   /\ current_trail'[l][q] = current_trail[L][q + 1]
        <5>1. q \in 1 .. Len(B) - 1 /\ q + 1 \in 1 .. Len(B) /\ q \in Nat
          BY <1>2, <4>0
        <5> QED BY <1>2, <4>0, <5>1
      <4>2. p + 1 \in 1 .. Len(current_trail[L]) /\ current_trail'[l][p] = current_trail[L][p + 1]
        BY <4>1
      <4>3. ASSUME NEW q \in 1 .. Len(current_trail'[l]),
                   current_trail'[l][p] = current_trail'[l][q]
            PROVE  p = q
        <5>1. p + 1 = q + 1
          <6>1. L \in 1 .. Len(current_trail) /\ q + 1 \in 1 .. Len(current_trail[L])
            BY <1>2, <4>1
          <6>2. current_trail[L][p + 1] = current_trail[L][q + 1]
            BY <4>1, <4>2, <4>3
          <6> HIDE DEF L
          <6> QED BY <4>2, <6>1, <6>2 DEF BucketsSound
        <5>2. p \in Nat /\ q \in Nat
          BY <4>1
        <5> QED BY <5>1, <5>2
      <4>4. L \in 1 .. Len(current_trail)
        BY <1>2
      <4>5. \E i \in 1 .. notified : /\ trail[i] = current_trail[L][p + 1]
                                     /\ Listable(trail[i])
                                     /\ Start(L) < i
                                     /\ L <= level => i <= control[L]
        BY <4>2, <4>4 DEF BucketsSound
      <4> QED BY <3>1, <4>2, <4>3, <4>5
    <3>2. CASE l # L
      BY <1>3, <3>2 DEF BucketsSound
    <3> QED BY <3>1, <3>2
  <2>2. UNCHANGED <<trail, lvl, units, control, notified>> /\ Len(current_trail') = L
    BY <1>1, <1>3
  <2> HIDE DEF L, B
  <2> QED BY <2>1, <2>2 DEF BucketsSound, Start, level, Listable
<1>16. BucketsComplete'
  <2>1. ASSUME NEW i \in 1 .. notified, lvl[trail[i]] > 0, i <= control[target + 1]
        PROVE  InBucket(trail[i])'
    <3>1. InBucket(trail[i])
      BY <2>1 DEF BucketsComplete
    <3>2. trail[i] # e
      <4>1. control[target + 1] \in Nat /\ control[L - 1] \in Nat
        BY <1>0, <1>9
      <4>2. i <= control[L - 1]
        BY <1>9, <2>1, <4>1
      <4> QED BY <1>10, <4>2
    <3> QED BY <1>1, <1>12, <3>1, <3>2
  <2> QED BY <1>0, <1>1, <2>1 DEF BucketsComplete
<1>17. FixedFits'
  BY <1>1 DEF FixedFits, Unheard
<1>18. ObserverAgrees'
  <2>1. ASSUME NEW x \in Observed
        PROVE  assignments'[x[1]][x[2]][x[3]] = IF Known(x)' THEN val[x] ELSE Unknown
    <3>1. /\ x[1] \in Rows /\ x[2] \in Val /\ x[3] \in Val
          /\ x = <<x[1], x[2], x[3]>>
      BY EntryParts
    <3>2. assignments'[x[1]][x[2]][x[3]]
            = IF x = e /\ e \notin fixedCycleSet
                THEN Unknown ELSE assignments[x[1]][x[2]][x[3]]
      BY <1>8, <3>1
    <3>3. Known(x)' <=> (Known(x) /\ (x = e => e \in fixedCycleSet))
      BY <1>1, <1>11, <1>12 DEF Known
    <3> QED BY <3>2, <3>3 DEF ObserverAgrees
  <2> QED BY <1>1, <2>1 DEF ObserverAgrees
<1>19. MatrixAgrees'
  <2> SUFFICES ASSUME NEW r \in Rows, NEW c \in Val, matrix'[r][c] # NoVal
               PROVE  assignments'[r][c][matrix'[r][c]] = True
    BY DEF MatrixAgrees, IsTrue
  <2>1. /\ matrix'[r][c] = matrix[r][c]
        /\ ~(r = e[1] /\ c = e[2] /\ e \notin fixedCycleSet /\ val[e] = True)
    BY <1>8
  <2>2. matrix[r][c] \in Val /\ assignments[r][c][matrix[r][c]] = True
    BY <2>1 DEF MatrixAgrees, IsTrue, TypeOK
  <2>3. <<r, c, matrix[r][c]>> # e \/ e \in fixedCycleSet
    <3>1. ASSUME <<r, c, matrix[r][c]>> = e, e \notin fixedCycleSet
          PROVE  FALSE
      <4>1. e[1] = r /\ e[2] = c /\ e[3] = matrix[r][c]
        BY <3>1
      <4> QED BY <1>7, <2>1, <2>2, <3>1, <4>1
    <3> QED BY <3>1
  <2> QED BY <1>8, <2>1, <2>2, <2>3
<1> QED BY <1>13, <1>14, <1>15, <1>16, <1>17, <1>18, <1>19

\* notify_backtrack drops an emptied bucket.
LEMMA PopStep ==
  ASSUME IInv, PopLevel
  PROVE  IInv'
<1> USE DEF IInv, TrailInv
<1> DEFINE L == Len(current_trail)
<1>0. /\ level \in Nat /\ target \in Nat /\ target < level /\ L \in Nat
      /\ target + 1 < L /\ L <= level + 1
      /\ pc = "undo"
      /\ current_trail \in Seq(Seq(Entry))
  <2>1. pc = "undo" /\ target + 1 < L /\ current_trail \in Seq(Seq(Entry))
    BY DEF PopLevel, TypeOK
  <2> QED BY <2>1, Sizes DEF LevelsFit
<1>1. /\ UNCHANGED <<trail, val, lvl, control, inexact, units, notified, pc, target, implied>>
      /\ UNCHANGED <<assignments, matrix, bitdomains, fixedCycleSet>>
      /\ current_trail' = SubSeq(current_trail, 1, L - 1)
      /\ current_trail[L] = <<>>
  BY DEF PopLevel, solverVars
<1>2. /\ current_trail' \in Seq(Seq(Entry)) /\ Len(current_trail') = L - 1
      /\ \A l \in 1 .. L - 1 : current_trail'[l] = current_trail[l]
  <2> HIDE DEF L
  <2>1. \A l \in 1 .. L - 1 : current_trail[l] \in Seq(Entry)
    BY <1>0, ElementOfSeq DEF L
  <2>2. 1 \in Int /\ L - 1 \in Int /\ 1 <= L - 1 /\ (L - 1) - 1 + 1 = L - 1
    BY <1>0
  <2>3. /\ current_trail' \in Seq(Seq(Entry))
        /\ Len(current_trail') = L - 1
        /\ \A l \in 1 .. L - 1 : current_trail'[l] = current_trail[1 + l - 1]
    BY <1>1, <2>1, <2>2, SubSeqProperties
  <2>4. \A l \in 1 .. L - 1 : 1 + l - 1 = l
    BY <2>2
  <2> QED BY <2>3, <2>4
<1> HIDE DEF L
<1>3. Len(current_trail[L]) = 0
  BY <1>1, EmptySeq
<1>4. \A l \in 1 .. L : l # L => l \in 1 .. L - 1
  BY <1>0
<1>5. \A x : InBucket(x)' <=> InBucket(x)
  <2>1. ASSUME NEW x, NEW l \in 1 .. L, NEW p \in 1 .. Len(current_trail[l]),
               current_trail[l][p] = x
        PROVE  InBucket(x)'
    <3>1. l # L
      BY <1>3
    <3> QED BY <1>2, <1>4, <2>1, <3>1 DEF InBucket
  <2>2. \A x : InBucket(x) => InBucket(x)'
    BY <2>1 DEF InBucket, L
  <2>3. \A l \in 1 .. L - 1 : l \in 1 .. L
    BY <1>0
  <2>4. \A x : InBucket(x)' => InBucket(x)
    BY <1>2, <2>3 DEF InBucket, L
  <2> QED BY <2>2, <2>4
<1>6. TypeOK'
  BY <1>1, <1>2 DEF TypeOK
<1>7. LevelsFit'
  <2>1. target + 1 <= L - 1 /\ L - 1 <= level + 1
    BY <1>0
  <2> QED BY <1>0, <1>1, <1>2, <2>1 DEF LevelsFit, level
<1>8. TrailFits'
  BY <1>1 DEF TrailFits, Positions, level
<1>9. BucketsSound'
  <2>1. ASSUME NEW l \in 1 .. L - 1
        PROVE  l \in 1 .. Len(current_trail) /\ current_trail'[l] = current_trail[l]
    <3>1. l \in 1 .. L /\ current_trail'[l] = current_trail[l]
      BY <1>0, <1>2
    <3> QED BY <3>1 DEF L
  <2>2. \A l \in 1 .. L - 1 : \A p \in 1 .. Len(current_trail[l]) :
          /\ \E i \in 1 .. notified :
               /\ trail[i] = current_trail[l][p]
               /\ Listable(trail[i])
               /\ Start(l) < i
               /\ l <= level => i <= control[l]
          /\ \A q \in 1 .. Len(current_trail[l]) :
               current_trail[l][p] = current_trail[l][q] => p = q
    BY <2>1 DEF BucketsSound
  <2> QED BY <1>1, <1>2, <2>1, <2>2 DEF BucketsSound, Start, level, Listable
<1>10. BucketsComplete'
  BY <1>0, <1>1, <1>5 DEF BucketsComplete
<1>11. FixedFits' /\ MatrixAgrees' /\ ObserverAgrees'
  BY <1>1, <1>5 DEF FixedFits, Unheard, MatrixAgrees, IsTrue, ObserverAgrees, Known
<1> QED BY <1>6, <1>7, <1>8, <1>9, <1>10, <1>11

\* backtrack drops the literals above the target level and keeps the others.
LEMMA UnassignStep ==
  ASSUME IInv, Unassign
  PROVE  IInv'
<1> USE DEF IInv, TrailInv
<1> DEFINE assigned == control[target + 1]
           Stays(e) == lvl[e] <= target
           above == {i \in assigned + 1 .. Len(trail) : Stays(trail[i])}
           kept == [n \in 1 .. Cardinality(above) |-> trail[Nth(above, n)]]
           m == Cardinality(above)
<1>0. /\ Len(trail) \in Nat /\ level \in Nat /\ level = Len(control)
      /\ notified \in Nat /\ notified <= Len(trail)
      /\ \A l \in 1 .. level : control[l] \in Nat
      /\ target \in Nat /\ target < level /\ target + 1 \in 1 .. level
      /\ assigned \in Nat /\ assigned <= notified
      /\ Len(current_trail) = target + 1
      /\ pc = "undo"
      /\ \A l \in 1 .. target : l \in 1 .. level /\ control[l] <= assigned
  <2>1. /\ Len(trail) \in Nat /\ level \in Nat /\ level = Len(control)
        /\ notified \in Nat /\ notified <= Len(trail)
        /\ \A l \in 1 .. level : control[l] \in Nat /\ control[l] <= notified
    BY Sizes
  <2>2. /\ target \in Nat /\ target < level
        /\ Len(current_trail) = target + 1
        /\ pc = "undo"
    BY DEF LevelsFit, Unassign
  <2>3. target + 1 \in 1 .. level /\ \A l \in 1 .. target : l \in 1 .. level /\ l <= target + 1
    BY <2>1, <2>2
  <2>4. \A l \in 1 .. target : control[l] <= control[target + 1]
    BY <2>3 DEF LevelsFit
  <2> QED BY <2>1, <2>2, <2>3, <2>4
<1>1. /\ trail' = SubSeq(trail, 1, assigned) \o kept
      /\ val' = [e \in Observed |-> IF Stays(e) THEN val[e] ELSE Unknown]
      /\ lvl' = [e \in Observed |-> IF Stays(e) THEN lvl[e] ELSE 0]
      /\ notified' = IF notified > assigned THEN assigned ELSE notified
      /\ inexact' = {e \in inexact : Stays(e)} /\ units' = units
      /\ pc' \in {"renotify", "jumped"}
      /\ control' = SubSeq(control, 1, target)
      /\ target' = NoTarget
      /\ UNCHANGED <<implied, assignments, matrix, bitdomains, fixedCycleSet, current_trail>>
  BY DEF Unassign, observerVars
<1>2. notified' = assigned
  BY <1>0, <1>1
<1>3. /\ control' \in Seq(Nat) /\ Len(control') = target /\ level' = target
      /\ \A l \in 1 .. target : control'[l] = control[l]
  <2>1. /\ \A l \in 1 .. target : control[l] \in Nat
        /\ 1 \in Int /\ target \in Int
        /\ (IF 1 <= target THEN target - 1 + 1 ELSE 0) = target
        /\ target - 1 + 1 = target
        /\ \A l \in 1 .. target : 1 + l - 1 = l
    BY <1>0
  <2> HIDE DEF assigned, above, kept
  <2>2. /\ control' \in Seq(Nat) /\ Len(control') = target
        /\ \A l \in 1 .. target : control'[l] = control[l]
    BY <1>1, <2>1, SubSeqProperties
  <2> QED BY <2>2 DEF level
\* the kept literals
<1>4. /\ above \in SUBSET Nat /\ IsFiniteSet(above)
      /\ \A i \in above : i \in Positions /\ i > assigned
  <2>1. above \in SUBSET (assigned + 1 .. Len(trail)) /\ above \in SUBSET Nat
    BY <1>0
  <2>2. IsFiniteSet(assigned + 1 .. Len(trail))
    <3> HIDE DEF assigned, above
    <3>1. assigned + 1 \in Int /\ Len(trail) \in Int
      BY <1>0
    <3> QED BY <3>1, FS_Interval
  <2>3. IsFiniteSet(above)
    <3> HIDE DEF above
    <3> QED BY <2>1, <2>2, FS_Subset
  <2>4. \A i \in above : i \in Positions /\ i > assigned
    BY <1>0 DEF Positions
  <2> QED BY <2>1, <2>3, <2>4
<1>5. /\ m \in Nat
      /\ \A n \in 1 .. m : Nth(above, n) \in above /\ Rank(above, Nth(above, n)) = n
      /\ \A i \in above : Rank(above, i) \in 1 .. m /\ Nth(above, Rank(above, i)) = i
  <2> HIDE DEF above
  <2> QED BY <1>4, NthEnumerates
<1>6. \A i \in above : lvl[trail[i]] <= target
  OBVIOUS
<1>7. \A i \in Positions : i > assigned /\ lvl[trail[i]] <= target => i \in above
  BY <1>0 DEF Positions
<1>8. \A i \in Positions : trail[i] \in Observed
  BY ElementOfSeq DEF TypeOK, Positions
<1> HIDE DEF above
<1>9. /\ kept \in Seq(Observed) /\ Len(kept) = m
      /\ \A n \in 1 .. m : kept[n] = trail[Nth(above, n)]
  <2>1. kept \in [1 .. m -> Observed]
    BY <1>4, <1>5, <1>8
  <2>2. kept \in Seq(Observed)
    BY <1>5, <2>1, SeqDef
  <2> QED BY <1>5, <2>1, <2>2, LenProperties
<1> HIDE DEF kept, m
<1>10. /\ trail' \in Seq(Observed) /\ Len(trail') = assigned + m
       /\ \A i \in 1 .. assigned : trail'[i] = trail[i]
       /\ \A n \in 1 .. m : trail'[assigned + n] = kept[n]
  <2> HIDE DEF assigned
  <2> DEFINE low == SubSeq(trail, 1, assigned)
  <2>1. /\ \A i \in 1 .. assigned : trail[i] \in Observed
        /\ 1 \in Int /\ assigned \in Int
        /\ (IF 1 <= assigned THEN assigned - 1 + 1 ELSE 0) = assigned
        /\ assigned - 1 + 1 = assigned
        /\ \A i \in 1 .. assigned : 1 + i - 1 = i
    BY <1>0, <1>8 DEF Positions
  <2>2. /\ low \in Seq(Observed) /\ Len(low) = assigned
        /\ \A i \in 1 .. assigned : low[i] = trail[i]
    BY <2>1, SubSeqProperties
  <2> HIDE DEF low
  <2>3. /\ trail' \in Seq(Observed) /\ Len(trail') = assigned + m
        /\ \A i \in 1 .. assigned + m : trail'[i] =
             IF i <= assigned THEN low[i] ELSE kept[i - assigned]
    BY <1>1, <1>9, <2>2, ConcatProperties DEF low
  <2>4. \A n \in 1 .. m : /\ assigned + n \in 1 .. assigned + m
                          /\ ~(assigned + n <= assigned)
                          /\ (assigned + n) - assigned = n
    BY <1>0, <1>5
  <2>5. \A i \in 1 .. assigned : i \in 1 .. assigned + m /\ i <= assigned
    BY <1>0, <1>5
  <2> QED BY <2>2, <2>3, <2>4, <2>5
\* where a literal of the new trail was before
<1> DEFINE From(i) == IF i <= assigned THEN i ELSE Nth(above, i - assigned)
<1>11. ASSUME NEW i \in Positions'
       PROVE  /\ From(i) \in Positions /\ trail'[i] = trail[From(i)]
              /\ lvl[trail[From(i)]] <= target
              /\ i <= assigned <=> From(i) <= assigned
  <2>1. CASE i <= assigned
    <3>1. i \in 1 .. assigned /\ i \in Positions /\ From(i) = i
      BY <1>0, <1>10, <2>1 DEF Positions
    <3>2. lvl[trail[i]] < target + 1
      <4>1. target + 1 \in 1 .. level /\ i <= control[target + 1]
        BY <1>0, <2>1
      <4> QED BY <3>1, <4>1 DEF TrailFits
    <3>3. lvl[trail[i]] \in Nat
      BY <1>8, <3>1 DEF TypeOK
    <3>4. lvl[trail[i]] <= target
      BY <1>0, <3>2, <3>3
    <3>5. trail'[i] = trail[i]
      BY <1>10, <3>1
    <3> HIDE DEF assigned, From
    <3> QED BY <2>1, <3>1, <3>4, <3>5
  <2>2. CASE ~(i <= assigned)
    <3> HIDE DEF assigned
    <3>1. i - assigned \in 1 .. m /\ assigned + (i - assigned) = i
      BY <1>0, <1>5, <1>10, <2>2 DEF Positions
    <3>2. From(i) \in above /\ trail'[i] = trail[From(i)]
      BY <1>5, <1>9, <1>10, <2>2, <3>1
    <3>3. From(i) \in Nat /\ From(i) > assigned
      BY <1>4, <3>2
    <3> HIDE DEF From
    <3> QED BY <1>0, <1>4, <1>6, <2>2, <3>2, <3>3
  <2> QED BY <2>1, <2>2
<1>12. ASSUME NEW i \in Positions', NEW j \in Positions', From(i) = From(j)
       PROVE  i = j
  <2> HIDE DEF assigned
  <2>1. i <= assigned <=> j <= assigned
    <3> HIDE DEF From
    <3> QED BY <1>11, <1>12
  <2>2. CASE i <= assigned
    BY <1>12, <2>1, <2>2
  <2>3. CASE ~(i <= assigned)
    <3>1. /\ i - assigned \in 1 .. m /\ j - assigned \in 1 .. m
          /\ i \in Nat /\ j \in Nat
      BY <1>0, <1>5, <1>10, <2>1, <2>3 DEF Positions
    <3>2. Nth(above, i - assigned) = Nth(above, j - assigned)
      BY <1>12, <2>1, <2>3
    <3>3. i - assigned = j - assigned
      BY <1>5, <3>1, <3>2
    <3> QED BY <1>0, <3>1, <3>3
  <2> QED BY <2>2, <2>3
<1>13. ASSUME NEW i \in Positions, lvl[trail[i]] <= target
       PROVE  \E j \in Positions' : trail'[j] = trail[i]
  <2> HIDE DEF assigned
  <2>1. CASE i <= assigned
    <3>1. i \in 1 .. assigned /\ i \in Positions'
      BY <1>0, <1>5, <1>10, <2>1 DEF Positions
    <3> QED BY <1>10, <3>1
  <2>2. CASE ~(i <= assigned)
    <3>1. i \in above
      BY <1>0, <1>7, <1>13, <2>2 DEF Positions
    <3>2. Rank(above, i) \in 1 .. m /\ Nth(above, Rank(above, i)) = i
      BY <1>5, <3>1
    <3>3. assigned + Rank(above, i) \in Positions'
      <4>1. Rank(above, i) \in Nat /\ 1 <= Rank(above, i) /\ Rank(above, i) <= m
        BY <1>5, <3>2
      <4>2. Len(trail') = assigned + m /\ assigned \in Nat /\ m \in Nat
        BY <1>0, <1>5, <1>10
      <4> QED BY <4>1, <4>2 DEF Positions
    <3>4. trail'[assigned + Rank(above, i)] = trail[i]
      BY <1>9, <1>10, <3>2
    <3> QED BY <3>3, <3>4
  <2> QED BY <2>1, <2>2
\* the levels of what stays
<1>14. /\ \A i \in 1 .. assigned : i \in Positions /\ i \in 1 .. notified /\ lvl[trail[i]] <= target
       /\ \A l \in 1 .. target, i \in 1 .. assigned : i <= control[l] => lvl[trail[i]] < l
  <2>1. \A i \in 1 .. assigned : i \in Positions /\ i \in 1 .. notified
    BY <1>0 DEF Positions
  <2>2. ASSUME NEW i \in 1 .. assigned
        PROVE  lvl[trail[i]] < target + 1 /\ lvl[trail[i]] \in Nat
    <3>1. i \in Positions /\ target + 1 \in 1 .. level /\ i <= control[target + 1]
      BY <1>0, <2>1
    <3>2. lvl[trail[i]] < target + 1
      BY <3>1 DEF TrailFits
    <3> QED BY <1>8, <3>1, <3>2 DEF TypeOK
  <2>3. \A l \in 1 .. target, i \in 1 .. assigned : i <= control[l] => lvl[trail[i]] < l
    BY <1>0, <2>1 DEF TrailFits
  <2>4. \A i \in 1 .. assigned : lvl[trail[i]] <= target
    <3> HIDE DEF assigned
    <3> QED BY <1>0, <2>2
  <2> QED BY <2>1, <2>3, <2>4
<1>15. \A e \in Observed : /\ lvl'[e] = IF lvl[e] <= target THEN lvl[e] ELSE 0
                           /\ val'[e] = IF lvl[e] <= target THEN val[e] ELSE Unknown
                           /\ lvl[e] \in 0 .. MaxLevel
  BY <1>1 DEF TypeOK
<1>16. ASSUME NEW l \in 1 .. Len(current_trail), NEW i \in 1 .. notified,
              l <= level => i <= control[l]
       PROVE  i \in 1 .. assigned
  <2>1. l \in 1 .. target + 1 /\ l <= level
    BY <1>0
  <2>2. i <= control[l] /\ control[l] <= assigned
    BY <1>0, <1>16, <2>1 DEF LevelsFit
  <2> QED BY <1>0, <2>1, <2>2
<1>17. /\ Len(current_trail) = level' + 1
       /\ \A l \in 1 .. Len(current_trail) : Start(l)' = Start(l)
       /\ \A l \in 1 .. target : l \in 1 .. level
  <2>1. \A l \in 1 .. target + 1 : l # 1 => l - 1 \in 1 .. target
    BY <1>0
  <2> QED BY <1>0, <1>3, <2>1 DEF Start
<1>18. TypeOK'
  <2>1. val' \in [Observed -> Truth] /\ lvl' \in [Observed -> 0 .. MaxLevel]
    BY <1>1, TruthParts, ConstantsAssumption DEF TypeOK
  <2>2. pc' \in Phase /\ target' \in Nat \cup {NoTarget} /\ notified' \in Nat
    BY <1>0, <1>1, <1>2 DEF Phase, NoTarget
  <2>3. inexact' \subseteq Observed /\ units' \subseteq Observed
    BY <1>1 DEF TypeOK
  <2> QED BY <1>1, <1>3, <1>10, <2>1, <2>2, <2>3 DEF TypeOK
<1> HIDE DEF assigned, From
<1>19. LevelsFit'
  <2>1. /\ level' <= MaxLevel /\ notified' <= Len(trail')
        /\ pc' # "quiet" /\ pc' # "undo"
        /\ Len(current_trail') = level' + 1
    BY <1>0, <1>1, <1>2, <1>3, <1>5, <1>10, <1>17, ConstantsAssumption DEF LevelsFit
  <2>2. \A l \in 1 .. level' : control'[l] <= notified'
    BY <1>0, <1>2, <1>3
  <2>3. \A l, k \in 1 .. level' : l <= k => control'[l] <= control'[k]
    BY <1>3, <1>17 DEF LevelsFit
  <2> QED BY <2>1, <2>2, <2>3 DEF LevelsFit
<1>20. TrailFits'
  <2>1. \A i, j \in Positions' : trail'[i] = trail'[j] => i = j
    <3>1. ASSUME NEW i \in Positions', NEW j \in Positions', trail'[i] = trail'[j]
          PROVE  i = j
      <4>1. From(i) = From(j)
        BY <1>11, <3>1 DEF TrailFits
      <4> QED BY <1>12, <4>1
    <3> QED BY <3>1
  <2>2. \A i \in Positions' : val'[trail'[i]] # Unknown
    <3>1. ASSUME NEW i \in Positions'
          PROVE  val'[trail'[i]] # Unknown
      <4>1. val[trail[From(i)]] # Unknown /\ trail[From(i)] \in Observed
        BY <1>8, <1>11 DEF TrailFits
      <4> QED BY <1>11, <1>15, <4>1
    <3> QED BY <3>1
  <2>3. \A e \in Observed : val'[e] # Unknown => \E i \in Positions' : trail'[i] = e
    <3>1. ASSUME NEW e \in Observed, val'[e] # Unknown
          PROVE  \E i \in Positions' : trail'[i] = e
      <4>1. lvl[e] <= target /\ val[e] # Unknown
        BY <1>15, <3>1
      <4>2. PICK i \in Positions : trail[i] = e
        BY <4>1 DEF TrailFits
      <4> QED BY <1>13, <4>1, <4>2
    <3> QED BY <3>1
  <2>4. \A e \in Observed : lvl'[e] <= level'
    BY <1>0, <1>3, <1>15
  <2>5. \A l \in 1 .. level', i \in Positions' : i <= control'[l] => lvl'[trail'[i]] < l
    <3>1. ASSUME NEW l \in 1 .. target, NEW i \in Positions', i <= control[l]
          PROVE  lvl'[trail'[i]] < l
      <4>1. i \in 1 .. assigned
        BY <1>0, <1>5, <1>10, <3>1 DEF Positions
      <4>2. trail'[i] = trail[i] /\ trail[i] \in Observed
        BY <1>8, <1>10, <1>14, <4>1
      <4>3. lvl[trail[i]] < l /\ lvl[trail[i]] <= target
        BY <1>14, <3>1, <4>1
      <4> QED BY <1>15, <4>2, <4>3
    <3> QED BY <1>3, <3>1
  <2> QED BY <2>1, <2>2, <2>3, <2>4, <2>5 DEF TrailFits
<1>21. \A i \in 1 .. assigned : /\ trail'[i] = trail[i] /\ i \in 1 .. notified'
                                /\ trail[i] \in Observed
                                /\ lvl'[trail[i]] = lvl[trail[i]]
                                /\ val'[trail[i]] = val[trail[i]]
  BY <1>2, <1>8, <1>10, <1>14, <1>15
<1>22. BucketsSound'
  <2>1. ASSUME NEW l \in 1 .. Len(current_trail), NEW p \in 1 .. Len(current_trail[l])
        PROVE  /\ \E i \in 1 .. notified' : /\ trail'[i] = current_trail[l][p]
                                            /\ Listable(trail[i])'
                                            /\ Start(l)' < i
                                            /\ l <= level' => i <= control'[l]
               /\ \A q \in 1 .. Len(current_trail[l]) :
                    current_trail[l][p] = current_trail[l][q] => p = q
    <3>1. PICK i \in 1 .. notified : /\ trail[i] = current_trail[l][p]
                                     /\ Listable(trail[i])
                                     /\ Start(l) < i
                                     /\ l <= level => i <= control[l]
      BY DEF BucketsSound
    <3>2. i \in 1 .. assigned
      BY <1>16, <3>1
    <3>3. l <= level' => l \in 1 .. target /\ l <= level
      BY <1>0, <1>3
    <3>4. l <= level' => i <= control'[l]
      BY <1>3, <3>1, <3>3
    <3>5. /\ i \in 1 .. notified' /\ trail'[i] = current_trail[l][p]
          /\ Listable(trail[i])' /\ Start(l)' < i
      BY <1>1, <1>17, <1>21, <3>1, <3>2 DEF Listable
    <3>6. \A q \in 1 .. Len(current_trail[l]) :
            current_trail[l][p] = current_trail[l][q] => p = q
      BY DEF BucketsSound
    <3> QED BY <3>4, <3>5, <3>6
  <2>2. current_trail' = current_trail
    BY <1>1
  <2> QED BY <2>1, <2>2 DEF BucketsSound
<1>23. \A x : InBucket(x)' <=> InBucket(x)
  BY <1>1 DEF InBucket
<1>24. BucketsComplete'
  <2>1. ASSUME NEW i \in 1 .. assigned, lvl[trail[i]] > 0
        PROVE  InBucket(trail[i])
    BY <1>0, <1>14, <2>1 DEF BucketsComplete, assigned
  <2>2. ASSUME NEW i \in 1 .. assigned, lvl'[trail'[i]] > 0
        PROVE  InBucket(trail'[i])
    BY <1>21, <2>1, <2>2
  <2>3. notified' = assigned /\ current_trail' = current_trail /\ pc' # "undo"
    BY <1>1, <1>2
  <2> QED BY <2>2, <2>3 DEF BucketsComplete, InBucket
<1>25. FixedFits'
  <2>1. \A e \in Observed : e \in fixedCycleSet' <=> e \in units'
    BY <1>1 DEF FixedFits
  <2>2. \A e \in units' : val'[e] # Unknown /\ lvl'[e] = 0
    <3>1. \A e \in units : e \in Observed /\ val[e] # Unknown /\ lvl[e] = 0 /\ 0 <= target
      BY <1>0 DEF FixedFits, TypeOK
    <3> QED BY <1>1, <1>15, <3>1
  <2>3. \A e \in inexact' : val'[e] # Unknown /\ lvl'[e] > 0
    <3>1. \A e \in inexact' : e \in Observed /\ val[e] # Unknown /\ lvl[e] > 0 /\ lvl[e] <= target
      BY <1>1 DEF FixedFits, TypeOK
    <3> QED BY <1>15, <3>1
  <2>4. ~PropLits => inexact' = {}
    BY <1>1 DEF FixedFits
  <2>5. Unheard' \subseteq Unheard
    BY <1>1, <1>15 DEF Unheard
  <2> QED BY <2>1, <2>2, <2>3, <2>4, <2>5 DEF FixedFits
<1>26. ObserverAgrees'
  <2>1. ASSUME NEW x \in Observed, Known(x)
        PROVE  val'[x] = val[x]
    <3>1. CASE x \in fixedCycleSet
      <4>1. lvl[x] = 0 /\ 0 <= target
        BY <1>0, <3>1 DEF FixedFits
      <4> QED BY <1>15, <4>1
    <3>2. CASE InBucket(x)
      <4>1. PICK l \in 1 .. Len(current_trail) :
              \E p \in 1 .. Len(current_trail[l]) : current_trail[l][p] = x
        BY <3>2 DEF InBucket
      <4>2. PICK i \in 1 .. notified : trail[i] = x /\ (l <= level => i <= control[l])
        BY <4>1 DEF BucketsSound
      <4> QED BY <1>16, <1>21, <4>2
    <3> QED BY <2>1, <3>1, <3>2 DEF Known
  <2>2. \A x : Known(x)' <=> Known(x)
    BY <1>1, <1>23 DEF Known
  <2> QED BY <1>1, <2>1, <2>2 DEF ObserverAgrees
<1>27. MatrixAgrees'
  BY <1>1 DEF MatrixAgrees, IsTrue
<1> QED BY <1>18, <1>19, <1>20, <1>22, <1>24, <1>25, <1>26, <1>27
\* A conflict shows that a literal belongs to a lower level, perhaps to the root:
\* then the observer is told a second time, or for the first.
LEMMA ExplainStep ==
  ASSUME IInv, NEW e \in Observed, NEW lv \in 0 .. level, Explain(e, lv)
  PROVE  IInv'
<1> USE DEF IInv, TrailInv
<1>0. /\ level \in Nat /\ level <= MaxLevel /\ MaxLevel \in Nat
      /\ lvl[e] \in Nat /\ lv \in Nat /\ lv < lvl[e]
      /\ \A x \in Observed : lvl[x] \in Nat
      /\ val[e] \in Polarity /\ PropLits
      /\ pc # "undo" /\ Len(current_trail) >= 1
  <2>1. e \in inexact /\ lv < lvl[e] /\ pc # "undo"
    BY DEF Explain
  <2>2. val[e] \in Polarity /\ PropLits
    BY <2>1, TruthParts DEF FixedFits, TypeOK
  <2>3. Len(current_trail) >= 1
    BY <2>1, Sizes DEF LevelsFit
  <2>4. level \in Nat /\ level <= MaxLevel /\ MaxLevel \in Nat
    BY Sizes
  <2>5. \A x \in Observed : lvl[x] \in Nat
    BY DEF TypeOK
  <2> QED BY <2>1, <2>2, <2>3, <2>4, <2>5
<1>1. /\ UNCHANGED <<trail, val, control, notified, target, implied>>
      /\ pc' = "analyze" /\ inexact' = inexact \ {e}
      /\ \A x \in Observed : lvl'[x] = IF x = e THEN lv ELSE lvl[x]
      /\ lvl' \in [Observed -> 0 .. MaxLevel]
  <2>1. lv \in 0 .. MaxLevel
    BY <1>0
  <2> QED BY <2>1 DEF Explain, TypeOK
<1>2. \A x \in Observed : lvl'[x] <= lvl[x] /\ lvl'[x] \in Nat
  BY <1>0, <1>1
<1>3. \A i \in Positions : trail[i] \in Observed
  BY ElementOfSeq DEF TypeOK, Positions
<1>4. lv # 0 => units' = units /\ UNCHANGED observerVars
  BY DEF Explain
<1>5. lv = 0 => units' = units \cup {e} /\ notify_assignment(e, val[e], TRUE)
  BY DEF Explain, mark_fixed
<1>6. lv = 0 => /\ assignments' \in AssignmentsType /\ matrix' \in MatrixType
                /\ bitdomains' \in DomainsType /\ fixedCycleSet' \subseteq Entry
                /\ fixedCycleSet' = fixedCycleSet \cup {e}
                /\ current_trail' = current_trail
                /\ \A r \in Rows, c \in Val, k \in Val :
                     assignments'[r][c][k] =
                       IF <<r, c, k>> = e THEN val[e] ELSE assignments[r][c][k]
  BY <1>0, <1>5, NotifyEffect, TRUE \in BOOLEAN, ZenonT(40)
<1>7. current_trail' = current_trail
  BY <1>4, <1>6 DEF observerVars
<1>8. TypeOK'
  <2>1. /\ assignments' \in AssignmentsType /\ matrix' \in MatrixType
        /\ bitdomains' \in DomainsType /\ fixedCycleSet' \subseteq Entry
    BY <1>4, <1>6 DEF observerVars, TypeOK, AssignmentsType, MatrixType, DomainsType
  <2>2. units' \subseteq Observed
    BY <1>4, <1>5 DEF TypeOK
  <2> QED BY <1>1, <1>7, <2>1, <2>2
          DEF TypeOK, Phase, AssignmentsType, MatrixType, DomainsType
<1>9. LevelsFit'
  <2>1. level' = level
    BY <1>1 DEF level
  <2> QED BY <1>0, <1>1, <1>7, <2>1 DEF LevelsFit
<1>10. TrailFits'
  <2>1. level' = level /\ Positions' = Positions
    BY <1>1 DEF level, Positions
  <2>2. \A x \in Observed : lvl'[x] <= level
    BY <1>0, <1>2 DEF TrailFits
  <2>3. ASSUME NEW l \in 1 .. level, NEW i \in Positions, i <= control[l]
        PROVE  lvl'[trail[i]] < l
    <3>1. lvl[trail[i]] < l
      BY <2>3 DEF TrailFits
    <3> QED BY <1>0, <1>2, <1>3, <3>1
  <2> QED BY <1>1, <2>1, <2>2, <2>3 DEF TrailFits
<1>11. \A x \in Observed : lvl[x] > 0 \/ (PropLits /\ x \in units)
                             => lvl'[x] > 0 \/ (PropLits /\ x \in units')
  <2>1. lv = 0 => e \in units'
    BY <1>5
  <2>2. units \subseteq units'
    BY <1>4, <1>5
  <2> QED BY <1>0, <1>1, <2>1, <2>2 DEF Listable
<1>12. \A i \in 1 .. notified : trail[i] \in Observed
  BY <1>3, Sizes DEF Positions
<1>13. BucketsSound'
  <2>1. ASSUME NEW l \in 1 .. Len(current_trail), NEW p \in 1 .. Len(current_trail[l])
        PROVE  \E i \in 1 .. notified :
                 /\ trail[i] = current_trail[l][p]
                 /\ lvl'[trail[i]] > 0 \/ (PropLits /\ trail[i] \in units')
                 /\ Start(l) < i
                 /\ l <= level => i <= control[l]
    <3>1. PICK i \in 1 .. notified :
            /\ trail[i] = current_trail[l][p]
            /\ Listable(trail[i])
            /\ Start(l) < i
            /\ l <= level => i <= control[l]
      BY DEF BucketsSound
    <3>2. lvl'[trail[i]] > 0 \/ (PropLits /\ trail[i] \in units')
      BY <1>11, <1>12, <3>1 DEF Listable
    <3> QED BY <3>1, <3>2
  <2>2. \A l \in 1 .. Len(current_trail) : \A p, q \in 1 .. Len(current_trail[l]) :
          current_trail[l][p] = current_trail[l][q] => p = q
    BY DEF BucketsSound
  <2>3. UNCHANGED <<trail, control, notified, current_trail>>
    BY <1>1, <1>7
  <2> QED BY <2>1, <2>2, <2>3 DEF BucketsSound, Start, level, Listable
<1>14. \A x : InBucket(x)' <=> InBucket(x)
  BY <1>7 DEF InBucket
<1>15. BucketsComplete'
  <2>1. ASSUME NEW i \in 1 .. notified, lvl'[trail[i]] > 0
        PROVE  InBucket(trail[i])
    <3>1. lvl[trail[i]] > 0
      BY <1>0, <1>2, <1>12, <2>1
    <3> QED BY <1>0, <3>1 DEF BucketsComplete
  <2> QED BY <1>1, <1>14, <2>1 DEF BucketsComplete
<1>16. FixedFits'
  <2>1. \A x \in Observed : x \in fixedCycleSet' <=> x \in units'
    BY <1>4, <1>5, <1>6 DEF FixedFits, observerVars
  <2>2. \A x \in units' : val'[x] # Unknown /\ lvl'[x] = 0
    <3>1. \A x \in units : x \in Observed /\ val'[x] # Unknown /\ lvl'[x] = 0
      BY <1>0, <1>1 DEF FixedFits, TypeOK
    <3>2. lv = 0 => val'[e] # Unknown /\ lvl'[e] = 0
      BY <1>0, <1>1, TruthParts
    <3>3. units' = units \/ (units' = units \cup {e} /\ lv = 0)
      BY <1>4, <1>5
    <3> QED BY <3>1, <3>2, <3>3
  <2>3. \A x \in inexact' : val'[x] # Unknown /\ lvl'[x] > 0
    BY <1>1 DEF FixedFits, TypeOK
  <2> QED BY <1>0, <2>1, <2>2, <2>3 DEF FixedFits
<1>17. assignments[e[1]][e[2]][e[3]] \in {Unknown, val[e]}
  BY DEF ObserverAgrees
<1>18. ObserverAgrees'
  <2>1. ASSUME NEW x \in Observed
        PROVE  assignments'[x[1]][x[2]][x[3]] = IF Known(x)' THEN val[x] ELSE Unknown
    <3>1. /\ x[1] \in Rows /\ x[2] \in Val /\ x[3] \in Val
          /\ x = <<x[1], x[2], x[3]>>
      BY EntryParts
    <3>2. CASE lv = 0
      <4>1. /\ fixedCycleSet' = fixedCycleSet \cup {e}
            /\ assignments'[x[1]][x[2]][x[3]]
                 = IF x = e THEN val[e] ELSE assignments[x[1]][x[2]][x[3]]
        BY <1>6, <3>1, <3>2
      <4> QED BY <1>14, <4>1 DEF ObserverAgrees, Known
    <3>3. CASE lv # 0
      BY <1>4, <1>14, <3>3 DEF ObserverAgrees, Known, observerVars
    <3> QED BY <3>2, <3>3
  <2> QED BY <1>1, <2>1 DEF ObserverAgrees
<1>19. MatrixAgrees'
  <2>1. CASE lv = 0
    BY <1>0, <1>5, <1>17, <2>1, NotifyKeepsMatrix, TRUE \in BOOLEAN, Zenon
  <2>2. CASE lv # 0
    BY <1>4, <2>2 DEF MatrixAgrees, IsTrue, observerVars
  <2> QED BY <2>1, <2>2
<1> QED BY <1>8, <1>9, <1>10, <1>13, <1>15, <1>16, <1>18, <1>19
-----------------------------------------------------------------------------
(* The theorems *)

\* The constructor leaves an observer that knows the diagonal and nothing else.
LEMMA InitIInv == Init => IInv
<1> SUFFICES ASSUME Init
             PROVE  IInv
  OBVIOUS
<1> USE DEF Init
<1>1. /\ trail \in Seq(Observed) /\ Len(trail) = 0
      /\ control \in Seq(Nat) /\ Len(control) = 0 /\ level = 0
      /\ current_trail \in Seq(Seq(Entry)) /\ Len(current_trail) = 1
      /\ current_trail[1] = <<>> /\ Len(current_trail[1]) = 0
  BY DEF level
<1>2. /\ val = [e \in Observed |-> Unknown] /\ lvl = [e \in Observed |-> 0]
      /\ inexact = {} /\ units = {}
      /\ notified = 0 /\ pc = "bcp" /\ target = NoTarget /\ implied = 0
      /\ \A r \in Rows, c \in Val, k \in Val :
           assignments[r][c][k] = InitAssignment(r, c, k)
      /\ \A r \in Rows, c \in Val : matrix[r][c] = IF OnDiag(r, c) THEN Diag[r] ELSE NoVal
      /\ fixedCycleSet = {e \in Entry : OnDiag(e[1], e[2])}
  OBVIOUS
<1>3. TypeOK
  <2>1. /\ assignments \in [Rows -> [Val -> [Val -> Truth]]]
        /\ matrix \in [Rows -> [Val -> Val \cup {NoVal}]]
        /\ bitdomains \in [Rows -> [Val -> SUBSET Val]]
    <3>1. \A r \in Rows, c \in Val, k \in Val : InitAssignment(r, c, k) \in Truth
      BY DEF InitAssignment, Truth, Polarity
    <3>2. \A r \in Rows : Diag[r] \in Val
      BY EntryParts, ConstantsAssumption
    <3> QED BY <3>1, <3>2
  <2>2. /\ val \in [Observed -> Truth] /\ lvl \in [Observed -> 0 .. MaxLevel]
        /\ implied \in 0 .. MaxImplied
    BY <1>2, TruthParts, ConstantsAssumption
  <2>3. /\ notified \in Nat /\ pc \in Phase /\ target \in Nat \cup {NoTarget}
        /\ fixedCycleSet \subseteq Entry
        /\ inexact \subseteq Observed /\ units \subseteq Observed
    BY <1>2 DEF Phase
  <2> QED BY <1>1, <2>1, <2>2, <2>3 DEF TypeOK
<1> HIDE DEF Init
<1>4. LevelsFit
  BY <1>1, <1>2, ConstantsAssumption DEF LevelsFit
<1>5. TrailFits
  BY <1>1, <1>2 DEF TrailFits, Positions
<1>6. BucketsSound /\ BucketsComplete
  BY <1>1, <1>2 DEF BucketsSound, BucketsComplete
<1>7. \A e \in Observed : ~OnDiag(e[1], e[2])
  BY DEF OnDiag, Observed
<1>8. \A e \in Observed : ~Known(e)
  BY <1>1, <1>2, <1>7 DEF Known, InBucket
<1>9. FixedFits
  BY <1>2, <1>7 DEF FixedFits, Unheard
<1>10. ObserverAgrees
  BY <1>2, <1>7, <1>8, EntryParts DEF ObserverAgrees, InitAssignment
<1>11. MatrixAgrees
  <2>1. ASSUME NEW r \in Rows, NEW c \in Val, matrix[r][c] # NoVal
        PROVE  assignments[r][c][matrix[r][c]] = True
    <3>1. OnDiag(r, c) /\ matrix[r][c] = Diag[r] /\ Diag[r] \in Val
      BY <1>2, <2>1, EntryParts, ConstantsAssumption
    <3> QED BY <1>2, <3>1 DEF InitAssignment
  <2> QED BY <2>1 DEF MatrixAgrees, IsTrue
<1> QED BY <1>3, <1>4, <1>5, <1>6, <1>9, <1>10, <1>11 DEF IInv, TrailInv

\* Every step of the solver keeps the inductive invariant.
LEMMA StepIInv == IInv /\ [Next]_vars => IInv'
<1> SUFFICES ASSUME IInv, [Next]_vars
             PROVE  IInv'
  OBVIOUS
<1>0. /\ level \in 0 .. level
      /\ UNCHANGED implied \/ (implied < MaxImplied /\ implied' = implied + 1)
           => implied' \in 0 .. MaxImplied
  BY Sizes, ConstantsAssumption DEF IInv, TrailInv, TypeOK
<1>1. ASSUME NEW e \in Observed, NEW v \in Polarity, NEW lv \in 0 .. level, Imply(e, v, lv)
      PROVE  IInv'
  <2>1. /\ val[e] = Unknown /\ Assign(e, v, lv, Observed)
        /\ pc \in {"bcp", "quiet", "jumped"} /\ pc' \in {"bcp", "handover"}
        /\ UNCHANGED <<control, notified, target>>
        /\ implied' \in 0 .. MaxImplied
    BY <1>0, <1>1 DEF Imply
  <2> QED BY <2>1, AssignIsNew, AssignStep
<1>2. ASSUME NEW g \in Groups, NEW e \in g, NEW lv \in 0 .. level, Propagate(g, e, lv)
      PROVE  IInv'
  <2>1. e \in Observed /\ val[e] = Unknown
    BY <1>2, EntryParts DEF Propagate, OpenIn
  <2>2. PICK v \in Polarity, reason \in {TrueIn(g), g \ {e}} : Assign(e, v, lv, reason)
    BY <1>2 DEF Propagate, Polarity
  <2>3. /\ pc \in {"bcp", "quiet", "jumped"} /\ pc' \in {"bcp", "handover"}
        /\ UNCHANGED <<control, notified, target>>
        /\ implied' \in 0 .. MaxImplied
    BY <1>0, <1>2 DEF Propagate
  <2> QED BY <2>1, <2>2, <2>3, AssignIsNew, AssignStep
<1>3. ASSUME NEW e \in Observed, NEW v \in Polarity, NEW lv \in 0 .. level, Drive(e, v, lv)
      PROVE  IInv'
  <2>1. /\ val[e] = Unknown /\ Assign(e, v, lv, Observed)
        /\ pc \in {"bcp", "quiet", "jumped"} /\ pc' \in {"bcp", "handover"}
        /\ UNCHANGED <<control, notified, target>>
        /\ implied' \in 0 .. MaxImplied
    BY <1>0, <1>3 DEF Drive
  <2> QED BY <2>1, AssignIsNew, AssignStep
<1>4. ASSUME NEW e \in Observed, NEW v \in Polarity, PropagateExternal(e, v)
      PROVE  IInv'
  <2>1. NewLiteral(e, v, level) /\ val[e] = Unknown
    BY <1>4, ExternalIsNew
  <2>2. /\ pc \in {"bcp", "quiet", "jumped"} /\ pc' \in {"bcp", "handover"}
        /\ UNCHANGED <<control, notified, target>>
        /\ implied' \in 0 .. MaxImplied
    BY <1>0, <1>4 DEF PropagateExternal
  <2> QED BY <1>0, <2>1, <2>2, AssignStep
<1>5. ASSUME NEW e \in Observed, NEW lv \in 0 .. level, Explain(e, lv)
      PROVE  IInv'
  BY <1>5, ExplainStep
<1>6. CASE Resume
  BY <1>6, PhaseStep
<1>7. CASE ExternalPropagate
  BY <1>7, PhaseStep
<1>8. CASE NotifyAssignment
  BY <1>8, NotifyStep
<1>9. CASE NotifyDone
  BY <1>9, PhaseStep
<1>10. ASSUME NEW e \in Observed, Decide(e)
       PROVE  IInv'
  <2>1. val[e] = Unknown /\ OpenLevel /\ AssignDecision(e, True) /\ True \in Polarity
    BY <1>10 DEF Decide, ask_decision, Polarity
  <2> QED BY <2>1, DecideStep
<1>11. ASSUME NEW e \in Observed, NEW v \in Polarity, DecideInternal(e, v)
       PROVE  IInv'
  BY <1>11, DecideStep DEF DecideInternal
<1>12. CASE DecideUnobserved
  BY <1>12, DecideStep DEF DecideUnobserved
<1>13. CASE \E new_level \in 0 .. level : Backtrack(new_level)
  BY <1>13, PhaseStep
<1>14. CASE Undo
  BY <1>14, UndoStep
<1>15. CASE PopLevel
  BY <1>15, PopStep
<1>16. CASE Unassign
  BY <1>16, UnassignStep
<1>17. CASE UNCHANGED vars
  BY <1>17 DEF vars, IInv, TrailInv, TypeOK, LevelsFit, TrailFits, BucketsSound,
               BucketsComplete, FixedFits, Unheard, Listable, ObserverAgrees, MatrixAgrees,
               Known, InBucket, IsTrue, level, Positions, Start
<1> QED BY <1>1, <1>2, <1>3, <1>4, <1>5, <1>6, <1>7, <1>8, <1>9, <1>10, <1>11, <1>12,
           <1>13, <1>14, <1>15, <1>16, <1>17 DEF Next

LEMMA Invariance == Spec => []IInv
<1> QED BY InitIInv, StepIInv, PTL DEF Spec

\* Type correctness of the observer and of the solver's trail.
THEOREM TypeCorrect == Spec => []TypeOK
<1>1. IInv => TypeOK
  BY DEF IInv, TrailInv
<1> QED BY <1>1, Invariance, PTL

\* The observer knows the whole trail.
LEMMA QuietAgrees ==
  ASSUME IInv, Quiet, NEW e \in Observed
  PROVE  assignments[e[1]][e[2]][e[3]] = IF e \in Unheard THEN Unknown ELSE val[e]
<1> USE DEF IInv, TrailInv
<1>0. assignments[e[1]][e[2]][e[3]] = IF Known(e) THEN val[e] ELSE Unknown
  BY DEF ObserverAgrees
<1>1. Known(e) => e \notin Unheard
  BY BucketMember DEF Known, Unheard, FixedFits, Listable
<1>2. ASSUME ~Known(e), val[e] # Unknown
      PROVE  e \in Unheard
  <2>1. PICK i \in Positions : trail[i] = e
    BY <1>2 DEF TrailFits
  <2>2. i \in 1 .. notified /\ pc # "undo"
    BY DEF LevelsFit, Quiet, Positions
  <2>3. ~(lvl[e] > 0) /\ lvl[e] \in Nat
    BY <1>2, <2>1, <2>2 DEF BucketsComplete, Known, TypeOK
  <2>4. e \notin units
    BY <1>2 DEF FixedFits, Known
  <2> QED BY <1>2, <2>3, <2>4 DEF Unheard
<1> QED BY <1>0, <1>1, <1>2

\* Whenever cb_propagate, cb_has_external_clause, cb_check_found_model or
\* cb_decide run, the observer's assignments are the solver's, but for the root
\* literals cb_propagate proposed, for every history of conflicts, restarts, kept
\* out-of-order literals, lowered levels and hand-overs before propagation ended.
THEOREM ObserverMirrorsSolver == Spec => []AssignmentsAgree
<1>1. IInv => AssignmentsAgree
  BY QuietAgrees DEF AssignmentsAgree
<1> QED BY <1>1, Invariance, PTL

\* Without --propLits nothing is kept from the observer.
THEOREM ObserverHearsAll ==
  Spec => [](~PropLits /\ Quiet => \A e \in Observed : assignments[e[1]][e[2]][e[3]] = val[e])
<1>1. IInv => (~PropLits /\ Quiet => \A e \in Observed : assignments[e[1]][e[2]][e[3]] = val[e])
  BY QuietAgrees DEF IInv, FixedFits
<1> QED BY <1>1, Invariance, PTL

\* The partially defined matrix that checkMin hands to the minimality check shows
\* only values whose literal is true.
THEOREM MatrixIsTrue == Spec => []MatrixSound
<1>1. IInv => MatrixSound
  BY DEF IInv, MatrixAgrees, MatrixSound
<1> QED BY <1>1, Invariance, PTL

\* What is notified as fixed stays assigned, on level 0, with that value.
THEOREM FixedForGood == Spec => []FixedAgree
<1>1. IInv => FixedAgree
  <2> SUFFICES ASSUME IInv, NEW e \in fixedCycleSet \cap Observed
               PROVE  /\ lvl[e] = 0 /\ val[e] \in Polarity
                      /\ assignments[e[1]][e[2]][e[3]] = val[e]
    BY DEF FixedAgree
  <2>1. val[e] # Unknown /\ lvl[e] = 0
    BY DEF IInv, FixedFits
  <2>2. val[e] \in Polarity
    BY <2>1, TruthParts DEF IInv, TrailInv, TypeOK
  <2> QED BY <2>1, <2>2 DEF IInv, ObserverAgrees, Known
<1> QED BY <1>1, Invariance, PTL
-----------------------------------------------------------------------------
(* The buckets, the matrix, the domains and cb_decide *)

\* A bucket B lists its literals in the order of the trail t, up to position n.
InOrder(B, t, n) ==
  \A p, q \in 1 .. Len(B) : \A i, j \in 1 .. n :
    p < q /\ t[i] = B[p] /\ t[j] = B[q] => i < j
BucketsOrdered == \A l \in 1 .. Len(current_trail) : InOrder(current_trail[l], trail, notified)

\* The solver talks to the observer when unit propagation is complete.
Settled == pc \in {"notify", "quiet"} => ~Conflict /\ Propagated

\* A level was opened on a settled trail: the others of a group with a true
\* literal below are false, and were so before the level was opened.
Before(e, l) == \E j \in 1 .. control[l] : trail[j] = e
ClosedSettled ==
  \A l \in 1 .. level : \A e \in Observed : Before(e, l) /\ val[e] = True =>
    \A g \in Groups : e \in g => \A x \in g \ {e} : val[x] = False /\ Before(x, l)

\* Entries without a variable keep what the constructor gave them.
UnobservedKept ==
  \A e \in Entry \ Observed :
    /\ assignments[e[1]][e[2]][e[3]] = InitAssignment(e[1], e[2], e[3])
    /\ e \in fixedCycleSet <=> OnDiag(e[1], e[2])

DiagonalKept ==
  /\ \A r \in Rows : DiagPart => matrix[r][r] = Diag[r]
  /\ \A r \in Rows, c \in Val :
       DiagPart /\ SmallerEncoding /\ r # c => Diag[r] \notin bitdomains[r][c]

\* A true literal that can be undone and is not about to be shows in the matrix
\* and its value is in the domain, unless another one of its group contests it.
Closed(e) == level > 0 /\ Before(e, level)
Contested(e) == \E g \in Groups : e \in g /\ \E x \in g \ {e} : IsTrue(x[1], x[2], x[3])
Shows(e) == /\ matrix[e[1]][e[2]] = e[3]
            /\ e[3] \in bitdomains[e[1]][e[2]] \/ (DiagPart /\ e[3] = Diag[e[1]])
Shown ==
  \A e \in Observed \ fixedCycleSet :
    IsTrue(e[1], e[2], e[3]) /\ (pc = "undo" => Closed(e)) => Contested(e) \/ Shows(e)

\* A value is missing in a domain for a reason, and no false value is in one.
DomainsReasoned ==
  \A r \in Rows, c \in Val, k \in Val :
    \/ k \in bitdomains[r][c]
    \/ assignments[r][c][k] = False
    \/ \E j \in Val \ {c} : IsTrue(r, j, k)
    \/ \E m \in Val : IsTrue(r, c, m)
DomainsOpen ==
  \A r \in Rows, c \in Val, k \in Val :
    assignments[r][c][k] = False => k \notin bitdomains[r][c]

RowsInv == UnobservedKept /\ DiagonalKept /\ DomainsReasoned /\ DomainsOpen
JInv == BucketsOrdered /\ Settled /\ ClosedSettled /\ Shown /\ RowsInv
-----------------------------------------------------------------------------
(* Finite sets of positions, values and cells *)

LEMMA TwoMembers ==
  ASSUME NEW T, IsFiniteSet(T), NEW a \in T, NEW b \in T, a # b
  PROVE  Cardinality(T) > 1
<1>1. Cardinality(T) \in Nat /\ Cardinality(T) # 0
  BY FS_CardinalityType, FS_EmptySet
<1>2. Cardinality(T) # 1
  BY FS_Singleton
<1> QED BY <1>1, <1>2

\* The first of a set of positions in the order of Nth is the least one.
LEMMA LeastMember ==
  ASSUME NEW P \in SUBSET Nat, IsFiniteSet(P), P # {}
  PROVE  \E m \in P : \A j \in P : m <= j
<1>1. Cardinality(P) \in Nat /\ Cardinality(P) # 0
  BY FS_CardinalityType, FS_EmptySet
<1>2. 1 \in 1 .. Cardinality(P)
  BY <1>1
<1> DEFINE m == Nth(P, 1)
<1>3. m \in P /\ Rank(P, m) = 1
  BY <1>2, NthEnumerates
<1> HIDE DEF m
<1>4. ASSUME NEW j \in P, ~(m <= j)
      PROVE  FALSE
  <2> DEFINE T == {i \in P : i <= m}
  <2>1. j \in T /\ m \in T /\ j # m
    BY <1>3, <1>4
  <2>2. IsFiniteSet(T)
    BY FS_Subset
  <2>3. Cardinality(T) = 1
    BY <1>3 DEF Rank
  <2> HIDE DEF T
  <2>4. Cardinality(T) > 1
    BY <2>1, <2>2, TwoMembers
  <2> QED BY <2>3, <2>4
<1> QED BY <1>3, <1>4

\* An increasing enumeration of a set of positions is the one by rank.
LEMMA IncreasingIsNth ==
  ASSUME NEW P \in SUBSET Nat, NEW m \in Nat, NEW f \in [1 .. m -> P],
         \A p, q \in 1 .. m : p < q => f[p] < f[q],
         \A i \in P : \E p \in 1 .. m : f[p] = i
  PROVE  /\ IsFiniteSet(P) /\ Cardinality(P) = m
         /\ \A p \in 1 .. m : Nth(P, p) = f[p]
<1>0. \A n \in Nat : IsFiniteSet(1 .. n) /\ Cardinality(1 .. n) = n
  <2>1. \A n \in Nat : 1 \in Int /\ n \in Int /\ (IF 1 > n THEN 0 ELSE n - 1 + 1) = n
    OBVIOUS
  <2> QED BY <2>1, FS_Interval
<1>1. \A p, q \in 1 .. m : f[p] = f[q] => p = q
  <2>1. ASSUME NEW p \in 1 .. m, NEW q \in 1 .. m, f[p] = f[q]
        PROVE  p = q
    <3>1. f[p] \in Nat /\ f[q] \in Nat
      OBVIOUS
    <3>2. p < q \/ q < p \/ p = q
      OBVIOUS
    <3> QED BY <2>1, <3>1, <3>2
  <2> QED BY <2>1
<1>2. f \in Bijection(1 .. m, P)
  BY <1>1 DEF Bijection, Injection, IsInjective, Surjection
<1>3. IsFiniteSet(P) /\ Cardinality(P) = m
  BY <1>0, <1>2, FS_Bijection DEF ExistsBijection
<1>4. ASSUME NEW p \in 1 .. m
      PROVE  Nth(P, p) = f[p]
  <2> DEFINE T == {j \in P : j <= f[p]}
             g == [q \in 1 .. p |-> f[q]]
  <2>1. ASSUME NEW q \in 1 .. m
        PROVE  f[q] \in T <=> q \in 1 .. p
    <3>1. f[p] \in Nat /\ f[q] \in Nat
      OBVIOUS
    <3>2. q < p \/ p < q \/ p = q
      OBVIOUS
    <3> QED BY <3>1, <3>2
  <2>2. 1 .. p \subseteq 1 .. m /\ p \in Nat
    OBVIOUS
  <2>3. g \in [1 .. p -> T]
    BY <2>1, <2>2
  <2>4. \A x, y \in 1 .. p : g[x] = g[y] => x = y
    BY <1>1, <2>2
  <2>5. \A i \in T : \E q \in 1 .. p : g[q] = i
    BY <2>1
  <2> HIDE DEF g, T
  <2>6. g \in Bijection(1 .. p, T)
    BY <2>3, <2>4, <2>5 DEF Bijection, Injection, IsInjective, Surjection
  <2>7. Cardinality(T) = p
    BY <1>0, <2>2, <2>6, FS_Bijection DEF ExistsBijection
  <2>8. Rank(P, f[p]) = p
    BY <2>7 DEF Rank, T
  <2> QED BY <1>3, <2>8, NthEnumerates
<1> QED BY <1>3, <1>4
-----------------------------------------------------------------------------
(* What the steps do to the trail and the buckets *)

LEMMA Assigned ==
  ASSUME IInv, NEW e \in Observed, val[e] = Unknown, NEW v \in Polarity,
         NEW lv \in 0 .. level, pc \in {"bcp", "quiet", "jumped"}, NewLiteral(e, v, lv)
  PROVE  /\ \A i \in Positions : trail'[i] = trail[i]
         /\ \A x \in Observed : val[x] # Unknown => val'[x] = val[x]
         /\ current_trail' = current_trail
         /\ Len(current_trail) >= 1
         /\ \/ notify_assignment(e, v, TRUE)
            \/ UNCHANGED <<assignments, matrix, bitdomains, fixedCycleSet>>
         /\ assignments[e[1]][e[2]][e[3]] = Unknown
<1> USE DEF IInv, TrailInv
<1>1. \A i \in Positions : trail'[i] = trail[i]
  BY AppendProperties DEF NewLiteral, AssignAt, TypeOK, Positions
<1>2. \A x \in Observed : val[x] # Unknown => val'[x] = val[x]
  BY DEF NewLiteral, AssignAt, TypeOK
<1>3. Len(current_trail) >= 1
  BY Sizes DEF LevelsFit
<1>4. CASE mark_fixed(e, v)
  <2>1. notify_assignment(e, v, TRUE)
    BY <1>4 DEF mark_fixed
  <2>2. current_trail' = current_trail
    BY <2>1 DEF notify_assignment
  <2> QED BY <1>1, <1>2, <1>3, <2>1, <2>2 DEF ObserverAgrees
<1>5. CASE ~mark_fixed(e, v)
  <2>1. UNCHANGED <<assignments, matrix, bitdomains, fixedCycleSet, current_trail>>
    BY <1>5 DEF NewLiteral, Learned, observerVars
  <2> QED BY <1>1, <1>2, <1>3, <2>1 DEF ObserverAgrees
<1> QED BY <1>4, <1>5

LEMMA Notified ==
  ASSUME IInv, NotifyAssignment, NEW e, e = trail[notified + 1]
  PROVE  /\ UNCHANGED <<trail, val, lvl, control, pc>>
         /\ notified' = notified + 1 /\ notified + 1 \in Positions /\ notified \in Nat
         /\ \A i \in 1 .. notified : trail[i] # e
         /\ Len(current_trail) >= 1
         /\ e \in Observed /\ val[e] \in Polarity
         /\ lvl[e] = 0 => UNCHANGED <<assignments, matrix, bitdomains, fixedCycleSet, current_trail>>
         /\ lvl[e] # 0 => /\ notify_assignment(e, val[e], FALSE)
                          /\ assignments[e[1]][e[2]][e[3]] = Unknown
<1> USE DEF IInv, TrailInv
<1>1. /\ UNCHANGED <<trail, val, lvl, control, pc>> /\ notified' = notified + 1
      /\ lvl[e] = 0 => UNCHANGED <<assignments, matrix, bitdomains, fixedCycleSet, current_trail>>
      /\ lvl[e] # 0 => notify_assignment(e, val[e], FALSE)
      /\ pc \in Notifying /\ notified < Len(trail)
  BY DEF NotifyAssignment, observerVars
<1>2. /\ notified + 1 \in Positions /\ notified \in Nat /\ Len(current_trail) >= 1
      /\ \A i \in 1 .. notified : i \in Positions /\ i # notified + 1
  BY <1>1, Sizes DEF Positions, LevelsFit, Notifying
<1>3. e \in Observed /\ val[e] \in Polarity
  <2>1. e \in Observed
    BY <1>2, ElementOfSeq DEF TypeOK, Positions
  <2> QED BY <1>2, <2>1, TruthParts DEF TypeOK, TrailFits
<1>4. \A i \in 1 .. notified : trail[i] # e
  BY <1>2 DEF TrailFits
<1>5. lvl[e] # 0 => assignments[e[1]][e[2]][e[3]] = Unknown
  <2>1. ~InBucket(e)
    BY <1>4, BucketMember
  <2> QED BY <1>3, <2>1 DEF FixedFits, ObserverAgrees, Known
<1> QED BY <1>1, <1>2, <1>3, <1>4, <1>5

Decision == \/ \E e \in Observed, v \in Polarity : val[e] = Unknown /\ AssignDecision(e, v)
            \/ UNCHANGED <<trail, val, lvl>>

LEMMA Opened ==
  ASSUME IInv, OpenLevel, Decision
  PROVE  /\ pc = "quiet" /\ pc' = "bcp" /\ notified = Len(trail) /\ level \in Nat
         /\ level' = level + 1
         /\ \A l \in 1 .. level : control'[l] = control[l]
         /\ control'[level + 1] = Len(trail)
         /\ Len(current_trail) = level + 1 /\ Len(current_trail') = level + 2
         /\ \A l \in 1 .. level + 1 : current_trail'[l] = current_trail[l]
         /\ Len(current_trail'[level + 2]) = 0
         /\ UNCHANGED <<notified, assignments, matrix, bitdomains, fixedCycleSet>>
         /\ \A i \in Positions : trail'[i] = trail[i]
         /\ \A x \in Observed : val[x] # Unknown => val'[x] = val[x]
<1> USE DEF IInv, TrailInv
<1>1. /\ pc = "quiet" /\ pc' = "bcp" /\ notified = Len(trail) /\ level \in Nat
      /\ Len(current_trail) = level + 1
      /\ UNCHANGED <<notified, assignments, matrix, bitdomains, fixedCycleSet>>
  BY Sizes DEF LevelsFit, OpenLevel, cycleSet
<1>2. /\ level' = level + 1
      /\ \A l \in 1 .. level : control'[l] = control[l]
      /\ control'[level + 1] = Len(trail)
  BY Sizes, AppendProperties DEF OpenLevel, TypeOK, level
<1>3. /\ Len(current_trail') = level + 2
      /\ \A l \in 1 .. level + 1 : current_trail'[l] = current_trail[l]
      /\ Len(current_trail'[level + 2]) = 0
  <2>1. <<>> \in Seq(Entry) /\ Len(<<>>) = 0
    OBVIOUS
  <2> QED BY <1>1, <2>1, AppendProperties DEF OpenLevel, TypeOK
<1>4. /\ \A i \in Positions : trail'[i] = trail[i]
      /\ \A x \in Observed : val[x] # Unknown => val'[x] = val[x]
  <2>1. CASE UNCHANGED <<trail, val, lvl>>
    BY <2>1
  <2>2. ASSUME NEW e \in Observed, NEW v \in Polarity, val[e] = Unknown, AssignDecision(e, v)
        PROVE  /\ \A i \in Positions : trail'[i] = trail[i]
               /\ \A x \in Observed : val[x] # Unknown => val'[x] = val[x]
    BY <2>2, AppendProperties DEF AssignDecision, TypeOK, Positions
  <2> QED BY <2>1, <2>2 DEF Decision
<1> QED BY <1>1, <1>2, <1>3, <1>4

LEMMA Undone ==
  ASSUME IInv, Undo, NEW L, L = Len(current_trail), NEW e, e = Head(current_trail[L])
  PROVE  /\ UNCHANGED <<trail, val, lvl, control, notified, pc, fixedCycleSet>>
         /\ pc = "undo"
         /\ e \in Observed /\ val[e] \in Polarity
         /\ assignments[e[1]][e[2]][e[3]] = val[e]
         /\ UndoAssignment(e)
         /\ e \in fixedCycleSet => UNCHANGED <<assignments, matrix, bitdomains>>
         /\ L \in Nat /\ Len(current_trail') = L /\ L \in 1 .. L
         /\ \A l \in 1 .. L : l # L => current_trail'[l] = current_trail[l]
         /\ Len(current_trail[L]) \in Nat
         /\ Len(current_trail'[L]) = Len(current_trail[L]) - 1
         /\ \A p \in 1 .. Len(current_trail[L]) - 1 :
              current_trail'[L][p] = current_trail[L][p + 1]
<1> USE DEF IInv, TrailInv
<1> DEFINE B == current_trail[L]
<1>1. /\ UNCHANGED <<trail, val, lvl, control, notified, pc, fixedCycleSet>>
      /\ current_trail' = [current_trail EXCEPT ![L] = Tail(B)]
      /\ UndoAssignment(e)
      /\ B # <<>> /\ pc = "undo" /\ target + 1 < L
  BY DEF Undo, solverVars
<1>2. L \in Nat /\ L \in 1 .. L
  BY <1>1, Sizes DEF TypeOK, LevelsFit
<1>3. /\ B \in Seq(Entry) /\ current_trail \in Seq(Seq(Entry))
  BY <1>2, ElementOfSeq DEF TypeOK
<1> HIDE DEF B
<1>4. /\ Len(B) \in Nat /\ Len(B) >= 1
      /\ Tail(B) \in Seq(Entry) /\ Len(Tail(B)) = Len(B) - 1
      /\ \A p \in 1 .. Len(B) - 1 : Tail(B)[p] = B[p + 1]
  BY <1>1, <1>3, EmptySeq, HeadTailProperties
<1>5. e = B[1]
  <2>1. 1 \in 1 .. Len(B) /\ Len(B) \in 1 .. Len(B)
    BY <1>4
  <2> QED BY <1>3, <2>1, HeadTailOfSubSeq, SubSeqFull DEF B
<1>6. /\ Len(current_trail') = L
      /\ current_trail'[L] = Tail(B)
      /\ \A l \in 1 .. L : l # L => current_trail'[l] = current_trail[l]
  BY <1>1, <1>2, <1>3, <1>4, ExceptSeq
<1>7. InBucket(e)
  BY <1>2, <1>4, <1>5 DEF InBucket, B
<1>8. e \in Observed /\ val[e] \in Polarity
  <2>1. e \in Observed /\ val[e] # Unknown
    BY <1>7, BucketMember
  <2> QED BY <2>1, TruthParts DEF TypeOK
<1>10. e \in fixedCycleSet => UNCHANGED <<assignments, matrix, bitdomains>>
  BY <1>1 DEF UndoAssignment, cycleSet
<1>9. assignments[e[1]][e[2]][e[3]] = val[e]
  BY <1>7, <1>8 DEF ObserverAgrees, Known
<1> QED BY <1>1, <1>2, <1>4, <1>6, <1>8, <1>9, <1>10 DEF B

LEMMA Popped ==
  ASSUME IInv, PopLevel
  PROVE  /\ UNCHANGED <<trail, val, lvl, control, notified, pc>>
         /\ UNCHANGED <<assignments, matrix, bitdomains, fixedCycleSet>>
         /\ pc = "undo"
         /\ Len(current_trail') \in Nat /\ Len(current_trail') = Len(current_trail) - 1
         /\ \A l \in 1 .. Len(current_trail') :
              l \in 1 .. Len(current_trail) /\ current_trail'[l] = current_trail[l]
<1> USE DEF IInv, TrailInv
<1> DEFINE L == Len(current_trail)
<1>1. /\ UNCHANGED <<trail, val, lvl, control, notified, pc>>
      /\ UNCHANGED <<assignments, matrix, bitdomains, fixedCycleSet>>
      /\ pc = "undo" /\ target + 1 < L
      /\ current_trail' = SubSeq(current_trail, 1, L - 1)
      /\ current_trail \in Seq(Seq(Entry))
  BY DEF PopLevel, solverVars, TypeOK
<1>2. L \in Nat /\ L - 1 \in Nat /\ 1 <= L - 1 /\ (L - 1) - 1 + 1 = L - 1
  BY <1>1, Sizes DEF LevelsFit
<1>3. \A l \in 1 .. L - 1 : l \in 1 .. L /\ current_trail[l] \in Seq(Entry) /\ 1 + l - 1 = l
  BY <1>1, <1>2, ElementOfSeq
<1> HIDE DEF L
<1>4. /\ Len(current_trail') = L - 1
      /\ \A l \in 1 .. L - 1 : current_trail'[l] = current_trail[1 + l - 1]
  BY <1>1, <1>2, <1>3, SubSeqProperties
<1> QED BY <1>1, <1>2, <1>3, <1>4 DEF L

LEMMA Unassigned ==
  ASSUME IInv, Unassign
  PROVE  /\ pc = "undo" /\ pc' \in {"renotify", "jumped"}
         /\ target \in Nat /\ level \in Nat /\ target + 1 \in 1 .. level
         /\ UNCHANGED <<assignments, matrix, bitdomains, fixedCycleSet, current_trail>>
         /\ Len(current_trail) = target + 1
         /\ level' = target
         /\ \A l \in 1 .. target : control'[l] = control[l] /\ control[l] <= control[target + 1]
         /\ control[target + 1] \in Nat
         /\ notified' = control[target + 1] /\ notified' <= notified
         /\ \A i \in 1 .. control[target + 1] : /\ i \in 1 .. notified /\ i \in Positions
                                                /\ trail'[i] = trail[i]
                                                /\ val'[trail[i]] = val[trail[i]]
<1> USE DEF IInv, TrailInv
<1> DEFINE assigned == control[target + 1]
           Stays(e) == lvl[e] <= target
           above == {i \in assigned + 1 .. Len(trail) : Stays(trail[i])}
           kept == [n \in 1 .. Cardinality(above) |-> trail[Nth(above, n)]]
<1>1. /\ pc = "undo" /\ pc' \in {"renotify", "jumped"}
      /\ Len(current_trail) = target + 1
      /\ trail' = SubSeq(trail, 1, assigned) \o kept
      /\ val' = [e \in Observed |-> IF Stays(e) THEN val[e] ELSE Unknown]
      /\ notified' = IF notified > assigned THEN assigned ELSE notified
      /\ control' = SubSeq(control, 1, target)
      /\ UNCHANGED <<assignments, matrix, bitdomains, fixedCycleSet, current_trail>>
  BY DEF Unassign, observerVars
<1>2. /\ target \in Nat /\ level \in Nat /\ target + 1 \in 1 .. level
      /\ assigned \in Nat /\ assigned <= notified /\ notified \in Nat
      /\ Len(trail) \in Nat /\ notified <= Len(trail)
      /\ \A l \in 1 .. target : l \in 1 .. level /\ control[l] \in Nat
  <2>1. target \in Nat /\ target < level
    BY <1>1 DEF LevelsFit
  <2>2. /\ level \in Nat /\ notified \in Nat /\ Len(trail) \in Nat /\ notified <= Len(trail)
        /\ \A l \in 1 .. level : control[l] \in Nat /\ control[l] <= notified
    BY Sizes
  <2>3. target + 1 \in 1 .. level /\ \A l \in 1 .. target : l \in 1 .. level
    BY <2>1, <2>2
  <2> QED BY <2>1, <2>2, <2>3
<1>3. /\ notified' = assigned
      /\ \A i \in 1 .. assigned : i \in 1 .. notified /\ i \in Positions
  BY <1>1, <1>2 DEF Positions
<1>4. level' = target /\ \A l \in 1 .. target : control'[l] = control[l]
  <2>1. /\ 1 \in Int /\ target \in Int
        /\ (IF 1 <= target THEN target - 1 + 1 ELSE 0) = target
        /\ target - 1 + 1 = target
        /\ \A l \in 1 .. target : 1 + l - 1 = l
    BY <1>2
  <2> HIDE DEF assigned, above, kept
  <2>2. Len(control') = target /\ \A l \in 1 .. target : control'[l] = control[l]
    BY <1>1, <1>2, <2>1, SubSeqProperties
  <2> QED BY <2>2 DEF level
<1>5. \A l \in 1 .. target : control[l] <= assigned
  <2>1. \A l \in 1 .. target : l <= target + 1
    BY <1>2
  <2> QED BY <1>2, <2>1 DEF LevelsFit
<1>6. \A i \in 1 .. assigned : trail'[i] = trail[i]
  <2> DEFINE low == SubSeq(trail, 1, assigned)
             m == Cardinality(above)
             T == Observed \cup {kept[n] : n \in 1 .. m}
  <2>1. m \in Nat
    <3>1. above \in SUBSET (assigned + 1 .. Len(trail))
      OBVIOUS
    <3>2. IsFiniteSet(assigned + 1 .. Len(trail))
      <4>1. assigned + 1 \in Int /\ Len(trail) \in Int
        BY <1>2
      <4> HIDE DEF assigned
      <4> QED BY <4>1, FS_Interval
    <3> HIDE DEF above
    <3> QED BY <3>1, <3>2, FS_Subset, FS_CardinalityType
  <2>2. kept \in Seq(T)
    <3>1. kept \in [1 .. m -> T]
      OBVIOUS
    <3> HIDE DEF kept, m, T
    <3> QED BY <2>1, <3>1, SeqDef
  <2>3. low \in Seq(T) /\ Len(low) = assigned /\ \A i \in 1 .. assigned : low[i] = trail[i]
    <3>1. \A i \in 1 .. assigned : trail[i] \in T
      BY <1>3, ElementOfSeq DEF TypeOK, Positions
    <3>2. /\ 1 \in Int /\ assigned \in Int
          /\ (IF 1 <= assigned THEN assigned - 1 + 1 ELSE 0) = assigned
          /\ assigned - 1 + 1 = assigned
          /\ \A i \in 1 .. assigned : 1 + i - 1 = i
      BY <1>2
    <3> HIDE DEF assigned, T
    <3> QED BY <3>1, <3>2, SubSeqProperties
  <2>4. trail' = low \o kept
    BY <1>1
  <2> HIDE DEF low, kept, T, assigned
  <2>5. \A i \in 1 .. assigned : i \in 1 .. Len(low) + Len(kept) /\ i <= Len(low)
    <3>1. Len(kept) \in Nat
      BY <2>2, LenProperties
    <3> QED BY <1>2, <2>3, <3>1
  <2> QED BY <2>2, <2>3, <2>4, <2>5, ConcatProperties
<1>7. \A i \in 1 .. assigned : val'[trail[i]] = val[trail[i]]
  <2>1. ASSUME NEW i \in 1 .. assigned
        PROVE  Stays(trail[i]) /\ trail[i] \in Observed
    <3>1. trail[i] \in Observed
      BY <1>3, ElementOfSeq DEF TypeOK, Positions
    <3>2. lvl[trail[i]] < target + 1
      BY <1>2, <1>3, <2>1 DEF TrailFits
    <3>3. lvl[trail[i]] \in Nat
      BY <3>1, ConstantsAssumption DEF TypeOK
    <3> QED BY <1>2, <3>1, <3>2, <3>3
  <2> HIDE DEF Stays, assigned, above, kept
  <2> QED BY <1>1, <2>1
<1> HIDE DEF above, kept, Stays
<1> QED BY <1>1, <1>2, <1>3, <1>4, <1>5, <1>6, <1>7

\* A new literal, a literal explained, and a step that changes nothing but the phase.
Implication == \E e \in Observed, v \in Polarity, lv \in 0 .. level :
                 /\ val[e] = Unknown /\ pc \in {"bcp", "quiet", "jumped"}
                 /\ NewLiteral(e, v, lv)
                 /\ pc' \in {"bcp", "handover"} /\ UNCHANGED <<control, notified>>
Explanation == \E e \in Observed :
                 /\ val[e] \in Polarity
                 /\ assignments[e[1]][e[2]][e[3]] \in {Unknown, val[e]}
                 /\ UNCHANGED <<trail, val, control, notified, current_trail>>
                 /\ Len(current_trail) >= 1
                 /\ pc # "undo" /\ pc' = "analyze"
                 /\ \/ notify_assignment(e, val[e], TRUE)
                    \/ UNCHANGED <<assignments, matrix, bitdomains, fixedCycleSet>>
PhaseChange ==
  /\ UNCHANGED <<trail, val, lvl, control, notified>>
  /\ UNCHANGED observerVars
  /\ pc' # "undo" => pc # "undo"
  /\ pc' \in {"notify", "quiet"} => (~Conflict /\ Propagated) \/ pc \in {"notify", "quiet"}

LEMMA Explained ==
  ASSUME IInv, NEW e \in Observed, NEW lv \in 0 .. level, Explain(e, lv)
  PROVE  Explanation
<1> USE DEF IInv, TrailInv
<1>1. /\ UNCHANGED <<trail, val, control, notified>>
      /\ e \in inexact /\ pc # "undo" /\ pc' = "analyze"
  BY DEF Explain
<1>2. val[e] \in Polarity
  BY <1>1, TruthParts DEF FixedFits, TypeOK
<1>3. Len(current_trail) >= 1
  BY <1>1, Sizes DEF LevelsFit
<1>4. assignments[e[1]][e[2]][e[3]] \in {Unknown, val[e]}
  BY DEF ObserverAgrees
<1>5. CASE lv = 0
  <2>1. notify_assignment(e, val[e], TRUE)
    BY <1>5 DEF Explain, mark_fixed
  <2>2. current_trail' = current_trail
    BY <2>1 DEF notify_assignment
  <2> QED BY <1>1, <1>2, <1>3, <1>4, <2>1, <2>2 DEF Explanation
<1>6. CASE lv # 0
  <2>1. UNCHANGED <<assignments, matrix, bitdomains, fixedCycleSet, current_trail>>
    BY <1>6 DEF Explain, observerVars
  <2> QED BY <1>1, <1>2, <1>3, <1>4, <2>1 DEF Explanation
<1> QED BY <1>5, <1>6

LEMMA StepKinds ==
  ASSUME IInv, [Next]_vars
  PROVE  \/ Implication \/ Explanation \/ PhaseChange \/ NotifyAssignment
         \/ (OpenLevel /\ Decision) \/ Undo \/ PopLevel \/ Unassign
<1>1. ASSUME NEW e \in Observed, NEW v \in Polarity, NEW lv \in 0 .. level, Imply(e, v, lv)
      PROVE  Implication
  <2>1. /\ val[e] = Unknown /\ Assign(e, v, lv, Observed)
        /\ pc \in {"bcp", "quiet", "jumped"} /\ pc' \in {"bcp", "handover"}
        /\ UNCHANGED <<control, notified>>
    BY <1>1 DEF Imply
  <2> QED BY <2>1, AssignIsNew DEF Implication
<1>2. ASSUME NEW g \in Groups, NEW e \in g, NEW lv \in 0 .. level, Propagate(g, e, lv)
      PROVE  Implication
  <2>1. e \in Observed /\ val[e] = Unknown
    BY <1>2, EntryParts DEF Propagate, OpenIn
  <2>2. PICK v \in Polarity, reason \in {TrueIn(g), g \ {e}} : Assign(e, v, lv, reason)
    BY <1>2 DEF Propagate, Polarity
  <2>3. pc = "bcp" /\ pc' = "bcp" /\ UNCHANGED <<control, notified>>
    BY <1>2 DEF Propagate
  <2>4. NewLiteral(e, v, lv)
    BY <2>1, <2>2, AssignIsNew
  <2> QED BY <2>1, <2>3, <2>4 DEF Implication
<1>3. ASSUME NEW e \in Observed, NEW v \in Polarity, NEW lv \in 0 .. level, Drive(e, v, lv)
      PROVE  Implication
  <2>1. /\ val[e] = Unknown /\ Assign(e, v, lv, Observed)
        /\ pc \in {"bcp", "quiet", "jumped"} /\ pc' \in {"bcp", "handover"}
        /\ UNCHANGED <<control, notified>>
    BY <1>3 DEF Drive
  <2> QED BY <2>1, AssignIsNew DEF Implication
<1>4. ASSUME NEW e \in Observed, NEW v \in Polarity, PropagateExternal(e, v)
      PROVE  Implication
  <2>1. NewLiteral(e, v, level) /\ val[e] = Unknown /\ level \in 0 .. level
    BY <1>4, ExternalIsNew, Sizes DEF IInv, TrailInv
  <2>2. /\ pc \in {"bcp", "quiet", "jumped"} /\ pc' \in {"bcp", "handover"}
        /\ UNCHANGED <<control, notified>>
    BY <1>4 DEF PropagateExternal
  <2> QED BY <2>1, <2>2 DEF Implication
<1>5. ASSUME NEW e \in Observed, NEW lv \in 0 .. level, Explain(e, lv)
      PROVE  Explanation
  BY <1>5, Explained
<1>6. CASE Resume
  BY <1>6 DEF Resume, PhaseChange
<1>7. CASE ExternalPropagate
  BY <1>7 DEF ExternalPropagate, PhaseChange
<1>8. CASE NotifyDone
  BY <1>8 DEF NotifyDone, PhaseChange, Notifying
<1>9. CASE \E new_level \in 0 .. level : Backtrack(new_level)
  BY <1>9 DEF Backtrack, PhaseChange
<1>10. CASE UNCHANGED vars
  BY <1>10 DEF vars, PhaseChange, observerVars
<1>11. ASSUME NEW e \in Observed, Decide(e)
       PROVE  OpenLevel /\ Decision
  BY <1>11 DEF Decide, ask_decision, Decision, Polarity
<1>12. ASSUME NEW e \in Observed, NEW v \in Polarity, DecideInternal(e, v)
       PROVE  OpenLevel /\ Decision
  BY <1>12 DEF DecideInternal, Decision
<1>13. CASE DecideUnobserved
  BY <1>13 DEF DecideUnobserved, Decision
<1> QED BY <1>1, <1>2, <1>3, <1>4, <1>5, <1>6, <1>7, <1>8, <1>9, <1>10, <1>11, <1>12,
           <1>13 DEF Next
-----------------------------------------------------------------------------
(* The buckets are in order *)

\* C is B from position d on, and u is t up to position n.
LEMMA OrderKept ==
  ASSUME NEW B, NEW C, NEW t, NEW u, NEW n0 \in Nat, NEW n \in Nat, n <= n0,
         NEW d \in Nat, Len(B) \in Nat, Len(C) = Len(B) - d,
         InOrder(B, t, n0),
         \A i \in 1 .. n : u[i] = t[i],
         \A p \in 1 .. Len(B) - d : C[p] = B[p + d]
  PROVE  InOrder(C, u, n)
<1> SUFFICES ASSUME NEW p \in 1 .. Len(B) - d, NEW q \in 1 .. Len(B) - d,
                    NEW i \in 1 .. n, NEW j \in 1 .. n,
                    p < q, u[i] = C[p], u[j] = C[q]
             PROVE  i < j
  BY DEF InOrder
<1>1. /\ p + d \in 1 .. Len(B) /\ q + d \in 1 .. Len(B) /\ p + d < q + d
      /\ i \in 1 .. n0 /\ j \in 1 .. n0
  OBVIOUS
<1>2. t[i] = B[p + d] /\ t[j] = B[q + d]
  OBVIOUS
<1> QED BY <1>1, <1>2 DEF InOrder

\* The literal at position n of the trail is appended to a bucket of earlier ones.
LEMMA OrderAppended ==
  ASSUME NEW B, NEW C, NEW t, NEW n0 \in Nat, Len(B) \in Nat, InOrder(B, t, n0),
         NEW n, n = n0 + 1, \A i \in 1 .. n0 : t[i] # t[n],
         \A p \in 1 .. Len(B) : B[p] # t[n],
         \/ C = B
         \/ /\ Len(C) = Len(B) + 1 /\ C[Len(B) + 1] = t[n]
            /\ \A p \in 1 .. Len(B) : C[p] = B[p]
  PROVE  InOrder(C, t, n)
<1> SUFFICES ASSUME NEW p \in 1 .. Len(C), NEW q \in 1 .. Len(C),
                    NEW i \in 1 .. n, NEW j \in 1 .. n,
                    p < q, t[i] = C[p], t[j] = C[q]
             PROVE  i < j
  BY DEF InOrder
<1>0. \A k \in 1 .. n : k = n \/ (k \in 1 .. n0 /\ k < n)
  OBVIOUS
<1>1. p \in 1 .. Len(B) /\ C[p] = B[p]
  OBVIOUS
<1>2. i \in 1 .. n0 /\ i < n
  BY <1>0, <1>1
<1>3. CASE q \in 1 .. Len(B)
  <2>1. C[q] = B[q]
    BY <1>3
  <2>2. j \in 1 .. n0
    BY <1>0, <1>3, <2>1
  <2> QED BY <1>1, <1>2, <1>3, <2>1, <2>2 DEF InOrder
<1>4. CASE q \notin 1 .. Len(B)
  <2>1. q = Len(B) + 1 /\ C[q] = t[n]
    BY <1>4
  <2>2. j = n
    BY <1>0, <2>1
  <2> QED BY <1>2, <2>2
<1> QED BY <1>3, <1>4

LEMMA OrderedStep ==
  ASSUME IInv, BucketsOrdered, [Next]_vars
  PROVE  BucketsOrdered'
<1> USE DEF IInv, TrailInv
<1>0. /\ notified \in Nat /\ notified <= Len(trail) /\ Len(trail) \in Nat
      /\ Len(current_trail) \in Nat
      /\ \A l \in 1 .. Len(current_trail) : Len(current_trail[l]) \in Nat
      /\ \A i \in 1 .. notified : i \in Positions
  <2>1. current_trail \in Seq(Seq(Entry))
    BY DEF TypeOK
  <2> QED BY <2>1, Sizes, ElementOfSeq, LenProperties DEF Positions
\* a bucket that stays what it was
<1>1. ASSUME NEW l \in 1 .. Len(current_trail), NEW n \in Nat, n <= notified,
             \A i \in 1 .. n : trail'[i] = trail[i],
             current_trail'[l] = current_trail[l]
      PROVE  InOrder(current_trail'[l], trail', n)
  <2>1. \A p, q \in 1 .. Len(current_trail[l]) : \A i, j \in 1 .. notified :
          p < q /\ trail[i] = current_trail[l][p] /\ trail[j] = current_trail[l][q] => i < j
    BY DEF BucketsOrdered, InOrder
  <2>2. \A i \in 1 .. n : i \in 1 .. notified
    BY <1>0, <1>1
  <2> QED BY <1>1, <2>1, <2>2 DEF InOrder
<1>2. CASE Implication
  <2>1. /\ notified' = notified /\ current_trail' = current_trail
        /\ \A i \in Positions : trail'[i] = trail[i]
    BY <1>2, Assigned DEF Implication
  <2> QED BY <1>0, <1>1, <2>1 DEF BucketsOrdered
<1>3. CASE PhaseChange
  BY <1>3 DEF PhaseChange, observerVars, BucketsOrdered
<1>4. CASE NotifyAssignment
  <2> DEFINE n == notified + 1
  <2>1. PICK e : e = trail[n]
    OBVIOUS
  <2>2. /\ trail' = trail /\ notified' = n
        /\ \A i \in 1 .. notified : trail[i] # e
        /\ e \in Observed /\ val[e] \in Polarity /\ Len(current_trail) >= 1
        /\ lvl[e] = 0 => current_trail' = current_trail
        /\ lvl[e] # 0 => notify_assignment(e, val[e], FALSE)
    BY <1>4, <2>1, Notified
  <2>3. ASSUME NEW l \in 1 .. Len(current_trail)
        PROVE  /\ \A p \in 1 .. Len(current_trail[l]) : current_trail[l][p] # e
               /\ InOrder(current_trail[l], trail, notified)
    BY <2>2 DEF BucketsSound, BucketsOrdered
  <2>4. Len(current_trail') = Len(current_trail)
    BY <1>0, <2>2, NotifyEffect, FALSE \in BOOLEAN, ZenonT(40)
  <2>5. ASSUME NEW l \in 1 .. Len(current_trail)
        PROVE  \/ current_trail'[l] = current_trail[l]
               \/ /\ Len(current_trail'[l]) = Len(current_trail[l]) + 1
                  /\ current_trail'[l][Len(current_trail[l]) + 1] = e
                  /\ \A p \in 1 .. Len(current_trail[l]) :
                       current_trail'[l][p] = current_trail[l][p]
    <3>1. CASE lvl[e] = 0
      BY <2>2, <3>1
    <3>2. CASE lvl[e] # 0
      <4>1. current_trail'[l] = IF l = Len(current_trail)
                                  THEN Append(current_trail[l], e) ELSE current_trail[l]
        BY <2>2, <3>2, NotifyEffect, FALSE \in BOOLEAN, ZenonT(40)
      <4>2. current_trail[l] \in Seq(Entry) /\ e \in Entry
        BY <2>2, EntryParts, ElementOfSeq DEF TypeOK
      <4> QED BY <4>1, <4>2, AppendProperties
    <3> QED BY <3>1, <3>2
  <2>6. ASSUME NEW l \in 1 .. Len(current_trail)
        PROVE  InOrder(current_trail'[l], trail, n)
    <3> DEFINE B == current_trail[l]
               C == current_trail'[l]
    <3>1. /\ Len(B) \in Nat /\ notified \in Nat /\ InOrder(B, trail, notified)
          /\ \A i \in 1 .. notified : trail[i] # trail[n]
          /\ \A p \in 1 .. Len(B) : B[p] # trail[n]
          /\ \/ C = B
             \/ /\ Len(C) = Len(B) + 1 /\ C[Len(B) + 1] = trail[n]
                /\ \A p \in 1 .. Len(B) : C[p] = B[p]
      BY <1>0, <2>1, <2>2, <2>3, <2>5
    <3> HIDE DEF B, C, IInv, TrailInv
    <3>2. InOrder(C, trail, n)
      BY <3>1, OrderAppended
    <3> QED BY <3>2 DEF C
  <2> QED BY <2>2, <2>4, <2>6 DEF BucketsOrdered
<1>5. CASE OpenLevel /\ Decision
  <2>1. /\ notified' = notified /\ notified = Len(trail) /\ level \in Nat
        /\ Len(current_trail) = level + 1 /\ Len(current_trail') = level + 2
        /\ \A l \in 1 .. level + 1 : current_trail'[l] = current_trail[l]
        /\ Len(current_trail'[level + 2]) = 0
        /\ \A i \in Positions : trail'[i] = trail[i]
    BY <1>5, Opened
  <2>2. \A l \in 1 .. level + 1 : InOrder(current_trail'[l], trail', notified)
    BY <1>0, <1>1, <2>1
  <2>3. InOrder(current_trail'[level + 2], trail', notified)
    BY <2>1 DEF InOrder
  <2>4. \A l \in 1 .. level + 2 : l \in 1 .. level + 1 \/ l = level + 2
    BY <2>1
  <2> QED BY <2>1, <2>2, <2>3, <2>4 DEF BucketsOrdered
<1>6. CASE Undo
  <2>1. PICK L : L = Len(current_trail)
    OBVIOUS
  <2>2. PICK e : e = Head(current_trail[L])
    OBVIOUS
  <2> DEFINE B == current_trail[L]
             C == current_trail'[L]
  <2>3. /\ UNCHANGED <<trail, notified>>
        /\ L \in Nat /\ Len(current_trail') = L /\ L \in 1 .. L
        /\ \A l \in 1 .. L : l # L => current_trail'[l] = current_trail[l]
        /\ Len(B) \in Nat
        /\ Len(C) = Len(B) - 1
        /\ \A p \in 1 .. Len(B) - 1 : C[p] = B[p + 1]
    BY <1>6, <2>1, <2>2, Undone
  <2>4. \A l \in 1 .. L : l # L => InOrder(current_trail'[l], trail, notified)
    <3> HIDE DEF B, C, IInv, TrailInv
    <3>1. \A l \in 1 .. L : InOrder(current_trail[l], trail, notified)
      BY <2>1, <1>0 DEF BucketsOrdered
    <3> QED BY <2>3, <3>1
  <2>5. InOrder(B, trail, notified) /\ \A i \in 1 .. notified : trail[i] = trail[i]
    BY <2>1, <2>3 DEF BucketsOrdered
  <2>6. InOrder(C, trail, notified)
    <3>1. /\ notified \in Nat /\ notified <= notified /\ 1 \in Nat /\ Len(B) \in Nat
          /\ Len(C) = Len(B) - 1 /\ \A p \in 1 .. Len(B) - 1 : C[p] = B[p + 1]
      BY <1>0, <2>3
    <3> HIDE DEF B, C, IInv, TrailInv
    <3> QED BY <2>5, <3>1, OrderKept
  <2> QED BY <2>3, <2>4, <2>6 DEF BucketsOrdered
<1>7. CASE PopLevel
  <2>1. /\ UNCHANGED <<trail, notified>>
        /\ \A l \in 1 .. Len(current_trail') :
              l \in 1 .. Len(current_trail) /\ current_trail'[l] = current_trail[l]
    BY <1>7, Popped
  <2> QED BY <2>1 DEF BucketsOrdered
<1>8. CASE Unassign
  <2>1. /\ current_trail' = current_trail /\ notified' <= notified /\ notified' \in Nat
        /\ \A i \in 1 .. notified' : trail'[i] = trail[i]
    BY <1>8, Unassigned
  <2>2. \A l \in 1 .. Len(current_trail) : InOrder(current_trail'[l], trail', notified')
    <3>1. PICK n : n = notified'
      OBVIOUS
    <3> QED BY <1>1, <2>1, <3>1
  <2> QED BY <2>1, <2>2 DEF BucketsOrdered
<1>9. CASE Explanation
  BY <1>9 DEF Explanation, BucketsOrdered
<1> QED BY <1>2, <1>3, <1>4, <1>5, <1>6, <1>7, <1>8, <1>9, StepKinds
-----------------------------------------------------------------------------
(* Buckets and trail *)

\* A bucket lists its control segment: every literal of a decision level, and no
\* root literal but those a conflict explained as units.
LEMMA BucketIsListed ==
  ASSUME IInv, BucketsOrdered, pc # "undo", NEW l \in 1 .. Len(current_trail)
  PROVE  LET P == {i \in Segment(l) : ListedOn(l, trail[i])} IN
         /\ current_trail[l] = Listed(P)
         /\ \A i \in Segment(l) : lvl[trail[i]] > 0 => i \in P
         /\ \A i \in P : lvl[trail[i]] > 0 \/ (PropLits /\ trail[i] \in units)
<1> USE DEF IInv, TrailInv
<1> DEFINE B == current_trail[l]
           P == {i \in Segment(l) : \E p \in 1 .. Len(B) : B[p] = trail[i]}
<1>0. /\ level \in Nat /\ level = Len(control) /\ notified \in Nat /\ notified <= Len(trail)
      /\ Len(trail) \in Nat
      /\ \A m \in 1 .. level : control[m] \in Nat /\ control[m] <= notified
      /\ Len(current_trail) = level + 1
      /\ B \in Seq(Entry) /\ Len(B) \in Nat
  <2>1. current_trail \in Seq(Seq(Entry))
    BY DEF TypeOK
  <2> QED BY <2>1, Sizes, ElementOfSeq, LenProperties DEF LevelsFit
<1>1. \A m \in 1 .. level + 1, i \in 1 .. notified :
        i \in Segment(m) <=> (Start(m) < i /\ (m <= level => i <= control[m]))
  BY <1>0 DEF Segment, Start
<1>2. P \in SUBSET Nat /\ \A i \in P : i \in 1 .. notified
  BY <1>0 DEF Segment
<1>3. \A p \in 1 .. Len(B) : \E i \in P : trail[i] = B[p] /\ Listable(trail[i])
  <2>1. ASSUME NEW p \in 1 .. Len(B)
        PROVE  \E i \in P : trail[i] = B[p] /\ Listable(trail[i])
    <3>1. PICK i \in 1 .. notified :
            /\ trail[i] = B[p] /\ Listable(trail[i])
            /\ Start(l) < i
            /\ l <= level => i <= control[l]
      BY DEF BucketsSound
    <3>2. i \in Segment(l)
      BY <1>0, <1>1, <3>1
    <3>3. i \in P
      BY <3>1, <3>2
    <3> QED BY <3>1, <3>3
  <2> QED BY <2>1
\* two segments share no position
<1>4. ASSUME NEW m \in 1 .. level + 1, NEW k \in 1 .. level + 1, m < k, NEW i \in 1 .. notified
      PROVE  ~(i \in Segment(m) /\ i \in Segment(k))
  <2>1. m \in 1 .. level /\ k - 1 \in 1 .. level /\ m <= k - 1 /\ k # 1
    BY <1>0, <1>4
  <2>2. control[m] <= control[k - 1] /\ Start(k) = control[k - 1]
    BY <2>1 DEF LevelsFit, Start
  <2>3. control[m] \in Nat /\ control[k - 1] \in Nat
    BY <1>0, <2>1
  <2> QED BY <1>1, <1>4, <2>1, <2>2, <2>3
<1>5. \A i \in Segment(l) : lvl[trail[i]] > 0 => i \in P
  <2>1. ASSUME NEW i \in Segment(l), lvl[trail[i]] > 0
        PROVE  \E p \in 1 .. Len(B) : B[p] = trail[i]
    <3>1. i \in 1 .. notified /\ lvl[trail[i]] > 0 /\ i \in Segment(l)
      BY <1>0, <2>1 DEF Segment
    <3>2. PICK m \in 1 .. level + 1 : \E p \in 1 .. Len(current_trail[m]) :
                                        current_trail[m][p] = trail[i]
      BY <1>0, <3>1 DEF BucketsComplete, InBucket
    <3>3. PICK p \in 1 .. Len(current_trail[m]) : current_trail[m][p] = trail[i]
      BY <3>2
    <3>4. PICK j \in 1 .. notified : /\ trail[j] = current_trail[m][p]
                                     /\ Start(m) < j
                                     /\ m <= level => j <= control[m]
      BY <1>0, <3>3 DEF BucketsSound
    <3>5. i = j
      <4>1. i \in Positions /\ j \in Positions
        BY <1>0, <3>1 DEF Positions
      <4> QED BY <3>3, <3>4, <4>1 DEF TrailFits
    <3>6. i \in Segment(m)
      BY <1>1, <3>1, <3>4, <3>5
    <3>7. m = l
      <4>1. m < l \/ l < m \/ m = l
        BY <1>0
      <4> QED BY <1>0, <1>4, <3>1, <3>6, <4>1
    <3> QED BY <3>3, <3>7
  <2> QED BY <2>1
<1>6. \A p \in 1 .. Len(B), q \in 1 .. Len(B), i \in P, j \in P :
        p < q /\ trail[i] = B[p] /\ trail[j] = B[q] => i < j
  <2>1. InOrder(B, trail, notified)
    BY DEF BucketsOrdered
  <2> HIDE DEF B, P
  <2> QED BY <1>2, <2>1 DEF InOrder
<1> DEFINE m == Len(B)
           f == [p \in 1 .. m |-> CHOOSE i \in P : trail[i] = B[p]]
<1>7. f \in [1 .. m -> P] /\ \A p \in 1 .. m : trail[f[p]] = B[p]
  <2> HIDE DEF P, B
  <2> QED BY <1>3
<1>8. B \in [1 .. m -> Entry]
  BY <1>0, LenProperties
<1> HIDE DEF f, m, P, B
<1>9. \A p, q \in 1 .. m : p < q => f[p] < f[q]
  BY <1>6, <1>7 DEF m
<1>10. \A i \in P : \E p \in 1 .. m : f[p] = i
  <2>1. ASSUME NEW i \in P, NEW p \in 1 .. m, trail[i] = B[p]
        PROVE  f[p] = i
    <3>1. f[p] \in P /\ trail[f[p]] = trail[i]
      BY <1>7, <2>1
    <3>2. i \in Positions /\ f[p] \in Positions
      <4>1. i \in 1 .. notified /\ f[p] \in 1 .. notified
        BY <1>2, <3>1
      <4> QED BY <1>0, <4>1 DEF Positions
    <3> QED BY <3>1, <3>2 DEF TrailFits
  <2>2. \A i \in P : \E p \in 1 .. m : trail[i] = B[p]
    BY DEF P, m
  <2> QED BY <2>1, <2>2
<1>11. Cardinality(P) = m /\ \A p \in 1 .. m : Nth(P, p) = f[p]
  <2>1. m \in Nat
    BY <1>0 DEF m
  <2> QED BY <1>2, <1>7, <1>9, <1>10, <2>1, IncreasingIsNth
<1>12. B = [n \in 1 .. Cardinality(P) |-> trail[Nth(P, n)]]
  BY <1>7, <1>8, <1>11
<1>13. \A i \in P : lvl[trail[i]] > 0 \/ (PropLits /\ trail[i] \in units)
  <2>1. ASSUME NEW i \in P
        PROVE  lvl[trail[i]] > 0 \/ (PropLits /\ trail[i] \in units)
    <3>1. PICK p \in 1 .. Len(B) : B[p] = trail[i]
      BY DEF P
    <3>2. PICK j \in P : trail[j] = B[p] /\ Listable(trail[j])
      BY <1>3
    <3> QED BY <3>1, <3>2 DEF Listable
  <2> QED BY <2>1
<1>14. P = {i \in Segment(l) : ListedOn(l, trail[i])}
  BY DEF P, B, ListedOn
<1> QED BY <1>5, <1>12, <1>13, <1>14 DEF B, Listed
-----------------------------------------------------------------------------
(* Groups on a settled trail *)

LEMMA GroupFinite ==
  ASSUME NEW g \in Groups
  PROVE  g # {} /\ g \subseteq Observed /\ IsFiniteSet(g)
<1>0. IsFiniteSet(Val)
  <2>1. 0 \in Int /\ N - 1 \in Int
    BY ConstantsAssumption
  <2> QED BY <2>1, FS_Interval DEF Val
<1>1. g # {} /\ g \subseteq Observed
  BY EntryParts DEF Groups
<1>2. ASSUME NEW r \in Rows, NEW c \in Val
      PROVE  IsFiniteSet(Cell(r, c))
  <2> DEFINE h == [e \in Cell(r, c) |-> e[3]]
  <2>1. h \in [Cell(r, c) -> Val]
    BY EntryParts DEF Cell
  <2>2. \A e, x \in Cell(r, c) : h[e] = h[x] => e = x
    <3>1. \A e \in Cell(r, c) : e = <<r, c, e[3]>> /\ e[3] \in Val
      BY EntryParts DEF Cell
    <3> QED BY <3>1
  <2> HIDE DEF h
  <2>3. h \in Injection(Cell(r, c), Val)
    BY <2>1, <2>2 DEF Injection, IsInjective
  <2> QED BY <1>0, <2>3, FS_Injection
<1>3. ASSUME NEW r \in Rows, NEW k \in Val
      PROVE  IsFiniteSet(RowValue(r, k))
  <2> DEFINE h == [e \in RowValue(r, k) |-> e[2]]
  <2>1. h \in [RowValue(r, k) -> Val]
    BY EntryParts DEF RowValue
  <2>2. \A e, x \in RowValue(r, k) : h[e] = h[x] => e = x
    <3>1. \A e \in RowValue(r, k) : e = <<r, e[2], k>> /\ e[2] \in Val
      BY EntryParts DEF RowValue
    <3> QED BY <3>1
  <2> HIDE DEF h
  <2>3. h \in Injection(RowValue(r, k), Val)
    BY <2>1, <2>2 DEF Injection, IsInjective
  <2> QED BY <1>0, <2>3, FS_Injection
<1>4. \/ \E r \in Rows, c \in Val : g = Cell(r, c)
      \/ \E r \in Rows, k \in Val : g = RowValue(r, k)
  <2>1. \A rk \in Rows \X Val : rk[1] \in Rows /\ rk[2] \in Val
    OBVIOUS
  <2> QED BY <2>1 DEF Groups
<1> QED BY <1>1, <1>2, <1>3, <1>4

\* Two observed literals of a cell, or of a value in a row, are in a group.
LEMMA CommonGroup ==
  ASSUME NEW e \in Observed
  PROVE  /\ \E g \in Groups : e \in g /\ \A x \in Observed : x \in g <=> x[1] = e[1] /\ x[2] = e[2]
         /\ (DiagPart => e[3] # Diag[e[1]]) =>
              \E g \in Groups : e \in g /\ \A x \in Observed : x \in g <=> x[1] = e[1] /\ x[3] = e[3]
<1>1. e[1] \in Rows /\ e[2] \in Val /\ e[3] \in Val
  BY EntryParts
<1>2. Cell(e[1], e[2]) \in Groups
  <2>1. e \in Cell(e[1], e[2])
    BY DEF Cell
  <2> QED BY <1>1, <2>1 DEF Groups
<1>3. (DiagPart => e[3] # Diag[e[1]]) => RowValue(e[1], e[3]) \in Groups
  <2>1. e \in RowValue(e[1], e[3])
    BY DEF RowValue
  <2>2. SUFFICES ASSUME DiagPart => e[3] # Diag[e[1]]
                 PROVE  RowValue(e[1], e[3]) \in Groups
    OBVIOUS
  <2> DEFINE p == <<e[1], e[3]>>
  <2>3. p \in {q \in Rows \X Val : DiagPart => q[2] # Diag[q[1]]}
    BY <1>1, <2>2
  <2>4. p[1] = e[1] /\ p[2] = e[3]
    OBVIOUS
  <2> HIDE DEF p
  <2> QED BY <2>1, <2>3, <2>4 DEF Groups
<1>4. \A x \in Observed : x \in Cell(e[1], e[2]) <=> x[1] = e[1] /\ x[2] = e[2]
  BY DEF Cell
<1>5. \A x \in Observed : x \in RowValue(e[1], e[3]) <=> x[1] = e[1] /\ x[3] = e[3]
  BY DEF RowValue
<1> QED BY <1>2, <1>3, <1>4, <1>5

\* A true literal of a group on a settled trail makes the others false; an open
\* one is not alone, and none is true.
LEMMA SettledGroup ==
  ASSUME TypeOK, ~Conflict, Propagated, NEW g \in Groups, NEW e \in g
  PROVE  /\ val[e] = True => \A x \in g \ {e} : val[x] = False
         /\ val[e] = Unknown => /\ \E x \in g \ {e} : val[x] = Unknown
                                /\ \A x \in g : val[x] # True
         /\ \E x \in g : val[x] # False
<1>1. g \subseteq Observed /\ IsFiniteSet(g)
  BY GroupFinite
<1>2. \A x \in g : val[x] \in {True, False, Unknown}
  BY <1>1 DEF TypeOK, Truth, Polarity
<1>3. IsFiniteSet(TrueIn(g)) /\ IsFiniteSet(OpenIn(g))
  <2>1. TrueIn(g) \in SUBSET g /\ OpenIn(g) \in SUBSET g
    BY DEF TrueIn, OpenIn
  <2> QED BY <1>1, <2>1, FS_Subset
<1>4. ASSUME val[e] = True, NEW x \in g \ {e}
      PROVE  val[x] = False
  <2>1. e \in TrueIn(g)
    BY <1>4 DEF TrueIn
  <2>2. x \notin TrueIn(g)
    <3>1. ASSUME x \in TrueIn(g) PROVE FALSE
      <4>1. Cardinality(TrueIn(g)) > 1
        BY <1>3, <1>4, <2>1, <3>1, TwoMembers
      <4> QED BY <4>1 DEF Conflict
    <3> QED BY <3>1
  <2>3. x \notin OpenIn(g)
    BY <2>1 DEF Propagated
  <2> QED BY <1>2, <2>2, <2>3 DEF TrueIn, OpenIn
<1>5. ASSUME val[e] = Unknown
      PROVE  /\ \E x \in g \ {e} : val[x] = Unknown
             /\ \A x \in g : val[x] # True
  <2>1. e \in OpenIn(g)
    BY <1>5 DEF OpenIn
  <2>2. TrueIn(g) = {}
    BY <2>1 DEF Propagated
  <2>3. Cardinality(OpenIn(g)) # 1
    BY <2>2 DEF Propagated
  <2>4. OpenIn(g) # {e}
    BY <2>3, FS_Singleton
  <2> QED BY <2>1, <2>2, <2>4 DEF OpenIn, TrueIn
<1>6. \E x \in g : val[x] # False
  <2>1. TrueIn(g) # {} \/ OpenIn(g) # {}
    BY DEF Conflict
  <2> QED BY <2>1, TruthParts DEF TrueIn, OpenIn
<1> QED BY <1>4, <1>5, <1>6

LEMMA SettledStep ==
  ASSUME IInv, Settled, [Next]_vars
  PROVE  Settled'
<1>1. CASE Implication
  BY <1>1 DEF Implication, Settled
<1>2. ASSUME UNCHANGED val, pc' \in {"notify", "quiet"}, ~Conflict, Propagated
      PROVE  ~Conflict' /\ Propagated'
  <2>1. \A g : TrueIn(g)' = TrueIn(g) /\ OpenIn(g)' = OpenIn(g)
    BY <1>2 DEF TrueIn, OpenIn
  <2> QED BY <1>2, <2>1 DEF Conflict, Propagated
<1>3. CASE PhaseChange
  BY <1>2, <1>3 DEF PhaseChange, Settled
<1>4. CASE NotifyAssignment
  BY <1>2, <1>4 DEF NotifyAssignment, Settled
<1>5. CASE OpenLevel /\ Decision
  BY <1>5 DEF OpenLevel, Settled
<1>6. CASE Undo
  BY <1>6, Undone DEF Settled
<1>7. CASE PopLevel
  BY <1>7, Popped DEF Settled
<1>8. CASE Unassign
  BY <1>8, Unassigned DEF Settled
<1>9. CASE Explanation
  BY <1>9 DEF Explanation, Settled
<1> QED BY <1>1, <1>3, <1>4, <1>5, <1>6, <1>7, <1>8, <1>9, StepKinds

\* A level stays settled while its part of the trail stays assigned.
LEMMA ClosedKept ==
  ASSUME IInv, ClosedSettled, NEW l \in 1 .. level, control'[l] = control[l],
         NEW n \in Nat, control[l] <= n, n <= Len(trail),
         \A i \in 1 .. n : trail'[i] = trail[i] /\ val'[trail[i]] = val[trail[i]],
         NEW e \in Observed, Before(e, l)', val'[e] = True,
         NEW g \in Groups, e \in g, NEW x \in g \ {e}
  PROVE  val'[x] = False /\ Before(x, l)'
<1>0. control[l] \in Nat /\ \A i \in 1 .. control[l] : i \in 1 .. n
  BY Sizes DEF IInv, TrailInv
<1>1. \A y : Before(y, l)' <=> Before(y, l)
  BY <1>0 DEF Before
<1>2. \A y : Before(y, l) => val'[y] = val[y]
  BY <1>0 DEF Before
<1> QED BY <1>1, <1>2 DEF ClosedSettled

LEMMA ClosedStep ==
  ASSUME IInv, Settled, ClosedSettled, [Next]_vars
  PROVE  ClosedSettled'
<1> USE DEF IInv, TrailInv
<1>0. /\ Len(trail) \in Nat /\ level \in Nat /\ notified \in Nat /\ notified <= Len(trail)
      /\ \A l \in 1 .. level : control[l] \in Nat /\ control[l] <= notified
      /\ \A i \in Positions : trail[i] \in Observed /\ val[trail[i]] # Unknown
  BY Sizes, ElementOfSeq DEF TypeOK, Positions, TrailFits
<1> DEFINE Good(l) == \A e \in Observed : Before(e, l)' /\ val'[e] = True =>
                        \A g \in Groups : e \in g =>
                          \A x \in g \ {e} : val'[x] = False /\ Before(x, l)'
\* steps that keep levels, and everything below position n
<1>1. ASSUME NEW l \in 1 .. level, control'[l] = control[l],
             NEW n \in Nat, control[l] <= n, n <= Len(trail),
             \A i \in 1 .. n : trail'[i] = trail[i] /\ val'[trail[i]] = val[trail[i]]
      PROVE  Good(l)
  <2> HIDE DEF IInv, TrailInv
  <2> QED BY <1>1, ClosedKept
<1>2. ASSUME UNCHANGED control,
             \A i \in Positions : trail'[i] = trail[i] /\ val'[trail[i]] = val[trail[i]]
      PROVE  ClosedSettled'
  <2>1. \A l \in 1 .. level : control[l] <= Len(trail) /\ Len(trail) <= Len(trail)
    BY <1>0
  <2>2. PICK n : n = Len(trail)
    OBVIOUS
  <2>3. \A l \in 1 .. level : Good(l)
    BY <1>0, <1>1, <1>2, <2>1, <2>2 DEF Positions
  <2>4. level' = level
    BY <1>2 DEF level
  <2> QED BY <2>3, <2>4 DEF ClosedSettled
<1>3. CASE Implication
  BY <1>0, <1>2, <1>3, Assigned DEF Implication
<1>4. CASE PhaseChange
  BY <1>2, <1>4 DEF PhaseChange
<1>5. CASE NotifyAssignment
  BY <1>2, <1>5 DEF NotifyAssignment
<1>6. CASE OpenLevel /\ Decision
  <2>1. /\ pc = "quiet"
        /\ level' = level + 1
        /\ \A l \in 1 .. level : control'[l] = control[l]
        /\ control'[level + 1] = Len(trail)
        /\ \A i \in Positions : trail'[i] = trail[i]
        /\ \A x \in Observed : val[x] # Unknown => val'[x] = val[x]
    BY <1>6, Opened
  <2>2. \A l \in 1 .. level : Good(l)
    <3>1. PICK n : n = Len(trail)
      OBVIOUS
    <3>2. \A l \in 1 .. level : control[l] <= n /\ n <= Len(trail) /\ n \in Nat
      BY <1>0, <3>1
    <3> QED BY <1>0, <1>1, <2>1, <3>1, <3>2 DEF Positions
  <2>3. ASSUME NEW m, m = level + 1
        PROVE  Good(m)
    <3> SUFFICES ASSUME NEW e \in Observed, Before(e, m)', val'[e] = True,
                        NEW g \in Groups, e \in g, NEW x \in g \ {e}
                 PROVE  val'[x] = False /\ Before(x, m)'
      OBVIOUS
    <3>1. \A y : Before(y, m)' <=> \E j \in Positions : trail[j] = y
      BY <2>1, <2>3 DEF Before, Positions
    <3>2. PICK j \in Positions : trail[j] = e
      BY <3>1
    <3>3. val[e] = True
      BY <1>0, <2>1, <3>2
    <3>4. ~Conflict /\ Propagated
      BY <2>1 DEF Settled
    <3>5. val[x] = False /\ x \in Observed
      BY <3>3, <3>4, SettledGroup, EntryParts
    <3>6. \E i \in Positions : trail[i] = x
      BY <3>5, TruthParts DEF TrailFits
    <3> QED BY <2>1, <3>1, <3>5, <3>6, TruthParts
  <2>4. \A l \in 1 .. level + 1 : l \in 1 .. level \/ l = level + 1
    BY <1>0
  <2> QED BY <2>1, <2>2, <2>3, <2>4 DEF ClosedSettled
<1>7. CASE Undo
  <2>1. PICK L : L = Len(current_trail)
    OBVIOUS
  <2>2. PICK e : e = Head(current_trail[L])
    OBVIOUS
  <2> QED BY <1>2, <1>7, <2>1, <2>2, Undone
<1>8. CASE PopLevel
  BY <1>2, <1>8, Popped
<1>9. CASE Unassign
  <2>1. /\ level' = target /\ target \in Nat /\ target + 1 \in 1 .. level
        /\ \A l \in 1 .. target : control'[l] = control[l] /\ control[l] <= control[target + 1]
        /\ \A i \in 1 .. control[target + 1] : trail'[i] = trail[i] /\ val'[trail[i]] = val[trail[i]]
    BY <1>9, Unassigned
  <2>2. PICK n : n = control[target + 1]
    OBVIOUS
  <2>3. n \in Nat /\ n <= Len(trail)
    BY <1>0, <2>1, <2>2
  <2>4. \A l \in 1 .. target : l \in 1 .. level
    BY <1>0, <2>1
  <2>5. \A l \in 1 .. target : Good(l)
    BY <1>1, <2>1, <2>2, <2>3, <2>4
  <2> QED BY <2>1, <2>5 DEF ClosedSettled
<1>10. CASE Explanation
  BY <1>2, <1>10 DEF Explanation
<1> QED BY <1>3, <1>4, <1>5, <1>6, <1>7, <1>8, <1>9, <1>10, StepKinds
-----------------------------------------------------------------------------
(* What the handlers do to the domains of a row *)

AfterNotify(e, v, r, c, k) ==
  LET had == k \in bitdomains[r][c]
      has == k \in bitdomains'[r][c]
  IN  /\ v = True /\ r = e[1] /\ c = e[2] => (has <=> k = e[3])
      /\ v = True /\ r = e[1] /\ c # e[2] => (has => had) /\ (had /\ k # e[3] => has)
      /\ v # True /\ r = e[1] /\ c = e[2] => (has <=> had /\ k # e[3])
      /\ r # e[1] \/ (v # True /\ c # e[2]) => (has <=> had)

LEMMA NotifyDomains ==
  ASSUME TypeOK, NEW e \in Observed, NEW v \in Polarity, NEW fixed \in BOOLEAN,
         notify_assignment(e, v, fixed)
  PROVE  \A r \in Rows, c \in Val, k \in Val : AfterNotify(e, v, r, c, k)
<1>1. e[1] \in Rows /\ e[2] \in Val /\ e[3] \in Val
  BY EntryParts
<1>2. bitdomains \in DomainsType
  BY DEF TypeOK, DomainsType
<1>3. /\ v = True => bitdomains' = [bitdomains EXCEPT ![e[1]] = RowAfterTrue(e)]
      /\ v # True => bitdomains' = [bitdomains EXCEPT ![e[1]][e[2]] =
                                      bitdomains[e[1]][e[2]] \ {e[3]}]
  BY DEF notify_assignment
<1>4. CASE v = True
  <2>1. /\ \A r \in Rows : r # e[1] => bitdomains'[r] = bitdomains[r]
        /\ bitdomains'[e[1]] = RowAfterTrue(e)
    BY <1>1, <1>2, <1>3, <1>4 DEF DomainsType
  <2>2. /\ RowAfterTrue(e)[e[2]] = {e[3]}
        /\ \A c \in Val \ {e[2]} :
             /\ RowAfterTrue(e)[c] \subseteq bitdomains[e[1]][c]
             /\ bitdomains[e[1]][c] \ {e[3]} \subseteq RowAfterTrue(e)[c]
    BY <1>1 DEF RowAfterTrue
  <2> QED BY <1>4, <2>1, <2>2 DEF AfterNotify
<1>5. CASE v # True
  <2> DEFINE d == bitdomains[e[1]][e[2]] \ {e[3]}
  <2>1. d \in SUBSET Val /\ e \in Entry
    BY <1>1, <1>2, EntryParts DEF DomainsType
  <2>2. bitdomains' = [bitdomains EXCEPT ![e[1]][e[2]] = d]
    BY <1>3, <1>5
  <2> HIDE DEF d
  <2>3. \A r \in Rows, c \in Val :
          bitdomains'[r][c] = IF r = e[1] /\ c = e[2] THEN d ELSE bitdomains[r][c]
    BY <1>2, <2>1, <2>2, SetDomain
  <2> QED BY <1>5, <2>3 DEF d, AfterNotify
<1> QED BY <1>4, <1>5

AfterUndo(e, v, r, c, k) ==
  LET had == k \in bitdomains[r][c]
      has == k \in bitdomains'[r][c]
  IN  /\ v = True /\ r = e[1] /\ c = e[2] =>
           (has <=> /\ assignments[r][c][k] # False
                    /\ \A j \in Val \ {c} : matrix[r][j] # k)
      /\ v = True /\ r = e[1] /\ c # e[2] =>
           (has <=> had \/ (k = e[3] /\ matrix[r][c] = NoVal /\ assignments[r][c][k] # False))
      /\ v # True /\ r = e[1] /\ c = e[2] => (has <=> had \/ k = e[3])
      /\ r # e[1] \/ (v # True /\ c # e[2]) => (has <=> had)

LEMMA UndoDomains ==
  ASSUME TypeOK, NEW e \in Observed, e \notin fixedCycleSet, UndoAssignment(e),
         NEW v \in Polarity, assignments[e[1]][e[2]][e[3]] = v
  PROVE  \A r \in Rows, c \in Val, k \in Val : AfterUndo(e, v, r, c, k)
<1>1. e[1] \in Rows /\ e[2] \in Val /\ e[3] \in Val
  BY EntryParts
<1>2. bitdomains \in DomainsType
  BY DEF TypeOK, DomainsType
<1>3. /\ v = True => bitdomains' = [bitdomains EXCEPT ![e[1]] = RowAfterUndoTrue(e)]
      /\ v = False => bitdomains' = [bitdomains EXCEPT ![e[1]][e[2]] =
                                       bitdomains[e[1]][e[2]] \cup {e[3]}]
  BY TruthParts DEF UndoAssignment
<1>4. CASE v = True
  <2>1. /\ \A r \in Rows : r # e[1] => bitdomains'[r] = bitdomains[r]
        /\ bitdomains'[e[1]] = RowAfterUndoTrue(e)
    BY <1>1, <1>2, <1>3, <1>4 DEF DomainsType
  <2>2. \A k \in Val : k \in RowAfterUndoTrue(e)[e[2]] <=>
           /\ assignments[e[1]][e[2]][k] # False
           /\ \A j \in Val \ {e[2]} : matrix[e[1]][j] # k
    BY <1>1 DEF RowAfterUndoTrue
  <2>3. \A c \in Val \ {e[2]} : RowAfterUndoTrue(e)[c] =
           IF matrix[e[1]][c] = NoVal /\ assignments[e[1]][c][e[3]] # False
             THEN bitdomains[e[1]][c] \cup {e[3]} ELSE bitdomains[e[1]][c]
    BY <1>1 DEF RowAfterUndoTrue
  <2> SUFFICES ASSUME NEW r \in Rows, NEW c \in Val, NEW k \in Val
               PROVE  AfterUndo(e, v, r, c, k)
    OBVIOUS
  <2>4. CASE r # e[1]
    BY <1>4, <2>1, <2>4 DEF AfterUndo
  <2>5. CASE r = e[1] /\ c = e[2]
    <3>1. bitdomains'[r][c] = RowAfterUndoTrue(e)[e[2]]
      BY <2>1, <2>5
    <3> QED BY <1>4, <2>2, <2>5, <3>1 DEF AfterUndo
  <2>6. CASE r = e[1] /\ c # e[2]
    <3>1. bitdomains'[r][c] = RowAfterUndoTrue(e)[c]
      BY <2>1, <2>6
    <3> QED BY <1>4, <2>3, <2>6, <3>1 DEF AfterUndo
  <2> QED BY <2>4, <2>5, <2>6
<1>5. CASE v # True
  <2> DEFINE d == bitdomains[e[1]][e[2]] \cup {e[3]}
  <2>1. d \in SUBSET Val /\ e \in Entry
    BY <1>1, <1>2, EntryParts DEF DomainsType
  <2>2. bitdomains' = [bitdomains EXCEPT ![e[1]][e[2]] = d]
    BY <1>3, <1>5 DEF Polarity
  <2> HIDE DEF d
  <2>3. \A r \in Rows, c \in Val :
          bitdomains'[r][c] = IF r = e[1] /\ c = e[2] THEN d ELSE bitdomains[r][c]
    BY <1>2, <2>1, <2>2, SetDomain
  <2> QED BY <1>5, <2>3 DEF d, AfterUndo
<1> QED BY <1>4, <1>5
-----------------------------------------------------------------------------
(* The rows of the observer *)

\* notify_assignment on a literal the observer did not know, or knew already.
LEMMA RowsNotify ==
  ASSUME TypeOK, RowsInv, Len(current_trail) >= 1, NEW e \in Observed, NEW v \in Polarity,
         NEW fixed \in BOOLEAN, notify_assignment(e, v, fixed),
         assignments[e[1]][e[2]][e[3]] \in {Unknown, v}
  PROVE  RowsInv'
<1> USE DEF RowsInv
<1>0. /\ e \in Entry /\ e[1] \in Rows /\ e[2] \in Val /\ e[3] \in Val /\ e = <<e[1], e[2], e[3]>>
      /\ DiagPart => e[1] # e[2]
      /\ DiagPart /\ SmallerEncoding => e[3] # Diag[e[1]]
  BY EntryParts DEF Observed
<1>1. /\ \A r \in Rows, c \in Val, k \in Val :
           assignments'[r][c][k] = IF <<r, c, k>> = e THEN v ELSE assignments[r][c][k]
      /\ v = True => \A r \in Rows, c \in Val :
           matrix'[r][c] = IF r = e[1] /\ c = e[2] THEN e[3] ELSE matrix[r][c]
      /\ v # True => matrix' = matrix
      /\ fixedCycleSet' = IF fixed THEN fixedCycleSet \cup {e} ELSE fixedCycleSet
  BY NotifyEffect
<1>2. \A r \in Rows, c \in Val, k \in Val : AfterNotify(e, v, r, c, k)
  BY NotifyDomains
<1>3. v = True \/ (v = False /\ v # True)
  BY TruthParts DEF Polarity
<1>4. \A r \in Rows, c \in Val, k \in Val :
        <<r, c, k>> = e <=> (r = e[1] /\ c = e[2] /\ k = e[3])
  BY <1>0
\* what is known stays known
<1>5. \A r \in Rows, c \in Val, k \in Val : assignments[r][c][k] # Unknown =>
        assignments'[r][c][k] = assignments[r][c][k]
  BY <1>0, <1>1, <1>4
<1>6. assignments'[e[1]][e[2]][e[3]] = v
  BY <1>0, <1>1
<1>7. UnobservedKept'
  <2> SUFFICES ASSUME NEW x \in Entry \ Observed
               PROVE  /\ assignments'[x[1]][x[2]][x[3]] = InitAssignment(x[1], x[2], x[3])
                      /\ x \in fixedCycleSet' <=> OnDiag(x[1], x[2])
    BY DEF UnobservedKept
  <2>1. x # e /\ x[1] \in Rows /\ x[2] \in Val /\ x[3] \in Val /\ x = <<x[1], x[2], x[3]>>
    BY EntryParts
  <2> QED BY <1>1, <2>1 DEF UnobservedKept
<1>8. DiagonalKept'
  <2>1. ASSUME NEW r \in Rows, DiagPart
        PROVE  matrix'[r][r] = Diag[r]
    <3>1. r \in Val /\ matrix[r][r] = Diag[r] /\ ~(r = e[1] /\ r = e[2])
      BY <1>0, <2>1, EntryParts DEF DiagonalKept
    <3> QED BY <1>1, <3>1
  <2>2. ASSUME NEW r \in Rows, NEW c \in Val, DiagPart /\ SmallerEncoding /\ r # c
        PROVE  Diag[r] \notin bitdomains'[r][c]
    <3>1. /\ Diag[r] \notin bitdomains[r][c] /\ (r = e[1] => Diag[r] # e[3])
          /\ Diag[r] \in Val
      BY <1>0, <2>2, EntryParts, ConstantsAssumption DEF DiagonalKept
    <3>2. CASE v = True
      BY <1>2, <3>1, <3>2 DEF AfterNotify
    <3>3. CASE v # True
      BY <1>2, <3>1, <3>3 DEF AfterNotify
    <3> QED BY <3>2, <3>3
  <2> QED BY <2>1, <2>2 DEF DiagonalKept
<1>9. DomainsReasoned'
  <2> SUFFICES ASSUME NEW r \in Rows, NEW c \in Val, NEW k \in Val
               PROVE  \/ k \in bitdomains'[r][c]
                      \/ assignments'[r][c][k] = False
                      \/ \E j \in Val \ {c} : assignments'[r][j][k] = True
                      \/ \E m \in Val : assignments'[r][c][m] = True
    BY DEF DomainsReasoned, IsTrue
  <2>1. \/ k \in bitdomains[r][c]
        \/ assignments[r][c][k] = False
        \/ \E j \in Val \ {c} : assignments[r][j][k] = True
        \/ \E m \in Val : assignments[r][c][m] = True
    BY DEF DomainsReasoned, IsTrue
  <2>2. CASE k \notin bitdomains[r][c]
    BY <1>5, <2>1, <2>2, TruthParts
  <2>3. CASE k \in bitdomains[r][c] /\ v = True
    <3>1. CASE r # e[1]
      BY <1>2, <2>3, <3>1 DEF AfterNotify
    <3>2. CASE r = e[1] /\ c = e[2]
      BY <1>0, <1>6, <2>3, <3>2
    <3>3. CASE r = e[1] /\ c # e[2] /\ k # e[3]
      BY <1>2, <2>3, <3>3 DEF AfterNotify
    <3>4. CASE r = e[1] /\ c # e[2] /\ k = e[3]
      BY <1>0, <1>6, <2>3, <3>4
    <3> QED BY <3>1, <3>2, <3>3, <3>4
  <2>4. CASE k \in bitdomains[r][c] /\ v # True
    <3>1. CASE r = e[1] /\ c = e[2] /\ k = e[3]
      BY <1>3, <1>6, <2>4, <3>1
    <3>2. CASE ~(r = e[1] /\ c = e[2] /\ k = e[3])
      BY <1>2, <2>4, <3>2 DEF AfterNotify
    <3> QED BY <3>1, <3>2
  <2> QED BY <2>2, <2>3, <2>4
<1>10. DomainsOpen'
  <2> SUFFICES ASSUME NEW r \in Rows, NEW c \in Val, NEW k \in Val,
                      assignments'[r][c][k] = False, k \in bitdomains'[r][c]
               PROVE  FALSE
    BY DEF DomainsOpen
  <2>1. CASE r = e[1] /\ c = e[2] /\ k = e[3]
    <3>1. v = False /\ v # True
      BY <1>3, <1>6, <2>1, TruthParts
    <3> QED BY <1>2, <2>1, <3>1 DEF AfterNotify
  <2>2. CASE ~(r = e[1] /\ c = e[2] /\ k = e[3])
    <3>1. k \notin bitdomains[r][c]
      BY <1>1, <1>4, <2>2 DEF DomainsOpen
    <3>2. CASE v = True
      BY <1>0, <1>2, <2>2, <3>1, <3>2 DEF AfterNotify
    <3>3. CASE v # True
      BY <1>2, <3>1, <3>3 DEF AfterNotify
    <3> QED BY <3>2, <3>3
  <2> QED BY <2>1, <2>2
<1> QED BY <1>7, <1>8, <1>9, <1>10
\* One iteration of notify_backtrack.
LEMMA RowsUndo ==
  ASSUME TypeOK, RowsInv, MatrixAgrees, NEW e \in Observed, e \notin fixedCycleSet,
         UndoAssignment(e), NEW v \in Polarity, assignments[e[1]][e[2]][e[3]] = v,
         fixedCycleSet' = fixedCycleSet
  PROVE  RowsInv'
<1> USE DEF RowsInv
<1>0. /\ e \in Entry /\ e[1] \in Rows /\ e[2] \in Val /\ e[3] \in Val /\ e = <<e[1], e[2], e[3]>>
      /\ DiagPart => e[1] # e[2]
      /\ DiagPart /\ SmallerEncoding => e[3] # Diag[e[1]]
      /\ NoVal \notin Val /\ Rows \subseteq Val
  BY EntryParts DEF Observed
<1>1. /\ \A r \in Rows, c \in Val, k \in Val :
           assignments'[r][c][k] = IF <<r, c, k>> = e THEN Unknown ELSE assignments[r][c][k]
      /\ \A r \in Rows, c \in Val :
           matrix'[r][c] = IF r = e[1] /\ c = e[2] /\ v = True THEN NoVal ELSE matrix[r][c]
  BY UndoEffect
<1>2. \A r \in Rows, c \in Val, k \in Val : AfterUndo(e, v, r, c, k)
  BY UndoDomains
<1>3. v = True \/ (v = False /\ v # True)
  BY TruthParts DEF Polarity
<1>4. \A r \in Rows, c \in Val, k \in Val :
        /\ <<r, c, k>> = e <=> (r = e[1] /\ c = e[2] /\ k = e[3])
        /\ ~(r = e[1] /\ c = e[2] /\ k = e[3]) => assignments'[r][c][k] = assignments[r][c][k]
  BY <1>0, <1>1
<1>5. assignments'[e[1]][e[2]][e[3]] = Unknown
  BY <1>0, <1>1
\* a matrix entry that stays shows a literal that stays
<1>6. ASSUME NEW r \in Rows, NEW c \in Val, matrix[r][c] # NoVal,
             ~(r = e[1] /\ c = e[2] /\ v = True)
      PROVE  matrix[r][c] \in Val /\ assignments'[r][c][matrix[r][c]] = True
  <2>1. matrix[r][c] \in Val /\ assignments[r][c][matrix[r][c]] = True
    BY <1>6 DEF MatrixAgrees, IsTrue, TypeOK
  <2>2. ~(r = e[1] /\ c = e[2] /\ matrix[r][c] = e[3])
    BY <1>6, <2>1
  <2> QED BY <1>4, <2>1, <2>2
<1>7. UnobservedKept'
  <2> SUFFICES ASSUME NEW x \in Entry \ Observed
               PROVE  /\ assignments'[x[1]][x[2]][x[3]] = InitAssignment(x[1], x[2], x[3])
                      /\ x \in fixedCycleSet' <=> OnDiag(x[1], x[2])
    BY DEF UnobservedKept
  <2>1. x # e /\ x[1] \in Rows /\ x[2] \in Val /\ x[3] \in Val /\ x = <<x[1], x[2], x[3]>>
    BY EntryParts
  <2> QED BY <1>1, <2>1 DEF UnobservedKept
<1>8. DiagonalKept'
  <2>1. ASSUME NEW r \in Rows, DiagPart
        PROVE  matrix'[r][r] = Diag[r]
    <3>1. r \in Val /\ matrix[r][r] = Diag[r] /\ ~(r = e[1] /\ r = e[2])
      BY <1>0, <2>1, EntryParts DEF DiagonalKept
    <3> QED BY <1>1, <3>1
  <2>2. ASSUME NEW r \in Rows, NEW c \in Val, DiagPart, SmallerEncoding, r # c
        PROVE  Diag[r] \notin bitdomains'[r][c]
    <3>1. /\ Diag[r] \notin bitdomains[r][c] /\ (r = e[1] => Diag[r] # e[3])
          /\ r \in Val /\ matrix[r][r] = Diag[r] /\ Diag[r] \in Val
      BY <1>0, <2>2, ConstantsAssumption DEF DiagonalKept
    <3>2. CASE v = True /\ r = e[1] /\ c = e[2]
      BY <1>2, <2>2, <3>1, <3>2 DEF AfterUndo
    <3>3. CASE v = True /\ r = e[1] /\ c # e[2]
      BY <1>2, <3>1, <3>3 DEF AfterUndo
    <3>4. CASE r # e[1]
      BY <1>2, <3>1, <3>4 DEF AfterUndo
    <3>5. CASE v # True
      BY <1>2, <3>1, <3>5 DEF AfterUndo
    <3> QED BY <3>2, <3>3, <3>4, <3>5
  <2> QED BY <2>1, <2>2 DEF DiagonalKept
<1>9. DomainsReasoned'
  <2> SUFFICES ASSUME NEW r \in Rows, NEW c \in Val, NEW k \in Val,
                      k \notin bitdomains'[r][c], assignments'[r][c][k] # False,
                      \A m \in Val : assignments'[r][c][m] # True
               PROVE  \E j \in Val \ {c} : assignments'[r][j][k] = True
    BY DEF DomainsReasoned, IsTrue
  <2>1. CASE v = True /\ r = e[1] /\ c = e[2]
    <3>1. assignments[r][c][k] # False
      <4>1. CASE k = e[3]
        BY <2>1, <4>1, TruthParts
      <4>2. CASE k # e[3]
        BY <1>4, <4>2
      <4> QED BY <4>1, <4>2
    <3>2. PICK j \in Val \ {e[2]} : matrix[r][j] = k
      BY <1>2, <2>1, <3>1 DEF AfterUndo
    <3>3. assignments'[r][j][matrix[r][j]] = True
      BY <1>0, <1>6, <2>1, <3>2
    <3> QED BY <2>1, <3>2, <3>3
  <2>2. CASE v # True /\ r = e[1] /\ c = e[2] /\ k = e[3]
    BY <1>2, <2>2 DEF AfterUndo
  <2>3. CASE ~(v = True /\ r = e[1] /\ c = e[2]) /\ ~(r = e[1] /\ c = e[2] /\ k = e[3])
    <3>1. k \notin bitdomains[r][c]
      BY <1>2, <2>3 DEF AfterUndo
    <3>2. assignments[r][c][k] # False
      BY <1>4, <2>3
    <3>3. ASSUME NEW m \in Val
          PROVE  assignments[r][c][m] # True
      <4>1. CASE r = e[1] /\ c = e[2] /\ m = e[3]
        BY <2>3, <4>1
      <4>2. CASE ~(r = e[1] /\ c = e[2] /\ m = e[3])
        BY <1>4, <4>2
      <4> QED BY <4>1, <4>2
    <3>4. PICK j \in Val \ {c} : assignments[r][j][k] = True
      BY <3>1, <3>2, <3>3 DEF DomainsReasoned, IsTrue
    <3>5. CASE ~(r = e[1] /\ j = e[2] /\ k = e[3])
      BY <1>4, <3>4, <3>5
    <3>6. CASE r = e[1] /\ j = e[2] /\ k = e[3]
      <4>1. v = True /\ c # e[2]
        BY <3>4, <3>6
      <4>2. matrix[r][c] # NoVal
        BY <1>2, <3>2, <3>6, <4>1 DEF AfterUndo
      <4>3. matrix[r][c] \in Val /\ assignments'[r][c][matrix[r][c]] = True
        BY <1>6, <4>1, <4>2
      <4> QED BY <4>3
    <3> QED BY <3>5, <3>6
  <2> QED BY <2>1, <2>2, <2>3
<1>10. DomainsOpen'
  <2> SUFFICES ASSUME NEW r \in Rows, NEW c \in Val, NEW k \in Val,
                      assignments'[r][c][k] = False, k \in bitdomains'[r][c]
               PROVE  FALSE
    BY DEF DomainsOpen
  <2>1. ~(r = e[1] /\ c = e[2] /\ k = e[3])
    BY <1>5, TruthParts
  <2>2. assignments[r][c][k] = False /\ k \notin bitdomains[r][c]
    BY <1>4, <2>1 DEF DomainsOpen
  <2>3. CASE v = True /\ r = e[1]
    BY <1>0, <1>2, <2>2, <2>3 DEF AfterUndo
  <2>4. CASE v = True /\ r # e[1]
    BY <1>2, <2>2, <2>4 DEF AfterUndo
  <2>5. CASE v # True
    BY <1>2, <2>1, <2>2, <2>5 DEF AfterUndo
  <2> QED BY <2>3, <2>4, <2>5
<1> QED BY <1>7, <1>8, <1>9, <1>10

\* The observer forgets a level at once, then learns the kept literals again.
LEMMA RowsStep ==
  ASSUME IInv, RowsInv, [Next]_vars
  PROVE  RowsInv'
<1> USE DEF IInv, TrailInv
<1>0. ASSUME UNCHANGED <<assignments, matrix, bitdomains, fixedCycleSet>>
      PROVE  RowsInv'
  BY <1>0 DEF RowsInv, UnobservedKept, DiagonalKept, DomainsReasoned, DomainsOpen, IsTrue
<1>1. CASE Implication
  <2>1. PICK e \in Observed, v \in Polarity, lv \in 0 .. level :
          /\ val[e] = Unknown /\ pc \in {"bcp", "quiet", "jumped"}
          /\ NewLiteral(e, v, lv)
    BY <1>1 DEF Implication
  <2>2. /\ Len(current_trail) >= 1
        /\ \/ notify_assignment(e, v, TRUE)
           \/ UNCHANGED <<assignments, matrix, bitdomains, fixedCycleSet>>
        /\ assignments[e[1]][e[2]][e[3]] = Unknown
    BY <2>1, Assigned
  <2>3. CASE notify_assignment(e, v, TRUE)
    BY <2>2, <2>3, TRUE \in BOOLEAN, RowsNotify
  <2>4. CASE UNCHANGED <<assignments, matrix, bitdomains, fixedCycleSet>>
    BY <1>0, <2>4
  <2> QED BY <2>2, <2>3, <2>4
<1>2. CASE PhaseChange
  BY <1>0, <1>2 DEF PhaseChange, observerVars
<1>3. CASE NotifyAssignment
  <2>1. PICK e : e = trail[notified + 1]
    OBVIOUS
  <2>2. /\ Len(current_trail) >= 1
        /\ e \in Observed /\ val[e] \in Polarity
        /\ lvl[e] = 0 => UNCHANGED <<assignments, matrix, bitdomains, fixedCycleSet>>
        /\ lvl[e] # 0 => /\ notify_assignment(e, val[e], FALSE)
                         /\ assignments[e[1]][e[2]][e[3]] = Unknown
    BY <1>3, <2>1, Notified
  <2>3. CASE lvl[e] = 0
    BY <1>0, <2>2, <2>3
  <2>4. CASE lvl[e] # 0
    <3>1. PICK v \in Polarity : v = val[e]
      BY <2>2
    <3>2. notify_assignment(e, v, FALSE)
      BY <2>2, <2>4, <3>1
    <3> QED BY <2>2, <2>4, <3>2, FALSE \in BOOLEAN, RowsNotify
  <2> QED BY <2>3, <2>4
<1>4. CASE OpenLevel /\ Decision
  BY <1>0, <1>4, Opened
<1>5. CASE Undo
  <2>1. PICK L : L = Len(current_trail)
    OBVIOUS
  <2>2. PICK e : e = Head(current_trail[L])
    OBVIOUS
  <2>3. /\ fixedCycleSet' = fixedCycleSet
        /\ e \in Observed /\ val[e] \in Polarity
        /\ assignments[e[1]][e[2]][e[3]] = val[e]
        /\ UndoAssignment(e)
        /\ e \in fixedCycleSet => UNCHANGED <<assignments, matrix, bitdomains>>
    BY <1>5, <2>1, <2>2, Undone
  <2>4. PICK v \in Polarity : v = val[e]
    BY <2>3
  <2>5. CASE e \in fixedCycleSet
    BY <1>0, <2>3, <2>5
  <2>6. CASE e \notin fixedCycleSet
    BY <2>3, <2>4, <2>6, RowsUndo
  <2> QED BY <2>5, <2>6
<1>6. CASE PopLevel
  BY <1>0, <1>6, Popped
<1>7. CASE Unassign
  BY <1>0, <1>7, Unassigned
<1>8. CASE Explanation
  <2>1. PICK e \in Observed :
          /\ val[e] \in Polarity /\ Len(current_trail) >= 1
          /\ assignments[e[1]][e[2]][e[3]] \in {Unknown, val[e]}
          /\ \/ notify_assignment(e, val[e], TRUE)
             \/ UNCHANGED <<assignments, matrix, bitdomains, fixedCycleSet>>
    BY <1>8 DEF Explanation
  <2>2. PICK v \in Polarity : v = val[e]
    BY <2>1
  <2>3. CASE notify_assignment(e, v, TRUE)
    BY <2>1, <2>2, <2>3, TRUE \in BOOLEAN, RowsNotify
  <2>4. CASE UNCHANGED <<assignments, matrix, bitdomains, fixedCycleSet>>
    BY <1>0, <2>4
  <2> QED BY <2>1, <2>2, <2>3, <2>4
<1> QED BY <1>1, <1>2, <1>3, <1>4, <1>5, <1>6, <1>7, <1>8, StepKinds
-----------------------------------------------------------------------------
(* The matrix shows what can be undone *)

\* The observer's truth is the solver's.
LEMMA TrueIsTrue ==
  ASSUME IInv, NEW x \in Observed
  PROVE  /\ IsTrue(x[1], x[2], x[3]) => val[x] = True
         /\ assignments[x[1]][x[2]][x[3]] # Unknown /\ x \notin fixedCycleSet => InBucket(x)
BY TruthParts DEF IInv, ObserverAgrees, Known, IsTrue

LEMMA ClosedShows ==
  ASSUME IInv, ClosedSettled, Shown, NEW x \in Observed \ fixedCycleSet,
         IsTrue(x[1], x[2], x[3]), Closed(x)
  PROVE  /\ Shows(x)
         /\ \A g \in Groups : x \in g => \A y \in g \ {x} : val[y] = False
<1>1. level \in 1 .. level /\ Before(x, level) /\ val[x] = True
  BY Sizes, TrueIsTrue DEF Closed, IInv, TrailInv
<1>2. \A g \in Groups : x \in g => \A y \in g \ {x} : val[y] = False
  BY <1>1 DEF ClosedSettled
<1>3. ~Contested(x)
  <2>1. ASSUME NEW g \in Groups, x \in g, NEW y \in g \ {x}, IsTrue(y[1], y[2], y[3])
        PROVE  FALSE
    <3>1. y \in Observed /\ val[y] = True
      BY <2>1, TrueIsTrue, EntryParts
    <3> QED BY <1>2, <2>1, <3>1, TruthParts
  <2> QED BY <2>1 DEF Contested
<1> QED BY <1>2, <1>3 DEF Shown

LEMMA ShownNotify ==
  ASSUME IInv, Shown, pc # "undo", Len(current_trail) >= 1, NEW e \in Observed,
         NEW v \in Polarity, NEW fixed \in BOOLEAN, notify_assignment(e, v, fixed),
         assignments[e[1]][e[2]][e[3]] \in {Unknown, v}
  PROVE  Shown'
<1>0. /\ e[1] \in Rows /\ e[2] \in Val /\ e[3] \in Val /\ e = <<e[1], e[2], e[3]>> /\ TypeOK
  BY EntryParts DEF IInv, TrailInv
<1>1. /\ \A r \in Rows, c \in Val, k \in Val :
           assignments'[r][c][k] = IF <<r, c, k>> = e THEN v ELSE assignments[r][c][k]
      /\ v = True => \A r \in Rows, c \in Val :
           matrix'[r][c] = IF r = e[1] /\ c = e[2] THEN e[3] ELSE matrix[r][c]
      /\ v # True => matrix' = matrix
      /\ fixedCycleSet' = IF fixed THEN fixedCycleSet \cup {e} ELSE fixedCycleSet
  BY <1>0, NotifyEffect
<1>2. \A r \in Rows, c \in Val, k \in Val : AfterNotify(e, v, r, c, k)
  BY <1>0, NotifyDomains
<1>3. assignments'[e[1]][e[2]][e[3]] = v
  BY <1>0, <1>1
<1> SUFFICES ASSUME NEW x \in Observed, x \notin fixedCycleSet',
                    assignments'[x[1]][x[2]][x[3]] = True
             PROVE  Contested(x)' \/ Shows(x)'
  BY DEF Shown, IsTrue
<1>4. x[1] \in Rows /\ x[2] \in Val /\ x[3] \in Val /\ x = <<x[1], x[2], x[3]>>
  BY EntryParts
<1>5. CASE x = e
  <2>1. v = True
    BY <1>3, <1>5
  <2>2. AfterNotify(e, v, x[1], x[2], x[3])
    BY <1>2, <1>4
  <2>3. matrix'[x[1]][x[2]] = x[3]
    BY <1>1, <1>4, <1>5, <2>1
  <2> QED BY <1>5, <2>1, <2>2, <2>3 DEF Shows, AfterNotify
<1>6. CASE x # e
  <2>1. IsTrue(x[1], x[2], x[3]) /\ x \notin fixedCycleSet
    BY <1>1, <1>4, <1>6 DEF IsTrue
  <2>2. CASE Contested(x)
    <3>1. PICK g \in Groups : x \in g /\ \E y \in g \ {x} : IsTrue(y[1], y[2], y[3])
      BY <2>2 DEF Contested
    <3>2. PICK y \in g \ {x} : IsTrue(y[1], y[2], y[3])
      BY <3>1
    <3>3. /\ y[1] \in Rows /\ y[2] \in Val /\ y[3] \in Val /\ y = <<y[1], y[2], y[3]>>
          /\ y = e => v = True
      BY <3>2, EntryParts, TruthParts DEF IsTrue
    <3>4. IsTrue(y[1], y[2], y[3])'
      BY <1>1, <3>2, <3>3 DEF IsTrue
    <3> QED BY <3>1, <3>4 DEF Contested
  <2>3. ASSUME NEW g \in Groups, x \in g, e \in g, v = True
        PROVE  Contested(x)'
    BY <1>3, <1>6, <2>3 DEF Contested, IsTrue
  <2>4. ASSUME Shows(x)
        PROVE  Contested(x)' \/ Shows(x)'
    <3>1. AfterNotify(e, v, x[1], x[2], x[3])
      BY <1>2, <1>4
    <3>2. ~(x[1] = e[1] /\ x[2] = e[2] /\ x[3] = e[3])
      BY <1>0, <1>4, <1>6
    <3>3. CASE v = True /\ x[1] = e[1] /\ x[2] = e[2]
      <4>1. PICK g \in Groups : x \in g /\ \A y \in Observed : y \in g <=> y[1] = x[1] /\ y[2] = x[2]
        BY CommonGroup
      <4>2. e \in g
        BY <3>3, <4>1
      <4> QED BY <2>3, <3>3, <4>1, <4>2
    <3>4. CASE v = True /\ x[1] = e[1] /\ x[2] # e[2] /\ x[3] = e[3] /\ (DiagPart => x[3] # Diag[x[1]])
      <4>1. PICK g \in Groups : x \in g /\ \A y \in Observed : y \in g <=> y[1] = x[1] /\ y[3] = x[3]
        BY <3>4, CommonGroup
      <4>2. e \in g
        BY <3>4, <4>1
      <4> QED BY <2>3, <3>4, <4>1, <4>2
    <3>5. CASE v = True /\ ~(x[1] = e[1] /\ x[2] = e[2])
               /\ ~(x[1] = e[1] /\ x[3] = e[3] /\ (DiagPart => x[3] # Diag[x[1]]))
      <4>1. matrix'[x[1]][x[2]] = matrix[x[1]][x[2]]
        BY <1>1, <1>4, <3>5
      <4> QED BY <2>4, <3>1, <3>5, <4>1 DEF Shows, AfterNotify
    <3>6. CASE v # True
      <4>1. matrix' = matrix
        BY <1>1, <3>6
      <4> QED BY <2>4, <3>1, <3>2, <3>6, <4>1 DEF Shows, AfterNotify
    <3> QED BY <3>3, <3>4, <3>5, <3>6
  <2> QED BY <2>1, <2>2, <2>4 DEF Shown
<1> QED BY <1>5, <1>6

LEMMA ShownUndo ==
  ASSUME IInv, ClosedSettled, Shown, pc = "undo",
         UNCHANGED <<trail, control, pc, fixedCycleSet>>,
         NEW e \in Observed, e \notin fixedCycleSet, UndoAssignment(e),
         NEW v \in Polarity, v = val[e], assignments[e[1]][e[2]][e[3]] = v
  PROVE  Shown'
<1>0. /\ e[1] \in Rows /\ e[2] \in Val /\ e[3] \in Val /\ e = <<e[1], e[2], e[3]>> /\ TypeOK
  BY EntryParts DEF IInv, TrailInv
<1>1. /\ \A r \in Rows, c \in Val, k \in Val :
           assignments'[r][c][k] = IF <<r, c, k>> = e THEN Unknown ELSE assignments[r][c][k]
      /\ \A r \in Rows, c \in Val :
           matrix'[r][c] = IF r = e[1] /\ c = e[2] /\ v = True THEN NoVal ELSE matrix[r][c]
  BY <1>0, UndoEffect
<1>2. \A r \in Rows, c \in Val, k \in Val : AfterUndo(e, v, r, c, k)
  BY <1>0, UndoDomains
<1> SUFFICES ASSUME NEW x \in Observed, x \notin fixedCycleSet,
                    assignments'[x[1]][x[2]][x[3]] = True, Closed(x)'
             PROVE  Shows(x)'
  BY DEF Shown, IsTrue
<1>3. x[1] \in Rows /\ x[2] \in Val /\ x[3] \in Val /\ x = <<x[1], x[2], x[3]>>
  BY EntryParts
<1>4. x # e /\ IsTrue(x[1], x[2], x[3])
  BY <1>1, <1>3, TruthParts DEF IsTrue
<1>5. Closed(x)
  BY DEF Closed, Before, level
<1>6. /\ Shows(x)
      /\ \A g \in Groups : x \in g => \A y \in g \ {x} : val[y] = False
  BY <1>4, <1>5, ClosedShows
<1>7. AfterUndo(e, v, x[1], x[2], x[3])
  BY <1>2, <1>3
<1>8. CASE x[1] = e[1] /\ x[2] = e[2]
  <2>1. PICK g \in Groups : x \in g /\ \A y \in Observed : y \in g <=> y[1] = x[1] /\ y[2] = x[2]
    BY CommonGroup
  <2>2. v # True
    BY <1>4, <1>6, <1>8, <2>1, TruthParts
  <2>3. matrix'[x[1]][x[2]] = matrix[x[1]][x[2]]
    BY <1>1, <1>3, <2>2
  <2> QED BY <1>6, <1>7, <1>8, <2>2, <2>3 DEF Shows, AfterUndo
<1>9. CASE ~(x[1] = e[1] /\ x[2] = e[2])
  <2>1. matrix'[x[1]][x[2]] = matrix[x[1]][x[2]]
    BY <1>1, <1>3, <1>9
  <2> QED BY <1>6, <1>7, <1>9, <2>1 DEF Shows, AfterUndo
<1> QED BY <1>8, <1>9

LEMMA ShownStep ==
  ASSUME IInv, ClosedSettled, Shown, [Next]_vars
  PROVE  Shown'
<1> USE DEF IInv, TrailInv
<1>0. ASSUME UNCHANGED <<assignments, matrix, bitdomains, fixedCycleSet>>,
             \A x \in Observed \ fixedCycleSet :
               IsTrue(x[1], x[2], x[3]) /\ (pc' = "undo" => Closed(x)') =>
                 Contested(x) \/ Shows(x)
      PROVE  Shown'
  <2>1. \A x : /\ Contested(x)' <=> Contested(x)
               /\ Shows(x)' <=> Shows(x)
               /\ IsTrue(x[1], x[2], x[3])' <=> IsTrue(x[1], x[2], x[3])
    BY <1>0 DEF Contested, Shows, IsTrue
  <2> HIDE DEF IInv, TrailInv
  <2> QED BY <1>0, <2>1 DEF Shown
<1>1. CASE Implication
  <2>1. PICK e \in Observed, v \in Polarity, lv \in 0 .. level :
          /\ val[e] = Unknown /\ pc \in {"bcp", "quiet", "jumped"}
          /\ NewLiteral(e, v, lv)
    BY <1>1 DEF Implication
  <2>2. /\ Len(current_trail) >= 1
        /\ \/ notify_assignment(e, v, TRUE)
           \/ UNCHANGED <<assignments, matrix, bitdomains, fixedCycleSet>>
        /\ assignments[e[1]][e[2]][e[3]] = Unknown
    BY <2>1, Assigned
  <2>3. pc # "undo"
    BY <2>1
  <2>4. CASE notify_assignment(e, v, TRUE)
    BY <2>2, <2>3, <2>4, TRUE \in BOOLEAN, ShownNotify
  <2>5. CASE UNCHANGED <<assignments, matrix, bitdomains, fixedCycleSet>>
    BY <1>0, <2>3, <2>5 DEF Shown
  <2> QED BY <2>2, <2>4, <2>5
<1>2. CASE PhaseChange
  <2>1. /\ UNCHANGED <<assignments, matrix, bitdomains, fixedCycleSet, trail, control>>
        /\ pc' # "undo" => pc # "undo"
    BY <1>2 DEF PhaseChange, observerVars
  <2>2. \A x : Closed(x)' <=> Closed(x)
    BY <2>1 DEF Closed, Before, level
  <2> QED BY <1>0, <2>1, <2>2 DEF Shown
<1>3. CASE NotifyAssignment
  <2>1. PICK e : e = trail[notified + 1]
    OBVIOUS
  <2>2. /\ Len(current_trail) >= 1
        /\ e \in Observed /\ val[e] \in Polarity
        /\ lvl[e] = 0 => UNCHANGED <<assignments, matrix, bitdomains, fixedCycleSet>>
        /\ lvl[e] # 0 => /\ notify_assignment(e, val[e], FALSE)
                         /\ assignments[e[1]][e[2]][e[3]] = Unknown
    BY <1>3, <2>1, Notified
  <2>3. pc # "undo" /\ pc' = pc
    BY <1>3 DEF NotifyAssignment, Notifying
  <2>4. CASE lvl[e] = 0
    BY <1>0, <2>2, <2>3, <2>4 DEF Shown
  <2>5. CASE lvl[e] # 0
    <3>1. PICK v \in Polarity : v = val[e]
      BY <2>2
    <3>2. notify_assignment(e, v, FALSE)
      BY <2>2, <2>5, <3>1
    <3> QED BY <2>2, <2>3, <2>5, <3>2, FALSE \in BOOLEAN, ShownNotify
  <2> QED BY <2>4, <2>5
<1>4. CASE OpenLevel /\ Decision
  <2>1. pc = "quiet" /\ UNCHANGED <<assignments, matrix, bitdomains, fixedCycleSet>>
    BY <1>4, Opened
  <2> QED BY <1>0, <2>1 DEF Shown
<1>5. CASE Undo
  <2>1. PICK L : L = Len(current_trail)
    OBVIOUS
  <2>2. PICK e : e = Head(current_trail[L])
    OBVIOUS
  <2>3. /\ UNCHANGED <<trail, control, pc, fixedCycleSet>> /\ pc = "undo"
        /\ e \in Observed /\ val[e] \in Polarity
        /\ assignments[e[1]][e[2]][e[3]] = val[e]
        /\ UndoAssignment(e)
        /\ e \in fixedCycleSet => UNCHANGED <<assignments, matrix, bitdomains>>
    BY <1>5, <2>1, <2>2, Undone
  <2>4. PICK v \in Polarity : v = val[e]
    BY <2>3
  <2>5. \A x : Closed(x)' <=> Closed(x)
    BY <2>3 DEF Closed, Before, level
  <2> HIDE DEF IInv, TrailInv
  <2>6. CASE e \in fixedCycleSet
    BY <1>0, <2>3, <2>5, <2>6 DEF Shown
  <2>7. CASE e \notin fixedCycleSet
    BY <2>3, <2>4, <2>7, ShownUndo
  <2> QED BY <2>6, <2>7
<1>6. CASE PopLevel
  <2>1. /\ UNCHANGED <<assignments, matrix, bitdomains, fixedCycleSet, trail, control, pc>>
        /\ pc = "undo"
    BY <1>6, Popped
  <2>2. \A x : Closed(x)' <=> Closed(x)
    BY <2>1 DEF Closed, Before, level
  <2> QED BY <1>0, <2>1, <2>2 DEF Shown
<1>7. CASE Unassign
  <2>1. /\ UNCHANGED <<assignments, matrix, bitdomains, fixedCycleSet, current_trail>>
        /\ target \in Nat /\ level \in Nat /\ target + 1 \in 1 .. level
        /\ Len(current_trail) = target + 1
    BY <1>7, Unassigned
  <2>2. ASSUME NEW x \in Observed \ fixedCycleSet, IsTrue(x[1], x[2], x[3])
        PROVE  Shows(x)
    <3>1. InBucket(x)
      BY <2>2, TrueIsTrue, TruthParts DEF IsTrue
    <3>2. PICK l \in 1 .. target + 1 : \E p \in 1 .. Len(current_trail[l]) : current_trail[l][p] = x
      BY <2>1, <3>1 DEF InBucket
    <3>3. l \in 1 .. level /\ level \in 1 .. level /\ l <= level
      BY <2>1
    <3>4. PICK i \in 1 .. notified : trail[i] = x /\ i <= control[l]
      BY <2>1, <3>2, <3>3 DEF BucketsSound
    <3>5. control[l] <= control[level]
      BY <3>3 DEF LevelsFit
    <3>6. control[l] \in Nat /\ control[level] \in Nat
      BY <3>3, Sizes
    <3>7. i \in 1 .. control[level]
      BY <3>4, <3>5, <3>6
    <3>8. Closed(x)
      BY <2>1, <3>4, <3>7 DEF Closed, Before
    <3> HIDE DEF IInv, TrailInv
    <3> QED BY <2>2, <3>8, ClosedShows
  <2> QED BY <1>0, <2>1, <2>2
<1>8. CASE Explanation
  <2>1. PICK e \in Observed :
          /\ val[e] \in Polarity /\ Len(current_trail) >= 1
          /\ assignments[e[1]][e[2]][e[3]] \in {Unknown, val[e]}
          /\ \/ notify_assignment(e, val[e], TRUE)
             \/ UNCHANGED <<assignments, matrix, bitdomains, fixedCycleSet>>
    BY <1>8 DEF Explanation
  <2>2. PICK v \in Polarity : v = val[e]
    BY <2>1
  <2>3. pc # "undo"
    BY <1>8 DEF Explanation
  <2>4. CASE notify_assignment(e, v, TRUE)
    BY <2>1, <2>2, <2>3, <2>4, TRUE \in BOOLEAN, ShownNotify
  <2>5. CASE UNCHANGED <<assignments, matrix, bitdomains, fixedCycleSet>>
    BY <1>0, <2>3, <2>5 DEF Shown
  <2> QED BY <2>1, <2>2, <2>4, <2>5
<1> QED BY <1>1, <1>2, <1>3, <1>4, <1>5, <1>6, <1>7, <1>8, StepKinds
-----------------------------------------------------------------------------
(* The invariant *)

\* The constructor leaves the diagonal and an empty trail.
LEMMA InitJInv == Init => JInv
<1> SUFFICES ASSUME Init
             PROVE  JInv
  OBVIOUS
<1>1. /\ level = 0 /\ notified = 0 /\ pc = "bcp"
      /\ Len(current_trail) = 1 /\ Len(current_trail[1]) = 0
      /\ \A r \in Rows, c \in Val, k \in Val :
           assignments[r][c][k] = InitAssignment(r, c, k)
      /\ \A r \in Rows, c \in Val : matrix[r][c] = IF OnDiag(r, c) THEN Diag[r] ELSE NoVal
      /\ fixedCycleSet = {e \in Entry : OnDiag(e[1], e[2])}
  BY DEF Init, level
<1>0. ASSUME NEW r \in Rows, NEW c \in Val, NEW k \in Val
      PROVE  k \in bitdomains[r][c] <=> IF OnDiag(r, c) THEN k = Diag[r]
                                                       ELSE DiagPart => k # Diag[r]
  <2>1. bitdomains[r][c] = IF OnDiag(r, c) THEN {Diag[r]}
                           ELSE IF DiagPart THEN Val \ {Diag[r]} ELSE Val
    BY DEF Init
  <2>2. CASE OnDiag(r, c)
    BY <2>1, <2>2
  <2>3. CASE ~OnDiag(r, c)
    BY <2>1, <2>3
  <2> QED BY <2>2, <2>3
<1>2. BucketsOrdered /\ Settled /\ ClosedSettled
  BY <1>1 DEF BucketsOrdered, InOrder, Settled, ClosedSettled
<1>3. \A e \in Observed : ~OnDiag(e[1], e[2])
  BY DEF OnDiag, Observed
<1>4. Shown
  BY <1>1, <1>3, EntryParts, TruthParts DEF Shown, IsTrue, InitAssignment
<1>5. UnobservedKept
  BY <1>1, EntryParts DEF UnobservedKept
<1>6. \A r \in Rows : r \in Val /\ Diag[r] \in Val
  BY EntryParts, ConstantsAssumption
<1>7. DiagonalKept
  BY <1>0, <1>1, <1>6 DEF DiagonalKept, OnDiag
<1>8. DomainsOpen
  BY <1>0, <1>1, TruthParts DEF DomainsOpen, OnDiag, InitAssignment
<1>9. DomainsReasoned
  <2> SUFFICES ASSUME NEW r \in Rows, NEW c \in Val, NEW k \in Val, k \notin bitdomains[r][c]
               PROVE  \/ assignments[r][c][k] = False
                      \/ \E j \in Val \ {c} : IsTrue(r, j, k)
    BY DEF DomainsReasoned
  <2>1. CASE OnDiag(r, c)
    BY <1>0, <1>1, <2>1 DEF InitAssignment
  <2>2. CASE ~OnDiag(r, c)
    <3>1. DiagPart /\ k = Diag[r] /\ r # c
      BY <1>0, <2>2 DEF OnDiag
    <3>2. IsTrue(r, r, k)
      BY <1>1, <1>6, <3>1 DEF IsTrue, InitAssignment, OnDiag
    <3> QED BY <1>6, <3>1, <3>2
  <2> QED BY <2>1, <2>2
<1> QED BY <1>2, <1>4, <1>5, <1>7, <1>8, <1>9 DEF JInv, RowsInv

LEMMA StepJInv == IInv /\ JInv /\ [Next]_vars => JInv'
BY OrderedStep, SettledStep, ClosedStep, ShownStep, RowsStep DEF JInv

LEMMA ObserverInvariance == Spec => [](IInv /\ JInv)
BY InitIInv, StepIInv, InitJInv, StepJInv, PTL DEF Spec

\* An entry the solver has false, or that the constructor made so.
Ruled(r, c, k) == IF <<r, c, k>> \in Observed THEN val[<<r, c, k>>] = False
                                             ELSE assignments[r][c][k] = False

\* A true literal excludes the other values of its cell and the other cells of
\* its value, and shows, as far as there are variables for them.
Excludes(r, c, m) ==
  /\ \A k \in Val :
       \/ k = m
       \/ Ruled(r, c, k)
       \/ DiagPart /\ SmallerEncoding /\ k = Diag[r] /\ r # c
  /\ \A j \in Val :
       \/ j = c
       \/ Ruled(r, j, m)
       \/ DiagPart /\ m = Diag[r]
  /\ <<r, c, m>> \in Observed \ fixedCycleSet =>
       matrix[r][c] = m /\ (m \in bitdomains[r][c] \/ (DiagPart /\ m = Diag[r]))

\* The observer knows it, unless it is a root literal it was not told of.
LEMMA RuledOut ==
  ASSUME IInv, Quiet, NEW r \in Rows, NEW c \in Val, NEW k \in Val, Ruled(r, c, k),
         assignments[r][c][k] # False
  PROVE  <<r, c, k>> \in Unheard
<1>1. PICK x : x = <<r, c, k>>
  OBVIOUS
<1>2. x[1] = r /\ x[2] = c /\ x[3] = k /\ x \in Observed /\ val[x] = False
  BY <1>1 DEF Ruled
<1>3. assignments[x[1]][x[2]][x[3]] = IF x \in Unheard THEN Unknown ELSE val[x]
  BY <1>2, QuietAgrees
<1> QED BY <1>1, <1>2, <1>3

\* So it is when cb_propagate, cb_decide or the model check run.
LEMMA QuietRow ==
  ASSUME IInv, JInv, Quiet, NEW r \in Rows, NEW c \in Val, NEW m \in Val, IsTrue(r, c, m)
  PROVE  Excludes(r, c, m)
<1> DEFINE e == <<r, c, m>>
<1>0. /\ TypeOK /\ ~Conflict /\ Propagated /\ pc # "undo"
      /\ \A j \in Val, k \in Val : <<r, j, k>> \in Entry
  BY EntryParts DEF JInv, Settled, Quiet, IInv, TrailInv
<1>1. e[1] = r /\ e[2] = c /\ e[3] = m /\ e \in Entry
  BY <1>0
<1> HIDE DEF e
\* entries without a variable
<1>3. \A j \in Val, k \in Val : <<r, j, k>> \notin Observed =>
        /\ assignments[r][j][k] = InitAssignment(r, j, k)
        /\ DiagPart /\ (r = j \/ (SmallerEncoding /\ k = Diag[r]))
  <2> SUFFICES ASSUME NEW j \in Val, NEW k \in Val, NEW x, x = <<r, j, k>>, x \notin Observed
               PROVE  /\ assignments[r][j][k] = InitAssignment(r, j, k)
                      /\ DiagPart /\ (r = j \/ (SmallerEncoding /\ k = Diag[r]))
    OBVIOUS
  <2>1. x[1] = r /\ x[2] = j /\ x[3] = k /\ x \in Entry
    BY <1>0
  <2> QED BY <2>1 DEF JInv, RowsInv, UnobservedKept, Observed
<1>4. CASE e \notin Observed
  <2>1. OnDiag(r, c) /\ m = Diag[r]
    BY <1>3, <1>4, TruthParts DEF IsTrue, InitAssignment, e
  <2>2. \A k \in Val : k = m \/ Ruled(r, c, k)
    <3>1. ASSUME NEW k \in Val, k # m
          PROVE  Ruled(r, c, k)
      <4>1. <<r, c, k>> \notin Observed
        BY <2>1, <1>0 DEF OnDiag, Observed
      <4> QED BY <1>3, <2>1, <3>1, <4>1 DEF InitAssignment, Ruled
    <3> QED BY <3>1
  <2>3. DiagPart /\ m = Diag[r]
    BY <2>1 DEF OnDiag
  <2> QED BY <1>4, <2>2, <2>3 DEF Excludes, e
<1>5. CASE e \in Observed
  <2>1. val[e] = True
    BY <1>1, <1>5, TrueIsTrue
  <2>2. \A g \in Groups : e \in g => \A x \in g \ {e} : val[x] = False
    BY <1>0, <2>1, SettledGroup
  <2>3. ~Contested(e)
    <3>1. ASSUME NEW g \in Groups, e \in g, NEW x \in g \ {e}, IsTrue(x[1], x[2], x[3])
          PROVE  FALSE
      <4>1. x \in Observed /\ val[x] = True
        BY <3>1, TrueIsTrue, EntryParts
      <4> QED BY <2>2, <3>1, <4>1, TruthParts
    <3> QED BY <3>1 DEF Contested
  <2>4. e \notin fixedCycleSet => Shows(e)
    BY <1>0, <1>1, <1>5, <2>3 DEF JInv, Shown
  <2>5. /\ DiagPart => r # c
        /\ DiagPart /\ SmallerEncoding => m # Diag[r]
    BY <1>1, <1>5 DEF Observed
  <2>6. ASSUME NEW k \in Val, k # m
        PROVE  \/ Ruled(r, c, k)
               \/ DiagPart /\ SmallerEncoding /\ k = Diag[r] /\ r # c
    <3>1. CASE <<r, c, k>> \notin Observed
      BY <1>3, <2>5, <3>1
    <3>2. CASE <<r, c, k>> \in Observed
      <4>1. PICK x : x = <<r, c, k>>
        OBVIOUS
      <4>2. x[1] = r /\ x[2] = c /\ x # e /\ x \in Observed
        BY <2>6, <3>2, <4>1 DEF e
      <4>3. PICK g \in Groups : e \in g /\ \A y \in Observed : y \in g <=> y[1] = e[1] /\ y[2] = e[2]
        BY <1>5, CommonGroup
      <4>4. val[x] = False
        BY <1>1, <2>2, <4>2, <4>3
      <4> QED BY <3>2, <4>1, <4>4 DEF Ruled
    <3> QED BY <3>1, <3>2
  <2>7. ASSUME NEW j \in Val, j # c
        PROVE  Ruled(r, j, m) \/ (DiagPart /\ m = Diag[r])
    <3>1. CASE <<r, j, m>> \notin Observed
      BY <1>3, <3>1 DEF InitAssignment, OnDiag, Ruled
    <3>2. CASE <<r, j, m>> \in Observed /\ (DiagPart => m # Diag[r])
      <4>1. PICK x : x = <<r, j, m>>
        OBVIOUS
      <4>2. x[1] = r /\ x[3] = m /\ x # e /\ x \in Observed
        BY <2>7, <3>2, <4>1 DEF e
      <4>3. PICK g \in Groups : e \in g /\ \A y \in Observed : y \in g <=> y[1] = e[1] /\ y[3] = e[3]
        BY <1>1, <1>5, <3>2, CommonGroup
      <4>4. val[x] = False
        BY <1>1, <2>2, <4>2, <4>3
      <4> QED BY <3>2, <4>1, <4>4 DEF Ruled
    <3> QED BY <3>1, <3>2
  <2>8. e \in Observed \ fixedCycleSet =>
          matrix[r][c] = m /\ (m \in bitdomains[r][c] \/ (DiagPart /\ m = Diag[r]))
    BY <1>1, <2>4 DEF Shows
  <2> QED BY <2>6, <2>7, <2>8 DEF Excludes, e
<1> QED BY <1>4, <1>5
-----------------------------------------------------------------------------
(* The theorems *)

\* notify_backtrack pops whole buckets: outside of it the buckets list the control
\* segments of the solver's trail in assignment order, every literal of a decision
\* level and no root literal but those explained as units after they were listed.
THEOREM BucketsMirrorTrail == Spec => []TrailMirrored
<1>1. IInv /\ JInv => TrailMirrored
  <2> SUFFICES ASSUME IInv, JInv, pc # "undo"
               PROVE  TrailMirrored
    BY DEF TrailMirrored
  <2>1. Len(current_trail) = level + 1
    BY DEF IInv, TrailInv, LevelsFit
  <2>2. BucketsOrdered
    BY DEF JInv
  <2> QED BY <2>1, <2>2, BucketIsListed DEF TrailMirrored
<1> QED BY <1>1, ObserverInvariance, PTL

\* checkMin is handed every literal that can be undone and is true, and nothing
\* else, however many times it was undone and notified again.
THEOREM MatrixShowsTrue == Spec => []MatrixRight
<1>1. IInv /\ JInv => MatrixRight
  <2> SUFFICES ASSUME IInv, JInv
               PROVE  MatrixSound /\ MatrixComplete
    BY DEF MatrixRight
  <2>1. MatrixSound
    BY DEF IInv, MatrixAgrees, MatrixSound
  <2>2. ASSUME Quiet, NEW e \in Entry \ fixedCycleSet, IsTrue(e[1], e[2], e[3])
        PROVE  matrix[e[1]][e[2]] = e[3]
    <3>1. e[1] \in Rows /\ e[2] \in Val /\ e[3] \in Val /\ e = <<e[1], e[2], e[3]>>
      BY EntryParts
    <3>2. CASE e \in Observed
      <4>1. Excludes(e[1], e[2], e[3])
        BY <2>2, <3>1, QuietRow
      <4> QED BY <2>2, <3>1, <3>2, <4>1 DEF Excludes
    <3>3. CASE e \notin Observed
      BY <2>2, <3>3, TruthParts DEF JInv, RowsInv, UnobservedKept, InitAssignment, IsTrue
    <3> QED BY <3>2, <3>3
  <2> QED BY <2>1, <2>2 DEF MatrixComplete
<1> QED BY <1>1, ObserverInvariance, PTL

\* The minimality check reads in the domains every value the row still allows but
\* those of fixed entries and, when fixDiag removed diag[i] for good, no other but
\* those lost to root literals the observer was not told of.
THEOREM DomainsHoldPossible == Spec => []DomainsRight
<1>1. ASSUME IInv, JInv, Quiet, NEW r \in Rows, NEW c \in Val,
             NEW k \in Possible(r, c), k \notin FixedTrue(r, c), k \notin bitdomains[r][c]
      PROVE  FALSE
  <2>1. /\ k \in Val /\ assignments[r][c][k] # False
        /\ \A j \in Val \ {c} : ~IsTrue(r, j, k)
        /\ \A j \in Val \ {k} : ~IsTrue(r, c, j)
    BY <1>1 DEF Possible
  <2>2. PICK m \in Val : IsTrue(r, c, m)
    BY <1>1, <2>1 DEF JInv, RowsInv, DomainsReasoned
  <2>0. Excludes(r, c, m)
    BY <1>1, <2>2, QuietRow
  \* the diagonal has its value
  <2>3. ~(DiagPart /\ k = Diag[r] /\ r # c)
    <3>1. ASSUME DiagPart, k = Diag[r], r # c
          PROVE  FALSE
      <4>1. PICK d : d = <<r, r, k>>
        OBVIOUS
      <4>2. d \in Entry /\ d[1] = r /\ d[2] = r /\ d[3] = k /\ r \in Val
        BY <2>1, <4>1, EntryParts
      <4>3. d \notin Observed
        BY <3>1, <4>2 DEF Observed
      <4>4. IsTrue(r, r, k)
        BY <1>1, <3>1, <4>2, <4>3 DEF JInv, RowsInv, UnobservedKept, InitAssignment, OnDiag, IsTrue
      <4> QED BY <2>1, <3>1, <4>2, <4>4
    <3> QED BY <3>1
  <2>4. k = m
    BY <2>1, <2>2
  <2>5. <<r, c, k>> \notin Observed \/ <<r, c, k>> \in fixedCycleSet
    <3>1. ASSUME <<r, c, k>> \in Observed \ fixedCycleSet
          PROVE  FALSE
      <4>1. k \in bitdomains[r][c] \/ (DiagPart /\ k = Diag[r])
        BY <2>0, <2>4, <3>1 DEF Excludes
      <4>2. DiagPart => r # c
        BY <3>1 DEF Observed
      <4> QED BY <1>1, <2>3, <4>1, <4>2
    <3> QED BY <3>1
  <2>6. <<r, c, k>> \in fixedCycleSet
    <3>1. PICK e : e = <<r, c, k>>
      OBVIOUS
    <3>2. e \in Entry /\ e[1] = r /\ e[2] = c /\ e[3] = k
      BY <2>1, <3>1, EntryParts
    <3>3. CASE e \notin Observed
      <4>1. assignments[r][c][k] = InitAssignment(r, c, k) /\ (e \in fixedCycleSet <=> OnDiag(r, c))
        BY <1>1, <3>2, <3>3 DEF JInv, RowsInv, UnobservedKept
      <4> QED BY <2>2, <2>4, <3>1, <4>1, TruthParts DEF IsTrue, InitAssignment
    <3> QED BY <2>5, <3>1, <3>3
  <2> QED BY <1>1, <2>1, <2>2, <2>4, <2>6 DEF FixedTrue
<1>2. ASSUME IInv, JInv, Quiet, DiagPart => SmallerEncoding, NEW r \in Rows, NEW c \in Val,
             NEW k \in bitdomains[r][c], <<r, c, k>> \notin Unheard
      PROVE  k \in Possible(r, c)
  <2>1. k \in Val
    BY <1>2 DEF IInv, TrailInv, TypeOK
  <2>2. assignments[r][c][k] # False /\ ~Ruled(r, c, k)
    BY <1>2, <2>1, RuledOut DEF JInv, RowsInv, DomainsOpen
  <2>4. ASSUME NEW j \in Val \ {k}, IsTrue(r, c, j)
        PROVE  FALSE
    <3>1. Excludes(r, c, j)
      BY <1>2, <2>4, QuietRow
    <3>2. DiagPart /\ SmallerEncoding /\ k = Diag[r] /\ r # c
      BY <2>1, <2>2, <2>4, <3>1 DEF Excludes
    <3> QED BY <1>2, <3>2 DEF JInv, RowsInv, DiagonalKept
  <2>3. ASSUME NEW j \in Val \ {c}, IsTrue(r, j, k)
        PROVE  FALSE
    <3>0. Excludes(r, j, k)
      BY <1>2, <2>1, <2>3, QuietRow
    <3>1. DiagPart /\ k = Diag[r]
      BY <2>2, <2>3, <3>0 DEF Excludes
    <3>2. r = c
      BY <1>2, <3>1 DEF JInv, RowsInv, DiagonalKept
    \* diag[r] is not a value of another cell of the row
    <3>3. PICK e : e = <<r, j, k>>
      OBVIOUS
    <3>4. e \in Entry /\ e[1] = r /\ e[2] = j /\ e[3] = k
      BY <2>1, <3>3, EntryParts
    <3>5. e \notin Observed
      BY <1>2, <3>1, <3>4 DEF Observed
    <3>6. assignments[r][j][k] = Unknown
      BY <1>2, <2>3, <3>2, <3>4, <3>5 DEF JInv, RowsInv, UnobservedKept, InitAssignment, OnDiag
    <3> QED BY <2>3, <3>6, TruthParts DEF IsTrue
  <2> QED BY <2>1, <2>2, <2>3, <2>4 DEF Possible
<1>3. IInv /\ JInv => DomainsRight
  BY <1>1, <1>2 DEF DomainsRight, DomainsSound, DomainsExact
<1> QED BY <1>3, ObserverInvariance, PTL
-----------------------------------------------------------------------------
(* Decisions *)

LEMMA ValFinite == IsFiniteSet(Val) /\ \A D \in SUBSET Val : IsFiniteSet(D)
<1>1. 0 \in Int /\ N - 1 \in Int
  BY ConstantsAssumption
<1>2. IsFiniteSet(Val)
  BY <1>1, FS_Interval DEF Val
<1> QED BY <1>2, FS_Subset

\* The first open cell and its least value are proposed.
LEMMA OpenIsProposed ==
  ASSUME TypeOK, OpenCells # {}
  PROVE  cb_decide # {}
<1> DEFINE num == [rc \in OpenCells |-> rc[1] * N + rc[2]]
           T == {num[rc] : rc \in OpenCells}
<1>1. OpenCells \in SUBSET (Val \X Val) /\ N \in Nat /\ Val \in SUBSET Nat
  BY EntryParts, ConstantsAssumption DEF OpenCells, Val
<1>2. IsFiniteSet(OpenCells)
  BY <1>1, ValFinite, FS_Product, FS_Subset
<1>3. T \in SUBSET Nat
  <2>1. ASSUME NEW rc \in OpenCells
        PROVE  num[rc] \in Nat
    <3>1. rc[1] \in Nat /\ rc[2] \in Nat /\ N \in Nat
      BY <1>1
    <3>2. rc[1] * N \in Nat
      BY <3>1
    <3> QED BY <3>1, <3>2
  <2> HIDE DEF num
  <2> QED BY <2>1
<1>4. IsFiniteSet(T) /\ T # {}
  <2> HIDE DEF num
  <2>1. num \in Surjection(OpenCells, T)
    <3>1. num \in [OpenCells -> T]
      BY DEF num
    <3> QED BY <3>1 DEF Surjection
  <2> QED BY <1>2, <2>1, FS_Surjection
<1> HIDE DEF T
<1>5. PICK n \in T : \A j \in T : n <= j
  BY <1>3, <1>4, LeastMember
<1>6. PICK rc \in OpenCells : n = rc[1] * N + rc[2]
  BY DEF T
<1>7. \A o \in OpenCells : rc[1] * N + rc[2] <= o[1] * N + o[2]
  BY <1>5, <1>6 DEF T
<1>8. PICK r \in Rows, c \in Val : rc = <<r, c>>
  BY DEF OpenCells
<1> DEFINE D == bitdomains[r][c]
<1>9. D \in SUBSET Val /\ Cardinality(D) > 1
  BY <1>8 DEF OpenCells, TypeOK
<1> HIDE DEF D
<1>10. D \in SUBSET Nat /\ IsFiniteSet(D) /\ D # {}
  BY <1>1, <1>9, ValFinite, FS_EmptySet
<1>11. PICK k \in D : \A j \in D : k <= j
  BY <1>10, LeastMember
<1>12. PICK e : e = <<r, c, k>>
  OBVIOUS
<1>13. e \in Entry /\ e[1] = r /\ e[2] = c /\ e[3] = k /\ rc[1] = r /\ rc[2] = c
  BY <1>8, <1>9, <1>12, EntryParts
<1>14. e \in cb_decide
  BY <1>7, <1>8, <1>11, <1>13 DEF cb_decide, D
<1> QED BY <1>14

\* What is proposed has a variable, and no value unless the observer misses a root
\* literal of the cell.
LEMMA ProposedIsOpen ==
  ASSUME IInv, JInv, Quiet, NEW e \in cb_decide, Cell(e[1], e[2]) \cap Unheard = {}
  PROVE  e \in ask_decision
<1>0. TypeOK
  BY DEF IInv, TrailInv
<1> DEFINE r == e[1]
           c == e[2]
           k == e[3]
           D == bitdomains[r][c]
<1>1. /\ r \in Rows /\ c \in Val /\ k \in Val /\ e = <<r, c, k>> /\ e \in Entry
      /\ DiagPart => r # c
      /\ Cardinality(D) > 1 /\ k \in D
  BY EntryParts DEF cb_decide, OpenCells
<1>2. D \in SUBSET Val
  BY <1>0, <1>1 DEF TypeOK
<1> HIDE DEF r, c, k, D
<1>3. e \in Observed
  <2>1. ~(DiagPart /\ SmallerEncoding /\ k = Diag[r])
    BY <1>1 DEF JInv, RowsInv, DiagonalKept, D
  <2> QED BY <1>1, <2>1 DEF Observed, r, c, k
<1>4. assignments[r][c][k] # False
  BY <1>1 DEF JInv, RowsInv, DomainsOpen, D
<1>8. \A i \in Val : <<r, c, i>> \notin Unheard
  <2>1. ASSUME NEW i \in Val, NEW x, x = <<r, c, i>>, x \in Unheard
        PROVE  FALSE
    <3>1. x \in Observed /\ x[1] = e[1] /\ x[2] = e[2]
      BY <2>1 DEF Unheard, r, c
    <3> QED BY <2>1, <3>1 DEF Cell
  <2> QED BY <2>1
<1>5. assignments[r][c][k] = val[e]
  BY <1>1, <1>3, <1>8, QuietAgrees DEF r, c, k
<1>6. ASSUME val[e] = True
      PROVE  FALSE
  <2>1. Excludes(r, c, k)
    BY <1>1, <1>5, <1>6, QuietRow DEF IsTrue
  <2>2. \A i \in D : i = k
    <3>1. ASSUME NEW i \in D, i # k
          PROVE  FALSE
      <4>1. assignments[r][c][i] # False /\ i \in Val
        BY <1>1, <1>2, <3>1 DEF JInv, RowsInv, DomainsOpen, D
      <4>3. ~Ruled(r, c, i)
        BY <1>1, <1>8, <4>1, RuledOut
      <4>2. DiagPart /\ SmallerEncoding /\ i = Diag[r] /\ r # c
        BY <2>1, <3>1, <4>1, <4>3 DEF Excludes
      <4> QED BY <1>1, <3>1, <4>2 DEF JInv, RowsInv, DiagonalKept, D
    <3> QED BY <3>1
  <2>3. D = {k}
    BY <1>1, <2>2
  <2>4. Cardinality(D) = 1
    BY <2>3, FS_Singleton
  <2> QED BY <1>1, <2>4
<1>7. val[e] = Unknown
  BY <1>0, <1>3, <1>4, <1>5, <1>6 DEF TypeOK, Truth, Polarity
<1> QED BY <1>3, <1>7 DEF ask_decision

\* A literal that can be proposed: of a cell and a value with a group each.
CellsOf(r) == {c \in Val : DiagPart => c # r}
ValuesOf(r) == {k \in Val : DiagPart => k # Diag[r]}
Left(r, c, k) == val[<<r, c, k>>] # False

LEMMA ProperObserved ==
  ASSUME NEW r \in Rows, NEW c \in CellsOf(r), NEW k \in ValuesOf(r)
  PROVE  /\ <<r, c, k>> \in Observed
         /\ \E g \in Groups : /\ <<r, c, k>> \in g
                              /\ \A x \in Observed : x \in g <=> x[1] = r /\ x[3] = k
         /\ \E g \in Groups : /\ <<r, c, k>> \in g
                              /\ \A x \in Observed : x \in g <=> x[1] = r /\ x[2] = c
<1>1. PICK e : e = <<r, c, k>>
  OBVIOUS
<1>2. /\ c \in Val /\ k \in Val /\ e[1] = r /\ e[2] = c /\ e[3] = k /\ e \in Entry
      /\ DiagPart => c # r /\ k # Diag[r]
  BY <1>1, EntryParts DEF CellsOf, ValuesOf
<1>3. e \in Observed
  BY <1>2 DEF Observed
<1>4. PICK g \in Groups : e \in g /\ \A x \in Observed : x \in g <=> x[1] = e[1] /\ x[3] = e[3]
  BY <1>2, <1>3, CommonGroup
<1>5. PICK h \in Groups : e \in h /\ \A x \in Observed : x \in h <=> x[1] = e[1] /\ x[2] = e[2]
  BY <1>3, CommonGroup
<1> QED BY <1>1, <1>2, <1>3, <1>4, <1>5

LEMMA SameNumber ==
  ASSUME NEW r \in Rows
  PROVE  /\ IsFiniteSet(CellsOf(r)) /\ IsFiniteSet(ValuesOf(r))
         /\ Cardinality(CellsOf(r)) = Cardinality(ValuesOf(r))
<1>1. r \in Val /\ Diag[r] \in Val
  BY EntryParts, ConstantsAssumption
<1>2. CASE DiagPart
  <2>1. CellsOf(r) = Val \ {r} /\ ValuesOf(r) = Val \ {Diag[r]}
    BY <1>2 DEF CellsOf, ValuesOf
  <2> QED BY <1>1, <2>1, ValFinite, FS_RemoveElement
<1>3. CASE ~DiagPart
  <2>1. CellsOf(r) = Val /\ ValuesOf(r) = Val
    BY <1>3 DEF CellsOf, ValuesOf
  <2> QED BY <2>1, ValFinite
<1> QED BY <1>2, <1>3

\* With every domain decided, no two values are left for a cell.
LEMMA OneValueLeft ==
  ASSUME IInv, JInv, Quiet, OpenCells = {}, NEW r \in Rows, NEW c \in CellsOf(r),
         NEW k \in ValuesOf(r), NEW m \in ValuesOf(r), Left(r, c, k), Left(r, c, m)
  PROVE  k = m
<1>0. /\ c \in Val /\ k \in Val /\ m \in Val /\ TypeOK /\ ~Conflict /\ Propagated
      /\ DiagPart => c # r /\ k # Diag[r] /\ m # Diag[r]
  BY DEF CellsOf, ValuesOf, IInv, TrailInv, JInv, Settled, Quiet
<1>1. ASSUME NEW i \in ValuesOf(r), NEW j \in ValuesOf(r), i # j,
             val[<<r, c, i>>] = True, Left(r, c, j)
      PROVE  FALSE
  <2>1. PICK g \in Groups : /\ <<r, c, i>> \in g
                            /\ \A x \in Observed : x \in g <=> x[1] = r /\ x[2] = c
    BY ProperObserved
  <2>2. PICK y : y = <<r, c, j>>
    OBVIOUS
  <2>3. y \in Observed /\ y[1] = r /\ y[2] = c /\ y # <<r, c, i>>
    BY <1>1, <2>2, ProperObserved
  <2>4. val[y] = False
    BY <1>0, <1>1, <2>1, <2>3, SettledGroup
  <2> QED BY <1>1, <2>2, <2>4 DEF Left
\* an open literal of a proper cell and value is in the domain
<1>2. ASSUME NEW i \in ValuesOf(r), val[<<r, c, i>>] = Unknown
      PROVE  i \in bitdomains[r][c]
  <2>1. PICK e : e = <<r, c, i>>
    OBVIOUS
  <2>2. e \in Observed /\ e[1] = r /\ e[2] = c /\ e[3] = i /\ i \in Val /\ val[e] = Unknown
    BY <1>2, <2>1, ProperObserved DEF ValuesOf
  <2>3. assignments[r][c][i] # False
    BY <2>2, QuietAgrees, TruthParts
  <2>4. ASSUME NEW x \in Entry, x[1] = r, x[2] = c \/ x[3] = i, IsTrue(x[1], x[2], x[3])
        PROVE  FALSE
    <3>1. CASE x \in Observed
      <4>1. PICK g \in Groups : e \in g /\ x \in g
        <5>1. CASE x[2] = c
          BY <2>1, <2>4, <3>1, <5>1, ProperObserved
        <5>2. CASE x[3] = i
          BY <2>1, <2>4, <3>1, <5>2, ProperObserved
        <5> QED BY <2>4, <5>1, <5>2
      <4>2. val[x] # True
        BY <1>0, <2>2, <4>1, SettledGroup
      <4> QED BY <2>4, <3>1, <4>2, TrueIsTrue
    <3>2. CASE x \notin Observed
      <4>1. OnDiag(x[1], x[2]) /\ x[3] = Diag[x[1]]
        BY <2>4, <3>2, TruthParts DEF JInv, RowsInv, UnobservedKept, IsTrue, InitAssignment
      <4> QED BY <1>0, <2>4, <4>1 DEF OnDiag, ValuesOf
    <3> QED BY <3>1, <3>2
  <2>5. ASSUME NEW j \in Val, IsTrue(r, j, i)
        PROVE  FALSE
    <3>1. PICK x : x = <<r, j, i>>
      OBVIOUS
    <3>2. x \in Entry /\ x[1] = r /\ x[2] = j /\ x[3] = i
      BY <2>2, <3>1, EntryParts
    <3> QED BY <2>4, <2>5, <3>2
  <2>6. ASSUME NEW j \in Val, IsTrue(r, c, j)
        PROVE  FALSE
    <3>1. PICK x : x = <<r, c, j>>
      OBVIOUS
    <3>2. x \in Entry /\ x[1] = r /\ x[2] = c /\ x[3] = j
      BY <1>0, <3>1, EntryParts
    <3> QED BY <2>4, <2>6, <3>2
  <2> QED BY <1>0, <2>2, <2>3, <2>5, <2>6 DEF JInv, RowsInv, DomainsReasoned
<1> SUFFICES ASSUME k # m
             PROVE  FALSE
  OBVIOUS
<1>3. val[<<r, c, k>>] = Unknown /\ val[<<r, c, m>>] = Unknown
  <2>1. <<r, c, k>> \in Observed /\ <<r, c, m>> \in Observed
    BY ProperObserved
  <2>2. val[<<r, c, k>>] \in Truth /\ val[<<r, c, m>>] \in Truth
    BY <1>0, <2>1 DEF TypeOK
  <2> QED BY <1>1, <2>2 DEF Left, Truth, Polarity
<1> DEFINE D == bitdomains[r][c]
<1>4. k \in D /\ m \in D
  BY <1>2, <1>3
<1>5. D \in SUBSET Val
  BY <1>0 DEF TypeOK
<1>6. ~(Cardinality(D) > 1)
  <2>1. PICK rc : rc = <<r, c>>
    OBVIOUS
  <2>2. rc \in Rows \X Val /\ rc[1] = r /\ rc[2] = c
    BY <1>0, <2>1
  <2> QED BY <1>0, <2>2 DEF OpenCells
<1> HIDE DEF D
<1>7. IsFiniteSet(D)
  BY <1>5, ValFinite
<1> QED BY <1>4, <1>6, <1>7, TwoMembers

\* Then no literal is left: each value of the row has a cell of its own, so a
\* value with two cells left would need one of another value.
LEMMA NothingLeft ==
  ASSUME IInv, JInv, Quiet, OpenCells = {}, NEW e \in Observed
  PROVE  val[e] # Unknown
<1> SUFFICES ASSUME val[e] = Unknown
             PROVE  FALSE
  OBVIOUS
<1>0. TypeOK /\ ~Conflict /\ Propagated
  BY DEF JInv, Settled, Quiet, IInv, TrailInv
<1> DEFINE r == e[1]
           C == CellsOf(r)
           K == ValuesOf(r)
<1>1. e[1] \in Rows /\ e[2] \in C /\ e[3] \in Val /\ e = <<e[1], e[2], e[3]>>
  BY EntryParts DEF CellsOf, Observed
\* an open literal whose value has a group
<1>2. PICK x \in Observed : x[1] = r /\ x[2] \in C /\ x[3] \in K /\ val[x] = Unknown
  <2>1. CASE e[3] \in K
    BY <1>1, <2>1
  <2>2. CASE e[3] \notin K
    <3>1. DiagPart /\ e[3] = Diag[r]
      BY <1>1, <2>2 DEF ValuesOf
    <3>2. PICK g \in Groups : e \in g /\ \A y \in Observed : y \in g <=> y[1] = e[1] /\ y[2] = e[2]
      BY CommonGroup
    <3>3. PICK y \in g \ {e} : val[y] = Unknown
      BY <1>0, <3>2, SettledGroup
    <3>4. y \in Observed /\ y[1] = r /\ y[2] = e[2] /\ y[3] \in Val /\ y = <<y[1], y[2], y[3]>>
      BY <3>2, <3>3, EntryParts
    <3>5. y[3] # e[3]
      BY <1>1, <3>3, <3>4
    <3> QED BY <1>1, <3>1, <3>3, <3>4, <3>5 DEF ValuesOf
  <2> QED BY <2>1, <2>2
<1>3. PICK k0 \in K, c0 \in C : x = <<r, c0, k0>>
  BY <1>2, EntryParts
<1> HIDE DEF r, C, K
\* every value of the row has a cell left
<1>4. ASSUME NEW k \in K
      PROVE  \E c \in C : Left(r, c, k)
  <2>1. PICK g \in Groups : /\ <<r, c0, k>> \in g
                            /\ \A y \in Observed : y \in g <=> y[1] = r /\ y[3] = k
    BY <1>1, <1>3, ProperObserved DEF r, C, K
  <2>2. PICK y \in g : val[y] # False
    BY <1>0, <2>1, SettledGroup
  <2>3. y \in Observed /\ y = <<r, y[2], k>> /\ y[2] \in C
    <3>1. y \in Observed
      BY EntryParts
    <3>2. /\ y[1] = r /\ y[3] = k /\ y[2] \in Val /\ y = <<y[1], y[2], y[3]>>
          /\ DiagPart => y[1] # y[2]
      BY <2>1, <3>1, EntryParts DEF Observed
    <3> QED BY <3>1, <3>2 DEF C, CellsOf
  <2> QED BY <2>2, <2>3 DEF Left
\* the value k0 has two
<1>5. PICK c1 \in C : c1 # c0 /\ Left(r, c1, k0)
  <2>1. PICK g \in Groups : x \in g /\ \A y \in Observed : y \in g <=> y[1] = r /\ y[3] = k0
    BY <1>1, <1>3, ProperObserved DEF r, C, K
  <2>2. PICK y \in g \ {x} : val[y] = Unknown
    BY <1>0, <1>2, <2>1, SettledGroup
  <2>3. y \in Observed /\ y = <<r, y[2], k0>> /\ y[2] \in C
    <3>1. y \in Observed
      BY EntryParts
    <3>2. /\ y[1] = r /\ y[3] = k0 /\ y[2] \in Val /\ y = <<y[1], y[2], y[3]>>
          /\ DiagPart => y[1] # y[2]
      BY <2>1, <3>1, EntryParts DEF Observed
    <3> QED BY <3>1, <3>2 DEF C, CellsOf
  <2>4. y[2] # c0
    BY <1>3, <2>2, <2>3
  <2> QED BY <2>2, <2>3, <2>4, TruthParts DEF Left
<1>6. Left(r, c0, k0)
  BY <1>2, <1>3, TruthParts DEF Left
<1>7. \A c \in C : \A k, m \in K : Left(r, c, k) /\ Left(r, c, m) => k = m
  BY <1>1, OneValueLeft DEF r, C, K
<1> DEFINE f == [k \in K |-> IF k = k0 THEN c0 ELSE CHOOSE c \in C : Left(r, c, k)]
<1>8. f \in [K -> C] /\ \A k \in K : Left(r, f[k], k)
  BY <1>3, <1>4, <1>6
<1>9. f[k0] = c0
  BY <1>3
<1> HIDE DEF f
<1>10. f \in Injection(K, C)
  BY <1>7, <1>8 DEF Injection, IsInjective
<1>11. f \in Surjection(K, C)
  BY <1>1, <1>10, SameNumber, FS_Injection DEF r, K, C
<1>12. PICK k \in K : f[k] = c1
  BY <1>5, <1>11 DEF Surjection
<1>13. k = k0
  BY <1>3, <1>5, <1>7, <1>8, <1>12
<1> QED BY <1>5, <1>9, <1>12, <1>13

\* cb_decide proposes an unassigned variable whenever one is left: CaDiCaL decides
\* on an observed variable by itself only if the observer was not told of a root
\* literal of the cell.
THEOREM DecisionIsOpen == Spec => []DecisionOpen
<1>1. ASSUME IInv, JInv, Quiet
      PROVE  /\ \A e \in cb_decide : e \in ask_decision \/ Cell(e[1], e[2]) \cap Unheard # {}
             /\ cb_decide = {} => \A e \in Observed : val[e] # Unknown
  <2>1. cb_decide = {} => OpenCells = {}
    BY <1>1, OpenIsProposed DEF IInv, TrailInv
  <2> QED BY <1>1, <2>1, ProposedIsOpen, NothingLeft
<1>2. IInv /\ JInv => DecisionOpen
  BY <1>1 DEF DecisionOpen
<1> QED BY <1>2, ObserverInvariance, PTL
=============================================================================
