---------------------------- MODULE DomainProofs ----------------------------
(***************************************************************************)
(* The caches of bitdomain_t are right for every problem_size, and the     *)
(* matrix of domains in one vector implements it in its cells: the chunks  *)
(* of two cells do not meet, so an operation on a cell is one of           *)
(* bitdomain_t on its own words and nothing to all the others.             *)
(***************************************************************************)
EXTENDS BitDomain, FlatDomains, FiniteSetTheorems, WellFoundedInduction, TLAPS

\* Every non-empty set of naturals has a least element.
LEMMA LeastNat ==
  ASSUME NEW T \in SUBSET Nat, T # {}
  PROVE  \E x \in T : \A y \in T : x <= y
<1> DEFINE R == OpToRel(<, Nat)
<1>1. IsWellFoundedOn(R, Nat)
  BY NatLessThanWellFounded
<1>2. PICK x \in T : \A y \in T : ~ (<<y, x>> \in R)
  <2> HIDE DEF R
  <2> QED BY <1>1, WFMin, Zenon
<1>3. ASSUME NEW y \in T
      PROVE  x <= y
  <2>1. ~ (<<y, x>> \in R)
    BY <1>2
  <2>2. x \in Nat /\ y \in Nat
    OBVIOUS
  <2>3. ~ (y < x)
    BY <2>1, <2>2 DEF OpToRel
  <2> QED BY <2>2, <2>3
<1> QED BY <1>3

-----------------------------------------------------------------------------
(* One domain: the invariant is inductive as it stands, since each cache   *)
(* is updated from the bits alone.                                         *)

DomainInv == TypeOK /\ FirstelIsLeast /\ NumTrueCounts

\* The scan of reset(n) finds the least element above n, if there is one.
LEMMA NextAfterIsLeast ==
  ASSUME NEW n \in Val, NEW S \in SUBSET Val, \A m \in S : m > n
  PROVE  IF S = {} THEN NextAfter(n, S) = NoElement
                   ELSE IsLeast(NextAfter(n, S), S)
<1> Val \subseteq Nat
  BY NAssumption DEF Val
<1>1. {i \in S : i > n} = S
  OBVIOUS
<1>2. ASSUME S # {}
      PROVE  IsLeast(NextAfter(n, S), S)
  <2>1. \E m \in S : IsLeast(m, S)
    BY <1>2, LeastNat DEF IsLeast
  <2>2. \E m \in S : m > n
    BY <1>2
  <2>3. NextAfter(n, S) = CHOOSE m \in S : IsLeast(m, S)
    BY <1>1, <2>2 DEF NextAfter
  <2> QED BY <2>1, <2>3
<1> QED BY <1>2 DEF NextAfter

LEMMA ValFinite == IsFiniteSet(Val) /\ Cardinality(Val) = N
BY NAssumption, FS_Interval DEF Val

LEMMA InitDomainInv == Init => DomainInv
<1> SUFFICES ASSUME Init
             PROVE  DomainInv
  OBVIOUS
<1>1. CASE dom = Val /\ firstel = 0 /\ numTrue = N
  <2>1. 0 \in Val /\ \A m \in Val : 0 <= m
    BY NAssumption DEF Val
  <2> QED BY <1>1, <2>1, ValFinite, NAssumption
          DEF DomainInv, TypeOK, FirstelIsLeast, NumTrueCounts, IsLeast
<1>2. CASE dom = {} /\ firstel = NoElement /\ numTrue = 0
  BY <1>2, FS_EmptySet, NAssumption DEF DomainInv, TypeOK, FirstelIsLeast, NumTrueCounts
<1> QED BY <1>1, <1>2 DEF Init

LEMMA StepDomainInv == DomainInv /\ [Next]_vars => DomainInv'
<1> SUFFICES ASSUME DomainInv, [Next]_vars
             PROVE  DomainInv'
  OBVIOUS
<1> USE NAssumption DEF DomainInv
<1>0. /\ IsFiniteSet(dom)
      /\ \A S \in SUBSET Val : IsFiniteSet(S) /\ Cardinality(S) \in 0 .. N
  BY ValFinite, FS_Subset, FS_CardinalityType DEF TypeOK
<1>1. ASSUME NEW n \in Val, SetBit(n)
      PROVE  DomainInv'
  <2>1. dom' \in SUBSET Val /\ dom' # {}
    BY <1>1 DEF SetBit, TypeOK
  <2>2. NumTrueCounts'
    BY <1>0, <1>1, FS_AddElement DEF SetBit, NumTrueCounts
  <2>3. FirstelIsLeast'
    <3>1. IsLeast(firstel', dom')
      <4>1. CASE dom = {}
        BY <1>1, <4>1 DEF SetBit, FirstelIsLeast, IsLeast, Val
      <4>2. CASE dom # {}
        BY <1>1, <4>2 DEF SetBit, FirstelIsLeast, IsLeast, Val, NoElement, TypeOK
      <4> QED BY <4>1, <4>2
    <3> QED BY <2>1, <3>1 DEF FirstelIsLeast, IsLeast
  <2>4. TypeOK'
    <3>1. numTrue' \in 0 .. N
      BY <1>0, <2>1, <2>2 DEF NumTrueCounts
    <3> QED BY <1>1, <2>1, <3>1 DEF SetBit, TypeOK
  <2> QED BY <2>2, <2>3, <2>4
<1>2. ASSUME NEW n \in Val, ResetBit(n)
      PROVE  DomainInv'
  <2>1. dom' \in SUBSET Val
    BY <1>2 DEF ResetBit, TypeOK
  <2>2. NumTrueCounts'
    BY <1>0, <1>2, FS_RemoveElement DEF ResetBit, NumTrueCounts
  <2>3. FirstelIsLeast' /\ firstel' \in Val \cup {NoElement}
    <3>1. CASE n = firstel
      <4>1. \A m \in dom' : m > n
        BY <1>2, <3>1 DEF ResetBit, FirstelIsLeast, IsLeast, TypeOK, Val
      <4>2. firstel' = NextAfter(n, dom')
        BY <1>2, <3>1 DEF ResetBit
      <4>3. IF dom' = {} THEN firstel' = NoElement ELSE IsLeast(firstel', dom')
        BY <2>1, <4>1, <4>2, NextAfterIsLeast
      <4> QED BY <2>1, <4>3 DEF FirstelIsLeast, IsLeast
    <3>2. CASE n # firstel
      BY <1>2, <3>2 DEF ResetBit, FirstelIsLeast, IsLeast, TypeOK
    <3> QED BY <3>1, <3>2
  <2>4. TypeOK'
    <3>1. numTrue' \in 0 .. N
      BY <1>0, <2>1, <2>2 DEF NumTrueCounts
    <3> QED BY <2>1, <2>3, <3>1 DEF TypeOK
  <2> QED BY <2>2, <2>3, <2>4
<1>3. CASE SetAll
  <2>1. 0 \in Val /\ \A m \in Val : 0 <= m
    BY DEF Val
  <2> QED BY <1>3, <2>1, ValFinite
          DEF SetAll, TypeOK, FirstelIsLeast, NumTrueCounts, IsLeast
<1>4. CASE ResetAll
  BY <1>4, FS_EmptySet DEF ResetAll, TypeOK, FirstelIsLeast, NumTrueCounts
<1>5. CASE UNCHANGED vars
  BY <1>5 DEF vars, TypeOK, FirstelIsLeast, NumTrueCounts, IsLeast
<1> QED BY <1>1, <1>2, <1>3, <1>4, <1>5 DEF Next

\* After any sequence of set and reset the cached firstel is the least member
\* (NoElement for the empty domain) and numTrue the size: cb_decide, preCheck and
\* the minimality check, which read the caches only, see the true domain.
THEOREM CachesCorrect == Spec => [](TypeOK /\ FirstelIsLeast /\ NumTrueCounts)
BY InitDomainInv, StepDomainInv, PTL DEF Spec, DomainInv
-----------------------------------------------------------------------------
(* The matrix in one vector *)

Bits == 0 .. problem_size + 1    \* the words of a chunk
-----------------------------------------------------------------------------
(* Index arithmetic *)

LEMMA Multiples ==
  ASSUME NEW M \in Nat, NEW a \in Nat, NEW b \in Nat, a < b
  PROVE  M * a + M <= M * b
<1>1. PICK d \in Nat : b = a + 1 + d
  <2>1. b - a - 1 \in Nat /\ b = a + 1 + (b - a - 1)
    OBVIOUS
  <2> QED BY <2>1
<1>2. M * d \in Nat
  OBVIOUS
<1>3. M * b = M * a + M + M * d
  BY <1>1
<1>4. M * a \in Nat
  OBVIOUS
<1> QED BY <1>2, <1>3, <1>4

LEMMA MixedRadix ==
  ASSUME NEW M \in Nat, NEW a \in Nat, NEW b \in Nat,
         NEW i \in 0 .. M - 1, NEW j \in 0 .. M - 1, M * a + i = M * b + j
  PROVE  a = b /\ i = j
<1>0. M * a \in Nat /\ M * b \in Nat
  OBVIOUS
<1>1. ~(a < b)
  <2> SUFFICES ASSUME a < b
               PROVE  FALSE
    OBVIOUS
  <2>1. M * a + M <= M * b
    BY Multiples
  <2> QED BY <1>0, <2>1
<1>2. ~(b < a)
  <2> SUFFICES ASSUME b < a
               PROVE  FALSE
    OBVIOUS
  <2>1. M * b + M <= M * a
    BY Multiples
  <2> QED BY <1>0, <2>1
<1>3. a = b
  BY <1>1, <1>2
<1> QED BY <1>0, <1>3

\* Cells are numbered row by row, and a chunk starts at a multiple of its size.
CellNumber(r, c) == Cols * r + c

LEMMA Numbered ==
  ASSUME NEW r \in Row, NEW c \in Col
  PROVE  /\ CellNumber(r, c) \in Nat /\ CellNumber(r, c) < Cols * Rows
         /\ At(r, c) = chunkc * CellNumber(r, c)
         /\ r \in Nat /\ c \in Nat
<1>1. r \in Nat /\ c \in Nat /\ Cols \in Nat /\ Rows \in Nat /\ r < Rows /\ c < Cols
  BY ShapeAssumption DEF Row, Col
<1>2. Cols * r \in Nat /\ Cols * Rows \in Nat
  BY <1>1
<1>3. Cols * r + Cols <= Cols * Rows
  BY <1>1, Multiples
<1>4. chunkc \in Nat
  BY SizeAssumption DEF chunkc
<1>5. \A K \in Nat : Cols * K * r + K * c = K * (Cols * r + c)
  BY <1>1
<1>6. At(r, c) = chunkc * CellNumber(r, c)
  BY <1>4, <1>5 DEF At, chunkr, CellNumber
<1> QED BY <1>1, <1>2, <1>3, <1>6 DEF CellNumber

\* The words of a chunk are in the vector.
LEMMA Within ==
  ASSUME NEW r \in Row, NEW c \in Col
  PROVE  At(r, c) \in Nat /\ \A j \in Bits : At(r, c) + j \in Place
<1>1. /\ CellNumber(r, c) \in Nat /\ CellNumber(r, c) < Cols * Rows
      /\ At(r, c) = chunkc * CellNumber(r, c)
  BY Numbered
<1>2. chunkc \in Nat /\ Cols * Rows \in Nat
  BY SizeAssumption, ShapeAssumption DEF chunkc
<1>3. chunkc * CellNumber(r, c) + chunkc <= chunkc * (Cols * Rows)
  BY <1>1, <1>2, Multiples
<1>4. chunkr * Rows = chunkc * (Cols * Rows)
  BY <1>2, ShapeAssumption DEF chunkr
<1>5. chunkc * CellNumber(r, c) \in Nat /\ chunkc * (Cols * Rows) \in Nat
  BY <1>1, <1>2
<1>6. chunkc = problem_size + 2
  BY DEF chunkc
<1> QED BY <1>1, <1>3, <1>4, <1>5, <1>6, SizeAssumption DEF Place, Bits

\* A word belongs to one cell only.
LEMMA Apart ==
  ASSUME NEW r \in Row, NEW c \in Col, NEW s \in Row, NEW d \in Col,
         NEW i \in Bits, NEW j \in Bits, At(r, c) + i = At(s, d) + j
  PROVE  r = s /\ c = d /\ i = j
<1>1. /\ CellNumber(r, c) \in Nat /\ At(r, c) = chunkc * CellNumber(r, c)
      /\ CellNumber(s, d) \in Nat /\ At(s, d) = chunkc * CellNumber(s, d)
      /\ r \in Nat /\ c \in Nat /\ s \in Nat /\ d \in Nat
  BY Numbered
<1>2. chunkc \in Nat /\ i \in 0 .. chunkc - 1 /\ j \in 0 .. chunkc - 1
  BY SizeAssumption DEF chunkc, Bits
<1>3. CellNumber(r, c) = CellNumber(s, d) /\ i = j
  <2>1. PICK a \in Nat, b \in Nat, M \in Nat :
           a = CellNumber(r, c) /\ b = CellNumber(s, d) /\ M = chunkc
    BY <1>1, <1>2
  <2>2. i \in 0 .. M - 1 /\ j \in 0 .. M - 1 /\ M * a + i = M * b + j
    BY <1>1, <1>2, <2>1
  <2>3. a = b /\ i = j
    BY <2>2, MixedRadix
  <2> QED BY <2>1, <2>3
<1>4. Cols \in Nat /\ c \in 0 .. Cols - 1 /\ d \in 0 .. Cols - 1
  BY ShapeAssumption DEF Col
<1>5. Cols * r + c = Cols * s + d
  BY <1>3 DEF CellNumber
<1>6. r = s /\ c = d
  BY <1>1, <1>4, <1>5, MixedRadix
<1> QED BY <1>3, <1>6
-----------------------------------------------------------------------------
(* What an operation does to one cell *)

Same(r, c) == UNCHANGED <<options(r, c), first(r, c), count(r, c)>>
Sets(r, c, n) ==
  /\ n \notin options(r, c)
  /\ options(r, c)' = options(r, c) \cup {n}
  /\ count(r, c)' = count(r, c) + 1
  /\ first(r, c)' = IF first(r, c) = NoFirst \/ n < first(r, c) THEN n ELSE first(r, c)
Resets(r, c, n) ==
  /\ n \in options(r, c)
  /\ options(r, c)' = options(r, c) \ {n}
  /\ count(r, c)' = count(r, c) - 1
  /\ first(r, c)' = IF n = first(r, c) THEN FirstDomain!NextAfter(n, options(r, c)')
                                       ELSE first(r, c)
Fills(r, c) == options(r, c)' = Member /\ first(r, c)' = 0 /\ count(r, c)' = problem_size
Clears(r, c) == options(r, c)' = {} /\ first(r, c)' = NoFirst /\ count(r, c)' = 0
CellStep(r, c) ==
  \/ Same(r, c) \/ Fills(r, c) \/ Clears(r, c)
  \/ \E n \in Member : Sets(r, c, n) \/ Resets(r, c, n)

\* A cell all of whose words stay is the same.
LEMMA Untouched ==
  ASSUME NEW r \in Row, NEW c \in Col, NEW s \in Row, NEW d \in Col, r # s \/ c # d,
         \A i \in Place : (\A j \in Bits : i # At(r, c) + j) => vec'[i] = vec[i]
  PROVE  Same(s, d)
<1>1. \A i \in Bits : At(s, d) + i \in Place
  BY Within
<1>2. ASSUME NEW i \in Bits
      PROVE  vec'[At(s, d) + i] = vec[At(s, d) + i]
  <2>1. \A j \in Bits : At(s, d) + i # At(r, c) + j
    BY Apart
  <2> QED BY <1>1, <2>1
<1>3. At(s, d) \in Nat /\ 0 \in Bits /\ 1 \in Bits /\ \A n \in Member : 2 + n \in Bits
  BY Within, SizeAssumption DEF Bits, Member
<1>4. At(s, d) + 0 = At(s, d) /\ \A n \in Member : At(s, d) + 2 + n = At(s, d) + (2 + n)
  BY <1>3, SizeAssumption DEF Member
<1>5. \A n \in Member : vec'[At(s, d) + 2 + n] = vec[At(s, d) + 2 + n]
  BY <1>2, <1>3, <1>4
<1>6. vec'[At(s, d)] = vec[At(s, d)] /\ vec'[At(s, d) + 1] = vec[At(s, d) + 1]
  BY <1>2, <1>3, <1>4
<1>7. At(s, d)' = At(s, d) /\ Member' = Member
  BY DEF At, chunkr, chunkc, Member
<1> QED BY <1>5, <1>6, <1>7 DEF Same, options, first, count, IsSet

\* The words of a cell, as the operations address them.
LEMMA Words ==
  ASSUME NEW r \in Row, NEW c \in Col
  PROVE  /\ At(r, c) \in Place /\ At(r, c) + 1 \in Place
         /\ \A n \in Member : At(r, c) + 2 + n \in Place /\ 2 + n \in Bits
         /\ At(r, c) \in Nat /\ Member \in SUBSET Nat /\ 0 \in Bits /\ 1 \in Bits
<1>1. At(r, c) \in Nat /\ \A j \in Bits : At(r, c) + j \in Place
  BY Within
<1>2. 0 \in Bits /\ 1 \in Bits /\ Member \in SUBSET Nat /\ \A n \in Member : 2 + n \in Bits
  BY SizeAssumption DEF Bits, Member
<1>3. At(r, c) + 0 = At(r, c) /\ \A n \in Member : At(r, c) + 2 + n = At(r, c) + (2 + n)
  BY <1>1, <1>2
<1> QED BY <1>1, <1>2, <1>3

LEMMA SetValueStep ==
  ASSUME vec \in [Place -> Int],
         NEW r \in Row, NEW c \in Col, NEW n \in Member, setValue(r, c, n)
  PROVE  Sets(r, c, n) /\ \A s \in Row, d \in Col : r # s \/ c # d => Same(s, d)
<1>1. PICK at \in Nat : at = At(r, c)
  BY Words
<1>2. /\ at \in Place /\ at + 1 \in Place /\ n \in Nat /\ 2 + n \in Bits
      /\ 0 \in Bits /\ 1 \in Bits
      /\ \A m \in Member : m \in Nat /\ at + 2 + m \in Place
  BY <1>1, Words
<1>3. vec' = [vec EXCEPT ![at + 2 + n] = 1, ![at + 1] = @ + 1,
                         ![at] = IF @ = NoFirst \/ n < @ THEN n ELSE @]
  BY <1>1 DEF setValue
<1>4. /\ at + 2 + n # at + 1 /\ at + 2 + n # at /\ at + 1 # at
      /\ \A m \in Member : at + 2 + m # at + 1 /\ at + 2 + m # at
      /\ \A m \in Member : m # n => at + 2 + m # at + 2 + n
  BY <1>2
<1>5. /\ vec'[at + 2 + n] = 1 /\ vec'[at + 1] = vec[at + 1] + 1
      /\ vec'[at] = IF vec[at] = NoFirst \/ n < vec[at] THEN n ELSE vec[at]
      /\ \A m \in Member : m # n => vec'[at + 2 + m] = vec[at + 2 + m]
  BY <1>2, <1>3, <1>4
<1>6. At(r, c)' = at /\ Member' = Member
  BY <1>1 DEF At, chunkr, chunkc, Member
<1>7. Sets(r, c, n)
  <2>1. n \notin options(r, c)
    BY <1>1 DEF setValue, options, IsSet
  <2>2. \A m \in Member : m \in options(r, c)' <=> m \in options(r, c) \/ m = n
    BY <1>1, <1>5, <1>6 DEF options, IsSet
  <2>3. options(r, c)' \subseteq Member /\ options(r, c) \subseteq Member
    BY <1>6 DEF options
  <2>4. options(r, c)' = options(r, c) \cup {n}
    BY <2>2, <2>3
  <2> QED BY <1>1, <1>5, <1>6, <2>1, <2>4 DEF Sets, first, count
<1>8. \A i \in Place : (\A j \in Bits : i # At(r, c) + j) => vec'[i] = vec[i]
  <2> SUFFICES ASSUME NEW i \in Place, \A j \in Bits : i # at + j
               PROVE  vec'[i] = vec[i]
    BY <1>1
  <2>1. i # at + 0 /\ i # at + 1 /\ i # at + (2 + n)
    BY <1>2
  <2>2. i # at /\ i # at + 1 /\ i # at + 2 + n
    BY <1>2, <2>1
  <2> QED BY <1>3, <2>2
<1> QED BY <1>7, <1>8, Untouched

\* The scan of reset takes the least value above the one removed.
LEMMA ScanIsNextAfter ==
  ASSUME NEW n \in Member, NEW S \in SUBSET Member, NEW T \in SUBSET Member,
         T = {m \in S : m > n}
  PROVE  FirstDomain!NextAfter(n, S) =
           IF T # {} THEN CHOOSE m \in T : \A j \in T : m <= j ELSE NoFirst
<1>1. CASE T = {}
  BY <1>1 DEF FirstDomain!NextAfter, FirstDomain!NoElement, NoFirst
<1>2. CASE T # {}
  <2>1. T \in SUBSET Nat /\ Member \in SUBSET Nat
    BY SizeAssumption DEF Member
  <2>2. PICK x \in T : \A y \in T : x <= y
    BY <1>2, <2>1, LeastNat
  <2>3. x \in S /\ FirstDomain!IsLeast(x, T)
    BY <2>2 DEF FirstDomain!IsLeast
  <2>4. \A y \in S : FirstDomain!IsLeast(y, T) => y = x
    BY <2>1, <2>2 DEF FirstDomain!IsLeast
  <2>5. (CHOOSE m \in S : FirstDomain!IsLeast(m, T)) = x
    BY <2>3, <2>4
  <2>6. \A y \in T : (\A j \in T : y <= j) => y = x
    BY <2>1, <2>2
  <2>7. (CHOOSE m \in T : \A j \in T : m <= j) = x
    BY <2>2, <2>6
  <2>8. FirstDomain!NextAfter(n, S) = CHOOSE m \in S : FirstDomain!IsLeast(m, T)
    BY <1>2 DEF FirstDomain!NextAfter
  <2> QED BY <1>2, <2>5, <2>7, <2>8
<1> QED BY <1>1, <1>2

LEMMA ResetValueStep ==
  ASSUME vec \in [Place -> Int],
         NEW r \in Row, NEW c \in Col, NEW n \in Member, resetValue(r, c, n)
  PROVE  /\ Resets(r, c, n)
         /\ first(r, c)' \in Member \cup {NoFirst, first(r, c)}
         /\ \A s \in Row, d \in Col : r # s \/ c # d => Same(s, d)
<1> DEFINE above == {i \in Member : i > n /\ IsSet(r, c, i)}
           least == IF above # {} THEN CHOOSE i \in above : \A j \in above : i <= j
                                  ELSE NoFirst
<1>1. PICK at \in Nat : at = At(r, c)
  BY Words
<1>2. /\ at \in Place /\ at + 1 \in Place /\ n \in Nat /\ 2 + n \in Bits
      /\ 0 \in Bits /\ 1 \in Bits
      /\ \A m \in Member : m \in Nat /\ at + 2 + m \in Place
  BY <1>1, Words
<1>3. vec' = [vec EXCEPT ![at + 2 + n] = 0, ![at + 1] = @ - 1,
                         ![at] = IF @ # n THEN @ ELSE least]
  BY <1>1 DEF resetValue
<1> HIDE DEF least
<1>4. /\ at + 2 + n # at + 1 /\ at + 2 + n # at /\ at + 1 # at
      /\ \A m \in Member : at + 2 + m # at + 1 /\ at + 2 + m # at
      /\ \A m \in Member : m # n => at + 2 + m # at + 2 + n
  BY <1>2
<1>5. /\ vec'[at + 2 + n] = 0 /\ vec'[at + 1] = vec[at + 1] - 1
      /\ vec'[at] = IF vec[at] # n THEN vec[at] ELSE least
      /\ \A m \in Member : m # n => vec'[at + 2 + m] = vec[at + 2 + m]
  BY <1>2, <1>3, <1>4
<1>6. At(r, c)' = at /\ Member' = Member
  BY <1>1 DEF At, chunkr, chunkc, Member
<1>7. /\ n \in options(r, c)
      /\ options(r, c)' = options(r, c) \ {n}
  <2>1. n \in options(r, c)
    BY <1>1 DEF resetValue, options, IsSet
  <2>2. \A m \in Member : m \in options(r, c)' <=> m \in options(r, c) /\ m # n
    BY <1>1, <1>5, <1>6 DEF options, IsSet
  <2>3. options(r, c)' \subseteq Member /\ options(r, c) \subseteq Member
    BY <1>6 DEF options
  <2> QED BY <2>1, <2>2, <2>3
<1>8. least = FirstDomain!NextAfter(n, options(r, c)')
  <2>1. options(r, c) \subseteq Member
    BY DEF options
  <2>2. PICK S \in SUBSET Member : S = options(r, c)'
    BY <1>7, <2>1
  <2>3. above = {m \in S : m > n}
    BY <1>2, <1>7, <2>1, <2>2 DEF options
  <2>4. above \in SUBSET Member
    OBVIOUS
  <2> HIDE DEF above
  <2> QED BY <2>2, <2>3, <2>4, ScanIsNextAfter DEF least
<1>9. Resets(r, c, n)
  BY <1>1, <1>5, <1>6, <1>7, <1>8 DEF Resets, first, count
<1>10. first(r, c)' \in Member \cup {NoFirst, first(r, c)}
  <2>1. least \in Member \cup {NoFirst}
    <3>1. CASE above = {}
      BY <3>1 DEF least
    <3>2. CASE above # {}
      <4>1. above \in SUBSET Nat /\ above \in SUBSET Member
        BY <1>2
      <4>2. \E x \in above : \A y \in above : x <= y
        <5> HIDE DEF above
        <5> QED BY <3>2, <4>1, LeastNat
      <4>3. least \in above
        <5> HIDE DEF above
        <5> QED BY <3>2, <4>2 DEF least
      <4> QED BY <4>1, <4>3
    <3> QED BY <3>1, <3>2
  <2> QED BY <1>1, <1>5, <1>6, <2>1 DEF first
<1>11. \A i \in Place : (\A j \in Bits : i # At(r, c) + j) => vec'[i] = vec[i]
  <2> SUFFICES ASSUME NEW i \in Place, \A j \in Bits : i # at + j
               PROVE  vec'[i] = vec[i]
    BY <1>1
  <2>1. i # at + 0 /\ i # at + 1 /\ i # at + (2 + n)
    BY <1>2
  <2>2. i # at /\ i # at + 1 /\ i # at + 2 + n
    BY <1>2, <2>1
  <2> QED BY <1>3, <2>2
<1> QED BY <1>9, <1>10, <1>11, Untouched

\* The loop of set(r, c) and reset(r, c) writes the words of the cell.
LEMMA FillStep ==
  ASSUME vec \in [Place -> Int], NEW r \in Row, NEW c \in Col, NEW least, NEW size,
         NEW word, FillCell(r, c, word, least, size)
  PROVE  /\ options(r, c)' = {n \in Member : word = 1}
         /\ first(r, c)' = least /\ count(r, c)' = size
         /\ \A s \in Row, d \in Col : r # s \/ c # d => Same(s, d)
<1>1. PICK at \in Nat : at = At(r, c)
  BY Words
<1>2. /\ at \in Place /\ at + 1 \in Place
      /\ \A m \in Member : m \in 0 .. problem_size - 1 /\ at + 2 + m \in Place
  BY <1>1, Words DEF Member
<1>3. chunkr * r + chunkc * (c + 1) - 1 = at + problem_size + 1
  <2>1. r \in Nat /\ c \in Nat
    BY Numbered
  <2>2. chunkr * r \in Nat /\ chunkc * (c + 1) = chunkc * c + (problem_size + 2) /\ chunkc * c \in Nat
    BY <2>1, SizeAssumption, ShapeAssumption DEF chunkr, chunkc
  <2> QED BY <1>1, <2>2, SizeAssumption DEF At
<1>4. vec' = [i \in Place |->
                CASE i \in (at + 2) .. (at + problem_size + 1) -> word
                  [] i = at -> least
                  [] i = at + 1 -> size
                  [] OTHER -> vec[i]]
  BY <1>1, <1>3 DEF FillCell
<1>5. /\ at \notin (at + 2) .. (at + problem_size + 1)
      /\ at + 1 \notin (at + 2) .. (at + problem_size + 1)
      /\ \A m \in Member : at + 2 + m \in (at + 2) .. (at + problem_size + 1)
  BY <1>2, SizeAssumption DEF Member
<1>6. /\ vec'[at] = least /\ vec'[at + 1] = size
      /\ \A m \in Member : vec'[at + 2 + m] = word
  BY <1>2, <1>4, <1>5
<1>7. At(r, c)' = at /\ Member' = Member
  BY <1>1 DEF At, chunkr, chunkc, Member
<1>8. options(r, c)' = {n \in Member : word = 1}
  BY <1>6, <1>7 DEF options, IsSet
<1>9. first(r, c)' = least /\ count(r, c)' = size
  BY <1>6, <1>7 DEF first, count
<1>10. \A i \in Place : (\A j \in Bits : i # At(r, c) + j) => vec'[i] = vec[i]
  <2> SUFFICES ASSUME NEW i \in Place, \A j \in Bits : i # at + j
               PROVE  vec'[i] = vec[i]
    BY <1>1
  <2>1. 0 \in Bits /\ 1 \in Bits
    BY SizeAssumption DEF Bits
  <2>2. i # at /\ i # at + 1
    BY <2>1
  <2>3. i \notin (at + 2) .. (at + problem_size + 1)
    <3> SUFFICES ASSUME i \in (at + 2) .. (at + problem_size + 1)
                 PROVE  FALSE
      OBVIOUS
    <3>1. i - at \in Bits /\ i = at + (i - at)
      BY SizeAssumption DEF Bits
    <3> QED BY <3>1
  <2> QED BY <1>4, <2>2, <2>3
<1> QED BY <1>8, <1>9, <1>10, Untouched

\* A vector filled anew has the same words in every cell.
LEMMA FilledWords ==
  ASSUME NEW word, NEW least, NEW size, NEW r \in Row, NEW c \in Col
  PROVE  /\ Filled(word, least, size)[At(r, c)] = least
         /\ Filled(word, least, size)[At(r, c) + 1] = size
         /\ \A n \in Member : Filled(word, least, size)[At(r, c) + 2 + n] = word
<1>1. PICK at \in Nat : at = At(r, c)
  BY Words
<1>2. /\ at \in Place /\ at + 1 \in Place /\ 0 \in Bits /\ 1 \in Bits
      /\ \A n \in Member : at + 2 + n \in Place /\ 2 + n \in Bits /\ n \in Nat
  BY <1>1, Words
<1>3. ASSUME NEW s \in Row, NEW d \in Col
      PROVE  /\ at + 1 # At(s, d) /\ at # At(s, d) + 1
             /\ \A n \in Member : at + 2 + n # At(s, d) /\ at + 2 + n # At(s, d) + 1
  <2>1. At(s, d) \in Nat
    BY Words
  <2>2. \A i, j \in Bits : at + i = At(s, d) + j => i = j
    BY <1>1, Apart
  <2>3. at + 1 # At(s, d) + 0 /\ at + 0 # At(s, d) + 1
    BY <1>2, <2>2
  <2>4. \A n \in Member : at + (2 + n) # At(s, d) + 0 /\ at + (2 + n) # At(s, d) + 1
    BY <1>2, <2>2
  <2> QED BY <1>2, <2>1, <2>3, <2>4
<1>4. Filled(word, least, size)[at] = least
  BY <1>1, <1>2, <1>3 DEF Filled
<1>5. Filled(word, least, size)[at + 1] = size
  BY <1>1, <1>2, <1>3 DEF Filled
<1>6. \A n \in Member : Filled(word, least, size)[at + 2 + n] = word
  BY <1>2, <1>3 DEF Filled
<1> QED BY <1>1, <1>4, <1>5, <1>6

LEMMA RefillStep ==
  ASSUME NEW word, NEW least, NEW size, vec' = Filled(word, least, size),
         NEW r \in Row, NEW c \in Col
  PROVE  /\ options(r, c)' = {n \in Member : word = 1}
         /\ first(r, c)' = least /\ count(r, c)' = size
<1>1. /\ vec'[At(r, c)] = least /\ vec'[At(r, c) + 1] = size
      /\ \A n \in Member : vec'[At(r, c) + 2 + n] = word
  BY FilledWords
<1>2. At(r, c)' = At(r, c) /\ Member' = Member
  BY DEF At, chunkr, chunkc, Member
<1> QED BY <1>1, <1>2 DEF options, first, count, IsSet
-----------------------------------------------------------------------------
(* Every cell is a bitdomain_t *)

LEMMA EveryCellSteps ==
  ASSUME VecTypeOK, [VecNext]_vec, NEW s \in Row, NEW d \in Col
  PROVE  CellStep(s, d)
<1>0. vec \in [Place -> Int]
  BY SizeAssumption DEF VecTypeOK, NoFirst
<1>1. CASE set
  <2>1. vec' = Filled(1, 0, problem_size)
    BY <1>1 DEF set, AllSet
  <2>2. options(s, d)' = Member /\ first(s, d)' = 0 /\ count(s, d)' = problem_size
    BY <2>1, RefillStep
  <2> QED BY <2>2 DEF CellStep, Fills
<1>2. CASE reset
  <2>1. vec' = Filled(0, NoFirst, 0)
    BY <1>2 DEF reset, AllClear
  <2>2. options(s, d)' = {} /\ first(s, d)' = NoFirst /\ count(s, d)' = 0
    BY <2>1, RefillStep
  <2> QED BY <2>2 DEF CellStep, Clears
<1>3. ASSUME NEW r \in Row, NEW c \in Col, setCell(r, c)
      PROVE  CellStep(s, d)
  <2>1. FillCell(r, c, 1, 0, problem_size)
    BY <1>3 DEF setCell
  <2>2. /\ options(r, c)' = {n \in Member : 1 = 1}
        /\ first(r, c)' = 0 /\ count(r, c)' = problem_size
        /\ \A x \in Row, y \in Col : r # x \/ c # y => Same(x, y)
    BY <1>0, <2>1, FillStep
  <2>3. options(r, c)' = Member
    BY <2>2
  <2> QED BY <2>2, <2>3 DEF CellStep, Fills
<1>4. ASSUME NEW r \in Row, NEW c \in Col, resetCell(r, c)
      PROVE  CellStep(s, d)
  <2>1. FillCell(r, c, 0, NoFirst, 0)
    BY <1>4 DEF resetCell
  <2>2. /\ options(r, c)' = {n \in Member : 0 = 1}
        /\ first(r, c)' = NoFirst /\ count(r, c)' = 0
        /\ \A x \in Row, y \in Col : r # x \/ c # y => Same(x, y)
    BY <1>0, <2>1, FillStep
  <2>3. options(r, c)' = {}
    BY <2>2
  <2> QED BY <2>2, <2>3 DEF CellStep, Clears
<1>5. ASSUME NEW r \in Row, NEW c \in Col, NEW n \in Member, setValue(r, c, n)
      PROVE  CellStep(s, d)
  <2>1. Sets(r, c, n) /\ (r # s \/ c # d => Same(s, d))
    BY <1>0, <1>5, SetValueStep
  <2> QED BY <2>1 DEF CellStep
<1>6. ASSUME NEW r \in Row, NEW c \in Col, NEW n \in Member, resetValue(r, c, n)
      PROVE  CellStep(s, d)
  <2>1. Resets(r, c, n) /\ (r # s \/ c # d => Same(s, d))
    BY <1>0, <1>6, ResetValueStep
  <2> QED BY <2>1 DEF CellStep
<1>7. CASE vec' = vec
  BY <1>7 DEF CellStep, Same, options, first, count, IsSet, At, chunkr, chunkc, Member
<1> QED BY <1>1, <1>2, <1>3, <1>4, <1>5, <1>6, <1>7 DEF VecNext

\* The caches of one cell.
CellOK(r, c) ==
  /\ count(r, c) = Cardinality(options(r, c))
  /\ IF options(r, c) = {} THEN first(r, c) = NoFirst
     ELSE first(r, c) \in options(r, c) /\ \A e \in options(r, c) : first(r, c) <= e

LEMMA MemberFinite ==
  /\ Member \in SUBSET Nat /\ Cardinality(Member) = problem_size /\ problem_size \in Nat \ {0}
  /\ \A S \in SUBSET Member : IsFiniteSet(S) /\ Cardinality(S) \in 0 .. problem_size
  /\ 0 \in Member /\ \A n \in Member : 0 <= n
<1>1. IsFiniteSet(Member) /\ Cardinality(Member) = problem_size
  BY SizeAssumption, FS_Interval DEF Member
<1>2. \A S \in SUBSET Member : IsFiniteSet(S) /\ Cardinality(S) \in 0 .. problem_size
  BY <1>1, FS_Subset, FS_CardinalityType
<1> QED BY <1>1, <1>2, SizeAssumption DEF Member

AllCellsOK == \A r \in Row, c \in Col : CellOK(r, c)

LEMMA CellsAreOK ==
  CellsConsistent <=> AllCellsOK
<1> SUFFICES ASSUME NEW r \in Row, NEW c \in Col, CellOK(r, c), NEW e \in Member
             PROVE  get(r, c, e) = (e \in options(r, c))
  BY DEF CellsConsistent, AllCellsOK, CellOK
<1>1. options(r, c) \in SUBSET Member /\ (e \in options(r, c) <=> IsSet(r, c, e))
  BY DEF options
<1>2. e \in options(r, c) => count(r, c) # 0
  BY <1>1, MemberFinite, FS_EmptySet DEF CellOK
<1> QED BY <1>1, <1>2 DEF get, none

LEMMA CellsStayOK == CellsConsistent' <=> AllCellsOK'
BY CellsAreOK, PTL

LEMMA CellStepOK ==
  ASSUME NEW r \in Row, NEW c \in Col, CellOK(r, c), CellStep(r, c)
  PROVE  CellOK(r, c)'
<1>0. /\ options(r, c) \in SUBSET Member /\ IsFiniteSet(options(r, c))
      /\ Member \in SUBSET Nat
  BY MemberFinite DEF options
<1>1. CASE Same(r, c)
  BY <1>1 DEF Same, CellOK
<1>2. CASE Fills(r, c)
  <2>1. Cardinality(Member) = problem_size /\ 0 \in Member /\ \A n \in Member : 0 <= n
    BY MemberFinite
  <2>2. Member # {}
    BY <2>1
  <2> QED BY <1>2, <2>1, <2>2 DEF Fills, CellOK
<1>3. CASE Clears(r, c)
  BY <1>3, FS_EmptySet DEF Clears, CellOK, NoFirst
<1>4. ASSUME NEW n \in Member, Sets(r, c, n)
      PROVE  CellOK(r, c)'
  <2>1. Cardinality(options(r, c) \cup {n}) = Cardinality(options(r, c)) + 1
    BY <1>0, <1>4, FS_AddElement DEF Sets
  <2>2. count(r, c)' = Cardinality(options(r, c)')
    BY <1>4, <2>1 DEF Sets, CellOK
  <2>3. options(r, c)' = options(r, c) \cup {n} /\ n \in Nat
    BY <1>0, <1>4 DEF Sets
  <2>4. first(r, c)' \in options(r, c)' /\ \A e \in options(r, c)' : first(r, c)' <= e
    <3>1. CASE options(r, c) = {}
      BY <1>4, <2>3, <3>1 DEF Sets, CellOK
    <3>2. CASE options(r, c) # {}
      <4>1. /\ first(r, c) \in options(r, c) /\ first(r, c) \in Nat
            /\ \A e \in options(r, c) : first(r, c) <= e /\ e \in Nat
        BY <1>0, <3>2 DEF CellOK
      <4>2. first(r, c)' = IF n < first(r, c) THEN n ELSE first(r, c)
        BY <1>4, <4>1 DEF Sets, NoFirst
      <4> QED BY <2>3, <4>1, <4>2
    <3> QED BY <3>1, <3>2
  <2> QED BY <2>2, <2>3, <2>4 DEF CellOK
<1>5. ASSUME NEW n \in Member, Resets(r, c, n)
      PROVE  CellOK(r, c)'
  <2> DEFINE S == options(r, c) \ {n}
  <2>1. Cardinality(S) = Cardinality(options(r, c)) - 1
    BY <1>0, <1>5, FS_RemoveElement DEF Resets
  <2>2. options(r, c)' = S /\ count(r, c)' = Cardinality(S) /\ S \in SUBSET Member
    BY <1>0, <1>5, <2>1 DEF Resets, CellOK
  <2>3. /\ n \in options(r, c) /\ n \in Nat
        /\ first(r, c) \in options(r, c) /\ first(r, c) \in Nat
        /\ \A e \in options(r, c) : first(r, c) <= e /\ e \in Nat
    BY <1>0, <1>5 DEF Resets, CellOK
  <2>4. IF S = {} THEN first(r, c)' = NoFirst
        ELSE first(r, c)' \in S /\ \A e \in S : first(r, c)' <= e
    <3>1. CASE n = first(r, c)
      <4>1. S = {m \in S : m > n}
        <5>1. \A m \in S : m > n
          BY <2>3, <3>1
        <5> HIDE DEF S
        <5> QED BY <5>1
      <4>2. first(r, c)' = FirstDomain!NextAfter(n, S)
        BY <1>5, <2>2, <3>1 DEF Resets
      <4>3. S \in SUBSET Nat
        BY <1>0, <2>2
      <4> HIDE DEF S
      <4>4. first(r, c)' = IF S # {} THEN CHOOSE m \in S : \A j \in S : m <= j ELSE NoFirst
        BY <2>2, <4>1, <4>2, ScanIsNextAfter
      <4>5. S # {} => \E x \in S : \A y \in S : x <= y
        BY <4>3, LeastNat
      <4> QED BY <4>4, <4>5
    <3>2. CASE n # first(r, c)
      <4>1. first(r, c)' = first(r, c)
        BY <1>5, <3>2 DEF Resets
      <4> QED BY <2>3, <3>2, <4>1
    <3> QED BY <3>1, <3>2
  <2> HIDE DEF S
  <2> QED BY <2>2, <2>4 DEF CellOK
<1> QED BY <1>1, <1>2, <1>3, <1>4, <1>5 DEF CellStep
-----------------------------------------------------------------------------
(* The invariant *)

VecInv == VecTypeOK /\ CellsConsistent

LEMMA RefillTyped ==
  ASSUME NEW word \in 0 .. 1, NEW least \in {0, NoFirst}, NEW size \in 0 .. problem_size
  PROVE  Filled(word, least, size) \in [Place -> NoFirst .. problem_size]
<1>1. /\ 0 .. 1 \subseteq NoFirst .. problem_size
      /\ 0 .. problem_size \subseteq NoFirst .. problem_size
      /\ {0, NoFirst} \subseteq NoFirst .. problem_size
  BY SizeAssumption DEF NoFirst
<1>2. \A i \in Place : Filled(word, least, size)[i] \in {word, least, size}
  BY DEF Filled
<1>3. Filled(word, least, size) = [i \in Place |-> Filled(word, least, size)[i]]
  BY DEF Filled
<1> HIDE DEF Filled
<1>4. \A i \in Place : Filled(word, least, size)[i] \in NoFirst .. problem_size
  BY <1>1, <1>2
<1> QED BY <1>3, <1>4

LEMMA InitVecInv == VecInit => VecInv
<1> SUFFICES ASSUME VecInit
             PROVE  VecInv
  OBVIOUS
<1>1. PICK word \in 0 .. 1, least \in {0, NoFirst}, size \in 0 .. problem_size :
        /\ vec = Filled(word, least, size)
        /\ \/ word = 1 /\ least = 0 /\ size = problem_size
           \/ word = 0 /\ least = NoFirst /\ size = 0
  BY SizeAssumption DEF VecInit, AllSet, AllClear
<1>2. VecTypeOK
  BY <1>1, RefillTyped DEF VecTypeOK
<1>3. ASSUME NEW r \in Row, NEW c \in Col
      PROVE  CellOK(r, c)
  <2>1. options(r, c) = {n \in Member : word = 1} /\ first(r, c) = least /\ count(r, c) = size
    BY <1>1, FilledWords DEF options, first, count, IsSet
  <2>2. /\ Cardinality(Member) = problem_size /\ 0 \in Member /\ \A n \in Member : 0 <= n
        /\ Cardinality({}) = 0
    BY MemberFinite, FS_EmptySet
  <2>3. CASE word = 1 /\ least = 0 /\ size = problem_size
    <3>1. options(r, c) = Member /\ Member # {}
      BY <2>1, <2>2, <2>3
    <3> QED BY <2>1, <2>2, <2>3, <3>1 DEF CellOK
  <2>4. CASE word = 0 /\ least = NoFirst /\ size = 0
    <3>1. options(r, c) = {}
      BY <2>1, <2>4
    <3> QED BY <2>1, <2>2, <2>4, <3>1 DEF CellOK
  <2> QED BY <1>1, <2>3, <2>4
<1> QED BY <1>2, <1>3, CellsAreOK DEF VecInv, AllCellsOK

\* An element may be added or removed at a word of the vector only with a
\* count that stays between 0 and problem_size.
LEMMA StepTyped ==
  ASSUME VecInv, [VecNext]_vec, \A r \in Row, c \in Col : CellOK(r, c)'
  PROVE  VecTypeOK'
<1> DEFINE Int01 == NoFirst .. problem_size
<1>0. /\ vec \in [Place -> Int01] /\ vec \in [Place -> Int] /\ Place' = Place
      /\ Member \subseteq Int01 /\ 0 .. problem_size \subseteq Int01 /\ NoFirst \in Int01
      /\ 0 \in Int01 /\ 1 \in Int01
      /\ \A r \in Row, c \in Col : CellOK(r, c)
  BY SizeAssumption, CellsAreOK DEF VecInv, AllCellsOK, VecTypeOK, NoFirst, Member, Place, chunkr, chunkc
<1>1. \A r \in Row, c \in Col : count(r, c)' \in 0 .. problem_size /\ first(r, c) \in Int01
  <2> SUFFICES ASSUME NEW r \in Row, NEW c \in Col
               PROVE  count(r, c)' \in 0 .. problem_size /\ first(r, c) \in Int01
    OBVIOUS
  <2>1. options(r, c)' \in SUBSET Member
    BY DEF options, Member
  <2>2. count(r, c)' \in 0 .. problem_size
    BY <2>1, MemberFinite DEF CellOK
  <2> QED BY <1>0, <2>2, Words DEF first
<1> HIDE DEF Int01
<1>2. CASE set
  BY <1>2, RefillTyped, SizeAssumption DEF set, AllSet, VecTypeOK, Place, chunkr, chunkc, NoFirst
<1>3. CASE reset
  BY <1>3, RefillTyped, SizeAssumption DEF reset, AllClear, VecTypeOK, Place, chunkr, chunkc, NoFirst
<1>4. ASSUME NEW r \in Row, NEW c \in Col, NEW word \in 0 .. 1, NEW least \in {0, NoFirst},
             NEW size \in 0 .. problem_size, FillCell(r, c, word, least, size)
      PROVE  vec' \in [Place -> Int01]
  <2>1. word \in Int01 /\ least \in Int01 /\ size \in Int01 /\ DOMAIN vec = Place
    BY <1>0, <1>4
  <2>2. \A i \in Place : vec'[i] \in {word, least, size, vec[i]}
    BY <1>4, <2>1 DEF FillCell
  <2>3. vec' = [i \in Place |-> vec'[i]]
    BY <1>4, <2>1 DEF FillCell
  <2> QED BY <1>0, <2>1, <2>2, <2>3
<1>5. ASSUME NEW r \in Row, NEW c \in Col, setCell(r, c)
      PROVE  vec' \in [Place -> Int01]
  BY <1>4, <1>5, SizeAssumption DEF setCell
<1>6. ASSUME NEW r \in Row, NEW c \in Col, resetCell(r, c)
      PROVE  vec' \in [Place -> Int01]
  BY <1>4, <1>6, SizeAssumption DEF resetCell
<1>7. ASSUME NEW r \in Row, NEW c \in Col, NEW n \in Member, NEW b \in 0 .. 1, NEW k, NEW f,
             vec' = [vec EXCEPT ![At(r, c) + 2 + n] = b, ![At(r, c) + 1] = k, ![At(r, c)] = f],
             f \in Int01
      PROVE  vec' \in [Place -> Int01]
  <2>1. PICK at \in Nat : at = At(r, c)
    BY Words
  <2>2. at \in Place /\ at + 1 \in Place /\ at + 2 + n \in Place /\ at + 1 # at
    BY <2>1, Words
  <2>3. vec'[at + 1] = k
    BY <1>7, <1>0, <2>1, <2>2
  <2>4. At(r, c)' = at
    BY <2>1 DEF At, chunkr, chunkc
  <2>5. k \in Int01
    BY <1>0, <1>1, <2>3, <2>4 DEF count
  <2>6. b \in Int01
    BY <1>0
  <2> QED BY <1>0, <1>7, <2>1, <2>5, <2>6
<1>8. ASSUME NEW r \in Row, NEW c \in Col, NEW n \in Member, setValue(r, c, n)
      PROVE  vec' \in [Place -> Int01]
  <2>1. PICK f : f = IF first(r, c) = NoFirst \/ n < first(r, c) THEN n ELSE first(r, c)
    OBVIOUS
  <2>2. f \in Int01
    BY <1>0, <1>1, <2>1
  <2>3. Sets(r, c, n)
    BY <1>0, <1>8, SetValueStep
  <2>4. PICK at \in Nat : at = At(r, c)
    BY Words
  <2>5. at \in Place /\ at + 1 \in Place /\ at + 2 + n \in Place /\ at + 1 # at
        /\ at + 2 + n # at /\ at + 2 + n # at + 1
    BY <2>4, Words
  <2>6. vec' = [vec EXCEPT ![at + 2 + n] = 1, ![at + 1] = vec[at + 1] + 1,
                           ![at] = IF vec[at] = NoFirst \/ n < vec[at] THEN n ELSE vec[at]]
    BY <1>8, <1>0, <2>4, <2>5 DEF setValue
  <2>7. PICK k : k = vec[at + 1] + 1
    OBVIOUS
  <2>8. vec' = [vec EXCEPT ![At(r, c) + 2 + n] = 1, ![At(r, c) + 1] = k, ![At(r, c)] = f]
    BY <2>1, <2>4, <2>6, <2>7 DEF first
  <2>9. 1 \in 0 .. 1
    OBVIOUS
  <2> QED BY <1>7, <2>2, <2>8, <2>9
<1>9. ASSUME NEW r \in Row, NEW c \in Col, NEW n \in Member, resetValue(r, c, n)
      PROVE  vec' \in [Place -> Int01]
  <2>1. first(r, c)' \in Member \cup {NoFirst, first(r, c)}
    BY <1>0, <1>9, ResetValueStep
  <2>2. PICK f : f = first(r, c)'
    OBVIOUS
  <2>3. f \in Int01
    BY <1>0, <1>1, <2>1, <2>2
  <2>4. PICK at \in Nat : at = At(r, c)
    BY Words
  <2>5. at \in Place /\ at + 1 \in Place /\ at + 2 + n \in Place /\ at + 1 # at
        /\ at + 2 + n # at /\ at + 2 + n # at + 1
    BY <2>4, Words
  <2>6. PICK g : vec' = [vec EXCEPT ![at + 2 + n] = 0, ![at + 1] = vec[at + 1] - 1, ![at] = g]
    BY <1>9, <1>0, <2>4, <2>5 DEF resetValue
  <2>7. f = g
    <3>1. f = vec'[at]
      BY <2>2, <2>4 DEF first, At, chunkr, chunkc
    <3> QED BY <1>0, <2>5, <2>6, <3>1
  <2>8. PICK k : k = vec[at + 1] - 1
    OBVIOUS
  <2>9. vec' = [vec EXCEPT ![At(r, c) + 2 + n] = 0, ![At(r, c) + 1] = k, ![At(r, c)] = f]
    BY <2>4, <2>6, <2>7, <2>8
  <2>10. 0 \in 0 .. 1
    OBVIOUS
  <2> QED BY <1>7, <2>3, <2>9, <2>10
<1>10. CASE vec' = vec
  BY <1>0, <1>10 DEF VecTypeOK, Int01
<1>11. vec' \in [Place -> Int01] => VecTypeOK'
  BY <1>0 DEF VecTypeOK, Int01, NoFirst
<1> QED BY <1>2, <1>3, <1>5, <1>6, <1>8, <1>9, <1>10, <1>11 DEF VecNext

LEMMA StepVecInv == VecInv /\ [VecNext]_vec => VecInv'
<1> SUFFICES ASSUME VecInv, [VecNext]_vec
             PROVE  VecInv'
  OBVIOUS
<1>1. \A r \in Row, c \in Col : CellStep(r, c) /\ CellOK(r, c)
  BY EveryCellSteps, CellsAreOK DEF VecInv, AllCellsOK
<1>2. \A r \in Row, c \in Col : CellOK(r, c)'
  BY <1>1, CellStepOK
<1>3. VecTypeOK'
  BY <1>2, StepTyped
<1>4. CellsConsistent'
  <2>1. AllCellsOK'
    BY <1>2 DEF AllCellsOK, Row, Col
  <2> QED BY <2>1, CellsStayOK
<1> QED BY <1>3, <1>4 DEF VecInv

\* For every problem size and shape: the first two words of each chunk are the
\* least member and the size of what options lists, whatever was done to the
\* neighbours (bitdomains2_t and bitdomains3_t, set and reset).
THEOREM CellCachesCorrect == VecSpec => [](VecTypeOK /\ CellsConsistent)
BY InitVecInv, StepVecInv, PTL DEF VecSpec, VecInv

\* The first and the last cell implement bitdomain_t: an operation on the
\* vector is an operation of BitDomain on the cells it names, and a stutter on
\* the others.
THEOREM EndCellsAreDomains == VecSpec => CellsAreDomains
<1>1. 0 \in Row /\ 0 \in Col /\ Rows - 1 \in Row /\ Cols - 1 \in Col
  BY ShapeAssumption DEF Row, Col
<1>2. VecInit => FirstDomain!Init /\ LastDomain!Init
  <2> SUFFICES ASSUME VecInit
               PROVE  FirstDomain!Init /\ LastDomain!Init
    OBVIOUS
  <2>1. ASSUME NEW r \in Row, NEW c \in Col
        PROVE  \/ options(r, c) = Member /\ first(r, c) = 0 /\ count(r, c) = problem_size
               \/ options(r, c) = {} /\ first(r, c) = NoFirst /\ count(r, c) = 0
    <3>1. CASE vec = AllSet
      <4>1. vec = Filled(1, 0, problem_size)
        BY <3>1 DEF AllSet
      <4> QED BY <4>1, FilledWords DEF options, first, count, IsSet
    <3>2. CASE vec = AllClear
      <4>1. vec = Filled(0, NoFirst, 0)
        BY <3>2 DEF AllClear
      <4> QED BY <4>1, FilledWords DEF options, first, count, IsSet
    <3> QED BY <3>1, <3>2 DEF VecInit
  <2> QED BY <1>1, <2>1 DEF FirstDomain!Init, LastDomain!Init, FirstDomain!Val, LastDomain!Val,
          Member, FirstDomain!NoElement, LastDomain!NoElement, NoFirst
<1>3. VecInv /\ [VecNext]_vec => [FirstDomain!Next]_(FirstDomain!vars)
  <2> SUFFICES ASSUME VecInv, [VecNext]_vec
               PROVE  [FirstDomain!Next]_(FirstDomain!vars)
    OBVIOUS
  <2>1. CellStep(0, 0)
    BY <1>1, EveryCellSteps DEF VecInv
  <2> QED BY <2>1 DEF CellStep, Same, Fills, Clears, Sets, Resets, FirstDomain!Next,
          FirstDomain!vars, FirstDomain!SetBit, FirstDomain!ResetBit, FirstDomain!SetAll,
          FirstDomain!ResetAll, FirstDomain!Val, Member, FirstDomain!NoElement, NoFirst
<1>4. VecInv /\ [VecNext]_vec => [LastDomain!Next]_(LastDomain!vars)
  <2> SUFFICES ASSUME VecInv, [VecNext]_vec
               PROVE  [LastDomain!Next]_(LastDomain!vars)
    OBVIOUS
  <2>1. CellStep(Rows - 1, Cols - 1)
    BY <1>1, EveryCellSteps DEF VecInv
  <2>2. \A n, S : LastDomain!NextAfter(n, S) = FirstDomain!NextAfter(n, S)
    BY DEF LastDomain!NextAfter, FirstDomain!NextAfter, LastDomain!IsLeast, FirstDomain!IsLeast,
           LastDomain!NoElement, FirstDomain!NoElement
  <2> QED BY <2>1, <2>2 DEF CellStep, Same, Fills, Clears, Sets, Resets, LastDomain!Next,
          LastDomain!vars, LastDomain!SetBit, LastDomain!ResetBit, LastDomain!SetAll,
          LastDomain!ResetAll, LastDomain!Val, Member, LastDomain!NoElement, NoFirst
<1> QED BY <1>2, <1>3, <1>4, InitVecInv, StepVecInv, PTL
        DEF VecSpec, CellsAreDomains, FirstDomain!Spec, LastDomain!Spec
=============================================================================
