------------------------- MODULE PartialPermProofs -------------------------
(***************************************************************************)
(* What the operators of PartialPerm do, for every problem size: the facts *)
(* from which the proofs about the minimality check start.                 *)
(*                                                                         *)
(* The images of pperm_bit are those of a permutation h whose points in F  *)
(* are decided: a point of F has its own image, any other the images of    *)
(* the undecided points of its class.  That is what `element` and `part`   *)
(* of pperm_plain say in another way, and as h is one-to-one a call that   *)
(* takes a possible image away never takes the last one.                   *)
(*                                                                         *)
(* For the diagonals that makeDiagonals builds, both representations are   *)
(* those (As) of one h and F as long as the points of a class are decided  *)
(* in order.  One call of fixAndPropagate exchanges images along a cycle,  *)
(* one point at a time (Chain): in between h does not respect the          *)
(* diagonal, afterwards it does again (ChainCommutes, CallDecides).        *)
(***************************************************************************)
EXTENDS PartialPerm, FiniteSetTheorems, WellFoundedInduction, SequenceTheorems, TLAPS

-----------------------------------------------------------------------------
(* Sets of natural numbers: least and greatest elements, ranks in a finite *)
(* order, and what is obtained by iterating a step.                        *)

\* Every non-empty set of naturals has a least element.
LEMMA LeastNat ==
  ASSUME NEW T \in SUBSET Nat, T # {}
  PROVE  \E x \in T : \A y \in T : x <= y
<1> DEFINE R == OpToRel(<, Nat)
<1>1. IsWellFoundedOn(R, Nat)
  BY NatLessThanWellFounded
<1>2. PICK x \in T : \A y \in T : ~ (<<y, x>> \in R)
  <2> HIDE DEF R
  <2> QED BY <1>1, WFMin, Zenon
<1>3. ASSUME NEW y \in T
      PROVE  x <= y
  <2>1. ~ (<<y, x>> \in R)
    BY <1>2
  <2>2. x \in Nat /\ y \in Nat
    OBVIOUS
  <2>3. ~ (y < x)
    BY <2>1, <2>2 DEF OpToRel
  <2> QED BY <2>2, <2>3
<1> QED BY <1>3

\* Every non-empty bounded set of naturals has a greatest element.
LEMMA GreatestNat ==
  ASSUME NEW T \in SUBSET Nat, T # {}, NEW b \in Nat, \A y \in T : y <= b
  PROVE  \E x \in T : \A y \in T : y <= x
<1> DEFINE D == {d \in 0 .. b : b - d \in T}
<1>1. PICK t \in T : TRUE
  OBVIOUS
<1>2. b - t \in D
  <2>1. t \in 0 .. b
    OBVIOUS
  <2>2. b - t \in 0 .. b /\ b - (b - t) = t
    BY <2>1
  <2> QED BY <2>2
<1>3. PICK d \in D : \A e \in D : d <= e
  <2>1. D \in SUBSET Nat /\ D # {}
    BY <1>2
  <2> HIDE DEF D
  <2> QED BY <2>1, LeastNat
<1>4. ASSUME NEW y \in T
      PROVE  y <= b - d
  <2>1. y \in 0 .. b
    OBVIOUS
  <2>2. b - y \in 0 .. b /\ b - (b - y) = y
    BY <2>1
  <2>3. b - y \in D
    BY <2>2
  <2>4. d <= b - y
    BY <1>3, <2>3
  <2> QED BY <2>1, <2>4
<1> QED BY <1>3, <1>4

\* The rank of an element in a linear order, given by the set B[x] of those
\* before x, numbers a finite set without gaps or repetitions.
Precedes(X, B) ==
  /\ B \in [X -> SUBSET X]
  /\ \A x \in X : x \notin B[x]
  /\ \A x, y \in X : x \in B[y] => B[x] \subseteq B[y]
  /\ \A x, y \in X : x = y \/ x \in B[y] \/ y \in B[x]

Numbers(X, B) ==
  /\ \A x \in X : Cardinality(B[x]) \in 0 .. Cardinality(X) - 1
  /\ \A x, y \in X : Cardinality(B[x]) = Cardinality(B[y]) => x = y
  /\ \A k \in 0 .. Cardinality(X) - 1 : \E x \in X : Cardinality(B[x]) = k

LEMMA RanksNumber ==
  ASSUME NEW X, NEW B, IsFiniteSet(X), Precedes(X, B)
  PROVE  Numbers(X, B)
<1> DEFINE n == Cardinality(X)
           f == [x \in X |-> Cardinality(B[x])]
<1>1. n \in Nat
  BY FS_CardinalityType
<1> USE DEF Precedes
<1>2. ASSUME NEW x \in X
      PROVE  IsFiniteSet(B[x]) /\ Cardinality(B[x]) \in 0 .. n - 1
  <2>1. B[x] \in SUBSET X /\ B[x] # X
    OBVIOUS
  <2>2. IsFiniteSet(B[x]) /\ Cardinality(B[x]) <= n /\ Cardinality(B[x]) # n
    BY <2>1, FS_Subset
  <2>3. Cardinality(B[x]) \in Nat
    BY <2>2, FS_CardinalityType
  <2> QED BY <1>1, <2>2, <2>3
<1>3. ASSUME NEW x \in X, NEW y \in X, x \in B[y]
      PROVE  Cardinality(B[x]) # Cardinality(B[y])
  <2>1. B[x] \in SUBSET B[y] /\ B[x] # B[y]
    BY <1>3
  <2> QED BY <1>2, <2>1, FS_Subset
<1>4. \A x, y \in X : Cardinality(B[x]) = Cardinality(B[y]) => x = y
  BY <1>3
<1>5. f \in Injection(X, 0 .. n - 1)
  BY <1>2, <1>4 DEF Injection, IsInjective
<1>6. IsFiniteSet(0 .. n - 1) /\ Cardinality(0 .. n - 1) = n
  <2>1. 0 \in Int /\ n - 1 \in Int
    BY <1>1
  <2>2. IsFiniteSet(0 .. n - 1)
        /\ Cardinality(0 .. n - 1) = IF 0 > n - 1 THEN 0 ELSE (n - 1) - 0 + 1
    BY <2>1, FS_Interval
  <2> QED BY <1>1, <2>2
<1>7. f \in Surjection(X, 0 .. n - 1)
  <2> HIDE DEF f, n
  <2> QED BY <1>5, <1>6, FS_Injection DEF n
<1>8. \A k \in 0 .. n - 1 : \E x \in X : Cardinality(B[x]) = k
  BY <1>7 DEF Surjection
<1> QED BY <1>2, <1>4, <1>8 DEF Numbers

\* Steps can be iterated: what a function that recurs on its predecessor
\* stands for exists.
Iterated(a, n, G, f) == f[0] = a /\ \A k \in 1 .. n : f[k] = G[k][f[k - 1]]

LEMMA Iterates ==
  ASSUME NEW T, NEW a \in T, NEW n \in Nat, NEW G \in [1 .. n -> [T -> T]]
  PROVE  \E f \in [0 .. n -> T] : Iterated(a, n, G, f)
<1> DEFINE Upto(m, f) == f[0] = a /\ \A k \in 1 .. m : f[k] = G[k][f[k - 1]]
           Bad == {m \in 0 .. n : ~ \E f \in [0 .. m -> T] : Upto(m, f)}
<1>1. Bad = {}
  <2> SUFFICES ASSUME Bad # {}
               PROVE  FALSE
    OBVIOUS
  <2>1. PICK m \in Bad : \A y \in Bad : m <= y
    <3>1. Bad \in SUBSET Nat
      OBVIOUS
    <3> HIDE DEF Bad
    <3> QED BY <3>1, LeastNat
  <2>2. m \in 0 .. n /\ ~ \E f \in [0 .. m -> T] : Upto(m, f)
    OBVIOUS
  <2>3. CASE m = 0
    <3> DEFINE f == [k \in 0 .. 0 |-> a]
    <3>1. f \in [0 .. m -> T] /\ Upto(m, f)
      BY <2>3
    <3> QED BY <2>2, <3>1
  <2>4. CASE m # 0
    <3>1. m \in Nat /\ m - 1 \in 0 .. n
      BY <2>2, <2>4
    <3>2. m - 1 \notin Bad
      <4> HIDE DEF Bad
      <4> QED BY <2>1, <3>1
    <3>3. PICK g \in [0 .. m - 1 -> T] : Upto(m - 1, g)
      <4> HIDE DEF Upto
      <4> QED BY <3>1, <3>2
    <3> DEFINE f == [k \in 0 .. m |-> IF k = m THEN G[m][g[m - 1]] ELSE g[k]]
    <3>4. G[m][g[m - 1]] \in T
      BY <2>2, <2>4
    <3>5. f \in [0 .. m -> T]
      BY <3>4
    <3>6. f[0] = a
      BY <2>2, <2>4, <3>3
    <3>7. ASSUME NEW k \in 1 .. m
          PROVE  f[k] = G[k][f[k - 1]]
      <4>1. k - 1 \in 0 .. m - 1 /\ f[k - 1] = g[k - 1]
        BY <2>2
      <4>2. CASE k = m
        <5>1. f[m] = G[m][g[m - 1]]
          BY <2>2
        <5> HIDE DEF f
        <5> QED BY <4>1, <4>2, <5>1
      <4>3. CASE k # m
        <5>1. k \in 1 .. m - 1 /\ f[k] = g[k]
          BY <4>3, <2>2
        <5> QED BY <3>3, <4>1, <5>1
      <4> QED BY <4>2, <4>3
    <3> HIDE DEF f
    <3> QED BY <2>2, <3>5, <3>6, <3>7
  <2> QED BY <2>3, <2>4
<1>2. n \notin Bad
  BY <1>1
<1> QED BY <1>2 DEF Iterated

\* What holds at the start and is handed on by every step holds throughout.
LEMMA HandedOn ==
  ASSUME NEW T, NEW n \in Nat, NEW f, f[0] \in T,
         \A k \in 1 .. n : f[k - 1] \in T => f[k] \in T
  PROVE  \A k \in 0 .. n : f[k] \in T
<1> DEFINE Bad == {m \in 0 .. n : f[m] \notin T}
<1>1. Bad = {}
  <2> SUFFICES ASSUME Bad # {}
               PROVE  FALSE
    OBVIOUS
  <2>1. PICK m \in Bad : \A y \in Bad : m <= y
    <3>1. Bad \in SUBSET Nat
      OBVIOUS
    <3> HIDE DEF Bad
    <3> QED BY <3>1, LeastNat
  <2>2. m \in 1 .. n /\ f[m] \notin T
    OBVIOUS
  <2>3. m - 1 \in 0 .. n /\ m - 1 \notin Bad
    BY <2>1, <2>2
  <2>4. f[m - 1] \in T
    BY <2>3
  <2> QED BY <2>2, <2>4
<1> QED BY <1>1
-----------------------------------------------------------------------------
(* A permutation of the points.                                            *)
Permutes(h) ==
  /\ h \in [Val -> Val]
  /\ \A x, y \in Val : h[x] = h[y] => x = y
  /\ \A y \in Val : \E x \in Val : h[x] = y

PlainPerms ==
  {p \in [kind : {"plain"}, element : [Val -> Val], part : SUBSET Val] :
     Permutes(p.element) /\ 0 \in p.part}

Images(d, h, F, x) ==
  IF x \in F THEN {h[x]} ELSE {h[y] : y \in ClassOf(d, x) \ F}

BitPerms(d) ==
  {p \in [kind : {"bit"}, info : [Val -> SUBSET Val]] :
     \E h \in [Val -> Val], F \in SUBSET Val :
       Permutes(h) /\ \A x \in Val : p.info[x] = Images(d, h, F, x)}

Perms(d) == PlainPerms \cup BitPerms(d)

(* q has lost nothing of what is fixed in p and has regained no choice.    *)
Keeps(p, q) ==
  /\ q.kind = p.kind
  /\ \A x \in Val : fixed(p, x) => fixed(q, x) /\ permOf(q, x) = permOf(p, x)
  /\ p.kind = "bit" => \A x \in Val : q.info[x] \subseteq p.info[x]

(* What a call of fix may return for p.                                    *)
Results(d, p) == {t \in [perm : Perms(d), ok : BOOLEAN] : Keeps(p, t.perm)}

-----------------------------------------------------------------------------
(* Sets of points.                                                         *)

LEMMA ValFinite == IsFiniteSet(Val) /\ Cardinality(Val) = N /\ Val \subseteq Nat
<1>1. 0 \in Int /\ N - 1 \in Int
  BY NAssumption
<1>2. IsFiniteSet(Val)
      /\ Cardinality(Val) = IF 0 > N - 1 THEN 0 ELSE (N - 1) - 0 + 1
  BY <1>1, FS_Interval DEF Val
<1> QED BY <1>2, NAssumption DEF Val

LEMMA MinMember ==
  ASSUME NEW S \in SUBSET Nat, S # {}
  PROVE  Min(S) \in S /\ \A y \in S : Min(S) <= y
BY LeastNat DEF Min

LEMMA MaxMember ==
  ASSUME NEW S \in SUBSET Nat, S # {}, NEW b \in Nat, \A y \in S : y <= b
  PROVE  Max(S) \in S /\ \A y \in S : y <= Max(S)
<1>1. PICK x \in S : \A y \in S : y <= x
  BY GreatestNat
<1>2. \A y \in S : x >= y
  BY <1>1
<1>3. Max(S) \in S /\ \A y \in S : Max(S) >= y
  BY <1>2 DEF Max
<1> QED BY <1>3

(* Points on cycles of equal length form classes.                          *)
LEMMA Classes ==
  ASSUME NEW d, NEW x \in Val
  PROVE  /\ ClassOf(d, x) \subseteq Val
         /\ x \in ClassOf(d, x)
         /\ \A y \in ClassOf(d, x) : ClassOf(d, y) = ClassOf(d, x)
BY DEF ClassOf

(* The images a and b of a permutation exchanged.                          *)
LEMMA SwapPermutes ==
  ASSUME NEW h, Permutes(h), NEW a \in Val, NEW b \in Val
  PROVE  Permutes([h EXCEPT ![a] = h[b], ![b] = h[a]])
<1> DEFINE g == [h EXCEPT ![a] = h[b], ![b] = h[a]]
           s == [x \in Val |-> IF x = a THEN b ELSE IF x = b THEN a ELSE x]
<1>1. h \in [Val -> Val] /\ \A x, y \in Val : h[x] = h[y] => x = y
  BY DEF Permutes
<1>2. g \in [Val -> Val] /\ \A x \in Val : s[x] \in Val /\ g[x] = h[s[x]]
  BY <1>1
<1>3. \A x, y \in Val : s[x] = s[y] => x = y
  OBVIOUS
<1>4. \A x \in Val : s[s[x]] = x
  OBVIOUS
<1> HIDE DEF g, s
<1>5. \A x, y \in Val : g[x] = g[y] => x = y
  BY <1>1, <1>2, <1>3
<1>6. ASSUME NEW y \in Val
      PROVE  \E x \in Val : g[x] = y
  <2>1. PICK x \in Val : h[x] = y
    BY DEF Permutes
  <2>2. s[x] \in Val /\ g[s[x]] = y
    BY <1>2, <1>4, <2>1
  <2> QED BY <2>2
<1>7. Permutes(g)
  BY <1>2, <1>5, <1>6 DEF Permutes
<1> QED BY <1>7 DEF g
-----------------------------------------------------------------------------
(* One call of fix.                                                        *)

LEMMA PlainIndex ==
  ASSUME NEW p \in PlainPerms, NEW img \in Val
  PROVE  IndexOf(p, img) \in Val /\ p.element[IndexOf(p, img)] = img
<1>1. \E i \in Val : p.element[i] = img
  BY DEF PlainPerms, Permutes
<1> QED BY <1>1 DEF IndexOf

(* The record after an exchange.                                           *)
LEMMA PlainRecord ==
  ASSUME NEW A, NEW B, NEW p \in [kind : {"plain"}, element : A, part : B], NEW e, NEW S
  PROVE  [p EXCEPT !.element = e, !.part = S]
           = [kind |-> "plain", element |-> e, part |-> S]
<1>1. PICK q : q = [p EXCEPT !.element = e]
  OBVIOUS
<1>2. q = [kind |-> "plain", element |-> e, part |-> p.part]
  BY <1>1
<1>3. [q EXCEPT !.part = S] = [kind |-> "plain", element |-> e, part |-> S]
  BY <1>2
<1> QED BY <1>1, <1>3

(* pperm_plain: the two positions that are exchanged are not fixed.        *)
LEMMA PlainFixKeeps ==
  ASSUME NEW d, NEW p \in PlainPerms, NEW el \in Val, NEW img \in Val
  PROVE  /\ PlainFix(p, el, img) \in Results(d, p)
         /\ PlainFix(p, el, img).ok /\ el \in p.part
              => fixed(PlainFix(p, el, img).perm, el)
<1> DEFINE swp == IndexOf(p, img)
           t == PlainFix(p, el, img)
<1>1. swp \in Val /\ p.element[swp] = img
  BY PlainIndex
<1>2. /\ p \in [kind : {"plain"}, element : [Val -> Val], part : SUBSET Val]
      /\ Permutes(p.element) /\ 0 \in p.part
  BY DEF PlainPerms
<1>3. CASE PlainFixed(p, el) \/ PlainFixed(p, swp)
  <2>1. t = [perm |-> p, ok |-> p.element[el] = img]
    BY <1>3 DEF PlainFix
  <2>2. t \in Results(d, p)
    BY <2>1 DEF Results, Keeps, Perms
  <2>3. ASSUME t.ok
        PROVE  fixed(t.perm, el)
    <3>1. p.element[el] = p.element[swp]
      <4> HIDE DEF t
      <4> QED BY <1>1, <2>1, <2>3
    <3>2. el = swp
      BY <1>1, <1>2, <3>1 DEF Permutes
    <3> QED BY <1>2, <1>3, <2>1, <3>2 DEF fixed
  <2> QED BY <2>2, <2>3
<1>4. CASE ~ (PlainFixed(p, el) \/ PlainFixed(p, swp))
  <2>1. PICK e, S, q : /\ e = [p.element EXCEPT ![el] = img, ![swp] = p.element[el]]
                       /\ S = p.part \cup ({el + 1} \cap Val)
                       /\ q = [kind |-> "plain", element |-> e, part |-> S]
    OBVIOUS
  <2>2. t = [perm |-> q, ok |-> TRUE]
    <3>1. t = [perm |-> [p EXCEPT !.element = e, !.part = S], ok |-> TRUE]
      BY <1>4, <2>1 DEF PlainFix
    <3> HIDE DEF t
    <3> QED BY <1>2, <2>1, <3>1, PlainRecord
  <2> HIDE DEF t, swp
  <2>3. Permutes(e)
    BY <1>1, <1>2, <2>1, SwapPermutes
  <2>4. q \in PlainPerms
    BY <1>2, <2>1, <2>3 DEF PlainPerms, Permutes
  <2>5. ASSUME NEW x \in Val, PlainFixed(p, x)
        PROVE  PlainFixed(q, x) /\ q.element[x] = p.element[x]
    <3>1. x # el /\ x # swp
      BY <1>4, <2>5
    <3>2. e[x] = p.element[x]
      BY <1>2, <2>1, <3>1
    <3> QED BY <2>1, <2>5, <3>2 DEF PlainFixed
  <2>6. Keeps(p, q)
    <3>1. p.kind = "plain" /\ q.kind = "plain"
      BY <1>2, <2>1
    <3> QED BY <2>5, <3>1 DEF Keeps, fixed, permOf
  <2>7. el \in p.part => PlainFixed(q, el)
    <3>1. q.part = S
      BY <2>1
    <3>2. el + 1 \in Val \/ el = N - 1
      BY NAssumption DEF Val
    <3> QED BY <2>1, <3>1, <3>2 DEF PlainFixed
  <2>8. t \in Results(d, p)
    BY <2>2, <2>4, <2>6 DEF Results, Perms
  <2>9. el \in p.part => fixed(t.perm, el)
    <3>1. t.perm = q /\ q.kind = "plain"
      BY <2>1, <2>2
    <3> QED BY <2>7, <3>1 DEF fixed
  <2> QED BY <2>8, <2>9 DEF t
<1> QED BY <1>3, <1>4

(* pperm_bit: no other point is left without an image.                     *)
LEMMA NoneEmptied ==
  ASSUME NEW d, NEW p \in BitPerms(d), NEW el \in Val, NEW img \in p.info[el]
  PROVE  {i \in Val \ {el} : p.info[i] \subseteq {img}} = {}
<1>1. PICK h \in [Val -> Val], F \in SUBSET Val :
             Permutes(h) /\ \A x \in Val : p.info[x] = Images(d, h, F, x)
  BY DEF BitPerms
<1>2. \A x, y \in Val : h[x] = h[y] => x = y
  BY <1>1 DEF Permutes
<1> SUFFICES ASSUME NEW i \in Val, i # el, p.info[i] \subseteq {img}
             PROVE  FALSE
  OBVIOUS
<1>3. h[i] \in p.info[i]
  <2>1. p.info[i] = Images(d, h, F, i) /\ i \in ClassOf(d, i)
    BY <1>1, Classes
  <2>2. h[i] \in Images(d, h, F, i)
    BY <2>1 DEF Images
  <2> QED BY <2>1, <2>2
<1>4. h[i] = img /\ img \in Images(d, h, F, el)
  BY <1>1, <1>3
<1>5. CASE el \in F
  <2>1. h[el] = img
    BY <1>4, <1>5 DEF Images
  <2> QED BY <1>2, <1>4, <2>1
<1>6. CASE el \notin F
  <2>1. PICK y \in ClassOf(d, el) \ F : img = h[y]
    BY <1>4, <1>6 DEF Images
  <2>2. y \in Val /\ i = y
    BY <1>2, <1>4, <2>1, Classes
  <2>3. i \notin F /\ el \in ClassOf(d, i)
    BY <2>1, <2>2, Classes
  <2>4. h[el] \in Images(d, h, F, i)
    BY <1>6, <2>3 DEF Images
  <2>5. h[el] = h[i]
    BY <1>1, <1>4, <2>4
  <2> QED BY <1>2, <2>5
<1> QED BY <1>5, <1>6

(* The images after a call are those of h with two of them exchanged.      *)
Decides(d, h, F, el, img, g) ==
  /\ Images(d, g, F \cup {el}, el) = {img}
  /\ \A x \in Val \ {el} :
       Images(d, g, F \cup {el}, x) = Images(d, h, F, x) \ {img}

(* A call of fix for a point that is not decided, with an image that is    *)
(* possible for it: the images of two points are exchanged.                *)
Exchanged(h, x, y) == [h EXCEPT ![x] = h[y], ![y] = h[x]]

LEMMA ExchangeDecides ==
  ASSUME NEW d, NEW h, NEW F, NEW el, NEW y, Permutes(h), F \in SUBSET Val,
         el \in Val, el \notin F, y \in ClassOf(d, el) \ F
  PROVE  /\ Permutes(Exchanged(h, el, y))
         /\ Decides(d, h, F, el, h[y], Exchanged(h, el, y))
<1> DEFINE g == Exchanged(h, el, y)
           img == h[y]
<1>1. /\ h \in [Val -> Val] /\ \A x, z \in Val : h[x] = h[z] => x = z
      /\ el \notin F /\ y \in ClassOf(d, el) \ F /\ img = h[y]
  BY DEF Permutes
<1>3. g = [h EXCEPT ![el] = h[y], ![y] = h[el]]
  BY DEF Exchanged
<1> HIDE DEF g, img
<1>2. y \in Val /\ ClassOf(d, y) = ClassOf(d, el)
  BY <1>1, Classes
<1>4. Permutes(g) /\ g \in [Val -> Val]
  <2>1. Permutes(g)
    BY <1>2, <1>3, SwapPermutes
  <2> QED BY <2>1 DEF Permutes
<1>5. g[el] = img /\ g[y] = h[el] /\ \A z \in Val \ {el, y} : g[z] = h[z]
  BY <1>1, <1>2, <1>3
<1>6. Images(d, g, F \cup {el}, el) = {img}
  BY <1>5 DEF Images
<1>7. ASSUME NEW x \in Val \ {el}
      PROVE  Images(d, g, F \cup {el}, x) = Images(d, h, F, x) \ {img}
  <2>1. CASE x \in F
    <3>1. x # y /\ h[x] # img
      BY <1>1, <1>2, <2>1
    <3>2. Images(d, g, F \cup {el}, x) = {h[x]} /\ Images(d, h, F, x) = {h[x]}
      BY <1>5, <2>1, <3>1 DEF Images
    <3> QED BY <3>1, <3>2
  <2>2. CASE x \notin F
    <3> DEFINE C == ClassOf(d, x)
    <3>1. /\ C \subseteq Val
          /\ Images(d, g, F \cup {el}, x) = {g[z] : z \in C \ (F \cup {el})}
          /\ Images(d, h, F, x) = {h[z] : z \in C \ F}
      BY <2>2, Classes DEF Images
    <3>2. el \in C <=> y \in C
      BY <1>1, <1>2, Classes
    <3> HIDE DEF C
    <3>3. ASSUME NEW z \in C \ (F \cup {el})
          PROVE  g[z] \in {h[w] : w \in C \ F} \ {img}
      <4>1. CASE z = y
        <5>1. el \in C \ F /\ g[z] = h[el] /\ el # y
          BY <1>1, <1>5, <3>2, <3>3, <4>1
        <5>2. h[el] # img
          BY <1>1, <1>2, <5>1
        <5> QED BY <5>1, <5>2
      <4>2. CASE z # y
        <5>1. g[z] = h[z] /\ z \in Val /\ z \in C \ F
          BY <1>5, <3>1, <3>3, <4>2
        <5>2. h[z] # img
          BY <1>1, <1>2, <4>2, <5>1
        <5> QED BY <5>1, <5>2
      <4> QED BY <4>1, <4>2
    <3>4. ASSUME NEW z \in C \ F, h[z] # img
          PROVE  h[z] \in {g[w] : w \in C \ (F \cup {el})}
      <4>1. z # y
        BY <1>1, <3>4
      <4>2. CASE z = el
        <5>1. y \in C \ (F \cup {el}) /\ g[y] = h[z]
          BY <1>1, <1>5, <3>2, <3>4, <4>1, <4>2
        <5> QED BY <5>1
      <4>3. CASE z # el
        <5>1. z \in C \ (F \cup {el}) /\ g[z] = h[z]
          BY <1>5, <3>1, <3>4, <4>1, <4>3
        <5> QED BY <5>1
      <4> QED BY <4>2, <4>3
    <3> QED BY <3>1, <3>3, <3>4
  <2> QED BY <2>1, <2>2
<1> QED BY <1>4, <1>6, <1>7 DEF Decides, g, img

LEMMA ImagesDecided ==
  ASSUME NEW d, NEW h, NEW F, NEW el, NEW img,
         Permutes(h), F \in SUBSET Val, el \in Val, img \in Images(d, h, F, el)
  PROVE  \E g \in [Val -> Val] : Permutes(g) /\ Decides(d, h, F, el, img, g)
<1>1. h \in [Val -> Val] /\ \A x, y \in Val : h[x] = h[y] => x = y
  BY DEF Permutes
<1>2. CASE el \in F
  <2>1. F \cup {el} = F /\ img = h[el]
    BY <1>2 DEF Images
  <2>2. Images(d, h, F \cup {el}, el) = {img}
    BY <1>2, <2>1 DEF Images
  <2>3. ASSUME NEW x \in Val \ {el}
        PROVE  img \notin Images(d, h, F, x)
    <3>1. CASE x \in F
      BY <1>1, <2>1, <3>1 DEF Images
    <3>2. CASE x \notin F
      BY <1>1, <1>2, <2>1, <3>2, Classes DEF Images
    <3> QED BY <3>1, <3>2
  <2>4. \A x \in Val \ {el} :
          Images(d, h, F \cup {el}, x) = Images(d, h, F, x) \ {img}
    BY <2>1, <2>3
  <2> QED BY <1>1, <2>2, <2>4 DEF Decides
<1>3. CASE el \notin F
  <2>1. PICK y \in ClassOf(d, el) \ F : img = h[y]
    BY <1>3 DEF Images
  <2>2. PICK g : g = Exchanged(h, el, y)
    OBVIOUS
  <2>3. Permutes(g) /\ Decides(d, h, F, el, img, g)
    BY <1>3, <2>1, <2>2, ExchangeDecides
  <2> QED BY <2>3 DEF Permutes
<1> QED BY <1>2, <1>3

LEMMA BitRecord ==
  ASSUME NEW A, NEW p \in [kind : {"bit"}, info : A], NEW new
  PROVE  [p EXCEPT !.info = new] = [kind |-> "bit", info |-> new]
OBVIOUS

LEMMA BitFixKeeps ==
  ASSUME NEW d, NEW p \in BitPerms(d), NEW el \in Val, NEW img \in Val
  PROVE  /\ BitFix(p, el, img) \in Results(d, p)
         /\ BitFix(p, el, img).ok => fixed(BitFix(p, el, img).perm, el)
<1>1. p \in [kind : {"bit"}, info : [Val -> SUBSET Val]]
  BY DEF BitPerms
<1>2. CASE img \notin p.info[el]
  <2>1. BitFix(p, el, img) = [perm |-> p, ok |-> FALSE]
    BY <1>2 DEF BitFix
  <2>2. Keeps(p, p) /\ p \in Perms(d)
    BY DEF Keeps, Perms
  <2> QED BY <2>1, <2>2 DEF Results
<1>3. CASE img \in p.info[el]
  <2>1. PICK new, q :
          /\ new = [i \in Val |-> IF i = el THEN {img} ELSE p.info[i] \ {img}]
          /\ q = [kind |-> "bit", info |-> new]
    OBVIOUS
  <2>2. BitFix(p, el, img) = [perm |-> q, ok |-> TRUE]
    <3>1. {i \in Val \ {el} : p.info[i] \subseteq {img}} = {}
      BY <1>3, NoneEmptied
    <3>2. \A i \in Val : ~ (i > N - 1)
      BY NAssumption DEF Val
    <3>3. [i \in Val |-> IF i > N - 1 THEN p.info[i]
                         ELSE IF i = el THEN {img} ELSE p.info[i] \ {img}] = new
      BY <2>1, <3>2
    <3>4. BitFix(p, el, img) = [perm |-> [p EXCEPT !.info = new], ok |-> TRUE]
      BY <1>3, <3>1, <3>3 DEF BitFix
    <3>5. [p EXCEPT !.info = new] = q
      BY <1>1, <2>1, BitRecord
    <3> QED BY <3>4, <3>5
  <2>3. q \in [kind : {"bit"}, info : [Val -> SUBSET Val]] /\ q.info = new
    BY <1>1, <2>1
  <2>4. q \in BitPerms(d)
    <3>1. PICK h \in [Val -> Val], F \in SUBSET Val :
                 Permutes(h) /\ \A x \in Val : p.info[x] = Images(d, h, F, x)
      BY DEF BitPerms
    <3>2. img \in Images(d, h, F, el)
      BY <1>3, <3>1
    <3>3. PICK g \in [Val -> Val] :
                 Permutes(g) /\ Decides(d, h, F, el, img, g)
      BY <3>1, <3>2, ImagesDecided
    <3>4. \A x \in Val : q.info[x] = Images(d, g, F \cup {el}, x)
      BY <2>1, <2>3, <3>1, <3>3 DEF Decides
    <3>5. F \cup {el} \in SUBSET Val
      OBVIOUS
    <3> QED BY <2>3, <3>3, <3>4, <3>5 DEF BitPerms
  <2>5. ASSUME NEW x \in Val
        PROVE  q.info[x] \subseteq p.info[x]
    BY <1>3, <2>1, <2>3
  <2>6. ASSUME NEW x \in Val, BitFixed(p, x)
        PROVE  q.info[x] = p.info[x]
    <3>1. IsFiniteSet(p.info[x])
      BY <1>1, ValFinite, FS_Subset
    <3>2. PICK v : p.info[x] = {v}
      BY <2>6, <3>1, FS_Singleton DEF BitFixed
    <3>3. CASE x = el
      BY <1>3, <2>1, <2>3, <3>2, <3>3
    <3>4. CASE x # el
      <4>1. x \notin {i \in Val \ {el} : p.info[i] \subseteq {img}}
        BY <1>3, NoneEmptied
      <4>2. v # img
        BY <3>2, <3>4, <4>1
      <4> QED BY <2>1, <2>3, <3>2, <3>4, <4>2
    <3> QED BY <3>3, <3>4
  <2>7. Keeps(p, q)
    <3>1. p.kind = "bit" /\ q.kind = "bit"
      BY <1>1, <2>3
    <3> QED BY <2>5, <2>6, <3>1 DEF Keeps, fixed, permOf, BitFixed
  <2>8. fixed(q, el)
    <3>1. q.kind = "bit" /\ q.info[el] = {img}
      BY <2>1, <2>3
    <3>2. Cardinality({img}) = 1
      BY FS_Singleton
    <3> QED BY <3>1, <3>2 DEF fixed, BitFixed
  <2> QED BY <2>2, <2>4, <2>7, <2>8 DEF Results, Perms
<1> QED BY <1>2, <1>3

(* The interface: whatever fix returns, fixed images stay; a call that     *)
(* returns true fixes the point if it starts a block.                      *)
LEMMA FixKeeps ==
  ASSUME NEW d, NEW p \in Perms(d), NEW el \in Val, NEW img \in Val
  PROVE  /\ fix(p, el, img) \in Results(d, p)
         /\ fix(p, el, img).ok /\ (p.kind = "plain" => el \in p.part)
              => fixed(fix(p, el, img).perm, el)
<1>1. CASE p \in PlainPerms
  <2>1. p.kind = "plain" /\ fix(p, el, img) = PlainFix(p, el, img)
    BY <1>1 DEF PlainPerms, fix
  <2> QED BY <1>1, <2>1, PlainFixKeeps
<1>2. CASE p \in BitPerms(d)
  <2>1. p.kind # "plain" /\ fix(p, el, img) = BitFix(p, el, img)
    BY <1>2 DEF BitPerms, fix
  <2> QED BY <1>2, <2>1, BitFixKeeps
<1> QED BY <1>1, <1>2 DEF Perms

LEMMA KeepsTransitive ==
  ASSUME NEW d, NEW p, NEW t \in Results(d, p), NEW u \in Results(d, t.perm)
  PROVE  u \in Results(d, p)
<1>1. Keeps(p, t.perm) /\ Keeps(t.perm, u.perm) /\ u \in [perm : Perms(d), ok : BOOLEAN]
  BY DEF Results
<1>2. Keeps(p, u.perm)
  BY <1>1 DEF Keeps
<1> QED BY <1>1, <1>2 DEF Results
-----------------------------------------------------------------------------
(* A sequence of calls.                                                    *)
LEMMA FixAllKeeps ==
  ASSUME NEW d, NEW p \in Perms(d), NEW n \in Nat, NEW pairs \in [1..n -> Val \X Val]
  PROVE  FixAll(p, pairs) \in Results(d, p)
<1> DEFINE T == Results(d, p)
           Step(k, t) == IF t.ok THEN fix(t.perm, pairs[k][1], pairs[k][2]) ELSE t
           a == [perm |-> p, ok |-> TRUE]
           G == [k \in 1..n |-> [t \in T |-> Step(k, t)]]
           IsIt(f) == f = [k \in 0..n |-> IF k = 0 THEN a ELSE Step(k, f[k - 1])]
<1>1. a \in T
  BY DEF Results, Keeps
<1>2. ASSUME NEW k \in 1..n, NEW t \in T
      PROVE  Step(k, t) \in T
  <2>1. pairs[k][1] \in Val /\ pairs[k][2] \in Val /\ t.perm \in Perms(d)
    BY DEF Results
  <2>2. fix(t.perm, pairs[k][1], pairs[k][2]) \in Results(d, t.perm)
    BY <2>1, FixKeeps
  <2> QED BY <2>2, KeepsTransitive
<1>3. G \in [1..n -> [T -> T]]
  BY <1>2
<1>4. \E f : IsIt(f)
  <2>1. PICK f \in [0..n -> T] : Iterated(a, n, G, f)
    <3> HIDE DEF G, a, T, Step, IsIt
    <3>1. PICK U, b, H : U = T /\ b = a /\ H = G
      OBVIOUS
    <3>2. n \in Nat /\ b \in U /\ H \in [1..n -> [U -> U]]
      BY <1>1, <1>3, <3>1
    <3>3. \E f \in [0..n -> U] : Iterated(b, n, H, f)
      BY <3>2, Iterates
    <3> QED BY <3>1, <3>3
  <2>2. ASSUME NEW k \in 1..n
        PROVE  f[k] = Step(k, f[k - 1])
    <3>1. k - 1 \in 0..n /\ f[k - 1] \in T
      OBVIOUS
    <3> HIDE DEF T
    <3>2. G[k][f[k - 1]] = Step(k, f[k - 1])
      BY <3>1
    <3> QED BY <2>1, <3>2 DEF Iterated
  <2> HIDE DEF Step, a, G, T
  <2>3. f = [k \in 0..n |-> IF k = 0 THEN a ELSE Step(k, f[k - 1])]
    BY <2>1, <2>2 DEF Iterated
  <2> QED BY <2>3
<1>5. Len(pairs) = n
  BY LenProperties
<1>6. FixAll(p, pairs) = (CHOOSE f : IsIt(f))[n]
  BY <1>5 DEF FixAll
<1>7. PICK f : IsIt(f) /\ FixAll(p, pairs) = f[n]
  <2> HIDE DEF IsIt
  <2> QED BY <1>4, <1>6
<1> HIDE DEF Step, a, T
<1>8. f[0] \in T /\ \A k \in 1..n : f[k - 1] \in T => f[k] \in T
  BY <1>1, <1>2, <1>7
<1>9. \A k \in 0..n : f[k] \in T
  <2> HIDE DEF IsIt
  <2> QED BY <1>8, HandedOn
<1> QED BY <1>7, <1>9 DEF T
-----------------------------------------------------------------------------
(* Blocks and cycles.                                                      *)

LEMMA RingOfPoints ==
  ASSUME NEW S \in SUBSET Nat, NEW el \in Val
  PROVE  \E n \in Nat \ {0} : Ring(S, el) \in [1..n -> Val]
<1> DEFINE p == BlockStart(S, el)
           q == BlockEnd(S, el)
           n == q - p
<1>1. p \in 0..el
  <2> DEFINE A == {0} \cup {i \in S : i <= el}
  <2>1. el \in Nat
    BY NAssumption DEF Val
  <2>2. \A y \in A : y \in Nat /\ y <= el
    BY <2>1
  <2>3. A \in SUBSET Nat /\ A # {}
    BY <2>2
  <2> HIDE DEF A
  <2>4. PICK m \in A : m = Max(A)
    BY <2>1, <2>2, <2>3, MaxMember
  <2>5. m \in Nat /\ m <= el
    BY <2>2
  <2>6. m \in 0..el
    BY <2>1, <2>5
  <2> QED BY <2>4, <2>6 DEF A, BlockStart
<1>2. q \in (el + 1)..N
  <2> DEFINE A == {N} \cup {i \in S : i > el}
  <2>1. A \in SUBSET Nat /\ N \in A
    BY NAssumption
  <2>2. el \in Nat /\ \A y \in A : y > el
    BY NAssumption DEF Val
  <2> HIDE DEF A
  <2>3. PICK m \in A : m = Min(A) /\ m <= N
    BY <2>1, MinMember
  <2>4. m \in Nat /\ m > el
    BY <2>1, <2>2
  <2>5. m \in (el + 1)..N
    BY <2>2, <2>3, <2>4, NAssumption
  <2> QED BY <2>3, <2>5 DEF A, BlockEnd
<1>3. n \in Nat \ {0} /\ p \in Nat /\ p + n <= N /\ el \in Nat
  BY <1>1, <1>2, NAssumption DEF Val
<1>4. Ring(S, el) = [k \in 1..n |-> p + ((el - p + k - 1) % n)]
  BY DEF Ring
<1> HIDE DEF p, q, n
<1>5. ASSUME NEW k \in 1..n
      PROVE  p + ((el - p + k - 1) % n) \in Val
  <2>1. el - p + k - 1 \in Int
    BY <1>1, <1>3
  <2>2. (el - p + k - 1) % n \in 0..(n - 1)
    BY <1>3, <2>1
  <2> QED BY <1>3, <2>2, NAssumption DEF Val
<1> QED BY <1>3, <1>4, <1>5

(* The iterates of d.                                                      *)
LEMMA PowerIterates ==
  ASSUME NEW d \in [Val -> Val], NEW x \in Val
  PROVE  /\ Power(d, x) \in [0..N -> Val]
         /\ Power(d, x)[0] = x
         /\ \A k \in 1..N : Power(d, x)[k] = d[Power(d, x)[k - 1]]
<1> DEFINE G == [k \in 1..N |-> d]
           IsIt(f) == f = [k \in 0..N |-> IF k = 0 THEN x ELSE d[f[k - 1]]]
<1>1. \E f : IsIt(f)
  <2>1. G \in [1..N -> [Val -> Val]] /\ N \in Nat
    BY NAssumption
  <2>2. PICK f \in [0..N -> Val] : Iterated(x, N, G, f)
    <3> HIDE DEF G
    <3> QED BY <2>1, Iterates
  <2>3. ASSUME NEW k \in 1..N
        PROVE  f[k] = d[f[k - 1]]
    <3>1. k - 1 \in 0..N /\ f[k - 1] \in Val
      BY <2>1
    <3>2. G[k][f[k - 1]] = d[f[k - 1]]
      BY <3>1
    <3> QED BY <2>2, <3>2 DEF Iterated
  <2>4. f = [k \in 0..N |-> IF k = 0 THEN x ELSE d[f[k - 1]]]
    BY <2>1, <2>2, <2>3 DEF Iterated
  <2> QED BY <2>4
<1>2. Power(d, x) = CHOOSE f : IsIt(f)
  BY DEF Power
<1>3. PICK f : f = Power(d, x) /\ IsIt(f)
  <2> HIDE DEF IsIt
  <2> QED BY <1>1, <1>2
<1>4. f[0] = x /\ \A k \in 1..N : f[k] = d[f[k - 1]]
  <2>1. 0 \in 0..N /\ \A k \in 1..N : k \in 0..N /\ k # 0
    BY NAssumption
  <2> QED BY <1>3, <2>1
<1>5. \A k \in 0..N : f[k] \in Val
  <2>1. f[0] \in Val /\ \A k \in 1..N : f[k - 1] \in Val => f[k] \in Val
    BY <1>4
  <2> QED BY <2>1, NAssumption, HandedOn
<1>6. f \in [0..N -> Val]
  BY <1>3, <1>5
<1> QED BY <1>3, <1>4, <1>6

(* permToCyclePerm numbers the start of every cycle.                       *)
LEMMA StartsAreNumbers ==
  ASSUME NEW d \in [Val -> Val]
  PROVE  CycleStarts(d) \in SUBSET Nat
<1>1. \A x \in Val : Power(d, x)[0] = x
  BY PowerIterates
<1>2. ASSUME NEW x \in Val, x = CycleMin(d, x)
      PROVE  CyclePosition(d, x) \in Nat
  <2> DEFINE A == {y \in Val : CycleMin(d, y) < CycleMin(d, x)}
             B == {k \in 0..N : Power(d, CycleMin(d, x))[k] = x}
  <2>1. Cardinality(A) \in Nat
    <3>1. A \in SUBSET Val
      OBVIOUS
    <3> HIDE DEF A
    <3>2. IsFiniteSet(A)
      BY <3>1, ValFinite, FS_Subset
    <3> QED BY <3>2, FS_CardinalityType
  <2>2. 0 \in B /\ B \in SUBSET Nat
    BY <1>1, <1>2, NAssumption
  <2>3. Min(B) \in Nat
    <3> HIDE DEF B
    <3> QED BY <2>2, MinMember
  <2> QED BY <2>1, <2>3 DEF CyclePosition
<1> QED BY <1>2 DEF CycleStarts

LEMMA FixedImages ==
  ASSUME NEW d, NEW p \in Perms(d), NEW x \in Val
  PROVE  permOf(p, x) \in Val \cup {None}
<1>1. CASE p \in PlainPerms
  BY <1>1 DEF PlainPerms, permOf
<1>2. CASE p \in BitPerms(d)
  <2>1. p.kind = "bit" /\ p.info[x] \in SUBSET Val
    BY <1>2 DEF BitPerms
  <2>2. CASE ~ fixed(p, x)
    BY <2>2 DEF permOf
  <2>3. CASE fixed(p, x)
    <3>1. IsFiniteSet(p.info[x]) /\ Cardinality(p.info[x]) = 1
      BY <2>1, <2>3, ValFinite, FS_Subset DEF fixed, BitFixed
    <3>2. p.info[x] # {} /\ p.info[x] \in SUBSET Nat
      BY <2>1, <3>1, ValFinite, FS_EmptySet
    <3>3. Min(p.info[x]) \in p.info[x]
      BY <3>2, MinMember
    <3> QED BY <2>1, <2>3, <3>3 DEF permOf
  <2> QED BY <2>2, <2>3
<1> QED BY <1>1, <1>2 DEF Perms

LEMMA ConsIndex ==
  ASSUME NEW T, NEW a, NEW s \in Seq(T)
  PROVE  /\ Len(<<a>> \o s) = 1 + Len(s)
         /\ \A k \in 1..Len(s) : (<<a>> \o s)[k + 1] = s[k]
<1>1. Len(s) \in Nat
  BY LenProperties
<1> QED BY <1>1

(* Whatever word lies before the cycle starts, the points handed to fix    *)
(* are points: None can only be the first entry of a cycle.                *)
LEMMA FollowKeeps ==
  ASSUME NEW d, NEW p \in Perms(d), NEW S \in SUBSET Nat, NEW r \in Val,
         NEW dec \in Val \cup {None}, NEW b
  PROVE  FollowCycle(p, cycle(S, r, b), dec, S, b) \in Results(d, p)
<1> DEFINE og == cycle(S, r, b)
           at == {k \in DOMAIN og : og[k] = dec}
           to == IF at # {}
                 THEN [k \in DOMAIN og |-> og[((k + Min(at) - 2) % Len(og)) + 1]]
                 ELSE cycle(S, dec, b)
           pairs == [k \in 1..(Len(og) - 1) |-> <<og[k + 1], to[k + 1]>>]
<1>1. PICK n \in Nat \ {0} : og \in [1..n -> Val]
  <2>1. r # None
    BY NAssumption DEF Val, None
  <2> QED BY <2>1, RingOfPoints DEF cycle
<1>2. DOMAIN og = 1..n /\ Len(og) = n /\ \A k \in 1..n : og[k] \in Val
  BY <1>1, LenProperties
<1>3. ASSUME Len(to) = Len(og), NEW k \in 1..(n - 1)
      PROVE  to[k + 1] \in Val
  <2>1. k + 1 \in 1..n
    BY <1>1
  <2>2. CASE at # {}
    <3> HIDE DEF og
    <3>1. at \in SUBSET Nat
      BY <1>2
    <3>2. PICK m \in at : m = Min(at)
      <4> HIDE DEF at
      <4> QED BY <2>2, <3>1, MinMember
    <3>3. m \in Nat /\ m >= 1 /\ k + 1 + m - 2 \in Nat
      BY <1>2, <3>2
    <3>4. (k + 1 + m - 2) % n \in 0..(n - 1)
      BY <1>1, <3>3
    <3>5. ((k + 1 + m - 2) % n) + 1 \in 1..n
      BY <1>1, <3>4
    <3>6. to[k + 1] = og[((k + 1 + m - 2) % n) + 1]
      <4> HIDE DEF at
      <4> QED BY <1>2, <2>1, <2>2, <3>2
    <3> QED BY <1>2, <3>5, <3>6
  <2>3. CASE at = {} /\ dec # None
    <3>1. to = Ring(S, dec) /\ dec \in Val
      BY <2>3 DEF cycle
    <3>2. PICK m \in Nat \ {0} : to \in [1..m -> Val]
      <4> HIDE DEF to
      <4> QED BY <3>1, RingOfPoints
    <3> HIDE DEF to, og
    <3>3. Len(to) = m
      BY <3>2, LenProperties
    <3> QED BY <1>2, <1>3, <2>1, <3>2, <3>3
  <2>4. CASE at = {} /\ dec = None
    <3>1. to = IF b THEN <<>> ELSE <<None>> \o Ring(S, 0)
      BY <2>4 DEF cycle
    <3>2. PICK m, ring : m \in Nat \ {0} /\ ring = Ring(S, 0) /\ ring \in [1..m -> Val]
      <4>1. 0 \in Val
        BY NAssumption DEF Val
      <4> QED BY <4>1, RingOfPoints
    <3> HIDE DEF to, og
    <3>3. CASE b
      BY <1>2, <1>3, <2>1, <3>1, <3>3
    <3>4. CASE ~ b
      <4>1. to = <<None>> \o ring
        BY <3>1, <3>2, <3>4
      <4>2. Len(ring) = m /\ ring \in Seq(Val)
        BY <3>2, LenProperties
      <4>3. Len(to) = 1 + m
        BY <3>2, <4>1, <4>2, ConsIndex
      <4>4. k \in 1..m
        BY <1>1, <1>2, <1>3, <3>2, <4>3
      <4>5. to[k + 1] = ring[k]
        BY <4>1, <4>2, <4>4, ConsIndex
      <4> QED BY <3>2, <4>4, <4>5
    <3> QED BY <3>3, <3>4
  <2> QED BY <2>2, <2>3, <2>4
<1>4. CASE Len(to) # Len(og)
  <2>1. FollowCycle(p, og, dec, S, b) = [perm |-> p, ok |-> FALSE]
    <3> HIDE DEF og
    <3> QED BY <1>4 DEF FollowCycle
  <2> QED BY <2>1 DEF Results, Keeps
<1>5. CASE Len(to) = Len(og)
  <2>1. FollowCycle(p, og, dec, S, b) = FixAll(p, pairs)
    <3> HIDE DEF og
    <3> QED BY <1>5 DEF FollowCycle
  <2>2. pairs \in [1..(n - 1) -> Val \X Val]
    <3> HIDE DEF og, to
    <3>1. \A k \in 1..(n - 1) : k + 1 \in 1..n
      BY <1>1
    <3>2. \A k \in 1..(n - 1) : og[k + 1] \in Val /\ to[k + 1] \in Val
      BY <1>2, <1>3, <1>5, <3>1
    <3> QED BY <1>2, <3>2
  <2>3. n - 1 \in Nat
    BY <1>1
  <2> HIDE DEF pairs, og
  <2> QED BY <2>1, <2>2, <2>3, FixAllKeeps DEF og
<1> QED BY <1>4, <1>5

LEMMA CallKeeps ==
  ASSUME NEW d, NEW p \in Perms(d), NEW i \in Val, NEW j \in Val,
         NEW S \in SUBSET Nat, NEW b, NEW isId
  PROVE  LET t == fixAndPropagate(p, i, j, S, b, isId)
         IN /\ t \in Results(d, p)
            /\ t.ok /\ (p.kind = "plain" => i \in p.part) => fixed(t.perm, i)
<1> DEFINE f == fix(p, i, j)
           t == fixAndPropagate(p, i, j, S, b, isId)
<1>1. f \in Results(d, p) /\ f.perm \in Perms(d)
  BY FixKeeps DEF Results
<1>2. f.ok /\ (p.kind = "plain" => i \in p.part) => fixed(f.perm, i)
  BY FixKeeps
<1>3. CASE ~ (f.ok /\ ~isId)
  <2>1. t = f
    BY <1>3 DEF fixAndPropagate, PropagateFixed
  <2> QED BY <1>1, <1>2, <2>1
<1>4. CASE f.ok /\ ~isId
  <2>1. t = FollowCycle(f.perm, cycle(S, i, b), permOf(f.perm, i), S, b)
    BY <1>4 DEF fixAndPropagate, PropagateFixed, propagateDecision
  <2> HIDE DEF f, t
  <2>3. permOf(f.perm, i) \in Val \cup {None}
    BY <1>1, FixedImages
  <2>4. t \in Results(d, f.perm)
    BY <1>1, <2>1, <2>3, FollowKeeps
  <2>5. t \in Results(d, p)
    BY <1>1, <2>4, KeepsTransitive
  <2>6. fixed(f.perm, i) => fixed(t.perm, i)
    BY <2>4 DEF Results, Keeps
  <2> QED BY <1>2, <1>4, <2>5, <2>6 DEF f, t
<1> QED BY <1>3, <1>4
-----------------------------------------------------------------------------
(* The constructors.                                                       *)

(* cycleToParts numbers the points without gaps or repetitions.            *)
LEMMA PositionsNumber ==
  ASSUME NEW d
  PROVE  /\ \A x \in Val : ClassPosition(d, x) \in Val
         /\ \A x, y \in Val : ClassPosition(d, x) = ClassPosition(d, y) => x = y
         /\ \A i \in Val : \E x \in Val : ClassPosition(d, x) = i
         /\ 0 = Min(ClassOf(d, 0)) /\ ClassPosition(d, 0) = 0
<1> DEFINE M(x) == Min(ClassOf(d, x))
           B == [x \in Val |-> {y \in Val : \/ M(y) < M(x)
                                            \/ y \in ClassOf(d, x) /\ y < x}]
<1>1. ASSUME NEW x \in Val
      PROVE  M(x) \in ClassOf(d, x) /\ M(x) \in Nat /\ M(x) <= x
  <2>1. ClassOf(d, x) \in SUBSET Nat /\ x \in ClassOf(d, x)
    BY Classes, ValFinite
  <2> QED BY <2>1, MinMember
<1>2. ASSUME NEW x \in Val, NEW y \in Val
      PROVE  y \in ClassOf(d, x) <=> M(y) = M(x)
  <2>1. y \in ClassOf(d, x) => M(y) = M(x)
    BY Classes
  <2>2. ASSUME M(y) = M(x)
        PROVE  y \in ClassOf(d, x)
    <3>1. M(x) \in ClassOf(d, y) /\ M(x) \in ClassOf(d, x)
      BY <1>1, <2>2
    <3>2. ClassOf(d, y) = ClassOf(d, x)
      BY <3>1, Classes
    <3> QED BY <3>2, Classes
  <2> QED BY <2>1, <2>2
<1> HIDE DEF M
<1>3. \A x, y \in Val : y \in B[x] <=> M(y) < M(x) \/ (M(y) = M(x) /\ y < x)
  BY <1>2
<1>4. B \in [Val -> SUBSET Val] /\ Val \subseteq Nat /\ \A x \in Val : M(x) \in Nat
  BY <1>1, ValFinite
<1>5. \A x \in Val : ClassPosition(d, x) = Cardinality(B[x])
  BY DEF ClassPosition, M
<1> HIDE DEF B
<1>6. \A x \in Val : x \notin B[x]
  BY <1>3, <1>4
<1>7. \A x, y \in Val : x \in B[y] => B[x] \subseteq B[y]
  <2> SUFFICES ASSUME NEW x \in Val, NEW y \in Val, x \in B[y], NEW z \in Val, z \in B[x]
               PROVE  z \in B[y]
    BY <1>4
  <2>1. x \in Nat /\ y \in Nat /\ z \in Nat /\ M(x) \in Nat /\ M(y) \in Nat /\ M(z) \in Nat
    BY <1>4
  <2>2. M(x) < M(y) \/ (M(x) = M(y) /\ x < y)
    BY <1>3
  <2>3. M(z) < M(x) \/ (M(z) = M(x) /\ z < x)
    BY <1>3
  <2>4. M(z) < M(y) \/ (M(z) = M(y) /\ z < y)
    BY <2>1, <2>2, <2>3
  <2> QED BY <1>3, <2>4
<1>8. \A x, y \in Val : x = y \/ x \in B[y] \/ y \in B[x]
  <2> SUFFICES ASSUME NEW x \in Val, NEW y \in Val
               PROVE  x = y \/ x \in B[y] \/ y \in B[x]
    OBVIOUS
  <2>1. x \in Nat /\ y \in Nat /\ M(x) \in Nat /\ M(y) \in Nat
    BY <1>4
  <2> QED BY <1>3, <2>1
<1>9. Numbers(Val, B)
  <2>1. Precedes(Val, B)
    BY <1>4, <1>6, <1>7, <1>8 DEF Precedes
  <2> QED BY <2>1, ValFinite, RanksNumber
<1>10. 0..(Cardinality(Val) - 1) = Val
  BY ValFinite DEF Val
<1>11. 0 \in Val /\ M(0) = 0
  <2>1. 0 \in Val
    BY NAssumption DEF Val
  <2> QED BY <1>1, <2>1
<1>12. B[0] = {}
  <2>1. \A y \in Val : y \notin B[0]
    BY <1>3, <1>4, <1>11
  <2> QED BY <1>4, <1>11, <2>1
<1>13. ClassPosition(d, 0) = 0
  BY <1>5, <1>11, <1>12, FS_EmptySet
<1>14. /\ \A x \in Val : ClassPosition(d, x) \in Val
       /\ \A x, y \in Val : ClassPosition(d, x) = ClassPosition(d, y) => x = y
       /\ \A i \in Val : \E x \in Val : ClassPosition(d, x) = i
  <2>1. /\ \A x \in Val : Cardinality(B[x]) \in Val
        /\ \A x, y \in Val : Cardinality(B[x]) = Cardinality(B[y]) => x = y
        /\ \A i \in Val : \E x \in Val : Cardinality(B[x]) = i
    BY <1>9, <1>10 DEF Numbers
  <2> QED BY <1>5, <2>1
<1>15. 0 = Min(ClassOf(d, 0))
  BY <1>11 DEF M
<1> QED BY <1>13, <1>14, <1>15

LEMMA PlainConstructed ==
  ASSUME NEW d
  PROVE  pperm_plain(d) \in PlainPerms
<1> DEFINE e == [i \in Val |-> CHOOSE x \in Val : ClassPosition(d, x) = i]
           S == {ClassPosition(d, x) : x \in {y \in Val : y = Min(ClassOf(d, y))}}
<1>1. \A i \in Val : e[i] \in Val /\ ClassPosition(d, e[i]) = i
  BY PositionsNumber
<1>2. e \in [Val -> Val]
  BY <1>1
<1>3. \A x, y \in Val : e[x] = e[y] => x = y
  <2> HIDE DEF e
  <2> QED BY <1>1
<1>4. \A x \in Val : e[ClassPosition(d, x)] = x
  <2> HIDE DEF e
  <2> SUFFICES ASSUME NEW x \in Val
               PROVE  e[ClassPosition(d, x)] = x
    OBVIOUS
  <2>1. PICK i \in Val : i = ClassPosition(d, x)
    BY PositionsNumber
  <2>2. e[i] \in Val /\ ClassPosition(d, e[i]) = ClassPosition(d, x)
    BY <1>1, <2>1
  <2> QED BY <2>1, <2>2, PositionsNumber
<1>5. Permutes(e)
  <2> HIDE DEF e
  <2> QED BY <1>2, <1>3, <1>4, PositionsNumber DEF Permutes
<1>6. S \in SUBSET Val /\ 0 \in S
  <2>1. 0 \in Val
    BY NAssumption DEF Val
  <2> QED BY <2>1, PositionsNumber
<1>7. pperm_plain(d) = [kind |-> "plain", element |-> e, part |-> S]
  BY DEF pperm_plain
<1> HIDE DEF e, S
<1> QED BY <1>2, <1>5, <1>6, <1>7 DEF PlainPerms

LEMMA BitConstructed ==
  ASSUME NEW d
  PROVE  pperm_bit(d) \in BitPerms(d)
<1> DEFINE h == [x \in Val |-> x]
<1>1. Permutes(h) /\ h \in [Val -> Val]
  BY DEF Permutes
<1>2. pperm_bit(d) = [kind |-> "bit", info |-> [x \in Val |-> ClassOf(d, x)]]
  BY DEF pperm_bit
<1>3. pperm_bit(d) \in [kind : {"bit"}, info : [Val -> SUBSET Val]]
  BY <1>2, Classes
<1>4. ASSUME NEW x \in Val
      PROVE  pperm_bit(d).info[x] = Images(d, h, {}, x)
  <2>1. pperm_bit(d).info[x] = ClassOf(d, x)
    BY <1>2
  <2>2. Images(d, h, {}, x) = {h[y] : y \in ClassOf(d, x) \ {}}
    BY DEF Images
  <2>3. \A y \in ClassOf(d, x) : h[y] = y
    BY Classes
  <2> QED BY <2>1, <2>2, <2>3
<1> HIDE DEF h
<1> QED BY <1>1, <1>3, <1>4 DEF BitPerms
-----------------------------------------------------------------------------
(* What options and invOptions offer are points.                           *)

LEMMA OptionsArePoints ==
  ASSUME NEW d, NEW p \in Perms(d), NEW el \in Val, NEW k \in DOMAIN options(p, el)
  PROVE  options(p, el)[k] \in Val
<1>1. CASE p \in PlainPerms
  <2>1. /\ p.kind = "plain" /\ p.element \in [Val -> Val] /\ p.part \in SUBSET Nat
    BY <1>1, ValFinite DEF PlainPerms
  <2>2. PICK n, ring :
             n \in Nat \ {0} /\ ring = Ring(p.part, el) /\ ring \in [1..n -> Val]
    BY <2>1, RingOfPoints
  <2>3. options(p, el) = [m \in 1..n |-> p.element[ring[m]]]
    BY <2>1, <2>2 DEF options, PlainOptions
  <2> QED BY <2>1, <2>2, <2>3
<1>2. CASE p \in BitPerms(d)
  <2> DEFINE S == p.info[el]
             B == [x \in S |-> {y \in S : y < x}]
  <2>1. p.kind = "bit" /\ S \in SUBSET Val
    BY <1>2 DEF BitPerms
  <2>2. IsFiniteSet(S) /\ S \in SUBSET Nat
    BY <2>1, ValFinite, FS_Subset
  <2>3. options(p, el) = Ascending(S)
    BY <2>1 DEF options
  <2>4. k \in 1..Cardinality(S)
         /\ options(p, el)[k] = CHOOSE x \in S : Cardinality({y \in S : y < x}) = k - 1
    BY <2>3 DEF Ascending
  <2> HIDE DEF S
  <2>5. B \in [S -> SUBSET S] /\ \A x, y \in S : y \in B[x] <=> y < x
    OBVIOUS
  <2> HIDE DEF B
  <2>6. Precedes(S, B)
    <3>1. \A x \in S : x \in Nat /\ x \notin B[x]
      BY <2>2, <2>5
    <3>2. \A x, y \in S : x = y \/ x \in B[y] \/ y \in B[x]
      BY <2>5, <3>1
    <3>3. \A x, y, z \in S : x \in B[y] /\ z \in B[x] => z \in B[y]
      BY <2>5, <3>1
    <3>4. \A x, y \in S : x \in B[y] => B[x] \subseteq B[y]
      BY <2>5, <3>3
    <3> QED BY <2>5, <3>1, <3>2, <3>4 DEF Precedes
  <2>7. \A m \in 0..(Cardinality(S) - 1) : \E x \in S : Cardinality(B[x]) = m
    <3>1. Numbers(S, B)
      BY <2>2, <2>6, RanksNumber
    <3> QED BY <3>1 DEF Numbers
  <2>8. \E x \in S : Cardinality({y \in S : y < x}) = k - 1
    <3>1. k - 1 \in 0..(Cardinality(S) - 1)
      BY <2>2, <2>4, FS_CardinalityType
    <3>2. PICK x \in S : Cardinality(B[x]) = k - 1
      BY <2>7, <3>1
    <3> QED BY <3>2 DEF B
  <2> QED BY <2>1, <2>4, <2>8
<1> QED BY <1>1, <1>2 DEF Perms

LEMMA PreimagesArePoints ==
  ASSUME NEW d, NEW p \in Perms(d), NEW img \in Val,
         Cardinality(invOptions(p, img)) > 1
  PROVE  Min(invOptions(p, img)) \in Val /\ Max(invOptions(p, img)) \in Val
<1> DEFINE A == invOptions(p, img)
<1>1. A \in SUBSET Val
  <2>1. CASE p \in PlainPerms
    <3>1. p.kind = "plain" /\ p.part \in SUBSET Nat
      BY <2>1, ValFinite DEF PlainPerms
    <3>2. PICK n, ring :
               n \in Nat \ {0} /\ ring = Ring(p.part, IndexOf(p, img)) /\ ring \in [1..n -> Val]
      BY <2>1, <3>1, PlainIndex, RingOfPoints
    <3> QED BY <3>1, <3>2 DEF invOptions, PlainInvOptions
  <2>2. CASE p \in BitPerms(d)
    BY <2>2 DEF BitPerms, invOptions
  <2> QED BY <2>1, <2>2 DEF Perms
<1>2. A # {}
  BY FS_EmptySet
<1> HIDE DEF A
<1>3. A \in SUBSET Nat /\ N \in Nat /\ \A y \in A : y <= N
  BY <1>1, ValFinite, NAssumption DEF Val
<1>4. Min(A) \in A /\ Max(A) \in A
  BY <1>2, <1>3, MinMember, MaxMember
<1> QED BY <1>1, <1>4 DEF A
-----------------------------------------------------------------------------
(* A block is an interval.                                                 *)
LEMMA BlockBounds ==
  ASSUME NEW S \in SUBSET Val, 0 \in S, NEW x \in Val
  PROVE  /\ BlockStart(S, x) \in S /\ BlockStart(S, x) \in 0..x
         /\ BlockEnd(S, x) \in (x + 1)..N
         /\ BlockEnd(S, x) \in S \cup {N}
         /\ \A i \in S : i <= BlockStart(S, x) \/ i >= BlockEnd(S, x)
<1> DEFINE A == {0} \cup {i \in S : i <= x}
           B == {N} \cup {i \in S : i > x}
<1>1. x \in Nat /\ N \in Nat /\ x < N /\ \A i \in S : i \in Nat /\ i < N
  BY NAssumption DEF Val
<1>2. A # {} /\ \A y \in A : y \in Nat /\ y <= x /\ y \in S
  BY <1>1
<1>3. N \in B /\ \A y \in B : y \in Nat /\ y > x /\ y <= N /\ y \in S \cup {N}
  BY <1>1
<1>4. BlockStart(S, x) \in A /\ \A y \in A : y <= BlockStart(S, x)
  <2> HIDE DEF A
  <2>1. A \in SUBSET Nat
    BY <1>2
  <2>2. Max(A) \in A /\ \A y \in A : y <= Max(A)
    BY <1>1, <1>2, <2>1, MaxMember
  <2> QED BY <2>2 DEF BlockStart, A
<1>5. BlockEnd(S, x) \in B /\ \A y \in B : BlockEnd(S, x) <= y
  <2> HIDE DEF B
  <2>1. B \in SUBSET Nat
    BY <1>3
  <2>2. Min(B) \in B /\ \A y \in B : Min(B) <= y
    BY <1>3, <2>1, MinMember
  <2> QED BY <2>2 DEF BlockEnd, B
<1>6. \A i \in S : i \in A \/ i \in B
  BY <1>1
<1> HIDE DEF A, B
<1>7. BlockStart(S, x) \in S /\ BlockStart(S, x) \in 0..x
  BY <1>1, <1>2, <1>4
<1>8. BlockEnd(S, x) \in (x + 1)..N /\ BlockEnd(S, x) \in S \cup {N}
  <2>1. PICK b \in B : b = BlockEnd(S, x)
    BY <1>5
  <2>2. b \in Nat /\ b > x /\ b <= N /\ b \in S \cup {N}
    BY <1>3
  <2> QED BY <1>1, <2>1, <2>2
<1>9. ASSUME NEW i \in S
      PROVE  i <= BlockStart(S, x) \/ i >= BlockEnd(S, x)
  <2>1. CASE i \in A
    BY <1>4, <2>1
  <2>2. CASE i \in B
    <3>1. BlockEnd(S, x) <= i
      BY <1>5, <2>2
    <3> QED BY <1>1, <1>8, <3>1
  <2> QED BY <1>6, <2>1, <2>2
<1> QED BY <1>7, <1>8, <1>9

(* The block of x is found by any such interval.                           *)
LEMMA BlockIs ==
  ASSUME NEW S \in SUBSET Val, 0 \in S, NEW x \in Val,
         NEW p \in S, NEW q \in S \cup {N}, p <= x, x < q,
         \A i \in S : i <= p \/ i >= q
  PROVE  BlockStart(S, x) = p /\ BlockEnd(S, x) = q
<1>1. x \in Nat /\ p \in Nat /\ q \in Nat /\ N \in Nat /\ \A i \in S : i \in Nat
  BY NAssumption DEF Val
<1> DEFINE a == BlockStart(S, x)
           b == BlockEnd(S, x)
<1>2. /\ a \in S /\ a \in 0..x /\ b \in (x + 1)..N /\ b \in S \cup {N}
      /\ \A i \in S : i <= a \/ i >= b
  BY BlockBounds
<1>3. a \in Nat /\ b \in Nat /\ a <= x /\ b > x /\ b <= N
  BY <1>1, <1>2
<1> HIDE DEF a, b
<1>4. a <= p /\ p <= a
  BY <1>1, <1>2, <1>3
<1>5. q <= N
  BY NAssumption DEF Val
<1>6. b >= q
  BY <1>1, <1>2, <1>3, <1>5
<1>7. q >= b
  BY <1>1, <1>2, <1>3
<1> QED BY <1>1, <1>3, <1>4, <1>6, <1>7 DEF a, b

(* The points of a block have the same block.                              *)
LEMMA SameBlock ==
  ASSUME NEW S \in SUBSET Val, 0 \in S, NEW x \in Val, NEW y \in Val
  PROVE  /\ y \in BlockStart(S, x)..(BlockEnd(S, x) - 1)
              => /\ BlockStart(S, y) = BlockStart(S, x)
                 /\ BlockEnd(S, y) = BlockEnd(S, x)
         /\ BlockStart(S, y) = BlockStart(S, x)
              => y \in BlockStart(S, x)..(BlockEnd(S, x) - 1)
<1> DEFINE a == BlockStart(S, x)
           b == BlockEnd(S, x)
           c == BlockStart(S, y)
<1>1. x \in Nat /\ y \in Nat /\ N \in Nat /\ \A i \in S : i \in Nat
  BY NAssumption DEF Val
<1>2. /\ a \in S /\ a \in 0..x /\ b \in (x + 1)..N /\ b \in S \cup {N}
      /\ \A i \in S : i <= a \/ i >= b
  BY BlockBounds
<1>3. c \in S /\ c \in 0..y /\ \A i \in S : i <= c \/ i >= BlockEnd(S, y)
  BY BlockBounds
<1>4. BlockEnd(S, y) \in (y + 1)..N
  BY BlockBounds
<1>5. ASSUME y \in a..(b - 1)
      PROVE  c = a /\ BlockEnd(S, y) = b
  <2> HIDE DEF a, b
  <2>1. a <= y /\ y < b
    BY <1>1, <1>2, <1>5
  <2> QED BY <1>2, <2>1, BlockIs
<1>6. ASSUME c = a
      PROVE  y \in a..(b - 1)
  <2> DEFINE e == BlockEnd(S, y)
  <2>1. e \in Nat /\ e > y /\ b \in Nat /\ a \in Nat /\ a <= y /\ b <= N /\ y < N
    BY <1>1, <1>2, <1>3, <1>4, <1>6 DEF Val
  <2>2. b \in S => b <= a \/ b >= e
    BY <1>3, <1>6
  <2> HIDE DEF a, b, c, e
  <2>3. y < b
    BY <1>1, <1>2, <2>1, <2>2
  <2> QED BY <1>1, <2>1, <2>3
<1> QED BY <1>5, <1>6

(* The remainder, for less than twice the divisor.                         *)
LEMMA ModOnce ==
  ASSUME NEW n \in Nat \ {0}, NEW a \in 0..(2 * n - 1)
  PROVE  a % n = IF a < n THEN a ELSE a - n
<1>1. a = n * (a \div n) + (a % n) /\ a % n \in 0..(n - 1) /\ a \div n \in Int
  OBVIOUS
<1> QED BY <1>1

(* The point k steps after x on the block of x.                            *)
Around(S, x, k) ==
  IF x + k < BlockEnd(S, x) THEN x + k
  ELSE x + k - (BlockEnd(S, x) - BlockStart(S, x))

BlockLength(S, x) == BlockEnd(S, x) - BlockStart(S, x)

GoesAround(S, x) ==
  /\ BlockLength(S, x) \in Nat \ {0}
  /\ BlockLength(S, x) <= N
  /\ \A k \in 0..(BlockLength(S, x) - 1) :
       Around(S, x, k) \in BlockStart(S, x)..(BlockEnd(S, x) - 1)
  /\ \A k \in 0..(BlockLength(S, x) - 1) : Around(S, x, k) \in Val
  /\ Around(S, x, 0) = x
  /\ \A y \in BlockStart(S, x)..(BlockEnd(S, x) - 1) :
       \E k \in 0..(BlockLength(S, x) - 1) : y = Around(S, x, k)
  /\ \A k, m \in 0..(BlockLength(S, x) - 1) :
       Around(S, x, k) = Around(S, x, m) => k = m
  /\ Ring(S, x) = [k \in 1..BlockLength(S, x) |-> Around(S, x, k - 1)]

LEMMA GoAround ==
  ASSUME NEW S \in SUBSET Val, 0 \in S, NEW x \in Val
  PROVE  GoesAround(S, x)
<1> DEFINE p == BlockStart(S, x)
           q == BlockEnd(S, x)
           n == BlockLength(S, x)
<1>1. x \in Nat /\ x < N /\ N \in Nat
  BY NAssumption DEF Val
<1>2. p \in Nat /\ q \in Nat /\ p <= x /\ x < q /\ q <= N /\ n = q - p
  BY <1>1, BlockBounds DEF BlockLength
<1>3. \A k : Around(S, x, k) = IF x + k < q THEN x + k ELSE x + k - n
  BY DEF Around, BlockLength
<1>4. Ring(S, x) = [k \in 1..n |-> p + ((x - p + k - 1) % n)]
  BY DEF Ring, BlockLength
<1> HIDE DEF p, q, n
<1>5. n \in Nat \ {0} /\ n <= N
  BY <1>1, <1>2
<1>6. ASSUME NEW k \in 0..(n - 1)
      PROVE  Around(S, x, k) \in p..(q - 1) /\ Around(S, x, k) \in Val
  <2>1. Around(S, x, k) \in p..(q - 1)
    BY <1>1, <1>2, <1>3
  <2>2. \A y \in p..(q - 1) : y \in Val
    BY <1>1, <1>2 DEF Val
  <2> QED BY <2>1, <2>2
<1>7. Around(S, x, 0) = x
  BY <1>1, <1>2, <1>3
<1>8. ASSUME NEW y \in p..(q - 1)
      PROVE  \E k \in 0..(n - 1) : y = Around(S, x, k)
  <2>1. y \in Nat /\ y >= p /\ y < q
    BY <1>2
  <2>2. CASE y >= x
    <3>1. y - x \in 0..(n - 1) /\ Around(S, x, y - x) = y
      BY <1>1, <1>2, <1>3, <2>1, <2>2
    <3> QED BY <3>1
  <2>3. CASE y < x
    <3>1. y - x + n \in 0..(n - 1) /\ Around(S, x, y - x + n) = y
      BY <1>1, <1>2, <1>3, <2>1, <2>3
    <3> QED BY <3>1
  <2> QED BY <1>1, <2>1, <2>2, <2>3
<1>9. ASSUME NEW k \in 0..(n - 1), NEW m \in 0..(n - 1),
             Around(S, x, k) = Around(S, x, m)
      PROVE  k = m
  BY <1>1, <1>2, <1>3, <1>9
<1>10. Ring(S, x) = [k \in 1..n |-> Around(S, x, k - 1)]
  <2> SUFFICES ASSUME NEW k \in 1..n
               PROVE  p + ((x - p + k - 1) % n) = Around(S, x, k - 1)
    BY <1>4
  <2>1. PICK a : a = x - p + k - 1
    OBVIOUS
  <2>2. a \in 0..(2 * n - 1) /\ k \in Nat
    BY <1>1, <1>2, <1>5, <2>1
  <2>3. a % n = IF a < n THEN a ELSE a - n
    BY <1>5, <2>2, ModOnce
  <2>4. x - p + k - 1 = a /\ a < n <=> x + (k - 1) < q
    BY <1>1, <1>2, <2>1, <2>2
  <2>5. a % n = (x - p + k - 1) % n
    BY <2>1
  <2> QED BY <1>1, <1>2, <1>3, <2>1, <2>2, <2>3, <2>5
<1> QED BY <1>5, <1>6, <1>7, <1>8, <1>9, <1>10 DEF GoesAround, p, q, n

(* The diagonal leads around.                                              *)
LEMMA DiagonalLeads ==
  ASSUME NEW d, NEW S \in SUBSET Val, Follows(d, S), NEW x \in Val
  PROVE  /\ d[x] \in BlockStart(S, x)..(BlockEnd(S, x) - 1)
         /\ \A k \in 0..(BlockLength(S, x) - 2) :
              d[Around(S, x, k)] = Around(S, x, k + 1)
         /\ d[Around(S, x, BlockLength(S, x) - 1)] = x
<1> DEFINE p == BlockStart(S, x)
           q == BlockEnd(S, x)
           n == BlockLength(S, x)
<1>1. x \in Nat /\ x < N /\ N \in Nat /\ 0 \in S /\ \A i \in S : i \in Nat
  BY NAssumption DEF Val, Follows
<1>2. /\ p \in Nat /\ q \in Nat /\ p <= x /\ x < q /\ q <= N /\ n = q - p
      /\ p \in S /\ q \in S \cup {N} /\ \A i \in S : i <= p \/ i >= q
  BY <1>1, BlockBounds DEF BlockLength
<1>3. \A k : Around(S, x, k) = IF x + k < q THEN x + k ELSE x + k - n
  BY DEF Around, BlockLength
<1>4. \A k \in 0..(n - 1) : Around(S, x, k) \in p..(q - 1)
  BY <1>1, GoAround DEF GoesAround
<1>5. ASSUME NEW y \in p..(q - 1)
      PROVE  d[y] = IF y + 1 < q THEN y + 1 ELSE p
  <2> HIDE DEF p, q, n
  <2>1. y \in Val /\ y \in Nat /\ y >= p /\ y < q
    BY <1>1, <1>2 DEF Val
  <2>2. BlockStart(S, y) = p
    BY <1>1, <2>1, SameBlock DEF p, q
  <2>3. y + 1 \in Val \ S <=> y + 1 < q
    <3>1. CASE y + 1 < q
      <4>1. y + 1 \in Val
        BY <1>1, <1>2, <2>1, <3>1 DEF Val
      <4>2. y + 1 \notin S
        BY <1>1, <1>2, <2>1, <3>1
      <4> QED BY <3>1, <4>1, <4>2
    <3>2. CASE ~ (y + 1 < q)
      <4>1. y + 1 = q
        BY <1>2, <2>1, <3>2
      <4>2. q \notin Val \ S
        BY <1>1, <1>2 DEF Val
      <4> QED BY <3>2, <4>1, <4>2
    <3> QED BY <3>1, <3>2
  <2> QED BY <2>1, <2>2, <2>3 DEF Follows
<1> HIDE DEF p, q, n
<1>6. d[x] \in p..(q - 1)
  <2>1. x \in p..(q - 1)
    BY <1>1, <1>2
  <2>2. d[x] = IF x + 1 < q THEN x + 1 ELSE p
    BY <1>5, <2>1
  <2> QED BY <1>1, <1>2, <2>2
<1>7. ASSUME NEW k \in 0..(n - 2)
      PROVE  d[Around(S, x, k)] = Around(S, x, k + 1)
  <2>1. k \in 0..(n - 1) /\ k + 1 \in 0..(n - 1) /\ k \in Nat
    BY <1>1, <1>2
  <2>2. PICK y \in p..(q - 1) : y = Around(S, x, k)
    BY <1>4, <2>1
  <2>3. d[y] = IF y + 1 < q THEN y + 1 ELSE p
    BY <1>5
  <2>4. y = IF x + k < q THEN x + k ELSE x + k - n
    BY <1>3, <2>2
  <2>5. Around(S, x, k + 1) = IF x + (k + 1) < q THEN x + (k + 1) ELSE x + (k + 1) - n
    BY <1>3
  <2>6. (IF y + 1 < q THEN y + 1 ELSE p)
          = IF x + (k + 1) < q THEN x + (k + 1) ELSE x + (k + 1) - n
    BY <1>1, <1>2, <2>1, <2>4
  <2> QED BY <2>2, <2>3, <2>5, <2>6
<1>8. d[Around(S, x, n - 1)] = x
  <2>1. n - 1 \in 0..(n - 1) /\ n - 1 \in Nat
    BY <1>1, <1>2
  <2>2. PICK y \in p..(q - 1) : y = Around(S, x, n - 1)
    BY <1>4, <2>1
  <2>3. d[y] = IF y + 1 < q THEN y + 1 ELSE p
    BY <1>5
  <2>4. y = IF x + (n - 1) < q THEN x + (n - 1) ELSE x + (n - 1) - n
    BY <1>3, <2>2
  <2>5. (IF y + 1 < q THEN y + 1 ELSE p) = x
    BY <1>1, <1>2, <2>1, <2>4
  <2> QED BY <2>2, <2>3, <2>5
<1> QED BY <1>6, <1>7, <1>8 DEF p, q, n

(* The cycles are the blocks.                                              *)
LEMMA CyclesAreBlocks ==
  ASSUME NEW d \in [Val -> Val], NEW S \in SUBSET Val, Follows(d, S), NEW x \in Val
  PROVE  /\ CycleOf(d, x) = BlockStart(S, x)..(BlockEnd(S, x) - 1)
         /\ Cardinality(CycleOf(d, x)) = BlockLength(S, x)
         /\ CycleMin(d, x) = BlockStart(S, x)
<1> DEFINE p == BlockStart(S, x)
           q == BlockEnd(S, x)
           n == BlockLength(S, x)
           f == Power(d, x)
           B == p..(q - 1)
<1>1. x \in Nat /\ x < N /\ N \in Nat /\ 0 \in S /\ \A i \in S : i \in Nat
  BY NAssumption DEF Val, Follows
<1>2. /\ p \in Nat /\ q \in Nat /\ p <= x /\ x < q /\ q <= N /\ n = q - p
  BY <1>1, BlockBounds DEF BlockLength
<1>3. f[0] = x /\ \A k \in 1..N : f[k] = d[f[k - 1]]
  BY PowerIterates
<1> HIDE DEF f, p, q, n
<1>4. \A k \in 0..N : f[k] \in B
  <2>1. f[0] \in B
    BY <1>1, <1>2, <1>3
  <2>2. ASSUME NEW y \in B
        PROVE  d[y] \in B
    <3>1. y \in Val
      BY <1>1, <1>2 DEF Val
    <3>2. BlockStart(S, y) = p /\ BlockEnd(S, y) = q
      BY <1>1, <3>1, SameBlock DEF p, q
    <3> QED BY <3>1, <3>2, DiagonalLeads
  <2>3. \A k \in 1..N : f[k - 1] \in B => f[k] \in B
    BY <1>3, <2>2
  <2> HIDE DEF B
  <2> QED BY <1>1, <2>1, <2>3, HandedOn
<1>5. \A k \in 0..(n - 1) : f[k] = Around(S, x, k)
  <2> DEFINE T == {k \in 0..(n - 1) : f[k] # Around(S, x, k)}
  <2> SUFFICES ASSUME T # {}
               PROVE  FALSE
    OBVIOUS
  <2>1. n \in Nat /\ n <= N /\ T \in SUBSET Nat
    BY <1>1, <1>2
  <2>2. PICK m \in T : \A y \in T : m <= y
    BY <2>1, LeastNat
  <2>3. m # 0 /\ m \in 0..(n - 1)
    <3>1. Around(S, x, 0) = x
      BY <1>1, GoAround DEF GoesAround
    <3> QED BY <1>3, <3>1
  <2> HIDE DEF T
  <2>4. m - 1 \in 0..(n - 2) /\ m - 1 \in 0..(n - 1) /\ m \in 1..N /\ (m - 1) + 1 = m
    BY <1>1, <2>1, <2>3
  <2>5. f[m - 1] = Around(S, x, m - 1)
    BY <2>1, <2>2, <2>4 DEF T
  <2>6. d[Around(S, x, m - 1)] = Around(S, x, m)
    BY <2>4, DiagonalLeads DEF n
  <2> QED BY <1>3, <2>2, <2>4, <2>5, <2>6 DEF T
<1>6. CycleOf(d, x) = B
  <2>1. ASSUME NEW y \in B
        PROVE  \E k \in 0..N : y = f[k]
    <3>1. PICK k \in 0..(n - 1) : y = Around(S, x, k)
      BY <1>1, GoAround DEF GoesAround, p, q, n
    <3>2. k \in 0..N
      BY <1>1, <1>2
    <3> QED BY <1>5, <3>1, <3>2
  <2> HIDE DEF B
  <2> QED BY <1>4, <2>1 DEF CycleOf, f
<1>7. Cardinality(B) = n
  <2>1. p \in Int /\ q - 1 \in Int /\ ~ (p > q - 1) /\ (q - 1) - p + 1 = n
    BY <1>1, <1>2
  <2> QED BY <2>1, FS_Interval
<1>8. Min(B) = p
  <2>1. B \in SUBSET Nat /\ p \in B /\ \A y \in B : p <= y
    BY <1>1, <1>2
  <2> HIDE DEF B
  <2>2. Min(B) \in Nat /\ Min(B) <= p /\ p <= Min(B)
    BY <2>1, MinMember
  <2> QED BY <1>2, <2>2
<1> QED BY <1>6, <1>7, <1>8 DEF CycleMin, p, q, n

LEMMA BelowCount ==
  ASSUME NEW x \in Val
  PROVE  /\ Cardinality({y \in Val : y < x}) = x
         /\ 0..(x - 1) = {y \in Val : y < x}
<1>1. x \in Nat /\ x < N /\ N \in Nat
  BY NAssumption DEF Val
<1>2. {y \in Val : y < x} = 0..(x - 1)
  BY <1>1 DEF Val
<1>3. Cardinality(0..(x - 1)) = x
  <2>1. 0 \in Int /\ x - 1 \in Int
    BY <1>1
  <2>2. Cardinality(0..(x - 1)) = IF 0 > x - 1 THEN 0 ELSE (x - 1) - 0 + 1
    BY <2>1, FS_Interval
  <2> QED BY <1>1, <2>2
<1> QED BY <1>2, <1>3

(* What permToCyclePerm finds are the starts of the blocks.                *)
LEMMA StartsAreStarts ==
  ASSUME NEW d \in [Val -> Val], NEW S \in SUBSET Val, Follows(d, S)
  PROVE  CycleStarts(d) = S
<1>1. 0 \in S /\ \A i \in S : i \in Nat
  BY NAssumption DEF Val, Follows
<1>2. \A y \in Val : CycleMin(d, y) = BlockStart(S, y) /\ BlockStart(S, y) \in S
                     /\ BlockStart(S, y) \in 0..y
  BY <1>1, CyclesAreBlocks, BlockBounds
<1>3. ASSUME NEW x \in S
      PROVE  BlockStart(S, x) = x
  <2>1. x \in Val /\ x \in Nat /\ BlockStart(S, x) \in 0..x /\ BlockEnd(S, x) > x
    BY <1>1, BlockBounds
  <2>2. x <= BlockStart(S, x) \/ x >= BlockEnd(S, x)
    BY <1>1, <2>1, BlockBounds
  <2>3. BlockEnd(S, x) \in Nat
    BY <1>1, <2>1, NAssumption, BlockBounds
  <2> QED BY <2>1, <2>2, <2>3
<1>4. {y \in Val : y = CycleMin(d, y)} = S
  BY <1>2, <1>3
<1>5. ASSUME NEW x \in S
      PROVE  CyclePosition(d, x) = x
  <2>1. x \in Val /\ x \in Nat /\ CycleMin(d, x) = x
    BY <1>1, <1>2, <1>3
  <2>2. ASSUME NEW y \in Val
        PROVE  BlockStart(S, y) < x <=> y < x
    <3>1. y \in Nat /\ BlockStart(S, y) \in 0..y /\ BlockEnd(S, y) \in (y + 1)..N
      BY <1>1, BlockBounds DEF Val
    <3>2. x <= BlockStart(S, y) \/ x >= BlockEnd(S, y)
      BY <1>1, BlockBounds
    <3>3. BlockEnd(S, y) > y /\ BlockEnd(S, y) \in Nat
      BY <3>1, NAssumption
    <3> QED BY <2>1, <3>1, <3>2, <3>3
  <2>3. {y \in Val : CycleMin(d, y) < CycleMin(d, x)} = {y \in Val : y < x}
    BY <1>2, <2>1, <2>2
  <2> DEFINE K == {k \in 0..N : Power(d, x)[k] = x}
  <2>4. 0 \in K /\ K \in SUBSET Nat
    BY <2>1, NAssumption, PowerIterates
  <2>5. Min(K) = 0
    <3> HIDE DEF K
    <3>1. Min(K) \in Nat /\ Min(K) <= 0
      BY <2>4, MinMember
    <3> QED BY <3>1
  <2>6. CyclePosition(d, x) = Cardinality({y \in Val : y < x}) + Min(K)
    BY <2>1, <2>3 DEF CyclePosition
  <2> HIDE DEF K
  <2> QED BY <2>1, <2>5, <2>6, BelowCount
<1> QED BY <1>4, <1>5 DEF CycleStarts
-----------------------------------------------------------------------------
(* The first points of the classes.                                        *)
FirstOf(d, x) == Min(ClassOf(d, x))

LEMMA FirstPoints ==
  ASSUME NEW d, NEW x \in Val
  PROVE  /\ FirstOf(d, x) \in ClassOf(d, x) /\ FirstOf(d, x) \in Val
         /\ FirstOf(d, FirstOf(d, x)) = FirstOf(d, x)
         /\ FirstOf(d, x) <= x
         /\ \A y \in ClassOf(d, x) : FirstOf(d, y) = FirstOf(d, x) /\ FirstOf(d, x) <= y
<1>1. ClassOf(d, x) \in SUBSET Nat /\ x \in ClassOf(d, x)
  BY Classes, ValFinite
<1>2. /\ FirstOf(d, x) \in ClassOf(d, x)
      /\ \A y \in ClassOf(d, x) : FirstOf(d, x) <= y
  BY <1>1, MinMember DEF FirstOf
<1>3. \A y \in ClassOf(d, x) : FirstOf(d, y) = FirstOf(d, x)
  BY Classes DEF FirstOf
<1> QED BY <1>1, <1>2, <1>3, Classes

(* Points of different classes are ordered as their classes are.           *)
LEMMA ClassesInOrder ==
  ASSUME NEW d, Adjacent(d), NEW x \in Val, NEW y \in Val, x < y, y \notin ClassOf(d, x)
  PROVE  x < FirstOf(d, y) /\ FirstOf(d, x) < FirstOf(d, y)
<1>1. x \in Nat /\ y \in Nat
  BY ValFinite
<1>2. /\ FirstOf(d, y) \in ClassOf(d, y) /\ FirstOf(d, y) \in Val /\ FirstOf(d, y) \in Nat
      /\ FirstOf(d, x) \in Nat /\ FirstOf(d, x) <= x
  BY FirstPoints, ValFinite
<1>3. x \notin ClassOf(d, y)
  BY Classes
<1>4. ~ (FirstOf(d, y) < x)
  <2>1. y \in ClassOf(d, FirstOf(d, y)) /\ ClassOf(d, FirstOf(d, y)) = ClassOf(d, y)
    BY <1>2, Classes
  <2> QED BY <1>2, <1>3, <2>1 DEF Adjacent
<1>5. FirstOf(d, y) # x
  BY <1>2, <1>3
<1> QED BY <1>1, <1>2, <1>4, <1>5

(* cycleToParts leaves such points where they are.                         *)
LEMMA PositionIsPoint ==
  ASSUME NEW d, Adjacent(d), NEW x \in Val
  PROVE  ClassPosition(d, x) = x
<1>1. ASSUME NEW y \in Val
      PROVE  (FirstOf(d, y) < FirstOf(d, x) \/ (y \in ClassOf(d, x) /\ y < x)) <=> y < x
  <2>1. /\ x \in Nat /\ y \in Nat
        /\ FirstOf(d, x) \in Nat /\ FirstOf(d, y) \in Nat
    BY FirstPoints, ValFinite
  <2>2. CASE y \in ClassOf(d, x)
    <3>1. FirstOf(d, y) = FirstOf(d, x)
      BY <2>2, FirstPoints
    <3> QED BY <2>1, <2>2, <3>1
  <2>3. CASE y \notin ClassOf(d, x) /\ y < x
    <3>1. x \notin ClassOf(d, y)
      BY <2>3, Classes
    <3> QED BY <2>3, <3>1, ClassesInOrder
  <2>4. CASE y \notin ClassOf(d, x) /\ ~ (y < x)
    <3>1. x < y
      BY <2>1, <2>4, Classes
    <3>2. FirstOf(d, x) < FirstOf(d, y)
      BY <2>4, <3>1, ClassesInOrder
    <3> QED BY <2>1, <2>4, <3>2
  <2> QED BY <2>2, <2>3, <2>4
<1>2. ClassPosition(d, x)
        = Cardinality({y \in Val : FirstOf(d, y) < FirstOf(d, x) \/ (y \in ClassOf(d, x) /\ y < x)})
  BY DEF ClassPosition, FirstOf
<1>3. {y \in Val : FirstOf(d, y) < FirstOf(d, x) \/ (y \in ClassOf(d, x) /\ y < x)}
        = {y \in Val : y < x}
  BY <1>1
<1> QED BY <1>2, <1>3, BelowCount

(* The two representations of a permutation h whose points in F are        *)
(* decided.                                                                *)
Parts(d, F) ==
  {y \in Val : y = FirstOf(d, y)} \cup ({x + 1 : x \in F} \cap Val)

As(kind, d, h, F) ==
  IF kind = "plain" THEN [kind |-> "plain", element |-> h, part |-> Parts(d, F)]
  ELSE [kind |-> "bit", info |-> [x \in Val |-> Images(d, h, F, x)]]

LEMMA Constructed ==
  ASSUME NEW d, Adjacent(d)
  PROVE  /\ pperm_plain(d) = As("plain", d, Identity, {})
         /\ pperm_bit(d) = As("bit", d, Identity, {})
<1>1. [i \in Val |-> CHOOSE x \in Val : ClassPosition(d, x) = i] = Identity
  <2>1. ASSUME NEW i \in Val
        PROVE  (CHOOSE x \in Val : ClassPosition(d, x) = i) = i
    <3>1. \A x \in Val : ClassPosition(d, x) = i <=> x = i
      BY PositionIsPoint
    <3> QED BY <3>1
  <2> QED BY <2>1 DEF Identity
<1>2. {ClassPosition(d, x) : x \in {y \in Val : y = Min(ClassOf(d, y))}} = Parts(d, {})
  <2>1. {ClassPosition(d, x) : x \in {y \in Val : y = FirstOf(d, y)}}
          = {y \in Val : y = FirstOf(d, y)}
    BY PositionIsPoint
  <2>2. Parts(d, {}) = {y \in Val : y = FirstOf(d, y)}
    BY DEF Parts
  <2> QED BY <2>1, <2>2 DEF FirstOf
<1>3. pperm_plain(d) = As("plain", d, Identity, {})
  BY <1>1, <1>2 DEF pperm_plain, As
<1>4. ASSUME NEW x \in Val
      PROVE  Images(d, Identity, {}, x) = ClassOf(d, x)
  <2>1. Images(d, Identity, {}, x) = {Identity[y] : y \in ClassOf(d, x)}
    BY DEF Images
  <2>2. \A y \in ClassOf(d, x) : Identity[y] = y
    BY Classes DEF Identity
  <2> QED BY <2>1, <2>2
<1>5. pperm_bit(d) = As("bit", d, Identity, {})
  <2>1. As("bit", d, Identity, {})
          = [kind |-> "bit", info |-> [x \in Val |-> Images(d, Identity, {}, x)]]
    BY DEF As
  <2> QED BY <1>4, <2>1 DEF pperm_bit
<1> QED BY <1>3, <1>5

(* Where the images of x may still go: what fix may exchange.              *)
Room(d, F, x) == IF x \in F THEN {x} ELSE ClassOf(d, x) \ F

(* In every class the decided points come first.                           *)
Filled(d, F) ==
  \A x \in F, y \in Val : y \in ClassOf(d, x) /\ y < x => y \in F

LEMMA PartsStart ==
  ASSUME NEW d, NEW F \in SUBSET Val
  PROVE  Parts(d, F) \in SUBSET Val /\ 0 \in Parts(d, F)
<1>1. 0 \in Val
  BY NAssumption DEF Val
<1>2. FirstOf(d, 0) \in Nat /\ FirstOf(d, 0) <= 0
  BY <1>1, FirstPoints, ValFinite
<1>3. FirstOf(d, 0) = 0
  BY <1>2
<1> QED BY <1>1, <1>3 DEF Parts

(* Two points share a block unless a block starts between them.            *)
LEMMA SharedBlock ==
  ASSUME NEW S \in SUBSET Val, 0 \in S, NEW x \in Val, NEW y \in Val
  PROVE  y \in BlockStart(S, x)..(BlockEnd(S, x) - 1)
           <=> \A i \in S : ~ (x < i /\ i <= y) /\ ~ (y < i /\ i <= x)
<1> DEFINE p == BlockStart(S, x)
           q == BlockEnd(S, x)
<1>1. x \in Nat /\ y \in Nat /\ y < N /\ N \in Nat /\ \A i \in S : i \in Nat
  BY NAssumption DEF Val
<1>2. /\ p \in S /\ p \in 0..x /\ q \in (x + 1)..N /\ q \in S \cup {N}
      /\ \A i \in S : i <= p \/ i >= q
  BY BlockBounds
<1> HIDE DEF p, q
<1>3. p \in Nat /\ q \in Nat /\ p <= x /\ x < q
  BY <1>1, <1>2
<1>4. ASSUME y \in p..(q - 1), NEW i \in S
      PROVE  ~ (x < i /\ i <= y) /\ ~ (y < i /\ i <= x)
  <2>1. p <= y /\ y < q /\ i \in Nat /\ (i <= p \/ i >= q)
    BY <1>1, <1>2, <1>3, <1>4
  <2> QED BY <1>1, <1>3, <2>1
<1>5. ASSUME \A i \in S : ~ (x < i /\ i <= y) /\ ~ (y < i /\ i <= x)
      PROVE  y \in p..(q - 1)
  <2>1. ~ (y < p /\ p <= x)
    BY <1>2, <1>5
  <2>2. q \in S => ~ (x < q /\ q <= y)
    BY <1>5
  <2> QED BY <1>1, <1>2, <1>3, <2>1, <2>2
<1> QED BY <1>4, <1>5 DEF p, q

(* The blocks of pperm_plain are what is left of the classes.              *)
LEMMA BlocksAreRooms ==
  ASSUME NEW d, Adjacent(d), NEW F \in SUBSET Val, Filled(d, F), NEW x \in Val
  PROVE  BlockStart(Parts(d, F), x)..(BlockEnd(Parts(d, F), x) - 1) = Room(d, F, x)
<1> DEFINE P == Parts(d, F)
           Between(y, i) == (x < i /\ i <= y) \/ (y < i /\ i <= x)
<1>1. P \in SUBSET Val /\ 0 \in P
  BY PartsStart
<1>2. \A y \in Val : y \in Nat
  BY ValFinite
<1>3. \A z \in Val : z + 1 \in Val /\ z \in F => z + 1 \in P
  BY DEF Parts
<1>4. \A z \in Val : FirstOf(d, z) \in P
  BY FirstPoints DEF Parts
<1>5. ASSUME NEW y \in Room(d, F, x), NEW i \in P
      PROVE  ~ Between(y, i)
  <2>1. CASE x \in F
    <3>1. y = x
      BY <1>5, <2>1 DEF Room
    <3> QED BY <1>1, <1>2, <3>1
  <2>2. CASE x \notin F
    <3>1. y \in Val /\ y \in ClassOf(d, x) /\ y \notin F
      BY <1>5, <2>2, Classes DEF Room
    <3> SUFFICES ASSUME Between(y, i)
                 PROVE  FALSE
      OBVIOUS
    <3>2. PICK lo \in Val, hi \in Val :
                 /\ lo < i /\ i <= hi /\ hi \in ClassOf(d, lo) /\ lo \notin F
                 /\ \A z \in Val : z \in ClassOf(d, lo) => ClassOf(d, z) = ClassOf(d, lo)
      <4>1. CASE x < i /\ i <= y
        BY <2>2, <3>1, <4>1, Classes
      <4>2. CASE y < i /\ i <= x
        BY <3>1, <4>2, Classes
      <4> QED BY <4>1, <4>2
    <3>3. lo \in Nat /\ hi \in Nat /\ i \in Nat /\ i \in Val
      BY <1>1, <1>2
    <3>4. i \in ClassOf(d, lo)
      BY <3>2, <3>3 DEF Adjacent
    <3>5. CASE i = FirstOf(d, i)
      <4>1. lo \in ClassOf(d, i)
        BY <3>2, <3>3, <3>4, Classes
      <4>2. i <= lo
        BY <3>3, <3>5, <4>1, FirstPoints
      <4> QED BY <3>2, <3>3, <4>2
    <3>6. CASE i # FirstOf(d, i)
      <4>1. PICK z \in F : i = z + 1
        BY <3>6 DEF Parts
      <4>2. z \in Val /\ z \in Nat /\ lo <= z /\ z < hi
        BY <1>2, <3>2, <3>3, <4>1
      <4>3. z \in ClassOf(d, lo)
        <5>1. CASE z = lo
          BY <5>1, <4>2, Classes
        <5>2. CASE z # lo
          BY <3>2, <3>3, <4>2, <5>2 DEF Adjacent
        <5> QED BY <5>1, <5>2
      <4>4. lo \in ClassOf(d, z)
        BY <3>2, <4>2, <4>3, Classes
      <4>5. lo \in F
        <5>1. CASE z = lo
          BY <5>1
        <5>2. CASE z # lo
          BY <3>3, <4>2, <4>4, <5>2 DEF Filled
        <5> QED BY <5>1, <5>2
      <4> QED BY <3>2, <4>5
    <3> QED BY <3>5, <3>6
  <2> QED BY <2>1, <2>2
<1>6. ASSUME NEW y \in Val, y \notin Room(d, F, x)
      PROVE  \E i \in P : Between(y, i)
  <2>1. x \in Nat /\ y \in Nat /\ x # y
    <3>1. x \in Room(d, F, x)
      BY Classes DEF Room
    <3> QED BY <1>2, <1>6, <3>1
  <2>2. CASE y \notin ClassOf(d, x)
    <3>1. CASE x < y
      <4>1. x < FirstOf(d, y) /\ FirstOf(d, y) <= y
        BY <2>2, <3>1, ClassesInOrder, FirstPoints
      <4> QED BY <1>4, <4>1
    <3>2. CASE y < x
      <4>1. x \notin ClassOf(d, y)
        BY <2>2, Classes
      <4>2. y < FirstOf(d, x) /\ FirstOf(d, x) <= x
        BY <3>2, <4>1, ClassesInOrder, FirstPoints
      <4> QED BY <1>4, <4>2
    <3> QED BY <2>1, <3>1, <3>2
  <2>3. CASE y \in ClassOf(d, x)
    <3>1. x \in F \/ y \in F
      BY <1>6, <2>3 DEF Room
    <3>2. x \in ClassOf(d, y)
      BY <2>3, Classes
    <3>3. CASE x < y
      <4>1. x \in F
        BY <3>1, <3>2, <3>3 DEF Filled
      <4>2. x + 1 \in Val /\ x < x + 1 /\ x + 1 <= y
        BY <2>1, <3>3, NAssumption DEF Val
      <4> QED BY <1>3, <4>1, <4>2
    <3>4. CASE y < x
      <4>1. y \in F
        BY <2>3, <3>1, <3>4 DEF Filled
      <4>2. y + 1 \in Val /\ y < y + 1 /\ y + 1 <= x
        BY <2>1, <3>4, NAssumption DEF Val
      <4> QED BY <1>3, <4>1, <4>2
    <3> QED BY <2>1, <3>3, <3>4
  <2> QED BY <2>2, <2>3
<1>7. Room(d, F, x) \subseteq Val
  BY Classes DEF Room
<1>8. BlockStart(P, x)..(BlockEnd(P, x) - 1) \subseteq Val
  <2>1. BlockStart(P, x) \in 0..x /\ BlockEnd(P, x) \in (x + 1)..N /\ x \in Nat
    BY <1>1, <1>2, BlockBounds
  <2> QED BY <2>1, NAssumption DEF Val
<1> HIDE DEF P
<1>9. \A y \in Val : y \in BlockStart(P, x)..(BlockEnd(P, x) - 1) <=> y \in Room(d, F, x)
  BY <1>1, <1>5, <1>6, SharedBlock
<1> QED BY <1>7, <1>8, <1>9 DEF P
-----------------------------------------------------------------------------
(* What the interface says of either representation.                       *)

LEMMA RingIsRoom ==
  ASSUME NEW d, Adjacent(d), NEW F \in SUBSET Val, Filled(d, F), NEW x \in Val
  PROVE  /\ {Ring(Parts(d, F), x)[k] : k \in DOMAIN Ring(Parts(d, F), x)} = Room(d, F, x)
         /\ \A k \in DOMAIN Ring(Parts(d, F), x) : Ring(Parts(d, F), x)[k] \in Val
<1>1. PICK S : S = Parts(d, F) /\ S \in SUBSET Val /\ 0 \in S
  BY PartsStart
<1> DEFINE n == BlockLength(S, x)
           B == BlockStart(S, x)..(BlockEnd(S, x) - 1)
<1>3. B = Room(d, F, x)
  BY <1>1, BlocksAreRooms
<1>4. /\ n \in Nat \ {0}
      /\ \A k \in 0..(n - 1) : Around(S, x, k) \in B /\ Around(S, x, k) \in Val
      /\ \A y \in B : \E k \in 0..(n - 1) : y = Around(S, x, k)
      /\ Ring(S, x) = [k \in 1..n |-> Around(S, x, k - 1)]
  BY <1>1, GoAround DEF GoesAround
<1> HIDE DEF n, B
<1>5. PICK ring : ring = Ring(S, x)
  OBVIOUS
<1>6. DOMAIN ring = 1..n /\ \A k \in 1..n : ring[k] = Around(S, x, k - 1) /\ k - 1 \in 0..(n - 1)
  BY <1>4, <1>5
<1>7. \A k \in 1..n : ring[k] \in B /\ ring[k] \in Val
  BY <1>4, <1>6
<1>8. ASSUME NEW y \in B
      PROVE  \E k \in 1..n : ring[k] = y
  <2>1. PICK k \in 0..(n - 1) : y = Around(S, x, k)
    BY <1>4
  <2>2. k + 1 \in 1..n /\ (k + 1) - 1 = k
    BY <1>4
  <2> QED BY <1>6, <2>1, <2>2
<1>9. {ring[k] : k \in DOMAIN ring} = B
  BY <1>6, <1>7, <1>8
<1> QED BY <1>1, <1>3, <1>5, <1>6, <1>7, <1>9

(* A block of one point: the point and the next one are block starts.      *)
LEMMA SingleBlock ==
  ASSUME NEW S \in SUBSET Val, 0 \in S, NEW x \in Val
  PROVE  x \in S /\ (x = N - 1 \/ x + 1 \in S)
           <=> BlockStart(S, x)..(BlockEnd(S, x) - 1) = {x}
<1> DEFINE p == BlockStart(S, x)
           q == BlockEnd(S, x)
<1>1. x \in Nat /\ x < N /\ N \in Nat /\ \A i \in S : i \in Nat /\ i < N
  BY NAssumption DEF Val
<1>2. p \in S /\ p \in 0..x /\ q \in (x + 1)..N /\ q \in S \cup {N}
  BY BlockBounds
<1>3. p \in Nat /\ q \in Nat /\ p <= x /\ x < q
  BY <1>1, <1>2
<1>4. ASSUME x \in S, x = N - 1 \/ x + 1 \in S
      PROVE  p = x /\ q = x + 1
  <2>1. x + 1 \in S \cup {N} /\ x <= x /\ x < x + 1 /\ \A i \in S : i <= x \/ i >= x + 1
    BY <1>1, <1>4
  <2> HIDE DEF p, q
  <2> QED BY <1>4, <2>1, BlockIs DEF p, q
<1> HIDE DEF p, q
<1>5. ASSUME p..(q - 1) = {x}
      PROVE  x \in S /\ (x = N - 1 \/ x + 1 \in S)
  <2>1. p \in p..(q - 1) /\ q - 1 \in p..(q - 1)
    BY <1>1, <1>3
  <2>2. p = x /\ q - 1 = x
    BY <1>5, <2>1
  <2>3. q = x + 1
    BY <1>3, <2>2
  <2> QED BY <1>1, <1>2, <2>2, <2>3
<1>6. p = x /\ q = x + 1 => p..(q - 1) = {x}
  BY <1>1
<1> QED BY <1>4, <1>5, <1>6 DEF p, q

LEMMA AscendingLists ==
  ASSUME NEW S \in SUBSET Val
  PROVE  {Ascending(S)[k] : k \in DOMAIN Ascending(S)} = S
<1> DEFINE B == [x \in S |-> {y \in S : y < x}]
           c == Cardinality(S)
           At(k) == CHOOSE x \in S : Cardinality({y \in S : y < x}) = k - 1
<1>1. IsFiniteSet(S) /\ \A x \in S : x \in Nat
  BY ValFinite, FS_Subset
<1>2. B \in [S -> SUBSET S] /\ \A x, y \in S : y \in B[x] <=> y < x
  OBVIOUS
<1>3. Ascending(S) = [k \in 1..c |-> At(k)]
  BY DEF Ascending
<1>4. \A x \in S : B[x] = {y \in S : y < x}
  OBVIOUS
<1> HIDE DEF B
<1>5. Precedes(S, B)
  <2>1. \A x \in S : x \notin B[x]
    BY <1>1, <1>2
  <2>2. \A x, y \in S : x = y \/ x \in B[y] \/ y \in B[x]
    BY <1>1, <1>2
  <2>3. \A x, y, z \in S : x \in B[y] /\ z \in B[x] => z \in B[y]
    BY <1>1, <1>2
  <2>4. \A x, y \in S : x \in B[y] => B[x] \subseteq B[y]
    BY <1>2, <2>3
  <2> QED BY <1>2, <2>1, <2>2, <2>4 DEF Precedes
<1>6. /\ \A x \in S : Cardinality(B[x]) \in 0..(c - 1)
      /\ \A x, y \in S : Cardinality(B[x]) = Cardinality(B[y]) => x = y
      /\ \A k \in 0..(c - 1) : \E x \in S : Cardinality(B[x]) = k
  <2>1. Numbers(S, B)
    BY <1>1, <1>5, RanksNumber
  <2> QED BY <2>1 DEF Numbers
<1>7. c \in Nat
  BY <1>1, FS_CardinalityType
<1> HIDE DEF c
<1>8. ASSUME NEW k \in 1..c
      PROVE  At(k) \in S /\ Cardinality(B[At(k)]) = k - 1
  <2>1. k - 1 \in 0..(c - 1)
    BY <1>7
  <2>2. \E x \in S : Cardinality({y \in S : y < x}) = k - 1
    BY <1>4, <1>6, <2>1
  <2>3. At(k) \in S /\ Cardinality({y \in S : y < At(k)}) = k - 1
    BY <2>2
  <2> QED BY <1>4, <2>3
<1> HIDE DEF At
<1>9. ASSUME NEW x \in S
      PROVE  \E k \in 1..c : At(k) = x
  <2>1. PICK k : k = Cardinality(B[x]) + 1
    OBVIOUS
  <2>2. k \in 1..c /\ k - 1 = Cardinality(B[x])
    BY <1>6, <1>7, <2>1
  <2> QED BY <1>6, <1>8, <2>2
<1> QED BY <1>3, <1>8, <1>9

(* A permutation that stays within the classes.                            *)
Within(d, h) == Permutes(h) /\ \A x \in Val : h[x] \in ClassOf(d, x)

Kinds == {"plain", "bit"}

LEMMA ImagesAreRooms ==
  ASSUME NEW d, NEW h, NEW F, NEW x
  PROVE  Images(d, h, F, x) = {h[y] : y \in Room(d, F, x)}
BY DEF Images, Room

LEMMA AsFixed ==
  ASSUME NEW kind \in Kinds, NEW d, Adjacent(d), NEW h, Permutes(h),
         NEW F \in SUBSET Val, Filled(d, F), NEW x \in Val
  PROVE  /\ fixed(As(kind, d, h, F), x) <=> Room(d, F, x) = {x}
         /\ permOf(As(kind, d, h, F), x) = IF Room(d, F, x) = {x} THEN h[x] ELSE None
<1>1. h \in [Val -> Val] /\ \A y, z \in Val : h[y] = h[z] => y = z
  BY DEF Permutes
<1>2. PICK R : R = Room(d, F, x)
  OBVIOUS
<1>3. x \in R /\ R \subseteq Val
  BY <1>2, Classes DEF Room
<1>4. CASE kind = "plain"
  <2>1. PICK S : S = Parts(d, F) /\ S \in SUBSET Val /\ 0 \in S
    BY PartsStart
  <2>2. PICK p : p = As(kind, d, h, F)
    OBVIOUS
  <2>3. p.kind = "plain" /\ p.part = S /\ p.element = h
    BY <1>4, <2>1, <2>2 DEF As
  <2>4. x \in S /\ (x = N - 1 \/ x + 1 \in S) <=> R = {x}
    <3>1. BlockStart(S, x)..(BlockEnd(S, x) - 1) = R
      BY <1>2, <2>1, BlocksAreRooms
    <3>2. x \in S /\ (x = N - 1 \/ x + 1 \in S)
            <=> BlockStart(S, x)..(BlockEnd(S, x) - 1) = {x}
      BY <2>1, SingleBlock
    <3> QED BY <3>1, <3>2
  <2>5. fixed(p, x) <=> R = {x}
    BY <2>3, <2>4 DEF fixed, PlainFixed
  <2> QED BY <1>2, <2>2, <2>3, <2>5 DEF permOf
<1>5. CASE kind = "bit"
  <2>1. PICK p : p = As(kind, d, h, F)
    OBVIOUS
  <2>2. p.kind = "bit" /\ p.info[x] = {h[y] : y \in R}
    BY <1>2, <1>5, <2>1, ImagesAreRooms DEF As
  <2>3. Cardinality(p.info[x]) = 1 <=> R = {x}
    <3>1. IsFiniteSet(p.info[x])
      <4>1. p.info[x] \subseteq Val
        BY <1>1, <1>3, <2>2
      <4> QED BY <4>1, ValFinite, FS_Subset
    <3>2. ASSUME R = {x}
          PROVE  Cardinality(p.info[x]) = 1
      <4>1. p.info[x] = {h[x]}
        BY <2>2, <3>2
      <4> QED BY <4>1, FS_Singleton
    <3>3. ASSUME Cardinality(p.info[x]) = 1
          PROVE  R = {x}
      <4>1. PICK v : p.info[x] = {v}
        BY <3>1, <3>3, FS_Singleton
      <4>2. \A y \in R : h[y] = v /\ y \in Val
        BY <1>3, <2>2, <4>1
      <4> QED BY <1>1, <1>3, <4>2
    <3> QED BY <3>2, <3>3
  <2>4. fixed(p, x) <=> R = {x}
    BY <2>2, <2>3 DEF fixed, BitFixed
  <2>5. R = {x} => Min(p.info[x]) = h[x]
    <3>1. h[x] \in Nat
      BY <1>1, ValFinite
    <3>2. Min({h[x]}) = h[x]
      <4>1. {h[x]} \in SUBSET Nat /\ {h[x]} # {}
        BY <3>1
      <4> QED BY <4>1, MinMember
    <3> QED BY <2>2, <3>2
  <2> QED BY <1>2, <2>1, <2>2, <2>4, <2>5 DEF permOf
<1> QED BY <1>4, <1>5 DEF Kinds

Offered(p, x) == {options(p, x)[k] : k \in DOMAIN options(p, x)}

LEMMA AsOptions ==
  ASSUME NEW kind \in Kinds, NEW d, Adjacent(d), NEW h, Permutes(h),
         NEW F \in SUBSET Val, Filled(d, F), NEW x \in Val
  PROVE  Offered(As(kind, d, h, F), x) = {h[y] : y \in Room(d, F, x)}
<1>1. h \in [Val -> Val]
  BY DEF Permutes
<1>2. PICK p, R : p = As(kind, d, h, F) /\ R = Room(d, F, x)
  OBVIOUS
<1>3. CASE kind = "plain"
  <2>1. PICK S, ring : S = Parts(d, F) /\ ring = Ring(S, x)
    OBVIOUS
  <2>2. p.kind = "plain" /\ p.part = S /\ p.element = h
    BY <1>2, <1>3, <2>1 DEF As
  <2>3. options(p, x) = [k \in DOMAIN ring |-> h[ring[k]]]
    BY <2>1, <2>2 DEF options, PlainOptions
  <2>4. {ring[k] : k \in DOMAIN ring} = R
    BY <1>2, <2>1, RingIsRoom
  <2>5. DOMAIN options(p, x) = DOMAIN ring
        /\ \A k \in DOMAIN ring : options(p, x)[k] = h[ring[k]]
    BY <2>3
  <2>6. {options(p, x)[k] : k \in DOMAIN options(p, x)} = {h[y] : y \in R}
    BY <2>4, <2>5
  <2> QED BY <1>2, <2>6 DEF Offered
<1>4. CASE kind = "bit"
  <2>1. p.kind = "bit" /\ p.info[x] = {h[y] : y \in R}
    BY <1>2, <1>4, ImagesAreRooms DEF As
  <2>2. options(p, x) = Ascending(p.info[x])
    BY <2>1 DEF options
  <2>3. p.info[x] \in SUBSET Val
    BY <1>1, <1>2, <2>1, Classes DEF Room
  <2>4. {options(p, x)[k] : k \in DOMAIN options(p, x)} = p.info[x]
    BY <2>2, <2>3, AscendingLists
  <2> QED BY <1>2, <2>1, <2>4 DEF Offered
<1> QED BY <1>2, <1>3, <1>4 DEF Kinds

LEMMA AsPreimages ==
  ASSUME NEW kind \in Kinds, NEW d, Adjacent(d), NEW h, Permutes(h),
         NEW F \in SUBSET Val, Filled(d, F), NEW y \in Val
  PROVE  /\ invOptions(As(kind, d, h, F), h[y]) = Room(d, F, y)
         /\ invPermOf(As(kind, d, h, F), h[y]) = IF Room(d, F, y) = {y} THEN y ELSE None
<1>1. h \in [Val -> Val] /\ \A x, z \in Val : h[x] = h[z] => x = z
  BY DEF Permutes
<1>2. PICK p, R : p = As(kind, d, h, F) /\ R = Room(d, F, y)
  OBVIOUS
<1>3. CASE kind = "plain"
  <2>1. PICK S, ring : S = Parts(d, F) /\ ring = Ring(S, y)
    OBVIOUS
  <2>2. p.kind = "plain" /\ p.part = S /\ p.element = h
    BY <1>2, <1>3, <2>1 DEF As
  <2>3. IndexOf(p, h[y]) = y
    <3>1. \A i \in Val : p.element[i] = h[y] <=> i = y
      BY <1>1, <2>2
    <3> QED BY <3>1 DEF IndexOf
  <2>4. invOptions(p, h[y]) = {ring[k] : k \in DOMAIN ring}
    BY <2>1, <2>2, <2>3 DEF invOptions, PlainInvOptions
  <2>5. {ring[k] : k \in DOMAIN ring} = R
    BY <1>2, <2>1, RingIsRoom
  <2>6. PlainFixed(p, y) <=> R = {y}
    <3>1. fixed(p, y) <=> R = {y}
      BY <1>2, AsFixed
    <3> QED BY <2>2, <3>1 DEF fixed
  <2>7. invPermOf(p, h[y]) = IF R = {y} THEN y ELSE None
    BY <2>2, <2>3, <2>6 DEF invPermOf
  <2> QED BY <1>2, <2>4, <2>5, <2>7
<1>4. CASE kind = "bit"
  <2>1. p.kind = "bit" /\ \A i \in Val : p.info[i] = {h[z] : z \in Room(d, F, i)}
    BY <1>2, <1>4, ImagesAreRooms DEF As
  <2>2. \A i \in Val : Room(d, F, i) \subseteq Val /\ i \in Room(d, F, i)
    BY Classes DEF Room
  <2>3. \A i \in Val : y \in Room(d, F, i) <=> i \in R
    <3>1. R = Room(d, F, y)
      BY <1>2
    <3>2. \A i \in Val : y \in ClassOf(d, i) <=> i \in ClassOf(d, y)
      BY Classes
    <3>3. CASE y \in F
      BY <3>1, <3>3 DEF Room
    <3>4. CASE y \notin F
      BY <2>2, <3>1, <3>2, <3>4 DEF Room
    <3> QED BY <3>3, <3>4
  <2>4. \A i \in Val : h[y] \in p.info[i] <=> i \in R
    <3> SUFFICES ASSUME NEW i \in Val
                 PROVE  h[y] \in p.info[i] <=> y \in Room(d, F, i)
      BY <2>3
    <3> QED BY <1>1, <2>1, <2>2
  <2>5. invOptions(p, h[y]) = R
    <3>1. R \subseteq Val
      BY <1>2, <2>2
    <3>2. invOptions(p, h[y]) = {i \in Val : h[y] \in p.info[i]}
      BY <2>1 DEF invOptions
    <3> QED BY <2>4, <3>1, <3>2
  <2>6. \A i \in Val : p.info[i] = {h[y]} <=> i = y /\ R = {y}
    <3> SUFFICES ASSUME NEW i \in Val
                 PROVE  p.info[i] = {h[y]} <=> i = y /\ R = {y}
      OBVIOUS
    <3>1. ASSUME p.info[i] = {h[y]}
          PROVE  i = y /\ R = {y}
      <4>1. \A z \in Room(d, F, i) : h[z] = h[y] /\ z \in Val
        BY <2>1, <2>2, <3>1
      <4>2. i = y
        BY <1>1, <2>2, <4>1
      <4>3. \A z \in R : z = y
        BY <1>1, <1>2, <4>1, <4>2
      <4> QED BY <1>2, <2>2, <4>2, <4>3
    <3>2. ASSUME i = y, R = {y}
          PROVE  p.info[i] = {h[y]}
      <4>1. Room(d, F, i) = {y}
        BY <1>2, <3>2
      <4> QED BY <2>1, <4>1
    <3> QED BY <3>1, <3>2
  <2>7. BitInverse(p, h[y]) = IF R = {y} THEN {y} ELSE {}
    BY <2>6 DEF BitInverse
  <2>8. Min({y}) = y
    <3>1. {y} \in SUBSET Nat /\ {y} # {}
      BY ValFinite
    <3> QED BY <3>1, MinMember
  <2>9. invPermOf(p, h[y]) = IF R = {y} THEN y ELSE None
    <3>1. invPermOf(p, h[y])
            = IF BitInverse(p, h[y]) = {} THEN None ELSE Min(BitInverse(p, h[y]))
      BY <2>1 DEF invPermOf
    <3> QED BY <2>7, <2>8, <3>1
  <2> QED BY <1>2, <2>5, <2>9
<1> QED BY <1>3, <1>4 DEF Kinds
-----------------------------------------------------------------------------
(* An exchange within a class keeps the classes.                           *)
LEMMA ExchangeWithin ==
  ASSUME NEW d, NEW h, Within(d, h), NEW x \in Val, NEW y \in ClassOf(d, x)
  PROVE  Within(d, Exchanged(h, x, y))
<1> DEFINE g == Exchanged(h, x, y)
<1>1. h \in [Val -> Val] /\ Permutes(h) /\ \A z \in Val : h[z] \in ClassOf(d, z)
  BY DEF Within, Permutes
<1>2. y \in Val /\ ClassOf(d, y) = ClassOf(d, x)
  BY Classes
<1>3. Permutes(g)
  BY <1>1, <1>2, SwapPermutes DEF Exchanged
<1>4. \A z \in Val : g[z] = IF z = y THEN h[x] ELSE IF z = x THEN h[y] ELSE h[z]
  BY <1>1, <1>2 DEF Exchanged
<1> HIDE DEF g
<1>5. \A z \in Val : g[z] \in ClassOf(d, z)
  BY <1>1, <1>2, <1>4
<1> QED BY <1>3, <1>5 DEF Within, g

LEMMA PlainFixAs ==
  ASSUME NEW d, Adjacent(d), NEW h, Permutes(h), NEW F \in SUBSET Val, Filled(d, F),
         NEW el \in Val \ F, NEW y \in ClassOf(d, el) \ F
  PROVE  PlainFix(As("plain", d, h, F), el, h[y])
           = [perm |-> As("plain", d, Exchanged(h, el, y), F \cup {el}), ok |-> TRUE]
<1>1. PICK p, S, g :
        /\ p = As("plain", d, h, F) /\ S = Parts(d, F)
        /\ g = Exchanged(h, el, y)
  OBVIOUS
<1>2. p = [kind |-> "plain", element |-> h, part |-> S]
  BY <1>1 DEF As
<1>3. /\ h \in [Val -> Val] /\ y \in Val /\ el \in ClassOf(d, y) \ F
      /\ \A i \in Val : h[i] = h[y] => i = y
  BY Classes DEF Permutes
<1>4. IndexOf(p, h[y]) = y
  <2>1. \A i \in Val : p.element[i] = h[y] <=> i = y
    BY <1>2, <1>3
  <2> QED BY <1>3, <2>1 DEF IndexOf
<1>5. \A x \in Val : PlainFixed(p, x) <=> Room(d, F, x) = {x}
  <2> SUFFICES ASSUME NEW x \in Val
               PROVE  PlainFixed(p, x) <=> Room(d, F, x) = {x}
    OBVIOUS
  <2>1. "plain" \in Kinds
    BY DEF Kinds
  <2>2. fixed(p, x) <=> Room(d, F, x) = {x}
    BY <1>1, <2>1, AsFixed
  <2> QED BY <1>2, <2>2 DEF fixed
<1>6. y \in Room(d, F, el) /\ el \in Room(d, F, y)
  BY <1>3 DEF Room
<1>7. Parts(d, F \cup {el}) = S \cup ({el + 1} \cap Val)
  BY <1>1 DEF Parts
<1>8. As("plain", d, g, F \cup {el})
        = [kind |-> "plain", element |-> g, part |-> S \cup ({el + 1} \cap Val)]
  BY <1>7 DEF As
<1>9. CASE PlainFixed(p, el) \/ PlainFixed(p, y)
  <2>1. y = el /\ PlainFixed(p, el)
    BY <1>3, <1>5, <1>6, <1>9
  <2>2. PlainFix(p, el, h[y]) = [perm |-> p, ok |-> TRUE]
    BY <1>2, <2>1 DEF PlainFix
  <2>3. g = h
    BY <1>1, <1>3, <2>1 DEF Exchanged
  <2>4. S \cup ({el + 1} \cap Val) = S
    <3>1. el = N - 1 \/ el + 1 \in S
      BY <1>2, <2>1 DEF PlainFixed
    <3>2. (N - 1) + 1 \notin Val
      BY NAssumption DEF Val
    <3> QED BY <3>1, <3>2
  <2> QED BY <1>1, <1>2, <1>8, <2>2, <2>3, <2>4
<1>10. CASE ~ (PlainFixed(p, el) \/ PlainFixed(p, y))
  <2>1. p.element = h /\ p.part = S
    BY <1>2
  <2>2. PICK T : T = S \cup ({el + 1} \cap Val)
    OBVIOUS
  <2>3. g = [p.element EXCEPT ![el] = h[y], ![y] = p.element[el]]
    <3>1. g = [h EXCEPT ![el] = h[y], ![y] = h[el]]
      BY <1>1 DEF Exchanged
    <3> QED BY <2>1, <3>1
  <2>4. PlainFix(p, el, h[y]) = [perm |-> [p EXCEPT !.element = g, !.part = T], ok |-> TRUE]
    BY <1>4, <1>10, <2>1, <2>2, <2>3 DEF PlainFix
  <2>6. [p EXCEPT !.element = g, !.part = T] = [kind |-> "plain", element |-> g, part |-> T]
    <3>1. PICK q : q = [p EXCEPT !.element = g]
      OBVIOUS
    <3>2. q = [kind |-> "plain", element |-> g, part |-> S]
      BY <1>2, <3>1
    <3>3. [q EXCEPT !.part = T] = [kind |-> "plain", element |-> g, part |-> T]
      BY <3>2
    <3> QED BY <3>1, <3>3
  <2> QED BY <1>1, <1>8, <2>2, <2>4, <2>6
<1> QED BY <1>9, <1>10, <1>4

LEMMA BitFixAs ==
  ASSUME NEW d, NEW h, Permutes(h), NEW F \in SUBSET Val,
         NEW el \in Val \ F, NEW y \in ClassOf(d, el) \ F
  PROVE  BitFix(As("bit", d, h, F), el, h[y])
           = [perm |-> As("bit", d, Exchanged(h, el, y), F \cup {el}), ok |-> TRUE]
<1>1. PICK p, g, img :
        p = As("bit", d, h, F) /\ g = Exchanged(h, el, y) /\ img = h[y]
  OBVIOUS
<1>2. h \in [Val -> Val] /\ y \in Val
  BY Classes DEF Permutes
<1>3. p = [kind |-> "bit", info |-> [x \in Val |-> Images(d, h, F, x)]]
  BY <1>1 DEF As
<1>4. p \in BitPerms(d)
  <2>1. \A x \in Val : Images(d, h, F, x) \in SUBSET Val
    BY <1>2, Classes DEF Images
  <2>2. p \in [kind : {"bit"}, info : [Val -> SUBSET Val]]
    BY <1>3, <2>1
  <2>3. \A x \in Val : p.info[x] = Images(d, h, F, x)
    BY <1>3
  <2> QED BY <1>2, <2>2, <2>3 DEF BitPerms
<1>5. img \in p.info[el]
  BY <1>1, <1>3 DEF Images
<1>6. {i \in Val \ {el} : p.info[i] \subseteq {img}} = {}
  BY <1>4, <1>5, NoneEmptied
<1>7. PICK new : new = [i \in Val |-> IF i = el THEN {img} ELSE p.info[i] \ {img}]
  OBVIOUS
<1>8. BitFix(p, el, img) = [perm |-> [p EXCEPT !.info = new], ok |-> TRUE]
  <2>1. \A i \in Val : ~ (i > N - 1)
    BY NAssumption DEF Val
  <2>2. [i \in Val |-> IF i > N - 1 THEN p.info[i]
                       ELSE IF i = el THEN {img} ELSE p.info[i] \ {img}] = new
    BY <1>7, <2>1
  <2> QED BY <1>5, <1>6, <2>2 DEF BitFix
<1>9. [p EXCEPT !.info = new] = [kind |-> "bit", info |-> new]
  BY <1>3
<1>10. new = [x \in Val |-> Images(d, g, F \cup {el}, x)]
  <2>1. Decides(d, h, F, el, img, g)
    BY <1>1, ExchangeDecides
  <2>2. \A x \in Val : p.info[x] = Images(d, h, F, x)
    BY <1>3
  <2> QED BY <1>7, <2>1, <2>2 DEF Decides
<1> QED BY <1>1, <1>8, <1>9, <1>10 DEF As

LEMMA FixAs ==
  ASSUME NEW kind \in Kinds, NEW d, Adjacent(d), NEW h, Permutes(h),
         NEW F \in SUBSET Val, Filled(d, F),
         NEW el \in Val \ F, NEW y \in ClassOf(d, el) \ F
  PROVE  fix(As(kind, d, h, F), el, h[y])
           = [perm |-> As(kind, d, Exchanged(h, el, y), F \cup {el}), ok |-> TRUE]
<1>1. As("plain", d, h, F).kind = "plain" /\ As("bit", d, h, F).kind = "bit"
  BY DEF As
<1>2. CASE kind = "plain"
  BY <1>1, <1>2, PlainFixAs DEF fix
<1>3. CASE kind = "bit"
  BY <1>1, <1>3, BitFixAs DEF fix
<1> QED BY <1>2, <1>3 DEF Kinds
-----------------------------------------------------------------------------
(* propagateDecision follows the cycle to its end.                         *)

LEMMA CycleFacts ==
  ASSUME NEW d \in [Val -> Val], NEW S \in SUBSET Val, Follows(d, S), NEW x \in Val
  PROVE  /\ CycleOf(d, x) \subseteq Val /\ x \in CycleOf(d, x) /\ d[x] \in CycleOf(d, x)
         /\ \A y \in CycleOf(d, x) : CycleOf(d, y) = CycleOf(d, x) /\ y \in ClassOf(d, x)
<1>1. CycleOf(d, x) = BlockStart(S, x)..(BlockEnd(S, x) - 1) /\ 0 \in S
  BY CyclesAreBlocks DEF Follows
<1>2. CycleOf(d, x) \subseteq Val /\ x \in CycleOf(d, x)
  <2>1. BlockStart(S, x) \in 0..x /\ BlockEnd(S, x) \in (x + 1)..N
    BY <1>1, BlockBounds
  <2>2. x \in Nat /\ N \in Nat
    BY NAssumption DEF Val
  <2>3. PICK p, q : p = BlockStart(S, x) /\ q = BlockEnd(S, x)
    OBVIOUS
  <2>4. p \in Nat /\ q \in Nat /\ p <= x /\ x < q /\ q <= N
    BY <2>1, <2>2, <2>3
  <2>5. p..(q - 1) \subseteq Val /\ x \in p..(q - 1)
    BY <2>2, <2>4 DEF Val
  <2> QED BY <1>1, <2>3, <2>5
<1>3. d[x] \in CycleOf(d, x)
  BY <1>1, DiagonalLeads
<1>4. ASSUME NEW y \in CycleOf(d, x)
      PROVE  CycleOf(d, y) = CycleOf(d, x) /\ y \in ClassOf(d, x)
  <2>1. y \in Val /\ BlockStart(S, y) = BlockStart(S, x) /\ BlockEnd(S, y) = BlockEnd(S, x)
    BY <1>1, <1>2, SameBlock
  <2>2. CycleOf(d, y) = CycleOf(d, x)
    BY <1>1, <2>1, CyclesAreBlocks
  <2> QED BY <2>1, <2>2 DEF ClassOf
<1> QED BY <1>2, <1>3, <1>4

LEMMA ClassLengths ==
  ASSUME NEW d \in [Val -> Val], NEW S \in SUBSET Val, Follows(d, S),
         NEW x \in Val, NEW y \in Val
  PROVE  y \in ClassOf(d, x) <=> BlockLength(S, y) = BlockLength(S, x)
<1>1. /\ Cardinality(CycleOf(d, x)) = BlockLength(S, x)
      /\ Cardinality(CycleOf(d, y)) = BlockLength(S, y)
  BY CyclesAreBlocks
<1> QED BY <1>1 DEF ClassOf

(* Where the cycle of dec is followed to, whether or not it is that of el. *)
LEMMA FollowIs ==
  ASSUME NEW d \in [Val -> Val], NEW S \in SUBSET Val, Follows(d, S),
         NEW el \in S, NEW dec \in Val, BlockLength(S, dec) = BlockLength(S, el),
         NEW p, NEW b
  PROVE  FollowCycle(p, cycle(S, el, b), dec, S, b)
           = FixAll(p, [k \in 1..(BlockLength(S, el) - 1) |->
                          <<Around(S, el, k), Around(S, dec, k)>>])
<1> DEFINE n == BlockLength(S, el)
           og == cycle(S, el, b)
           at == {k \in DOMAIN og : og[k] = dec}
           to == IF at # {}
                 THEN [k \in DOMAIN og |-> og[((k + Min(at) - 2) % Len(og)) + 1]]
                 ELSE cycle(S, dec, b)
<1>1. 0 \in S /\ el \in Val /\ el \in Nat /\ dec \in Nat /\ el # None /\ dec # None
  BY NAssumption DEF Follows, Val, None
<1>2. n \in Nat \ {0} /\ n <= N
  BY <1>1, GoAround DEF GoesAround
<1>3. og = [k \in 1..n |-> Around(S, el, k - 1)]
  BY <1>1, GoAround DEF GoesAround, cycle
<1>4. Ring(S, dec) = [k \in 1..n |-> Around(S, dec, k - 1)]
  <2>1. Ring(S, dec) = [k \in 1..BlockLength(S, dec) |-> Around(S, dec, k - 1)]
    BY <1>1, GoAround DEF GoesAround
  <2> QED BY <2>1
<1>5. BlockStart(S, el) = el
  <2>1. BlockStart(S, el) \in 0..el /\ BlockEnd(S, el) \in (el + 1)..N
        /\ (el <= BlockStart(S, el) \/ el >= BlockEnd(S, el))
    BY <1>1, BlockBounds
  <2> QED BY <1>1, <2>1, NAssumption
<1>6. PICK q : q = BlockEnd(S, el) /\ q = el + n /\ q \in Nat
  <2>1. BlockEnd(S, el) \in (el + 1)..N
    BY <1>1, BlockBounds
  <2> QED BY <1>1, <1>5, <2>1, NAssumption DEF BlockLength
<1>7. \A k \in 0..(n - 1) : Around(S, el, k) = el + k
  BY <1>1, <1>2, <1>6 DEF Around
<1> HIDE DEF n
<1>8. Len(og) = n /\ DOMAIN og = 1..n /\ \A k \in 1..n : og[k] = el + (k - 1)
  <2>1. \A k \in 1..n : k - 1 \in 0..(n - 1)
    BY <1>2
  <2>2. \A k \in 1..n : og[k] = el + (k - 1)
    BY <1>3, <1>7, <2>1
  <2>3. og \in [1..n -> Int]
    BY <1>1, <1>3, <1>7, <2>1
  <2>4. Len(og) = n
    BY <1>2, <2>3, LenProperties
  <2> QED BY <1>3, <2>2, <2>4
<1> HIDE DEF og
<1>9. to = [k \in 1..n |-> Around(S, dec, k - 1)]
  <2>1. CASE at = {}
    BY <1>1, <1>4, <2>1 DEF cycle
  <2>2. CASE at # {}
    <3>1. PICK m \in 1..n : dec = el + (m - 1)
      BY <1>8, <2>2
    <3>2. at = {m}
      BY <1>1, <1>2, <1>8, <3>1
    <3>3. Min(at) = m
      <4>1. at \in SUBSET Nat /\ at # {}
        BY <3>2
      <4>2. Min(at) \in at
        BY <4>1, MinMember
      <4> QED BY <3>2, <4>2
    <3>4. BlockStart(S, dec) = el /\ BlockEnd(S, dec) = q
      <4>1. dec \in BlockStart(S, el)..(BlockEnd(S, el) - 1)
        BY <1>1, <1>2, <1>5, <1>6, <3>1
      <4> QED BY <1>1, <1>5, <1>6, <4>1, SameBlock
    <3>5. ASSUME NEW k \in 1..n
          PROVE  og[((k + m - 2) % n) + 1] = Around(S, dec, k - 1)
      <4>1. PICK a : a = k + m - 2
        OBVIOUS
      <4>2. a \in 0..(2 * n - 1)
        BY <1>2, <4>1
      <4>3. a % n = IF a < n THEN a ELSE a - n
        BY <1>2, <4>2, ModOnce
      <4>4. (a % n) + 1 \in 1..n
        BY <1>2, <4>2, <4>3
      <4>5. og[(a % n) + 1] = el + (a % n)
        BY <1>1, <1>2, <1>8, <4>2, <4>3, <4>4
      <4>6. Around(S, dec, k - 1) = IF dec + (k - 1) < q THEN dec + (k - 1)
                                    ELSE dec + (k - 1) - n
        <5>1. q - el = n
          BY <1>1, <1>2, <1>6
        <5>2. Around(S, dec, k - 1) = IF dec + (k - 1) < q THEN dec + (k - 1)
                                      ELSE dec + (k - 1) - (q - el)
          BY <3>4 DEF Around
        <5> QED BY <5>1, <5>2
      <4>7. el + (a % n) = Around(S, dec, k - 1)
        BY <1>1, <1>2, <1>6, <3>1, <4>1, <4>2, <4>3, <4>6
      <4> QED BY <4>1, <4>5, <4>7
    <3>6. to = [k \in 1..n |-> og[((k + m - 2) % n) + 1]]
      <4> HIDE DEF at
      <4> QED BY <1>8, <2>2, <3>3
    <3> HIDE DEF to
    <3> QED BY <3>5, <3>6
  <2> QED BY <2>1, <2>2
<1>10. Len(to) = n
  <2> HIDE DEF to
  <2>1. to \in [1..n -> {Around(S, dec, k - 1) : k \in 1..n}]
    BY <1>9
  <2> QED BY <1>2, <2>1, LenProperties
<1>11. FollowCycle(p, og, dec, S, b)
         = FixAll(p, [k \in 1..(Len(og) - 1) |-> <<og[k + 1], to[k + 1]>>])
  BY <1>8, <1>10 DEF FollowCycle
<1> HIDE DEF to
<1>12. ASSUME NEW k \in 1..(n - 1)
       PROVE  og[k + 1] = Around(S, el, k) /\ to[k + 1] = Around(S, dec, k)
  <2>1. k + 1 \in 1..n /\ (k + 1) - 1 = k
    BY <1>2
  <2> QED BY <1>3, <1>9, <2>1 DEF og
<1>13. [k \in 1..(Len(og) - 1) |-> <<og[k + 1], to[k + 1]>>]
         = [k \in 1..(n - 1) |-> <<Around(S, el, k), Around(S, dec, k)>>]
  BY <1>8, <1>12
<1> QED BY <1>11, <1>13 DEF og, n

(* A sequence of calls that all return true.                               *)
Succeeding(p, m, pairs, W) ==
  /\ W = [k \in 0..m |-> W[k]]
  /\ W[0] = [perm |-> p, ok |-> TRUE]
  /\ \A k \in 1..m : W[k - 1].ok /\ W[k] = fix(W[k - 1].perm, pairs[k][1], pairs[k][2])

LEMMA FixAllRuns ==
  ASSUME NEW p, NEW m \in Nat, NEW T, NEW pairs \in [1..m -> T],
         NEW W, Succeeding(p, m, pairs, W)
  PROVE  FixAll(p, pairs) = W[m]
<1> DEFINE Step(k, t) == IF t.ok THEN fix(t.perm, pairs[k][1], pairs[k][2]) ELSE t
           a == [perm |-> p, ok |-> TRUE]
           IsIt(f) == f = [k \in 0..m |-> IF k = 0 THEN a ELSE Step(k, f[k - 1])]
<1>1. Len(pairs) = m
  BY LenProperties
<1>2. FixAll(p, pairs) = (CHOOSE f : IsIt(f))[m]
  BY <1>1 DEF FixAll
<1>3. \A k \in 1..m : W[k] = Step(k, W[k - 1])
  BY DEF Succeeding
<1>4. W = [k \in 0..m |-> W[k]] /\ W[0] = a
  BY DEF Succeeding
<1> HIDE DEF Step, a
<1>40. IsIt(W)
  <2>1. \A k \in 0..m : k = 0 \/ k \in 1..m
    OBVIOUS
  <2>2. [k \in 0..m |-> W[k]] = [k \in 0..m |-> IF k = 0 THEN a ELSE Step(k, W[k - 1])]
    BY <1>3, <1>4, <2>1
  <2> QED BY <1>4, <2>2
<1>5. PICK f : IsIt(f) /\ FixAll(p, pairs) = f[m]
  <2> HIDE DEF IsIt
  <2> QED BY <1>2, <1>40
<1>6. f[0] = W[0] /\ \A k \in 1..m : f[k] = Step(k, f[k - 1])
  <2>1. 0 \in 0..m /\ \A k \in 1..m : k \in 0..m /\ k # 0
    OBVIOUS
  <2> QED BY <1>40, <1>5, <2>1
<1>7. \A k \in 0..m : f[k] = W[k]
  <2> DEFINE Bad == {k \in 0..m : f[k] # W[k]}
  <2> SUFFICES ASSUME Bad # {}
               PROVE  FALSE
    OBVIOUS
  <2>1. PICK k \in Bad : \A y \in Bad : k <= y
    <3>1. Bad \in SUBSET Nat
      OBVIOUS
    <3> HIDE DEF Bad
    <3> QED BY <3>1, LeastNat
  <2>2. k \in 1..m /\ k - 1 \in 0..m
    BY <1>6
  <2>3. f[k - 1] = W[k - 1]
    BY <2>1, <2>2
  <2> QED BY <1>3, <1>6, <2>1, <2>2, <2>3
<1> QED BY <1>5, <1>7
-----------------------------------------------------------------------------
(* What holds between two calls on a full matrix: with a point its cycle   *)
(* is decided, the points of a class are decided in order, and h respects  *)
(* the diagonal.                                                           *)
Whole(d, F) == \A x \in F : CycleOf(d, x) \subseteq F
Commutes(d, h) == \A x \in Val : h[d[x]] = d[h[x]]

Sound(d, h, F) ==
  F \in SUBSET Val /\ Filled(d, F) /\ Whole(d, F) /\ Within(d, h) /\ Commutes(d, h)

(* The call for el, the first undecided point of its class, with h[y].     *)
MayDecide(d, S, h, F, el, y) ==
  /\ d \in [Val -> Val] /\ S \in SUBSET Val /\ Follows(d, S) /\ Adjacent(d)
  /\ Sound(d, h, F)
  /\ el \in Val \ F /\ y \in ClassOf(d, el) \ F
  /\ \A z \in ClassOf(d, el) : z < el => z \in F

(* The points of a cycle are those around one of them.                     *)
LEMMA AroundCycle ==
  ASSUME NEW d \in [Val -> Val], NEW S \in SUBSET Val, Follows(d, S), NEW x \in Val
  PROVE  /\ BlockLength(S, x) \in Nat \ {0} /\ Around(S, x, 0) = x
         /\ \A k \in 0..(BlockLength(S, x) - 1) :
              Around(S, x, k) \in CycleOf(d, x) /\ Around(S, x, k) \in Val
         /\ \A z \in CycleOf(d, x) :
              \E k \in 0..(BlockLength(S, x) - 1) : z = Around(S, x, k)
         /\ \A k, m \in 0..(BlockLength(S, x) - 1) :
              Around(S, x, k) = Around(S, x, m) => k = m
<1>1. 0 \in S /\ CycleOf(d, x) = BlockStart(S, x)..(BlockEnd(S, x) - 1)
  BY CyclesAreBlocks DEF Follows
<1>0. GoesAround(S, x)
  BY <1>1, GoAround
<1>2. /\ BlockLength(S, x) \in Nat \ {0} /\ Around(S, x, 0) = x
      /\ \A k, m \in 0..(BlockLength(S, x) - 1) :
           Around(S, x, k) = Around(S, x, m) => k = m
  BY <1>0 DEF GoesAround
<1>3. \A k \in 0..(BlockLength(S, x) - 1) : Around(S, x, k) \in Val
  BY <1>0 DEF GoesAround
<1>4. \A k \in 0..(BlockLength(S, x) - 1) :
        Around(S, x, k) \in BlockStart(S, x)..(BlockEnd(S, x) - 1)
  BY <1>0 DEF GoesAround
<1>5. \A z \in BlockStart(S, x)..(BlockEnd(S, x) - 1) :
        \E k \in 0..(BlockLength(S, x) - 1) : z = Around(S, x, k)
  BY <1>0 DEF GoesAround
<1>6. PICK B : B = BlockStart(S, x)..(BlockEnd(S, x) - 1)
  OBVIOUS
<1>7. PICK K : K = 0..(BlockLength(S, x) - 1)
  OBVIOUS
<1>8. CycleOf(d, x) = B /\ (\A k \in K : Around(S, x, k) \in B)
      /\ \A z \in B : \E k \in K : z = Around(S, x, k)
  BY <1>1, <1>4, <1>5, <1>6, <1>7
<1> QED BY <1>2, <1>3, <1>7, <1>8

LEMMA AroundFree ==
  ASSUME NEW d \in [Val -> Val], NEW S \in SUBSET Val, Follows(d, S),
         NEW F \in SUBSET Val, Whole(d, F), NEW x \in Val \ F,
         NEW k \in 0..(BlockLength(S, x) - 1)
  PROVE  Around(S, x, k) \in ClassOf(d, x) \ F /\ Around(S, x, k) \in CycleOf(d, x)
<1>1. Around(S, x, k) \in CycleOf(d, x)
  BY AroundCycle
<1>2. /\ Around(S, x, k) \in ClassOf(d, x)
      /\ CycleOf(d, Around(S, x, k)) = CycleOf(d, x) /\ x \in CycleOf(d, x)
  BY <1>1, CycleFacts
<1>3. Around(S, x, k) \notin F
  BY <1>2 DEF Whole
<1> QED BY <1>1, <1>2, <1>3

LEMMA DecideFacts ==
  ASSUME NEW d, NEW S, NEW h, NEW F, NEW el, NEW y, MayDecide(d, S, h, F, el, y)
  PROVE  /\ BlockLength(S, y) = BlockLength(S, el)
         /\ el \in S /\ y \in Val
         /\ \A k \in 0..(BlockLength(S, el) - 1) :
              /\ Around(S, el, k) = el + k
              /\ Around(S, el, k) \in ClassOf(d, el) \ F
              /\ Around(S, y, k) \in ClassOf(d, el) \ F
<1> USE DEF MayDecide
<1>1. /\ d \in [Val -> Val] /\ S \in SUBSET Val /\ Follows(d, S) /\ Whole(d, F)
      /\ F \in SUBSET Val /\ el \in Val /\ y \in Val /\ 0 \in S
      /\ ClassOf(d, y) = ClassOf(d, el)
  BY Classes DEF Sound, Follows
<1>2. BlockLength(S, y) = BlockLength(S, el)
  BY <1>1, ClassLengths
<1>3. \A k \in 0..(BlockLength(S, el) - 1) :
        /\ Around(S, el, k) \in ClassOf(d, el) \ F
        /\ Around(S, y, k) \in ClassOf(d, el) \ F
  <2> SUFFICES ASSUME NEW k \in 0..(BlockLength(S, el) - 1)
               PROVE  /\ Around(S, el, k) \in ClassOf(d, el) \ F
                      /\ Around(S, y, k) \in ClassOf(d, el) \ F
    OBVIOUS
  <2>1. Around(S, el, k) \in ClassOf(d, el) \ F
    BY <1>1, AroundFree
  <2>2. k \in 0..(BlockLength(S, y) - 1) /\ y \in Val \ F
    BY <1>1, <1>2
  <2>3. Around(S, y, k) \in ClassOf(d, y) \ F
    BY <1>1, <2>2, AroundFree
  <2> QED BY <1>1, <2>1, <2>3
<1>4. BlockStart(S, el) = el
  <2>1. PICK p : p = BlockStart(S, el)
    OBVIOUS
  <2>2. p \in S /\ p \in Val /\ p \in 0..el /\ p \in CycleOf(d, el)
    <3>1. p \in S /\ p \in 0..el /\ p = CycleMin(d, el)
      BY <1>1, <2>1, BlockBounds, CyclesAreBlocks
    <3>2. CycleOf(d, el) \in SUBSET Nat /\ CycleOf(d, el) # {}
      BY <1>1, CycleFacts, ValFinite
    <3>3. p \in CycleOf(d, el)
      BY <3>1, <3>2, MinMember DEF CycleMin
    <3> QED BY <1>1, <3>1, <3>3
  <2>3. CycleOf(d, p) = CycleOf(d, el) /\ p \in ClassOf(d, el) /\ el \in CycleOf(d, el)
    BY <1>1, <2>2, CycleFacts
  <2>4. p \notin F
    BY <1>1, <2>3 DEF Whole
  <2>5. ~ (p < el) /\ p <= el /\ p \in Nat /\ el \in Nat
    BY <1>1, <2>2, <2>3, <2>4, ValFinite
  <2> QED BY <2>1, <2>5
<1>5. el \in S
  BY <1>1, <1>4, BlockBounds
<1>6. \A k \in 0..(BlockLength(S, el) - 1) : Around(S, el, k) = el + k
  <2>1. PICK q : q = BlockEnd(S, el)
    OBVIOUS
  <2>2. q \in (el + 1)..N /\ el \in Nat
    BY <1>1, <2>1, BlockBounds, ValFinite
  <2>3. BlockLength(S, el) = q - el
    BY <1>4, <2>1 DEF BlockLength
  <2>4. \A k : Around(S, el, k) = IF el + k < q THEN el + k ELSE el + k - (q - el)
    BY <1>4, <2>1 DEF Around
  <2> QED BY <2>2, <2>3, <2>4, NAssumption
<1> QED BY <1>1, <1>2, <1>3, <1>5, <1>6

(* The points decided after k further calls.                               *)
Prefix(S, F, el, k) == F \cup {Around(S, el, j) : j \in 0..k}

Growing(d, S, F, el) ==
  /\ Prefix(S, F, el, 0) = F \cup {el}
  /\ \A k \in 0..(BlockLength(S, el) - 1) :
       Prefix(S, F, el, k) \in SUBSET Val /\ Filled(d, Prefix(S, F, el, k))
  /\ \A k \in 1..(BlockLength(S, el) - 1) :
       /\ Around(S, el, k) \notin Prefix(S, F, el, k - 1)
       /\ Prefix(S, F, el, k) = Prefix(S, F, el, k - 1) \cup {Around(S, el, k)}
  /\ Prefix(S, F, el, BlockLength(S, el) - 1) = F \cup CycleOf(d, el)
  /\ Whole(d, F \cup CycleOf(d, el))

LEMMA PrefixGrows ==
  ASSUME NEW d, NEW S, NEW h, NEW F, NEW el, NEW y, MayDecide(d, S, h, F, el, y)
  PROVE  Growing(d, S, F, el)
<1> DEFINE n == BlockLength(S, el)
           A(k) == Around(S, el, k)
<1>1. /\ d \in [Val -> Val] /\ S \in SUBSET Val /\ Follows(d, S) /\ 0 \in S
      /\ F \in SUBSET Val /\ Filled(d, F) /\ Whole(d, F) /\ el \in Val
      /\ \A z \in ClassOf(d, el) : z < el => z \in F
  BY DEF MayDecide, Sound, Follows
<1>2. \A k \in 0..(n - 1) : A(k) = el + k /\ A(k) \in ClassOf(d, el) \ F /\ A(k) \in Val
  BY DecideFacts, Classes, <1>1
<1>3. n \in Nat \ {0} /\ el \in Nat
  BY <1>1, AroundCycle, ValFinite
<1>4. CycleOf(d, el) = {A(k) : k \in 0..(n - 1)}
  <2>2. \A k \in 0..(n - 1) : A(k) \in CycleOf(d, el)
    BY <1>1, AroundCycle
  <2>3. \A z \in CycleOf(d, el) : \E k \in 0..(n - 1) : z = A(k)
    BY <1>1, AroundCycle
  <2> HIDE DEF A, n
  <2> QED BY <2>2, <2>3
<1>5. Whole(d, F \cup CycleOf(d, el))
  <2>1. \A z \in CycleOf(d, el) : CycleOf(d, z) = CycleOf(d, el)
    BY <1>1, CycleFacts
  <2> QED BY <1>1, <2>1 DEF Whole
<1> HIDE DEF n
<1>6. \A k : Prefix(S, F, el, k) = F \cup {A(j) : j \in 0..k}
  BY DEF Prefix
<1> HIDE DEF A
<1>7. Prefix(S, F, el, 0) = F \cup {el}
  <2>1. 0..0 = {0} /\ A(0) = el
    BY <1>2, <1>3
  <2> QED BY <1>6, <2>1
<1>8. ASSUME NEW k \in 0..(n - 1)
      PROVE  Prefix(S, F, el, k) \in SUBSET Val /\ Filled(d, Prefix(S, F, el, k))
  <2>1. \A j \in 0..k : j \in 0..(n - 1)
    BY <1>3
  <2>2. Prefix(S, F, el, k) \in SUBSET Val
    BY <1>1, <1>2, <1>6, <2>1
  <2>3. ASSUME NEW x \in Prefix(S, F, el, k), NEW z \in Val, z \in ClassOf(d, x), z < x
        PROVE  z \in Prefix(S, F, el, k)
    <3>1. CASE x \in F
      BY <1>1, <1>6, <2>3, <3>1 DEF Filled
    <3>2. CASE x \notin F
      <4>1. PICK j \in 0..k : x = A(j)
        BY <1>6, <2>3, <3>2
      <4>2. x = el + j /\ z \in ClassOf(d, el) /\ z \in Nat /\ j \in Nat
        BY <1>1, <1>2, <2>1, <2>3, <4>1, Classes, ValFinite
      <4>3. CASE z < el
        BY <1>1, <1>6, <4>2, <4>3
      <4>4. CASE ~ (z < el)
        <5>1. z - el \in 0..k /\ z - el \in 0..(n - 1) /\ z = el + (z - el)
          BY <1>3, <2>3, <4>1, <4>2, <4>4
        <5>2. z = A(z - el)
          BY <1>2, <5>1
        <5> QED BY <1>6, <5>1, <5>2
      <4> QED BY <4>3, <4>4
    <3> QED BY <3>1, <3>2
  <2> QED BY <2>2, <2>3 DEF Filled
<1>9. ASSUME NEW k \in 1..(n - 1)
      PROVE  /\ A(k) \notin Prefix(S, F, el, k - 1)
             /\ Prefix(S, F, el, k) = Prefix(S, F, el, k - 1) \cup {A(k)}
  <2>1. k \in 0..(n - 1) /\ \A j \in 0..(k - 1) : j \in 0..(n - 1) /\ j # k
    BY <1>3
  <2>2. 0..k = 0..(k - 1) \cup {k}
    BY <1>3
  <2>3. \A j \in 0..(k - 1) : A(j) # A(k)
    BY <1>2, <1>3, <2>1
  <2> QED BY <1>2, <1>6, <2>1, <2>2, <2>3
<1>10. Prefix(S, F, el, n - 1) = F \cup CycleOf(d, el)
  BY <1>4, <1>6
<1> QED BY <1>5, <1>7, <1>8, <1>9, <1>10 DEF Growing, A, n

(* A permutation that respects the diagonal takes cycles to cycles.        *)
LEMMA CommutesAround ==
  ASSUME NEW d \in [Val -> Val], NEW S \in SUBSET Val, Follows(d, S),
         NEW h, Within(d, h), Commutes(d, h), NEW x \in Val
  PROVE  /\ h[x] \in Val /\ BlockLength(S, h[x]) = BlockLength(S, x)
         /\ \A k \in 0..(BlockLength(S, x) - 1) :
              h[Around(S, x, k)] = Around(S, h[x], k)
<1> DEFINE n == BlockLength(S, x)
           Bad == {k \in 0..(n - 1) : h[Around(S, x, k)] # Around(S, h[x], k)}
<1>1. 0 \in S /\ h[x] \in Val /\ BlockLength(S, h[x]) = n
  BY ClassLengths DEF Within, Permutes, Follows
<1>2. n \in Nat \ {0}
  BY <1>1, GoAround DEF GoesAround
<1>3. Bad = {}
  <2> SUFFICES ASSUME Bad # {}
               PROVE  FALSE
    OBVIOUS
  <2>1. Bad \in SUBSET Nat
    BY <1>2
  <2>2. PICK m \in Bad : \A k \in Bad : m <= k
    <3> HIDE DEF Bad
    <3> QED BY <2>1, LeastNat
  <2>3. m \in 0..(n - 1) /\ h[Around(S, x, m)] # Around(S, h[x], m)
    OBVIOUS
  <2>4. m # 0
    <3>1. Around(S, x, 0) = x /\ Around(S, h[x], 0) = h[x]
      BY <1>1, AroundCycle
    <3> QED BY <2>3, <3>1
  <2>5. m - 1 \in 0..(n - 2) /\ m - 1 \in 0..(n - 1) /\ m = (m - 1) + 1
    BY <1>2, <2>3, <2>4
  <2>6. h[Around(S, x, m - 1)] = Around(S, h[x], m - 1)
    BY <2>2, <2>5
  <2>7. d[Around(S, x, m - 1)] = Around(S, x, m) /\ Around(S, x, m - 1) \in Val
    <3>1. m - 1 \in 0..(BlockLength(S, x) - 2)
      BY <2>5
    <3>2. d[Around(S, x, m - 1)] = Around(S, x, (m - 1) + 1)
      BY <3>1, DiagonalLeads
    <3>3. Around(S, x, m - 1) \in Val
      BY <2>5, AroundCycle
    <3>4. (m - 1) + 1 = m
      BY <2>5
    <3> QED BY <3>2, <3>3, <3>4
  <2>8. d[Around(S, h[x], m - 1)] = Around(S, h[x], m)
    <3>1. m - 1 \in 0..(BlockLength(S, h[x]) - 2)
      BY <1>1, <2>5
    <3>2. d[Around(S, h[x], m - 1)] = Around(S, h[x], (m - 1) + 1)
      BY <1>1, <3>1, DiagonalLeads
    <3>3. (m - 1) + 1 = m
      BY <2>5
    <3> QED BY <3>2, <3>3
  <2> QED BY <2>3, <2>6, <2>7, <2>8 DEF Commutes
<1> QED BY <1>1, <1>3
-----------------------------------------------------------------------------
(* The calls along the cycle, one exchange each.                           *)
Back(g, v) == CHOOSE x \in Val : g[x] = v

Chain(S, h, el, y, m, H) ==
  /\ H[0] = Exchanged(h, el, y)
  /\ \A k \in 1..m :
       H[k] = Exchanged(H[k - 1], Around(S, el, k), Back(H[k - 1], h[Around(S, y, k)]))

(* After k further calls g has not touched what was decided before, and    *)
(* the points of the cycle up to the k-th have their images.               *)
Led(d, S, h, F, el, y, k, g) ==
  /\ Within(d, g)
  /\ \A x \in F : g[x] = h[x]
  /\ \A j \in 0..k : g[Around(S, el, j)] = h[Around(S, y, j)]

LEMMA BackIs ==
  ASSUME NEW g, Permutes(g), NEW v \in Val
  PROVE  Back(g, v) \in Val /\ g[Back(g, v)] = v
<1>1. \E x \in Val : g[x] = v
  BY DEF Permutes
<1> QED BY <1>1 DEF Back

LEMMA ChainExists ==
  ASSUME NEW S, NEW h, NEW el, NEW y, NEW m \in Nat, Permutes(h), el \in Val, y \in Val,
         \A k \in 0..m : Around(S, el, k) \in Val /\ Around(S, y, k) \in Val
  PROVE  \E H : Chain(S, h, el, y, m, H)
<1> DEFINE T == {g \in [Val -> Val] : Permutes(g)}
           Next1(k, g) == Exchanged(g, Around(S, el, k), Back(g, h[Around(S, y, k)]))
           G == [k \in 1..m |-> [g \in T |-> Next1(k, g)]]
           a == Exchanged(h, el, y)
<1>1. h \in [Val -> Val]
  BY DEF Permutes
<1>2. a \in T
  <2>1. Permutes(a)
    BY SwapPermutes DEF Exchanged
  <2> QED BY <2>1 DEF Permutes
<1>3. ASSUME NEW k \in 1..m, NEW g \in T
      PROVE  Next1(k, g) \in T
  <2>1. k \in 0..m
    OBVIOUS
  <2>2. Around(S, el, k) \in Val /\ h[Around(S, y, k)] \in Val
    BY <1>1, <2>1
  <2>3. Back(g, h[Around(S, y, k)]) \in Val
    BY <2>2, BackIs
  <2>4. Permutes(Next1(k, g))
    BY <2>2, <2>3, SwapPermutes DEF Exchanged
  <2> HIDE DEF Next1
  <2> QED BY <2>4 DEF Permutes
<1> HIDE DEF Next1, a
<1>4. G \in [1..m -> [T -> T]]
  BY <1>3
<1>5. PICK H \in [0..m -> T] : Iterated(a, m, G, H)
  <2> HIDE DEF G, T
  <2> QED BY <1>2, <1>4, Iterates
<1>6. ASSUME NEW k \in 1..m
      PROVE  H[k] = Next1(k, H[k - 1])
  <2>1. k - 1 \in 0..m /\ H[k - 1] \in T
    BY <1>5
  <2> HIDE DEF T
  <2>2. G[k][H[k - 1]] = Next1(k, H[k - 1])
    BY <2>1
  <2> QED BY <1>5, <2>2 DEF Iterated
<1>7. H[0] = a
  BY <1>5 DEF Iterated
<1> QED BY <1>6, <1>7 DEF Chain, Next1, a

(* One more call finds its image undecided.                                *)
LEMMA NextExchange ==
  ASSUME NEW d, NEW S, NEW h, NEW F, NEW el, NEW y, MayDecide(d, S, h, F, el, y),
         NEW k \in 1..(BlockLength(S, el) - 1), NEW g, Led(d, S, h, F, el, y, k - 1, g)
  PROVE  LET z == Back(g, h[Around(S, y, k)])
         IN /\ z \in ClassOf(d, Around(S, el, k)) \ Prefix(S, F, el, k - 1)
            /\ g[z] = h[Around(S, y, k)]
            /\ Led(d, S, h, F, el, y, k, Exchanged(g, Around(S, el, k), z))
<1> DEFINE n == BlockLength(S, el)
           z == Back(g, h[Around(S, y, k)])
<1>1. /\ d \in [Val -> Val] /\ S \in SUBSET Val /\ Follows(d, S) /\ F \in SUBSET Val
      /\ Within(d, h) /\ el \in Val /\ el \notin F
  BY DEF MayDecide, Sound
<1>2. /\ n \in Nat \ {0} /\ BlockLength(S, y) = n /\ y \in Val
      /\ \A j \in 0..(n - 1) : /\ Around(S, el, j) \in ClassOf(d, el) \ F
                               /\ Around(S, y, j) \in ClassOf(d, el) \ F
  BY <1>1, DecideFacts, AroundCycle
<1>3. \A i, j \in 0..(n - 1) :
        /\ Around(S, el, i) = Around(S, el, j) => i = j
        /\ Around(S, y, i) = Around(S, y, j) => i = j
  BY <1>1, <1>2, AroundCycle
<1> HIDE DEF n
<1>4. k \in 0..(n - 1) /\ \A j \in 0..(k - 1) : j \in 0..(n - 1) /\ j # k
  BY <1>2 DEF n
<1>5. PICK A, Y : /\ A = [j \in 0..(n - 1) |-> Around(S, el, j)]
                  /\ Y = [j \in 0..(n - 1) |-> Around(S, y, j)]
  OBVIOUS
<1>6. /\ \A j \in 0..(n - 1) :
           /\ A[j] \in ClassOf(d, el) \ F /\ A[j] \in Val
           /\ Y[j] \in ClassOf(d, el) \ F /\ Y[j] \in Val
      /\ \A i, j \in 0..(n - 1) : (A[i] = A[j] => i = j) /\ (Y[i] = Y[j] => i = j)
  <2>1. ClassOf(d, el) \subseteq Val
    BY <1>1, Classes
  <2> QED BY <1>2, <1>3, <1>5, <2>1
<1>7. A[k] = Around(S, el, k) /\ Y[k] = Around(S, y, k)
  BY <1>4, <1>5
<1>8. /\ Within(d, g) /\ \A x \in F : g[x] = h[x]
      /\ \A j \in 0..(k - 1) : g[A[j]] = h[Y[j]]
  <2>1. /\ Within(d, g) /\ \A x \in F : g[x] = h[x]
        /\ \A j \in 0..(k - 1) : g[Around(S, el, j)] = h[Around(S, y, j)]
    BY DEF Led
  <2> QED BY <1>4, <1>5, <2>1
<1>9. /\ h \in [Val -> Val] /\ \A v, w \in Val : h[v] = h[w] => v = w
      /\ g \in [Val -> Val] /\ \A v \in Val : g[v] \in ClassOf(d, v) /\ h[v] \in ClassOf(d, v)
      /\ Permutes(g)
  BY <1>1, <1>8 DEF Within, Permutes
<1>10. z \in Val /\ g[z] = h[Y[k]]
  BY <1>4, <1>6, <1>7, <1>9, BackIs
<1> HIDE DEF z
<1>11. z \in ClassOf(d, el) /\ z \in ClassOf(d, A[k])
  <2>1. h[Y[k]] \in ClassOf(d, Y[k]) /\ h[Y[k]] \in ClassOf(d, z)
    BY <1>4, <1>6, <1>9, <1>10
  <2>2. ClassOf(d, Y[k]) = ClassOf(d, el) /\ ClassOf(d, A[k]) = ClassOf(d, el)
    BY <1>1, <1>4, <1>6, Classes
  <2>3. ClassOf(d, h[Y[k]]) = ClassOf(d, el) /\ ClassOf(d, h[Y[k]]) = ClassOf(d, z)
    BY <1>4, <1>6, <1>10, <2>1, <2>2, Classes
  <2> QED BY <1>10, <2>2, <2>3, Classes
<1>12. z \notin F
  <2>1. z \in F => g[z] = h[z]
    BY <1>8
  <2> QED BY <1>4, <1>6, <1>9, <1>10, <2>1
<1>13. \A j \in 0..(k - 1) : z # A[j]
  <2> SUFFICES ASSUME NEW j \in 0..(k - 1), z = A[j]
               PROVE  FALSE
    OBVIOUS
  <2>1. h[Y[k]] = h[Y[j]] /\ j \in 0..(n - 1) /\ j # k
    BY <1>4, <1>8, <1>10
  <2> QED BY <1>4, <1>6, <1>9, <2>1
<1>14. z \notin Prefix(S, F, el, k - 1)
  BY <1>4, <1>5, <1>12, <1>13 DEF Prefix
<1>15. PICK e : e = Exchanged(g, A[k], z)
  OBVIOUS
<1>16. /\ Within(d, e) /\ e[A[k]] = h[Y[k]]
       /\ \A x \in Val : x # A[k] /\ x # z => e[x] = g[x]
  <2>1. Within(d, e)
    BY <1>4, <1>6, <1>8, <1>11, <1>15, ExchangeWithin
  <2> QED BY <1>4, <1>6, <1>9, <1>10, <1>15, <2>1 DEF Exchanged
<1>17. \A x \in F : e[x] = h[x]
  BY <1>1, <1>4, <1>6, <1>8, <1>12, <1>16
<1>18. \A j \in 0..(k - 1) : e[A[j]] = h[Y[j]]
  BY <1>4, <1>6, <1>8, <1>13, <1>16
<1>19. \A j \in 0..k : e[A[j]] = h[Y[j]] /\ j \in 0..(n - 1)
  <2>1. \A j \in 0..k : j = k \/ j \in 0..(k - 1)
    BY <1>4
  <2> QED BY <1>4, <1>16, <1>18, <2>1
<1>20. Led(d, S, h, F, el, y, k, e)
  BY <1>5, <1>16, <1>17, <1>19 DEF Led
<1> QED BY <1>7, <1>10, <1>11, <1>14, <1>15, <1>20 DEF z

LEMMA FirstExchange ==
  ASSUME NEW d, NEW S, NEW h, NEW F, NEW el, NEW y, MayDecide(d, S, h, F, el, y)
  PROVE  Led(d, S, h, F, el, y, 0, Exchanged(h, el, y))
<1> DEFINE e == Exchanged(h, el, y)
<1>1. /\ d \in [Val -> Val] /\ S \in SUBSET Val /\ Follows(d, S) /\ F \in SUBSET Val
      /\ Within(d, h) /\ el \in Val /\ el \notin F /\ y \in ClassOf(d, el) \ F
      /\ y \in Val /\ h \in [Val -> Val]
  BY Classes DEF MayDecide, Sound, Within, Permutes
<1>2. Within(d, e)
  BY <1>1, ExchangeWithin
<1>3. e[el] = h[y] /\ \A x \in F : e[x] = h[x]
  BY <1>1 DEF Exchanged
<1>4. Around(S, el, 0) = el /\ Around(S, y, 0) = y
  BY <1>1, AroundCycle
<1> HIDE DEF e
<1>5. \A j \in 0..0 : e[Around(S, el, j)] = h[Around(S, y, j)]
  BY <1>3, <1>4
<1> QED BY <1>2, <1>3, <1>5 DEF Led, e

LEMMA ChainLeads ==
  ASSUME NEW d, NEW S, NEW h, NEW F, NEW el, NEW y, MayDecide(d, S, h, F, el, y),
         NEW H, Chain(S, h, el, y, BlockLength(S, el) - 1, H)
  PROVE  \A k \in 0..(BlockLength(S, el) - 1) : Led(d, S, h, F, el, y, k, H[k])
<1> DEFINE n == BlockLength(S, el)
           Bad == {k \in 0..(n - 1) : ~ Led(d, S, h, F, el, y, k, H[k])}
<1> SUFFICES ASSUME Bad # {}
             PROVE  FALSE
  OBVIOUS
<1>1. PICK m \in Bad : \A k \in Bad : m <= k
  <2>1. Bad \in SUBSET Nat
    OBVIOUS
  <2> HIDE DEF Bad
  <2> QED BY <2>1, LeastNat
<1>2. m \in 0..(n - 1) /\ ~ Led(d, S, h, F, el, y, m, H[m])
  OBVIOUS
<1>3. m # 0
  <2>1. H[0] = Exchanged(h, el, y)
    BY DEF Chain
  <2> QED BY <1>2, <2>1, FirstExchange
<1>4. m \in 1..(n - 1) /\ m - 1 \in 0..(n - 1)
  <2>1. n \in Nat
    BY AroundCycle DEF MayDecide
  <2> HIDE DEF n
  <2> QED BY <1>2, <1>3, <2>1
<1>5. Led(d, S, h, F, el, y, m - 1, H[m - 1])
  BY <1>1, <1>4
<1>6. H[m] = Exchanged(H[m - 1], Around(S, el, m), Back(H[m - 1], h[Around(S, y, m)]))
  BY <1>4 DEF Chain
<1>7. Led(d, S, h, F, el, y, m, H[m])
  BY <1>4, <1>5, <1>6, NextExchange
<1> QED BY <1>2, <1>7

(* What the calls return.                                                  *)
CallsSucceed(d, S, h, F, el, y, H, kind, b) ==
  /\ fix(As(kind, d, h, F), el, h[y])
       = [perm |-> As(kind, d, H[0], F \cup {el}), ok |-> TRUE]
  /\ fixAndPropagate(As(kind, d, h, F), el, h[y], S, b, FALSE)
       = [perm |-> As(kind, d, H[BlockLength(S, el) - 1], F \cup CycleOf(d, el)),
          ok |-> TRUE]

LEMMA CallsReturn ==
  ASSUME NEW d, NEW S, NEW h, NEW F, NEW el, NEW y, MayDecide(d, S, h, F, el, y),
         NEW H, Chain(S, h, el, y, BlockLength(S, el) - 1, H), NEW kind \in Kinds, NEW b
  PROVE  CallsSucceed(d, S, h, F, el, y, H, kind, b)
<1> DEFINE n == BlockLength(S, el)
           dec == h[y]
           At(k) == As(kind, d, H[k], Prefix(S, F, el, k))
           W == [k \in 0..(n - 1) |-> [perm |-> At(k), ok |-> TRUE]]
           pairs == [k \in 1..(n - 1) |-> <<Around(S, el, k), Around(S, dec, k)>>]
<1>1. /\ d \in [Val -> Val] /\ S \in SUBSET Val /\ Follows(d, S) /\ F \in SUBSET Val
      /\ Filled(d, F) /\ Within(d, h) /\ Permutes(h) /\ Adjacent(d) /\ Commutes(d, h)
      /\ el \in Val \ F /\ y \in ClassOf(d, el) \ F /\ y \in Val
  BY Classes DEF MayDecide, Sound, Within
<1>2. /\ n \in Nat \ {0} /\ BlockLength(S, y) = n /\ el \in S
      /\ \A k \in 0..(n - 1) : Around(S, el, k) \in Val \ F
  BY <1>1, DecideFacts, AroundCycle
<1>3. /\ dec \in Val /\ BlockLength(S, dec) = n
      /\ \A k \in 0..(n - 1) : h[Around(S, y, k)] = Around(S, dec, k)
  BY <1>1, <1>2, CommutesAround
<1>4. \A k \in 0..(n - 1) : Led(d, S, h, F, el, y, k, H[k])
  BY ChainLeads
<1>0. Growing(d, S, F, el)
  BY PrefixGrows
<1>5. fix(As(kind, d, h, F), el, dec) = [perm |-> At(0), ok |-> TRUE]
  <2>1. H[0] = Exchanged(h, el, y) /\ Prefix(S, F, el, 0) = F \cup {el}
    BY <1>0 DEF Chain, Growing
  <2> QED BY <1>1, <2>1, FixAs
<1>6. permOf(At(0), el) = dec
  <2>1. Permutes(H[0]) /\ H[0][el] = dec
    <3>1. 0 \in 0..(n - 1) /\ 0 \in 0..0
      BY <1>2
    <3>2. Within(d, H[0]) /\ H[0][Around(S, el, 0)] = h[Around(S, y, 0)]
      BY <1>4, <3>1 DEF Led
    <3>3. Around(S, el, 0) = el /\ Around(S, y, 0) = y
      BY <1>1, AroundCycle
    <3> QED BY <3>2, <3>3 DEF Within
  <2>2. /\ F \cup {el} \in SUBSET Val /\ Prefix(S, F, el, 0) = F \cup {el}
        /\ Filled(d, F \cup {el})
    <3>1. 0 \in 0..(n - 1)
      BY <1>2
    <3>2. Prefix(S, F, el, 0) = F \cup {el} /\ Filled(d, Prefix(S, F, el, 0))
      BY <1>0, <3>1 DEF Growing
    <3> QED BY <1>1, <3>2
  <2>3. PICK g, E : g = H[0] /\ E = F \cup {el}
    OBVIOUS
  <2>4. /\ Permutes(g) /\ E \in SUBSET Val /\ Filled(d, E) /\ el \in Val
        /\ Room(d, E, el) = {el}
    BY <1>1, <2>1, <2>2, <2>3 DEF Room
  <2>5. permOf(As(kind, d, g, E), el) = g[el]
    BY <1>1, <2>4, AsFixed
  <2> QED BY <2>1, <2>2, <2>3, <2>5
<1>7. ASSUME NEW k \in 1..(n - 1)
      PROVE  fix(At(k - 1), Around(S, el, k), Around(S, dec, k))
               = [perm |-> At(k), ok |-> TRUE]
  <2>1. k \in 0..(n - 1) /\ k - 1 \in 0..(n - 1)
    BY <1>2
  <2>2. PICK g, z : g = H[k - 1] /\ z = Back(g, h[Around(S, y, k)])
    OBVIOUS
  <2>3. Led(d, S, h, F, el, y, k - 1, g) /\ Permutes(g)
    BY <1>4, <2>1, <2>2 DEF Led, Within
  <2>4. /\ z \in ClassOf(d, Around(S, el, k)) \ Prefix(S, F, el, k - 1)
        /\ g[z] = h[Around(S, y, k)]
    BY <2>2, <2>3, NextExchange
  <2>5. H[k] = Exchanged(g, Around(S, el, k), z)
    BY <2>2 DEF Chain
  <2>6. /\ Prefix(S, F, el, k - 1) \in SUBSET Val /\ Filled(d, Prefix(S, F, el, k - 1))
        /\ Around(S, el, k) \in Val \ Prefix(S, F, el, k - 1)
        /\ Prefix(S, F, el, k) = Prefix(S, F, el, k - 1) \cup {Around(S, el, k)}
    BY <1>0, <1>2, <2>1 DEF Growing
  <2>7. fix(As(kind, d, g, Prefix(S, F, el, k - 1)), Around(S, el, k), g[z])
          = [perm |-> As(kind, d, H[k], Prefix(S, F, el, k)), ok |-> TRUE]
    BY <1>1, <2>3, <2>4, <2>5, <2>6, FixAs
  <2> QED BY <1>3, <2>1, <2>2, <2>4, <2>7
<1> HIDE DEF At, n, dec
<1>8. FixAll(At(0), pairs) = W[n - 1]
  <2>1. n - 1 \in Nat
    BY <1>2
  <2>2. PICK T : T = {<<Around(S, el, k), Around(S, dec, k)>> : k \in 1..(n - 1)}
    OBVIOUS
  <2>3. pairs \in [1..(n - 1) -> T]
    BY <2>2
  <2>4. W = [k \in 0..(n - 1) |-> W[k]] /\ W[0] = [perm |-> At(0), ok |-> TRUE]
    BY <2>1
  <2>5. \A k \in 1..(n - 1) :
          W[k - 1].ok /\ W[k] = fix(W[k - 1].perm, pairs[k][1], pairs[k][2])
    <3> SUFFICES ASSUME NEW k \in 1..(n - 1)
                 PROVE  W[k - 1].ok /\ W[k] = fix(W[k - 1].perm, pairs[k][1], pairs[k][2])
      OBVIOUS
    <3>1. k \in 0..(n - 1) /\ k - 1 \in 0..(n - 1)
      BY <2>1
    <3>2. W[k - 1] = [perm |-> At(k - 1), ok |-> TRUE] /\ W[k] = [perm |-> At(k), ok |-> TRUE]
      BY <3>1
    <3>3. pairs[k][1] = Around(S, el, k) /\ pairs[k][2] = Around(S, dec, k)
      OBVIOUS
    <3> QED BY <1>7, <3>2, <3>3
  <2> HIDE DEF W, pairs, At
  <2>6. Succeeding(At(0), n - 1, pairs, W)
    BY <2>4, <2>5, Zenon DEF Succeeding
  <2> QED BY <2>1, <2>3, <2>6, FixAllRuns
<1>9. W[n - 1] = [perm |-> At(n - 1), ok |-> TRUE]
  BY <1>2
<1>10. FollowCycle(At(0), cycle(S, el, b), dec, S, b) = FixAll(At(0), pairs)
  <2>1. BlockLength(S, dec) = BlockLength(S, el)
    BY <1>3 DEF n
  <2> QED BY <1>1, <1>2, <1>3, <2>1, FollowIs DEF n
<1> HIDE DEF W, pairs
<1>11. fixAndPropagate(As(kind, d, h, F), el, dec, S, b, FALSE) = [perm |-> At(n - 1), ok |-> TRUE]
  BY <1>5, <1>6, <1>8, <1>9, <1>10 DEF fixAndPropagate, PropagateFixed, propagateDecision
<1>12. /\ Prefix(S, F, el, n - 1) = F \cup CycleOf(d, el)
       /\ Prefix(S, F, el, 0) = F \cup {el}
  BY <1>0 DEF n, Growing
<1> QED BY <1>5, <1>11, <1>12 DEF CallsSucceed, At, n, dec

(* One step further on the cycle.                                          *)
Onward(n, k) == IF k = n - 1 THEN 0 ELSE k + 1

LEMMA NextAround ==
  ASSUME NEW d \in [Val -> Val], NEW S \in SUBSET Val, Follows(d, S), NEW x \in Val,
         NEW k \in 0..(BlockLength(S, x) - 1)
  PROVE  /\ d[Around(S, x, k)] = Around(S, x, Onward(BlockLength(S, x), k))
         /\ Onward(BlockLength(S, x), k) \in 0..(BlockLength(S, x) - 1)
<1>1. PICK n : n = BlockLength(S, x)
  OBVIOUS
<1>2. n \in Nat \ {0} /\ Around(S, x, 0) = x
  BY <1>1, AroundCycle
<1>3. CASE k = n - 1
  <2>1. d[Around(S, x, BlockLength(S, x) - 1)] = x
    BY DiagonalLeads
  <2> QED BY <1>1, <1>2, <1>3, <2>1 DEF Onward
<1>4. CASE k # n - 1
  <2>1. k \in 0..(n - 2) /\ k \in Nat
    BY <1>1, <1>2, <1>4
  <2>2. d[Around(S, x, k)] = Around(S, x, k + 1)
    BY <1>1, <2>1, DiagonalLeads
  <2> QED BY <1>1, <1>2, <1>4, <2>1, <2>2 DEF Onward
<1> QED BY <1>3, <1>4

(* Cycles are disjoint.                                                    *)
LEMMA CyclesApart ==
  ASSUME NEW d \in [Val -> Val], NEW S \in SUBSET Val, Follows(d, S),
         NEW x \in Val, NEW y \in Val, y \notin CycleOf(d, x)
  PROVE  /\ d[y] \notin CycleOf(d, x)
         /\ CycleOf(d, x) \cap CycleOf(d, y) = {}
         /\ x \notin CycleOf(d, y)
<1>1. ASSUME NEW z \in CycleOf(d, x), z \in CycleOf(d, y)
      PROVE  FALSE
  <2>1. CycleOf(d, z) = CycleOf(d, x) /\ CycleOf(d, z) = CycleOf(d, y)
    BY <1>1, CycleFacts
  <2>2. y \in CycleOf(d, y)
    BY CycleFacts
  <2> QED BY <2>1, <2>2
<1>2. d[y] \in CycleOf(d, y) /\ x \in CycleOf(d, x)
  BY CycleFacts
<1> QED BY <1>1, <1>2

(* An image on the cycle itself: the other points keep theirs.             *)
LEMMA ChainTurns ==
  ASSUME NEW d, NEW S, NEW h, NEW F, NEW el, NEW y, MayDecide(d, S, h, F, el, y),
         NEW H, Chain(S, h, el, y, BlockLength(S, el) - 1, H), y \in CycleOf(d, el)
  PROVE  \A k \in 0..(BlockLength(S, el) - 1) :
           \A x \in Val \ CycleOf(d, el) : H[k][x] = h[x]
<1> DEFINE n == BlockLength(S, el)
           C == CycleOf(d, el)
           Bad == {k \in 0..(n - 1) : ~ \A x \in Val \ C : H[k][x] = h[x]}
<1> SUFFICES ASSUME Bad # {}
             PROVE  FALSE
  OBVIOUS
<1>1. /\ d \in [Val -> Val] /\ S \in SUBSET Val /\ Follows(d, S)
      /\ Within(d, h) /\ el \in Val /\ y \in Val /\ BlockLength(S, y) = n
  BY DecideFacts DEF MayDecide, Sound
<1>2. PICK k \in Bad : \A j \in Bad : k <= j
  <2>1. Bad \in SUBSET Nat
    OBVIOUS
  <2> HIDE DEF Bad
  <2> QED BY <2>1, LeastNat
<1>3. n \in Nat /\ el \in C /\ CycleOf(d, y) = C
  BY <1>1, AroundCycle, CycleFacts
<1>4. \A x \in Val \ C : H[0][x] = h[x]
  <2>1. H[0] = Exchanged(h, el, y) /\ h \in [Val -> Val]
    BY <1>1 DEF Chain, Within, Permutes
  <2> HIDE DEF C
  <2> QED BY <1>1, <1>3, <2>1 DEF Exchanged, C
<1>5. k \in 1..(n - 1) /\ k - 1 \in 0..(n - 1) /\ k \in 0..(n - 1)
  <2> HIDE DEF n, C
  <2> QED BY <1>2, <1>3, <1>4
<1>6. PICK g, z : g = H[k - 1] /\ z = Back(g, h[Around(S, y, k)])
  OBVIOUS
<1>7. \A x \in Val \ C : g[x] = h[x]
  <2> HIDE DEF n, C
  <2> QED BY <1>2, <1>3, <1>5, <1>6
<1>8. Led(d, S, h, F, el, y, k - 1, g)
  BY <1>5, <1>6, ChainLeads
<1>9. /\ z \in ClassOf(d, Around(S, el, k)) /\ g[z] = h[Around(S, y, k)]
      /\ H[k] = Exchanged(g, Around(S, el, k), z)
  <2>1. /\ z \in ClassOf(d, Around(S, el, k)) /\ g[z] = h[Around(S, y, k)]
    BY <1>5, <1>6, <1>8, NextExchange
  <2> QED BY <1>5, <1>6, <2>1 DEF Chain
<1>10. Around(S, y, k) \in C /\ Around(S, el, k) \in C /\ Around(S, y, k) \in Val
       /\ Around(S, el, k) \in Val
  BY <1>1, <1>3, <1>5, AroundCycle
<1>11. z \in C
  <2>1. z \in Val /\ \A v, w \in Val : h[v] = h[w] => v = w
    BY <1>1, <1>9, <1>10, Classes DEF Within, Permutes
  <2> HIDE DEF C
  <2> QED BY <1>7, <1>9, <1>10, <2>1
<1>12. \A x \in Val \ C : H[k][x] = h[x]
  <2>1. g \in [Val -> Val]
    BY <1>8 DEF Led, Within, Permutes
  <2> HIDE DEF C
  <2> QED BY <1>7, <1>9, <1>10, <1>11, <2>1 DEF Exchanged
<1> QED BY <1>2, <1>12

(* An image on another cycle: the two cycles are exchanged point by point. *)
Swapped(d, S, h, el, y, k, g) ==
  /\ \A j \in 0..k : g[Around(S, y, j)] = h[Around(S, el, j)]
  /\ \A j \in (k + 1)..(BlockLength(S, el) - 1) :
       /\ g[Around(S, y, j)] = h[Around(S, y, j)]
       /\ g[Around(S, el, j)] = h[Around(S, el, j)]
  /\ \A x \in Val \ (CycleOf(d, el) \cup CycleOf(d, y)) : g[x] = h[x]

LEMMA NextSwap ==
  ASSUME NEW d, NEW S, NEW h, NEW F, NEW el, NEW y, MayDecide(d, S, h, F, el, y),
         y \notin CycleOf(d, el),
         NEW k \in 1..(BlockLength(S, el) - 1), NEW g, Led(d, S, h, F, el, y, k - 1, g),
         Swapped(d, S, h, el, y, k - 1, g)
  PROVE  Swapped(d, S, h, el, y, k,
                 Exchanged(g, Around(S, el, k), Back(g, h[Around(S, y, k)])))
<1> DEFINE n == BlockLength(S, el)
           z == Back(g, h[Around(S, y, k)])
<1>1. /\ d \in [Val -> Val] /\ S \in SUBSET Val /\ Follows(d, S)
      /\ Within(d, h) /\ el \in Val /\ y \in Val /\ BlockLength(S, y) = n
  BY DecideFacts DEF MayDecide, Sound
<1>2. /\ n \in Nat \ {0}
      /\ \A j \in 0..(n - 1) : /\ Around(S, el, j) \in CycleOf(d, el)
                               /\ Around(S, el, j) \in Val
                               /\ Around(S, y, j) \in CycleOf(d, y)
                               /\ Around(S, y, j) \in Val
  BY <1>1, AroundCycle
<1>3. \A i, j \in 0..(n - 1) :
        /\ Around(S, el, i) = Around(S, el, j) => i = j
        /\ Around(S, y, i) = Around(S, y, j) => i = j
  BY <1>1, <1>2, AroundCycle
<1>4. CycleOf(d, el) \cap CycleOf(d, y) = {}
  BY <1>1, CyclesApart
<1>5. PICK A, Y : /\ A = [j \in 0..(n - 1) |-> Around(S, el, j)]
                  /\ Y = [j \in 0..(n - 1) |-> Around(S, y, j)]
  OBVIOUS
<1> HIDE DEF n
<1>6. /\ k \in 0..(n - 1) /\ k \in k..(n - 1) /\ (k - 1) + 1 = k
      /\ \A j \in 0..k : j \in 0..(n - 1) /\ (j = k \/ j \in 0..(k - 1))
      /\ \A j \in 0..(k - 1) : j \in 0..(n - 1) /\ j # k
      /\ \A j \in k..(n - 1) : j \in 0..(n - 1)
      /\ \A j \in (k + 1)..(n - 1) : j \in k..(n - 1) /\ j \in 0..(n - 1) /\ j # k
  BY <1>2 DEF n
<1>7. \A i, j \in 0..(n - 1) :
        /\ A[i] \in CycleOf(d, el) /\ A[i] \in Val /\ Y[i] \in CycleOf(d, y) /\ Y[i] \in Val
        /\ A[i] # Y[j] /\ (A[i] = A[j] => i = j) /\ (Y[i] = Y[j] => i = j)
  BY <1>2, <1>3, <1>4, <1>5
<1>8. A[k] = Around(S, el, k) /\ Y[k] = Around(S, y, k)
  BY <1>5, <1>6
<1>9. /\ \A j \in 0..(k - 1) : g[Y[j]] = h[A[j]]
      /\ \A j \in k..(n - 1) : g[Y[j]] = h[Y[j]] /\ g[A[j]] = h[A[j]]
      /\ \A x \in Val \ (CycleOf(d, el) \cup CycleOf(d, y)) : g[x] = h[x]
  BY <1>5, <1>6 DEF Swapped, n
<1>10. /\ g \in [Val -> Val] /\ Permutes(g) /\ h \in [Val -> Val]
       /\ \A v, w \in Val : g[v] = g[w] => v = w
  BY <1>1 DEF Led, Within, Permutes
<1>11. z = Y[k]
  <2>1. h[Y[k]] \in Val /\ Y[k] \in Val
    BY <1>6, <1>7, <1>10
  <2>2. z \in Val /\ g[z] = h[Y[k]]
    BY <1>8, <1>10, <2>1, BackIs
  <2>3. g[Y[k]] = h[Y[k]]
    BY <1>6, <1>9
  <2> HIDE DEF z
  <2> QED BY <1>10, <2>1, <2>2, <2>3
<1>12. PICK e : e = Exchanged(g, A[k], Y[k])
  OBVIOUS
<1>13. \A x \in Val : e[x] = IF x = Y[k] THEN g[A[k]] ELSE IF x = A[k] THEN g[Y[k]] ELSE g[x]
  BY <1>6, <1>7, <1>10, <1>12 DEF Exchanged
<1>14. \A j \in 0..(k - 1) : e[Y[j]] = h[A[j]]
  BY <1>6, <1>7, <1>9, <1>13
<1>15. e[Y[k]] = h[A[k]]
  BY <1>6, <1>7, <1>9, <1>13
<1>16. \A j \in (k + 1)..(n - 1) : e[Y[j]] = h[Y[j]] /\ e[A[j]] = h[A[j]]
  BY <1>6, <1>7, <1>9, <1>13
<1>17. \A x \in Val \ (CycleOf(d, el) \cup CycleOf(d, y)) : e[x] = h[x]
  BY <1>6, <1>7, <1>9, <1>13
<1>18. \A j \in 0..k : e[Y[j]] = h[A[j]]
  BY <1>6, <1>14, <1>15
<1>19. Swapped(d, S, h, el, y, k, e)
  <2>1. \A j \in 0..(n - 1) : A[j] = Around(S, el, j) /\ Y[j] = Around(S, y, j)
    BY <1>5
  <2> QED BY <1>6, <1>16, <1>17, <1>18, <2>1 DEF Swapped, n
<1> QED BY <1>8, <1>11, <1>12, <1>19 DEF z

LEMMA FirstSwap ==
  ASSUME NEW d, NEW S, NEW h, NEW F, NEW el, NEW y, MayDecide(d, S, h, F, el, y),
         y \notin CycleOf(d, el)
  PROVE  Swapped(d, S, h, el, y, 0, Exchanged(h, el, y))
<1> DEFINE n == BlockLength(S, el)
           e == Exchanged(h, el, y)
<1>1. /\ d \in [Val -> Val] /\ S \in SUBSET Val /\ Follows(d, S)
      /\ Within(d, h) /\ el \in Val /\ y \in Val /\ BlockLength(S, y) = n
  BY DecideFacts DEF MayDecide, Sound
<1>2. /\ n \in Nat \ {0} /\ Around(S, el, 0) = el /\ Around(S, y, 0) = y
      /\ \A j \in 0..(n - 1) : /\ Around(S, el, j) \in CycleOf(d, el)
                               /\ Around(S, el, j) \in Val
                               /\ Around(S, y, j) \in CycleOf(d, y)
                               /\ Around(S, y, j) \in Val
  BY <1>1, AroundCycle
<1>3. \A i, j \in 0..(n - 1) :
        /\ Around(S, el, i) = Around(S, el, j) => i = j
        /\ Around(S, y, i) = Around(S, y, j) => i = j
  BY <1>1, <1>2, AroundCycle
<1>4. CycleOf(d, el) \cap CycleOf(d, y) = {}
  BY <1>1, CyclesApart
<1>5. \A x \in Val : e[x] = IF x = y THEN h[el] ELSE IF x = el THEN h[y] ELSE h[x]
  BY <1>1 DEF Exchanged, Within, Permutes
<1> HIDE DEF n, e
<1>6. \A j \in 0..0 : e[Around(S, y, j)] = h[Around(S, el, j)]
  BY <1>1, <1>2, <1>5
<1>7. \A j \in (0 + 1)..(n - 1) :
        /\ j \in 0..(n - 1)
        /\ Around(S, y, j) # y /\ Around(S, y, j) # el
        /\ Around(S, el, j) # y /\ Around(S, el, j) # el
  <2>1. 0 \in 0..(n - 1) /\ el \in CycleOf(d, el) /\ y \in CycleOf(d, y)
    BY <1>2
  <2>2. \A j \in (0 + 1)..(n - 1) : j \in 0..(n - 1) /\ j # 0
    BY <1>2
  <2> QED BY <1>2, <1>3, <1>4, <2>1, <2>2
<1>8. \A j \in (0 + 1)..(n - 1) : /\ e[Around(S, y, j)] = h[Around(S, y, j)]
                                  /\ e[Around(S, el, j)] = h[Around(S, el, j)]
  BY <1>2, <1>5, <1>7
<1>9. \A x \in Val \ (CycleOf(d, el) \cup CycleOf(d, y)) : e[x] = h[x]
  <2>1. el \in CycleOf(d, el) /\ y \in CycleOf(d, y)
    BY <1>1, CycleFacts
  <2> QED BY <1>5, <2>1
<1> QED BY <1>6, <1>8, <1>9 DEF Swapped, n, e

LEMMA ChainSwaps ==
  ASSUME NEW d, NEW S, NEW h, NEW F, NEW el, NEW y, MayDecide(d, S, h, F, el, y),
         NEW H, Chain(S, h, el, y, BlockLength(S, el) - 1, H), y \notin CycleOf(d, el)
  PROVE  \A k \in 0..(BlockLength(S, el) - 1) : Swapped(d, S, h, el, y, k, H[k])
<1> DEFINE n == BlockLength(S, el)
           Bad == {k \in 0..(n - 1) : ~ Swapped(d, S, h, el, y, k, H[k])}
<1> SUFFICES ASSUME Bad # {}
             PROVE  FALSE
  OBVIOUS
<1>1. PICK k \in Bad : \A j \in Bad : k <= j
  <2>1. Bad \in SUBSET Nat
    OBVIOUS
  <2> HIDE DEF Bad
  <2> QED BY <2>1, LeastNat
<1>2. k \in 0..(n - 1) /\ ~ Swapped(d, S, h, el, y, k, H[k])
  OBVIOUS
<1>3. k # 0
  <2>1. H[0] = Exchanged(h, el, y)
    BY DEF Chain
  <2> QED BY <1>2, <2>1, FirstSwap
<1>4. k \in 1..(n - 1) /\ k - 1 \in 0..(n - 1)
  <2>1. n \in Nat
    BY AroundCycle DEF MayDecide
  <2> HIDE DEF n
  <2> QED BY <1>2, <1>3, <2>1
<1>5. Swapped(d, S, h, el, y, k - 1, H[k - 1]) /\ Led(d, S, h, F, el, y, k - 1, H[k - 1])
  BY <1>1, <1>4, ChainLeads
<1>6. H[k] = Exchanged(H[k - 1], Around(S, el, k), Back(H[k - 1], h[Around(S, y, k)]))
  BY <1>4 DEF Chain
<1> QED BY <1>2, <1>4, <1>5, <1>6, NextSwap

(* After the calls the permutation respects the diagonal again.            *)
LEMMA ChainCommutes ==
  ASSUME NEW d, NEW S, NEW h, NEW F, NEW el, NEW y, MayDecide(d, S, h, F, el, y),
         NEW H, Chain(S, h, el, y, BlockLength(S, el) - 1, H)
  PROVE  Commutes(d, H[BlockLength(S, el) - 1])
<1>1. PICK n : n = BlockLength(S, el)
  OBVIOUS
<1>2. PICK g : g = H[n - 1]
  OBVIOUS
<1>3. /\ d \in [Val -> Val] /\ S \in SUBSET Val /\ Follows(d, S) /\ Commutes(d, h)
      /\ Within(d, h) /\ el \in Val /\ y \in Val /\ BlockLength(S, y) = n
  BY <1>1, DecideFacts DEF MayDecide, Sound
<1>4. n \in Nat \ {0} /\ n - 1 \in 0..(n - 1)
  BY <1>1, <1>3, AroundCycle
<1>5. PICK A, Y : /\ A = [j \in 0..(n - 1) |-> Around(S, el, j)]
                  /\ Y = [j \in 0..(n - 1) |-> Around(S, y, j)]
  OBVIOUS
<1>6. \A j \in 0..(n - 1) : /\ A[j] = Around(S, el, j) /\ Y[j] = Around(S, y, j)
                            /\ A[j] \in Val /\ Y[j] \in Val
                            /\ Onward(n, j) \in 0..(n - 1)
                            /\ d[A[j]] = A[Onward(n, j)] /\ d[Y[j]] = Y[Onward(n, j)]
  <2> SUFFICES ASSUME NEW j \in 0..(n - 1)
               PROVE  /\ A[j] = Around(S, el, j) /\ Y[j] = Around(S, y, j)
                      /\ A[j] \in Val /\ Y[j] \in Val
                      /\ Onward(n, j) \in 0..(n - 1)
                      /\ d[A[j]] = A[Onward(n, j)] /\ d[Y[j]] = Y[Onward(n, j)]
    OBVIOUS
  <2>1. /\ d[Around(S, el, j)] = Around(S, el, Onward(n, j))
        /\ Onward(n, j) \in 0..(n - 1) /\ Around(S, el, j) \in Val
    BY <1>1, <1>3, NextAround, AroundCycle
  <2>2. d[Around(S, y, j)] = Around(S, y, Onward(n, j)) /\ Around(S, y, j) \in Val
    <3>1. j \in 0..(BlockLength(S, y) - 1)
      BY <1>3
    <3>2. Around(S, y, j) \in Val
      BY <1>3, <3>1, AroundCycle
    <3>3. d[Around(S, y, j)] = Around(S, y, Onward(BlockLength(S, y), j))
      BY <1>3, <3>1, NextAround
    <3> QED BY <1>3, <3>2, <3>3
  <2> QED BY <1>5, <2>1, <2>2
<1>7. /\ \A j \in 0..(n - 1) : g[A[j]] = h[Y[j]]
      /\ g \in [Val -> Val] /\ h \in [Val -> Val]
  <2>1. Led(d, S, h, F, el, y, n - 1, g)
    BY <1>1, <1>2, <1>4, ChainLeads
  <2>2. \A j \in 0..(n - 1) : g[Around(S, el, j)] = h[Around(S, y, j)]
    BY <2>1 DEF Led
  <2>3. g \in [Val -> Val] /\ h \in [Val -> Val]
    BY <1>3, <2>1 DEF Led, Within, Permutes
  <2> QED BY <1>6, <2>2, <2>3
<1>8. \A x \in CycleOf(d, el) : \E j \in 0..(n - 1) : x = A[j]
  BY <1>1, <1>3, <1>6, AroundCycle
<1>9. \A x \in CycleOf(d, y) : \E j \in 0..(n - 1) : x = Y[j]
  <2>1. \A x \in CycleOf(d, y) : \E j \in 0..(BlockLength(S, y) - 1) : x = Around(S, y, j)
    BY <1>3, AroundCycle
  <2> QED BY <1>3, <1>6, <2>1
<1>10. \A x \in Val : h[d[x]] = d[h[x]]
  BY <1>3 DEF Commutes
<1>11. \A x \in CycleOf(d, el) : g[d[x]] = d[g[x]]
  <2> SUFFICES ASSUME NEW j \in 0..(n - 1)
               PROVE  g[d[A[j]]] = d[g[A[j]]]
    BY <1>8
  <2>1. g[d[A[j]]] = h[Y[Onward(n, j)]] /\ h[Y[Onward(n, j)]] = h[d[Y[j]]]
    BY <1>6, <1>7
  <2> QED BY <1>6, <1>7, <1>10, <2>1
<1>12. ASSUME y \in CycleOf(d, el), NEW x \in Val \ CycleOf(d, el)
       PROVE  g[d[x]] = d[g[x]]
  <2>1. \A v \in Val \ CycleOf(d, el) : g[v] = h[v]
    BY <1>1, <1>2, <1>4, <1>12, ChainTurns
  <2>2. d[x] \in Val \ CycleOf(d, el)
    BY <1>3, <1>12, CyclesApart
  <2> QED BY <1>10, <1>12, <2>1, <2>2
<1>13. ASSUME y \notin CycleOf(d, el), NEW x \in Val \ CycleOf(d, el)
       PROVE  g[d[x]] = d[g[x]]
  <2>1. Swapped(d, S, h, el, y, n - 1, g)
    BY <1>1, <1>2, <1>4, <1>13, ChainSwaps
  <2>2. /\ \A j \in 0..(n - 1) : g[Y[j]] = h[A[j]]
        /\ \A v \in Val \ (CycleOf(d, el) \cup CycleOf(d, y)) : g[v] = h[v]
    BY <1>6, <2>1 DEF Swapped
  <2>3. CASE x \in CycleOf(d, y)
    <3>1. PICK j \in 0..(n - 1) : x = Y[j]
      BY <1>9, <2>3
    <3>2. g[d[x]] = h[A[Onward(n, j)]] /\ h[A[Onward(n, j)]] = h[d[A[j]]]
      BY <1>6, <2>2, <3>1
    <3> QED BY <1>6, <1>10, <2>2, <3>1, <3>2
  <2>4. CASE x \notin CycleOf(d, y)
    <3>1. d[x] \in Val \ (CycleOf(d, el) \cup CycleOf(d, y))
      BY <1>3, <1>13, <2>4, CyclesApart
    <3> QED BY <1>10, <1>13, <2>2, <2>4, <3>1
  <2> QED BY <2>3, <2>4
<1>14. \A x \in Val : g[d[x]] = d[g[x]]
  BY <1>11, <1>12, <1>13
<1> QED BY <1>1, <1>2, <1>14 DEF Commutes

(* The call on either representation: it succeeds, the two still represent *)
(* the same permutation, which is sound again, what was decided stays as   *)
(* it was, and el has the image asked for.                                 *)
Decided(d, S, h, F, el, y, b, isId, g) ==
  /\ Sound(d, g, F \cup CycleOf(d, el))
  /\ (\A x \in F : g[x] = h[x]) /\ g[el] = h[y]
  /\ \A kind \in Kinds :
       fixAndPropagate(As(kind, d, h, F), el, h[y], S, b, isId)
         = [perm |-> As(kind, d, g, F \cup CycleOf(d, el)), ok |-> TRUE]

LEMMA CallDecides ==
  ASSUME NEW d, NEW S, NEW h, NEW F, NEW el, NEW y, MayDecide(d, S, h, F, el, y),
         NEW b, NEW isId \in BOOLEAN, isId => d = Identity
  PROVE  \E g : Decided(d, S, h, F, el, y, b, isId, g)
<1>1. PICK n : n = BlockLength(S, el)
  OBVIOUS
<1>2. /\ d \in [Val -> Val] /\ S \in SUBSET Val /\ Follows(d, S) /\ Commutes(d, h)
      /\ F \in SUBSET Val /\ Permutes(h) /\ el \in Val /\ y \in Val /\ BlockLength(S, y) = n
  BY <1>1, DecideFacts DEF MayDecide, Sound, Within
<1>3. n \in Nat \ {0} /\ n - 1 \in 0..(n - 1) /\ n - 1 \in Nat
  BY <1>1, <1>2, AroundCycle
<1>4. PICK H : Chain(S, h, el, y, n - 1, H)
  <2>1. \A k \in 0..(n - 1) : Around(S, el, k) \in Val
    BY <1>1, <1>2, AroundCycle
  <2>2. \A k \in 0..(BlockLength(S, y) - 1) : Around(S, y, k) \in Val
    BY <1>2, AroundCycle
  <2>3. \A k \in 0..(n - 1) : Around(S, el, k) \in Val /\ Around(S, y, k) \in Val
    BY <1>2, <2>1, <2>2
  <2> QED BY <1>2, <1>3, <2>3, ChainExists
<1>5. PICK g : g = H[n - 1]
  OBVIOUS
<1>6. Chain(S, h, el, y, BlockLength(S, el) - 1, H)
  BY <1>1, <1>4
<1>7. Growing(d, S, F, el)
  BY PrefixGrows
<1>8. Sound(d, g, F \cup CycleOf(d, el))
  <2>1. Commutes(d, g)
    BY <1>1, <1>5, <1>6, ChainCommutes
  <2>2. Within(d, g)
    BY <1>1, <1>3, <1>5, <1>6, ChainLeads DEF Led
  <2>3. /\ Prefix(S, F, el, n - 1) = F \cup CycleOf(d, el)
        /\ Whole(d, F \cup CycleOf(d, el))
    BY <1>1, <1>7 DEF Growing
  <2>4. Prefix(S, F, el, n - 1) \in SUBSET Val /\ Filled(d, Prefix(S, F, el, n - 1))
    BY <1>1, <1>3, <1>7 DEF Growing
  <2> QED BY <2>1, <2>2, <2>3, <2>4 DEF Sound
<1>9. (\A x \in F : g[x] = h[x]) /\ g[el] = h[y]
  <2>1. Led(d, S, h, F, el, y, n - 1, g) /\ 0 \in 0..(n - 1)
    BY <1>1, <1>3, <1>5, <1>6, ChainLeads
  <2>2. Around(S, el, 0) = el /\ Around(S, y, 0) = y
    BY <1>2, AroundCycle
  <2> QED BY <2>1, <2>2 DEF Led
<1>10. CASE isId
  <2>1. d[el] = el
    BY <1>2, <1>10 DEF Identity
  <2>2. n = 1
    <3>1. CASE n # 1
      <4>1. 0 \in 0..(n - 2) /\ 0 \in 0..(n - 1) /\ 1 \in 0..(n - 1)
        BY <1>3, <3>1
      <4>2. Around(S, el, 0) = el + 0 /\ Around(S, el, 1) = el + 1
        BY <1>1, <4>1, DecideFacts
      <4>3. d[Around(S, el, 0)] = Around(S, el, 0 + 1)
        BY <1>1, <1>2, <4>1, DiagonalLeads
      <4>4. el \in Nat
        BY <1>2, ValFinite
      <4> QED BY <2>1, <4>2, <4>3, <4>4
    <3> QED BY <3>1
  <2>3. CycleOf(d, el) = {el}
    <3>1. el \in CycleOf(d, el) /\ Around(S, el, 0) = el
      BY <1>2, CycleFacts, AroundCycle
    <3>2. \A z \in CycleOf(d, el) : \E k \in 0..(n - 1) : z = Around(S, el, k)
      BY <1>1, <1>2, AroundCycle
    <3>3. \A k \in 0..(n - 1) : k = 0
      BY <2>2
    <3> QED BY <3>1, <3>2, <3>3
  <2>4. ASSUME NEW kind \in Kinds
        PROVE  fixAndPropagate(As(kind, d, h, F), el, h[y], S, b, isId)
                 = [perm |-> As(kind, d, g, F \cup CycleOf(d, el)), ok |-> TRUE]
    <3>1. fix(As(kind, d, h, F), el, h[y])
            = [perm |-> As(kind, d, H[0], F \cup {el}), ok |-> TRUE]
      <4>1. CallsSucceed(d, S, h, F, el, y, H, kind, b)
        BY <1>6, CallsReturn
      <4> QED BY <4>1 DEF CallsSucceed
    <3>2. H[0] = g
      BY <1>5, <2>2
    <3>3. PropagateFixed(fix(As(kind, d, h, F), el, h[y]), el, S, b, isId)
            = fix(As(kind, d, h, F), el, h[y])
      BY <1>10 DEF PropagateFixed
    <3> QED BY <2>3, <3>1, <3>2, <3>3 DEF fixAndPropagate
  <2> QED BY <1>8, <1>9, <2>4 DEF Decided
<1>11. CASE ~isId
  <2>1. ASSUME NEW kind \in Kinds
        PROVE  fixAndPropagate(As(kind, d, h, F), el, h[y], S, b, isId)
                 = [perm |-> As(kind, d, g, F \cup CycleOf(d, el)), ok |-> TRUE]
    <3>1. fixAndPropagate(As(kind, d, h, F), el, h[y], S, b, FALSE)
            = [perm |-> As(kind, d, H[BlockLength(S, el) - 1], F \cup CycleOf(d, el)),
               ok |-> TRUE]
      <4>1. CallsSucceed(d, S, h, F, el, y, H, kind, b)
        BY <1>6, CallsReturn
      <4> QED BY <4>1 DEF CallsSucceed
    <3>2. isId = FALSE
      BY <1>11
    <3>3. H[BlockLength(S, el) - 1] = g
      BY <1>1, <1>5
    <3> QED BY <3>1, <3>2, <3>3
  <2> QED BY <1>8, <1>9, <2>1 DEF Decided
<1> QED BY <1>10, <1>11
=============================================================================
