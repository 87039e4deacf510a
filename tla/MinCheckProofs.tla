---------------------------- MODULE MinCheckProofs ----------------------------
(***************************************************************************)
(* The minimality check.  Any table: the permutation that all checks share *)
(* is kept (KeptInv).  Full tables: the clause thrown is sound and usable, *)
(* and a table without a clause is the representative of its class         *)
(* (FullInv): a renaming that makes the table smaller is always still      *)
(* pending in some activation of checkMinimality (Explored).               *)
(***************************************************************************)
EXTENDS MinCheck, PartialPermProofs

(* A renaming that keeps the diagonal d, and one that is still possible    *)
(* after the points in F got their images under h.                         *)
Respects(d, q) == Permutes(q) /\ Commutes(d, q)
Completes(d, q, h, F) == Respects(d, q) /\ \A x \in F : q[x] = h[x]

LEMMA PowerCommutes ==
  ASSUME NEW d \in [Val -> Val], NEW q, Respects(d, q), NEW x \in Val
  PROVE  \A k \in 0..N : q[Power(d, x)[k]] = Power(d, q[x])[k]
<1>1. q \in [Val -> Val] /\ \A y \in Val : q[d[y]] = d[q[y]]
  BY DEF Respects, Permutes, Commutes
<1>2. PICK A, B : A = Power(d, x) /\ B = Power(d, q[x])
  OBVIOUS
<1>3. /\ A \in [0..N -> Val] /\ A[0] = x /\ \A k \in 1..N : A[k] = d[A[k - 1]]
      /\ B \in [0..N -> Val] /\ B[0] = q[x] /\ \A k \in 1..N : B[k] = d[B[k - 1]]
  <2>1. A \in [0..N -> Val] /\ A[0] = x /\ \A k \in 1..N : A[k] = d[A[k - 1]]
    BY <1>2, PowerIterates
  <2>2. q[x] \in Val
    BY <1>1
  <2>3. B \in [0..N -> Val] /\ B[0] = q[x] /\ \A k \in 1..N : B[k] = d[B[k - 1]]
    <3>1. PICK w \in Val : w = q[x]
      BY <2>2
    <3>2. B = Power(d, w)
      BY <1>2, <3>1
    <3>3. Power(d, w) \in [0..N -> Val] /\ Power(d, w)[0] = w /\ \A k \in 1..N : Power(d, w)[k] = d[Power(d, w)[k - 1]]
      BY PowerIterates
    <3> QED BY <3>1, <3>2, <3>3
  <2> QED BY <2>1, <2>3
<1> DEFINE T == {<<v, v>> : v \in Val}
           f == [k \in 0..N |-> <<q[A[k]], B[k]>>]
<1>4. \A k \in 0..N : A[k] \in Val /\ B[k] \in Val /\ (f[k] \in T <=> q[A[k]] = B[k])
  <2> TAKE k \in 0..N
  <2>1. A[k] \in Val /\ B[k] \in Val
    BY <1>3
  <2>2. q[A[k]] \in Val
    BY <1>1, <2>1
  <2> QED BY <2>1, <2>2
<1>5. f[0] \in T
  BY <1>3, <1>4, NAssumption
<1>6. ASSUME NEW k \in 1..N, f[k - 1] \in T
      PROVE  f[k] \in T
  <2>1. k - 1 \in 0..N /\ k \in 0..N
    BY NAssumption
  <2> HIDE DEF f, T
  <2>2. q[A[k - 1]] = B[k - 1]
    BY <1>4, <1>6, <2>1
  <2>3. q[A[k]] = B[k]
    BY <1>1, <1>3, <1>4, <2>1, <2>2
  <2> QED BY <1>4, <2>1, <2>3
<1>7. \A k \in 0..N : f[k] \in T
  <2> HIDE DEF f, T
  <2> QED BY <1>5, <1>6, HandedOn, NAssumption
<1> HIDE DEF f, T
<1> QED BY <1>2, <1>4, <1>7

(* It maps a cycle to one of the same length.                              *)
LEMMA RespectsClasses ==
  ASSUME NEW d \in [Val -> Val], NEW q, Respects(d, q), NEW x \in Val
  PROVE  q[x] \in ClassOf(d, x)
<1>1. q \in [Val -> Val] /\ \A y, z \in Val : q[y] = q[z] => y = z
  BY DEF Respects, Permutes
<1>2. PICK A, B : A = CycleOf(d, x) /\ B = CycleOf(d, q[x])
  OBVIOUS
<1>3. A \in SUBSET Val /\ B = {q[z] : z \in A}
  <2>1. \A k \in 0..N : Power(d, x)[k] \in Val
    BY PowerIterates
  <2>2. A \in SUBSET Val
    BY <1>2, <2>1 DEF CycleOf
  <2>3. B = {q[z] : z \in A}
    BY <1>2, PowerCommutes DEF CycleOf
  <2> QED BY <2>2, <2>3
<1> DEFINE f == [z \in A |-> q[z]]
<1>4. f \in Surjection(A, B) /\ f \in Injection(A, B)
  BY <1>1, <1>3 DEF Surjection, Injection, IsInjective
<1>5. Cardinality(B) = Cardinality(A)
  <2>1. IsFiniteSet(A)
    BY <1>3, ValFinite, FS_Subset
  <2> HIDE DEF f
  <2> QED BY <1>4, <2>1, FS_Surjection
<1> QED BY <1>1, <1>2, <1>5 DEF ClassOf

(* What options and invOptions offer is what is still possible.            *)
LEMMA CompletesWithin ==
  ASSUME NEW d \in [Val -> Val], NEW h, Within(d, h), NEW F \in SUBSET Val,
         NEW q, Completes(d, q, h, F), NEW x \in Val
  PROVE  \E y \in Room(d, F, x) : q[x] = h[y]
<1>1. /\ q \in [Val -> Val] /\ \A y, z \in Val : q[y] = q[z] => y = z
      /\ h \in [Val -> Val] /\ \A y \in Val : h[y] \in ClassOf(d, y)
      /\ \A y \in Val : \E z \in Val : h[z] = y
      /\ \A y \in F : q[y] = h[y]
  BY DEF Completes, Respects, Permutes, Within
<1>2. CASE x \in F
  BY <1>1, <1>2 DEF Room
<1>3. CASE x \notin F
  <2>1. PICK y \in Val : h[y] = q[x]
    BY <1>1
  <2>2. y \notin F
    BY <1>1, <1>3, <2>1
  <2>3. q[x] \in ClassOf(d, x) /\ h[y] \in ClassOf(d, y)
    BY <1>1, RespectsClasses DEF Completes
  <2>4. y \in ClassOf(d, x)
    BY <2>1, <2>3, Classes
  <2> QED BY <1>3, <2>1, <2>2, <2>4 DEF Room
<1> QED BY <1>2, <1>3

LEMMA CompletesForced ==
  ASSUME NEW d \in [Val -> Val], NEW h, Within(d, h), NEW F \in SUBSET Val,
         NEW q, Completes(d, q, h, F), NEW x \in Val
  PROVE  Room(d, F, x) = {x} => q[x] = h[x]
<1>1. \E y \in Room(d, F, x) : q[x] = h[y]
  BY CompletesWithin
<1> QED BY <1>1

(* Who sends a point to the image of y.                                    *)
LEMMA CompletesBack ==
  ASSUME NEW d \in [Val -> Val], NEW h, Within(d, h), NEW F \in SUBSET Val,
         NEW q, Completes(d, q, h, F), NEW x \in Val, NEW y \in Val, q[x] = h[y]
  PROVE  x \in Room(d, F, y)
<1>1. PICK z \in Room(d, F, x) : q[x] = h[z]
  BY CompletesWithin
<1>2. z \in Val
  BY <1>1, Classes DEF Room
<1>3. z = y
  BY <1>1, <1>2 DEF Within, Permutes
<1>4. CASE x \in F
  BY <1>1, <1>3, <1>4 DEF Room
<1>5. CASE x \notin F
  <2>1. y \in ClassOf(d, x) /\ y \notin F
    BY <1>1, <1>3, <1>5 DEF Room
  <2>2. x \in ClassOf(d, y)
    BY <2>1, Classes
  <2> QED BY <1>5, <2>1, <2>2 DEF Room
<1> QED BY <1>4, <1>5

(* A completion that maps el as decided maps the cycle of el so.           *)
LEMMA CompletesAlong ==
  ASSUME NEW d \in [Val -> Val], NEW h, NEW F, NEW q, Completes(d, q, h, F),
         NEW g, Respects(d, g), \A x \in F : g[x] = h[x],
         NEW el \in Val, q[el] = g[el]
  PROVE  Completes(d, q, g, F \cup CycleOf(d, el))
<1>1. ASSUME NEW z \in CycleOf(d, el)
      PROVE  q[z] = g[z]
  <2>1. PICK k \in 0..N : z = Power(d, el)[k]
    BY <1>1 DEF CycleOf
  <2>2. q[z] = Power(d, q[el])[k] /\ g[z] = Power(d, g[el])[k]
    BY <2>1, PowerCommutes DEF Completes
  <2> QED BY <2>2
<1> QED BY <1>1 DEF Completes

(* A permutation whose points are all decided has no other completion.     *)
LEMMA CompletesItself ==
  ASSUME NEW d, NEW h, NEW F, Sound(d, h, F)
  PROVE  Completes(d, h, h, F) /\ Respects(d, h)
BY DEF Sound, Within, Completes, Respects
-----------------------------------------------------------------------------
(* Sequences whose members have no type.                                   *)
IsSeq(s) == Len(s) \in Nat /\ s = [k \in 1..Len(s) |-> s[k]]

LEMMA SeqOfMembers ==
  ASSUME NEW s, IsSeq(s), NEW T, \A k \in 1..Len(s) : s[k] \in T
  PROVE  s \in Seq(T)
<1>1. PICK n \in Nat : n = Len(s)
  BY DEF IsSeq
<1>2. s \in [1..n -> T]
  BY <1>1 DEF IsSeq
<1> QED BY <1>1, <1>2

LEMMA MembersOfSeq ==
  ASSUME NEW T, NEW s \in Seq(T)
  PROVE  IsSeq(s)
BY DEF IsSeq

LEMMA EmptyIsSeq == IsSeq(<<>>) /\ Len(<<>>) = 0
BY DEF IsSeq

LEMMA OneIsSeq ==
  ASSUME NEW e
  PROVE  IsSeq(<<e>>) /\ Len(<<e>>) = 1 /\ <<e>>[1] = e
BY DEF IsSeq

LEMMA AppendIsSeq ==
  ASSUME NEW s, IsSeq(s), NEW e
  PROVE  /\ IsSeq(Append(s, e)) /\ Len(Append(s, e)) = Len(s) + 1
         /\ \A k \in 1..Len(s) : Append(s, e)[k] = s[k]
         /\ Append(s, e)[Len(s) + 1] = e
<1>1. PICK T : T = {s[k] : k \in 1..Len(s)} \cup {e}
  OBVIOUS
<1>2. s \in Seq(T) /\ e \in T
  BY <1>1, SeqOfMembers
<1>3. PICK t : t = Append(s, e)
  OBVIOUS
<1>4. t \in Seq(T)
  BY <1>2, <1>3, AppendProperties
<1>5. IsSeq(t)
  BY <1>4, MembersOfSeq
<1>6. /\ Len(Append(s, e)) = Len(s) + 1
      /\ \A k \in 1..Len(s) : Append(s, e)[k] = s[k]
      /\ Append(s, e)[Len(s) + 1] = e
  BY <1>2, AppendProperties
<1> QED BY <1>3, <1>5, <1>6

LEMMA TailIsSeq ==
  ASSUME NEW s, IsSeq(s), s # <<>>
  PROVE  /\ Len(s) \in Nat \ {0}
         /\ IsSeq(Tail(s)) /\ Len(Tail(s)) = Len(s) - 1
         /\ \A k \in 1..(Len(s) - 1) : Tail(s)[k] = s[k + 1]
         /\ Head(s) = s[1]
<1>1. PICK T : T = {s[k] : k \in 1..Len(s)}
  OBVIOUS
<1>2. s \in Seq(T) /\ Len(s) \in Nat /\ Len(s) # 0
  BY <1>1, SeqOfMembers DEF IsSeq
<1>3. PICK t : t = Tail(s)
  OBVIOUS
<1>4. t \in Seq(T)
  BY <1>2, <1>3, HeadTailProperties
<1>5. IsSeq(t)
  BY <1>4, MembersOfSeq
<1>6. Len(t) = Len(s) - 1 /\ \A k \in 1..Len(t) : t[k] = s[k + 1]
  BY <1>2, <1>3, HeadTailProperties
<1>7. Head(s) = s[1]
  BY <1>2
<1> QED BY <1>2, <1>3, <1>5, <1>6, <1>7

LEMMA FrontIsSeq ==
  ASSUME NEW s, IsSeq(s), Len(s) # 0
  PROVE  /\ IsSeq(Front(s)) /\ Len(Front(s)) = Len(s) - 1
         /\ \A k \in 1..(Len(s) - 1) : Front(s)[k] = s[k]
<1>1. PICK T : T = {s[k] : k \in 1..Len(s)}
  OBVIOUS
<1>2. s \in Seq(T) /\ Len(s) \in Nat
  BY <1>1, SeqOfMembers DEF IsSeq
<1>3. Front(s) = SubSeq(s, 1, Len(s) - 1)
  BY DEF Front
<1>4. PICK m \in Nat : m = Len(s) - 1
  BY <1>2
<1>5. PICK t : t = SubSeq(s, 1, m)
  OBVIOUS
<1>6. \A i \in 1..m : s[i] \in T
  BY <1>2, <1>4
<1>7. /\ t \in Seq(T) /\ Len(t) = IF 1 <= m THEN m - 1 + 1 ELSE 0
      /\ \A i \in 1..(m - 1 + 1) : t[i] = s[1 + i - 1]
  BY <1>5, <1>6, SubSeqProperties
<1>8. Len(t) = m /\ \A i \in 1..m : t[i] = s[i]
  <2>1. m \in Nat /\ m - 1 + 1 = m
    BY <1>4
  <2>2. Len(t) = m
    BY <1>7, <2>1
  <2>3. ASSUME NEW i \in 1..m
        PROVE  t[i] = s[i]
    <3>1. i \in 1..(m - 1 + 1) /\ 1 + i - 1 = i
      BY <2>1
    <3>2. t[i] = s[1 + i - 1]
      BY <1>7, <3>1
    <3> QED BY <3>1, <3>2
  <2> QED BY <2>2, <2>3
<1>9. IsSeq(t)
  BY <1>7, MembersOfSeq
<1>10. Front(s) = t
  BY <1>3, <1>4, <1>5
<1>11. \A k \in 1..(Len(s) - 1) : t[k] = s[k]
  BY <1>4, <1>8
<1> QED BY <1>4, <1>8, <1>9, <1>10, <1>11

LEMMA SetIsSeq ==
  ASSUME NEW s, IsSeq(s), Len(s) # 0, NEW f
  PROVE  /\ IsSeq([s EXCEPT ![Len(s)] = f])
         /\ Len([s EXCEPT ![Len(s)] = f]) = Len(s)
         /\ \A k \in 1..(Len(s) - 1) : [s EXCEPT ![Len(s)] = f][k] = s[k]
         /\ [s EXCEPT ![Len(s)] = f][Len(s)] = f
<1>1. PICK T : T = {s[k] : k \in 1..Len(s)} \cup {f}
  OBVIOUS
<1>2. s \in Seq(T) /\ Len(s) \in Nat /\ f \in T
  BY <1>1, SeqOfMembers DEF IsSeq
<1>3. PICK n \in Nat : n = Len(s)
  BY <1>2
<1>4. s \in [1..n -> T] /\ n \in 1..n
  BY <1>2, <1>3
<1>5. PICK t : t = [s EXCEPT ![n] = f]
  OBVIOUS
<1>6. t \in [1..n -> T] /\ t[n] = f /\ \A k \in 1..(n - 1) : t[k] = s[k]
  BY <1>2, <1>4, <1>5
<1>7. Len(t) = n /\ t \in Seq(T)
  BY <1>6
<1>8. IsSeq(t)
  BY <1>7, MembersOfSeq
<1> QED BY <1>3, <1>5, <1>6, <1>7, <1>8
-----------------------------------------------------------------------------
(* The diagonal and the representation of a search.                        *)
Diag == IF diagPart THEN set.diag ELSE Identity
Kind == IF diagPart /\ set.useBit THEN "bit" ELSE "plain"

LEMMA IdentityConsecutive ==
  /\ Identity \in [Val -> Val] /\ Consecutive(Identity)
  /\ \A x \in Val : ClassOf(Identity, x) = Val
<1>1. Identity \in [Val -> Val]
  BY DEF Identity
<1>2. Follows(Identity, Val)
  <2>1. 0 \in Val
    BY NAssumption DEF Val
  <2>2. ASSUME NEW x \in Val
        PROVE  x = BlockStart(Val, x)
    <3>1. /\ BlockStart(Val, x) \in 0..x
          /\ \A i \in Val : i <= BlockStart(Val, x) \/ i >= BlockEnd(Val, x)
      BY <2>1, BlockBounds
    <3>2. BlockEnd(Val, x) \in (x + 1)..N
      BY <2>1, BlockBounds
    <3> QED BY <3>1, <3>2, ValFinite, NAssumption
  <2>3. Val \ Val = {}
    OBVIOUS
  <2> QED BY <2>1, <2>2, <2>3 DEF Follows, Identity
<1>3. ASSUME NEW x \in Val, NEW y \in Val
      PROVE  y \in ClassOf(Identity, x)
  <2>1. ASSUME NEW z \in Val
        PROVE  Cardinality(CycleOf(Identity, z)) = 1
    <3>1. PICK A : A = Power(Identity, z)
      OBVIOUS
    <3>2. A \in [0..N -> Val] /\ A[0] = z /\ \A k \in 1..N : A[k] = Identity[A[k - 1]]
      BY <1>1, <3>1, PowerIterates
    <3>3. \A k \in 1..N : A[k] = A[k - 1]
      <4> TAKE k \in 1..N
      <4>1. k - 1 \in 0..N
        BY NAssumption
      <4>2. A[k - 1] \in Val
        BY <3>2, <4>1
      <4> QED BY <3>2, <4>2 DEF Identity
    <3>4. \A k \in 0..N : A[k] \in {z}
      <4>1. PICK T : T = {z}
        OBVIOUS
      <4>2. A[0] \in T /\ N \in Nat
        BY <3>2, <4>1, NAssumption
      <4>3. \A k \in 1..N : A[k - 1] \in T => A[k] \in T
        BY <3>3, <4>1
      <4>4. \A k \in 0..N : A[k] \in T
        BY <4>2, <4>3, HandedOn
      <4> QED BY <4>1, <4>4
    <3>5. 0 \in 0..N
      BY NAssumption
    <3>6. CycleOf(Identity, z) = {z}
      BY <3>1, <3>4, <3>5 DEF CycleOf
    <3> QED BY <3>6, FS_Singleton
  <2> QED BY <2>1 DEF ClassOf
<1>4. \A x \in Val : ClassOf(Identity, x) = Val
  BY <1>3 DEF ClassOf
<1>5. Adjacent(Identity)
  BY <1>4 DEF Adjacent
<1> QED BY <1>1, <1>2, <1>4, <1>5 DEF Consecutive

Built(d, S) ==
  /\ d \in [Val -> Val] /\ Adjacent(d)
  /\ S \in SUBSET Val /\ Follows(d, S) /\ S = CycleStarts(d)

LEMMA DiagBuilt ==
  ASSUME DiagonalsBuilt, set \in Settings
  PROVE  /\ Built(Diag, CycleStarts(Diag)) /\ Kind \in Kinds
         /\ InitialPart(set) = As(Kind, Diag, Identity, {})
         /\ diagPart => CycStarts = CycleStarts(Diag) /\ set.diag = Diag
         /\ Sound(Diag, Identity, {})
<1>1. /\ diagPart => set.diag \in [Val -> Val] /\ Consecutive(set.diag)
      /\ set.useBit \in BOOLEAN
  BY SettingsAssumption DEF Setting, DiagonalsBuilt, Diagonals, diagPart
<1>2. Diag \in [Val -> Val] /\ Consecutive(Diag)
  BY <1>1, IdentityConsecutive DEF Diag
<1>3. PICK d : d = Diag
  OBVIOUS
<1>4. d \in [Val -> Val] /\ Adjacent(d)
  BY <1>2, <1>3 DEF Consecutive
<1>5. PICK S \in SUBSET Val : Follows(d, S)
  BY <1>2, <1>3 DEF Consecutive
<1>6. CycleStarts(d) = S
  BY <1>4, <1>5, StartsAreStarts
<1>7. Kind \in Kinds
  BY DEF Kind, Kinds
<1>8. InitialPart(set) = As(Kind, Diag, Identity, {})
  <2>1. /\ pperm_plain(d) = As("plain", d, Identity, {})
        /\ pperm_bit(d) = As("bit", d, Identity, {})
    BY <1>4, Constructed
  <2>2. CASE diagPart
    BY <1>1, <1>3, <2>1, <2>2 DEF diagPart, InitialPart, Diag, Kind
  <2>3. CASE ~diagPart
    BY <1>3, <2>1, <2>3 DEF diagPart, InitialPart, Diag, Kind
  <2> QED BY <2>2, <2>3
<1>9. diagPart => CycStarts = CycleStarts(Diag) /\ set.diag = Diag
  <2> SUFFICES ASSUME diagPart
               PROVE  CycStarts = CycleStarts(Diag) /\ set.diag = Diag
    OBVIOUS
  <2>1. set.diag \in {s.diag : s \in Settings} \ {NoDiagonal}
    BY DEF diagPart
  <2>2. Starts[set.diag] = CycleStarts(set.diag)
    BY <2>1 DEF Starts
  <2> QED BY <2>2 DEF CycStarts, Diag
<1>10. Sound(d, Identity, {})
  <2>1. Within(d, Identity)
    BY Classes DEF Within, Permutes, Identity
  <2>2. Commutes(d, Identity)
    BY <1>4 DEF Commutes, Identity
  <2>3. Filled(d, {}) /\ Whole(d, {})
    BY DEF Filled, Whole
  <2> QED BY <2>1, <2>2, <2>3 DEF Sound
<1> QED BY <1>3, <1>4, <1>5, <1>6, <1>7, <1>8, <1>9, <1>10 DEF Built
-----------------------------------------------------------------------------
(* The activations.                                                        *)
IsFrame(f) ==
  f = [perm |-> f.perm, shared |-> f.shared, r |-> f.r, d |-> f.d,
       entered |-> f.entered, todo |-> f.todo, kept |-> f.kept]

SameFrame(f, g) == g.shared = f.shared /\ g.r = f.r /\ g.d = f.d

LEMMA FrameEntered ==
  ASSUME NEW f, IsFrame(f), NEW b
  PROVE  LET g == [f EXCEPT !.entered = TRUE, !.todo = b]
         IN /\ IsFrame(g) /\ SameFrame(f, g) /\ g.perm = f.perm
            /\ g.entered = TRUE /\ g.todo = b /\ g.kept = f.kept
<1>1. PICK p, s, r, d, e, t, k :
        f = [perm |-> p, shared |-> s, r |-> r, d |-> d, entered |-> e, todo |-> t, kept |-> k]
  BY DEF IsFrame
<1>2. PICK g : g = [f EXCEPT !.entered = TRUE, !.todo = b]
  OBVIOUS
<1>3. g = [perm |-> p, shared |-> s, r |-> r, d |-> d, entered |-> TRUE, todo |-> b, kept |-> k]
  BY <1>1, <1>2
<1> QED BY <1>1, <1>2, <1>3 DEF IsFrame, SameFrame

Refilled(f, g, a, b, c) ==
  /\ IsFrame(g) /\ SameFrame(f, g) /\ g.perm = a
  /\ g.entered = f.entered /\ g.todo = b /\ g.kept = c

LEMMA FrameFiltered ==
  ASSUME NEW f, IsFrame(f), NEW a, NEW b, NEW c
  PROVE  Refilled(f, [f EXCEPT !.perm = a, !.todo = b, !.kept = c], a, b, c)
<1>1. PICK p, s, r, d, e, t, k :
        f = [perm |-> p, shared |-> s, r |-> r, d |-> d, entered |-> e, todo |-> t, kept |-> k]
  BY DEF IsFrame
<1>2. PICK g : g = [f EXCEPT !.perm = a, !.todo = b, !.kept = c]
  OBVIOUS
<1>3. g = [perm |-> a, shared |-> s, r |-> r, d |-> d, entered |-> e, todo |-> b, kept |-> c]
  BY <1>1, <1>2
<1>4. Refilled(f, g, a, b, c)
  BY <1>1, <1>3 DEF IsFrame, SameFrame, Refilled
<1> QED BY <1>2, <1>4

LEMMA FrameExplored ==
  ASSUME NEW f, IsFrame(f), NEW c
  PROVE  LET g == [f EXCEPT !.kept = c]
         IN /\ IsFrame(g) /\ SameFrame(f, g) /\ g.perm = f.perm
            /\ g.entered = f.entered /\ g.todo = f.todo /\ g.kept = c
<1>1. PICK p, s, r, d, e, t, k :
        f = [perm |-> p, shared |-> s, r |-> r, d |-> d, entered |-> e, todo |-> t, kept |-> k]
  BY DEF IsFrame
<1>2. PICK g : g = [f EXCEPT !.kept = c]
  OBVIOUS
<1>3. g = [perm |-> p, shared |-> s, r |-> r, d |-> d, entered |-> e, todo |-> t, kept |-> c]
  BY <1>1, <1>2
<1> QED BY <1>1, <1>2, <1>3 DEF IsFrame, SameFrame

LEMMA FrameNew ==
  ASSUME NEW p, NEW s, NEW r, NEW d
  PROVE  LET g == Frame(p, s, r, d)
         IN /\ IsFrame(g) /\ g.perm = p /\ g.shared = s /\ g.r = r
            /\ g.entered = FALSE /\ g.todo = <<>> /\ g.kept = <<>>
BY DEF IsFrame, Frame
-----------------------------------------------------------------------------
(* The permutation object that all checks share.                           *)
SharedRight(f, i) ==
  /\ IsFrame(f) /\ f.r = i - 1 /\ IsSeq(f.kept)
  /\ f.shared => f.perm = initialPart /\ (i = 1 \/ (i = 2 /\ fixed(initialPart, 0)))
  /\ \A k \in 1..Len(f.kept) : f.kept[k].shared =>
       i = 1 /\ f.kept[k].perm = initialPart /\ fixed(initialPart, 0)

Searching ==
  /\ \E x \in Doms : x[1] = set.diag /\ dom = x[2]
  /\ ~preCheck(dom)
  /\ IsSeq(stack) /\ Len(stack) # 0
  /\ \A i \in 1..Len(stack) : SharedRight(stack[i], i)

KeptInv ==
  /\ set \in Settings /\ initialPart = InitialPart(set)
  /\ result = "running" => Searching

LEMMA OneListed ==
  ASSUME NEW v \in Val
  PROVE  Ascending({v}) = <<v>>
<1>1. {Ascending({v})[k] : k \in DOMAIN Ascending({v})} = {v}
  BY AscendingLists
<1>2. Cardinality({v}) = 1
  BY FS_Singleton
<1>3. DOMAIN Ascending({v}) = 1..1
  BY <1>2 DEF Ascending
<1>4. PICK s : s = Ascending({v})
  OBVIOUS
<1>5. s = [k \in 1..1 |-> s[k]]
  <2> DEFINE e(k) == CHOOSE x \in {v} : Cardinality({y \in {v} : y < x}) = k - 1
  <2>1. s = [k \in 1..Cardinality({v}) |-> e(k)]
    BY <1>4 DEF Ascending
  <2> HIDE DEF e
  <2>2. s = [k \in 1..1 |-> e(k)]
    BY <1>2, <2>1
  <2> QED BY <2>2
<1>6. s[1] = v
  BY <1>1, <1>3, <1>4
<1> QED BY <1>4, <1>5, <1>6

LEMMA SearchedDomains ==
  ASSUME KeptInv, result = "running"
  PROVE  /\ dom \in [Val -> [Val -> SUBSET Val]] /\ N > 1
         /\ DiagonalsKnown /\ diagPart => \A v \in Val : dom[v][v] = {set.diag[v]}
<1>1. PICK x \in Doms : x[1] = set.diag /\ dom = x[2]
  BY DEF KeptInv, Searching
<1>2. dom \in [Val -> [Val -> SUBSET Val]]
  BY <1>1, SettingsAssumption
<1>3. N # 1
  <2> SUFFICES ASSUME N = 1
               PROVE  FALSE
    OBVIOUS
  <2>1. Val = {0}
    BY NAssumption DEF Val
  <2>2. ~preCheck(dom)
    BY DEF KeptInv, Searching
  <2>3. dom[0][0] # {} /\ dom[0][0] # {0}
    BY <2>1, <2>2 DEF preCheck
  <2>4. dom[0][0] \in SUBSET {0}
    BY <1>2, <2>1
  <2> QED BY <2>3, <2>4
<1>4. N > 1
  BY <1>3, NAssumption
<1> QED BY <1>1, <1>2, <1>4 DEF DiagonalsKnown, diagPart

(* Only the first point can be fixed from the start: on a cycle of its     *)
(* own, when no other cycle is that short.                                 *)
LEMMA FixedFromStart ==
  ASSUME DiagonalsBuilt, KeptInv, result = "running", fixed(initialPart, 0)
  PROVE  /\ diagPart /\ set.diag[0] = 0 /\ 0 \in Val /\ 1 \in Val
         /\ permOf(initialPart, 0) = 0 /\ invPermOf(initialPart, 0) = 0
         /\ ~ fixed(initialPart, 1)
<1>1. N > 1 /\ set \in Settings /\ initialPart = InitialPart(set)
  BY SearchedDomains DEF KeptInv
<1>2. 0 \in Val /\ 1 \in Val
  BY <1>1, NAssumption DEF Val
<1>3. PICK d, kind :
        /\ kind \in Kinds /\ d = Diag /\ Built(d, CycleStarts(d))
        /\ initialPart = As(kind, d, Identity, {})
        /\ diagPart => set.diag = d
  BY <1>1, DiagBuilt
<1>4. /\ d \in [Val -> Val] /\ Adjacent(d) /\ CycleStarts(d) \in SUBSET Val
      /\ Follows(d, CycleStarts(d)) /\ {} \in SUBSET Val /\ Filled(d, {})
  BY <1>3 DEF Built, Filled
<1>5. Permutes(Identity) /\ Identity \in [Val -> Val] /\ \A x \in Val : Identity[x] = x
  BY DEF Permutes, Identity
<1>6. PICK h : h = Identity
  OBVIOUS
<1>7. \A x \in Val : Room(d, {}, x) = ClassOf(d, x)
  BY DEF Room
<1>8. ASSUME NEW x \in Val
      PROVE  /\ fixed(initialPart, x) <=> ClassOf(d, x) = {x}
             /\ ClassOf(d, x) = {x} => permOf(initialPart, x) = x
             /\ ClassOf(d, x) = {x} => invPermOf(initialPart, x) = x
  <2>1. Permutes(h) /\ initialPart = As(kind, d, h, {}) /\ h[x] = x
    BY <1>3, <1>5, <1>6
  <2>2. /\ fixed(As(kind, d, h, {}), x) <=> Room(d, {}, x) = {x}
        /\ permOf(As(kind, d, h, {}), x) = IF Room(d, {}, x) = {x} THEN h[x] ELSE None
    BY <1>3, <1>4, <2>1, AsFixed
  <2>3. invPermOf(As(kind, d, h, {}), h[x]) = IF Room(d, {}, x) = {x} THEN x ELSE None
    BY <1>3, <1>4, <2>1, AsPreimages
  <2> QED BY <1>7, <2>1, <2>2, <2>3
<1>9. ClassOf(d, 0) = {0}
  BY <1>2, <1>8
<1>10. diagPart
  <2> SUFFICES ASSUME ~diagPart
               PROVE  FALSE
    OBVIOUS
  <2>1. d = Identity
    BY <1>3 DEF Diag
  <2>2. ClassOf(d, 0) = Val
    BY <1>2, <2>1, IdentityConsecutive
  <2> QED BY <1>2, <1>9, <2>2
<1>11. \A x \in Val : /\ CycleOf(d, x) \subseteq ClassOf(d, x) /\ x \in CycleOf(d, x)
                      /\ d[x] \in CycleOf(d, x)
  BY <1>4, CycleFacts
<1>12. d[0] = 0 /\ CycleOf(d, 0) = {0}
  BY <1>2, <1>9, <1>11
<1>13. ~ fixed(initialPart, 1)
  <2> SUFFICES ASSUME ClassOf(d, 1) = {1}
               PROVE  FALSE
    BY <1>2, <1>8
  <2>1. CycleOf(d, 1) = {1}
    BY <1>2, <1>11
  <2>2. Cardinality(CycleOf(d, 1)) = 1 /\ Cardinality(CycleOf(d, 0)) = 1
    BY <1>12, <2>1, FS_Singleton
  <2>3. 1 \in ClassOf(d, 0)
    BY <1>2, <2>2 DEF ClassOf
  <2> QED BY <1>9, <2>3
<1> QED BY <1>2, <1>3, <1>8, <1>9, <1>10, <1>12, <1>13

(* What filterOption returns for a known entry.                            *)
Cut(p, r) == Filtered(ExtendPerm(p), FALSE, FALSE, Break(p, r))
Kept(p) == Filtered(p, TRUE, FALSE, Returned)
Dropped(p) == Filtered(p, FALSE, FALSE, Returned)

LEMMA KnownCompared ==
  ASSUME NEW p, NEW pv, NEW r, Single(0, r), NEW og \in Nat, og = minog(0, r),
         NEW m \in Nat, NEW cand,
         m = IF invPermOf(p, pv) # None THEN invPermOf(p, pv) ELSE Min(invOptions(p, pv)),
         cand = IF invPermOf(p, pv) # None THEN p ELSE FixAndPropagate(p, m, pv).perm
  PROVE  /\ m < og => FilterKnown(p, pv, r) = Cut(cand, r)
         /\ m = og => FilterKnown(p, pv, r) = Kept(cand)
         /\ m > og => FilterKnown(p, pv, r) = Dropped(p)
<1>1. PICK A, B, C : A = Cut(cand, r) /\ B = Kept(cand) /\ C = Dropped(p)
  OBVIOUS
<1>2. FilterKnown(p, pv, r) = IF m < og THEN A ELSE IF m = og THEN B ELSE C
  BY <1>1 DEF FilterKnown, Compare, Cut, Kept, Dropped
<1>3. /\ m < og => FilterKnown(p, pv, r) = A
      /\ m = og => FilterKnown(p, pv, r) = B
      /\ m > og => FilterKnown(p, pv, r) = C
  BY <1>2
<1> QED BY <1>1, <1>3

(* The entry on the diagonal then has its own value, and the option is     *)
(* kept as it is.                                                          *)
LEMMA SharedFiltered ==
  ASSUME DiagonalsBuilt, DiagonalsKnown, KeptInv, result = "running",
         fixed(initialPart, 0), NEW opt
  PROVE  filterOption(initialPart, opt, 0) = Kept(initialPart)
<1>1. PICK p : p = initialPart
  OBVIOUS
<1>2. /\ diagPart /\ set.diag[0] = 0 /\ 0 \in Val
      /\ permOf(p, 0) = 0 /\ invPermOf(p, 0) = 0 /\ fixed(p, 0)
  BY <1>1, FixedFromStart
<1>3. dom[0][0] = {0}
  BY <1>2, SearchedDomains
<1>4. minog(0, 0) = 0 /\ Single(0, 0)
  <2>1. Min({0}) = 0
    <3>1. {0} \in SUBSET Nat /\ {0} # {}
      OBVIOUS
    <3> QED BY <3>1, MinMember
  <2> QED BY <1>3, <2>1, FS_Singleton DEF minog, Single
<1>5. FilterKnown(p, 0, 0) = Kept(p)
  <2>1. PICK m \in Nat : m = 0
    OBVIOUS
  <2>2. /\ m = IF invPermOf(p, m) # None THEN invPermOf(p, m) ELSE Min(invOptions(p, m))
        /\ p = IF invPermOf(p, m) # None THEN p ELSE FixAndPropagate(p, m, m).perm
    BY <1>2, <2>1 DEF None
  <2>3. Single(0, m) /\ m = minog(0, m)
    BY <1>4, <2>1
  <2>4. FilterKnown(p, m, m) = Kept(p)
    BY <2>1, <2>2, <2>3, KnownCompared
  <2> QED BY <2>1, <2>4
<1>6. Ascending(dom[0][0]) = <<0>>
  BY <1>2, <1>3, OneListed
<1>7. FilterCompared(p, 0, 0, <<0>>, 0) = FilterKnown(p, 0, 0)
  BY DEF FilterCompared
<1>8. PICK f : f = [perm |-> p, ok |-> TRUE]
  OBVIOUS
<1>9. filterOption(p, opt, 0) = FilterFixed(f, permOf(p, 0), permOf(p, 0), 0)
  BY <1>2, <1>8 DEF filterOption
<1>10. FilterFixed(f, 0, 0, 0) = FilterCompared(p, 0, 0, <<0>>, 0)
  BY <1>6, <1>8 DEF FilterFixed, None
<1> QED BY <1>1, <1>2, <1>5, <1>7, <1>9, <1>10
-----------------------------------------------------------------------------
(* The steps, for any table.                                               *)
LEMMA TopRight ==
  ASSUME KeptInv, result = "running"
  PROVE  /\ IsSeq(stack) /\ Len(stack) \in Nat \ {0}
         /\ Top = stack[Len(stack)] /\ SharedRight(Top, Len(stack))
         /\ \A i \in 1..Len(stack) : SharedRight(stack[i], i)
<1>1. IsSeq(stack) /\ Len(stack) # 0 /\ \A i \in 1..Len(stack) : SharedRight(stack[i], i)
  BY DEF KeptInv, Searching
<1>2. Len(stack) \in Nat \ {0}
  BY <1>1 DEF IsSeq
<1>3. Len(stack) \in 1..Len(stack)
  BY <1>2
<1> QED BY <1>1, <1>2, <1>3 DEF Top

LEMMA SearchGoesOn ==
  ASSUME KeptInv, result = "running", UNCHANGED <<set, initialPart, dom>>,
         IsSeq(stack'), Len(stack') # 0,
         \A i \in 1..Len(stack') : SharedRight(stack'[i], i)
  PROVE  KeptInv'
<1>1. \A i \in 1..Len(stack') : SharedRight(stack[i], i)'
  BY DEF SharedRight
<1>2. Searching'
  BY <1>1 DEF KeptInv, Searching, preCheck
<1> QED BY <1>2 DEF KeptInv, InitialPart

LEMMA TopSet ==
  ASSUME IsSeq(stack), Len(stack) # 0, NEW g, NEW s, s = SetTop(g)
  PROVE  /\ IsSeq(s) /\ Len(s) = Len(stack) /\ Len(stack) \in Nat \ {0}
         /\ s[Len(stack)] = g /\ \A i \in 1..(Len(stack) - 1) : s[i] = stack[i]
<1>1. PICK t : t = stack
  OBVIOUS
<1>2. IsSeq(t) /\ Len(t) # 0
  BY <1>1
<1>3. /\ IsSeq([t EXCEPT ![Len(t)] = g]) /\ Len([t EXCEPT ![Len(t)] = g]) = Len(t)
      /\ [t EXCEPT ![Len(t)] = g][Len(t)] = g
      /\ \A i \in 1..(Len(t) - 1) : [t EXCEPT ![Len(t)] = g][i] = t[i]
  BY <1>2, SetIsSeq
<1>4. s = [t EXCEPT ![Len(t)] = g]
  BY <1>1 DEF SetTop
<1>5. Len(stack) \in Nat \ {0}
  BY DEF IsSeq
<1> QED BY <1>1, <1>3, <1>4, <1>5

LEMMA TopReplaced ==
  ASSUME KeptInv, result = "running", UNCHANGED <<set, initialPart, dom>>,
         NEW g, SharedRight(g, Len(stack)), NEW s, s = SetTop(g)
  PROVE  /\ IsSeq(s) /\ Len(s) = Len(stack) /\ Len(s) \in Nat \ {0}
         /\ \A i \in 1..Len(s) : SharedRight(s[i], i)
         /\ s[Len(s)] = g /\ \A i \in 1..(Len(s) - 1) : s[i] = stack[i]
<1>1. /\ IsSeq(stack) /\ Len(stack) \in Nat \ {0}
      /\ \A i \in 1..Len(stack) : SharedRight(stack[i], i)
  BY TopRight
<1>3. /\ IsSeq(s) /\ Len(s) = Len(stack)
      /\ s[Len(stack)] = g /\ \A i \in 1..(Len(stack) - 1) : s[i] = stack[i]
  BY <1>1, TopSet
<1>4. ASSUME NEW i \in 1..Len(stack)
      PROVE  SharedRight(s[i], i)
  <2>1. CASE i = Len(stack)
    BY <1>3, <2>1
  <2>2. CASE i # Len(stack)
    <3>1. i \in 1..(Len(stack) - 1)
      BY <1>1, <2>2
    <3> QED BY <1>1, <1>3, <3>1
  <2> QED BY <2>1, <2>2
<1> QED BY <1>1, <1>3, <1>4

LEMMA CheckKept ==
  ASSUME KeptInv, checkMin
  PROVE  KeptInv'
<1>1. UNCHANGED <<set, initialPart>> /\ \E x \in Doms : x[1] = set.diag /\ dom' = x[2]
  BY DEF checkMin
<1>2. CASE preCheck(dom')
  BY <1>1, <1>2 DEF checkMin, KeptInv, InitialPart
<1>3. CASE ~preCheck(dom')
  <2>1. PICK g : g = Frame(initialPart, TRUE, 0, 0)
    OBVIOUS
  <2>2. stack' = <<g>>
    BY <1>3, <2>1 DEF checkMin
  <2>3. IsSeq(stack') /\ Len(stack') = 1 /\ stack'[1] = g
    BY <2>2, OneIsSeq
  <2>4. SharedRight(g, 1)
    <3>1. IsFrame(g) /\ g.perm = initialPart /\ g.r = 0 /\ g.kept = <<>>
      BY <2>1 DEF Frame, IsFrame
    <3> QED BY <3>1, EmptyIsSeq DEF SharedRight
  <2>5. ASSUME NEW i \in 1..Len(stack')
        PROVE  SharedRight(stack[i], i)'
    <3>1. i = 1
      BY <2>3
    <3>2. SharedRight(g, 1)'
      BY <1>1, <2>4 DEF SharedRight
    <3> QED BY <2>3, <3>1, <3>2
  <2>6. ~preCheck(dom)'
    BY <1>3 DEF preCheck
  <2> QED BY <1>1, <2>3, <2>5, <2>6 DEF KeptInv, Searching, InitialPart
<1> QED BY <1>2, <1>3

LEMMA EnterKept ==
  ASSUME KeptInv, EnterRow
  PROVE  KeptInv'
<1>1. result = "running" /\ UNCHANGED <<set, initialPart, dom>>
  BY DEF EnterRow
<1>2. CASE OutOfSteps(its')
  BY <1>1, <1>2 DEF EnterRow, KeptInv, InitialPart
<1>3. CASE ~OutOfSteps(its')
  <2>1. PICK g : g = [Top EXCEPT !.entered = TRUE, !.todo = options(Top.perm, Top.r)]
    OBVIOUS
  <2>2. stack' = SetTop(g)
    BY <1>3, <2>1 DEF EnterRow
  <2>3. SharedRight(Top, Len(stack))
    BY <1>1, TopRight
  <2>4. SameFrame(Top, g) /\ g.perm = Top.perm /\ g.kept = Top.kept /\ IsFrame(g)
    BY <2>1, <2>3, FrameEntered DEF SharedRight
  <2>5. SharedRight(g, Len(stack))
    BY <2>3, <2>4 DEF SharedRight, SameFrame
  <2>6. /\ IsSeq(stack') /\ Len(stack') \in Nat \ {0}
        /\ \A i \in 1..Len(stack') : SharedRight(stack'[i], i)
    BY <1>1, <2>2, <2>5, TopReplaced
  <2> QED BY <1>1, <2>6, SearchGoesOn
<1> QED BY <1>2, <1>3

(* An explored permutation is taken off.                                   *)
LEMMA ExploredRight ==
  ASSUME KeptInv, result = "running", Top.kept # <<>>,
         NEW g, g = [Top EXCEPT !.kept = Tail(@)]
  PROVE  /\ SharedRight(g, Len(stack)) /\ SameFrame(Top, g) /\ g.perm = Top.perm
         /\ g.entered = Top.entered /\ g.todo = Top.todo /\ g.kept = Tail(Top.kept)
         /\ Head(Top.kept) = Top.kept[1] /\ 1 \in 1..Len(Top.kept)
<1>1. SharedRight(Top, Len(stack))
  BY TopRight
<1>2. PICK c : c = Tail(Top.kept)
  OBVIOUS
<1>3. /\ IsFrame(g) /\ SameFrame(Top, g) /\ g.perm = Top.perm
      /\ g.entered = Top.entered /\ g.todo = Top.todo /\ g.kept = c
  BY <1>1, <1>2, FrameExplored DEF SharedRight
<1>4. /\ IsSeq(c) /\ Len(c) = Len(Top.kept) - 1 /\ Len(Top.kept) \in Nat \ {0}
      /\ \A k \in 1..(Len(Top.kept) - 1) : c[k] = Top.kept[k + 1]
      /\ Head(Top.kept) = Top.kept[1]
  BY <1>1, <1>2, TailIsSeq DEF SharedRight
<1>5. ASSUME NEW k \in 1..Len(c), c[k].shared
      PROVE  Len(stack) = 1 /\ c[k].perm = initialPart /\ fixed(initialPart, 0)
  <2>1. k + 1 \in 1..Len(Top.kept) /\ c[k] = Top.kept[k + 1]
    BY <1>4
  <2> QED BY <1>1, <1>5, <2>1 DEF SharedRight
<1>6. SharedRight(g, Len(stack))
  BY <1>1, <1>3, <1>4, <1>5 DEF SharedRight, SameFrame
<1>7. 1 \in 1..Len(Top.kept)
  BY <1>4
<1> QED BY <1>2, <1>3, <1>4, <1>6, <1>7

LEMMA CompleteKept ==
  ASSUME KeptInv, CheckComplete
  PROVE  KeptInv'
<1>1. result = "running" /\ Top.kept # <<>> /\ UNCHANGED <<set, initialPart, dom>>
  BY DEF CheckComplete
<1>2. PICK g : g = [Top EXCEPT !.kept = Tail(@)]
  OBVIOUS
<1>3. stack' = SetTop(g)
  BY <1>2 DEF CheckComplete
<1>4. SharedRight(g, Len(stack))
  BY <1>1, <1>2, ExploredRight
<1>5. /\ IsSeq(stack') /\ Len(stack') \in Nat \ {0}
      /\ \A i \in 1..Len(stack') : SharedRight(stack'[i], i)
  BY <1>1, <1>3, <1>4, TopReplaced
<1> QED BY <1>1, <1>5, SearchGoesOn

LEMMA DescendKept ==
  ASSUME KeptInv, Descend
  PROVE  KeptInv'
<1>1. result = "running" /\ Top.kept # <<>> /\ UNCHANGED <<set, initialPart, dom>>
  BY DEF Descend
<1>2. PICK g, o, n :
        g = [Top EXCEPT !.kept = Tail(@)] /\ o = Head(Top.kept) /\ n = Len(stack)
  OBVIOUS
<1>3. PICK rest, new :
        rest = SetTop(g) /\ new = Frame(o.perm, o.shared, Top.r + 1, Top.d + 1)
  OBVIOUS
<1>4. stack' = rest \/ stack' = Append(rest, new)
  BY <1>2, <1>3 DEF Descend
<1>5. /\ SharedRight(g, n) /\ o = Top.kept[1] /\ 1 \in 1..Len(Top.kept)
      /\ SharedRight(Top, n)
  BY <1>1, <1>2, ExploredRight, TopRight
<1>6. /\ IsSeq(rest) /\ Len(rest) = n /\ n \in Nat \ {0}
      /\ \A i \in 1..n : SharedRight(rest[i], i)
  BY <1>1, <1>2, <1>3, <1>5, TopReplaced
<1>7. SharedRight(new, n + 1)
  <2>1. /\ IsFrame(new) /\ new.perm = o.perm /\ new.shared = o.shared
        /\ new.r = Top.r + 1 /\ new.kept = <<>>
    BY <1>3 DEF Frame, IsFrame
  <2>2. Top.r = n - 1
    BY <1>5 DEF SharedRight
  <2>3. o.shared => n = 1 /\ o.perm = initialPart /\ fixed(initialPart, 0)
    BY <1>5 DEF SharedRight
  <2> QED BY <1>6, <2>1, <2>2, <2>3, EmptyIsSeq DEF SharedRight
<1>8. CASE stack' = rest
  BY <1>1, <1>6, <1>8, SearchGoesOn
<1>9. CASE stack' = Append(rest, new)
  <2>1. /\ IsSeq(stack') /\ Len(stack') = n + 1 /\ stack'[n + 1] = new
        /\ \A i \in 1..n : stack'[i] = rest[i]
    BY <1>6, <1>9, AppendIsSeq
  <2>2. ASSUME NEW i \in 1..Len(stack')
        PROVE  SharedRight(stack'[i], i)
    <3>1. i = n + 1 \/ i \in 1..n
      BY <1>6, <2>1
    <3> QED BY <1>6, <1>7, <2>1, <3>1
  <2>3. Len(stack') # 0
    BY <1>6, <2>1
  <2> QED BY <1>1, <2>1, <2>2, <2>3, SearchGoesOn
<1> QED BY <1>4, <1>8, <1>9

LEMMA ReturnKept ==
  ASSUME KeptInv, Return
  PROVE  KeptInv'
<1>1. /\ result = "running" /\ UNCHANGED <<set, initialPart, dom>> /\ stack' = Front(stack)
      /\ result' = IF stack' = <<>> THEN "passed" ELSE "running"
  BY DEF Return
<1>2. CASE stack' = <<>>
  BY <1>1, <1>2 DEF KeptInv, InitialPart
<1>3. CASE stack' # <<>>
  <2>1. /\ IsSeq(stack) /\ Len(stack) \in Nat \ {0}
        /\ \A i \in 1..Len(stack) : SharedRight(stack[i], i)
    BY <1>1, TopRight
  <2>2. /\ IsSeq(stack') /\ Len(stack') = Len(stack) - 1
        /\ \A i \in 1..(Len(stack) - 1) : stack'[i] = stack[i]
    BY <1>1, <2>1, FrontIsSeq
  <2>3. Len(stack') # 0
    <3> SUFFICES ASSUME Len(stack') = 0
                 PROVE  FALSE
      OBVIOUS
    <3>1. PICK t : t = stack'
      OBVIOUS
    <3>2. t = [k \in 1..0 |-> t[k]]
      BY <2>2, <3>1 DEF IsSeq
    <3> QED BY <1>3, <3>1, <3>2
  <2>4. \A i \in 1..Len(stack') : SharedRight(stack'[i], i)
    BY <2>1, <2>2
  <2> QED BY <1>1, <2>2, <2>3, <2>4, SearchGoesOn
<1> QED BY <1>2, <1>3

LEMMA FilterKept ==
  ASSUME DiagonalsBuilt, DiagonalsKnown, KeptInv, Filter
  PROVE  KeptInv'
<1>1. result = "running" /\ UNCHANGED <<set, dom>>
  BY DEF Filter
<1>2. PICK f, same :
        /\ f = filterOption(Top.perm, Head(Top.todo), Top.r)
        /\ same = Aliased(Top.perm, Top.r)
  OBVIOUS
<1>3. PICK a, b, c, e :
        /\ a = IF same THEN f.perm ELSE Top.perm
        /\ b = IF f.stop THEN <<>> ELSE Tail(Top.todo)
        /\ e = [perm |-> f.perm, shared |-> same /\ Top.shared]
        /\ c = IF f.keep THEN Append(Top.kept, e) ELSE Top.kept
  OBVIOUS
<1>4. PICK g : g = [Top EXCEPT !.perm = a, !.todo = b, !.kept = c]
  OBVIOUS
<1>5. /\ stack' = SetTop(g)
      /\ initialPart' = IF same /\ Top.shared THEN f.perm ELSE initialPart
  BY <1>2, <1>3, <1>4 DEF Filter
<1>6. PICK n : n = Len(stack)
  OBVIOUS
<1>7. n \in Nat \ {0} /\ SharedRight(Top, n)
  BY <1>1, <1>6, TopRight
<1>8. same /\ Top.shared => n = 1 /\ fixed(initialPart, 0) /\ f.perm = initialPart
  <2> SUFFICES ASSUME same, Top.shared
               PROVE  n = 1 /\ fixed(initialPart, 0) /\ f.perm = initialPart
    OBVIOUS
  <2>1. Top.perm = initialPart /\ Top.r = n - 1 /\ (n = 1 \/ (n = 2 /\ fixed(initialPart, 0)))
    BY <1>7 DEF SharedRight
  <2>2. fixed(Top.perm, Top.r)
    BY <1>2 DEF Aliased
  <2>3. fixed(initialPart, n - 1)
    BY <2>1, <2>2
  <2>4. CASE n = 1
    <3>1. fixed(initialPart, 0) /\ Top.r = 0
      BY <2>1, <2>3, <2>4
    <3>2. PICK opt : opt = Head(Top.todo)
      OBVIOUS
    <3>3. filterOption(initialPart, opt, 0) = Kept(initialPart)
      BY <1>1, <3>1, SharedFiltered
    <3>4. f = Kept(initialPart)
      BY <1>2, <2>1, <3>1, <3>2, <3>3
    <3> QED BY <2>4, <3>1, <3>4 DEF Kept, Filtered
  <2>5. CASE n = 2 /\ fixed(initialPart, 0)
    <3>1. ~ fixed(initialPart, 1)
      BY <1>1, <2>5, FixedFromStart
    <3> QED BY <2>3, <2>5, <3>1
  <2> QED BY <2>1, <2>4, <2>5
<1>9. initialPart' = initialPart
  BY <1>5, <1>8
<1>10. IsFrame(g) /\ SameFrame(Top, g) /\ g.perm = a /\ g.kept = c
  <2>1. PICK t : t = Top
    OBVIOUS
  <2>2. IsFrame(t) /\ g = [t EXCEPT !.perm = a, !.todo = b, !.kept = c]
    BY <1>4, <1>7, <2>1 DEF SharedRight
  <2>3. Refilled(t, g, a, b, c)
    BY <2>2, FrameFiltered
  <2> QED BY <2>1, <2>3 DEF Refilled
<1>11. e.perm = f.perm /\ (e.shared => same /\ Top.shared)
  BY <1>3
<1>12. /\ IsSeq(Top.kept)
       /\ \A k \in 1..Len(Top.kept) : Top.kept[k].shared =>
            n = 1 /\ Top.kept[k].perm = initialPart /\ fixed(initialPart, 0)
  BY <1>7 DEF SharedRight
<1>13. /\ IsSeq(c)
       /\ \A k \in 1..Len(c) : c[k].shared =>
            n = 1 /\ c[k].perm = initialPart /\ fixed(initialPart, 0)
  <2>1. CASE c = Top.kept
    BY <1>12, <2>1
  <2>2. CASE c = Append(Top.kept, e)
    <3>1. /\ IsSeq(c) /\ Len(c) = Len(Top.kept) + 1 /\ c[Len(Top.kept) + 1] = e
          /\ \A k \in 1..Len(Top.kept) : c[k] = Top.kept[k]
      BY <1>12, <2>2, AppendIsSeq
    <3>2. ASSUME NEW k \in 1..Len(c), c[k].shared
          PROVE  n = 1 /\ c[k].perm = initialPart /\ fixed(initialPart, 0)
      <4>1. k \in 1..Len(Top.kept) \/ k = Len(Top.kept) + 1
        BY <1>12, <3>1 DEF IsSeq
      <4>2. CASE k \in 1..Len(Top.kept)
        BY <1>12, <3>1, <3>2, <4>2
      <4>3. CASE k = Len(Top.kept) + 1
        BY <1>8, <1>11, <3>1, <3>2, <4>3
      <4> QED BY <4>1, <4>2, <4>3
    <3> QED BY <3>1, <3>2
  <2> QED BY <1>3, <2>1, <2>2
<1>14. g.shared => g.perm = initialPart /\ (n = 1 \/ (n = 2 /\ fixed(initialPart, 0)))
  <2>1. g.shared = Top.shared /\ g.perm = a
    BY <1>10 DEF SameFrame
  <2>2. Top.shared => Top.perm = initialPart /\ (n = 1 \/ (n = 2 /\ fixed(initialPart, 0)))
    BY <1>7 DEF SharedRight
  <2> QED BY <1>3, <1>8, <2>1, <2>2
<1>15. SharedRight(g, n)
  <2>1. Top.r = n - 1
    BY <1>7 DEF SharedRight
  <2> QED BY <1>10, <1>13, <1>14, <2>1 DEF SharedRight, SameFrame
<1>16. /\ IsSeq(stack') /\ Len(stack') \in Nat \ {0}
       /\ \A i \in 1..Len(stack') : SharedRight(stack'[i], i)
  BY <1>1, <1>5, <1>6, <1>9, <1>15, TopReplaced
<1> QED BY <1>1, <1>9, <1>16, SearchGoesOn

LEMMA StepKept ==
  ASSUME DiagonalsBuilt, DiagonalsKnown, KeptInv, Next
  PROVE  KeptInv'
<1>1. CASE Finish
  BY <1>1 DEF Finish, KeptInv, InitialPart
<1> QED BY <1>1, CheckKept, EnterKept, FilterKept, CompleteKept, DescendKept, ReturnKept
        DEF Next

LEMMA AlwaysKept ==
  ASSUME DiagonalsBuilt, DiagonalsKnown
  PROVE  Spec => []KeptInv
<1>1. Init => KeptInv
  BY DEF Init, KeptInv
<1>2. KeptInv /\ [Next]_vars => KeptInv'
  <2>1. CASE Next
    BY <2>1, StepKept
  <2>2. ASSUME KeptInv, UNCHANGED vars
        PROVE  KeptInv'
    <3>1. UNCHANGED <<set, initialPart, dom, stack, result>>
      BY <2>2 DEF vars
    <3>2. CASE result = "running"
      <4>1. IsSeq(stack) /\ Len(stack) # 0 /\ \A i \in 1..Len(stack) : SharedRight(stack[i], i)
        BY <2>2, <3>2 DEF KeptInv, Searching
      <4> QED BY <2>2, <3>1, <3>2, <4>1, SearchGoesOn
    <3>3. CASE result # "running"
      BY <2>2, <3>1, <3>3 DEF KeptInv, InitialPart
    <3> QED BY <3>2, <3>3
  <2> QED BY <2>1, <2>2
<1> QED BY <1>1, <1>2, PTL DEF Spec

(* InitialPartKept: whatever tables are checked, partial or full, the      *)
(* permutation object initialPart, which all checks share and which is     *)
(* not copied for a row that is fixed, is the same before every check.     *)
(* Only the first row can be fixed from the start, and its one option      *)
(* passes the filter without a call of fix; the second row is then free.   *)
THEOREM SharedPermutationKept ==
  DiagonalsBuilt /\ DiagonalsKnown => (Spec => []InitialPartKept)
<1> SUFFICES ASSUME DiagonalsBuilt, DiagonalsKnown
             PROVE  Spec => []InitialPartKept
  OBVIOUS
<1>1. Spec => []KeptInv
  BY AlwaysKept
<1>2. KeptInv => InitialPartKept
  BY DEF KeptInv, InitialPartKept, InitialParts
<1> QED BY <1>1, <1>2, PTL
-----------------------------------------------------------------------------
(* Tables, and what a renaming makes of them.                              *)
LEMMA SurjectivePermutes ==
  ASSUME NEW f \in [Val -> Val], \A y \in Val : \E x \in Val : f[x] = y
  PROVE  Permutes(f)
<1>1. f \in Surjection(Val, Val)
  BY DEF Surjection
<1>2. f \in Injection(Val, Val)
  BY <1>1, ValFinite, FS_SurjSameCardinalityImpliesInj
<1>3. \A x, y \in Val : f[x] = f[y] => x = y
  BY <1>2 DEF Injection, IsInjective
<1> QED BY <1>3 DEF Permutes

LEMMA InverseIs ==
  ASSUME NEW p, Permutes(p), NEW v \in Val
  PROVE  Inv(p)[v] \in Val /\ p[Inv(p)[v]] = v
<1>1. \E x \in Val : p[x] = v
  BY DEF Permutes
<1>2. Inv(p)[v] = CHOOSE x \in Val : p[x] = v
  BY DEF Inv
<1> QED BY <1>1, <1>2

(* Rows are permutations; a diagonal, if there is one, is the one given.   *)
IsTable(M) ==
  /\ M \in [Val -> [Val -> Val]]
  /\ \A r \in Val : Permutes(M[r])
  /\ diagPart => \A x \in Val : M[x][x] = Diag[x]

(* Entry (r, c) of table M renamed by p.                                   *)
Ren(M, p, r, c) == Inv(p)[M[p[r]][p[c]]]

Earlier(i, j, r, c) == i < r \/ (i = r /\ j < c)

Less(M, p) ==
  \E r, c \in Val :
    /\ Ren(M, p, r, c) < M[r][c]
    /\ \A i, j \in Val : Earlier(i, j, r, c) => Ren(M, p, i, j) = M[i][j]

LEMMA RenamedEntry ==
  ASSUME NEW M, IsTable(M), NEW p, Permutes(p), NEW r \in Val, NEW c \in Val
  PROVE  /\ p[r] \in Val /\ p[c] \in Val /\ M[p[r]][p[c]] \in Val /\ M[r][c] \in Val
         /\ Ren(M, p, r, c) \in Val /\ p[Ren(M, p, r, c)] = M[p[r]][p[c]]
         /\ \A z \in Val : p[z] = M[p[r]][p[c]] => z = Ren(M, p, r, c)
<1>1. p \in [Val -> Val] /\ \A x, y \in Val : p[x] = p[y] => x = y
  BY DEF Permutes
<1>2. M \in [Val -> [Val -> Val]]
  BY DEF IsTable
<1>3. p[r] \in Val /\ p[c] \in Val /\ M[p[r]][p[c]] \in Val /\ M[r][c] \in Val
  BY <1>1, <1>2
<1>4. PICK v \in Val : v = M[p[r]][p[c]]
  BY <1>3
<1>5. Inv(p)[v] \in Val /\ p[Inv(p)[v]] = v
  BY InverseIs
<1> QED BY <1>1, <1>3, <1>4, <1>5 DEF Ren

LEMMA RenamedDiagonal ==
  ASSUME NEW M, IsTable(M), NEW p, Respects(Diag, p), diagPart, NEW x \in Val
  PROVE  Ren(M, p, x, x) = M[x][x]
<1>1. Permutes(p) /\ p[Diag[x]] = Diag[p[x]] /\ p[x] \in Val
  BY DEF Respects, Commutes, Permutes
<1>2. M[x][x] = Diag[x] /\ M[p[x]][p[x]] = Diag[p[x]] /\ M[x][x] \in Val
  BY <1>1 DEF IsTable
<1> QED BY <1>1, <1>2, RenamedEntry

LEMMA RenamedIs ==
  ASSUME NEW M, IsTable(M), NEW p, Permutes(p)
  PROVE  /\ \A r, c \in Val : CS!Renamed(M, p)[r][c] = Ren(M, p, r, c)
         /\ CS!LexLess(CS!Renamed(M, p), M) <=> Less(M, p)
<1>1. CS!V = Val
  BY DEF CS!V, Val
<1>2. \A r, c \in Val : CS!Renamed(M, p)[r][c] = Ren(M, p, r, c)
  BY <1>1 DEF CS!Renamed, Ren, Inv
<1>3. PICK R : R = CS!Renamed(M, p)
  OBVIOUS
<1>4. CS!LexLess(R, M) <=> Less(M, p)
  <2>1. CS!LexLess(R, M) <=>
          \E r, c \in Val : /\ R[r][c] < M[r][c]
                            /\ \A i, j \in Val : Earlier(i, j, r, c) => R[i][j] = M[i][j]
    BY <1>1 DEF CS!LexLess, Earlier
  <2>2. \A r, c \in Val : R[r][c] = Ren(M, p, r, c)
    BY <1>2, <1>3
  <2> HIDE DEF Ren
  <2> QED BY <2>1, <2>2 DEF Less
<1> QED BY <1>2, <1>3, <1>4

(* The first smaller entry decides.                                        *)
LEMMA FirstSmaller ==
  ASSUME NEW M, IsTable(M), NEW p, Permutes(p), NEW r \in Val, NEW c \in Val,
         Ren(M, p, r, c) < M[r][c],
         \A i, j \in Val : Earlier(i, j, r, c) => Ren(M, p, i, j) <= M[i][j]
  PROVE  Less(M, p)
<1> DEFINE Rows == {i \in Val : \E j \in Val : /\ Ren(M, p, i, j) < M[i][j]
                                               /\ Earlier(i, j, r, c) \/ (i = r /\ j = c)}
<1>1. \A i, j \in Val : Ren(M, p, i, j) \in Val /\ M[i][j] \in Val
  BY RenamedEntry
<1>2. Val \subseteq Nat
  BY ValFinite
<1>3. PICK i \in Rows : \A y \in Rows : i <= y
  <2>1. r \in Rows
    OBVIOUS
  <2>2. Rows \in SUBSET Nat /\ Rows # {}
    BY <1>2, <2>1
  <2> HIDE DEF Rows
  <2> QED BY <2>2, LeastNat
<1>4. i \in Val
  OBVIOUS
<1> DEFINE Cols == {j \in Val : /\ Ren(M, p, i, j) < M[i][j]
                                /\ Earlier(i, j, r, c) \/ (i = r /\ j = c)}
<1>5. PICK j \in Cols : \A y \in Cols : j <= y
  <2>1. Cols # {}
    OBVIOUS
  <2>2. Cols \in SUBSET Nat
    BY <1>2
  <2> HIDE DEF Cols
  <2> QED BY <2>1, <2>2, LeastNat
<1>6. j \in Val /\ Ren(M, p, i, j) < M[i][j] /\ (Earlier(i, j, r, c) \/ (i = r /\ j = c))
  OBVIOUS
<1>7. ASSUME NEW a \in Val, NEW b \in Val, Earlier(a, b, i, j)
      PROVE  Ren(M, p, a, b) = M[a][b]
  <2>1. Earlier(a, b, r, c)
    BY <1>2, <1>4, <1>6, <1>7 DEF Earlier
  <2>2. Ren(M, p, a, b) <= M[a][b] /\ Ren(M, p, a, b) \in Nat /\ M[a][b] \in Nat
    BY <1>1, <1>2, <2>1
  <2>3. ~ (Ren(M, p, a, b) < M[a][b])
    <3> SUFFICES ASSUME Ren(M, p, a, b) < M[a][b]
                 PROVE  FALSE
      OBVIOUS
    <3>1. a \in Rows
      BY <2>1
    <3>2. i <= a
      <4> HIDE DEF Rows
      <4> QED BY <1>3, <3>1
    <3>3. a = i /\ b < j
      BY <1>2, <1>4, <1>7, <3>2 DEF Earlier
    <3>4. b \in Cols
      BY <2>1, <3>3
    <3>5. j <= b
      <4> HIDE DEF Cols
      <4> QED BY <1>5, <3>4
    <3>6. b \in Nat /\ j \in Nat
      BY <1>2, <1>6
    <3> HIDE DEF Rows, Cols
    <3> QED BY <3>3, <3>5, <3>6
  <2> QED BY <2>2, <2>3
<1> QED BY <1>4, <1>6, <1>7 DEF Less

(* The group of the diagonal.                                              *)
LEMMA GroupIs ==
  ASSUME DiagonalsBuilt, set \in Settings, NEW q
  PROVE  q \in Renamings(set.diag) <=> Respects(Diag, q)
<1>1. q \in CS!Bijections <=> Permutes(q)
  <2>1. CS!V = Val
    BY DEF CS!V, Val
  <2>2. q \in CS!Bijections <=> q \in [Val -> Val] /\ \A x \in Val : \E y \in Val : q[y] = x
    BY <2>1 DEF CS!Bijections
  <2> QED BY <2>2, SurjectivePermutes DEF Permutes
<1>2. CASE set.diag = NoDiagonal
  <2>1. Renamings(set.diag) = CS!Bijections
    BY <1>2 DEF Renamings, CS!Symmetric
  <2>2. Diag = Identity
    BY <1>2 DEF Diag, diagPart
  <2>3. Permutes(q) => Commutes(Identity, q)
    BY DEF Permutes, Commutes, Identity
  <2> QED BY <1>1, <2>1, <2>2, <2>3 DEF Respects
<1>3. CASE set.diag # NoDiagonal
  <2>1. CS!V = Val
    BY DEF CS!V, Val
  <2>2. Diag = set.diag
    BY <1>3 DEF Diag, diagPart
  <2>3. q \in Renamings(set.diag)
          <=> q \in CS!Bijections /\ \A x \in Val : q[Diag[x]] = Diag[q[x]]
    BY <1>3, <2>1, <2>2 DEF Renamings, CS!Centraliser
  <2> QED BY <1>1, <2>3 DEF Respects, Commutes
<1> QED BY <1>2, <1>3
(* What WithDiagonal builds row by row.                                    *)
LEMMA WithDiagonalAre ==
  ASSUME NEW d \in [Val -> Val], NEW M \in CS!WithDiagonal(d)
  PROVE  /\ M \in [Val -> [Val -> Val]]
         /\ \A r \in Val : Permutes(M[r]) /\ M[r][r] = d[r]
<1> DEFINE B == CS!Bijections
           Rows(x) == CS!RowsWith(d, x)
           Sets == SUBSET Seq(B)
           Step(k, Q) == {Append(t, f) : t \in Q, f \in Rows(k - 1)}
           a == {<<>>}
           G == [k \in 1..N |-> [Q \in Sets |-> Step(k, Q)]]
           IsIt(P) == P = [k \in 0..N |-> IF k = 0 THEN a ELSE Step(k, P[k - 1])]
<1>1. CS!V = Val /\ N \in Nat
  BY NAssumption DEF CS!V, Val
<1>2. /\ \A f \in B : f \in [Val -> Val] /\ Permutes(f)
      /\ \A x \in Val : \A f \in Rows(x) : f \in B /\ f[x] = d[x]
      /\ \A x : \A f \in Rows(x) : f \in B
  BY <1>1, SurjectivePermutes DEF CS!Bijections, CS!RowsWith
<1>3. \E P : IsIt(P)
  <2>1. ASSUME NEW k \in 1..N, NEW Q \in Sets
        PROVE  Step(k, Q) \in Sets
    <3>1. \A t \in Q, f \in Rows(k - 1) : Append(t, f) \in Seq(B)
      <4> HIDE DEF B, Rows
      <4> QED BY <1>2, AppendProperties
    <3> QED BY <3>1
  <2>2. a \in Sets
    OBVIOUS
  <2>3. G \in [1..N -> [Sets -> Sets]]
    <3> HIDE DEF Step, Sets
    <3> QED BY <2>1
  <2>4. PICK P \in [0..N -> Sets] : Iterated(a, N, G, P)
    <3> HIDE DEF G, a, Sets, Step, IsIt
    <3>1. PICK U, b, H : U = Sets /\ b = a /\ H = G
      OBVIOUS
    <3>2. b \in U /\ H \in [1..N -> [U -> U]]
      BY <2>2, <2>3, <3>1
    <3>3. \E f \in [0..N -> U] : Iterated(b, N, H, f)
      BY <1>1, <3>2, Iterates
    <3> QED BY <3>1, <3>3
  <2>5. ASSUME NEW k \in 1..N
        PROVE  P[k] = Step(k, P[k - 1])
    <3>1. k - 1 \in 0..N /\ P[k - 1] \in Sets
      BY <1>1
    <3> HIDE DEF Sets, Step
    <3>2. G[k][P[k - 1]] = Step(k, P[k - 1])
      BY <3>1
    <3> QED BY <2>4, <3>2 DEF Iterated
  <2>6. IsIt(P)
    <3> HIDE DEF Step, a, G, Sets
    <3> QED BY <2>4, <2>5 DEF Iterated
  <2> HIDE DEF IsIt
  <2> QED BY <2>6
<1>4. PICK P : IsIt(P) /\ P = CS!Prefixes(d)
  <2>1. CS!Prefixes(d) = CHOOSE f : IsIt(f)
    BY DEF CS!Prefixes
  <2> HIDE DEF IsIt
  <2> QED BY <1>3, <2>1
<1> DEFINE Good(k, Q) ==
             \A t \in Q : t \in Seq(B) /\ Len(t) = k /\ \A x \in 0..(k - 1) : t[x + 1] \in Rows(x)
           Goods == {x \in (0..N) \X Sets : Good(x[1], x[2])}
           g == [k \in 0..N |-> <<k, P[k]>>]
<1>5. P[0] = {<<>>} /\ \A k \in 1..N : P[k] = Step(k, P[k - 1])
  <2> HIDE DEF Step
  <2>1. 0 \in 0..N /\ \A k \in 1..N : k \in 0..N /\ k # 0
    BY <1>1
  <2> QED BY <1>4, <2>1
<1>6. \A k \in 0..N : g[k] \in Goods <=> P[k] \in Sets /\ Good(k, P[k])
  <2> HIDE DEF Good, Sets
  <2> QED OBVIOUS
<1>7. g[0] \in Goods
  <2>1. P[0] \in Sets
    BY <1>5
  <2>2. Good(0, P[0])
    <3>1. \A x \in 0..(0 - 1) : FALSE
      OBVIOUS
    <3> QED BY <1>5, <3>1
  <2> HIDE DEF Goods, g
  <2> QED BY <1>1, <1>6, <2>1, <2>2
<1>8. ASSUME NEW k \in 1..N, g[k - 1] \in Goods
      PROVE  g[k] \in Goods
  <2>1. k - 1 \in 0..N /\ k \in 0..N /\ k \in Nat
    BY <1>1
  <2>2. P[k - 1] \in Sets /\ Good(k - 1, P[k - 1])
    <3> HIDE DEF Good, Goods, g, Sets
    <3> QED BY <1>6, <1>8, <2>1
  <2>3. ASSUME NEW t \in P[k]
        PROVE  t \in Seq(B) /\ Len(t) = k /\ \A x \in 0..(k - 1) : t[x + 1] \in Rows(x)
    <3>1. PICK u \in P[k - 1], f \in Rows(k - 1) : t = Append(u, f)
      <4> HIDE DEF Rows
      <4> QED BY <1>5, <2>3
    <3>2. u \in Seq(B) /\ Len(u) = k - 1 /\ \A x \in 0..(k - 1 - 1) : u[x + 1] \in Rows(x)
      <4> HIDE DEF Rows, B
      <4> QED BY <2>2
    <3>3. f \in B
      <4> HIDE DEF B, Rows
      <4> QED BY <1>2
    <3> HIDE DEF Rows, B
    <3>4. /\ t \in Seq(B) /\ Len(t) = k /\ t[k] = f
          /\ \A i \in 1..(k - 1) : t[i] = u[i]
      <4>1. /\ t \in Seq(B) /\ Len(t) = Len(u) + 1 /\ t[Len(u) + 1] = f
            /\ \A i \in 1..Len(u) : t[i] = u[i]
        BY <3>1, <3>2, <3>3, AppendProperties
      <4> QED BY <2>1, <3>2, <4>1
    <3>5. ASSUME NEW x \in 0..(k - 1)
          PROVE  t[x + 1] \in Rows(x)
      <4>1. CASE x = k - 1
        <5>1. x + 1 = k
          BY <2>1, <4>1
        <5> QED BY <3>1, <3>4, <4>1, <5>1
      <4>2. CASE x # k - 1
        <5>1. x \in 0..(k - 1 - 1) /\ x + 1 \in 1..(k - 1)
          BY <2>1, <4>2
        <5> QED BY <3>2, <3>4, <5>1
      <4> QED BY <4>1, <4>2
    <3> QED BY <3>4, <3>5
  <2>4. P[k] \in Sets /\ Good(k, P[k])
    <3> HIDE DEF B, Rows
    <3> QED BY <2>3
  <2> HIDE DEF Good, Goods, g, Sets
  <2> QED BY <1>6, <2>1, <2>4
<1>9. g[N] \in Goods
  <2>1. \A k \in 0..N : g[k] \in Goods
    <3> HIDE DEF Goods, g
    <3> QED BY <1>1, <1>7, <1>8, HandedOn
  <2>2. N \in 0..N
    BY <1>1
  <2> HIDE DEF Goods, g
  <2> QED BY <2>1, <2>2
<1>10. Good(N, P[N])
  <2>1. N \in 0..N
    BY <1>1
  <2> HIDE DEF Good, Goods, g, Sets
  <2> QED BY <1>6, <1>9, <2>1
<1>11. PICK t \in P[N] : M = [x \in Val |-> t[x + 1]]
  <2>1. M \in {[x \in CS!V |-> t[x + 1]] : t \in CS!Prefixes(d)[N]}
    BY DEF CS!WithDiagonal
  <2> HIDE DEF IsIt
  <2> QED BY <1>1, <1>4, <2>1
<1>12. \A x \in Val : M[x] = t[x + 1] /\ M[x] \in Rows(x)
  <2> HIDE DEF Rows, B
  <2>1. \A x \in 0..(N - 1) : t[x + 1] \in Rows(x)
    BY <1>10, <1>11
  <2> QED BY <1>11, <2>1 DEF Val
<1>13. \A x \in Val : M[x] \in [Val -> Val] /\ Permutes(M[x]) /\ M[x][x] = d[x]
  <2> HIDE DEF B, Rows
  <2> QED BY <1>2, <1>12
<1>14. M \in [Val -> [Val -> Val]]
  BY <1>11, <1>13
<1> QED BY <1>13, <1>14

LEMMA TablesAre ==
  ASSUME set \in Settings, NEW x \in Tables, x[1] = set.diag
  PROVE  IsTable(x[2])
<1>1. PICK d \in Diagonals : x \in {<<d, M>> : M \in IF d = NoDiagonal THEN CS!AllCycleSets
                                                    ELSE CS!WithDiagonal(d)}
  BY DEF Tables
<1>2. x = <<d, x[2]>> /\ d = set.diag
      /\ x[2] \in IF d = NoDiagonal THEN CS!AllCycleSets ELSE CS!WithDiagonal(d)
  BY <1>1
<1>3. CASE d = NoDiagonal
  <2>1. x[2] \in [CS!V -> CS!Bijections]
    BY <1>2, <1>3 DEF CS!AllCycleSets
  <2>2. CS!V = Val
    BY DEF CS!V, Val
  <2>3. \A f \in CS!Bijections : f \in [Val -> Val] /\ Permutes(f)
    BY <2>2, SurjectivePermutes DEF CS!Bijections
  <2>4. ~diagPart
    BY <1>2, <1>3 DEF diagPart
  <2> QED BY <2>1, <2>2, <2>3, <2>4 DEF IsTable
<1>4. CASE d # NoDiagonal
  <2>1. d \in [Val -> Val] /\ Diag = d
    BY <1>2, <1>4, SettingsAssumption DEF Setting, Diag, diagPart
  <2>2. PICK M : M = x[2]
    OBVIOUS
  <2>3. M \in CS!WithDiagonal(d)
    BY <1>2, <1>4, <2>2
  <2>4. M \in [Val -> [Val -> Val]] /\ \A r \in Val : Permutes(M[r]) /\ M[r][r] = d[r]
    BY <2>1, <2>3, WithDiagonalAre
  <2> QED BY <2>1, <2>2, <2>4 DEF IsTable
<1> QED BY <1>3, <1>4
-----------------------------------------------------------------------------
(* The domains of a full table M.                                          *)
FullOf(M) == IsTable(M) /\ \A r, c \in Val : dom[r][c] = {M[r][c]}

LEMMA OneMember ==
  ASSUME NEW v \in Val
  PROVE  Min({v}) = v /\ Max({v}) = v /\ Cardinality({v}) = 1
<1>1. v \in Nat /\ {v} \in SUBSET Nat /\ {v} # {} /\ \A y \in {v} : y <= v
  BY ValFinite
<1>2. Min({v}) \in {v} /\ Max({v}) \in {v}
  BY <1>1, MinMember, MaxMember
<1> QED BY <1>2, FS_Singleton

LEMMA FullEntry ==
  ASSUME NEW M, FullOf(M), NEW r \in Val, NEW c \in Val
  PROVE  /\ M[r][c] \in Val /\ dom[r][c] = {M[r][c]}
         /\ minog(r, c) = M[r][c] /\ Single(r, c)
<1>1. M[r][c] \in Val /\ dom[r][c] = {M[r][c]}
  BY DEF FullOf, IsTable
<1>2. PICK v \in Val : v = M[r][c]
  BY <1>1
<1> QED BY <1>1, <1>2, OneMember DEF minog, Single

LEMMA FullPreimages ==
  ASSUME NEW M, FullOf(M), NEW p, Permutes(p), NEW r \in Val, NEW c \in Val
  PROVE  /\ Ren(M, p, r, c) \in Val /\ Preimages(p, r, c) = {Ren(M, p, r, c)}
         /\ Max(Preimages(p, r, c)) = Ren(M, p, r, c)
         /\ Min(Preimages(p, r, c)) = Ren(M, p, r, c)
         /\ Cardinality(Preimages(p, r, c)) = 1
<1>1. IsTable(M) /\ p[r] \in Val /\ p[c] \in Val /\ Ren(M, p, r, c) \in Val
  BY RenamedEntry DEF FullOf
<1>2. dom[p[r]][p[c]] = {M[p[r]][p[c]]}
  BY <1>1 DEF FullOf
<1>3. Preimages(p, r, c) = {Ren(M, p, r, c)}
  BY <1>2 DEF Preimages, Ren
<1>4. PICK v \in Val : v = Ren(M, p, r, c)
  BY <1>1
<1> QED BY <1>1, <1>3, <1>4, OneMember

LEMMA TableOfIs ==
  ASSUME CompleteAreTables, set \in Settings, NEW x \in Doms, x[1] = set.diag, Full(x[2]),
         NEW M, M = FullTable(x[2])
  PROVE  IsTable(M) /\ \A r, c \in Val : x[2][r][c] = {M[r][c]}
<1>1. <<set.diag, M>> \in Tables
  BY DEF CompleteAreTables
<1>2. PICK y : y = <<set.diag, M>>
  OBVIOUS
<1>3. IsTable(M)
  <2>1. y \in Tables /\ y[1] = set.diag /\ y[2] = M
    BY <1>1, <1>2
  <2> QED BY <2>1, TablesAre
<1>4. ASSUME NEW r \in Val, NEW c \in Val
      PROVE  x[2][r][c] = {M[r][c]}
  <2>1. x[2][r][c] \in SUBSET Val /\ Cardinality(x[2][r][c]) = 1
    BY SettingsAssumption DEF Full
  <2>2. IsFiniteSet(x[2][r][c])
    BY <2>1, ValFinite, FS_Subset
  <2>3. PICK v : x[2][r][c] = {v}
    BY <2>1, <2>2, FS_Singleton
  <2>4. v \in Val
    BY <2>1, <2>3
  <2>5. M[r][c] = Min(x[2][r][c])
    BY DEF FullTable
  <2> QED BY <2>3, <2>4, <2>5, OneMember
<1> QED BY <1>3, <1>4

LEMMA FullTableIs ==
  ASSUME CompleteAreTables, set \in Settings, Full(dom),
         NEW x \in Doms, x[1] = set.diag, dom = x[2]
  PROVE  FullOf(Table) /\ <<set.diag, Table>> \in Tables
<1>1. Table = FullTable(x[2]) /\ <<set.diag, Table>> \in Tables
  BY DEF CompleteAreTables, Table
<1>2. PICK M : M = FullTable(x[2])
  OBVIOUS
<1>3. IsTable(M) /\ \A r, c \in Val : x[2][r][c] = {M[r][c]}
  BY <1>2, TableOfIs
<1> QED BY <1>1, <1>2, <1>3 DEF FullOf
-----------------------------------------------------------------------------
(* The clauses.  Pos and Neg are the literals of a value.                  *)
Pos(a, b, v) == <<a, b, v, TRUE>>
Neg(a, b, v) == <<a, b, v, FALSE>>

LEMMA LiteralsAre ==
  ASSUME NEW a, NEW b, NEW v
  PROVE  /\ \A T : True(T, Pos(a, b, v)) <=> T[a][b] = v
         /\ \A T : True(T, Neg(a, b, v)) <=> T[a][b] # v
         /\ False(Pos(a, b, v)) <=> v \notin dom[a][b]
         /\ False(Neg(a, b, v)) <=> dom[a][b] = {v}
         /\ Pos(a, b, v)[1] = a /\ Pos(a, b, v)[2] = b /\ Pos(a, b, v)[3] = v
         /\ Neg(a, b, v)[1] = a /\ Neg(a, b, v)[2] = b /\ Neg(a, b, v)[3] = v
  BY DEF True, False, Pos, Neg

(* What a clause about a full table has to be: all its literals are false  *)
(* there and can be used, and it excludes only tables that can be renamed  *)
(* to smaller ones.                                                        *)
Usable(l) ==
  False(l) /\ (set.smallerEncoding => l[1] # l[2] /\ l[3] # set.diag[l[1]])

Excludes(C, T) == \A l \in C : ~ True(T, l)

Reducible(T) == \E p : Respects(Diag, p) /\ Less(T, p)

GoodClause(C) ==
  /\ C # {}
  /\ \A l \in C : Usable(l)
  /\ \A T : IsTable(T) /\ Excludes(C, T) => Reducible(T)

(* Literals for values that are gone, before toClause.                     *)
GoneLit(a, b, v) ==
  /\ a \in Val /\ b \in Val /\ v \in Val
  /\ v \notin dom[a][b] /\ ~ OnDiag(a, v) /\ (diagPart => a # b)

Gone(L) == \A t \in L : \E a, b, v : t = <<a, b, v>> /\ GoneLit(a, b, v)

Avoids(T, L) == \A a, b, v : <<a, b, v>> \in L => T[a][b] # v

InLits(L, a, b) == {v \in Val : <<a, b, v>> \in L}
OpenLits(L, a, b) ==
  {v \in Val : <<a, b, v>> \notin L /\ (set.smallerEncoding => v # set.diag[a])}
Most == IF set.smallerEncoding THEN N - 2 ELSE N - 1
EntryClause(L, a, b) ==
  IF Cardinality(InLits(L, a, b)) = Most
  THEN {Neg(a, b, v) : v \in OpenLits(L, a, b)}
  ELSE {Pos(a, b, v) : v \in InLits(L, a, b)}

LEMMA ClauseByEntries ==
  ASSUME NEW L
  PROVE  toClause(L) = UNION {EntryClause(L, e[1], e[2]) : e \in Val \X Val}
  BY DEF toClause, EntryClause, InLits, OpenLits, Most, Pos, Neg
(* An entry with all its values but one is left with its own value.        *)
LEMMA OneLeft ==
  ASSUME NEW M, FullOf(M), set \in Settings, N > 1, NEW L, Gone(L),
         NEW a \in Val, NEW b \in Val, InLits(L, a, b) # {},
         Cardinality(InLits(L, a, b)) = Most
  PROVE  OpenLits(L, a, b) = {M[a][b]}
<1> DEFINE I == InLits(L, a, b)
           w == M[a][b]
           X == IF set.smallerEncoding THEN Val \ {set.diag[a]} ELSE Val
<1>1. \A v \in I : v \in Val /\ GoneLit(a, b, v)
  BY DEF InLits, Gone
<1>2. w \in Val /\ dom[a][b] = {w} /\ IsTable(M)
  BY FullEntry DEF FullOf
<1>3. PICK v0 \in I : v0 \in Val /\ GoneLit(a, b, v0)
  BY <1>1
<1>4. set.smallerEncoding => diagPart /\ a # b
  BY <1>3, SettingsAssumption DEF diagPart, GoneLit
<1>5. set.smallerEncoding => set.diag[a] \in Val /\ w # set.diag[a]
  <2> SUFFICES ASSUME set.smallerEncoding
               PROVE  set.diag[a] \in Val /\ w # set.diag[a]
    OBVIOUS
  <2>1. diagPart /\ Diag = set.diag /\ a # b
    BY <1>4 DEF Diag
  <2>2. M[a][a] = set.diag[a] /\ Permutes(M[a]) /\ M[a][a] \in Val
    BY <1>2, <2>1 DEF IsTable
  <2>3. M[a][b] # M[a][a]
    BY <2>1, <2>2 DEF Permutes
  <2> QED BY <2>2, <2>3
<1>6. IsFiniteSet(X) /\ Cardinality(X) = Most + 1 /\ N \in Nat
  <2>1. IsFiniteSet(Val) /\ Cardinality(Val) = N /\ N \in Nat
    BY ValFinite, NAssumption
  <2>2. CASE set.smallerEncoding
    <3>1. PICK e \in Val : e = set.diag[a]
      BY <1>5, <2>2
    <3>2. IsFiniteSet(Val \ {e}) /\ Cardinality(Val \ {e}) = N - 1
      BY <2>1, FS_RemoveElement
    <3> QED BY <2>1, <2>2, <3>1, <3>2 DEF Most
  <2>3. CASE ~ set.smallerEncoding
    BY <2>1, <2>3 DEF Most
  <2> QED BY <2>2, <2>3
<1>7. w \in X /\ I \subseteq X \ {w}
  <2>1. \A v \in I : v \in Val /\ v # w /\ (diagPart => v # set.diag[a])
    BY <1>1, <1>2 DEF GoneLit, OnDiag
  <2> QED BY <1>2, <1>4, <1>5, <2>1
<1>8. w \in OpenLits(L, a, b)
  <2>1. w \notin I
    BY <1>7
  <2> QED BY <1>2, <1>5, <2>1 DEF OpenLits, InLits
<1>9. ASSUME NEW v \in OpenLits(L, a, b), v # w
      PROVE  FALSE
  <2>1. v \in X /\ v \notin I
    BY DEF OpenLits, InLits
  <2>2. I \subseteq (X \ {w}) \ {v} /\ v \in X \ {w}
    BY <1>7, <1>9, <2>1
  <2> HIDE DEF I, X, w
  <2>3. IsFiniteSet(X \ {w}) /\ Cardinality(X \ {w}) = Most
    <3>1. Cardinality(X \ {w}) = Cardinality(X) - 1 /\ IsFiniteSet(X \ {w})
      BY <1>6, <1>7, FS_RemoveElement
    <3> QED BY <1>6, <3>1 DEF Most
  <2>4. IsFiniteSet((X \ {w}) \ {v}) /\ Cardinality((X \ {w}) \ {v}) = Most - 1
    BY <2>2, <2>3, FS_RemoveElement
  <2>5. Cardinality(I) <= Cardinality((X \ {w}) \ {v})
    BY <2>2, <2>4, FS_Subset
  <2>6. Cardinality(I) = Most
    BY DEF I
  <2>7. Most \in Int
    BY <1>6 DEF Most
  <2> QED BY <2>4, <2>5, <2>6, <2>7
<1> QED BY <1>8, <1>9

LEMMA EntryClauseIs ==
  ASSUME NEW M, FullOf(M), set \in Settings, N > 1, Most > 0, NEW L, Gone(L),
         NEW a \in Val, NEW b \in Val
  PROVE  /\ InLits(L, a, b) = {} => EntryClause(L, a, b) = {}
         /\ InLits(L, a, b) # {} => \/ EntryClause(L, a, b) = {Neg(a, b, M[a][b])}
                                    \/ EntryClause(L, a, b) = {Pos(a, b, v) : v \in InLits(L, a, b)}
<1>1. InLits(L, a, b) = {} => EntryClause(L, a, b) = {}
  <2>1. Most # 0 /\ Cardinality({}) = 0
    BY NAssumption, FS_EmptySet DEF Most
  <2> QED BY <2>1 DEF EntryClause
<1>2. ASSUME InLits(L, a, b) # {}, Cardinality(InLits(L, a, b)) = Most
      PROVE  EntryClause(L, a, b) = {Neg(a, b, M[a][b])}
  <2>1. OpenLits(L, a, b) = {M[a][b]}
    BY <1>2, OneLeft
  <2> QED BY <1>2, <2>1 DEF EntryClause
<1>3. Cardinality(InLits(L, a, b)) # Most =>
        EntryClause(L, a, b) = {Pos(a, b, v) : v \in InLits(L, a, b)}
  BY DEF EntryClause
<1> QED BY <1>1, <1>2, <1>3

LEMMA ClauseOfLits ==
  ASSUME NEW M, FullOf(M), set \in Settings, N > 1, Most > 0, NEW L, Gone(L), L # {}
  PROVE  /\ toClause(L) # {}
         /\ \A l \in toClause(L) : Usable(l)
         /\ \A T : IsTable(T) /\ Excludes(toClause(L), T) => Avoids(T, L)
<1> DEFINE C == toClause(L)
<1>1. \A l : l \in C <=> \E a, b \in Val : l \in EntryClause(L, a, b)
  <2>1. C = UNION {EntryClause(L, e[1], e[2]) : e \in Val \X Val}
    BY ClauseByEntries
  <2> HIDE DEF C
  <2>2. \A a, b \in Val : <<a, b>> \in Val \X Val /\ <<a, b>>[1] = a /\ <<a, b>>[2] = b
    OBVIOUS
  <2>3. \A e \in Val \X Val : e[1] \in Val /\ e[2] \in Val
    OBVIOUS
  <2>4. ASSUME NEW l \in C
        PROVE  \E a, b \in Val : l \in EntryClause(L, a, b)
    <3>1. PICK e \in Val \X Val : l \in EntryClause(L, e[1], e[2])
      BY <2>1
    <3> QED BY <2>3, <3>1
  <2>5. ASSUME NEW a \in Val, NEW b \in Val, NEW l \in EntryClause(L, a, b)
        PROVE  l \in C
    <3>1. PICK e : e = <<a, b>>
      OBVIOUS
    <3>2. e \in Val \X Val /\ l \in EntryClause(L, e[1], e[2])
      BY <2>2, <3>1
    <3> QED BY <2>1, <3>2
  <2> QED BY <2>4, <2>5
<1>2. \A a, b, v : <<a, b, v>> \in L => v \in InLits(L, a, b) /\ GoneLit(a, b, v)
  BY DEF Gone, GoneLit, InLits
<1>3. \A a, b \in Val : \A v \in InLits(L, a, b) : <<a, b, v>> \in L
  BY DEF InLits
<1> HIDE DEF C
<1>4. C # {}
  <2>1. PICK a, b, v : <<a, b, v>> \in L
    <3>1. PICK t : t \in L
      OBVIOUS
    <3>2. PICK a, b, v : t = <<a, b, v>>
      BY <3>1 DEF Gone
    <3> QED BY <3>1, <3>2
  <2>2. a \in Val /\ b \in Val /\ v \in InLits(L, a, b)
    BY <1>2, <2>1 DEF GoneLit
  <2>3. EntryClause(L, a, b) # {}
    BY <2>2, EntryClauseIs
  <2> QED BY <1>1, <2>2, <2>3
<1>5. ASSUME NEW l \in C
      PROVE  Usable(l)
  <2>1. PICK a \in Val, b \in Val : l \in EntryClause(L, a, b)
    BY <1>1
  <2>2. InLits(L, a, b) # {}
    BY <2>1, EntryClauseIs
  <2>3. PICK v0 \in InLits(L, a, b) : GoneLit(a, b, v0)
    BY <1>2, <1>3, <2>2
  <2>4. dom[a][b] = {M[a][b]} /\ IsTable(M) /\ M[a][b] \in Val
    BY FullEntry DEF FullOf
  <2>5. set.smallerEncoding => diagPart /\ a # b
    BY <2>3, SettingsAssumption DEF diagPart, GoneLit
  <2>6. CASE EntryClause(L, a, b) = {Neg(a, b, M[a][b])}
    <3>1. l = Neg(a, b, M[a][b])
      BY <2>1, <2>6
    <3>2. False(l) /\ l[1] = a /\ l[2] = b /\ l[3] = M[a][b]
      BY <2>4, <3>1, LiteralsAre
    <3>3. set.smallerEncoding => M[a][b] # set.diag[a]
      <4>1. diagPart => M[a][a] = set.diag[a]
        BY <2>4 DEF IsTable, Diag
      <4>2. a # b => M[a][a] # M[a][b]
        BY <2>4 DEF IsTable, Permutes
      <4> QED BY <2>5, <4>1, <4>2
    <3> QED BY <2>5, <3>2, <3>3 DEF Usable
  <2>7. CASE EntryClause(L, a, b) = {Pos(a, b, v) : v \in InLits(L, a, b)}
    <3>1. PICK v \in InLits(L, a, b) : l = Pos(a, b, v)
      BY <2>1, <2>7
    <3>2. GoneLit(a, b, v)
      BY <1>2, <1>3
    <3>3. False(l) /\ l[1] = a /\ l[2] = b /\ l[3] = v
      BY <3>1, <3>2, LiteralsAre DEF GoneLit
    <3> QED BY <2>5, <3>2, <3>3 DEF Usable, GoneLit, OnDiag
  <2> QED BY <2>2, <2>6, <2>7, EntryClauseIs
<1>6. ASSUME NEW T, IsTable(T), Excludes(C, T), NEW a, NEW b, NEW v, <<a, b, v>> \in L
      PROVE  T[a][b] # v
  <2>1. a \in Val /\ b \in Val /\ v \in InLits(L, a, b) /\ GoneLit(a, b, v)
    BY <1>2, <1>6 DEF GoneLit
  <2>2. CASE EntryClause(L, a, b) = {Neg(a, b, M[a][b])}
    <3>1. ~ True(T, Neg(a, b, M[a][b]))
      BY <1>1, <1>6, <2>1, <2>2 DEF Excludes
    <3>2. T[a][b] = M[a][b]
      BY <3>1, LiteralsAre
    <3>3. dom[a][b] = {M[a][b]}
      BY <2>1, FullEntry
    <3> QED BY <2>1, <3>2, <3>3 DEF GoneLit
  <2>3. CASE EntryClause(L, a, b) = {Pos(a, b, u) : u \in InLits(L, a, b)}
    <3>1. ~ True(T, Pos(a, b, v))
      BY <1>1, <1>6, <2>1, <2>3 DEF Excludes
    <3> QED BY <3>1, LiteralsAre
  <2> QED BY <2>1, <2>2, <2>3, EntryClauseIs
<1>7. \A T : IsTable(T) /\ Excludes(C, T) => Avoids(T, L)
  BY <1>6 DEF Avoids
<1> QED BY <1>4, <1>5, <1>7 DEF C
-----------------------------------------------------------------------------
(* What the literals of the shorter clauses say about another table T.     *)
OffDiagonal(i, j) == i \in Val /\ j \in Val /\ (diagPart => i # j)

LEMMA OffDiagonalEntry ==
  ASSUME NEW T, IsTable(T), NEW i, NEW j, OffDiagonal(i, j)
  PROVE  T[i][j] \in Val /\ ~ OnDiag(i, T[i][j])
<1>1. T[i][j] \in Val /\ T[i][i] \in Val /\ Permutes(T[i]) /\ i \in Val /\ j \in Val
  BY DEF IsTable, OffDiagonal
<1>2. ASSUME diagPart
      PROVE  T[i][j] # set.diag[i]
  <2>1. T[i][i] = set.diag[i] /\ i # j
    BY <1>1, <1>2 DEF IsTable, Diag, OffDiagonal
  <2> QED BY <1>1, <2>1 DEF Permutes
<1> QED BY <1>1, <1>2 DEF OnDiag

LEMMA OffDiagonalImage ==
  ASSUME NEW p, Permutes(p), NEW i, NEW j, OffDiagonal(i, j)
  PROVE  OffDiagonal(p[i], p[j])
  BY DEF OffDiagonal, Permutes

LEMMA GoneBelowAvoided ==
  ASSUME NEW M, FullOf(M), NEW T, IsTable(T), NEW i, NEW j, OffDiagonal(i, j),
         Avoids(T, GoneBelow(i, j, M[i][j]))
  PROVE  M[i][j] <= T[i][j]
<1>1. T[i][j] \in Val /\ ~ OnDiag(i, T[i][j])
  BY OffDiagonalEntry
<1>2. M[i][j] \in Val /\ dom[i][j] = {M[i][j]}
  BY FullEntry DEF OffDiagonal
<1>3. PICK t \in Val, w \in Val : t = T[i][j] /\ w = M[i][j]
  BY <1>1, <1>2
<1>4. SUFFICES ASSUME t < w
               PROVE  FALSE
  BY <1>3, ValFinite
<1>5. t \notin dom[i][j] /\ ~ OnDiag(i, t)
  BY <1>1, <1>2, <1>3, <1>4, ValFinite
<1>6. <<i, j, t>> \in GoneBelow(i, j, w)
  BY <1>4, <1>5 DEF GoneBelow
<1> QED BY <1>3, <1>6 DEF Avoids

LEMMA ImagesAboveAvoided ==
  ASSUME NEW M, FullOf(M), NEW T, IsTable(T), NEW p, Permutes(p),
         NEW i, NEW j, OffDiagonal(i, j),
         Avoids(T, GoneImagesAbove(p, i, j, Ren(M, p, i, j)))
  PROVE  Ren(T, p, i, j) <= Ren(M, p, i, j)
<1>1. i \in Val /\ j \in Val /\ OffDiagonal(p[i], p[j])
  BY OffDiagonalImage DEF OffDiagonal
<1>2. PICK k \in Val, w \in Val : k = Ren(T, p, i, j) /\ w = Ren(M, p, i, j)
  BY <1>1, RenamedEntry DEF FullOf
<1>3. p[k] = T[p[i]][p[j]] /\ p[w] = M[p[i]][p[j]] /\ p[k] \in Val
  <2>1. p[Ren(T, p, i, j)] = T[p[i]][p[j]] /\ p[Ren(M, p, i, j)] = M[p[i]][p[j]]
    BY <1>1, RenamedEntry DEF FullOf
  <2> QED BY <1>2, <2>1 DEF Permutes
<1>4. ~ OnDiag(p[i], p[k])
  BY <1>1, <1>3, OffDiagonalEntry
<1>5. dom[p[i]][p[j]] = {p[w]}
  BY <1>1, <1>3 DEF FullOf, OffDiagonal
<1>6. SUFFICES ASSUME k > w
               PROVE  FALSE
  BY <1>2, ValFinite
<1>7. p[k] # p[w]
  <2>1. k # w
    BY <1>6, ValFinite
  <2> QED BY <2>1 DEF Permutes
<1>8. <<p[i], p[j], p[k]>> \in GoneImagesAbove(p, i, j, w)
  BY <1>4, <1>5, <1>6, <1>7 DEF GoneImagesAbove
<1> QED BY <1>2, <1>3, <1>8 DEF Avoids

LEMMA UnionAvoided ==
  ASSUME NEW T, NEW A, NEW B, Avoids(T, A \cup B)
  PROVE  Avoids(T, A) /\ Avoids(T, B)
  BY DEF Avoids

LEMMA NotLargerAvoided ==
  ASSUME NEW M, FullOf(M), NEW T, IsTable(T), NEW p, Permutes(p),
         NEW i, NEW j, OffDiagonal(i, j), Ren(M, p, i, j) = M[i][j],
         Avoids(T, NotLarger(p, i, j))
  PROVE  Ren(T, p, i, j) <= T[i][j]
<1>1. i \in Val /\ j \in Val
  BY DEF OffDiagonal
<1>2. PICK k \in Val, w \in Val, t \in Val :
        k = Ren(T, p, i, j) /\ w = M[i][j] /\ t = T[i][j]
  <2>1. Ren(T, p, i, j) \in Val /\ T[i][j] \in Val
    BY <1>1, RenamedEntry
  <2>2. M[i][j] \in Val
    BY <1>1, FullEntry
  <2> QED BY <2>1, <2>2
<1>3. minog(i, j) = w /\ Max(Preimages(p, i, j)) = w /\ dom[i][j] = {w}
  BY <1>1, <1>2, FullEntry, FullPreimages
<1>4. CASE p[i] # i \/ p[j] # j
  <2>1. NotLarger(p, i, j) = GoneBelow(i, j, w) \cup GoneImagesAbove(p, i, j, w)
    BY <1>3, <1>4 DEF NotLarger
  <2>2. Avoids(T, GoneBelow(i, j, w)) /\ Avoids(T, GoneImagesAbove(p, i, j, w))
    BY <2>1, UnionAvoided
  <2>3. w <= t
    BY <1>2, <2>2, GoneBelowAvoided
  <2>4. k <= w
    BY <1>2, <2>2, ImagesAboveAvoided
  <2> QED BY <1>2, <2>3, <2>4, ValFinite
<1>5. CASE p[i] = i /\ p[j] = j
  <2>1. k = Inv(p)[t] /\ w = Inv(p)[w]
    BY <1>2, <1>5 DEF Ren
  <2>2. SUFFICES ASSUME k > t
                 PROVE  FALSE
    BY <1>2, ValFinite
  <2>3. t # w
    BY <2>1, <2>2, ValFinite
  <2>4. ~ OnDiag(i, t)
    BY <1>2, OffDiagonalEntry
  <2>5. <<i, j, t>> \in NotLarger(p, i, j)
    BY <1>3, <1>5, <2>1, <2>2, <2>3, <2>4 DEF NotLarger
  <2> QED BY <1>2, <2>5 DEF Avoids
<1> QED BY <1>4, <1>5

(* All these literals are about values that are gone.                      *)
LEMMA GoneBelowGone ==
  ASSUME NEW i, NEW j, OffDiagonal(i, j), NEW m
  PROVE  Gone(GoneBelow(i, j, m))
<1> SUFFICES ASSUME NEW t \in GoneBelow(i, j, m)
             PROVE  \E a, b, v : t = <<a, b, v>> /\ GoneLit(a, b, v)
  BY DEF Gone
<1>1. PICK v \in Val : t = <<i, j, v>> /\ v \notin dom[i][j] /\ ~ OnDiag(i, v)
  BY DEF GoneBelow
<1> QED BY <1>1 DEF GoneLit, OffDiagonal

LEMMA ImagesAboveGone ==
  ASSUME NEW p, Permutes(p), NEW i, NEW j, OffDiagonal(i, j), NEW m
  PROVE  Gone(GoneImagesAbove(p, i, j, m))
<1> SUFFICES ASSUME NEW t \in GoneImagesAbove(p, i, j, m)
             PROVE  \E a, b, v : t = <<a, b, v>> /\ GoneLit(a, b, v)
  BY DEF Gone
<1>1. PICK v \in Val : /\ t = <<p[i], p[j], p[v]>> /\ p[v] \notin dom[p[i]][p[j]]
                       /\ ~ OnDiag(p[i], p[v])
  BY DEF GoneImagesAbove
<1>2. OffDiagonal(p[i], p[j]) /\ p[v] \in Val
  BY OffDiagonalImage DEF Permutes
<1> QED BY <1>1, <1>2 DEF GoneLit, OffDiagonal

LEMMA NotLargerGone ==
  ASSUME NEW p, Permutes(p), NEW i, NEW j, OffDiagonal(i, j)
  PROVE  Gone(NotLarger(p, i, j))
<1>1. CASE p[i] # i \/ p[j] # j
  <2>1. PICK A, B : /\ A = GoneBelow(i, j, Max(Preimages(p, i, j)))
                    /\ B = GoneImagesAbove(p, i, j, minog(i, j))
    OBVIOUS
  <2>2. Gone(A) /\ Gone(B)
    BY <2>1, GoneBelowGone, ImagesAboveGone
  <2>3. NotLarger(p, i, j) = A \cup B
    BY <1>1, <2>1 DEF NotLarger
  <2> QED BY <2>2, <2>3 DEF Gone
<1>2. CASE p[i] = i /\ p[j] = j
  <2> SUFFICES ASSUME NEW t \in NotLarger(p, i, j)
               PROVE  \E a, b, v : t = <<a, b, v>> /\ GoneLit(a, b, v)
    BY DEF Gone
  <2>1. PICK v \in Val : t = <<i, j, v>> /\ v \notin dom[i][j] /\ ~ OnDiag(i, v)
    BY <1>2 DEF NotLarger
  <2> QED BY <2>1 DEF GoneLit, OffDiagonal
<1> QED BY <1>1, <1>2
-----------------------------------------------------------------------------
(* A renaming p that makes entry (r, c) smaller and leaves those before it *)
(* as they are.                                                            *)
Improves(M, p, r, c) ==
  /\ Respects(Diag, p) /\ r \in Val /\ c \in Val
  /\ Ren(M, p, r, c) < M[r][c]
  /\ \A i, j \in Val : Earlier(i, j, r, c) => Ren(M, p, i, j) = M[i][j]

LEMMA ImprovesOffDiagonal ==
  ASSUME NEW M, IsTable(M), NEW p, NEW r, NEW c, Improves(M, p, r, c)
  PROVE  OffDiagonal(r, c) /\ Permutes(p)
<1>1. r \in Val /\ c \in Val /\ Permutes(p) /\ Respects(Diag, p) /\ Ren(M, p, r, c) < M[r][c]
  BY DEF Improves, Respects
<1>2. M[r][c] \in Nat
  BY <1>1, RenamedEntry, ValFinite
<1>3. diagPart => Ren(M, p, r, r) = M[r][r]
  BY <1>1, RenamedDiagonal
<1> QED BY <1>1, <1>2, <1>3 DEF OffDiagonal

(* With two points there is one table for every diagonal.                  *)
LEMMA MostPositive ==
  ASSUME NEW M, FullOf(M), set \in Settings, N > 1, NEW p, NEW r, NEW c, Improves(M, p, r, c)
  PROVE  Most > 0 /\ N \in Nat
<1>1. N \in Nat
  BY NAssumption
<1>2. CASE ~ set.smallerEncoding
  BY <1>1, <1>2 DEF Most
<1>3. CASE set.smallerEncoding
  <2>1. diagPart
    BY <1>3, SettingsAssumption DEF diagPart
  <2>2. IsTable(M) /\ OffDiagonal(r, c) /\ Permutes(p) /\ Respects(Diag, p)
    BY ImprovesOffDiagonal DEF FullOf, Improves
  <2>3. r \in Val /\ c \in Val /\ r # c
    BY <2>1, <2>2 DEF OffDiagonal
  <2>4. PICK x \in Val, y \in Val, z \in Val :
          x = M[r][c] /\ y = M[r][r] /\ z = Ren(M, p, r, c)
    BY <2>2, <2>3, RenamedEntry
  <2>5. x # y
    BY <2>2, <2>3, <2>4 DEF IsTable, Permutes
  <2>6. z # y
    <3>1. Ren(M, p, r, r) = y
      BY <2>1, <2>2, <2>3, <2>4, RenamedDiagonal
    <3>2. p[Ren(M, p, r, c)] = M[p[r]][p[c]] /\ p[Ren(M, p, r, r)] = M[p[r]][p[r]]
      BY <2>2, <2>3, RenamedEntry
    <3>3. PICK a \in Val, b \in Val : a = p[r] /\ b = p[c] /\ a # b
      BY <2>2, <2>3 DEF Permutes
    <3>4. Permutes(M[a])
      BY <2>2 DEF IsTable
    <3>5. M[a][b] # M[a][a]
      BY <3>3, <3>4 DEF Permutes
    <3> QED BY <2>4, <3>1, <3>2, <3>3, <3>5
  <2>7. z < x
    BY <2>4 DEF Improves
  <2>8. N # 2
    <3> SUFFICES ASSUME N = 2
                 PROVE  FALSE
      OBVIOUS
    <3>1. Val = {0, 1}
      BY DEF Val
    <3> QED BY <2>4, <2>5, <2>6, <2>7, <3>1
  <2> QED BY <1>1, <1>3, <2>8 DEF Most
<1> QED BY <1>1, <1>2, <1>3

LEMMA EntriesBeforeAre ==
  ASSUME NEW r, NEW c, OffDiagonal(r, c)
  PROVE  /\ \A i, j : OffDiagonal(i, j) /\ Earlier(i, j, r, c)
                        => \E e \in EntriesBefore(r, c) : e[1] = i /\ e[2] = j
         /\ \A e \in EntriesBefore(r, c) :
              OffDiagonal(e[1], e[2]) /\ Earlier(e[1], e[2], r, c)
<1>1. r \in Val /\ c \in Val /\ ~ (diagPart /\ r = c)
  BY DEF OffDiagonal
<1>2. ASSUME NEW i, NEW j, OffDiagonal(i, j), Earlier(i, j, r, c)
      PROVE  \E e \in EntriesBefore(r, c) : e[1] = i /\ e[2] = j
  <2>1. PICK e : e = <<i, j>>
    OBVIOUS
  <2>2. e \in Val \X Val /\ e[1] = i /\ e[2] = j
    BY <1>2, <2>1 DEF OffDiagonal
  <2>3. e \in EntriesBefore(r, c)
    BY <1>2, <2>2 DEF EntriesBefore, OffDiagonal, Earlier
  <2> QED BY <2>2, <2>3
<1>3. ASSUME NEW e \in EntriesBefore(r, c)
      PROVE  OffDiagonal(e[1], e[2]) /\ Earlier(e[1], e[2], r, c)
  BY <1>1 DEF EntriesBefore, OffDiagonal, Earlier
<1> QED BY <1>2, <1>3

(* An earlier entry on the diagonal is the same in all tables.             *)
LEMMA SmallerAfterAll ==
  ASSUME NEW M, FullOf(M), NEW p, NEW r, NEW c, Improves(M, p, r, c),
         NEW T, IsTable(T), Ren(T, p, r, c) < T[r][c],
         \A i, j : OffDiagonal(i, j) /\ Earlier(i, j, r, c) => Ren(T, p, i, j) <= T[i][j]
  PROVE  Reducible(T)
<1>1. Permutes(p) /\ Respects(Diag, p) /\ r \in Val /\ c \in Val
  BY DEF Improves, Respects
<1>2. ASSUME NEW i \in Val, NEW j \in Val, Earlier(i, j, r, c)
      PROVE  Ren(T, p, i, j) <= T[i][j]
  <2>1. CASE OffDiagonal(i, j)
    BY <1>2, <2>1
  <2>2. CASE ~ OffDiagonal(i, j)
    <3>1. diagPart /\ i = j
      BY <2>2 DEF OffDiagonal
    <3>2. Ren(T, p, i, i) = T[i][i]
      BY <1>1, <3>1, RenamedDiagonal
    <3>3. T[i][j] \in Nat
      BY <1>1, RenamedEntry, ValFinite
    <3> QED BY <3>1, <3>2, <3>3
  <2> QED BY <2>1, <2>2
<1>3. Less(T, p)
  BY <1>1, <1>2, FirstSmaller
<1> QED BY <1>1, <1>3 DEF Reducible

EarlierLits(p, r, c) == UNION {NotLarger(p, e[1], e[2]) : e \in EntriesBefore(r, c)}
ShortLits(p, r, c, m) ==
  EarlierLits(p, r, c)
    \cup GoneBelow(r, c, minog(r, c)) \cup GoneImagesAbove(p, r, c, m)

LEMMA ShortLitsGone ==
  ASSUME NEW M, FullOf(M), NEW p, NEW r, NEW c, Improves(M, p, r, c),
         NEW m, m = Ren(M, p, r, c)
  PROVE  Gone(ShortLits(p, r, c, m)) /\ ShortLits(p, r, c, m) # {}
<1>1. IsTable(M) /\ OffDiagonal(r, c) /\ Permutes(p)
  BY ImprovesOffDiagonal DEF FullOf
<1>2. PICK A, B, K : /\ A = EarlierLits(p, r, c)
                     /\ B = GoneBelow(r, c, minog(r, c)) /\ K = GoneImagesAbove(p, r, c, m)
  OBVIOUS
<1>3. \A e \in EntriesBefore(r, c) : Gone(NotLarger(p, e[1], e[2]))
  BY <1>1, EntriesBeforeAre, NotLargerGone
<1>4. Gone(A)
  BY <1>2, <1>3 DEF Gone, EarlierLits
<1>5. Gone(B) /\ Gone(K)
  BY <1>1, <1>2, GoneBelowGone, ImagesAboveGone
<1>6. ShortLits(p, r, c, m) = A \cup B \cup K
  BY <1>2 DEF ShortLits
<1>7. K # {}
  <2>1. r \in Val /\ c \in Val /\ OffDiagonal(p[r], p[c])
    BY <1>1, OffDiagonalImage DEF OffDiagonal
  <2>2. PICK og \in Val : og = M[r][c]
    BY <2>1, FullEntry
  <2>3. m \in Val /\ p[m] = M[p[r]][p[c]] /\ dom[p[r]][p[c]] = {p[m]} /\ m < og
    <3>1. m \in Val /\ p[m] = M[p[r]][p[c]] /\ m < og
      BY <1>1, <2>1, <2>2, RenamedEntry DEF Improves
    <3>2. dom[p[r]][p[c]] = {M[p[r]][p[c]]}
      BY <2>1 DEF FullOf, OffDiagonal
    <3> QED BY <3>1, <3>2
  <2>4. p[og] \notin dom[p[r]][p[c]]
    <3>1. og # m
      BY <2>2, <2>3, ValFinite
    <3> QED BY <1>1, <2>3, <3>1 DEF Permutes
  <2>5. ~ OnDiag(p[r], p[og])
    <3> SUFFICES ASSUME diagPart, p[og] = set.diag[p[r]]
                 PROVE  FALSE
      BY DEF OnDiag
    <3>1. Diag = set.diag /\ p[Diag[r]] = Diag[p[r]]
      BY <2>1 DEF Diag, Improves, Respects, Commutes
    <3>2. M[r][r] = Diag[r] /\ M[r][r] \in Val
      BY <1>1, <2>1 DEF IsTable
    <3>3. og = M[r][r]
      BY <1>1, <3>1, <3>2 DEF Permutes
    <3>4. Permutes(M[r]) /\ r # c
      BY <1>1, <2>1 DEF OffDiagonal, IsTable
    <3> QED BY <2>1, <2>2, <3>3, <3>4 DEF Permutes
  <2>6. og > m
    BY <2>2, <2>3, ValFinite
  <2>7. <<p[r], p[c], p[og]>> \in GoneImagesAbove(p, r, c, m)
    BY <2>4, <2>5, <2>6 DEF GoneImagesAbove
  <2> QED BY <1>2, <2>7
<1> QED BY <1>4, <1>5, <1>6, <1>7 DEF Gone

LEMMA ShortLitsAvoided ==
  ASSUME NEW M, FullOf(M), NEW p, NEW r, NEW c, Improves(M, p, r, c),
         NEW T, IsTable(T), Avoids(T, ShortLits(p, r, c, Ren(M, p, r, c)))
  PROVE  Reducible(T)
<1>1. IsTable(M) /\ OffDiagonal(r, c) /\ Permutes(p) /\ r \in Val /\ c \in Val
  BY ImprovesOffDiagonal DEF FullOf, OffDiagonal
<1>2. minog(r, c) = M[r][c]
  BY <1>1, FullEntry
<1>3. PICK A, B, K : /\ A = EarlierLits(p, r, c)
                     /\ B = GoneBelow(r, c, M[r][c])
                     /\ K = GoneImagesAbove(p, r, c, Ren(M, p, r, c))
  OBVIOUS
<1>4. ShortLits(p, r, c, Ren(M, p, r, c)) = A \cup B \cup K
  BY <1>2, <1>3 DEF ShortLits
<1>5. Avoids(T, A) /\ Avoids(T, B) /\ Avoids(T, K)
  BY <1>4 DEF Avoids
<1>6. ASSUME NEW i, NEW j, OffDiagonal(i, j), Earlier(i, j, r, c)
      PROVE  Ren(T, p, i, j) <= T[i][j]
  <2>1. Ren(M, p, i, j) = M[i][j]
    BY <1>6 DEF Improves, OffDiagonal
  <2>2. NotLarger(p, i, j) \subseteq A
    <3>1. PICK e \in EntriesBefore(r, c) : e[1] = i /\ e[2] = j
      BY <1>1, <1>6, EntriesBeforeAre
    <3>2. NotLarger(p, e[1], e[2]) \subseteq A
      BY <1>3 DEF EarlierLits
    <3> QED BY <3>1, <3>2
  <2>3. Avoids(T, NotLarger(p, i, j))
    BY <1>5, <2>2 DEF Avoids
  <2> QED BY <1>1, <1>6, <2>1, <2>3, NotLargerAvoided
<1>7. M[r][c] <= T[r][c]
  BY <1>1, <1>3, <1>5, GoneBelowAvoided
<1>8. Ren(T, p, r, c) <= Ren(M, p, r, c)
  BY <1>1, <1>3, <1>5, ImagesAboveAvoided
<1>9. Ren(T, p, r, c) < T[r][c]
  <2>1. /\ Ren(T, p, r, c) \in Nat /\ T[r][c] \in Nat
        /\ Ren(M, p, r, c) \in Nat /\ M[r][c] \in Nat
    BY <1>1, RenamedEntry, ValFinite
  <2>2. Ren(M, p, r, c) < M[r][c]
    BY DEF Improves
  <2> QED BY <1>7, <1>8, <2>1, <2>2
<1> QED BY <1>6, <1>9, SmallerAfterAll
LEMMA ShortIs ==
  ASSUME NEW p, NEW r, NEW c, NEW og \in Nat, NEW m \in Nat,
         og = minog(r, c), m = Max(Preimages(p, r, c)),
         m < og
  PROVE  addClausesShort(p, r, c) = Thrown(toClause(ShortLits(p, r, c, m)))
<1> DEFINE E == EarlierLits(p, r, c)
           pre == Preimages(p, r, c)
           bigger == {v \in dom[r][c] : v > Max(pre)}
           falling == {i \in pre : i < p[i]}
           K == GoneImagesAbove(p, r, c, Max(pre))
           one == Max(pre) >= minog(r, c) /\ Cardinality(pre) = 1
           same == /\ Max(pre) >= minog(r, c) /\ Cardinality(pre) > 1 /\ ~ Single(r, c)
                   /\ p[r] = r /\ p[c] = c
           X1 == Thrown(toClause(E \cup GoneBelow(r, c, minog(r, c)) \cup K))
           X2 == IF bigger = {} THEN Returned
                 ELSE Thrown(toClause(Negated(E \cup K, r, c, Min(bigger))))
           X3 == IF falling = {} THEN Returned
                 ELSE Thrown(toClause(Negated(E, r, c, p[Min(falling)])))
           X4 == IF Min(pre) >= minog(r, c) THEN Returned
                 ELSE Thrown(toClause(Negated(E \cup GoneBelow(r, c, minog(r, c)),
                                              p[r], p[c], p[Min(pre)])))
<1>1. addClausesShort(p, r, c) =
        CASE Max(pre) < minog(r, c) -> X1 [] one -> X2 [] same -> X3 [] OTHER -> X4
  BY DEF addClausesShort, EarlierLits
<1>2. X1 = Thrown(toClause(ShortLits(p, r, c, m)))
  BY DEF ShortLits
<1>3. ~ one /\ ~ same /\ Max(pre) < minog(r, c)
  OBVIOUS
<1> HIDE DEF X1, X2, X3, X4, one, same, pre
<1> QED BY <1>1, <1>2, <1>3

(* The shorter clauses (addClausesShort).                                  *)
LEMMA ShortClause ==
  ASSUME NEW M, FullOf(M), set \in Settings, N > 1,
         NEW p, NEW r, NEW c, Improves(M, p, r, c)
  PROVE  \E C : addClausesShort(p, r, c) = Thrown(C) /\ GoodClause(C)
<1>1. IsTable(M) /\ Permutes(p) /\ r \in Val /\ c \in Val
  BY ImprovesOffDiagonal DEF FullOf, OffDiagonal
<1>2. PICK m \in Val, og \in Val : m = Ren(M, p, r, c) /\ og = M[r][c]
  BY <1>1, RenamedEntry
<1>3. m < og /\ minog(r, c) = og /\ Max(Preimages(p, r, c)) = m
  BY <1>1, <1>2, FullEntry, FullPreimages DEF Improves
<1>4. PICK L : L = ShortLits(p, r, c, m)
  OBVIOUS
<1>5. addClausesShort(p, r, c) = Thrown(toClause(L))
  <2>1. m \in Nat /\ og \in Nat
    BY ValFinite
  <2> QED BY <1>3, <1>4, <2>1, ShortIs
<1>6. Gone(L) /\ L # {}
  BY <1>2, <1>4, ShortLitsGone
<1>7. Most > 0
  BY MostPositive
<1>8. /\ toClause(L) # {}
      /\ \A l \in toClause(L) : Usable(l)
      /\ \A T : IsTable(T) /\ Excludes(toClause(L), T) => Avoids(T, L)
  BY <1>6, <1>7, ClauseOfLits
<1>9. \A T : IsTable(T) /\ Avoids(T, L) => Reducible(T)
  BY <1>2, <1>4, ShortLitsAvoided
<1>10. GoodClause(toClause(L))
  BY <1>8, <1>9 DEF GoodClause
<1> QED BY <1>5, <1>10
-----------------------------------------------------------------------------
(* The older clauses (--oldBreaking).                                      *)
OldVals(p, r, c, above) ==
  {i \in Val : i > above /\ ~ OnDiag(r, i) /\ (r # p[r] \/ c # p[c] \/ i # p[i])}

LEMMA OldLitsAre ==
  ASSUME NEW p, NEW r, NEW c, NEW above
  PROVE  OldLits(p, r, c, above) =
           {Neg(r, c, i) : i \in {j \in OldVals(p, r, c, above) : dom[r][c] = {j}}}
             \cup {Pos(p[r], p[c], p[i]) :
                     i \in {j \in OldVals(p, r, c, above) : p[j] \notin dom[p[r]][p[c]]}}
  BY DEF OldLits, OldVals, Pos, Neg

LEMMA OldLitsUsable ==
  ASSUME set \in Settings, NEW p, Respects(Diag, p), NEW i, NEW j, OffDiagonal(i, j), NEW above,
         NEW l \in OldLits(p, i, j, above)
  PROVE  Usable(l)
<1>1. Permutes(p) /\ i \in Val /\ j \in Val /\ OffDiagonal(p[i], p[j])
  BY OffDiagonalImage DEF Respects, OffDiagonal
<1>2. set.smallerEncoding => diagPart /\ Diag = set.diag /\ i # j /\ p[i] # p[j]
  BY <1>1, SettingsAssumption DEF diagPart, Diag, OffDiagonal
<1>3. ASSUME NEW v \in OldVals(p, i, j, above), dom[i][j] = {v}, l = Neg(i, j, v)
      PROVE  Usable(l)
  <2>1. False(l) /\ l[1] = i /\ l[2] = j /\ l[3] = v
    BY <1>3, LiteralsAre
  <2> QED BY <1>2, <2>1 DEF Usable, OldVals, OnDiag
<1>4. ASSUME NEW v \in OldVals(p, i, j, above), p[v] \notin dom[p[i]][p[j]],
             l = Pos(p[i], p[j], p[v])
      PROVE  Usable(l)
  <2>1. False(l) /\ l[1] = p[i] /\ l[2] = p[j] /\ l[3] = p[v]
    BY <1>4, LiteralsAre
  <2>2. set.smallerEncoding => p[v] # set.diag[p[i]]
    <3> SUFFICES ASSUME set.smallerEncoding, p[v] = set.diag[p[i]]
                 PROVE  FALSE
      OBVIOUS
    <3>1. diagPart /\ Diag = set.diag /\ Diag[i] \in Val
      BY <1>1, <1>2, SettingsAssumption DEF Setting, diagPart
    <3>2. p[Diag[i]] = Diag[p[i]]
      BY <1>1 DEF Respects, Commutes
    <3>3. v = Diag[i]
      BY <1>1, <3>1, <3>2 DEF Permutes, OldVals
    <3> QED BY <3>1, <3>3 DEF OldVals, OnDiag
  <2> QED BY <1>2, <2>1, <2>2 DEF Usable
<1>5. l \in {Neg(i, j, v) : v \in {w \in OldVals(p, i, j, above) : dom[i][j] = {w}}}
       \/ l \in {Pos(p[i], p[j], p[v]) :
                   v \in {w \in OldVals(p, i, j, above) : p[w] \notin dom[p[i]][p[j]]}}
  BY OldLitsAre
<1>6. \/ \E v \in OldVals(p, i, j, above) : dom[i][j] = {v} /\ l = Neg(i, j, v)
      \/ \E v \in OldVals(p, i, j, above) :
           p[v] \notin dom[p[i]][p[j]] /\ l = Pos(p[i], p[j], p[v])
  BY <1>5
<1> QED BY <1>3, <1>4, <1>6

(* An earlier entry and its image keep their values, or both are renamed   *)
(* to themselves.                                                          *)
LEMMA OldLitsExcluded ==
  ASSUME NEW M, FullOf(M), NEW T, IsTable(T), NEW p, Respects(Diag, p),
         NEW i, NEW j, OffDiagonal(i, j), Ren(M, p, i, j) = M[i][j],
         Excludes(OldLits(p, i, j, -1), T)
  PROVE  Ren(T, p, i, j) = T[i][j]
<1>1. Permutes(p) /\ i \in Val /\ j \in Val /\ OffDiagonal(p[i], p[j])
  BY OffDiagonalImage DEF Respects, OffDiagonal
<1>2. PICK w \in Val, t \in Val, k \in Val :
        w = M[i][j] /\ t = T[i][j] /\ k = Ren(T, p, i, j)
  <2>1. M[i][j] \in Val
    BY <1>1, FullEntry
  <2>2. T[i][j] \in Val /\ Ren(T, p, i, j) \in Val
    BY <1>1, RenamedEntry
  <2> QED BY <2>1, <2>2
<1>3. p[w] = M[p[i]][p[j]] /\ dom[p[i]][p[j]] = {p[w]} /\ dom[i][j] = {w} /\ ~ OnDiag(i, w)
  <2>1. p[Ren(M, p, i, j)] = M[p[i]][p[j]] /\ ~ OnDiag(i, M[i][j])
    <3>1. IsTable(M)
      BY DEF FullOf
    <3>2. \A a, b \in Val : p[Ren(M, p, a, b)] = M[p[a]][p[b]]
      BY <1>1, <3>1, RenamedEntry
    <3>3. p[Ren(M, p, i, j)] = M[p[i]][p[j]]
      BY <1>1, <3>2
    <3> QED BY <3>1, <3>3, OffDiagonalEntry
  <2>2. dom[i][j] = {M[i][j]} /\ dom[p[i]][p[j]] = {M[p[i]][p[j]]}
    BY <1>1, FullEntry DEF OffDiagonal
  <2> QED BY <1>2, <2>1, <2>2
<1>4. p[k] = T[p[i]][p[j]] /\ ~ OnDiag(p[i], p[k])
  <2>1. p[Ren(T, p, i, j)] = T[p[i]][p[j]] /\ ~ OnDiag(p[i], T[p[i]][p[j]])
    BY <1>1, RenamedEntry, OffDiagonalEntry
  <2> QED BY <1>2, <2>1
<1> DEFINE W == OldVals(p, i, j, -1)
           Moves(v) == i # p[i] \/ j # p[j] \/ v # p[v]
<1>5. \A v \in Val : v \in W <=> ~ OnDiag(i, v) /\ Moves(v)
  <2>1. \A v \in Val : v > -1
    BY ValFinite
  <2> QED BY <2>1 DEF OldVals
<1>6. w \in W => t = w
  <2> SUFFICES ASSUME w \in W
               PROVE  t = w
    OBVIOUS
  <2>1. Neg(i, j, w) \in {Neg(i, j, v) : v \in {u \in W : dom[i][j] = {u}}}
    BY <1>3
  <2>2. Neg(i, j, w) \in OldLits(p, i, j, -1)
    BY <2>1, OldLitsAre
  <2>3. ~ True(T, Neg(i, j, w))
    BY <2>2 DEF Excludes
  <2> QED BY <1>2, <2>3, LiteralsAre
<1>7. ASSUME NEW v \in W, v # w
      PROVE  p[k] # p[v]
  <2>1. v \in Val /\ p[v] # p[w]
    BY <1>1, <1>7 DEF OldVals, Permutes
  <2>2. Pos(p[i], p[j], p[v]) \in
          {Pos(p[i], p[j], p[u]) : u \in {x \in W : p[x] \notin dom[p[i]][p[j]]}}
    BY <1>3, <2>1
  <2>3. Pos(p[i], p[j], p[v]) \in OldLits(p, i, j, -1)
    BY <2>2, OldLitsAre
  <2>4. ~ True(T, Pos(p[i], p[j], p[v]))
    BY <2>3 DEF Excludes
  <2> QED BY <1>4, <2>4, LiteralsAre
<1>8. ~ OnDiag(i, k)
  <2> SUFFICES ASSUME diagPart, k = set.diag[i]
               PROVE  FALSE
    BY DEF OnDiag
  <2>1. Diag = set.diag /\ p[Diag[i]] = Diag[p[i]]
    BY <1>1 DEF Diag, Respects, Commutes
  <2> QED BY <1>4, <2>1 DEF OnDiag
<1> HIDE DEF W
<1>9. CASE i # p[i] \/ j # p[j]
  <2>1. w \in W /\ k \in W
    BY <1>3, <1>5, <1>8, <1>9
  <2>2. k = w
    BY <1>7, <2>1
  <2> QED BY <1>2, <1>6, <2>1, <2>2
<1>10. CASE i = p[i] /\ j = p[j]
  <2>1. p[w] = w /\ p[k] = t
    BY <1>2, <1>3, <1>4, <1>10
  <2>2. p[k] = k
    <3> SUFFICES ASSUME p[k] # k
                 PROVE  FALSE
      OBVIOUS
    <3>1. k \in W /\ k # w
      BY <1>5, <1>8, <2>1
    <3> QED BY <1>7, <3>1
  <2> QED BY <1>2, <2>1, <2>2
<1> QED BY <1>9, <1>10
EarlierOldLits(p, r, c) == UNION {OldLits(p, e[1], e[2], -1) : e \in EntriesBefore(r, c)}
OldClauseOf(p, r, c, og, m) ==
  EarlierOldLits(p, r, c) \cup OldLits(p, r, c, og)
    \cup {Neg(r, c, og)} \cup {Neg(p[r], p[c], p[m])}

LEMMA OldIs ==
  ASSUME NEW p, NEW r, NEW c, NEW og, NEW m, OffDiagonal(r, c), Single(r, c),
         og = minog(r, c), Cardinality(Preimages(p, r, c)) = 1, m = Min(Preimages(p, r, c))
  PROVE  addClausesOld(p, r, c) = Thrown(OldClauseOf(p, r, c, og, m))
<1> DEFINE pre == Preimages(p, r, c)
           E == EarlierOldLits(p, r, c)
           lits == E \cup (IF Single(r, c) /\ ~ (diagPart /\ r = c)
                           THEN OldLits(p, r, c, minog(r, c)) ELSE {})
           notOg == {<<r, c, minog(r, c), FALSE>>}
           notImage(i) == {<<p[r], p[c], p[i], FALSE>>}
           gone == {<<r, c, i, TRUE>> : i \in {j \in Val \ dom[r][c] : ~ OnDiag(r, j)}}
           falling == {i \in pre : i < p[i]}
           c1 == Single(r, c) /\ Cardinality(pre) = 1
           c2 == ~ Single(r, c) /\ Cardinality(pre) = 1
           c3 == Single(r, c) /\ Cardinality(pre) > 1
           c4 == ~ Single(r, c) /\ Cardinality(pre) > 1 /\ p[r] = r /\ p[c] = c
           X1 == Thrown(lits \cup notOg \cup notImage(Min(pre)))
           X2 == IF minog(r, c) > Min(pre) THEN X1 ELSE Returned
           X3 == IF Min(pre) < minog(r, c) THEN X1 ELSE Returned
           X4 == IF falling # {} THEN Thrown(lits \cup notImage(Min(falling)))
                 ELSE Returned
           X5 == IF Min(pre) < minog(r, c)
                 THEN Thrown(lits \cup gone \cup notImage(Min(pre))) ELSE Returned
<1>1. addClausesOld(p, r, c) =
        CASE c1 -> X1 [] c2 -> X2 [] c3 -> X3 [] c4 -> X4 [] OTHER -> X5
  BY DEF addClausesOld, EarlierOldLits
<1>2. X1 = Thrown(OldClauseOf(p, r, c, og, m))
  <2>1. Single(r, c) /\ ~ (diagPart /\ r = c)
    BY DEF OffDiagonal
  <2>2. lits = E \cup OldLits(p, r, c, og)
    BY <2>1
  <2> HIDE DEF lits, E
  <2>3. notOg = {Neg(r, c, og)} /\ notImage(Min(pre)) = {Neg(p[r], p[c], p[m])}
    BY DEF Neg
  <2> HIDE DEF notOg, notImage
  <2> QED BY <2>2, <2>3 DEF OldClauseOf, E
<1>3. c1 /\ ~ c2 /\ ~ c3 /\ ~ c4
  OBVIOUS
<1> HIDE DEF X1, X2, X3, X4, X5, c1, c2, c3, c4
<1> QED BY <1>1, <1>2, <1>3

LEMMA OldClauseUsable ==
  ASSUME NEW M, FullOf(M), set \in Settings, NEW p, NEW r, NEW c, Improves(M, p, r, c),
         NEW l \in OldClauseOf(p, r, c, M[r][c], Ren(M, p, r, c))
  PROVE  Usable(l)
<1>1. /\ IsTable(M) /\ OffDiagonal(r, c) /\ Permutes(p) /\ r \in Val /\ c \in Val
      /\ Respects(Diag, p) /\ OffDiagonal(p[r], p[c])
  BY ImprovesOffDiagonal, OffDiagonalImage DEF FullOf, OffDiagonal, Improves
<1>2. set.smallerEncoding => diagPart /\ r # c /\ p[r] # p[c]
  BY <1>1, SettingsAssumption DEF diagPart, OffDiagonal
<1>3. CASE l \in EarlierOldLits(p, r, c)
  <2>1. PICK e \in EntriesBefore(r, c) : l \in OldLits(p, e[1], e[2], -1)
    BY <1>3 DEF EarlierOldLits
  <2>2. OffDiagonal(e[1], e[2])
    BY <1>1, EntriesBeforeAre
  <2> QED BY <1>1, <2>1, <2>2, OldLitsUsable
<1>4. CASE l \in OldLits(p, r, c, M[r][c])
  BY <1>1, <1>4, OldLitsUsable
<1>5. ASSUME NEW a, NEW b, OffDiagonal(a, b), l = Neg(a, b, M[a][b])
      PROVE  Usable(l)
  <2>1. False(l) /\ l[1] = a /\ l[2] = b /\ l[3] = M[a][b]
    BY <1>5, FullEntry, LiteralsAre DEF OffDiagonal
  <2>2. ~ OnDiag(a, M[a][b])
    BY <1>1, <1>5, OffDiagonalEntry
  <2>3. set.smallerEncoding => a # b /\ M[a][b] # set.diag[a]
    BY <1>2, <1>5, <2>2 DEF OffDiagonal, OnDiag
  <2> QED BY <2>1, <2>3 DEF Usable
<1>6. p[Ren(M, p, r, c)] = M[p[r]][p[c]]
  BY <1>1, RenamedEntry
<1>7. \/ l \in EarlierOldLits(p, r, c) \/ l \in OldLits(p, r, c, M[r][c])
      \/ l = Neg(r, c, M[r][c]) \/ l = Neg(p[r], p[c], M[p[r]][p[c]])
  BY <1>6 DEF OldClauseOf
<1> QED BY <1>1, <1>3, <1>4, <1>5, <1>7

LEMMA OldClauseExcludes ==
  ASSUME NEW M, FullOf(M), NEW p, NEW r, NEW c, Improves(M, p, r, c), NEW T, IsTable(T),
         Excludes(OldClauseOf(p, r, c, M[r][c], Ren(M, p, r, c)), T)
  PROVE  Reducible(T)
<1>1. /\ IsTable(M) /\ OffDiagonal(r, c) /\ Permutes(p) /\ r \in Val /\ c \in Val
      /\ Respects(Diag, p)
  BY ImprovesOffDiagonal DEF FullOf, OffDiagonal, Improves
<1>2. PICK C : C = OldClauseOf(p, r, c, M[r][c], Ren(M, p, r, c))
  OBVIOUS
<1>3. /\ EarlierOldLits(p, r, c) \subseteq C /\ Neg(r, c, M[r][c]) \in C
      /\ Neg(p[r], p[c], p[Ren(M, p, r, c)]) \in C
  BY <1>2 DEF OldClauseOf
<1>4. \A l \in C : ~ True(T, l)
  BY <1>2 DEF Excludes
<1>5. ASSUME NEW i, NEW j, OffDiagonal(i, j), Earlier(i, j, r, c)
      PROVE  Ren(T, p, i, j) <= T[i][j]
  <2>1. PICK e \in EntriesBefore(r, c) : e[1] = i /\ e[2] = j
    BY <1>1, <1>5, EntriesBeforeAre
  <2>2. OldLits(p, e[1], e[2], -1) \subseteq EarlierOldLits(p, r, c)
    BY DEF EarlierOldLits
  <2>3. Excludes(OldLits(p, i, j, -1), T)
    BY <1>3, <1>4, <2>1, <2>2 DEF Excludes
  <2>4. i \in Val /\ j \in Val /\ Ren(M, p, i, j) = M[i][j]
    BY <1>5 DEF Improves, OffDiagonal
  <2>5. Ren(T, p, i, j) = T[i][j]
    BY <1>1, <1>5, <2>3, <2>4, OldLitsExcluded
  <2>6. T[i][j] \in Nat
    BY <2>4, <1>1, RenamedEntry, ValFinite
  <2> QED BY <2>5, <2>6
<1>6. T[r][c] = M[r][c] /\ T[p[r]][p[c]] = p[Ren(M, p, r, c)]
  <2>1. ~ True(T, Neg(r, c, M[r][c])) /\ ~ True(T, Neg(p[r], p[c], p[Ren(M, p, r, c)]))
    BY <1>3, <1>4
  <2> QED BY <2>1, LiteralsAre
<1>7. Ren(T, p, r, c) = Ren(M, p, r, c)
  <2>1. PICK m \in Val : m = Ren(M, p, r, c)
    BY <1>1, RenamedEntry
  <2>2. \A z \in Val : p[z] = T[p[r]][p[c]] => z = Ren(T, p, r, c)
    BY <1>1, RenamedEntry
  <2> QED BY <1>6, <2>1, <2>2
<1>8. Ren(T, p, r, c) < T[r][c]
  BY <1>6, <1>7 DEF Improves
<1> QED BY <1>5, <1>8, SmallerAfterAll

LEMMA OldClause ==
  ASSUME NEW M, FullOf(M), set \in Settings,
         NEW p, NEW r, NEW c, Improves(M, p, r, c)
  PROVE  \E C : addClausesOld(p, r, c) = Thrown(C) /\ GoodClause(C)
<1>1. OffDiagonal(r, c) /\ Permutes(p) /\ r \in Val /\ c \in Val
  BY ImprovesOffDiagonal DEF FullOf, OffDiagonal
<1>2. PICK C : C = OldClauseOf(p, r, c, M[r][c], Ren(M, p, r, c))
  OBVIOUS
<1>3. PICK og, m : og = M[r][c] /\ m = Ren(M, p, r, c)
  OBVIOUS
<1>4. /\ minog(r, c) = og /\ Single(r, c) /\ Min(Preimages(p, r, c)) = m
      /\ Cardinality(Preimages(p, r, c)) = 1
  BY <1>1, <1>3, FullEntry, FullPreimages
<1>5. addClausesOld(p, r, c) = Thrown(OldClauseOf(p, r, c, og, m))
  BY <1>1, <1>4, OldIs
<1>6. Neg(r, c, M[r][c]) \in C
  BY <1>2 DEF OldClauseOf
<1>7. GoodClause(C)
  <2>1. \A l \in C : Usable(l)
    BY <1>2, OldClauseUsable
  <2>2. \A T : IsTable(T) /\ Excludes(C, T) => Reducible(T)
    BY <1>2, OldClauseExcludes
  <2> QED BY <1>6, <2>1, <2>2 DEF GoodClause
<1> QED BY <1>2, <1>3, <1>5, <1>7

(* Either way a good clause is thrown.                                     *)
LEMMA ClauseThrown ==
  ASSUME NEW M, FullOf(M), set \in Settings, N > 1,
         NEW p, NEW r, NEW c, Improves(M, p, r, c)
  PROVE  \E C : addClauses(p, r, c) = Thrown(C) /\ GoodClause(C)
<1>1. Permutes(p)
  BY ImprovesOffDiagonal DEF FullOf
<1>2. IsPerm(p)
  BY <1>1 DEF IsPerm, Permutes
<1>3. CASE set.oldBreakingClauses
  <2>1. addClauses(p, r, c) = addClausesOld(p, r, c)
    BY <1>2, <1>3 DEF addClauses
  <2> QED BY <2>1, OldClause
<1>4. CASE ~ set.oldBreakingClauses
  <2>1. addClauses(p, r, c) = addClausesShort(p, r, c)
    BY <1>2, <1>4 DEF addClauses
  <2> QED BY <2>1, ShortClause
<1> QED BY <1>3, <1>4
-----------------------------------------------------------------------------
(* The permutations of a check of a full table.  Sane(p) holds for those   *)
(* that only calls for choices on offer have led to, and Fits(p, q) says   *)
(* that p can still become the renaming q.                                 *)
Ready ==
  /\ DiagonalsBuilt /\ set \in Settings
  /\ diagIsId \in BOOLEAN /\ (diagIsId => Diag = Identity) /\ (~ diagPart => diagIsId)

Stands(p, h, F) == Sound(Diag, h, F) /\ p = As(Kind, Diag, h, F)
Sane(p) == \E h, F : Stands(p, h, F)

Fits(p, q) == Respects(Diag, q) /\ \A x \in Val : fixed(p, x) => q[x] = permOf(p, x)

Narrowed(p, t, el, v) ==
  /\ Sane(t) /\ fixed(t, el)
  /\ \A x \in Val : fixed(p, x) => fixed(t, x)
  /\ \A q : Fits(t, q) <=> Fits(p, q) /\ q[el] = v

LEMMA StandsFacts ==
  ASSUME Ready, NEW p, NEW h, NEW F, Stands(p, h, F)
  PROVE  /\ Diag \in [Val -> Val] /\ Adjacent(Diag) /\ Follows(Diag, CycleStarts(Diag))
         /\ CycleStarts(Diag) \in SUBSET Val /\ Kind \in Kinds
         /\ F \in SUBSET Val /\ Filled(Diag, F) /\ Within(Diag, h) /\ Permutes(h)
         /\ p = As(Kind, Diag, h, F) /\ Sound(Diag, h, F)
<1>1. Built(Diag, CycleStarts(Diag)) /\ Kind \in Kinds
  BY DiagBuilt DEF Ready
<1> QED BY <1>1 DEF Built, Stands, Sound, Within

LEMMA StandsFixed ==
  ASSUME Ready, NEW p, NEW h, NEW F, Stands(p, h, F), NEW x \in Val
  PROVE  /\ fixed(p, x) <=> Room(Diag, F, x) = {x}
         /\ permOf(p, x) = IF Room(Diag, F, x) = {x} THEN h[x] ELSE None
  BY StandsFacts, AsFixed

LEMMA FitsIs ==
  ASSUME Ready, NEW p, NEW h, NEW F, Stands(p, h, F), NEW q
  PROVE  Fits(p, q) <=> Completes(Diag, q, h, F)
<1>1. /\ Diag \in [Val -> Val] /\ Within(Diag, h) /\ F \in SUBSET Val
  BY StandsFacts
<1>2. ASSUME Fits(p, q)
      PROVE  Completes(Diag, q, h, F)
  <2>1. ASSUME NEW x \in F
        PROVE  q[x] = h[x]
    <3>1. x \in Val /\ Room(Diag, F, x) = {x}
      BY <1>1 DEF Room
    <3>2. fixed(p, x) /\ permOf(p, x) = h[x]
      BY <3>1, StandsFixed
    <3> QED BY <1>2, <3>1, <3>2 DEF Fits
  <2> QED BY <1>2, <2>1 DEF Fits, Completes
<1>3. ASSUME Completes(Diag, q, h, F)
      PROVE  Fits(p, q)
  <2>1. ASSUME NEW x \in Val, fixed(p, x)
        PROVE  q[x] = permOf(p, x)
    <3>1. Room(Diag, F, x) = {x} /\ permOf(p, x) = h[x]
      BY <2>1, StandsFixed
    <3>2. q[x] = h[x]
      BY <1>1, <1>3, <3>1, CompletesForced
    <3> QED BY <3>1, <3>2
  <2> QED BY <1>3, <2>1 DEF Fits, Completes
<1> QED BY <1>2, <1>3

LEMMA StandsForItself ==
  ASSUME Ready, NEW p, NEW h, NEW F, Stands(p, h, F)
  PROVE  Fits(p, h) /\ Respects(Diag, h)
<1>1. Sound(Diag, h, F)
  BY DEF Stands
<1>2. Completes(Diag, h, h, F) /\ Respects(Diag, h)
  BY <1>1, CompletesItself
<1> QED BY <1>2, FitsIs

(* The initial permutation leaves everything open.                         *)
LEMMA StartIsSane ==
  ASSUME Ready
  PROVE  Sane(InitialPart(set)) /\ \A q : Respects(Diag, q) => Fits(InitialPart(set), q)
<1>1. Stands(InitialPart(set), Identity, {})
  BY DiagBuilt DEF Ready, Stands
<1>2. \A q : Respects(Diag, q) => Completes(Diag, q, Identity, {})
  BY DEF Completes
<1> QED BY <1>1, <1>2, FitsIs DEF Sane

LEMMA SaneFits ==
  ASSUME Ready, NEW p, Sane(p)
  PROVE  \E q : Fits(p, q)
  BY StandsForItself DEF Sane

LEMMA ImageKnown ==
  ASSUME Ready, NEW p, Sane(p), NEW x \in Val, fixed(p, x)
  PROVE  /\ permOf(p, x) \in Val /\ permOf(p, x) # None
         /\ \A q : Fits(p, q) => q[x] = permOf(p, x)
<1>1. PICK q : Fits(p, q)
  BY SaneFits
<1>2. q[x] \in Val /\ q[x] = permOf(p, x)
  BY <1>1 DEF Fits, Respects, Permutes
<1>3. None \notin Val
  BY ValFinite DEF None
<1> QED BY <1>2, <1>3 DEF Fits

LEMMA FitsOffered ==
  ASSUME Ready, NEW p, Sane(p), NEW q, Fits(p, q), NEW x \in Val
  PROVE  q[x] \in Offered(p, x)
<1>1. PICK h, F : Stands(p, h, F)
  BY DEF Sane
<1>2. Completes(Diag, q, h, F)
  BY <1>1, FitsIs
<1>3. PICK y \in Room(Diag, F, x) : q[x] = h[y]
  <2>1. PICK d : d = Diag /\ d \in [Val -> Val] /\ Within(d, h) /\ F \in SUBSET Val
    BY <1>1, StandsFacts
  <2>2. Completes(d, q, h, F)
    BY <1>2, <2>1
  <2>3. \E y \in Room(d, F, x) : q[x] = h[y]
    BY <2>1, <2>2, CompletesWithin
  <2> QED BY <2>1, <2>3
<1>4. Offered(p, x) = {h[z] : z \in Room(Diag, F, x)}
  BY <1>1, StandsFacts, AsOptions
<1> QED BY <1>3, <1>4

LEMMA OfferedFixed ==
  ASSUME Ready, NEW p, Sane(p), NEW x \in Val, fixed(p, x)
  PROVE  Offered(p, x) = {permOf(p, x)}
<1>1. PICK h, F : Stands(p, h, F)
  BY DEF Sane
<1>2. Room(Diag, F, x) = {x} /\ permOf(p, x) = h[x]
  BY <1>1, StandsFixed
<1>3. Offered(p, x) = {h[z] : z \in Room(Diag, F, x)}
  BY <1>1, StandsFacts, AsOptions
<1> QED BY <1>2, <1>3

LEMMA OptionsAreSeq ==
  ASSUME Ready, NEW p, Sane(p), NEW x \in Val
  PROVE  IsSeq(options(p, x)) /\ options(p, x)[1] \in Offered(p, x)
<1>1. PICK h, F : Stands(p, h, F)
  BY DEF Sane
<1>2. /\ Kind \in Kinds /\ p = As(Kind, Diag, h, F) /\ F \in SUBSET Val
      /\ Parts(Diag, F) \in SUBSET Nat
  BY <1>1, StandsFacts, PartsStart, ValFinite
<1>3. \E n \in Nat : options(p, x) = [k \in 1..n |-> options(p, x)[k]]
  <2>1. CASE Kind = "plain"
    <3>1. p.kind = "plain" /\ p.part = Parts(Diag, F)
      BY <1>2, <2>1 DEF As
    <3>2. PICK ring, n : n \in Nat /\ ring = Ring(p.part, x) /\ ring \in [1..n -> Val]
      <4>1. PICK S \in SUBSET Nat : S = p.part
        BY <1>2, <3>1
      <4>2. PICK n \in Nat \ {0} : Ring(S, x) \in [1..n -> Val]
        BY RingOfPoints
      <4> QED BY <4>1, <4>2
    <3>3. options(p, x) = [k \in DOMAIN ring |-> p.element[ring[k]]]
      BY <3>1, <3>2 DEF options, PlainOptions
    <3>4. DOMAIN ring = 1..n
      BY <3>2
    <3>5. PICK s : s = options(p, x) /\ s = [k \in 1..n |-> p.element[ring[k]]]
      BY <3>3, <3>4
    <3>6. s = [k \in 1..n |-> s[k]]
      BY <3>5
    <3> QED BY <3>2, <3>5, <3>6
  <2>2. CASE Kind = "bit"
    <3>1. p.kind = "bit" /\ p.info = [z \in Val |-> Images(Diag, h, F, z)]
      BY <1>2, <2>2 DEF As
    <3>2. p.info[x] \subseteq Val
      BY <1>1, <3>1, StandsFacts, Classes DEF Images, Permutes
    <3>3. Cardinality(p.info[x]) \in Nat
      BY <3>2, ValFinite, FS_Subset, FS_CardinalityType
    <3>4. options(p, x) = Ascending(p.info[x])
      BY <3>1 DEF options
    <3>5. options(p, x) = [k \in 1..Cardinality(p.info[x]) |-> options(p, x)[k]]
      <4> DEFINE e(k) == CHOOSE z \in p.info[x] : Cardinality({y \in p.info[x] : y < z}) = k - 1
      <4>1. options(p, x) = [k \in 1..Cardinality(p.info[x]) |-> e(k)]
        BY <3>4 DEF Ascending
      <4> HIDE DEF e
      <4> QED BY <4>1
    <3> QED BY <3>3, <3>5
  <2> QED BY <1>2, <2>1, <2>2 DEF Kinds
<1>9. PICK n \in Nat : options(p, x) = [k \in 1..n |-> options(p, x)[k]]
  BY <1>3
<1>4. PICK s : s = options(p, x) /\ s = [k \in 1..n |-> s[k]]
  BY <1>9
<1>5. IsSeq(s) /\ DOMAIN s = 1..n
  BY <1>4 DEF IsSeq
<1>6. PICK q : Fits(p, q)
  BY SaneFits
<1>7. Offered(p, x) # {} /\ Offered(p, x) = {s[k] : k \in 1..n}
  BY <1>4, <1>5, <1>6, FitsOffered DEF Offered
<1>8. 1 \in 1..n
  BY <1>7
<1> QED BY <1>4, <1>5, <1>7, <1>8

(* A call of fixAndPropagate for a choice on offer leaves what fits it.    *)
LEMMA CallNarrows ==
  ASSUME Ready, NEW p, NEW h, NEW F, Stands(p, h, F), NEW el, NEW y,
         MayDecide(Diag, CycleStarts(Diag), h, F, el, y)
  PROVE  /\ FixAndPropagate(p, el, h[y]).ok
         /\ Narrowed(p, FixAndPropagate(p, el, h[y]).perm, el, h[y])
<1>1. PICK d, S, b, i : d = Diag /\ S = CycleStarts(Diag) /\ b = below /\ i = diagIsId
  OBVIOUS
<1>2. /\ d \in [Val -> Val] /\ Within(d, h) /\ F \in SUBSET Val /\ Kind \in Kinds
      /\ p = As(Kind, d, h, F) /\ Follows(d, S) /\ S \in SUBSET Val
  BY <1>1, StandsFacts
<1>3. PICK g : Decided(d, S, h, F, el, y, b, i, g)
  BY <1>1, CallDecides DEF Ready
<1>4. PICK G : G = F \cup CycleOf(d, el)
  OBVIOUS
<1>5. /\ Sound(d, g, G) /\ (\A x \in F : g[x] = h[x]) /\ g[el] = h[y]
      /\ fixAndPropagate(p, el, h[y], S, b, i) = [perm |-> As(Kind, d, g, G), ok |-> TRUE]
  BY <1>2, <1>3, <1>4 DEF Decided
<1>6. FixAndPropagate(p, el, h[y]) = fixAndPropagate(p, el, h[y], S, b, i)
  <2>1. CASE diagPart
    BY <1>1, <2>1, DiagBuilt DEF Ready, FixAndPropagate
  <2>2. CASE ~diagPart
    <3>1. i = TRUE
      BY <1>1, <2>2 DEF Ready
    <3> QED BY <1>1, <3>1 DEF FixAndPropagate, fixAndPropagate, PropagateFixed
  <2> QED BY <2>1, <2>2
<1>7. PICK t : t = As(Kind, d, g, G)
  OBVIOUS
<1>8. FixAndPropagate(p, el, h[y]).perm = t /\ FixAndPropagate(p, el, h[y]).ok
  BY <1>5, <1>6, <1>7
<1>9. Stands(t, g, G)
  BY <1>1, <1>5, <1>7 DEF Stands
<1>10. el \in Val /\ el \in G
  <2>1. el \in Val
    BY DEF MayDecide
  <2> QED BY <1>2, <1>4, <2>1, CycleFacts
<1>11. ASSUME NEW x \in Val, fixed(p, x)
       PROVE  fixed(t, x)
  <2>1. Room(d, F, x) = {x}
    BY <1>1, <1>11, StandsFixed
  <2>2. x \in ClassOf(d, x)
    BY Classes
  <2>3. Room(d, G, x) = {x}
    BY <1>4, <2>1, <2>2 DEF Room
  <2> QED BY <1>1, <1>9, <2>3, StandsFixed
<1>12. fixed(t, el)
  <2>1. Room(d, G, el) = {el}
    BY <1>10 DEF Room
  <2> QED BY <1>1, <1>9, <1>10, <2>1, StandsFixed
<1>13. ASSUME NEW q
       PROVE  Fits(t, q) <=> Fits(p, q) /\ q[el] = h[y]
  <2>1. /\ Fits(t, q) <=> Completes(d, q, g, G)
        /\ Fits(p, q) <=> Completes(d, q, h, F)
    BY <1>1, <1>9, FitsIs
  <2>2. ASSUME Completes(d, q, g, G)
        PROVE  Completes(d, q, h, F) /\ q[el] = h[y]
    BY <1>4, <1>5, <1>10, <2>2 DEF Completes
  <2>3. ASSUME Completes(d, q, h, F), q[el] = h[y]
        PROVE  Completes(d, q, g, G)
    <3>1. Respects(d, g)
      BY <1>5, CompletesItself
    <3>2. q[el] = g[el]
      BY <1>5, <2>3
    <3>3. Completes(d, q, g, F \cup CycleOf(d, el))
      BY <1>2, <1>5, <1>10, <2>3, <3>1, <3>2, CompletesAlong
    <3> QED BY <1>4, <3>3
  <2> QED BY <2>1, <2>2, <2>3
<1>14. Sane(t)
  BY <1>9 DEF Sane
<1> QED BY <1>8, <1>11, <1>12, <1>13, <1>14 DEF Narrowed

(* A row without an image, after rows that have one, is the first          *)
(* undecided point of its class.                                           *)
LEMMA RowNarrows ==
  ASSUME Ready, NEW p, Sane(p), NEW r \in Val, ~ fixed(p, r),
         \A x \in Val : x < r => fixed(p, x), NEW v \in Offered(p, r)
  PROVE  /\ FixAndPropagate(p, r, v).ok
         /\ Narrowed(p, FixAndPropagate(p, r, v).perm, r, v)
<1>1. PICK h, F : Stands(p, h, F)
  BY DEF Sane
<1>2. PICK d : d = Diag
  OBVIOUS
<1>3. /\ d \in [Val -> Val] /\ Adjacent(d) /\ CycleStarts(d) \in SUBSET Val
      /\ Follows(d, CycleStarts(d)) /\ Sound(d, h, F) /\ F \in SUBSET Val
      /\ Filled(d, F) /\ Permutes(h) /\ Kind \in Kinds /\ p = As(Kind, d, h, F)
  BY <1>1, <1>2, StandsFacts
<1>4. \A x \in Val : fixed(p, x) <=> Room(d, F, x) = {x}
  BY <1>1, <1>2, StandsFixed
<1>5. r \notin F /\ Room(d, F, r) = ClassOf(d, r) \ F
  BY <1>4 DEF Room
<1>6. Offered(p, r) = {h[y] : y \in ClassOf(d, r) \ F}
  <2>1. PICK k \in Kinds : k = Kind
    BY <1>3
  <2>2. Offered(As(k, d, h, F), r) = {h[y] : y \in Room(d, F, r)}
    BY <1>3, AsOptions
  <2> QED BY <1>3, <1>5, <2>1, <2>2
<1>7. PICK y \in ClassOf(d, r) \ F : v = h[y]
  BY <1>6
<1>8. ASSUME NEW z \in ClassOf(d, r), z < r
      PROVE  z \in F
  <2>1. z \in Val /\ ClassOf(d, z) = ClassOf(d, r) /\ r \in ClassOf(d, z)
    BY Classes
  <2>2. Room(d, F, z) = {z}
    BY <1>4, <1>8, <2>1
  <2>3. z # r
    BY <1>8, ValFinite
  <2> QED BY <1>5, <2>1, <2>2, <2>3 DEF Room
<1>9. MayDecide(d, CycleStarts(d), h, F, r, y)
  BY <1>3, <1>5, <1>7, <1>8 DEF MayDecide
<1> QED BY <1>1, <1>2, <1>7, <1>9, CallNarrows

(* The preimage that an entry of the renamed table gets, known or least    *)
(* possible, and the permutation with it.                                  *)
Preimage(p, v) ==
  IF invPermOf(p, v) # None THEN invPermOf(p, v) ELSE Min(invOptions(p, v))
WithPreimage(p, v) ==
  IF invPermOf(p, v) # None THEN p ELSE FixAndPropagate(p, Preimage(p, v), v).perm

LEMMA PreimageNarrows ==
  ASSUME Ready, NEW p, Sane(p), NEW v \in Val
  PROVE  /\ Preimage(p, v) \in Val
         /\ \A q : \A z \in Val : Fits(p, q) /\ q[z] = v => Preimage(p, v) <= z
         /\ Narrowed(p, WithPreimage(p, v), Preimage(p, v), v)
<1>1. PICK h, F : Stands(p, h, F)
  BY DEF Sane
<1>2. PICK d : d = Diag
  OBVIOUS
<1>3. /\ d \in [Val -> Val] /\ Adjacent(d) /\ CycleStarts(d) \in SUBSET Val
      /\ Follows(d, CycleStarts(d)) /\ Sound(d, h, F) /\ F \in SUBSET Val
      /\ Filled(d, F) /\ Permutes(h) /\ Within(d, h)
      /\ Kind \in Kinds /\ p = As(Kind, d, h, F)
  BY <1>1, <1>2, StandsFacts
<1>4. PICK y \in Val : h[y] = v
  BY <1>3 DEF Permutes
<1>5. PICK R : R = Room(d, F, y)
  OBVIOUS
<1>6. invOptions(p, v) = R /\ invPermOf(p, v) = IF R = {y} THEN y ELSE None
  <2>1. PICK k \in Kinds : k = Kind
    BY <1>3
  <2>2. /\ invOptions(As(k, d, h, F), h[y]) = Room(d, F, y)
        /\ invPermOf(As(k, d, h, F), h[y]) = IF Room(d, F, y) = {y} THEN y ELSE None
    BY <1>3, AsPreimages
  <2> QED BY <1>3, <1>4, <1>5, <2>1, <2>2
<1>7. R \in SUBSET Val /\ y \in R /\ None \notin Val
  BY <1>5, Classes, ValFinite DEF Room, None
<1>8. PICK m : m = Preimage(p, v)
  OBVIOUS
<1>9. m \in R /\ \A z \in R : m <= z
  <2>1. CASE R = {y}
    BY <1>6, <1>7, <1>8, <2>1, ValFinite DEF Preimage
  <2>2. CASE R # {y}
    <3>1. m = Min(R)
      BY <1>6, <1>8, <2>2 DEF Preimage
    <3>2. R \in SUBSET Nat /\ R # {}
      BY <1>7, ValFinite
    <3> QED BY <3>1, <3>2, MinMember
  <2> QED BY <2>1, <2>2
<1>10. \A q : \A z \in Val : Fits(p, q) /\ q[z] = v => z \in R
  <2> SUFFICES ASSUME NEW q, NEW z \in Val, Fits(p, q), q[z] = v
               PROVE  z \in R
    OBVIOUS
  <2>1. Completes(d, q, h, F)
    BY <1>1, <1>2, FitsIs
  <2>2. q[z] = h[y]
    BY <1>4
  <2> QED BY <1>3, <1>5, <2>1, <2>2, CompletesBack
<1>11. Narrowed(p, WithPreimage(p, v), m, v)
  <2>1. CASE R = {y}
    <3>1. m = y /\ WithPreimage(p, v) = p
      BY <1>6, <1>7, <1>9, <2>1 DEF WithPreimage
    <3>2. fixed(p, y) /\ permOf(p, y) = v
      BY <1>1, <1>2, <1>4, <1>5, <2>1, StandsFixed
    <3>3. \A q : Fits(p, q) => q[y] = v
      BY <3>2 DEF Fits
    <3> QED BY <3>1, <3>2, <3>3 DEF Narrowed
  <2>2. CASE R # {y}
    <3>1. WithPreimage(p, v) = FixAndPropagate(p, m, v).perm
      BY <1>6, <1>8, <2>2 DEF WithPreimage
    <3>2. y \notin F /\ R = ClassOf(d, y) \ F
      BY <1>5, <2>2 DEF Room
    <3>3. m \in Val \ F /\ ClassOf(d, m) = ClassOf(d, y) /\ y \in ClassOf(d, m) \ F
      BY <1>7, <1>9, <3>2, Classes
    <3>4. ASSUME NEW z \in ClassOf(d, m), z < m
          PROVE  z \in F
      <4>1. z \in Nat /\ m \in Nat
        BY <3>3, Classes, ValFinite
      <4> QED BY <1>9, <3>2, <3>3, <3>4, <4>1
    <3>5. MayDecide(d, CycleStarts(d), h, F, m, y)
      BY <1>3, <3>3, <3>4 DEF MayDecide
    <3>6. Narrowed(p, FixAndPropagate(p, m, h[y]).perm, m, h[y])
      BY <1>1, <1>2, <3>5, CallNarrows
    <3> QED BY <1>4, <3>1, <3>6
  <2> QED BY <2>1, <2>2
<1> QED BY <1>7, <1>8, <1>9, <1>10, <1>11

(* extendPerm and getPerm make one of the renamings that fit.              *)
LEMMA SanePerms ==
  ASSUME Ready, NEW p, Sane(p)
  PROVE  p \in Perms(Diag) /\ p.kind = Kind
<1>1. PICK h, F : Stands(p, h, F)
  BY DEF Sane
<1>2. PICK d, k : d = Diag /\ k = Kind
  OBVIOUS
<1>3. F \in SUBSET Val /\ Permutes(h) /\ k \in Kinds /\ p = As(k, d, h, F)
  BY <1>1, <1>2, StandsFacts
<1>4. h \in [Val -> Val]
  BY <1>3 DEF Permutes
<1>5. CASE k = "plain"
  <2>1. p = [kind |-> "plain", element |-> h, part |-> Parts(d, F)]
    BY <1>3, <1>5 DEF As
  <2>2. Parts(d, F) \in SUBSET Val /\ 0 \in Parts(d, F)
    BY <1>3, PartsStart
  <2>3. p \in PlainPerms
    BY <1>3, <1>4, <2>1, <2>2 DEF PlainPerms
  <2> QED BY <1>2, <1>5, <2>1, <2>3 DEF Perms
<1>6. CASE k = "bit"
  <2>1. p = [kind |-> "bit", info |-> [x \in Val |-> Images(d, h, F, x)]]
    BY <1>3, <1>6 DEF As
  <2>2. \A x \in Val : Images(d, h, F, x) \in SUBSET Val
    BY <1>4, Classes DEF Images
  <2>3. PICK I : I = [x \in Val |-> Images(d, h, F, x)]
    OBVIOUS
  <2>4. I \in [Val -> SUBSET Val] /\ \A x \in Val : I[x] = Images(d, h, F, x)
    BY <2>2, <2>3
  <2>5. p \in [kind : {"bit"}, info : [Val -> SUBSET Val]] /\ p.info = I /\ p.kind = "bit"
    BY <2>1, <2>3, <2>4
  <2>6. p \in BitPerms(d)
    BY <1>3, <1>4, <2>4, <2>5 DEF BitPerms
  <2> QED BY <1>2, <1>6, <2>5, <2>6 DEF Perms
<1> QED BY <1>3, <1>5, <1>6 DEF Kinds

LEMMA GetPermFits ==
  ASSUME Ready, NEW p, Sane(p), fullDefined(p) \/ p.kind = "plain"
  PROVE  /\ Fits(p, getPerm(p))
         /\ fullDefined(p) => \A q : Fits(p, q) => q = getPerm(p)
<1>1. PICK h, F : Stands(p, h, F)
  BY DEF Sane
<1>2. Permutes(h) /\ h \in [Val -> Val] /\ Kind \in Kinds /\ p = As(Kind, Diag, h, F)
  BY <1>1, StandsFacts DEF Permutes
<1>3. getPerm(p) = h
  <2>1. CASE Kind = "plain"
    BY <1>2, <2>1 DEF As, getPerm
  <2>2. CASE Kind = "bit"
    <3>1. p.kind = "bit"
      BY <1>2, <2>2 DEF As
    <3>2. \A x \in Val : permOf(p, x) = h[x]
      BY <1>1, <3>1, StandsFixed DEF fullDefined
    <3>3. getPerm(p) = [x \in Val |-> permOf(p, x)]
      BY <3>1 DEF getPerm
    <3>4. getPerm(p) = [x \in Val |-> h[x]]
      BY <3>2, <3>3
    <3> QED BY <1>2, <3>4
  <2> QED BY <1>2, <2>1, <2>2 DEF Kinds
<1>4. Fits(p, h)
  BY <1>1, StandsForItself
<1>5. ASSUME fullDefined(p), NEW q, Fits(p, q)
      PROVE  q = h
  <2>1. q \in [Val -> Val]
    BY <1>5 DEF Fits, Respects, Permutes
  <2>2. \A x \in Val : q[x] = permOf(p, x) /\ h[x] = permOf(p, x)
    BY <1>4, <1>5 DEF Fits, fullDefined
  <2>3. \A x \in Val : q[x] = h[x]
    BY <2>2
  <2> QED BY <1>2, <2>1, <2>3
<1> QED BY <1>3, <1>4, <1>5

ExtendStep(k, t) ==
  IF permOf(t, k - 1) # None \/ options(t, k - 1) = <<>> THEN t
  ELSE FixAndPropagate(t, k - 1, options(t, k - 1)[1]).perm

LEMMA ExtendRuns ==
  ASSUME Ready, NEW p, Sane(p), set.useBit, ~ fullDefined(p)
  PROVE  \E W : /\ W[0] = p
                /\ \A k \in 1..N : W[k] = ExtendStep(k, W[k - 1])
                /\ ExtendPerm(p) = W[N]
<1> DEFINE U == Perms(Diag)
           G == [k \in 1..N |-> [t \in U |-> ExtendStep(k, t)]]
           IsIt(f) == f = [k \in 0..N |-> IF k = 0 THEN p ELSE ExtendStep(k, f[k - 1])]
<1>1. CycStarts \in SUBSET Nat /\ N \in Nat
  <2>1. CycleStarts(Diag) \in SUBSET Val
    BY DiagBuilt DEF Ready, Built
  <2>2. diagPart => CycStarts = CycleStarts(Diag)
    BY DiagBuilt DEF Ready
  <2>3. ~diagPart => CycStarts = {}
    BY DEF CycStarts
  <2> QED BY <2>1, <2>2, <2>3, ValFinite, NAssumption
<1>2. ASSUME NEW k \in 1..N, NEW t \in U
      PROVE  ExtendStep(k, t) \in U
  <2>1. k - 1 \in Val
    BY <1>1 DEF Val
  <2>2. CASE permOf(t, k - 1) # None \/ options(t, k - 1) = <<>>
    BY <2>2 DEF ExtendStep
  <2>3. CASE ~ (permOf(t, k - 1) # None \/ options(t, k - 1) = <<>>)
    <3>1. PICK v : v = options(t, k - 1)[1]
      OBVIOUS
    <3>2. options(t, k - 1)[1] \in Val
      <4>1. 1 \in DOMAIN options(t, k - 1)
        <5>1. CASE t.kind = "plain"
          <6>1. t \in PlainPerms
            BY <1>2, <5>1 DEF Perms, BitPerms
          <6>2. t.part \in SUBSET Nat
            BY <6>1, ValFinite DEF PlainPerms
          <6>3. PICK S \in SUBSET Nat, el \in Val : S = t.part /\ el = k - 1
            BY <2>1, <6>2
          <6>4. PICK n \in Nat \ {0} : Ring(S, el) \in [1..n -> Val]
            BY RingOfPoints
          <6>5. PICK ring : ring = Ring(S, el) /\ DOMAIN ring = 1..n
            BY <6>4
          <6>6. options(t, k - 1) = [i \in DOMAIN ring |-> t.element[ring[i]]]
            BY <5>1, <6>3, <6>5 DEF options, PlainOptions
          <6> QED BY <6>5, <6>6
        <5>2. CASE t.kind # "plain"
          <6>1. t \in BitPerms(Diag)
            BY <1>2, <5>2 DEF Perms, PlainPerms
          <6>2. t.info[k - 1] \in SUBSET Val
            BY <2>1, <6>1 DEF BitPerms
          <6>3. PICK I \in SUBSET Val : I = t.info[k - 1]
            BY <6>2
          <6>4. options(t, k - 1) = Ascending(I)
            BY <5>2, <6>3 DEF options
          <6>5. Cardinality(I) \in Nat
            BY <6>3, ValFinite, FS_Subset, FS_CardinalityType
          <6>6. DOMAIN Ascending(I) = 1..Cardinality(I)
            BY DEF Ascending
          <6>7. CASE Cardinality(I) = 0
            <7> DEFINE e(j) == CHOOSE x \in I : Cardinality({y \in I : y < x}) = j - 1
            <7>1. Ascending(I) = [j \in 1..0 |-> e(j)]
              BY <6>7 DEF Ascending
            <7> HIDE DEF e
            <7>2. Ascending(I) = <<>>
              BY <7>1
            <7> QED BY <2>3, <6>4, <7>2
          <6>8. CASE Cardinality(I) # 0
            BY <6>4, <6>5, <6>6, <6>8
          <6> QED BY <6>7, <6>8
        <5> QED BY <5>1, <5>2
      <4> QED BY <2>1, <4>1, OptionsArePoints
    <3>3. PICK r, S, d : r = FixAndPropagate(t, k - 1, v) /\ S = CycStarts /\ d = Diag
      OBVIOUS
    <3>4. r \in Results(d, t)
      <4>1. r = fixAndPropagate(t, k - 1, v, S, below, diagIsId)
        BY <3>3 DEF FixAndPropagate
      <4>2. S \in SUBSET Nat /\ t \in Perms(d) /\ v \in Val
        BY <1>1, <3>1, <3>2, <3>3
      <4> QED BY <2>1, <4>1, <4>2, CallKeeps
    <3>5. r.perm \in Perms(d)
      BY <3>4 DEF Results
    <3>6. ExtendStep(k, t) = r.perm
      BY <2>3, <3>1, <3>3 DEF ExtendStep
    <3> QED BY <3>3, <3>5, <3>6
  <2> QED BY <2>2, <2>3
<1>3. \E f : IsIt(f)
  <2>1. p \in U
    BY SanePerms
  <2>2. G \in [1..N -> [U -> U]]
    <3> HIDE DEF U
    <3> QED BY <1>2
  <2>3. PICK f \in [0..N -> U] : Iterated(p, N, G, f)
    <3> HIDE DEF G, U, IsIt
    <3> QED BY <1>1, <2>1, <2>2, Iterates
  <2>4. ASSUME NEW k \in 1..N
        PROVE  f[k] = ExtendStep(k, f[k - 1])
    <3>1. k - 1 \in 0..N /\ f[k - 1] \in U
      BY <1>1
    <3> HIDE DEF U
    <3>2. G[k][f[k - 1]] = ExtendStep(k, f[k - 1])
      BY <3>1
    <3> QED BY <2>3, <3>2 DEF Iterated
  <2>5. IsIt(f)
    <3> HIDE DEF G, U
    <3> QED BY <2>3, <2>4 DEF Iterated
  <2> HIDE DEF IsIt
  <2> QED BY <2>5
<1>4. PICK W : IsIt(W) /\ ExtendPerm(p) = W[N]
  <2>1. ExtendPerm(p) = (CHOOSE f : IsIt(f))[N]
    BY DEF ExtendPerm, extendPerm, ExtendStep, FixAndPropagate
  <2> HIDE DEF IsIt
  <2> QED BY <1>3, <2>1
<1>5. W[0] = p /\ \A k \in 1..N : W[k] = ExtendStep(k, W[k - 1])
  <2>1. 0 \in 0..N /\ \A k \in 1..N : k \in 0..N /\ k # 0
    BY <1>1
  <2> QED BY <1>4, <2>1
<1> HIDE DEF IsIt
<1> QED BY <1>4, <1>5

LEMMA Extended ==
  ASSUME Ready, NEW p, Sane(p)
  PROVE  Fits(p, getPerm(ExtendPerm(p)))
<1>1. CASE ~set.useBit \/ fullDefined(p)
  <2>1. ExtendPerm(p) = p
    BY <1>1 DEF ExtendPerm, extendPerm
  <2>2. fullDefined(p) \/ p.kind = "plain"
    BY <1>1, SanePerms DEF Kind
  <2> QED BY <2>1, <2>2, GetPermFits
<1>2. CASE set.useBit /\ ~ fullDefined(p)
  <2>1. PICK W : /\ W[0] = p
                 /\ \A k \in 1..N : W[k] = ExtendStep(k, W[k - 1])
                 /\ ExtendPerm(p) = W[N]
    BY <1>2, ExtendRuns
  <2> DEFINE Upto(k, t) == /\ Sane(t)
                           /\ \A q : Fits(t, q) => Fits(p, q)
                           /\ \A x \in Val : x < k => fixed(t, x)
             T == {w \in {<<k, W[k]>> : k \in 0..N} : Upto(w[1], w[2])}
             g == [k \in 0..N |-> <<k, W[k]>>]
  <2>2. \A k \in 0..N : g[k] \in T <=> Upto(k, W[k])
    <3> HIDE DEF Upto
    <3> QED OBVIOUS
  <2>3. N \in Nat /\ 0 \in 0..N /\ N \in 0..N /\ Val \subseteq Nat
    BY NAssumption, ValFinite
  <2>4. g[0] \in T
    <3>1. Upto(0, W[0])
      BY <2>1, <2>3
    <3> HIDE DEF g, T, Upto
    <3> QED BY <2>2, <2>3, <3>1
  <2>5. ASSUME NEW k \in 1..N, g[k - 1] \in T
        PROVE  g[k] \in T
    <3>1. k - 1 \in 0..N /\ k \in 0..N /\ k - 1 \in Val
      BY <2>3 DEF Val
    <3>2. Upto(k - 1, W[k - 1])
      <4> HIDE DEF g, T, Upto
      <4> QED BY <2>2, <2>5, <3>1
    <3>0. PICK t, u : t = W[k - 1] /\ u = W[k]
      OBVIOUS
    <3>3. PICK x \in Val : x = k - 1 /\ t = W[k - 1] /\ u = W[k]
      BY <3>0, <3>1
    <3>4. /\ Sane(t) /\ (\A q : Fits(t, q) => Fits(p, q))
          /\ \A z \in Val : z < x => fixed(t, z)
      BY <3>2, <3>3
    <3>5. u = ExtendStep(k, t)
      BY <2>1, <3>3
    <3>6. CASE fixed(t, x)
      <4>1. permOf(t, x) # None
        BY <3>4, <3>6, ImageKnown
      <4>2. u = t
        BY <3>3, <3>5, <4>1 DEF ExtendStep
      <4>3. \A z \in Val : z < k => fixed(u, z)
        BY <2>3, <3>3, <3>4, <3>6, <4>2
      <4>4. Upto(k, W[k])
        BY <3>3, <3>4, <4>2, <4>3
      <4> HIDE DEF g, T, Upto
      <4> QED BY <2>2, <3>1, <4>4
    <3>7. CASE ~ fixed(t, x)
      <4>1. permOf(t, x) = None
        BY <3>7 DEF permOf
      <4>2. PICK v \in Offered(t, x) : v = options(t, x)[1]
        BY <3>4, OptionsAreSeq
      <4>3. options(t, x) # <<>>
        <5> SUFFICES ASSUME options(t, x) = <<>>
                     PROVE  FALSE
          OBVIOUS
        <5>1. Offered(t, x) = {}
          BY DEF Offered
        <5> QED BY <4>2, <5>1
      <4>4. u = FixAndPropagate(t, x, v).perm
        BY <3>3, <3>5, <4>1, <4>2, <4>3 DEF ExtendStep
      <4>5. Narrowed(t, u, x, v)
        BY <3>4, <3>7, <4>4, RowNarrows
      <4>6. /\ Sane(u) /\ (\A q : Fits(u, q) => Fits(t, q)) /\ fixed(u, x)
            /\ \A z \in Val : fixed(t, z) => fixed(u, z)
        BY <4>5 DEF Narrowed
      <4>7. \A z \in Val : z < k => fixed(u, z)
        BY <2>3, <3>3, <3>4, <4>6
      <4>8. Upto(k, W[k])
        BY <3>3, <3>4, <4>6, <4>7
      <4> HIDE DEF g, T, Upto
      <4> QED BY <2>2, <3>1, <4>8
    <3> QED BY <3>6, <3>7
  <2>6. g[N] \in T
    <3>1. \A k \in 0..N : g[k] \in T
      <4> HIDE DEF g, T
      <4> QED BY <2>3, <2>4, <2>5, HandedOn
    <3> HIDE DEF g, T
    <3> QED BY <2>3, <3>1
  <2>7. Upto(N, W[N])
    <3> HIDE DEF g, T, Upto
    <3> QED BY <2>2, <2>3, <2>6
  <2>8. PICK t : t = ExtendPerm(p)
    OBVIOUS
  <2>9. Sane(t) /\ (\A q : Fits(t, q) => Fits(p, q)) /\ \A x \in Val : x < N => fixed(t, x)
    BY <2>1, <2>7, <2>8
  <2>10. fullDefined(t)
    BY <2>9, NAssumption DEF fullDefined, Val
  <2>11. Fits(t, getPerm(t))
    BY <2>9, <2>10, GetPermFits
  <2> QED BY <2>8, <2>9, <2>11
<1> QED BY <1>1, <1>2
-----------------------------------------------------------------------------
(* The search.  A permutation is good for row r when the rows before r     *)
(* have their images and, whatever becomes of the others, the first r      *)
(* entries of the renamed table are those of M.                            *)
Agrees(M, q, r) == \A c \in Val : c < r => Ren(M, q, 0, c) = M[0][c]

Good(M, p, r) ==
  /\ Sane(p)
  /\ \A x \in Val : x < r => fixed(p, x)
  /\ \A q : Fits(p, q) => Agrees(M, q, r)

FilterGood(M, p, v, r, f) ==
  \/ \E C : f.res = Thrown(C) /\ GoodClause(C)
  \/ /\ f.res = Returned /\ ~f.stop /\ f.keep /\ Good(M, f.perm, r + 1)
     /\ \A q : Fits(f.perm, q) => Fits(p, q)
     /\ \A q : Fits(p, q) /\ q[r] = v /\ Less(M, q) => Fits(f.perm, q)
  \/ /\ f.res = Returned /\ ~f.stop /\ ~f.keep /\ (fixed(p, r) => f.perm = p)
     /\ \A q : Fits(p, q) /\ q[r] = v => ~ Less(M, q)

(* A smaller table is not larger at the first entry that may differ.       *)
LEMMA LessNotLarger ==
  ASSUME NEW M, IsTable(M), NEW q, Permutes(q), Less(M, q), NEW r \in Val, Agrees(M, q, r)
  PROVE  Ren(M, q, 0, r) <= M[0][r]
<1>1. 0 \in Val /\ Val \subseteq Nat
  BY ValFinite, NAssumption DEF Val
<1>2. \A i, j \in Val : Ren(M, q, i, j) \in Nat /\ M[i][j] \in Nat
  BY <1>1, RenamedEntry
<1>3. PICK a, b \in Val :
        /\ Ren(M, q, a, b) < M[a][b]
        /\ \A i, j \in Val : Earlier(i, j, a, b) => Ren(M, q, i, j) = M[i][j]
  BY DEF Less
<1>4. CASE Earlier(0, r, a, b)
  <2>1. Ren(M, q, 0, r) = M[0][r]
    BY <1>1, <1>3, <1>4
  <2> QED BY <1>1, <1>2, <2>1
<1>5. CASE ~ Earlier(0, r, a, b)
  <2>1. a = 0 /\ b <= r
    BY <1>1, <1>5 DEF Earlier
  <2>2. ~ (b < r)
    <3> SUFFICES ASSUME b < r
                 PROVE  FALSE
      OBVIOUS
    <3>1. Ren(M, q, 0, b) = M[0][b]
      BY DEF Agrees
    <3> QED BY <1>1, <1>2, <1>3, <2>1, <3>1
  <2>3. b = r
    BY <1>1, <2>1, <2>2
  <2> QED BY <1>1, <1>2, <1>3, <2>1, <2>3
<1> QED BY <1>4, <1>5

LEMMA FirstImproves ==
  ASSUME NEW M, IsTable(M), NEW q, Respects(Diag, q), NEW r \in Val, Agrees(M, q, r),
         Ren(M, q, 0, r) < M[0][r]
  PROVE  Improves(M, q, 0, r)
<1>1. 0 \in Val /\ Val \subseteq Nat
  BY ValFinite, NAssumption DEF Val
<1>2. ASSUME NEW i \in Val, NEW j \in Val, Earlier(i, j, 0, r)
      PROVE  Ren(M, q, i, j) = M[i][j]
  <2>1. i = 0 /\ j < r
    BY <1>1, <1>2 DEF Earlier
  <2> QED BY <1>2, <2>1 DEF Agrees
<1> QED BY <1>1, <1>2 DEF Improves

(* The option is taken.                                                    *)
LEMMA OptionTaken ==
  ASSUME Ready, NEW M, NEW p, NEW r \in Val, Good(M, p, r), NEW v \in Offered(p, r)
  PROVE  \E t : /\ t = IF fixed(p, r) THEN [perm |-> p, ok |-> TRUE]
                       ELSE FixAndPropagate(p, r, v)
                /\ t.ok /\ Narrowed(p, t.perm, r, v) /\ (fixed(p, r) => t.perm = p)
<1>1. Sane(p) /\ \A x \in Val : x < r => fixed(p, x)
  BY DEF Good
<1>2. CASE fixed(p, r)
  <2>1. PICK t : t = [perm |-> p, ok |-> TRUE]
    OBVIOUS
  <2>2. v = permOf(p, r)
    BY <1>1, <1>2, OfferedFixed
  <2>3. \A q : Fits(p, q) => q[r] = v
    BY <1>1, <1>2, <2>2, ImageKnown
  <2>4. Narrowed(p, p, r, v)
    BY <1>1, <1>2, <2>3 DEF Narrowed
  <2> QED BY <1>2, <2>1, <2>4
<1>3. CASE ~ fixed(p, r)
  BY <1>1, <1>3, RowNarrows
<1> QED BY <1>2, <1>3

(* The renamed entry w is compared.                                        *)
LEMMA EntryCompared ==
  ASSUME Ready, NEW M, FullOf(M), N > 1, NEW p, NEW r \in Val, Good(M, p, r),
         NEW v, NEW u, Narrowed(p, u, r, v), fixed(p, r) => u = p,
         NEW w \in Val, \A q : Fits(u, q) => w = M[q[0]][q[r]]
  PROVE  FilterGood(M, p, v, r, FilterKnown(u, w, r))
<1>1. /\ Sane(u) /\ fixed(u, r) /\ (\A x \in Val : fixed(p, x) => fixed(u, x))
      /\ \A q : Fits(u, q) <=> Fits(p, q) /\ q[r] = v
  BY DEF Narrowed
<1>2. PICK m, t : m = Preimage(u, w) /\ t = WithPreimage(u, w)
  OBVIOUS
<1>3. /\ m \in Val /\ (\A q : \A z \in Val : Fits(u, q) /\ q[z] = w => m <= z)
      /\ Narrowed(u, t, m, w)
  BY <1>1, <1>2, PreimageNarrows
<1>4. /\ Sane(t) /\ (\A x \in Val : fixed(u, x) => fixed(t, x))
      /\ \A q : Fits(t, q) <=> Fits(u, q) /\ q[m] = w
  BY <1>3 DEF Narrowed
<1>5. PICK og : og = M[0][r]
  OBVIOUS
<1>6. 0 \in Val /\ Val \subseteq Nat /\ og \in Nat /\ og = minog(0, r) /\ Single(0, r) /\ m \in Nat
  <2>1. 0 \in Val /\ Val \subseteq Nat
    BY ValFinite, NAssumption DEF Val
  <2> QED BY <1>3, <1>5, <2>1, FullEntry
<1>7. IsTable(M)
  BY DEF FullOf
<1>8. ASSUME NEW q, Fits(u, q)
      PROVE  /\ Permutes(q) /\ Respects(Diag, q) /\ Agrees(M, q, r) /\ m <= Ren(M, q, 0, r)
             /\ Ren(M, q, 0, r) \in Nat
             /\ q[m] = w <=> Ren(M, q, 0, r) = m
  <2>1. Permutes(q) /\ Respects(Diag, q)
    BY <1>8 DEF Fits, Respects
  <2>2. Agrees(M, q, r)
    BY <1>1, <1>8 DEF Good
  <2>3. /\ Ren(M, q, 0, r) \in Val /\ q[Ren(M, q, 0, r)] = w
        /\ \A z \in Val : q[z] = w => z = Ren(M, q, 0, r)
    BY <1>6, <1>7, <1>8, <2>1, RenamedEntry
  <2> QED BY <1>3, <1>6, <1>8, <2>1, <2>2, <2>3
<1>9. /\ m = IF invPermOf(u, w) # None THEN invPermOf(u, w) ELSE Min(invOptions(u, w))
      /\ t = IF invPermOf(u, w) # None THEN u ELSE FixAndPropagate(u, m, w).perm
  BY <1>2 DEF Preimage, WithPreimage
<1>10. /\ m < og => FilterKnown(u, w, r) = Cut(t, r)
       /\ m = og => FilterKnown(u, w, r) = Kept(t)
       /\ m > og => FilterKnown(u, w, r) = Dropped(u)
  BY <1>6, <1>9, KnownCompared
<1>11. CASE m < og
  <2>1. PICK q : q = getPerm(ExtendPerm(t)) /\ Fits(t, q)
    BY <1>4, Extended
  <2>2. Fits(u, q) /\ q[m] = w
    BY <1>4, <2>1
  <2>3. Respects(Diag, q) /\ Agrees(M, q, r) /\ Ren(M, q, 0, r) < M[0][r]
    BY <1>5, <1>8, <1>11, <2>2
  <2>4. Improves(M, q, 0, r)
    BY <1>7, <2>3, FirstImproves
  <2>5. PICK C : addClauses(q, 0, r) = Thrown(C) /\ GoodClause(C)
    BY <2>4, ClauseThrown DEF Ready
  <2>6. FilterKnown(u, w, r).res = Thrown(C)
    BY <1>10, <1>11, <2>1, <2>5 DEF Cut, Filtered, Break
  <2> QED BY <2>5, <2>6 DEF FilterGood
<1>12. CASE m = og
  <2>1. PICK f : f = FilterKnown(u, w, r)
    OBVIOUS
  <2>2. f.perm = t /\ f.keep /\ ~f.stop /\ f.res = Returned
    BY <1>10, <1>12, <2>1 DEF Kept, Filtered
  <2>3. ASSUME NEW q, Fits(t, q)
        PROVE  Agrees(M, q, r + 1)
    <3>1. Fits(u, q) /\ q[m] = w
      BY <1>4, <2>3
    <3>2. Agrees(M, q, r) /\ Ren(M, q, 0, r) = M[0][r]
      BY <1>5, <1>8, <1>12, <3>1
    <3>3. \A c \in Val : c < r + 1 => c < r \/ c = r
      BY <1>6
    <3> QED BY <3>2, <3>3 DEF Agrees
  <2>4. \A x \in Val : x < r + 1 => fixed(t, x)
    <3>1. \A c \in Val : c < r + 1 => c < r \/ c = r
      BY <1>6
    <3> QED BY <1>1, <1>4, <3>1 DEF Good
  <2>5. Good(M, t, r + 1)
    BY <1>4, <2>3, <2>4 DEF Good
  <2>6. ASSUME NEW q, Fits(p, q), q[r] = v, Less(M, q)
        PROVE  Fits(t, q)
    <3>1. Fits(u, q)
      BY <1>1, <2>6
    <3>2. Ren(M, q, 0, r) <= og
      BY <1>5, <1>7, <1>8, <2>6, <3>1, LessNotLarger
    <3>3. Ren(M, q, 0, r) = m
      BY <1>6, <1>8, <1>12, <3>1, <3>2
    <3> QED BY <1>4, <1>8, <3>1, <3>3
  <2>7. \A q : Fits(t, q) => Fits(p, q)
    BY <1>1, <1>4
  <2> QED BY <2>1, <2>2, <2>5, <2>6, <2>7 DEF FilterGood
<1>13. CASE m > og
  <2>1. PICK f : f = FilterKnown(u, w, r)
    OBVIOUS
  <2>2. f.perm = u /\ ~f.keep /\ ~f.stop /\ f.res = Returned
    BY <1>10, <1>13, <2>1 DEF Dropped, Filtered
  <2>3. ASSUME NEW q, Fits(p, q), q[r] = v, Less(M, q)
        PROVE  FALSE
    <3>1. Fits(u, q)
      BY <1>1, <2>3
    <3>2. Ren(M, q, 0, r) <= og
      BY <1>5, <1>7, <1>8, <2>3, <3>1, LessNotLarger
    <3> QED BY <1>6, <1>8, <1>13, <3>1, <3>2
  <2> QED BY <2>1, <2>2, <2>3 DEF FilterGood
<1> QED BY <1>6, <1>11, <1>12, <1>13

LEMMA OptionFiltered ==
  ASSUME Ready, NEW M, FullOf(M), N > 1, NEW p, NEW r \in Val, Good(M, p, r),
         NEW v \in Offered(p, r)
  PROVE  FilterGood(M, p, v, r, filterOption(p, v, r))
<1>1. PICK t : /\ t = IF fixed(p, r) THEN [perm |-> p, ok |-> TRUE]
                      ELSE FixAndPropagate(p, r, v)
               /\ t.ok /\ Narrowed(p, t.perm, r, v) /\ (fixed(p, r) => t.perm = p)
  BY OptionTaken
<1>2. PICK u : u = t.perm
  OBVIOUS
<1>3. 0 \in Val /\ Val \subseteq Nat /\ IsTable(M)
  BY ValFinite, NAssumption DEF Val, FullOf
<1>4. Sane(u) /\ fixed(u, r) /\ fixed(u, 0)
  <2>1. Sane(u) /\ fixed(u, r) /\ (\A x \in Val : fixed(p, x) => fixed(u, x))
    BY <1>1, <1>2 DEF Narrowed
  <2>2. r = 0 \/ 0 < r
    BY <1>3
  <2>3. 0 < r => fixed(p, 0)
    BY <1>3 DEF Good
  <2> QED BY <1>3, <2>1, <2>2, <2>3
<1>5. PICK a, b : a = permOf(u, 0) /\ b = permOf(u, r)
  OBVIOUS
<1>6. /\ a \in Val /\ b \in Val /\ a # None /\ b # None
      /\ \A q : Fits(u, q) => q[0] = a /\ q[r] = b
  BY <1>3, <1>4, <1>5, ImageKnown
<1>7. PICK w \in Val : w = M[a][b] /\ dom[a][b] = {w}
  BY <1>6, FullEntry
<1>8. FilterGood(M, p, v, r, FilterKnown(u, w, r))
  <2>1. \A q : Fits(u, q) => w = M[q[0]][q[r]]
    BY <1>6, <1>7
  <2> QED BY <1>1, <1>2, <2>1, EntryCompared
<1>9. filterOption(p, v, r) = FilterFixed(t, a, b, r)
  BY <1>1, <1>2, <1>5 DEF filterOption
<1>10. FilterFixed(t, a, b, r) = FilterCompared(u, a, b, Ascending(dom[a][b]), r)
  BY <1>1, <1>2, <1>6 DEF FilterFixed
<1>11. Ascending(dom[a][b]) = <<w>>
  BY <1>7, OneListed
<1>12. FilterCompared(u, a, b, <<w>>, r) = FilterKnown(u, w, r)
  BY DEF FilterCompared
<1> QED BY <1>8, <1>9, <1>10, <1>11, <1>12

(* The entries of a table are numbered row by row.                         *)
LEMMA EntryNumber ==
  ASSUME NEW i \in Val, NEW j \in Val
  PROVE  /\ i * N + j \in 0..(N * N - 1)
         /\ \A a, b \in Val : Earlier(i, j, a, b) <=> i * N + j < a * N + b
         /\ \A a, b \in Val : i * N + j = a * N + b => i = a /\ j = b
<1>1. N \in Nat \ {0} /\ i \in Nat /\ j \in Nat /\ i <= N - 1 /\ j <= N - 1
  BY NAssumption DEF Val
<1>2. ASSUME NEW a \in Nat, NEW b \in Nat, a < b
      PROVE  a * N + N <= b * N
  <2>1. PICK e \in Nat : b = a + 1 + e
    <3>1. b - a - 1 \in Nat /\ b = a + 1 + (b - a - 1)
      BY <1>2
    <3> QED BY <3>1
  <2>2. b * N = a * N + N + e * N
    BY <1>1, <2>1
  <2>3. e * N \in Nat /\ a * N \in Nat
    BY <1>1
  <2> QED BY <1>1, <2>2, <2>3
<1>3. \A a \in Nat : a * N \in Nat
  BY <1>1
<1>4. i * N + N <= N * N
  <2>1. i < N /\ N \in Nat
    BY <1>1
  <2> QED BY <1>1, <1>2, <2>1
<1>5. i * N + j \in 0..(N * N - 1)
  BY <1>1, <1>3, <1>4
<1>6. ASSUME NEW a \in Val, NEW b \in Val
      PROVE  /\ Earlier(i, j, a, b) <=> i * N + j < a * N + b
             /\ i * N + j = a * N + b => i = a /\ j = b
  <2>1. a \in Nat /\ b \in Nat /\ b <= N - 1
    BY <1>1 DEF Val
  <2>2. CASE i < a
    <3>1. i * N + N <= a * N
      BY <1>1, <1>2, <2>1, <2>2
    <3> QED BY <1>1, <1>3, <2>1, <2>2, <3>1 DEF Earlier
  <2>3. CASE a < i
    <3>1. a * N + N <= i * N
      BY <1>1, <1>2, <2>1, <2>3
    <3> QED BY <1>1, <1>3, <2>1, <2>3, <3>1 DEF Earlier
  <2>4. CASE i = a
    BY <1>1, <1>3, <2>1, <2>4 DEF Earlier
  <2> QED BY <1>1, <2>1, <2>2, <2>3, <2>4
<1> QED BY <1>5, <1>6

LEMMA NumberedEntry ==
  ASSUME NEW k \in 0..(N * N - 1)
  PROVE  k \div N \in Val /\ k % N \in Val /\ k = (k \div N) * N + (k % N)
<1>1. N \in Nat \ {0} /\ k \in Nat /\ k < N * N
  <2>1. N \in Nat \ {0}
    BY NAssumption
  <2>2. N * N \in Nat
    BY <2>1
  <2> QED BY <2>1, <2>2
<1>2. k % N \in 0..(N - 1) /\ k \div N \in Nat /\ k = (k \div N) * N + (k % N)
  <2>1. PICK n \in Nat \ {0} : n = N
    BY <1>1
  <2>2. k % n \in 0..(n - 1)
    BY <1>1
  <2>3. k \div n \in Nat
    BY <1>1
  <2>4. k = n * (k \div n) + (k % n)
    BY <1>1
  <2>5. n * (k \div n) = (k \div n) * n
    BY <2>3
  <2> QED BY <2>1, <2>2, <2>3, <2>4, <2>5
<1>3. PICK a, b \in Nat : a = k \div N /\ b = k % N
  BY <1>2
<1>4. a < N
  <2> SUFFICES ASSUME a >= N
               PROVE  FALSE
    BY <1>1
  <2>1. PICK e \in Nat : a = N + e
    <3>1. a - N \in Nat /\ a = N + (a - N)
      BY <1>1
    <3> QED BY <3>1
  <2>2. a * N = N * N + e * N
    BY <1>1, <2>1
  <2>3. e * N \in Nat /\ N * N \in Nat
    BY <1>1
  <2> QED BY <1>1, <1>2, <1>3, <2>2, <2>3
<1> QED BY <1>1, <1>2, <1>3, <1>4 DEF Val

EqualUpto(M, q, k) ==
  \A i, j \in Val : i * N + j <= k => Ren(M, q, i, j) = M[i][j]

(* One entry is compared.                                                  *)
LEMMA FullEntryCompared ==
  ASSUME Ready, NEW M, FullOf(M), N > 1, NEW q, Respects(Diag, q),
         NEW a \in Val, NEW b \in Val, NEW e, e = CompareEntry(q, a, b),
         \A i, j \in Val : Earlier(i, j, a, b) => Ren(M, q, i, j) = M[i][j]
  PROVE  \/ ~e.end /\ e.res = Returned /\ Ren(M, q, a, b) = M[a][b]
         \/ e.end /\ e.res = Returned /\ ~ Less(M, q)
         \/ \E C : e.res = Thrown(C) /\ GoodClause(C)
<1>1. IsTable(M) /\ Permutes(q) /\ Val \subseteq Nat
  BY ValFinite DEF FullOf, Respects
<1>2. PICK m, og : m = Ren(M, q, a, b) /\ og = M[a][b]
  OBVIOUS
<1>3. /\ m \in Nat /\ og \in Nat /\ minog(a, b) = og /\ Single(a, b)
      /\ Max(Preimages(q, a, b)) = m /\ Cardinality(Preimages(q, a, b)) = 1
  <2>1. m \in Val /\ og \in Val
    BY <1>1, <1>2, RenamedEntry
  <2> QED BY <1>1, <1>2, <2>1, FullEntry, FullPreimages
<1> DEFINE x == [end |-> FALSE, res |-> addClauses(q, a, b)]
           y == [end |-> FALSE, res |-> Returned]
           z == [end |-> TRUE, res |-> Returned]
<1>4. e = CASE m < og -> x
            [] m = og /\ Single(a, b) -> y
            [] m = og /\ ~Single(a, b) /\ set.propagateMincheck -> x
            [] OTHER -> z
  BY <1>3 DEF CompareEntry
<1>5. CASE m < og
  <2>1. e = x
    <3> HIDE DEF x, y, z
    <3>1. ~ (m = og)
      BY <1>3, <1>5
    <3> QED BY <1>4, <1>5, <3>1
  <2>2. Improves(M, q, a, b)
    BY <1>2, <1>5 DEF Improves
  <2>3. \E C : addClauses(q, a, b) = Thrown(C) /\ GoodClause(C)
    BY <2>2, ClauseThrown DEF Ready
  <2> QED BY <2>1, <2>3
<1>6. CASE m = og
  <2>1. e = y
    <3> HIDE DEF x, y, z
    <3>1. ~ (m < og)
      BY <1>3, <1>6
    <3> QED BY <1>3, <1>4, <1>6, <3>1
  <2> QED BY <1>2, <1>6, <2>1
<1>7. CASE m > og
  <2>1. e = z
    <3> HIDE DEF x, y, z
    <3>1. ~ (m < og) /\ ~ (m = og)
      BY <1>3, <1>7
    <3> QED BY <1>3, <1>4, <3>1
  <2>2. ASSUME Less(M, q)
        PROVE  FALSE
    <3>1. PICK c, d \in Val :
            /\ Ren(M, q, c, d) < M[c][d]
            /\ \A i, j \in Val : Earlier(i, j, c, d) => Ren(M, q, i, j) = M[i][j]
      BY <2>2 DEF Less
    <3>2. Ren(M, q, c, d) \in Nat /\ M[c][d] \in Nat
      BY <1>1, RenamedEntry
    <3>3. ~ Earlier(c, d, a, b)
      BY <3>1, <3>2
    <3>4. ~ Earlier(a, b, c, d)
      BY <1>2, <1>3, <1>7, <3>1
    <3>5. c = a /\ d = b
      BY <1>1, <3>3, <3>4 DEF Earlier
    <3> QED BY <1>2, <1>3, <1>7, <3>1, <3>5
  <2> QED BY <2>1, <2>2
<1> QED BY <1>3, <1>5, <1>6, <1>7

(* The loop over the entries.                                              *)
LoopStart == [end |-> FALSE, res |-> Returned]
LoopStep(q, k, w) ==
  IF w.end \/ w.res.what # "none" THEN w ELSE CompareEntry(q, k \div N, k % N)

Runs(q, r, n, W) ==
  /\ W[0] = LoopStart
  /\ \A k \in 1..n : W[k] = LoopStep(q, k + r - 1, W[k - 1])
  /\ permFullyDefinedCheck(q, r) = W[n].res

LEMMA CheckRuns ==
  ASSUME NEW q, q # Identity, NEW r \in Val, NEW n \in Nat, n = N * N - r
  PROVE  \E W : Runs(q, r, n, W)
<1> DEFINE U == {LoopStart} \cup {CompareEntry(q, k \div N, k % N) : k \in Int}
           G == [k \in 1..n |-> [w \in U |-> LoopStep(q, k + r - 1, w)]]
           IsIt(f) == f = [k \in (r - 1)..(N * N - 1) |->
                             IF k = r - 1 THEN LoopStart ELSE LoopStep(q, k, f[k - 1])]
<1>1. r \in Nat /\ N * N \in Nat
  BY ValFinite, NAssumption
<1>2. ASSUME NEW k \in 1..n, NEW w \in U
      PROVE  LoopStep(q, k + r - 1, w) \in U
  <2>1. k + r - 1 \in Int
    BY <1>1
  <2> QED BY <2>1 DEF LoopStep
<1>3. LoopStart \in U /\ G \in [1..n -> [U -> U]]
  <2> HIDE DEF U
  <2>1. LoopStart \in U
    BY DEF U
  <2> QED BY <1>2, <2>1
<1>4. PICK f \in [0..n -> U] : Iterated(LoopStart, n, G, f)
  <2> HIDE DEF U, G
  <2> QED BY <1>3, Iterates
<1>5. \A k \in 1..n : f[k] = LoopStep(q, k + r - 1, f[k - 1])
  <2> TAKE k \in 1..n
  <2>1. k - 1 \in 0..n /\ f[k - 1] \in U
    BY <1>4
  <2> HIDE DEF U
  <2>2. G[k][f[k - 1]] = LoopStep(q, k + r - 1, f[k - 1])
    BY <2>1
  <2> QED BY <1>4, <2>2 DEF Iterated
<1> DEFINE g == [k \in (r - 1)..(N * N - 1) |-> f[k - r + 1]]
<1>6. IsIt(g)
  <2>1. ASSUME NEW k \in (r - 1)..(N * N - 1)
        PROVE  g[k] = IF k = r - 1 THEN LoopStart ELSE LoopStep(q, k, g[k - 1])
    <3>1. g[k] = f[k - r + 1]
      OBVIOUS
    <3>2. CASE k = r - 1
      <4>1. k - r + 1 = 0
        BY <1>1, <3>2
      <4> QED BY <1>4, <3>1, <3>2, <4>1 DEF Iterated
    <3>3. CASE k # r - 1
      <4>1. PICK j : j = k - r + 1
        OBVIOUS
      <4>2. /\ j \in 1..n /\ j + r - 1 = k /\ j - 1 = k - 1 - r + 1
            /\ k - 1 \in (r - 1)..(N * N - 1)
        BY <1>1, <3>3, <4>1
      <4>3. g[k - 1] = f[j - 1]
        BY <4>2
      <4>4. f[j] = LoopStep(q, k, f[j - 1])
        BY <1>5, <4>2
      <4> QED BY <3>1, <3>3, <4>1, <4>3, <4>4
    <3> QED BY <3>2, <3>3
  <2>2. g = [k \in (r - 1)..(N * N - 1) |-> g[k]]
    OBVIOUS
  <2> HIDE DEF g
  <2> QED BY <2>1, <2>2
<1>7. PICK h : IsIt(h) /\ permFullyDefinedCheck(q, r) = h[N * N - 1].res
  <2>1. permFullyDefinedCheck(q, r) = (CHOOSE h : IsIt(h))[N * N - 1].res
    BY DEF permFullyDefinedCheck, LoopStart, LoopStep
  <2> HIDE DEF IsIt, g
  <2> QED BY <1>6, <2>1
<1> DEFINE W == [k \in 0..n |-> h[k + r - 1]]
<1>8. W[0] = LoopStart
  <2>1. 0 \in 0..n /\ 0 + r - 1 = r - 1 /\ r - 1 \in (r - 1)..(N * N - 1)
    BY <1>1
  <2> QED BY <1>7, <2>1
<1>9. ASSUME NEW k \in 1..n
      PROVE  W[k] = LoopStep(q, k + r - 1, W[k - 1])
  <2>1. PICK j : j = k + r - 1
    OBVIOUS
  <2>2. /\ j \in (r - 1)..(N * N - 1) /\ j # r - 1 /\ k \in 0..n /\ k - 1 \in 0..n
        /\ (k - 1) + r - 1 = j - 1
    BY <1>1, <2>1
  <2>3. h[j] = LoopStep(q, j, h[j - 1])
    BY <1>7, <2>2
  <2>4. W[k] = h[j] /\ W[k - 1] = h[j - 1]
    BY <2>1, <2>2
  <2> HIDE DEF W, IsIt
  <2> QED BY <2>1, <2>3, <2>4
<1>10. W[n] = h[N * N - 1]
  <2>1. n \in 0..n /\ n + r - 1 = N * N - 1
    BY <1>1
  <2> QED BY <2>1
<1> HIDE DEF W, IsIt
<1> QED BY <1>7, <1>8, <1>9, <1>10 DEF Runs

LEMMA CompleteChecked ==
  ASSUME Ready, NEW M, FullOf(M), N > 1, NEW q, Respects(Diag, q),
         NEW r \in Val, Agrees(M, q, r), NEW res, res = permFullyDefinedCheck(q, r)
  PROVE  \/ res = Returned /\ ~ Less(M, q)
         \/ \E C : res = Thrown(C) /\ GoodClause(C)
<1>1. IsTable(M) /\ Permutes(q) /\ Val \subseteq Nat /\ 0 \in Val
  BY ValFinite, NAssumption DEF FullOf, Respects, Val
<1>2. (\A i, j \in Val : Ren(M, q, i, j) = M[i][j]) => ~ Less(M, q)
  <2> SUFFICES ASSUME \A i, j \in Val : Ren(M, q, i, j) = M[i][j], Less(M, q)
               PROVE  FALSE
    OBVIOUS
  <2>1. PICK i, j \in Val : Ren(M, q, i, j) < M[i][j]
    BY DEF Less
  <2>2. M[i][j] \in Nat /\ Ren(M, q, i, j) = M[i][j]
    BY <1>1, RenamedEntry
  <2> QED BY <2>1, <2>2
<1>3. CASE q = Identity
  <2>1. res = Returned
    BY <1>3 DEF permFullyDefinedCheck
  <2>2. ASSUME NEW i \in Val, NEW j \in Val
        PROVE  Ren(M, q, i, j) = M[i][j]
    <3>1. q[i] = i /\ q[j] = j /\ M[i][j] \in Val
      BY <1>1, <1>3, RenamedEntry DEF Identity
    <3>2. q[M[i][j]] = M[i][j]
      BY <1>3, <3>1 DEF Identity
    <3>3. Ren(M, q, i, j) \in Val /\ q[Ren(M, q, i, j)] = M[q[i]][q[j]]
      BY <1>1, RenamedEntry
    <3>4. \A x \in Val : q[x] = x
      BY <1>3 DEF Identity
    <3> QED BY <3>1, <3>3, <3>4
  <2> QED BY <1>2, <2>1, <2>2
<1>4. CASE q # Identity
  <2>1. PICK n \in Nat : n = N * N - r /\ r <= N * N - 1
    <3>1. 0 * N + r \in 0..(N * N - 1)
      BY <1>1, EntryNumber
    <3>2. N * N \in Nat /\ r \in Nat /\ 0 * N + r = r
      BY <1>1, NAssumption
    <3>3. N * N - r \in Nat
      BY <3>1, <3>2
    <3> QED BY <3>1, <3>2, <3>3
  <2>2. PICK W : /\ W[0] = LoopStart
                 /\ \A k \in 1..n : W[k] = LoopStep(q, k + r - 1, W[k - 1])
                 /\ permFullyDefinedCheck(q, r) = W[n].res
    <3>1. \E W : Runs(q, r, n, W)
      BY <1>4, <2>1, CheckRuns
    <3> QED BY <3>1 DEF Runs
  <2> DEFINE Upto(k, w) == \/ ~w.end /\ w.res = Returned /\ EqualUpto(M, q, k + r - 1)
                           \/ w.end /\ w.res = Returned /\ ~ Less(M, q)
                           \/ \E C : w.res = Thrown(C) /\ GoodClause(C)
             T == {x \in {<<k, W[k]>> : k \in 0..n} : Upto(x[1], x[2])}
             g == [k \in 0..n |-> <<k, W[k]>>]
  <2>3. \A k \in 0..n : g[k] \in T <=> Upto(k, W[k])
    <3> HIDE DEF Upto
    <3> QED OBVIOUS
  <2>4. g[0] \in T
    <3>1. ASSUME NEW i \in Val, NEW j \in Val, i * N + j <= 0 + r - 1
          PROVE  Ren(M, q, i, j) = M[i][j]
      <4>1. i * N + j < 0 * N + r
        <5>1. i * N + j \in 0..(N * N - 1)
          BY EntryNumber
        <5> QED BY <1>1, <3>1, <5>1, NAssumption
      <4>2. Earlier(i, j, 0, r)
        BY <1>1, <4>1, EntryNumber
      <4>3. i = 0 /\ j < r
        BY <1>1, <4>2 DEF Earlier
      <4> QED BY <4>3 DEF Agrees
    <3>2. EqualUpto(M, q, 0 + r - 1)
      BY <3>1 DEF EqualUpto
    <3>3. Upto(0, W[0])
      BY <2>2, <3>2 DEF LoopStart
    <3>4. 0 \in 0..n
      BY <2>1
    <3> HIDE DEF g, T, Upto
    <3> QED BY <2>3, <3>3, <3>4
  <2>5. ASSUME NEW k \in 1..n, g[k - 1] \in T
        PROVE  g[k] \in T
    <3>1. k - 1 \in 0..n /\ k \in 0..n
      BY <2>1
    <3>2. Upto(k - 1, W[k - 1])
      <4> HIDE DEF g, T, Upto
      <4> QED BY <2>3, <2>5, <3>1
    <3>3. PICK j, w : j = k + r - 1 /\ w = W[k - 1]
      OBVIOUS
    <3>4. W[k] = LoopStep(q, j, w) /\ j \in 0..(N * N - 1) /\ (k - 1) + r - 1 = j - 1
      <4>1. N * N \in Nat /\ r \in Nat
        BY <1>1, NAssumption
      <4> QED BY <2>1, <2>2, <3>3, <4>1
    <3>5. Upto(k, W[k])
      <4>1. CASE w.end \/ w.res.what # "none"
        <5>1. W[k] = w
          BY <3>4, <4>1 DEF LoopStep
        <5>2. ~ (~w.end /\ w.res = Returned)
          BY <4>1 DEF Returned
        <5> QED BY <3>2, <3>3, <5>1, <5>2
      <4>2. CASE ~ (w.end \/ w.res.what # "none")
        <5>1. EqualUpto(M, q, j - 1)
          <6>1. \A C : Thrown(C).what = "clause"
            BY DEF Thrown
          <6>2. ~ \E C : w.res = Thrown(C)
            BY <4>2, <6>1
          <6>3. EqualUpto(M, q, (k - 1) + r - 1)
            BY <3>2, <3>3, <4>2, <6>2
          <6> QED BY <3>4, <6>3
        <5>2. PICK a, b \in Val : a = j \div N /\ b = j % N /\ j = a * N + b
          BY <3>4, NumberedEntry
        <5>3. PICK e : e = CompareEntry(q, a, b)
          OBVIOUS
        <5>4. W[k] = e
          BY <3>4, <4>2, <5>2, <5>3 DEF LoopStep
        <5>5. ASSUME NEW x \in Val, NEW y \in Val, Earlier(x, y, a, b)
              PROVE  Ren(M, q, x, y) = M[x][y]
          <6>1. x * N + y < a * N + b /\ x * N + y \in 0..(N * N - 1)
            BY <5>5, EntryNumber
          <6>2. x * N + y <= j - 1
            BY <3>4, <5>2, <6>1
          <6> QED BY <5>1, <6>2 DEF EqualUpto
        <5>6. \/ ~e.end /\ e.res = Returned /\ Ren(M, q, a, b) = M[a][b]
              \/ e.end /\ e.res = Returned /\ ~ Less(M, q)
              \/ \E C : e.res = Thrown(C) /\ GoodClause(C)
          BY <5>3, <5>5, FullEntryCompared
        <5>7. ASSUME Ren(M, q, a, b) = M[a][b]
              PROVE  EqualUpto(M, q, k + r - 1)
          <6>1. ASSUME NEW x \in Val, NEW y \in Val, x * N + y <= j
                PROVE  Ren(M, q, x, y) = M[x][y]
            <7>1. CASE x * N + y = j
              <8>1. x = a /\ y = b
                BY <5>2, <7>1, EntryNumber
              <8> QED BY <5>7, <8>1
            <7>2. CASE x * N + y # j
              <8>1. x * N + y \in 0..(N * N - 1)
                BY EntryNumber
              <8>2. x * N + y <= j - 1
                BY <3>4, <6>1, <7>2, <8>1
              <8> QED BY <5>1, <8>2 DEF EqualUpto
            <7> QED BY <7>1, <7>2
          <6> QED BY <3>3, <6>1 DEF EqualUpto
        <5> QED BY <5>4, <5>6, <5>7
      <4> QED BY <4>1, <4>2
    <3> HIDE DEF g, T, Upto
    <3> QED BY <2>3, <3>1, <3>5
  <2>6. Upto(n, W[n])
    <3>1. \A k \in 0..n : g[k] \in T
      <4> HIDE DEF g, T
      <4> QED BY <2>4, <2>5, HandedOn
    <3>2. n \in 0..n
      BY <2>1
    <3> HIDE DEF g, T, Upto
    <3> QED BY <2>3, <3>1, <3>2
  <2>7. EqualUpto(M, q, n + r - 1) => ~ Less(M, q)
    <3> SUFFICES ASSUME EqualUpto(M, q, n + r - 1)
                 PROVE  ~ Less(M, q)
      OBVIOUS
    <3>1. n + r - 1 = N * N - 1
      BY <1>1, <2>1, NAssumption
    <3>2. \A i, j \in Val : i * N + j <= N * N - 1
      <4> TAKE i, j \in Val
      <4>1. i * N + j \in 0..(N * N - 1)
        BY EntryNumber
      <4> QED BY <4>1
    <3>3. \A i, j \in Val : Ren(M, q, i, j) = M[i][j]
      BY <3>1, <3>2 DEF EqualUpto
    <3> QED BY <1>2, <3>3
  <2>8. res = W[n].res
    BY <2>2
  <2> QED BY <2>6, <2>7, <2>8
<1> QED BY <1>3, <1>4
-----------------------------------------------------------------------------
(* What the activations explore, for a full table M.  A renaming is        *)
(* pending in an activation when an option not yet filtered or a kept      *)
(* permutation can still become it.                                        *)
FrameGood(M, f) ==
  /\ f.r \in Val /\ Good(M, f.perm, f.r)
  /\ IsSeq(f.todo) /\ \A k \in 1..Len(f.todo) : f.todo[k] \in Offered(f.perm, f.r)
  /\ \A k \in 1..Len(f.kept) : Good(M, f.kept[k].perm, f.r + 1)

Pending(f, q) ==
  \/ ~ f.entered /\ Fits(f.perm, q)
  \/ \E k \in 1..Len(f.todo) : q[f.r] = f.todo[k] /\ Fits(f.perm, q)
  \/ \E k \in 1..Len(f.kept) : Fits(f.kept[k].perm, q)

Explored(M, s) ==
  /\ \A i \in 1..Len(s) : FrameGood(M, s[i])
  /\ \A q : Respects(Diag, q) /\ Less(M, q) => \E i \in 1..Len(s) : Pending(s[i], q)

LEMMA GoodBefore ==
  ASSUME NEW M, NEW p, NEW r \in Val, Good(M, p, r + 1)
  PROVE  Good(M, p, r) /\ fixed(p, r)
<1>1. Val \subseteq Nat
  BY ValFinite
<1>2. r < r + 1 /\ \A x \in Val : x < r => x < r + 1
  BY <1>1
<1> QED BY <1>2 DEF Good, Agrees

LEMMA TopExplored ==
  ASSUME IsSeq(stack), Len(stack) # 0, NEW M, Explored(M, stack)
  PROVE  /\ Len(stack) \in 1..Len(stack) /\ Top = stack[Len(stack)] /\ FrameGood(M, Top)
<1>1. Len(stack) \in Nat
  BY DEF IsSeq
<1>2. Len(stack) \in 1..Len(stack)
  BY <1>1
<1> QED BY <1>2 DEF Top, Explored

LEMMA TopChanged ==
  ASSUME IsSeq(stack), Len(stack) # 0, NEW M, Explored(M, stack),
         NEW g, FrameGood(M, g), NEW s, s = SetTop(g),
         \A q : Respects(Diag, q) /\ Less(M, q) /\ Pending(Top, q) => Pending(g, q)
  PROVE  Explored(M, s) /\ IsSeq(s) /\ Len(s) = Len(stack)
<1>1. Len(stack) \in Nat /\ Len(stack) \in 1..Len(stack) /\ Top = stack[Len(stack)]
  BY TopExplored DEF IsSeq
<1>2. /\ IsSeq(s) /\ Len(s) = Len(stack)
      /\ s[Len(stack)] = g /\ \A i \in 1..(Len(stack) - 1) : s[i] = stack[i]
  BY TopSet
<1>3. \A i \in 1..Len(stack) : i = Len(stack) \/ i \in 1..(Len(stack) - 1)
  BY <1>1
<1>4. \A i \in 1..Len(s) : FrameGood(M, s[i])
  BY <1>2, <1>3 DEF Explored
<1>5. ASSUME NEW q, Respects(Diag, q), Less(M, q)
      PROVE  \E i \in 1..Len(s) : Pending(s[i], q)
  <2>1. PICK i \in 1..Len(stack) : Pending(stack[i], q)
    BY <1>5 DEF Explored
  <2>2. CASE i = Len(stack)
    BY <1>1, <1>2, <1>5, <2>1, <2>2
  <2>3. CASE i # Len(stack)
    BY <1>2, <1>3, <2>1, <2>3
  <2> QED BY <2>2, <2>3
<1> QED BY <1>2, <1>4, <1>5 DEF Explored

(* The first activation of a check.                                        *)
LEMMA StartExplores ==
  ASSUME Ready, NEW M, NEW s, s = <<Frame(InitialPart(set), TRUE, 0, 0)>>
  PROVE  Explored(M, s)
<1>0. PICK p : p = InitialPart(set)
  OBVIOUS
<1>1. PICK f : f = Frame(p, TRUE, 0, 0)
  OBVIOUS
<1>2. f.perm = p /\ f.r = 0 /\ f.entered = FALSE /\ f.todo = <<>> /\ f.kept = <<>>
  BY <1>1 DEF Frame
<1>3. IsSeq(s) /\ Len(s) = 1 /\ s[1] = f
  <2>1. s = <<f>>
    BY <1>0, <1>1
  <2> QED BY <2>1, OneIsSeq
<1>4. Val \subseteq Nat /\ 0 \in Val
  BY ValFinite, NAssumption DEF Val
<1>5. Sane(p) /\ \A q : Respects(Diag, q) => Fits(p, q)
  BY <1>0, StartIsSane
<1>6. Good(M, p, 0)
  BY <1>4, <1>5 DEF Good, Agrees
<1>7. FrameGood(M, f)
  BY <1>2, <1>4, <1>6, EmptyIsSeq DEF FrameGood
<1>8. \A q : Respects(Diag, q) => Pending(f, q)
  BY <1>2, <1>5 DEF Pending
<1>9. \A i \in 1..Len(s) : s[i] = f
  <2>1. \A i \in 1..1 : i = 1
    OBVIOUS
  <2> QED BY <1>3, <2>1
<1>10. 1 \in 1..Len(s)
  BY <1>3
<1> QED BY <1>3, <1>7, <1>8, <1>9, <1>10 DEF Explored

(* What the steps make of an activation.                                   *)
Entered(f) == f.entered
Opened(f, o) == [f EXCEPT !.entered = TRUE, !.todo = o]
Advanced(f, h, sh) ==
  [f EXCEPT !.perm = IF Aliased(f.perm, f.r) THEN h.perm ELSE f.perm,
            !.todo = IF h.stop THEN <<>> ELSE Tail(f.todo),
            !.kept = IF h.keep THEN Append(f.kept, [perm |-> h.perm, shared |-> sh])
                     ELSE f.kept]
Shortened(f, c) == [f EXCEPT !.kept = c]

LEMMA EnterExplores ==
  ASSUME Ready, NEW M, NEW f, IsFrame(f), FrameGood(M, f),
         NEW g, g = Opened(f, options(f.perm, f.r))
  PROVE  FrameGood(M, g) /\ \A q : Pending(f, q) => Pending(g, q)
<1>0. PICK p, r : p = f.perm /\ r = f.r
  OBVIOUS
<1>1. PICK o : p = f.perm /\ r = f.r /\ o = options(p, r)
  BY <1>0
<1>2. /\ g.perm = p /\ g.entered = TRUE /\ g.todo = o /\ g.kept = f.kept /\ g.r = r
  <2>1. g = [f EXCEPT !.entered = TRUE, !.todo = o]
    BY <1>1 DEF Opened
  <2>2. PICK s, d, e, t, k :
          f = [perm |-> p, shared |-> s, r |-> r, d |-> d, entered |-> e, todo |-> t, kept |-> k]
    BY <1>0 DEF IsFrame
  <2>3. g = [perm |-> p, shared |-> s, r |-> r, d |-> d, entered |-> TRUE, todo |-> o, kept |-> k]
    BY <2>1, <2>2
  <2> QED BY <1>1, <2>2, <2>3
<1>3. r \in Val /\ Good(M, p, r) /\ Sane(p)
  BY <1>1 DEF FrameGood, Good
<1>4. IsSeq(o)
  BY <1>1, <1>3, OptionsAreSeq
<1>5. Offered(p, r) = {o[k] : k \in 1..Len(o)}
  <2>1. DOMAIN o = 1..Len(o)
    BY <1>4 DEF IsSeq
  <2> QED BY <1>1, <2>1 DEF Offered
<1>6. FrameGood(M, g)
  BY <1>1, <1>2, <1>3, <1>4, <1>5 DEF FrameGood
<1>7. ASSUME NEW q, Pending(f, q)
      PROVE  Pending(g, q)
  <2>1. CASE Fits(p, q)
    <3>1. q[r] \in Offered(p, r)
      BY <1>3, <2>1, FitsOffered
    <3>2. PICK k \in 1..Len(o) : q[r] = o[k]
      BY <1>5, <3>1
    <3> QED BY <1>2, <2>1, <3>2 DEF Pending
  <2>2. CASE ~ Fits(p, q)
    BY <1>1, <1>2, <1>7, <2>2 DEF Pending
  <2> QED BY <2>1, <2>2
<1> QED BY <1>6, <1>7

LEMMA FrameRefilled ==
  ASSUME NEW f, IsFrame(f), NEW a, NEW b, NEW c,
         NEW g, g = [f EXCEPT !.perm = a, !.todo = b, !.kept = c]
  PROVE  Refilled(f, g, a, b, c)
<1>1. Refilled(f, [f EXCEPT !.perm = a, !.todo = b, !.kept = c], a, b, c)
  BY FrameFiltered
<1> QED BY <1>1

(* A call throws a good clause, or what is pending stays pending.          *)
Advances(M, f, g, res) ==
  \/ \E C : res = Thrown(C) /\ GoodClause(C)
  \/ /\ res = Returned /\ FrameGood(M, g)
     /\ \A q : Less(M, q) /\ Pending(f, q) => Pending(g, q)

(* An option is filtered.                                                  *)
LEMMA FilterExplores ==
  ASSUME Ready, NEW M, FullOf(M), N > 1, NEW f, IsFrame(f), IsSeq(f.kept), FrameGood(M, f),
         Entered(f), f.todo # <<>>,
         NEW h, h = filterOption(f.perm, Head(f.todo), f.r), NEW sh,
         NEW g, g = Advanced(f, h, sh)
  PROVE  Advances(M, f, g, h.res)
<1>1. PICK p, r, v : p = f.perm /\ r = f.r /\ v = Head(f.todo)
  OBVIOUS
<1>2. /\ r \in Val /\ Val \subseteq Nat /\ Good(M, p, r) /\ Sane(p)
      /\ IsSeq(f.todo) /\ \A k \in 1..Len(f.todo) : f.todo[k] \in Offered(p, r)
      /\ \A k \in 1..Len(f.kept) : Good(M, f.kept[k].perm, r + 1)
  BY <1>1, ValFinite DEF FrameGood, Good
<1>3. PICK t : t = Tail(f.todo)
  OBVIOUS
<1>4. /\ Len(f.todo) \in Nat \ {0} /\ IsSeq(t) /\ Len(t) = Len(f.todo) - 1
      /\ \A k \in 1..(Len(f.todo) - 1) : t[k] = f.todo[k + 1]
      /\ v = f.todo[1]
  BY <1>1, <1>2, <1>3, TailIsSeq
<1>5. v \in Offered(p, r)
  BY <1>2, <1>4
<1>6. FilterGood(M, p, v, r, h)
  BY <1>1, <1>2, <1>5, OptionFiltered
<1>7. PICK a, b, c, e :
        /\ e = [perm |-> h.perm, shared |-> sh]
        /\ a = IF fixed(p, r) THEN h.perm ELSE p
        /\ b = IF h.stop THEN <<>> ELSE t
        /\ c = IF h.keep THEN Append(f.kept, e) ELSE f.kept
  OBVIOUS
<1>8. g.perm = a /\ g.todo = b /\ g.kept = c /\ g.r = r
  <2>1. g = [f EXCEPT !.perm = a, !.todo = b, !.kept = c]
    BY <1>1, <1>3, <1>7 DEF Aliased, Advanced
  <2>2. Refilled(f, g, a, b, c)
    BY <2>1, FrameRefilled
  <2> QED BY <1>1, <2>2 DEF Refilled, SameFrame
<1>9. fixed(p, r) => \A q : Fits(p, q) => q[r] = v
  BY <1>2, <1>5, OfferedFixed, ImageKnown
<1>10. ASSUME NEW q, \E k \in 1..Len(f.todo) : q[r] = f.todo[k] /\ Fits(p, q), q[r] # v
       PROVE  /\ \E k \in 1..Len(t) : q[r] = t[k]
              /\ a = p /\ Fits(p, q)
  <2>1. PICK k \in 1..Len(f.todo) : q[r] = f.todo[k] /\ Fits(p, q)
    BY <1>10
  <2>2. k # 1
    BY <1>4, <1>10, <2>1
  <2>3. k - 1 \in 1..Len(t) /\ t[k - 1] = f.todo[k]
    BY <1>4, <2>2
  <2> QED BY <1>7, <1>9, <1>10, <2>1, <2>3
<1>11. CASE h.res = Returned /\ ~ h.stop /\ h.keep /\ Good(M, h.perm, r + 1)
            /\ (\A q : Fits(h.perm, q) => Fits(p, q))
            /\ (\A q : Fits(p, q) /\ q[r] = v /\ Less(M, q) => Fits(h.perm, q))
  <2>1. b = t /\ c = Append(f.kept, e) /\ e.perm = h.perm
    BY <1>7, <1>11
  <2>2. /\ Len(c) = Len(f.kept) + 1 /\ c[Len(f.kept) + 1] = e /\ Len(f.kept) \in Nat
        /\ \A k \in 1..Len(f.kept) : c[k] = f.kept[k]
    BY <2>1, AppendIsSeq DEF IsSeq
  <2>3. Good(M, a, r)
    BY <1>2, <1>7, <1>11, GoodBefore
  <2>4. \A k \in 1..Len(c) : Good(M, c[k].perm, r + 1)
    <3> TAKE k \in 1..Len(c)
    <3>1. k = Len(f.kept) + 1 \/ k \in 1..Len(f.kept)
      BY <2>2
    <3> QED BY <1>2, <1>11, <2>1, <2>2, <3>1
  <2>5. Offered(a, r) = Offered(p, r)
    <3>1. CASE fixed(p, r)
      <4>1. Sane(h.perm) /\ fixed(h.perm, r) /\ a = h.perm
        BY <1>2, <1>7, <1>11, <3>1, GoodBefore DEF Good
      <4>2. PICK q : Fits(h.perm, q)
        BY <4>1, SaneFits
      <4>3. q[r] = permOf(h.perm, r) /\ q[r] = permOf(p, r)
        BY <1>2, <1>11, <3>1, <4>1, <4>2, ImageKnown
      <4>4. Offered(p, r) = {permOf(p, r)}
        BY <1>2, <3>1, OfferedFixed
      <4>5. Offered(h.perm, r) = {permOf(h.perm, r)}
        BY <1>2, <4>1, OfferedFixed
      <4> QED BY <4>1, <4>3, <4>4, <4>5
    <3>2. CASE ~ fixed(p, r)
      BY <1>7, <3>2
    <3> QED BY <3>1, <3>2
  <2>6. \A k \in 1..Len(t) : t[k] \in Offered(a, r)
    <3> TAKE k \in 1..Len(t)
    <3>1. k + 1 \in 1..Len(f.todo) /\ t[k] = f.todo[k + 1]
      BY <1>4
    <3> QED BY <1>2, <2>5, <3>1
  <2>7. FrameGood(M, g)
    BY <1>2, <1>4, <1>8, <2>1, <2>3, <2>4, <2>6 DEF FrameGood
  <2>8. ASSUME NEW q, Less(M, q), Pending(f, q)
        PROVE  Pending(g, q)
    <3>1. CASE \E k \in 1..Len(f.kept) : Fits(f.kept[k].perm, q)
      <4>1. PICK k \in 1..Len(f.kept) : Fits(f.kept[k].perm, q)
        BY <3>1
      <4>2. k \in 1..Len(c) /\ c[k] = f.kept[k]
        BY <2>2
      <4> QED BY <1>8, <4>1, <4>2 DEF Pending, Entered
    <3>2. CASE \E k \in 1..Len(f.todo) : q[r] = f.todo[k] /\ Fits(p, q)
      <4>1. CASE q[r] = v
        <5>1. Fits(e.perm, q)
          BY <1>11, <2>1, <2>8, <3>2, <4>1
        <5>2. Len(f.kept) + 1 \in 1..Len(c)
          BY <2>2
        <5> QED BY <1>8, <2>2, <5>1, <5>2 DEF Pending, Entered
      <4>2. CASE q[r] # v
        <5>1. (\E k \in 1..Len(t) : q[r] = t[k]) /\ Fits(a, q)
          BY <1>10, <3>2, <4>2
        <5> QED BY <1>8, <2>1, <5>1 DEF Pending, Entered
      <4> QED BY <4>1, <4>2
    <3> QED BY <1>1, <2>8, <3>1, <3>2 DEF Pending, Entered
  <2> QED BY <1>11, <2>7, <2>8 DEF Advances
<1>12. CASE h.res = Returned /\ ~ h.stop /\ ~ h.keep /\ (fixed(p, r) => h.perm = p)
            /\ \A q : Fits(p, q) /\ q[r] = v => ~ Less(M, q)
  <2>1. b = t /\ c = f.kept /\ a = p
    BY <1>7, <1>12
  <2>2. \A k \in 1..Len(t) : t[k] \in Offered(p, r)
    <3> TAKE k \in 1..Len(t)
    <3>1. k + 1 \in 1..Len(f.todo) /\ t[k] = f.todo[k + 1]
      BY <1>4
    <3> QED BY <1>2, <3>1
  <2>3. FrameGood(M, g)
    BY <1>2, <1>4, <1>8, <2>1, <2>2 DEF FrameGood
  <2>4. ASSUME NEW q, Less(M, q), Pending(f, q)
        PROVE  Pending(g, q)
    <3>1. CASE \E k \in 1..Len(f.kept) : Fits(f.kept[k].perm, q)
      BY <1>8, <2>1, <3>1 DEF Pending, Entered
    <3>2. CASE \E k \in 1..Len(f.todo) : q[r] = f.todo[k] /\ Fits(p, q)
      <4>1. q[r] # v
        BY <1>12, <2>4, <3>2
      <4>2. (\E k \in 1..Len(t) : q[r] = t[k]) /\ Fits(a, q)
        BY <1>10, <3>2, <4>1
      <4> QED BY <1>8, <2>1, <4>2 DEF Pending, Entered
    <3> QED BY <1>1, <2>4, <3>1, <3>2 DEF Pending, Entered
  <2> QED BY <1>12, <2>3, <2>4 DEF Advances
<1> QED BY <1>6, <1>11, <1>12 DEF FilterGood, Advances

(* The first kept permutation is taken out.                                *)
LEMMA FrameShortened ==
  ASSUME NEW f, IsFrame(f), NEW c, NEW g, g = Shortened(f, c)
  PROVE  g.perm = f.perm /\ g.r = f.r /\ g.todo = f.todo /\ g.kept = c
<1>1. PICK p, s, r, d, e, t, k :
        f = [perm |-> p, shared |-> s, r |-> r, d |-> d, entered |-> e, todo |-> t, kept |-> k]
  BY DEF IsFrame
<1>2. g = [perm |-> p, shared |-> s, r |-> r, d |-> d, entered |-> e, todo |-> t, kept |-> c]
  BY <1>1 DEF Shortened
<1> QED BY <1>1, <1>2

LEMMA TailExplores ==
  ASSUME NEW M, NEW f, IsFrame(f), IsSeq(f.kept), f.kept # <<>>, Entered(f), FrameGood(M, f),
         NEW g, g = Shortened(f, Tail(f.kept)), NEW o, o = Head(f.kept)
  PROVE  /\ FrameGood(M, g) /\ Good(M, o.perm, f.r + 1) /\ f.r \in Val
         /\ \A q : Pending(f, q) => Pending(g, q) \/ Fits(o.perm, q)
<1>1. PICK s, t : s = f.kept /\ t = Tail(s)
  OBVIOUS
<1>2. /\ Len(s) \in Nat \ {0} /\ IsSeq(t) /\ Len(t) = Len(s) - 1
      /\ \A k \in 1..(Len(s) - 1) : t[k] = s[k + 1]
      /\ o = s[1]
  BY <1>1, TailIsSeq
<1>3. g.perm = f.perm /\ g.r = f.r /\ g.todo = f.todo /\ g.kept = t
  <2>1. g = Shortened(f, t)
    BY <1>1
  <2> QED BY <2>1, FrameShortened
<1>4. \A k \in 1..Len(s) : Good(M, s[k].perm, f.r + 1)
  BY <1>1 DEF FrameGood
<1>5. Good(M, o.perm, f.r + 1)
  BY <1>2, <1>4
<1>6. \A k \in 1..Len(t) : Good(M, t[k].perm, f.r + 1)
  <2> TAKE k \in 1..Len(t)
  <2>1. k + 1 \in 1..Len(s) /\ t[k] = s[k + 1]
    BY <1>2
  <2> QED BY <1>4, <2>1
<1>7. FrameGood(M, g)
  BY <1>3, <1>6 DEF FrameGood
<1>8. ASSUME NEW q, Pending(f, q), ~ Fits(o.perm, q)
      PROVE  Pending(g, q)
  <2>1. CASE \E k \in 1..Len(f.todo) : q[f.r] = f.todo[k] /\ Fits(f.perm, q)
    BY <1>3, <2>1 DEF Pending
  <2>2. CASE \E k \in 1..Len(s) : Fits(s[k].perm, q)
    <3>1. PICK k \in 1..Len(s) : Fits(s[k].perm, q)
      BY <2>2
    <3>2. k # 1
      BY <1>2, <1>8, <3>1
    <3>3. k - 1 \in 1..Len(t) /\ t[k - 1] = s[k]
      BY <1>2, <3>2
    <3> QED BY <1>3, <3>1, <3>3 DEF Pending
  <2> QED BY <1>1, <1>8, <2>1, <2>2 DEF Pending, Entered
<1> QED BY <1>5, <1>7, <1>8 DEF FrameGood

(* A complete permutation is compared entry by entry.                      *)
LEMMA CompleteExplores ==
  ASSUME Ready, NEW M, FullOf(M), N > 1,
         NEW f, IsFrame(f), IsSeq(f.kept), f.kept # <<>>, Entered(f), FrameGood(M, f),
         NEW o, o = Head(f.kept), fullDefined(o.perm),
         NEW g, g = Shortened(f, Tail(f.kept)),
         NEW res, res = permFullyDefinedCheck(getPerm(o.perm), f.r)
  PROVE  \/ \E C : res = Thrown(C) /\ GoodClause(C)
         \/ /\ res = Returned /\ FrameGood(M, g)
            /\ \A q : Less(M, q) /\ Pending(f, q) => Pending(g, q)
<1>1. /\ FrameGood(M, g) /\ Good(M, o.perm, f.r + 1) /\ f.r \in Val
      /\ \A q : Pending(f, q) => Pending(g, q) \/ Fits(o.perm, q)
  BY TailExplores
<1>2. PICK p, r : p = o.perm /\ r = f.r
  OBVIOUS
<1>3. Sane(p) /\ Good(M, p, r) /\ r \in Val
  BY <1>1, <1>2, GoodBefore DEF Good
<1>4. Fits(p, getPerm(p)) /\ \A q : Fits(p, q) => q = getPerm(p)
  BY <1>2, <1>3, GetPermFits
<1>5. PICK z : z = getPerm(p)
  OBVIOUS
<1>6. Respects(Diag, z) /\ Agrees(M, z, r)
  BY <1>3, <1>4, <1>5 DEF Good, Fits
<1>7. res = permFullyDefinedCheck(z, r)
  BY <1>2, <1>5
<1>8. \/ res = Returned /\ ~ Less(M, z)
      \/ \E C : res = Thrown(C) /\ GoodClause(C)
  BY <1>3, <1>6, <1>7, CompleteChecked
<1>9. ASSUME ~ Less(M, z), NEW q, Less(M, q), Pending(f, q)
      PROVE  Pending(g, q)
  BY <1>1, <1>2, <1>4, <1>5, <1>9
<1> QED BY <1>1, <1>8, <1>9

(* Any other is extended in the next row.                                  *)
LEMMA DescendExplores ==
  ASSUME Ready, NEW M, IsSeq(stack), Len(stack) # 0, Explored(M, stack),
         NEW f, f = Top, IsFrame(f), IsSeq(f.kept), f.kept # <<>>, Entered(f),
         NEW o, o = Head(f.kept), ~ fullDefined(o.perm),
         NEW g, g = Shortened(f, Tail(f.kept)), NEW rest, rest = SetTop(g),
         NEW a, NEW b, NEW h, h = Frame(o.perm, a, f.r + 1, b), NEW s, s = Append(rest, h)
  PROVE  f.r < N - 1 /\ Explored(M, s)
<1>1. Len(stack) \in 1..Len(stack) /\ f = stack[Len(stack)] /\ FrameGood(M, f)
  BY TopExplored
<1>2. /\ FrameGood(M, g) /\ Good(M, o.perm, f.r + 1) /\ f.r \in Val
      /\ \A q : Pending(f, q) => Pending(g, q) \/ Fits(o.perm, q)
  BY <1>1, TailExplores
<1>3. PICK n : n = Len(stack)
  OBVIOUS
<1>4. /\ IsSeq(rest) /\ Len(rest) = n /\ n \in Nat \ {0}
      /\ rest[n] = g /\ \A i \in 1..(n - 1) : rest[i] = stack[i]
  BY <1>3, TopSet
<1>5. /\ IsSeq(s) /\ Len(s) = n + 1 /\ s[n + 1] = h /\ s[n] = g
      /\ \A i \in 1..(n - 1) : s[i] = stack[i]
  <2>1. Len(s) = n + 1 /\ s[n + 1] = h /\ IsSeq(s) /\ \A i \in 1..n : s[i] = rest[i]
    BY <1>4, AppendIsSeq
  <2>2. n \in 1..n /\ \A i \in 1..(n - 1) : i \in 1..n
    BY <1>4
  <2> QED BY <1>4, <2>1, <2>2
<1>6. /\ h.perm = o.perm /\ h.r = f.r + 1 /\ h.entered = FALSE
      /\ h.todo = <<>> /\ h.kept = <<>>
  BY DEF Frame
<1>7. f.r < N - 1 /\ f.r + 1 \in Val
  <2>1. PICK x \in Val : ~ fixed(o.perm, x)
    BY DEF fullDefined
  <2>2. ~ (x < f.r + 1)
    BY <1>2, <2>1 DEF Good
  <2>3. N \in Nat /\ f.r \in 0..(N - 1) /\ x \in 0..(N - 1)
    BY <1>2, NAssumption DEF Val
  <2>4. f.r < N - 1 /\ f.r + 1 \in 0..(N - 1)
    BY <2>2, <2>3
  <2> QED BY <2>4 DEF Val
<1>8. FrameGood(M, h)
  <2>1. Good(M, h.perm, h.r) /\ h.r \in Val
    BY <1>2, <1>6, <1>7
  <2>2. IsSeq(h.todo) /\ Len(h.todo) = 0 /\ Len(h.kept) = 0
    BY <1>6, EmptyIsSeq
  <2> QED BY <2>1, <2>2 DEF FrameGood
<1>9. \A i \in 1..(n + 1) : i = n + 1 \/ i = n \/ i \in 1..(n - 1)
  BY <1>4
<1>10. \A i \in 1..(n - 1) : i \in 1..Len(stack) /\ i \in 1..(n + 1)
  BY <1>3, <1>4
<1>11. \A i \in 1..Len(s) : FrameGood(M, s[i])
  <2> TAKE i \in 1..Len(s)
  <2>1. CASE i = n + 1
    BY <1>5, <1>8, <2>1
  <2>2. CASE i = n
    BY <1>2, <1>5, <2>2
  <2>3. CASE i \in 1..(n - 1)
    BY <1>5, <1>10, <2>3 DEF Explored
  <2> QED BY <1>5, <1>9, <2>1, <2>2, <2>3
<1>12. ASSUME NEW q, Respects(Diag, q), Less(M, q)
       PROVE  \E i \in 1..Len(s) : Pending(s[i], q)
  <2>1. PICK i \in 1..Len(stack) : Pending(stack[i], q)
    BY <1>12 DEF Explored
  <2>2. n \in 1..Len(s) /\ n + 1 \in 1..Len(s)
    BY <1>4, <1>5
  <2>3. CASE i = n
    <3>1. Pending(f, q)
      BY <1>1, <1>3, <2>1, <2>3
    <3>2. CASE Pending(g, q)
      BY <1>5, <2>2, <3>2
    <3>3. CASE Fits(o.perm, q)
      <4>1. Pending(h, q)
        BY <1>6, <3>3 DEF Pending
      <4> QED BY <1>5, <2>2, <4>1
    <3> QED BY <1>2, <3>1, <3>2, <3>3
  <2>4. CASE i # n
    <3>1. i \in 1..(n - 1)
      BY <1>3, <1>4, <2>4
    <3> QED BY <1>5, <1>10, <2>1, <3>1
  <2> QED BY <2>3, <2>4
<1> QED BY <1>7, <1>11, <1>12 DEF Explored

(* An activation without options and kept permutations is done.            *)
LEMMA ReturnExplores ==
  ASSUME NEW M, IsSeq(stack), Len(stack) # 0, Explored(M, stack),
         Entered(Top), Top.todo = <<>>, Top.kept = <<>>, NEW s, s = Front(stack)
  PROVE  Explored(M, s) /\ IsSeq(s)
<1>1. Len(stack) \in 1..Len(stack) /\ Top = stack[Len(stack)]
  BY TopExplored
<1>2. PICK n : n = Len(stack)
  OBVIOUS
<1>3. /\ n \in Nat \ {0} /\ IsSeq(s) /\ Len(s) = n - 1
      /\ \A k \in 1..(n - 1) : s[k] = stack[k]
  BY <1>2, FrontIsSeq DEF IsSeq
<1>4. ASSUME NEW q, Pending(Top, q)
      PROVE  FALSE
  <2>1. Len(Top.todo) = 0 /\ Len(Top.kept) = 0
    BY EmptyIsSeq
  <2> QED BY <1>4, <2>1 DEF Pending, Entered
<1>5. \A i \in 1..(n - 1) : i \in 1..Len(stack)
  BY <1>2, <1>3
<1>6. \A i \in 1..Len(s) : FrameGood(M, s[i])
  BY <1>3, <1>5 DEF Explored
<1>7. ASSUME NEW q, Respects(Diag, q), Less(M, q)
      PROVE  \E i \in 1..Len(s) : Pending(s[i], q)
  <2>1. PICK i \in 1..Len(stack) : Pending(stack[i], q)
    BY <1>7 DEF Explored
  <2>2. i # n
    BY <1>1, <1>2, <1>4, <2>1
  <2>3. i \in 1..(n - 1)
    BY <1>2, <1>3, <2>2
  <2> QED BY <1>3, <2>1, <2>3
<1> QED BY <1>3, <1>6, <1>7 DEF Explored
-----------------------------------------------------------------------------
(* The check of a full table.                                              *)
NoneLess(M) == \A q : Respects(Diag, q) => ~ Less(M, q)

RightFor(M, res, s, C) ==
  /\ res \in {"running", "passed", "clause"}
  /\ res = "running" => Explored(M, s)
  /\ res = "passed" => NoneLess(M)
  /\ res = "clause" => GoodClause(C)

Flags ==
  /\ diagIsId \in BOOLEAN /\ (diagIsId => Diag = Identity) /\ (~ diagPart => diagIsId)

Right ==
  result # "idle" /\ Full(dom) =>
    /\ final
    /\ \E x \in Doms : x[1] = set.diag /\ dom = x[2]
    /\ RightFor(Table, result, stack, clause)

FullInv == KeptInv /\ Flags /\ Right

LEMMA FullInvReady ==
  ASSUME DiagonalsBuilt, FullInv
  PROVE  Ready
BY DEF FullInv, KeptInv, Flags, Ready

(* What a step that keeps the setting leaves alone.                        *)
LEMMA SameDiagonal ==
  ASSUME set' = set
  PROVE  diagPart' = diagPart /\ Diag' = Diag /\ Kind' = Kind
BY DEF diagPart, Diag, Kind

LEMMA SameExplored ==
  ASSUME set' = set, NEW M, NEW s
  PROVE  Explored(M, s)' <=> Explored(M, s)
<1>1. Diag' = Diag /\ Kind' = Kind
  BY SameDiagonal
<1>2. \A q : Respects(Diag, q)' <=> Respects(Diag, q)
  BY <1>1 DEF Respects, Commutes
<1>3. \A p : Sane(p)' <=> Sane(p)
  BY <1>1 DEF Sane, Stands, Sound, Filled, Whole, Within, Commutes, As
<1>4. \A p, q : Fits(p, q)' <=> Fits(p, q)
  BY <1>2 DEF Fits
<1>5. \A p, r : Good(M, p, r)' <=> Good(M, p, r)
  BY <1>3, <1>4 DEF Good
<1>6. \A f : FrameGood(M, f)' <=> FrameGood(M, f)
  BY <1>5 DEF FrameGood
<1>7. \A f, q : Pending(f, q)' <=> Pending(f, q)
  BY <1>4 DEF Pending
<1> QED BY <1>2, <1>6, <1>7 DEF Explored

LEMMA SameNoneLess ==
  ASSUME set' = set, NEW M
  PROVE  NoneLess(M)' <=> NoneLess(M)
<1>1. Diag' = Diag
  BY SameDiagonal
<1>2. \A q : Respects(Diag, q)' <=> Respects(Diag, q)
  BY <1>1 DEF Respects, Commutes
<1> QED BY <1>2 DEF NoneLess

LEMMA SameGoodClause ==
  ASSUME set' = set, dom' = dom, NEW C
  PROVE  GoodClause(C)' <=> GoodClause(C)
<1>1. Diag' = Diag /\ diagPart' = diagPart
  BY SameDiagonal
<1>2. \A q : Respects(Diag, q)' <=> Respects(Diag, q)
  BY <1>1 DEF Respects, Commutes
<1>3. \A T : Reducible(T)' <=> Reducible(T)
  BY <1>2 DEF Reducible
<1>4. \A T : IsTable(T)' <=> IsTable(T)
  BY <1>1 DEF IsTable
<1>5. \A l : Usable(l)' <=> Usable(l)
  BY DEF Usable, False
<1> QED BY <1>3, <1>4, <1>5 DEF GoodClause

LEMMA SameRight ==
  ASSUME set' = set, dom' = dom, NEW M, NEW res, NEW s, NEW C
  PROVE  RightFor(M, res, s, C)' <=> RightFor(M, res, s, C)
BY SameExplored, SameNoneLess, SameGoodClause DEF RightFor

(* preCheck lets a full table pass only when all its rows are the identity.*)
LEMMA PassedAtOnce ==
  ASSUME NEW M, IsTable(M), NEW D, \A r, c \in Val : D[r][c] = {M[r][c]}, preCheck(D)
  PROVE  NoneLess(M)
<1>1. \A r, c \in Val : M[r][c] = c
  <2>1. ~ \E r, c1, c2 \in Val : c1 # c2 /\ D[r][c1] = D[r][c2] /\ Cardinality(D[r][c1]) = 1
    <3> SUFFICES ASSUME NEW r \in Val, NEW c1 \in Val, NEW c2 \in Val, c1 # c2,
                        D[r][c1] = D[r][c2]
                 PROVE  FALSE
      OBVIOUS
    <3>1. M[r][c1] = M[r][c2]
      <4>1. D[r][c1] = {M[r][c1]} /\ D[r][c2] = {M[r][c2]}
        OBVIOUS
      <4> QED BY <4>1
    <3>2. Permutes(M[r])
      BY DEF IsTable
    <3> QED BY <3>1, <3>2 DEF Permutes
  <2>2. ~ \E r, c \in Val : D[r][c] = {}
    OBVIOUS
  <2>3. \A r, c \in Val : D[r][c] = {c}
    BY <2>1, <2>2 DEF preCheck
  <2> TAKE r, c \in Val
  <2>4. D[r][c] = {c} /\ D[r][c] = {M[r][c]}
    BY <2>3
  <2> QED BY <2>4
<1>2. ASSUME NEW q, Respects(Diag, q), Less(M, q)
      PROVE  FALSE
  <2>1. PICK r, c \in Val : Ren(M, q, r, c) < M[r][c]
    BY <1>2 DEF Less
  <2>2. Permutes(q)
    BY <1>2 DEF Respects
  <2>3. q[r] \in Val /\ q[c] \in Val /\ \A z \in Val : q[z] = M[q[r]][q[c]] => z = Ren(M, q, r, c)
    BY <2>2, RenamedEntry
  <2>4. M[q[r]][q[c]] = q[c]
    BY <1>1, <2>3
  <2>5. Ren(M, q, r, c) = c /\ M[r][c] = c
    BY <1>1, <2>3, <2>4
  <2>6. c \in Nat
    BY ValFinite
  <2> QED BY <2>1, <2>5, <2>6
<1> QED BY <1>2 DEF NoneLess

LEMMA CheckRight ==
  ASSUME DiagonalsBuilt, CompleteAreTables, FullInv, checkMin
  PROVE  Right'
<1>1. PICK x \in Doms : x[1] = set.diag /\ dom' = x[2]
  BY DEF checkMin
<1>2. set' = set /\ set \in Settings /\ initialPart = InitialPart(set) /\ Ready
  BY FullInvReady DEF checkMin, FullInv, KeptInv
<1>3. CASE Full(x[2])
  <2>1. PICK M, D : M = FullTable(x[2]) /\ D = x[2]
    OBVIOUS
  <2>2. IsTable(M) /\ \A r, c \in Val : D[r][c] = {M[r][c]}
    BY <1>1, <1>2, <1>3, <2>1, TableOfIs
  <2>3. final'
    BY <1>1, <1>3 DEF checkMin, IsFinal
  <2>4. M = Table'
    BY <1>1, <2>1 DEF Table, FullTable
  <2>5. CASE preCheck(D)
    <3>1. NoneLess(M)
      BY <2>2, <2>5, PassedAtOnce
    <3>2. result' = "passed"
      BY <1>1, <2>1, <2>5 DEF checkMin
    <3>3. NoneLess(M)'
      BY <1>2, <3>1, SameNoneLess
    <3>4. RightFor(Table, result, stack, clause)'
      BY <2>4, <3>2, <3>3 DEF RightFor
    <3> QED BY <1>1, <1>2, <2>3, <3>4 DEF Right
  <2>6. CASE ~ preCheck(D)
    <3>1. PICK s : s = <<Frame(InitialPart(set), TRUE, 0, 0)>>
      OBVIOUS
    <3>2. result' = "running" /\ stack' = s
      BY <1>1, <1>2, <2>1, <2>6, <3>1 DEF checkMin
    <3>3. Explored(M, s)
      BY <1>2, <3>1, StartExplores
    <3>4. Explored(M, s)'
      BY <1>2, <3>3, SameExplored
    <3>5. RightFor(Table, result, stack, clause)'
      BY <2>4, <3>2, <3>4 DEF RightFor
    <3> QED BY <1>1, <1>2, <2>3, <3>5 DEF Right
  <2> QED BY <2>5, <2>6
<1>4. CASE ~ Full(x[2])
  BY <1>1, <1>4 DEF Right, Full
<1> QED BY <1>3, <1>4

(* Every other step but the last is about the same table.                  *)
LEMMA RightGoesOn ==
  ASSUME FullInv, result # "idle", UNCHANGED <<set, dom, final>>,
         NEW M, M = Table, NEW res, NEW s, NEW C, res = result', s = stack', C = clause',
         Full(dom) => RightFor(M, res, s, C)
  PROVE  Right'
<1>1. Table' = M
  BY DEF Table, FullTable
<1>2. Full(dom)' <=> Full(dom)
  BY DEF Full
<1>3. CASE Full(dom)
  <2>1. RightFor(M, res, s, C)'
    BY <1>3, SameRight
  <2>2. RightFor(Table, result, stack, clause)'
    BY <1>1, <2>1
  <2>3. final /\ \E x \in Doms : x[1] = set.diag /\ dom = x[2]
    BY <1>3 DEF FullInv, Right
  <2> QED BY <2>2, <2>3 DEF Right
<1>4. CASE ~ Full(dom)
  BY <1>2, <1>4 DEF Right
<1> QED BY <1>3, <1>4

LEMMA SearchedTable ==
  ASSUME DiagonalsBuilt, CompleteAreTables, FullInv, result = "running", Full(dom)
  PROVE  /\ Ready /\ FullOf(Table) /\ N > 1 /\ final /\ Explored(Table, stack)
         /\ IsSeq(stack) /\ Len(stack) # 0 /\ IsFrame(Top) /\ IsSeq(Top.kept)
         /\ FrameGood(Table, Top)
<1>1. Ready /\ N > 1 /\ set \in Settings
  BY FullInvReady, SearchedDomains DEF FullInv, KeptInv
<1>2. final /\ Explored(Table, stack) /\ \E x \in Doms : x[1] = set.diag /\ dom = x[2]
  BY DEF FullInv, Right, RightFor
<1>3. FullOf(Table)
  BY <1>1, <1>2, FullTableIs
<1>4. IsSeq(stack) /\ Len(stack) # 0 /\ IsFrame(Top) /\ IsSeq(Top.kept)
  BY TopRight DEF FullInv, SharedRight
<1>5. PICK M : M = Table
  OBVIOUS
<1>6. FrameGood(M, Top)
  BY <1>2, <1>4, <1>5, TopExplored
<1> QED BY <1>1, <1>2, <1>3, <1>4, <1>5, <1>6

LEMMA EnterRight ==
  ASSUME DiagonalsBuilt, CompleteAreTables, FullInv, EnterRow
  PROVE  Right'
<1>1. result = "running" /\ UNCHANGED <<set, dom, final, clause>> /\ ~ Top.entered
  BY DEF EnterRow
<1>2. PICK M, res, s, C : M = Table /\ res = result' /\ s = stack' /\ C = clause'
  OBVIOUS
<1>3. ASSUME Full(dom)
      PROVE  RightFor(M, res, s, C)
  <2>1. /\ Ready /\ FullOf(M) /\ final /\ Explored(M, stack)
        /\ IsSeq(stack) /\ Len(stack) # 0 /\ IsFrame(Top) /\ FrameGood(M, Top)
    BY <1>1, <1>2, <1>3, SearchedTable
  <2>2. ~ OutOfSteps(its')
    BY <2>1 DEF OutOfSteps
  <2>3. PICK f : f = Top
    OBVIOUS
  <2>4. PICK g : g = Opened(f, options(f.perm, f.r))
    OBVIOUS
  <2>5. s = SetTop(g) /\ res = "running"
    BY <1>1, <1>2, <2>2, <2>3, <2>4 DEF EnterRow, Opened
  <2>6. FrameGood(M, g) /\ \A q : Pending(f, q) => Pending(g, q)
    BY <2>1, <2>3, <2>4, EnterExplores
  <2>7. Explored(M, s)
    BY <2>1, <2>3, <2>5, <2>6, TopChanged
  <2> QED BY <2>5, <2>7 DEF RightFor
<1> QED BY <1>1, <1>2, <1>3, RightGoesOn

(* What becomes of a result that is right.                                 *)
LEMMA OutcomeRight ==
  ASSUME NEW M, NEW s, NEW f, NEW res, NEW C, NEW out,
         out = IF f.what = "none" THEN "running" ELSE f.what, C = f.clause,
         \/ \E D : f = Thrown(D) /\ GoodClause(D)
         \/ f = Returned /\ Explored(M, s)
  PROVE  RightFor(M, out, s, C)
<1>1. CASE \E D : f = Thrown(D) /\ GoodClause(D)
  <2>1. PICK D : f = Thrown(D) /\ GoodClause(D)
    BY <1>1
  <2>2. out = "clause" /\ C = D
    BY <2>1 DEF Thrown
  <2> QED BY <2>1, <2>2 DEF RightFor
<1>2. CASE f = Returned /\ Explored(M, s)
  <2>1. out = "running"
    BY <1>2 DEF Returned
  <2> QED BY <1>2, <2>1 DEF RightFor
<1> QED BY <1>1, <1>2

LEMMA FilterRight ==
  ASSUME DiagonalsBuilt, CompleteAreTables, FullInv, Filter
  PROVE  Right'
<1>1. /\ result = "running" /\ UNCHANGED <<set, dom, final>>
      /\ Top.entered /\ Top.todo # <<>>
  BY DEF Filter
<1>2. PICK M, res, s, C : M = Table /\ res = result' /\ s = stack' /\ C = clause'
  OBVIOUS
<1>3. ASSUME Full(dom)
      PROVE  RightFor(M, res, s, C)
  <2>1. /\ Ready /\ FullOf(M) /\ N > 1 /\ Explored(M, stack)
        /\ IsSeq(stack) /\ Len(stack) # 0
        /\ IsFrame(Top) /\ IsSeq(Top.kept) /\ FrameGood(M, Top)
    BY <1>1, <1>2, <1>3, SearchedTable
  <2>2. PICK f : f = Top
    OBVIOUS
  <2>3. PICK h : h = filterOption(f.perm, Head(f.todo), f.r)
    OBVIOUS
  <2>4. PICK sh : sh = (Aliased(f.perm, f.r) /\ f.shared)
    OBVIOUS
  <2>5. PICK g : g = Advanced(f, h, sh)
    OBVIOUS
  <2>6. s = SetTop(g) /\ Outcome(h.res)
    BY <1>2, <2>2, <2>3, <2>4, <2>5 DEF Filter, Advanced
  <2>7. \/ \E D : h.res = Thrown(D) /\ GoodClause(D)
        \/ /\ h.res = Returned /\ FrameGood(M, g)
           /\ \A q : Less(M, q) /\ Pending(f, q) => Pending(g, q)
    <3>1. Entered(f) /\ f.todo # <<>>
      BY <1>1, <2>2 DEF Entered
    <3>2. IsFrame(f) /\ IsSeq(f.kept) /\ FrameGood(M, f)
      BY <2>1, <2>2
    <3>3. Advances(M, f, g, h.res)
      BY <2>1, <2>3, <2>5, <3>1, <3>2, FilterExplores
    <3> QED BY <3>3 DEF Advances
  <2>8. \/ \E D : h.res = Thrown(D) /\ GoodClause(D)
        \/ h.res = Returned /\ Explored(M, s)
    <3>1. CASE h.res = Returned /\ FrameGood(M, g)
               /\ \A q : Less(M, q) /\ Pending(f, q) => Pending(g, q)
      <4>1. Explored(M, s)
        BY <2>1, <2>2, <2>6, <3>1, TopChanged
      <4> QED BY <3>1, <4>1
    <3> QED BY <2>7, <3>1
  <2>9. PICK e : e = h.res
    OBVIOUS
  <2>10. res = (IF e.what = "none" THEN "running" ELSE e.what) /\ C = e.clause
    BY <1>2, <2>6, <2>9 DEF Outcome
  <2> QED BY <2>8, <2>9, <2>10, OutcomeRight
<1> QED BY <1>1, <1>2, <1>3, RightGoesOn

LEMMA CompleteRight ==
  ASSUME DiagonalsBuilt, CompleteAreTables, FullInv, CheckComplete
  PROVE  Right'
<1>1. /\ result = "running" /\ UNCHANGED <<set, dom, final>>
      /\ Top.entered /\ Top.kept # <<>> /\ fullDefined(Head(Top.kept).perm)
  BY DEF CheckComplete
<1>2. PICK M, res, s, C : M = Table /\ res = result' /\ s = stack' /\ C = clause'
  OBVIOUS
<1>3. ASSUME Full(dom)
      PROVE  RightFor(M, res, s, C)
  <2>1. /\ Ready /\ FullOf(M) /\ N > 1 /\ Explored(M, stack)
        /\ IsSeq(stack) /\ Len(stack) # 0
        /\ IsFrame(Top) /\ IsSeq(Top.kept) /\ FrameGood(M, Top)
    BY <1>1, <1>2, <1>3, SearchedTable
  <2>2. PICK f : f = Top
    OBVIOUS
  <2>3. PICK o : o = Head(f.kept)
    OBVIOUS
  <2>4. PICK g : g = Shortened(f, Tail(f.kept))
    OBVIOUS
  <2>5. PICK e : e = permFullyDefinedCheck(getPerm(o.perm), f.r)
    OBVIOUS
  <2>6. s = SetTop(g) /\ Outcome(e)
    BY <1>2, <2>2, <2>3, <2>4, <2>5 DEF CheckComplete, Shortened
  <2>7. \/ \E D : e = Thrown(D) /\ GoodClause(D)
        \/ /\ e = Returned /\ FrameGood(M, g)
           /\ \A q : Less(M, q) /\ Pending(f, q) => Pending(g, q)
    <3>1. Entered(f) /\ f.kept # <<>> /\ fullDefined(o.perm)
      BY <1>1, <2>2, <2>3 DEF Entered
    <3> QED BY <2>1, <2>2, <2>3, <2>4, <2>5, <3>1, CompleteExplores
  <2>8. \/ \E D : e = Thrown(D) /\ GoodClause(D)
        \/ e = Returned /\ Explored(M, s)
    <3>1. CASE e = Returned /\ FrameGood(M, g)
               /\ \A q : Less(M, q) /\ Pending(f, q) => Pending(g, q)
      <4>1. Explored(M, s)
        BY <2>1, <2>2, <2>6, <3>1, TopChanged
      <4> QED BY <3>1, <4>1
    <3> QED BY <2>7, <3>1
  <2>9. res = (IF e.what = "none" THEN "running" ELSE e.what) /\ C = e.clause
    BY <1>2, <2>6 DEF Outcome
  <2> QED BY <2>8, <2>9, OutcomeRight
<1> QED BY <1>1, <1>2, <1>3, RightGoesOn

LEMMA DescendRight ==
  ASSUME DiagonalsBuilt, CompleteAreTables, FullInv, Descend
  PROVE  Right'
<1>1. /\ result = "running" /\ UNCHANGED <<set, dom, final, result>>
      /\ Top.entered /\ Top.kept # <<>> /\ ~ fullDefined(Head(Top.kept).perm)
  BY DEF Descend
<1>2. PICK M, res, s, C : M = Table /\ res = result' /\ s = stack' /\ C = clause'
  OBVIOUS
<1>3. ASSUME Full(dom)
      PROVE  RightFor(M, res, s, C)
  <2>1. /\ Ready /\ final /\ Explored(M, stack)
        /\ IsSeq(stack) /\ Len(stack) # 0 /\ IsFrame(Top) /\ IsSeq(Top.kept)
    BY <1>1, <1>2, <1>3, SearchedTable
  <2>2. PICK f : f = Top
    OBVIOUS
  <2>3. PICK o : o = Head(f.kept)
    OBVIOUS
  <2>4. PICK g : g = Shortened(f, Tail(f.kept))
    OBVIOUS
  <2>5. PICK a, b : a = o.shared /\ b = f.d + 1
    OBVIOUS
  <2>6. PICK h : h = Frame(o.perm, a, f.r + 1, b)
    OBVIOUS
  <2>7. PICK rest : rest = SetTop(g)
    OBVIOUS
  <2>8. PICK t : t = Append(rest, h)
    OBVIOUS
  <2>9. s = IF f.r < N - 1 /\ (final \/ f.d + 1 <= set.maxDepth) THEN t ELSE rest
    BY <1>2, <2>2, <2>3, <2>4, <2>5, <2>6, <2>7, <2>8 DEF Descend, Shortened
  <2>10. f.r < N - 1 /\ Explored(M, t)
    <3>1. Entered(f) /\ f.kept # <<>> /\ ~ fullDefined(o.perm)
      BY <1>1, <2>2, <2>3 DEF Entered
    <3> QED BY <2>1, <2>2, <2>3, <2>4, <2>6, <2>7, <2>8, <3>1, DescendExplores
  <2>11. Explored(M, s)
    BY <2>1, <2>9, <2>10
  <2>12. res = "running"
    BY <1>1, <1>2
  <2> QED BY <2>11, <2>12 DEF RightFor
<1> QED BY <1>1, <1>2, <1>3, RightGoesOn

LEMMA ReturnRight ==
  ASSUME DiagonalsBuilt, CompleteAreTables, FullInv, Return
  PROVE  Right'
<1>1. /\ result = "running" /\ UNCHANGED <<set, dom, final>> /\ stack' = Front(stack)
      /\ Top.entered /\ Top.todo = <<>> /\ Top.kept = <<>>
      /\ result' = IF stack' = <<>> THEN "passed" ELSE "running"
  BY DEF Return
<1>2. PICK M, res, s, C : M = Table /\ res = result' /\ s = stack' /\ C = clause'
  OBVIOUS
<1>3. ASSUME Full(dom)
      PROVE  RightFor(M, res, s, C)
  <2>1. Explored(M, stack) /\ IsSeq(stack) /\ Len(stack) # 0
    BY <1>1, <1>2, <1>3, SearchedTable
  <2>2. Explored(M, s)
    <3>1. Entered(Top) /\ s = Front(stack)
      BY <1>1, <1>2 DEF Entered
    <3> QED BY <1>1, <2>1, <3>1, ReturnExplores
  <2>3. CASE s = <<>>
    <3>1. Len(s) = 0
      BY <2>3, EmptyIsSeq
    <3>2. NoneLess(M)
      BY <2>2, <3>1 DEF Explored, NoneLess
    <3>3. res = "passed"
      BY <1>1, <1>2, <2>3
    <3> QED BY <3>2, <3>3 DEF RightFor
  <2>4. CASE s # <<>>
    <3>1. res = "running"
      BY <1>1, <1>2, <2>4
    <3> QED BY <2>2, <3>1 DEF RightFor
  <2> QED BY <2>3, <2>4
<1> QED BY <1>1, <1>2, <1>3, RightGoesOn

LEMMA StepRight ==
  ASSUME DiagonalsBuilt, DiagonalsKnown, CompleteAreTables, FullInv, Next
  PROVE  FullInv'
<1>1. KeptInv'
  BY StepKept DEF FullInv
<1>2. Flags'
  <2>1. set' = set /\ diagIsId' = diagIsId
    BY DEF Next, checkMin, EnterRow, Filter, CheckComplete, Descend, Return, Finish
  <2>2. Diag' = Diag /\ diagPart' = diagPart
    BY <2>1, SameDiagonal
  <2> QED BY <2>1, <2>2 DEF FullInv, Flags
<1>3. CASE Finish
  <2>1. Right'
    BY <1>3 DEF Finish, Right
  <2> QED BY <1>1, <1>2, <2>1 DEF FullInv
<1>4. CASE ~ Finish
  <2>1. Right'
    BY <1>4, CheckRight, EnterRight, FilterRight, CompleteRight, DescendRight, ReturnRight
       DEF Next
  <2> QED BY <1>1, <1>2, <2>1 DEF FullInv
<1> QED BY <1>3, <1>4

LEMMA AlwaysRight ==
  ASSUME DiagonalsBuilt, DiagonalsKnown, CompleteAreTables
  PROVE  Spec => []FullInv
<1>1. ASSUME Init
      PROVE  FullInv
  <2>1. KeptInv /\ Right
    BY <1>1 DEF Init, KeptInv, Right
  <2>2. Flags
    <3>1. Identity # NoDiagonal
      <4>1. 0 \in Val
        BY NAssumption DEF Val
      <4>2. DOMAIN Identity = Val
        BY DEF Identity
      <4> QED BY <4>1, <4>2 DEF NoDiagonal
    <3> QED BY <1>1, <3>1 DEF Init, Flags, Diag, diagPart
  <2> QED BY <2>1, <2>2 DEF FullInv
<1>2. FullInv /\ [Next]_vars => FullInv'
  <2>1. CASE Next
    BY <2>1, StepRight
  <2>2. ASSUME FullInv, UNCHANGED vars
        PROVE  FullInv'
    <3>1. UNCHANGED <<set, diagIsId, initialPart, dom, final, stack, result, clause>>
      BY <2>2 DEF vars
    <3>2. KeptInv'
      <4>1. CASE result = "running"
        <5>1. /\ IsSeq(stack) /\ Len(stack) # 0
              /\ \A i \in 1..Len(stack) : SharedRight(stack[i], i)
          BY <2>2, <4>1 DEF FullInv, KeptInv, Searching
        <5> QED BY <2>2, <3>1, <4>1, <5>1, SearchGoesOn DEF FullInv
      <4>2. CASE result # "running"
        BY <2>2, <3>1, <4>2 DEF FullInv, KeptInv, InitialPart
      <4> QED BY <4>1, <4>2
    <3>3. Flags'
      BY <2>2, <3>1, SameDiagonal DEF FullInv, Flags
    <3>4. Right'
      <4>1. CASE result = "idle"
        BY <3>1, <4>1 DEF Right
      <4>2. CASE result # "idle"
        <5>1. PICK M, res, s, C : M = Table /\ res = result /\ s = stack /\ C = clause
          OBVIOUS
        <5>2. Full(dom) => RightFor(M, res, s, C)
          BY <2>2, <4>2, <5>1 DEF FullInv, Right
        <5>3. res = result' /\ s = stack' /\ C = clause'
          BY <3>1, <5>1
        <5> QED BY <2>2, <3>1, <4>2, <5>1, <5>2, <5>3, RightGoesOn
      <4> QED BY <4>1, <4>2
    <3> QED BY <3>2, <3>3, <3>4 DEF FullInv
  <2> QED BY <2>1, <2>2
<1> QED BY <1>1, <1>2, PTL DEF Spec

(* A table no renaming of which is smaller is the representative.          *)
LEMMA MinimalIs ==
  ASSUME DiagonalsBuilt, set \in Settings, NEW M, <<set.diag, M>> \in Tables
  PROVE  <<set.diag, M>> \in Minimal <=> NoneLess(M)
<1>1. PICK x : x = <<set.diag, M>>
  OBVIOUS
<1>2. x \in Tables /\ x[1] = set.diag /\ x[2] = M
  BY <1>1
<1>3. IsTable(M)
  BY <1>2, TablesAre
<1>4. x \in Minimal <=> \A p \in Renamings(set.diag) : ~ CS!LexLess(CS!Renamed(M, p), M)
  BY <1>2 DEF Minimal, CS!IsMinimal
<1>5. ASSUME NEW p
      PROVE  p \in Renamings(set.diag) /\ CS!LexLess(CS!Renamed(M, p), M)
               <=> Respects(Diag, p) /\ Less(M, p)
  <2>1. p \in Renamings(set.diag) <=> Respects(Diag, p)
    BY GroupIs
  <2>2. Respects(Diag, p) => (CS!LexLess(CS!Renamed(M, p), M) <=> Less(M, p))
    BY <1>3, RenamedIs DEF Respects
  <2> QED BY <2>1, <2>2
<1> QED BY <1>1, <1>4, <1>5 DEF NoneLess

(* WrittenMinimal: a full table for which checkMin does not throw, and     *)
(* which is therefore written as a solution, is the representative of its  *)
(* class: the search looks at every renaming that keeps the diagonal and   *)
(* could be smaller, with either representation and either form of the     *)
(* options.                                                                *)
THEOREM WrittenAreMinimal ==
  DiagonalsBuilt /\ DiagonalsKnown /\ CompleteAreTables => (Spec => []WrittenMinimal)
<1> SUFFICES ASSUME DiagonalsBuilt, DiagonalsKnown, CompleteAreTables
             PROVE  Spec => []WrittenMinimal
  OBVIOUS
<1>1. Spec => []FullInv
  BY AlwaysRight
<1>2. FullInv => WrittenMinimal
  <2> SUFFICES ASSUME FullInv, result \in {"passed", "limit"}, Full(dom)
               PROVE  <<set.diag, Table>> \in Minimal
    BY DEF WrittenMinimal
  <2>1. /\ \E x \in Doms : x[1] = set.diag /\ dom = x[2]
        /\ NoneLess(Table) /\ set \in Settings
    BY DEF FullInv, KeptInv, Right, RightFor
  <2>2. <<set.diag, Table>> \in Tables
    BY <2>1, FullTableIs
  <2>3. PICK M : M = Table
    OBVIOUS
  <2> QED BY <2>1, <2>2, <2>3, MinimalIs
<1> QED BY <1>1, <1>2, PTL

(* ClauseSound, for full tables: the clause addClauses makes of a full     *)
(* table, in the shorter and in the older form, holds in every table that  *)
(* is minimal among its renamings.                                         *)
THEOREM FullTableClauseSound ==
  DiagonalsBuilt /\ DiagonalsKnown /\ CompleteAreTables =>
    (Spec => [](Full(dom) => ClauseSound))
<1> SUFFICES ASSUME DiagonalsBuilt, DiagonalsKnown, CompleteAreTables
             PROVE  Spec => [](Full(dom) => ClauseSound)
  OBVIOUS
<1>1. Spec => []FullInv
  BY AlwaysRight
<1>2. FullInv => (Full(dom) => ClauseSound)
  <2> SUFFICES ASSUME FullInv, Full(dom), result = "clause",
                      NEW x \in Minimal, x[1] = set.diag
               PROVE  \E l \in clause : True(x[2], l)
    BY DEF ClauseSound
  <2>1. GoodClause(clause) /\ set \in Settings
    BY DEF FullInv, KeptInv, Right, RightFor
  <2>2. x \in Tables
    BY DEF Minimal
  <2>3. PICK M : M = x[2]
    OBVIOUS
  <2>4. IsTable(M)
    BY <2>1, <2>2, <2>3, TablesAre
  <2>5. x = <<set.diag, M>>
    <3>1. PICK d, T : x = <<d, T>>
      BY <2>2 DEF Tables
    <3> QED BY <2>3, <3>1
  <2>6. NoneLess(M)
    BY <2>1, <2>2, <2>5, MinimalIs
  <2>7. ~ Reducible(M)
    BY <2>6 DEF Reducible, NoneLess
  <2>8. ~ Excludes(clause, M)
    BY <2>1, <2>4, <2>7 DEF GoodClause
  <2> QED BY <2>3, <2>8 DEF Excludes
<1> QED BY <1>1, <1>2, PTL

(* ClauseUsable, for full tables: the clause thrown is not empty, all its  *)
(* literals are false, so that it cuts the table off, and with             *)
(* --smallerEncoding every literal has a variable.                         *)
THEOREM FullTableClauseUsable ==
  DiagonalsBuilt /\ DiagonalsKnown /\ CompleteAreTables =>
    (Spec => [](Full(dom) => ClauseUsable))
<1> SUFFICES ASSUME DiagonalsBuilt, DiagonalsKnown, CompleteAreTables
             PROVE  Spec => [](Full(dom) => ClauseUsable)
  OBVIOUS
<1>1. Spec => []FullInv
  BY AlwaysRight
<1>2. FullInv => (Full(dom) => ClauseUsable)
  <2> SUFFICES ASSUME FullInv, Full(dom), result = "clause"
               PROVE  ClauseUsable
    BY DEF ClauseUsable
  <2>1. clause # {} /\ \A l \in clause : Usable(l)
    BY DEF FullInv, Right, RightFor, GoodClause
  <2>2. {l \in clause : ~ False(l)} = {}
    BY <2>1 DEF Usable
  <2>3. Cardinality({l \in clause : ~ False(l)}) <= 0
    BY <2>2, FS_EmptySet
  <2>4. set.smallerEncoding => \A l \in clause : l[1] # l[2] /\ l[3] # set.diag[l[1]]
    BY <2>1 DEF Usable
  <2> QED BY <2>1, <2>3, <2>4 DEF ClauseUsable
<1> QED BY <1>1, <1>2, PTL

(* NoUndefined, for full tables: the images filterOptions indexes with     *)
(* are there, and addClauses gets permutations only.                       *)
THEOREM FullTableDefined ==
  DiagonalsBuilt /\ DiagonalsKnown /\ CompleteAreTables =>
    (Spec => [](Full(dom) => NoUndefined))
<1> SUFFICES ASSUME DiagonalsBuilt, DiagonalsKnown, CompleteAreTables
             PROVE  Spec => [](Full(dom) => NoUndefined)
  OBVIOUS
<1>1. Spec => []FullInv
  BY AlwaysRight
<1>2. FullInv => (Full(dom) => NoUndefined)
  BY DEF FullInv, Right, RightFor, NoUndefined
<1> QED BY <1>1, <1>2, PTL
=============================================================================
