--------------------------- MODULE PermPairProofs ---------------------------
(***************************************************************************)
(* FixedForever of PermPair, for every problem size and every set of       *)
(* diagonals, and what holds on a full matrix for the diagonals that       *)
(* makeDiagonals builds: CommutesWhenFull and RepresentationsAgree.        *)
(*                                                                         *)
(* The invariant says what the two representations have in common          *)
(* (PartialPermProofs).  On a full matrix h and F are the same for both    *)
(* (AgreeInv), with a point its whole cycle is decided, and h respects the *)
(* diagonal.                                                               *)
(***************************************************************************)
EXTENDS PermPair, PartialPermProofs

(* The inductive invariant.                                                *)
IInv ==
  /\ diag \in Diags
  /\ row \in 0..N
  /\ perm \in Perms(diag)
  /\ ~dropped => \A r \in 0..(row - 1) : fixed(perm, r)
-----------------------------------------------------------------------------
(* The behaviours.                                                         *)

LEMMA InitIInv == Init => IInv
<1> SUFFICES ASSUME Init
             PROVE  IInv
  OBVIOUS
<1>1. perm \in Perms(diag)
  BY PlainConstructed, BitConstructed DEF Init, Perms
<1>2. diag \in Diags /\ row = 0 /\ row \in 0..N
  BY NAssumption DEF Init
<1>3. \A r \in 0..(row - 1) : FALSE
  BY <1>2
<1> QED BY <1>1, <1>2, <1>3 DEF IInv

(* What one call does to the permutation of the branch.                    *)
LEMMA CallStep ==
  ASSUME IInv, NEW el \in Val, NEW img \in Val, Call(el, img)
  PROVE  /\ perm' \in Perms(diag) /\ Keeps(perm, perm')
         /\ ok'[1] /\ (perm.kind = "plain" => el \in perm.part) => fixed(perm', el)
<1> DEFINE t == fixAndPropagate(perm, el, img, Starts[diag], below, diagIsId)
<1>1. /\ t \in Results(diag, perm)
      /\ t.ok /\ (perm.kind = "plain" => el \in perm.part) => fixed(t.perm, el)
  <2>1. PICK S : S = Starts[diag]
    OBVIOUS
  <2>2. S \in SUBSET Nat
    BY <2>1, DiagsAssumption, StartsAreNumbers DEF Starts, IInv
  <2> QED BY <2>1, <2>2, CallKeeps DEF IInv
<1>2. perm' = t.perm /\ ok'[1] = t.ok
  BY DEF Call
<1> HIDE DEF t
<1> QED BY <1>1, <1>2 DEF Results

(* A row behind passed rows starts a block.                                *)
LEMMA RowStartsBlock ==
  ASSUME IInv, ~dropped, row < N, perm.kind = "plain"
  PROVE  row \in perm.part
<1>1. row \in 0..N /\ 0 \in perm.part /\ \A r \in 0..(row - 1) : PlainFixed(perm, r)
  BY DEF IInv, Perms, PlainPerms, BitPerms, fixed
<1>2. CASE row = 0
  BY <1>1, <1>2
<1>3. CASE row # 0
  <2>1. row - 1 \in 0..(row - 1) /\ row - 1 # N - 1 /\ (row - 1) + 1 = row
    BY <1>1, <1>3, NAssumption
  <2> QED BY <1>1, <2>1 DEF PlainFixed
<1> QED BY <1>2, <1>3

LEMMA DecideRowStep ==
  ASSUME IInv, DecideRow
  PROVE  IInv' /\ Keeps(perm, perm')
<1>1. row \in 0..N /\ row < N /\ ~dropped /\ row' = row + 1 /\ diag' = diag
  BY DEF IInv, DecideRow
<1>2. row \in Val /\ row' \in 0..N
  BY <1>1, NAssumption DEF Val
<1>3. /\ perm' \in Perms(diag) /\ Keeps(perm, perm')
      /\ ~dropped' => fixed(perm', row)
  <2>1. CASE fixed(perm, row)
    BY <2>1 DEF DecideRow, Keeps, IInv
  <2>2. CASE ~ fixed(perm, row)
    <3>1. PICK k \in DOMAIN options(perm, row) : Call(row, options(perm, row)[k])
      BY <2>2 DEF DecideRow
    <3>2. PICK img \in Val : img = options(perm, row)[k]
      BY <1>2, OptionsArePoints DEF IInv
    <3>3. perm.kind = "plain" => row \in perm.part
      BY <1>1, RowStartsBlock
    <3>4. dropped' = ~ok'[1]
      BY DEF DecideRow
    <3> QED BY <1>2, <3>1, <3>2, <3>3, <3>4, CallStep
  <2> QED BY <2>1, <2>2
<1>4. ASSUME ~dropped', NEW r \in 0..(row' - 1)
      PROVE  fixed(perm', r)
  <2>1. CASE r = row
    BY <1>3, <1>4, <2>1
  <2>2. CASE r # row
    <3>1. r \in 0..(row - 1) /\ r \in Val
      BY <1>1, <1>2, <2>2, NAssumption DEF Val
    <3>2. fixed(perm, r)
      BY <1>1, <3>1 DEF IInv
    <3> QED BY <1>3, <3>1, <3>2 DEF Keeps
  <2> QED BY <2>1, <2>2
<1>5. diag \in Diags
  BY DEF IInv
<1> QED BY <1>1, <1>2, <1>3, <1>4, <1>5 DEF IInv

(* The other two actions call fixAndPropagate for some point.              *)
LEMMA OtherStep ==
  ASSUME IInv, NEW el \in Val, NEW img \in Val, Call(el, img),
         UNCHANGED <<diag, row, dropped>>
  PROVE  IInv' /\ Keeps(perm, perm')
<1>1. perm' \in Perms(diag) /\ Keeps(perm, perm')
  BY CallStep
<1>2. ASSUME ~dropped', NEW r \in 0..(row' - 1)
      PROVE  fixed(perm', r)
  <2>1. r \in Val /\ fixed(perm, r)
    BY <1>2, NAssumption DEF IInv, Val
  <2> QED BY <1>1, <2>1 DEF Keeps
<1> QED BY <1>1, <1>2 DEF IInv

LEMMA StepIInv ==
  ASSUME IInv, Next
  PROVE  IInv' /\ Keeps(perm, perm')
<1>1. perm \in Perms(diag)
  BY DEF IInv
<1>2. CASE DecideRow
  BY <1>2, DecideRowStep
<1>3. CASE FixLeastPreimage
  <2>1. PICK img \in Val : /\ Cardinality(invOptions(perm, img)) > 1
                           /\ Call(Min(invOptions(perm, img)), img)
    BY <1>3 DEF FixLeastPreimage
  <2>2. Min(invOptions(perm, img)) \in Val
    BY <1>1, <2>1, PreimagesArePoints
  <2>3. UNCHANGED <<diag, row, dropped>>
    BY <1>3 DEF FixLeastPreimage
  <2> QED BY <2>1, <2>2, <2>3, OtherStep
<1>4. CASE FixGreatestPreimage
  <2>1. PICK img \in Val : /\ Cardinality(invOptions(perm, img)) > 1
                           /\ Call(Max(invOptions(perm, img)), img)
    BY <1>4 DEF FixGreatestPreimage
  <2>2. Max(invOptions(perm, img)) \in Val
    BY <1>1, <2>1, PreimagesArePoints
  <2>3. UNCHANGED <<diag, row, dropped>>
    BY <1>4 DEF FixGreatestPreimage
  <2> QED BY <2>1, <2>2, <2>3, OtherStep
<1>5. CASE BranchEnds
  BY <1>5 DEF BranchEnds, vars, IInv, Keeps
<1> QED BY <1>2, <1>3, <1>4, <1>5 DEF Next

LEMMA StepUndoesNothing ==
  ASSUME IInv, Next
  PROVE  NothingUndone
<1>1. perm' \in Perms(diag') /\ Keeps(perm, perm')
  BY StepIInv DEF IInv
<1>2. ASSUME NEW x \in Val, perm.kind = "plain"
      PROVE  \E i \in Val : perm'.element[i] = x
  <2>1. perm'.kind = "plain"
    BY <1>1, <1>2 DEF Keeps
  <2>2. perm' \in PlainPerms
    BY <1>1, <2>1 DEF Perms, BitPerms
  <2> QED BY <2>2 DEF PlainPerms, Permutes
<1>3. ~dropped' => \A r \in 0..(row' - 1) : fixed(perm', r)
  BY StepIInv DEF IInv
<1> QED BY <1>1, <1>2, <1>3 DEF NothingUndone, Keeps

(* FixedForever: whichever calls are made in whichever order, on either    *)
(* representation, fix and fixAndPropagate never take a fixed image back,  *)
(* never return a choice, never leave a passed row without an image, and   *)
(* keep `element` a permutation.                                           *)
THEOREM NothingTakenBack == Spec => FixedForever
<1>1. Init => IInv
  BY InitIInv
<1>2. IInv /\ [Next]_vars => IInv'
  <2>1. CASE Next
    BY <2>1, StepIInv
  <2>2. CASE UNCHANGED vars
    BY <2>2 DEF IInv, vars
  <2> QED BY <2>1, <2>2
<1>3. IInv /\ [Next]_vars => [NothingUndone]_vars
  BY StepUndoesNothing
<1> QED BY <1>1, <1>2, <1>3, PTL DEF Spec, FixedForever
-----------------------------------------------------------------------------
(* The behaviours on a full matrix: the two representations are those of   *)
(* one sound permutation.                                                  *)
Represent(d, h, F, p, t) ==
  /\ Sound(d, h, F)
  /\ \/ p = As("plain", d, h, F) /\ t = As("bit", d, h, F)
     \/ p = As("bit", d, h, F) /\ t = As("plain", d, h, F)

Agreeing(d, p, t) == \E h, F : Represent(d, h, F, p, t)

AgreeInv ==
  /\ IInv
  /\ diagIsId \in BOOLEAN /\ (diagIsId => diag = Identity)
  /\ ~partialMatrix => ~dropped /\ ok = <<TRUE, TRUE>> /\ Agreeing(diag, perm, twin)

LEMMA DiagonalFollows ==
  ASSUME NEW d \in Diags, Consecutive(d)
  PROVE  /\ d \in [Val -> Val] /\ Adjacent(d) /\ CycleStarts(d) \in SUBSET Val
         /\ Follows(d, CycleStarts(d)) /\ Starts[d] = CycleStarts(d)
<1>1. d \in [Val -> Val] /\ Adjacent(d)
  BY DiagsAssumption DEF Consecutive
<1>2. PICK S \in SUBSET Val : Follows(d, S)
  BY DEF Consecutive
<1>3. CycleStarts(d) = S
  BY <1>1, <1>2, StartsAreStarts
<1> QED BY <1>1, <1>2, <1>3 DEF Starts

LEMMA InitAgrees ==
  ASSUME Init, Consecutive(diag)
  PROVE  AgreeInv
<1>1. diag \in Diags
  BY DEF Init
<1>2. diag \in [Val -> Val] /\ Adjacent(diag)
  BY <1>1, DiagonalFollows
<1>3. Sound(diag, Identity, {})
  <2>1. Within(diag, Identity)
    BY Classes DEF Within, Permutes, Identity
  <2>2. Commutes(diag, Identity)
    BY <1>2 DEF Commutes, Identity
  <2>3. Filled(diag, {}) /\ Whole(diag, {})
    BY DEF Filled, Whole
  <2> QED BY <2>1, <2>2, <2>3 DEF Sound
<1>4. Represent(diag, Identity, {}, perm, twin)
  <2>1. /\ pperm_plain(diag) = As("plain", diag, Identity, {})
        /\ pperm_bit(diag) = As("bit", diag, Identity, {})
    BY <1>2, Constructed
  <2> QED BY <1>3, <2>1 DEF Represent, Init
<1>5. diagIsId \in BOOLEAN /\ (diagIsId => diag = Identity) /\ ~dropped /\ ok = <<TRUE, TRUE>>
  BY DEF Init
<1> QED BY <1>4, <1>5, InitIInv DEF AgreeInv, Agreeing

(* What a call returns for the permutation and its twin.                   *)
LEMMA CallAgrees ==
  ASSUME NEW h, NEW F, NEW el, NEW y, diag \in Diags, Consecutive(diag),
         diagIsId \in BOOLEAN, diagIsId => diag = Identity,
         Represent(diag, h, F, perm, twin),
         MayDecide(diag, CycleStarts(diag), h, F, el, y), Call(el, h[y])
  PROVE  ok' = <<TRUE, TRUE>> /\ Agreeing(diag, perm', twin')
<1>1. PICK S, d, b, i : S = CycleStarts(diag) /\ d = diag /\ b = below /\ i = diagIsId
  OBVIOUS
<1>2. Starts[diag] = S
  BY <1>1, DiagonalFollows
<1>3. PICK g : Decided(d, S, h, F, el, y, b, i, g)
  BY <1>1, CallDecides
<1>4. PICK G : G = F \cup CycleOf(d, el)
  OBVIOUS
<1>5. /\ Sound(d, g, G)
      /\ \A kind \in Kinds : fixAndPropagate(As(kind, d, h, F), el, h[y], S, b, i)
                               = [perm |-> As(kind, d, g, G), ok |-> TRUE]
  BY <1>3, <1>4 DEF Decided
<1>6. PICK P, B : /\ P = fixAndPropagate(As("plain", d, h, F), el, h[y], S, b, i)
                  /\ B = fixAndPropagate(As("bit", d, h, F), el, h[y], S, b, i)
  OBVIOUS
<1>7. /\ P.perm = As("plain", d, g, G) /\ P.ok = TRUE
      /\ B.perm = As("bit", d, g, G) /\ B.ok = TRUE
  BY <1>5, <1>6 DEF Kinds
<1>8. PICK p, t : /\ p = fixAndPropagate(perm, el, h[y], S, b, i)
                  /\ t = fixAndPropagate(twin, el, h[y], S, b, i)
  OBVIOUS
<1>9. perm' = p.perm /\ twin' = t.perm /\ ok' = <<p.ok, t.ok>>
  BY <1>1, <1>2, <1>8 DEF Call
<1>10. (p = P /\ t = B) \/ (p = B /\ t = P)
  BY <1>1, <1>6, <1>8 DEF Represent
<1>11. Represent(d, g, G, perm', twin') /\ ok' = <<TRUE, TRUE>>
  BY <1>5, <1>7, <1>9, <1>10 DEF Represent
<1> QED BY <1>1, <1>11 DEF Agreeing

(* A row without an image is the first undecided point of its class.       *)
LEMMA RowMayDecide ==
  ASSUME AgreeInv, Consecutive(diag), row < N, ~dropped, ~ fixed(perm, row),
         NEW h, NEW F, Represent(diag, h, F, perm, twin)
  PROVE  /\ Offered(perm, row) = {h[y] : y \in ClassOf(diag, row) \ F}
         /\ \A y \in ClassOf(diag, row) \ F : MayDecide(diag, CycleStarts(diag), h, F, row, y)
<1>1. /\ diag \in Diags /\ row \in Val /\ row \in Nat
      /\ \A r \in 0..(row - 1) : fixed(perm, r)
  BY NAssumption DEF AgreeInv, IInv, Val
<1>2. /\ diag \in [Val -> Val] /\ Adjacent(diag) /\ CycleStarts(diag) \in SUBSET Val
      /\ Follows(diag, CycleStarts(diag))
  BY <1>1, DiagonalFollows
<1>3. /\ Sound(diag, h, F) /\ F \in SUBSET Val /\ Filled(diag, F) /\ Permutes(h)
  BY DEF Represent, Sound, Within
<1>4. PICK kind \in Kinds : perm = As(kind, diag, h, F)
  BY DEF Represent, Kinds
<1>5. \A x \in Val : fixed(perm, x) <=> Room(diag, F, x) = {x}
  BY <1>2, <1>3, <1>4, AsFixed
<1>6. row \notin F
  BY <1>1, <1>5 DEF Room
<1>7. Room(diag, F, row) = ClassOf(diag, row) \ F
  BY <1>6 DEF Room
<1>8. Offered(perm, row) = {h[y] : y \in ClassOf(diag, row) \ F}
  BY <1>1, <1>2, <1>3, <1>4, <1>7, AsOptions
<1>9. ASSUME NEW z \in ClassOf(diag, row), z < row
      PROVE  z \in F
  <2>1. z \in Val /\ z \in 0..(row - 1) /\ z # row /\ ClassOf(diag, z) = ClassOf(diag, row)
    <3>1. z \in Val /\ ClassOf(diag, z) = ClassOf(diag, row)
      BY <1>1, Classes
    <3> QED BY <1>1, <1>9, <3>1, ValFinite
  <2>2. Room(diag, F, z) = {z}
    BY <1>1, <1>5, <2>1
  <2>3. row \in ClassOf(diag, z)
    BY <1>1, <2>1, Classes
  <2> QED BY <1>6, <2>1, <2>2, <2>3 DEF Room
<1>10. \A y \in ClassOf(diag, row) \ F : MayDecide(diag, CycleStarts(diag), h, F, row, y)
  BY <1>1, <1>2, <1>3, <1>6, <1>9 DEF MayDecide
<1> QED BY <1>8, <1>10

(* So is the least of several preimages.                                   *)
LEMMA LeastMayDecide ==
  ASSUME AgreeInv, Consecutive(diag), NEW img \in Val, Cardinality(invOptions(perm, img)) > 1,
         NEW h, NEW F, Represent(diag, h, F, perm, twin)
  PROVE  \E y : /\ img = h[y]
                /\ MayDecide(diag, CycleStarts(diag), h, F, Min(invOptions(perm, img)), y)
<1>1. diag \in Diags
  BY DEF AgreeInv, IInv
<1>2. /\ diag \in [Val -> Val] /\ Adjacent(diag) /\ CycleStarts(diag) \in SUBSET Val
      /\ Follows(diag, CycleStarts(diag))
  BY <1>1, DiagonalFollows
<1>3. /\ Sound(diag, h, F) /\ F \in SUBSET Val /\ Filled(diag, F) /\ Permutes(h)
  BY DEF Represent, Sound, Within
<1>4. PICK kind \in Kinds : perm = As(kind, diag, h, F)
  BY DEF Represent, Kinds
<1>5. PICK y \in Val : h[y] = img
  BY <1>3 DEF Permutes
<1>6. PICK R : R = invOptions(perm, img)
  OBVIOUS
<1>7. R = Room(diag, F, y)
  BY <1>2, <1>3, <1>4, <1>5, <1>6, AsPreimages
<1>8. y \notin F
  <2>1. Cardinality({y}) = 1
    BY FS_Singleton
  <2> QED BY <1>6, <1>7, <2>1 DEF Room
<1>9. R = ClassOf(diag, y) \ F /\ y \in R
  BY <1>5, <1>7, <1>8, Classes DEF Room
<1>10. PICK el : el = Min(R)
  OBVIOUS
<1>11. el \in R /\ \A z \in R : el <= z
  <2>1. R \in SUBSET Nat /\ R # {}
    BY <1>5, <1>9, Classes, ValFinite
  <2> QED BY <1>10, <2>1, MinMember
<1>12. el \in Val \ F /\ ClassOf(diag, el) = ClassOf(diag, y) /\ y \in ClassOf(diag, el) \ F
  BY <1>5, <1>9, <1>11, Classes
<1>13. ASSUME NEW z \in ClassOf(diag, el), z < el
       PROVE  z \in F
  <2>1. z \in Nat /\ el \in Nat
    BY <1>12, Classes, ValFinite
  <2> QED BY <1>9, <1>11, <1>12, <1>13, <2>1
<1>14. MayDecide(diag, CycleStarts(diag), h, F, el, y)
  BY <1>2, <1>3, <1>12, <1>13 DEF MayDecide
<1> QED BY <1>5, <1>6, <1>10, <1>14

LEMMA StepAgrees ==
  ASSUME AgreeInv, Consecutive(diag), Next
  PROVE  AgreeInv'
<1>1. /\ IInv /\ diag \in Diags /\ diagIsId \in BOOLEAN /\ (diagIsId => diag = Identity)
      /\ ~partialMatrix => ~dropped /\ ok = <<TRUE, TRUE>> /\ Agreeing(diag, perm, twin)
  BY DEF AgreeInv, IInv
<1>2. IInv'
  BY <1>1, StepIInv
<1>3. diag' = diag /\ diagIsId' = diagIsId /\ partialMatrix' = partialMatrix
  BY DEF Next, DecideRow, FixLeastPreimage, FixGreatestPreimage, BranchEnds, vars
<1> SUFFICES ASSUME ~partialMatrix
             PROVE  ~dropped' /\ ok' = <<TRUE, TRUE>> /\ Agreeing(diag, perm', twin')
  BY <1>1, <1>2, <1>3 DEF AgreeInv
<1>4. PICK h, F : Represent(diag, h, F, perm, twin)
  BY <1>1 DEF Agreeing
<1>5. CASE DecideRow
  <2>1. row < N /\ ~dropped /\ dropped' = ~ok'[1]
    BY <1>5 DEF DecideRow
  <2>2. CASE fixed(perm, row)
    <3>1. UNCHANGED <<perm, twin, ok>>
      BY <1>5, <2>2 DEF DecideRow
    <3>2. ok' = <<TRUE, TRUE>> /\ Agreeing(diag, perm', twin')
      BY <1>1, <3>1
    <3> QED BY <2>1, <3>2
  <2>3. CASE ~ fixed(perm, row)
    <3>1. PICK k \in DOMAIN options(perm, row) : Call(row, options(perm, row)[k])
      BY <1>5, <2>3 DEF DecideRow
    <3>2. PICK y \in ClassOf(diag, row) \ F : options(perm, row)[k] = h[y]
      <4>1. Offered(perm, row) = {h[y] : y \in ClassOf(diag, row) \ F}
        BY <1>4, <2>1, <2>3, RowMayDecide
      <4> QED BY <4>1 DEF Offered
    <3>3. MayDecide(diag, CycleStarts(diag), h, F, row, y)
      BY <1>4, <2>1, <2>3, RowMayDecide
    <3>4. ok' = <<TRUE, TRUE>> /\ Agreeing(diag, perm', twin')
      BY <1>1, <1>4, <3>1, <3>2, <3>3, CallAgrees
    <3> QED BY <2>1, <3>4
  <2> QED BY <2>2, <2>3
<1>6. CASE FixLeastPreimage
  <2>1. PICK img \in Val : /\ Cardinality(invOptions(perm, img)) > 1
                           /\ Call(Min(invOptions(perm, img)), img)
    BY <1>6 DEF FixLeastPreimage
  <2>2. PICK y : /\ img = h[y]
                 /\ MayDecide(diag, CycleStarts(diag), h, F, Min(invOptions(perm, img)), y)
    BY <1>4, <2>1, LeastMayDecide
  <2>3. ok' = <<TRUE, TRUE>> /\ Agreeing(diag, perm', twin')
    BY <1>1, <1>4, <2>1, <2>2, CallAgrees
  <2> QED BY <1>6, <2>3 DEF FixLeastPreimage
<1>7. CASE FixGreatestPreimage
  BY <1>7 DEF FixGreatestPreimage
<1>8. CASE BranchEnds
  BY <1>1, <1>8 DEF BranchEnds, vars
<1> QED BY <1>5, <1>6, <1>7, <1>8 DEF Next

LEMMA AgreeingAgree ==
  ASSUME AgreeInv, Consecutive(diag)
  PROVE  CommutesWhenFull /\ RepresentationsAgree
<1> SUFFICES ASSUME ~partialMatrix
             PROVE  CommutesWithDiagonal /\ RepresentationsAgree
  BY DEF CommutesWhenFull, RepresentationsAgree
<1>1. diag \in Diags /\ ok = <<TRUE, TRUE>> /\ Agreeing(diag, perm, twin)
  BY DEF AgreeInv, IInv
<1>2. PICK h, F : Represent(diag, h, F, perm, twin)
  BY <1>1 DEF Agreeing
<1>3. diag \in [Val -> Val] /\ Adjacent(diag) /\ Follows(diag, CycleStarts(diag))
      /\ CycleStarts(diag) \in SUBSET Val
  BY <1>1, DiagonalFollows
<1>4. /\ F \in SUBSET Val /\ Filled(diag, F) /\ Whole(diag, F) /\ Permutes(h)
      /\ h \in [Val -> Val] /\ \A x \in Val : h[diag[x]] = diag[h[x]]
  BY <1>2 DEF Represent, Sound, Within, Commutes, Permutes
<1>5. PICK kind \in Kinds, other \in Kinds :
        perm = As(kind, diag, h, F) /\ twin = As(other, diag, h, F)
  BY <1>2 DEF Represent, Kinds
<1>6. RepresentationsAgree
  <2>1. ASSUME NEW x \in Val
        PROVE  /\ {options(perm, x)[k] : k \in DOMAIN options(perm, x)}
                    = {options(twin, x)[k] : k \in DOMAIN options(twin, x)}
               /\ permOf(perm, x) = permOf(twin, x)
    <3>1. Offered(perm, x) = Offered(twin, x)
      <4>1. Offered(perm, x) = {h[y] : y \in Room(diag, F, x)}
        BY <1>3, <1>4, <1>5, AsOptions
      <4>2. Offered(twin, x) = {h[y] : y \in Room(diag, F, x)}
        BY <1>3, <1>4, <1>5, AsOptions
      <4> QED BY <4>1, <4>2
    <3>2. permOf(perm, x) = permOf(twin, x)
      BY <1>3, <1>4, <1>5, AsFixed
    <3> QED BY <3>1, <3>2 DEF Offered
  <2>2. ASSUME NEW x \in Val
        PROVE  invOptions(perm, x) = invOptions(twin, x) /\ invPermOf(perm, x) = invPermOf(twin, x)
    <3>1. PICK y \in Val : h[y] = x
      BY <1>4 DEF Permutes
    <3> QED BY <1>3, <1>4, <1>5, <3>1, AsPreimages
  <2> QED BY <1>1, <2>1, <2>2 DEF RepresentationsAgree
<1>7. ASSUME NEW x \in Val, perm.kind = "plain"
      PROVE  perm.element[diag[x]] = diag[perm.element[x]]
  <2>1. perm.element = h
    BY <1>2, <1>7 DEF Represent, As
  <2> QED BY <1>4, <2>1
<1>8. ASSUME NEW x \in Val, perm.kind = "bit", BitFixed(perm, x)
      PROVE  perm.info[diag[x]] = {diag[permOf(perm, x)]}
  <2>1. fixed(perm, x)
    BY <1>8 DEF fixed
  <2>2. Room(diag, F, x) = {x} /\ permOf(perm, x) = h[x]
    BY <1>3, <1>4, <1>5, <2>1, AsFixed
  <2>3. /\ diag[x] \in Val /\ diag[x] \in CycleOf(diag, x) /\ x \in CycleOf(diag, x)
        /\ CycleOf(diag, diag[x]) = CycleOf(diag, x) /\ diag[x] \in ClassOf(diag, x)
    BY <1>3, CycleFacts
  <2>4. Room(diag, F, diag[x]) = {diag[x]}
    <3>1. CASE x \in F
      BY <1>4, <2>3, <3>1 DEF Whole, Room
    <3>2. CASE x \notin F
      <4>1. diag[x] \notin F
        BY <1>4, <2>3, <3>2 DEF Whole
      <4>2. diag[x] = x
        BY <2>2, <2>3, <3>2, <4>1 DEF Room
      <4> QED BY <2>2, <4>2
    <3> QED BY <3>1, <3>2
  <2>5. perm.info[diag[x]] = {h[y] : y \in Room(diag, F, diag[x])}
    <3>1. perm = As("bit", diag, h, F)
      BY <1>2, <1>8 DEF Represent, As
    <3>2. perm.info[diag[x]] = Images(diag, h, F, diag[x])
      BY <2>3, <3>1 DEF As
    <3> QED BY <3>2, ImagesAreRooms
  <2>6. perm.info[diag[x]] = {h[diag[x]]}
    BY <2>4, <2>5
  <2> QED BY <1>4, <2>2, <2>6
<1>9. CommutesWithDiagonal
  BY <1>7, <1>8 DEF CommutesWithDiagonal
<1> QED BY <1>6, <1>9

LEMMA AlwaysAgreeing ==
  ASSUME \A d \in Diags : Consecutive(d)
  PROVE  Spec => []AgreeInv
<1>1. Init => AgreeInv
  BY InitAgrees DEF Init
<1>2. AgreeInv /\ [Next]_vars => AgreeInv'
  <2>1. CASE Next
    BY <2>1, StepAgrees DEF AgreeInv, IInv
  <2>2. CASE UNCHANGED vars
    BY <2>2 DEF AgreeInv, IInv, vars
  <2> QED BY <2>1, <2>2
<1> QED BY <1>1, <1>2, PTL DEF Spec

(* CommutesWhenFull: on a full matrix every permutation the clauses are    *)
(* built from respects the diagonal, whichever rows and preimages a branch *)
(* decides.  propagateDecision makes exactly the exchanges along the cycle *)
(* that are needed to move a whole cycle onto another one, or to turn it.  *)
THEOREM DiagonalRespected ==
  (\A d \in Diags : Consecutive(d)) => (Spec => []CommutesWhenFull)
<1> SUFFICES ASSUME \A d \in Diags : Consecutive(d)
             PROVE  Spec => []CommutesWhenFull
  OBVIOUS
<1>1. Spec => []AgreeInv
  BY AlwaysAgreeing
<1>2. AgreeInv => CommutesWhenFull
  BY AgreeingAgree DEF AgreeInv, IInv
<1> QED BY <1>1, <1>2, PTL

(* RepresentationsAgree: after the same calls on a full matrix pperm_plain *)
(* and pperm_bit offer the same options and preimages, so --useBit changes *)
(* the order of the search and nothing else; and no call for a choice they *)
(* offer fails, so ignoring the results in filterOptions is harmless.      *)
THEOREM SameChoices ==
  (\A d \in Diags : Consecutive(d)) => (Spec => []RepresentationsAgree)
<1> SUFFICES ASSUME \A d \in Diags : Consecutive(d)
             PROVE  Spec => []RepresentationsAgree
  OBVIOUS
<1>1. Spec => []AgreeInv
  BY AlwaysAgreeing
<1>2. AgreeInv => RepresentationsAgree
  BY AgreeingAgree DEF AgreeInv, IInv
<1> QED BY <1>1, <1>2, PTL
=============================================================================
