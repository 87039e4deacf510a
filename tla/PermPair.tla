------------------------------ MODULE PermPair ------------------------------
(***************************************************************************)
(* One branch of the minimality check, seen from the partial permutation   *)
(* it extends, for either representation and every diagonal of Diags.  A   *)
(* twin of the other representation receives the same calls, so that the   *)
(* two can be compared.                                                    *)
(*                                                                         *)
(* A branch visits the rows in order.  Row r gets an image (filterOptions, *)
(* first fixAndPropagate) unless it has one; an option whose call fails is *)
(* dropped.  Then the least possible preimage of some value may be fixed   *)
(* too (the calls with inv and newmin) and, in a partial matrix, the       *)
(* greatest one (the call with maxel and maxi); the results of these calls *)
(* are ignored by the code.                                                *)
(***************************************************************************)
EXTENDS PartialPerm

CONSTANT Diags           \* the diagonals to visit

ASSUME DiagsAssumption ==
  \A d \in Diags : d \in [Val -> Val] /\ \A x \in Val : \E y \in Val : d[y] = x

VARIABLES partialMatrix, \* the matrix has entries without a value
          diag,          \* the diagonal of this search
          diagIsId,      \* the flag computed by the constructor
          below,         \* whether part[-1] is positive
          perm, twin,    \* the partial permutation and its twin
          row,           \* the row the branch has reached
          dropped,       \* the option was dropped
          ok             \* what the last call returned: for perm, for twin

vars == <<partialMatrix, diag, diagIsId, below, perm, twin, row, dropped, ok>>

(* The cycle starts of every diagonal.                                     *)
Starts == [d \in Diags |-> CycleStarts(d)]

(* The constructor of MinCheck_V2.  permOf(N-1) of cyclePerm_t reads one   *)
(* entry behind the end of part, so the identity may be taken for another  *)
(* diagonal.                                                               *)
Init ==
  /\ partialMatrix \in BOOLEAN
  /\ diag \in Diags
  /\ diagIsId \in IF diag = Identity THEN BOOLEAN ELSE {FALSE}
  /\ below \in BOOLEAN
  /\ \/ perm = pperm_plain(diag) /\ twin = pperm_bit(diag)
     \/ perm = pperm_bit(diag) /\ twin = pperm_plain(diag)
  /\ row = 0
  /\ dropped = FALSE
  /\ ok = <<TRUE, TRUE>>

Call(el, img) ==
  LET p == fixAndPropagate(perm, el, img, Starts[diag], below, diagIsId)
      t == fixAndPropagate(twin, el, img, Starts[diag], below, diagIsId)
  IN /\ perm' = p.perm
     /\ twin' = t.perm
     /\ ok' = <<p.ok, t.ok>>

(* filterOptions for one option of row r, and the recursive call.          *)
DecideRow ==
  /\ row < N
  /\ ~dropped
  /\ row' = row + 1
  /\ IF fixed(perm, row) THEN UNCHANGED <<perm, twin, ok>>
     ELSE \E k \in DOMAIN options(perm, row) : Call(row, options(perm, row)[k])
  /\ dropped' = ~ok'[1]
  /\ UNCHANGED <<partialMatrix, diag, diagIsId, below>>

(* inv (newmin) and pv.                                                    *)
FixLeastPreimage ==
  /\ row > 0
  /\ ~dropped
  /\ \E img \in Val :
       /\ Cardinality(invOptions(perm, img)) > 1
       /\ Call(Min(invOptions(perm, img)), img)
  /\ UNCHANGED <<partialMatrix, diag, diagIsId, below, row, dropped>>

(* maxel and maxi: past the first row, whose entry lies on the diagonal,   *)
(* and for an entry that is renamed.                                       *)
FixGreatestPreimage ==
  /\ partialMatrix
  /\ row > 1
  /\ ~dropped
  /\ permOf(perm, 0) # 0 \/ permOf(perm, row - 1) # row - 1
  /\ \E img \in Val :
       /\ Cardinality(invOptions(perm, img)) > 1
       /\ Call(Max(invOptions(perm, img)), img)
  /\ UNCHANGED <<partialMatrix, diag, diagIsId, below, row, dropped>>

(* The branch ends after the last row or with a dropped option.            *)
BranchEnds == (row = N \/ dropped) /\ UNCHANGED vars

Next == DecideRow \/ FixLeastPreimage \/ FixGreatestPreimage \/ BranchEnds

Spec == Init /\ [][Next]_vars
-----------------------------------------------------------------------------
(* Every permutation the clauses are built from respects the diagonal: the *)
(* whole of `element`, fixed or not, and the images under pperm_bit map    *)
(* cycles to cycles (propagateDecision: "ensure cycles match == ensure     *)
(* diag is fixed").                                                        *)
CommutesWithDiagonal ==
  ~dropped =>
    \A x \in Val :
      /\ perm.kind = "plain" => perm.element[diag[x]] = diag[perm.element[x]]
      /\ perm.kind = "bit" /\ BitFixed(perm, x) =>
           perm.info[diag[x]] = {diag[permOf(perm, x)]}

(* It does as long as the matrix is full, which is when the permutation is *)
(* compared entry by entry and a table is written or cut off.              *)
CommutesWhenFull == ~partialMatrix => CommutesWithDiagonal

(* The two representations offer the same choices after the same calls on  *)
(* a full matrix, so --useBit changes the order of the search and nothing  *)
(* else; a choice that options or invOptions offers never fails, so        *)
(* ignoring the results in filterOptions is harmless.                      *)
RepresentationsAgree ==
  ~partialMatrix =>
    /\ ok = <<TRUE, TRUE>>
    /\ \A x \in Val :
         /\ {options(perm, x)[k] : k \in DOMAIN options(perm, x)}
              = {options(twin, x)[k] : k \in DOMAIN options(twin, x)}
         /\ invOptions(perm, x) = invOptions(twin, x)
         /\ permOf(perm, x) = permOf(twin, x)
         /\ invPermOf(perm, x) = invPermOf(twin, x)

(* Whatever is fixed in whatever order, a fixed image is never taken back, *)
(* no choice comes back, a row the branch has passed keeps an image        *)
(* (filterOptions reads permOf(0) and permOf(r) as indices without a       *)
(* check), and `element` stays a permutation (getPerm hands it to          *)
(* addClauses as one, fixed or not).                                       *)
NothingUndone ==
  /\ \A x \in Val :
       /\ fixed(perm, x) => fixed(perm', x) /\ permOf(perm', x) = permOf(perm, x)
       /\ perm.kind = "bit" => perm'.info[x] \subseteq perm.info[x]
       /\ perm.kind = "plain" => \E i \in Val : perm'.element[i] = x
  /\ ~dropped' => \A r \in 0..(row' - 1) : fixed(perm', r)

FixedForever == [][NothingUndone]_vars
=============================================================================
