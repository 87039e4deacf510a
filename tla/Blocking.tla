------------------------------ MODULE Blocking ------------------------------
(***************************************************************************)
(* Removing clauses that are not implied by the others, with a witness for *)
(* each on the extension stack: blocked clauses and pure literals          *)
(* (block.cpp), covered clauses (cover.cpp) and globally blocked clauses   *)
(* (condition.cpp).  Size and effort limits, schedules and the order in    *)
(* occurrence lists are replaced by a free choice.                         *)
(***************************************************************************)
EXTENDS Formula

LOCAL INSTANCE SequencesExt

CONSTANT ExtMax     \* a bound: nothing is blocked on a longer extension stack

ASSUME ExtMaxAssumption == ExtMax \in Nat

Room == Len(db.ext) < ExtMax

----------------------------------------------------------------------------
(* block.cpp                                                               *)

mark_satisfied_clauses_as_garbage(d) ==
    LET rest(F) == {Open(d, c) : c \in {e \in F : ~Satisfied(d, e)}}
    IN  [d EXCEPT !.irr = rest(@), !.red = rest(@)]

(* block, up to its main loop.                                             *)
BlockStart ==
    /\ work = Goto("blockstart")
    /\ ~db.unsat
    /\ IF "block" \notin opts \/ db.irr = {} THEN db' = db /\ work' = Goto("coverstart")
       ELSE \E d \in {propagate(db)} :
              IF d.unsat THEN db' = d /\ work' = Goto("elimend")
              ELSE db' = mark_satisfied_clauses_as_garbage(d) /\ work' = Goto("block")
    /\ UNCHANGED <<original, frozen, tainted, opts>>

(* Mutant: one tautological resolvent is enough.                           *)
is_blocked_clauseOnce(d, c, lit) ==
    occs(d, -lit) = {} \/ \E e \in occs(d, -lit) : \E k \in e \ {-lit} : -k \in c

(* All resolvents of c on lit are tautologies.                             *)
is_blocked_clause(d, c, lit) ==
    \A e \in occs(d, -lit) : \E k \in e \ {-lit} : -k \in c

(* The clauses cs are pushed in this order and become garbage.             *)
PushBlocked(d, cs, lit) ==
    [d EXCEPT !.ext = @ \o [i \in DOMAIN cs |-> [clause |-> cs[i], witness |-> {lit}]],
              !.irr = @ \ {cs[i] : i \in DOMAIN cs}]

block_pure_literal(d, lit) ==
    mark_status(PushBlocked(d, Sorted(occs(d, lit)), lit), lit, "pure")

block_literal_with_negative_occs(d, lit) ==
    PushBlocked(d, Sorted({c \in occs(d, lit) : is_blocked_clause(d, c, lit)}), lit)

block_literal(d, lit) ==
    IF occs(d, -lit) = {} THEN block_pure_literal(d, lit)
    ELSE block_literal_with_negative_occs(d, lit)

BlockCandidates(d) == {l \in Lits : active(d, l) /\ Var(l) \notin frozen}

BlockLiteral ==
    /\ work = Goto("block") /\ Room
    /\ \E lit \in BlockCandidates(db) : db' = block_literal(db, lit)
    /\ UNCHANGED <<original, frozen, tainted, work, opts>>

BlockEnd ==
    /\ work = Goto("block")
    /\ db' = [db EXCEPT !.red =
                {c \in @ : \A l \in c : db.status[Var(l)] \notin {"eliminated", "pure"}}]
    /\ work' \in {Goto("elim"), Goto("coverstart")}
    /\ UNCHANGED <<original, frozen, tainted, opts>>

----------------------------------------------------------------------------
(* cover.cpp.  It is off unless options say otherwise, and always off with *)
(* restoreflush.                                                           *)

CoverOn == "cover" \in opts /\ "restoreflush" \notin opts

CoverStart ==
    /\ work = Goto("coverstart")
    /\ ~db.unsat
    /\ IF ~CoverOn THEN db' = db /\ work' \in {Goto("elim"), Goto("elimdone")}
       ELSE \E d \in {propagate(db)} :
              IF d.unsat THEN db' = d /\ work' = Goto("elimend")
              ELSE /\ db' = [d EXCEPT !.irr = {c \in @ : ~Satisfied(d, c)}]
                   /\ work' = Goto("cover")
    /\ UNCHANGED <<original, frozen, tainted, opts>>

(* A clause with frozen literals only is in no occurrence list.            *)
AllFrozen(c) == \A l \in c : Var(l) \in frozen

(* Asymmetric literal addition: no is the set of literals added so far,    *)
(* which are false; literals implied by the other clauses make their       *)
(* negation false as well.                                                 *)
AsymmetricLiterals(d, c, no) == Neg(Closure(d.irr \ {c}, d.units \cup Neg(no)) \ d.units)
Subsumed(d, c, no) == Conflicting(d.irr \ {c}, d.units \cup Neg(no))

(* The resolution candidates on lit that are not doubly satisfied, and the *)
(* literals of each that have no value.                                    *)
CoverCandidates(d, no, lit) ==
    {e \in occs(d, -lit) : ~AllFrozen(e) /\ \A k \in e \ {-lit} : -k \notin no /\ ~(k \in d.units)}
CoverFree(d, no, e, lit) == (e \ {-lit}) \ (no \cup Neg(d.units))

CoverIntersection(d, no, lit) ==
    {k \in Lits : \A e \in CoverCandidates(d, no, lit) : k \in CoverFree(d, no, e, lit)}

(* covered are the literals of the clause and those added to it, no all    *)
(* false ones, push the entries for the extension stack.                   *)
cover_push_extension(r, lit) ==
    [r EXCEPT !.push = Append(@, [clause |-> r.covered, witness |-> {lit}])]

cover_propagate_covered(d, r, lit) ==
    IF CoverCandidates(d, r.no, lit) = {}
    THEN [cover_push_extension(r, lit) EXCEPT !.taut = TRUE]
    ELSE LET new == CoverIntersection(d, r.no, lit)
         IN  IF new = {} THEN r
             ELSE [cover_push_extension(r, lit) EXCEPT !.covered = @ \cup new,
                                                       !.no = @ \cup new]

cover_propagate_asymmetric(d, c, r) ==
    IF Subsumed(d, c, r.no) THEN [r EXCEPT !.taut = TRUE]
    ELSE [r EXCEPT !.no = @ \cup AsymmetricLiterals(d, c, @)]

(* Asymmetric addition first, then one covered literal, of the variable v. *)
CoverStep(d, c, r, v) ==
    IF r.taut \/ r.covered \cap {v, -v} = {} \/ v \in frozen THEN r
    ELSE cover_propagate_asymmetric(d, c,
           cover_propagate_covered(d, r, CHOOSE l \in r.covered : Var(l) = v))

CoverAlong(d, c, s) ==
    LET try[i \in 0..Len(s)] ==
          IF i = 0 THEN cover_propagate_asymmetric(d, c,
                          [covered |-> Open(d, c), no |-> Open(d, c), push |-> <<>>, taut |-> FALSE])
          ELSE CoverStep(d, c, try[i - 1], s[i])
    IN  try[Len(s)]

(* The literals of the clause that are not covered are part of the entries *)
(* except, without proofs, of the last one.                                *)
CoverEntries(c, push, proofs) ==
    [i \in DOMAIN push |-> IF i = Len(push) /\ ~proofs THEN push[i]
                           ELSE [push[i] EXCEPT !.clause = @ \cup c]]

cover_clause(d, c, r, proofs) ==
    IF ~r.taut \/ r.push = <<>> THEN d
    ELSE [mark_garbage(d, c) EXCEPT !.ext = @ \o CoverEntries(c, r.push, proofs)]

(* The literals that may be covered are tried in some order of their       *)
(* variables, each of them twice.                                          *)
CoverClause ==
    /\ work = Goto("cover") /\ Room
    /\ \E c \in db.irr : \E s \in SetToSeqs(Vars), proofs \in BOOLEAN :
          /\ ~AllFrozen(c)
          /\ \E r \in {CoverAlong(db, c, s \o s)} : db' = cover_clause(db, c, r, proofs)
    /\ UNCHANGED <<original, frozen, tainted, work, opts>>

CoverEnd ==
    /\ work = Goto("cover")
    /\ work' \in {Goto("elim"), Goto("elimdone")}
    /\ UNCHANGED <<db, original, frozen, tainted, opts>>

----------------------------------------------------------------------------
(* condition.cpp.  The assignments a round may work with: every active     *)
(* variable that is not frozen has a value.                                *)
Conditionable(d) == {v \in Vars : active(d, v) /\ v \notin frozen}
ConditionAssignments(d) ==
    {{IF f[v] THEN v ELSE -v : v \in Conditionable(d)} : f \in [Conditionable(d) -> BOOLEAN]}

(* The literals of A that are false in a clause without a literal of A0.   *)
Conditionals(d, A, A0) ==
    {k \in A : \E e \in d.irr : ~Satisfied(d, e) /\ -k \in e /\ e \cap A0 = {}}

(* For the candidate c conditional literals not negated in c are           *)
(* unassigned, which turns autarky literals into conditional ones.  A and  *)
(* C are the assigned and the conditional literals.                        *)
ConditionStep(d, c, r) ==
    LET B == r.A \ (r.C \ Neg(c))
    IN  [A |-> B, C |-> (r.C \cap B) \cup Conditionals(d, B, B)]

ConditionFixpoint(d, c, A) ==
    LET step[i \in 0..Cardinality(Lits)] ==
          IF i = 0 THEN [A |-> A, C |-> Conditionals(d, A, A)] ELSE ConditionStep(d, c, step[i - 1])
    IN  step[Cardinality(Lits)]

Autarky(r) == r.A \ r.C

(* The candidates with an autarky literal left.  Clauses blocked earlier    *)
(* in the round are still watched, so each is decided by itself.           *)
GloballyBlocked(d, A) ==
    {c \in d.irr : /\ c \cap (A \ Conditionals(d, A, A)) # {}
                   /\ \E r \in {ConditionFixpoint(d, c, A)} : c \cap (r.A \ r.C) # {}}

(* Their entries on the stack, with the autarky part as witness.           *)
ConditionBlock(d, A, T) ==
    LET s == Sorted(T)
    IN  [d EXCEPT !.irr = @ \ T,
                  !.ext = @ \o [i \in DOMAIN s |->
                     [clause |-> s[i], witness |-> Autarky(ConditionFixpoint(d, s[i], A))]]]

(* A condition_round, which may stop at a limit before all candidates.     *)
Condition ==
    /\ work = Idle /\ "condition" \in opts
    /\ ~db.unsat /\ Room
    /\ \E d \in {[db EXCEPT !.irr = {c \in @ : ~Satisfied(db, c)}]} :
       \E A \in ConditionAssignments(d) : \E T \in SUBSET GloballyBlocked(d, A) :
          /\ T # {}
          /\ db' = ConditionBlock(d, A, T)
    /\ UNCHANGED <<original, frozen, tainted, work, opts>>
=============================================================================
