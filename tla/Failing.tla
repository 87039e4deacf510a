------------------------------ MODULE Failing ------------------------------
(***************************************************************************)
(* Assumptions and the constraint: how they are added, how the trail of    *)
(* the last query is reused, and failing, which finds the assumptions that *)
(* a query was unsatisfiable for and derives the clauses that show it.     *)
(***************************************************************************)
EXTENDS Analyze

assume(s, lit) ==
    LET t == Emit([s EXCEPT !.eassumptions = Append(@, lit)], Trace("assume", 0, {lit}, <<>>))
        u == IF Value(t, lit) < 0 THEN backtrack(t, Max({0, Level(t, lit) - 1})) ELSE t
    IN IF lit \in ToSet(s.assumptions) THEN u
       ELSE [u EXCEPT !.assumptions = Append(@, lit)]

constrain(s, lits) ==
    LET C == ToSet(lits)
        t == Emit(backtrack(s, 0), Trace("constrain", 0, C, <<>>))
        u == [t EXCEPT !.econstraint = lits]
        satisfied == Tautological(C) \/ \E l \in C : Value(t, l) > 0
        left == SelectSeq(lits, LAMBDA l : Value(t, l) = 0)
    IN IF satisfied THEN u
       ELSE IF left # <<>> THEN [u EXCEPT !.constraint = left]
       ELSE [u EXCEPT !.unsat_constraint = TRUE, !.marked_failed = (s.conflict_id # 0)]

(* transition_to_steady_state: the first call after an answer.             *)
reset(s) ==
    Emit([s EXCEPT !.assumptions = <<>>, !.eassumptions = <<>>, !.failed = {},
                   !.conclusion = IF s.conflict_id = 0 THEN <<>> ELSE @,
                   !.constraint = <<>>, !.econstraint = <<>>, !.unsat_constraint = FALSE,
                   !.marked_failed = TRUE],
         Trace("reset", 0, {}, <<>>))

----------------------------------------------------------------------------
(* The assumptions are sorted by the position on the trail: the level is   *)
(* shifted out of the int that is compared, and an unassigned variable is  *)
(* ranked by its number.                                                   *)
rank(s, l) == IF Value(s, l) = 0 THEN Abs(l) ELSE Position(s, l) - 1
Before(s, k, l) == rank(s, k) < rank(s, l) \/ (rank(s, k) = rank(s, l) /\ k < l)

(* The level up to which the decisions are the assumptions.                *)
RECURSIVE reuse(_, _, _, _)
reuse(s, i, j, size) ==
    LET d == s.control[i].decision
        alit == s.assumptions[j]
        next == reuse(s, i + 1, j + 1, size)
    IN IF Value(s, alit) # 0 /\ Level(s, alit) < i THEN reuse(s, i, j + 1, size)
       ELSE IF i + 1 < size /\ d = alit /\ Level(s, d) = i THEN next
       ELSE i - 1

sort_and_reuse_assumptions(s) ==
    LET sorted == SetToSortSeq(ToSet(s.assumptions), LAMBDA k, l : Before(s, k, l))
        t == [s EXCEPT !.assumptions = sorted]
        assigned == SelectInSeq(sorted, LAMBDA l : Value(s, l) = 0)
        last == IF assigned = 0 THEN Len(sorted) ELSE assigned - 1
        max_level == IF last = 0 THEN 0 ELSE Level(s, sorted[last])
        size == Min({level(s) + 1, max_level + 1})
    IN IF sorted = <<>> THEN s
       ELSE backtrack(t, IF size <= 1 THEN 0 ELSE reuse(t, 1, 1, size))

----------------------------------------------------------------------------
(* The implication graph above the assumptions, in the order of a proof:   *)
(* c has the solver, the variables seen, the chain and the falsified       *)
(* negations of assumptions found.                                         *)
RECURSIVE assume_analyze_literal(_, _), assume_analyze_explained(_, _)
assume_analyze_literal(c, lit) ==
    IF Abs(lit) \in c.seen THEN c
    ELSE assume_analyze_explained([c EXCEPT !.s = Explain(@, Abs(lit)), !.seen = @ \cup {Abs(lit)}],
                                  lit)

assume_analyze_explained(c, lit) ==
    LET k == Reason(c.s, lit) IN
    IF Level(c.s, lit) = 0 THEN [c EXCEPT !.chain = Append(@, c.s.unit[-lit])]
    ELSE IF k = 0 THEN [c EXCEPT !.clause = @ \cup {lit}]
    ELSE [FoldSet(LAMBDA other, d : assume_analyze_literal(d, other), c, c.s.cls[k].lits)
            EXCEPT !.chain = Append(@, c.s.cls[k].id)]

assume_analyze_reason(s, lit, k) ==
    [FoldSet(LAMBDA other, d : assume_analyze_literal(d, other),
             [s |-> s, seen |-> {Abs(lit)}, chain |-> <<>>, clause |-> {lit}], OthersIn(s, k, lit))
       EXCEPT !.chain = Append(@, s.cls[k].id)]

(* Mutant: the assumptions of the clauses before are not failed any more.  *)
add_assumption_clauseLast(s, C, chain) ==
    LET id == s.clause_id + 1 IN
    Emit([s EXCEPT !.clause_id = id, !.conclusion = Append(@, id),
                   !.failed = Negated(C) \cap ToSet(s.assumptions)],
         Trace("assumption", id, C, chain))

add_assumption_clause(s, C, chain) ==
    LET id == s.clause_id + 1 IN
    Emit([s EXCEPT !.clause_id = id, !.conclusion = Append(@, id),
                   !.failed = @ \cup (Negated(C) \cap ToSet(s.assumptions))],
         Trace("assumption", id, C, chain))

(* The three cases without a constraint: an assumption is false at the     *)
(* root level, two of them clash, or one is implied to be false.           *)
Falsified(s) == SelectSeq(s.eassumptions, LAMBDA l : Value(s, l) < 0)
FirstOf(s, test(_)) == LET q == SelectSeq(Falsified(s), test) IN IF q = <<>> THEN 0 ELSE Head(q)

add_core(c) == add_assumption_clause(c.s, c.clause, c.chain)

failing_assumption(s) ==
    LET failed_unit == FirstOf(s, LAMBDA l : Level(s, l) = 0)
        failed_clashing == FirstOf(s, LAMBDA l : Reason(s, l) = 0)
        first_failed == FirstOf(s, LAMBDA l : \A m \in ToSet(Falsified(s)) : Level(s, l) <= Level(s, m))
    IN IF failed_unit # 0
       THEN add_assumption_clause(s, {-failed_unit}, <<s.unit[-failed_unit]>>)
       ELSE IF failed_clashing # 0
       THEN add_assumption_clause(s, {failed_clashing, -failed_clashing}, <<>>)
       ELSE add_core(assume_analyze_reason(s, -first_failed, Reason(s, first_failed)))

(* One clause for each literal of the constraint, from the last to the     *)
(* first, and then for the literals that are false at the root level.      *)
Core(s, lit) ==
    assume_analyze_literal([s |-> s, seen |-> {}, chain |-> <<>>, clause |-> {}], lit)

conclude_constraint(s, cores, removed, lits) ==
    FoldLeft(LAMBDA t, lit : add_assumption_clause(t, {-lit}, <<t.unit[-lit]>>),
             FoldLeft(LAMBDA t, i : add_assumption_clause(t, cores[i].clause \cup {-lits[i]},
                                                          cores[i].chain),
                      IF cores = <<>> THEN s ELSE Last(cores).s,
                      Reverse([i \in DOMAIN cores |-> i])),
             removed)

failing_constraint(s) ==
    conclude_constraint(s,
        FoldLeft(LAMBDA cores, lit : Append(cores, Core(IF cores = <<>> THEN s ELSE Last(cores).s, lit)),
                 <<>>, s.constraint),
        SelectSeq(s.econstraint, LAMBDA l : l \notin ToSet(s.constraint)), s.constraint)

(* The reasons of false assumptions that the propagator has assigned are   *)
(* asked for, up to the first one that is one of the first two cases.      *)
Unexplained(s) ==
    LET l == FirstOf(s, LAMBDA m : Level(s, m) = 0 \/ Reason(s, m) \in {0, external_reason})
    IN IF l # 0 /\ Reason(s, l) = external_reason THEN l ELSE 0

RECURSIVE failing(_)
failing(s) ==
    LET lit == Unexplained(s) IN
    IF s.unsat_constraint THEN {failing_constraint(s)}
    ELSE IF lit = 0 THEN {failing_assumption(s)}
    ELSE UNION {failing([t EXCEPT !.lvl[Abs(lit)] = IF t.rsn[Abs(lit)] = 0 THEN 0
                                   ELSE assignment_level(t, -lit, t.rsn[Abs(lit)])]) :
                   t \in learn_external_reason_clause(s, Abs(lit), FALSE)}

----------------------------------------------------------------------------
(* finalize reports every clause the solver has, with the binary garbage   *)
(* it still has, and what its answer rests on.                             *)
Live(s) == {<<s.unit[l], {l}>> : l \in {m \in Lits : s.unit[m] # 0}}
           \cup {<<s.cls[k].id, s.cls[k].lits>> : k \in {j \in DOMAIN s.cls : s.cls[j].lits # {}}}
           \cup (IF s.conflict_id # 0 THEN {<<s.conflict_id, {}>>} ELSE {})

conclude_unsat_with(s) ==
    Emit([s EXCEPT !.marked_failed = TRUE],
         Trace(IF s.conflict_id # 0 THEN "CONFLICT"
               ELSE IF s.unsat_constraint THEN "CONSTRAINT" ELSE "ASSUMPTIONS",
               0, {}, s.conclusion))

finalize(s, res) ==
    LET t == Emit(s, [Trace("finalize", 0, {}, <<>>) EXCEPT !.live = Live(s)]) IN
    IF res # 20 THEN {t}
    ELSE {conclude_unsat_with(u) :
             u \in IF s.marked_failed \/ s.conflict_id # 0 THEN {t} ELSE failing(t)}
=============================================================================
