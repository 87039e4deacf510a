-------------------------------- MODULE Cdcl --------------------------------
(***************************************************************************)
(* CaDiCaL's search: the user adds clauses, assumes, constrains and        *)
(* solves; the loop of cdcl_loop_with_inprocessing propagates, analyzes,   *)
(* restarts, reduces and decides; a propagator knows clauses the solver    *)
(* has not been told, propagates with them and is asked for them when a    *)
(* conflict needs them.  What a step traces is checked by the LratChecker  *)
(* before the next one.                                                    *)
(* Preprocessing, the local search and the lucky phases are left out, and  *)
(* so is the propagator at the root level.  Which restart, reduction and   *)
(* decision is made is open; choices are the literals decide prefers.      *)
(***************************************************************************)
EXTENDS Failing

CONSTANT ReduceMax      \* bound on the reductions of a session

VARIABLES solver,       \* the record of Trail.tla
          at,           \* who goes on: "user" or "search"
          calls,        \* the calls the user still makes
          res,          \* the answer, 0 while there is none
          restartable,  \* there has been a conflict since the last restart
          reductions,
          lazies,       \* the clauses of the propagator
          choices,
          tick          \* flips with each step: see Going

session == <<at, calls, res, restartable, reductions, lazies, choices>>
vars == <<lvars, solver, session, tick>>

None == [v \in Vars |-> 0]
Solver == [trail |-> <<>>, lvl |-> None, rsn |-> None, ext |-> [v \in Vars |-> {}],
           control |-> <<>>, propagated |-> 0, conflict |-> 0, cls |-> <<>>,
           unit |-> [l \in Lits |-> 0], clause_id |-> 0, unsat |-> FALSE, conflict_id |-> 0,
           unsat_constraint |-> FALSE, marked_failed |-> TRUE, assumptions |-> <<>>,
           eassumptions |-> <<>>, constraint |-> <<>>, econstraint |-> <<>>, failed |-> {},
           conclusion |-> <<>>, traced |-> <<>>]

Ready == proof = <<>> /\ ~fatal
Becomes(t) == /\ solver' = [t EXCEPT !.traced = <<>>]
              /\ proof' = t.traced
              /\ tick' = 1 - tick
              /\ UNCHANGED checkerVars

----------------------------------------------------------------------------
(* The user.                                                               *)
Steady == IF res = 0 THEN solver ELSE reset(solver)
Literals == Head(calls).lits
User(op) == /\ Ready /\ at = "user" /\ calls # <<>> /\ Head(calls).op = op
            /\ calls' = Tail(calls) /\ res' = 0
            /\ UNCHANGED <<reductions, lazies, choices>>

user_add ==
    /\ User("add")
    /\ \E t \in add_new_original_clause(Steady, ToSet(Literals), FALSE, FALSE) : Becomes(t)
    /\ UNCHANGED <<at, restartable>>

user_assume ==
    /\ User("assume")
    /\ Becomes(assume(Steady, Head(Literals)))
    /\ UNCHANGED <<at, restartable>>

user_constrain ==
    /\ User("constrain")
    /\ Becomes(constrain(Steady, Literals))
    /\ UNCHANGED <<at, restartable>>

user_solve ==
    /\ User("solve")
    /\ Becomes(sort_and_reuse_assumptions(Steady))
    /\ at' = "search" /\ restartable' = FALSE

----------------------------------------------------------------------------
(* The loop.                                                               *)
Search == Ready /\ at = "search" /\ UNCHANGED <<calls, lazies, choices>>
Same == UNCHANGED <<at, res, restartable, reductions>>

report(s, r) == /\ \E t \in finalize(s, r) : Becomes(t)
                /\ at' = "user" /\ res' = r
                /\ UNCHANGED <<restartable, reductions>>

Solved == solver.unsat \/ solver.unsat_constraint
Propagated == solver.conflict = 0 /\ solver.propagated = Len(solver.trail)
Quiet == ~Solved /\ Propagated

(* The answer 20: the empty clause, or what decide finds: the next          *)
(* assumption or the whole constraint is false.                            *)
Assumption == solver.assumptions[level(solver) + 1]
AtConstraint == level(solver) = Len(solver.assumptions) /\ solver.constraint # <<>>
DecideFails == /\ Quiet
               /\ \/ level(solver) < Len(solver.assumptions) /\ Value(solver, Assumption) < 0
                  \/ AtConstraint /\ Open(solver, ToSet(solver.constraint)) = {}

unsatisfiable ==
    /\ Search /\ (Solved \/ DecideFails)
    /\ report(IF Solved THEN solver
              ELSE [solver EXCEPT !.marked_failed = FALSE, !.unsat_constraint = AtConstraint], 20)

propagate_all ==
    /\ Search /\ ~Solved /\ solver.conflict = 0 /\ ~Propagated
    /\ \E t \in propagate(solver) : Becomes(t)
    /\ Same

analyze_and_learn ==
    /\ Search /\ ~Solved /\ solver.conflict # 0
    /\ \E t \in analyze(solver) : Becomes(t)
    /\ restartable' = TRUE
    /\ UNCHANGED <<at, res, reductions>>

(* external_propagate: a literal, whose reason stays unknown,              *)
(* or a falsified clause, as an external clause or as the reason of a      *)
(* propagation that comes too late.                                        *)
external_propagate ==
    /\ Search /\ Quiet /\ level(solver) > 0
    /\ \E C \in lazies :
       \/ \E lit \in Open(solver, C) :
             /\ Open(solver, C) = {lit} /\ lit \notin True(solver)
             /\ Becomes([search_assign(solver, lit, level(solver), external_reason, <<>>)
                           EXCEPT !.ext[Abs(lit)] = C])
       \/ /\ Open(solver, C) = {}
          /\ \E t \in add_new_original_clause(solver, C, TRUE, FALSE) : Becomes(t)
    /\ Same

(* Mutant: the level of the constraint is not asked for.                  *)
satisfiedUnconstrained ==
    /\ level(solver) >= Len(solver.assumptions)
    /\ Len(solver.trail) = Cardinality(Vars)
    /\ Propagated

satisfied ==
    /\ level(solver) >= Len(solver.assumptions) + (IF solver.constraint = <<>> THEN 0 ELSE 1)
    /\ Len(solver.trail) = Cardinality(Vars)
    /\ Propagated

(* external_check_solution: the propagator accepts the model or has a      *)
(* clause that it violates.                                                *)
found_model ==
    /\ Search /\ Quiet /\ satisfied
    /\ LET violated == {C \in lazies : Open(solver, C) = {}} IN
       IF violated = {} THEN report(solver, 10)
       ELSE /\ \E C \in violated : \E t \in add_new_original_clause(solver, C, TRUE, FALSE) :
                 Becomes(IF t.conflict = 0 THEN t
                         ELSE backtrack(t, HighestLevel(t, t.cls[t.conflict].lits)))
            /\ Same

(* reuse_trail keeps the assumptions, a pseudo decision of the constraint  *)
(* and the decisions that would be made again.                             *)
trivial_decisions ==
    LET n == Len(solver.assumptions) IN
    n + (IF solver.control[n + 1].decision = 0 THEN 1 ELSE 0)

(* Mutant: a restart is not tied to conflicts and keeps no decision.       *)
restartAgain ==
    /\ Search /\ Quiet /\ ~satisfied /\ restartable
    /\ level(solver) >= Len(solver.assumptions) + 2
    /\ Becomes(backtrack(solver, trivial_decisions))
    /\ Same

restart ==
    /\ Search /\ Quiet /\ ~satisfied /\ restartable
    /\ level(solver) >= Len(solver.assumptions) + 2
    /\ \E n \in trivial_decisions .. level(solver) :
          /\ \A i \in trivial_decisions + 1 .. n : solver.control[i].decision # 0
          /\ Becomes(backtrack(solver, n))
    /\ restartable' = FALSE
    /\ UNCHANGED <<at, res, reductions>>

----------------------------------------------------------------------------
(* reduce.                                                                 *)
OutOfOrder(s) ==
    level(s) > 0 /\ \E i \in s.control[1].trail + 1 .. Len(s.trail) : Level(s, s.trail[i]) = 0
propagate_out_of_order_units(s) ==
    IF ~OutOfOrder(s) THEN {s}
    ELSE {IF t.conflict = 0 THEN t ELSE learn_empty_clause(t) : t \in propagate(backtrack(s, 0))}

Kept(s) == {k \in DOMAIN s.cls : ~s.cls[k].garbage}
OverClauses(f(_, _), s, K) ==
    FoldLeft(f, s, SelectSeq([k \in DOMAIN s.cls |-> k], LAMBDA k : k \in K))

remove_falsified_literals(s, k) ==
    LET C == s.cls[k].lits
        false == {l \in C : fixed(s, l) < 0}
    IN IF Cardinality(C \ false) < 2 THEN s
       ELSE replace_clause(s, k, C \ false, Append(UnitIds(s, false), s.cls[k].id))

mark_satisfied(s, k) ==
    LET C == s.cls[k].lits IN
    IF \E l \in C : fixed(s, l) > 0 THEN mark_garbage(s, k)
    ELSE IF \E l \in C : fixed(s, l) < 0 THEN remove_falsified_literals(s, k)
    ELSE s

Reasons(s) == {s.rsn[v] : v \in Vars}
mark_satisfied_clauses_as_garbage(s) == OverClauses(mark_satisfied, s, Kept(s))
(* Mutant: clauses that are reasons are not protected.                     *)
UselessReasons(s) == {k \in Kept(s) : s.cls[k].redundant}
Useless(s) == {k \in Kept(s) \ Reasons(s) : s.cls[k].redundant}
Collectable(s) == {k \in DOMAIN s.cls \ Reasons(s) : s.cls[k].garbage /\ s.cls[k].lits # {}}
collect(s) == OverClauses(delete_clause_of, s, Collectable(s))

reduce ==
    /\ Search /\ Quiet /\ ~satisfied /\ reductions < ReduceMax
    /\ \E k \in Kept(solver) : solver.cls[k].redundant
    /\ \E t \in propagate_out_of_order_units(solver) :
       IF t.unsat THEN Becomes(t)
       ELSE \E u \in {mark_satisfied_clauses_as_garbage(t)} : \E useless \in SUBSET Useless(u) :
               Becomes(collect(OverClauses(mark_garbage, u, useless)))
    /\ reductions' = reductions + 1
    /\ UNCHANGED <<at, res, restartable>>

----------------------------------------------------------------------------
(* decide: the next assumption, the constraint or a variable.              *)
Deciding == Search /\ Quiet /\ ~satisfied

decide_assumption ==
    /\ Deciding /\ level(solver) < Len(solver.assumptions)
    /\ Value(solver, Assumption) >= 0
    /\ Becomes(IF Value(solver, Assumption) > 0 THEN new_trail_level(solver, 0)
               ELSE search_assume_decision(solver, Assumption))
    /\ Same

decide_constraint ==
    /\ Deciding /\ AtConstraint
    /\ LET true == SelectSeq(solver.constraint, LAMBDA l : Value(solver, l) > 0)
           open == {l \in ToSet(solver.constraint) : Value(solver, l) = 0}
       IN \/ /\ true # <<>>
             /\ Becomes([new_trail_level(solver, 0) EXCEPT
                           !.constraint = <<Head(true)>>
                               \o SelectSeq(@, LAMBDA l : l # Head(true))])
          \/ /\ true = <<>>
             /\ \E lit \in open : Becomes(search_assume_decision(solver, lit))
    /\ Same

Decisions == LET open == {l \in choices : Value(solver, l) = 0} IN
             IF open # {} THEN open
             ELSE {Min({v \in Vars : Value(solver, v) = 0})}

decide ==
    /\ Deciding /\ level(solver) >= Len(solver.assumptions) /\ ~AtConstraint
    /\ \E lit \in Decisions : Becomes(search_assume_decision(solver, lit))
    /\ Same

----------------------------------------------------------------------------
Checking == CheckerNext /\ tick' = 1 - tick /\ UNCHANGED <<solver, session>>

InitWith(script, C, D) ==
    /\ CheckerInit
    /\ solver = Solver
    /\ at = "user" /\ calls = script /\ res = 0
    /\ restartable = FALSE /\ reductions = 0 /\ lazies = C /\ choices = D /\ tick = 0

Done == calls = <<>> /\ at = "user" /\ proof = <<>>

Finished == Done /\ UNCHANGED vars

Next ==
    \/ user_add \/ user_assume \/ user_constrain \/ user_solve
    \/ unsatisfiable \/ propagate_all \/ analyze_and_learn \/ external_propagate
    \/ found_model \/ restart \/ reduce
    \/ decide_assumption \/ decide_constraint \/ decide
    \/ Checking \/ Finished

(* The thread goes on as long as the user has calls.  Every step but       *)
(* Finished flips tick and no other state is a deadlock, so that the weak  *)
(* fairness of Going is the one of all other steps.                        *)
Going == ~Done /\ tick' = 1 - tick

----------------------------------------------------------------------------
(* What the analysis relies on: a reason is a clause that still implies    *)
(* its literal, by literals that were false before and of no higher level, *)
(* also when clauses are strengthened, subsumed, explained late, reduced   *)
(* and the trail is not cut where the conflict was: propagate.cpp:103-168. *)
ImpliedBy(s, l, k) ==
    /\ l \in s.cls[k].lits
    /\ \A m \in OthersIn(s, k, l) : /\ -m \in True(s)
                                   /\ Position(s, m) < Position(s, l)
                                   /\ Level(s, m) <= Level(s, l)

ReasonsHold ==
    \A l \in True(solver) : Reason(solver, l) > 0 => ImpliedBy(solver, l, Reason(solver, l))

(* Every chain the solver builds is accepted, every clause it deletes or   *)
(* finalizes is one the checker has, and each unsatisfiable answer has its *)
(* conclusion: lratchecker.cpp stops the program otherwise.                *)
ProofAccepted == ~fatal

(* An answer is right: a model of all the clauses, the assumptions and the *)
(* constraint, or failed assumptions that cannot be met, with the          *)
(* constraint if it is part of the reason: external.cpp:check_solve_result *)
(* checks the same when it is asked to.                                    *)
Problem == original \cup lazies
Units(A) == {{l} : l \in A}
Constraint == IF solver.econstraint = <<>> THEN {} ELSE {ToSet(solver.econstraint)}
Assumed == ToSet(solver.eassumptions)
Unsatisfiable(F) == \A A \in Assignments : ~Satisfies(A, F)

AnswersRight ==
    at = "user" /\ proof = <<>> =>
        /\ res = 10 =>
              /\ True(solver) \in Assignments
              /\ Satisfies(True(solver), Problem \cup Units(Assumed) \cup Constraint)
        /\ res = 20 =>
              /\ solver.failed \subseteq Assumed
              /\ Unsatisfiable(Problem \cup (IF solver.conflict_id # 0 THEN {}
                                             ELSE Units(solver.failed)
                                                  \cup (IF solver.unsat_constraint
                                                        THEN Constraint ELSE {})))

(* Over all queries the answers are those IncrementalSat allows for the    *)
(* clauses the user and the propagator have added: internal.cpp:687-780.   *)
Told == proof = <<>>
Sat == INSTANCE IncrementalSat WITH
         clauses <- original, assumptions <- Assumed, constraint <- Constraint,
         answer <- [res |-> IF Told THEN res ELSE 0,
                    model |-> IF Told /\ res = 10 THEN True(solver) ELSE {}]
ImplementsIncrementalSat == Sat!Spec

(* The search comes to an end, whatever is decided and propagated:         *)
(* conflicts only derive new clauses or units, whichever are strengthened, *)
(* subsumed, explained or reduced on the way, internal.cpp:210-275.        *)
Answered == <>Done
=============================================================================
