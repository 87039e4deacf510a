----------------------------- MODULE Enumerate -----------------------------
(***************************************************************************)
(* The enumeration loop: CommonInterface (propagate, checkMin, check,      *)
(* solve), the clause queue of CadicalSolver and the callbacks that fill   *)
(* and empty it, and CaDiCaL's external_propagate and                      *)
(* external_check_solution, which call them.                               *)
(*                                                                         *)
(* A clause is what it excludes, a set of models.  The trail is the set    *)
(* `open` of models it still allows, and `complete` says that the matrix   *)
(* is fully defined; decisions, unit propagation, learning and             *)
(* backtracking move `open` freely.  MinCheck is its contract: on a        *)
(* complete model it throws a clause exactly when the model is not         *)
(* minimal, on a partial one it may throw one, and no clause it throws     *)
(* excludes a minimal model.                                               *)
(***************************************************************************)
EXTENDS Integers, FiniteSets, Sequences

CONSTANTS Models,       \* the assignments that satisfy the formula
          Minimal,      \* those that are minimal in their isomorphism class
          AllModels,    \* --allModels
          CheckSols,    \* --checkSols: check partial assignments as well
          EveryTime,    \* --checkFreq 1: rand() % checkFreq is always 0
          PropLits,     \* --propLits: propagate unit clauses in cb_propagate
          TimeLimit,    \* a time limit is set
          MaxReports    \* bound: how often one model may be written

ASSUME ConstantsAssumption ==
  /\ Minimal \subseteq Models
  /\ AllModels \in BOOLEAN /\ CheckSols \in BOOLEAN /\ EveryTime \in BOOLEAN
  /\ PropLits \in BOOLEAN /\ TimeLimit \in BOOLEAN
  /\ MaxReports \in Nat \ {0}

VARIABLES
  \* CaDiCaL
  open,           \* models the trail allows
  complete,       \* every entry of the cycle set is assigned
  db,             \* models excluded by the clauses the solver has
  pc,             \* see Phase
  terminated,     \* terminate() was called
  \* CadicalSolver and CommonInterface
  clauses,        \* the queue of clauses not yet handed over
  changeInTrail,
  reported        \* how often each model was written to the output

vars == <<open, complete, db, pc, terminated, clauses, changeInTrail, reported>>
trailVars == <<open, complete>>
queueVars == <<clauses, reported>>

\* "search": propagate, analyze, restart, decide; "propagate": the cb_propagate
\* loop; "clauses": the cb_has_external_clause loop; "model": cb_check_found_model;
\* "veto": the clause loop after a rejected model; then the result of solve().
Phase == {"search", "propagate", "clauses", "model", "veto", "unsat", "stopped"}

Clause == SUBSET Models

\* A complete trail is one model; whether a trail that allows one model is
\* complete is left open.
Trail(S, full) == /\ open' = S
                  /\ complete' = full
                  /\ full => \E m \in S : S = {m}

Init ==
  /\ open = Models
  /\ complete = FALSE
  /\ db = {}
  /\ pc = "search"
  /\ terminated = FALSE
  /\ clauses = <<>>
  /\ changeInTrail = TRUE
  /\ reported = [m \in Models |-> 0]

-----------------------------------------------------------------------------
(* The CDCL search between two calls of the observer *)

\* A trail that conflicts with the clauses cannot leave propagate().
Falsified == complete /\ open \subseteq db

\* Decisions and implications; every assignment of an observed variable sets
\* changeInTrail in notify_assignment.
Extend(S, full) ==
  /\ pc = "search"
  /\ ~complete
  /\ S \subseteq open
  /\ Trail(S, full)
  /\ changeInTrail' = TRUE
  /\ UNCHANGED <<db, pc, terminated, clauses, reported>>

\* Conflict analysis or a restart (a full assignment without conflict is checked
\* before restarting() is asked); notify_backtrack leaves changeInTrail alone.
Backtrack(S) ==
  /\ pc = "search"
  /\ complete => Falsified
  /\ open \subseteq S
  /\ Trail(S, FALSE)
  /\ UNCHANGED <<db, pc, terminated, clauses, changeInTrail, reported>>

ExternalPropagate ==
  /\ pc = "search"
  /\ ~Falsified
  /\ pc' = "propagate"
  /\ UNCHANGED <<open, complete, db, terminated, clauses, changeInTrail, reported>>

\* solve() returns 20: no model satisfies the clauses.
Unsatisfiable ==
  /\ pc = "search"
  /\ Models \subseteq db
  /\ pc' = "unsat"
  /\ UNCHANGED <<open, complete, db, terminated, clauses, changeInTrail, reported>>

\* terminated_asynchronously(), once cb_propagate saw the time limit pass.
Stop ==
  /\ pc = "search"
  /\ terminated
  /\ pc' = "stopped"
  /\ UNCHANGED <<open, complete, db, terminated, clauses, changeInTrail, reported>>

-----------------------------------------------------------------------------
(* CommonInterface::checkMin *)

\* A wrong version of addClause: all the clauses of a vector, not its first.
addClauses(c) == clauses' = clauses \o <<c, c>>

addClause(c) == clauses' = Append(clauses, c)

\* fprintCycleSet of the current, complete model.
Report == /\ \A m \in open : reported[m] < MaxReports
          /\ reported' = [m \in Models |-> reported[m] + IF m \in open THEN 1 ELSE 0]

\* A wrong version of Broken: a clause that excludes minimal models.
BrokenAny == /\ complete => open \cap Minimal = {}
             /\ \E c \in Clause : (complete => open \subseteq c) /\ addClause(c)
             /\ UNCHANGED reported

\* MinCheck throws a symmetry breaking clause.
Broken == /\ complete => open \cap Minimal = {}
          /\ \E c \in SUBSET (Models \ Minimal) :
               /\ complete => open \subseteq c
               /\ addClause(c)
          /\ UNCHANGED reported

\* Wrong versions of Solution: not excluded, excluded but not written.
SolutionKept == complete /\ open \subseteq Minimal /\ AllModels /\ Report /\ UNCHANGED clauses

SolutionUnwritten == /\ complete /\ open \subseteq Minimal
                     /\ AllModels
                     /\ addClause(open)
                     /\ UNCHANGED reported

\* A complete minimal cycle set is written and excluded, with --allModels only.
Solution == /\ complete /\ open \subseteq Minimal
            /\ AllModels
            /\ Report
            /\ addClause(open)

Passed == /\ complete => open \subseteq Minimal /\ ~AllModels
          /\ UNCHANGED queueVars

checkMin == Broken \/ Solution \/ Passed

\* propagate(): rand() decides whether checkMin runs at all, unless checkFreq is 1.
propagate == \/ CheckSols /\ checkMin
             \/ ~(CheckSols /\ EveryTime) /\ UNCHANGED queueVars

-----------------------------------------------------------------------------
(* external_propagate *)

\* cb_propagate past the time limit: terminate() and return 0.
TimeOut ==
  /\ pc = "propagate"
  /\ TimeLimit
  /\ terminated' = TRUE
  /\ pc' = "clauses"
  /\ UNCHANGED <<open, complete, db, clauses, changeInTrail, reported>>

\* cb_propagate that returns 0: literals are not propagated here, nothing
\* changed, or the last clause of the queue is not unit and stays queued.
PropagateNothing ==
  /\ pc = "propagate"
  /\ IF PropLits /\ changeInTrail THEN propagate ELSE UNCHANGED queueVars
  /\ pc' = "clauses"
  /\ UNCHANGED <<open, complete, db, terminated, changeInTrail>>

\* cb_propagate with a unit clause: it leaves the queue for literal2clausePos or
\* literal2clauseNeg and its literal is assigned; the solver has the clause only
\* if it later asks for the reason (Explain), and comes back for more.  A literal
\* assigned on the root stays unknown to the observer (Propagator, Unheard): the
\* next check finds the same clause, still unit, and nothing changes.
PropagateUnit ==
  /\ pc = "propagate"
  /\ PropLits /\ changeInTrail /\ CheckSols
  /\ ~complete
  /\ \E c \in SUBSET (Models \ Minimal), full \in BOOLEAN :
       \E S \in SUBSET (open \ c) : Trail(S, full)
  /\ clauses = <<>>
  /\ pc' \in {"propagate", "search"}
  /\ complete' /\ open' \subseteq db => pc' = "search"
  /\ UNCHANGED <<db, terminated, clauses, changeInTrail, reported>>

\* cb_add_reason_clause_lit during conflict analysis hands over such a clause.
Explain ==
  /\ pc = "search"
  /\ PropLits /\ CheckSols
  /\ \E c \in SUBSET (Models \ Minimal) : db' = db \cup c
  /\ UNCHANGED <<open, complete, pc, terminated, clauses, changeInTrail, reported>>

\* cb_has_external_clause with an empty queue checks the cycle set when the
\* trail changed since the last time.
CheckForClause ==
  /\ pc \in {"clauses", "veto"}
  /\ clauses = <<>>
  /\ changeInTrail /\ ~PropLits
  /\ changeInTrail' = FALSE
  /\ propagate
  /\ UNCHANGED <<open, complete, db, pc, terminated>>

\* cb_has_external_clause returns true and cb_add_external_clause_lit empties the
\* last clause of the queue.  A clause the trail falsifies ends the loop with a
\* conflict; otherwise the trail may have moved (handle_external_clause).
DeliverClause ==
  /\ pc \in {"clauses", "veto"}
  /\ clauses # <<>>
  /\ LET c == clauses[Len(clauses)] IN
     /\ db' = db \cup c
     /\ \/ /\ open \subseteq c
           /\ pc' = "search"
           /\ UNCHANGED <<open, complete, changeInTrail>>
        \/ /\ ~(complete /\ open \subseteq c)
           /\ \E S \in SUBSET Models, full \in BOOLEAN : Trail(S, full)
           /\ changeInTrail' \in {changeInTrail, TRUE}
           /\ pc' \in {pc, "search"}
           /\ complete' /\ open' \subseteq db' => pc' = "search"
  /\ clauses' = SubSeq(clauses, 1, Len(clauses) - 1)
  /\ UNCHANGED <<terminated, reported>>

\* A wrong version: a full assignment is never sent to the model check.
NoMoreClausesUnchecked ==
  /\ pc \in {"clauses", "veto"}
  /\ clauses = <<>>
  /\ ~(changeInTrail /\ ~PropLits)
  /\ pc' = "search"
  /\ UNCHANGED <<open, complete, db, terminated, clauses, changeInTrail, reported>>

\* The clause loop ends; satisfied() sends a full assignment to the model check.
NoMoreClauses ==
  /\ pc \in {"clauses", "veto"}
  /\ clauses = <<>>
  /\ ~(changeInTrail /\ ~PropLits)
  /\ pc' = IF complete THEN "model" ELSE "search"
  /\ UNCHANGED <<open, complete, db, terminated, clauses, changeInTrail, reported>>

-----------------------------------------------------------------------------
(* external_check_solution *)

\* cb_check_found_model: no check while a clause is waiting, else check().
RejectModel ==
  /\ pc = "model"
  /\ IF clauses # <<>> THEN UNCHANGED queueVars ELSE Broken \/ Solution
  /\ pc' = "veto"
  /\ UNCHANGED <<open, complete, db, terminated, changeInTrail>>

\* A wrong version: the model is printed whatever the minimality check says.
AcceptModelUnchecked ==
  /\ pc = "model"
  /\ clauses = <<>>
  /\ ~AllModels
  /\ Report
  /\ Trail(Models, FALSE)
  /\ pc' = "search"
  /\ UNCHANGED <<db, terminated, clauses, changeInTrail>>

\* check() without --allModels prints the model and accepts it; solve() returns
\* 10 and the loop of CadicalSolver::solve starts the solver again.
AcceptModel ==
  /\ pc = "model"
  /\ clauses = <<>>
  /\ open \subseteq Minimal /\ ~AllModels
  /\ Report
  /\ Trail(Models, FALSE)
  /\ pc' = "search"
  /\ UNCHANGED <<db, terminated, clauses, changeInTrail>>

Next ==
  \/ \E S \in SUBSET open, full \in BOOLEAN : Extend(S, full)
  \/ \E S \in SUBSET Models : Backtrack(S)
  \/ ExternalPropagate
  \/ Unsatisfiable
  \/ Stop
  \/ TimeOut
  \/ PropagateNothing
  \/ PropagateUnit
  \/ Explain
  \/ CheckForClause
  \/ DeliverClause
  \/ NoMoreClauses
  \/ RejectModel
  \/ AcceptModel

\* CaDiCaL is a complete solver: it does not stay away forever from a model its
\* clauses admit, it returns to the root level again and again (restarts), and
\* it notices an exhausted search space.  The callbacks are sequential code and
\* always go on.  The clause loop ends: a clause that does not end it assigns a
\* literal, and the trail is finite.  The cb_propagate loop ends when rand() skips
\* a check; with a check at every call nothing ends it, since a root literal may
\* be proposed again and again.
Reach == \E m \in Models \ db : Extend({m}, TRUE)
MayLoop == PropLits /\ CheckSols /\ EveryTime
Fairness ==
  /\ WF_vars(ExternalPropagate) /\ WF_vars(~MayLoop /\ PropagateNothing)
  /\ WF_vars(CheckForClause)
  /\ WF_vars(NoMoreClauses) /\ WF_vars(RejectModel) /\ WF_vars(AcceptModel)
  /\ SF_vars(DeliverClause /\ pc' = "search")
  /\ SF_vars(Backtrack(Models)) /\ SF_vars(Reach)
  /\ SF_vars(Unsatisfiable) /\ SF_vars(Stop)

Spec == Init /\ [][Next]_vars
-----------------------------------------------------------------------------
TypeOK ==
  /\ open \subseteq Models
  /\ complete \in BOOLEAN
  /\ db \subseteq Models
  /\ pc \in Phase
  /\ terminated \in BOOLEAN
  /\ clauses \in Seq(Clause)
  /\ changeInTrail \in BOOLEAN
  /\ reported \in [Models -> Nat]

Waiting == UNION {clauses[i] : i \in DOMAIN clauses}

\* No solution is written twice: between writing a solution (in propagate or in
\* check) and the solver learning its blocking clause no path checks the same
\* complete cycle set again.
ReportedOnce == \A m \in Models : reported[m] <= 1

\* Only minimal cycle sets are written.
ReportedMinimal == \A m \in Models : reported[m] > 0 => m \in Minimal

\* Clauses never lose a solution: a minimal model that the solver can no longer
\* find, or that a queued clause is about to exclude, has been written.
NothingLost == (db \cup Waiting) \cap Minimal \subseteq {m \in Models : reported[m] > 0}

\* assert(has_external_clause) in external_check_solution: a rejected model is
\* always followed by a clause, so the solver cannot be told `no` without a reason.
VetoHasClause == pc = "veto" => clauses # <<>>

\* The queue is drained before anything can add a second clause; the LIFO order
\* of cb_add_external_clause_lit therefore never reorders clauses.
QueueShort == Len(clauses) <= 1

\* cb_add_external_clause_lit serves the last clause of the queue: a rejected
\* model comes with a clause, and it is the one clause waiting.
ClausesServed == VetoHasClause /\ QueueShort

\* solve() ends, by exhausting the search space or by the time limit.
Terminates == <>(pc \in {"unsat", "stopped"})

\* The loop implements the promise of Catalogue.
Abstract == INSTANCE Catalogue WITH
  written <- [m \in Minimal |-> reported[m]],
  finished <- CASE pc = "unsat" -> "complete"
                [] pc = "stopped" -> "cut short"
                [] OTHER -> "no"
ImplementsCatalogue == Abstract!Spec
=============================================================================
