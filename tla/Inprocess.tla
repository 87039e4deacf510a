----------------------------- MODULE Inprocess -----------------------------
(***************************************************************************)
(* CaDiCaL without its search: the incremental interface and all the       *)
(* procedures that simplify the formula between two searches, on one       *)
(* clause database.                                                        *)
(***************************************************************************)
EXTENDS Eliminate, Subsume, Blocking, Probing, External

vars == <<fvars, xvars>>

(* Before the first call.                                                  *)
NewDatabase == [irr |-> {}, red |-> {}, units |-> {}, unsat |-> FALSE, ext |-> <<>>,
                status |-> [v \in Vars |-> "unused"], bound |-> 0]

InitWith(calls, options) ==
    /\ db = NewDatabase
    /\ original = {} /\ frozen = {} /\ tainted = {}
    /\ work = Goto("user")
    /\ opts = options
    /\ script = calls
    /\ query = NoQuery
    /\ frozentab = [v \in Vars |-> 0]
    /\ answer = NoAnswer

UserNext == Add \/ Assume \/ Constrain \/ Freeze \/ Melt \/ Solve
SearchNext == Learn \/ Reduce \/ Answer

ElimNext == \/ ElimStart \/ ElimRoundStart \/ TryToEliminate \/ ElimBackward
            \/ ElimRoundEnd \/ Instantiate \/ InstantiateEnd \/ ElimContinue \/ ElimEnd
SubsumeNext == \/ SubsumeClause \/ SubsumeStart \/ SubsumeRoundEnd \/ SubsumeEnd
               \/ VivifyClause \/ VivifyRoundEnd \/ Transred \/ TransredEnd
BlockNext == \/ BlockStart \/ BlockLiteral \/ BlockEnd
             \/ CoverStart \/ CoverClause \/ CoverEnd \/ Condition
ProbeNext == \/ ProbeStart \/ Decompose \/ Ternary \/ TernaryEnd
             \/ Deduplicate \/ DeduplicateEnd
             \/ HyperBinary \/ FailedLiteral \/ ProbeEnd

(* The user has made all calls and got the last answer.                    *)
Done == work = Goto("user") /\ script = <<>> /\ UNCHANGED vars

Next == \/ UserNext \/ SearchNext
        \/ (ElimNext \/ SubsumeNext \/ BlockNext \/ ProbeNext) /\ UNCHANGED xvars
        \/ Done

----------------------------------------------------------------------------
(* Properties.                                                             *)

Satisfies(A, F) == \A c \in F : c \cap A # {}

(* The irredundant clauses are enough: while the solver works, and         *)
(* whatever has been removed, strengthened or turned redundant, the        *)
(* extension stack makes a model of the user's clauses of every assignment *)
(* that satisfies the irredundant clauses and the units (extend.cpp; the   *)
(* redundant ones may be dropped by reduce at any time).                   *)
ModelsExtend ==
    work.at \notin {"user", "solved"} /\ ~db.unsat =>
       \A A \in Assignments :
          db.units \subseteq A /\ Satisfies(A, db.irr) =>
             Satisfies(extend(db.ext, A), original)

(* Nothing is derived that does not follow from the user's clauses: not a  *)
(* clause, redundant or not, not a unit and not the empty clause; so no    *)
(* answer 20 is wrong and the witness clauses can come back at any time.   *)
Consequences ==
    \A A \in Assignments : Satisfies(A, original) =>
       /\ ~db.unsat
       /\ db.units \subseteq A
       /\ Satisfies(A, db.irr \cup db.red)

(* Procedures leave the frozen variables alone: as long as a query is      *)
(* worked on no entry of the extension stack flips a variable that is      *)
(* frozen against an assumption or away from the constraint.               *)
FrozenKept ==
    work.at \notin {"user", "solved"} /\ ~db.unsat =>
       /\ \A v \in frozen : db.status[v] \in {"active", "fixed"}
       /\ Witnesses(db) \cap Neg(query.assumptions) = {}

(* The whole refines what the interface promises (IncrementalSat): an      *)
(* answer 10 comes with a model of all clauses, assumptions and the        *)
(* constraint, an answer 20 only if there is none, over any number of      *)
(* queries.                                                                *)
Sat == INSTANCE IncrementalSat WITH clauses <- original, constraint <- query.constraint,
                                    assumptions <- query.assumptions
KeepsPromise == Sat!Spec
============================================================================
