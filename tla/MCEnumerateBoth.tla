-------------------------- MODULE MCEnumerateBoth --------------------------
(***************************************************************************)
(* The enumeration in three settings, each with a copy of the variables of *)
(* its own; `instance` says which one runs: "all", --allModels with the    *)
(* options of the cfg; "often", --allModels with a check at every call     *)
(* (--checkFreq 1); "first", that without --allModels.  Four models in the *)
(* formula, two of them minimal.                                           *)
(***************************************************************************)
EXTENDS MCEnumerate

VARIABLES instance, openF, completeF, dbF, pcF, terminatedF, clausesF,
          changeInTrailF, reportedF, openG, completeG, dbG, pcG, terminatedG,
          clausesG, changeInTrailG, reportedG

varsF == <<openF, completeF, dbF, pcF, terminatedF, clausesF, changeInTrailF, reportedF>>
varsG == <<openG, completeG, dbG, pcG, terminatedG, clausesG, changeInTrailG, reportedG>>
allVars == <<instance, vars, varsF, varsG>>

F == INSTANCE Enumerate WITH
       AllModels <- FALSE, PropLits <- FALSE, TimeLimit <- FALSE, EveryTime <- TRUE,
       open <- openF, complete <- completeF, db <- dbF, pc <- pcF,
       terminated <- terminatedF, clauses <- clausesF,
       changeInTrail <- changeInTrailF, reported <- reportedF

G == INSTANCE Enumerate WITH
       PropLits <- FALSE, TimeLimit <- FALSE, EveryTime <- TRUE,
       open <- openG, complete <- completeG, db <- dbG, pc <- pcG,
       terminated <- terminatedG, clauses <- clausesG,
       changeInTrail <- changeInTrailG, reported <- reportedG

MCInit == instance \in {"all", "first", "often"} /\ Init /\ F!Init /\ G!Init

All(A)   == instance = "all" /\ A /\ UNCHANGED <<instance, varsF, varsG>>
Often(A) == instance = "often" /\ A /\ UNCHANGED <<instance, vars, varsF>>

MCNext == \/ All(Next)
          \/ Often(G!Next)
          \/ instance = "first" /\ F!Next /\ UNCHANGED <<instance, vars, varsG>>

(* Fairness of Enumerate, for the copies with --allModels.                 *)
MCFairness ==
  /\ WF_allVars(All(ExternalPropagate)) /\ WF_allVars(All(~MayLoop /\ PropagateNothing))
  /\ WF_allVars(All(CheckForClause)) /\ WF_allVars(All(NoMoreClauses))
  /\ WF_allVars(All(RejectModel))
  /\ SF_allVars(All(DeliverClause /\ pc' = "search"))
  /\ SF_allVars(All(Backtrack(Models))) /\ SF_allVars(All(Reach))
  /\ SF_allVars(All(Unsatisfiable)) /\ SF_allVars(All(Stop))
  /\ WF_allVars(Often(G!ExternalPropagate))
  /\ WF_allVars(Often(~G!MayLoop /\ G!PropagateNothing))
  /\ WF_allVars(Often(G!CheckForClause)) /\ WF_allVars(Often(G!NoMoreClauses))
  /\ WF_allVars(Often(G!RejectModel))
  /\ SF_allVars(Often(G!DeliverClause /\ pcG' = "search"))
  /\ SF_allVars(Often(G!Backtrack(Models))) /\ SF_allVars(Often(G!Reach))
  /\ SF_allVars(Often(G!Unsatisfiable))

MCSpec == MCInit /\ [][MCNext]_allVars /\ MCFairness
-----------------------------------------------------------------------------
(* With --allModels solve() ends, by exhausting the search space or by the *)
(* time limit (the loop of CadicalSolver::solve): with --propLits when a   *)
(* check is skipped now and then, without it also with --checkFreq 1.      *)
EnumerationEnds == /\ instance = "all" => Terminates
                   /\ instance = "often" => G!Terminates

(* Without --allModels what is written is minimal, no clause loses a       *)
(* minimal model that was not written, and a rejected model comes with a   *)
(* clause (cb_check_found_model, CommonInterface::check).                  *)
FirstModelRight == F!ReportedMinimal /\ F!NothingLost /\ F!VetoHasClause
=============================================================================
