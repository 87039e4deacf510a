------------------------------ MODULE MCTrail ------------------------------
(***************************************************************************)
(* Five instances of Propagator in one run: `instance`, chosen at the      *)
(* start, says which one moves.  --propLits without a diagonal has the     *)
(* variables of Propagator, the other settings a second copy of them.      *)
(***************************************************************************)
EXTENDS Propagator

VARIABLES instance,
          trailD, valD, lvlD, controlD, inexactD, unitsD, notifiedD, pcD, targetD, impliedD,
          assignmentsD, matrixD, bitdomainsD, fixedCycleSetD, current_trailD

varsD == <<trailD, valD, lvlD, controlD, inexactD, unitsD, notifiedD, pcD, targetD, impliedD,
           assignmentsD, matrixD, bitdomainsD, fixedCycleSetD, current_trailD>>

FirstRow == {0}
TwoRows == {0, 1}
MCDiag == [i \in Val |-> i]

(* Without --propLits, three levels.                                       *)
C == INSTANCE Propagator WITH
       PropLits <- FALSE, MaxLevel <- 3,
       trail <- trailD, val <- valD, lvl <- lvlD, control <- controlD,
       inexact <- inexactD, units <- unitsD,
       notified <- notifiedD, pc <- pcD, target <- targetD, implied <- impliedD,
       assignments <- assignmentsD, matrix <- matrixD, bitdomains <- bitdomainsD,
       fixedCycleSet <- fixedCycleSetD, current_trail <- current_trailD

(* --diag with all variables and --propLits, two levels and two literals.   *)
D == INSTANCE Propagator WITH
       DiagPart <- TRUE, MaxImplied <- 2,
       trail <- trailD, val <- valD, lvl <- lvlD, control <- controlD,
       inexact <- inexactD, units <- unitsD,
       notified <- notifiedD, pc <- pcD, target <- targetD, implied <- impliedD,
       assignments <- assignmentsD, matrix <- matrixD, bitdomains <- bitdomainsD,
       fixedCycleSet <- fixedCycleSetD, current_trail <- current_trailD

(* --diag --smallerEncoding, two rows.                                     *)
S == INSTANCE Propagator WITH
       DiagPart <- TRUE, SmallerEncoding <- TRUE, PropLits <- FALSE, Rows <- TwoRows,
       trail <- trailD, val <- valD, lvl <- lvlD, control <- controlD,
       inexact <- inexactD, units <- unitsD,
       notified <- notifiedD, pc <- pcD, target <- targetD, implied <- impliedD,
       assignments <- assignmentsD, matrix <- matrixD, bitdomains <- bitdomainsD,
       fixedCycleSet <- fixedCycleSetD, current_trail <- current_trailD

(* --diag --smallerEncoding --propLits, three levels and three literals.   *)
R == INSTANCE Propagator WITH
       DiagPart <- TRUE, SmallerEncoding <- TRUE, MaxLevel <- 3, MaxImplied <- 3,
       trail <- trailD, val <- valD, lvl <- lvlD, control <- controlD,
       inexact <- inexactD, units <- unitsD,
       notified <- notifiedD, pc <- pcD, target <- targetD, implied <- impliedD,
       assignments <- assignmentsD, matrix <- matrixD, bitdomains <- bitdomainsD,
       fixedCycleSet <- fixedCycleSetD, current_trail <- current_trailD

(* The copy is not used with the variables of Propagator.                  *)
Unused == /\ trailD = <<>> /\ valD = <<>> /\ lvlD = <<>> /\ controlD = <<>>
          /\ inexactD = {} /\ unitsD = {} /\ notifiedD = 0 /\ pcD = "unused" /\ targetD = 0 /\ impliedD = 0
          /\ assignmentsD = <<>> /\ matrixD = <<>> /\ bitdomainsD = <<>>
          /\ fixedCycleSetD = {} /\ current_trailD = <<>>

MCInit ==
  /\ Init
  /\ \/ instance = "plain" /\ Unused
     \/ instance = "clauses" /\ C!Init
     \/ instance = "diag" /\ D!Init
     \/ instance = "smaller" /\ S!Init
     \/ instance = "row" /\ R!Init

MCNext ==
  /\ UNCHANGED instance
  /\ \/ instance = "plain" /\ Next /\ UNCHANGED varsD
     \/ instance = "clauses" /\ C!Next /\ UNCHANGED vars
     \/ instance = "diag" /\ D!Next /\ UNCHANGED vars
     \/ instance = "smaller" /\ S!Next /\ UNCHANGED vars
     \/ instance = "row" /\ R!Next /\ UNCHANGED vars

MCSpec == MCInit /\ [][MCNext]_<<instance, vars, varsD>>

(* The variables of Propagator alone.                                      *)
PlainSpec == MCInit /\ instance = "plain" /\ [][MCNext]_<<instance, vars, varsD>>
-----------------------------------------------------------------------------
(* Whatever the options: the observer mirrors the solver's trail, and what  *)
(* notify_assignment and notify_backtrack leave in the matrix and the      *)
(* domains is what checkMin and cb_decide need.                            *)
OtherOptions ==
  /\ instance = "clauses" =>
       /\ C!AssignmentsAgree /\ C!TrailMirrored /\ C!FixedAgree
       /\ C!MatrixRight /\ C!DomainsRight /\ C!DecisionOpen
  /\ instance = "diag" =>
       /\ D!AssignmentsAgree /\ D!TrailMirrored /\ D!FixedAgree
       /\ D!MatrixRight /\ D!DomainsRight /\ D!DecisionOpen
  /\ instance = "smaller" =>
       /\ S!AssignmentsAgree /\ S!TrailMirrored /\ S!FixedAgree
       /\ S!MatrixRight /\ S!DomainsRight /\ S!DecisionOpen
  /\ instance = "row" =>
       /\ R!AssignmentsAgree /\ R!TrailMirrored /\ R!FixedAgree
       /\ R!MatrixRight /\ R!DomainsRight /\ R!DecisionOpen
=============================================================================
