-------------------------- MODULE EnumerateProofs --------------------------
(***************************************************************************)
(* The enumeration loop keeps the promise of Catalogue, for every set of   *)
(* models and every setting of the options.                                *)
(*                                                                         *)
(* The invariants the runs check are not inductive.  What carries them is  *)
(* the discipline of the clause queue: it is empty whenever the solver     *)
(* searches or starts a round of callbacks, so at most one clause waits,   *)
(* and the observer is never shown a complete trail that contradicts a     *)
(* clause the solver has.  A solution that was written is therefore        *)
(* waiting or excluded, and is never shown again.                          *)
(***************************************************************************)
EXTENDS Enumerate, SequenceTheorems, TLAPS

Written == {m \in Models : reported[m] > 0}

\* Only the clause loop sees a waiting clause.
QueueEmptied == pc \in {"search", "propagate", "model"} => clauses = <<>>

\* The model check runs on a complete trail, and its veto comes with a clause
\* that the trail falsifies.
Vetoed == /\ pc \in {"model", "veto"} => complete
          /\ pc = "veto" => /\ Len(clauses) = 1
                            /\ open \subseteq clauses[1]

CompleteIsOne == complete => \E m \in Models : open = {m}

\* The observer is never shown a complete trail that is already excluded.
Fresh == (complete /\ pc \in {"propagate", "clauses", "model"} /\ clauses = <<>>)
            => ~(open \subseteq db)

WrittenIsExcluded == AllModels => Written \subseteq db \cup Waiting

IInv == /\ TypeOK /\ ReportedMinimal /\ NothingLost /\ QueueShort
        /\ QueueEmptied /\ Vetoed /\ CompleteIsOne /\ Fresh
        /\ WrittenIsExcluded
        /\ AllModels => ReportedOnce

-----------------------------------------------------------------------------
LEMMA InitIInv == Init => IInv
<1> SUFFICES ASSUME Init
             PROVE  IInv
  OBVIOUS
<1>1. clauses \in Seq(Clause) /\ Len(clauses) = 0
  BY EmptySeq DEF Init
<1>2. TypeOK
  BY <1>1 DEF Init, TypeOK, Phase
<1> QED BY <1>1, <1>2
        DEF Init, IInv, ReportedMinimal, NothingLost, Waiting, QueueShort, QueueEmptied,
            Vetoed, CompleteIsOne, Fresh, WrittenIsExcluded, Written, ReportedOnce

\* What a queue of at most one clause excludes.
LEMMA WaitingOne ==
  ASSUME clauses \in Seq(Clause), Len(clauses) <= 1
  PROVE  /\ clauses = <<>> => Waiting = {}
         /\ clauses # <<>> => Len(clauses) = 1 /\ Waiting = clauses[1]
         /\ clauses # <<>> => clauses[1] \in Clause
<1>1. Len(clauses) \in Nat /\ DOMAIN clauses = 1 .. Len(clauses)
  BY LenProperties
<1>2. CASE clauses = <<>>
  BY <1>1, <1>2, EmptySeq DEF Waiting
<1>3. CASE clauses # <<>>
  <2>1. Len(clauses) = 1
    BY <1>1, <1>3, EmptySeq
  <2>2. DOMAIN clauses = {1}
    BY <1>1, <2>1
  <2> QED BY <1>3, <2>1, <2>2, ElementOfSeq DEF Waiting
<1> QED BY <1>2, <1>3

\* A clause added to an empty queue is the only one waiting.
LEMMA AddedClause ==
  ASSUME clauses = <<>>, NEW c \in Clause, addClause(c)
  PROVE  /\ clauses' \in Seq(Clause) /\ Len(clauses') = 1 /\ clauses'[1] = c
         /\ Waiting' = c
<1>1. clauses' = Append(<<>>, c) /\ <<>> \in Seq(Clause) /\ Len(<<>>) = 0
  BY EmptySeq DEF addClause
<1>2. /\ clauses' \in Seq(Clause) /\ Len(clauses') = 1 /\ clauses'[1] = c
      /\ DOMAIN clauses' = {1}
  BY <1>1, AppendProperties
<1> QED BY <1>2 DEF Waiting

\* One call of checkMin on an empty queue: what it adds and what it writes.
LEMMA CheckMinStep ==
  ASSUME IInv, clauses = <<>>, pc \in {"propagate", "clauses", "model"},
         Broken \/ Solution \/ UNCHANGED queueVars,
         UNCHANGED <<open, complete, db>>
  PROVE  /\ clauses' \in Seq(Clause) /\ Len(clauses') <= 1
         /\ reported' \in [Models -> Nat]
         /\ ReportedMinimal' /\ NothingLost' /\ WrittenIsExcluded'
         /\ AllModels => ReportedOnce'
         /\ complete /\ ~(UNCHANGED queueVars) =>
              Len(clauses') = 1 /\ open \subseteq clauses'[1]
         /\ clauses' = <<>> => UNCHANGED queueVars
<1> USE DEF IInv
<1>0. Waiting = {} /\ Len(clauses) = 0
  BY WaitingOne, EmptySeq DEF TypeOK, QueueShort
<1>1. CASE Broken
  <2>1. PICK c \in SUBSET (Models \ Minimal) :
          addClause(c) /\ (complete => open \subseteq c) /\ UNCHANGED reported
    BY <1>1 DEF Broken
  <2>2. c \in Clause
    BY DEF Clause
  <2>3. /\ clauses' \in Seq(Clause) /\ Len(clauses') = 1 /\ clauses'[1] = c
        /\ Waiting' = c
    BY <2>1, <2>2, AddedClause
  <2>4. clauses' # <<>>
    BY <2>3, EmptySeq
  <2> QED BY <1>0, <2>1, <2>3, <2>4
          DEF TypeOK, ReportedMinimal, NothingLost, WrittenIsExcluded, Written, ReportedOnce
<1>2. CASE Solution
  <2>1. complete /\ open \subseteq Minimal /\ AllModels /\ Report /\ addClause(open)
    BY <1>2 DEF Solution
  <2>2. PICK s \in Models : open = {s}
    BY <2>1 DEF CompleteIsOne
  <2>3. open \in Clause
    BY <2>2 DEF Clause
  <2>4. /\ clauses' \in Seq(Clause) /\ Len(clauses') = 1 /\ clauses'[1] = open
        /\ Waiting' = open
    BY <2>1, <2>3, AddedClause
  <2>5. clauses' # <<>>
    BY <2>4, EmptySeq
  <2>6. s \notin db
    BY <2>1, <2>2 DEF Fresh
  <2>7. reported[s] = 0
    BY <1>0, <2>1, <2>6 DEF WrittenIsExcluded, Written, TypeOK
  <2>8. reported' = [m \in Models |-> IF m = s THEN 1 ELSE reported[m]]
    BY <2>1, <2>2, <2>7 DEF Report, TypeOK
  <2> QED BY <1>0, <2>1, <2>2, <2>4, <2>5, <2>8
          DEF TypeOK, ReportedMinimal, NothingLost, WrittenIsExcluded, Written, ReportedOnce
<1>3. CASE UNCHANGED queueVars
  <2>1. UNCHANGED <<clauses, reported>>
    BY <1>3 DEF queueVars
  <2>2. Waiting' = Waiting
    BY <2>1 DEF Waiting
  <2> QED BY <1>0, <1>3, <2>1, <2>2
          DEF TypeOK, ReportedMinimal, NothingLost, WrittenIsExcluded, Written, ReportedOnce
<1> QED BY <1>1, <1>2, <1>3

\* A step that leaves the queue, the clauses and the output alone.
LEMMA QuietStep ==
  ASSUME IInv, UNCHANGED <<clauses, reported, db>>
  PROVE  /\ clauses' \in Seq(Clause)
         /\ ReportedMinimal' /\ NothingLost' /\ QueueShort' /\ WrittenIsExcluded'
         /\ AllModels => ReportedOnce'
BY DEF IInv, TypeOK, ReportedMinimal, NothingLost, QueueShort, WrittenIsExcluded,
       Written, Waiting, ReportedOnce

\* The last clause of the queue leaves it for the solver.
LEMMA DeliverStep ==
  ASSUME IInv, DeliverClause
  PROVE  IInv'
<1> USE DEF IInv
<1>1. clauses # <<>> /\ Len(clauses) = 1 /\ clauses[1] \in Clause /\ Waiting = clauses[1]
  BY WaitingOne DEF DeliverClause, TypeOK, QueueShort
<1>2. clauses' = <<>> /\ Len(clauses') = 0 /\ clauses' \in Seq(Clause)
  <2>1. clauses' = SubSeq(clauses, 1, 0)
    BY <1>1 DEF DeliverClause
  <2> QED BY <2>1, SubSeqEmpty, EmptySeq
<1>3. Waiting' = {}
  BY <1>2, EmptySeq DEF Waiting
<1>4. db' = db \cup Waiting /\ UNCHANGED <<terminated, reported>>
  BY <1>1 DEF DeliverClause
<1>5. /\ db' \subseteq Models
      /\ ReportedMinimal' /\ NothingLost' /\ QueueShort' /\ WrittenIsExcluded'
      /\ AllModels => ReportedOnce'
  BY <1>1, <1>2, <1>3, <1>4
     DEF TypeOK, Clause, ReportedMinimal, NothingLost, QueueShort, WrittenIsExcluded,
         Written, ReportedOnce
<1>6. pc' \in {"search", "clauses"}
  BY <1>1 DEF DeliverClause, Vetoed
<1>7. /\ open' \subseteq Models /\ complete' \in BOOLEAN /\ changeInTrail' \in BOOLEAN
      /\ CompleteIsOne'
      /\ complete' /\ open' \subseteq db' => pc' = "search"
  <2>1. CASE /\ pc' = "search"
             /\ UNCHANGED <<open, complete, changeInTrail>>
    BY <2>1 DEF TypeOK, CompleteIsOne
  <2>2. CASE /\ \E S \in SUBSET Models, full \in BOOLEAN : Trail(S, full)
             /\ changeInTrail' \in {changeInTrail, TRUE}
             /\ complete' /\ open' \subseteq db' => pc' = "search"
    <3>1. PICK S \in SUBSET Models, full \in BOOLEAN : Trail(S, full)
      BY <2>2
    <3>2. open' \subseteq Models /\ complete' \in BOOLEAN /\ CompleteIsOne'
      BY <3>1 DEF Trail, CompleteIsOne
    <3> QED BY <2>2, <3>2 DEF TypeOK
  <2> QED BY <2>1, <2>2 DEF DeliverClause
<1>8. TypeOK'
  BY <1>2, <1>4, <1>5, <1>6, <1>7 DEF TypeOK, Phase
<1> QED BY <1>2, <1>5, <1>6, <1>7, <1>8 DEF QueueEmptied, Vetoed, Fresh

LEMMA StepIInv == IInv /\ [Next]_vars => IInv'
<1> SUFFICES ASSUME IInv, [Next]_vars
             PROVE  IInv'
  OBVIOUS
<1> USE DEF IInv
<1>1. ASSUME NEW S \in SUBSET open, NEW full \in BOOLEAN, Extend(S, full)
      PROVE  IInv'
  BY <1>1, QuietStep
     DEF Extend, Trail, TypeOK, QueueEmptied, Vetoed, CompleteIsOne, Fresh
<1>2. ASSUME NEW S \in SUBSET Models, Backtrack(S)
      PROVE  IInv'
  BY <1>2, QuietStep
     DEF Backtrack, Trail, TypeOK, QueueEmptied, Vetoed, CompleteIsOne, Fresh
<1>3. CASE ExternalPropagate
  BY <1>3, QuietStep DEF ExternalPropagate, Falsified, TypeOK, Phase,
     QueueEmptied, Vetoed, CompleteIsOne, Fresh
<1>4. CASE Unsatisfiable
  BY <1>4, QuietStep DEF Unsatisfiable, TypeOK, Phase,
     QueueEmptied, Vetoed, CompleteIsOne, Fresh
<1>5. CASE Stop
  BY <1>5, QuietStep DEF Stop, TypeOK, Phase,
     QueueEmptied, Vetoed, CompleteIsOne, Fresh
<1>6. CASE TimeOut
  BY <1>6, QuietStep DEF TimeOut, TypeOK, Phase,
     QueueEmptied, Vetoed, CompleteIsOne, Fresh
<1>7. CASE PropagateNothing
  <2>1. clauses = <<>> /\ (Broken \/ Solution \/ UNCHANGED queueVars)
    BY <1>7 DEF PropagateNothing, propagate, checkMin, Passed, QueueEmptied
  <2>2. UNCHANGED <<open, complete, db, terminated, changeInTrail>> /\ pc' = "clauses"
    BY <1>7 DEF PropagateNothing
  <2> QED BY <1>7, <2>1, <2>2, CheckMinStep
          DEF PropagateNothing, TypeOK, Phase, QueueShort,
              QueueEmptied, Vetoed, CompleteIsOne, Fresh
<1>8. CASE PropagateUnit
  <2>1. PICK c \in SUBSET (Models \ Minimal), full \in BOOLEAN :
          \E S \in SUBSET (open \ c) : Trail(S, full)
    BY <1>8 DEF PropagateUnit
  <2>2. open' \subseteq Models /\ complete' \in BOOLEAN /\ CompleteIsOne'
    BY <2>1 DEF Trail, TypeOK, CompleteIsOne
  <2> QED BY <1>8, <2>2, QuietStep
          DEF PropagateUnit, TypeOK, Phase, QueueEmptied, Vetoed, Fresh
<1>9. CASE Explain
  <2>1. PICK c \in SUBSET (Models \ Minimal) : db' = db \cup c
    BY <1>9 DEF Explain
  <2>2. Waiting' = Waiting
    BY <1>9 DEF Explain, Waiting
  <2> QED BY <1>9, <2>1, <2>2
          DEF Explain, TypeOK, ReportedMinimal, NothingLost, QueueShort, QueueEmptied,
              Vetoed, CompleteIsOne, Fresh, WrittenIsExcluded, Written, ReportedOnce
<1>10. CASE CheckForClause
  <2>1. Vetoed /\ clauses = <<>> => pc # "veto"
    BY EmptySeq DEF Vetoed
  <2>2. /\ clauses = <<>> /\ pc = "clauses"
        /\ Broken \/ Solution \/ UNCHANGED queueVars
    BY <1>10, <2>1 DEF CheckForClause, propagate, checkMin, Passed
  <2> QED BY <1>10, <2>2, CheckMinStep
          DEF CheckForClause, TypeOK, QueueShort, QueueEmptied, Vetoed, CompleteIsOne, Fresh
<1>11. CASE DeliverClause
  BY <1>11, DeliverStep
<1>12. CASE NoMoreClauses
  <2>1. Vetoed /\ clauses = <<>> => pc # "veto"
    BY EmptySeq DEF Vetoed
  <2> QED BY <1>12, <2>1, QuietStep
          DEF NoMoreClauses, TypeOK, Phase, QueueEmptied, Vetoed, CompleteIsOne, Fresh
<1>13. CASE RejectModel
  <2>1. clauses = <<>> /\ complete
    BY <1>13 DEF RejectModel, QueueEmptied, Vetoed
  <2>2. Broken \/ Solution
    BY <1>13, <2>1 DEF RejectModel
  <2>3. clauses' # <<>>
    <3>1. <<>> \in Seq(Clause) /\ Len(<<>>) = 0
      BY EmptySeq
    <3>2. \E c : clauses' = Append(<<>>, c) /\ c \in Clause
      BY <2>1, <2>2 DEF Broken, Solution, addClause, Clause, TypeOK
    <3>3. Len(clauses') = 1
      BY <3>1, <3>2, AppendProperties
    <3> QED BY <3>1, <3>3
  <2>4. ~(UNCHANGED queueVars)
    BY <2>1, <2>3 DEF queueVars
  <2>5. UNCHANGED <<open, complete, db, terminated, changeInTrail>> /\ pc' = "veto"
    BY <1>13 DEF RejectModel
  <2> QED BY <1>13, <2>1, <2>2, <2>3, <2>4, <2>5, CheckMinStep
          DEF RejectModel, TypeOK, Phase, QueueShort, QueueEmptied, Vetoed,
              CompleteIsOne, Fresh
<1>14. CASE AcceptModel
  <2>1. /\ reported' = [m \in Models |-> reported[m] + IF m \in open THEN 1 ELSE 0]
        /\ open \subseteq Minimal /\ ~AllModels
        /\ open' = Models /\ complete' = FALSE /\ pc' = "search"
        /\ UNCHANGED <<db, terminated, clauses, changeInTrail>>
    BY <1>14 DEF AcceptModel, Report, Trail
  <2>2. Waiting' = Waiting
    BY <2>1 DEF Waiting
  <2>3. \A m \in Models : reported'[m] \in Nat /\ (reported[m] > 0 => reported'[m] > 0)
    BY <2>1 DEF TypeOK
  <2>4. reported' \in [Models -> Nat]
    BY <2>1, <2>3
  <2>5. TypeOK'
    BY <2>1, <2>4 DEF TypeOK, Phase
  <2>6. ReportedMinimal'
    BY <2>1 DEF ReportedMinimal, TypeOK
  <2>7. NothingLost' /\ QueueShort'
    BY <2>1, <2>2, <2>3 DEF NothingLost, QueueShort
  <2>8. clauses' = <<>>
    BY <1>14 DEF AcceptModel
  <2> QED BY <2>1, <2>5, <2>6, <2>7, <2>8
          DEF QueueEmptied, Vetoed, CompleteIsOne, Fresh, WrittenIsExcluded
<1>15. CASE UNCHANGED vars
  BY <1>15, QuietStep DEF vars, TypeOK, QueueEmptied, Vetoed, CompleteIsOne, Fresh
<1> QED BY <1>1, <1>2, <1>3, <1>4, <1>5, <1>6, <1>7, <1>8, <1>9, <1>10, <1>11, <1>12,
           <1>13, <1>14, <1>15 DEF Next

-----------------------------------------------------------------------------
LEMMA Invariance == Spec => []IInv
BY InitIInv, StepIInv, PTL DEF Spec

LEMMA Consequences ==
  IInv => /\ TypeOK /\ ReportedMinimal /\ NothingLost /\ VetoHasClause /\ QueueShort
          /\ AllModels => ReportedOnce
<1>1. IInv => VetoHasClause
  BY EmptySeq DEF IInv, Vetoed, VetoHasClause
<1> QED BY <1>1 DEF IInv

\* Whatever the options: only minimal cycle sets are written, a minimal model is
\* lost to the search only after it was written, every veto of
\* cb_check_found_model hands over a clause, and one clause at most is waiting.
THEOREM QueueDiscipline ==
  Spec => [](TypeOK /\ ReportedMinimal /\ NothingLost /\ VetoHasClause /\ QueueShort)
BY Invariance, Consequences, PTL

\* A rejected model comes with a clause, and at every step of propagate, check and
\* the clause loop one clause at most is waiting: none is served out of turn.
THEOREM NoClauseWaitsBehind == Spec => []ClausesServed
<1>1. IInv => ClausesServed
  BY Consequences DEF ClausesServed
<1> QED BY <1>1, Invariance, PTL

\* With --allModels no cycle set is written twice, although both propagate and
\* check write solutions.
THEOREM NoDuplicates ==
  ASSUME AllModels
  PROVE  Spec => []ReportedOnce
<1>1. IInv => ReportedOnce
  BY AllModels, Consequences
<1> QED BY <1>1, Invariance, PTL

-----------------------------------------------------------------------------
(* Refinement: the loop implements Catalogue. *)

LEMMA InitMaps == Init => Abstract!Init
BY ConstantsAssumption DEF Init, Abstract!Init

\* A step that does not write and does not end maps to a stutter.
LEMMA StutterMaps ==
  ASSUME UNCHANGED reported,
         pc' = pc \/ {pc, pc'} \cap {"unsat", "stopped"} = {}
  PROVE  UNCHANGED Abstract!vars
BY DEF Abstract!vars

LEMMA SolutionMaps ==
  ASSUME IInv, AllModels, clauses = <<>>, Solution,
         pc \in {"propagate", "clauses", "model"},
         pc' \in {"propagate", "clauses", "veto"}
  PROVE  [Abstract!Next]_(Abstract!vars)
<1>1. PICK s \in Models : open = {s}
  BY DEF Solution, IInv, CompleteIsOne
<1>2. s \in Minimal /\ s \notin db
  BY <1>1 DEF Solution, IInv, Fresh
<1>3. Waiting = {}
  BY WaitingOne DEF IInv, TypeOK, QueueShort
<1>4. reported[s] = 0
  BY <1>2, <1>3 DEF IInv, WrittenIsExcluded, Written, TypeOK
<1>5. reported' = [m \in Models |-> IF m = s THEN 1 ELSE reported[m]]
  BY <1>1, <1>4 DEF Solution, Report, IInv, TypeOK
<1>6. [m \in Minimal |-> reported'[m]]
        = [[m \in Minimal |-> reported[m]] EXCEPT ![s] = 1]
  BY <1>2, <1>5, ConstantsAssumption
<1>7. Abstract!Write(s)
  BY <1>2, <1>4, <1>6 DEF Abstract!Write
<1> QED BY <1>2, <1>7 DEF Abstract!Next

LEMMA StepMaps ==
  ASSUME IInv, AllModels, [Next]_vars
  PROVE  [Abstract!Next]_(Abstract!vars)
<1>1. CASE Unsatisfiable
  <2>1. \A m \in Minimal : reported[m] = 1
    BY <1>1, ConstantsAssumption
       DEF Unsatisfiable, IInv, NothingLost, ReportedOnce, TypeOK
  <2>2. Abstract!Finish
    BY <1>1, <2>1 DEF Unsatisfiable, Abstract!Finish
  <2> QED BY <2>2 DEF Abstract!Next
<1>2. CASE Stop
  BY <1>2 DEF Stop, Abstract!CutShort, Abstract!Next
<1>3. CASE PropagateNothing \/ CheckForClause \/ RejectModel
  <2>0. pc = "veto" => clauses # <<>>
    BY EmptySeq DEF IInv, Vetoed
  <2>1. clauses = <<>> /\ pc \in {"propagate", "clauses", "model"}
    BY <1>3, <2>0
       DEF IInv, QueueEmptied, Vetoed, PropagateNothing, CheckForClause, RejectModel
  <2>2. pc' \in {"propagate", "clauses", "veto"}
    BY <1>3, <2>1 DEF PropagateNothing, CheckForClause, RejectModel
  <2>3. Solution \/ UNCHANGED reported
    BY <1>3, <2>1
       DEF PropagateNothing, CheckForClause, RejectModel, propagate, checkMin, Broken,
           Passed, queueVars
  <2>4. CASE Solution
    BY <2>1, <2>2, <2>4, SolutionMaps
  <2>5. CASE UNCHANGED reported
    BY <2>1, <2>2, <2>5, StutterMaps
  <2> QED BY <2>3, <2>4, <2>5
<1>4. CASE DeliverClause
  BY <1>4, StutterMaps DEF DeliverClause
<1>5. CASE \/ \E S \in SUBSET open, full \in BOOLEAN : Extend(S, full)
           \/ \E S \in SUBSET Models : Backtrack(S)
           \/ ExternalPropagate \/ TimeOut \/ PropagateUnit \/ Explain \/ NoMoreClauses
  BY <1>5, StutterMaps
     DEF Extend, Backtrack, ExternalPropagate, TimeOut, PropagateUnit, Explain,
         NoMoreClauses, queueVars
<1>6. CASE UNCHANGED vars
  BY <1>6, StutterMaps DEF vars
<1>7. ~AcceptModel
  BY DEF AcceptModel
<1> QED BY <1>1, <1>2, <1>3, <1>4, <1>5, <1>6, <1>7 DEF Next

\* With --allModels the loop, its clause queue and its vetoes write every minimal
\* cycle set at most once, nothing else, and all of them if the solver ends with
\* `unsatisfiable`.
THEOREM EnumerationComplete ==
  ASSUME AllModels
  PROVE  Spec => ImplementsCatalogue
<1>1. Init => Abstract!Init
  BY InitMaps
<1>2. IInv /\ [Next]_vars => [Abstract!Next]_(Abstract!vars)
  BY AllModels, StepMaps
<1> QED BY <1>1, <1>2, Invariance, PTL DEF Spec, ImplementsCatalogue, Abstract!Spec
=============================================================================
