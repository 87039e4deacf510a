------------------------- MODULE LratCheckerProofs -------------------------
(***************************************************************************)
(* The checker is sound: whatever it accepts follows from the input.  The  *)
(* argument is the one of reverse unit propagation: while the hints of a   *)
(* clause C are followed, a model of the input that falsifies C makes all  *)
(* the literals assigned so far true, since each was the last literal left *)
(* of a clause that holds; a hint without any literal left is then false   *)
(* in that model, so that there is none.                                   *)
(***************************************************************************)
EXTENDS LratChecker, TLAPS

(* The parts of the state the argument needs to be of their types.         *)
CheckTypes ==
    /\ proof \in Seq(Traces)
    /\ DOMAIN clauses \subseteq Nat
    /\ clauses \in [DOMAIN clauses -> SUBSET Lits]
    /\ check.lits \in SUBSET Lits /\ check.true \in SUBSET Lits
    /\ check.state \in {"idle", "rup", "implied"}
    /\ check = [state |-> check.state, lits |-> check.lits, chain |-> check.chain,
                true |-> check.true, used |-> check.used, cores |-> check.cores]

(* The clause that is checked is the one at the head of the queue.         *)
ChecksHead ==
    check.state # "idle" =>
        /\ proof # <<>> /\ Head(proof).op \in {"derived", "assumption"}
        /\ check.lits = Head(proof).lits

(* The assigned literals hold in the models that falsify the clause.       *)
Propagated ==
    \A A \in Assignments :
        Satisfies(A, original) /\ check.state = "rup" =>
            check.lits \cap A # {} \/ check.true \subseteq A

CheckerInv == CheckTypes /\ ChecksHead /\ Propagated /\ AcceptedFollows

(* A literal and its negation: exactly one of them is in an assignment.    *)
LEMMA OneOfTwo ==
    ASSUME NEW A \in Assignments, NEW l \in Lits
    PROVE  -l \in Lits /\ -(-l) = l /\ (l \in A <=> -l \notin A)
  BY VarsAssumption DEF Lits, Assignments

(* An assignment that has no literal of a clause has all their negations.  *)
LEMMA NegatedHolds ==
    ASSUME NEW A \in Assignments, NEW C \in SUBSET Lits, C \cap A = {}
    PROVE  Negated(C) \subseteq A /\ Negated(C) \subseteq Lits
  BY OneOfTwo DEF Negated

LEMMA NegatedLits == ASSUME NEW C \in SUBSET Lits PROVE Negated(C) \in SUBSET Lits
  BY VarsAssumption DEF Negated, Lits

(* The queue after its head has been taken.                                *)
LEMMA TailTraces ==
    ASSUME proof \in Seq(Traces), proof # <<>>
    PROVE  Tail(proof) \in Seq(Traces) /\ Head(proof) \in Traces
  OBVIOUS

LEMMA InitHolds == CheckerInit => CheckerInv
  BY DEF CheckerInit, CheckerInv, CheckTypes, ChecksHead, Propagated, AcceptedFollows,
         Idle, Satisfies

(* A step that leaves the check alone and adds or removes clauses.         *)
LEMMA OriginalAdded == CheckerInv /\ add_original_clause => CheckerInv'
<1> SUFFICES ASSUME CheckerInv, add_original_clause PROVE CheckerInv'
  OBVIOUS
<1> DEFINE t == Head(proof)
<1>1. /\ t \in Traces /\ Tail(proof) \in Seq(Traces)
      /\ t.op = "original" /\ t.id \in Nat /\ t.lits \in SUBSET Lits
  BY TailTraces DEF CheckerInv, CheckTypes, add_original_clause, At, Traces
<1>2. /\ clauses' = insert(clauses, t.id, t.lits)
      /\ original' = original \cup {t.lits}
      /\ proof' = Tail(proof) /\ check' = check
  BY DEF add_original_clause, Pop
<1>3. check.state = "idle"
  BY <1>1 DEF CheckerInv, ChecksHead, CheckTypes
<1>4. CheckTypes'
  BY <1>1, <1>2 DEF CheckerInv, CheckTypes, insert
<1>5. ChecksHead' /\ Propagated'
  BY <1>2, <1>3 DEF ChecksHead, Propagated
<1>6. AcceptedFollows'
  <2> SUFFICES ASSUME NEW A \in Assignments, Satisfies(A, original'), NEW i \in DOMAIN clauses'
               PROVE  clauses'[i] \cap A # {}
    BY <1>2, <1>3 DEF AcceptedFollows
  <2>1. Satisfies(A, original) /\ t.lits \cap A # {}
    BY <1>2 DEF Satisfies
  <2>2. CASE i = t.id
    BY <2>1, <2>2, <1>2 DEF insert
  <2>3. CASE i # t.id
    BY <2>1, <2>3, <1>2 DEF insert, CheckerInv, AcceptedFollows
  <2> QED BY <2>2, <2>3
<1> QED BY <1>4, <1>5, <1>6 DEF CheckerInv

LEMMA ImportHolds == CheckerInv /\ import_clause => CheckerInv'
<1> SUFFICES ASSUME CheckerInv, import_clause PROVE CheckerInv'
  OBVIOUS
<1> DEFINE t == Head(proof)
           st == IF Tautological(t.lits) THEN "implied" ELSE "rup"
<1>1. /\ t.op \in {"derived", "assumption"} /\ t.lits \in SUBSET Lits /\ proof # <<>>
  BY TailTraces DEF CheckerInv, CheckTypes, import_clause, At, Traces
<1>2. /\ check' = [state |-> st, lits |-> t.lits, chain |-> t.chain,
                   true |-> Negated(t.lits), used |-> {}, cores |-> check.cores]
      /\ proof' = proof /\ clauses' = clauses /\ original' = original
  BY DEF import_clause, CheckerInv, CheckTypes
<1>3. /\ check'.state = st /\ check'.lits = t.lits /\ check'.true = Negated(t.lits)
      /\ st \in {"rup", "implied"}
  BY <1>2
<1>4. CheckTypes'
  <2>1. Negated(t.lits) \in SUBSET Lits
    BY <1>1, NegatedLits
  <2> HIDE DEF st
  <2> QED BY <1>1, <1>2, <1>3, <2>1 DEF CheckerInv, CheckTypes
<1>5. ChecksHead'
  BY <1>1, <1>2, <1>3 DEF ChecksHead
<1>6. Propagated'
  BY <1>1, <1>3, NegatedHolds DEF Propagated
<1>7. AcceptedFollows'
  <2> SUFFICES ASSUME NEW A \in Assignments, Tautological(t.lits)
               PROVE  t.lits \cap A # {}
    BY <1>2, <1>3 DEF AcceptedFollows, CheckerInv
  <2>1. PICK l \in t.lits : -l \in t.lits
    BY DEF Tautological
  <2> QED BY <2>1, <1>1, OneOfTwo
<1> QED BY <1>4, <1>5, <1>6, <1>7 DEF CheckerInv

(* The step the argument is about: a hint that is followed.                *)
LEMMA HintHolds == CheckerInv /\ follow_hint => CheckerInv'
<1> SUFFICES ASSUME CheckerInv, follow_hint PROVE CheckerInv'
  OBVIOUS
<1> DEFINE i == Head(check.chain)
<1>1. /\ proof' = proof /\ clauses' = clauses /\ original' = original
      /\ check.state = "rup"
  BY DEF follow_hint
<1>2. CASE ~ Followed(i)
  <2>1. check' = check
    BY <1>2 DEF follow_hint
  <2> QED BY <1>1, <2>1 DEF CheckerInv, CheckTypes, ChecksHead, Propagated, AcceptedFollows
<1>3. CASE Followed(i)
  <2>1. i \in DOMAIN clauses /\ clauses[i] \in SUBSET Lits
    BY <1>3 DEF Followed, CheckerInv, CheckTypes
  <2>2. ASSUME NEW A \in Assignments, Satisfies(A, original), check.true \subseteq A
        PROVE  Unfalsified(i) \cap A # {}
    <3>1. PICK l \in clauses[i] : l \in A
      BY <2>1, <2>2 DEF CheckerInv, AcceptedFollows
    <3>2. -l \notin A
      BY <3>1, <2>1, OneOfTwo
    <3> QED BY <3>1, <3>2, <2>2 DEF Unfalsified
  <2>3. CASE Unfalsified(i) = {}
    <3>1. check' = [check EXCEPT !.state = "implied"]
      BY <1>3, <2>3 DEF follow_hint
    <3>2. check' = [state |-> "implied", lits |-> check.lits, chain |-> check.chain,
                    true |-> check.true, used |-> check.used, cores |-> check.cores]
      BY <3>1 DEF CheckerInv, CheckTypes
    <3>3. CheckTypes' /\ ChecksHead' /\ Propagated'
      BY <1>1, <3>2 DEF CheckerInv, CheckTypes, ChecksHead, Propagated
    <3>4. AcceptedFollows'
      BY <1>1, <3>2, <2>2, <2>3 DEF CheckerInv, AcceptedFollows, Propagated
    <3> QED BY <3>3, <3>4 DEF CheckerInv
  <2>4. CASE Unfalsified(i) # {}
    <3>1. check' = [state |-> "rup", lits |-> check.lits, chain |-> Tail(check.chain),
                    true |-> check.true \cup Unfalsified(i),
                    used |-> check.used \cup {i}, cores |-> check.cores]
      BY <1>1, <1>3, <2>4 DEF follow_hint, CheckerInv, CheckTypes
    <3>2. Unfalsified(i) \in SUBSET Lits
      BY <2>1 DEF Unfalsified
    <3>3. CheckTypes' /\ ChecksHead' /\ AcceptedFollows'
      BY <1>1, <3>1, <3>2 DEF CheckerInv, CheckTypes, ChecksHead, AcceptedFollows
    <3>4. Propagated'
      <4> SUFFICES ASSUME NEW A \in Assignments, Satisfies(A, original),
                          check.true \subseteq A
                   PROVE  Unfalsified(i) \subseteq A
        BY <1>1, <3>1 DEF Propagated, CheckerInv
      <4>1. PICK l \in Unfalsified(i) : l \in A
        BY <2>2
      <4> QED BY <4>1, <1>3 DEF Followed
    <3> QED BY <3>3, <3>4 DEF CheckerInv
  <2> QED BY <2>3, <2>4
<1> QED BY <1>2, <1>3

LEMMA AddHolds == CheckerInv /\ add_checked_clause => CheckerInv'
<1> SUFFICES ASSUME CheckerInv, add_checked_clause PROVE CheckerInv'
  OBVIOUS
<1> DEFINE t == Head(proof)
           added == t.op = "derived" /\ check.state = "implied"
           ids == IF t.op = "derived" THEN check.cores ELSE check.cores \cup {t.id}
<1>1. /\ t.id \in Nat /\ t.lits \in SUBSET Lits /\ Tail(proof) \in Seq(Traces)
      /\ check.lits = t.lits
  BY TailTraces DEF CheckerInv, CheckTypes, ChecksHead, add_checked_clause, At, Traces
<1>2. /\ proof' = Tail(proof) /\ original' = original
      /\ clauses' = IF added THEN insert(clauses, t.id, t.lits) ELSE clauses
      /\ check' = Idle(ids)
  BY DEF add_checked_clause, Pop
<1> HIDE DEF ids
<1>3. check'.state = "idle" /\ check'.lits = {} /\ check'.true = {}
  BY <1>2 DEF Idle
<1>4. CheckTypes'
  BY <1>1, <1>2 DEF CheckerInv, CheckTypes, insert, Idle
<1>5. ChecksHead' /\ Propagated'
  BY <1>3 DEF ChecksHead, Propagated
<1>6. AcceptedFollows'
  <2> SUFFICES ASSUME NEW A \in Assignments, Satisfies(A, original), NEW j \in DOMAIN clauses'
               PROVE  clauses'[j] \cap A # {}
    BY <1>2, <1>3 DEF AcceptedFollows
  <2>1. CASE added /\ j = t.id
    BY <2>1, <1>1, <1>2 DEF insert, CheckerInv, AcceptedFollows
  <2>2. CASE ~ (added /\ j = t.id)
    BY <2>2, <1>2 DEF insert, CheckerInv, AcceptedFollows
  <2> QED BY <2>1, <2>2
<1> QED BY <1>4, <1>5, <1>6 DEF CheckerInv

(* The other calls, which leave the clauses or take one away.              *)
LEMMA OthersHold ==
    ASSUME CheckerInv,
           \/ delete_clause \/ add_assumption \/ add_constraint \/ reset_assumptions
           \/ report_status \/ conclude_unsat
    PROVE  CheckerInv'
<1>1. /\ proof # <<>> /\ proof' = Tail(proof) /\ original' = original
      /\ check.state = "idle"
      /\ check' = check \/ check' = Idle({})
      /\ clauses' = clauses \/ clauses' = erase(clauses, Head(proof).id)
  BY DEF delete_clause, add_assumption, add_constraint, reset_assumptions, report_status,
         conclude_unsat, Pop, At, CheckerInv, ChecksHead, CheckTypes
<1>2. Tail(proof) \in Seq(Traces)
  BY <1>1, TailTraces DEF CheckerInv, CheckTypes
<1>3. check'.state = "idle"
  BY <1>1 DEF Idle
<1>4. CheckTypes'
  BY <1>1, <1>2 DEF CheckerInv, CheckTypes, Idle, erase
<1>5. AcceptedFollows'
  BY <1>1, <1>3 DEF CheckerInv, AcceptedFollows, erase
<1> QED BY <1>3, <1>4, <1>5 DEF CheckerInv, ChecksHead, Propagated

LEMMA TracingHolds == CheckerInv /\ Tracing => CheckerInv'
<1> SUFFICES ASSUME CheckerInv, NEW ts \in Seq(Traces), proof' = proof \o ts,
                    UNCHANGED checkerVars
             PROVE  CheckerInv'
  BY DEF Tracing
<1>1. proof \in Seq(Traces)
  BY DEF CheckerInv, CheckTypes
<1>2. proof' \in Seq(Traces) /\ (proof # <<>> => Head(proof') = Head(proof) /\ proof' # <<>>)
  BY <1>1
<1> QED BY <1>2 DEF CheckerInv, CheckTypes, ChecksHead, Propagated, AcceptedFollows, checkerVars

LEMMA StepHolds == CheckerInv /\ [CheckerNext \/ Tracing]_lvars => CheckerInv'
<1> SUFFICES ASSUME CheckerInv, [CheckerNext \/ Tracing]_lvars PROVE CheckerInv'
  OBVIOUS
<1>1. CASE UNCHANGED lvars
  BY <1>1 DEF CheckerInv, CheckTypes, ChecksHead, Propagated, AcceptedFollows, lvars, checkerVars
<1>2. CASE Tracing
  BY <1>2, TracingHolds
<1>3. CASE CheckerNext
  BY <1>3, OriginalAdded, ImportHolds, HintHolds, AddHolds, OthersHold DEF CheckerNext
<1> QED BY <1>1, <1>2, <1>3

(* Every clause the checker holds follows from the clauses added as input, *)
(* whatever a program traces and whatever chains it gives:                 *)
(* lratchecker.cpp:289-460.                                                *)
THEOREM AcceptedFollowsHolds == CheckerSpec => []AcceptedFollows
<1>1. CheckerInv => AcceptedFollows
  BY DEF CheckerInv
<1> QED BY InitHolds, StepHolds, <1>1, PTL DEF CheckerSpec
=============================================================================
