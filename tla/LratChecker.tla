---------------------------- MODULE LratChecker ----------------------------
(***************************************************************************)
(* CaDiCaL's own checker of LRAT proofs, LratChecker, behind the queue of  *)
(* what the solver has traced (class Proof forwards each call at once; the *)
(* solver does not go on before the queue is empty).  A derived clause is  *)
(* checked hint by hint: the literals of the clause are assumed false and  *)
(* each hint must be unit or falsified under what is assigned so far.      *)
(* The hash table is the function clauses from the identifiers of the      *)
(* clauses to their literals.  The check by resolution, which is skipped   *)
(* when the solver builds the chains, and the reconstruction of weakened   *)
(* clauses are left out.                                                   *)
(***************************************************************************)
EXTENDS Integers, Sequences, FiniteSets

CONSTANT Vars       \* the variables, a set 1..n

ASSUME VarsAssumption == Vars \subseteq Nat \ {0}

VARIABLES proof,        \* what has been traced and not yet looked at
          clauses,      \* the clauses by their identifiers
          current_id,   \* the last identifier
          check,        \* the check of a derived clause (see Checks)
          assumptions,  \* the literals assumed since the last reset
          constraint,   \* the literals of the last constraint
          concluded,    \* conclude_unsat has been called since the last reset
          fatal,        \* the checker has stopped the program
          original      \* the clauses added as input, for the properties

checkerVars == <<clauses, current_id, check, assumptions, constraint, concluded,
                 fatal, original>>
lvars == <<proof, checkerVars>>

Lits == Vars \cup {-v : v \in Vars}
Negated(C) == {-l : l \in C}
Tautological(C) == \E l \in C : -l \in C

(* The calls of the tracer interface.  lits are the literals of a clause,  *)
(* of an assumption or of a constraint, chain is the chain of a derived    *)
(* clause or the conclusion, live the clauses the solver finalizes.        *)
Calls == {"original", "derived", "assumption", "delete", "assume", "constrain",
          "reset", "finalize", "CONFLICT", "ASSUMPTIONS", "CONSTRAINT"}
Traces == [op : Calls, id : Nat, lits : SUBSET Lits, chain : Seq(Nat),
           live : SUBSET (Nat \X SUBSET Lits)]
Trace(o, i, C, hints) == [op |-> o, id |-> i, lits |-> C, chain |-> hints, live |-> {}]

(* state is "idle", "rup" while hints are followed and "implied" when the  *)
(* clause has been found to follow; true are the literals assigned true    *)
(* (checked_lits), used the hints followed so far, and cores the           *)
(* identifiers in assumption_clauses.                                      *)
Idle(ids) == [state |-> "idle", lits |-> {}, chain |-> <<>>, true |-> {},
              used |-> {}, cores |-> ids]

----------------------------------------------------------------------------
At(ops) == proof # <<>> /\ Head(proof).op \in ops /\ ~fatal
Pop == proof' = Tail(proof)

insert(f, i, C) == [j \in DOMAIN f \cup {i} |-> IF j = i THEN C ELSE f[j]]
erase(f, i) == [j \in DOMAIN f \ {i} |-> f[j]]

add_original_clause ==
    /\ At({"original"})
    /\ LET t == Head(proof) IN
       /\ fatal' = (t.id \in DOMAIN clauses)
       /\ clauses' = insert(clauses, t.id, t.lits)
       /\ current_id' = IF t.id = current_id + 1 THEN t.id ELSE current_id
       /\ original' = original \cup {t.lits}
    /\ Pop
    /\ UNCHANGED <<check, assumptions, constraint, concluded>>

(* add_derived_clause and add_assumption_clause up to the check: the first *)
(* wants the next identifier, the second literals whose negations are      *)
(* assumed or in the constraint.                                           *)
import_clause ==
    /\ At({"derived", "assumption"})
    /\ check.state = "idle"
    /\ LET t == Head(proof) IN
       /\ fatal' = \/ t.id # current_id + 1
                   \/ t.id \in DOMAIN clauses
                   \/ t.op = "assumption" /\ ~ Negated(t.lits) \subseteq assumptions \cup constraint
       /\ current_id' = t.id
       /\ check' = [check EXCEPT !.state = IF Tautological(t.lits) THEN "implied" ELSE "rup",
                                 !.lits = t.lits, !.chain = t.chain,
                                 !.true = Negated(t.lits), !.used = {}]
    /\ UNCHANGED <<proof, clauses, assumptions, constraint, concluded, original>>

(* One hint.  unit are the literals that are not falsified: none of them   *)
(* ends the check, more than one, an unknown, a tautological or a repeated *)
(* hint makes it fail.                                                     *)
Unfalsified(i) == {l \in clauses[i] : -l \notin check.true}
Followed(i) == /\ i \in DOMAIN clauses
               /\ ~ Tautological(clauses[i])
               /\ i \notin check.used
               /\ \A k, l \in Unfalsified(i) : k = l

follow_hint ==
    /\ At({"derived", "assumption"})
    /\ check.state = "rup" /\ check.chain # <<>>
    /\ LET i == Head(check.chain) IN
       /\ fatal' = ~ Followed(i)
       /\ check' = IF ~ Followed(i) THEN check
                   ELSE IF Unfalsified(i) = {} THEN [check EXCEPT !.state = "implied"]
                   ELSE [check EXCEPT !.chain = Tail(@), !.used = @ \cup {i},
                                      !.true = @ \cup Unfalsified(i)]
    /\ UNCHANGED <<proof, clauses, current_id, assumptions, constraint, concluded, original>>

(* The end of the check; the clause of an assumption is deleted at once.   *)
add_checked_clause ==
    /\ At({"derived", "assumption"})
    /\ check.state # "idle" /\ ~ (check.state = "rup" /\ check.chain # <<>>)
    /\ LET t == Head(proof) IN
       /\ fatal' = (check.state # "implied")
       /\ clauses' = IF t.op = "derived" /\ check.state = "implied"
                     THEN insert(clauses, t.id, t.lits) ELSE clauses
       /\ check' = Idle(IF t.op = "derived" THEN check.cores ELSE check.cores \cup {t.id})
    /\ Pop
    /\ UNCHANGED <<current_id, assumptions, constraint, concluded, original>>

delete_clause ==
    /\ At({"delete"})
    /\ LET t == Head(proof) IN
       /\ fatal' = ~ (t.id \in DOMAIN clauses /\ clauses[t.id] \subseteq t.lits)
       /\ clauses' = erase(clauses, t.id)
    /\ Pop
    /\ UNCHANGED <<current_id, check, assumptions, constraint, concluded, original>>

(* add_assumption, add_constraint and reset_assumptions, which keeps the   *)
(* constraint.                                                             *)
add_assumption ==
    /\ At({"assume"})
    /\ assumptions' = assumptions \cup Head(proof).lits
    /\ Pop
    /\ UNCHANGED <<clauses, current_id, check, constraint, concluded, fatal, original>>

add_constraint ==
    /\ At({"constrain"})
    /\ constraint' = Head(proof).lits
    /\ Pop
    /\ UNCHANGED <<clauses, current_id, check, assumptions, concluded, fatal, original>>

reset_assumptions ==
    /\ At({"reset"})
    /\ assumptions' = {} /\ concluded' = FALSE
    /\ check' = Idle({})
    /\ Pop
    /\ UNCHANGED <<clauses, current_id, constraint, fatal, original>>

(* finalize_clause for every clause the solver still has and then          *)
(* report_status, which compares the numbers.                              *)
report_status ==
    /\ At({"finalize"})
    /\ LET live == Head(proof).live IN
       fatal' = ~ /\ \A p \in live : p[1] \in DOMAIN clauses /\ clauses[p[1]] \subseteq p[2]
                  /\ \A i \in DOMAIN clauses : \E p \in live : p[1] = i
    /\ Pop
    /\ UNCHANGED <<clauses, current_id, check, assumptions, constraint, concluded, original>>

(* The conclusion: the empty clause is there, the clause of the failed     *)
(* assumptions is the only one of its kind, or there is one for each       *)
(* literal of the constraint.                                              *)
Concludes(con, ids) ==
    \/ /\ con = "CONFLICT"
       /\ ids # <<>> /\ ids[Len(ids)] \in DOMAIN clauses /\ clauses[ids[Len(ids)]] = {}
    \/ /\ con = "ASSUMPTIONS"
       /\ Len(ids) = 1 /\ check.cores = {ids[1]}
    \/ /\ con = "CONSTRAINT"
       /\ Len(ids) = Cardinality(constraint)
       /\ \A i \in DOMAIN ids : ids[i] \in check.cores

conclude_unsat ==
    /\ At({"CONFLICT", "ASSUMPTIONS", "CONSTRAINT"})
    /\ LET t == Head(proof) IN fatal' = (concluded \/ ~ Concludes(t.op, t.chain))
    /\ concluded' = TRUE
    /\ Pop
    /\ UNCHANGED <<clauses, current_id, check, assumptions, constraint, original>>

CheckerInit ==
    /\ proof = <<>> /\ clauses = [i \in {} |-> {}] /\ current_id = 0
    /\ check = Idle({}) /\ assumptions = {} /\ constraint = {}
    /\ concluded = FALSE /\ fatal = FALSE /\ original = {}

CheckerNext ==
    \/ add_original_clause \/ import_clause \/ follow_hint \/ add_checked_clause
    \/ delete_clause \/ add_assumption \/ add_constraint \/ reset_assumptions
    \/ report_status \/ conclude_unsat

(* Any program that traces something.                                      *)
Tracing == /\ \E ts \in Seq(Traces) : proof' = proof \o ts
           /\ UNCHANGED checkerVars

CheckerSpec == CheckerInit /\ [][CheckerNext \/ Tracing]_lvars

----------------------------------------------------------------------------
(* What an accepted proof is worth.                                        *)
Assignments == {A \in SUBSET Lits : \A l \in Lits : l \in A <=> -l \notin A}
Satisfies(A, F) == \A C \in F : C \cap A # {}

(* Whatever chains the solver makes up, every clause the checker holds     *)
(* and every clause it has just found to follow is true in all models of   *)
(* the clauses added as input: lratchecker.cpp:380-460.                    *)
AcceptedFollows ==
    \A A \in Assignments :
        Satisfies(A, original) =>
            /\ \A i \in DOMAIN clauses : clauses[i] \cap A # {}
            /\ check.state = "implied" => check.lits \cap A # {}
=============================================================================
