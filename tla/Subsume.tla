------------------------------ MODULE Subsume ------------------------------
(***************************************************************************)
(* Forward subsumption and strengthening (subsume.cpp), vivification       *)
(* (vivify.cpp) and transitive reduction of binary clauses (transred.cpp), *)
(* which one subsumption phase runs in this order.  Schedules, limits and  *)
(* the order of literals are replaced by a free choice; proof chains are   *)
(* left out.                                                               *)
(***************************************************************************)
EXTENDS Formula

LOCAL INSTANCE SequencesExt

(* The clauses without an assigned literal: no other is scheduled.         *)
Schedule(S) == {c \in S : \A l \in c : ~fixed(db, l)}

----------------------------------------------------------------------------
(* subsume_check: the literals of e that are negated in c, if all others   *)
(* are in c as well.                                                       *)
Flipped(e, c) == {l \in e : -l \in c}
Matches(e, c) == e \subseteq c \cup Neg(c)

(* The subsuming clause e replaces an irredundant clause c as irredundant. *)
subsume_clause(d, e, eRedundant, c, cRedundant) ==
    IF cRedundant THEN mark_garbage_redundant(d, c)
    ELSE IF ~eRedundant THEN mark_garbage(d, c)
    ELSE [d EXCEPT !.irr = (@ \ {c}) \cup {e}, !.red = @ \ {e}]

try_to_subsume_clause(d, e, eRedundant, c, cRedundant) ==
    IF Flipped(e, c) = {} THEN subsume_clause(d, e, eRedundant, c, cRedundant)
    ELSE strengthen_clause(d, c, -(CHOOSE l \in Flipped(e, c) : TRUE), cRedundant)

(* One candidate clause of subsume_round.                                  *)
SubsumeClause ==
    /\ work.at \in {"subsume", "subsumeround"}
    /\ ~db.unsat
    /\ \E er, cr \in BOOLEAN :
       \E e \in Schedule(IF er THEN db.red ELSE db.irr) :
       \E c \in Schedule(IF cr THEN db.red ELSE db.irr) :
          /\ <<e, er>> # <<c, cr>>
          /\ Cardinality(c) > 2 /\ Cardinality(e) <= Cardinality(c)
          /\ Matches(e, c) /\ Cardinality(Flipped(e, c)) <= 1
          /\ db' = try_to_subsume_clause(db, e, er, c, cr)
    /\ UNCHANGED <<original, frozen, tainted, work, opts>>

(* A phase of its own: Internal::subsume.                                  *)
SubsumeStart ==
    /\ work = Idle /\ "subsume" \in opts
    /\ ~db.unsat
    /\ db' = propagate(db)
    /\ work' = IF db'.unsat THEN Idle ELSE Goto("subsume")
    /\ UNCHANGED <<original, frozen, tainted, opts>>

(* A round within bounded variable elimination ends.                       *)
SubsumeRoundEnd ==
    /\ work = Goto("subsumeround")
    /\ work' \in {Goto("elim"), Goto("blockstart")}
    /\ UNCHANGED <<db, original, frozen, tainted, opts>>

(* Watches are connected again, and vivification of irredundant clauses    *)
(* starts, unless there is no irredundant clause.                          *)
SubsumeEnd ==
    /\ work = Goto("subsume")
    /\ db' = propagate(db)
    /\ work' = IF db'.unsat \/ "vivify" \notin opts \/ db.irr = {} THEN Goto("transred")
               ELSE Goto("vivifyirr")
    /\ UNCHANGED <<original, frozen, tainted, opts>>

----------------------------------------------------------------------------
(* vivify.cpp.  In irredundant mode only irredundant clauses are watched.  *)

(* connect_watches (!redundant_mode).                                      *)
Watched(d, redundant_mode) == IF redundant_mode THEN d.irr \cup d.red ELSE d.irr

(* The watched clauses but the candidate c, which is ignored.              *)
WatchedBut(d, c, redundant_mode) ==
    IF redundant_mode THEN d.irr \cup (Watched(d, TRUE) \ {c}) ELSE Watched(d, FALSE) \ {c}

(* flush_vivification_schedule: c has another scheduled clause as prefix.  *)
FlushScheduled(c, S) == \E e \in S \ {c} : Cardinality(e) > 2 /\ e \subseteq c

(* The negations of the literals s[1], s[2], ... of c are assumed one by   *)
(* one.  decided are the literals assumed false, out is "" as long as the  *)
(* clause goes on, otherwise "conflict" or "implied" (s[i] became true);   *)
(* lit is the literal that became true.                                    *)
VivifyLiteral(r, l, V) ==
    IF r.out # "" THEN r
    ELSE IF l \in V THEN [r EXCEPT !.out = "implied", !.lit = {l}]
    ELSE IF -l \in V THEN r
    ELSE [r EXCEPT !.decided = @ \cup {l}]

VivifyConflict(r, F, U) ==
    IF r.out = "" /\ Conflicting(F, U \cup Neg(r.decided)) THEN [r EXCEPT !.out = "conflict"]
    ELSE r

vivify_assume(r, l, F, U) ==
    IF r.out # "" THEN r
    ELSE VivifyConflict(VivifyLiteral(r, l, Closure(F, U \cup Neg(r.decided))), F, U)

VivifyProbe(s, F, U) ==
    LET try[i \in 0..Len(s)] ==
          IF i = 0 THEN [decided |-> {}, out |-> "", lit |-> {}]
          ELSE vivify_assume(try[i - 1], s[i], F, U)
    IN  try[Len(s)]

(* vivifyinst: the other literals false and the last one true conflict.    *)
VivifyInstantiated(r, last, F, U) ==
    /\ last \in r.decided
    /\ Conflicting(F, U \cup Neg(r.decided \ {last}) \cup {last})

vivify_mark_garbage(d, c, redundant_mode) ==
    IF redundant_mode THEN mark_garbage_redundant(d, c) ELSE mark_garbage(d, c)

(* A unit is propagated over the watched clauses only.                     *)
VivifyUnit(d, c, unit, redundant_mode) ==
    LET p == propagate([assign_unit(d, unit) EXCEPT !.red = IF redundant_mode THEN @ ELSE {}])
    IN  vivify_mark_garbage([p EXCEPT !.red = d.red], c, redundant_mode)

vivify_strengthen(d, c, clause, redundant_mode) ==
    IF Cardinality(clause) = 1
    THEN VivifyUnit(d, c, CHOOSE l \in clause : TRUE, redundant_mode)
    ELSE new_clause(vivify_mark_garbage(d, c, redundant_mode), clause, redundant_mode)

(* The learned clauses in redundant mode: decisions that suffice for the   *)
(* conflict, and the implied literal.                                      *)
vivify_analyze_redundant(r, F, U) ==
    {L \in SUBSET (r.decided \cup r.lit) :
        r.lit \subseteq L /\ L # {} /\ Conflicting(F, U \cup Neg(L))}

(* The clause is subsumed.  In redundant mode it is removed only if all    *)
(* reasons are binary, replaced by a shorter learned clause or kept.       *)
VivifySubsumed(d, c, r, F, redundant_mode) ==
    IF ~redundant_mode THEN {mark_garbage(d, c)}
    ELSE {mark_garbage_redundant(d, c) :
            x \in {1} \cap {IF Conflicting({e \in F : Cardinality(e) = 2},
                                           d.units \cup Neg(r.decided \cup r.lit)) THEN 1 ELSE 0}}
         \cup {IF L = Open(d, c) THEN d ELSE vivify_strengthen(d, c, L, TRUE) :
                 L \in vivify_analyze_redundant(r, F, d.units)}

(* Literals found false are removed, with the last one if instantiated.    *)
VivifyShrunken(d, c, r, last, F, redundant_mode) ==
    LET keep == IF VivifyInstantiated(r, last, F, d.units) THEN r.decided \ {last} ELSE r.decided
    IN  IF keep = Open(d, c) THEN d ELSE vivify_strengthen(d, c, keep, redundant_mode)

(* The databases after vivify_clause with the literals in order s.         *)
VivifyOutcomes(d, c, s, r, F, redundant_mode) ==
    IF r.out = "" THEN {VivifyShrunken(d, c, r, s[Len(s)], F, redundant_mode)}
    ELSE VivifySubsumed(d, c, r, F, redundant_mode)

vivify_clause(d, c, s, F, redundant_mode) ==
    VivifyOutcomes(d, c, s, VivifyProbe(s, F, d.units), F, redundant_mode)

VivifyClause ==
    /\ work.at \in {"vivifyirr", "vivifyred"}
    /\ ~db.unsat
    /\ \E m \in {work.at = "vivifyred"} : \E c \in IF m THEN db.red ELSE db.irr :
          /\ Cardinality(c) > 2
          /\ IF Satisfied(db, c) \/ FlushScheduled(c, IF m THEN db.red ELSE db.irr)
             THEN db' = vivify_mark_garbage(db, c, m)
             ELSE \E s \in SetToSeqs(Open(db, c)) :
                    db' \in vivify_clause(db, c, s, WatchedBut(db, c, m), m)
    /\ UNCHANGED <<original, frozen, tainted, work, opts>>

(* The end of a vivify_round: all clauses are watched and propagated.      *)
VivifyRoundEnd ==
    /\ work.at \in {"vivifyirr", "vivifyred"}
    /\ db' = IF db.unsat THEN db ELSE propagate(db)
    /\ work' = IF work.at = "vivifyirr" /\ ~db'.unsat THEN Goto("vivifyred") ELSE Goto("transred")
    /\ UNCHANGED <<original, frozen, tainted, opts>>

----------------------------------------------------------------------------
(* transred.cpp.  The literals reachable from src over the binary clauses  *)
(* B, in one step and in any number of steps.                              *)
Implies(B, l) == {k \in Lits : {-l, k} \in B /\ k # -l}

Reachable(B, src) ==
    LET reach[i \in 0..Cardinality(Lits)] ==
          IF i = 0 THEN {src} ELSE LET p == reach[i - 1] IN p \cup UNION {Implies(B, l) : l \in p}
    IN  reach[Cardinality(Lits)]

(* The binary clauses that may replace c: irredundant ones if it is.       *)
TransredClauses(d, c, redundant) ==
    {e \in IF redundant THEN d.irr \cup (d.red \ {c}) ELSE d.irr \ {c} : Cardinality(e) = 2}

Transred ==
    /\ work = Goto("transred") /\ "transred" \in opts
    /\ ~db.unsat
    /\ \E r \in BOOLEAN : \E c \in IF r THEN db.red ELSE db.irr :
       \E src \in {-l : l \in c} : \E reach \in {Reachable(TransredClauses(db, c, r), src)} :
          /\ Cardinality(c) = 2
          /\ \A l \in c : ~fixed(db, l)
          /\ \/ /\ c \ {-src} \subseteq reach
                /\ db' = vivify_mark_garbage(db, c, r)
             \/ /\ \E l \in reach : -l \in reach
                /\ db' = propagate(assign_unit(db, -src))
    /\ UNCHANGED <<original, frozen, tainted, work, opts>>

TransredEnd ==
    /\ work = Goto("transred")
    /\ work' = Idle
    /\ UNCHANGED <<db, original, frozen, tainted, opts>>
============================================================================
