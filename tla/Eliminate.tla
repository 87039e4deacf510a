----------------------------- MODULE Eliminate -----------------------------
(***************************************************************************)
(* Bounded variable elimination: elim.cpp with gates.cpp, backward.cpp and *)
(* instantiate.cpp.  Which variables are tried, and for how long, depends  *)
(* on schedules and limits; here any candidate may be tried next and a     *)
(* round may end at any time.  Proof chains (lrat) are left out.           *)
(***************************************************************************)
EXTENDS Formula

CONSTANT ElimBoundMax       \* opts.elimboundmax

ASSUME ElimBoundAssumption == ElimBoundMax \in Nat

(* Clause c without the literals that have a value, true ones included.    *)
Unassigned(d, c) == {l \in c : ~fixed(d, l)}

----------------------------------------------------------------------------
(* elim_propagate over the occurrence lists of the irredundant clauses:    *)
(* clauses met on the way that are satisfied become garbage.  W holds the  *)
(* literals whose clauses are still to be visited.                         *)
PropagateOver(d, W) ==
    LET met  == {c \in d.irr : \E l \in W : l \in c \/ -l \in c}
        sat  == {c \in met : Satisfied(d, c)}
        new  == UNION {Open(d, c) : c \in {e \in met \ sat : Cardinality(Open(d, e)) = 1}}
    IN  [db |-> IF \/ \E l \in new : -l \in new
                   \/ \E c \in met \ sat : Open(d, c) = {}
                THEN learn_empty_clause(d)
                ELSE [d EXCEPT !.irr = @ \ sat, !.units = @ \cup new,
                               !.status = [v \in Vars |-> IF {v, -v} \cap new # {}
                                                          THEN "fixed" ELSE @[v]]],
         new |-> new]

elim_propagate(d, root) ==
    LET step[i \in 0..Cardinality(Vars) + 1] ==
          IF i = 0 THEN [db |-> d, new |-> {root}]
          ELSE LET p == step[i - 1]
               IN  IF p.new = {} \/ p.db.unsat THEN p ELSE PropagateOver(p.db, p.new)
    IN  step[Cardinality(Vars) + 1].db

ElimUnit(d, l) == elim_propagate(assign_unit(d, l), l)

(* c loses the pivot: a new clause replaces it.                            *)
elim_on_the_fly_self_subsumption(d, c, pivot) ==
    mark_garbage(new_clause(d, Open(d, c) \ {pivot}, FALSE), c)

----------------------------------------------------------------------------
(* resolve_clauses.  The result has the changed database and the resolvent *)
(* or {} if the resolvent is redundant, has been turned into a unit or has *)
(* strengthened one of its antecedents.                                    *)
NoResolvent(d) == [db |-> d, res |-> {}]

(* s and t are the other open literals of c and e.                         *)
Resolvent(d, c, pivot, e, s, t, propagate_eagerly) ==
    CASE Tautology(s \cup t) -> NoResolvent(d)
      [] s \cup t = {} -> NoResolvent(learn_empty_clause(d))
      [] Cardinality(s \cup t) = 1 ->
           LET u == CHOOSE l \in s \cup t : TRUE
           IN  NoResolvent(IF propagate_eagerly THEN ElimUnit(d, u) ELSE assign_unit(d, u))
      [] Cardinality(s \cup t) > 1 /\ ~Tautology(s \cup t) ->
           IF s = t THEN NoResolvent(mark_garbage(
                           elim_on_the_fly_self_subsumption(d, c, pivot), e))
           ELSE IF t \subseteq s THEN NoResolvent(elim_on_the_fly_self_subsumption(d, c, pivot))
           ELSE IF s \subseteq t THEN NoResolvent(elim_on_the_fly_self_subsumption(d, e, -pivot))
           ELSE [db |-> d, res |-> s \cup t]

(* c is the smaller clause.                                                *)
ResolveSmaller(d, c, pivot, e, propagate_eagerly) ==
    IF Satisfied(d, c \ {pivot}) THEN NoResolvent(mark_garbage(d, c))
    ELSE IF Satisfied(d, e \ {-pivot}) THEN NoResolvent(mark_garbage(d, e))
    ELSE Resolvent(d, c, pivot, e, Open(d, c) \ {pivot}, Open(d, e) \ {-pivot},
                   propagate_eagerly)

resolve_clauses(d, c, pivot, e, propagate_eagerly) ==
    LET swap == Cardinality(c) > Cardinality(e)
    IN  ResolveSmaller(d, IF swap THEN e ELSE c, IF swap THEN -pivot ELSE pivot,
                       IF swap THEN c ELSE e, propagate_eagerly)

(* With a gate only a gate clause and another clause are resolved.         *)
Pairable(d, c, e, gates) ==
    /\ c \in d.irr /\ e \in d.irr
    /\ gates # {} => (c \in gates) # (e \in gates)

(* The body of the loop that counts resolvents: n of them so far.          *)
CountResolvent(r, x, pivot, bound) ==
    IF x.res # {} THEN [db |-> x.db, n |-> r.n + 1, go |-> r.n + 1 <= bound, ok |-> r.n + 1 <= bound]
    ELSE IF x.db.unsat \/ fixed(x.db, pivot) THEN [r EXCEPT !.db = x.db, !.go = FALSE, !.ok = FALSE]
    ELSE [r EXCEPT !.db = x.db]

(* Strengthening, units and garbage found while counting remain.           *)
elim_resolvents_are_bounded(d, pivot, gates, ps, ns) ==
    LET count[k \in 0..Len(ps) * Len(ns)] ==
          IF k = 0 THEN [db |-> d, n |-> 0, go |-> TRUE, ok |-> TRUE]
          ELSE LET r == count[k - 1]
                   c == ps[((k - 1) \div Len(ns)) + 1]
                   e == ns[((k - 1) % Len(ns)) + 1]
               IN  IF ~r.go \/ ~Pairable(r.db, c, e, gates) THEN r
                   ELSE CountResolvent(r, resolve_clauses(r.db, c, pivot, e, TRUE), pivot,
                                       Len(ps) + Len(ns) + d.bound)
    IN  count[Len(ps) * Len(ns)]

AddResolvent(r, x) ==
    IF x.res = {} THEN [r EXCEPT !.db = x.db]
    ELSE [db |-> new_clause(x.db, x.res, FALSE), queue |-> Append(r.queue, x.res)]

elim_add_resolvents(d, pivot, gates, ps, ns) ==
    LET add[k \in 0..Len(ps) * Len(ns)] ==
          IF k = 0 THEN [db |-> d, queue |-> <<>>]
          ELSE LET r == add[k - 1]
                   c == ps[((k - 1) \div Len(ns)) + 1]
                   e == ns[((k - 1) % Len(ns)) + 1]
               IN  IF r.db.unsat \/ ~Pairable(r.db, c, e, gates) THEN r
                   ELSE AddResolvent(r, resolve_clauses(r.db, c, pivot, e, FALSE))
    IN  add[Len(ps) * Len(ns)]

(* Pushing the clauses cs, in this order, with one witness.                *)
PushAll(ext, cs, w) == ext \o [i \in DOMAIN cs |-> [clause |-> cs[i], witness |-> {w}]]

(* Of a gate only the gate clauses are needed to find the pivot's value.   *)
mark_eliminated_clauses_as_garbage(d, pivot, gates) ==
    LET pushed(l) == Sorted({c \in occs(d, l) : gates = {} \/ c \in gates})
    IN  [d EXCEPT !.ext = PushAll(PushAll(@, pushed(pivot), pivot), pushed(-pivot), -pivot),
                  !.irr = @ \ (occs(d, pivot) \cup occs(d, -pivot))]

(* After the resolvents have been added.                                   *)
Eliminated(r, pivot, gates) ==
    IF r.db.unsat THEN [r EXCEPT !.db = mark_status(@, pivot, "eliminated")]
    ELSE [r EXCEPT !.db = mark_status(mark_eliminated_clauses_as_garbage(@, pivot, gates),
                                      pivot, "eliminated")]

----------------------------------------------------------------------------
(* gates.cpp.  A result g has the database and the gate clauses found; no  *)
(* search goes on when a gate has been found, the pivot has got a value or *)
(* the formula is unsatisfiable.                                           *)

GateSearchEnds(g, pivot) == g.db.unsat \/ fixed(g.db, pivot) \/ g.gates # {}

(* The open binary clauses with literal l, and their other literals.       *)
Binaries(d, l) == {c \in occs(d, l) : ~Satisfied(d, c) /\ Cardinality(Open(d, c)) = 2}
Seconds(d, l) == UNION {Open(d, c) \ {l} : c \in Binaries(d, l)}

(* All but one of the binary clauses with the same open literals.          *)
Duplicates(d, l) ==
    {c \in Binaries(d, l) :
        c # CHOOSE e \in Binaries(d, l) : Open(d, e) = Open(d, c)}

(* mark_binary_literals: flushes satisfied and duplicated clauses; l is a  *)
(* unit if it is in two binary clauses with complementary literals.        *)
mark_binary_literals(d, l) ==
    IF \E k \in Seconds(d, l) : -k \in Seconds(d, l) THEN ElimUnit(d, l)
    ELSE [d EXCEPT !.irr = @ \ ({c \in occs(d, l) : Satisfied(d, c)} \cup Duplicates(d, l))]

(* One clause with -pivot whose second literal is k: with the same literal *)
(* in a binary clause of the pivot k is a unit, with -k both clauses are   *)
(* the gate pivot = -k.  marked are the seconds of the pivot beforehand.   *)
EquivalenceWith(g, c, pivot, marked) ==
    IF GateSearchEnds(g, pivot) \/ c \notin Binaries(g.db, -pivot) THEN g
    ELSE LET k == CHOOSE k \in Open(g.db, c) : k # -pivot
         IN  CASE k \in marked -> [g EXCEPT !.db = ElimUnit(@, k)]
               [] -k \in marked ->
                    [g EXCEPT !.gates = {c, CHOOSE e \in Binaries(g.db, pivot) :
                                               -k \in Open(g.db, e)}]
               [] k \notin marked /\ -k \notin marked -> g

EquivalenceAmong(g, cs, pivot, marked) ==
    LET try[i \in 0..Len(cs)] ==
          IF i = 0 THEN g ELSE EquivalenceWith(try[i - 1], cs[i], pivot, marked)
    IN  try[Len(cs)]

MarkedGate(g, l) == [g EXCEPT !.db = mark_binary_literals(@, l)]

find_equivalence(g, pivot) ==
    IF GateSearchEnds(g, pivot) THEN g
    ELSE EquivalenceAmong(MarkedGate(g, pivot), Sorted(occs(g.db, -pivot)), pivot,
                          Seconds(g.db, pivot))

(* -pivot is the conjunction of the negated other literals of a base       *)
(* clause, each of which is in a binary clause with the pivot.             *)
AndBases(d, pivot) ==
    {c \in occs(d, -pivot) :
        /\ Cardinality(c) > 2
        /\ ~Satisfied(d, c)
        /\ \A l \in Open(d, c) \ {-pivot} : -l \in Seconds(d, pivot)}

AndGate(g, pivot) ==
    IF GateSearchEnds(g, pivot) \/ AndBases(g.db, pivot) = {} THEN g
    ELSE LET c == CHOOSE c \in AndBases(g.db, pivot) : TRUE
         IN  [g EXCEPT !.gates =
                {c} \cup {e \in Binaries(g.db, pivot) :
                            \E l \in Open(g.db, c) : l # -pivot /\ -l \in Open(g.db, e)}]

find_and_gate(g, pivot) ==
    IF GateSearchEnds(g, pivot) THEN g ELSE AndGate(MarkedGate(g, pivot), pivot)

(* The clauses whose unassigned literals are L; a true literal is skipped  *)
(* like a false one.                                                       *)
find_clause(d, L) == {c \in d.irr : Unassigned(d, c) = L}

(* pivot = IF -b THEN -c ELSE -f: the four clauses of the gate.            *)
IteGates(d, pivot) ==
    LET open(c) == Unassigned(d, c) IN
    {{c1, c2, c3, c4} : <<c1, c2, c3, c4>> \in
       {x \in occs(d, pivot) \X occs(d, pivot) \X occs(d, -pivot) \X occs(d, -pivot) :
          /\ \A i \in 1..4 : Cardinality(open(x[i])) = 3
          /\ \E b \in open(x[1]) \ {pivot} :
                 \E c \in open(x[1]) \ {pivot, b}, f \in open(x[2]) \ {pivot, -b} :
                    /\ Cardinality({Var(l) : l \in {pivot, b, c, f}}) = 4
                    /\ open(x[1]) = {pivot, b, c} /\ open(x[2]) = {pivot, -b, f}
                    /\ open(x[3]) = {-pivot, b, -c} /\ open(x[4]) = {-pivot, -b, -f}}}

find_if_then_else(g, pivot) ==
    IF GateSearchEnds(g, pivot) \/ IteGates(g.db, pivot) = {} THEN g
    ELSE [g EXCEPT !.gates = CHOOSE x \in IteGates(g.db, pivot) : TRUE]

(* The clauses an XOR of L needs: an even number of literals negated.      *)
XorClauses(L) ==
    {(L \ S) \cup Neg(S) : S \in {T \in SUBSET L : Cardinality(T) % 2 = 0}}

XorBases(d, pivot) ==
    {c \in occs(d, pivot) :
        /\ Cardinality(Unassigned(d, c)) > 2
        /\ \A L \in XorClauses(Unassigned(d, c)) : find_clause(d, L) # {}}

find_xor_gate(g, pivot) ==
    IF GateSearchEnds(g, pivot) \/ XorBases(g.db, pivot) = {} THEN g
    ELSE LET c == CHOOSE c \in XorBases(g.db, pivot) : TRUE
         IN  [g EXCEPT !.gates =
                {CHOOSE e \in find_clause(g.db, L) : TRUE : L \in XorClauses(Unassigned(g.db, c))}]

(* A variable without positive occurrences has no gate.                    *)
find_gate_clauses(d, pivot) ==
    IF occs(d, pivot) = {} THEN [db |-> d, gates |-> {}]
    ELSE find_xor_gate(find_if_then_else(find_and_gate(find_and_gate(
           find_equivalence([db |-> d, gates |-> {}], pivot), pivot), -pivot), pivot), pivot)
----------------------------------------------------------------------------
(* try_to_eliminate_variable, up to the queue of new clauses it leaves.    *)

NotEliminated(d) == [db |-> d, queue |-> <<>>]

AfterCounting(r, pivot, gates, ps, ns) ==
    IF ~r.ok THEN NotEliminated(r.db)
    ELSE Eliminated(elim_add_resolvents(r.db, pivot, gates, ps, ns), pivot, gates)

AfterGates(g, pivot, ps, ns) ==
    IF g.db.unsat \/ fixed(g.db, pivot) THEN NotEliminated(g.db)
    ELSE AfterCounting(elim_resolvents_are_bounded(g.db, pivot, g.gates, ps, ns),
                       pivot, g.gates, ps, ns)

try_to_eliminate_variable(d, v) ==
    LET pivot == IF Cardinality(occs(d, v)) > Cardinality(occs(d, -v)) THEN -v ELSE v
    IN  AfterGates(find_gate_clauses(d, pivot), pivot,
                   Sorted(occs(d, pivot)), Sorted(occs(d, -pivot)))

----------------------------------------------------------------------------
(* elim_backward_clause: c is tried against the clauses with its literal   *)
(* best.  The flag satisfied is not reset from one clause to the next, and *)
(* a clause with two negated literals ends the search.                     *)
Negated(d, c, e) == {l \in Open(d, e) : -l \in Open(d, c)}
Shared(d, c, e) == {l \in Open(d, e) : l \in Open(d, c) \/ -l \in Open(d, c)}

BackwardStrengthen(b, e, l) ==
    LET rest == Open(b.db, e) \ {l}
    IN  IF Cardinality(rest) = 1
        THEN [b EXCEPT !.db = ElimUnit(@, CHOOSE k \in rest : TRUE), !.go = FALSE]
        ELSE [b EXCEPT !.db = strengthen_clause(@, e, l, FALSE),
                       !.queue = Append(@, e \ {l})]

BackwardWith(b, c, e) ==
    IF ~b.go \/ e \notin b.db.irr \/ Cardinality(e) < Cardinality(Open(b.db, c)) THEN b
    ELSE IF b.satisfied \/ Satisfied(b.db, e)
         THEN [b EXCEPT !.db = mark_garbage(@, e), !.satisfied = TRUE]
    ELSE IF Cardinality(Negated(b.db, c, e)) > 1 THEN [b EXCEPT !.go = FALSE]
    ELSE IF Cardinality(Shared(b.db, c, e)) # Cardinality(Open(b.db, c)) THEN b
    ELSE IF Negated(b.db, c, e) = {} THEN [b EXCEPT !.db = mark_garbage(@, e)]
    ELSE BackwardStrengthen(b, e, CHOOSE l \in Negated(b.db, c, e) : TRUE)

BackwardAmong(d, c, queue, es) ==
    LET try[i \in 0..Len(es)] ==
          IF i = 0 THEN [db |-> d, queue |-> queue, satisfied |-> FALSE, go |-> TRUE]
          ELSE BackwardWith(try[i - 1], c, es[i])
    IN  try[Len(es)]

elim_backward_clause(d, c, queue, best) ==
    IF c \notin d.irr THEN [db |-> d, queue |-> queue]
    ELSE IF Satisfied(d, c) THEN [db |-> mark_garbage(d, c), queue |-> queue]
    ELSE BackwardAmong(d, c, queue, Sorted(occs(d, best) \ {c}))

----------------------------------------------------------------------------
(* instantiate_candidate: assume l true and the other literals of c false. *)

Instantiable(d, l, c) ==
    /\ c \in d.irr /\ l \in c
    /\ ~Satisfied(d, c)
    /\ Cardinality(Open(d, c)) > 2
    /\ \A k \in Open(d, c) : active(d, k)

inst_propagate(d, l, c) == Conflicting(d.irr \cup d.red, d.units \cup {l} \cup Neg(c \ {l}))

----------------------------------------------------------------------------
mark_redundant_clauses_with_eliminated_variables_as_garbage(d) ==
    [d EXCEPT !.red = {c \in @ : \A l \in c : d.status[Var(l)] \notin {"eliminated", "pure"}}]

mark_satisfied_irredundant(d) == [d EXCEPT !.irr = {c \in @ : ~Satisfied(d, c)}]

(* elim: propagation first; watches are given up until ElimEnd.            *)
ElimStart ==
    /\ work = Idle /\ "elim" \in opts
    /\ ~db.unsat
    /\ db' = propagate(db)
    /\ work' = IF db'.unsat THEN Idle ELSE Goto("elim")
    /\ UNCHANGED <<original, frozen, tainted, opts>>

(* elim_round up to its main loop.                                         *)
ElimRoundStart ==
    /\ work = Goto("elim")
    /\ ~db.unsat
    /\ db' = mark_satisfied_irredundant(db)
    /\ work' = Goto("round")
    /\ UNCHANGED <<original, frozen, tainted, opts>>

(* Mutant: frozen variables are eliminated too.                            *)
ElimCandidatesAll == {v \in Vars : active(db, v)}

ElimCandidates == {v \in Vars : active(db, v) /\ v \notin frozen}

TryToEliminate ==
    /\ work = Goto("round")
    /\ ~db.unsat
    /\ \E v \in ElimCandidates : \E r \in {try_to_eliminate_variable(db, v)} :
          /\ db' = r.db
          /\ work' = [work EXCEPT !.todo = r.queue]
    /\ UNCHANGED <<original, frozen, tainted, opts>>

(* elim_backward_clauses, one clause of the queue.                         *)
ElimBackward ==
    /\ work.at = "round" /\ work.todo # <<>>
    /\ ~db.unsat
    /\ \E best \in Head(work.todo) :
         \E b \in {elim_backward_clause(db, Head(work.todo), Tail(work.todo), best)} :
            /\ -best \notin db.units
            /\ db' = b.db
            /\ work' = [work EXCEPT !.todo = b.queue]
    /\ UNCHANGED <<original, frozen, tainted, opts>>

(* The end of elim_round, and what instantiate does before its loop.       *)
ElimRoundEnd ==
    /\ work.at = "round" /\ (work.todo = <<>> \/ db.unsat)
    /\ IF db.unsat THEN db' = db /\ work' = Goto("elimend")
       ELSE LET d == mark_redundant_clauses_with_eliminated_variables_as_garbage(db)
            IN  \/ db' = d /\ work' = Goto("elimmore")
                \/ /\ "instantiate" \in opts
                   /\ db' = propagate(d) /\ work' = Goto("instantiate")
    /\ UNCHANGED <<original, frozen, tainted, opts>>

Instantiate ==
    /\ work = Goto("instantiate")
    /\ ~db.unsat
    /\ \E c \in db.irr : \E l \in c :
          /\ Var(l) \notin frozen
          /\ Instantiable(db, l, c)
          /\ inst_propagate(db, l, c)
          /\ db' = strengthen_clause(db, c, l, FALSE)
    /\ UNCHANGED <<original, frozen, tainted, work, opts>>

InstantiateEnd ==
    /\ work = Goto("instantiate")
    /\ work' = Goto("elimmore")
    /\ UNCHANGED <<db, original, frozen, tainted, opts>>

(* After a round: subsumption, blocked and covered clause elimination in   *)
(* this order until one of them succeeds, or the phase is over.            *)
ElimContinue ==
    /\ work = Goto("elimmore")
    /\ work' = Goto("subsumeround")
    /\ UNCHANGED <<db, original, frozen, tainted, opts>>

increase_elimination_bound(b) ==
    IF b >= ElimBoundMax THEN b
    ELSE IF b = 0 THEN 1
    ELSE IF 2 * b > ElimBoundMax THEN ElimBoundMax ELSE 2 * b

(* The rest of elim: watches are connected and delayed units propagated;   *)
(* the bound grows when nothing is left to be tried (at "elimdone").       *)
ElimEnd ==
    /\ work.at \in {"elimend", "elimmore", "elimdone"}
    /\ LET d == IF db.unsat THEN db ELSE propagate(db)
       IN  db' = IF work.at = "elimdone"
                 THEN [d EXCEPT !.bound = increase_elimination_bound(@)] ELSE d
    /\ work' = Idle
    /\ UNCHANGED <<original, frozen, tainted, opts>>
============================================================================
