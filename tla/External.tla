------------------------------ MODULE External ------------------------------
(***************************************************************************)
(* The incremental interface of CaDiCaL around the clause database:        *)
(* external.cpp, restore.cpp, extend.cpp, constrain.cpp and the parts of   *)
(* internal.cpp, clause.cpp, flags.cpp and assume.cpp it calls.  The user  *)
(* works through a script of calls; between solve and its answer the       *)
(* procedures of the other modules run.  External and internal variables   *)
(* are the same here: compacting, which renames the internal ones, is left *)
(* out.                                                                    *)
(***************************************************************************)
EXTENDS Formula

LOCAL INSTANCE SequencesExt

CONSTANT RedMax     \* a bound: so many redundant clauses at a time

ASSUME RedMaxAssumption == RedMax \in Nat

VARIABLES script,    \* the calls the user still makes
          query,     \* assumptions and constraint of the current query
          frozentab, \* how often each variable has been frozen by the user
          answer     \* the last answer, with the model shown to the user

xvars == <<script, query, frozentab, answer>>

(* constraint is the user's clause, internal what constrain leaves of it   *)
(* ({} as a member: falsified); both are sets of at most one clause.       *)
NoQuery == [assumptions |-> {}, constraint |-> {}, internal |-> {}]
NoAnswer == [res |-> 0, model |-> {}]

(* The variables no procedure may remove: frozentab of the Internal class. *)
FrozenBy(tab, q) ==
    {v \in Vars : tab[v] > 0} \cup {Var(l) : l \in q.assumptions \cup UNION q.internal}

----------------------------------------------------------------------------
(* One literal comes in.  The status of its variable becomes active, and   *)
(* the literal is tainted if its negation is one of the witnesses W.       *)
reactivate(d, l) ==
    IF d.status[Var(l)] \in {"active", "fixed"} THEN d ELSE mark_status(d, l, "active")

(* marked (witness, -elit).                                                *)
Taints(l, W) == {l} \cap Neg(W)

InternalizeAll(s, W, c) ==
    [s EXCEPT !.db = FoldSet(LAMBDA l, d : reactivate(d, l), @, c),
              !.tainted = @ \cup UNION {Taints(l, W) : l \in c}]

(* add_new_original_clause.                                                *)
AddUnit(d, l) == propagate(assign_unit(d, l))

add_new_original_clause(d, c) ==
    IF d.unsat \/ Tautology(c) \/ Satisfied(d, c) THEN d
    ELSE IF Open(d, c) = {} THEN learn_empty_clause(d)
    ELSE IF Cardinality(Open(d, c)) = 1 THEN AddUnit(d, CHOOSE l \in Open(d, c) : TRUE)
    ELSE new_clause(d, Open(d, c), FALSE)

AddOriginal(s, W, c) ==
    LET t == InternalizeAll(s, W, c) IN [t EXCEPT !.db = add_new_original_clause(@, c)]

----------------------------------------------------------------------------
(* restore.cpp                                                             *)

(* Mutant: only the literals tainted by the user count, not those of the   *)
(* clauses restored before.                                                *)
RestoreTaintedFirst(r, e) == e.witness \cap Neg(r.before) # {}

(* A witness of the entry has its negation tainted.                        *)
RestoreTainted(r, e) == e.witness \cap Neg(r.tainted) # {}

RestoreFlushed(r, e) == "restoreflush" \in opts /\ Satisfied(r.db, e.clause)

RestoreEntry(r, e, W) ==
    IF RestoreFlushed(r, e) THEN r
    ELSE IF RestoreTainted(r, e) \/ "restoreall" \in opts THEN AddOriginal(r, W, e.clause)
    ELSE [r EXCEPT !.kept = Append(@, e)]

(* From the first entry to the last; the stack keeps the others.           *)
RestoreEntries(d, t) ==
    FoldLeft(LAMBDA r, e : RestoreEntry(r, e, Witnesses(d)),
             [db |-> d, tainted |-> t, before |-> t, kept |-> <<>>], d.ext)

restore_clauses(d, t) ==
    LET r == RestoreEntries(d, t) IN [r.db EXCEPT !.ext = r.kept]

----------------------------------------------------------------------------
(* The calls of the user.                                                  *)

Call == Head(script)

(* transition_to_steady_state, with which every call starts: assumptions   *)
(* and constraint end with the query that has been answered.               *)
SteadyQuery == IF answer.res = 0 THEN query ELSE NoQuery

TheUser(op) ==
    /\ work = Goto("user")
    /\ script # <<>> /\ Call.op = op
    /\ script' = Tail(script)
    /\ answer' = NoAnswer

Incoming(s) == db' = s.db /\ tainted' = s.tainted

Current == [db |-> db, tainted |-> tainted]

Add ==
    /\ TheUser("add")
    /\ Incoming(AddOriginal(Current, Witnesses(db), Call.lits))
    /\ original' = original \cup {Call.lits}
    /\ query' = SteadyQuery
    /\ frozen' = FrozenBy(frozentab, query')
    /\ UNCHANGED <<work, opts, frozentab>>

Assume ==
    /\ TheUser("assume")
    /\ Incoming(InternalizeAll(Current, Witnesses(db), Call.lits))
    /\ query' = [SteadyQuery EXCEPT !.assumptions = @ \cup Call.lits]
    /\ frozen' = FrozenBy(frozentab, query')
    /\ UNCHANGED <<original, work, opts, frozentab>>

(* What Internal::constrain leaves of the constraint: nothing if it is     *)
(* satisfied, otherwise the literals without a value.                      *)
Constraint(d, c) == IF Tautology(c) \/ Satisfied(d, c) THEN {} ELSE {Open(d, c)}

Constrain ==
    /\ TheUser("constrain")
    /\ Incoming(InternalizeAll(Current, Witnesses(db), Call.lits))
    /\ query' = [SteadyQuery EXCEPT !.constraint = {Call.lits},
                                    !.internal = Constraint(db', Call.lits)]
    /\ frozen' = FrozenBy(frozentab, query')
    /\ UNCHANGED <<original, work, opts, frozentab>>

Freeze ==
    /\ TheUser("freeze")
    /\ Incoming(InternalizeAll(Current, Witnesses(db), Call.lits))
    /\ frozentab' = [v \in Vars |-> IF v \in Call.lits THEN frozentab[v] + 1 ELSE frozentab[v]]
    /\ query' = SteadyQuery
    /\ frozen' = FrozenBy(frozentab', query')
    /\ UNCHANGED <<original, work, opts>>

Melt ==
    /\ TheUser("melt")
    /\ Incoming(InternalizeAll(Current, Witnesses(db), Call.lits))
    /\ frozentab' = [v \in Vars |-> IF v \in Call.lits THEN frozentab[v] - 1 ELSE frozentab[v]]
    /\ query' = SteadyQuery
    /\ frozen' = FrozenBy(frozentab', query')
    /\ UNCHANGED <<original, work, opts>>

(* Decided before anything is restored: there will be no search.           *)
Solved == Goto("solved")

(* solve up to the search: already_solved and restore_clauses.  With       *)
(* restoreall = 2 ("restorealways") clauses come back without taints too.  *)
Restored(d) ==
    IF tainted = {} /\ "restorealways" \notin opts THEN d
    ELSE LET r == restore_clauses(d, tainted)
         IN  IF r.unsat THEN r ELSE propagate(r)

Solve ==
    /\ TheUser("solve")
    /\ query' = SteadyQuery
    /\ frozen' = FrozenBy(frozentab, query')
    /\ \E d \in {IF db.unsat \/ {} \in query'.internal THEN db ELSE propagate(db)} :
          \/ /\ d.unsat \/ {} \in query'.internal
             /\ db' = d /\ work' = Solved /\ UNCHANGED tainted
          \/ /\ ~d.unsat /\ {} \notin query'.internal
             /\ db' = Restored(d) /\ work' = Idle /\ tainted' = {}
    /\ UNCHANGED <<original, opts, frozentab>>

----------------------------------------------------------------------------
(* The search between two procedures, seen from the database.              *)

(* A learned clause: implied by propagation, with active variables.        *)
Learn ==
    /\ work = Idle /\ "learn" \in opts /\ ~db.unsat
    /\ Cardinality(db.red) < RedMax
    /\ \E l, k \in {j \in Lits : active(db, j)} :
          /\ l # -k /\ {l, k} \notin db.irr \cup db.red
          /\ Conflicting(db.irr \cup db.red, db.units \cup {-l, -k})
          /\ db' = IF l = k THEN propagate(Derive(db, {l}, TRUE))
                   ELSE Derive(db, {l, k}, TRUE)
    /\ UNCHANGED <<original, frozen, tainted, work, opts, xvars>>

(* reduce: redundant clauses that are no reasons may go.                   *)
Reduce ==
    /\ work = Idle /\ ~db.unsat
    /\ \E c \in db.red : db' = mark_garbage_redundant(db, c)
    /\ UNCHANGED <<original, frozen, tainted, work, opts, xvars>>

(* The assignments the search may end with.  Eliminated variables get any  *)
(* value; those the user has not mentioned are false.                      *)
Found(d, q) ==
    {A \in Assignments : /\ d.units \cup q.assumptions \subseteq A
                         /\ \A v \in Vars : d.status[v] = "unused" => -v \in A
                         /\ \A c \in d.irr \cup d.red \cup q.internal : c \cap A # {}}

Answered(r, m) == answer' = [res |-> r, model |-> m]

(* The search ends: with a model, which is extended for the user, without  *)
(* one, or at a limit, after which assumptions and constraint are reset.   *)
Answer ==
    /\ work \in {Idle, Solved}
    /\ \/ /\ ~db.unsat /\ {} \notin query.internal
          /\ \E A \in Found(db, query) : Answered(10, extend(db.ext, A))
          /\ UNCHANGED <<db, query>>
       \/ /\ db.unsat \/ Found(db, query) = {}
          /\ Answered(20, {})
          /\ db' = IF Found(db, NoQuery) = {} THEN learn_empty_clause(db) ELSE db
          /\ UNCHANGED query
       \/ work = Idle /\ ~db.unsat /\ Answered(0, {}) /\ query' = NoQuery /\ UNCHANGED db
    /\ frozen' = FrozenBy(frozentab, query')
    /\ work' = Goto("user")
    /\ UNCHANGED <<original, tainted, opts, script, frozentab>>
=============================================================================
