------------------------------ MODULE Formula ------------------------------
(***************************************************************************)
(* CaDiCaL's clause database between two searches: what all preprocessing  *)
(* and inprocessing procedures of the solver read and change.  A clause is *)
(* the set of its literals and a literal a variable or its negation, so    *)
(* watches, occurrence lists, the order of literals and the memory layout  *)
(* are left out; literals falsified at the root stay in a clause until a   *)
(* procedure removes them.  Clauses marked garbage are gone at once.       *)
(***************************************************************************)
EXTENDS Integers, FiniteSets, Sequences

LOCAL INSTANCE SequencesExt

CONSTANT Vars       \* the variables, a set 1..n

VARIABLES db,       \* the clause database, a record (see Database)
          original, \* the clauses the user added, for the properties
          frozen,   \* variables frozen by the user or by an assumption
          tainted,  \* literals marked tainted since the last restore
          work,     \* the running procedure and its queue of clauses
          opts      \* the procedures that are switched on

fvars == <<db, original, frozen, tainted, work, opts>>

Lits == Vars \cup {-v : v \in Vars}
Var(l) == IF l < 0 THEN -l ELSE l
Neg(S) == {-l : l \in S}

(* No procedure is running, or the one called l with an empty queue.       *)
Goto(l) == [at |-> l, todo |-> <<>>]
Idle == Goto("idle")

(* The database is a record d with these fields:                           *)
(* irr and red are the irredundant and the redundant clauses that are not  *)
(* garbage, units the literals true at the root, ext the extension stack,  *)
(* with the earliest entry first, status the flags of the variables, unsat *)
(* that the empty clause is derived, bound the elimination bound.          *)
----------------------------------------------------------------------------
(* Reading the database.                                                   *)

fixed(d, l) == l \in d.units \/ -l \in d.units
active(d, l) == d.status[Var(l)] = "active"
Satisfied(d, c) == c \cap d.units # {}
Open(d, c) == {l \in c : -l \notin d.units}     \* without falsified literals
Tautology(c) == \E l \in c : -l \in c
occs(d, l) == {c \in d.irr : l \in c}

(* A set of clauses as a sequence with the smaller clauses first, the way  *)
(* the occurrence lists are sorted; ties are broken in one fixed way.      *)
Sorted(S) ==
    LET seq[T \in SUBSET S] ==
          IF T = {} THEN <<>>
          ELSE LET c == CHOOSE c \in T : \A e \in T : Cardinality(c) <= Cardinality(e)
               IN  <<c>> \o seq[T \ {c}]
    IN  seq[S]

----------------------------------------------------------------------------
(* Changing it: flags.cpp and clause.cpp.                                  *)

mark_status(d, l, s) == [d EXCEPT !.status[Var(l)] = s]

learn_empty_clause(d) == [d EXCEPT !.unsat = TRUE]

assign_unit(d, l) == [mark_status(d, l, "fixed") EXCEPT !.units = @ \cup {l}]

mark_garbage(d, c) == [d EXCEPT !.irr = @ \ {c}]
mark_garbage_redundant(d, c) == [d EXCEPT !.red = @ \ {c}]

new_clause(d, c, redundant) ==
    IF redundant THEN [d EXCEPT !.red = @ \cup {c}] ELSE [d EXCEPT !.irr = @ \cup {c}]

(* A derived clause, whatever its size.                                    *)
Derive(d, c, redundant) ==
    IF c = {} THEN learn_empty_clause(d)
    ELSE IF Cardinality(c) = 1 THEN LET l == CHOOSE l \in c : TRUE IN
              IF l \in d.units THEN d
              ELSE IF -l \in d.units THEN learn_empty_clause(d) ELSE assign_unit(d, l)
    ELSE new_clause(d, c, redundant)

strengthen_clause(d, c, l, redundant) ==
    IF redundant THEN [d EXCEPT !.red = (@ \ {c}) \cup {c \ {l}}]
                 ELSE [d EXCEPT !.irr = (@ \ {c}) \cup {c \ {l}}]

----------------------------------------------------------------------------
(* Unit propagation: all literals that follow from the clauses F and the   *)
(* literals V, and whether a clause became empty.                          *)

Implied(F, V) == {l \in Lits \ V : \E c \in F : l \in c /\ \A k \in c \ {l} : -k \in V}

Closure(F, V) ==
    LET step[i \in 0..Cardinality(Lits)] ==
          IF i = 0 THEN V ELSE LET p == step[i - 1] IN p \cup Implied(F, p)
    IN  step[Cardinality(Lits)]

Conflicting(F, V) == LET W == Closure(F, V) IN
                     \/ \E l \in W : -l \in W
                     \/ \E c \in F : \A l \in c : -l \in W

(* propagate at decision level zero, with every clause watched.            *)
propagate(d) ==
    LET F == d.irr \cup d.red
        U == Closure(F, d.units) IN
    IF Conflicting(F, d.units) THEN learn_empty_clause(d)
    ELSE [d EXCEPT !.units = U,
                   !.status = [v \in Vars |-> IF {v, -v} \cap (U \ d.units) # {}
                                              THEN "fixed" ELSE @[v]]]

----------------------------------------------------------------------------
(* The extension stack: extend.cpp.                                        *)

push_clause_on_extension_stack(d, c, w) ==
    [d EXCEPT !.ext = Append(@, [clause |-> c, witness |-> w])]

(* The literals some entry of the stack has as witness: marked witness.    *)
Witnesses(d) == UNION {d.ext[i].witness : i \in DOMAIN d.ext}

Assignments == {{IF f[v] THEN v ELSE -v : v \in Vars} : f \in [Vars -> BOOLEAN]}

(* One entry: if its clause is not satisfied the witness is made true.     *)
ExtendBy(e, A) == IF e.clause \cap A # {} THEN A
                  ELSE (A \ Neg(e.witness)) \cup e.witness

(* External::extend, from the last entry to the first.                     *)
extend(ext, A) == FoldRight(ExtendBy, ext, A)
============================================================================
