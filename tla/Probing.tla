------------------------------ MODULE Probing ------------------------------
(***************************************************************************)
(* A probing phase (probe.cpp): equivalent literal substitution            *)
(* (decompose.cpp), hyper ternary resolution (ternary.cpp), removal of     *)
(* duplicated binary clauses (deduplicate.cpp), failed literals and hyper  *)
(* binary resolution.  Limits and schedules are replaced by a free choice, *)
(* proof chains are left out.                                              *)
(***************************************************************************)
EXTENDS Formula

Clauses(d) == d.irr \cup d.red
BinariesOf(d) == {c \in Clauses(d) : Cardinality(c) = 2}

(* Literals that follow from l over binary clauses of active variables.    *)
ImpliedBy(d, l) ==
    LET B == BinariesOf(d)
        reach[i \in 0..Cardinality(Lits)] ==
          IF i = 0 THEN {l}
          ELSE LET p == reach[i - 1]
               IN  p \cup {k \in Lits : active(d, k) /\ \E j \in p : j # -k /\ {-j, k} \in B}
    IN  reach[Cardinality(Lits)]

----------------------------------------------------------------------------
(* decompose_round                                                         *)

(* The strongly connected component of l in the binary implication graph.  *)
Scc(d, l) == {k \in ImpliedBy(d, l) : l \in ImpliedBy(d, k)}

(* The literal of smallest index represents its component.                 *)
Repr(d, l) == IF ~active(d, l) \/ Var(l) \in frozen THEN l
              ELSE CHOOSE k \in Scc(d, l) : \A j \in Scc(d, l) : Var(k) <= Var(j)

(* Both clauses of an equivalence go to the extension stack.               *)
PushEquivalence(d, v, other) ==
    push_clause_on_extension_stack(
      push_clause_on_extension_stack(d, {-v, other}, {-v}), {v, -other}, {v})

Substituted(d, repr) == {v \in Vars : active(d, v) /\ repr[v] # v}

PushEquivalences(d, repr) ==
    LET push[i \in 0..Cardinality(Vars)] ==
          IF i = 0 THEN d
          ELSE IF i \in Substituted(d, repr) THEN PushEquivalence(push[i - 1], i, repr[i])
          ELSE push[i - 1]
    IN  push[Cardinality(Vars)]

(* One clause with a substituted literal, with the values assigned so far. *)
SubstituteLiterals(d, c, repr) == {k \in {repr[l] : l \in Open(d, c)} : -k \notin d.units}

Substitute(d, c, repr, redundant) ==
    IF Satisfied(d, c) \/ {repr[l] : l \in Open(d, c)} \cap d.units # {}
       \/ Tautology(SubstituteLiterals(d, c, repr))
    THEN IF redundant THEN mark_garbage_redundant(d, c) ELSE mark_garbage(d, c)
    ELSE Derive(IF redundant THEN mark_garbage_redundant(d, c) ELSE mark_garbage(d, c),
                SubstituteLiterals(d, c, repr), redundant)

SubstituteAll(d, cs, repr, redundant) ==
    LET sub[i \in 0..Len(cs)] ==
          IF i = 0 THEN d
          ELSE LET p == sub[i - 1]
               IN  IF p.unsat \/ \A l \in cs[i] : active(d, l) /\ repr[l] = l THEN p
                   ELSE Substitute(p, cs[i], repr, redundant)
    IN  sub[Len(cs)]

(* Variables whose representative got a value in the end stay active.      *)
mark_substituted(d, vs, repr) ==
    IF d.unsat THEN d
    ELSE [d EXCEPT !.status = [v \in Vars |->
            IF v \in vs /\ @[v] = "active" /\ @[Var(repr[v])] # "fixed"
            THEN "substituted" ELSE @[v]]]

DecomposeWith(d, repr) ==
    IF \E v \in Vars : active(d, v) /\ -v \in Scc(d, v) THEN learn_empty_clause(d)
    ELSE IF Substituted(d, repr) = {} THEN d
    ELSE LET p == PushEquivalences(d, repr)
             s == SubstituteAll(SubstituteAll(p, Sorted(d.irr), repr, FALSE),
                                Sorted(d.red), repr, TRUE)
         IN  mark_substituted(IF s.unsat THEN s ELSE propagate(s), Substituted(d, repr), repr)

decompose_round(d) == DecomposeWith(d, [l \in Lits |-> Repr(d, l)])

ProbeStart ==
    /\ work = Idle /\ "probe" \in opts
    /\ ~db.unsat
    /\ db' = propagate(db)
    /\ work' = IF db'.unsat THEN Idle ELSE Goto("decompose")
    /\ UNCHANGED <<original, frozen, tainted, opts>>

(* The order of the steps in Internal::probe.                              *)
AfterDecompose == CASE work.at = "decompose"      -> Goto("ternary")
                    [] work.at = "decomposethird" -> Goto("deduplicate")
                    [] work.at = "decomposeagain" -> Idle

(* One round of decompose, which may be repeated if it succeeds.           *)
Decompose ==
    /\ work.at \in {"decompose", "decomposethird", "decomposeagain"}
    /\ db' = decompose_round(db)
    /\ work' \in IF db'.unsat THEN {Idle} ELSE {work, AfterDecompose}
    /\ UNCHANGED <<original, frozen, tainted, opts>>

----------------------------------------------------------------------------
(* ternary.cpp                                                             *)

Unfixed(d, c) == \A l \in c : ~fixed(d, l)

(* hyper_ternary_resolve: the resolvent, {} if it is of no use.            *)
HyperTernary(c, pivot, e) == (c \ {pivot}) \cup (e \ {-pivot})
HyperTernaryUseful(d, r) ==
    /\ ~Tautology(r)
    /\ Cardinality(r) \in {2, 3}
    /\ ~\E e \in Clauses(d) : e \subseteq r /\ Cardinality(e) \in {2, 3} /\ Unfixed(d, e)

TernaryRedundant(r, cr, er) == Cardinality(r) = 3 \/ (cr /\ er)

MarkGarbageAs(d, c, redundant) ==
    IF redundant THEN mark_garbage_redundant(d, c) ELSE mark_garbage(d, c)

(* A binary resolvent subsumes both antecedents.                           *)
ternary_resolve(d, c, cr, e, er, r) ==
    LET n == new_clause(d, r, TernaryRedundant(r, cr, er))
    IN  IF Cardinality(r) = 2 THEN MarkGarbageAs(MarkGarbageAs(n, c, cr), e, er) ELSE n

Ternary ==
    /\ work = Goto("ternary")
    /\ \E cr, er \in BOOLEAN :
       \E c \in IF cr THEN db.red ELSE db.irr : \E e \in IF er THEN db.red ELSE db.irr :
       \E pivot \in c : \E r \in {HyperTernary(c, pivot, e)} :
          /\ Cardinality(c) = 3 /\ Cardinality(e) = 3 /\ -pivot \in e
          /\ Unfixed(db, c) /\ Unfixed(db, e) /\ active(db, pivot)
          /\ HyperTernaryUseful(db, r)
          /\ db' = ternary_resolve(db, c, cr, e, er, r)
    /\ UNCHANGED <<original, frozen, tainted, work, opts>>

(* Then decomposition if a binary clause was found, else deduplication.    *)
TernaryEnd ==
    /\ work = Goto("ternary")
    /\ db' = propagate(db)
    /\ work' \in IF db'.unsat THEN {Idle} ELSE {Goto("decomposethird"), Goto("deduplicate")}
    /\ UNCHANGED <<original, frozen, tainted, opts>>

----------------------------------------------------------------------------
(* deduplicate.cpp.  A redundant copy of an irredundant binary clause goes, *)
(* and {l, k}, {l, -k} give the unit l.                                     *)
HyperUnary(d, l) ==
    \E k \in Lits : {l, k} \in BinariesOf(d) /\ {l, -k} \in BinariesOf(d)

Deduplicate ==
    /\ work = Goto("deduplicate")
    /\ ~db.unsat
    /\ \/ /\ \E c \in db.irr \cap db.red : Cardinality(c) = 2
          /\ db' = [db EXCEPT !.red = {c \in @ : Cardinality(c) # 2 \/ c \notin db.irr}]
       \/ \E l \in Lits : /\ active(db, l) /\ HyperUnary(db, l)
                          /\ db' = propagate(assign_unit(db, l))
    /\ UNCHANGED <<original, frozen, tainted, work, opts>>

DeduplicateEnd ==
    /\ work = Goto("deduplicate")
    /\ work' = IF db.unsat THEN Idle ELSE Goto("probe")
    /\ UNCHANGED <<db, original, frozen, tainted, opts>>

----------------------------------------------------------------------------
(* probe.cpp.  The literals assigned by a probe p form a tree whose edges  *)
(* are binary clauses, among them the hyper binary resolvents; a dominator *)
(* of a set of literals is one from which all of them are reached.         *)
BinaryAfterUnits(d) == {Open(d, c) : c \in {e \in Clauses(d) : ~Satisfied(d, e)
                                                        /\ Cardinality(Open(d, e)) = 2}}
ProbeReach(d, p) ==
    LET B == BinaryAfterUnits(d)
        reach[i \in 0..Cardinality(Lits)] ==
          IF i = 0 THEN {p}
          ELSE LET q == reach[i - 1] IN q \cup {k \in Lits : \E j \in q : j # -k /\ {-j, k} \in B}
    IN  reach[Cardinality(Lits)]

(* The probes are roots of the binary implication graph.                   *)
Probes(d) == {p \in Lits : /\ active(d, p)
                           /\ \E c \in BinaryAfterUnits(d) : -p \in c
                           /\ \A c \in BinaryAfterUnits(d) : p \notin c}

(* Mutant: it is enough that one of the literals is reached.               *)
DominatorsOne(d, p, S) == {q \in ProbeReach(d, p) : S \cap ProbeReach(d, q) # {}}

Dominators(d, p, S) == {q \in ProbeReach(d, p) : S \subseteq ProbeReach(d, q)}

(* The clause reason forces k; its other open literals are false.          *)
HyperBinaryReasons(d, p, k) ==
    {c \in Clauses(d) : /\ k \in c /\ ~Satisfied(d, c) /\ Cardinality(Open(d, c)) > 2
                        /\ Neg(Open(d, c) \ {k}) \subseteq ProbeReach(d, p)}

(* The resolvent subsumes the reason if the dominator is one of its        *)
(* negated literals.                                                       *)
HyperBinaryContained(c, dom) == -dom \in c

hyper_binary_resolve(d, c, redundant, k, dom) ==
    LET contained == HyperBinaryContained(c, dom)
        n == new_clause(d, {-dom, k}, ~contained \/ redundant)
    IN  IF contained THEN MarkGarbageAs(n, c, redundant) ELSE n

HyperBinary ==
    /\ work = Goto("probe")
    /\ ~db.unsat
    /\ \E p \in Probes(db) : \E k \in Lits : \E c \in HyperBinaryReasons(db, p, k) :
       \E dom \in Dominators(db, p, Neg(Open(db, c) \ {k})) :
       \E r \in {s \in BOOLEAN : c \in IF s THEN db.red ELSE db.irr} :
          /\ active(db, k) /\ {k, -k} \cap ProbeReach(db, p) = {}
          /\ db' = hyper_binary_resolve(db, c, r, k, dom)
    /\ UNCHANGED <<original, frozen, tainted, work, opts>>

(* failed_literal: the negation of a dominator of the conflict is a unit.  *)
FailedLiteral ==
    /\ work = Goto("probe")
    /\ ~db.unsat
    /\ \E p \in Probes(db) : \E c \in Clauses(db) :
          /\ ~Satisfied(db, c) /\ Neg(Open(db, c)) \subseteq ProbeReach(db, p)
          /\ \E uip \in Dominators(db, p, Neg(Open(db, c))) :
                db' = propagate(assign_unit(db, -uip))
    /\ UNCHANGED <<original, frozen, tainted, work, opts>>

ProbeEnd ==
    /\ work = Goto("probe")
    /\ db' = IF db.unsat THEN db ELSE propagate(db)
    /\ work' = IF db'.unsat THEN Idle ELSE Goto("decomposeagain")
    /\ UNCHANGED <<original, frozen, tainted, opts>>
============================================================================
