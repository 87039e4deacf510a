------------------------------- MODULE Trail -------------------------------
(***************************************************************************)
(* The assignment and the clauses of CaDiCaL's search, a record s, and the *)
(* functions that change them.  Each returns the new record; what it       *)
(* traces into the proof is appended to s.traced.                          *)
(*   trail, lvl, rsn, control, propagated : the assigned literals in order *)
(*     (level 0 and reason 0 also stand for unassigned), the levels with   *)
(*     their decision and the height of the trail below it                 *)
(*   cls, conflict : the clauses, named by their positions; a clause that  *)
(*     is gone has no literal                                              *)
(*   ext : the clause by which the propagator has assigned a variable, as  *)
(*     long as the reason is external_reason                               *)
(*   unit, clause_id, unsat, conflict_id : the identifiers in the proof    *)
(* The watches are abstracted: a clause is found when it is unit or false, *)
(* at the latest with the last of its false literals.                      *)
(***************************************************************************)
EXTENDS LratChecker, SequencesExt

external_reason == -1

Abs(l) == IF l < 0 THEN -l ELSE l
True(s) == ToSet(s.trail)
level(s) == Len(s.control)
Level(s, l) == s.lvl[Abs(l)]
Reason(s, l) == s.rsn[Abs(l)]
Position(s, l) == CHOOSE i \in DOMAIN s.trail : Abs(s.trail[i]) = Abs(l)
Value(s, l) == IF l \in True(s) THEN 1 ELSE IF -l \in True(s) THEN -1 ELSE 0
fixed(s, l) == IF Level(s, l) = 0 THEN Value(s, l) ELSE 0
HighestLevel(s, C) == Max({0} \cup {Level(s, l) : l \in C})
OthersIn(s, k, l) == s.cls[k].lits \ {l}

Emit(s, t) == [s EXCEPT !.traced = Append(@, t)]

(* The identifiers of the units that falsify C.                            *)
UnitIds(s, C) == FoldSet(LAMBDA l, ids : Append(ids, s.unit[-l]), <<>>, C)

----------------------------------------------------------------------------
learn_unit_clause(s, lit, chain) ==
    Emit([s EXCEPT !.clause_id = @ + 1, !.unit[lit] = s.clause_id + 1],
         Trace("derived", s.clause_id + 1, {lit}, chain))

build_chain_for_empty(s) ==
    Append(UnitIds(s, s.cls[s.conflict].lits), s.cls[s.conflict].id)

conclude_empty(s, id) ==
    [s EXCEPT !.unsat = TRUE, !.conflict_id = id, !.marked_failed = TRUE,
              !.conclusion = Append(@, id), !.conflict = 0]

learn_empty_clause(s) ==
    LET id == s.clause_id + 1 IN
    Emit([conclude_empty(s, id) EXCEPT !.clause_id = id],
         Trace("derived", id, {}, build_chain_for_empty(s)))

(* lit is implied by clause k, at the level of the other literals.         *)
assignment_level(s, lit, k) == HighestLevel(s, OthersIn(s, k, lit))

build_chain_for_units(s, lit, k) ==
    Append(UnitIds(s, OthersIn(s, k, lit)), s.cls[k].id)

(* search_assign with reason k at level lev, which learns lit when it is   *)
(* the root level; chain is then lrat_chain.                               *)
search_assign(s, lit, lev, k, chain) ==
    LET t == [s EXCEPT !.trail = Append(@, lit), !.lvl[Abs(lit)] = lev,
                       !.rsn[Abs(lit)] = IF lev = 0 THEN 0 ELSE k] IN
    IF lev = 0 THEN learn_unit_clause(t, lit, chain) ELSE t

Imply(s, lit, k) ==
    search_assign(s, lit, assignment_level(s, lit, k), k, build_chain_for_units(s, lit, k))

new_trail_level(s, lit) ==
    [s EXCEPT !.control = Append(@, [decision |-> lit, trail |-> Len(s.trail)])]

search_assume_decision(s, lit) ==
    LET t == new_trail_level(s, lit) IN search_assign(t, lit, level(t), 0, <<>>)

(* Literals above the cut that were assigned out of order stay.            *)
backtrack(s, new_level) ==
    IF new_level >= level(s) THEN s ELSE
    LET assigned == s.control[new_level + 1].trail
        above == SubSeq(s.trail, assigned + 1, Len(s.trail))
        gone == {Abs(l) : l \in {m \in ToSet(above) : Level(s, m) > new_level}}
    IN [s EXCEPT !.trail = SubSeq(@, 1, assigned)
                           \o SelectSeq(above, LAMBDA l : Abs(l) \notin gone),
                 !.lvl = [v \in Vars |-> IF v \in gone THEN 0 ELSE @[v]],
                 !.rsn = [v \in Vars |-> IF v \in gone THEN 0 ELSE @[v]],
                 !.ext = [v \in Vars |-> IF v \in gone THEN {} ELSE @[v]],
                 !.control = SubSeq(@, 1, new_level),
                 !.propagated = IF @ > assigned THEN assigned ELSE @]

----------------------------------------------------------------------------
(* propagate: the states it can end in.  p is the literal that is          *)
(* propagated, Found the clauses it makes unit or false; one of them may   *)
(* wait for a literal of it that is still to be propagated.                *)
Found(s, p) ==
    {k \in DOMAIN s.cls :
        LET C == s.cls[k].lits IN
        /\ -p \in C
        /\ s.cls[k].garbage => Cardinality(C) = 2
        /\ C \cap True(s) = {}
        /\ Cardinality({l \in C : -l \notin True(s)}) <= 1}

Waiting(s, k) ==
    \E i \in s.propagated + 2 .. Len(s.trail) : -s.trail[i] \in s.cls[k].lits

visit(s, k) ==
    LET open == {l \in s.cls[k].lits : -l \notin True(s)} IN
    IF open = {} THEN [s EXCEPT !.conflict = k, !.propagated = @ + 1]
    ELSE Imply(s, CHOOSE l \in open : TRUE, k)

propagate_literal(s, found) ==
    {visit(s, k) : k \in found}
    \cup {[s EXCEPT !.propagated = @ + 1] : x \in {k \in {0} : \A j \in found : Waiting(s, j)}}

RECURSIVE propagate(_)
propagate(s) ==
    IF s.conflict # 0 \/ s.propagated = Len(s.trail) THEN {s}
    ELSE UNION {propagate(t) : t \in propagate_literal(s, Found(s, s.trail[s.propagated + 1]))}

----------------------------------------------------------------------------
new_clause(s, id, C, red) ==
    [s EXCEPT !.cls = Append(@, [id |-> id, lits |-> C, redundant |-> red, garbage |-> FALSE])]

delete_clause_of(s, k) ==
    Emit([s EXCEPT !.cls[k] = [id |-> 0, lits |-> {}, redundant |-> FALSE, garbage |-> TRUE]],
         Trace("delete", s.cls[k].id, s.cls[k].lits, <<>>))

(* The deletion of a binary clause waits until it is collected, since it   *)
(* is still used in propagation.                                           *)
mark_garbage(s, k) ==
    IF Cardinality(s.cls[k].lits) = 2 THEN [s EXCEPT !.cls[k].garbage = TRUE]
    ELSE delete_clause_of(s, k)

(* A clause with other literals, that follows by chain, in place of k.     *)
replace_clause(s, k, C, chain) ==
    LET id == s.clause_id + 1 IN
    Emit(Emit([s EXCEPT !.clause_id = id, !.cls[k].lits = C, !.cls[k].id = id],
              Trace("derived", id, C, chain)),
         Trace("delete", s.cls[k].id, s.cls[k].lits, <<>>))

assign_original_unit(s, id, lit) ==
    LET t == [s EXCEPT !.trail = Append(@, lit), !.lvl[Abs(lit)] = 0,
                       !.rsn[Abs(lit)] = 0, !.unit[lit] = id] IN
    IF level(t) > 0 THEN {t}
    ELSE {IF u.conflict # 0 THEN learn_empty_clause(u) ELSE u : u \in propagate(t)}

----------------------------------------------------------------------------
(* A clause is added, by the user or by the propagator while the search    *)
(* goes on: what root level literals leave of it may be unit, false or     *)
(* unit under the present assignment.  no_backtrack is for the reason of a *)
(* literal that the propagator has assigned.                               *)
Open(s, C) == {l \in C : -l \notin True(s)}
SecondLevel(s, C) ==
    LET l == CHOOSE m \in C : Level(s, m) = HighestLevel(s, C) IN HighestLevel(s, C \ {l})

handle_external_clause(s, k, from_propagator, no_backtrack) ==
    LET C == s.cls[k].lits IN
    IF level(s) = 0 \/ no_backtrack THEN s
    ELSE IF Open(s, C) = {} /\ from_propagator THEN [s EXCEPT !.conflict = k]
    ELSE IF Open(s, C) = {} THEN backtrack(s, SecondLevel(s, C) - 1)
    ELSE IF \E l \in C \ True(s) : Open(s, C) = {l}
         THEN Imply(s, CHOOSE l \in Open(s, C) : TRUE, k)
    ELSE s

add_unit(s, id, lit, no_backtrack) ==
    IF no_backtrack
    THEN {[s EXCEPT !.lvl[Abs(lit)] = 0, !.rsn[Abs(lit)] = 0, !.unit[lit] = id]}
    ELSE assign_original_unit(backtrack(s, 0), id, lit)

add_simplified_clause(s, id, C, from_propagator, no_backtrack) ==
    IF C = {} THEN {conclude_empty(s, id)}
    ELSE IF Cardinality(C) = 1 THEN add_unit(s, id, CHOOSE l \in C : TRUE, no_backtrack)
    ELSE {handle_external_clause(new_clause(s, id, C, FALSE), Len(s.cls) + 1,
                                 from_propagator, no_backtrack)}

trace_simplified(s, id, original_lits, C) ==
    Emit(Emit([s EXCEPT !.clause_id = id + 1],
              Trace("derived", id + 1, C, Append(UnitIds(s, original_lits \ C), id))),
         Trace("delete", id, original_lits, <<>>))

add_new_original_clause(s, original_lits, from_propagator, no_backtrack) ==
    LET id == s.clause_id + 1
        C == {l \in original_lits : fixed(s, l) = 0}
        t == Emit([s EXCEPT !.clause_id = id], Trace("original", id, original_lits, <<>>))
    IN IF s.unsat \/ Tautological(original_lits) \/ \E l \in original_lits : fixed(s, l) > 0
       THEN {Emit(t, Trace("delete", id, original_lits, <<>>))}
       ELSE IF C = original_lits
       THEN add_simplified_clause(t, id, C, from_propagator, no_backtrack)
       ELSE add_simplified_clause(trace_simplified(t, id, original_lits, C), id + 1, C,
                                  from_propagator, no_backtrack)

(* learn_external_reason_clause: the propagator gives the reason of v.     *)
learn_external_reason_clause(s, v, no_backtrack) ==
    {[t EXCEPT !.ext[v] = {},
               !.rsn[v] = IF Len(t.cls) > Len(s.cls) THEN Len(t.cls) ELSE 0] :
        t \in add_new_original_clause(s, s.ext[v], TRUE, no_backtrack)}

(* The same in the middle of an analysis, where it is the only change.     *)
Explain(s, v) ==
    IF s.rsn[v] # external_reason THEN s
    ELSE CHOOSE t \in learn_external_reason_clause(s, v, TRUE) : TRUE
=============================================================================
