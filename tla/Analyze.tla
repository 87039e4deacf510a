------------------------------ MODULE Analyze ------------------------------
(***************************************************************************)
(* Conflict analysis: the first unique implication point with on-the-fly   *)
(* strengthening, the shrinking and the minimization of the learned clause *)
(* and the LRAT chain that is put together on the way.  The flags of the   *)
(* variables and lrat_chain, unit_chain and clause are a record a:         *)
(*   seen, unit_seen : the variables seen above and at the root level      *)
(*   chain, units    : lrat_chain and unit_chain                           *)
(*   clause, open    : the literals of lower levels, the number of seen    *)
(*                     literals of the level of the conflict               *)
(*   count, early    : control[].seen                                      *)
(*   i, resolved, antecedent, conflict_size : the local variables          *)
(*   keep, removable, poison, added : flags of the minimization            *)
(***************************************************************************)
EXTENDS Trail

Infinity == 1000

Unseen(s) ==
    [seen |-> {}, unit_seen |-> {}, chain |-> <<>>, units |-> <<>>, clause |-> {}, open |-> 0,
     count |-> [n \in 1 .. level(s) |-> 0], early |-> [n \in 1 .. level(s) |-> Infinity],
     i |-> Len(s.trail) + 1, resolved |-> 0, antecedent |-> 0, conflict_size |-> 0,
     keep |-> {}, removable |-> {}, poison |-> {}, added |-> {}, ok |-> TRUE, mini |-> <<>>]

AtLevel(s, C, n) == {l \in C : Level(s, l) = n}

(* Every literal of clause k but uip, which may be 0.                      *)
analyze_reason(s, a, uip, k) ==
    LET rest == OthersIn(s, k, uip)
        roots == {l \in AtLevel(s, rest, 0) : Abs(l) \notin a.unit_seen}
        new == {l \in rest : Level(s, l) > 0 /\ Abs(l) \notin a.seen}
    IN [a EXCEPT !.chain = Append(@, s.cls[k].id),
                 !.units = @ \o UnitIds(s, roots),
                 !.unit_seen = @ \cup {Abs(l) : l \in roots},
                 !.seen = @ \cup {Abs(l) : l \in new},
                 !.open = @ + Cardinality(AtLevel(s, new, level(s))),
                 !.clause = @ \cup {l \in new : Level(s, l) < level(s)},
                 !.count = [n \in DOMAIN @ |-> @[n] + Cardinality(AtLevel(s, new, n))],
                 !.early = [n \in DOMAIN @ |->
                              Min({@[n]} \cup {Position(s, l) : l \in AtLevel(s, new, n)})],
                 !.antecedent = 1 + Cardinality({l \in rest : Level(s, l) > 0})]

----------------------------------------------------------------------------
(* Minimization.  lit is true; the answer is in ok, removable and poison   *)
(* remember it.                                                            *)
Remember(a, v) == IF a.ok THEN [a EXCEPT !.removable = @ \cup {v}]
                  ELSE [a EXCEPT !.poison = @ \cup {v}]

RECURSIVE minimize_literal(_, _, _, _)
minimize_literal(s, a, lit, depth) ==
    LET v == Abs(lit)
        n == s.lvl[v]
    IN IF n = 0 \/ v \in a.removable \cup a.keep THEN [a EXCEPT !.ok = TRUE]
       ELSE IF \/ s.rsn[v] = 0 \/ v \in a.poison \/ n = level(s)
               \/ depth = 0 /\ a.count[n] < 2
               \/ Position(s, lit) <= a.early[n]
            THEN [a EXCEPT !.ok = FALSE]
       ELSE Remember(FoldSet(LAMBDA other, c : IF c.ok THEN minimize_literal(s, c, -other, depth + 1)
                                               ELSE c,
                             [a EXCEPT !.ok = TRUE], OthersIn(s, s.rsn[v], lit)), v)

(* The identifiers that justify dropping a literal, in order.              *)
RECURSIVE calculate_minimize_chain(_, _, _)
calculate_minimize_chain(s, a, lit) ==
    LET v == Abs(lit) IN
    IF v \in a.keep \cup a.added THEN a
    ELSE IF s.lvl[v] = 0
         THEN IF v \in a.unit_seen THEN a
              ELSE [a EXCEPT !.unit_seen = @ \cup {v}, !.units = Append(@, s.unit[lit])]
    ELSE [FoldSet(LAMBDA other, c : calculate_minimize_chain(s, c, -other),
                  [a EXCEPT !.added = @ \cup {v}], OthersIn(s, s.rsn[v], lit))
            EXCEPT !.mini = Append(@, s.cls[s.rsn[v]].id)]

(* One literal of a reason while a block of level n is shrunken: it joins  *)
(* the variables of the block, is dropped, or ends the attempt.            *)
Minimized(c, b) == [c EXCEPT !.a = b, !.failed = ~ b.ok]

shrink_literal(s, c, lit, n) ==
    LET v == Abs(lit) IN
    IF Level(s, lit) = 0 \/ v \in c.block THEN c
    ELSE IF Level(s, lit) = n
         THEN [c EXCEPT !.block = @ \cup {v}, !.open = @ \cup {v}, !.a.poison = @ \ {v}]
    ELSE IF v \in c.a.removable THEN c
    ELSE Minimized(c, minimize_literal(s, c.a, -lit, 1))

LastOf(s, V) == CHOOSE v \in V : \A w \in V : Position(s, w) <= Position(s, v)

RECURSIVE shrink_along(_, _, _)
shrink_along(s, c, n) ==
    LET uip == LastOf(s, c.open)
        lit == s.trail[Position(s, uip)]
        rest == [c EXCEPT !.open = @ \ {uip}, !.uip = lit]
    IN IF c.failed THEN c
       ELSE IF c.open = {uip} THEN rest
       ELSE shrink_along(s, FoldSet(LAMBDA other, e : IF e.failed THEN e
                                                      ELSE shrink_literal(s, e, other, n),
                                    rest, OthersIn(s, s.rsn[uip], lit)), n)

(* A block: the literals of one level.                                     *)
KeptOrNot(a, lit) == IF a.ok THEN [a EXCEPT !.clause = @ \ {lit}]
                     ELSE [a EXCEPT !.keep = @ \cup {Abs(lit)}]

RECURSIVE minimize_block(_, _, _)
minimize_block(s, a, B) ==
    IF B = {} THEN a
    ELSE LET lit == CHOOSE l \in B : \A m \in B : Position(s, l) <= Position(s, m)
         IN minimize_block(s, KeptOrNot(minimize_literal(s, a, -lit, 0), lit), B \ {lit})

shrunken_block(s, c, B, n) ==
    LET uip == Abs(c.uip) IN
    IF c.failed THEN minimize_block(s, c.a, B)
    ELSE [c.a EXCEPT !.clause = (@ \ B) \cup {-c.uip}, !.seen = @ \cup {uip},
                     !.keep = @ \cup {uip}, !.removable = @ \cup c.block,
                     !.count[n] = 1, !.early[n] = Position(s, uip)]

minimize_and_shrink_block(s, a, n) ==
    LET B == AtLevel(s, a.clause, n)
        vs == {Abs(l) : l \in B}
    IN IF Cardinality(B) = 1 THEN [a EXCEPT !.keep = @ \cup vs]
       ELSE shrunken_block(s, shrink_along(s, [a |-> [a EXCEPT !.poison = @ \ vs], block |-> vs,
                                               open |-> vs, uip |-> 0, failed |-> FALSE], n),
                           B, n)

calculate_minimize_chains(s, a, dropped) ==
    LET Later(k, l) == IF Level(s, k) = Level(s, l) THEN Position(s, k) > Position(s, l)
                       ELSE Level(s, k) > Level(s, l)
    IN FoldLeft(LAMBDA c, l : calculate_minimize_chain(s, c, -l), a, SetToSortSeq(dropped, Later))

(* C are the literals of the clause before.                                *)
WithChain(s, a, C) == calculate_minimize_chains(s, a, C \ a.clause)

shrink_and_minimize_clause(s, a) ==
    WithChain(s, FoldLeft(LAMBDA c, n : minimize_and_shrink_block(s, c, n), a,
                          SetToSortSeq({Level(s, l) : l \in a.clause}, <)), a.clause)

----------------------------------------------------------------------------
(* The level to go back to: the trail is reused up to the level of the     *)
(* best variable above jump, which is any that is assigned there.          *)
reuse_level(s, jump, best) ==
    CHOOSE res \in jump .. level(s) - 1 :
        /\ res = level(s) - 1 \/ s.control[res + 1].trail > best
        /\ \A n \in jump .. res - 1 : s.control[n + 1].trail <= best

determine_actual_backtrack_level(s, jump) ==
    IF jump >= level(s) - 1 \/ jump < Len(s.assumptions) THEN {jump}
    ELSE {reuse_level(s, jump, best) : best \in s.control[jump + 1].trail .. Len(s.trail) - 1}

(* The clause learned last subsumes other learned clauses.                 *)
eagerly_subsume_recently_learned_clauses(s, k) ==
    FoldLeft(mark_garbage, s,
             SelectSeq([d \in DOMAIN s.cls |-> d],
                       LAMBDA d : d # k /\ s.cls[d].redundant /\ ~ s.cls[d].garbage
                                  /\ s.cls[k].lits \subseteq s.cls[d].lits))

(* Mutant: the chain of the minimized literals is forgotten.               *)
FinalChainUnminimized(a) == Reverse(a.units) \o Reverse(a.chain)

(* lrat_chain is built backwards.                                          *)
FinalChain(a) == Reverse(a.units) \o a.mini \o Reverse(a.chain)

(* The driving clause is derived before the solver backtracks, with a unit *)
(* search_assign derives it afterwards.                                    *)
learn_unit(s, a, uip) ==
    {search_assign(backtrack(s, n), -uip, 0, 0, FinalChain(a)) :
        n \in determine_actual_backtrack_level(s, 0)}

learn_clause(s, a, uip) ==
    LET C == a.clause \cup {-uip}
        id == s.clause_id + 1
        k == Len(s.cls) + 1
        jump == HighestLevel(s, a.clause)
        t == new_clause(Emit([s EXCEPT !.clause_id = id], Trace("derived", id, C, FinalChain(a))),
                        id, C, TRUE)
    IN {eagerly_subsume_recently_learned_clauses(
            search_assign(backtrack(t, n), -uip, jump, k, <<>>), k) :
           n \in determine_actual_backtrack_level(s, jump)}

Learn(s, a, uip) ==
    IF a.clause = {} THEN learn_unit(s, a, uip)
    ELSE learn_clause(s, shrink_and_minimize_clause(s, a), uip)

----------------------------------------------------------------------------
(* The reason k of uip, with what has been resolved so far, implies k      *)
(* without uip: on_the_fly_strengthen and, if the conflict is then          *)
(* subsumed, otfs_subsume_clause.                                          *)
on_the_fly_strengthen(s, a, uip, k) ==
    replace_clause(s, k, {l \in s.cls[k].lits : Level(s, l) > 0 /\ l # uip},
                   a.units \o Reverse(a.chain))

otfs_subsume_clause(s, subsuming, subsumed) ==
    LET redundant == s.cls[subsumed].redundant IN
    mark_garbage([s EXCEPT !.cls[subsuming].redundant = @ /\ redundant], subsumed)

Resolvent(a) == Cardinality(a.clause) + a.open

otfs(s, a, uip, k) ==
    LET t == on_the_fly_strengthen(s, a, uip, k)
        subsumes == a.resolved = 1 /\ Resolvent(a) < a.conflict_size
    IN [IF subsumes THEN otfs_subsume_clause(t, k, s.conflict) ELSE t EXCEPT !.conflict = k]

(* With one literal left at the level of the conflict the clause drives.   *)
otfs_force(s) ==
    LET k == s.conflict
        forced == CHOOSE l \in s.cls[k].lits : Level(s, l) = level(s)
        jump == assignment_level(s, forced, k)
    IN {search_assign([backtrack(s, n) EXCEPT !.conflict = 0], forced, jump, k, <<>>) :
           n \in determine_actual_backtrack_level(s, jump)}

Fresh(a) == [a EXCEPT !.resolved = 0, !.conflict_size = a.antecedent - 1]
Restarted(s, a) ==
    Fresh(analyze_reason(s, [a EXCEPT !.seen = {}, !.unit_seen = {}, !.chain = <<>>,
                                      !.units = <<>>, !.clause = {}, !.open = 0],
                         0, s.conflict))

(* Going down the trail to the next seen literal of the level.             *)
RECURSIVE resolve(_, _), resolved_with(_, _, _)
resolve(s, a) ==
    LET i == Max({j \in 1 .. a.i - 1 : /\ Abs(s.trail[j]) \in a.seen
                                       /\ Level(s, s.trail[j]) = level(s)})
        uip == s.trail[i]
    IN IF a.open = 1 THEN Learn([s EXCEPT !.conflict = 0], a, uip)
       ELSE resolved_with(s, analyze_reason(s, [a EXCEPT !.i = i, !.open = @ - 1,
                                                         !.resolved = @ + 1],
                                            uip, Reason(s, uip)), uip)

resolve_again(s, a) == resolve(s, Restarted(s, a))

resolved_with(s, a, uip) ==
    IF ~ (a.antecedent > 2 /\ Resolvent(a) < a.antecedent) THEN resolve(s, a)
    ELSE IF a.open = 1 THEN otfs_force(otfs(s, a, uip, Reason(s, uip)))
    ELSE resolve_again(otfs(s, a, uip, Reason(s, uip)), a)

----------------------------------------------------------------------------
(* All the external propagations the conflict depends on are explained,    *)
(* and then, upwards, the levels of all these literals made exact.         *)
Explained(s, seen, v) ==
    [s |-> s, seen |-> IF s.lvl[v] > 0 /\ s.rsn[v] # 0 THEN seen \cup {v} ELSE seen]

explain_reason(c, lit, k) ==
    FoldSet(LAMBDA other, d :
                LET v == Abs(other) IN
                IF v \in d.seen \/ d.s.lvl[v] = 0 THEN d ELSE Explained(Explain(d.s, v), d.seen, v),
            c, OthersIn(c.s, k, lit))

fix_level(s, lit) ==
    LET k == Reason(s, lit)
        real_level == assignment_level(s, lit, k)
    IN IF k = 0 \/ Level(s, lit) = 0 THEN s
       ELSE IF real_level = 0
            THEN [learn_unit_clause(s, lit, build_chain_for_units(s, lit, k))
                    EXCEPT !.rsn[Abs(lit)] = 0, !.lvl[Abs(lit)] = 0]
       ELSE [s EXCEPT !.lvl[Abs(lit)] = real_level]

fix_levels(c) == FoldLeft(LAMBDA s, lit : IF Abs(lit) \in c.seen THEN fix_level(s, lit) ELSE s,
                          c.s, c.s.trail)

explain_external_propagations(s) ==
    fix_levels(FoldLeft(LAMBDA c, lit : IF Abs(lit) \in c.seen /\ Reason(c.s, lit) # 0
                                        THEN explain_reason(c, lit, Reason(c.s, lit)) ELSE c,
                        explain_reason([s |-> s, seen |-> {}], 0, s.conflict),
                        Reverse(s.trail)))

(* A single literal of the highest level is forced by the conflict itself. *)
HighestIn(s, C) == AtLevel(s, C, HighestLevel(s, C))

Analyzed(s) == resolve(s, Restarted(s, Unseen(s)))

analyze_conflict(s) ==
    LET k == s.conflict
        C == s.cls[k].lits
        conflict_level == HighestLevel(s, C)
    IN IF conflict_level > 0 /\ Cardinality(HighestIn(s, C)) = 1
       THEN {Imply([backtrack(s, conflict_level - 1) EXCEPT !.conflict = 0],
                   CHOOSE l \in HighestIn(s, C) : TRUE, k)}
       ELSE IF conflict_level = 0 THEN {learn_empty_clause(backtrack(s, 0))}
       ELSE Analyzed(backtrack(s, conflict_level))

analyze(s) == analyze_conflict(explain_external_propagations(s))
=============================================================================
