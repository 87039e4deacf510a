------------------------------- MODULE MinCheck -------------------------------
(***************************************************************************)
(* The minimality check: CommonInterface::checkMin, MinCheck_V2 and        *)
(* MinCheckCommon.  Given the domains of the entries of a table, partial   *)
(* or full, it looks for a permutation that renames the table to a smaller *)
(* one and throws a clause that cuts the table off.                        *)
(*                                                                         *)
(* The recursion of checkMinimality is explicit: a frame of the stack      *)
(* holds its arguments, the options of row r still to be filtered and the  *)
(* partial permutations that passed the filter and are still to be         *)
(* explored.  An option that is already fixed is not copied: `shared` says *)
(* that a frame's permutation is the object initialPart itself, which      *)
(* survives the check.                                                     *)
(*                                                                         *)
(* Of the table only the domains are kept: an entry is defined when its    *)
(* domain has one member, and a literal is false when its value has left   *)
(* the domain, as after complete unit propagation (Propagator).            *)
(***************************************************************************)
EXTENDS PartialPerm, SequencesExt

CONSTANTS
  Settings,     \* the settings to check: records of type Setting
  Doms          \* the domains to check: pairs of a diagonal and a table of domains

NoDiagonal == <<>>      \* diagPart is false

(* The diagonal and the command line options.                              *)
Setting == [diag : [Val -> Val] \cup {NoDiagonal}, useBit : BOOLEAN,
            propagateMincheck : BOOLEAN, oldBreakingClauses : BOOLEAN,
            smallerEncoding : BOOLEAN, maxMC : Nat, maxDepth : Nat]

ASSUME SettingsAssumption ==
  /\ Settings \subseteq Setting
  /\ \A s \in Settings :
       /\ s.smallerEncoding => s.diag # NoDiagonal
       /\ \E x \in Doms : x[1] = s.diag
  /\ \A x \in Doms : x[2] \in [Val -> [Val -> SUBSET Val]]

VARIABLES
  set,          \* the setting of this search
  diagIsId,     \* the constructor's flag
  below,        \* whether part[-1] of the diagonal's cycles is positive
  initialPart,  \* the permutation every check starts from
  dom,          \* the domains of the table being checked
  final,        \* the limits do not apply
  its,          \* calls of checkMinimality so far
  stack,        \* the activations of checkMinimality
  result,       \* "idle", "running", or how the check ended
  clause        \* the clause thrown: literals <<row, column, value, sign>>

vars == <<set, diagIsId, below, initialPart, dom, final, its, stack, result, clause>>

diagPart == set.diag # NoDiagonal
Starts == [d \in {s.diag : s \in Settings} \ {NoDiagonal} |-> CycleStarts(d)]
CycStarts == IF diagPart THEN Starts[set.diag] ELSE {}
InitialPart(s) ==
  IF s.diag = NoDiagonal THEN pperm_plain(Identity)
  ELSE IF s.useBit THEN pperm_bit(s.diag) ELSE pperm_plain(s.diag)

Single(r, c) == Cardinality(dom[r][c]) = 1
minog(r, c) == Min(dom[r][c])
FixAndPropagate(p, i, j) == fixAndPropagate(p, i, j, CycStarts, below, diagIsId)

(* Mutant: the permutation is used as it is.                               *)
ExtendPermNot(p) == p

ExtendPerm(p) == extendPerm(p, set.useBit, CycStarts, below, diagIsId)
-----------------------------------------------------------------------------
(* addClauses.  p is a permutation in [Val -> Val]; a result is either     *)
(* "none" (the call returned) or a clause thrown.                          *)
Returned == [what |-> "none", clause |-> {}]
Thrown(c) == [what |-> "clause", clause |-> c]
Undefined == [what |-> "undefined", clause |-> {}]

IsPerm(p) == \A x \in Val : \E y \in Val : p[y] = x
Inv(p) == [v \in Val |-> CHOOSE x \in Val : p[x] = v]

(* The value of the diagonal in row r, which is never a literal.           *)
OnDiag(r, v) == diagPart /\ v = set.diag[r]

(* Mutant: the entries before (r, c) in its own row are forgotten.         *)
EntriesBeforeRow(r, c) == {e \in Val \X Val : e[1] < r /\ (diagPart => e[1] # e[2])}

(* The entries before (r, c), row by row.  The jump at (r, c) comes after  *)
(* the test that skips the diagonal, so that it is missed on the diagonal. *)
EntriesBefore(r, c) ==
  {e \in Val \X Val :
     /\ diagPart => e[1] # e[2]
     /\ e[1] < r \/ (e[1] = r /\ (e[2] < c \/ (diagPart /\ r = c)))}

(* The preimages of the values entry (p(r), p(c)) can still have.          *)
Preimages(p, r, c) == {Inv(p)[v] : v \in dom[p[r]][p[c]]}

(* Literals for values that have left a domain.                            *)
GoneBelow(r, c, m) ==
  {<<r, c, i>> : i \in {j \in Val : j < m /\ ~OnDiag(r, j) /\ j \notin dom[r][c]}}
GoneImagesAbove(p, r, c, m) ==
  {<<p[r], p[c], p[i]>> :
     i \in {j \in Val : /\ j > m
                        /\ ~OnDiag(p[r], p[j])
                        /\ p[j] \notin dom[p[r]][p[c]]}}

(* Why an earlier entry of the renamed table is not larger.                *)
NotLarger(p, r, c) ==
  IF p[r] # r \/ p[c] # c
  THEN GoneBelow(r, c, Max(Preimages(p, r, c)))
         \cup GoneImagesAbove(p, r, c, minog(r, c))
  ELSE {<<r, c, i>> : i \in {j \in Val : /\ Inv(p)[j] > j
                                         /\ ~OnDiag(r, j)
                                         /\ j \notin dom[r][c]}}

(* addToClause(.., true): the other values of the entry instead of the     *)
(* negated one, which leaves the other entries of the row.                 *)
Negated(lits, r, c, v) ==
  (lits \cup {<<r, c, i>> : i \in {j \in Val \ {v} :
                set.smallerEncoding => j # set.diag[r]}})
    \ {<<r, i, v>> : i \in {j \in Val \ {c} :
                set.smallerEncoding => j # set.diag[c]}}

(* Mutant: an entry becomes a negative literal one value too early.        *)
toClauseEarly(lits) ==
  UNION {LET open == {v \in Val : /\ <<e[1], e[2], v>> \notin lits
                                  /\ set.smallerEncoding => v # set.diag[e[1]]}
             in == {v \in Val : <<e[1], e[2], v>> \in lits}
         IN IF Cardinality(in) = (IF set.smallerEncoding THEN N - 3 ELSE N - 2)
            THEN {<<e[1], e[2], v, FALSE>> : v \in open}
            ELSE {<<e[1], e[2], v, TRUE>> : v \in in} : e \in Val \X Val}

(* toClause: an entry with all its values but one becomes the negative     *)
(* literal of that one.                                                    *)
toClause(lits) ==
  UNION {LET open == {v \in Val : /\ <<e[1], e[2], v>> \notin lits
                                  /\ set.smallerEncoding => v # set.diag[e[1]]}
             in == {v \in Val : <<e[1], e[2], v>> \in lits}
         IN IF Cardinality(in) = (IF set.smallerEncoding THEN N - 2 ELSE N - 1)
            THEN {<<e[1], e[2], v, FALSE>> : v \in open}
            ELSE {<<e[1], e[2], v, TRUE>> : v \in in} : e \in Val \X Val}

(* The shorter clauses.  p(i) is the value of entry (p(r), p(c)) with      *)
(* preimage i; pre holds the preimages still possible.                     *)
addClausesShort(p, r, c) ==
  LET lits == UNION {NotLarger(p, e[1], e[2]) : e \in EntriesBefore(r, c)}
      og == minog(r, c)
      pre == Preimages(p, r, c)
      bigger == {v \in dom[r][c] : v > Max(pre)}
      falling == {i \in pre : i < p[i]}
  IN CASE Max(pre) < og ->
            Thrown(toClause(lits \cup GoneBelow(r, c, og)
                                 \cup GoneImagesAbove(p, r, c, Max(pre))))
       [] Max(pre) >= og /\ Cardinality(pre) = 1 ->
            IF bigger = {} THEN Returned
            ELSE Thrown(toClause(
                   Negated(lits \cup GoneImagesAbove(p, r, c, Max(pre)),
                           r, c, Min(bigger))))
       [] Max(pre) >= og /\ Cardinality(pre) > 1 /\ ~Single(r, c)
            /\ p[r] = r /\ p[c] = c ->
            IF falling = {} THEN Returned
            ELSE Thrown(toClause(Negated(lits, r, c, p[Min(falling)])))
       [] OTHER ->
            IF Min(pre) >= og THEN Returned
            ELSE Thrown(toClause(Negated(lits \cup GoneBelow(r, c, og),
                                         p[r], p[c], p[Min(pre)])))

(* The older clauses (--oldBreaking): a literal for every entry that is    *)
(* defined and every image that is gone.                                   *)
OldLits(p, r, c, above) ==
  LET vals == {i \in Val : /\ i > above
                           /\ ~OnDiag(r, i)
                           /\ r # p[r] \/ c # p[c] \/ i # p[i]}
  IN {<<r, c, i, FALSE>> : i \in {j \in vals : dom[r][c] = {j}}}
       \cup {<<p[r], p[c], p[i], TRUE>> :
               i \in {j \in vals : p[j] \notin dom[p[r]][p[c]]}}

addClausesOld(p, r, c) ==
  LET og == minog(r, c)
      pre == Preimages(p, r, c)
      falling == {i \in pre : i < p[i]}
      lits == (UNION {OldLits(p, e[1], e[2], -1) : e \in EntriesBefore(r, c)})
                \cup (IF Single(r, c) /\ ~(diagPart /\ r = c)
                      THEN OldLits(p, r, c, og) ELSE {})
      notOg == {<<r, c, og, FALSE>>}
      notImage(i) == {<<p[r], p[c], p[i], FALSE>>}
      gone == {<<r, c, i, TRUE>> : i \in {j \in Val \ dom[r][c] : ~OnDiag(r, j)}}
  IN CASE Single(r, c) /\ Cardinality(pre) = 1 ->
            Thrown(lits \cup notOg \cup notImage(Min(pre)))
       [] ~Single(r, c) /\ Cardinality(pre) = 1 ->
            IF og > Min(pre) THEN Thrown(lits \cup notOg \cup notImage(Min(pre)))
            ELSE Returned
       [] Single(r, c) /\ Cardinality(pre) > 1 ->
            IF Min(pre) < og THEN Thrown(lits \cup notOg \cup notImage(Min(pre)))
            ELSE Returned
       [] ~Single(r, c) /\ Cardinality(pre) > 1 /\ p[r] = r /\ p[c] = c ->
            IF falling # {} THEN Thrown(lits \cup notImage(Min(falling)))
            ELSE Returned
       [] OTHER ->
            IF Min(pre) < og THEN Thrown(lits \cup gone \cup notImage(Min(pre)))
            ELSE Returned

addClauses(p, r, c) ==
  IF ~IsPerm(p) THEN Undefined
  ELSE IF set.oldBreakingClauses THEN addClausesOld(p, r, c)
  ELSE addClausesShort(p, r, c)

(* extendPerm, getPerm and addClauses for entry (0, r).                    *)
Break(p, r) == addClauses(getPerm(ExtendPerm(p)), 0, r)
-----------------------------------------------------------------------------
(* filterOptions, for one option of row r.  The result says whether the    *)
(* option is kept, whether the loop over the options ends here, what       *)
(* addClauses did, and what the permutation object holds afterwards.       *)
Filtered(p, keep, stop, res) == [perm |-> p, keep |-> keep, stop |-> stop, res |-> res]

(* The three-way comparison: the preimage m of the renamed entry against   *)
(* the original one; cand is the permutation with that preimage fixed.     *)
Compare(p, cand, m, r, equalKept, stop) ==
  LET eq == m = minog(0, r)
  IN IF m < minog(0, r) \/ (eq /\ ~equalKept /\ set.propagateMincheck)
     THEN Filtered(ExtendPerm(cand), FALSE, stop, Break(cand, r))
     ELSE IF eq /\ equalKept THEN Filtered(cand, TRUE, stop, Returned)
     ELSE Filtered(p, FALSE, stop, Returned)

(* The renamed entry is known.                                             *)
FilterKnown(p, pv, r) ==
  LET inv == invPermOf(p, pv)
      m == IF inv # None THEN inv ELSE Min(invOptions(p, pv))
      cand == IF inv # None THEN p ELSE FixAndPropagate(p, m, pv).perm
  IN Compare(p, cand, m, r, Single(0, r), FALSE)

(* It is not known, and row and column keep their names: every value that  *)
(* a smaller one can be renamed to is tried, on the same object.           *)
FilterUnmoved(p, r) ==
  LET vals == Ascending(dom[0][r])
      after[k \in 0..Len(vals)] ==
        IF k = 0 THEN Filtered(p, FALSE, TRUE, Returned)
        ELSE LET prev == after[k - 1]
                 iopt == invOptions(prev.perm, vals[k])
                 cand == IF Cardinality(iopt) = 1 THEN prev.perm
                         ELSE FixAndPropagate(prev.perm, Min(iopt), vals[k]).perm
             IN IF prev.res.what # "none" \/ Min(iopt) >= vals[k] THEN prev
                ELSE Filtered(ExtendPerm(cand), FALSE, TRUE, Break(cand, r))
  IN after[Len(vals)]

(* maxel and maxi: the greatest preimage, and the value that raised it     *)
(* last while its own preimage was open.                                   *)
Greatest(p, vals) ==
  LET after[k \in 0..Len(vals)] ==
        IF k = 0 THEN [maxel |-> -1, maxi |-> -1]
        ELSE LET prev == after[k - 1]
                 iopt == invOptions(p, vals[k])
             IN IF Max(iopt) <= prev.maxel THEN prev
                ELSE [maxel |-> Max(iopt),
                      maxi |-> IF Cardinality(iopt) = 1 THEN prev.maxi ELSE vals[k]]
  IN after[Len(vals)]

(* It is not known, and row or column are renamed: the loop over the       *)
(* options ends with this one.  fix with img = -1 finds nothing in a plain *)
(* permutation; in a bit permutation it overwrites a counter.              *)
FilterMoved(p, vals, r) ==
  LET g == Greatest(p, vals)
      allDefined == \A k \in DOMAIN vals : Cardinality(invOptions(p, vals[k])) = 1
      cand == IF allDefined \/ g.maxi = -1 THEN p
              ELSE FixAndPropagate(p, g.maxel, g.maxi).perm
  IN IF ~allDefined /\ g.maxi = -1 /\ set.useBit /\ g.maxel <= minog(0, r)
     THEN Filtered(p, FALSE, TRUE, Undefined)
     ELSE Compare(p, cand, g.maxel, r, ~set.propagateMincheck, TRUE)

FilterCompared(p, row, col, vals, r) ==
  IF Len(vals) = 1 THEN FilterKnown(p, vals[1], r)
  ELSE IF row = 0 /\ col = r THEN FilterUnmoved(p, r)
  ELSE FilterMoved(p, vals, r)

FilterFixed(f, row, col, r) ==
  IF ~f.ok THEN Filtered(f.perm, FALSE, FALSE, Returned)
  ELSE IF row = None \/ col = None THEN Filtered(f.perm, FALSE, FALSE, Undefined)
  ELSE FilterCompared(f.perm, row, col, Ascending(dom[row][col]), r)

filterOption(perm, opt, r) ==
  LET f == IF fixed(perm, r) THEN [perm |-> perm, ok |-> TRUE]
           ELSE FixAndPropagate(perm, r, opt)
  IN FilterFixed(f, permOf(f.perm, 0), permOf(f.perm, r), r)
-----------------------------------------------------------------------------
(* permFullyDefinedCheck: the entries from (0, r) on, row by row.  A step  *)
(* of the loop goes on, ends it or throws.                                 *)
CompareEntry(p, r, c) ==
  LET og == minog(r, c)
      pre == Preimages(p, r, c)
      falling == {i \in pre : i < p[i]}
  IN IF Cardinality(pre) = 1
     THEN CASE Max(pre) < og -> [end |-> FALSE, res |-> addClauses(p, r, c)]
            [] Max(pre) = og /\ Single(r, c) -> [end |-> FALSE, res |-> Returned]
            [] Max(pre) = og /\ ~Single(r, c) /\ set.propagateMincheck ->
                 [end |-> FALSE, res |-> addClauses(p, r, c)]
            [] OTHER -> [end |-> TRUE, res |-> Returned]
     ELSE CASE Max(pre) < og -> [end |-> FALSE, res |-> addClauses(p, r, c)]
            [] Max(pre) = og /\ ~set.propagateMincheck ->
                 [end |-> FALSE, res |-> Returned]
            [] Max(pre) >= og /\ set.propagateMincheck /\ p[r] = r /\ p[c] = c ->
                 [end |-> TRUE, res |-> IF falling = {} THEN Returned
                                        ELSE addClauses(p, r, c)]
            [] Max(pre) = og /\ set.propagateMincheck /\ ~(p[r] = r /\ p[c] = c) ->
                 [end |-> FALSE, res |-> addClauses(p, r, c)]
            [] OTHER -> [end |-> TRUE, res |-> Returned]

permFullyDefinedCheck(p, r) ==
  LET after[k \in (r - 1)..(N * N - 1)] ==
        IF k = r - 1 THEN [end |-> FALSE, res |-> Returned]
        ELSE LET prev == after[k - 1]
             IN IF prev.end \/ prev.res.what # "none" THEN prev
                ELSE CompareEntry(p, k \div N, k % N)
  IN IF p = Identity THEN Returned ELSE after[N * N - 1].res
-----------------------------------------------------------------------------
(* Between two checks no table is kept.                                    *)
NoTable == [r \in Val |-> [c \in Val |-> Val]]

(* The constructor of MinCheck_V2; for the identity diagonal the flag      *)
(* depends on a word behind the end of a vector.                           *)
Init ==
  /\ set \in Settings
  /\ diagIsId \in IF set.diag = Identity THEN BOOLEAN ELSE {set.diag = NoDiagonal}
  /\ below \in BOOLEAN
  /\ initialPart = InitialPart(set)
  /\ dom = NoTable
  /\ final = FALSE
  /\ its = 0
  /\ stack = <<>>
  /\ result = "idle"
  /\ clause = {}

Frame(perm, shared, r, d) ==
  [perm |-> perm, shared |-> shared, r |-> r, d |-> d,
   entered |-> FALSE, todo |-> <<>>, kept |-> <<>>]

Full(D) == \A r, c \in Val : Cardinality(D[r][c]) = 1

(* Mutant: nothing to do when the first row is the identity.               *)
preCheckFirst(D) == \A c \in Val : D[0][c] = {c}

(* preCheck: nothing to do for a row with a repeated value, an empty       *)
(* domain, or the table whose rows are all the identity.                   *)
preCheck(D) ==
  \/ \E r, c1, c2 \in Val : c1 # c2 /\ D[r][c1] = D[r][c2] /\ Cardinality(D[r][c1]) = 1
  \/ \E r, c \in Val : D[r][c] = {}
  \/ \A r, c \in Val : D[r][c] = {c}

(* A full table is checked without limits, whoever asks.                   *)
IsFinal(D, requested) == Full(D) \/ requested

checkMin ==
  /\ result = "idle"
  /\ \E x \in Doms : x[1] = set.diag /\ dom' = x[2]
  /\ \E requested \in BOOLEAN :
       /\ requested => Full(dom')
       /\ final' = IsFinal(dom', requested)
  /\ its' = 0
  /\ clause' = {}
  /\ IF preCheck(dom') THEN result' = "passed" /\ stack' = <<>>
     ELSE /\ result' = "running"
          /\ stack' = <<Frame(initialPart, TRUE, 0, 0)>>
  /\ UNCHANGED <<set, diagIsId, below, initialPart>>

Top == stack[Len(stack)]
SetTop(f) == [stack EXCEPT ![Len(stack)] = f]

(* What becomes of a call that may throw.                                  *)
Outcome(res) ==
  /\ result' = IF res.what = "none" THEN "running" ELSE res.what
  /\ clause' = res.clause

OutOfSteps(n) == ~final /\ n >= set.maxMC

(* The head of checkMinimality, with the limit.                            *)
EnterRow ==
  /\ result = "running"
  /\ ~Top.entered
  /\ its' = its + 1
  /\ IF OutOfSteps(its')
     THEN result' = "limit" /\ UNCHANGED stack
     ELSE /\ stack' = SetTop([Top EXCEPT !.entered = TRUE,
                                         !.todo = options(Top.perm, Top.r)])
          /\ UNCHANGED result
  /\ UNCHANGED <<set, diagIsId, below, initialPart, dom, final, clause>>

(* Mutant: options are never copied.                                       *)
AliasedAlways(p, r) == TRUE

(* An option of a fixed row is the permutation itself, not a copy.         *)
Aliased(p, r) == fixed(p, r)

(* One iteration of filterOptions.                                         *)
Filter ==
  /\ result = "running"
  /\ Top.entered
  /\ Top.todo # <<>>
  /\ \E f \in {filterOption(Top.perm, Head(Top.todo), Top.r)} :
     LET same == Aliased(Top.perm, Top.r)
     IN /\ Outcome(f.res)
        /\ stack' = SetTop([Top EXCEPT
             !.perm = IF same THEN f.perm ELSE @,
             !.todo = IF f.stop THEN <<>> ELSE Tail(@),
             !.kept = IF f.keep
                      THEN Append(@, [perm |-> f.perm, shared |-> same /\ Top.shared])
                      ELSE @])
        /\ initialPart' = IF same /\ Top.shared THEN f.perm ELSE initialPart
  /\ UNCHANGED <<set, diagIsId, below, dom, final, its>>

(* A permutation that is complete is compared entry by entry.              *)
CheckComplete ==
  /\ result = "running"
  /\ Top.entered /\ Top.todo = <<>> /\ Top.kept # <<>>
  /\ fullDefined(Head(Top.kept).perm)
  /\ Outcome(permFullyDefinedCheck(getPerm(Head(Top.kept).perm), Top.r))
  /\ stack' = SetTop([Top EXCEPT !.kept = Tail(@)])
  /\ UNCHANGED <<set, diagIsId, below, initialPart, dom, final, its>>

(* Another one is extended in the next row, within the depth limit.        *)
Descend ==
  /\ result = "running"
  /\ Top.entered /\ Top.todo = <<>> /\ Top.kept # <<>>
  /\ ~fullDefined(Head(Top.kept).perm)
  /\ LET o == Head(Top.kept)
         rest == SetTop([Top EXCEPT !.kept = Tail(@)])
     IN stack' = IF Top.r < N - 1 /\ (final \/ Top.d + 1 <= set.maxDepth)
                 THEN Append(rest, Frame(o.perm, o.shared, Top.r + 1, Top.d + 1))
                 ELSE rest
  /\ UNCHANGED <<set, diagIsId, below, initialPart, dom, final, its, result, clause>>

Return ==
  /\ result = "running"
  /\ Top.entered /\ Top.todo = <<>> /\ Top.kept = <<>>
  /\ stack' = Front(stack)
  /\ result' = IF stack' = <<>> THEN "passed" ELSE "running"
  /\ UNCHANGED <<set, diagIsId, below, initialPart, dom, final, its, clause>>

(* checkMin returns; the solver goes on and may ask again.                 *)
Finish ==
  /\ result \notin {"idle", "running"}
  /\ result' = "idle"
  /\ dom' = NoTable
  /\ final' = FALSE
  /\ stack' = <<>>
  /\ its' = 0
  /\ clause' = {}
  /\ UNCHANGED <<set, diagIsId, below, initialPart>>

Next == checkMin \/ EnterRow \/ Filter \/ CheckComplete \/ Descend \/ Return \/ Finish

Spec == Init /\ [][Next]_vars
-----------------------------------------------------------------------------
(* What the check promises, in terms of the tables it is about.            *)
CS == INSTANCE CycleSets

Diagonals == {s.diag : s \in Settings}
Renamings(d) == IF d = NoDiagonal THEN CS!Symmetric ELSE CS!Centraliser(d)
Tables == UNION {{<<d, M>> : M \in IF d = NoDiagonal THEN CS!AllCycleSets
                                  ELSE CS!WithDiagonal(d)} : d \in Diagonals}
Minimal == {x \in Tables : CS!IsMinimal(x[2], Renamings(x[1]))}

(* What the caller hands over: diagonals that makeDiagonals builds,        *)
(* domains in which the diagonal is known, and no full table that is not   *)
(* one of a cycle set.                                                     *)
FullTable(D) == [r \in Val |-> [c \in Val |-> Min(D[r][c])]]
DiagonalsBuilt == \A d \in Diagonals : d # NoDiagonal => Consecutive(d)
DiagonalsKnown ==
  \A x \in Doms : x[1] # NoDiagonal => \A v \in Val : x[2][v][v] = {x[1][v]}
CompleteAreTables == \A x \in Doms : Full(x[2]) => <<x[1], FullTable(x[2])>> \in Tables

Table == FullTable(dom)
True(M, l) == (M[l[1]][l[2]] = l[3]) = l[4]
False(l) == IF l[4] THEN l[3] \notin dom[l[1]][l[2]] ELSE dom[l[1]][l[2]] = {l[3]}

TypeOK ==
  /\ set \in Settings /\ final \in BOOLEAN
  /\ its \in 0..(IF final THEN N ^ (N + 1) ELSE set.maxMC)
  /\ Len(stack) <= N
  /\ result \in {"idle", "running", "passed", "limit", "clause", "undefined"}

(* A clause never cuts off the representative of a class: all tables that  *)
(* are minimal among their renamings satisfy it, whatever the partial      *)
(* table it was made from.                                                 *)
ClauseSound ==
  result = "clause" =>
    \A x \in Minimal : x[1] = set.diag => \E l \in clause : True(x[2], l)

(* The solver is handed a clause it can use at once (addClause reports     *)
(* anything else on stdout and drops it): all its literals are false, or   *)
(* all but one, which is unit propagation; a full table is cut off.  Every *)
(* literal has a variable: with --smallerEncoding there is none on the     *)
(* diagonal and none for the value of the diagonal, and the number 0 would *)
(* end the clause early.                                                   *)
ClauseUsable ==
  result = "clause" =>
    /\ clause # {}
    /\ Cardinality({l \in clause : ~False(l)}) <= IF Full(dom) THEN 0 ELSE 1
    /\ set.smallerEncoding =>
         \A l \in clause : l[1] # l[2] /\ l[3] # set.diag[l[1]]

(* A full table without a clause is written as a solution, even when a     *)
(* limit ended the check (checkMin tests a shadowed `failed`): it is the   *)
(* representative of its class.                                            *)
WrittenMinimal ==
  result \in {"passed", "limit"} /\ Full(dom) => <<set.diag, Table>> \in Minimal

(* addClauses is called with permutations only and filterOptions never     *)
(* indexes with an image that is not there.                                *)
NoUndefined == result # "undefined"

InitialParts == {<<s, InitialPart(s)>> : s \in Settings}

(* What one check does to the shared initial permutation is not seen by    *)
(* the next.                                                               *)
InitialPartKept == <<set, initialPart>> \in InitialParts
=============================================================================
