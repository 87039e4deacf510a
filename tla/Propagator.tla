----------------------------- MODULE Propagator -----------------------------
(***************************************************************************)
(* CadicalSolver (solveCadicalClass.hpp), the IPASIR-UP observer that      *)
(* mirrors CaDiCaL's trail in a partially defined cycle set, together with *)
(* the part of CaDiCaL that drives it: the trail with its decision levels, *)
(* the notified prefix, and chronological backtracking, which keeps        *)
(* out-of-order literals and notifies them a second time.                  *)
(*                                                                         *)
(* The observer never sees the trail: it only receives notify_assignment,  *)
(* notify_new_decision_level and notify_backtrack, and undoes an           *)
(* assignment from what it remembers.  The module asks whether what it     *)
(* remembers is what the solver has.                                       *)
(*                                                                         *)
(* Variables of other encodings (YBE, commanders) are not observed; the    *)
(* clauses over them, the learned clauses and the clauses the observer     *)
(* adds can imply any literal at any level (action Imply).  Of the clauses *)
(* of encodeEntries the module keeps the exactly-one groups.               *)
(*                                                                         *)
(* Literals reach the observer on four ways: mark_fixed at once for a root *)
(* unit, external_propagate when unit propagation is complete, backtrack   *)
(* for the literals it keeps, and search_assign_driving and                *)
(* search_assign_external right after the assignment, whatever propagation *)
(* has still to find.  A root literal proposed by cb_propagate takes none  *)
(* of them (Unheard).                                                      *)
(***************************************************************************)
EXTENDS Integers, FiniteSets, Sequences

CONSTANTS N,                \* problem_size
          Rows,             \* the rows modelled; handlers touch one row only
          DiagPart,         \* diagPart: the diagonal is given
          SmallerEncoding,  \* smallerEncoding: no literal for (i,j,diag[i])
          Diag,             \* diag, a permutation of 0..N-1
          PropLits,         \* propLits: cb_propagate proposes literals
          MaxLevel,         \* bound: decision levels explored
          MaxImplied        \* bound: literals implied by other clauses

Val == 0 .. N - 1

ASSUME ConstantsAssumption ==
  /\ N \in Nat \ {0}
  /\ Rows \subseteq Val
  /\ DiagPart \in BOOLEAN
  /\ SmallerEncoding \in BOOLEAN
  /\ Diag \in [Val -> Val]
  /\ PropLits \in BOOLEAN
  /\ MaxLevel \in Nat
  /\ MaxImplied \in Nat

True == "True_t"
False == "False_t"
Unknown == "Unknown_t"
Polarity == {True, False}
Truth == Polarity \cup {Unknown}

NoVal == -1                        \* matrix entry not defined
NoTarget == -1                     \* no backtrack in progress

Entry == Rows \X Val \X Val        \* lit2entry: row, column, value

\* add_observed_var is called for these entries.
Observed == {e \in Entry : DiagPart => /\ e[1] # e[2]
                                       /\ SmallerEncoding => e[3] # Diag[e[1]]}

\* The exactly-one groups of encodeEntries over observed variables.
Cell(r, c)     == {e \in Observed : e[1] = r /\ e[2] = c}
RowValue(r, k) == {e \in Observed : e[1] = r /\ e[3] = k}
Groups == ({Cell(r, c) : r \in Rows, c \in Val} \cup
           {RowValue(rk[1], rk[2]) :
               rk \in {p \in Rows \X Val : DiagPart => p[2] # Diag[p[1]]}}) \ {{}}

\* Position of an entry in lit2entry.
Number(e) == (e[1] * N + e[2]) * N + e[3]

VARIABLES
  \* CaDiCaL
  trail,          \* the assigned observed variables, in assignment order
  val,            \* val(e): truth value of each observed variable
  lvl,            \* var(e).level, 0 while unassigned
  control,        \* control[l]: trail length when level l was opened
  inexact,        \* literals whose level may be above the real one: see Unsure
  units,          \* the variables whose flags say FIXED: mark_fixed was called
  notified,       \* length of the prefix of trail handed to the observer
  pc,             \* where the solver is: see Phase
  target,         \* level a running backtrack returns to
  implied,        \* literals assigned by Imply, Drive, PropagateExternal so far
  \* CadicalSolver
  assignments, matrix, bitdomains,  \* currentCycleSet
  fixedCycleSet,                    \* entries notified as fixed
  current_trail                     \* per level, the entries notified on it

solverVars == <<trail, val, lvl, control, inexact, units, notified, pc, target, implied>>
cycleSet == <<assignments, matrix, bitdomains>>
observerVars == <<assignments, matrix, bitdomains, fixedCycleSet, current_trail>>
vars == <<trail, val, lvl, control, inexact, units, notified, pc, target, implied,
          assignments, matrix, bitdomains, fixedCycleSet, current_trail>>

\* "bcp": propagate; "notify": notify_assignments of external_propagate; "quiet":
\* the observer is up to date; "handover": notify_assignments of
\* search_assign_driving and search_assign_external; "analyze": a conflict is
\* being explained; "undo": notify_backtrack is running; "renotify":
\* notify_assignments at the end of backtrack; "jumped": backtrack came back.
Phase == {"bcp", "notify", "quiet", "handover", "analyze", "undo", "renotify", "jumped"}
Notifying == {"notify", "handover", "renotify"}

-----------------------------------------------------------------------------
(* What the solver knows *)

level == Len(control)

\* Root literals of cb_propagate: search_assign calls learn_unit_clause only if
\* !from_external, and notify_assignments leaves every root literal to mark_fixed.
Unheard == {e \in Observed : val[e] # Unknown /\ lvl[e] = 0 /\ e \notin units}

OpenIn(g) == {e \in g : val[e] = Unknown}
TrueIn(g) == {e \in g : val[e] = True}

\* A group is falsified by two true literals or by none being left.
Conflict == \E g \in Groups : \/ Cardinality(TrueIn(g)) > 1
                              \/ TrueIn(g) = {} /\ OpenIn(g) = {}

\* Unit propagation on the groups has nothing left to do.
Propagated == \A g \in Groups : /\ TrueIn(g) # {} => OpenIn(g) = {}
                                /\ TrueIn(g) = {} => Cardinality(OpenIn(g)) # 1

-----------------------------------------------------------------------------
(* The handlers of the observer *)

\* notify_assignment(lit, is_fixed) for a literal of entry e.
RowAfterTrue(e) ==
  [j \in Val |-> IF j = e[2] THEN {e[3]}
                 ELSE IF Cardinality(bitdomains[e[1]][j]) # 1
                        THEN bitdomains[e[1]][j] \ {e[3]}
                        ELSE bitdomains[e[1]][j]]

\* A wrong version: fixed entries recorded on a level.
notify_assignmentRecorded(e, v, is_fixed) ==
  /\ current_trail' = [current_trail EXCEPT ![Len(current_trail)] = Append(@, e)]
  /\ assignments' = [assignments EXCEPT ![e[1]][e[2]][e[3]] = v]
  /\ fixedCycleSet' = IF is_fixed THEN fixedCycleSet \cup {e} ELSE fixedCycleSet
  /\ UNCHANGED <<matrix, bitdomains>>

notify_assignment(e, v, is_fixed) ==
  /\ current_trail' = IF is_fixed THEN current_trail
                      ELSE [current_trail EXCEPT ![Len(current_trail)] = Append(@, e)]
  /\ assignments' = [assignments EXCEPT ![e[1]][e[2]][e[3]] = v]
  /\ IF v = True
       THEN /\ matrix' = [matrix EXCEPT ![e[1]][e[2]] = e[3]]
            /\ bitdomains' = [bitdomains EXCEPT ![e[1]] = RowAfterTrue(e)]
       ELSE /\ bitdomains' = [bitdomains EXCEPT ![e[1]][e[2]] = @ \ {e[3]}]
            /\ UNCHANGED matrix
  /\ fixedCycleSet' = IF is_fixed THEN fixedCycleSet \cup {e} ELSE fixedCycleSet

\* One iteration of the loop of notify_backtrack, for entry e.
RowAfterUndoTrue(e) ==
  LET r == e[1]
      c == e[2]
      k == e[3]
      taken == {matrix[r][j] : j \in Val \ {c}}
      denied == {j \in Val : assignments[r][c][j] = False}
  IN  [j \in Val |-> IF j = c THEN Val \ (taken \cup denied)
                     ELSE IF matrix[r][j] = NoVal /\ assignments[r][j][k] # False
                            THEN bitdomains[r][j] \cup {k}
                            ELSE bitdomains[r][j]]

\* Three wrong versions: the matrix entry, the assignment or the domains survive.
UndoAssignmentKeepsMatrix(e) ==
  LET v == assignments[e[1]][e[2]][e[3]] IN
  IF e \in fixedCycleSet
    THEN UNCHANGED cycleSet
    ELSE /\ assignments' = [assignments EXCEPT ![e[1]][e[2]][e[3]] = Unknown]
         /\ bitdomains' = IF v = True THEN [bitdomains EXCEPT ![e[1]] = RowAfterUndoTrue(e)]
                                      ELSE bitdomains
         /\ UNCHANGED matrix

UndoAssignmentKeepsValue(e) ==
  LET v == assignments[e[1]][e[2]][e[3]] IN
  /\ matrix' = IF e \notin fixedCycleSet /\ v = True
                 THEN [matrix EXCEPT ![e[1]][e[2]] = NoVal] ELSE matrix
  /\ bitdomains' = IF e \notin fixedCycleSet /\ v = True
                     THEN [bitdomains EXCEPT ![e[1]] = RowAfterUndoTrue(e)] ELSE bitdomains
  /\ UNCHANGED assignments

UndoAssignmentKeepsDomains(e) ==
  LET v == assignments[e[1]][e[2]][e[3]] IN
  IF e \in fixedCycleSet
    THEN UNCHANGED cycleSet
    ELSE /\ assignments' = [assignments EXCEPT ![e[1]][e[2]][e[3]] = Unknown]
         /\ matrix' = IF v = True THEN [matrix EXCEPT ![e[1]][e[2]] = NoVal] ELSE matrix
         /\ UNCHANGED bitdomains

UndoAssignment(e) ==
  LET v == assignments[e[1]][e[2]][e[3]] IN
  IF e \in fixedCycleSet
    THEN UNCHANGED cycleSet
    ELSE /\ assignments' = [assignments EXCEPT ![e[1]][e[2]][e[3]] = Unknown]
         /\ matrix' = IF v = True THEN [matrix EXCEPT ![e[1]][e[2]] = NoVal] ELSE matrix
         /\ bitdomains' =
              CASE v = True  -> [bitdomains EXCEPT ![e[1]] = RowAfterUndoTrue(e)]
                [] v = False -> [bitdomains EXCEPT ![e[1]][e[2]] = @ \cup {e[3]}]
                [] OTHER     -> bitdomains

\* cb_decide: the least open value of the first cell, row by row, that has a
\* choice left; {} when every domain is a singleton.
\* A wrong version: a decided cell still counts as open.
OpenCellsAll == {rc \in Rows \X Val : /\ DiagPart => rc[1] # rc[2]
                                      /\ bitdomains[rc[1]][rc[2]] # {}}
OpenCells == {rc \in Rows \X Val : /\ DiagPart => rc[1] # rc[2]
                                   /\ Cardinality(bitdomains[rc[1]][rc[2]]) > 1}
cb_decide ==
  {e \in Entry : /\ <<e[1], e[2]>> \in OpenCells
                 /\ \A rc \in OpenCells : e[1] * N + e[2] <= rc[1] * N + rc[2]
                 /\ e[3] \in bitdomains[e[1]][e[2]]
                 /\ \A k \in bitdomains[e[1]][e[2]] : e[3] <= k}

\* ask_decision falls back to an internal decision when the proposal is empty
\* or already assigned (or has no variable, in which case its literal is 0).
ask_decision == {e \in cb_decide : e \in Observed /\ val[e] = Unknown}

-----------------------------------------------------------------------------
(* Initial state: the constructor, ending with fixDiag *)

OnDiag(r, c) == DiagPart /\ r = c
InitAssignment(r, c, k) == IF ~OnDiag(r, c) THEN Unknown
                           ELSE IF k = Diag[r] THEN True ELSE False

Init ==
  /\ trail = <<>>
  /\ val = [e \in Observed |-> Unknown]
  /\ lvl = [e \in Observed |-> 0]
  /\ control = <<>>
  /\ inexact = {}
  /\ units = {}
  /\ notified = 0
  /\ pc = "bcp"
  /\ target = NoTarget
  /\ implied = 0
  /\ assignments = [r \in Rows |-> [c \in Val |-> [k \in Val |-> InitAssignment(r, c, k)]]]
  /\ matrix = [r \in Rows |-> [c \in Val |-> IF OnDiag(r, c) THEN Diag[r] ELSE NoVal]]
  /\ bitdomains = [r \in Rows |-> [c \in Val |->
                     IF OnDiag(r, c) THEN {Diag[r]}
                     ELSE IF DiagPart THEN Val \ {Diag[r]} ELSE Val]]
  /\ fixedCycleSet = {e \in Entry : OnDiag(e[1], e[2])}
  /\ current_trail = << <<>> >>

-----------------------------------------------------------------------------
(* The solver's steps *)

\* A wrong version: level 0 literals wait for notify_assignments, which skips them.
mark_fixedSilently(e, v) ==
  /\ units' = units \cup {e}
  /\ UNCHANGED observerVars

\* learn_unit_clause and mark_fixed: the observer is notified at once, ahead of
\* everything still waiting on the trail.
mark_fixed(e, v) ==
  /\ units' = units \cup {e}
  /\ notify_assignment(e, v, TRUE)

\* search_assign: the literal goes to the end of the trail with its own level.
AssignAt(e, v, lv) ==
  /\ trail' = Append(trail, e)
  /\ val' = [val EXCEPT ![e] = v]
  /\ lvl' = [lvl EXCEPT ![e] = lv]

\* A literal of cb_propagate has no reason clause until a conflict asks for it: it
\* gets the current level, and what follows from it takes that level over.
Unsure(reason, lv) == \E x \in reason \cap inexact : lvl[x] = lv

\* ... for a clause or no reason: learn_unit_clause on level 0.
Assign(e, v, lv, reason) ==
  /\ AssignAt(e, v, lv)
  /\ inexact' = IF Unsure(reason, lv) THEN inexact \cup {e} ELSE inexact
  /\ IF lv = 0 THEN mark_fixed(e, v) ELSE UNCHANGED units /\ UNCHANGED observerVars

\* propagate() on a group: a true literal makes the others false, and the last
\* open literal of a group whose others are false becomes true.  The level is
\* that of the reason (assignment_level under opts.chrono).  Of the literals that
\* are forced the least is taken first, a reduction: each of them is forced until
\* it is assigned, and Imply takes any literal, out of order.
Forced == UNION {IF TrueIn(g) # {} \/ Cardinality(OpenIn(g)) = 1 THEN OpenIn(g) ELSE {} : g \in Groups}

Propagate(g, e, lv) ==
  /\ pc = "bcp"
  /\ e \in OpenIn(g)
  /\ LET reason == IF TrueIn(g) # {} THEN TrueIn(g) ELSE g \ {e} IN
     /\ TrueIn(g) = {} => OpenIn(g) = {e}
     /\ \A x \in reason : lvl[x] <= lv
     /\ lv > 0 => \E x \in reason : lvl[x] = lv
     /\ \A x \in Forced : Number(e) <= Number(x)
     /\ Assign(e, IF TrueIn(g) # {} THEN False ELSE True, lv, reason)
  /\ UNCHANGED <<control, notified, pc, target, implied>>

\* Any other clause (YBE, learned, added by the observer) implies a literal in
\* propagate(), at a level up to the current one.  On the root, assign_unit and
\* assign_original_unit do the same for a unit clause after a backtrack.
Imply(e, v, lv) ==
  /\ \/ pc = "bcp"
     \/ pc \in {"quiet", "jumped"} /\ level = 0
  /\ implied < MaxImplied
  /\ val[e] = Unknown
  /\ Assign(e, v, lv, Observed)
  /\ pc' = "bcp"
  /\ implied' = implied + 1
  /\ UNCHANGED <<control, notified, target>>

\* search_assign_driving: after a backtrack analyze assigns the literal driven by
\* the learned or the conflicting clause; handle_external_clause does so for a
\* clause of the observer, under opts.chrono without a backtrack.  The literals
\* waiting on the trail are handed over at once.
Drive(e, v, lv) ==
  /\ pc \in {"quiet", "jumped"}
  /\ implied < MaxImplied
  /\ val[e] = Unknown
  /\ Assign(e, v, lv, Observed)
  /\ pc' = "handover"
  /\ implied' = implied + 1
  /\ UNCHANGED <<control, notified, target>>

\* cb_propagate proposes a literal: search_assign_external puts it on the current
\* level, on level 0 without learn_unit_clause, and hands the trail over.
PropagateExternal(e, v) ==
  /\ PropLits
  /\ pc = "quiet"
  /\ implied < MaxImplied
  /\ val[e] = Unknown
  /\ AssignAt(e, v, level)
  /\ inexact' = IF level > 0 THEN inexact \cup {e} ELSE inexact
  /\ pc' = "handover"
  /\ implied' = implied + 1
  /\ UNCHANGED <<control, units, notified, target>>
  /\ UNCHANGED observerVars

\* explain_external_propagations on a conflict: with the reasons of the external
\* literals the real level of e turns out to be lv.  A literal that is a unit
\* after all is notified as fixed, a second time if it was handed over already.
Explain(e, lv) ==
  /\ pc \in {"bcp", "quiet", "jumped", "analyze"}
  /\ e \in inexact
  /\ lv < lvl[e]
  /\ lvl' = [lvl EXCEPT ![e] = lv]
  /\ inexact' = inexact \ {e}
  /\ IF lv = 0 THEN mark_fixed(e, val[e]) ELSE UNCHANGED units /\ UNCHANGED observerVars
  /\ pc' = "analyze"
  /\ UNCHANGED <<trail, val, control, notified, target, implied>>

\* backtrack returned without anything to assign, or with a conflict that has to
\* be propagated again (restart, clause that is not unit any more).
Resume ==
  /\ pc = "jumped"
  /\ pc' = "bcp"
  /\ UNCHANGED <<trail, val, lvl, control, inexact, units, notified, target, implied>>
  /\ UNCHANGED observerVars

\* propagate() came back without conflict: external_propagate starts.
ExternalPropagate ==
  /\ pc = "bcp"
  /\ ~Conflict /\ Propagated
  /\ pc' = "notify"
  /\ UNCHANGED <<trail, val, lvl, control, inexact, units, notified, target, implied>>
  /\ UNCHANGED observerVars

\* One round of notify_assignments; fixed literals are left to mark_fixed.
NotifyAssignment ==
  /\ pc \in Notifying
  /\ notified < Len(trail)
  /\ notified' = notified + 1
  /\ LET e == trail[notified + 1] IN
     IF lvl[e] = 0 THEN UNCHANGED observerVars
                   ELSE notify_assignment(e, val[e], FALSE)
  /\ UNCHANGED <<trail, val, lvl, control, inexact, units, pc, target, implied>>

NotifyDone ==
  /\ pc \in Notifying
  /\ notified = Len(trail)
  /\ pc' = CASE pc = "notify" -> "quiet" [] pc = "handover" -> "bcp" [] OTHER -> "jumped"
  /\ UNCHANGED <<trail, val, lvl, control, inexact, units, notified, target, implied>>
  /\ UNCHANGED observerVars

\* new_trail_level, then notify_new_decision_level before the assignment.
OpenLevel ==
  /\ pc = "quiet"
  /\ level < MaxLevel
  /\ control' = Append(control, Len(trail))
  /\ current_trail' = Append(current_trail, <<>>)
  /\ pc' = "bcp"
  /\ UNCHANGED <<units, notified, target, implied, fixedCycleSet>>
  /\ UNCHANGED cycleSet

AssignDecision(e, v) ==
  /\ trail' = Append(trail, e)
  /\ val' = [val EXCEPT ![e] = v]
  /\ lvl' = [lvl EXCEPT ![e] = level + 1]
  /\ UNCHANGED inexact

\* search_assume_decision on the literal cb_decide proposes.
Decide(e) ==
  /\ OpenLevel
  /\ e \in ask_decision
  /\ AssignDecision(e, True)

\* No usable proposal: CaDiCaL decides an unassigned variable in its saved phase.
DecideInternal(e, v) ==
  /\ OpenLevel
  /\ ask_decision = {}
  /\ val[e] = Unknown
  /\ AssignDecision(e, v)

\* ... or one the observer does not see.
DecideUnobserved ==
  /\ OpenLevel
  /\ ask_decision = {}
  /\ UNCHANGED <<trail, val, lvl, inexact>>

\* backtrack(new_level), for a conflict or a restart: notify_backtrack first.
Backtrack(new_level) ==
  /\ pc \in {"bcp", "quiet", "analyze", "jumped"}
  /\ new_level < level
  /\ target' = new_level
  /\ pc' = "undo"
  /\ UNCHANGED <<trail, val, lvl, control, inexact, units, notified, implied>>
  /\ UNCHANGED observerVars

\* The inner loop of notify_backtrack takes the entries of the last level in
\* the order they were notified; current_trail drops each one as it is undone.
Undo ==
  /\ pc = "undo"
  /\ Len(current_trail) > target + 1
  /\ current_trail[Len(current_trail)] # <<>>
  /\ UndoAssignment(Head(current_trail[Len(current_trail)]))
  /\ current_trail' = [current_trail EXCEPT ![Len(current_trail)] = Tail(@)]
  /\ UNCHANGED fixedCycleSet
  /\ UNCHANGED solverVars

\* current_trail.pop_back()
PopLevel ==
  /\ pc = "undo"
  /\ Len(current_trail) > target + 1
  /\ current_trail[Len(current_trail)] = <<>>
  /\ current_trail' = SubSeq(current_trail, 1, Len(current_trail) - 1)
  /\ UNCHANGED <<assignments, matrix, bitdomains, fixedCycleSet>>
  /\ UNCHANGED solverVars

\* The n-th smallest member of a set of positions.
Nth(P, n) == CHOOSE i \in P : Cardinality({j \in P : j <= i}) = n

\* A wrong version: literals of the target level itself are dropped as well.
UnassignTooMuch ==
  /\ pc = "undo"
  /\ Len(current_trail) = target + 1
  /\ trail' = SelectSeq(trail, LAMBDA e : lvl[e] < target)
  /\ val' = [e \in Observed |-> IF lvl[e] < target THEN val[e] ELSE Unknown]
  /\ lvl' = [e \in Observed |-> IF lvl[e] < target THEN lvl[e] ELSE 0]
  /\ inexact' = {e \in inexact : lvl[e] < target}
  /\ notified' = Len(trail')
  /\ pc' = "jumped"
  /\ control' = SubSeq(control, 1, target)
  /\ target' = NoTarget
  /\ UNCHANGED <<units, implied>>
  /\ UNCHANGED observerVars

\* The rest of backtrack: literals of a higher level leave the trail, the
\* out-of-order ones stay, close ranks, and are notified again.
Unassign ==
  /\ pc = "undo"
  /\ Len(current_trail) = target + 1
  /\ LET assigned == control[target + 1]
         Stays(e) == lvl[e] <= target
         above == {i \in assigned + 1 .. Len(trail) : Stays(trail[i])}
         kept == [n \in 1 .. Cardinality(above) |-> trail[Nth(above, n)]]
     IN  /\ trail' = SubSeq(trail, 1, assigned) \o kept
         /\ val' = [e \in Observed |-> IF Stays(e) THEN val[e] ELSE Unknown]
         /\ lvl' = [e \in Observed |-> IF Stays(e) THEN lvl[e] ELSE 0]
         /\ inexact' = {e \in inexact : Stays(e)}
         /\ notified' = IF notified > assigned THEN assigned ELSE notified
         /\ pc' = IF above # {} THEN "renotify" ELSE "jumped"
  /\ control' = SubSeq(control, 1, target)
  /\ target' = NoTarget
  /\ UNCHANGED <<units, implied>>
  /\ UNCHANGED observerVars

Next ==
  \/ \E e \in Observed, v \in Polarity, lv \in 0 .. level : Imply(e, v, lv)
  \/ \E g \in Groups : \E e \in g, lv \in 0 .. level : Propagate(g, e, lv)
  \/ \E e \in Observed, v \in Polarity, lv \in 0 .. level : Drive(e, v, lv)
  \/ \E e \in Observed, v \in Polarity : PropagateExternal(e, v)
  \/ \E e \in Observed, lv \in 0 .. level : Explain(e, lv)
  \/ Resume
  \/ ExternalPropagate
  \/ NotifyAssignment
  \/ NotifyDone
  \/ \E e \in Observed : Decide(e)
  \/ \E e \in Observed, v \in Polarity : DecideInternal(e, v)
  \/ DecideUnobserved
  \/ \E new_level \in 0 .. level : Backtrack(new_level)
  \/ Undo
  \/ PopLevel
  \/ Unassign

Spec == Init /\ [][Next]_vars

-----------------------------------------------------------------------------
TypeOK ==
  /\ trail \in Seq(Observed)
  /\ val \in [Observed -> Truth]
  /\ lvl \in [Observed -> 0 .. MaxLevel]
  /\ control \in Seq(Nat)
  /\ inexact \subseteq Observed
  /\ units \subseteq Observed
  /\ notified \in Nat
  /\ pc \in Phase
  /\ target \in Nat \cup {NoTarget}
  /\ implied \in 0 .. MaxImplied
  /\ assignments \in [Rows -> [Val -> [Val -> Truth]]]
  /\ matrix \in [Rows -> [Val -> Val \cup {NoVal}]]
  /\ bitdomains \in [Rows -> [Val -> SUBSET Val]]
  /\ fixedCycleSet \subseteq Entry
  /\ current_trail \in Seq(Seq(Entry))

\* external_propagate has handed over the whole trail: cb_propagate,
\* cb_has_external_clause, cb_check_found_model and cb_decide run here.
Quiet == pc = "quiet"

IsTrue(r, c, k) == assignments[r][c][k] = True

\* What the observer believes about a literal when it is asked for a clause, a
\* model check or a decision is what the solver has on its trail, in particular
\* after chronological backtracking undid a whole level of the observer and
\* re-notified the literals that stayed, and after a conflict showed that a
\* literal handed over on its level is a unit.  Only a root literal that
\* cb_propagate proposed stays unknown to it, for good.
AssignmentsAgree ==
  Quiet => \A e \in Observed : assignments[e[1]][e[2]][e[3]] =
                                 IF e \in Unheard THEN Unknown ELSE val[e]

\* current_trail mirrors CaDiCaL's trail bucket by bucket: bucket l lists literals
\* of the l-th control segment, up to the notified prefix, each once and in
\* assignment order: all that are not root literals, and with --propLits perhaps
\* some that a conflict showed to be units after they were listed.
\* notify_backtrack pops whole buckets, so an entry in the wrong one would be
\* undone too early or never.
Segment(l) == {i \in 1 .. notified : /\ l > 1 => control[l - 1] < i
                                     /\ l <= level => i <= control[l]}
Listed(P) == [n \in 1 .. Cardinality(P) |-> trail[Nth(P, n)]]
ListedOn(l, e) == \E n \in 1 .. Len(current_trail[l]) : current_trail[l][n] = e
TrailMirrored ==
  pc # "undo" =>
    /\ Len(current_trail) = level + 1
    /\ \A l \in 1 .. level + 1 :
         LET P == {i \in Segment(l) : ListedOn(l, trail[i])} IN
         /\ current_trail[l] = Listed(P)
         /\ \A i \in Segment(l) : lvl[trail[i]] > 0 => i \in P
         /\ \A i \in P : lvl[trail[i]] > 0 \/ (PropLits /\ trail[i] \in units)

\* checkMin calls the cycle set complete when no matrix entry is -1 and compares
\* matrix entries for minimality: an entry never shows a value whose literal is
\* not true, whatever was undone in between.
MatrixSound ==
  Quiet => \A r \in Rows, c \in Val : matrix[r][c] # NoVal => IsTrue(r, c, matrix[r][c])

\* Every true literal that was notified on a decision level shows in the matrix.
MatrixComplete ==
  Quiet => \A e \in Entry \ fixedCycleSet :
             IsTrue(e[1], e[2], e[3]) => matrix[e[1]][e[2]] = e[3]

MatrixRight == MatrixSound /\ MatrixComplete

\* The comment on fixedCycleSet: `true if entry in currentMatrix is fixed`.  A
\* true entry notified as fixed would then stay in the matrix.
FixedEntryDefined ==
  Quiet => \A e \in fixedCycleSet :
             IsTrue(e[1], e[2], e[3]) => matrix[e[1]][e[2]] = e[3]

\* The values the solver still allows in a cell, as far as the observer was told
\* about the row.
Possible(r, c) ==
  {k \in Val : /\ assignments[r][c][k] # False
               /\ \A j \in Val \ {c} : ~IsTrue(r, j, k)
               /\ \A j \in Val \ {k} : ~IsTrue(r, c, j)}

\* bitdomains never loses a value: the minimality check reads a domain as "every
\* value the cell can still take", so a value missing after a series of undos
\* would make it exclude solutions.  The value of a fixed entry is excepted: it
\* may be lost when a conflicting literal of the row is notified and undone.
FixedTrue(r, c) == {k \in Val : <<r, c, k>> \in fixedCycleSet /\ IsTrue(r, c, k)}
DomainsSound ==
  Quiet => \A r \in Rows, c \in Val :
             Possible(r, c) \ FixedTrue(r, c) \subseteq bitdomains[r][c]

\* Undoing restores the domains exactly, even when it cleared a matrix entry too
\* many: no value that is false or taken elsewhere in the row comes back, except
\* one that was lost to a root literal of cb_propagate.
DomainsExact ==
  Quiet => \A r \in Rows, c \in Val : \A k \in bitdomains[r][c] :
             k \in Possible(r, c) \/ <<r, c, k>> \in Unheard

\* With --diag and all variables notify_backtrack puts diag[i] back into domains
\* from which fixDiag had removed it.
DomainsRight == DomainsSound /\ ((DiagPart => SmallerEncoding) => DomainsExact)

\* cb_decide reads only firstel and numTrue of domains that undo maintains, yet it
\* proposes an unassigned literal whenever one is left: ask_decision falls back to
\* an internal decision on an observed variable only if the observer was not told
\* of a root literal of the cell.
DecisionOpen ==
  Quiet => /\ \A e \in cb_decide : e \in ask_decision \/ Cell(e[1], e[2]) \cap Unheard # {}
           /\ cb_decide = {} => \A e \in Observed : val[e] # Unknown

\* An entry notified as fixed keeps the value the solver fixed it to for good,
\* through every backtrack and every later notification.
FixedAgree ==
  \A e \in fixedCycleSet \cap Observed :
    /\ lvl[e] = 0
    /\ val[e] \in Polarity
    /\ assignments[e[1]][e[2]][e[3]] = val[e]
=============================================================================
