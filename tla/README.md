# A verification project for the cycle set enumerator (ybe-sms)

`src/ybe-sms` enumerates the non-degenerate involutive set-theoretic solutions
of the Yang-Baxter equation of a given size, as cycle sets up to isomorphism:
an n x n matrix over 0..n-1 whose rows are permutations. It encodes "is a cycle
set" as a CNF formula, hands it to CaDiCaL (a modified copy is kept in
`src/cadical-master`), and breaks the isomorphisms during the search: it watches
CaDiCaL's trail through the IPASIR-UP interface, keeps the partially defined
matrix, and when the matrix cannot be extended to the lexicographically least
member of its isomorphism class it adds a clause that excludes it (SAT modulo
symmetries).

The program prints a catalogue that other people cite. It is correct when the
catalogue holds every class, once. Tests can compare totals with the literature
for small sizes; they hardly reach what this project is about: an observer that
must reconstruct the solver's assignment from notifications, a clause queue fed
and drained by callbacks, a symmetry check on partial permutations whose two
representations must agree, and a solver whose answers depend on clauses being
strengthened, removed and brought back while they are in use.

## 1. Inventory

The program:

| Part | Code | State | Operations | What makes it correct |
|---|---|---|---|---|
| Bit domain | `domains.cpp` `bitdomain_t` | bits, cached `firstel`, `numTrue` | set, reset (one, all) | the caches are the least element and the size |
| Domains in one vector | `domains.cpp` `bitdomains2_t`, `bitdomains3_t` | one flat vector of words | set, reset, copy, per cell | each cell is a bit domain, whatever happens to its neighbours |
| Observer | `solveCadicalClass.hpp/.cpp` `CadicalSolver` | `currentCycleSet` (assignments, matrix, bitdomains), `fixedCycleSet`, `current_trail` | `notify_assignment`, `notify_new_decision_level`, `notify_backtrack`, `cb_decide`, constructor, `fixDiag` | its assignment is the solver's whenever it is asked something; matrix and domains follow from it |
| Enumeration loop | `solveGeneral.cpp` `CommonInterface`; `CadicalSolver` callbacks | clause queue, `changeInTrail`, number of models, output file | `propagate`, `checkMin`, `check`, `addClause`, `cb_propagate`, `cb_has_external_clause`, `cb_add_external_clause_lit`, `cb_add_reason_clause_lit`, `cb_check_found_model`, `solve` | every minimal model written once, every veto has a clause, the loop ends |
| Partial permutations | `useful.cpp` `pperm_plain`, `pperm_bit`, `cyclePerm_t` | images, domains, parts | fix, copy, extend | the completions that remain are those allowed by the diagonal and the fixed images |
| Minimality check | `minCheckCommon.cpp`, `minCheck_V2.cpp` | stack of partial permutations | `preCheck`, `MinCheck`, `checkMinimality`, `propagateDecision`, `filterOptions`, `addClausesShort` | throws a clause only if no completion is minimal; always, if the complete matrix is not minimal |
| Encoding | `clause.cpp` | CNF, next free variable | `encodeEntries`, `exactlyOne`, `commanderEncoding`, `YBEClausesNew`, `fixFirstRows` | models are the cycle sets with that diagonal |
| Diagonals | `useful.cpp` `part`, `makeDiagonals` | a vector shared by all activations | partitions, one permutation per cycle type | exactly one diagonal per conjugacy class |
| Driver | `main.cpp` | options, per-diagonal counters, `nextFreeVariable` | option parsing, parallel loop | searches do not disturb one another, totals add up |
| Output, statistics, saved state | `useful.cpp`, `solveCadicalClass.cpp` | files | print, save, read | (formatting) |

The solver, as far as the program's answer depends on it:

| Part | Code (`cadical-master/src`) | State | What makes it correct |
|---|---|---|---|
| Trail and notifications | `external_propagate.cpp`, `backtrack.cpp`, `propagate.cpp`, `flags.cpp`, `decide.cpp` | trail, levels, `control`, `notified` | (environment of the observer) |
| Search | `internal.cpp`, `propagate.cpp`, `analyze.cpp`, `shrink.cpp`, `minimize.cpp`, `backtrack.cpp`, `decide.cpp`, `restart.cpp`, `reduce.cpp`, `collect.cpp`, `assume.cpp`, `constrain.cpp`, `external_propagate.cpp` | trail, reasons, clauses, LRAT chains, assumptions | answers and failed assumptions are right, chains are accepted, the search ends |
| LRAT checker | `lratchecker.cpp`, `proof.cpp`, `tracer.hpp` | clauses by identifier | what it accepts follows from the input |
| Incremental interface | `external.cpp`, `extend.cpp`, `restore.cpp`, `constrain.cpp` | extension stack, witnesses, taints, frozen variables | models of the simplified formula extend to the user's clauses; answers stay right over several queries |
| Variable elimination | `elim.cpp`, `gates.cpp`, `backward.cpp`, `instantiate.cpp` | clause database | models are preserved up to the extension stack |
| Subsumption | `subsume.cpp`, `vivify.cpp`, `transred.cpp` | clause database | the irredundant clauses keep their strength |
| Blocking | `block.cpp`, `cover.cpp`, `condition.cpp` | clause database, extension stack | each removed clause has a witness that restores it |
| Probing | `probe.cpp`, `decompose.cpp`, `ternary.cpp`, `deduplicate.cpp` | clause database | derived clauses follow, substituted variables come back |

How they interact. The driver builds one formula and one `CadicalSolver` per
diagonal; nothing else is shared between worker threads than `nextFreeVariable`
and the array of totals. `CadicalSolver` is a CaDiCaL external propagator:
CaDiCaL calls it synchronously, from `propagate`/`analyze`/`backtrack`
(`notify_*`), from `external_propagate` (`cb_propagate`,
`cb_has_external_clause`, `cb_add_external_clause_lit`), from `decide`
(`cb_decide`) and from `external_check_solution` (`cb_check_found_model`). Inside
those callbacks it calls `CommonInterface::propagate`/`check`, which call the
minimality check on a copy of the matrix; a thrown clause goes into the queue
that CaDiCaL drains. Within one search everything is sequential; what is hard is
the ORDER in which notifications, checks, clause deliveries and backtracks come.
Inside CaDiCaL all procedures work on one clause database: what one of them
removes is what another took for granted.

What is hard to test is listed, with its line, under `hazards` in
`PROJECT.json`. The main ones:

* `notify_backtrack` drops whole decision levels, while CaDiCaL keeps literals
  whose own level is lower and notifies them again (chronological backtracking);
* root-level units are notified eagerly, ahead of literals already on the trail;
* undo works from the observer's own memory, oldest entry first, and rebuilds
  domains from matrix entries that belong to literals it has not undone yet;
* two paths (`propagate` and `check`) write solutions, and a clause must reach
  the solver before either sees the same model again;
* a veto must come with a clause, through a queue that several callbacks fill;
* partial permutations are fixed out of order and along cycles, results of calls
  are ignored, and one of them is shared by all checks of a search;
* clauses change while they are reasons (on-the-fly strengthening, eager
  subsumption, removal of false literals, lazily explained literals);
* clauses come back from the extension stack, and each may taint the next.

## 2. Modules

| Module | What it is |
|---|---|
| `BitDomain` | `bitdomain_t` |
| `FlatDomains` | `bitdomains2_t`, `bitdomains3_t`; each cell implements `BitDomain` |
| `Propagator` | the observer and the part of CaDiCaL that drives it |
| `Catalogue` | abstract specification of the enumeration |
| `Enumerate` | enumeration loop, clause queue and callbacks; implements `Catalogue` |
| `PartialPerm` | both representations of partial permutations, as values |
| `PermPair` | one branch of the check on one representation, with a twin of the other |
| `CycleSets` | reference definitions: cycle set, isomorphism, minimal (no code behind it) |
| `MinCheck` | the minimality check, on top of `PartialPerm` |
| `ExactlyOne`, `Commander` | groups of literals; one group under unit propagation |
| `Encoding` | the whole CNF, against `CycleSets` |
| `Diagonals` | `part` and `makeDiagonals` |
| `Driver`, `Program` | `main`; and its composition with `Diagonals` |
| `IncrementalSat` | abstract specification of an incremental SAT solver |
| `Formula` | CaDiCaL's clause database between two searches |
| `External` | `add`, `assume`, `constrain`, `freeze`, `melt`, `solve`, restoring, extending |
| `Eliminate`, `Subsume`, `Blocking`, `Probing` | the procedures that simplify the database |
| `Inprocess` | their composition; implements `IncrementalSat` |
| `LratChecker` | CaDiCaL's proof checker behind the queue of what is traced |
| `Trail`, `Analyze`, `Failing` | assignment and propagation, conflict analysis, assumptions |
| `Cdcl` | the search with user, propagator and checker; implements `IncrementalSat` |
| `MC*` | instances for TLC |
| `DomainProofs`, `PropagatorProofs`, `EnumerateProofs`, `LratCheckerProofs`, `ProgramProofs`, `PermPairProofs`, `MinCheckProofs` | theorems |
| `PartialPermProofs` | lemmas about partial permutations, for the last two |

Definitions that are named after another one and that no specification uses
(most carry a comment that begins with "Mutant") record how the operation next to
them could plausibly go wrong; each property of the runs is known to reject one
of them.

### BitDomain and FlatDomains

The vector of bits is the set `dom`; `firstel` and `numTrue` are kept the way
the code keeps them, updated by each operation. `SetBit`/`ResetBit` have the
early returns as guards; the scan for a new least element is `NextAfter`.
`FlatDomains` keeps the index arithmetic (`chunkc`, `chunkr`) as it is written:
there an error of one changes a neighbour's cache instead of failing.

### Propagator

Observer side: `assignments`, `matrix`, `bitdomains`, `fixedCycleSet` and
`current_trail` are the fields of the same name. `notify_assignment(e, v, fixed)`
is that handler; `Undo` is one iteration of the inner loop of `notify_backtrack`
(one entry), `PopLevel` its `pop_back`; `cb_decide` and `fixDiag` (`Init`) are
translated directly. Domains are sets; their caches are `BitDomain`'s business.

Solver side: `trail`, `val`, `lvl`, `control` (trail length when each level was
opened) and `notified`, the length of the prefix handed over; `units` are the
variables whose flags say FIXED. `AssignAt` and `Assign` are `search_assign`: the
literal gets the level of its reason, which with an external propagator can be
lower than the current one.

A literal reaches the observer on one of four ways, and one kind reaches it on none:

* a unit on level 0 is notified at once by `learn_unit_clause` or
  `assign_original_unit` (`mark_fixed`), ahead of everything waiting on the trail;
* `external_propagate` hands the trail over when unit propagation is complete and
  free of conflict (`ExternalPropagate`, `NotifyAssignment`, `NotifyDone`);
* `search_assign_driving` (`Drive`: the literal of a learned clause, or of one of
  the observer's clauses) and `search_assign_external` (`PropagateExternal`: a
  literal of `cb_propagate`) hand it over right after the assignment, with all that
  waits, whatever propagation has still to find (`pc = "handover"`);
* `backtrack` hands over again the literals it keeps (`Unassign`,
  `pc = "renotify"`), after `notify_backtrack` (`Undo`, `PopLevel`);
* a literal that `cb_propagate` proposes on level 0 gets no unit clause
  (`propagate.cpp:144`) and is skipped as a root literal
  (`external_propagate.cpp:748`): the observer is never told (`Unheard`). So
  `AssignmentsAgree`, `DomainsRight` and `DecisionOpen` except these literals, and
  only these.

A literal of `cb_propagate` has no reason yet and is put on the current level;
what it implies inherits that level. `inexact` holds the literals whose level may be
too high for this reason, and `Explain` is what `explain_external_propagations`
does with them on a conflict: it lowers the level, and a literal that turns out to
be a unit is notified as fixed, possibly a second time. The observer keeps such a
literal on the level where it was listed (`TrailMirrored` says so).

Which literals can be assigned when is what makes the model faithful without a
SAT solver inside:

* the exactly-one groups of `encodeEntries` over the observed variables are
  there; `Propagate` is unit propagation on them. It takes the forced literals in a
  fixed order (`Forced`): CaDiCaL's order depends on watch lists. A forced literal
  stays forced until it is assigned, and implied literals of other clauses, which
  may come at any point and may be any literal, give the other orders;
* every other clause (Yang-Baxter, commander, learned, symmetry breaking) can imply
  any literal at any level up to the current one: `Imply` inside `propagate`, `Drive`
  after a backtrack or a clause of the observer, `PropagateExternal` for a literal of
  `cb_propagate`; together at most `MaxImplied` times in a behaviour;
* conflicts and restarts may backtrack anywhere, also in the middle of propagation
  (`Backtrack`, `Resume`).

`pc` is the place in CaDiCaL's loop. `Quiet` (`pc = "quiet"`) is when the
observer is up to date and its callbacks read its state.

### Enumerate and Catalogue

A clause is the set of models it excludes. The trail is `open`, the set of
models it still allows, and `complete`, "the matrix is full". Decisions, unit
propagation, analysis and backtracking move `open` (`Extend`, `Backtrack`). The
callbacks are actions of their own: `TimeOut`, `PropagateNothing`,
`PropagateUnit` (`cb_propagate`), `Explain` (`cb_add_reason_clause_lit`),
`CheckForClause` (`cb_has_external_clause`), `DeliverClause`
(`cb_add_external_clause_lit` and what CaDiCaL does with the clause),
`RejectModel`/`AcceptModel` (`cb_check_found_model` and `check`). `checkMin` is
the disjunction of its outcomes: a thrown clause (`Broken`), a written and
excluded solution (`Solution`), nothing (`Passed`).

The minimality check enters by its contract: on a complete matrix it throws
exactly when the model is not minimal; on a partial one it may throw; a clause
never excludes a minimal model. `MinCheck` is where that contract is checked
(`ClauseSound`, `WrittenMinimal`). `complete` stands for two things that
`Propagator` keeps apart: the trail has all entries, and the matrix is full. They
differ where a fixed entry was cleared from the matrix (`trail_fixed`) or was never
notified (`Unheard`); then `checkMin` treats the table of a model as a partial one.
`Enumerate` does not model these searches.

`Catalogue` says what the user relies on: each minimal model is written at most
once, nothing else is written, and a search that ends with "unsatisfiable" has
written all of them.

### PartialPerm and PermPair

`Fix` returns the object after `fix` and the result of the call, for
`pperm_plain` (a permutation cut into blocks) and `pperm_bit` (a set of images
for every point); `fixAndPropagate` follows the cycles of the diagonal as
`propagateDecision` does. `PermPair` makes, on one representation, the calls a
branch of the check can make (image of the row, least preimage, and in a partial
matrix the greatest one, the last two with their results ignored), and the same
calls on a twin of the other representation.

### MinCheck

The recursion of `checkMinimality` is an explicit stack; a frame holds its
arguments, the options still to be filtered and those still to be explored. An
option that is already fixed is not copied by the code: `shared` says that a
frame works on `initialPart` itself, which later checks start from. Of the
matrix the domains are kept, which is what the check reads. `maxMC` and
`maxDepth` are the limits that end a check by an exception.

### ExactlyOne, Commander, Encoding

Clauses are sets of integers, and the counter of free variables is threaded
through the operators as in the code. After the encoding one assignment of the
entries is chosen and closed under unit propagation: a table is accepted when no
clause fails, and everything else must have become decided (`AuxiliariesFollow`:
the program writes a matrix as soon as it is full, before CaDiCaL has assigned
the auxiliary variables). Rows can be given (`--fixFR`, `--unfixFR`) with both
encodings. With `--smallerEncoding` a row that holds the diagonal's value of a row
it is meant for yields a literal 0; `CheckZeros` is the loop of `main` that looks
for one and ends the program, and `AuxiliariesFollow` says that this, and nothing
else, makes it end.

### Diagonals, Driver, Program

`part` writes into one vector passed by reference; the activations are a stack of
frames, the vector is shared. `Driver` reads the options one by one, with their
checks in the order of the command line, takes one of the three branches, and
runs the loop over the diagonals with `Threads`; the unsynchronised
`nextFreeVariable = max(...)` is a read and a write of its own. `Program` runs
`Diagonals` between the options and the loop.

### Formula, External, Eliminate, Subsume, Blocking, Probing, Inprocess

`db` is what the procedures share: irredundant and redundant clauses (sets of
sets of literals), root units, the status of each variable, the extension stack
with the witness and the clause of each entry. A user works through a script of
calls; between `solve` and its answer the procedures that are switched on run in
any order the solver's loop allows, and each procedure is cut where the code may
stop at a limit. Schedules, limits, occurrence limits, the order of literals in a
clause and proof chains are left out or are a free choice; so is the search,
which contributes learned clauses (`Learn`), reductions (`Reduce`) and the answer
(`Answer`). Clauses marked garbage are gone at once. External and internal
variables are the same: compacting is left out.

### LratChecker, Trail, Analyze, Failing, Cdcl

`solver` is one record with the fields the code keeps: `trail`, levels, reasons,
`control`, clauses named by positions, unit identifiers, assumptions and
constraint. The functions of `Trail`, `Analyze` and `Failing` take and return
such records, or sets of them where the code's choice depends on something left
out, and append to `traced` what the code hands to `Proof`; the `LratChecker`
works through that, hint by hint, before the next step, as the calls of `Proof`
are synchronous. What is abstracted:

* watch lists: a clause is found when it is unit or false; a visit may wait as
  long as one of its false literals is not propagated, in any order;
* clauses are sets: no duplicate literals, no order of literals;
* which clauses `reduce` finds useless: any subset of the redundant clauses that
  are no reasons (glue and `used` are left out); garbage is collected at once at
  the end of `reduce`;
* when to restart: after any conflict since the last restart;
* decisions: one of the literals in `choices`, which stand for the scores, and
  after them the least variable, positively;
* the root-level propagation of `already_solved` is done by the loop;
* preprocessing, local search, lucky phases, bumping, rephasing, limits;
* the propagator works above the root level only (see section 6).

## 3. Runs

| Run | Instance | Question |
|---|---|---|
| `domains` | one domain of size 7; 2 x 2 cells of size 3 in one vector | are the caches right after any sequence of operations, and does each cell of the vector implement `BitDomain` |
| `trail` | five instances of the observer (below) | observer against solver, all properties |
| `trail_fixed` | the one with `--propLits` and no diagonal | (violated) does a fixed entry stay in the matrix |
| `enumerate` | four models, two minimal; with `--allModels`, `--propLits` and a time limit; with `--allModels` and `--checkFreq 1`; and with `--checkFreq 1` only | safety, termination and refinement of `Catalogue`; without `--allModels` only minimal models are written and nothing is lost |
| `enumerate_again` | without `--allModels` | (violated) is a model written once only |
| `perm_pair` | size 6, nine diagonals | do the representations of partial permutations agree, and stay fixed what was fixed |
| `perm_commutes` | the same | (violated) does a permutation handed on respect the diagonal |
| `mincheck` | size 4, no diagonal and four diagonals, all options, with and without limits | is each clause sound and usable, is what is written minimal |
| `encoding` | size 3, every kind of diagonal, both encodings, with and without commanders, given rows in both encodings; groups of up to ten literals | are the models of the CNF the cycle sets |
| `program` | every command line of up to three of eleven options, sizes up to 7, two threads | options, diagonals, loop and totals |
| `inprocess` | four variables, sessions of several queries on eleven formulas | is the simplified formula equivalent up to the extension stack, are the answers right |
| `cdcl` | up to six variables, sixteen sessions | are proofs accepted, reasons kept, answers right, and does the search end |

### Properties

Of the domains: `FirstelIsLeast`, `CellsConsistent` (the caches) and
`CellsAreDomains`: the first and the last cell of the vector implement `BitDomain`.

Of the observer (`Propagator`, `MCTrail`):

* `AssignmentsAgree`: at every callback the observer's assignment is the
  solver's, on every observed variable that is not `Unheard`, and those it does not
  know;
* `TrailMirrored`: bucket by bucket, `current_trail` is the notified part of the
  matching segment of CaDiCaL's trail, in its order, with all literals of a decision
  level and no root literals but those a conflict showed to be units later;
* `FixedAgree`: what was notified as fixed keeps its value on level 0;
* `MatrixRight`: a matrix entry shows a true literal, and every true literal
  notified on a level shows;
* `DomainsRight`: a domain contains every value still possible in the row, but for
  the value of a fixed entry (`DomainsSound`, observation 1 of section 6), and no
  other (`DomainsExact`, see the bounds) but those of `Unheard` literals;
* `DecisionOpen`: `cb_decide` proposes an unassigned literal whenever there is
  one, or a literal of a cell in which one is `Unheard`. This is also what lets `DecideUnobserved` leave the observed variables
  alone: when the proposal is empty there is none left to decide;
* `OtherOptions`: all of these in the instances without `--propLits`, with a
  diagonal and with `--smallerEncoding`, which run beside the first.

Of the enumeration: `ReportedOnce`, `NothingLost` (no clause, delivered or
waiting, excludes a minimal model that is not written), `ClausesServed` (a veto
has a clause, at most one waits), `FirstModelRight`, `EnumerationEnds`,
`ImplementsCatalogue`.

Of partial permutations: `RepresentationsAgree` (with a full matrix both offer the
same choices after the same calls, and no call whose result is ignored fails),
`CommutesWhenFull` (then what is handed on respects the diagonal), `FixedForever` (a
fixed image is never taken back, and every row a branch has passed has one).

Of the minimality check: `ClauseSound` (a clause excludes no minimal table with the
same diagonal), `ClauseUsable` (it is false or unit under the domains, so that
the solver can use it, and holds no literal 0), `WrittenMinimal` (a full table is
written only if it is minimal, also when a limit ended the check), `NoUndefined`
(no image that is not there is used), `InitialPartKept` (no check changes the
permutation that the later ones start from).

Of the encoding: `ModelsAreCycleSets`, `AuxiliariesFollow` (the entries decide
every other variable), `GroupsRight`. Of the driver: `SearchesApart`,
`TotalIsSum`, `DiagonalsRight` (one diagonal per conjugacy class, whatever inner
activations leave in the shared vector), `Terminates`.

Of the solver between searches: `ModelsExtend` (every assignment that satisfies
the irredundant clauses and the units becomes, replayed through the extension
stack, a model of the user's clauses), `Consequences` (nothing is derived that
does not follow), `FrozenKept`, and `KeepsPromise`, the refinement of
`IncrementalSat`. Redundant clauses do not count in `ModelsExtend`: `reduce` may
drop them at any time.

Of the search: `ProofAccepted` (the checker never stops the program),
`ReasonsHold` (a reason implies its literal by earlier literals of no higher
level), `AnswersRight` (a model of everything, or failed assumptions that cannot
be met), `ImplementsIncrementalSat`, `Answered`.

### Bounds and why they are enough

* `domains`: a scan for the next least element has a gap to jump over, and the
  vector has neighbours on all sides; size 7 adds nothing but more of the same.
* `trail`: size 3 is the least at which a domain can be neither full, nor a
  singleton, nor empty, and at which a row can be complete through a single
  decision and its consequences; two levels plus the root are what a literal needs
  to be assigned out of order, kept by a backtrack and notified again on a level
  between, and two implied literals allow one to be fixed while another is being
  re-notified, or one to be handed over in the middle of the propagation of another.
  The instances are: `--propLits` without a diagonal (one implied, driven or
  proposed literal: that one can be proposed on the root, or on a level, explained
  and lowered); no `--propLits` (one, on three levels); `--propLits` and a diagonal
  with all variables, where entries start fixed and impossible values are observed
  (two);
  `--smallerEncoding`, the fewest variables, on two rows, which shows that rows do
  not disturb one another (one), and on one row with `--propLits`, three levels and
  three literals. Without a diagonal two literals are beyond a run of minutes; the
  theorems cover them. `trail_fixed` has them on one level, of the first instance
  (`PlainSpec`). `MaxLevel` and `MaxImplied` are guards of `OpenLevel` and of
  `Imply`, `Drive` and `PropagateExternal`, and nothing else, and they make
  behaviours finite, so deadlock is not checked. `DomainsExact` is not claimed for
  a diagonal with the full encoding: there `notify_backtrack` puts `diag[i]` back
  into a domain when it undoes a literal of (i, j, diag[i]), although `fixDiag`
  had removed it. `cb_decide` may then propose a value that the diagonal has
  taken: a decision that can only fail. The search takes longer, the result is the
  same (`DomainsSound`). The size 3 does not reach the loss of a fixed value
  (observation 1 of section 6 needs two other values): that it is the only loss is
  what the theorem says, for every size.
* `enumerate`: two minimal and two other models are the least with clauses that
  exclude several models, one or none; `MaxReports = 2` is enough to see a model
  written a second time. The first copy has a check skipped now and then
  (`EveryTime = FALSE`), the other two never. The search may stop (`unsat`, `stopped`), so deadlock is
  not checked; `EnumerationEnds` says it stops only there.
* `perm_pair`: the diagonals of size 6 have up to three cycles of equal and of
  different length, and fixed points, so that a cycle can be sent to itself rotated,
  to another one, or be refused.
* `mincheck`: size 4 has diagonals with two equal cycles, with fixed points and with
  a single cycle, and without a diagonal all cycle sets of the size. The domains are those unit
  propagation leaves for all cycle sets, restricted to parts of their entries, and
  what pairs of them leave open between them. `Unlimited` limits never apply,
  `Tight` ones stop most checks of partial tables.
* `encoding`: size 3 has a law instance with three different arguments; all 216
  tables of permutations, and all cycle sets with one entry changed, are tried.
  The commander encoding cuts groups of up to ten literals into three blocks of
  every kind of remainder, the longest of them twice.
* `program`: three options let one be read before, between and after two others.
  Size 7 has 15 partitions and recursion of every depth up to 7.
* `inprocess`: each formula gives work to some procedures (`MCInprocess` says what).
  `ElimBoundMax` (the elimination bound), `RedMax` (redundant clauses at a time) and
  `ExtMax` (length of the extension stack beyond which nothing is blocked) keep
  the states finite.
* `cdcl`: the sessions were chosen so that every branch of the analysis is
  reached: shrinking with and without root literals, minimization, on-the-fly
  strengthening that drives, units learned above the root, explanations during
  analysis and at the assumptions, failed assumptions and constraints of every
  kind. One branch is never reached: a conflict in `propagate_out_of_order_units`.
  `ReduceMax` bounds the reductions of a session.

### Fairness

`Enumerate` (`Fairness`, `MCFairness` in `MCEnumerateBoth`): weak fairness on the
callbacks, which are sequential code and return. Strong fairness on `Reach`,
`Backtrack(Models)` and `Unsatisfiable`: CaDiCaL is a complete solver, so it does
not stay away forever from a model its clauses admit, comes back to the root
level (restarts), and notices when nothing is left; `Stop` likewise, because
`terminated_asynchronously` is polled in its loop. Strong fairness on the
deliveries that leave the clause loop: each delivery that stays in it assigns a
literal of a finite trail. Nothing is assumed about how often `rand() % checkFreq`
lets a partial check run, but that with `checkFreq` above 1 it skips one at some
time: this ends the loop of `cb_propagate` calls (weak fairness on
`PropagateNothing`). With `--propLits --checkSols --checkFreq 1` (`MayLoop`) nothing
does, and the fairness says nothing: a root literal the observer never hears of
stays unit for it, and may be proposed again for ever (section 6). So
`EnumerationEnds` is claimed, and run, for `--propLits` with skipped checks and for
`--checkFreq 1` without `--propLits`; safety and the refinement are proved for all
options.

`Program`: each thread that can go on does so (weak fairness per thread, as the
operating system schedules it), and so does the sequential part of `main`.

`Cdcl`: weak fairness on all steps together (`Going`), the least that can be
assumed of a sequential program. Every step but `Finished` flips `tick`, which is
there for this reason only. `Answered` therefore needs no assumption on WHICH
literal is decided, clause propagated, restart or reduction made (only that
`reduce` is called finitely often and `restart` after conflicts).

### What disagrees with the code's comments

1. `trail_fixed`. `fixedCycleSet` is documented as "true if entry in
   currentMatrix is fixed" (`solveCadicalClass.hpp:24`). Undoing a true literal
   sets `matrix[r][c]` to -1 unless that very literal is fixed (`:223-228`). If
   (r,c,k2) was true on level 1 and re-notified after a chronological backtrack,
   and then (r,c,k) is fixed at level 0 as a consequence of a root-level literal,
   the conflict between the two brings the solver to level 0; undoing (r,c,k2)
   clears the entry that (r,c,k) had written, and (r,c,k) is never notified
   again. The domain keeps its value but the matrix stays incomplete: `checkMin`
   never finds it fully defined, and `check` prints -1. This is why
   `MatrixComplete` speaks of entries that are not fixed. It needs a root-level
   literal assigned while a decision level is open; CaDiCaL's default options
   `chrono` and `chronoreusetrail` do that when a unit is learned and part of the
   trail is kept (`analyze.cpp:590-665`).
2. `enumerate_again`. `check` is documented as "prints and excludes graph from
   search space" (`solveGeneral.hpp:43`). Without `--allModels` (the default) it
   prints, adds no clause and accepts the model; `CadicalSolver::solve` runs
   `while (solver->solve() == 10)`, so the same model is found and printed again,
   without end.
3. `perm_commutes`. `propagateDecision` is to "ensure cycles match == ensure diag
   is fixed" (`minCheck_V2.cpp:99`). `pperm_plain::fix` of the last position of a
   block starts no new block (`useful.cpp:347`), so the position stays open and
   `permOf` returns -1; the propagation along the cycle of -1 fails, `filterOptions`
   ignores the result and hands on a permutation that does not map cycles to
   cycles. It happens with partial matrices only (`CommutesWhenFull`), and no
   clause that excludes a minimal table comes of it in `mincheck` (`ClauseSound`).

## 4. Theorems

Proved with TLAPS for all values of the constants that satisfy the named
assumptions (`NAssumption`, `SizeAssumption`, `ShapeAssumption`, `ConstantsAssumption`,
`DriverAssumption`, `VarsAssumption`), with no bound
on sizes.

* `DomainProofs!CachesCorrect`. The inductive invariant adds that the domain is
  a finite set, and that `firstel` is its least element also when it is being
  removed; `LeastNat` gives the least element of a non-empty set of naturals.
* `DomainProofs!CellCachesCorrect` (`CellsConsistent`): the same for every
  cell of a matrix of any shape in one vector. A word of the vector is written
  `At(r, c) + j` in one way only (`MixedRadix`, `Apart`) and lies inside it
  (`Within`), so an operation leaves every cell but its own as it was
  (`Untouched`). `EveryCellSteps` says that each step is, on each cell, an
  operation of `bitdomain_t` or a stutter; from it follow the caches
  (`CellStepOK`) and `EndCellsAreDomains` (`CellsAreDomains`), the refinement of
  `BitDomain` by the first and the last cell.
* `PropagatorProofs!TypeCorrect`, `ObserverMirrorsSolver` (`AssignmentsAgree`),
  `ObserverHearsAll` (without `--propLits` there are no exceptions),
  `FixedForGood` (`FixedAgree`). `AssignmentsAgree`
  says something at quiet moments only; the inductive invariant `IInv` says what
  holds in between:
  - `LevelsFit`: levels, `control` and `notified` are in order;
  - `TrailFits`: the trail lists each assigned variable once, and what was assigned
    before level l was opened has a level below l. This is why backtracking
    never drops a literal below `control[new_level + 1]`;
  - `BucketsSound`, `BucketsComplete`: bucket l of `current_trail` holds notified
    literals of control segment l, once each, which are on a decision level or were
    explained as units since (`Listable`), and every notified non-root literal is in
    a bucket (while `notify_backtrack` runs, those below the target's segment end);
  - `FixedFits`: what the observer has as fixed are the units, and these are
    assigned on level 0; only assigned literals of decision levels are inexact, and
    without `--propLits` there are none, and no unheard ones;
  - `ObserverAgrees`: the observer has the solver's value for each literal that is
    fixed or in a bucket, and no value for the others;
  - `MatrixAgrees`: matrix entries show true literals, also during an undo.

  The proof goes action by action. The delicate ones are `Unassign`, where the
  literals that stay close ranks (`NthEnumerates` shows that the kept positions
  are enumerated once each) and the buckets that survive must hold exactly
  literals that stay, and `Undo`, where the entry undone must not be known from
  anywhere else. `IInv` was checked by TLC on the instances of the runs first.
* `PropagatorProofs!BucketsMirrorTrail` (`TrailMirrored`), `MatrixShowsTrue`
  (`MatrixRight`), `DomainsHoldPossible` (`DomainsRight`), `DecisionIsOpen`
  (`DecisionOpen`), for every size, choice of rows, diagonal and encoding. They
  rest on `JInv`, inductive together with `IInv`:
  - `BucketsOrdered`: a bucket lists its literals in the order of the trail;
    with `BucketsSound` and `BucketsComplete` this makes it the list that
    `TrailMirrored` names (`BucketIsListed`);
  - `Settled`: the round of `external_propagate`, its callbacks and decisions happen
    after complete unit propagation without a conflict, the other hand-overs at any
    time; `ClosedSettled`: when a level was opened, the
    others of the group of each true literal below were false already. So a
    backtrack to that level never leaves a true literal below it with a
    competitor;
  - `Shown`: a true literal that is not fixed and not about to be undone is in its
    matrix entry and domain, unless another true literal of its group contests it
    (as between a hand-over or a re-notification and the conflict that follows);
  - `UnobservedKept`, `DiagonalKept`: entries without a variable keep what the
    constructor gave them;
  - `DomainsReasoned`: a value is missing from a domain only for a known reason;
    `DomainsOpen`: no false value is in one.

  The delicate steps are the undo of a contested literal (`ShownUndo`, `RowsUndo`).
  A true literal at a quiet moment then decides its row and column
  (`QuietRow`), from which matrix and domains follow. For `DecisionIsOpen` a
  proposed literal is unassigned, or its cell has an unheard one (`ProposedIsOpen`), and an open cell gives a
  proposal (`OpenIsProposed`). If no cell is open, each cell of a row has one value
  left (`OneValueLeft`), so that by counting (`SameNumber`) no literal of the row is
  unassigned (`NothingLeft`).
* `EnumerateProofs!QueueDiscipline`: nothing but minimal models is written, no
  clause (delivered or waiting) excludes an unwritten minimal model, a veto always
  has a clause, and at most one clause waits. The inductive invariant adds where
  in CaDiCaL's loop the queue can be non-empty, and that a complete model written
  but not yet excluded is excluded by the waiting clause.
* `EnumerateProofs!NoClauseWaitsBehind` (`ClausesServed`): `cb_check_found_model`
  never rejects a model without a clause to give, and no clause is queued behind
  another, so that `cb_has_external_clause` leaves none behind.
* `EnumerateProofs!NoDuplicates`: with `--allModels`, no model is written twice.
* `EnumerateProofs!EnumerationComplete`: with `--allModels`, `Enumerate`
  implements `Catalogue`: initial states map to initial states, and every step
  writes a model, finishes, is cut short or stutters.
* `LratCheckerProofs!AcceptedFollowsHolds`: whatever a solver traces, every clause
  the LRAT checker holds, and every clause it has found to follow from assumptions
  and constraint, is true in all models of the clauses added as input. With
  `ProofAccepted` this means that an accepted run has learned nothing wrong. The
  inductive invariant adds that, while the hints of a clause C are followed, a
  model that falsifies C makes every literal assigned so far true
  (`Propagated`): each was the last literal left of a clause that holds.
* `ProgramProofs!LoopSearchesApart` (`SearchesApart`), `LoopTotalIsSum`
  (`TotalIsSum`): for every number of threads and diagonals and every command
  line, no diagonal is searched by two threads, the variables of a search do not
  depend on the unsynchronised global, and the total counts the models of each
  diagonal once. `PartKeepsVector`: for every problem size the recursion of `part`
  stays inside the vector that its activations share, and changes no entry of its
  callers.
* `PermPairProofs!NothingTakenBack` (`FixedForever`): for every problem size, every
  diagonal and either representation, whatever calls a branch makes in whatever
  order, a fixed image is never taken back, no choice comes back, a passed row
  keeps an image, and `element` stays a permutation. The inductive invariant
  (`IInv`) says what `pperm_bit` has in common with `pperm_plain`: its sets are
  `Images` of a permutation h with some points decided. As h is one-to-one, taking
  a possible image from the other points never takes the last one of any
  (`NoneEmptied`), and what remains are the images of h with two of them exchanged
  (`ImagesDecided`). That the constructors give such objects rests on counting
  (`PositionsNumber`, from `RanksNumber`); a sequence of calls is handled
  by `Iterates` and `HandedOn` (`FixAllKeeps`); and whatever word lies
  before `part`, only points are handed to `fix` (`FollowKeeps`).
* `PermPairProofs!DiagonalRespected` (`CommutesWhenFull`) and `SameChoices`
  (`RepresentationsAgree`): for every problem size and all diagonals that are
  `Consecutive`, that is, whose cycles are intervals run through upwards, cycles of
  equal length next to each other. These are the diagonals that `makeDiagonals`
  builds (`CyclesAreIntervals` of `Diagonals`; the instances of the run are checked
  against it by an assumption of `MCPermPair`); `--diag` may give others, for which
  the code's use of positions as points means something else. The inductive
  invariant (`AgreeInv`) says that both representations are those (`As`) of one
  permutation h with decided points F, where with a point its whole cycle is
  decided, in every class the decided points come first, and h respects the
  diagonal (`Sound`). Three arguments carry it. The blocks of `part` are the undecided
  points of a class, so both offer the same choices (`BlocksAreRooms`, `AsOptions`,
  `AsPreimages`). Every call inside `propagateDecision` finds its image still
  undecided, so none fails (`NextExchange`, `CallsReturn`). And the exchanges along a
  cycle, during which h does not respect the diagonal, add up to a turn of the
  cycle or to the exchange of two whole cycles, after which it does again
  (`ChainTurns`, `ChainSwaps`, `ChainCommutes`).
* `MinCheckProofs!SharedPermutationKept` (`InitialPartKept`): for every problem size,
  all settings whose diagonals are `Consecutive` (`DiagonalsBuilt`) and any domains,
  partial or full, in which the diagonal is known (`DiagonalsKnown`), no check changes
  the permutation object `initialPart`, which all checks share. `MCMinCheck` checks
  both premises of the instances of the run. The object is not copied for a row that
  is fixed; so a call of `fix` on it in one check would be seen by all later ones. The
  inductive invariant (`KeptInv`) says which frames hold it: only the first one, or
  the one of row 1 when it passed row 0 as its option, and there only with nothing
  done yet. Three facts make that so: row 0 is fixed from the start only if its
  image is known to be 0 (`FixedFromStart`), and then entry (0, 0) is compared
  with itself, which calls nothing (`SharedFiltered`); in the same table the next
  row is free (`FixedFromStart`), so that its options are copies; and full
  permutations are not extended.
* `MinCheckProofs!WrittenAreMinimal` (`WrittenMinimal`), `FullTableClauseSound`
  (`ClauseSound`), `FullTableClauseUsable` (`ClauseUsable`) and `FullTableDefined`
  (`NoUndefined`): for every problem size, all settings with such diagonals
  (`DiagonalsBuilt`, `DiagonalsKnown`) and all domains of which the full ones are
  tables of cycle sets with that diagonal (`CompleteAreTables`), the check of a full
  table is right. Either no renaming that keeps the diagonal makes the table smaller,
  and it may be written as the representative of its class; or the clause thrown, in
  the shorter or the older form, is false in the table and true in every
  representative, and none of its literals lacks a variable. The first of the four
  says `WrittenMinimal` as it is, the others their property for the states with a full
  table (`Full(dom) =>`). The inductive invariant (`FullInv`) says of a running check
  (`Explored`): the permutations of an activation of row r have the points before r
  decided and agree with the table in the first r entries (`Good`), and every
  renaming that makes the table smaller is pending in some activation: it fits a
  permutation not entered yet, an option not filtered yet, or a permutation kept and
  not explored yet. Its parts:
  - a permutation object stands for the renamings that fit what it has decided
    (`Fits`), and a call of `fixAndPropagate` leaves exactly those with the new image
    (`CallNarrows`, from `AgreeInv`'s lemmas); a preimage that is still open may be set
    to its least possible value, since no fitting renaming has a smaller one
    (`PreimageNarrows`);
  - an option is kept with all the smaller renamings it had, or dropped with none, or
    its completion by `extendPerm` and `getPerm` improves the table (`OptionFiltered`,
    `Extended`);
  - a renaming that improves the table in entry (r, c) gives a clause whose literals
    are all false in it; a table that falsifies them all is renamed to a smaller one
    by the same permutation (`ClauseThrown`, with `SmallerAfterAll` for the shorter
    and `OldClauseExcludes` for the older form; `ClauseOfLits` for the literals that
    `toClause` merges);
  - a complete permutation is compared with all entries in order, as the numbers
    i * N + j go through the matrix (`CompleteChecked`), and in a full table nothing is
    cut by `maxMC` or `maxDepth`.

  For partial tables the same properties are model-checked only. There the argument
  would have to bound what a permutation object may still become by what unit
  propagation leaves in the domains, and the loops over several values of one
  entry (`FilterUnmoved`, `Greatest`) come in.

Only model-checked: `ClauseSound`, `ClauseUsable` and `NoUndefined` of `MinCheck` for
partial tables, all of `Encoding`, `Inprocess` and `Cdcl`, and
`DiagonalsRight` of `Program` (recursion over data, some of it by RECURSIVE
operators, or folds over it, which the prover cannot follow for every input); the refinements of `IncrementalSat`; `FirstModelRight`, which is
`QueueDiscipline` and `NoClauseWaitsBehind` for the copy of the variables that
`enumerate` runs without `--allModels`; and everything under fairness
(`EnumerationEnds`, `Terminates`, `Answered`), which is out of its reach as well.

## 5. Not modelled

* `fixFirstRow` (option `--fixRow`) in the observer; column and diagonal groups
  when only some rows are modelled (they are among the clauses behind `Imply`).
* The branch of `addClause`/`getCycleSet` for `checkMode` (nothing sets it), the
  files of `saveState`/`readState`, output formatting and statistics, the old solver
  class header (declarations without an implementation).
* CaDiCaL: compacting (a renaming), phases, flipping, lookahead, local search,
  lucky phases, rephasing, scores and bumping (heuristics that derive nothing);
  building LRAT chains between searches (`lratbuilder.cpp`) and in the
  simplification procedures; the checker's resolution mode and its weakened
  clauses, the other checkers and the file tracers; parsing, options, profiling,
  messages, the command line program, `mobical`, and the C interfaces, which hand
  calls on.

About two thirds of the implementation's lines are in this list: most of CaDiCaL
is heuristics, statistics, options, proof file formats and testing tools.
What is left there that could be modelled next, in this order: LRAT chains of the
simplification procedures, checked by `LratChecker`; the composition of `Cdcl`
with `Inprocess`, which today meet in `IncrementalSat` only; compacting with its
two numberings of variables; `fixFirstRow`.

## 6. Observations without a run

Met while modelling and proving; each concerns code outside the bounds or the
scope of the runs, so none is claimed as a finding.

* Observation 1, `solveCadicalClass.hpp:188-189`, `:229-237`: the domain of a fixed
  entry can lose its value. Size 4, no diagonal; the entry (0,3) gets the value 2 on
  level 1, and then (0,2) the value 2 as a unit on level 0, notified in the same
  propagation. The conflict backtracks to level 1, a false literal of (0,2,1) is
  undone, and the literal (0,3,2), which is kept, is notified again: it removes 2
  from the domain of (0,2), whose size is no longer 1. The backtrack to level 0
  undoes (0,3,2), but does not put 2 back where it finds a matrix entry other than
  -1. When the other values are excluded the domain of the fixed entry is empty,
  and `preCheck` (`minCheckCommon.cpp:22`) skips the minimality check for good, which
  costs pruning, not solutions. `DomainsSound` excepts this case and no other, and is
  proved in this form.

* `external_propagate.cpp:143-192`, `:748`, `propagate.cpp:144`: a literal that
  `cb_propagate` proposes on level 0 is not notified. With `--propLits --checkSols
  --checkFreq 1` the next call checks the same table, finds the same clause, unit by
  the literal that is still unknown to the observer, and proposes the literal again,
  which is true and ignored: the loop does not end. With another `checkFreq` the
  literal is proposed until a check is skipped. On higher levels
  `search_assign_external` notifies it and the loop goes on.
* `clause.cpp:364`, `main.cpp:394`: with `--smallerEncoding --unfixFR` a row that
  holds the diagonal's value of its row can be no row of a solution, so the clause
  could be left out; the program exits instead.
* `main.cpp:141`, `:161`: `--diag` and `--firstRow` are compared with the problem
  size at the time they are read. `--diag 0,1,2 --size 4` (default size 3 or a size
  given before) is accepted, and the search runs with a diagonal that is too short.
* `extend.cpp:11`: the upper half of a clause identifier is computed as `id << 32`,
  converted to `int`: it is always zero. Identifiers beyond 2^32 do not come back.
* `external.cpp:211`, `:230`: `flip` and `flippable` ask only whether the literal
  itself is a witness, `cadical.hpp` says that variables that act as witness are
  not flipped.
* `backward.cpp:106`: `satisfied` is set while a clause is scanned (lines 88, 136), and not
  reset for the next clause; the next ones in the occurrence list are removed as
  satisfied. `Eliminate` keeps this behaviour, and `inprocess` finds no harm in its
  sessions (`ModelsExtend`): units are propagated at once, and satisfied clauses go
  before the next clause of the queue is tried.
* `deduplicate.cpp:105`: the branch for hyper unary resolution does not ask whether
  the clause is garbage. With LRAT the chain may cite a duplicate that has been
  deleted from the proof.
* `propagate.cpp:144`: a literal the propagator assigns on the root level gets no
  identifier of a unit clause; a later analysis with LRAT asserts one
  (`analyze.cpp:262`). `Cdcl` lets the propagator work above the root level only.
* `assume.cpp:524`: the rank of an assumption is computed in 64 bits and returned as
  `int`, so that its upper half, the level, is lost: the order is by trail position
  or variable only, contrary to the comment "set assumptions first". Only the
  reuse of the trail depends on it. `Failing` keeps what is left of the rank.
* `analyze.cpp:649`: with `chronoreusetrail` the loop is always entered once, the
  case "default non-chronological back-jumping" (line 652) does not occur.
