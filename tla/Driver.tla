------------------------------- MODULE Driver -------------------------------
(***************************************************************************)
(* main.cpp: the options are read one after the other, then one of three   *)
(* branches runs: a search without a diagonal, a search for one given      *)
(* diagonal, or a parallel loop over all diagonals (OpenMP, dynamic        *)
(* schedule, one diagonal at a time).                                      *)
(*                                                                         *)
(* A search is its number of variables and its number of models; what it   *)
(* does is the subject of the other modules.  A vector given on the        *)
(* command line is its length.                                             *)
(***************************************************************************)
EXTENDS Integers, Sequences, FiniteSets, FiniteSetsExt

CONSTANTS
  CommandLines,   \* the command lines to try: sequences of options
  Highest,        \* the number of variables of the search for diagonal i
  Models,         \* how many models that search reports
  Threads,        \* the OpenMP threads
  ParallelFrom    \* the loop is parallel from that many diagonals on

(* An option with its argument: a number, or the length of a vector.       *)
Option == [name : {"size", "diagPart", "diag", "firstRow", "fixFR", "unfixFR", "maxMC"},
           arg : Int]

ASSUME DriverAssumption ==
  /\ CommandLines \subseteq Seq(Option)
  /\ Highest \in [DOMAIN Highest -> Nat] /\ Models \in [DOMAIN Highest -> Nat]
  /\ ParallelFrom \in Nat /\ Threads # {}

VARIABLES
  argv,           \* the options not read yet
  opts,           \* what the options set
  phase,          \* "options", "diagonals", "encode", "solve", "loop",
                  \* "done" or "error"
  nextFreeVariable,
  next,           \* the next diagonal of the dynamic schedule
  pc, mine,       \* where a thread is, and the diagonal it works on
  nextFree,       \* a thread's own counter of variables
  seen,           \* nextFreeVariable as a thread read it for max
  numSols,        \* the models per diagonal
  total           \* "Total models found"

loopVars == <<nextFreeVariable, next, pc, mine, nextFree, seen, numSols, total>>
vars == <<argv, opts, phase, loopVars>>

Init ==
  /\ argv \in CommandLines
  /\ opts = [problem_size |-> 3, diagPart |-> FALSE, diagonal |-> 0, firstRow |-> 0,
             fixedRow |-> 0, numToFix |-> 0]
  /\ phase = "options"
  /\ nextFreeVariable = 0
  /\ next = 1
  /\ pc = [t \in Threads |-> "idle"]
  /\ mine = [t \in Threads |-> 0]
  /\ nextFree = [t \in Threads |-> 0]
  /\ seen = [t \in Threads |-> 0]
  /\ numSols = <<>>
  /\ total = -1
-----------------------------------------------------------------------------
(* One option.  The vectors grow when an option is repeated; their length  *)
(* is compared with the problem size as it is then.                        *)
Read(o) ==
  LET d == opts.diagonal + o.arg
      f == opts.firstRow + o.arg
      ok(p) == /\ opts' = p
               /\ UNCHANGED phase
      exit == phase' = "error" /\ UNCHANGED opts
  IN CASE o.name = "size" -> ok([opts EXCEPT !.problem_size = o.arg])
       [] o.name = "diagPart" -> ok([opts EXCEPT !.diagPart = TRUE])
       [] o.name = "diag" ->
            IF d = opts.problem_size
            THEN ok([opts EXCEPT !.diagonal = d, !.diagPart = TRUE]) ELSE exit
       [] o.name = "firstRow" ->
            IF f = opts.problem_size THEN ok([opts EXCEPT !.firstRow = f]) ELSE exit
       [] o.name = "fixFR" ->
            ok([opts EXCEPT !.fixedRow = 1, !.numToFix = IF o.arg > 0 THEN o.arg ELSE @])
       [] o.name = "unfixFR" ->
            ok([opts EXCEPT !.fixedRow = -1, !.numToFix = IF o.arg > 0 THEN o.arg ELSE @])
       [] o.name = "maxMC" -> IF o.arg > 0 THEN ok(opts) ELSE exit

ReadOption ==
  /\ phase = "options"
  /\ argv # <<>>
  /\ argv' = Tail(argv)
  /\ Read(Head(argv))
  /\ UNCHANGED loopVars

Branch ==
  /\ phase = "options"
  /\ argv = <<>>
  /\ IF opts.diagPart /\ opts.diagonal = 0
     THEN phase' = "diagonals" /\ UNCHANGED nextFreeVariable
     ELSE phase' = "encode" /\ nextFreeVariable' = 1
  /\ UNCHANGED <<argv, opts, next, pc, mine, nextFree, seen, numSols, total>>

(* part and makeDiagonals have run (Diagonals): a count per diagonal.      *)
StartLoop(diags) ==
  /\ phase = "diagonals"
  /\ phase' = "loop"
  /\ numSols' = [i \in 1 .. diags |-> 0]
  /\ UNCHANGED <<argv, opts, nextFreeVariable, next, pc, mine, nextFree, seen, total>>

(* The branches with one search.  Without a diagonal no total is printed.  *)
EncodeOne ==
  /\ phase = "encode"
  /\ nextFreeVariable' = nextFreeVariable + Highest[1]
  /\ phase' = "solve"
  /\ UNCHANGED <<argv, opts, next, pc, mine, nextFree, seen, numSols, total>>

SolveOne ==
  /\ phase = "solve"
  /\ total' = IF opts.diagPart THEN Models[1] ELSE total
  /\ phase' = "done"
  /\ UNCHANGED <<argv, opts, nextFreeVariable, next, pc, mine, nextFree, seen, numSols>>
-----------------------------------------------------------------------------
Diags == DOMAIN numSols
Team == IF Cardinality(Diags) >= ParallelFrom THEN Threads
        ELSE {CHOOSE t \in Threads : TRUE}

At(t, where) == phase = "loop" /\ t \in Team /\ pc[t] = where
Goto(t, where) == pc' = [pc EXCEPT ![t] = where]

(* schedule(dynamic, 1): the runtime hands out the next index.             *)
Take(t) ==
  /\ At(t, "idle")
  /\ next \in Diags
  /\ mine' = [mine EXCEPT ![t] = next]
  /\ next' = next + 1
  /\ nextFree' = [nextFree EXCEPT ![t] = 1]
  /\ Goto(t, "encode")
  /\ UNCHANGED <<argv, opts, phase, nextFreeVariable, seen, numSols, total>>

(* Mutant: the counter of variables is the global one.                     *)
EncodeShared(t) ==
  /\ At(t, "encode")
  /\ nextFree' = [nextFree EXCEPT ![t] =
                    (IF nextFreeVariable = 0 THEN 1 ELSE nextFreeVariable)
                      + Highest[mine[t]]]
  /\ Goto(t, "solve")
  /\ UNCHANGED <<argv, opts, phase, nextFreeVariable, next, mine, seen, numSols, total>>

(* encodeEntries, YBEClausesNew and the constructor of the solver.         *)
Encode(t) ==
  /\ At(t, "encode")
  /\ nextFree' = [nextFree EXCEPT ![t] = @ + Highest[mine[t]]]
  /\ Goto(t, "solve")
  /\ UNCHANGED <<argv, opts, phase, nextFreeVariable, next, mine, seen, numSols, total>>

(* Mutant: the index of the loop is shared by all threads.                 *)
SolveShared(t) ==
  /\ At(t, "solve")
  /\ numSols' = [numSols EXCEPT ![next - 1] = Models[mine[t]]]
  /\ Goto(t, "read")
  /\ UNCHANGED <<argv, opts, phase, nextFreeVariable, next, mine, nextFree, seen, total>>

(* solve, and numSols[i] = nModels.                                        *)
Solve(t) ==
  /\ At(t, "solve")
  /\ numSols' = [numSols EXCEPT ![mine[t]] = Models[mine[t]]]
  /\ Goto(t, "read")
  /\ UNCHANGED <<argv, opts, phase, nextFreeVariable, next, mine, nextFree, seen, total>>

(* nextFreeVariable = max(nextFreeVariable, highestVariable): a read and a *)
(* write, with nothing to keep other threads out between them.             *)
ReadGlobal(t) ==
  /\ At(t, "read")
  /\ seen' = [seen EXCEPT ![t] = nextFreeVariable]
  /\ Goto(t, "write")
  /\ UNCHANGED <<argv, opts, phase, nextFreeVariable, next, mine, nextFree, numSols, total>>

(* Mutant: the thread stays in the loop body.                              *)
WriteGlobalStay(t) ==
  /\ At(t, "write")
  /\ nextFreeVariable' = Max({seen[t], nextFree[t] - 1})
  /\ Goto(t, "read")
  /\ UNCHANGED <<argv, opts, phase, next, mine, nextFree, seen, numSols, total>>

WriteGlobal(t) ==
  /\ At(t, "write")
  /\ nextFreeVariable' = Max({seen[t], nextFree[t] - 1})
  /\ Goto(t, "idle")
  /\ UNCHANGED <<argv, opts, phase, next, mine, nextFree, seen, numSols, total>>

Thread(t) ==
  Take(t) \/ Encode(t) \/ Solve(t) \/ ReadGlobal(t) \/ WriteGlobal(t)

(* The barrier at the end of the loop, and the sum.                        *)
EndLoop ==
  /\ phase = "loop"
  /\ next \notin Diags
  /\ \A t \in Team : pc[t] = "idle"
  /\ total' = MapThenSumSet(LAMBDA i : numSols[i], Diags)
  /\ phase' = "done"
  /\ UNCHANGED <<argv, opts, nextFreeVariable, next, pc, mine, nextFree, seen, numSols>>

Exit == phase \in {"done", "error"} /\ UNCHANGED vars

-----------------------------------------------------------------------------
(* Two threads never work on the same diagonal, and a thread's variables   *)
(* are those of its own diagonal whatever the others have written to       *)
(* nextFreeVariable: the lost update of max is harmless.                   *)
SearchesApart ==
  phase = "loop" =>
    \A t \in Team :
      /\ pc[t] # "idle" => \A u \in Team \ {t} : mine[u] # mine[t]
      /\ pc[t] \in {"solve", "read", "write"} => nextFree[t] = 1 + Highest[mine[t]]

(* The total that is printed counts every diagonal once, whichever thread  *)
(* had it and in whatever order the searches ended.                        *)
TotalIsSum ==
  phase = "done" /\ numSols # <<>> =>
    /\ \A i \in Diags : numSols[i] = Models[i]
    /\ total = MapThenSumSet(LAMBDA i : Models[i], Diags)

(* The run ends: every thread leaves the loop and main passes the barrier. *)
Terminates == <>(phase \in {"done", "error"})
=============================================================================
