------------------------------ MODULE Program ------------------------------
(***************************************************************************)
(* main: the driver, and in its third branch the diagonals it loops over.  *)
(* part and makeDiagonals run between the options and the loop.            *)
(***************************************************************************)
EXTENDS Driver

VARIABLES size, v, parts, stack, diags, done

diagVars == <<size, v, parts, stack, diags, done>>

D == INSTANCE Diagonals

ProgramInit == Init /\ D!Init

Start ==
  /\ Branch
  /\ IF phase' = "diagonals" THEN D!CallPart(opts.problem_size)
     ELSE UNCHANGED diagVars

MakeDiagonals == phase = "diagonals" /\ D!PartStep /\ UNCHANGED vars

Loop == done /\ StartLoop(Len(diags)) /\ UNCHANGED diagVars

Steps == \/ Start
         \/ MakeDiagonals
         \/ Loop
         \/ (ReadOption \/ EncodeOne \/ SolveOne \/ EndLoop) /\ UNCHANGED diagVars
ThreadStep(t) == Thread(t) /\ UNCHANGED diagVars

ProgramNext == Steps \/ (\E t \in Threads : ThreadStep(t)) \/ (Exit /\ UNCHANGED diagVars)

(* A thread that can run does; a search ends (Enumerate).                  *)
ProgramSpec ==
  /\ ProgramInit /\ [][ProgramNext]_<<vars, diagVars>>
  /\ WF_<<vars, diagVars>>(Steps)
  /\ \A t \in Threads : WF_<<vars, diagVars>>(ThreadStep(t))
-----------------------------------------------------------------------------
(* The loop visits one diagonal of every conjugacy class, in the shape the *)
(* partial permutations need; on the way the activations of part never     *)
(* leave the vector they share or change each other's entries.             *)
DiagonalsRight ==
  /\ phase = "diagonals" => /\ D!LevelInBounds /\ D!SharedVectorKept
                            /\ D!OnePerClass /\ D!CyclesAreIntervals
  /\ phase = "loop" => DOMAIN numSols = DOMAIN diags
=============================================================================
