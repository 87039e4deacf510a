----------------------------- MODULE MCEncoding -----------------------------
(***************************************************************************)
(* The formulas of size 3, or one group of literals by itself.             *)
(***************************************************************************)
EXTENDS Encoding

VARIABLES part,         \* which of the two
          size, commander, chosen, assignedG, phaseG

groupVars == <<size, commander, chosen, assignedG, phaseG>>

G == INSTANCE Commander WITH MaxGroup <- 10, assigned <- assignedG, phase <- phaseG

NoGroup == /\ size = 0 /\ commander = FALSE /\ chosen = {} /\ assignedG = {}
           /\ phaseG = "unused"
MCInit == /\ Init
          /\ \/ part = "formula" /\ NoGroup
             \/ part = "group" /\ G!Init /\ set = CHOOSE s \in Settings : TRUE
MCNext == /\ UNCHANGED part
          /\ \/ part = "formula" /\ Next /\ UNCHANGED groupVars
             \/ part = "group" /\ G!Next /\ UNCHANGED vars
MCSpec == MCInit /\ [][MCNext]_<<part, vars, groupVars>>

Id == [x \in Val |-> x]
Cyc(n) == [x \in Val |-> IF x < n THEN (x + 1) % n ELSE x]
Bij == {f \in [Val -> Val] : \A x \in Val : \E y \in Val : f[y] = x}
Conf(D, S, C, R, F, W) ==
  {s \in [diag : D, smaller : S, noCommander : C, rows : R, fixed : F, row : W] :
     /\ s.smaller \/ s.rows > 0 => s.diag # NoDiagonal
     /\ s.rows = 0 => ~s.fixed /\ s.row = Id}
Three == Conf({NoDiagonal, Id, Cyc(2), Cyc(3)}, BOOLEAN, BOOLEAN, {0}, {FALSE}, {Id})
           \cup Conf({Id, Cyc(2)}, BOOLEAN, {FALSE}, {1, 2}, BOOLEAN, {Id, Cyc(2)})

Singles(M) == [x \in Val \X Val |-> {M[x[1]][x[2]]}]

(* Every table whose rows are permutations, and every cycle set with one   *)
(* entry changed to any set of values.                                     *)
PermTables == {Singles(M) : M \in [Val -> Bij]}
Changed == {[Singles(M) EXCEPT ![x] = S] :
              M \in CS!AllCycleSets, x \in Val \X Val, S \in SUBSET Val}
AllTables == PermTables \cup Changed
-----------------------------------------------------------------------------
(* A block boundary off by one in commanderEncoding would leave a literal  *)
(* out or two literals unrelated: for groups of up to ten literals the     *)
(* clauses hold exactly when one member is true, and the members decide    *)
(* every auxiliary variable.                                               *)
GroupsRight == G!ExactlyOneTrue /\ G!AuxiliariesDecided
=============================================================================
