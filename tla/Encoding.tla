------------------------------ MODULE Encoding ------------------------------
(***************************************************************************)
(* The CNF of clause.cpp: entries of the table as exactly-one groups, the  *)
(* commander encoding of "at most one", the clauses of the cycle set law,  *)
(* and the clauses for given first rows.  main.cpp calls the functions in  *)
(* this order, threading the counter of free variables through them.       *)
(*                                                                         *)
(* After the encoding one assignment of the entries is chosen (what the    *)
(* decisions of cb_decide amount to) and closed under unit propagation.    *)
(* A literal is an integer, a clause a set of literals; the order in which *)
(* the law's auxiliary variables get their numbers is left out.            *)
(***************************************************************************)
EXTENDS ExactlyOne

CONSTANTS N,            \* problem_size
          Settings,     \* the settings to check: records of type Setting
          Tables        \* the assignments of the entries to try

Val == 0..(N - 1)
NoDiagonal == <<>>      \* diagPart is false

(* rows: 0, or how many of the first rows are to be (fixed) or not to be   *)
(* (~fixed) equal to the row given on the command line.                    *)
Setting == [diag : [Val -> Val] \cup {NoDiagonal}, smaller : BOOLEAN,
            noCommander : BOOLEAN, rows : 0..N, fixed : BOOLEAN, row : [Val -> Val]]

ASSUME EncodingAssumption ==
  /\ N \in Nat \ {0}
  /\ Settings \subseteq Setting
  /\ \A s \in Settings : s.smaller \/ s.rows > 0 => s.diag # NoDiagonal
  /\ Tables \subseteq [Val \X Val -> SUBSET Val]

VARIABLES set,          \* the setting
          phase,        \* which function comes next
          lits,         \* cycset_lits: the variable of an entry, or 0
          nextFree,     \* the next free variable
          cnf,          \* the clauses so far
          table,        \* the values chosen for every entry
          assigned      \* the literals that are true

vars == <<set, phase, lits, nextFree, cnf, table, assigned>>

diagPart == set.diag # NoDiagonal
Entries == Val \X Val \X Val
-----------------------------------------------------------------------------
(* exactlyOne for a sequence of groups.                                    *)
ExactlyOneAll(groups, free) ==
  FoldLeft(LAMBDA acc, g :
             LET e == exactlyOne(g, acc.free, set.noCommander)
             IN [cnf |-> acc.cnf \cup e.cnf, free |-> e.free],
           [cnf |-> {}, free |-> free], groups)
-----------------------------------------------------------------------------
Init ==
  /\ set \in Settings
  /\ phase = "entries"
  /\ lits = [e \in Entries |-> 0]
  /\ nextFree = 1
  /\ cnf = {}
  /\ table = [x \in Val \X Val |-> {}]
  /\ assigned = {}

(* The entries that get a variable, numbered row by row.                   *)
HasVariable(e) == set.smaller => e[1] # e[2] /\ e[3] # set.diag[e[1]]
Number(e) ==
  Cardinality({f \in Entries :
     /\ HasVariable(f)
     /\ f[1] * N * N + f[2] * N + f[3] <= e[1] * N * N + e[2] * N + e[3]})

(* A sequence of groups for the pairs of a set, row by row, each group a   *)
(* sequence over Val.                                                      *)
Pairs == [n \in 1..(N * N) |-> <<(n - 1) \div N, (n - 1) % N>>]
Groups(S, Member(_, _)) ==
  LET q == SelectSeq(Pairs, LAMBDA x : x \in S)
  IN [n \in DOMAIN q |-> [j \in 1..N |-> Member(q[n], j - 1)]]

(* Both encodeEntries: every entry has one value, every value one place in *)
(* its row, and every value one place on the diagonal.  With a diagonal,   *)
(* its entries and values are left out or given as units.                  *)
encodeEntries ==
  /\ phase = "entries"
  /\ lits' = [e \in Entries |-> IF HasVariable(e) THEN Number(e) ELSE 0]
  /\ LET free == Cardinality({e \in Entries : HasVariable(e)}) + 1
         cells == Groups({x \in Val \X Val : diagPart => x[1] # x[2]},
                         LAMBDA x, v : lits'[<<x[1], x[2], v>>])
         places == Groups({x \in Val \X Val : diagPart => x[2] # set.diag[x[1]]},
                          LAMBDA x, c : IF diagPart /\ c = x[1] THEN 0
                                        ELSE lits'[<<x[1], c, x[2]>>])
         diagonal == Groups(Val \X {0}, LAMBDA x, i : lits'[<<i, i, x[1]>>])
         e == ExactlyOneAll(cells \o places
                              \o IF set.smaller THEN <<>> ELSE diagonal, free)
     IN /\ cnf' = e.cnf \cup IF diagPart /\ ~set.smaller
                             THEN {{lits'[<<i, i, set.diag[i]>>]} : i \in Val} ELSE {}
        /\ nextFree' = e.free
  /\ phase' = "law"
  /\ UNCHANGED <<set, table, assigned>>

(* One side of the law: row i, column j has value x, row i, column k has   *)
(* value y, row x, column y has value b, so the product of this side is b. *)
(* With smallerEncoding impossible combinations are left out and the       *)
(* literals of the diagonal too.                                           *)
Possible(i, k, x, y, b) ==
  set.smaller =>
    /\ x # set.diag[i]
    /\ (i = k) = (y = set.diag[i])
    /\ (x = y) = (b = set.diag[x])
SideClause(i, j, k, x, y, b) ==
  ({-lits[<<i, j, x>>]}
     \cup (IF set.smaller /\ i = k THEN {} ELSE {-lits[<<i, k, y>>]})
     \cup (IF set.smaller /\ x = y THEN {} ELSE {-lits[<<x, y, b>>]}))

Triples == SelectSeq([n \in 1..(N * N * N) |->
                        <<(n - 1) \div (N * N), ((n - 1) \div N) % N, (n - 1) % N>>],
                     LAMBDA t : t[1] < t[2])

(* Mutant: only one side of the law is encoded.                            *)
YBESidesLeft(t, b) ==
  {SideClause(t[1], t[2], t[3], x, y, b) :
     <<x, y>> \in {z \in Val \X Val : Possible(t[1], t[3], z[1], z[2], b)}}

(* The two products of the law share the variable of (i, j, k, b).         *)
YBESides(t, b) ==
  {SideClause(t[1], t[2], t[3], x, y, b) :
     <<x, y>> \in {z \in Val \X Val : Possible(t[1], t[3], z[1], z[2], b)}}
    \cup
  {SideClause(t[2], t[1], t[3], x, y, b) :
     <<x, y>> \in {z \in Val \X Val : Possible(t[2], t[3], z[1], z[2], b)}}

(* Both YBEClausesNew: without a diagonal every (i, j, k, b) gets its      *)
(* variable first; with one, a variable is made when a clause needs it.    *)
YBEClausesNew ==
  /\ phase = "law"
  /\ LET used == {u \in (DOMAIN Triples) \X Val : YBESides(Triples[u[1]], u[2]) # {}}
         lit(u) == IF u \notin used THEN 0
                   ELSE nextFree + Cardinality({w \in used :
                          w[1] < u[1] \/ (w[1] = u[1] /\ w[2] < u[2])})
         e == ExactlyOneAll([n \in DOMAIN Triples |-> [b \in 1..N |-> lit(<<n, b - 1>>)]],
                            nextFree + Cardinality(used))
     IN /\ cnf' = cnf \cup e.cnf
                    \cup UNION {{c \cup {lit(u)} : c \in YBESides(Triples[u[1]], u[2])} :
                                  u \in used}
        /\ nextFree' = e.free
  /\ phase' = "rows"
  /\ UNCHANGED <<set, lits, table, assigned>>

(* fixFirstRows and unfixFirstRows: the same row is meant for all of the   *)
(* first rows, apart from the diagonal.                                    *)
FixRows ==
  /\ phase = "rows"
  /\ LET cells == {x \in Val \X Val : x[1] < set.rows /\ x[1] # x[2]}
     IN cnf' = cnf \cup
          CASE set.rows = 0 -> {}
            [] set.rows > 0 /\ set.fixed ->
                 {{lits[<<x[1], x[2], set.row[x[2]]>>]} : x \in cells}
            [] OTHER -> {{-lits[<<x[1], x[2], set.row[x[2]]>>] : x \in cells}}
  /\ phase' = "zeros"
  /\ UNCHANGED <<set, lits, nextFree, table, assigned>>

(* main: the literal 0, an entry without a variable, ends the program.     *)
CheckZeros ==
  /\ phase = "zeros"
  /\ phase' = IF 0 \in UNION cnf THEN "exit" ELSE "choose"
  /\ UNCHANGED <<set, lits, nextFree, cnf, table, assigned>>
-----------------------------------------------------------------------------
(* The search decides all entries that have a variable.                    *)
Choose ==
  /\ phase = "choose"
  /\ table' \in Tables
  /\ assigned' = {IF e[3] \in table'[<<e[1], e[2]>>] THEN lits[e] ELSE -lits[e] :
                    e \in {f \in Entries : lits[f] # 0}}
  /\ phase' = "propagate"
  /\ UNCHANGED <<set, lits, nextFree, cnf>>

(* Unit propagation, until a clause is false or nothing follows.           *)
Propagate ==
  /\ phase = "propagate"
  /\ IF Falsified(cnf, assigned) THEN phase' = "unsat" /\ UNCHANGED assigned
     ELSE IF UnitLits(cnf, assigned) = {} THEN phase' = "sat" /\ UNCHANGED assigned
     ELSE assigned' = assigned \cup UnitLits(cnf, assigned) /\ UNCHANGED phase
  /\ UNCHANGED <<set, lits, nextFree, cnf, table>>

Done == phase \in {"sat", "unsat", "exit"} /\ UNCHANGED vars

Next == encodeEntries \/ YBEClausesNew \/ FixRows \/ CheckZeros \/ Choose \/ Propagate \/ Done

Spec == Init /\ [][Next]_vars
-----------------------------------------------------------------------------
CS == INSTANCE CycleSets

(* What the assignment means: a table when every entry has one value, the  *)
(* entries without a variable being those of the diagonal.                 *)
Values(x) ==
  IF set.smaller
  THEN IF x[1] = x[2] THEN {set.diag[x[1]]} ELSE table[x] \ {set.diag[x[1]]}
  ELSE table[x]

IsTable == \A x \in Val \X Val : Cardinality(Values(x)) = 1
TheTable == [r \in Val |-> [c \in Val |-> CHOOSE v \in Values(<<r, c>>) : TRUE]]

Wanted ==
  /\ IsTable
  /\ \A r \in Val : {TheTable[r][c] : c \in Val} = Val
  /\ CS!IsCycleSet(TheTable)
  /\ diagPart => \A x \in Val : TheTable[x][x] = set.diag[x]
  /\ set.rows > 0 =>
       LET equal == \A x \in Val \X Val : x[1] < set.rows /\ x[1] # x[2] =>
                      TheTable[x[1]][x[2]] = set.row[x[2]]
       IN equal = set.fixed

(* The models of the formula are the cycle sets that were asked for:       *)
(* unit propagation from the entries refutes exactly the assignments that  *)
(* are none.                                                               *)
ModelsAreCycleSets ==
  /\ phase = "sat" => Wanted
  /\ phase = "unsat" => ~Wanted

(* Once the entries are decided the auxiliary variables follow: cb_decide  *)
(* proposes entries only, and checkMin takes a full table for a model.  No *)
(* clause is empty.  A 0 would end a clause early, so main looks for one   *)
(* and exits: with --smallerEncoding, when a given row has the diagonal's  *)
(* value of a row it is meant for, which no table can have there (and      *)
(* which --unfixFR would have to admit as true), and in no other case.     *)
RowMeetsDiagonal ==
  set.smaller /\ \E j \in 0..(set.rows - 1), i \in Val :
                   i # j /\ set.row[i] = set.diag[j]
AuxiliariesFollow ==
  /\ phase = "sat" => \A x \in UNION cnf : x \in assigned \/ -x \in assigned
  /\ {} \notin cnf
  /\ phase = "exit" => RowMeetsDiagonal
  /\ phase = "choose" => ~RowMeetsDiagonal
=============================================================================
