----------------------------- MODULE FlatDomains -----------------------------
(***************************************************************************)
(* bitdomains2_t and bitdomains3_t of domains.cpp: a matrix of domains in  *)
(* one flat vector of integers.  A cell is a chunk of problem_size + 2     *)
(* words: its least member, its size, and one word per value.  For         *)
(* bitdomains2_t Rows = 1; pperm_bit keeps the images of the points in     *)
(* one, and the minimality check collects the literals of a clause in a    *)
(* vector of them.                                                         *)
(*                                                                         *)
(* The index arithmetic is kept as it is written: a chunk boundary off by  *)
(* one changes a neighbour's least member, not an error.                   *)
(***************************************************************************)
EXTENDS Integers, FiniteSets

CONSTANTS problem_size,
          Rows, Cols    \* the shape of the matrix

ASSUME SizeAssumption == problem_size \in Nat \ {0}
ASSUME ShapeAssumption == Rows \in Nat \ {0} /\ Cols \in Nat \ {0}

Member == 0 .. problem_size - 1
chunkc == problem_size + 2
chunkr == Cols * chunkc
Row == 0 .. Rows - 1
Col == 0 .. Cols - 1
Place == 0 .. chunkr * Rows - 1
NoFirst == -1

VARIABLE vec            \* the vector

(* firstel and numtrue: the first two words of a chunk.                    *)
At(r, c) == chunkr * r + chunkc * c
first(r, c) == vec[At(r, c)]
count(r, c) == vec[At(r, c) + 1]
IsSet(r, c, n) == vec[At(r, c) + 2 + n] = 1
none(r, c) == count(r, c) = 0

(* get(r, c, e), and options(r, c) as a set.                               *)
get(r, c, e) == ~none(r, c) /\ IsSet(r, c, e)
options(r, c) == {j \in Member : IsSet(r, c, j)}

(* A vector of ones or zeros with the first two words of every chunk set.  *)
Filled(word, least, size) ==
  [i \in Place |->
     CASE \E r \in Row, c \in Col : i = At(r, c)     -> least
       [] \E r \in Row, c \in Col : i = At(r, c) + 1 -> size
       [] OTHER -> word]
AllSet == Filled(1, 0, problem_size)
AllClear == Filled(0, NoFirst, 0)

VecInit == vec \in {AllSet, AllClear}

set ==
  vec' = AllSet

reset ==
  vec' = AllClear

setValue(r, c, n) ==
  /\ ~IsSet(r, c, n)
  /\ LET at == At(r, c)
     IN vec' = [vec EXCEPT ![at + 2 + n] = 1, ![at + 1] = @ + 1,
                           ![at] = IF @ = NoFirst \/ n < @ THEN n ELSE @]

(* Mutant: no new least member is looked for.                              *)
resetValueStale(r, c, n) ==
  /\ IsSet(r, c, n)
  /\ vec' = [vec EXCEPT ![At(r, c) + 2 + n] = 0, ![At(r, c) + 1] = @ - 1]

(* The least member is looked for above the one removed.                   *)
resetValue(r, c, n) ==
  /\ IsSet(r, c, n)
  /\ LET at == At(r, c)
         above == {i \in Member : i > n /\ IsSet(r, c, i)}
     IN vec' = [vec EXCEPT ![at + 2 + n] = 0, ![at + 1] = @ - 1,
                  ![at] = IF @ # n THEN @
                          ELSE IF above # {}
                               THEN CHOOSE i \in above : \A j \in above : i <= j
                               ELSE NoFirst]

(* The loop from the third word of a chunk to the start of the next one,   *)
(* and then the first two words.                                           *)
FillCell(r, c, word, least, size) ==
  vec' = [i \in DOMAIN vec |->
            CASE i \in (At(r, c) + 2) .. (chunkr * r + chunkc * (c + 1) - 1) -> word
              [] i = At(r, c) -> least
              [] i = At(r, c) + 1 -> size
              [] OTHER -> vec[i]]

setCell(r, c) == FillCell(r, c, 1, 0, problem_size)

(* Mutant: the loop runs one word too far.                                 *)
resetCellOver(r, c) ==
  vec' = [i \in DOMAIN vec |->
            CASE i \in (At(r, c) + 1) .. (At(r, c) + chunkc) -> 0
              [] i = At(r, c) -> NoFirst
              [] OTHER -> vec[i]]

resetCell(r, c) == FillCell(r, c, 0, NoFirst, 0)

VecNext ==
  \/ set
  \/ reset
  \/ \E r \in Row, c \in Col :
       \/ setCell(r, c)
       \/ resetCell(r, c)
       \/ \E n \in Member : setValue(r, c, n) \/ resetValue(r, c, n)

VecSpec == VecInit /\ [][VecNext]_vec
-----------------------------------------------------------------------------
VecTypeOK == vec \in [Place -> NoFirst .. problem_size]

(* firstel and numtrue of every cell are the least member and the size of  *)
(* what options lists, whatever was done to its neighbours, so that        *)
(* pperm_bit::fixed, permOf and get, which read the first two words only,  *)
(* agree with options.                                                     *)
CellsConsistent ==
  \A r \in Row, c \in Col :
    /\ count(r, c) = Cardinality(options(r, c))
    /\ \A e \in Member : get(r, c, e) = (e \in options(r, c))
    /\ IF options(r, c) = {} THEN first(r, c) = NoFirst
       ELSE first(r, c) \in options(r, c)
            /\ \A e \in options(r, c) : first(r, c) <= e

(* The first and the last cell are, by themselves, a bitdomain_t: an       *)
(* operation on the vector is an operation of BitDomain on the cells it    *)
(* names and a stutter on all others.                                      *)
FirstDomain == INSTANCE BitDomain WITH
                 N <- problem_size, dom <- options(0, 0),
                 firstel <- first(0, 0), numTrue <- count(0, 0)
LastDomain == INSTANCE BitDomain WITH
                N <- problem_size, dom <- options(Rows - 1, Cols - 1),
                firstel <- first(Rows - 1, Cols - 1),
                numTrue <- count(Rows - 1, Cols - 1)
CellsAreDomains == FirstDomain!Spec /\ LastDomain!Spec
=============================================================================
