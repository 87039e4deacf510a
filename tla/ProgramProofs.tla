---------------------------- MODULE ProgramProofs ----------------------------
(***************************************************************************)
(* The driver for every command line, every number of threads and every    *)
(* problem size: the loop over the diagonals hands each one to one thread, *)
(* the total counts each one once, and the recursion of part keeps the     *)
(* vector that its activations share.                                      *)
(***************************************************************************)
EXTENDS Program, SequenceTheorems, TLAPS

IsSeq(s) == s \in Seq({s[k] : k \in DOMAIN s})

(* The activations of part, apart from the innermost one, are inside their *)
(* loop: the entry of an activation is one less than its loop variable,    *)
(* which already points to the next iteration.                             *)
Frames == [n : Int, level : Nat, i : Nat]

Called(k) ==
  /\ stack[k].level = k - 1
  /\ stack[k].n + k - 1 <= size
  /\ stack[k].n = IF k = 1 THEN size ELSE stack[k - 1].n - v[k - 2]
  /\ stack[k].i # 0 => stack[k].n >= 1
  /\ k > 1 /\ stack[k].i # 0 => stack[k - 1].i <= stack[k].i + 1

Calling(k) ==
  /\ stack[k].i >= 2
  /\ v[k - 1] = stack[k].i - 1
  /\ k > 1 => stack[k - 1].i <= stack[k].i

Activations ==
  /\ size \in Int
  /\ v \in [0..(size - 1) -> Int]
  /\ stack \in Seq(Frames)
  /\ \A k \in 1..Len(stack) : Called(k)
  /\ \A k \in 1..(Len(stack) - 1) : Calling(k)

Lists == IsSeq(parts) /\ IsSeq(diags)

(* Whoever has been handed a diagonal has his own one, and every diagonal  *)
(* that has been handed out is counted or still searched.                  *)
Types ==
  /\ phase \in {"options", "diagonals", "encode", "solve", "loop", "done", "error"}
  /\ opts \in [problem_size : Int, diagPart : BOOLEAN, diagonal : Int, firstRow : Int,
              fixedRow : Int, numToFix : Int]
  /\ argv \in Seq(Option)
  /\ next \in Nat \ {0}
  /\ pc \in [Threads -> {"idle", "encode", "solve", "read", "write"}]
  /\ mine \in [Threads -> Nat]
  /\ DOMAIN nextFree = Threads
  /\ IsSeq(numSols)

BeforeLoop ==
  phase \in {"options", "diagonals", "encode", "solve", "error"} =>
    /\ numSols = <<>>
    /\ next = 1
    /\ pc = [t \in Threads |-> "idle"]
    /\ mine = [t \in Threads |-> 0]

Shares ==
  /\ \A t \in Threads :
       /\ mine[t] < next
       /\ mine[t] = 0 \/ mine[t] \in Diags
       /\ pc[t] # "idle" => mine[t] # 0
       /\ pc[t] = "encode" => nextFree[t] = 1
       /\ pc[t] \in {"solve", "read", "write"} => nextFree[t] = 1 + Highest[mine[t]]
  /\ \A t, u \in Threads : t # u /\ mine[t] # 0 => mine[u] # mine[t]

Counted ==
  phase = "loop" =>
    \A i \in Diags : \/ i >= next
                     \/ \E t \in Team : mine[t] = i /\ pc[t] \in {"encode", "solve"}
                     \/ numSols[i] = Models[i]

DriverInv == Types /\ BeforeLoop /\ Shares /\ Counted /\ TotalIsSum

IInv == Activations /\ Lists /\ DriverInv
-----------------------------------------------------------------------------
(* The recursion.                                                          *)
LEMMA ReindexIsSeq ==
  ASSUME NEW S, NEW s \in Seq(S)
  PROVE  IsSeq(s)
<1>1. s \in [1..Len(s) -> {s[k] : k \in DOMAIN s}] /\ Len(s) \in Nat
  OBVIOUS
<1> QED BY <1>1 DEF IsSeq

LEMMA AppendIsSeq ==
  ASSUME NEW s, IsSeq(s), NEW e
  PROVE  IsSeq(Append(s, e))
<1> DEFINE R(q) == {q[k] : k \in DOMAIN q}
<1>1. s \in Seq(R(s) \cup {e})
  BY DEF IsSeq
<1>2. Append(s, e) \in Seq(R(s) \cup {e})
  <2> HIDE DEF R
  <2> QED BY <1>1
<1> QED BY <1>2, ReindexIsSeq

LEMMA ConcatIsSeq ==
  ASSUME NEW s, IsSeq(s), NEW t, IsSeq(t)
  PROVE  IsSeq(s \o t)
<1> DEFINE R(q) == {q[k] : k \in DOMAIN q}
<1>1. s \in Seq(R(s) \cup R(t)) /\ t \in Seq(R(s) \cup R(t))
  BY DEF IsSeq
<1>2. s \o t \in Seq(R(s) \cup R(t))
  <2> HIDE DEF R
  <2> QED BY <1>1
<1> QED BY <1>2, ReindexIsSeq

LEMMA PartStepLists ==
  ASSUME Lists, D!PartStep
  PROVE  Lists'
<1>1. CASE D!ReturnEmpty \/ D!Recurse \/ D!Return
  BY <1>1 DEF Lists, IsSeq, D!ReturnEmpty, D!Recurse, D!Return
<1>2. CASE D!Enter
  <2> DEFINE p == D!BigParts(v', D!Top.level)
  <2>1. parts' = (IF p = <<>> THEN parts ELSE Append(parts, p)) /\ diags' = diags
    BY <1>2 DEF D!Enter
  <2>2. IsSeq(parts')
    <3> HIDE DEF p
    <3>1. IsSeq(parts)
      BY DEF Lists
    <3> QED BY <2>1, <3>1, AppendIsSeq
  <2> QED BY <2>1, <2>2 DEF Lists, IsSeq
<1>3. CASE D!makeDiagonals
  <2> DEFINE more == [k \in DOMAIN parts |-> D!PermOfPart(parts[k])]
  <2>1. diags' = diags \o more /\ parts' = parts
    BY <1>3 DEF D!makeDiagonals
  <2>2. IsSeq(more)
    <3>1. PICK n \in Nat : DOMAIN parts = 1..n
      BY DEF Lists, IsSeq
    <3> QED BY <3>1 DEF IsSeq
  <2>3. IsSeq(diags')
    <3> HIDE DEF more
    <3> QED BY <2>1, <2>2, ConcatIsSeq DEF Lists
  <2> QED BY <2>1, <2>3 DEF Lists, IsSeq
<1> QED BY <1>1, <1>2, <1>3 DEF D!PartStep

LEMMA CallPartLists ==
  ASSUME NEW n, D!CallPart(n)
  PROVE  Lists'
<1>1. parts' = <<>>
  BY DEF D!CallPart
<1>2. \E f : diags' = <<f>>
  BY DEF D!CallPart
<1> QED BY <1>1, <1>2 DEF Lists, IsSeq

LEMMA CallPartActivations ==
  ASSUME NEW n \in Int, D!CallPart(n)
  PROVE  Activations'
<1>1. /\ size' = n /\ v' = [x \in 0..(n - 1) |-> x]
      /\ stack' = <<[n |-> n, level |-> 0, i |-> 0]>>
  BY DEF D!CallPart, D!Frame
<1>2. stack' \in Seq(Frames) /\ Len(stack') = 1
      /\ stack'[1] = [n |-> n, level |-> 0, i |-> 0]
  BY <1>1 DEF Frames
<1> QED BY <1>1, <1>2 DEF Activations, Called, Calling

LEMMA StackShape ==
  ASSUME Activations, NEW l, l = Len(stack)
  PROVE  /\ l \in Nat /\ DOMAIN stack = 1..l
         /\ \A k \in 1..l : stack[k].n \in Int /\ stack[k].level \in Nat /\ stack[k].i \in Nat
         /\ stack # <<>> => l >= 1
<1>1. stack \in Seq(Frames)
  BY DEF Activations
<1>2. Len(stack) \in Nat /\ DOMAIN stack = 1..Len(stack) /\ (stack # <<>> => Len(stack) # 0)
  BY <1>1
<1>3. \A k \in 1..Len(stack) : stack[k] \in Frames
  BY <1>1
<1> QED BY <1>2, <1>3 DEF Frames

Touched(s, l, x) == [s EXCEPT ![l].i = x]

LEMMA TouchTop ==
  ASSUME NEW s \in Seq(Frames), NEW l \in 1..Len(s), NEW x \in Nat
  PROVE  /\ Touched(s, l, x) \in Seq(Frames) /\ Len(Touched(s, l, x)) = Len(s)
         /\ \A k \in 1..Len(s) :
              /\ Touched(s, l, x)[k].n = s[k].n
              /\ Touched(s, l, x)[k].level = s[k].level
              /\ Touched(s, l, x)[k].i = IF k = l THEN x ELSE s[k].i
<1>1. s[l] \in Frames
  OBVIOUS
<1> DEFINE e == [s[l] EXCEPT !.i = x]
<1>2. e \in Frames /\ e.n = s[l].n /\ e.level = s[l].level /\ e.i = x
  BY <1>1 DEF Frames
<1>3. Touched(s, l, x) = [s EXCEPT ![l] = e]
  BY DEF Touched
<1> HIDE DEF e, Frames
<1>4. /\ Touched(s, l, x) \in Seq(Frames) /\ Len(Touched(s, l, x)) = Len(s)
      /\ \A k \in 1..Len(s) : Touched(s, l, x)[k] = IF k = l THEN e ELSE s[k]
  BY <1>2, <1>3, ExceptSeq
<1> QED BY <1>2, <1>4

LEMMA PopActivations ==
  ASSUME Activations, stack # <<>>, stack' = D!Front(stack), UNCHANGED <<size, v>>
  PROVE  Activations'
<1>0. PICK l : l = Len(stack)
  OBVIOUS
<1>1. l \in Nat /\ l >= 1 /\ stack \in Seq(Frames)
  BY <1>0, StackShape DEF Activations
<1>2. stack' = SubSeq(stack, 1, l - 1)
  BY <1>0 DEF D!Front
<1>3. /\ stack' \in Seq(Frames)
      /\ Len(stack') = l - 1
      /\ \A k \in 1..(l - 1) : stack'[k] = stack[k]
  <2>1. \A k \in 1..(l - 1) : stack[k] \in Frames
    BY <1>0, <1>1
  <2> QED BY <1>1, <1>2, <2>1, SubSeqProperties
<1>4. \A k \in 1..(l - 1) : Called(k)' /\ (k \in 1..(l - 2) => Calling(k)')
  <2> SUFFICES ASSUME NEW k \in 1..(l - 1)
               PROVE  Called(k)' /\ (k \in 1..(l - 2) => Calling(k)')
    OBVIOUS
  <2>1. Called(k) /\ (k \in 1..(l - 2) => Calling(k))
    BY <1>0, <1>1 DEF Activations
  <2>2. k > 1 => k - 1 \in 1..(l - 1)
    BY <1>1
  <2> QED BY <2>1, <2>2, <1>3 DEF Called, Calling
<1> QED BY <1>1, <1>3, <1>4 DEF Activations

LEMMA PartStepActivations ==
  ASSUME Activations, D!PartStep
  PROVE  Activations'
<1>0. PICK l : l = Len(stack)
  OBVIOUS
<1>1. CASE D!ReturnEmpty
  BY <1>1, PopActivations DEF D!ReturnEmpty
<1>2. CASE D!Return
  BY <1>2, PopActivations DEF D!Return
<1>3. CASE D!Enter
  <2>1. /\ l \in Nat /\ l >= 1 /\ stack[l].i = 0 /\ stack[l].n >= 1
        /\ stack[l].n \in Int /\ stack[l].level = l - 1 /\ stack[l].n + l - 1 <= size
    BY <1>0, <1>3, StackShape DEF D!Enter, D!Top, Activations, Called
  <2> DEFINE i == IF l = 1 THEN 1 ELSE v[l - 2]
             n == stack[l].n
  <2>2. /\ l - 1 \in 0..(size - 1)
        /\ size \in Int
    BY <1>0, <2>1 DEF Activations
  <2>3. /\ v' = [v EXCEPT ![l - 1] = n]
        /\ stack' = [stack EXCEPT ![l].i = IF l - 1 = 0 THEN 1 ELSE v'[(l - 1) - 1]]
        /\ size' = size
    BY <1>0, <1>3, <2>1 DEF D!Enter, D!Top
  <2>4. l > 1 => l - 1 \in 1..(l - 1) /\ (l - 1) - 1 = l - 2
    BY <2>1
  <2>5. l > 1 => Calling(l - 1)
    BY <1>0, <2>4 DEF Activations
  <2>6. l > 1 => i = stack[l - 1].i - 1 /\ stack[l - 1].i >= 2 /\ stack[l - 1].i \in Nat
    BY <2>4, <2>5, <2>1, <1>0, StackShape DEF Calling
  <2>7. i \in Nat /\ i >= 1
    BY <2>6, <2>1
  <2>8. /\ v' \in [0..(size - 1) -> Int]
        /\ \A k \in 1..(l - 1) : v'[k - 1] = v[k - 1]
        /\ \A k \in 2..l : v'[k - 2] = v[k - 2]
    BY <2>1, <2>2, <2>3 DEF Activations
  <2>9. stack' = [stack EXCEPT ![l].i = i]
    <3>1. l > 1 => v'[(l - 1) - 1] = v[l - 2]
      BY <2>8, <2>1
    <3>2. (IF l - 1 = 0 THEN 1 ELSE v'[(l - 1) - 1]) = i
      BY <3>1, <2>1
    <3> QED BY <2>3, <3>2
  <2>10. /\ stack' \in Seq(Frames) /\ Len(stack') = l
         /\ \A k \in 1..l : /\ stack'[k].n = stack[k].n /\ stack'[k].level = stack[k].level
                            /\ stack'[k].i = IF k = l THEN i ELSE stack[k].i
    <3>1. stack \in Seq(Frames)
      BY DEF Activations
    <3> HIDE DEF i
    <3>2. stack' = Touched(stack, l, i) /\ l \in 1..Len(stack) /\ i \in Nat
      BY <2>1, <2>7, <2>9, <1>0 DEF Touched
    <3> QED BY <3>1, <3>2, <1>0, TouchTop
  <2> HIDE DEF i, n
  <2>11. ASSUME NEW k \in 1..l
         PROVE  Called(k)'
    <3>1. Called(k) /\ (k > 1 => Calling(k - 1) /\ k - 1 \in 1..l)
      BY <1>0, <2>1 DEF Activations
    <3>2. stack[k].n \in Int /\ stack[k].level \in Nat /\ stack[k].i \in Nat
      BY <1>0, StackShape
    <3>3. k > 1 => v'[k - 2] = v[k - 2] /\ stack[k - 1].i \in Nat
      BY <2>8, <3>1, <1>0, StackShape, <2>1
    <3>4. k > 1 => stack'[k - 1].n = stack[k - 1].n /\ stack'[k - 1].i = stack[k - 1].i
      BY <2>10, <3>1, <2>1
    <3>5. k = l => stack[k].n >= 1 /\ (k > 1 => stack[k - 1].i <= i + 1)
      BY <2>1, <2>6, <2>7
    <3> QED BY <3>1, <3>2, <3>3, <3>4, <3>5, <2>10, <2>3 DEF Called
  <2>12. ASSUME NEW k \in 1..(l - 1)
         PROVE  Calling(k)'
    <3>1. Calling(k) /\ k \in 1..l /\ k # l /\ (k > 1 => k - 1 \in 1..l /\ k - 1 # l)
      BY <1>0, <2>1 DEF Activations
    <3> QED BY <3>1, <2>8, <2>10 DEF Calling
  <2> QED BY <2>2, <2>3, <2>8, <2>10, <2>11, <2>12, <1>0, <2>1 DEF Activations
<1>4. CASE D!Recurse
  <2> DEFINE n == stack[l].n
             i == stack[l].i
             e == [n |-> n - i, level |-> l, i |-> 0]
             q == [stack EXCEPT ![l].i = i + 1]
  <2>1. /\ l \in Nat /\ l >= 1 /\ i # 0 /\ i <= n \div 2 /\ n >= 1
        /\ n \in Int /\ i \in Nat
        /\ stack[l].level = l - 1 /\ n + l - 1 <= size /\ size \in Int
    BY <1>0, <1>4, StackShape DEF D!Recurse, D!Top, Activations, Called
  <2>2. /\ v' = [v EXCEPT ![l - 1] = i]
        /\ stack' = Append(q, e)
        /\ size' = size
    BY <1>0, <1>4, <2>1 DEF D!Recurse, D!Top, D!Frame
  <2>3. i >= 1 /\ i < n /\ l - 1 \in 0..(size - 1)
    BY <2>1
  <2>4. /\ q \in Seq(Frames) /\ Len(q) = l
        /\ \A k \in 1..l : /\ q[k].n = stack[k].n /\ q[k].level = stack[k].level
                           /\ q[k].i = IF k = l THEN i + 1 ELSE stack[k].i
    <3>1. i + 1 \in Nat
      BY <2>1
    <3>2. stack \in Seq(Frames)
      BY DEF Activations
    <3> HIDE DEF i
    <3>3. q = Touched(stack, l, i + 1) /\ l \in 1..Len(stack)
      BY <2>1, <1>0 DEF Touched
    <3>4. PICK x \in Nat : x = i + 1
      BY <3>1
    <3> HIDE DEF q, n, e, Frames
    <3>5. /\ Touched(stack, l, x) \in Seq(Frames) /\ Len(Touched(stack, l, x)) = Len(stack)
          /\ \A k \in 1..Len(stack) :
               /\ Touched(stack, l, x)[k].n = stack[k].n
               /\ Touched(stack, l, x)[k].level = stack[k].level
               /\ Touched(stack, l, x)[k].i = IF k = l THEN x ELSE stack[k].i
      BY <3>2, <3>3, TouchTop
    <3>6. Touched(stack, l, x) = q /\ Len(stack) = l
      BY <1>0, <3>3, <3>4
    <3> QED BY <3>4, <3>5, <3>6
  <2>5. e \in Frames
    BY <2>1, <2>3 DEF Frames
  <2>6. /\ stack' \in Seq(Frames) /\ Len(stack') = l + 1
        /\ \A k \in 1..l : /\ stack'[k].n = stack[k].n /\ stack'[k].level = stack[k].level
                           /\ stack'[k].i = IF k = l THEN i + 1 ELSE stack[k].i
        /\ stack'[l + 1] = e
    <3> HIDE DEF q, e, i
    <3>1. /\ stack' \in Seq(Frames) /\ Len(stack') = l + 1
          /\ \A k \in 1..l : stack'[k] = q[k]
          /\ stack'[l + 1] = e
      BY <2>1, <2>2, <2>4, <2>5
    <3> QED BY <3>1, <2>4
  <2>8. e.n = n - i /\ e.level = l /\ e.i = 0
    OBVIOUS
  <2>9. stack[l].n = n /\ stack[l].i = i
    OBVIOUS
  <2> HIDE DEF i, n, e, q
  <2>7. /\ v' \in [0..(size - 1) -> Int]
        /\ \A k \in 1..(l - 1) : v'[k - 1] = v[k - 1]
        /\ \A k \in 2..l : v'[k - 2] = v[k - 2]
        /\ v'[l - 1] = i
    BY <2>1, <2>2, <2>3 DEF Activations
  <2>10. ASSUME NEW k \in 1..l
         PROVE  Called(k)'
    <3>1. Called(k) /\ (k > 1 => Calling(k - 1) /\ k - 1 \in 1..l)
      BY <1>0, <2>1 DEF Activations
    <3>2. stack[k].n \in Int /\ stack[k].level \in Nat /\ stack[k].i \in Nat
      BY <1>0, StackShape
    <3>6. k > 1 => v'[k - 2] = v[k - 2]
      BY <2>7, <2>1
    <3>7. k > 1 => stack[k - 1].i \in Nat
      BY <3>1, <1>0, StackShape
    <3>3. k > 1 => v'[k - 2] = v[k - 2] /\ stack[k - 1].i \in Nat
      BY <3>6, <3>7
    <3>4. k > 1 => stack'[k - 1].n = stack[k - 1].n /\ stack'[k - 1].i = stack[k - 1].i
      BY <2>6, <3>1, <2>1
    <3>5. stack'[k].n = stack[k].n /\ stack'[k].level = stack[k].level
          /\ stack'[k].i = IF k = l THEN i + 1 ELSE stack[k].i
      BY <2>6
    <3>8. k = l => stack[k].i = i /\ stack[k].n = n /\ n >= 1 /\ i # 0 /\ i \in Nat
      BY <2>1, <2>9
    <3>9. /\ stack'[k].i # 0 => stack'[k].n >= 1
          /\ k > 1 /\ stack'[k].i # 0 => stack'[k - 1].i <= stack'[k].i + 1
      <4>1. CASE k = l
        <5>1. stack'[k].i = i + 1 /\ stack'[k].n = n /\ (k > 1 => stack[k - 1].i <= i + 1)
          BY <4>1, <3>1, <3>5, <3>8 DEF Called
        <5> QED BY <4>1, <5>1, <3>3, <3>4, <3>8
      <4>2. CASE k # l
        BY <4>2, <3>1, <3>2, <3>3, <3>4, <3>5 DEF Called
      <4> QED BY <4>1, <4>2
    <3>10. /\ stack'[k].level = k - 1 /\ stack'[k].n + k - 1 <= size'
           /\ stack'[k].n = IF k = 1 THEN size' ELSE stack'[k - 1].n - v'[k - 2]
      <4>1. size' = size
        BY <2>2
      <4>2. /\ stack[k].level = k - 1 /\ stack[k].n + k - 1 <= size
            /\ stack[k].n = IF k = 1 THEN size ELSE stack[k - 1].n - v[k - 2]
        BY <3>1 DEF Called
      <4>3. k = 1 \/ k > 1
        BY <2>1
      <4> QED BY <4>1, <4>2, <4>3, <3>3, <3>4, <3>5
    <3> QED BY <3>9, <3>10 DEF Called
  <2>11. Called(l + 1)'
    <3>1. (l + 1) - 2 = l - 1 /\ (l + 1) - 1 = l /\ l \in 1..l
      BY <2>1
    <3>2. stack'[l].n = n /\ stack'[l + 1].n = n - i /\ stack'[l + 1].level = l
          /\ stack'[l + 1].i = 0
      BY <3>1, <2>6, <2>8, <2>9
    <3>3. /\ l + 1 # 1 /\ n - i + (l + 1) - 1 <= size
          /\ v'[(l + 1) - 2] = i /\ stack'[(l + 1) - 1].n = n
          /\ l = (l + 1) - 1
      BY <3>1, <3>2, <2>1, <2>3, <2>7
    <3> QED BY <3>2, <3>3, <2>2 DEF Called
  <2>12. ASSUME NEW k \in 1..l
         PROVE  Calling(k)'
    <3>1. CASE k = l
      <4>5. l \in 1..l
        BY <2>1
      <4>6. Called(l)
        BY <4>5, <1>0 DEF Activations
      <4>1. l > 1 => stack[l - 1].i <= i + 1 /\ l - 1 \in 1..l /\ l - 1 # l
        BY <2>1, <2>9, <4>6 DEF Called
      <4>2. l > 1 => stack'[l - 1].i = stack[l - 1].i
        BY <4>1, <2>6
      <4>3. stack'[l].i = i + 1
        BY <2>6, <2>1
      <4>7. stack'[l].i >= 2 /\ v'[l - 1] = stack'[l].i - 1
        BY <4>3, <2>1, <2>3, <2>7
      <4>8. l > 1 => stack'[l - 1].i <= stack'[l].i
        BY <4>1, <4>2, <4>3
      <4> QED BY <3>1, <4>7, <4>8 DEF Calling
    <3>2. CASE k # l
      <4>1. Calling(k) /\ k \in 1..(l - 1) /\ (k > 1 => k - 1 \in 1..l /\ k - 1 # l)
        BY <1>0, <2>1, <3>2 DEF Activations
      <4> QED BY <4>1, <3>2, <2>6, <2>7 DEF Calling
    <3> QED BY <3>1, <3>2
  <2>13. \A k \in 1..(l + 1) : Called(k)'
    BY <2>1, <2>10, <2>11
  <2>14. (l + 1) - 1 = l
    BY <2>1
  <2> QED BY <2>1, <2>2, <2>6, <2>7, <2>12, <2>13, <2>14, <1>0 DEF Activations
<1>5. CASE D!makeDiagonals
  BY <1>5 DEF D!makeDiagonals, Activations, Called, Calling
<1> QED BY <1>1, <1>2, <1>3, <1>4, <1>5 DEF D!PartStep

LEMMA ActivationsKeepVector ==
  Activations => D!LevelInBounds /\ D!SharedVectorKept
<1> SUFFICES ASSUME Activations
             PROVE  D!LevelInBounds /\ D!SharedVectorKept
  OBVIOUS
<1>1. PICK l : l = Len(stack)
  OBVIOUS
<1>2. l \in Nat /\ DOMAIN stack = 1..l
  BY <1>1, StackShape
<1>3. ASSUME NEW k \in 1..l
      PROVE  /\ stack[k].n >= 1 => stack[k].level < size
             /\ stack[k].level = k - 1
             /\ stack[k].n = IF k = 1 THEN size ELSE stack[k - 1].n - v[k - 2]
  <2>1. Called(k) /\ stack[k].n \in Int /\ size \in Int
    BY <1>1, <1>2, StackShape DEF Activations
  <2> QED BY <2>1 DEF Called
<1>4. ASSUME NEW k \in 1..(l - 2)
      PROVE  v[k - 1] <= v[k]
  <2>1. /\ k \in 1..(l - 1) /\ k + 1 \in 1..(l - 1) /\ k \in 1..l /\ k + 1 \in 1..l
        /\ (k + 1) - 1 = k /\ k + 1 > 1
    BY <1>2
  <2>2. Calling(k) /\ Calling(k + 1)
    BY <2>1, <1>1 DEF Activations
  <2>3. stack[k].i \in Nat /\ stack[k + 1].i \in Nat
    BY <2>1, <1>1, StackShape
  <2> QED BY <2>1, <2>2, <2>3 DEF Calling
<1> QED BY <1>1, <1>2, <1>3, <1>4 DEF D!LevelInBounds, D!SharedVectorKept
-----------------------------------------------------------------------------
(* The driver.                                                             *)
LEMMA TeamIsThreads == Team \subseteq Threads
<1>1. \E t \in Threads : TRUE
  BY DriverAssumption
<1>2. (CHOOSE t \in Threads : TRUE) \in Threads
  BY <1>1
<1> QED BY <1>2 DEF Team

LEMMA OptionsInv ==
  ASSUME DriverInv, ReadOption \/ Branch \/ EncodeOne \/ SolveOne
  PROVE  DriverInv'
<1>1. CASE ReadOption
  <2>1. argv' \in Seq(Option) /\ Head(argv) \in Option
    BY <1>1, HeadTailProperties DEF ReadOption, DriverInv, Types
  <2>2. PICK o \in Option : Read(o)
    BY <1>1, <2>1 DEF ReadOption
  <2>3. o.arg \in Int /\ o.name \in {"size", "diagPart", "diag", "firstRow", "fixFR", "unfixFR", "maxMC"}
    BY DEF Option
  <2>4. phase = "options" /\ UNCHANGED loopVars
    BY <1>1 DEF ReadOption
  <2>5. /\ phase' \in {"options", "error"}
        /\ opts' \in [problem_size : Int, diagPart : BOOLEAN, diagonal : Int, firstRow : Int,
                     fixedRow : Int, numToFix : Int]
    <3>1. opts \in [problem_size : Int, diagPart : BOOLEAN, diagonal : Int, firstRow : Int,
                    fixedRow : Int, numToFix : Int]
      BY DEF DriverInv, Types
    <3>2. CASE o.name = "size"
      BY <2>2, <2>3, <2>4, <3>1, <3>2 DEF Read
    <3>3. CASE o.name = "diagPart"
      BY <2>2, <2>3, <2>4, <3>1, <3>3 DEF Read
    <3>4. CASE o.name = "diag"
      BY <2>2, <2>3, <2>4, <3>1, <3>4 DEF Read
    <3>5. CASE o.name = "firstRow"
      BY <2>2, <2>3, <2>4, <3>1, <3>5 DEF Read
    <3>6. CASE o.name = "fixFR"
      <4> DEFINE x == IF o.arg > 0 THEN o.arg ELSE opts.numToFix
      <4>1. x \in Int
        BY <2>3, <3>1
      <4> DEFINE r == [opts EXCEPT !.fixedRow = 1]
      <4>2. opts' = [r EXCEPT !.numToFix = x] /\ phase' = phase
        BY <2>2, <3>1, <3>6 DEF Read
      <4>3. r \in [problem_size : Int, diagPart : BOOLEAN, diagonal : Int, firstRow : Int,
                  fixedRow : Int, numToFix : Int]
        BY <3>1
      <4> HIDE DEF x, r
      <4> QED BY <2>4, <4>1, <4>2, <4>3
    <3>7. CASE o.name = "unfixFR"
      <4> DEFINE x == IF o.arg > 0 THEN o.arg ELSE opts.numToFix
      <4>1. x \in Int
        BY <2>3, <3>1
      <4> DEFINE r == [opts EXCEPT !.fixedRow = -1]
      <4>2. opts' = [r EXCEPT !.numToFix = x] /\ phase' = phase
        BY <2>2, <3>1, <3>7 DEF Read
      <4>3. r \in [problem_size : Int, diagPart : BOOLEAN, diagonal : Int, firstRow : Int,
                  fixedRow : Int, numToFix : Int]
        BY <3>1
      <4> HIDE DEF x, r
      <4> QED BY <2>4, <4>1, <4>2, <4>3
    <3>8. CASE o.name = "maxMC"
      BY <2>2, <2>3, <2>4, <3>1, <3>8 DEF Read
    <3> QED BY <2>3, <3>2, <3>3, <3>4, <3>5, <3>6, <3>7, <3>8
  <2> QED BY <2>1, <2>4, <2>5
       DEF loopVars, DriverInv, Types, BeforeLoop, Shares, Counted, TotalIsSum, Diags, IsSeq
<1>2. CASE Branch
  BY <1>2 DEF Branch, DriverInv, Types, BeforeLoop, Shares, Counted, TotalIsSum, Diags, IsSeq
<1>3. CASE EncodeOne
  BY <1>3 DEF EncodeOne, DriverInv, Types, BeforeLoop, Shares, Counted, TotalIsSum, Diags, IsSeq
<1>4. CASE SolveOne
  BY <1>4 DEF SolveOne, DriverInv, Types, BeforeLoop, Shares, Counted, TotalIsSum, Diags, IsSeq
<1> QED BY <1>1, <1>2, <1>3, <1>4

LEMMA StartLoopInv ==
  ASSUME DriverInv, NEW n \in Nat, StartLoop(n)
  PROVE  DriverInv'
<1>1. DOMAIN numSols' = 1..n /\ numSols' \in Seq({0})
  BY DEF StartLoop
<1>2. IsSeq(numSols')
  BY <1>1, ReindexIsSeq
<1> QED BY <1>1, <1>2 DEF StartLoop, DriverInv, Types, BeforeLoop, Shares, Counted, TotalIsSum, Diags

(* The counts are those of the searches, so both sums add up the same      *)
(* numbers.                                                                *)
Sum(f, S) == MapThenSumSet(LAMBDA i : f[i], S)

LEMMA SameSum ==
  ASSUME NEW S, NEW f, NEW g, \A i \in S : f[i] = g[i]
  PROVE  Sum(f, S) = Sum(g, S)
<1> DEFINE pick(s) == CHOOSE x \in s : TRUE
           F(h) == [s \in SUBSET S |-> IF s = {} THEN 0 ELSE f[pick(s)] + h[s \ {pick(s)}]]
           G(h) == [s \in SUBSET S |-> IF s = {} THEN 0 ELSE g[pick(s)] + h[s \ {pick(s)}]]
<1>1. ASSUME NEW s \in SUBSET S, s # {}
      PROVE  f[pick(s)] = g[pick(s)]
  <2>1. \E x \in s : TRUE
    BY <1>1
  <2>2. pick(s) \in s
    BY <2>1
  <2>3. pick(s) \in S
    BY <2>2
  <2> HIDE DEF pick
  <2> QED BY <2>3
<1>2. \A h : F(h) = G(h)
  <2> HIDE DEF pick
  <2> QED BY <1>1
<1>3. Sum(f, S) = (CHOOSE h : h = F(h))[S]
  BY DEF Sum, MapThenSumSet, MapThenFoldSet
<1>4. Sum(g, S) = (CHOOSE h : h = G(h))[S]
  BY DEF Sum, MapThenSumSet, MapThenFoldSet
<1>5. (CHOOSE h : h = F(h)) = (CHOOSE h : h = G(h))
  <2> HIDE DEF F, G
  <2> QED BY <1>2
<1> QED BY <1>3, <1>4, <1>5

LEMMA EndLoopInv ==
  ASSUME DriverInv, EndLoop
  PROVE  DriverInv'
<1>1. \A i \in Diags : numSols[i] = Models[i]
  <2>1. PICK n \in Nat : DOMAIN numSols = 1..n
    BY DEF DriverInv, Types, IsSeq
  <2>2. \A i \in Diags : ~(i >= next)
    BY <2>1 DEF EndLoop, Diags, DriverInv, Types
  <2> QED BY <2>2 DEF EndLoop, DriverInv, Counted
<1>2. total' = MapThenSumSet(LAMBDA i : numSols[i], Diags) /\ UNCHANGED numSols
  BY DEF EndLoop
<1>3. total' = MapThenSumSet(LAMBDA i : Models[i], Diags)
  <2>1. Sum(numSols, Diags) = Sum(Models, Diags)
    BY <1>1, SameSum
  <2> QED BY <1>2, <2>1 DEF Sum
<1>4. TotalIsSum'
  BY <1>1, <1>2, <1>3 DEF TotalIsSum, Diags, MapThenSumSet, MapThenFoldSet
<1> QED BY <1>4 DEF EndLoop, DriverInv, Types, BeforeLoop, Shares, Counted, Diags, IsSeq

LEMMA TakeInv ==
  ASSUME DriverInv, NEW t \in Threads, Take(t)
  PROVE  DriverInv'
<1> DEFINE TakeTypes == Types'
<1>1. /\ phase = "loop" /\ t \in Team /\ pc[t] = "idle" /\ next \in Diags
      /\ mine' = [mine EXCEPT ![t] = next] /\ next' = next + 1
      /\ nextFree' = [nextFree EXCEPT ![t] = 1]
      /\ pc' = [pc EXCEPT ![t] = "encode"]
      /\ UNCHANGED <<argv, opts, phase, numSols>>
  BY DEF Take, At, Goto
<1>2. Types'
  BY <1>1 DEF DriverInv, Types, IsSeq
<1>3. Shares'
  BY <1>1 DEF DriverInv, Types, Shares, Diags
<1>4. Counted'
  <2> SUFFICES ASSUME NEW i \in Diags
               PROVE  \/ i >= next'
                      \/ \E u \in Team : mine'[u] = i /\ pc'[u] \in {"encode", "solve"}
                      \/ numSols[i] = Models[i]
    BY <1>1 DEF Counted, Diags, Team
  <2>1. PICK n \in Nat : DOMAIN numSols = 1..n
    BY DEF DriverInv, Types, IsSeq
  <2>2. i \in Int /\ next \in Int
    BY <2>1 DEF Diags, DriverInv, Types
  <2>3. CASE i = next
    <3>1. mine'[t] = i /\ pc'[t] = "encode"
      BY <1>1, <2>3 DEF DriverInv, Types
    <3> QED BY <3>1, <1>1
  <2>4. ASSUME NEW u \in Team, mine[u] = i, pc[u] \in {"encode", "solve"}
        PROVE  mine'[u] = i /\ pc'[u] \in {"encode", "solve"}
    BY <1>1, <2>4, TeamIsThreads DEF DriverInv, Types
  <2> QED BY <1>1, <2>2, <2>3, <2>4 DEF DriverInv, Counted
<1> QED BY <1>1, <1>2, <1>3, <1>4 DEF DriverInv, BeforeLoop, TotalIsSum

LEMMA WorkInv ==
  ASSUME DriverInv, NEW t \in Threads,
         Encode(t) \/ ReadGlobal(t) \/ WriteGlobal(t)
  PROVE  DriverInv'
<1> PICK from, to : /\ pc[t] = from /\ pc' = [pc EXCEPT ![t] = to]
                    /\ <<from, to>> \in {<<"encode", "solve">>, <<"read", "write">>, <<"write", "idle">>}
                    /\ nextFree' = IF from = "encode"
                                   THEN [nextFree EXCEPT ![t] = @ + Highest[mine[t]]]
                                   ELSE nextFree
  BY DEF Encode, ReadGlobal, WriteGlobal, At, Goto
<1>1. /\ phase = "loop" /\ t \in Team
      /\ UNCHANGED <<argv, opts, phase, next, mine, numSols>>
  BY DEF Encode, ReadGlobal, WriteGlobal, At
<1>2. from = "encode" => nextFree[t] = 1
  BY DEF DriverInv, Types, Shares
<1>3. Types'
  BY <1>1, <1>2 DEF DriverInv, Types, IsSeq
<1>4. Shares'
  BY <1>1, <1>2 DEF DriverInv, Types, Shares, Diags
<1>5. Counted'
  BY <1>1, TeamIsThreads DEF DriverInv, Types, Counted, Diags, Team
<1> QED BY <1>1, <1>3, <1>4, <1>5 DEF DriverInv, BeforeLoop, TotalIsSum

LEMMA SolveInv ==
  ASSUME DriverInv, NEW t \in Threads, Solve(t)
  PROVE  DriverInv'
<1>1. /\ phase = "loop" /\ t \in Team /\ pc[t] = "solve"
      /\ numSols' = [numSols EXCEPT ![mine[t]] = Models[mine[t]]]
      /\ pc' = [pc EXCEPT ![t] = "read"]
      /\ UNCHANGED <<argv, opts, phase, next, mine, nextFree>>
  BY DEF Solve, At, Goto
<1>2. Diags' = Diags /\ Team' = Team
  BY <1>1 DEF Diags, Team
<1>3. IsSeq(numSols')
  <2>1. PICK n \in Nat : DOMAIN numSols = 1..n
    BY DEF DriverInv, Types, IsSeq
  <2>2. DOMAIN numSols' = 1..n /\ numSols' = [i \in 1..n |-> numSols'[i]]
    BY <1>1, <2>1
  <2>3. numSols' \in Seq({numSols'[i] : i \in 1..n})
    BY <2>2
  <2> QED BY <2>3, ReindexIsSeq
<1>4. Types'
  BY <1>1, <1>3 DEF DriverInv, Types
<1>5. Shares'
  BY <1>1, <1>2 DEF DriverInv, Types, Shares
<1>6. Counted'
  <2> SUFFICES ASSUME NEW i \in Diags
               PROVE  \/ i >= next
                      \/ \E u \in Team : mine[u] = i /\ pc'[u] \in {"encode", "solve"}
                      \/ numSols'[i] = Models[i]
    BY <1>1, <1>2 DEF Counted
  <2>1. CASE i = mine[t]
    BY <2>1, <1>1 DEF Diags
  <2>2. CASE i # mine[t]
    <3>1. numSols'[i] = numSols[i]
      BY <2>2, <1>1 DEF Diags
    <3>2. ASSUME NEW u \in Team, mine[u] = i
          PROVE  pc'[u] = pc[u]
      BY <3>2, <2>2, <1>1, TeamIsThreads DEF DriverInv, Types
    <3> QED BY <3>1, <3>2, <1>1 DEF DriverInv, Counted
  <2> QED BY <2>1, <2>2
<1> QED BY <1>1, <1>4, <1>5, <1>6 DEF DriverInv, BeforeLoop, TotalIsSum

LEMMA ThreadInv ==
  ASSUME DriverInv, NEW t \in Threads, Thread(t)
  PROVE  DriverInv'
BY TakeInv, WorkInv, SolveInv DEF Thread
-----------------------------------------------------------------------------
(* The program.                                                            *)
LEMMA InitIInv == ProgramInit => IInv
<1> SUFFICES ASSUME ProgramInit
             PROVE  IInv
  OBVIOUS
<1>1. size = 0 /\ v = <<>> /\ stack = <<>> /\ parts = <<>> /\ diags = <<>>
  BY DEF ProgramInit, D!Init
<1>2. Activations
  BY <1>1 DEF Activations
<1>3. Lists
  BY <1>1 DEF Lists, IsSeq
<1>4. DriverInv
  BY DriverAssumption DEF ProgramInit, Init, DriverInv, Types, BeforeLoop, Shares, Counted, TotalIsSum, IsSeq
<1> QED BY <1>2, <1>3, <1>4 DEF IInv

LEMMA NextIInv ==
  ASSUME IInv, [ProgramNext]_<<vars, diagVars>>
  PROVE  IInv'
<1>1. ASSUME UNCHANGED diagVars
      PROVE  (Activations /\ Lists)'
  <2>1. Activations'
    BY <1>1 DEF IInv, diagVars, Activations, Called, Calling
  <2>2. Lists'
    BY <1>1 DEF IInv, diagVars, Lists, IsSeq
  <2> QED BY <2>1, <2>2
<1>2. ASSUME UNCHANGED vars
      PROVE  DriverInv'
  <2>1. UNCHANGED <<argv, opts, phase, next, pc, mine, nextFree, numSols, total>>
    BY <1>2 DEF vars, loopVars
  <2>2. (Types /\ BeforeLoop)'
    BY <2>1 DEF IInv, DriverInv, Types, IsSeq, BeforeLoop
  <2>3. (Shares /\ Counted)'
    BY <2>1 DEF IInv, DriverInv, Shares, Counted, Diags, Team
  <2>4. TotalIsSum'
    BY <2>1 DEF IInv, DriverInv, TotalIsSum, Diags, MapThenSumSet, MapThenFoldSet
  <2> QED BY <2>2, <2>3, <2>4 DEF DriverInv
<1>3. CASE Start
  <2>1. DriverInv'
    BY <1>3, OptionsInv DEF Start, IInv
  <2>2. (Activations /\ Lists)'
    <3>1. opts.problem_size \in Int
      BY DEF IInv, DriverInv, Types
    <3> QED BY <1>1, <1>3, <3>1, CallPartActivations, CallPartLists DEF Start
  <2> QED BY <2>1, <2>2 DEF IInv
<1>4. CASE MakeDiagonals
  <2>1. (Activations /\ Lists)'
    BY <1>4, PartStepActivations, PartStepLists DEF MakeDiagonals, IInv
  <2>2. DriverInv'
    BY <1>2, <1>4 DEF MakeDiagonals
  <2> QED BY <2>1, <2>2 DEF IInv
<1>5. CASE Loop
  <2>1. Len(diags) \in Nat
    BY DEF IInv, Lists, IsSeq
  <2>2. DriverInv'
    BY <1>5, <2>1, StartLoopInv DEF Loop, IInv
  <2> QED BY <1>1, <1>5, <2>2 DEF Loop, IInv
<1>6. CASE (ReadOption \/ EncodeOne \/ SolveOne \/ EndLoop) /\ UNCHANGED diagVars
  BY <1>1, <1>6, OptionsInv, EndLoopInv DEF IInv
<1>7. ASSUME NEW t \in Threads, ThreadStep(t)
      PROVE  IInv'
  BY <1>1, <1>7, ThreadInv DEF ThreadStep, IInv
<1>8. CASE UNCHANGED <<vars, diagVars>>
  BY <1>1, <1>2, <1>8 DEF IInv
<1>9. ProgramNext => Steps \/ (\E t \in Threads : ThreadStep(t)) \/ UNCHANGED <<vars, diagVars>>
  BY DEF ProgramNext, Exit
<1> QED BY <1>3, <1>4, <1>5, <1>6, <1>7, <1>8, <1>9 DEF Steps

LEMMA IInvSearchesApart == IInv => SearchesApart
BY TeamIsThreads DEF IInv, DriverInv, Shares, SearchesApart

\* The loop over the diagonals, for every number of threads and diagonals and
\* every command line: no two threads work on the same diagonal, and the
\* variables of a search do not depend on what other threads write
\* (main.cpp, the loop under #pragma omp parallel for).
THEOREM LoopSearchesApart ==
  ProgramSpec => []SearchesApart
<1>1. ProgramInit => IInv
  BY InitIInv
<1>2. IInv /\ [ProgramNext]_<<vars, diagVars>> => IInv'
  BY NextIInv
<1>3. IInv => SearchesApart
  BY IInvSearchesApart
<1> QED BY <1>1, <1>2, <1>3, PTL DEF ProgramSpec

\* The total counts the models of each diagonal once (main.cpp, numSols).
THEOREM LoopTotalIsSum ==
  ProgramSpec => []TotalIsSum
<1>1. ProgramInit => IInv
  BY InitIInv
<1>2. IInv /\ [ProgramNext]_<<vars, diagVars>> => IInv'
  BY NextIInv
<1>3. IInv => TotalIsSum
  BY DEF IInv, DriverInv
<1> QED BY <1>1, <1>2, <1>3, PTL DEF ProgramSpec

\* The recursion of part, for every problem size: no activation writes past
\* the end of the vector, none changes an entry of its callers, and the
\* entries never decrease (useful.cpp, part).
THEOREM PartKeepsVector ==
  ProgramSpec => [](D!LevelInBounds /\ D!SharedVectorKept)
<1>1. ProgramInit => IInv
  BY InitIInv
<1>2. IInv /\ [ProgramNext]_<<vars, diagVars>> => IInv'
  BY NextIInv
<1>3. IInv => D!LevelInBounds /\ D!SharedVectorKept
  BY ActivationsKeepVector DEF IInv
<1> QED BY <1>1, <1>2, <1>3, PTL DEF ProgramSpec
=============================================================================
