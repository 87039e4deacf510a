------------------------------- MODULE MCCdcl -------------------------------
(* The sessions of the search that are checked: the calls of the user, the *)
(* clauses of the propagator and the literals that decide prefers.         *)
EXTENDS Cdcl

MCVars == 1..6

adds(F) == [i \in DOMAIN F |-> [op |-> "add", lits |-> F[i]]]
call(o, q) == <<[op |-> o, lits |-> q]>>
assumes(q) == [i \in DOMAIN q |-> [op |-> "assume", lits |-> <<q[i]>>]]
solve == call("solve", <<>>)
S(script, C, D) == [calls |-> script, lazies |-> C, choices |-> D]

(* 5 after 2 is a conflict: the literals of the first level are shrunken   *)
(* to -2, in the second formula with a root literal in their reasons, and  *)
(* -6 is a unit that is learned above the root level.                      *)
Shrink == <<<<-2, 3>>, <<-2, 4>>, <<-5, -3, 1>>, <<-5, -4, -1>>, <<-6, 1>>, <<-6, -1>>>>
ShrinkUnit == <<<<-2, 3, -1>>, <<-2, 4, -1>>, <<-5, -3, 6>>, <<-5, -4, -6>>, <<1>>>>

(* 4 after 1 and 2: -6 is minimized, since 3 cannot be shrunken.           *)
Minimize == <<<<-2, 6>>, <<-2, -1, 3>>, <<-4, -3, -6, 5>>, <<-4, -2, -5>>>>

(* 5 after 1: a reason is strengthened and drives.                         *)
Strengthen == <<<<-1, 2>>, <<-2, 3>>, <<-2, 4>>, <<-5, -3, -4, 6>>, <<-5, -3, -4, -6>>>>

Small ==
    {S(adds(Shrink) \o solve \o assumes(<<2, 5>>) \o solve, {}, {2, 5, 6}),
     S(adds(ShrinkUnit) \o solve \o call("constrain", <<-1, 5>>) \o assumes(<<2>>) \o solve, {}, {2, 5}),
     S(adds(Minimize) \o solve \o adds(<<<<-1, 4>>>>) \o assumes(<<1, 2>>) \o solve, {}, {1, 2, 4}),
     S(adds(Strengthen) \o solve, {}, {1, 5}),
     S(adds(<<<<-1, 2>>, <<3, 4>>>>) \o assumes(<<1, 2, 3, 5>>) \o solve \o assumes(<<3, 2, 1, 5>>) \o solve,
       {{-5, -3, 6}, {-6, 4}}, {-4, -6}),
     S(adds(<<<<-1, 2>>, <<-4, 6>>>>) \o assumes(<<1, 3, 4, 5>>) \o call("constrain", <<-2, -6>>) \o solve
         \o assumes(<<1, 4>>) \o solve, {{-5, -3, 4}}, {3}),
     S(adds(<<<<1>>>>) \o call("constrain", <<-1>>) \o solve \o call("constrain", <<2, -1>>) \o solve, {}, {-2})}

(* Conflicts and units that depend on what the propagator has propagated.  *)
Explaining ==
    {S(adds(<<<<2, -5, 4>>, <<2, -3, 5>>, <<5, -1, 2>>, <<4, 3, -2>>, <<1, -4, 2>>, <<3, -2>>, <<2, -1>>,
              <<5, -4, 3>>, <<3, 2>>, <<1, -2>>>>) \o solve \o assumes(<<-1>>) \o solve,
       {{-2}, {-3, -2}}, {-5, 3}),
     S(adds(<<<<1, 5, -3>>, <<-3, -4>>, <<3, -1>>, <<3, -5>>, <<2, 5, 1>>, <<-3, 4, -1>>>>)
         \o assumes(<<-4, -1>>) \o call("constrain", <<1, -5>>) \o solve
         \o adds(<<<<-1>>, <<-2, 3>>>>) \o solve, {{-3, 1}, {3, 5}}, {-3, 5}),
     S(adds(<<<<3, 1, -2>>, <<-5, -1>>, <<-4, 5>>, <<-2, -1, 3>>, <<-5, 4>>, <<4, -1, -3>>, <<-4, 2>>>>)
         \o solve \o solve, {{-1}, {-5, 1}}, {-2, 1})}

(* Assumptions and constraints that fail.                                  *)
FailingAt ==
    {S(adds(<<<<1, -2, -4>>, <<3, 1, 2>>, <<-1, 4, 3>>, <<3, -1>>, <<3, 2>>, <<-2, 3, 4>>, <<4, -2>>>>)
         \o assumes(<<4, -2>>) \o call("constrain", <<-3, 5>>) \o solve
         \o adds(<<<<2, -3, 1>>, <<2, -4>>>>) \o assumes(<<5, -2>>) \o call("constrain", <<1>>) \o solve,
       {{-4}, {-4, -3}}, {1, 3}),
     S(adds(<<<<4, -5>>, <<-3, 5, 1>>, <<1, -4, 2>>, <<2, -1, -4>>, <<-5, 3>>, <<2, -1, 5>>, <<-1, -2, -4>>,
              <<4, -2, 3>>, <<1, -4, 3>>, <<2, -5>>>>)
         \o assumes(<<-2, 2>>) \o call("constrain", <<2, 5>>) \o solve, {{-5, -3, 2}, {-4, -3, -2}}, {-2, 1}),
     S(adds(<<<<5, 2, 1>>, <<-1, 4, 3>>, <<-3, -2, -5>>, <<-4, -3>>, <<-2, 3, 4>>, <<-1, -2>>, <<1, 5, -2>>,
              <<4, 3>>, <<-3, 1>>, <<-2, 5, 1>>>>)
         \o assumes(<<-3>>) \o call("constrain", <<-1>>) \o solve
         \o adds(<<<<5, 2>>, <<-2, 4>>>>) \o assumes(<<-2>>) \o solve, {{1, 3}, {-4, -2, 1}}, {-4, 4}),
     S(adds(<<<<-1, -4, 5>>, <<4, 2, 1>>, <<-4, 3>>, <<2, 3, -4>>, <<1, 5>>>>) \o solve
         \o call("constrain", <<-3>>) \o solve, {{5}, {3, 4}}, {-2}),
     S(adds(<<<<-4, 2>>, <<2, 4, -5>>, <<2, 1>>, <<1, -3>>, <<4, 3>>>>)
         \o assumes(<<-1, 2>>) \o call("constrain", <<1, -4>>) \o solve
         \o call("constrain", <<-1, -2>>) \o solve, {{-2}, {2, 4}}, {2, 5}),
     S(adds(<<<<5, -4, 2>>, <<-5, -3>>, <<5, -3, -4>>, <<4, 3>>, <<5, 2, 3>>, <<-4, -5, 1>>>>)
         \o assumes(<<-5, 4>>) \o call("constrain", <<2, -5>>) \o solve, {}, {3})}

Sessions == Small \cup Explaining \cup FailingAt

Init == \E s \in Sessions : InitWith(s.calls, s.lazies, s.choices)
Spec == Init /\ [][Next]_vars /\ WF_tick(Going)
=============================================================================
