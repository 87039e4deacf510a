---------------------------- MODULE MCInprocess ----------------------------
(* The sessions that are checked: the calls of the user and the procedures *)
(* that are switched on.                                                   *)
EXTENDS Inprocess

MCVars == 1..4

adds(F) == [i \in DOMAIN F |-> [op |-> "add", lits |-> F[i]]]
call(o, S) == <<[op |-> o, lits |-> S]>>
solve == call("solve", {})

S(calls, options) == [calls |-> calls, options |-> options]

(* The formulas, each with something to do for some procedures.            *)
Or == <<{1, -2}, {1, -3}, {-1, 2, 3}>>          \* 1 = 2 or 3
Equal == <<{1, -2}, {-1, 2}, {2, 3}>>           \* 1 = 2
Xor == <<{1, 2, 3}, {1, -2, -3}, {-1, -2, 3}, {-1, 2, -3}>>
Chain == <<{-1, 2}, {-2, 3}, {-1, 3}, {1, 2, 3}>>
Loose == <<{1, 2}, {-1, -2, 3}, {1, 2, 3}>>
Ternaries == <<{1, 2, 3}, {-1, 2, 4}, {-2, 3, 4}>>
Hyper == <<{-1, 2}, {-1, 3}, {-2, -3, 4}, {1, 4, -3}>>
Ite == <<{1, 2, 3}, {1, -2, 4}, {-1, 2, -3}, {-1, -2, -4}>>

Inst == <<{1, 2, 3}, {-1, 2, 4}, {-1, 3, -4}>>
Contrary == <<{1, 2}, {1, -2}, {-1, 2, 3}, {-1, -2}, {-1, -3, 2}>>
Units == <<{1, 2}, {-2}, {2, 1, 3}, {3, -3}, {2}>>


Later == solve \o call("add", {-1, -2}) \o call("assume", {-3}) \o solve
Again == solve \o call("constrain", {-1, 2}) \o call("assume", {-2}) \o solve
Once == call("freeze", {2}) \o solve \o call("assume", {-2}) \o solve
Refuted == solve \o call("constrain", {-1}) \o solve \o call("assume", {1}) \o solve
Three == call("assume", {1}) \o solve \o call("add", {-2, -3}) \o solve
         \o call("add", {2, -1}) \o call("assume", {-3}) \o solve
Thaw == call("freeze", {1}) \o solve \o call("melt", {1}) \o solve

With(Fs, cs, os) == {S(adds(F) \o c, o) : F \in Fs, c \in cs, o \in os}

Sessions ==
    With({Or, Equal}, {Later}, {{"elim"}, {"elim", "restoreflush"}})
    \cup With({Xor, Ite}, {Again}, {{"elim"}})
    \cup With({Or}, {Thaw}, {{"elim", "instantiate", "subsume"}})
    \cup With({Loose, Or}, {Later, Once}, {{"elim", "block"}})
    \cup With({Loose}, {Later}, {{"elim", "block", "cover"}})
    \cup With({Chain, Loose, Ternaries}, {Once}, {{"subsume", "vivify", "transred", "learn"}})
    \cup With({Loose, Hyper}, {Later}, {{"condition"}})
    \cup With({Inst}, {Once}, {{"elim", "instantiate"}})
    \cup With({Contrary}, {Again}, {{"elim"}, {"subsume", "vivify"}, {"probe"}, {"elim", "block", "learn"}})
    \cup With({Units}, {Refuted}, {{"elim", "subsume"}})
    \cup With({Loose}, {Three}, {{"elim", "subsume", "probe"}})
    \cup With({Equal}, {Again}, {{"probe", "restoreall", "restorealways"}})
    \cup With({Equal, Hyper, Ternaries, Ite}, {Once, Later}, {{"probe", "learn"}})

Init == \E s \in Sessions : InitWith(s.calls, s.options)
Spec == Init /\ [][Next]_vars
=============================================================================
