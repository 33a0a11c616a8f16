----------------------------- MODULE MCMutexPass -----------------------------
(* Modules with pairs of all four kinds, with two by two invokes of one mutex, with
   an unlock before its lock, with C++11 calls that have uses and with calls of two
   operands; and the command lines for the runs. *)
EXTENDS MutexPass, TLC

Inst(callee, lib, mutex, args, invoke, used) ==
  [callee |-> callee, lib |-> lib, mutex |-> mutex, args |-> args, invoke |-> invoke, used |-> used]
L(m)  == Inst("lock", "pthread", m, 1, FALSE, FALSE)
U(m)  == Inst("unlock", "pthread", m, 1, FALSE, TRUE)
Li(m) == Inst("lock", "pthread", m, 1, TRUE, FALSE)
Ui(m) == Inst("unlock", "pthread", m, 1, TRUE, TRUE)
Cpp(op)     == [op EXCEPT !.lib = "cpp", !.used = FALSE]
Used(op)    == [op EXCEPT !.used = TRUE]
With(op, n) == [op EXCEPT !.args = n]
X == Inst("other", "none", "none", 0, FALSE, FALSE)
B == Inst("branch", "none", "none", 0, FALSE, FALSE)

AllKinds  == << <<L("a"), X, Li("a"), X, X, U("a"), X, Ui("a"), B>> >>
FourPairs == << <<X, Li("a"), Li("a"), Ui("a"), X, Ui("a"), B>>, <<L("b"), X, U("b"), B>> >>
CppUsed   == << <<Cpp(L("a")), B, X, Used(Cpp(U("a"))), Used(Cpp(Ui("a"))), B>>,
                <<U("d"), X, X, L("d"), B>>,
                <<U("b"), X, L("b"), X, Cpp(Li("b")), Cpp(Ui("b")), B>> >>
TwoArgs   == << <<L("a"), With(U("a"), 2), X, B, L("b"), X, U("b"), With(Ui("b"), 2), B>>,
                <<With(L("c"), 0), U("c"), B>> >>
MCMutexes == {"a", "b", "c", "d"}
MCPrograms == {AllKinds, FourPairs, CppUsed, TwoArgs}

Cmd(flags, pos, lockdir, unlockdir, splitpos) ==
  [flags |-> flags, pos |-> pos, lockdir |-> lockdir, unlockdir |-> unlockdir,
   splitpos |-> splitpos]

\* Positions (kind, number), also some that name no pair.
Pos1 == {<<0, 0>>, <<0, 1>>, <<1, 0>>, <<2, 0>>, <<3, 0>>, <<3, 3>>, <<4, 0>>}
Pos2 == {p \o q : p, q \in Pos1}
Pos4 == {p \o q : p \in {<<0, 0, 0, 1>>, <<0, 0, 3, 0>>, <<0, 1, 1, 0>>}, q \in Pos2}
Verbose == {"analyze", "verbose"}
Dirs == {<<>>, <<-9>>, <<-1>>, <<0>>, <<1>>, <<3>>, <<9>>, <<2, -2>>}
SplitVals == {0, 1, 2, 3, IntMax + 1}
Splits == {<<u, l>> : u, l \in SplitVals} \union {<<2, 1, 1, 2>>}
Lists(n) == {[k \in 1..len |-> 0] : len \in 0..n}

MCCommands == UNION {
  {Cmd({"rm"} \union v, pos, <<>>, <<>>, <<>>) : v \in {{}, Verbose}, pos \in Pos2},
  {Cmd({"swap"} \union v, pos, <<>>, <<>>, <<>>) : v \in {{}, Verbose}, pos \in Pos2},
  {Cmd({"swap"}, pos, <<>>, <<>>, <<>>) : pos \in Pos4},
  {Cmd({"shift"}, pos, ld, ud, <<>>) : pos \in Pos1, ld \in Dirs, ud \in Dirs},
  {Cmd({"shift"}, pos, <<2, -2>>, <<2, -2>>, <<>>) : pos \in Pos2},
  {Cmd({"split"} \union Verbose, pos, <<>>, <<>>, sp) :
     pos \in Pos1 \union {<<0, 0, 2, 0>>, <<3, 0, 3, 0>>}, sp \in Splits},
  {Cmd(modes \union Verbose, pos, ld, <<>>, sp) :
     modes \in SUBSET Modes, pos \in Lists(4), ld \in Lists(1), sp \in Lists(2)}}
=============================================================================
