---------------------------- MODULE MCPosixLock ----------------------------
(* Modules in which pairs share a lock call, share an unlock call, nest, lie in
   two functions, start a function or end just before its terminator; and the
   command lines for the runs. *)
EXTENDS PosixLock, TLC

L(m) == [callee |-> "lock", mutex |-> m]
U(m) == [callee |-> "unlock", mutex |-> m]
X    == [callee |-> "other", mutex |-> NoOperand]
NoArg == [callee |-> "lock", mutex |-> NoOperand]

SharedLock   == << <<X, L("a"), X, U("a"), X, U("a"), X>> >>
SharedUnlock == << <<L("a"), NoArg, X, L("a"), U("a"), X>> >>
Nested       == << <<X, L("a"), X, L("b"), U("b"), X, X, U("a"), X>> >>
Functions2   == << <<X, L("a"), X, U("a"), X>>, <<X>>, <<L("b"), X, X, U("b"), X>> >>
MCPrograms   == {SharedLock, SharedUnlock, Nested, Functions2}

\* Positions (function, pair), also some that name no pair.
Positions == {<<0, 0>>, <<0, 1>>, <<1, 0>>, <<1, 1>>}
Pos1 == Positions
Pos2 == {p \o q : p \in Pos1, q \in Positions}
Pos3 == {p \o q : p \in Pos2, q \in Positions}
Pos4 == {p \o q : p \in Pos3, q \in Positions}
Cmd(flags, pos, lockdir, unlockdir, splitpos) ==
  [flags |-> flags, pos |-> pos, lockdir |-> lockdir, unlockdir |-> unlockdir,
   splitpos |-> splitpos]

Dirs == {<<>>} \union {<<d>> : d \in {-4, -1, 0, 1, 2, 9}} \union {<<-2, 2>>, <<3, -1>>}
SplitVals == {0, 1, 2, 3, IntMax + 1, 2 * IntMax + 1}
Splits == {<<u, l>> : u, l \in SplitVals} \union {<<2, 1, 1, 2>>, <<1, 1, 0, 1>>}

Verbose == {"analyze", "verbose"}

\* Every choice of modes with lists of every small length, most of them refused;
\* the pairs named are (0,0) and (0,1) in turn.
Lists(n) == {[k \in 1..len |-> IF k % 4 = 0 THEN 1 ELSE 0] : len \in 0..n}
MCArgCommands == {Cmd(flags, pos, ld, ud, sp) :
  flags \in SUBSET Modes, pos \in Lists(4), ld \in Lists(1), ud \in Lists(1), sp \in Lists(3)}

MCCommands == UNION {
  {Cmd({"rm"} \union v, pos, <<>>, <<>>, <<>>) :
     v \in {{}, Verbose}, pos \in Pos1 \union Pos2 \union Pos3},
  {Cmd({"swap"}, pos, <<>>, <<>>, <<>>) : pos \in Pos2 \union Pos4},
  {Cmd({"shift"} \union v, pos, ld, ud, <<>>) :
     v \in {{}, Verbose}, pos \in Pos1 \union Pos2, ld \in Dirs, ud \in Dirs},
  {Cmd({"split"} \union v, pos, <<>>, <<>>, sp) :
     v \in {{}, Verbose}, pos \in Pos1 \union Pos2, sp \in Splits},
  {Cmd(Verbose, <<>>, <<>>, <<>>, <<>>)},
  MCArgCommands}
=============================================================================
