-------------------------- MODULE MCCondWaitPasses --------------------------
(***************************************************************************)
(* Instances for TLC: two functions with waits, timed waits that share a   *)
(* struct timespec, one with too few arguments, one that is an invoke, and *)
(* a C++ wait.                                                             *)
(***************************************************************************)
EXTENDS CondWaitPasses

Mangled == "_ZNSt3__118condition_variable4waitE"
MCBodies == << <<"other", "t1", "w1", "t2", "other">>, <<"t3", "i1", "c1", "other">> >>
MCLayout == <<"t1", "w1", "t2", "t3", "i1", "c1">>
MCInvoke == {"i1"}
MCInst == {MCLayout[n] : n \in 1..6}
MCRaw == [inst \in MCInst |->
            IF inst = "w1" THEN "pthread_cond_wait"
            ELSE IF inst = "c1" THEN Mangled ELSE "pthread_cond_timedwait"]
MCCpp == [MCRaw EXCEPT !["c1"] = "std::__1::condition_variable::wait"]
MCNames == ToSet(PosixNames \o CppNames) \union {Mangled}
MCUsers == [inst \in MCInst |-> IF inst \in {"t1", "i1"} THEN {"other"} ELSE {}]
MCArgs == [inst \in MCInst |-> IF inst \in {"w1", "t3"} THEN 2 ELSE 3]
MCTimespecOf == [inst \in MCInst |-> IF inst \in {"t1", "t2"} THEN "a" ELSE "b"]

MCTimespecs == {1, 2, NoType}

Cmd(pass, flags, pos, sec, nsec, inspt) ==
  [pass |-> pass, flags |-> flags, pos |-> pos, sec |-> sec, nsec |-> nsec, inspt |-> inspt]
PassLibs == {<<"PosixCondWait", {}>>, <<"CondWait", {"posix"}>>, <<"CondWait", {"posix", "cpp"}>>}
Lists == {<<0>>, <<0, 0>>, <<0, 2>>, <<2, 0>>, <<4, 2>>, <<3, 1>>, <<2, 9>>, <<0, 2, 0>>, <<2, 0, 5>>,
          <<4, 5, 4>>}
TimeLists == {<<0>>, <<0, 2>>, <<2, 0, 2>>, <<4, 3>>, <<9, 2>>}
Listing == {{}, {"verbose", "analyze"}}
Times == {<< <<3>>, <<1>> >>, << <<3, -5>>, <<1>> >>, << <<3>>, <<1, 2>> >>, << <<3, -5, 7>>, <<1, 2, 4>> >>}

MCCommands == UNION {
  {Cmd(pl[1], pl[2] \union {mode} \union listing, pos, <<>>, <<>>, <<>>) :
     pl \in PassLibs, mode \in {"rm", "switch"}, listing \in Listing, pos \in Lists},
  {Cmd(pl[1], pl[2] \union {"tmod"}, pos, time[1], time[2], inspt) :
     pl \in PassLibs, pos \in TimeLists, time \in Times,
     inspt \in {<<>>, <<3>>, <<1, 4>>, <<2, 3, 4>>, <<9>>}},
  {Cmd(pl[1], pl[2] \union modes \union {"analyze", "verbose"}, <<0>>, sec, nsec, <<>>) :
     pl \in PassLibs \union {<<"CondWait", {}>>, <<"CondWait", {"cpp"}>>},
     modes \in SUBSET Modes, sec \in {<<>>, <<1>>}, nsec \in {<<>>, <<1>>}}}
=============================================================================
