---------------------------- MODULE MCCallPasses ----------------------------
(***************************************************************************)
(* Instances for TLC: one module with calls and invokes of every function  *)
(* the five passes look for, with and without uses and with too few        *)
(* arguments, and command lines with up to three positions.                *)
(***************************************************************************)
EXTENDS CallPasses, TLC

Mangled == "_ZNSt3__16thread4joinEv"
Callees == <<"pthread_join", Mangled, Mangled, "pthread_join", "indirect",
             "pthread_yield", "sched_yield", "sched_yield",
             "pthread_cond_signal", "pthread_cond_broadcast", "pthread_cond_signal",
             "pthread_cond_broadcast", "sem_init", "sem_open", "sem_open", "sem_init">>
MCLayout == [n \in 1..Len(Callees) |-> ToString(n)]
PerInst(seq) == [inst \in {MCLayout[n] : n \in 1..Len(seq)} |->
                   seq[CHOOSE n \in 1..Len(seq) : MCLayout[n] = inst]]
MCInvoke == {"3", "4", "8", "12", "16"}
MCRaw == PerInst(Callees)
MCCpp == [inst \in DOMAIN MCRaw |-> IF MCRaw[inst] = Mangled THEN StdJoin ELSE MCRaw[inst]]
MCNames == ({Callees[n] : n \in 1..Len(Callees)} \ {"indirect"}) \union {StdJoin}
MCUsers == [inst \in DOMAIN MCRaw |-> IF inst \in {"1", "4", "6", "9"} THEN {"other"} ELSE {}]
MCArgs == PerInst(<<2, 1, 1, 2, 0, 0, 0, 0, 1, 1, 0, 1, 3, 2, 4, 3>>)

Cmd(pass, flags, pos, val) == [pass |-> pass, flags |-> flags, pos |-> pos, val |-> val]
Short == UNION {[1..len -> 0..4] : len \in 0..2}
Positions == Short \union [1..3 -> {0, 2, 3}]
ModeSets == {{}, {"rm"}, {"rep"}, {"rm", "rep"}}
Listing == {{}, {"verbose", "analyze"}}

MCCommands == UNION {
  {Cmd("ThreadJoin", lib \union modes \union listing, pos, <<>>) :
     lib \in {{"posix"}, {"c++11"}, {"posix", "c++11"}}, modes \in ModeSets,
     listing \in Listing, pos \in Positions},
  {Cmd("ThreadJoin", {"rm"}, <<0>>, <<>>)},
  {Cmd(pass, modes \union listing, pos, <<>>) :
     pass \in {"PosixJoin", "PosixCondSignal"}, modes \in ModeSets,
     listing \in Listing, pos \in Positions},
  {Cmd("PosixYield", modes \union listing, pos, <<>>) :
     modes \in {{}, {"rm"}}, listing \in Listing, pos \in Positions},
  {Cmd("PosixSema", {"mod"} \union listing, pos, val) :
     listing \in Listing, pos \in Positions, val \in {<<>>, <<1>>, <<5, 0>>, <<0, 3, 2>>}},
  {Cmd("PosixSema", {}, <<0>>, <<1>>)}}
=============================================================================
