--------------------------- MODULE MCMemoryPasses ---------------------------
(***************************************************************************)
(* Instances for TLC: one module with two or three instructions of every   *)
(* kind, and for each pass all the ways to choose its modes, up to three   *)
(* positions (in bounds, at the size and past it) and a few orderings.     *)
(***************************************************************************)
EXTENDS MemoryPasses

Op(kind, ordering, scope, volatile) ==
  [kind |-> kind, ordering |-> ordering, scope |-> scope, volatile |-> volatile]

MCPrograms == { <<
  Op("load", "seq_cst", "cross", TRUE),   Op("load", "not_atomic", "cross", FALSE),
  Op("fence", "seq_cst", "cross", FALSE), Op("load", "acquire", "single", FALSE),
  Op("store", "not_atomic", "cross", TRUE), Op("store", "release", "cross", FALSE),
  Op("memset", "not_atomic", "cross", TRUE),
  Op("memcpy", "not_atomic", "cross", TRUE), Op("store", "monotonic", "single", FALSE),
  Op("atomicrmw", "acq_rel", "cross", FALSE), Op("cmpxchg", "seq_cst", "single", FALSE),
  Op("fence", "acquire", "single", FALSE), Op("cmpxchg", "monotonic", "cross", FALSE),
  Op("atomicrmw", "monotonic", "single", FALSE) >> }

Cmd(pass, flags, pos, order) == [pass |-> pass, flags |-> flags, pos |-> pos, order |-> order]
Modes(pass) == Options(pass) \ {"all", "listing"}
Extras(pass) == {{}, {"listing"}, {"all"}} \intersect SUBSET Options(pass)
Positions == UNION {[1..len -> 0..3] : len \in 0..3}
Orders == {<<>>, <<0>>, <<2, 3>>, <<3, 1, 2>>, <<1, 4>>, <<5, 0>>}

Requests(pass) == {<<modes, <<>>>> : modes \in SUBSET Modes(pass)} \union
                 {<<modes, order>> : modes \in {{"mod"}, {"mod", "scope"}} \intersect SUBSET Modes(pass),
                                     order \in Orders}

MCCommands == UNION {
  {Cmd(pass, choice[1] \union extra, pos, choice[2]) :
     choice \in Requests(pass), extra \in Extras(pass), pos \in Positions} : pass \in Passes}
=============================================================================
