--------------------------- MODULE MCCombinations ---------------------------
(* Command lines that give each option with and without a value, for all sizes
   up to a set of six positions, and one set too large for IntMax; most of the
   incomplete ones are refused. *)
EXTENDS Combinations

Number(v) == Word("none", <<v>>)
Given(option, values) ==
  {<<>>, <<Word(option, <<>>)>>} \union {<<Word(option, <<>>), Number(v)>> : v \in values}
Lines == {<<>>, <<Word("none", <<>>)>>} \union {<<Word("none", <<0, v>>)>> : v \in -1..6}
MCArgvs ==
  {<<Word("none", <<>>)>> \o c \o size \o p \o line :
     c \in Given("-c", -1..2), size \in Given("-k", -1..7), p \in Given("-p", {3}),
     line \in Lines}
=============================================================================
