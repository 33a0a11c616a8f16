--------------------------- MODULE MCMutantScripts ---------------------------
(* Modules with pairs of one kind only, of two kinds, and without pairs; counts on
   both sides of the sizes of the groups. *)
EXTENDS MutantScripts, TLC

MCCounts == {(0 :> a @@ 1 :> b @@ 2 :> 0 @@ 3 :> c) : a \in 0..5, b \in {0, 2}, c \in {0, 1, 4}}
=============================================================================
