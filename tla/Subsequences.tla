---------------------------- MODULE Subsequences ----------------------------
(***************************************************************************)
(* What a loop that appends the elements it looks for leaves in a vector.  *)
(***************************************************************************)
EXTENDS Integers, Sequences, SequencesExt

\* The elements of a sequence that are in S, in their order.
Kept(seq, S) ==
  LET kept[n \in 0..Len(seq)] ==
        IF n = 0 THEN <<>>
        ELSE IF seq[n] \in S THEN Append(kept[n - 1], seq[n]) ELSE kept[n - 1]
  IN  kept[Len(seq)]
=============================================================================
