--------------------------- MODULE OccurrenceSet ---------------------------
(***************************************************************************)
(* What the enumeration of call sites does for the mutation passes: a      *)
(* numbered set of occurrences, calls before invokes, each of which is     *)
(* mutated at most once, and to every request the code that says what      *)
(* happened to the occurrence.  EnumerateCallInst implements this          *)
(* specification.                                                          *)
(*                                                                         *)
(* The codes of removeFromParent are those of EnumerateCallInst.cpp, and   *)
(* not those of its header (EnumerateCallInst.h:66-76), which has 0, -1,   *)
(* -2 and -3 only, and -3 for "more than 1 use": the code also returns 1,  *)
(* for an invoke, and returns -3 for any use.                              *)
(***************************************************************************)
EXTENDS Integers

CONSTANT Index        \* the positions a user may name with -pos

VARIABLES
  size,               \* how many occurrences have been enumerated
  calls,              \* how many of them are calls: the positions below
  used,               \* the positions whose value is used
  mutated,            \* the positions that were mutated
  last                \* the last request and the code it returned

absVars == <<size, calls, used, mutated, last>>

Mutators == {"removeFromParent", "removeFromParentRepZero",
             "replaceInstWithInst", "markMutated"}
Queries  == {"isValidIndex", "getInstructionAt"}

Answer(op, index, ret) == last' = [op |-> op, index |-> index, ret |-> ret]

AbsInit ==
  /\ size = 0
  /\ calls = 0
  /\ used = {}
  /\ mutated = {}
  /\ last = [op |-> "none", index |-> 0, ret |-> 0]

\* Occurrences are only found before the first one is mutated.  A call that is
\* found late moves the invokes up.
Enumerate ==
  /\ mutated = {}
  /\ size' = size + 1
  /\ calls' \in {calls, calls + 1}
  /\ used' \in SUBSET (0..size)
  /\ UNCHANGED <<mutated, last>>

OutOfBounds(op, index) ==
  /\ index >= size
  /\ Answer(op, index, -1)
  /\ UNCHANGED <<size, calls, used, mutated>>

AlreadyMutated(op, index) ==
  /\ index \in mutated
  /\ Answer(op, index, -2)
  /\ UNCHANGED <<size, calls, used, mutated>>

Fresh(index) == index < size /\ index \notin mutated

\* removeFromParent takes only calls that nobody uses, the others take every
\* occurrence.  One that is removed or replaced has no uses afterwards, and may
\* have been a use of others; a mark leaves the module as it is.
Mutate(op, index) ==
  /\ op \in Mutators
  /\ Fresh(index)
  /\ op = "removeFromParent" => index < calls /\ index \notin used
  /\ mutated' = mutated \union {index}
  /\ IF op = "markMutated" THEN used' = used ELSE used' \in SUBSET (used \ {index})
  /\ Answer(op, index, 0)
  /\ UNCHANGED <<size, calls>>

\* Only removeFromParent leaves a fresh occurrence as it is: an invoke (1), or
\* a call whose value is used (-3).
Decline(op, index) ==
  /\ op = "removeFromParent"
  /\ Fresh(index)
  /\ \/ index >= calls /\ Answer(op, index, 1)
     \/ index < calls /\ index \in used /\ Answer(op, index, -3)
  /\ UNCHANGED <<size, calls, used, mutated>>

\* A question is answered by the kind of the occurrence.
Inspect(op, index) ==
  /\ op \in Queries
  /\ Fresh(index)
  /\ Answer(op, index, IF index < calls THEN 0 ELSE 1)
  /\ UNCHANGED <<size, calls, used, mutated>>

Request(op, index) ==
  \/ OutOfBounds(op, index)
  \/ AlreadyMutated(op, index)
  \/ Mutate(op, index)
  \/ Decline(op, index)
  \/ Inspect(op, index)

AbsNext ==
  \/ Enumerate
  \/ \E op \in Mutators \union Queries, index \in Index : Request(op, index)

AbsSpec == AbsInit /\ [][AbsNext]_absVars
=============================================================================
