------------------------- MODULE MCLockUnlockPairs -------------------------
(* All modules of one function of up to four interesting instructions, those of
   five that lock and unlock mainly one mutex, and modules of three functions
   with and without calls. *)
EXTENDS LockUnlockPairs, TLC

Op(c, m) == [callee |-> c, mutex |-> m]
Ops == {Op("lock", "a"), Op("lock", "b"), Op("unlock", "a"), Op("unlock", "b"),
        Op("lock", NoOperand), Op("other", NoOperand)}
BodiesUpTo(n) == UNION {[1..len -> Ops] : len \in 0..n}
OneMutex == {Op("lock", "a"), Op("unlock", "a"), Op("unlock", "b")}
Short == BodiesUpTo(1) \union {<<Op("lock", "a"), Op("unlock", "a")>>}
MCPrograms == UNION {{<<b>> : b \in BodiesUpTo(4)},
                     {<<b>> : b \in [1..5 -> OneMutex]},
                     {<<b, c, d>> : b \in Short, c \in Short, d \in Short}, {<<>>}}
=============================================================================
