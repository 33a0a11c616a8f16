---------------------------- MODULE LockPairing ----------------------------
(***************************************************************************)
(* Which calls of a function form a lock-unlock pair: the answer the       *)
(* visitors Tools/FuncLocalLockCalls.cpp and Tools/LockUnlockPairs.cpp     *)
(* compute with nested loops (module LockUnlockPairs), as one expression.  *)
(* An instruction is described by the function it calls and by its mutex   *)
(* operand; MustAlias holds of two operands iff they are the same name.    *)
(***************************************************************************)
EXTENDS Subsequences

NoOperand == "none"   \* the call has no argument
Operation == [callee : STRING, mutex : STRING]

IsCallToPThreadMutexLock(op)   == op.callee = "lock"
IsCallToPThreadMutexUnlock(op) == op.callee = "unlock"
IsMutexCall(op) == IsCallToPThreadMutexLock(op) \/ IsCallToPThreadMutexUnlock(op)

CheckMutexAlias(op1, op2) ==
  /\ op1.mutex # NoOperand
  /\ op2.mutex # NoOperand
  /\ op1.mutex = op2.mutex

\* A lock and a later unlock of the same mutex, by their place in calls.
IsPair(calls, op, j, k) ==
  /\ j < k
  /\ IsCallToPThreadMutexLock(op[calls[j]])
  /\ IsCallToPThreadMutexUnlock(op[calls[k]])
  /\ CheckMutexAlias(op[calls[j]], op[calls[k]])

\* The lock and unlock calls of a function body, in layout order.
MutexCalls(body, op) == Kept(body, {inst \in ToSet(body) : IsMutexCall(op[inst])})

\* Two places in a vector of so many calls: by the first, then by the second.
Places(size) == [n \in 1..(size * size) |-> <<((n - 1) \div size) + 1, ((n - 1) % size) + 1>>]

\* All pairs of one function: by lock call, then by unlock call.
PairsOf(calls, op) ==
  LET both   == (1..Len(calls)) \X (1..Len(calls))
      places == Kept(Places(Len(calls)), {p \in both : IsPair(calls, op, p[1], p[2])})
  IN  [n \in 1..Len(places) |->
         [lockCall |-> calls[places[n][1]], unlockCall |-> calls[places[n][2]]]]

\* Functions without any lock or unlock call are dropped: -pos counts the rest.
FuncPairs(body, op) ==
  LET found == [f \in 1..Len(body) |-> MutexCalls(body[f], op)]
      calls == Kept(found, ToSet(found) \ {<<>>})
  IN  [f \in 1..Len(calls) |-> PairsOf(calls[f], op)]
=============================================================================
