----------------------------- MODULE MutexPairs -----------------------------
(***************************************************************************)
(* Mutex/LockUnlockPairs.cpp: the pairs of a lock and an unlock of one     *)
(* mutex, kept in four vectors by whether the lock and the unlock are a    *)
(* call or an invoke.  An instruction is described by                      *)
(*   callee   "lock", "unlock", "branch" or "other"                        *)
(*   lib      whether the callee is of pthread or of std::mutex            *)
(*   mutex    the first operand; MustAlias holds of equal names            *)
(*   args     number of operands                                           *)
(*   invoke   whether it is an invoke                                      *)
(*   used     whether its value is used                                    *)
(***************************************************************************)
EXTENDS Subsequences

CallCall     == 0
CallInvoke   == 1
InvokeCall   == 2
InvokeInvoke == 3
Kinds == CallCall..InvokeInvoke

LockIsInvoke(kind)   == kind \in {InvokeCall, InvokeInvoke}
UnlockIsInvoke(kind) == kind \in {CallInvoke, InvokeInvoke}

IsMatch(op)    == op.callee \in {"lock", "unlock"}
IsLockCall(op) == op.callee = "lock"

\* The other instruction may come before the lock.
IsLockUnlockPair(lock, other) ==
  /\ lock.args >= 1 /\ other.args >= 1
  /\ ~IsLockCall(other)
  /\ lock.lib = other.lib
  /\ lock.mutex = other.mutex

\* The lock and unlock calls, or invokes, of a function body.
MutexInsts(body, op, invoke) ==
  Kept(body, {inst \in ToSet(body) : IsMatch(op[inst]) /\ op[inst].invoke = invoke})

\* Mutant of PairsFrom: an unlock has to come later in the function.
PairsFrom_Later(locks, others, op) ==
  FlattenSeq([j \in 1..Len(locks) |->
    IF ~IsLockCall(op[locks[j]]) THEN <<>>
    ELSE LET unlocks == Kept(others, {o \in ToSet(others) :
                          o > locks[j] /\ IsLockUnlockPair(op[locks[j]], op[o])})
         IN  [k \in 1..Len(unlocks) |-> [lock |-> locks[j], unlock |-> unlocks[k]]]])

\* Each lock with each of the others: by lock, then by unlock.
PairsFrom(locks, others, op) ==
  FlattenSeq([j \in 1..Len(locks) |->
    IF ~IsLockCall(op[locks[j]]) THEN <<>>
    ELSE LET unlocks == Kept(others, {o \in ToSet(others) : IsLockUnlockPair(op[locks[j]], op[o])})
         IN  [k \in 1..Len(unlocks) |-> [lock |-> locks[j], unlock |-> unlocks[k]]]])

\* The pairs of one more function are appended to the vectors.
FindPairs(pairs, body, op) ==
  [kind \in Kinds |->
     pairs[kind] \o PairsFrom(MutexInsts(body, op, LockIsInvoke(kind)),
                              MutexInsts(body, op, UnlockIsInvoke(kind)), op)]
=============================================================================
