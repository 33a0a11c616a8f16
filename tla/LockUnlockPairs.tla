-------------------------- MODULE LockUnlockPairs --------------------------
(***************************************************************************)
(* Tools/FuncLocalLockCalls.cpp and Tools/LockUnlockPairs.cpp: the visitor *)
(* that finds the lock-unlock pairs of every function.  One step is one    *)
(* turn of one of its loops.  Positions on the command line are the        *)
(* indices of the vectors built here, so their order and completeness are  *)
(* what a user of -pos relies on.  Loop indices start at 0 as in the code, *)
(* the sequences they index at 1.                                          *)
(***************************************************************************)
EXTENDS LockPairing

CONSTANTS
  Programs,   \* modules: sequences of function bodies, each a sequence of
              \* [callee, mutex]
  UIntMax     \* largest unsigned

ASSUME UIntAssumption == UIntMax \in Nat \ {0}
ASSUME ProgramAssumption ==
  /\ Programs \subseteq Seq(Seq(Operation))
  /\ \A prog \in Programs :
       /\ Len(prog) <= UIntMax
       /\ \A fun \in 1..Len(prog) : Len(prog[fun]) <= UIntMax

VARIABLES
  program,    \* the module
  fIter, I,   \* search: current function and instruction
  lockCalls,  \* search: calls found in the current function
  funcs,      \* functions with calls to lock or unlock
  calls,      \* their calls
  i, j, k,    \* visit: function, first call, second call
  pairs,      \* visit: pairs of the current function
  funcPairs,  \* pairs of the functions already visited
  pc

searchVars == <<fIter, I, lockCalls, funcs, calls>>
visitVars == <<i, j, k, pairs, funcPairs>>
vars == <<program, searchVars, visitVars, pc>>

Init ==
  /\ program \in Programs
  /\ fIter = 1 /\ I = 1
  /\ lockCalls = <<>>
  /\ funcs = <<>> /\ calls = <<>>
  /\ i = 0 /\ j = 0 /\ k = 0
  /\ pairs = <<>>
  /\ funcPairs = <<>>
  /\ pc = "search"

\* An instruction is its function and its place there.
OpOf(inst) == program[inst[1]][inst[2]]

-----------------------------------------------------------------------------
(* FuncLocalLockCalls::search *)

SearchInst ==
  /\ pc = "search"
  /\ fIter <= Len(program)
  /\ I <= Len(program[fIter])
  /\ lockCalls' = IF IsMutexCall(program[fIter][I])
                  THEN Append(lockCalls, <<fIter, I>>) ELSE lockCalls
  /\ I' = I + 1
  /\ UNCHANGED <<program, fIter, funcs, calls, visitVars, pc>>

\* Mutant of CloseFunction: a function without calls is kept.
CloseFunction_KeepsEmpty ==
  /\ pc = "search"
  /\ fIter <= Len(program)
  /\ I > Len(program[fIter])
  /\ funcs' = Append(funcs, fIter)
  /\ calls' = Append(calls, lockCalls)
  /\ fIter' = fIter + 1
  /\ I' = 1
  /\ lockCalls' = <<>>
  /\ UNCHANGED <<program, visitVars, pc>>

CloseFunction ==
  /\ pc = "search"
  /\ fIter <= Len(program)
  /\ I > Len(program[fIter])
  /\ IF lockCalls = <<>> THEN UNCHANGED <<funcs, calls>>
     ELSE /\ funcs' = Append(funcs, fIter)
          /\ calls' = Append(calls, lockCalls)
  /\ fIter' = fIter + 1
  /\ I' = 1
  /\ lockCalls' = <<>>
  /\ UNCHANGED <<program, visitVars, pc>>

SearchDone ==
  /\ pc = "search"
  /\ fIter > Len(program)
  /\ pc' = "function"
  /\ UNCHANGED <<program, searchVars, visitVars>>

-----------------------------------------------------------------------------
(* LockUnlockPairs::visit *)

CallsSizeAt(index) == IF index < Len(calls) THEN Len(calls[index + 1]) ELSE 0

\* The bound of the loop over j: an unsigned difference.
LastCall == (CallsSizeAt(i) - 1) % (UIntMax + 1)

\* getCallInstPtr returns NULL for an index out of bounds.
IsNull(funcIndex, callIndex) == callIndex >= CallsSizeAt(funcIndex)
CallInst(funcIndex, callIndex) == calls[funcIndex + 1][callIndex + 1]
IsLock(index)   == ~IsNull(i, index) /\ IsCallToPThreadMutexLock(OpOf(CallInst(i, index)))
IsUnlock(index) == ~IsNull(i, index) /\ IsCallToPThreadMutexUnlock(OpOf(CallInst(i, index)))

EnterFunction ==
  /\ pc = "function"
  /\ i < Len(calls)
  /\ pairs' = <<>>
  /\ j' = 0
  /\ pc' = "lock"
  /\ UNCHANGED <<program, searchVars, i, k, funcPairs>>

SkipFirst ==
  /\ pc = "lock"
  /\ j < LastCall
  /\ ~IsLock(j)
  /\ j' = j + 1
  /\ UNCHANGED <<program, searchVars, i, k, pairs, funcPairs, pc>>

TakeLock ==
  /\ pc = "lock"
  /\ j < LastCall
  /\ IsLock(j)
  /\ k' = j + 1
  /\ pc' = "unlock"
  /\ UNCHANGED <<program, searchVars, i, j, pairs, funcPairs>>

\* Mutant of IsNewPair: the mutexes are not compared.
IsNewPair_AnyMutex == IsUnlock(k)

IsNewPair ==
  /\ IsUnlock(k)
  /\ CheckMutexAlias(OpOf(CallInst(i, j)), OpOf(CallInst(i, k)))

CompareCalls ==
  /\ pc = "unlock"
  /\ k < CallsSizeAt(i)
  /\ pairs' = IF IsNewPair
              THEN Append(pairs, [lockCall |-> CallInst(i, j), unlockCall |-> CallInst(i, k)])
              ELSE pairs
  /\ k' = k + 1
  /\ UNCHANGED <<program, searchVars, i, j, funcPairs, pc>>

NextFirst ==
  /\ pc = "unlock"
  /\ k >= CallsSizeAt(i)
  /\ j' = j + 1
  /\ pc' = "lock"
  /\ UNCHANGED <<program, searchVars, i, k, pairs, funcPairs>>

\* Functions whose calls form no pair are added too.
LeaveFunction ==
  /\ pc = "lock"
  /\ j >= LastCall
  /\ funcPairs' = Append(funcPairs, pairs)
  /\ i' = i + 1
  /\ pc' = "function"
  /\ UNCHANGED <<program, searchVars, j, k, pairs>>

VisitDone ==
  /\ pc = "function"
  /\ i >= Len(calls)
  /\ pc' = "done"
  /\ UNCHANGED <<program, searchVars, visitVars>>

Terminated == pc = "done" /\ UNCHANGED vars

Next ==
  \/ SearchInst \/ CloseFunction \/ SearchDone
  \/ EnterFunction \/ SkipFirst \/ TakeLock \/ CompareCalls \/ NextFirst
  \/ LeaveFunction \/ VisitDone
  \/ Terminated

Spec == Init /\ [][Next]_vars
-----------------------------------------------------------------------------
(* Properties *)

Inst(prog) == {<<fun, n>> : fun \in 1..Len(prog), n \in 1..UIntMax}
Pair(prog) == [lockCall : Inst(prog), unlockCall : Inst(prog)]

\* Every variable holds what the C++ variable can hold.
TypeOK ==
  /\ program \in Seq(Seq(Operation))
  /\ fIter \in 1..(Len(program) + 1)
  /\ I \in Nat \ {0}
  /\ lockCalls \in Seq(Inst(program))
  /\ funcs \in Seq(1..Len(program))
  /\ calls \in Seq(Seq(Inst(program)))
  /\ i \in Nat /\ j \in Nat /\ k \in Nat
  /\ pairs \in Seq(Pair(program))
  /\ funcPairs \in Seq(Seq(Pair(program)))
  /\ pc \in {"search", "function", "lock", "unlock", "done"}

\* getCallsSizeAt(i) - 1 never wraps around: no loop of the visitor asks for a
\* call that is not there ("skipping" warnings, LockUnlockPairs.cpp:32-35).
NeverNull ==
  /\ pc = "lock" /\ j < LastCall => ~IsNull(i, j)
  /\ pc = "unlock" => ~IsNull(i, j)

\* Each vector of pairs belongs to the function of the same index, holds a pair
\* for every lock call followed by an unlock call of the same mutex and for
\* nothing else, in the order of the code: the numbers -analyze shows are the
\* numbers -pos means.
PairsOfFunction(fun, ps) ==
  \A first, second \in 1..Len(program[fun]) :
    LET found == [lockCall |-> <<fun, first>>, unlockCall |-> <<fun, second>>]
    IN  /\ first < second
        /\ IsCallToPThreadMutexLock(program[fun][first])
        /\ IsCallToPThreadMutexUnlock(program[fun][second])
        /\ CheckMutexAlias(program[fun][first], program[fun][second])
        <=> \E n \in 1..Len(ps) : ps[n] = found

PairLess(p, q) ==
  \/ p.lockCall[2] < q.lockCall[2]
  \/ p.lockCall = q.lockCall /\ p.unlockCall[2] < q.unlockCall[2]

Sorted(ps) == \A m, n \in 1..Len(ps) : m < n => PairLess(ps[m], ps[n])

PairsExact ==
  pc = "done" =>
    /\ Len(funcPairs) = Len(funcs)
    /\ \A n \in 1..Len(funcs) :
         PairsOfFunction(funcs[n], funcPairs[n]) /\ Sorted(funcPairs[n])

\* The visitor computes what PosixLock's model uses in one step.
VisitComputesFuncPairs ==
  pc = "done" =>
    LET body == [fun \in 1..Len(program) |->
                    [n \in 1..Len(program[fun]) |-> <<fun, n>>]]
        op   == [inst \in {inst \in Inst(program) : inst[2] <= Len(program[inst[1]])} |-> OpOf(inst)]
    IN  funcPairs = FuncPairs(body, op)
=============================================================================
