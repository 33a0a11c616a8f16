------------------------------ MODULE MutexPass ------------------------------
(***************************************************************************)
(* Mutex/Mutex.cpp: the pass that removes, swaps, shifts or splits pairs   *)
(* of lock and unlock of POSIX and C++11 mutexes, which may be calls or    *)
(* invokes.  An invoke ends its basic block, so it leaves a branch behind  *)
(* when it is removed or moved.  A body lists the instructions of all      *)
(* blocks of a function; a block ends at an invoke or a branch.            *)
(***************************************************************************)
EXTENDS InstList, MutexPairs, FiniteSets

CONSTANTS
  Programs,     \* modules to mutate: sequences of function bodies, each a
                \* sequence of the records of MutexPairs
  Mutexes,      \* what the first operand of a call can be
  Commands,     \* command lines: [flags, pos, lockdir, unlockdir, splitpos]
  IntMax        \* largest int; the unsigned range has twice as many values

VARIABLES
  cmd,         \* the command line
  program,     \* the module as it was read (history)
  ir,          \* the module as it is now
  lockPairs,   \* the four vectors of pairs
  func,        \* the functions enumerated so far
  mutateInsts, \* rm mode: mutateCalls and mutateInvokes, what is still to be erased
  i,           \* loop index into MutatePos
  modified,    \* what runOnModule is going to return
  pc           \* where the pass is

vars == <<cmd, program, ir, lockPairs, func, mutateInsts, i, modified, pc>>

Modes == {"rm", "swap", "shift", "split"}
UIntRange == 0..(2 * IntMax + 1)

ASSUME IntMaxAssumption == IntMax \in Nat \ {0}
ASSUME CommandAssumption ==
  \A c \in Commands :
    /\ c.flags \subseteq Modes \union {"analyze", "verbose"}
    /\ c.pos \in Seq(UIntRange) /\ c.splitpos \in Seq(UIntRange)
    /\ c.lockdir \in Seq(Int) /\ c.unlockdir \in Seq(Int)

IsTerminator(op) == op.invoke \/ op.callee = "branch"

Op == [callee : {"lock", "unlock", "branch", "other"}, lib : {"pthread", "cpp", "none"},
       mutex : Mutexes \union {"none"}, args : Nat, invoke : BOOLEAN, used : BOOLEAN]

\* Every function ends with a terminator of its own.
ASSUME ProgramAssumption ==
  \A prog \in Programs :
    /\ prog \in Seq(Seq(Op)) /\ prog # <<>>
    /\ \A f \in 1..Len(prog) : prog[f] # <<>> /\ Last(prog[f]).callee = "branch"

Init ==
  /\ cmd \in Commands
  /\ program \in Programs
  /\ ir = Loaded(program)
  /\ lockPairs = [kind \in Kinds |-> <<>>]
  /\ func = 0
  /\ mutateInsts = {}
  /\ i = 0
  /\ modified = FALSE
  /\ pc = "args"

-----------------------------------------------------------------------------
(* Command line and enumeration *)

Mode(m) == m \in cmd.flags

RmArgs == cmd.lockdir = <<>> /\ cmd.unlockdir = <<>> /\ cmd.splitpos = <<>>
\* Mutant of SwapArgs: pairs of positions are enough.
SwapArgs_Pairs == RmArgs
SwapArgs == RmArgs /\ Len(cmd.pos) % 4 = 0
ShiftArgs == (cmd.lockdir # <<>> \/ cmd.unlockdir # <<>>) /\ cmd.splitpos = <<>>
SplitArgs ==
  /\ cmd.lockdir = <<>> /\ cmd.unlockdir = <<>>
  /\ cmd.splitpos # <<>> /\ Len(cmd.splitpos) % 2 = 0

ArgsAccepted ==
  /\ \A m1, m2 \in Modes : Mode(m1) /\ Mode(m2) => m1 = m2
  /\ (\E m \in Modes : Mode(m)) => cmd.pos # <<>> /\ Len(cmd.pos) % 2 = 0
  /\ Mode("rm") => RmArgs
  /\ Mode("swap") => SwapArgs
  /\ Mode("shift") => ShiftArgs
  /\ Mode("split") => SplitArgs

CheckCommandLineArgs ==
  /\ pc = "args"
  /\ pc' = IF ArgsAccepted THEN "enumerate" ELSE "exit"
  /\ UNCHANGED <<cmd, program, ir, lockPairs, func, mutateInsts, i, modified>>

EnumerateFunction ==
  /\ pc = "enumerate"
  /\ func' = func + 1
  /\ lockPairs' = FindPairs(lockPairs, ir.body[func'], ir.op)
  /\ pc' = IF func' = Len(ir.body) THEN "loop" ELSE pc
  /\ UNCHANGED <<cmd, program, ir, mutateInsts, i, modified>>

-----------------------------------------------------------------------------
(* The loops over the positions *)

InList(list, n) == n < Len(list)
At(list, n) == list[n + 1]
ToInt(u) == IF u > IntMax THEN u - 2 * (IntMax + 1) ELSE u
ToUnsigned(n) == IF n < 0 THEN n + 2 * (IntMax + 1) ELSE n

Turn(mode) ==
  /\ pc = "loop" /\ Mode(mode) /\ i < Len(cmd.pos)
  /\ UNCHANGED <<cmd, program, lockPairs, func>>
Overrun(width) == ~InList(cmd.pos, i + width - 1)

Faulted(ir2) == ir2.fault # "none"
Commit(ir2, width) ==
  /\ ir' = ir2
  /\ i' = i + width
  /\ pc' = IF Faulted(ir2) THEN "fault" ELSE pc
Skip(width) ==
  /\ Commit(IF Overrun(width) THEN [ir EXCEPT !.fault = "oob"] ELSE ir, width)
  /\ UNCHANGED <<mutateInsts, modified>>

Kind(n) == At(cmd.pos, n)
Finds(kind, number) == kind \in Kinds /\ number < Len(lockPairs[kind])

\* getGenericPair looks up an invoke-invoke pair at pos1, which is its kind.
GenericNumber(n) == IF Kind(n) = InvokeInvoke THEN InvokeInvoke ELSE At(cmd.pos, n + 1)
HasGenericPair(n) == Finds(Kind(n), GenericNumber(n))
GenericPair(n) == lockPairs[Kind(n)][GenericNumber(n) + 1]

\* -rm asks the class for the number given.
HasPair(n) == Finds(Kind(n), At(cmd.pos, n + 1))
PairAt(n) == lockPairs[Kind(n)][At(cmd.pos, n + 1) + 1]

InstsOf(pair) == {pair.lock, pair.unlock}

\* CallInst::Create or InvokeInst::Create with the callee and the first operand of
\* a call, to stand alone or in the place of another instruction, whose uses it gets
Branch == [callee |-> "branch", lib |-> "none", mutex |-> "none", args |-> 0,
           invoke |-> FALSE, used |-> FALSE]
AsCall(op) == [op EXCEPT !.args = 1, !.invoke = FALSE, !.used = FALSE]
InPlaceOf(op, old) == [op EXCEPT !.args = 1, !.invoke = old.invoke, !.used = old.used]

\* A C++11 call returns nothing, so it should have no uses; else it is left alone.
HasUnexpectedUses(op) == op.lib = "cpp" /\ op.used

-----------------------------------------------------------------------------
(* -rm: the calls and the invokes of all pairs are collected, then erased *)

CollectPair ==
  /\ Turn("rm") /\ ~Overrun(2) /\ HasPair(i)
  /\ mutateInsts' = mutateInsts \union InstsOf(PairAt(i))
  /\ Commit(ir, 2)
  /\ UNCHANGED modified

SkipCollect ==
  /\ Turn("rm") /\ (Overrun(2) \/ ~HasPair(i))
  /\ Skip(2)

StartErasing ==
  /\ pc = "loop" /\ Mode("rm") /\ i >= Len(cmd.pos)
  /\ modified' = (mutateInsts # {})
  /\ pc' = "erase"
  /\ UNCHANGED <<cmd, program, ir, lockPairs, func, mutateInsts, i>>

\* Mutant of EraseInvoke: no branch to the normal destination.
EraseInvoke_NoBranch(ir1, inst) == EraseInst(ir1, inst)

\* eraseInvokeOrRep: a branch to the normal destination takes the place.
EraseInvoke(ir1, inst) ==
  ReplaceInst(CreateInsts(ir1, {inst}, <<Branch>>), inst, NewInst(ir1))

Erased(ir1, inst) ==
  IF inst \notin ir1.freed /\ HasUnexpectedUses(ir1.op[inst]) THEN ir1
  ELSE IF ir1.op[inst].invoke THEN EraseInvoke(ir1, inst)
  ELSE EraseInst(ir1, inst)

\* First the calls, then the invokes, each in the order of their pointers: any.
EraseNext ==
  /\ pc = "erase"
  /\ \E inst \in mutateInsts :
       /\ ir.op[inst].invoke => \A other \in mutateInsts : ir.op[other].invoke
       /\ ir' = Erased(ir, inst)
       /\ mutateInsts' = mutateInsts \ {inst}
  /\ pc' = IF Faulted(ir') THEN "fault" ELSE pc
  /\ UNCHANGED <<cmd, program, lockPairs, func, i, modified>>

-----------------------------------------------------------------------------
(* -swap: exchange the locks, then the unlocks of two pairs *)

Swappable(op1, op2) == op1.lib = op2.lib /\ op1.args = 1 /\ op2.args = 1

\* Mutant of SwapCallOrInvoke: the copies go back where they came from.
SwapCallOrInvoke_InPlace(ir1, inst1, inst2) ==
  LET op1 == ir1.op[inst1]
      op2 == ir1.op[inst2]
      new == NewInst(ir1)
      created == CreateInsts(ir1, {inst1, inst2}, <<InPlaceOf(op2, op1), InPlaceOf(op1, op2)>>)
  IN  Guarded(ir1, {inst1, inst2} \cap ir1.freed # {}, "dangling",
        IF ~Swappable(op1, op2) THEN ir1
        ELSE ReplaceInst(ReplaceInst(created, inst1, new + 1), inst2, new))

\* swapCalls, swapCallInvoke or swapInvokes: what is a call stays a call, what is
\* an invoke stays an invoke.
SwapCallOrInvoke(ir1, inst1, inst2) ==
  LET op1 == ir1.op[inst1]
      op2 == ir1.op[inst2]
      new == NewInst(ir1)
      created == CreateInsts(ir1, {inst1, inst2}, <<InPlaceOf(op2, op1), InPlaceOf(op1, op2)>>)
  IN  Guarded(ir1, {inst1, inst2} \cap ir1.freed # {}, "dangling",
        IF ~Swappable(op1, op2) THEN ir1
        ELSE ReplaceInst(ReplaceInst(created, inst1, new), inst2, new + 1))

CanSwap ==
  /\ ~Overrun(4) /\ HasGenericPair(i) /\ HasGenericPair(i + 2)
  /\ GenericPair(i).lock # GenericPair(i + 2).lock
  /\ GenericPair(i).unlock # GenericPair(i + 2).unlock
RolesSwapped(pair1, pair2) ==
  {role \in {"lock", "unlock"} : Swappable(ir.op[pair1[role]], ir.op[pair2[role]])}

SwapPairs ==
  /\ Turn("swap") /\ CanSwap
  /\ LET pair1 == GenericPair(i)
         pair2 == GenericPair(i + 2)
     IN  /\ Commit(SwapCallOrInvoke(SwapCallOrInvoke(ir, pair1.lock, pair2.lock),
                                    pair1.unlock, pair2.unlock), 4)
         /\ modified' = (modified \/ RolesSwapped(pair1, pair2) # {})
  /\ UNCHANGED mutateInsts

SkipSwap ==
  /\ Turn("swap") /\ ~CanSwap
  /\ Skip(4)

-----------------------------------------------------------------------------
(* -shift: move the lock and the unlock of a pair *)

\* A missing direction counts as 1, the announced no-op.
LockShift   == IF InList(cmd.lockdir, i \div 2) THEN At(cmd.lockdir, i \div 2) ELSE 1
UnlockShift == IF InList(cmd.unlockdir, i \div 2) THEN At(cmd.unlockdir, i \div 2) ELSE 1

\* shiftCallInst declines before the iterator it moved is used.
ShiftCall(ir1, inst, dir) ==
  LET op       == ir1.op[inst]
      declined == inst \notin ir1.freed /\ HasUnexpectedUses(op)
      shifted  == ShiftCallInst(ir1, inst, dir)
  IN  IF dir = 0 \/ declined THEN ir1
      ELSE IF Faulted(shifted) THEN shifted
      ELSE [shifted EXCEPT !.op[NewInst(ir1)] = AsCall(op)]

\* Mutant of ShiftInvoke: the block is not ended again.
ShiftInvoke_NoBranch(ir1, inst, dir) ==
  LET op  == ir1.op[inst]
      new == NewInst(ir1)
      created == CreateInsts(ir1, {inst}, <<AsCall(op)>>)
  IN  Guarded(ir1, inst \in ir1.freed, "dangling",
        IF HasUnexpectedUses(op) \/ op.args # 1 THEN ir1
        ELSE ShiftCall(ReplaceInst(created, inst, new), new, dir))

\* The invoke becomes a call and a branch, then the call is shifted.
ShiftInvoke(ir1, inst, dir) ==
  LET op  == ir1.op[inst]
      new == NewInst(ir1)
      created == CreateInsts(ir1, {inst}, <<AsCall(op), Branch>>)
      place   == PosOf(ir1, inst) + 1
      branched == InsertBefore(ReplaceInst(created, inst, new), FuncOf(ir1, inst), place, new + 1)
  IN  Guarded(ir1, inst \in ir1.freed, "dangling",
        IF HasUnexpectedUses(op) \/ op.args # 1 THEN ir1 ELSE ShiftCall(branched, new, dir))

Shifted(ir1, inst, dir) ==
  IF dir = 1 THEN ir1
  ELSE IF ir.op[inst].invoke THEN ShiftInvoke(ir1, inst, dir)
  ELSE ShiftCall(ir1, inst, dir)

\* Mutant of ShiftPair: only the shift of the unlock counts as a change.
ShiftPair_LockSilent ==
  /\ Turn("shift") /\ ~Overrun(2) /\ HasGenericPair(i)
  /\ Commit(Shifted(Shifted(ir, GenericPair(i).lock, LockShift),
                    GenericPair(i).unlock, UnlockShift), 2)
  /\ modified' = (modified \/ UnlockShift # 1)
  /\ UNCHANGED mutateInsts

ShiftPair ==
  /\ Turn("shift") /\ ~Overrun(2) /\ HasGenericPair(i)
  /\ Commit(Shifted(Shifted(ir, GenericPair(i).lock, LockShift),
                    GenericPair(i).unlock, UnlockShift), 2)
  /\ modified' = (modified \/ LockShift # 1 \/ UnlockShift # 1)
  /\ UNCHANGED mutateInsts

\* Only the kind is checked: a NULL pair of a proper kind is followed.
SkipShift ==
  /\ Turn("shift") /\ (Overrun(2) \/ ~HasGenericPair(i))
  /\ IF ~Overrun(2) /\ Kind(i) \in Kinds
     THEN Commit([ir EXCEPT !.fault = "null"], 2) /\ UNCHANGED <<mutateInsts, modified>>
     ELSE Skip(2)

-----------------------------------------------------------------------------
(* -split: unlock and lock again between the two ends of a pair *)

UnlockPos == ToInt(At(cmd.splitpos, i))
LockPos   == ToInt(At(cmd.splitpos, i + 1))

\* Mutant of SplitApart: both calls are inserted after the lock.
SplitApart_NotCorrected(pair) ==
  LET lockSplit   == NewInst(ir)
      unlockSplit == NewInst(ir) + 1
      created  == CreateInsts(ir, InstsOf(pair), <<AsCall(ir.op[pair.lock]), AsCall(ir.op[pair.unlock])>>)
      unlocked == InsertInstructionRelative(created, pair.lock, unlockSplit, ToUnsigned(UnlockPos))
  IN  InsertInstructionRelative(unlocked, pair.lock, lockSplit, ToUnsigned(LockPos))

\* createMutexCopy makes calls, also of invokes, and never fails.
SplitApart(pair) ==
  LET lockSplit   == NewInst(ir)
      unlockSplit == NewInst(ir) + 1
      created  == CreateInsts(ir, InstsOf(pair), <<AsCall(ir.op[pair.lock]), AsCall(ir.op[pair.unlock])>>)
      unlocked == InsertInstructionRelative(created, pair.lock, unlockSplit, ToUnsigned(UnlockPos))
      lockPos  == IF UnlockPos < LockPos THEN LockPos + 1 ELSE LockPos
  IN  InsertInstructionRelative(unlocked, pair.lock, lockSplit, ToUnsigned(lockPos))

HasSplitPos  == InList(cmd.splitpos, i)
SplitOverrun ==
  Overrun(2) \/ (HasGenericPair(i) /\ HasSplitPos /\ ~InList(cmd.splitpos, i + 1))
CanSplit ==
  /\ ~SplitOverrun /\ HasGenericPair(i) /\ HasSplitPos
  /\ LET dist == DistanceBetween(ir, GenericPair(i).lock, GenericPair(i).unlock)
     IN  UnlockPos < dist /\ LockPos < dist

SplitPair ==
  /\ Turn("split") /\ CanSplit
  /\ Commit(SplitApart(GenericPair(i)), 2)
  /\ modified' = TRUE
  /\ UNCHANGED mutateInsts

SkipSplit ==
  /\ Turn("split") /\ ~CanSplit
  /\ IF SplitOverrun
     THEN Commit([ir EXCEPT !.fault = "oob"], 2) /\ UNCHANGED <<mutateInsts, modified>>
     ELSE Skip(2)

-----------------------------------------------------------------------------
(* The end of the pass *)

FinishLoop ==
  /\ \/ pc = "loop" /\ ~Mode("rm") /\ ((\A m \in Modes : ~Mode(m)) \/ i >= Len(cmd.pos))
     \/ pc = "erase" /\ mutateInsts = {}
  /\ pc' = "ran"
  /\ UNCHANGED <<cmd, program, ir, lockPairs, func, mutateInsts, i, modified>>

\* opt calls print under -analyze; the verbose form dereferences every pair.
VerbosePrint == {"analyze", "verbose"} \subseteq cmd.flags
PairedInsts == UNION {UNION {InstsOf(pair) : pair \in ToSet(lockPairs[kind])} : kind \in Kinds}

PrintPairs ==
  /\ pc = "ran"
  /\ ir' = IF VerbosePrint THEN Dereference(ir, PairedInsts) ELSE ir
  /\ pc' = IF Faulted(ir') THEN "fault" ELSE "done"
  /\ UNCHANGED <<cmd, program, lockPairs, func, mutateInsts, i, modified>>

Stopped == pc \in {"exit", "done", "fault"}
Terminated == Stopped /\ UNCHANGED vars

Next ==
  \/ CheckCommandLineArgs \/ EnumerateFunction
  \/ CollectPair \/ SkipCollect \/ StartErasing \/ EraseNext
  \/ SwapPairs \/ SkipSwap \/ ShiftPair \/ SkipShift \/ SplitPair \/ SkipSplit
  \/ FinishLoop \/ PrintPairs \/ Terminated

Spec == Init /\ [][Next]_vars
-----------------------------------------------------------------------------
(* Properties *)

Enumerated == pc \notin {"args", "enumerate", "exit"}
Ran == pc \in {"ran", "done"}
Original(f) == Numbered(program)[f]
OriginalOp == FlattenSeq(program)
Groups(width) == {n \in 0..(Len(cmd.pos) - width) : n % width = 0}
NamedPairs ==
  IF Mode("rm") THEN {PairAt(n) : n \in {g \in Groups(2) : HasPair(g)}}
  ELSE {GenericPair(n) : n \in {g \in Groups(2) : HasGenericPair(g)}}
NamedInsts == UNION {InstsOf(pair) : pair \in NamedPairs}

\* The ends of pairs in a function, and the pairs of a kind they make.
Ends(callee, invoke, f) ==
  {inst \in ToSet(Original(f)) : /\ OriginalOp[inst].callee = callee
                                 /\ OriginalOp[inst].invoke = invoke
                                 /\ OriginalOp[inst].args > 0}
FunctionPairs(kind, f) ==
  {pair \in [lock   : Ends("lock", LockIsInvoke(kind), f),
             unlock : Ends("unlock", UnlockIsInvoke(kind), f)] :
     /\ OriginalOp[pair.lock].lib = OriginalOp[pair.unlock].lib
     /\ OriginalOp[pair.lock].mutex = OriginalOp[pair.unlock].mutex}
Earlier(pair1, pair2) ==
  \/ pair1.lock < pair2.lock
  \/ pair1.lock = pair2.lock /\ pair1.unlock < pair2.unlock

\* The four vectors together hold each lock of a function with each unlock of the
\* same mutex and library in that function, in either order of the two, once, and
\* number them within a kind by the place of the lock, then of the unlock: the
\* numbers a listing prints name the same pairs in the next run (findPairs).
PairsExact ==
  Enumerated =>
    \A kind \in Kinds :
      LET pairs == lockPairs[kind]
      IN  /\ ToSet(pairs) = UNION {FunctionPairs(kind, f) : f \in 1..Len(program)}
          /\ \A m, n \in 1..Len(pairs) : m < n => Earlier(pairs[m], pairs[n])

ShareInsts(width) ==
  \E m, n \in {g \in Groups(width) : \A k \in {k \in 0..(width - 1) : k % 2 = 0} : HasGenericPair(g + k)} :
    /\ m # n
    /\ \E j, k \in {k \in 0..(width - 1) : k % 2 = 0} :
         InstsOf(GenericPair(m + j)) \cap InstsOf(GenericPair(n + k)) # {}
Directions == ToSet(cmd.lockdir) \union ToSet(cmd.unlockdir)

\* The only ways to an undefined operation.  No accepted command line reads a list
\* past its end.  A missing pair is followed by -shift alone.  The end of a function
\* is reached by a shift downwards, or by a split of which a value does not fit an
\* int or of which the unlock comes before the lock.  An erased instruction is used
\* by the verbose listing, by swaps or shifts that name an instruction in two
\* groups, or by a shift upwards from the first instruction of a function; never by
\* -rm, nor by one swap of two pairs whatever they share, nor by -split.
FaultsExplained ==
  /\ ir.fault # "oob"
  /\ ir.fault = "null" =>
       Mode("shift") /\ \E g \in Groups(2) : Kind(g) \in Kinds /\ ~HasGenericPair(g)
  /\ ir.fault = "end" =>
       \/ Mode("shift") /\ \E dir \in Directions : dir > 1
       \/ /\ Mode("split")
          /\ \/ \E n \in 1..Len(cmd.splitpos) : cmd.splitpos[n] > IntMax
             \/ \E pair \in NamedPairs : pair.unlock < pair.lock
  /\ ir.fault = "dangling" =>
       \/ VerbosePrint /\ ~Mode("split")
       \/ Mode("swap") /\ ShareInsts(4)
       \/ Mode("shift") /\ (ShareInsts(2) \/ \E dir \in Directions : dir < 0)

\* -rm removes the instructions of the named pairs, however they are shared, but no
\* C++11 call with uses; where an invoke was a branch keeps the block terminated.  It
\* reports a change exactly if a pair was found (eraseLockCall, eraseLockInvoke).
RemoveExact ==
  Mode("rm") /\ Ran =>
    LET gone == {inst \in NamedInsts : ~HasUnexpectedUses(OriginalOp[inst])}
        calls == {inst \in gone : ~OriginalOp[inst].invoke}
    IN  /\ modified = (NamedPairs # {})
        /\ \A f \in 1..Len(program) :
             LET kept == Kept(Original(f), ToSet(Original(f)) \ calls)
             IN  /\ Len(ir.body[f]) = Len(kept)
                 /\ \A n \in 1..Len(kept) :
                      IF kept[n] \in gone THEN ir.op[ir.body[f][n]] = Branch
                      ELSE ir.body[f][n] = kept[n]

SwapGroups == {g \in Groups(4) :
                 /\ HasGenericPair(g) /\ HasGenericPair(g + 2)
                 /\ GenericPair(g).lock # GenericPair(g + 2).lock
                 /\ GenericPair(g).unlock # GenericPair(g + 2).unlock}

\* What an instruction can be exchanged with.
Partners(inst) ==
  {other \in NamedInsts :
     /\ other # inst /\ Swappable(OriginalOp[inst], OriginalOp[other])
     /\ \E g \in SwapGroups, role \in {"lock", "unlock"} :
          {inst, other} = {GenericPair(g)[role], GenericPair(g + 2)[role]}}

\* After a -swap that read nothing erased, the place of each lock and unlock has what a
\* partner called, while a call stays a call and an invoke an invoke with its
\* destinations; a lock or unlock that cannot be swapped stays, also when the
\* other half of its pair was swapped (swapCallOrInvoke and its three cases).
SwapExact ==
  Mode("swap") /\ Ran =>
    \A f \in 1..Len(program) :
      /\ Len(ir.body[f]) = Len(Original(f))
      /\ \A n \in 1..Len(Original(f)) :
           LET inst == Original(f)[n]
           IN  IF Partners(inst) = {} THEN ir.body[f][n] = inst
               ELSE \E other \in Partners(inst) :
                      ir.op[ir.body[f][n]] = InPlaceOf(OriginalOp[other], OriginalOp[inst])

\* The instruction at a distance from inst, counted before the step; upwards the
\* count stops at the beginning of the function.
Target(inst, distance) ==
  LET n == PosOf(ir, inst) + distance
  IN  ir.body[FuncOf(ir, inst)][IF n < 1 THEN 1 ELSE n]

\* -split inserts the new unlock before the instruction at the first distance from
\* the lock of the pair and the new lock before the one at the second, also when
\* the lock is an invoke or the unlock comes first in the function (positions from
\* 1, README.md:158-171; insertInstructionRelative, lines 1236-1259).  A second
\* distance that does not fit an int is counted as an unsigned one; only a function
\* with more than IntMax instructions is not at its end before that.
SplitsAsAsked ==
  SplitPair /\ ~Faulted(ir') /\ UnlockPos > 0 =>
    LET lock == GenericPair(i).lock
        body == ir'.body[FuncOf(ir, lock)]
    IN  LockPos >= 0 \/ Len(ir.body[FuncOf(ir, lock)]) <= IntMax =>
          /\ Before(body, NewInst(ir) + 1, Len(ir.op)) = Target(lock, UnlockPos)
          /\ Before(body, NewInst(ir), Len(ir.op)) = Target(lock, LockPos)
SplitPlaced == [][SplitsAsAsked]_vars

\* The number of the block a place of a body is in, and the instructions no pair
\* names in their order, each with its block.
Block(body, n) == Cardinality({m \in 1..(n - 1) : IsTerminator(ir.op[body[m]])})
Others(body) ==
  LET at == Kept([n \in 1..Len(body) |-> n],
                 {n \in 1..Len(body) : body[n] \notin NamedInsts /\ body[n] <= Len(OriginalOp)})
  IN  [k \in 1..Len(at) |-> <<body[at[k]], Block(body, at[k])>>]

\* Whatever the mode, the blocks of a function stay: as many as there were, each
\* with one terminator at its end, and every instruction no pair names in the block
\* and in the order it was.
BlocksKept ==
  Enumerated /\ ir.fault = "none" =>
    \A f \in 1..Len(program) :
      /\ Others(ir.body[f]) = Others(Original(f))
      /\ Block(ir.body[f], Len(ir.body[f])) = Block(Original(f), Len(Original(f)))
      /\ IsTerminator(ir.op[Last(ir.body[f])])

\* A change of the module is always reported to the pass manager.
ReportsChanges ==
  Ran => (modified \/ ir = Loaded(program))

-----------------------------------------------------------------------------
(* What the documentation says and the code does not do *)

\* Mutex.cpp:1270-1272: getGenericPair "Returns a pointer to the LockUnlock pair at
\* pos1 and pos2."
GenericPairIsPairAt ==
  pc = "loop" /\ ~Mode("rm") =>
    \A n \in Groups(2) : HasGenericPair(n) => HasPair(n) /\ GenericPair(n) = PairAt(n)
=============================================================================
