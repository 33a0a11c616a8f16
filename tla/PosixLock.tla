----------------------------- MODULE PosixLock -----------------------------
(***************************************************************************)
(* PosixLock/PosixLock.cpp: the pass that removes, swaps, shifts or splits *)
(* pairs of calls to pthread_mutex_lock and pthread_mutex_unlock.  A pair  *)
(* holds two instruction pointers that were collected before the first     *)
(* mutation; the loops below use them after instructions were erased.      *)
(***************************************************************************)
EXTENDS InstList, LockPairing

CONSTANTS
  Programs,     \* modules to mutate: sequences of function bodies, each a
                \* sequence of [callee, mutex]
  Commands,     \* command lines: [flags, pos, lockdir, unlockdir, splitpos]
  IntMax        \* largest int; the unsigned range has twice as many values

Modes == {"rm", "swap", "shift", "split"}
Flags == Modes \union {"analyze", "verbose"}
UIntRange == 0..(2 * IntMax + 1)

ASSUME ProgramAssumption == Programs \subseteq Seq(Seq(Operation))
ASSUME IntMaxAssumption == IntMax \in Nat \ {0}
ASSUME CommandAssumption ==
  \A cmd \in Commands :
    /\ cmd.flags \subseteq Flags
    /\ cmd.pos \in Seq(UIntRange)
    /\ cmd.lockdir \in Seq(Int) /\ cmd.unlockdir \in Seq(Int)
    /\ cmd.splitpos \in Seq(UIntRange)

VARIABLES
  cmd,         \* the command line
  program,     \* the module as it was read (history)
  ir,          \* the module as it is now
  funcPairs,   \* the pairs of each function with mutex calls
  mutateInsts, \* rm mode: set of the instructions to erase
  toErase,     \* rm mode: those the iterator has not reached yet
  i,           \* loop index into MutatePos
  modified,    \* what runOnModule is going to return
  pc           \* where the pass is

vars == <<cmd, program, ir, funcPairs, mutateInsts, toErase, i, modified, pc>>

-----------------------------------------------------------------------------
Init ==
  /\ cmd \in Commands
  /\ program \in Programs
  /\ ir = Loaded(program)
  /\ funcPairs = <<>>
  /\ mutateInsts = {}
  /\ toErase = {}
  /\ i = 0
  /\ modified = FALSE
  /\ pc = "visit"

-----------------------------------------------------------------------------
(* Command line *)

Mode(m) == m \in cmd.flags
ExactlyOneMode == \A m1, m2 \in Modes : Mode(m1) /\ Mode(m2) => m1 = m2

RmArgs ==
  /\ cmd.pos # <<>> /\ Len(cmd.pos) % 2 = 0
  /\ cmd.lockdir = <<>> /\ cmd.unlockdir = <<>> /\ cmd.splitpos = <<>>
SwapArgs ==
  /\ cmd.pos # <<>> /\ Len(cmd.pos) % 4 = 0
  /\ cmd.lockdir = <<>> /\ cmd.unlockdir = <<>> /\ cmd.splitpos = <<>>
ShiftArgs ==
  /\ cmd.pos # <<>> /\ Len(cmd.pos) % 2 = 0
  /\ cmd.lockdir # <<>> \/ cmd.unlockdir # <<>>
  /\ cmd.splitpos = <<>>
SplitArgs ==
  /\ cmd.pos # <<>> /\ Len(cmd.pos) % 2 = 0
  /\ cmd.lockdir = <<>> /\ cmd.unlockdir = <<>>
  /\ cmd.splitpos # <<>> /\ Len(cmd.splitpos) % 2 = 0

ArgsAccepted ==
  /\ ExactlyOneMode
  /\ Mode("rm") => RmArgs
  /\ Mode("swap") => SwapArgs
  /\ Mode("shift") => ShiftArgs
  /\ Mode("split") => SplitArgs

\* cl::list is a vector: index 0 is its first element, and there is no bounds
\* check.  A signed int that receives a large unsigned value becomes negative.
InList(list, n) == n < Len(list)
At(list, n) == list[n + 1]
ToInt(u) == IF u > IntMax THEN u - 2 * (IntMax + 1) ELSE u
ToUnsigned(n) == IF n < 0 THEN n + 2 * (IntMax + 1) ELSE n

\* getPair(MutatePos[n], MutatePos[n + 1]), which may be NULL.
HasPair(n) ==
  /\ At(cmd.pos, n) < Len(funcPairs)
  /\ At(cmd.pos, n + 1) < Len(funcPairs[At(cmd.pos, n) + 1])
PairAt(n) == funcPairs[At(cmd.pos, n) + 1][At(cmd.pos, n + 1) + 1]

Calls(pair) == {pair.lockCall, pair.unlockCall}

-----------------------------------------------------------------------------
(* runOnModule, up to the dispatch on the mode *)

Visit ==
  /\ pc = "visit"
  /\ funcPairs' = FuncPairs(ir.body, ir.op)
  /\ pc' = "args"
  /\ UNCHANGED <<cmd, program, ir, mutateInsts, toErase, i, modified>>

CheckCommandLineArgs ==
  /\ pc = "args"
  /\ pc' = IF ArgsAccepted THEN "loop" ELSE "exit"
  /\ UNCHANGED <<cmd, program, ir, funcPairs, mutateInsts, toErase, i, modified>>

\* The body of a loop over MutatePos that reads width positions at a time.  A
\* read past the end of the list is undefined behaviour.
InLoop(m) ==
  /\ pc = "loop"
  /\ Mode(m)
  /\ i < Len(cmd.pos)
Overrun(width) == ~InList(cmd.pos, i + width - 1)
Advance(width) == i' = i + width
Faulted(ir2) == ir2.fault # "none"

\* All positions of the group are there and name pairs.
NamesPairs(width) ==
  ~Overrun(width) /\ \A n \in 0..(width - 1) : n % 2 = 0 => HasPair(i + n)

\* The pass goes on with the changed module, unless the change was undefined.
Commit(ir2, width) ==
  /\ ir' = ir2
  /\ pc' = IF Faulted(ir2) THEN "fault" ELSE pc
  /\ Advance(width)

\* A position that names no pair is skipped with a warning.
Skip(width, overrun) ==
  /\ Commit(IF overrun THEN [ir EXCEPT !.fault = "oob"] ELSE ir, width)
  /\ UNCHANGED <<cmd, program, funcPairs, mutateInsts, toErase, modified>>

-----------------------------------------------------------------------------
(* -rm: collect the calls of all pairs in a set, then erase each of them *)

\* Mutant of CollectPair: the unlock call is forgotten.
CollectPair_LockOnly ==
  /\ InLoop("rm") /\ NamesPairs(2)
  /\ mutateInsts' = mutateInsts \union {PairAt(i).lockCall}
  /\ Advance(2)
  /\ UNCHANGED <<cmd, program, ir, funcPairs, toErase, modified, pc>>

CollectPair ==
  /\ InLoop("rm") /\ NamesPairs(2)
  /\ mutateInsts' = mutateInsts \union Calls(PairAt(i))
  /\ Advance(2)
  /\ UNCHANGED <<cmd, program, ir, funcPairs, toErase, modified, pc>>

SkipCollect ==
  /\ InLoop("rm") /\ ~NamesPairs(2)
  /\ Skip(2, Overrun(2))

StartErasing ==
  /\ pc = "loop" /\ Mode("rm") /\ i >= Len(cmd.pos)
  /\ modified' = (mutateInsts # {})
  /\ toErase' = mutateInsts
  /\ pc' = "erase"
  /\ UNCHANGED <<cmd, program, ir, funcPairs, mutateInsts, i>>

\* Mutant of EraseNext: a call may come up twice, as in a vector.
EraseNext_Repeats ==
  /\ pc = "erase"
  /\ \E inst \in toErase :
       /\ ir' = EraseInst(ir, inst)
       /\ toErase' \in {toErase, toErase \ {inst}}
  /\ pc' = IF Faulted(ir') THEN "fault" ELSE pc
  /\ UNCHANGED <<cmd, program, funcPairs, mutateInsts, i, modified>>

\* A SmallPtrSet is iterated in the order of the pointers: any order.
EraseNext ==
  /\ pc = "erase"
  /\ \E inst \in toErase :
       /\ ir' = EraseInst(ir, inst)
       /\ toErase' = toErase \ {inst}
  /\ pc' = IF Faulted(ir') THEN "fault" ELSE pc
  /\ UNCHANGED <<cmd, program, funcPairs, mutateInsts, i, modified>>

-----------------------------------------------------------------------------
(* -swap: exchange the calls of two pairs *)

\* Mutant of Swapped: the first pair gets a copy of its own lock call.
Swapped_OwnLock(pair1, pair2) ==
  LET lock1   == NewInst(ir)
      unlock1 == lock1 + 1
      lock2   == lock1 + 2
      unlock2 == lock1 + 3
      copied  == CreateCopies(ir, <<pair1.lockCall, pair1.unlockCall,
                                    pair2.lockCall, pair2.unlockCall>>)
      one     == ReplaceInst(copied, pair1.lockCall, lock1)
      two     == ReplaceInst(one, pair1.unlockCall, unlock2)
      three   == ReplaceInst(two, pair2.lockCall, lock1)
  IN  ReplaceInst(three, pair2.unlockCall, unlock1)

\* The four copies are made while all four originals are still there, then the
\* originals are replaced one after the other.
Swapped(pair1, pair2) ==
  LET lock1   == NewInst(ir)
      unlock1 == lock1 + 1
      lock2   == lock1 + 2
      unlock2 == lock1 + 3
      copied  == CreateCopies(ir, <<pair1.lockCall, pair1.unlockCall,
                                    pair2.lockCall, pair2.unlockCall>>)
      one     == ReplaceInst(copied, pair1.lockCall, lock2)
      two     == ReplaceInst(one, pair1.unlockCall, unlock2)
      three   == ReplaceInst(two, pair2.lockCall, lock1)
  IN  ReplaceInst(three, pair2.unlockCall, unlock1)

SameLockCall == PairAt(i).lockCall = PairAt(i + 2).lockCall

SwapPairs ==
  /\ InLoop("swap") /\ NamesPairs(4)
  /\ ~SameLockCall
  /\ modified' = TRUE
  /\ Commit(Swapped(PairAt(i), PairAt(i + 2)), 4)
  /\ UNCHANGED <<cmd, program, funcPairs, mutateInsts, toErase>>

\* The calls are written to the debug output before the pair is skipped.
SkipSameLock ==
  /\ InLoop("swap") /\ NamesPairs(4)
  /\ SameLockCall
  /\ Commit(Dereference(ir, Calls(PairAt(i)) \union Calls(PairAt(i + 2))), 4)
  /\ UNCHANGED <<cmd, program, funcPairs, mutateInsts, toErase, modified>>

SkipSwap ==
  /\ InLoop("swap") /\ ~NamesPairs(4)
  /\ Skip(4, Overrun(4))

-----------------------------------------------------------------------------
(* -shift: move the lock and the unlock call of a pair *)

\* A missing direction counts as 0 and a direction of 1 is announced as a
\* no-op; neither calls shiftCallInst.
DirAt(dirs, n) == IF InList(dirs, n \div 2) THEN At(dirs, n \div 2) ELSE 1
LockShift   == DirAt(cmd.lockdir, i)
UnlockShift == DirAt(cmd.unlockdir, i)
Shifted(ir1, inst, dir) == IF dir = 1 THEN ir1 ELSE ShiftCallInst(ir1, inst, dir)

\* Only the shift of the unlock call sets modified.
ShiftPair ==
  /\ InLoop("shift") /\ NamesPairs(2)
  /\ Commit(Shifted(Shifted(ir, PairAt(i).lockCall, LockShift),
                    PairAt(i).unlockCall, UnlockShift), 2)
  /\ modified' = (modified \/ UnlockShift # 1)
  /\ UNCHANGED <<cmd, program, funcPairs, mutateInsts, toErase>>

SkipShift ==
  /\ InLoop("shift") /\ ~NamesPairs(2)
  /\ Skip(2, Overrun(2))

-----------------------------------------------------------------------------
(* -split: unlock and lock again between the two calls of a pair *)

HasSplitPos == InList(cmd.splitpos, i)
UnlockPos == ToInt(At(cmd.splitpos, i))
LockPos   == ToInt(At(cmd.splitpos, i + 1))

\* Mutant of SplitApart: the inserted unlock call is not accounted for.
SplitApart_NotCorrected(pair) ==
  LET unlockCall == NewInst(ir) + 1
      lockCall   == NewInst(ir)
      copied     == CreateCopies(ir, <<pair.lockCall, pair.unlockCall>>)
      unlocked   == InsertInstructionRelative(copied, pair.lockCall, unlockCall,
                                              ToUnsigned(UnlockPos))
      lockPos    == LockPos
  IN  InsertInstructionRelative(unlocked, pair.lockCall, lockCall, ToUnsigned(lockPos))

\* The lock position is corrected for the unlock call inserted in its path.
SplitApart(pair) ==
  LET unlockCall == NewInst(ir) + 1
      lockCall   == NewInst(ir)
      copied     == CreateCopies(ir, <<pair.lockCall, pair.unlockCall>>)
      unlocked   == InsertInstructionRelative(copied, pair.lockCall, unlockCall,
                                              ToUnsigned(UnlockPos))
      lockPos    == IF UnlockPos < LockPos THEN LockPos + 1 ELSE LockPos
  IN  InsertInstructionRelative(unlocked, pair.lockCall, lockCall, ToUnsigned(lockPos))

\* Mutant of SplitFits: the distance itself is allowed.
SplitFits_Inclusive(pair) ==
  LET dist == DistanceBetween(ir, pair.lockCall, pair.unlockCall)
  IN  UnlockPos <= dist /\ LockPos <= dist

SplitFits(pair) ==
  LET dist == DistanceBetween(ir, pair.lockCall, pair.unlockCall)
  IN  UnlockPos < dist /\ LockPos < dist

\* A value for the unlock position comes with one for the lock position.
SplitOverrun == NamesPairs(2) /\ HasSplitPos /\ ~InList(cmd.splitpos, i + 1)
CanSplit ==
  /\ NamesPairs(2) /\ HasSplitPos /\ InList(cmd.splitpos, i + 1)
  /\ SplitFits(PairAt(i))

SplitPair ==
  /\ InLoop("split") /\ CanSplit
  /\ modified' = TRUE
  /\ Commit(SplitApart(PairAt(i)), 2)
  /\ UNCHANGED <<cmd, program, funcPairs, mutateInsts, toErase>>

SkipSplit ==
  /\ InLoop("split") /\ ~CanSplit
  /\ Skip(2, Overrun(2) \/ SplitOverrun)

-----------------------------------------------------------------------------
(* The end of the pass *)

NoMode == \A m \in Modes : ~Mode(m)

FinishLoop ==
  /\ \/ pc = "loop" /\ ~Mode("rm") /\ (NoMode \/ i >= Len(cmd.pos))
     \/ pc = "erase" /\ toErase = {}
  /\ pc' = "ran"
  /\ UNCHANGED <<cmd, program, ir, funcPairs, mutateInsts, toErase, i, modified>>

\* opt calls print under -analyze; the verbose form dereferences every pair.
AllCalls == UNION {UNION {Calls(pair) : pair \in ToSet(funcPairs[f])} :
                     f \in 1..Len(funcPairs)}

VerbosePrint == {"analyze", "verbose"} \subseteq cmd.flags

PrintPairs ==
  /\ pc = "ran"
  /\ ir' = IF VerbosePrint THEN Dereference(ir, AllCalls) ELSE ir
  /\ pc' = IF Faulted(ir') THEN "fault" ELSE "done"
  /\ UNCHANGED <<cmd, program, funcPairs, mutateInsts, toErase, i, modified>>

Stopped == pc \in {"exit", "done", "fault"}
Terminated == Stopped /\ UNCHANGED vars

Next ==
  \/ Visit \/ CheckCommandLineArgs
  \/ CollectPair \/ SkipCollect \/ StartErasing \/ EraseNext
  \/ SwapPairs \/ SkipSameLock \/ SkipSwap
  \/ ShiftPair \/ SkipShift
  \/ SplitPair \/ SkipSplit
  \/ FinishLoop \/ PrintPairs \/ Terminated

Spec == Init /\ [][Next]_vars

-----------------------------------------------------------------------------
(* Properties *)

\* What checkCommandLineArgs lets through never makes a loop of runOnModule read
\* a list past its end ("SplitPos is guaranteed to be even so i+1 should exist",
\* PosixLock.cpp:354; the groups of four of -swap).
ArgsGuardLists == ir.fault # "oob"

\* -rm erases no call twice, although pairs share calls and -pos may repeat a
\* pair; the only fault left is the verbose print of the erased pairs.
RemoveSafe == Mode("rm") /\ ~VerbosePrint => ir.fault = "none"

Ran == pc \in {"ran", "done"}
Original(f) == Numbered(program)[f]
Groups(width) == {n \in 0..(Len(cmd.pos) - width) : n % width = 0}
NamedCalls == UNION {Calls(PairAt(n)) : n \in {g \in Groups(2) : HasPair(g)}}

\* -rm removes exactly the calls of the pairs named with -pos (README.md:75-80:
\* "If both pairs are specified then three calls get removed"), and reports a
\* modification iff there was one.
RemoveExact ==
  Mode("rm") /\ Ran =>
    /\ \A f \in 1..Len(program) :
         ir.body[f] = Kept(Original(f), ToSet(Original(f)) \ NamedCalls)
    /\ modified = (NamedCalls # {})

\* Whatever the mode, an instruction that belongs to no named pair stays where
\* it is relative to all other such instructions.
OthersUntouched ==
  pc # "visit" /\ ir.fault = "none" =>
    LET others == (1..Len(FlattenSeq(program))) \ NamedCalls
    IN  \A f \in 1..Len(program) : Kept(ir.body[f], others) = Kept(Original(f), others)

SwapGroups == {n \in Groups(4) : HasPair(n) /\ HasPair(n + 2)}
PairsUsed(n) == {PairAt(n), PairAt(n + 2)}
CallsUsed(n) == Calls(PairAt(n)) \union Calls(PairAt(n + 2))
Disjoint(pair1, pair2) == Calls(pair1) \cap Calls(pair2) = {}

\* No call is named twice on the command line.
DisjointSwaps ==
  /\ \A n \in SwapGroups :
       /\ Disjoint(PairAt(n), PairAt(n + 2))
       /\ \A pair \in PairsUsed(n) : pair.lockCall # pair.unlockCall
  /\ \A m, n \in SwapGroups : m # n => CallsUsed(m) \cap CallsUsed(n) = {}

\* -swap is safe as long as no call is named twice, through whatever pair.
DisjointSwapSafe ==
  Mode("swap") /\ pc # "visit" /\ DisjointSwaps /\ ~VerbosePrint
    => ir.fault = "none"

\* What the groups of -shift that were read so far ask for: the calls to move, with
\* the direction of each, and the function they are in.
ShiftsOf(n) ==
  {shift \in {[inst |-> PairAt(n).lockCall, dir |-> DirAt(cmd.lockdir, n)],
             [inst |-> PairAt(n).unlockCall, dir |-> DirAt(cmd.unlockdir, n)]} :
     shift.dir \notin {0, 1}}
ShiftGroups == {n \in Groups(2) : HasPair(n) /\ n < i}
MovedBy(n) == {shift.inst : shift \in ShiftsOf(n)}
Moved == UNION {MovedBy(n) : n \in ShiftGroups}
Around(inst) == UNION {ToSet(Original(f)) :
                         f \in {g \in 1..Len(program) : inst \in ToSet(Original(g))}}

\* Two groups move the same call.
MovedTwice == \E m, n \in ShiftGroups : m < n /\ MovedBy(m) \cap MovedBy(n) # {}

\* A call is to go up, and everything above it in its function was moved away.
UpFromTop ==
  \E n \in ShiftGroups : \E shift \in ShiftsOf(n) :
    shift.dir < 0 /\ \A x \in Around(shift.inst) : x < shift.inst => x \in Moved

\* A call is to go down over more instructions than its function has behind it.
DownPastEnd ==
  \E n \in ShiftGroups : \E shift \in ShiftsOf(n) :
    shift.dir > Cardinality({x \in Around(shift.inst) : x > shift.inst} \ Moved)

\* The listing follows the pointers of calls that were erased.
PrintsErased ==
  VerbosePrint /\ ~Mode("split") /\ i >= Len(cmd.pos) /\ AllCalls \cap ir.freed # {}

\* Every -splitpos value fits an int.
SmallPositions == \A n \in 1..Len(cmd.splitpos) : cmd.splitpos[n] <= IntMax

\* The only undefined operations of the pass.  The end iterator is dereferenced
\* when a call is shifted down past the end of its function (PosixLock.cpp:576-590)
\* or a split position that is negative as an int goes past it (lines 361-384).
\* An erased call is dereferenced by the listing after a mutation, by a swap of
\* pairs that name a call twice, by a second shift of a call and by a shift up from
\* the top of a function.  -rm is safe but for the listing, whatever -pos repeats.
FaultsExplained ==
  /\ ir.fault \in {"none", "end", "dangling"}
  /\ ir.fault = "end" =>
       \/ Mode("shift") /\ DownPastEnd
       \/ Mode("split") /\ ~SmallPositions
  /\ ir.fault = "dangling" =>
       \/ PrintsErased
       \/ Mode("swap") /\ ~DisjointSwaps
       \/ Mode("shift") /\ (MovedTwice \/ UpFromTop)

\* The calls that change places: each with the one of its role in the other pair.
Swapping == UNION {CallsUsed(g) : g \in SwapGroups}
Partners(inst, other) ==
  \E g \in SwapGroups, role \in {"lockCall", "unlockCall"} :
    {inst, other} = {PairAt(g)[role], PairAt(g + 2)[role]} /\ inst # other

\* Each place that held a call of one pair of a group now holds the operation of
\* its partner in the other pair, all other places hold what they held.
SwapExact ==
  Mode("swap") /\ Ran /\ DisjointSwaps =>
    \A f \in 1..Len(program) :
      /\ Len(ir.body[f]) = Len(Original(f))
      /\ \A n \in 1..Len(ir.body[f]) :
           IF Original(f)[n] \notin Swapping
           THEN ir.body[f][n] = Original(f)[n]
           ELSE \E other \in Swapping :
                  /\ Partners(Original(f)[n], other)
                  /\ ir.op[ir.body[f][n]] = FlattenSeq(program)[other]

\* The instruction at a distance from inst, counted before the step; upwards the
\* count stops at the beginning of the function.
Target(inst, distance) ==
  LET n == PosOf(ir, inst) + distance
  IN  ir.body[FuncOf(ir, inst)][IF n < 1 THEN 1 ELSE n]

\* A shifted call is inserted before the instruction its direction counts to
\* (README.md:135-136), as long as the other call of the pair is not moved too.
ShiftLandsBefore ==
  [][ShiftPair /\ ~Faulted(ir') =>
       LET moves(dir) == dir \notin {0, 1}
           lands(inst, dir) ==
             Before(ir'.body[FuncOf(ir, inst)], NewInst(ir), Len(ir.op)) = Target(inst, dir)
       IN  /\ moves(LockShift) /\ ~moves(UnlockShift) => lands(PairAt(i).lockCall, LockShift)
           /\ moves(UnlockShift) /\ ~moves(LockShift) =>
                lands(PairAt(i).unlockCall, UnlockShift)]_vars

\* -splitpos counts from the lock call of the pair: the new unlock call is
\* inserted before the instruction at the first distance, the new lock call
\* before the one at the second (README.md:160-171).  A second distance that does
\* not fit an int is counted as an unsigned one; only a function with more than
\* IntMax instructions is not at its end before that.
SplitLandsBefore(positions) ==
  SplitPair /\ ~Faulted(ir') /\ UnlockPos \in positions =>
    LET lockCall == PairAt(i).lockCall
        body     == ir'.body[FuncOf(ir, lockCall)]
    IN  LockPos >= 0 \/ Len(ir.body[FuncOf(ir, lockCall)]) <= IntMax =>
          /\ Before(body, NewInst(ir) + 1, Len(ir.op)) = Target(lockCall, UnlockPos)
          /\ Before(body, NewInst(ir), Len(ir.op)) = Target(lockCall, LockPos)

\* Positions below the lock call are counted as documented, in either order and
\* also when they are equal.
SplitPlaced == [][SplitLandsBefore(1..IntMax)]_vars

\* What comes before and what comes after an instruction.
PlaceIn(body, inst) == CHOOSE n \in 1..Len(body) : body[n] = inst
Ahead(body, inst)  == SubSeq(body, 1, PlaceIn(body, inst) - 1)
Behind(body, inst) == SubSeq(body, PlaceIn(body, inst) + 1, Len(body))

\* As long as the -splitpos values fit an int, -split is safe, and for the one pair
\* it splits nothing is put behind the unlock call (README.md:150-171, "split at an
\* arbitrary position").  Nothing is put above the lock call either when no value is
\* 0: the position 0 inserts before the lock call, outside the pair.
SplitStaysInside ==
  Mode("split") /\ pc # "visit" /\ SmallPositions =>
    /\ ir.fault = "none"
    /\ \A g \in Groups(2) : HasPair(g) /\ Cardinality(NamedCalls) = 2 =>
         LET lockCall   == PairAt(g).lockCall
             unlockCall == PairAt(g).unlockCall
             f          == FuncOf(ir, lockCall)
         IN  /\ Behind(ir.body[f], unlockCall) = Behind(Original(f), unlockCall)
             /\ (\A n \in 1..Len(cmd.splitpos) : cmd.splitpos[n] # 0) =>
                  Ahead(ir.body[f], lockCall) = Ahead(Original(f), lockCall)

-----------------------------------------------------------------------------
(* What the documentation says and the code does not do *)

\* README.md:104-105: "the swaps are performed consecutively, so if you swap the
\* same pair twice the result is essentially a no-op."
SwapTwiceIsNoOp ==
  Mode("swap") /\ Stopped /\ pc # "exit" /\ ~VerbosePrint
    /\ Len(cmd.pos) = 8 /\ SubSeq(cmd.pos, 1, 4) = SubSeq(cmd.pos, 5, 8)
    /\ HasPair(0) /\ HasPair(2) /\ Disjoint(PairAt(0), PairAt(2))
  => /\ ir.fault = "none"
     /\ \A f \in 1..Len(program) :
          [n \in 1..Len(ir.body[f]) |-> ir.op[ir.body[f][n]]] = program[f]
=============================================================================
