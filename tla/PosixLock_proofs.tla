-------------------------- MODULE PosixLock_proofs --------------------------
(***************************************************************************)
(* Theorems about PosixLock, for every module, every command line and any  *)
(* number of positions: which command lines never lead to undefined        *)
(* behaviour, and what is in each place of the module when a mode is done. *)
(***************************************************************************)
EXTENDS PosixLock, TLAPS, FiniteSetTheorems, SequenceTheorems

\* The model of an LLVM module, and that no list was read past its end.
IsIR(r) == r = [body |-> r.body, op |-> r.op, freed |-> r.freed, fault |-> r.fault]
InBounds(r) == IsIR(r) /\ r.fault # "oob"

-----------------------------------------------------------------------------
(* What the operations on the module do to its faults and erased calls *)

\* A guarded operation reads no list.
LEMMA GuardedFacts ==
  ASSUME NEW r, InBounds(r), NEW bad, NEW kind, kind # "oob", NEW good,
         r.fault = "none" => InBounds(good)
  PROVE  InBounds(Guarded(r, bad, kind, good))
<1> DEFINE broken == [r EXCEPT !.fault = kind]
<1>1. broken = [body |-> r.body, op |-> r.op, freed |-> r.freed, fault |-> kind]
  BY DEF InBounds, IsIR
<1>2. InBounds(broken)
  BY <1>1 DEF InBounds, IsIR
<1> HIDE DEF broken
<1> QED
  BY <1>2 DEF Guarded, broken

\* Nor does a use of instructions.
LEMMA DereferenceFacts ==
  ASSUME NEW r, InBounds(r), NEW S
  PROVE  /\ InBounds(Dereference(r, S))
         /\ S \cap r.freed = {} => Dereference(r, S) = r
<1>1. InBounds(Dereference(r, S))
  BY GuardedFacts DEF Dereference
<1> QED
  BY <1>1 DEF Dereference, Guarded

LEMMA CreateCopiesFacts ==
  ASSUME NEW r, InBounds(r), NEW insts
  PROVE  /\ InBounds(CreateCopies(r, insts))
         /\ r.fault = "none" /\ ToSet(insts) \cap r.freed = {} =>
              CreateCopies(r, insts).fault = "none" /\ CreateCopies(r, insts).freed = r.freed
<1> DEFINE ops  == r.op \o [n \in 1..Len(insts) |-> r.op[insts[n]]]
           good == [r EXCEPT !.op = ops]
<1>1. CreateCopies(r, insts) = Guarded(r, ToSet(insts) \cap r.freed # {}, "dangling", good)
  BY DEF CreateCopies
<1> HIDE DEF ops
<1>2. good = [body |-> r.body, op |-> ops, freed |-> r.freed, fault |-> r.fault]
  BY DEF InBounds, IsIR
<1>3. InBounds(good) /\ good.freed = r.freed /\ good.fault = r.fault
  BY <1>2 DEF InBounds, IsIR
<1> HIDE DEF good
<1>4. InBounds(CreateCopies(r, insts))
  BY <1>1, <1>3, GuardedFacts
<1> QED
  BY <1>1, <1>3, <1>4 DEF Guarded

LEMMA ReplaceInstFacts ==
  ASSUME NEW r, InBounds(r), NEW old, NEW new
  PROVE  /\ InBounds(ReplaceInst(r, old, new))
         /\ r.fault = "none" /\ old \notin r.freed =>
              /\ ReplaceInst(r, old, new).fault = "none"
              /\ ReplaceInst(r, old, new).freed = r.freed \union {old}
<1> DEFINE bodies == [r.body EXCEPT ![FuncOf(r, old)] = ReplaceAt(@, PosOf(r, old), new)]
           good   == [r EXCEPT !.body[FuncOf(r, old)] = ReplaceAt(@, PosOf(r, old), new),
                               !.freed = r.freed \union {old}]
<1>1. ReplaceInst(r, old, new) = Guarded(r, old \in r.freed, "dangling", good)
  BY DEF ReplaceInst
<1>2. good = [[r EXCEPT !.body = bodies] EXCEPT !.freed = r.freed \union {old}]
  OBVIOUS
<1> HIDE DEF bodies, good
<1>3. good = [body |-> bodies, op |-> r.op, freed |-> r.freed \union {old}, fault |-> r.fault]
  <2> DEFINE half == [r EXCEPT !.body = bodies]
  <2>1. half = [body |-> bodies, op |-> r.op, freed |-> r.freed, fault |-> r.fault]
    BY DEF InBounds, IsIR
  <2> HIDE DEF half
  <2> QED
    BY <1>2, <2>1 DEF half
<1>4. InBounds(good) /\ good.freed = r.freed \union {old} /\ good.fault = r.fault
  BY <1>3 DEF InBounds, IsIR
<1>5. InBounds(ReplaceInst(r, old, new))
  BY <1>1, <1>4, GuardedFacts
<1> QED
  BY <1>1, <1>4, <1>5 DEF Guarded

LEMMA EraseInstFacts ==
  ASSUME NEW r, InBounds(r), NEW inst
  PROVE  /\ InBounds(EraseInst(r, inst))
         /\ r.fault = "none" /\ inst \notin r.freed =>
              /\ EraseInst(r, inst).fault = "none"
              /\ EraseInst(r, inst).freed = r.freed \union {inst}
<1> DEFINE bodies == [r.body EXCEPT ![FuncOf(r, inst)] = RemoveAt(@, PosOf(r, inst))]
           good   == [r EXCEPT !.body[FuncOf(r, inst)] = RemoveAt(@, PosOf(r, inst)),
                               !.freed = r.freed \union {inst}]
<1>1. EraseInst(r, inst) = Guarded(r, inst \in r.freed, "dangling", good)
  BY DEF EraseInst
<1>2. good = [[r EXCEPT !.body = bodies] EXCEPT !.freed = r.freed \union {inst}]
  OBVIOUS
<1> HIDE DEF bodies, good
<1>3. good = [body |-> bodies, op |-> r.op, freed |-> r.freed \union {inst}, fault |-> r.fault]
  <2> DEFINE half == [r EXCEPT !.body = bodies]
  <2>1. half = [body |-> bodies, op |-> r.op, freed |-> r.freed, fault |-> r.fault]
    BY DEF InBounds, IsIR
  <2> HIDE DEF half
  <2> QED
    BY <1>2, <2>1 DEF half
<1>4. InBounds(good) /\ good.freed = r.freed \union {inst} /\ good.fault = r.fault
  BY <1>3 DEF InBounds, IsIR
<1>5. InBounds(EraseInst(r, inst))
  BY <1>1, <1>4, GuardedFacts
<1> QED
  BY <1>1, <1>4, <1>5 DEF Guarded

LEMMA InsertBeforeFacts ==
  ASSUME NEW r, InBounds(r), NEW f, NEW n, NEW new
  PROVE  InBounds(InsertBefore(r, f, n, new))
<1> DEFINE bodies == [r.body EXCEPT ![f] = InsertAt(@, n, new)]
           good   == [r EXCEPT !.body[f] = InsertAt(@, n, new)]
<1>1. InsertBefore(r, f, n, new) = Guarded(r, n > Len(r.body[f]), "end", good)
  BY DEF InsertBefore
<1>2. good = [body |-> bodies, op |-> r.op, freed |-> r.freed, fault |-> r.fault]
  BY DEF InBounds, IsIR
<1> HIDE DEF bodies
<1>3. InBounds(good)
  BY <1>2 DEF InBounds, IsIR
<1> HIDE DEF good
<1> QED
  BY <1>1, <1>3, GuardedFacts

LEMMA InsertInstructionRelativeFacts ==
  ASSUME NEW r, InBounds(r), NEW base, NEW new, NEW distance
  PROVE  InBounds(InsertInstructionRelative(r, base, new, distance))
  BY GuardedFacts, InsertBeforeFacts DEF InsertInstructionRelative

LEMMA ShiftCallInstFacts ==
  ASSUME NEW r, InBounds(r), NEW inst, NEW dir
  PROVE  InBounds(ShiftCallInst(r, inst, dir))
<1> DEFINE f      == FuncOf(r, inst)
           from   == PosOf(r, inst)
           to     == ShiftPlace(r, inst, dir)
           erased == EraseInst(CreateCopies(r, <<inst>>), inst)
           place  == IF to > from THEN to - 1 ELSE to
           put    == InsertBefore(erased, f, place, NewInst(r))
           kept   == Guarded(erased, to = from, "dangling", put)
           moved  == Guarded(r, to > Len(r.body[f]), "end", kept)
<1>1. InBounds(erased)
  BY CreateCopiesFacts, EraseInstFacts
<1>2. InBounds(put)
  BY <1>1, InsertBeforeFacts
<1>3. InBounds(kept)
  BY <1>1, <1>2, GuardedFacts
<1>4. InBounds(moved)
  BY <1>3, GuardedFacts
<1>5. InBounds(Guarded(r, inst \in r.freed, "dangling", moved))
  BY <1>4, GuardedFacts
<1>6. ShiftCallInst(r, inst, dir) =
        IF dir = 0 THEN r ELSE Guarded(r, inst \in r.freed, "dangling", moved)
  BY DEF ShiftCallInst
<1> QED
  BY <1>5, <1>6

-----------------------------------------------------------------------------
(* The inductive invariant *)

Looping == pc \notin {"visit", "args", "exit"}

\* The index is aligned to the groups a loop reads, so that the tests of
\* checkCommandLineArgs keep every read in bounds.
ArgsInv ==
  /\ cmd \in Commands
  /\ InBounds(ir)
  /\ i \in Nat
  /\ Looping => ArgsAccepted
  /\ pc \in {"visit", "args"} => i = 0 /\ ir.freed = {}
  /\ pc = "loop" => i % 2 = 0
  /\ pc = "loop" /\ Mode("swap") => i % 4 = 0
  /\ ir.fault # "none" => pc = "fault"

\* -rm: nothing is erased before the erasing loop, and that loop keeps what is
\* left to erase apart from what it has erased.
RemoveInv ==
  /\ pc = "erase" => Mode("rm")
  /\ Mode("rm") =>
       /\ pc = "loop" => ir.freed = {}
       /\ pc = "erase" => toErase \cap ir.freed = {}
       /\ ~VerbosePrint => pc # "fault"

\* -swap: only calls of groups already swapped have been erased.
SwappedCalls == UNION {CallsUsed(g) : g \in {n \in SwapGroups : n < i}}
SwapInv ==
  Mode("swap") /\ pc # "visit" /\ DisjointSwaps =>
    /\ pc = "loop" => ir.freed \subseteq SwappedCalls
    /\ ~VerbosePrint => pc # "fault"

IInv == ArgsInv /\ RemoveInv /\ SwapInv

LEMMA Even ==
  ASSUME NEW n \in Nat, NEW len \in Nat, n % 2 = 0, len % 2 = 0, n < len
  PROVE  n + 1 < len /\ (n + 2) % 2 = 0
  BY SMT

LEMMA ByFour ==
  ASSUME NEW n \in Nat, NEW len \in Nat, n % 4 = 0, len % 4 = 0, n < len
  PROVE  n + 3 < len /\ (n + 4) % 4 = 0 /\ (n + 4) % 2 = 0
  BY SMT

LEMMA AlignedTwo == ASSUME NEW n \in Nat, n % 2 = 0 PROVE (n + 2) % 2 = 0
  BY SMT
LEMMA AlignedFour ==
  ASSUME NEW n \in Nat, n % 4 = 0 PROVE (n + 4) % 4 = 0 /\ (n + 4) % 2 = 0
  BY SMT

\* The lists of a command line are lists.
LEMMA CommandTypes ==
  ASSUME ArgsInv
  PROVE  Len(cmd.pos) \in Nat /\ Len(cmd.splitpos) \in Nat
  BY CommandAssumption DEF ArgsInv

\* What an accepted command line promises to the loop of its mode.
LEMMA AcceptedLists ==
  ASSUME ArgsInv, pc = "loop"
  PROVE  /\ Mode("rm") \/ Mode("shift") \/ Mode("split") => Len(cmd.pos) % 2 = 0 /\ ~Mode("swap")
         /\ Mode("swap") => Len(cmd.pos) % 4 = 0
         /\ Mode("split") => Len(cmd.splitpos) % 2 = 0
         /\ Mode("rm") => ~Mode("shift") /\ ~Mode("split")
<1>1. ArgsAccepted
  BY DEF ArgsInv, Looping
<1>2. \A m1, m2 \in Modes : Mode(m1) /\ Mode(m2) => m1 = m2
  BY <1>1 DEF ArgsAccepted, ExactlyOneMode
<1>3. /\ Mode("rm") => ~Mode("shift") /\ ~Mode("split") /\ ~Mode("swap")
      /\ Mode("shift") => ~Mode("swap")
      /\ Mode("split") => ~Mode("swap")
  BY <1>2 DEF Modes
<1> QED
  BY <1>1, <1>3 DEF ArgsAccepted, RmArgs, SwapArgs, ShiftArgs, SplitArgs

\* No loop reads past the end of -pos or -splitpos.
LEMMA NoOverrun ==
  ASSUME ArgsInv, pc = "loop", i < Len(cmd.pos)
  PROVE  /\ Mode("rm") \/ Mode("shift") \/ Mode("split") => ~Overrun(2)
         /\ Mode("swap") => ~Overrun(4)
         /\ Mode("split") => ~SplitOverrun
<1>1. /\ i \in Nat /\ i % 2 = 0 /\ (Mode("swap") => i % 4 = 0)
      /\ Len(cmd.pos) \in Nat /\ Len(cmd.splitpos) \in Nat
  BY CommandTypes DEF ArgsInv
<1>2. ASSUME Len(cmd.pos) % 2 = 0 PROVE ~Overrun(2)
  <2>1. i + 1 < Len(cmd.pos)
    BY <1>1, <1>2, Even
  <2> QED
    BY <1>1, <2>1 DEF Overrun, InList
<1>3. ASSUME Mode("swap") PROVE ~Overrun(4)
  <2>1. i + 3 < Len(cmd.pos)
    BY <1>1, <1>3, ByFour, AcceptedLists
  <2> QED
    BY <1>1, <2>1 DEF Overrun, InList
<1>4. ASSUME Mode("split"), SplitOverrun PROVE FALSE
  <2>1. i < Len(cmd.splitpos) /\ ~(i + 1 < Len(cmd.splitpos))
    BY <1>4 DEF SplitOverrun, HasSplitPos, InList
  <2>2. Len(cmd.splitpos) % 2 = 0
    BY <1>4, AcceptedLists
  <2> QED
    BY <1>1, <2>1, <2>2, Even
<1> QED
  BY <1>2, <1>3, <1>4, AcceptedLists

\* The loaded module, before the argument check.
LEMMA InitInv == Init => IInv
<1> SUFFICES ASSUME Init PROVE IInv
  OBVIOUS
<1>1. InBounds(ir) /\ ir.freed = {} /\ ir.fault = "none"
  BY DEF Init, Loaded, InBounds, IsIR
<1>2. ArgsInv
  BY <1>1 DEF Init, ArgsInv, Looping
<1>3. RemoveInv /\ SwapInv
  BY DEF Init, RemoveInv, SwapInv
<1> QED
  BY <1>2, <1>3 DEF IInv

\* The operators over the command line and the pairs do not change their value
\* as long as these stay the same.
LEMMA SameCommand ==
  ASSUME UNCHANGED cmd
  PROVE  /\ ArgsAccepted' = ArgsAccepted /\ VerbosePrint' = VerbosePrint
         /\ \A m : Mode(m)' = Mode(m)
  BY DEF ArgsAccepted, ExactlyOneMode, Mode, RmArgs, SwapArgs, ShiftArgs, SplitArgs, VerbosePrint

LEMMA SamePairs ==
  ASSUME UNCHANGED <<cmd, funcPairs>>
  PROVE  /\ SwapGroups' = SwapGroups
         /\ \A n : CallsUsed(n)' = CallsUsed(n)
         /\ DisjointSwaps' = DisjointSwaps
<1>1. SwapGroups' = SwapGroups
  BY DEF SwapGroups, Groups, HasPair, At
<1>2. \A n : PairAt(n)' = PairAt(n)
  BY DEF PairAt, At
<1>3. \A n : CallsUsed(n)' = CallsUsed(n)
  BY <1>2 DEF CallsUsed, Calls, PairAt, At
<1>4. DisjointSwaps' = DisjointSwaps
  BY <1>1, <1>2, <1>3 DEF DisjointSwaps, Disjoint, PairsUsed, Calls, CallsUsed, PairAt, At,
     SwapGroups, Groups, HasPair
<1> QED
  BY <1>1, <1>3, <1>4

-----------------------------------------------------------------------------
(* The steps of the loops *)

\* The index stays aligned, and a fault ends the loop.
LEMMA LoopStep ==
  ASSUME ArgsInv, pc = "loop", UNCHANGED <<cmd, funcPairs>>, InBounds(ir'),
         pc' = IF Faulted(ir') THEN "fault" ELSE pc,
         i' \in {i + 2, i + 4}, Mode("swap") => i' = i + 4
  PROVE  ArgsInv'
<1>1. i \in Nat /\ i % 2 = 0 /\ (Mode("swap") => i % 4 = 0) /\ ArgsAccepted /\ cmd \in Commands
  BY DEF ArgsInv, Looping
<1>2. i' \in Nat /\ i' % 2 = 0 /\ (Mode("swap") => i' % 4 = 0)
  <2>1. (i + 2) % 2 = 0
    BY <1>1, AlignedTwo
  <2>2. (i + 4) % 2 = 0
    BY <1>1, <2>1, AlignedTwo
  <2>3. Mode("swap") => (i + 4) % 4 = 0
    BY <1>1, AlignedFour
  <2>4. CASE i' = i + 2
    <3>1. ~Mode("swap")
      BY <1>1, <2>4
    <3> QED
      BY <1>1, <2>1, <2>4, <3>1
  <2>5. CASE i' = i + 4
    BY <1>1, <2>2, <2>3, <2>5
  <2> QED
    BY <2>4, <2>5
<1>3. ArgsAccepted' /\ Mode("swap")' = Mode("swap")
  BY <1>1, SameCommand
<1> QED
  BY <1>1, <1>2, <1>3 DEF ArgsInv, Looping, Faulted

\* A skipped position changes nothing but the index.
LEMMA SkipStep ==
  ASSUME ArgsInv, pc = "loop", NEW width \in {2, 4}, Skip(width, FALSE), Mode("swap") => width = 4
  PROVE  ArgsInv' /\ pc' = pc /\ UNCHANGED <<cmd, funcPairs, ir>>
<1>1. ir.fault = "none" /\ InBounds(ir)
  BY DEF ArgsInv
<1>2. /\ UNCHANGED <<cmd, funcPairs, ir>> /\ i' = i + width
      /\ pc' = IF Faulted(ir') THEN "fault" ELSE pc
  BY DEF Skip, Commit, Advance
<1> QED
  BY <1>1, <1>2, LoopStep DEF Faulted

LEMMA CollectInv == IInv /\ (CollectPair \/ SkipCollect) => IInv'
<1> SUFFICES ASSUME IInv, CollectPair \/ SkipCollect PROVE IInv'
  OBVIOUS
<1>1. pc = "loop" /\ Mode("rm") /\ i < Len(cmd.pos)
  BY DEF CollectPair, SkipCollect, InLoop
<1>2. ~Mode("swap") /\ ir.fault = "none" /\ InBounds(ir)
  BY <1>1, AcceptedLists DEF IInv, ArgsInv
<1>3. ArgsInv' /\ pc' = pc /\ UNCHANGED <<cmd, funcPairs, ir>>
  <2>1. CASE CollectPair
    <3>1. pc' = pc /\ UNCHANGED <<cmd, ir, funcPairs>> /\ i' = i + 2
      BY <2>1 DEF CollectPair, Advance
    <3> QED
      BY <1>1, <1>2, <3>1, LoopStep DEF IInv, Faulted
  <2>2. CASE SkipCollect
    <3>1. Skip(2, FALSE)
      <4>1. ~Overrun(2)
        BY <1>1, NoOverrun DEF IInv
      <4> QED
        BY <2>2, <4>1 DEF SkipCollect, Skip, Commit
    <3> QED
      BY <1>1, <1>2, <3>1, SkipStep DEF IInv
  <2> QED
    BY <2>1, <2>2
<1>4. RemoveInv'
  BY <1>1, <1>3, SameCommand DEF IInv, RemoveInv
<1>5. SwapInv'
  BY <1>1, <1>2, <1>3, SameCommand DEF SwapInv
<1> QED
  BY <1>3, <1>4, <1>5 DEF IInv

LEMMA StartErasingInv == IInv /\ StartErasing => IInv'
<1> SUFFICES ASSUME IInv, StartErasing PROVE IInv'
  OBVIOUS
<1>1. /\ pc = "loop" /\ pc' = "erase" /\ Mode("rm")
      /\ UNCHANGED <<cmd, ir, funcPairs, i>> /\ toErase' = mutateInsts
  BY DEF StartErasing
<1>2. ~Mode("swap")
  BY <1>1, AcceptedLists DEF IInv
<1>3. ArgsInv'
  BY <1>1, SameCommand DEF IInv, ArgsInv, Looping
<1>4. RemoveInv'
  BY <1>1, SameCommand DEF IInv, RemoveInv
<1>5. SwapInv'
  BY <1>1, <1>2, SameCommand DEF SwapInv
<1> QED
  BY <1>3, <1>4, <1>5 DEF IInv

\* The set holds no instruction twice: what comes up has not been erased.
LEMMA EraseNextInv == IInv /\ EraseNext => IInv'
<1> SUFFICES ASSUME IInv, EraseNext PROVE IInv'
  OBVIOUS
<1>1. PICK inst \in toErase : ir' = EraseInst(ir, inst) /\ toErase' = toErase \ {inst}
  BY DEF EraseNext
<1>2. /\ pc = "erase" /\ UNCHANGED <<cmd, funcPairs, i>>
      /\ pc' = IF Faulted(ir') THEN "fault" ELSE pc
  BY DEF EraseNext
<1>3. Mode("rm") /\ toErase \cap ir.freed = {} /\ ir.fault = "none" /\ InBounds(ir)
  BY <1>2 DEF IInv, ArgsInv, RemoveInv
<1>4. /\ InBounds(ir') /\ ir'.fault = "none" /\ ir'.freed = ir.freed \union {inst}
  BY <1>1, <1>3, EraseInstFacts
<1>5. ~Mode("swap") /\ ArgsAccepted
  <2>1. ArgsAccepted
    BY <1>2 DEF IInv, ArgsInv, Looping
  <2>2. ExactlyOneMode /\ "rm" \in Modes /\ "swap" \in Modes
    BY <2>1 DEF ArgsAccepted, Modes
  <2> QED
    BY <1>3, <2>1, <2>2 DEF ExactlyOneMode
<1>6. ArgsInv'
  BY <1>2, <1>4, <1>5, SameCommand DEF IInv, ArgsInv, Faulted, Looping
<1>7. RemoveInv'
  BY <1>1, <1>2, <1>3, <1>4, SameCommand DEF RemoveInv, Faulted
<1>8. SwapInv'
  BY <1>2, <1>5, SameCommand DEF SwapInv
<1> QED
  BY <1>6, <1>7, <1>8 DEF IInv

\* Four replacements, of four calls that have not been erased.
LEMMA SwappedFacts ==
  ASSUME InBounds(ir), NEW p1, NEW p2
  PROVE  /\ InBounds(Swapped(p1, p2))
         /\ /\ ir.fault = "none"
            /\ (Calls(p1) \union Calls(p2)) \cap ir.freed = {}
            /\ Disjoint(p1, p2)
            /\ p1.lockCall # p1.unlockCall /\ p2.lockCall # p2.unlockCall
            => /\ Swapped(p1, p2).fault = "none"
               /\ Swapped(p1, p2).freed = ir.freed \union Calls(p1) \union Calls(p2)
<1> DEFINE lock1   == NewInst(ir)
           insts   == <<p1.lockCall, p1.unlockCall, p2.lockCall, p2.unlockCall>>
           copied  == CreateCopies(ir, insts)
           one     == ReplaceInst(copied, p1.lockCall, lock1 + 2)
           two     == ReplaceInst(one, p1.unlockCall, lock1 + 3)
           three   == ReplaceInst(two, p2.lockCall, lock1)
           four    == ReplaceInst(three, p2.unlockCall, lock1 + 1)
<1>1. Swapped(p1, p2) = four
  BY DEF Swapped
<1>2. ToSet(insts) \subseteq Calls(p1) \union Calls(p2)
  BY DEF ToSet, Calls
<1> HIDE DEF lock1, insts
<1>3. InBounds(copied)
  BY CreateCopiesFacts
<1>4. ir.fault = "none" /\ (Calls(p1) \union Calls(p2)) \cap ir.freed = {} =>
        copied.fault = "none" /\ copied.freed = ir.freed
  BY <1>2, CreateCopiesFacts
<1> HIDE DEF copied
<1>5. /\ InBounds(one)
      /\ copied.fault = "none" /\ p1.lockCall \notin copied.freed =>
           one.fault = "none" /\ one.freed = copied.freed \union {p1.lockCall}
  BY <1>3, ReplaceInstFacts
<1> HIDE DEF one
<1>6. /\ InBounds(two)
      /\ one.fault = "none" /\ p1.unlockCall \notin one.freed =>
           two.fault = "none" /\ two.freed = one.freed \union {p1.unlockCall}
  BY <1>5, ReplaceInstFacts
<1> HIDE DEF two
<1>7. /\ InBounds(three)
      /\ two.fault = "none" /\ p2.lockCall \notin two.freed =>
           three.fault = "none" /\ three.freed = two.freed \union {p2.lockCall}
  BY <1>6, ReplaceInstFacts
<1> HIDE DEF three
<1>8. /\ InBounds(four)
      /\ three.fault = "none" /\ p2.unlockCall \notin three.freed =>
           four.fault = "none" /\ four.freed = three.freed \union {p2.unlockCall}
  BY <1>7, ReplaceInstFacts
<1> HIDE DEF four
<1>9. ASSUME ir.fault = "none", (Calls(p1) \union Calls(p2)) \cap ir.freed = {},
             Disjoint(p1, p2), p1.lockCall # p1.unlockCall, p2.lockCall # p2.unlockCall
      PROVE  four.fault = "none" /\ four.freed = ir.freed \union Calls(p1) \union Calls(p2)
  <2>1. copied.fault = "none" /\ copied.freed = ir.freed
    BY <1>4, <1>9
  <2>2. one.fault = "none" /\ one.freed = ir.freed \union {p1.lockCall}
    BY <1>5, <1>9, <2>1 DEF Calls
  <2>3. two.fault = "none" /\ two.freed = ir.freed \union Calls(p1)
    BY <1>6, <1>9, <2>2 DEF Calls
  <2>4. three.fault = "none" /\ three.freed = ir.freed \union Calls(p1) \union {p2.lockCall}
    BY <1>7, <1>9, <2>3 DEF Calls, Disjoint
  <2> QED
    BY <1>8, <1>9, <2>4 DEF Calls, Disjoint
<1> QED
  BY <1>1, <1>8, <1>9

LEMMA FourPositions ==
  ASSUME i \in Nat, Len(cmd.pos) \in Nat, NamesPairs(4)
  PROVE  HasPair(i) /\ HasPair(i + 2) /\ i + 3 < Len(cmd.pos)
<1>1. \A n \in 0..3 : n % 2 = 0 => HasPair(i + n)
  BY DEF NamesPairs
<1>2. HasPair(i + 0) /\ HasPair(i + 2)
  BY <1>1
<1>3. i + 0 = i
  OBVIOUS
<1>4. i + 3 < Len(cmd.pos)
  <2>1. i + 4 - 1 < Len(cmd.pos)
    BY DEF NamesPairs, Overrun, InList
  <2> QED
    BY <2>1
<1> QED
  BY <1>2, <1>3, <1>4

\* A group of four that is there and names pairs is one of the swap groups.
LEMMA AlignedGroup ==
  ASSUME ArgsInv, i % 4 = 0, i + 3 < Len(cmd.pos), HasPair(i), HasPair(i + 2)
  PROVE  i \in SwapGroups
<1>1. i \in Nat /\ Len(cmd.pos) \in Nat
  BY CommandTypes DEF ArgsInv
<1>2. i \in 0..(Len(cmd.pos) - 4)
  BY <1>1
<1> QED
  BY <1>2 DEF SwapGroups, Groups

LEMMA SwapPairsInv == IInv /\ SwapPairs => IInv'
<1> SUFFICES ASSUME IInv, SwapPairs PROVE IInv'
  OBVIOUS
<1> DEFINE p1 == PairAt(i)
           p2 == PairAt(i + 2)
<1>1. /\ pc = "loop" /\ Mode("swap") /\ i < Len(cmd.pos) /\ HasPair(i) /\ HasPair(i + 2)
      /\ i + 3 < Len(cmd.pos)
      /\ UNCHANGED <<cmd, funcPairs>> /\ i' = i + 4 /\ ir' = Swapped(p1, p2)
      /\ pc' = IF Faulted(ir') THEN "fault" ELSE pc
  BY FourPositions, CommandTypes DEF SwapPairs, InLoop, Commit, Advance, IInv, ArgsInv
<1>2. /\ InBounds(ir) /\ ir.fault = "none" /\ i \in Nat /\ i % 4 = 0 /\ ~Mode("rm")
  BY <1>1, AcceptedLists DEF IInv, ArgsInv
<1>3. ArgsInv'
  BY <1>1, <1>2, SwappedFacts, LoopStep DEF IInv
<1>4. RemoveInv'
  BY <1>1, <1>2, SameCommand DEF RemoveInv
<1>5. SwapInv'
  <2>1. CASE DisjointSwaps
    <3>1. i \in SwapGroups
      BY <1>1, <1>2, AlignedGroup DEF IInv
    <3>2. ir.freed \subseteq SwappedCalls
      BY <1>1, <2>1 DEF IInv, SwapInv
    <3>3. SwappedCalls \cap CallsUsed(i) = {}
      <4>1. ASSUME NEW g \in SwapGroups, g < i PROVE CallsUsed(g) \cap CallsUsed(i) = {}
        <5>1. g # i
          BY <1>2, <4>1
        <5> QED
          BY <2>1, <3>1, <5>1 DEF DisjointSwaps
      <4> QED
        BY <4>1 DEF SwappedCalls
    <3>4. /\ (Calls(p1) \union Calls(p2)) \cap ir.freed = {} /\ Disjoint(p1, p2)
          /\ p1.lockCall # p1.unlockCall /\ p2.lockCall # p2.unlockCall
      BY <2>1, <3>1, <3>2, <3>3 DEF DisjointSwaps, CallsUsed, PairsUsed
    <3>5. ir'.fault = "none" /\ ir'.freed = ir.freed \union CallsUsed(i)
      BY <1>1, <1>2, <3>4, SwappedFacts DEF CallsUsed
    <3>6. SwappedCalls \subseteq SwappedCalls' /\ CallsUsed(i) \subseteq SwappedCalls'
      <4>1. i < i' /\ i' \in Nat
        BY <1>1, <1>2
      <4>2. \A n \in SwapGroups : n < i => n < i'
        BY <1>1, <1>2 DEF SwapGroups, Groups
      <4> QED
        BY <1>1, <3>1, <4>1, <4>2, SamePairs DEF SwappedCalls
    <3> QED
      BY <1>1, <3>2, <3>5, <3>6 DEF SwapInv, Faulted
  <2>2. CASE ~DisjointSwaps
    BY <1>1, <2>2, SamePairs DEF SwapInv
  <2> QED
    BY <2>1, <2>2
<1> QED
  BY <1>3, <1>4, <1>5 DEF IInv

\* Under the assumption there is no group whose two pairs share a lock call.
LEMMA SkipSwapInv == IInv /\ (SkipSameLock \/ SkipSwap) => IInv'
<1> SUFFICES ASSUME IInv, SkipSameLock \/ SkipSwap PROVE IInv'
  OBVIOUS
<1>1. pc = "loop" /\ Mode("swap") /\ i < Len(cmd.pos)
  BY DEF SkipSameLock, SkipSwap, InLoop
<1>2. /\ InBounds(ir) /\ ir.fault = "none" /\ i \in Nat /\ i % 4 = 0 /\ ~Mode("rm")
  BY <1>1, AcceptedLists DEF IInv, ArgsInv
<1>3. CASE SkipSwap
  <2>1. Skip(4, FALSE)
    <3>1. ~Overrun(4)
      BY <1>1, NoOverrun DEF IInv
    <3> QED
      BY <1>3, <3>1 DEF SkipSwap, Skip, Commit
  <2>2. /\ ArgsInv' /\ pc' = pc /\ UNCHANGED <<cmd, funcPairs, ir>> /\ i' = i + 4
    BY <1>1, <2>1, SkipStep DEF IInv, Skip, Commit, Advance
  <2>3. RemoveInv'
    BY <1>1, <1>2, <2>2, SameCommand DEF RemoveInv
  <2>4. SwappedCalls \subseteq SwappedCalls'
    <3>1. \A n \in SwapGroups : n < i => n < i'
      BY <1>2, <2>2 DEF SwapGroups, Groups
    <3> QED
      BY <2>2, <3>1, SamePairs DEF SwappedCalls
  <2>5. SwapInv'
    BY <1>1, <2>2, <2>4, SameCommand, SamePairs DEF IInv, SwapInv
  <2> QED
    BY <2>2, <2>3, <2>5 DEF IInv
<1>4. CASE SkipSameLock
  <2> DEFINE read == Calls(PairAt(i)) \union Calls(PairAt(i + 2))
  <2>1. /\ UNCHANGED <<cmd, funcPairs>> /\ i' = i + 4 /\ ir' = Dereference(ir, read)
        /\ pc' = IF Faulted(ir') THEN "fault" ELSE pc
        /\ HasPair(i) /\ HasPair(i + 2) /\ i + 3 < Len(cmd.pos) /\ SameLockCall
    BY <1>2, <1>4, FourPositions, CommandTypes DEF IInv, SkipSameLock, InLoop, Commit, Advance
  <2> HIDE DEF read
  <2>2. ArgsInv'
    BY <1>1, <1>2, <2>1, DereferenceFacts, LoopStep DEF IInv
  <2>3. RemoveInv'
    BY <1>1, <1>2, <2>1, SameCommand DEF RemoveInv
  <2>4. ~DisjointSwaps
    <3>1. i \in SwapGroups
      BY <1>2, <2>1, AlignedGroup DEF IInv
    <3> QED
      BY <2>1, <3>1 DEF DisjointSwaps, Disjoint, Calls, SameLockCall
  <2>5. SwapInv'
    BY <2>1, <2>4, SamePairs DEF SwapInv
  <2> QED
    BY <2>2, <2>3, <2>5 DEF IInv
<1> QED
  BY <1>3, <1>4

\* -shift and -split: whatever they do to the module, no list is overrun.
LEMMA ShiftSplitInv ==
  IInv /\ (ShiftPair \/ SkipShift \/ SplitPair \/ SkipSplit) => IInv'
<1> SUFFICES ASSUME IInv, ShiftPair \/ SkipShift \/ SplitPair \/ SkipSplit PROVE IInv'
  OBVIOUS
<1>1. pc = "loop" /\ (Mode("shift") \/ Mode("split")) /\ i < Len(cmd.pos)
  BY DEF ShiftPair, SkipShift, SplitPair, SkipSplit, InLoop
<1>2. /\ InBounds(ir) /\ ir.fault = "none" /\ ~Mode("rm") /\ ~Mode("swap")
  BY <1>1, AcceptedLists DEF IInv, ArgsInv
<1>3. ArgsInv' /\ UNCHANGED <<cmd, funcPairs>>
  <2>1. CASE ShiftPair
    <3> DEFINE once  == Shifted(ir, PairAt(i).lockCall, LockShift)
               twice == Shifted(once, PairAt(i).unlockCall, UnlockShift)
    <3>1. /\ UNCHANGED <<cmd, funcPairs>> /\ i' = i + 2 /\ ir' = twice
          /\ pc' = IF Faulted(ir') THEN "fault" ELSE pc
      BY <2>1 DEF ShiftPair, Commit, Advance
    <3>2. InBounds(once)
      BY <1>2, ShiftCallInstFacts DEF Shifted
    <3> HIDE DEF once
    <3>3. InBounds(twice)
      BY <3>2, ShiftCallInstFacts DEF Shifted
    <3> HIDE DEF twice
    <3> QED
      BY <1>1, <1>2, <3>1, <3>3, LoopStep DEF IInv
  <2>2. CASE SplitPair
    <3> DEFINE pair     == PairAt(i)
               copied   == CreateCopies(ir, <<pair.lockCall, pair.unlockCall>>)
               unlocked == InsertInstructionRelative(copied, pair.lockCall, NewInst(ir) + 1,
                                                     ToUnsigned(UnlockPos))
               lockPos  == IF UnlockPos < LockPos THEN LockPos + 1 ELSE LockPos
               locked   == InsertInstructionRelative(unlocked, pair.lockCall, NewInst(ir),
                                                     ToUnsigned(lockPos))
    <3>1. /\ UNCHANGED <<cmd, funcPairs>> /\ i' = i + 2 /\ ir' = SplitApart(pair)
          /\ pc' = IF Faulted(ir') THEN "fault" ELSE pc
      BY <2>2 DEF SplitPair, Commit, Advance
    <3>2. SplitApart(pair) = locked
      BY DEF SplitApart
    <3>3. InBounds(copied)
      BY <1>2, CreateCopiesFacts
    <3> HIDE DEF copied
    <3>4. InBounds(unlocked)
      BY <3>3, InsertInstructionRelativeFacts
    <3> HIDE DEF unlocked, lockPos
    <3>5. InBounds(locked)
      BY <3>4, InsertInstructionRelativeFacts
    <3> HIDE DEF locked
    <3> QED
      BY <1>1, <1>2, <3>1, <3>2, <3>5, LoopStep DEF IInv
  <2>3. CASE SkipShift
    <3>1. Skip(2, FALSE)
      <4>1. ~Overrun(2)
        BY <1>1, <2>3, NoOverrun DEF IInv
      <4> QED
        BY <2>3, <4>1 DEF SkipShift, Skip, Commit
    <3> QED
      BY <1>1, <1>2, <3>1, SkipStep DEF IInv
  <2>4. CASE SkipSplit
    <3>1. ~Overrun(2) /\ ~SplitOverrun
      BY <1>1, <2>4, NoOverrun DEF SkipSplit, IInv, InLoop
    <3>2. Skip(2, FALSE)
      BY <2>4, <3>1 DEF SkipSplit, Skip, Commit
    <3> QED
      BY <1>1, <1>2, <3>2, SkipStep DEF IInv
  <2> QED
    BY <2>1, <2>2, <2>3, <2>4
<1>4. RemoveInv'
  <2>1. pc' # "erase"
    BY <1>1 DEF ShiftPair, SkipShift, SplitPair, SkipSplit, Skip, Commit
  <2> QED
    BY <1>2, <1>3, <2>1, SameCommand DEF RemoveInv
<1>5. SwapInv'
  BY <1>2, <1>3, SameCommand DEF SwapInv
<1> QED
  BY <1>3, <1>4, <1>5 DEF IInv

-----------------------------------------------------------------------------
(* The steps around the loops *)

LEMMA VisitInv == IInv /\ Visit => IInv'
<1> SUFFICES ASSUME IInv, Visit PROVE IInv'
  OBVIOUS
<1>1. pc = "visit" /\ pc' = "args" /\ UNCHANGED <<cmd, ir, i>>
  BY DEF Visit
<1>2. ArgsInv'
  BY <1>1 DEF IInv, ArgsInv, Looping
<1>3. RemoveInv' /\ SwapInv'
  BY <1>1 DEF RemoveInv, SwapInv
<1> QED
  BY <1>2, <1>3 DEF IInv

LEMMA CheckCommandLineArgsInv == IInv /\ CheckCommandLineArgs => IInv'
<1> SUFFICES ASSUME IInv, CheckCommandLineArgs PROVE IInv'
  OBVIOUS
<1>1. /\ pc = "args" /\ UNCHANGED <<cmd, ir, i, funcPairs>>
      /\ pc' = IF ArgsAccepted THEN "loop" ELSE "exit"
  BY DEF CheckCommandLineArgs
<1>2. i = 0 /\ ir.freed = {} /\ ir.fault = "none"
  BY <1>1 DEF IInv, ArgsInv
<1>3. ArgsInv'
  BY <1>1, <1>2, SameCommand DEF IInv, ArgsInv, Looping
<1>4. RemoveInv' /\ SwapInv'
  BY <1>1, <1>2 DEF RemoveInv, SwapInv
<1> QED
  BY <1>3, <1>4 DEF IInv

LEMMA FinishLoopInv == IInv /\ FinishLoop => IInv'
<1> SUFFICES ASSUME IInv, FinishLoop PROVE IInv'
  OBVIOUS
<1>1. pc \in {"loop", "erase"} /\ pc' = "ran" /\ UNCHANGED <<cmd, ir, i, funcPairs>>
  BY DEF FinishLoop
<1>2. ArgsInv'
  BY <1>1, SameCommand DEF IInv, ArgsInv, Looping
<1>3. RemoveInv' /\ SwapInv'
  BY <1>1 DEF RemoveInv, SwapInv
<1> QED
  BY <1>2, <1>3 DEF IInv

\* Only the verbose print reads the pairs again.
LEMMA PrintPairsInv == IInv /\ PrintPairs => IInv'
<1> SUFFICES ASSUME IInv, PrintPairs PROVE IInv'
  OBVIOUS
<1>1. /\ pc = "ran" /\ UNCHANGED <<cmd, i, funcPairs>>
      /\ ir' = IF VerbosePrint THEN Dereference(ir, AllCalls) ELSE ir
      /\ pc' = IF Faulted(ir') THEN "fault" ELSE "done"
  BY DEF PrintPairs
<1>2. InBounds(ir) /\ ir.fault = "none"
  BY <1>1 DEF IInv, ArgsInv
<1>3. InBounds(ir')
  BY <1>1, <1>2, DereferenceFacts
<1>4. ArgsInv'
  BY <1>1, <1>2, <1>3, SameCommand DEF IInv, ArgsInv, Looping, Faulted
<1>5. ~VerbosePrint => pc' = "done"
  BY <1>1, <1>2 DEF Faulted
<1>6. RemoveInv' /\ SwapInv'
  BY <1>1, <1>5, SameCommand DEF RemoveInv, SwapInv
<1> QED
  BY <1>4, <1>6 DEF IInv

\* A step that changes nothing.
LEMMA StutterInv == IInv /\ UNCHANGED vars => IInv'
<1> SUFFICES ASSUME IInv, UNCHANGED vars PROVE IInv'
  OBVIOUS
<1>1. UNCHANGED <<cmd, ir, funcPairs, toErase, i, pc>>
  BY DEF vars
<1>2. ArgsInv'
  BY <1>1, SameCommand DEF IInv, ArgsInv, Looping
<1>3. RemoveInv'
  BY <1>1, SameCommand DEF IInv, RemoveInv
<1>4. SwappedCalls' = SwappedCalls
  BY <1>1, SamePairs DEF SwappedCalls
<1>5. SwapInv'
  BY <1>1, <1>4, SameCommand, SamePairs DEF IInv, SwapInv
<1> QED
  BY <1>2, <1>3, <1>5 DEF IInv

\* Every step keeps the invariant.
LEMMA StepInv == IInv /\ [Next]_vars => IInv'
  BY VisitInv, CheckCommandLineArgsInv, CollectInv, StartErasingInv, EraseNextInv,
     SwapPairsInv, SkipSwapInv, ShiftSplitInv, FinishLoopInv, PrintPairsInv, StutterInv
  DEF Next, Terminated

-----------------------------------------------------------------------------
(* The theorems *)

\* The inductive invariant holds of every run of the pass.
THEOREM Invariance == Spec => []IInv
  BY InitInv, StepInv, PTL DEF Spec

\* The tests of checkCommandLineArgs (PosixLock.cpp:437-555) are enough for all
\* four loops of runOnModule: whatever the lists hold and however long they are,
\* none is read past its end.
THEOREM ArgsGuard == Spec => []ArgsGuardLists
<1>1. IInv => ArgsGuardLists
  BY DEF IInv, ArgsInv, InBounds, ArgsGuardLists
<1> QED
  BY <1>1, Invariance, PTL

\* -rm never erases a call twice, whichever pairs -pos names and however often
\* (PosixLock.cpp:139-179).
THEOREM RemoveIsSafe == Spec => []RemoveSafe
<1>1. IInv => RemoveSafe
  BY DEF IInv, ArgsInv, RemoveInv, RemoveSafe
<1> QED
  BY <1>1, Invariance, PTL

\* Consecutive swaps of disjoint pairs touch no erased call (PosixLock.cpp:180-283).
THEOREM DisjointSwapIsSafe == Spec => []DisjointSwapSafe
<1>1. IInv => DisjointSwapSafe
  BY DEF IInv, ArgsInv, SwapInv, DisjointSwapSafe
<1> QED
  BY <1>1, Invariance, PTL

\* Every set of naturals has a least element.
LEMMA LeastNat ==
  ASSUME NEW T \in SUBSET Nat, T # {}
  PROVE  \E n \in T : \A m \in T : n <= m
<1> DEFINE Segments == {0..n : n \in T}
<1>1. Segments \subseteq FiniteSubsetsOf(Nat) /\ Segments # {}
  <2>1. \A n \in T : IsFiniteSet(0..n) /\ 0..n \subseteq Nat
    BY FS_Interval
  <2> QED
    BY <2>1 DEF FiniteSubsetsOf
<1>2. PICK X \in Segments : \A Y \in Segments : ~(<<Y, X>> \in StrictSubsetOrdering(Nat))
  BY <1>1, FS_StrictSubsetOrderingWellFounded, WFMin
<1>3. PICK n \in T : X = 0..n
  BY <1>2
<1>4. ASSUME NEW m \in T, m < n PROVE FALSE
  <2>1. 0..m \subseteq 0..n /\ n \in 0..n /\ n \notin 0..m
    BY <1>4
  <2>2. <<0..m, 0..n>> \in StrictSubsetOrdering(Nat)
    BY <2>1 DEF StrictSubsetOrdering
  <2> QED
    BY <1>2, <1>3, <2>2
<1> QED
  BY <1>4

\* A set with 0 and the successors of its elements holds all naturals up to size.
LEMMA UpTo ==
  ASSUME NEW size \in Nat, NEW T, 0 \in T, \A n \in 0..(size - 1) : n \in T => n + 1 \in T
  PROVE  0..size \subseteq T
<1> DEFINE Missing == {n \in 0..size : n \notin T}
<1> SUFFICES ASSUME Missing # {} PROVE FALSE
  OBVIOUS
<1>1. PICK n \in Missing : \A m \in Missing : n <= m
  <2>1. Missing \in SUBSET Nat
    OBVIOUS
  <2> HIDE DEF Missing
  <2> QED
    BY <2>1, LeastNat
<1>2. n # 0 /\ n - 1 \in 0..(size - 1) /\ n - 1 \notin Missing
  BY <1>1
<1>3. n - 1 \in T /\ (n - 1) + 1 = n
  BY <1>1, <1>2
<1> QED
  BY <1>1, <1>2, <1>3

\* A function can be defined by what it is at 0 and how each value follows from the
\* one before.
Solvable(X, base, size, step) ==
  \E f \in [0..size -> X] : f[0] = base /\ \A n \in 1..size : f[n] = step[<<n, f[n - 1]>>]

LEMMA Recursion ==
  ASSUME NEW X, NEW base \in X, NEW size \in Nat, NEW step \in [(1..size) \X X -> X]
  PROVE  Solvable(X, base, size, step)
<1> DEFINE Defined(n) == \E f \in [0..n -> X] :
             f[0] = base /\ \A m \in 1..n : f[m] = step[<<m, f[m - 1]>>]
           T == {n \in 0..size : Defined(n)}
<1>1. 0 \in T
  <2> DEFINE f == [m \in 0..0 |-> base]
  <2>1. f \in [0..0 -> X] /\ f[0] = base /\ \A m \in 1..0 : f[m] = step[<<m, f[m - 1]>>]
    OBVIOUS
  <2>2. Defined(0)
    BY <2>1
  <2> HIDE DEF Defined
  <2> QED
    BY <2>2
<1>2. ASSUME NEW n \in 0..(size - 1), n \in T PROVE n + 1 \in T
  <2>1. PICK f \in [0..n -> X] : f[0] = base /\ \A m \in 1..n : f[m] = step[<<m, f[m - 1]>>]
    BY <1>2
  <2> DEFINE g == [m \in 0..(n + 1) |-> IF m = n + 1 THEN step[<<n + 1, f[n]>>] ELSE f[m]]
  <2>2. n \in Nat /\ n + 1 \in 1..size /\ n + 1 \in 0..size
    BY <1>2
  <2>3. step[<<n + 1, f[n]>>] \in X
    BY <2>2
  <2>4. g \in [0..(n + 1) -> X] /\ g[0] = base
    BY <2>1, <2>2, <2>3
  <2>5. ASSUME NEW m \in 1..(n + 1) PROVE g[m] = step[<<m, g[m - 1]>>]
    <3>1. m - 1 \in 0..n /\ m - 1 # n + 1
      BY <2>2, <2>5
    <3>2. CASE m = n + 1
      <4>1. g[n + 1] = step[<<n + 1, f[n]>>] /\ (n + 1) - 1 = n /\ g[n] = f[n]
        BY <2>2
      <4> HIDE DEF g
      <4> QED
        BY <3>2, <4>1
    <3>3. CASE m # n + 1
      <4>1. m \in 1..n
        BY <2>2, <2>5, <3>3
      <4> QED
        BY <2>1, <3>1, <3>3, <4>1
    <3> QED
      BY <3>2, <3>3
  <2> HIDE DEF g
  <2> QED
    BY <2>2, <2>4, <2>5
<1>3. size \in T
  <2> HIDE DEF T
  <2>1. 0..size \subseteq T
    BY <1>1, <1>2, UpTo
  <2> QED
    BY <2>1
<1> QED
  BY <1>3 DEF Solvable

\* Offset adds up the lengths of the sequences before.
LEMMA OffsetFacts ==
  ASSUME NEW E, NEW seqs \in Seq(Seq(E))
  PROVE  /\ \A j \in 1..(Len(seqs) + 1) : Offset(seqs, j) \in Nat
         /\ Offset(seqs, 1) = 0
         /\ \A j \in 1..Len(seqs) : Offset(seqs, j + 1) = Offset(seqs, j) + Len(seqs[j])
<1> DEFINE Is(f) == f = [g \in 0..Len(seqs) |-> IF g = 0 THEN 0 ELSE f[g - 1] + Len(seqs[g])]
           size  == CHOOSE f : Is(f)
           step  == [p \in (1..Len(seqs)) \X Nat |-> p[2] + Len(seqs[p[1]])]
<1>1. Len(seqs) \in Nat /\ \A j \in 1..Len(seqs) : Len(seqs[j]) \in Nat
  OBVIOUS
<1>2. step \in [(1..Len(seqs)) \X Nat -> Nat]
  BY <1>1
<1>3. PICK f \in [0..Len(seqs) -> Nat] :
        f[0] = 0 /\ \A n \in 1..Len(seqs) : f[n] = step[<<n, f[n - 1]>>]
  <2> HIDE DEF step
  <2>1. Len(seqs) \in Nat /\ 0 \in Nat
    BY <1>1
  <2>2. Solvable(Nat, 0, Len(seqs), step)
    BY <1>2, <2>1, Recursion
  <2> QED
    BY <2>2 DEF Solvable
<1>4. Is(f)
  <2>1. ASSUME NEW n \in 1..Len(seqs) PROVE f[n - 1] \in Nat /\ f[n] = f[n - 1] + Len(seqs[n])
    <3>1. n - 1 \in 0..Len(seqs)
      BY <1>1
    <3>2. f[n - 1] \in Nat
      BY <1>3, <3>1
    <3>3. step[<<n, f[n - 1]>>] = f[n - 1] + Len(seqs[n])
      BY <3>2
    <3> HIDE DEF step
    <3> QED
      BY <1>3, <3>2, <3>3
  <2> QED
    BY <1>1, <1>3, <2>1
<1>5. Is(size)
  <2> HIDE DEF Is
  <2> QED
    BY <1>4
<1>6. \A j : Offset(seqs, j) = size[j - 1]
  BY DEF Offset
<1> HIDE DEF size
<1>7. DOMAIN size = 0..Len(seqs)
  BY <1>5
<1>8. size[0] = 0 /\ \A n \in 1..Len(seqs) : size[n] = size[n - 1] + Len(seqs[n])
  <2>1. \A n \in 0..Len(seqs) : size[n] = IF n = 0 THEN 0 ELSE size[n - 1] + Len(seqs[n])
    BY <1>5
  <2>2. 0 \in 0..Len(seqs) /\ \A n \in 1..Len(seqs) : n \in 0..Len(seqs) /\ n # 0
    BY <1>1
  <2> QED
    BY <2>1, <2>2
<1>9. \A n \in 0..Len(seqs) : size[n] \in Nat
  <2> DEFINE T == {n \in 0..Len(seqs) : size[n] \in Nat}
  <2>1. 0 \in T
    BY <1>1, <1>8
  <2>2. ASSUME NEW n \in 0..(Len(seqs) - 1), n \in T PROVE n + 1 \in T
    <3>1. n + 1 \in 1..Len(seqs) /\ (n + 1) - 1 = n /\ size[n] \in Nat
      BY <1>1, <2>2
    <3>2. size[n + 1] = size[n] + Len(seqs[n + 1])
      BY <1>8, <3>1
    <3> QED
      BY <1>1, <3>1, <3>2
  <2> HIDE DEF T
  <2>3. 0..Len(seqs) \subseteq T
    BY <1>1, <2>1, <2>2, UpTo
  <2> QED
    BY <2>3 DEF T
<1>10. \A j \in 1..(Len(seqs) + 1) : Offset(seqs, j) \in Nat
  <2>1. \A j \in 1..(Len(seqs) + 1) : j - 1 \in 0..Len(seqs)
    BY <1>1
  <2> QED
    BY <1>6, <1>9, <2>1
<1>11. Offset(seqs, 1) = 0
  BY <1>6, <1>8
<1>12. ASSUME NEW j \in 1..Len(seqs) PROVE Offset(seqs, j + 1) = Offset(seqs, j) + Len(seqs[j])
  <2>1. (j + 1) - 1 = j
    BY <1>1
  <2> QED
    BY <1>6, <1>8, <2>1
<1> QED
  BY <1>10, <1>11, <1>12

\* What comes earlier begins earlier.
LEMMA OffsetMonotone ==
  ASSUME NEW E, NEW seqs \in Seq(Seq(E)), NEW j \in 1..Len(seqs)
  PROVE  \A k \in (j + 1)..(Len(seqs) + 1) : Offset(seqs, j) + Len(seqs[j]) <= Offset(seqs, k)
<1> DEFINE bound == Offset(seqs, j) + Len(seqs[j])
           size  == Len(seqs) - j
           T == {n \in 0..size : bound <= Offset(seqs, j + 1 + n)}
<1>1. /\ Len(seqs) \in Nat /\ j \in Nat /\ size \in Nat
      /\ \A k \in 1..Len(seqs) : Len(seqs[k]) \in Nat
  OBVIOUS
<1>2. bound \in Nat /\ \A k \in 1..(Len(seqs) + 1) : Offset(seqs, k) \in Nat
  BY <1>1, OffsetFacts
<1>3. 0 \in T
  <2>1. Offset(seqs, j + 1 + 0) = bound
    BY <1>1, OffsetFacts
  <2> QED
    BY <1>1, <1>2, <2>1
<1>4. ASSUME NEW n \in 0..(size - 1), n \in T PROVE n + 1 \in T
  <2>1. j + 1 + n \in 1..Len(seqs) /\ j + 1 + (n + 1) = (j + 1 + n) + 1
    BY <1>1, <1>4
  <2>2. Offset(seqs, j + 1 + (n + 1)) = Offset(seqs, j + 1 + n) + Len(seqs[j + 1 + n])
    BY <2>1, OffsetFacts
  <2>3. Len(seqs[j + 1 + n]) \in Nat /\ Offset(seqs, j + 1 + n) \in Nat
    BY <1>1, <1>2, <2>1
  <2>4. bound <= Offset(seqs, j + 1 + n) /\ n + 1 \in 0..size /\ bound \in Nat
    <3>1. Len(seqs[j]) \in Nat /\ Offset(seqs, j) \in Nat
      BY <1>1, <1>2
    <3>2. n + 1 \in 0..size
      BY <1>1, <1>4
    <3> QED
      BY <1>4, <3>1, <3>2
  <2> DEFINE here == Offset(seqs, j + 1 + n)
             more == Len(seqs[j + 1 + n])
  <2> HIDE DEF here, more, bound, size
  <2>5. bound <= here + more
    BY <2>3, <2>4 DEF here, more
  <2> QED
    BY <2>2, <2>4, <2>5 DEF here, more
<1>5. 0..size \subseteq T
  <2> HIDE DEF T, size
  <2> QED
    BY <1>1, <1>3, <1>4, UpTo
<1> SUFFICES ASSUME NEW k \in (j + 1)..(Len(seqs) + 1) PROVE bound <= Offset(seqs, k)
  OBVIOUS
<1>6. k - (j + 1) \in 0..size /\ j + 1 + (k - (j + 1)) = k
  BY <1>1
<1> QED
  BY <1>5, <1>6

\* r[1..size] are those of the first n elements of seq that are in S, in order.
Picks(r, size, seq, n, S) ==
  \E at \in [1..size -> 1..n] :
    /\ \A a, b \in 1..size : a < b => at[a] < at[b]
    /\ \A a \in 1..size : r[a] = seq[at[a]]
    /\ \A m \in 1..n : seq[m] \in S <=> \E a \in 1..size : at[a] = m

\* Of no elements, none are picked.
LEMMA PicksNone == ASSUME NEW seq, NEW S PROVE Picks(<<>>, 0, seq, 0, S)
<1> DEFINE at == [a \in 1..0 |-> 0]
<1>1. at \in [1..0 -> 1..0]
  OBVIOUS
<1>2. /\ \A a, b \in 1..0 : a < b => at[a] < at[b]
      /\ \A a \in 1..0 : <<>>[a] = seq[at[a]]
      /\ \A m \in 1..0 : seq[m] \in S <=> \E a \in 1..0 : at[a] = m
  OBVIOUS
<1> HIDE DEF at
<1> QED
  BY <1>1, <1>2 DEF Picks

\* One more element is picked iff it is in the set.
LEMMA PicksNext ==
  ASSUME NEW E, NEW seq \in Seq(E), NEW r \in Seq(E), NEW S, NEW n \in Nat,
         n + 1 \in 1..Len(seq), Picks(r, Len(r), seq, n, S)
  PROVE  /\ seq[n + 1] \in S => Picks(Append(r, seq[n + 1]), Len(r) + 1, seq, n + 1, S)
         /\ seq[n + 1] \notin S => Picks(r, Len(r), seq, n + 1, S)
<1> DEFINE size == Len(r)
<1>1. size \in Nat
  OBVIOUS
<1>2. PICK at \in [1..size -> 1..n] :
        /\ \A a, b \in 1..size : a < b => at[a] < at[b]
        /\ \A a \in 1..size : r[a] = seq[at[a]]
        /\ \A m \in 1..n : seq[m] \in S <=> \E a \in 1..size : at[a] = m
  BY DEF Picks
<1>3. \A a \in 1..size : at[a] \in 1..n /\ at[a] \in 1..(n + 1) /\ at[a] # n + 1
  BY <1>2
<1>4. ASSUME seq[n + 1] \notin S PROVE Picks(r, size, seq, n + 1, S)
  <2>1. at \in [1..size -> 1..(n + 1)]
    BY <1>2, <1>3
  <2>2. \A m \in 1..(n + 1) : seq[m] \in S <=> \E a \in 1..size : at[a] = m
    <3> TAKE m \in 1..(n + 1)
    <3>1. CASE m = n + 1
      BY <1>3, <1>4, <3>1
    <3>2. CASE m \in 1..n
      BY <1>2, <3>2
    <3> QED
      BY <3>1, <3>2
  <2> QED
    BY <1>2, <2>1, <2>2 DEF Picks
<1>5. ASSUME seq[n + 1] \in S PROVE Picks(Append(r, seq[n + 1]), size + 1, seq, n + 1, S)
  <2> DEFINE longer == Append(r, seq[n + 1])
             to == [a \in 1..(size + 1) |-> IF a = size + 1 THEN n + 1 ELSE at[a]]
  <2>1. seq[n + 1] \in E
    OBVIOUS
  <2>2. /\ longer \in Seq(E) /\ Len(longer) = size + 1 /\ longer[size + 1] = seq[n + 1]
        /\ \A a \in 1..size : longer[a] = r[a]
    BY <1>1, <2>1
  <2>3. \A a \in 1..(size + 1) : a # size + 1 => a \in 1..size
    BY <1>1
  <2> HIDE DEF longer, size
  <2>4. /\ to \in [1..(size + 1) -> 1..(n + 1)]
        /\ to[size + 1] = n + 1 /\ \A a \in 1..size : to[a] = at[a]
    BY <1>1, <1>3, <2>3
  <2> HIDE DEF to
  <2>5. \A a, b \in 1..(size + 1) : a < b => to[a] < to[b]
    <3> SUFFICES ASSUME NEW a \in 1..(size + 1), NEW b \in 1..(size + 1), a < b
                 PROVE  to[a] < to[b]
      OBVIOUS
    <3>1. a \in 1..size
      BY <1>1
    <3>2. CASE b = size + 1
      BY <1>3, <2>4, <3>1, <3>2
    <3>3. CASE b # size + 1
      BY <1>2, <2>3, <2>4, <3>1, <3>3
    <3> QED
      BY <3>2, <3>3
  <2>6. \A a \in 1..(size + 1) : longer[a] = seq[to[a]]
    BY <1>2, <2>2, <2>3, <2>4
  <2>7. \A m \in 1..(n + 1) : seq[m] \in S <=> \E a \in 1..(size + 1) : to[a] = m
    <3> TAKE m \in 1..(n + 1)
    <3>1. CASE m = n + 1
      <4>1. size + 1 \in 1..(size + 1)
        BY <1>1
      <4> QED
        BY <1>5, <2>4, <3>1, <4>1
    <3>2. CASE m # n + 1
      <4>1. m \in 1..n
        BY <3>2
      <4>2. (\E a \in 1..size : at[a] = m) <=> \E a \in 1..(size + 1) : to[a] = m
        <5>1. \A a \in 1..size : a \in 1..(size + 1)
          BY <1>1
        <5> QED
          BY <2>3, <2>4, <3>2, <5>1
      <4> QED
        BY <1>2, <4>1, <4>2
    <3> QED
      BY <3>1, <3>2
  <2>8. Picks(longer, size + 1, seq, n + 1, S)
    BY <2>4, <2>5, <2>6, <2>7 DEF Picks
  <2> QED
    BY <2>8 DEF longer
<1> QED
  BY <1>4, <1>5

\* What Kept returns: the chosen elements, in their order.
LEMMA KeptFacts ==
  ASSUME NEW E, NEW seq \in Seq(E), NEW S
  PROVE  Kept(seq, S) \in Seq(E) /\ Picks(Kept(seq, S), Len(Kept(seq, S)), seq, Len(seq), S)
<1> DEFINE Is(f) == f = [n \in 0..Len(seq) |->
             IF n = 0 THEN <<>>
             ELSE IF seq[n] \in S THEN Append(f[n - 1], seq[n]) ELSE f[n - 1]]
           kept == CHOOSE f : Is(f)
           Next1(n, r) == IF seq[n] \in S THEN Append(r, seq[n]) ELSE r
           step == [p \in (1..Len(seq)) \X Seq(E) |-> Next1(p[1], p[2])]
<1>1. Len(seq) \in Nat /\ <<>> \in Seq(E)
  OBVIOUS
<1>2. \A n \in 1..Len(seq) : \A r \in Seq(E) : Next1(n, r) \in Seq(E)
  OBVIOUS
<1>3. step \in [(1..Len(seq)) \X Seq(E) -> Seq(E)]
  <2> HIDE DEF Next1
  <2> QED
    BY <1>2
<1>4. \A n \in 1..Len(seq) : \A r \in Seq(E) : step[<<n, r>>] = Next1(n, r)
  OBVIOUS
<1>5. PICK f \in [0..Len(seq) -> Seq(E)] :
        f[0] = <<>> /\ \A n \in 1..Len(seq) : f[n] = step[<<n, f[n - 1]>>]
  <2> HIDE DEF step
  <2>1. Solvable(Seq(E), <<>>, Len(seq), step)
    BY <1>1, <1>3, Recursion
  <2> QED
    BY <2>1 DEF Solvable
<1>6. Is(f)
  <2>1. ASSUME NEW n \in 1..Len(seq) PROVE f[n] = Next1(n, f[n - 1])
    <3>1. n - 1 \in 0..Len(seq)
      BY <1>1
    <3> HIDE DEF step, Next1
    <3> QED
      BY <1>4, <1>5, <3>1
  <2>2. \A n \in 0..Len(seq) : n # 0 => n \in 1..Len(seq)
    BY <1>1
  <2> QED
    BY <1>5, <2>1, <2>2
<1>7. Is(kept)
  <2> HIDE DEF Is
  <2> QED
    BY <1>6
<1>8. Kept(seq, S) = kept[Len(seq)]
  BY DEF Kept
<1> HIDE DEF kept
<1>9. kept[0] = <<>> /\ \A n \in 1..Len(seq) : kept[n] = Next1(n, kept[n - 1])
  <2>1. \A n \in 0..Len(seq) : kept[n] = IF n = 0 THEN <<>> ELSE Next1(n, kept[n - 1])
    BY <1>7
  <2>2. 0 \in 0..Len(seq) /\ \A n \in 1..Len(seq) : n \in 0..Len(seq) /\ n # 0
    BY <1>1
  <2> QED
    BY <2>1, <2>2
<1> HIDE DEF Is
<1> DEFINE T == {n \in 0..Len(seq) : kept[n] \in Seq(E) /\ Picks(kept[n], Len(kept[n]), seq, n, S)}
<1>10. 0 \in T
  <2>1. Picks(kept[0], Len(kept[0]), seq, 0, S) /\ kept[0] \in Seq(E) /\ 0 \in 0..Len(seq)
    BY <1>1, <1>9, PicksNone
  <2> QED
    BY <2>1
<1>11. ASSUME NEW n \in 0..(Len(seq) - 1), n \in T PROVE n + 1 \in T
  <2>1. n + 1 \in 1..Len(seq) /\ (n + 1) - 1 = n /\ n \in Nat /\ n + 1 \in 0..Len(seq)
    BY <1>1, <1>11
  <2>2. kept[n + 1] = Next1(n + 1, kept[n])
    <3> HIDE DEF Next1
    <3> QED
      BY <1>9, <2>1
  <2>3. kept[n + 1] \in Seq(E)
    BY <1>2, <1>11, <2>1, <2>2
  <2>4. Picks(kept[n + 1], Len(kept[n + 1]), seq, n + 1, S)
    <3>1. seq[n + 1] \in S => Len(kept[n + 1]) = Len(kept[n]) + 1
      BY <1>11, <2>1, <2>2
    <3> QED
      BY <1>11, <2>1, <2>2, <3>1, PicksNext
  <2> QED
    BY <2>1, <2>3, <2>4
<1>12. 0..Len(seq) \subseteq T
  <2> HIDE DEF T
  <2> QED
    BY <1>1, <1>10, <1>11, UpTo
<1> QED
  BY <1>1, <1>8, <1>12

\* r is as long as the first n sequences of seqs together.
Joins(r, seqs, n) == Len(r) = Offset(seqs, n + 1)

\* Appending the next sequence.
LEMMA JoinsNext ==
  ASSUME NEW E, NEW seqs \in Seq(Seq(E)), NEW n \in Nat, n + 1 \in 1..Len(seqs),
         NEW r \in Seq(E), Joins(r, seqs, n)
  PROVE  r \o seqs[n + 1] \in Seq(E) /\ Joins(r \o seqs[n + 1], seqs, n + 1)
<1>1. seqs[n + 1] \in Seq(E) /\ Offset(seqs, (n + 1) + 1) = Offset(seqs, n + 1) + Len(seqs[n + 1])
  BY OffsetFacts
<1>2. /\ r \o seqs[n + 1] \in Seq(E)
      /\ Len(r \o seqs[n + 1]) = Len(r) + Len(seqs[n + 1])
  BY <1>1, ConcatProperties
<1> QED
  BY <1>1, <1>2 DEF Joins

\* FlattenSeq holds each sequence at its offset.
LEMMA FlattenFacts ==
  ASSUME NEW E, NEW seqs \in Seq(Seq(E))
  PROVE  FlattenSeq(seqs) \in Seq(E) /\ Joins(FlattenSeq(seqs), seqs, Len(seqs))
<1>1. Len(seqs) \in Nat /\ <<>> \in Seq(E) /\ \A n \in 1..Len(seqs) : seqs[n] \in Seq(E)
  OBVIOUS
<1>2. Joins(<<>>, seqs, 0)
  BY OffsetFacts DEF Joins
<1>3. CASE Len(seqs) = 0
  <2>1. seqs = <<>> /\ FlattenSeq(seqs) = seqs
    BY <1>3 DEF FlattenSeq
  <2> QED
    BY <1>1, <1>2, <1>3, <2>1
<1>4. CASE Len(seqs) # 0
  <2> DEFINE Is(f) == f = [k \in 1..Len(seqs) |-> IF k = 1 THEN seqs[k] ELSE f[k - 1] \o seqs[k]]
             flatten == CHOOSE f : Is(f)
             step == [p \in (1..Len(seqs)) \X Seq(E) |-> p[2] \o seqs[p[1]]]
  <2>1. \A n \in 1..Len(seqs) : \A r \in Seq(E) : r \o seqs[n] \in Seq(E)
    BY <1>1, ConcatProperties
  <2>2. step \in [(1..Len(seqs)) \X Seq(E) -> Seq(E)]
    BY <2>1
  <2>3. \A n \in 1..Len(seqs) : \A r \in Seq(E) : step[<<n, r>>] = r \o seqs[n]
    OBVIOUS
  <2>4. PICK g \in [0..Len(seqs) -> Seq(E)] :
          g[0] = <<>> /\ \A n \in 1..Len(seqs) : g[n] = step[<<n, g[n - 1]>>]
    <3> HIDE DEF step
    <3>1. Solvable(Seq(E), <<>>, Len(seqs), step)
      BY <1>1, <2>2, Recursion
    <3> QED
      BY <3>1 DEF Solvable
  <2>5. \A n \in 1..Len(seqs) : g[n] = g[n - 1] \o seqs[n]
    <3>1. \A n \in 1..Len(seqs) : n - 1 \in 0..Len(seqs)
      BY <1>1
    <3> HIDE DEF step
    <3> QED
      BY <2>3, <2>4, <3>1
  <2> DEFINE f == [k \in 1..Len(seqs) |-> g[k]]
  <2>6. Is(f)
    <3>1. \A n \in 1..Len(seqs) : f[n] = IF n = 1 THEN seqs[n] ELSE f[n - 1] \o seqs[n]
      <4> TAKE n \in 1..Len(seqs)
      <4>1. CASE n = 1
        <5>1. 1 \in 1..Len(seqs) /\ 1 - 1 = 0
          BY <1>1, <1>4
        <5>3. g[1] = g[1 - 1] \o seqs[1]
          BY <2>5, <5>1
        <5>4. g[1] = <<>> \o seqs[1]
          BY <2>4, <5>1, <5>3
        <5>2. <<>> \o seqs[1] = seqs[1]
          BY <1>1, <4>1, ConcatEmptySeq
        <5> QED
          BY <4>1, <5>4, <5>2
      <4>2. CASE n # 1
        <5>1. n - 1 \in 1..Len(seqs)
          BY <1>1, <4>2
        <5> QED
          BY <2>5, <4>2, <5>1
      <4> QED
        BY <4>1, <4>2
    <3>2. f = [k \in 1..Len(seqs) |-> f[k]]
      OBVIOUS
    <3> HIDE DEF f
    <3> QED
      BY <3>1, <3>2
  <2>7. Is(flatten)
    <3> HIDE DEF Is, f
    <3> QED
      BY <2>6
  <2>8. FlattenSeq(seqs) = flatten[Len(seqs)]
    BY <1>4 DEF FlattenSeq
  <2> HIDE DEF flatten
  <2>9. \A n \in 1..Len(seqs) : flatten[n] = IF n = 1 THEN seqs[n] ELSE flatten[n - 1] \o seqs[n]
    BY <2>7
  <2> HIDE DEF Is
  <2> DEFINE T == {n \in 0..(Len(seqs) - 1) :
               flatten[n + 1] \in Seq(E) /\ Joins(flatten[n + 1], seqs, n + 1)}
  <2>10. 0 \in T
    <3>1. 0 + 1 \in 1..Len(seqs) /\ 0 \in Nat /\ 0 \in 0..(Len(seqs) - 1)
      BY <1>1, <1>4
    <3>2. <<>> \o seqs[1] = seqs[1]
      BY <1>1, <3>1, ConcatEmptySeq
    <3>3. Joins(<<>> \o seqs[0 + 1], seqs, 0 + 1)
      BY <1>1, <1>2, <3>1, JoinsNext
    <3>4. flatten[0 + 1] = seqs[1] /\ seqs[1] \in Seq(E) /\ 0 + 1 = 1
      BY <1>1, <2>9, <3>1
    <3>5. Joins(flatten[0 + 1], seqs, 0 + 1)
      BY <3>2, <3>3, <3>4
    <3> QED
      BY <3>1, <3>4, <3>5
  <2>11. ASSUME NEW n \in 0..((Len(seqs) - 1) - 1), n \in T PROVE n + 1 \in T
    <3>1. /\ n + 1 \in 0..(Len(seqs) - 1) /\ (n + 1) + 1 \in 1..Len(seqs)
          /\ (n + 1) + 1 # 1 /\ ((n + 1) + 1) - 1 = n + 1 /\ n + 1 \in Nat
      BY <1>1, <2>11
    <3>2. flatten[(n + 1) + 1] = flatten[n + 1] \o seqs[(n + 1) + 1]
      BY <2>9, <3>1
    <3>3. flatten[n + 1] \in Seq(E) /\ Joins(flatten[n + 1], seqs, n + 1)
      BY <2>11
    <3>4. flatten[(n + 1) + 1] \in Seq(E) /\ Joins(flatten[(n + 1) + 1], seqs, (n + 1) + 1)
      BY <3>1, <3>2, <3>3, JoinsNext
    <3> QED
      BY <3>1, <3>4
  <2>12. 0..(Len(seqs) - 1) \subseteq T
    <3>1. Len(seqs) - 1 \in Nat
      BY <1>1, <1>4
    <3> HIDE DEF T
    <3> QED
      BY <2>10, <2>11, <3>1, UpTo
  <2>13. Len(seqs) - 1 \in 0..(Len(seqs) - 1) /\ (Len(seqs) - 1) + 1 = Len(seqs)
    BY <1>1, <1>4
  <2>14. flatten[(Len(seqs) - 1) + 1] \in Seq(E) /\ Joins(flatten[(Len(seqs) - 1) + 1], seqs, (Len(seqs) - 1) + 1)
    BY <2>12, <2>13
  <2> QED
    BY <2>8, <2>13, <2>14
<1> QED
  BY <1>3, <1>4

Increasing(seq) == \A m, n \in 1..Len(seq) : m < n => seq[m] < seq[n]

\* A function on 1..n is a sequence.
LEMMA AsSeq == ASSUME NEW E, NEW n \in Nat, NEW f \in [1..n -> E] PROVE f \in Seq(E) /\ Len(f) = n
  OBVIOUS

\* An increasing subsequence with exactly the elements of the set.
LEMMA KeptIncreasing ==
  ASSUME NEW seq \in Seq(Nat), NEW S,
         \A m, n \in 1..Len(seq) : m < n /\ seq[m] \in S /\ seq[n] \in S => seq[m] < seq[n]
  PROVE  /\ Kept(seq, S) \in Seq(Nat)
         /\ Increasing(Kept(seq, S))
         /\ ToSet(Kept(seq, S)) = ToSet(seq) \cap S
<1> DEFINE kept == Kept(seq, S)
           size == Len(kept)
<1>1. kept \in Seq(Nat) /\ Picks(kept, size, seq, Len(seq), S)
  BY KeptFacts
<1>2. size \in Nat /\ Len(seq) \in Nat
  BY <1>1
<1>3. DOMAIN kept = 1..size /\ DOMAIN seq = 1..Len(seq)
  BY <1>1
<1> HIDE DEF kept, size
<1>4. PICK at \in [1..size -> 1..Len(seq)] :
        /\ \A a, b \in 1..size : a < b => at[a] < at[b]
        /\ \A a \in 1..size : kept[a] = seq[at[a]]
        /\ \A m \in 1..Len(seq) : seq[m] \in S <=> \E a \in 1..size : at[a] = m
  BY <1>1 DEF Picks
<1>5. \A a \in 1..size : at[a] \in 1..Len(seq)
  BY <1>4
<1>6. \A a, b \in 1..size : a < b => kept[a] < kept[b]
  <2> TAKE a, b \in 1..size
  <2> HAVE a < b
  <2>1. at[a] < at[b] /\ seq[at[a]] \in S /\ seq[at[b]] \in S
    BY <1>4, <1>5
  <2> QED
    BY <1>4, <1>5, <2>1
<1>7. ToSet(kept) \subseteq ToSet(seq) \cap S
  <2> SUFFICES ASSUME NEW a \in 1..size PROVE kept[a] \in ToSet(seq) \cap S
    BY <1>3 DEF ToSet
  <2>1. kept[a] = seq[at[a]] /\ seq[at[a]] \in S
    BY <1>4, <1>5
  <2> QED
    BY <1>3, <1>5, <2>1 DEF ToSet
<1>8. ToSet(seq) \cap S \subseteq ToSet(kept)
  <2> SUFFICES ASSUME NEW m \in 1..Len(seq), seq[m] \in S PROVE seq[m] \in ToSet(kept)
    BY <1>3 DEF ToSet
  <2>1. PICK a \in 1..size : at[a] = m
    BY <1>4
  <2> QED
    BY <1>3, <1>4, <2>1 DEF ToSet
<1> QED
  BY <1>1, <1>6, <1>7, <1>8 DEF Increasing, size, kept

\* A loaded body holds consecutive numbers.
LEMMA NumberedFacts ==
  ASSUME NEW prog \in Seq(Seq(Operation)), NEW f \in 1..Len(prog)
  PROVE  /\ Offset(prog, f) \in Nat /\ Len(prog[f]) \in Nat
         /\ Numbered(prog)[f] \in Seq(Nat)
         /\ Len(Numbered(prog)[f]) = Len(prog[f])
         /\ \A n \in 1..Len(prog[f]) : Numbered(prog)[f][n] = Offset(prog, f) + n
         /\ Increasing(Numbered(prog)[f])
         /\ ToSet(Numbered(prog)[f]) = (Offset(prog, f) + 1)..Offset(prog, f + 1)
<1> DEFINE body == [n \in 1..Len(prog[f]) |-> Offset(prog, f) + n]
           offset == Offset(prog, f)
           size   == Len(prog[f])
<1>1. Numbered(prog)[f] = body
  BY DEF Numbered
<1>2. offset \in Nat /\ size \in Nat /\ Offset(prog, f + 1) = offset + size
  <2>1. Len(prog) \in Nat /\ f \in 1..(Len(prog) + 1)
    OBVIOUS
  <2> QED
    BY <2>1, OffsetFacts
<1>3. body = [n \in 1..size |-> offset + n]
  OBVIOUS
<1> HIDE DEF body, offset, size
<1>4. body \in [1..size -> Nat]
  BY <1>2, <1>3
<1>5. body \in Seq(Nat) /\ Len(body) = size
  BY <1>2, <1>4, AsSeq
<1>6. \A n \in 1..size : body[n] = offset + n
  BY <1>3
<1>7. Increasing(body)
  BY <1>2, <1>5, <1>6 DEF Increasing
<1>8. ToSet(body) = (offset + 1)..(offset + size)
  <2>1. ToSet(body) = {body[n] : n \in 1..size}
    BY <1>4 DEF ToSet
  <2>2. \A m \in (offset + 1)..(offset + size) : m - offset \in 1..size /\ body[m - offset] = m
    BY <1>2, <1>6
  <2>3. \A n \in 1..size : body[n] \in (offset + 1)..(offset + size)
    BY <1>2, <1>6
  <2> QED
    BY <2>1, <2>2, <2>3
<1> QED
  BY <1>1, <1>2, <1>5, <1>6, <1>7, <1>8 DEF offset, size

\* The bodies of a loaded module.
LEMMA LoadedFacts ==
  ASSUME NEW prog \in Seq(Seq(Operation))
  PROVE  /\ Loaded(prog) = [body |-> Numbered(prog), op |-> FlattenSeq(prog), freed |-> {}, fault |-> "none"]
         /\ Len(Numbered(prog)) = Len(prog) /\ Numbered(prog) \in Seq(Seq(Nat))
         /\ FlattenSeq(prog) \in Seq(Operation)
         /\ Len(FlattenSeq(prog)) = Offset(prog, Len(prog) + 1)
<1>1. FlattenSeq(prog) \in Seq(Operation) /\ Joins(FlattenSeq(prog), prog, Len(prog))
  BY FlattenFacts
<1>2. \A f \in 1..Len(prog) : Numbered(prog)[f] \in Seq(Nat)
  BY NumberedFacts
<1>3. Len(prog) \in Nat /\ Numbered(prog) = [f \in 1..Len(prog) |-> Numbered(prog)[f]]
  BY DEF Numbered
<1>4. Numbered(prog) \in [1..Len(prog) -> Seq(Nat)]
  BY <1>2, <1>3
<1>5. Numbered(prog) \in Seq(Seq(Nat)) /\ Len(Numbered(prog)) = Len(prog)
  BY <1>3, <1>4, AsSeq
<1> QED
  BY <1>1, <1>5 DEF Loaded, Joins

\* The numbers of a function are below those of the next ones.
LEMMA FunctionsApart ==
  ASSUME NEW prog \in Seq(Seq(Operation)), NEW f \in 1..Len(prog), NEW g \in 1..Len(prog), f < g,
         NEW a \in ToSet(Numbered(prog)[f]), NEW b \in ToSet(Numbered(prog)[g])
  PROVE  a < b
<1>1. Len(prog) \in Nat /\ f + 1 \in 1..(Len(prog) + 1) /\ g \in (f + 1)..(Len(prog) + 1)
  OBVIOUS
<1>2. Offset(prog, f + 1) = Offset(prog, f) + Len(prog[f])
  BY OffsetFacts
<1>3. Offset(prog, f) + Len(prog[f]) <= Offset(prog, g)
  BY <1>1, OffsetMonotone
<1>4. a \in (Offset(prog, f) + 1)..Offset(prog, f + 1) /\ b \in (Offset(prog, g) + 1)..Offset(prog, g + 1)
  BY NumberedFacts
<1>5. /\ Offset(prog, f) \in Nat /\ Offset(prog, f + 1) \in Nat
      /\ Offset(prog, g) \in Nat /\ Offset(prog, g + 1) \in Nat
  <2>1. \A h \in 1..(Len(prog) + 1) : Offset(prog, h) \in Nat
    BY OffsetFacts
  <2>2. {f, f + 1, g, g + 1} \subseteq 1..(Len(prog) + 1)
    BY <1>1
  <2> QED
    BY <2>1, <2>2
<1> DEFINE x1 == Offset(prog, f)
           x2 == Offset(prog, f + 1)
           y1 == Offset(prog, g)
           y2 == Offset(prog, g + 1)
<1>6. a \in (x1 + 1)..x2 /\ b \in (y1 + 1)..y2 /\ x2 <= y1 /\ {x1, x2, y1, y2} \subseteq Nat
  BY <1>2, <1>3, <1>4, <1>5
<1> HIDE DEF x1, x2, y1, y2
<1> QED
  BY <1>6

\* What is left without one element.
LEMMA RemoveAtFacts ==
  ASSUME NEW E, NEW s \in Seq(E), NEW p \in 1..Len(s)
  PROVE  /\ RemoveAt(s, p) \in Seq(E) /\ Len(RemoveAt(s, p)) = Len(s) - 1
         /\ \A k \in 1..(p - 1) : RemoveAt(s, p)[k] = s[k]
         /\ \A k \in p..(Len(s) - 1) : RemoveAt(s, p)[k] = s[k + 1]
<1> DEFINE size  == Len(s)
           left  == SubSeq(s, 1, p - 1)
           right == SubSeq(s, p + 1, size)
           both  == left \o right
<1>1. size \in Nat /\ p \in 1..size /\ \A k \in 1..size : s[k] \in E
  OBVIOUS
<1>2. RemoveAt(s, p) = both
  BY DEF RemoveAt
<1> HIDE DEF size
<1>3. /\ left \in Seq(E) /\ Len(left) = p - 1
      /\ \A k \in 1..(p - 1) : left[k] = s[k]
  <2>1. 1 \in Int /\ p - 1 \in Int /\ \A k \in 1..(p - 1) : s[k] \in E
    BY <1>1
  <2>2. /\ left \in Seq(E) /\ Len(left) = IF 1 <= p - 1 THEN (p - 1) - 1 + 1 ELSE 0
        /\ \A k \in 1..((p - 1) - 1 + 1) : left[k] = s[1 + k - 1]
    BY <2>1, SubSeqProperties
  <2> HIDE DEF left
  <2>3. Len(left) = p - 1
    BY <1>1, <2>2
  <2>4. \A k \in 1..(p - 1) : 1 + k - 1 = k /\ k \in 1..((p - 1) - 1 + 1)
    BY <1>1
  <2> QED
    BY <2>2, <2>3, <2>4
<1>4. /\ right \in Seq(E) /\ Len(right) = size - p
      /\ \A k \in 1..(size - p) : right[k] = s[p + k]
  <2>1. p + 1 \in Int /\ size \in Int /\ \A k \in (p + 1)..size : s[k] \in E
    BY <1>1
  <2>2. /\ right \in Seq(E) /\ Len(right) = IF p + 1 <= size THEN size - (p + 1) + 1 ELSE 0
        /\ \A k \in 1..(size - (p + 1) + 1) : right[k] = s[(p + 1) + k - 1]
    BY <2>1, SubSeqProperties
  <2> HIDE DEF right
  <2>3. Len(right) = size - p
    BY <1>1, <2>2
  <2>4. \A k \in 1..(size - p) : (p + 1) + k - 1 = p + k /\ k \in 1..(size - (p + 1) + 1)
    BY <1>1
  <2> QED
    BY <2>2, <2>3, <2>4
<1> HIDE DEF left, right
<1>5. /\ both \in Seq(E) /\ Len(both) = Len(left) + Len(right)
      /\ \A k \in 1..(Len(left) + Len(right)) : both[k] = IF k <= Len(left) THEN left[k] ELSE right[k - Len(left)]
  BY <1>3, <1>4, ConcatProperties
<1> HIDE DEF both
<1>6. Len(both) = size - 1
  BY <1>1, <1>3, <1>4, <1>5
<1>7. ASSUME NEW k \in 1..(p - 1) PROVE both[k] = s[k]
  <2>1. k \in 1..(Len(left) + Len(right)) /\ k <= Len(left)
    BY <1>1, <1>3, <1>4
  <2> QED
    BY <1>3, <1>5, <2>1
<1>8. ASSUME NEW k \in p..(size - 1) PROVE both[k] = s[k + 1]
  <2>1. k \in 1..(Len(left) + Len(right)) /\ ~(k <= Len(left)) /\ k - Len(left) = k - (p - 1)
    BY <1>1, <1>3, <1>4
  <2>2. k - (p - 1) \in 1..(size - p) /\ p + (k - (p - 1)) = k + 1
    BY <1>1
  <2>3. both[k] = right[k - (p - 1)]
    BY <1>5, <2>1
  <2>4. right[k - (p - 1)] = s[p + (k - (p - 1))]
    BY <1>4, <2>2
  <2> QED
    BY <2>2, <2>3, <2>4
<1> QED
  BY <1>2, <1>5, <1>6, <1>7, <1>8 DEF size

Widens(s, p, e, t) ==
  /\ t \in Seq(Nat) /\ Len(t) = Len(s) + 1
  /\ \A k \in 1..(p - 1) : t[k] = s[k]
  /\ t[p] = e
  /\ \A k \in p..Len(s) : t[k + 1] = s[k]

\* An inserted element, and what moves.
LEMMA InsertAtFacts ==
  ASSUME NEW s \in Seq(Nat), NEW p \in 1..(Len(s) + 1), NEW e \in Nat
  PROVE  Widens(s, p, e, InsertAt(s, p, e))
<1> DEFINE size  == Len(s)
           left  == SubSeq(s, 1, p - 1)
           right == SubSeq(s, p, size)
           more  == left \o <<e>>
           all   == more \o right
<1>1. size \in Nat /\ p \in 1..(size + 1) /\ \A k \in 1..size : s[k] \in Nat
  OBVIOUS
<1>2. InsertAt(s, p, e) = all
  BY DEF InsertAt
<1> HIDE DEF size
<1>3. /\ left \in Seq(Nat) /\ Len(left) = p - 1
      /\ \A k \in 1..(p - 1) : left[k] = s[k]
  <2>1. 1 \in Int /\ p - 1 \in Int /\ \A k \in 1..(p - 1) : s[k] \in Nat
    BY <1>1
  <2>2. /\ left \in Seq(Nat) /\ Len(left) = IF 1 <= p - 1 THEN (p - 1) - 1 + 1 ELSE 0
        /\ \A k \in 1..((p - 1) - 1 + 1) : left[k] = s[1 + k - 1]
    BY <2>1, SubSeqProperties
  <2> HIDE DEF left
  <2>3. Len(left) = p - 1
    BY <1>1, <2>2
  <2>4. \A k \in 1..(p - 1) : 1 + k - 1 = k /\ k \in 1..((p - 1) - 1 + 1)
    BY <1>1
  <2> QED
    BY <2>2, <2>3, <2>4
<1>4. /\ right \in Seq(Nat) /\ Len(right) = size - p + 1
      /\ \A k \in 1..(size - p + 1) : right[k] = s[p + k - 1]
  <2>1. p \in Int /\ size \in Int /\ \A k \in p..size : s[k] \in Nat
    BY <1>1
  <2>2. /\ right \in Seq(Nat) /\ Len(right) = IF p <= size THEN size - p + 1 ELSE 0
        /\ \A k \in 1..(size - p + 1) : right[k] = s[p + k - 1]
    BY <2>1, SubSeqProperties
  <2> HIDE DEF right
  <2>3. Len(right) = size - p + 1
    BY <1>1, <2>2
  <2> QED
    BY <2>2, <2>3
<1> HIDE DEF left, right
<1>5. /\ more \in Seq(Nat) /\ Len(more) = p /\ more[p] = e
      /\ \A k \in 1..(p - 1) : more[k] = s[k]
  <2>1. <<e>> \in Seq(Nat) /\ Len(<<e>>) = 1 /\ <<e>>[1] = e
    OBVIOUS
  <2> DEFINE one == <<e>>
  <2> HIDE DEF one
  <2>2. /\ left \o one \in Seq(Nat) /\ Len(left \o one) = Len(left) + Len(one)
        /\ \A k \in 1..(Len(left) + Len(one)) : (left \o one)[k] = IF k <= Len(left) THEN left[k] ELSE one[k - Len(left)]
    BY <1>3, <2>1, ConcatProperties DEF one
  <2>3. Len(left) + Len(one) = p /\ p \in 1..p /\ ~(p <= Len(left)) /\ p - Len(left) = 1 /\ one[1] = e
    BY <1>1, <1>3, <2>1 DEF one
  <2>4. \A k \in 1..(p - 1) : k \in 1..p /\ k <= Len(left)
    BY <1>1, <1>3
  <2>5. more = left \o one
    BY DEF one
  <2> HIDE DEF more
  <2>6. /\ more \in Seq(Nat) /\ Len(more) = p
        /\ \A k \in 1..p : more[k] = IF k <= Len(left) THEN left[k] ELSE one[k - Len(left)]
    BY <2>2, <2>3, <2>5
  <2>7. more[p] = e
    BY <2>3, <2>6
  <2>8. \A k \in 1..(p - 1) : more[k] = s[k]
    BY <1>3, <2>4, <2>6
  <2> QED
    BY <2>6, <2>7, <2>8
<1> HIDE DEF more
<1>6. /\ all \in Seq(Nat) /\ Len(all) = Len(more) + Len(right)
      /\ \A k \in 1..(Len(more) + Len(right)) : all[k] = IF k <= Len(more) THEN more[k] ELSE right[k - Len(more)]
  BY <1>4, <1>5, ConcatProperties
<1> HIDE DEF all
<1>7. Len(all) = size + 1
  BY <1>1, <1>4, <1>5, <1>6
<1>8. ASSUME NEW k \in 1..p PROVE all[k] = more[k]
  <2>1. k \in 1..(Len(more) + Len(right)) /\ k <= Len(more)
    BY <1>1, <1>4, <1>5
  <2> QED
    BY <1>6, <2>1
<1>9. \A k \in 1..(p - 1) : k \in 1..p
  BY <1>1
<1>10. p \in 1..p
  BY <1>1
<1>11. ASSUME NEW k \in p..size PROVE all[k + 1] = s[k]
  <2>1. /\ k + 1 \in 1..(Len(more) + Len(right)) /\ ~(k + 1 <= Len(more))
        /\ (k + 1) - Len(more) = (k + 1) - p
    BY <1>1, <1>4, <1>5
  <2>2. (k + 1) - p \in 1..(size - p + 1) /\ p + ((k + 1) - p) - 1 = k
    BY <1>1
  <2> QED
    BY <1>4, <1>6, <2>1, <2>2
<1>12. /\ all \in Seq(Nat) /\ Len(all) = Len(s) + 1 /\ all[p] = e
       /\ \A k \in 1..(p - 1) : all[k] = s[k]
       /\ \A k \in p..Len(s) : all[k + 1] = s[k]
  BY <1>5, <1>6, <1>7, <1>8, <1>9, <1>10, <1>11 DEF size
<1> QED
  BY <1>2, <1>12 DEF Widens

\* An element of a sorted sequence is not before the one at its place in a sorted
\* sequence with more elements.
LEMMA NextElement ==
  ASSUME NEW s \in Seq(Nat), NEW t \in Seq(Nat), Increasing(s), Increasing(t),
         ToSet(s) \subseteq ToSet(t), NEW d \in 1..Len(s),
         \A k \in 1..(d - 1) : k \in 1..Len(t) /\ t[k] = s[k]
  PROVE  d \in 1..Len(t) /\ t[d] <= s[d]
<1>1. DOMAIN s = 1..Len(s) /\ DOMAIN t = 1..Len(t) /\ s[d] \in Nat
  OBVIOUS
<1>6. s[d] \in ToSet(s)
  BY <1>1 DEF ToSet
<1>2. PICK m \in 1..Len(t) : t[m] = s[d]
  BY <1>1, <1>6 DEF ToSet
<1>3. ~(m < d)
  <2> SUFFICES ASSUME m < d PROVE FALSE
    OBVIOUS
  <2>1. m \in 1..(d - 1) /\ m \in 1..Len(s)
    OBVIOUS
  <2>2. s[m] = s[d] /\ s[m] < s[d]
    BY <1>2, <2>1 DEF Increasing
  <2> QED
    BY <1>1, <2>2
<1>4. d \in 1..Len(t) /\ (m = d \/ d < m)
  BY <1>3
<1>5. t[d] \in Nat /\ (d < m => t[d] < t[m])
  BY <1>4 DEF Increasing
<1> QED
  BY <1>1, <1>2, <1>4, <1>5

\* Sorted sequences with the same elements are equal.
LEMMA SameElements ==
  ASSUME NEW s \in Seq(Nat), NEW t \in Seq(Nat), Increasing(s), Increasing(t), ToSet(s) = ToSet(t)
  PROVE  s = t
<1> DEFINE Same(n) == n \in 1..Len(s) /\ n \in 1..Len(t) /\ s[n] = t[n]
           D == {n \in Nat : (n \in 1..Len(s) \/ n \in 1..Len(t)) /\ ~Same(n)}
<1>1. D = {}
  <2> SUFFICES ASSUME D # {} PROVE FALSE
    OBVIOUS
  <2>1. D \in SUBSET Nat
    OBVIOUS
  <2> HIDE DEF D
  <2>2. PICK d \in D : \A m \in D : d <= m
    BY <2>1, LeastNat
  <2>3. d \in Nat /\ (d \in 1..Len(s) \/ d \in 1..Len(t)) /\ ~Same(d)
    BY <2>2 DEF D
  <2>4. \A k \in 1..(d - 1) : Same(k)
    <3> SUFFICES ASSUME NEW k \in 1..(d - 1), ~Same(k) PROVE FALSE
      OBVIOUS
    <3>1. k \in Nat /\ k < d /\ (k \in 1..Len(s) \/ k \in 1..Len(t))
      BY <2>3
    <3>2. k \in D
      BY <3>1 DEF D
    <3> QED
      BY <2>2, <2>3, <3>1, <3>2
  <2>5. d \in 1..Len(s) => d \in 1..Len(t) /\ t[d] <= s[d]
    BY <2>4, NextElement
  <2>6. d \in 1..Len(t) => d \in 1..Len(s) /\ s[d] <= t[d]
    BY <2>4, NextElement
  <2>7. d \in 1..Len(s) /\ d \in 1..Len(t) /\ t[d] \in Nat /\ s[d] \in Nat
    BY <2>3, <2>5, <2>6
  <2> QED
    BY <2>3, <2>5, <2>6, <2>7
<1>2. \A n \in Nat : n \in 1..Len(s) \/ n \in 1..Len(t) => Same(n)
  BY <1>1
<1>3. Len(s) = Len(t) /\ Len(s) \in Nat /\ Len(t) \in Nat
  <2>1. Len(s) \in Nat /\ Len(t) \in Nat
    OBVIOUS
  <2>2. Len(s) > 0 => Len(s) \in 1..Len(s)
    BY <2>1
  <2>3. Len(t) > 0 => Len(t) \in 1..Len(t)
    BY <2>1
  <2>4. Len(s) > 0 => Len(s) \in 1..Len(t)
    BY <1>2, <2>1, <2>2
  <2>5. Len(t) > 0 => Len(t) \in 1..Len(s)
    BY <1>2, <2>1, <2>3
  <2> QED
    BY <2>1, <2>4, <2>5
<1>4. \A n \in 1..Len(s) : s[n] = t[n]
  BY <1>2, <1>3
<1> QED
  BY <1>3, <1>4

-----------------------------------------------------------------------------
(* The instructions of the module that was read, in the module as it is now *)

Total == Len(FlattenSeq(program))

\* The functions of the program have their instructions in order, and share none.
LEMMA OriginalSets ==
  ASSUME program \in Programs
  PROVE  /\ program \in Seq(Seq(Operation)) /\ Len(program) \in Nat /\ Total \in Nat
         /\ FlattenSeq(program) \in Seq(Operation)
         /\ \A f \in 1..Len(program) :
              /\ Original(f) \in Seq(Nat) /\ Increasing(Original(f))
              /\ ToSet(Original(f)) \subseteq 1..Total
         /\ \A f, g \in 1..Len(program) : g # f => ToSet(Original(g)) \cap ToSet(Original(f)) = {}
<1>1. program \in Seq(Seq(Operation)) /\ Len(program) \in Nat
  BY ProgramAssumption
<1>2. /\ FlattenSeq(program) \in Seq(Operation) /\ Total \in Nat
      /\ Total = Offset(program, Len(program) + 1)
  BY <1>1, LoadedFacts DEF Total
<1>3. ASSUME NEW f \in 1..Len(program)
      PROVE  /\ Original(f) \in Seq(Nat) /\ Increasing(Original(f))
             /\ ToSet(Original(f)) \subseteq 1..Total
  <2> DEFINE first == Offset(program, f)
             size  == Len(program[f])
  <2>1. /\ Original(f) \in Seq(Nat) /\ Increasing(Original(f))
        /\ ToSet(Original(f)) = (first + 1)..Offset(program, f + 1)
        /\ first \in Nat /\ size \in Nat
    BY <1>1, NumberedFacts DEF Original
  <2>2. Offset(program, f + 1) = first + size
    BY <1>1, OffsetFacts
  <2>3. Len(program) + 1 \in (f + 1)..(Len(program) + 1)
    BY <1>1
  <2>4. first + size <= Total
    BY <1>1, <1>2, <2>3, OffsetMonotone
  <2> HIDE DEF first, size
  <2> QED
    BY <1>2, <2>1, <2>2, <2>4
<1>4. ASSUME NEW f \in 1..Len(program), NEW g \in 1..Len(program), g # f,
             NEW x \in ToSet(Original(g)), x \in ToSet(Original(f))
      PROVE  FALSE
  <2>1. x \in 1..Total
    BY <1>3, <1>4
  <2>2. g < f \/ f < g
    BY <1>4
  <2>3. x < x
    BY <1>1, <1>4, <2>2, FunctionsApart DEF Original
  <2> QED
    BY <1>2, <2>1, <2>3
<1> QED
  BY <1>1, <1>2, <1>3, <1>4

\* A body with the instructions of S in their order, and new ones.
InOrder(b, S) ==
  /\ b \in Seq(Nat)
  /\ \A n \in 1..Len(b) : b[n] \in S \/ b[n] > Total
  /\ \A m, n \in 1..Len(b) : m < n /\ b[m] <= Total /\ b[n] <= Total => b[m] < b[n]
  /\ \A x \in S : \E n \in 1..Len(b) : b[n] = x

\* An instruction replaced by a new one.
LEMMA ReplaceInOrder ==
  ASSUME Total \in Nat, NEW S \in SUBSET (1..Total), NEW b, InOrder(b, S),
         NEW p \in 1..Len(b), b[p] <= Total, NEW new \in Nat, new > Total
  PROVE  InOrder(ReplaceAt(b, p, new), S \ {b[p]})
<1> DEFINE c == [b EXCEPT ![p] = new]
<1>1. ReplaceAt(b, p, new) = c
  BY DEF ReplaceAt
<1>2. /\ b \in Seq(Nat) /\ Len(b) \in Nat /\ c \in Seq(Nat) /\ Len(c) = Len(b)
      /\ \A n \in 1..Len(b) : c[n] = IF n = p THEN new ELSE b[n]
  BY DEF InOrder
<1> HIDE DEF c
<1>3. \A n \in 1..Len(b) : b[n] = b[p] => n = p
  <2> TAKE n \in 1..Len(b)
  <2> HAVE b[n] = b[p]
  <2>1. b[n] \in Nat /\ b[p] \in Nat /\ n \in Nat /\ p \in Nat
    BY <1>2
  <2> QED
    BY <2>1 DEF InOrder
<1>4. \A n \in 1..Len(c) : c[n] \in S \ {b[p]} \/ c[n] > Total
  BY <1>2, <1>3 DEF InOrder
<1>7. \A n \in 1..Len(c) : c[n] <= Total => n # p /\ c[n] = b[n]
  BY <1>2
<1>5. \A m, n \in 1..Len(c) : m < n /\ c[m] <= Total /\ c[n] <= Total => c[m] < c[n]
  BY <1>2, <1>7 DEF InOrder
<1>6. \A x \in S \ {b[p]} : \E n \in 1..Len(c) : c[n] = x
  BY <1>2 DEF InOrder
<1> QED
  BY <1>1, <1>2, <1>4, <1>5, <1>6 DEF InOrder

\* An instruction erased.
LEMMA RemoveInOrder ==
  ASSUME Total \in Nat, NEW S \in SUBSET (1..Total), NEW b, InOrder(b, S),
         NEW p \in 1..Len(b), b[p] <= Total
  PROVE  InOrder(RemoveAt(b, p), S \ {b[p]})
<1> DEFINE c == RemoveAt(b, p)
           old(n) == IF n < p THEN n ELSE n + 1
<1>1. b \in Seq(Nat) /\ Len(b) \in Nat /\ p \in Nat /\ 1 <= p /\ p <= Len(b)
  BY DEF InOrder
<1>2. /\ c \in Seq(Nat) /\ Len(c) = Len(b) - 1
      /\ \A k \in 1..(p - 1) : c[k] = b[k]
      /\ \A k \in p..(Len(b) - 1) : c[k] = b[k + 1]
  BY <1>1, RemoveAtFacts
<1> HIDE DEF c
<1>3. \A n \in 1..Len(c) : old(n) \in 1..Len(b) /\ old(n) # p /\ c[n] = b[old(n)]
  <2> SUFFICES ASSUME NEW n \in 1..Len(c)
               PROVE  old(n) \in 1..Len(b) /\ old(n) # p /\ c[n] = b[old(n)]
    OBVIOUS
  <2>1. CASE n < p
    <3>1. n \in 1..(p - 1) /\ n \in 1..Len(b) /\ n # p /\ old(n) = n
      BY <1>1, <1>2, <2>1
    <3> HIDE DEF old
    <3> QED
      BY <1>2, <3>1
  <2>2. CASE n >= p
    <3>1. n \in p..(Len(b) - 1) /\ n + 1 \in 1..Len(b) /\ n + 1 # p /\ old(n) = n + 1
      BY <1>1, <1>2, <2>2
    <3> HIDE DEF old
    <3> QED
      BY <1>2, <3>1
  <2> QED
    BY <1>1, <2>1, <2>2
<1>4. \A m, n \in 1..Len(c) : m < n => old(m) < old(n)
  <2> SUFFICES ASSUME NEW m \in 1..Len(c), NEW n \in 1..Len(c), m < n PROVE old(m) < old(n)
    OBVIOUS
  <2>1. m \in Nat /\ n \in Nat
    BY <1>1, <1>2
  <2> QED
    BY <1>1, <2>1
<1>5. \A n \in 1..Len(b) : n # p => \E m \in 1..Len(c) : old(m) = n
  <2> TAKE n \in 1..Len(b)
  <2> HAVE n # p
  <2>1. CASE n < p
    <3>1. n \in 1..Len(c) /\ old(n) = n
      BY <1>1, <1>2, <2>1
    <3> HIDE DEF old
    <3> QED
      BY <3>1
  <2>2. CASE n > p
    <3>1. n - 1 \in 1..Len(c) /\ old(n - 1) = n
      BY <1>1, <1>2, <2>2
    <3> HIDE DEF old
    <3> QED
      BY <3>1
  <2> QED
    BY <1>1, <2>1, <2>2
<1> HIDE DEF old
<1>6. \A n \in 1..Len(b) : b[n] = b[p] => n = p
  <2> TAKE n \in 1..Len(b)
  <2> HAVE b[n] = b[p]
  <2>1. b[n] \in Nat /\ b[p] \in Nat /\ n \in Nat /\ p \in Nat
    BY <1>1
  <2> QED
    BY <2>1 DEF InOrder
<1>7. \A n \in 1..Len(c) : c[n] \in S \ {b[p]} \/ c[n] > Total
  BY <1>3, <1>6 DEF InOrder
<1>8. \A m, n \in 1..Len(c) : m < n /\ c[m] <= Total /\ c[n] <= Total => c[m] < c[n]
  BY <1>3, <1>4 DEF InOrder
<1>9. \A x \in S \ {b[p]} : \E n \in 1..Len(c) : c[n] = x
  <2> TAKE x \in S \ {b[p]}
  <2>1. PICK n \in 1..Len(b) : b[n] = x
    BY DEF InOrder
  <2>2. PICK m \in 1..Len(c) : old(m) = n
    BY <1>5, <2>1
  <2> QED
    BY <1>3, <2>1, <2>2
<1> QED
  BY <1>2, <1>7, <1>8, <1>9 DEF InOrder, c

\* A new instruction inserted.
LEMMA InsertInOrder ==
  ASSUME Total \in Nat, NEW S \in SUBSET (1..Total), NEW b, InOrder(b, S),
         NEW p \in 1..(Len(b) + 1), NEW new \in Nat, new > Total
  PROVE  InOrder(InsertAt(b, p, new), S)
<1> DEFINE c == InsertAt(b, p, new)
           old(n) == IF n < p THEN n ELSE n - 1
<1>1. b \in Seq(Nat) /\ Len(b) \in Nat /\ p \in Nat /\ 1 <= p /\ p <= Len(b) + 1
  BY DEF InOrder
<1>2. /\ c \in Seq(Nat) /\ Len(c) = Len(b) + 1
      /\ \A k \in 1..(p - 1) : c[k] = b[k]
      /\ c[p] = new
      /\ \A k \in p..Len(b) : c[k + 1] = b[k]
  BY <1>1, InsertAtFacts DEF Widens
<1> HIDE DEF c
<1>3. \A n \in 1..Len(c) : n # p => old(n) \in 1..Len(b) /\ c[n] = b[old(n)]
  <2> TAKE n \in 1..Len(c)
  <2> HAVE n # p
  <2>1. CASE n < p
    BY <1>1, <1>2, <2>1
  <2>2. CASE n > p
    <3>1. n - 1 \in p..Len(b) /\ (n - 1) + 1 = n
      BY <1>1, <1>2, <2>2
    <3>2. c[n] = b[n - 1]
      BY <1>2, <3>1
    <3> QED
      BY <1>1, <2>2, <3>1, <3>2
  <2> QED
    BY <1>1, <1>2, <2>1, <2>2
<1>4. \A m, n \in 1..Len(c) : m < n /\ m # p /\ n # p => old(m) < old(n)
  <2> SUFFICES ASSUME NEW m \in 1..Len(c), NEW n \in 1..Len(c), m < n, m # p, n # p
               PROVE  old(m) < old(n)
    OBVIOUS
  <2>1. m \in Nat /\ n \in Nat
    BY <1>1, <1>2
  <2> QED
    BY <1>1, <2>1
<1>5. \A n \in 1..Len(b) : \E m \in 1..Len(c) : m # p /\ old(m) = n
  <2> TAKE n \in 1..Len(b)
  <2>1. CASE n < p
    BY <1>1, <1>2, <2>1
  <2>2. CASE n >= p
    <3>1. n + 1 \in 1..Len(c) /\ n + 1 # p /\ old(n + 1) = n
      BY <1>1, <1>2, <2>2
    <3> HIDE DEF old
    <3> QED
      BY <3>1
  <2> QED
    BY <1>1, <2>1, <2>2
<1> HIDE DEF old
<1>6. \A n \in 1..Len(c) : c[n] <= Total => n # p
  BY <1>2
<1>7. \A n \in 1..Len(c) : c[n] \in S \/ c[n] > Total
  BY <1>2, <1>3 DEF InOrder
<1>8. \A m, n \in 1..Len(c) : m < n /\ c[m] <= Total /\ c[n] <= Total => c[m] < c[n]
  BY <1>3, <1>4, <1>6 DEF InOrder
<1>9. \A x \in S : \E n \in 1..Len(c) : c[n] = x
  <2> TAKE x \in S
  <2>1. PICK n \in 1..Len(b) : b[n] = x
    BY DEF InOrder
  <2>2. PICK m \in 1..Len(c) : m # p /\ old(m) = n
    BY <1>5, <2>1
  <2> QED
    BY <1>3, <2>1, <2>2
<1> QED
  BY <1>2, <1>7, <1>8, <1>9 DEF InOrder, c

-----------------------------------------------------------------------------
(* What the operations on the module do to the instructions that were read *)

\* Every function has those of its instructions that were not erased, in their order;
\* all other instructions are new.
Ordered(r) ==
  /\ IsIR(r)
  /\ r.body \in Seq(Seq(Nat)) /\ Len(r.body) = Len(program)
  /\ r.op \in Seq(Operation) /\ Total <= Len(r.op)
  /\ \A f \in 1..Len(program) : InOrder(r.body[f], ToSet(Original(f)) \ r.freed)

\* An operation on r that erases nothing but what is in gone.
Leads(r, s, gone) ==
  /\ Ordered(s)
  /\ s.freed \subseteq r.freed \union gone
  /\ Len(r.op) <= Len(s.op)

\* An instruction that was read is found where it is.
LEMMA PlaceIs ==
  ASSUME program \in Programs, NEW r, Ordered(r), NEW f \in 1..Len(program),
         NEW n \in 1..Len(r.body[f]), r.body[f][n] <= Total
  PROVE  FuncOf(r, r.body[f][n]) = f /\ PosOf(r, r.body[f][n]) = n
<1> DEFINE x == r.body[f][n]
<1>1. /\ Total \in Nat /\ Len(r.body) = Len(program)
      /\ \A g \in 1..Len(program) :
           /\ r.body[g] \in Seq(Nat) /\ Len(r.body[g]) \in Nat
           /\ \A m \in 1..Len(r.body[g]) :
                r.body[g][m] \in ToSet(Original(g)) \/ r.body[g][m] > Total
  <2>1. Total \in Nat /\ Len(r.body) = Len(program)
    BY OriginalSets DEF Ordered
  <2>2. ASSUME NEW g \in 1..Len(program)
        PROVE  /\ r.body[g] \in Seq(Nat)
               /\ \A m \in 1..Len(r.body[g]) :
                    r.body[g][m] \in ToSet(Original(g)) \/ r.body[g][m] > Total
    BY DEF Ordered, InOrder
  <2> QED
    BY <2>1, <2>2
<1>2. x \in Nat /\ x <= Total /\ ~(x > Total) /\ x \in ToSet(Original(f))
  <2>1. x \in Nat /\ ~(x > Total)
    BY <1>1
  <2> QED
    BY <1>1, <2>1
<1> HIDE DEF x
<1>3. \A g \in 1..Len(program) : (\E m \in 1..Len(r.body[g]) : r.body[g][m] = x) <=> g = f
  <2> TAKE g \in 1..Len(program)
  <2>1. ASSUME NEW m \in 1..Len(r.body[g]), r.body[g][m] = x, g # f PROVE FALSE
    <3>1. x \in ToSet(Original(g))
      BY <1>1, <1>2, <2>1
    <3> QED
      BY <1>2, <2>1, <3>1, OriginalSets
  <2> QED
    BY <2>1 DEF x
<1>4. FuncOf(r, x) = f
  BY <1>1, <1>3 DEF FuncOf
<1>5. \A m \in 1..Len(r.body[f]) : r.body[f][m] = x <=> m = n
  <2> SUFFICES ASSUME NEW m \in 1..Len(r.body[f]), r.body[f][m] = x PROVE m = n
    BY DEF x
  <2> DEFINE b == r.body[f]
  <2>1. InOrder(b, ToSet(Original(f)) \ r.freed) /\ Len(b) \in Nat
    BY <1>1 DEF Ordered
  <2>2. m \in 1..Len(b) /\ n \in 1..Len(b) /\ b[m] = x /\ b[n] = x
    BY DEF x
  <2> HIDE DEF b
  <2>3. ~(m < n) /\ ~(n < m)
    BY <1>2, <2>1, <2>2 DEF InOrder
  <2> QED
    BY <2>1, <2>2, <2>3
<1>6. PosOf(r, x) = n
  BY <1>4, <1>5 DEF PosOf
<1> QED
  BY <1>4, <1>6 DEF x

\* One that was not erased is there.
LEMMA LivePlace ==
  ASSUME program \in Programs, NEW r, Ordered(r), NEW f \in 1..Len(program),
         NEW x \in ToSet(Original(f)), x \notin r.freed
  PROVE  /\ FuncOf(r, x) = f
         /\ PosOf(r, x) \in 1..Len(r.body[f]) /\ r.body[f][PosOf(r, x)] = x
         /\ x \in 1..Total
<1>1. x \in 1..Total /\ Total \in Nat
  BY OriginalSets
<1>2. PICK n \in 1..Len(r.body[f]) : r.body[f][n] = x
  BY DEF Ordered, InOrder
<1> QED
  BY <1>1, <1>2, PlaceIs

\* A fault changes nothing in the module.
LEMMA FaultOrdered ==
  ASSUME NEW r, Ordered(r), NEW kind
  PROVE  Leads(r, [r EXCEPT !.fault = kind], {})
<1> DEFINE s == [r EXCEPT !.fault = kind]
<1>1. s = [body |-> r.body, op |-> r.op, freed |-> r.freed, fault |-> kind]
  BY DEF Ordered, IsIR
<1> HIDE DEF s
<1>2. IsIR(s) /\ s.body = r.body /\ s.op = r.op /\ s.freed = r.freed
  BY <1>1 DEF IsIR
<1>3. Len(r.op) <= Len(s.op)
  BY <1>2 DEF Ordered
<1> QED
  BY <1>2, <1>3 DEF Ordered, Leads, s

\* An operation that does nothing.
LEMMA LeadsNowhere == ASSUME NEW r, Ordered(r), NEW gone PROVE Leads(r, r, gone)
<1>1. Len(r.op) <= Len(r.op)
  BY DEF Ordered
<1> QED
  BY <1>1 DEF Leads

\* Two operations after one another.
LEMMA LeadsOn ==
  ASSUME NEW r, NEW s, NEW t, NEW gone, NEW more, Ordered(r), Leads(r, s, gone), Leads(s, t, more)
  PROVE  Leads(r, t, gone \union more)
<1>1. Len(r.op) \in Nat /\ Len(s.op) \in Nat /\ Len(t.op) \in Nat
  <2>1. Ordered(s) /\ Ordered(t)
    BY DEF Leads
  <2>2. r.op \in Seq(Operation) /\ s.op \in Seq(Operation) /\ t.op \in Seq(Operation)
    BY <2>1 DEF Ordered
  <2> QED
    BY <2>2
<1>2. Len(r.op) <= Len(t.op)
  BY <1>1 DEF Leads
<1> QED
  BY <1>2 DEF Leads

\* A guarded operation: it may have faulted and done nothing.
LEMMA GuardedLeads ==
  ASSUME NEW r, Ordered(r), NEW bad, NEW kind, NEW good, NEW gone,
         r.fault = "none" /\ ~bad => Leads(r, good, gone)
  PROVE  Leads(r, Guarded(r, bad, kind, good), gone)
<1>1. Leads(r, r, gone)
  BY LeadsNowhere
<1>2. Leads(r, [r EXCEPT !.fault = kind], gone)
  BY FaultOrdered DEF Leads
<1> QED
  BY <1>1, <1>2 DEF Guarded

\* One body is changed, and what is erased was in it.
LEMMA BodyLeads ==
  ASSUME program \in Programs, NEW r, Ordered(r), NEW f \in 1..Len(program), NEW b, NEW gone,
         NEW s, s = [body |-> [r.body EXCEPT ![f] = b], op |-> r.op,
                     freed |-> r.freed \union gone, fault |-> r.fault],
         gone \subseteq ToSet(Original(f)),
         InOrder(b, (ToSet(Original(f)) \ r.freed) \ gone)
  PROVE  Leads(r, s, gone)
<1>1. /\ s.body = [r.body EXCEPT ![f] = b] /\ s.op = r.op /\ s.freed = r.freed \union gone
      /\ IsIR(s)
  BY DEF IsIR
<1>2. r.body \in Seq(Seq(Nat)) /\ Len(r.body) = Len(program) /\ b \in Seq(Nat)
  BY DEF Ordered, InOrder
<1>3. s.body \in Seq(Seq(Nat)) /\ Len(s.body) = Len(program)
  BY <1>1, <1>2
<1>4. ASSUME NEW g \in 1..Len(program)
      PROVE  InOrder(s.body[g], ToSet(Original(g)) \ s.freed)
  <2>1. CASE g = f
    <3>1. s.body[g] = b /\ ToSet(Original(g)) \ s.freed = (ToSet(Original(f)) \ r.freed) \ gone
      BY <1>1, <1>2, <2>1
    <3> QED
      BY <3>1
  <2>2. CASE g # f
    <3>1. s.body[g] = r.body[g]
      BY <1>1, <1>2, <2>2
    <3>2. ToSet(Original(g)) \cap ToSet(Original(f)) = {}
      BY <2>2, OriginalSets
    <3>3. ToSet(Original(g)) \ s.freed = ToSet(Original(g)) \ r.freed
      BY <1>1, <3>2
    <3> QED
      BY <3>1, <3>3 DEF Ordered
  <2> QED
    BY <2>1, <2>2
<1>5. r.op \in Seq(Operation) /\ Total <= Len(r.op) /\ Len(r.op) <= Len(r.op)
  BY DEF Ordered
<1>6. Ordered(s)
  BY <1>1, <1>3, <1>4, <1>5 DEF Ordered
<1> QED
  BY <1>1, <1>5, <1>6 DEF Leads

\* What a replacement changes.
Replaced(r, s, f, x, new) ==
  /\ s.body = [r.body EXCEPT ![f] = ReplaceAt(r.body[f], PosOf(r, x), new)]
  /\ s.op = r.op /\ s.freed = r.freed \union {x} /\ s.fault = "none"

\* ReplaceInstWithInst.
LEMMA ReplaceLeads ==
  ASSUME program \in Programs, NEW r, Ordered(r), NEW f \in 1..Len(program),
         NEW x \in ToSet(Original(f)), NEW new \in Nat, new > Total
  PROVE  /\ Leads(r, ReplaceInst(r, x, new), {x})
         /\ r.fault = "none" /\ x \notin r.freed => Replaced(r, ReplaceInst(r, x, new), f, x, new)
<1> DEFINE p      == PosOf(r, x)
           bodies == [r.body EXCEPT ![f] = ReplaceAt(r.body[f], p, new)]
           good   == [r EXCEPT !.body[FuncOf(r, x)] = ReplaceAt(@, p, new), !.freed = r.freed \union {x}]
<1>1. ReplaceInst(r, x, new) = Guarded(r, x \in r.freed, "dangling", good)
  BY DEF ReplaceInst
<1>2. ASSUME r.fault = "none", x \notin r.freed
      PROVE  /\ good = [body |-> bodies, op |-> r.op, freed |-> r.freed \union {x}, fault |-> r.fault]
             /\ Leads(r, good, {x})
  <2>1. FuncOf(r, x) = f /\ p \in 1..Len(r.body[f]) /\ r.body[f][p] = x /\ x \in 1..Total
    BY <1>2, LivePlace
  <2>2. r = [body |-> r.body, op |-> r.op, freed |-> r.freed, fault |-> r.fault]
    BY DEF Ordered, IsIR
  <2> HIDE DEF p
  <2>3. good = [body |-> bodies, op |-> r.op, freed |-> r.freed \union {x}, fault |-> r.fault]
    <3> DEFINE half == [r EXCEPT !.body = bodies]
    <3>1. half = [body |-> bodies, op |-> r.op, freed |-> r.freed, fault |-> r.fault]
      BY <2>2
    <3>2. good = [half EXCEPT !.freed = r.freed \union {x}]
      BY <2>1
    <3> HIDE DEF half, bodies, good
    <3> QED
      BY <3>1, <3>2
  <2>4. InOrder(ReplaceAt(r.body[f], p, new), (ToSet(Original(f)) \ r.freed) \ {x})
    <3>1. /\ InOrder(r.body[f], ToSet(Original(f)) \ r.freed) /\ Total \in Nat
          /\ ToSet(Original(f)) \subseteq 1..Total
      BY OriginalSets DEF Ordered
    <3>2. ToSet(Original(f)) \ r.freed \in SUBSET (1..Total) /\ r.body[f][p] <= Total
      BY <2>1, <3>1
    <3> QED
      BY <2>1, <3>1, <3>2, ReplaceInOrder
  <2> HIDE DEF good
  <2>5. Leads(r, good, {x})
    BY <2>3, <2>4, BodyLeads
  <2> QED
    BY <2>3, <2>5
<1>3. r.fault = "none" /\ x \notin r.freed => Replaced(r, good, f, x, new)
  BY <1>2 DEF Replaced
<1> HIDE DEF good
<1>4. Leads(r, Guarded(r, x \in r.freed, "dangling", good), {x})
  BY <1>2, GuardedLeads
<1> QED
  BY <1>1, <1>3, <1>4 DEF Guarded

\* eraseFromParent.
LEMMA EraseLeads ==
  ASSUME program \in Programs, NEW r, Ordered(r), NEW f \in 1..Len(program),
         NEW x \in ToSet(Original(f))
  PROVE  /\ Leads(r, EraseInst(r, x), {x})
         /\ r.fault = "none" /\ x \notin r.freed =>
              /\ EraseInst(r, x).body = [r.body EXCEPT ![f] = RemoveAt(r.body[f], PosOf(r, x))]
              /\ EraseInst(r, x).op = r.op
              /\ EraseInst(r, x).freed = r.freed \union {x}
              /\ EraseInst(r, x).fault = "none"
<1> DEFINE p      == PosOf(r, x)
           bodies == [r.body EXCEPT ![f] = RemoveAt(r.body[f], p)]
           good   == [r EXCEPT !.body[FuncOf(r, x)] = RemoveAt(@, p), !.freed = r.freed \union {x}]
<1>1. EraseInst(r, x) = Guarded(r, x \in r.freed, "dangling", good)
  BY DEF EraseInst
<1>2. ASSUME r.fault = "none", x \notin r.freed
      PROVE  /\ good = [body |-> bodies, op |-> r.op, freed |-> r.freed \union {x}, fault |-> r.fault]
             /\ Leads(r, good, {x})
  <2>1. FuncOf(r, x) = f /\ p \in 1..Len(r.body[f]) /\ r.body[f][p] = x /\ x \in 1..Total
    BY <1>2, LivePlace
  <2>2. r = [body |-> r.body, op |-> r.op, freed |-> r.freed, fault |-> r.fault]
    BY DEF Ordered, IsIR
  <2> HIDE DEF p
  <2>3. good = [body |-> bodies, op |-> r.op, freed |-> r.freed \union {x}, fault |-> r.fault]
    <3> DEFINE half == [r EXCEPT !.body = bodies]
    <3>1. half = [body |-> bodies, op |-> r.op, freed |-> r.freed, fault |-> r.fault]
      BY <2>2
    <3>2. good = [half EXCEPT !.freed = r.freed \union {x}]
      BY <2>1
    <3> HIDE DEF half, bodies, good
    <3> QED
      BY <3>1, <3>2
  <2>4. InOrder(RemoveAt(r.body[f], p), (ToSet(Original(f)) \ r.freed) \ {x})
    <3>1. /\ InOrder(r.body[f], ToSet(Original(f)) \ r.freed) /\ Total \in Nat
          /\ ToSet(Original(f)) \subseteq 1..Total
      BY OriginalSets DEF Ordered
    <3>2. ToSet(Original(f)) \ r.freed \in SUBSET (1..Total) /\ r.body[f][p] <= Total
      BY <2>1, <3>1
    <3> QED
      BY <2>1, <3>1, <3>2, RemoveInOrder
  <2> HIDE DEF good
  <2>5. Leads(r, good, {x})
    BY <2>3, <2>4, BodyLeads
  <2> QED
    BY <2>3, <2>5
<1> HIDE DEF good
<1>3. Leads(r, Guarded(r, x \in r.freed, "dangling", good), {x})
  BY <1>2, GuardedLeads
<1> QED
  BY <1>1, <1>2, <1>3 DEF Guarded

\* An insertion of a new instruction.
LEMMA InsertLeads ==
  ASSUME program \in Programs, NEW r, Ordered(r), NEW f \in 1..Len(program), NEW p \in Nat \ {0},
         NEW new \in Nat, new > Total
  PROVE  /\ Leads(r, InsertBefore(r, f, p, new), {})
         /\ r.fault = "none" /\ p <= Len(r.body[f]) =>
              /\ InsertBefore(r, f, p, new).body = [r.body EXCEPT ![f] = InsertAt(r.body[f], p, new)]
              /\ InsertBefore(r, f, p, new).op = r.op
              /\ InsertBefore(r, f, p, new).freed = r.freed
              /\ InsertBefore(r, f, p, new).fault = "none"
<1> DEFINE bodies == [r.body EXCEPT ![f] = InsertAt(r.body[f], p, new)]
           good   == [r EXCEPT !.body[f] = InsertAt(@, p, new)]
           tooFar == p > Len(r.body[f])
<1>1. InsertBefore(r, f, p, new) = Guarded(r, tooFar, "end", good)
  BY DEF InsertBefore
<1>2. r = [body |-> r.body, op |-> r.op, freed |-> r.freed, fault |-> r.fault]
  BY DEF Ordered, IsIR
<1>3. good = [body |-> bodies, op |-> r.op, freed |-> r.freed \union {}, fault |-> r.fault]
  <2>1. good = [r EXCEPT !.body = bodies]
    OBVIOUS
  <2> HIDE DEF good, bodies
  <2> QED
    BY <1>2, <2>1
<1>4. Len(r.body[f]) \in Nat
  BY DEF Ordered, InOrder
<1>5. ~tooFar <=> p <= Len(r.body[f])
  BY <1>4
<1>6. ASSUME ~tooFar PROVE Leads(r, good, {})
  <2>1. /\ InOrder(r.body[f], ToSet(Original(f)) \ r.freed) /\ Total \in Nat
        /\ ToSet(Original(f)) \ r.freed \in SUBSET (1..Total)
    BY OriginalSets DEF Ordered
  <2>2. p \in 1..(Len(r.body[f]) + 1)
    BY <1>4, <1>5, <1>6
  <2>3. InOrder(InsertAt(r.body[f], p, new), (ToSet(Original(f)) \ r.freed) \ {})
    BY <2>1, <2>2, InsertInOrder
  <2> HIDE DEF good
  <2> QED
    BY <1>3, <2>3, BodyLeads
<1> HIDE DEF good, tooFar
<1>7. Leads(r, Guarded(r, tooFar, "end", good), {})
  BY <1>6, GuardedLeads
<1> QED
  BY <1>1, <1>3, <1>5, <1>7 DEF Guarded

\* CallInst::Create: the copies come behind all other instructions.
LEMMA CopiesLead ==
  ASSUME program \in Programs, NEW r, Ordered(r), NEW insts \in Seq(1..Total)
  PROVE  /\ Leads(r, CreateCopies(r, insts), {})
         /\ CreateCopies(r, insts).body = r.body /\ CreateCopies(r, insts).freed = r.freed
         /\ r.fault = "none" /\ ToSet(insts) \cap r.freed = {} =>
              /\ CreateCopies(r, insts).fault = "none"
              /\ Len(CreateCopies(r, insts).op) = Len(r.op) + Len(insts)
              /\ \A n \in 1..Len(r.op) : CreateCopies(r, insts).op[n] = r.op[n]
              /\ \A n \in 1..Len(insts) :
                   CreateCopies(r, insts).op[Len(r.op) + n] = r.op[insts[n]]
<1> DEFINE more   == [n \in 1..Len(insts) |-> r.op[insts[n]]]
           all    == r.op \o more
           good   == [r EXCEPT !.op = @ \o more]
           erased == ToSet(insts) \cap r.freed # {}
<1>1. CreateCopies(r, insts) = Guarded(r, erased, "dangling", good)
  BY DEF CreateCopies
<1>0. r = [body |-> r.body, op |-> r.op, freed |-> r.freed, fault |-> r.fault]
  BY DEF Ordered, IsIR
<1>2. r.op \in Seq(Operation) /\ Total <= Len(r.op) /\ Total \in Nat
  BY OriginalSets DEF Ordered
<1>3. Len(insts) \in Nat /\ \A n \in 1..Len(insts) : r.op[insts[n]] \in Operation
  BY <1>2
<1>4. more \in Seq(Operation) /\ Len(more) = Len(insts)
  <2>1. more \in [1..Len(insts) -> Operation]
    BY <1>3
  <2> QED
    BY <1>3, <2>1, AsSeq
<1>5. \A n \in 1..Len(insts) : more[n] = r.op[insts[n]]
  OBVIOUS
<1> HIDE DEF more
<1>6. /\ all \in Seq(Operation) /\ Len(all) = Len(r.op) + Len(insts)
      /\ \A n \in 1..Len(r.op) : all[n] = r.op[n]
      /\ \A n \in 1..Len(insts) : all[Len(r.op) + n] = more[n]
  <2> DEFINE ops == r.op
  <2>1. /\ all \in Seq(Operation) /\ Len(all) = Len(ops) + Len(more)
        /\ \A k \in 1..(Len(ops) + Len(more)) :
             all[k] = IF k <= Len(ops) THEN ops[k] ELSE more[k - Len(ops)]
    <3>1. ops \in Seq(Operation) /\ more \in Seq(Operation) /\ all = ops \o more
      BY <1>2, <1>4
    <3> HIDE DEF all, ops
    <3> QED
      BY <3>1, ConcatProperties
  <2>2. Len(ops) \in Nat /\ Len(insts) \in Nat /\ Len(more) = Len(insts)
    BY <1>2, <1>3, <1>4
  <2> HIDE DEF all, ops
  <2>3. ASSUME NEW n \in 1..Len(insts) PROVE all[Len(ops) + n] = more[n]
    <3>1. /\ Len(ops) + n \in 1..(Len(ops) + Len(more))
          /\ ~(Len(ops) + n <= Len(ops)) /\ (Len(ops) + n) - Len(ops) = n
      BY <2>2
    <3> QED
      BY <2>1, <3>1
  <2>4. \A n \in 1..Len(ops) : all[n] = ops[n]
    BY <2>1, <2>2
  <2> QED
    BY <2>1, <2>2, <2>3, <2>4 DEF ops
<1>7. good = [body |-> r.body, op |-> all, freed |-> r.freed, fault |-> r.fault]
  <2>1. good = [r EXCEPT !.op = all]
    OBVIOUS
  <2> HIDE DEF good, all
  <2> QED
    BY <1>0, <2>1
<1> HIDE DEF all, good
<1>8. Leads(r, good, {})
  <2>1. /\ IsIR(good) /\ good.body = r.body /\ good.op = all /\ good.freed = r.freed
    BY <1>7 DEF IsIR
  <2>2. Len(r.op) <= Len(all) /\ Total <= Len(all)
    BY <1>2, <1>3, <1>6
  <2> QED
    BY <1>6, <2>1, <2>2 DEF Ordered, Leads
<1> HIDE DEF erased
<1>9. Leads(r, Guarded(r, erased, "dangling", good), {})
  BY <1>8, GuardedLeads
<1>10. [r EXCEPT !.fault = "dangling"].body = r.body /\ [r EXCEPT !.fault = "dangling"].freed = r.freed
  BY <1>0
<1>11. Guarded(r, erased, "dangling", good).body = r.body /\ Guarded(r, erased, "dangling", good).freed = r.freed
  BY <1>7, <1>10 DEF Guarded
<1>12. r.fault = "none" /\ ~erased => Guarded(r, erased, "dangling", good) = good
  BY DEF Guarded
<1>13. ToSet(insts) \cap r.freed = {} <=> ~erased
  BY DEF erased
<1> QED
  BY <1>1, <1>5, <1>6, <1>7, <1>9, <1>11, <1>12, <1>13

-----------------------------------------------------------------------------
(* The pairs that were found *)

LEMMA KeptElements ==
  ASSUME NEW E, NEW seq \in Seq(E), NEW S, NEW n \in 1..Len(Kept(seq, S))
  PROVE  Kept(seq, S)[n] \in S /\ \E m \in 1..Len(seq) : Kept(seq, S)[n] = seq[m]
<1> DEFINE kept == Kept(seq, S)
           size == Len(kept)
<1>1. Picks(kept, size, seq, Len(seq), S)
  BY KeptFacts
<1> HIDE DEF kept
<1>2. n \in 1..size
  BY DEF kept
<1> HIDE DEF size
<1>3. PICK at \in [1..size -> 1..Len(seq)] :
        /\ \A a \in 1..size : kept[a] = seq[at[a]]
        /\ \A m \in 1..Len(seq) : seq[m] \in S <=> \E a \in 1..size : at[a] = m
  BY <1>1 DEF Picks
<1>4. at[n] \in 1..Len(seq) /\ kept[n] = seq[at[n]] /\ seq[at[n]] \in S
  BY <1>2, <1>3
<1> QED
  BY <1>4 DEF kept

\* Both calls of a pair are of one function, the lock call first.
IsPairOf(pair, f) ==
  /\ pair.lockCall \in ToSet(Original(f)) /\ pair.unlockCall \in ToSet(Original(f))
  /\ pair.lockCall < pair.unlockCall

\* Both calls of a pair are calls of the function, the lock before the unlock.
LEMMA PairsOfFacts ==
  ASSUME NEW calls \in Seq(Nat), Increasing(calls), NEW op
  PROVE  /\ Len(PairsOf(calls, op)) \in Nat
         /\ \A n \in 1..Len(PairsOf(calls, op)) :
              /\ PairsOf(calls, op)[n].lockCall \in ToSet(calls)
              /\ PairsOf(calls, op)[n].unlockCall \in ToSet(calls)
              /\ PairsOf(calls, op)[n].lockCall < PairsOf(calls, op)[n].unlockCall
<1> DEFINE size   == Len(calls)
           square == size * size
           all    == Places(size)
           E      == {all[m] : m \in 1..square}
           both   == (1..size) \X (1..size)
           S      == {p \in both : IsPair(calls, op, p[1], p[2])}
           places == Kept(all, S)
           pairs  == [m \in 1..Len(places) |->
                        [lockCall |-> calls[places[m][1]], unlockCall |-> calls[places[m][2]]]]
<1>1. PairsOf(calls, op) = pairs
  BY DEF PairsOf
<1>2. size \in Nat /\ square \in Nat /\ DOMAIN calls = 1..size
  OBVIOUS
<1>3. all \in Seq(E)
  <2>1. all \in [1..square -> E]
    BY DEF Places
  <2> HIDE DEF all, E, square
  <2> QED
    BY <1>2, <2>1, AsSeq
<1> HIDE DEF all, E, S, square
<1>4. Len(places) \in Nat /\ \A m \in 1..Len(places) : places[m] \in S
  BY <1>3, KeptFacts, KeptElements
<1> HIDE DEF places
<1>10. Len(PairsOf(calls, op)) = Len(places)
  BY <1>1, <1>4
<1> SUFFICES ASSUME NEW n \in 1..Len(places)
             PROVE  /\ PairsOf(calls, op)[n].lockCall \in ToSet(calls)
                    /\ PairsOf(calls, op)[n].unlockCall \in ToSet(calls)
                    /\ PairsOf(calls, op)[n].lockCall < PairsOf(calls, op)[n].unlockCall
  BY <1>4, <1>10
<1>5. n \in 1..Len(places)
  OBVIOUS
<1>6. /\ places[n][1] \in 1..size /\ places[n][2] \in 1..size
      /\ places[n][1] < places[n][2]
  BY <1>4, <1>5 DEF S, IsPair
<1>7. calls[places[n][1]] < calls[places[n][2]]
  BY <1>6 DEF Increasing
<1>8. pairs[n] = [lockCall |-> calls[places[n][1]], unlockCall |-> calls[places[n][2]]]
  BY <1>5
<1> HIDE DEF pairs
<1>9. calls[places[n][1]] \in ToSet(calls) /\ calls[places[n][2]] \in ToSet(calls)
  BY <1>2, <1>6 DEF ToSet
<1> QED
  BY <1>1, <1>7, <1>8, <1>9

\* What the pairs of one function are made of.
IsPairsOf(pairs, f, op) ==
  \E c \in Seq(Nat) :
    Increasing(c) /\ ToSet(c) \subseteq ToSet(Original(f)) /\ pairs = PairsOf(c, op)

\* Every vector of pairs belongs to one function of the module.
LEMMA FuncPairsFacts ==
  ASSUME program \in Programs, NEW op
  PROVE  /\ Len(FuncPairs(Numbered(program), op)) \in Nat
         /\ \A k \in 1..Len(FuncPairs(Numbered(program), op)) :
              \E f \in 1..Len(program) : IsPairsOf(FuncPairs(Numbered(program), op)[k], f, op)
<1> DEFINE body  == Numbered(program)
           found == [f \in 1..Len(body) |-> MutexCalls(body[f], op)]
           calls == Kept(found, ToSet(found) \ {<<>>})
<1>1. /\ Len(body) = Len(program) /\ Len(body) \in Nat
      /\ \A f \in 1..Len(program) : body[f] = Original(f)
  BY OriginalSets, LoadedFacts DEF Original
<1>2. ASSUME NEW f \in 1..Len(program)
      PROVE  /\ MutexCalls(body[f], op) \in Seq(Nat) /\ Increasing(MutexCalls(body[f], op))
             /\ ToSet(MutexCalls(body[f], op)) \subseteq ToSet(Original(f))
  <2> DEFINE S == {inst \in ToSet(body[f]) : IsMutexCall(op[inst])}
  <2>1. body[f] \in Seq(Nat) /\ Increasing(body[f])
    BY <1>1, OriginalSets
  <2>2. MutexCalls(body[f], op) = Kept(body[f], S)
    BY DEF MutexCalls
  <2> HIDE DEF S, body
  <2>3. /\ Kept(body[f], S) \in Seq(Nat) /\ Increasing(Kept(body[f], S))
        /\ ToSet(Kept(body[f], S)) = ToSet(body[f]) \cap S
    BY <2>1, KeptIncreasing DEF Increasing
  <2> QED
    BY <1>1, <2>2, <2>3
<1>3. FuncPairs(body, op) = [m \in 1..Len(calls) |-> PairsOf(calls[m], op)]
  BY DEF FuncPairs
<1> HIDE DEF body
<1>4. found \in Seq(Seq(Nat)) /\ Len(found) = Len(program)
  <2>1. found \in [1..Len(body) -> Seq(Nat)]
    BY <1>1, <1>2
  <2> HIDE DEF found
  <2> QED
    BY <1>1, <2>1, AsSeq
<1>5. \A f \in 1..Len(program) : found[f] = MutexCalls(body[f], op)
  BY <1>1
<1> HIDE DEF found
<1>6. Len(calls) \in Nat /\ \A m \in 1..Len(calls) : \E f \in 1..Len(found) : calls[m] = found[f]
  <2> DEFINE E == Seq(Nat)
             S == ToSet(found) \ {<<>>}
  <2>1. found \in Seq(E)
    BY <1>4
  <2>4. calls = Kept(found, S)
    OBVIOUS
  <2> HIDE DEF E, S, calls
  <2>2. Kept(found, S) \in Seq(E)
    BY <2>1, KeptFacts
  <2>3. \A m \in 1..Len(Kept(found, S)) : \E f \in 1..Len(found) : Kept(found, S)[m] = found[f]
    BY <2>1, KeptElements
  <2> QED
    BY <2>2, <2>3, <2>4
<1> HIDE DEF calls
<1>7. Len(FuncPairs(body, op)) = Len(calls)
  BY <1>3, <1>6
<1>8. ASSUME NEW k \in 1..Len(calls)
      PROVE  \E f \in 1..Len(program) : IsPairsOf(FuncPairs(body, op)[k], f, op)
  <2>1. FuncPairs(body, op)[k] = PairsOf(calls[k], op)
    BY <1>3
  <2>2. PICK f \in 1..Len(program) : calls[k] = MutexCalls(body[f], op)
    BY <1>4, <1>5, <1>6
  <2>3. calls[k] \in Seq(Nat) /\ Increasing(calls[k]) /\ ToSet(calls[k]) \subseteq ToSet(Original(f))
    BY <1>2, <2>2
  <2> QED
    BY <2>1, <2>3 DEF IsPairsOf
<1> QED
  BY <1>6, <1>7, <1>8 DEF body

\* The calls the positions name are instructions of the module that was read.
Visited ==
  /\ program \in Programs
  /\ pc # "visit" => funcPairs = FuncPairs(Numbered(program), FlattenSeq(program))

\* What getPair answers: the calls of a pair of one function.
LEMMA PairAtFacts ==
  ASSUME Visited, pc # "visit", cmd \in Commands, NEW n \in 0..(Len(cmd.pos) - 2), HasPair(n)
  PROVE  \E f \in 1..Len(program) : IsPairOf(PairAt(n), f)
<1> DEFINE a == cmd.pos[n + 1]
           b == cmd.pos[(n + 1) + 1]
<1>1. cmd.pos \in Seq(UIntRange) /\ IntMax \in Nat
  BY CommandAssumption, IntMaxAssumption
<1>2. n \in Nat /\ n + 1 \in 1..Len(cmd.pos) /\ (n + 1) + 1 \in 1..Len(cmd.pos)
  BY <1>1
<1>3. a \in Nat /\ b \in Nat
  <2>1. a \in UIntRange /\ b \in UIntRange
    BY <1>1, <1>2
  <2> QED
    BY <1>1, <2>1 DEF UIntRange
<1>4. a < Len(funcPairs) /\ b < Len(funcPairs[a + 1]) /\ PairAt(n) = funcPairs[a + 1][b + 1]
  BY DEF HasPair, PairAt, At
<1> HIDE DEF a, b
<1>5. funcPairs = FuncPairs(Numbered(program), FlattenSeq(program)) /\ program \in Programs
  BY DEF Visited
<1> DEFINE op == FlattenSeq(program)
<1>6. /\ Len(funcPairs) \in Nat
      /\ \A k \in 1..Len(funcPairs) : \E f \in 1..Len(program) : IsPairsOf(funcPairs[k], f, op)
  BY <1>5, FuncPairsFacts
<1> HIDE DEF op
<1>7. a + 1 \in 1..Len(funcPairs)
  BY <1>3, <1>4, <1>6
<1>8. PICK f \in 1..Len(program) : IsPairsOf(funcPairs[a + 1], f, op)
  BY <1>6, <1>7
<1>9. PICK c \in Seq(Nat) :
        Increasing(c) /\ ToSet(c) \subseteq ToSet(Original(f)) /\ funcPairs[a + 1] = PairsOf(c, op)
  BY <1>8 DEF IsPairsOf
<1> DEFINE pairs == PairsOf(c, op)
<1>10. /\ Len(pairs) \in Nat
       /\ \A m \in 1..Len(pairs) : /\ pairs[m].lockCall \in ToSet(c) /\ pairs[m].unlockCall \in ToSet(c)
                                   /\ pairs[m].lockCall < pairs[m].unlockCall
  BY <1>9, PairsOfFacts
<1> HIDE DEF pairs
<1>11. b + 1 \in 1..Len(pairs) /\ PairAt(n) = pairs[b + 1]
  BY <1>3, <1>4, <1>9, <1>10 DEF pairs
<1> QED
  BY <1>9, <1>10, <1>11 DEF IsPairOf

-----------------------------------------------------------------------------
(* The mutations of the modes *)

LEMMA NewIsNew ==
  ASSUME program \in Programs, NEW r, Ordered(r), NEW n \in Nat
  PROVE  NewInst(r) + n \in Nat /\ NewInst(r) + n > Total /\ NewInst(r) \in Nat /\ NewInst(r) > Total
<1>1. Len(r.op) \in Nat /\ Total \in Nat /\ Total <= Len(r.op)
  BY OriginalSets DEF Ordered
<1> QED
  BY <1>1 DEF NewInst

\* Looking at an instruction changes nothing.
LEMMA DereferenceLeads ==
  ASSUME NEW r, Ordered(r), NEW S
  PROVE  Leads(r, Dereference(r, S), {})
  BY LeadsNowhere, GuardedLeads DEF Dereference

\* Places counted from an instruction of the module that was read are in its function,
\* or just behind it.
LEMMA RelativeFacts ==
  ASSUME program \in Programs, NEW r, Ordered(r), NEW f \in 1..Len(program),
         NEW base \in ToSet(Original(f)), base \notin r.freed, NEW distance \in Nat
  PROVE  RelativePlace(r, base, distance) \in Nat \ {0}
<1>1. FuncOf(r, base) = f /\ PosOf(r, base) \in 1..Len(r.body[f])
  BY LivePlace
<1>2. Len(r.body[f]) \in Nat
  BY DEF Ordered, InOrder
<1> QED
  BY <1>1, <1>2 DEF RelativePlace

\* An insertion at a distance adds a new instruction and erases none.
LEMMA InsertRelativeLeads ==
  ASSUME program \in Programs, NEW r, Ordered(r), NEW f \in 1..Len(program),
         NEW base \in ToSet(Original(f)), NEW new \in Nat, new > Total, NEW distance \in Nat
  PROVE  Leads(r, InsertInstructionRelative(r, base, new, distance), {})
<1> DEFINE good == InsertBefore(r, FuncOf(r, base), RelativePlace(r, base, distance), new)
<1>1. base \notin r.freed => Leads(r, good, {})
  BY LivePlace, RelativeFacts, InsertLeads
<1> HIDE DEF good
<1>2. Leads(r, Guarded(r, base \in r.freed, "dangling", good), {})
  BY <1>1, GuardedLeads
<1> QED
  BY <1>2 DEF InsertInstructionRelative, good

\* Shifting one call inserts a copy and erases the call.
LEMMA ShiftLeads ==
  ASSUME program \in Programs, NEW r, Ordered(r), NEW f \in 1..Len(program),
         NEW inst \in ToSet(Original(f)), NEW dir \in Int
  PROVE  Leads(r, ShiftCallInst(r, inst, dir), {inst})
<1> DEFINE from   == PosOf(r, inst)
           to     == ShiftPlace(r, inst, dir)
           copied == CreateCopies(r, <<inst>>)
           erased == EraseInst(copied, inst)
           place  == IF to > from THEN to - 1 ELSE to
           put    == InsertBefore(erased, FuncOf(r, inst), place, NewInst(r))
           kept   == Guarded(erased, to = from, "dangling", put)
           moved  == Guarded(r, to > Len(r.body[FuncOf(r, inst)]), "end", kept)
<1>1. inst \in 1..Total /\ <<inst>> \in Seq(1..Total)
  BY OriginalSets
<1>2. Leads(r, copied, {}) /\ Ordered(copied)
  BY <1>1, CopiesLead DEF Leads
<1> HIDE DEF copied
<1>3. Leads(copied, erased, {inst}) /\ Ordered(erased)
  BY <1>2, EraseLeads DEF Leads
<1> HIDE DEF erased
<1>4. Leads(r, erased, {inst})
  BY <1>2, <1>3, LeadsOn DEF Leads
<1>5. ASSUME inst \notin r.freed, dir # 0 PROVE Leads(r, moved, {inst})
  <2>0. Len(r.body[f]) \in Nat
    BY DEF Ordered, InOrder
  <2>1. FuncOf(r, inst) = f /\ from \in 1..Len(r.body[f]) /\ Len(r.body[f]) \in Nat
    BY <1>5, <2>0, LivePlace
  <2>2. to \in Nat \ {0}
    <3>1. CASE dir < 0
      BY <2>1, <3>1 DEF ShiftPlace
    <3>2. CASE ~(dir < 0)
      BY <1>5, <3>2, RelativeFacts DEF ShiftPlace
    <3> QED
      BY <3>1, <3>2
  <2> HIDE DEF to, from
  <2>3. place \in Nat \ {0}
    BY <2>1, <2>2
  <2> HIDE DEF place
  <2>4. NewInst(r) \in Nat /\ NewInst(r) > Total
    BY NewIsNew
  <2>5. Leads(erased, put, {})
    BY <1>3, <2>1, <2>3, <2>4, InsertLeads
  <2> HIDE DEF put
  <2>6. Leads(erased, kept, {})
    BY <1>3, <2>5, GuardedLeads
  <2> HIDE DEF kept
  <2>7. Leads(r, kept, {inst})
    <3>1. Leads(r, kept, {inst} \union {})
      BY <1>4, <2>6, LeadsOn
    <3> QED
      BY <3>1
  <2> QED
    BY <2>7, GuardedLeads
<1> HIDE DEF moved
<1>6. CASE dir = 0
  BY <1>6, LeadsNowhere DEF ShiftCallInst
<1>7. CASE dir # 0
  <2>1. ShiftCallInst(r, inst, dir) = Guarded(r, inst \in r.freed, "dangling", moved)
    BY <1>7 DEF ShiftCallInst, moved, kept, put, place, to, from, erased, copied
  <2>2. Leads(r, Guarded(r, inst \in r.freed, "dangling", moved), {inst})
    BY <1>5, <1>7, GuardedLeads
  <2> QED
    BY <2>1, <2>2
<1> QED
  BY <1>6, <1>7

\* A turn of -shift erases calls of the pair at most.
LEMMA ShiftedLeads ==
  ASSUME program \in Programs, NEW r, Ordered(r), NEW f \in 1..Len(program),
         NEW inst \in ToSet(Original(f)), NEW dir \in Int
  PROVE  Leads(r, Shifted(r, inst, dir), {inst})
  BY ShiftLeads, LeadsNowhere DEF Shifted

\* A turn of -swap replaces the four calls and erases them.
LEMMA SwapLeads ==
  ASSUME program \in Programs, Ordered(ir), NEW f1 \in 1..Len(program), NEW f2 \in 1..Len(program),
         NEW p1, IsPairOf(p1, f1), NEW p2, IsPairOf(p2, f2)
  PROVE  Leads(ir, Swapped(p1, p2), Calls(p1) \union Calls(p2))
<1> DEFINE lock1  == NewInst(ir)
           insts  == <<p1.lockCall, p1.unlockCall, p2.lockCall, p2.unlockCall>>
           copied == CreateCopies(ir, insts)
           one    == ReplaceInst(copied, p1.lockCall, lock1 + 2)
           two    == ReplaceInst(one, p1.unlockCall, lock1 + 3)
           three  == ReplaceInst(two, p2.lockCall, lock1)
           four   == ReplaceInst(three, p2.unlockCall, lock1 + 1)
<1>1. Swapped(p1, p2) = four
  BY DEF Swapped
<1>2. /\ p1.lockCall \in ToSet(Original(f1)) /\ p1.unlockCall \in ToSet(Original(f1))
      /\ p2.lockCall \in ToSet(Original(f2)) /\ p2.unlockCall \in ToSet(Original(f2))
  BY DEF IsPairOf
<1>3. insts \in Seq(1..Total)
  <2>1. {p1.lockCall, p1.unlockCall, p2.lockCall, p2.unlockCall} \subseteq 1..Total
    BY <1>2, OriginalSets
  <2> QED
    BY <2>1
<1>4. /\ lock1 \in Nat /\ lock1 + 1 \in Nat /\ lock1 + 2 \in Nat /\ lock1 + 3 \in Nat
      /\ lock1 > Total /\ lock1 + 1 > Total /\ lock1 + 2 > Total /\ lock1 + 3 > Total
  BY NewIsNew
<1> HIDE DEF lock1, insts
<1>5. Leads(ir, copied, {}) /\ Ordered(copied)
  BY <1>3, CopiesLead DEF Leads
<1> HIDE DEF copied
<1>6. Leads(copied, one, {p1.lockCall}) /\ Ordered(one)
  <2>1. Leads(copied, one, {p1.lockCall})
    BY <1>2, <1>4, <1>5, ReplaceLeads
  <2> QED
    BY <2>1 DEF Leads
<1> HIDE DEF one
<1>7. Leads(one, two, {p1.unlockCall}) /\ Ordered(two)
  <2>1. Leads(one, two, {p1.unlockCall})
    BY <1>2, <1>4, <1>6, ReplaceLeads
  <2> QED
    BY <2>1 DEF Leads
<1> HIDE DEF two
<1>8. Leads(two, three, {p2.lockCall}) /\ Ordered(three)
  <2>1. Leads(two, three, {p2.lockCall})
    BY <1>2, <1>4, <1>7, ReplaceLeads
  <2> QED
    BY <2>1 DEF Leads
<1> HIDE DEF three
<1>9. Leads(three, four, {p2.unlockCall})
  BY <1>2, <1>4, <1>8, ReplaceLeads
<1> HIDE DEF four
<1>10. Leads(ir, one, {} \union {p1.lockCall})
  BY <1>5, <1>6, LeadsOn
<1>11. Leads(ir, two, ({} \union {p1.lockCall}) \union {p1.unlockCall})
  BY <1>10, <1>7, LeadsOn
<1>12. Leads(ir, three, (({} \union {p1.lockCall}) \union {p1.unlockCall}) \union {p2.lockCall})
  BY <1>11, <1>8, LeadsOn
<1>13. Leads(ir, four, ((({} \union {p1.lockCall}) \union {p1.unlockCall}) \union {p2.lockCall}) \union {p2.unlockCall})
  BY <1>12, <1>9, LeadsOn
<1>14. ((({} \union {p1.lockCall}) \union {p1.unlockCall}) \union {p2.lockCall}) \union {p2.unlockCall}
         = Calls(p1) \union Calls(p2)
  BY DEF Calls
<1> QED
  BY <1>1, <1>13, <1>14

\* The places of a split are numbers.
LEMMA SplitPositions ==
  ASSUME cmd \in Commands, i \in Nat, i + 1 < Len(cmd.splitpos)
  PROVE  /\ UnlockPos \in Int /\ LockPos \in Int
         /\ ToUnsigned(UnlockPos) \in Nat /\ ToUnsigned(LockPos) \in Nat
         /\ ToUnsigned(LockPos + 1) \in Nat
         /\ (\A n \in 1..Len(cmd.splitpos) : cmd.splitpos[n] <= IntMax) =>
              /\ UnlockPos \in Nat /\ ToUnsigned(UnlockPos) = UnlockPos
              /\ LockPos \in Nat /\ ToUnsigned(LockPos) = LockPos
              /\ ToUnsigned(LockPos + 1) = LockPos + 1
<1> DEFINE u == cmd.splitpos[i + 1]
           v == cmd.splitpos[(i + 1) + 1]
<1>1. cmd.splitpos \in Seq(UIntRange) /\ IntMax \in Nat
  BY CommandAssumption, IntMaxAssumption
<1>2. i + 1 \in 1..Len(cmd.splitpos) /\ (i + 1) + 1 \in 1..Len(cmd.splitpos)
  BY <1>1
<1>3. u \in 0..(2 * IntMax + 1) /\ v \in 0..(2 * IntMax + 1)
  BY <1>1, <1>2 DEF UIntRange
<1>4. UnlockPos = ToInt(u) /\ LockPos = ToInt(v)
  BY DEF UnlockPos, LockPos, At
<1>5. (\A n \in 1..Len(cmd.splitpos) : cmd.splitpos[n] <= IntMax) => u <= IntMax /\ v <= IntMax
  BY <1>2
<1> HIDE DEF u, v
<1> QED
  BY <1>1, <1>3, <1>4, <1>5 DEF ToInt, ToUnsigned

\* A turn of -split inserts two new calls and erases nothing.
LEMMA SplitLeads ==
  ASSUME program \in Programs, Ordered(ir), cmd \in Commands, i \in Nat, i + 1 < Len(cmd.splitpos),
         NEW f \in 1..Len(program), NEW pair, IsPairOf(pair, f)
  PROVE  Leads(ir, SplitApart(pair), {})
<1> DEFINE insts    == <<pair.lockCall, pair.unlockCall>>
           copied   == CreateCopies(ir, insts)
           unlocked == InsertInstructionRelative(copied, pair.lockCall, NewInst(ir) + 1,
                                                 ToUnsigned(UnlockPos))
           lockPos  == IF UnlockPos < LockPos THEN LockPos + 1 ELSE LockPos
           locked   == InsertInstructionRelative(unlocked, pair.lockCall, NewInst(ir),
                                                 ToUnsigned(lockPos))
<1>1. SplitApart(pair) = locked
  BY DEF SplitApart
<1>2. pair.lockCall \in ToSet(Original(f)) /\ pair.unlockCall \in ToSet(Original(f))
  BY DEF IsPairOf
<1>3. insts \in Seq(1..Total)
  <2>1. {pair.lockCall, pair.unlockCall} \subseteq 1..Total
    BY <1>2, OriginalSets
  <2> QED
    BY <2>1
<1>4. /\ NewInst(ir) \in Nat /\ NewInst(ir) + 1 \in Nat
      /\ NewInst(ir) > Total /\ NewInst(ir) + 1 > Total
  BY NewIsNew
<1>5. ToUnsigned(UnlockPos) \in Nat /\ ToUnsigned(lockPos) \in Nat
  BY SplitPositions
<1> HIDE DEF insts, lockPos
<1>6. Leads(ir, copied, {}) /\ Ordered(copied)
  BY <1>3, CopiesLead DEF Leads
<1> HIDE DEF copied
<1>7. Leads(copied, unlocked, {}) /\ Ordered(unlocked)
  BY <1>2, <1>4, <1>5, <1>6, InsertRelativeLeads DEF Leads
<1> HIDE DEF unlocked
<1>8. Leads(unlocked, locked, {})
  BY <1>2, <1>4, <1>5, <1>7, InsertRelativeLeads
<1> HIDE DEF locked
<1>9. Leads(ir, locked, ({} \union {}) \union {})
  <2>1. Leads(ir, unlocked, {} \union {})
    BY <1>6, <1>7, LeadsOn
  <2> QED
    BY <1>8, <2>1, LeadsOn
<1> QED
  BY <1>1, <1>9

-----------------------------------------------------------------------------
(* A second inductive invariant: the instructions of the functions *)

\* Whatever the mode, the functions have their instructions in their order, and only
\* calls of named pairs were erased.
OrderInv ==
  /\ Visited
  /\ pc = "visit" => ir = Loaded(program)
  /\ Ordered(ir)
  /\ pc # "visit" => ir.freed \subseteq NamedCalls

\* -rm collects the calls of the named pairs, and erases these.
CollectedCalls == UNION {Calls(PairAt(n)) : n \in {g \in Groups(2) : HasPair(g) /\ g < i}}
NoneNew == \A f \in 1..Len(program) : \A n \in 1..Len(ir.body[f]) : ir.body[f][n] <= Total
ErasedInv ==
  Mode("rm") =>
    /\ NoneNew
    /\ pc \in {"visit", "args"} => mutateInsts = {}
    /\ pc = "loop" => mutateInsts = CollectedCalls
    /\ pc = "erase" => toErase \union ir.freed = NamedCalls
    /\ Ran => ir.freed = NamedCalls
    /\ pc = "erase" \/ Ran => modified = (NamedCalls # {})

\* Nothing that was read changes.
LEMMA SameProgram ==
  ASSUME UNCHANGED program
  PROVE  /\ Ordered(ir)' <=> Ordered(ir')
         /\ Total' = Total
         /\ \A f : Original(f)' = Original(f)
<1>1. Total' = Total
  BY DEF Total
<1>2. \A f : Original(f)' = Original(f)
  BY DEF Original
<1>3. \A b, S : InOrder(b, S)' <=> InOrder(b, S)
  BY <1>1 DEF InOrder
<1> QED
  BY <1>1, <1>2, <1>3 DEF Ordered, InOrder, Original, Total, IsIR

\* The named calls depend on the command line and the pairs only.
LEMMA SameNames ==
  ASSUME UNCHANGED <<cmd, funcPairs>>
  PROVE  NamedCalls' = NamedCalls
<1>1. Groups(2)' = Groups(2) /\ \A n : HasPair(n)' = HasPair(n) /\ PairAt(n)' = PairAt(n)
  BY DEF Groups, HasPair, PairAt, At
<1> QED
  BY <1>1 DEF NamedCalls, Groups, HasPair, PairAt, At, Calls

\* An operation on the module keeps the order and adds to the erased calls what it says.
LEMMA LeadStep ==
  ASSUME OrderInv, pc # "visit", pc' # "visit", UNCHANGED <<cmd, program, funcPairs>>,
         NEW gone, Leads(ir, ir', gone), gone \subseteq NamedCalls
  PROVE  OrderInv'
<1>1. Ordered(ir') /\ ir'.freed \subseteq NamedCalls
  BY DEF OrderInv, Leads
<1>2. Ordered(ir)' /\ NamedCalls' = NamedCalls
  BY <1>1, SameProgram, SameNames
<1>3. Visited'
  BY DEF OrderInv, Visited
<1> QED
  BY <1>1, <1>2, <1>3 DEF OrderInv

\* A pair a loop mutates is one of the named pairs.
LEMMA NamedAt ==
  ASSUME IInv, OrderInv, pc # "visit", NEW n \in Nat, n % 2 = 0, n + 1 < Len(cmd.pos), HasPair(n)
  PROVE  /\ n \in Groups(2)
         /\ Calls(PairAt(n)) \subseteq NamedCalls
         /\ \E f \in 1..Len(program) : IsPairOf(PairAt(n), f)
<1>1. cmd \in Commands /\ Len(cmd.pos) \in Nat
  BY CommandTypes DEF IInv, ArgsInv
<1>2. n \in 0..(Len(cmd.pos) - 2)
  BY <1>1
<1>3. n \in Groups(2)
  BY <1>2 DEF Groups
<1> QED
  BY <1>1, <1>2, <1>3, PairAtFacts DEF NamedCalls, OrderInv

\* The pair at the index of a loop that reads pairs.
LEMMA IndexAt ==
  ASSUME IInv, pc = "loop", i < Len(cmd.pos), Mode("rm") \/ Mode("shift") \/ Mode("split")
  PROVE  /\ i \in Nat /\ i % 2 = 0 /\ i + 1 < Len(cmd.pos)
         /\ NamesPairs(2) <=> HasPair(i)
<1>1. i \in Nat /\ i % 2 = 0 /\ Len(cmd.pos) \in Nat
  BY CommandTypes DEF IInv, ArgsInv
<1>2. ~Overrun(2)
  BY NoOverrun DEF IInv
<1>3. i + 1 < Len(cmd.pos)
  <2>1. i + 2 - 1 < Len(cmd.pos)
    BY <1>2 DEF Overrun, InList
  <2> QED
    BY <1>1, <2>1
<1>4. (\A n \in 0..(2 - 1) : n % 2 = 0 => HasPair(i + n)) <=> HasPair(i)
  <2>1. \A n \in 0..(2 - 1) : n % 2 = 0 <=> n = 0
    OBVIOUS
  <2>2. i + 0 = i /\ 0 \in 0..(2 - 1)
    BY <1>1
  <2> QED
    BY <2>1, <2>2
<1> QED
  BY <1>1, <1>2, <1>3, <1>4 DEF NamesPairs

\* The loaded module.
LEMMA InitOrder == Init => OrderInv /\ ErasedInv
<1> SUFFICES ASSUME Init PROVE OrderInv /\ ErasedInv
  OBVIOUS
<1>1. /\ program \in Programs /\ ir = Loaded(program) /\ pc = "visit" /\ mutateInsts = {}
  BY DEF Init
<1>2. /\ ir = [body |-> Numbered(program), op |-> FlattenSeq(program), freed |-> {}, fault |-> "none"]
      /\ Len(Numbered(program)) = Len(program) /\ Numbered(program) \in Seq(Seq(Nat))
      /\ FlattenSeq(program) \in Seq(Operation) /\ Total \in Nat
  BY <1>1, OriginalSets, LoadedFacts
<1>3. ASSUME NEW f \in 1..Len(program)
      PROVE  /\ InOrder(ir.body[f], ToSet(Original(f)) \ {})
             /\ \A n \in 1..Len(ir.body[f]) : ir.body[f][n] <= Total
  <2> DEFINE b == Original(f)
  <2>1. /\ b \in Seq(Nat) /\ Increasing(b) /\ ToSet(b) \subseteq 1..Total /\ ir.body[f] = b
    BY <1>1, <1>2, OriginalSets DEF Original
  <2> HIDE DEF b
  <2>2. DOMAIN b = 1..Len(b) /\ ToSet(b) = {b[n] : n \in 1..Len(b)}
    BY <2>1 DEF ToSet
  <2>3. \A n \in 1..Len(b) : b[n] \in ToSet(b) /\ b[n] <= Total
    BY <1>2, <2>1, <2>2
  <2>4. InOrder(b, ToSet(b))
    BY <2>1, <2>2, <2>3 DEF InOrder, Increasing
  <2> QED
    BY <2>1, <2>3, <2>4 DEF b
<1>4. IsIR(ir) /\ Total <= Len(ir.op)
  BY <1>2 DEF IsIR, Total
<1>5. Ordered(ir)
  BY <1>2, <1>3, <1>4 DEF Ordered
<1>6. OrderInv
  BY <1>1, <1>5 DEF OrderInv, Visited
<1>7. ErasedInv
  BY <1>1, <1>3 DEF ErasedInv, NoneNew, Ran
<1> QED
  BY <1>6, <1>7

\* The visitor changes nothing.
LEMMA VisitOrder == IInv /\ OrderInv /\ ErasedInv /\ Visit => OrderInv' /\ ErasedInv'
<1> SUFFICES ASSUME IInv, OrderInv, ErasedInv, Visit PROVE OrderInv' /\ ErasedInv'
  OBVIOUS
<1>1. /\ pc = "visit" /\ pc' = "args" /\ UNCHANGED <<cmd, program, ir, mutateInsts>>
      /\ funcPairs' = FuncPairs(ir.body, ir.op)
  BY DEF Visit
<1>2. ir.body = Numbered(program) /\ ir.op = FlattenSeq(program) /\ ir.freed = {}
  BY <1>1 DEF OrderInv, Loaded
<1>3. Ordered(ir)'
  BY <1>1, SameProgram DEF OrderInv
<1>4. OrderInv'
  BY <1>1, <1>2, <1>3 DEF OrderInv, Visited
<1>5. ErasedInv'
  BY <1>1, SameProgram, SameCommand DEF ErasedInv, NoneNew, Ran
<1> QED
  BY <1>4, <1>5

\* Nor does the argument check.
LEMMA CheckArgsOrder ==
  IInv /\ OrderInv /\ ErasedInv /\ CheckCommandLineArgs => OrderInv' /\ ErasedInv'
<1> SUFFICES ASSUME IInv, OrderInv, ErasedInv, CheckCommandLineArgs PROVE OrderInv' /\ ErasedInv'
  OBVIOUS
<1>1. /\ pc = "args" /\ pc' \in {"loop", "exit"}
      /\ UNCHANGED <<cmd, program, ir, funcPairs, mutateInsts, i>>
  BY DEF CheckCommandLineArgs
<1>2. OrderInv'
  BY <1>1, LeadStep, LeadsNowhere DEF OrderInv
<1>3. CollectedCalls' = {}
  <2>1. i' = 0
    BY <1>1 DEF IInv, ArgsInv
  <2> QED
    BY <2>1 DEF CollectedCalls, Groups
<1>4. ErasedInv'
  BY <1>1, <1>3, SameProgram, SameCommand DEF ErasedInv, NoneNew, Ran
<1> QED
  BY <1>2, <1>4

\* -rm collects the calls of the named pairs,
LEMMA CollectOrder ==
  IInv /\ OrderInv /\ ErasedInv /\ (CollectPair \/ SkipCollect) => OrderInv' /\ ErasedInv'
<1> SUFFICES ASSUME IInv, OrderInv, ErasedInv, CollectPair \/ SkipCollect
             PROVE  OrderInv' /\ ErasedInv'
  OBVIOUS
<1>1. pc = "loop" /\ Mode("rm") /\ i < Len(cmd.pos)
  BY DEF CollectPair, SkipCollect, InLoop
<1>2. i \in Nat /\ i % 2 = 0 /\ i + 1 < Len(cmd.pos) /\ (NamesPairs(2) <=> HasPair(i))
  BY <1>1, IndexAt
<1>3. ir.fault = "none" /\ ~Overrun(2)
  BY <1>1, NoOverrun DEF IInv, ArgsInv
<1>4. pc' = pc /\ UNCHANGED <<cmd, program, ir, funcPairs>> /\ i' = i + 2
  BY <1>3 DEF CollectPair, SkipCollect, Skip, Commit, Advance, Faulted
<1>5. OrderInv'
  BY <1>1, <1>4, LeadStep, LeadsNowhere DEF OrderInv
<1>6. \A n \in Groups(2) : n < i + 2 <=> n < i \/ n = i
  BY <1>2 DEF Groups
<1>7. CollectedCalls' = UNION {Calls(PairAt(n)) : n \in {g \in Groups(2) : HasPair(g) /\ g < i + 2}}
  BY <1>4 DEF CollectedCalls, Groups, HasPair, PairAt, At, Calls
<1>8. CollectedCalls' = mutateInsts'
  <2>1. mutateInsts = CollectedCalls
    BY <1>1 DEF ErasedInv
  <2>2. CASE HasPair(i)
    <3>1. i \in Groups(2)
      BY <1>1, <1>2, <2>2, NamedAt
    <3>2. CollectPair
      BY <1>2, <2>2 DEF SkipCollect
    <3>3. mutateInsts' = CollectedCalls \union Calls(PairAt(i))
      BY <2>1, <3>2 DEF CollectPair
    <3>4. {g \in Groups(2) : HasPair(g) /\ g < i + 2} = {g \in Groups(2) : HasPair(g) /\ g < i} \union {i}
      BY <1>6, <2>2, <3>1
    <3> QED
      BY <1>7, <3>3, <3>4 DEF CollectedCalls
  <2>3. CASE ~HasPair(i)
    <3>1. mutateInsts' = mutateInsts
      BY <1>2, <2>3 DEF CollectPair, SkipCollect, Skip
    <3>2. {g \in Groups(2) : HasPair(g) /\ g < i + 2} = {g \in Groups(2) : HasPair(g) /\ g < i}
      BY <1>6, <2>3
    <3> QED
      BY <1>7, <2>1, <3>1, <3>2 DEF CollectedCalls
  <2> QED
    BY <2>2, <2>3
<1>9. ErasedInv'
  BY <1>1, <1>4, <1>8, SameProgram, SameCommand DEF ErasedInv, NoneNew, Ran
<1> QED
  BY <1>5, <1>9

\* makes them the calls to erase,
LEMMA StartErasingOrder ==
  IInv /\ OrderInv /\ ErasedInv /\ StartErasing => OrderInv' /\ ErasedInv'
<1> SUFFICES ASSUME IInv, OrderInv, ErasedInv, StartErasing PROVE OrderInv' /\ ErasedInv'
  OBVIOUS
<1>1. /\ pc = "loop" /\ pc' = "erase" /\ Mode("rm") /\ i >= Len(cmd.pos)
      /\ UNCHANGED <<cmd, program, ir, funcPairs>>
      /\ toErase' = mutateInsts /\ modified' = (mutateInsts # {})
  BY DEF StartErasing
<1>2. OrderInv'
  BY <1>1, LeadStep, LeadsNowhere DEF OrderInv
<1>3. mutateInsts = NamedCalls
  <2>1. i \in Nat /\ Len(cmd.pos) \in Nat
    BY CommandTypes DEF IInv, ArgsInv
  <2>2. \A n \in Groups(2) : n < i
    BY <1>1, <2>1 DEF Groups
  <2>3. CollectedCalls = NamedCalls
    BY <2>2 DEF CollectedCalls, NamedCalls
  <2> QED
    BY <1>1, <2>3 DEF ErasedInv
<1>4. NamedCalls' = NamedCalls /\ ir.freed = {}
  BY <1>1, SameNames DEF IInv, RemoveInv
<1>5. ErasedInv'
  BY <1>1, <1>3, <1>4, SameProgram, SameCommand DEF ErasedInv, NoneNew, Ran
<1> QED
  BY <1>2, <1>5

-----------------------------------------------------------------------------
(* The steps that change the module *)

\* A named call is an instruction that was read.
LEMMA NamedIsOriginal ==
  ASSUME IInv, OrderInv, pc # "visit", NEW inst \in NamedCalls
  PROVE  \E f \in 1..Len(program) : inst \in ToSet(Original(f))
<1>1. PICK n \in Groups(2) : HasPair(n) /\ inst \in Calls(PairAt(n))
  BY DEF NamedCalls
<1>2. n \in 0..(Len(cmd.pos) - 2) /\ cmd \in Commands
  BY DEF Groups, IInv, ArgsInv
<1>3. PICK f \in 1..Len(program) : IsPairOf(PairAt(n), f)
  BY <1>1, <1>2, PairAtFacts DEF OrderInv
<1> QED
  BY <1>1, <1>3 DEF IsPairOf, Calls

\* and erases them one by one.
LEMMA EraseNextOrder ==
  IInv /\ OrderInv /\ ErasedInv /\ EraseNext => OrderInv' /\ ErasedInv'
<1> SUFFICES ASSUME IInv, OrderInv, ErasedInv, EraseNext PROVE OrderInv' /\ ErasedInv'
  OBVIOUS
<1>1. PICK inst \in toErase : ir' = EraseInst(ir, inst) /\ toErase' = toErase \ {inst}
  BY DEF EraseNext
<1>2. /\ pc = "erase" /\ UNCHANGED <<cmd, program, funcPairs, mutateInsts, i, modified>>
      /\ pc' = IF Faulted(ir') THEN "fault" ELSE pc
  BY DEF EraseNext
<1>3. Mode("rm") /\ ir.fault = "none" /\ inst \notin ir.freed
  BY <1>2 DEF IInv, ArgsInv, RemoveInv
<1>4. toErase \union ir.freed = NamedCalls /\ inst \in NamedCalls /\ NoneNew
      /\ modified = (NamedCalls # {})
  BY <1>2, <1>3 DEF ErasedInv
<1>5. PICK f \in 1..Len(program) : inst \in ToSet(Original(f))
  BY <1>2, <1>4, NamedIsOriginal
<1> DEFINE p == PosOf(ir, inst)
           b == ir.body[f]
<1>6. /\ Leads(ir, ir', {inst}) /\ ir'.freed = ir.freed \union {inst} /\ ir'.fault = "none"
      /\ ir'.body = [ir.body EXCEPT ![f] = RemoveAt(b, p)]
  <2>1. program \in Programs /\ Ordered(ir)
    BY DEF OrderInv, Visited
  <2>2. /\ Leads(ir, EraseInst(ir, inst), {inst})
        /\ EraseInst(ir, inst).body = [ir.body EXCEPT ![f] = RemoveAt(ir.body[f], PosOf(ir, inst))]
        /\ EraseInst(ir, inst).freed = ir.freed \union {inst}
        /\ EraseInst(ir, inst).fault = "none"
    BY <1>3, <1>5, <2>1, EraseLeads
  <2> QED
    BY <1>1, <2>2
<1>7. OrderInv'
  BY <1>2, <1>4, <1>6, LeadStep
<1>8. p \in 1..Len(b) /\ b \in Seq(Nat) /\ Len(ir.body) = Len(program) /\ ir.body \in Seq(Seq(Nat))
  BY <1>3, <1>5, LivePlace DEF OrderInv, Visited, Ordered, InOrder
<1>9. ASSUME NEW g \in 1..Len(program), NEW n \in 1..Len(ir'.body[g])
      PROVE  ir'.body[g][n] <= Total
  <2>1. CASE g # f
    <3>1. ir'.body[g] = ir.body[g]
      BY <1>6, <1>8, <2>1
    <3> QED
      BY <1>4, <3>1 DEF NoneNew
  <2>2. CASE g = f
    <3>1. ir'.body[g] = RemoveAt(b, p) /\ \A k \in 1..Len(b) : b[k] <= Total
      BY <1>4, <1>6, <1>8, <2>2 DEF NoneNew
    <3> HIDE DEF b, p
    <3>2. /\ Len(RemoveAt(b, p)) = Len(b) - 1
          /\ \A k \in 1..(p - 1) : RemoveAt(b, p)[k] = b[k]
          /\ \A k \in p..(Len(b) - 1) : RemoveAt(b, p)[k] = b[k + 1]
      BY <1>8, RemoveAtFacts
    <3>3. Len(b) \in Nat /\ p \in Nat /\ n \in 1..(Len(b) - 1)
      BY <1>8, <3>1, <3>2
    <3>4. CASE n < p
      <4>1. n \in 1..(p - 1) /\ n \in 1..Len(b)
        BY <3>3, <3>4
      <4> QED
        BY <3>1, <3>2, <4>1
    <3>5. CASE ~(n < p)
      <4>1. n \in p..(Len(b) - 1) /\ n + 1 \in 1..Len(b)
        BY <3>3, <3>5
      <4> QED
        BY <3>1, <3>2, <4>1
    <3> QED
      BY <3>4, <3>5
  <2> QED
    BY <2>1, <2>2
<1>10. NoneNew'
  BY <1>2, <1>9, SameProgram DEF NoneNew
<1>11. pc' = "erase" /\ NamedCalls' = NamedCalls
  BY <1>2, <1>6, SameNames DEF Faulted
<1>12. (toErase \ {inst}) \union (ir.freed \union {inst}) = NamedCalls
  BY <1>4
<1>13. ErasedInv'
  BY <1>1, <1>2, <1>4, <1>6, <1>10, <1>11, <1>12 DEF ErasedInv, Ran
<1> QED
  BY <1>7, <1>13

\* The steps of the other loops.
LEMMA OtherModes ==
  ASSUME IInv, OrderInv, pc = "loop", ~Mode("rm"), UNCHANGED <<cmd, program, funcPairs>>,
         pc' # "visit", NEW gone, Leads(ir, ir', gone), gone \subseteq NamedCalls
  PROVE  OrderInv' /\ ErasedInv'
  BY LeadStep, SameCommand DEF ErasedInv

\* A turn of -swap.
LEMMA SwapOrder ==
  IInv /\ OrderInv /\ (SwapPairs \/ SkipSameLock \/ SkipSwap) => OrderInv' /\ ErasedInv'
<1> SUFFICES ASSUME IInv, OrderInv, SwapPairs \/ SkipSameLock \/ SkipSwap
             PROVE  OrderInv' /\ ErasedInv'
  OBVIOUS
<1>1. pc = "loop" /\ Mode("swap") /\ i < Len(cmd.pos) /\ ~Mode("rm")
  BY AcceptedLists DEF SwapPairs, SkipSameLock, SkipSwap, InLoop, IInv
<1>2. i \in Nat /\ i % 2 = 0 /\ (i + 2) % 2 = 0 /\ Len(cmd.pos) \in Nat /\ ~Overrun(4)
      /\ ir.fault = "none" /\ program \in Programs /\ Ordered(ir)
  <2>1. i \in Nat /\ i % 2 = 0 /\ Len(cmd.pos) \in Nat
    BY <1>1, CommandTypes DEF IInv, ArgsInv
  <2> QED
    BY <1>1, <2>1, AlignedTwo, NoOverrun DEF IInv, ArgsInv, OrderInv, Visited
<1>3. UNCHANGED <<cmd, program, funcPairs>> /\ pc' # "visit"
  BY <1>1 DEF SwapPairs, SkipSameLock, SkipSwap, Skip, Commit
<1>4. CASE SwapPairs
  <2>1. ir' = Swapped(PairAt(i), PairAt(i + 2)) /\ HasPair(i) /\ HasPair(i + 2) /\ i + 3 < Len(cmd.pos)
    BY <1>2, <1>4, FourPositions DEF SwapPairs, Commit
  <2>2. i + 2 \in Nat /\ i + 1 < Len(cmd.pos) /\ (i + 2) + 1 < Len(cmd.pos)
    BY <1>2, <2>1
  <2>3. PICK f1 \in 1..Len(program) : IsPairOf(PairAt(i), f1)
    BY <1>1, <1>2, <2>1, <2>2, NamedAt
  <2>4. PICK f2 \in 1..Len(program) : IsPairOf(PairAt(i + 2), f2)
    BY <1>1, <1>2, <2>1, <2>2, NamedAt
  <2>5. Calls(PairAt(i)) \union Calls(PairAt(i + 2)) \subseteq NamedCalls
    <3>1. Calls(PairAt(i)) \subseteq NamedCalls
      BY <1>1, <1>2, <2>1, <2>2, NamedAt
    <3>2. Calls(PairAt(i + 2)) \subseteq NamedCalls
      BY <1>1, <1>2, <2>1, <2>2, NamedAt
    <3> QED
      BY <3>1, <3>2
  <2>6. Leads(ir, ir', Calls(PairAt(i)) \union Calls(PairAt(i + 2)))
    BY <1>2, <2>1, <2>3, <2>4, SwapLeads
  <2> QED
    BY <1>1, <1>3, <2>5, <2>6, OtherModes
<1>5. CASE SkipSameLock
  <2>1. Leads(ir, ir', {})
    BY <1>2, <1>5, DereferenceLeads DEF SkipSameLock, Commit
  <2> QED
    BY <1>1, <1>3, <2>1, OtherModes
<1>6. CASE SkipSwap
  <2>1. Leads(ir, ir', {})
    BY <1>2, <1>6, LeadsNowhere DEF SkipSwap, Skip, Commit
  <2> QED
    BY <1>1, <1>3, <2>1, OtherModes
<1> QED
  BY <1>4, <1>5, <1>6

\* A turn of -shift.
LEMMA ShiftOrder ==
  IInv /\ OrderInv /\ (ShiftPair \/ SkipShift) => OrderInv' /\ ErasedInv'
<1> SUFFICES ASSUME IInv, OrderInv, ShiftPair \/ SkipShift PROVE OrderInv' /\ ErasedInv'
  OBVIOUS
<1>1. pc = "loop" /\ Mode("shift") /\ i < Len(cmd.pos) /\ ~Mode("rm")
  BY AcceptedLists DEF ShiftPair, SkipShift, InLoop, IInv
<1>2. i \in Nat /\ i % 2 = 0 /\ i + 1 < Len(cmd.pos) /\ (NamesPairs(2) <=> HasPair(i))
      /\ ~Overrun(2) /\ program \in Programs /\ Ordered(ir) /\ cmd \in Commands
  BY <1>1, IndexAt, NoOverrun DEF IInv, ArgsInv, OrderInv, Visited
<1>3. UNCHANGED <<cmd, program, funcPairs>> /\ pc' # "visit"
  BY <1>1 DEF ShiftPair, SkipShift, Skip, Commit
<1>4. CASE ShiftPair
  <2> DEFINE pair == PairAt(i)
             once == Shifted(ir, pair.lockCall, LockShift)
  <2>1. ir' = Shifted(once, pair.unlockCall, UnlockShift) /\ HasPair(i)
    BY <1>2, <1>4 DEF ShiftPair, Commit
  <2>2. LockShift \in Int /\ UnlockShift \in Int
    <3>1. cmd.lockdir \in Seq(Int) /\ cmd.unlockdir \in Seq(Int)
      BY <1>2, CommandAssumption
    <3>2. i \div 2 \in Nat
      BY <1>2
    <3>3. InList(cmd.lockdir, i \div 2) => (i \div 2) + 1 \in 1..Len(cmd.lockdir)
      BY <3>1, <3>2 DEF InList
    <3>4. InList(cmd.unlockdir, i \div 2) => (i \div 2) + 1 \in 1..Len(cmd.unlockdir)
      BY <3>1, <3>2 DEF InList
    <3> QED
      BY <3>1, <3>3, <3>4 DEF LockShift, UnlockShift, DirAt, At
  <2>3. PICK f \in 1..Len(program) : IsPairOf(pair, f)
    BY <1>1, <1>2, <2>1, NamedAt
  <2>4. pair.lockCall \in ToSet(Original(f)) /\ pair.unlockCall \in ToSet(Original(f))
    BY <2>3 DEF IsPairOf
  <2>5. Calls(pair) \subseteq NamedCalls
    BY <1>1, <1>2, <2>1, NamedAt
  <2> HIDE DEF pair
  <2>6. Leads(ir, once, {pair.lockCall}) /\ Ordered(once)
    BY <1>2, <2>2, <2>4, ShiftedLeads DEF Leads
  <2> HIDE DEF once
  <2>7. Leads(once, ir', {pair.unlockCall})
    BY <1>2, <2>1, <2>2, <2>4, <2>6, ShiftedLeads
  <2>8. Leads(ir, ir', {pair.lockCall} \union {pair.unlockCall})
    BY <1>2, <2>6, <2>7, LeadsOn
  <2>9. {pair.lockCall} \union {pair.unlockCall} \subseteq NamedCalls
    BY <2>5 DEF Calls
  <2> QED
    BY <1>1, <1>3, <2>8, <2>9, OtherModes
<1>5. CASE SkipShift
  <2>1. Leads(ir, ir', {})
    BY <1>2, <1>5, LeadsNowhere DEF SkipShift, Skip, Commit
  <2> QED
    BY <1>1, <1>3, <2>1, OtherModes
<1> QED
  BY <1>4, <1>5

\* A turn of -split.
LEMMA SplitOrder ==
  IInv /\ OrderInv /\ (SplitPair \/ SkipSplit) => OrderInv' /\ ErasedInv'
<1> SUFFICES ASSUME IInv, OrderInv, SplitPair \/ SkipSplit PROVE OrderInv' /\ ErasedInv'
  OBVIOUS
<1>1. pc = "loop" /\ Mode("split") /\ i < Len(cmd.pos) /\ ~Mode("rm")
  BY AcceptedLists DEF SplitPair, SkipSplit, InLoop, IInv
<1>2. i \in Nat /\ i % 2 = 0 /\ i + 1 < Len(cmd.pos) /\ (NamesPairs(2) <=> HasPair(i))
      /\ ~Overrun(2) /\ ~SplitOverrun /\ program \in Programs /\ Ordered(ir) /\ cmd \in Commands
  BY <1>1, IndexAt, NoOverrun DEF IInv, ArgsInv, OrderInv, Visited
<1>3. UNCHANGED <<cmd, program, funcPairs>> /\ pc' # "visit"
  BY <1>1 DEF SplitPair, SkipSplit, Skip, Commit
<1>4. CASE SplitPair
  <2>1. ir' = SplitApart(PairAt(i)) /\ HasPair(i) /\ i + 1 < Len(cmd.splitpos)
    BY <1>2, <1>4 DEF SplitPair, Commit, CanSplit, InList
  <2>2. PICK f \in 1..Len(program) : IsPairOf(PairAt(i), f)
    BY <1>1, <1>2, <2>1, NamedAt
  <2>3. Leads(ir, ir', {})
    BY <1>2, <2>1, <2>2, SplitLeads
  <2> QED
    BY <1>1, <1>3, <2>3, OtherModes
<1>5. CASE SkipSplit
  <2>1. Leads(ir, ir', {})
    BY <1>2, <1>5, LeadsNowhere DEF SkipSplit, Skip, Commit
  <2> QED
    BY <1>1, <1>3, <2>1, OtherModes
<1> QED
  BY <1>4, <1>5

\* The end of a loop.
LEMMA FinishOrder ==
  IInv /\ OrderInv /\ ErasedInv /\ (FinishLoop \/ PrintPairs) => OrderInv' /\ ErasedInv'
<1> SUFFICES ASSUME IInv, OrderInv, ErasedInv, FinishLoop \/ PrintPairs
             PROVE  OrderInv' /\ ErasedInv'
  OBVIOUS
<1>1. CASE FinishLoop
  <2>1. /\ pc' = "ran" /\ UNCHANGED <<cmd, program, ir, funcPairs, modified>>
        /\ \/ pc = "loop" /\ ~Mode("rm")
           \/ pc = "erase" /\ toErase = {}
    BY <1>1 DEF FinishLoop
  <2>2. OrderInv'
    BY <2>1, LeadStep, LeadsNowhere DEF OrderInv
  <2>3. ErasedInv'
    BY <2>1, SameNames, SameProgram, SameCommand DEF ErasedInv, NoneNew, Ran
  <2> QED
    BY <2>2, <2>3
<1>2. CASE PrintPairs
  <2>1. /\ pc = "ran" /\ UNCHANGED <<cmd, program, funcPairs, modified>>
        /\ ir' = IF VerbosePrint THEN Dereference(ir, AllCalls) ELSE ir
        /\ pc' = IF Faulted(ir') THEN "fault" ELSE "done"
    BY <1>2 DEF PrintPairs
  <2>2. Leads(ir, ir', {})
    BY <2>1, LeadsNowhere, DereferenceLeads DEF OrderInv
  <2>3. OrderInv'
    BY <2>1, <2>2, LeadStep
  <2>4. ir'.body = ir.body /\ ir'.freed = ir.freed
    <3>1. ir = [body |-> ir.body, op |-> ir.op, freed |-> ir.freed, fault |-> ir.fault]
      BY DEF OrderInv, Ordered, IsIR
    <3>2. [ir EXCEPT !.fault = "dangling"].body = ir.body /\ [ir EXCEPT !.fault = "dangling"].freed = ir.freed
      BY <3>1
    <3> QED
      BY <2>1, <3>2 DEF Dereference, Guarded
  <2>5. ErasedInv'
    BY <2>1, <2>4, SameNames, SameProgram, SameCommand DEF ErasedInv, NoneNew, Ran
  <2> QED
    BY <2>3, <2>5
<1> QED
  BY <1>1, <1>2

\* A step that changes nothing.
LEMMA StutterOrder == OrderInv /\ ErasedInv /\ UNCHANGED vars => OrderInv' /\ ErasedInv'
<1> SUFFICES ASSUME OrderInv, ErasedInv, UNCHANGED vars PROVE OrderInv' /\ ErasedInv'
  OBVIOUS
<1>1. UNCHANGED <<cmd, program, ir, funcPairs, mutateInsts, toErase, i, modified, pc>>
  BY DEF vars
<1>2. Ordered(ir)' /\ NamedCalls' = NamedCalls
  BY <1>1, SameProgram, SameNames DEF OrderInv
<1>3. CollectedCalls' = CollectedCalls
  BY <1>1 DEF CollectedCalls, Groups, HasPair, PairAt, At, Calls
<1> QED
  BY <1>1, <1>2, <1>3, SameCommand, SameProgram
  DEF OrderInv, Visited, ErasedInv, NoneNew, Ran

\* Every step keeps the invariant.
LEMMA OrderStep == IInv /\ OrderInv /\ ErasedInv /\ [Next]_vars => OrderInv' /\ ErasedInv'
  BY VisitOrder, CheckArgsOrder, CollectOrder, StartErasingOrder, EraseNextOrder, SwapOrder,
     ShiftOrder, SplitOrder, FinishOrder, StutterOrder
  DEF Next, Terminated

\* Whatever is done to the module, the instructions that are left keep their order.
THEOREM OrderIsKept == Spec => [](OrderInv /\ ErasedInv)
  BY InitOrder, OrderStep, Invariance, PTL DEF Spec

-----------------------------------------------------------------------------
(* What is left of a function *)

\* The instructions of a function that were read and are still there.
LEMMA LeftOfFunction ==
  ASSUME program \in Programs, Ordered(ir), NEW f \in 1..Len(program), NEW S \in SUBSET (1..Total),
         S \cap ir.freed = {}
  PROVE  Kept(ir.body[f], S) = Kept(Original(f), S)
<1> DEFINE b == ir.body[f]
           o == Original(f)
<1>1. Total \in Nat /\ o \in Seq(Nat) /\ Increasing(o) /\ ToSet(o) \subseteq 1..Total
  BY OriginalSets
<1>2. InOrder(b, ToSet(o) \ ir.freed)
  BY DEF Ordered
<1> HIDE DEF b, o
<1>3. b \in Seq(Nat)
  BY <1>2 DEF InOrder
<1>4. \A m, n \in 1..Len(b) : m < n /\ b[m] \in S /\ b[n] \in S => b[m] < b[n]
  <2>1. \A x \in S : x <= Total
    <3>1. Total \in Nat /\ \A x \in S : x \in 1..Total
      BY <1>1
    <3> QED
      BY <3>1
  <2> QED
    BY <1>2, <2>1 DEF InOrder
<1>5. \A m, n \in 1..Len(o) : m < n /\ o[m] \in S /\ o[n] \in S => o[m] < o[n]
  BY <1>1 DEF Increasing
<1>6. ToSet(b) \cap S = ToSet(o) \cap S
  <2>1. DOMAIN b = 1..Len(b)
    BY <1>3
  <2>2. ASSUME NEW x \in S PROVE x \in ToSet(b) <=> x \in ToSet(o)
    <3>1. x \in 1..Total /\ x \notin ir.freed /\ ~(x > Total)
      <4>1. Total \in Nat /\ x \in 1..Total /\ x \notin ir.freed
        BY <1>1, <2>2
      <4> QED
        BY <4>1
    <3>2. x \in ToSet(b) <=> \E n \in 1..Len(b) : b[n] = x
      BY <2>1 DEF ToSet
    <3> QED
      BY <1>2, <3>1, <3>2 DEF InOrder
  <2> QED
    BY <2>2
<1>7. /\ Kept(b, S) \in Seq(Nat) /\ Increasing(Kept(b, S)) /\ ToSet(Kept(b, S)) = ToSet(b) \cap S
  BY <1>3, <1>4, KeptIncreasing
<1>8. /\ Kept(o, S) \in Seq(Nat) /\ Increasing(Kept(o, S)) /\ ToSet(Kept(o, S)) = ToSet(o) \cap S
  BY <1>1, <1>5, KeptIncreasing
<1>9. Kept(b, S) = Kept(o, S)
  BY <1>6, <1>7, <1>8, SameElements
<1> QED
  BY <1>9 DEF b, o

\* Whatever the mode, an instruction that belongs to no named pair stays where it is
\* relative to all other such instructions (PosixLock.cpp:139-434).
THEOREM OthersStay == Spec => []OthersUntouched
<1>1. OrderInv => OthersUntouched
  <2> SUFFICES ASSUME OrderInv, pc # "visit", NEW f \in 1..Len(program)
               PROVE  LET others == (1..Len(FlattenSeq(program))) \ NamedCalls
                      IN  Kept(ir.body[f], others) = Kept(Original(f), others)
    BY DEF OthersUntouched
  <2> DEFINE others == (1..Total) \ NamedCalls
  <2>1. others \in SUBSET (1..Total) /\ others \cap ir.freed = {}
    BY DEF OrderInv
  <2> HIDE DEF others
  <2>2. Kept(ir.body[f], others) = Kept(Original(f), others)
    BY <2>1, LeftOfFunction DEF OrderInv, Visited
  <2> QED
    BY <2>2 DEF others, Total
<1> QED
  BY <1>1, OrderIsKept, PTL

\* -rm removes exactly the calls of the pairs that -pos names, and reports a modification
\* iff there was one (PosixLock.cpp:139-179).
THEOREM RemovesExactly == Spec => []RemoveExact
<1>1. OrderInv /\ ErasedInv => RemoveExact
  <2> SUFFICES ASSUME OrderInv, ErasedInv, Mode("rm"), Ran
               PROVE  /\ \A f \in 1..Len(program) :
                           ir.body[f] = Kept(Original(f), ToSet(Original(f)) \ NamedCalls)
                      /\ modified = (NamedCalls # {})
    BY DEF RemoveExact
  <2>1. NoneNew /\ ir.freed = NamedCalls /\ modified = (NamedCalls # {})
    BY DEF ErasedInv
  <2>2. ASSUME NEW f \in 1..Len(program)
        PROVE  ir.body[f] = Kept(Original(f), ToSet(Original(f)) \ NamedCalls)
    <3> DEFINE b == ir.body[f]
               o == Original(f)
               S == ToSet(o) \ NamedCalls
    <3>1. Total \in Nat /\ ToSet(o) \subseteq 1..Total /\ o \in Seq(Nat) /\ Increasing(o)
      BY OriginalSets DEF OrderInv, Visited
    <3>2. InOrder(b, S) /\ \A n \in 1..Len(b) : b[n] <= Total
      BY <2>1 DEF OrderInv, Ordered, NoneNew
    <3> HIDE DEF b, o
    <3>3. /\ b \in Seq(Nat) /\ \A n \in 1..Len(b) : b[n] \in S
          /\ Increasing(b)
      BY <3>1, <3>2 DEF InOrder, Increasing
    <3>4. ToSet(b) = S
      <4>1. DOMAIN b = 1..Len(b)
        BY <3>3
      <4>2. \A x \in S : \E n \in 1..Len(b) : b[n] = x
        BY <3>2 DEF InOrder
      <4> HIDE DEF S
      <4> QED
        BY <3>3, <4>1, <4>2 DEF ToSet
    <3>5. \A m, n \in 1..Len(o) : m < n /\ o[m] \in S /\ o[n] \in S => o[m] < o[n]
      BY <3>1 DEF Increasing
    <3>6. /\ Kept(o, S) \in Seq(Nat) /\ Increasing(Kept(o, S)) /\ ToSet(Kept(o, S)) = ToSet(o) \cap S
      BY <3>1, <3>5, KeptIncreasing
    <3>7. ToSet(o) \cap S = S
      OBVIOUS
    <3> HIDE DEF S
    <3>8. b = Kept(o, S)
      BY <3>3, <3>4, <3>6, <3>7, SameElements
    <3> QED
      BY <3>8 DEF b, o, S
  <2> QED
    BY <2>1, <2>2
<1> QED
  BY <1>1, OrderIsKept, PTL

-----------------------------------------------------------------------------
(* -split: what lies outside the two calls of a pair *)

\* An instruction is at one place of a body.
Holds(b, p, x) ==
  /\ b \in Seq(Nat) /\ p \in 1..Len(b) /\ b[p] = x
  /\ \A m \in 1..Len(b) : b[m] = x => m = p

\* What Behind returns for a body that holds the instruction once.
LEMMA BehindFacts ==
  ASSUME NEW b, NEW p, NEW x, Holds(b, p, x)
  PROVE  /\ Behind(b, x) \in Seq(Nat) /\ Len(Behind(b, x)) = Len(b) - p
         /\ \A k \in 1..(Len(b) - p) : Behind(b, x)[k] = b[p + k]
<1>1. b \in Seq(Nat) /\ p \in 1..Len(b) /\ Len(b) \in Nat
  BY DEF Holds
<1>2. (CHOOSE n \in 1..Len(b) : b[n] = x) = p
  BY DEF Holds
<1>3. Behind(b, x) = SubSeq(b, p + 1, Len(b))
  BY <1>2 DEF Behind, PlaceIn
<1>4. p + 1 \in Int /\ Len(b) \in Int /\ \A k \in (p + 1)..Len(b) : b[k] \in Nat
  BY <1>1
<1> DEFINE s    == SubSeq(b, p + 1, Len(b))
           size == Len(b)
<1>5. /\ s \in Seq(Nat) /\ Len(s) = IF p + 1 <= size THEN size - (p + 1) + 1 ELSE 0
      /\ \A k \in 1..(size - (p + 1) + 1) : s[k] = b[(p + 1) + k - 1]
  BY <1>4, SubSeqProperties
<1> HIDE DEF s
<1>6. size \in Nat /\ p \in 1..size
  BY <1>1
<1> HIDE DEF size
<1>7. Len(s) = size - p
  BY <1>5, <1>6
<1>8. \A k \in 1..(size - p) : k \in 1..(size - (p + 1) + 1) /\ (p + 1) + k - 1 = p + k
  BY <1>6
<1>9. \A k \in 1..(size - p) : s[k] = b[p + k]
  BY <1>5, <1>8
<1> QED
  BY <1>3, <1>5, <1>7, <1>9 DEF s, size

\* An insertion before it.
LEMMA BehindInsert ==
  ASSUME NEW b, NEW p, NEW x, Holds(b, p, x), NEW q \in 1..p, NEW new \in Nat, new # x
  PROVE  /\ Holds(InsertAt(b, q, new), p + 1, x)
         /\ Behind(InsertAt(b, q, new), x) = Behind(b, x)
<1> DEFINE t == InsertAt(b, q, new)
           size == Len(b)
<1>1. b \in Seq(Nat) /\ size \in Nat /\ p \in 1..size /\ q \in 1..(size + 1)
  BY DEF Holds
<1>2. Widens(b, q, new, t)
  BY <1>1, InsertAtFacts
<1> HIDE DEF t
<1>3. /\ t \in Seq(Nat) /\ Len(t) = size + 1
      /\ \A k \in 1..(q - 1) : t[k] = b[k]
      /\ t[q] = new
      /\ \A k \in q..size : t[k + 1] = b[k]
  BY <1>2 DEF Widens
<1>4. b[p] = x /\ \A m \in 1..size : b[m] = x => m = p
  BY DEF Holds
<1> HIDE DEF size
<1>5. p + 1 \in 1..(size + 1) /\ t[p + 1] = x
  BY <1>1, <1>3, <1>4
<1>6. ASSUME NEW m \in 1..(size + 1), t[m] = x PROVE m = p + 1
  <2>1. CASE m < q
    <3>1. m \in 1..(q - 1) /\ m \in 1..size /\ m # p
      BY <1>1, <2>1
    <3> QED
      BY <1>3, <1>4, <1>6, <3>1
  <2>2. CASE m = q
    BY <1>3, <1>6, <2>2
  <2>3. CASE m > q
    <3>1. m - 1 \in q..size /\ m - 1 \in 1..size /\ (m - 1) + 1 = m
      BY <1>1, <2>3
    <3>2. b[m - 1] = x
      BY <1>3, <1>6, <3>1
    <3>3. m - 1 = p
      BY <1>4, <3>1, <3>2
    <3> QED
      BY <3>1, <3>3
  <2> QED
    BY <1>1, <2>1, <2>2, <2>3
<1>7. Holds(t, p + 1, x)
  BY <1>3, <1>5, <1>6 DEF Holds
<1>8. /\ Behind(b, x) \in Seq(Nat) /\ Len(Behind(b, x)) = size - p
      /\ \A k \in 1..(size - p) : Behind(b, x)[k] = b[p + k]
  BY BehindFacts DEF size
<1>9. /\ Behind(t, x) \in Seq(Nat) /\ Len(Behind(t, x)) = size - p
      /\ \A k \in 1..(size - p) : Behind(t, x)[k] = t[(p + 1) + k]
  <2>1. /\ Behind(t, x) \in Seq(Nat) /\ Len(Behind(t, x)) = Len(t) - (p + 1)
        /\ \A k \in 1..(Len(t) - (p + 1)) : Behind(t, x)[k] = t[(p + 1) + k]
    BY <1>7, BehindFacts
  <2>2. Len(t) - (p + 1) = size - p
    BY <1>1, <1>3
  <2> QED
    BY <2>1, <2>2
<1>10. ASSUME NEW k \in 1..(size - p) PROVE t[(p + 1) + k] = b[p + k]
  <2>1. p + k \in q..size /\ (p + k) + 1 = (p + 1) + k
    BY <1>1
  <2> QED
    BY <1>3, <2>1
<1> DEFINE s == Behind(b, x)
           u == Behind(t, x)
<1>11. \A k \in 1..Len(s) : s[k] = u[k]
  BY <1>8, <1>9, <1>10
<1>12. s \in Seq(Nat) /\ u \in Seq(Nat) /\ Len(s) = Len(u)
  BY <1>8, <1>9
<1> HIDE DEF s, u
<1>13. s = u
  BY <1>11, <1>12, SeqEqual
<1> QED
  BY <1>7, <1>13 DEF t, s, u

\* What Ahead returns for it.
LEMMA AheadFacts ==
  ASSUME NEW b, NEW p, NEW x, Holds(b, p, x)
  PROVE  /\ Ahead(b, x) \in Seq(Nat) /\ Len(Ahead(b, x)) = p - 1
         /\ \A k \in 1..(p - 1) : Ahead(b, x)[k] = b[k]
<1>1. b \in Seq(Nat) /\ p \in 1..Len(b) /\ Len(b) \in Nat
  BY DEF Holds
<1>2. (CHOOSE n \in 1..Len(b) : b[n] = x) = p
  BY DEF Holds
<1>3. Ahead(b, x) = SubSeq(b, 1, p - 1)
  BY <1>2 DEF Ahead, PlaceIn
<1>4. p - 1 \in Int /\ \A k \in 1..(p - 1) : b[k] \in Nat
  BY <1>1
<1> DEFINE s    == SubSeq(b, 1, p - 1)
           last == p - 1
<1>5. /\ s \in Seq(Nat) /\ Len(s) = IF 1 <= last THEN last - 1 + 1 ELSE 0
      /\ \A k \in 1..(last - 1 + 1) : s[k] = b[1 + k - 1]
  BY <1>4, SubSeqProperties
<1> HIDE DEF s
<1>6. last \in Nat
  BY <1>1
<1> HIDE DEF last
<1>7. Len(s) = last
  BY <1>5, <1>6
<1>8. \A k \in 1..last : k \in 1..(last - 1 + 1) /\ 1 + k - 1 = k
  BY <1>6
<1>9. \A k \in 1..last : s[k] = b[k]
  BY <1>5, <1>8
<1> QED
  BY <1>3, <1>5, <1>7, <1>9 DEF s, last

\* An insertion after it.
LEMMA AheadInsert ==
  ASSUME NEW b, NEW p, NEW x, Holds(b, p, x), NEW q \in Nat, p < q, q <= Len(b) + 1,
         NEW new \in Nat, new # x
  PROVE  /\ Holds(InsertAt(b, q, new), p, x)
         /\ Ahead(InsertAt(b, q, new), x) = Ahead(b, x)
<1> DEFINE t == InsertAt(b, q, new)
           size == Len(b)
<1>1. b \in Seq(Nat) /\ size \in Nat /\ p \in 1..size /\ q \in 1..(size + 1)
  BY DEF Holds
<1>2. Widens(b, q, new, t)
  BY <1>1, InsertAtFacts
<1> HIDE DEF t
<1>3. /\ t \in Seq(Nat) /\ Len(t) = size + 1
      /\ \A k \in 1..(q - 1) : t[k] = b[k]
      /\ t[q] = new
      /\ \A k \in q..size : t[k + 1] = b[k]
  BY <1>2 DEF Widens
<1>4. b[p] = x /\ \A m \in 1..size : b[m] = x => m = p
  BY DEF Holds
<1> HIDE DEF size
<1>5. p \in 1..(size + 1) /\ p \in 1..(q - 1) /\ t[p] = x
  BY <1>1, <1>3, <1>4
<1>6. ASSUME NEW m \in 1..(size + 1), t[m] = x PROVE m = p
  <2>1. CASE m < q
    <3>1. m \in 1..(q - 1) /\ m \in 1..size
      BY <1>1, <2>1
    <3> QED
      BY <1>3, <1>4, <1>6, <3>1
  <2>2. CASE m = q
    BY <1>3, <1>6, <2>2
  <2>3. CASE m > q
    <3>1. m - 1 \in q..size /\ m - 1 \in 1..size /\ (m - 1) + 1 = m
      BY <1>1, <2>3
    <3>2. b[m - 1] = x
      BY <1>3, <1>6, <3>1
    <3>3. m - 1 = p
      BY <1>4, <3>1, <3>2
    <3> QED
      BY <1>1, <3>1, <3>3
  <2> QED
    BY <1>1, <2>1, <2>2, <2>3
<1>7. Holds(t, p, x)
  BY <1>3, <1>5, <1>6 DEF Holds
<1> DEFINE s == Ahead(b, x)
           u == Ahead(t, x)
<1>8. /\ s \in Seq(Nat) /\ Len(s) = p - 1
      /\ \A k \in 1..(p - 1) : s[k] = b[k]
  BY AheadFacts
<1>9. /\ u \in Seq(Nat) /\ Len(u) = p - 1
      /\ \A k \in 1..(p - 1) : u[k] = t[k]
  BY <1>7, AheadFacts
<1> HIDE DEF s, u
<1>10. \A k \in 1..(p - 1) : t[k] = b[k]
  BY <1>1, <1>3
<1>11. \A k \in 1..Len(s) : s[k] = u[k]
  BY <1>8, <1>9, <1>10
<1>12. s = u
  BY <1>8, <1>9, <1>11, SeqEqual
<1> QED
  BY <1>7, <1>12 DEF t, s, u

\* An instruction that was read and not erased is held where it is found.
LEMMA HeldWhere ==
  ASSUME program \in Programs, NEW r, Ordered(r), NEW f \in 1..Len(program),
         NEW x \in ToSet(Original(f)), x \notin r.freed
  PROVE  Holds(r.body[f], PosOf(r, x), x)
<1> DEFINE b == r.body[f]
<1>1. /\ PosOf(r, x) \in 1..Len(b) /\ b[PosOf(r, x)] = x /\ x \in 1..Total /\ Total \in Nat
  BY LivePlace, OriginalSets
<1>2. InOrder(b, ToSet(Original(f)) \ r.freed)
  BY DEF Ordered
<1> HIDE DEF b
<1>3. b \in Seq(Nat)
  BY <1>2 DEF InOrder
<1>4. ASSUME NEW m \in 1..Len(b), b[m] = x PROVE m = PosOf(r, x)
  <2> DEFINE p == PosOf(r, x)
  <2>1. Len(b) \in Nat /\ x <= Total /\ x \in Nat
    BY <1>1, <1>3
  <2>2. p \in 1..Len(b) /\ b[p] = x /\ b[m] = x /\ ~(x < x)
    BY <1>1, <1>4, <2>1
  <2> HIDE DEF p
  <2>3. \A j, k \in 1..Len(b) : j < k /\ b[j] <= Total /\ b[k] <= Total => b[j] < b[k]
    BY <1>2 DEF InOrder
  <2>4. ~(m < p) /\ ~(p < m)
    BY <2>1, <2>2, <2>3
  <2>5. m = p
    BY <2>1, <2>2, <2>4
  <2> QED
    BY <2>5 DEF p
<1> QED
  BY <1>1, <1>3, <1>4 DEF Holds, b

\* The first place of an instruction in a body is where it is found.
LEMMA HeldOnce ==
  ASSUME NEW b, NEW p, NEW q, NEW x, Holds(b, p, x), Holds(b, q, x)
  PROVE  p = q
  BY DEF Holds

\* An insertion of a new instruction between two that were read.
InsertsInside(r, s, f, base, last, distance) ==
  /\ Ordered(s) /\ s.fault = "none" /\ s.freed = r.freed
  /\ PosOf(s, last) = PosOf(r, last) + 1
  /\ PosOf(s, base) = IF distance = 0 THEN PosOf(r, base) + 1 ELSE PosOf(r, base)
  /\ Behind(s.body[f], last) = Behind(r.body[f], last)
  /\ distance # 0 => Ahead(s.body[f], base) = Ahead(r.body[f], base)

\* An insertion between two instructions leaves what lies outside.
LEMMA InsertInside ==
  ASSUME program \in Programs, NEW r, Ordered(r), r.fault = "none", NEW f \in 1..Len(program),
         NEW base \in ToSet(Original(f)), base \notin r.freed,
         NEW last \in ToSet(Original(f)), last \notin r.freed,
         NEW new \in Nat, new > Total, NEW distance \in Nat,
         PosOf(r, base) + distance <= PosOf(r, last)
  PROVE  InsertsInside(r, InsertInstructionRelative(r, base, new, distance), f, base, last, distance)
<1> DEFINE s == InsertInstructionRelative(r, base, new, distance)
           b == r.body[f]
           n == PosOf(r, base)
           p == PosOf(r, last)
           q == n + distance
<1>1. /\ FuncOf(r, base) = f /\ Holds(b, n, base) /\ Holds(b, p, last)
      /\ base \in 1..Total /\ last \in 1..Total /\ Total \in Nat
  BY LivePlace, HeldWhere, OriginalSets
<1>2. b \in Seq(Nat) /\ Len(b) \in Nat /\ n \in 1..Len(b) /\ p \in 1..Len(b)
  BY <1>1 DEF Holds
<1>3. q \in 1..p /\ q <= Len(b) /\ q \in Nat \ {0} /\ ~(q > Len(b) + 1)
  <2>1. q <= p
    OBVIOUS
  <2> HIDE DEF b, n, p
  <2> QED
    BY <1>2, <2>1
<1>4. RelativePlace(r, base, distance) = q
  BY <1>1, <1>3 DEF RelativePlace
<1>5. s = InsertBefore(r, f, q, new)
  BY <1>1, <1>4 DEF InsertInstructionRelative, Guarded
<1>6. /\ Leads(r, s, {})
      /\ s.body = [r.body EXCEPT ![f] = InsertAt(b, q, new)]
      /\ s.freed = r.freed /\ s.fault = "none"
  <2> HIDE DEF q, s
  <2>1. /\ Leads(r, InsertBefore(r, f, q, new), {})
        /\ InsertBefore(r, f, q, new).body = [r.body EXCEPT ![f] = InsertAt(r.body[f], q, new)]
        /\ InsertBefore(r, f, q, new).freed = r.freed
        /\ InsertBefore(r, f, q, new).fault = "none"
    BY <1>3, InsertLeads
  <2> QED
    BY <1>5, <2>1
<1>7. Ordered(s) /\ s.body[f] = InsertAt(b, q, new)
  <2>1. r.body \in Seq(Seq(Nat)) /\ Len(r.body) = Len(program)
    BY DEF Ordered
  <2> HIDE DEF s, b, q
  <2> QED
    BY <1>6, <2>1 DEF Leads
<1> HIDE DEF s
<1>8. Holds(s.body[f], PosOf(s, base), base) /\ Holds(s.body[f], PosOf(s, last), last)
  BY <1>6, <1>7, HeldWhere
<1>9. new # base /\ new # last
  BY <1>1
<1>10. Holds(InsertAt(b, q, new), p + 1, last) /\ Behind(InsertAt(b, q, new), last) = Behind(b, last)
  <2> HIDE DEF b, p, q
  <2> QED
    BY <1>1, <1>3, <1>9, BehindInsert
<1>11. PosOf(s, last) = p + 1
  BY <1>7, <1>8, <1>10, HeldOnce
<1>12. ASSUME distance # 0 PROVE Ahead(InsertAt(b, q, new), base) = Ahead(b, base)
  <2>1. n < q /\ q <= Len(b) + 1 /\ q \in Nat
    BY <1>2, <1>3, <1>12
  <2> HIDE DEF b, n, q
  <2> QED
    BY <1>1, <1>9, <2>1, AheadInsert
<1>13. PosOf(s, base) = IF distance = 0 THEN n + 1 ELSE n
  <2>1. CASE distance = 0
    <3>1. q = n
      BY <1>2, <2>1
    <3>2. q \in 1..n
      BY <1>2, <3>1
    <3> HIDE DEF b, n, p, q
    <3>3. Holds(InsertAt(b, q, new), n + 1, base)
      BY <1>1, <1>9, <3>2, BehindInsert
    <3> QED
      BY <1>7, <1>8, <2>1, <3>3, HeldOnce
  <2>2. CASE distance # 0
    <3>1. n \in 1..(q - 1)
      BY <1>2, <2>2
    <3> HIDE DEF b, n, p, q
    <3>2. Widens(b, q, new, InsertAt(b, q, new))
      <4>1. q \in 1..(Len(b) + 1)
        BY <1>2, <1>3
      <4> QED
        BY <1>2, <4>1, InsertAtFacts
    <3>3. InsertAt(b, q, new)[n] = base
      BY <1>1, <3>1, <3>2 DEF Widens, Holds
    <3>4. n \in 1..Len(s.body[f])
      <4>1. Len(s.body[f]) = Len(b) + 1
        BY <1>7, <3>2 DEF Widens
      <4> QED
        BY <1>2, <4>1
    <3>5. n = PosOf(s, base)
      BY <1>7, <1>8, <3>3, <3>4 DEF Holds
    <3> QED
      BY <2>2, <3>5
  <2> QED
    BY <2>1, <2>2
<1> QED
  BY <1>6, <1>7, <1>10, <1>11, <1>13, <1>12 DEF InsertsInside, s

\* The lock call of a pair comes before its unlock call as long as both are there.
LEMMA LockFirst ==
  ASSUME program \in Programs, NEW r, Ordered(r), NEW f \in 1..Len(program),
         NEW pair, IsPairOf(pair, f), Calls(pair) \cap r.freed = {}
  PROVE  /\ PosOf(r, pair.lockCall) \in Nat /\ PosOf(r, pair.unlockCall) \in Nat
         /\ PosOf(r, pair.lockCall) < PosOf(r, pair.unlockCall)
<1> DEFINE b    == r.body[f]
           low  == pair.lockCall
           high == pair.unlockCall
           n    == PosOf(r, low)
           p    == PosOf(r, high)
<1>1. low \in ToSet(Original(f)) /\ high \in ToSet(Original(f)) /\ low < high
  BY DEF IsPairOf
<1>2. low \notin r.freed /\ high \notin r.freed
  BY DEF Calls
<1>3. low \in 1..Total /\ high \in 1..Total /\ Total \in Nat
  BY <1>1, OriginalSets
<1> HIDE DEF low, high
<1>4. Holds(b, n, low) /\ Holds(b, p, high)
  BY <1>1, <1>2, HeldWhere
<1>5. InOrder(b, ToSet(Original(f)) \ r.freed)
  BY DEF Ordered
<1> HIDE DEF b, n, p
<1>6. n \in 1..Len(b) /\ p \in 1..Len(b) /\ Len(b) \in Nat /\ b[n] = low /\ b[p] = high
  BY <1>4 DEF Holds
<1>7. \A j, k \in 1..Len(b) : j < k /\ b[j] <= Total /\ b[k] <= Total => b[j] < b[k]
  BY <1>5 DEF InOrder
<1>8. low \in Nat /\ high \in Nat /\ low <= Total /\ high <= Total
  BY <1>3
<1>9. ~(p < n) /\ p # n
  BY <1>1, <1>6, <1>7, <1>8
<1>10. n \in Nat /\ p \in Nat /\ n < p
  BY <1>6, <1>9
<1> QED
  BY <1>10 DEF low, high, n, p

\* Both insertions of -split are made between the two calls of the pair.
LEMMA SplitInside ==
  ASSUME program \in Programs, Ordered(ir), ir.fault = "none", ir.freed = {},
         cmd \in Commands, i \in Nat, i + 1 < Len(cmd.splitpos), SmallPositions,
         NEW f \in 1..Len(program), NEW pair, IsPairOf(pair, f), SplitFits(pair)
  PROVE  /\ SplitApart(pair).fault = "none" /\ SplitApart(pair).freed = {}
         /\ Behind(SplitApart(pair).body[f], pair.unlockCall) = Behind(ir.body[f], pair.unlockCall)
         /\ UnlockPos # 0 /\ LockPos # 0 =>
              Ahead(SplitApart(pair).body[f], pair.lockCall) = Ahead(ir.body[f], pair.lockCall)
<1> DEFINE low      == pair.lockCall
           high     == pair.unlockCall
           insts    == <<low, high>>
           copied   == CreateCopies(ir, insts)
           unlocked == InsertInstructionRelative(copied, low, NewInst(ir) + 1, ToUnsigned(UnlockPos))
           lockPos  == IF UnlockPos < LockPos THEN LockPos + 1 ELSE LockPos
           locked   == InsertInstructionRelative(unlocked, low, NewInst(ir), ToUnsigned(lockPos))
           n        == PosOf(ir, low)
           p        == PosOf(ir, high)
<1>1. SplitApart(pair) = locked
  BY DEF SplitApart
<1>2. /\ low \in ToSet(Original(f)) /\ high \in ToSet(Original(f))
      /\ low \in 1..Total /\ high \in 1..Total
  BY OriginalSets DEF IsPairOf
<1>3. insts \in Seq(1..Total) /\ ToSet(insts) \cap ir.freed = {}
  BY <1>2
<1>4. /\ NewInst(ir) \in Nat /\ NewInst(ir) + 1 \in Nat
      /\ NewInst(ir) > Total /\ NewInst(ir) + 1 > Total
  BY NewIsNew
<1>5. /\ UnlockPos \in Nat /\ ToUnsigned(UnlockPos) = UnlockPos
      /\ LockPos \in Nat /\ ToUnsigned(lockPos) = lockPos
  BY SplitPositions DEF SmallPositions
<1>6. n \in Nat /\ p \in Nat /\ n < p
  BY LockFirst
<1>7. UnlockPos < p - n /\ LockPos < p - n
  BY <1>6 DEF SplitFits, DistanceBetween
<1> HIDE DEF insts, lockPos
<1>8. /\ Ordered(copied) /\ copied.fault = "none" /\ copied.freed = {} /\ copied.body = ir.body
  BY <1>3, CopiesLead DEF Leads
<1> HIDE DEF copied
<1>9. PosOf(copied, low) = n /\ PosOf(copied, high) = p
  BY <1>8 DEF PosOf, FuncOf
<1> HIDE DEF n, p, low, high
<1>10. InsertsInside(copied, unlocked, f, low, high, UnlockPos)
  <2>1. n + UnlockPos <= p
    BY <1>5, <1>6, <1>7
  <2>2. low \notin copied.freed /\ high \notin copied.freed
    BY <1>8
  <2>3. PosOf(copied, low) + UnlockPos <= PosOf(copied, high)
    BY <1>9, <2>1
  <2> QED
    BY <1>2, <1>4, <1>5, <1>8, <2>2, <2>3, InsertInside
<1> HIDE DEF unlocked
<1>11. InsertsInside(unlocked, locked, f, low, high, lockPos)
  <2>1. /\ Ordered(unlocked) /\ unlocked.fault = "none" /\ unlocked.freed = {}
        /\ PosOf(unlocked, high) = p + 1
        /\ PosOf(unlocked, low) = IF UnlockPos = 0 THEN n + 1 ELSE n
    BY <1>8, <1>9, <1>10 DEF InsertsInside
  <2>2. /\ lockPos \in Nat
        /\ (IF UnlockPos = 0 THEN n + 1 ELSE n) + lockPos <= p + 1
    BY <1>5, <1>6, <1>7 DEF lockPos
  <2>3. PosOf(unlocked, low) + lockPos <= PosOf(unlocked, high)
    BY <2>1, <2>2
  <2>4. low \notin unlocked.freed /\ high \notin unlocked.freed
    BY <2>1
  <2> QED
    BY <1>2, <1>4, <1>5, <2>1, <2>2, <2>3, <2>4, InsertInside
<1> HIDE DEF locked
<1>12. locked.fault = "none" /\ locked.freed = {}
       /\ Behind(locked.body[f], high) = Behind(ir.body[f], high)
  BY <1>8, <1>10, <1>11 DEF InsertsInside
<1>13. ASSUME UnlockPos # 0, LockPos # 0
       PROVE  Ahead(locked.body[f], low) = Ahead(ir.body[f], low)
  <2>1. lockPos # 0
    BY <1>5, <1>13 DEF lockPos
  <2> QED
    BY <1>8, <1>10, <1>11, <1>13, <2>1 DEF InsertsInside
<1> QED
  BY <1>1, <1>12, <1>13 DEF high, low

\* Two calls are named: every pair that is named has these two.
LEMMA OnePairNamed ==
  ASSUME IInv, OrderInv, pc # "visit", Cardinality(NamedCalls) = 2,
         NEW g \in Groups(2), HasPair(g), NEW h \in Groups(2), HasPair(h)
  PROVE  PairAt(g).unlockCall = PairAt(h).unlockCall /\ PairAt(g).lockCall = PairAt(h).lockCall
<1>1. /\ \A n \in Groups(2) : n \in 0..(Len(cmd.pos) - 2) /\ cmd \in Commands
      /\ Visited
  BY DEF Groups, IInv, ArgsInv, OrderInv
<1>2. PICK f \in 1..Len(program) : IsPairOf(PairAt(g), f)
  BY <1>1, PairAtFacts
<1>3. PICK e \in 1..Len(program) : IsPairOf(PairAt(h), e)
  BY <1>1, PairAtFacts
<1> DEFINE a == PairAt(g).lockCall
           b == PairAt(g).unlockCall
           c == PairAt(h).lockCall
           d == PairAt(h).unlockCall
<1>4. IsFiniteSet(NamedCalls)
  <2>1. NamedCalls \subseteq 1..Total
    BY NamedIsOriginal, OriginalSets DEF OrderInv, Visited
  <2>2. IsFiniteSet(1..Total)
    BY OriginalSets, FS_Interval DEF OrderInv, Visited
  <2> QED
    BY <2>1, <2>2, FS_Subset
<1>5. /\ a < b /\ c < d /\ a \in Nat /\ b \in Nat /\ c \in Nat /\ d \in Nat
  <2>1. /\ a < b /\ a \in ToSet(Original(f)) /\ b \in ToSet(Original(f))
        /\ c < d /\ c \in ToSet(Original(e)) /\ d \in ToSet(Original(e))
    BY <1>2, <1>3 DEF IsPairOf
  <2>2. Total \in Nat /\ \A x \in 1..Len(program) : ToSet(Original(x)) \subseteq 1..Total
    BY <1>1, OriginalSets DEF Visited
  <2> HIDE DEF a, b, c, d
  <2>3. a \in 1..Total /\ b \in 1..Total /\ c \in 1..Total /\ d \in 1..Total
    BY <2>1, <2>2
  <2> QED
    BY <2>1, <2>2, <2>3
<1>6. {a, b} \subseteq NamedCalls /\ {c, d} \subseteq NamedCalls
  BY DEF NamedCalls, Calls
<1> HIDE DEF a, b, c, d
<1>7. \A x, y : x # y /\ {x, y} \subseteq NamedCalls => {x, y} = NamedCalls
  <2> TAKE x, y
  <2> HAVE x # y /\ {x, y} \subseteq NamedCalls
  <2>1. IsFiniteSet({x}) /\ Cardinality({x}) = 1
    BY FS_Singleton
  <2>2. Cardinality({x} \union {y}) = 2
    <3>1. y \notin {x}
      OBVIOUS
    <3>2. Cardinality({x} \union {y}) = 1 + 1
      BY <2>1, <3>1, FS_AddElement
    <3> QED
      BY <3>2
  <2>3. {x} \union {y} = {x, y}
    OBVIOUS
  <2> QED
    BY <1>4, <2>2, <2>3, FS_Subset
<1>8. {a, b} = NamedCalls /\ {c, d} = NamedCalls
  BY <1>5, <1>6, <1>7
<1>9. b = d /\ a = c
  <2>0. {a, b} = {c, d}
    BY <1>8
  <2>1. {a, b} = {c, d} /\ a # b /\ c # d
    BY <1>5, <2>0
  <2>2. (b = d /\ a = c) \/ (b = c /\ a = d)
    BY <2>1
  <2> QED
    BY <1>5, <2>2
<1> QED
  BY <1>9 DEF a, b, c, d

\* -split with positions that fit an int goes on without a fault, erases nothing, and
\* leaves what lies behind the one pair it is asked to split, and what lies ahead of it
\* when no position is 0.
KeptBehind ==
  \A g \in Groups(2), f \in 1..Len(program) :
    HasPair(g) /\ IsPairOf(PairAt(g), f) =>
      Behind(ir.body[f], PairAt(g).unlockCall) = Behind(Original(f), PairAt(g).unlockCall)
KeptAhead ==
  \A g \in Groups(2), f \in 1..Len(program) :
    HasPair(g) /\ IsPairOf(PairAt(g), f) =>
      Ahead(ir.body[f], PairAt(g).lockCall) = Ahead(Original(f), PairAt(g).lockCall)
NoZero == \A n \in 1..Len(cmd.splitpos) : cmd.splitpos[n] # 0
StaysInv ==
  Mode("split") /\ pc # "visit" /\ SmallPositions =>
    /\ ir.fault = "none" /\ ir.freed = {}
    /\ Cardinality(NamedCalls) = 2 => KeptBehind /\ (NoZero => KeptAhead)

\* In the loop and behind it there is one mode only.
LEMMA SplitOnly ==
  ASSUME IInv, Looping, Mode("split")
  PROVE  ~Mode("rm") /\ ~Mode("swap") /\ ~Mode("shift")
<1>1. ExactlyOneMode
  BY DEF IInv, ArgsInv, ArgsAccepted
<1>2. \A m1, m2 \in {"rm", "swap", "shift", "split"} : Mode(m1) /\ Mode(m2) => m1 = m2
  BY <1>1 DEF ExactlyOneMode, Modes
<1> QED
  BY <1>2

\* What StaysInv is about depends on the command line and the pairs only.
LEMMA SameWhole ==
  ASSUME UNCHANGED <<cmd, program, funcPairs>>
  PROVE  /\ \A f, g : (HasPair(g) /\ IsPairOf(PairAt(g), f))' <=> (HasPair(g) /\ IsPairOf(PairAt(g), f))
         /\ \A g : PairAt(g)' = PairAt(g)
         /\ Groups(2)' = Groups(2) /\ NamedCalls' = NamedCalls
         /\ SmallPositions' = SmallPositions /\ Mode("split")' = Mode("split")
         /\ NoZero' = NoZero
         /\ \A f : Original(f)' = Original(f)
<1>1. NamedCalls' = NamedCalls /\ (\A f : Original(f)' = Original(f)) /\ Mode("split")' = Mode("split")
  BY SameNames, SameProgram, SameCommand
<1>2. Groups(2)' = Groups(2) /\ \A n : HasPair(n)' = HasPair(n) /\ PairAt(n)' = PairAt(n)
  BY DEF Groups, HasPair, PairAt, At
<1>3. SmallPositions' = SmallPositions /\ NoZero' = NoZero
  BY DEF SmallPositions, NoZero
<1>4. ASSUME NEW f, NEW g
      PROVE  (HasPair(g) /\ IsPairOf(PairAt(g), f))' <=> (HasPair(g) /\ IsPairOf(PairAt(g), f))
  <2>1. IsPairOf(PairAt(g), f)' <=> IsPairOf(PairAt(g), f)
    BY DEF IsPairOf, Original, PairAt, At
  <2> QED
    BY <1>2, <2>1
<1> QED
  BY <1>1, <1>2, <1>3, <1>4

\* A step that leaves the module alone.
LEMMA SameStays ==
  ASSUME StaysInv, pc # "visit", UNCHANGED <<cmd, program, funcPairs>>,
         Mode("split") /\ SmallPositions => ir' = ir
  PROVE  StaysInv'
<1> SUFFICES ASSUME Mode("split"), SmallPositions
             PROVE  /\ ir'.fault = "none" /\ ir'.freed = {}
                    /\ Cardinality(NamedCalls) = 2 => KeptBehind' /\ (NoZero => KeptAhead')
  BY SameWhole DEF StaysInv
<1>1. ir' = ir
  OBVIOUS
<1>2. KeptBehind' <=> KeptBehind
  BY <1>1, SameWhole DEF KeptBehind
<1>3. KeptAhead' <=> KeptAhead
  BY <1>1, SameWhole DEF KeptAhead
<1> QED
  BY <1>1, <1>2, <1>3 DEF StaysInv

\* When the pairs are known nothing has been changed yet.
LEMMA VisitStays == OrderInv /\ Visit => StaysInv'
<1> SUFFICES ASSUME OrderInv, Visit PROVE StaysInv'
  OBVIOUS
<1>1. UNCHANGED <<cmd, program, ir>> /\ ir = Loaded(program)
  BY DEF Visit, OrderInv
<1>2. ir.fault = "none" /\ ir.freed = {} /\ \A f : ir.body[f] = Original(f)
  BY <1>1 DEF Loaded, Original
<1>3. \A f : ir'.body[f] = Original(f)'
  BY <1>1, <1>2, SameProgram
<1>4. KeptBehind' /\ KeptAhead'
  BY <1>3 DEF KeptBehind, KeptAhead
<1> QED
  BY <1>1, <1>2, <1>4 DEF StaysInv

\* The positions a turn of -split reads.
LEMMA NoZeroPositions ==
  ASSUME cmd \in Commands, i \in Nat, i + 1 < Len(cmd.splitpos), SmallPositions, NoZero
  PROVE  UnlockPos # 0 /\ LockPos # 0
<1>1. cmd.splitpos \in Seq(UIntRange) /\ IntMax \in Nat
  BY CommandAssumption, IntMaxAssumption
<1> DEFINE a == i + 1
           b == (i + 1) + 1
<1>2. a \in 1..Len(cmd.splitpos) /\ b \in 1..Len(cmd.splitpos)
  BY <1>1
<1>3. UnlockPos = ToInt(cmd.splitpos[a]) /\ LockPos = ToInt(cmd.splitpos[b])
  BY DEF UnlockPos, LockPos, At
<1> HIDE DEF a, b
<1>4. cmd.splitpos[a] # 0 /\ cmd.splitpos[b] # 0
  BY <1>2 DEF NoZero
<1>5. cmd.splitpos[a] <= IntMax /\ cmd.splitpos[b] <= IntMax
  BY <1>2 DEF SmallPositions
<1>6. cmd.splitpos[a] \in Nat /\ cmd.splitpos[b] \in Nat
  BY <1>1, <1>2 DEF UIntRange
<1> QED
  BY <1>1, <1>3, <1>4, <1>5, <1>6 DEF ToInt

\* A split of the named pair stays inside it.
LEMMA SplitPairStays == IInv /\ OrderInv /\ StaysInv /\ SplitPair => StaysInv'
<1> SUFFICES ASSUME IInv, OrderInv, StaysInv, SplitPair, SmallPositions PROVE StaysInv'
  BY SameWhole DEF SplitPair, StaysInv
<1>1. /\ pc = "loop" /\ Mode("split") /\ i < Len(cmd.pos) /\ CanSplit
      /\ ir' = SplitApart(PairAt(i)) /\ UNCHANGED <<cmd, program, funcPairs>>
  BY DEF SplitPair, InLoop, Commit
<1>2. /\ i \in Nat /\ i % 2 = 0 /\ i + 1 < Len(cmd.pos) /\ HasPair(i)
      /\ i + 1 < Len(cmd.splitpos) /\ SplitFits(PairAt(i)) /\ program \in Programs
      /\ Ordered(ir) /\ cmd \in Commands
  BY <1>1, IndexAt DEF IInv, ArgsInv, OrderInv, Visited, CanSplit, InList
<1>3. ir.fault = "none" /\ ir.freed = {}
  BY <1>1 DEF StaysInv
<1>4. PICK e \in 1..Len(program) : IsPairOf(PairAt(i), e)
  BY <1>1, <1>2, NamedAt
<1>5. i \in Groups(2)
  BY <1>1, <1>2, NamedAt
<1>6. /\ ir'.fault = "none" /\ ir'.freed = {}
      /\ Behind(ir'.body[e], PairAt(i).unlockCall) = Behind(ir.body[e], PairAt(i).unlockCall)
      /\ UnlockPos # 0 /\ LockPos # 0 =>
           Ahead(ir'.body[e], PairAt(i).lockCall) = Ahead(ir.body[e], PairAt(i).lockCall)
  BY <1>1, <1>2, <1>3, <1>4, SplitInside
<1>7. NoZero => UnlockPos # 0 /\ LockPos # 0
  BY <1>2, NoZeroPositions
<1>8. ASSUME Cardinality(NamedCalls) = 2, NEW g \in Groups(2), NEW f \in 1..Len(program),
             HasPair(g), IsPairOf(PairAt(g), f)
      PROVE  /\ Behind(ir'.body[f], PairAt(g).unlockCall) = Behind(Original(f), PairAt(g).unlockCall)
             /\ NoZero => Ahead(ir'.body[f], PairAt(g).lockCall) = Ahead(Original(f), PairAt(g).lockCall)
  <2>1. PairAt(g).unlockCall = PairAt(i).unlockCall /\ PairAt(g).lockCall = PairAt(i).lockCall
    BY <1>1, <1>2, <1>5, <1>8, OnePairNamed
  <2>2. f = e
    <3>1. PairAt(i).unlockCall \in ToSet(Original(f)) /\ PairAt(i).unlockCall \in ToSet(Original(e))
      BY <1>4, <1>8, <2>1 DEF IsPairOf
    <3> QED
      BY <1>2, <3>1, OriginalSets
  <2>3. Behind(ir.body[f], PairAt(g).unlockCall) = Behind(Original(f), PairAt(g).unlockCall)
    BY <1>1, <1>8 DEF StaysInv, KeptBehind
  <2>4. NoZero => Ahead(ir.body[f], PairAt(g).lockCall) = Ahead(Original(f), PairAt(g).lockCall)
    BY <1>1, <1>8 DEF StaysInv, KeptAhead
  <2> QED
    BY <1>6, <1>7, <2>1, <2>2, <2>3, <2>4
<1>9. Cardinality(NamedCalls) = 2 => KeptBehind' /\ (NoZero => KeptAhead')
  BY <1>1, <1>8, SameWhole DEF KeptBehind, KeptAhead
<1> QED
  BY <1>1, <1>6, <1>9, SameWhole DEF StaysInv

\* Every step keeps StaysInv.
LEMMA StaysStep == IInv /\ OrderInv /\ StaysInv /\ [Next]_vars => StaysInv'
<1> SUFFICES ASSUME IInv, OrderInv, StaysInv, [Next]_vars PROVE StaysInv'
  OBVIOUS
<1>1. CASE Visit
  BY <1>1, VisitStays
<1>2. CASE SplitPair
  BY <1>2, SplitPairStays
<1>3. CASE UNCHANGED vars
  <2>1. UNCHANGED <<cmd, program, funcPairs, ir, pc>>
    BY <1>3 DEF vars
  <2>2. CASE pc = "visit"
    BY <2>1, <2>2 DEF StaysInv
  <2>3. CASE pc # "visit"
    BY <2>1, <2>3, SameStays
  <2> QED
    BY <2>2, <2>3
<1>4. CASE CheckCommandLineArgs \/ FinishLoop
  <2>1. pc # "visit" /\ UNCHANGED <<cmd, program, funcPairs, ir>>
    BY <1>4 DEF CheckCommandLineArgs, FinishLoop
  <2> QED
    BY <2>1, SameStays
<1>5. CASE PrintPairs
  <2>1. /\ pc = "ran" /\ UNCHANGED <<cmd, program, funcPairs>>
        /\ ir' = IF VerbosePrint THEN Dereference(ir, AllCalls) ELSE ir
    BY <1>5 DEF PrintPairs
  <2>2. Mode("split") /\ SmallPositions => ir' = ir
    BY <2>1 DEF StaysInv, Dereference, Guarded
  <2> QED
    BY <2>1, <2>2, SameStays
<1>6. CASE SkipSplit
  <2>1. pc = "loop" /\ Mode("split") /\ i < Len(cmd.pos)
    BY <1>6 DEF SkipSplit, InLoop
  <2>2. ~Overrun(2) /\ ~SplitOverrun
    BY <2>1, NoOverrun DEF IInv
  <2>3. ir' = ir /\ UNCHANGED <<cmd, program, funcPairs>>
    BY <1>6, <2>2 DEF SkipSplit, Skip, Commit
  <2> QED
    BY <2>1, <2>3, SameStays
<1>7. CASE \/ CollectPair \/ SkipCollect \/ StartErasing \/ EraseNext
           \/ SwapPairs \/ SkipSameLock \/ SkipSwap \/ ShiftPair \/ SkipShift
  <2>1. /\ pc \in {"loop", "erase"} /\ UNCHANGED <<cmd, program, funcPairs>>
        /\ Mode("rm") \/ Mode("swap") \/ Mode("shift")
    BY <1>7 DEF CollectPair, SkipCollect, StartErasing, EraseNext, SwapPairs, SkipSameLock,
       SkipSwap, ShiftPair, SkipShift, Skip, InLoop, IInv, RemoveInv
  <2>2. ~Mode("split")
    BY <2>1, SplitOnly DEF Looping
  <2> QED
    BY <2>1, <2>2, SameStays
<1> QED
  BY <1>1, <1>2, <1>3, <1>4, <1>5, <1>6, <1>7 DEF Next, Terminated

\* As long as the -splitpos values fit an int, -split faults nowhere, not even in the
\* verbose print, and puts nothing behind the unlock call of the one pair it splits,
\* nor above its lock call when no value is 0 (PosixLock.cpp:326-434).
THEOREM SplitsInside == Spec => []SplitStaysInside
<1>1. Init => StaysInv
  BY DEF Init, StaysInv
<1>2. IInv /\ OrderInv /\ StaysInv => SplitStaysInside
  <2> SUFFICES ASSUME IInv, OrderInv, StaysInv, Mode("split"), pc # "visit", SmallPositions
               PROVE  /\ ir.fault = "none"
                      /\ \A g \in Groups(2) : HasPair(g) /\ Cardinality(NamedCalls) = 2 =>
                           LET lockCall   == PairAt(g).lockCall
                               unlockCall == PairAt(g).unlockCall
                               f          == FuncOf(ir, lockCall)
                           IN  /\ Behind(ir.body[f], unlockCall) = Behind(Original(f), unlockCall)
                               /\ NoZero => Ahead(ir.body[f], lockCall) = Ahead(Original(f), lockCall)
    BY DEF SplitStaysInside, NoZero
  <2>1. ir.fault = "none" /\ ir.freed = {}
    BY DEF StaysInv
  <2>2. ASSUME NEW g \in Groups(2), HasPair(g), Cardinality(NamedCalls) = 2
        PROVE  LET lockCall   == PairAt(g).lockCall
                   unlockCall == PairAt(g).unlockCall
                   f          == FuncOf(ir, lockCall)
               IN  /\ Behind(ir.body[f], unlockCall) = Behind(Original(f), unlockCall)
                   /\ NoZero => Ahead(ir.body[f], lockCall) = Ahead(Original(f), lockCall)
    <3>1. g \in 0..(Len(cmd.pos) - 2) /\ cmd \in Commands /\ Visited /\ Ordered(ir) /\ program \in Programs
      BY DEF Groups, IInv, ArgsInv, OrderInv, Visited
    <3>2. PICK f \in 1..Len(program) : IsPairOf(PairAt(g), f)
      BY <2>2, <3>1, PairAtFacts
    <3>3. FuncOf(ir, PairAt(g).lockCall) = f
      BY <2>1, <3>1, <3>2, LivePlace DEF IsPairOf
    <3>4. Behind(ir.body[f], PairAt(g).unlockCall) = Behind(Original(f), PairAt(g).unlockCall)
      BY <2>2, <3>2 DEF StaysInv, KeptBehind
    <3>5. NoZero => Ahead(ir.body[f], PairAt(g).lockCall) = Ahead(Original(f), PairAt(g).lockCall)
      BY <2>2, <3>2 DEF StaysInv, KeptAhead
    <3> QED
      BY <3>3, <3>4, <3>5
  <2> QED
    BY <2>1, <2>2
<1> QED
  BY <1>1, <1>2, StaysStep, Invariance, OrderIsKept, PTL DEF Spec

-----------------------------------------------------------------------------
(* -swap: which instruction is at which place *)

\* One instruction is replaced wherever it is: everything else stays at its place.
Exchanges(r, s, x, new) ==
  /\ Ordered(s) /\ s.fault = "none" /\ s.freed = r.freed \union {x} /\ s.op = r.op
  /\ \A g \in 1..Len(program) :
       /\ Len(s.body[g]) = Len(r.body[g])
       /\ \A n \in 1..Len(r.body[g]) :
            s.body[g][n] = IF r.body[g][n] = x THEN new ELSE r.body[g][n]

\* A replacement puts the new instruction in the place of the old one.
LEMMA ReplaceExchanges ==
  ASSUME program \in Programs, NEW r, Ordered(r), r.fault = "none", NEW f \in 1..Len(program),
         NEW x \in ToSet(Original(f)), x \notin r.freed, NEW new \in Nat, new > Total
  PROVE  Exchanges(r, ReplaceInst(r, x, new), x, new)
<1> DEFINE s == ReplaceInst(r, x, new)
           p == PosOf(r, x)
           b == r.body[f]
<1>1. /\ Leads(r, s, {x}) /\ s.body = [r.body EXCEPT ![f] = ReplaceAt(b, p, new)]
      /\ s.op = r.op /\ s.freed = r.freed \union {x} /\ s.fault = "none"
  <2> HIDE DEF s
  <2>1. Leads(r, ReplaceInst(r, x, new), {x}) /\ Replaced(r, ReplaceInst(r, x, new), f, x, new)
    BY ReplaceLeads
  <2> QED
    BY <2>1 DEF s, Replaced
<1> HIDE DEF s
<1>2. Holds(b, p, x) /\ x \in 1..Total /\ Total \in Nat
  BY HeldWhere, OriginalSets
<1>3. r.body \in Seq(Seq(Nat)) /\ Len(r.body) = Len(program)
  BY DEF Ordered
<1>4. ASSUME NEW g \in 1..Len(program)
      PROVE  /\ Len(s.body[g]) = Len(r.body[g])
             /\ \A n \in 1..Len(r.body[g]) :
                  s.body[g][n] = IF r.body[g][n] = x THEN new ELSE r.body[g][n]
  <2>1. CASE g = f
    <3>1. s.body[g] = ReplaceAt(b, p, new) /\ r.body[g] = b
      BY <1>1, <1>3, <2>1
    <3> HIDE DEF b, p
    <3>2. b \in Seq(Nat) /\ p \in 1..Len(b) /\ \A m \in 1..Len(b) : b[m] = x <=> m = p
      BY <1>2 DEF Holds
    <3>3. ReplaceAt(b, p, new) = [b EXCEPT ![p] = new]
      BY DEF ReplaceAt
    <3>4. /\ Len([b EXCEPT ![p] = new]) = Len(b)
          /\ \A m \in 1..Len(b) : [b EXCEPT ![p] = new][m] = IF m = p THEN new ELSE b[m]
      BY <3>2
    <3> QED
      BY <3>1, <3>2, <3>3, <3>4
  <2>2. CASE g # f
    <3>1. s.body[g] = r.body[g]
      BY <1>1, <1>3, <2>2
    <3>2. ASSUME NEW n \in 1..Len(r.body[g]), r.body[g][n] = x PROVE FALSE
      <4>1. r.body[g][n] <= Total
        BY <1>2, <3>2
      <4>2. FuncOf(r, x) = g
        BY <3>2, <4>1, PlaceIs
      <4>3. FuncOf(r, x) = f
        BY LivePlace
      <4> QED
        BY <2>2, <4>2, <4>3
    <3> QED
      BY <3>1, <3>2
  <2> QED
    BY <2>1, <2>2
<1> QED
  BY <1>1, <1>4 DEF Exchanges, Leads, s

\* The four calls of two pairs are exchanged for copies of each other.
Swaps(s, p1, p2) ==
  LET new == NewInst(ir)
  IN  /\ s.fault = "none"
      /\ Len(s.op) = Len(ir.op) + 4
      /\ \A n \in 1..Len(ir.op) : s.op[n] = ir.op[n]
      /\ s.op[new] = ir.op[p1.lockCall] /\ s.op[new + 1] = ir.op[p1.unlockCall]
      /\ s.op[new + 2] = ir.op[p2.lockCall] /\ s.op[new + 3] = ir.op[p2.unlockCall]
      /\ \A g \in 1..Len(program) :
           /\ Len(s.body[g]) = Len(ir.body[g])
           /\ \A n \in 1..Len(ir.body[g]) :
                LET x == ir.body[g][n]
                IN  /\ x = p1.lockCall => s.body[g][n] = new + 2
                    /\ x = p1.unlockCall => s.body[g][n] = new + 3
                    /\ x = p2.lockCall => s.body[g][n] = new
                    /\ x = p2.unlockCall => s.body[g][n] = new + 1
                    /\ x \notin Calls(p1) \union Calls(p2) => s.body[g][n] = x

\* The four replacements of a swap together.
LEMMA SwapEffect ==
  ASSUME program \in Programs, Ordered(ir), ir.fault = "none",
         NEW f1 \in 1..Len(program), NEW f2 \in 1..Len(program),
         NEW p1, IsPairOf(p1, f1), NEW p2, IsPairOf(p2, f2),
         (Calls(p1) \union Calls(p2)) \cap ir.freed = {}, Disjoint(p1, p2)
  PROVE  Swaps(Swapped(p1, p2), p1, p2)
<1> DEFINE a      == p1.lockCall
           b      == p1.unlockCall
           c      == p2.lockCall
           d      == p2.unlockCall
           new    == NewInst(ir)
           insts  == <<a, b, c, d>>
           copied == CreateCopies(ir, insts)
           one    == ReplaceInst(copied, a, new + 2)
           two    == ReplaceInst(one, b, new + 3)
           three  == ReplaceInst(two, c, new)
           four   == ReplaceInst(three, d, new + 1)
<1>1. Swapped(p1, p2) = four
  BY DEF Swapped
<1>2. /\ a \in ToSet(Original(f1)) /\ b \in ToSet(Original(f1))
      /\ c \in ToSet(Original(f2)) /\ d \in ToSet(Original(f2))
      /\ a < b /\ c < d
  BY DEF IsPairOf
<1>3. Total \in Nat /\ a \in 1..Total /\ b \in 1..Total /\ c \in 1..Total /\ d \in 1..Total
  BY <1>2, OriginalSets
<1>4. /\ a # b /\ c # d /\ a # c /\ a # d /\ b # c /\ b # d
      /\ a \notin ir.freed /\ b \notin ir.freed /\ c \notin ir.freed /\ d \notin ir.freed
  <2>1. a # b /\ c # d
    BY <1>2, <1>3
  <2> QED
    BY <2>1 DEF Calls, Disjoint
<1>5. Calls(p1) \union Calls(p2) = {a, b, c, d}
  BY DEF Calls
<1> HIDE DEF a, b, c, d
<1>6. insts \in Seq(1..Total) /\ Len(insts) = 4 /\ ToSet(insts) \cap ir.freed = {}
  <2>1. insts \in Seq(1..Total) /\ Len(insts) = 4
    BY <1>3
  <2>2. ToSet(insts) = {a, b, c, d}
    BY DEF ToSet
  <2> QED
    BY <1>4, <2>1, <2>2
<1>7. /\ new \in Nat /\ new + 1 \in Nat /\ new + 2 \in Nat /\ new + 3 \in Nat
      /\ new > Total /\ new + 1 > Total /\ new + 2 > Total /\ new + 3 > Total
  BY NewIsNew
<1>8. insts[1] = a /\ insts[2] = b /\ insts[3] = c /\ insts[4] = d
  OBVIOUS
<1> HIDE DEF insts
<1>9. /\ Ordered(copied) /\ copied.fault = "none" /\ copied.body = ir.body /\ copied.freed = ir.freed
      /\ Len(copied.op) = Len(ir.op) + 4
      /\ \A n \in 1..Len(ir.op) : copied.op[n] = ir.op[n]
      /\ \A n \in 1..4 : copied.op[Len(ir.op) + n] = ir.op[insts[n]]
  <2> HIDE DEF copied
  <2>1. /\ Leads(ir, CreateCopies(ir, insts), {})
        /\ CreateCopies(ir, insts).body = ir.body /\ CreateCopies(ir, insts).freed = ir.freed
        /\ CreateCopies(ir, insts).fault = "none"
        /\ Len(CreateCopies(ir, insts).op) = Len(ir.op) + Len(insts)
        /\ \A n \in 1..Len(ir.op) : CreateCopies(ir, insts).op[n] = ir.op[n]
        /\ \A n \in 1..Len(insts) : CreateCopies(ir, insts).op[Len(ir.op) + n] = ir.op[insts[n]]
    BY <1>6, CopiesLead
  <2> QED
    BY <1>6, <2>1 DEF Leads, copied
<1>10. /\ copied.op[new] = ir.op[a] /\ copied.op[new + 1] = ir.op[b]
       /\ copied.op[new + 2] = ir.op[c] /\ copied.op[new + 3] = ir.op[d]
  <2>1. Len(ir.op) \in Nat
    BY DEF Ordered
  <2>2. /\ new = Len(ir.op) + 1 /\ new + 1 = Len(ir.op) + 2
        /\ new + 2 = Len(ir.op) + 3 /\ new + 3 = Len(ir.op) + 4
    BY <2>1 DEF NewInst
  <2>3. 1 \in 1..4 /\ 2 \in 1..4 /\ 3 \in 1..4 /\ 4 \in 1..4
    OBVIOUS
  <2> HIDE DEF copied, new
  <2> QED
    BY <1>8, <1>9, <2>2, <2>3
<1> HIDE DEF copied, new
<1>11. Exchanges(copied, one, a, new + 2)
  BY <1>2, <1>4, <1>7, <1>9, ReplaceExchanges
<1> HIDE DEF one
<1>12. Ordered(one) /\ one.fault = "none" /\ one.freed = ir.freed \union {a} /\ one.op = copied.op
  BY <1>9, <1>11 DEF Exchanges
<1>13. Exchanges(one, two, b, new + 3)
  BY <1>2, <1>4, <1>7, <1>12, ReplaceExchanges
<1> HIDE DEF two
<1>14. Ordered(two) /\ two.fault = "none" /\ two.freed = ir.freed \union {a, b} /\ two.op = copied.op
  BY <1>12, <1>13 DEF Exchanges
<1>15. Exchanges(two, three, c, new)
  BY <1>2, <1>4, <1>7, <1>14, ReplaceExchanges
<1> HIDE DEF three
<1>16. /\ Ordered(three) /\ three.fault = "none" /\ three.freed = ir.freed \union {a, b, c}
       /\ three.op = copied.op
  BY <1>14, <1>15 DEF Exchanges
<1>17. Exchanges(three, four, d, new + 1)
  BY <1>2, <1>4, <1>7, <1>16, ReplaceExchanges
<1> HIDE DEF four
<1>18. four.fault = "none" /\ four.op = copied.op
  BY <1>16, <1>17 DEF Exchanges
<1>19. ASSUME NEW g \in 1..Len(program)
       PROVE  /\ Len(four.body[g]) = Len(ir.body[g])
              /\ \A n \in 1..Len(ir.body[g]) :
                   /\ ir.body[g][n] = a => four.body[g][n] = new + 2
                   /\ ir.body[g][n] = b => four.body[g][n] = new + 3
                   /\ ir.body[g][n] = c => four.body[g][n] = new
                   /\ ir.body[g][n] = d => four.body[g][n] = new + 1
                   /\ ir.body[g][n] \notin {a, b, c, d} => four.body[g][n] = ir.body[g][n]
  <2>1. /\ Len(one.body[g]) = Len(ir.body[g]) /\ Len(two.body[g]) = Len(ir.body[g])
        /\ Len(three.body[g]) = Len(ir.body[g]) /\ Len(four.body[g]) = Len(ir.body[g])
    BY <1>9, <1>11, <1>13, <1>15, <1>17 DEF Exchanges
  <2>2. ASSUME NEW n \in 1..Len(ir.body[g])
        PROVE  /\ one.body[g][n] = IF ir.body[g][n] = a THEN new + 2 ELSE ir.body[g][n]
               /\ two.body[g][n] = IF one.body[g][n] = b THEN new + 3 ELSE one.body[g][n]
               /\ three.body[g][n] = IF two.body[g][n] = c THEN new ELSE two.body[g][n]
               /\ four.body[g][n] = IF three.body[g][n] = d THEN new + 1 ELSE three.body[g][n]
    <3>1. one.body[g][n] = IF ir.body[g][n] = a THEN new + 2 ELSE ir.body[g][n]
      <4>1. /\ copied.body = ir.body
            /\ \A m \in 1..Len(copied.body[g]) :
                 one.body[g][m] = IF copied.body[g][m] = a THEN new + 2 ELSE copied.body[g][m]
        BY <1>9, <1>11 DEF Exchanges
      <4>2. n \in 1..Len(copied.body[g]) /\ copied.body[g][n] = ir.body[g][n]
        BY <2>2, <4>1
      <4>3. one.body[g][n] = IF copied.body[g][n] = a THEN new + 2 ELSE copied.body[g][n]
        BY <4>1, <4>2
      <4> QED
        BY <4>2, <4>3
    <3>2. two.body[g][n] = IF one.body[g][n] = b THEN new + 3 ELSE one.body[g][n]
      BY <1>13, <2>1, <2>2 DEF Exchanges
    <3>3. three.body[g][n] = IF two.body[g][n] = c THEN new ELSE two.body[g][n]
      BY <1>15, <2>1, <2>2 DEF Exchanges
    <3>4. four.body[g][n] = IF three.body[g][n] = d THEN new + 1 ELSE three.body[g][n]
      BY <1>17, <2>1, <2>2 DEF Exchanges
    <3> QED
      BY <3>1, <3>2, <3>3, <3>4
  <2>3. \A x \in {a, b, c, d} : x # new /\ x # new + 1 /\ x # new + 2 /\ x # new + 3
    BY <1>3, <1>7
  <2> QED
    BY <1>4, <2>1, <2>2, <2>3
<1>20. Swaps(four, p1, p2)
  BY <1>5, <1>9, <1>10, <1>18, <1>19 DEF Swaps, a, b, c, d, new
<1> QED
  BY <1>1, <1>20

\* -swap of pairs that share no call: a place holds what it held, or, once its group has
\* been swapped, a copy of its partner.
PlaceHolds(f, n) ==
  LET x == Original(f)[n]
      y == ir.body[f][n]
  IN  IF x \notin SwappedCalls THEN y = x
      ELSE /\ y \in Nat /\ y > Total /\ y <= Len(ir.op)
           /\ \E other \in Swapping : Partners(x, other) /\ ir.op[y] = FlattenSeq(program)[other]
SwapPlaces ==
  Mode("swap") /\ DisjointSwaps /\ pc \notin {"visit", "fault"} =>
    /\ \A x \in 1..Total : ir.op[x] = FlattenSeq(program)[x]
    /\ \A f \in 1..Len(program) :
         /\ Len(ir.body[f]) = Len(Original(f))
         /\ \A n \in 1..Len(Original(f)) : PlaceHolds(f, n)
    /\ Ran => Swapping \subseteq SwappedCalls

\* The groups of -swap depend on the command line and the pairs only.
LEMMA SameSwaps ==
  ASSUME UNCHANGED <<cmd, program, funcPairs>>
  PROVE  /\ Swapping' = Swapping /\ DisjointSwaps' = DisjointSwaps /\ Mode("swap")' = Mode("swap")
         /\ SwapGroups' = SwapGroups
         /\ \A g : CallsUsed(g)' = CallsUsed(g)
         /\ \A x, y : Partners(x, y)' <=> Partners(x, y)
         /\ Total' = Total /\ \A f : Original(f)' = Original(f)
<1>1. /\ DisjointSwaps' = DisjointSwaps /\ Mode("swap")' = Mode("swap") /\ SwapGroups' = SwapGroups
      /\ \A g : CallsUsed(g)' = CallsUsed(g)
      /\ Total' = Total /\ \A f : Original(f)' = Original(f)
  BY SamePairs, SameCommand, SameProgram
<1>2. Swapping' = Swapping
  BY <1>1 DEF Swapping
<1>3. \A x, y : Partners(x, y)' <=> Partners(x, y)
  BY <1>1 DEF Partners, PairAt, At
<1> QED
  BY <1>1, <1>2, <1>3

\* A step that changes neither the module nor which groups were swapped.
LEMMA SamePlaces ==
  ASSUME SwapPlaces, pc \notin {"visit", "fault"}, UNCHANGED <<cmd, program, funcPairs>>,
         Mode("swap") /\ DisjointSwaps /\ pc' \notin {"visit", "fault"} =>
           /\ ir'.body = ir.body /\ ir'.op = ir.op /\ SwappedCalls' = SwappedCalls
           /\ pc' \in {"ran", "done"} => Swapping \subseteq SwappedCalls
  PROVE  SwapPlaces'
<1> SUFFICES ASSUME Mode("swap"), DisjointSwaps, pc' \notin {"visit", "fault"}
             PROVE  /\ \A x \in 1..Total : ir'.op[x] = FlattenSeq(program)[x]
                    /\ \A f \in 1..Len(program) :
                         /\ Len(ir'.body[f]) = Len(Original(f))
                         /\ \A n \in 1..Len(Original(f)) : PlaceHolds(f, n)'
                    /\ pc' \in {"ran", "done"} => Swapping \subseteq SwappedCalls'
  BY SameSwaps DEF SwapPlaces, Ran
<1>1. \A f, n : PlaceHolds(f, n)' <=> PlaceHolds(f, n)
  BY SameSwaps DEF PlaceHolds
<1> QED
  BY <1>1 DEF SwapPlaces

LEMMA VisitPlaces == IInv /\ OrderInv /\ Visit => SwapPlaces'
<1> SUFFICES ASSUME IInv, OrderInv, Visit PROVE SwapPlaces'
  OBVIOUS
<1>1. /\ UNCHANGED <<cmd, program, ir, i>> /\ ir = Loaded(program) /\ i = 0 /\ pc' = "args"
  BY DEF Visit, OrderInv, IInv, ArgsInv
<1>2. ir.op = FlattenSeq(program) /\ \A f : ir.body[f] = Original(f)
  BY <1>1 DEF Loaded, Original
<1>3. SwappedCalls' = {}
  <2>1. i' = 0
    BY <1>1
  <2>2. \A g \in SwapGroups' : ~(g < i')
    BY <2>1 DEF SwapGroups, Groups
  <2> QED
    BY <2>2 DEF SwappedCalls
<1>4. Total' = Total /\ \A f : Original(f)' = Original(f)
  BY <1>1, SameProgram
<1>5. \A f, n : PlaceHolds(f, n)'
  BY <1>1, <1>2, <1>3, <1>4 DEF PlaceHolds
<1> QED
  BY <1>1, <1>2, <1>4, <1>5 DEF SwapPlaces, Ran

\* The group at the index is one of the swap groups, or names too few pairs.
LEMMA GroupAt ==
  ASSUME IInv, pc = "loop", Mode("swap"), i < Len(cmd.pos)
  PROVE  /\ i \in Nat
         /\ NamesPairs(4) <=> i \in SwapGroups
         /\ {g \in SwapGroups : g < i + 4} = {g \in SwapGroups : g < i} \union (SwapGroups \cap {i})
<1>1. i \in Nat /\ i % 4 = 0 /\ Len(cmd.pos) \in Nat /\ ~Overrun(4)
  BY CommandTypes, NoOverrun DEF IInv, ArgsInv
<1>2. NamesPairs(4) => i \in SwapGroups
  BY <1>1, FourPositions, AlignedGroup DEF IInv
<1>3. i \in SwapGroups => NamesPairs(4)
  <2> SUFFICES ASSUME i \in SwapGroups PROVE NamesPairs(4)
    OBVIOUS
  <2>1. HasPair(i) /\ HasPair(i + 2)
    BY DEF SwapGroups
  <2>2. \A n \in 0..(4 - 1) : n % 2 = 0 => n = 0 \/ n = 2
    OBVIOUS
  <2>3. i + 0 = i
    BY <1>1
  <2> QED
    BY <1>1, <2>1, <2>2, <2>3 DEF NamesPairs
<1>4. \A g \in SwapGroups : g \in Nat /\ g % 4 = 0
  BY DEF SwapGroups, Groups
<1>5. \A g \in SwapGroups : g < i + 4 <=> g < i \/ g = i
  <2> TAKE g \in SwapGroups
  <2>1. g \in Nat /\ g % 4 = 0
    BY <1>4
  <2> QED
    BY <1>1, <2>1
<1> QED
  BY <1>1, <1>2, <1>3, <1>5

LEMMA SwapPairsPlaces ==
  IInv /\ OrderInv /\ SwapPlaces /\ SwapPairs => SwapPlaces'
<1> SUFFICES ASSUME IInv, OrderInv, SwapPlaces, SwapPairs, DisjointSwaps PROVE SwapPlaces'
  BY SameSwaps DEF SwapPairs, SwapPlaces
<1> DEFINE p1 == PairAt(i)
           p2 == PairAt(i + 2)
<1>1. /\ pc = "loop" /\ Mode("swap") /\ i < Len(cmd.pos) /\ NamesPairs(4)
      /\ UNCHANGED <<cmd, program, funcPairs>> /\ i' = i + 4 /\ ir' = Swapped(p1, p2)
      /\ pc' = IF Faulted(ir') THEN "fault" ELSE pc
  BY DEF SwapPairs, InLoop, Commit, Advance
<1>2. /\ i \in Nat /\ i \in SwapGroups
      /\ {g \in SwapGroups : g < i + 4} = {g \in SwapGroups : g < i} \union {i}
  <2>1. /\ i \in Nat
        /\ NamesPairs(4) <=> i \in SwapGroups
        /\ {g \in SwapGroups : g < i + 4} = {g \in SwapGroups : g < i} \union (SwapGroups \cap {i})
    BY <1>1, GroupAt
  <2>2. i \in SwapGroups
    BY <1>1, <2>1
  <2>3. SwapGroups \cap {i} = {i}
    BY <2>2
  <2> QED
    BY <2>1, <2>2, <2>3
<1>3. /\ ir.fault = "none" /\ program \in Programs /\ Ordered(ir) /\ cmd \in Commands /\ Visited
      /\ Len(cmd.pos) \in Nat
  BY <1>1, CommandTypes DEF IInv, ArgsInv, OrderInv, Visited
<1>4. /\ HasPair(i) /\ HasPair(i + 2) /\ i \in 0..(Len(cmd.pos) - 2) /\ i + 2 \in 0..(Len(cmd.pos) - 2)
  BY <1>2, <1>3 DEF SwapGroups, Groups
<1>5. PICK f1 \in 1..Len(program) : IsPairOf(p1, f1)
  BY <1>1, <1>3, <1>4, PairAtFacts
<1>6. PICK f2 \in 1..Len(program) : IsPairOf(p2, f2)
  BY <1>1, <1>3, <1>4, PairAtFacts
<1>7. CallsUsed(i) = Calls(p1) \union Calls(p2) /\ Disjoint(p1, p2)
  BY <1>2 DEF CallsUsed, DisjointSwaps
<1>8. SwappedCalls \cap CallsUsed(i) = {}
  <2>1. ASSUME NEW g \in SwapGroups, g < i PROVE CallsUsed(g) \cap CallsUsed(i) = {}
    <3>1. g # i
      BY <1>2, <2>1
    <3> QED
      BY <1>2, <3>1 DEF DisjointSwaps
  <2> QED
    BY <2>1 DEF SwappedCalls
<1>9. CallsUsed(i) \cap ir.freed = {}
  BY <1>1, <1>8 DEF IInv, SwapInv
<1>10. Swaps(ir', p1, p2)
  BY <1>1, <1>3, <1>5, <1>6, <1>7, <1>9, SwapEffect
<1>11. SwappedCalls' = SwappedCalls \union CallsUsed(i)
  <2>1. SwappedCalls' = UNION {CallsUsed(g) : g \in {h \in SwapGroups : h < i + 4}}
    BY <1>1, SameSwaps DEF SwappedCalls
  <2> QED
    BY <1>2, <2>1 DEF SwappedCalls
<1> DEFINE new  == NewInst(ir)
           read == FlattenSeq(program)
<1>12. /\ Total \in Nat /\ Total <= Len(ir.op) /\ Len(ir.op) \in Nat /\ new = Len(ir.op) + 1
       /\ Len(ir'.op) = Len(ir.op) + 4 /\ pc' = "loop"
       /\ \A n \in 1..Len(ir.op) : ir'.op[n] = ir.op[n]
  <2>1. Total \in Nat /\ Total <= Len(ir.op) /\ Len(ir.op) \in Nat
    BY <1>3, OriginalSets DEF Ordered
  <2>2. /\ ir'.fault = "none" /\ Len(ir'.op) = Len(ir.op) + 4
        /\ \A n \in 1..Len(ir.op) : ir'.op[n] = ir.op[n]
    BY <1>10 DEF Swaps
  <2>3. pc' = "loop"
    BY <1>1, <2>2 DEF Faulted
  <2> QED
    BY <2>1, <2>2, <2>3 DEF NewInst
<1>13. \A x \in 1..Total : ir.op[x] = read[x]
  BY <1>1 DEF SwapPlaces
<1>14. \A x \in 1..Total : ir'.op[x] = read[x]
  BY <1>12, <1>13
<1>15. /\ p1.lockCall \in 1..Total /\ p1.unlockCall \in 1..Total
       /\ p2.lockCall \in 1..Total /\ p2.unlockCall \in 1..Total
  BY <1>3, <1>5, <1>6, OriginalSets DEF IsPairOf
<1>16. /\ ir'.op[new] = read[p1.lockCall] /\ ir'.op[new + 1] = read[p1.unlockCall]
       /\ ir'.op[new + 2] = read[p2.lockCall] /\ ir'.op[new + 3] = read[p2.unlockCall]
  BY <1>10, <1>13, <1>15 DEF Swaps
<1>17. /\ Partners(p1.lockCall, p2.lockCall) /\ Partners(p2.lockCall, p1.lockCall)
       /\ Partners(p1.unlockCall, p2.unlockCall) /\ Partners(p2.unlockCall, p1.unlockCall)
  <2>1. p1.lockCall # p2.lockCall /\ p1.unlockCall # p2.unlockCall
    BY <1>7 DEF Disjoint, Calls
  <2>2. ASSUME NEW x, NEW y, NEW role \in {"lockCall", "unlockCall"},
               x # y, {x, y} = {PairAt(i)[role], PairAt(i + 2)[role]}
        PROVE  Partners(x, y)
    BY <1>2, <2>2 DEF Partners
  <2>3. /\ {p1.lockCall, p2.lockCall} = {PairAt(i)["lockCall"], PairAt(i + 2)["lockCall"]}
        /\ {p2.lockCall, p1.lockCall} = {PairAt(i)["lockCall"], PairAt(i + 2)["lockCall"]}
        /\ {p1.unlockCall, p2.unlockCall} = {PairAt(i)["unlockCall"], PairAt(i + 2)["unlockCall"]}
        /\ {p2.unlockCall, p1.unlockCall} = {PairAt(i)["unlockCall"], PairAt(i + 2)["unlockCall"]}
    OBVIOUS
  <2> HIDE DEF p1, p2
  <2>4. Partners(p1.lockCall, p2.lockCall)
    BY <2>1, <2>2, <2>3
  <2>5. Partners(p2.lockCall, p1.lockCall)
    BY <2>1, <2>2, <2>3
  <2>6. Partners(p1.unlockCall, p2.unlockCall)
    BY <2>1, <2>2, <2>3
  <2>7. Partners(p2.unlockCall, p1.unlockCall)
    BY <2>1, <2>2, <2>3
  <2> QED
    BY <2>4, <2>5, <2>6, <2>7
<1>18. Calls(p1) \union Calls(p2) \subseteq Swapping
  BY <1>2, <1>7 DEF Swapping
<1>19. ASSUME NEW f \in 1..Len(program)
       PROVE  /\ Len(ir'.body[f]) = Len(Original(f))
              /\ \A n \in 1..Len(Original(f)) : PlaceHolds(f, n)'
  <2>1. /\ Len(ir.body[f]) = Len(Original(f)) /\ \A n \in 1..Len(Original(f)) : PlaceHolds(f, n)
    BY <1>1 DEF SwapPlaces
  <2>2. Len(ir'.body[f]) = Len(ir.body[f])
    BY <1>10 DEF Swaps
  <2>3. ASSUME NEW n \in 1..Len(Original(f)) PROVE PlaceHolds(f, n)'
    <3> DEFINE x == Original(f)[n]
               y == ir.body[f][n]
               z == ir'.body[f][n]
    <3>0. n \in 1..Len(ir.body[f]) /\ PlaceHolds(f, n)
      BY <2>1, <2>3
    <3>1. /\ y = p1.lockCall => z = new + 2
          /\ y = p1.unlockCall => z = new + 3
          /\ y = p2.lockCall => z = new
          /\ y = p2.unlockCall => z = new + 1
          /\ y \notin Calls(p1) \union Calls(p2) => z = y
      BY <1>10, <3>0 DEF Swaps
    <3>2. /\ x \notin SwappedCalls => y = x
          /\ x \in SwappedCalls =>
               /\ y \in Nat /\ y > Total /\ y <= Len(ir.op)
               /\ \E other \in Swapping : Partners(x, other) /\ ir.op[y] = read[other]
      BY <3>0 DEF PlaceHolds
    <3>3. /\ x \notin SwappedCalls \union CallsUsed(i) => z = x
          /\ x \in SwappedCalls \union CallsUsed(i) =>
               /\ z \in Nat /\ z > Total /\ z <= Len(ir'.op)
               /\ \E other \in Swapping : Partners(x, other) /\ ir'.op[z] = read[other]
      <4> HIDE DEF x, y, z, p1, p2, new, read
      <4>1. CASE x \in SwappedCalls
        <5>1. y \in Nat /\ y > Total /\ y <= Len(ir.op)
          BY <3>2, <4>1
        <5>2. y \notin Calls(p1) \union Calls(p2)
          <6>1. Calls(p1) \union Calls(p2) \subseteq 1..Total
            BY <1>15 DEF Calls
          <6>2. y \notin 1..Total
            BY <1>12, <5>1
          <6> QED
            BY <6>1, <6>2
        <5>3. z = y /\ ir'.op[z] = ir.op[y] /\ z <= Len(ir'.op)
          BY <1>12, <3>1, <5>1, <5>2
        <5> QED
          BY <3>2, <4>1, <5>1, <5>3
      <4>2. CASE x \notin SwappedCalls /\ x \notin CallsUsed(i)
        BY <1>7, <3>1, <3>2, <4>2
      <4>3. CASE x \notin SwappedCalls /\ x \in CallsUsed(i)
        <5>1. y = x /\ x \in {p1.lockCall, p1.unlockCall, p2.lockCall, p2.unlockCall}
          BY <1>7, <3>2, <4>3 DEF Calls
        <5>2. {p1.lockCall, p1.unlockCall, p2.lockCall, p2.unlockCall} \subseteq Swapping
          BY <1>18 DEF Calls
        <5>3. z \in {new, new + 1, new + 2, new + 3}
          BY <3>1, <5>1
        <5>4. z \in Nat /\ z > Total /\ z <= Len(ir'.op)
          <6>1. z = new \/ z = new + 1 \/ z = new + 2 \/ z = new + 3
            BY <5>3
          <6>2. new \in Nat /\ new > Total /\ Len(ir'.op) = new + 3 /\ Total \in Nat
            BY <1>12
          <6>3. z \in Nat /\ z >= new /\ z <= new + 3
            BY <6>1, <6>2
          <6> QED
            BY <6>2, <6>3
        <5>5. \E other \in Swapping : Partners(x, other) /\ ir'.op[z] = read[other]
          <6>1. CASE x = p1.lockCall
            BY <1>16, <1>17, <3>1, <5>1, <5>2, <6>1
          <6>2. CASE x = p1.unlockCall
            BY <1>16, <1>17, <3>1, <5>1, <5>2, <6>2
          <6>3. CASE x = p2.lockCall
            BY <1>16, <1>17, <3>1, <5>1, <5>2, <6>3
          <6>4. CASE x = p2.unlockCall
            BY <1>16, <1>17, <3>1, <5>1, <5>2, <6>4
          <6> QED
            BY <5>1, <6>1, <6>2, <6>3, <6>4
        <5> QED
          BY <4>3, <5>4, <5>5
      <4> QED
        BY <4>1, <4>2, <4>3
    <3> QED
      BY <1>1, <1>11, <3>3, SameSwaps DEF PlaceHolds
  <2> QED
    BY <2>1, <2>2, <2>3
<1> QED
  BY <1>1, <1>12, <1>14, <1>19, SameSwaps DEF SwapPlaces, Ran

\* The pair that is skipped shares a call with the other one, or is not there.
LEMMA SkipPlaces ==
  IInv /\ SwapPlaces /\ (SkipSameLock \/ SkipSwap) => SwapPlaces'
<1> SUFFICES ASSUME IInv, SwapPlaces, SkipSameLock \/ SkipSwap, DisjointSwaps PROVE SwapPlaces'
  BY SameSwaps DEF SkipSameLock, SkipSwap, Skip, SwapPlaces
<1>1. /\ pc = "loop" /\ Mode("swap") /\ i < Len(cmd.pos) /\ i' = i + 4 /\ ~Overrun(4)
      /\ ir.fault = "none" /\ UNCHANGED <<cmd, program, funcPairs>>
  BY NoOverrun DEF SkipSameLock, SkipSwap, Skip, InLoop, Commit, Advance, IInv, ArgsInv
<1>2. /\ i \in Nat
      /\ NamesPairs(4) <=> i \in SwapGroups
      /\ {g \in SwapGroups : g < i + 4} = {g \in SwapGroups : g < i} \union (SwapGroups \cap {i})
  BY <1>1, GroupAt
<1>3. i \notin SwapGroups
  <2>1. CASE SkipSameLock
    <3> SUFFICES ASSUME i \in SwapGroups PROVE FALSE
      OBVIOUS
    <3>1. PairAt(i).lockCall = PairAt(i + 2).lockCall
      BY <2>1 DEF SkipSameLock, SameLockCall
    <3>2. Disjoint(PairAt(i), PairAt(i + 2))
      BY DEF DisjointSwaps
    <3> QED
      BY <3>1, <3>2 DEF Disjoint, Calls
  <2>2. CASE SkipSwap
    BY <1>2, <2>2 DEF SkipSwap
  <2> QED
    BY <2>1, <2>2
<1>4. ir' = ir /\ pc' = pc
  BY <1>1, <1>2, <1>3 DEF SkipSameLock, SkipSwap, Skip, Commit, Faulted
<1>5. SwappedCalls' = SwappedCalls
  <2>1. SwappedCalls' = UNION {CallsUsed(g) : g \in {h \in SwapGroups : h < i + 4}}
    BY <1>1, SameSwaps DEF SwappedCalls
  <2>2. {h \in SwapGroups : h < i + 4} = {h \in SwapGroups : h < i}
    BY <1>2, <1>3
  <2> QED
    BY <2>1, <2>2 DEF SwappedCalls
<1> QED
  BY <1>1, <1>4, <1>5, SamePlaces

\* When the loop is done, every group has been swapped.
LEMMA AllSwapped ==
  ASSUME IInv, i >= Len(cmd.pos)
  PROVE  Swapping \subseteq SwappedCalls
<1>1. i \in Nat /\ Len(cmd.pos) \in Nat
  BY CommandTypes DEF IInv, ArgsInv
<1>2. \A g \in SwapGroups : g < i
  BY <1>1 DEF SwapGroups, Groups
<1> QED
  BY <1>2 DEF Swapping, SwappedCalls

LEMMA PlacesStep == IInv /\ OrderInv /\ SwapPlaces /\ [Next]_vars => SwapPlaces'
<1> SUFFICES ASSUME IInv, OrderInv, SwapPlaces, [Next]_vars PROVE SwapPlaces'
  OBVIOUS
<1>1. CASE Visit
  BY <1>1, VisitPlaces
<1>2. CASE SwapPairs
  BY <1>2, SwapPairsPlaces
<1>3. CASE SkipSameLock \/ SkipSwap
  BY <1>3, SkipPlaces
<1>4. CASE UNCHANGED vars
  <2>1. UNCHANGED <<cmd, program, funcPairs, ir, i, pc>>
    BY <1>4 DEF vars
  <2>2. CASE pc \in {"visit", "fault"}
    BY <2>1, <2>2 DEF SwapPlaces
  <2>3. CASE pc \notin {"visit", "fault"}
    <3>1. SwappedCalls' = SwappedCalls
      BY <2>1, SameSwaps DEF SwappedCalls
    <3>2. Mode("swap") /\ DisjointSwaps /\ pc \in {"ran", "done"} => Swapping \subseteq SwappedCalls
      BY <2>3 DEF SwapPlaces, Ran
    <3> QED
      BY <2>1, <2>3, <3>1, <3>2, SamePlaces
  <2> QED
    BY <2>2, <2>3
<1>5. CASE CheckCommandLineArgs \/ FinishLoop
  <2>1. /\ pc \in {"args", "loop", "erase"} /\ UNCHANGED <<cmd, program, funcPairs, ir, i>>
        /\ pc' \in {"loop", "exit", "ran"}
    BY <1>5 DEF CheckCommandLineArgs, FinishLoop
  <2>2. SwappedCalls' = SwappedCalls
    BY <2>1, SameSwaps DEF SwappedCalls
  <2>3. Mode("swap") /\ pc' \in {"ran", "done"} => Swapping \subseteq SwappedCalls
    <3> SUFFICES ASSUME Mode("swap"), pc' = "ran" PROVE i >= Len(cmd.pos)
      BY <2>1, AllSwapped
    <3>1. pc # "erase"
      <4>1. pc = "erase" => Mode("rm") /\ ExactlyOneMode
        BY DEF IInv, ArgsInv, RemoveInv, Looping, ArgsAccepted
      <4> QED
        BY <4>1 DEF ExactlyOneMode, Modes
    <3>2. ~NoMode
      BY DEF NoMode, Modes
    <3> QED
      BY <1>5, <3>1, <3>2 DEF CheckCommandLineArgs, FinishLoop
  <2> QED
    BY <2>1, <2>2, <2>3, SamePlaces
<1>6. CASE PrintPairs
  <2>1. /\ pc = "ran" /\ UNCHANGED <<cmd, program, funcPairs, i>>
        /\ ir' = IF VerbosePrint THEN Dereference(ir, AllCalls) ELSE ir
        /\ pc' = IF Faulted(ir') THEN "fault" ELSE "done"
    BY <1>6 DEF PrintPairs
  <2>2. pc' # "fault" => ir' = ir
    <3>1. ir = [body |-> ir.body, op |-> ir.op, freed |-> ir.freed, fault |-> ir.fault]
      BY DEF OrderInv, Ordered, IsIR
    <3>2. [ir EXCEPT !.fault = "dangling"].fault = "dangling"
      BY <3>1
    <3> QED
      BY <2>1, <3>2 DEF Dereference, Guarded, Faulted
  <2>3. SwappedCalls' = SwappedCalls
    BY <2>1, SameSwaps DEF SwappedCalls
  <2>4. Mode("swap") /\ DisjointSwaps => Swapping \subseteq SwappedCalls
    BY <2>1 DEF SwapPlaces, Ran
  <2> QED
    BY <2>1, <2>2, <2>3, <2>4, SamePlaces
<1>7. CASE \/ CollectPair \/ SkipCollect \/ StartErasing \/ EraseNext
           \/ ShiftPair \/ SkipShift \/ SplitPair \/ SkipSplit
  <2>1. /\ pc \in {"loop", "erase"} /\ UNCHANGED <<cmd, program, funcPairs>>
        /\ Mode("rm") \/ Mode("shift") \/ Mode("split")
    BY <1>7 DEF CollectPair, SkipCollect, StartErasing, EraseNext, ShiftPair, SkipShift,
       SplitPair, SkipSplit, Skip, InLoop, IInv, RemoveInv
  <2>2. ~Mode("swap")
    <3>1. ExactlyOneMode
      BY <2>1 DEF IInv, ArgsInv, Looping, ArgsAccepted
    <3> QED
      BY <2>1, <3>1 DEF ExactlyOneMode, Modes
  <2> QED
    BY <2>1, <2>2, SamePlaces
<1> QED
  BY <1>1, <1>2, <1>3, <1>4, <1>5, <1>6, <1>7 DEF Next, Terminated

\* -swap of pairs that share no call: each place of a call of a group holds in the end
\* the operation of its partner, every other place what it held (PosixLock.cpp:180-283).
THEOREM SwapsExactly == Spec => []SwapExact
<1>1. Init => SwapPlaces
  BY DEF Init, SwapPlaces
<1>2. IInv /\ OrderInv /\ SwapPlaces => SwapExact
  <2> SUFFICES ASSUME IInv, OrderInv, SwapPlaces, Mode("swap"), Ran, DisjointSwaps,
                      NEW f \in 1..Len(program)
               PROVE  /\ Len(ir.body[f]) = Len(Original(f))
                      /\ \A n \in 1..Len(ir.body[f]) :
                           IF Original(f)[n] \notin Swapping
                           THEN ir.body[f][n] = Original(f)[n]
                           ELSE \E other \in Swapping :
                                  /\ Partners(Original(f)[n], other)
                                  /\ ir.op[ir.body[f][n]] = FlattenSeq(program)[other]
    BY DEF SwapExact
  <2>1. /\ Len(ir.body[f]) = Len(Original(f)) /\ \A n \in 1..Len(Original(f)) : PlaceHolds(f, n)
        /\ Swapping \subseteq SwappedCalls
    BY DEF SwapPlaces, Ran
  <2>2. SwappedCalls \subseteq Swapping
    BY DEF SwappedCalls, Swapping
  <2>3. SwappedCalls = Swapping
    BY <2>1, <2>2
  <2> QED
    BY <2>1, <2>3 DEF PlaceHolds
<1> QED
  BY <1>1, <1>2, PlacesStep, Invariance, OrderIsKept, PTL DEF Spec

-----------------------------------------------------------------------------
(* -shift and -split: the instruction a call is inserted before *)

\* A body none of whose instructions is newer than limit.
Bounded(b, limit) ==
  /\ b \in Seq(Nat) /\ limit \in Nat
  /\ \A n \in 1..Len(b) : b[n] <= limit

\* The first instruction behind one that is not newer than limit.
LEMMA BeforeIs ==
  ASSUME NEW t, NEW q, NEW x, Holds(t, q, x), NEW limit \in Nat,
         NEW k \in (q + 1)..Len(t), t[k] <= limit,
         \A m \in (q + 1)..(k - 1) : t[m] > limit
  PROVE  Before(t, x, limit) = t[k]
<1> DEFINE later == {m \in (q + 1)..Len(t) : t[m] <= limit}
<1>1. t \in Seq(Nat) /\ Len(t) \in Nat /\ q \in 1..Len(t)
  BY DEF Holds
<1>2. (CHOOSE m \in 1..Len(t) : t[m] = x) = q
  BY DEF Holds
<1>3. k \in later /\ later # {}
  OBVIOUS
<1>4. \A m \in later : k <= m
  <2> SUFFICES ASSUME NEW m \in later, m < k PROVE FALSE
    BY <1>1
  <2>1. m \in (q + 1)..(k - 1) /\ t[m] <= limit /\ t[m] \in Nat
    BY <1>1
  <2> QED
    BY <2>1
<1>5. \A m \in later : (\A o \in later : m <= o) => m = k
  <2> SUFFICES ASSUME NEW m \in later, \A o \in later : m <= o PROVE m = k
    OBVIOUS
  <2>1. m <= k /\ k <= m /\ m \in Int /\ k \in Int
    BY <1>1, <1>3, <1>4
  <2> QED
    BY <2>1
<1>6. (CHOOSE m \in later : \A o \in later : m <= o) = k
  BY <1>3, <1>4, <1>5
<1> DEFINE first == CHOOSE m \in 1..Len(t) : t[m] = x
           behind(n) == {m \in (n + 1)..Len(t) : t[m] <= limit}
           least(n)  == IF behind(n) = {} THEN 0 ELSE t[CHOOSE m \in behind(n) : \A o \in behind(n) : m <= o]
<1>7. Before(t, x, limit) = least(first)
  BY DEF Before
<1>8. first = q
  BY <1>2
<1> HIDE DEF first
<1>9. least(first) = least(q)
  BY <1>8
<1>10. least(q) = IF later = {} THEN 0 ELSE t[CHOOSE m \in later : \A o \in later : m <= o]
  OBVIOUS
<1> HIDE DEF least, later
<1>11. Before(t, x, limit) = IF later = {} THEN 0 ELSE t[CHOOSE m \in later : \A o \in later : m <= o]
  BY <1>7, <1>9, <1>10
<1> QED
  BY <1>3, <1>6, <1>11

\* A new instruction inserted at a place lies before the one that was there.
LandsAt(b, q, new, limit) ==
  Before(InsertAt(b, q, new), new, limit) = b[q]

LEMMA OneInserted ==
  ASSUME NEW b, NEW limit, Bounded(b, limit), NEW q \in 1..Len(b), NEW new \in Nat, new > limit
  PROVE  LandsAt(b, q, new, limit)
<1> DEFINE t == InsertAt(b, q, new)
           size == Len(b)
<1>1. b \in Seq(Nat) /\ size \in Nat /\ q \in 1..size /\ limit \in Nat
      /\ \A n \in 1..size : b[n] \in Nat /\ b[n] <= limit
  BY DEF Bounded
<1>2. Widens(b, q, new, t)
  <2>1. q \in 1..(Len(b) + 1)
    BY <1>1
  <2> QED
    BY <1>1, <2>1, InsertAtFacts
<1> HIDE DEF t
<1>3. /\ t \in Seq(Nat) /\ Len(t) = size + 1
      /\ \A k \in 1..(q - 1) : t[k] = b[k]
      /\ t[q] = new
      /\ \A k \in q..size : t[k + 1] = b[k]
  BY <1>2 DEF Widens
<1>0. \A n \in 1..size : b[n] # new
  <2> SUFFICES ASSUME NEW n \in 1..size, b[n] = new PROVE FALSE
    OBVIOUS
  <2>1. b[n] <= limit
    BY <1>1
  <2> QED
    BY <1>1, <2>1
<1> HIDE DEF size
<1>4. ASSUME NEW m \in 1..(size + 1), t[m] = new PROVE m = q
  <2>1. CASE m < q
    <3>1. m \in 1..(q - 1) /\ m \in 1..size
      BY <1>1, <2>1
    <3> QED
      BY <1>0, <1>3, <1>4, <3>1
  <2>2. CASE m > q
    <3>1. m - 1 \in q..size /\ m - 1 \in 1..size /\ (m - 1) + 1 = m
      BY <1>1, <2>2
    <3>2. t[m] = b[m - 1]
      BY <1>3, <3>1
    <3> QED
      BY <1>0, <1>4, <3>1, <3>2
  <2> QED
    BY <1>1, <2>1, <2>2
<1>5. Holds(t, q, new)
  <2>1. q \in 1..(size + 1)
    BY <1>1
  <2> QED
    BY <1>3, <1>4, <2>1 DEF Holds
<1>6. q + 1 \in (q + 1)..Len(t) /\ t[q + 1] = b[q] /\ t[q + 1] <= limit
  BY <1>1, <1>3
<1>7. \A m \in (q + 1)..((q + 1) - 1) : t[m] > limit
  BY <1>1
<1>8. Before(t, new, limit) = t[q + 1]
  <2> DEFINE k == q + 1
  <2>1. limit \in Nat /\ k \in (q + 1)..Len(t) /\ t[k] <= limit /\ \A m \in (q + 1)..(k - 1) : t[m] > limit
    BY <1>1, <1>6, <1>7
  <2> HIDE DEF k
  <2>2. Before(t, new, limit) = t[k]
    BY <1>5, <2>1, BeforeIs
  <2> QED
    BY <2>2 DEF k
<1> QED
  BY <1>6, <1>8 DEF LandsAt, t

\* Two of them, also when the second comes next to the first.
BothLand(b, p, u, q, l, limit) ==
  LET t == InsertAt(InsertAt(b, p, u), q, l)
  IN  /\ Before(t, u, limit) = b[p]
      /\ Before(t, l, limit) = IF q <= p THEN b[q] ELSE b[q - 1]

LEMMA TwoInserted ==
  ASSUME NEW b, NEW limit, Bounded(b, limit), NEW p \in 1..Len(b), NEW q \in 1..(Len(b) + 1),
         NEW u \in Nat, u > limit, NEW l \in Nat, l > limit, u # l
  PROVE  BothLand(b, p, u, q, l, limit)
<1> DEFINE one == InsertAt(b, p, u)
           two == InsertAt(one, q, l)
           size == Len(b)
           up   == IF q <= p THEN p + 1 ELSE p
<1>1. b \in Seq(Nat) /\ size \in Nat /\ p \in 1..size /\ q \in 1..(size + 1) /\ limit \in Nat
      /\ \A n \in 1..size : b[n] \in Nat /\ b[n] <= limit
  BY DEF Bounded
<1>2. Widens(b, p, u, one)
  <2>1. p \in 1..(Len(b) + 1)
    BY <1>1
  <2> QED
    BY <1>1, <2>1, InsertAtFacts
<1> HIDE DEF one
<1>3. /\ one \in Seq(Nat) /\ Len(one) = size + 1
      /\ \A k \in 1..(p - 1) : one[k] = b[k]
      /\ one[p] = u
      /\ \A k \in p..size : one[k + 1] = b[k]
  BY <1>2 DEF Widens
<1>4. Widens(one, q, l, two)
  <2>1. q \in 1..(Len(one) + 1)
    BY <1>1, <1>3
  <2> QED
    BY <1>3, <2>1, InsertAtFacts
<1> HIDE DEF two
<1>5. /\ two \in Seq(Nat) /\ Len(two) = size + 2
      /\ \A k \in 1..(q - 1) : two[k] = one[k]
      /\ two[q] = l
      /\ \A k \in q..(size + 1) : two[k + 1] = one[k]
  <2>1. Len(one) + 1 = size + 2
    BY <1>1, <1>3
  <2> QED
    BY <1>3, <1>4, <2>1 DEF Widens
<1> HIDE DEF size
<1>6. \A k \in 1..(size + 1) : k # p => one[k] <= limit /\ one[k] \in Nat
  <2> SUFFICES ASSUME NEW k \in 1..(size + 1), k # p PROVE one[k] <= limit /\ one[k] \in Nat
    OBVIOUS
  <2>1. CASE k < p
    <3>1. k \in 1..(p - 1) /\ k \in 1..size
      BY <1>1, <2>1
    <3> QED
      BY <1>1, <1>3, <3>1
  <2>2. CASE k > p
    <3>1. k - 1 \in p..size /\ k - 1 \in 1..size /\ (k - 1) + 1 = k
      BY <1>1, <2>2
    <3>2. one[k] = b[k - 1]
      BY <1>3, <3>1
    <3> QED
      BY <1>1, <3>1, <3>2
  <2> QED
    BY <1>1, <2>1, <2>2
<1>7. \A m \in 1..(size + 2) : two[m] \in Nat /\ (m # q /\ m # up => two[m] <= limit)
                               /\ (m = up => two[m] = u) /\ (m = q => two[m] = l)
  <2> SUFFICES ASSUME NEW m \in 1..(size + 2)
               PROVE  two[m] \in Nat /\ (m # q /\ m # up => two[m] <= limit)
                      /\ (m = up => two[m] = u) /\ (m = q => two[m] = l)
    OBVIOUS
  <2>1. CASE m < q
    <3>1. m \in 1..(q - 1) /\ m \in 1..(size + 1) /\ (m = up <=> m = p)
      BY <1>1, <2>1
    <3> QED
      BY <1>1, <1>3, <1>5, <1>6, <2>1, <3>1
  <2>2. CASE m > q
    <3>1. m - 1 \in q..(size + 1) /\ m - 1 \in 1..(size + 1) /\ (m - 1) + 1 = m
          /\ (m = up <=> m - 1 = p)
      BY <1>1, <2>2
    <3>2. two[m] = one[m - 1]
      BY <1>5, <3>1
    <3>3. m - 1 # p => two[m] <= limit /\ two[m] \in Nat
      BY <1>6, <3>1, <3>2
    <3>4. m - 1 = p => two[m] = u
      BY <1>3, <3>2
    <3>5. m # q
      BY <1>1, <2>2
    <3> HIDE DEF up
    <3> QED
      BY <3>1, <3>3, <3>4, <3>5
  <2>3. CASE m = q
    BY <1>1, <1>5, <2>3
  <2> QED
    BY <1>1, <2>1, <2>2, <2>3
<1>8. up \in 1..(size + 2) /\ q \in 1..(size + 2) /\ up # q
  BY <1>1
<1>9. Holds(two, up, u)
  <2>1. ASSUME NEW m \in 1..(size + 2), two[m] = u PROVE m = up
    BY <1>1, <1>7, <2>1
  <2> QED
    BY <1>5, <1>7, <1>8, <2>1 DEF Holds
<1>10. Holds(two, q, l)
  <2>1. ASSUME NEW m \in 1..(size + 2), two[m] = l PROVE m = q
    BY <1>1, <1>7, <2>1
  <2> QED
    BY <1>5, <1>7, <1>8, <2>1 DEF Holds
<1>11. Before(two, u, limit) = b[p]
  <2>1. CASE q = p + 1
    <3>1. up = p /\ p + 2 \in (up + 1)..Len(two) /\ p + 2 \in 1..(size + 2)
      BY <1>1, <1>5, <2>1
    <3>2. two[p + 2] = b[p]
      <4>1. p + 1 \in q..(size + 1) /\ (p + 1) + 1 = p + 2 /\ p \in p..size
        BY <1>1, <2>1
      <4>2. two[(p + 1) + 1] = one[p + 1]
        BY <1>5, <4>1
      <4> QED
        BY <1>3, <4>1, <4>2
    <3>3. \A m \in (up + 1)..((p + 2) - 1) : two[m] > limit
      <4>1. \A m \in (up + 1)..((p + 2) - 1) : m = q
        BY <1>1, <2>1, <3>1
      <4> QED
        BY <1>5, <4>1
    <3>4. two[p + 2] <= limit
      BY <1>1, <3>2
    <3> HIDE DEF up
    <3>5. Before(two, u, limit) = two[p + 2]
      <4> DEFINE k == p + 2
      <4>1. /\ limit \in Nat /\ k \in (up + 1)..Len(two) /\ two[k] <= limit
            /\ \A m \in (up + 1)..(k - 1) : two[m] > limit
        BY <1>1, <3>1, <3>3, <3>4
      <4> HIDE DEF k
      <4>2. Before(two, u, limit) = two[k]
        BY <1>9, <4>1, BeforeIs
      <4> QED
        BY <4>2 DEF k
    <3> QED
      BY <3>2, <3>5
  <2>2. CASE q # p + 1
    <3>1. up + 1 \in (up + 1)..Len(two) /\ up + 1 \in 1..(size + 2)
      BY <1>1, <1>5
    <3>2. two[up + 1] = b[p]
      <4>0. p \in p..size /\ one[p + 1] = b[p]
        BY <1>1, <1>3
      <4>1. CASE q <= p
        <5>1. up = p + 1 /\ p + 1 \in q..(size + 1)
          BY <1>1, <4>1
        <5> QED
          BY <1>5, <4>0, <5>1
      <4>2. CASE ~(q <= p)
        <5>1. up = p /\ p + 1 \in 1..(q - 1)
          BY <1>1, <2>2, <4>2
        <5> QED
          BY <1>5, <4>0, <5>1
      <4> QED
        BY <4>1, <4>2
    <3>3. \A m \in (up + 1)..((up + 1) - 1) : two[m] > limit
      BY <1>1
    <3>4. two[up + 1] <= limit
      BY <1>1, <3>2
    <3> HIDE DEF up
    <3>5. Before(two, u, limit) = two[up + 1]
      <4> DEFINE k == up + 1
      <4>1. /\ limit \in Nat /\ k \in (up + 1)..Len(two) /\ two[k] <= limit
            /\ \A m \in (up + 1)..(k - 1) : two[m] > limit
        BY <1>1, <3>1, <3>3, <3>4
      <4> HIDE DEF k
      <4>2. Before(two, u, limit) = two[k]
        BY <1>9, <4>1, BeforeIs
      <4> QED
        BY <4>2 DEF k
    <3> QED
      BY <3>2, <3>5
  <2> QED
    BY <2>1, <2>2
<1>12. Before(two, l, limit) = IF q <= p THEN b[q] ELSE b[q - 1]
  <2>1. CASE q = p
    <3>1. up = p + 1 /\ q + 2 \in (q + 1)..Len(two)
      BY <1>1, <1>5, <2>1
    <3>2. two[q + 2] = b[q]
      <4>1. p + 1 \in q..(size + 1) /\ (p + 1) + 1 = q + 2 /\ p \in p..size
        BY <1>1, <2>1
      <4>2. two[(p + 1) + 1] = one[p + 1]
        BY <1>5, <4>1
      <4> QED
        BY <1>3, <2>1, <4>1, <4>2
    <3>3. \A m \in (q + 1)..((q + 2) - 1) : two[m] > limit
      <4>1. \A m \in (q + 1)..((q + 2) - 1) : m = up
        BY <1>1, <2>1, <3>1
      <4>2. two[up] = u
        BY <1>7, <1>8
      <4> QED
        BY <4>1, <4>2
    <3>4. two[q + 2] <= limit
      BY <1>1, <2>1, <3>2
    <3>5. Before(two, l, limit) = two[q + 2]
      <4> DEFINE k == q + 2
      <4>1. /\ limit \in Nat /\ k \in (q + 1)..Len(two) /\ two[k] <= limit
            /\ \A m \in (q + 1)..(k - 1) : two[m] > limit
        BY <1>1, <3>1, <3>3, <3>4
      <4> HIDE DEF k
      <4>2. Before(two, l, limit) = two[k]
        BY <1>10, <4>1, BeforeIs
      <4> QED
        BY <4>2 DEF k
    <3> QED
      BY <1>1, <2>1, <3>2, <3>5
  <2>2. CASE q # p
    <3>1. q + 1 \in (q + 1)..Len(two) /\ q \in q..(size + 1)
      BY <1>1, <1>5
    <3>2. two[q + 1] = one[q]
      BY <1>5, <3>1
    <3>3. one[q] = IF q <= p THEN b[q] ELSE b[q - 1]
      <4>1. CASE q <= p
        <5>1. q \in 1..(p - 1)
          BY <1>1, <2>2, <4>1
        <5> QED
          BY <1>3, <4>1, <5>1
      <4>2. CASE ~(q <= p)
        <5>1. q - 1 \in p..size /\ (q - 1) + 1 = q
          BY <1>1, <4>2
        <5>2. one[(q - 1) + 1] = b[q - 1]
          BY <1>3, <5>1
        <5> QED
          BY <4>2, <5>1, <5>2
      <4> QED
        BY <4>1, <4>2
    <3>4. two[q + 1] <= limit
      BY <1>1, <1>6, <2>2, <3>2
    <3>5. \A m \in (q + 1)..((q + 1) - 1) : two[m] > limit
      BY <1>1
    <3>6. Before(two, l, limit) = two[q + 1]
      <4> DEFINE k == q + 1
      <4>1. /\ limit \in Nat /\ k \in (q + 1)..Len(two) /\ two[k] <= limit
            /\ \A m \in (q + 1)..(k - 1) : two[m] > limit
        BY <1>1, <3>1, <3>4, <3>5
      <4> HIDE DEF k
      <4>2. Before(two, l, limit) = two[k]
        BY <1>10, <4>1, BeforeIs
      <4> QED
        BY <4>2 DEF k
    <3> QED
      BY <3>2, <3>3, <3>6
  <2> QED
    BY <2>1, <2>2
<1> QED
  BY <1>11, <1>12 DEF BothLand, one, two

-----------------------------------------------------------------------------
(* No instruction of a body is newer than the last one made *)

\* A module with at least k instructions made, unless something undefined happened.
Room(r, k) ==
  /\ Ordered(r)
  /\ \A f \in 1..Len(program) : Bounded(r.body[f], Len(r.op))
  /\ r.fault = "none" => k <= Len(r.op)

LEMMA RoomFault ==
  ASSUME NEW r, NEW k, Room(r, k), NEW kind, kind # "none", NEW j
  PROVE  Room([r EXCEPT !.fault = kind], j)
<1> DEFINE s == [r EXCEPT !.fault = kind]
<1>1. Leads(r, s, {}) /\ r = [body |-> r.body, op |-> r.op, freed |-> r.freed, fault |-> r.fault]
  BY FaultOrdered DEF Room, Ordered, IsIR
<1>2. s.body = r.body /\ s.op = r.op /\ s.fault = kind
  BY <1>1
<1> HIDE DEF s
<1>3. Room(s, j)
  BY <1>1, <1>2 DEF Room, Leads
<1> QED
  BY <1>3 DEF s

LEMMA RoomGuarded ==
  ASSUME NEW r, NEW k, Room(r, k), NEW bad, NEW kind, kind # "none", NEW good, NEW j,
         r.fault = "none" /\ ~bad => Room(good, j)
  PROVE  Room(Guarded(r, bad, kind, good), j)
<1>1. r.fault # "none" => Room(r, j)
  BY DEF Room
<1>2. Room([r EXCEPT !.fault = kind], j)
  BY RoomFault
<1> QED
  BY <1>1, <1>2 DEF Guarded

\* An operation that changes the body of one function.
LEMMA RoomBody ==
  ASSUME program \in Programs, NEW r, NEW k, Room(r, k), r.fault = "none", NEW s, NEW gone,
         Leads(r, s, gone), NEW f \in 1..Len(program), NEW b,
         s.body = [r.body EXCEPT ![f] = b], s.op = r.op, Bounded(b, Len(r.op))
  PROVE  Room(s, k)
<1>1. r.body \in Seq(Seq(Nat)) /\ Len(r.body) = Len(program)
  BY DEF Room, Ordered
<1>2. \A g \in 1..Len(program) : s.body[g] = IF g = f THEN b ELSE r.body[g]
  BY <1>1
<1>3. \A g \in 1..Len(program) : Bounded(s.body[g], Len(s.op))
  BY <1>2 DEF Room
<1>4. k <= Len(s.op) /\ Ordered(s)
  BY DEF Room, Leads
<1> QED
  BY <1>3, <1>4 DEF Room

LEMMA OpCount == ASSUME NEW r, Ordered(r) PROVE Len(r.op) \in Nat
<1>1. r.op \in Seq(Operation)
  BY DEF Ordered
<1> QED
  BY <1>1

\* Making copies makes room for them.
LEMMA RoomCopies ==
  ASSUME program \in Programs, NEW r, NEW k, Room(r, k), NEW insts \in Seq(1..Total)
  PROVE  Room(CreateCopies(r, insts), Len(r.op) + Len(insts))
<1> DEFINE s == CreateCopies(r, insts)
<1>1. Ordered(r) /\ Len(r.op) \in Nat /\ Len(insts) \in Nat
  BY OpCount DEF Room
<1>2. /\ Leads(r, s, {}) /\ s.body = r.body
      /\ r.fault = "none" /\ ToSet(insts) \cap r.freed = {} => Len(s.op) = Len(r.op) + Len(insts)
  BY <1>1, CopiesLead
<1>3. s.fault = "none" => r.fault = "none" /\ ToSet(insts) \cap r.freed = {}
  <2> DEFINE good == [r EXCEPT !.op = @ \o [n \in 1..Len(insts) |-> r.op[insts[n]]]]
             bad  == ToSet(insts) \cap r.freed # {}
  <2>1. s = Guarded(r, bad, "dangling", good)
    BY DEF CreateCopies
  <2>2. [r EXCEPT !.fault = "dangling"].fault = "dangling"
    BY <1>1 DEF Ordered, IsIR
  <2> HIDE DEF s, good, bad
  <2>3. s.fault = "none" => r.fault = "none" /\ ~bad
    BY <2>1, <2>2 DEF Guarded
  <2> QED
    BY <2>3 DEF bad
<1> HIDE DEF s
<1>4. Ordered(s) /\ Len(s.op) \in Nat /\ Len(r.op) <= Len(s.op)
  BY <1>2, OpCount DEF Leads
<1>5. ASSUME NEW f \in 1..Len(program) PROVE Bounded(s.body[f], Len(s.op))
  <2> DEFINE b == r.body[f]
  <2>1. Bounded(b, Len(r.op)) /\ s.body[f] = b
    BY <1>2 DEF Room
  <2> HIDE DEF b
  <2>2. Bounded(b, Len(s.op))
    BY <1>1, <1>4, <2>1 DEF Bounded
  <2> QED
    BY <2>1, <2>2
<1>6. s.fault = "none" => Len(r.op) + Len(insts) <= Len(s.op)
  BY <1>1, <1>2, <1>3
<1>7. Room(s, Len(r.op) + Len(insts))
  BY <1>4, <1>5, <1>6 DEF Room
<1> QED
  BY <1>7 DEF s

\* Erasing adds nothing.
LEMMA BoundedRemove ==
  ASSUME NEW b, NEW limit, Bounded(b, limit), NEW p \in 1..Len(b)
  PROVE  Bounded(RemoveAt(b, p), limit)
<1> DEFINE t == RemoveAt(b, p)
           size == Len(b)
<1>1. b \in Seq(Nat) /\ size \in Nat /\ limit \in Nat /\ \A n \in 1..size : b[n] <= limit
  BY DEF Bounded
<1>2. /\ t \in Seq(Nat) /\ Len(t) = size - 1
      /\ \A n \in 1..(p - 1) : t[n] = b[n]
      /\ \A n \in p..(size - 1) : t[n] = b[n + 1]
  BY <1>1, RemoveAtFacts
<1> HIDE DEF t
<1>3. ASSUME NEW n \in 1..Len(t) PROVE t[n] <= limit
  <2> HIDE DEF size
  <2>0. p \in 1..size /\ n \in 1..(size - 1)
    BY <1>2 DEF size
  <2>1. CASE n < p
    <3>1. n \in 1..(p - 1) /\ n \in 1..size
      BY <1>1, <2>0, <2>1
    <3> QED
      BY <1>1, <1>2, <3>1
  <2>2. CASE ~(n < p)
    <3>1. n \in p..(size - 1) /\ n + 1 \in 1..size
      BY <1>1, <2>0, <2>2
    <3> QED
      BY <1>1, <1>2, <3>1
  <2> QED
    BY <2>1, <2>2
<1>4. Bounded(t, limit)
  BY <1>1, <1>2, <1>3 DEF Bounded
<1> QED
  BY <1>4 DEF t

LEMMA RoomErase ==
  ASSUME program \in Programs, NEW r, NEW k, Room(r, k), NEW f \in 1..Len(program),
         NEW x \in ToSet(Original(f))
  PROVE  Room(EraseInst(r, x), k)
<1> DEFINE s == EraseInst(r, x)
           b == r.body[f]
           p == PosOf(r, x)
<1>1. Ordered(r) /\ Bounded(b, Len(r.op))
  BY DEF Room
<1>2. ASSUME r.fault = "none", x \notin r.freed PROVE Room(s, k)
  <2>1. /\ Leads(r, s, {x})
        /\ s.body = [r.body EXCEPT ![f] = RemoveAt(b, p)] /\ s.op = r.op
    BY <1>1, <1>2, EraseLeads
  <2>2. p \in 1..Len(b)
    BY <1>1, <1>2, LivePlace
  <2> HIDE DEF s, b, p
  <2>4. Bounded(RemoveAt(b, p), Len(r.op))
    BY <1>1, <2>2, BoundedRemove
  <2> QED
    BY <1>2, <2>1, <2>4, RoomBody DEF b
<1>3. CASE r.fault # "none"
  BY <1>3 DEF EraseInst, Guarded
<1>4. CASE r.fault = "none" /\ x \in r.freed
  <2>1. s = [r EXCEPT !.fault = "dangling"]
    BY <1>4 DEF EraseInst, Guarded
  <2>2. Room([r EXCEPT !.fault = "dangling"], k)
    BY RoomFault
  <2> QED
    BY <2>1, <2>2
<1> QED
  BY <1>2, <1>3, <1>4

\* Nor does replacing by an instruction already made.
LEMMA RoomReplace ==
  ASSUME program \in Programs, NEW r, NEW k, Room(r, k), NEW f \in 1..Len(program),
         NEW x \in ToSet(Original(f)), NEW new \in Nat, new > Total, k \in Nat, new <= k
  PROVE  Room(ReplaceInst(r, x, new), k)
<1> DEFINE s == ReplaceInst(r, x, new)
           b == r.body[f]
           p == PosOf(r, x)
<1>1. Ordered(r) /\ Bounded(b, Len(r.op))
  BY DEF Room
<1>2. ASSUME r.fault = "none", x \notin r.freed PROVE Room(s, k)
  <2>1. Leads(r, s, {x}) /\ Replaced(r, s, f, x, new)
    BY <1>1, <1>2, ReplaceLeads
  <2>2. p \in 1..Len(b)
    BY <1>1, <1>2, LivePlace
  <2>3. s.body = [r.body EXCEPT ![f] = ReplaceAt(b, p, new)] /\ s.op = r.op
    BY <2>1 DEF Replaced
  <2>4. k <= Len(r.op)
    BY <1>2 DEF Room
  <2> HIDE DEF s, b, p
  <2>5. Bounded(ReplaceAt(b, p, new), Len(r.op))
    <3> DEFINE size == Len(b)
    <3>1. /\ b \in Seq(Nat) /\ size \in Nat /\ Len(r.op) \in Nat
          /\ \A n \in 1..size : b[n] \in Nat /\ b[n] <= Len(r.op)
      BY <1>1 DEF Bounded
    <3>2. new <= Len(r.op)
      BY <2>4, <3>1
    <3>3. ReplaceAt(b, p, new) \in [1..size -> Nat]
          /\ \A n \in 1..size : ReplaceAt(b, p, new)[n] = IF n = p THEN new ELSE b[n]
      <4>1. ReplaceAt(b, p, new) = [b EXCEPT ![p] = new] /\ b \in [1..size -> Nat]
        BY <3>1 DEF ReplaceAt
      <4> QED
        BY <4>1
    <3> HIDE DEF size
    <3>4. ReplaceAt(b, p, new) \in Seq(Nat) /\ Len(ReplaceAt(b, p, new)) = size
      BY <3>1, <3>3, AsSeq
    <3> QED
      BY <3>1, <3>2, <3>3, <3>4 DEF Bounded
  <2> QED
    BY <1>2, <2>1, <2>3, <2>5, RoomBody
<1>3. CASE r.fault # "none"
  BY <1>3 DEF ReplaceInst, Guarded
<1>4. CASE r.fault = "none" /\ x \in r.freed
  <2>1. s = [r EXCEPT !.fault = "dangling"]
    BY <1>4 DEF ReplaceInst, Guarded
  <2>2. Room([r EXCEPT !.fault = "dangling"], k)
    BY RoomFault
  <2> QED
    BY <2>1, <2>2
<1> QED
  BY <1>2, <1>3, <1>4

\* An insertion that is inside the body, as long as it is the first fault that counts.
LEMMA RoomInsert ==
  ASSUME program \in Programs, NEW r, NEW k, Room(r, k), NEW f \in 1..Len(program),
         NEW p \in Nat \ {0}, NEW new \in Nat, new > Total, k \in Nat, new <= k
  PROVE  Room(InsertBefore(r, f, p, new), k)
<1> DEFINE s == InsertBefore(r, f, p, new)
           b == r.body[f]
<1>1. Ordered(r) /\ Bounded(b, Len(r.op)) /\ Len(b) \in Nat
  BY DEF Room, Bounded
<1>2. ASSUME r.fault = "none", p <= Len(b) PROVE Room(s, k)
  <2>1. /\ Leads(r, s, {})
        /\ s.body = [r.body EXCEPT ![f] = InsertAt(b, p, new)] /\ s.op = r.op
    BY <1>1, <1>2, InsertLeads
  <2>4. k <= Len(r.op)
    BY <1>2 DEF Room
  <2> HIDE DEF s, b
  <2> DEFINE t == InsertAt(b, p, new)
             size == Len(b)
  <2>2. Widens(b, p, new, t)
    <3>1. p \in 1..(Len(b) + 1) /\ b \in Seq(Nat)
      BY <1>1, <1>2 DEF Bounded
    <3> QED
      BY <3>1, InsertAtFacts
  <2> HIDE DEF t
  <2>3. /\ t \in Seq(Nat) /\ Len(t) = size + 1 /\ t[p] = new
        /\ \A n \in 1..(p - 1) : t[n] = b[n]
        /\ \A n \in p..size : t[n + 1] = b[n]
        /\ size \in Nat /\ p \in 1..size /\ Len(r.op) \in Nat
        /\ \A n \in 1..size : b[n] \in Nat /\ b[n] <= Len(r.op)
    <3>1. size \in Nat /\ p \in 1..size
      BY <1>1, <1>2
    <3>2. b \in Seq(Nat) /\ Len(r.op) \in Nat /\ \A n \in 1..size : b[n] <= Len(r.op)
      BY <1>1 DEF Bounded
    <3>3. \A n \in 1..size : b[n] \in Nat
      BY <3>2
    <3>4. /\ t \in Seq(Nat) /\ Len(t) = size + 1 /\ t[p] = new
          /\ \A n \in 1..(p - 1) : t[n] = b[n]
          /\ \A n \in p..size : t[n + 1] = b[n]
      BY <2>2 DEF Widens
    <3> QED
      BY <3>1, <3>2, <3>3, <3>4
  <2> HIDE DEF size
  <2>5. ASSUME NEW n \in 1..(size + 1) PROVE t[n] <= Len(r.op)
    <3>1. CASE n < p
      <4>1. n \in 1..(p - 1) /\ n \in 1..size
        BY <2>3, <3>1
      <4> QED
        BY <2>3, <4>1
    <3>2. CASE n > p
      <4>1. n - 1 \in p..size /\ n - 1 \in 1..size /\ (n - 1) + 1 = n
        BY <2>3, <3>2
      <4>2. t[n] = b[n - 1]
        BY <2>3, <4>1
      <4> QED
        BY <2>3, <4>1, <4>2
    <3>3. CASE n = p
      BY <2>3, <2>4, <3>3
    <3> QED
      BY <2>3, <3>1, <3>2, <3>3
  <2>6. Bounded(t, Len(r.op))
    BY <2>3, <2>5 DEF Bounded
  <2> QED
    BY <1>2, <2>1, <2>6, RoomBody DEF t
<1>3. CASE r.fault # "none"
  BY <1>3 DEF InsertBefore, Guarded
<1>4. CASE r.fault = "none" /\ p > Len(b)
  <2>1. s = [r EXCEPT !.fault = "end"]
    BY <1>4 DEF InsertBefore, Guarded
  <2>2. Room([r EXCEPT !.fault = "end"], k)
    BY RoomFault
  <2> QED
    BY <2>1, <2>2
<1>5. p <= Len(b) \/ p > Len(b)
  <2> HIDE DEF b
  <2> QED
    BY <1>1
<1> QED
  BY <1>2, <1>3, <1>4, <1>5

LEMMA RoomInsertRelative ==
  ASSUME program \in Programs, NEW r, NEW k, Room(r, k), NEW f \in 1..Len(program),
         NEW base \in ToSet(Original(f)), NEW new \in Nat, new > Total, k \in Nat, new <= k,
         NEW distance \in Nat
  PROVE  Room(InsertInstructionRelative(r, base, new, distance), k)
<1> DEFINE p    == RelativePlace(r, base, distance)
           good == InsertBefore(r, FuncOf(r, base), p, new)
<1>1. base \notin r.freed => Room(good, k)
  <2>1. ASSUME base \notin r.freed PROVE Room(good, k)
    <3>1. Ordered(r)
      BY DEF Room
    <3>2. FuncOf(r, base) = f /\ p \in Nat \ {0}
      BY <2>1, <3>1, LivePlace, RelativeFacts
    <3> HIDE DEF p
    <3>3. Room(InsertBefore(r, f, p, new), k)
      BY <3>2, RoomInsert
    <3> QED
      BY <3>2, <3>3
  <2> QED
    BY <2>1
<1> HIDE DEF good
<1>2. Room(Guarded(r, base \in r.freed, "dangling", good), k)
  BY <1>1, RoomGuarded
<1> QED
  BY <1>2 DEF InsertInstructionRelative, good

\* The copy a shift inserts is the last instruction made.
LEMMA RoomShift ==
  ASSUME program \in Programs, NEW r, Room(r, 0), NEW f \in 1..Len(program),
         NEW inst \in ToSet(Original(f)), NEW dir \in Int
  PROVE  Room(ShiftCallInst(r, inst, dir), 0)
<1> DEFINE from   == PosOf(r, inst)
           to     == ShiftPlace(r, inst, dir)
           copied == CreateCopies(r, <<inst>>)
           erased == EraseInst(copied, inst)
           place  == IF to > from THEN to - 1 ELSE to
           put    == InsertBefore(erased, FuncOf(r, inst), place, NewInst(r))
           kept   == Guarded(erased, to = from, "dangling", put)
           moved  == Guarded(r, to > Len(r.body[FuncOf(r, inst)]), "end", kept)
           new    == Len(r.op) + 1
<1>0. Ordered(r) /\ new \in Nat /\ NewInst(r) = new /\ new > Total
  <2>1. Ordered(r)
    BY DEF Room
  <2>2. NewInst(r) \in Nat /\ NewInst(r) > Total
    BY <2>1, NewIsNew
  <2> QED
    BY <2>1, <2>2 DEF NewInst
<1>1. inst \in 1..Total /\ <<inst>> \in Seq(1..Total) /\ Len(<<inst>>) = 1
  BY OriginalSets
<1>2. Room(copied, new)
  <2>1. Room(CreateCopies(r, <<inst>>), Len(r.op) + Len(<<inst>>))
    BY <1>1, RoomCopies
  <2> QED
    BY <1>1, <2>1
<1> HIDE DEF copied, new
<1>3. Room(erased, new)
  BY <1>2, RoomErase
<1> HIDE DEF erased
<1>5. ASSUME inst \notin r.freed, dir # 0 PROVE Room(moved, 0)
  <2>0. Len(r.body[f]) \in Nat
    BY <1>0 DEF Ordered, InOrder
  <2>1. FuncOf(r, inst) = f /\ from \in 1..Len(r.body[f]) /\ Len(r.body[f]) \in Nat
    BY <1>0, <1>5, <2>0, LivePlace
  <2>2. to \in Nat \ {0}
    <3>1. CASE dir < 0
      BY <2>1, <3>1 DEF ShiftPlace
    <3>2. CASE ~(dir < 0)
      BY <1>0, <1>5, <3>2, RelativeFacts DEF ShiftPlace
    <3> QED
      BY <3>1, <3>2
  <2> HIDE DEF to, from
  <2>3. place \in Nat \ {0}
    BY <2>1, <2>2
  <2> HIDE DEF place
  <2>5. Room(put, new)
    <3>1. new <= new
      BY <1>0
    <3>2. Room(InsertBefore(erased, f, place, new), new)
      BY <1>0, <1>3, <2>3, <3>1, RoomInsert
    <3> QED
      BY <1>0, <2>1, <3>2
  <2> HIDE DEF put
  <2>6. Room(put, 0)
    BY <2>5, OpCount DEF Room
  <2>7. Room(kept, 0)
    BY <1>3, <2>6, RoomGuarded
  <2> HIDE DEF kept
  <2> QED
    BY <2>7, RoomGuarded
<1> HIDE DEF moved
<1>6. CASE dir = 0
  BY <1>6 DEF ShiftCallInst
<1>7. CASE dir # 0
  <2>1. ShiftCallInst(r, inst, dir) = Guarded(r, inst \in r.freed, "dangling", moved)
    BY <1>7 DEF ShiftCallInst, moved, kept, put, place, to, from, erased, copied
  <2>2. Room(Guarded(r, inst \in r.freed, "dangling", moved), 0)
    BY <1>5, <1>7, RoomGuarded
  <2> QED
    BY <2>1, <2>2
<1> QED
  BY <1>6, <1>7

\* So are the four copies of -swap,
LEMMA RoomSwap ==
  ASSUME program \in Programs, Room(ir, 0), NEW f1 \in 1..Len(program), NEW f2 \in 1..Len(program),
         NEW p1, IsPairOf(p1, f1), NEW p2, IsPairOf(p2, f2)
  PROVE  Room(Swapped(p1, p2), 0)
<1> DEFINE lock1  == NewInst(ir)
           insts  == <<p1.lockCall, p1.unlockCall, p2.lockCall, p2.unlockCall>>
           copied == CreateCopies(ir, insts)
           one    == ReplaceInst(copied, p1.lockCall, lock1 + 2)
           two    == ReplaceInst(one, p1.unlockCall, lock1 + 3)
           three  == ReplaceInst(two, p2.lockCall, lock1)
           four   == ReplaceInst(three, p2.unlockCall, lock1 + 1)
           k      == lock1 + 3
<1>1. Swapped(p1, p2) = four
  BY DEF Swapped
<1>2. /\ p1.lockCall \in ToSet(Original(f1)) /\ p1.unlockCall \in ToSet(Original(f1))
      /\ p2.lockCall \in ToSet(Original(f2)) /\ p2.unlockCall \in ToSet(Original(f2))
  BY DEF IsPairOf
<1>3. insts \in Seq(1..Total) /\ Len(insts) = 4
  <2>1. {p1.lockCall, p1.unlockCall, p2.lockCall, p2.unlockCall} \subseteq 1..Total
    BY <1>2, OriginalSets
  <2> QED
    BY <2>1
<1>4. /\ lock1 \in Nat /\ lock1 + 1 \in Nat /\ lock1 + 2 \in Nat /\ lock1 + 3 \in Nat
      /\ lock1 > Total /\ lock1 + 1 > Total /\ lock1 + 2 > Total /\ lock1 + 3 > Total
  BY NewIsNew DEF Room
<1>5. Len(ir.op) \in Nat /\ lock1 = Len(ir.op) + 1
  BY OpCount DEF Room, NewInst
<1>6. k \in Nat /\ lock1 <= k /\ lock1 + 1 <= k /\ lock1 + 2 <= k /\ lock1 + 3 <= k
      /\ k = Len(ir.op) + 4
  BY <1>5
<1> HIDE DEF lock1, insts, k
<1>7. Room(copied, k)
  <2>1. Room(copied, Len(ir.op) + Len(insts))
    BY <1>3, RoomCopies
  <2> QED
    BY <1>3, <1>6, <2>1
<1> HIDE DEF copied
<1>8. Room(one, k)
  BY <1>2, <1>4, <1>6, <1>7, RoomReplace
<1> HIDE DEF one
<1>9. Room(two, k)
  BY <1>2, <1>4, <1>6, <1>8, RoomReplace
<1> HIDE DEF two
<1>10. Room(three, k)
  BY <1>2, <1>4, <1>6, <1>9, RoomReplace
<1> HIDE DEF three
<1>11. Room(four, k)
  BY <1>2, <1>4, <1>6, <1>10, RoomReplace
<1> HIDE DEF four
<1>12. Room(four, 0)
  BY <1>11, OpCount DEF Room
<1> QED
  BY <1>1, <1>12

\* and the two of -split.
LEMMA RoomSplit ==
  ASSUME program \in Programs, Room(ir, 0), cmd \in Commands, i \in Nat, i + 1 < Len(cmd.splitpos),
         NEW f \in 1..Len(program), NEW pair, IsPairOf(pair, f)
  PROVE  Room(SplitApart(pair), 0)
<1> DEFINE insts    == <<pair.lockCall, pair.unlockCall>>
           copied   == CreateCopies(ir, insts)
           k        == NewInst(ir) + 1
           unlocked == InsertInstructionRelative(copied, pair.lockCall, NewInst(ir) + 1,
                                                 ToUnsigned(UnlockPos))
           lockPos  == IF UnlockPos < LockPos THEN LockPos + 1 ELSE LockPos
           locked   == InsertInstructionRelative(unlocked, pair.lockCall, NewInst(ir),
                                                 ToUnsigned(lockPos))
<1>1. SplitApart(pair) = locked
  BY DEF SplitApart
<1>2. pair.lockCall \in ToSet(Original(f)) /\ pair.unlockCall \in ToSet(Original(f))
  BY DEF IsPairOf
<1>3. insts \in Seq(1..Total) /\ Len(insts) = 2
  <2>1. {pair.lockCall, pair.unlockCall} \subseteq 1..Total
    BY <1>2, OriginalSets
  <2> QED
    BY <2>1
<1>4. /\ NewInst(ir) \in Nat /\ NewInst(ir) + 1 \in Nat
      /\ NewInst(ir) > Total /\ NewInst(ir) + 1 > Total
  BY NewIsNew DEF Room
<1>5. ToUnsigned(UnlockPos) \in Nat /\ ToUnsigned(lockPos) \in Nat
  BY SplitPositions
<1>6. Len(ir.op) \in Nat /\ k \in Nat /\ NewInst(ir) <= k /\ NewInst(ir) + 1 <= k
      /\ k = Len(ir.op) + 2
  BY OpCount DEF Room, NewInst
<1> HIDE DEF insts, lockPos, k
<1>7. Room(copied, k)
  <2>1. Room(copied, Len(ir.op) + Len(insts))
    BY <1>3, RoomCopies
  <2> QED
    BY <1>3, <1>6, <2>1
<1> HIDE DEF copied
<1>8. Room(unlocked, k)
  BY <1>2, <1>4, <1>5, <1>6, <1>7, RoomInsertRelative
<1> HIDE DEF unlocked
<1>9. Room(locked, k)
  BY <1>2, <1>4, <1>5, <1>6, <1>8, RoomInsertRelative
<1> HIDE DEF locked
<1>10. Room(locked, 0)
  BY <1>9, OpCount DEF Room
<1> QED
  BY <1>1, <1>10

\* Whatever is done to the module, no body has an instruction that was not made.
CountInv == \A f \in 1..Len(program) : Bounded(ir.body[f], Len(ir.op))

LEMMA CountRoom ==
  ASSUME OrderInv, CountInv
  PROVE  Room(ir, 0) /\ Ordered(ir) /\ program \in Programs
  BY OpCount DEF OrderInv, Visited, CountInv, Room

LEMMA InitCount == Init => CountInv
<1> SUFFICES ASSUME Init PROVE CountInv
  OBVIOUS
<1>1. program \in Programs /\ ir = Loaded(program)
  BY DEF Init
<1>2. ir.body = Numbered(program) /\ ir.op = FlattenSeq(program)
  BY <1>1 DEF Loaded
<1>3. ASSUME NEW f \in 1..Len(program) PROVE Bounded(ir.body[f], Len(ir.op))
  <2> DEFINE b == Original(f)
  <2>1. b \in Seq(Nat) /\ ToSet(b) \subseteq 1..Total /\ Total \in Nat
    BY <1>1, OriginalSets
  <2>2. ir.body[f] = b /\ Len(ir.op) = Total
    BY <1>2 DEF Original, Total
  <2> HIDE DEF b
  <2>3. \A n \in 1..Len(b) : b[n] <= Total
    <3>1. \A n \in 1..Len(b) : b[n] \in ToSet(b)
      BY DEF ToSet
    <3> QED
      BY <2>1, <3>1
  <2> QED
    BY <2>1, <2>2, <2>3 DEF Bounded
<1> QED
  BY <1>3 DEF CountInv

\* The directions of a shift are numbers.
LEMMA ShiftDirections ==
  ASSUME cmd \in Commands, i \in Nat
  PROVE  LockShift \in Int /\ UnlockShift \in Int
<1>1. cmd.lockdir \in Seq(Int) /\ cmd.unlockdir \in Seq(Int)
  BY CommandAssumption
<1>2. i \div 2 \in Nat
  OBVIOUS
<1>3. InList(cmd.lockdir, i \div 2) => (i \div 2) + 1 \in 1..Len(cmd.lockdir)
  BY <1>1, <1>2 DEF InList
<1>4. InList(cmd.unlockdir, i \div 2) => (i \div 2) + 1 \in 1..Len(cmd.unlockdir)
  BY <1>1, <1>2 DEF InList
<1> QED
  BY <1>1, <1>3, <1>4 DEF LockShift, UnlockShift, DirAt, At

\* Every step keeps it.
LEMMA CountStep == IInv /\ OrderInv /\ ErasedInv /\ CountInv /\ [Next]_vars => CountInv'
<1> SUFFICES ASSUME IInv, OrderInv, ErasedInv, CountInv, [Next]_vars PROVE CountInv'
  OBVIOUS
<1>0. Room(ir, 0) /\ Ordered(ir) /\ program \in Programs /\ cmd \in Commands
  BY CountRoom DEF IInv, ArgsInv
<1>1. ASSUME UNCHANGED program, Room(ir', 0) PROVE CountInv'
  <2>1. \A f \in 1..Len(program) : Bounded(ir'.body[f], Len(ir'.op))
    BY <1>1 DEF Room
  <2> QED
    BY <1>1, <2>1 DEF CountInv
<1>2. CASE UNCHANGED <<program, ir>>
  BY <1>2 DEF CountInv
<1>3. CASE Visit \/ CheckCommandLineArgs \/ CollectPair \/ StartErasing \/ FinishLoop \/ UNCHANGED vars
  BY <1>2, <1>3 DEF Visit, CheckCommandLineArgs, CollectPair, StartErasing, FinishLoop, vars
<1>4. CASE SkipCollect \/ SkipSwap \/ SkipShift \/ SkipSplit
  <2>1. Room([ir EXCEPT !.fault = "oob"], 0)
    BY <1>0, RoomFault
  <2>2. UNCHANGED program /\ (ir' = ir \/ ir' = [ir EXCEPT !.fault = "oob"])
    BY <1>4 DEF SkipCollect, SkipSwap, SkipShift, SkipSplit, Skip, Commit
  <2> QED
    BY <1>0, <1>1, <2>1, <2>2
<1>5. CASE SkipSameLock \/ PrintPairs
  <2>1. PICK S : UNCHANGED program /\ (ir' = ir \/ ir' = Dereference(ir, S))
    BY <1>5 DEF SkipSameLock, PrintPairs, Commit
  <2>2. Room(Dereference(ir, S), 0)
    BY <1>0, RoomGuarded DEF Dereference
  <2> QED
    BY <1>0, <1>1, <2>1, <2>2
<1>6. CASE EraseNext
  <2>1. PICK inst \in toErase : ir' = EraseInst(ir, inst) /\ UNCHANGED program /\ pc = "erase"
    BY <1>6 DEF EraseNext
  <2>2. inst \in NamedCalls
    <3>1. Mode("rm") /\ ir.fault = "none"
      BY <2>1 DEF IInv, ArgsInv, RemoveInv
    <3> QED
      BY <2>1, <3>1 DEF ErasedInv
  <2>3. PICK f \in 1..Len(program) : inst \in ToSet(Original(f))
    BY <2>1, <2>2, NamedIsOriginal
  <2> QED
    BY <1>0, <1>1, <2>1, <2>3, RoomErase
<1>7. CASE SwapPairs
  <2>0. pc = "loop" /\ Mode("swap") /\ i < Len(cmd.pos) /\ ir' = Swapped(PairAt(i), PairAt(i + 2))
        /\ UNCHANGED program /\ NamesPairs(4)
    BY <1>7 DEF SwapPairs, InLoop, Commit
  <2>1. i \in Nat /\ i % 2 = 0 /\ Len(cmd.pos) \in Nat
    BY <2>0, CommandTypes DEF IInv, ArgsInv
  <2>2. HasPair(i) /\ HasPair(i + 2) /\ i + 3 < Len(cmd.pos)
    BY <2>0, <2>1, FourPositions
  <2>3. i + 2 \in Nat /\ (i + 2) % 2 = 0 /\ i + 1 < Len(cmd.pos) /\ (i + 2) + 1 < Len(cmd.pos)
    BY <2>1, <2>2, AlignedTwo
  <2>4. PICK f1 \in 1..Len(program) : IsPairOf(PairAt(i), f1)
    BY <2>0, <2>1, <2>2, <2>3, NamedAt
  <2>5. PICK f2 \in 1..Len(program) : IsPairOf(PairAt(i + 2), f2)
    BY <2>0, <2>1, <2>2, <2>3, NamedAt
  <2> QED
    BY <1>0, <1>1, <2>0, <2>4, <2>5, RoomSwap
<1>8. CASE ShiftPair
  <2> DEFINE pair == PairAt(i)
             once == Shifted(ir, pair.lockCall, LockShift)
  <2>0. pc = "loop" /\ Mode("shift") /\ i < Len(cmd.pos) /\ NamesPairs(2) /\ UNCHANGED program
        /\ ir' = Shifted(once, pair.unlockCall, UnlockShift)
    BY <1>8 DEF ShiftPair, InLoop, Commit
  <2>1. i \in Nat /\ i % 2 = 0 /\ i + 1 < Len(cmd.pos) /\ HasPair(i)
    BY <2>0, IndexAt
  <2>2. LockShift \in Int /\ UnlockShift \in Int
    BY <1>0, <2>1, ShiftDirections
  <2>3. PICK f \in 1..Len(program) : IsPairOf(pair, f)
    BY <2>0, <2>1, NamedAt
  <2>4. pair.lockCall \in ToSet(Original(f)) /\ pair.unlockCall \in ToSet(Original(f))
    BY <2>3 DEF IsPairOf
  <2> HIDE DEF pair
  <2>5. Room(once, 0)
    BY <1>0, <2>2, <2>4, RoomShift DEF Shifted
  <2> HIDE DEF once
  <2>6. Room(ir', 0)
    BY <1>0, <2>0, <2>2, <2>4, <2>5, RoomShift DEF Shifted
  <2> QED
    BY <1>1, <2>0, <2>6
<1>9. CASE SplitPair
  <2>0. pc = "loop" /\ Mode("split") /\ i < Len(cmd.pos) /\ CanSplit /\ UNCHANGED program
        /\ ir' = SplitApart(PairAt(i))
    BY <1>9 DEF SplitPair, InLoop, Commit
  <2>1. i \in Nat /\ i % 2 = 0 /\ i + 1 < Len(cmd.pos) /\ HasPair(i) /\ i + 1 < Len(cmd.splitpos)
    BY <2>0, IndexAt DEF CanSplit, InList
  <2>3. PICK f \in 1..Len(program) : IsPairOf(PairAt(i), f)
    BY <2>0, <2>1, NamedAt
  <2> QED
    BY <1>0, <1>1, <2>0, <2>1, <2>3, RoomSplit
<1> QED
  BY <1>3, <1>4, <1>5, <1>6, <1>7, <1>8, <1>9 DEF Next, Terminated

\* A fault shows.
LEMMA FaultShows ==
  ASSUME NEW r, IsIR(r), NEW kind
  PROVE  [r EXCEPT !.fault = kind].fault = kind
  BY DEF IsIR

\* What erasing leaves of a body.
LEMMA ErasedBody ==
  ASSUME program \in Programs, NEW r, Ordered(r), NEW f \in 1..Len(program),
         NEW x \in ToSet(Original(f)), r.fault = "none", x \notin r.freed
  PROVE  EraseInst(r, x).body = [r.body EXCEPT ![f] = RemoveAt(r.body[f], PosOf(r, x))]
<1> DEFINE s == EraseInst(r, x)
           b == r.body[f]
           p == PosOf(r, x)
<1>1. /\ Leads(r, s, {x})
      /\ s.body = [r.body EXCEPT ![f] = RemoveAt(b, p)] /\ s.op = r.op
  BY EraseLeads
<1> QED
  BY <1>1

\* -shift: a call that was moved lies before the instruction its direction counts to.
Lands(s, inst, dir) ==
  Before(s.body[FuncOf(ir, inst)], NewInst(ir), Len(ir.op)) = Target(inst, dir)

LEMMA ShiftLands ==
  ASSUME program \in Programs, Room(ir, 0), NEW f \in 1..Len(program),
         NEW inst \in ToSet(Original(f)), NEW dir \in Int, dir # 0,
         ShiftCallInst(ir, inst, dir).fault = "none"
  PROVE  Lands(ShiftCallInst(ir, inst, dir), inst, dir)
<1> DEFINE from   == PosOf(ir, inst)
           to     == ShiftPlace(ir, inst, dir)
           copied == CreateCopies(ir, <<inst>>)
           erased == EraseInst(copied, inst)
           place  == IF to > from THEN to - 1 ELSE to
           put    == InsertBefore(erased, FuncOf(ir, inst), place, NewInst(ir))
           kept   == Guarded(erased, to = from, "dangling", put)
           moved  == Guarded(ir, to > Len(ir.body[FuncOf(ir, inst)]), "end", kept)
           s      == ShiftCallInst(ir, inst, dir)
           b      == ir.body[f]
           limit  == Len(ir.op)
           new    == NewInst(ir)
<1>1. s = Guarded(ir, inst \in ir.freed, "dangling", moved)
  BY DEF ShiftCallInst
<1>2. Ordered(ir) /\ IsIR(ir) /\ limit \in Nat /\ new = limit + 1 /\ Bounded(b, limit)
      /\ new \in Nat /\ new > Total
  <2>1. Ordered(ir) /\ IsIR(ir) /\ Bounded(b, limit)
    BY DEF Room, Ordered
  <2>2. new \in Nat /\ new > Total
    BY <2>1, NewIsNew
  <2>3. limit \in Nat
    BY <2>1, OpCount
  <2> QED
    BY <2>1, <2>2, <2>3 DEF NewInst
<1>3. inst \in 1..Total /\ <<inst>> \in Seq(1..Total)
  BY OriginalSets
<1>4. Leads(ir, copied, {}) /\ copied.body = ir.body /\ copied.freed = ir.freed
  BY <1>2, <1>3, CopiesLead
<1>5. Ordered(copied) /\ PosOf(copied, inst) = from
  BY <1>4 DEF Leads, PosOf, FuncOf
<1> HIDE DEF copied
<1>6. Leads(copied, erased, {inst}) /\ Ordered(erased) /\ IsIR(erased)
  <2>1. Leads(copied, erased, {inst})
    BY <1>5, EraseLeads
  <2> QED
    BY <2>1 DEF Leads, Ordered
<1>7. s.fault = "none"
  OBVIOUS
<1> HIDE DEF s, moved
<1>8. inst \notin ir.freed /\ s = moved /\ ir.fault = "none"
  BY <1>1, <1>2, <1>7, FaultShows DEF Guarded
<1>9. FuncOf(ir, inst) = f /\ from \in 1..Len(b) /\ Len(b) \in Nat
  BY <1>2, <1>8, LivePlace DEF Bounded
<1> HIDE DEF kept
<1>10. ~(to > Len(b)) /\ s = kept
  <2>1. Guarded(ir, to > Len(ir.body[FuncOf(ir, inst)]), "end", kept).fault = "none"
    BY <1>7, <1>8 DEF moved
  <2> HIDE DEF to
  <2>2. /\ ~(to > Len(ir.body[FuncOf(ir, inst)]))
        /\ Guarded(ir, to > Len(ir.body[FuncOf(ir, inst)]), "end", kept) = kept
    BY <1>2, <2>1, FaultShows DEF Guarded
  <2> QED
    BY <1>8, <1>9, <2>2 DEF moved, to
<1> HIDE DEF put, erased
<1>11. erased.fault = "none" /\ to # from /\ s = put
  <2>1. Guarded(erased, to = from, "dangling", put).fault = "none"
    BY <1>7, <1>10 DEF kept
  <2> HIDE DEF to, from
  <2>2. erased.fault = "none" /\ to # from /\ Guarded(erased, to = from, "dangling", put) = put
    BY <1>6, <2>1, FaultShows DEF Guarded
  <2> QED
    BY <1>10, <2>2 DEF kept, to, from
<1>12. to \in Nat /\ to \in 1..Len(b) /\ Target(inst, dir) = b[to]
  <2>1. CASE dir < 0
    <3>1. to = IF from + dir < 1 THEN 1 ELSE from + dir
      BY <2>1 DEF ShiftPlace
    <3>2. to \in 1..Len(b)
      BY <1>9, <2>1, <3>1
    <3> QED
      BY <1>9, <3>1, <3>2 DEF Target
  <2>2. CASE ~(dir < 0)
    <3>1. to = IF from + dir > Len(b) + 1 THEN Len(b) + 1 ELSE from + dir
      BY <1>9, <2>2 DEF ShiftPlace, RelativePlace
    <3> HIDE DEF to
    <3>2. to = from + dir /\ to \in 1..Len(b) /\ ~(from + dir < 1)
      BY <1>9, <1>10, <2>2, <3>1
    <3> QED
      BY <1>9, <3>2 DEF Target
  <2> QED
    BY <2>1, <2>2
<1> HIDE DEF to, from, b
<1> DEFINE c == RemoveAt(b, from)
<1>13. copied.fault = "none" /\ inst \notin copied.freed
  <2>1. Guarded(copied, inst \in copied.freed, "dangling",
          [copied EXCEPT !.body[FuncOf(copied, inst)] = RemoveAt(@, PosOf(copied, inst)),
                         !.freed = copied.freed \union {inst}]).fault = "none"
    BY <1>11 DEF erased, EraseInst
  <2>2. IsIR(copied)
    BY <1>5 DEF Ordered
  <2> QED
    BY <2>1, <2>2, FaultShows DEF Guarded
<1>14. erased.body = [ir.body EXCEPT ![f] = c]
  <2>0. Ordered(copied)
    BY <1>5
  <2>1. EraseInst(copied, inst).body = [copied.body EXCEPT ![f] = RemoveAt(copied.body[f], PosOf(copied, inst))]
    BY <1>13, <2>0, ErasedBody
  <2>2. copied.body = ir.body /\ PosOf(copied, inst) = from
    BY <1>4, <1>5
  <2>3. EraseInst(copied, inst).body = [ir.body EXCEPT ![f] = RemoveAt(ir.body[f], from)]
    BY <2>1, <2>2
  <2> QED
    BY <2>3 DEF erased, b
<1>15. erased.body[f] = c
  BY <1>2, <1>14 DEF Ordered
<1>16. /\ b \in Seq(Nat) /\ Len(b) \in Nat /\ Bounded(c, limit) /\ Len(c) = Len(b) - 1
       /\ \A k \in 1..(from - 1) : c[k] = b[k]
       /\ \A k \in from..(Len(b) - 1) : c[k] = b[k + 1]
  <2>1. b \in Seq(Nat)
    BY <1>2 DEF Bounded
  <2> QED
    BY <1>2, <1>9, <2>1, BoundedRemove, RemoveAtFacts
<1> HIDE DEF c
<1>17. place \in 1..Len(c) /\ c[place] = b[to]
  <2>1. CASE to > from
    <3>0. from \in Nat /\ to \in Nat
      BY <1>9, <1>12
    <3>1. place = to - 1 /\ to - 1 \in from..(Len(b) - 1) /\ (to - 1) + 1 = to
      BY <1>9, <1>12, <2>1, <3>0
    <3>2. to - 1 \in 1..Len(c)
      BY <1>9, <1>16, <3>1
    <3>3. c[to - 1] = b[(to - 1) + 1]
      BY <1>16, <3>1
    <3>4. c[to - 1] = b[to]
      BY <3>1, <3>3
    <3> HIDE DEF place
    <3> QED
      BY <3>1, <3>2, <3>4
  <2>2. CASE ~(to > from)
    <3>1. place = to /\ to \in 1..(from - 1)
      BY <1>9, <1>11, <1>12, <2>2
    <3>2. to \in 1..Len(c)
      BY <1>9, <1>16, <3>1
    <3> QED
      BY <1>16, <3>1, <3>2
  <2> QED
    BY <2>1, <2>2
<1> HIDE DEF place
<1>18. s.body[f] = InsertAt(c, place, new)
  <2>1. place \in Nat \ {0} /\ place <= Len(erased.body[f])
    BY <1>15, <1>16, <1>17
  <2>2. /\ Leads(erased, InsertBefore(erased, f, place, new), {})
        /\ InsertBefore(erased, f, place, new).body = [erased.body EXCEPT ![f] = InsertAt(erased.body[f], place, new)]
    BY <1>2, <1>6, <1>11, <2>1, InsertLeads
  <2>3. s = InsertBefore(erased, f, place, new)
    BY <1>9, <1>11 DEF put
  <2>4. erased.body \in Seq(Seq(Nat)) /\ Len(erased.body) = Len(program)
    BY <1>6 DEF Ordered
  <2> QED
    BY <1>15, <2>2, <2>3, <2>4
<1>19. LandsAt(c, place, new, limit)
  <2>1. new > limit
    BY <1>2
  <2> HIDE DEF new, limit
  <2> QED
    BY <1>2, <1>16, <1>17, <2>1, OneInserted
<1>20. Before(InsertAt(c, place, new), new, limit) = c[place]
  BY <1>19 DEF LandsAt
<1>21. Before(s.body[f], new, limit) = Target(inst, dir)
  BY <1>12, <1>17, <1>18, <1>20
<1> QED
  BY <1>9, <1>21 DEF Lands, s

\* -split: what an insertion that did not fault did.
Inserted(r, s, f, base, new, distance) ==
  /\ r.fault = "none" /\ base \notin r.freed
  /\ PosOf(r, base) + distance <= Len(r.body[f])
  /\ Ordered(s) /\ s.freed = r.freed
  /\ s.body[f] = InsertAt(r.body[f], PosOf(r, base) + distance, new)

LEMMA InsertedRelative ==
  ASSUME program \in Programs, NEW r, Ordered(r), NEW f \in 1..Len(program),
         NEW base \in ToSet(Original(f)), NEW new \in Nat, new > Total, NEW distance \in Nat,
         InsertInstructionRelative(r, base, new, distance).fault = "none"
  PROVE  Inserted(r, InsertInstructionRelative(r, base, new, distance), f, base, new, distance)
<1> DEFINE s    == InsertInstructionRelative(r, base, new, distance)
           p    == RelativePlace(r, base, distance)
           n    == PosOf(r, base)
           b    == r.body[f]
           put  == InsertBefore(r, FuncOf(r, base), p, new)
<1>1. s = Guarded(r, base \in r.freed, "dangling", put) /\ s.fault = "none" /\ IsIR(r)
  BY DEF InsertInstructionRelative, Ordered
<1> HIDE DEF s, put
<1>2. r.fault = "none" /\ base \notin r.freed /\ s = put
  BY <1>1, FaultShows DEF Guarded
<1>3. FuncOf(r, base) = f /\ n \in 1..Len(b)
  BY <1>2, LivePlace
<1>4. Len(b) \in Nat /\ r.body \in Seq(Seq(Nat)) /\ Len(r.body) = Len(program)
  BY DEF Ordered, InOrder
<1>5. ~(p > Len(b))
  <2> DEFINE good == [r EXCEPT !.body[f] = InsertAt(@, p, new)]
  <2>1. Guarded(r, p > Len(b), "end", good).fault = "none"
    BY <1>1, <1>2, <1>3 DEF put, InsertBefore
  <2> HIDE DEF good, p, b
  <2> QED
    BY <1>1, <2>1, FaultShows DEF Guarded
<1>6. p = n + distance /\ p <= Len(b) /\ p \in Nat \ {0}
  <2>1. p = IF n + distance > Len(b) + 1 THEN Len(b) + 1 ELSE n + distance
    BY <1>3 DEF RelativePlace
  <2> HIDE DEF p, b, n
  <2> QED
    BY <1>3, <1>4, <1>5, <2>1
<1> HIDE DEF p
<1>7. /\ Leads(r, InsertBefore(r, f, p, new), {})
      /\ InsertBefore(r, f, p, new).body = [r.body EXCEPT ![f] = InsertAt(b, p, new)]
      /\ InsertBefore(r, f, p, new).freed = r.freed
  BY <1>2, <1>6, InsertLeads
<1>8. s = InsertBefore(r, f, p, new)
  BY <1>2, <1>3 DEF put
<1> HIDE DEF b, n
<1>9. Ordered(s) /\ s.freed = r.freed /\ s.body[f] = InsertAt(b, n + distance, new)
  BY <1>4, <1>6, <1>7, <1>8 DEF Leads
<1>10. n + distance <= Len(b)
  BY <1>6
<1>11. Inserted(r, s, f, base, new, distance)
  BY <1>2, <1>9, <1>10 DEF Inserted, b, n
<1> QED
  BY <1>11 DEF s

\* The values of -splitpos as signed and as unsigned numbers.
LEMMA SplitValues ==
  ASSUME cmd \in Commands, i \in Nat, i + 1 < Len(cmd.splitpos), UnlockPos \in 1..IntMax
  PROVE  /\ UnlockPos \in Nat /\ UnlockPos >= 1 /\ ToUnsigned(UnlockPos) = UnlockPos
         /\ IntMax \in Nat /\ LockPos \in Int
         /\ LockPos >= 0 => /\ ToUnsigned(LockPos) = LockPos
                            /\ ToUnsigned(LockPos + 1) = LockPos + 1
         /\ LockPos < 0 => ToUnsigned(LockPos) \in Nat /\ ToUnsigned(LockPos) > IntMax
<1> DEFINE v == cmd.splitpos[(i + 1) + 1]
<1>1. cmd.splitpos \in Seq(UIntRange) /\ IntMax \in Nat
  BY CommandAssumption, IntMaxAssumption
<1>2. (i + 1) + 1 \in 1..Len(cmd.splitpos)
  BY <1>1
<1>3. v \in 0..(2 * IntMax + 1)
  BY <1>1, <1>2 DEF UIntRange
<1>4. LockPos = ToInt(v)
  BY DEF LockPos, At
<1> HIDE DEF v
<1>5. LockPos \in Int /\ (LockPos < 0 => LockPos >= 0 - (IntMax + 1))
  BY <1>1, <1>3, <1>4 DEF ToInt
<1> DEFINE u == UnlockPos
           l == LockPos
<1>6. u \in 1..IntMax /\ l \in Int /\ (l < 0 => l >= 0 - (IntMax + 1))
  BY <1>5
<1> HIDE DEF u, l
<1>7. /\ u \in Nat /\ u >= 1 /\ ToUnsigned(u) = u
      /\ l >= 0 => ToUnsigned(l) = l /\ ToUnsigned(l + 1) = l + 1
      /\ l < 0 => ToUnsigned(l) \in Nat /\ ToUnsigned(l) > IntMax
  BY <1>1, <1>6 DEF ToUnsigned
<1> QED
  BY <1>1, <1>6, <1>7 DEF u, l

\* What SplitLandsBefore says of the module after the step.
SplitsAt(s, lockCall) ==
  LET body == s.body[FuncOf(ir, lockCall)]
  IN  LockPos >= 0 \/ Len(ir.body[FuncOf(ir, lockCall)]) <= IntMax =>
        /\ Before(body, NewInst(ir) + 1, Len(ir.op)) = Target(lockCall, UnlockPos)
        /\ Before(body, NewInst(ir), Len(ir.op)) = Target(lockCall, LockPos)

\* The two calls of -split lie before the instructions their distances count to.
LEMMA SplitLands ==
  ASSUME program \in Programs, Room(ir, 0), cmd \in Commands, i \in Nat, i + 1 < Len(cmd.splitpos),
         NEW f \in 1..Len(program), NEW pair, IsPairOf(pair, f),
         SplitApart(pair).fault = "none", UnlockPos \in 1..IntMax
  PROVE  SplitsAt(SplitApart(pair), pair.lockCall)
<1> DEFINE low      == pair.lockCall
           insts    == <<low, pair.unlockCall>>
           copied   == CreateCopies(ir, insts)
           unlocked == InsertInstructionRelative(copied, low, NewInst(ir) + 1, ToUnsigned(UnlockPos))
           lockPos  == IF UnlockPos < LockPos THEN LockPos + 1 ELSE LockPos
           locked   == InsertInstructionRelative(unlocked, low, NewInst(ir), ToUnsigned(lockPos))
           n        == PosOf(ir, low)
           b        == ir.body[f]
           limit    == Len(ir.op)
           l        == NewInst(ir)
           u        == NewInst(ir) + 1
           d        == ToUnsigned(lockPos)
<1>1. SplitApart(pair) = locked /\ locked.fault = "none"
  BY DEF SplitApart
<1>2. /\ low \in ToSet(Original(f)) /\ pair.unlockCall \in ToSet(Original(f))
      /\ low \in 1..Total /\ pair.unlockCall \in 1..Total /\ Total \in Nat
  BY OriginalSets DEF IsPairOf
<1>3. insts \in Seq(1..Total)
  BY <1>2
<1>4. Ordered(ir) /\ Bounded(b, limit) /\ limit \in Nat
  BY OpCount DEF Room
<1>5. l \in Nat /\ u \in Nat /\ l > Total /\ u > Total /\ l > limit /\ u > limit /\ u # l
  <2>1. l \in Nat /\ u \in Nat /\ l > Total /\ u > Total
    BY <1>4, NewIsNew
  <2>2. l = limit + 1
    BY DEF NewInst
  <2> HIDE DEF l, limit
  <2> QED
    BY <1>4, <2>1, <2>2 DEF u, l
<1>6. /\ UnlockPos \in Nat /\ UnlockPos >= 1 /\ ToUnsigned(UnlockPos) = UnlockPos
      /\ IntMax \in Nat /\ LockPos \in Int
      /\ LockPos >= 0 => /\ ToUnsigned(LockPos) = LockPos
                         /\ ToUnsigned(LockPos + 1) = LockPos + 1
      /\ LockPos < 0 => ToUnsigned(LockPos) \in Nat /\ ToUnsigned(LockPos) > IntMax
  BY SplitValues
<1>7. d \in Nat
  BY SplitPositions
<1>8. Leads(ir, copied, {}) /\ copied.body = ir.body /\ copied.freed = ir.freed
  <2> HIDE DEF insts
  <2> QED
    BY <1>3, <1>4, CopiesLead
<1>9. Ordered(copied) /\ PosOf(copied, low) = n
  BY <1>8 DEF Leads, PosOf, FuncOf
<1> HIDE DEF copied, insts, l, u, limit, low, d, lockPos
<1>10. Leads(copied, unlocked, {}) /\ Ordered(unlocked)
  BY <1>2, <1>5, <1>6, <1>9, InsertRelativeLeads DEF Leads, u
<1> HIDE DEF unlocked
<1>11. Inserted(unlocked, locked, f, low, l, d)
  <2>1. InsertInstructionRelative(unlocked, low, l, d).fault = "none"
    BY <1>1 DEF l, d
  <2>2. Inserted(unlocked, InsertInstructionRelative(unlocked, low, l, d), f, low, l, d)
    BY <1>2, <1>5, <1>7, <1>10, <2>1, InsertedRelative
  <2> QED
    BY <2>2 DEF l, d
<1> HIDE DEF locked
<1>12. Inserted(copied, unlocked, f, low, u, UnlockPos)
  <2>1. InsertInstructionRelative(copied, low, u, UnlockPos).fault = "none"
    BY <1>6, <1>11 DEF Inserted, unlocked, u
  <2>2. Inserted(copied, InsertInstructionRelative(copied, low, u, UnlockPos), f, low, u, UnlockPos)
    BY <1>2, <1>5, <1>6, <1>9, <2>1, InsertedRelative
  <2> QED
    BY <1>6, <2>2 DEF unlocked, u
<1> DEFINE p == n + UnlockPos
           t == InsertAt(b, p, u)
<1>13. /\ low \notin ir.freed /\ p <= Len(b) /\ unlocked.body[f] = t /\ unlocked.freed = ir.freed
  BY <1>8, <1>9, <1>12 DEF Inserted
<1>14. FuncOf(ir, low) = f /\ Holds(b, n, low)
  BY <1>2, <1>4, <1>13, LivePlace, HeldWhere
<1>15. b \in Seq(Nat) /\ Len(b) \in Nat /\ n \in 1..Len(b) /\ b[n] = low
  BY <1>14 DEF Holds
<1> HIDE DEF b, n
<1>16. p \in 1..Len(b) /\ n \in 1..(p - 1)
  BY <1>6, <1>13, <1>15
<1> HIDE DEF p
<1>17. Widens(b, p, u, t)
  <2>1. p \in 1..(Len(b) + 1)
    BY <1>15, <1>16
  <2> QED
    BY <1>5, <1>15, <2>1, InsertAtFacts
<1> HIDE DEF t
<1>18. t[n] = low /\ Len(t) = Len(b) + 1 /\ n \in 1..Len(t)
  <2>1. t[n] = low /\ Len(t) = Len(b) + 1
    BY <1>15, <1>16, <1>17 DEF Widens
  <2> QED
    BY <1>15, <2>1
<1>19. PosOf(unlocked, low) = n
  <2>1. Holds(t, PosOf(unlocked, low), low)
    BY <1>2, <1>10, <1>13, HeldWhere
  <2> QED
    BY <1>18, <2>1 DEF Holds
<1> DEFINE q == n + d
<1>20. q <= Len(t) /\ locked.body[f] = InsertAt(t, q, l)
  BY <1>11, <1>13, <1>19 DEF Inserted
<1>21. q \in 1..(Len(b) + 1)
  BY <1>7, <1>15, <1>18, <1>20
<1> HIDE DEF q
<1>22. BothLand(b, p, u, q, l, limit)
  BY <1>4, <1>5, <1>16, <1>21, TwoInserted DEF b
<1>23. /\ Before(locked.body[f], u, limit) = b[p]
       /\ Before(locked.body[f], l, limit) = IF q <= p THEN b[q] ELSE b[q - 1]
  BY <1>20, <1>22 DEF BothLand, t
<1>24. Target(low, UnlockPos) = b[p]
  <2>1. ~(p < 1)
    BY <1>16
  <2> QED
    BY <1>14, <2>1 DEF Target, b, p, n
<1>25. ASSUME LockPos >= 0 \/ Len(b) <= IntMax
       PROVE  (IF q <= p THEN b[q] ELSE b[q - 1]) = Target(low, LockPos)
  <2>1. LockPos >= 0
    <3> SUFFICES ASSUME ~(LockPos >= 0) PROVE FALSE
      OBVIOUS
    <3>1. LockPos < 0 /\ lockPos = LockPos
      BY <1>6 DEF lockPos
    <3>2. d > IntMax /\ Len(b) <= IntMax
      BY <1>6, <1>25, <3>1 DEF d
    <3>3. q = n + d
      BY DEF q
    <3> QED
      BY <1>6, <1>7, <1>15, <1>21, <3>2, <3>3
  <2>2. Target(low, LockPos) = b[n + LockPos]
    <3>1. ~(n + LockPos < 1)
      BY <1>6, <1>15, <2>1
    <3> QED
      BY <1>14, <3>1 DEF Target, b, n
  <2>3. CASE UnlockPos < LockPos
    <3>1. d = LockPos + 1
      BY <1>6, <2>1, <2>3 DEF d, lockPos
    <3>2. ~(q <= p) /\ q - 1 = n + LockPos
      BY <1>6, <1>15, <2>3, <3>1 DEF p, q
    <3> QED
      BY <2>2, <3>2
  <2>4. CASE ~(UnlockPos < LockPos)
    <3>1. d = LockPos
      BY <1>6, <2>1, <2>4 DEF d, lockPos
    <3>2. q <= p /\ q = n + LockPos
      BY <1>6, <1>15, <2>4, <3>1 DEF p, q
    <3> QED
      BY <2>2, <3>2
  <2> QED
    BY <2>3, <2>4
<1>26. LockPos >= 0 \/ Len(ir.body[f]) <= IntMax =>
         /\ Before(locked.body[f], u, limit) = Target(low, UnlockPos)
         /\ Before(locked.body[f], l, limit) = Target(low, LockPos)
  BY <1>23, <1>24, <1>25 DEF b
<1>27. SplitsAt(locked, low)
  BY <1>14, <1>26 DEF SplitsAt, u, l, limit
<1> QED
  BY <1>1, <1>27 DEF low, locked

\* A turn of -shift that moves one call of its pair.
LEMMA ShiftPairLands ==
  ASSUME IInv, OrderInv, CountInv, ShiftPair, ~Faulted(ir')
  PROVE  /\ LockShift \notin {0, 1} /\ UnlockShift \in {0, 1} =>
              Lands(ir', PairAt(i).lockCall, LockShift)
         /\ UnlockShift \notin {0, 1} /\ LockShift \in {0, 1} =>
              Lands(ir', PairAt(i).unlockCall, UnlockShift)
<1> DEFINE pair == PairAt(i)
<1>1. Room(ir, 0) /\ program \in Programs /\ cmd \in Commands
  BY CountRoom DEF IInv, ArgsInv
<1>2. /\ pc = "loop" /\ Mode("shift") /\ i < Len(cmd.pos) /\ NamesPairs(2)
      /\ ir' = Shifted(Shifted(ir, pair.lockCall, LockShift), pair.unlockCall, UnlockShift)
      /\ ir'.fault = "none"
  BY DEF ShiftPair, InLoop, Commit, Faulted
<1>3. i \in Nat /\ i % 2 = 0 /\ i + 1 < Len(cmd.pos) /\ HasPair(i)
  BY <1>2, IndexAt
<1>4. LockShift \in Int /\ UnlockShift \in Int
  BY <1>1, <1>3, ShiftDirections
<1>5. PICK f \in 1..Len(program) : IsPairOf(pair, f)
  BY <1>2, <1>3, NamedAt
<1>6. pair.lockCall \in ToSet(Original(f)) /\ pair.unlockCall \in ToSet(Original(f))
  BY <1>5 DEF IsPairOf
<1>7. \A r, inst, dir : dir \in {0, 1} => Shifted(r, inst, dir) = r
  BY DEF Shifted, ShiftCallInst
<1>8. \A r, inst, dir : dir \notin {0, 1} => Shifted(r, inst, dir) = ShiftCallInst(r, inst, dir)
  BY DEF Shifted
<1> HIDE DEF pair
<1>9. ASSUME LockShift \notin {0, 1}, UnlockShift \in {0, 1}
      PROVE  Lands(ir', pair.lockCall, LockShift)
  <2>1. ir' = ShiftCallInst(ir, pair.lockCall, LockShift) /\ LockShift # 0
    BY <1>2, <1>7, <1>8, <1>9
  <2>2. Lands(ShiftCallInst(ir, pair.lockCall, LockShift), pair.lockCall, LockShift)
    BY <1>1, <1>2, <1>4, <1>6, <2>1, ShiftLands
  <2> QED
    BY <2>1, <2>2
<1>10. ASSUME UnlockShift \notin {0, 1}, LockShift \in {0, 1}
       PROVE  Lands(ir', pair.unlockCall, UnlockShift)
  <2>1. ir' = ShiftCallInst(ir, pair.unlockCall, UnlockShift) /\ UnlockShift # 0
    BY <1>2, <1>7, <1>8, <1>10
  <2>2. Lands(ShiftCallInst(ir, pair.unlockCall, UnlockShift), pair.unlockCall, UnlockShift)
    BY <1>1, <1>2, <1>4, <1>6, <2>1, ShiftLands
  <2> QED
    BY <2>1, <2>2
<1> QED
  BY <1>9, <1>10 DEF pair

\* A turn of -split.
LEMMA SplitPairLands ==
  ASSUME IInv, OrderInv, CountInv, SplitPair, ~Faulted(ir'), UnlockPos \in 1..IntMax
  PROVE  SplitsAt(ir', PairAt(i).lockCall)
<1>1. Room(ir, 0) /\ program \in Programs /\ cmd \in Commands
  BY CountRoom DEF IInv, ArgsInv
<1>2. /\ pc = "loop" /\ Mode("split") /\ i < Len(cmd.pos) /\ CanSplit
      /\ ir' = SplitApart(PairAt(i)) /\ ir'.fault = "none"
  BY DEF SplitPair, InLoop, Commit, Faulted
<1>3. i \in Nat /\ i % 2 = 0 /\ i + 1 < Len(cmd.pos) /\ HasPair(i) /\ i + 1 < Len(cmd.splitpos)
  BY <1>2, IndexAt DEF CanSplit, InList
<1>4. PICK f \in 1..Len(program) : IsPairOf(PairAt(i), f)
  BY <1>2, <1>3, NamedAt
<1>5. SplitsAt(SplitApart(PairAt(i)), PairAt(i).lockCall)
  BY <1>1, <1>2, <1>3, <1>4, SplitLands
<1> QED
  BY <1>2, <1>5

\* No instruction of a body is newer than the last one made, in any mode.
THEOREM NoneIsNewer == Spec => []CountInv
  BY InitCount, CountStep, Invariance, OrderIsKept, PTL DEF Spec

\* -shift inserts a call, moved alone, before the instruction its direction counts to
\* (PosixLock.cpp's shiftCallInst): up to the beginning of the function, and never at its
\* end without a fault.
THEOREM ShiftsWhereAsked == Spec => ShiftLandsBefore
<1> DEFINE Step == ShiftPair /\ ~Faulted(ir') =>
       LET moves(dir) == dir \notin {0, 1}
           lands(inst, dir) ==
             Before(ir'.body[FuncOf(ir, inst)], NewInst(ir), Len(ir.op)) = Target(inst, dir)
       IN  /\ moves(LockShift) /\ ~moves(UnlockShift) => lands(PairAt(i).lockCall, LockShift)
           /\ moves(UnlockShift) /\ ~moves(LockShift) =>
                lands(PairAt(i).unlockCall, UnlockShift)
<1>1. IInv /\ OrderInv /\ CountInv => Step
  BY ShiftPairLands DEF Lands
<1>2. ShiftLandsBefore <=> [][Step]_vars
  BY DEF ShiftLandsBefore
<1> HIDE DEF Step
<1>3. Spec => [][Step]_vars
  BY <1>1, NoneIsNewer, Invariance, OrderIsKept, PTL
<1> QED
  BY <1>2, <1>3

\* -split inserts the new unlock call before the instruction at the first distance from
\* the lock call and the new lock call before the one at the second (PosixLock.cpp:326-434).
THEOREM SplitsWhereAsked == Spec => SplitPlaced
<1>1. IInv /\ OrderInv /\ CountInv => SplitLandsBefore(1..IntMax)
  BY SplitPairLands DEF SplitLandsBefore, SplitsAt
<1> QED
  BY <1>1, NoneIsNewer, Invariance, OrderIsKept, PTL DEF SplitPlaced
-----------------------------------------------------------------------------
(* Where an undefined operation comes from *)

\* A guarded operation faults with its own kind.
LEMMA GuardedKinds ==
  ASSUME NEW r, IsIR(r), NEW K, r.fault \in K, NEW bad, NEW kind \in K, NEW good,
         r.fault = "none" => good.fault \in K
  PROVE  Guarded(r, bad, kind, good).fault \in K
<1>1. [r EXCEPT !.fault = kind].fault = kind
  BY FaultShows
<1> QED
  BY <1>1 DEF Guarded

\* Copying and replacing calls dereferences erased ones at most.
LEMMA CopyKinds ==
  ASSUME NEW r, IsIR(r), r.fault \in {"none", "dangling"}, NEW insts
  PROVE  CreateCopies(r, insts).fault \in {"none", "dangling"}
<1> DEFINE ops  == r.op \o [n \in 1..Len(insts) |-> r.op[insts[n]]]
           good == [r EXCEPT !.op = ops]
<1>1. CreateCopies(r, insts) = Guarded(r, ToSet(insts) \cap r.freed # {}, "dangling", good)
  BY DEF CreateCopies
<1> HIDE DEF ops
<1>2. good.fault = r.fault
  BY DEF IsIR
<1> HIDE DEF good
<1>3. Guarded(r, ToSet(insts) \cap r.freed # {}, "dangling", good).fault \in {"none", "dangling"}
  BY <1>2, GuardedKinds
<1> QED
  BY <1>1, <1>3

LEMMA ReplaceKinds ==
  ASSUME NEW r, IsIR(r), r.fault \in {"none", "dangling"}, NEW old, NEW new
  PROVE  ReplaceInst(r, old, new).fault \in {"none", "dangling"}
<1> DEFINE bodies == [r.body EXCEPT ![FuncOf(r, old)] = ReplaceAt(@, PosOf(r, old), new)]
           good   == [r EXCEPT !.body[FuncOf(r, old)] = ReplaceAt(@, PosOf(r, old), new),
                               !.freed = r.freed \union {old}]
<1>1. ReplaceInst(r, old, new) = Guarded(r, old \in r.freed, "dangling", good)
  BY DEF ReplaceInst
<1>2. good = [[r EXCEPT !.body = bodies] EXCEPT !.freed = r.freed \union {old}]
  OBVIOUS
<1> HIDE DEF bodies, good
<1>3. good.fault = r.fault
  <2> DEFINE half == [r EXCEPT !.body = bodies]
  <2>1. half = [body |-> bodies, op |-> r.op, freed |-> r.freed, fault |-> r.fault]
    BY DEF IsIR
  <2> HIDE DEF half
  <2> QED
    BY <1>2, <2>1 DEF half
<1>4. Guarded(r, old \in r.freed, "dangling", good).fault \in {"none", "dangling"}
  BY <1>3, GuardedKinds
<1> QED
  BY <1>1, <1>4

\* A turn of -swap does not reach an end.
LEMMA SwapKinds ==
  ASSUME InBounds(ir), ir.fault = "none", NEW p1, NEW p2
  PROVE  Swapped(p1, p2).fault \in {"none", "dangling"}
<1> DEFINE lock1   == NewInst(ir)
           insts   == <<p1.lockCall, p1.unlockCall, p2.lockCall, p2.unlockCall>>
           copied  == CreateCopies(ir, insts)
           one     == ReplaceInst(copied, p1.lockCall, lock1 + 2)
           two     == ReplaceInst(one, p1.unlockCall, lock1 + 3)
           three   == ReplaceInst(two, p2.lockCall, lock1)
           four    == ReplaceInst(three, p2.unlockCall, lock1 + 1)
<1>1. Swapped(p1, p2) = four
  BY DEF Swapped
<1> HIDE DEF lock1, insts
<1>2. InBounds(copied) /\ copied.fault \in {"none", "dangling"}
  BY CreateCopiesFacts, CopyKinds DEF InBounds
<1> HIDE DEF copied
<1>3. InBounds(one) /\ one.fault \in {"none", "dangling"}
  BY <1>2, ReplaceInstFacts, ReplaceKinds DEF InBounds
<1> HIDE DEF one
<1>4. InBounds(two) /\ two.fault \in {"none", "dangling"}
  BY <1>3, ReplaceInstFacts, ReplaceKinds DEF InBounds
<1> HIDE DEF two
<1>5. InBounds(three) /\ three.fault \in {"none", "dangling"}
  BY <1>4, ReplaceInstFacts, ReplaceKinds DEF InBounds
<1> HIDE DEF three
<1>6. four.fault \in {"none", "dangling"}
  BY <1>5, ReplaceKinds DEF InBounds
<1> QED
  BY <1>1, <1>6

\* An insertion relative to a call that is there goes wrong at the end only.
LEMMA InsertKinds ==
  ASSUME NEW r, IsIR(r), r.fault \in {"none", "end"}, NEW base, base \notin r.freed,
         NEW new, NEW distance
  PROVE  InsertInstructionRelative(r, base, new, distance).fault \in {"none", "end"}
<1> DEFINE f      == FuncOf(r, base)
           p      == RelativePlace(r, base, distance)
           tooFar == p > Len(r.body[f])
           good   == [r EXCEPT !.body[f] = InsertAt(@, p, new)]
           put    == InsertBefore(r, f, p, new)
<1>1. put = Guarded(r, tooFar, "end", good)
  BY DEF InsertBefore
<1>2. good.fault = r.fault
  <2> DEFINE bodies == [r.body EXCEPT ![f] = InsertAt(@, p, new)]
  <2>1. good = [r EXCEPT !.body = bodies]
    OBVIOUS
  <2> HIDE DEF bodies, good
  <2> QED
    BY <2>1 DEF IsIR
<1> HIDE DEF good, tooFar
<1>3. put.fault \in {"none", "end"}
  BY <1>1, <1>2, GuardedKinds
<1>4. InsertInstructionRelative(r, base, new, distance) = Guarded(r, base \in r.freed, "dangling", put)
  BY DEF InsertInstructionRelative
<1> HIDE DEF put
<1> QED
  BY <1>3, <1>4 DEF Guarded

\* So does a turn of -split, as long as nothing was erased.
LEMMA SplitKinds ==
  ASSUME InBounds(ir), ir.fault = "none", ir.freed = {}, program \in Programs, Ordered(ir),
         cmd \in Commands, i \in Nat, i + 1 < Len(cmd.splitpos),
         NEW f \in 1..Len(program), NEW pair, IsPairOf(pair, f)
  PROVE  /\ SplitApart(pair).fault \in {"none", "end"}
         /\ SplitApart(pair).freed = {}
<1> DEFINE insts    == <<pair.lockCall, pair.unlockCall>>
           copied   == CreateCopies(ir, insts)
           unlocked == InsertInstructionRelative(copied, pair.lockCall, NewInst(ir) + 1,
                                                 ToUnsigned(UnlockPos))
           lockPos  == IF UnlockPos < LockPos THEN LockPos + 1 ELSE LockPos
           locked   == InsertInstructionRelative(unlocked, pair.lockCall, NewInst(ir),
                                                 ToUnsigned(lockPos))
<1>1. SplitApart(pair) = locked
  BY DEF SplitApart
<1>2. pair.lockCall \in ToSet(Original(f)) /\ pair.unlockCall \in ToSet(Original(f))
  BY DEF IsPairOf
<1>3. insts \in Seq(1..Total)
  <2>1. {pair.lockCall, pair.unlockCall} \subseteq 1..Total
    BY <1>2, OriginalSets
  <2> QED
    BY <2>1
<1>4. /\ NewInst(ir) \in Nat /\ NewInst(ir) + 1 \in Nat
      /\ NewInst(ir) > Total /\ NewInst(ir) + 1 > Total
  BY NewIsNew
<1>5. ToUnsigned(UnlockPos) \in Nat /\ ToUnsigned(lockPos) \in Nat
  BY SplitPositions
<1> HIDE DEF insts, lockPos
<1>6. Ordered(copied) /\ copied.freed = {} /\ copied.fault = "none"
  BY <1>3, CopiesLead DEF Leads
<1> HIDE DEF copied
<1>7. /\ Leads(copied, unlocked, {}) /\ Ordered(unlocked)
      /\ unlocked.fault \in {"none", "end"}
  <2>1. Leads(copied, unlocked, {})
    BY <1>2, <1>4, <1>5, <1>6, InsertRelativeLeads
  <2>2. IsIR(copied) /\ pair.lockCall \notin copied.freed
    BY <1>6 DEF Ordered
  <2>3. unlocked.fault \in {"none", "end"}
    BY <1>6, <2>2, InsertKinds
  <2> QED
    BY <2>1, <2>3 DEF Leads
<1> HIDE DEF unlocked
<1>8. unlocked.freed = {}
  BY <1>6, <1>7 DEF Leads
<1>9. Leads(unlocked, locked, {}) /\ locked.fault \in {"none", "end"}
  <2>1. Leads(unlocked, locked, {})
    BY <1>2, <1>4, <1>5, <1>7, InsertRelativeLeads
  <2>2. IsIR(unlocked) /\ pair.lockCall \notin unlocked.freed
    BY <1>7, <1>8 DEF Ordered
  <2>3. locked.fault \in {"none", "end"}
    BY <1>7, <2>2, InsertKinds
  <2> QED
    BY <2>1, <2>3
<1> HIDE DEF locked
<1>10. locked.freed = {}
  BY <1>8, <1>9 DEF Leads
<1> QED
  BY <1>1, <1>9, <1>10

\* The instructions of a function in front of one that was read, and behind it.
Above(f, inst) == {x \in ToSet(Original(f)) : x < inst}
Below(f, inst) == {x \in ToSet(Original(f)) : x > inst}

\* Those that are still there need places of their own.
LEMMA RoomBelow ==
  ASSUME program \in Programs, NEW r, Ordered(r), NEW f \in 1..Len(program),
         NEW inst \in ToSet(Original(f)), inst \notin r.freed
  PROVE  /\ IsFiniteSet(Below(f, inst))
         /\ Cardinality(Below(f, inst) \ r.freed) <= Len(r.body[f]) - PosOf(r, inst)
<1> DEFINE b == r.body[f]
           p == PosOf(r, inst)
           S == Below(f, inst) \ r.freed
           T == (p + 1)..Len(b)
<1>1. /\ p \in 1..Len(b) /\ b[p] = inst /\ inst \in 1..Total /\ Total \in Nat
      /\ InOrder(b, ToSet(Original(f)) \ r.freed)
  BY LivePlace, OriginalSets DEF Ordered
<1>2. Len(b) \in Nat
  BY <1>1 DEF InOrder
<1>3. IsFiniteSet(Below(f, inst))
  <2>1. Below(f, inst) \subseteq 1..Total
    BY OriginalSets DEF Below
  <2>2. IsFiniteSet(1..Total)
    BY <1>1, FS_Interval
  <2> QED
    BY <2>1, <2>2, FS_Subset
<1>4. IsFiniteSet(S)
  BY <1>3, FS_Subset
<1>5. ASSUME NEW x \in S PROVE PosOf(r, x) \in T /\ b[PosOf(r, x)] = x
  <2>1. x \in ToSet(Original(f)) /\ x \notin r.freed /\ x > inst
    BY DEF Below
  <2>2. PosOf(r, x) \in 1..Len(b) /\ b[PosOf(r, x)] = x /\ x \in 1..Total
    BY <2>1, LivePlace
  <2> DEFINE q == PosOf(r, x)
  <2> HIDE DEF q, b, p
  <2>3. q \in 1..Len(b) /\ b[q] = x /\ x \in 1..Total
    BY <2>2 DEF q
  <2>4. q # p
    BY <1>1, <2>1, <2>3
  <2>5. ~(q < p)
    <3>1. SUFFICES ASSUME q < p PROVE FALSE
      OBVIOUS
    <3>2. b[q] < b[p]
      BY <1>1, <2>3, <3>1 DEF InOrder
    <3> QED
      BY <1>1, <2>1, <2>3, <3>2
  <2> QED
    BY <1>1, <1>2, <2>3, <2>4, <2>5 DEF q
<1>6. IsFiniteSet(T) /\ Cardinality(T) = Len(b) - p
  <2> HIDE DEF b, p
  <2>1. p + 1 \in Int /\ Len(b) \in Int
    BY <1>1, <1>2
  <2>2. IsFiniteSet(T) /\ Cardinality(T) = IF p + 1 > Len(b) THEN 0 ELSE Len(b) - (p + 1) + 1
    BY <2>1, FS_Interval
  <2> QED
    BY <1>1, <1>2, <2>2
<1>7. Cardinality(S) \in Nat
  BY <1>4, FS_CardinalityType
<1>8. ASSUME Len(b) - p < Cardinality(S) PROVE FALSE
  <2> DEFINE place == [x \in S |-> PosOf(r, x)]
  <2>1. place \in [S -> T] /\ \A x \in S : b[place[x]] = x
    BY <1>5
  <2> HIDE DEF place, S, T, b, p
  <2>2. Cardinality(T) < Cardinality(S)
    BY <1>6, <1>8
  <2>3. \E x, y \in S : x # y /\ place[x] = place[y]
    BY <1>4, <1>6, <2>1, <2>2, FS_PigeonHole
  <2> QED
    BY <2>1, <2>3
<1> HIDE DEF S, b, p
<1>9. Cardinality(S) <= Len(b) - p
  BY <1>1, <1>2, <1>7, <1>8
<1> QED
  BY <1>3, <1>9 DEF S, b, p

\* When a shift is undefined.
LEMMA ShiftFault ==
  ASSUME program \in Programs, NEW r, Ordered(r), r.fault = "none", NEW f \in 1..Len(program),
         NEW inst \in ToSet(Original(f)), NEW dir \in Int
  PROVE  /\ ShiftCallInst(r, inst, dir).fault \in {"none", "end", "dangling"}
         /\ ShiftCallInst(r, inst, dir).fault = "dangling" =>
              inst \in r.freed \/ (dir < 0 /\ Above(f, inst) \subseteq r.freed)
         /\ ShiftCallInst(r, inst, dir).fault = "end" =>
              dir > Cardinality(Below(f, inst) \ r.freed)
<1> DEFINE from   == PosOf(r, inst)
           to     == ShiftPlace(r, inst, dir)
           copied == CreateCopies(r, <<inst>>)
           erased == EraseInst(copied, inst)
           place  == IF to > from THEN to - 1 ELSE to
           put    == InsertBefore(erased, FuncOf(r, inst), place, NewInst(r))
           kept   == Guarded(erased, to = from, "dangling", put)
           moved  == Guarded(r, to > Len(r.body[FuncOf(r, inst)]), "end", kept)
           s      == ShiftCallInst(r, inst, dir)
           b      == r.body[f]
<1>1. CASE dir = 0
  BY <1>1 DEF ShiftCallInst
<1>2. CASE dir # 0 /\ inst \in r.freed
  <2>1. s = [r EXCEPT !.fault = "dangling"]
    BY <1>2 DEF ShiftCallInst, Guarded
  <2>2. IsIR(r)
    BY DEF Ordered
  <2> HIDE DEF s
  <2>3. s.fault = "dangling"
    BY <2>1, <2>2, FaultShows
  <2> QED
    BY <1>2, <2>3 DEF s
<1>3. CASE dir # 0 /\ inst \notin r.freed
  <2>1. s = moved
    <3>1. s = Guarded(r, inst \in r.freed, "dangling", moved)
      BY <1>3 DEF ShiftCallInst
    <3> HIDE DEF s, moved
    <3> QED
      BY <1>3, <3>1 DEF Guarded
  <2>2. IsIR(r) /\ inst \in 1..Total /\ Total \in Nat /\ <<inst>> \in Seq(1..Total)
    <3>1. inst \in 1..Total /\ Total \in Nat
      BY OriginalSets
    <3> QED
      BY <3>1 DEF Ordered
  <2>3. /\ FuncOf(r, inst) = f /\ from \in 1..Len(b) /\ b[from] = inst
        /\ b \in Seq(Nat) /\ Len(b) \in Nat
    <3>1. InOrder(b, ToSet(Original(f)) \ r.freed)
      BY DEF Ordered
    <3>2. b \in Seq(Nat) /\ Len(b) \in Nat
      BY <3>1 DEF InOrder
    <3> QED
      BY <1>3, <3>2, LivePlace
  <2>4. /\ dir < 0 => to = IF from + dir < 1 THEN 1 ELSE from + dir
        /\ ~(dir < 0) => to = IF from + dir > Len(b) + 1 THEN Len(b) + 1 ELSE from + dir
    BY <2>3 DEF ShiftPlace, RelativePlace
  <2>5. /\ Leads(r, copied, {}) /\ copied.body = r.body /\ copied.freed = r.freed
        /\ copied.fault = "none"
    <3>1. ToSet(<<inst>>) \cap r.freed = {}
      BY <1>3 DEF ToSet
    <3> QED
      BY <2>2, <3>1, CopiesLead
  <2>6. Ordered(copied) /\ PosOf(copied, inst) = from
    BY <2>5 DEF Leads, PosOf, FuncOf
  <2> HIDE DEF copied
  <2>7. /\ Leads(copied, erased, {inst}) /\ Ordered(erased) /\ erased.fault = "none"
        /\ erased.body = [r.body EXCEPT ![f] = RemoveAt(b, from)]
    <3>1. Leads(copied, erased, {inst})
      BY <2>6, EraseLeads
    <3>2. inst \notin copied.freed
      BY <1>3, <2>5
    <3> DEFINE p == PosOf(copied, inst)
    <3>3. copied.fault = "none" /\ Ordered(copied)
      BY <2>5, <2>6
    <3>4. /\ erased.fault = "none"
          /\ erased.body = [copied.body EXCEPT ![f] = RemoveAt(copied.body[f], p)]
      <4>1. /\ EraseInst(copied, inst).fault = "none"
            /\ EraseInst(copied, inst).body = [copied.body EXCEPT ![f] = RemoveAt(copied.body[f], PosOf(copied, inst))]
        <5>1. InBounds(copied)
          BY <3>3 DEF Ordered, InBounds
        <5> QED
          BY <3>2, <3>3, <5>1, ErasedBody, EraseInstFacts
      <4> QED
        BY <4>1
    <3> HIDE DEF erased, p, from
    <3>5. Ordered(erased)
      BY <3>1 DEF Leads
    <3>6. p = from
      BY <2>6 DEF p
    <3> QED
      BY <2>5, <3>1, <3>4, <3>5, <3>6
  <2> HIDE DEF erased, to, s
  <2>8. CASE to > Len(b)
    <3>1. s = [r EXCEPT !.fault = "end"]
      BY <2>1, <2>3, <2>8 DEF moved, Guarded
    <3>2. s.fault = "end"
      BY <2>2, <3>1, FaultShows
    <3> HIDE DEF b, from
    <3>3. dir > 0 /\ dir > Len(b) - from
      BY <1>3, <2>3, <2>4, <2>8
    <3>4. IsFiniteSet(Below(f, inst)) /\ Cardinality(Below(f, inst) \ r.freed) <= Len(b) - from
      BY <1>3, RoomBelow DEF b, from
    <3>5. Cardinality(Below(f, inst) \ r.freed) \in Nat
      BY <3>4, FS_Subset, FS_CardinalityType
    <3>6. dir > Cardinality(Below(f, inst) \ r.freed)
      BY <2>3, <3>3, <3>4, <3>5
    <3> QED
      BY <3>2, <3>6 DEF s
  <2>9. CASE ~(to > Len(b)) /\ to = from
    <3>1. s = [erased EXCEPT !.fault = "dangling"]
      BY <2>1, <2>3, <2>7, <2>9 DEF moved, kept, Guarded
    <3>2. IsIR(erased)
      BY <2>7 DEF Ordered
    <3>3. s.fault = "dangling"
      BY <3>1, <3>2, FaultShows
    <3>4. dir < 0 /\ from = 1
      <4> HIDE DEF b, from
      <4> QED
        BY <1>3, <2>3, <2>4, <2>9
    <3>5. ASSUME NEW x \in Above(f, inst), x \notin r.freed PROVE FALSE
      <4>1. /\ x \in ToSet(Original(f)) /\ x < inst /\ x \in 1..Total /\ Total \in Nat
            /\ InOrder(b, ToSet(Original(f)) \ r.freed)
        BY OriginalSets DEF Above, Ordered
      <4>2. PICK n \in 1..Len(b) : b[n] = x
        BY <3>5, <4>1 DEF InOrder
      <4> HIDE DEF b, from
      <4>3. n # from /\ from < n
        BY <2>2, <2>3, <3>4, <4>1, <4>2
      <4>4. b[from] < b[n]
        <5>1. \A j, k \in 1..Len(b) : j < k /\ b[j] <= Total /\ b[k] <= Total => b[j] < b[k]
          BY <4>1 DEF InOrder
        <5>2. b[from] <= Total /\ b[n] <= Total
          BY <2>2, <2>3, <4>1, <4>2
        <5> QED
          BY <2>3, <4>3, <5>1, <5>2
      <4> QED
        BY <2>2, <2>3, <4>1, <4>2, <4>4
    <3> QED
      BY <3>3, <3>4, <3>5 DEF s
  <2>10. CASE ~(to > Len(b)) /\ to # from
    <3>1. s = put
      BY <2>1, <2>3, <2>7, <2>10 DEF moved, kept, Guarded
    <3>2. /\ Len(erased.body[f]) = Len(b) - 1
      <4>1. r.body \in Seq(Seq(Nat)) /\ Len(r.body) = Len(program)
        BY DEF Ordered
      <4>2. erased.body[f] = RemoveAt(b, from)
        BY <2>7, <4>1
      <4> HIDE DEF b, from
      <4>3. Len(RemoveAt(b, from)) = Len(b) - 1
        BY <2>3, RemoveAtFacts
      <4> QED
        BY <4>2, <4>3
    <3>3. place \in Nat \ {0} /\ place <= Len(erased.body[f])
      <4> HIDE DEF b, from
      <4>1. to \in Nat \ {0} /\ to <= Len(b)
        BY <1>3, <2>3, <2>4, <2>10
      <4> QED
        BY <2>3, <2>10, <3>2, <4>1
    <3> HIDE DEF place
    <3>4. NewInst(r) \in Nat /\ NewInst(r) > Total
      BY NewIsNew
    <3> DEFINE new == NewInst(r)
    <3>5. InsertBefore(erased, f, place, new).fault = "none"
      <4> HIDE DEF new
      <4>1. new \in Nat /\ new > Total
        BY <3>4 DEF new
      <4>2. Ordered(erased) /\ erased.fault = "none" /\ place \in Nat \ {0}
        BY <2>7, <3>3
      <4>3. /\ Leads(erased, InsertBefore(erased, f, place, new), {})
            /\ InsertBefore(erased, f, place, new).body = [erased.body EXCEPT ![f] = InsertAt(erased.body[f], place, new)]
            /\ InsertBefore(erased, f, place, new).freed = erased.freed
            /\ InsertBefore(erased, f, place, new).fault = "none"
        BY <3>3, <4>1, <4>2, InsertLeads
      <4> QED
        BY <4>3
    <3>6. s.fault = "none"
      BY <2>3, <3>1, <3>5 DEF put
    <3> QED
      BY <3>6 DEF s
  <2> QED
    BY <2>8, <2>9, <2>10
<1> QED
  BY <1>1, <1>2, <1>3

\* A shift that a group of the command line asks for has one of the causes, when the
\* calls erased so far were moved by groups, too.
LEMMA ShiftExplained ==
  ASSUME program \in Programs, NEW r, Ordered(r), r.fault = "none", NEW f \in 1..Len(program),
         NEW inst \in ToSet(Original(f)), NEW dir \in Int,
         NEW M, r.freed \subseteq M,
         NEW n, [inst |-> inst, dir |-> dir] \in ShiftsOf(n)
  PROVE  /\ ShiftCallInst(r, inst, dir).fault \in {"none", "end", "dangling"}
         /\ ShiftCallInst(r, inst, dir).fault = "dangling" =>
              \/ inst \in r.freed
              \/ \E shift \in ShiftsOf(n) :
                   shift.dir < 0 /\ \A x \in Around(shift.inst) : x < shift.inst => x \in M
         /\ ShiftCallInst(r, inst, dir).fault = "end" =>
              \E shift \in ShiftsOf(n) :
                shift.dir > Cardinality({x \in Around(shift.inst) : x > shift.inst} \ M)
<1> DEFINE s    == ShiftCallInst(r, inst, dir)
           here == [inst |-> inst, dir |-> dir]
<1>1. /\ s.fault \in {"none", "end", "dangling"}
      /\ s.fault = "dangling" => inst \in r.freed \/ (dir < 0 /\ Above(f, inst) \subseteq r.freed)
      /\ s.fault = "end" => dir > Cardinality(Below(f, inst) \ r.freed)
  BY ShiftFault
<1> HIDE DEF s
<1>2. Around(inst) = ToSet(Original(f))
  <2>1. {g \in 1..Len(program) : inst \in ToSet(Original(g))} = {f}
    BY OriginalSets
  <2> QED
    BY <2>1 DEF Around
<1>3. here \in ShiftsOf(n) /\ here.inst = inst /\ here.dir = dir
  OBVIOUS
<1> HIDE DEF here
<1>4. ASSUME s.fault = "dangling", inst \notin r.freed
      PROVE  here.dir < 0 /\ \A x \in Around(here.inst) : x < here.inst => x \in M
  BY <1>1, <1>2, <1>3, <1>4 DEF Above
<1>5. ASSUME s.fault = "end"
      PROVE  here.dir > Cardinality({x \in Around(here.inst) : x > here.inst} \ M)
  <2> DEFINE all  == Below(f, inst) \ r.freed
             less == Below(f, inst) \ M
  <2>1. {x \in Around(here.inst) : x > here.inst} \ M = less
    BY <1>2, <1>3 DEF Below
  <2>2. IsFiniteSet(all)
    <3>1. Below(f, inst) \subseteq 1..Total /\ Total \in Nat
      BY OriginalSets DEF Below
    <3>2. IsFiniteSet(1..Total)
      BY <3>1, FS_Interval
    <3>3. all \subseteq 1..Total
      BY <3>1
    <3> HIDE DEF all
    <3> QED
      BY <3>2, <3>3, FS_Subset
  <2>3. less \subseteq all
    OBVIOUS
  <2>4. dir > Cardinality(all)
    BY <1>1, <1>5
  <2> HIDE DEF all, less
  <2>5. Cardinality(less) <= Cardinality(all) /\ IsFiniteSet(less)
    BY <2>2, <2>3, FS_Subset
  <2>6. Cardinality(less) \in Nat /\ Cardinality(all) \in Nat
    BY <2>2, <2>5, FS_CardinalityType
  <2>7. dir > Cardinality(less)
    BY <2>4, <2>5, <2>6
  <2> QED
    BY <1>3, <2>1, <2>7
<1> QED
  BY <1>1, <1>3, <1>4, <1>5 DEF s

\* The causes and what the modes have erased when they look for the next group.
CauseInv ==
  /\ FaultsExplained
  /\ pc = "loop" /\ Mode("shift") => ir.freed \subseteq Moved
  /\ pc \in {"loop", "ran"} /\ (NoMode \/ Mode("split")) => ir.freed = {}
  /\ pc \in {"erase", "ran"} /\ ~NoMode => i >= Len(cmd.pos)

\* What the groups ask for depends on the command line and the pairs only.
LEMMA SameShifts ==
  ASSUME UNCHANGED <<cmd, program, funcPairs>>
  PROVE  /\ \A n : ShiftsOf(n)' = ShiftsOf(n) /\ MovedBy(n)' = MovedBy(n)
         /\ \A x : Around(x)' = Around(x)
         /\ ShiftGroups' = {n \in Groups(2) : HasPair(n) /\ n < i'}
         /\ Moved' = UNION {MovedBy(n) : n \in ShiftGroups'}
         /\ NoMode' = NoMode /\ DisjointSwaps' = DisjointSwaps
         /\ SmallPositions' = SmallPositions
<1>1. \A n : PairAt(n)' = PairAt(n) /\ HasPair(n)' = HasPair(n)
  BY DEF PairAt, HasPair, At
<1>2. Groups(2)' = Groups(2)
  BY DEF Groups
<1>3. ASSUME NEW n PROVE ShiftsOf(n)' = ShiftsOf(n) /\ MovedBy(n)' = MovedBy(n)
  BY DEF ShiftsOf, MovedBy, DirAt, InList, PairAt, At
<1>4. \A x : Around(x)' = Around(x)
  BY DEF Around, Original
<1>5. ShiftGroups' = {n \in Groups(2) : HasPair(n) /\ n < i'}
  BY <1>1, <1>2 DEF ShiftGroups, HasPair, At, Groups
<1>6. Moved' = UNION {MovedBy(n) : n \in ShiftGroups'}
  BY DEF Moved, MovedBy, ShiftsOf, DirAt, InList, PairAt, At
<1>7. NoMode' = NoMode /\ SmallPositions' = SmallPositions
  BY DEF NoMode, Mode, SmallPositions
<1> QED
  BY <1>3, <1>4, <1>5, <1>6, <1>7, SamePairs

\* As long as there was no fault there is nothing to explain.
LEMMA NoFault == ir.fault = "none" => FaultsExplained
  BY DEF FaultsExplained

\* A step that leaves the module alone.
LEMMA SameCause ==
  ASSUME IInv, pc # "fault", ir' = ir
  PROVE  FaultsExplained'
<1>1. ir'.fault = "none"
  BY DEF IInv, ArgsInv
<1> QED
  BY <1>1 DEF FaultsExplained

\* A turn of -shift.
LEMMA ShiftPairCause == IInv /\ OrderInv /\ CauseInv /\ ShiftPair => CauseInv'
<1> SUFFICES ASSUME IInv, OrderInv, CauseInv, ShiftPair PROVE CauseInv'
  OBVIOUS
<1> DEFINE G    == ShiftGroups'
           M    == Moved'
           n    == i
           a    == PairAt(n).lockCall
           b    == PairAt(n).unlockCall
           once == Shifted(ir, a, LockShift)
<1>1. /\ pc = "loop" /\ Mode("shift") /\ n < Len(cmd.pos) /\ NamesPairs(2)
      /\ ir' = Shifted(once, b, UnlockShift) /\ i' = n + 2
      /\ pc' = IF Faulted(ir') THEN "fault" ELSE pc
      /\ UNCHANGED <<cmd, program, funcPairs>>
  BY DEF ShiftPair, InLoop, Commit, Advance
<1>2. /\ n \in Nat /\ n % 2 = 0 /\ n + 1 < Len(cmd.pos) /\ HasPair(n)
      /\ program \in Programs /\ Ordered(ir) /\ cmd \in Commands /\ ir.fault = "none"
  BY <1>1, IndexAt DEF IInv, ArgsInv, OrderInv, Visited
<1>3. n \in Groups(2)
  BY <1>1, <1>2, NamedAt
<1>4. PICK f \in 1..Len(program) : IsPairOf(PairAt(n), f)
  BY <1>1, <1>2, NamedAt
<1>5. a \in ToSet(Original(f)) /\ b \in ToSet(Original(f)) /\ a # b
  <2>1. a \in ToSet(Original(f)) /\ b \in ToSet(Original(f)) /\ a < b
    BY <1>4 DEF IsPairOf
  <2>2. a \in 1..Total /\ Total \in Nat
    BY <1>2, <2>1, OriginalSets
  <2> HIDE DEF a, b
  <2> QED
    BY <2>1, <2>2
<1>6. LockShift \in Int /\ UnlockShift \in Int
  BY <1>2, ShiftDirections
<1>7. /\ LockShift \notin {0, 1} => [inst |-> a, dir |-> LockShift] \in ShiftsOf(n)
      /\ UnlockShift \notin {0, 1} => [inst |-> b, dir |-> UnlockShift] \in ShiftsOf(n)
  BY DEF ShiftsOf, LockShift, UnlockShift
<1>8. /\ LockShift \notin {0, 1} => a \in MovedBy(n)
      /\ UnlockShift \notin {0, 1} => b \in MovedBy(n)
  BY <1>7 DEF MovedBy
<1>9. n \in G /\ ShiftGroups \subseteq G /\ \A m \in ShiftGroups : m < n /\ m \in G
  <2>1. G = {m \in Groups(2) : HasPair(m) /\ m < i'}
    BY <1>1, SameShifts
  <2>2. ShiftGroups = {m \in Groups(2) : HasPair(m) /\ m < n}
    BY DEF ShiftGroups
  <2>3. \A m \in Groups(2) : m \in Int
    BY <1>1 DEF Groups
  <2> HIDE DEF G, n
  <2>4. n < i' /\ \A m \in Int : m < n => m < i'
    BY <1>1, <1>2
  <2> QED
    BY <1>2, <1>3, <2>1, <2>2, <2>3, <2>4
<1>10. M = UNION {MovedBy(m) : m \in G}
  BY <1>1, SameShifts
<1>11. ir.freed \subseteq Moved /\ ir.freed \subseteq M /\ MovedBy(n) \subseteq M
  <2>1. ir.freed \subseteq Moved
    BY <1>1 DEF CauseInv
  <2>2. Moved = UNION {MovedBy(m) : m \in ShiftGroups}
    BY DEF Moved
  <2> HIDE DEF G, M, n
  <2> QED
    BY <1>9, <1>10, <2>1, <2>2
<1> DEFINE twice == \E m, k \in G : m < k /\ MovedBy(m) \cap MovedBy(k) # {}
           up    == \E k \in G : \E shift \in ShiftsOf(k) :
                      shift.dir < 0 /\ \A x \in Around(shift.inst) : x < shift.inst => x \in M
           down  == \E k \in G : \E shift \in ShiftsOf(k) :
                      shift.dir > Cardinality({x \in Around(shift.inst) : x > shift.inst} \ M)
<1>12. /\ twice => MovedTwice'
       /\ up => UpFromTop'
       /\ down => DownPastEnd'
  <2>1. MovedTwice' <=> twice
    BY <1>1, SameShifts DEF MovedTwice
  <2>2. UpFromTop' <=> up
    BY <1>1, SameShifts DEF UpFromTop
  <2>3. DownPastEnd' <=> down
    BY <1>1, SameShifts DEF DownPastEnd
  <2> QED
    BY <2>1, <2>2, <2>3
<1>13. ASSUME NEW x \in MovedBy(n), x \in ir.freed PROVE twice
  <2>1. PICK m \in ShiftGroups : x \in MovedBy(m)
    BY <1>11, <1>13 DEF Moved
  <2> HIDE DEF G, n
  <2> QED
    BY <1>9, <1>13, <2>1
<1>14. /\ once.fault \in {"none", "end", "dangling"}
       /\ once.fault = "dangling" => twice \/ up
       /\ once.fault = "end" => down
       /\ Ordered(once) /\ once.freed \subseteq ir.freed \union {a} /\ once.freed \subseteq M
       /\ LockShift \in {0, 1} => once.freed = ir.freed
  <2>1. CASE LockShift \in {0, 1}
    <3>1. once = ir
      BY <2>1 DEF Shifted, ShiftCallInst
    <3> HIDE DEF once, M
    <3> QED
      BY <1>2, <1>11, <3>1
  <2>2. CASE LockShift \notin {0, 1}
    <3>1. once = ShiftCallInst(ir, a, LockShift)
      BY <2>2 DEF Shifted
    <3>2. Leads(ir, once, {a})
      BY <1>2, <1>5, <1>6, ShiftedLeads
    <3>3. Ordered(once) /\ once.freed \subseteq ir.freed \union {a} /\ once.freed \subseteq M
      BY <1>8, <1>11, <2>2, <3>2 DEF Leads
    <3>4. [inst |-> a, dir |-> LockShift] \in ShiftsOf(n)
      BY <1>7, <2>2
    <3>5. a \in ir.freed => twice
      BY <1>8, <1>13, <2>2
    <3> HIDE DEF once, twice, M, G, n, a
    <3>6. /\ ShiftCallInst(ir, a, LockShift).fault \in {"none", "end", "dangling"}
          /\ ShiftCallInst(ir, a, LockShift).fault = "dangling" =>
               \/ a \in ir.freed
               \/ \E shift \in ShiftsOf(n) :
                    shift.dir < 0 /\ \A x \in Around(shift.inst) : x < shift.inst => x \in M
          /\ ShiftCallInst(ir, a, LockShift).fault = "end" =>
               \E shift \in ShiftsOf(n) :
                 shift.dir > Cardinality({x \in Around(shift.inst) : x > shift.inst} \ M)
      BY <1>2, <1>5, <1>6, <1>11, <3>4, ShiftExplained
    <3> QED
      BY <1>9, <2>2, <3>1, <3>3, <3>5, <3>6
  <2> QED
    BY <2>1, <2>2
<1> HIDE DEF once
<1>15. /\ ir'.fault \in {"none", "end", "dangling"}
       /\ ir'.fault = "dangling" => twice \/ up
       /\ ir'.fault = "end" => down
       /\ ir'.freed \subseteq M
  <2>1. CASE UnlockShift \in {0, 1}
    <3>1. ir' = once
      BY <1>1, <2>1 DEF Shifted, ShiftCallInst
    <3> HIDE DEF twice, up, down, M
    <3> QED
      BY <1>14, <3>1
  <2>2. CASE UnlockShift \notin {0, 1} /\ once.fault # "none"
    <3>1. ir' = once
      BY <1>1, <2>2 DEF Shifted, ShiftCallInst, Guarded
    <3> HIDE DEF twice, up, down, M
    <3> QED
      BY <1>14, <3>1
  <2>3. CASE UnlockShift \notin {0, 1} /\ once.fault = "none"
    <3>1. ir' = ShiftCallInst(once, b, UnlockShift)
      BY <1>1, <2>3 DEF Shifted
    <3>2. Leads(once, ir', {b})
      BY <1>1, <1>2, <1>5, <1>6, <1>14, ShiftedLeads
    <3>3. ir'.freed \subseteq M
      BY <1>8, <1>11, <1>14, <2>3, <3>2 DEF Leads
    <3>4. [inst |-> b, dir |-> UnlockShift] \in ShiftsOf(n)
      BY <1>7, <2>3
    <3>5. b \in once.freed => twice
      BY <1>5, <1>8, <1>13, <1>14, <2>3
    <3> HIDE DEF twice, M, G, n, b
    <3>6. /\ ShiftCallInst(once, b, UnlockShift).fault \in {"none", "end", "dangling"}
          /\ ShiftCallInst(once, b, UnlockShift).fault = "dangling" =>
               \/ b \in once.freed
               \/ \E shift \in ShiftsOf(n) :
                    shift.dir < 0 /\ \A x \in Around(shift.inst) : x < shift.inst => x \in M
          /\ ShiftCallInst(once, b, UnlockShift).fault = "end" =>
               \E shift \in ShiftsOf(n) :
                 shift.dir > Cardinality({x \in Around(shift.inst) : x > shift.inst} \ M)
      BY <1>2, <1>5, <1>6, <1>14, <2>3, <3>4, ShiftExplained
    <3> QED
      BY <1>9, <3>1, <3>3, <3>5, <3>6
  <2> QED
    BY <2>1, <2>2, <2>3
<1> HIDE DEF twice, up, down
<1>16. Mode("shift")' /\ ~Mode("split")' /\ ~NoMode'
  <2>1. ~Mode("split") /\ ~NoMode
    <3>1. ArgsAccepted
      BY <1>1 DEF IInv, ArgsInv, Looping
    <3> QED
      BY <1>1, <3>1 DEF ArgsAccepted, ExactlyOneMode, NoMode, Modes
  <2> QED
    BY <1>1, <2>1, SameCommand, SameShifts
<1>17. FaultsExplained'
  <2>1. ir'.fault = "end" => Mode("shift")' /\ DownPastEnd'
    BY <1>12, <1>15, <1>16
  <2>2. ir'.fault = "dangling" => Mode("shift")' /\ (MovedTwice' \/ UpFromTop')
    BY <1>12, <1>15, <1>16
  <2>3. ir'.fault \in {"none", "end", "dangling"}
    BY <1>15
  <2> QED
    BY <2>1, <2>2, <2>3 DEF FaultsExplained
<1>18. pc' \in {"loop", "fault"}
  BY <1>1
<1> QED
  BY <1>15, <1>16, <1>17, <1>18 DEF CauseInv

\* A turn of -split.
LEMMA SplitPairCause == IInv /\ OrderInv /\ StaysInv /\ CauseInv /\ SplitPair => CauseInv'
<1> SUFFICES ASSUME IInv, OrderInv, StaysInv, CauseInv, SplitPair PROVE CauseInv'
  OBVIOUS
<1>1. /\ pc = "loop" /\ Mode("split") /\ i < Len(cmd.pos) /\ CanSplit
      /\ ir' = SplitApart(PairAt(i)) /\ UNCHANGED <<cmd, program, funcPairs>>
      /\ pc' = IF Faulted(ir') THEN "fault" ELSE pc
  BY DEF SplitPair, InLoop, Commit
<1>2. /\ i \in Nat /\ i % 2 = 0 /\ i + 1 < Len(cmd.pos) /\ HasPair(i)
      /\ i + 1 < Len(cmd.splitpos) /\ SplitFits(PairAt(i)) /\ program \in Programs
      /\ Ordered(ir) /\ cmd \in Commands /\ InBounds(ir) /\ ir.fault = "none"
  BY <1>1, IndexAt DEF IInv, ArgsInv, OrderInv, Visited, CanSplit, InList
<1>3. ir.freed = {}
  BY <1>1 DEF CauseInv
<1>4. PICK f \in 1..Len(program) : IsPairOf(PairAt(i), f)
  BY <1>1, <1>2, NamedAt
<1>5. ir'.fault \in {"none", "end"} /\ ir'.freed = {}
  BY <1>1, <1>2, <1>3, <1>4, SplitKinds
<1>6. SmallPositions => ir'.fault = "none"
  BY <1>1, <1>2, <1>3, <1>4, SplitInside
<1>7. Mode("split")' /\ ~Mode("shift")' /\ ~NoMode' /\ SmallPositions' = SmallPositions
  <2>1. ~Mode("shift") /\ ~NoMode
    BY <1>1, SplitOnly DEF Looping, NoMode, Modes
  <2> QED
    BY <1>1, <2>1, SameCommand, SameShifts
<1>8. FaultsExplained'
  BY <1>5, <1>6, <1>7 DEF FaultsExplained
<1>9. pc' \in {"loop", "fault"}
  BY <1>1
<1> QED
  BY <1>5, <1>7, <1>8, <1>9 DEF CauseInv

\* A turn of -swap goes wrong only when a call is named twice.
LEMMA SwapPairsCause == IInv /\ CauseInv /\ (SwapPairs \/ SkipSameLock) => CauseInv'
<1> SUFFICES ASSUME IInv, CauseInv, SwapPairs \/ SkipSameLock PROVE CauseInv'
  OBVIOUS
<1> DEFINE p1 == PairAt(i)
           p2 == PairAt(i + 2)
<1>1. /\ pc = "loop" /\ Mode("swap") /\ i < Len(cmd.pos) /\ NamesPairs(4)
      /\ UNCHANGED <<cmd, program, funcPairs>>
      /\ pc' = IF Faulted(ir') THEN "fault" ELSE pc
  BY DEF SwapPairs, SkipSameLock, InLoop, Commit
<1>2. /\ InBounds(ir) /\ ir.fault = "none" /\ i \in Nat /\ i % 4 = 0 /\ Len(cmd.pos) \in Nat
  BY <1>1, CommandTypes DEF IInv, ArgsInv
<1>3. HasPair(i) /\ HasPair(i + 2) /\ i + 3 < Len(cmd.pos)
  BY <1>1, <1>2, FourPositions
<1>4. i \in SwapGroups
  BY <1>2, <1>3, AlignedGroup DEF IInv
<1>5. ir'.fault \in {"none", "dangling"} /\ (DisjointSwaps => ir'.fault = "none")
  <2>1. CASE SwapPairs
    <3>1. ir' = Swapped(p1, p2)
      BY <2>1 DEF SwapPairs, Commit
    <3>2. ir'.fault \in {"none", "dangling"}
      BY <1>2, <3>1, SwapKinds
    <3>3. ASSUME DisjointSwaps PROVE ir'.fault = "none"
      <4>1. ir.freed \subseteq SwappedCalls
        BY <1>1, <3>3 DEF IInv, SwapInv
      <4>2. ASSUME NEW g \in SwapGroups, g < i PROVE CallsUsed(g) \cap CallsUsed(i) = {}
        <5>1. g # i
          BY <1>2, <4>2
        <5> QED
          BY <1>4, <3>3, <5>1 DEF DisjointSwaps
      <4>3. SwappedCalls \cap CallsUsed(i) = {}
        BY <4>2 DEF SwappedCalls
      <4>4. /\ (Calls(p1) \union Calls(p2)) \cap ir.freed = {} /\ Disjoint(p1, p2)
            /\ p1.lockCall # p1.unlockCall /\ p2.lockCall # p2.unlockCall
        BY <1>4, <3>3, <4>1, <4>3 DEF DisjointSwaps, CallsUsed, PairsUsed
      <4> QED
        BY <1>2, <3>1, <4>4, SwappedFacts
    <3> QED
      BY <3>2, <3>3
  <2>2. CASE SkipSameLock
    <3> DEFINE read == Calls(p1) \union Calls(p2)
    <3>1. ir' = Dereference(ir, read) /\ SameLockCall
      BY <2>2 DEF SkipSameLock, Commit
    <3>2. ~DisjointSwaps
      BY <1>4, <3>1 DEF DisjointSwaps, Disjoint, Calls, SameLockCall
    <3> HIDE DEF read
    <3>3. IsIR(ir) /\ ir.fault \in {"none", "dangling"}
      BY <1>2 DEF InBounds
    <3>4. Guarded(ir, read \cap ir.freed # {}, "dangling", ir).fault \in {"none", "dangling"}
      BY <3>3, GuardedKinds
    <3> QED
      BY <3>1, <3>2, <3>4 DEF Dereference
  <2> QED
    BY <2>1, <2>2
<1>6. Mode("swap")' /\ DisjointSwaps' = DisjointSwaps
  BY <1>1, SameCommand, SameShifts
<1>7. ~Mode("shift")' /\ ~Mode("split")' /\ ~NoMode'
  <2>1. ArgsAccepted
    BY <1>1 DEF IInv, ArgsInv, Looping
  <2>2. ~Mode("shift") /\ ~Mode("split") /\ ~NoMode
    BY <1>1, <2>1 DEF ArgsAccepted, ExactlyOneMode, NoMode, Modes
  <2> QED
    BY <1>1, <2>2, SameCommand, SameShifts
<1>8. FaultsExplained'
  BY <1>5, <1>6 DEF FaultsExplained
<1>9. pc' \in {"loop", "fault"}
  BY <1>1
<1> QED
  BY <1>7, <1>8, <1>9 DEF CauseInv

\* The positions that name no pair, in all modes.
LEMMA SkipCause ==
  IInv /\ CauseInv /\ (SkipCollect \/ SkipSwap \/ SkipShift \/ SkipSplit) => CauseInv'
<1> SUFFICES ASSUME IInv, CauseInv, SkipCollect \/ SkipSwap \/ SkipShift \/ SkipSplit PROVE CauseInv'
  OBVIOUS
<1>1. /\ pc = "loop" /\ i < Len(cmd.pos) /\ UNCHANGED <<cmd, program, funcPairs>>
      /\ Mode("rm") \/ Mode("swap") \/ Mode("shift") \/ Mode("split")
      /\ i' \in {i + 2, i + 4}
  BY DEF SkipCollect, SkipSwap, SkipShift, SkipSplit, InLoop, Skip, Commit, Advance
<1>2. ir' = ir /\ pc' = pc
  <2>1. ir' = ir
    <3>1. CASE SkipCollect
      <4>1. ~Overrun(2)
        BY <1>1, <3>1, NoOverrun DEF IInv, SkipCollect, InLoop
      <4> QED
        BY <3>1, <4>1 DEF SkipCollect, Skip, Commit
    <3>2. CASE SkipSwap
      <4>1. ~Overrun(4)
        BY <1>1, <3>2, NoOverrun DEF IInv, SkipSwap, InLoop
      <4> QED
        BY <3>2, <4>1 DEF SkipSwap, Skip, Commit
    <3>3. CASE SkipShift
      <4>1. ~Overrun(2)
        BY <1>1, <3>3, NoOverrun DEF IInv, SkipShift, InLoop
      <4> QED
        BY <3>3, <4>1 DEF SkipShift, Skip, Commit
    <3>4. CASE SkipSplit
      <4>1. ~Overrun(2) /\ ~SplitOverrun
        BY <1>1, <3>4, NoOverrun DEF IInv, SkipSplit, InLoop
      <4> QED
        BY <3>4, <4>1 DEF SkipSplit, Skip, Commit
    <3> QED
      BY <3>1, <3>2, <3>3, <3>4
  <2>2. ir.fault = "none"
    BY <1>1 DEF IInv, ArgsInv
  <2>3. pc' = IF Faulted(ir') THEN "fault" ELSE pc
    BY DEF SkipCollect, SkipSwap, SkipShift, SkipSplit, Skip, Commit
  <2> QED
    BY <2>1, <2>2, <2>3 DEF Faulted
<1>3. FaultsExplained'
  BY <1>1, <1>2, SameCause
<1>4. Moved \subseteq Moved'
  <2>1. i \in Nat
    BY DEF IInv, ArgsInv
  <2>2. \A m \in Groups(2) : m \in Int
    BY <1>1 DEF Groups
  <2>3. ShiftGroups \subseteq ShiftGroups'
    <3>1. ShiftGroups' = {m \in Groups(2) : HasPair(m) /\ m < i'}
      BY <1>1, SameShifts
    <3>2. ShiftGroups = {m \in Groups(2) : HasPair(m) /\ m < i}
      BY DEF ShiftGroups
    <3>3. \A m \in Int : m < i => m < i'
      BY <1>1, <2>1
    <3> QED
      BY <2>2, <3>1, <3>2, <3>3
  <2>4. Moved' = UNION {MovedBy(n) : n \in ShiftGroups'}
    BY <1>1, SameShifts
  <2>5. Moved = UNION {MovedBy(n) : n \in ShiftGroups}
    BY DEF Moved
  <2> QED
    BY <2>3, <2>4, <2>5
<1>5. /\ pc = "loop" /\ Mode("shift") => ir.freed \subseteq Moved
      /\ pc \in {"loop", "ran"} /\ (NoMode \/ Mode("split")) => ir.freed = {}
  BY DEF CauseInv
<1>6. Mode("shift")' = Mode("shift") /\ Mode("split")' = Mode("split") /\ NoMode' = NoMode
  BY <1>1, SameCommand, SameShifts
<1> QED
  BY <1>1, <1>2, <1>3, <1>4, <1>5, <1>6 DEF CauseInv

\* The steps of -rm.
LEMMA RemoveCause == IInv /\ CauseInv /\ (CollectPair \/ StartErasing \/ EraseNext) => CauseInv'
<1> SUFFICES ASSUME IInv, CauseInv, CollectPair \/ StartErasing \/ EraseNext PROVE CauseInv'
  OBVIOUS
<1>1. UNCHANGED <<cmd, program, funcPairs>> /\ pc \in {"loop", "erase"} /\ Mode("rm")
  BY DEF CollectPair, StartErasing, EraseNext, InLoop, IInv, RemoveInv
<1>2. Mode("rm")' /\ ~Mode("shift")' /\ ~Mode("split")' /\ ~NoMode'
  <2>1. ArgsAccepted
    BY <1>1 DEF IInv, ArgsInv, Looping
  <2>2. ~Mode("shift") /\ ~Mode("split") /\ ~NoMode
    BY <1>1, <2>1 DEF ArgsAccepted, ExactlyOneMode, NoMode, Modes
  <2> QED
    BY <1>1, <2>2, SameCommand, SameShifts
<1>3. ir'.fault = "none"
  <2>1. CASE CollectPair \/ StartErasing
    BY <1>1, <2>1 DEF CollectPair, StartErasing, IInv, ArgsInv
  <2>2. CASE EraseNext
    <3>1. PICK inst \in toErase : ir' = EraseInst(ir, inst)
      BY <2>2 DEF EraseNext
    <3>2. toErase \cap ir.freed = {} /\ ir.fault = "none" /\ InBounds(ir)
      BY <1>1, <2>2 DEF EraseNext, IInv, ArgsInv, RemoveInv
    <3> QED
      BY <3>1, <3>2, EraseInstFacts
  <2> QED
    BY <2>1, <2>2
<1>4. FaultsExplained'
  BY <1>3 DEF FaultsExplained
<1>5. pc' \in {"erase", "ran"} => i' >= Len(cmd'.pos)
  <2>1. CASE CollectPair
    BY <2>1 DEF CollectPair, InLoop
  <2>2. CASE StartErasing
    BY <2>2 DEF StartErasing
  <2>3. CASE EraseNext
    <3>1. pc = "erase" /\ i' = i /\ cmd' = cmd /\ ~NoMode
      BY <1>1, <2>3 DEF EraseNext, NoMode, Modes
    <3> QED
      BY <3>1 DEF CauseInv
  <2> QED
    BY <2>1, <2>2, <2>3
<1> QED
  BY <1>2, <1>4, <1>5 DEF CauseInv

\* The steps around the loops, up to the listing.
LEMMA AroundCause ==
  IInv /\ OrderInv /\ CauseInv /\ (Visit \/ CheckCommandLineArgs \/ FinishLoop) => CauseInv'
<1> SUFFICES ASSUME IInv, OrderInv, CauseInv, Visit \/ CheckCommandLineArgs \/ FinishLoop
             PROVE  CauseInv'
  OBVIOUS
<1>1. /\ pc \in {"visit", "args", "loop", "erase"} /\ UNCHANGED <<cmd, program, ir, i>>
  BY DEF Visit, CheckCommandLineArgs, FinishLoop
<1>2. FaultsExplained'
  BY <1>1, SameCause
<1>3. CASE Visit \/ CheckCommandLineArgs
  <2>1. ir'.freed = {} /\ pc' \in {"args", "loop", "exit"}
    BY <1>1, <1>3 DEF Visit, CheckCommandLineArgs, IInv, ArgsInv
  <2> QED
    BY <1>2, <2>1 DEF CauseInv
<1>4. CASE FinishLoop
  <2>1. /\ pc' = "ran" /\ NoMode' = NoMode /\ Mode("split")' = Mode("split")
        /\ \/ pc = "loop" /\ (NoMode \/ i >= Len(cmd.pos))
           \/ pc = "erase"
    BY <1>1, <1>4, SameCommand DEF FinishLoop, NoMode
  <2>2. pc = "erase" => ~NoMode /\ ~Mode("split")
    <3>1. ASSUME pc = "erase" PROVE Mode("rm") /\ ArgsAccepted
      BY <3>1 DEF IInv, ArgsInv, RemoveInv, Looping
    <3> QED
      BY <3>1 DEF ArgsAccepted, ExactlyOneMode, NoMode, Modes
  <2>3. ~NoMode => i' >= Len(cmd'.pos)
    BY <1>1, <2>1 DEF CauseInv
  <2>4. NoMode \/ Mode("split") => ir'.freed = {}
    BY <1>1, <2>1, <2>2 DEF CauseInv
  <2> QED
    BY <1>2, <2>1, <2>3, <2>4 DEF CauseInv
<1> QED
  BY <1>3, <1>4

\* The listing.
LEMMA PrintCause == IInv /\ CauseInv /\ PrintPairs => CauseInv'
<1> SUFFICES ASSUME IInv, CauseInv, PrintPairs PROVE CauseInv'
  OBVIOUS
<1>1. /\ pc = "ran" /\ UNCHANGED <<cmd, program, funcPairs, i>>
      /\ ir' = IF VerbosePrint THEN Dereference(ir, AllCalls) ELSE ir
      /\ pc' = IF Faulted(ir') THEN "fault" ELSE "done"
  BY DEF PrintPairs
<1>2. ir.fault = "none" /\ IsIR(ir)
  BY <1>1 DEF IInv, ArgsInv, InBounds
<1>3. CASE VerbosePrint /\ AllCalls \cap ir.freed # {}
  <2>1. ir' = [ir EXCEPT !.fault = "dangling"]
    BY <1>1, <1>2, <1>3 DEF Dereference, Guarded
  <2>2. ir'.fault = "dangling" /\ ir'.freed = ir.freed
    BY <1>2, <2>1 DEF IsIR
  <2>3. i >= Len(cmd.pos) /\ ~Mode("split")
    BY <1>1, <1>3 DEF CauseInv
  <2>4. AllCalls' = AllCalls /\ VerbosePrint' = VerbosePrint /\ Mode("split")' = Mode("split")
    BY <1>1, SameCommand DEF AllCalls, Calls
  <2>5. PrintsErased'
    BY <1>1, <1>3, <2>2, <2>3, <2>4 DEF PrintsErased
  <2>6. FaultsExplained'
    BY <2>2, <2>5 DEF FaultsExplained
  <2>7. pc' = "fault"
    BY <1>1, <2>2 DEF Faulted
  <2> QED
    BY <2>6, <2>7 DEF CauseInv
<1>4. CASE ~(VerbosePrint /\ AllCalls \cap ir.freed # {})
  <2>1. ir' = ir
    BY <1>1, <1>2, <1>4 DEF Dereference, Guarded
  <2>2. FaultsExplained'
    BY <1>1, <2>1, SameCause
  <2>3. pc' = "done"
    BY <1>1, <1>2, <2>1 DEF Faulted
  <2> QED
    BY <2>2, <2>3 DEF CauseInv
<1> QED
  BY <1>3, <1>4

\* A step that changes nothing.
LEMMA StutterCause == CauseInv /\ UNCHANGED vars => CauseInv'
<1> SUFFICES ASSUME CauseInv, UNCHANGED vars PROVE CauseInv'
  OBVIOUS
<1>1. UNCHANGED <<cmd, program, ir, funcPairs, i, pc>>
  BY DEF vars
<1>2. ShiftGroups' = ShiftGroups /\ Moved' = Moved
  <2>1. ShiftGroups' = ShiftGroups
    BY <1>1, SameShifts DEF ShiftGroups
  <2> QED
    BY <1>1, <2>1, SameShifts DEF Moved
<1>3. MovedTwice' = MovedTwice
  BY <1>1, <1>2, SameShifts DEF MovedTwice
<1>4. UpFromTop' = UpFromTop
  BY <1>1, <1>2, SameShifts DEF UpFromTop
<1>5. DownPastEnd' = DownPastEnd
  BY <1>1, <1>2, SameShifts DEF DownPastEnd
<1>6. PrintsErased' = PrintsErased
  <2>1. AllCalls' = AllCalls /\ VerbosePrint' = VerbosePrint /\ Mode("split")' = Mode("split")
    BY <1>1, SameCommand DEF AllCalls, Calls
  <2> QED
    BY <1>1, <2>1 DEF PrintsErased
<1>7. /\ DisjointSwaps' = DisjointSwaps /\ SmallPositions' = SmallPositions /\ NoMode' = NoMode
      /\ \A m : Mode(m)' = Mode(m)
  BY <1>1, SameShifts, SameCommand
<1>8. FaultsExplained'
  BY <1>1, <1>3, <1>4, <1>5, <1>6, <1>7 DEF CauseInv, FaultsExplained
<1> QED
  BY <1>1, <1>2, <1>7, <1>8 DEF CauseInv

\* Every step keeps CauseInv.
LEMMA CauseStep == IInv /\ OrderInv /\ StaysInv /\ CauseInv /\ [Next]_vars => CauseInv'
  BY ShiftPairCause, SplitPairCause, SwapPairsCause, SkipCause, RemoveCause, AroundCause,
     PrintCause, StutterCause DEF Next, Terminated

\* Every undefined operation of the pass, in every mode, has one of the causes that
\* FaultsExplained names: a shift from the top, past the end or of a call that was moved
\* before, a swap of pairs that name a call twice, a -splitpos value that is negative as
\* an int, the verbose listing of erased calls (PosixLock.cpp:130-434, 560-603).
THEOREM FaultsAreExplained == Spec => []FaultsExplained
<1>1. Init => CauseInv
  BY DEF Init, Loaded, CauseInv, FaultsExplained
<1>2. Init => StaysInv
  BY DEF Init, StaysInv
<1>3. CauseInv => FaultsExplained
  BY DEF CauseInv
<1> QED
  BY <1>1, <1>2, <1>3, CauseStep, StaysStep, Invariance, OrderIsKept, PTL DEF Spec
=============================================================================
