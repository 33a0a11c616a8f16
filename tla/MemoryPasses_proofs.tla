------------------------ MODULE MemoryPasses_proofs ------------------------
(***************************************************************************)
(* Theorems about MemoryPasses, for every module to mutate and every       *)
(* command line.                                                           *)
(***************************************************************************)
EXTENDS MemoryPasses, FiniteSetTheorems, TLAPS

\* The visitor has stored instructions it collects, in the order of the module,
\* and all of them once the loop over the positions begins.
Vector ==
  /\ \A a, b \in 1..Len(insts) : a < b => insts[a] < insts[b]
  /\ \A a \in 1..Len(insts) : Collected(program[insts[a]])
  /\ \A n \in 1..Len(program) :
       Collected(program[n]) => n \in Ahead \/ \E a \in 1..Len(insts) : insts[a] = n
  /\ pc \notin {"args", "exit", "visit"} => Ahead = {}

\* What each stage can rely on
Stages ==
  /\ pc \in {"args", "exit", "visit"} => i = 0 /\ ir = program
  /\ pc \in {"toggle", "mod", "scope", "rm", "volatile"} => pc = Mode
  /\ pc \notin {"args", "exit"} => ArgsAccepted
  /\ fault # "none" => pc = "fault"

\* Only -rm erases: the instructions at the positions handled so far.
HandledInBounds == {m \in 1..i : cmd.pos[m] < Len(insts)}
Erasing ==
  erased = IF Given("rm") THEN {insts[cmd.pos[m] + 1] : m \in HandledInBounds} ELSE {}

\* Every instruction is what the turns of the loop made of it.
Contents ==
  \A n \in 1..Len(program) :
    IF cmd.pass = "RmVolatileKeyword"
    THEN ir[n] = Unkeyed(n)
    ELSE ir[n] = Expected(n)

IInv == TypeOK /\ Vector /\ Stages /\ Erasing /\ Contents /\ FaultsExplained

-----------------------------------------------------------------------------
(* The command line and the mode it chooses *)

LEMMA CommandTypes ==
  ASSUME TypeOK
  PROVE  /\ program \in Seq(Instruction)
         /\ \A n \in 1..Len(program) : program[n] \in Instruction
         /\ cmd.pass \in Passes /\ cmd.flags \subseteq Options(cmd.pass)
         /\ cmd.pos \in Seq(Nat) /\ cmd.order \in Seq(Nat)
<1>1. program \in Seq(Instruction)
  BY ProgramAssumption DEF TypeOK
<1>2. \A n \in 1..Len(program) : program[n] \in Instruction
  <2> HIDE DEF Instruction
  <2> QED
    BY <1>1
<1>3. /\ cmd.pass \in Passes /\ cmd.flags \subseteq Options(cmd.pass)
      /\ cmd.pos \in Seq(Nat) /\ cmd.order \in Seq(Nat)
  BY CommandAssumption DEF TypeOK
<1> QED
  BY <1>1, <1>2, <1>3

\* Which passes have which modes
LEMMA FlagFacts ==
  ASSUME TypeOK
  PROVE  /\ Given("rm") => cmd.pass = "Fence"
         /\ Given("toggle") => cmd.pass \in {"Load", "Store"}
         /\ Given("all") => cmd.pass \in {"Load", "Store"}
         /\ cmd.pass = "RmVolatileKeyword" => ~Given("mod")
  BY CommandTypes DEF Given, Options, Passes

LEMMA ModeFacts ==
  ASSUME TypeOK
  PROVE  /\ Mode \in {"toggle", "mod", "scope", "rm", "volatile"}
         /\ Mode = "volatile" <=> cmd.pass = "RmVolatileKeyword"
         /\ Mode = "rm" <=> Given("rm")
         /\ Mode = "toggle" <=> Given("toggle")
         /\ Mode = "mod" <=> Given("mod") /\ ~Given("toggle") /\ ~Given("rm")
  BY CommandTypes, FlagFacts DEF Mode, Passes, LoadMode, StoreMode, RMWMode, CmpXchgMode, FenceMode

-----------------------------------------------------------------------------
(* The vector and the positions *)

\* A position in bounds leads to an instruction the visitor collected.
LEMMA PositionFacts ==
  ASSUME TypeOK, Vector, NEW m \in 1..Len(cmd.pos)
  PROVE  /\ cmd.pos[m] \in Nat
         /\ cmd.pos[m] < Len(insts) =>
              /\ cmd.pos[m] + 1 \in 1..Len(insts)
              /\ insts[cmd.pos[m] + 1] \in 1..Len(program)
              /\ Collected(program[insts[cmd.pos[m] + 1]])
<1>1. cmd.pos[m] \in Nat
  BY CommandTypes
<1>2. Len(insts) \in Nat /\ \A a \in 1..Len(insts) : insts[a] \in 1..Len(program)
  BY DEF TypeOK
<1>3. cmd.pos[m] < Len(insts) => cmd.pos[m] + 1 \in 1..Len(insts)
  BY <1>1, <1>2
<1> QED
  BY <1>1, <1>2, <1>3 DEF Vector

\* Different positions lead to different instructions.
LEMMA VectorInjective ==
  ASSUME TypeOK, Vector, NEW a \in 1..Len(insts), NEW b \in 1..Len(insts), insts[a] = insts[b]
  PROVE  a = b
<1>1. Len(insts) \in Nat /\ \A c \in 1..Len(insts) : insts[c] \in Nat
  BY DEF TypeOK
<1>2. ~(a < b) /\ ~(b < a)
  BY <1>1 DEF Vector
<1> QED
  BY <1>1, <1>2

\* So the place of an instruction is the position that led to it.
LEMMA IndexInFacts ==
  ASSUME TypeOK, Vector, NEW index \in Nat, index < Len(insts)
  PROVE  IndexIn(insts[index + 1]) = index
<1> DEFINE n == insts[index + 1]
<1>1. Len(insts) \in Nat /\ index \in 0..(Len(insts) - 1)
  BY DEF TypeOK
<1>2. IndexIn(n) \in 0..(Len(insts) - 1) /\ insts[IndexIn(n) + 1] = n
  BY <1>1 DEF IndexIn
<1>3. index + 1 \in 1..Len(insts) /\ IndexIn(n) + 1 \in 1..Len(insts)
  BY <1>1, <1>2
<1>4. IndexIn(n) + 1 = index + 1
  BY <1>2, <1>3, VectorInjective
<1>5. \A k \in 0..(Len(insts) - 1) : k + 1 = index + 1 => k = index
  BY <1>1
<1> HIDE DEF n
<1>6. IndexIn(n) = index
  BY <1>2, <1>4, <1>5
<1> QED
  BY <1>6 DEF n

\* The turns that handle an instruction are counted one by one.
LEMMA TimesStep ==
  ASSUME TypeOK, i < Len(cmd.pos), i' = i + 1, UNCHANGED <<cmd, insts>>, NEW n
  PROVE  /\ Times(n) \in Nat
         /\ Times(n)' = IF CurIndex < Len(insts) /\ CurInst = n THEN Times(n) + 1 ELSE Times(n)
<1> DEFINE Named(m) == cmd.pos[m] < Len(insts) /\ insts[cmd.pos[m] + 1] = n
           Turns(k) == {m \in 1..k : Named(m)}
<1>1. i \in Nat
  BY CommandTypes DEF TypeOK
<1>2. IsFiniteSet(Turns(i)) /\ Cardinality(Turns(i)) \in Nat
  <2>1. IsFiniteSet(1..i)
    BY <1>1, FS_Interval
  <2>2. Turns(i) \in SUBSET (1..i)
    OBVIOUS
  <2> HIDE DEF Turns
  <2> QED
    BY <2>1, <2>2, FS_Subset, FS_CardinalityType
<1>3. Times(n) = Cardinality(Turns(i)) /\ Times(n)' = Cardinality(Turns(i + 1))
  BY DEF Times
<1> HIDE DEF Named
<1>4. Turns(i + 1) = IF Named(i + 1) THEN Turns(i) \union {i + 1} ELSE Turns(i)
  BY <1>1
<1>5. i + 1 \notin Turns(i)
  BY <1>1
<1>6. Cardinality(Turns(i + 1)) =
        IF Named(i + 1) THEN Cardinality(Turns(i)) + 1 ELSE Cardinality(Turns(i))
  BY <1>2, <1>4, <1>5, FS_AddElement
<1>7. Named(i + 1) <=> CurIndex < Len(insts) /\ CurInst = n
  BY DEF Named, CurIndex, CurInst
<1> QED
  BY <1>2, <1>3, <1>6, <1>7

-----------------------------------------------------------------------------
(* One turn of the loop of any of the first five passes *)

LoopOfFive ==
  \/ MutateLoad \/ MutateStore \/ MutateAtomicRMW \/ MutateCmpXchg \/ MutateFence

\* What the mode does to the instruction taken
Turned(op) ==
  IF Given("toggle") THEN NotAtomic(op)
  ELSE IF Given("mod") THEN [op EXCEPT !.ordering = SetOrdering(CurIndex)]
  ELSE FlipScope(op)

Turn ==
  /\ pc = Mode /\ i < Len(cmd.pos) /\ i' = i + 1
  /\ cmd.pass # "RmVolatileKeyword"
  /\ UNCHANGED <<cmd, program, insts, modified>>
  /\ fault' = IF IF cmd.pass = "Fence" THEN FenceInBounds ELSE InBounds
              THEN FaultAt(CurIndex) ELSE "none"
  /\ pc' = IF fault' = "none" THEN pc ELSE "fault"
  /\ ir' = IF CurIndex < Len(insts) /\ ~Given("rm") THEN [ir EXCEPT ![CurInst] = Turned(ir[CurInst])]
           ELSE ir
  /\ erased' = IF CurIndex < Len(insts) /\ Given("rm") THEN erased \union {CurInst} ELSE erased

LEMMA CurFacts ==
  ASSUME TypeOK, Vector, i < Len(cmd.pos)
  PROVE  /\ i + 1 \in 1..Len(cmd.pos) /\ i \in Nat
         /\ CurIndex \in Nat /\ Len(insts) \in Nat
         /\ CurIndex < Len(insts) =>
              /\ CurIndex + 1 \in 1..Len(insts)
              /\ CurInst \in 1..Len(program)
              /\ Collected(program[CurInst])
<1>1. i + 1 \in 1..Len(cmd.pos) /\ i \in Nat
  BY CommandTypes DEF TypeOK
<1>2. Len(insts) \in Nat
  BY DEF TypeOK
<1> QED
  BY <1>1, <1>2, PositionFacts DEF CurIndex, CurInst

\* An instruction of the vector is only gone under -rm.
LEMMA ErasedFacts ==
  ASSUME TypeOK, Erasing, ~Given("rm")
  PROVE  erased = {}
  BY DEF Erasing

LEMMA TurnEffect ==
  ASSUME IInv, LoopOfFive
  PROVE  Turn
<1> DEFINE bounds == IF cmd.pass = "Fence" THEN FenceInBounds ELSE InBounds
<1>1. TypeOK /\ Vector /\ Erasing /\ Stages
  BY DEF IInv
<1>2. PICK pass \in {"Load", "Store", "AtomicRMW", "CmpXchg", "Fence"},
           mode \in {"toggle", "mod", "scope", "rm"} :
        /\ pc = mode /\ cmd.pass = pass /\ i < Len(cmd.pos)
        /\ fault' = IF bounds THEN FaultAt(CurIndex) ELSE "none"
        /\ pc' = IF fault' = "none" THEN pc ELSE "fault"
        /\ i' = i + 1
        /\ UNCHANGED <<cmd, program, insts, modified>>
        /\ IF bounds /\ fault' = "none"
           THEN \/ /\ mode = "rm" /\ ir' = ir /\ erased' = erased \union {CurInst}
                \/ /\ mode = "toggle" /\ ir' = [ir EXCEPT ![CurInst] = NotAtomic(ir[CurInst])]
                   /\ erased' = erased
                \/ /\ mode = "scope" /\ ir' = [ir EXCEPT ![CurInst] = FlipScope(ir[CurInst])]
                   /\ erased' = erased
                \/ /\ mode = "mod" /\ erased' = erased
                   /\ ir' = [ir EXCEPT ![CurInst] = [ir[CurInst] EXCEPT !.ordering = SetOrdering(CurIndex)]]
           ELSE UNCHANGED <<ir, erased>>
  <2> USE DEF Iterate, Toggle, ToggleScope, Modify, Updated
  <2>1. CASE MutateLoad
    BY <2>1 DEF MutateLoad
  <2>2. CASE MutateStore
    BY <2>2 DEF MutateStore
  <2>3. CASE MutateAtomicRMW
    BY <2>3 DEF MutateAtomicRMW
  <2>4. CASE MutateCmpXchg
    BY <2>4 DEF MutateCmpXchg
  <2>5. CASE MutateFence
    BY <2>5 DEF MutateFence
  <2> QED
    BY <2>1, <2>2, <2>3, <2>4, <2>5 DEF LoopOfFive
<1>3. pc = Mode
  BY <1>1, <1>2 DEF Stages
<1>4. /\ mode = "rm" <=> Given("rm")
      /\ mode = "toggle" => Given("toggle")
      /\ mode = "mod" => Given("mod") /\ ~Given("toggle")
      /\ mode = "scope" => ~Given("mod") /\ ~Given("toggle")
  BY <1>1, <1>2, <1>3, ModeFacts, FlagFacts
<1>5. CurIndex \in Nat /\ Len(insts) \in Nat
  BY <1>1, <1>2, CurFacts
<1>6. CASE CurIndex < Len(insts) /\ ~Given("rm")
  <2>1. bounds /\ FaultAt(CurIndex) = "none"
    BY <1>1, <1>5, <1>6, ErasedFacts DEF InBounds, FenceInBounds, FaultAt
  <2> QED
    BY <1>2, <1>3, <1>4, <1>6, <2>1 DEF Turn, Turned
<1>7. CASE CurIndex < Len(insts) /\ Given("rm")
  <2>1. bounds
    BY <1>5, <1>7 DEF InBounds, FenceInBounds
  <2>2. fault' # "none" => CurInst \in erased
    BY <1>2, <1>5, <1>7, <2>1 DEF FaultAt, CurInst
  <2> QED
    BY <1>2, <1>3, <1>4, <1>7, <2>1, <2>2 DEF Turn
<1>8. CASE ~(CurIndex < Len(insts))
  <2>1. ~bounds \/ FaultAt(CurIndex) = "null"
    BY <1>5, <1>8 DEF InBounds, FenceInBounds, FaultAt
  <2> QED
    BY <1>2, <1>3, <1>4, <1>8, <2>1 DEF Turn
<1> QED
  BY <1>6, <1>7, <1>8

-----------------------------------------------------------------------------
(* What a step that leaves the command line alone leaves alone with it *)

LEMMA SameCommand ==
  ASSUME cmd' = cmd
  PROVE  /\ Mode' = Mode
         /\ ArgsAccepted' <=> ArgsAccepted
         /\ \A flag : Given(flag)' <=> Given(flag)
         /\ \A op : Collected(op)' <=> Collected(op)
         /\ \A index : SetOrdering(index)' = SetOrdering(index)
<1> USE DEF Given
<1>1. Mode' = Mode
  BY DEF Mode, LoadMode, StoreMode, RMWMode, CmpXchgMode, FenceMode
<1>2. ArgsAccepted' <=> ArgsAccepted
  BY DEF ArgsAccepted, LoadArgs, StoreArgs, RMWArgs, CmpXchgArgs, FenceArgs, ModeArgs
<1>3. \A flag : Given(flag)' <=> Given(flag)
  OBVIOUS
<1>4. \A op : Collected(op)' <=> Collected(op)
  BY DEF Collected, VisitLoadInst, VisitStoreInst, VisitAtomicRMWInst, VisitAtomicCmpXchgInst,
         VisitFenceInst, VisitVolatile
<1>5. \A index : SetOrdering(index)' = SetOrdering(index)
  BY DEF SetOrdering, OrderAt, OrderingNames
<1> QED
  BY <1>1, <1>2, <1>3, <1>4, <1>5

LEMMA SameVector ==
  ASSUME UNCHANGED <<cmd, program, insts>>, Vector, Stages, pc \notin {"args", "exit", "visit"}
  PROVE  Vector' /\ ArgsAccepted'
<1>1. Ahead' = Ahead
  BY SameCommand DEF Ahead
<1> QED
  BY <1>1, SameCommand DEF Vector, Stages

\* An ordering of a pass's table is an ordering.
LEMMA SetOrderingType ==
  ASSUME TypeOK, cmd.pass # "RmVolatileKeyword", ArgsAccepted, Given("mod"), NEW index \in Nat
  PROVE  /\ OrderAt(index) \in 0..(Len(OrderingNames) - 1)
         /\ SetOrdering(index) = OrderingNames[OrderAt(index) + 1]
         /\ SetOrdering(index) \in Orderings \ {"not_atomic"}
<1> USE DEF LoadOrderings, StoreOrderings, RMWOrderings, CmpXchgOrderings, FenceOrderings
<1> DEFINE at == IF index < Len(cmd.order) THEN index + 1 ELSE Len(cmd.order)
           largest == IF cmd.pass \in {"AtomicRMW", "CmpXchg"} THEN 4 ELSE 3
<1>1. cmd.order \in Seq(Nat) /\ cmd.pass \in Passes
  BY CommandTypes
<1>2. cmd.order # <<>> /\ \A m \in 1..Len(cmd.order) : cmd.order[m] <= largest
  BY <1>1 DEF ArgsAccepted, LoadArgs, StoreArgs, RMWArgs, CmpXchgArgs, FenceArgs, ModeArgs, Passes
<1>3. at \in 1..Len(cmd.order)
  BY <1>1, <1>2
<1>4. OrderAt(index) = cmd.order[at]
  BY DEF OrderAt
<1> HIDE DEF at
<1>5. OrderAt(index) \in Nat /\ OrderAt(index) <= largest
  BY <1>1, <1>2, <1>3, <1>4
<1>6. Len(OrderingNames) = largest + 1
  BY <1>1 DEF OrderingNames, Passes
<1>7. OrderAt(index) \in 0..(Len(OrderingNames) - 1)
  BY <1>5, <1>6
<1>8. \A k \in 0..(Len(OrderingNames) - 1) : OrderingNames[k + 1] \in Orderings \ {"not_atomic"}
  <2> DEFINE Legal(table, size) == \A k \in 0..size : table[k + 1] \in Orderings \ {"not_atomic"}
  <2>1. Legal(LoadOrderings, 3)
    BY DEF LoadOrderings, Orderings
  <2>2. Legal(StoreOrderings, 3)
    BY DEF StoreOrderings, Orderings
  <2>3. Legal(RMWOrderings, 4)
    BY DEF RMWOrderings, Orderings
  <2>4. Legal(CmpXchgOrderings, 4)
    BY DEF CmpXchgOrderings, Orderings
  <2>5. Legal(FenceOrderings, 3)
    BY DEF FenceOrderings, Orderings
  <2> HIDE DEF Legal
  <2>6. Legal(OrderingNames, largest)
    BY <1>1, <2>1, <2>2, <2>3, <2>4, <2>5 DEF OrderingNames, Passes
  <2>7. Len(OrderingNames) - 1 = largest
    BY <1>6
  <2> QED
    BY <2>6, <2>7 DEF Legal
<1> QED
  BY <1>7, <1>8 DEF SetOrdering

\* A turn leaves an instruction an instruction.
LEMMA TurnedType ==
  ASSUME TypeOK, ArgsAccepted, cmd.pass # "RmVolatileKeyword", CurIndex \in Nat,
         NEW op \in Instruction
  PROVE  Turned(op) \in Instruction
<1>1. NotAtomic(op) \in Instruction
  BY DEF NotAtomic, Instruction, Orderings
<1>2. FlipScope(op) \in Instruction
  BY DEF FlipScope, Instruction, Scopes
<1>3. \A ordering \in Orderings : [op EXCEPT !.ordering = ordering] \in Instruction
  BY DEF Instruction
<1>4. Given("mod") => SetOrdering(CurIndex) \in Orderings
  BY SetOrderingType
<1> QED
  BY <1>1, <1>2, <1>3, <1>4 DEF Turned

-----------------------------------------------------------------------------
(* A turn preserves the invariant *)

LEMMA TurnTypes ==
  ASSUME IInv, Turn
  PROVE  TypeOK'
<1>1. TypeOK /\ Vector /\ Stages
  BY DEF IInv
<1>2. /\ i + 1 \in 1..Len(cmd.pos) /\ CurIndex \in Nat /\ Len(cmd.pos) \in Nat
      /\ CurIndex < Len(insts) => CurInst \in 1..Len(program)
  BY <1>1, CurFacts, CommandTypes DEF Turn
<1>3. ArgsAccepted /\ pc \in {"toggle", "mod", "scope", "rm", "volatile"}
  BY <1>1, ModeFacts DEF Turn, Stages
<1>4. ir' \in Seq(Instruction) /\ Len(ir') = Len(ir)
  <2>1. CASE CurIndex < Len(insts) /\ ~Given("rm")
    <3>1. CurInst \in 1..Len(ir) /\ ir \in Seq(Instruction)
      BY <1>1, <1>2, <2>1 DEF TypeOK
    <3>2. ir[CurInst] \in Instruction
      <4> HIDE DEF Instruction
      <4> QED
        BY <3>1
    <3>3. Turned(ir[CurInst]) \in Instruction
      BY <1>1, <1>2, <1>3, <3>2, TurnedType DEF Turn
    <3> HIDE DEF Instruction
    <3> DEFINE new == Turned(ir[CurInst])
    <3>4. ir' = [ir EXCEPT ![CurInst] = new]
      BY <2>1 DEF Turn
    <3> HIDE DEF new
    <3> QED
      BY <3>1, <3>3, <3>4 DEF new
  <2>2. CASE ~(CurIndex < Len(insts) /\ ~Given("rm"))
    BY <1>1, <2>2 DEF Turn, TypeOK
  <2> QED
    BY <2>1, <2>2
<1>5. erased' \subseteq 1..Len(program)
  BY <1>1, <1>2 DEF Turn, TypeOK
<1>6. fault' \in {"none", "null", "dangling"}
  BY DEF Turn, FaultAt
<1>7. i' \in 0..Len(cmd.pos)
  BY <1>2 DEF Turn
<1>8. pc' \in {"toggle", "mod", "scope", "rm", "volatile", "fault"}
  BY <1>3 DEF Turn
<1> QED
  BY <1>1, <1>4, <1>5, <1>6, <1>7, <1>8 DEF Turn, TypeOK

LEMMA TurnStages ==
  ASSUME IInv, Turn
  PROVE  Vector' /\ Stages'
<1>1. TypeOK /\ Vector /\ Stages
  BY DEF IInv
<1>2. pc \in {"toggle", "mod", "scope", "rm", "volatile"}
  BY <1>1, ModeFacts DEF Turn
<1>3. Vector' /\ ArgsAccepted'
  BY <1>1, <1>2, SameVector DEF Turn
<1> QED
  BY <1>1, <1>2, <1>3, SameCommand DEF Turn, Stages

\* The positions in bounds among those handled, after one more.
LEMMA HandledStep ==
  ASSUME TypeOK, i < Len(cmd.pos), i' = i + 1, UNCHANGED <<cmd, insts>>
  PROVE  HandledInBounds' = HandledInBounds \union (IF CurIndex < Len(insts) THEN {i + 1} ELSE {})
<1>1. i \in Nat
  BY CommandTypes DEF TypeOK
<1>2. 1..(i + 1) = (1..i) \union {i + 1}
  BY <1>1
<1> QED
  BY <1>2 DEF HandledInBounds, CurIndex

LEMMA TurnErasing ==
  ASSUME IInv, Turn
  PROVE  Erasing'
<1> DEFINE pointer(m) == insts[cmd.pos[m] + 1]
<1>1. TypeOK /\ Erasing
  BY DEF IInv
<1>2. HandledInBounds' = HandledInBounds \union (IF CurIndex < Len(insts) THEN {i + 1} ELSE {})
  BY <1>1, HandledStep DEF Turn
<1>3. CurInst = pointer(i + 1)
  BY DEF CurInst, CurIndex
<1>4. Given("rm")' <=> Given("rm")
  BY SameCommand DEF Turn
<1>5. Given("rm") => erased' = {pointer(m) : m \in HandledInBounds'}
  BY <1>1, <1>2, <1>3 DEF Turn, Erasing
<1> QED
  BY <1>1, <1>4, <1>5 DEF Turn, Erasing

\* The place of an instruction of the vector is the position just handled.
LEMMA CurIndexIn ==
  ASSUME TypeOK, Vector, i < Len(cmd.pos), CurIndex < Len(insts)
  PROVE  IndexIn(CurInst) = CurIndex
<1>1. CurIndex \in Nat
  BY CurFacts
<1> QED
  BY <1>1, IndexInFacts DEF CurInst

LEMMA TurnContents ==
  ASSUME IInv, Turn
  PROVE  Contents'
<1>1. TypeOK /\ Vector /\ Contents /\ cmd.pass # "RmVolatileKeyword" /\ i < Len(cmd.pos)
  BY DEF IInv, Turn
<1>2. program' = program /\ cmd' = cmd
  BY DEF Turn
<1> SUFFICES ASSUME NEW n \in 1..Len(program)
             PROVE  ir'[n] = Expected(n)'
  BY <1>1, <1>2 DEF Contents
<1>3. ir[n] = Expected(n) /\ program[n] \in Instruction /\ n \in DOMAIN ir
  BY <1>1, CommandTypes DEF Contents, TypeOK
<1>4. /\ Times(n) \in Nat
      /\ Times(n)' = IF CurIndex < Len(insts) /\ CurInst = n THEN Times(n) + 1 ELSE Times(n)
  BY <1>1, TimesStep DEF Turn
<1>5. IndexIn(n)' = IndexIn(n)
  BY DEF Turn, IndexIn
<1>6. /\ \A flag : Given(flag)' <=> Given(flag)
      /\ \A index : SetOrdering(index)' = SetOrdering(index)
  BY SameCommand DEF Turn
<1> HIDE DEF Instruction
<1>7. CASE ~(CurIndex < Len(insts) /\ CurInst = n) \/ Given("rm")
  <2>1. ir'[n] = ir[n]
    BY <1>3, <1>7 DEF Turn
  <2>2. Expected(n)' = Expected(n)
    BY <1>2, <1>4, <1>5, <1>6, <1>7 DEF Expected
  <2> QED
    BY <1>3, <2>1, <2>2
<1>8. CASE CurIndex < Len(insts) /\ CurInst = n /\ ~Given("rm")
  <2>1. ir'[n] = Turned(ir[n])
    BY <1>3, <1>8 DEF Turn
  <2>2. Times(n)' = Times(n) + 1 /\ Times(n)' # 0
    BY <1>4, <1>8
  <2>3. IndexIn(n) = CurIndex
    BY <1>1, <1>8, CurIndexIn
  <2>4. CASE Given("toggle")
    <3>1. Expected(n)' = [program[n] EXCEPT !.ordering = "not_atomic"]
      BY <1>2, <1>6, <1>8, <2>2, <2>4 DEF Expected
    <3>2. \/ ir[n] = program[n]
          \/ ir[n] = [program[n] EXCEPT !.ordering = "not_atomic"]
      BY <1>3, <1>8, <2>4 DEF Expected
    <3> QED
      BY <1>3, <2>1, <2>4, <3>1, <3>2 DEF Turned, NotAtomic, Instruction
  <2>5. CASE ~Given("toggle") /\ Given("mod")
    <3> DEFINE ordering == SetOrdering(CurIndex)
    <3>1. Expected(n)' = [program[n] EXCEPT !.ordering = ordering]
      BY <1>2, <1>5, <1>6, <1>8, <2>2, <2>3, <2>5 DEF Expected
    <3>2. \/ ir[n] = program[n]
          \/ ir[n] = [program[n] EXCEPT !.ordering = ordering]
      BY <1>3, <1>8, <2>3, <2>5 DEF Expected
    <3>3. ir'[n] = [ir[n] EXCEPT !.ordering = ordering]
      BY <2>1, <2>5 DEF Turned
    <3> HIDE DEF ordering
    <3> QED
      BY <1>3, <3>1, <3>2, <3>3 DEF Instruction
  <2>6. CASE ~Given("toggle") /\ ~Given("mod")
    <3> DEFINE flipped == [program[n] EXCEPT !.scope = IF @ = "cross" THEN "single" ELSE "cross"]
    <3>1. Expected(n)' = IF (Times(n) + 1) % 2 = 0 THEN program[n] ELSE flipped
      BY <1>2, <1>6, <1>8, <2>2, <2>6 DEF Expected
    <3>2. ir[n] = IF Times(n) % 2 = 0 THEN program[n] ELSE flipped
      <4>1. CASE Times(n) = 0
        <5>1. Times(n) % 2 = 0
          BY <4>1
        <5> QED
          BY <1>3, <4>1, <5>1 DEF Expected
      <4>2. CASE Times(n) # 0
        BY <1>3, <1>8, <2>6, <4>2 DEF Expected
      <4> QED
        BY <4>1, <4>2
    <3>3. (Times(n) + 1) % 2 = 0 <=> Times(n) % 2 # 0
      BY <1>4
    <3>4. ir'[n] = FlipScope(ir[n])
      BY <2>1, <2>6 DEF Turned
    <3>5. FlipScope(program[n]) = flipped /\ FlipScope(flipped) = program[n]
      BY <1>3 DEF FlipScope, Instruction, Scopes
    <3> HIDE DEF flipped
    <3> QED
      BY <3>1, <3>2, <3>3, <3>4, <3>5
  <2> QED
    BY <2>4, <2>5, <2>6
<1> QED
  BY <1>7, <1>8

\* A fence is gone when its position has been handled before.
LEMMA TurnFaults ==
  ASSUME IInv, Turn
  PROVE  FaultsExplained'
<1>1. TypeOK /\ Vector /\ Stages /\ Erasing /\ i < Len(cmd.pos)
  BY DEF IInv, Turn
<1>2. /\ i + 1 \in 1..Len(cmd.pos) /\ i \in Nat /\ CurIndex \in Nat /\ Len(insts) \in Nat
      /\ CurIndex < Len(insts) => CurIndex + 1 \in 1..Len(insts)
  BY <1>1, CurFacts
<1>3. Given("rm")' <=> Given("rm")
  BY SameCommand DEF Turn
<1>4. CASE fault' = "none"
  BY <1>4 DEF FaultsExplained
<1>5. CASE fault' = "null"
  <2>1. cmd.pass = "Fence" /\ CurIndex = Len(insts)
    BY <1>2, <1>5 DEF Turn, FaultAt, FenceInBounds, InBounds
  <2>2. cmd.pos[i + 1] \in Handled'
    BY <1>2 DEF Turn, Handled
  <2> QED
    BY <1>5, <2>1, <2>2 DEF Turn, FaultsExplained, CurIndex
<1>6. CASE fault' = "dangling"
  <2>1. CurIndex < Len(insts) /\ insts[CurIndex + 1] \in erased
    BY <1>2, <1>6 DEF Turn, FaultAt
  <2>2. Given("rm")
    BY <1>1, <2>1, ErasedFacts
  <2>3. PICK m \in 1..i : cmd.pos[m] < Len(insts) /\ insts[cmd.pos[m] + 1] = insts[CurIndex + 1]
    BY <1>1, <2>1, <2>2 DEF Erasing, HandledInBounds
  <2>4. m \in 1..Len(cmd.pos)
    BY <1>2
  <2>5. cmd.pos[m] \in Nat /\ cmd.pos[m] + 1 \in 1..Len(insts)
    BY <1>1, <2>3, <2>4, PositionFacts
  <2>6. cmd.pos[m] + 1 = CurIndex + 1
    BY <1>1, <1>2, <2>1, <2>3, <2>5, VectorInjective
  <2>7. cmd.pos[m] = cmd.pos[i + 1] /\ m < i + 1 /\ m \in 1..(i + 1) /\ i + 1 \in 1..(i + 1)
    BY <1>2, <2>5, <2>6 DEF CurIndex
  <2>8. cmd.pass = "Fence"
    BY <1>1, <2>2, FlagFacts
  <2> QED
    BY <1>3, <1>6, <2>2, <2>7, <2>8 DEF Turn, FaultsExplained
<1>7. fault' \in {"none", "null", "dangling"}
  BY DEF Turn, FaultAt
<1> QED
  BY <1>4, <1>5, <1>6, <1>7

LEMMA TurnPreserves ==
  ASSUME IInv, Turn
  PROVE  IInv'
  BY TurnTypes, TurnStages, TurnErasing, TurnContents, TurnFaults DEF IInv

-----------------------------------------------------------------------------
(* The loop of RmVolatileKeyword *)

LEMMA VolatileTurn ==
  ASSUME IInv, RemoveVolatile
  PROVE  /\ pc = "volatile" /\ pc' = "volatile" /\ cmd.pass = "RmVolatileKeyword"
         /\ i < Len(cmd.pos) /\ i' = i + 1
         /\ UNCHANGED <<cmd, program, insts, erased, fault>>
         /\ fault = "none" /\ modified' \in BOOLEAN
         /\ \/ ir' = ir /\ \A n : ~Reaches(i + 1, n)
            \/ /\ insts[i + 1] \in 1..Len(ir)
               /\ \A n : Reaches(i + 1, n) <=> n = insts[i + 1]
               /\ program[insts[i + 1]].volatile
               /\ ir' = [ir EXCEPT ![insts[i + 1]].volatile = ir[insts[i + 1]].kind = "memcpy"]
<1> DEFINE taken == InBounds /\ i < Len(insts)
           op == ir[insts[i + 1]]
<1>1. TypeOK /\ Vector /\ Stages /\ Erasing
  BY DEF IInv
<1>2. /\ pc = "volatile" /\ cmd.pass = "RmVolatileKeyword" /\ i < Len(cmd.pos) /\ i' = i + 1
      /\ UNCHANGED <<cmd, program, insts>>
      /\ fault' = IF taken THEN FaultAt(i) ELSE "none"
      /\ pc' = IF fault' = "none" THEN pc ELSE "fault"
      /\ IF taken /\ fault' = "none"
         THEN ir' = [ir EXCEPT ![insts[i + 1]].volatile = op.kind = "memcpy"] /\ erased' = erased \union {}
         ELSE UNCHANGED <<ir, erased>>
      /\ modified' = IF taken THEN op.kind # "memcpy" ELSE modified
  BY DEF RemoveVolatile, Iterate
<1>3. i \in Nat /\ Len(insts) \in Nat
  BY <1>1, <1>2, CurFacts
<1>4. erased = {}
  BY <1>1, <1>2, FlagFacts, ErasedFacts
<1>5. taken => FaultAt(i) = "none"
  BY <1>3, <1>4 DEF FaultAt
<1>6. fault' = "none"
  BY <1>2, <1>5
<1>7. fault = "none"
  BY <1>1, <1>2 DEF Stages
<1>8. taken => insts[i + 1] \in 1..Len(ir)
  <2>1. taken => i + 1 \in 1..Len(insts)
    BY <1>3
  <2> QED
    BY <1>1, <2>1 DEF TypeOK
<1>9. modified' \in BOOLEAN
  BY <1>1, <1>2 DEF TypeOK
<1>10. CASE taken
  <2>1. (op.kind = "memcpy") \in BOOLEAN
    OBVIOUS
  <2>2. ir' = [ir EXCEPT ![insts[i + 1]].volatile = op.kind = "memcpy"]
    BY <1>2, <1>6, <1>10
  <2>3. \A n : Reaches(i + 1, n) <=> n = insts[i + 1]
    BY <1>3, <1>10 DEF Reaches, InBounds, CurIndex
  <2>4. program[insts[i + 1]].volatile
    <3>1. Collected(program[insts[i + 1]])
      BY <1>1, <1>3, <1>10 DEF Vector
    <3> QED
      BY <1>2, <3>1 DEF Collected, VisitVolatile
  <2> QED
    BY <1>2, <1>4, <1>6, <1>7, <1>8, <1>9, <1>10, <2>1, <2>2, <2>3, <2>4
<1>11. CASE ~taken
  <2>1. \A n : ~Reaches(i + 1, n)
    BY <1>3, <1>11 DEF Reaches, InBounds, CurIndex
  <2> QED
    BY <1>2, <1>6, <1>7, <1>9, <1>11, <2>1
<1> QED
  BY <1>10, <1>11

\* One more turn that does not reach n leaves what was made of n; one that does
\* leaves the keyword to a memcpy only.
LEMMA UnkeyedStep ==
  ASSUME TypeOK, i' = i + 1, UNCHANGED <<cmd, program, insts>>, NEW n \in 1..Len(program)
  PROVE  /\ Unkeyed(n) \in Instruction
         /\ Unkeyed(n).kind = program[n].kind
         /\ ~Reaches(i + 1, n) => Unkeyed(n)' = Unkeyed(n)
         /\ Reaches(i + 1, n) =>
              Unkeyed(n)' = [Unkeyed(n) EXCEPT !.volatile = @ /\ program[n].kind = "memcpy"]
         /\ Reaches(i + 1, n) /\ program[n].kind = "memcpy" => Unkeyed(n)' = Unkeyed(n)
<1> DEFINE kept == \A m \in 1..i : Reaches(m, n) => program[n].kind = "memcpy"
           more == Reaches(i + 1, n) => program[n].kind = "memcpy"
<1>1. i \in Nat /\ program[n] \in Instruction
  BY CommandTypes DEF TypeOK
<1>2. \A m \in 1..(i + 1) : m \in 1..i \/ m = i + 1
  BY <1>1
<1>3. \A m : Reaches(m, n)' <=> Reaches(m, n)
  BY DEF Reaches
<1>4. (\A m \in 1..i' : Reaches(m, n)' => program'[n].kind = "memcpy") <=> kept /\ more
  BY <1>1, <1>2, <1>3
<1>5. kept \in BOOLEAN /\ more \in BOOLEAN
  OBVIOUS
<1>6. Unkeyed(n) = [program[n] EXCEPT !.volatile = @ /\ kept]
  BY DEF Unkeyed
<1>7. Unkeyed(n)' = [program[n] EXCEPT !.volatile = @ /\ kept /\ more]
  BY <1>4 DEF Unkeyed
<1> HIDE DEF kept
<1>8. Unkeyed(n) \in Instruction /\ Unkeyed(n).kind = program[n].kind
  BY <1>1, <1>5, <1>6 DEF Instruction
<1>9. [Unkeyed(n) EXCEPT !.volatile = @ /\ more] = [program[n] EXCEPT !.volatile = @ /\ kept /\ more]
  BY <1>1, <1>5, <1>6 DEF Instruction
<1>10. more => Unkeyed(n)' = Unkeyed(n)
  BY <1>5, <1>6, <1>7
<1>11. Unkeyed(n)' = [Unkeyed(n) EXCEPT !.volatile = @ /\ more]
  BY <1>7, <1>9
<1> QED
  BY <1>8, <1>10, <1>11

LEMMA VolatilePreserves ==
  ASSUME IInv, RemoveVolatile
  PROVE  IInv'
<1>1. TypeOK /\ Vector /\ Stages /\ Erasing /\ Contents
  BY DEF IInv
<1>2. /\ pc = "volatile" /\ pc' = "volatile" /\ cmd.pass = "RmVolatileKeyword"
      /\ i < Len(cmd.pos) /\ i' = i + 1
      /\ UNCHANGED <<cmd, program, insts, erased, fault>>
      /\ fault = "none" /\ modified' \in BOOLEAN
  BY VolatileTurn
<1>3. CASE ir' = ir /\ \A n : ~Reaches(i + 1, n)
  <2>1. TypeOK'
    BY <1>1, <1>2, <1>3, CurFacts, CommandTypes DEF TypeOK
  <2>2. Contents'
    BY <1>1, <1>2, <1>3, UnkeyedStep DEF Contents
  <2> QED
    BY <1>1, <1>2, <2>1, <2>2, SameVector, SameCommand, FlagFacts
       DEF IInv, Stages, Erasing, FaultsExplained
<1>4. ASSUME NEW n \in 1..Len(ir), \A m : Reaches(i + 1, m) <=> m = n, program[n].volatile,
             ir' = [ir EXCEPT ![n].volatile = ir[n].kind = "memcpy"]
      PROVE  IInv'
  <2> DEFINE volatile == ir[n].kind = "memcpy"
  <2>1. ir[n] \in Instruction /\ [ir[n] EXCEPT !.volatile = volatile] \in Instruction
    <3>1. ir[n] \in Instruction
      <4> HIDE DEF Instruction
      <4> QED
        BY <1>1 DEF TypeOK
    <3> QED
      BY <3>1 DEF Instruction
  <2>2. ir' \in Seq(Instruction) /\ Len(ir') = Len(ir)
    <3> HIDE DEF Instruction
    <3> QED
      BY <1>1, <1>4, <2>1 DEF TypeOK
  <2>3. TypeOK'
    BY <1>1, <1>2, <2>2, CurFacts, CommandTypes DEF TypeOK
  <2>4. ASSUME NEW m \in 1..Len(program)
        PROVE  ir'[m] = Unkeyed(m)'
    <3>1. m \in DOMAIN ir /\ program[m] \in Instruction
      BY <1>1, CommandTypes DEF TypeOK
    <3>2. ir[m] = Unkeyed(m)
      BY <1>1, <1>2 DEF Contents
    <3>3. CASE m # n
      BY <1>1, <1>2, <1>4, <3>1, <3>2, <3>3, UnkeyedStep
    <3>4. CASE m = n
      <4>1. ir'[m] = [ir[m] EXCEPT !.volatile = ir[m].kind = "memcpy"]
        BY <1>4, <3>1, <3>4
      <4>2. ir[m].kind = program[m].kind /\ Reaches(i + 1, m) /\ ir[m] \in Instruction
        BY <1>1, <1>2, <1>4, <3>2, <3>4, UnkeyedStep
      <4>3. CASE program[m].kind = "memcpy"
        <5>1. ir[m] = program[m]
          BY <3>1, <3>2, <4>3 DEF Unkeyed, Instruction
        <5>2. ir'[m] = ir[m]
          BY <1>4, <3>1, <3>4, <4>1, <4>3, <5>1 DEF Instruction
        <5> QED
          BY <1>1, <1>2, <3>2, <4>2, <4>3, <5>2, UnkeyedStep
      <4>4. CASE program[m].kind # "memcpy"
        <5>1. Unkeyed(m)' = [ir[m] EXCEPT !.volatile = @ /\ program[m].kind = "memcpy"]
          BY <1>1, <1>2, <3>2, <4>2, UnkeyedStep
        <5> QED
          BY <4>1, <4>2, <4>4, <5>1 DEF Instruction
      <4> QED
        BY <4>3, <4>4
    <3> QED
      BY <3>3, <3>4
  <2>5. Contents'
    BY <1>2, <2>4 DEF Contents
  <2> QED
    BY <1>1, <1>2, <2>3, <2>5, SameVector, SameCommand, FlagFacts
       DEF IInv, Stages, Erasing, FaultsExplained
<1> QED
  BY <1>3, <1>4, VolatileTurn

-----------------------------------------------------------------------------
(* The steps before and after the loops *)

\* Before the loop no position has been handled.
LEMMA NothingHandled ==
  ASSUME i = 0
  PROVE  HandledInBounds = {} /\ \A n : Times(n) = 0
<1>1. \A m : m \notin 1..0
  OBVIOUS
<1>2. HandledInBounds = {}
  BY <1>1 DEF HandledInBounds
<1>3. ASSUME NEW n PROVE Times(n) = 0
  <2>1. {m \in 1..i : cmd.pos[m] < Len(insts) /\ insts[cmd.pos[m] + 1] = n} = {}
    BY <1>1
  <2> QED
    BY <2>1, FS_EmptySet DEF Times
<1> QED
  BY <1>2, <1>3

\* So the module is as it was read.
Untouched == i = 0 /\ ir = program /\ erased = {} /\ fault = "none"

LEMMA NothingDone ==
  TypeOK /\ Untouched => Erasing /\ Contents /\ FaultsExplained
<1> SUFFICES ASSUME TypeOK, Untouched
             PROVE  Erasing /\ Contents /\ FaultsExplained
  OBVIOUS
<1> USE DEF Untouched
<1>1. Erasing
  BY NothingHandled DEF Erasing
<1>2. Contents
  <2> SUFFICES ASSUME NEW n \in 1..Len(program)
               PROVE  IF cmd.pass = "RmVolatileKeyword"
                      THEN ir[n] = Unkeyed(n)
                      ELSE ir[n] = Expected(n)
    BY DEF Contents
  <2>1. program[n] = Unkeyed(n)
    <3> DEFINE kept == \A m \in 1..i : Reaches(m, n) => program[n].kind = "memcpy"
    <3>1. kept
      OBVIOUS
    <3>2. program[n] \in Instruction
      BY CommandTypes
    <3>3. Unkeyed(n) = [program[n] EXCEPT !.volatile = @ /\ kept]
      BY DEF Unkeyed
    <3> HIDE DEF kept
    <3>4. [program[n] EXCEPT !.volatile = @ /\ kept] = program[n]
      BY <3>1, <3>2 DEF Instruction
    <3> QED
      BY <3>3, <3>4
  <2> QED
    BY <2>1, NothingHandled DEF Expected
<1>3. FaultsExplained
  BY DEF FaultsExplained
<1> QED
  BY <1>1, <1>2, <1>3

LEMMA InitIInv ==
  ASSUME Init
  PROVE  IInv
<1>1. program \in Seq(Instruction) /\ cmd.pos \in Seq(Nat)
  BY ProgramAssumption, CommandAssumption DEF Init
<1>2. TypeOK
  <2>1. insts \in Seq(1..Len(program)) /\ i \in 0..Len(cmd.pos)
    BY <1>1 DEF Init
  <2> QED
    BY <1>1, <2>1 DEF Init, TypeOK
<1>3. Vector
  BY DEF Init, Vector, Ahead
<1>4. Stages
  BY DEF Init, Stages
<1> QED
  BY <1>2, <1>3, <1>4, NothingDone DEF Init, Untouched, IInv

LEMMA ArgsPreserves ==
  ASSUME IInv, CheckCommandLineArgs
  PROVE  IInv'
<1> USE DEF IInv, CheckCommandLineArgs
<1>1. TypeOK'
  BY DEF TypeOK
<1>2. Vector'
  <2>1. Ahead' = Ahead
    BY SameCommand DEF Ahead
  <2> QED
    BY <2>1, SameCommand DEF Vector
<1>3. Stages'
  BY SameCommand DEF Stages
<1>4. erased = {}
  BY NothingHandled DEF Stages, Erasing
<1>5. Untouched'
  BY <1>4 DEF Stages, Untouched
<1>6. Erasing' /\ Contents' /\ FaultsExplained'
  BY <1>1, <1>5, NothingDone, PTL
<1> QED
  BY <1>1, <1>2, <1>3, <1>6

LEMMA VisitPreserves ==
  ASSUME IInv, VisitInst
  PROVE  IInv'
<1>1. TypeOK /\ Vector /\ Stages /\ Erasing
  BY DEF IInv
<1>2. PICK n \in Ahead : insts' = Append(insts, n) /\ \A other \in Ahead : n <= other
  BY DEF VisitInst
<1>3. n \in 1..Len(program) /\ Collected(program[n]) /\ \A m \in 1..Len(insts) : insts[m] < n
  BY <1>2 DEF Ahead
<1>4. /\ UNCHANGED <<cmd, program, ir, erased, i, modified, fault, pc>>
      /\ pc = "visit" /\ i = 0 /\ ir = program /\ fault = "none"
  BY <1>1 DEF VisitInst, Stages
<1>5. insts \in Seq(1..Len(program)) /\ insts' \in Seq(1..Len(program))
  BY <1>1, <1>2, <1>3 DEF TypeOK
<1>6. TypeOK'
  BY <1>1, <1>4, <1>5 DEF TypeOK
<1>7. Vector'
  <2>1. /\ Len(insts') = Len(insts) + 1 /\ Len(insts) \in Nat
        /\ insts'[Len(insts) + 1] = n
        /\ \A a \in 1..Len(insts) : insts'[a] = insts[a]
    BY <1>2, <1>5
  <2>2. \A a \in 1..Len(insts') : a \in 1..Len(insts) \/ a = Len(insts) + 1
    BY <2>1
  <2>3. ASSUME NEW a \in 1..Len(insts'), NEW b \in 1..Len(insts'), a < b
        PROVE  insts'[a] < insts'[b]
    <3>1. a \in 1..Len(insts)
      BY <2>1, <2>2, <2>3
    <3> QED
      BY <1>1, <1>3, <2>1, <2>2, <2>3, <3>1 DEF Vector
  <2>4. ASSUME NEW a \in 1..Len(insts')
        PROVE  Collected(program[insts[a]])'
    <3>1. Collected(program[insts'[a]])
      BY <1>1, <1>3, <2>1, <2>2 DEF Vector
    <3> QED
      BY <1>4, <3>1 DEF Collected, VisitLoadInst, VisitStoreInst, VisitAtomicRMWInst,
         VisitAtomicCmpXchgInst, VisitFenceInst, VisitVolatile, Given
  <2>5. ASSUME NEW k \in 1..Len(program), Collected(program[k])
        PROVE  k \in Ahead' \/ \E a \in 1..Len(insts') : insts'[a] = k
    <3>1. CASE \E a \in 1..Len(insts) : insts[a] = k
      BY <2>1, <3>1
    <3>2. CASE k = n
      BY <2>1, <3>2
    <3>3. CASE k \in Ahead /\ k # n
      <4>1. n < k /\ \A m \in 1..Len(insts) : insts[m] < k
        BY <1>2, <1>3, <3>3 DEF VisitInst, Ahead
      <4>2. \A m \in 1..Len(insts') : insts'[m] < k
        BY <2>1, <2>2, <4>1
      <4> QED
        BY <1>4, <2>5, <4>2, SameCommand DEF Ahead
    <3> QED
      BY <1>1, <2>5, <3>1, <3>2, <3>3 DEF Vector
  <2>6. \A k \in 1..Len(program) : Collected(program[k])' <=> Collected(program[k])
    BY <1>4 DEF Collected, VisitLoadInst, VisitStoreInst, VisitAtomicRMWInst,
         VisitAtomicCmpXchgInst, VisitFenceInst, VisitVolatile, Given
  <2> QED
    BY <1>4, <2>3, <2>4, <2>5, <2>6 DEF Vector
<1>8. Stages'
  BY <1>1, <1>4, SameCommand DEF Stages
<1>9. erased = {}
  BY <1>1, <1>4, NothingHandled DEF Erasing
<1>10. Untouched'
  BY <1>4, <1>9 DEF Untouched
<1>11. Erasing' /\ Contents' /\ FaultsExplained'
  BY <1>6, <1>10, NothingDone, PTL
<1> QED
  BY <1>6, <1>7, <1>8, <1>11 DEF IInv

LEMMA EndVisitPreserves ==
  ASSUME IInv, EndVisit
  PROVE  IInv'
<1>1. TypeOK /\ Vector /\ Stages /\ Erasing
  BY DEF IInv
<1>2. /\ UNCHANGED <<cmd, program, ir, erased, insts, i, modified, fault>>
      /\ pc = "visit" /\ pc' = Mode /\ Ahead = {} /\ fault = "none"
      /\ i = 0 /\ ir = program
  BY <1>1 DEF EndVisit, Stages
<1>3. Mode \in {"toggle", "mod", "scope", "rm", "volatile"}
  BY <1>1, ModeFacts
<1>4. TypeOK'
  BY <1>1, <1>2, <1>3 DEF TypeOK
<1>5. Ahead' = Ahead
  BY <1>2, SameCommand DEF Ahead
<1>6. Vector' /\ Stages'
  BY <1>1, <1>2, <1>3, <1>5, SameCommand DEF Vector, Stages
<1>7. erased = {}
  BY <1>1, <1>2, NothingHandled DEF Erasing
<1>8. Untouched'
  BY <1>2, <1>7 DEF Untouched
<1>9. Erasing' /\ Contents' /\ FaultsExplained'
  BY <1>4, <1>8, NothingDone, PTL
<1> QED
  BY <1>4, <1>6, <1>9 DEF IInv

\* Ending the loop touches nothing the properties speak of.
LEMMA UnchangedProperties ==
  ASSUME UNCHANGED <<cmd, program, ir, erased, insts, i>>
  PROVE  /\ Erasing' <=> Erasing
         /\ Contents' <=> Contents
<1>1. /\ \A flag : Given(flag)' <=> Given(flag)
      /\ \A index : SetOrdering(index)' = SetOrdering(index)
  BY SameCommand
<1>2. \A n : Times(n)' = Times(n) /\ IndexIn(n)' = IndexIn(n)
  BY DEF Times, IndexIn
<1>3. \A n : Expected(n)' = Expected(n)
  BY <1>1, <1>2 DEF Expected
<1>4. Erasing' <=> Erasing
  BY <1>1 DEF Erasing, HandledInBounds
<1>6. \A n : Unkeyed(n)' = Unkeyed(n)
  BY DEF Unkeyed, Reaches
<1>5. Contents' <=> Contents
  BY <1>3, <1>6 DEF Contents
<1> QED
  BY <1>4, <1>5

LEMMA FinishPreserves ==
  ASSUME IInv, FinishLoop
  PROVE  IInv'
<1>1. TypeOK /\ Vector /\ Stages /\ Erasing /\ Contents /\ FaultsExplained
  BY DEF IInv
<1>2. /\ UNCHANGED <<cmd, program, ir, erased, insts, i, fault>>
      /\ pc = Mode /\ pc' = "ran" /\ modified' \in BOOLEAN
  BY <1>1 DEF FinishLoop, TypeOK
<1>3. pc \in {"toggle", "mod", "scope", "rm", "volatile"}
  BY <1>1, <1>2, ModeFacts
<1>4. TypeOK'
  BY <1>1, <1>2 DEF TypeOK
<1>5. Vector' /\ ArgsAccepted'
  BY <1>1, <1>2, <1>3, SameVector
<1>6. fault = "none"
  BY <1>1, <1>3 DEF Stages
<1>7. Stages' /\ FaultsExplained'
  BY <1>2, <1>5, <1>6 DEF Stages, FaultsExplained
<1> QED
  BY <1>1, <1>2, <1>4, <1>5, <1>7, UnchangedProperties DEF IInv

LEMMA PrintPreserves ==
  ASSUME IInv, PrintInsts
  PROVE  IInv'
<1>1. TypeOK /\ Vector /\ Stages /\ Erasing /\ Contents
  BY DEF IInv
<1>2. /\ UNCHANGED <<cmd, program, ir, erased, insts, i, modified>>
      /\ pc = "ran" /\ fault' \in {"none", "dangling"}
      /\ pc' = IF fault' = "none" THEN "done" ELSE "fault"
      /\ fault' = "dangling" => Given("listing") /\ erased # {}
  BY DEF PrintInsts
<1>3. TypeOK'
  BY <1>1, <1>2 DEF TypeOK
<1>4. Vector' /\ ArgsAccepted'
  BY <1>1, <1>2, SameVector
<1>5. Stages'
  BY <1>2, <1>4 DEF Stages
<1>6. FaultsExplained'
  <2>1. erased # {} => Given("rm") /\ cmd.pass = "Fence"
    BY <1>1, ErasedFacts, FlagFacts
  <2> QED
    BY <1>2, <2>1, SameCommand DEF FaultsExplained
<1> QED
  BY <1>1, <1>2, <1>3, <1>4, <1>5, <1>6, UnchangedProperties DEF IInv

LEMMA StutterPreserves ==
  ASSUME IInv, UNCHANGED vars
  PROVE  IInv'
<1> USE DEF vars
<1>1. TypeOK'
  BY DEF IInv, TypeOK
<1>2. Vector' /\ Stages'
  BY SameCommand DEF IInv, Vector, Stages, Ahead
<1>3. FaultsExplained'
  BY SameCommand DEF IInv, FaultsExplained, Handled
<1> QED
  BY <1>1, <1>2, <1>3, UnchangedProperties DEF IInv

LEMMA NextIInv ==
  ASSUME IInv, [Next]_vars
  PROVE  IInv'
<1>1. CASE CheckCommandLineArgs
  BY <1>1, ArgsPreserves
<1>2. CASE VisitInst
  BY <1>2, VisitPreserves
<1>3. CASE EndVisit
  BY <1>3, EndVisitPreserves
<1>4. CASE LoopOfFive
  BY <1>4, TurnEffect, TurnPreserves
<1>5. CASE RemoveVolatile
  BY <1>5, VolatilePreserves
<1>6. CASE FinishLoop
  BY <1>6, FinishPreserves
<1>7. CASE PrintInsts
  BY <1>7, PrintPreserves
<1>8. CASE UNCHANGED vars
  BY <1>8, StutterPreserves
<1> QED
  BY <1>1, <1>2, <1>3, <1>4, <1>5, <1>6, <1>7, <1>8 DEF Next, LoopOfFive, Terminated

-----------------------------------------------------------------------------
(* What the handled positions lead to *)

LEMMA HandledFacts ==
  ASSUME TypeOK, Vector, NEW m \in HandledInBounds
  PROVE  /\ cmd.pos[m] \in Nat /\ cmd.pos[m] + 1 \in 1..Len(insts)
         /\ Collected(program[insts[cmd.pos[m] + 1]])
<1>1. i \in Nat /\ Len(cmd.pos) \in Nat /\ i <= Len(cmd.pos)
  BY CommandTypes DEF TypeOK
<1>2. m \in 1..Len(cmd.pos) /\ cmd.pos[m] < Len(insts)
  BY <1>1 DEF HandledInBounds
<1> QED
  BY <1>2, PositionFacts

LEMMA TimesFacts ==
  ASSUME TypeOK, NEW n
  PROVE  /\ Times(n) \in Nat
         /\ Times(n) > 0 <=> \E m \in HandledInBounds : insts[cmd.pos[m] + 1] = n
<1> DEFINE turns == {m \in 1..i : cmd.pos[m] < Len(insts) /\ insts[cmd.pos[m] + 1] = n}
<1>1. i \in Nat
  BY CommandTypes DEF TypeOK
<1>2. IsFiniteSet(turns)
  <2>1. IsFiniteSet(1..i)
    BY <1>1, FS_Interval
  <2>2. turns \in SUBSET (1..i)
    OBVIOUS
  <2> HIDE DEF turns
  <2> QED
    BY <2>1, <2>2, FS_Subset
<1>3. Times(n) = Cardinality(turns)
  BY DEF Times
<1>4. turns # {} <=> \E m \in HandledInBounds : insts[cmd.pos[m] + 1] = n
  BY DEF HandledInBounds
<1> HIDE DEF turns
<1>5. Cardinality(turns) \in Nat /\ (Cardinality(turns) = 0 <=> turns = {})
  BY <1>2, FS_EmptySet, FS_CardinalityType
<1> QED
  BY <1>3, <1>4, <1>5

\* Only instructions the visitor collects are changed.
LEMMA ChangedIsCollected ==
  ASSUME IInv, cmd.pass # "RmVolatileKeyword", NEW n \in 1..Len(program), ir[n] # program[n]
  PROVE  Collected(program[n]) /\ Times(n) # 0 /\ ~Given("rm")
<1>1. ir[n] = Expected(n)
  BY DEF IInv, Contents
<1>2. Times(n) # 0 /\ ~Given("rm")
  BY <1>1 DEF Expected
<1>3. PICK m \in HandledInBounds : insts[cmd.pos[m] + 1] = n
  BY <1>2, TimesFacts DEF IInv
<1> QED
  BY <1>2, <1>3, HandledFacts DEF IInv

\* What the visitor collects is of the kind the pass is about.
LEMMA CollectedKind ==
  ASSUME TypeOK, cmd.pass # "RmVolatileKeyword", NEW op, Collected(op)
  PROVE  /\ cmd.pass = "Load" => op.kind = "load"
         /\ cmd.pass = "Store" => op.kind = "store"
         /\ cmd.pass = "AtomicRMW" => op.kind = "atomicrmw"
         /\ cmd.pass = "CmpXchg" => op.kind = "cmpxchg"
         /\ cmd.pass = "Fence" => op.kind = "fence"
         /\ cmd.pass \in {"Load", "Store"} /\ ~Given("all") => IsAtomic(op)
  BY CommandTypes DEF Passes, Collected, VisitLoadInst, VisitStoreInst, VisitAtomicRMWInst,
     VisitAtomicCmpXchgInst, VisitFenceInst

\* The tables hold orderings the verifier accepts for the pass's instructions.
LEMMA SetOrderingVerifies ==
  ASSUME TypeOK, cmd.pass # "RmVolatileKeyword", ArgsAccepted, Given("mod"), NEW index \in Nat
  PROVE  /\ SetOrdering(index) # "not_atomic"
         /\ cmd.pass = "Load" => SetOrdering(index) \notin {"release", "acq_rel"}
         /\ cmd.pass = "Store" => SetOrdering(index) \notin {"acquire", "acq_rel"}
         /\ cmd.pass \in {"AtomicRMW", "CmpXchg"} => SetOrdering(index) # "unordered"
         /\ cmd.pass = "Fence" => SetOrdering(index) \in {"acquire", "release", "acq_rel", "seq_cst"}
<1>1. /\ OrderAt(index) \in 0..(Len(OrderingNames) - 1)
      /\ SetOrdering(index) = OrderingNames[OrderAt(index) + 1]
  BY SetOrderingType
<1>2. ASSUME NEW k \in 0..(Len(OrderingNames) - 1)
      PROVE  LET name == OrderingNames[k + 1] IN
             /\ name # "not_atomic"
             /\ cmd.pass = "Load" => name \notin {"release", "acq_rel"}
             /\ cmd.pass = "Store" => name \notin {"acquire", "acq_rel"}
             /\ cmd.pass \in {"AtomicRMW", "CmpXchg"} => name # "unordered"
             /\ cmd.pass = "Fence" => name \in {"acquire", "release", "acq_rel", "seq_cst"}
  BY CommandTypes DEF Passes, OrderingNames, LoadOrderings, StoreOrderings, RMWOrderings,
     CmpXchgOrderings, FenceOrderings
<1> QED
  BY <1>1, <1>2

-----------------------------------------------------------------------------
(* The theorems *)

\* The inductive invariant of the passes holds throughout.
THEOREM Invariance == Spec => []IInv
  BY InitIInv, NextIInv, PTL DEF Spec

\* Type correctness.
THEOREM TypeCorrect == Spec => []TypeOK
<1>1. IInv => TypeOK
  BY DEF IInv
<1> QED
  BY <1>1, Invariance, PTL

\* The undefined operations of the six passes are Fence's, and have the causes
\* listed, whatever module is mutated and whatever positions are given.
THEOREM FaultsAreExplained == Spec => []FaultsExplained
<1>1. IInv => FaultsExplained
  BY DEF IInv
<1> QED
  BY <1>1, Invariance, PTL

\* When the loop begins, the vector holds the instructions the visitor collects,
\* all of them, in the order of the module: position n is the n-th of them.
VectorExact ==
  pc \notin {"args", "exit", "visit"} =>
    /\ ToSet(insts) = {n \in 1..Len(program) : Collected(program[n])}
    /\ \A a, b \in 1..Len(insts) : a < b => insts[a] < insts[b]

THEOREM VectorIsExact == Spec => []VectorExact
<1>1. IInv => VectorExact
  <2> SUFFICES ASSUME IInv, pc \notin {"args", "exit", "visit"}
               PROVE  /\ ToSet(insts) = {n \in 1..Len(program) : Collected(program[n])}
                      /\ \A a, b \in 1..Len(insts) : a < b => insts[a] < insts[b]
    BY DEF VectorExact
  <2>1. ToSet(insts) = {insts[a] : a \in 1..Len(insts)}
    BY DEF IInv, TypeOK, ToSet
  <2>2. \A a \in 1..Len(insts) : insts[a] \in 1..Len(program)
    BY DEF IInv, TypeOK
  <2> QED
    BY <2>1, <2>2 DEF IInv, Vector
<1> QED
  BY <1>1, Invariance, PTL

\* What the loop over the positions, with its repeated and its skipped ones, makes
\* of each instruction, for every list of positions.
THEOREM MutationIsExact == Spec => []MutatedExactly
<1>1. IInv => MutatedExactly
  <2> SUFFICES ASSUME IInv, pc \in {"ran", "done"}
               PROVE  /\ erased = IF Given("rm") THEN {n \in ToSet(insts) : Times(n) > 0} ELSE {}
                      /\ \A n \in 1..Len(ir) :
                           ir[n] = IF cmd.pass = "RmVolatileKeyword" THEN Unkeyed(n) ELSE Expected(n)
    BY DEF MutatedExactly
  <2>1. \A n \in 1..Len(ir) :
          ir[n] = IF cmd.pass = "RmVolatileKeyword" THEN Unkeyed(n) ELSE Expected(n)
    BY DEF IInv, Contents, TypeOK
  <2>2. ASSUME Given("rm")
        PROVE  erased = {n \in ToSet(insts) : Times(n) > 0}
    <3> DEFINE pointer(m) == insts[cmd.pos[m] + 1]
    <3>1. \A m \in HandledInBounds : pointer(m) \in ToSet(insts)
      BY HandledFacts DEF ToSet, IInv, TypeOK
    <3>2. \A n : Times(n) > 0 <=> \E m \in HandledInBounds : pointer(m) = n
      BY TimesFacts DEF IInv
    <3>3. erased = {pointer(m) : m \in HandledInBounds}
      BY <2>2 DEF IInv, Erasing
    <3> HIDE DEF pointer
    <3> QED
      BY <3>1, <3>2, <3>3
  <2>3. ~Given("rm") => erased = {}
    BY ErasedFacts DEF IInv
  <2> QED
    BY <2>1, <2>2, <2>3
<1> QED
  BY <1>1, Invariance, PTL

\* No mutant is rejected by the verifier but for the two named exceptions: the limit
\* that checkCommandLineArgs puts on -order keeps every pass within its table.
THEOREM MutantsAreVerified == Spec => []MutantsVerify
<1>1. IInv => MutantsVerify
  <2> SUFFICES ASSUME IInv, NEW n \in 1..Len(program),
                      Verifies(program[n]), ~Verifies(ir[n])
               PROVE  \/ Given("toggle") /\ program[n].scope = "single"
                      \/ ~Given("mod") /\ Given("all") /\ ~IsAtomic(program[n])
    BY DEF MutantsVerify, IInv, TypeOK
  <2> DEFINE op == program[n]
  <2>1. TypeOK /\ Vector /\ Stages /\ ir[n] # op /\ op \in Instruction
    BY CommandTypes DEF IInv
  <2>2. CASE cmd.pass = "RmVolatileKeyword"
    <3>1. ir[n] = [op EXCEPT !.volatile = ir[n].volatile]
      BY <2>1, <2>2 DEF IInv, Contents, Unkeyed, Instruction
    <3>2. ir[n].kind = op.kind /\ ir[n].ordering = op.ordering /\ ir[n].scope = op.scope
      BY <2>1, <3>1 DEF Instruction
    <3> QED
      BY <3>2 DEF Verifies, IsAtomic
  <2>3. CASE cmd.pass # "RmVolatileKeyword"
    <3>1. Collected(op) /\ Times(n) # 0 /\ ~Given("rm") /\ ir[n] = Expected(n)
      BY <2>1, <2>3, ChangedIsCollected DEF IInv, Contents
    <3>2. ArgsAccepted
      <4>1. i # 0
        BY <3>1, NothingHandled
      <4> QED
        BY <2>1, <4>1 DEF Stages
    <3>3. /\ cmd.pass = "Load" => op.kind = "load"
          /\ cmd.pass = "Store" => op.kind = "store"
          /\ cmd.pass = "AtomicRMW" => op.kind = "atomicrmw"
          /\ cmd.pass = "CmpXchg" => op.kind = "cmpxchg"
          /\ cmd.pass = "Fence" => op.kind = "fence"
          /\ cmd.pass \in {"Load", "Store"} /\ ~Given("all") => IsAtomic(op)
          /\ cmd.pass \in {"Load", "Store", "AtomicRMW", "CmpXchg", "Fence"}
      BY <2>1, <2>3, <3>1, CollectedKind, CommandTypes DEF Passes
    <3>4. CASE Given("toggle")
      <4>1. ir[n] = [op EXCEPT !.ordering = "not_atomic"] /\ cmd.pass \in {"Load", "Store"}
        BY <2>1, <3>1, <3>4, FlagFacts DEF Expected
      <4>2. ir[n].kind = op.kind /\ ir[n].ordering = "not_atomic" /\ ir[n].scope = op.scope
        BY <2>1, <4>1 DEF Instruction
      <4>3. op.scope \in {"single", "cross"}
        BY <2>1 DEF Instruction, Scopes
      <4> QED
        BY <3>3, <3>4, <4>1, <4>2, <4>3 DEF Verifies, IsAtomic
    <3>5. CASE ~Given("toggle") /\ Given("mod")
      <4> DEFINE ordering == SetOrdering(IndexIn(n))
      <4>1. IndexIn(n) \in Nat
        <5>1. PICK m \in HandledInBounds : insts[cmd.pos[m] + 1] = n
          BY <2>1, <3>1, TimesFacts
        <5>2. cmd.pos[m] \in Nat /\ cmd.pos[m] < Len(insts)
          BY <2>1, HandledFacts DEF HandledInBounds
        <5> QED
          BY <2>1, <5>1, <5>2, IndexInFacts
      <4>2. ir[n] = [op EXCEPT !.ordering = ordering]
        BY <3>1, <3>5 DEF Expected
      <4>3. ir[n].kind = op.kind /\ ir[n].ordering = ordering
        BY <2>1, <4>2 DEF Instruction
      <4>4. /\ ordering # "not_atomic"
            /\ cmd.pass = "Load" => ordering \notin {"release", "acq_rel"}
            /\ cmd.pass = "Store" => ordering \notin {"acquire", "acq_rel"}
            /\ cmd.pass \in {"AtomicRMW", "CmpXchg"} => ordering # "unordered"
            /\ cmd.pass = "Fence" => ordering \in {"acquire", "release", "acq_rel", "seq_cst"}
        BY <2>1, <2>3, <3>2, <3>5, <4>1, SetOrderingVerifies
      <4> HIDE DEF ordering
      <4> QED
        BY <3>3, <4>3, <4>4 DEF Verifies, IsAtomic
    <3>6. CASE ~Given("toggle") /\ ~Given("mod")
      <4>1. ir[n] = [op EXCEPT !.scope = IF @ = "cross" THEN "single" ELSE "cross"]
        BY <2>1, <3>1, <3>6 DEF Expected
      <4>2. ir[n].kind = op.kind /\ ir[n].ordering = op.ordering
        BY <2>1, <4>1 DEF Instruction
      <4> QED
        BY <3>3, <3>6, <4>2 DEF Verifies, IsAtomic
    <3> QED
      BY <3>4, <3>5, <3>6
  <2> QED
    BY <2>2, <2>3
<1> QED
  BY <1>1, Invariance, PTL
=============================================================================
