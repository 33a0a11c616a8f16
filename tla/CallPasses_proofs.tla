------------------------- MODULE CallPasses_proofs -------------------------
(***************************************************************************)
(* Theorems about the passes of CallPasses, for every module, every use of *)
(* the calls, every command line.                                          *)
(*                                                                         *)
(* The lemmas of EnumerateCallInst_proofs are instantiated as P: P!IInv is *)
(* the class's inductive invariant over the variables the passes share     *)
(* with it, and what a pass does through the class preserves it by         *)
(* P!NextIInv.                                                             *)
(***************************************************************************)
EXTENDS CallPasses, WellFoundedInduction, TLAPS

P == INSTANCE EnumerateCallInst_proofs

-----------------------------------------------------------------------------
(* The two instances of the class *)

\* What the class assumes of its constants is assumed here too.
LEMMA ClassConstants ==
  /\ Inst = P!Inst /\ Inst = Calls!Inst /\ P!Other = Calls!Other
  /\ Layout \in Seq(Inst)
  /\ InvokeInst \subseteq Inst
  /\ Index \subseteq Nat
  BY LayoutAssumption, IndexAssumption DEF Inst, P!Inst, Calls!Inst, P!Other, Calls!Other

\* The operators of the instances are the same.
LEMMA SameOperators ==
  /\ P!Size = Calls!Size
  /\ \A index : /\ P!InstAt(index) = Calls!InstAt(index)
                /\ P!IsCall(index) = Calls!IsCall(index)
                /\ P!IsValidIndex(index) = Calls!IsValidIndex(index)
  BY DEF P!Size, Calls!Size, P!InstAt, Calls!InstAt, P!IsCall, Calls!IsCall,
         P!IsValidIndex, Calls!IsValidIndex

\* So are the properties.
LEMMA SameProperties ==
  /\ P!TypeOK <=> Calls!TypeOK
  /\ P!ErasedIsDeleted <=> Calls!ErasedIsDeleted
  /\ P!NoUseOfErased <=> Calls!NoUseOfErased
  /\ P!OneTerminator <=> Calls!OneTerminator
<1>1. P!TypeOK <=> Calls!TypeOK
  BY DEF P!TypeOK, Calls!TypeOK, P!Inst, Calls!Inst, P!Other, Calls!Other,
         P!Abs!Mutators, P!Abs!Queries, Calls!Abs!Mutators, Calls!Abs!Queries
<1>2. P!ErasedIsDeleted <=> Calls!ErasedIsDeleted
  BY SameOperators DEF P!ErasedIsDeleted, Calls!ErasedIsDeleted
<1>3. P!NoUseOfErased <=> Calls!NoUseOfErased
  BY DEF P!NoUseOfErased, Calls!NoUseOfErased, P!Inst, Calls!Inst
<1>4. P!OneTerminator <=> Calls!OneTerminator
  BY DEF P!OneTerminator, Calls!OneTerminator, P!IsTerminator, Calls!IsTerminator
<1> QED
  BY <1>1, <1>2, <1>3, <1>4

\* The class keeps its invariant (NextIInv, with its assumptions discharged).
LEMMA ClassInductive ==
  /\ Calls!Init => P!IInv
  /\ P!IInv /\ [P!Next]_(P!vars) => P!IInv'
  /\ P!IInv => P!OneTerminator
<1>1. P!Init => P!IInv
  BY P!InitIInv, LayoutAssumption, NameAssumption, UsersAssumption, IndexAssumption,
     ClassConstants DEF Calls!Other
<1>2. Calls!Init => P!Init
  BY DEF P!Init, Calls!Init, P!Inst, Calls!Inst
<1>3. P!IInv /\ [P!Next]_(P!vars) => P!IInv'
  BY P!NextIInv, LayoutAssumption, NameAssumption, UsersAssumption, IndexAssumption,
     ClassConstants DEF Calls!Other
<1>4. P!IInv => P!OneTerminator
  BY P!OneTerminatorFollows, LayoutAssumption, NameAssumption, UsersAssumption,
     IndexAssumption, ClassConstants DEF Calls!Other
<1> QED
  BY <1>1, <1>2, <1>3, <1>4

\* Each call of an operation is a step of the class.
LEMMA ClassSteps ==
  /\ \A name \in Names : Calls!AddFuncNameToSearch(name) => P!Next
  /\ Calls!SearchCpp => P!Next
  /\ Calls!Visit => P!Next
  /\ \A index \in Index :
       /\ \A op : Calls!QueryIndex(op, index) => P!Next
       /\ \A op : Calls!Refuse(op, index) => P!Next
       /\ Calls!RemoveFromParent(index) => P!Next
       /\ Calls!RemoveFromParentDeclines(index) => P!Next
       /\ Calls!RemoveFromParentRepZero(index) => P!Next
       /\ Calls!ReplaceInstWithInst(index) => P!Next
       /\ Calls!MarkMutated(index) => P!Next
<1> USE DEF P!Next
<1>1. ASSUME NEW name \in Names, Calls!AddFuncNameToSearch(name) PROVE P!Next
  BY <1>1 DEF P!AddFuncNameToSearch, Calls!AddFuncNameToSearch,
     P!registryVars, Calls!registryVars, P!irVars, Calls!irVars
<1>2. ASSUME Calls!SearchCpp PROVE P!Next
  BY <1>2 DEF P!SearchCpp, Calls!SearchCpp,
     P!registryVars, Calls!registryVars, P!irVars, Calls!irVars
<1>3. ASSUME Calls!Visit PROVE P!Next
  BY <1>3 DEF P!Visit, Calls!Visit, P!VisitCallInst, Calls!VisitCallInst,
     P!VisitInvokeInst, Calls!VisitInvokeInst, P!CheckIfMatch, Calls!CheckIfMatch,
     P!irVars, Calls!irVars
<1> SUFFICES ASSUME NEW index \in Index
             PROVE  /\ \A op : Calls!QueryIndex(op, index) => P!Operation(index)
                    /\ \A op : Calls!Refuse(op, index) => P!Operation(index)
                    /\ Calls!RemoveFromParent(index) => P!Operation(index)
                    /\ Calls!RemoveFromParentDeclines(index) => P!Operation(index)
                    /\ Calls!RemoveFromParentRepZero(index) => P!Operation(index)
                    /\ Calls!ReplaceInstWithInst(index) => P!Operation(index)
                    /\ Calls!MarkMutated(index) => P!Operation(index)
  BY <1>1, <1>2, <1>3
<1> USE SameOperators DEF P!Operation, P!Ready, Calls!Ready, P!Return, Calls!Return,
     P!Follow, Calls!Follow, P!searchVars, Calls!searchVars,
     P!registryVars, Calls!registryVars, P!irVars, Calls!irVars
<1>4. ASSUME NEW op, Calls!QueryIndex(op, index) PROVE P!Operation(index)
  BY <1>4 DEF P!QueryIndex, Calls!QueryIndex, P!Abs!Queries
<1>5. ASSUME NEW op, Calls!Refuse(op, index) PROVE P!Operation(index)
  BY <1>5 DEF P!Refuse, Calls!Refuse, P!Abs!Mutators, Calls!Abs!Mutators
<1>6. ASSUME Calls!RemoveFromParent(index) PROVE P!Operation(index)
  BY <1>6 DEF P!RemoveFromParent, Calls!RemoveFromParent, P!EraseInst, Calls!EraseInst,
     P!Erase, Calls!Erase, P!Inst, Calls!Inst
<1>7. ASSUME Calls!RemoveFromParentDeclines(index) PROVE P!Operation(index)
  BY <1>7 DEF P!RemoveFromParentDeclines, Calls!RemoveFromParentDeclines
<1>8. ASSUME Calls!RemoveFromParentRepZero(index) PROVE P!Operation(index)
  BY <1>8 DEF P!RemoveFromParentRepZero, Calls!RemoveFromParentRepZero,
     P!EraseInvokeOrRep, Calls!EraseInvokeOrRep,
     P!EraseFromParentOrReplace, Calls!EraseFromParentOrReplace,
     P!ReplaceUsesAndErase, Calls!ReplaceUsesAndErase,
     P!Erase, Calls!Erase, P!Inst, Calls!Inst
<1>9. ASSUME Calls!ReplaceInstWithInst(index) PROVE P!Operation(index)
  BY <1>9 DEF P!ReplaceInstWithInst, Calls!ReplaceInstWithInst,
     P!ReplaceUsesAndErase, Calls!ReplaceUsesAndErase, P!Inst, Calls!Inst
<1>10. ASSUME Calls!MarkMutated(index) PROVE P!Operation(index)
  BY <1>10 DEF P!MarkMutated, Calls!MarkMutated
<1> QED
  BY <1>4, <1>5, <1>6, <1>7, <1>8, <1>9, <1>10
-----------------------------------------------------------------------------
(* What an operation of the class does to the state a pass depends on *)

\* The request changed nothing.
Left ==
  /\ UNCHANGED <<visited, callInsts, invokeInsts, deletedIndices, live, users>>
  /\ dangling' = {}

\* The request was accepted for a position and `gone` was erased.
Took(index, gone) ==
  /\ index \in 0..(Calls!Size - 1) /\ index \notin deletedIndices
  /\ Calls!InstAt(index) \in live /\ Calls!InstAt(index) \in Inst
  /\ gone \subseteq {Calls!InstAt(index)}
  /\ live' = live \ gone
  /\ deletedIndices' = deletedIndices \union {index}
  /\ \A inst \in Inst : users'[inst] \subseteq users[inst]
  /\ UNCHANGED <<visited, callInsts, invokeInsts>>
  /\ dangling' = {}

\* A position that isValidIndex accepts (AcceptedIsLive and ValidIndex).
LEMMA Accepted ==
  ASSUME P!IInv, NEW index \in Index
  PROVE  /\ Calls!IsValidIndex(index) \in {-2, -1, 0, 1}
         /\ Calls!IsValidIndex(index) >= 0 =>
              /\ index \in 0..(Calls!Size - 1) /\ index \notin deletedIndices
              /\ Calls!InstAt(index) \in live /\ Calls!InstAt(index) \in Inst
              /\ index < Len(callInsts) => Calls!InstAt(index) = callInsts[index + 1]
              /\ ~(index < Len(callInsts)) => Calls!InstAt(index) \in InvokeInst
         /\ Calls!IsValidIndex(index) = 0 => index < Len(callInsts)
<1>1. /\ P!IsValidIndex(index) \in {-2, -1, 0, 1}
      /\ P!IsValidIndex(index) = 0 => index < Len(callInsts)
  BY P!ValidIndex, LayoutAssumption, NameAssumption, UsersAssumption, IndexAssumption,
     ClassConstants DEF Calls!Other
<1>2. ASSUME P!IsValidIndex(index) >= 0
      PROVE  /\ index \in 0..(P!Size - 1) /\ index \notin deletedIndices
             /\ P!InstAt(index) \in live
  BY <1>2, P!AcceptedIsLive, LayoutAssumption, NameAssumption, UsersAssumption,
     IndexAssumption, ClassConstants DEF Calls!Other
<1>3. ASSUME index \in 0..(P!Size - 1)
      PROVE  /\ P!InstAt(index) \in P!Inst
             /\ index < Len(callInsts) => P!InstAt(index) = callInsts[index + 1]
             /\ ~(index < Len(callInsts)) => P!InstAt(index) \in InvokeInst
  BY <1>3, P!InstAtType, LayoutAssumption, NameAssumption, UsersAssumption,
     IndexAssumption, ClassConstants DEF Calls!Other
<1> QED
  BY <1>1, <1>2, <1>3, SameOperators, ClassConstants

\* A position leads to an instruction of the module.
LEMMA InstAtInst ==
  ASSUME P!IInv, NEW index \in 0..(Calls!Size - 1)
  PROVE  /\ Calls!InstAt(index) \in Inst
         /\ index < Len(callInsts) => Calls!InstAt(index) = callInsts[index + 1]
  BY P!InstAtType, SameOperators, LayoutAssumption, NameAssumption, UsersAssumption,
     IndexAssumption, ClassConstants DEF Calls!Other

\* Different positions lead to different instructions.
LEMMA Injective ==
  ASSUME P!IInv, NEW a \in 0..(Calls!Size - 1), NEW b \in 0..(Calls!Size - 1),
         Calls!InstAt(a) = Calls!InstAt(b)
  PROVE  a = b
  BY P!InstAtInjective, SameOperators, LayoutAssumption, NameAssumption, UsersAssumption,
     IndexAssumption, ClassConstants DEF Calls!Other

\* An operation that follows pointers under its own name does not dangle.
LEMMA NotDangling ==
  ASSUME P!IInv', dangling = {}, NEW op, op # "printInstDebugInfo",
         dangling' \in {dangling, dangling \union {op}}
  PROVE  dangling' = {}
  BY DEF P!IInv, P!MutatorsNeverDangle

LEMMA QueryEffect ==
  ASSUME P!IInv, NEW index \in Index, NEW op, Calls!QueryIndex(op, index)
  PROVE  P!IInv' /\ Left
<1>1. P!IInv'
  BY ClassInductive, ClassSteps
<1> QED
  BY <1>1 DEF Left, Calls!QueryIndex, Calls!Ready, Calls!registryVars, Calls!irVars,
         Calls!searchVars

LEMMA RefuseEffect ==
  ASSUME P!IInv, NEW index \in Index, NEW op, Calls!Refuse(op, index)
  PROVE  P!IInv' /\ Left /\ last'.ret \in {-1, -2}
<1>1. P!IInv'
  BY ClassInductive, ClassSteps
<1>2. last'.ret \in {-1, -2}
  BY Accepted DEF Calls!Refuse, Calls!Return
<1> QED
  BY <1>1, <1>2 DEF Left, Calls!Refuse, Calls!Ready, Calls!registryVars, Calls!irVars,
         Calls!searchVars

LEMMA DeclineEffect ==
  ASSUME P!IInv, NEW index \in Index, Calls!RemoveFromParentDeclines(index)
  PROVE  P!IInv' /\ Left /\ last'.ret \in {-3, 1}
<1>1. P!IInv'
  BY ClassInductive, ClassSteps
<1>2. dangling' = {}
  BY <1>1, NotDangling DEF Calls!RemoveFromParentDeclines, Calls!Ready, Calls!Follow
<1>3. last'.ret \in {-3, 1}
  BY DEF Calls!RemoveFromParentDeclines, Calls!Return
<1> QED
  BY <1>1, <1>2, <1>3 DEF Left, Calls!RemoveFromParentDeclines, Calls!registryVars, Calls!irVars,
         Calls!searchVars

\* Both ways to erase take the instruction away and add no use.
LEMMA EraseShrinks ==
  ASSUME NEW inst, Calls!Erase(inst) \/ Calls!ReplaceUsesAndErase(inst)
  PROVE  live' = live \ {inst} /\ \A other \in Inst : users'[other] \subseteq users[other]
  BY ClassConstants DEF Calls!Erase, Calls!ReplaceUsesAndErase

LEMMA RemoveEffect ==
  ASSUME P!IInv, NEW index \in Index,
         \/ Calls!RemoveFromParent(index)
         \/ Calls!RemoveFromParentRepZero(index)
         \/ Calls!ReplaceInstWithInst(index)
  PROVE  P!IInv' /\ Took(index, {Calls!InstAt(index)}) /\ last'.ret = 0
<1>1. P!IInv'
  BY ClassInductive, ClassSteps
<1>2. Calls!IsValidIndex(index) >= 0 /\ dangling = {}
  BY DEF Calls!RemoveFromParent, Calls!RemoveFromParentRepZero, Calls!ReplaceInstWithInst,
         Calls!Ready
<1>3. dangling' = {}
  BY <1>1, <1>2, NotDangling
  DEF Calls!RemoveFromParent, Calls!RemoveFromParentRepZero, Calls!ReplaceInstWithInst,
      Calls!Follow
<1>4. Calls!Erase(Calls!InstAt(index)) \/ Calls!ReplaceUsesAndErase(Calls!InstAt(index))
  <2>1. CASE Calls!RemoveFromParent(index)
    <3>1. index < Len(callInsts)
      BY <2>1, Accepted DEF Calls!RemoveFromParent
    <3>2. Calls!InstAt(index) = callInsts[index + 1]
      BY <1>2, <3>1, Accepted
    <3> QED
      BY <2>1, <3>2 DEF Calls!RemoveFromParent, Calls!EraseInst
  <2>2. CASE Calls!RemoveFromParentRepZero(index)
    BY <2>2 DEF Calls!RemoveFromParentRepZero, Calls!EraseInvokeOrRep,
                Calls!EraseFromParentOrReplace
  <2>3. CASE Calls!ReplaceInstWithInst(index)
    BY <2>3 DEF Calls!ReplaceInstWithInst
  <2> QED
    BY <2>1, <2>2, <2>3
<1>5. /\ deletedIndices' = deletedIndices \union {index}
      /\ UNCHANGED <<visited, callInsts, invokeInsts>>
      /\ last'.ret = 0
  BY DEF Calls!searchVars, Calls!RemoveFromParent, Calls!EraseInst, Calls!RemoveFromParentRepZero,
         Calls!ReplaceInstWithInst, Calls!Return
<1> QED
  BY <1>1, <1>2, <1>3, <1>4, <1>5, Accepted, EraseShrinks DEF Took

LEMMA MarkEffect ==
  ASSUME P!IInv, NEW index \in Index, Calls!MarkMutated(index)
  PROVE  P!IInv' /\ Took(index, {})
<1>1. P!IInv'
  BY ClassInductive, ClassSteps
<1>2. Calls!IsValidIndex(index) >= 0
  BY DEF Calls!MarkMutated
<1> QED
  BY <1>1, <1>2, Accepted DEF Took, Calls!MarkMutated, Calls!Ready, Calls!irVars,
         Calls!searchVars

\* The block ThreadJoin edits itself: the same as a replacement by the class,
\* since nothing uses what std::thread::join returns.
LEMMA CppJoinEffect ==
  ASSUME P!IInv, NEW index \in Index, visited = Len(Layout), dangling = {},
         Calls!IsValidIndex(index) >= 0, ~Calls!IsCall(index),
         users[Calls!InstAt(index)] = {},
         Calls!Follow("markMutated", {Calls!InstAt(index)}),
         deletedIndices' = deletedIndices \union {index},
         tail' = [tail EXCEPT ![Calls!InstAt(index)] = CppJoinTail],
         Calls!Erase(Calls!InstAt(index)),
         Calls!Return("markMutated", index, 0),
         UNCHANGED <<funcNames, isCpp, visited, callInsts, invokeInsts>>
  PROVE  P!IInv' /\ Took(index, {Calls!InstAt(index)}) /\ last'.ret = 0
<1> DEFINE inst == P!InstAt(index)
<1>1. /\ P!IsValidIndex(index) >= 0 /\ P!Ready
      /\ inst \in Inst /\ inst \in InvokeInst /\ inst \in live
      /\ inst = Calls!InstAt(index)
      /\ UNCHANGED <<P!searchVars, callInsts, invokeInsts>>
  BY Accepted, SameOperators DEF P!Ready, P!searchVars, Calls!IsCall
<1>2. /\ live' = live \ {inst} /\ live' \subseteq Inst
      /\ users' \in [Inst -> SUBSET (Inst \union {Calls!Other})]
      /\ users'[inst] = {}
      /\ \A other \in Inst : users'[other] \subseteq users[other]
  <2>1. users \in [Inst -> SUBSET (Inst \union {Calls!Other})] /\ live \subseteq Inst
    BY ClassConstants DEF P!IInv, P!TypeOK
  <2>2. users' = [other \in Inst |-> users[other] \ {inst}] /\ live' = live \ {inst}
    BY <1>1, ClassConstants DEF Calls!Erase
  <2> HIDE DEF inst
  <2> QED
    BY <1>1, <2>1, <2>2
<1>3. P!PointersDistinct' /\ P!DeletedInRange' /\ P!ErasedIsDeleted' /\ P!NoUseOfErased'
  BY <1>1, <1>2, P!ErasingPreserves, LayoutAssumption, NameAssumption, UsersAssumption,
     IndexAssumption, ClassConstants DEF Calls!Other
<1>4. P!TailShape' /\ tail' \in [InvokeInst -> Seq({"invoke", "branch", "replacement"})]
  <2>1. tail' = [tail EXCEPT ![inst] = <<"replacement", "branch">>]
    BY <1>1 DEF CppJoinTail
  <2> HIDE DEF inst
  <2> QED
    BY <1>1, <1>2, <2>1, P!TailRewritten, LayoutAssumption, NameAssumption,
       UsersAssumption, IndexAssumption, ClassConstants DEF Calls!Other
<1>5. P!TypeOK' /\ P!MutatorsNeverDangle'
  <2>1. "markMutated" \in P!Abs!Mutators
    BY DEF P!Abs!Mutators
  <2>2. P!Follow("markMutated", {inst}) /\ P!Return("markMutated", index, 0)
    BY <1>1 DEF P!Follow, Calls!Follow, P!Return, Calls!Return
  <2> QED
    BY <1>1, <1>2, <1>4, <2>1, <2>2, P!MutationType, LayoutAssumption, NameAssumption,
       UsersAssumption, IndexAssumption, ClassConstants DEF Calls!Other
<1>6. P!IInv'
  BY <1>3, <1>4, <1>5 DEF P!IInv
<1>7. dangling' = {}
  BY <1>6, NotDangling DEF Calls!Follow
<1>8. last'.ret = 0
  BY DEF Calls!Return
<1> QED
  BY <1>1, <1>2, <1>6, <1>7, <1>8, Accepted DEF Took

-----------------------------------------------------------------------------
(* The inductive invariant of a pass *)

\* The pass's own variables, and what each of its stages can rely on
Stages ==
  /\ target \in [Inst -> Names \union {Indirect, "nothing", "sleep"}]
  /\ value \in [Inst -> {Kept} \union 0..SemValueMax]
  /\ cmd \in Commands
  /\ i \in 0..Len(cmd.pos)
  /\ modified \in BOOLEAN
  /\ pc \in {"args", "search", "loop", "ran", "exit", "done", "fault"}
  /\ pc \in {"args", "search", "exit"} => i = 0
  /\ pc \in {"loop", "ran", "done"} => visited = Len(Layout)
  /\ pc \notin {"args", "exit"} => ArgsAccepted
  /\ fault \in {"none", "dangling", "oob", "badcast"}
  /\ pc # "fault" => fault = "none" /\ dangling = {}

\* No instruction gains a user.
UsesShrink == \A inst \in Inst : users[inst] \subseteq InitUsers[inst]

\* The calls found are calls of the functions searched for.
CallsMatch ==
  \A n \in 1..Len(callInsts) :
    (IF SearchesCpp THEN CppName[callInsts[n]] ELSE RawName[callInsts[n]]) \in SearchNames

\* Only handled positions are registered, and all that changed is registered.
Registered ==
  /\ RegistryExact
  /\ deletedIndices \subseteq Handled
  /\ \A inst \in Inst :
       Changed(inst) => \E index \in deletedIndices : Calls!InstAt(index) = inst

\* The modes that erase instructions
Erases == \/ Mode = "rm"
          \/ Mode = "rep" /\ cmd.pass \in {"ThreadJoin", "PosixJoin"}
ErasedByMode == live # Inst => Erases

\* `modified` and the registry agree, but for PosixYield.
Reported ==
  /\ deletedIndices # {} => modified
  /\ modified /\ cmd.pass # "PosixYield" => deletedIndices # {}

PassIInv ==
  /\ P!IInv
  /\ Stages
  /\ UsesShrink
  /\ CallsMatch
  /\ Registered
  /\ ErasedByMode
  /\ Reported
  /\ FaultsExplained

\* What the stages know of the position about to be handled
LEMMA PosType ==
  ASSUME Stages, i < Len(cmd.pos)
  PROVE  Pos \in Index /\ Pos \in Nat /\ i \in Nat /\ i + 1 \in 1..Len(cmd.pos)
<1>1. cmd.pos \in Seq(Index)
  BY CommandAssumption DEF Stages
<1>2. i \in Nat /\ i + 1 \in 1..Len(cmd.pos)
  BY <1>1 DEF Stages
<1>3. \A s \in Seq(Index) : \A n \in 1..Len(s) : s[n] \in Index
  OBVIOUS
<1>4. Pos \in Index
  BY <1>1, <1>2, <1>3 DEF Pos
<1> QED
  BY <1>2, <1>4, IndexAssumption

LEMMA HandledGrows ==
  ASSUME Stages, i < Len(cmd.pos), i' = i + 1, cmd' = cmd
  PROVE  Handled' = Handled \union {Pos}
<1>1. i \in Nat
  BY PosType
<1>2. 1..(i + 1) = (1..i) \union {i + 1}
  BY <1>1
<1> QED
  BY <1>2 DEF Handled, Pos

\* Nothing is registered before the loop starts.
NoneChanged == deletedIndices = {} /\ \A inst \in Inst : ~Changed(inst)

LEMMA NothingHandled ==
  ASSUME Stages, Registered, i = 0
  PROVE  NoneChanged
<1>1. Handled = {}
  BY DEF Handled
<1> QED
  BY <1>1 DEF Registered, NoneChanged

LEMMA NothingRegistered == P!IInv /\ NoneChanged => Registered
  BY InstAtInst DEF Registered, RegistryExact, NoneChanged

-----------------------------------------------------------------------------
(* A turn of a loop *)

\* What depends on the command line alone
LEMMA CommandOnly ==
  ASSUME cmd' = cmd
  PROVE  /\ ArgsAccepted' <=> ArgsAccepted
         /\ Mode' = Mode
         /\ SearchNames' = SearchNames
         /\ SearchesCpp' <=> SearchesCpp
         /\ Erases' <=> Erases
<1>1. /\ ArgsAccepted' <=> ArgsAccepted
      /\ Mode' = Mode
  BY DEF ArgsAccepted, ThreadJoinArgs, YieldArgs, Given, Mode
<1>2. /\ SearchNames' = SearchNames
      /\ SearchesCpp' <=> SearchesCpp
  BY DEF SearchNames, SearchesCpp, ThreadJoinNames, Given
<1> QED
  BY <1>1, <1>2 DEF Erases

\* The registry's operators depend on the two vectors alone.
LEMMA VectorsOnly ==
  ASSUME UNCHANGED <<callInsts, invokeInsts>>
  PROVE  Calls!Size' = Calls!Size /\ \A index : Calls!InstAt(index)' = Calls!InstAt(index)
  BY DEF Calls!Size, Calls!InstAt, Calls!IsCall

\* A turn that goes on
GoesOn ==
  /\ pc = "loop" /\ i < Len(cmd.pos) /\ i' = i + 1 /\ UNCHANGED cmd
  /\ Goes

\* The stages after a turn that leaves erased memory alone
LEMMA TurnStages ==
  ASSUME Stages, GoesOn, dangling' = {}, visited' = visited,
         target' \in [Inst -> Names \union {Indirect, "nothing", "sleep"}],
         value' \in [Inst -> {Kept} \union 0..SemValueMax],
         modified' \in BOOLEAN
  PROVE  Stages' /\ FaultsExplained'
<1>1. i' \in 0..Len(cmd'.pos)
  <2>1. i \in Nat /\ i + 1 \in 1..Len(cmd.pos)
    BY PosType DEF GoesOn
  <2> QED
    BY <2>1 DEF GoesOn
<1>2. fault' = "none" /\ pc' = "loop"
  BY DEF GoesOn, Goes
<1>3. ArgsAccepted'
  BY CommandOnly DEF Stages, GoesOn
<1> QED
  BY <1>1, <1>2, <1>3 DEF Stages, GoesOn, FaultsExplained

\* A position that is left alone; only PosixYield calls that a change.
LEMMA LeftPreserves ==
  ASSUME PassIInv, GoesOn, P!IInv', Left, UNCHANGED <<target, value>>,
         modified' = modified \/ (cmd.pass = "PosixYield" /\ modified' = TRUE)
  PROVE  PassIInv'
<1> USE DEF PassIInv
<1>1. Stages' /\ FaultsExplained'
  BY TurnStages DEF Left, Stages
<1>2. UsesShrink' /\ CallsMatch' /\ ErasedByMode'
  BY CommandOnly DEF UsesShrink, CallsMatch, ErasedByMode, Left, GoesOn
<1>3. Registered'
  <2>1. Handled \subseteq Handled'
    BY HandledGrows DEF GoesOn
  <2>2. \A inst : Changed(inst)' <=> Changed(inst)
    BY DEF Changed, Left
  <2> QED
    BY <2>1, <2>2, VectorsOnly DEF Registered, RegistryExact, Left
<1>4. Reported'
  BY DEF Reported, Left, GoesOn
<1> QED
  BY <1>1, <1>2, <1>3, <1>4

\* A position that is taken: its instruction, and no other, is changed.
LEMMA TookPreserves ==
  ASSUME PassIInv, GoesOn, P!IInv', NEW gone, Took(Pos, gone),
         target' \in [Inst -> Names \union {Indirect, "nothing", "sleep"}],
         value' \in [Inst -> {Kept} \union 0..SemValueMax],
         \A inst \in Inst \ {CurInst} : target'[inst] = target[inst] /\ value'[inst] = value[inst],
         \/ CurInst \in gone
         \/ target'[CurInst] # RawName[CurInst]
         \/ value'[CurInst] # Kept,
         modified' = TRUE,
         gone # {} => Erases
  PROVE  PassIInv'
<1> DEFINE taken == CurInst
<1> USE DEF PassIInv
<1>1. Stages' /\ FaultsExplained'
  BY TurnStages DEF Took
<1>2. UsesShrink' /\ CallsMatch'
  BY CommandOnly DEF UsesShrink, CallsMatch, Took, GoesOn
<1>3. ErasedByMode'
  BY CommandOnly DEF ErasedByMode, Took, GoesOn
<1>4. taken \in Inst /\ Pos \in 0..(Calls!Size - 1) /\ taken = Calls!InstAt(Pos)
      /\ gone \subseteq {taken} /\ live' = live \ gone
  BY DEF Took, CurInst
<1>5. \A inst \in Inst \ {taken} : Changed(inst)' <=> Changed(inst)
  <2> HIDE DEF taken
  <2> QED
    BY <1>4 DEF Changed, taken
<1>6. \A inst \in Inst : inst = taken => Changed(inst)'
  <2> HIDE DEF taken
  <2> QED
    BY <1>4 DEF Changed, taken
<1>7. \A index \in 0..(Calls!Size - 1) :
        /\ Calls!InstAt(index) \in Inst
        /\ Calls!InstAt(index) = taken => index = Pos
  BY <1>4, Injective, InstAtInst
<1>8. Registered'
  <2> HIDE DEF taken
  <2>1. RegistryExact'
    <3>1. RegistryExact /\ Pos \notin deletedIndices
      BY DEF Registered, Took
    <3>2. ASSUME NEW index \in 0..(Calls!Size - 1)
          PROVE  index \in deletedIndices' <=> Changed(Calls!InstAt(index))'
      <4>1. CASE index = Pos
        BY <4>1, <1>4, <1>6, VectorsOnly DEF Took
      <4>2. CASE index # Pos
        BY <4>2, <3>1, <1>5, <1>7, VectorsOnly DEF Took, RegistryExact
      <4> QED
        BY <4>1, <4>2
    <3> QED
      BY <3>2, VectorsOnly DEF RegistryExact, Took
  <2>2. deletedIndices' \subseteq Handled'
    BY HandledGrows DEF GoesOn, Took, Registered
  <2>3. ASSUME NEW inst \in Inst, Changed(inst)'
        PROVE  \E index \in deletedIndices' : Calls!InstAt(index)' = inst
    <3>1. CASE inst = taken
      BY <3>1, <1>4, VectorsOnly DEF Took
    <3>2. CASE inst # taken
      BY <3>2, <2>3, <1>5, VectorsOnly DEF Took, Registered
    <3> QED
      BY <3>1, <3>2
  <2> QED
    BY <2>1, <2>2, <2>3 DEF Registered
<1>9. Reported'
  BY DEF Reported, Took
<1> QED
  BY <1>1, <1>2, <1>3, <1>8, <1>9

-----------------------------------------------------------------------------
(* The actions *)

\* Which answers count as a change
LEMMA MutatesMeans ==
  ASSUME modified \in BOOLEAN, modified' = (modified \/ Mutates(last'.ret))
  PROVE  /\ last'.ret = 0 => modified' = TRUE
         /\ last'.ret \in {-1, -2} => modified' = modified
         /\ last'.ret \in {-3, 1} => modified' = TRUE
<1>1. /\ last'.ret \in {-3, 0, 1} => Mutates(last'.ret)
      /\ last'.ret \in {-1, -2} => ~Mutates(last'.ret)
  BY DEF Mutates
<1>2. Mutates(last'.ret) => modified' = TRUE
  OBVIOUS
<1>3. ~Mutates(last'.ret) => modified' = modified
  OBVIOUS
<1> QED
  BY <1>1, <1>2, <1>3

\* A turn that only asks.
LEMMA SkipPreserves ==
  ASSUME PassIInv, NEW pass, NEW mode, Turn(pass, mode), NEW query, Skips(query)
  PROVE  PassIInv'
<1>1. Pos \in Index
  BY PosType DEF PassIInv, Turn
<1>2. P!IInv' /\ Left
  BY <1>1, QueryEffect DEF PassIInv, Skips
<1> QED
  BY <1>2, LeftPreserves DEF Turn, Skips, GoesOn

\* Whatever erases the instruction at the position and names what is there now.
LEMMA ErasedPreserves ==
  ASSUME PassIInv, NEW pass, NEW mode, Turn(pass, mode), Erases,
         P!IInv', Took(Pos, {CurInst}), last'.ret = 0,
         NEW name \in {"nothing", "sleep"}, Place(name),
         modified' = TRUE, Goes, value' = value
  PROVE  PassIInv'
<1>1. target' = [target EXCEPT ![CurInst] = name]
  BY DEF Place
<1>2. target \in [Inst -> Names \union {Indirect, "nothing", "sleep"}]
      /\ value \in [Inst -> {Kept} \union 0..SemValueMax]
  BY DEF PassIInv, Stages
<1>3. target' \in [Inst -> Names \union {Indirect, "nothing", "sleep"}]
  BY <1>1, <1>2
<1>4. \A inst \in Inst \ {CurInst} : target'[inst] = target[inst]
  BY <1>1, <1>2
<1>5. GoesOn
  BY DEF Turn, GoesOn
<1> QED
  BY <1>2, <1>3, <1>4, <1>5, TookPreserves

LEMMA RemovePreserves ==
  ASSUME PassIInv, NEW pass, pass # "PosixYield", Remove(pass)
  PROVE  PassIInv'
<1>1. Pos \in Index /\ modified \in BOOLEAN
  BY PosType DEF PassIInv, Stages, Remove, Turn
<1>2. CASE Calls!RemoveFromParentRepZero(Pos)
  <2>1. P!IInv' /\ Took(Pos, {CurInst}) /\ last'.ret = 0
    BY <1>1, <1>2, RemoveEffect DEF PassIInv, CurInst
  <2>2. modified' = TRUE
    BY <1>1, <2>1, MutatesMeans DEF Remove
  <2>3. Erases
    BY DEF Remove, Turn, Erases
  <2> QED
    BY <2>1, <2>2, <2>3, ErasedPreserves DEF Remove
<1>3. CASE Calls!Refuse("removeFromParentRepZero", Pos)
  <2>1. P!IInv' /\ Left /\ last'.ret \in {-1, -2}
    BY <1>1, <1>3, RefuseEffect DEF PassIInv
  <2>2. last'.ret # 0
    BY <2>1
  <2>3. modified' = modified /\ target' = target
    BY <1>1, <2>1, <2>2, MutatesMeans DEF Remove, Place
  <2>4. GoesOn /\ value' = value
    BY DEF Remove, Turn, GoesOn
  <2> QED
    BY <2>1, <2>3, <2>4, LeftPreserves
<1> QED
  BY <1>2, <1>3 DEF Remove

LEMMA RemoveYieldPreserves ==
  ASSUME PassIInv, RemoveYield
  PROVE  PassIInv'
<1>1. Pos \in Index /\ modified \in BOOLEAN /\ cmd.pass = "PosixYield"
  BY PosType DEF PassIInv, Stages, RemoveYield, Turn
<1>2. CASE Calls!RemoveFromParent(Pos)
  <2>1. P!IInv' /\ Took(Pos, {CurInst}) /\ last'.ret = 0
    BY <1>1, <1>2, RemoveEffect DEF PassIInv, CurInst
  <2>2. modified' = TRUE
    BY <1>1, <2>1, MutatesMeans DEF RemoveYield
  <2>3. Erases
    BY DEF RemoveYield, Turn, Erases
  <2> QED
    BY <2>1, <2>2, <2>3, ErasedPreserves DEF RemoveYield
<1>3. ASSUME P!IInv' /\ Left /\ last'.ret \in {-3, -2, -1, 1} PROVE PassIInv'
  <2>1. modified' \in {modified, TRUE}
    BY <1>1, <1>3, MutatesMeans DEF RemoveYield
  <2>2. target' = target
    BY <1>3 DEF RemoveYield, Place
  <2>3. GoesOn /\ value' = value
    BY DEF RemoveYield, Turn, GoesOn
  <2> QED
    BY <1>1, <1>3, <2>1, <2>2, <2>3, LeftPreserves
<1>4. CASE Calls!RemoveFromParentDeclines(Pos)
  BY <1>1, <1>3, <1>4, DeclineEffect DEF PassIInv
<1>5. CASE Calls!Refuse("removeFromParent", Pos)
  BY <1>1, <1>3, <1>5, RefuseEffect DEF PassIInv
<1> QED
  BY <1>2, <1>4, <1>5 DEF RemoveYield

LEMMA SleepPreserves ==
  ASSUME PassIInv, NEW pass \in {"ThreadJoin", "PosixJoin"}, Turn(pass, "rep"),
         ReplaceBySleep
  PROVE  PassIInv'
<1>1. Pos \in Index
  BY PosType DEF PassIInv, Turn
<1>2. P!IInv' /\ Took(Pos, {CurInst}) /\ last'.ret = 0
  BY <1>1, RemoveEffect DEF PassIInv, CurInst, ReplaceBySleep
<1>3. Erases
  BY DEF Turn, Erases
<1> QED
  BY <1>2, <1>3, ErasedPreserves DEF ReplaceBySleep

LEMMA PosixJoinReplacePreserves ==
  ASSUME PassIInv, PosixJoinReplace
  PROVE  PassIInv'
  BY SkipPreserves, SleepPreserves DEF PosixJoinReplace

\* A turn that breaks changes nothing but the position it was at.
LEMMA BreakPreserves ==
  ASSUME PassIInv, NEW pass, NEW mode, Turn(pass, mode),
         NEW kind \in {"oob", "badcast"}, Breaks(kind), FaultsExplained'
  PROVE  PassIInv'
<1> USE DEF PassIInv
<1>1. i' \in 0..Len(cmd'.pos)
  <2>1. i \in Nat /\ i + 1 \in 1..Len(cmd.pos)
    BY PosType DEF Turn
  <2> QED
    BY <2>1 DEF Turn
<1>2. P!IInv'
  <2>1. UNCHANGED P!vars
    BY DEF Breaks, classVars, P!vars, P!searchVars, P!registryVars, P!irVars
  <2> QED
    BY <2>1, ClassInductive
<1>3. Stages'
  <2>1. ArgsAccepted'
    BY CommandOnly DEF Stages, Turn
  <2> QED
    BY <1>1, <2>1 DEF Stages, Turn, Breaks, classVars
<1>4. UsesShrink' /\ CallsMatch' /\ ErasedByMode' /\ Reported'
  BY CommandOnly DEF UsesShrink, CallsMatch, ErasedByMode, Reported, Turn, Breaks, classVars
<1>5. Registered'
  <2>1. Handled \subseteq Handled'
    BY HandledGrows DEF Turn
  <2>2. \A inst : Changed(inst)' <=> Changed(inst)
    BY DEF Changed, Breaks, classVars
  <2> QED
    BY <2>1, <2>2, VectorsOnly DEF Registered, RegistryExact, Breaks, classVars
<1> QED
  BY <1>2, <1>3, <1>4, <1>5

\* The position of an invoke, given to a pass that looks only into callInsts
LEMMA OutOfBoundsPreserves ==
  ASSUME PassIInv,
         NEW pass, NEW mode, Turn(pass, mode),
         <<pass, mode>> \in {<<"PosixCondSignal", "rep">>, <<"PosixSema", "mod">>},
         Calls!IsValidIndex(Pos) >= 0, ~Calls!IsCall(Pos), Breaks("oob")
  PROVE  PassIInv'
<1>1. Pos \in Index /\ Pos \in Nat
  BY PosType DEF PassIInv, Turn
<1>2. Pos \in 0..(Calls!Size - 1) /\ Len(callInsts) \in Nat /\ Len(invokeInsts) \in Nat
  BY <1>1, Accepted DEF PassIInv, P!IInv, P!TypeOK
<1>3. Pos >= Len(callInsts) /\ Pos < Calls!Size
  BY <1>1, <1>2 DEF Calls!IsCall, Calls!Size
<1>4. Pos \in Handled'
  BY HandledGrows DEF PassIInv, Turn
<1>5. /\ Len(callInsts') = Len(callInsts) /\ Calls!Size' = Calls!Size
      /\ Mode' = mode /\ cmd'.pass = pass /\ fault' = "oob"
  BY CommandOnly, VectorsOnly DEF Turn, Breaks, classVars
<1>6. FaultsExplained'
  BY <1>3, <1>4, <1>5 DEF FaultsExplained
<1> QED
  BY <1>6, BreakPreserves

\* A plain call of std::thread::join is found only when the C++ names are.
LEMMA BadCastPreserves ==
  ASSUME PassIInv, Turn("ThreadJoin", "rep"),
         Calls!IsValidIndex(Pos) >= 0, Calls!IsCall(Pos), IsStdThreadJoin(CurInst),
         Breaks("badcast")
  PROVE  PassIInv'
<1>1. Pos \in Index /\ Pos \in Nat
  BY PosType DEF PassIInv, Turn
<1>2. Pos < Len(callInsts) /\ CurInst = callInsts[Pos + 1] /\ CurInst \in Inst
  BY <1>1, Accepted DEF PassIInv, Calls!IsCall, CurInst
<1>3. Pos + 1 \in 1..Len(callInsts)
  BY <1>1, <1>2 DEF PassIInv, P!IInv, P!TypeOK
<1>4. Given("c++11")
  <2>1. (IF SearchesCpp THEN CppName[CurInst] ELSE RawName[CurInst]) \in SearchNames
    BY <1>2, <1>3 DEF PassIInv, CallsMatch
  <2>2. RawName[CurInst] # "pthread_join"
    BY <1>2, SearchAssumption DEF IsStdThreadJoin
  <2> QED
    BY <2>1, <2>2 DEF SearchesCpp, SearchNames, ThreadJoinNames, Turn
<1>5. Pos \in Handled'
  BY HandledGrows DEF PassIInv, Turn
<1>6. \E pos \in Handled' : pos < Len(callInsts') /\ CppName[Calls!InstAt(pos)'] = StdJoin
  <2>1. Calls!InstAt(Pos) = CurInst /\ CppName[CurInst] = StdJoin
    BY DEF CurInst, IsStdThreadJoin
  <2>2. \A pos : Calls!InstAt(pos)' = Calls!InstAt(pos)
    BY VectorsOnly DEF Breaks, classVars
  <2>3. callInsts' = callInsts
    BY DEF Breaks, classVars
  <2> QED
    BY <1>2, <1>5, <2>1, <2>2, <2>3
<1>7. cmd' = cmd /\ cmd.pass = "ThreadJoin" /\ Mode' = "rep" /\ Given("c++11")'
      /\ fault' = "badcast"
  BY <1>4, CommandOnly DEF Turn, Breaks, Given
<1>8. FaultsExplained'
  BY <1>6, <1>7 DEF FaultsExplained, IsStdThreadJoin
<1> QED
  BY <1>8, BreakPreserves

LEMMA ThreadJoinReplacePreserves ==
  ASSUME PassIInv, ThreadJoinReplace
  PROVE  PassIInv'
<1>1. Turn("ThreadJoin", "rep") /\ Pos \in Index
  BY PosType DEF PassIInv, ThreadJoinReplace, Turn
<1>2. CASE Calls!IsValidIndex(Pos) < 0
  BY <1>1, <1>2, SkipPreserves DEF ThreadJoinReplace
<1>3. CASE ~(Calls!IsValidIndex(Pos) < 0) /\ ~IsStdThreadJoin(CurInst)
  BY <1>1, <1>3, SleepPreserves DEF ThreadJoinReplace
<1>4. CASE ~(Calls!IsValidIndex(Pos) < 0) /\ IsStdThreadJoin(CurInst)
  <2>1. ReplaceCppJoin
    BY <1>4 DEF ThreadJoinReplace
  <2>2. Calls!IsValidIndex(Pos) >= 0
    BY <1>1, <1>4, Accepted DEF PassIInv
  <2>3. CASE Calls!IsCall(Pos)
    BY <1>1, <1>4, <2>1, <2>2, <2>3, BadCastPreserves DEF ReplaceCppJoin
  <2>4. CASE ~Calls!IsCall(Pos)
    <3>1. CurInst = Calls!InstAt(Pos) /\ CurInst \in Inst
      BY <1>1, <2>2, Accepted DEF PassIInv, CurInst
    <3>2. users[CurInst] = {}
      <4>1. InitUsers[CurInst] = {}
        BY <1>4, <3>1, VoidAssumption DEF IsStdThreadJoin
      <4> QED
        BY <3>1, <4>1 DEF PassIInv, UsesShrink
    <3>3. visited = Len(Layout) /\ dangling = {}
      BY <1>1 DEF PassIInv, Stages, Turn
    <3>4. P!IInv' /\ Took(Pos, {CurInst}) /\ last'.ret = 0
      BY <1>1, <2>1, <2>2, <2>4, <3>1, <3>2, <3>3, CppJoinEffect DEF PassIInv, ReplaceCppJoin
    <3>5. Erases
      BY <1>1 DEF Turn, Erases
    <3>6. Place("sleep") /\ modified' = TRUE /\ Goes /\ value' = value
      BY <2>1, <2>4 DEF ReplaceCppJoin
    <3> QED
      BY <1>1, <3>4, <3>5, <3>6, ErasedPreserves
  <2> QED
    BY <2>3, <2>4
<1> QED
  BY <1>2, <1>3, <1>4

\* A call that is kept and marked: its callee or its permit count is another one.
LEMMA MarkedPreserves ==
  ASSUME PassIInv, NEW pass, NEW mode, Turn(pass, mode), Goes, modified' = TRUE,
         Calls!MarkMutated(Pos),
         \/ /\ \E new \in (Names \ {RawName[CurInst]}) : target' = [target EXCEPT ![CurInst] = new]
            /\ value' = value
         \/ /\ \E new \in 0..SemValueMax : value' = [value EXCEPT ![CurInst] = new]
            /\ target' = target
  PROVE  PassIInv'
<1>1. Pos \in Index
  BY PosType DEF PassIInv, Turn
<1>2. P!IInv' /\ Took(Pos, {})
  BY <1>1, MarkEffect DEF PassIInv
<1>3. CurInst \in Inst
  BY <1>2 DEF Took, CurInst
<1>4. GoesOn
  BY DEF Turn, GoesOn
<1>5. target \in [Inst -> Names \union {Indirect, "nothing", "sleep"}]
      /\ value \in [Inst -> {Kept} \union 0..SemValueMax]
  BY DEF PassIInv, Stages
<1>6. CASE /\ \E new \in (Names \ {RawName[CurInst]}) : target' = [target EXCEPT ![CurInst] = new]
           /\ value' = value
  <2>1. PICK new \in (Names \ {RawName[CurInst]}) : target' = [target EXCEPT ![CurInst] = new]
    BY <1>6
  <2>2. /\ target' \in [Inst -> Names \union {Indirect, "nothing", "sleep"}]
        /\ target'[CurInst] # RawName[CurInst]
        /\ \A inst \in Inst \ {CurInst} : target'[inst] = target[inst]
    BY <1>3, <1>5, <2>1
  <2> QED
    BY <1>2, <1>4, <1>5, <1>6, <2>2, TookPreserves
<1>7. CASE /\ \E new \in 0..SemValueMax : value' = [value EXCEPT ![CurInst] = new]
           /\ target' = target
  <2>1. PICK new \in 0..SemValueMax : value' = [value EXCEPT ![CurInst] = new]
    BY <1>7
  <2>2. new # Kept
    BY <2>1, SemAssumption
  <2>3. /\ value' \in [Inst -> {Kept} \union 0..SemValueMax]
        /\ value'[CurInst] # Kept
        /\ \A inst \in Inst \ {CurInst} : value'[inst] = value[inst]
    BY <1>3, <1>5, <2>1, <2>2
  <2> QED
    BY <1>2, <1>4, <1>5, <1>7, <2>3, TookPreserves
<1> QED
  BY <1>6, <1>7

\* What an accepted position leads to was not changed yet.
LEMMA NotYetChanged ==
  ASSUME PassIInv, Pos \in Index, Calls!IsValidIndex(Pos) >= 0
  PROVE  ~Changed(CurInst) /\ CurInst \in Inst
  BY Accepted DEF PassIInv, Registered, RegistryExact, CurInst

LEMMA CondSignalReplacePreserves ==
  ASSUME PassIInv, CondSignalReplace
  PROVE  PassIInv'
<1>1. Turn("PosixCondSignal", "rep") /\ Pos \in Index
  BY PosType DEF PassIInv, CondSignalReplace, Turn
<1>2. CASE Calls!IsValidIndex(Pos) < 0
  BY <1>1, <1>2, SkipPreserves DEF CondSignalReplace
<1>3. CASE ~(Calls!IsValidIndex(Pos) < 0)
  <2>1. Calls!IsValidIndex(Pos) >= 0
    BY <1>1, <1>3, Accepted DEF PassIInv
  <2>2. CASE ~Calls!IsCall(Pos)
    BY <1>1, <1>3, <2>1, <2>2, OutOfBoundsPreserves DEF CondSignalReplace
  <2>3. CASE Calls!IsCall(Pos) /\ Args[CurInst] < 1
    BY <1>1, <1>3, <2>3, SkipPreserves DEF CondSignalReplace
  <2>4. CASE Calls!IsCall(Pos) /\ ~(Args[CurInst] < 1)
    <3>1. /\ target' = [target EXCEPT ![CurInst] = Opposite(target[CurInst])]
          /\ Calls!MarkMutated(Pos) /\ modified' = TRUE /\ Goes /\ value' = value
      BY <1>3, <2>4 DEF CondSignalReplace
    <3>2. target[CurInst] = RawName[CurInst]
      BY <1>1, <2>1, NotYetChanged DEF Changed
    <3>3. Opposite(target[CurInst]) \in Names \ {RawName[CurInst]}
      BY <3>2, SearchAssumption DEF Opposite, SearchableNames
    <3> QED
      BY <1>1, <3>1, <3>3, MarkedPreserves
  <2> QED
    BY <2>2, <2>3, <2>4
<1> QED
  BY <1>2, <1>3

LEMMA SemaModifyPreserves ==
  ASSUME PassIInv, SemaModify
  PROVE  PassIInv'
<1>1. Turn("PosixSema", "mod") /\ Pos \in Index
  BY PosType DEF PassIInv, SemaModify, Turn
<1>2. CASE Calls!IsValidIndex(Pos) < 0
  BY <1>1, <1>2, SkipPreserves DEF SemaModify
<1>3. CASE ~(Calls!IsValidIndex(Pos) < 0)
  <2>1. Calls!IsValidIndex(Pos) >= 0
    BY <1>1, <1>3, Accepted DEF PassIInv
  <2>2. CASE ~Calls!IsCall(Pos)
    BY <1>1, <1>3, <2>1, <2>2, OutOfBoundsPreserves DEF SemaModify
  <2>3. CASE Calls!IsCall(Pos) /\ TooFewArgs(CurInst)
    BY <1>1, <1>3, <2>3, SkipPreserves DEF SemaModify
  <2>4. CASE Calls!IsCall(Pos) /\ ~TooFewArgs(CurInst)
    <3>1. /\ \E new \in NewValues(i + 1) : value' = [value EXCEPT ![CurInst] = new]
          /\ Calls!MarkMutated(Pos) /\ modified' = TRUE /\ Goes /\ target' = target
      BY <1>3, <2>4 DEF SemaModify
    <3>2. NewValues(i + 1) \subseteq 0..SemValueMax
      <4>1. cmd.val \in Seq(Nat) /\ i + 1 \in Nat /\ i + 1 >= 1
        BY <1>1, PosType, CommandAssumption DEF PassIInv, Stages, Turn
      <4>2. i + 1 <= Len(cmd.val) => cmd.val[i + 1] \in Nat
        BY <4>1
      <4> QED
        BY <4>1, <4>2, SemAssumption DEF NewValues
    <3> QED
      BY <1>1, <3>1, <3>2, MarkedPreserves
  <2> QED
    BY <2>2, <2>3, <2>4
<1> QED
  BY <1>2, <1>3

\* Looking for the calls: nothing is registered, and the vectors only gain calls
\* whose name matches.
LEMMA SearchPreserves ==
  ASSUME PassIInv, Search
  PROVE  PassIInv'
<1> USE DEF PassIInv
<1>1. pc = "search" /\ UNCHANGED <<target, value, passVars>> /\ NoneChanged
  <2>1. i = 0
    BY DEF Search, Stages
  <2> QED
    BY <2>1, NothingHandled DEF Search
<1>2. SearchNames \subseteq Names
  <2>1. cmd.pass \in Passes
    BY CommandAssumption DEF Stages
  <2> QED
    BY <2>1, SearchAssumption DEF SearchNames, ThreadJoinNames, YieldNames, SearchableNames, Passes
<1>3. P!IInv' /\ UNCHANGED <<live, users, deletedIndices, dangling>>
  <2>1. CASE \E name \in SearchNames \ funcNames : Calls!AddFuncNameToSearch(name)
    BY <1>2, <2>1, ClassSteps, ClassInductive
    DEF Calls!AddFuncNameToSearch, Calls!registryVars, Calls!irVars
  <2>2. CASE Calls!SearchCpp
    BY <2>2, ClassSteps, ClassInductive DEF Calls!SearchCpp, Calls!registryVars, Calls!irVars
  <2>3. CASE Calls!Visit
    BY <2>3, ClassSteps, ClassInductive DEF Calls!Visit, Calls!irVars
  <2> QED
    BY <2>1, <2>2, <2>3 DEF Search
<1>4. Stages' /\ FaultsExplained'
  <2>1. ArgsAccepted'
    BY <1>1, CommandOnly DEF Stages, passVars
  <2> QED
    BY <1>1, <1>3, <2>1 DEF Stages, FaultsExplained, passVars
<1>5. UsesShrink' /\ ErasedByMode' /\ Reported'
  BY <1>1, <1>3, CommandOnly DEF UsesShrink, ErasedByMode, Reported, passVars
<1>6. Registered'
  <2>1. NoneChanged'
    BY <1>1, <1>3 DEF NoneChanged, Changed, passVars
  <2> QED
    BY <1>3, <2>1, NothingRegistered, PTL
<1>7. CallsMatch'
  <2>1. SearchNames' = SearchNames /\ (SearchesCpp' <=> SearchesCpp)
    BY <1>1, CommandOnly DEF passVars
  <2>2. CASE callInsts' = callInsts
    BY <2>1, <2>2 DEF CallsMatch
  <2>3. ASSUME NEW inst, Calls!CheckIfMatch(inst), callInsts' = Append(callInsts, inst),
               funcNames = SearchNames, isCpp = SearchesCpp
        PROVE  CallsMatch'
    <3>1. callInsts \in Seq(Inst \ InvokeInst)
      BY ClassConstants DEF P!IInv, P!TypeOK
    <3>2. \A n \in 1..Len(callInsts') :
            callInsts'[n] = inst \/ (n \in 1..Len(callInsts) /\ callInsts'[n] = callInsts[n])
      BY <2>3, <3>1
    <3>3. (IF SearchesCpp THEN CppName[inst] ELSE RawName[inst]) \in SearchNames
      BY <2>3 DEF Calls!CheckIfMatch
    <3> QED
      BY <2>1, <3>2, <3>3 DEF CallsMatch
  <2>4. CASE \E name \in SearchNames \ funcNames : Calls!AddFuncNameToSearch(name)
    BY <2>2, <2>4 DEF Calls!AddFuncNameToSearch, Calls!registryVars
  <2>5. CASE Calls!SearchCpp
    BY <2>2, <2>5 DEF Calls!SearchCpp, Calls!registryVars
  <2>6. CASE funcNames = SearchNames /\ isCpp = SearchesCpp /\ Calls!Visit
    <3> DEFINE inst == Layout[visited + 1]
    <3>1. CASE Calls!VisitCallInst(inst)
      BY <2>2, <2>3, <2>6, <3>1 DEF Calls!VisitCallInst
    <3>2. CASE Calls!VisitInvokeInst(inst)
      BY <2>2, <3>2 DEF Calls!VisitInvokeInst
    <3> QED
      BY <2>6, <3>1, <3>2 DEF Calls!Visit
  <2> QED
    BY <2>4, <2>5, <2>6 DEF Search
<1> QED
  BY <1>3, <1>4, <1>5, <1>6, <1>7

\* The steps between the stages leave the class alone.
LEMMA StagePreserves ==
  ASSUME PassIInv,
         CheckCommandLineArgs \/ StartLoop \/ FinishLoop \/ UNCHANGED vars
  PROVE  PassIInv'
<1> USE DEF PassIInv
<1>1. UNCHANGED <<classVars, target, value, cmd, i, fault>>
  BY DEF CheckCommandLineArgs, StartLoop, FinishLoop, vars, passVars
<1>2. P!IInv'
  <2>1. UNCHANGED P!vars
    BY <1>1 DEF classVars, P!vars, P!searchVars, P!registryVars, P!irVars
  <2> QED
    BY <2>1, ClassInductive
<1>3. UsesShrink' /\ CallsMatch' /\ ErasedByMode' /\ FaultsExplained'
  <2>1. UsesShrink' /\ CallsMatch' /\ ErasedByMode'
    BY <1>1, CommandOnly DEF UsesShrink, CallsMatch, ErasedByMode, classVars
  <2>2. Mode' = Mode /\ Handled' = Handled
    BY <1>1, CommandOnly DEF Handled
  <2>3. Calls!Size' = Calls!Size /\ \A index : Calls!InstAt(index)' = Calls!InstAt(index)
    BY <1>1, VectorsOnly DEF classVars
  <2>4. /\ UNCHANGED <<callInsts, cmd, fault>>
        /\ \A flag : Given(flag)' <=> Given(flag)
    BY <1>1 DEF classVars, Given
  <2>5. FaultsExplained'
    BY <2>2, <2>3, <2>4 DEF FaultsExplained, IsStdThreadJoin
  <2> QED
    BY <2>1, <2>5
<1>4. Registered'
  <2>1. Handled' = Handled /\ \A inst : Changed(inst)' <=> Changed(inst)
    BY <1>1 DEF Handled, Changed, classVars
  <2> QED
    BY <1>1, <2>1, VectorsOnly DEF Registered, RegistryExact, classVars
<1>5. Stages' /\ Reported'
  <2>1. (ArgsAccepted' <=> ArgsAccepted) /\ cmd' = cmd
    BY <1>1, CommandOnly
  <2>2. CASE CheckCommandLineArgs
    BY <1>1, <2>1, <2>2 DEF CheckCommandLineArgs, Stages, Reported, classVars
  <2>3. CASE StartLoop
    <3>1. deletedIndices = {}
      BY <2>3, NothingHandled DEF StartLoop, Stages, NoneChanged
    <3>2. modified' \in BOOLEAN /\ (cmd.pass # "PosixYield" => modified' = FALSE)
      BY <2>3 DEF StartLoop
    <3> QED
      BY <1>1, <2>1, <2>3, <3>1, <3>2 DEF StartLoop, Stages, Reported, classVars
  <2>4. CASE FinishLoop
    BY <1>1, <2>1, <2>4 DEF FinishLoop, Stages, Reported, classVars
  <2>5. CASE UNCHANGED vars
    BY <1>1, <2>1, <2>5 DEF vars, passVars, Stages, Reported, classVars
  <2> QED
    BY <2>2, <2>3, <2>4, <2>5
<1> QED
  BY <1>2, <1>3, <1>4, <1>5

\* The verbose listing follows a pointer to erased memory only after PosixJoin
\* or PosixCondSignal erased a call.
LEMMA PrintPreserves ==
  ASSUME PassIInv, PrintResult
  PROVE  PassIInv'
<1> USE DEF PassIInv
<1>1. /\ UNCHANGED <<funcNames, isCpp, visited, callInsts, invokeInsts, deletedIndices,
                     live, users, tail, last, target, value, cmd, i, modified>>
      /\ pc = "ran" /\ dangling = {}
  BY DEF PrintResult, Stages
<1>2. dangling' \subseteq {"printInstDebugInfo"}
  BY <1>1 DEF PrintResult, Calls!Follow
<1>3. P!IInv'
  <2>1. P!PointersDistinct' /\ P!DeletedInRange' /\ P!ErasedIsDeleted' /\ P!NoUseOfErased'
        /\ P!TailShape'
    BY <1>1 DEF P!IInv, P!PointersDistinct, P!DeletedInRange, P!ErasedIsDeleted,
       P!NoUseOfErased, P!TailShape, P!Size, P!InstAt, P!IsCall
  <2>2. P!TypeOK' /\ P!MutatorsNeverDangle'
    BY <1>1, <1>2 DEF P!IInv, P!TypeOK, P!MutatorsNeverDangle
  <2> QED
    BY <2>1, <2>2 DEF P!IInv
<1>4. Stages'
  <2>1. ArgsAccepted'
    BY <1>1, CommandOnly DEF Stages
  <2> QED
    BY <1>1, <2>1 DEF Stages, PrintResult
<1>5. UsesShrink' /\ CallsMatch' /\ ErasedByMode' /\ Reported'
  BY <1>1, CommandOnly DEF UsesShrink, CallsMatch, ErasedByMode, Reported
<1>6. Registered'
  <2>1. Handled' = Handled /\ \A inst : Changed(inst)' <=> Changed(inst)
    BY <1>1 DEF Handled, Changed
  <2> QED
    BY <1>1, <2>1, VectorsOnly DEF Registered, RegistryExact
<1>7. FaultsExplained'
  <2>1. CASE dangling' = {}
    BY <2>1 DEF PrintResult, FaultsExplained
  <2>2. CASE dangling' # {}
    <3>1. Given("verbose") /\ ~(Listed \subseteq live) /\ fault' = "dangling"
      BY <1>1, <2>2 DEF PrintResult, Calls!Follow
    <3>2. callInsts \in Seq(Inst) /\ invokeInsts \in Seq(Inst)
      BY ClassConstants DEF P!IInv, P!TypeOK
    <3>3. live # Inst
      <4>1. Listed \subseteq Inst
        BY <3>2 DEF Listed
      <4> QED
        BY <3>1, <4>1
    <3>4. cmd.pass \in {"PosixJoin", "PosixCondSignal"}
      <4>1. Erases /\ ArgsAccepted /\ cmd.pass \in Passes
        BY <1>1, <3>3, CommandAssumption DEF ErasedByMode, Stages
      <4> QED
        BY <3>1, <4>1
        DEF Erases, Mode, ArgsAccepted, ThreadJoinArgs, YieldArgs, Passes
    <3>5. \E pos \in Handled : pos < Len(callInsts)
      <4>1. PICK n \in 1..Len(callInsts) : callInsts[n] \notin live
        BY <3>1, <3>4 DEF Listed
      <4>2. Len(callInsts) \in Nat /\ Len(invokeInsts) \in Nat
        BY <3>2
      <4>3. n - 1 \in 0..(Calls!Size - 1) /\ n - 1 < Len(callInsts) /\ (n - 1) + 1 = n
        BY <4>1, <4>2 DEF Calls!Size
      <4>4. Calls!InstAt(n - 1) = callInsts[n]
        BY <4>3, InstAtInst
      <4>5. n - 1 \in deletedIndices
        BY <4>1, <4>3, <4>4, SameProperties DEF P!IInv, Calls!ErasedIsDeleted
      <4> QED
        BY <4>3, <4>5 DEF Registered
    <3>6. /\ Handled' = Handled /\ callInsts' = callInsts /\ cmd' = cmd
          /\ Given("verbose")'
      BY <1>1, <3>1 DEF Handled, Given
    <3> QED
      BY <3>1, <3>4, <3>5, <3>6 DEF FaultsExplained
  <2> QED
    BY <2>1, <2>2
<1> QED
  BY <1>3, <1>4, <1>5, <1>6, <1>7

-----------------------------------------------------------------------------
(* The theorems *)

LEMMA InitPassIInv == Init => PassIInv
<1> SUFFICES ASSUME Init PROVE PassIInv
  OBVIOUS
<1>1. P!IInv
  BY ClassInductive DEF Init
<1>2. /\ live = Inst /\ users = InitUsers /\ deletedIndices = {} /\ dangling = {}
      /\ callInsts = <<>>
  BY ClassConstants DEF Init, Calls!Init
<1>3. Stages /\ FaultsExplained
  <2>1. i \in 0..Len(cmd.pos)
    BY CommandAssumption DEF Init
  <2>2. target \in [Inst -> Names \union {Indirect, "nothing", "sleep"}]
    BY NameAssumption DEF Init
  <2> QED
    BY <1>2, <2>1, <2>2 DEF Init, Stages, FaultsExplained
<1>4. UsesShrink /\ CallsMatch /\ ErasedByMode /\ Reported
  BY <1>2 DEF Init, UsesShrink, CallsMatch, ErasedByMode, Reported
<1>5. Registered
  BY <1>1, <1>2, NothingRegistered DEF NoneChanged, Changed, Init
<1> QED
  BY <1>1, <1>3, <1>4, <1>5 DEF PassIInv

LEMMA NextPassIInv == PassIInv /\ [Next]_vars => PassIInv'
<1> SUFFICES ASSUME PassIInv, [Next]_vars PROVE PassIInv'
  OBVIOUS
<1>1. CASE CheckCommandLineArgs \/ StartLoop \/ FinishLoop
  BY <1>1, StagePreserves
<1>2. CASE Search
  BY <1>2, SearchPreserves
<1>3. CASE RemoveThreadJoin \/ RemovePosixJoin \/ RemoveCondSignal
  BY <1>3, RemovePreserves DEF RemoveThreadJoin, RemovePosixJoin, RemoveCondSignal
<1>4. CASE RemoveYield
  BY <1>4, RemoveYieldPreserves
<1>5. CASE PosixJoinReplace
  BY <1>5, PosixJoinReplacePreserves
<1>6. CASE ThreadJoinReplace
  BY <1>6, ThreadJoinReplacePreserves
<1>7. CASE CondSignalReplace
  BY <1>7, CondSignalReplacePreserves
<1>8. CASE SemaModify
  BY <1>8, SemaModifyPreserves
<1>9. CASE PrintResult
  BY <1>9, PrintPreserves
<1>10. CASE Terminated \/ UNCHANGED vars
  BY <1>10, StagePreserves DEF Terminated
<1> QED
  BY <1>1, <1>2, <1>3, <1>4, <1>5, <1>6, <1>7, <1>8, <1>9, <1>10 DEF Next

\* The inductive invariant of the passes holds throughout.
THEOREM PassInvariance == Spec => []PassIInv
  BY InitPassIInv, NextPassIInv, PTL DEF Spec

\* Type correctness; no permit count ever exceeds SEM_VALUE_MAX.
THEOREM TypeCorrect == Spec => []TypeOK
<1>1. PassIInv => TypeOK
  BY SameProperties DEF PassIInv, P!IInv, Stages, TypeOK
<1> QED
  BY <1>1, PassInvariance, PTL

\* Every undefined operation of the passes has one of the causes listed.
THEOREM FaultsAreExplained == Spec => []FaultsExplained
<1>1. PassIInv => FaultsExplained
  BY DEF PassIInv
<1> QED
  BY <1>1, PassInvariance, PTL

\* deletedIndices tells exactly what the pass changed in the module.
THEOREM RegistryIsExact == Spec => []RegistryExact
<1>1. PassIInv => RegistryExact
  BY DEF PassIInv, Registered
<1> QED
  BY <1>1, PassInvariance, PTL

\* What runOnModule returns tells whether the module was changed.
THEOREM ChangesAreReported == Spec => []ReportsChanges
<1>1. PassIInv => ReportsChanges
  <2> SUFFICES ASSUME PassIInv PROVE ReportsChanges
    OBVIOUS
  <2>1. (\E inst \in Inst : Changed(inst)) => deletedIndices # {}
    BY DEF PassIInv, Registered
  <2>2. deletedIndices # {} => \E inst \in Inst : Changed(inst)
    <3>1. deletedIndices \subseteq 0..(Calls!Size - 1)
      BY SameOperators DEF PassIInv, P!IInv, P!DeletedInRange
    <3> QED
      BY <3>1, InstAtInst DEF PassIInv, Registered, RegistryExact
  <2> QED
    BY <2>1, <2>2 DEF PassIInv, Reported, ReportsChanges
<1> QED
  BY <1>1, PassInvariance, PTL

\* The class's invariants survive the pass that edits a block behind its back.
THEOREM ClassInvariantsHold == Spec => []ClassInvariantsKept
<1>1. PassIInv => ClassInvariantsKept
  BY ClassInductive, SameProperties DEF PassIInv, P!IInv, ClassInvariantsKept
<1> QED
  BY <1>1, PassInvariance, PTL
-----------------------------------------------------------------------------
(* What each position leads to after every turn of a loop *)

\* PosixYield erases calls that use nothing, so the others keep all their users.
UsersKept == cmd.pass = "PosixYield" => \A inst \in live : users[inst] = InitUsers[inst]

\* MutatedExactly after every turn, not only at the end
AskedSoFar ==
  pc \in {"loop", "ran", "done"} /\ Mode # "find" =>
    \A index \in 0..(Calls!Size - 1) : AsAsked(index)

\* What a position asks for depends on the command line and the two vectors.
LEMMA AskedOnly ==
  ASSUME UNCHANGED <<cmd, callInsts, invokeInsts>>
  PROVE  \A index : /\ Takes(index)' <=> Takes(index)
                    /\ FirstTime(index)' = FirstTime(index)
                    /\ NewValues(index)' = NewValues(index)
<1>1. \A index : Calls!InstAt(index)' = Calls!InstAt(index)
  BY VectorsOnly
<1>2. Mode' = Mode
  BY CommandOnly
<1> SUFFICES ASSUME NEW index
             PROVE  /\ Takes(index)' <=> Takes(index)
                    /\ FirstTime(index)' = FirstTime(index)
                    /\ NewValues(index)' = NewValues(index)
  OBVIOUS
<1>3. FirstTime(index)' = FirstTime(index) /\ NewValues(index)' = NewValues(index)
  BY DEF FirstTime, NewValues
<1>4. Takes(index)' <=> Takes(index)
  BY <1>1, <1>2 DEF Takes, TooFewArgs, Calls!IsCall
<1> QED
  BY <1>3, <1>4

\* A position whose occurrence did not change, and that is handled as before
LEMMA AskedKeeps ==
  ASSUME UNCHANGED <<cmd, callInsts, invokeInsts>>, NEW index, AsAsked(index),
         index \in Handled' /\ Takes(index) <=> index \in Handled /\ Takes(index),
         target'[Calls!InstAt(index)] = target[Calls!InstAt(index)],
         value'[Calls!InstAt(index)] = value[Calls!InstAt(index)],
         Calls!InstAt(index) \in live' <=> Calls!InstAt(index) \in live
  PROVE  AsAsked(index)'
<1>1. Calls!InstAt(index)' = Calls!InstAt(index) /\ Mode' = Mode
  BY VectorsOnly, CommandOnly
<1>2. /\ Takes(index)' <=> Takes(index)
      /\ NewValues(FirstTime(index))' = NewValues(FirstTime(index))
  BY AskedOnly DEF NewValues
<1> QED
  BY <1>1, <1>2 DEF AsAsked, Opposite

\* A turn that leaves the module alone does so because the position is beyond the
\* occurrences, was handled before, or is not one the mode takes.
LEMMA LeftAsAsked ==
  ASSUME PassIInv, AskedSoFar, GoesOn, Mode # "find", Left, UNCHANGED <<target, value>>,
         Pos \in 0..(Calls!Size - 1) => Pos \in deletedIndices \/ ~Takes(Pos)
  PROVE  AskedSoFar'
<1>1. UNCHANGED <<cmd, callInsts, invokeInsts, live>> /\ Calls!Size' = Calls!Size
  BY VectorsOnly DEF Left, GoesOn
<1>2. Handled' = Handled \union {Pos} /\ deletedIndices \subseteq Handled
  BY HandledGrows DEF PassIInv, GoesOn, Registered
<1>3. \A index \in 0..(Calls!Size - 1) : AsAsked(index)
  BY DEF AskedSoFar, GoesOn
<1>4. ASSUME NEW index \in 0..(Calls!Size - 1) PROVE AsAsked(index)'
  <2>1. index \in Handled' /\ Takes(index) <=> index \in Handled /\ Takes(index)
    BY <1>2
  <2> QED
    BY <1>1, <1>3, <2>1, AskedKeeps
<1> QED
  BY <1>1, <1>4 DEF AskedSoFar

\* Every set of natural numbers that is not empty has a least element.
LEMMA LeastNumber ==
  ASSUME NEW S \in SUBSET Nat, S # {}
  PROVE  \E m \in S : \A o \in S : m <= o
<1> DEFINE less == OpToRel(<, Nat)
<1>1. \A x, y \in Nat : y < x => <<y, x>> \in less
  BY DEF OpToRel
<1>2. IsWellFoundedOn(less, Nat)
  BY NatLessThanWellFounded
<1> HIDE DEF less
<1>3. PICK m \in S : \A o \in S : <<o, m>> \notin less
  BY <1>2, WFMin
<1>4. \A o \in S : o \in Nat /\ m \in Nat /\ ~(o < m)
  BY <1>1, <1>3
<1> QED
  BY <1>4

\* The first time a position is named
LEMMA FirstTimeFacts ==
  ASSUME NEW index, NEW m \in 1..Len(cmd.pos), Len(cmd.pos) \in Nat, cmd.pos[m] = index
  PROVE  /\ FirstTime(index) \in 1..Len(cmd.pos)
         /\ (\A o \in 1..(m - 1) : cmd.pos[o] # index) => FirstTime(index) = m
<1> DEFINE S == {o \in 1..Len(cmd.pos) : cmd.pos[o] = index}
           IsFirst(f) == cmd.pos[f] = index /\ \A o \in 1..(f - 1) : cmd.pos[o] # index
<1>1. S \in SUBSET Nat /\ S # {}
  OBVIOUS
<1>2. PICK f \in S : \A o \in S : f <= o
  BY <1>1, LeastNumber
<1>3. f \in 1..Len(cmd.pos) /\ IsFirst(f)
  BY <1>2
<1>4. FirstTime(index) \in 1..Len(cmd.pos) /\ IsFirst(FirstTime(index))
  BY <1>3 DEF FirstTime
<1>5. \A a, b \in 1..Len(cmd.pos) : IsFirst(a) /\ IsFirst(b) => a = b
  <2> SUFFICES ASSUME NEW a \in 1..Len(cmd.pos), NEW b \in 1..Len(cmd.pos), IsFirst(a), IsFirst(b)
               PROVE  a = b
    OBVIOUS
  <2>1. ~(a \in 1..(b - 1)) /\ ~(b \in 1..(a - 1))
    OBVIOUS
  <2> QED
    BY <2>1
<1>6. (\A o \in 1..(m - 1) : cmd.pos[o] # index) => IsFirst(m)
  OBVIOUS
<1> QED
  BY <1>4, <1>5, <1>6

\* A permit count is a number up to SEM_VALUE_MAX.
LEMMA NewValuesType ==
  ASSUME Stages, NEW m \in Nat \ {0}
  PROVE  NewValues(m) \subseteq 0..SemValueMax
<1>1. cmd.val \in Seq(Nat)
  BY CommandAssumption DEF Stages
<1>2. m <= Len(cmd.val) => cmd.val[m] \in Nat
  BY <1>1
<1> QED
  BY <1>1, <1>2, SemAssumption DEF NewValues

\* A mutated occurrence is registered, so one that a mode takes and that is not
\* registered was not named before.
LEMMA NotNamedBefore ==
  ASSUME PassIInv, AskedSoFar, pc = "loop", Mode # "find",
         NEW index \in 0..(Calls!Size - 1), index \notin deletedIndices, Takes(index)
  PROVE  index \notin Handled
<1> SUFFICES ASSUME index \in Handled PROVE FALSE
  OBVIOUS
<1> DEFINE inst == Calls!InstAt(index)
<1>1. ~Changed(inst)
  BY DEF PassIInv, Registered, RegistryExact
<1>2. AsAsked(index)
  BY DEF AskedSoFar
<1> HIDE DEF inst
<1>3. inst \in live /\ target[inst] = RawName[inst] /\ value[inst] = Kept
  BY <1>1 DEF Changed
<1>4. CASE Mode = "mod"
  <2>1. Kept \in NewValues(FirstTime(index))
    BY <1>2, <1>3, <1>4 DEF AsAsked, inst
  <2>2. PICK m \in 1..i : cmd.pos[m] = index
    BY DEF Handled
  <2>3. m \in 1..Len(cmd.pos) /\ Len(cmd.pos) \in Nat
    BY <2>2, CommandAssumption DEF PassIInv, Stages
  <2>4. FirstTime(index) \in Nat \ {0}
    BY <2>2, <2>3, FirstTimeFacts
  <2>5. Kept \in 0..SemValueMax
    BY <2>1, <2>4, NewValuesType DEF PassIInv
  <2> QED
    BY <2>5, SemAssumption
<1>5. CASE Mode # "mod"
  <2>1. Mode \in {"rm", "rep"}
    BY <1>5 DEF Mode
  <2>2. \A name : Opposite(name) # name
    BY DEF Opposite
  <2> QED
    BY <1>2, <1>3, <1>5, <2>1, <2>2 DEF AsAsked, inst
<1> QED
  BY <1>4, <1>5
\* What the mode makes of the occurrence it takes
TakenAsAsked ==
  /\ target'[CurInst] = IF Mode = "mod" THEN RawName[CurInst]
                        ELSE IF Mode = "rm" THEN "nothing"
                        ELSE IF cmd.pass = "PosixCondSignal" THEN Opposite(RawName[CurInst])
                        ELSE "sleep"
  /\ IF Mode = "mod" THEN value'[CurInst] \in NewValues(i + 1) ELSE value'[CurInst] = Kept
  /\ CurInst \in live' <=> Mode = "mod" \/ (cmd.pass = "PosixCondSignal" /\ Mode = "rep")

\* A turn that takes the position
LEMMA TookAsAsked ==
  ASSUME PassIInv, AskedSoFar, GoesOn, Mode # "find", NEW gone, Took(Pos, gone), Takes(Pos),
         \A inst \in Inst \ {CurInst} : target'[inst] = target[inst] /\ value'[inst] = value[inst],
         TakenAsAsked
  PROVE  AskedSoFar'
<1>1. /\ UNCHANGED <<cmd, callInsts, invokeInsts>> /\ Calls!Size' = Calls!Size
      /\ live' = live \ gone /\ gone \subseteq {CurInst} /\ CurInst = Calls!InstAt(Pos)
      /\ Pos \in 0..(Calls!Size - 1) /\ Pos \notin deletedIndices
      /\ pc = "loop" /\ i < Len(cmd.pos)
  BY VectorsOnly DEF Took, GoesOn, CurInst
<1>2. Handled' = Handled \union {Pos}
  BY HandledGrows DEF PassIInv, GoesOn
<1>3. \A index \in 0..(Calls!Size - 1) : AsAsked(index)
  BY DEF AskedSoFar, GoesOn
<1>4. ASSUME NEW index \in 0..(Calls!Size - 1), index # Pos PROVE AsAsked(index)'
  <2>1. Calls!InstAt(index) \in Inst \ {CurInst}
    BY <1>1, <1>4, InstAtInst, Injective DEF PassIInv
  <2>2. index \in Handled' /\ Takes(index) <=> index \in Handled /\ Takes(index)
    BY <1>2, <1>4
  <2>3. Calls!InstAt(index) \in live' <=> Calls!InstAt(index) \in live
    BY <1>1, <2>1
  <2> QED
    BY <1>1, <1>3, <2>1, <2>2, <2>3, AskedKeeps
<1>5. ASSUME NEW index \in 0..(Calls!Size - 1), index = Pos PROVE AsAsked(index)'
  <2>1. Pos \notin Handled
    BY <1>1, NotNamedBefore
  <2>2. FirstTime(Pos) = i + 1
    <3>1. i + 1 \in 1..Len(cmd.pos) /\ i \in Nat /\ Len(cmd.pos) \in Nat
      BY <1>1, PosType, CommandAssumption DEF PassIInv, Stages
    <3>2. \A o \in 1..((i + 1) - 1) : cmd.pos[o] # Pos
      BY <2>1, <3>1 DEF Handled
    <3> QED
      BY <3>1, <3>2, FirstTimeFacts DEF Pos
  <2>3. PICK turn \in Nat : turn = i + 1
    BY <1>1, PosType DEF PassIInv
  <2>4. index \in Handled' /\ Takes(index)' /\ FirstTime(index)' = turn /\ Mode' = Mode
        /\ Calls!InstAt(index)' = Calls!InstAt(index) /\ cmd' = cmd
    BY <1>1, <1>2, <1>5, <2>2, <2>3, AskedOnly, CommandOnly, VectorsOnly
  <2>5. /\ Calls!InstAt(index) = CurInst
        /\ NewValues(FirstTime(index))' = NewValues(i + 1)
    BY <1>1, <1>5, <2>3, <2>4 DEF NewValues
  <2> QED
    BY <2>4, <2>5 DEF AsAsked, TakenAsAsked, Opposite
<1> QED
  BY <1>1, <1>4, <1>5 DEF AskedSoFar
\* A position in range that isValidIndex refuses is registered.
LEMMA Refused ==
  ASSUME PassIInv, Calls!IsValidIndex(Pos) < 0, Pos \in 0..(Calls!Size - 1)
  PROVE  Pos \in deletedIndices
<1>1. ~(Pos >= Calls!Size)
  <2>1. Calls!Size \in Nat
    BY DEF PassIInv, P!IInv, P!TypeOK, Calls!Size
  <2> QED
    BY <2>1
<1> QED
  BY <1>1 DEF Calls!IsValidIndex

LEMMA SkipAsAsked ==
  ASSUME PassIInv, AskedSoFar, NEW pass, NEW mode, mode # "find", Turn(pass, mode),
         NEW query, Skips(query),
         Calls!IsValidIndex(Pos) < 0 \/ ~Takes(Pos)
  PROVE  AskedSoFar'
<1>1. Pos \in Index
  BY PosType DEF PassIInv, Turn
<1>2. Left
  BY <1>1, QueryEffect DEF PassIInv, Skips
<1>3. Pos \in 0..(Calls!Size - 1) => Pos \in deletedIndices \/ ~Takes(Pos)
  BY Refused
<1> QED
  BY <1>2, <1>3, LeftAsAsked DEF Turn, Skips, GoesOn

\* Whatever erases the occurrence, as a mode does that is not -mod
LEMMA ErasedAsAsked ==
  ASSUME PassIInv, AskedSoFar, NEW pass, NEW mode \in {"rm", "rep"}, Turn(pass, mode),
         pass = "PosixCondSignal" => mode = "rm",
         Took(Pos, {CurInst}), last'.ret = 0,
         Place(IF mode = "rm" THEN "nothing" ELSE "sleep"),
         Goes, value' = value, Takes(Pos)
  PROVE  AskedSoFar'
<1>1. GoesOn /\ Mode = mode /\ cmd.pass = pass /\ pc = "loop"
  BY DEF Turn, GoesOn
<1>2. /\ CurInst \in Inst /\ live' = live \ {CurInst} /\ Pos \in 0..(Calls!Size - 1)
      /\ Pos \notin deletedIndices /\ CurInst = Calls!InstAt(Pos)
  BY DEF Took, CurInst
<1>3. target' = [target EXCEPT ![CurInst] = IF mode = "rm" THEN "nothing" ELSE "sleep"]
  BY DEF Place
<1>4. target \in [Inst -> Names \union {Indirect, "nothing", "sleep"}]
  BY DEF PassIInv, Stages
<1>5. /\ target'[CurInst] = IF mode = "rm" THEN "nothing" ELSE "sleep"
      /\ \A inst \in Inst \ {CurInst} : target'[inst] = target[inst]
  BY <1>2, <1>3, <1>4
<1>6. value[CurInst] = Kept
  BY <1>2 DEF PassIInv, Registered, RegistryExact, Changed
<1>7. TakenAsAsked
  BY <1>1, <1>2, <1>5, <1>6 DEF TakenAsAsked
<1> QED
  BY <1>1, <1>5, <1>7, TookAsAsked

\* The modes that take whatever valid position they are given
LEMMA TakesAll ==
  ASSUME \/ Mode = "rm" /\ cmd.pass \in {"ThreadJoin", "PosixJoin", "PosixCondSignal"}
         \/ Mode = "rep" /\ cmd.pass = "ThreadJoin",
         NEW index
  PROVE  Takes(index)
  BY DEF Takes

LEMMA RemoveAsAsked ==
  ASSUME PassIInv, AskedSoFar, NEW pass \in {"ThreadJoin", "PosixJoin", "PosixCondSignal"},
         Remove(pass)
  PROVE  AskedSoFar'
<1>1. Pos \in Index /\ Turn(pass, "rm") /\ Goes /\ value' = value /\ Place("nothing")
      /\ Mode = "rm" /\ cmd.pass = pass
  BY PosType DEF PassIInv, Remove, Turn
<1>2. CASE Calls!RemoveFromParentRepZero(Pos)
  <2>1. Took(Pos, {CurInst}) /\ last'.ret = 0
    BY <1>1, <1>2, RemoveEffect DEF PassIInv, CurInst
  <2> QED
    BY <1>1, <2>1, TakesAll, ErasedAsAsked
<1>3. CASE Calls!Refuse("removeFromParentRepZero", Pos)
  <2>1. Left /\ last'.ret \in {-1, -2}
    BY <1>1, <1>3, RefuseEffect DEF PassIInv
  <2>2. target' = target
    BY <1>1, <2>1 DEF Place
  <2>3. Pos \in 0..(Calls!Size - 1) => Pos \in deletedIndices
    BY <1>3, Refused DEF Calls!Refuse
  <2> QED
    BY <1>1, <2>1, <2>2, <2>3, LeftAsAsked DEF Turn, GoesOn
<1> QED
  BY <1>2, <1>3 DEF Remove

\* removeFromParent erases a call nothing uses: by UsersKept one nothing ever used.
LEMMA RemoveYieldAsAsked ==
  ASSUME PassIInv, UsersKept, AskedSoFar, RemoveYield
  PROVE  AskedSoFar'
<1>1. Pos \in Index /\ Turn("PosixYield", "rm") /\ Goes /\ value' = value /\ Place("nothing")
      /\ Mode = "rm" /\ cmd.pass = "PosixYield"
  BY PosType DEF PassIInv, RemoveYield, Turn
<1>2. /\ Takes(Pos) <=> Calls!IsCall(Pos) /\ InitUsers[CurInst] = {}
  BY <1>1 DEF Takes, CurInst
<1>3. CASE Calls!RemoveFromParent(Pos)
  <2>1. Took(Pos, {CurInst}) /\ last'.ret = 0
    BY <1>1, <1>3, RemoveEffect DEF PassIInv, CurInst
  <2>2. Pos < Len(callInsts) /\ callInsts[Pos + 1] = CurInst
    BY <1>1, <1>3, Accepted DEF Calls!RemoveFromParent, PassIInv, CurInst
  <2>3. users[CurInst] = {} /\ CurInst \in live
    BY <1>3, <2>1, <2>2 DEF Calls!RemoveFromParent, Took, CurInst
  <2>4. Takes(Pos)
    BY <1>1, <1>2, <2>2, <2>3 DEF UsersKept, Calls!IsCall
  <2> QED
    BY <1>1, <2>1, <2>4, ErasedAsAsked
<1>4. ASSUME Left /\ last'.ret # 0,
             Pos \in 0..(Calls!Size - 1) => Pos \in deletedIndices \/ ~Takes(Pos)
      PROVE  AskedSoFar'
  <2>1. target' = target
    BY <1>1, <1>4 DEF Place
  <2> QED
    BY <1>1, <1>4, <2>1, LeftAsAsked DEF Turn, GoesOn
<1>5. CASE Calls!RemoveFromParentDeclines(Pos)
  <2>1. Left /\ last'.ret # 0
    BY <1>1, <1>5, DeclineEffect DEF PassIInv
  <2>2. CASE Calls!IsValidIndex(Pos) = 1
    BY <1>2, <1>4, <2>1, <2>2 DEF Calls!IsValidIndex
  <2>3. CASE Calls!IsValidIndex(Pos) = 0 /\ users[callInsts[Pos + 1]] # {}
    <3>1. Pos < Len(callInsts) /\ callInsts[Pos + 1] = CurInst /\ CurInst \in Inst
      BY <1>1, <2>3, Accepted DEF PassIInv, CurInst
    <3>2. InitUsers[CurInst] # {}
      BY <2>3, <3>1 DEF PassIInv, UsesShrink
    <3> QED
      BY <1>2, <1>4, <2>1, <3>2
  <2> QED
    BY <1>5, <2>2, <2>3 DEF Calls!RemoveFromParentDeclines
<1>6. CASE Calls!Refuse("removeFromParent", Pos)
  <2>1. Left /\ last'.ret # 0
    BY <1>1, <1>6, RefuseEffect DEF PassIInv
  <2> QED
    BY <1>4, <1>6, <2>1, Refused DEF Calls!Refuse
<1> QED
  BY <1>3, <1>5, <1>6 DEF RemoveYield

LEMMA SleepAsAsked ==
  ASSUME PassIInv, AskedSoFar, NEW pass \in {"ThreadJoin", "PosixJoin"}, Turn(pass, "rep"),
         ReplaceBySleep, Takes(Pos)
  PROVE  AskedSoFar'
<1>1. Pos \in Index
  BY PosType DEF PassIInv, Turn
<1>2. Took(Pos, {CurInst}) /\ last'.ret = 0
  BY <1>1, RemoveEffect DEF PassIInv, CurInst, ReplaceBySleep
<1> QED
  BY <1>2, ErasedAsAsked DEF ReplaceBySleep

LEMMA PosixJoinReplaceAsAsked ==
  ASSUME PassIInv, AskedSoFar, PosixJoinReplace
  PROVE  AskedSoFar'
<1>1. Turn("PosixJoin", "rep") /\ Mode = "rep" /\ cmd.pass = "PosixJoin"
  BY DEF PosixJoinReplace, Turn
<1>2. Takes(Pos) <=> Calls!IsCall(Pos)
  BY <1>1 DEF Takes
<1>3. CASE Calls!IsValidIndex(Pos) = 0
  <2>1. Takes(Pos)
    BY <1>2, <1>3 DEF Calls!IsValidIndex
  <2> QED
    BY <1>1, <1>3, <2>1, SleepAsAsked DEF PosixJoinReplace
<1>4. CASE Calls!IsValidIndex(Pos) # 0
  <2>1. Calls!IsValidIndex(Pos) < 0 \/ ~Takes(Pos)
    BY <1>2, <1>4 DEF Calls!IsValidIndex
  <2> QED
    BY <1>1, <1>4, <2>1, SkipAsAsked DEF PosixJoinReplace
<1> QED
  BY <1>3, <1>4
\* After an undefined operation nothing is asked for.
LEMMA BreakAsAsked ==
  ASSUME NEW kind, Breaks(kind)
  PROVE  AskedSoFar'
  BY DEF Breaks, AskedSoFar

LEMMA ThreadJoinReplaceAsAsked ==
  ASSUME PassIInv, AskedSoFar, ThreadJoinReplace
  PROVE  AskedSoFar'
<1>1. Turn("ThreadJoin", "rep") /\ Pos \in Index /\ Takes(Pos)
  BY PosType, TakesAll DEF PassIInv, ThreadJoinReplace, Turn
<1>2. CASE Calls!IsValidIndex(Pos) < 0
  BY <1>1, <1>2, SkipAsAsked DEF ThreadJoinReplace
<1>3. CASE ~(Calls!IsValidIndex(Pos) < 0) /\ ~IsStdThreadJoin(CurInst)
  BY <1>1, <1>3, SleepAsAsked DEF ThreadJoinReplace
<1>4. CASE ~(Calls!IsValidIndex(Pos) < 0) /\ IsStdThreadJoin(CurInst)
  <2>1. ReplaceCppJoin
    BY <1>4 DEF ThreadJoinReplace
  <2>2. Calls!IsValidIndex(Pos) >= 0
    BY <1>1, <1>4, Accepted DEF PassIInv
  <2>3. CASE Calls!IsCall(Pos)
    BY <2>1, <2>3, BreakAsAsked DEF ReplaceCppJoin
  <2>4. CASE ~Calls!IsCall(Pos)
    <3>1. CurInst = Calls!InstAt(Pos) /\ CurInst \in Inst
      BY <1>1, <2>2, Accepted DEF PassIInv, CurInst
    <3>2. users[CurInst] = {}
      <4>1. InitUsers[CurInst] = {}
        BY <1>4, <3>1, VoidAssumption DEF IsStdThreadJoin
      <4> QED
        BY <3>1, <4>1 DEF PassIInv, UsesShrink
    <3>3. visited = Len(Layout) /\ dangling = {}
      BY <1>1 DEF PassIInv, Stages, Turn
    <3>4. Took(Pos, {CurInst}) /\ last'.ret = 0
      BY <1>1, <2>1, <2>2, <2>4, <3>1, <3>2, <3>3, CppJoinEffect DEF PassIInv, ReplaceCppJoin
    <3>5. Place("sleep") /\ Goes /\ value' = value
      BY <2>1, <2>4 DEF ReplaceCppJoin
    <3> QED
      BY <1>1, <3>4, <3>5, ErasedAsAsked
  <2> QED
    BY <2>3, <2>4
<1> QED
  BY <1>2, <1>3, <1>4

LEMMA CondSignalReplaceAsAsked ==
  ASSUME PassIInv, AskedSoFar, CondSignalReplace
  PROVE  AskedSoFar'
<1>1. /\ Mode = "rep" /\ cmd.pass = "PosixCondSignal"
      /\ Turn("PosixCondSignal", "rep") /\ Pos \in Index
  BY PosType DEF PassIInv, CondSignalReplace, Turn
<1>2. Takes(Pos) <=> Args[CurInst] >= 1
  BY <1>1 DEF Takes, CurInst
<1>3. CASE Calls!IsValidIndex(Pos) < 0
  BY <1>1, <1>3, SkipAsAsked DEF CondSignalReplace
<1>4. CASE ~(Calls!IsValidIndex(Pos) < 0)
  <2>1. Calls!IsValidIndex(Pos) >= 0
    BY <1>1, <1>4, Accepted DEF PassIInv
  <2>2. ~Changed(CurInst) /\ CurInst \in Inst /\ Args[CurInst] \in Nat
    BY <1>1, <2>1, NotYetChanged, ArgsAssumption
  <2>3. CASE ~Calls!IsCall(Pos)
    BY <1>4, <2>3, BreakAsAsked DEF CondSignalReplace
  <2>4. CASE Calls!IsCall(Pos) /\ Args[CurInst] < 1
    <3>1. ~Takes(Pos)
      BY <1>2, <2>2, <2>4
    <3> QED
      BY <1>1, <1>4, <2>4, <3>1, SkipAsAsked DEF CondSignalReplace
  <2>5. CASE Calls!IsCall(Pos) /\ ~(Args[CurInst] < 1)
    <3>1. /\ target' = [target EXCEPT ![CurInst] = Opposite(target[CurInst])]
          /\ Calls!MarkMutated(Pos) /\ Goes /\ value' = value
      BY <1>4, <2>5 DEF CondSignalReplace
    <3>2. Took(Pos, {}) /\ Takes(Pos)
      BY <1>1, <1>2, <2>2, <2>5, <3>1, MarkEffect DEF PassIInv
    <3>3. target[CurInst] = RawName[CurInst] /\ value[CurInst] = Kept /\ CurInst \in live
      BY <2>2 DEF Changed
    <3>4. target \in [Inst -> Names \union {Indirect, "nothing", "sleep"}]
      BY DEF PassIInv, Stages
    <3>5. /\ target'[CurInst] = Opposite(RawName[CurInst])
          /\ \A inst \in Inst \ {CurInst} : target'[inst] = target[inst]
      BY <2>2, <3>1, <3>3, <3>4
    <3>6. TakenAsAsked
      BY <1>1, <3>1, <3>2, <3>3, <3>5 DEF TakenAsAsked, Took
    <3>7. GoesOn
      BY <1>1, <3>1 DEF Turn, GoesOn
    <3> QED
      BY <1>1, <3>1, <3>2, <3>5, <3>6, <3>7, TookAsAsked
  <2> QED
    BY <2>3, <2>4, <2>5
<1> QED
  BY <1>3, <1>4

LEMMA SemaModifyAsAsked ==
  ASSUME PassIInv, AskedSoFar, SemaModify
  PROVE  AskedSoFar'
<1>1. /\ Mode = "mod" /\ cmd.pass = "PosixSema"
      /\ Turn("PosixSema", "mod") /\ Pos \in Index
  BY PosType DEF PassIInv, SemaModify, Turn
<1>2. Takes(Pos) <=> ~TooFewArgs(CurInst)
  BY <1>1 DEF Takes, CurInst
<1>3. CASE Calls!IsValidIndex(Pos) < 0
  BY <1>1, <1>3, SkipAsAsked DEF SemaModify
<1>4. CASE ~(Calls!IsValidIndex(Pos) < 0)
  <2>1. Calls!IsValidIndex(Pos) >= 0
    BY <1>1, <1>4, Accepted DEF PassIInv
  <2>2. ~Changed(CurInst) /\ CurInst \in Inst
    BY <1>1, <2>1, NotYetChanged
  <2>3. CASE ~Calls!IsCall(Pos)
    BY <1>4, <2>3, BreakAsAsked DEF SemaModify
  <2>4. CASE Calls!IsCall(Pos) /\ TooFewArgs(CurInst)
    BY <1>1, <1>2, <1>4, <2>4, SkipAsAsked DEF SemaModify
  <2>5. CASE Calls!IsCall(Pos) /\ ~TooFewArgs(CurInst)
    <3>1. /\ \E new \in NewValues(i + 1) : value' = [value EXCEPT ![CurInst] = new]
          /\ Calls!MarkMutated(Pos) /\ Goes /\ target' = target
      BY <1>4, <2>5 DEF SemaModify
    <3>2. Took(Pos, {}) /\ Takes(Pos)
      BY <1>1, <1>2, <2>5, <3>1, MarkEffect DEF PassIInv
    <3>3. target[CurInst] = RawName[CurInst] /\ CurInst \in live
      BY <2>2 DEF Changed
    <3>4. value \in [Inst -> {Kept} \union 0..SemValueMax]
      BY DEF PassIInv, Stages
    <3>5. /\ value'[CurInst] \in NewValues(i + 1)
          /\ \A inst \in Inst \ {CurInst} : value'[inst] = value[inst]
      BY <2>2, <3>1, <3>4
    <3>6. TakenAsAsked
      BY <1>1, <3>1, <3>2, <3>3, <3>5 DEF TakenAsAsked, Took
    <3>7. GoesOn
      BY <1>1, <3>1 DEF Turn, GoesOn
    <3> QED
      BY <1>1, <3>1, <3>2, <3>5, <3>6, <3>7, TookAsAsked
  <2> QED
    BY <2>3, <2>4, <2>5
<1> QED
  BY <1>3, <1>4

\* Before the loop nothing is asked for and nothing changed, after it nothing
\* more is done.
LEMMA StageAsAsked ==
  ASSUME PassIInv, AskedSoFar,
         \/ CheckCommandLineArgs \/ Search \/ StartLoop \/ FinishLoop \/ PrintResult
         \/ Terminated \/ UNCHANGED vars
  PROVE  AskedSoFar'
<1>1. CASE CheckCommandLineArgs \/ Search
  BY <1>1 DEF CheckCommandLineArgs, Search, passVars, AskedSoFar
<1>2. CASE StartLoop
  <2>1. /\ NoneChanged /\ Handled = {} /\ UNCHANGED <<classVars, target, value, cmd, i>>
    BY <1>2, NothingHandled DEF StartLoop, PassIInv, Stages, Handled
  <2>2. ASSUME NEW index \in 0..(Calls!Size - 1) PROVE AsAsked(index)'
    <3>1. ~Changed(Calls!InstAt(index))
      BY <2>1, InstAtInst DEF PassIInv, NoneChanged
    <3>2. AsAsked(index)
      BY <2>1, <3>1 DEF AsAsked, Changed
    <3> QED
      BY <2>1, <3>2, AskedKeeps DEF classVars, Handled
  <2>3. Calls!Size' = Calls!Size
    BY <2>1, VectorsOnly DEF classVars
  <2> QED
    BY <2>2, <2>3 DEF AskedSoFar
<1>3. CASE FinishLoop \/ PrintResult \/ Terminated \/ UNCHANGED vars
  <2>1. /\ UNCHANGED <<cmd, callInsts, invokeInsts, i, target, value, live>>
        /\ pc' \in {"loop", "ran", "done"} => pc \in {"loop", "ran", "done"}
    BY <1>3 DEF FinishLoop, PrintResult, Terminated, vars, classVars, passVars
  <2>2. Calls!Size' = Calls!Size /\ Mode' = Mode /\ Handled' = Handled
    BY <2>1, VectorsOnly, CommandOnly DEF Handled
  <2> QED
    BY <2>1, <2>2, AskedKeeps DEF AskedSoFar
<1> QED
  BY <1>1, <1>2, <1>3

\* Only RemoveYield takes users away in PosixYield, and a call of a yield function
\* is nobody's user.
LEMMA UsersStayKept ==
  ASSUME PassIInv, UsersKept, [Next]_vars
  PROVE  UsersKept'
<1> SUFFICES ASSUME cmd'.pass = "PosixYield" PROVE \A inst \in live' : users'[inst] = InitUsers[inst]
  BY DEF UsersKept
<1>1. cmd' = cmd
  BY DEF Next, vars, passVars, CheckCommandLineArgs, Search, StartLoop, Turn, RemoveThreadJoin,
     RemovePosixJoin, RemoveCondSignal, Remove, RemoveYield, PosixJoinReplace, ThreadJoinReplace,
     CondSignalReplace, SemaModify, FinishLoop, PrintResult, Terminated
<1>2. cmd.pass = "PosixYield" /\ \A inst \in live : users[inst] = InitUsers[inst]
  BY <1>1 DEF UsersKept
<1>3. CASE UNCHANGED <<live, users>>
  BY <1>2, <1>3
<1>4. CASE Search
  BY <1>3, <1>4 DEF Search, Calls!AddFuncNameToSearch, Calls!SearchCpp, Calls!Visit, Calls!irVars
<1>5. CASE RemoveYield
  <2>1. Pos \in Index
    BY <1>5, PosType DEF PassIInv, RemoveYield, Turn
  <2>2. CASE Calls!RemoveFromParent(Pos)
    <3>1. Pos < Len(callInsts) /\ CurInst = callInsts[Pos + 1] /\ Pos \in Nat /\ CurInst \in Inst
      BY <2>1, <2>2, Accepted, IndexAssumption DEF Calls!RemoveFromParent, PassIInv, CurInst
    <3>2. Pos + 1 \in 1..Len(callInsts)
      BY <3>1 DEF PassIInv, P!IInv, P!TypeOK
    <3>3. RawName[CurInst] \in YieldNames
      BY <1>2, <3>1, <3>2 DEF PassIInv, CallsMatch, SearchesCpp, SearchNames
    <3>4. live' = live \ {CurInst} /\ users' = [inst \in Inst |-> users[inst] \ {CurInst}]
      BY <2>2, <3>1, ClassConstants DEF Calls!RemoveFromParent, Calls!EraseInst, Calls!Erase
    <3>5. live \subseteq Inst
      BY ClassConstants DEF PassIInv, P!IInv, P!TypeOK
    <3> QED
      BY <1>2, <3>1, <3>3, <3>4, <3>5, YieldAssumption
  <2>3. CASE Calls!RemoveFromParentDeclines(Pos) \/ Calls!Refuse("removeFromParent", Pos)
    BY <1>3, <2>3 DEF Calls!RemoveFromParentDeclines, Calls!Refuse, Calls!irVars
  <2> QED
    BY <1>5, <2>2, <2>3 DEF RemoveYield
<1>6. CASE CheckCommandLineArgs \/ StartLoop \/ FinishLoop \/ PrintResult \/ Terminated
  BY <1>3, <1>6 DEF CheckCommandLineArgs, StartLoop, FinishLoop, PrintResult, Terminated, vars, classVars
<1>7. CASE \/ RemoveThreadJoin \/ RemovePosixJoin \/ RemoveCondSignal
           \/ PosixJoinReplace \/ ThreadJoinReplace \/ CondSignalReplace \/ SemaModify
  BY <1>2, <1>7 DEF RemoveThreadJoin, RemovePosixJoin, RemoveCondSignal, Remove, PosixJoinReplace,
     ThreadJoinReplace, CondSignalReplace, SemaModify, Turn
<1> QED
  BY <1>3, <1>4, <1>5, <1>6, <1>7 DEF Next, vars, classVars

\* Whatever mode a pass was started in, the loop left every occurrence as the
\* positions asked for, and nothing else (the loops over -pos and -val).
THEOREM MutationIsExact == Spec => []MutatedExactly
<1>1. Init => UsersKept /\ AskedSoFar
  BY DEF Init, Calls!Init, UsersKept, AskedSoFar
<1>2. PassIInv /\ UsersKept /\ AskedSoFar /\ [Next]_vars => AskedSoFar'
  BY StageAsAsked, RemoveAsAsked, RemoveYieldAsAsked, PosixJoinReplaceAsAsked,
     ThreadJoinReplaceAsAsked, CondSignalReplaceAsAsked, SemaModifyAsAsked
  DEF Next, RemoveThreadJoin, RemovePosixJoin, RemoveCondSignal
<1>3. PassIInv /\ UsersKept /\ [Next]_vars => UsersKept'
  BY UsersStayKept
<1>4. AskedSoFar => MutatedExactly
  BY DEF AskedSoFar, MutatedExactly
<1> QED
  BY <1>1, <1>2, <1>3, <1>4, PassInvariance, PTL DEF Spec
=============================================================================
