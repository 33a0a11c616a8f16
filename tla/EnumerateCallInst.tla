------------------------- MODULE EnumerateCallInst -------------------------
(***************************************************************************)
(* Tools/EnumerateCallInst.{h,cpp} and Tools/RemoveInst.cpp: the visitor   *)
(* that collects pointers to the call and invoke instructions of interest  *)
(* and the operations with which a pass removes or replaces them.  The     *)
(* pointers stay in the vectors when the instruction is erased, so every   *)
(* operation relies on deletedIndices to keep away from erased memory.     *)
(*                                                                         *)
(* An instruction is a model value; the LLVM module is the set of those    *)
(* still in their block, who uses their value, and the tail of the block   *)
(* every invoke terminates.                                                *)
(***************************************************************************)
EXTENDS Integers, Sequences, FiniteSets

CONSTANTS
  Layout,        \* call and invoke instructions in the order visit() meets them
  InvokeInst,    \* those that are invokes (terminators of their block)
  RawName,       \* the callee's name in the IR, or Indirect
  CppName,       \* its demangled name without parameters (or the raw name)
  Indirect,      \* getCalledFunction() returned NULL
  Names,         \* names a pass may search for
  InitUsers,     \* who uses the value of each instruction at the start
  Index          \* positions named with -pos

Inst == {Layout[n] : n \in 1..Len(Layout)}
Other == "other"  \* an instruction that is neither a call nor an invoke

ASSUME LayoutAssumption ==
  /\ Layout \in Seq(Inst)
  /\ \A m, n \in 1..Len(Layout) : Layout[m] = Layout[n] => m = n
  /\ InvokeInst \subseteq Inst
  /\ Other \notin Inst

ASSUME NameAssumption ==
  /\ RawName \in [Inst -> Names \union {Indirect}]
  /\ CppName \in [Inst -> Names \union {Indirect}]
  /\ Indirect \notin Names

ASSUME UsersAssumption ==
  InitUsers \in [Inst -> SUBSET (Inst \union {Other})]

ASSUME IndexAssumption == Index \subseteq Nat

VARIABLES
  funcNames,      \* names to search for
  isCpp,          \* demangle before comparing?
  visited,        \* how many instructions of Layout were visited
  callInsts,      \* vector of CallInst pointers
  invokeInsts,    \* vector of InvokeInst pointers
  deletedIndices, \* positions that must not be touched again
  live,           \* instructions that are still in their parent
  users,          \* users[i]: the instructions that use the value of i
  tail,           \* tail[i]: end of the block that invoke i terminated
  last,           \* last request and its return code
  dangling        \* operations that followed a pointer to erased memory

registryVars == <<callInsts, invokeInsts, deletedIndices>>
irVars == <<live, users, tail>>
searchVars == <<funcNames, isCpp, visited>>
vars == <<searchVars, registryVars, irVars, last, dangling>>

\* Positions run through callInsts, then through invokeInsts.
Size == Len(callInsts) + Len(invokeInsts)

IsCall(index) == index < Len(callInsts)

\* Vectors are indexed from 0 in the code and from 1 here.
InstAt(index) == IF IsCall(index) THEN callInsts[index + 1]
                 ELSE invokeInsts[index - Len(callInsts) + 1]

Used == {index \in 0..(Size - 1) : users[InstAt(index)] # {}}

Abs == INSTANCE OccurrenceSet WITH
         size <- Size,
         calls <- Len(callInsts),
         used <- Used,
         mutated <- deletedIndices

\* Every variable holds what its C++ member can hold; in particular the two
\* vectors never mix calls and invokes, which the position arithmetic relies on.
TypeOK ==
  /\ funcNames \subseteq Names
  /\ isCpp \in BOOLEAN
  /\ visited \in 0..Len(Layout)
  /\ callInsts \in Seq(Inst \ InvokeInst)
  /\ invokeInsts \in Seq(InvokeInst)
  /\ deletedIndices \subseteq Index
  /\ live \subseteq Inst
  /\ users \in [Inst -> SUBSET (Inst \union {Other})]
  /\ tail \in [InvokeInst -> Seq({"invoke", "branch", "replacement"})]
  /\ last \in [op : Abs!Mutators \union Abs!Queries \union {"none"},
               index : Nat, ret : {-3, -2, -1, 0, 1}]
  /\ dangling \subseteq Abs!Mutators \union {"printInstDebugInfo"}

Init ==
  /\ funcNames = {}
  /\ isCpp = FALSE
  /\ visited = 0
  /\ callInsts = <<>>
  /\ invokeInsts = <<>>
  /\ deletedIndices = {}
  /\ live = Inst
  /\ users = InitUsers
  /\ tail = [i \in InvokeInst |-> <<"invoke">>]
  /\ last = [op |-> "none", index |-> 0, ret |-> 0]
  /\ dangling = {}

-----------------------------------------------------------------------------
(* Set-up and enumeration *)

AddFuncNameToSearch(name) ==
  /\ visited = 0
  /\ funcNames' = funcNames \union {name}
  /\ UNCHANGED <<isCpp, visited, registryVars, irVars, last, dangling>>

SearchCpp ==
  /\ visited = 0
  /\ isCpp' = TRUE
  /\ UNCHANGED <<funcNames, visited, registryVars, irVars, last, dangling>>

\* An indirect call never matches; otherwise the (demangled) name decides.
CheckIfMatch(inst) ==
  /\ RawName[inst] # Indirect
  /\ (IF isCpp THEN CppName[inst] ELSE RawName[inst]) \in funcNames

VisitCallInst(inst) ==
  /\ inst \notin InvokeInst
  /\ callInsts' = IF CheckIfMatch(inst) THEN Append(callInsts, inst) ELSE callInsts
  /\ UNCHANGED invokeInsts

VisitInvokeInst(inst) ==
  /\ inst \in InvokeInst
  /\ invokeInsts' = IF CheckIfMatch(inst) THEN Append(invokeInsts, inst) ELSE invokeInsts
  /\ UNCHANGED callInsts

Visit ==
  /\ visited < Len(Layout)
  /\ visited' = visited + 1
  /\ VisitCallInst(Layout[visited + 1]) \/ VisitInvokeInst(Layout[visited + 1])
  /\ UNCHANGED <<funcNames, isCpp, deletedIndices, irVars, last, dangling>>

-----------------------------------------------------------------------------
(* The registry *)

Ready == visited = Len(Layout) /\ dangling = {}

\* Mutant of IsValidIndex: deletedIndices is not consulted.
IsValidIndex_NoDeleted(index) ==
  IF index >= Size THEN -1 ELSE IF IsCall(index) THEN 0 ELSE 1

IsValidIndex(index) ==
  IF index >= Size THEN -1
  ELSE IF index \in deletedIndices THEN -2
  ELSE IF IsCall(index) THEN 0 ELSE 1

Return(op, index, ret) == last' = [op |-> op, index |-> index, ret |-> ret]

\* Following a pointer whose instruction is gone is undefined behaviour: the
\* operation is recorded and nothing that happens after it is modelled.
Follow(op, insts) ==
  dangling' = IF insts \subseteq live THEN dangling ELSE dangling \union {op}

-----------------------------------------------------------------------------
(* LLVM's own operations on an instruction (external) *)

\* eraseFromParent: the instruction leaves its block and stops using others.
Erase(inst) ==
  /\ live' = live \ {inst}
  /\ users' = [i \in Inst |-> users[i] \ {inst}]

\* ReplaceInstWithValue/ReplaceInstWithInst: every use now refers to the
\* replacement, then the instruction is erased.
ReplaceUsesAndErase(inst) ==
  /\ live' = live \ {inst}
  /\ users' = [i \in Inst |-> IF i = inst THEN {} ELSE users[i] \ {inst}]

\* Mutant of EraseFromParentOrReplace: erased without looking at its uses.
EraseFromParentOrReplace_NoUses(inst) == Erase(inst)

\* RemoveInst.cpp: erase when nobody uses the value, replace by 0 otherwise.
EraseFromParentOrReplace(inst) ==
  IF users[inst] = {} THEN Erase(inst) ELSE ReplaceUsesAndErase(inst)

\* Mutant of EraseInvokeOrRep: no branch is added.
EraseInvokeOrRep_NoBranch(inst) ==
  /\ tail' = [tail EXCEPT ![inst] = Tail(@)]
  /\ EraseFromParentOrReplace(inst)

\* The branch goes to the end of the block, the invoke in front of it is
\* erased, so what is left of the tail is the branch.
EraseInvokeOrRep(inst) ==
  /\ tail' = [tail EXCEPT ![inst] = Tail(Append(@, "branch"))]
  /\ EraseFromParentOrReplace(inst)

-----------------------------------------------------------------------------
(* Operations of the class *)

QueryIndex(op, index) ==
  /\ Ready
  /\ op \in {"isValidIndex", "getInstructionAt"}
  /\ Return(op, index, IsValidIndex(index))
  /\ UNCHANGED <<searchVars, registryVars, irVars, dangling>>

\* Every mutator first refuses a position that is out of bounds or deleted.
Refuse(op, index) ==
  /\ Ready
  /\ op \in Abs!Mutators
  /\ IsValidIndex(index) < 0
  /\ Return(op, index, IsValidIndex(index))
  /\ UNCHANGED <<searchVars, registryVars, irVars, dangling>>

\* Mutant of EraseInst: the position is not remembered.
EraseInst_NotRegistered(index) ==
  /\ UNCHANGED deletedIndices
  /\ Erase(callInsts[index + 1])
  /\ UNCHANGED tail

EraseInst(index) ==
  /\ deletedIndices' = deletedIndices \union {index}
  /\ Erase(callInsts[index + 1])
  /\ UNCHANGED tail

RemoveFromParent(index) ==
  /\ Ready
  /\ IsValidIndex(index) = 0
  /\ Follow("removeFromParent", {callInsts[index + 1]})
  /\ users[callInsts[index + 1]] = {}
  /\ EraseInst(index)
  /\ Return("removeFromParent", index, 0)
  /\ UNCHANGED <<searchVars, callInsts, invokeInsts>>

\* A position that still has uses, or that is an invoke, is left alone.
RemoveFromParentDeclines(index) ==
  /\ Ready
  /\ \/ /\ IsValidIndex(index) = 0
        /\ users[callInsts[index + 1]] # {}
        /\ Follow("removeFromParent", {callInsts[index + 1]})
        /\ Return("removeFromParent", index, -3)
     \/ /\ IsValidIndex(index) = 1
        /\ Return("removeFromParent", index, 1)
        /\ UNCHANGED dangling
  /\ UNCHANGED <<searchVars, registryVars, irVars>>

RemoveFromParentRepZero(index) ==
  /\ Ready
  /\ IsValidIndex(index) >= 0
  /\ Follow("removeFromParentRepZero", {InstAt(index)})
  /\ \/ IsCall(index) /\ EraseFromParentOrReplace(InstAt(index)) /\ UNCHANGED tail
     \/ ~IsCall(index) /\ EraseInvokeOrRep(InstAt(index))
  /\ deletedIndices' = deletedIndices \union {index}
  /\ Return("removeFromParentRepZero", index, 0)
  /\ UNCHANGED <<searchVars, callInsts, invokeInsts>>

\* The replacement is no terminator (clients pass a call to sleep): for an
\* invoke a branch is appended first and the replacement takes its place.
ReplaceInstWithInst(index) ==
  /\ Ready
  /\ IsValidIndex(index) >= 0
  /\ Follow("replaceInstWithInst", {InstAt(index)})
  /\ deletedIndices' = deletedIndices \union {index}
  /\ IF IsCall(index) THEN UNCHANGED tail
     ELSE tail' = [tail EXCEPT ![InstAt(index)] =
                     <<"replacement">> \o Tail(Append(@, "branch"))]
  /\ ReplaceUsesAndErase(InstAt(index))
  /\ Return("replaceInstWithInst", index, 0)
  /\ UNCHANGED <<searchVars, callInsts, invokeInsts>>

\* Mutant of MarkMutated: the position is not validated.
MarkMutated_Unchecked(index) ==
  /\ Ready
  /\ deletedIndices' = deletedIndices \union {index}
  /\ Return("markMutated", index, 0)
  /\ UNCHANGED <<searchVars, callInsts, invokeInsts, irVars, dangling>>

MarkMutated(index) ==
  /\ Ready
  /\ IsValidIndex(index) >= 0
  /\ deletedIndices' = deletedIndices \union {index}
  /\ Return("markMutated", index, 0)
  /\ UNCHANGED <<searchVars, callInsts, invokeInsts, irVars, dangling>>

\* Reads the metadata of every enumerated instruction, erased or not.
PrintInstDebugInfo ==
  /\ Ready
  /\ Follow("printInstDebugInfo", {InstAt(index) : index \in 0..(Size - 1)})
  /\ UNCHANGED <<searchVars, registryVars, irVars, last>>

Operation(index) ==
  \/ \E op \in Abs!Queries : QueryIndex(op, index)
  \/ \E op \in Abs!Mutators : Refuse(op, index)
  \/ RemoveFromParent(index)
  \/ RemoveFromParentDeclines(index)
  \/ RemoveFromParentRepZero(index)
  \/ ReplaceInstWithInst(index)
  \/ MarkMutated(index)

Next ==
  \/ \E name \in Names : AddFuncNameToSearch(name)
  \/ SearchCpp
  \/ Visit
  \/ \E index \in Index : Operation(index)
  \/ PrintInstDebugInfo

Spec == Init /\ [][Next]_vars

-----------------------------------------------------------------------------
(* Properties *)

\* deletedIndices keeps every operation that changes the module away from
\* erased instructions; only the debug print follows all pointers blindly
\* (EnumerateCallInst.cpp:98-128).
MutatorsNeverDangle == dangling \subseteq {"printInstDebugInfo"}

\* An enumerated instruction that is gone from its block is registered as
\* deleted, whichever operation took it: the next request for it is refused.
ErasedIsDeleted ==
  \A index \in 0..(Size - 1) :
    InstAt(index) \notin live => index \in deletedIndices

\* No instruction is erased while its value is used: LLVM aborts on a value
\* destroyed with uses left.  removeFromParent declines, the other operations
\* redirect the uses first.
NoUseOfErased == \A inst \in Inst \ live : users[inst] = {}

\* The only terminators are the invoke and the branch put in its place.
IsTerminator(item) == item \in {"invoke", "branch"}

\* Whatever is done to an invoke, its block keeps exactly one terminator and
\* it comes last (EnumerateCallInst.h on replaceInstWithInst).
OneTerminator ==
  \A i \in InvokeInst :
    /\ Len(tail[i]) > 0
    /\ IsTerminator(tail[i][Len(tail[i])])
    /\ \A n \in 1..(Len(tail[i]) - 1) : ~IsTerminator(tail[i][n])

\* Each occurrence is mutated at most once, and every request is answered by
\* the code for what happened: -1 and -2 for positions that are not there any
\* more, 1 for an invoke and -3 for a call in use that removeFromParent leaves
\* (EnumerateCallInst.cpp:292-317; its header says otherwise, see OccurrenceSet).  The
\* class implements OccurrenceSet.
ImplementsOccurrenceSet == Abs!AbsSpec
=============================================================================
