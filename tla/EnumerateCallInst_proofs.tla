---------------------- MODULE EnumerateCallInst_proofs ----------------------
(***************************************************************************)
(* Theorems about EnumerateCallInst, for every layout, every set of        *)
(* positions and every sequence of operations.                             *)
(***************************************************************************)
EXTENDS EnumerateCallInst, TLAPS

\* The vectors hold instructions that were visited, each of them once.
PointersDistinct ==
  /\ \A n \in 1..Len(callInsts) : \E m \in 1..visited : callInsts[n] = Layout[m]
  /\ \A n \in 1..Len(invokeInsts) : \E m \in 1..visited : invokeInsts[n] = Layout[m]
  /\ \A m, n \in 1..Len(callInsts) : callInsts[m] = callInsts[n] => m = n
  /\ \A m, n \in 1..Len(invokeInsts) : invokeInsts[m] = invokeInsts[n] => m = n

\* Nothing is deleted before the visit has ended, and only enumerated
\* positions are ever deleted.
DeletedInRange ==
  /\ deletedIndices \subseteq 0..(Size - 1)
  /\ visited # Len(Layout) => deletedIndices = {} /\ live = Inst

\* The end of an invoke's block: the invoke itself, or what replaced it.
TailShape ==
  \A i \in InvokeInst :
    /\ i \in live => tail[i] = <<"invoke">>
    /\ i \notin live => tail[i] \in {<<"branch">>, <<"replacement", "branch">>}

IInv ==
  /\ TypeOK
  /\ PointersDistinct
  /\ DeletedInRange
  /\ ErasedIsDeleted
  /\ NoUseOfErased
  /\ TailShape
  /\ MutatorsNeverDangle

-----------------------------------------------------------------------------
(* What the operators return *)

\* A layout only lists instructions of the module.
LEMMA LayoutElements == \A n \in 1..Len(Layout) : Layout[n] \in Inst
  BY DEF Inst

\* The positions that isValidIndex accepts, and what its codes mean.
LEMMA ValidIndex ==
  ASSUME IInv, NEW index \in Index
  PROVE  /\ IsValidIndex(index) \in {-2, -1, 0, 1}
         /\ IsValidIndex(index) = -1 <=> index >= Size
         /\ IsValidIndex(index) = -2 <=> index < Size /\ index \in deletedIndices
         /\ IsValidIndex(index) = 0 <=> /\ index < Len(callInsts)
                                        /\ index \notin deletedIndices
         /\ IsValidIndex(index) = 1 <=> /\ index < Size
                                        /\ ~(index < Len(callInsts))
                                        /\ index \notin deletedIndices
<1>1. index \in Nat /\ Len(callInsts) \in Nat /\ Len(invokeInsts) \in Nat
  BY IndexAssumption DEF IInv, TypeOK
<1>2. Size \in Nat /\ Len(callInsts) <= Size
  BY <1>1 DEF Size
<1> QED
  BY <1>1, <1>2 DEF IsValidIndex, IsCall

\* Every position in range leads to an instruction of the right kind.
LEMMA InstAtType ==
  ASSUME IInv, NEW index \in 0..(Size - 1)
  PROVE  /\ InstAt(index) \in Inst
         /\ index < Len(callInsts) => /\ InstAt(index) = callInsts[index + 1]
                                      /\ InstAt(index) \notin InvokeInst
         /\ ~(index < Len(callInsts)) => InstAt(index) \in InvokeInst
<1>1. callInsts \in Seq(Inst \ InvokeInst) /\ invokeInsts \in Seq(InvokeInst)
  BY DEF IInv, TypeOK
<1>2. Len(callInsts) \in Nat /\ Len(invokeInsts) \in Nat /\ index \in Nat
  BY <1>1 DEF Size
<1>3. CASE index < Len(callInsts)
  <2>1. index + 1 \in 1..Len(callInsts)
    BY <1>2, <1>3
  <2>2. callInsts[index + 1] \in Inst \ InvokeInst
    BY <1>1, <2>1
  <2> QED
    BY <1>3, <2>2 DEF InstAt, IsCall
<1>4. CASE ~(index < Len(callInsts))
  <2>1. index - Len(callInsts) + 1 \in 1..Len(invokeInsts)
    BY <1>2, <1>4 DEF Size
  <2>2. invokeInsts[index - Len(callInsts) + 1] \in InvokeInst
    BY <1>1, <2>1
  <2> QED
    BY <1>4, <2>2, LayoutAssumption DEF InstAt, IsCall
<1> QED
  BY <1>3, <1>4

\* Two positions never lead to the same instruction.
LEMMA InstAtInjective ==
  ASSUME IInv, NEW a \in 0..(Size - 1), NEW b \in 0..(Size - 1),
         InstAt(a) = InstAt(b)
  PROVE  a = b
<1>1. Len(callInsts) \in Nat /\ Len(invokeInsts) \in Nat /\ a \in Nat /\ b \in Nat
  BY DEF IInv, TypeOK, Size
<1>2. (a < Len(callInsts)) <=> (b < Len(callInsts))
  BY InstAtType
<1>3. CASE a < Len(callInsts)
  <2>1. a + 1 \in 1..Len(callInsts) /\ b + 1 \in 1..Len(callInsts)
    BY <1>1, <1>2, <1>3
  <2>2. callInsts[a + 1] = callInsts[b + 1]
    BY <1>2, <1>3 DEF InstAt, IsCall
  <2>3. a + 1 = b + 1
    BY <2>1, <2>2 DEF IInv, PointersDistinct
  <2> QED
    BY <2>3, <1>1
<1>4. CASE ~(a < Len(callInsts))
  <2> DEFINE x == a - Len(callInsts) + 1
             y == b - Len(callInsts) + 1
  <2>1. x \in 1..Len(invokeInsts) /\ y \in 1..Len(invokeInsts)
    BY <1>1, <1>2, <1>4 DEF Size
  <2>2. invokeInsts[x] = invokeInsts[y]
    BY <1>2, <1>4 DEF InstAt, IsCall
  <2>3. x = y
    BY <2>1, <2>2 DEF IInv, PointersDistinct
  <2> QED
    BY <2>3, <1>1
<1> QED
  BY <1>3, <1>4

\* A position that is accepted leads to an instruction still in its block.
LEMMA AcceptedIsLive ==
  ASSUME IInv, NEW index \in Index, IsValidIndex(index) >= 0
  PROVE  /\ index \in 0..(Size - 1)
         /\ index \notin deletedIndices
         /\ InstAt(index) \in live
<1>1. Len(callInsts) \in Nat /\ Len(invokeInsts) \in Nat /\ index \in Nat
  BY IndexAssumption DEF IInv, TypeOK
<1>2. IsValidIndex(index) = 0 \/ IsValidIndex(index) = 1
  BY ValidIndex
<1>3. index < Size /\ index \notin deletedIndices
  BY <1>1, <1>2, ValidIndex DEF Size
<1>4. index \in 0..(Size - 1)
  BY <1>1, <1>3 DEF Size
<1> QED
  BY <1>3, <1>4 DEF IInv, ErasedIsDeleted

-----------------------------------------------------------------------------
(* The inductive invariant *)

\* What every operation on an accepted position does to the pointers, the
\* registry and the uses; it is shared by the three mutators.
LEMMA ErasingPreserves ==
  ASSUME IInv, NEW index \in Index, IsValidIndex(index) >= 0, Ready,
         UNCHANGED <<searchVars, callInsts, invokeInsts>>,
         deletedIndices' = deletedIndices \union {index},
         live' = live \ {InstAt(index)},
         users' \in [Inst -> SUBSET (Inst \union {Other})],
         users'[InstAt(index)] = {},
         \A i \in Inst : users'[i] \subseteq users[i]
  PROVE  PointersDistinct' /\ DeletedInRange' /\ ErasedIsDeleted' /\ NoUseOfErased'
<1>1. /\ index \in 0..(Size - 1)
      /\ InstAt(index) \in Inst
      /\ Size' = Size
      /\ \A n : InstAt(n)' = InstAt(n)
  BY AcceptedIsLive, InstAtType DEF Size, InstAt, IsCall, searchVars
<1>2. PointersDistinct'
  BY DEF IInv, PointersDistinct, searchVars
<1>3. DeletedInRange'
  BY <1>1 DEF IInv, DeletedInRange, Ready, searchVars
<1>4. ErasedIsDeleted'
  BY <1>1, InstAtInjective DEF IInv, ErasedIsDeleted
<1>5. NoUseOfErased'
  <2> SUFFICES ASSUME NEW i \in Inst \ live'
               PROVE  users'[i] = {}
    BY DEF NoUseOfErased
  <2>1. CASE i = InstAt(index)
    BY <2>1
  <2>2. CASE i # InstAt(index)
    BY <2>2 DEF IInv, NoUseOfErased
  <2> QED
    BY <2>1, <2>2
<1> QED
  BY <1>2, <1>3, <1>4, <1>5

\* Replacing all uses, or erasing a value without uses, leaves no use behind.
LEMMA EraseEffects ==
  ASSUME IInv, NEW inst \in Inst,
         ReplaceUsesAndErase(inst) \/ (users[inst] = {} /\ Erase(inst))
  PROVE  /\ live' = live \ {inst}
         /\ live' \subseteq Inst
         /\ users' \in [Inst -> SUBSET (Inst \union {Other})]
         /\ users'[inst] = {}
         /\ \A i \in Inst : users'[i] \subseteq users[i]
<1>1. users \in [Inst -> SUBSET (Inst \union {Other})] /\ live \subseteq Inst
  BY DEF IInv, TypeOK
<1> QED
  BY <1>1 DEF ReplaceUsesAndErase, Erase

\* A sequence of two elements is the pair of them.
LEMMA PairSeq ==
  ASSUME NEW T, NEW s \in Seq(T), NEW a \in T, NEW b \in T,
         Len(s) = 2, s[1] = a, s[2] = b
  PROVE  s = <<a, b>>
  OBVIOUS

\* The two ways a tail is rewritten.
LEMMA TailRewrites ==
  /\ Tail(Append(<<"invoke">>, "branch")) = <<"branch">>
  /\ <<"replacement">> \o Tail(Append(<<"invoke">>, "branch"))
       = <<"replacement", "branch">>
<1> DEFINE Items == {"invoke", "branch", "replacement"}
           appended == Append(<<"invoke">>, "branch")
           joined == <<"replacement">> \o <<"branch">>
<1>1. <<"invoke">> \in Seq(Items) /\ <<"branch">> \in Seq(Items)
      /\ <<"replacement">> \in Seq(Items)
  OBVIOUS
<1>2. appended = <<"invoke", "branch">>
  <2>1. appended \in Seq(Items) /\ Len(appended) = 2
    BY <1>1
  <2>2. appended[1] = "invoke" /\ appended[2] = "branch"
    BY <1>1
  <2> HIDE DEF appended
  <2> QED
    BY <2>1, <2>2, PairSeq
<1>3. joined = <<"replacement", "branch">>
  <2>1. joined \in Seq(Items) /\ Len(joined) = 2
    BY <1>1
  <2>2. joined[1] = "replacement" /\ joined[2] = "branch"
    BY <1>1
  <2> HIDE DEF joined
  <2> QED
    BY <2>1, <2>2, PairSeq
<1>4. Tail(<<"invoke", "branch">>) = <<"branch">>
  OBVIOUS
<1> QED
  BY <1>2, <1>3, <1>4

\* TailShape does what the type invariant asks of the tails.
LEMMA TailType ==
  /\ <<"invoke">> \in Seq({"invoke", "branch", "replacement"})
  /\ <<"branch">> \in Seq({"invoke", "branch", "replacement"})
  /\ <<"replacement", "branch">> \in Seq({"invoke", "branch", "replacement"})
  OBVIOUS

\* A request that only answers leaves the invariant alone.
LEMMA AnswerPreserves ==
  ASSUME IInv, NEW op \in Abs!Mutators \union Abs!Queries, NEW index \in Index,
         NEW ret \in {-3, -2, -1, 0, 1},
         Return(op, index, ret), dangling' = dangling,
         UNCHANGED <<searchVars, registryVars, irVars>>
  PROVE  IInv'
<1>1. index \in Nat
  BY IndexAssumption
<1>2. last' \in [op : Abs!Mutators \union Abs!Queries \union {"none"},
                 index : Nat, ret : {-3, -2, -1, 0, 1}]
  BY <1>1 DEF Return
<1>3. TypeOK'
  BY <1>2 DEF IInv, TypeOK, searchVars, registryVars, irVars
<1>4. \A n : InstAt(n)' = InstAt(n)
  BY DEF InstAt, IsCall, registryVars
<1>5. Size' = Size
  BY DEF Size, registryVars
<1> QED
  BY <1>3, <1>4, <1>5
  DEF IInv, PointersDistinct, DeletedInRange, ErasedIsDeleted, NoUseOfErased,
      TailShape, MutatorsNeverDangle, searchVars, registryVars, irVars

LEMMA InitIInv == Init => IInv
<1> SUFFICES ASSUME Init PROVE IInv
  OBVIOUS
<1>1. callInsts \in Seq(Inst \ InvokeInst) /\ invokeInsts \in Seq(InvokeInst)
      /\ Len(callInsts) = 0 /\ Len(invokeInsts) = 0
  BY DEF Init
<1>2. Len(Layout) \in Nat
  BY LayoutAssumption
<1>3. tail \in [InvokeInst -> Seq({"invoke", "branch", "replacement"})]
  BY TailType DEF Init
<1>4. last \in [op : Abs!Mutators \union Abs!Queries \union {"none"},
                index : Nat, ret : {-3, -2, -1, 0, 1}]
  BY DEF Init
<1>5. TypeOK
  <2>1. /\ funcNames \subseteq Names /\ isCpp \in BOOLEAN
        /\ deletedIndices \subseteq Index /\ live \subseteq Inst
        /\ dangling \subseteq Abs!Mutators \union {"printInstDebugInfo"}
    BY DEF Init
  <2>2. visited \in 0..Len(Layout)
    BY <1>2 DEF Init
  <2>3. users \in [Inst -> SUBSET (Inst \union {Other})]
    BY UsersAssumption DEF Init
  <2> QED
    BY <1>1, <1>3, <1>4, <2>1, <2>2, <2>3 DEF TypeOK
<1>6. PointersDistinct
  BY <1>1 DEF PointersDistinct
<1>7. DeletedInRange /\ ErasedIsDeleted
  BY <1>1 DEF Init, DeletedInRange, ErasedIsDeleted, Size
<1>8. NoUseOfErased /\ TailShape /\ MutatorsNeverDangle
  BY LayoutAssumption DEF Init, NoUseOfErased, TailShape, MutatorsNeverDangle
<1> QED
  BY <1>5, <1>6, <1>7, <1>8 DEF IInv

\* Enumerating one more instruction.
LEMMA VisitPreserves ==
  ASSUME IInv, Visit
  PROVE  IInv'
<1> DEFINE inst == Layout[visited + 1]
<1>1. /\ visited \in Nat /\ Len(Layout) \in Nat /\ visited' = visited + 1
      /\ visited + 1 \in 1..Len(Layout) /\ visited' \in 0..Len(Layout)
  BY LayoutAssumption DEF IInv, TypeOK, Visit
<1>2. inst \in Inst
  BY <1>1, LayoutElements
<1>3. /\ callInsts \in Seq(Inst \ InvokeInst) /\ invokeInsts \in Seq(InvokeInst)
      /\ Len(callInsts) \in Nat /\ Len(invokeInsts) \in Nat
  BY DEF IInv, TypeOK
<1>4. deletedIndices = {} /\ live = Inst
  BY <1>1 DEF IInv, DeletedInRange, Visit
<1>5. \A m \in 1..visited : Layout[m] # inst
  BY <1>1, LayoutAssumption
<1>6. \/ /\ callInsts' = Append(callInsts, inst) /\ invokeInsts' = invokeInsts
         /\ inst \notin InvokeInst
      \/ /\ invokeInsts' = Append(invokeInsts, inst) /\ callInsts' = callInsts
         /\ inst \in InvokeInst
      \/ callInsts' = callInsts /\ invokeInsts' = invokeInsts
  BY DEF Visit, VisitCallInst, VisitInvokeInst
<1>7. /\ callInsts' \in Seq(Inst \ InvokeInst) /\ invokeInsts' \in Seq(InvokeInst)
      /\ Len(callInsts') \in Nat /\ Len(invokeInsts') \in Nat
  <2> HIDE DEF inst
  <2>1. CASE callInsts' = Append(callInsts, inst) /\ invokeInsts' = invokeInsts
             /\ inst \notin InvokeInst
    BY <1>2, <1>3, <2>1
  <2>2. CASE invokeInsts' = Append(invokeInsts, inst) /\ callInsts' = callInsts
             /\ inst \in InvokeInst
    BY <1>3, <2>2
  <2> QED
    BY <1>3, <1>6, <2>1, <2>2
<1>8. TypeOK'
  BY <1>1, <1>7 DEF IInv, TypeOK, Visit, irVars
<1>9. PointersDistinct'
  <2> HIDE DEF inst
  <2>0. /\ \A n \in 1..Len(callInsts) : \E m \in 1..visited : callInsts[n] = Layout[m]
        /\ \A n \in 1..Len(invokeInsts) : \E m \in 1..visited : invokeInsts[n] = Layout[m]
        /\ \A m, n \in 1..Len(callInsts) : callInsts[m] = callInsts[n] => m = n
        /\ \A m, n \in 1..Len(invokeInsts) : invokeInsts[m] = invokeInsts[n] => m = n
    BY DEF IInv, PointersDistinct
  <2>1. /\ \A n \in 1..Len(callInsts) : callInsts[n] # inst
        /\ \A n \in 1..Len(invokeInsts) : invokeInsts[n] # inst
    BY <1>5 DEF IInv, PointersDistinct
  <2>2. 1..visited \subseteq 1..visited' /\ visited' \in 1..visited'
    BY <1>1
  <2>3. CASE callInsts' = Append(callInsts, inst) /\ invokeInsts' = invokeInsts
    <3>1. /\ Len(callInsts') = Len(callInsts) + 1
          /\ \A n \in 1..Len(callInsts) : callInsts'[n] = callInsts[n]
          /\ callInsts'[Len(callInsts) + 1] = inst
      BY <1>2, <1>3, <2>3
    <3>2. \A n \in 1..Len(callInsts') : n \in 1..Len(callInsts) \/ n = Len(callInsts) + 1
      BY <1>3, <3>1
    <3>3. inst = Layout[visited']
      BY <1>1 DEF inst
    <3>4. \A n \in 1..Len(callInsts') : \E m \in 1..visited' : callInsts'[n] = Layout[m]
      <4> SUFFICES ASSUME NEW n \in 1..Len(callInsts')
                   PROVE  \E m \in 1..visited' : callInsts'[n] = Layout[m]
        OBVIOUS
      <4>1. CASE n \in 1..Len(callInsts)
        <5>1. PICK m \in 1..visited : callInsts[n] = Layout[m]
          BY <2>0, <4>1
        <5> QED
          BY <2>2, <3>1, <4>1, <5>1
      <4>2. CASE n = Len(callInsts) + 1
        BY <2>2, <3>1, <3>3, <4>2
      <4> QED
        BY <3>2, <4>1, <4>2
    <3>5. \A m, n \in 1..Len(callInsts') : callInsts'[m] = callInsts'[n] => m = n
      BY <2>0, <2>1, <3>1, <3>2
    <3>6. \A n \in 1..Len(invokeInsts') : \E m \in 1..visited' : invokeInsts'[n] = Layout[m]
      BY <2>0, <2>2, <2>3
    <3> QED
      BY <2>0, <2>3, <3>4, <3>5, <3>6 DEF PointersDistinct
  <2>4. CASE invokeInsts' = Append(invokeInsts, inst) /\ callInsts' = callInsts
            /\ inst \in InvokeInst
    <3>1. /\ Len(invokeInsts') = Len(invokeInsts) + 1
          /\ \A n \in 1..Len(invokeInsts) : invokeInsts'[n] = invokeInsts[n]
          /\ invokeInsts'[Len(invokeInsts) + 1] = inst
      BY <1>3, <2>4
    <3>2. \A n \in 1..Len(invokeInsts') :
             n \in 1..Len(invokeInsts) \/ n = Len(invokeInsts) + 1
      BY <1>3, <3>1
    <3>3. inst = Layout[visited']
      BY <1>1 DEF inst
    <3>4. \A n \in 1..Len(invokeInsts') : \E m \in 1..visited' : invokeInsts'[n] = Layout[m]
      <4> SUFFICES ASSUME NEW n \in 1..Len(invokeInsts')
                   PROVE  \E m \in 1..visited' : invokeInsts'[n] = Layout[m]
        OBVIOUS
      <4>1. CASE n \in 1..Len(invokeInsts)
        <5>1. PICK m \in 1..visited : invokeInsts[n] = Layout[m]
          BY <2>0, <4>1
        <5> QED
          BY <2>2, <3>1, <4>1, <5>1
      <4>2. CASE n = Len(invokeInsts) + 1
        BY <2>2, <3>1, <3>3, <4>2
      <4> QED
        BY <3>2, <4>1, <4>2
    <3>5. \A m, n \in 1..Len(invokeInsts') : invokeInsts'[m] = invokeInsts'[n] => m = n
      BY <2>0, <2>1, <3>1, <3>2
    <3>6. \A n \in 1..Len(callInsts') : \E m \in 1..visited' : callInsts'[n] = Layout[m]
      BY <2>0, <2>2, <2>4
    <3> QED
      BY <2>0, <2>4, <3>4, <3>5, <3>6 DEF PointersDistinct
  <2>5. CASE callInsts' = callInsts /\ invokeInsts' = invokeInsts
    BY <2>0, <2>2, <2>5 DEF PointersDistinct
  <2> QED
    BY <1>6, <2>3, <2>4, <2>5
<1>10. DeletedInRange'
  BY <1>4 DEF DeletedInRange, Visit, irVars
<1>11. ErasedIsDeleted'
  <2> SUFFICES ASSUME NEW index \in 0..(Size' - 1) PROVE InstAt(index)' \in Inst
    BY <1>4 DEF ErasedIsDeleted, Visit, irVars
  <2>1. index \in Nat /\ Size' = Len(callInsts') + Len(invokeInsts')
    BY <1>7 DEF Size
  <2>2. CASE index < Len(callInsts')
    <3>1. index + 1 \in 1..Len(callInsts')
      BY <1>7, <2>1, <2>2
    <3> QED
      BY <1>7, <2>2, <3>1 DEF InstAt, IsCall
  <2>3. CASE ~(index < Len(callInsts'))
    <3>1. index - Len(callInsts') + 1 \in 1..Len(invokeInsts')
      BY <1>7, <2>1, <2>3
    <3> QED
      BY <1>7, <2>3, <3>1, LayoutAssumption DEF InstAt, IsCall
  <2> QED
    BY <2>2, <2>3
<1>12. NoUseOfErased' /\ TailShape' /\ MutatorsNeverDangle'
  BY DEF IInv, NoUseOfErased, TailShape, MutatorsNeverDangle, Visit, irVars
<1> QED
  BY <1>8, <1>9, <1>10, <1>11, <1>12 DEF IInv

\* The part of the type invariant that an accepted mutation has to restore.
LEMMA MutationType ==
  ASSUME IInv, NEW op \in Abs!Mutators, NEW index \in Index,
         IsValidIndex(index) >= 0, Follow(op, {InstAt(index)}),
         Return(op, index, 0),
         deletedIndices' = deletedIndices \union {index},
         live' \subseteq Inst,
         users' \in [Inst -> SUBSET (Inst \union {Other})],
         tail' \in [InvokeInst -> Seq({"invoke", "branch", "replacement"})],
         UNCHANGED <<searchVars, callInsts, invokeInsts>>
  PROVE  TypeOK' /\ MutatorsNeverDangle'
<1>1. index \in Nat /\ InstAt(index) \in live
  BY IndexAssumption, AcceptedIsLive
<1>2. dangling' = dangling
  BY <1>1 DEF Follow
<1>3. last' \in [op : Abs!Mutators \union Abs!Queries \union {"none"},
                 index : Nat, ret : {-3, -2, -1, 0, 1}]
  BY <1>1 DEF Return
<1> QED
  BY <1>2, <1>3 DEF IInv, TypeOK, MutatorsNeverDangle, searchVars

LEMMA RemoveFromParentPreserves ==
  ASSUME IInv, NEW index \in Index, RemoveFromParent(index)
  PROVE  IInv'
<1>1. IsValidIndex(index) >= 0 /\ index < Len(callInsts)
  BY ValidIndex DEF RemoveFromParent
<1>2. /\ index \in 0..(Size - 1)
      /\ InstAt(index) = callInsts[index + 1]
      /\ InstAt(index) \in Inst \ InvokeInst
  BY <1>1, AcceptedIsLive, InstAtType
<1>3. /\ live' = live \ {InstAt(index)}
      /\ live' \subseteq Inst
      /\ users' \in [Inst -> SUBSET (Inst \union {Other})]
      /\ users'[InstAt(index)] = {}
      /\ \A i \in Inst : users'[i] \subseteq users[i]
  BY <1>2, EraseEffects DEF RemoveFromParent, EraseInst
<1>4. PointersDistinct' /\ DeletedInRange' /\ ErasedIsDeleted' /\ NoUseOfErased'
  BY <1>1, <1>3, ErasingPreserves DEF RemoveFromParent, EraseInst
<1>5. TypeOK' /\ MutatorsNeverDangle'
  <2>1. "removeFromParent" \in Abs!Mutators
    BY DEF Abs!Mutators
  <2>2. tail' \in [InvokeInst -> Seq({"invoke", "branch", "replacement"})]
    BY DEF IInv, TypeOK, RemoveFromParent, EraseInst
  <2> QED
    BY <1>1, <1>2, <1>3, <2>1, <2>2, MutationType DEF RemoveFromParent, EraseInst
<1>6. TailShape'
  BY <1>2, <1>3 DEF IInv, TailShape, RemoveFromParent, EraseInst
<1> QED
  BY <1>4, <1>5, <1>6 DEF IInv

\* The tail of an invoke that is rewritten: the branch replaces it.
LEMMA TailRewritten ==
  ASSUME IInv, NEW i \in InvokeInst, live' = live \ {i}, i \in live,
         NEW new \in {<<"branch">>, <<"replacement", "branch">>},
         tail' = [tail EXCEPT ![i] = new]
  PROVE  /\ TailShape'
         /\ tail' \in [InvokeInst -> Seq({"invoke", "branch", "replacement"})]
<1>1. tail \in [InvokeInst -> Seq({"invoke", "branch", "replacement"})]
  BY DEF IInv, TypeOK
<1>2. new \in Seq({"invoke", "branch", "replacement"})
  BY TailType
<1>3. TailShape'
  <2> SUFFICES ASSUME NEW j \in InvokeInst
               PROVE  /\ j \in live' => tail'[j] = <<"invoke">>
                      /\ j \notin live' =>
                           tail'[j] \in {<<"branch">>, <<"replacement", "branch">>}
    BY DEF TailShape
  <2>1. CASE j = i
    BY <1>1, <2>1
  <2>2. CASE j # i
    BY <1>1, <2>2 DEF IInv, TailShape
  <2> QED
    BY <2>1, <2>2
<1> QED
  BY <1>1, <1>2, <1>3

\* Erasing a call, which terminates no block, leaves the tails as they were.
LEMMA TailKept ==
  ASSUME IInv, NEW c \in Inst \ InvokeInst, live' = live \ {c}, tail' = tail
  PROVE  /\ TailShape'
         /\ tail' \in [InvokeInst -> Seq({"invoke", "branch", "replacement"})]
  BY DEF IInv, TypeOK, TailShape

LEMMA RemoveFromParentRepZeroPreserves ==
  ASSUME IInv, NEW index \in Index, RemoveFromParentRepZero(index)
  PROVE  IInv'
<1> DEFINE inst == InstAt(index)
<1>1. IsValidIndex(index) >= 0
  BY DEF RemoveFromParentRepZero
<1>2. index \in 0..(Size - 1) /\ inst \in live /\ inst \in Inst
      /\ (IsCall(index) => inst \notin InvokeInst)
      /\ (~IsCall(index) => inst \in InvokeInst)
  BY <1>1, AcceptedIsLive, InstAtType DEF IsCall
<1>3. EraseFromParentOrReplace(inst)
  BY DEF RemoveFromParentRepZero, EraseInvokeOrRep
<1>4. /\ live' = live \ {inst}
      /\ live' \subseteq Inst
      /\ users' \in [Inst -> SUBSET (Inst \union {Other})]
      /\ users'[inst] = {}
      /\ \A i \in Inst : users'[i] \subseteq users[i]
  <2> HIDE DEF inst
  <2> QED
    BY <1>2, <1>3, EraseEffects DEF EraseFromParentOrReplace
<1>5. PointersDistinct' /\ DeletedInRange' /\ ErasedIsDeleted' /\ NoUseOfErased'
  BY <1>1, <1>4, ErasingPreserves DEF RemoveFromParentRepZero
<1>6. TailShape' /\ tail' \in [InvokeInst -> Seq({"invoke", "branch", "replacement"})]
  <2>1. CASE IsCall(index) /\ tail' = tail
    BY <1>2, <1>4, <2>1, TailKept
  <2>2. CASE ~IsCall(index) /\ EraseInvokeOrRep(inst)
    <3>1. inst \in InvokeInst /\ tail[inst] = <<"invoke">>
      BY <1>2, <2>2 DEF IInv, TailShape
    <3>2. tail' = [tail EXCEPT ![inst] = <<"branch">>]
      BY <2>2, <3>1, TailRewrites DEF EraseInvokeOrRep
    <3> HIDE DEF inst
    <3> QED
      BY <1>2, <1>4, <3>1, <3>2, TailRewritten
  <2> QED
    BY <2>1, <2>2 DEF RemoveFromParentRepZero
<1>7. TypeOK' /\ MutatorsNeverDangle'
  <2>1. "removeFromParentRepZero" \in Abs!Mutators
    BY DEF Abs!Mutators
  <2> QED
    BY <1>1, <1>4, <1>6, <2>1, MutationType DEF RemoveFromParentRepZero
<1> QED
  BY <1>5, <1>6, <1>7 DEF IInv

LEMMA ReplaceInstWithInstPreserves ==
  ASSUME IInv, NEW index \in Index, ReplaceInstWithInst(index)
  PROVE  IInv'
<1> DEFINE inst == InstAt(index)
<1>1. IsValidIndex(index) >= 0
  BY DEF ReplaceInstWithInst
<1>2. index \in 0..(Size - 1) /\ inst \in live /\ inst \in Inst
      /\ (IsCall(index) => inst \notin InvokeInst)
      /\ (~IsCall(index) => inst \in InvokeInst)
  BY <1>1, AcceptedIsLive, InstAtType DEF IsCall
<1>3. /\ live' = live \ {inst}
      /\ live' \subseteq Inst
      /\ users' \in [Inst -> SUBSET (Inst \union {Other})]
      /\ users'[inst] = {}
      /\ \A i \in Inst : users'[i] \subseteq users[i]
  <2>1. ReplaceUsesAndErase(inst)
    BY DEF ReplaceInstWithInst
  <2> HIDE DEF inst
  <2> QED
    BY <1>2, <2>1, EraseEffects
<1>4. PointersDistinct' /\ DeletedInRange' /\ ErasedIsDeleted' /\ NoUseOfErased'
  BY <1>1, <1>3, ErasingPreserves DEF ReplaceInstWithInst
<1>5. TailShape' /\ tail' \in [InvokeInst -> Seq({"invoke", "branch", "replacement"})]
  <2>1. CASE IsCall(index)
    BY <1>2, <1>3, <2>1, TailKept DEF ReplaceInstWithInst
  <2>2. CASE ~IsCall(index)
    <3>1. inst \in InvokeInst /\ tail[inst] = <<"invoke">>
      BY <1>2, <2>2 DEF IInv, TailShape
    <3>2. tail' = [tail EXCEPT ![inst] = <<"replacement", "branch">>]
      BY <2>2, <3>1, TailRewrites DEF ReplaceInstWithInst
    <3> HIDE DEF inst
    <3> QED
      BY <1>2, <1>3, <3>1, <3>2, TailRewritten
  <2> QED
    BY <2>1, <2>2
<1>6. TypeOK' /\ MutatorsNeverDangle'
  <2>1. "replaceInstWithInst" \in Abs!Mutators
    BY DEF Abs!Mutators
  <2> QED
    BY <1>1, <1>3, <1>5, <2>1, MutationType DEF ReplaceInstWithInst
<1> QED
  BY <1>4, <1>5, <1>6 DEF IInv

LEMMA MarkMutatedPreserves ==
  ASSUME IInv, NEW index \in Index, MarkMutated(index)
  PROVE  IInv'
<1>1. index \in 0..(Size - 1) /\ InstAt(index) \in live
  BY AcceptedIsLive DEF MarkMutated
<1>2. \A n : InstAt(n)' = InstAt(n)
  BY DEF InstAt, IsCall, MarkMutated
<1>3. Size' = Size
  BY DEF Size, MarkMutated
<1>4. TypeOK' /\ MutatorsNeverDangle'
  <2>1. "markMutated" \in Abs!Mutators
    BY DEF Abs!Mutators
  <2>2. Follow("markMutated", {InstAt(index)})
    BY <1>1 DEF Follow, MarkMutated
  <2>3. /\ live' \subseteq Inst
        /\ users' \in [Inst -> SUBSET (Inst \union {Other})]
        /\ tail' \in [InvokeInst -> Seq({"invoke", "branch", "replacement"})]
    BY DEF IInv, TypeOK, MarkMutated, irVars
  <2> QED
    BY <2>1, <2>2, <2>3, MutationType DEF MarkMutated
<1>5. PointersDistinct' /\ TailShape' /\ NoUseOfErased'
  BY DEF IInv, PointersDistinct, TailShape, NoUseOfErased, MarkMutated, searchVars, irVars
<1>6. DeletedInRange' /\ ErasedIsDeleted'
  BY <1>1, <1>2, <1>3
  DEF IInv, DeletedInRange, ErasedIsDeleted, MarkMutated, Ready, searchVars, irVars
<1> QED
  BY <1>4, <1>5, <1>6 DEF IInv

\* Set-up and the debug print touch neither the registry nor the module.
LEMMA SideActionsPreserve ==
  ASSUME IInv,
         \/ \E name \in Names : AddFuncNameToSearch(name)
         \/ SearchCpp
         \/ PrintInstDebugInfo
  PROVE  IInv'
<1>1. UNCHANGED <<visited, registryVars, irVars, last>>
  BY DEF AddFuncNameToSearch, SearchCpp, PrintInstDebugInfo, searchVars
<1>2. /\ funcNames' \subseteq Names
      /\ isCpp' \in BOOLEAN
      /\ dangling' \subseteq {"printInstDebugInfo"}
  BY DEF IInv, TypeOK, MutatorsNeverDangle, AddFuncNameToSearch, SearchCpp,
         PrintInstDebugInfo, Follow, searchVars
<1>3. \A n : InstAt(n)' = InstAt(n)
  BY <1>1 DEF InstAt, IsCall, registryVars
<1>4. Size' = Size
  BY <1>1 DEF Size, registryVars
<1>5. TypeOK' /\ MutatorsNeverDangle'
  BY <1>1, <1>2 DEF IInv, TypeOK, MutatorsNeverDangle, registryVars, irVars
<1> QED
  BY <1>1, <1>3, <1>4, <1>5
  DEF IInv, PointersDistinct, DeletedInRange, ErasedIsDeleted, NoUseOfErased,
      TailShape, registryVars, irVars

LEMMA NextIInv == IInv /\ [Next]_vars => IInv'
<1> SUFFICES ASSUME IInv, [Next]_vars PROVE IInv'
  OBVIOUS
<1>1. CASE \/ \E name \in Names : AddFuncNameToSearch(name)
           \/ SearchCpp
           \/ PrintInstDebugInfo
  BY <1>1, SideActionsPreserve
<1>2. CASE Visit
  BY <1>2, VisitPreserves
<1>3. ASSUME NEW index \in Index, NEW op \in Abs!Queries, QueryIndex(op, index)
      PROVE  IInv'
  <2>1. IsValidIndex(index) \in {-3, -2, -1, 0, 1}
    BY ValidIndex
  <2> QED
    BY <1>3, <2>1, AnswerPreserves DEF QueryIndex
<1>4. ASSUME NEW index \in Index, NEW op \in Abs!Mutators, Refuse(op, index)
      PROVE  IInv'
  <2>1. IsValidIndex(index) \in {-3, -2, -1, 0, 1}
    BY ValidIndex
  <2> QED
    BY <1>4, <2>1, AnswerPreserves DEF Refuse
<1>5. ASSUME NEW index \in Index, RemoveFromParentDeclines(index)
      PROVE  IInv'
  <2>1. "removeFromParent" \in Abs!Mutators
    BY DEF Abs!Mutators
  <2>2. dangling' = dangling
    <3>1. CASE IsValidIndex(index) = 0 /\ Follow("removeFromParent", {callInsts[index + 1]})
      <4>1. callInsts[index + 1] \in live
        BY <3>1, AcceptedIsLive, InstAtType, ValidIndex
      <4> QED
        BY <3>1, <4>1 DEF Follow
    <3> QED
      BY <1>5, <3>1 DEF RemoveFromParentDeclines
  <2>3. PICK ret \in {-3, 1} : Return("removeFromParent", index, ret)
    BY <1>5 DEF RemoveFromParentDeclines
  <2> QED
    BY <1>5, <2>1, <2>2, <2>3, AnswerPreserves DEF RemoveFromParentDeclines
<1>6. CASE UNCHANGED vars
  <2>1. \A n : InstAt(n)' = InstAt(n)
    BY <1>6 DEF InstAt, IsCall, vars, registryVars
  <2>2. Size' = Size
    BY <1>6 DEF Size, vars, registryVars
  <2>3. TypeOK' /\ MutatorsNeverDangle'
    BY <1>6 DEF IInv, TypeOK, MutatorsNeverDangle, vars, searchVars, registryVars, irVars
  <2> QED
    BY <1>6, <2>1, <2>2, <2>3
    DEF IInv, PointersDistinct, DeletedInRange, ErasedIsDeleted, NoUseOfErased,
        TailShape, vars, searchVars, registryVars, irVars
<1> QED
  BY <1>1, <1>2, <1>3, <1>4, <1>5, <1>6, RemoveFromParentPreserves,
     RemoveFromParentRepZeroPreserves, ReplaceInstWithInstPreserves,
     MarkMutatedPreserves
  DEF Next, Operation

\* The inductive invariant holds throughout.
THEOREM Invariance == Spec => []IInv
  BY InitIInv, NextIInv, PTL DEF Spec

\* Type correctness.
THEOREM TypeCorrect == Spec => []TypeOK
<1>1. IInv => TypeOK
  BY DEF IInv
<1> QED
  BY <1>1, Invariance, PTL

\* No operation that changes the module ever follows a pointer to an erased
\* instruction, whatever positions are named in whatever order.
THEOREM NeverDangles == Spec => []MutatorsNeverDangle
<1>1. IInv => MutatorsNeverDangle
  BY DEF IInv
<1> QED
  BY <1>1, Invariance, PTL

\* The registry knows every enumerated instruction that is gone.
THEOREM ErasedAreDeleted == Spec => []ErasedIsDeleted
<1>1. IInv => ErasedIsDeleted
  BY DEF IInv
<1> QED
  BY <1>1, Invariance, PTL

\* No instruction is destroyed while its value is used.
THEOREM ErasedAreUnused == Spec => []NoUseOfErased
<1>1. IInv => NoUseOfErased
  BY DEF IInv
<1> QED
  BY <1>1, Invariance, PTL

\* The shapes of TailShape have one terminator, at their end.
LEMMA OneTerminatorFollows == IInv => OneTerminator
<1> SUFFICES ASSUME IInv, NEW i \in InvokeInst
             PROVE  /\ Len(tail[i]) > 0
                    /\ IsTerminator(tail[i][Len(tail[i])])
                    /\ \A n \in 1..(Len(tail[i]) - 1) : ~IsTerminator(tail[i][n])
  BY DEF OneTerminator
<1>1. CASE tail[i] = <<"invoke">>
  BY <1>1 DEF IsTerminator
<1>2. CASE tail[i] = <<"branch">>
  BY <1>2 DEF IsTerminator
<1>3. CASE tail[i] = <<"replacement", "branch">>
  BY <1>3 DEF IsTerminator
<1> QED
  BY <1>1, <1>2, <1>3 DEF IInv, TailShape

\* A block that loses its invoke is terminated by one branch, at its end.
THEOREM BlocksTerminated == Spec => []OneTerminator
  BY OneTerminatorFollows, Invariance, PTL

-----------------------------------------------------------------------------
(* The class implements OccurrenceSet *)

LEMMA AbsInitStep == Init => Abs!AbsInit
<1> SUFFICES ASSUME Init PROVE Abs!AbsInit
  OBVIOUS
<1>1. Size = 0 /\ Len(callInsts) = 0
  BY DEF Init, Size
<1>2. Used = {}
  BY <1>1 DEF Used
<1> QED
  BY <1>1, <1>2 DEF Init, Abs!AbsInit

\* The used positions depend on the vectors and on the uses alone.
LEMMA UsedKept ==
  ASSUME UNCHANGED <<callInsts, invokeInsts, users>>
  PROVE  Used' = Used /\ Size' = Size
  BY DEF Used, Size, InstAt, IsCall

\* A position in use, seen from its instruction.
LEMMA UsedAt ==
  ASSUME NEW index \in 0..(Size - 1)
  PROVE  index \in Used <=> users[InstAt(index)] # {}
  BY DEF Used

\* A query, a refusal and a declined removal are answers of the abstract set.
LEMMA AbsAnswer ==
  ASSUME IInv, NEW op \in Abs!Mutators \union Abs!Queries, NEW index \in Index,
         UNCHANGED <<registryVars, irVars>>,
         NEW ret, Return(op, index, ret),
         \/ ret = IsValidIndex(index) /\ (op \in Abs!Queries \/ ret < 0)
         \/ /\ op = "removeFromParent"
            /\ \/ IsValidIndex(index) = 1 /\ ret = 1
               \/ /\ IsValidIndex(index) = 0 /\ ret = -3
                  /\ users[callInsts[index + 1]] # {}
  PROVE  Abs!AbsNext
<1>1. /\ Used' = Used /\ Size' = Size
      /\ Len(callInsts)' = Len(callInsts)
      /\ deletedIndices' = deletedIndices
      /\ Abs!Answer(op, index, ret)
  BY UsedKept DEF registryVars, irVars, Return, Abs!Answer
<1>2. IsValidIndex(index) \in {-2, -1, 0, 1}
  BY ValidIndex
<1>3. index \in Nat /\ Size \in Nat /\ Len(callInsts) \in Nat
      /\ Len(callInsts) <= Size
  BY IndexAssumption DEF IInv, TypeOK, Size
<1>4. CASE ret = IsValidIndex(index) /\ ret = -1
  BY <1>1, <1>3, <1>4, ValidIndex DEF Abs!AbsNext, Abs!Request, Abs!OutOfBounds
<1>5. CASE ret = IsValidIndex(index) /\ ret = -2
  BY <1>1, <1>5, ValidIndex DEF Abs!AbsNext, Abs!Request, Abs!AlreadyMutated
<1>6. CASE ret = IsValidIndex(index) /\ ret \in {0, 1} /\ op \in Abs!Queries
  <2>1. index < Size /\ index \notin deletedIndices
    BY <1>3, <1>6, ValidIndex
  <2>2. ret = IF index < Len(callInsts) THEN 0 ELSE 1
    BY <1>3, <1>6, ValidIndex
  <2>3. Abs!Inspect(op, index)
    BY <1>1, <1>6, <2>1, <2>2 DEF Abs!Inspect, Abs!Fresh
  <2> QED
    BY <1>6, <2>3 DEF Abs!AbsNext, Abs!Request
<1>7. CASE op = "removeFromParent" /\ IsValidIndex(index) = 1 /\ ret = 1
  <2>1. index < Size /\ index \notin deletedIndices /\ index >= Len(callInsts)
    BY <1>3, <1>7, ValidIndex
  <2>2. Abs!Decline(op, index)
    BY <1>1, <1>7, <2>1 DEF Abs!Decline, Abs!Fresh
  <2> QED
    BY <1>7, <2>2 DEF Abs!AbsNext, Abs!Request
<1>8. CASE /\ op = "removeFromParent" /\ IsValidIndex(index) = 0 /\ ret = -3
           /\ users[callInsts[index + 1]] # {}
  <2>1. index < Size /\ index \notin deletedIndices /\ index < Len(callInsts)
    BY <1>3, <1>8, ValidIndex
  <2>2. index \in Used
    <3>1. index \in 0..(Size - 1) /\ InstAt(index) = callInsts[index + 1]
      BY <1>3, <2>1 DEF InstAt, IsCall
    <3> QED
      BY <1>8, <3>1, UsedAt
  <2>3. Abs!Decline(op, index)
    BY <1>1, <1>8, <2>1, <2>2 DEF Abs!Decline, Abs!Fresh
  <2> QED
    BY <1>8, <2>3 DEF Abs!AbsNext, Abs!Request
<1> QED
  BY <1>2, <1>4, <1>5, <1>6, <1>7, <1>8

\* Every mutation that succeeds is the abstract one: what it did to the uses is
\* one of the outcomes the abstract set allows.
LEMMA AbsMutate ==
  ASSUME IInv, NEW op \in Abs!Mutators, NEW index \in Index,
         IsValidIndex(index) >= 0, Return(op, index, 0),
         op = "removeFromParent" =>
           IsValidIndex(index) = 0 /\ users[callInsts[index + 1]] = {},
         deletedIndices' = deletedIndices \union {index},
         UNCHANGED <<callInsts, invokeInsts>>,
         IF op = "markMutated" THEN users' = users
         ELSE /\ users'[InstAt(index)] = {}
              /\ \A i \in Inst : users'[i] \subseteq users[i]
  PROVE  Abs!AbsNext
<1>1. index \in 0..(Size - 1) /\ index \notin deletedIndices
  BY AcceptedIsLive
<1>2. Len(callInsts) \in Nat /\ Len(invokeInsts) \in Nat /\ index \in Nat
  BY IndexAssumption DEF IInv, TypeOK
<1>3. Abs!Fresh(index)
  BY <1>1, <1>2 DEF Abs!Fresh, Size
<1>4. op = "removeFromParent" => index < Len(callInsts) /\ index \notin Used
  <2> SUFFICES ASSUME op = "removeFromParent"
               PROVE  index < Len(callInsts) /\ index \notin Used
    OBVIOUS
  <2>1. index < Len(callInsts)
    BY ValidIndex
  <2>2. InstAt(index) = callInsts[index + 1]
    BY <2>1 DEF InstAt, IsCall
  <2> QED
    BY <1>1, <2>1, <2>2, UsedAt
<1>5. Size' = Size /\ \A n : InstAt(n)' = InstAt(n)
  BY DEF Size, InstAt, IsCall
<1>6. IF op = "markMutated" THEN Used' = Used ELSE Used' \in SUBSET (Used \ {index})
  <2>1. CASE op = "markMutated"
    BY <2>1, UsedKept
  <2>2. CASE op # "markMutated"
    <3> SUFFICES ASSUME NEW n \in Used' PROVE n \in Used /\ n # index
      BY <2>2
    <3>1. n \in 0..(Size - 1) /\ users'[InstAt(n)] # {}
      BY <1>5 DEF Used
    <3>2. InstAt(n) \in Inst
      BY <3>1, InstAtType
    <3>3. users[InstAt(n)] # {}
      BY <2>2, <3>1, <3>2
    <3> QED
      BY <2>2, <3>1, <3>3 DEF Used
  <2> QED
    BY <2>1, <2>2
<1>7. Abs!Mutate(op, index)
  BY <1>3, <1>4, <1>5, <1>6 DEF Abs!Mutate, Abs!Answer, Return
<1> QED
  BY <1>7 DEF Abs!AbsNext, Abs!Request

\* What a successful mutator does, in the terms of AbsMutate.
LEMMA MutatorEffects ==
  ASSUME IInv, NEW index \in Index,
         \/ RemoveFromParent(index)
         \/ RemoveFromParentRepZero(index)
         \/ ReplaceInstWithInst(index)
  PROVE  /\ users'[InstAt(index)] = {}
         /\ \A i \in Inst : users'[i] \subseteq users[i]
<1>1. IsValidIndex(index) >= 0
  BY DEF RemoveFromParent, RemoveFromParentRepZero, ReplaceInstWithInst
<1>2. index \in 0..(Size - 1) /\ InstAt(index) \in Inst
  BY <1>1, AcceptedIsLive, InstAtType
<1>3. \/ ReplaceUsesAndErase(InstAt(index))
      \/ users[InstAt(index)] = {} /\ Erase(InstAt(index))
  <2>1. CASE RemoveFromParent(index)
    <3>1. InstAt(index) = callInsts[index + 1]
      BY <2>1, ValidIndex DEF RemoveFromParent, InstAt, IsCall
    <3> QED
      BY <2>1, <3>1 DEF RemoveFromParent, EraseInst
  <2>2. CASE RemoveFromParentRepZero(index)
    BY <2>2 DEF RemoveFromParentRepZero, EraseInvokeOrRep, EraseFromParentOrReplace
  <2>3. CASE ReplaceInstWithInst(index)
    BY <2>3 DEF ReplaceInstWithInst
  <2> QED
    BY <2>1, <2>2, <2>3
<1> DEFINE inst == InstAt(index)
<1>4. inst \in Inst /\ (ReplaceUsesAndErase(inst) \/ (users[inst] = {} /\ Erase(inst)))
  BY <1>2, <1>3
<1>5. users'[inst] = {} /\ \A i \in Inst : users'[i] \subseteq users[i]
  <2> HIDE DEF inst
  <2> QED
    BY <1>4, EraseEffects
<1> QED
  BY <1>5

\* Enumerating one more occurrence keeps the used positions in range.
LEMMA UsedInRange == Used \subseteq 0..(Size - 1)
  BY DEF Used

LEMMA AbsStep == IInv /\ [Next]_vars => [Abs!AbsNext]_(Abs!absVars)
<1> SUFFICES ASSUME IInv, [Next]_vars PROVE [Abs!AbsNext]_(Abs!absVars)
  OBVIOUS
<1>1. CASE \/ \E name \in Names : AddFuncNameToSearch(name)
           \/ SearchCpp
           \/ PrintInstDebugInfo
           \/ UNCHANGED vars
  BY <1>1 DEF AddFuncNameToSearch, SearchCpp, PrintInstDebugInfo, vars,
              registryVars, irVars, Size, Used, InstAt, IsCall, Abs!absVars
<1>2. CASE Visit
  <2>1. deletedIndices = {} /\ deletedIndices' = deletedIndices /\ last' = last
        /\ users' = users
    BY <1>2 DEF IInv, TypeOK, DeletedInRange, Visit, irVars
  <2>2. callInsts \in Seq(Inst \ InvokeInst) /\ invokeInsts \in Seq(InvokeInst)
    BY DEF IInv, TypeOK
  <2> DEFINE inst == Layout[visited + 1]
  <2>3. /\ Len(Append(callInsts, inst)) = Len(callInsts) + 1
        /\ Len(Append(invokeInsts, inst)) = Len(invokeInsts) + 1
        /\ Len(callInsts) \in Nat /\ Len(invokeInsts) \in Nat
    <3> HIDE DEF inst
    <3> QED
      BY <2>2
  <2>4. \/ callInsts' = Append(callInsts, inst) /\ invokeInsts' = invokeInsts
        \/ invokeInsts' = Append(invokeInsts, inst) /\ callInsts' = callInsts
        \/ callInsts' = callInsts /\ invokeInsts' = invokeInsts
    BY <1>2 DEF Visit, VisitCallInst, VisitInvokeInst
  <2>5. CASE callInsts' = callInsts /\ invokeInsts' = invokeInsts
    BY <2>1, <2>5, UsedKept DEF Abs!absVars
  <2>6. CASE \/ callInsts' = Append(callInsts, inst) /\ invokeInsts' = invokeInsts
             \/ invokeInsts' = Append(invokeInsts, inst) /\ callInsts' = callInsts
    <3>1. Size' = Size + 1 /\ Len(callInsts)' \in {Len(callInsts), Len(callInsts) + 1}
      <4> HIDE DEF inst
      <4> QED
        BY <2>3, <2>6 DEF Size
    <3>2. Used' \subseteq 0..(Size' - 1)
      BY UsedInRange DEF Used, Size
    <3>3. Used' \in SUBSET (0..Size)
      <4>1. Size' - 1 = Size
        BY <2>3, <3>1 DEF Size
      <4> QED
        BY <3>2, <4>1
    <3> QED
      BY <2>1, <3>1, <3>3 DEF Abs!AbsNext, Abs!Enumerate
  <2> QED
    BY <2>4, <2>5, <2>6
<1>3. ASSUME NEW index \in Index, NEW op \in Abs!Queries, QueryIndex(op, index)
      PROVE  Abs!AbsNext
  BY <1>3, AbsAnswer DEF QueryIndex
<1>4. ASSUME NEW index \in Index, NEW op \in Abs!Mutators, Refuse(op, index)
      PROVE  Abs!AbsNext
  BY <1>4, AbsAnswer DEF Refuse
<1>5. ASSUME NEW index \in Index, RemoveFromParentDeclines(index)
      PROVE  Abs!AbsNext
  <2>1. "removeFromParent" \in Abs!Mutators
    BY DEF Abs!Mutators
  <2>2. CASE /\ IsValidIndex(index) = 0 /\ users[callInsts[index + 1]] # {}
             /\ Return("removeFromParent", index, -3)
    BY <1>5, <2>1, <2>2, AbsAnswer DEF RemoveFromParentDeclines
  <2>3. CASE IsValidIndex(index) = 1 /\ Return("removeFromParent", index, 1)
    BY <1>5, <2>1, <2>3, AbsAnswer DEF RemoveFromParentDeclines
  <2> QED
    BY <1>5, <2>2, <2>3 DEF RemoveFromParentDeclines
<1>6. ASSUME NEW index \in Index,
             \/ RemoveFromParent(index)
             \/ RemoveFromParentRepZero(index)
             \/ ReplaceInstWithInst(index)
      PROVE  Abs!AbsNext
  <2>1. {"removeFromParent", "removeFromParentRepZero",
         "replaceInstWithInst"} \subseteq Abs!Mutators \ {"markMutated"}
    BY DEF Abs!Mutators
  <2>2. IsValidIndex(index) >= 0
    BY <1>6 DEF RemoveFromParent, RemoveFromParentRepZero, ReplaceInstWithInst
  <2>3. /\ deletedIndices' = deletedIndices \union {index}
        /\ UNCHANGED <<callInsts, invokeInsts>>
    BY <1>6 DEF RemoveFromParent, RemoveFromParentRepZero, ReplaceInstWithInst,
                EraseInst
  <2>4. PICK op \in Abs!Mutators \ {"markMutated"} :
          /\ Return(op, index, 0)
          /\ op = "removeFromParent" =>
               IsValidIndex(index) = 0 /\ users[callInsts[index + 1]] = {}
    BY <1>6, <2>1 DEF RemoveFromParent, RemoveFromParentRepZero, ReplaceInstWithInst
  <2> QED
    BY <1>6, <2>2, <2>3, <2>4, MutatorEffects, AbsMutate
<1>7. ASSUME NEW index \in Index, MarkMutated(index)
      PROVE  Abs!AbsNext
  <2>1. "markMutated" \in Abs!Mutators
    BY DEF Abs!Mutators
  <2> QED
    BY <1>7, <2>1, AbsMutate DEF MarkMutated, irVars
<1> QED
  BY <1>1, <1>2, <1>3, <1>4, <1>5, <1>6, <1>7 DEF Next, Operation

\* Each occurrence is mutated at most once, and each request gets the code for
\* what happened, the code being determined by the position, its kind and its
\* uses: EnumerateCallInst implements OccurrenceSet.
THEOREM Refinement == Spec => ImplementsOccurrenceSet
  BY AbsInitStep, AbsStep, Invariance, PTL
  DEF Spec, ImplementsOccurrenceSet, Abs!AbsSpec
=============================================================================
