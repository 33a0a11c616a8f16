----------------------- MODULE CondWaitPasses_proofs -----------------------
(***************************************************************************)
(* Theorems about the passes of CondWaitPasses, for every module, every    *)
(* use of the waits, every command line.                                   *)
(*                                                                         *)
(* The lemmas of EnumerateCallInst_proofs are instantiated as P.  They     *)
(* apply as long as the class is used through its operations; PosixCondWait*)
(* -switch edits the module behind the class's back (Behind), and then     *)
(* only the types and the distinctness of the pointers are left.           *)
(***************************************************************************)
EXTENDS CondWaitPasses, FiniteSetTheorems, SequenceTheorems, TLAPS

P == INSTANCE EnumerateCallInst_proofs

-----------------------------------------------------------------------------
(* The inductive invariant *)

Behind ==
  cmd.pass = "PosixCondWait" /\ Given("switch") /\ pc \notin {"args", "exit", "search"}
Class ==
  /\ P!TypeOK /\ P!PointersDistinct
  /\ ~Behind => P!IInv

\* What each stage can rely on
Stages ==
  /\ pc \in {"args", "search", "exit"} => i = 0
  /\ i = 0 => live = Inst /\ target = RawName /\ code = LoadedCode
  /\ pc \in {"loop", "ran", "done"} => visited = Len(Layout)
  /\ pc \notin {"args", "exit"} => ArgsAccepted
  /\ pc # "fault" => fault = "none" /\ dangling = {}
  /\ IsFiniteSet(funcNames)

\* PosixCondWait finds the calls of its two functions, by their raw names.
PosixFound ==
  cmd.pass = "PosixCondWait" =>
    /\ ~isCpp
    /\ \A name \in funcNames : name \in {"pthread_cond_wait", "pthread_cond_timedwait"}
    /\ \A n \in 1..Len(callInsts) :
         RawName[callInsts[n]] \in {"pthread_cond_wait", "pthread_cond_timedwait"}

\* Only handled positions are registered; only -rm and PosixCondWait -switch erase.
DeletedHandled == Given("rm") => deletedIndices \subseteq Handled
ErasedByMode == live # Inst => Given("rm") \/ (cmd.pass = "PosixCondWait" /\ Given("switch"))

\* `modified` tells whether an instruction was erased; -tmod sets it at the end.
Reported ==
  /\ live # Inst => modified
  /\ modified /\ ~Given("tmod") => live # Inst
  /\ Given("tmod") /\ Ran => modified

\* Functions only grow, and only under -tmod; every call stays where it can be found.
CodeKept ==
  /\ \A f \in 1..Len(Bodies) : Len(code[f]) >= Len(Bodies[f])
  /\ ~Given("tmod") => code = LoadedCode
  /\ \A inst \in Inst : \E n \in 1..Len(code[FuncOf(inst)]) :
       code[FuncOf(inst)][n].step = "inst" /\ code[FuncOf(inst)][n].of = inst

\* The occurrences are as asked for after every turn that did not fault.
Exact == pc # "fault" => \A index \in 0..(Calls!Size - 1) : AsAsked(index)

PassIInv ==
  /\ TypeOK /\ Class /\ Stages /\ PosixFound /\ DeletedHandled /\ ErasedByMode /\ Reported
  /\ CodeKept /\ Exact /\ FaultsExplained

-----------------------------------------------------------------------------
(* The two instances of the class *)

\* What the class assumes of its constants is assumed here too.
LEMMA ClassConstants ==
  /\ Inst = P!Inst /\ Inst = Calls!Inst /\ P!Other = Calls!Other
  /\ Layout \in Seq(Inst)
  /\ InvokeInst \subseteq Inst
  /\ Index \subseteq Nat
  BY LayoutAssumption, IndexAssumption DEF Inst, P!Inst, Calls!Inst, P!Other, Calls!Other

\* The operators of the instances are the same.
LEMMA SameOperators ==
  /\ P!Size = Calls!Size
  /\ \A index : /\ P!InstAt(index) = Calls!InstAt(index)
                /\ P!IsCall(index) = Calls!IsCall(index)
                /\ P!IsValidIndex(index) = Calls!IsValidIndex(index)
  BY DEF P!Size, Calls!Size, P!InstAt, Calls!InstAt, P!IsCall, Calls!IsCall,
         P!IsValidIndex, Calls!IsValidIndex

LEMMA SameTypes == P!TypeOK <=> Calls!TypeOK
  BY DEF P!TypeOK, Calls!TypeOK, P!Inst, Calls!Inst, P!Other, Calls!Other,
         P!Abs!Mutators, P!Abs!Queries, Calls!Abs!Mutators, Calls!Abs!Queries

\* The class keeps its invariant (NextIInv, with its assumptions discharged).
LEMMA ClassInductive ==
  /\ Calls!Init => P!IInv
  /\ P!IInv /\ [P!Next]_(P!vars) => P!IInv'
<1>1. P!Init => P!IInv
  BY P!InitIInv, LayoutAssumption, NameAssumption, UsersAssumption, IndexAssumption,
     ClassConstants DEF Calls!Other
<1>2. Calls!Init => P!Init
  BY DEF P!Init, Calls!Init, P!Inst, Calls!Inst
<1>3. P!IInv /\ [P!Next]_(P!vars) => P!IInv'
  BY P!NextIInv, LayoutAssumption, NameAssumption, UsersAssumption, IndexAssumption,
     ClassConstants DEF Calls!Other
<1> QED
  BY <1>1, <1>2, <1>3

\* Each operation the passes call is a step of the class.
LEMMA ClassSteps ==
  /\ \A name \in Names : Calls!AddFuncNameToSearch(name) => P!Next
  /\ Calls!SearchCpp => P!Next
  /\ Calls!Visit => P!Next
  /\ Calls!PrintInstDebugInfo => P!Next
  /\ \A index \in Index :
       /\ \A op : Calls!QueryIndex(op, index) => P!Next
       /\ \A op : Calls!Refuse(op, index) => P!Next
       /\ Calls!RemoveFromParentRepZero(index) => P!Next
<1> USE DEF P!Next
<1>1. ASSUME NEW name \in Names, Calls!AddFuncNameToSearch(name) PROVE P!Next
  BY <1>1 DEF P!AddFuncNameToSearch, Calls!AddFuncNameToSearch,
     P!registryVars, Calls!registryVars, P!irVars, Calls!irVars
<1>2. ASSUME Calls!SearchCpp PROVE P!Next
  BY <1>2 DEF P!SearchCpp, Calls!SearchCpp,
     P!registryVars, Calls!registryVars, P!irVars, Calls!irVars
<1>3. ASSUME Calls!Visit PROVE P!Next
  BY <1>3 DEF P!Visit, Calls!Visit, P!VisitCallInst, Calls!VisitCallInst,
     P!VisitInvokeInst, Calls!VisitInvokeInst, P!CheckIfMatch, Calls!CheckIfMatch,
     P!irVars, Calls!irVars
<1>4. ASSUME Calls!PrintInstDebugInfo PROVE P!Next
  BY <1>4, SameOperators DEF P!PrintInstDebugInfo, Calls!PrintInstDebugInfo,
     P!Ready, Calls!Ready, P!Follow, Calls!Follow, P!searchVars, Calls!searchVars,
     P!registryVars, Calls!registryVars, P!irVars, Calls!irVars
<1> SUFFICES ASSUME NEW index \in Index
             PROVE  /\ \A op : Calls!QueryIndex(op, index) => P!Operation(index)
                    /\ \A op : Calls!Refuse(op, index) => P!Operation(index)
                    /\ Calls!RemoveFromParentRepZero(index) => P!Operation(index)
  BY <1>1, <1>2, <1>3, <1>4
<1> USE SameOperators DEF P!Operation, P!Ready, Calls!Ready, P!Return, Calls!Return,
     P!Follow, Calls!Follow, P!searchVars, Calls!searchVars,
     P!registryVars, Calls!registryVars, P!irVars, Calls!irVars
<1>5. ASSUME NEW op, Calls!QueryIndex(op, index) PROVE P!Operation(index)
  BY <1>5 DEF P!QueryIndex, Calls!QueryIndex, P!Abs!Queries
<1>6. ASSUME NEW op, Calls!Refuse(op, index) PROVE P!Operation(index)
  BY <1>6 DEF P!Refuse, Calls!Refuse, P!Abs!Mutators, Calls!Abs!Mutators
<1>7. ASSUME Calls!RemoveFromParentRepZero(index) PROVE P!Operation(index)
  BY <1>7 DEF P!RemoveFromParentRepZero, Calls!RemoveFromParentRepZero,
     P!EraseInvokeOrRep, Calls!EraseInvokeOrRep,
     P!EraseFromParentOrReplace, Calls!EraseFromParentOrReplace,
     P!ReplaceUsesAndErase, Calls!ReplaceUsesAndErase,
     P!Erase, Calls!Erase, P!Inst, Calls!Inst
<1> QED
  BY <1>5, <1>6, <1>7

-----------------------------------------------------------------------------
(* The occurrences: they need the types and the distinctness only *)

\* A position leads to a call below Len(callInsts) and to an invoke above.
LEMMA Occurrence ==
  ASSUME P!TypeOK, NEW index \in 0..(Calls!Size - 1)
  PROVE  /\ Calls!InstAt(index) \in Inst
         /\ index < Len(callInsts) =>
              /\ index + 1 \in 1..Len(callInsts)
              /\ Calls!InstAt(index) = callInsts[index + 1]
              /\ Calls!InstAt(index) \notin InvokeInst
         /\ ~(index < Len(callInsts)) =>
              /\ index - Len(callInsts) + 1 \in 1..Len(invokeInsts)
              /\ Calls!InstAt(index) = invokeInsts[index - Len(callInsts) + 1]
              /\ Calls!InstAt(index) \in InvokeInst
<1>1. callInsts \in Seq(Inst \ InvokeInst) /\ invokeInsts \in Seq(InvokeInst)
  BY ClassConstants DEF P!TypeOK
<1>2. Len(callInsts) \in Nat /\ Len(invokeInsts) \in Nat
  BY <1>1
<1>3. Calls!InstAt(index) = IF index < Len(callInsts) THEN callInsts[index + 1]
                            ELSE invokeInsts[index - Len(callInsts) + 1]
  BY DEF Calls!InstAt, Calls!IsCall
<1>4. index < Len(callInsts) => index + 1 \in 1..Len(callInsts)
  BY <1>2
<1>5. ~(index < Len(callInsts)) => index - Len(callInsts) + 1 \in 1..Len(invokeInsts)
  BY <1>2 DEF Calls!Size
<1> QED
  BY <1>1, <1>3, <1>4, <1>5, ClassConstants

\* Different positions lead to different instructions.
LEMMA Injective ==
  ASSUME P!TypeOK, P!PointersDistinct,
         NEW a \in 0..(Calls!Size - 1), NEW b \in 0..(Calls!Size - 1),
         Calls!InstAt(a) = Calls!InstAt(b)
  PROVE  a = b
<1>1. Len(callInsts) \in Nat
  BY DEF P!TypeOK
<1>2. CASE a < Len(callInsts)
  <2>1. b < Len(callInsts)
    BY <1>2, Occurrence
  <2>2. a + 1 = b + 1
    BY <1>2, <2>1, Occurrence DEF P!PointersDistinct
  <2> QED
    BY <2>2
<1>3. CASE ~(a < Len(callInsts))
  <2>1. ~(b < Len(callInsts))
    BY <1>3, Occurrence
  <2> DEFINE m == a - Len(callInsts) + 1
             n == b - Len(callInsts) + 1
  <2>2. /\ m \in 1..Len(invokeInsts) /\ Calls!InstAt(a) = invokeInsts[m]
        /\ n \in 1..Len(invokeInsts) /\ Calls!InstAt(b) = invokeInsts[n]
    BY <1>3, <2>1, Occurrence
  <2>3. m = n
    <3> HIDE DEF m, n
    <3> QED
      BY <2>2 DEF P!PointersDistinct
  <2> QED
    BY <1>1, <2>3
<1> QED
  BY <1>2, <1>3

-----------------------------------------------------------------------------
(* What an operation of the class does to the state a pass depends on *)

\* The request changed nothing.
Left ==
  /\ UNCHANGED <<funcNames, isCpp, visited, callInsts, invokeInsts, deletedIndices, live>>
  /\ dangling' = {}

\* A position that isValidIndex accepts (AcceptedIsLive and ValidIndex).
LEMMA Accepted ==
  ASSUME P!IInv, NEW index \in Index
  PROVE  /\ Calls!IsValidIndex(index) \in {-2, -1, 0, 1}
         /\ Calls!IsValidIndex(index) >= 0 =>
              /\ index \in 0..(Calls!Size - 1) /\ index \notin deletedIndices
              /\ Calls!InstAt(index) \in live
         /\ Calls!IsValidIndex(index) < 0 /\ index \in 0..(Calls!Size - 1) =>
              index \in deletedIndices
<1>1. P!IsValidIndex(index) \in {-2, -1, 0, 1}
  BY P!ValidIndex, LayoutAssumption, NameAssumption, UsersAssumption, IndexAssumption,
     ClassConstants DEF Calls!Other
<1>2. ASSUME P!IsValidIndex(index) >= 0
      PROVE  /\ index \in 0..(P!Size - 1) /\ index \notin deletedIndices
             /\ P!InstAt(index) \in live
  BY <1>2, P!AcceptedIsLive, LayoutAssumption, NameAssumption, UsersAssumption,
     IndexAssumption, ClassConstants DEF Calls!Other
<1>3. ASSUME Calls!IsValidIndex(index) < 0, index \in 0..(Calls!Size - 1)
      PROVE  index \in deletedIndices
  <2>1. Calls!Size \in Nat
    BY DEF P!IInv, P!TypeOK, Calls!Size
  <2>2. ~(index >= Calls!Size)
    BY <1>3, <2>1
  <2> QED
    BY <1>3, <2>2 DEF Calls!IsValidIndex
<1> QED
  BY <1>1, <1>2, <1>3, SameOperators

\* An operation that follows pointers under its own name does not dangle.
LEMMA NotDangling ==
  ASSUME P!IInv', dangling = {}, NEW op, op # "printInstDebugInfo",
         dangling' \in {dangling, dangling \union {op}}
  PROVE  dangling' = {}
  BY DEF P!IInv, P!MutatorsNeverDangle

LEMMA QueryEffect ==
  ASSUME P!IInv, NEW index \in Index, NEW op, Calls!QueryIndex(op, index)
  PROVE  P!IInv' /\ Left
<1>1. P!IInv'
  BY ClassInductive, ClassSteps
<1> QED
  BY <1>1 DEF Left, Calls!QueryIndex, Calls!Ready, Calls!registryVars, Calls!irVars,
         Calls!searchVars

\* A refused position is out of bounds or deleted.
LEMMA RefuseEffect ==
  ASSUME P!IInv, NEW index \in Index, NEW op, Calls!Refuse(op, index)
  PROVE  /\ P!IInv' /\ Left /\ last'.ret \in {-1, -2}
         /\ index \in 0..(Calls!Size - 1) => index \in deletedIndices
<1>1. P!IInv'
  BY ClassInductive, ClassSteps
<1>2. last'.ret \in {-1, -2} /\ Calls!IsValidIndex(index) < 0
  BY Accepted DEF Calls!Refuse, Calls!Return
<1>3. Left
  BY DEF Left, Calls!Refuse, Calls!Ready, Calls!registryVars, Calls!irVars, Calls!searchVars
<1> QED
  BY <1>1, <1>2, <1>3, Accepted

\* An accepted removal takes the instruction at the position.
LEMMA RemoveEffect ==
  ASSUME P!IInv, NEW index \in Index, Calls!RemoveFromParentRepZero(index)
  PROVE  /\ P!IInv' /\ last'.ret = 0 /\ dangling' = {}
         /\ index \in 0..(Calls!Size - 1) /\ Calls!InstAt(index) \in live
         /\ live' = live \ {Calls!InstAt(index)}
         /\ deletedIndices' = deletedIndices \union {index}
         /\ UNCHANGED <<funcNames, isCpp, visited, callInsts, invokeInsts>>
<1>1. P!IInv'
  BY ClassInductive, ClassSteps
<1>2. Calls!IsValidIndex(index) >= 0 /\ dangling = {}
  BY DEF Calls!RemoveFromParentRepZero, Calls!Ready
<1>3. dangling' = {}
  BY <1>1, <1>2, NotDangling DEF Calls!RemoveFromParentRepZero, Calls!Follow
<1>4. live' = live \ {Calls!InstAt(index)}
  BY DEF Calls!RemoveFromParentRepZero, Calls!EraseInvokeOrRep,
         Calls!EraseFromParentOrReplace, Calls!Erase, Calls!ReplaceUsesAndErase
<1>5. /\ deletedIndices' = deletedIndices \union {index}
      /\ UNCHANGED <<funcNames, isCpp, visited, callInsts, invokeInsts>>
      /\ last'.ret = 0
  BY DEF Calls!searchVars, Calls!RemoveFromParentRepZero, Calls!Return
<1> QED
  BY <1>1, <1>2, <1>3, <1>4, <1>5, Accepted

-----------------------------------------------------------------------------
(* The code of the functions *)

Has(s, x) == \E k \in 1..Len(s) : s[k] = x

\* t put in front of element n of s
Splice(s, t, n) == SubSeq(s, 1, n - 1) \o t \o SubSeq(s, n, Len(s))

\* Where the elements of both are
Spliced(r, s, t, n) ==
  /\ Len(r) = Len(s) + Len(t)
  /\ \A m \in 1..(n - 1) : r[m] = s[m]
  /\ \A m \in 1..Len(t) : r[n - 1 + m] = t[m]
  /\ \A m \in n..Len(s) : r[m + Len(t)] = s[m]

LEMMA SplicePlaces ==
  ASSUME NEW S, NEW s \in Seq(S), NEW t \in Seq(S), NEW n \in 1..(Len(s) + 1)
  PROVE  Splice(s, t, n) \in Seq(S) /\ Spliced(Splice(s, t, n), s, t, n)
<1> DEFINE r == Splice(s, t, n)
           a == SubSeq(s, 1, n - 1)
           b == SubSeq(s, n, Len(s))
           c == a \o t
<1>1. Len(s) \in Nat /\ Len(t) \in Nat /\ n \in Nat /\ n - 1 \in 0..Len(s)
  OBVIOUS
<1>2. a \in Seq(S) /\ Len(a) = n - 1 /\ \A k \in 1..(n - 1) : a[k] = s[k]
  BY <1>1
<1>3. /\ b \in Seq(S) /\ Len(b) = Len(s) + 1 - n
      /\ \A k \in 1..(Len(s) + 1 - n) : b[k] = s[n + k - 1]
  BY <1>1
<1>4. r = c \o b
  BY DEF Splice
<1> HIDE DEF r, a, b
<1>5. /\ c \in Seq(S) /\ Len(c) = Len(a) + Len(t)
      /\ \A m \in 1..(Len(a) + Len(t)) : c[m] = IF m <= Len(a) THEN a[m] ELSE t[m - Len(a)]
  BY <1>2, ConcatProperties
<1> HIDE DEF c
<1>6. /\ r \in Seq(S) /\ Len(r) = Len(c) + Len(b)
      /\ \A m \in 1..(Len(c) + Len(b)) : r[m] = IF m <= Len(c) THEN c[m] ELSE b[m - Len(c)]
  <2>1. c \in Seq(S) /\ b \in Seq(S)
    BY <1>3, <1>5
  <2>2. /\ c \o b \in Seq(S) /\ Len(c \o b) = Len(c) + Len(b)
        /\ \A m \in 1..(Len(c) + Len(b)) :
             (c \o b)[m] = IF m <= Len(c) THEN c[m] ELSE b[m - Len(c)]
    BY <2>1, ConcatProperties
  <2> QED
    BY <1>4, <2>2
<1>7. /\ Len(s) \in Nat /\ Len(t) \in Nat /\ n \in Nat /\ 1 <= n /\ n <= Len(s) + 1
      /\ Len(a) = n - 1 /\ Len(b) = Len(s) + 1 - n /\ Len(c) = n - 1 + Len(t)
  <2>1. Len(a) = n - 1 /\ Len(b) = Len(s) + 1 - n
    BY <1>2, <1>3
  <2> QED
    BY <1>1, <1>5, <2>1
<1>8. ASSUME NEW m \in 1..(n - 1) PROVE r[m] = s[m]
  <2>1. m \in 1..(Len(c) + Len(b)) /\ m <= Len(c) /\ m \in 1..(Len(a) + Len(t)) /\ m <= Len(a)
    BY <1>7
  <2> QED
    BY <1>2, <1>5, <1>6, <2>1
<1>9. ASSUME NEW m \in 1..Len(t) PROVE r[n - 1 + m] = t[m]
  <2> DEFINE k == n - 1 + m
  <2>1. /\ k \in 1..(Len(c) + Len(b)) /\ k <= Len(c) /\ k \in 1..(Len(a) + Len(t))
        /\ ~(k <= Len(a)) /\ k - Len(a) = m
    BY <1>7
  <2> HIDE DEF k
  <2>2. r[k] = t[m]
    BY <1>5, <1>6, <2>1
  <2> QED
    BY <2>2 DEF k
<1>10. ASSUME NEW m \in n..Len(s) PROVE r[m + Len(t)] = s[m]
  <2> DEFINE k == m + Len(t)
             j == m + 1 - n
  <2>1. /\ k \in 1..(Len(c) + Len(b)) /\ ~(k <= Len(c)) /\ k - Len(c) = j
        /\ j \in 1..(Len(s) + 1 - n) /\ n + j - 1 = m
    BY <1>7
  <2> HIDE DEF k, j
  <2>2. r[k] = s[m]
    BY <1>3, <1>6, <2>1
  <2> QED
    BY <2>2 DEF k
<1>11. r \in Seq(S) /\ Len(r) = Len(s) + Len(t)
  BY <1>6, <1>7
<1>12. Spliced(r, s, t, n)
  BY <1>8, <1>9, <1>10, <1>11 DEF Spliced
<1> QED
  BY <1>11, <1>12 DEF r

\* ... so it keeps every element of both.
LEMMA SpliceFacts ==
  ASSUME NEW S, NEW s \in Seq(S), NEW t \in Seq(S), NEW n \in 1..(Len(s) + 1)
  PROVE  /\ Splice(s, t, n) \in Seq(S) /\ Len(Splice(s, t, n)) = Len(s) + Len(t)
         /\ \A x : Has(Splice(s, t, n), x) <=> Has(s, x) \/ Has(t, x)
<1> DEFINE r == Splice(s, t, n)
<1>1. n \in Nat /\ 1 <= n /\ n <= Len(s) + 1 /\ Len(s) \in Nat /\ Len(t) \in Nat
  OBVIOUS
<1>2. r \in Seq(S) /\ Spliced(r, s, t, n)
  BY SplicePlaces
<1> HIDE DEF r
<1>3. /\ Len(r) = Len(s) + Len(t)
      /\ \A m \in 1..(n - 1) : r[m] = s[m]
      /\ \A m \in 1..Len(t) : r[n - 1 + m] = t[m]
      /\ \A m \in n..Len(s) : r[m + Len(t)] = s[m]
  BY <1>2 DEF Spliced
<1>4. ASSUME NEW k \in 1..Len(s)
      PROVE  \E m \in 1..Len(r) : r[m] = s[k]
  <2>1. CASE k \in 1..(n - 1)
    <3>1. k \in 1..Len(r)
      BY <1>1, <1>3, <2>1
    <3> QED
      BY <1>3, <2>1, <3>1
  <2>2. CASE k \in n..Len(s)
    <3>1. k + Len(t) \in 1..Len(r)
      BY <1>1, <1>3, <2>2
    <3> QED
      BY <1>3, <2>2, <3>1
  <2> QED
    BY <1>1, <2>1, <2>2
<1>5. ASSUME NEW k \in 1..Len(t)
      PROVE  \E m \in 1..Len(r) : r[m] = t[k]
  <2>1. n - 1 + k \in 1..Len(r)
    BY <1>1, <1>3
  <2> QED
    BY <1>3, <2>1
<1>6. ASSUME NEW m \in 1..Len(r)
      PROVE  \/ \E k \in 1..Len(s) : r[m] = s[k]
             \/ \E k \in 1..Len(t) : r[m] = t[k]
  <2>1. CASE m \in 1..(n - 1)
    <3>1. m \in 1..Len(s)
      BY <1>1, <2>1
    <3> QED
      BY <1>3, <2>1, <3>1
  <2>2. CASE m \in n..(n - 1 + Len(t))
    <3> DEFINE k == m - (n - 1)
    <3>1. k \in 1..Len(t) /\ n - 1 + k = m
      BY <1>1, <2>2
    <3> HIDE DEF k
    <3>2. r[n - 1 + k] = t[k]
      BY <1>3, <3>1
    <3> QED
      BY <3>1, <3>2
  <2>3. CASE m \in (n + Len(t))..(Len(s) + Len(t))
    <3> DEFINE k == m - Len(t)
    <3>1. k \in n..Len(s) /\ k \in 1..Len(s) /\ k + Len(t) = m
      BY <1>1, <2>3
    <3> HIDE DEF k
    <3>2. r[k + Len(t)] = s[k]
      BY <1>3, <3>1
    <3> QED
      BY <3>1, <3>2
  <2>4. m \in 1..(n - 1) \/ m \in n..(n - 1 + Len(t)) \/ m \in (n + Len(t))..(Len(s) + Len(t))
    BY <1>1, <1>3
  <2> QED
    BY <2>1, <2>2, <2>3, <2>4
<1>7. \A x : Has(r, x) <=> Has(s, x) \/ Has(t, x)
  <2> TAKE x
  <2>1. ASSUME Has(s, x) PROVE Has(r, x)
    BY <1>4, <2>1 DEF Has
  <2>2. ASSUME Has(t, x) PROVE Has(r, x)
    BY <1>5, <2>2 DEF Has
  <2>3. ASSUME Has(r, x) PROVE Has(s, x) \/ Has(t, x)
    <3>1. PICK m \in 1..Len(r) : r[m] = x
      BY <2>3 DEF Has
    <3>2. CASE \E k \in 1..Len(s) : r[m] = s[k]
      BY <3>1, <3>2 DEF Has
    <3>3. CASE \E k \in 1..Len(t) : r[m] = t[k]
      BY <3>1, <3>3 DEF Has
    <3> QED
      BY <1>6, <3>2, <3>3
  <2> QED
    BY <2>1, <2>2, <2>3
<1> QED
  BY <1>2, <1>3, <1>7 DEF r

\* Every call is in the function FuncOf names.
LEMMA FuncOfType ==
  ASSUME NEW inst \in Inst
  PROVE  /\ FuncOf(inst) \in 1..Len(Bodies)
         /\ \E n \in 1..Len(Bodies[FuncOf(inst)]) : Bodies[FuncOf(inst)][n] = inst
<1>1. PICK f \in 1..Len(Bodies) : inst \in ToSet(Bodies[f])
  BY BodiesAssumption
<1>2. Bodies[f] \in Seq(Inst \union {Calls!Other})
  BY BodiesAssumption
<1>3. DOMAIN Bodies[f] = 1..Len(Bodies[f])
  BY <1>2
<1>4. \E n \in 1..Len(Bodies[f]) : Bodies[f][n] = inst
  BY <1>1, <1>3 DEF ToSet
<1> QED
  BY <1>4 DEF FuncOf

\* The code as it was loaded.
LEMMA LoadedCodeFacts ==
  /\ LoadedCode \in [1..Len(Bodies) -> Seq(Items)]
  /\ \A f \in 1..Len(Bodies) :
       /\ Len(LoadedCode[f]) = Len(Bodies[f]) /\ Len(Bodies[f]) \in Nat
       /\ \A n \in 1..Len(Bodies[f]) : LoadedCode[f][n] = Loaded(Bodies[f][n])
<1>1. ASSUME NEW f \in 1..Len(Bodies)
      PROVE  /\ LoadedCode[f] = [n \in 1..Len(Bodies[f]) |-> Loaded(Bodies[f][n])]
             /\ Len(Bodies[f]) \in Nat
             /\ \A n \in 1..Len(Bodies[f]) : Loaded(Bodies[f][n]) \in Items
  <2>1. Bodies[f] \in Seq(Inst \union {Calls!Other})
    BY BodiesAssumption
  <2>2. \A n \in 1..Len(Bodies[f]) : Bodies[f][n] \in Inst \union {Calls!Other}
    BY <2>1
  <2>3. \A inst \in Inst \union {Calls!Other} : Loaded(inst) \in Items
    BY DEF Loaded, Item, Items
  <2> QED
    BY <2>1, <2>2, <2>3 DEF LoadedCode
<1>2. ASSUME NEW f \in 1..Len(Bodies)
      PROVE  LoadedCode[f] \in Seq(Items) /\ Len(LoadedCode[f]) = Len(Bodies[f])
  <2> DEFINE body == LoadedCode[f]
             size == Len(Bodies[f])
  <2>1. size \in Nat /\ body \in [1..size -> Items]
    <3> HIDE DEF Items
    <3> QED
      BY <1>1
  <2> HIDE DEF Items, body, size
  <2>2. body \in Seq(Items) /\ Len(body) = size
    BY <2>1
  <2> QED
    BY <2>2 DEF body, size
<1> QED
  BY <1>1, <1>2 DEF LoadedCode

\* What an insertion makes of the code: the functions keep what they had, the one
\* of the call gains the eight instructions of this turn.
Grown(inst) ==
  /\ code' \in [1..Len(Bodies) -> Seq(Items)]
  /\ \A f \in 1..Len(Bodies) : Len(code'[f]) >= Len(code[f])
  /\ Len(code'[FuncOf(inst)]) = Len(code[FuncOf(inst)]) + 8
  /\ \A f \in 1..Len(Bodies) : f # FuncOf(inst) => code'[f] = code[f]
  /\ \A x : Has(code'[FuncOf(inst)], x)
              <=> Has(code[FuncOf(inst)], x) \/ Has(Adjustment(inst), x)

LEMMA InsertedGrows ==
  ASSUME NEW inst \in Inst, code \in [1..Len(Bodies) -> Seq(Items)],
         Adjustment(inst) \in Seq(Items), Len(Adjustment(inst)) = 8,
         InsertPlace(inst) \in 1..Len(code[FuncOf(inst)]),
         code' = Inserted(inst)
  PROVE  Grown(inst)
<1> DEFINE f == FuncOf(inst)
           n == InsertPlace(inst)
           t == Adjustment(inst)
           s == code[f]
           r == Splice(s, t, n)
<1>1. f \in 1..Len(Bodies) /\ s \in Seq(Items)
  <2> HIDE DEF Items
  <2> QED
    BY FuncOfType
<1>2. code' = [code EXCEPT ![f] = r]
  BY DEF Inserted, Splice
<1>3. Len(s) \in Nat /\ n \in 1..(Len(s) + 1)
  BY <1>1
<1>4. t \in Seq(Items) /\ Len(t) = 8
  OBVIOUS
<1> HIDE DEF f, n, t, s, Items
<1>5. /\ r \in Seq(Items) /\ Len(r) = Len(s) + Len(t)
      /\ \A x : Has(r, x) <=> Has(s, x) \/ Has(t, x)
  BY <1>1, <1>3, <1>4, SpliceFacts
<1> HIDE DEF r
<1>6. /\ code' \in [1..Len(Bodies) -> Seq(Items)]
      /\ code'[f] = r /\ \A g \in 1..Len(Bodies) : g # f => code'[g] = code[g]
  BY <1>1, <1>2, <1>5
<1>7. Len(code'[f]) = Len(code[f]) + 8
  BY <1>4, <1>5, <1>6 DEF s
<1>8. \A g \in 1..Len(Bodies) : Len(code'[g]) >= Len(code[g])
  <2> SUFFICES ASSUME NEW g \in 1..Len(Bodies) PROVE Len(code'[g]) >= Len(code[g])
    OBVIOUS
  <2>1. Len(code[g]) \in Nat
    OBVIOUS
  <2> QED
    BY <1>6, <1>7, <2>1
<1>9. \A x : Has(code'[f], x) <=> Has(code[f], x) \/ Has(t, x)
  BY <1>5, <1>6 DEF s
<1> QED
  BY <1>6, <1>7, <1>8, <1>9 DEF Grown, f, t

\* The turns of the inserted code, by the elements of the function.
CodeTyped == code \in [1..Len(Bodies) -> Seq(Items)]
AdjustedByCode ==
  \A inst \in Inst : \A m :
    m \in Adjusted(inst) <=>
      \E x : Has(code[FuncOf(inst)], x) /\ x.step # "inst" /\ x.of = inst /\ x.turn = m

LEMMA AdjustedBy == CodeTyped => AdjustedByCode
<1> USE DEF CodeTyped, AdjustedByCode
<1> SUFFICES ASSUME code \in [1..Len(Bodies) -> Seq(Items)], NEW inst \in Inst
             PROVE  \A x : x \in ToSet(code[FuncOf(inst)]) <=> Has(code[FuncOf(inst)], x)
  BY DEF Adjusted
<1> DEFINE s == code[FuncOf(inst)]
<1>1. s \in Seq(Items)
  <2> HIDE DEF Items
  <2> QED
    BY FuncOfType
<1> HIDE DEF s, Items
<1>2. DOMAIN s = 1..Len(s)
  BY <1>1
<1>3. \A x : x \in ToSet(s) <=> Has(s, x)
  BY <1>2 DEF ToSet, Has
<1> QED
  BY <1>3 DEF s

\* The elements of a command line
LEMMA CommandType ==
  ASSUME TypeOK
  PROVE  /\ cmd.pass \in {"CondWait", "PosixCondWait"}
         /\ cmd.pos \in Seq(Index)
         /\ cmd.sec \in Seq(Int) /\ cmd.nsec \in Seq(Int) /\ cmd.inspt \in Seq(Nat)
  BY CommandAssumption DEF TypeOK

LEMMA PosType ==
  ASSUME TypeOK, i < Len(cmd.pos)
  PROVE  /\ i \in Nat /\ i + 1 \in 1..Len(cmd.pos) /\ i + 1 \in 0..Len(cmd.pos)
         /\ Pos \in Index /\ Pos \in Nat
         /\ Pos = cmd.pos[i + 1]
<1>1. cmd.pos \in Seq(Index) /\ i \in 0..Len(cmd.pos)
  BY CommandType DEF TypeOK
<1>2. i \in Nat /\ i + 1 \in 1..Len(cmd.pos) /\ i + 1 \in 0..Len(cmd.pos)
  BY <1>1
<1>3. Pos \in Index
  BY <1>1, <1>2 DEF Pos
<1>4. Pos \in Nat
  BY <1>3, ClassConstants
<1> QED
  BY <1>2, <1>3, <1>4 DEF Pos

\* A turn adds itself and its position.
LEMMA HandledGrows ==
  ASSUME TypeOK, i < Len(cmd.pos), i' = i + 1, cmd' = cmd
  PROVE  /\ Turns' = Turns \union {i + 1} /\ i + 1 \notin Turns
         /\ Handled' = Handled \union {Pos}
         /\ \A index : AskedFor(index)' =
              AskedFor(index) \union (IF index = Pos THEN {i + 1} ELSE {})
<1>1. Turns' = Turns \union {i + 1} /\ i + 1 \notin Turns
  BY PosType DEF Turns
<1>2. Handled' = Handled \union {Pos}
  BY <1>1 DEF Handled, Pos
<1>3. \A index : AskedFor(index)' =
        AskedFor(index) \union (IF index = Pos THEN {i + 1} ELSE {})
  BY <1>1 DEF AskedFor, Pos
<1> QED
  BY <1>1, <1>2, <1>3

\* What getNextMutateVals returns when it stays inside the lists
LEMMA ValuesType ==
  ASSUME TypeOK, i < Len(cmd.pos), Given("tmod"), ArgsAccepted, ~SecOverrun
  PROVE  NsecVal \in Int /\ SecVal \in Int
<1>1. /\ cmd.sec \in Seq(Int) /\ cmd.nsec \in Seq(Int)
      /\ cmd.sec # <<>> /\ cmd.nsec # <<>>
  BY CommandType DEF ArgsAccepted
<1>2. Len(cmd.sec) \in Nat \ {0} /\ Len(cmd.nsec) \in Nat \ {0} /\ Pos \in Nat
  BY <1>1, PosType
<1>3. NsecVal \in Int
  <2>1. CASE Pos < Len(cmd.nsec)
    <3>1. Pos + 1 \in 1..Len(cmd.nsec)
      BY <1>2, <2>1
    <3> QED
      BY <1>1, <2>1, <3>1 DEF NsecVal, NsecAt, OrLast
  <2>2. CASE ~(Pos < Len(cmd.nsec))
    <3>1. Len(cmd.nsec) \in 1..Len(cmd.nsec)
      BY <1>2
    <3> QED
      BY <1>1, <2>2, <3>1 DEF NsecVal, NsecAt, OrLast
  <2> QED
    BY <2>1, <2>2
<1>4. SecVal \in Int
  <2>1. CASE Pos < Len(cmd.sec)
    <3>1. Pos + 1 \in 1..Len(cmd.sec)
      BY <1>2, <2>1
    <3> QED
      BY <1>1, <2>1, <3>1 DEF SecVal, SecAt
  <2>2. CASE ~(Pos < Len(cmd.sec))
    <3>1. Len(cmd.nsec) \in 1..Len(cmd.sec)
      BY <1>2, <2>2 DEF SecOverrun
    <3> QED
      BY <1>1, <2>2, <3>1 DEF SecVal, SecAt
  <2> QED
    BY <2>1, <2>2
<1> QED
  BY <1>3, <1>4

\* The inserted instructions are those of this turn and this call.
LEMMA AdjustmentFacts ==
  ASSUME NEW inst \in Inst, NsecVal \in Int, SecVal \in Int, i \in Nat
  PROVE  /\ Adjustment(inst) \in Seq(Items) /\ Len(Adjustment(inst)) = 8
         /\ \A n \in 1..8 : /\ Adjustment(inst)[n].step # "inst"
                            /\ Adjustment(inst)[n].of = inst
                            /\ Adjustment(inst)[n].turn = i + 1
<1> DEFINE steps == <<"gep", "load", "add", "store">>
           field(n) == IF n % 2 = 1 THEN "sec" ELSE "nsec"
           val(n) == IF n % 2 = 1 THEN SecVal ELSE NsecVal
           step(n) == steps[(n + 1) \div 2]
<1>1. Adjustment(inst) = [n \in 1..8 |-> Item(step(n), inst, field(n), val(n), i + 1)]
  BY DEF Adjustment
<1>2. \A n \in 1..8 : step(n) \in {"gep", "load", "add", "store"}
  <2> SUFFICES ASSUME NEW n \in 1..8 PROVE step(n) \in {"gep", "load", "add", "store"}
    OBVIOUS
  <2>1. (n + 1) \div 2 \in 1..4
    OBVIOUS
  <2>2. \A k \in 1..4 : steps[k] \in {"gep", "load", "add", "store"}
    OBVIOUS
  <2> QED
    BY <2>1, <2>2
<1>3. \A n \in 1..8 : field(n) \in {"sec", "nsec"} /\ val(n) \in Int
  OBVIOUS
<1> HIDE DEF step, field, val
<1>4. \A n \in 1..8 : /\ Adjustment(inst)[n] \in Items
                      /\ Adjustment(inst)[n].step # "inst"
                      /\ Adjustment(inst)[n].of = inst
                      /\ Adjustment(inst)[n].turn = i + 1
  <2> SUFFICES ASSUME NEW n \in 1..8
               PROVE  LET x == Item(step(n), inst, field(n), val(n), i + 1)
                      IN  x \in Items /\ x.step # "inst" /\ x.of = inst /\ x.turn = i + 1
    BY <1>1
  <2> QED
    BY <1>2, <1>3 DEF Item, Items
<1>5. Adjustment(inst) \in Seq(Items) /\ Len(Adjustment(inst)) = 8
  <2> DEFINE a == Adjustment(inst)
             size == 8
  <2>1. size \in Nat /\ a \in [1..size -> Items]
    <3> HIDE DEF Items
    <3> QED
      BY <1>1, <1>4
  <2> HIDE DEF a, size, Items
  <2>2. a \in Seq(Items) /\ Len(a) = size
    BY <2>1
  <2> QED
    BY <2>2 DEF a, size
<1> QED
  BY <1>4, <1>5

\* Where the code goes: into the function, unless -inspt counts beyond it.
LEMMA InsertPlaceFacts ==
  ASSUME TypeOK, CodeKept, i < Len(cmd.pos), NEW inst \in Inst
  PROVE  /\ InsertPlace(inst) \in Nat \ {0}
         /\ InsertPlace(inst) > Len(code[FuncOf(inst)]) =>
              \E n \in 1..Len(cmd.inspt) : \E f \in 1..Len(Bodies) :
                cmd.inspt[n] >= Len(Bodies[f])
<1> DEFINE f == FuncOf(inst)
           body == code[f]
<1>1. f \in 1..Len(Bodies) /\ body \in Seq(Items)
  <2> HIDE DEF Items
  <2> QED
    BY FuncOfType DEF TypeOK
<1>2. Len(body) \in Nat /\ Len(Bodies[f]) \in Nat /\ Len(body) >= Len(Bodies[f])
  BY <1>1, LoadedCodeFacts DEF CodeKept
<1>3. CASE cmd.inspt = <<>>
  <2>1. \E n \in 1..Len(body) : body[n].step = "inst" /\ body[n].of = inst
    BY DEF CodeKept
  <2>2. PlaceOf(inst) \in 1..Len(body)
    BY <2>1 DEF PlaceOf
  <2>3. InsertPlace(inst) = PlaceOf(inst)
    BY <1>3 DEF InsertPlace
  <2> HIDE DEF body, f
  <2>4. InsertPlace(inst) \in Nat \ {0} /\ ~(InsertPlace(inst) > Len(body))
    BY <1>2, <2>2, <2>3
  <2> QED
    BY <2>4 DEF body, f
<1>4. CASE cmd.inspt # <<>>
  <2> DEFINE steps == OrLast(cmd.inspt, Pos)
  <2>1. cmd.inspt \in Seq(Nat) /\ Len(cmd.inspt) \in Nat \ {0} /\ Pos \in Nat
    BY <1>4, CommandType, PosType
  <2>2. \E n \in 1..Len(cmd.inspt) : steps = cmd.inspt[n]
    <3>1. CASE Pos < Len(cmd.inspt)
      <4>1. Pos + 1 \in 1..Len(cmd.inspt)
        BY <2>1, <3>1
      <4> QED
        BY <3>1, <4>1 DEF OrLast
    <3>2. CASE ~(Pos < Len(cmd.inspt))
      <4>1. Len(cmd.inspt) \in 1..Len(cmd.inspt)
        BY <2>1
      <4> QED
        BY <3>2, <4>1 DEF OrLast
    <3> QED
      BY <3>1, <3>2
  <2>3. steps \in Nat
    BY <2>1, <2>2
  <2>4. InsertPlace(inst) = IF steps > Len(body) THEN Len(body) + 1 ELSE steps + 1
    BY <1>4 DEF InsertPlace
  <2> HIDE DEF steps, body
  <2>5. /\ InsertPlace(inst) \in Nat \ {0}
        /\ InsertPlace(inst) > Len(body) => steps >= Len(Bodies[f])
    BY <1>2, <2>3, <2>4
  <2> QED
    BY <1>1, <2>2, <2>5 DEF body
<1> QED
  BY <1>3, <1>4

-----------------------------------------------------------------------------
(* What a turn does to the occurrences *)

LEMMA AdjustedGrows ==
  ASSUME TypeOK, NEW inst \in Inst, Grown(inst), NsecVal \in Int, SecVal \in Int, i \in Nat
  PROVE  \A other \in Inst :
           Adjusted(other)' = Adjusted(other) \union (IF other = inst THEN {i + 1} ELSE {})
<1>1. \A x : Has(Adjustment(inst), x) => x.step # "inst" /\ x.of = inst /\ x.turn = i + 1
  <2> SUFFICES ASSUME NEW x, Has(Adjustment(inst), x)
               PROVE  x.step # "inst" /\ x.of = inst /\ x.turn = i + 1
    OBVIOUS
  <2>1. PICK k \in 1..8 : Adjustment(inst)[k] = x
    BY AdjustmentFacts DEF Has
  <2> QED
    BY <2>1, AdjustmentFacts
<1>2. \E x : Has(Adjustment(inst), x) /\ x.step # "inst" /\ x.of = inst /\ x.turn = i + 1
  <2>1. Has(Adjustment(inst), Adjustment(inst)[1])
    BY AdjustmentFacts DEF Has
  <2> QED
    BY <1>1, <2>1
<1> SUFFICES ASSUME NEW other \in Inst, NEW m
             PROVE  m \in Adjusted(other)' <=>
                      m \in Adjusted(other) \/ (other = inst /\ m = i + 1)
  OBVIOUS
<1>3. m \in Adjusted(other) <=>
        \E x : Has(code[FuncOf(other)], x) /\ x.step # "inst" /\ x.of = other /\ x.turn = m
  BY AdjustedBy DEF TypeOK, CodeTyped, AdjustedByCode
<1>4. m \in Adjusted(other)' <=>
        \E x : Has(code'[FuncOf(other)], x) /\ x.step # "inst" /\ x.of = other /\ x.turn = m
  <2>1. CodeTyped'
    BY DEF CodeTyped, Grown
  <2>2. AdjustedByCode'
    BY <2>1, AdjustedBy, PTL
  <2>3. \A inst2 \in Inst : \A n : n \in Adjusted(inst2)' <=>
          \E x : Has(code'[FuncOf(inst2)], x) /\ x.step # "inst" /\ x.of = inst2 /\ x.turn = n
    BY <2>2 DEF AdjustedByCode
  <2> QED
    BY <2>3
<1>5. CASE FuncOf(other) = FuncOf(inst)
  BY <1>1, <1>2, <1>3, <1>4, <1>5 DEF Grown
<1>6. CASE FuncOf(other) # FuncOf(inst)
  <2>1. code'[FuncOf(other)] = code[FuncOf(other)]
    BY <1>6, FuncOfType DEF Grown
  <2> QED
    BY <1>3, <1>4, <1>6, <2>1
<1> QED
  BY <1>5, <1>6

\* An insertion keeps every call where PlaceOf finds it.
LEMMA GrownKeepsCode ==
  ASSUME TypeOK, CodeKept, Given("tmod"), cmd' = cmd, NEW inst \in Inst, Grown(inst)
  PROVE  CodeKept'
<1>1. \A f \in 1..Len(Bodies) : Len(code'[f]) >= Len(Bodies[f])
  <2> SUFFICES ASSUME NEW f \in 1..Len(Bodies) PROVE Len(code'[f]) >= Len(Bodies[f])
    OBVIOUS
  <2>1. Len(code'[f]) >= Len(code[f]) /\ Len(code[f]) >= Len(Bodies[f])
    BY DEF Grown, CodeKept
  <2>2. Len(code'[f]) \in Nat /\ Len(code[f]) \in Nat /\ Len(Bodies[f]) \in Nat
    <3> HIDE DEF Items
    <3> QED
      BY LoadedCodeFacts DEF Grown, TypeOK
  <2> QED
    BY <2>1, <2>2
<1>2. ASSUME NEW other \in Inst
      PROVE  \E n \in 1..Len(code'[FuncOf(other)]) :
               code'[FuncOf(other)][n].step = "inst" /\ code'[FuncOf(other)][n].of = other
  <2>1. \E x : Has(code[FuncOf(other)], x) /\ x.step = "inst" /\ x.of = other
    BY DEF CodeKept, Has
  <2>2. \E x : Has(code'[FuncOf(other)], x) /\ x.step = "inst" /\ x.of = other
    BY <2>1, FuncOfType DEF Grown
  <2> QED
    BY <2>2 DEF Has
<1>3. Given("tmod")'
  BY DEF Given
<1> QED
  BY <1>1, <1>2, <1>3 DEF CodeKept, FuncOf

Turning == i < Len(cmd.pos) /\ i' = i + 1 /\ cmd' = cmd /\ elements' = elements

\* One mode at most, and a verbose listing follows no removal.
LEMMA OneMode ==
  ASSUME ArgsAccepted
  PROVE  /\ Given("rm") => ~Given("tmod") /\ ~Given("switch") /\ ~Given("verbose")
         /\ Given("tmod") => ~Given("rm") /\ ~Given("switch")
         /\ Given("switch") => ~Given("rm") /\ ~Given("tmod")
  BY DEF ArgsAccepted, Modes

\* The occurrence at a position is the same one after the turn.
LEMMA SameInst ==
  ASSUME UNCHANGED <<callInsts, invokeInsts>>
  PROVE  /\ Calls!Size' = Calls!Size
         /\ \A index : Calls!InstAt(index)' = Calls!InstAt(index)
  BY DEF Calls!Size, Calls!InstAt, Calls!IsCall

LEMMA SameAdjusted ==
  ASSUME UNCHANGED <<callInsts, invokeInsts, code>>
  PROVE  \A index : Adjusted(Calls!InstAt(index))' = Adjusted(Calls!InstAt(index))
  BY DEF Adjusted, FuncOf, Calls!InstAt, Calls!IsCall

\* Nothing happened to the occurrence, and this turn asked for nothing of it.
LEMMA KeptAsAsked ==
  ASSUME TypeOK, Turning, UNCHANGED <<callInsts, invokeInsts>>,
         NEW index, AsAsked(index),
         Calls!InstAt(index) \in Inst,
         Calls!InstAt(index) \in live' <=> Calls!InstAt(index) \in live,
         target'[Calls!InstAt(index)] = target[Calls!InstAt(index)],
         Adjusted(Calls!InstAt(index))' = Adjusted(Calls!InstAt(index)),
         index = Pos =>
           /\ Given("rm") => index \in Handled
           /\ Given("switch") /\ cmd.pass = "PosixCondWait" =>
                \/ Calls!InstAt(index) \in InvokeInst
                \/ ~IsTimedWait(Calls!InstAt(index))
                \/ Args[Calls!InstAt(index)] # 3
           /\ Given("tmod") /\ cmd.pass = "PosixCondWait" =>
                \/ Calls!InstAt(index) \in InvokeInst
                \/ ~Adjustable(Calls!InstAt(index))
  PROVE  AsAsked(index)'
<1> DEFINE inst == Calls!InstAt(index)
<1>1. /\ Handled' = Handled \union {Pos}
      /\ AskedFor(index)' = AskedFor(index) \union (IF index = Pos THEN {i + 1} ELSE {})
  BY HandledGrows DEF Turning
<1>2. Calls!InstAt(index)' = inst /\ \A flag : Given(flag)' <=> Given(flag)
  BY SameInst DEF Given, Turning
<1>3. Removed(index)' <=> Removed(index)
  BY <1>1, <1>2 DEF Removed
<1>4. SwitchedTo(index)' <=> SwitchedTo(index)
  BY <1>1, <1>2 DEF SwitchedTo, IsTimedWait, Turning
<1>5. Adjusted(Calls!InstAt(index))' = Adjusted(inst)
  OBVIOUS
<1>6. Adjustable(Calls!InstAt(index))' <=> Adjustable(inst)
  BY <1>2 DEF Adjustable, IsTimedWait, Turning
<1> HIDE DEF inst
<1>7. cmd'.pass = cmd.pass
  BY DEF Turning
<1>8. Adjusted(inst) \subseteq AskedFor(index)'
  BY <1>1 DEF AsAsked, inst
<1>9. cmd.pass = "PosixCondWait" =>
        Adjusted(inst) = IF Given("tmod") /\ inst \notin InvokeInst /\ Adjustable(inst)
                         THEN AskedFor(index)' ELSE {}
  BY <1>1 DEF AsAsked, inst
<1>10. /\ inst \in live' <=> ~Removed(index) /\ ~SwitchedTo(index)
       /\ target'[inst] = IF Removed(index) THEN "nothing"
                          ELSE IF SwitchedTo(index) THEN "pthread_cond_wait" ELSE RawName[inst]
  BY DEF AsAsked, inst
<1> QED
  BY <1>2, <1>3, <1>4, <1>5, <1>6, <1>7, <1>8, <1>9, <1>10 DEF AsAsked

\* The occurrence was removed.
LEMMA RemovedAsAsked ==
  ASSUME TypeOK, ArgsAccepted, Turning, UNCHANGED <<callInsts, invokeInsts>>,
         NEW index, AsAsked(index), index = Pos, Given("rm"),
         Calls!InstAt(index) \notin live',
         target'[Calls!InstAt(index)] = "nothing",
         Adjusted(Calls!InstAt(index))' = Adjusted(Calls!InstAt(index))
  PROVE  AsAsked(index)'
<1>1. /\ Handled' = Handled \union {Pos}
      /\ AskedFor(index) \subseteq AskedFor(index)'
  BY HandledGrows DEF Turning
<1>2. /\ Calls!InstAt(index)' = Calls!InstAt(index) /\ cmd'.pass = cmd.pass
      /\ \A flag : Given(flag)' <=> Given(flag)
  BY SameInst DEF Given, Turning
<1>3. Removed(index)' /\ ~Given("tmod") /\ ~Given("tmod")'
  BY <1>1, <1>2, OneMode DEF Removed
<1>4. Adjusted(Calls!InstAt(index)) \subseteq AskedFor(index)'
  BY <1>1 DEF AsAsked
<1>5. cmd.pass = "PosixCondWait" => Adjusted(Calls!InstAt(index)) = {}
  BY <1>3 DEF AsAsked
<1> QED
  BY <1>2, <1>3, <1>4, <1>5 DEF AsAsked

\* The occurrence was replaced by a wait.
LEMMA SwitchedAsAsked ==
  ASSUME TypeOK, ArgsAccepted, Turning, UNCHANGED <<callInsts, invokeInsts>>,
         NEW index, AsAsked(index), index = Pos,
         Given("switch"), cmd.pass = "PosixCondWait",
         Calls!InstAt(index) \notin InvokeInst,
         IsTimedWait(Calls!InstAt(index)), Args[Calls!InstAt(index)] = 3,
         Calls!InstAt(index) \notin live',
         target'[Calls!InstAt(index)] = "pthread_cond_wait",
         Adjusted(Calls!InstAt(index))' = Adjusted(Calls!InstAt(index))
  PROVE  AsAsked(index)'
<1>1. /\ Handled' = Handled \union {Pos}
      /\ AskedFor(index) \subseteq AskedFor(index)'
  BY HandledGrows DEF Turning
<1>2. /\ Calls!InstAt(index)' = Calls!InstAt(index) /\ cmd'.pass = cmd.pass
      /\ \A flag : Given(flag)' <=> Given(flag)
  BY SameInst DEF Given, Turning
<1>3. SwitchedTo(index)' /\ ~Removed(index)' /\ ~Given("tmod") /\ ~Given("tmod")'
  BY <1>1, <1>2, OneMode DEF Removed, SwitchedTo, IsTimedWait
<1>4. Adjusted(Calls!InstAt(index)) = {}
  BY <1>3 DEF AsAsked
<1> QED
  BY <1>2, <1>3, <1>4 DEF AsAsked

\* Code was inserted for the occurrence.
LEMMA AdjustedAsAsked ==
  ASSUME TypeOK, ArgsAccepted, Turning, UNCHANGED <<callInsts, invokeInsts>>,
         NEW index, AsAsked(index), index = Pos, Given("tmod"),
         cmd.pass = "PosixCondWait" => Calls!InstAt(index) \notin InvokeInst,
         Adjustable(Calls!InstAt(index)),
         UNCHANGED <<live, target>>,
         Adjusted(Calls!InstAt(index))' = Adjusted(Calls!InstAt(index)) \union {i + 1}
  PROVE  AsAsked(index)'
<1>1. AskedFor(index)' = AskedFor(index) \union {i + 1}
  BY HandledGrows DEF Turning
<1>2. /\ Calls!InstAt(index)' = Calls!InstAt(index) /\ cmd'.pass = cmd.pass
      /\ \A flag : Given(flag)' <=> Given(flag)
  BY SameInst DEF Given, Turning
<1>3. /\ ~Removed(index) /\ ~Removed(index)'
      /\ ~SwitchedTo(index) /\ ~SwitchedTo(index)'
  BY <1>2, OneMode DEF Removed, SwitchedTo
<1>4. Adjustable(Calls!InstAt(index))'
  BY <1>2 DEF Adjustable, IsTimedWait, Turning
<1>5. Adjusted(Calls!InstAt(index))' \subseteq AskedFor(index)'
  BY <1>1 DEF AsAsked
<1>6. cmd.pass = "PosixCondWait" => Adjusted(Calls!InstAt(index))' = AskedFor(index)'
  BY <1>1 DEF AsAsked
<1>7. /\ Calls!InstAt(index) \in live'
      /\ target'[Calls!InstAt(index)] = RawName[Calls!InstAt(index)]
  BY <1>3 DEF AsAsked
<1> QED
  BY <1>2, <1>3, <1>4, <1>5, <1>6, <1>7 DEF AsAsked

-----------------------------------------------------------------------------
(* The turns of the loops preserve the invariant *)

\* What depends on the command line only
LEMMA SameCommand ==
  ASSUME cmd' = cmd
  PROVE  /\ \A flag : Given(flag)' <=> Given(flag)
         /\ ArgsAccepted' <=> ArgsAccepted
         /\ VerbosePrint' <=> VerbosePrint
         /\ cmd'.pass = cmd.pass
  BY DEF Given, ArgsAccepted, Modes, VerbosePrint

\* A turn that did nothing undefined leaves the stages as they are.
LEMMA TurnPreserves ==
  ASSUME PassIInv, Turning, pc = "loop", pc' = "loop", fault' = "none", dangling' = {},
         UNCHANGED <<funcNames, isCpp, visited, callInsts, invokeInsts>>,
         TypeOK', Class', Reported', CodeKept',
         Given("rm") => deletedIndices' \subseteq deletedIndices \union {Pos},
         live' # Inst => Given("rm") \/ (cmd.pass = "PosixCondWait" /\ Given("switch")),
         \A index \in 0..(Calls!Size - 1) : AsAsked(index)'
  PROVE  PassIInv'
<1>1. /\ \A flag : Given(flag)' <=> Given(flag)
      /\ ArgsAccepted' <=> ArgsAccepted
      /\ cmd'.pass = cmd.pass
  BY SameCommand DEF Turning
<1>2. Stages'
  <2>1. i' # 0
    BY PosType DEF Turning, PassIInv
  <2> QED
    BY <1>1, <2>1 DEF Stages, PassIInv
<1>3. PosixFound'
  BY <1>1 DEF PosixFound, PassIInv
<1>4. DeletedHandled' /\ ErasedByMode'
  BY <1>1, HandledGrows DEF DeletedHandled, ErasedByMode, PassIInv, Turning
<1>5. Exact'
  BY SameInst DEF Exact
<1>6. FaultsExplained'
  BY DEF FaultsExplained
<1> QED
  BY <1>2, <1>3, <1>4, <1>5, <1>6 DEF PassIInv

\* The types of what a turn that changes no instruction leaves
LEMMA TurnTypes ==
  ASSUME PassIInv, Turning, P!TypeOK',
         target' \in [Inst -> Names \union {Indirect, "nothing"}],
         code' \in [1..Len(Bodies) -> Seq(Items)],
         modified' \in BOOLEAN,
         fault' \in {"none", "oob", "end", "badgep", "dangling"},
         pc' \in {"loop", "fault"}
  PROVE  TypeOK'
<1>1. Calls!TypeOK'
  BY SameTypes, PTL
<1>2. i' \in 0..Len(cmd'.pos)
  BY PosType DEF Turning, PassIInv
<1> QED
  BY <1>1, <1>2 DEF TypeOK, PassIInv, Turning

\* A turn that leaves the module alone.
LEMMA LeftPreserves ==
  ASSUME PassIInv, Turning, pc = "loop", Left,
         UNCHANGED <<target, code, modified, fault, pc>>,
         P!TypeOK', P!PointersDistinct', ~Behind => P!IInv',
         Pos \in 0..(Calls!Size - 1) =>
           /\ Given("rm") => Pos \in deletedIndices
           /\ Given("switch") /\ cmd.pass = "PosixCondWait" =>
                \/ CurInst \in InvokeInst \/ ~IsTimedWait(CurInst) \/ Args[CurInst] # 3
           /\ Given("tmod") /\ cmd.pass = "PosixCondWait" =>
                CurInst \in InvokeInst \/ ~Adjustable(CurInst)
  PROVE  PassIInv'
<1>1. /\ \A flag : Given(flag)' <=> Given(flag)
      /\ cmd'.pass = cmd.pass
  BY SameCommand DEF Turning
<1>2. fault = "none" /\ fault' = "none" /\ pc' = "loop"
  BY DEF Stages, PassIInv
<1>3. TypeOK'
  BY <1>2, TurnTypes DEF PassIInv, TypeOK
<1>4. Class'
  <2>1. Behind' <=> Behind
    BY <1>1 DEF Behind
  <2> QED
    BY <2>1 DEF Class
<1>5. Reported'
  BY <1>1, <1>2 DEF Reported, PassIInv, Left, Ran
<1>6. CodeKept'
  BY <1>1 DEF CodeKept, PassIInv, FuncOf
<1>7. ASSUME NEW index \in 0..(Calls!Size - 1)
      PROVE  AsAsked(index)'
  <2>1. AsAsked(index)
    BY DEF PassIInv, Exact
  <2>2. Calls!InstAt(index) \in Inst
    BY Occurrence DEF PassIInv, Class
  <2>3. Adjusted(Calls!InstAt(index))' = Adjusted(Calls!InstAt(index))
    BY SameAdjusted DEF Left
  <2>4. index = Pos => Calls!InstAt(index) = CurInst
    BY DEF CurInst
  <2>5. index = Pos /\ Given("rm") => index \in Handled
    BY DEF PassIInv, DeletedHandled
  <2> QED
    BY <2>1, <2>2, <2>3, <2>4, <2>5, KeptAsAsked DEF PassIInv, Left
<1>8. /\ Given("rm") => deletedIndices' \subseteq deletedIndices \union {Pos}
      /\ live' # Inst => Given("rm") \/ (cmd.pass = "PosixCondWait" /\ Given("switch"))
  BY DEF Left, PassIInv, ErasedByMode
<1> QED
  BY <1>2, <1>3, <1>4, <1>5, <1>6, <1>7, <1>8, TurnPreserves DEF Left

\* A turn that erases the instruction at its position, with a new callee or none.
LEMMA ErasedPreserves ==
  ASSUME PassIInv, Turning, pc = "loop", pc' = "loop", fault' = "none", dangling' = {},
         UNCHANGED <<funcNames, isCpp, visited, callInsts, invokeInsts, code>>,
         P!TypeOK', P!PointersDistinct', ~Behind => P!IInv',
         Pos \in 0..(Calls!Size - 1), CurInst \in live,
         live' = live \ {CurInst},
         NEW callee \in {"nothing", "pthread_cond_wait"},
         target' = [target EXCEPT ![CurInst] = callee],
         deletedIndices' \subseteq deletedIndices \union {Pos},
         modified' = TRUE,
         \/ Given("rm") /\ callee = "nothing"
         \/ /\ Given("switch") /\ cmd.pass = "PosixCondWait" /\ callee = "pthread_cond_wait"
            /\ CurInst \notin InvokeInst /\ IsTimedWait(CurInst) /\ Args[CurInst] = 3
  PROVE  PassIInv'
<1>1. /\ \A flag : Given(flag)' <=> Given(flag)
      /\ cmd'.pass = cmd.pass
  BY SameCommand DEF Turning
<1>2. CurInst \in Inst /\ CurInst \notin live'
  BY Occurrence DEF PassIInv, Class, CurInst
<1>3. ArgsAccepted
  BY DEF PassIInv, Stages
<1>4. target' \in [Inst -> Names \union {Indirect, "nothing"}]
  <2>1. "pthread_cond_wait" \in Names
    BY SearchAssumption DEF PosixNames, CppNames, ToSet
  <2> QED
    BY <1>2, <2>1 DEF PassIInv, TypeOK
<1>5. TypeOK'
  BY <1>4, TurnTypes DEF PassIInv, TypeOK
<1>6. Class'
  <2>1. Behind' <=> Behind
    BY <1>1 DEF Behind
  <2> QED
    BY <2>1 DEF Class
<1>7. Reported'
  <2>1. ~Given("tmod") /\ live' # Inst
    BY <1>2, <1>3, OneMode
  <2> QED
    BY <1>1, <2>1 DEF Reported
<1>8. CodeKept'
  <2>1. CodeKept /\ code' = code
    BY DEF PassIInv
  <2> QED
    BY <1>1, <2>1 DEF CodeKept
<1>9. ASSUME NEW index \in 0..(Calls!Size - 1)
      PROVE  AsAsked(index)'
  <2>1. AsAsked(index)
    BY DEF PassIInv, Exact
  <2>2. Calls!InstAt(index) \in Inst
    BY Occurrence DEF PassIInv, Class
  <2>3. Adjusted(Calls!InstAt(index))' = Adjusted(Calls!InstAt(index))
    BY SameAdjusted
  <2>4. CASE index = Pos
    <3>1. Calls!InstAt(index) = CurInst
      BY <2>4 DEF CurInst
    <3>2. target'[CurInst] = callee
      BY <1>2 DEF PassIInv, TypeOK
    <3>3. CASE Given("rm") /\ callee = "nothing"
      BY <1>2, <1>3, <2>1, <2>3, <2>4, <3>1, <3>2, <3>3, RemovedAsAsked DEF PassIInv
    <3>4. CASE /\ Given("switch") /\ cmd.pass = "PosixCondWait" /\ callee = "pthread_cond_wait"
               /\ CurInst \notin InvokeInst /\ IsTimedWait(CurInst) /\ Args[CurInst] = 3
      BY <1>2, <1>3, <2>1, <2>3, <2>4, <3>1, <3>2, <3>4, SwitchedAsAsked DEF PassIInv
    <3> QED
      BY <3>3, <3>4
  <2>5. CASE index # Pos
    <3>1. Calls!InstAt(index) # CurInst
      BY <2>5, Injective DEF CurInst, PassIInv, Class
    <3>2. /\ Calls!InstAt(index) \in live' <=> Calls!InstAt(index) \in live
          /\ target'[Calls!InstAt(index)] = target[Calls!InstAt(index)]
      BY <2>2, <3>1 DEF PassIInv, TypeOK
    <3> QED
      BY <2>1, <2>2, <2>3, <2>5, <3>2, KeptAsAsked DEF PassIInv
  <2> QED
    BY <2>4, <2>5
<1> QED
  BY <1>5, <1>6, <1>7, <1>8, <1>9, TurnPreserves

\* A turn that did something undefined before it changed anything.
LEMMA FaultPreserves ==
  ASSUME PassIInv, Turning, pc = "loop", Left, UNCHANGED <<target, code, modified>>,
         pc' = "fault", fault' \in {"none", "oob", "end", "badgep", "dangling"},
         FaultsExplained',
         P!TypeOK', P!PointersDistinct', ~Behind => P!IInv'
  PROVE  PassIInv'
<1>1. /\ \A flag : Given(flag)' <=> Given(flag)
      /\ ArgsAccepted' <=> ArgsAccepted
      /\ cmd'.pass = cmd.pass
  BY SameCommand DEF Turning
<1>2. TypeOK'
  BY TurnTypes DEF PassIInv, TypeOK
<1>3. Class'
  <2>1. Behind' <=> Behind
    BY <1>1 DEF Behind
  <2> QED
    BY <2>1 DEF Class
<1>4. Stages'
  <2>1. i' # 0
    BY PosType DEF Turning, PassIInv
  <2> QED
    BY <1>1, <2>1 DEF Stages, PassIInv, Left
<1>5. PosixFound'
  BY <1>1 DEF PosixFound, PassIInv, Left
<1>6. DeletedHandled' /\ ErasedByMode'
  BY <1>1, HandledGrows DEF DeletedHandled, ErasedByMode, PassIInv, Turning, Left
<1>7. Reported'
  BY <1>1 DEF Reported, PassIInv, Left, Ran
<1>8. CodeKept'
  BY <1>1 DEF CodeKept, PassIInv, FuncOf
<1>9. Exact'
  BY DEF Exact
<1> QED
  BY <1>2, <1>3, <1>4, <1>5, <1>6, <1>7, <1>8, <1>9 DEF PassIInv

\* The class does not change.
LEMMA ClassUnchanged ==
  ASSUME UNCHANGED classVars
  PROVE  /\ P!TypeOK => P!TypeOK'
         /\ P!PointersDistinct => P!PointersDistinct'
         /\ P!IInv => P!IInv'
<1>1. UNCHANGED P!vars
  BY DEF classVars, P!vars, P!searchVars, P!registryVars, P!irVars
<1>2. P!IInv => P!IInv'
  BY <1>1, ClassInductive
<1>3. P!TypeOK => P!TypeOK'
  BY DEF classVars, P!TypeOK
<1>4. P!PointersDistinct => P!PointersDistinct'
  BY DEF classVars, P!PointersDistinct
<1> QED
  BY <1>2, <1>3, <1>4

LEMMA LookUpEffect ==
  ASSUME PassIInv, pc = "loop", i < Len(cmd.pos), LookUp
  PROVE  Left /\ P!TypeOK' /\ P!PointersDistinct' /\ (~Behind => P!IInv')
<1>1. CASE cmd.pass = "CondWait"
  <2>1. P!IInv
    BY <1>1 DEF PassIInv, Class, Behind
  <2>2. P!IInv' /\ Left
    BY <1>1, <2>1, PosType, QueryEffect DEF LookUp, PassIInv
  <2> QED
    BY <2>2 DEF P!IInv
<1>2. CASE cmd.pass # "CondWait"
  <2>1. UNCHANGED classVars
    BY <1>2 DEF LookUp
  <2>2. Left
    BY <2>1 DEF Left, classVars, PassIInv, Stages
  <2> QED
    BY <2>1, <2>2, ClassUnchanged DEF PassIInv, Class
<1> QED
  BY <1>1, <1>2

LEMMA RemoveWaitPreserves ==
  ASSUME PassIInv, RemoveWait
  PROVE  PassIInv'
<1>1. Turning /\ pc = "loop" /\ Given("rm") /\ i < Len(cmd.pos)
  BY DEF RemoveWait, Turn, Turning
<1>2. ArgsAccepted /\ ~Given("switch") /\ ~Given("tmod")
  BY <1>1, OneMode DEF PassIInv, Stages
<1>3. P!IInv /\ Pos \in Index
  BY <1>1, <1>2, PosType DEF PassIInv, Class, Behind
<1>4. modified \in BOOLEAN /\ fault = "none"
  BY <1>1 DEF PassIInv, TypeOK, Stages
<1>5. CASE Calls!Refuse("removeFromParentRepZero", Pos)
  <2>1. /\ P!IInv' /\ Left /\ last'.ret \in {-1, -2}
        /\ Pos \in 0..(Calls!Size - 1) => Pos \in deletedIndices
    BY <1>3, <1>5, RefuseEffect
  <2>2. UNCHANGED <<target, code, fault, pc>>
    BY <1>4, <2>1 DEF RemoveWait, Ends, Left
  <2>3. modified' = (modified \/ last'.ret \notin {-1, -2}) /\ ~(last'.ret \notin {-1, -2})
    BY <2>1 DEF RemoveWait
  <2>4. modified' = modified
    BY <1>4, <2>3, Zenon
  <2>5. P!TypeOK' /\ P!PointersDistinct'
    BY <2>1 DEF P!IInv
  <2> QED
    BY <1>1, <1>2, <2>1, <2>2, <2>4, <2>5, LeftPreserves
<1>6. CASE Calls!RemoveFromParentRepZero(Pos)
  <2>1. /\ P!IInv' /\ last'.ret = 0 /\ dangling' = {}
        /\ Pos \in 0..(Calls!Size - 1) /\ CurInst \in live
        /\ live' = live \ {CurInst}
        /\ deletedIndices' = deletedIndices \union {Pos}
        /\ UNCHANGED <<funcNames, isCpp, visited, callInsts, invokeInsts>>
    BY <1>3, <1>6, RemoveEffect DEF CurInst
  <2>2. /\ target' = [target EXCEPT ![CurInst] = "nothing"]
        /\ UNCHANGED code /\ fault' = "none" /\ pc' = "loop"
    BY <1>1, <2>1 DEF RemoveWait, Ends
  <2>3. modified' = (modified \/ last'.ret \notin {-1, -2}) /\ last'.ret \notin {-1, -2}
    BY <2>1 DEF RemoveWait
  <2>4. modified' = TRUE
    BY <2>3, Zenon
  <2>5. P!TypeOK' /\ P!PointersDistinct'
    BY <2>1 DEF P!IInv
  <2> QED
    BY <1>1, <2>1, <2>2, <2>4, <2>5, ErasedPreserves
<1> QED
  BY <1>5, <1>6 DEF RemoveWait

LEMMA SkipPositionPreserves ==
  ASSUME PassIInv, SkipPosition
  PROVE  PassIInv'
<1>1. /\ Turning /\ pc = "loop" /\ i < Len(cmd.pos)
      /\ Given("tmod") \/ Given("switch")
      /\ OutOfReach \/ cmd.pass = "CondWait"
      /\ LookUp
      /\ UNCHANGED <<target, code, modified, fault, pc>>
  BY DEF SkipPosition, Turn, Turning
<1>2. ArgsAccepted /\ ~Given("rm")
  BY <1>1, OneMode DEF PassIInv, Stages
<1>3. Left /\ P!TypeOK' /\ P!PointersDistinct' /\ (~Behind => P!IInv')
  BY <1>1, LookUpEffect
<1>4. ASSUME Pos \in 0..(Calls!Size - 1), cmd.pass = "PosixCondWait"
      PROVE  CurInst \in InvokeInst
  <2>1. Pos >= Len(callInsts) /\ Len(callInsts) \in Nat
    BY <1>1, <1>4 DEF OutOfReach, PassIInv, Class, P!TypeOK
  <2>2. ~(Pos < Len(callInsts))
    BY <1>4, <2>1
  <2> QED
    BY <1>4, <2>2, Occurrence DEF CurInst, PassIInv, Class
<1> QED
  BY <1>1, <1>2, <1>3, <1>4, LeftPreserves

\* A position in reach leads to an instruction that is live, unless PosixCondWait
\* -switch has taken it.
LEMMA InReach ==
  ASSUME PassIInv, pc = "loop", i < Len(cmd.pos), ~OutOfReach
  PROVE  /\ Pos \in 0..(Calls!Size - 1) /\ CurInst \in Inst
         /\ cmd.pass = "CondWait" => CurInst \in live
         /\ cmd.pass = "PosixCondWait" =>
              /\ Pos + 1 \in 1..Len(callInsts)
              /\ CurInst = callInsts[Pos + 1] /\ CurInst \notin InvokeInst
              /\ Calls!IsCall(Pos)
<1>1. Pos \in Nat /\ Pos \in Index /\ cmd.pass \in {"CondWait", "PosixCondWait"}
  BY PosType, CommandType DEF PassIInv
<1>2. CASE cmd.pass = "CondWait"
  <2>1. P!IInv
    BY <1>2 DEF PassIInv, Class, Behind
  <2>2. Calls!IsValidIndex(Pos) >= 0
    BY <1>1, <1>2, <2>1, Accepted DEF OutOfReach
  <2>3. Pos \in 0..(Calls!Size - 1) /\ CurInst \in live
    BY <1>1, <2>1, <2>2, Accepted DEF CurInst
  <2> QED
    BY <1>2, <2>3, Occurrence DEF CurInst, PassIInv, Class
<1>3. CASE cmd.pass = "PosixCondWait"
  <2>1. Len(callInsts) \in Nat /\ Len(invokeInsts) \in Nat
    BY DEF PassIInv, Class, P!TypeOK
  <2>2. Pos < Len(callInsts)
    BY <1>1, <1>3, <2>1 DEF OutOfReach
  <2>3. Pos \in 0..(Calls!Size - 1)
    BY <1>1, <2>1, <2>2 DEF Calls!Size
  <2> QED
    BY <1>3, <2>2, <2>3, Occurrence DEF CurInst, PassIInv, Class, Calls!IsCall
<1> QED
  BY <1>1, <1>2, <1>3

LEMMA AdjustedAt ==
  ASSUME UNCHANGED <<callInsts, invokeInsts>>, NEW index, NEW inst,
         inst = Calls!InstAt(index)
  PROVE  /\ Adjusted(Calls!InstAt(index))' = Adjusted(inst)'
         /\ Adjusted(Calls!InstAt(index)) = Adjusted(inst)
<1>1. Calls!InstAt(index)' = inst
  BY SameInst
<1> QED
  BY <1>1 DEF Adjusted

\* Why the code for a call may not be inserted.
LEMMA TimeFaultExplained ==
  ASSUME PassIInv, Turning, Given("tmod"), CurInst \in Inst,
         fault' = TimeFault(CurInst)
  PROVE  FaultsExplained' /\ fault' \in {"none", "oob", "end", "badgep", "dangling"}
<1>1. \A flag : Given(flag)' <=> Given(flag)
  BY SameCommand DEF Turning
<1>2. CASE SecOverrun
  <2>1. fault' = "oob"
    BY <1>2 DEF TimeFault
  <2>2. Len(cmd'.sec) \in Nat /\ Len(cmd'.nsec) \in Nat
    BY CommandType DEF Turning, PassIInv
  <2>3. Len(cmd'.sec) < Len(cmd'.nsec) /\ Pos >= Len(cmd'.sec)
    BY <1>2, <2>2 DEF SecOverrun, Turning
  <2>4. Pos \in Handled'
    BY HandledGrows DEF Turning, PassIInv
  <2> QED
    BY <1>1, <2>1, <2>3, <2>4 DEF FaultsExplained
<1>3. CASE ~SecOverrun /\ InsertPlace(CurInst) > Len(code[FuncOf(CurInst)])
  <2>1. fault' = "end"
    BY <1>3 DEF TimeFault
  <2>2. PICK inst \in Inst : inst = CurInst
    OBVIOUS
  <2>3. \E n \in 1..Len(cmd.inspt) : \E f \in 1..Len(Bodies) :
          cmd.inspt[n] >= Len(Bodies[f])
    BY <1>3, <2>2, InsertPlaceFacts DEF Turning, PassIInv
  <2> QED
    BY <1>1, <2>1, <2>3 DEF FaultsExplained, Turning
<1>4. CASE /\ ~SecOverrun /\ ~(InsertPlace(CurInst) > Len(code[FuncOf(CurInst)]))
           /\ Adjustable(CurInst) /\ elements < 2
  <2>1. fault' = "badgep"
    BY <1>4 DEF TimeFault
  <2>2. elements \in Nat /\ elements < 2
    BY <1>4, TimespecAssumption DEF PassIInv, TypeOK, Adjustable
  <2>3. elements' \in {0, 1}
    BY <2>2 DEF Turning
  <2> QED
    BY <1>1, <2>1, <2>3 DEF FaultsExplained
<1>5. CASE /\ ~SecOverrun /\ ~(InsertPlace(CurInst) > Len(code[FuncOf(CurInst)]))
           /\ ~(Adjustable(CurInst) /\ elements < 2)
  BY <1>5 DEF TimeFault, FaultsExplained
<1> QED
  BY <1>2, <1>3, <1>4, <1>5

\* The code was inserted.
LEMMA InsertedPreserves ==
  ASSUME PassIInv, Turning, pc = "loop", pc' = "loop", Given("tmod"), ~OutOfReach,
         fault' = "none", TimeFault(CurInst) = "none", Adjustable(CurInst),
         code' = Inserted(CurInst), Left, UNCHANGED <<target, modified>>,
         P!TypeOK', P!PointersDistinct', ~Behind => P!IInv'
  PROVE  PassIInv'
<1>1. /\ \A flag : Given(flag)' <=> Given(flag)
      /\ cmd'.pass = cmd.pass
  BY SameCommand DEF Turning
<1>2. /\ Pos \in 0..(Calls!Size - 1) /\ CurInst \in Inst
      /\ cmd.pass = "PosixCondWait" => CurInst \notin InvokeInst
  BY InReach DEF Turning
<1>3. PICK inst \in Inst : inst = CurInst
  BY <1>2
<1>4. ArgsAccepted
  BY DEF PassIInv, Stages
<1>5. ~SecOverrun /\ ~(InsertPlace(inst) > Len(code[FuncOf(inst)]))
  BY <1>3 DEF TimeFault
<1>6. NsecVal \in Int /\ SecVal \in Int /\ i \in Nat
  BY <1>4, <1>5, ValuesType, PosType DEF PassIInv, Turning
<1>7. InsertPlace(inst) \in 1..Len(code[FuncOf(inst)])
  <2>1. InsertPlace(inst) \in Nat \ {0}
    BY InsertPlaceFacts DEF PassIInv, Turning
  <2>2. Len(code[FuncOf(inst)]) \in Nat
    <3> HIDE DEF Items
    <3> QED
      BY FuncOfType DEF PassIInv, TypeOK
  <2> QED
    BY <1>5, <2>1, <2>2
<1>8. code' = Inserted(inst)
  BY <1>3
<1>9. Grown(inst)
  BY <1>6, <1>7, <1>8, AdjustmentFacts, InsertedGrows DEF PassIInv, TypeOK
<1>10. TypeOK'
  BY <1>9, TurnTypes DEF PassIInv, TypeOK, Grown
<1>11. Class'
  <2>1. Behind' <=> Behind
    BY <1>1 DEF Behind
  <2> QED
    BY <2>1 DEF Class
<1>12. Reported'
  BY <1>1 DEF Reported, PassIInv, Left, Ran
<1>13. CodeKept'
  BY <1>9, GrownKeepsCode DEF PassIInv, Turning
<1>14. ASSUME NEW index \in 0..(Calls!Size - 1)
       PROVE  AsAsked(index)'
  <2>1. AsAsked(index)
    BY DEF PassIInv, Exact
  <2>2. PICK other \in Inst : other = Calls!InstAt(index)
    BY Occurrence DEF PassIInv, Class
  <2>3. Adjusted(other)' = Adjusted(other) \union (IF other = inst THEN {i + 1} ELSE {})
    BY <1>6, <1>9, AdjustedGrows DEF PassIInv
  <2>4. Adjusted(Calls!InstAt(index))' =
          Adjusted(Calls!InstAt(index)) \union (IF other = inst THEN {i + 1} ELSE {})
    BY <2>2, <2>3, AdjustedAt DEF Left
  <2>5. CASE index = Pos
    <3>1. other = inst
      BY <1>3, <2>2, <2>5 DEF CurInst
    <3>2. /\ Adjustable(Calls!InstAt(index))
          /\ cmd.pass = "PosixCondWait" => Calls!InstAt(index) \notin InvokeInst
          /\ Adjusted(Calls!InstAt(index))' = Adjusted(Calls!InstAt(index)) \union {i + 1}
      BY <1>2, <1>3, <2>2, <2>4, <3>1
    <3> QED
      BY <1>4, <2>1, <2>5, <3>2, AdjustedAsAsked DEF PassIInv, Left
  <2>6. CASE index # Pos
    <3>1. other # inst
      BY <1>2, <1>3, <2>2, <2>6, Injective DEF CurInst, PassIInv, Class
    <3>2. Adjusted(Calls!InstAt(index))' = Adjusted(Calls!InstAt(index))
      BY <2>4, <3>1
    <3>3. Calls!InstAt(index) \in Inst
      BY <2>2
    <3> QED
      BY <2>1, <2>6, <3>2, <3>3, KeptAsAsked DEF PassIInv, Left
  <2> QED
    BY <2>5, <2>6
<1>15. /\ Given("rm") => deletedIndices' \subseteq deletedIndices \union {Pos}
       /\ live' # Inst => Given("rm") \/ (cmd.pass = "PosixCondWait" /\ Given("switch"))
  BY DEF Left, PassIInv, ErasedByMode
<1> QED
  BY <1>10, <1>11, <1>12, <1>13, <1>14, <1>15, TurnPreserves DEF Left

LEMMA ModifyTimePreserves ==
  ASSUME PassIInv, ModifyTime
  PROVE  PassIInv'
<1>1. /\ Turning /\ pc = "loop" /\ i < Len(cmd.pos) /\ Given("tmod")
      /\ ~OutOfReach /\ LookUp
      /\ fault' = TimeFault(CurInst)
      /\ pc' = IF TimeFault(CurInst) = "none" THEN pc ELSE "fault"
      /\ UNCHANGED <<target, modified>>
      /\ code' = IF TimeFault(CurInst) = "none" /\ Adjustable(CurInst)
                 THEN Inserted(CurInst) ELSE code
  BY DEF ModifyTime, Turn, Turning, Ends
<1>2. Left /\ P!TypeOK' /\ P!PointersDistinct' /\ (~Behind => P!IInv')
  BY <1>1, LookUpEffect
<1>3. CurInst \in Inst
  BY <1>1, InReach
<1>4. CASE TimeFault(CurInst) # "none"
  <2>1. FaultsExplained' /\ fault' \in {"none", "oob", "end", "badgep", "dangling"}
    BY <1>1, <1>3, TimeFaultExplained
  <2> QED
    BY <1>1, <1>2, <1>4, <2>1, FaultPreserves
<1>5. CASE TimeFault(CurInst) = "none" /\ Adjustable(CurInst)
  BY <1>1, <1>2, <1>5, InsertedPreserves
<1>6. CASE TimeFault(CurInst) = "none" /\ ~Adjustable(CurInst)
  <2>1. ~Given("rm") /\ ~Given("switch") /\ fault = "none"
    BY <1>1, OneMode DEF PassIInv, Stages
  <2> QED
    BY <1>1, <1>2, <1>6, <2>1, LeftPreserves
<1> QED
  BY <1>4, <1>5, <1>6

\* Only PosixCondWait switches, and only what is a timed wait.
LEMMA SwitchableFacts ==
  ASSUME PassIInv, pc = "loop", i < Len(cmd.pos), ~OutOfReach
  PROVE  /\ Switchable(CurInst) =>
              cmd.pass = "PosixCondWait" /\ IsTimedWait(CurInst) /\ Args[CurInst] = 3
         /\ cmd.pass = "PosixCondWait" /\ IsTimedWait(CurInst) /\ Args[CurInst] = 3 =>
              Switchable(CurInst)
<1>1. /\ CurInst \in Inst /\ cmd.pass \in {"CondWait", "PosixCondWait"}
      /\ RawName[CurInst] \in Names \union {Indirect}
  BY InReach, CommandType, NameAssumption DEF PassIInv
<1>2. CASE cmd.pass = "CondWait"
  BY <1>1, <1>2, SpellingAssumption DEF Switchable, SwitchedNames
<1>3. CASE cmd.pass = "PosixCondWait"
  <2>1. RawName[CurInst] \in {"pthread_cond_wait", "pthread_cond_timedwait"}
    BY <1>3, InReach DEF PassIInv, PosixFound
  <2>2. "pthread_cond_timedwait" \in Names
    BY SearchAssumption DEF PosixNames, CppNames, ToSet
  <2> QED
    BY <1>3, <2>1, <2>2 DEF Switchable, SwitchedNames, IsTimedWait
<1> QED
  BY <1>1, <1>2, <1>3

LEMMA SwitchWaitPreserves ==
  ASSUME PassIInv, SwitchWait
  PROVE  PassIInv'
<1>1. /\ Turning /\ pc = "loop" /\ i < Len(cmd.pos) /\ Given("switch")
      /\ ~OutOfReach /\ code' = code
      /\ fault' = IF CurInst \in live THEN "none" ELSE "dangling"
      /\ pc' = IF CurInst \in live THEN pc ELSE "fault"
  BY DEF SwitchWait, Turn, Turning, Ends
<1>2. /\ Pos \in 0..(Calls!Size - 1) /\ CurInst \in Inst
      /\ cmd.pass \in {"CondWait", "PosixCondWait"}
      /\ ~Given("rm") /\ ~Given("tmod") /\ fault = "none"
  BY <1>1, InReach, CommandType, OneMode DEF PassIInv, Stages
<1>3. \A flag : Given(flag)' <=> Given(flag)
  BY <1>1, SameCommand DEF Turning
<1>4. CASE CurInst \notin live
  <2>1. LookUp /\ UNCHANGED <<target, modified>> /\ fault' = "dangling" /\ pc' = "fault"
    BY <1>1, <1>4 DEF SwitchWait
  <2>2. Left /\ P!TypeOK' /\ P!PointersDistinct' /\ (~Behind => P!IInv')
    BY <1>1, <2>1, LookUpEffect
  <2>3. cmd.pass = "PosixCondWait"
    BY <1>1, <1>2, <1>4, InReach
  <2>4. Pos \in Handled
    <3>1. AsAsked(Pos)
      BY <1>1, <1>2 DEF PassIInv, Exact
    <3> QED
      BY <1>4, <3>1 DEF AsAsked, Removed, SwitchedTo, CurInst
  <2>5. PICK m \in Turns : cmd.pos[m] = Pos
    BY <2>4 DEF Handled
  <2>6. /\ m \in Turns' /\ i + 1 \in Turns' /\ m # i + 1
        /\ cmd'.pos[m] = cmd'.pos[i + 1]
    BY <1>1, <2>5, HandledGrows DEF Turning, Pos, PassIInv
  <2>7. FaultsExplained'
    BY <1>1, <1>3, <2>1, <2>3, <2>6 DEF FaultsExplained, Turning
  <2> QED
    BY <1>1, <2>1, <2>2, <2>7, FaultPreserves
<1>5. CASE CurInst \in live /\ ~Switchable(CurInst)
  <2>1. LookUp /\ UNCHANGED <<target, modified, pc, fault>>
    BY <1>1, <1>2, <1>5 DEF SwitchWait
  <2>2. Left /\ P!TypeOK' /\ P!PointersDistinct' /\ (~Behind => P!IInv')
    BY <1>1, <2>1, LookUpEffect
  <2>3. cmd.pass = "PosixCondWait" => ~IsTimedWait(CurInst) \/ Args[CurInst] # 3
    BY <1>1, <1>5, SwitchableFacts
  <2> QED
    BY <1>1, <1>2, <2>1, <2>2, <2>3, LeftPreserves
<1>6. CASE CurInst \in live /\ Switchable(CurInst)
  <2>1. /\ Calls!ReplaceUsesAndErase(CurInst)
        /\ tail' = IF Calls!IsCall(Pos) THEN tail
                   ELSE [tail EXCEPT ![CurInst] = <<"replacement">>]
        /\ target' = [target EXCEPT ![CurInst] = "pthread_cond_wait"]
        /\ modified' = TRUE
        /\ UNCHANGED <<funcNames, isCpp, visited, callInsts, invokeInsts, deletedIndices,
                       last, dangling>>
    BY <1>1, <1>6 DEF SwitchWait
  <2>2. cmd.pass = "PosixCondWait" /\ IsTimedWait(CurInst) /\ Args[CurInst] = 3
    BY <1>1, <1>6, SwitchableFacts
  <2>3. CurInst \notin InvokeInst /\ tail' = tail
    BY <1>1, <2>1, <2>2, InReach
  <2>4. live' = live \ {CurInst}
    BY <2>1 DEF Calls!ReplaceUsesAndErase
  <2>5. users' \in [Inst -> SUBSET (Inst \union {Calls!Other})]
    <3>1. users \in [Inst -> SUBSET (Inst \union {Calls!Other})]
      BY ClassConstants DEF PassIInv, Class, P!TypeOK
    <3> QED
      BY <2>1, <3>1, ClassConstants DEF Calls!ReplaceUsesAndErase
  <2>6. P!TypeOK'
    BY <2>1, <2>3, <2>4, <2>5, ClassConstants DEF PassIInv, Class, P!TypeOK
  <2>7. P!PointersDistinct'
    BY <2>1 DEF PassIInv, Class, P!PointersDistinct
  <2>8. Behind
    BY <1>1, <2>2 DEF Behind
  <2>9. dangling' = {} /\ fault' = "none" /\ pc' = "loop"
    BY <1>1, <1>6, <2>1 DEF PassIInv, Stages
  <2> QED
    BY <1>1, <1>2, <1>6, <2>1, <2>2, <2>3, <2>4, <2>6, <2>7, <2>8, <2>9, ErasedPreserves
<1> QED
  BY <1>4, <1>5, <1>6

-----------------------------------------------------------------------------
(* The steps outside the loops *)

\* Before the first turn every occurrence is as it was loaded.
Untouched == P!TypeOK /\ i = 0 /\ live = Inst /\ target = RawName /\ code = LoadedCode
AllAsAsked == \A index \in 0..(Calls!Size - 1) : AsAsked(index)

LEMMA LoadedHas ==
  ASSUME NEW inst \in Inst
  PROVE  /\ \A x : Has(LoadedCode[FuncOf(inst)], x) => x.step = "inst"
         /\ \E n \in 1..Len(LoadedCode[FuncOf(inst)]) :
              /\ LoadedCode[FuncOf(inst)][n].step = "inst"
              /\ LoadedCode[FuncOf(inst)][n].of = inst
<1>1. \A other : Loaded(other).step = "inst" /\ Loaded(other).of = other
  BY DEF Loaded, Item
<1>2. FuncOf(inst) \in 1..Len(Bodies)
  BY FuncOfType
<1>3. \A x : Has(LoadedCode[FuncOf(inst)], x) => x.step = "inst"
  BY <1>1, <1>2, LoadedCodeFacts DEF Has
<1>4. PICK n \in 1..Len(Bodies[FuncOf(inst)]) : Bodies[FuncOf(inst)][n] = inst
  BY FuncOfType
<1>5. /\ n \in 1..Len(LoadedCode[FuncOf(inst)])
      /\ LoadedCode[FuncOf(inst)][n] = Loaded(inst)
  BY <1>2, <1>4, LoadedCodeFacts
<1> QED
  BY <1>1, <1>3, <1>5

LEMMA UntouchedAsAsked == Untouched => AllAsAsked
<1> SUFFICES ASSUME Untouched, NEW index \in 0..(Calls!Size - 1) PROVE AsAsked(index)
  BY DEF AllAsAsked
<1>1. PICK inst \in Inst : inst = Calls!InstAt(index)
  BY Occurrence DEF Untouched
<1>2. Turns = {} /\ Handled = {} /\ AskedFor(index) = {}
  BY DEF Untouched, Turns, Handled, AskedFor
<1>3. ~Removed(index) /\ ~SwitchedTo(index)
  BY <1>2 DEF Removed, SwitchedTo
<1>4. Adjusted(inst) = {}
  <2>1. CodeTyped
    BY LoadedCodeFacts DEF CodeTyped, Untouched
  <2>2. AdjustedByCode
    BY <2>1, AdjustedBy
  <2> QED
    BY <2>2, LoadedHas DEF AdjustedByCode, Untouched
<1> QED
  BY <1>1, <1>2, <1>3, <1>4 DEF AsAsked, Untouched

LEMMA LoadedCodeKept ==
  /\ \A f \in 1..Len(Bodies) : Len(LoadedCode[f]) >= Len(Bodies[f])
  /\ \A inst \in Inst : \E n \in 1..Len(LoadedCode[FuncOf(inst)]) :
       /\ LoadedCode[FuncOf(inst)][n].step = "inst"
       /\ LoadedCode[FuncOf(inst)][n].of = inst
<1>1. \A f \in 1..Len(Bodies) : Len(LoadedCode[f]) >= Len(Bodies[f])
  BY LoadedCodeFacts
<1> QED
  BY <1>1, LoadedHas

LEMMA InitPreserves == Init => PassIInv
<1> SUFFICES ASSUME Init PROVE PassIInv
  OBVIOUS
<1>1. P!IInv
  BY ClassInductive DEF Init
<1>2. P!TypeOK /\ P!PointersDistinct
  BY <1>1 DEF P!IInv
<1>3. live = Inst /\ funcNames = {} /\ callInsts = <<>> /\ ~isCpp /\ dangling = {}
  BY ClassConstants DEF Init, Calls!Init
<1>4. TypeOK
  <2>1. Calls!TypeOK
    BY <1>2, SameTypes
  <2>2. cmd \in Commands /\ Len(cmd.pos) \in Nat
    BY CommandAssumption DEF Init
  <2>3. target \in [Inst -> Names \union {Indirect, "nothing"}]
    BY NameAssumption DEF Init
  <2> QED
    <3>1. code \in [1..Len(Bodies) -> Seq(Items)]
      BY LoadedCodeFacts DEF Init
    <3>2. i \in 0..Len(cmd.pos)
      BY <2>2 DEF Init
    <3>3. /\ elements \in Timespecs /\ modified \in BOOLEAN
          /\ fault \in {"none", "oob", "end", "badgep", "dangling"}
          /\ pc \in {"args", "search", "loop", "ran", "exit", "done", "fault"}
      BY DEF Init
    <3> QED
      BY <2>1, <2>2, <2>3, <3>1, <3>2, <3>3 DEF TypeOK
<1>5. Class
  BY <1>1, <1>2 DEF Class
<1>6. Stages
  BY <1>3, FS_EmptySet DEF Stages, Init
<1>7. PosixFound
  BY <1>3 DEF PosixFound
<1>8. DeletedHandled /\ ErasedByMode /\ Reported
  BY <1>3 DEF DeletedHandled, ErasedByMode, Reported, Ran, Init, Calls!Init
<1>9. CodeKept
  BY LoadedCodeKept DEF CodeKept, Init
<1>10. Exact
  BY <1>2, <1>3, UntouchedAsAsked DEF Untouched, AllAsAsked, Exact, Init
<1>11. FaultsExplained
  BY DEF FaultsExplained, Init
<1> QED
  BY <1>4, <1>5, <1>6, <1>7, <1>8, <1>9, <1>10, <1>11 DEF PassIInv

\* What a step that keeps the occurrences, the code and the command line keeps
Same == UNCHANGED <<callInsts, invokeInsts, live, target, code, cmd, elements, i>>
LEMMA SameOccurrences ==
  ASSUME Same
  PROVE  /\ \A index : AsAsked(index) => AsAsked(index)'
         /\ CodeKept => CodeKept'
         /\ Handled' = Handled
<1>1. \A index : Calls!InstAt(index)' = Calls!InstAt(index)
  BY SameInst DEF Same
<1>2. \A index : Adjusted(Calls!InstAt(index))' = Adjusted(Calls!InstAt(index))
  BY SameAdjusted DEF Same
<1>3. \A flag : Given(flag)' <=> Given(flag)
  BY SameCommand DEF Same
<1>4. Handled' = Handled /\ \A index : AskedFor(index)' = AskedFor(index)
  BY DEF Handled, AskedFor, Turns, Same
<1>5. \A index : (Removed(index)' <=> Removed(index)) /\ (SwitchedTo(index)' <=> SwitchedTo(index))
  BY <1>1, <1>3, <1>4 DEF Removed, SwitchedTo, IsTimedWait, Same
<1>6. \A index : Adjustable(Calls!InstAt(index))' <=> Adjustable(Calls!InstAt(index))
  BY <1>1 DEF Adjustable, IsTimedWait, Same
<1>7. ASSUME NEW index, AsAsked(index) PROVE AsAsked(index)'
  BY <1>1, <1>2, <1>3, <1>4, <1>5, <1>6, <1>7 DEF AsAsked, Same
<1>8. CodeKept => CodeKept'
  BY <1>3 DEF CodeKept, FuncOf, Same
<1> QED
  BY <1>4, <1>7, <1>8

\* A step between the stages touches neither the class nor the code.
LEMMA StagePreserves ==
  ASSUME PassIInv, UNCHANGED <<classVars, target, code, cmd, elements, i, fault>>,
         modified' \in BOOLEAN,
         pc \notin {"fault", "done"}, pc' \in {"search", "loop", "ran", "exit", "done"},
         Behind => Behind', Stages', Reported'
  PROVE  PassIInv'
<1>1. Same /\ UNCHANGED <<funcNames, isCpp, visited, deletedIndices, dangling>>
  BY DEF Same, classVars
<1>2. /\ \A flag : Given(flag)' <=> Given(flag)
      /\ cmd'.pass = cmd.pass
  BY SameCommand
<1>3. P!TypeOK' /\ P!PointersDistinct' /\ (~Behind' => P!IInv')
  BY ClassUnchanged DEF PassIInv, Class
<1>4. Calls!TypeOK'
  BY <1>3, SameTypes, PTL
<1>5. TypeOK'
  BY <1>4 DEF PassIInv, TypeOK
<1>6. Class' /\ PosixFound' /\ ErasedByMode' /\ DeletedHandled'
  BY <1>1, <1>2, <1>3, SameOccurrences
  DEF Class, PosixFound, ErasedByMode, DeletedHandled, PassIInv, Same
<1>7. CodeKept' /\ Exact'
  BY <1>1, SameOccurrences, SameInst DEF Exact, PassIInv, Same
<1>8. FaultsExplained'
  BY DEF FaultsExplained, PassIInv, Stages
<1> QED
  BY <1>5, <1>6, <1>7, <1>8 DEF PassIInv

LEMMA CheckCommandLineArgsPreserves ==
  ASSUME PassIInv, CheckCommandLineArgs
  PROVE  PassIInv'
<1>1. /\ UNCHANGED <<classVars, target, code, cmd, elements, i, modified, fault>>
      /\ pc = "args" /\ pc' \in {"search", "exit"} /\ (pc' = "search" => ArgsAccepted)
  BY DEF CheckCommandLineArgs
<1>2. /\ \A flag : Given(flag)' <=> Given(flag)
      /\ ArgsAccepted' <=> ArgsAccepted
  BY <1>1, SameCommand
<1>3. Stages'
  BY <1>1, <1>2 DEF Stages, PassIInv, classVars
<1>4. Reported'
  BY <1>1, <1>2 DEF Reported, Ran, PassIInv, classVars
<1>5. modified' \in BOOLEAN /\ ~Behind
  BY <1>1 DEF PassIInv, TypeOK, Behind
<1> QED
  BY <1>1, <1>3, <1>4, <1>5, StagePreserves

LEMMA StartLoopPreserves ==
  ASSUME PassIInv, StartLoop
  PROVE  PassIInv'
<1>1. /\ UNCHANGED <<classVars, target, code, cmd, elements, i, modified, fault>>
      /\ pc = "search" /\ pc' = "loop" /\ visited = Len(Layout)
  BY DEF StartLoop
<1>2. /\ \A flag : Given(flag)' <=> Given(flag)
      /\ ArgsAccepted' <=> ArgsAccepted
  BY <1>1, SameCommand
<1>3. Stages'
  BY <1>1, <1>2 DEF Stages, PassIInv, classVars
<1>4. Reported'
  BY <1>1, <1>2 DEF Reported, Ran, PassIInv, classVars
<1>5. modified' \in BOOLEAN /\ ~Behind
  BY <1>1 DEF PassIInv, TypeOK, Behind
<1> QED
  BY <1>1, <1>3, <1>4, <1>5, StagePreserves

\* -tmod reports a change whatever it did.
LEMMA FinishLoopPreserves ==
  ASSUME PassIInv, FinishLoop
  PROVE  PassIInv'
<1>1. /\ UNCHANGED <<classVars, target, code, cmd, elements, i, fault>>
      /\ pc = "loop" /\ pc' = "ran" /\ modified' = (modified \/ Given("tmod"))
  BY DEF FinishLoop
<1>2. /\ \A flag : Given(flag)' <=> Given(flag)
      /\ ArgsAccepted' <=> ArgsAccepted
      /\ cmd'.pass = cmd.pass
  BY <1>1, SameCommand
<1>3. Stages'
  BY <1>1, <1>2 DEF Stages, PassIInv, classVars
<1>4. Reported'
  <2>1. (live' # Inst => modified) /\ (modified /\ ~Given("tmod") => live' # Inst)
    BY <1>1 DEF Reported, PassIInv, classVars
  <2>2. (live' # Inst => modified') /\ (modified' /\ ~Given("tmod") => live' # Inst)
        /\ (Given("tmod") => modified')
    BY <1>1, <2>1
  <2> QED
    BY <1>2, <2>2 DEF Reported
<1>5. modified' \in BOOLEAN /\ (Behind => Behind')
  BY <1>1, <1>2 DEF PassIInv, TypeOK, Behind
<1> QED
  BY <1>1, <1>3, <1>4, <1>5, StagePreserves

-----------------------------------------------------------------------------
(* The search *)

WaitNames == {"pthread_cond_wait", "pthread_cond_timedwait",
              "std::__1::condition_variable::wait",
              "std::__1::condition_variable::wait_for",
              "std::__1::condition_variable::wait_until"}

\* The names a pass searches for
LEMMA SearchNamesType == SearchNames \in Seq(WaitNames) /\ WaitNames \subseteq Names
<1>1. WaitNames \subseteq Names
  BY SearchAssumption DEF WaitNames, PosixNames, CppNames, ToSet
<1>2. PosixNames \in Seq(WaitNames) /\ CppNames \in Seq(WaitNames)
  BY DEF PosixNames, CppNames, WaitNames
<1>3. SearchNames \in {<<>> \o <<>>, <<>> \o CppNames, PosixNames \o <<>>, PosixNames \o CppNames}
  BY DEF SearchNames
<1>4. \A a, b \in Seq(WaitNames) : a \o b \in Seq(WaitNames)
  BY ConcatProperties
<1>5. <<>> \in Seq(WaitNames)
  OBVIOUS
<1> QED
  BY <1>1, <1>2, <1>3, <1>4, <1>5

LEMMA SearchedNames ==
  ASSUME NEW n \in 1..Len(SearchNames)
  PROVE  /\ SearchNames[n] \in Names
         /\ cmd.pass = "PosixCondWait" =>
              SearchNames[n] \in {"pthread_cond_wait", "pthread_cond_timedwait"}
<1>1. SearchNames[n] \in Names
  BY SearchNamesType
<1>2. ASSUME cmd.pass = "PosixCondWait"
      PROVE  SearchNames[n] \in {"pthread_cond_wait", "pthread_cond_timedwait"}
  <2>1. SearchNames = <<"pthread_cond_wait", "pthread_cond_timedwait">> \o <<>>
    BY <1>2 DEF SearchNames, PosixNames
  <2> QED
    BY <2>1
<1> QED
  BY <1>1, <1>2

\* An instruction that PosixCondWait finds is called by the name it searches for.
LEMMA VisitFinds ==
  ASSUME P!TypeOK, PosixFound, Calls!Visit, cmd' = cmd
  PROVE  PosixFound'
<1> SUFFICES ASSUME cmd.pass = "PosixCondWait"
             PROVE  \A n \in 1..Len(callInsts') :
                      RawName[callInsts'[n]] \in {"pthread_cond_wait", "pthread_cond_timedwait"}
  BY DEF PosixFound, Calls!Visit
<1> DEFINE inst == Layout[visited + 1]
<1>1. callInsts \in Seq(Inst \ InvokeInst)
  BY ClassConstants DEF P!TypeOK
<1>2. \A n \in 1..Len(callInsts) :
        RawName[callInsts[n]] \in {"pthread_cond_wait", "pthread_cond_timedwait"}
  BY DEF PosixFound
<1>3. CASE callInsts' = callInsts
  BY <1>2, <1>3
<1>4. CASE Calls!CheckIfMatch(inst) /\ callInsts' = Append(callInsts, inst)
  <2>1. RawName[inst] \in {"pthread_cond_wait", "pthread_cond_timedwait"}
    BY <1>4 DEF PosixFound, Calls!CheckIfMatch
  <2> HIDE DEF inst
  <2>2. /\ Len(callInsts') = Len(callInsts) + 1 /\ Len(callInsts) \in Nat
        /\ \A n \in 1..Len(callInsts) : callInsts'[n] = callInsts[n]
        /\ callInsts'[Len(callInsts) + 1] = inst
    BY <1>1, <1>4
  <2>3. \A n \in 1..Len(callInsts') : n \in 1..Len(callInsts) \/ n = Len(callInsts) + 1
    BY <2>2
  <2> QED
    BY <1>2, <2>1, <2>2, <2>3
<1> QED
  BY <1>3, <1>4 DEF Calls!Visit, Calls!VisitCallInst, Calls!VisitInvokeInst

\* The module is as it was loaded, and the names found so far are wait names.
LEMMA SearchPreserves ==
  ASSUME PassIInv, Search
  PROVE  PassIInv'
<1>1. /\ pc = "search" /\ UNCHANGED <<target, code, cmd, elements, i, modified, fault, pc>>
      /\ i = 0 /\ live = Inst /\ target = RawName /\ code = LoadedCode
      /\ ArgsAccepted /\ IsFiniteSet(funcNames) /\ dangling = {} /\ fault = "none"
      /\ P!IInv /\ P!TypeOK /\ PosixFound
  BY DEF Search, passVars, PassIInv, Stages, Class, Behind
<1>2. /\ \A flag : Given(flag)' <=> Given(flag)
      /\ ArgsAccepted' <=> ArgsAccepted
      /\ cmd'.pass = cmd.pass
  BY <1>1, SameCommand
<1>3. Len(SearchNames) \in Nat /\ Cardinality(funcNames) \in Nat
  BY <1>1, FS_CardinalityType, SearchNamesType
<1>4. ASSUME Cardinality(funcNames) < Len(SearchNames),
             Calls!AddFuncNameToSearch(SearchNames[Cardinality(funcNames) + 1])
      PROVE  /\ P!IInv' /\ IsFiniteSet(funcNames') /\ PosixFound'
             /\ UNCHANGED <<live, dangling, deletedIndices>>
  <2> DEFINE name == SearchNames[Cardinality(funcNames) + 1]
  <2>1. Cardinality(funcNames) + 1 \in 1..Len(SearchNames)
    BY <1>3, <1>4
  <2>2. /\ name \in Names
        /\ cmd.pass = "PosixCondWait" =>
             name \in {"pthread_cond_wait", "pthread_cond_timedwait"}
    BY <2>1, SearchedNames
  <2>3. /\ funcNames' = funcNames \union {name}
        /\ UNCHANGED <<isCpp, visited, callInsts, invokeInsts, deletedIndices, live, dangling>>
    BY <1>4 DEF Calls!AddFuncNameToSearch, Calls!registryVars, Calls!irVars
  <2>4. P!IInv'
    BY <1>1, <1>4, <2>2, ClassSteps, ClassInductive
  <2>5. IsFiniteSet(funcNames')
    BY <1>1, <2>3, FS_AddElement
  <2>6. PosixFound'
    BY <1>1, <1>2, <2>2, <2>3 DEF PosixFound
  <2> QED
    BY <2>3, <2>4, <2>5, <2>6
<1>5. ASSUME SearchesCpp, Calls!SearchCpp
      PROVE  /\ P!IInv' /\ IsFiniteSet(funcNames') /\ PosixFound'
             /\ UNCHANGED <<live, dangling, deletedIndices>>
  <2>1. P!IInv'
    BY <1>1, <1>5, ClassSteps, ClassInductive
  <2>2. PosixFound'
    BY <1>2, <1>5 DEF PosixFound, SearchesCpp
  <2> QED
    BY <1>1, <1>5, <2>1, <2>2 DEF Calls!SearchCpp, Calls!registryVars, Calls!irVars
<1>6. ASSUME Calls!Visit
      PROVE  /\ P!IInv' /\ IsFiniteSet(funcNames') /\ PosixFound'
             /\ UNCHANGED <<live, dangling, deletedIndices>>
  <2>1. P!IInv'
    BY <1>1, <1>6, ClassSteps, ClassInductive
  <2>2. PosixFound'
    BY <1>1, <1>6, VisitFinds
  <2> QED
    BY <1>1, <1>6, <2>1, <2>2 DEF Calls!Visit, Calls!irVars
<1>7. /\ P!IInv' /\ IsFiniteSet(funcNames') /\ PosixFound'
      /\ UNCHANGED <<live, dangling, deletedIndices>>
  BY <1>4, <1>5, <1>6 DEF Search
<1>8. P!TypeOK' /\ P!PointersDistinct'
  BY <1>7 DEF P!IInv
<1>9. Calls!TypeOK'
  BY <1>8, SameTypes, PTL
<1>10. TypeOK'
  BY <1>1, <1>9 DEF PassIInv, TypeOK
<1>11. Class' /\ Stages'
  BY <1>1, <1>2, <1>7, <1>8 DEF Class, Stages
<1>12. DeletedHandled' /\ ErasedByMode' /\ Reported'
  BY <1>1, <1>2, <1>7
  DEF PassIInv, DeletedHandled, ErasedByMode, Reported, Ran, Handled, Turns
<1>13. CodeKept' /\ Exact'
  <2>1. Untouched'
    BY <1>1, <1>7, <1>8 DEF Untouched
  <2>2. AllAsAsked'
    BY <2>1, UntouchedAsAsked, PTL
  <2>3. CodeKept'
    BY <1>1, LoadedCodeKept DEF CodeKept
  <2> QED
    BY <2>2, <2>3 DEF Exact, AllAsAsked
<1>14. FaultsExplained'
  BY <1>1 DEF FaultsExplained
<1> QED
  BY <1>7, <1>10, <1>11, <1>12, <1>13, <1>14 DEF PassIInv

-----------------------------------------------------------------------------
(* The end of the pass *)

\* Only a listing that follows an erasure dangles, and only -switch allows one.
LEMMA PrintResultPreserves ==
  ASSUME PassIInv, PrintResult
  PROVE  PassIInv'
<1>1. /\ pc = "ran" /\ UNCHANGED <<target, code, cmd, elements, i, modified>>
      /\ fault' = IF dangling' = {} THEN "none" ELSE "dangling"
      /\ pc' = IF dangling' = {} THEN "done" ELSE "fault"
      /\ ArgsAccepted /\ IsFiniteSet(funcNames) /\ dangling = {} /\ fault = "none"
      /\ visited = Len(Layout)
  BY DEF PrintResult, PassIInv, Stages
<1>2. /\ \A flag : Given(flag)' <=> Given(flag)
      /\ ArgsAccepted' <=> ArgsAccepted
      /\ VerbosePrint' <=> VerbosePrint
      /\ cmd'.pass = cmd.pass
  BY <1>1, SameCommand
<1>3. CASE ~VerbosePrint
  <2>1. UNCHANGED classVars
    BY <1>3 DEF PrintResult
  <2>2. fault' = "none" /\ pc' = "done" /\ dangling' = {}
    BY <1>1, <2>1 DEF classVars
  <2>3. Stages'
    BY <1>1, <1>2, <2>1, <2>2 DEF Stages, PassIInv, classVars
  <2>4. Reported'
    BY <1>1, <1>2, <2>1, <2>2 DEF Reported, Ran, PassIInv, classVars
  <2>5. modified' \in BOOLEAN /\ (Behind => Behind')
    BY <1>1, <1>2, <2>2 DEF PassIInv, TypeOK, Behind
  <2> QED
    BY <1>1, <2>1, <2>2, <2>3, <2>4, <2>5, StagePreserves
<1>4. CASE VerbosePrint
  <2>1. /\ Calls!PrintInstDebugInfo
        /\ UNCHANGED <<funcNames, isCpp, visited, callInsts, invokeInsts, deletedIndices,
                       live, users, tail, last>>
        /\ dangling' = IF {Calls!InstAt(index) : index \in 0..(Calls!Size - 1)} \subseteq live
                       THEN dangling ELSE dangling \union {"printInstDebugInfo"}
    BY <1>4 DEF PrintResult, Calls!PrintInstDebugInfo, Calls!Follow, Calls!searchVars,
                Calls!registryVars, Calls!irVars
  <2>2. Same
    BY <1>1, <2>1 DEF Same
  <2>3. ~Behind => P!IInv'
    BY <2>1, ClassSteps, ClassInductive DEF PassIInv, Class
  <2>4. P!TypeOK'
    BY <1>1, <2>1 DEF PassIInv, Class, P!TypeOK
  <2>5. P!PointersDistinct'
    BY <2>1 DEF PassIInv, Class, P!PointersDistinct
  <2>6. Calls!TypeOK'
    BY <2>4, SameTypes, PTL
  <2>7. TypeOK'
    BY <1>1, <2>6 DEF PassIInv, TypeOK
  <2>8. Class'
    <3>1. Behind' <=> Behind
      BY <1>1, <1>2 DEF Behind
    <3> QED
      BY <2>3, <2>4, <2>5, <3>1 DEF Class
  <2>9. Stages'
    BY <1>1, <1>2, <2>1 DEF Stages, PassIInv
  <2>10. PosixFound' /\ DeletedHandled' /\ ErasedByMode'
    BY <1>2, <2>1, <2>2, SameOccurrences
    DEF PosixFound, DeletedHandled, ErasedByMode, PassIInv
  <2>11. Reported'
    BY <1>1, <1>2, <2>1 DEF Reported, Ran, PassIInv
  <2>12. CodeKept' /\ Exact'
    BY <1>1, <2>1, <2>2, SameOccurrences, SameInst DEF Exact, PassIInv
  <2>13. FaultsExplained'
    <3>1. CASE dangling' = {}
      BY <1>1, <3>1 DEF FaultsExplained
    <3>2. CASE dangling' # {}
      <4>1. PICK index \in 0..(Calls!Size - 1) : Calls!InstAt(index) \notin live
        BY <1>1, <2>1, <3>2
      <4>2. live # Inst
        BY <4>1, Occurrence DEF PassIInv, Class
      <4>3. ~Given("rm")
        BY <1>1, <1>4, OneMode DEF VerbosePrint
      <4>4. cmd.pass = "PosixCondWait" /\ Given("switch")
        BY <4>2, <4>3 DEF PassIInv, ErasedByMode
      <4> QED
        BY <1>1, <1>2, <1>4, <3>2, <4>4 DEF FaultsExplained
    <3> QED
      BY <3>1, <3>2
  <2> QED
    BY <2>7, <2>8, <2>9, <2>10, <2>11, <2>12, <2>13 DEF PassIInv
<1> QED
  BY <1>3, <1>4

LEMMA StutterPreserves ==
  ASSUME PassIInv, UNCHANGED vars
  PROVE  PassIInv'
<1>1. /\ UNCHANGED <<target, code, cmd, elements, i, modified, fault, pc>>
      /\ UNCHANGED classVars
  BY DEF vars, passVars
<1>2. Same /\ UNCHANGED <<funcNames, isCpp, visited, deletedIndices, dangling>>
  BY <1>1 DEF Same, classVars
<1>3. /\ \A flag : Given(flag)' <=> Given(flag)
      /\ ArgsAccepted' <=> ArgsAccepted
      /\ VerbosePrint' <=> VerbosePrint
      /\ cmd'.pass = cmd.pass
  BY <1>1, SameCommand
<1>4. P!TypeOK' /\ P!PointersDistinct' /\ (~Behind => P!IInv')
  BY <1>1, ClassUnchanged DEF PassIInv, Class
<1>5. Calls!TypeOK'
  BY <1>4, SameTypes, PTL
<1>6. TypeOK'
  BY <1>1, <1>5 DEF PassIInv, TypeOK
<1>7. Class'
  BY <1>1, <1>3, <1>4 DEF Class, Behind
<1>8. Stages' /\ PosixFound' /\ ErasedByMode' /\ DeletedHandled'
  BY <1>1, <1>2, <1>3, SameOccurrences
  DEF Stages, PosixFound, ErasedByMode, DeletedHandled, PassIInv, Same
<1>9. Reported'
  BY <1>1, <1>2, <1>3 DEF Reported, Ran, PassIInv, Same
<1>10. CodeKept' /\ Exact'
  BY <1>1, <1>2, SameOccurrences, SameInst DEF Exact, PassIInv, Same
<1>11. FaultsExplained'
  BY <1>1, <1>2, <1>3, SameOccurrences DEF FaultsExplained, PassIInv, Turns
<1> QED
  BY <1>6, <1>7, <1>8, <1>9, <1>10, <1>11 DEF PassIInv

-----------------------------------------------------------------------------
(* Recursive functions *)

\* Every set of naturals has a least element.
LEMMA LeastNat ==
  ASSUME NEW T \in SUBSET Nat, T # {}
  PROVE  \E n \in T : \A m \in T : n <= m
<1> DEFINE Segments == {0..n : n \in T}
<1>1. Segments \subseteq FiniteSubsetsOf(Nat) /\ Segments # {}
  <2>1. \A n \in T : IsFiniteSet(0..n) /\ 0..n \subseteq Nat
    BY FS_Interval
  <2> QED
    BY <2>1 DEF FiniteSubsetsOf
<1>2. PICK X \in Segments : \A Y \in Segments : ~(<<Y, X>> \in StrictSubsetOrdering(Nat))
  BY <1>1, FS_StrictSubsetOrderingWellFounded, WFMin
<1>3. PICK n \in T : X = 0..n
  BY <1>2
<1>4. ASSUME NEW m \in T, m < n PROVE FALSE
  <2>1. 0..m \subseteq 0..n /\ n \in 0..n /\ n \notin 0..m
    BY <1>4
  <2>2. <<0..m, 0..n>> \in StrictSubsetOrdering(Nat)
    BY <2>1 DEF StrictSubsetOrdering
  <2> QED
    BY <1>2, <1>3, <2>2
<1> QED
  BY <1>4

\* A set with 0 and the successors of its elements holds all naturals up to size.
LEMMA UpTo ==
  ASSUME NEW size \in Nat, NEW T, 0 \in T, \A n \in 0..(size - 1) : n \in T => n + 1 \in T
  PROVE  0..size \subseteq T
<1> DEFINE Missing == {n \in 0..size : n \notin T}
<1> SUFFICES ASSUME Missing # {} PROVE FALSE
  OBVIOUS
<1>1. PICK n \in Missing : \A m \in Missing : n <= m
  <2>1. Missing \in SUBSET Nat
    OBVIOUS
  <2> HIDE DEF Missing
  <2> QED
    BY <2>1, LeastNat
<1>2. n # 0 /\ n - 1 \in 0..(size - 1) /\ n - 1 \notin Missing
  BY <1>1
<1>3. n - 1 \in T /\ (n - 1) + 1 = n
  BY <1>1, <1>2
<1> QED
  BY <1>1, <1>2, <1>3

\* A function can be defined by what it is at 0 and how each value follows from the
\* one before.
Solvable(X, base, size, step) ==
  \E f \in [0..size -> X] : f[0] = base /\ \A n \in 1..size : f[n] = step[<<n, f[n - 1]>>]

LEMMA Recursion ==
  ASSUME NEW X, NEW base \in X, NEW size \in Nat, NEW step \in [(1..size) \X X -> X]
  PROVE  Solvable(X, base, size, step)
<1> DEFINE Defined(n) == \E f \in [0..n -> X] :
             f[0] = base /\ \A m \in 1..n : f[m] = step[<<m, f[m - 1]>>]
           T == {n \in 0..size : Defined(n)}
<1>1. 0 \in T
  <2> DEFINE f == [m \in 0..0 |-> base]
  <2>1. f \in [0..0 -> X] /\ f[0] = base /\ \A m \in 1..0 : f[m] = step[<<m, f[m - 1]>>]
    OBVIOUS
  <2>2. Defined(0)
    BY <2>1
  <2> HIDE DEF Defined
  <2> QED
    BY <2>2
<1>2. ASSUME NEW n \in 0..(size - 1), n \in T PROVE n + 1 \in T
  <2>1. PICK f \in [0..n -> X] : f[0] = base /\ \A m \in 1..n : f[m] = step[<<m, f[m - 1]>>]
    BY <1>2
  <2> DEFINE g == [m \in 0..(n + 1) |-> IF m = n + 1 THEN step[<<n + 1, f[n]>>] ELSE f[m]]
  <2>2. n \in Nat /\ n + 1 \in 1..size /\ n + 1 \in 0..size
    BY <1>2
  <2>3. step[<<n + 1, f[n]>>] \in X
    BY <2>2
  <2>4. g \in [0..(n + 1) -> X] /\ g[0] = base
    BY <2>1, <2>2, <2>3
  <2>5. ASSUME NEW m \in 1..(n + 1) PROVE g[m] = step[<<m, g[m - 1]>>]
    <3>1. m - 1 \in 0..n /\ m - 1 # n + 1
      BY <2>2, <2>5
    <3>2. CASE m = n + 1
      <4>1. g[n + 1] = step[<<n + 1, f[n]>>] /\ (n + 1) - 1 = n /\ g[n] = f[n]
        BY <2>2
      <4> HIDE DEF g
      <4> QED
        BY <3>2, <4>1
    <3>3. CASE m # n + 1
      <4>1. m \in 1..n
        BY <2>2, <2>5, <3>3
      <4> QED
        BY <2>1, <3>1, <3>3, <4>1
    <3> QED
      BY <3>2, <3>3
  <2> HIDE DEF g
  <2> QED
    BY <2>2, <2>4, <2>5
<1>3. size \in T
  <2> HIDE DEF T
  <2>1. 0..size \subseteq T
    BY <1>1, <1>2, UpTo
  <2> QED
    BY <2>1
<1> QED
  BY <1>3 DEF Solvable

\* The place of an inserted instruction among the eight of its insertion; 0 for an
\* instruction that was there.
Phase(item) ==
  CASE item.step = "gep"   -> IF item.field = "sec" THEN 1 ELSE 2
    [] item.step = "load"  -> IF item.field = "sec" THEN 3 ELSE 4
    [] item.step = "add"   -> IF item.field = "sec" THEN 5 ELSE 6
    [] item.step = "store" -> IF item.field = "sec" THEN 7 ELSE 8
    [] OTHER               -> 0

\* y may come right behind x: an insertion is not interrupted.
Follows(x, y) ==
  \/ Phase(x) \in {0, 8} /\ Phase(y) \in {0, 1}
  \/ Phase(x) \in 1..7 /\ Phase(y) = Phase(x) + 1 /\ y.of = x.of /\ y.turn = x.turn

\* Inserted instructions are those of some turn.
Proper(item) ==
  /\ item \in Items
  /\ item.step = "inst" => item.field = "none"
  /\ item.step # "inst" => item.field \in {"sec", "nsec"} /\ item.turn \in 1..Len(cmd.pos)

\* Every insertion is in one piece.
Whole(body) ==
  /\ \A n \in 1..Len(body) : Proper(body[n])
  /\ body # <<>> => Phase(body[1]) \in {0, 1} /\ Phase(body[Len(body)]) \in {0, 8}
  /\ \A n \in 1..(Len(body) - 1) : Follows(body[n], body[n + 1])

\* With one insertion point all insertions go there, behind instructions that were read.
WholeIn(functions) ==
  Len(cmd.inspt) <= 1 =>
    /\ \A f \in 1..Len(Bodies) : Whole(functions[f])
    /\ cmd.inspt # <<>> => \A f \in 1..Len(Bodies) : \A n \in 1..Len(functions[f]) :
         n <= cmd.inspt[1] => functions[f][n].step = "inst"
WholeInv == WholeIn(code)


-----------------------------------------------------------------------------
(* Running a function adds up what was asked for *)

\* What the next instruction adds to the requests
Plus(u, y, T, F) == IF y.step = "add" /\ Concerns(y, T, F) THEN u + y.val ELSE u

States == [mem : Int, reg : [1..Len(cmd.pos) -> Int]]

\* The phase of the first load of an insertion that F is about
First(F) == IF F = "sec" THEN 3 ELSE 4

\* Behind instruction x: between the load and the addition the register holds what
\* was asked for so far, and so does the field; up to the store the register does;
\* everywhere else the field does.
Keeps(s, u, x, T, F) ==
  LET own == TimespecOf[x.of] = T
  IN  /\ own /\ Phase(x) \in {First(F), First(F) + 1} => s.mem = u /\ s.reg[x.turn] = u
      /\ own /\ Phase(x) \in {First(F) + 2, First(F) + 3} => s.reg[x.turn] = u
      /\ ~(own /\ Phase(x) \in First(F)..(First(F) + 3)) => s.mem = u

LEMMA PhaseType ==
  ASSUME NEW x, Proper(x)
  PROVE  /\ Phase(x) \in 0..8
         /\ Phase(x) = 0 <=> x.step = "inst"
         /\ x.step = "gep" => Phase(x) \in {1, 2}
         /\ x.step = "load" /\ x.field = "sec" => Phase(x) = 3
         /\ x.step = "load" /\ x.field = "nsec" => Phase(x) = 4
         /\ x.step = "add" /\ x.field = "sec" => Phase(x) = 5
         /\ x.step = "add" /\ x.field = "nsec" => Phase(x) = 6
         /\ x.step = "store" /\ x.field = "sec" => Phase(x) = 7
         /\ x.step = "store" /\ x.field = "nsec" => Phase(x) = 8
         /\ x.step \in {"inst", "gep", "load", "add", "store"}
         /\ x.step = "inst" => x.field = "none"
         /\ x.step # "inst" => x.field \in {"sec", "nsec"} /\ x.turn \in 1..Len(cmd.pos)
         /\ x.val \in Int
<1>1. x.step \in {"inst", "gep", "load", "add", "store"} /\ x.val \in Int
  BY DEF Proper, Items
<1>2. /\ x.step = "inst" => x.field = "none"
      /\ x.step # "inst" => x.field \in {"sec", "nsec"} /\ x.turn \in 1..Len(cmd.pos)
  BY DEF Proper
<1>3. CASE x.step = "inst"
  BY <1>1, <1>2, <1>3 DEF Phase
<1>4. CASE x.step = "gep"
  BY <1>1, <1>2, <1>4 DEF Phase
<1>5. CASE x.step = "load"
  BY <1>1, <1>2, <1>5 DEF Phase
<1>6. CASE x.step = "add"
  BY <1>1, <1>2, <1>6 DEF Phase
<1>7. CASE x.step = "store"
  BY <1>1, <1>2, <1>7 DEF Phase
<1> QED
  BY <1>1, <1>3, <1>4, <1>5, <1>6, <1>7

\* What an instruction does, by its step
LEMMA AfterFacts ==
  ASSUME NEW s \in States, NEW y, Proper(y), NEW T, NEW F
  PROVE  /\ ~Concerns(y, T, F) \/ y.step \in {"inst", "gep"} => After(s, y, T, F) = s
         /\ Concerns(y, T, F) /\ y.step # "inst" => y.turn \in 1..Len(cmd.pos)
         /\ Concerns(y, T, F) /\ y.step = "load" =>
              /\ After(s, y, T, F).mem = s.mem /\ After(s, y, T, F).reg[y.turn] = s.mem
         /\ Concerns(y, T, F) /\ y.step = "add" =>
              /\ After(s, y, T, F).mem = s.mem
              /\ After(s, y, T, F).reg[y.turn] = s.reg[y.turn] + y.val
         /\ Concerns(y, T, F) /\ y.step = "store" =>
              /\ After(s, y, T, F).mem = s.reg[y.turn] /\ After(s, y, T, F).reg = s.reg
         /\ After(s, y, T, F) \in States
<1>1. y.step # "inst" => y.turn \in 1..Len(cmd.pos)
  BY PhaseType
<1>2. y.val \in Int /\ y.step \in {"inst", "gep", "load", "add", "store"}
  BY PhaseType
<1>3. s.mem \in Int /\ s.reg \in [1..Len(cmd.pos) -> Int]
  BY DEF States
<1>4. CASE ~Concerns(y, T, F) \/ y.step \in {"inst", "gep"}
  BY <1>1, <1>4 DEF After
<1>5. CASE Concerns(y, T, F) /\ y.step = "load"
  <2>1. After(s, y, T, F) = [s EXCEPT !.reg[y.turn] = s.mem]
    BY <1>5 DEF After
  <2> QED
    BY <1>1, <1>3, <1>5, <2>1 DEF States
<1>6. CASE Concerns(y, T, F) /\ y.step = "add"
  <2>1. After(s, y, T, F) = [s EXCEPT !.reg[y.turn] = @ + y.val]
    BY <1>6 DEF After
  <2>2. s.reg[y.turn] + y.val \in Int
    BY <1>1, <1>2, <1>3, <1>6
  <2>3. /\ After(s, y, T, F).mem = s.mem
        /\ After(s, y, T, F).reg = [s.reg EXCEPT ![y.turn] = @ + y.val]
        /\ After(s, y, T, F) = [mem |-> s.mem, reg |-> After(s, y, T, F).reg]
    BY <2>1 DEF States
  <2>4. /\ After(s, y, T, F).reg[y.turn] = s.reg[y.turn] + y.val
        /\ After(s, y, T, F).reg \in [1..Len(cmd.pos) -> Int]
    <3> HIDE DEF After
    <3> QED
      BY <1>1, <1>3, <1>6, <2>2, <2>3
  <2>5. After(s, y, T, F) \in States
    <3> HIDE DEF After
    <3> QED
      BY <1>3, <2>3, <2>4 DEF States
  <2> QED
    BY <1>1, <1>6, <2>3, <2>4, <2>5
<1>7. CASE Concerns(y, T, F) /\ y.step = "store"
  <2>1. After(s, y, T, F) = [s EXCEPT !.mem = s.reg[y.turn]]
    BY <1>7 DEF After
  <2> QED
    BY <1>1, <1>3, <1>7, <2>1 DEF States
<1> QED
  BY <1>1, <1>2, <1>4, <1>5, <1>6, <1>7

\* One instruction more
LEMMA KeepsNext ==
  ASSUME NEW s \in States, NEW u \in Int, NEW x, NEW y, NEW T, NEW F \in {"sec", "nsec"},
         Proper(x), Proper(y), Follows(x, y), Keeps(s, u, x, T, F)
  PROVE  Keeps(After(s, y, T, F), Plus(u, y, T, F), y, T, F)
<1> DEFINE r == After(s, y, T, F)
           v == Plus(u, y, T, F)
           own == TimespecOf[y.of] = T
           p == Phase(x)
           q == Phase(y)
<1>1. /\ own /\ q \in {First(F), First(F) + 1} => r.mem = v /\ r.reg[y.turn] = v
      /\ own /\ q \in {First(F) + 2, First(F) + 3} => r.reg[y.turn] = v
      /\ ~(own /\ q \in First(F)..(First(F) + 3)) => r.mem = v
  <2>1. p \in 0..8 /\ q \in 0..8
    BY PhaseType
  <2>2. First(F) = IF F = "sec" THEN 3 ELSE 4
    BY DEF First
  <2>3. Concerns(y, T, F) <=> y.field = F /\ own
    BY DEF Concerns
  <2>4. /\ own /\ p \in {First(F), First(F) + 1} /\ p # 0 /\ q = p + 1
             => s.mem = u /\ s.reg[y.turn] = u
        /\ own /\ p \in {First(F) + 2, First(F) + 3} /\ p # 8 /\ q = p + 1
             => s.reg[y.turn] = u
    BY <2>1, <2>2 DEF Keeps, Follows
  <2>5. /\ ~(p \in First(F)..(First(F) + 3)) => s.mem = u
        /\ ~own /\ q # 0 /\ q # 1 => s.mem = u
    BY <2>1, <2>2 DEF Keeps, Follows
  <2>6. \/ p \in {0, 8} /\ q \in {0, 1}
        \/ p \in 1..7 /\ q = p + 1
    BY DEF Follows
  <2>7. s.mem \in Int /\ s.reg \in [1..Len(cmd.pos) -> Int]
    BY DEF States
  <2> HIDE DEF own, p, q, r, v
  <2>8. CASE ~own
    <3>1. r = s /\ v = u
      BY <2>3, <2>8, AfterFacts DEF r, v, Plus
    <3>2. s.mem = u
      BY <2>1, <2>2, <2>5, <2>6, <2>8
    <3> QED
      BY <2>8, <3>1, <3>2
  <2>9. CASE own /\ q \in {0, 1, 2}
    <3>1. y.step \in {"inst", "gep"}
      BY <2>9, PhaseType DEF q
    <3>2. r = s /\ v = u
      BY <3>1, AfterFacts DEF r, v, Plus
    <3>3. s.mem = u
      BY <2>1, <2>2, <2>5, <2>6, <2>9
    <3> QED
      BY <2>2, <2>9, <3>2, <3>3
  <2>10. CASE own /\ q \in {3, 4}
    <3>1. y.step = "load" /\ y.field = IF q = 3 THEN "sec" ELSE "nsec"
      BY <2>10, PhaseType DEF q
    <3>2. v = u
      BY <3>1 DEF v, Plus
    <3>3. CASE q = First(F)
      <4>1. Concerns(y, T, F)
        BY <2>2, <2>3, <2>10, <3>1, <3>3
      <4>2. r.mem = s.mem /\ r.reg[y.turn] = s.mem
        BY <3>1, <4>1, AfterFacts DEF r
      <4>3. s.mem = u
        BY <2>1, <2>2, <2>5, <2>6, <3>3
      <4> QED
        BY <2>2, <2>10, <3>2, <3>3, <4>2, <4>3
    <3>4. CASE q # First(F)
      <4>1. ~Concerns(y, T, F)
        BY <2>2, <2>3, <2>10, <3>1, <3>4
      <4>2. r = s
        BY <4>1, AfterFacts DEF r
      <4> QED
        BY <2>1, <2>2, <2>4, <2>5, <2>6, <2>10, <3>2, <3>4, <4>2
    <3> QED
      BY <3>3, <3>4
  <2>11. CASE own /\ q \in {5, 6}
    <3>1. y.step = "add" /\ y.field = IF q = 5 THEN "sec" ELSE "nsec"
      BY <2>11, PhaseType DEF q
    <3>2. CASE q = First(F) + 2
      <4>1. Concerns(y, T, F)
        BY <2>2, <2>3, <2>11, <3>1, <3>2
      <4>2. r.mem = s.mem /\ r.reg[y.turn] = s.reg[y.turn] + y.val
        BY <3>1, <4>1, AfterFacts DEF r
      <4>3. v = u + y.val
        BY <3>1, <4>1 DEF v, Plus
      <4>4. s.reg[y.turn] = u
        BY <2>1, <2>2, <2>4, <2>6, <2>11, <3>2
      <4> QED
        BY <2>2, <2>11, <3>2, <4>2, <4>3, <4>4
    <3>3. CASE q # First(F) + 2
      <4>1. ~Concerns(y, T, F)
        BY <2>2, <2>3, <2>11, <3>1, <3>3
      <4>2. r = s /\ v = u
        BY <4>1, AfterFacts DEF r, v, Plus
      <4> QED
        BY <2>1, <2>2, <2>4, <2>5, <2>6, <2>11, <3>3, <4>2
    <3> QED
      BY <3>2, <3>3
  <2>12. CASE own /\ q \in {7, 8}
    <3>1. y.step = "store" /\ y.field = IF q = 7 THEN "sec" ELSE "nsec"
      BY <2>12, PhaseType DEF q
    <3>2. v = u
      BY <3>1 DEF v, Plus
    <3>3. CASE q = First(F) + 4
      <4>1. Concerns(y, T, F)
        BY <2>2, <2>3, <2>12, <3>1, <3>3
      <4>2. r.mem = s.reg[y.turn]
        BY <3>1, <4>1, AfterFacts DEF r
      <4>3. s.reg[y.turn] = u
        BY <2>1, <2>2, <2>4, <2>6, <2>12, <3>3
      <4> QED
        BY <2>2, <2>12, <3>2, <3>3, <4>2, <4>3
    <3>4. CASE q # First(F) + 4
      <4>1. ~Concerns(y, T, F)
        BY <2>2, <2>3, <2>12, <3>1, <3>4
      <4>2. r = s
        BY <4>1, AfterFacts DEF r
      <4> QED
        BY <2>1, <2>2, <2>4, <2>5, <2>6, <2>12, <3>2, <3>4, <4>2
    <3> QED
      BY <3>3, <3>4
  <2> QED
    BY <2>1, <2>8, <2>9, <2>10, <2>11, <2>12
<1> QED
  BY <1>1 DEF Keeps

\* The two recursions of the properties are defined.
Runs(f, body, T, F) ==
  f = [n \in 0..Len(body) |->
         IF n = 0 THEN [mem |-> 0, reg |-> [m \in 1..Len(cmd.pos) |-> 0]]
         ELSE After(f[n - 1], body[n], T, F)]
Sums(f, body, T, F) ==
  f = [n \in 0..Len(body) |->
         IF n = 0 THEN 0
         ELSE IF body[n].step = "add" /\ Concerns(body[n], T, F)
              THEN f[n - 1] + body[n].val ELSE f[n - 1]]
Idle == [mem |-> 0, reg |-> [m \in 1..Len(cmd.pos) |-> 0]]

\* f holds the state behind each instruction, g the requests so far.
IsRun(f, body, T, F) ==
  /\ Effect(body, T, F) = f[Len(body)].mem
  /\ f[0] = Idle
  /\ \A n \in 1..Len(body) : f[n] = After(f[n - 1], body[n], T, F)
IsSum(g, body, T, F) ==
  /\ Requested(body, T, F) = g[Len(body)]
  /\ g[0] = 0
  /\ \A n \in 1..Len(body) : g[n] = Plus(g[n - 1], body[n], T, F)

LEMMA EffectRuns ==
  ASSUME NEW body, Len(body) \in Nat, \A n \in 1..Len(body) : Proper(body[n]), NEW T, NEW F
  PROVE  \E f : IsRun(f, body, T, F)
<1> DEFINE size == Len(body)
           step == [q \in (1..size) \X States |-> After(q[2], body[q[1]], T, F)]
           run == CHOOSE f : Runs(f, body, T, F)
<1>1. size \in Nat /\ Idle \in States
  BY DEF Idle, States
<1>2. \A n \in 1..size : \A s \in States : After(s, body[n], T, F) \in States
  BY AfterFacts
<1>3. step \in [(1..size) \X States -> States]
  <2> HIDE DEF After
  <2> QED
    BY <1>2
<1>4. \A n \in 1..size : \A s \in States : step[<<n, s>>] = After(s, body[n], T, F)
  OBVIOUS
<1> HIDE DEF step, Idle, States
<1>5. PICK f \in [0..size -> States] :
        f[0] = Idle /\ \A n \in 1..size : f[n] = step[<<n, f[n - 1]>>]
  <2> HIDE DEF size
  <2>1. Solvable(States, Idle, size, step)
    BY <1>1, <1>3, Recursion
  <2> QED
    BY <2>1 DEF Solvable
<1>6. Runs(f, body, T, F)
  <2>1. ASSUME NEW n \in 1..size PROVE f[n] = After(f[n - 1], body[n], T, F)
    <3>1. n - 1 \in 0..size
      BY <1>1
    <3> QED
      BY <1>4, <1>5, <3>1
  <2>2. \A n \in 0..size : n # 0 => n \in 1..size
    BY <1>1
  <2>3. f = [n \in 0..size |-> IF n = 0 THEN Idle ELSE After(f[n - 1], body[n], T, F)]
    <3> HIDE DEF size
    <3> QED
      BY <1>5, <2>1, <2>2
  <2> QED
    BY <2>3 DEF Runs, Idle
<1>7. Runs(run, body, T, F)
  BY <1>6
<1>8. Effect(body, T, F) = run[size].mem
  BY DEF Effect, Runs
<1> HIDE DEF run
<1>9. /\ run[0] = Idle
      /\ \A n \in 1..size : run[n] = After(run[n - 1], body[n], T, F)
  <2>1. \A n \in 0..size : run[n] = IF n = 0 THEN Idle ELSE After(run[n - 1], body[n], T, F)
    <3> HIDE DEF size
    <3> QED
      BY <1>7 DEF Runs, Idle, size
  <2>2. 0 \in 0..size /\ \A n \in 1..size : n \in 0..size /\ n # 0
    BY <1>1
  <2> HIDE DEF size
  <2> QED
    BY <2>1, <2>2
<1>10. IsRun(run, body, T, F)
  BY <1>8, <1>9 DEF IsRun
<1> QED
  BY <1>10

LEMMA RequestedSums ==
  ASSUME NEW body, Len(body) \in Nat, \A n \in 1..Len(body) : Proper(body[n]), NEW T, NEW F
  PROVE  \E g : IsSum(g, body, T, F)
<1> DEFINE size == Len(body)
           step == [q \in (1..size) \X Int |-> Plus(q[2], body[q[1]], T, F)]
           sum == CHOOSE f : Sums(f, body, T, F)
<1>1. size \in Nat /\ 0 \in Int
  OBVIOUS
<1>2. \A n \in 1..size : \A u \in Int : Plus(u, body[n], T, F) \in Int
  BY PhaseType DEF Plus
<1>3. step \in [(1..size) \X Int -> Int]
  <2> HIDE DEF Plus
  <2> QED
    BY <1>2
<1>4. \A n \in 1..size : \A u \in Int : step[<<n, u>>] = Plus(u, body[n], T, F)
  OBVIOUS
<1> HIDE DEF step
<1>5. PICK f \in [0..size -> Int] :
        f[0] = 0 /\ \A n \in 1..size : f[n] = step[<<n, f[n - 1]>>]
  <2> HIDE DEF size
  <2>1. Solvable(Int, 0, size, step)
    BY <1>1, <1>3, Recursion
  <2> QED
    BY <2>1 DEF Solvable
<1>6. Sums(f, body, T, F)
  <2>1. ASSUME NEW n \in 1..size PROVE f[n] = Plus(f[n - 1], body[n], T, F)
    <3>1. n - 1 \in 0..size
      BY <1>1
    <3> QED
      BY <1>4, <1>5, <3>1
  <2>2. \A n \in 0..size : n # 0 => n \in 1..size
    BY <1>1
  <2>3. f = [n \in 0..size |-> IF n = 0 THEN 0 ELSE Plus(f[n - 1], body[n], T, F)]
    <3> HIDE DEF size
    <3> QED
      BY <1>5, <2>1, <2>2
  <2> QED
    BY <2>3 DEF Sums, Plus
<1>7. Sums(sum, body, T, F)
  BY <1>6
<1>8. Requested(body, T, F) = sum[size]
  BY DEF Requested, Sums
<1> HIDE DEF sum
<1>9. /\ sum[0] = 0
      /\ \A n \in 1..size : sum[n] = Plus(sum[n - 1], body[n], T, F)
  <2>1. \A n \in 0..size : sum[n] = IF n = 0 THEN 0 ELSE Plus(sum[n - 1], body[n], T, F)
    <3> HIDE DEF size
    <3> QED
      BY <1>7 DEF Sums, Plus, size
  <2>2. 0 \in 0..size /\ \A n \in 1..size : n \in 0..size /\ n # 0
    BY <1>1
  <2> HIDE DEF size
  <2> QED
    BY <2>1, <2>2
<1>10. IsSum(sum, body, T, F)
  BY <1>8, <1>9 DEF IsSum
<1> QED
  BY <1>10

\* A function in which every insertion is in one piece adds up all that was asked for.
LEMMA WholeAddsUp ==
  ASSUME NEW E, NEW body \in Seq(E), Whole(body), NEW T, NEW F \in {"sec", "nsec"}
  PROVE  Effect(body, T, F) = Requested(body, T, F)
<1> DEFINE size == Len(body)
<1>0. /\ size \in Nat /\ \A n \in 1..size : Proper(body[n])
      /\ size # 0 => body # <<>>
  BY DEF Whole
<1>run. PICK run : IsRun(run, body, T, F)
  BY <1>0, EffectRuns
<1>sum. PICK sum : IsSum(sum, body, T, F)
  BY <1>0, RequestedSums
<1>1. /\ Effect(body, T, F) = run[size].mem
      /\ run[0] = Idle
      /\ \A n \in 1..size : run[n] = After(run[n - 1], body[n], T, F)
  BY <1>run DEF IsRun
<1>2. /\ Requested(body, T, F) = sum[size]
      /\ sum[0] = 0
      /\ \A n \in 1..size : sum[n] = Plus(sum[n - 1], body[n], T, F)
  BY <1>sum DEF IsSum
<1> DEFINE start == Item("inst", Calls!Other, "none", 0, 0)
           at(n) == IF n = 0 THEN start ELSE body[n]
           Good(n) == run[n] \in States /\ sum[n] \in Int /\ Keeps(run[n], sum[n], at(n), T, F)
           Reached == {n \in 0..size : Good(n)}
<1>3. Proper(start) /\ Phase(start) = 0
  BY DEF Proper, Items, Item, Phase
<1>4. 0 \in Reached
  <2>1. run[0] \in States /\ run[0].mem = 0 /\ sum[0] = 0
    BY <1>0, <1>1, <1>2 DEF Idle, States
  <2> HIDE DEF start
  <2>2. Keeps(run[0], sum[0], start, T, F)
    BY <1>3, <2>1 DEF Keeps, First
  <2> QED
    BY <1>0, <2>1, <2>2
<1>5. ASSUME NEW n \in 0..(size - 1), n \in Reached PROVE n + 1 \in Reached
  <2>1. n \in Nat /\ n + 1 \in 1..size /\ (n + 1) - 1 = n /\ n + 1 \in 0..size /\ n + 1 # 0
    BY <1>0, <1>5
  <2>2. Follows(at(n), body[n + 1])
    <3>1. CASE n = 0
      <4>1. body # <<>> /\ Phase(body[1]) \in {0, 1}
        BY <1>0, <2>1 DEF Whole
      <4> HIDE DEF start
      <4> QED
        BY <1>3, <3>1, <4>1 DEF Follows
    <3>2. CASE n # 0
      <4>1. n \in 1..(size - 1)
        BY <1>0, <2>1, <3>2
      <4> QED
        BY <3>2, <4>1 DEF Whole
    <3> QED
      BY <3>1, <3>2
  <2>3. Proper(at(n)) /\ Proper(body[n + 1])
    <3>1. n # 0 => n \in 1..size
      BY <1>0, <2>1
    <3> HIDE DEF start
    <3> QED
      BY <1>0, <1>3, <2>1, <3>1
  <2>4. Good(n)
    BY <1>5
  <2>5. /\ run[n + 1] = After(run[n], body[n + 1], T, F)
        /\ sum[n + 1] = Plus(sum[n], body[n + 1], T, F)
        /\ at(n + 1) = body[n + 1]
    BY <1>1, <1>2, <2>1
  <2>6. run[n + 1] \in States
    BY <2>3, <2>4, <2>5, AfterFacts
  <2>7. sum[n + 1] \in Int
    BY <2>3, <2>4, <2>5, PhaseType DEF Plus
  <2> DEFINE x == at(n)
  <2>8. Keeps(run[n + 1], sum[n + 1], body[n + 1], T, F)
    <3>1. Proper(x) /\ Follows(x, body[n + 1]) /\ Keeps(run[n], sum[n], x, T, F)
      BY <2>2, <2>3, <2>4
    <3> HIDE DEF x
    <3> QED
      BY <2>3, <2>4, <2>5, <3>1, KeepsNext
  <2>9. Good(n + 1)
    BY <2>5, <2>6, <2>7, <2>8
  <2> HIDE DEF Good
  <2> QED
    BY <2>1, <2>9
<1>6. size \in Reached
  <2> HIDE DEF Reached
  <2>1. 0..size \subseteq Reached
    BY <1>0, <1>4, <1>5, UpTo
  <2> QED
    BY <1>0, <2>1
<1>7. Phase(at(size)) \in {0, 8}
  <2>1. CASE size = 0
    <3> HIDE DEF start
    <3> QED
      BY <1>3, <2>1
  <2>2. CASE size # 0
    <3>1. body # <<>>
      BY <1>0, <2>2
    <3> QED
      BY <2>2, <3>1 DEF Whole
  <2> QED
    BY <2>1, <2>2
<1>8. run[size].mem = sum[size]
  <2>1. Keeps(run[size], sum[size], at(size), T, F)
    BY <1>6
  <2> DEFINE x == at(size)
  <2>2. Keeps(run[size], sum[size], x, T, F) /\ Phase(x) \in {0, 8}
    BY <1>7, <2>1
  <2> HIDE DEF x
  <2> QED
    BY <2>2 DEF Keeps, First
<1> QED
  BY <1>1, <1>2, <1>8

-----------------------------------------------------------------------------
(* Insertions stay in one piece *)

\* A whole piece put where an insertion may begin leaves the function whole.
LEMMA SpliceWhole ==
  ASSUME NEW S, NEW s \in Seq(S), NEW t \in Seq(S), NEW n \in 1..Len(s),
         Whole(s), Whole(t), Len(t) # 0,
         n > 1 => Phase(s[n - 1]) \in {0, 8}
  PROVE  Whole(Splice(s, t, n))
<1> DEFINE r == Splice(s, t, n)
           size == Len(s)
           gap == Len(t)
<1>1. /\ Len(r) = size + gap /\ size \in Nat /\ gap \in Nat /\ gap >= 1 /\ n \in Nat /\ 1 <= n /\ n <= size
      /\ \A m \in 1..(n - 1) : r[m] = s[m]
      /\ \A m \in 1..gap : r[n - 1 + m] = t[m]
      /\ \A m \in n..size : r[m + gap] = s[m]
      /\ s # <<>> /\ t # <<>>
  <2>1. n \in 1..(Len(s) + 1) /\ size \in Nat /\ n \in Nat /\ 1 <= n /\ n <= size
        /\ gap \in Nat /\ gap >= 1
    OBVIOUS
  <2>2. s # <<>> /\ t # <<>>
    BY <2>1
  <2>3. Spliced(r, s, t, n)
    BY <2>1, SplicePlaces
  <2> HIDE DEF r
  <2> QED
    BY <2>1, <2>2, <2>3 DEF Spliced
<1> HIDE DEF r, size, gap
<1>2. /\ \A m \in 1..size : Proper(s[m])
      /\ \A m \in 1..gap : Proper(t[m])
      /\ Phase(s[1]) \in {0, 1} /\ Phase(s[size]) \in {0, 8}
      /\ Phase(t[1]) \in {0, 1} /\ Phase(t[gap]) \in {0, 8}
      /\ \A m \in 1..(size - 1) : Follows(s[m], s[m + 1])
      /\ \A m \in 1..(gap - 1) : Follows(t[m], t[m + 1])
  BY <1>1 DEF Whole, size, gap
<1>3. ASSUME NEW m \in 1..(size + gap)
      PROVE  \/ m \in 1..(n - 1) /\ r[m] = s[m]
             \/ m - (n - 1) \in 1..gap /\ r[m] = t[m - (n - 1)]
             \/ m - gap \in n..size /\ r[m] = s[m - gap]
  <2>1. CASE m \in 1..(n - 1)
    BY <1>1, <2>1
  <2>2. CASE m - (n - 1) \in 1..gap
    <3>1. n - 1 + (m - (n - 1)) = m
      BY <1>1
    <3> QED
      BY <1>1, <2>2, <3>1
  <2>3. CASE m - gap \in n..size
    <3>1. (m - gap) + gap = m
      BY <1>1
    <3> QED
      BY <1>1, <2>3, <3>1
  <2>4. m \in 1..(n - 1) \/ m - (n - 1) \in 1..gap \/ m - gap \in n..size
    BY <1>1
  <2> QED
    BY <2>1, <2>2, <2>3, <2>4
<1>4. ASSUME NEW m \in 1..(size + gap) PROVE Proper(r[m])
  <2>1. n \in Nat /\ \A k \in 1..(n - 1) : k \in 1..size
    BY <1>1
  <2>2. \A k \in n..size : k \in 1..size
    BY <1>1
  <2> QED
    BY <1>2, <1>3, <2>1, <2>2
<1>5. Phase(s[n]) \in {0, 1}
  <2>1. CASE n = 1
    BY <1>2, <2>1
  <2>2. CASE n > 1
    <3>1. n - 1 \in 1..(size - 1) /\ (n - 1) + 1 = n
      BY <1>1, <2>2
    <3>2. Follows(s[n - 1], s[n])
      BY <1>2, <3>1
    <3> QED
      BY <2>2, <3>2 DEF Follows
  <2> QED
    BY <1>1, <2>1, <2>2
<1>6. Phase(r[1]) \in {0, 1}
  <2>1. CASE n = 1
    <3>1. r[n - 1 + 1] = t[1]
      BY <1>1
    <3> QED
      BY <1>2, <2>1, <3>1
  <2>2. CASE n > 1
    BY <1>1, <1>2, <2>2
  <2> QED
    BY <1>1, <2>1, <2>2
<1>7. Phase(r[size + gap]) \in {0, 8}
  <2>1. size \in n..size
    BY <1>1
  <2> QED
    BY <1>1, <1>2, <2>1
<1>8. ASSUME NEW m \in 1..(size + gap - 1) PROVE Follows(r[m], r[m + 1])
  <2>1. CASE m < n - 1
    <3>1. m \in 1..(n - 1) /\ m + 1 \in 1..(n - 1) /\ m \in 1..(size - 1)
      BY <1>1, <2>1
    <3> QED
      BY <1>1, <1>2, <3>1
  <2>2. CASE m = n - 1
    <3>1. m \in 1..(n - 1) /\ n > 1 /\ m + 1 = n - 1 + 1
      BY <1>1, <2>2
    <3>2. r[m] = s[n - 1] /\ r[m + 1] = t[1]
      BY <1>1, <2>2, <3>1
    <3> QED
      BY <1>2, <3>1, <3>2 DEF Follows
  <2>3. CASE m \in n..(n + gap - 2)
    <3> DEFINE k == m - (n - 1)
    <3>1. k \in 1..(gap - 1) /\ k \in 1..gap /\ k + 1 \in 1..gap /\ n - 1 + k = m /\ n - 1 + (k + 1) = m + 1
      BY <1>1, <2>3
    <3> HIDE DEF k
    <3>2. r[m] = t[k] /\ r[m + 1] = t[k + 1]
      BY <1>1, <3>1
    <3> QED
      BY <1>2, <3>1, <3>2
  <2>4. CASE m = n + gap - 1
    <3>1. n - 1 + gap = m /\ n + gap = m + 1 /\ n \in n..size
      BY <1>1, <2>4
    <3>2. r[n - 1 + gap] = t[gap] /\ r[n + gap] = s[n]
      BY <1>1, <3>1
    <3>3. r[m] = t[gap] /\ r[m + 1] = s[n]
      BY <3>1, <3>2
    <3> QED
      BY <1>2, <1>5, <3>3 DEF Follows
  <2>5. CASE m > n + gap - 1
    <3> DEFINE k == m - gap
    <3>1. k \in n..size /\ k + 1 \in n..size /\ k \in 1..(size - 1) /\ k + gap = m /\ (k + 1) + gap = m + 1
      BY <1>1, <2>5
    <3> HIDE DEF k
    <3>2. r[m] = s[k] /\ r[m + 1] = s[k + 1]
      BY <1>1, <3>1
    <3> QED
      BY <1>2, <3>1, <3>2
  <2>6. m < n - 1 \/ m = n - 1 \/ m \in n..(n + gap - 2) \/ m = n + gap - 1 \/ m > n + gap - 1
    BY <1>1
  <2> QED
    BY <2>1, <2>2, <2>3, <2>4, <2>5, <2>6
<1>9. Whole(r)
  BY <1>1, <1>4, <1>6, <1>7, <1>8 DEF Whole
<1> QED
  BY <1>9 DEF r

\* The eight instructions of an insertion are one piece.
LEMMA AdjustmentWhole ==
  ASSUME NEW inst \in Inst, NsecVal \in Int, SecVal \in Int, i \in Nat,
         i + 1 \in 1..Len(cmd.pos)
  PROVE  Whole(Adjustment(inst))
<1> DEFINE steps == <<"gep", "load", "add", "store">>
           field(n) == IF n % 2 = 1 THEN "sec" ELSE "nsec"
           val(n) == IF n % 2 = 1 THEN SecVal ELSE NsecVal
           step(n) == steps[(n + 1) \div 2]
           t == Adjustment(inst)
<1>1. t = [n \in 1..8 |-> Item(step(n), inst, field(n), val(n), i + 1)]
  BY DEF Adjustment
<1>2. /\ step(1) = "gep" /\ step(2) = "gep" /\ step(3) = "load" /\ step(4) = "load"
      /\ step(5) = "add" /\ step(6) = "add" /\ step(7) = "store" /\ step(8) = "store"
  OBVIOUS
<1>3. /\ field(1) = "sec" /\ field(3) = "sec" /\ field(5) = "sec" /\ field(7) = "sec"
      /\ field(2) = "nsec" /\ field(4) = "nsec" /\ field(6) = "nsec" /\ field(8) = "nsec"
  OBVIOUS
<1> HIDE DEF step, field, val, t
<1>4. \A n \in 1..8 : /\ t[n].step = step(n) /\ t[n].field = field(n)
                      /\ t[n].of = inst /\ t[n].turn = i + 1
  BY <1>1 DEF Item
<1>5. t \in Seq(Items) /\ Len(t) = 8 /\ t # <<>>
  <2> DEFINE size == 8
  <2>1. t \in Seq(Items) /\ Len(t) = size /\ size > 0
    BY AdjustmentFacts DEF t
  <2> HIDE DEF size
  <2>2. t # <<>>
    BY <2>1
  <2> QED
    BY <2>1, <2>2 DEF size
<1>6. /\ Phase(t[1]) = 1 /\ Phase(t[2]) = 2 /\ Phase(t[3]) = 3 /\ Phase(t[4]) = 4
      /\ Phase(t[5]) = 5 /\ Phase(t[6]) = 6 /\ Phase(t[7]) = 7 /\ Phase(t[8]) = 8
  BY <1>2, <1>3, <1>4 DEF Phase
<1>7. \A n \in 1..8 : Phase(t[n]) = n
  BY <1>6
<1>8. ASSUME NEW n \in 1..8 PROVE Proper(t[n])
  <2>1. t[n] \in Items
    <3> DEFINE size == 8
    <3>1. n \in 1..size /\ t \in Seq(Items) /\ Len(t) = size
      BY <1>5
    <3> HIDE DEF size
    <3> QED
      BY <3>1
  <2>2. t[n].step # "inst" /\ t[n].field \in {"sec", "nsec"}
    <3>1. n \in {1, 2, 3, 4, 5, 6, 7, 8}
      OBVIOUS
    <3> QED
      BY <1>2, <1>3, <1>4, <3>1
  <2> QED
    BY <1>4, <2>1, <2>2 DEF Proper
<1>9. \A n \in 1..7 : Follows(t[n], t[n + 1])
  <2> SUFFICES ASSUME NEW n \in 1..7 PROVE Follows(t[n], t[n + 1])
    OBVIOUS
  <2>1. n \in 1..8 /\ n + 1 \in 1..8
    OBVIOUS
  <2> QED
    BY <1>4, <1>7, <2>1 DEF Follows
<1>10. Whole(t)
  BY <1>5, <1>7, <1>8, <1>9 DEF Whole
<1> QED
  BY <1>10 DEF t

\* What follows behind an instruction that was read
LEMMA ReadPhase ==
  ASSUME NEW x, x.step = "inst"
  PROVE  Phase(x) = 0
  BY DEF Phase

\* An insertion begins where no other one is interrupted.
LEMMA InsertPlaceFree ==
  ASSUME TypeOK, CodeKept, i < Len(cmd.pos), WholeInv, Len(cmd.inspt) <= 1, NEW inst \in Inst,
         InsertPlace(inst) \in 1..Len(code[FuncOf(inst)])
  PROVE  /\ InsertPlace(inst) > 1 =>
              Phase(code[FuncOf(inst)][InsertPlace(inst) - 1]) \in {0, 8}
         /\ cmd.inspt # <<>> => cmd.inspt[1] \in Nat /\ InsertPlace(inst) = cmd.inspt[1] + 1
<1> DEFINE f == FuncOf(inst)
           body == code[f]
           size == Len(body)
           n == InsertPlace(inst)
<1>1. f \in 1..Len(Bodies) /\ size \in Nat
  <2> HIDE DEF Items
  <2> QED
    BY FuncOfType DEF TypeOK
<1>2. Whole(body) /\ \A m \in 1..size : cmd.inspt # <<>> /\ m <= cmd.inspt[1] => body[m].step = "inst"
  BY <1>1 DEF WholeInv, WholeIn
<1>3. n \in 1..size
  OBVIOUS
<1>4. n > 1 => n - 1 \in 1..size /\ n - 1 \in 1..(size - 1) /\ (n - 1) + 1 = n
  <2> HIDE DEF n, size
  <2> QED
    BY <1>1, <1>3
<1>5. CASE cmd.inspt = <<>>
  <2>1. \E m \in 1..Len(body) : body[m].step = "inst" /\ body[m].of = inst
    BY DEF CodeKept
  <2>2. body[PlaceOf(inst)].step = "inst"
    BY <2>1 DEF PlaceOf
  <2>3. n = PlaceOf(inst)
    BY <1>5 DEF InsertPlace
  <2>4. ASSUME n > 1 PROVE Phase(body[n - 1]) \in {0, 8}
    <3>1. Follows(body[n - 1], body[n])
      <4>1. n - 1 \in 1..(size - 1) /\ (n - 1) + 1 = n
        BY <1>4, <2>4
      <4> HIDE DEF body, n
      <4> QED
        BY <1>2, <4>1 DEF Whole
    <3>2. Phase(body[n]) = 0
      <4> HIDE DEF body, n
      <4> QED
        BY <2>2, <2>3, ReadPhase
    <3> HIDE DEF body, n
    <3> QED
      BY <3>1, <3>2 DEF Follows
  <2> QED
    BY <1>5, <2>4
<1>6. CASE cmd.inspt # <<>>
  <2> DEFINE steps == OrLast(cmd.inspt, Pos)
  <2> DEFINE points == Len(cmd.inspt)
  <2>1. cmd.inspt \in Seq(Nat) /\ points = 1 /\ Pos \in Nat
    <3>1. cmd.inspt \in Seq(Nat) /\ Pos \in Nat
      BY CommandType, PosType
    <3>2. points \in Nat \ {0} /\ points <= 1
      BY <1>6, <3>1
    <3> HIDE DEF points
    <3> QED
      BY <3>1, <3>2
  <2>2. steps = cmd.inspt[1] /\ steps \in Nat
    <3>1. steps = IF Pos < points THEN cmd.inspt[Pos + 1] ELSE cmd.inspt[points]
      BY DEF OrLast
    <3>2. Pos < 1 => Pos + 1 = 1
      BY <2>1
    <3>3. 1 \in 1..points
      BY <2>1
    <3>4. cmd.inspt[1] \in Nat
      BY <2>1, <3>3
    <3> HIDE DEF steps, points
    <3> QED
      BY <2>1, <3>1, <3>2, <3>4
  <2>3. n = IF steps > size THEN size + 1 ELSE steps + 1
    BY <1>6 DEF InsertPlace
  <2> HIDE DEF steps, n, size
  <2>4. n = steps + 1
    BY <1>1, <1>3, <2>2, <2>3
  <2>5. ASSUME n > 1 PROVE Phase(body[n - 1]) \in {0, 8}
    <3>1. n - 1 \in 1..size /\ n - 1 <= cmd.inspt[1]
      BY <1>4, <2>2, <2>4, <2>5
    <3>2. body[n - 1].step = "inst"
      BY <1>2, <1>6, <3>1
    <3> HIDE DEF body
    <3> QED
      BY <3>2, ReadPhase
  <2> QED
    BY <2>2, <2>4, <2>5 DEF n
<1> QED
  BY <1>5, <1>6

\* An insertion leaves the functions whole.
LEMMA InsertedWhole ==
  ASSUME TypeOK, CodeKept, i < Len(cmd.pos), WholeInv, NEW inst \in Inst,
         NsecVal \in Int, SecVal \in Int,
         InsertPlace(inst) \in 1..Len(code[FuncOf(inst)])
  PROVE  WholeIn(Inserted(inst))
<1> SUFFICES ASSUME Len(cmd.inspt) <= 1
             PROVE  WholeIn(Inserted(inst))
  BY DEF WholeIn
<1> DEFINE f == FuncOf(inst)
           n == InsertPlace(inst)
           t == Adjustment(inst)
           s == code[f]
           r == Splice(s, t, n)
           functions == Inserted(inst)
<1>1. f \in 1..Len(Bodies) /\ s \in Seq(Items)
  <2> HIDE DEF Items
  <2> QED
    BY FuncOfType DEF TypeOK
<1>2. functions = [code EXCEPT ![f] = r]
  BY DEF Inserted, Splice
<1>3. i \in Nat /\ i + 1 \in 1..Len(cmd.pos)
  BY PosType
<1>4. t \in Seq(Items) /\ Len(t) # 0 /\ Whole(t)
  BY <1>3, AdjustmentFacts, AdjustmentWhole
<1>5. /\ n > 1 => Phase(s[n - 1]) \in {0, 8}
      /\ cmd.inspt # <<>> => cmd.inspt[1] \in Nat /\ n = cmd.inspt[1] + 1
  BY InsertPlaceFree
<1>6. Whole(s) /\ n \in 1..Len(s)
  BY <1>1 DEF WholeInv, WholeIn
<1> HIDE DEF f, n, t, s, functions, Items
<1>7. Whole(r)
  BY <1>1, <1>4, <1>5, <1>6, SpliceWhole
<1>8. Spliced(r, s, t, n)
  <2>1. n \in 1..(Len(s) + 1)
    BY <1>1, <1>6
  <2> QED
    BY <1>1, <1>4, <2>1, SplicePlaces
<1> HIDE DEF r
<1>9. functions[f] = r /\ \A g \in 1..Len(Bodies) : g # f => functions[g] = code[g]
  <2>1. code \in [1..Len(Bodies) -> Seq(Items)]
    BY DEF TypeOK
  <2> QED
    BY <1>1, <1>2, <2>1
<1>10. ASSUME NEW g \in 1..Len(Bodies) PROVE Whole(functions[g])
  <2>1. CASE g = f
    BY <1>7, <1>9, <2>1
  <2>2. CASE g # f
    BY <1>9, <2>2 DEF WholeInv, WholeIn
  <2> QED
    BY <2>1, <2>2
<1>11. ASSUME cmd.inspt # <<>>, NEW g \in 1..Len(Bodies), NEW m \in 1..Len(functions[g]),
              m <= cmd.inspt[1]
       PROVE  functions[g][m].step = "inst"
  <2>1. CASE g = f
    <3>1. m \in 1..(n - 1)
      BY <1>5, <1>11
    <3>2. r[m] = s[m] /\ m \in 1..Len(s)
      BY <1>1, <1>6, <1>8, <3>1 DEF Spliced
    <3> QED
      BY <1>1, <1>9, <1>11, <2>1, <3>2 DEF WholeInv, WholeIn, s
  <2>2. CASE g # f
    BY <1>9, <1>11, <2>2 DEF WholeInv, WholeIn
  <2> QED
    BY <2>1, <2>2
<1>12. WholeIn(functions)
  BY <1>10, <1>11 DEF WholeIn
<1> QED
  BY <1>12 DEF functions

\* The functions as they were read are whole.
LEMMA InitWhole == Init => WholeInv
<1> SUFFICES ASSUME Init PROVE WholeInv
  OBVIOUS
<1>1. ASSUME NEW f \in 1..Len(Bodies), NEW n \in 1..Len(code[f])
      PROVE  code[f][n].step = "inst" /\ Proper(code[f][n])
  <2>1. code[f] = LoadedCode[f] /\ n \in 1..Len(Bodies[f]) /\ code[f][n] = Loaded(Bodies[f][n])
    BY <1>1, LoadedCodeFacts DEF Init
  <2>2. Bodies[f] \in Seq(Inst \union {Calls!Other})
    BY BodiesAssumption
  <2>3. Bodies[f][n] \in Inst \union {Calls!Other}
    BY <2>1, <2>2
  <2> QED
    BY <2>1, <2>3 DEF Loaded, Item, Proper, Items
<1>2. ASSUME NEW f \in 1..Len(Bodies) PROVE Whole(code[f])
  <2> DEFINE body == code[f]
             size == Len(body)
  <2>1. size \in Nat /\ (body # <<>> => size > 0)
    <3>1. body \in Seq(Items)
      BY LoadedCodeFacts DEF Init
    <3> HIDE DEF body, Items
    <3> QED
      BY <3>1
  <2>2. \A n \in 1..size : Proper(body[n]) /\ Phase(body[n]) = 0
    BY <1>1, ReadPhase
  <2>3. \A n \in 1..(size - 1) : n \in 1..size /\ n + 1 \in 1..size
    BY <2>1
  <2> HIDE DEF body
  <2>4. Whole(body)
    BY <2>1, <2>2, <2>3 DEF Whole, Follows
  <2> QED
    BY <2>4 DEF body
<1> QED
  BY <1>1, <1>2 DEF WholeInv, WholeIn

\* Only -tmod changes the functions, by an insertion.
LEMMA NextWhole == PassIInv /\ WholeInv /\ [Next]_vars => WholeInv'
<1> SUFFICES ASSUME PassIInv, WholeInv, [Next]_vars PROVE WholeInv'
  OBVIOUS
<1>1. cmd' = cmd
  BY DEF Next, CheckCommandLineArgs, Search, StartLoop, RemoveWait, SkipPosition, ModifyTime,
         SwitchWait, FinishLoop, PrintResult, Terminated, Turn, passVars, vars
<1>2. WholeInv' <=> WholeIn(code')
  BY <1>1 DEF WholeInv, WholeIn, Whole, Proper
<1>3. CASE code' = code
  BY <1>2, <1>3 DEF WholeInv
<1>4. CASE ModifyTime /\ code' # code
  <2>1. /\ pc = "loop" /\ i < Len(cmd.pos) /\ Given("tmod") /\ ~OutOfReach
        /\ TimeFault(CurInst) = "none" /\ code' = Inserted(CurInst)
    BY <1>4 DEF ModifyTime, Turn, Ends
  <2>2. PICK inst \in Inst : inst = CurInst
    BY <2>1, InReach
  <2>3. ~SecOverrun /\ ~(InsertPlace(inst) > Len(code[FuncOf(inst)]))
    BY <2>1, <2>2 DEF TimeFault
  <2>4. NsecVal \in Int /\ SecVal \in Int
    BY <2>1, <2>3, ValuesType DEF PassIInv, Stages
  <2>5. InsertPlace(inst) \in 1..Len(code[FuncOf(inst)])
    <3>1. InsertPlace(inst) \in Nat \ {0}
      BY <2>1, InsertPlaceFacts DEF PassIInv
    <3>2. Len(code[FuncOf(inst)]) \in Nat
      <4> HIDE DEF Items
      <4> QED
        BY FuncOfType DEF PassIInv, TypeOK
    <3> QED
      BY <2>3, <3>1, <3>2
  <2>6. WholeIn(Inserted(inst))
    BY <2>1, <2>4, <2>5, InsertedWhole DEF PassIInv
  <2> QED
    BY <1>2, <2>1, <2>2, <2>6
<1>5. code' = code \/ ModifyTime
  BY DEF Next, CheckCommandLineArgs, Search, StartLoop, RemoveWait, SkipPosition,
         SwitchWait, FinishLoop, PrintResult, Terminated, vars
<1> QED
  BY <1>3, <1>4, <1>5


-----------------------------------------------------------------------------
(* The amounts *)

\* The addition that turn m inserts for an instruction
IsAmount(x, inst, m) ==
  \E field \in {"sec", "nsec"} : x = Item("add", inst, field, AmountAt(cmd.pos[m], field), m)

\* Every addition is that of a turn which inserted code for the instruction, and
\* every such turn inserted its two.
Valued ==
  \A inst \in Inst : \A x :
    Has(code[FuncOf(inst)], x) /\ x.step = "add" /\ x.of = inst <=>
      \E m \in Adjusted(inst) : IsAmount(x, inst, m)

LEMMA AdditionsByCode ==
  CodeTyped => \A inst \in Inst : \A x :
                 x \in Additions(inst) <=> Has(code[FuncOf(inst)], x) /\ x.step = "add" /\ x.of = inst
<1> SUFFICES ASSUME CodeTyped, NEW inst \in Inst
             PROVE  \A x : x \in ToSet(code[FuncOf(inst)]) <=> Has(code[FuncOf(inst)], x)
  BY DEF Additions
<1> DEFINE s == code[FuncOf(inst)]
<1>1. s \in Seq(Items)
  <2> HIDE DEF Items
  <2> QED
    BY FuncOfType DEF CodeTyped
<1> HIDE DEF s, Items
<1>2. DOMAIN s = 1..Len(s)
  BY <1>1
<1>3. \A x : x \in ToSet(s) <=> Has(s, x)
  BY <1>2 DEF ToSet, Has
<1> QED
  BY <1>3 DEF s

\* The two additions among the eight instructions of a turn
LEMMA AdjustmentAmounts ==
  ASSUME NEW inst \in Inst, NEW x
  PROVE  Has(Adjustment(inst), x) /\ x.step = "add" <=> IsAmount(x, inst, i + 1)
<1> DEFINE steps == <<"gep", "load", "add", "store">>
           field(n) == IF n % 2 = 1 THEN "sec" ELSE "nsec"
           val(n) == IF n % 2 = 1 THEN SecVal ELSE NsecVal
           step(n) == steps[(n + 1) \div 2]
           t == Adjustment(inst)
<1>1. t = [n \in 1..8 |-> Item(step(n), inst, field(n), val(n), i + 1)]
  BY DEF Adjustment
<1>2. /\ step(1) # "add" /\ step(2) # "add" /\ step(3) # "add" /\ step(4) # "add"
      /\ step(5) = "add" /\ step(6) = "add" /\ step(7) # "add" /\ step(8) # "add"
  OBVIOUS
<1>3. field(5) = "sec" /\ field(6) = "nsec"
  OBVIOUS
<1>4. val(5) = AmountAt(Pos, "sec") /\ val(6) = AmountAt(Pos, "nsec")
  BY DEF AmountAt, SecVal, NsecVal
<1> DEFINE size == 8
<1>5. Len(t) = size
  <2>1. size \in Nat /\ t = [n \in 1..size |-> Item(step(n), inst, field(n), val(n), i + 1)]
    BY <1>1
  <2> HIDE DEF t, size, step, field, val
  <2> QED
    BY <2>1
<1> HIDE DEF step, field, val, t
<1>6. \A n \in 1..8 : t[n] = Item(step(n), inst, field(n), val(n), i + 1) /\ t[n].step = step(n)
  BY <1>1 DEF Item
<1>7. \A n \in 1..8 : step(n) = "add" <=> n \in {5, 6}
  BY <1>2
<1>8. t[5] = Item("add", inst, "sec", AmountAt(Pos, "sec"), i + 1)
  BY <1>2, <1>3, <1>4, <1>6
<1>9. t[6] = Item("add", inst, "nsec", AmountAt(Pos, "nsec"), i + 1)
  BY <1>2, <1>3, <1>4, <1>6
<1>10. Has(t, x) /\ x.step = "add" <=> x = t[5] \/ x = t[6]
  <2>1. Has(t, x) <=> \E n \in 1..8 : t[n] = x
    BY <1>5 DEF Has
  <2> HIDE DEF Has
  <2> QED
    BY <1>2, <1>6, <1>7, <2>1
<1>11. IsAmount(x, inst, i + 1) <=> x = t[5] \/ x = t[6]
  BY <1>8, <1>9 DEF IsAmount, Pos
<1> QED
  BY <1>10, <1>11 DEF t

LEMMA InitValued == Init => Valued
<1> SUFFICES ASSUME Init, NEW inst \in Inst, NEW x
             PROVE  /\ ~(Has(code[FuncOf(inst)], x) /\ x.step = "add")
                    /\ Adjusted(inst) = {}
  BY DEF Valued
<1>1. code = LoadedCode
  BY DEF Init
<1>2. FuncOf(inst) \in 1..Len(Bodies)
  BY FuncOfType
<1>3. \A y : Has(code[FuncOf(inst)], y) => y.step = "inst"
  BY <1>1, <1>2, LoadedHas
<1>4. CodeTyped
  BY <1>1, LoadedCodeFacts DEF CodeTyped
<1>5. AdjustedByCode
  BY <1>4, AdjustedBy
<1> QED
  BY <1>3, <1>5 DEF AdjustedByCode

LEMMA NextValued == PassIInv /\ Valued /\ [Next]_vars => Valued'
<1> SUFFICES ASSUME PassIInv, Valued, [Next]_vars PROVE Valued'
  OBVIOUS
<1>1. cmd' = cmd
  BY DEF Next, CheckCommandLineArgs, Search, StartLoop, RemoveWait, SkipPosition, ModifyTime,
         SwitchWait, FinishLoop, PrintResult, Terminated, Turn, passVars, vars
<1>2. \A x : \A inst, m : IsAmount(x, inst, m)' <=> IsAmount(x, inst, m)
  BY <1>1 DEF IsAmount, AmountAt, SecAt, NsecAt
<1>3. CASE code' = code
  <2>1. \A inst : Adjusted(inst)' = Adjusted(inst)
    BY <1>3 DEF Adjusted, FuncOf
  <2> QED
    BY <1>2, <1>3, <2>1 DEF Valued, FuncOf
<1>4. CASE ModifyTime /\ code' # code
  <2>1. /\ pc = "loop" /\ i < Len(cmd.pos) /\ Given("tmod") /\ ~OutOfReach
        /\ TimeFault(CurInst) = "none" /\ code' = Inserted(CurInst)
    BY <1>4 DEF ModifyTime, Turn, Ends
  <2>2. PICK inst \in Inst : inst = CurInst
    BY <2>1, InReach
  <2>3. ~SecOverrun /\ ~(InsertPlace(inst) > Len(code[FuncOf(inst)]))
    BY <2>1, <2>2 DEF TimeFault
  <2>4. NsecVal \in Int /\ SecVal \in Int /\ i \in Nat
    BY <2>1, <2>3, ValuesType, PosType DEF PassIInv, Stages
  <2>5. InsertPlace(inst) \in 1..Len(code[FuncOf(inst)])
    <3>1. InsertPlace(inst) \in Nat \ {0}
      BY <2>1, InsertPlaceFacts DEF PassIInv
    <3>2. Len(code[FuncOf(inst)]) \in Nat
      <4> HIDE DEF Items
      <4> QED
        BY FuncOfType DEF PassIInv, TypeOK
    <3> QED
      BY <2>3, <3>1, <3>2
  <2>6. Adjustment(inst) \in Seq(Items) /\ Len(Adjustment(inst)) = 8
        /\ \A y : Has(Adjustment(inst), y) => y.of = inst
    BY <2>4, AdjustmentFacts DEF Has
  <2>7. Grown(inst)
    BY <2>1, <2>2, <2>5, <2>6, InsertedGrows DEF PassIInv, TypeOK
  <2>8. \A other \in Inst :
          Adjusted(other)' = Adjusted(other) \union (IF other = inst THEN {i + 1} ELSE {})
    BY <2>4, <2>7, AdjustedGrows DEF PassIInv
  <2>9. \A y : Has(Adjustment(inst), y) /\ y.step = "add" <=> IsAmount(y, inst, i + 1)
    BY AdjustmentAmounts
  <2>10. ASSUME NEW other \in Inst, NEW x
         PROVE  Has(code'[FuncOf(other)], x) /\ x.step = "add" /\ x.of = other <=>
                  \E m \in Adjusted(other)' : IsAmount(x, other, m)
    <3>1. Has(code[FuncOf(other)], x) /\ x.step = "add" /\ x.of = other <=>
            \E m \in Adjusted(other) : IsAmount(x, other, m)
      BY DEF Valued
    <3>2. IsAmount(x, inst, i + 1) => x.of = inst /\ x.step = "add"
      BY DEF IsAmount, Item
    <3> DEFINE now == Has(code'[FuncOf(other)], x)
               was == Has(code[FuncOf(other)], x)
    <3>3. now <=> was \/ (FuncOf(other) = FuncOf(inst) /\ Has(Adjustment(inst), x))
      <4>1. FuncOf(other) \in 1..Len(Bodies)
        BY FuncOfType
      <4> HIDE DEF Has
      <4> QED
        BY <2>7, <4>1 DEF Grown
    <3> HIDE DEF now, was
    <3>4. CASE other = inst
      BY <2>8, <2>9, <3>1, <3>2, <3>3, <3>4 DEF now, was
    <3>5. CASE other # inst
      BY <2>6, <2>8, <3>1, <3>3, <3>5 DEF now, was
    <3> QED
      BY <3>4, <3>5
  <2>11. \A other : FuncOf(other)' = FuncOf(other)
    BY DEF FuncOf
  <2> QED
    BY <1>2, <2>10, <2>11 DEF Valued
<1>5. code' = code \/ ModifyTime
  BY DEF Next, CheckCommandLineArgs, Search, StartLoop, RemoveWait, SkipPosition,
         SwitchWait, FinishLoop, PrintResult, Terminated, vars
<1> QED
  BY <1>3, <1>4, <1>5

-----------------------------------------------------------------------------
(* The theorems *)

LEMMA NextPreserves == PassIInv /\ [Next]_vars => PassIInv'
  BY CheckCommandLineArgsPreserves, SearchPreserves, StartLoopPreserves, RemoveWaitPreserves,
     SkipPositionPreserves, ModifyTimePreserves, SwitchWaitPreserves, FinishLoopPreserves,
     PrintResultPreserves, StutterPreserves
  DEF Next, Terminated

\* The inductive invariant holds throughout.
THEOREM Invariance == Spec => []PassIInv
  BY InitPreserves, NextPreserves, PTL DEF Spec

\* Type correctness.
THEOREM TypeCorrect == Spec => []TypeOK
<1>1. PassIInv => TypeOK
  BY DEF PassIInv
<1> QED
  BY <1>1, Invariance, PTL

\* Nothing else than what FaultsExplained lists makes CondWait or PosixCondWait do
\* something undefined: -rm never does, -switch of CondWait never does, and -tmod
\* only with lists or insertion points that are too long.
THEOREM FaultsAreExplained == Spec => []FaultsExplained
<1>1. PassIInv => FaultsExplained
  BY DEF PassIInv
<1> QED
  BY <1>1, Invariance, PTL

\* Whatever positions are named, in whatever order and however often: -rm takes the
\* named waits and no others, -switch those PosixCondWait can switch; -tmod inserts
\* for a timed wait once for every turn that names it, adding the values that the lists
\* have at its position (but CondWait may leave out any turn).
THEOREM MutationIsExact == Spec => []MutatedExactly
<1>1. PassIInv /\ Valued => MutatedExactly
  <2> SUFFICES ASSUME PassIInv, Valued, Ran, NEW index \in 0..(Calls!Size - 1)
               PROVE  AsAsked(index) /\ AmountsAsAsked(index)
    BY DEF MutatedExactly
  <2>1. AsAsked(index)
    BY DEF PassIInv, Exact, Ran
  <2> DEFINE inst == Calls!InstAt(index)
  <2>2. inst \in Inst
    BY SameTypes, Occurrence DEF PassIInv, Class
  <2>3. \A m \in Adjusted(inst) : cmd.pos[m] = index
    BY <2>1 DEF AsAsked, AskedFor
  <2>4. \A x : x \in Additions(inst) <=> \E m \in Adjusted(inst) : IsAmount(x, inst, m)
    BY <2>2, AdditionsByCode DEF PassIInv, TypeOK, CodeTyped, Valued
  <2> HIDE DEF inst
  <2>5. Additions(inst) = {Item("add", inst, field, AmountAt(index, field), m) :
                             field \in {"sec", "nsec"}, m \in Adjusted(inst)}
    BY <2>3, <2>4 DEF IsAmount
  <2> QED
    BY <2>1, <2>5 DEF AmountsAsAsked, inst
<1>2. Spec => []Valued
  BY InitValued, InitPreserves, NextPreserves, NextValued, PTL DEF Spec
<1> QED
  BY <1>1, <1>2, Invariance, PTL

\* No change of the module is hidden from the pass manager, and only -tmod reports
\* one when there was none.
THEOREM ChangesAreReported == Spec => []ReportsChanges
<1>1. PassIInv => ReportsChanges
  <2> SUFFICES ASSUME PassIInv, Ran PROVE ReportsChanges
    BY DEF ReportsChanges
  <2>1. /\ live # Inst => modified
        /\ modified /\ ~Given("tmod") => live # Inst
        /\ Given("tmod") => modified
    BY DEF PassIInv, Reported
  <2>2. (\E f \in 1..Len(code) : Len(code[f]) # Len(Bodies[f])) => Given("tmod")
    <3>1. code \in [1..Len(Bodies) -> Seq(Items)] /\ Len(Bodies) \in Nat
      BY BodiesAssumption DEF PassIInv, TypeOK
    <3>2. Len(code) = Len(Bodies)
      <4> HIDE DEF Items
      <4> QED
        BY <3>1
    <3>3. ~Given("tmod") => code = LoadedCode
      BY DEF PassIInv, CodeKept
    <3> QED
      BY <3>2, <3>3, LoadedCodeFacts
  <2> QED
    BY <2>1, <2>2 DEF ReportsChanges
<1> QED
  BY <1>1, Invariance, PTL

\* With at most one insertion point the changes of one struct timespec add up, whichever
\* waits share it and however often each is named.
THEOREM UpdatesAddUp == Spec => []NoUpdateLost
<1>1. PassIInv /\ WholeInv => NoUpdateLost
  <2> SUFFICES ASSUME PassIInv, WholeInv, Len(cmd.inspt) <= 1,
                      NEW f \in 1..Len(code), NEW inst \in Inst, NEW field \in {"sec", "nsec"}
               PROVE  Effect(code[f], TimespecOf[inst], field)
                        = Requested(code[f], TimespecOf[inst], field)
    BY DEF NoUpdateLost
  <2>1. code \in [1..Len(Bodies) -> Seq(Items)] /\ Len(Bodies) \in Nat
    BY BodiesAssumption DEF PassIInv, TypeOK
  <2>2. f \in 1..Len(Bodies) /\ code[f] \in Seq(Items)
    <3> HIDE DEF Items
    <3> QED
      BY <2>1
  <2>3. Whole(code[f])
    BY <2>2 DEF WholeInv, WholeIn
  <2> HIDE DEF Items
  <2> QED
    BY <2>2, <2>3, WholeAddsUp
<1>2. Spec => []WholeInv
  BY InitWhole, InitPreserves, NextPreserves, NextWhole, PTL DEF Spec
<1> QED
  BY <1>1, <1>2, Invariance, PTL
=============================================================================
