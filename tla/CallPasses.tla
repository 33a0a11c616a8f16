----------------------------- MODULE CallPasses -----------------------------
(***************************************************************************)
(* The five passes built directly on EnumerateCallInst: ThreadJoin,        *)
(* PosixJoin, PosixYield, PosixCondSignal and mutate_PosixSema.  Each      *)
(* searches a module for calls of a few functions, then walks the          *)
(* positions of -pos and asks the class to remove or replace them, or      *)
(* changes them itself and asks the class to remember that.                *)
(*                                                                         *)
(* The class is the instance Calls: its variables are the class's own and  *)
(* its actions are what a pass calls.                                      *)
(***************************************************************************)
EXTENDS Integers, Sequences, FiniteSets

CONSTANTS
  Layout, InvokeInst, RawName, CppName, Indirect, Names, InitUsers, Index,
  Args,         \* number of arguments of each instruction
  SemValueMax,  \* SEM_VALUE_MAX
  Kept,         \* the permit count the program itself gives
  Commands      \* command lines: [pass, flags, pos, val]

VARIABLES
  funcNames, isCpp, visited, callInsts, invokeInsts, deletedIndices,
  live, users, tail, last, dangling,
  target,    \* the function called at the place of each instruction
  value,     \* the permit count a semaphore call was given, if any
  cmd,       \* the command line
  i,         \* loop index into -pos
  modified,  \* what runOnModule is going to return
  fault,     \* the first undefined operation met
  pc         \* "args", "search", "loop", "ran", or how the pass stopped

Calls == INSTANCE EnumerateCallInst

classVars == <<funcNames, isCpp, visited, callInsts, invokeInsts, deletedIndices,
               live, users, tail, last, dangling>>
passVars == <<cmd, i, modified, fault, pc>>
vars == <<classVars, target, value, passVars>>

Passes == {"ThreadJoin", "PosixJoin", "PosixYield", "PosixCondSignal", "PosixSema"}
Flags == {"posix", "c++11", "rm", "rep", "mod", "verbose", "analyze"}
Inst == Calls!Inst
StdJoin == "std::__1::thread::join"

\* What the class assumes of the module it enumerates (EnumerateCallInst)
ASSUME LayoutAssumption ==
  /\ Layout \in Seq(Inst)
  /\ \A m, n \in 1..Len(Layout) : Layout[m] = Layout[n] => m = n
  /\ InvokeInst \subseteq Inst
  /\ Calls!Other \notin Inst
ASSUME NameAssumption ==
  /\ RawName \in [Inst -> Names \union {Indirect}]
  /\ CppName \in [Inst -> Names \union {Indirect}]
  /\ Indirect \notin Names
ASSUME UsersAssumption == InitUsers \in [Inst -> SUBSET (Inst \union {Calls!Other})]
ASSUME IndexAssumption == Index \subseteq Nat

\* The functions the passes know; a demangled name belongs to a mangled one.
SearchableNames == {"pthread_join", StdJoin, "pthread_yield", "sched_yield",
                    "pthread_cond_signal", "pthread_cond_broadcast", "sem_init", "sem_open"}
ASSUME SearchAssumption ==
  /\ SearchableNames \subseteq Names
  /\ \A inst \in Inst : CppName[inst] = StdJoin => RawName[inst] # "pthread_join"

ASSUME CommandAssumption ==
  \A c \in Commands :
    /\ c.pass \in Passes
    /\ c.flags \subseteq Flags
    /\ c.pos \in Seq(Index) /\ c.val \in Seq(Nat)
ASSUME ArgsAssumption == Args \in [Inst -> Nat]
ASSUME SemAssumption == SemValueMax \in Nat \ {0} /\ Kept \notin Nat
\* std::thread::join returns nothing that could be used.
ASSUME VoidAssumption == \A inst \in Inst : CppName[inst] = StdJoin => InitUsers[inst] = {}
\* pthread_yield and sched_yield take no arguments, so a call of them uses no value.
YieldNames == {"pthread_yield", "sched_yield"}
ASSUME YieldAssumption ==
  \A inst, other \in Inst : RawName[inst] \in YieldNames => inst \notin InitUsers[other]

Init ==
  /\ Calls!Init
  /\ target = RawName
  /\ value = [inst \in Inst |-> Kept]
  /\ cmd \in Commands
  /\ i = 0
  /\ modified = FALSE
  /\ fault = "none"
  /\ pc = "args"

-----------------------------------------------------------------------------
(* The command line *)

Given(flag) == flag \in cmd.flags

\* Mutant of ThreadJoinArgs: a verbose listing may follow a removal.
ThreadJoinArgs_Verbose ==
  /\ Given("posix") \/ Given("c++11")
  /\ ~(Given("rm") /\ Given("rep"))

\* checkCommandLineArgs of ThreadJoin and of PosixYield; the others have none.
ThreadJoinArgs ==
  /\ Given("posix") \/ Given("c++11")
  /\ ~(Given("rm") /\ Given("rep"))
  /\ Given("verbose") => ~Given("rm") /\ ~Given("rep")
YieldArgs == Given("rm") => ~Given("verbose") /\ cmd.pos # <<>>

ArgsAccepted ==
  /\ cmd.pass = "ThreadJoin" => ThreadJoinArgs
  /\ cmd.pass = "PosixYield" => YieldArgs

CheckCommandLineArgs ==
  /\ pc = "args"
  /\ pc' = IF ArgsAccepted THEN "search" ELSE "exit"
  /\ UNCHANGED <<classVars, target, value, cmd, i, modified, fault>>

\* The mode runOnModule enters; when both are given, -rm comes first.
Mode ==
  IF cmd.pass = "PosixSema" THEN IF Given("mod") THEN "mod" ELSE "find"
  ELSE IF Given("rm") THEN "rm"
  ELSE IF Given("rep") /\ cmd.pass # "PosixYield" THEN "rep"
  ELSE "find"

-----------------------------------------------------------------------------
(* Finding the calls *)

ThreadJoinNames == (IF Given("posix") THEN {"pthread_join"} ELSE {})
                   \union (IF Given("c++11") THEN {StdJoin} ELSE {})
SearchNames ==
  CASE cmd.pass = "ThreadJoin"      -> ThreadJoinNames
    [] cmd.pass = "PosixJoin"       -> {"pthread_join"}
    [] cmd.pass = "PosixYield"      -> YieldNames
    [] cmd.pass = "PosixCondSignal" -> {"pthread_cond_broadcast", "pthread_cond_signal"}
    [] cmd.pass = "PosixSema"       -> {"sem_open", "sem_init"}
SearchesCpp == cmd.pass = "ThreadJoin" /\ Given("c++11")

\* All names and the C++ switch are set before the module is visited.
Search ==
  /\ pc = "search"
  /\ \/ \E name \in SearchNames \ funcNames : Calls!AddFuncNameToSearch(name)
     \/ SearchesCpp /\ ~isCpp /\ Calls!SearchCpp
     \/ funcNames = SearchNames /\ isCpp = SearchesCpp /\ Calls!Visit
  /\ UNCHANGED <<target, value, passVars>>

\* PosixJoin refuses two modes only now; PosixYield does not initialise
\* `modified` when it removes.
StartLoop ==
  /\ pc = "search" /\ visited = Len(Layout)
  /\ pc' = IF cmd.pass = "PosixJoin" /\ Given("rm") /\ Given("rep") THEN "exit" ELSE "loop"
  /\ modified' \in IF cmd.pass = "PosixYield" /\ Mode = "rm" THEN BOOLEAN ELSE {FALSE}
  /\ UNCHANGED <<classVars, target, value, cmd, i, fault>>

-----------------------------------------------------------------------------
(* The loops over the positions *)

Pos == cmd.pos[i + 1]
CurInst == Calls!InstAt(Pos)

\* The next position, in the loop of `pass` for `mode`
Turn(pass, mode) ==
  /\ pc = "loop" /\ cmd.pass = pass /\ Mode = mode /\ i < Len(cmd.pos)
  /\ i' = i + 1
  /\ UNCHANGED cmd

\* An iteration ends the model only when it followed a dangling pointer ...
Goes ==
  /\ fault' = IF dangling' = {} THEN "none" ELSE "dangling"
  /\ pc' = IF dangling' = {} THEN pc ELSE "fault"

\* ... or is undefined in another way.
Breaks(kind) ==
  /\ fault' = kind
  /\ pc' = "fault"
  /\ UNCHANGED <<classVars, target, value, modified>>

\* A position that is left alone, with a warning or without
Skips(query) ==
  /\ Calls!QueryIndex(query, Pos)
  /\ Goes
  /\ UNCHANGED <<target, value, modified>>

\* Mutant of Mutates: a position out of bounds counts as a change.
Mutates_Bounds(ret) == ret # -2

\* The passes count every answer but -1 and -2 as a change.
Mutates(ret) == ret \notin {-1, -2}

\* What stands in the place of an instruction after the class removed it
Place(name) ==
  target' = IF last'.ret = 0 THEN [target EXCEPT ![CurInst] = name] ELSE target

Remove(pass) ==
  /\ Turn(pass, "rm")
  /\ \/ Calls!RemoveFromParentRepZero(Pos)
     \/ Calls!Refuse("removeFromParentRepZero", Pos)
  /\ Place("nothing")
  /\ modified' = (modified \/ Mutates(last'.ret))
  /\ Goes
  /\ UNCHANGED value

RemoveThreadJoin == Remove("ThreadJoin")
RemovePosixJoin  == Remove("PosixJoin")
RemoveCondSignal == Remove("PosixCondSignal")

\* removeFromParent answers 1 to an invoke and -3 to a call whose value is
\* used, and does nothing
RemoveYield ==
  /\ Turn("PosixYield", "rm")
  /\ \/ Calls!RemoveFromParent(Pos)
     \/ Calls!RemoveFromParentDeclines(Pos)
     \/ Calls!Refuse("removeFromParent", Pos)
  /\ Place("nothing")
  /\ modified' = (modified \/ Mutates(last'.ret))
  /\ Goes
  /\ UNCHANGED value

\* The call to sleep takes the place of the join.
ReplaceBySleep ==
  /\ Calls!ReplaceInstWithInst(Pos)
  /\ Place("sleep")
  /\ modified' = TRUE
  /\ Goes
  /\ UNCHANGED value

\* PosixJoin tests the answer of isValidIndex for 0, so it skips invokes too.
PosixJoinReplace ==
  /\ Turn("PosixJoin", "rep")
  /\ IF Calls!IsValidIndex(Pos) = 0 THEN ReplaceBySleep ELSE Skips("isValidIndex")

IsStdThreadJoin(inst) == CppName[inst] = StdJoin

\* Mutant of CppJoinTail: sleep is inserted, the branch is not.
CppJoinTail_NoBranch == <<"replacement">>

\* Sleep and the branch go in front of the invoke, which is then erased
CppJoinTail == <<"replacement", "branch">>

\* std::thread::join: the pass edits the block itself.  A plain call is cast
\* to InvokeInst for its normal destination, after sleep was inserted.
ReplaceCppJoin ==
  IF Calls!IsCall(Pos) THEN Breaks("badcast")
  ELSE /\ Calls!Follow("markMutated", {CurInst})
       /\ deletedIndices' = deletedIndices \union {Pos}
       /\ tail' = [tail EXCEPT ![CurInst] = CppJoinTail]
       /\ Calls!Erase(CurInst)
       /\ Calls!Return("markMutated", Pos, 0)
       /\ Place("sleep")
       /\ modified' = TRUE
       /\ Goes
       /\ UNCHANGED <<funcNames, isCpp, visited, callInsts, invokeInsts, value>>

ThreadJoinReplace ==
  /\ Turn("ThreadJoin", "rep")
  /\ IF Calls!IsValidIndex(Pos) < 0 THEN Skips("getInstructionAt")
     ELSE IF IsStdThreadJoin(CurInst) THEN ReplaceCppJoin
     ELSE ReplaceBySleep

Opposite(name) == IF name = "pthread_cond_signal" THEN "pthread_cond_broadcast"
                  ELSE "pthread_cond_signal"

\* Mutant of CondSignalReplace: the call is not marked.
CondSignalReplace_Unmarked ==
  /\ Turn("PosixCondSignal", "rep")
  /\ IF Calls!IsValidIndex(Pos) < 0 THEN Skips("isValidIndex")
     ELSE IF ~Calls!IsCall(Pos) THEN Breaks("oob")
     ELSE IF Args[CurInst] < 1 THEN Skips("isValidIndex")
     ELSE /\ target' = [target EXCEPT ![CurInst] = Opposite(@)]
          /\ Calls!QueryIndex("isValidIndex", Pos)
          /\ modified' = TRUE
          /\ Goes
          /\ UNCHANGED value

\* The position of an invoke passes the test and is past the end of callInsts.
CondSignalReplace ==
  /\ Turn("PosixCondSignal", "rep")
  /\ IF Calls!IsValidIndex(Pos) < 0 THEN Skips("isValidIndex")
     ELSE IF ~Calls!IsCall(Pos) THEN Breaks("oob")
     ELSE IF Args[CurInst] < 1 THEN Skips("isValidIndex")
     ELSE /\ target' = [target EXCEPT ![CurInst] = Opposite(@)]
          /\ Calls!MarkMutated(Pos)
          /\ modified' = TRUE
          /\ Goes
          /\ UNCHANGED value

\* The value for the m-th position: rand() % SEM_VALUE_MAX when there are too few
NewValues(m) ==
  IF m > Len(cmd.val) THEN 0..(SemValueMax - 1)
  ELSE IF cmd.val[m] > SemValueMax THEN {SemValueMax}
  ELSE {cmd.val[m]}

\* The permit count is the third argument of sem_init, the fourth of sem_open.
TooFewArgs(inst) == Args[inst] < IF RawName[inst] = "sem_init" THEN 3 ELSE 4

SemaModify ==
  /\ Turn("PosixSema", "mod")
  /\ IF Calls!IsValidIndex(Pos) < 0 THEN Skips("isValidIndex")
     ELSE IF ~Calls!IsCall(Pos) THEN Breaks("oob")
     ELSE IF TooFewArgs(CurInst) THEN Skips("isValidIndex")
     ELSE /\ \E new \in NewValues(i + 1) : value' = [value EXCEPT ![CurInst] = new]
          /\ Calls!MarkMutated(Pos)
          /\ modified' = TRUE
          /\ Goes
          /\ UNCHANGED target

FinishLoop ==
  /\ pc = "loop" /\ (Mode = "find" \/ i >= Len(cmd.pos))
  /\ pc' = "ran"
  /\ UNCHANGED <<classVars, target, value, cmd, i, modified, fault>>

\* print's verbose listing follows the pointers to calls; ThreadJoin and the
\* class itself, which PosixYield asks, list the invokes as well.
Listed ==
  {callInsts[n] : n \in 1..Len(callInsts)} \union
  IF cmd.pass \in {"ThreadJoin", "PosixYield"}
  THEN {invokeInsts[n] : n \in 1..Len(invokeInsts)} ELSE {}

\* print, which opt calls under -analyze
PrintResult ==
  /\ pc = "ran"
  /\ Calls!Follow("printInstDebugInfo",
                  IF Given("analyze") /\ Given("verbose") THEN Listed ELSE {})
  /\ fault' = IF dangling' = {} THEN "none" ELSE "dangling"
  /\ pc' = IF dangling' = {} THEN "done" ELSE "fault"
  /\ UNCHANGED <<funcNames, isCpp, visited, callInsts, invokeInsts, deletedIndices,
                 live, users, tail, last, target, value, cmd, i, modified>>

Stopped == pc \in {"exit", "done", "fault"}
Terminated == Stopped /\ UNCHANGED vars

Next ==
  \/ CheckCommandLineArgs \/ Search \/ StartLoop
  \/ RemoveThreadJoin \/ RemovePosixJoin \/ RemoveCondSignal \/ RemoveYield
  \/ PosixJoinReplace \/ ThreadJoinReplace
  \/ CondSignalReplace \/ SemaModify
  \/ FinishLoop \/ PrintResult \/ Terminated

Spec == Init /\ [][Next]_vars

-----------------------------------------------------------------------------
(* Properties *)

\* Every variable holds what the C++ variable can hold; a permit count never
\* exceeds SEM_VALUE_MAX.
TypeOK ==
  /\ Calls!TypeOK
  /\ target \in [Inst -> Names \union {Indirect, "nothing", "sleep"}]
  /\ value \in [Inst -> {Kept} \union 0..SemValueMax]
  /\ i \in 0..Len(cmd.pos)
  /\ modified \in BOOLEAN
  /\ fault \in {"none", "dangling", "oob", "badcast"}
  /\ pc \in {"args", "search", "loop", "ran", "exit", "done", "fault"}

\* The positions handled so far
Handled == {cmd.pos[m] : m \in 1..i}

\* Changed: erased, sent to another function or given another value
Changed(inst) == inst \notin live \/ target[inst] # RawName[inst] \/ value[inst] # Kept

\* The only ways to an undefined operation: the position of an invoke given to
\* the two passes that look only into callInsts, a plain call of
\* std::thread::join that ThreadJoin replaces, and a verbose listing after a
\* change by the two passes that erase and do not refuse -verbose.  Above all a
\* position named twice never reaches erased memory: isValidIndex refuses it the
\* second time (isValidIndex and its clients).  PosixCondSignal/README.md:60-61
\* says "Specifying the same position twice will result in a runtime error"; the
\* code only prints a warning.
FaultsExplained ==
  /\ fault = "oob" =>
       /\ <<cmd.pass, Mode>> \in {<<"PosixCondSignal", "rep">>, <<"PosixSema", "mod">>}
       /\ \E pos \in Handled : pos >= Len(callInsts) /\ pos < Calls!Size
  /\ fault = "badcast" =>
       /\ cmd.pass = "ThreadJoin" /\ Mode = "rep" /\ Given("c++11")
       /\ \E pos \in Handled : pos < Len(callInsts) /\ IsStdThreadJoin(Calls!InstAt(pos))
  /\ fault = "dangling" =>
       /\ cmd.pass \in {"PosixJoin", "PosixCondSignal"}
       /\ Given("verbose") /\ \E pos \in Handled : pos < Len(callInsts)

\* What the class has registered is what was changed in the module, whichever
\* pass did it and whether the class or the pass itself edited the block; so no
\* position is mutated twice and none is refused that was not mutated.
RegistryExact ==
  \A index \in 0..(Calls!Size - 1) :
    index \in deletedIndices <=> Changed(Calls!InstAt(index))

\* A change of the module is always reported to the pass manager, and a reported
\* change happened, except by PosixYield, which reports one for a call it left
\* alone and starts from an uninitialised flag (the loops of runOnModule).
ReportsChanges ==
  pc \in {"ran", "done"} =>
    /\ (\E inst \in Inst : Changed(inst)) => modified
    /\ modified /\ cmd.pass # "PosixYield" => \E inst \in Inst : Changed(inst)

\* The first time -pos names an occurrence
FirstTime(index) ==
  CHOOSE m \in 1..Len(cmd.pos) :
    cmd.pos[m] = index /\ \A k \in 1..(m - 1) : cmd.pos[k] # index

\* Whether `mode` of the pass takes the occurrence
Takes(index) ==
  LET inst == Calls!InstAt(index)
  IN  CASE cmd.pass = "PosixYield"                     -> Calls!IsCall(index) /\ InitUsers[inst] = {}
        [] cmd.pass = "PosixJoin" /\ Mode = "rep"      -> Calls!IsCall(index)
        [] cmd.pass = "PosixCondSignal" /\ Mode = "rep" -> Args[inst] >= 1
        [] cmd.pass = "PosixSema"                      -> ~TooFewArgs(inst)
        [] OTHER                                       -> TRUE

\* The occurrence is as the positions handled so far ask for.
AsAsked(index) ==
  LET inst == Calls!InstAt(index)
      taken == index \in Handled /\ Takes(index)
  IN  /\ target[inst] = IF ~taken \/ Mode = "mod" THEN RawName[inst]
                        ELSE IF Mode = "rm" THEN "nothing"
                        ELSE IF cmd.pass = "PosixCondSignal" THEN Opposite(RawName[inst])
                        ELSE "sleep"
      /\ IF taken /\ Mode = "mod" THEN value[inst] \in NewValues(FirstTime(index))
         ELSE value[inst] = Kept
      /\ inst \in live <=> \/ ~taken \/ Mode = "mod"
                           \/ cmd.pass = "PosixCondSignal" /\ Mode = "rep"

\* What the loop leaves behind depends on the positions only as a set, because a
\* repeated one is skipped with a warning, but for the permit count, which is the one given
\* for the first time the position is named: repeated and skipped positions do
\* not shift the values of the others.  Two READMEs say otherwise: that a repeated
\* position is a runtime error (PosixCondSignal/README.md:60-61) and that values
\* "must be less than SEM_VALUE_MAX" (PosixSemaphore/README.md:64-65), where the
\* code takes SEM_VALUE_MAX and lowers a larger value to it (the loops over -pos
\* and -val).
MutatedExactly ==
  pc \in {"ran", "done"} /\ Mode # "find" => \A index \in 0..(Calls!Size - 1) : AsAsked(index)

\* The invariants of the class survive what ThreadJoin does behind its back: an
\* erased instruction is registered and unused, and a block that ended in an
\* invoke still ends in exactly one terminator (ThreadJoin.cpp:206-237).
ClassInvariantsKept ==
  /\ Calls!ErasedIsDeleted
  /\ Calls!NoUseOfErased
  /\ Calls!OneTerminator
=============================================================================
