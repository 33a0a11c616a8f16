--------------------------- MODULE CondWaitPasses ---------------------------
(***************************************************************************)
(* CondWait and PosixCondWait: the passes that remove waits on condition   *)
(* variables, switch timed waits to waits, or insert code in front of a    *)
(* timed wait that adds to its struct timespec.  Both use the class of     *)
(* EnumerateCallInst (the instance Calls), CondWait through its            *)
(* operations, PosixCondWait partly by reading its vector of calls, so it  *)
(* changes the module behind the back of the class.                        *)
(***************************************************************************)
EXTENDS Integers, Sequences, FiniteSets, SequencesExt

CONSTANTS
  Layout, InvokeInst, RawName, CppName, Indirect, Names, InitUsers, Index,
  Bodies,      \* the functions: sequences of the instructions of Layout and others
  Args,        \* number of arguments of each instruction
  TimespecOf,  \* the struct timespec a call is given (arguments may share one)
  Timespecs,   \* numbers of elements struct.timespec may have, or NoType
  Commands     \* command lines: [pass, flags, pos, sec, nsec, inspt]

VARIABLES
  funcNames, isCpp, visited, callInsts, invokeInsts, deletedIndices,
  live, users, tail, last, dangling,
  target,    \* the function called at the place of each instruction
  code,      \* the functions with the code -tmod inserted; what -rm and -switch
             \* do to them is in live and target
  elements,  \* number of elements of struct.timespec in this module, or NoType
  cmd,       \* the command line
  i,         \* loop index into -pos
  modified,  \* what runOnModule is going to return
  fault,     \* the first undefined operation met
  pc         \* "args", "search", "loop", "ran", or how the pass stopped

Calls == INSTANCE EnumerateCallInst

classVars == <<funcNames, isCpp, visited, callInsts, invokeInsts, deletedIndices,
               live, users, tail, last, dangling>>
passVars == <<cmd, elements, i, modified, fault, pc>>
vars == <<classVars, target, code, passVars>>

Inst == Calls!Inst
NoType == -1
PosixNames == <<"pthread_cond_wait", "pthread_cond_timedwait">>
CppNames == <<"std::__1::condition_variable::wait", "std::__1::condition_variable::wait_for",
              "std::__1::condition_variable::wait_until">>
Flags == {"posix", "cpp", "rm", "tmod", "switch", "verbose", "analyze"}

\* What the class assumes of the module it enumerates (EnumerateCallInst)
ASSUME LayoutAssumption ==
  /\ Layout \in Seq(Inst)
  /\ \A m, n \in 1..Len(Layout) : Layout[m] = Layout[n] => m = n
  /\ InvokeInst \subseteq Inst
  /\ Calls!Other \notin Inst
ASSUME NameAssumption ==
  /\ RawName \in [Inst -> Names \union {Indirect}]
  /\ CppName \in [Inst -> Names \union {Indirect}]
  /\ Indirect \notin Names
ASSUME UsersAssumption == InitUsers \in [Inst -> SUBSET (Inst \union {Calls!Other})]
ASSUME IndexAssumption == Index \subseteq Nat
ASSUME SearchAssumption == ToSet(PosixNames \o CppNames) \subseteq Names

\* A name with parentheses is the name of no function.
ASSUME SpellingAssumption == "pthread_cond_timedwait())" \notin Names \union {Indirect}

\* The visitor meets the calls of the functions in their order, and each call is in
\* a function.
ASSUME BodiesAssumption ==
  /\ Bodies \in Seq(Seq(Inst \union {Calls!Other}))
  /\ Layout = SelectSeq(FlattenSeq(Bodies), LAMBDA inst : inst # Calls!Other)
  /\ \A inst \in Inst : \E f \in 1..Len(Bodies) : inst \in ToSet(Bodies[f])
ASSUME CommandAssumption ==
  \A c \in Commands :
    /\ c.pass \in {"CondWait", "PosixCondWait"}
    /\ c.flags \subseteq Flags
    /\ c.pos \in Seq(Index)
    /\ c.sec \in Seq(Int) /\ c.nsec \in Seq(Int) /\ c.inspt \in Seq(Nat)
ASSUME ArgsAssumption == Args \in [Inst -> Nat] /\ DOMAIN TimespecOf = Inst
ASSUME TimespecAssumption == Timespecs \subseteq Nat \union {NoType}

\* An instruction of a function: one that was there, or one of the inserted ones.
Item(step, of, field, val, turn) ==
  [step |-> step, of |-> of, field |-> field, val |-> val, turn |-> turn]
Loaded(inst) == Item("inst", inst, "none", 0, 0)
LoadedCode == [f \in 1..Len(Bodies) |-> [n \in 1..Len(Bodies[f]) |-> Loaded(Bodies[f][n])]]

Init ==
  /\ Calls!Init
  /\ target = RawName
  /\ code = LoadedCode
  /\ elements \in Timespecs
  /\ cmd \in Commands
  /\ i = 0
  /\ modified = FALSE
  /\ fault = "none"
  /\ pc = "args"

-----------------------------------------------------------------------------
(* The command line *)

Given(flag) == flag \in cmd.flags
Modes == {"rm", "tmod", "switch"}

\* Mutant of ArgsAccepted: a verbose listing may follow a removal.
ArgsAccepted_Verbose ==
  /\ cmd.pass = "CondWait" => Given("posix") \/ Given("cpp")
  /\ \A m1, m2 \in Modes : Given(m1) /\ Given(m2) => m1 = m2
  /\ \A m \in Modes : Given(m) => cmd.pos # <<>>
  /\ Given("tmod") => cmd.sec # <<>> /\ cmd.nsec # <<>>
  /\ Given("switch") => cmd.sec = <<>> /\ cmd.nsec = <<>>

ArgsAccepted ==
  /\ cmd.pass = "CondWait" => Given("posix") \/ Given("cpp")
  /\ ~(Given("verbose") /\ Given("rm"))
  /\ \A m1, m2 \in Modes : Given(m1) /\ Given(m2) => m1 = m2
  /\ \A m \in Modes : Given(m) => cmd.pos # <<>>
  /\ Given("tmod") => cmd.sec # <<>> /\ cmd.nsec # <<>>
  /\ Given("switch") => cmd.sec = <<>> /\ cmd.nsec = <<>>

CheckCommandLineArgs ==
  /\ pc = "args"
  /\ pc' = IF ArgsAccepted THEN "search" ELSE "exit"
  /\ UNCHANGED <<classVars, target, code, cmd, elements, i, modified, fault>>

-----------------------------------------------------------------------------
(* Finding the calls *)

SearchNames ==
  (IF cmd.pass = "PosixCondWait" \/ Given("posix") THEN PosixNames ELSE <<>>)
  \o (IF cmd.pass = "CondWait" /\ Given("cpp") THEN CppNames ELSE <<>>)
SearchesCpp == cmd.pass = "CondWait" /\ Given("cpp")

Search ==
  /\ pc = "search"
  /\ \/ /\ Cardinality(funcNames) < Len(SearchNames)
        /\ Calls!AddFuncNameToSearch(SearchNames[Cardinality(funcNames) + 1])
     \/ /\ Cardinality(funcNames) = Len(SearchNames)
        /\ IF SearchesCpp /\ ~isCpp THEN Calls!SearchCpp ELSE Calls!Visit
  /\ UNCHANGED <<target, code, passVars>>

StartLoop ==
  /\ pc = "search" /\ visited = Len(Layout)
  /\ pc' = "loop"
  /\ UNCHANGED <<classVars, target, code, cmd, elements, i, modified, fault>>

-----------------------------------------------------------------------------
(* The loops over the positions *)

Pos == cmd.pos[i + 1]
CurInst == Calls!InstAt(Pos)

Turn(mode) ==
  /\ pc = "loop" /\ Given(mode) /\ i < Len(cmd.pos)
  /\ i' = i + 1
  /\ UNCHANGED <<cmd, elements>>

\* The turn ends the pass when it did something undefined.
Ends(kind) ==
  /\ fault' = kind
  /\ pc' = IF kind = "none" THEN pc ELSE "fault"

\* Mutant of RemoveWait: the last removal alone decides what is reported.
RemoveWait_Overwrites ==
  /\ Turn("rm")
  /\ \/ Calls!RemoveFromParentRepZero(Pos)
     \/ Calls!Refuse("removeFromParentRepZero", Pos)
  /\ target' = IF last'.ret = 0 THEN [target EXCEPT ![CurInst] = "nothing"] ELSE target
  /\ modified' = (last'.ret \notin {-1, -2})
  /\ Ends(IF dangling' = {} THEN "none" ELSE "dangling")
  /\ UNCHANGED code

\* Every answer but -1 and -2 counts as a change.
RemoveWait ==
  /\ Turn("rm")
  /\ \/ Calls!RemoveFromParentRepZero(Pos)
     \/ Calls!Refuse("removeFromParentRepZero", Pos)
  /\ target' = IF last'.ret = 0 THEN [target EXCEPT ![CurInst] = "nothing"] ELSE target
  /\ modified' = (modified \/ last'.ret \notin {-1, -2})
  /\ Ends(IF dangling' = {} THEN "none" ELSE "dangling")
  /\ UNCHANGED code

\* Mutant of OutOfReach: a position equal to the number of calls is let through.
OutOfReach_Inclusive ==
  IF cmd.pass = "CondWait" THEN Calls!IsValidIndex(Pos) < 0 ELSE Pos > Len(callInsts)

\* CondWait asks getInstructionAt, PosixCondWait looks at the vector of calls only.
OutOfReach ==
  IF cmd.pass = "CondWait" THEN Calls!IsValidIndex(Pos) < 0 ELSE Pos >= Len(callInsts)
LookUp ==
  IF cmd.pass = "CondWait" THEN Calls!QueryIndex("getInstructionAt", Pos)
  ELSE UNCHANGED classVars

\* getInstructionAt sets the error code only when it fails; CondWait tests the
\* code in any case, so a position it found may be skipped too.
SkipPosition ==
  /\ Turn("tmod") \/ Turn("switch")
  /\ OutOfReach \/ cmd.pass = "CondWait"
  /\ LookUp
  /\ UNCHANGED <<target, code, modified, fault, pc>>

-----------------------------------------------------------------------------
(* -tmod: add to the time of a timed wait *)

\* Element n of a list (from 0), or its last one when it is shorter
OrLast(list, n) == IF n < Len(list) THEN list[n + 1] ELSE list[Len(list)]

\* getNextMutateVals is handed the position itself.  When -secval is too short
\* it takes the element at which -nsecval ends.
NsecAt(index) == OrLast(cmd.nsec, index)
SecAt(index) == IF index < Len(cmd.sec) THEN cmd.sec[index + 1] ELSE cmd.sec[Len(cmd.nsec)]
NsecVal == NsecAt(Pos)
SecVal == SecAt(Pos)
SecOverrun == Pos >= Len(cmd.sec) /\ Len(cmd.nsec) > Len(cmd.sec)

FuncOf(inst) == CHOOSE f \in 1..Len(Bodies) : \E n \in 1..Len(Bodies[f]) : Bodies[f][n] = inst
PlaceOf(inst) ==
  LET body == code[FuncOf(inst)]
  IN  CHOOSE n \in 1..Len(body) : body[n].step = "inst" /\ body[n].of = inst

\* The inserted code goes before the call, or before the instruction -inspt counts
\* to from the beginning of the function as it is now; it stops at the end.
InsertPlace(inst) ==
  LET steps == OrLast(cmd.inspt, Pos)
      end   == Len(code[FuncOf(inst)])
  IN  IF cmd.inspt = <<>> THEN PlaceOf(inst)
      ELSE IF steps > end THEN end + 1 ELSE steps + 1

IsTimedWait(inst) == RawName[inst] = "pthread_cond_timedwait"
Adjustable(inst) == IsTimedWait(inst) /\ elements # NoType /\ Args[inst] >= 3

\* The values of both lists and the insertion point are taken before the callee is
\* looked at; the pointers into the struct are built before its size is.
TimeFault(inst) ==
  IF SecOverrun THEN "oob"
  ELSE IF InsertPlace(inst) > Len(code[FuncOf(inst)]) THEN "end"
  ELSE IF Adjustable(inst) /\ elements < 2 THEN "badgep"
  ELSE "none"

\* Mutant of Adjustment: the sums are stored before they are built.
Adjustment_StoresFirst(inst) ==
  LET steps == <<"gep", "load", "store", "add">>
  IN  [n \in 1..8 |->
         Item(steps[(n + 1) \div 2], inst, IF n % 2 = 1 THEN "sec" ELSE "nsec",
              IF n % 2 = 1 THEN SecVal ELSE NsecVal, i + 1)]

\* Two pointers, two loads, two additions and two stores
Adjustment(inst) ==
  LET steps == <<"gep", "load", "add", "store">>
  IN  [n \in 1..8 |->
         Item(steps[(n + 1) \div 2], inst, IF n % 2 = 1 THEN "sec" ELSE "nsec",
              IF n % 2 = 1 THEN SecVal ELSE NsecVal, i + 1)]

Inserted(inst) ==
  LET f == FuncOf(inst)
      n == InsertPlace(inst)
  IN  [code EXCEPT ![f] = SubSeq(@, 1, n - 1) \o Adjustment(inst) \o SubSeq(@, n, Len(@))]

ModifyTime ==
  /\ Turn("tmod") /\ ~OutOfReach
  /\ LookUp
  /\ Ends(TimeFault(CurInst))
  /\ code' = IF fault' = "none" /\ Adjustable(CurInst) THEN Inserted(CurInst) ELSE code
  /\ UNCHANGED <<target, modified>>

-----------------------------------------------------------------------------
(* -switch: a timed wait becomes a wait *)

\* CondWait compares the callee with a name that ends in two parentheses.
SwitchedNames ==
  IF cmd.pass = "CondWait" THEN {"pthread_cond_timedwait())"}
  ELSE Names \ {"pthread_cond_wait"}
Switchable(inst) == RawName[inst] \in SwitchedNames /\ Args[inst] = 3

\* The block is edited without the class: a position named again leads to the
\* erased call.  In the place of an invoke nothing would end the block.
SwitchWait ==
  /\ Turn("switch") /\ ~OutOfReach
  /\ Ends(IF CurInst \in live THEN "none" ELSE "dangling")
  /\ IF fault' = "none" /\ Switchable(CurInst)
     THEN /\ Calls!ReplaceUsesAndErase(CurInst)
          /\ tail' = IF Calls!IsCall(Pos) THEN tail
                     ELSE [tail EXCEPT ![CurInst] = <<"replacement">>]
          /\ target' = [target EXCEPT ![CurInst] = "pthread_cond_wait"]
          /\ modified' = TRUE
          /\ UNCHANGED <<funcNames, isCpp, visited, callInsts, invokeInsts, deletedIndices,
                         last, dangling>>
     ELSE LookUp /\ UNCHANGED <<target, modified>>
  /\ UNCHANGED code

-----------------------------------------------------------------------------
(* The end of the pass *)

\* -tmod counts as a change whatever was skipped.
FinishLoop ==
  /\ pc = "loop" /\ ((\A m \in Modes : ~Given(m)) \/ i >= Len(cmd.pos))
  /\ modified' = (modified \/ Given("tmod"))
  /\ pc' = "ran"
  /\ UNCHANGED <<classVars, target, code, cmd, elements, i, fault>>

\* print, which opt calls under -analyze; verbose, the class lists what it found.
VerbosePrint == Given("analyze") /\ Given("verbose")
PrintResult ==
  /\ pc = "ran"
  /\ IF VerbosePrint THEN Calls!PrintInstDebugInfo ELSE UNCHANGED classVars
  /\ fault' = IF dangling' = {} THEN "none" ELSE "dangling"
  /\ pc' = IF dangling' = {} THEN "done" ELSE "fault"
  /\ UNCHANGED <<target, code, cmd, elements, i, modified>>

Stopped == pc \in {"exit", "done", "fault"}
Terminated == Stopped /\ UNCHANGED vars

Next ==
  \/ CheckCommandLineArgs \/ Search \/ StartLoop
  \/ RemoveWait \/ SkipPosition \/ ModifyTime \/ SwitchWait
  \/ FinishLoop \/ PrintResult \/ Terminated

Spec == Init /\ [][Next]_vars

-----------------------------------------------------------------------------
(* Properties *)

Items == [step : {"inst", "gep", "load", "add", "store"}, of : Inst \union {Calls!Other},
          field : {"none", "sec", "nsec"}, val : Int, turn : Nat]

TypeOK ==
  /\ Calls!TypeOK
  /\ target \in [Inst -> Names \union {Indirect, "nothing"}]
  /\ code \in [1..Len(Bodies) -> Seq(Items)]
  /\ elements \in Timespecs
  /\ cmd \in Commands /\ i \in 0..Len(cmd.pos)
  /\ modified \in BOOLEAN
  /\ fault \in {"none", "oob", "end", "badgep", "dangling"}
  /\ pc \in {"args", "search", "loop", "ran", "exit", "done", "fault"}

Ran == pc \in {"ran", "done"}
Turns == 1..i
Handled == {cmd.pos[m] : m \in Turns}

\* The only ways to an undefined operation.  -tmod: a position beyond a list of
\* seconds that is shorter than the list of nanoseconds, an insertion point beyond
\* the function, a struct of fewer than two elements.  -switch, and only of
\* PosixCondWait: a timed wait named twice, or listed afterwards.  -rm has none
\* (the loops of runOnModule, getNextMutateVals).
FaultsExplained ==
  /\ fault = "oob" =>
       /\ Given("tmod") /\ Len(cmd.sec) < Len(cmd.nsec)
       /\ \E pos \in Handled : pos >= Len(cmd.sec)
  /\ fault = "end" =>
       /\ Given("tmod")
       /\ \E n \in 1..Len(cmd.inspt) : \E f \in 1..Len(Bodies) : cmd.inspt[n] >= Len(Bodies[f])
  /\ fault = "badgep" => Given("tmod") /\ elements \in {0, 1}
  /\ fault = "dangling" =>
       /\ cmd.pass = "PosixCondWait" /\ Given("switch")
       /\ \/ VerbosePrint
          \/ \E m, n \in Turns : m # n /\ cmd.pos[m] = cmd.pos[n]

\* The turns that asked for the occurrence
AskedFor(index) == {m \in Turns : cmd.pos[m] = index}

\* The turns that inserted the code for an instruction
Adjusted(inst) ==
  {item.turn : item \in {x \in ToSet(code[FuncOf(inst)]) : x.step # "inst" /\ x.of = inst}}

\* The additions that were inserted for an instruction, and those that belong there: one
\* for each field and each turn that inserted code for it, of the value the lists
\* have at the position
Additions(inst) == {x \in ToSet(code[FuncOf(inst)]) : x.step = "add" /\ x.of = inst}
AmountAt(index, field) == IF field = "sec" THEN SecAt(index) ELSE NsecAt(index)
AmountsAsAsked(index) ==
  LET inst == Calls!InstAt(index)
  IN  Additions(inst) = {Item("add", inst, field, AmountAt(index, field), m) :
                           field \in {"sec", "nsec"}, m \in Adjusted(inst)}

\* Which occurrences the loop has erased or replaced
Removed(index) == Given("rm") /\ index \in Handled
SwitchedTo(index) ==
  /\ Given("switch") /\ cmd.pass = "PosixCondWait" /\ index \in Handled
  /\ LET inst == Calls!InstAt(index)
     IN  inst \notin InvokeInst /\ IsTimedWait(inst) /\ Args[inst] = 3

\* The occurrence is as the command line asked for.
AsAsked(index) ==
  LET inst == Calls!InstAt(index)
  IN  /\ inst \in live <=> ~Removed(index) /\ ~SwitchedTo(index)
      /\ target[inst] = IF Removed(index) THEN "nothing"
                        ELSE IF SwitchedTo(index) THEN "pthread_cond_wait" ELSE RawName[inst]
      /\ Adjusted(inst) \subseteq AskedFor(index)
      /\ cmd.pass = "PosixCondWait" =>
           Adjusted(inst) = IF Given("tmod") /\ inst \notin InvokeInst /\ Adjustable(inst)
                            THEN AskedFor(index) ELSE {}

\* -rm takes each named occurrence and nothing else.  -switch of PosixCondWait
\* takes the named calls that are timed waits with three arguments, never an
\* invoke, that of CondWait takes nothing.  -tmod inserts code for a timed wait once for
\* every turn that names it, and that code adds, to each of the two fields, the value
\* the lists have at the position of the wait, whatever other turns inserted; but CondWait may
\* leave out any turn (the uninitialised error code, CondWait.cpp:337-353).  The value is
\* not the one at the place in -pos, as CondWait.cpp:67-69 and README.md:46-48 have it.
MutatedExactly ==
  Ran => \A index \in 0..(Calls!Size - 1) : AsAsked(index) /\ AmountsAsAsked(index)

\* What an instruction does to a field of a struct timespec: an inserted load reads it,
\* the addition works on what was loaded, the store writes it back.
Concerns(item, timespec, field) == item.field = field /\ TimespecOf[item.of] = timespec
After(s, item, timespec, field) ==
  IF ~Concerns(item, timespec, field) THEN s
  ELSE CASE item.step = "load"  -> [s EXCEPT !.reg[item.turn] = s.mem]
         [] item.step = "add"   -> [s EXCEPT !.reg[item.turn] = @ + item.val]
         [] item.step = "store" -> [s EXCEPT !.mem = s.reg[item.turn]]
         [] OTHER               -> s

\* What running a function from its first instruction to its last does to it, and what
\* was asked for.
Effect(body, timespec, field) ==
  LET state[n \in 0..Len(body)] ==
        IF n = 0 THEN [mem |-> 0, reg |-> [m \in 1..Len(cmd.pos) |-> 0]]
        ELSE After(state[n - 1], body[n], timespec, field)
  IN  state[Len(body)].mem
Requested(body, timespec, field) ==
  LET sum[n \in 0..Len(body)] ==
        IF n = 0 THEN 0
        ELSE IF body[n].step = "add" /\ Concerns(body[n], timespec, field)
             THEN sum[n - 1] + body[n].val ELSE sum[n - 1]
  IN  sum[Len(body)]

\* With at most one insertion point the changes of one struct timespec add up,
\* also when several waits share it: no insertion lands between the load and the
\* store of another.  With two -inspt values it can, and an addition is lost, because the second one
\* counts the instructions the first has inserted (getInstFromFunction).
NoUpdateLost ==
  Len(cmd.inspt) <= 1 =>
    \A f \in 1..Len(code), inst \in Inst, field \in {"sec", "nsec"} :
      Effect(code[f], TimespecOf[inst], field) = Requested(code[f], TimespecOf[inst], field)

\* A change is always reported to the pass manager; a reported one happened,
\* except that -tmod reports one whatever it skipped.
ReportsChanges ==
  Ran =>
    LET changed == \/ live # Inst
                   \/ \E f \in 1..Len(code) : Len(code[f]) # Len(Bodies[f])
    IN  (changed => modified) /\ (modified /\ ~Given("tmod") => changed)

-----------------------------------------------------------------------------
(* What the documentation says and the code does not do *)

\* CondWait.cpp:110-115: "Tells the pass to switch calls specified with -pos from
\* timedwait to wait."
SwitchesTimedWaits ==
  Ran /\ Given("switch") =>
    \A pos \in Handled :
      pos < Calls!Size /\ IsTimedWait(Calls!InstAt(pos)) /\ Args[Calls!InstAt(pos)] = 3 =>
        target[Calls!InstAt(pos)] = "pthread_cond_wait"
=============================================================================
