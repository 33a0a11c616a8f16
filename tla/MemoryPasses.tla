---------------------------- MODULE MemoryPasses ----------------------------
(***************************************************************************)
(* The six passes that mutate memory instructions in place: Load, Store,   *)
(* AtomicRMW, CompareExchange (CmpXchg), Fence and RmVolatileKeyword.      *)
(* Each collects the instructions it is about, then walks a list of        *)
(* positions given on the command line.  The first five were copied from   *)
(* each other; what differs between the copies is defined pass by pass.    *)
(***************************************************************************)
EXTENDS Integers, Sequences, SequencesExt, FiniteSets

CONSTANTS
  Programs,  \* modules to mutate: sequences of [kind, ordering, scope, volatile]
  Commands   \* command lines: [pass, flags, pos, order]

Passes == {"Load", "Store", "AtomicRMW", "CmpXchg", "Fence", "RmVolatileKeyword"}
Kinds == {"load", "store", "atomicrmw", "cmpxchg", "fence",
          "memcpy", "memmove", "memset"}
Orderings == {"not_atomic", "unordered", "monotonic", "acquire", "release", "acq_rel", "seq_cst"}
Scopes == {"single", "cross"}
Instruction == [kind : Kinds, ordering : Orderings, scope : Scopes, volatile : BOOLEAN]

\* The options each pass registers; "all" stands for -onlyatomic=false and
\* "listing" for -analyze with -verbose (-v): print lists what was collected.
Options(pass) ==
  CASE pass \in {"Load", "Store"}        -> {"toggle", "mod", "scope", "all", "listing"}
    [] pass \in {"AtomicRMW", "CmpXchg"} -> {"mod", "scope", "listing"}
    [] pass = "Fence"                    -> {"rm", "mod", "scope", "listing"}
    [] pass = "RmVolatileKeyword"        -> {"listing"}

ASSUME ProgramAssumption == Programs \subseteq Seq(Instruction)
ASSUME CommandAssumption ==
  \A cmd \in Commands :
    /\ cmd.pass \in Passes
    /\ cmd.flags \subseteq Options(cmd.pass)
    /\ cmd.pos \in Seq(Nat) /\ cmd.order \in Seq(Nat)

VARIABLES
  cmd,       \* the command line
  program,   \* the module as it was read (history)
  ir,        \* the module as it is now
  erased,    \* instructions that were erased from their parents
  insts,     \* the visitor's vector of instruction pointers
  i,         \* loop index into -pos
  modified,  \* what runOnModule is going to return
  fault,     \* the first undefined operation met
  pc         \* "args", "visit", the mode whose loop runs, "ran", or how it stopped

vars == <<cmd, program, ir, erased, insts, i, modified, fault, pc>>

Init ==
  /\ program \in Programs
  /\ cmd \in Commands
  /\ ir = program
  /\ erased = {}
  /\ insts = <<>>
  /\ i = 0
  /\ modified = FALSE
  /\ fault = "none"
  /\ pc = "args"

-----------------------------------------------------------------------------
(* checkCommandLineArgs *)

Given(flag) == flag \in cmd.flags

\* The modes exclude each other and need -pos, -mod needs -order, and no value
\* of -order may be larger than the pass knows.
ModeArgs(modes, largest) ==
  LET given == modes \intersect cmd.flags
  IN  /\ Cardinality(given) <= 1
      /\ given # {} => cmd.pos # <<>>
      /\ Given("mod") => cmd.order # <<>>
      /\ \A m \in 1..Len(cmd.order) : cmd.order[m] <= largest

LoadArgs    == ModeArgs({"toggle", "mod", "scope"}, 3)
StoreArgs   == ModeArgs({"toggle", "mod", "scope"}, 3)
RMWArgs     == ModeArgs({"mod", "scope"}, 4)
CmpXchgArgs == ModeArgs({"mod", "scope"}, 4)
FenceArgs   == ModeArgs({"rm", "mod", "scope"}, 3)

ArgsAccepted ==
  CASE cmd.pass = "Load"              -> LoadArgs
    [] cmd.pass = "Store"             -> StoreArgs
    [] cmd.pass = "AtomicRMW"         -> RMWArgs
    [] cmd.pass = "CmpXchg"           -> CmpXchgArgs
    [] cmd.pass = "Fence"             -> FenceArgs
    [] cmd.pass = "RmVolatileKeyword" -> TRUE

CheckCommandLineArgs ==
  /\ pc = "args"
  /\ pc' = IF ArgsAccepted THEN "visit" ELSE "exit"
  /\ UNCHANGED <<cmd, program, ir, erased, insts, i, modified, fault>>

-----------------------------------------------------------------------------
(* The visitors *)

IsAtomic(op) == op.ordering # "not_atomic"

VisitLoadInst(op)          == op.kind = "load" /\ (~Given("all") => IsAtomic(op))
VisitStoreInst(op)         == op.kind = "store" /\ (~Given("all") => IsAtomic(op))
VisitAtomicRMWInst(op)     == op.kind = "atomicrmw"
VisitAtomicCmpXchgInst(op) == op.kind = "cmpxchg"
VisitFenceInst(op)         == op.kind = "fence"
VisitVolatile(op)          == op.kind \notin {"fence", "memmove", "memset"} /\ op.volatile

Collected(op) ==
  CASE cmd.pass = "Load"              -> VisitLoadInst(op)
    [] cmd.pass = "Store"             -> VisitStoreInst(op)
    [] cmd.pass = "AtomicRMW"         -> VisitAtomicRMWInst(op)
    [] cmd.pass = "CmpXchg"           -> VisitAtomicCmpXchgInst(op)
    [] cmd.pass = "Fence"             -> VisitFenceInst(op)
    [] cmd.pass = "RmVolatileKeyword" -> VisitVolatile(op)

\* runOnModule tests the modes in this order; without a mode the first five
\* passes fall through to toggling scopes.
LoadMode    == IF Given("toggle") THEN "toggle" ELSE IF Given("mod") THEN "mod" ELSE "scope"
StoreMode   == IF Given("toggle") THEN "toggle" ELSE IF Given("mod") THEN "mod" ELSE "scope"
RMWMode     == IF Given("mod") THEN "mod" ELSE "scope"
CmpXchgMode == IF Given("mod") THEN "mod" ELSE "scope"
FenceMode   == IF Given("rm") THEN "rm" ELSE IF Given("mod") THEN "mod" ELSE "scope"

Mode ==
  CASE cmd.pass = "Load"              -> LoadMode
    [] cmd.pass = "Store"             -> StoreMode
    [] cmd.pass = "AtomicRMW"         -> RMWMode
    [] cmd.pass = "CmpXchg"           -> CmpXchgMode
    [] cmd.pass = "Fence"             -> FenceMode
    [] cmd.pass = "RmVolatileKeyword" -> "volatile"

\* The instructions, numbered by their place, that the visitor has still to reach
\* and will put into its vector
Ahead == {n \in 1..Len(program) :
            Collected(program[n]) /\ \A m \in 1..Len(insts) : insts[m] < n}

\* visit(M) calls the visitor for the instructions in their order, and the
\* visitor stores those it collects.
VisitInst ==
  /\ pc = "visit"
  /\ \E n \in Ahead : /\ \A other \in Ahead : n <= other
                      /\ insts' = Append(insts, n)
  /\ UNCHANGED <<cmd, program, ir, erased, i, modified, fault, pc>>

EndVisit ==
  /\ pc = "visit" /\ Ahead = {}
  /\ pc' = Mode
  /\ UNCHANGED <<cmd, program, ir, erased, insts, i, modified, fault>>

-----------------------------------------------------------------------------
(* The loops over the positions *)

CurIndex == cmd.pos[i + 1]

\* curIndex < getSize(), in Load, Store, AtomicRMW and CmpXchg
InBounds_Inclusive == CurIndex <= Len(insts)
InBounds == CurIndex < Len(insts)

\* Fence::indexOutOfBounds lets the index pass that equals the size
FenceInBounds == ~(Len(insts) < CurIndex)

\* getInst answers NULL past the end
FaultAt(index) == IF index >= Len(insts) THEN "null"
                  ELSE IF insts[index + 1] \in erased THEN "dangling" ELSE "none"

\* One iteration of the loop of `pass` that handles `mode`: a position out of
\* bounds is skipped with a warning; otherwise instruction `index` of the
\* vector is dereferenced and the module becomes `ir2`, less `gone`.
Iterate(pass, mode, inBounds, index, ir2, gone) ==
  /\ pc = mode /\ cmd.pass = pass /\ i < Len(cmd.pos)
  /\ fault' = IF inBounds THEN FaultAt(index) ELSE "none"
  /\ pc' = IF fault' = "none" THEN pc ELSE "fault"
  /\ i' = i + 1
  /\ IF inBounds /\ fault' = "none"
     THEN ir' = ir2 /\ erased' = erased \union gone
     ELSE UNCHANGED <<ir, erased>>
  /\ UNCHANGED <<cmd, program, insts>>

CurInst == insts[CurIndex + 1]
Updated(op) == [ir EXCEPT ![CurInst] = op]

\* toggleInstructions; an access that is not atomic is left as it is
NotAtomic(op) == [op EXCEPT !.ordering = "not_atomic"]
Toggle(pass) == Iterate(pass, "toggle", InBounds, CurIndex, Updated(NotAtomic(ir[CurInst])), {})

\* toggleScope
FlipScope_Single(op) == [op EXCEPT !.scope = "single"]
FlipScope(op) == [op EXCEPT !.scope = IF @ = "cross" THEN "single" ELSE "cross"]
ToggleScope(pass, inBounds) ==
  Iterate(pass, "scope", inBounds, CurIndex, Updated(FlipScope(ir[CurInst])), {})

\* unsignedToOrdering
LoadOrderings    == <<"unordered", "monotonic", "acquire", "seq_cst">>
StoreOrderings_Copied == LoadOrderings
StoreOrderings   == <<"unordered", "monotonic", "release", "seq_cst">>
RMWOrderings     == <<"monotonic", "acquire", "release", "acq_rel", "seq_cst">>
CmpXchgOrderings == <<"monotonic", "acquire", "release", "acq_rel", "seq_cst">>
FenceOrderings   == <<"acquire", "release", "acq_rel", "seq_cst">>

OrderingNames ==
  CASE cmd.pass = "Load"      -> LoadOrderings
    [] cmd.pass = "Store"     -> StoreOrderings
    [] cmd.pass = "AtomicRMW" -> RMWOrderings
    [] cmd.pass = "CmpXchg"   -> CmpXchgOrderings
    [] cmd.pass = "Fence"     -> FenceOrderings

\* modifyInstructions, getOrdering: -order is read at the position of the
\* instruction, not at the position's place in -pos; past its end the last value.
OrderAt(index) == cmd.order[IF index < Len(cmd.order) THEN index + 1 ELSE Len(cmd.order)]
SetOrdering(index) ==
  IF OrderAt(index) < Len(OrderingNames) THEN OrderingNames[OrderAt(index) + 1]
  ELSE IF cmd.pass = "Fence" THEN "acquire" ELSE "unordered"
Modify(pass, inBounds) ==
  Iterate(pass, "mod", inBounds, CurIndex,
          Updated([ir[CurInst] EXCEPT !.ordering = SetOrdering(CurIndex)]), {})

MutateLoad ==
  /\ \/ Toggle("Load")
     \/ ToggleScope("Load", InBounds)
     \/ Modify("Load", InBounds)
  /\ UNCHANGED modified

MutateStore ==
  /\ \/ Toggle("Store")
     \/ ToggleScope("Store", InBounds)
     \/ Modify("Store", InBounds)
  /\ UNCHANGED modified

MutateAtomicRMW ==
  /\ ToggleScope("AtomicRMW", InBounds) \/ Modify("AtomicRMW", InBounds)
  /\ UNCHANGED modified

MutateCmpXchg ==
  /\ ToggleScope("CmpXchg", InBounds) \/ Modify("CmpXchg", InBounds)
  /\ UNCHANGED modified

\* removeInstructions erases without taking the pointer out of the vector
MutateFence ==
  /\ \/ Iterate("Fence", "rm", FenceInBounds, CurIndex, ir, {CurInst})
     \/ ToggleScope("Fence", FenceInBounds)
     \/ Modify("Fence", FenceInBounds)
  /\ UNCHANGED modified

\* The position is checked, but the instruction taken is number i of the
\* vector, if there is one; a memcpy is collected but never changed, and
\* `modified` is what the last instruction taken left in it.
RemoveVolatile ==
  LET taken == InBounds /\ i < Len(insts)
      op == ir[insts[i + 1]]
  IN  /\ Iterate("RmVolatileKeyword", "volatile", taken, i,
                 [ir EXCEPT ![insts[i + 1]].volatile = op.kind = "memcpy"], {})
      /\ modified' = IF taken THEN op.kind # "memcpy" ELSE modified

\* The first five passes report a change whatever they did.
FinishLoop ==
  /\ pc = Mode /\ i >= Len(cmd.pos)
  /\ modified' = (modified \/ cmd.pass # "RmVolatileKeyword")
  /\ pc' = "ran"
  /\ UNCHANGED <<cmd, program, ir, erased, insts, i, fault>>

\* print, under -analyze: the verbose listing follows every pointer
PrintInsts ==
  /\ pc = "ran"
  /\ fault' = IF Given("listing") /\ ToSet(insts) \intersect erased # {} THEN "dangling" ELSE "none"
  /\ pc' = IF fault' = "none" THEN "done" ELSE "fault"
  /\ UNCHANGED <<cmd, program, ir, erased, insts, i, modified>>

Stopped == pc \in {"exit", "done", "fault"}
Terminated == Stopped /\ UNCHANGED vars

Next ==
  \/ CheckCommandLineArgs \/ VisitInst \/ EndVisit
  \/ MutateLoad \/ MutateStore \/ MutateAtomicRMW \/ MutateCmpXchg \/ MutateFence
  \/ RemoveVolatile
  \/ FinishLoop \/ PrintInsts \/ Terminated

Spec == Init /\ [][Next]_vars

-----------------------------------------------------------------------------
(* Properties *)

TypeOK ==
  /\ program \in Programs /\ cmd \in Commands
  /\ ir \in Seq(Instruction) /\ Len(ir) = Len(program)
  /\ erased \subseteq 1..Len(program)
  /\ insts \in Seq(1..Len(program))
  /\ i \in 0..Len(cmd.pos)
  /\ modified \in BOOLEAN
  /\ fault \in {"none", "null", "dangling"}
  /\ pc \in {"args", "exit", "visit", "toggle", "mod", "scope", "rm", "volatile",
             "ran", "done", "fault"}

\* The positions handled so far
Handled == {cmd.pos[m] : m \in 1..i}

\* The only ways to an undefined operation: the position that equals the number
\* of fences, a fence erased twice, and a verbose listing after erasing.  The
\* other passes never reach one, whatever positions they are given
\* (indexOutOfBounds, getInst and the loops of the six passes).
FaultsExplained ==
  fault # "none" =>
    /\ cmd.pass = "Fence"
    /\ \/ fault = "null" /\ Len(insts) \in Handled
       \/ /\ fault = "dangling" /\ Given("rm")
          /\ \/ Given("listing")
             \/ \E m, n \in 1..i : m < n /\ cmd.pos[m] = cmd.pos[n]

\* What the verifier that opt runs after the pass asks of an instruction.
Verifies(op) ==
  CASE op.kind = "load"  -> IF IsAtomic(op) THEN op.ordering \notin {"release", "acq_rel"}
                            ELSE op.scope = "cross"
    [] op.kind = "store" -> IF IsAtomic(op) THEN op.ordering \notin {"acquire", "acq_rel"}
                            ELSE op.scope = "cross"
    [] op.kind = "fence" -> op.ordering \in {"acquire", "release", "acq_rel", "seq_cst"}
    [] op.kind \in {"memcpy", "memmove", "memset"} -> TRUE
    [] OTHER             -> op.ordering \notin {"not_atomic", "unordered"}

\* No mutant is rejected by the verifier, with two exceptions: -toggle keeps the
\* scope of a single-threaded access, and -scope under -onlyatomic=false gives a
\* scope to an access that is not atomic (unsignedToOrdering against the limit
\* checkCommandLineArgs puts on -order, pass by pass).
MutantsVerify ==
  \A n \in 1..Len(ir) :
    Verifies(program[n]) /\ ~Verifies(ir[n]) =>
      \/ Given("toggle") /\ program[n].scope = "single"
      \/ ~Given("mod") /\ Given("all") /\ ~IsAtomic(program[n])

\* How often the loop has handled the position of instruction n
Times(n) == Cardinality({m \in 1..i : cmd.pos[m] < Len(insts) /\ insts[cmd.pos[m] + 1] = n})
IndexIn(n) == CHOOSE index \in 0..(Len(insts) - 1) : insts[index + 1] = n

\* What the mode makes of instruction n in the first five passes: the ordering is
\* the one -order gives at the index of the instruction
Expected(n) ==
  IF Times(n) = 0 \/ Given("rm") THEN program[n]
  ELSE IF Given("toggle") THEN [program[n] EXCEPT !.ordering = "not_atomic"]
  ELSE IF Given("mod") THEN [program[n] EXCEPT !.ordering = SetOrdering(IndexIn(n))]
  ELSE IF Times(n) % 2 = 0 THEN program[n]
  ELSE [program[n] EXCEPT !.scope = IF @ = "cross" THEN "single" ELSE "cross"]

\* The turns of RmVolatileKeyword that reach instruction n: turn m tests the m-th
\* position and takes the m-th instruction
Reaches(m, n) == cmd.pos[m] < Len(insts) /\ m <= Len(insts) /\ insts[m] = n

\* What RmVolatileKeyword makes of instruction n; a memcpy keeps its keyword
Unkeyed(n) ==
  [program[n] EXCEPT !.volatile = @ /\ \A m \in 1..i : Reaches(m, n) => program[n].kind = "memcpy"]

\* What the loops over the positions, with the repeated and the skipped ones, do
\* to each instruction, and that they do nothing to the others: the scope is
\* flipped when the position was named an odd number of times; the ordering is the
\* one -order has at the position itself, however often it is named, and not the one at
\* the position's place in -pos, as Load/README.md:52-56 and Load.cpp:49 have it;
\* the keyword goes from the first instructions, one per position in bounds, and not
\* from those that are named, as RmVolatileKeyword/README.md:113-117 has it
\* (toggleScope, modifyInstructions, toggleInstructions, removeInstructions of
\* the five passes, RmVolatileKeyword::runOnModule).
MutatedExactly ==
  pc \in {"ran", "done"} =>
    /\ erased = IF Given("rm") THEN {n \in ToSet(insts) : Times(n) > 0} ELSE {}
    /\ \A n \in 1..Len(ir) :
         ir[n] = IF cmd.pass = "RmVolatileKeyword" THEN Unkeyed(n) ELSE Expected(n)
=============================================================================
