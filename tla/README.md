# A formal model of CCMutator

CCMutator is a mutation generator for concurrency constructs: a set of LLVM 3.2
`opt` passes that enumerate occurrences of synchronisation operations in a
module and remove, replace, swap, move or split those whose positions are given
on the command line, plus a small program (`combinations`) and shell scripts that
produce the lists of positions. This directory holds TLA+ modules of its parts,
the TLC configurations that check them and TLAPS proofs about them.

## 1. The system

Paths are relative to `src/lib/ccmutate/` unless they start with `src/`.

The tool is sequential, keeps nothing on disk and has no timeouts. What makes it
hard is *pointer state*: every pass first collects pointers to instructions, then
walks a list of positions that a user chose freely (repeated, out of bounds, of
the wrong length) and mutates the module under its own pointers. A run of a pass
is

    checkCommandLineArgs -> enumerate -> one loop over -pos -> return `modified`
                                                            -> print (with -analyze)

| component | state | operations | hard behaviour |
|---|---|---|---|
| `Tools/EnumerateCallInst`, `Tools/RemoveInst` | names searched for; vectors of calls and invokes; set of deleted indices; the module | `addFuncNameToSearch`, `searchCpp`, `visit`, `isValidIndex`, `getInstructionAt`, `removeFromParent`, `removeFromParentRepZero`, `replaceInstWithInst`, `markMutated`, `printInstDebugInfo` | erased pointers stay in the vectors; uses of an erased call; an invoke ends its block |
| `Tools/LockUnlockPairs`, `Tools/FuncLocalLockCalls` | mutex calls by function; pairs by function | `enumerate`, `getPair`, `printDebugInfo`, `calcDistanceBetween` | loops over unsigned sizes; numbering of functions and pairs; pairs that share calls |
| `PosixLock` | the pairs; a set of calls to erase; the module; `modified` | `-rm`, `-swap`, `-shift`, `-split`, print | stale pairs after a swap, shared calls, distances counted while instructions are inserted and erased, list lengths |
| `Load`, `Store`, `AtomicRMW`, `CompareExchange`, `Fence` | vector of instructions; their ordering and scope | `-toggle`, `-mod`, `-scope`, `-rm` (Fence), print | copies of one program that differ in small ways: bounds, tables, limits |
| `RmVolatileKeyword` | vector of volatile instructions | `-rmpos`, print | index confusion, `modified` overwritten |
| `src/combinations` | n, k, the current combination | parse, first, next | write below the array, carry, argument forms |
| `ThreadJoin`, `PosixJoin`, `PosixYield`, `PosixCondSignal`, `PosixSemaphore` | an `EnumerateCallInst` | `-rm`, `-rep`, ... | protocol with `EnumerateCallInst`; positions of invokes used as positions of calls |
| `CondWait`, `PosixCondWait` | an `EnumerateCallInst`; lists of time values and insertion points | `-rm`, `-switch`, `-tmod`, print | an error code read uninitialised, list indices, replaced calls kept, code inserted at places that are counted while code is inserted |
| `Mutex` and its `LockUnlockPairs` | four vectors of pairs (lock and unlock each a call or an invoke) | as `PosixLock` | as `PosixLock`, and the dispatch over kinds, invokes that end blocks, unlocks before their lock |
| `src/scripts` | counts printed by a pass, lines printed by `combinations` | loops over kinds, sizes, lines | sizes and largest indices, words of a listing |
| `Tools/FileInfo`, `ItaniumDemangle`, `AliasResultToString`, `IRtoModule`, `FindLockUnlockPairs` | none | formatting, demangling, reading | - |

Interaction: the passes call the enumerators (`EnumerateCallInst`,
`LockUnlockPairs`, the visitors) and share with them the module that they mutate.
Nothing is told to an enumerator when its instructions are erased, except through
`deletedIndices`. The scripts run a pass once to count, then `combinations`, and the pass
again for each line `combinations` prints.

What makes each component correct:

- **EnumerateCallInst**: no operation follows a pointer to an erased instruction;
  the code returned tells what was done; the module stays well formed (no use
  of an erased value, one terminator in each block).
- **LockUnlockPairs**: the pairs are exactly the lock calls with the later unlock
  calls of the same mutex in the same function, numbered as the command line
  expects, and the loops end.
- **PosixLock**: `-rm` removes the named calls and nothing else; `-swap`
  exchanges the named operations; `-shift` and `-split` put the call where the
  documentation counts to; nothing outside the named pairs moves; no erased call
  is used; argument lists are never read past their ends.
- **combinations**: all k-element choices, once, in order; nothing but the last
  call touches memory below the array; no missing option value is converted.
- **call passes**: the registry tells exactly what was changed in the module,
  whoever changed it; a change is reported to the pass manager; the set of positions, not
  their order or repetition, decides the mutant; a position is looked up where the class
  put it (calls first, then invokes).
- **condition-wait passes**: as the call passes; and the code `-tmod` inserts adds every
  requested amount to the `struct timespec`, also when waits share one.
- **Mutex**: as `PosixLock`, for each kind of pair; every block keeps one terminator and
  its other instructions; a change is reported.
- **scripts**: one file for each mutant of a certain order, none twice.
- **memory passes**: each instruction ends with what its mode promises, however
  positions are repeated; orderings are legal for the instruction; nothing
  undefined happens.

## 2. Modules

| module | models | actions and their code |
|---|---|---|
| `OccurrenceSet` | what the class does for its clients: positions, calls before invokes, each mutated at most once, and the one code that answers each request. The codes are those of `EnumerateCallInst.cpp`; what the header says otherwise is listed below | `Enumerate`, `OutOfBounds` (-1), `AlreadyMutated` (-2), `Mutate` (0), `Decline` (1 for an invoke, -3 for a call in use, only from `removeFromParent`), `Inspect` |
| `EnumerateCallInst` | `EnumerateCallInst.cpp` and `RemoveInst.cpp` | one action per member function; `Erase`, `ReplaceUsesAndErase` stand for LLVM |
| `InstList` (used by `PosixLock`, `MutexPass`) | the part of LLVM's instruction lists the passes use: bodies, insertion, erasure, use after erasure as a fault | operators on a record `[body, op, freed, fault]` |
| `Subsequences` (used by `LockPairing`, `MutexPairs`) | a loop that appends what it looks for to a vector | `Kept` |
| `LockPairing` | which calls pair up: the definition | `PairsOf`, `FuncPairs` |
| `LockUnlockPairs` | the visitors `FuncLocalLockCalls` and `LockUnlockPairs::enumerate`, loop by loop | `SearchInst`, `CloseFunction`, `SearchDone`, `EnterFunction`, `SkipFirst`, `TakeLock`, `CompareCalls`, `NextFirst`, `LeaveFunction`, `VisitDone` |
| `PosixLock` (uses `InstList`, `LockPairing`) | `PosixLock.cpp` | `Visit`, `CheckCommandLineArgs`, one action per iteration and outcome of the loops (`CollectPair`, `EraseNext`, `SwapPairs`, `ShiftPair`, `SplitPair` and the `Skip...` branches), `FinishLoop`, `PrintPairs` |
| `Combinations` | `combinations.cpp` | `ParseCommandLine`, `FirstCombination`, `IncrementLast`, `Carry`, `PrintNext` (with `Refill`), `NoMoreCombinations` |
| `MemoryPasses` | `Load.cpp`, `Store.cpp`, `AtomicRMW.cpp`, `CmpXchg.cpp`, `Fence.cpp`, `RmVolatileKeyword.cpp` and their visitors | `CheckCommandLineArgs`, `VisitInst` (the visitor stores the next instruction it collects), `EndVisit`, one `Mutate...` per pass (an iteration of its loops), `RemoveVolatile`, `FinishLoop`, `PrintInsts` |
| `CallPasses` (an instance `Calls` of `EnumerateCallInst`) | `ThreadJoin.cpp`, `PosixJoin.cpp`, `PosixYield.cpp`, `PosixCondSignal.cpp`, `mutate_PosixSema.cpp` | `CheckCommandLineArgs`, `Search` (the calls of `addFuncNameToSearch`, `searchCpp`, `visit`), `StartLoop`, one action per loop body: `RemoveThreadJoin`, `RemovePosixJoin`, `RemoveCondSignal`, `RemoveYield`, `PosixJoinReplace`, `ThreadJoinReplace`, `CondSignalReplace`, `SemaModify`; `FinishLoop`, `PrintResult` |
| `CondWaitPasses` (an instance `Calls` of `EnumerateCallInst`) | `CondWait.cpp`, `PosixCondWait.cpp` | `CheckCommandLineArgs`, `Search`, `StartLoop`, one action per loop body: `RemoveWait`, `ModifyTime`, `SwitchWait`, `SkipPosition` (`isValidIndex` and `getInstructionAt` refuse); `FinishLoop`, `PrintResult` |
| `MutexPairs` | `Mutex/LockUnlockPairs.cpp`: which instructions match, which pair up, the four vectors | `FindPairs`, `PairsFrom`, `IsLockUnlockPair`, `MutexInsts` |
| `MutexPass` (uses `InstList`, `MutexPairs`) | `Mutex.cpp` | `CheckCommandLineArgs`, `EnumerateFunction`, `CollectPair`, `StartErasing`, `EraseNext`, `SwapPairs`, `ShiftPair`, `SplitPair` and their `Skip...` branches, `FinishLoop`, `PrintPairs` |
| `MutantScripts` (an instance of `Combinations`) | `mutate_rmMutex.sh`, `mutate_swapMutex.sh`, `mutate_rmPosixCondSignal.sh` | `Analyze`, `RunCombinations` (starts the program), `Combine` (a step of it), `ReadOutput`, `WriteMutant`, `NextSize`, `NextKind` |
| `MC...` | instances for TLC | |
| `..._proofs` | inductive invariants, lemmas and theorems | |

How the state corresponds to the code:

- **Instructions** are numbers or model values; a pointer is the instruction
  itself, and a set (`live`, `ir.freed`, `erased`) says whether its memory is
  still there. Following a pointer to an erased instruction is recorded
  (`dangling`, `fault`) and, in the passes, ends the behaviour: what follows is
  undefined.
- **Vectors** are sequences (indices of the code plus one). `deletedIndices` is a
  set of numbers. `std::set` is a set, erased in any order, because its order is
  that of addresses.
- **unsigned and int** are natural numbers and integers; where the width matters it
  is modelled: `LastCall` takes `size - 1` modulo `UIntMax + 1`, `ToInt` converts
  modulo `2 * (IntMax + 1)`.
- **Command lines** are constants: records with a set of flags and lists of
  numbers, in `Combinations` a sequence of words of which only the option and the
  numbers they convert to are kept. The module that is mutated is a constant
  too. `Init` chooses one of each.
- **Alias analysis** is equality of the mutex operand; a call without operand
  aliases nothing. **Demangling** gives an instruction a second name.
- **Blocks**: in `MutexPass` a body lists the instructions of all blocks of a function, and
  a block ends at an invoke or a branch; so an erased invoke needs a branch in its place.
- **Inserted code**: the load, add and store that `-tmod` inserts are items of the body of
  the function (`code`), each with the turn it belongs to; the effect of a body on a
  `struct timespec` is a fold over its items (`Effect`).
- Warnings and debug output are left out; a branch that only warns is a step that
  advances the loop.
- A definition named after another one with a suffix, such as `Swapped_OwnLock`, is not
  part of any specification: it is a plausible wrong version of that definition, kept
  to see that a property notices it.

### Assumptions about LLVM

`ReplaceInstWithInst`, `eraseFromParent`, insertion before an iterator and
`replaceAllUsesWith` are modelled from their use: an erased instruction leaves its
list and may not be followed, the replaced one is gone. `MutantsVerify` states the
verifier's rules for orderings and scopes.

## 3. Runs

All runs are exhaustive. `CHECK_DEADLOCK FALSE` appears only in
`EnumerateCallInst.cfg`: there the clients may stop calling; every other module
ends in an explicit `Terminated` step.

| run | checks | instance, and why it is enough |
|---|---|---|
| `EnumerateCallInst` | `MutatorsNeverDangle`, `ErasedIsDeleted`, `NoUseOfErased`, `OneTerminator`, `ImplementsOccurrenceSet` | five instructions: calls and invokes in both vectors, one indirect, one found only when demangled, one used by another occurrence and one by other code; every sequence of operations on every index, in bounds and out. All operations touch one index, so two occurrences of each kind show all interference |
| `PosixLock` | `FaultsExplained`, `RemoveExact`, `OthersUntouched`, `SwapExact`, `SplitStaysInside`, `ShiftLandsBefore`, `SplitPlaced` | four modules: two pairs sharing a lock, two sharing an unlock with a call without operand, nested pairs, pairs in two functions with a function without pairs between; up to three positions for `-rm`, two groups for `-swap`, two pairs for `-shift` and `-split`; distances that stay inside, reach the ends and leave them, unsigned values beyond `INT_MAX` (15); every subset of the modes with lists of every length up to 4 (`-pos`), 1 (`-lockdir`, `-unlockdir`) and 3 (`-splitpos`): each length just below, at and above the groups the loops read |
| `LockUnlockPairs` | `NeverNull`, `PairsExact`, `VisitComputesFuncPairs` | every function with up to four instructions over two mutexes, and programs of two and three short functions with empty ones at every place; `UIntMax` is larger than any size, so a wrapped subtraction is visible |
| `Combinations` | `AllPrinted`, `UnderflowOnlyAtEnd`, `NoNullConverted`, `InOrder`, `Terminates` | all n up to 5 with all k, and n = 6, which is too large for an `int` of at most 6; the forms of the command line: options present or not, with and without value, negative, zero, at the end |
| `MemoryPasses` | `FaultsExplained`, `MutantsVerify`, `MutatedExactly` | one module with two or three instructions of each kind that differ in ordering, scope and volatility; every set of modes, every list of up to three positions over in-bounds, size and beyond, orders shorter and longer than the positions and above the limits. 81 806 states |
| `CallPasses` | `FaultsExplained`, `RegistryExact`, `ReportsChanges`, `MutatedExactly`, `ClassInvariantsKept` | one module of 16 instructions in which each pass finds two to four occurrences: calls and at least one invoke for `ThreadJoin`, `PosixYield`, `PosixCondSignal` and `PosixSema`, used and unused, with too few and enough arguments, an indirect call; every mode with and without `-analyze -verbose`; every list of up to two positions 0..4 (4 is always out of bounds) and lists of three with every repetition pattern; permit counts below, at and above `SemValueMax` (3), lists of them shorter than, as long as and longer than the positions |
| `CondWaitPasses` | `FaultsExplained`, `MutatedExactly`, `NoUpdateLost`, `ReportsChanges` | two functions with four timed waits (two share a `struct timespec`, one has too few arguments, one is an invoke), a wait and a C++ wait; three elements of `struct.timespec`: 1, 2, or no such type; each pass and library with `-rm` and `-switch` over lists that repeat, interleave and leave the bounds, `-tmod` with lists of values and insertion points shorter and longer than the positions, inside the function, behind what was inserted and beyond the end; every choice of modes. 22 340 states |
| `MutexPass` | `PairsExact`, `FaultsExplained`, `RemoveExact`, `SwapExact`, `BlocksKept`, `ReportsChanges`, `SplitPlaced` | four modules: one with pairs of all four kinds that share lock and unlocks, one with four pairs of invokes of one mutex, one with C++11 operations that have uses, an unlock before its lock and two libraries on one mutex, one with wrong numbers of operands; all pairs of positions over seven (kind, number), some that name nothing; one and two groups of `-swap`; shifts by distances to, at and beyond both ends; split values 0, 1, 2, 3 and `IntMax + 1`; every choice of modes with lists of every length up to 4. 35 049 states |
| `MutantScripts` | `MutantsExact` | the three scripts on up to five pairs of kind 0, none or two of kind 1, none, one or four of kind 3: modules without pairs, with pairs of one kind, of a later kind only, of several, all within an `int` of at most 6; the counts lie on both sides of every size of a group (two and four for `-swap`). 4 452 states |

What the properties say, beyond their names:

- `MutatorsNeverDangle` leaves out `printInstDebugInfo`, which does follow erased
  pointers when it runs after a mutation. Of its callers `PosixYield` refuses `-rm`
  with `-verbose`; the other two are the condition-wait passes.
- `FaultsExplained` of `PosixLock` names the causes of every undefined operation, mode by mode:
  `-shift` past the end of a function (`DownPastEnd`), up from its first instruction
  (`UpFromTop`) or of a call that was shifted before (`MovedTwice`); `-swap` when the groups
  name a call twice, through whatever pair; `-split` with a value that is negative as an
  `int`; the verbose listing of calls that were erased (`PrintsErased`). `-rm` has no other, and no
  accepted command line reads a list past its end. `SwapExact` holds when no call is named twice;
  `PosixLockSwapTwice` shows why.
- `SplitStaysInside` assumes values that fit an `int`. Nothing is then put behind the unlock
  call; and nothing above the lock call when no value is 0, since the position 0 is before it.
- `OthersUntouched` and `ShiftLandsBefore` say nothing of a step that faults; those steps are
  what `FaultsExplained` is about.
- `FaultsExplained` of `MemoryPasses` is exact about the undefined behaviour that is
  there: Fence at the position equal to the size, a fence erased twice, a verbose
  listing after erasing. The other five passes have none, for any list.
- `FaultsExplained` of `CallPasses` names four causes: `PosixCondSignal -rep` and
  `PosixSema -mod` take the position of an invoke for an index into the vector of
  calls; `ThreadJoin -rep` casts a plain call of `std::thread::join` to an invoke;
  a verbose listing follows the calls that `PosixJoin` or `PosixCondSignal` erased.
- `ReportsChanges` excepts `PosixYield` in one direction: it takes the answers 1 and
  -3 of `removeFromParent` for a change and starts from an uninitialised flag.
- `MutatedExactly` of `CallPasses` includes that the n-th value of `-val` goes with the
  n-th position even when positions before it were skipped.
- `FaultsExplained` of `CondWaitPasses` names every cause: for `-tmod` a list of seconds
  shorter than the list of nanoseconds, an insertion point beyond the function, a
  `struct.timespec` of fewer than two elements; for `-switch` of `PosixCondWait` a timed
  wait named twice or listed afterwards. `-rm` has none.
- `NoUpdateLost` runs the inserted code: what the loads, adds and stores of a function leave in a
  `struct timespec` is the sum of what was asked for. It holds with at most one `-inspt`.
  With two it does not: the second counts the instructions the first has inserted, and
  its load can come between the load and the store of the first.
- `MutatedExactly` of `CondWaitPasses` includes the amounts: a turn that inserts code for a wait
  adds to each field the value that the lists have at the position of the wait. It lets
  `CondWait -tmod` leave out any turn: the error code it tests is uninitialised when the
  instruction was found.
- `MutatedExactly` of `MemoryPasses` states what the loops do, for all six passes; where the
  documentation describes something else (`-order`, `-rmpos`), the comment and the list below say so.
- `AllPrinted` and its siblings are about numbers that fit an `int`. With larger ones `next_comb`
  is called with values cut off, and the model stops there (`narrowed`).
- `FaultsExplained` of `MutexPass` tells apart a missing pair (only `-shift` follows it), the end of
  a function (a shift downwards; a split with a value that does not fit an `int`, or of a
  pair whose unlock comes first) and an erased instruction (a verbose listing, groups that
  share an instruction, a shift upwards). Unlike `PosixLock`, one swap of two pairs is safe
  whatever they share.
- `BlocksKept` says of all modes that blocks and their terminators stay, with all
  instructions no pair names in their block and order.
- `PairsExact` of `MutexPass` includes pairs whose unlock comes before the lock: the pass
  pairs in either order.
- `MutantsExact` states what the scripts write: every proper subset of the pairs of the first kind
  that has any, of even size for `-swap`, each once.
- `MutantsVerify` names two ways to a module the verifier rejects: `-toggle` on a
  single-threaded access keeps the scope, and the hidden `-onlyatomic=false` lets
  `-scope` give one to a non-atomic access.

### Disagreements between code and documentation

Each run below checks one sentence of the repository, and TLC finds a
behaviour of the code that contradicts it.

| run | sentence | what happens |
|---|---|---|
| `PosixLockSwapTwice` | `PosixLock/README.md:104-105`, swapping the same pair twice "is essentially a no-op" | the pairs still point at the calls the first swap erased |
| `CondWaitSwitch` | `CondWait.cpp:110-115`, `-switch` "Tells the pass to switch calls specified with -pos from timedwait to wait" | the name compared with ends in a parenthesis, so no call is switched |
| `MutexInvokePairs` | `Mutex.cpp:1270-1272`, `getGenericPair` "Returns a pointer to the LockUnlock pair at pos1 and pos2" | a pair of two invokes is looked up by its kind, 3, instead of its number |

Other places where the code does not do what is written about it are part of the models.
The properties state what the code does there, with the sentence beside them:

- `EnumerateCallInst.h:66-76` gives `removeFromParent` the codes 0, -1, -2 and -3, the last "if the
  instruction to remove has more than 1 use". The code returns 1 for an invoke
  (`EnumerateCallInst.cpp:300`) and -3 for any use (304-309). `OccurrenceSet` has the codes of the code.
- `PosixLock/README.md:160-171` counts both `-splitpos` values from the lock call. With the unlock
  position 0 the lock goes one instruction too far (`PosixLock.cpp:411`).
- `Load/README.md:52-56` (and `Load.cpp:49`) gives an element of `-order` "for each position specified
  with `-pos`". The element is looked up at the position itself (`Load.cpp:157`).
- `RmVolatileKeyword/README.md:113-117` removes the third occurrence with `-rmpos=2`. The code takes
  the instruction at the loop counter, the first (`RmVolatileKeyword.cpp:72`).
- `PosixCondSignal/README.md:60-61` says that "Specifying the same position twice will result in a
  runtime error". The class refuses it and the pass goes on with a warning
  (`EnumerateCallInst.cpp:191-196`).
- `PosixSemaphore/README.md:64-65` says that "Values must be less than `SEM_VALUE_MAX`". The
  maximum is accepted and a larger value becomes the maximum (`mutate_PosixSema.cpp:108-112`).
- `CondWait.cpp:67-69` and `CondWait/README.md:46-48` give the n-th value to the n-th position of `-pos`.
  The lists are indexed with the position (`CondWait.cpp:355`), and an error code that nobody
  set can skip a wait (345-353).
- `CondWait/README.md:55-56` says that the two lists "need not be the same size". A shorter list of
  seconds is read past its end (`CondWait.cpp:239`).
- By `CondWait/README.md:46-48` and `64-69` every value is added to its wait. With two values of
  `-inspt` the second code can come inside the first, whose addition is then lost
  (`CondWait.cpp:215`).
- `Mutex -split` treats an unlock position 0 as `PosixLock` does (`Mutex.cpp:568`). `SplitPlaced` of
  both passes is about positions from 1. Its proof showed one more premise: a second value
  that does not fit an `int` passes the distance test as a negative number and is counted as an
  unsigned one; it faults at the end of the function unless that has more than `INT_MAX`
  instructions.
- `Fence` takes the position equal to the size for one in bounds (`Fence.cpp:189`; the comment
  at line 100 says "non NULL since position is in bounds").
- `combinations.cpp:7-9` and `16-18` speak of "n pick k"; the numbers are those of 0..n, as its line
  40 says.
- `src/README.md:22-23` speaks of scripts that generate all combinations of mutants. The group of all
  pairs is never made, nor a mutant of any kind but the first that has pairs, nor a swap
  of pairs of invokes; and the script for condition variables uses an option the pass does not
  have (`PosixCondSignal.cpp:31-34`), so it writes empty files.

### Fairness

`Combinations` has `WF_vars(Next)`: a single thread that runs until it stops. It is used
for `Terminates`, the one loop whose end is not evident: the outer loop ends when
`next_comb` says so. The loops of all other programs advance an index in every action, by
construction of the model, so they state no fairness; and nothing obliges a pass to
call `EnumerateCallInst`.

## 4. Proofs

TLAPS proves the following for every value of the constants that meets the
assumptions of the module (any module to mutate, any command line, any n and k).

- **`EnumerateCallInst_proofs`**. The inductive invariant adds to the type
  invariant that the pointers in the two vectors are distinct and in range
  (`PointersDistinct`, `DeletedInRange`), what the end of a block can look like
  (`TailShape`), and the properties themselves. Distinctness is what makes the
  argument work: an instruction is erased together with its own index, so an
  accepted index (`isValidIndex`) points at an instruction that is still there
  (`AcceptedIsLive`). `Refinement` shows that every step is a step of
  `OccurrenceSet` or a stutter, with `size` mapped to the two lengths and
  `mutated` to `deletedIndices`.
- **`PosixLock_proofs`**. `ArgsGuard` rests on the parity that the argument check
  establishes and each loop keeps (the index is a multiple of the width of a
  group). `RemoveIsSafe`: the calls to erase are those of a set, and those not
  yet reached are still there. `DisjointSwapIsSafe`: as long as no call is named
  twice, the calls of the groups still ahead of the loop are not freed.
  `FaultsAreExplained` joins these with an invariant for what they leave open,
  `CauseInv`: only the modes that erase have erased, a shift has erased only what groups
  before it moved, and an instruction that no group has moved has around it what it had. So the
  place where a shift faults (`ShiftFault`) can be told from the module as it was read
  (`ShiftExplained`): a call moved before, no room above (`UpFromTop`) or below (`RoomBelow`).
  The `Exact` properties need the contents of every function. `OrderInv` says that the
  instructions that were read and not erased are in their function, in the order
  they had (`Leads` is the same of one operation: what it erases, and that all others
  keep their order), and that only calls of named pairs were erased; `ErasedInv` which ones
  exactly: under `-rm` the pairs of the positions handled, and no new instruction. Both are
  inductive relative to `IInv` (`OrderIsKept`), and since two increasing sequences with the
  same elements are equal, `RemovesExactly` and `OthersStay` are read off them. `-split`
  adds `StaysInv`: with one pair named and positions that fit an `int` the module has no
  fault and what lies behind the unlock call is what lay there (`SplitsInside`), and what lies above the lock call too if no value is 0; both insertions
  are then in front of the unlock call, because the second is placed by the corrected position
  (`SplitInside`). `-swap` adds `SwapPlaces`: a place of a call of a group already swapped
  holds a new instruction with the operation of the partner, every other place what it held.
  That groups share no call is what lets a turn find its four calls untouched
  (`SwapPairsPlaces`, `SkipPlaces`).
  `ShiftsWhereAsked` and `SplitsWhereAsked` are action properties. Both compute the places of
  the insertions from the place of the call (`ShiftLands`, `SplitLands`; `TwoInserted` for two
  insertions in any order), and read off what comes next. For that a new instruction must be
  told from all others, which is the invariant `CountInv`: no body has an instruction newer than the last
  one made (`NoneIsNewer`), because every operation that inserts makes its copies first (`Room`).
- **`LockUnlockPairs_proofs`**. The invariant describes what the scans have
  gathered so far: the calls of a function up to the current instruction, the
  pairs up to the current pair of loop indices. `CallsNeverNull` follows from it
  because no closed function has an empty list, so `size - 1` never wraps;
  `PairsAreExact` reads off the invariant at the end of the loops. `VisitIsExact` joins this
  component to `PosixLock`, whose `Visit` takes the answer in one step: with `FuncsInv`
  (the functions counted are those with calls, in order) the calls and the pairs found
  have the same elements in the same order as `FuncPairs` (`AllCallsListed`, `PairsListed`).
  The order of two nested loops over one vector is that of the numbers `size * j + k`
  (`PlacesFacts`).
- **`Combinations_proofs`**. The invariant says that a combination is increasing
  and below its limits except at the element being carried, that the elements to
  its right are at their limits, and that the last line printed bounds it
  from below. From it follow `LinesAreCombinations`, `LinesInOrder` (each
  line is lexicographically above the one before) and `UnderflowAtEnd` (only a
  carry out of the first element reaches below the array). `AllArePrinted` adds
  completeness, without induction on the lines: at all times a combination is printed already or
  lexicographically greater than the last line (`NoneSkipped`). A combination greater than the
  last line is the next line or greater than it (`NothingBetween`): the first element where it
  differs from the last line cannot lie behind the one the carry raised, since those are at
  their limits (`LinesBounded`), and what follows the raised element is the least that can.

- **`CallPasses_proofs`** instantiates `EnumerateCallInst_proofs`: what a pass asks of
  the class is a step of the class (`ClassSteps`), so the class's inductive invariant
  is kept without proving it again (`ClassInductive`). Only `ThreadJoin`'s own editing
  of a block is no such step; `CppJoinEffect` shows that it keeps the invariant,
  from `VoidAssumption` and the fact that no instruction gains users. The pass's invariant
  (`PassIInv`) adds what each stage can rely on, that the calls found match the names
  searched for (which excludes `std::thread::join` from a POSIX-only search), that
  the registry equals the changed instructions and holds only handled positions, which
  modes erase, and when `modified` is set. Each turn of a loop leaves its position
  alone (`LeftPreserves`), takes it (`TookPreserves`) or breaks (`BreakPreserves`).
  `MutationIsExact` states what each occurrence should be (`AsAsked`) for the positions
  handled so far instead of at the end (`AskedSoFar`), which makes it inductive. A yield that is
  used is not erased, and the property judges that by the uses in the module as it was read; so
  `PosixYield` must never take a use away from a call still to be handled. `UsersKept`
  says so, from `YieldAssumption`: the two yield functions take no arguments, so an erased call
  used nothing. The first attempt at this proof failed for lack of that fact.

- **`MemoryPasses_proofs`** takes all three properties of the run at once; its invariant has
  four parts besides them. `Vector`: what the visitor has stored is in module order,
  so two positions never lead to one instruction and the instructions at the positions handled
  (`HandledInBounds`) can be counted (`Times`). `Stages`: past the argument check the
  accepted command line holds, which is what keeps every value of `-order` inside the table of its
  pass. `Erasing`: the erased instructions are those of the positions handled, and only
  `-rm` erases. `Contents`: each instruction is what the mode makes of it for the number
  of times it was named (`Expected`), so `MutationIsExact` and `MutantsAreVerified`
  are read off it. `VectorIsExact` says that the vector is complete when the loops
  start.
- **`CondWaitPasses_proofs`** instantiates `EnumerateCallInst_proofs` as `CallPasses_proofs` does.
  `PosixCondWait -switch` edits the module behind the class (`Behind`), which the class's
  invariant does not survive; then only its types and the distinctness of its pointers
  are kept, and `FaultsExplained` for this mode is argued from the list of positions alone
  (`PosixFound` gives the two names the calls can have). For all other modes an accepted
  position leads to a live call. `CodeKept` says that every call stays in its function
  while code is inserted around it, so `PlaceOf` finds it; `Exact`
  states `MutatedExactly` after every turn of a loop instead of at the end, which makes it
  inductive; `Reported` relates `modified` to the erased instructions. `BodiesAssumption`
  (every call is in a function) and `SpellingAssumption` (the misspelt name `CondWait -switch`
  compares with is no function's) are facts of LLVM modules and are checked on the run.
  `UpdatesAddUp` has an invariant of its own, `WholeInv`: as long as there is at most one
  insertion point, the eight instructions of an insertion stay next to each other. Without
  `-inspt` an insertion begins at a call that was read, with one insertion point behind
  instructions that were all read, so never inside another insertion (`InsertPlaceFree`);
  with two points this is false, and so is the property. Running a function in which every
  insertion is whole then keeps the field equal to what was asked for so far, except between
  a load and its store, where the register holds it (`Keeps`, `KeepsNext`).

- **`MutexPass_proofs`**. The first half is about the vectors: `Kept` and `FlattenSeq` give the
  elements they should in the order they should, and the instructions of a function
  have larger numbers than those of the functions before, so `PairsInv` grows by one
  function at a time to `PairsExact`. The second half follows the module through the
  loops. `Sound` is what every operation on it keeps: the last branch of each function
  is still there, and an instruction in no function was erased; it is what gives
  `FuncOf` and `PosOf` something to find. `MInv` adds to it which instructions can
  have been erased (`RemoveInv`: not those still to be erased; `FreedInv`: those of the
  groups before), that nothing is erased or put out of order by splits (`SplitInv`), that
  the index is aligned to the groups a loop reads (`ArgsInv`), and that a module
  nobody reported as changed is the one that was loaded (`ChangeInv`). Each operation
  has a lemma that says what it erases and how it fails (`ErasedFacts`, `SwapFacts`,
  `ShiftedFacts`, `SplitFacts`), and `FaultsAreExplained` is read off the place where
  the pass stops (`Explained`). For a split the distances bound the two places, which
  needs the order of the instructions in their function: that is why only an unlock before its
  lock, or a value that does not fit an `int`, can reach the end.

  The last part is about what is in the place of every instruction, for which `Sound` is too
  weak: `TrackInv` adds that the module is *tracked*. A function `org` says for every
  instruction what it stands for: itself, the call it was put in the place of, or nothing
  (0: the copies that shifts and splits insert). `Anchored` says that each function has exactly one
  instruction for every one it had, in the old order, but for the calls of -rm and -shift that
  left nothing (`Lost`), and `Content` says what each of them is (`Accounted`): it was
  not erased, or what it stands for was; it ends a block exactly if that did; under -rm it is the
  branch of an invoke, under -swap a partner's call. Each edit of a body (replace, erase, insert,
  the call and branch for an invoke) keeps this, with `org` extended by the new instruction,
  and so does each handler. `PlaceInv` adds what was erased: only what the command
  line names (`NamedInv`), under -rm exactly that up to unexpected uses (`RemovedInv`),
  under -swap both calls of every group done (`SwappedInv`). It is inductive relative to
  `MInv` (`PlacesAreKept`). `RemovesExactly` and `SwapsExactly` follow since two sorted sequences with
  the same elements are equal; `BlocksAreKept` since the number of a block is the number of
  terminators before a place, and those stand for the terminators there were (`BlockNumber`).
  `SplitsWhereAsked` is an action property: from the place of the lock it computes
  where both insertions go (`TwoInsertions`), and the bound that `Tracked` gives on
  the numbers in a body tells the two new calls from all others.

Type correctness (`TypeOK`) is a theorem in each of these modules but `PosixLock_proofs` and
`MutexPass_proofs` (whose `ModuleStaysSound` includes the type of the module) and needs no run.

Induction over sequences is done without an induction theorem, by the least number for which
a statement fails (`LeastNat`, `UpTo` and `Recursion`, in each module that needs
them). So `Offset` and `Kept` are recursive functions, and the first operand of a call ranges
over a constant set `Mutexes`.

Only model-checked: liveness (`Terminates`), since TLAPS does not treat fairness
here; and `MutantScripts`, whose property counts the files of a whole run and so rests on the
completeness of the enumeration (proved in `Combinations_proofs`) carried through the nested
loops of every script: TLC compares it with the sets of groups on each bounded module.

## 5. Not modelled

- `FindLockUnlockPairs`: an unfinished prototype that nothing uses; its visitor only prints.
- `FileInfo`, `ItaniumDemangle`, `AliasResultToString`, `IRtoModule`: stateless formatting and
  reading. The models use their results.
- `src/demo/commands.sh`: single command lines, no loop and no condition.
- Build files: generated.
- In `MutantScripts` the pass itself is not run again for every mutant: what it does with a
  list of positions is stated for pairs that share nothing (`Mutated`), as `MutexPass`
  has it.

## 6. Plan

1. Done: every component that keeps state is modelled and checked; proofs of
   `EnumerateCallInst`, `PosixLock`, `LockUnlockPairs`, `Combinations`, `CallPasses`,
   `MemoryPasses`, `CondWaitPasses`, `MutexPass`.
2. Done: `RemoveExact`, `SwapExact`, `BlocksKept` and `SplitPlaced` of `MutexPass` with the
   place of every instruction in the invariant, and of `PosixLock` with the order and the
   place of every instruction.
3. Done: `MutatedExactly` of `CallPasses`; completeness of `Combinations`.
