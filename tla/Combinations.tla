---------------------------- MODULE Combinations ----------------------------
(***************************************************************************)
(* src/combinations/combinations.cpp: the tool the mutation scripts use to *)
(* enumerate all sets of k positions out of 0..n.  next_comb works in      *)
(* place: it increments the last element and carries to the left, where it *)
(* leaves the array when there is nothing left to carry into.              *)
(*                                                                         *)
(* A word of the command line is an option, or a list of numbers in one    *)
(* string; the prefix that -p puts before each number is not modelled.     *)
(* main holds the numbers in long, next_comb takes them as int: what it    *)
(* does with numbers that were cut off is not modelled.                    *)
(***************************************************************************)
EXTENDS Integers, Sequences, FiniteSets

CONSTANTS
  Argvs,   \* command lines, argv[0] included
  IntMax   \* the largest int

ASSUME IntMaxAssumption == IntMax \in Nat

Word(option, numbers) == [option |-> option, numbers |-> numbers]
Options == {"-c", "-k", "-p"}

ASSUME ArgvAssumption ==
  \A argv \in Argvs :
    /\ argv \in Seq([option : Options \union {"none"}, numbers : Seq(Int)])
    /\ argv # <<>>
    /\ \A m \in 1..Len(argv) : argv[m].option # "none" => argv[m].numbers = <<>>

VARIABLES
  argv,     \* the command line
  n, k,     \* the globals parseCommandLine sets
  comb,     \* the array of k elements, indexed from 0
  below,    \* what was added to the memory in front of the array
  i,        \* the loop variable of next_comb
  printed,  \* the combinations that were printed (history)
  last,     \* the one printed last
  pc

vars == <<argv, n, k, comb, below, i, printed, last, pc>>

Init ==
  /\ argv \in Argvs
  /\ n = 0 /\ k = 0
  /\ comb = <<>>
  /\ below = 0
  /\ i = 0
  /\ printed = {}
  /\ last = <<>>
  /\ pc = "parse"

-----------------------------------------------------------------------------
(* Command line *)

Places(option) == {m \in 1..Len(argv) : argv[m].option = option}
CmdOptionExists(option) == Places(option) # {}
FirstPlace(option) == CHOOSE m \in Places(option) : \A o \in Places(option) : m <= o

\* getCmdValue returns NULL when the option is the last word.
HasCmdValue(option) == CmdOptionExists(option) /\ FirstPlace(option) < Len(argv)

\* strtol: the first number of the word, 0 when it does not start with one.
CmdValue(option) ==
  LET word == argv[FirstPlace(option) + 1]
  IN  IF word.numbers = <<>> THEN 0 ELSE word.numbers[1]

NValIndex == IF CmdOptionExists("-c") THEN CmdValue("-c") ELSE 0
NVals == argv[Len(argv)].numbers

IndexRefused == CmdOptionExists("-c") /\ (~HasCmdValue("-c") \/ CmdValue("-c") < 0)

\* n keeps the 0 of a global variable when there is nothing to read.
NValue == IF NValIndex < Len(NVals) THEN NVals[NValIndex + 1] ELSE 0

\* Mutant of ValuesRefused: one value too few is accepted.
ValuesRefused_OneShort == Len(NVals) < NValIndex

\* The last word must hold the value that -c selects.
ValuesRefused == Len(NVals) < NValIndex + 1

SizeRefused == ~CmdOptionExists("-k") \/ ~HasCmdValue("-k") \/ CmdValue("-k") = 0

\* The test for a missing -p value looks at the value of -k again.
PrefixIsNull == CmdOptionExists("-p") /\ ~HasCmdValue("-p")

ArgsRefused == IndexRefused \/ ValuesRefused \/ SizeRefused

\* main's own tests of the two numbers.
RangeRefused(n1, k1) == n1 < 0 \/ k1 < 0 \/ k1 > n1 + 1

\* strtol of a NULL value is undefined behaviour.
ParseCommandLine ==
  /\ pc = "parse"
  /\ IF ArgsRefused THEN pc' = "exit" /\ UNCHANGED <<n, k>>
     ELSE /\ n' = NValue
          /\ k' = CmdValue("-k")
          /\ pc' = IF PrefixIsNull THEN "null"
                   ELSE IF RangeRefused(n', k') THEN "exit"
                   ELSE "first"
  /\ UNCHANGED <<argv, comb, below, i, printed, last>>

-----------------------------------------------------------------------------
(* The enumeration *)

\* Mutant of SetSize: main passes n.
SetSize_N == n

\* main passes n + 1 to next_comb, whose set is 0..n.
SetSize == n + 1

PrintLine(line) ==
  /\ printed' = printed \union {line}
  /\ last' = line

\* The first line is printed by main; next_comb is called if the numbers fit.
FirstCombination ==
  /\ pc = "first"
  /\ comb' = [j \in 0..(k - 1) |-> j]
  /\ PrintLine(comb')
  /\ pc' = IF SetSize <= IntMax THEN "next" ELSE "narrowed"
  /\ UNCHANGED <<argv, n, k, below, i>>

IncrementLast ==
  /\ pc = "next"
  /\ comb' = [comb EXCEPT ![k - 1] = @ + 1]
  /\ i' = k - 1
  /\ pc' = "carry"
  /\ UNCHANGED <<argv, n, k, below, printed, last>>

\* Mutant of AtLimit: an element may not reach its largest value.
AtLimit_OffByOne == i >= 0 /\ comb[i] >= SetSize - k + i

AtLimit == i >= 0 /\ comb[i] >= SetSize - k + 1 + i

\* Mutant of Carry: the element on the left is not incremented.
Carry_NoIncrement ==
  /\ pc = "carry"
  /\ AtLimit
  /\ i' = i - 1
  /\ UNCHANGED <<argv, n, k, comb, below, printed, last, pc>>

\* At i = 0 the increment goes to the memory in front of the array.
Carry ==
  /\ pc = "carry"
  /\ AtLimit
  /\ i' = i - 1
  /\ IF i = 0 THEN below' = below + 1 /\ UNCHANGED comb
     ELSE comb' = [comb EXCEPT ![i - 1] = @ + 1] /\ UNCHANGED below
  /\ UNCHANGED <<argv, n, k, printed, last, pc>>

\* The elements behind i count up from it.
Refill ==
  LET base == IF i = -1 THEN below ELSE comb[i]
  IN  [j \in 0..(k - 1) |-> IF j <= i THEN comb[j] ELSE base + (j - i)]

PrintNext ==
  /\ pc = "carry"
  /\ ~AtLimit
  /\ comb[0] <= SetSize - k
  /\ comb' = Refill
  /\ PrintLine(comb')
  /\ pc' = "next"
  /\ UNCHANGED <<argv, n, k, below, i>>

NoMoreCombinations ==
  /\ pc = "carry"
  /\ ~AtLimit
  /\ comb[0] > SetSize - k
  /\ pc' = "done"
  /\ UNCHANGED <<argv, n, k, comb, below, i, printed, last>>

Stopped == pc \in {"exit", "null", "narrowed", "done"}
Terminated == Stopped /\ UNCHANGED vars

Next ==
  \/ ParseCommandLine
  \/ FirstCombination \/ IncrementLast \/ Carry \/ PrintNext \/ NoMoreCombinations
  \/ Terminated

\* A sequential program: as long as it can take a step, it takes one.
Spec == Init /\ [][Next]_vars /\ WF_vars(Next)

-----------------------------------------------------------------------------
(* Properties *)

Running == pc \in {"next", "carry", "done"}

\* The array has k > 0 elements, next_comb's index stays in it except for the
\* one place in front.
TypeOK ==
  /\ argv \in Argvs
  /\ n \in Int /\ k \in Int
  /\ pc \in {"first"} \/ Running => n \in Nat /\ k \in 1..(n + 1)
  /\ Running => comb \in [0..(k - 1) -> Nat] /\ last \in [0..(k - 1) -> Nat]
  /\ below \in Nat
  /\ i \in Int /\ (pc = "carry" => i \in -1..(k - 1))
  /\ pc \in {"parse", "first", "next", "carry", "exit", "null", "narrowed", "done"}

IsCombination(line) ==
  /\ \A j \in 0..(k - 1) : line[j] \in 0..n
  /\ \A a, b \in 0..(k - 1) : a < b => line[a] < line[b]

\* Every printed line is a set of k different positions of 0..n, in order:
\* what -pos expects of the passes the scripts hand it to.
PrintedAreCombinations == \A line \in printed : IsCombination(line)

\* Lexicographic order.
LexLess(p, q) ==
  \E d \in 0..(k - 1) :
    /\ p[d] < q[d]
    /\ \A j \in 0..(d - 1) : p[j] = q[j]

\* Each line is greater than the line before it, so none comes twice: no mutant
\* is built twice.
InOrder == [][PrintNext => LexLess(last, last')]_vars

\* At the end all sets of k positions were printed: no mutant is left out.
AllPrinted ==
  pc = "done" =>
    {{line[j] : j \in 0..(k - 1)} : line \in printed}
      = {set \in SUBSET (0..n) : Cardinality(set) = k}

\* next_comb writes in front of the array (combinations.cpp:270-271), but once
\* only and not before the last combination was printed.
UnderflowOnlyAtEnd ==
  below > 0 => below = 1 /\ \A j \in 0..(k - 1) : last[j] = SetSize - k + j

\* The misdirected test of the -p value (combinations.cpp:186) does no harm: an
\* option without a value is the last word, which was refused as the numbers.
NoNullConverted == pc # "null"

\* The enumeration ends, for every command line.
Terminates == <>Stopped

=============================================================================
