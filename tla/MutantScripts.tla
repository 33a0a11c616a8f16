---------------------------- MODULE MutantScripts ----------------------------
(***************************************************************************)
(* src/scripts: mutate_rmMutex.sh, mutate_swapMutex.sh and                 *)
(* mutate_rmPosixCondSignal.sh, which run a pass once to count what it     *)
(* finds, run the program of Combinations once for every kind of pair and  *)
(* every size of a group, and run the pass again for every line that the   *)
(* program prints.                                                         *)
(*                                                                         *)
(* The pairs counted are taken to be of different mutexes, so that no two  *)
(* of them share a lock or an unlock.                                      *)
(***************************************************************************)
EXTENDS Integers, Sequences, FiniteSets, SequencesExt

CONSTANTS
  Scripts,   \* the scripts to run
  Counts,    \* what the pass may find: the number of pairs of each kind; only that
             \* of kind 0 counts for the calls of the condition variable script
  IntMax     \* the largest int of the program

Kinds == 0..3
ScriptNames == {"rmMutex", "swapMutex", "rmPosixCondSignal"}

ASSUME ScriptAssumption == Scripts \subseteq ScriptNames
ASSUME CountAssumption == Counts \subseteq [Kinds -> 0..IntMax]
ASSUME IntMaxAssumption == IntMax \in Nat

Word(option, numbers) == [option |-> option, numbers |-> numbers]
Opt(option, number) == <<Word(option, <<>>), Word("none", <<number>>)>>

\* $COMBO -p $i -c 0 -k $j n; the calls have no kind to put in front.
ComboArgs(s, m, group, max) ==
  <<Word("none", <<>>)>>
  \o (IF s = "rmPosixCondSignal" THEN <<>> ELSE Opt("-p", m))
  \o Opt("-c", 0) \o Opt("-k", group) \o <<Word("none", <<max>>)>>

\* All command lines a script can come up with.
Sizes == UNION {{c[m] : m \in Kinds} : c \in Counts}
Argvs == {ComboArgs(s, m, group, max - 1) : s \in Scripts, m \in Kinds, group \in Sizes, max \in Sizes}

VARIABLES
  script, counts,                                       \* what is run, on what
  kind, size,                                           \* the loops over both
  comboOut,                                             \* lines of the program
  next,                                                 \* loop over these
  files,                                                \* the mutants, in order
  phase,                                                \* where the script is
  argv, n, k, comb, below, i, printed, last, pc         \* the program

programVars == <<argv, n, k, comb, below, i, printed, last, pc>>
scriptVars == <<script, counts, kind, size, comboOut, next, files, phase>>
vars == <<scriptVars, programVars>>

Combos == INSTANCE Combinations

Init ==
  /\ script \in Scripts /\ counts \in Counts
  /\ kind = 0 /\ size = 0
  /\ comboOut = <<>> /\ next = 0
  /\ files = <<>>
  /\ phase = "analyze"
  /\ argv = <<>> /\ n = 0 /\ k = 0 /\ comb = <<>> /\ below = 0 /\ i = 0
  /\ printed = {} /\ last = <<>> /\ pc = "not run"

-----------------------------------------------------------------------------
(* What the pass prints under -analyze, and what the script reads of it *)

\* The mutex pass prints a line for each kind of which there are pairs, the pass for
\* condition variables a single number.
Listing ==
  IF script = "rmPosixCondSignal" THEN <<0, counts[0]>>
  ELSE FlattenSeq([m \in 1..4 |-> IF counts[m - 1] = 0 THEN <<>> ELSE <<m - 1, counts[m - 1]>>])

\* The first two words; the number of pairs is made the largest number of a pair.
LastKind  == Listing[1]

\* Mutant of LastIndex: the number of pairs is taken as it is.
LastIndex_Count == Listing[2]

LastIndex == Listing[2] - 1

\* The sizes of the groups: all, or the even ones.
Step == IF script = "swapMutex" THEN 2 ELSE 1

\* Without pairs the first word is empty and the condition of the loop an error.
Analyze ==
  /\ phase = "analyze"
  /\ size' = Step
  /\ phase' = IF Listing = <<>> THEN "done" ELSE "size"
  /\ UNCHANGED <<script, counts, kind, comboOut, next, files, programVars>>

-----------------------------------------------------------------------------
(* The loops *)

RunCombinations ==
  /\ phase = "size" /\ size <= LastIndex
  /\ argv' = ComboArgs(script, kind, size, LastIndex)
  /\ n' = 0 /\ k' = 0 /\ comb' = <<>> /\ below' = 0 /\ i' = 0
  /\ printed' = {} /\ last' = <<>> /\ pc' = "parse"
  /\ comboOut' = <<>> /\ next' = 0
  /\ phase' = "combine"
  /\ UNCHANGED <<script, counts, kind, size, files>>

\* The program runs to its end; each line it prints is an element of the array.
Combine ==
  /\ phase = "combine"
  /\ \/ Combos!ParseCommandLine \/ Combos!FirstCombination \/ Combos!IncrementLast
     \/ Combos!Carry \/ Combos!PrintNext \/ Combos!NoMoreCombinations
  /\ comboOut' = IF printed' = printed THEN comboOut ELSE Append(comboOut, last')
  /\ UNCHANGED <<script, counts, kind, size, next, files, phase>>

ReadOutput ==
  /\ phase = "combine" /\ Combos!Stopped
  /\ phase' = "mutate"
  /\ UNCHANGED <<script, counts, kind, size, comboOut, next, files, programVars>>

Group == comboOut[next + 1]
Numbers == {Group[m] : m \in DOMAIN Group}

\* -swap looks up a pair of two invokes by its kind (getGenericPair).
PairNumber(p) == IF script = "swapMutex" /\ kind = 3 THEN 3 ELSE p
Found(p) == PairNumber(p) < counts[kind]

\* What the pass does with the positions: it removes each pair it finds, or swaps
\* each with its neighbour, if they are not one pair.  There is no option -rmmode.
Mutated ==
  CASE script = "rmMutex"   -> {{p} : p \in {q \in Numbers : Found(q)}}
    [] script = "swapMutex" ->
         {pair \in {{Group[m], Group[m + 1]} : m \in {j \in DOMAIN Group : j % 2 = 0}} :
            (\A p \in pair : Found(p)) /\ Cardinality({PairNumber(p) : p \in pair}) = 2}
    [] OTHER -> {}
Content ==
  IF script = "rmPosixCondSignal" THEN "empty" ELSE IF Mutated = {} THEN "copy" ELSE "mutant"

\* One file for each line, named after the kind and the positions.
WriteMutant ==
  /\ phase = "mutate" /\ next < Len(comboOut)
  /\ files' = Append(files, [kind |-> kind, numbers |-> Numbers, mutated |-> Mutated,
                            content |-> Content])
  /\ next' = next + 1
  /\ UNCHANGED <<script, counts, kind, size, comboOut, phase, programVars>>

NextSize ==
  /\ phase = "mutate" /\ next >= Len(comboOut)
  /\ size' = size + Step
  /\ phase' = "size"
  /\ UNCHANGED <<script, counts, kind, comboOut, next, files, programVars>>

NextKind ==
  /\ phase = "size" /\ size > LastIndex
  /\ kind' = kind + 1
  /\ size' = Step
  /\ phase' = IF kind' > LastKind THEN "done" ELSE "size"
  /\ UNCHANGED <<script, counts, comboOut, next, files, programVars>>

Terminated == phase = "done" /\ UNCHANGED vars

Next ==
  \/ Analyze \/ RunCombinations \/ Combine \/ ReadOutput
  \/ WriteMutant \/ NextSize \/ NextKind \/ Terminated

Spec == Init /\ [][Next]_vars

-----------------------------------------------------------------------------
(* Properties *)

\* Each file of a finished script has a name of its own, and the mutants among them
\* are those of the first kind that has pairs, every proper subset of its pairs
\* once: removed, or an even number of them swapped with their neighbours.  So the
\* group of all pairs and all other kinds are missing, for the kinds before the first
\* there are copies of the module, and for pairs of two invokes -swap makes only
\* copies.  The script for condition variables writes empty files.
MutantsExact ==
  phase = "done" =>
    LET Written(content) == {f \in ToSet(files) : f.content = content}
        first == {m \in Kinds : counts[m] > 0 /\ \A l \in Kinds : l < m => counts[l] = 0}
        mutable == first \ (IF script = "swapMutex" THEN {3} ELSE {})
        Groups(m) == {S \in SUBSET (0..(counts[m] - 1)) :
                        S # {} /\ S # 0..(counts[m] - 1) /\ Cardinality(S) % Step = 0}
        Copied(m) == {f.numbers : f \in {g \in Written("copy") : g.kind = m}}
    IN  /\ Cardinality({<<f.kind, f.numbers>> : f \in ToSet(files)}) = Len(files)
        /\ IF script = "rmPosixCondSignal" THEN Written("empty") = ToSet(files)
           ELSE /\ {<<f.kind, UNION f.mutated>> : f \in Written("mutant")} =
                     UNION {{<<m, S>> : S \in Groups(m)} : m \in mutable}
                /\ \A m \in first, l \in Kinds :
                     Copied(l) = IF l < m \/ (l = m /\ m \notin mutable) THEN Groups(m) ELSE {}
=============================================================================
