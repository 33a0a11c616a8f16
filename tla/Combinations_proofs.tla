------------------------ MODULE Combinations_proofs ------------------------
(***************************************************************************)
(* Theorems about Combinations, for every command line: what is printed    *)
(* are combinations in lexicographic order, and the write in front of the  *)
(* array comes once, after the last of them.                               *)
(***************************************************************************)
EXTENDS Combinations, WellFoundedInduction, FiniteSetTheorems, TLAPS

-----------------------------------------------------------------------------
(* The command line *)

\* Every set of natural numbers that is not empty has a least element.
LEMMA LeastNumber ==
  ASSUME NEW S \in SUBSET Nat, S # {}
  PROVE  \E m \in S : \A o \in S : m <= o
<1> DEFINE less == OpToRel(<, Nat)
<1>1. \A x, y \in Nat : y < x => <<y, x>> \in less
  BY DEF OpToRel
<1>2. IsWellFoundedOn(less, Nat)
  BY NatLessThanWellFounded
<1> HIDE DEF less
<1>3. PICK m \in S : \A o \in S : <<o, m>> \notin less
  BY <1>2, WFMin
<1>4. \A o \in S : o \in Nat /\ m \in Nat /\ ~(o < m)
  BY <1>1, <1>3
<1> QED
  BY <1>4

LEMMA ArgvTypes ==
  ASSUME argv \in Argvs
  PROVE  /\ Len(argv) \in Nat \ {0}
         /\ \A m \in 1..Len(argv) :
              /\ argv[m].numbers \in Seq(Int)
              /\ argv[m].option # "none" => argv[m].numbers = <<>>
<1> DEFINE Words == [option : Options \union {"none"}, numbers : Seq(Int)]
<1>1. /\ argv \in Seq(Words)
      /\ argv # <<>>
      /\ \A m \in 1..Len(argv) : argv[m].option # "none" => argv[m].numbers = <<>>
  BY ArgvAssumption
<1>2. \A word \in Words : word.numbers \in Seq(Int)
  OBVIOUS
<1> HIDE DEF Words
<1>3. \A m \in 1..Len(argv) : argv[m] \in Words
  BY <1>1
<1>4. Len(argv) \in Nat \ {0}
  BY <1>1
<1> QED
  BY <1>1, <1>2, <1>3, <1>4

\* std::find finds the first place of an option that is there.
LEMMA FirstPlaceFacts ==
  ASSUME argv \in Argvs, NEW option, CmdOptionExists(option)
  PROVE  /\ FirstPlace(option) \in 1..Len(argv)
         /\ argv[FirstPlace(option)].option = option
<1>1. Places(option) \in SUBSET Nat /\ Places(option) # {}
  BY ArgvTypes DEF Places, CmdOptionExists
<1>2. \E m \in Places(option) : \A o \in Places(option) : m <= o
  BY <1>1, LeastNumber
<1>3. FirstPlace(option) \in Places(option)
  BY <1>2 DEF FirstPlace
<1> QED
  BY <1>3 DEF Places

LEMMA CmdValueType ==
  ASSUME argv \in Argvs, NEW option, HasCmdValue(option)
  PROVE  CmdValue(option) \in Int
<1> DEFINE word == argv[FirstPlace(option) + 1]
<1>1. FirstPlace(option) + 1 \in 1..Len(argv)
  BY FirstPlaceFacts, ArgvTypes DEF HasCmdValue
<1>2. word.numbers \in Seq(Int)
  BY <1>1, ArgvTypes
<1>3. word.numbers # <<>> => word.numbers[1] \in Int
  BY <1>2
<1> QED
  BY <1>3 DEF CmdValue

LEMMA IndexType ==
  ASSUME argv \in Argvs, ~ArgsRefused
  PROVE  NValIndex \in Nat
<1>1. CASE CmdOptionExists("-c")
  BY <1>1, CmdValueType DEF NValIndex, ArgsRefused, IndexRefused
<1>2. CASE ~CmdOptionExists("-c")
  BY <1>2 DEF NValIndex
<1> QED
  BY <1>1, <1>2

\* An option without a value is the last word, and that holds no number then.
LEMMA LastWordIsNumbers ==
  ASSUME argv \in Argvs, ~ArgsRefused
  PROVE  ~PrefixIsNull
<1>1. SUFFICES ASSUME CmdOptionExists("-p"), ~HasCmdValue("-p") PROVE FALSE
  BY DEF PrefixIsNull
<1>2. FirstPlace("-p") = Len(argv) /\ argv[Len(argv)].option = "-p"
  BY <1>1, FirstPlaceFacts, ArgvTypes DEF HasCmdValue
<1>3. Len(NVals) = 0
  BY <1>2, ArgvTypes DEF NVals
<1>4. NValIndex \in Nat
  BY IndexType
<1> QED
  BY <1>3, <1>4 DEF ArgsRefused, ValuesRefused

LEMMA ValueTypes ==
  ASSUME argv \in Argvs, ~ArgsRefused
  PROVE  NValue \in Int /\ CmdValue("-k") \in Int /\ CmdValue("-k") # 0
<1>1. CmdValue("-k") \in Int /\ CmdValue("-k") # 0
  BY CmdValueType DEF ArgsRefused, SizeRefused
<1>2. NValIndex \in Nat
  BY IndexType
<1>3. NVals \in Seq(Int)
  BY ArgvTypes DEF NVals
<1>4. NValue \in Int
  BY <1>2, <1>3 DEF NValue
<1> QED
  BY <1>1, <1>4

-----------------------------------------------------------------------------
(* The inductive invariant *)

\* The largest value of an element.
Limit(j) == SetSize - k + j
Bounded(line) == \A j \in 0..(k - 1) : line[j] <= Limit(j)

\* While next_comb carries, the array is the last line up to i, incremented at
\* i; behind i the last line cannot be increased any more.
Carrying ==
  /\ \A j \in 0..(k - 1) : j < i => comb[j] = last[j]
  /\ i >= 0 => comb[i] = last[i] + 1
  /\ \A j \in 0..(k - 1) : j > i => last[j] = Limit(j)
  /\ i = -1 => comb[0] = last[0] + 1
  /\ below = IF i = -1 THEN 1 ELSE 0

CombInv ==
  /\ pc \in {"parse", "first", "next", "exit", "null", "narrowed"} => below = 0
  /\ pc = "next" => comb = last
  /\ Running => IsCombination(last) /\ Bounded(last)
  /\ pc = "carry" => Carrying
  /\ pc = "done" => below = 1 /\ \A j \in 0..(k - 1) : last[j] = Limit(j)
  /\ pc \in {"parse", "first"} => printed = {}

IInv == TypeOK /\ CombInv /\ PrintedAreCombinations /\ NoNullConverted

LEMMA InitInv == Init => IInv
<1> SUFFICES ASSUME Init PROVE IInv
  OBVIOUS
<1>1. TypeOK
  BY DEF Init, TypeOK, Running
<1> QED
  BY <1>1 DEF Init, IInv, CombInv, Running, PrintedAreCombinations, NoNullConverted

LEMMA ParseInv == IInv /\ ParseCommandLine => IInv'
<1> SUFFICES ASSUME IInv, ParseCommandLine PROVE IInv'
  OBVIOUS
<1>1. pc = "parse" /\ argv \in Argvs /\ printed = {} /\ below = 0 /\ n \in Int /\ k \in Int
  BY DEF ParseCommandLine, IInv, TypeOK, CombInv
<1>2. UNCHANGED <<argv, comb, below, i, printed, last>>
  BY DEF ParseCommandLine
<1>3. /\ n' \in Int /\ k' \in Int /\ pc' \in {"exit", "first"}
      /\ pc' = "first" => n' \in Nat /\ k' \in 1..(n' + 1)
  <2>1. CASE ArgsRefused
    BY <1>1, <2>1 DEF ParseCommandLine
  <2>2. CASE ~ArgsRefused
    <3>1. /\ n' = NValue /\ k' = CmdValue("-k")
          /\ pc' = IF RangeRefused(n', k') THEN "exit" ELSE "first"
      BY <1>1, <2>2, LastWordIsNumbers DEF ParseCommandLine
    <3>2. n' \in Int /\ k' \in Int /\ k' # 0
      BY <1>1, <2>2, <3>1, ValueTypes
    <3> QED
      BY <3>1, <3>2 DEF RangeRefused
  <2> QED
    BY <2>1, <2>2
<1>4. TypeOK'
  BY <1>1, <1>2, <1>3 DEF IInv, TypeOK, Running
<1> QED
  BY <1>1, <1>2, <1>3, <1>4 DEF IInv, CombInv, Running, PrintedAreCombinations, NoNullConverted

LEMMA FirstCombinationInv == IInv /\ FirstCombination => IInv'
<1> SUFFICES ASSUME IInv, FirstCombination PROVE IInv'
  OBVIOUS
<1>1. /\ pc = "first" /\ pc' \in {"next", "narrowed"} /\ UNCHANGED <<argv, n, k, below, i>>
      /\ comb' = [j \in 0..(k - 1) |-> j] /\ last' = comb' /\ printed' = printed \union {comb'}
  BY DEF FirstCombination, PrintLine
<1>2. /\ n \in Nat /\ k \in 1..(n + 1) /\ below = 0 /\ printed = {}
  BY <1>1 DEF IInv, TypeOK, CombInv
<1>3. comb' \in [0..(k - 1) -> Nat] /\ \A j \in 0..(k - 1) : comb'[j] = j
  BY <1>1, <1>2
<1>4. IsCombination(comb') /\ Bounded(comb')
  BY <1>2, <1>3 DEF IsCombination, Bounded, Limit, SetSize
<1>5. TypeOK'
  BY <1>1, <1>2, <1>3 DEF IInv, TypeOK, Running
<1>6. IsCombination(last)' /\ Bounded(last)' /\ PrintedAreCombinations'
  BY <1>1, <1>2, <1>4 DEF IsCombination, Bounded, Limit, SetSize, PrintedAreCombinations
<1>7. CombInv'
  BY <1>1, <1>2, <1>6 DEF CombInv
<1> QED
  BY <1>1, <1>5, <1>6, <1>7 DEF IInv, NoNullConverted

LEMMA IncrementLastInv == IInv /\ IncrementLast => IInv'
<1> SUFFICES ASSUME IInv, IncrementLast PROVE IInv'
  OBVIOUS
<1>1. /\ pc = "next" /\ pc' = "carry" /\ UNCHANGED <<argv, n, k, below, printed, last>>
      /\ comb' = [comb EXCEPT ![k - 1] = @ + 1] /\ i' = k - 1
  BY DEF IncrementLast
<1>2. /\ n \in Nat /\ k \in 1..(n + 1) /\ comb \in [0..(k - 1) -> Nat] /\ comb = last
      /\ below = 0 /\ IsCombination(last) /\ Bounded(last)
  BY <1>1 DEF IInv, TypeOK, CombInv, Running
<1>3. /\ comb' \in [0..(k - 1) -> Nat] /\ k - 1 \in 0..(k - 1) /\ comb'[k - 1] = comb[k - 1] + 1
      /\ \A j \in 0..(k - 1) : j < k - 1 => comb'[j] = comb[j]
  BY <1>1, <1>2
<1>4. TypeOK'
  BY <1>1, <1>2, <1>3 DEF IInv, TypeOK, Running
<1>5. Carrying'
  BY <1>1, <1>2, <1>3 DEF Carrying
<1>6. IsCombination(last)' /\ Bounded(last)' /\ PrintedAreCombinations'
  BY <1>1, <1>2 DEF IsCombination, Bounded, Limit, SetSize, PrintedAreCombinations, IInv
<1>7. CombInv'
  BY <1>1, <1>5, <1>6 DEF CombInv
<1> QED
  BY <1>1, <1>4, <1>6, <1>7 DEF IInv, NoNullConverted

\* What holds while next_comb carries.
LEMMA CarryFacts ==
  ASSUME IInv, pc = "carry"
  PROVE  /\ n \in Nat /\ k \in 1..(n + 1) /\ i \in -1..(k - 1)
         /\ comb \in [0..(k - 1) -> Nat] /\ last \in [0..(k - 1) -> Nat]
         /\ IsCombination(last) /\ Bounded(last) /\ Carrying
         /\ \A j \in 0..(k - 1) : Limit(j) \in Int
         /\ 0 \in 0..(k - 1)
<1>1. /\ n \in Nat /\ k \in 1..(n + 1) /\ i \in -1..(k - 1)
      /\ comb \in [0..(k - 1) -> Nat] /\ last \in [0..(k - 1) -> Nat]
      /\ IsCombination(last) /\ Bounded(last) /\ Carrying
  BY DEF IInv, TypeOK, CombInv, Running
<1> QED
  BY <1>1 DEF Limit, SetSize

LEMMA CarryInv == IInv /\ Carry => IInv'
<1> SUFFICES ASSUME IInv, Carry PROVE IInv'
  OBVIOUS
<1>1. /\ pc = "carry" /\ pc' = pc /\ UNCHANGED <<argv, n, k, printed, last>>
      /\ i >= 0 /\ comb[i] >= SetSize - k + 1 + i /\ i' = i - 1
      /\ IF i = 0 THEN below' = below + 1 /\ UNCHANGED comb
         ELSE comb' = [comb EXCEPT ![i - 1] = @ + 1] /\ UNCHANGED below
  BY DEF Carry, AtLimit
<1>2. /\ n \in Nat /\ k \in 1..(n + 1) /\ i \in 0..(k - 1) /\ below = 0
      /\ comb \in [0..(k - 1) -> Nat] /\ last \in [0..(k - 1) -> Nat]
      /\ IsCombination(last) /\ Bounded(last)
  BY <1>1, CarryFacts DEF Carrying
<1>3. /\ \A j \in 0..(k - 1) : j < i => comb[j] = last[j]
      /\ comb[i] = last[i] + 1
      /\ \A j \in 0..(k - 1) : j > i => last[j] = Limit(j)
  BY <1>1, <1>2, CarryFacts DEF Carrying
<1>4. last[i] = Limit(i)
  <2>1. last[i] \in Nat /\ Limit(i) = (n + 1) - k + i /\ k \in Nat /\ i \in Nat
    BY <1>2 DEF Limit, SetSize
  <2>2. last[i] <= Limit(i)
    BY <1>2 DEF Bounded
  <2>3. last[i] + 1 >= (n + 1) - k + 1 + i
    <3>1. comb[i] >= (n + 1) - k + 1 + i
      BY DEF Carry, AtLimit, SetSize
    <3> QED
      BY <1>3, <3>1
  <2> HIDE DEF Limit
  <2>4. ASSUME NEW x \in Nat, NEW limit \in Int, NEW l \in Int,
               limit = l, x <= limit, x + 1 >= l + 1
        PROVE  x = limit
    BY <2>4
  <2>5. (n + 1) - k + 1 + i = ((n + 1) - k + i) + 1 /\ (n + 1) - k + i \in Int
    BY <1>2, <2>1
  <2> QED
    BY <2>1, <2>2, <2>3, <2>4, <2>5
<1>5. \A j \in 0..(k - 1) : j > i' => last[j] = Limit(j)
  BY <1>1, <1>2, <1>3, <1>4
<1>6. TypeOK' /\ Carrying'
  <2>1. CASE i = 0
    <3>1. TypeOK'
      BY <1>1, <1>2, <2>1 DEF IInv, TypeOK, Running
    <3>2. Carrying'
      BY <1>1, <1>2, <1>3, <1>5, <2>1 DEF Carrying, Limit, SetSize
    <3> QED
      BY <3>1, <3>2
  <2>2. CASE i # 0
    <3>1. /\ comb' \in [0..(k - 1) -> Nat] /\ comb'[i - 1] = comb[i - 1] + 1
          /\ \A j \in 0..(k - 1) : j < i - 1 => comb'[j] = comb[j]
          /\ i - 1 \in 0..(k - 1) /\ i - 1 < i /\ below' = 0
      <4> DEFINE left == i - 1
      <4>1. left \in 0..(k - 1) /\ left < i
        BY <1>2, <2>2
      <4>2. comb' = [comb EXCEPT ![left] = comb[left] + 1] /\ below' = 0
        BY <1>1, <1>2, <2>2
      <4> HIDE DEF left
      <4>3. comb[left] + 1 \in Nat
        BY <1>2, <4>1
      <4>4. comb' \in [0..(k - 1) -> Nat] /\ comb'[left] = comb[left] + 1
        BY <1>2, <4>1, <4>2, <4>3
      <4>5. \A j \in 0..(k - 1) : j < left => comb'[j] = comb[j]
        BY <1>2, <4>1, <4>2
      <4> QED
        BY <4>1, <4>2, <4>4, <4>5 DEF left
    <3>2. TypeOK'
      <4>1. i' \in Int /\ i' \in -1..(k - 1) /\ below' \in Nat
        BY <1>1, <1>2, <3>1
      <4> QED
        BY <1>1, <1>2, <3>1, <4>1 DEF IInv, TypeOK, Running
    <3>3. \A j \in 0..(k - 1) : j < i' => comb'[j] = last[j]
      BY <1>1, <1>2, <1>3, <3>1
    <3>4. comb'[i'] = last[i'] + 1
      BY <1>1, <1>3, <3>1
    <3>5. i' # -1
      BY <1>1, <1>2, <2>2
    <3>6. Carrying'
      BY <1>1, <1>2, <1>5, <3>1, <3>3, <3>4, <3>5 DEF Carrying, Limit, SetSize
    <3> QED
      BY <3>2, <3>6
  <2> QED
    BY <2>1, <2>2
<1>7. IsCombination(last)' /\ Bounded(last)' /\ PrintedAreCombinations'
  BY <1>1, <1>2 DEF IsCombination, Bounded, Limit, SetSize, PrintedAreCombinations, IInv
<1>8. CombInv'
  BY <1>1, <1>6, <1>7 DEF CombInv
<1> QED
  BY <1>1, <1>6, <1>7, <1>8 DEF IInv, NoNullConverted

\* The next line is a combination, and greater than the last one.
LEMMA RefillFacts ==
  ASSUME IInv, PrintNext
  PROVE  /\ i \in 0..(k - 1)
         /\ Refill \in [0..(k - 1) -> Nat]
         /\ IsCombination(Refill) /\ Bounded(Refill)
         /\ LexLess(last, Refill)
<1>1. pc = "carry" /\ ~AtLimit /\ comb[0] <= SetSize - k
  BY DEF PrintNext
<1>2. /\ n \in Nat /\ k \in 1..(n + 1) /\ i \in -1..(k - 1)
      /\ comb \in [0..(k - 1) -> Nat] /\ last \in [0..(k - 1) -> Nat]
      /\ IsCombination(last) /\ Bounded(last) /\ Carrying /\ 0 \in 0..(k - 1)
  BY <1>1, CarryFacts
<1>3. i # -1
  <2>1. SUFFICES ASSUME i = -1 PROVE FALSE
    OBVIOUS
  <2>2. last[0] = SetSize - k /\ comb[0] = last[0] + 1
    BY <1>2, <2>1 DEF Carrying, Limit, SetSize
  <2> QED
    BY <1>1, <1>2, <2>2 DEF SetSize
<1>4. i \in 0..(k - 1)
  BY <1>2, <1>3
<1>5. /\ \A j \in 0..(k - 1) : j < i => comb[j] = last[j]
      /\ comb[i] = last[i] + 1 /\ comb[i] <= SetSize - k + i
  BY <1>1, <1>2, <1>4 DEF Carrying, AtLimit, SetSize
<1> DEFINE q == Refill
<1>6. /\ q \in [0..(k - 1) -> Nat]
      /\ \A j \in 0..(k - 1) : j < i => q[j] = last[j]
      /\ \A j \in 0..(k - 1) : j >= i => q[j] = last[i] + 1 + (j - i)
  <2>1. q = [j \in 0..(k - 1) |-> IF j <= i THEN comb[j] ELSE comb[i] + (j - i)]
    BY <1>3 DEF Refill
  <2> HIDE DEF q
  <2>2. last[i] \in Nat /\ \A j \in 0..(k - 1) : last[j] \in Nat
    BY <1>2, <1>4
  <2>3. ASSUME NEW j \in 0..(k - 1), j < i PROVE q[j] = last[j]
    BY <1>4, <1>5, <2>1, <2>3
  <2>4. ASSUME NEW j \in 0..(k - 1), j >= i
        PROVE  q[j] = last[i] + 1 + (j - i) /\ q[j] \in Nat
    <3>1. CASE j = i
      BY <1>4, <1>5, <2>1, <2>2, <3>1
    <3>2. CASE j > i
      <4>1. q[j] = comb[i] + (j - i) /\ j - i \in Nat
        BY <1>2, <1>4, <2>1, <3>2
      <4> QED
        BY <1>5, <2>2, <4>1
    <3> QED
      BY <1>2, <1>4, <2>4, <3>1, <3>2
  <2>5. \A j \in 0..(k - 1) : q[j] \in Nat
    <3> SUFFICES ASSUME NEW j \in 0..(k - 1) PROVE q[j] \in Nat
      OBVIOUS
    <3>1. j < i \/ j >= i
      BY <1>2, <1>4
    <3> QED
      BY <2>2, <2>3, <2>4, <3>1
  <2>6. q \in [0..(k - 1) -> Nat]
    BY <2>1, <2>5
  <2> QED
    BY <2>3, <2>4, <2>6
<1> HIDE DEF q
<1>7. \A j \in 0..(k - 1) : q[j] <= SetSize - k + j
  <2> SUFFICES ASSUME NEW j \in 0..(k - 1) PROVE q[j] <= SetSize - k + j
    OBVIOUS
  <2>1. CASE j < i
    BY <1>2, <1>6, <2>1 DEF Bounded, Limit
  <2>2. CASE j >= i
    <3>1. q[j] = last[i] + 1 + (j - i)
      BY <1>6, <2>2
    <3>2. last[i] + 1 <= (n + 1) - k + i /\ last[i] \in Nat
      BY <1>2, <1>4, <1>5 DEF SetSize
    <3> QED
      BY <1>2, <1>4, <3>1, <3>2 DEF SetSize
  <2> QED
    BY <1>2, <2>1, <2>2
<1>8. \A j \in 0..(k - 1) : q[j] \in 0..n
  BY <1>2, <1>6, <1>7 DEF SetSize
<1>9. \A a, b \in 0..(k - 1) : a < b => q[a] < q[b]
  <2> SUFFICES ASSUME NEW a \in 0..(k - 1), NEW b \in 0..(k - 1), a < b PROVE q[a] < q[b]
    OBVIOUS
  <2>1. CASE b < i
    BY <1>2, <1>6, <2>1 DEF IsCombination
  <2>2. CASE a < i /\ b >= i
    <3>1. last[a] < last[i]
      BY <1>2, <1>4, <2>2 DEF IsCombination
    <3>2. q[a] = last[a] /\ q[b] = last[i] + 1 + (b - i)
      BY <1>6, <2>2
    <3>3. last[a] \in Nat /\ last[i] \in Nat /\ b - i \in Nat
      BY <1>2, <1>4, <2>2
    <3>4. ASSUME NEW x \in Nat, NEW y \in Nat, NEW d \in Nat, x < y PROVE x < y + 1 + d
      BY <3>4
    <3> QED
      BY <3>1, <3>2, <3>3, <3>4
  <2>3. CASE a >= i
    <3>1. q[a] = last[i] + 1 + (a - i) /\ q[b] = last[i] + 1 + (b - i)
      <4>1. b >= i
        BY <1>2, <1>4, <2>3
      <4> QED
        BY <1>6, <2>3, <4>1
    <3>2. last[i] \in Nat
      BY <1>2, <1>4
    <3> QED
      BY <1>2, <1>4, <3>1, <3>2
  <2> QED
    BY <1>2, <2>1, <2>2, <2>3
<1>10. LexLess(last, q)
  <2>1. last[i] < q[i]
    BY <1>2, <1>4, <1>6
  <2>2. \A j \in 0..(i - 1) : last[j] = q[j]
    BY <1>2, <1>4, <1>6
  <2> QED
    BY <1>4, <2>1, <2>2 DEF LexLess
<1> QED
  BY <1>4, <1>6, <1>7, <1>8, <1>9, <1>10 DEF IsCombination, Bounded, Limit, q

LEMMA PrintNextInv == IInv /\ PrintNext => IInv'
<1> SUFFICES ASSUME IInv, PrintNext PROVE IInv'
  OBVIOUS
<1>1. /\ pc = "carry" /\ pc' = "next" /\ UNCHANGED <<argv, n, k, below, i>>
      /\ comb' = Refill /\ last' = comb' /\ printed' = printed \union {comb'}
  BY DEF PrintNext, PrintLine
<1>2. /\ n \in Nat /\ k \in 1..(n + 1) /\ below = 0
  BY <1>1, CarryFacts, RefillFacts DEF Carrying
<1>3. comb' \in [0..(k - 1) -> Nat] /\ IsCombination(comb') /\ Bounded(comb')
  BY <1>1, RefillFacts
<1>4. TypeOK'
  BY <1>1, <1>2, <1>3 DEF IInv, TypeOK, Running
<1>5. IsCombination(last)' /\ Bounded(last)' /\ PrintedAreCombinations'
  BY <1>1, <1>3 DEF IsCombination, Bounded, Limit, SetSize, PrintedAreCombinations, IInv
<1>6. CombInv'
  BY <1>1, <1>2, <1>5 DEF CombInv
<1> QED
  BY <1>1, <1>4, <1>5, <1>6 DEF IInv, NoNullConverted

\* The array is only given up when nothing is left to carry into.
LEMMA NoMoreCombinationsInv == IInv /\ NoMoreCombinations => IInv'
<1> SUFFICES ASSUME IInv, NoMoreCombinations PROVE IInv'
  OBVIOUS
<1>1. /\ pc = "carry" /\ pc' = "done" /\ ~AtLimit /\ comb[0] > SetSize - k
      /\ UNCHANGED <<argv, n, k, comb, below, i, printed, last>>
  BY DEF NoMoreCombinations
<1>2. /\ n \in Nat /\ k \in 1..(n + 1) /\ i \in -1..(k - 1)
      /\ comb \in [0..(k - 1) -> Nat] /\ last \in [0..(k - 1) -> Nat]
      /\ IsCombination(last) /\ Bounded(last) /\ Carrying /\ 0 \in 0..(k - 1)
  BY <1>1, CarryFacts
<1>3. i = -1
  <2>1. CASE i = 0
    BY <1>1, <1>2, <2>1 DEF AtLimit, SetSize
  <2>2. CASE i > 0
    <3>1. comb[0] = last[0] /\ last[0] <= SetSize - k
      BY <1>2, <2>2 DEF Carrying, Bounded, Limit, SetSize
    <3> QED
      BY <1>1, <1>2, <3>1 DEF SetSize
  <2> QED
    BY <1>2, <2>1, <2>2
<1>4. below = 1 /\ \A j \in 0..(k - 1) : last[j] = Limit(j)
  BY <1>2, <1>3 DEF Carrying
<1>5. TypeOK'
  BY <1>1, <1>2 DEF IInv, TypeOK, Running
<1>6. IsCombination(last)' /\ Bounded(last)' /\ PrintedAreCombinations'
  BY <1>1, <1>2 DEF IsCombination, Bounded, Limit, SetSize, PrintedAreCombinations, IInv
<1>7. CombInv'
  BY <1>1, <1>4, <1>6 DEF CombInv, Limit, SetSize
<1> QED
  BY <1>1, <1>5, <1>6, <1>7 DEF IInv, NoNullConverted

LEMMA StutterInv == IInv /\ UNCHANGED vars => IInv'
<1> SUFFICES ASSUME IInv, UNCHANGED vars PROVE IInv'
  OBVIOUS
<1>1. UNCHANGED <<argv, n, k, comb, below, i, printed, last, pc>>
  BY DEF vars
<1>2. TypeOK'
  BY <1>1 DEF IInv, TypeOK, Running
<1>3. PrintedAreCombinations' /\ NoNullConverted'
  BY <1>1 DEF IInv, PrintedAreCombinations, IsCombination, NoNullConverted
<1>4. CombInv'
  BY <1>1 DEF IInv, CombInv, Running, Carrying, IsCombination, Bounded, Limit, SetSize
<1> QED
  BY <1>2, <1>3, <1>4 DEF IInv

LEMMA StepInv == IInv /\ [Next]_vars => IInv'
  BY ParseInv, FirstCombinationInv, IncrementLastInv, CarryInv, PrintNextInv,
     NoMoreCombinationsInv, StutterInv DEF Next, Terminated

-----------------------------------------------------------------------------
(* The theorems *)

\* The inductive invariant holds throughout every run of the tool.
THEOREM Invariance == Spec => []IInv
  BY InitInv, StepInv, PTL DEF Spec

\* Every variable keeps its type: next_comb never indexes the array outside
\* -1..k-1 (combinations.cpp:266-283).
THEOREM TypeCorrect == Spec => []TypeOK
<1>1. IInv => TypeOK
  BY DEF IInv
<1> QED
  BY <1>1, Invariance, PTL

\* Every line printed by main (combinations.cpp:218-260) is a combination.
THEOREM LinesAreCombinations == Spec => []PrintedAreCombinations
<1>1. IInv => PrintedAreCombinations
  BY DEF IInv
<1> QED
  BY <1>1, Invariance, PTL

\* The lines come in lexicographic order, so none is printed twice.
THEOREM LinesInOrder == Spec => InOrder
<1>1. IInv /\ [Next]_vars => [PrintNext => LexLess(last, last')]_vars
  <2> SUFFICES ASSUME IInv, PrintNext PROVE LexLess(last, last')
    OBVIOUS
  <2>1. last' = Refill
    BY DEF PrintNext, PrintLine
  <2> QED
    BY <2>1, RefillFacts
<1> QED
  BY <1>1, Invariance, PTL DEF Spec, InOrder

\* The write in front of the array (combinations.cpp:270-271) happens at most
\* once, after the last combination.
THEOREM UnderflowAtEnd == Spec => []UnderflowOnlyAtEnd
<1>1. IInv => UnderflowOnlyAtEnd
  <2> SUFFICES ASSUME IInv, below > 0
               PROVE  below = 1 /\ \A j \in 0..(k - 1) : last[j] = Limit(j)
    BY DEF UnderflowOnlyAtEnd, Limit
  <2>1. pc \in {"carry", "done"}
    BY DEF IInv, TypeOK, CombInv
  <2>2. CASE pc = "carry"
    BY <2>2, CarryFacts DEF Carrying
  <2>3. CASE pc = "done"
    BY <2>3 DEF IInv, CombInv
  <2> QED
    BY <2>1, <2>2, <2>3
<1> QED
  BY <1>1, Invariance, PTL

\* strtol never gets the NULL of a missing -p value (combinations.cpp:184-191).
THEOREM NullNeverConverted == Spec => []NoNullConverted
<1>1. IInv => NoNullConverted
  BY DEF IInv
<1> QED
  BY <1>1, Invariance, PTL
-----------------------------------------------------------------------------
(* No combination is left out *)

Lines == {line \in [0..(k - 1) -> Nat] : IsCombination(line)}

\* Everything up to the last line was printed: a combination that was not is
\* greater than the last line.
NoneSkipped ==
  Running =>
    /\ printed \subseteq Lines
    /\ \A line \in Lines : line \in printed \/ LexLess(last, line)

\* The elements behind line[j] are larger and different, so there is room for them.
LEMMA LinesBounded ==
  ASSUME n \in Nat, k \in 1..(n + 1), NEW line \in Lines, NEW j \in 0..(k - 1)
  PROVE  line[j] <= Limit(j)
<1>1. /\ line \in [0..(k - 1) -> Nat]
      /\ \A m \in 0..(k - 1) : line[m] \in 0..n
      /\ \A a, b \in 0..(k - 1) : a < b => line[a] < line[b]
  BY DEF Lines, IsCombination
<1> DEFINE from == j..(k - 1)
           room == line[j]..n
           f == [m \in from |-> line[m]]
<1>2. /\ IsFiniteSet(room) /\ Cardinality(room) = n - line[j] + 1
      /\ Cardinality(from) = k - j
  <2>1. line[j] \in 0..n /\ j \in Int /\ k - 1 \in Int /\ ~(j > k - 1)
    BY <1>1
  <2>2. Cardinality(from) = (k - 1) - j + 1
    BY <2>1, FS_Interval
  <2>3. IsFiniteSet(room) /\ Cardinality(room) = n - line[j] + 1
    <3>1. line[j] \in Int /\ n \in Int /\ ~(line[j] > n)
      BY <2>1
    <3> QED
      BY <3>1, FS_Interval
  <2> QED
    BY <2>2, <2>3
<1>3. f \in Injection(from, room)
  <2>1. \A m \in from : m \in 0..(k - 1) /\ line[m] \in room
    <3> SUFFICES ASSUME NEW m \in from PROVE m \in 0..(k - 1) /\ line[m] \in room
      OBVIOUS
    <3>1. m \in 0..(k - 1) /\ (m = j \/ j < m)
      OBVIOUS
    <3>2. line[m] \in 0..n /\ line[j] \in 0..n /\ line[j] <= line[m]
      BY <1>1, <3>1
    <3> QED
      BY <3>1, <3>2
  <2>2. f \in [from -> room]
    BY <2>1
  <2>3. ASSUME NEW a \in from, NEW b \in from, f[a] = f[b] PROVE a = b
    <3>1. line[a] = line[b] /\ a \in 0..(k - 1) /\ b \in 0..(k - 1)
      BY <2>1, <2>3
    <3>2. ~(a < b) /\ ~(b < a)
      BY <1>1, <3>1
    <3> QED
      BY <3>1, <3>2
  <2> QED
    BY <2>2, <2>3 DEF Injection, IsInjective
<1>4. Cardinality(from) <= Cardinality(room)
  BY <1>2, <1>3, FS_Injection
<1>5. k - j <= n - line[j] + 1 /\ line[j] \in Nat
  BY <1>1, <1>2, <1>4
<1> QED
  BY <1>5 DEF Limit, SetSize

\* Two different lines differ first in one place.
LEMMA FirstDifference ==
  ASSUME k \in Nat, NEW p \in [0..(k - 1) -> Nat], NEW q \in [0..(k - 1) -> Nat], p # q
  PROVE  \E d \in 0..(k - 1) : p[d] # q[d] /\ \A j \in 0..(d - 1) : p[j] = q[j]
<1> DEFINE S == {d \in 0..(k - 1) : p[d] # q[d]}
<1>1. S \in SUBSET Nat /\ S # {}
  <2>1. ASSUME \A d \in 0..(k - 1) : p[d] = q[d] PROVE p = q
    BY <2>1
  <2>2. \E d \in 0..(k - 1) : p[d] # q[d]
    BY <2>1
  <2>3. S # {}
    BY <2>2
  <2>4. S \in SUBSET Nat
    OBVIOUS
  <2> QED
    BY <2>3, <2>4
<1>2. PICK d \in S : \A o \in S : d <= o
  BY <1>1, LeastNumber
<1>3. \A j \in 0..(d - 1) : p[j] = q[j]
  BY <1>2
<1> QED
  BY <1>2, <1>3

\* No combination comes before 0, 1, ..., k - 1.
LEMMA NothingBeforeFirst ==
  ASSUME n \in Nat, k \in 1..(n + 1), NEW first \in [0..(k - 1) -> Nat],
         \A j \in 0..(k - 1) : first[j] = j,
         NEW line \in Lines, line # first
  PROVE  LexLess(first, line)
<1>1. /\ line \in [0..(k - 1) -> Nat]
      /\ \A a, b \in 0..(k - 1) : a < b => line[a] < line[b]
  BY DEF Lines, IsCombination
<1>2. PICK d \in 0..(k - 1) : first[d] # line[d] /\ \A j \in 0..(d - 1) : first[j] = line[j]
  <2>1. k \in Nat
    OBVIOUS
  <2> QED
    BY <1>1, <2>1, FirstDifference
<1>3. first[d] < line[d]
  <2>1. line[d] \in Nat /\ first[d] = d
    BY <1>1
  <2>2. CASE d = 0
    BY <1>2, <2>1, <2>2
  <2>3. CASE d # 0
    <3>1. d - 1 \in 0..(k - 1) /\ d - 1 < d /\ d - 1 \in 0..(d - 1)
      BY <2>3
    <3>2. line[d - 1] = d - 1 /\ line[d - 1] < line[d]
      BY <1>1, <1>2, <3>1
    <3> QED
      BY <1>2, <2>1, <3>2
  <2> QED
    BY <2>2, <2>3
<1> QED
  BY <1>2, <1>3 DEF LexLess

\* Refill is the least combination greater than the last line.
LEMMA NothingBetween ==
  ASSUME IInv, PrintNext, NEW line \in Lines, LexLess(last, line), line # Refill
  PROVE  LexLess(Refill, line)
<1> DEFINE q == Refill
<1>1. /\ pc = "carry" /\ n \in Nat /\ k \in 1..(n + 1) /\ i \in 0..(k - 1)
      /\ last \in [0..(k - 1) -> Nat] /\ comb \in [0..(k - 1) -> Nat]
      /\ q \in [0..(k - 1) -> Nat] /\ Carrying
  BY CarryFacts, RefillFacts DEF PrintNext
<1>2. /\ line \in [0..(k - 1) -> Nat]
      /\ \A a, b \in 0..(k - 1) : a < b => line[a] < line[b]
      /\ \A j \in 0..(k - 1) : line[j] <= Limit(j)
  BY <1>1, LinesBounded DEF Lines, IsCombination
<1>3. /\ \A j \in 0..(k - 1) : j < i => q[j] = last[j]
      /\ q[i] = last[i] + 1
      /\ \A j \in 0..(k - 1) : j > i => q[j] = q[i] + (j - i) /\ last[j] = Limit(j)
  <2>1. q = [j \in 0..(k - 1) |-> IF j <= i THEN comb[j] ELSE comb[i] + (j - i)]
    BY <1>1 DEF Refill
  <2>2. /\ \A j \in 0..(k - 1) : j < i => comb[j] = last[j]
        /\ comb[i] = last[i] + 1
        /\ \A j \in 0..(k - 1) : j > i => last[j] = Limit(j)
    BY <1>1 DEF Carrying
  <2> HIDE DEF q
  <2>3. q[i] = comb[i]
    BY <1>1, <2>1
  <2>4. ASSUME NEW j \in 0..(k - 1), j < i PROVE q[j] = last[j]
    BY <1>1, <2>1, <2>2, <2>4
  <2>5. ASSUME NEW j \in 0..(k - 1), j > i PROVE q[j] = q[i] + (j - i)
    BY <1>1, <2>1, <2>3, <2>5
  <2> QED
    BY <2>2, <2>3, <2>4, <2>5
<1> HIDE DEF q
<1>4. PICK e \in 0..(k - 1) : q[e] # line[e] /\ \A j \in 0..(e - 1) : q[j] = line[j]
  <2>1. k \in Nat /\ q # line
    BY <1>1 DEF q
  <2> QED
    BY <1>1, <1>2, <2>1, FirstDifference
<1>5. PICK d \in 0..(k - 1) : last[d] < line[d] /\ \A j \in 0..(d - 1) : last[j] = line[j]
  BY DEF LexLess
<1>6. d <= i
  <2>1. SUFFICES ASSUME d > i PROVE FALSE
    BY <1>1
  <2>2. last[d] = Limit(d) /\ line[d] <= Limit(d)
    BY <1>2, <1>3, <2>1
  <2>3. last[d] \in Nat /\ line[d] \in Nat
    BY <1>1, <1>2
  <2> QED
    BY <1>5, <2>2, <2>3
<1>7. q[e] < line[e]
  <2>1. q[e] \in Nat /\ line[e] \in Nat /\ last[e] \in Nat /\ last[i] \in Nat
    BY <1>1, <1>2
  <2>2. CASE e < d
    \* d is the first difference to last, and q agrees with last in front of i
    <3>1. e < i /\ e \in 0..(d - 1)
      BY <1>1, <1>6, <2>2
    <3>2. q[e] = last[e] /\ last[e] = line[e]
      BY <1>3, <1>5, <3>1
    <3> QED
      BY <1>4, <3>2
  <2>3. CASE e = d /\ d < i
    BY <1>3, <1>5, <2>3
  <2>4. CASE e = d /\ d = i
    BY <1>3, <1>4, <1>5, <2>1, <2>4
  <2>5. CASE d < e /\ d < i
    <3>1. q[d] = last[d] /\ q[d] = line[d]
      BY <1>3, <1>4, <2>5
    <3> QED
      BY <1>1, <1>5, <3>1
  <2>6. CASE d < e /\ d = i
    <3>1. e - 1 \in 0..(k - 1) /\ e - 1 < e /\ e - 1 \in 0..(e - 1) /\ e - 1 >= i
      BY <1>1, <2>6
    <3>2. line[e - 1] < line[e] /\ q[e - 1] = line[e - 1] /\ line[e - 1] \in Nat
      BY <1>2, <1>4, <3>1
    <3>3. q[e] = q[e - 1] + 1
      <4>1. q[e] = q[i] + (e - i) /\ q[i] \in Nat
        BY <1>1, <1>3, <2>6
      <4>2. CASE e - 1 = i
        BY <1>1, <4>1, <4>2
      <4>3. CASE e - 1 > i
        <5>1. q[e - 1] = q[i] + ((e - 1) - i)
          BY <1>3, <3>1, <4>3
        <5> QED
          BY <1>1, <4>1, <5>1
      <4> QED
        BY <1>1, <3>1, <4>2, <4>3
    <3> QED
      BY <1>4, <2>1, <3>2, <3>3
  <2> QED
    BY <1>1, <1>6, <2>2, <2>3, <2>4, <2>5, <2>6
<1> QED
  BY <1>4, <1>7 DEF LexLess, q

LEMMA NoneSkippedStep == IInv /\ NoneSkipped /\ [Next]_vars => NoneSkipped'
<1> SUFFICES ASSUME IInv, NoneSkipped, [Next]_vars PROVE NoneSkipped'
  OBVIOUS
<1>1. CASE ParseCommandLine
  BY <1>1, ParseInv DEF IInv, NoneSkipped, Running, ParseCommandLine
<1>2. CASE FirstCombination
  <2>1. /\ pc = "first" /\ UNCHANGED <<n, k>> /\ last' = [j \in 0..(k - 1) |-> j]
        /\ printed' = printed \union {last'}
    BY <1>2 DEF FirstCombination, PrintLine
  <2>2. n \in Nat /\ k \in 1..(n + 1) /\ printed = {}
    BY <2>1 DEF IInv, TypeOK, CombInv
  <2>3. Lines' = Lines
    BY <2>1 DEF Lines, IsCombination
  <2>4. last' \in [0..(k - 1) -> Nat] /\ \A j \in 0..(k - 1) : last'[j] = j
    BY <2>1, <2>2
  <2>5. last' \in Lines
    BY <2>2, <2>4 DEF Lines, IsCombination
  <2>6. \A line \in Lines : line = last' \/ LexLess(last', line)
    BY <2>2, <2>4, NothingBeforeFirst
  <2> QED
    BY <2>1, <2>2, <2>3, <2>5, <2>6 DEF NoneSkipped, LexLess
<1>3. CASE IncrementLast \/ Carry \/ NoMoreCombinations
  <2>1. UNCHANGED <<n, k, printed, last>> /\ Running
    BY <1>3 DEF IncrementLast, Carry, NoMoreCombinations, Running
  <2>2. Lines' = Lines
    BY <2>1 DEF Lines, IsCombination
  <2> QED
    BY <2>1, <2>2 DEF NoneSkipped, LexLess
<1>4. CASE PrintNext
  <2>1. /\ pc = "carry" /\ UNCHANGED <<n, k>> /\ last' = Refill
        /\ printed' = printed \union {last'}
    BY <1>4 DEF PrintNext, PrintLine
  <2>2. Lines' = Lines
    BY <2>1 DEF Lines, IsCombination
  <2>3. Refill \in Lines
    BY <1>4, RefillFacts DEF Lines
  <2>4. ASSUME NEW line \in Lines PROVE line \in printed' \/ LexLess(Refill, line)
    <3>1. line \in printed \/ LexLess(last, line)
      BY <2>1 DEF NoneSkipped, Running
    <3> QED
      BY <1>4, <2>1, <3>1, NothingBetween
  <2>5. printed' \subseteq Lines
    BY <2>1, <2>3 DEF NoneSkipped, Running
  <2>6. \A line \in Lines' : line \in printed' \/ LexLess(last, line)'
    BY <2>1, <2>2, <2>4 DEF LexLess
  <2> QED
    BY <2>2, <2>5, <2>6 DEF NoneSkipped
<1>5. CASE Terminated \/ UNCHANGED vars
  <2>1. UNCHANGED <<n, k, printed, last, pc>>
    BY <1>5 DEF Terminated, vars
  <2>2. Lines' = Lines
    BY <2>1 DEF Lines, IsCombination
  <2> QED
    BY <2>1, <2>2 DEF NoneSkipped, LexLess, Running
<1> QED
  BY <1>1, <1>2, <1>3, <1>4, <1>5 DEF Next

\* A line stands for a set of k positions ...
LEMMA LineIsSet ==
  ASSUME n \in Nat, k \in 1..(n + 1), NEW line \in Lines
  PROVE  /\ {line[j] : j \in 0..(k - 1)} \in SUBSET (0..n)
         /\ Cardinality({line[j] : j \in 0..(k - 1)}) = k
<1> DEFINE T == {line[j] : j \in 0..(k - 1)}
           f == [m \in 1..k |-> line[m - 1]]
<1>1. /\ line \in [0..(k - 1) -> Nat]
      /\ \A m \in 0..(k - 1) : line[m] \in 0..n
      /\ \A a, b \in 0..(k - 1) : a < b => line[a] < line[b]
  BY DEF Lines, IsCombination
<1>2. \A m \in 1..k : m - 1 \in 0..(k - 1)
  OBVIOUS
<1>3. f \in Injection(1..k, T)
  <2>1. f \in [1..k -> T]
    BY <1>2
  <2>2. ASSUME NEW a \in 1..k, NEW b \in 1..k, f[a] = f[b] PROVE a = b
    <3>1. line[a - 1] = line[b - 1] /\ line[a - 1] \in Nat
      BY <1>1, <1>2, <2>2
    <3>2. ~(a - 1 < b - 1) /\ ~(b - 1 < a - 1)
      BY <1>1, <1>2, <3>1
    <3> QED
      BY <3>2
  <2> QED
    BY <2>1, <2>2 DEF Injection, IsInjective
<1>4. f \in Surjection(1..k, T)
  <2>1. ASSUME NEW t \in T PROVE \E m \in 1..k : f[m] = t
    <3>1. PICK j \in 0..(k - 1) : t = line[j]
      BY <2>1
    <3>2. j + 1 \in 1..k /\ f[j + 1] = line[j]
      OBVIOUS
    <3> QED
      BY <3>1, <3>2
  <2> QED
    BY <1>3, <2>1 DEF Injection, Surjection
<1>5. ExistsBijection(1..k, T)
  BY <1>3, <1>4 DEF Bijection, ExistsBijection
<1>6. Cardinality(T) = k
  BY <1>5, FS_CountingElements
<1>7. T \in SUBSET (0..n)
  BY <1>1
<1> QED
  BY <1>6, <1>7

\* ... and every such set is the set of a line: its elements in their order.
LEMMA SetHasLine ==
  ASSUME n \in Nat, k \in 1..(n + 1), NEW set \in SUBSET (0..n), Cardinality(set) = k
  PROVE  \E line \in Lines : {line[j] : j \in 0..(k - 1)} = set
<1> DEFINE smaller(x) == {y \in set : y < x}
           rank == [x \in set |-> Cardinality(smaller(x))]
           places == 0..(k - 1)
<1>1. IsFiniteSet(set) /\ \A x \in set : x \in 0..n
  <2>1. IsFiniteSet(0..n)
    BY FS_Interval
  <2> QED
    BY <2>1, FS_Subset
<1>2. \A x \in set : IsFiniteSet(smaller(x)) /\ Cardinality(smaller(x)) \in Nat
  <2> SUFFICES ASSUME NEW x \in set
               PROVE  IsFiniteSet(smaller(x)) /\ Cardinality(smaller(x)) \in Nat
    OBVIOUS
  <2>1. smaller(x) \in SUBSET set
    OBVIOUS
  <2> QED
    BY <1>1, <2>1, FS_Subset, FS_CardinalityType
<1>3. ASSUME NEW x \in set, NEW y \in set, x < y PROVE rank[x] < rank[y]
  <2>1. smaller(x) \in SUBSET smaller(y) /\ x \in smaller(y) /\ x \notin smaller(x)
    <3>1. x \in Nat /\ y \in Nat /\ \A z \in set : z \in Nat
      BY <1>1
    <3>2. \A z \in set : z < x => z < y
      BY <1>3, <3>1
    <3>3. smaller(x) \in SUBSET smaller(y)
      BY <3>2
    <3>4. x \in smaller(y)
      BY <1>3
    <3>5. x \notin smaller(x)
      BY <3>1
    <3> QED
      BY <3>3, <3>4, <3>5
  <2>2. /\ Cardinality(smaller(x)) <= Cardinality(smaller(y))
        /\ Cardinality(smaller(x)) # Cardinality(smaller(y))
    BY <1>2, <2>1, FS_Subset
  <2>3. Cardinality(smaller(x)) \in Nat /\ Cardinality(smaller(y)) \in Nat
    BY <1>2
  <2> QED
    BY <2>2, <2>3
<1>4. \A x \in set : rank[x] \in places
  <2> SUFFICES ASSUME NEW x \in set PROVE rank[x] \in places
    OBVIOUS
  <2>1. smaller(x) \in SUBSET set /\ x \notin smaller(x)
    BY <1>1
  <2>2. Cardinality(smaller(x)) <= k /\ Cardinality(smaller(x)) # k
    BY <1>1, <2>1, FS_Subset
  <2> QED
    BY <1>2, <2>2
<1>5. rank \in Injection(set, places)
  <2>1. rank \in [set -> places]
    BY <1>4
  <2>2. ASSUME NEW x \in set, NEW y \in set, rank[x] = rank[y] PROVE x = y
    <3>1. ~(x < y) /\ ~(y < x)
      BY <1>3, <1>4, <2>2
    <3> QED
      BY <1>1, <3>1
  <2> QED
    BY <2>1, <2>2 DEF Injection, IsInjective
<1>6. rank \in Surjection(set, places)
  <2>1. IsFiniteSet(places) /\ Cardinality(places) = k
    BY FS_Interval
  <2> QED
    BY <1>5, <2>1, FS_Injection
<1> HIDE DEF rank
<1> DEFINE line == [j \in places |-> CHOOSE x \in set : rank[x] = j]
<1>7. \A j \in places : line[j] \in set /\ rank[line[j]] = j
  BY <1>6 DEF Surjection
<1>8. \A x \in set : line[rank[x]] = x
  BY <1>4, <1>5, <1>7 DEF Injection
<1> HIDE DEF line
<1>9. line \in Lines
  <2>1. line \in [0..(k - 1) -> Nat]
    <3>1. \A j \in places : line[j] \in Nat
      <4> SUFFICES ASSUME NEW j \in places PROVE line[j] \in Nat
        OBVIOUS
      <4>1. line[j] \in 0..n
        BY <1>1, <1>7
      <4> QED
        BY <4>1
    <3> QED
      BY <3>1 DEF line
  <2>2. \A j \in 0..(k - 1) : line[j] \in 0..n
    BY <1>7
  <2>3. ASSUME NEW a \in 0..(k - 1), NEW b \in 0..(k - 1), a < b PROVE line[a] < line[b]
    <3>1. /\ line[a] \in set /\ line[b] \in set /\ rank[line[a]] = a /\ rank[line[b]] = b
          /\ line[a] \in 0..n /\ line[b] \in 0..n
      BY <1>7
    <3>2. ~(line[b] < line[a]) /\ line[a] # line[b]
      BY <1>3, <2>3, <3>1
    <3> QED
      BY <3>1, <3>2
  <2> QED
    BY <2>1, <2>2, <2>3 DEF Lines, IsCombination
<1>10. {line[j] : j \in 0..(k - 1)} = set
  BY <1>4, <1>7, <1>8
<1> QED
  BY <1>9, <1>10

\* Every set of k positions of 0..n is printed before next_comb gives up
\* (combinations.cpp:218-283), so the scripts leave no mutant out.
THEOREM AllArePrinted == Spec => []AllPrinted
<1>1. Init => NoneSkipped
  BY DEF Init, NoneSkipped, Running
<1>2. IInv /\ NoneSkipped => AllPrinted
  <2> SUFFICES ASSUME IInv, NoneSkipped, pc = "done"
               PROVE  {{line[j] : j \in 0..(k - 1)} : line \in printed}
                        = {set \in SUBSET (0..n) : Cardinality(set) = k}
    BY DEF AllPrinted
  <2>1. /\ n \in Nat /\ k \in 1..(n + 1) /\ last \in [0..(k - 1) -> Nat]
        /\ \A j \in 0..(k - 1) : last[j] = Limit(j)
    BY DEF IInv, TypeOK, CombInv, Running
  <2>2. \A line \in Lines : ~LexLess(last, line)
    <3> SUFFICES ASSUME NEW line \in Lines, LexLess(last, line) PROVE FALSE
      OBVIOUS
    <3>1. PICK d \in 0..(k - 1) : last[d] < line[d]
      BY DEF LexLess
    <3>2. line[d] <= last[d] /\ line[d] \in Nat /\ last[d] \in Nat
      BY <2>1, LinesBounded DEF Lines
    <3> QED
      BY <3>1, <3>2
  <2>3. printed = Lines
    BY <2>2 DEF NoneSkipped, Running
  <2> QED
    <3>1. \A line \in printed : {line[j] : j \in 0..(k - 1)} \in {set \in SUBSET (0..n) : Cardinality(set) = k}
      BY <2>1, <2>3, LineIsSet
    <3>2. \A set \in SUBSET (0..n) :
            Cardinality(set) = k => \E line \in printed : set = {line[j] : j \in 0..(k - 1)}
      BY <2>1, <2>3, SetHasLine
    <3> QED
      BY <3>1, <3>2
<1> QED
  BY <1>1, <1>2, NoneSkippedStep, Invariance, PTL DEF Spec
=============================================================================
