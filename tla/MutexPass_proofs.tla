-------------------------- MODULE MutexPass_proofs --------------------------
(***************************************************************************)
(* Theorems about MutexPass, for every module and every command line: the  *)
(* pairs the enumeration finds, when the pass does something undefined,    *)
(* what it reports to the pass manager, and what each mode leaves in the   *)
(* place of every instruction.                                             *)
(***************************************************************************)
EXTENDS MutexPass, FiniteSetTheorems, SequenceTheorems, TLAPS

-----------------------------------------------------------------------------
(* Induction without operator parameters *)

\* Every set of naturals has a least element.
LEMMA LeastNat ==
  ASSUME NEW T \in SUBSET Nat, T # {}
  PROVE  \E n \in T : \A m \in T : n <= m
<1> DEFINE Segments == {0..n : n \in T}
<1>1. Segments \subseteq FiniteSubsetsOf(Nat) /\ Segments # {}
  <2>1. \A n \in T : IsFiniteSet(0..n) /\ 0..n \subseteq Nat
    BY FS_Interval
  <2> QED
    BY <2>1 DEF FiniteSubsetsOf
<1>2. PICK X \in Segments : \A Y \in Segments : ~(<<Y, X>> \in StrictSubsetOrdering(Nat))
  BY <1>1, FS_StrictSubsetOrderingWellFounded, WFMin
<1>3. PICK n \in T : X = 0..n
  BY <1>2
<1>4. ASSUME NEW m \in T, m < n PROVE FALSE
  <2>1. 0..m \subseteq 0..n /\ n \in 0..n /\ n \notin 0..m
    BY <1>4
  <2>2. <<0..m, 0..n>> \in StrictSubsetOrdering(Nat)
    BY <2>1 DEF StrictSubsetOrdering
  <2> QED
    BY <1>2, <1>3, <2>2
<1> QED
  BY <1>4

\* A set with 0 and the successors of its elements holds all naturals up to size.
LEMMA UpTo ==
  ASSUME NEW size \in Nat, NEW T, 0 \in T, \A n \in 0..(size - 1) : n \in T => n + 1 \in T
  PROVE  0..size \subseteq T
<1> DEFINE Missing == {n \in 0..size : n \notin T}
<1> SUFFICES ASSUME Missing # {} PROVE FALSE
  OBVIOUS
<1>1. PICK n \in Missing : \A m \in Missing : n <= m
  <2>1. Missing \in SUBSET Nat
    OBVIOUS
  <2> HIDE DEF Missing
  <2> QED
    BY <2>1, LeastNat
<1>2. n # 0 /\ n - 1 \in 0..(size - 1) /\ n - 1 \notin Missing
  BY <1>1
<1>3. n - 1 \in T /\ (n - 1) + 1 = n
  BY <1>1, <1>2
<1> QED
  BY <1>1, <1>2, <1>3

\* A function can be defined by what it is at 0 and how each value follows from the
\* one before.
Solvable(X, base, size, step) ==
  \E f \in [0..size -> X] : f[0] = base /\ \A n \in 1..size : f[n] = step[<<n, f[n - 1]>>]

LEMMA Recursion ==
  ASSUME NEW X, NEW base \in X, NEW size \in Nat, NEW step \in [(1..size) \X X -> X]
  PROVE  Solvable(X, base, size, step)
<1> DEFINE Defined(n) == \E f \in [0..n -> X] :
             f[0] = base /\ \A m \in 1..n : f[m] = step[<<m, f[m - 1]>>]
           T == {n \in 0..size : Defined(n)}
<1>1. 0 \in T
  <2> DEFINE f == [m \in 0..0 |-> base]
  <2>1. f \in [0..0 -> X] /\ f[0] = base /\ \A m \in 1..0 : f[m] = step[<<m, f[m - 1]>>]
    OBVIOUS
  <2>2. Defined(0)
    BY <2>1
  <2> HIDE DEF Defined
  <2> QED
    BY <2>2
<1>2. ASSUME NEW n \in 0..(size - 1), n \in T PROVE n + 1 \in T
  <2>1. PICK f \in [0..n -> X] : f[0] = base /\ \A m \in 1..n : f[m] = step[<<m, f[m - 1]>>]
    BY <1>2
  <2> DEFINE g == [m \in 0..(n + 1) |-> IF m = n + 1 THEN step[<<n + 1, f[n]>>] ELSE f[m]]
  <2>2. n \in Nat /\ n + 1 \in 1..size /\ n + 1 \in 0..size
    BY <1>2
  <2>3. step[<<n + 1, f[n]>>] \in X
    BY <2>2
  <2>4. g \in [0..(n + 1) -> X] /\ g[0] = base
    BY <2>1, <2>2, <2>3
  <2>5. ASSUME NEW m \in 1..(n + 1) PROVE g[m] = step[<<m, g[m - 1]>>]
    <3>1. m - 1 \in 0..n /\ m - 1 # n + 1
      BY <2>2, <2>5
    <3>2. CASE m = n + 1
      <4>1. g[n + 1] = step[<<n + 1, f[n]>>] /\ (n + 1) - 1 = n /\ g[n] = f[n]
        BY <2>2
      <4> HIDE DEF g
      <4> QED
        BY <3>2, <4>1
    <3>3. CASE m # n + 1
      <4>1. m \in 1..n
        BY <2>2, <2>5, <3>3
      <4> QED
        BY <2>1, <3>1, <3>3, <4>1
    <3> QED
      BY <3>2, <3>3
  <2> HIDE DEF g
  <2> QED
    BY <2>2, <2>4, <2>5
<1>3. size \in T
  <2> HIDE DEF T
  <2>1. 0..size \subseteq T
    BY <1>1, <1>2, UpTo
  <2> QED
    BY <2>1
<1> QED
  BY <1>3 DEF Solvable
-----------------------------------------------------------------------------
(* Where the sequences of a sequence begin when they are put behind each other *)

LEMMA OffsetFacts ==
  ASSUME NEW E, NEW seqs \in Seq(Seq(E))
  PROVE  /\ \A j \in 1..(Len(seqs) + 1) : Offset(seqs, j) \in Nat
         /\ Offset(seqs, 1) = 0
         /\ \A j \in 1..Len(seqs) : Offset(seqs, j + 1) = Offset(seqs, j) + Len(seqs[j])
<1> DEFINE Is(f) == f = [g \in 0..Len(seqs) |-> IF g = 0 THEN 0 ELSE f[g - 1] + Len(seqs[g])]
           size  == CHOOSE f : Is(f)
           step  == [p \in (1..Len(seqs)) \X Nat |-> p[2] + Len(seqs[p[1]])]
<1>1. Len(seqs) \in Nat /\ \A j \in 1..Len(seqs) : Len(seqs[j]) \in Nat
  OBVIOUS
<1>2. step \in [(1..Len(seqs)) \X Nat -> Nat]
  BY <1>1
<1>3. PICK f \in [0..Len(seqs) -> Nat] :
        f[0] = 0 /\ \A n \in 1..Len(seqs) : f[n] = step[<<n, f[n - 1]>>]
  <2> HIDE DEF step
  <2>1. Len(seqs) \in Nat /\ 0 \in Nat
    BY <1>1
  <2>2. Solvable(Nat, 0, Len(seqs), step)
    BY <1>2, <2>1, Recursion
  <2> QED
    BY <2>2 DEF Solvable
<1>4. Is(f)
  <2>1. ASSUME NEW n \in 1..Len(seqs) PROVE f[n - 1] \in Nat /\ f[n] = f[n - 1] + Len(seqs[n])
    <3>1. n - 1 \in 0..Len(seqs)
      BY <1>1
    <3>2. f[n - 1] \in Nat
      BY <1>3, <3>1
    <3>3. step[<<n, f[n - 1]>>] = f[n - 1] + Len(seqs[n])
      BY <3>2
    <3> HIDE DEF step
    <3> QED
      BY <1>3, <3>2, <3>3
  <2> QED
    BY <1>1, <1>3, <2>1
<1>5. Is(size)
  <2> HIDE DEF Is
  <2> QED
    BY <1>4
<1>6. \A j : Offset(seqs, j) = size[j - 1]
  BY DEF Offset
<1> HIDE DEF size
<1>7. DOMAIN size = 0..Len(seqs)
  BY <1>5
<1>8. size[0] = 0 /\ \A n \in 1..Len(seqs) : size[n] = size[n - 1] + Len(seqs[n])
  <2>1. \A n \in 0..Len(seqs) : size[n] = IF n = 0 THEN 0 ELSE size[n - 1] + Len(seqs[n])
    BY <1>5
  <2>2. 0 \in 0..Len(seqs) /\ \A n \in 1..Len(seqs) : n \in 0..Len(seqs) /\ n # 0
    BY <1>1
  <2> QED
    BY <2>1, <2>2
<1>9. \A n \in 0..Len(seqs) : size[n] \in Nat
  <2> DEFINE T == {n \in 0..Len(seqs) : size[n] \in Nat}
  <2>1. 0 \in T
    BY <1>1, <1>8
  <2>2. ASSUME NEW n \in 0..(Len(seqs) - 1), n \in T PROVE n + 1 \in T
    <3>1. n + 1 \in 1..Len(seqs) /\ (n + 1) - 1 = n /\ size[n] \in Nat
      BY <1>1, <2>2
    <3>2. size[n + 1] = size[n] + Len(seqs[n + 1])
      BY <1>8, <3>1
    <3> QED
      BY <1>1, <3>1, <3>2
  <2> HIDE DEF T
  <2>3. 0..Len(seqs) \subseteq T
    BY <1>1, <2>1, <2>2, UpTo
  <2> QED
    BY <2>3 DEF T
<1>10. \A j \in 1..(Len(seqs) + 1) : Offset(seqs, j) \in Nat
  <2>1. \A j \in 1..(Len(seqs) + 1) : j - 1 \in 0..Len(seqs)
    BY <1>1
  <2> QED
    BY <1>6, <1>9, <2>1
<1>11. Offset(seqs, 1) = 0
  BY <1>6, <1>8
<1>12. ASSUME NEW j \in 1..Len(seqs) PROVE Offset(seqs, j + 1) = Offset(seqs, j) + Len(seqs[j])
  <2>1. (j + 1) - 1 = j
    BY <1>1
  <2> QED
    BY <1>6, <1>8, <2>1
<1> QED
  BY <1>10, <1>11, <1>12

\* What comes earlier begins earlier.
LEMMA OffsetMonotone ==
  ASSUME NEW E, NEW seqs \in Seq(Seq(E)), NEW j \in 1..Len(seqs)
  PROVE  \A k \in (j + 1)..(Len(seqs) + 1) : Offset(seqs, j) + Len(seqs[j]) <= Offset(seqs, k)
<1> DEFINE bound == Offset(seqs, j) + Len(seqs[j])
           size  == Len(seqs) - j
           T == {n \in 0..size : bound <= Offset(seqs, j + 1 + n)}
<1>1. /\ Len(seqs) \in Nat /\ j \in Nat /\ size \in Nat
      /\ \A k \in 1..Len(seqs) : Len(seqs[k]) \in Nat
  OBVIOUS
<1>2. bound \in Nat /\ \A k \in 1..(Len(seqs) + 1) : Offset(seqs, k) \in Nat
  BY <1>1, OffsetFacts
<1>3. 0 \in T
  <2>1. Offset(seqs, j + 1 + 0) = bound
    BY <1>1, OffsetFacts
  <2> QED
    BY <1>1, <1>2, <2>1
<1>4. ASSUME NEW n \in 0..(size - 1), n \in T PROVE n + 1 \in T
  <2>1. j + 1 + n \in 1..Len(seqs) /\ j + 1 + (n + 1) = (j + 1 + n) + 1
    BY <1>1, <1>4
  <2>2. Offset(seqs, j + 1 + (n + 1)) = Offset(seqs, j + 1 + n) + Len(seqs[j + 1 + n])
    BY <2>1, OffsetFacts
  <2>3. Len(seqs[j + 1 + n]) \in Nat /\ Offset(seqs, j + 1 + n) \in Nat
    BY <1>1, <1>2, <2>1
  <2>4. bound <= Offset(seqs, j + 1 + n) /\ n + 1 \in 0..size /\ bound \in Nat
    <3>1. Len(seqs[j]) \in Nat /\ Offset(seqs, j) \in Nat
      BY <1>1, <1>2
    <3>2. n + 1 \in 0..size
      BY <1>1, <1>4
    <3> QED
      BY <1>4, <3>1, <3>2
  <2> DEFINE here == Offset(seqs, j + 1 + n)
             more == Len(seqs[j + 1 + n])
  <2> HIDE DEF here, more, bound, size
  <2>5. bound <= here + more
    BY <2>3, <2>4 DEF here, more
  <2> QED
    BY <2>2, <2>4, <2>5 DEF here, more
<1>5. 0..size \subseteq T
  <2> HIDE DEF T, size
  <2> QED
    BY <1>1, <1>3, <1>4, UpTo
<1> SUFFICES ASSUME NEW k \in (j + 1)..(Len(seqs) + 1) PROVE bound <= Offset(seqs, k)
  OBVIOUS
<1>6. k - (j + 1) \in 0..size /\ j + 1 + (k - (j + 1)) = k
  BY <1>1
<1> QED
  BY <1>5, <1>6

\* Every place up to the end is in one of the sequences.
LEMMA OffsetFinds ==
  ASSUME NEW E, NEW seqs \in Seq(Seq(E)), NEW n \in 1..Offset(seqs, Len(seqs) + 1)
  PROVE  \E j \in 1..Len(seqs) : \E k \in 1..Len(seqs[j]) : n = Offset(seqs, j) + k
<1> DEFINE Above == {j \in 1..(Len(seqs) + 1) : n <= Offset(seqs, j)}
<1>1. /\ Len(seqs) \in Nat /\ n \in Nat /\ 1 <= n
      /\ \A k \in 1..Len(seqs) : Len(seqs[k]) \in Nat
      /\ \A k \in 1..(Len(seqs) + 1) : Offset(seqs, k) \in Nat
  BY OffsetFacts
<1>2. Above \in SUBSET Nat /\ Above # {}
  BY <1>1
<1>3. PICK j \in Above : \A k \in Above : j <= k
  <2> HIDE DEF Above
  <2> QED
    BY <1>2, LeastNat
<1>4. j # 1
  BY <1>1, OffsetFacts
<1>5. j - 1 \in 1..Len(seqs) /\ j - 1 \in 1..(Len(seqs) + 1) /\ (j - 1) + 1 = j /\ ~(j <= j - 1)
  BY <1>1, <1>4
<1>6. j - 1 \notin Above /\ n <= Offset(seqs, j)
  <2>1. n <= Offset(seqs, j)
    BY <1>3
  <2> HIDE DEF Above
  <2> QED
    BY <1>3, <1>5, <2>1
<1> DEFINE before == Offset(seqs, j - 1)
           size   == Len(seqs[j - 1])
           k == n - before
<1>7. before < n /\ n <= before + size /\ before \in Nat /\ size \in Nat
  <2>1. Offset(seqs, (j - 1) + 1) = before + size
    BY <1>5, OffsetFacts
  <2>2. before \in Nat /\ size \in Nat
    BY <1>1, <1>5
  <2>3. ~(n <= before)
    BY <1>5, <1>6
  <2>4. n <= before + size
    BY <1>5, <1>6, <2>1
  <2> QED
    BY <1>1, <2>2, <2>3, <2>4
<1>8. k \in 1..Len(seqs[j - 1]) /\ n = Offset(seqs, j - 1) + k
  <2>1. k \in 1..size /\ n = before + k
    <3> HIDE DEF before, size
    <3> QED
      BY <1>1, <1>7
  <2> QED
    BY <2>1
<1> QED
  BY <1>5, <1>8
-----------------------------------------------------------------------------
(* Kept *)

\* r[1..size] are those of the first n elements of seq that are in S, in order.
Picks(r, size, seq, n, S) ==
  \E at \in [1..size -> 1..n] :
    /\ \A a, b \in 1..size : a < b => at[a] < at[b]
    /\ \A a \in 1..size : r[a] = seq[at[a]]
    /\ \A m \in 1..n : seq[m] \in S <=> \E a \in 1..size : at[a] = m

LEMMA PicksNone == ASSUME NEW seq, NEW S PROVE Picks(<<>>, 0, seq, 0, S)
<1> DEFINE at == [a \in 1..0 |-> 0]
<1>1. at \in [1..0 -> 1..0]
  OBVIOUS
<1>2. /\ \A a, b \in 1..0 : a < b => at[a] < at[b]
      /\ \A a \in 1..0 : <<>>[a] = seq[at[a]]
      /\ \A m \in 1..0 : seq[m] \in S <=> \E a \in 1..0 : at[a] = m
  OBVIOUS
<1> HIDE DEF at
<1> QED
  BY <1>1, <1>2 DEF Picks

LEMMA PicksNext ==
  ASSUME NEW E, NEW seq \in Seq(E), NEW r \in Seq(E), NEW S, NEW n \in Nat,
         n + 1 \in 1..Len(seq), Picks(r, Len(r), seq, n, S)
  PROVE  /\ seq[n + 1] \in S => Picks(Append(r, seq[n + 1]), Len(r) + 1, seq, n + 1, S)
         /\ seq[n + 1] \notin S => Picks(r, Len(r), seq, n + 1, S)
<1> DEFINE size == Len(r)
<1>1. size \in Nat
  OBVIOUS
<1>2. PICK at \in [1..size -> 1..n] :
        /\ \A a, b \in 1..size : a < b => at[a] < at[b]
        /\ \A a \in 1..size : r[a] = seq[at[a]]
        /\ \A m \in 1..n : seq[m] \in S <=> \E a \in 1..size : at[a] = m
  BY DEF Picks
<1>3. \A a \in 1..size : at[a] \in 1..n /\ at[a] \in 1..(n + 1) /\ at[a] # n + 1
  BY <1>2
<1>4. ASSUME seq[n + 1] \notin S PROVE Picks(r, size, seq, n + 1, S)
  <2>1. at \in [1..size -> 1..(n + 1)]
    BY <1>2, <1>3
  <2>2. \A m \in 1..(n + 1) : seq[m] \in S <=> \E a \in 1..size : at[a] = m
    <3> TAKE m \in 1..(n + 1)
    <3>1. CASE m = n + 1
      BY <1>3, <1>4, <3>1
    <3>2. CASE m \in 1..n
      BY <1>2, <3>2
    <3> QED
      BY <3>1, <3>2
  <2> QED
    BY <1>2, <2>1, <2>2 DEF Picks
<1>5. ASSUME seq[n + 1] \in S PROVE Picks(Append(r, seq[n + 1]), size + 1, seq, n + 1, S)
  <2> DEFINE longer == Append(r, seq[n + 1])
             to == [a \in 1..(size + 1) |-> IF a = size + 1 THEN n + 1 ELSE at[a]]
  <2>1. seq[n + 1] \in E
    OBVIOUS
  <2>2. /\ longer \in Seq(E) /\ Len(longer) = size + 1 /\ longer[size + 1] = seq[n + 1]
        /\ \A a \in 1..size : longer[a] = r[a]
    BY <1>1, <2>1
  <2>3. \A a \in 1..(size + 1) : a # size + 1 => a \in 1..size
    BY <1>1
  <2> HIDE DEF longer, size
  <2>4. /\ to \in [1..(size + 1) -> 1..(n + 1)]
        /\ to[size + 1] = n + 1 /\ \A a \in 1..size : to[a] = at[a]
    BY <1>1, <1>3, <2>3
  <2> HIDE DEF to
  <2>5. \A a, b \in 1..(size + 1) : a < b => to[a] < to[b]
    <3> SUFFICES ASSUME NEW a \in 1..(size + 1), NEW b \in 1..(size + 1), a < b
                 PROVE  to[a] < to[b]
      OBVIOUS
    <3>1. a \in 1..size
      BY <1>1
    <3>2. CASE b = size + 1
      BY <1>3, <2>4, <3>1, <3>2
    <3>3. CASE b # size + 1
      BY <1>2, <2>3, <2>4, <3>1, <3>3
    <3> QED
      BY <3>2, <3>3
  <2>6. \A a \in 1..(size + 1) : longer[a] = seq[to[a]]
    BY <1>2, <2>2, <2>3, <2>4
  <2>7. \A m \in 1..(n + 1) : seq[m] \in S <=> \E a \in 1..(size + 1) : to[a] = m
    <3> TAKE m \in 1..(n + 1)
    <3>1. CASE m = n + 1
      <4>1. size + 1 \in 1..(size + 1)
        BY <1>1
      <4> QED
        BY <1>5, <2>4, <3>1, <4>1
    <3>2. CASE m # n + 1
      <4>1. m \in 1..n
        BY <3>2
      <4>2. (\E a \in 1..size : at[a] = m) <=> \E a \in 1..(size + 1) : to[a] = m
        <5>1. \A a \in 1..size : a \in 1..(size + 1)
          BY <1>1
        <5> QED
          BY <2>3, <2>4, <3>2, <5>1
      <4> QED
        BY <1>2, <4>1, <4>2
    <3> QED
      BY <3>1, <3>2
  <2>8. Picks(longer, size + 1, seq, n + 1, S)
    BY <2>4, <2>5, <2>6, <2>7 DEF Picks
  <2> QED
    BY <2>8 DEF longer
<1> QED
  BY <1>4, <1>5

LEMMA KeptFacts ==
  ASSUME NEW E, NEW seq \in Seq(E), NEW S
  PROVE  Kept(seq, S) \in Seq(E) /\ Picks(Kept(seq, S), Len(Kept(seq, S)), seq, Len(seq), S)
<1> DEFINE Is(f) == f = [n \in 0..Len(seq) |->
             IF n = 0 THEN <<>>
             ELSE IF seq[n] \in S THEN Append(f[n - 1], seq[n]) ELSE f[n - 1]]
           kept == CHOOSE f : Is(f)
           Next1(n, r) == IF seq[n] \in S THEN Append(r, seq[n]) ELSE r
           step == [p \in (1..Len(seq)) \X Seq(E) |-> Next1(p[1], p[2])]
<1>1. Len(seq) \in Nat /\ <<>> \in Seq(E)
  OBVIOUS
<1>2. \A n \in 1..Len(seq) : \A r \in Seq(E) : Next1(n, r) \in Seq(E)
  OBVIOUS
<1>3. step \in [(1..Len(seq)) \X Seq(E) -> Seq(E)]
  <2> HIDE DEF Next1
  <2> QED
    BY <1>2
<1>4. \A n \in 1..Len(seq) : \A r \in Seq(E) : step[<<n, r>>] = Next1(n, r)
  OBVIOUS
<1>5. PICK f \in [0..Len(seq) -> Seq(E)] :
        f[0] = <<>> /\ \A n \in 1..Len(seq) : f[n] = step[<<n, f[n - 1]>>]
  <2> HIDE DEF step
  <2>1. Solvable(Seq(E), <<>>, Len(seq), step)
    BY <1>1, <1>3, Recursion
  <2> QED
    BY <2>1 DEF Solvable
<1>6. Is(f)
  <2>1. ASSUME NEW n \in 1..Len(seq) PROVE f[n] = Next1(n, f[n - 1])
    <3>1. n - 1 \in 0..Len(seq)
      BY <1>1
    <3> HIDE DEF step, Next1
    <3> QED
      BY <1>4, <1>5, <3>1
  <2>2. \A n \in 0..Len(seq) : n # 0 => n \in 1..Len(seq)
    BY <1>1
  <2> QED
    BY <1>5, <2>1, <2>2
<1>7. Is(kept)
  <2> HIDE DEF Is
  <2> QED
    BY <1>6
<1>8. Kept(seq, S) = kept[Len(seq)]
  BY DEF Kept
<1> HIDE DEF kept
<1>9. kept[0] = <<>> /\ \A n \in 1..Len(seq) : kept[n] = Next1(n, kept[n - 1])
  <2>1. \A n \in 0..Len(seq) : kept[n] = IF n = 0 THEN <<>> ELSE Next1(n, kept[n - 1])
    BY <1>7
  <2>2. 0 \in 0..Len(seq) /\ \A n \in 1..Len(seq) : n \in 0..Len(seq) /\ n # 0
    BY <1>1
  <2> QED
    BY <2>1, <2>2
<1> HIDE DEF Is
<1> DEFINE T == {n \in 0..Len(seq) : kept[n] \in Seq(E) /\ Picks(kept[n], Len(kept[n]), seq, n, S)}
<1>10. 0 \in T
  <2>1. Picks(kept[0], Len(kept[0]), seq, 0, S) /\ kept[0] \in Seq(E) /\ 0 \in 0..Len(seq)
    BY <1>1, <1>9, PicksNone
  <2> QED
    BY <2>1
<1>11. ASSUME NEW n \in 0..(Len(seq) - 1), n \in T PROVE n + 1 \in T
  <2>1. n + 1 \in 1..Len(seq) /\ (n + 1) - 1 = n /\ n \in Nat /\ n + 1 \in 0..Len(seq)
    BY <1>1, <1>11
  <2>2. kept[n + 1] = Next1(n + 1, kept[n])
    <3> HIDE DEF Next1
    <3> QED
      BY <1>9, <2>1
  <2>3. kept[n + 1] \in Seq(E)
    BY <1>2, <1>11, <2>1, <2>2
  <2>4. Picks(kept[n + 1], Len(kept[n + 1]), seq, n + 1, S)
    <3>1. seq[n + 1] \in S => Len(kept[n + 1]) = Len(kept[n]) + 1
      BY <1>11, <2>1, <2>2
    <3> QED
      BY <1>11, <2>1, <2>2, <3>1, PicksNext
  <2> QED
    BY <2>1, <2>3, <2>4
<1>12. 0..Len(seq) \subseteq T
  <2> HIDE DEF T
  <2> QED
    BY <1>1, <1>10, <1>11, UpTo
<1> QED
  BY <1>1, <1>8, <1>12
-----------------------------------------------------------------------------
(* FlattenSeq *)

\* r consists of the first n sequences of seqs, each where it begins.
Joins(r, seqs, n) ==
  /\ Len(r) = Offset(seqs, n + 1)
  /\ \A j \in 1..n : \A k \in 1..Len(seqs[j]) : r[Offset(seqs, j) + k] = seqs[j][k]

LEMMA JoinsNext ==
  ASSUME NEW E, NEW seqs \in Seq(Seq(E)), NEW n \in Nat, n + 1 \in 1..Len(seqs),
         NEW r \in Seq(E), Joins(r, seqs, n)
  PROVE  r \o seqs[n + 1] \in Seq(E) /\ Joins(r \o seqs[n + 1], seqs, n + 1)
<1> DEFINE t == seqs[n + 1]
           joined == r \o t
<1>1. Len(seqs) \in Nat /\ t \in Seq(E) /\ Len(r) \in Nat
  OBVIOUS
<1>2. \A j \in 1..Len(seqs) : Len(seqs[j]) \in Nat /\ Offset(seqs, j) \in Nat
  BY OffsetFacts
<1>3. Len(r) = Offset(seqs, n + 1)
  BY DEF Joins
<1> HIDE DEF t
<1>4. /\ joined \in Seq(E) /\ Len(joined) = Len(r) + Len(t)
      /\ \A m \in 1..(Len(r) + Len(t)) : joined[m] = IF m <= Len(r) THEN r[m] ELSE t[m - Len(r)]
  BY <1>1, ConcatProperties
<1> HIDE DEF joined
<1>5. Len(joined) = Offset(seqs, (n + 1) + 1)
  BY <1>3, <1>4, OffsetFacts DEF t
<1>6. ASSUME NEW j \in 1..(n + 1), NEW k \in 1..Len(seqs[j])
      PROVE  joined[Offset(seqs, j) + k] = seqs[j][k]
  <2> DEFINE offset == Offset(seqs, j)
             size   == Len(seqs[j])
  <2>1. offset \in Nat /\ size \in Nat /\ Len(t) \in Nat /\ k \in 1..size
    BY <1>1, <1>2, <1>6
  <2>2. CASE j = n + 1
    <3>1. offset = Len(r) /\ size = Len(t) /\ t[k] = seqs[j][k]
      BY <1>3, <2>2 DEF t
    <3> HIDE DEF offset, size
    <3>2. offset + k \in 1..(Len(r) + Len(t)) /\ ~(offset + k <= Len(r)) /\ (offset + k) - Len(r) = k
      BY <1>1, <2>1, <3>1
    <3>3. joined[offset + k] = t[k]
      BY <1>4, <3>2
    <3> QED
      BY <3>1, <3>3 DEF offset
  <2>3. CASE j # n + 1
    <3>1. j \in 1..n /\ j \in 1..Len(seqs) /\ n + 1 \in (j + 1)..(Len(seqs) + 1)
      BY <1>1, <1>6, <2>3
    <3>2. offset + size <= Len(r)
      BY <1>3, <3>1, OffsetMonotone
    <3>3. r[offset + k] = seqs[j][k]
      BY <3>1 DEF Joins
    <3> HIDE DEF offset, size
    <3>4. offset + k \in 1..(Len(r) + Len(t)) /\ offset + k <= Len(r)
      BY <1>1, <2>1, <3>2
    <3>5. joined[offset + k] = r[offset + k]
      BY <1>4, <3>4
    <3> QED
      BY <3>3, <3>5 DEF offset
  <2> QED
    BY <2>2, <2>3
<1> QED
  BY <1>4, <1>5, <1>6 DEF Joins, joined, t

LEMMA FlattenFacts ==
  ASSUME NEW E, NEW seqs \in Seq(Seq(E))
  PROVE  FlattenSeq(seqs) \in Seq(E) /\ Joins(FlattenSeq(seqs), seqs, Len(seqs))
<1>1. Len(seqs) \in Nat /\ <<>> \in Seq(E) /\ \A n \in 1..Len(seqs) : seqs[n] \in Seq(E)
  OBVIOUS
<1>2. Joins(<<>>, seqs, 0)
  BY OffsetFacts DEF Joins
<1>3. CASE Len(seqs) = 0
  <2>1. seqs = <<>> /\ FlattenSeq(seqs) = seqs
    BY <1>3 DEF FlattenSeq
  <2> QED
    BY <1>1, <1>2, <1>3, <2>1
<1>4. CASE Len(seqs) # 0
  <2> DEFINE Is(f) == f = [k \in 1..Len(seqs) |-> IF k = 1 THEN seqs[k] ELSE f[k - 1] \o seqs[k]]
             flatten == CHOOSE f : Is(f)
             step == [p \in (1..Len(seqs)) \X Seq(E) |-> p[2] \o seqs[p[1]]]
  <2>1. \A n \in 1..Len(seqs) : \A r \in Seq(E) : r \o seqs[n] \in Seq(E)
    BY <1>1, ConcatProperties
  <2>2. step \in [(1..Len(seqs)) \X Seq(E) -> Seq(E)]
    BY <2>1
  <2>3. \A n \in 1..Len(seqs) : \A r \in Seq(E) : step[<<n, r>>] = r \o seqs[n]
    OBVIOUS
  <2>4. PICK g \in [0..Len(seqs) -> Seq(E)] :
          g[0] = <<>> /\ \A n \in 1..Len(seqs) : g[n] = step[<<n, g[n - 1]>>]
    <3> HIDE DEF step
    <3>1. Solvable(Seq(E), <<>>, Len(seqs), step)
      BY <1>1, <2>2, Recursion
    <3> QED
      BY <3>1 DEF Solvable
  <2>5. \A n \in 1..Len(seqs) : g[n] = g[n - 1] \o seqs[n]
    <3>1. \A n \in 1..Len(seqs) : n - 1 \in 0..Len(seqs)
      BY <1>1
    <3> HIDE DEF step
    <3> QED
      BY <2>3, <2>4, <3>1
  <2> DEFINE f == [k \in 1..Len(seqs) |-> g[k]]
  <2>6. Is(f)
    <3>1. \A n \in 1..Len(seqs) : f[n] = IF n = 1 THEN seqs[n] ELSE f[n - 1] \o seqs[n]
      <4> TAKE n \in 1..Len(seqs)
      <4>1. CASE n = 1
        <5>1. 1 \in 1..Len(seqs) /\ 1 - 1 = 0
          BY <1>1, <1>4
        <5>3. g[1] = g[1 - 1] \o seqs[1]
          BY <2>5, <5>1
        <5>4. g[1] = <<>> \o seqs[1]
          BY <2>4, <5>1, <5>3
        <5>2. <<>> \o seqs[1] = seqs[1]
          BY <1>1, <4>1, ConcatEmptySeq
        <5> QED
          BY <4>1, <5>4, <5>2
      <4>2. CASE n # 1
        <5>1. n - 1 \in 1..Len(seqs)
          BY <1>1, <4>2
        <5> QED
          BY <2>5, <4>2, <5>1
      <4> QED
        BY <4>1, <4>2
    <3>2. f = [k \in 1..Len(seqs) |-> f[k]]
      OBVIOUS
    <3> HIDE DEF f
    <3> QED
      BY <3>1, <3>2
  <2>7. Is(flatten)
    <3> HIDE DEF Is, f
    <3> QED
      BY <2>6
  <2>8. FlattenSeq(seqs) = flatten[Len(seqs)]
    BY <1>4 DEF FlattenSeq
  <2> HIDE DEF flatten
  <2>9. \A n \in 1..Len(seqs) : flatten[n] = IF n = 1 THEN seqs[n] ELSE flatten[n - 1] \o seqs[n]
    BY <2>7
  <2> HIDE DEF Is
  <2> DEFINE T == {n \in 0..(Len(seqs) - 1) :
               flatten[n + 1] \in Seq(E) /\ Joins(flatten[n + 1], seqs, n + 1)}
  <2>10. 0 \in T
    <3>1. 0 + 1 \in 1..Len(seqs) /\ 0 \in Nat /\ 0 \in 0..(Len(seqs) - 1)
      BY <1>1, <1>4
    <3>2. <<>> \o seqs[1] = seqs[1]
      BY <1>1, <3>1, ConcatEmptySeq
    <3>3. Joins(<<>> \o seqs[0 + 1], seqs, 0 + 1)
      BY <1>1, <1>2, <3>1, JoinsNext
    <3>4. flatten[0 + 1] = seqs[1] /\ seqs[1] \in Seq(E) /\ 0 + 1 = 1
      BY <1>1, <2>9, <3>1
    <3>5. Joins(flatten[0 + 1], seqs, 0 + 1)
      BY <3>2, <3>3, <3>4
    <3> QED
      BY <3>1, <3>4, <3>5
  <2>11. ASSUME NEW n \in 0..((Len(seqs) - 1) - 1), n \in T PROVE n + 1 \in T
    <3>1. /\ n + 1 \in 0..(Len(seqs) - 1) /\ (n + 1) + 1 \in 1..Len(seqs)
          /\ (n + 1) + 1 # 1 /\ ((n + 1) + 1) - 1 = n + 1 /\ n + 1 \in Nat
      BY <1>1, <2>11
    <3>2. flatten[(n + 1) + 1] = flatten[n + 1] \o seqs[(n + 1) + 1]
      BY <2>9, <3>1
    <3>3. flatten[n + 1] \in Seq(E) /\ Joins(flatten[n + 1], seqs, n + 1)
      BY <2>11
    <3>4. flatten[(n + 1) + 1] \in Seq(E) /\ Joins(flatten[(n + 1) + 1], seqs, (n + 1) + 1)
      BY <3>1, <3>2, <3>3, JoinsNext
    <3> QED
      BY <3>1, <3>4
  <2>12. 0..(Len(seqs) - 1) \subseteq T
    <3>1. Len(seqs) - 1 \in Nat
      BY <1>1, <1>4
    <3> HIDE DEF T
    <3> QED
      BY <2>10, <2>11, <3>1, UpTo
  <2>13. Len(seqs) - 1 \in 0..(Len(seqs) - 1) /\ (Len(seqs) - 1) + 1 = Len(seqs)
    BY <1>1, <1>4
  <2>14. flatten[(Len(seqs) - 1) + 1] \in Seq(E) /\ Joins(flatten[(Len(seqs) - 1) + 1], seqs, (Len(seqs) - 1) + 1)
    BY <2>12, <2>13
  <2> QED
    BY <2>8, <2>13, <2>14
<1> QED
  BY <1>3, <1>4
-----------------------------------------------------------------------------
(* Sorted sequences of instructions, and the pairs of one function *)

Increasing(seq) == \A m, n \in 1..Len(seq) : m < n => seq[m] < seq[n]

LEMMA AsSeq == ASSUME NEW E, NEW n \in Nat, NEW f \in [1..n -> E] PROVE f \in Seq(E) /\ Len(f) = n
  OBVIOUS

LEMMA KeptIncreasing ==
  ASSUME NEW seq \in Seq(Nat), Increasing(seq), NEW S
  PROVE  /\ Kept(seq, S) \in Seq(Nat)
         /\ Increasing(Kept(seq, S))
         /\ ToSet(Kept(seq, S)) = ToSet(seq) \cap S
<1> DEFINE kept == Kept(seq, S)
           size == Len(kept)
<1>1. kept \in Seq(Nat) /\ Picks(kept, size, seq, Len(seq), S)
  BY KeptFacts
<1>2. size \in Nat /\ Len(seq) \in Nat
  BY <1>1
<1>3. DOMAIN kept = 1..size /\ DOMAIN seq = 1..Len(seq)
  BY <1>1
<1> HIDE DEF kept, size
<1>4. PICK at \in [1..size -> 1..Len(seq)] :
        /\ \A a, b \in 1..size : a < b => at[a] < at[b]
        /\ \A a \in 1..size : kept[a] = seq[at[a]]
        /\ \A m \in 1..Len(seq) : seq[m] \in S <=> \E a \in 1..size : at[a] = m
  BY <1>1 DEF Picks
<1>5. \A a \in 1..size : at[a] \in 1..Len(seq)
  BY <1>4
<1>6. \A a, b \in 1..size : a < b => kept[a] < kept[b]
  BY <1>4, <1>5 DEF Increasing
<1>7. ToSet(kept) \subseteq ToSet(seq) \cap S
  <2> SUFFICES ASSUME NEW a \in 1..size PROVE kept[a] \in ToSet(seq) \cap S
    BY <1>3 DEF ToSet
  <2>1. kept[a] = seq[at[a]] /\ seq[at[a]] \in S
    BY <1>4, <1>5
  <2> QED
    BY <1>3, <1>5, <2>1 DEF ToSet
<1>8. ToSet(seq) \cap S \subseteq ToSet(kept)
  <2> SUFFICES ASSUME NEW m \in 1..Len(seq), seq[m] \in S PROVE seq[m] \in ToSet(kept)
    BY <1>3 DEF ToSet
  <2>1. PICK a \in 1..size : at[a] = m
    BY <1>4
  <2> QED
    BY <1>3, <1>4, <2>1 DEF ToSet
<1> QED
  BY <1>1, <1>6, <1>7, <1>8 DEF Increasing, size, kept

LEMMA NotBeyond ==
  ASSUME NEW x \in Nat, NEW y \in Nat, NEW a \in Nat, NEW b \in Nat, NEW size \in Nat,
         1 <= a, b <= size, y + size <= x
  PROVE  ~(x + a < y + b)
  OBVIOUS

\* Two elements of joined sequences are in one sequence, in order, or in two.
Follows(seqs, p, q) ==
  \E j, k \in 1..Len(seqs) : \E a \in 1..Len(seqs[j]) : \E b \in 1..Len(seqs[k]) :
    /\ p = seqs[j][a] /\ q = seqs[k][b]
    /\ j < k \/ (j = k /\ a < b)

LEMMA FlattenOrder ==
  ASSUME NEW E, NEW seqs \in Seq(Seq(E)),
         NEW m \in 1..Len(FlattenSeq(seqs)), NEW n \in 1..Len(FlattenSeq(seqs)), m < n
  PROVE  Follows(seqs, FlattenSeq(seqs)[m], FlattenSeq(seqs)[n])
<1> DEFINE flat == FlattenSeq(seqs)
<1>1. flat \in Seq(E) /\ Joins(flat, seqs, Len(seqs)) /\ Len(seqs) \in Nat
  BY FlattenFacts
<1>2. Len(flat) = Offset(seqs, Len(seqs) + 1)
  BY <1>1 DEF Joins
<1>3. PICK j \in 1..Len(seqs) : \E a \in 1..Len(seqs[j]) : m = Offset(seqs, j) + a
  BY <1>2, OffsetFinds
<1>4. PICK a \in 1..Len(seqs[j]) : m = Offset(seqs, j) + a
  BY <1>3
<1>5. PICK k \in 1..Len(seqs) : \E b \in 1..Len(seqs[k]) : n = Offset(seqs, k) + b
  BY <1>2, OffsetFinds
<1>6. PICK b \in 1..Len(seqs[k]) : n = Offset(seqs, k) + b
  BY <1>5
<1>7. flat[m] = seqs[j][a] /\ flat[n] = seqs[k][b]
  BY <1>1, <1>4, <1>6 DEF Joins
<1>8. Offset(seqs, j) \in Nat /\ Offset(seqs, k) \in Nat
  <2>1. j \in 1..(Len(seqs) + 1) /\ k \in 1..(Len(seqs) + 1)
    BY <1>1
  <2> QED
    BY <2>1, OffsetFacts
<1>9. ~(k < j)
  <2> SUFFICES ASSUME k < j PROVE FALSE
    OBVIOUS
  <2>1. j \in (k + 1)..(Len(seqs) + 1)
    BY <1>1
  <2>2. Offset(seqs, k) + Len(seqs[k]) <= Offset(seqs, j)
    BY <2>1, OffsetMonotone
  <2>3. Len(seqs[k]) \in Nat /\ b <= Len(seqs[k]) /\ a \in Nat /\ b \in Nat /\ 1 <= a
    OBVIOUS
  <2>4. ~(Offset(seqs, j) + a < Offset(seqs, k) + b)
    BY <1>8, <2>2, <2>3, NotBeyond
  <2> QED
    BY <1>4, <1>6, <2>4
<1>10. j = k => a < b
  BY <1>4, <1>6, <1>8
<1>11. j < k \/ (j = k /\ a < b)
  <2>1. j \in Nat /\ k \in Nat
    OBVIOUS
  <2> QED
    BY <1>9, <1>10, <2>1
<1> HIDE DEF flat
<1>12. Follows(seqs, flat[m], flat[n])
  BY ONLY <1>7, <1>11, j \in 1..Len(seqs), k \in 1..Len(seqs), a \in 1..Len(seqs[j]), b \in 1..Len(seqs[k]) DEF Follows
<1> QED
  BY <1>12 DEF flat

LEMMA JoinedSet ==
  ASSUME NEW E, NEW seqs \in Seq(Seq(E))
  PROVE  ToSet(FlattenSeq(seqs)) = UNION {ToSet(seqs[j]) : j \in 1..Len(seqs)}
<1> DEFINE flat == FlattenSeq(seqs)
           Elements(j) == {seqs[j][a] : a \in 1..Len(seqs[j])}
<1>1. flat \in Seq(E) /\ Joins(flat, seqs, Len(seqs)) /\ Len(seqs) \in Nat
  BY FlattenFacts
<1>2. Len(flat) = Offset(seqs, Len(seqs) + 1)
  BY <1>1 DEF Joins
<1>3. DOMAIN flat = 1..Len(flat) /\ \A j \in 1..Len(seqs) : DOMAIN seqs[j] = 1..Len(seqs[j])
  BY <1>1
<1> HIDE DEF flat
<1>4. ToSet(flat) = {flat[m] : m \in 1..Len(flat)}
  BY <1>3 DEF ToSet
<1>5. \A j \in 1..Len(seqs) : ToSet(seqs[j]) = Elements(j)
  BY <1>3 DEF ToSet
<1>6. ASSUME NEW m \in 1..Len(flat) PROVE \E j \in 1..Len(seqs) : flat[m] \in Elements(j)
  <2>1. PICK j \in 1..Len(seqs) : \E a \in 1..Len(seqs[j]) : m = Offset(seqs, j) + a
    BY <1>2, <1>6, OffsetFinds
  <2>2. PICK a \in 1..Len(seqs[j]) : m = Offset(seqs, j) + a
    BY <2>1
  <2>3. flat[m] = seqs[j][a]
    BY <1>1, <2>2 DEF Joins
  <2> QED
    BY <2>3
<1>7. ASSUME NEW j \in 1..Len(seqs), NEW a \in 1..Len(seqs[j])
      PROVE  \E m \in 1..Len(flat) : seqs[j][a] = flat[m]
  <2>1. flat[Offset(seqs, j) + a] = seqs[j][a]
    BY <1>1 DEF Joins
  <2>2. j \in 1..(Len(seqs) + 1) /\ Len(seqs) + 1 \in (j + 1)..(Len(seqs) + 1)
    BY <1>1
  <2>3. Offset(seqs, j) \in Nat
    BY <2>2, OffsetFacts
  <2>4. Offset(seqs, j) + Len(seqs[j]) <= Len(flat)
    BY <1>2, <2>2, OffsetMonotone
  <2>5. Offset(seqs, j) + a \in 1..Len(flat)
    <3>1. Len(seqs[j]) \in Nat /\ Len(flat) \in Nat
      BY <1>1
    <3> QED
      BY <2>3, <2>4, <3>1
  <2> QED
    BY <2>1, <2>5
<1>8. ToSet(flat) \subseteq UNION {Elements(j) : j \in 1..Len(seqs)}
  <2> HIDE DEF Elements
  <2>1. ASSUME NEW e \in ToSet(flat) PROVE \E j \in 1..Len(seqs) : e \in Elements(j)
    <3>1. PICK m \in 1..Len(flat) : e = flat[m]
      BY <1>4
    <3> QED
      BY <1>6, <3>1
  <2> QED
    BY ONLY <2>1
<1>9. UNION {Elements(j) : j \in 1..Len(seqs)} \subseteq ToSet(flat)
  <2> SUFFICES ASSUME NEW j \in 1..Len(seqs), NEW a \in 1..Len(seqs[j]) PROVE seqs[j][a] \in ToSet(flat)
    OBVIOUS
  <2>1. PICK m \in 1..Len(flat) : seqs[j][a] = flat[m]
    BY <1>7
  <2> QED
    BY <1>4, <2>1
<1>10. ToSet(flat) = UNION {ToSet(seqs[j]) : j \in 1..Len(seqs)}
  <2> HIDE DEF Elements
  <2> QED
    BY <1>5, <1>8, <1>9
<1> QED
  BY <1>10 DEF flat

PairType == [lock : Nat, unlock : Nat]

Ordered(pairs) == \A m, n \in 1..Len(pairs) : m < n => Earlier(pairs[m], pairs[n])

Pairable(locks, others, op) ==
  {p \in [lock : locks, unlock : others] :
     IsLockCall(op[p.lock]) /\ IsLockUnlockPair(op[p.lock], op[p.unlock])}

\* Each lock is paired with each unlock that fits it, once, in order.
LEMMA PairsFromFacts ==
  ASSUME NEW locks \in Seq(Nat), Increasing(locks), NEW others \in Seq(Nat), Increasing(others),
         NEW op
  PROVE  /\ PairsFrom(locks, others, op) \in Seq(PairType)
         /\ ToSet(PairsFrom(locks, others, op)) = Pairable(ToSet(locks), ToSet(others), op)
         /\ Ordered(PairsFrom(locks, others, op))
<1> DEFINE Fits(j) == {o \in ToSet(others) : IsLockUnlockPair(op[locks[j]], op[o])}
           unlocks(j) == Kept(others, Fits(j))
           PairsAt(j) == IF ~IsLockCall(op[locks[j]]) THEN <<>>
                       ELSE [k \in 1..Len(unlocks(j)) |-> [lock |-> locks[j], unlock |-> unlocks(j)[k]]]
           seqs == [j \in 1..Len(locks) |-> PairsAt(j)]
<1>1. PairsFrom(locks, others, op) = FlattenSeq(seqs)
  BY DEF PairsFrom
<1>2. /\ Len(locks) \in Nat /\ DOMAIN locks = 1..Len(locks)
      /\ \A j \in 1..Len(locks) : locks[j] \in Nat
  OBVIOUS
<1>3. ASSUME NEW j \in 1..Len(locks)
      PROVE  /\ unlocks(j) \in Seq(Nat) /\ Increasing(unlocks(j))
             /\ ToSet(unlocks(j)) = Fits(j)
             /\ Len(unlocks(j)) \in Nat /\ DOMAIN unlocks(j) = 1..Len(unlocks(j))
  <2>1. unlocks(j) \in Seq(Nat) /\ Increasing(unlocks(j))
    BY KeptIncreasing
  <2>2. ToSet(unlocks(j)) = ToSet(others) \cap Fits(j)
    <3> HIDE DEF Fits
    <3> QED
      BY KeptIncreasing
  <2>3. Len(unlocks(j)) \in Nat /\ DOMAIN unlocks(j) = 1..Len(unlocks(j))
    BY <2>1
  <2> QED
    BY <2>1, <2>2, <2>3
<1> HIDE DEF unlocks
<1>4. ASSUME NEW j \in 1..Len(locks)
      PROVE  /\ PairsAt(j) \in Seq(PairType)
             /\ ~IsLockCall(op[locks[j]]) => Len(PairsAt(j)) = 0
             /\ IsLockCall(op[locks[j]]) => Len(PairsAt(j)) = Len(unlocks(j))
             /\ \A k \in 1..Len(PairsAt(j)) :
                  k \in 1..Len(unlocks(j)) /\ PairsAt(j)[k] = [lock |-> locks[j], unlock |-> unlocks(j)[k]]
  <2>1. CASE IsLockCall(op[locks[j]])
    <3> DEFINE row == [k \in 1..Len(unlocks(j)) |-> [lock |-> locks[j], unlock |-> unlocks(j)[k]]]
    <3>1. \A k \in 1..Len(unlocks(j)) : unlocks(j)[k] \in Nat
      BY <1>3
    <3>2. row \in [1..Len(unlocks(j)) -> PairType]
      BY <1>2, <3>1 DEF PairType
    <3>5. Len(unlocks(j)) \in Nat
      BY <1>3
    <3>3. row \in Seq(PairType) /\ Len(row) = Len(unlocks(j))
      <4> DEFINE size == Len(unlocks(j))
      <4>1. size \in Nat /\ row \in [1..size -> PairType]
        BY <3>2, <3>5
      <4> HIDE DEF size, row
      <4> QED
        BY <4>1, AsSeq DEF size
    <3>4. PairsAt(j) = row
      BY <2>1
    <3> QED
      BY <2>1, <3>3, <3>4
  <2>2. CASE ~IsLockCall(op[locks[j]])
    <3>1. PairsAt(j) = <<>>
      BY <2>2
    <3> QED
      BY <2>2, <3>1
  <2> QED
    BY <2>1, <2>2
<1> HIDE DEF PairsAt
<1>5. /\ seqs \in Seq(Seq(PairType)) /\ Len(seqs) = Len(locks)
      /\ \A j \in 1..Len(locks) : seqs[j] = PairsAt(j)
  BY <1>2, <1>4
<1> HIDE DEF seqs
<1>12. seqs \in Seq(Seq(PairType))
  BY <1>5
<1>6. FlattenSeq(seqs) \in Seq(PairType)
  BY <1>5, FlattenFacts
<1>7. Ordered(FlattenSeq(seqs))
  <2> SUFFICES ASSUME NEW m \in 1..Len(FlattenSeq(seqs)), NEW n \in 1..Len(FlattenSeq(seqs)), m < n
               PROVE  Earlier(FlattenSeq(seqs)[m], FlattenSeq(seqs)[n])
    BY DEF Ordered
  <2>1. PICK j, k \in 1..Len(seqs) : \E a \in 1..Len(seqs[j]) : \E b \in 1..Len(seqs[k]) :
           /\ FlattenSeq(seqs)[m] = seqs[j][a] /\ FlattenSeq(seqs)[n] = seqs[k][b]
           /\ j < k \/ (j = k /\ a < b)
    <3>1. Follows(seqs, FlattenSeq(seqs)[m], FlattenSeq(seqs)[n])
      BY <1>12, FlattenOrder
    <3> DEFINE p == FlattenSeq(seqs)[m]
               q == FlattenSeq(seqs)[n]
    <3> HIDE DEF p, q
    <3>2. Follows(seqs, p, q)
      BY <3>1 DEF p, q
    <3>3. \E j, k \in 1..Len(seqs) : \E a \in 1..Len(seqs[j]) : \E b \in 1..Len(seqs[k]) :
           p = seqs[j][a] /\ q = seqs[k][b] /\ (j < k \/ (j = k /\ a < b))
      BY <3>2 DEF Follows
    <3> QED
      BY <3>3 DEF p, q
  <2>2. PICK a \in 1..Len(seqs[j]), b \in 1..Len(seqs[k]) :
           /\ FlattenSeq(seqs)[m] = seqs[j][a] /\ FlattenSeq(seqs)[n] = seqs[k][b]
           /\ j < k \/ (j = k /\ a < b)
    BY <2>1
  <2>3. j \in 1..Len(locks) /\ k \in 1..Len(locks) /\ a \in 1..Len(PairsAt(j)) /\ b \in 1..Len(PairsAt(k))
    BY <1>5
  <2>4. /\ PairsAt(j)[a] = [lock |-> locks[j], unlock |-> unlocks(j)[a]]
        /\ PairsAt(k)[b] = [lock |-> locks[k], unlock |-> unlocks(k)[b]]
        /\ a \in 1..Len(unlocks(j)) /\ b \in 1..Len(unlocks(k))
    BY <1>4, <2>3
  <2>7. /\ FlattenSeq(seqs)[m] = [lock |-> locks[j], unlock |-> unlocks(j)[a]]
        /\ FlattenSeq(seqs)[n] = [lock |-> locks[k], unlock |-> unlocks(k)[b]]
    BY <1>5, <2>2, <2>3, <2>4
  <2>8. locks[j] < locks[k] \/ (locks[j] = locks[k] /\ unlocks(j)[a] < unlocks(k)[b]) =>
          Earlier(FlattenSeq(seqs)[m], FlattenSeq(seqs)[n])
    BY <2>7 DEF Earlier
  <2>5. CASE j < k
    <3>1. locks[j] < locks[k]
      BY <2>3, <2>5 DEF Increasing
    <3> QED
      BY <2>8, <3>1
  <2>6. CASE j = k /\ a < b
    <3>1. unlocks(j)[a] < unlocks(j)[b]
      BY <1>3, <2>3, <2>4, <2>6 DEF Increasing
    <3> QED
      BY <2>6, <2>8, <3>1
  <2> QED
    BY <2>2, <2>5, <2>6
<1>8. ASSUME NEW j \in 1..Len(locks)
      PROVE  ToSet(PairsAt(j)) = IF IsLockCall(op[locks[j]])
                               THEN {[lock |-> locks[j], unlock |-> o] : o \in Fits(j)} ELSE {}
  <2> HIDE DEF Fits
  <2>1. DOMAIN PairsAt(j) = 1..Len(PairsAt(j))
    BY <1>4
  <2>2. ToSet(PairsAt(j)) = {PairsAt(j)[k] : k \in 1..Len(PairsAt(j))}
    BY <2>1 DEF ToSet
  <2>3. CASE ~IsLockCall(op[locks[j]])
    BY <1>4, <2>2, <2>3
  <2>4. CASE IsLockCall(op[locks[j]])
    <3>1. Fits(j) = {unlocks(j)[k] : k \in 1..Len(unlocks(j))}
      BY <1>3 DEF ToSet
    <3>2. /\ Len(PairsAt(j)) = Len(unlocks(j))
          /\ \A k \in 1..Len(unlocks(j)) : PairsAt(j)[k] = [lock |-> locks[j], unlock |-> unlocks(j)[k]]
      BY <1>4, <2>4
    <3> DEFINE pair(o) == [lock |-> locks[j], unlock |-> o]
               size == Len(unlocks(j))
    <3>3. {pair(o) : o \in Fits(j)} = {pair(unlocks(j)[k]) : k \in 1..size}
      BY <3>1
    <3>4. ToSet(PairsAt(j)) = {pair(unlocks(j)[k]) : k \in 1..size}
      BY <2>2, <3>2
    <3> QED
      BY <2>4, <3>3, <3>4
  <2> QED
    BY <2>3, <2>4
<1>9. ToSet(FlattenSeq(seqs)) = UNION {ToSet(PairsAt(j)) : j \in 1..Len(locks)}
  <2>1. ToSet(FlattenSeq(seqs)) = UNION {ToSet(seqs[j]) : j \in 1..Len(seqs)}
    BY <1>12, JoinedSet
  <2> QED
    BY <1>5, <2>1
<1>10. ToSet(locks) = {locks[j] : j \in 1..Len(locks)}
  BY <1>2 DEF ToSet
<1>11. UNION {ToSet(PairsAt(j)) : j \in 1..Len(locks)} = Pairable(ToSet(locks), ToSet(others), op)
  <2>1. ASSUME NEW p \in UNION {ToSet(PairsAt(j)) : j \in 1..Len(locks)}
        PROVE  p \in Pairable(ToSet(locks), ToSet(others), op)
    <3>1. PICK j \in 1..Len(locks) : p \in ToSet(PairsAt(j))
      OBVIOUS
    <3>2. IsLockCall(op[locks[j]])
      BY <1>8, <3>1
    <3>3. PICK o \in Fits(j) : p = [lock |-> locks[j], unlock |-> o]
      BY <1>8, <3>1, <3>2
    <3>4. locks[j] \in ToSet(locks) /\ o \in ToSet(others) /\ IsLockUnlockPair(op[locks[j]], op[o])
      BY <1>10, <3>3
    <3>5. p.lock = locks[j] /\ p.unlock = o
      BY <3>3
    <3> QED
      BY <3>2, <3>3, <3>4, <3>5 DEF Pairable
  <2>2. ASSUME NEW p \in Pairable(ToSet(locks), ToSet(others), op)
        PROVE  p \in UNION {ToSet(PairsAt(j)) : j \in 1..Len(locks)}
    <3>1. /\ p = [lock |-> p.lock, unlock |-> p.unlock] /\ p.lock \in ToSet(locks)
          /\ p.unlock \in ToSet(others)
          /\ IsLockCall(op[p.lock]) /\ IsLockUnlockPair(op[p.lock], op[p.unlock])
      BY DEF Pairable
    <3>2. PICK j \in 1..Len(locks) : p.lock = locks[j]
      BY <1>10, <3>1
    <3>3. p.unlock \in Fits(j)
      BY <3>1, <3>2
    <3> HIDE DEF Fits
    <3>4. p \in ToSet(PairsAt(j))
      BY <1>8, <3>1, <3>2, <3>3
    <3> QED
      BY <3>4
  <2> QED
    BY <2>1, <2>2
<1> QED
  BY <1>1, <1>6, <1>7, <1>9, <1>11
-----------------------------------------------------------------------------
(* The instructions of a module before any mutation *)

LEMMA NumberedFacts ==
  ASSUME NEW prog \in Seq(Seq(Op)), NEW f \in 1..Len(prog)
  PROVE  /\ Offset(prog, f) \in Nat /\ Len(prog[f]) \in Nat
         /\ Numbered(prog)[f] \in Seq(Nat)
         /\ Len(Numbered(prog)[f]) = Len(prog[f])
         /\ \A n \in 1..Len(prog[f]) : Numbered(prog)[f][n] = Offset(prog, f) + n
         /\ Increasing(Numbered(prog)[f])
         /\ ToSet(Numbered(prog)[f]) = (Offset(prog, f) + 1)..Offset(prog, f + 1)
<1> DEFINE body == [n \in 1..Len(prog[f]) |-> Offset(prog, f) + n]
           offset == Offset(prog, f)
           size   == Len(prog[f])
<1>1. Numbered(prog)[f] = body
  BY DEF Numbered
<1>2. offset \in Nat /\ size \in Nat /\ Offset(prog, f + 1) = offset + size
  <2>1. Len(prog) \in Nat /\ f \in 1..(Len(prog) + 1)
    OBVIOUS
  <2> QED
    BY <2>1, OffsetFacts
<1>3. body = [n \in 1..size |-> offset + n]
  OBVIOUS
<1> HIDE DEF body, offset, size
<1>4. body \in [1..size -> Nat]
  BY <1>2, <1>3
<1>5. body \in Seq(Nat) /\ Len(body) = size
  BY <1>2, <1>4, AsSeq
<1>6. \A n \in 1..size : body[n] = offset + n
  BY <1>3
<1>7. Increasing(body)
  BY <1>2, <1>5, <1>6 DEF Increasing
<1>8. ToSet(body) = (offset + 1)..(offset + size)
  <2>1. ToSet(body) = {body[n] : n \in 1..size}
    BY <1>4 DEF ToSet
  <2>2. \A m \in (offset + 1)..(offset + size) : m - offset \in 1..size /\ body[m - offset] = m
    BY <1>2, <1>6
  <2>3. \A n \in 1..size : body[n] \in (offset + 1)..(offset + size)
    BY <1>2, <1>6
  <2> QED
    BY <2>1, <2>2, <2>3
<1> QED
  BY <1>1, <1>2, <1>5, <1>6, <1>7, <1>8 DEF offset, size

LEMMA LoadedFacts ==
  ASSUME NEW prog \in Seq(Seq(Op))
  PROVE  /\ Loaded(prog) = [body |-> Numbered(prog), op |-> FlattenSeq(prog), freed |-> {}, fault |-> "none"]
         /\ Len(Numbered(prog)) = Len(prog) /\ Numbered(prog) \in Seq(Seq(Nat))
         /\ FlattenSeq(prog) \in Seq(Op)
         /\ Len(FlattenSeq(prog)) = Offset(prog, Len(prog) + 1)
         /\ \A f \in 1..Len(prog) : \A n \in 1..Len(prog[f]) :
              FlattenSeq(prog)[Offset(prog, f) + n] = prog[f][n]
<1>1. FlattenSeq(prog) \in Seq(Op) /\ Joins(FlattenSeq(prog), prog, Len(prog))
  BY FlattenFacts
<1>2. \A f \in 1..Len(prog) : Numbered(prog)[f] \in Seq(Nat)
  BY NumberedFacts
<1>3. Len(prog) \in Nat /\ Numbered(prog) = [f \in 1..Len(prog) |-> Numbered(prog)[f]]
  BY DEF Numbered
<1>4. Numbered(prog) \in [1..Len(prog) -> Seq(Nat)]
  BY <1>2, <1>3
<1>5. Numbered(prog) \in Seq(Seq(Nat)) /\ Len(Numbered(prog)) = Len(prog)
  BY <1>3, <1>4, AsSeq
<1> QED
  BY <1>1, <1>5 DEF Loaded, Joins

\* The numbers of a function are below those of the next ones.
LEMMA FunctionsApart ==
  ASSUME NEW prog \in Seq(Seq(Op)), NEW f \in 1..Len(prog), NEW g \in 1..Len(prog), f < g,
         NEW a \in ToSet(Numbered(prog)[f]), NEW b \in ToSet(Numbered(prog)[g])
  PROVE  a < b
<1>1. Len(prog) \in Nat /\ f + 1 \in 1..(Len(prog) + 1) /\ g \in (f + 1)..(Len(prog) + 1)
  OBVIOUS
<1>2. Offset(prog, f + 1) = Offset(prog, f) + Len(prog[f])
  BY OffsetFacts
<1>3. Offset(prog, f) + Len(prog[f]) <= Offset(prog, g)
  BY <1>1, OffsetMonotone
<1>4. a \in (Offset(prog, f) + 1)..Offset(prog, f + 1) /\ b \in (Offset(prog, g) + 1)..Offset(prog, g + 1)
  BY NumberedFacts
<1>5. /\ Offset(prog, f) \in Nat /\ Offset(prog, f + 1) \in Nat
      /\ Offset(prog, g) \in Nat /\ Offset(prog, g + 1) \in Nat
  <2>1. \A h \in 1..(Len(prog) + 1) : Offset(prog, h) \in Nat
    BY OffsetFacts
  <2>2. {f, f + 1, g, g + 1} \subseteq 1..(Len(prog) + 1)
    BY <1>1
  <2> QED
    BY <2>1, <2>2
<1> DEFINE x1 == Offset(prog, f)
           x2 == Offset(prog, f + 1)
           y1 == Offset(prog, g)
           y2 == Offset(prog, g + 1)
<1>6. a \in (x1 + 1)..x2 /\ b \in (y1 + 1)..y2 /\ x2 <= y1 /\ {x1, x2, y1, y2} \subseteq Nat
  BY <1>2, <1>3, <1>4, <1>5
<1> HIDE DEF x1, x2, y1, y2
<1> QED
  BY <1>6
-----------------------------------------------------------------------------
(* The enumeration of the pairs *)

\* The vectors after the functions up to last.
PairsUpTo(last) ==
  \A kind \in Kinds :
    /\ lockPairs[kind] \in Seq(PairType)
    /\ ToSet(lockPairs[kind]) = UNION {FunctionPairs(kind, f) : f \in 1..last}
    /\ Ordered(lockPairs[kind])

PairsInv ==
  /\ cmd \in Commands /\ program \in Programs
  /\ pc \in {"args", "enumerate"} => ir = Loaded(program) /\ func \in Nat /\ PairsUpTo(func)
  /\ pc = "args" => func = 0
  /\ pc = "enumerate" => func < Len(program)
  /\ Enumerated => PairsUpTo(Len(program))

\* MutexInsts holds the locks and unlocks of a function.
LEMMA MutexInstsFacts ==
  ASSUME NEW body \in Seq(Nat), Increasing(body), NEW op, NEW invoke
  PROVE  /\ MutexInsts(body, op, invoke) \in Seq(Nat)
         /\ Increasing(MutexInsts(body, op, invoke))
         /\ ToSet(MutexInsts(body, op, invoke)) =
              {inst \in ToSet(body) : IsMatch(op[inst]) /\ op[inst].invoke = invoke}
<1> DEFINE S == {inst \in ToSet(body) : IsMatch(op[inst]) /\ op[inst].invoke = invoke}
<1>1. MutexInsts(body, op, invoke) = Kept(body, S)
  BY DEF MutexInsts
<1>2. ToSet(body) \cap S = S
  OBVIOUS
<1> HIDE DEF S
<1>3. /\ Kept(body, S) \in Seq(Nat) /\ Increasing(Kept(body, S))
      /\ ToSet(Kept(body, S)) = ToSet(body) \cap S
  BY KeptIncreasing
<1> QED
  BY <1>1, <1>2, <1>3 DEF S

\* What the vectors get for one function.
LEMMA FunctionPairsFacts ==
  ASSUME program \in Programs, NEW f \in 1..Len(program), NEW kind \in Kinds
  PROVE  LET found == PairsFrom(MutexInsts(Original(f), OriginalOp, LockIsInvoke(kind)),
                                MutexInsts(Original(f), OriginalOp, UnlockIsInvoke(kind)), OriginalOp)
         IN  /\ found \in Seq(PairType)
             /\ ToSet(found) = FunctionPairs(kind, f)
             /\ Ordered(found)
<1> DEFINE op == OriginalOp
           locks  == MutexInsts(Original(f), op, LockIsInvoke(kind))
           others == MutexInsts(Original(f), op, UnlockIsInvoke(kind))
           found  == PairsFrom(locks, others, op)
<1>1. program \in Seq(Seq(Op))
  BY ProgramAssumption
<1>2. Original(f) \in Seq(Nat) /\ Increasing(Original(f))
  BY <1>1, NumberedFacts DEF Original
<1>3. /\ locks \in Seq(Nat) /\ Increasing(locks)
      /\ ToSet(locks) = {inst \in ToSet(Original(f)) : IsMatch(op[inst]) /\ op[inst].invoke = LockIsInvoke(kind)}
  BY <1>2, MutexInstsFacts
<1>4. /\ others \in Seq(Nat) /\ Increasing(others)
      /\ ToSet(others) = {inst \in ToSet(Original(f)) : IsMatch(op[inst]) /\ op[inst].invoke = UnlockIsInvoke(kind)}
  BY <1>2, MutexInstsFacts
<1> HIDE DEF locks, others
<1>5. /\ found \in Seq(PairType) /\ Ordered(found)
      /\ ToSet(found) = Pairable(ToSet(locks), ToSet(others), op)
  BY <1>3, <1>4, PairsFromFacts
<1>6. \A inst \in ToSet(Original(f)) : op[inst] \in Op
  <2>1. op \in Seq(Op) /\ Len(op) = Offset(program, Len(program) + 1)
    BY <1>1, LoadedFacts DEF OriginalOp
  <2>2. ToSet(Original(f)) = (Offset(program, f) + 1)..Offset(program, f + 1)
    BY <1>1, NumberedFacts DEF Original
  <2>3. /\ Offset(program, f + 1) = Offset(program, f) + Len(program[f])
        /\ Offset(program, f) \in Nat /\ Len(program[f]) \in Nat /\ Len(program) \in Nat
    BY <1>1, OffsetFacts, NumberedFacts
  <2>4. Offset(program, f) + Len(program[f]) <= Offset(program, Len(program) + 1)
    <3>1. Len(program) + 1 \in (f + 1)..(Len(program) + 1)
      BY <2>3
    <3> QED
      BY <1>1, <3>1, OffsetMonotone
  <2> HIDE DEF op
  <2> DEFINE first == Offset(program, f)
             last  == Offset(program, f + 1)
  <2>5. Len(op) \in Nat /\ first \in Nat /\ last \in Nat /\ last <= Len(op)
    BY <2>1, <2>3, <2>4
  <2> HIDE DEF first, last
  <2>6. (first + 1)..last \subseteq 1..Len(op)
    BY <2>5
  <2>7. \A n \in 1..Len(op) : op[n] \in Op
    BY <2>1
  <2> QED
    BY <2>2, <2>6, <2>7 DEF first, last
<1> HIDE DEF op
<1> DEFINE body == ToSet(Original(f))
           L == LockIsInvoke(kind)
           U == UnlockIsInvoke(kind)
<1>7. \A p \in body : op[p].args \in Nat
  BY <1>6 DEF Op
<1> HIDE DEF body, L, U
<1>8. Ends("lock", L, f) = {p \in body : op[p].callee = "lock" /\ op[p].invoke = L /\ op[p].args > 0}
  BY DEF Ends, body, op
<1>9. Ends("unlock", U, f) = {p \in body : op[p].callee = "unlock" /\ op[p].invoke = U /\ op[p].args > 0}
  BY DEF Ends, body, op
<1>10. FunctionPairs(kind, f) =
         {p \in [lock : Ends("lock", L, f), unlock : Ends("unlock", U, f)] :
            op[p.lock].lib = op[p.unlock].lib /\ op[p.lock].mutex = op[p.unlock].mutex}
  BY DEF FunctionPairs, L, U, op
<1>11. ToSet(locks) = {p \in body : op[p].callee \in {"lock", "unlock"} /\ op[p].invoke = L}
  BY <1>3 DEF body, L, IsMatch
<1>12. ToSet(others) = {p \in body : op[p].callee \in {"lock", "unlock"} /\ op[p].invoke = U}
  BY <1>4 DEF body, U, IsMatch
<1>13. Pairable(ToSet(locks), ToSet(others), op) \subseteq FunctionPairs(kind, f)
  <2> SUFFICES ASSUME NEW p \in Pairable(ToSet(locks), ToSet(others), op)
               PROVE  p \in FunctionPairs(kind, f)
    OBVIOUS
  <2>1. /\ p \in [lock : ToSet(locks), unlock : ToSet(others)]
        /\ p.lock \in ToSet(locks) /\ p.unlock \in ToSet(others)
        /\ op[p.lock].callee = "lock" /\ op[p.unlock].callee # "lock"
        /\ op[p.lock].args >= 1 /\ op[p.unlock].args >= 1
        /\ op[p.lock].lib = op[p.unlock].lib /\ op[p.lock].mutex = op[p.unlock].mutex
    BY DEF Pairable, IsLockCall, IsLockUnlockPair
  <2>2. p.lock \in body /\ op[p.lock].invoke = L /\ p.unlock \in body /\ op[p.unlock].invoke = U
        /\ op[p.unlock].callee = "unlock"
    BY <1>11, <1>12, <2>1
  <2>3. op[p.lock].args > 0 /\ op[p.unlock].args > 0
    BY <1>7, <2>1, <2>2
  <2>4. p.lock \in Ends("lock", L, f) /\ p.unlock \in Ends("unlock", U, f)
    BY <1>8, <1>9, <2>1, <2>2, <2>3
  <2> QED
    BY <1>10, <2>1, <2>4
<1>14. FunctionPairs(kind, f) \subseteq Pairable(ToSet(locks), ToSet(others), op)
  <2> SUFFICES ASSUME NEW p \in FunctionPairs(kind, f)
               PROVE  p \in Pairable(ToSet(locks), ToSet(others), op)
    OBVIOUS
  <2>1. /\ p \in [lock : Ends("lock", L, f), unlock : Ends("unlock", U, f)]
        /\ p.lock \in Ends("lock", L, f) /\ p.unlock \in Ends("unlock", U, f)
        /\ op[p.lock].lib = op[p.unlock].lib /\ op[p.lock].mutex = op[p.unlock].mutex
    BY <1>10
  <2>2. /\ p.lock \in body /\ op[p.lock].callee = "lock" /\ op[p.lock].invoke = L /\ op[p.lock].args > 0
        /\ p.unlock \in body /\ op[p.unlock].callee = "unlock" /\ op[p.unlock].invoke = U
        /\ op[p.unlock].args > 0
    BY <1>8, <1>9, <2>1
  <2>3. op[p.lock].args >= 1 /\ op[p.unlock].args >= 1
    BY <1>7, <2>2
  <2>4. p.lock \in ToSet(locks) /\ p.unlock \in ToSet(others)
    BY <1>11, <1>12, <2>2
  <2> QED
    BY <2>1, <2>2, <2>3, <2>4 DEF Pairable, IsLockCall, IsLockUnlockPair
<1> QED
  BY <1>5, <1>13, <1>14 DEF op, locks, others

\* Sorted vectors stay sorted when what is appended comes later.
LEMMA AppendPairs ==
  ASSUME NEW s \in Seq(PairType), NEW t \in Seq(PairType), Ordered(s), Ordered(t),
         \A p \in ToSet(s) : \A q \in ToSet(t) : p.lock < q.lock
  PROVE  /\ s \o t \in Seq(PairType)
         /\ ToSet(s \o t) = ToSet(s) \union ToSet(t)
         /\ Ordered(s \o t)
<1> DEFINE u == s \o t
           m == Len(s)
           n == Len(t)
<1>1. m \in Nat /\ n \in Nat /\ DOMAIN s = 1..m /\ DOMAIN t = 1..n
  OBVIOUS
<1>2. u \in Seq(PairType) /\ Len(u) = m + n
      /\ \A k \in 1..(m + n) : u[k] = IF k <= m THEN s[k] ELSE t[k - m]
  BY ConcatProperties
<1>3. DOMAIN u = 1..(m + n)
  BY <1>2
<1> HIDE DEF u
<1>4. ToSet(s) = {s[k] : k \in 1..m} /\ ToSet(t) = {t[k] : k \in 1..n} /\ ToSet(u) = {u[k] : k \in 1..(m + n)}
  BY <1>1, <1>3 DEF ToSet
<1>5. Ordered(u) <=> \A a, b \in 1..(m + n) : a < b => Earlier(u[a], u[b])
  BY <1>2 DEF Ordered
<1>6. /\ \A a, b \in 1..m : a < b => Earlier(s[a], s[b])
      /\ \A a, b \in 1..n : a < b => Earlier(t[a], t[b])
  BY DEF Ordered
<1> HIDE DEF m, n
<1>7. /\ \A k \in 1..m : k \in 1..(m + n) /\ u[k] = s[k]
      /\ \A k \in 1..n : m + k \in 1..(m + n) /\ u[m + k] = t[k]
  <2>1. ASSUME NEW k \in 1..n PROVE m + k \in 1..(m + n) /\ u[m + k] = t[k]
    <3>1. m + k \in 1..(m + n) /\ ~(m + k <= m) /\ (m + k) - m = k
      BY <1>1
    <3> QED
      BY <1>2, <3>1
  <2>2. ASSUME NEW k \in 1..m PROVE k \in 1..(m + n) /\ u[k] = s[k]
    <3>1. k \in 1..(m + n) /\ k <= m
      BY <1>1
    <3> QED
      BY <1>2, <3>1
  <2> QED
    BY <2>1, <2>2
<1>8. \A k \in 1..(m + n) : k \in 1..m \/ (k - m \in 1..n /\ m + (k - m) = k)
  BY <1>1
<1>9. ToSet(u) = ToSet(s) \union ToSet(t)
  <2>1. \A k \in 1..(m + n) : u[k] \in ToSet(s) \union ToSet(t)
    BY <1>4, <1>7, <1>8
  <2>2. ToSet(u) \subseteq ToSet(s) \union ToSet(t)
    BY <1>4, <2>1
  <2>3. \A k \in 1..m : s[k] \in ToSet(u)
    BY <1>4, <1>7
  <2>4. \A k \in 1..n : t[k] \in ToSet(u)
    BY <1>4, <1>7
  <2> QED
    BY <1>4, <2>2, <2>3, <2>4
<1>10. ASSUME NEW a \in 1..(m + n), NEW b \in 1..(m + n), a < b PROVE Earlier(u[a], u[b])
  <2>1. CASE a \in 1..m /\ b \in 1..m
    BY <1>6, <1>7, <1>10, <2>1
  <2>2. CASE a \in 1..m /\ b \notin 1..m
    <3>1. b - m \in 1..n /\ u[b] = t[b - m] /\ u[a] = s[a]
      BY <1>7, <1>8, <2>2
    <3>2. s[a] \in ToSet(s) /\ t[b - m] \in ToSet(t)
      BY <1>4, <2>2, <3>1
    <3>3. s[a].lock < t[b - m].lock
      BY <3>2
    <3> QED
      BY <3>1, <3>3 DEF Earlier
  <2>3. CASE a \notin 1..m
    <3>1. b \notin 1..m
      BY <1>1, <1>10, <2>3
    <3>2. a - m \in 1..n /\ b - m \in 1..n /\ u[a] = t[a - m] /\ u[b] = t[b - m]
      BY <1>7, <1>8, <2>3, <3>1
    <3>3. a - m < b - m
      BY <1>1, <1>10
    <3> QED
      BY <1>6, <3>2, <3>3
  <2> QED
    BY <2>1, <2>2, <2>3
<1> QED
  BY <1>2, <1>5, <1>9, <1>10 DEF u

LEMMA PairsInit == Init => PairsInv
<1> SUFFICES ASSUME Init PROVE PairsInv
  OBVIOUS
<1>1. /\ cmd \in Commands /\ program \in Programs /\ pc = "args" /\ func = 0
      /\ ir = Loaded(program) /\ lockPairs = [kind \in Kinds |-> <<>>]
  BY DEF Init
<1>2. PairsUpTo(0)
  <2>1. \A kind \in Kinds : lockPairs[kind] = <<>>
    BY <1>1
  <2>2. \A kind \in Kinds : UNION {FunctionPairs(kind, f) : f \in 1..0} = {}
    OBVIOUS
  <2>3. <<>> \in Seq(PairType) /\ ToSet(<<>>) = {} /\ Ordered(<<>>)
    BY DEF ToSet, Ordered
  <2> QED
    BY <2>1, <2>2, <2>3 DEF PairsUpTo
<1> QED
  BY <1>1, <1>2 DEF PairsInv, Enumerated

LEMMA SameProgram ==
  ASSUME UNCHANGED program
  PROVE  /\ OriginalOp' = OriginalOp
         /\ \A f : Original(f)' = Original(f)
         /\ \A kind, f : FunctionPairs(kind, f)' = FunctionPairs(kind, f)
  BY DEF OriginalOp, Original, FunctionPairs, Ends

LEMMA SameVectors ==
  ASSUME UNCHANGED <<program, lockPairs>>, NEW last
  PROVE  PairsUpTo(last)' = PairsUpTo(last)
  BY DEF PairsUpTo, FunctionPairs, Ends, Original, OriginalOp

\* The next function adds the pairs it contains to those of the functions before.
LEMMA EnumerateStep ==
  ASSUME PairsInv, EnumerateFunction
  PROVE  func + 1 \in 1..Len(program) /\ PairsUpTo(func)'
<1>1. /\ pc = "enumerate" /\ func \in Nat /\ func < Len(program) /\ PairsUpTo(func)
      /\ ir = Loaded(program) /\ program \in Programs
  BY DEF PairsInv, EnumerateFunction
<1>2. program \in Seq(Seq(Op)) /\ Len(program) \in Nat
  <2>1. program \in Seq(Seq(Op))
    BY <1>1, ProgramAssumption
  <2> QED
    BY <2>1
<1>3. func + 1 \in 1..Len(program)
  BY <1>1, <1>2
<1>4. lockPairs' = FindPairs(lockPairs, Original(func + 1), OriginalOp) /\ UNCHANGED program
  BY <1>1, <1>2, LoadedFacts DEF EnumerateFunction, Original, OriginalOp
<1> DEFINE found(kind) == PairsFrom(MutexInsts(Original(func + 1), OriginalOp, LockIsInvoke(kind)),
                                    MutexInsts(Original(func + 1), OriginalOp, UnlockIsInvoke(kind)),
                                    OriginalOp)
<1>5. \A kind \in Kinds : lockPairs'[kind] = lockPairs[kind] \o found(kind)
  BY <1>4 DEF FindPairs
<1>6. \A kind \in Kinds : /\ found(kind) \in Seq(PairType)
                          /\ ToSet(found(kind)) = FunctionPairs(kind, func + 1)
                          /\ Ordered(found(kind))
  BY <1>1, <1>3, FunctionPairsFacts
<1> HIDE DEF found
<1>7. ASSUME NEW kind \in Kinds
      PROVE  /\ lockPairs'[kind] \in Seq(PairType)
             /\ ToSet(lockPairs'[kind]) = UNION {FunctionPairs(kind, f) : f \in 1..(func + 1)}
             /\ Ordered(lockPairs'[kind])
  <2>1. /\ lockPairs[kind] \in Seq(PairType) /\ Ordered(lockPairs[kind])
        /\ ToSet(lockPairs[kind]) = UNION {FunctionPairs(kind, f) : f \in 1..func}
    BY <1>1 DEF PairsUpTo
  <2>2. \A p \in ToSet(lockPairs[kind]) : \A q \in ToSet(found(kind)) : p.lock < q.lock
    <3> SUFFICES ASSUME NEW f \in 1..func, NEW p \in FunctionPairs(kind, f),
                        NEW q \in FunctionPairs(kind, func + 1)
                 PROVE  p.lock < q.lock
      BY <1>6, <2>1
    <3>1. p.lock \in ToSet(Numbered(program)[f]) /\ q.lock \in ToSet(Numbered(program)[func + 1])
      BY DEF FunctionPairs, Ends, Original
    <3>2. f \in 1..Len(program) /\ f < func + 1
      BY <1>1, <1>2
    <3> QED
      BY <1>2, <1>3, <3>1, <3>2, FunctionsApart
  <2>3. /\ lockPairs[kind] \o found(kind) \in Seq(PairType)
        /\ ToSet(lockPairs[kind] \o found(kind)) = ToSet(lockPairs[kind]) \union ToSet(found(kind))
        /\ Ordered(lockPairs[kind] \o found(kind))
    BY <1>6, <2>1, <2>2, AppendPairs
  <2>4. 1..(func + 1) = (1..func) \union {func + 1}
    BY <1>1
  <2> DEFINE pairs(f) == FunctionPairs(kind, f)
  <2> HIDE DEF pairs
  <2>5. UNION {pairs(f) : f \in 1..(func + 1)} = (UNION {pairs(f) : f \in 1..func}) \union pairs(func + 1)
    <3> DEFINE before == {pairs(f) : f \in 1..func}
    <3>1. {pairs(f) : f \in 1..(func + 1)} = before \union {pairs(func + 1)}
      BY <2>4
    <3> HIDE DEF before
    <3>2. UNION (before \union {pairs(func + 1)}) = (UNION before) \union pairs(func + 1)
      OBVIOUS
    <3> QED
      BY <3>1, <3>2 DEF before
  <2>6. UNION {pairs(f) : f \in 1..(func + 1)} = ToSet(lockPairs[kind]) \union ToSet(found(kind))
    <3>1. ToSet(found(kind)) = pairs(func + 1)
      BY <1>6 DEF pairs
    <3>2. ToSet(lockPairs[kind]) = UNION {pairs(f) : f \in 1..func}
      BY <2>1 DEF pairs
    <3> QED
      BY <2>5, <3>1, <3>2
  <2>7. lockPairs'[kind] = lockPairs[kind] \o found(kind)
    BY <1>5
  <2> QED
    BY <2>3, <2>6, <2>7 DEF pairs
<1>8. \A kind \in Kinds : \A f : FunctionPairs(kind, f)' = FunctionPairs(kind, f)
  BY <1>4, SameProgram
<1>9. func' = func + 1
  BY DEF EnumerateFunction
<1>10. \A kind \in Kinds : UNION {FunctionPairs(kind, f) : f \in 1..(func + 1)} =
                           UNION {FunctionPairs(kind, f)' : f \in 1..func'}
  BY <1>8, <1>9
<1> QED
  BY <1>3, <1>7, <1>10 DEF PairsUpTo

LEMMA PairsStep == PairsInv /\ [Next]_vars => PairsInv'
<1> SUFFICES ASSUME PairsInv, [Next]_vars PROVE PairsInv'
  OBVIOUS
<1>1. CASE EnumerateFunction
  <2>1. func + 1 \in 1..Len(program) /\ PairsUpTo(func)'
    BY <1>1, EnumerateStep
  <2>2. /\ pc = "enumerate" /\ func' = func + 1 /\ UNCHANGED <<cmd, program, ir>>
        /\ pc' = IF func' = Len(ir.body) THEN "loop" ELSE pc
        /\ ir = Loaded(program) /\ func \in Nat /\ cmd \in Commands /\ program \in Programs
    BY <1>1 DEF EnumerateFunction, PairsInv
  <2>3. Len(ir.body) = Len(program) /\ Len(program) \in Nat
    <3>1. program \in Seq(Seq(Op))
      BY <2>2, ProgramAssumption
    <3> QED
      BY <2>2, <3>1, LoadedFacts
  <2>5. CASE func' = Len(program)
    <3>1. PairsUpTo(Len(program))'
      BY <2>1, <2>2, <2>5 DEF PairsUpTo
    <3> QED
      BY <2>1, <2>2, <2>3, <2>5, <3>1 DEF PairsInv, Enumerated
  <2>6. CASE func' # Len(program)
    BY <2>1, <2>2, <2>3, <2>6 DEF PairsInv, Enumerated
  <2> QED
    BY <2>5, <2>6
<1>2. CASE CheckCommandLineArgs
  <2>1. /\ pc = "args" /\ UNCHANGED <<cmd, program, ir, lockPairs, func>> /\ pc' \in {"enumerate", "exit"}
        /\ func = 0 /\ program \in Programs /\ cmd \in Commands /\ ir = Loaded(program) /\ PairsUpTo(func)
    BY <1>2 DEF CheckCommandLineArgs, PairsInv
  <2>2. 0 < Len(program)
    <3>1. program \in Seq(Seq(Op)) /\ program # <<>>
      BY <2>1, ProgramAssumption
    <3> QED
      BY <3>1
  <2>3. PairsUpTo(func)'
    BY <2>1, SameVectors
  <2> QED
    BY <2>1, <2>2, <2>3 DEF PairsInv, Enumerated
<1>3. CASE ~EnumerateFunction /\ ~CheckCommandLineArgs
  <2>1. UNCHANGED <<cmd, program, lockPairs, func>>
    BY <1>3 DEF Next, vars, CollectPair, SkipCollect, StartErasing, EraseNext, SwapPairs, SkipSwap,
         ShiftPair, SkipShift, SplitPair, SkipSplit, FinishLoop, PrintPairs, Terminated, Turn
  <2>2. \/ UNCHANGED <<pc, ir>>
        \/ /\ pc \in {"loop", "erase", "ran"}
           /\ pc' \in {"loop", "erase", "ran", "fault", "done"}
    BY <1>3 DEF Next, vars, CollectPair, SkipCollect, StartErasing, EraseNext, SwapPairs, SkipSwap,
         ShiftPair, SkipShift, SplitPair, SkipSplit, FinishLoop, PrintPairs, Terminated, Turn, Skip, Commit
  <2>3. PairsUpTo(func)' = PairsUpTo(func) /\ PairsUpTo(Len(program))' = PairsUpTo(Len(program))
    <3>1. PairsUpTo(func)' = PairsUpTo(func)
      BY <2>1 DEF PairsUpTo, FunctionPairs, Ends, Original, OriginalOp
    <3>2. PairsUpTo(Len(program))' = PairsUpTo(Len(program))
      BY <2>1 DEF PairsUpTo, FunctionPairs, Ends, Original, OriginalOp
    <3> QED
      BY <3>1, <3>2
  <2>4. CASE UNCHANGED <<pc, ir>>
    BY <2>1, <2>3, <2>4 DEF PairsInv, Enumerated
  <2>5. CASE pc \in {"loop", "erase", "ran"} /\ pc' \in {"loop", "erase", "ran", "fault", "done"}
    BY <2>1, <2>3, <2>5 DEF PairsInv, Enumerated
  <2> QED
    BY <2>2, <2>4, <2>5
<1> QED
  BY <1>1, <1>2, <1>3

\* The vectors hold the pairs of the functions enumerated so far, in order.
THEOREM PairsInvariance == Spec => []PairsInv
<1> QED
  BY PairsInit, PairsStep, PTL DEF Spec

\* The vectors hold every pair of a lock and an unlock once, in the order of the
\* instructions, whatever the module: a number of a listing means the same pair in
\* the run that mutates it (findPairs).
THEOREM PairsAreExact == Spec => []PairsExact
<1>1. PairsInv => PairsExact
  BY DEF PairsInv, PairsExact, PairsUpTo, Ordered
<1> QED
  BY <1>1, PairsInvariance, PTL
-----------------------------------------------------------------------------
(* Edits of a sequence *)

LEMMA RemoveAtFacts ==
  ASSUME NEW E, NEW s \in Seq(E), NEW p \in 1..Len(s)
  PROVE  /\ RemoveAt(s, p) \in Seq(E) /\ Len(RemoveAt(s, p)) = Len(s) - 1
         /\ \A k \in 1..(p - 1) : RemoveAt(s, p)[k] = s[k]
         /\ \A k \in p..(Len(s) - 1) : RemoveAt(s, p)[k] = s[k + 1]
<1> DEFINE size  == Len(s)
           left  == SubSeq(s, 1, p - 1)
           right == SubSeq(s, p + 1, size)
           both  == left \o right
<1>1. size \in Nat /\ p \in 1..size /\ \A k \in 1..size : s[k] \in E
  OBVIOUS
<1>2. RemoveAt(s, p) = both
  BY DEF RemoveAt
<1> HIDE DEF size
<1>3. /\ left \in Seq(E) /\ Len(left) = p - 1
      /\ \A k \in 1..(p - 1) : left[k] = s[k]
  <2>1. 1 \in Int /\ p - 1 \in Int /\ \A k \in 1..(p - 1) : s[k] \in E
    BY <1>1
  <2>2. /\ left \in Seq(E) /\ Len(left) = IF 1 <= p - 1 THEN (p - 1) - 1 + 1 ELSE 0
        /\ \A k \in 1..((p - 1) - 1 + 1) : left[k] = s[1 + k - 1]
    BY <2>1, SubSeqProperties
  <2> HIDE DEF left
  <2>3. Len(left) = p - 1
    BY <1>1, <2>2
  <2>4. \A k \in 1..(p - 1) : 1 + k - 1 = k /\ k \in 1..((p - 1) - 1 + 1)
    BY <1>1
  <2> QED
    BY <2>2, <2>3, <2>4
<1>4. /\ right \in Seq(E) /\ Len(right) = size - p
      /\ \A k \in 1..(size - p) : right[k] = s[p + k]
  <2>1. p + 1 \in Int /\ size \in Int /\ \A k \in (p + 1)..size : s[k] \in E
    BY <1>1
  <2>2. /\ right \in Seq(E) /\ Len(right) = IF p + 1 <= size THEN size - (p + 1) + 1 ELSE 0
        /\ \A k \in 1..(size - (p + 1) + 1) : right[k] = s[(p + 1) + k - 1]
    BY <2>1, SubSeqProperties
  <2> HIDE DEF right
  <2>3. Len(right) = size - p
    BY <1>1, <2>2
  <2>4. \A k \in 1..(size - p) : (p + 1) + k - 1 = p + k /\ k \in 1..(size - (p + 1) + 1)
    BY <1>1
  <2> QED
    BY <2>2, <2>3, <2>4
<1> HIDE DEF left, right
<1>5. /\ both \in Seq(E) /\ Len(both) = Len(left) + Len(right)
      /\ \A k \in 1..(Len(left) + Len(right)) : both[k] = IF k <= Len(left) THEN left[k] ELSE right[k - Len(left)]
  BY <1>3, <1>4, ConcatProperties
<1> HIDE DEF both
<1>6. Len(both) = size - 1
  BY <1>1, <1>3, <1>4, <1>5
<1>7. ASSUME NEW k \in 1..(p - 1) PROVE both[k] = s[k]
  <2>1. k \in 1..(Len(left) + Len(right)) /\ k <= Len(left)
    BY <1>1, <1>3, <1>4
  <2> QED
    BY <1>3, <1>5, <2>1
<1>8. ASSUME NEW k \in p..(size - 1) PROVE both[k] = s[k + 1]
  <2>1. k \in 1..(Len(left) + Len(right)) /\ ~(k <= Len(left)) /\ k - Len(left) = k - (p - 1)
    BY <1>1, <1>3, <1>4
  <2>2. k - (p - 1) \in 1..(size - p) /\ p + (k - (p - 1)) = k + 1
    BY <1>1
  <2>3. both[k] = right[k - (p - 1)]
    BY <1>5, <2>1
  <2>4. right[k - (p - 1)] = s[p + (k - (p - 1))]
    BY <1>4, <2>2
  <2> QED
    BY <2>2, <2>3, <2>4
<1> QED
  BY <1>2, <1>5, <1>6, <1>7, <1>8 DEF size

Widens(s, p, e, t) ==
  /\ t \in Seq(Nat) /\ Len(t) = Len(s) + 1
  /\ \A k \in 1..(p - 1) : t[k] = s[k]
  /\ t[p] = e
  /\ \A k \in p..Len(s) : t[k + 1] = s[k]

LEMMA InsertAtFacts ==
  ASSUME NEW s \in Seq(Nat), NEW p \in 1..(Len(s) + 1), NEW e \in Nat
  PROVE  Widens(s, p, e, InsertAt(s, p, e))
<1> DEFINE size  == Len(s)
           left  == SubSeq(s, 1, p - 1)
           right == SubSeq(s, p, size)
           more  == left \o <<e>>
           all   == more \o right
<1>1. size \in Nat /\ p \in 1..(size + 1) /\ \A k \in 1..size : s[k] \in Nat
  OBVIOUS
<1>2. InsertAt(s, p, e) = all
  BY DEF InsertAt
<1> HIDE DEF size
<1>3. /\ left \in Seq(Nat) /\ Len(left) = p - 1
      /\ \A k \in 1..(p - 1) : left[k] = s[k]
  <2>1. 1 \in Int /\ p - 1 \in Int /\ \A k \in 1..(p - 1) : s[k] \in Nat
    BY <1>1
  <2>2. /\ left \in Seq(Nat) /\ Len(left) = IF 1 <= p - 1 THEN (p - 1) - 1 + 1 ELSE 0
        /\ \A k \in 1..((p - 1) - 1 + 1) : left[k] = s[1 + k - 1]
    BY <2>1, SubSeqProperties
  <2> HIDE DEF left
  <2>3. Len(left) = p - 1
    BY <1>1, <2>2
  <2>4. \A k \in 1..(p - 1) : 1 + k - 1 = k /\ k \in 1..((p - 1) - 1 + 1)
    BY <1>1
  <2> QED
    BY <2>2, <2>3, <2>4
<1>4. /\ right \in Seq(Nat) /\ Len(right) = size - p + 1
      /\ \A k \in 1..(size - p + 1) : right[k] = s[p + k - 1]
  <2>1. p \in Int /\ size \in Int /\ \A k \in p..size : s[k] \in Nat
    BY <1>1
  <2>2. /\ right \in Seq(Nat) /\ Len(right) = IF p <= size THEN size - p + 1 ELSE 0
        /\ \A k \in 1..(size - p + 1) : right[k] = s[p + k - 1]
    BY <2>1, SubSeqProperties
  <2> HIDE DEF right
  <2>3. Len(right) = size - p + 1
    BY <1>1, <2>2
  <2> QED
    BY <2>2, <2>3
<1> HIDE DEF left, right
<1>5. /\ more \in Seq(Nat) /\ Len(more) = p /\ more[p] = e
      /\ \A k \in 1..(p - 1) : more[k] = s[k]
  <2>1. <<e>> \in Seq(Nat) /\ Len(<<e>>) = 1 /\ <<e>>[1] = e
    OBVIOUS
  <2> DEFINE one == <<e>>
  <2> HIDE DEF one
  <2>2. /\ left \o one \in Seq(Nat) /\ Len(left \o one) = Len(left) + Len(one)
        /\ \A k \in 1..(Len(left) + Len(one)) : (left \o one)[k] = IF k <= Len(left) THEN left[k] ELSE one[k - Len(left)]
    BY <1>3, <2>1, ConcatProperties DEF one
  <2>3. Len(left) + Len(one) = p /\ p \in 1..p /\ ~(p <= Len(left)) /\ p - Len(left) = 1 /\ one[1] = e
    BY <1>1, <1>3, <2>1 DEF one
  <2>4. \A k \in 1..(p - 1) : k \in 1..p /\ k <= Len(left)
    BY <1>1, <1>3
  <2>5. more = left \o one
    BY DEF one
  <2> HIDE DEF more
  <2>6. /\ more \in Seq(Nat) /\ Len(more) = p
        /\ \A k \in 1..p : more[k] = IF k <= Len(left) THEN left[k] ELSE one[k - Len(left)]
    BY <2>2, <2>3, <2>5
  <2>7. more[p] = e
    BY <2>3, <2>6
  <2>8. \A k \in 1..(p - 1) : more[k] = s[k]
    BY <1>3, <2>4, <2>6
  <2> QED
    BY <2>6, <2>7, <2>8
<1> HIDE DEF more
<1>6. /\ all \in Seq(Nat) /\ Len(all) = Len(more) + Len(right)
      /\ \A k \in 1..(Len(more) + Len(right)) : all[k] = IF k <= Len(more) THEN more[k] ELSE right[k - Len(more)]
  BY <1>4, <1>5, ConcatProperties
<1> HIDE DEF all
<1>7. Len(all) = size + 1
  BY <1>1, <1>4, <1>5, <1>6
<1>8. ASSUME NEW k \in 1..p PROVE all[k] = more[k]
  <2>1. k \in 1..(Len(more) + Len(right)) /\ k <= Len(more)
    BY <1>1, <1>4, <1>5
  <2> QED
    BY <1>6, <2>1
<1>9. \A k \in 1..(p - 1) : k \in 1..p
  BY <1>1
<1>10. p \in 1..p
  BY <1>1
<1>11. ASSUME NEW k \in p..size PROVE all[k + 1] = s[k]
  <2>1. /\ k + 1 \in 1..(Len(more) + Len(right)) /\ ~(k + 1 <= Len(more))
        /\ (k + 1) - Len(more) = (k + 1) - p
    BY <1>1, <1>4, <1>5
  <2>2. (k + 1) - p \in 1..(size - p + 1) /\ p + ((k + 1) - p) - 1 = k
    BY <1>1
  <2> QED
    BY <1>4, <1>6, <2>1, <2>2
<1>12. /\ all \in Seq(Nat) /\ Len(all) = Len(s) + 1 /\ all[p] = e
       /\ \A k \in 1..(p - 1) : all[k] = s[k]
       /\ \A k \in p..Len(s) : all[k + 1] = s[k]
  BY <1>5, <1>6, <1>7, <1>8, <1>9, <1>10, <1>11 DEF size
<1> QED
  BY <1>2, <1>12 DEF Widens
-----------------------------------------------------------------------------
(* The module while it is changed *)

Total  == Offset(program, Len(program) + 1)
End(f) == Offset(program, f + 1)
Occurs(r, inst) == \E f \in 1..Len(r.body) : \E n \in 1..Len(r.body[f]) : r.body[f][n] = inst

IRType == [body : Seq(Seq(Nat)), op : Seq(Op), freed : SUBSET Nat,
           fault : {"none", "dangling", "end", "oob", "null"}]

\* Every function still ends with the branch it ended with, and every instruction
\* that was not erased is still in a function.
Sound(r) ==
  /\ r \in IRType
  /\ Len(r.body) = Len(program)
  /\ \A f \in 1..Len(program) : r.body[f] # <<>> /\ r.body[f][Len(r.body[f])] = End(f)
  /\ \A inst \in (1..Total) \ r.freed : Occurs(r, inst)
  /\ r.freed \subseteq 1..Len(r.op)
  /\ Total <= Len(r.op)

\* An instruction the pass may replace, erase or move.
Mutable(r, inst) ==
  /\ inst \in 1..Len(r.op)
  /\ inst \notin r.freed => Occurs(r, inst)
  /\ \A f \in 1..Len(program) : inst # End(f)

LEMMA Sizes ==
  ASSUME program \in Programs
  PROVE  /\ program \in Seq(Seq(Op)) /\ Len(program) \in Nat /\ Total \in Nat
         /\ \A f \in 1..Len(program) : End(f) \in 1..Total
<1>1. program \in Seq(Seq(Op))
  BY ProgramAssumption
<1>2. Len(program) \in Nat /\ Total \in Nat
  BY <1>1, OffsetFacts DEF Total
<1>3. ASSUME NEW f \in 1..Len(program) PROVE End(f) \in 1..Total
  <2>1. program[f] # <<>> /\ program[f] \in Seq(Op)
    BY <1>1, ProgramAssumption
  <2>2. Len(program[f]) \in Nat /\ Len(program[f]) # 0
    BY <2>1
  <2>3. End(f) = Offset(program, f) + Len(program[f]) /\ Offset(program, f) \in Nat
    BY <1>1, NumberedFacts, OffsetFacts DEF End
  <2>4. Offset(program, f) + Len(program[f]) <= Total
    <3>1. Len(program) + 1 \in (f + 1)..(Len(program) + 1)
      BY <1>2
    <3> QED
      BY <1>1, <3>1, OffsetMonotone DEF Total
  <2> DEFINE a == Offset(program, f)
             b == Len(program[f])
  <2> HIDE DEF a, b
  <2>5. a \in Nat /\ b \in Nat /\ b # 0 /\ End(f) = a + b /\ a + b <= Total
    BY <2>2, <2>3, <2>4 DEF a, b
  <2> QED
    BY <1>2, <2>5
<1> QED
  BY <1>1, <1>2, <1>3

LEMMA LoadedSound ==
  ASSUME program \in Programs
  PROVE  Sound(Loaded(program)) /\ Loaded(program).fault = "none" /\ Loaded(program).freed = {}
<1> DEFINE r == Loaded(program)
<1>1. /\ program \in Seq(Seq(Op)) /\ Len(program) \in Nat /\ Total \in Nat
  BY Sizes
<1>2. /\ r.body = Numbered(program) /\ r.freed = {} /\ r.fault = "none" /\ r.op = FlattenSeq(program)
      /\ r \in IRType /\ Len(r.body) = Len(program) /\ Len(r.op) = Total
  BY <1>1, LoadedFacts DEF IRType, Total
<1>3. ASSUME NEW f \in 1..Len(program)
      PROVE  r.body[f] # <<>> /\ r.body[f][Len(r.body[f])] = End(f)
  <2>1. program[f] # <<>> /\ program[f] \in Seq(Op)
    BY <1>1, ProgramAssumption
  <2>2. Len(program[f]) \in 1..Len(program[f])
    BY <2>1
  <2>3. /\ Numbered(program)[f] \in Seq(Nat) /\ Len(Numbered(program)[f]) = Len(program[f])
        /\ Numbered(program)[f][Len(program[f])] = Offset(program, f) + Len(program[f])
    BY <1>1, <2>2, NumberedFacts
  <2>4. End(f) = Offset(program, f) + Len(program[f])
    BY <1>1, OffsetFacts DEF End
  <2>5. Len(Numbered(program)[f]) # 0
    BY <2>2, <2>3
  <2> QED
    BY <1>2, <2>3, <2>4, <2>5
<1>4. ASSUME NEW inst \in 1..Total PROVE Occurs(r, inst)
  <2>1. PICK f \in 1..Len(program) : \E k \in 1..Len(program[f]) : inst = Offset(program, f) + k
    BY <1>1, <1>4, OffsetFinds DEF Total
  <2>2. PICK k \in 1..Len(program[f]) : inst = Offset(program, f) + k
    BY <2>1
  <2>3. k \in 1..Len(Numbered(program)[f]) /\ Numbered(program)[f][k] = inst
    BY <1>1, <2>2, NumberedFacts
  <2> QED
    BY <1>2, <2>3 DEF Occurs
<1>5. Total <= Len(r.op)
  BY <1>1, <1>2
<1> HIDE DEF r
<1>6. Sound(r)
  BY <1>2, <1>3, <1>4, <1>5 DEF Sound
<1> QED
  BY <1>2, <1>6 DEF r

\* FuncOf and PosOf find an instruction that occurs.
LEMMA Found ==
  ASSUME NEW r, NEW inst, Occurs(r, inst)
  PROVE  /\ FuncOf(r, inst) \in 1..Len(r.body)
         /\ PosOf(r, inst) \in 1..Len(r.body[FuncOf(r, inst)])
         /\ r.body[FuncOf(r, inst)][PosOf(r, inst)] = inst
<1>1. FuncOf(r, inst) \in 1..Len(r.body) /\ \E n \in 1..Len(r.body[FuncOf(r, inst)]) : r.body[FuncOf(r, inst)][n] = inst
  BY DEF Occurs, FuncOf
<1> QED
  BY <1>1 DEF PosOf

\* An instruction that may be mutated is not the last of its function.
LEMMA MutablePlace ==
  ASSUME program \in Programs, NEW r, Sound(r), NEW inst, Mutable(r, inst), inst \notin r.freed
  PROVE  LET f == FuncOf(r, inst)
             n == PosOf(r, inst)
         IN  /\ f \in 1..Len(program) /\ f \in 1..Len(r.body)
             /\ r.body[f] \in Seq(Nat) /\ Len(r.body[f]) \in Nat
             /\ n \in 1..(Len(r.body[f]) - 1) /\ n \in 1..Len(r.body[f])
             /\ r.body[f][n] = inst
<1> DEFINE f == FuncOf(r, inst)
           n == PosOf(r, inst)
           b == r.body[f]
<1>1. f \in 1..Len(r.body) /\ n \in 1..Len(b) /\ b[n] = inst
  BY Found DEF Mutable
<1> HIDE DEF f, n
<1>2. r.body \in Seq(Seq(Nat)) /\ Len(r.body) = Len(program)
  BY DEF Sound, IRType
<1>3. b \in Seq(Nat) /\ f \in 1..Len(program)
  BY <1>1, <1>2
<1>4. b[Len(b)] = End(f) /\ inst # End(f)
  BY <1>3 DEF Sound, Mutable
<1> HIDE DEF b
<1>5. Len(b) \in Nat /\ n \in 1..(Len(b) - 1)
  <2>1. Len(b) \in Nat
    BY <1>3
  <2> QED
    BY <1>1, <1>4, <2>1
<1> QED
  BY <1>1, <1>3, <1>5 DEF f, n, b

\* A changed body keeps the module sound if all but the erased instructions are in it.
LEMMA NewBody ==
  ASSUME program \in Programs, NEW r, Sound(r), NEW f \in 1..Len(program),
         NEW body \in Seq(Nat), body # <<>>, body[Len(body)] = End(f),
         NEW gone \in SUBSET (1..Len(r.op)),
         \A n \in 1..Len(r.body[f]) : r.body[f][n] \notin gone =>
            \E m \in 1..Len(body) : body[m] = r.body[f][n]
  PROVE  LET s == [body |-> [r.body EXCEPT ![f] = body], op |-> r.op,
                   freed |-> r.freed \union gone, fault |-> r.fault]
         IN  /\ Sound(s)
             /\ \A x : Occurs(r, x) /\ x \notin gone => Occurs(s, x)
             /\ \A m \in 1..Len(body) : Occurs(s, body[m])
<1> DEFINE bodies == [r.body EXCEPT ![f] = body]
           s == [body |-> bodies, op |-> r.op, freed |-> r.freed \union gone, fault |-> r.fault]
<1>1. /\ r.body \in Seq(Seq(Nat)) /\ Len(r.body) = Len(program) /\ r.op \in Seq(Op)
      /\ r.freed \in SUBSET Nat /\ r.fault \in {"none", "dangling", "end", "oob", "null"}
      /\ r.freed \subseteq 1..Len(r.op) /\ Total <= Len(r.op)
      /\ \A inst \in (1..Total) \ r.freed : Occurs(r, inst)
      /\ \A g \in 1..Len(program) : r.body[g] # <<>> /\ r.body[g][Len(r.body[g])] = End(g)
  BY DEF Sound, IRType
<1>2. /\ bodies \in Seq(Seq(Nat)) /\ Len(bodies) = Len(program)
      /\ bodies[f] = body /\ \A g \in 1..Len(program) : g # f => bodies[g] = r.body[g]
  BY <1>1
<1> HIDE DEF bodies
<1>3. /\ s.body = bodies /\ s.op = r.op /\ s.freed = r.freed \union gone /\ s.fault = r.fault
  OBVIOUS
<1>4. s.freed \in SUBSET Nat /\ s.freed \subseteq 1..Len(r.op)
  <2>1. Len(r.op) \in Nat
    BY <1>1
  <2>2. 1..Len(r.op) \subseteq Nat
    BY <2>1
  <2> QED
    BY <1>1, <2>2
<1>5. s \in IRType
  BY <1>1, <1>2, <1>4 DEF IRType
<1>6. ASSUME NEW x, Occurs(r, x), x \notin gone PROVE Occurs(s, x)
  <2>1. PICK g \in 1..Len(r.body) : \E n \in 1..Len(r.body[g]) : r.body[g][n] = x
    BY <1>6 DEF Occurs
  <2>2. PICK n \in 1..Len(r.body[g]) : r.body[g][n] = x
    BY <2>1
  <2>3. CASE g = f
    <3>1. PICK m \in 1..Len(body) : body[m] = x
      BY <1>6, <2>2, <2>3
    <3> QED
      BY <1>2, <1>3, <3>1 DEF Occurs
  <2>4. CASE g # f
    <3>1. g \in 1..Len(program) /\ bodies[g] = r.body[g]
      BY <1>1, <1>2, <2>4
    <3> QED
      BY <1>2, <1>3, <2>2, <3>1 DEF Occurs
  <2> QED
    BY <2>3, <2>4
<1>7. \A m \in 1..Len(body) : Occurs(s, body[m])
  BY <1>2, <1>3 DEF Occurs
<1> HIDE DEF s
<1>8. \A inst \in (1..Total) \ s.freed : Occurs(s, inst)
  BY <1>1, <1>3, <1>6
<1>9. \A g \in 1..Len(program) : s.body[g] # <<>> /\ s.body[g][Len(s.body[g])] = End(g)
  BY <1>1, <1>2, <1>3
<1>10. Sound(s)
  BY <1>1, <1>2, <1>3, <1>4, <1>5, <1>8, <1>9 DEF Sound
<1> QED
  BY <1>6, <1>7, <1>10 DEF s, bodies

-----------------------------------------------------------------------------
(* What the operations on the module do to it *)

LEMMA IsRecord ==
  ASSUME NEW r, Sound(r)
  PROVE  r = [body |-> r.body, op |-> r.op, freed |-> r.freed, fault |-> r.fault]
  BY DEF Sound, IRType

LEMMA FaultSound ==
  ASSUME NEW r, Sound(r), NEW kind \in {"dangling", "end", "oob", "null"}
  PROVE  LET s == [r EXCEPT !.fault = kind]
         IN  /\ Sound(s) /\ s.fault = kind /\ s.freed = r.freed /\ s.op = r.op /\ s.body = r.body
<1> DEFINE s == [r EXCEPT !.fault = kind]
<1>1. s \in IRType /\ s.fault = kind /\ s.freed = r.freed /\ s.op = r.op /\ s.body = r.body
  BY DEF Sound, IRType
<1> HIDE DEF s
<1>2. \A x : Occurs(r, x) => Occurs(s, x)
  BY <1>1 DEF Occurs
<1>3. /\ Len(s.body) = Len(program)
      /\ \A f \in 1..Len(program) : s.body[f] # <<>> /\ s.body[f][Len(s.body[f])] = End(f)
      /\ s.freed \subseteq 1..Len(s.op) /\ Total <= Len(s.op)
  BY <1>1 DEF Sound
<1>4. \A inst \in (1..Total) \ s.freed : Occurs(s, inst)
  BY <1>1, <1>2 DEF Sound
<1>5. Sound(s)
  BY <1>1, <1>3, <1>4 DEF Sound
<1> QED
  BY <1>1, <1>5 DEF s

\* New instructions are not in a function yet.
CreatesInsts(r, insts, ops, s) ==
  /\ Sound(s)
  /\ r.fault # "none" => s = r
  /\ r.fault = "none" /\ insts \cap r.freed # {} => s.fault = "dangling" /\ s.freed = r.freed
  /\ r.fault = "none" /\ insts \cap r.freed = {} =>
       s = [body |-> r.body, op |-> r.op \o ops, freed |-> r.freed, fault |-> "none"]

LEMMA CreateInstsFacts ==
  ASSUME program \in Programs, NEW r, Sound(r), NEW insts, NEW ops \in Seq(Op)
  PROVE  CreatesInsts(r, insts, ops, CreateInsts(r, insts, ops))
<1> DEFINE s == CreateInsts(r, insts, ops)
           more == r.op \o ops
           good == [body |-> r.body, op |-> more, freed |-> r.freed, fault |-> r.fault]
           bad  == [r EXCEPT !.fault = "dangling"]
<1>1. r \in IRType /\ r.op \in Seq(Op)
  BY DEF Sound, IRType
<1>2. more \in Seq(Op) /\ Len(more) = Len(r.op) + Len(ops)
  BY <1>1, ConcatProperties
<1>3. Len(r.op) \in Nat /\ Len(ops) \in Nat
  BY <1>1
<1>4. s = IF r.fault # "none" THEN r ELSE IF insts \cap r.freed # {} THEN bad ELSE good
  <2> HIDE DEF more
  <2>1. [r EXCEPT !.op = more] = good
    BY IsRecord
  <2> QED
    BY <2>1 DEF CreateInsts, Guarded, more
<1>5. Sound(good)
  <2> HIDE DEF more
  <2>1. good \in IRType
    BY <1>1, <1>2 DEF IRType
  <2>2. \A x : Occurs(r, x) => Occurs(good, x)
    BY DEF Occurs
  <2>3. r.freed \subseteq 1..Len(more) /\ Total <= Len(more)
    <3>1. r.freed \subseteq 1..Len(r.op) /\ Total <= Len(r.op) /\ Total \in Nat
      BY Sizes DEF Sound
    <3>2. Total <= Len(more) /\ 1..Len(r.op) \subseteq 1..Len(more)
      BY <1>2, <1>3, <3>1
    <3> QED
      BY <3>1, <3>2
  <2> QED
    BY <2>1, <2>2, <2>3 DEF Sound
<1>6. Sound(bad) /\ bad.fault = "dangling" /\ bad.freed = r.freed
  BY FaultSound
<1> HIDE DEF bad, good, s
<1>7. Sound(s)
  BY <1>4, <1>5, <1>6
<1>8. r.fault = "none" /\ insts \cap r.freed = {} =>
                  s = [body |-> r.body, op |-> r.op \o ops, freed |-> r.freed, fault |-> "none"]
  BY <1>4 DEF good
<1> QED
  BY <1>4, <1>6, <1>7, <1>8 DEF CreatesInsts, s

Replaces(r, old, new, s) ==
  /\ Sound(s)
  /\ r.fault # "none" => s = r
  /\ r.fault = "none" /\ old \in r.freed => s.fault = "dangling" /\ s.freed = r.freed
  /\ r.fault = "none" /\ old \notin r.freed =>
       /\ s.fault = "none" /\ s.op = r.op /\ s.freed = r.freed \union {old}
       /\ Occurs(s, new)
       /\ \A x : Occurs(r, x) /\ x # old => Occurs(s, x)
       /\ s.body = [r.body EXCEPT ![FuncOf(r, old)] = ReplaceAt(@, PosOf(r, old), new)]

LEMMA ReplaceInstFacts ==
  ASSUME program \in Programs, NEW r, Sound(r), NEW old, Mutable(r, old), NEW new \in Nat
  PROVE  Replaces(r, old, new, ReplaceInst(r, old, new))
<1> DEFINE s == ReplaceInst(r, old, new)
           f == FuncOf(r, old)
           p == PosOf(r, old)
           body == ReplaceAt(r.body[f], p, new)
           good == [body |-> [r.body EXCEPT ![f] = body], op |-> r.op, freed |-> r.freed \union {old},
                    fault |-> r.fault]
           bad  == [r EXCEPT !.fault = "dangling"]
<1>1. r \in IRType
  BY DEF Sound
<1>2. s = IF r.fault # "none" THEN r ELSE IF old \in r.freed THEN bad ELSE good
  <2> DEFINE bodies == [r.body EXCEPT ![f] = ReplaceAt(@, p, new)]
             half   == [r EXCEPT !.body = bodies]
  <2>2. bodies = [r.body EXCEPT ![f] = body]
    OBVIOUS
  <2> HIDE DEF bodies
  <2>3. half = [body |-> bodies, op |-> r.op, freed |-> r.freed, fault |-> r.fault]
    BY IsRecord
  <2> HIDE DEF half
  <2>4. [half EXCEPT !.freed = r.freed \union {old}] =
          [body |-> bodies, op |-> r.op, freed |-> r.freed \union {old}, fault |-> r.fault]
    BY <2>3
  <2>1. [r EXCEPT !.body[f] = ReplaceAt(@, p, new), !.freed = r.freed \union {old}] = good
    BY <2>2, <2>4 DEF bodies, half
  <2> QED
    BY <2>1 DEF ReplaceInst, Guarded
<1>3. Sound(bad) /\ bad.fault = "dangling" /\ bad.freed = r.freed
  BY FaultSound
<1>4. ASSUME r.fault = "none", old \notin r.freed
      PROVE  /\ Sound(good) /\ Occurs(good, new)
             /\ \A x : Occurs(r, x) /\ x # old => Occurs(good, x)
  <2> DEFINE b == r.body[f]
             size == Len(b)
  <2>1. /\ f \in 1..Len(program) /\ b \in Seq(Nat) /\ size \in Nat
        /\ p \in 1..(size - 1) /\ p \in 1..size /\ b[p] = old
    BY <1>4, MutablePlace
  <2>2. b # <<>> /\ b[size] = End(f)
    BY <2>1 DEF Sound
  <2>3. body = [b EXCEPT ![p] = new]
    BY DEF ReplaceAt
  <2> HIDE DEF b, f, p
  <2>4. body \in Seq(Nat) /\ Len(body) = size /\ body[p] = new /\ \A n \in 1..size : n # p => body[n] = b[n]
    BY <2>1, <2>3
  <2> HIDE DEF body
  <2>5. body # <<>> /\ body[Len(body)] = End(f)
    <3>1. size \in 1..size /\ size # p
      BY <2>1
    <3>2. body[size] = b[size] /\ Len(body) # 0
      BY <2>4, <3>1
    <3> QED
      BY <2>2, <2>4, <3>2
  <2>6. \A n \in 1..Len(r.body[f]) : r.body[f][n] \notin {old} => \E m \in 1..Len(body) : body[m] = r.body[f][n]
    <3> SUFFICES ASSUME NEW n \in 1..size, b[n] # old PROVE \E m \in 1..size : body[m] = b[n]
      BY <2>4 DEF b
    <3>1. n # p
      BY <2>1
    <3> QED
      BY <2>4, <3>1
  <2>7. {old} \in SUBSET (1..Len(r.op))
    BY DEF Mutable
  <2>8. /\ Sound(good) /\ \A x : Occurs(r, x) /\ x \notin {old} => Occurs(good, x)
        /\ \A m \in 1..Len(body) : Occurs(good, body[m])
    BY <2>1, <2>4, <2>5, <2>6, <2>7, NewBody
  <2> HIDE DEF good
  <2> QED
    BY <2>1, <2>4, <2>8
<1>5. /\ good.fault = r.fault /\ good.op = r.op /\ good.freed = r.freed \union {old}
      /\ good.body = [r.body EXCEPT ![f] = ReplaceAt(@, p, new)]
  OBVIOUS
<1> HIDE DEF good, bad, s
<1>6. Sound(s)
  BY <1>2, <1>3, <1>4
<1> QED
  BY <1>2, <1>3, <1>4, <1>5, <1>6 DEF Replaces, s, f, p

ErasesInst(r, inst, s) ==
  /\ Sound(s)
  /\ r.fault # "none" => s = r
  /\ r.fault = "none" /\ inst \in r.freed => s.fault = "dangling" /\ s.freed = r.freed
  /\ r.fault = "none" /\ inst \notin r.freed =>
       /\ s.fault = "none" /\ s.op = r.op /\ s.freed = r.freed \union {inst}
       /\ \A x : Occurs(r, x) /\ x # inst => Occurs(s, x)
       /\ s.body = [r.body EXCEPT ![FuncOf(r, inst)] = RemoveAt(@, PosOf(r, inst))]

LEMMA EraseInstFacts ==
  ASSUME program \in Programs, NEW r, Sound(r), NEW inst, Mutable(r, inst)
  PROVE  ErasesInst(r, inst, EraseInst(r, inst))
<1> DEFINE s == EraseInst(r, inst)
           f == FuncOf(r, inst)
           p == PosOf(r, inst)
           body == RemoveAt(r.body[f], p)
           good == [body |-> [r.body EXCEPT ![f] = body], op |-> r.op, freed |-> r.freed \union {inst},
                    fault |-> r.fault]
           bad  == [r EXCEPT !.fault = "dangling"]
<1>1. r \in IRType
  BY DEF Sound
<1>2. s = IF r.fault # "none" THEN r ELSE IF inst \in r.freed THEN bad ELSE good
  <2> DEFINE bodies == [r.body EXCEPT ![f] = RemoveAt(@, p)]
             half   == [r EXCEPT !.body = bodies]
  <2>2. bodies = [r.body EXCEPT ![f] = body]
    OBVIOUS
  <2> HIDE DEF bodies
  <2>3. half = [body |-> bodies, op |-> r.op, freed |-> r.freed, fault |-> r.fault]
    BY IsRecord
  <2> HIDE DEF half
  <2>4. [half EXCEPT !.freed = r.freed \union {inst}] =
          [body |-> bodies, op |-> r.op, freed |-> r.freed \union {inst}, fault |-> r.fault]
    BY <2>3
  <2>1. [r EXCEPT !.body[f] = RemoveAt(@, p), !.freed = r.freed \union {inst}] = good
    BY <2>2, <2>4 DEF bodies, half
  <2> QED
    BY <2>1 DEF EraseInst, Guarded
<1>3. Sound(bad) /\ bad.fault = "dangling" /\ bad.freed = r.freed
  BY FaultSound
<1>4. ASSUME r.fault = "none", inst \notin r.freed
      PROVE  /\ Sound(good)
             /\ \A x : Occurs(r, x) /\ x # inst => Occurs(good, x)
  <2> DEFINE b == r.body[f]
             size == Len(b)
  <2>1. /\ f \in 1..Len(program) /\ b \in Seq(Nat) /\ size \in Nat
        /\ p \in 1..(size - 1) /\ p \in 1..size /\ b[p] = inst
    BY <1>4, MutablePlace
  <2>2. b # <<>> /\ b[size] = End(f)
    BY <2>1 DEF Sound
  <2> HIDE DEF b, f, p
  <2>3. body = RemoveAt(b, p)
    BY DEF b
  <2>4. /\ body \in Seq(Nat) /\ Len(body) = size - 1
        /\ \A n \in 1..(p - 1) : body[n] = b[n]
        /\ \A n \in p..(size - 1) : body[n] = b[n + 1]
    BY <2>1, <2>3, RemoveAtFacts
  <2> HIDE DEF body, size
  <2>5. body # <<>> /\ body[Len(body)] = End(f)
    <3>1. size - 1 \in p..(size - 1) /\ (size - 1) + 1 = size /\ size - 1 # 0
      BY <2>1
    <3>2. body[size - 1] = b[size]
      BY <2>4, <3>1
    <3> QED
      BY <2>2, <2>4, <3>1, <3>2
  <2>6. \A n \in 1..Len(r.body[f]) : r.body[f][n] \notin {inst} => \E m \in 1..Len(body) : body[m] = r.body[f][n]
    <3> SUFFICES ASSUME NEW n \in 1..size, b[n] # inst PROVE \E m \in 1..(size - 1) : body[m] = b[n]
      BY <2>4 DEF b, size
    <3>1. n # p
      BY <2>1
    <3>2. CASE n < p
      <4>1. n \in 1..(p - 1) /\ n \in 1..(size - 1)
        BY <2>1, <3>2
      <4> QED
        BY <2>4, <4>1
    <3>3. CASE n > p
      <4>1. n - 1 \in p..(size - 1) /\ n - 1 \in 1..(size - 1) /\ (n - 1) + 1 = n
        BY <2>1, <3>3
      <4> QED
        BY <2>4, <4>1
    <3> QED
      BY <2>1, <3>1, <3>2, <3>3
  <2>7. {inst} \in SUBSET (1..Len(r.op))
    BY DEF Mutable
  <2>8. /\ Sound(good) /\ \A x : Occurs(r, x) /\ x \notin {inst} => Occurs(good, x)
    BY <2>1, <2>4, <2>5, <2>6, <2>7, NewBody
  <2> HIDE DEF good
  <2> QED
    BY <2>8
<1>5. /\ good.fault = r.fault /\ good.op = r.op /\ good.freed = r.freed \union {inst}
      /\ good.body = [r.body EXCEPT ![f] = RemoveAt(@, p)]
  OBVIOUS
<1> HIDE DEF good, bad, s
<1>6. Sound(s)
  BY <1>2, <1>3, <1>4
<1> QED
  BY <1>2, <1>3, <1>4, <1>5, <1>6 DEF ErasesInst, s, f, p

Inserts(r, f, p, new, s) ==
  /\ Sound(s)
  /\ r.fault # "none" => s = r
  /\ s.freed = r.freed /\ s.op = r.op
  /\ r.fault = "none" /\ p > Len(r.body[f]) => s.fault = "end"
  /\ r.fault = "none" /\ p <= Len(r.body[f]) =>
       /\ s.fault = "none"
       /\ Occurs(s, new)
       /\ \A x : Occurs(r, x) => Occurs(s, x)
       /\ s.body = [r.body EXCEPT ![f] = InsertAt(@, p, new)]

LEMMA InsertBeforeFacts ==
  ASSUME program \in Programs, NEW r, Sound(r), NEW f \in 1..Len(program), NEW p \in Nat \ {0},
         NEW new \in Nat
  PROVE  Inserts(r, f, p, new, InsertBefore(r, f, p, new))
<1> DEFINE s == InsertBefore(r, f, p, new)
           b == r.body[f]
           size == Len(b)
           body == InsertAt(b, p, new)
           good == [body |-> [r.body EXCEPT ![f] = body], op |-> r.op, freed |-> r.freed \union {},
                    fault |-> r.fault]
           bad  == [r EXCEPT !.fault = "end"]
<1>1. r \in IRType
  BY DEF Sound
<1>2. s = IF r.fault # "none" THEN r ELSE IF p > size THEN bad ELSE good
  <2> DEFINE bodies == [r.body EXCEPT ![f] = InsertAt(@, p, new)]
  <2>2. bodies = [r.body EXCEPT ![f] = body]
    OBVIOUS
  <2> HIDE DEF bodies
  <2>3. [r EXCEPT !.body = bodies] = [body |-> bodies, op |-> r.op, freed |-> r.freed \union {}, fault |-> r.fault]
    BY IsRecord
  <2>1. [r EXCEPT !.body[f] = InsertAt(@, p, new)] = good
    BY <2>2, <2>3 DEF bodies
  <2> QED
    BY <2>1 DEF InsertBefore, Guarded
<1>3. Sound(bad) /\ bad.fault = "end" /\ bad.freed = r.freed /\ bad.op = r.op
  BY FaultSound
<1>6. b \in Seq(Nat) /\ size \in Nat /\ b # <<>> /\ b[size] = End(f)
  <2>1. r.body \in Seq(Seq(Nat)) /\ f \in 1..Len(r.body)
    BY <1>1 DEF Sound, IRType
  <2>2. b \in Seq(Nat)
    BY <2>1
  <2> QED
    BY <2>2 DEF Sound
<1>4. ASSUME r.fault = "none", p <= size
      PROVE  /\ Sound(good) /\ Occurs(good, new)
             /\ \A x : Occurs(r, x) => Occurs(good, x)
  <2>1. p \in 1..(size + 1) /\ p \in 1..size
    BY <1>4, <1>6
  <2>4. /\ body \in Seq(Nat) /\ Len(body) = size + 1
        /\ \A n \in 1..(p - 1) : body[n] = b[n]
        /\ body[p] = new
        /\ \A n \in p..size : body[n + 1] = b[n]
    <3>1. p \in 1..(Len(b) + 1) /\ b \in Seq(Nat) /\ new \in Nat
      BY <1>6, <2>1
    <3>2. body = InsertAt(b, p, new)
      OBVIOUS
    <3> HIDE DEF b, body
    <3>3. Widens(b, p, new, body)
      BY <3>1, <3>2, InsertAtFacts
    <3> QED
      BY <3>3 DEF Widens
  <2> HIDE DEF body, size, b
  <2>5. body # <<>> /\ body[Len(body)] = End(f)
    <3>1. size \in p..size /\ size + 1 # 0
      BY <1>6, <2>1
    <3>2. body[size + 1] = b[size]
      BY <2>4, <3>1
    <3> QED
      BY <1>6, <2>4, <3>1, <3>2
  <2>6. \A n \in 1..Len(r.body[f]) : r.body[f][n] \notin {} => \E m \in 1..Len(body) : body[m] = r.body[f][n]
    <3> SUFFICES ASSUME NEW n \in 1..size PROVE \E m \in 1..(size + 1) : body[m] = b[n]
      BY <2>4 DEF b, size
    <3>2. CASE n < p
      <4>1. n \in 1..(p - 1) /\ n \in 1..(size + 1)
        BY <1>6, <2>1, <3>2
      <4> QED
        BY <2>4, <4>1
    <3>3. CASE n >= p
      <4>1. n \in p..size /\ n + 1 \in 1..(size + 1)
        BY <1>6, <2>1, <3>3
      <4> QED
        BY <2>4, <4>1
    <3> QED
      BY <2>1, <3>2, <3>3
  <2> DEFINE gone == {}
  <2>7. gone \in SUBSET (1..Len(r.op)) /\ \A x : x \notin gone
    OBVIOUS
  <2>10. good.freed = r.freed \union gone
    OBVIOUS
  <2> HIDE DEF gone
  <2>8. /\ Sound(good) /\ \A x : Occurs(r, x) /\ x \notin gone => Occurs(good, x)
        /\ \A m \in 1..Len(body) : Occurs(good, body[m])
    <3>1. good = [body |-> [r.body EXCEPT ![f] = body], op |-> r.op,
                   freed |-> r.freed \union gone, fault |-> r.fault]
      BY DEF gone
    <3>2. \A n \in 1..Len(r.body[f]) : r.body[f][n] \notin gone => \E m \in 1..Len(body) : body[m] = r.body[f][n]
      BY <2>6, <2>7
    <3> HIDE DEF good
    <3> QED
      BY <2>4, <2>5, <2>7, <3>1, <3>2, NewBody
  <2>9. p \in 1..Len(body)
    BY <1>6, <2>1, <2>4
  <2> HIDE DEF good
  <2> QED
    BY <2>4, <2>7, <2>8, <2>9
<1>5. /\ good.fault = r.fault /\ good.op = r.op /\ good.freed = r.freed
      /\ good.body = [r.body EXCEPT ![f] = InsertAt(@, p, new)]
  OBVIOUS
<1>7. p > size <=> ~(p <= size)
  BY <1>6
<1> HIDE DEF good, bad, s
<1>8. Sound(s)
  BY <1>2, <1>3, <1>4, <1>7
<1> QED
  BY <1>2, <1>3, <1>4, <1>5, <1>7, <1>8 DEF Inserts, s, size, b
-----------------------------------------------------------------------------
(* What the operations of the modes do to the module *)

LEMMA OpTypes ==
  ASSUME NEW op \in Op, NEW old \in Op
  PROVE  AsCall(op) \in Op /\ InPlaceOf(op, old) \in Op /\ Branch \in Op
<1>1. op = [callee |-> op.callee, lib |-> op.lib, mutex |-> op.mutex, args |-> op.args,
            invoke |-> op.invoke, used |-> op.used]
  BY DEF Op
<1> DEFINE op1 == [op EXCEPT !.args = 1]
           op2(x) == [op1 EXCEPT !.invoke = x]
<1>5. op1 = [callee |-> op.callee, lib |-> op.lib, mutex |-> op.mutex, args |-> 1,
             invoke |-> op.invoke, used |-> op.used]
  BY <1>1
<1> HIDE DEF op1
<1>6. \A x : op2(x) = [callee |-> op.callee, lib |-> op.lib, mutex |-> op.mutex, args |-> 1,
                       invoke |-> x, used |-> op.used]
  BY <1>5
<1> HIDE DEF op2
<1>7. \A x, y : [op2(x) EXCEPT !.used = y] =
                [callee |-> op.callee, lib |-> op.lib, mutex |-> op.mutex, args |-> 1,
                 invoke |-> x, used |-> y]
  BY <1>6
<1>2. AsCall(op) = [callee |-> op.callee, lib |-> op.lib, mutex |-> op.mutex, args |-> 1,
                    invoke |-> FALSE, used |-> FALSE]
  BY <1>7 DEF AsCall, op1, op2
<1>3. InPlaceOf(op, old) = [callee |-> op.callee, lib |-> op.lib, mutex |-> op.mutex, args |-> 1,
                            invoke |-> old.invoke, used |-> old.used]
  BY <1>7 DEF InPlaceOf, op1, op2
<1>4. Branch \in Op
  BY DEF Branch, Op
<1> QED
  BY <1>2, <1>3, <1>4 DEF Op

LEMMA OriginalOps ==
  ASSUME program \in Programs
  PROVE  /\ OriginalOp \in Seq(Op) /\ Len(OriginalOp) = Total
         /\ \A f \in 1..Len(program) : OriginalOp[End(f)].callee = "branch"
<1>1. program \in Seq(Seq(Op))
  BY ProgramAssumption
<1>2. OriginalOp \in Seq(Op) /\ Len(OriginalOp) = Total
  BY <1>1, LoadedFacts DEF OriginalOp, Total
<1>3. ASSUME NEW f \in 1..Len(program) PROVE OriginalOp[End(f)].callee = "branch"
  <2>1. program[f] # <<>> /\ program[f] \in Seq(Op) /\ Last(program[f]).callee = "branch"
    BY <1>1, ProgramAssumption
  <2>2. Len(program[f]) \in 1..Len(program[f])
    BY <2>1
  <2>3. FlattenSeq(program)[Offset(program, f) + Len(program[f])] = program[f][Len(program[f])]
    BY <1>1, <2>2, LoadedFacts
  <2>4. End(f) = Offset(program, f) + Len(program[f])
    BY <1>1, OffsetFacts DEF End
  <2> QED
    BY <2>1, <2>3, <2>4 DEF OriginalOp, Last
<1> QED
  BY <1>2, <1>3

\* The ends of pairs are never the last instruction of a function.
LEMMA OriginalMutable ==
  ASSUME program \in Programs, NEW r, Sound(r), NEW inst \in 1..Total,
         OriginalOp[inst].callee # "branch"
  PROVE  Mutable(r, inst)
<1>1. Total \in Nat /\ Total <= Len(r.op) /\ Len(r.op) \in Nat
  BY Sizes DEF Sound, IRType
<1>2. inst \in 1..Len(r.op)
  BY <1>1
<1>3. inst \notin r.freed => Occurs(r, inst)
  BY DEF Sound
<1>4. \A f \in 1..Len(program) : inst # End(f)
  BY OriginalOps
<1> QED
  BY <1>2, <1>3, <1>4 DEF Mutable

\* What creating instructions leaves alone.
StaysPut(r, ops, inst, c) ==
  /\ Mutable(c, inst) /\ c.fault = "none" /\ c.freed = r.freed /\ c.body = r.body
  /\ Len(c.op) = Len(r.op) + Len(ops)
  /\ FuncOf(c, inst) = FuncOf(r, inst) /\ PosOf(c, inst) = PosOf(r, inst)

LEMMA CreatedMutable ==
  ASSUME program \in Programs, NEW r, Sound(r), NEW ops \in Seq(Op), r.fault = "none",
         NEW inst, Mutable(r, inst), inst \notin r.freed,
         NEW c, c = [body |-> r.body, op |-> r.op \o ops, freed |-> r.freed, fault |-> "none"], Sound(c)
  PROVE  StaysPut(r, ops, inst, c)
<1>1. /\ c.fault = "none" /\ c.freed = r.freed /\ c.body = r.body /\ c.op = r.op \o ops
  OBVIOUS
<1>2. r.op \in Seq(Op)
  BY DEF Sound, IRType
<1>3. Len(c.op) = Len(r.op) + Len(ops)
  BY <1>1, <1>2, ConcatProperties
<1>4. Len(r.op) \in Nat /\ Len(ops) \in Nat
  BY <1>2
<1>5. inst \in 1..Len(c.op)
  <2>1. inst \in 1..Len(r.op)
    BY DEF Mutable
  <2> QED
    BY <1>3, <1>4, <2>1
<1>6. Occurs(c, inst)
  BY <1>1 DEF Occurs, Mutable
<1>7. FuncOf(c, inst) = FuncOf(r, inst) /\ PosOf(c, inst) = PosOf(r, inst)
  BY <1>1 DEF FuncOf, PosOf
<1>8. \A f \in 1..Len(program) : inst # End(f)
  BY DEF Mutable
<1> QED
  BY <1>1, <1>3, <1>4, <1>5, <1>6, <1>7, <1>8 DEF Mutable, StaysPut

\* What becomes of a module when one instruction of it is erased or moved.
Erases(r, s, insts) ==
  /\ Sound(s)
  /\ r.fault # "none" => s = r
  /\ s.freed \cap (1..Total) \subseteq r.freed \union insts

LEMMA ErasedFacts ==
  ASSUME program \in Programs, NEW r, Sound(r), NEW inst, Mutable(r, inst)
  PROVE  /\ Erases(r, Erased(r, inst), {inst})
         /\ r.fault = "none" /\ inst \notin r.freed => Erased(r, inst).fault = "none"
         /\ r.fault = "none" => Erased(r, inst).fault \in {"none", "dangling"}
<1> DEFINE op == r.op[inst]
           ops == <<Branch>>
           created == CreateInsts(r, {inst}, ops)
           new == NewInst(r)
<1>1. EraseInvoke(r, inst) = ReplaceInst(created, inst, new)
  BY DEF EraseInvoke
<1>2. ops \in Seq(Op) /\ Len(ops) = 1
  BY OpTypes DEF Branch, Op
<1>3. new \in Nat /\ Len(r.op) \in Nat
  BY DEF NewInst, Sound, IRType
<1> HIDE DEF ops, new
<1>10. CreatesInsts(r, {inst}, ops, created)
  BY <1>2, CreateInstsFacts
<1> HIDE DEF created
<1>4. /\ Sound(created)
      /\ r.fault # "none" => created = r
      /\ r.fault = "none" /\ inst \in r.freed => created.fault = "dangling" /\ created.freed = r.freed
      /\ r.fault = "none" /\ inst \notin r.freed =>
           created = [body |-> r.body, op |-> r.op \o ops, freed |-> r.freed, fault |-> "none"]
  BY <1>10 DEF CreatesInsts
<1>5. ASSUME r.fault = "none", inst \notin r.freed
      PROVE  /\ Erases(r, EraseInvoke(r, inst), {inst}) /\ EraseInvoke(r, inst).fault = "none"
  <2>1. Mutable(created, inst) /\ created.fault = "none" /\ created.freed = r.freed
    <3>1. StaysPut(r, ops, inst, created)
      BY <1>2, <1>4, <1>5, CreatedMutable
    <3> QED
      BY <3>1 DEF StaysPut
  <2>2. /\ Sound(ReplaceInst(created, inst, new))
        /\ ReplaceInst(created, inst, new).fault = "none"
        /\ ReplaceInst(created, inst, new).freed = r.freed \union {inst}
    <3>1. Replaces(created, inst, new, ReplaceInst(created, inst, new))
      BY <1>3, <1>4, <2>1, ReplaceInstFacts
    <3> QED
      BY <1>5, <2>1, <3>1 DEF Replaces
  <2> QED
    BY <1>1, <1>5, <2>2 DEF Erases
<1>6. ASSUME r.fault # "none" \/ inst \in r.freed
      PROVE  /\ Erases(r, EraseInvoke(r, inst), {inst})
             /\ r.fault = "none" => EraseInvoke(r, inst).fault = "dangling"
  <2>1. created.fault # "none" /\ created.freed = r.freed
    BY <1>4, <1>6
  <2>2. ReplaceInst(created, inst, new) = created
    BY <2>1 DEF ReplaceInst, Guarded
  <2> QED
    BY <1>1, <1>4, <1>6, <2>1, <2>2 DEF Erases
<1>7. /\ Erases(r, EraseInst(r, inst), {inst})
      /\ r.fault = "none" /\ inst \notin r.freed => EraseInst(r, inst).fault = "none"
      /\ r.fault = "none" => EraseInst(r, inst).fault \in {"none", "dangling"}
  <2>1. /\ Sound(EraseInst(r, inst))
        /\ r.fault # "none" => EraseInst(r, inst) = r
        /\ r.fault = "none" /\ inst \in r.freed =>
             EraseInst(r, inst).fault = "dangling" /\ EraseInst(r, inst).freed = r.freed
        /\ r.fault = "none" /\ inst \notin r.freed =>
             EraseInst(r, inst).fault = "none" /\ EraseInst(r, inst).freed = r.freed \union {inst}
    BY EraseInstFacts DEF ErasesInst
  <2> QED
    BY <2>1 DEF Erases
<1>8. /\ Erases(r, EraseInvoke(r, inst), {inst})
      /\ r.fault = "none" /\ inst \notin r.freed => EraseInvoke(r, inst).fault = "none"
      /\ r.fault = "none" => EraseInvoke(r, inst).fault \in {"none", "dangling"}
  BY <1>5, <1>6
<1>9. Erases(r, r, {inst})
  BY DEF Erases
<1> QED
  BY <1>7, <1>8, <1>9 DEF Erased

\* The calls of the two places are exchanged, or nothing happens.
LEMMA SwapFacts ==
  ASSUME program \in Programs, NEW r, Sound(r), NEW a, Mutable(r, a), NEW b, Mutable(r, b), a # b
  PROVE  LET s == SwapCallOrInvoke(r, a, b)
         IN  /\ Erases(r, s, {a, b})
             /\ r.fault = "none" => s.fault \in {"none", "dangling"}
             /\ r.fault = "none" /\ {a, b} \cap r.freed = {} => s.fault = "none"
             /\ ~Swappable(r.op[a], r.op[b]) /\ s.fault = "none" => s = r
             /\ s.fault = "none" => Len(r.op) <= Len(s.op) /\ \A n \in 1..Len(r.op) : s.op[n] = r.op[n]
<1> DEFINE op1 == r.op[a]
           op2 == r.op[b]
           ops == <<InPlaceOf(op2, op1), InPlaceOf(op1, op2)>>
           new == NewInst(r)
           created == CreateInsts(r, {a, b}, ops)
           half == ReplaceInst(created, a, new)
           full == ReplaceInst(half, b, new + 1)
           s == SwapCallOrInvoke(r, a, b)
           bad == [r EXCEPT !.fault = "dangling"]
<1>1. r.op \in Seq(Op) /\ Len(r.op) \in Nat /\ new = Len(r.op) + 1
  BY DEF Sound, IRType, NewInst
<1>2. op1 \in Op /\ op2 \in Op
  BY <1>1 DEF Mutable
<1>3. ops \in Seq(Op) /\ Len(ops) = 2
  <2>1. InPlaceOf(op2, op1) \in Op /\ InPlaceOf(op1, op2) \in Op
    BY <1>2, OpTypes
  <2> QED
    BY <2>1
<1>4. s = IF r.fault # "none" THEN r
          ELSE IF {a, b} \cap r.freed # {} THEN bad
          ELSE IF ~Swappable(op1, op2) THEN r ELSE full
  BY DEF SwapCallOrInvoke, Guarded
<1>5. Sound(bad) /\ bad.fault = "dangling" /\ bad.freed = r.freed /\ bad.op = r.op
  BY FaultSound
<1> HIDE DEF ops, bad, op1, op2, new
<1>6. ASSUME r.fault = "none", {a, b} \cap r.freed = {}
      PROVE  /\ Sound(full) /\ full.fault = "none" /\ full.freed = r.freed \union {a, b}
             /\ full.op = r.op \o ops
  <2>1. /\ Sound(created)
        /\ created = [body |-> r.body, op |-> r.op \o ops, freed |-> r.freed, fault |-> "none"]
    <3>1. CreatesInsts(r, {a, b}, ops, created)
      BY <1>3, CreateInstsFacts
    <3> HIDE DEF created
    <3> QED
      BY <1>6, <3>1 DEF CreatesInsts
  <2> HIDE DEF created
  <2>2. /\ Mutable(created, a) /\ Mutable(created, b) /\ created.fault = "none" /\ created.freed = r.freed
        /\ created.op = r.op \o ops
    <3>1. StaysPut(r, ops, a, created) /\ StaysPut(r, ops, b, created)
      BY <1>3, <1>6, <2>1, CreatedMutable
    <3> QED
      BY <2>1, <3>1 DEF StaysPut
  <2>3. /\ Sound(half) /\ half.fault = "none" /\ half.op = created.op /\ half.freed = r.freed \union {a}
        /\ \A x : Occurs(created, x) /\ x # a => Occurs(half, x)
    <3>1. a \notin created.freed /\ new \in Nat
      BY <1>1, <1>6, <2>2
    <3>2. Replaces(created, a, new, half)
      BY <2>1, <2>2, <3>1, ReplaceInstFacts
    <3> HIDE DEF half
    <3> QED
      BY <2>2, <3>1, <3>2 DEF Replaces
  <2> HIDE DEF half
  <2>4. b \notin half.freed /\ Mutable(half, b)
    BY <1>6, <2>2, <2>3 DEF Mutable
  <2>5. /\ Sound(full) /\ full.fault = "none" /\ full.op = half.op /\ full.freed = half.freed \union {b}
    <3>1. new + 1 \in Nat
      BY <1>1
    <3>2. Replaces(half, b, new + 1, full)
      BY <2>3, <2>4, <3>1, ReplaceInstFacts
    <3> HIDE DEF full
    <3> QED
      BY <2>3, <2>4, <3>2 DEF Replaces
  <2> QED
    BY <2>2, <2>3, <2>5
<1> HIDE DEF full
<1>7. Len(r.op) <= Len(r.op \o ops) /\ \A n \in 1..Len(r.op) : (r.op \o ops)[n] = r.op[n]
  <2>1. /\ Len(r.op \o ops) = Len(r.op) + Len(ops)
        /\ \A n \in 1..(Len(r.op) + Len(ops)) : (r.op \o ops)[n] = IF n <= Len(r.op) THEN r.op[n] ELSE ops[n - Len(r.op)]
    BY <1>1, <1>3, ConcatProperties
  <2>2. \A n \in 1..Len(r.op) : n \in 1..(Len(r.op) + Len(ops)) /\ n <= Len(r.op)
    BY <1>1, <1>3
  <2> QED
    BY <1>1, <1>3, <2>1, <2>2
<1> HIDE DEF s
<1>8. Erases(r, s, {a, b})
  BY <1>4, <1>5, <1>6 DEF Erases
<1>9. s.fault = "none" => Len(r.op) <= Len(s.op) /\ \A n \in 1..Len(r.op) : s.op[n] = r.op[n]
  BY <1>1, <1>4, <1>5, <1>6, <1>7
<1>10. ~Swappable(r.op[a], r.op[b]) /\ s.fault = "none" => s = r
  BY <1>4, <1>5 DEF op1, op2
<1> QED
  BY <1>4, <1>5, <1>6, <1>8, <1>9, <1>10 DEF s

\* A shift faults on an erased instruction, upwards from the first instruction, or
\* downwards past the end, and erases nothing but the instruction.
Shifts(r, inst, dir, s) ==
  /\ Erases(r, s, {inst})
  /\ r.fault = "none" =>
       /\ s.fault \in {"none", "dangling", "end"}
       /\ s.fault = "end" => dir > 1
       /\ s.fault = "dangling" => inst \in r.freed \/ dir < 0

LEMMA NoShift ==
  ASSUME NEW r, Sound(r), NEW inst, NEW dir
  PROVE  Shifts(r, inst, dir, r)
  BY DEF Shifts, Erases

LEMMA ShiftCallInstFacts ==
  ASSUME program \in Programs, NEW r, Sound(r), NEW inst, Mutable(r, inst), NEW dir \in Int, dir # 1
  PROVE  Shifts(r, inst, dir, ShiftCallInst(r, inst, dir))
<1> DEFINE f      == FuncOf(r, inst)
           from   == PosOf(r, inst)
           size   == Len(r.body[f])
           to     == ShiftPlace(r, inst, dir)
           created == CreateCopies(r, <<inst>>)
           erased == EraseInst(created, inst)
           place  == IF to > from THEN to - 1 ELSE to
           new    == NewInst(r)
           bad    == [r EXCEPT !.fault = "dangling"]
           ended  == [r EXCEPT !.fault = "end"]
           stale  == [erased EXCEPT !.fault = "dangling"]
           moved  == InsertBefore(erased, f, place, new)
           s      == ShiftCallInst(r, inst, dir)
<1>1. CASE dir = 0
  BY <1>1, NoShift DEF ShiftCallInst
<1>2. CASE dir # 0 /\ r.fault # "none"
  BY <1>2, NoShift DEF ShiftCallInst, Guarded
<1>3. CASE dir # 0 /\ r.fault = "none" /\ inst \in r.freed
  <2>1. s = bad
    BY <1>3 DEF ShiftCallInst, Guarded
  <2>2. Sound(bad) /\ bad.fault = "dangling" /\ bad.freed = r.freed
    BY FaultSound
  <2> HIDE DEF bad, s
  <2>3. Shifts(r, inst, dir, s)
    BY <1>3, <2>1, <2>2 DEF Shifts, Erases
  <2> QED
    BY <2>3 DEF s
<1>4. CASE dir # 0 /\ r.fault = "none" /\ inst \notin r.freed
  <2>1. s = IF to > size THEN ended
            ELSE IF erased.fault # "none" THEN erased
            ELSE IF to = from THEN stale ELSE moved
    BY <1>4 DEF ShiftCallInst, Guarded
  <2>2. /\ f \in 1..Len(program) /\ r.body[f] \in Seq(Nat) /\ size \in Nat
        /\ from \in 1..(size - 1) /\ from \in 1..size
    BY <1>4, MutablePlace
  <2>3. to = IF dir < 0 THEN IF from + dir < 1 THEN 1 ELSE from + dir
             ELSE IF from + dir > size + 1 THEN size + 1 ELSE from + dir
    BY DEF ShiftPlace, RelativePlace
  <2> DEFINE ops == [n \in 1..1 |-> r.op[<<inst>>[n]]]
  <2>4. created = CreateInsts(r, {inst}, ops)
    <3>1. ToSet(<<inst>>) = {inst} /\ Len(<<inst>>) = 1
      BY DEF ToSet
    <3> QED
      BY <3>1 DEF CreateCopies, CreateInsts
  <2>5. ops \in Seq(Op) /\ Len(ops) = 1
    <3>1. r.op \in Seq(Op) /\ inst \in 1..Len(r.op)
      BY DEF Sound, IRType, Mutable
    <3>2. \A n \in 1..1 : r.op[<<inst>>[n]] \in Op
      BY <3>1
    <3>3. ops \in [1..1 -> Op]
      BY <3>2
    <3> QED
      BY <3>3, AsSeq
  <2> HIDE DEF ops, created, f, from, size, to
  <2>6. /\ Sound(created)
        /\ created = [body |-> r.body, op |-> r.op \o ops, freed |-> r.freed, fault |-> "none"]
    <3>1. CreatesInsts(r, {inst}, ops, created)
      BY <2>4, <2>5, CreateInstsFacts
    <3> QED
      BY <1>4, <3>1 DEF CreatesInsts
  <2>7. /\ Mutable(created, inst) /\ created.fault = "none" /\ created.freed = r.freed /\ created.body = r.body
        /\ FuncOf(created, inst) = f /\ PosOf(created, inst) = from
    <3>1. StaysPut(r, ops, inst, created)
      BY <1>4, <2>5, <2>6, CreatedMutable
    <3> QED
      BY <3>1 DEF f, from, StaysPut
  <2>8. /\ Sound(erased) /\ erased.fault = "none" /\ erased.freed = r.freed \union {inst}
        /\ erased.body = [r.body EXCEPT ![f] = RemoveAt(@, from)]
    <3>1. ErasesInst(created, inst, erased)
      BY <2>6, <2>7, EraseInstFacts
    <3> HIDE DEF erased
    <3> QED
      BY <1>4, <2>7, <3>1 DEF ErasesInst
  <2> HIDE DEF erased
  <2>9. Len(erased.body[f]) = size - 1
    <3>1. r.body \in Seq(Seq(Nat)) /\ Len(r.body) = Len(program)
      BY DEF Sound, IRType
    <3>2. erased.body[f] = RemoveAt(r.body[f], from)
      BY <2>2, <2>8, <3>1
    <3>3. from \in 1..Len(r.body[f])
      BY <2>2 DEF size
    <3>4. Len(RemoveAt(r.body[f], from)) = Len(r.body[f]) - 1
      BY <2>2, <3>3, RemoveAtFacts
    <3> QED
      BY <3>2, <3>4 DEF size
  <2>10. CASE to > size
    <3>1. Sound(ended) /\ ended.fault = "end" /\ ended.freed = r.freed
      BY FaultSound
    <3>2. dir > 1
      BY <1>4, <2>2, <2>3, <2>10
    <3>3. s = ended
      BY <2>1, <2>10
    <3> HIDE DEF ended, s
    <3>4. Shifts(r, inst, dir, s)
      BY <1>4, <3>1, <3>2, <3>3 DEF Shifts, Erases
    <3> QED
      BY <3>4 DEF s
  <2>11. CASE ~(to > size) /\ to = from
    <3>1. Sound(stale) /\ stale.fault = "dangling" /\ stale.freed = erased.freed
      BY <2>8, FaultSound
    <3>2. dir < 0
      BY <1>4, <2>2, <2>3, <2>11
    <3>3. s = stale
      BY <2>1, <2>8, <2>11
    <3> HIDE DEF stale, s
    <3>4. Shifts(r, inst, dir, s)
      BY <1>4, <2>8, <3>1, <3>2, <3>3 DEF Shifts, Erases
    <3> QED
      BY <3>4 DEF s
  <2>12. CASE ~(to > size) /\ to # from
    <3>1. place \in Nat \ {0} /\ place <= size - 1
      BY <1>4, <2>2, <2>3, <2>12
    <3>2. new \in Nat
      BY DEF NewInst, Sound, IRType
    <3> HIDE DEF place, new
    <3>3. Inserts(erased, f, place, new, moved)
      BY <2>2, <2>8, <3>1, <3>2, InsertBeforeFacts
    <3>4. s = moved
      BY <2>1, <2>8, <2>12
    <3> HIDE DEF moved, s
    <3>5. Sound(moved) /\ moved.fault = "none" /\ moved.freed = erased.freed
      BY <2>8, <2>9, <3>1, <3>3 DEF Inserts
    <3>6. Shifts(r, inst, dir, s)
      BY <1>4, <2>8, <3>4, <3>5 DEF Shifts, Erases
    <3> QED
      BY <3>6 DEF s
  <2> QED
    BY <2>10, <2>11, <2>12
<1> QED
  BY <1>1, <1>2, <1>3, <1>4

LEMMA WriteFacts ==
  ASSUME NEW E, NEW t \in Seq(E), NEW e \in E, NEW k
  PROVE  [t EXCEPT ![k] = e] \in Seq(E) /\ Len([t EXCEPT ![k] = e]) = Len(t)
<1>1. Len(t) \in Nat /\ DOMAIN t = 1..Len(t) /\ \A n \in 1..Len(t) : t[n] \in E
  OBVIOUS
<1> DEFINE size == Len(t)
           u == [n \in 1..size |-> IF n = k THEN e ELSE t[n]]
<1>2. u \in [1..size -> E]
  BY <1>1
<1>3. [t EXCEPT ![k] = e] = u
  BY <1>1
<1> HIDE DEF u
<1>4. u \in Seq(E) /\ Len(u) = size
  BY <1>1, <1>2, AsSeq
<1> QED
  BY <1>3, <1>4

LEMMA ShiftCallFacts ==
  ASSUME program \in Programs, NEW r, Sound(r), NEW inst, Mutable(r, inst), NEW dir \in Int, dir # 1
  PROVE  Shifts(r, inst, dir, ShiftCall(r, inst, dir))
<1> DEFINE op      == r.op[inst]
           shifted == ShiftCallInst(r, inst, dir)
           done    == [shifted EXCEPT !.op[NewInst(r)] = AsCall(op)]
           s       == ShiftCall(r, inst, dir)
<1>1. Shifts(r, inst, dir, shifted)
  BY ShiftCallInstFacts
<1>2. s = r \/ (s = shifted /\ Faulted(shifted)) \/ (s = done /\ ~Faulted(shifted))
  BY DEF ShiftCall
<1>3. AsCall(op) \in Op
  <2>1. op \in Op
    BY DEF Sound, IRType, Mutable
  <2> QED
    BY <2>1, OpTypes
<1> HIDE DEF op, shifted
<1>4. ASSUME s = done, ~Faulted(shifted) PROVE Shifts(r, inst, dir, s)
  <2> DEFINE ops == [shifted.op EXCEPT ![NewInst(r)] = AsCall(op)]
  <2>1. Sound(shifted) /\ shifted.fault = "none"
    BY <1>1, <1>4 DEF Shifts, Erases, Faulted
  <2>2. shifted.op \in Seq(Op)
    BY <2>1 DEF Sound, IRType
  <2>3. ops \in Seq(Op) /\ Len(ops) = Len(shifted.op)
    <3> DEFINE e == AsCall(op)
               k == NewInst(r)
               t == shifted.op
    <3>1. e \in Op /\ t \in Seq(Op)
      BY <1>3, <2>2
    <3> HIDE DEF e, k, t
    <3>2. [t EXCEPT ![k] = e] \in Seq(Op) /\ Len([t EXCEPT ![k] = e]) = Len(t)
      BY <3>1, WriteFacts
    <3> QED
      BY <3>2 DEF e, k, t
  <2> HIDE DEF ops
  <2>4. done = [body |-> shifted.body, op |-> ops, freed |-> shifted.freed, fault |-> shifted.fault]
    BY <2>1, IsRecord DEF ops
  <2> HIDE DEF done
  <2>5. done \in IRType
    BY <2>1, <2>3, <2>4 DEF Sound, IRType
  <2>6. Sound(done)
    <3>1. /\ done.body = shifted.body /\ done.freed = shifted.freed /\ Len(done.op) = Len(shifted.op)
      BY <2>3, <2>4
    <3>2. \A x : Occurs(shifted, x) => Occurs(done, x)
      BY <3>1 DEF Occurs
    <3>3. \A x \in (1..Total) \ done.freed : Occurs(done, x)
      BY <2>1, <3>1, <3>2 DEF Sound
    <3>4. /\ Len(done.body) = Len(program)
          /\ \A f \in 1..Len(program) : done.body[f] # <<>> /\ done.body[f][Len(done.body[f])] = End(f)
          /\ done.freed \subseteq 1..Len(done.op) /\ Total <= Len(done.op)
      BY <2>1, <3>1 DEF Sound
    <3> QED
      BY <2>5, <3>3, <3>4 DEF Sound
  <2>7. done.fault = "none" /\ done.freed = shifted.freed
    BY <2>1, <2>4
  <2>8. r.fault = "none"
    BY <1>1, <2>1 DEF Shifts, Erases
  <2> HIDE DEF s
  <2> QED
    BY <1>1, <1>4, <2>6, <2>7, <2>8 DEF Shifts, Erases
<1>5. Shifts(r, inst, dir, r)
  BY NoShift
<1>6. Shifts(r, inst, dir, s)
  <2> HIDE DEF s, done
  <2> QED
    BY <1>1, <1>2, <1>4, <1>5
<1> QED
  BY <1>6

\* The invoke becomes a call and a branch; then the call is moved.
LEMMA ShiftInvokeFacts ==
  ASSUME program \in Programs, NEW r, Sound(r), NEW inst, Mutable(r, inst), NEW dir \in Int, dir # 1
  PROVE  Shifts(r, inst, dir, ShiftInvoke(r, inst, dir))
<1> DEFINE op  == r.op[inst]
           new == NewInst(r)
           f   == FuncOf(r, inst)
           n   == PosOf(r, inst)
           ops == <<AsCall(op), Branch>>
           created  == CreateInsts(r, {inst}, ops)
           replaced == ReplaceInst(created, inst, new)
           branched == InsertBefore(replaced, f, n + 1, new + 1)
           shifted  == ShiftCall(branched, new, dir)
           bad == [r EXCEPT !.fault = "dangling"]
           s   == ShiftInvoke(r, inst, dir)
<1>1. s = r \/ (s = bad /\ r.fault = "none" /\ inst \in r.freed)
        \/ (s = shifted /\ r.fault = "none" /\ inst \notin r.freed)
  BY DEF ShiftInvoke, Guarded
<1>2. CASE s = r
  BY <1>2, NoShift
<1>3. CASE s = bad /\ r.fault = "none" /\ inst \in r.freed
  <2>1. Sound(bad) /\ bad.fault = "dangling" /\ bad.freed = r.freed
    BY FaultSound
  <2> HIDE DEF bad, s
  <2>2. Shifts(r, inst, dir, s)
    BY <1>3, <2>1 DEF Shifts, Erases
  <2> QED
    BY <2>2 DEF s
<1>4. CASE s = shifted /\ r.fault = "none" /\ inst \notin r.freed
  <2>1. /\ f \in 1..Len(program) /\ r.body[f] \in Seq(Nat) /\ Len(r.body[f]) \in Nat
        /\ n \in 1..(Len(r.body[f]) - 1) /\ n \in 1..Len(r.body[f])
    BY <1>4, MutablePlace
  <2>2. r.op \in Seq(Op) /\ Len(r.op) \in Nat /\ inst \in 1..Len(r.op) /\ new = Len(r.op) + 1
    BY DEF Sound, IRType, Mutable, NewInst
  <2>3. ops \in Seq(Op) /\ Len(ops) = 2
    <3>1. op \in Op
      BY <2>2
    <3>2. AsCall(op) \in Op /\ Branch \in Op
      BY <3>1, OpTypes
    <3> QED
      BY <3>2
  <2> HIDE DEF ops, new, f, n
  <2>4. /\ Sound(created)
        /\ created = [body |-> r.body, op |-> r.op \o ops, freed |-> r.freed, fault |-> "none"]
    <3>1. CreatesInsts(r, {inst}, ops, created)
      BY <2>3, CreateInstsFacts
    <3> HIDE DEF created
    <3> QED
      BY <1>4, <3>1 DEF CreatesInsts
  <2> HIDE DEF created
  <2>5. /\ Mutable(created, inst) /\ created.fault = "none" /\ created.freed = r.freed /\ created.body = r.body
        /\ Len(created.op) = Len(r.op) + 2
        /\ FuncOf(created, inst) = f /\ PosOf(created, inst) = n
    <3>1. StaysPut(r, ops, inst, created)
      BY <1>4, <2>3, <2>4, CreatedMutable
    <3> QED
      BY <2>3, <3>1 DEF f, n, StaysPut
  <2>6. /\ Sound(replaced) /\ replaced.fault = "none" /\ replaced.freed = r.freed \union {inst}
        /\ replaced.op = created.op /\ Occurs(replaced, new)
        /\ replaced.body = [r.body EXCEPT ![f] = ReplaceAt(@, n, new)]
    <3>1. Replaces(created, inst, new, replaced)
      BY <2>2, <2>4, <2>5, ReplaceInstFacts
    <3> HIDE DEF replaced
    <3> QED
      BY <1>4, <2>5, <3>1 DEF Replaces
  <2> HIDE DEF replaced
  <2>7. Len(replaced.body[f]) = Len(r.body[f])
    <3>1. r.body \in Seq(Seq(Nat)) /\ Len(r.body) = Len(program)
      BY DEF Sound, IRType
    <3>2. replaced.body[f] = ReplaceAt(r.body[f], n, new)
      BY <2>1, <2>6, <3>1
    <3>3. ReplaceAt(r.body[f], n, new) = [r.body[f] EXCEPT ![n] = new]
      BY DEF ReplaceAt
    <3> QED
      BY <2>1, <3>2, <3>3
  <2>8. /\ Sound(branched) /\ branched.fault = "none" /\ branched.freed = replaced.freed
        /\ branched.op = replaced.op /\ Occurs(branched, new)
    <3>1. n + 1 \in Nat \ {0} /\ new + 1 \in Nat /\ n + 1 <= Len(replaced.body[f])
      <4> DEFINE size == Len(r.body[f])
                 ops0 == Len(r.op)
      <4>1. size \in Nat /\ n \in 1..(size - 1) /\ ops0 \in Nat /\ new = ops0 + 1
        BY <2>1, <2>2
      <4> HIDE DEF size, ops0
      <4>2. n + 1 \in Nat \ {0} /\ new + 1 \in Nat /\ n + 1 <= size
        BY <4>1
      <4> QED
        BY <2>7, <4>2 DEF size
    <3>2. Inserts(replaced, f, n + 1, new + 1, branched)
      BY <2>1, <2>6, <3>1, InsertBeforeFacts
    <3> HIDE DEF branched
    <3> QED
      BY <2>6, <3>1, <3>2 DEF Inserts
  <2>9. Mutable(branched, new) /\ new \notin branched.freed /\ new \notin 1..Total
    <3>1. new \in 1..Len(branched.op)
      BY <2>2, <2>5, <2>6, <2>8
    <3>2. Total <= Len(r.op) /\ Total \in Nat /\ r.freed \subseteq 1..Len(r.op)
      BY Sizes DEF Sound
    <3>3. new \notin 1..Total /\ new \notin 1..Len(r.op)
      BY <2>2, <3>2
    <3>4. \A g \in 1..Len(program) : new # End(g)
      BY <3>3, Sizes
    <3>5. new \notin branched.freed
      BY <2>2, <2>6, <2>8, <3>2, <3>3
    <3> HIDE DEF branched
    <3> QED
      BY <2>8, <3>1, <3>3, <3>4, <3>5 DEF Mutable
  <2> HIDE DEF branched
  <2>10. Shifts(branched, new, dir, shifted)
    BY <2>8, <2>9, ShiftCallFacts
  <2> HIDE DEF shifted, s
  <2>11. Shifts(r, inst, dir, s)
    BY <1>4, <2>6, <2>8, <2>9, <2>10 DEF Shifts, Erases
  <2> QED
    BY <2>11 DEF s
<1> QED
  BY <1>1, <1>2, <1>3, <1>4

\* Nothing to do, or a call or an invoke is moved.
LEMMA ShiftedFacts ==
  ASSUME program \in Programs, NEW r, Sound(r), NEW inst, Mutable(r, inst), NEW dir \in Int
  PROVE  /\ Shifts(r, inst, dir, Shifted(r, inst, dir))
         /\ dir = 1 => Shifted(r, inst, dir) = r
<1>1. Shifts(r, inst, dir, r)
  BY NoShift
<1>2. dir # 1 => Shifts(r, inst, dir, ShiftInvoke(r, inst, dir))
  BY ShiftInvokeFacts
<1>3. dir # 1 => Shifts(r, inst, dir, ShiftCall(r, inst, dir))
  BY ShiftCallFacts
<1> QED
  BY <1>1, <1>2, <1>3 DEF Shifted

-----------------------------------------------------------------------------
(* The inductive invariant of the loops *)

\* The groups of the positions that name pairs.
Halves(width) == {k \in 0..(width - 1) : k % 2 = 0}
PairGroups(width) == {g \in Groups(width) : \A k \in Halves(width) : HasGenericPair(g + k)}
UsedBefore(width, inst) ==
  \E g \in PairGroups(width) : g < i /\ \E k \in Halves(width) : inst \in InstsOf(GenericPair(g + k))

\* The index is aligned to the groups a loop reads, so that the tests of
\* checkCommandLineArgs keep every read in bounds.
ArgsInv ==
  /\ pc \in {"args", "exit", "enumerate", "loop", "erase", "ran", "done", "fault"}
  /\ i \in Nat
  /\ modified \in BOOLEAN
  /\ pc \notin {"args", "exit"} => ArgsAccepted
  /\ pc \in {"args", "enumerate"} => i = 0 /\ mutateInsts = {}
  /\ pc = "loop" => i % 2 = 0 /\ (Mode("swap") => i % 4 = 0)

\* What the properties demand of a fault.
Explained(fault) ==
  /\ fault # "oob"
  /\ fault = "null" =>
       Mode("shift") /\ \E g \in Groups(2) : Kind(g) \in Kinds /\ ~HasGenericPair(g)
  /\ fault = "end" =>
       \/ Mode("shift") /\ \E dir \in Directions : dir > 1
       \/ /\ Mode("split")
          /\ \/ \E n \in 1..Len(cmd.splitpos) : cmd.splitpos[n] > IntMax
             \/ \E pair \in NamedPairs : pair.unlock < pair.lock
  /\ fault = "dangling" =>
       \/ VerbosePrint /\ ~Mode("split")
       \/ Mode("swap") /\ ShareInsts(4)
       \/ Mode("shift") /\ (ShareInsts(2) \/ \E dir \in Directions : dir < 0)

ModuleInv ==
  /\ Sound(ir)
  /\ pc # "fault" => ir.fault = "none"
  /\ pc = "fault" => Explained(ir.fault)

\* -rm: nothing is erased before the erasing loop, and no instruction twice.
RemoveInv ==
  /\ mutateInsts \subseteq PairedInsts
  /\ pc = "erase" => Mode("rm") /\ mutateInsts \cap ir.freed = {}

\* -swap and -shift: what was erased belongs to the groups before.
FreedInv ==
  pc = "loop" =>
    \A inst \in ir.freed \cap (1..Total) :
      \/ Mode("swap") /\ UsedBefore(4, inst)
      \/ Mode("shift") /\ UsedBefore(2, inst)

\* The instructions that were there keep their function and their order in it.
InOrder(r) ==
  \A f \in 1..Len(program) : \A n \in 1..Len(r.body[f]) :
    r.body[f][n] \in 1..Total =>
      /\ r.body[f][n] \in ToSet(Original(f))
      /\ \A m \in 1..(n - 1) : r.body[f][m] \in 1..Total => r.body[f][m] < r.body[f][n]
SplitInv ==
  Mode("split") /\ pc \in {"loop", "ran"} => ir.freed = {} /\ InOrder(ir)

\* Only a pass that reports it has changed the module.
ChangeInv ==
  /\ ~modified /\ pc \notin {"exit", "fault"} => ir = Loaded(program)
  /\ ~modified /\ pc = "erase" => mutateInsts = {}
  /\ Mode("rm") /\ pc = "loop" => ir = Loaded(program)

MInv == PairsInv /\ ArgsInv /\ ModuleInv /\ RemoveInv /\ FreedInv /\ SplitInv /\ ChangeInv

-----------------------------------------------------------------------------
(* The command line *)

LEMMA Even ==
  ASSUME NEW n \in Nat, NEW len \in Nat, n % 2 = 0, len % 2 = 0, n < len
  PROVE  n + 1 < len
  BY SMT
LEMMA ByFour ==
  ASSUME NEW n \in Nat, NEW len \in Nat, n % 4 = 0, len % 4 = 0, n < len
  PROVE  n + 3 < len
  BY SMT
LEMMA AlignedTwo == ASSUME NEW n \in Nat, n % 2 = 0 PROVE (n + 2) % 2 = 0
  BY SMT
LEMMA AlignedFour == ASSUME NEW n \in Nat, n % 4 = 0 PROVE (n + 4) % 4 = 0
  BY SMT

LEMMA CommandTypes ==
  ASSUME cmd \in Commands
  PROVE  /\ Len(cmd.pos) \in Nat /\ Len(cmd.splitpos) \in Nat
         /\ \A n \in Nat : n < Len(cmd.pos) => At(cmd.pos, n) \in UIntRange
         /\ \A n \in Nat : n < Len(cmd.splitpos) =>
              At(cmd.splitpos, n) \in UIntRange /\ n + 1 \in 1..Len(cmd.splitpos)
<1>1. cmd.pos \in Seq(UIntRange) /\ cmd.splitpos \in Seq(UIntRange)
  BY CommandAssumption
<1>2. Len(cmd.pos) \in Nat /\ Len(cmd.splitpos) \in Nat
  BY <1>1
<1> HIDE DEF UIntRange
<1>3. ASSUME NEW n \in Nat, n < Len(cmd.pos) PROVE At(cmd.pos, n) \in UIntRange
  <2>1. n + 1 \in 1..Len(cmd.pos)
    BY <1>2, <1>3
  <2> QED
    BY <1>1, <2>1 DEF At
<1>4. ASSUME NEW n \in Nat, n < Len(cmd.splitpos)
      PROVE  At(cmd.splitpos, n) \in UIntRange /\ n + 1 \in 1..Len(cmd.splitpos)
  <2>1. n + 1 \in 1..Len(cmd.splitpos)
    BY <1>2, <1>4
  <2> QED
    BY <1>1, <2>1 DEF At
<1> QED
  BY <1>2, <1>3, <1>4

LEMMA OneMode ==
  ASSUME ArgsAccepted
  PROVE  /\ Mode("rm") => ~Mode("swap") /\ ~Mode("shift") /\ ~Mode("split")
         /\ Mode("swap") => ~Mode("shift") /\ ~Mode("split")
         /\ Mode("shift") => ~Mode("split")
<1>1. \A m1, m2 \in Modes : Mode(m1) /\ Mode(m2) => m1 = m2
  BY DEF ArgsAccepted
<1> QED
  BY <1>1 DEF Modes

\* What an accepted command line promises to the loop of its mode.
LEMMA AcceptedLists ==
  ASSUME ArgsAccepted
  PROVE  /\ Mode("rm") \/ Mode("shift") \/ Mode("split") => Len(cmd.pos) % 2 = 0
         /\ Mode("swap") => Len(cmd.pos) % 4 = 0
         /\ Mode("split") => Len(cmd.splitpos) % 2 = 0
<1>1. \A m \in Modes : Mode(m) => Len(cmd.pos) % 2 = 0
  BY DEF ArgsAccepted
<1>2. Mode("rm") \/ Mode("shift") \/ Mode("split") => Len(cmd.pos) % 2 = 0
  BY <1>1 DEF Modes
<1> QED
  BY <1>2 DEF ArgsAccepted, SwapArgs, SplitArgs

\* No loop reads past the end of -pos or -splitpos.
LEMMA NoOverrun ==
  ASSUME MInv, pc = "loop", i < Len(cmd.pos)
  PROVE  /\ Mode("rm") \/ Mode("shift") \/ Mode("split") => ~Overrun(2) /\ i + 1 < Len(cmd.pos)
         /\ Mode("swap") => ~Overrun(4) /\ i + 3 < Len(cmd.pos)
         /\ Mode("split") => ~SplitOverrun
<1>1. cmd \in Commands /\ i \in Nat /\ i % 2 = 0 /\ (Mode("swap") => i % 4 = 0) /\ ArgsAccepted
  BY DEF MInv, PairsInv, ArgsInv
<1>2. Len(cmd.pos) \in Nat /\ Len(cmd.splitpos) \in Nat
  BY <1>1, CommandTypes
<1>3. ASSUME Mode("rm") \/ Mode("shift") \/ Mode("split")
      PROVE  ~Overrun(2) /\ i + 1 < Len(cmd.pos)
  <2>1. i + 1 < Len(cmd.pos)
    BY <1>1, <1>2, <1>3, AcceptedLists, Even
  <2> QED
    BY <1>1, <1>2, <2>1 DEF Overrun, InList
<1>4. ASSUME Mode("swap") PROVE ~Overrun(4) /\ i + 3 < Len(cmd.pos)
  <2>1. i + 3 < Len(cmd.pos)
    BY <1>1, <1>2, <1>4, AcceptedLists, ByFour
  <2> QED
    BY <1>1, <1>2, <2>1 DEF Overrun, InList
<1>5. ASSUME Mode("split"), SplitOverrun PROVE FALSE
  <2>1. i < Len(cmd.splitpos) /\ ~(i + 1 < Len(cmd.splitpos))
    BY <1>3, <1>5 DEF SplitOverrun, HasSplitPos, InList
  <2>2. Len(cmd.splitpos) % 2 = 0
    BY <1>1, <1>5, AcceptedLists
  <2> QED
    BY <1>1, <1>2, <2>1, <2>2, Even
<1> QED
  BY <1>3, <1>4, <1>5

-----------------------------------------------------------------------------
(* The pairs a command line names *)

\* The ends of a pair are two instructions of one function, none of them its last.
PairFact(pair) ==
  /\ pair.lock \in 1..Total /\ pair.unlock \in 1..Total
  /\ OriginalOp[pair.lock].callee = "lock" /\ OriginalOp[pair.unlock].callee = "unlock"
  /\ \E f \in 1..Len(program) : pair.lock \in ToSet(Original(f)) /\ pair.unlock \in ToSet(Original(f))

LEMMA FoundPair ==
  ASSUME PairsInv, Enumerated, NEW kind \in Kinds, NEW pair \in ToSet(lockPairs[kind])
  PROVE  PairFact(pair)
<1>1. program \in Programs /\ program \in Seq(Seq(Op)) /\ PairsUpTo(Len(program))
  BY ProgramAssumption DEF PairsInv
<1>2. PICK f \in 1..Len(program) : pair \in FunctionPairs(kind, f)
  BY <1>1 DEF PairsUpTo
<1>3. /\ pair.lock \in ToSet(Original(f)) /\ OriginalOp[pair.lock].callee = "lock"
      /\ pair.unlock \in ToSet(Original(f)) /\ OriginalOp[pair.unlock].callee = "unlock"
  BY <1>2 DEF FunctionPairs, Ends
<1>4. ToSet(Original(f)) \subseteq 1..Total
  <2> DEFINE first == Offset(program, f)
             last  == Offset(program, f + 1)
  <2>1. ToSet(Original(f)) = (first + 1)..last /\ first \in Nat
    BY <1>1, NumberedFacts DEF Original
  <2>2. last \in 1..Total /\ Total \in Nat
    BY <1>1, Sizes DEF End
  <2> HIDE DEF first, last
  <2> QED
    BY <2>1, <2>2
<1> QED
  BY <1>3, <1>4 DEF PairFact

\* A named pair is one of those found, whatever its number.
LEMMA NamedPair ==
  ASSUME PairsInv, Enumerated, NEW n \in Nat, n + 1 < Len(cmd.pos)
  PROVE  /\ HasGenericPair(n) => \E kind \in Kinds : GenericPair(n) \in ToSet(lockPairs[kind])
         /\ HasPair(n) => \E kind \in Kinds : PairAt(n) \in ToSet(lockPairs[kind])
<1>1. cmd \in Commands /\ PairsUpTo(Len(program)) /\ Len(cmd.pos) \in Nat
  BY CommandTypes DEF PairsInv
<1>2. At(cmd.pos, n + 1) \in Nat
  <2>1. At(cmd.pos, n + 1) \in UIntRange
    BY <1>1, CommandTypes
  <2> QED
    BY <2>1, IntMaxAssumption DEF UIntRange
<1>3. ASSUME NEW kind, NEW number \in Nat, Finds(kind, number)
      PROVE  kind \in Kinds /\ lockPairs[kind][number + 1] \in ToSet(lockPairs[kind])
  <2>1. kind \in Kinds /\ number < Len(lockPairs[kind])
    BY <1>3 DEF Finds
  <2>2. lockPairs[kind] \in Seq(PairType)
    BY <1>1, <2>1 DEF PairsUpTo
  <2>3. number + 1 \in 1..Len(lockPairs[kind]) /\ DOMAIN lockPairs[kind] = 1..Len(lockPairs[kind])
    BY <2>1, <2>2
  <2> QED
    BY <2>1, <2>3 DEF ToSet
<1>4. GenericNumber(n) \in Nat
  BY <1>2 DEF GenericNumber, InvokeInvoke
<1> QED
  BY <1>2, <1>3, <1>4 DEF HasGenericPair, GenericPair, HasPair, PairAt

LEMMA NamedFact ==
  ASSUME PairsInv, Enumerated, NEW n \in Nat, n + 1 < Len(cmd.pos), HasGenericPair(n)
  PROVE  PairFact(GenericPair(n))
  BY NamedPair, FoundPair

\* The ends of a pair can be mutated, whatever was done before.
LEMMA PairMutable ==
  ASSUME program \in Programs, NEW pair, PairFact(pair), NEW r, Sound(r)
  PROVE  Mutable(r, pair.lock) /\ Mutable(r, pair.unlock)
<1>1. OriginalOp[pair.lock].callee # "branch" /\ OriginalOp[pair.unlock].callee # "branch"
  BY DEF PairFact
<1> QED
  BY <1>1, OriginalMutable DEF PairFact

LEMMA PairedMutable ==
  ASSUME PairsInv, Enumerated, NEW inst \in PairedInsts, NEW r, Sound(r)
  PROVE  Mutable(r, inst)
<1>1. PICK kind \in Kinds : \E pair \in ToSet(lockPairs[kind]) : inst \in InstsOf(pair)
  BY DEF PairedInsts
<1>2. PICK pair \in ToSet(lockPairs[kind]) : inst \in InstsOf(pair)
  BY <1>1
<1>3. PairFact(pair)
  BY FoundPair
<1> QED
  BY <1>2, <1>3, PairMutable DEF InstsOf, PairsInv

-----------------------------------------------------------------------------
(* What does not change with the command line, the vectors and the program *)

LEMMA SameCommand ==
  ASSUME UNCHANGED cmd
  PROVE  /\ ArgsAccepted' = ArgsAccepted /\ VerbosePrint' = VerbosePrint
         /\ \A m : Mode(m)' = Mode(m)
         /\ \A width : Groups(width)' = Groups(width)
  BY DEF ArgsAccepted, Mode, RmArgs, SwapArgs, ShiftArgs, SplitArgs, VerbosePrint, Groups

LEMMA SamePairs ==
  ASSUME UNCHANGED <<cmd, lockPairs>>
  PROVE  /\ \A n : HasGenericPair(n)' = HasGenericPair(n) /\ GenericPair(n)' = GenericPair(n)
         /\ \A width : PairGroups(width)' = PairGroups(width)
         /\ PairedInsts' = PairedInsts
<1>1. \A n : HasGenericPair(n)' = HasGenericPair(n)
  BY DEF HasGenericPair, Finds, Kind, GenericNumber, At
<1>2. \A n : GenericPair(n)' = GenericPair(n)
  BY DEF GenericPair, Kind, GenericNumber, At
<1>3. \A width : PairGroups(width)' = PairGroups(width)
  BY DEF PairGroups, Groups, HasGenericPair, Finds, Kind, GenericNumber, At
<1>4. PairedInsts' = PairedInsts
  BY DEF PairedInsts
<1> QED
  BY <1>1, <1>2, <1>3, <1>4

LEMMA SameExplanation ==
  ASSUME UNCHANGED <<cmd, lockPairs>>, NEW fault, Explained(fault)
  PROVE  Explained(fault)'
<1>1. (\E g \in Groups(2) : Kind(g) \in Kinds /\ ~HasGenericPair(g)) =>
        (\E g \in Groups(2) : Kind(g) \in Kinds /\ ~HasGenericPair(g))'
  BY DEF Groups, Kind, HasGenericPair, Finds, GenericNumber, At
<1>2. /\ Directions' = Directions /\ Mode("swap")' = Mode("swap") /\ Mode("shift")' = Mode("shift")
      /\ Mode("split")' = Mode("split") /\ VerbosePrint' = VerbosePrint
  BY DEF Directions, Mode, VerbosePrint
<1>3. NamedPairs' = NamedPairs
  BY DEF NamedPairs, Groups, Mode, PairAt, HasPair, GenericPair, HasGenericPair, Finds, Kind,
         GenericNumber, At
<1>4. \A width : ShareInsts(width) => ShareInsts(width)'
  BY DEF ShareInsts, Groups, GenericPair, HasGenericPair, Finds, Kind, GenericNumber, At, InstsOf
<1>5. ShareInsts(2) => ShareInsts(2)'
  BY <1>4
<1>6. ShareInsts(4) => ShareInsts(4)'
  BY <1>4
<1> QED
  BY <1>1, <1>2, <1>3, <1>5, <1>6 DEF Explained

LEMMA SameModule ==
  ASSUME UNCHANGED program
  PROVE  /\ Sound(ir') => Sound(ir)'
         /\ InOrder(ir') => InOrder(ir)'
         /\ Total' = Total /\ Loaded(program)' = Loaded(program)
<1>1. Total' = Total /\ (\A f : End(f)' = End(f)) /\ \A f : Original(f)' = Original(f)
  BY DEF Total, End, Original
<1>2. Sound(ir') => Sound(ir)'
  BY <1>1 DEF Sound, Occurs, IRType, End
<1>3. InOrder(ir') => InOrder(ir)'
  BY <1>1 DEF InOrder, Original
<1> QED
  BY <1>1, <1>2, <1>3

LEMMA NoFault == Explained("none")
  BY DEF Explained

-----------------------------------------------------------------------------
(* The groups of the loops *)

LEMMA HalvesAre == Halves(2) = {0} /\ Halves(4) = {0, 2}
<1>1. \A k \in 0..3 : k % 2 = 0 <=> k \in {0, 2}
  OBVIOUS
<1>2. 2 - 1 = 1 /\ 4 - 1 = 3 /\ 0..1 \subseteq 0..3 /\ 2 \notin 0..1
  OBVIOUS
<1>3. \A k \in 0..1 : k % 2 = 0 <=> k = 0
  OBVIOUS
<1>4. Halves(2) = {k \in 0..1 : k % 2 = 0} /\ Halves(4) = {k \in 0..3 : k % 2 = 0}
  BY <1>2 DEF Halves
<1>5. Halves(2) = {0}
  BY <1>3, <1>4
<1>6. Halves(4) = {0, 2}
  BY <1>1, <1>4
<1> QED
  BY <1>5, <1>6

LEMMA TwoGroup ==
  ASSUME MInv, pc = "loop", i + 1 < Len(cmd.pos)
  PROVE  i \in Groups(2) /\ (HasGenericPair(i) => i \in PairGroups(2))
<1>1. i \in Nat /\ i % 2 = 0 /\ Len(cmd.pos) \in Nat
  BY CommandTypes DEF MInv, PairsInv, ArgsInv
<1>2. i \in 0..(Len(cmd.pos) - 2)
  BY <1>1
<1>3. i \in Groups(2)
  BY <1>1, <1>2 DEF Groups
<1>4. i + 0 = i
  BY <1>1
<1> QED
  BY <1>3, <1>4, HalvesAre DEF PairGroups

LEMMA FourGroup ==
  ASSUME MInv, pc = "loop", Mode("swap"), i + 3 < Len(cmd.pos), HasGenericPair(i), HasGenericPair(i + 2)
  PROVE  i \in PairGroups(4)
<1>1. i \in Nat /\ i % 4 = 0 /\ Len(cmd.pos) \in Nat
  BY CommandTypes DEF MInv, PairsInv, ArgsInv
<1>2. i \in 0..(Len(cmd.pos) - 4)
  BY <1>1
<1>3. i \in Groups(4)
  BY <1>1, <1>2 DEF Groups
<1>4. i + 0 = i
  BY <1>1
<1> QED
  BY <1>3, <1>4, HalvesAre DEF PairGroups

\* What a group of its own uses has not been erased.
LEMMA NotFreed ==
  ASSUME MInv, pc = "loop", NEW width \in {2, 4}, Mode(IF width = 2 THEN "shift" ELSE "swap"),
         i \in PairGroups(width), ~ShareInsts(width),
         NEW k \in Halves(width), NEW inst \in InstsOf(GenericPair(i + k)), inst \in 1..Total
  PROVE  inst \notin ir.freed
<1> SUFFICES ASSUME inst \in ir.freed PROVE FALSE
  OBVIOUS
<1>1. UsedBefore(width, inst)
  <2>1. ArgsAccepted
    BY DEF MInv, ArgsInv
  <2>2. \/ Mode("swap") /\ UsedBefore(4, inst)
        \/ Mode("shift") /\ UsedBefore(2, inst)
    BY DEF MInv, FreedInv
  <2> QED
    BY <2>1, <2>2, OneMode
<1>2. PICK g \in PairGroups(width) : g < i /\ \E j \in Halves(width) : inst \in InstsOf(GenericPair(g + j))
  BY <1>1 DEF UsedBefore
<1>3. PICK j \in Halves(width) : inst \in InstsOf(GenericPair(g + j))
  BY <1>2
<1>4. g # i
  <2>1. g \in Int /\ i \in Nat
    <3>1. g \in 0..(Len(cmd.pos) - width)
      BY DEF PairGroups, Groups
    <3> QED
      BY <3>1 DEF MInv, ArgsInv
  <2> QED
    BY <1>2, <2>1
<1>5. InstsOf(GenericPair(g + j)) \cap InstsOf(GenericPair(i + k)) # {}
  BY <1>3
<1>6. ShareInsts(width)
  BY <1>4, <1>5 DEF ShareInsts, PairGroups, Halves
<1> QED
  BY <1>6

-----------------------------------------------------------------------------
(* The steps of the loops *)

\* The index stays aligned, and a fault ends the loop.
LEMMA TurnStep ==
  ASSUME MInv, pc = "loop", UNCHANGED <<cmd, program, lockPairs>>, modified' \in BOOLEAN,
         NEW width \in {2, 4}, Mode("swap") => width = 4,
         i' = i + width, pc' = IF Faulted(ir') THEN "fault" ELSE pc,
         Sound(ir'), Explained(ir'.fault)
  PROVE  ArgsInv' /\ ModuleInv'
<1>1. /\ i \in Nat /\ i % 2 = 0 /\ (Mode("swap") => i % 4 = 0) /\ ArgsAccepted
      /\ pc' \in {"loop", "fault"}
  BY DEF MInv, ArgsInv
<1>2. i' \in Nat /\ i' % 2 = 0 /\ (Mode("swap") => i' % 4 = 0)
  <2>1. (i + 2) % 2 = 0 /\ ((i + 2) + 2) % 2 = 0
    BY <1>1, AlignedTwo
  <2>2. (i + 4) % 2 = 0
    <3>1. (i + 2) + 2 = i + 4
      BY <1>1
    <3> QED
      BY <2>1, <3>1
  <2>3. Mode("swap") => (i + 4) % 4 = 0
    BY <1>1, AlignedFour
  <2>4. CASE width = 2
    <3>1. ~Mode("swap") /\ i' = i + 2 /\ i + 2 \in Nat
      BY <1>1, <2>4
    <3> QED
      BY <2>1, <3>1
  <2>5. CASE width = 4
    <3>1. i' = i + 4 /\ i + 4 \in Nat
      BY <1>1, <2>5
    <3> QED
      BY <2>2, <2>3, <3>1
  <2> QED
    BY <2>4, <2>5
<1>3. ArgsAccepted' /\ Mode("swap")' = Mode("swap")
  BY <1>1, SameCommand
<1>4. ArgsInv'
  BY <1>1, <1>2, <1>3 DEF ArgsInv
<1>5. Sound(ir)'
  BY SameModule
<1>6. Explained(ir.fault)'
  <2> DEFINE fault == ir'.fault
  <2>1. Explained(fault)
    OBVIOUS
  <2>2. ir.fault' = fault
    OBVIOUS
  <2> HIDE DEF fault
  <2> QED
    BY <2>1, <2>2, SameExplanation DEF Explained
<1> QED
  BY <1>4, <1>5, <1>6 DEF ModuleInv, Faulted

LEMMA UsedStep ==
  ASSUME UNCHANGED <<cmd, lockPairs>>, i \in Nat, NEW by \in Nat \ {0}, i' = i + by,
         NEW width, NEW inst,
         \/ UsedBefore(width, inst)
         \/ i \in PairGroups(width) /\ \E k \in Halves(width) : inst \in InstsOf(GenericPair(i + k))
  PROVE  UsedBefore(width, inst)'
<1>1. /\ PairGroups(width)' = PairGroups(width) /\ \A n : GenericPair(n)' = GenericPair(n)
  BY SamePairs
<1>2. PICK g \in PairGroups(width) : g < i' /\ \E k \in Halves(width) : inst \in InstsOf(GenericPair(g + k))
  <2>1. CASE UsedBefore(width, inst)
    <3>1. PICK g \in PairGroups(width) : g < i /\ \E k \in Halves(width) : inst \in InstsOf(GenericPair(g + k))
      BY <2>1 DEF UsedBefore
    <3>2. g < i'
      <4>1. g \in Int
        BY DEF PairGroups, Groups
      <4> QED
        BY <3>1, <4>1
    <3> QED
      BY <3>1, <3>2
  <2>2. CASE i \in PairGroups(width) /\ \E k \in Halves(width) : inst \in InstsOf(GenericPair(i + k))
    <3>1. i < i'
      OBVIOUS
    <3> QED
      BY <2>2, <3>1
  <2> QED
    BY <2>1, <2>2
<1>3. PICK k \in Halves(width) : inst \in InstsOf(GenericPair(g + k))
  BY <1>2
<1>4. (GenericPair(g + k))' = GenericPair(g + k)
  BY DEF GenericPair, Kind, GenericNumber, At
<1> QED
  BY <1>1, <1>2, <1>3, <1>4 DEF UsedBefore, Halves, InstsOf

\* A group adds at most its own instructions to those that were erased.
LEMMA FreedStep ==
  ASSUME MInv, pc = "loop", UNCHANGED <<cmd, program, lockPairs>>, NEW width \in {2, 4}, i' = i + width,
         \A inst \in ir'.freed \cap (1..Total) :
           \/ inst \in ir.freed
           \/ /\ Mode(IF width = 2 THEN "shift" ELSE "swap")
              /\ i \in PairGroups(width) /\ \E k \in Halves(width) : inst \in InstsOf(GenericPair(i + k))
  PROVE  FreedInv'
<1>1. i \in Nat /\ width \in Nat \ {0}
  BY DEF MInv, ArgsInv
<1>2. ASSUME NEW inst \in ir'.freed \cap (1..Total)
      PROVE  \/ Mode("swap") /\ UsedBefore(4, inst)'
             \/ Mode("shift") /\ UsedBefore(2, inst)'
  <2>1. CASE inst \in ir.freed
    <3>1. \/ Mode("swap") /\ UsedBefore(4, inst)
          \/ Mode("shift") /\ UsedBefore(2, inst)
      BY <2>1 DEF MInv, FreedInv
    <3>2. UsedBefore(4, inst) => UsedBefore(4, inst)'
      BY <1>1, UsedStep
    <3>3. UsedBefore(2, inst) => UsedBefore(2, inst)'
      BY <1>1, UsedStep
    <3> QED
      BY <3>1, <3>2, <3>3
  <2>2. CASE inst \notin ir.freed
    <3>1. /\ Mode(IF width = 2 THEN "shift" ELSE "swap")
          /\ i \in PairGroups(width) /\ \E k \in Halves(width) : inst \in InstsOf(GenericPair(i + k))
      BY <1>2, <2>2
    <3>2. UsedBefore(width, inst)'
      BY <1>1, <3>1, UsedStep
    <3>3. CASE width = 2
      BY <3>1, <3>2, <3>3
    <3>4. CASE width = 4
      BY <3>1, <3>2, <3>4
    <3> QED
      BY <3>3, <3>4
  <2> QED
    BY <2>1, <2>2
<1>3. Total' = Total /\ Mode("swap")' = Mode("swap") /\ Mode("shift")' = Mode("shift")
  BY SameModule, SameCommand
<1> QED
  BY <1>2, <1>3 DEF FreedInv

\* A position that changes nothing but what is to be erased.
LEMMA SkipStep ==
  ASSUME MInv, pc = "loop", UNCHANGED <<cmd, program, lockPairs, ir, modified>>,
         mutateInsts' \subseteq PairedInsts, NEW width \in {2, 4}, Mode("swap") => width = 4,
         i' = i + width, pc' = IF Faulted(ir') THEN "fault" ELSE pc
  PROVE  ArgsInv' /\ ModuleInv' /\ RemoveInv' /\ FreedInv' /\ SplitInv' /\ ChangeInv'
<1>1. ir.fault = "none" /\ Sound(ir) /\ modified \in BOOLEAN /\ pc' = "loop"
  BY DEF MInv, ArgsInv, ModuleInv, Faulted
<1>2. ArgsInv' /\ ModuleInv'
  BY <1>1, NoFault, TurnStep
<1>3. RemoveInv'
  BY <1>1, SamePairs DEF RemoveInv
<1>4. FreedInv'
  BY FreedStep
<1>5. SplitInv'
  <2>1. InOrder(ir) => InOrder(ir)'
    BY SameModule
  <2> QED
    BY <1>1, <2>1, SameCommand DEF MInv, SplitInv
<1>6. ChangeInv'
  BY <1>1, SameCommand, SameModule DEF MInv, ChangeInv
<1> QED
  BY <1>2, <1>3, <1>4, <1>5, <1>6

LEMMA FaultStep ==
  ASSUME MInv, UNCHANGED <<cmd, lockPairs, mutateInsts>>, pc' = "fault"
  PROVE  RemoveInv' /\ FreedInv' /\ SplitInv' /\ ChangeInv'
<1>1. RemoveInv'
  BY SamePairs DEF MInv, RemoveInv
<1> QED
  BY <1>1 DEF FreedInv, SplitInv, ChangeInv

LEMMA SkipInv ==
  ASSUME MInv, SkipCollect \/ SkipSwap \/ SkipSplit \/ SkipShift
  PROVE  ArgsInv' /\ ModuleInv' /\ RemoveInv' /\ FreedInv' /\ SplitInv' /\ ChangeInv'
<1>1. /\ pc = "loop" /\ i < Len(cmd.pos) /\ UNCHANGED <<cmd, program, lockPairs, func>>
      /\ UNCHANGED <<mutateInsts, modified>>
      /\ Mode("rm") \/ Mode("swap") \/ Mode("split") \/ Mode("shift")
  BY DEF SkipCollect, SkipSwap, SkipSplit, SkipShift, Turn, Skip
<1>2. mutateInsts' \subseteq PairedInsts /\ ir.fault = "none" /\ Sound(ir) /\ ArgsAccepted /\ modified \in BOOLEAN
  BY <1>1 DEF MInv, RemoveInv, ModuleInv, ArgsInv
<1>3. CASE SkipSwap
  <2>1. Mode("swap") /\ Commit(ir, 4)
    BY <1>1, <1>3, NoOverrun DEF SkipSwap, Turn, Skip
  <2> QED
    BY <1>1, <1>2, <2>1, SkipStep DEF Commit
<1>4. CASE SkipCollect
  <2>1. Mode("rm") /\ Commit(ir, 2)
    BY <1>1, <1>4, NoOverrun DEF SkipCollect, Turn, Skip
  <2> QED
    BY <1>1, <1>2, <2>1, SkipStep, OneMode DEF Commit
<1>5. CASE SkipSplit
  <2>1. Mode("split") /\ Commit(ir, 2)
    BY <1>1, <1>5, NoOverrun DEF SkipSplit, Turn, Skip
  <2> QED
    BY <1>1, <1>2, <2>1, SkipStep, OneMode DEF Commit
<1>6. CASE SkipShift /\ Kind(i) \notin Kinds
  <2>1. Mode("shift") /\ Commit(ir, 2)
    BY <1>1, <1>6, NoOverrun DEF SkipShift, Turn, Skip
  <2> QED
    BY <1>1, <1>2, <2>1, SkipStep, OneMode DEF Commit
<1>7. CASE SkipShift /\ Kind(i) \in Kinds
  <2> DEFINE s == [ir EXCEPT !.fault = "null"]
  <2>1. Mode("shift") /\ Commit(s, 2) /\ ~HasGenericPair(i) /\ i + 1 < Len(cmd.pos)
    BY <1>1, <1>7, NoOverrun DEF SkipShift, Turn
  <2>2. Sound(s) /\ s.fault = "null"
    BY <1>2, FaultSound
  <2> HIDE DEF s
  <2>3. i \in Groups(2)
    BY <1>1, <2>1, TwoGroup
  <2>4. Explained("null")
    BY <1>7, <2>1, <2>3 DEF Explained
  <2>5. ir' = s /\ i' = i + 2 /\ pc' = "fault" /\ pc' = IF Faulted(ir') THEN "fault" ELSE pc
    BY <2>1, <2>2 DEF Commit, Faulted
  <2>6. Mode("swap") => 2 = 4
    BY <1>2, <2>1, OneMode
  <2>7. ArgsInv' /\ ModuleInv'
    BY <1>1, <1>2, <2>2, <2>4, <2>5, <2>6, TurnStep
  <2> QED
    BY <1>1, <2>5, <2>7, FaultStep
<1> QED
  BY <1>3, <1>4, <1>5, <1>6, <1>7

LEMMA CollectInv ==
  ASSUME MInv, CollectPair
  PROVE  ArgsInv' /\ ModuleInv' /\ RemoveInv' /\ FreedInv' /\ SplitInv' /\ ChangeInv'
<1>1. /\ pc = "loop" /\ Mode("rm") /\ i < Len(cmd.pos) /\ HasPair(i)
      /\ UNCHANGED <<cmd, program, lockPairs, modified>> /\ Commit(ir, 2)
      /\ mutateInsts' = mutateInsts \union InstsOf(PairAt(i))
  BY DEF CollectPair, Turn
<1>2. i \in Nat /\ i + 1 < Len(cmd.pos) /\ ArgsAccepted /\ mutateInsts \subseteq PairedInsts
  BY <1>1, NoOverrun DEF MInv, ArgsInv, RemoveInv
<1>3. PICK kind \in Kinds : PairAt(i) \in ToSet(lockPairs[kind])
  BY <1>1, <1>2, NamedPair DEF MInv, Enumerated
<1>4. InstsOf(PairAt(i)) \subseteq PairedInsts
  BY <1>3 DEF PairedInsts
<1> QED
  BY <1>1, <1>2, <1>4, SkipStep, OneMode DEF Commit

LEMMA StartErasingInv ==
  ASSUME MInv, StartErasing
  PROVE  ArgsInv' /\ ModuleInv' /\ RemoveInv' /\ FreedInv' /\ SplitInv' /\ ChangeInv'
<1>1. /\ pc = "loop" /\ Mode("rm") /\ pc' = "erase" /\ modified' = (mutateInsts # {})
      /\ UNCHANGED <<cmd, program, ir, lockPairs, func, mutateInsts, i>>
  BY DEF StartErasing
<1>2. ir = Loaded(program) /\ ir.fault = "none" /\ ir.freed = {} /\ Sound(ir)
  BY <1>1 DEF MInv, ChangeInv, ModuleInv, Loaded
<1>3. ArgsAccepted' /\ Mode("rm")' = Mode("rm")
  BY <1>1, SameCommand DEF MInv, ArgsInv
<1>4. ArgsInv'
  BY <1>1, <1>3 DEF MInv, ArgsInv
<1>5. ModuleInv'
  BY <1>1, <1>2, SameModule DEF ModuleInv
<1>6. RemoveInv'
  BY <1>1, <1>2, <1>3, SamePairs DEF MInv, RemoveInv
<1>7. FreedInv' /\ SplitInv'
  BY <1>1 DEF FreedInv, SplitInv
<1>8. ChangeInv'
  BY <1>1, <1>2, SameModule DEF ChangeInv
<1> QED
  BY <1>4, <1>5, <1>6, <1>7, <1>8

\* The set holds no instruction twice: what comes up has not been erased.
LEMMA EraseNextInv ==
  ASSUME MInv, EraseNext
  PROVE  ArgsInv' /\ ModuleInv' /\ RemoveInv' /\ FreedInv' /\ SplitInv' /\ ChangeInv'
<1>1. PICK inst \in mutateInsts : ir' = Erased(ir, inst) /\ mutateInsts' = mutateInsts \ {inst}
  BY DEF EraseNext
<1>2. /\ pc = "erase" /\ UNCHANGED <<cmd, program, lockPairs, func, i, modified>>
      /\ pc' = IF Faulted(ir') THEN "fault" ELSE pc
  BY DEF EraseNext
<1>3. /\ Mode("rm") /\ mutateInsts \cap ir.freed = {} /\ mutateInsts \subseteq PairedInsts
      /\ ir.fault = "none" /\ Sound(ir) /\ PairsInv /\ program \in Programs /\ Enumerated /\ modified
  BY <1>1, <1>2 DEF MInv, RemoveInv, ModuleInv, PairsInv, Enumerated, ChangeInv
<1> DEFINE s == Erased(ir, inst)
<1>4. Mutable(ir, inst)
  BY <1>1, <1>3, PairedMutable
<1>5. Erases(ir, s, {inst}) /\ s.fault = "none"
  BY <1>1, <1>3, <1>4, ErasedFacts
<1>6. s.freed \subseteq ir.freed \union {inst} \union {x \in s.freed : x \notin 1..Total}
  BY <1>5 DEF Erases
<1> HIDE DEF s
<1>7. ir' = s /\ pc' = "erase"
  BY <1>1, <1>2, <1>5 DEF Faulted, s
<1>8. ArgsInv'
  BY <1>2, <1>7, SameCommand DEF MInv, ArgsInv
<1>9. ModuleInv'
  BY <1>2, <1>5, <1>7, SameModule DEF ModuleInv, Erases
<1>10. RemoveInv'
  <2>1. mutateInsts' \subseteq PairedInsts'
    BY <1>1, <1>2, <1>3, SamePairs
  <2>2. mutateInsts \subseteq 1..Total
    <3> SUFFICES ASSUME NEW x \in mutateInsts PROVE x \in 1..Total
      OBVIOUS
    <3>1. PICK kind \in Kinds : \E pair \in ToSet(lockPairs[kind]) : x \in InstsOf(pair)
      BY <1>3 DEF PairedInsts
    <3>2. PICK pair \in ToSet(lockPairs[kind]) : x \in InstsOf(pair)
      BY <3>1
    <3>3. PairFact(pair)
      BY <1>3, FoundPair
    <3> QED
      BY <3>2, <3>3 DEF PairFact, InstsOf
  <2>3. mutateInsts' \cap ir'.freed = {}
    BY <1>1, <1>3, <1>6, <1>7, <2>2
  <2> QED
    BY <1>2, <1>3, <2>1, <2>3, SameCommand DEF RemoveInv
<1>11. FreedInv' /\ SplitInv' /\ ChangeInv'
  BY <1>2, <1>3, <1>7 DEF FreedInv, SplitInv, ChangeInv
<1> QED
  BY <1>8, <1>9, <1>10, <1>11

\* The two swaps of a group erase its instructions, and only of those.
SwapsGroup(r, s) ==
  /\ Sound(s)
  /\ s.fault \in {"none", "dangling"}
  /\ \A inst \in s.freed \cap (1..Total) :
       inst \in r.freed \/ \E k \in Halves(4) : inst \in InstsOf(GenericPair(i + k))
  /\ s.fault = "dangling" =>
       \E k \in Halves(4) : InstsOf(GenericPair(i + k)) \cap r.freed # {}
  /\ RolesSwapped(GenericPair(i), GenericPair(i + 2)) = {} /\ s.fault = "none" => s = r

LEMMA SwapsGroupFacts ==
  ASSUME MInv, pc = "loop", i + 3 < Len(cmd.pos), CanSwap
  PROVE  SwapsGroup(ir, SwapCallOrInvoke(
                          SwapCallOrInvoke(ir, GenericPair(i).lock, GenericPair(i + 2).lock),
                          GenericPair(i).unlock, GenericPair(i + 2).unlock))
<1> DEFINE p == GenericPair(i)
           q == GenericPair(i + 2)
           half == SwapCallOrInvoke(ir, p.lock, q.lock)
           full == SwapCallOrInvoke(half, p.unlock, q.unlock)
<1>1. /\ PairsInv /\ program \in Programs /\ Enumerated /\ i \in Nat /\ Len(cmd.pos) \in Nat
      /\ Sound(ir) /\ ir.fault = "none"
  BY CommandTypes DEF MInv, PairsInv, Enumerated, ArgsInv, ModuleInv
<1>2. i + 1 < Len(cmd.pos) /\ (i + 2) + 1 < Len(cmd.pos) /\ i + 2 \in Nat /\ i + 0 = i
  BY <1>1
<1>3. HasGenericPair(i) /\ HasGenericPair(i + 2) /\ p.lock # q.lock /\ p.unlock # q.unlock
  BY DEF CanSwap
<1>4. PairFact(p) /\ PairFact(q)
  BY <1>1, <1>2, <1>3, NamedFact
<1>5. InstsOf(GenericPair(i + 0)) = InstsOf(p) /\ InstsOf(GenericPair(i + 2)) = InstsOf(q)
  BY <1>2
<1>6. /\ \A inst \in InstsOf(p) \union InstsOf(q) : \E k \in Halves(4) : inst \in InstsOf(GenericPair(i + k))
      /\ \A T : (InstsOf(p) \union InstsOf(q)) \cap T # {} =>
           \E k \in Halves(4) : InstsOf(GenericPair(i + k)) \cap T # {}
  BY <1>5, HalvesAre
<1> DEFINE roles == RolesSwapped(p, q)
<1>7. roles = {} => ~Swappable(ir.op[p.lock], ir.op[q.lock]) /\ ~Swappable(ir.op[p.unlock], ir.op[q.unlock])
  BY DEF RolesSwapped
<1> HIDE DEF p, q, roles
<1>8. Mutable(ir, p.lock) /\ Mutable(ir, q.lock)
  BY <1>1, <1>4, PairMutable
<1>9. /\ Erases(ir, half, {p.lock, q.lock})
      /\ half.fault \in {"none", "dangling"}
      /\ {p.lock, q.lock} \cap ir.freed = {} => half.fault = "none"
      /\ ~Swappable(ir.op[p.lock], ir.op[q.lock]) /\ half.fault = "none" => half = ir
      /\ half.fault = "none" => \A n \in 1..Len(ir.op) : half.op[n] = ir.op[n]
  BY <1>1, <1>3, <1>8, SwapFacts
<1> HIDE DEF half
<1>10. Sound(half) /\ Mutable(half, p.unlock) /\ Mutable(half, q.unlock)
  BY <1>1, <1>4, <1>9, PairMutable DEF Erases
<1>11. /\ Erases(half, full, {p.unlock, q.unlock})
       /\ half.fault = "none" => full.fault \in {"none", "dangling"}
       /\ half.fault = "none" /\ {p.unlock, q.unlock} \cap half.freed = {} => full.fault = "none"
       /\ ~Swappable(half.op[p.unlock], half.op[q.unlock]) /\ full.fault = "none" => full = half
  BY <1>1, <1>3, <1>10, SwapFacts
<1> HIDE DEF full
<1>12. /\ p.lock \in 1..Total /\ p.unlock \in 1..Total /\ q.lock \in 1..Total /\ q.unlock \in 1..Total
       /\ p.unlock \notin {p.lock, q.lock} /\ q.unlock \notin {p.lock, q.lock}
  BY <1>4 DEF PairFact
<1>13. p.unlock \in 1..Len(ir.op) /\ q.unlock \in 1..Len(ir.op)
  BY <1>1, <1>4, PairMutable DEF Mutable
<1>14. /\ Sound(full) /\ full.fault \in {"none", "dangling"}
       /\ full.fault = "none" => half.fault = "none"
       /\ full.freed \cap (1..Total) \subseteq ir.freed \union InstsOf(p) \union InstsOf(q)
  <2>1. half.fault # "none" => full = half
    BY <1>11 DEF Erases
  <2>2. half.freed \cap (1..Total) \subseteq ir.freed \union {p.lock, q.lock}
    BY <1>9 DEF Erases
  <2>3. full.freed \cap (1..Total) \subseteq half.freed \union {p.unlock, q.unlock}
    BY <1>11 DEF Erases
  <2> QED
    BY <1>9, <1>11, <2>1, <2>2, <2>3 DEF Erases, InstsOf
<1>15. ASSUME full.fault = "dangling" PROVE (InstsOf(p) \union InstsOf(q)) \cap ir.freed # {}
  <2> SUFFICES ASSUME (InstsOf(p) \union InstsOf(q)) \cap ir.freed = {} PROVE FALSE
    OBVIOUS
  <2>1. {p.lock, q.lock} \cap ir.freed = {} /\ p.unlock \notin ir.freed /\ q.unlock \notin ir.freed
    BY DEF InstsOf
  <2>2. half.fault = "none" /\ half.freed \cap (1..Total) \subseteq ir.freed \union {p.lock, q.lock}
    BY <1>9, <2>1 DEF Erases
  <2>3. {p.unlock, q.unlock} \cap half.freed = {}
    BY <1>12, <2>1, <2>2
  <2> QED
    BY <1>11, <1>15, <2>2, <2>3
<1>16. ASSUME roles = {}, full.fault = "none" PROVE full = ir
  <2>1. half = ir
    BY <1>7, <1>9, <1>14, <1>16
  <2> QED
    BY <1>7, <1>11, <1>16, <2>1
<1>17. SwapsGroup(ir, full)
  BY <1>6, <1>14, <1>15, <1>16 DEF SwapsGroup, roles, p, q
<1> QED
  BY <1>17 DEF full, half, p, q

LEMMA SwapPairsInv ==
  ASSUME MInv, SwapPairs
  PROVE  ArgsInv' /\ ModuleInv' /\ RemoveInv' /\ FreedInv' /\ SplitInv' /\ ChangeInv'
<1> DEFINE s == SwapCallOrInvoke(SwapCallOrInvoke(ir, GenericPair(i).lock, GenericPair(i + 2).lock),
                                 GenericPair(i).unlock, GenericPair(i + 2).unlock)
           roles == RolesSwapped(GenericPair(i), GenericPair(i + 2))
<1>1. /\ pc = "loop" /\ Mode("swap") /\ i < Len(cmd.pos) /\ CanSwap
      /\ UNCHANGED <<cmd, program, lockPairs, func, mutateInsts>>
      /\ Commit(s, 4) /\ modified' = (modified \/ roles # {})
  BY DEF SwapPairs, Turn
<1>2. i + 3 < Len(cmd.pos)
  BY <1>1, NoOverrun
<1>3. SwapsGroup(ir, s)
  BY <1>1, <1>2, SwapsGroupFacts
<1>4. /\ Sound(s) /\ s.fault \in {"none", "dangling"}
      /\ \A inst \in s.freed \cap (1..Total) :
           inst \in ir.freed \/ \E k \in Halves(4) : inst \in InstsOf(GenericPair(i + k))
      /\ s.fault = "dangling" => \E k \in Halves(4) : InstsOf(GenericPair(i + k)) \cap ir.freed # {}
      /\ roles = {} /\ s.fault = "none" => s = ir
  BY <1>3 DEF SwapsGroup
<1> HIDE DEF s, roles
<1>5. /\ modified \in BOOLEAN /\ ArgsAccepted /\ i \in Nat /\ PairsInv /\ Enumerated
  BY <1>1 DEF MInv, ArgsInv, Enumerated
<1>6. HasGenericPair(i) /\ HasGenericPair(i + 2)
  BY <1>1 DEF CanSwap
<1>7. i \in PairGroups(4)
  BY <1>1, <1>2, <1>6, FourGroup
<1>8. s.fault = "dangling" => ShareInsts(4)
  <2> SUFFICES ASSUME s.fault = "dangling", ~ShareInsts(4) PROVE FALSE
    OBVIOUS
  <2>1. PICK k \in Halves(4) : \E inst \in InstsOf(GenericPair(i + k)) : inst \in ir.freed
    BY <1>4
  <2>2. PICK inst \in InstsOf(GenericPair(i + k)) : inst \in ir.freed
    BY <2>1
  <2>3. PairFact(GenericPair(i + k))
    <3>1. Len(cmd.pos) \in Nat
      BY CommandTypes DEF MInv, PairsInv
    <3>2. k \in {0, 2}
      BY HalvesAre
    <3>3. i + k \in Nat /\ (i + k) + 1 < Len(cmd.pos)
      BY <1>2, <1>5, <3>1, <3>2
    <3>4. HasGenericPair(i + k)
      BY <1>7 DEF PairGroups
    <3> QED
      BY <1>5, <3>3, <3>4, NamedFact
  <2>4. inst \in 1..Total
    BY <2>3 DEF PairFact, InstsOf
  <2>5. Mode(IF 4 = 2 THEN "shift" ELSE "swap")
    BY <1>1
  <2> QED
    BY <1>1, <1>7, <2>2, <2>4, <2>5, NotFreed
<1>9. Explained(s.fault)
  BY <1>1, <1>4, <1>8 DEF Explained
<1>10. /\ ir' = s /\ i' = i + 4 /\ pc' = IF Faulted(ir') THEN "fault" ELSE pc
  BY <1>1 DEF Commit
<1>11. modified' \in BOOLEAN
  BY <1>1
<1>12. ArgsInv' /\ ModuleInv'
  BY <1>1, <1>4, <1>9, <1>10, <1>11, TurnStep
<1>13. RemoveInv'
  <2>1. pc' # "erase"
    BY <1>1, <1>10
  <2> QED
    BY <1>1, <2>1, SamePairs DEF MInv, RemoveInv
<1>14. FreedInv'
  <2>1. Mode(IF 4 = 2 THEN "shift" ELSE "swap")
    BY <1>1
  <2> QED
    BY <1>1, <1>4, <1>7, <1>10, <2>1, FreedStep
<1>15. SplitInv'
  BY <1>1, <1>5, OneMode, SameCommand DEF SplitInv
<1>16. ChangeInv'
  <2>1. ~Mode("rm")' /\ pc' # "erase"
    BY <1>1, <1>5, <1>10, OneMode, SameCommand
  <2>2. ASSUME ~modified', pc' \notin {"exit", "fault"} PROVE ir' = Loaded(program)'
    <3>1. s.fault = "none"
      BY <1>10, <2>2 DEF Faulted
    <3>2. ~modified /\ roles = {}
      BY <1>1, <2>2
    <3>3. ir = Loaded(program)
      BY <1>1, <3>2 DEF MInv, ChangeInv
    <3> QED
      BY <1>1, <1>4, <1>10, <3>1, <3>2, <3>3, SameModule
  <2> QED
    BY <2>1, <2>2 DEF ChangeInv
<1> QED
  BY <1>12, <1>13, <1>14, <1>15, <1>16

-----------------------------------------------------------------------------
(* Shifting *)

ShiftsPair(r, s, dir1, dir2) ==
  /\ Sound(s)
  /\ s.fault \in {"none", "dangling", "end"}
  /\ s.fault = "end" => dir1 > 1 \/ dir2 > 1
  /\ s.fault = "dangling" => InstsOf(GenericPair(i)) \cap r.freed # {} \/ dir1 < 0 \/ dir2 < 0
  /\ s.freed \cap (1..Total) \subseteq r.freed \union InstsOf(GenericPair(i))
  /\ dir1 = 1 /\ dir2 = 1 => s = r

LEMMA ShiftsPairFacts ==
  ASSUME MInv, pc = "loop", i + 1 < Len(cmd.pos), HasGenericPair(i), NEW dir1 \in Int, NEW dir2 \in Int
  PROVE  ShiftsPair(ir, Shifted(Shifted(ir, GenericPair(i).lock, dir1), GenericPair(i).unlock, dir2),
                    dir1, dir2)
<1> DEFINE p == GenericPair(i)
           half == Shifted(ir, p.lock, dir1)
           full == Shifted(half, p.unlock, dir2)
<1>1. /\ PairsInv /\ program \in Programs /\ Enumerated /\ i \in Nat /\ Sound(ir) /\ ir.fault = "none"
  BY DEF MInv, PairsInv, Enumerated, ArgsInv, ModuleInv
<1>2. PairFact(p)
  BY <1>1, NamedFact
<1> HIDE DEF p
<1>3. Mutable(ir, p.lock)
  BY <1>1, <1>2, PairMutable
<1>4. Shifts(ir, p.lock, dir1, half) /\ (dir1 = 1 => half = ir)
  BY <1>1, <1>3, ShiftedFacts
<1> HIDE DEF half
<1>5. /\ Sound(half) /\ half.fault \in {"none", "dangling", "end"}
      /\ half.fault = "end" => dir1 > 1
      /\ half.fault = "dangling" => p.lock \in ir.freed \/ dir1 < 0
      /\ half.freed \cap (1..Total) \subseteq ir.freed \union {p.lock}
  BY <1>1, <1>4 DEF Shifts, Erases
<1>6. Mutable(half, p.unlock)
  BY <1>1, <1>2, <1>5, PairMutable
<1>7. Shifts(half, p.unlock, dir2, full) /\ (dir2 = 1 => full = half)
  BY <1>1, <1>5, <1>6, ShiftedFacts
<1> HIDE DEF full
<1>8. /\ Sound(full)
      /\ full.freed \cap (1..Total) \subseteq half.freed \union {p.unlock}
      /\ half.fault # "none" => full = half
      /\ half.fault = "none" =>
           /\ full.fault \in {"none", "dangling", "end"}
           /\ full.fault = "end" => dir2 > 1
           /\ full.fault = "dangling" => p.unlock \in half.freed \/ dir2 < 0
  BY <1>7 DEF Shifts, Erases
<1>9. p.unlock # p.lock /\ p.unlock \in 1..Total
  BY <1>2 DEF PairFact
<1>10. p.unlock \in half.freed => p.unlock \in ir.freed
  BY <1>5, <1>9
<1>11. full.freed \cap (1..Total) \subseteq ir.freed \union {p.lock, p.unlock}
  BY <1>5, <1>8
<1>12. ShiftsPair(ir, full, dir1, dir2)
  BY <1>4, <1>5, <1>7, <1>8, <1>10, <1>11 DEF ShiftsPair, InstsOf, p
<1> QED
  BY <1>12 DEF full, half, p

LEMMA ShiftTypes ==
  ASSUME cmd \in Commands, i \in Nat
  PROVE  /\ LockShift \in Int /\ (LockShift # 1 => LockShift \in Directions)
         /\ UnlockShift \in Int /\ (UnlockShift # 1 => UnlockShift \in Directions)
<1>1. cmd.lockdir \in Seq(Int) /\ cmd.unlockdir \in Seq(Int)
  BY CommandAssumption
<1>2. ASSUME NEW list \in Seq(Int), i \div 2 < Len(list)
      PROVE  list[(i \div 2) + 1] \in Int /\ list[(i \div 2) + 1] \in ToSet(list)
  <2>1. Len(list) \in Nat /\ i \div 2 \in Nat
    OBVIOUS
  <2>2. (i \div 2) + 1 \in 1..Len(list)
    BY <1>2, <2>1
  <2> QED
    BY <2>2 DEF ToSet
<1>3. /\ LockShift # 1 => InList(cmd.lockdir, i \div 2) /\ LockShift = cmd.lockdir[(i \div 2) + 1]
      /\ UnlockShift # 1 => InList(cmd.unlockdir, i \div 2) /\ UnlockShift = cmd.unlockdir[(i \div 2) + 1]
  BY DEF LockShift, UnlockShift, At
<1> QED
  BY <1>1, <1>2, <1>3 DEF InList, Directions

LEMMA ShiftPairInv ==
  ASSUME MInv, ShiftPair
  PROVE  ArgsInv' /\ ModuleInv' /\ RemoveInv' /\ FreedInv' /\ SplitInv' /\ ChangeInv'
<1> DEFINE s == Shifted(Shifted(ir, GenericPair(i).lock, LockShift), GenericPair(i).unlock, UnlockShift)
<1>1. /\ pc = "loop" /\ Mode("shift") /\ i < Len(cmd.pos) /\ HasGenericPair(i)
      /\ UNCHANGED <<cmd, program, lockPairs, func, mutateInsts>>
      /\ Commit(s, 2) /\ modified' = (modified \/ LockShift # 1 \/ UnlockShift # 1)
  BY DEF ShiftPair, Turn
<1>2. i + 1 < Len(cmd.pos)
  BY <1>1, NoOverrun
<1>3. /\ modified \in BOOLEAN /\ ArgsAccepted /\ i \in Nat /\ PairsInv /\ Enumerated /\ cmd \in Commands
  BY <1>1 DEF MInv, ArgsInv, Enumerated, PairsInv
<1>4. /\ LockShift \in Int /\ (LockShift # 1 => LockShift \in Directions)
      /\ UnlockShift \in Int /\ (UnlockShift # 1 => UnlockShift \in Directions)
  BY <1>3, ShiftTypes
<1> DEFINE dir1 == LockShift
           dir2 == UnlockShift
<1>5. ShiftsPair(ir, s, dir1, dir2)
  <2> HIDE DEF dir1, dir2
  <2>1. dir1 \in Int /\ dir2 \in Int
    BY <1>4 DEF dir1, dir2
  <2>2. ShiftsPair(ir, Shifted(Shifted(ir, GenericPair(i).lock, dir1), GenericPair(i).unlock, dir2), dir1, dir2)
    BY <1>1, <1>2, <2>1, ShiftsPairFacts
  <2> QED
    BY <2>2 DEF dir1, dir2
<1> HIDE DEF s
<1>6. /\ Sound(s) /\ s.fault \in {"none", "dangling", "end"}
      /\ s.fault = "end" => dir1 > 1 \/ dir2 > 1
      /\ s.fault = "dangling" => InstsOf(GenericPair(i)) \cap ir.freed # {} \/ dir1 < 0 \/ dir2 < 0
      /\ s.freed \cap (1..Total) \subseteq ir.freed \union InstsOf(GenericPair(i))
      /\ dir1 = 1 /\ dir2 = 1 => s = ir
  BY <1>5 DEF ShiftsPair
<1>7. i \in PairGroups(2) /\ PairFact(GenericPair(i)) /\ i + 0 = i /\ 0 \in Halves(2)
  BY <1>1, <1>2, <1>3, TwoGroup, NamedFact, HalvesAre
<1>8. ASSUME InstsOf(GenericPair(i)) \cap ir.freed # {} PROVE ShareInsts(2)
  <2> SUFFICES ASSUME ~ShareInsts(2) PROVE FALSE
    OBVIOUS
  <2>1. PICK inst \in InstsOf(GenericPair(i + 0)) : inst \in ir.freed
    BY <1>7, <1>8
  <2>2. inst \in 1..Total
    BY <1>7, <2>1 DEF PairFact, InstsOf
  <2>3. Mode(IF 2 = 2 THEN "shift" ELSE "swap")
    BY <1>1
  <2> QED
    BY <1>1, <1>7, <2>1, <2>2, <2>3, NotFreed
<1>9. Explained(s.fault)
  <2>1. s.fault = "end" => \E dir \in Directions : dir > 1
    BY <1>4, <1>6
  <2>2. s.fault = "dangling" => ShareInsts(2) \/ \E dir \in Directions : dir < 0
    BY <1>4, <1>6, <1>8
  <2> QED
    BY <1>1, <1>6, <2>1, <2>2 DEF Explained
<1>10. /\ ir' = s /\ i' = i + 2 /\ pc' = IF Faulted(ir') THEN "fault" ELSE pc
  BY <1>1 DEF Commit
<1>11. modified' \in BOOLEAN /\ ~Mode("swap") /\ ~Mode("rm") /\ ~Mode("split")
  BY <1>1, <1>3, OneMode
<1>12. ArgsInv' /\ ModuleInv'
  BY <1>1, <1>6, <1>9, <1>10, <1>11, TurnStep
<1>13. RemoveInv'
  <2>1. pc' # "erase"
    BY <1>1, <1>10
  <2> QED
    BY <1>1, <2>1, SamePairs DEF MInv, RemoveInv
<1>14. FreedInv'
  <2>1. Mode(IF 2 = 2 THEN "shift" ELSE "swap")
    BY <1>1
  <2>2. \A inst \in ir'.freed \cap (1..Total) :
           inst \in ir.freed \/ \E k \in Halves(2) : inst \in InstsOf(GenericPair(i + k))
    <3>1. InstsOf(GenericPair(i)) = InstsOf(GenericPair(i + 0))
      BY <1>7
    <3> QED
      BY <1>6, <1>7, <1>10, <3>1
  <2> QED
    BY <1>1, <1>7, <1>10, <2>1, <2>2, FreedStep
<1>15. SplitInv'
  BY <1>1, <1>11, SameCommand DEF SplitInv
<1>16. ChangeInv'
  <2>1. ~Mode("rm")' /\ pc' # "erase"
    BY <1>1, <1>10, <1>11, SameCommand
  <2>2. ASSUME ~modified', pc' \notin {"exit", "fault"} PROVE ir' = Loaded(program)'
    <3>1. ~modified /\ dir1 = 1 /\ dir2 = 1
      BY <1>1, <2>2
    <3>2. ir = Loaded(program)
      BY <1>1, <3>1 DEF MInv, ChangeInv
    <3> QED
      BY <1>1, <1>6, <1>10, <3>1, <3>2, SameModule
  <2> QED
    BY <2>1, <2>2 DEF ChangeInv
<1> QED
  BY <1>12, <1>13, <1>14, <1>15, <1>16

-----------------------------------------------------------------------------
(* Splitting *)

LEMMA LoadedInOrder ==
  ASSUME program \in Programs
  PROVE  InOrder(Loaded(program))
<1> SUFFICES ASSUME NEW f \in 1..Len(program)
             PROVE  \A n \in 1..Len(Original(f)) :
                      /\ Original(f)[n] \in ToSet(Original(f))
                      /\ \A m \in 1..(n - 1) : Original(f)[m] < Original(f)[n]
  BY DEF InOrder, Loaded, Original
<1>1. Original(f) \in Seq(Nat) /\ Increasing(Original(f))
  BY ProgramAssumption, NumberedFacts DEF Original
<1> DEFINE b == Original(f)
<1> HIDE DEF b
<1>2. b \in Seq(Nat) /\ Increasing(b)
  BY <1>1 DEF b
<1>3. \A n \in 1..Len(b) : b[n] \in ToSet(b) /\ \A m \in 1..(n - 1) : b[m] < b[n]
  <2> TAKE n \in 1..Len(b)
  <2>1. Len(b) \in Nat /\ DOMAIN b = 1..Len(b)
    BY <1>2
  <2>2. \A m \in 1..(n - 1) : m \in 1..Len(b) /\ m < n
    BY <2>1
  <2> QED
    BY <1>2, <2>1, <2>2 DEF ToSet, Increasing
<1> QED
  BY <1>3 DEF b

\* FuncOf and PosOf find the only place of an instruction that was there.
LEMMA PlaceIs ==
  ASSUME program \in Programs, NEW r, Sound(r), InOrder(r), NEW f \in 1..Len(program),
         NEW n \in 1..Len(r.body[f]), NEW inst, inst = r.body[f][n], inst \in 1..Total
  PROVE  FuncOf(r, inst) = f /\ PosOf(r, inst) = n
<1> DEFINE g == FuncOf(r, inst)
           m == PosOf(r, inst)
<1>1. r.body \in Seq(Seq(Nat)) /\ Len(r.body) = Len(program) /\ program \in Seq(Seq(Op)) /\ Total \in Nat
  BY Sizes DEF Sound, IRType
<1>2. Occurs(r, inst)
  BY <1>1 DEF Occurs
<1>3. g \in 1..Len(program) /\ m \in 1..Len(r.body[g]) /\ r.body[g][m] = inst
  BY <1>1, <1>2, Found
<1> HIDE DEF g, m
<1>4. inst \in ToSet(Original(f)) /\ inst \in ToSet(Original(g))
  BY <1>3 DEF InOrder
<1>5. ~(inst < inst)
  <2> DEFINE total == Total
  <2>1. inst \in 1..total /\ total \in Nat
    BY <1>1
  <2> HIDE DEF total
  <2> QED
    BY ONLY <2>1
<1>6. g = f
  <2>1. ~(f < g) /\ ~(g < f)
    BY <1>1, <1>3, <1>4, <1>5, FunctionsApart DEF Original
  <2>2. f \in Nat /\ g \in Nat
    BY ONLY <1>3, f \in 1..Len(program)
  <2> QED
    BY <2>1, <2>2
<1>7. m = n
  <2>1. Len(r.body[f]) \in Nat /\ m \in 1..Len(r.body[f])
    BY <1>1, <1>3, <1>6
  <2>2. ~(m \in 1..(n - 1)) /\ ~(n \in 1..(m - 1))
    <3>1. r.body[f][m] = inst
      BY <1>3, <1>6
    <3> QED
      BY <1>5, <2>1, <3>1 DEF InOrder
  <2> QED
    BY <2>1, <2>2
<1> QED
  BY <1>6, <1>7 DEF g, m

\* A new instruction leaves the order of the others alone.
Inserted(r, f, p, s) ==
  /\ InOrder(s)
  /\ Len(s.body[f]) = Len(r.body[f]) + 1
  /\ \A n \in 1..(p - 1) : s.body[f][n] = r.body[f][n]
  /\ \A n \in p..Len(r.body[f]) : s.body[f][n + 1] = r.body[f][n]

LEMMA InsertInOrder ==
  ASSUME program \in Programs, NEW r, Sound(r), InOrder(r), r.fault = "none",
         NEW f \in 1..Len(program), NEW p \in 1..Len(r.body[f]), NEW new \in Nat, new \notin 1..Total,
         NEW s, Inserts(r, f, p, new, s)
  PROVE  Inserted(r, f, p, s)
<1> DEFINE b == r.body[f]
           size == Len(b)
           c == s.body[f]
<1>1. r.body \in Seq(Seq(Nat)) /\ Len(r.body) = Len(program)
  BY DEF Sound, IRType
<1>2. b \in Seq(Nat) /\ size \in Nat
  BY <1>1
<1>3. p \in Nat /\ p <= size
  BY <1>2
<1>4. s.body = [r.body EXCEPT ![f] = InsertAt(@, p, new)]
  BY <1>3 DEF Inserts
<1>5. c = InsertAt(b, p, new) /\ \A g \in 1..Len(program) : g # f => s.body[g] = r.body[g]
  <2> DEFINE bodies == r.body
             body   == InsertAt(b, p, new)
  <2>1. DOMAIN bodies = 1..Len(program) /\ f \in DOMAIN bodies /\ s.body = [bodies EXCEPT ![f] = body]
    BY <1>1, <1>4
  <2> HIDE DEF bodies, body
  <2>2. s.body[f] = body /\ \A g \in 1..Len(program) : g # f => s.body[g] = bodies[g]
    BY <2>1
  <2> QED
    BY <2>2 DEF bodies, body
<1>6. /\ Len(c) = size + 1
      /\ \A k \in 1..(p - 1) : c[k] = b[k]
      /\ c[p] = new
      /\ \A k \in p..size : c[k + 1] = b[k]
  <2>1. p \in 1..(Len(b) + 1)
    BY <1>2, <1>3
  <2>2. Widens(b, p, new, InsertAt(b, p, new))
    <3> HIDE DEF b, c, size
    <3>1. b \in Seq(Nat)
      BY <1>2
    <3> QED
      BY <2>1, <3>1, InsertAtFacts
  <2> QED
    BY <1>5, <2>2 DEF Widens
<1>7. \A n \in 1..size : b[n] \in 1..Total =>
        b[n] \in ToSet(Original(f)) /\ \A m \in 1..(n - 1) : b[m] \in 1..Total => b[m] < b[n]
  BY DEF InOrder
<1> HIDE DEF b, c, size
<1>8. \A n \in 1..(size + 1) : c[n] \in 1..Total =>
        c[n] \in ToSet(Original(f)) /\ \A m \in 1..(n - 1) : c[m] \in 1..Total => c[m] < c[n]
  <2> DEFINE Back(n) == IF n < p THEN n ELSE n - 1
  <2>1. ASSUME NEW n \in 1..(size + 1), c[n] \in 1..Total
        PROVE  n # p /\ Back(n) \in 1..size /\ c[n] = b[Back(n)]
    <3>1. n # p
      BY <1>6, <2>1
    <3>2. CASE n < p
      <4>1. n \in 1..(p - 1) /\ n \in 1..size
        BY <1>2, <1>3, <3>2
      <4> QED
        BY <1>6, <3>1, <3>2, <4>1
    <3>3. CASE n > p
      <4>1. n - 1 \in p..size /\ n - 1 \in 1..size /\ (n - 1) + 1 = n /\ ~(n < p)
        BY <1>2, <1>3, <3>3
      <4>2. c[(n - 1) + 1] = b[n - 1]
        BY <1>6, <4>1
      <4> QED
        BY <3>1, <4>1, <4>2
    <3> QED
      BY <1>2, <1>3, <3>1, <3>2, <3>3
  <2> TAKE n \in 1..(size + 1)
  <2> HAVE c[n] \in 1..Total
  <2>2. n # p /\ Back(n) \in 1..size /\ c[n] = b[Back(n)]
    BY <2>1
  <2>3. ASSUME NEW m \in 1..(n - 1), c[m] \in 1..Total PROVE c[m] < c[n]
    <3>1. m \in 1..(size + 1)
      BY <1>2
    <3>2. m # p /\ Back(m) \in 1..size /\ c[m] = b[Back(m)]
      BY <2>1, <2>3, <3>1
    <3>3. Back(m) \in 1..(Back(n) - 1)
      BY <1>2, <1>3, <2>2, <3>1, <3>2
    <3> HIDE DEF Back
    <3> QED
      BY <1>7, <2>2, <2>3, <3>2, <3>3
  <2> HIDE DEF Back
  <2> QED
    BY <1>7, <2>2, <2>3
<1>9. InOrder(s)
  <2> SUFFICES ASSUME NEW g \in 1..Len(program), NEW n \in 1..Len(s.body[g]), s.body[g][n] \in 1..Total
               PROVE  /\ s.body[g][n] \in ToSet(Original(g))
                      /\ \A m \in 1..(n - 1) : s.body[g][m] \in 1..Total => s.body[g][m] < s.body[g][n]
    BY DEF InOrder
  <2>1. CASE g = f
    <3>1. s.body[g] = c /\ n \in 1..(size + 1)
      BY <1>6, <2>1 DEF c
    <3> QED
      BY <1>8, <2>1, <3>1
  <2>2. CASE g # f
    <3>1. s.body[g] = r.body[g]
      BY <1>5, <2>2
    <3> QED
      BY <3>1 DEF InOrder
  <2> QED
    BY <2>1, <2>2
<1> QED
  BY <1>6, <1>9 DEF Inserted, b, c, size

\* insertInstructionRelative, for an instruction that was there.
RelativeTo(r, f, n, distance) ==
  IF n + distance > Len(r.body[f]) + 1 THEN Len(r.body[f]) + 1 ELSE n + distance

LEMMA RelativeFacts ==
  ASSUME program \in Programs, NEW r, Sound(r), InOrder(r), r.fault = "none", r.freed = {},
         NEW f \in 1..Len(program), NEW n \in 1..Len(r.body[f]), NEW base, base = r.body[f][n],
         base \in 1..Total, NEW new \in Nat, NEW distance \in Nat
  PROVE  /\ RelativeTo(r, f, n, distance) \in Nat \ {0}
         /\ Inserts(r, f, RelativeTo(r, f, n, distance), new, InsertInstructionRelative(r, base, new, distance))
<1> DEFINE p == RelativeTo(r, f, n, distance)
<1>1. FuncOf(r, base) = f /\ PosOf(r, base) = n
  BY PlaceIs
<1>2. InsertInstructionRelative(r, base, new, distance) = InsertBefore(r, f, p, new)
  BY <1>1 DEF InsertInstructionRelative, Guarded, RelativePlace, RelativeTo
<1>3. p \in Nat \ {0}
  <2>1. r.body \in Seq(Seq(Nat)) /\ Len(r.body) = Len(program)
    BY DEF Sound, IRType
  <2>2. Len(r.body[f]) \in Nat
    BY <2>1
  <2> QED
    BY <2>2 DEF RelativeTo
<1> HIDE DEF p
<1>4. Inserts(r, f, p, new, InsertBefore(r, f, p, new))
  BY <1>3, InsertBeforeFacts
<1> QED
  BY <1>2, <1>3, <1>4 DEF p

\* The distances between the ends, and the values given for the split.
Fits(r, pair) ==
  /\ UnlockPos < DistanceBetween(r, pair.lock, pair.unlock)
  /\ LockPos < DistanceBetween(r, pair.lock, pair.unlock)

LEMMA SplitValues ==
  ASSUME cmd \in Commands, i \in Nat, i + 1 < Len(cmd.splitpos)
  PROVE  /\ UnlockPos \in Int /\ LockPos \in Int
         /\ UnlockPos >= -(IntMax + 1) /\ LockPos >= -(IntMax + 1)
         /\ UnlockPos <= IntMax /\ LockPos <= IntMax
         /\ \/ UnlockPos \in Nat /\ LockPos \in Nat
            \/ \E n \in 1..Len(cmd.splitpos) : cmd.splitpos[n] > IntMax
<1> DEFINE u == cmd.splitpos[i + 1]
           l == cmd.splitpos[(i + 1) + 1]
<1>1. Len(cmd.splitpos) \in Nat /\ IntMax \in Nat \ {0}
  BY CommandTypes, IntMaxAssumption
<1>2. i < Len(cmd.splitpos) /\ i + 1 \in Nat
  BY <1>1
<1>3. u \in UIntRange /\ l \in UIntRange /\ i + 1 \in 1..Len(cmd.splitpos) /\ (i + 1) + 1 \in 1..Len(cmd.splitpos)
  BY <1>2, CommandTypes DEF At
<1>4. UnlockPos = ToInt(u) /\ LockPos = ToInt(l)
  BY DEF UnlockPos, LockPos, At
<1>5. u > IntMax \/ l > IntMax => \E n \in 1..Len(cmd.splitpos) : cmd.splitpos[n] > IntMax
  BY <1>3
<1> HIDE DEF u, l
<1>6. u \in Nat /\ u <= 2 * IntMax + 1 /\ l \in Nat /\ l <= 2 * IntMax + 1
  BY <1>1, <1>3 DEF UIntRange
<1>7. \A x \in Nat : x <= 2 * IntMax + 1 =>
        /\ ToInt(x) \in Int /\ ToInt(x) >= -(IntMax + 1) /\ ToInt(x) <= IntMax
        /\ x <= IntMax => ToInt(x) \in Nat
  BY <1>1 DEF ToInt
<1> HIDE DEF UnlockPos, LockPos, ToInt
<1>8. /\ UnlockPos \in Int /\ UnlockPos >= -(IntMax + 1) /\ UnlockPos <= IntMax
      /\ u <= IntMax => UnlockPos \in Nat
  BY <1>4, <1>6, <1>7
<1>9. /\ LockPos \in Int /\ LockPos >= -(IntMax + 1) /\ LockPos <= IntMax
      /\ l <= IntMax => LockPos \in Nat
  BY <1>4, <1>6, <1>7
<1>10. u <= IntMax \/ u > IntMax
  BY <1>1, <1>6
<1>11. l <= IntMax \/ l > IntMax
  BY <1>1, <1>6
<1> QED
  BY <1>5, <1>8, <1>9, <1>10, <1>11

LEMMA UnsignedFacts ==
  ASSUME NEW n \in Int, n >= -(IntMax + 1)
  PROVE  ToUnsigned(n) \in Nat /\ (n >= 0 => ToUnsigned(n) = n)
<1>1. IntMax \in Nat
  BY IntMaxAssumption
<1> QED
  BY <1>1 DEF ToUnsigned

\* What the split does to the module.
SplitsPair(r, s, pair) ==
  /\ Sound(s)
  /\ s.fault \in {"none", "end"} /\ s.freed = {}
  /\ s.fault = "none" => InOrder(s)
  /\ UnlockPos \in Nat /\ LockPos \in Nat /\ pair.lock < pair.unlock => s.fault = "none"

\* The first insertion leaves room for the second one.
LEMMA SplitRoom ==
  ASSUME NEW u \in Nat, NEW l \in Nat, NEW size \in Nat, NEW m \in 1..size, NEW n \in 1..size,
         m < n, u < n - m, l < n - m, NEW k \in {m, m + 1}, u > 0 => k = m
  PROVE  /\ m + u <= size /\ ~(m + u > size + 1)
         /\ k + (IF u < l THEN l + 1 ELSE l) <= size + 1
         /\ ~(k + (IF u < l THEN l + 1 ELSE l) > (size + 1) + 1)
  OBVIOUS

LEMMA SplitFacts ==
  ASSUME MInv, pc = "loop", Mode("split"), i + 1 < Len(cmd.pos), i + 1 < Len(cmd.splitpos),
         NEW pair, PairFact(pair), Fits(ir, pair)
  PROVE  SplitsPair(ir, SplitApart(pair), pair)
<1> DEFINE new  == NewInst(ir)
           ops  == <<AsCall(ir.op[pair.lock]), AsCall(ir.op[pair.unlock])>>
           created  == CreateInsts(ir, InstsOf(pair), ops)
           far      == ToUnsigned(UnlockPos)
           unlocked == InsertInstructionRelative(created, pair.lock, new + 1, far)
           lockPos  == IF UnlockPos < LockPos THEN LockPos + 1 ELSE LockPos
           near     == ToUnsigned(lockPos)
           s        == InsertInstructionRelative(unlocked, pair.lock, new, near)
<1>1. SplitApart(pair) = s
  BY DEF SplitApart
<1>2. /\ program \in Programs /\ cmd \in Commands /\ i \in Nat /\ Sound(ir) /\ ir.fault = "none"
      /\ ir.freed = {} /\ InOrder(ir)
  BY DEF MInv, PairsInv, ArgsInv, ModuleInv, SplitInv
<1>3. /\ UnlockPos \in Int /\ LockPos \in Int /\ far \in Nat /\ near \in Nat
      /\ UnlockPos \in Nat => far = UnlockPos
      /\ UnlockPos \in Nat /\ LockPos \in Nat => near = lockPos
  <2>1. /\ UnlockPos \in Int /\ LockPos \in Int
        /\ UnlockPos >= -(IntMax + 1) /\ LockPos >= -(IntMax + 1) /\ IntMax \in Nat
    BY <1>2, SplitValues, IntMaxAssumption
  <2>2. lockPos \in Int /\ lockPos >= -(IntMax + 1) /\ (UnlockPos \in Nat /\ LockPos \in Nat => lockPos >= 0)
    <3> HIDE DEF UnlockPos, LockPos
    <3> QED
      BY <2>1
  <2> HIDE DEF UnlockPos, LockPos, lockPos
  <2>3. far \in Nat /\ (UnlockPos >= 0 => far = UnlockPos)
    BY <2>1, UnsignedFacts
  <2>4. near \in Nat /\ (lockPos >= 0 => near = lockPos)
    BY <2>2, UnsignedFacts
  <2> HIDE DEF far, near
  <2> QED
    BY <2>1, <2>2, <2>3, <2>4
<1> HIDE DEF far, near
<1>4. /\ pair.lock \in 1..Total /\ pair.unlock \in 1..Total /\ Total \in Nat
      /\ \E f \in 1..Len(program) : pair.lock \in ToSet(Original(f)) /\ pair.unlock \in ToSet(Original(f))
  BY <1>2, Sizes DEF PairFact
<1>5. PICK f \in 1..Len(program) : pair.lock \in ToSet(Original(f)) /\ pair.unlock \in ToSet(Original(f))
  BY <1>4
<1> DEFINE size == Len(ir.body[f])
<1>6. /\ ir.body \in Seq(Seq(Nat)) /\ Len(ir.body) = Len(program) /\ size \in Nat
      /\ ir.op \in Seq(Op) /\ Len(ir.op) \in Nat /\ Total <= Len(ir.op) /\ new = Len(ir.op) + 1
  <2>1. /\ ir.body \in Seq(Seq(Nat)) /\ Len(ir.body) = Len(program) /\ ir.op \in Seq(Op) /\ Total <= Len(ir.op)
    BY <1>2 DEF Sound, IRType
  <2> QED
    BY <2>1 DEF NewInst
<1>7. \A x \in 1..Total : x \in ToSet(Original(f)) => \E n \in 1..size : ir.body[f][n] = x
  <2> TAKE x \in 1..Total
  <2> HAVE x \in ToSet(Original(f))
  <2>1. PICK g \in 1..Len(ir.body) : \E n \in 1..Len(ir.body[g]) : ir.body[g][n] = x
    BY <1>2 DEF Sound, Occurs
  <2>2. PICK n \in 1..Len(ir.body[g]) : ir.body[g][n] = x
    BY <2>1
  <2>3. x \in ToSet(Original(g)) /\ g \in 1..Len(program)
    BY <1>2, <1>6, <2>1, <2>2 DEF InOrder
  <2>4. ~(x < x)
    BY <1>4
  <2>5. g = f
    <3>1. program \in Seq(Seq(Op))
      BY <1>2, ProgramAssumption
    <3>2. ~(f < g) /\ ~(g < f)
      BY <2>3, <2>4, <3>1, FunctionsApart DEF Original
    <3>3. f \in Nat /\ g \in Nat
      BY <2>3
    <3> QED
      BY <3>2, <3>3
  <2> QED
    BY <2>2, <2>5
<1>8. PICK m \in 1..size : ir.body[f][m] = pair.lock
  BY <1>4, <1>5, <1>7
<1>9. PICK n \in 1..size : ir.body[f][n] = pair.unlock
  BY <1>4, <1>5, <1>7
<1>10. PosOf(ir, pair.lock) = m /\ PosOf(ir, pair.unlock) = n
  <2>1. PosOf(ir, pair.lock) = m
    BY ONLY <1>2, <1>4, <1>8, m \in 1..size, f \in 1..Len(program), PlaceIs
  <2>2. PosOf(ir, pair.unlock) = n
    BY ONLY <1>2, <1>4, <1>9, n \in 1..size, f \in 1..Len(program), PlaceIs
  <2> QED
    BY <2>1, <2>2
<1>11. ASSUME pair.lock < pair.unlock PROVE m < n /\ UnlockPos < n - m /\ LockPos < n - m
  <2>1. ~(n \in 1..(m - 1))
    <3> SUFFICES ASSUME n \in 1..(m - 1) PROVE FALSE
      OBVIOUS
    <3>1. ir.body[f][n] < ir.body[f][m]
      BY <1>2, <1>4, <1>8, <1>9 DEF InOrder
    <3> QED
      BY <1>4, <1>8, <1>9, <1>11, <3>1
  <2>2. m # n
    BY <1>4, <1>8, <1>9, <1>11
  <2>3. m < n
    BY <1>6, <2>1, <2>2
  <2>4. DistanceBetween(ir, pair.lock, pair.unlock) = n - m
    BY <1>6, <1>10, <2>3 DEF DistanceBetween
  <2> QED
    BY <2>3, <2>4 DEF Fits
<1>12. ops \in Seq(Op) /\ Len(ops) = 2
  <2>1. pair.lock \in 1..Len(ir.op) /\ pair.unlock \in 1..Len(ir.op)
    <3> DEFINE total == Total
               last  == Len(ir.op)
    <3>1. /\ pair.lock \in 1..total /\ pair.unlock \in 1..total
          /\ total \in Nat /\ last \in Nat /\ total <= last
      BY <1>4, <1>6
    <3> HIDE DEF total, last
    <3>2. pair.lock \in 1..last /\ pair.unlock \in 1..last
      BY <3>1
    <3> QED
      BY <3>2 DEF last
  <2>2. ir.op[pair.lock] \in Op /\ ir.op[pair.unlock] \in Op
    <3>1. ir.op \in Seq(Op)
      BY <1>6
    <3> QED
      BY <2>1, <3>1
  <2>3. AsCall(ir.op[pair.lock]) \in Op /\ AsCall(ir.op[pair.unlock]) \in Op
    BY <2>2, OpTypes
  <2> QED
    BY <2>3
<1> HIDE DEF ops, created
<1>13. /\ Sound(created) /\ created.body = ir.body /\ created.freed = {} /\ created.fault = "none"
  <2>1. CreatesInsts(ir, InstsOf(pair), ops, created)
    BY <1>2, <1>12, CreateInstsFacts DEF created
  <2>2. InstsOf(pair) \cap ir.freed = {}
    BY <1>2
  <2> QED
    BY <1>2, <2>1, <2>2 DEF CreatesInsts
<1>14. InOrder(created)
  BY <1>2, <1>13 DEF InOrder
<1>15. new \in Nat /\ new + 1 \in Nat /\ new \notin 1..Total /\ new + 1 \notin 1..Total
  <2> DEFINE total == Total
             last  == Len(ir.op)
  <2>1. total \in Nat /\ last \in Nat /\ total <= last /\ new = last + 1
    BY <1>4, <1>6
  <2> HIDE DEF total, last, new
  <2>2. new \in Nat /\ new + 1 \in Nat /\ new \notin 1..total /\ new + 1 \notin 1..total
    BY <2>1
  <2> QED
    BY <2>2 DEF total
<1> HIDE DEF new, unlocked, s, lockPos
<1> DEFINE p == RelativeTo(created, f, m, far)
<1>16. p \in Nat \ {0} /\ Inserts(created, f, p, new + 1, unlocked)
  BY <1>2, <1>3, <1>4, <1>8, <1>13, <1>14, <1>15, RelativeFacts DEF unlocked
<1>17. p = IF m + far > size + 1 THEN size + 1 ELSE m + far
  BY <1>13 DEF RelativeTo
<1> HIDE DEF p
<1>18. Sound(unlocked) /\ unlocked.freed = {}
  BY <1>13, <1>16 DEF Inserts
<1>19. CASE p > size
  <2>1. unlocked.fault = "end"
    BY <1>13, <1>16, <1>19 DEF Inserts
  <2>2. s = unlocked
    BY <2>1 DEF s, InsertInstructionRelative, Guarded
  <2>3. ~(UnlockPos \in Nat /\ LockPos \in Nat /\ pair.lock < pair.unlock)
    <3> SUFFICES ASSUME UnlockPos \in Nat, LockPos \in Nat, pair.lock < pair.unlock PROVE FALSE
      OBVIOUS
    <3>1. m < n /\ UnlockPos < n - m /\ far = UnlockPos
      BY <1>3, <1>11
    <3> HIDE DEF UnlockPos, LockPos, size
    <3> QED
      BY ONLY <1>6, <1>17, <1>19, <3>1, UnlockPos \in Nat, m \in 1..size, n \in 1..size
  <2> QED
    BY <1>1, <1>18, <2>1, <2>2, <2>3 DEF SplitsPair
<1>20. CASE ~(p > size)
  <2>1. p \in 1..size
    BY <1>6, <1>16, <1>20
  <2>2. unlocked.fault = "none"
    BY <1>6, <1>13, <1>16, <2>1 DEF Inserts
  <2>3. Inserted(created, f, p, unlocked)
    <3>1. p \in 1..Len(created.body[f])
      BY <1>13, <2>1
    <3> QED
      BY <1>2, <1>13, <1>14, <1>15, <1>16, <3>1, InsertInOrder
  <2> DEFINE k == IF m < p THEN m ELSE m + 1
  <2>4. /\ InOrder(unlocked) /\ Len(unlocked.body[f]) = size + 1
        /\ k \in 1..(size + 1) /\ unlocked.body[f][k] = pair.lock
    <3>1. /\ InOrder(unlocked) /\ Len(unlocked.body[f]) = size + 1
          /\ \A j \in 1..(p - 1) : unlocked.body[f][j] = ir.body[f][j]
          /\ \A j \in p..size : unlocked.body[f][j + 1] = ir.body[f][j]
      BY <1>13, <2>3 DEF Inserted
    <3> HIDE DEF size
    <3>2. CASE m < p
      <4>1. m \in 1..(p - 1) /\ m \in 1..(size + 1)
        BY <1>6, <2>1, <3>2
      <4> QED
        BY <1>8, <3>1, <3>2, <4>1
    <3>3. CASE ~(m < p)
      <4>1. m \in p..size /\ m + 1 \in 1..(size + 1)
        BY <1>6, <2>1, <3>3
      <4> QED
        BY <1>8, <3>1, <3>3, <4>1
    <3> QED
      BY <3>2, <3>3
  <2> HIDE DEF k
  <2> DEFINE q == RelativeTo(unlocked, f, k, near)
  <2>5. q \in Nat \ {0} /\ Inserts(unlocked, f, q, new, s)
    BY <1>2, <1>3, <1>4, <1>15, <1>18, <2>2, <2>4, RelativeFacts DEF s
  <2>6. q = IF k + near > (size + 1) + 1 THEN (size + 1) + 1 ELSE k + near
    BY <2>4 DEF RelativeTo
  <2> HIDE DEF q
  <2>7. Sound(s) /\ s.freed = {}
    BY <1>18, <2>5 DEF Inserts
  <2>8. s.fault \in {"none", "end"} /\ (q <= size + 1 => s.fault = "none")
    <3>1. q <= size + 1 \/ q > size + 1
      BY <1>6, <2>5
    <3> QED
      BY <2>2, <2>4, <2>5, <3>1 DEF Inserts
  <2>9. s.fault = "none" => InOrder(s)
    <3>1. q <= size + 1 \/ q > size + 1
      BY <1>6, <2>5
    <3>2. q > size + 1 => s.fault = "end"
      BY <2>2, <2>4, <2>5 DEF Inserts
    <3>3. q <= size + 1 => InOrder(s)
      <4> SUFFICES ASSUME q <= size + 1 PROVE InOrder(s)
        OBVIOUS
      <4>1. q \in 1..Len(unlocked.body[f])
        BY <1>6, <2>4, <2>5
      <4>2. Inserted(unlocked, f, q, s)
        BY <1>2, <1>15, <1>18, <2>2, <2>4, <2>5, <4>1, InsertInOrder
      <4> QED
        BY <4>2 DEF Inserted
    <3> QED
      BY <3>1, <3>2, <3>3
  <2>10. UnlockPos \in Nat /\ LockPos \in Nat /\ pair.lock < pair.unlock => s.fault = "none"
    <3> SUFFICES ASSUME UnlockPos \in Nat, LockPos \in Nat, pair.lock < pair.unlock PROVE q <= size + 1
      BY <2>8
    <3>1. m < n /\ UnlockPos < n - m /\ LockPos < n - m /\ far = UnlockPos
          /\ near = IF UnlockPos < LockPos THEN LockPos + 1 ELSE LockPos
      BY <1>3, <1>11 DEF lockPos
    <3> DEFINE u == UnlockPos
               l == LockPos
    <3>2. /\ u \in Nat /\ l \in Nat /\ m < n /\ u < n - m /\ l < n - m /\ far = u
          /\ near = IF u < l THEN l + 1 ELSE l
      BY <3>1
    <3> HIDE DEF u, l
    <3>3. ~(m + u > size + 1)
      <4> HIDE DEF size
      <4> QED
        BY ONLY <1>6, <3>2, m \in 1..size, n \in 1..size
    <3>4. k \in {m, m + 1} /\ (u > 0 => k = m)
      BY <1>6, <1>17, <3>2, <3>3 DEF k
    <3>5. /\ k + (IF u < l THEN l + 1 ELSE l) <= size + 1
          /\ ~(k + (IF u < l THEN l + 1 ELSE l) > (size + 1) + 1)
      <4> HIDE DEF size
      <4> QED
        BY <1>6, <3>2, <3>4, SplitRoom
    <3> QED
      BY <2>6, <3>2, <3>5
  <2> QED
    BY <1>1, <2>7, <2>8, <2>9, <2>10 DEF SplitsPair
<1> QED
  BY <1>19, <1>20

LEMMA SplitPairInv ==
  ASSUME MInv, SplitPair
  PROVE  ArgsInv' /\ ModuleInv' /\ RemoveInv' /\ FreedInv' /\ SplitInv' /\ ChangeInv'
<1> DEFINE pair == GenericPair(i)
           s == SplitApart(pair)
<1>1. /\ pc = "loop" /\ Mode("split") /\ i < Len(cmd.pos) /\ HasGenericPair(i) /\ HasSplitPos
      /\ ~SplitOverrun /\ Fits(ir, pair)
      /\ UNCHANGED <<cmd, program, lockPairs, func, mutateInsts>>
      /\ Commit(s, 2) /\ modified' = TRUE
  BY DEF SplitPair, Turn, CanSplit, Fits
<1>2. i + 1 < Len(cmd.pos) /\ i + 1 < Len(cmd.splitpos)
  BY <1>1, NoOverrun DEF SplitOverrun, InList
<1>3. ArgsAccepted /\ i \in Nat /\ PairsInv /\ Enumerated /\ cmd \in Commands /\ program \in Programs
  BY <1>1 DEF MInv, ArgsInv, Enumerated, PairsInv
<1>4. PairFact(pair)
  BY <1>1, <1>2, <1>3, NamedFact
<1>5. SplitsPair(ir, s, pair)
  <2> HIDE DEF pair
  <2> QED
    BY <1>1, <1>2, <1>4, SplitFacts
<1> HIDE DEF s
<1>6. /\ Sound(s) /\ s.fault \in {"none", "end"} /\ s.freed = {}
      /\ s.fault = "none" => InOrder(s)
      /\ UnlockPos \in Nat /\ LockPos \in Nat /\ pair.lock < pair.unlock => s.fault = "none"
  BY <1>5 DEF SplitsPair
<1>7. pair \in NamedPairs
  <2>1. ~Mode("rm") /\ i \in Groups(2)
    BY <1>1, <1>2, <1>3, OneMode, TwoGroup
  <2> QED
    BY <1>1, <2>1 DEF NamedPairs
<1>8. pair.lock < pair.unlock \/ pair.unlock < pair.lock
  <2>1. pair.lock # pair.unlock /\ pair.lock \in Int /\ pair.unlock \in Int
    BY <1>4 DEF PairFact
  <2> HIDE DEF pair
  <2> QED
    BY <2>1
<1>9. \/ UnlockPos \in Nat /\ LockPos \in Nat
      \/ \E n \in 1..Len(cmd.splitpos) : cmd.splitpos[n] > IntMax
  BY <1>2, <1>3, SplitValues
<1>10. Explained(s.fault)
  <2>1. s.fault = "end" =>
          \/ \E n \in 1..Len(cmd.splitpos) : cmd.splitpos[n] > IntMax
          \/ \E p \in NamedPairs : p.unlock < p.lock
    <3> HIDE DEF pair, UnlockPos, LockPos
    <3> QED
      BY <1>6, <1>7, <1>8, <1>9
  <2> QED
    BY <1>1, <1>6, <2>1 DEF Explained
<1>11. /\ ir' = s /\ i' = i + 2 /\ pc' = IF Faulted(ir') THEN "fault" ELSE pc
  BY <1>1 DEF Commit
<1>12. modified' \in BOOLEAN /\ ~Mode("swap") /\ ~Mode("rm")
  BY <1>1, <1>3, OneMode
<1>13. ArgsInv' /\ ModuleInv'
  BY <1>1, <1>6, <1>10, <1>11, <1>12, TurnStep
<1>14. RemoveInv'
  <2>1. pc' # "erase"
    BY <1>1, <1>11
  <2> QED
    BY <1>1, <2>1, SamePairs DEF MInv, RemoveInv
<1>15. FreedInv'
  <2>1. ir'.freed \cap (1..Total) = {}
    BY <1>6, <1>11
  <2> QED
    BY <1>1, <1>11, <2>1, FreedStep
<1>16. SplitInv'
  <2>1. pc' \in {"loop", "ran"} => InOrder(ir')
    BY <1>6, <1>11 DEF Faulted
  <2> QED
    BY <1>1, <1>6, <1>11, <2>1, SameModule DEF SplitInv
<1>17. ChangeInv'
  <2>1. ~Mode("rm")'
    BY <1>1, <1>12, SameCommand
  <2> QED
    BY <1>1, <2>1 DEF ChangeInv
<1> QED
  BY <1>13, <1>14, <1>15, <1>16, <1>17

-----------------------------------------------------------------------------
(* The other steps *)

LEMMA InitInv == Init => MInv
<1> SUFFICES ASSUME Init PROVE MInv
  OBVIOUS
<1>1. PairsInv
  BY PairsInit
<1>2. /\ program \in Programs /\ ir = Loaded(program) /\ pc = "args" /\ i = 0 /\ modified = FALSE
      /\ mutateInsts = {}
  BY DEF Init
<1>3. Sound(ir) /\ ir.fault = "none"
  BY <1>2, LoadedSound
<1>4. ArgsInv /\ ModuleInv /\ RemoveInv
  BY <1>2, <1>3 DEF ArgsInv, ModuleInv, RemoveInv
<1>5. FreedInv /\ SplitInv /\ ChangeInv
  BY <1>2 DEF FreedInv, SplitInv, ChangeInv
<1> QED
  BY <1>1, <1>4, <1>5 DEF MInv

LEMMA CheckArgsInv ==
  ASSUME MInv, CheckCommandLineArgs
  PROVE  ArgsInv' /\ ModuleInv' /\ RemoveInv' /\ FreedInv' /\ SplitInv' /\ ChangeInv'
<1>1. /\ pc = "args" /\ pc' = IF ArgsAccepted THEN "enumerate" ELSE "exit"
      /\ UNCHANGED <<cmd, program, ir, lockPairs, func, mutateInsts, i, modified>>
  BY DEF CheckCommandLineArgs
<1>2. i = 0 /\ mutateInsts = {} /\ modified \in BOOLEAN /\ Sound(ir) /\ ir.fault = "none"
  BY <1>1 DEF MInv, ArgsInv, ModuleInv
<1>3. ArgsInv'
  BY <1>1, <1>2, SameCommand DEF ArgsInv
<1>4. ModuleInv'
  BY <1>1, <1>2, SameModule DEF ModuleInv
<1>5. RemoveInv' /\ FreedInv' /\ SplitInv'
  BY <1>1, <1>2 DEF RemoveInv, FreedInv, SplitInv
<1>6. ChangeInv'
  <2>1. ~modified => ir = Loaded(program)
    BY <1>1 DEF MInv, ChangeInv
  <2> QED
    BY <1>1, <2>1, SameModule DEF ChangeInv
<1> QED
  BY <1>3, <1>4, <1>5, <1>6

LEMMA EnumerateInv ==
  ASSUME MInv, EnumerateFunction
  PROVE  ArgsInv' /\ ModuleInv' /\ RemoveInv' /\ FreedInv' /\ SplitInv' /\ ChangeInv'
<1>1. /\ pc = "enumerate" /\ pc' \in {"loop", "enumerate"}
      /\ UNCHANGED <<cmd, program, ir, mutateInsts, i, modified>>
  BY DEF EnumerateFunction
<1>2. /\ i = 0 /\ mutateInsts = {} /\ modified \in BOOLEAN /\ Sound(ir) /\ ir.fault = "none"
      /\ ArgsAccepted /\ ir = Loaded(program) /\ program \in Programs
  BY <1>1 DEF MInv, ArgsInv, ModuleInv, PairsInv
<1>3. ir.freed = {} /\ InOrder(ir)
  BY <1>2, LoadedSound, LoadedInOrder
<1>4. ArgsInv'
  BY <1>1, <1>2, SameCommand DEF ArgsInv
<1>5. ModuleInv'
  BY <1>1, <1>2, SameModule DEF ModuleInv
<1>6. RemoveInv' /\ FreedInv'
  BY <1>1, <1>2, <1>3 DEF RemoveInv, FreedInv
<1>7. SplitInv'
  BY <1>1, <1>3, SameModule DEF SplitInv
<1>8. ChangeInv'
  BY <1>1, <1>2, SameModule DEF ChangeInv
<1> QED
  BY <1>4, <1>5, <1>6, <1>7, <1>8

LEMMA FinishLoopInv ==
  ASSUME MInv, FinishLoop
  PROVE  ArgsInv' /\ ModuleInv' /\ RemoveInv' /\ FreedInv' /\ SplitInv' /\ ChangeInv'
<1>1. /\ pc \in {"loop", "erase"} /\ pc' = "ran"
      /\ UNCHANGED <<cmd, program, ir, lockPairs, func, mutateInsts, i, modified>>
  BY DEF FinishLoop
<1>2. /\ i \in Nat /\ modified \in BOOLEAN /\ Sound(ir) /\ ir.fault = "none" /\ ArgsAccepted
      /\ mutateInsts \subseteq PairedInsts
      /\ pc = "erase" => Mode("rm")
  BY <1>1 DEF MInv, ArgsInv, ModuleInv, RemoveInv
<1>3. ArgsInv'
  BY <1>1, <1>2, SameCommand DEF ArgsInv
<1>4. ModuleInv'
  BY <1>1, <1>2, SameModule DEF ModuleInv
<1>5. RemoveInv' /\ FreedInv'
  BY <1>1, <1>2, SamePairs DEF RemoveInv, FreedInv
<1>6. SplitInv'
  <2> SUFFICES ASSUME Mode("split") PROVE ir'.freed = {} /\ InOrder(ir)'
    BY <1>1, SameCommand DEF SplitInv
  <2>1. pc = "loop"
    BY <1>1, <1>2, OneMode
  <2> QED
    BY <1>1, <2>1, SameModule DEF MInv, SplitInv
<1>7. ChangeInv'
  <2>1. ~modified => ir = Loaded(program)
    BY <1>1 DEF MInv, ChangeInv
  <2> QED
    BY <1>1, <2>1, SameModule DEF ChangeInv
<1> QED
  BY <1>3, <1>4, <1>5, <1>6, <1>7

\* The listing reads what the pass may have erased, except after a split.
LEMMA PrintPairsInv ==
  ASSUME MInv, PrintPairs
  PROVE  ArgsInv' /\ ModuleInv' /\ RemoveInv' /\ FreedInv' /\ SplitInv' /\ ChangeInv'
<1> DEFINE bad == [ir EXCEPT !.fault = "dangling"]
<1>1. /\ pc = "ran" /\ ir' = IF VerbosePrint THEN Dereference(ir, PairedInsts) ELSE ir
      /\ pc' = IF Faulted(ir') THEN "fault" ELSE "done"
      /\ UNCHANGED <<cmd, program, lockPairs, func, mutateInsts, i, modified>>
  BY DEF PrintPairs
<1>2. /\ i \in Nat /\ modified \in BOOLEAN /\ Sound(ir) /\ ir.fault = "none" /\ ArgsAccepted
      /\ mutateInsts \subseteq PairedInsts /\ (~modified => ir = Loaded(program))
      /\ Mode("split") => ir.freed = {}
  BY <1>1 DEF MInv, ArgsInv, ModuleInv, RemoveInv, ChangeInv, SplitInv
<1>3. Sound(bad) /\ bad.fault = "dangling"
  BY <1>2, FaultSound
<1>4. Dereference(ir, PairedInsts) = IF PairedInsts \cap ir.freed # {} THEN bad ELSE ir
  BY <1>2 DEF Dereference, Guarded
<1> HIDE DEF bad
<1>5. \/ ir' = ir /\ pc' = "done"
      \/ ir' = bad /\ pc' = "fault" /\ VerbosePrint /\ ~Mode("split")
  BY <1>1, <1>2, <1>3, <1>4 DEF Faulted
<1>6. ArgsInv'
  BY <1>1, <1>2, <1>5, SameCommand DEF ArgsInv
<1>7. RemoveInv' /\ FreedInv' /\ SplitInv'
  BY <1>1, <1>2, <1>5, SamePairs DEF RemoveInv, FreedInv, SplitInv
<1>8. ModuleInv'
  <2>1. Sound(ir)'
    BY <1>1, <1>2, <1>3, <1>5, SameModule
  <2>2. CASE ir' = ir /\ pc' = "done"
    BY <1>2, <2>1, <2>2 DEF ModuleInv
  <2>3. CASE ir' = bad /\ pc' = "fault" /\ VerbosePrint /\ ~Mode("split")
    <3>1. VerbosePrint' /\ ~Mode("split")'
      BY <1>1, <2>3, SameCommand
    <3>2. ir'.fault = "dangling"
      BY <1>3, <2>3
    <3>3. Explained(ir.fault)'
      BY <3>1, <3>2 DEF Explained
    <3> QED
      BY <2>1, <2>3, <3>3 DEF ModuleInv
  <2> QED
    BY <1>5, <2>2, <2>3
<1>9. ChangeInv'
  BY <1>1, <1>2, <1>5, SameModule DEF ChangeInv
<1> QED
  BY <1>6, <1>7, <1>8, <1>9

LEMMA StutterInv ==
  ASSUME MInv, UNCHANGED vars
  PROVE  ArgsInv' /\ ModuleInv' /\ RemoveInv' /\ FreedInv' /\ SplitInv' /\ ChangeInv'
<1>1. UNCHANGED <<cmd, program, ir, lockPairs, func, mutateInsts, i, modified, pc>>
  BY DEF vars
<1>2. ArgsInv'
  BY <1>1, SameCommand DEF MInv, ArgsInv
<1>3. ModuleInv'
  <2>1. Sound(ir)'
    BY <1>1, SameModule DEF MInv, ModuleInv
  <2>2. pc = "fault" => Explained(ir.fault)'
    <3> SUFFICES ASSUME pc = "fault" PROVE Explained(ir.fault)'
      OBVIOUS
    <3> DEFINE fault == ir'.fault
    <3>1. Explained(fault)
      BY <1>1 DEF MInv, ModuleInv
    <3>2. ir.fault' = fault
      OBVIOUS
    <3> HIDE DEF fault
    <3> QED
      BY <1>1, <3>1, <3>2, SameExplanation DEF Explained
  <2> QED
    BY <1>1, <2>1, <2>2 DEF MInv, ModuleInv
<1>4. RemoveInv'
  BY <1>1, SameCommand, SamePairs DEF MInv, RemoveInv
<1>5. FreedInv'
  <2>1. ASSUME NEW width, NEW inst, UsedBefore(width, inst) PROVE UsedBefore(width, inst)'
    <3>1. PICK g \in PairGroups(width) : g < i /\ \E k \in Halves(width) : inst \in InstsOf(GenericPair(g + k))
      BY <2>1 DEF UsedBefore
    <3>2. PICK k \in Halves(width) : inst \in InstsOf(GenericPair(g + k))
      BY <3>1
    <3>3. (GenericPair(g + k))' = GenericPair(g + k) /\ PairGroups(width)' = PairGroups(width)
      <4>1. (GenericPair(g + k))' = GenericPair(g + k)
        BY <1>1 DEF GenericPair, Kind, GenericNumber, At
      <4> QED
        BY <1>1, <4>1, SamePairs
    <3> QED
      BY <1>1, <3>1, <3>2, <3>3 DEF UsedBefore, Halves, InstsOf
  <2>2. \A inst : /\ UsedBefore(2, inst) => UsedBefore(2, inst)'
                  /\ UsedBefore(4, inst) => UsedBefore(4, inst)'
    BY <2>1
  <2>3. Total' = Total /\ Mode("swap")' = Mode("swap") /\ Mode("shift")' = Mode("shift")
    BY <1>1, SameModule, SameCommand
  <2> QED
    BY <1>1, <2>2, <2>3 DEF MInv, FreedInv
<1>6. SplitInv'
  BY <1>1, SameCommand, SameModule DEF MInv, SplitInv
<1>7. ChangeInv'
  BY <1>1, SameCommand, SameModule DEF MInv, ChangeInv
<1> QED
  BY <1>2, <1>3, <1>4, <1>5, <1>6, <1>7

LEMMA StepInv == MInv /\ [Next]_vars => MInv'
<1> SUFFICES ASSUME MInv, [Next]_vars PROVE MInv'
  OBVIOUS
<1>1. PairsInv'
  BY PairsStep DEF MInv
<1>2. ArgsInv' /\ ModuleInv' /\ RemoveInv' /\ FreedInv' /\ SplitInv' /\ ChangeInv'
  <2>1. CASE CheckCommandLineArgs
    BY <2>1, CheckArgsInv
  <2>2. CASE EnumerateFunction
    BY <2>2, EnumerateInv
  <2>3. CASE CollectPair
    BY <2>3, CollectInv
  <2>4. CASE SkipCollect \/ SkipSwap \/ SkipShift \/ SkipSplit
    BY <2>4, SkipInv
  <2>5. CASE StartErasing
    BY <2>5, StartErasingInv
  <2>6. CASE EraseNext
    BY <2>6, EraseNextInv
  <2>7. CASE SwapPairs
    BY <2>7, SwapPairsInv
  <2>8. CASE ShiftPair
    BY <2>8, ShiftPairInv
  <2>9. CASE SplitPair
    BY <2>9, SplitPairInv
  <2>10. CASE FinishLoop
    BY <2>10, FinishLoopInv
  <2>11. CASE PrintPairs
    BY <2>11, PrintPairsInv
  <2>12. CASE UNCHANGED vars
    BY <2>12, StutterInv
  <2> QED
    BY <2>1, <2>2, <2>3, <2>4, <2>5, <2>6, <2>7, <2>8, <2>9, <2>10, <2>11, <2>12
       DEF Next, Terminated
<1> QED
  BY <1>1, <1>2 DEF MInv

\* The inductive invariant of the pass: lists are read within their length, what was
\* erased belongs to the groups before, the instructions that were there are where
\* they were or were erased, and only a pass that reports it has changed the module.
THEOREM Invariance == Spec => []MInv
<1> QED
  BY InitInv, StepInv, PTL DEF Spec

\* For every module and every command line the pass does something undefined only
\* where a pair that is not there is shifted, a call is moved or inserted past the
\* end of a function, or an instruction is named twice or listed after it was
\* erased; never for -rm, nor by an index past the end of a list.
THEOREM FaultsAreExplained == Spec => []FaultsExplained
<1>1. MInv => FaultsExplained
  <2> SUFFICES ASSUME MInv PROVE FaultsExplained
    OBVIOUS
  <2>1. Explained(ir.fault)
    BY NoFault DEF MInv, ModuleInv
  <2> QED
    BY <2>1 DEF FaultsExplained, Explained
<1> QED
  BY <1>1, Invariance, PTL

\* runOnModule returns true whenever the module is not what it was.
THEOREM ChangesAreReported == Spec => []ReportsChanges
<1>1. MInv => ReportsChanges
  BY DEF MInv, ChangeInv, ReportsChanges, Ran
<1> QED
  BY <1>1, Invariance, PTL

\* Whatever the mode, every function keeps the branch it ended with, and an
\* instruction that is in no function was erased: none is lost by a replacement, by
\* a move or by a branch put in the place of an invoke.
THEOREM ModuleStaysSound == Spec => []Sound(ir)
<1>1. MInv => Sound(ir)
  BY DEF MInv, ModuleInv
<1> QED
  BY <1>1, Invariance, PTL

-----------------------------------------------------------------------------
(* Sorted sequences with the same elements are the same *)

\* An element of a sorted sequence is not before the one at its place in a sorted sequence with more elements.
LEMMA NextElement ==
  ASSUME NEW s \in Seq(Nat), NEW t \in Seq(Nat), Increasing(s), Increasing(t),
         ToSet(s) \subseteq ToSet(t), NEW d \in 1..Len(s),
         \A k \in 1..(d - 1) : k \in 1..Len(t) /\ t[k] = s[k]
  PROVE  d \in 1..Len(t) /\ t[d] <= s[d]
<1>1. DOMAIN s = 1..Len(s) /\ DOMAIN t = 1..Len(t) /\ s[d] \in Nat
  OBVIOUS
<1>6. s[d] \in ToSet(s)
  BY <1>1 DEF ToSet
<1>2. PICK m \in 1..Len(t) : t[m] = s[d]
  BY <1>1, <1>6 DEF ToSet
<1>3. ~(m < d)
  <2> SUFFICES ASSUME m < d PROVE FALSE
    OBVIOUS
  <2>1. m \in 1..(d - 1) /\ m \in 1..Len(s)
    OBVIOUS
  <2>2. s[m] = s[d] /\ s[m] < s[d]
    BY <1>2, <2>1 DEF Increasing
  <2> QED
    BY <1>1, <2>2
<1>4. d \in 1..Len(t) /\ (m = d \/ d < m)
  BY <1>3
<1>5. t[d] \in Nat /\ (d < m => t[d] < t[m])
  BY <1>4 DEF Increasing
<1> QED
  BY <1>1, <1>2, <1>4, <1>5

\* Sorted sequences with the same elements are equal.
LEMMA SameElements ==
  ASSUME NEW s \in Seq(Nat), NEW t \in Seq(Nat), Increasing(s), Increasing(t), ToSet(s) = ToSet(t)
  PROVE  s = t
<1> DEFINE Same(n) == n \in 1..Len(s) /\ n \in 1..Len(t) /\ s[n] = t[n]
           D == {n \in Nat : (n \in 1..Len(s) \/ n \in 1..Len(t)) /\ ~Same(n)}
<1>1. D = {}
  <2> SUFFICES ASSUME D # {} PROVE FALSE
    OBVIOUS
  <2>1. D \in SUBSET Nat
    OBVIOUS
  <2> HIDE DEF D
  <2>2. PICK d \in D : \A m \in D : d <= m
    BY <2>1, LeastNat
  <2>3. d \in Nat /\ (d \in 1..Len(s) \/ d \in 1..Len(t)) /\ ~Same(d)
    BY <2>2 DEF D
  <2>4. \A k \in 1..(d - 1) : Same(k)
    <3> SUFFICES ASSUME NEW k \in 1..(d - 1), ~Same(k) PROVE FALSE
      OBVIOUS
    <3>1. k \in Nat /\ k < d /\ (k \in 1..Len(s) \/ k \in 1..Len(t))
      BY <2>3
    <3>2. k \in D
      BY <3>1 DEF D
    <3> QED
      BY <2>2, <2>3, <3>1, <3>2
  <2>5. d \in 1..Len(s) => d \in 1..Len(t) /\ t[d] <= s[d]
    BY <2>4, NextElement
  <2>6. d \in 1..Len(t) => d \in 1..Len(s) /\ s[d] <= t[d]
    BY <2>4, NextElement
  <2>7. d \in 1..Len(s) /\ d \in 1..Len(t) /\ t[d] \in Nat /\ s[d] \in Nat
    BY <2>3, <2>5, <2>6
  <2> QED
    BY <2>3, <2>5, <2>6, <2>7
<1>2. \A n \in Nat : n \in 1..Len(s) \/ n \in 1..Len(t) => Same(n)
  BY <1>1
<1>3. Len(s) = Len(t) /\ Len(s) \in Nat /\ Len(t) \in Nat
  <2>1. Len(s) \in Nat /\ Len(t) \in Nat
    OBVIOUS
  <2>2. Len(s) > 0 => Len(s) \in 1..Len(s)
    BY <2>1
  <2>3. Len(t) > 0 => Len(t) \in 1..Len(t)
    BY <2>1
  <2>4. Len(s) > 0 => Len(s) \in 1..Len(t)
    BY <1>2, <2>1, <2>2
  <2>5. Len(t) > 0 => Len(t) \in 1..Len(s)
    BY <1>2, <2>1, <2>3
  <2> QED
    BY <2>1, <2>4, <2>5
<1>4. \A n \in 1..Len(s) : s[n] = t[n]
  BY <1>2, <1>3
<1> QED
  BY <1>3, <1>4

-----------------------------------------------------------------------------
(* What the instructions of a body stand for *)

\* What each instruction stands for: itself, what it was put in the place of, or 0.
\* A body stands for a set of instructions if it has each of them once, in order.
Stands(b, org, S) ==
  /\ \A n \in 1..Len(b) : b[n] \in DOMAIN org
  /\ \A m, n \in 1..Len(b) : m < n /\ org[b[m]] # 0 /\ org[b[n]] # 0 => org[b[m]] < org[b[n]]
  /\ \A n \in 1..Len(b) : org[b[n]] # 0 => org[b[n]] \in S
  /\ \A y \in S : \E n \in 1..Len(b) : org[b[n]] = y

\* An edited body: from says where its elements were, and 0 for new ones.
Carries(b, c, org, org2, lost, from) ==
  /\ from \in [1..Len(c) -> 0..Len(b)]
  /\ \A n \in 1..Len(c) :
       c[n] \in DOMAIN org2 /\ org2[c[n]] = IF from[n] = 0 THEN 0 ELSE org[b[from[n]]]
  /\ \A m, n \in 1..Len(c) : m < n /\ from[m] # 0 /\ from[n] # 0 => from[m] < from[n]
  /\ \A n \in 1..Len(c) : from[n] # 0 => org[b[from[n]]] \notin lost \/ org[b[from[n]]] = 0
  /\ \A m \in 1..Len(b) : org[b[m]] # 0 => org[b[m]] \in lost \/ \E n \in 1..Len(c) : from[n] = m

\* An edited body stands for what the old one stood for, without what is lost.
LEMMA Carry ==
  ASSUME NEW b \in Seq(Nat), NEW c \in Seq(Nat), NEW org, NEW org2, NEW S \in SUBSET (Nat \ {0}),
         NEW lost, NEW from, Stands(b, org, S), Carries(b, c, org, org2, lost, from)
  PROVE  Stands(c, org2, S \ lost)
<1> USE DEF Carries
<1>1. \A n \in 1..Len(c) : org2[c[n]] # 0 =>
        from[n] \in 1..Len(b) /\ org2[c[n]] = org[b[from[n]]] /\ org[b[from[n]]] # 0
  <2> SUFFICES ASSUME NEW n \in 1..Len(c), org2[c[n]] # 0
               PROVE  from[n] \in 1..Len(b) /\ org2[c[n]] = org[b[from[n]]] /\ org[b[from[n]]] # 0
    OBVIOUS
  <2>1. from[n] \in 0..Len(b) /\ org2[c[n]] = IF from[n] = 0 THEN 0 ELSE org[b[from[n]]]
    OBVIOUS
  <2>2. from[n] # 0
    BY <2>1
  <2> QED
    BY <2>1, <2>2
<1>2. \A m, n \in 1..Len(c) : m < n /\ org2[c[m]] # 0 /\ org2[c[n]] # 0 => org2[c[m]] < org2[c[n]]
  <2> SUFFICES ASSUME NEW m \in 1..Len(c), NEW n \in 1..Len(c), m < n, org2[c[m]] # 0, org2[c[n]] # 0
               PROVE  org2[c[m]] < org2[c[n]]
    OBVIOUS
  <2>1. from[m] \in 1..Len(b) /\ from[n] \in 1..Len(b) /\ from[m] # 0 /\ from[n] # 0
    BY <1>1
  <2>2. from[m] < from[n]
    BY <2>1
  <2>3. org[b[from[m]]] < org[b[from[n]]]
    BY <1>1, <2>1, <2>2 DEF Stands
  <2> QED
    BY <1>1, <2>3
<1>3. \A n \in 1..Len(c) : org2[c[n]] # 0 => org2[c[n]] \in S \ lost
  BY <1>1 DEF Stands
<1>4. ASSUME NEW y \in S \ lost PROVE \E n \in 1..Len(c) : org2[c[n]] = y
  <2>1. PICK m \in 1..Len(b) : org[b[m]] = y
    BY DEF Stands
  <2>2. y # 0 /\ m # 0
    OBVIOUS
  <2>3. PICK n \in 1..Len(c) : from[n] = m
    BY <2>1, <2>2
  <2> QED
    BY <2>1, <2>2, <2>3
<1> QED
  BY <1>2, <1>3, <1>4 DEF Stands
-----------------------------------------------------------------------------
(* The edits of a body *)

\* org2 says more than org, of instructions that are newer.
Widened(org, org2) == DOMAIN org \subseteq DOMAIN org2 /\ \A x \in DOMAIN org : org2[x] = org[x]

\* An instruction replaced by one that stands for the same.
LEMMA StandsReplace ==
  ASSUME NEW b \in Seq(Nat), NEW org, NEW org2, NEW S \in SUBSET (Nat \ {0}), Stands(b, org, S),
         Widened(org, org2), NEW p \in 1..Len(b), NEW new \in Nat, new \in DOMAIN org2,
         org2[new] = org[b[p]], NEW c \in Seq(Nat), c = ReplaceAt(b, p, new)
  PROVE  Stands(c, org2, S)
<1>1. c = [b EXCEPT ![p] = new] /\ Len(c) = Len(b) /\ Len(b) \in Nat
  BY DEF ReplaceAt
<1>2. \A n \in 1..Len(b) : c[n] = IF n = p THEN new ELSE b[n]
  BY <1>1
<1> DEFINE from == [n \in 1..Len(c) |-> n]
<1>3. from \in [1..Len(c) -> 0..Len(b)] /\ \A n \in 1..Len(c) : from[n] = n /\ from[n] # 0
  BY <1>1
<1> HIDE DEF from
<1>4. \A n \in 1..Len(c) :
        c[n] \in DOMAIN org2 /\ org2[c[n]] = IF from[n] = 0 THEN 0 ELSE org[b[from[n]]]
  BY <1>1, <1>2, <1>3 DEF Stands, Widened
<1>5. \A m, n \in 1..Len(c) : m < n /\ from[m] # 0 /\ from[n] # 0 => from[m] < from[n]
  BY <1>3
<1>6. \A m \in 1..Len(b) : \E n \in 1..Len(c) : from[n] = m
  BY <1>1, <1>3
<1> DEFINE lost == {}
<1>7. /\ \A n \in 1..Len(c) : from[n] # 0 => org[b[from[n]]] \notin lost \/ org[b[from[n]]] = 0
      /\ \A m \in 1..Len(b) : org[b[m]] # 0 => org[b[m]] \in lost \/ \E n \in 1..Len(c) : from[n] = m
      /\ S \ lost = S
  BY <1>6
<1> HIDE DEF lost
<1>9. Carries(b, c, org, org2, lost, from)
  BY <1>3, <1>4, <1>5, <1>7 DEF Carries
<1>8. Stands(c, org2, S \ lost)
  BY <1>9, Carry
<1> QED
  BY <1>7, <1>8

\* An instruction removed: the body no longer stands for what it stood for.
LEMMA StandsRemove ==
  ASSUME NEW b \in Seq(Nat), NEW org, NEW S \in SUBSET (Nat \ {0}), Stands(b, org, S),
         NEW p \in 1..Len(b), NEW c \in Seq(Nat), c = RemoveAt(b, p)
  PROVE  Stands(c, org, S \ {org[b[p]]})
<1>1. /\ Len(c) = Len(b) - 1 /\ Len(b) \in Nat
      /\ \A k \in 1..(p - 1) : c[k] = b[k]
      /\ \A k \in p..(Len(b) - 1) : c[k] = b[k + 1]
  <2> DEFINE t == RemoveAt(b, p)
  <2>1. /\ Len(t) = Len(b) - 1
        /\ \A k \in 1..(p - 1) : t[k] = b[k]
        /\ \A k \in p..(Len(b) - 1) : t[k] = b[k + 1]
    BY RemoveAtFacts
  <2> HIDE DEF t
  <2>2. c = t
    BY DEF t
  <2>3. Len(b) \in Nat
    OBVIOUS
  <2> QED
    BY ONLY <2>1, <2>2, <2>3
<1> DEFINE from == [n \in 1..Len(c) |-> IF n < p THEN n ELSE n + 1]
<1>3. \A n \in 1..Len(c) : /\ from[n] = IF n < p THEN n ELSE n + 1
                           /\ from[n] \in 1..Len(b) /\ from[n] # 0 /\ from[n] # p
  <2> SUFFICES ASSUME NEW n \in 1..Len(c)
               PROVE  (IF n < p THEN n ELSE n + 1) \in 1..Len(b) /\ (IF n < p THEN n ELSE n + 1) # p
    OBVIOUS
  <2>1. n \in 1..(Len(b) - 1)
    BY <1>1
  <2> QED
    BY <1>1, <2>1
<1>2. from \in [1..Len(c) -> 0..Len(b)]
  BY <1>3
<1> HIDE DEF from
<1>4. \A n \in 1..Len(c) : c[n] = b[from[n]]
  <2> SUFFICES ASSUME NEW n \in 1..Len(c) PROVE c[n] = b[from[n]]
    OBVIOUS
  <2>1. CASE n < p
    <3>1. n \in 1..(p - 1)
      BY <2>1
    <3> QED
      BY <1>1, <1>3, <2>1, <3>1
  <2>2. CASE ~(n < p)
    <3>1. n \in p..(Len(b) - 1)
      BY <1>1, <2>2
    <3> QED
      BY <1>1, <1>3, <2>2, <3>1
  <2> QED
    BY <2>1, <2>2
<1>5. \A n \in 1..Len(c) :
        c[n] \in DOMAIN org /\ org[c[n]] = IF from[n] = 0 THEN 0 ELSE org[b[from[n]]]
  BY <1>3, <1>4 DEF Stands
<1>6. \A m, n \in 1..Len(c) : m < n /\ from[m] # 0 /\ from[n] # 0 => from[m] < from[n]
  <2> SUFFICES ASSUME NEW m \in 1..Len(c), NEW n \in 1..Len(c), m < n PROVE from[m] < from[n]
    OBVIOUS
  <2>1. /\ from[m] = IF m < p THEN m ELSE m + 1
        /\ from[n] = IF n < p THEN n ELSE n + 1
        /\ m \in Nat /\ n \in Nat /\ p \in Nat
    BY <1>3
  <2> QED
    BY <2>1
<1>7. \A m \in 1..Len(b) : m # p => \E n \in 1..Len(c) : from[n] = m
  <2> SUFFICES ASSUME NEW m \in 1..Len(b), m # p PROVE \E n \in 1..Len(c) : from[n] = m
    OBVIOUS
  <2>1. CASE m < p
    <3>1. m \in 1..Len(c)
      BY <1>1, <2>1
    <3> QED
      BY <1>3, <2>1, <3>1
  <2>2. CASE ~(m < p)
    <3>1. m - 1 \in 1..Len(c) /\ ~(m - 1 < p) /\ (m - 1) + 1 = m
      BY <1>1, <2>2
    <3> QED
      BY <1>3, <3>1
  <2> QED
    BY <2>1, <2>2
<1>8. \A m \in 1..Len(b) : org[b[m]] # 0 =>
        org[b[m]] \in {org[b[p]]} \/ \E n \in 1..Len(c) : from[n] = m
  BY <1>7
<1>9. \A n \in 1..Len(c) : from[n] # 0 => org[b[from[n]]] \notin {org[b[p]]} \/ org[b[from[n]]] = 0
  <2> SUFFICES ASSUME NEW n \in 1..Len(c), org[b[from[n]]] = org[b[p]], org[b[p]] # 0 PROVE FALSE
    OBVIOUS
  <2>1. from[n] \in 1..Len(b) /\ (from[n] < p \/ p < from[n])
    BY <1>1, <1>3
  <2>2. org[b[p]] < org[b[p]]
    BY <2>1 DEF Stands
  <2> DEFINE y == org[b[p]]
  <2>3. y \in S
    BY DEF Stands
  <2>4. y < y
    BY <2>2
  <2> HIDE DEF y
  <2>5. y \in Nat
    BY <2>3
  <2> QED
    BY ONLY <2>4, <2>5
<1> DEFINE lost == {org[b[p]]}
<1>10. /\ \A n \in 1..Len(c) : from[n] # 0 => org[b[from[n]]] \notin lost \/ org[b[from[n]]] = 0
       /\ \A m \in 1..Len(b) : org[b[m]] # 0 => org[b[m]] \in lost \/ \E n \in 1..Len(c) : from[n] = m
  BY <1>8, <1>9
<1> HIDE DEF lost
<1>12. Carries(b, c, org, org, lost, from)
  BY <1>2, <1>5, <1>6, <1>10 DEF Carries
<1>11. Stands(c, org, S \ lost)
  BY <1>12, Carry
<1> QED
  BY <1>11 DEF lost
\* Where the elements of a sequence were before one was inserted at p.
Moved(p, size) == [n \in 1..(size + 1) |-> IF n < p THEN n ELSE IF n = p THEN 0 ELSE n - 1]

MovesOne(from, p, size) ==
  /\ from \in [1..(size + 1) -> 0..size]
  /\ \A n \in 1..(p - 1) : from[n] = n
  /\ from[p] = 0
  /\ \A n \in p..size : from[n + 1] = n
  /\ \A m, n \in 1..(size + 1) : m < n /\ from[m] # 0 /\ from[n] # 0 => from[m] < from[n]
  /\ \A m \in 1..size : \E n \in 1..(size + 1) : from[n] = m
  /\ \A n \in 1..(size + 1) : n \in 1..(p - 1) \/ n = p \/ \E k \in p..size : n = k + 1

\* Where the elements of a sequence were before an insertion.
LEMMA MovedFacts ==
  ASSUME NEW size \in Nat, NEW p \in 1..(size + 1)
  PROVE  MovesOne(Moved(p, size), p, size)
<1> DEFINE from == Moved(p, size)
<1>1. \A n \in 1..(size + 1) : from[n] = IF n < p THEN n ELSE IF n = p THEN 0 ELSE n - 1
  BY DEF Moved
<1>2. from \in [1..(size + 1) -> 0..size]
  <2>1. \A n \in 1..(size + 1) : (IF n < p THEN n ELSE IF n = p THEN 0 ELSE n - 1) \in 0..size
    OBVIOUS
  <2> QED
    BY <2>1 DEF Moved
<1> HIDE DEF from
<1>3. \A n \in 1..(p - 1) : from[n] = n
  BY <1>1
<1>4. from[p] = 0
  BY <1>1
<1>5. \A n \in p..size : from[n + 1] = n
  BY <1>1
<1>6. ASSUME NEW m \in 1..(size + 1), NEW n \in 1..(size + 1), m < n, from[m] # 0, from[n] # 0
      PROVE  from[m] < from[n]
  <2>1. /\ from[m] = IF m < p THEN m ELSE IF m = p THEN 0 ELSE m - 1
        /\ from[n] = IF n < p THEN n ELSE IF n = p THEN 0 ELSE n - 1
    BY <1>1
  <2> QED
    BY <1>6, <2>1
<1>7. ASSUME NEW m \in 1..size PROVE \E n \in 1..(size + 1) : from[n] = m
  <2>1. CASE m < p
    <3>1. m \in 1..(size + 1) /\ m \in 1..(p - 1)
      BY <2>1
    <3> QED
      BY <1>3, <3>1
  <2>2. CASE ~(m < p)
    <3>1. m + 1 \in 1..(size + 1) /\ m \in p..size
      BY <2>2
    <3> QED
      BY <1>5, <3>1
  <2> QED
    BY <2>1, <2>2
<1>8. ASSUME NEW n \in 1..(size + 1) PROVE n \in 1..(p - 1) \/ n = p \/ \E k \in p..size : n = k + 1
  <2>1. p < n => n - 1 \in p..size /\ n = (n - 1) + 1
    OBVIOUS
  <2> QED
    BY <2>1
<1> QED
  BY <1>2, <1>3, <1>4, <1>5, <1>6, <1>7, <1>8 DEF from, MovesOne

\* An instruction inserted that stands for none.
LEMMA StandsInsert ==
  ASSUME NEW b \in Seq(Nat), NEW org, NEW S \in SUBSET (Nat \ {0}), Stands(b, org, S),
         NEW p \in 1..(Len(b) + 1), NEW new \in Nat, new \in DOMAIN org, org[new] = 0,
         NEW c \in Seq(Nat), c = InsertAt(b, p, new)
  PROVE  Stands(c, org, S)
<1> DEFINE size == Len(b)
           from == Moved(p, size)
<1>1. /\ Len(c) = size + 1 /\ size \in Nat /\ p \in 1..(size + 1)
      /\ \A k \in 1..(p - 1) : c[k] = b[k]
      /\ c[p] = new
      /\ \A k \in p..size : c[k + 1] = b[k]
  <2> DEFINE t == InsertAt(b, p, new)
  <2>1. Widens(b, p, new, t)
    BY InsertAtFacts
  <2> HIDE DEF t
  <2>2. c = t
    BY DEF t
  <2> QED
    BY <2>1, <2>2 DEF Widens
<1>2. /\ from \in [1..(size + 1) -> 0..size]
      /\ \A n \in 1..(p - 1) : from[n] = n
      /\ from[p] = 0
      /\ \A n \in p..size : from[n + 1] = n
      /\ \A m, n \in 1..(size + 1) : m < n /\ from[m] # 0 /\ from[n] # 0 => from[m] < from[n]
      /\ \A m \in 1..size : \E n \in 1..(size + 1) : from[n] = m
      /\ \A n \in 1..(size + 1) : n \in 1..(p - 1) \/ n = p \/ \E k \in p..size : n = k + 1
  <2>1. MovesOne(from, p, size)
    BY <1>1, MovedFacts
  <2> HIDE DEF from
  <2> QED
    BY <2>1 DEF MovesOne
<1> HIDE DEF from
<1>3. \A n \in 1..size : b[n] \in DOMAIN org
  BY DEF Stands
<1>4. ASSUME NEW n \in 1..(size + 1)
      PROVE  c[n] \in DOMAIN org /\ org[c[n]] = IF from[n] = 0 THEN 0 ELSE org[b[from[n]]]
  <2>1. CASE n \in 1..(p - 1)
    <3>1. n \in 1..size /\ n # 0
      BY <1>1, <2>1
    <3> QED
      BY <1>1, <1>2, <1>3, <2>1, <3>1
  <2>2. CASE n = p
    BY <1>1, <1>2, <2>2
  <2>3. CASE \E k \in p..size : n = k + 1
    <3>1. PICK k \in p..size : n = k + 1
      BY <2>3
    <3>2. k \in 1..size /\ k # 0
      BY <1>1
    <3>3. c[n] = b[k] /\ from[n] = k
      BY <1>1, <1>2, <3>1
    <3> QED
      BY <1>3, <3>2, <3>3
  <2> QED
    BY <1>2, <2>1, <2>2, <2>3
<1> DEFINE lost == {}
<1>8. /\ \A n \in 1..Len(c) : from[n] # 0 => org[b[from[n]]] \notin lost \/ org[b[from[n]]] = 0
      /\ S \ lost = S
  OBVIOUS
<1> HIDE DEF lost
<1>9. Carries(b, c, org, org, lost, from)
  BY <1>1, <1>2, <1>4, <1>8 DEF Carries
<1>10. Stands(c, org, S \ lost)
  BY <1>9, Carry
<1> QED
  BY <1>8, <1>10

\* A call and a branch in the place of an invoke: the branch stands for it.
LEMMA StandsBranch ==
  ASSUME NEW b \in Seq(Nat), NEW org, NEW org2, NEW S \in SUBSET (Nat \ {0}), Stands(b, org, S),
         Widened(org, org2), NEW p \in 1..Len(b),
         NEW new \in Nat, new \in DOMAIN org2, org2[new] = 0,
         new + 1 \in DOMAIN org2, org2[new + 1] = org[b[p]],
         NEW a \in Seq(Nat), a = ReplaceAt(b, p, new),
         NEW c \in Seq(Nat), c = InsertAt(a, p + 1, new + 1)
  PROVE  Stands(c, org2, S)
<1> DEFINE size == Len(b)
           from == Moved(p, size)
<1>1. a = [b EXCEPT ![p] = new] /\ Len(a) = size /\ size \in Nat /\ p \in 1..size /\ p \in 1..(size + 1)
  BY DEF ReplaceAt
<1>2. \A n \in 1..size : a[n] = IF n = p THEN new ELSE b[n]
  BY <1>1
<1>3. /\ Len(c) = size + 1
      /\ \A k \in 1..p : c[k] = a[k]
      /\ c[p + 1] = new + 1
      /\ \A k \in (p + 1)..size : c[k + 1] = a[k]
  <2> DEFINE t == InsertAt(a, p + 1, new + 1)
  <2>1. p + 1 \in 1..(Len(a) + 1) /\ new + 1 \in Nat /\ (p + 1) - 1 = p
    BY <1>1
  <2>2. Widens(a, p + 1, new + 1, t)
    BY <2>1, InsertAtFacts
  <2> HIDE DEF t
  <2>3. c = t
    BY DEF t
  <2> QED
    BY <1>1, <2>1, <2>2, <2>3 DEF Widens
<1>4. /\ from \in [1..(size + 1) -> 0..size]
      /\ \A n \in 1..(p - 1) : from[n] = n
      /\ from[p] = 0
      /\ \A n \in p..size : from[n + 1] = n
      /\ \A m, n \in 1..(size + 1) : m < n /\ from[m] # 0 /\ from[n] # 0 => from[m] < from[n]
      /\ \A m \in 1..size : \E n \in 1..(size + 1) : from[n] = m
      /\ \A n \in 1..(size + 1) : n \in 1..(p - 1) \/ n = p \/ \E k \in p..size : n = k + 1
  <2>1. MovesOne(from, p, size)
    BY <1>1, MovedFacts
  <2> HIDE DEF from
  <2> QED
    BY <2>1 DEF MovesOne
<1> HIDE DEF from
<1>5. \A n \in 1..size : b[n] \in DOMAIN org2 /\ org2[b[n]] = org[b[n]]
  BY DEF Stands, Widened
<1>6. ASSUME NEW n \in 1..(size + 1)
      PROVE  c[n] \in DOMAIN org2 /\ org2[c[n]] = IF from[n] = 0 THEN 0 ELSE org[b[from[n]]]
  <2>1. CASE n \in 1..(p - 1)
    <3>1. n \in 1..size /\ n # 0 /\ n \in 1..p /\ n # p
      BY <1>1, <2>1
    <3>2. c[n] = b[n] /\ from[n] = n
      BY <1>2, <1>3, <1>4, <2>1, <3>1
    <3> QED
      BY <1>5, <3>1, <3>2
  <2>2. CASE n = p
    <3>1. n \in 1..p /\ n \in 1..size
      BY <1>1, <2>2
    <3>2. c[n] = new
      BY <1>2, <1>3, <2>2, <3>1
    <3> QED
      BY <1>4, <2>2, <3>2
  <2>3. CASE \E k \in p..size : n = k + 1
    <3>1. PICK k \in p..size : n = k + 1
      BY <2>3
    <3>2. k \in 1..size /\ k # 0 /\ (k # p => k \in (p + 1)..size)
      BY <1>1
    <3>3. from[n] = k
      BY <1>4, <3>1
    <3>4. CASE k = p
      BY <1>3, <3>1, <3>2, <3>3, <3>4
    <3>5. CASE k # p
      <4>1. c[n] = b[k]
        BY <1>2, <1>3, <3>1, <3>2, <3>5
      <4> QED
        BY <1>5, <3>2, <3>3, <4>1
    <3> QED
      BY <3>4, <3>5
  <2> QED
    BY <1>4, <2>1, <2>2, <2>3
<1> DEFINE lost == {}
<1>10. /\ \A n \in 1..Len(c) : from[n] # 0 => org[b[from[n]]] \notin lost \/ org[b[from[n]]] = 0
       /\ S \ lost = S
  OBVIOUS
<1> HIDE DEF lost
<1>11. Carries(b, c, org, org2, lost, from)
  BY <1>3, <1>4, <1>6, <1>10 DEF Carries
<1>12. Stands(c, org2, S \ lost)
  BY <1>11, Carry
<1> QED
  BY <1>10, <1>12
-----------------------------------------------------------------------------
(* What the instructions of the module stand for *)

\* Every function has its instructions, but for those that are gone, in their order.
Anchored(r, org, gone) ==
  /\ org \in [1..Len(r.op) -> 0..Total]
  /\ \A x \in 1..Total : org[x] = x
  /\ \A f \in 1..Len(program) : Stands(r.body[f], org, ToSet(Original(f)) \ gone)

\* The functions of the program have their instructions in order, and share none.
LEMMA OriginalSets ==
  ASSUME program \in Programs, NEW f \in 1..Len(program)
  PROVE  /\ Original(f) \in Seq(Nat) /\ Increasing(Original(f))
         /\ ToSet(Original(f)) \subseteq 1..Total
         /\ ToSet(Original(f)) \in SUBSET (Nat \ {0})
         /\ \A g \in 1..Len(program) : g # f => ToSet(Original(g)) \cap ToSet(Original(f)) = {}
<1>1. program \in Seq(Seq(Op)) /\ Total \in Nat /\ Len(program) \in Nat
  BY Sizes
<1>2. /\ Original(f) \in Seq(Nat) /\ Increasing(Original(f))
      /\ ToSet(Original(f)) = (Offset(program, f) + 1)..End(f)
      /\ Offset(program, f) \in Nat
  BY <1>1, NumberedFacts DEF Original, End
<1>3. End(f) \in 1..Total
  BY Sizes
<1>4. ToSet(Original(f)) \subseteq 1..Total
  <2> DEFINE first == Offset(program, f)
             last == End(f)
  <2>1. first \in Nat /\ last \in 1..Total /\ ToSet(Original(f)) = (first + 1)..last
    BY <1>2, <1>3
  <2> HIDE DEF first, last
  <2> QED
    BY <1>1, <2>1
<1>5. ASSUME NEW g \in 1..Len(program), g # f, NEW x \in ToSet(Original(g)), x \in ToSet(Original(f))
      PROVE  FALSE
  <2>1. x \in 1..Total
    BY <1>4, <1>5
  <2>2. g < f \/ f < g
    BY <1>5
  <2>3. x < x
    BY <1>1, <1>5, <2>2, FunctionsApart DEF Original
  <2> QED
    BY <2>1, <2>3
<1> QED
  BY <1>1, <1>2, <1>4, <1>5

\* Two places never have instructions that stand for the same one.
LEMMA OnlyPlace ==
  ASSUME program \in Programs, NEW r, Sound(r), NEW org, NEW gone, Anchored(r, org, gone),
         NEW f \in 1..Len(program), NEW n \in 1..Len(r.body[f]), org[r.body[f][n]] # 0,
         NEW g \in 1..Len(program), NEW m \in 1..Len(r.body[g]), org[r.body[g][m]] = org[r.body[f][n]]
  PROVE  g = f /\ m = n
<1> DEFINE y == org[r.body[f][n]]
<1>1. y \in ToSet(Original(f)) /\ y \in ToSet(Original(g))
  BY DEF Anchored, Stands
<1>2. g = f
  BY <1>1, OriginalSets
<1>3. y \in Nat
  BY <1>1, OriginalSets
<1>4. m < n => y < y
  BY <1>2 DEF Anchored, Stands
<1>5. n < m => y < y
  BY <1>2 DEF Anchored, Stands
<1> HIDE DEF y
<1>6. r.body[f] \in Seq(Nat)
  BY DEF Sound, IRType
<1>7. m \in Nat /\ n \in Nat
  BY <1>2, <1>6
<1> QED
  BY <1>2, <1>3, <1>4, <1>5, <1>7

\* The body of a function is replaced.
SetsBody(r, f, b, s) == s.body = [r.body EXCEPT ![f] = b]

\* The body of f becomes c, which lacks what is lost.
EditsBody(r, org, gone, f, c, s, org2, lost) ==
  /\ f \in 1..Len(program) /\ s.body = [r.body EXCEPT ![f] = c]
  /\ org2 \in [1..Len(s.op) -> 0..Total] /\ Widened(org, org2)
  /\ \A g \in 1..Len(program) : g # f => ToSet(Original(g)) \cap lost = {}
  /\ Stands(c, org2, (ToSet(Original(f)) \ gone) \ lost)

\* One body edited: the functions still have all their instructions but what is lost.
LEMMA EditAnchored ==
  ASSUME program \in Programs, NEW r, Sound(r), NEW org, NEW gone, Anchored(r, org, gone),
         NEW f, NEW s, NEW c, NEW org2, NEW lost, EditsBody(r, org, gone, f, c, s, org2, lost)
  PROVE  Anchored(s, org2, gone \union lost)
<1> USE DEF EditsBody
<1>1. \A x \in 1..Total : org2[x] = x
  <2>1. \A x \in 1..Total : x \in DOMAIN org
    <3>1. Total <= Len(r.op) /\ Total \in Nat /\ Len(r.op) \in Nat
      BY Sizes DEF Sound, IRType
    <3>2. DOMAIN org = 1..Len(r.op)
      BY DEF Anchored
    <3> QED
      BY <3>1, <3>2
  <2> QED
    BY <2>1 DEF Anchored, Widened
<1>2. f \in DOMAIN r.body /\ \A g \in 1..Len(program) : g \in DOMAIN r.body
  BY DEF Sound, IRType
<1>3. ASSUME NEW g \in 1..Len(program) PROVE Stands(s.body[g], org2, ToSet(Original(g)) \ (gone \union lost))
  <2>1. CASE g = f
    <3>1. (ToSet(Original(f)) \ gone) \ lost = ToSet(Original(f)) \ (gone \union lost)
      OBVIOUS
    <3>2. s.body[f] = c
      BY <1>2
    <3> QED
      BY <2>1, <3>1, <3>2
  <2>2. CASE g # f
    <3>1. s.body[g] = r.body[g]
      BY <1>2, <2>2
    <3>2. ToSet(Original(g)) \ (gone \union lost) = ToSet(Original(g)) \ gone
      BY <2>2
    <3>3. Stands(r.body[g], org, ToSet(Original(g)) \ gone)
      BY DEF Anchored
    <3>4. Stands(r.body[g], org2, ToSet(Original(g)) \ gone)
      BY <3>3 DEF Stands, Widened
    <3> QED
      BY <3>1, <3>2, <3>4
  <2> QED
    BY <2>1, <2>2
<1> QED
  BY <1>1, <1>3 DEF Anchored

\* Instructions are created, which are in no body yet.
Adds(r, ops, s) == s.body = r.body /\ s.op = r.op \o ops

\* What the instructions just created stand for.
Assigns(r, ops, vals, org2) == \A k \in 1..Len(ops) : org2[Len(r.op) + k] = vals[k]

\* New instructions can stand for anything as long as they are in no body.
LEMMA CreateAnchored ==
  ASSUME program \in Programs, NEW r, Sound(r), NEW org, NEW gone, Anchored(r, org, gone),
         NEW ops \in Seq(Op), NEW vals \in [1..Len(ops) -> 0..Total],
         NEW s, Adds(r, ops, s)
  PROVE  \E org2 : Anchored(s, org2, gone) /\ Widened(org, org2) /\ Assigns(r, ops, vals, org2)
<1> DEFINE size == Len(r.op)
           more == Len(ops)
           org2 == [x \in 1..(size + more) |-> IF x <= size THEN org[x] ELSE vals[x - size]]
<1>1. size \in Nat /\ more \in Nat /\ org \in [1..size -> 0..Total] /\ r.op \in Seq(Op)
  BY DEF Sound, IRType, Anchored
<1>2. Len(s.op) = size + more
  BY <1>1, ConcatProperties DEF Adds
<1> HIDE DEF size, more
<1>3. org2 \in [1..(size + more) -> 0..Total]
  <2>1. ASSUME NEW x \in 1..(size + more) PROVE (IF x <= size THEN org[x] ELSE vals[x - size]) \in 0..Total
    <3>1. CASE x <= size
      <4>1. x \in 1..size
        BY <1>1, <3>1
      <4> QED
        BY <1>1, <3>1, <4>1
    <3>2. CASE ~(x <= size)
      <4>1. x - size \in 1..more
        BY <1>1, <3>2
      <4> QED
        BY <3>2, <4>1 DEF more
    <3> QED
      BY <3>1, <3>2
  <2> QED
    BY <2>1
<1>4. Widened(org, org2)
  <2>1. \A x \in 1..size : x \in 1..(size + more) /\ x <= size
    BY <1>1
  <2> QED
    BY <1>1, <2>1 DEF Widened
<1>5. \A k \in 1..more : org2[size + k] = vals[k]
  <2> SUFFICES ASSUME NEW k \in 1..more PROVE org2[size + k] = vals[k]
    OBVIOUS
  <2>1. size + k \in 1..(size + more) /\ ~(size + k <= size) /\ (size + k) - size = k
    BY <1>1
  <2> QED
    BY <2>1
<1> HIDE DEF org2
<1>6. Anchored(s, org2, gone)
  <2>1. \A x \in 1..Total : x \in 1..size
    <3>1. Total <= size /\ Total \in Nat
      BY Sizes DEF Sound, size
    <3> QED
      BY <1>1, <3>1
  <2>2. \A x \in 1..Total : org2[x] = x
    BY <1>1, <1>4, <2>1 DEF Anchored, Widened
  <2>3. ASSUME NEW f \in 1..Len(program) PROVE Stands(s.body[f], org2, ToSet(Original(f)) \ gone)
    <3>1. Stands(r.body[f], org, ToSet(Original(f)) \ gone)
      BY DEF Anchored
    <3>2. s.body = r.body
      BY DEF Adds
    <3> QED
      BY <1>4, <3>1, <3>2 DEF Stands, Widened
  <2> QED
    BY <1>2, <1>3, <2>2, <2>3 DEF Anchored
<1> QED
  BY <1>4, <1>5, <1>6 DEF size, more, Assigns

\* Where an instruction is, as the edits use it.
PlaceOf(r, inst, f, n) ==
  /\ f \in 1..Len(program) /\ n \in 1..Len(r.body[f]) /\ r.body[f][n] = inst

\* The edit of ReplaceInstWithInst.
LEMMA ReplaceAnchored ==
  ASSUME program \in Programs, NEW r, Sound(r), NEW org, NEW gone, Anchored(r, org, gone),
         NEW inst, NEW f, NEW n, PlaceOf(r, inst, f, n), NEW new \in 1..Len(r.op), org[new] = org[inst],
         NEW s, Sound(s), s.op = r.op, SetsBody(r, f, ReplaceAt(r.body[f], n, new), s)
  PROVE  Anchored(s, org, gone)
<1> DEFINE b == r.body[f]
           c == ReplaceAt(b, n, new)
           S == ToSet(Original(f)) \ gone
<1>1. f \in 1..Len(program) /\ n \in 1..Len(b) /\ b[n] = inst /\ f \in DOMAIN r.body /\ b \in Seq(Nat)
  BY DEF PlaceOf, Sound, IRType
<1>2. s.body = [r.body EXCEPT ![f] = c]
  BY <1>1 DEF SetsBody
<1>3. c \in Seq(Nat)
  <2>1. s.body[f] \in Seq(Nat)
    BY <1>1 DEF Sound, IRType
  <2> QED
    BY <1>1, <1>2, <2>1
<1>4. /\ Stands(b, org, S) /\ S \in SUBSET (Nat \ {0}) /\ Widened(org, org)
      /\ new \in Nat /\ new \in DOMAIN org /\ org \in [1..Len(s.op) -> 0..Total]
  <2>1. ToSet(Original(f)) \in SUBSET (Nat \ {0})
    BY <1>1, OriginalSets
  <2>2. Stands(b, org, S) /\ org \in [1..Len(s.op) -> 0..Total] /\ new \in DOMAIN org
    BY <1>1 DEF Anchored
  <2> QED
    BY <2>1, <2>2 DEF Widened
<1> HIDE DEF b, c, S
<1>5. Stands(c, org, S)
  <2>1. c = ReplaceAt(b, n, new) /\ org[new] = org[b[n]]
    BY <1>1 DEF c
  <2> QED
    BY <1>1, <1>3, <1>4, <2>1, StandsReplace
<1> DEFINE lost == {}
<1>6. /\ \A g \in 1..Len(program) : g # f => ToSet(Original(g)) \cap lost = {}
      /\ (ToSet(Original(f)) \ gone) \ lost = S /\ gone \union lost = gone
  BY DEF S
<1> HIDE DEF lost
<1>7. Stands(c, org, (ToSet(Original(f)) \ gone) \ lost)
  BY <1>5, <1>6
<1>10. EditsBody(r, org, gone, f, c, s, org, lost)
  BY <1>1, <1>2, <1>4, <1>6, <1>7 DEF EditsBody
<1>8. Anchored(s, org, gone \union lost)
  BY <1>10, EditAnchored
<1> QED
  BY <1>6, <1>8

\* The edit of eraseFromParent.
LEMMA EraseAnchored ==
  ASSUME program \in Programs, NEW r, Sound(r), NEW org, NEW gone, Anchored(r, org, gone),
         NEW inst, NEW f, NEW n, PlaceOf(r, inst, f, n),
         NEW s, Sound(s), s.op = r.op, SetsBody(r, f, RemoveAt(r.body[f], n), s)
  PROVE  Anchored(s, org, gone \union {org[inst]})
<1> DEFINE b == r.body[f]
           c == RemoveAt(b, n)
           S == ToSet(Original(f)) \ gone
           lost == {org[inst]}
<1>1. f \in 1..Len(program) /\ n \in 1..Len(b) /\ b[n] = inst /\ f \in DOMAIN r.body /\ b \in Seq(Nat)
  BY DEF PlaceOf, Sound, IRType
<1>2. s.body = [r.body EXCEPT ![f] = c]
  BY <1>1 DEF SetsBody
<1>3. c \in Seq(Nat)
  <2>1. s.body[f] \in Seq(Nat)
    BY <1>1 DEF Sound, IRType
  <2> QED
    BY <1>1, <1>2, <2>1
<1>4. Stands(b, org, S) /\ S \in SUBSET (Nat \ {0}) /\ Widened(org, org) /\ org \in [1..Len(s.op) -> 0..Total]
  <2>1. ToSet(Original(f)) \in SUBSET (Nat \ {0})
    BY <1>1, OriginalSets
  <2>2. Stands(b, org, S) /\ org \in [1..Len(s.op) -> 0..Total]
    BY <1>1 DEF Anchored
  <2> QED
    BY <2>1, <2>2 DEF Widened
<1>5. \A g \in 1..Len(program) : g # f => ToSet(Original(g)) \cap lost = {}
  <2>1. org[inst] = 0 \/ org[inst] \in ToSet(Original(f))
    BY <1>1, <1>4 DEF Stands, S
  <2>2. \A g \in 1..Len(program) : ToSet(Original(g)) \in SUBSET (Nat \ {0})
    BY OriginalSets
  <2>3. \A g \in 1..Len(program) : g # f => ToSet(Original(g)) \cap ToSet(Original(f)) = {}
    BY <1>1, OriginalSets
  <2> QED
    BY <2>1, <2>2, <2>3
<1> HIDE DEF b, c, S, lost
<1>6. Stands(c, org, S \ lost)
  <2>1. c = RemoveAt(b, n) /\ lost = {org[b[n]]}
    BY <1>1 DEF c, lost
  <2>2. Stands(c, org, S \ {org[b[n]]})
    BY <1>1, <1>3, <1>4, <2>1, StandsRemove
  <2> QED
    BY <2>1, <2>2
<1>7. Stands(c, org, (ToSet(Original(f)) \ gone) \ lost)
  BY <1>6 DEF S
<1>10. EditsBody(r, org, gone, f, c, s, org, lost)
  BY <1>1, <1>2, <1>4, <1>5, <1>7 DEF EditsBody
<1>8. Anchored(s, org, gone \union lost)
  BY <1>10, EditAnchored
<1> QED
  BY <1>8 DEF lost

\* The edit of an insertion.
LEMMA InsertAnchored ==
  ASSUME program \in Programs, NEW r, Sound(r), NEW org, NEW gone, Anchored(r, org, gone),
         NEW f \in 1..Len(program), NEW n \in 1..(Len(r.body[f]) + 1),
         NEW new \in 1..Len(r.op), org[new] = 0,
         NEW s, Sound(s), s.op = r.op, SetsBody(r, f, InsertAt(r.body[f], n, new), s)
  PROVE  Anchored(s, org, gone)
<1> DEFINE b == r.body[f]
           c == InsertAt(b, n, new)
           S == ToSet(Original(f)) \ gone
           lost == {}
<1>1. n \in 1..(Len(b) + 1) /\ f \in DOMAIN r.body /\ b \in Seq(Nat)
  BY DEF Sound, IRType
<1>2. s.body = [r.body EXCEPT ![f] = c]
  BY <1>1 DEF SetsBody
<1>3. c \in Seq(Nat)
  <2>1. s.body[f] \in Seq(Nat)
    BY <1>1 DEF Sound, IRType
  <2> QED
    BY <1>1, <1>2, <2>1
<1>4. /\ Stands(b, org, S) /\ S \in SUBSET (Nat \ {0}) /\ Widened(org, org)
      /\ new \in Nat /\ new \in DOMAIN org /\ org \in [1..Len(s.op) -> 0..Total]
  <2>1. ToSet(Original(f)) \in SUBSET (Nat \ {0})
    BY <1>1, OriginalSets
  <2>2. Stands(b, org, S) /\ org \in [1..Len(s.op) -> 0..Total] /\ new \in DOMAIN org
    BY <1>1 DEF Anchored
  <2> QED
    BY <2>1, <2>2 DEF Widened
<1>5. /\ \A g \in 1..Len(program) : g # f => ToSet(Original(g)) \cap lost = {}
      /\ (ToSet(Original(f)) \ gone) \ lost = S /\ gone \union lost = gone
  OBVIOUS
<1> HIDE DEF b, c, S, lost
<1>6. Stands(c, org, S)
  <2>1. c = InsertAt(b, n, new)
    BY DEF c
  <2> QED
    BY <1>1, <1>3, <1>4, <2>1, StandsInsert
<1>7. Stands(c, org, (ToSet(Original(f)) \ gone) \ lost)
  BY <1>5, <1>6
<1>10. EditsBody(r, org, gone, f, c, s, org, lost)
  BY <1>1, <1>2, <1>4, <1>5, <1>7 DEF EditsBody
<1>8. Anchored(s, org, gone \union lost)
  BY <1>10, EditAnchored
<1> QED
  BY <1>5, <1>8

\* The edit of RemoveInvokeKeepBranch around a call: a call and a branch for an invoke.
LEMMA BranchAnchored ==
  ASSUME program \in Programs, NEW r, Sound(r), NEW org, NEW gone, Anchored(r, org, gone),
         NEW inst, NEW f, NEW n, PlaceOf(r, inst, f, n),
         NEW new, new \in 1..Len(r.op), org[new] = 0, new + 1 \in 1..Len(r.op), org[new + 1] = org[inst],
         NEW half, Sound(half), SetsBody(r, f, ReplaceAt(r.body[f], n, new), half),
         NEW s, Sound(s), s.op = r.op, SetsBody(half, f, InsertAt(half.body[f], n + 1, new + 1), s)
  PROVE  Anchored(s, org, gone)
<1> DEFINE b == r.body[f]
           a == ReplaceAt(b, n, new)
           c == InsertAt(a, n + 1, new + 1)
           S == ToSet(Original(f)) \ gone
           lost == {}
<1>1. f \in 1..Len(program) /\ n \in 1..Len(b) /\ b[n] = inst /\ f \in DOMAIN r.body /\ b \in Seq(Nat)
  <2> HIDE DEF b
  <2>1. r.body \in Seq(Seq(Nat)) /\ Len(r.body) = Len(program)
    BY DEF Sound, IRType
  <2>2. f \in 1..Len(program) /\ n \in 1..Len(r.body[f]) /\ r.body[f][n] = inst
    BY DEF PlaceOf
  <2> QED
    BY <2>1, <2>2 DEF b
<1>2. half.body[f] = a /\ s.body = [r.body EXCEPT ![f] = c]
  <2>1. half.body = [r.body EXCEPT ![f] = a]
    BY <1>1 DEF SetsBody
  <2>3. half.body[f] = a
    BY <1>1, <2>1
  <2>2. s.body = [half.body EXCEPT ![f] = c]
    BY <2>3 DEF SetsBody
  <2> HIDE DEF c, a
  <2> QED
    BY <1>1, <2>1, <2>2
<1>3. a \in Seq(Nat) /\ c \in Seq(Nat)
  <2>1. half.body[f] \in Seq(Nat) /\ s.body[f] \in Seq(Nat)
    BY <1>1 DEF Sound, IRType
  <2>2. s.body[f] = c
    BY <1>1, <1>2
  <2> HIDE DEF c, a
  <2> QED
    BY <1>2, <2>1, <2>2
<1>4. /\ Stands(b, org, S) /\ S \in SUBSET (Nat \ {0}) /\ Widened(org, org)
      /\ new \in Nat /\ new \in DOMAIN org /\ new + 1 \in DOMAIN org /\ org \in [1..Len(s.op) -> 0..Total]
  <2>1. ToSet(Original(f)) \in SUBSET (Nat \ {0})
    BY <1>1, OriginalSets
  <2>2. /\ Stands(b, org, S) /\ org \in [1..Len(s.op) -> 0..Total]
        /\ new \in DOMAIN org /\ new + 1 \in DOMAIN org
    BY <1>1 DEF Anchored
  <2> QED
    BY <2>1, <2>2 DEF Widened
<1>5. /\ \A g \in 1..Len(program) : g # f => ToSet(Original(g)) \cap lost = {}
      /\ (ToSet(Original(f)) \ gone) \ lost = S /\ gone \union lost = gone
  OBVIOUS
<1>9. a = ReplaceAt(b, n, new) /\ c = InsertAt(a, n + 1, new + 1)
  OBVIOUS
<1> HIDE DEF b, a, c, S, lost
<1>6. Stands(c, org, S)
  BY <1>1, <1>3, <1>4, <1>9, StandsBranch
<1>7. Stands(c, org, (ToSet(Original(f)) \ gone) \ lost)
  BY <1>5, <1>6
<1>10. EditsBody(r, org, gone, f, c, s, org, lost)
  BY <1>1, <1>2, <1>4, <1>5, <1>7 DEF EditsBody
<1>8. Anchored(s, org, gone \union lost)
  BY <1>10, EditAnchored
<1> QED
  BY <1>5, <1>8
-----------------------------------------------------------------------------
(* What occurs in the module *)

\* The calls that left no instruction in their place.
Lost(r) ==
  IF Mode("rm") \/ Mode("shift")
  THEN {x \in r.freed \cap (1..Total) : ~IsTerminator(OriginalOp[x])} ELSE {}

\* What is in a body was not erased, or stands for what was, and ends a block if that did.
Accounted(r, org, x) ==
  /\ x \in 1..Total => x \notin r.freed
  /\ x \notin 1..Total /\ org[x] # 0 => org[x] \in r.freed
  /\ IsTerminator(r.op[x]) <=> org[x] # 0 /\ IsTerminator(OriginalOp[org[x]])
  /\ Mode("rm") /\ x \notin 1..Total => org[x] # 0 /\ r.op[x] = Branch
  /\ Mode("swap") /\ x \notin 1..Total =>
       /\ org[x] # 0
       /\ \E other \in Partners(org[x]) : r.op[x] = InPlaceOf(OriginalOp[other], OriginalOp[org[x]])
Content(r, org) ==
  /\ \A x \in 1..Total : r.op[x] = OriginalOp[x]
  /\ \A x : Occurs(r, x) => Accounted(r, org, x)

Tracked(r, org) == Anchored(r, org, Lost(r)) /\ Content(r, org)

\* What an instruction stands for is not gone, and no other instruction stands for it.
LEMMA NotBoth ==
  ASSUME program \in Programs, NEW r, Sound(r), NEW org, NEW gone, Anchored(r, org, gone),
         NEW x, Occurs(r, x), org[x] # 0
  PROVE  /\ org[x] \notin gone
         /\ \A y : Occurs(r, y) /\ org[y] = org[x] => y = x
<1>1. Len(r.body) = Len(program)
  BY DEF Sound
<1>2. PICK f \in 1..Len(program) : \E n \in 1..Len(r.body[f]) : r.body[f][n] = x
  BY <1>1 DEF Occurs
<1>3. PICK n \in 1..Len(r.body[f]) : r.body[f][n] = x
  BY <1>2
<1>4. org[x] \notin gone
  BY <1>3 DEF Anchored, Stands
<1>5. ASSUME NEW y, Occurs(r, y), org[y] = org[x] PROVE y = x
  <2>1. PICK g \in 1..Len(program) : \E m \in 1..Len(r.body[g]) : r.body[g][m] = y
    BY <1>1, <1>5 DEF Occurs
  <2>2. PICK m \in 1..Len(r.body[g]) : r.body[g][m] = y
    BY <2>1
  <2>4. org[r.body[f][n]] # 0 /\ org[r.body[g][m]] = org[r.body[f][n]]
    BY <1>3, <1>5, <2>2
  <2>3. g = f /\ m = n
    BY <2>4, OnlyPlace
  <2> QED
    BY <1>3, <2>2, <2>3
<1> QED
  BY <1>4, <1>5

\* What occurs was created, and stands for an instruction of the program or for none.
LEMMA OccurringKnown ==
  ASSUME NEW r, Sound(r), NEW org, NEW gone, Anchored(r, org, gone), NEW x, Occurs(r, x)
  PROVE  x \in 1..Len(r.op) /\ org[x] \in 0..Total
<1>1. Len(r.body) = Len(program)
  BY DEF Sound
<1>2. PICK f \in 1..Len(program) : \E n \in 1..Len(r.body[f]) : r.body[f][n] = x
  BY <1>1 DEF Occurs
<1>3. x \in DOMAIN org
  BY <1>2 DEF Anchored, Stands
<1> QED
  BY <1>3 DEF Anchored

\* What occurs once an instruction was replaced.
LEMMA OccursAfterReplace ==
  ASSUME NEW r, Sound(r), NEW f \in 1..Len(program), NEW n, NEW new, NEW s,
         SetsBody(r, f, ReplaceAt(r.body[f], n, new), s), NEW x, Occurs(s, x)
  PROVE  x = new \/ Occurs(r, x)
<1>1. r.body \in Seq(Seq(Nat)) /\ f \in DOMAIN r.body /\ r.body[f] \in Seq(Nat)
  BY DEF Sound, IRType
<1> DEFINE b == r.body[f]
           c == ReplaceAt(b, n, new)
<1>2. c = [b EXCEPT ![n] = new] /\ Len(c) = Len(b) /\ \A k \in 1..Len(b) : c[k] = new \/ c[k] = b[k]
  <2>1. c = [b EXCEPT ![n] = new]
    BY DEF ReplaceAt
  <2> HIDE DEF c
  <2> QED
    BY <1>1, <2>1
<1> HIDE DEF c, b
<1>3. s.body = [r.body EXCEPT ![f] = c]
  BY <1>1 DEF SetsBody, b, c
<1>4. Len(s.body) = Len(r.body) /\ \A g \in 1..Len(r.body) : s.body[g] = IF g = f THEN c ELSE r.body[g]
  BY <1>1, <1>3
<1>5. PICK g \in 1..Len(r.body) : \E m \in 1..Len(s.body[g]) : s.body[g][m] = x
  BY <1>4 DEF Occurs
<1>6. CASE g = f
  BY <1>2, <1>4, <1>5, <1>6 DEF Occurs, b
<1>7. CASE g # f
  BY <1>4, <1>5, <1>7 DEF Occurs
<1> QED
  BY <1>6, <1>7

\* What occurs once an instruction was erased.
LEMMA OccursAfterErase ==
  ASSUME NEW r, Sound(r), NEW f \in 1..Len(program), NEW n \in 1..Len(r.body[f]), NEW s,
         SetsBody(r, f, RemoveAt(r.body[f], n), s), NEW x, Occurs(s, x)
  PROVE  Occurs(r, x)
<1>1. r.body \in Seq(Seq(Nat)) /\ f \in DOMAIN r.body /\ r.body[f] \in Seq(Nat)
  BY DEF Sound, IRType
<1> DEFINE b == r.body[f]
           c == RemoveAt(b, n)
<1>2. Len(c) = Len(b) - 1 /\ \A k \in 1..Len(c) : \E m \in 1..Len(b) : c[k] = b[m]
  <2>2. b \in Seq(Nat) /\ n \in 1..Len(b) /\ Len(b) \in Nat
    BY <1>1
  <2> HIDE DEF b
  <2>1. /\ Len(c) = Len(b) - 1
        /\ \A k \in 1..(n - 1) : c[k] = b[k]
        /\ \A k \in n..(Len(b) - 1) : c[k] = b[k + 1]
    BY <2>2, RemoveAtFacts
  <2> HIDE DEF c
  <2>3. ASSUME NEW k \in 1..Len(c) PROVE \E m \in 1..Len(b) : c[k] = b[m]
    <3>1. CASE k < n
      <4>1. k \in 1..(n - 1) /\ k \in 1..Len(b)
        BY <2>1, <2>2, <3>1
      <4> QED
        BY <2>1, <4>1
    <3>2. CASE ~(k < n)
      <4>1. k \in n..(Len(b) - 1) /\ k + 1 \in 1..Len(b)
        BY <2>1, <2>2, <3>2
      <4> QED
        BY <2>1, <4>1
    <3> QED
      BY <3>1, <3>2
  <2> QED
    BY <2>1, <2>3
<1> HIDE DEF c, b
<1>3. s.body = [r.body EXCEPT ![f] = c]
  BY <1>1 DEF SetsBody, b, c
<1>4. Len(s.body) = Len(r.body) /\ \A g \in 1..Len(r.body) : s.body[g] = IF g = f THEN c ELSE r.body[g]
  BY <1>1, <1>3
<1>5. PICK g \in 1..Len(r.body) : \E m \in 1..Len(s.body[g]) : s.body[g][m] = x
  BY <1>4 DEF Occurs
<1>6. CASE g = f
  <2>1. PICK k \in 1..Len(c) : c[k] = x
    BY <1>4, <1>5, <1>6
  <2>2. PICK m \in 1..Len(r.body[f]) : r.body[f][m] = x
    BY <1>2, <2>1 DEF b
  <2> QED
    BY <1>5, <1>6, <2>2 DEF Occurs
<1>7. CASE g # f
  BY <1>4, <1>5, <1>7 DEF Occurs
<1> QED
  BY <1>6, <1>7

\* What occurs once an instruction was inserted.
LEMMA OccursAfterInsert ==
  ASSUME NEW r, Sound(r), NEW f \in 1..Len(program), NEW n \in 1..(Len(r.body[f]) + 1), NEW new \in Nat,
         NEW s, SetsBody(r, f, InsertAt(r.body[f], n, new), s), NEW x, Occurs(s, x)
  PROVE  x = new \/ Occurs(r, x)
<1>1. r.body \in Seq(Seq(Nat)) /\ f \in DOMAIN r.body /\ r.body[f] \in Seq(Nat)
  BY DEF Sound, IRType
<1> DEFINE b == r.body[f]
           c == InsertAt(b, n, new)
<1>2. Len(c) = Len(b) + 1 /\ \A k \in 1..Len(c) : c[k] = new \/ \E m \in 1..Len(b) : c[k] = b[m]
  <2>1. Widens(b, n, new, c)
    BY <1>1, InsertAtFacts
  <2> HIDE DEF c
  <2>2. b \in Seq(Nat) /\ n \in 1..(Len(b) + 1) /\ Len(b) \in Nat
    BY <1>1
  <2> HIDE DEF b
  <2>3. ASSUME NEW k \in 1..Len(c) PROVE c[k] = new \/ \E m \in 1..Len(b) : c[k] = b[m]
    <3>1. CASE k < n
      <4>1. k \in 1..(n - 1) /\ k \in 1..Len(b)
        BY <2>1, <2>2, <3>1 DEF Widens
      <4> QED
        BY <2>1, <4>1 DEF Widens
    <3>2. CASE k = n
      BY <2>1, <3>2 DEF Widens
    <3>3. CASE n < k
      <4>1. k - 1 \in n..Len(b) /\ k - 1 \in 1..Len(b) /\ (k - 1) + 1 = k
        BY <2>1, <2>2, <3>3 DEF Widens
      <4>2. c[(k - 1) + 1] = b[k - 1]
        BY <2>1, <4>1 DEF Widens
      <4> QED
        BY <4>1, <4>2
    <3> QED
      BY <2>2, <3>1, <3>2, <3>3
  <2> QED
    BY <2>1, <2>3 DEF Widens
<1> HIDE DEF c, b
<1>3. s.body = [r.body EXCEPT ![f] = c]
  BY <1>1 DEF SetsBody, b, c
<1>4. Len(s.body) = Len(r.body) /\ \A g \in 1..Len(r.body) : s.body[g] = IF g = f THEN c ELSE r.body[g]
  BY <1>1, <1>3
<1>5. PICK g \in 1..Len(r.body) : \E m \in 1..Len(s.body[g]) : s.body[g][m] = x
  BY <1>4 DEF Occurs
<1>6. CASE g = f /\ x # new
  <2>1. PICK k \in 1..Len(c) : c[k] = x
    BY <1>4, <1>5, <1>6
  <2>2. PICK m \in 1..Len(r.body[f]) : r.body[f][m] = x
    BY <1>2, <1>6, <2>1 DEF b
  <2> QED
    BY <1>5, <1>6, <2>2 DEF Occurs
<1>7. CASE g # f
  BY <1>4, <1>5, <1>7 DEF Occurs
<1> QED
  BY <1>6, <1>7

-----------------------------------------------------------------------------
(* Edits that account for what they add *)

\* One module comes from another by edits that account for what they add.
Develops(r, org, s, org2) ==
  /\ Widened(org, org2)
  /\ \A x \in 1..Len(r.op) : s.op[x] = r.op[x]
  /\ r.freed \subseteq s.freed
  /\ \A x : Occurs(s, x) => \/ Accounted(s, org2, x)
                            \/ Occurs(r, x) /\ (x \in 1..Total => x \notin s.freed)

\* Edits that account for what they add keep every instruction accounted for.
LEMMA ContentStep ==
  ASSUME program \in Programs, NEW r, Sound(r), NEW org, NEW gone, Anchored(r, org, gone), Content(r, org),
         NEW s, NEW org2, Develops(r, org, s, org2)
  PROVE  Content(s, org2)
<1>1. \A x \in 1..Total : s.op[x] = OriginalOp[x]
  <2>1. Total <= Len(r.op) /\ Total \in Nat /\ Len(r.op) \in Nat
    BY Sizes DEF Sound, IRType
  <2>2. \A x \in 1..Total : x \in 1..Len(r.op)
    BY <2>1
  <2> QED
    BY <2>2 DEF Content, Develops
<1>2. ASSUME NEW x, Occurs(s, x) PROVE Accounted(s, org2, x)
  <2>1. CASE Accounted(s, org2, x)
    BY <2>1
  <2>2. CASE Occurs(r, x) /\ (x \in 1..Total => x \notin s.freed)
    <3>1. x \in 1..Len(r.op)
      BY <2>2, OccurringKnown
    <3>2. x \in DOMAIN org
      BY <3>1 DEF Anchored
    <3>3. org2[x] = org[x] /\ s.op[x] = r.op[x] /\ r.freed \subseteq s.freed
      BY <3>1, <3>2 DEF Develops, Widened
    <3>4. Accounted(r, org, x)
      BY <2>2 DEF Content
    <3> QED
      BY <2>2, <3>3, <3>4 DEF Accounted
  <2> QED
    BY <1>2, <2>1, <2>2 DEF Develops
<1> QED
  BY <1>1, <1>2 DEF Content

\* A call that leaves nothing when it is erased.
Removable(org, inst) ==
  \/ inst \in 1..Total /\ ~IsTerminator(OriginalOp[inst])
  \/ inst \notin 1..Total /\ org[inst] = 0

\* Erasing an instruction that may go: one that stood for none, or a call.
LEMMA EraseTracked ==
  ASSUME program \in Programs, NEW r, Sound(r), r.fault = "none", NEW org, Tracked(r, org),
         Mode("rm") \/ Mode("shift"),
         NEW inst, Mutable(r, inst), inst \notin r.freed, Removable(org, inst),
         NEW s, ErasesInst(r, inst, s)
  PROVE  Tracked(s, org)
<1> DEFINE f == FuncOf(r, inst)
           n == PosOf(r, inst)
<1>1. PlaceOf(r, inst, f, n) /\ f \in 1..Len(program) /\ n \in 1..Len(r.body[f])
  BY MutablePlace DEF PlaceOf
<1>2. /\ Sound(s) /\ s.op = r.op /\ s.freed = r.freed \union {inst}
      /\ SetsBody(r, f, RemoveAt(r.body[f], n), s)
  BY DEF ErasesInst, SetsBody
<1> HIDE DEF f, n
<1>3. Anchored(r, org, Lost(r)) /\ Content(r, org) /\ (inst \in 1..Total => org[inst] = inst)
  BY DEF Tracked, Anchored
<1>4. Anchored(s, org, Lost(r) \union {org[inst]})
  BY <1>1, <1>2, <1>3, EraseAnchored
<1>5. Anchored(s, org, Lost(s))
  <2>1. CASE inst \in 1..Total
    <3>1. Lost(s) = Lost(r) \union {org[inst]}
      BY <1>2, <1>3, <2>1 DEF Lost, Removable
    <3> QED
      BY <1>4, <3>1
  <2>2. CASE inst \notin 1..Total
    <3>1. Lost(s) = Lost(r) /\ org[inst] = 0
      BY <1>2, <2>2 DEF Lost, Removable
    <3>2. \A g \in 1..Len(program) : 0 \notin ToSet(Original(g))
      BY OriginalSets
    <3>3. \A g \in 1..Len(program) :
            ToSet(Original(g)) \ (Lost(r) \union {org[inst]}) = ToSet(Original(g)) \ Lost(s)
      BY <3>1, <3>2
    <3> QED
      BY <1>4, <3>3 DEF Anchored
  <2> QED
    BY <2>1, <2>2
<1>6. ASSUME NEW x, Occurs(s, x) PROVE Occurs(r, x) /\ (x \in 1..Total => x \notin s.freed)
  <2>1. Occurs(r, x)
    BY <1>1, <1>2, <1>6, OccursAfterErase
  <2>2. x \in 1..Total => x \notin r.freed
    BY <1>3, <2>1 DEF Content, Accounted
  <2>3. inst \in 1..Total => x # inst
    <3> SUFFICES ASSUME inst \in 1..Total, x = inst PROVE FALSE
      OBVIOUS
    <3>1. org[x] # 0
      BY <1>3
    <3> QED
      BY <1>2, <1>4, <1>6, <3>1, NotBoth
  <2> QED
    BY <1>2, <2>1, <2>2, <2>3
<1>7. Develops(r, org, s, org)
  BY <1>2, <1>6 DEF Develops, Widened
<1>8. Content(s, org)
  BY <1>3, <1>7, ContentStep
<1> QED
  BY <1>5, <1>8 DEF Tracked

\* What creating instructions adds to the module.
Grown(r, ops, s) ==
  /\ Len(s.op) = Len(r.op) + Len(ops) /\ Len(r.op) \in Nat /\ Len(ops) \in Nat
  /\ \A x \in 1..Len(r.op) : s.op[x] = r.op[x]
  /\ \A k \in 1..Len(ops) : s.op[Len(r.op) + k] = ops[k]

\* The instructions of a module once more were created.
LEMMA CreatedOps ==
  ASSUME NEW r, Sound(r), NEW ops \in Seq(Op), NEW s, Adds(r, ops, s)
  PROVE  Grown(r, ops, s)
<1>1. r.op \in Seq(Op)
  BY DEF Sound, IRType
<1> DEFINE t == r.op
           op == s.op
<1> HIDE DEF t, op
<1>2. t \in Seq(Op) /\ op = t \o ops
  BY <1>1 DEF t, op, Adds
<1>3. /\ Len(op) = Len(t) + Len(ops) /\ Len(t) \in Nat /\ Len(ops) \in Nat
      /\ \A x \in 1..(Len(t) + Len(ops)) : op[x] = IF x <= Len(t) THEN t[x] ELSE ops[x - Len(t)]
  BY <1>2, ConcatProperties
<1>4. \A x \in 1..Len(t) : op[x] = t[x]
  BY <1>3
<1>5. ASSUME NEW k \in 1..Len(ops) PROVE op[Len(t) + k] = ops[k]
  <2>1. Len(t) + k \in 1..(Len(t) + Len(ops)) /\ ~(Len(t) + k <= Len(t)) /\ (Len(t) + k) - Len(t) = k
    BY <1>3
  <2> QED
    BY <1>3, <2>1
<1> QED
  BY <1>3, <1>4, <1>5 DEF t, op, Grown

\* Creating instructions changes no body.
LEMMA CreateTracked ==
  ASSUME program \in Programs, NEW r, Sound(r), NEW org, Tracked(r, org),
         NEW ops \in Seq(Op), NEW vals \in [1..Len(ops) -> 0..Total],
         NEW s, Sound(s), Adds(r, ops, s), s.freed = r.freed
  PROVE  \E org2 : Tracked(s, org2) /\ Widened(org, org2) /\ Assigns(r, ops, vals, org2)
<1>1. Anchored(r, org, Lost(r)) /\ Content(r, org)
  BY DEF Tracked
<1>2. PICK org2 : Anchored(s, org2, Lost(r)) /\ Widened(org, org2) /\ Assigns(r, ops, vals, org2)
  BY <1>1, CreateAnchored
<1>3. Lost(s) = Lost(r)
  BY DEF Lost
<1>4. Grown(r, ops, s)
  BY CreatedOps
<1>5. \A x : Occurs(s, x) => Occurs(r, x)
  BY DEF Occurs, Adds
<1>6. Develops(r, org, s, org2)
  <2>1. \A x : Occurs(r, x) => (x \in 1..Total => x \notin s.freed)
    BY <1>1 DEF Content, Accounted
  <2>2. \A x \in 1..Len(r.op) : s.op[x] = r.op[x]
    BY <1>4 DEF Grown
  <2> QED
    BY <1>2, <1>5, <2>1, <2>2 DEF Develops
<1>7. Content(s, org2)
  BY <1>1, <1>6, ContentStep
<1>8. Tracked(s, org2)
  BY <1>2, <1>3, <1>7 DEF Tracked
<1> QED
  BY <1>2, <1>8

\* An instruction that can take the place of another.
FitsIn(r, org, new, inst) ==
  /\ new \in 1..Len(r.op) /\ new \notin 1..Total /\ org[new] = inst
  /\ IsTerminator(r.op[new]) <=> IsTerminator(OriginalOp[inst])
  /\ Mode("rm") => r.op[new] = Branch
  /\ Mode("rm") \/ Mode("shift") => IsTerminator(OriginalOp[inst])
  /\ Mode("swap") => \E other \in Partners(inst) : r.op[new] = InPlaceOf(OriginalOp[other], OriginalOp[inst])

\* Replacing an instruction of the program by one that can take its place.
LEMMA ReplaceTracked ==
  ASSUME program \in Programs, NEW r, Sound(r), r.fault = "none", NEW org, Tracked(r, org),
         NEW inst \in 1..Total, Mutable(r, inst), inst \notin r.freed,
         NEW new, FitsIn(r, org, new, inst),
         NEW s, Replaces(r, inst, new, s)
  PROVE  Tracked(s, org)
<1> DEFINE f == FuncOf(r, inst)
           n == PosOf(r, inst)
<1>1. PlaceOf(r, inst, f, n)
  BY MutablePlace DEF PlaceOf
<1>2. /\ Sound(s) /\ s.op = r.op /\ s.freed = r.freed \union {inst} /\ Occurs(s, new)
      /\ SetsBody(r, f, ReplaceAt(r.body[f], n, new), s)
  BY DEF Replaces, SetsBody
<1> HIDE DEF f, n
<1>3. Anchored(r, org, Lost(r)) /\ Content(r, org) /\ org[inst] = inst
  BY DEF Tracked, Anchored
<1>4. new \in 1..Len(r.op) /\ new \notin 1..Total /\ org[new] = inst
  BY DEF FitsIn
<1>5. Anchored(s, org, Lost(r))
  <2>1. org[new] = org[inst]
    BY <1>3, <1>4
  <2> QED
    BY <1>1, <1>2, <1>3, <1>4, <2>1, ReplaceAnchored
<1>6. Lost(s) = Lost(r)
  BY <1>2 DEF Lost, FitsIn
<1>7. Accounted(s, org, new)
  <2>1. org[new] # 0 /\ org[new] \in s.freed
    BY <1>2, <1>4
  <2> QED
    BY <1>2, <1>4, <2>1 DEF Accounted, FitsIn
<1>8. ASSUME NEW x, Occurs(s, x), x # new PROVE Occurs(r, x) /\ (x \in 1..Total => x \notin s.freed)
  <2>0. f \in 1..Len(program)
    BY <1>1 DEF PlaceOf
  <2>1. Occurs(r, x)
    BY <1>2, <1>8, <2>0, OccursAfterReplace
  <2>2. x \in 1..Total => x \notin r.freed
    BY <1>3, <2>1 DEF Content, Accounted
  <2>3. x # inst
    <3> SUFFICES ASSUME x = inst PROVE FALSE
      OBVIOUS
    <3>1. org[new] # 0 /\ org[x] = org[new]
      BY <1>3, <1>4
    <3> QED
      BY <1>2, <1>5, <1>8, <3>1, NotBoth
  <2> QED
    BY <1>2, <2>1, <2>2, <2>3
<1>9. Develops(r, org, s, org)
  <2>1. Widened(org, org) /\ r.freed \subseteq s.freed /\ \A x \in 1..Len(r.op) : s.op[x] = r.op[x]
    BY <1>2 DEF Widened
  <2> QED
    BY <1>7, <1>8, <2>1 DEF Develops
<1>10. Content(s, org)
  BY <1>3, <1>9, ContentStep
<1> QED
  BY <1>5, <1>6, <1>10 DEF Tracked

\* A branch takes the place of an invoke.
LEMMA EraseInvokeTracked ==
  ASSUME program \in Programs, NEW r, Sound(r), r.fault = "none", NEW org, Tracked(r, org),
         Mode("rm"), ~Mode("swap"),
         NEW inst \in 1..Total, Mutable(r, inst), inst \notin r.freed, OriginalOp[inst].invoke
  PROVE  \E org2 : Tracked(EraseInvoke(r, inst), org2)
<1> DEFINE ops == <<Branch>>
           created == CreateInsts(r, {inst}, ops)
           new == NewInst(r)
           vals == [k \in 1..Len(ops) |-> inst]
<1>1. EraseInvoke(r, inst) = ReplaceInst(created, inst, new)
  BY DEF EraseInvoke
<1>2. ops \in Seq(Op) /\ Len(ops) = 1 /\ ops[1] = Branch
  BY OpTypes DEF Branch, Op
<1>3. new = Len(r.op) + 1 /\ Len(r.op) \in Nat /\ new \in Nat /\ new \notin 1..Total
  <2>1. Total <= Len(r.op) /\ Total \in Nat /\ Len(r.op) \in Nat
    BY Sizes DEF Sound, IRType
  <2> QED
    BY <2>1 DEF NewInst
<1>4. vals \in [1..Len(ops) -> 0..Total] /\ vals[1] = inst
  BY <1>2, Sizes
<1> HIDE DEF ops, new, created, vals
<1>5. /\ Sound(created)
      /\ created = [body |-> r.body, op |-> r.op \o ops, freed |-> r.freed, fault |-> "none"]
  <2>1. CreatesInsts(r, {inst}, ops, created)
    BY <1>2, CreateInstsFacts DEF created
  <2> QED
    BY <2>1 DEF CreatesInsts
<1>6. created.freed = r.freed /\ created.fault = "none" /\ Adds(r, ops, created)
  BY <1>5 DEF Adds
<1>7. StaysPut(r, ops, inst, created)
  BY <1>2, <1>5, CreatedMutable
<1>8. Sound(created) /\ Mutable(created, inst) /\ ops \in Seq(Op)
  BY <1>2, <1>5, <1>7 DEF StaysPut
<1>9. PICK org2 : Tracked(created, org2) /\ Widened(org, org2) /\ Assigns(r, ops, vals, org2)
  BY <1>4, <1>6, <1>8, CreateTracked
<1>10. Grown(r, ops, created)
  BY <1>6, <1>8, CreatedOps
<1>11. FitsIn(created, org2, new, inst)
  <2>1. 1 \in 1..Len(ops)
    BY <1>2
  <2>2. org2[new] = inst /\ created.op[new] = Branch /\ new \in 1..Len(created.op)
    BY <1>2, <1>3, <1>4, <1>9, <1>10, <2>1 DEF Grown, Assigns
  <2> QED
    BY <1>3, <2>2 DEF FitsIn, IsTerminator, Branch
<1>12. Replaces(created, inst, new, ReplaceInst(created, inst, new))
  BY <1>3, <1>8, ReplaceInstFacts
<1>13. inst \notin created.freed
  BY <1>6
<1>14. Tracked(ReplaceInst(created, inst, new), org2)
  BY <1>6, <1>8, <1>9, <1>11, <1>12, <1>13, ReplaceTracked
<1> QED
  BY <1>1, <1>14
\* A call or an invoke of a pair is erased, if it has no unexpected uses.
LEMMA ErasedTracked ==
  ASSUME program \in Programs, NEW r, Sound(r), r.fault = "none", NEW org, Tracked(r, org),
         Mode("rm"), ~Mode("swap"),
         NEW inst \in 1..Total, OriginalOp[inst].callee # "branch", inst \notin r.freed
  PROVE  /\ \E org2 : Tracked(Erased(r, inst), org2)
         /\ Erased(r, inst).freed = IF HasUnexpectedUses(OriginalOp[inst]) THEN r.freed
                                    ELSE r.freed \union {inst}
<1>1. Mutable(r, inst)
  BY OriginalMutable
<1>2. r.op[inst] = OriginalOp[inst]
  BY DEF Tracked, Content
<1>3. CASE HasUnexpectedUses(OriginalOp[inst])
  BY <1>2, <1>3 DEF Erased
<1>4. CASE ~HasUnexpectedUses(OriginalOp[inst]) /\ OriginalOp[inst].invoke
  <2> DEFINE ops == <<Branch>>
             created == CreateInsts(r, {inst}, ops)
             new == NewInst(r)
  <2>1. Erased(r, inst) = EraseInvoke(r, inst) /\ EraseInvoke(r, inst) = ReplaceInst(created, inst, new)
    BY <1>2, <1>4 DEF Erased, EraseInvoke
  <2>2. ops \in Seq(Op) /\ new \in Nat
    BY OpTypes DEF Branch, Op, Sound, IRType, NewInst
  <2> HIDE DEF ops, new, created
  <2>3. Sound(created) /\ created.freed = r.freed /\ created.fault = "none" /\ Mutable(created, inst)
    <3>1. CreatesInsts(r, {inst}, ops, created)
      BY <2>2, CreateInstsFacts DEF created
    <3>2. /\ Sound(created)
          /\ created = [body |-> r.body, op |-> r.op \o ops, freed |-> r.freed, fault |-> "none"]
      BY <3>1 DEF CreatesInsts
    <3>3. StaysPut(r, ops, inst, created)
      BY <1>1, <2>2, <3>2, CreatedMutable
    <3> QED
      BY <3>2, <3>3 DEF StaysPut
  <2>4. Replaces(created, inst, new, ReplaceInst(created, inst, new))
    BY <2>2, <2>3, ReplaceInstFacts
  <2>5. ReplaceInst(created, inst, new).freed = r.freed \union {inst}
    BY <2>3, <2>4 DEF Replaces
  <2>6. \E org2 : Tracked(EraseInvoke(r, inst), org2)
    BY <1>1, <1>4, EraseInvokeTracked
  <2> QED
    BY <1>4, <2>1, <2>5, <2>6
<1>5. CASE ~HasUnexpectedUses(OriginalOp[inst]) /\ ~OriginalOp[inst].invoke
  <2>1. Erased(r, inst) = EraseInst(r, inst)
    BY <1>2, <1>5 DEF Erased
  <2>2. ErasesInst(r, inst, EraseInst(r, inst))
    BY <1>1, EraseInstFacts
  <2>3. EraseInst(r, inst).freed = r.freed \union {inst}
    BY <2>2 DEF ErasesInst
  <2>4. Removable(org, inst)
    BY <1>5 DEF Removable, IsTerminator
  <2>5. Tracked(EraseInst(r, inst), org)
    BY <1>1, <2>2, <2>4, EraseTracked
  <2> QED
    BY <1>5, <2>1, <2>3, <2>5
<1> QED
  BY <1>3, <1>4, <1>5

\* What instructions just created are, and what they stand for.
Creates(r, org, ops, vals, c) ==
  /\ Sound(c) /\ c.fault = "none" /\ c.freed = r.freed /\ c.body = r.body /\ Grown(r, ops, c)
  /\ \E org2 : Tracked(c, org2) /\ Widened(org, org2) /\ Assigns(r, ops, vals, org2)

\* Instructions created, before they are in any body.
LEMMA CreateInstsTracked ==
  ASSUME program \in Programs, NEW r, Sound(r), r.fault = "none", NEW org, Tracked(r, org),
         NEW insts, insts \cap r.freed = {}, NEW ops \in Seq(Op), NEW vals \in [1..Len(ops) -> 0..Total],
         NEW c, c = CreateInsts(r, insts, ops)
  PROVE  Creates(r, org, ops, vals, c)
<1>1. CreatesInsts(r, insts, ops, c)
  BY CreateInstsFacts
<1>2. Sound(c) /\ c = [body |-> r.body, op |-> r.op \o ops, freed |-> r.freed, fault |-> "none"]
  BY <1>1 DEF CreatesInsts
<1>3. c.body = r.body /\ c.freed = r.freed /\ c.fault = "none" /\ Adds(r, ops, c)
  BY <1>2 DEF Adds
<1>4. Sound(c)
  BY <1>2
<1>5. \E org2 : Tracked(c, org2) /\ Widened(org, org2) /\ Assigns(r, ops, vals, org2)
  BY <1>3, <1>4, CreateTracked
<1>6. Grown(r, ops, c)
  BY <1>3, CreatedOps
<1> QED
  BY <1>3, <1>4, <1>5, <1>6 DEF Creates
\* Two calls are exchanged: what is now in the place of one stands for it.
LEMMA SwapTracked ==
  ASSUME program \in Programs, NEW r, Sound(r), r.fault = "none", NEW org, Tracked(r, org),
         Mode("swap"), ~Mode("rm"), ~Mode("shift"),
         NEW a \in 1..Total, OriginalOp[a].callee # "branch", NEW b \in 1..Total, OriginalOp[b].callee # "branch",
         a # b, {a, b} \cap r.freed = {}, Swappable(OriginalOp[a], OriginalOp[b]),
         a \in Partners(b), b \in Partners(a)
  PROVE  LET s == SwapCallOrInvoke(r, a, b)
         IN  s.freed = r.freed \union {a, b} /\ \E org2 : Tracked(s, org2)
<1> DEFINE op1 == OriginalOp[a]
           op2 == OriginalOp[b]
           ops == <<InPlaceOf(op2, op1), InPlaceOf(op1, op2)>>
           new == NewInst(r)
           created == CreateInsts(r, {a, b}, ops)
           half == ReplaceInst(created, a, new)
           full == ReplaceInst(half, b, new + 1)
           vals == <<a, b>>
<1>1. /\ new = Len(r.op) + 1 /\ Len(r.op) \in Nat /\ new \in Nat /\ new + 1 \in Nat
      /\ new \notin 1..Total /\ new + 1 \notin 1..Total
  <2>1. Total <= Len(r.op) /\ Total \in Nat /\ Len(r.op) \in Nat
    BY Sizes DEF Sound, IRType
  <2> QED
    BY <2>1 DEF NewInst
<1>2. op1 = r.op[a] /\ op2 = r.op[b] /\ op1 \in Op /\ op2 \in Op
  <2>1. OriginalOp \in Seq(Op) /\ Len(OriginalOp) = Total
    BY OriginalOps
  <2> QED
    BY <2>1 DEF Tracked, Content
<1>3. SwapCallOrInvoke(r, a, b) = full
  BY <1>2 DEF SwapCallOrInvoke, Guarded
<1>4. ops \in Seq(Op) /\ Len(ops) = 2 /\ ops[1] = InPlaceOf(op2, op1) /\ ops[2] = InPlaceOf(op1, op2)
  <2>1. InPlaceOf(op2, op1) \in Op /\ InPlaceOf(op1, op2) \in Op
    BY <1>2, OpTypes
  <2> QED
    BY <2>1
<1>5. vals \in [1..Len(ops) -> 0..Total] /\ vals[1] = a /\ vals[2] = b
  BY <1>4, Sizes
<1>20. /\ IsTerminator(ops[1]) <=> IsTerminator(op1)
       /\ IsTerminator(ops[2]) <=> IsTerminator(op2)
  BY <1>2, <1>4 DEF IsTerminator, InPlaceOf, Op
<1> HIDE DEF ops, new, created, half, full, vals, op1, op2
<1>6. Creates(r, org, ops, vals, created)
  BY <1>4, <1>5, CreateInstsTracked DEF created
<1>7. PICK org2 : Tracked(created, org2) /\ Widened(org, org2) /\ Assigns(r, ops, vals, org2)
  BY <1>6 DEF Creates
<1>8. Sound(created) /\ created.fault = "none" /\ created.freed = r.freed
  BY <1>6 DEF Creates
<1>9. /\ created.op[new] = ops[1] /\ created.op[new + 1] = ops[2] /\ org2[new] = a /\ org2[new + 1] = b
      /\ new \in 1..Len(created.op) /\ new + 1 \in 1..Len(created.op)
  <2>1. 1 \in 1..Len(ops) /\ 2 \in 1..Len(ops) /\ new + 1 = Len(r.op) + 2
    BY <1>1, <1>4
  <2>2. /\ created.op[Len(r.op) + 1] = ops[1] /\ created.op[Len(r.op) + 2] = ops[2]
        /\ Len(created.op) = Len(r.op) + Len(ops)
    BY <1>6, <2>1 DEF Creates, Grown
  <2>3. org2[Len(r.op) + 1] = vals[1] /\ org2[Len(r.op) + 2] = vals[2]
    BY <1>7, <2>1 DEF Assigns
  <2> QED
    BY <1>1, <1>4, <1>5, <2>1, <2>2, <2>3
<1>10. Mutable(created, a) /\ a \notin created.freed
  BY <1>8, OriginalMutable
<1>11. FitsIn(created, org2, new, a)
  BY <1>1, <1>4, <1>9, <1>20 DEF FitsIn, op1, op2
<1>12. Replaces(created, a, new, half)
  BY <1>1, <1>8, <1>10, ReplaceInstFacts DEF half
<1>13. /\ Sound(half) /\ half.fault = "none" /\ half.op = created.op /\ half.freed = r.freed \union {a}
  BY <1>8, <1>10, <1>12 DEF Replaces
<1>14. Tracked(half, org2)
  BY <1>7, <1>8, <1>10, <1>11, <1>12, ReplaceTracked
<1>15. Mutable(half, b) /\ b \notin half.freed
  BY <1>13, OriginalMutable
<1>16. FitsIn(half, org2, new + 1, b)
  BY <1>1, <1>4, <1>9, <1>13, <1>20 DEF FitsIn, op1, op2
<1>17. Replaces(half, b, new + 1, full)
  BY <1>1, <1>13, <1>15, ReplaceInstFacts DEF full
<1>18. Tracked(full, org2)
  BY <1>13, <1>14, <1>15, <1>16, <1>17, ReplaceTracked
<1>19. full.freed = r.freed \union {a, b}
  BY <1>13, <1>15, <1>17 DEF Replaces
<1> QED
  BY <1>3, <1>18, <1>19

-----------------------------------------------------------------------------
(* The edits of -shift and -split *)

\* A new instruction that stands for none is inserted.
LEMMA InsertTracked ==
  ASSUME program \in Programs, NEW r, Sound(r), r.fault = "none", NEW org, Tracked(r, org),
         ~Mode("rm"), ~Mode("swap"), NEW f \in 1..Len(program), NEW p \in Nat \ {0}, p <= Len(r.body[f]),
         NEW new \in 1..Len(r.op), new \notin 1..Total, org[new] = 0, ~IsTerminator(r.op[new]),
         NEW s, Inserts(r, f, p, new, s)
  PROVE  Tracked(s, org)
<1>1. /\ Sound(s) /\ s.op = r.op /\ s.freed = r.freed
      /\ SetsBody(r, f, InsertAt(r.body[f], p, new), s)
  BY DEF Inserts, SetsBody
<1>2. new \in Nat /\ p \in 1..(Len(r.body[f]) + 1)
  <2>1. Len(r.body[f]) \in Nat
    BY DEF Sound, IRType
  <2> QED
    BY <2>1
<1>3. Anchored(r, org, Lost(r)) /\ Content(r, org)
  BY DEF Tracked
<1>4. Anchored(s, org, Lost(r))
  BY <1>1, <1>2, <1>3, InsertAnchored
<1>5. Lost(s) = Lost(r)
  BY <1>1 DEF Lost
<1>6. Accounted(s, org, new)
  BY <1>1 DEF Accounted
<1>7. ASSUME NEW x, Occurs(s, x), x # new PROVE Occurs(r, x) /\ (x \in 1..Total => x \notin s.freed)
  <2>1. Occurs(r, x)
    BY <1>1, <1>2, <1>7, OccursAfterInsert
  <2> QED
    BY <1>1, <1>3, <2>1 DEF Content, Accounted
<1>8. Develops(r, org, s, org)
  <2>1. Widened(org, org) /\ r.freed \subseteq s.freed /\ \A x \in 1..Len(r.op) : s.op[x] = r.op[x]
    BY <1>1 DEF Widened
  <2> QED
    BY <1>6, <1>7, <2>1 DEF Develops
<1>9. Content(s, org)
  BY <1>3, <1>8, ContentStep
<1> QED
  BY <1>4, <1>5, <1>9 DEF Tracked

\* What a new instruction is changes, not whether it ends a block.
Writes(r, new, op, s) ==
  /\ s.body = r.body /\ s.freed = r.freed /\ Len(s.op) = Len(r.op)
  /\ \A x \in 1..Len(r.op) : s.op[x] = IF x = new THEN op ELSE r.op[x]

\* A new call changed before it is moved, as by setCalledFunction.
LEMMA WriteTracked ==
  ASSUME program \in Programs, NEW r, Sound(r), NEW org, Tracked(r, org),
         ~Mode("rm"), ~Mode("swap"),
         NEW new \in 1..Len(r.op), new \notin 1..Total, org[new] = 0,
         NEW op, ~IsTerminator(op), NEW s, Writes(r, new, op, s)
  PROVE  Tracked(s, org)
<1>1. /\ s.body = r.body /\ s.freed = r.freed /\ Len(s.op) = Len(r.op)
      /\ \A x \in 1..Len(r.op) : s.op[x] = IF x = new THEN op ELSE r.op[x]
  BY DEF Writes
<1>2. Anchored(r, org, Lost(r)) /\ Content(r, org)
  BY DEF Tracked
<1>3. Anchored(s, org, Lost(s))
  BY <1>1, <1>2 DEF Anchored, Lost
<1>4. \A x \in 1..Total : s.op[x] = OriginalOp[x]
  <2>1. Total <= Len(r.op) /\ Total \in Nat /\ Len(r.op) \in Nat
    BY Sizes DEF Sound, IRType
  <2>2. \A x \in 1..Total : x \in 1..Len(r.op) /\ x # new
    BY <2>1
  <2> QED
    BY <1>1, <1>2, <2>2 DEF Content
<1>5. ASSUME NEW x, Occurs(s, x) PROVE Accounted(s, org, x)
  <2>1. Occurs(r, x)
    BY <1>1, <1>5 DEF Occurs
  <2>2. x \in 1..Len(r.op)
    BY <1>2, <2>1, OccurringKnown
  <2>3. Accounted(r, org, x)
    BY <1>2, <2>1 DEF Content
  <2>4. CASE x = new
    <3>1. s.op[x] = op
      BY <1>1, <2>2, <2>4
    <3> QED
      BY <2>4, <3>1 DEF Accounted
  <2>5. CASE x # new
    <3>1. s.op[x] = r.op[x]
      BY <1>1, <2>2, <2>5
    <3> QED
      BY <1>1, <2>3, <3>1 DEF Accounted
  <2> QED
    BY <2>4, <2>5
<1>6. Content(s, org)
  BY <1>4, <1>5 DEF Content
<1> QED
  BY <1>3, <1>6 DEF Tracked
\* A call is moved: the copy of it stands for none.
LEMMA ShiftCallInstTracked ==
  ASSUME program \in Programs, NEW r, Sound(r), r.fault = "none", NEW org, Tracked(r, org),
         Mode("shift"), ~Mode("rm"), ~Mode("swap"),
         NEW inst, Mutable(r, inst), inst \notin r.freed, Removable(org, inst), ~IsTerminator(r.op[inst]),
         NEW dir \in Int, dir # 0, dir # 1, ShiftCallInst(r, inst, dir).fault = "none"
  PROVE  LET s == ShiftCallInst(r, inst, dir)
             new == NewInst(r)
         IN  /\ Sound(s)
             /\ \E org2 : /\ Tracked(s, org2) /\ org2[new] = 0
                          /\ new \in 1..Len(s.op) /\ new \notin 1..Total
<1> DEFINE f      == FuncOf(r, inst)
           from   == PosOf(r, inst)
           size   == Len(r.body[f])
           to     == ShiftPlace(r, inst, dir)
           created == CreateCopies(r, <<inst>>)
           erased == EraseInst(created, inst)
           place  == IF to > from THEN to - 1 ELSE to
           new    == NewInst(r)
           moved  == InsertBefore(erased, f, place, new)
           s      == ShiftCallInst(r, inst, dir)
<1>1. s = IF to > size THEN [r EXCEPT !.fault = "end"]
          ELSE IF erased.fault # "none" THEN erased
          ELSE IF to = from THEN [erased EXCEPT !.fault = "dangling"] ELSE moved
  BY DEF ShiftCallInst, Guarded
<1>2. /\ f \in 1..Len(program) /\ r.body[f] \in Seq(Nat) /\ size \in Nat
      /\ from \in 1..(size - 1) /\ from \in 1..size
  BY MutablePlace
<1>3. to = IF dir < 0 THEN IF from + dir < 1 THEN 1 ELSE from + dir
           ELSE IF from + dir > size + 1 THEN size + 1 ELSE from + dir
  BY DEF ShiftPlace, RelativePlace
<1> DEFINE ops == [n \in 1..1 |-> r.op[<<inst>>[n]]]
           vals == [n \in 1..1 |-> 0]
<1>4. created = CreateInsts(r, {inst}, ops)
  <2>1. ToSet(<<inst>>) = {inst} /\ Len(<<inst>>) = 1
    BY DEF ToSet
  <2> QED
    BY <2>1 DEF CreateCopies, CreateInsts
<1>5. ops \in Seq(Op) /\ Len(ops) = 1 /\ ops[1] = r.op[inst]
  <2>1. r.op \in Seq(Op) /\ inst \in 1..Len(r.op)
    BY DEF Sound, IRType, Mutable
  <2>2. \A n \in 1..1 : r.op[<<inst>>[n]] \in Op
    BY <2>1
  <2>3. ops \in [1..1 -> Op] /\ ops[1] = r.op[inst]
    BY <2>2
  <2> HIDE DEF ops
  <2>4. 1 \in Nat
    OBVIOUS
  <2> QED
    BY <2>3, <2>4, AsSeq
<1>6. vals \in [1..Len(ops) -> 0..Total] /\ vals[1] = 0
  BY <1>5, Sizes
<1>7. new = Len(r.op) + 1 /\ Len(r.op) \in Nat /\ new \in Nat /\ new \notin 1..Total
  <2>1. Total <= Len(r.op) /\ Total \in Nat /\ Len(r.op) \in Nat
    BY Sizes DEF Sound, IRType
  <2> QED
    BY <2>1 DEF NewInst
<1> HIDE DEF ops, vals, new, created, erased, moved, f, from, size, to, place, s
<1>8. Creates(r, org, ops, vals, created)
  BY <1>4, <1>5, <1>6, CreateInstsTracked
<1>9. Sound(created) /\ created.fault = "none" /\ created.freed = r.freed /\ created.body = r.body
  BY <1>8 DEF Creates
<1>10. PICK org2 : Tracked(created, org2) /\ Widened(org, org2) /\ Assigns(r, ops, vals, org2)
  BY <1>8 DEF Creates
<1>11. org2[new] = 0 /\ created.op[new] = r.op[inst] /\ new \in 1..Len(created.op)
  <2>1. 1 \in 1..Len(ops)
    BY <1>5
  <2> QED
    BY <1>5, <1>6, <1>7, <1>8, <1>10, <2>1 DEF Assigns, Creates, Grown
<1>12. Mutable(created, inst) /\ inst \notin created.freed /\ Removable(org2, inst)
  <2>1. inst \in 1..Len(created.op)
    <3>1. Len(created.op) = Len(r.op) + Len(ops) /\ inst \in 1..Len(r.op)
      BY <1>8 DEF Creates, Grown, Mutable
    <3> QED
      BY <1>5, <1>7, <3>1
  <2>2. Mutable(created, inst)
    BY <1>9, <2>1 DEF Mutable, Occurs
  <2>3. inst \in DOMAIN org
    BY DEF Tracked, Anchored, Mutable
  <2>4. org2[inst] = org[inst]
    BY <1>10, <2>3 DEF Widened
  <2> QED
    BY <1>9, <2>2, <2>4 DEF Removable
<1>13. ErasesInst(created, inst, erased)
  BY <1>9, <1>12, EraseInstFacts DEF erased
<1>14. Sound(erased) /\ erased.fault = "none" /\ erased.op = created.op
  BY <1>9, <1>12, <1>13 DEF ErasesInst
<1>15. Tracked(erased, org2)
  BY <1>9, <1>10, <1>12, <1>13, EraseTracked
<1>16. f = FuncOf(created, inst) /\ from = PosOf(created, inst)
  BY <1>9 DEF f, from, FuncOf, PosOf
<1>17. Len(erased.body[f]) = size - 1
  <2>1. created.body \in Seq(Seq(Nat)) /\ Len(created.body) = Len(program)
    BY <1>9 DEF Sound, IRType
  <2>2. erased.body = [created.body EXCEPT ![f] = RemoveAt(@, from)]
    BY <1>9, <1>12, <1>13, <1>16 DEF ErasesInst
  <2>3. erased.body[f] = RemoveAt(r.body[f], from)
    BY <1>2, <1>9, <2>1, <2>2
  <2>4. from \in 1..Len(r.body[f])
    BY <1>2 DEF size
  <2>5. Len(RemoveAt(r.body[f], from)) = Len(r.body[f]) - 1
    BY <1>2, <2>4, RemoveAtFacts
  <2> QED
    BY <2>3, <2>5 DEF size
<1>18. ~(to > size) /\ to # from /\ s = moved
  <2>1. to > size => s.fault = "end"
    <3>1. [r EXCEPT !.fault = "end"].fault = "end"
      BY FaultSound
    <3> QED
      BY <1>1, <3>1
  <2>2. to = from /\ ~(to > size) => s.fault = "dangling"
    <3>1. [erased EXCEPT !.fault = "dangling"].fault = "dangling"
      BY <1>14, FaultSound
    <3> QED
      BY <1>1, <1>14, <3>1
  <2>3. s.fault = "none"
    BY DEF s
  <2> QED
    BY <1>1, <1>14, <2>1, <2>2, <2>3
<1>19. place \in Nat \ {0} /\ place <= Len(erased.body[f])
  <2>1. place \in Nat \ {0} /\ place <= size - 1
    BY <1>2, <1>3, <1>18 DEF place
  <2> QED
    BY <1>17, <2>1
<1>20. Inserts(erased, f, place, new, moved)
  BY <1>2, <1>7, <1>14, <1>19, InsertBeforeFacts DEF moved
<1>21. Tracked(moved, org2)
  <2>1. new \in 1..Len(erased.op) /\ ~IsTerminator(erased.op[new])
    BY <1>11, <1>14
  <2> QED
    BY <1>2, <1>7, <1>11, <1>14, <1>15, <1>19, <1>20, <2>1, InsertTracked
<1>22. Sound(moved) /\ moved.op = created.op
  BY <1>14, <1>20 DEF Inserts
<1> QED
  BY <1>7, <1>11, <1>18, <1>21, <1>22 DEF s, new

\* ShiftCall: a call moved along its function.
LEMMA ShiftCallTracked ==
  ASSUME program \in Programs, NEW r, Sound(r), r.fault = "none", NEW org, Tracked(r, org),
         Mode("shift"), ~Mode("rm"), ~Mode("swap"),
         NEW inst, Mutable(r, inst), inst \notin r.freed, Removable(org, inst),
         r.op[inst].callee # "branch", ~r.op[inst].invoke,
         NEW dir \in Int, dir # 1, ShiftCall(r, inst, dir).fault = "none"
  PROVE  \E org2 : Tracked(ShiftCall(r, inst, dir), org2)
<1> DEFINE op      == r.op[inst]
           shifted == ShiftCallInst(r, inst, dir)
           new     == NewInst(r)
           done    == [shifted EXCEPT !.op[new] = AsCall(op)]
           s       == ShiftCall(r, inst, dir)
<1>1. s = r \/ (dir # 0 /\ s = shifted /\ Faulted(shifted)) \/ (dir # 0 /\ s = done /\ ~Faulted(shifted))
  BY DEF ShiftCall
<1>2. s.fault = "none"
  OBVIOUS
<1>3. op \in Op /\ ~IsTerminator(op)
  BY DEF Sound, IRType, Mutable, IsTerminator
<1>4. AsCall(op) \in Op /\ ~IsTerminator(AsCall(op))
  BY <1>3, OpTypes DEF IsTerminator, AsCall, Op
<1> HIDE DEF op, s, new
<1>5. CASE s = r
  BY <1>5 DEF s
<1>6. CASE dir # 0 /\ s = done /\ ~Faulted(shifted)
  <2>1. shifted.fault = "none"
    BY <1>6 DEF Faulted
  <2>2. /\ Sound(shifted)
        /\ \E org2 : /\ Tracked(shifted, org2) /\ org2[new] = 0
                     /\ new \in 1..Len(shifted.op) /\ new \notin 1..Total
    BY <1>3, <1>6, <2>1, ShiftCallInstTracked DEF op, new
  <2>3. PICK org2 : /\ Tracked(shifted, org2) /\ org2[new] = 0
                    /\ new \in 1..Len(shifted.op) /\ new \notin 1..Total
    BY <2>2
  <2> HIDE DEF shifted
  <2> DEFINE t == shifted.op
             ops == [t EXCEPT ![new] = AsCall(op)]
  <2>4. t \in Seq(Op)
    BY <2>2 DEF Sound, IRType
  <2>5. done = [body |-> shifted.body, op |-> ops, freed |-> shifted.freed, fault |-> shifted.fault]
    BY <2>2, IsRecord
  <2> HIDE DEF t, done
  <2>6. Len(ops) = Len(t) /\ \A x \in 1..Len(t) : ops[x] = IF x = new THEN AsCall(op) ELSE t[x]
    <3> DEFINE e == AsCall(op)
    <3>1. e \in Op
      BY <1>4
    <3> HIDE DEF e
    <3>2. Len([t EXCEPT ![new] = e]) = Len(t)
      BY <2>4, <3>1, WriteFacts
    <3>3. \A x \in 1..Len(t) : [t EXCEPT ![new] = e][x] = IF x = new THEN e ELSE t[x]
      BY <2>4
    <3> QED
      BY <3>2, <3>3 DEF e
  <2> HIDE DEF ops
  <2>7. Writes(shifted, new, AsCall(op), done)
    BY <2>5, <2>6 DEF Writes, t
  <2>8. Tracked(done, org2)
    BY <1>4, <2>2, <2>3, <2>7, WriteTracked
  <2> QED
    BY <1>6, <2>8 DEF s
<1> QED
  BY <1>1, <1>2, <1>5, <1>6 DEF Faulted

\* An invoke becomes a call, which stands for none, and a branch, which stands for it.
LEMMA BranchTracked ==
  ASSUME program \in Programs, NEW r, Sound(r), r.fault = "none", NEW org, Tracked(r, org),
         Mode("shift"), ~Mode("rm"), ~Mode("swap"),
         NEW inst \in 1..Total, Mutable(r, inst), inst \notin r.freed, IsTerminator(OriginalOp[inst]),
         NEW new, new \in 1..Len(r.op), new \notin 1..Total, org[new] = 0, ~IsTerminator(r.op[new]),
         new + 1 \in 1..Len(r.op), new + 1 \notin 1..Total, org[new + 1] = inst, IsTerminator(r.op[new + 1]),
         NEW half, Replaces(r, inst, new, half),
         NEW s, Inserts(half, FuncOf(r, inst), PosOf(r, inst) + 1, new + 1, s), s.fault = "none"
  PROVE  Tracked(s, org)
<1> DEFINE f == FuncOf(r, inst)
           n == PosOf(r, inst)
<1>1. PlaceOf(r, inst, f, n)
  BY MutablePlace DEF PlaceOf
<1>2. /\ Sound(half) /\ half.op = r.op /\ half.freed = r.freed \union {inst} /\ half.fault = "none"
      /\ SetsBody(r, f, ReplaceAt(r.body[f], n, new), half)
  BY DEF Replaces, SetsBody
<1>3. f \in 1..Len(program) /\ n \in Nat /\ Len(half.body[f]) \in Nat
  <2> HIDE DEF f, n
  <2>1. f \in 1..Len(program) /\ n \in 1..Len(r.body[f])
    BY <1>1 DEF PlaceOf
  <2>2. half.body \in Seq(Seq(Nat)) /\ Len(half.body) = Len(program)
    BY <1>2 DEF Sound, IRType
  <2>3. half.body[f] \in Seq(Nat)
    BY <2>1, <2>2
  <2> QED
    BY <2>1, <2>3
<1>4. /\ Sound(s) /\ s.op = r.op /\ s.freed = r.freed \union {inst} /\ Occurs(s, new + 1)
      /\ n + 1 <= Len(half.body[f])
      /\ SetsBody(half, f, InsertAt(half.body[f], n + 1, new + 1), s)
  BY <1>2, <1>3 DEF Inserts, SetsBody
<1> HIDE DEF f, n
<1>5. Anchored(r, org, Lost(r)) /\ Content(r, org) /\ org[inst] = inst
  BY DEF Tracked, Anchored
<1>6. Anchored(s, org, Lost(r))
  <2>1. org[new + 1] = org[inst]
    BY <1>5
  <2> QED
    BY <1>1, <1>2, <1>4, <1>5, <2>1, BranchAnchored
<1>7. Lost(s) = Lost(r)
  BY <1>4 DEF Lost
<1>8. Accounted(s, org, new)
  BY <1>4 DEF Accounted
<1>9. Accounted(s, org, new + 1)
  <2>1. org[new + 1] # 0 /\ org[new + 1] \in s.freed
    BY <1>4
  <2> QED
    BY <1>4, <2>1 DEF Accounted
<1>10. ASSUME NEW x, Occurs(s, x), x # new, x # new + 1
       PROVE  Occurs(r, x) /\ (x \in 1..Total => x \notin s.freed)
  <2>1. n + 1 \in 1..(Len(half.body[f]) + 1) /\ new + 1 \in Nat
    BY <1>3, <1>4
  <2>2. Occurs(half, x)
    BY <1>2, <1>3, <1>4, <1>10, <2>1, OccursAfterInsert
  <2>3. Occurs(r, x)
    BY <1>2, <1>3, <1>10, <2>2, OccursAfterReplace
  <2>4. x \in 1..Total => x \notin r.freed
    BY <1>5, <2>3 DEF Content, Accounted
  <2>5. x # inst
    <3> SUFFICES ASSUME x = inst PROVE FALSE
      OBVIOUS
    <3>1. org[new + 1] # 0 /\ org[x] = org[new + 1]
      BY <1>5
    <3> QED
      BY <1>4, <1>6, <1>10, <3>1, NotBoth
  <2> QED
    BY <1>4, <2>3, <2>4, <2>5
<1>11. Develops(r, org, s, org)
  <2>1. Widened(org, org) /\ r.freed \subseteq s.freed /\ \A x \in 1..Len(r.op) : s.op[x] = r.op[x]
    BY <1>4 DEF Widened
  <2> QED
    BY <1>8, <1>9, <1>10, <2>1 DEF Develops
<1>12. Content(s, org)
  BY <1>5, <1>11, ContentStep
<1> QED
  BY <1>6, <1>7, <1>12 DEF Tracked

\* ShiftInvoke: an invoke that leaves a branch, and its call moved along the function.
LEMMA ShiftInvokeTracked ==
  ASSUME program \in Programs, NEW r, Sound(r), r.fault = "none", NEW org, Tracked(r, org),
         Mode("shift"), ~Mode("rm"), ~Mode("swap"),
         NEW inst \in 1..Total, inst \notin r.freed,
         OriginalOp[inst].callee # "branch", OriginalOp[inst].invoke,
         NEW dir \in Int, dir # 1, ShiftInvoke(r, inst, dir).fault = "none"
  PROVE  \E org2 : Tracked(ShiftInvoke(r, inst, dir), org2)
<1> DEFINE op  == r.op[inst]
           new == NewInst(r)
           f   == FuncOf(r, inst)
           n   == PosOf(r, inst)
           ops == <<AsCall(op), Branch>>
           vals == <<0, inst>>
           created  == CreateInsts(r, {inst}, ops)
           replaced == ReplaceInst(created, inst, new)
           branched == InsertBefore(replaced, f, n + 1, new + 1)
           shifted  == ShiftCall(branched, new, dir)
           s   == ShiftInvoke(r, inst, dir)
<1>1. s = r \/ s = shifted
  BY DEF ShiftInvoke, Guarded
<1>2. CASE s = r
  BY <1>2
<1>3. CASE s = shifted
  <2>1. s.fault = "none"
    OBVIOUS
  <2>2. Mutable(r, inst)
    BY OriginalMutable
  <2>3. /\ f \in 1..Len(program) /\ r.body[f] \in Seq(Nat) /\ Len(r.body[f]) \in Nat
        /\ n \in 1..(Len(r.body[f]) - 1) /\ n \in 1..Len(r.body[f])
    BY <2>2, MutablePlace
  <2>4. op = OriginalOp[inst] /\ op \in Op
    BY <2>2 DEF Tracked, Content, Sound, IRType, Mutable
  <2>5. ops \in Seq(Op) /\ Len(ops) = 2 /\ ops[1] = AsCall(op) /\ ops[2] = Branch
    <3>1. AsCall(op) \in Op /\ Branch \in Op
      BY <2>4, OpTypes
    <3> QED
      BY <3>1
  <2>6. vals \in [1..Len(ops) -> 0..Total] /\ vals[1] = 0 /\ vals[2] = inst
    BY <2>5, Sizes
  <2>7. /\ new = Len(r.op) + 1 /\ Len(r.op) \in Nat /\ new \in Nat /\ new + 1 \in Nat
        /\ new \notin 1..Total /\ new + 1 \notin 1..Total /\ new \notin r.freed /\ new # inst
    <3>1. Total <= Len(r.op) /\ Total \in Nat /\ Len(r.op) \in Nat /\ r.freed \subseteq 1..Len(r.op)
      BY Sizes DEF Sound, IRType
    <3> QED
      BY <3>1 DEF NewInst
  <2>8. /\ AsCall(op).callee # "branch" /\ ~AsCall(op).invoke /\ ~IsTerminator(AsCall(op))
        /\ IsTerminator(Branch) /\ IsTerminator(OriginalOp[inst])
    BY <2>4 DEF AsCall, Op, IsTerminator, Branch
  <2> HIDE DEF op, ops, vals, new, f, n, created, replaced, branched, shifted, s
  <2>9. Creates(r, org, ops, vals, created)
    <3>1. {inst} \cap r.freed = {}
      OBVIOUS
    <3> QED
      BY <2>5, <2>6, <3>1, CreateInstsTracked DEF created
  <2>10. Sound(created) /\ created.fault = "none" /\ created.freed = r.freed /\ created.body = r.body
    BY <2>9 DEF Creates
  <2>11. PICK org2 : Tracked(created, org2) /\ Widened(org, org2) /\ Assigns(r, ops, vals, org2)
    BY <2>9 DEF Creates
  <2>12. /\ created.op[new] = AsCall(op) /\ created.op[new + 1] = Branch
         /\ org2[new] = 0 /\ org2[new + 1] = inst
         /\ new \in 1..Len(created.op) /\ new + 1 \in 1..Len(created.op)
    <3>1. 1 \in 1..Len(ops) /\ 2 \in 1..Len(ops) /\ new + 1 = Len(r.op) + 2
      BY <2>5, <2>7
    <3>2. /\ created.op[Len(r.op) + 1] = ops[1] /\ created.op[Len(r.op) + 2] = ops[2]
          /\ Len(created.op) = Len(r.op) + Len(ops)
      BY <2>9, <3>1 DEF Creates, Grown
    <3>3. org2[Len(r.op) + 1] = vals[1] /\ org2[Len(r.op) + 2] = vals[2]
      BY <2>11, <3>1 DEF Assigns
    <3> QED
      BY <2>5, <2>6, <2>7, <3>1, <3>2, <3>3
  <2>13. Mutable(created, inst) /\ inst \notin created.freed
    BY <2>10, OriginalMutable
  <2>14. Replaces(created, inst, new, replaced)
    BY <2>7, <2>10, <2>13, ReplaceInstFacts DEF replaced
  <2>15. Sound(replaced) /\ replaced.fault = "none" /\ replaced.op = created.op
         /\ replaced.freed = r.freed \union {inst} /\ Occurs(replaced, new)
         /\ replaced.body = [created.body EXCEPT ![f] = ReplaceAt(@, n, new)]
    <3>1. f = FuncOf(created, inst) /\ n = PosOf(created, inst)
      BY <2>10 DEF f, n, FuncOf, PosOf
    <3> QED
      BY <2>10, <2>13, <2>14, <3>1 DEF Replaces
  <2>16. Inserts(replaced, f, n + 1, new + 1, branched)
    <3>1. n + 1 \in Nat \ {0}
      BY <2>3
    <3> QED
      BY <2>3, <2>7, <2>15, <3>1, InsertBeforeFacts DEF branched
  <2>17. branched.fault = "none"
    <3>1. Len(replaced.body[f]) = Len(r.body[f])
      <4>1. created.body \in Seq(Seq(Nat)) /\ Len(created.body) = Len(program)
        BY <2>10 DEF Sound, IRType
      <4>2. replaced.body[f] = ReplaceAt(r.body[f], n, new)
        BY <2>3, <2>10, <2>15, <4>1
      <4>3. ReplaceAt(r.body[f], n, new) = [r.body[f] EXCEPT ![n] = new]
        BY DEF ReplaceAt
      <4> QED
        BY <2>3, <4>2, <4>3
    <3>2. n + 1 <= Len(replaced.body[f])
      <4> DEFINE size == Len(r.body[f])
      <4>1. size \in Nat /\ n \in 1..(size - 1)
        BY <2>3
      <4> HIDE DEF size
      <4>2. n + 1 <= size
        BY <4>1
      <4> QED
        BY <3>1, <4>2 DEF size
    <3> QED
      BY <2>15, <2>16, <3>2 DEF Inserts
  <2>18. /\ Sound(branched) /\ branched.op = created.op /\ branched.freed = r.freed \union {inst}
         /\ Occurs(branched, new)
    <3>1. n + 1 <= Len(replaced.body[f])
      <4>1. Len(replaced.body[f]) \in Nat
        <5>1. replaced.body \in Seq(Seq(Nat)) /\ Len(replaced.body) = Len(program)
          BY <2>15 DEF Sound, IRType
        <5> QED
          BY <2>3, <5>1
      <4>2. n + 1 > Len(replaced.body[f]) => branched.fault = "end"
        BY <2>15, <2>16 DEF Inserts
      <4> QED
        BY <2>3, <2>17, <4>1, <4>2
    <3> QED
      BY <2>15, <2>16, <3>1 DEF Inserts
  <2>19. Tracked(branched, org2)
    <3>1. ~IsTerminator(created.op[new]) /\ IsTerminator(created.op[new + 1])
      BY <2>8, <2>12
    <3>2. Inserts(replaced, FuncOf(created, inst), PosOf(created, inst) + 1, new + 1, branched)
      <4>1. f = FuncOf(created, inst) /\ n = PosOf(created, inst)
        BY <2>10 DEF f, n, FuncOf, PosOf
      <4> QED
        BY <2>16, <4>1
    <3> QED
      BY <2>7, <2>8, <2>10, <2>11, <2>12, <2>13, <2>14, <2>17, <3>1, <3>2, BranchTracked
  <2>20. Mutable(branched, new) /\ new \notin branched.freed /\ Removable(org2, new)
    <3>1. \A g \in 1..Len(program) : new # End(g)
      BY <2>7, Sizes
    <3> QED
      BY <2>7, <2>12, <2>18, <3>1 DEF Mutable, Removable
  <2>21. branched.op[new].callee # "branch" /\ ~branched.op[new].invoke
    BY <2>8, <2>12, <2>18
  <2>22. \E org3 : Tracked(shifted, org3)
    <3>1. ShiftCall(branched, new, dir).fault = "none"
      BY <1>3, <2>1 DEF shifted
    <3> QED
      BY <2>17, <2>18, <2>19, <2>20, <2>21, <3>1, ShiftCallTracked DEF shifted
  <2> QED
    BY <1>3, <2>22 DEF s
<1> QED
  BY <1>1, <1>2, <1>3
\* Whatever the direction, a shift that ends without a fault keeps track.
LEMMA ShiftedTracked ==
  ASSUME program \in Programs, NEW r, Sound(r), r.fault = "none", NEW org, Tracked(r, org),
         Mode("shift"), ~Mode("rm"), ~Mode("swap"),
         NEW inst \in 1..Total, OriginalOp[inst].callee # "branch", ir.op[inst] = OriginalOp[inst],
         NEW dir \in Int, Shifted(r, inst, dir).fault = "none"
  PROVE  \E org2 : Tracked(Shifted(r, inst, dir), org2)
<1>1. Mutable(r, inst) /\ r.op[inst] = OriginalOp[inst]
  BY OriginalMutable DEF Tracked, Content
<1>2. CASE dir = 1
  BY <1>2 DEF Shifted
<1>3. CASE dir # 1 /\ inst \in r.freed
  <2>1. [r EXCEPT !.fault = "dangling"].fault = "dangling"
    BY FaultSound
  <2>2. Shifted(r, inst, dir) = IF OriginalOp[inst].invoke THEN ShiftInvoke(r, inst, dir) ELSE ShiftCall(r, inst, dir)
    BY <1>3 DEF Shifted
  <2>3. ShiftInvoke(r, inst, dir) = [r EXCEPT !.fault = "dangling"]
    BY <1>3 DEF ShiftInvoke, Guarded
  <2>4. ShiftCall(r, inst, dir) = r \/ ShiftCall(r, inst, dir).fault = "dangling"
    <3>1. dir # 0 => ShiftCallInst(r, inst, dir) = [r EXCEPT !.fault = "dangling"]
      BY <1>3 DEF ShiftCallInst, Guarded
    <3> QED
      BY <2>1, <3>1 DEF ShiftCall, Faulted
  <2> QED
    BY <2>1, <2>2, <2>3, <2>4
<1>4. CASE dir # 1 /\ inst \notin r.freed /\ OriginalOp[inst].invoke
  <2>1. Shifted(r, inst, dir) = ShiftInvoke(r, inst, dir)
    BY <1>4 DEF Shifted
  <2> QED
    BY <1>4, <2>1, ShiftInvokeTracked
<1>5. CASE dir # 1 /\ inst \notin r.freed /\ ~OriginalOp[inst].invoke
  <2>1. Shifted(r, inst, dir) = ShiftCall(r, inst, dir)
    BY <1>5 DEF Shifted
  <2>2. Removable(org, inst)
    BY <1>5 DEF Removable, IsTerminator
  <2> QED
    BY <1>1, <1>5, <2>1, <2>2, ShiftCallTracked
<1> QED
  BY <1>2, <1>3, <1>4, <1>5

\* A new call is inserted at a distance from an instruction.
Gains(r, s, org) ==
  /\ Sound(s) /\ s.op = r.op /\ s.freed = r.freed /\ Tracked(s, org)
  /\ \A x : Occurs(r, x) => Occurs(s, x)

\* InsertInstructionRelative, from any instruction that is there.
LEMMA InsertRelativeTracked ==
  ASSUME program \in Programs, NEW r, Sound(r), r.fault = "none", NEW org, Tracked(r, org),
         ~Mode("rm"), ~Mode("swap"),
         NEW base, Occurs(r, base), base \notin r.freed, NEW distance \in Nat,
         NEW new \in 1..Len(r.op), new \notin 1..Total, org[new] = 0, ~IsTerminator(r.op[new]),
         InsertInstructionRelative(r, base, new, distance).fault = "none"
  PROVE  Gains(r, InsertInstructionRelative(r, base, new, distance), org)
<1> DEFINE f == FuncOf(r, base)
           p == RelativePlace(r, base, distance)
           s == InsertInstructionRelative(r, base, new, distance)
<1>1. s = InsertBefore(r, f, p, new) /\ s.fault = "none"
  BY DEF InsertInstructionRelative, Guarded
<1>2. f \in 1..Len(r.body) /\ PosOf(r, base) \in 1..Len(r.body[f])
  BY Found
<1>3. r.body \in Seq(Seq(Nat)) /\ Len(r.body) = Len(program)
  BY DEF Sound, IRType
<1>4. Len(r.body[f]) \in Nat /\ f \in 1..Len(program)
  BY <1>2, <1>3
<1>5. p \in Nat \ {0}
  <2> DEFINE q == PosOf(r, base)
             size == Len(r.body[f])
  <2>1. p = IF q + distance > size + 1 THEN size + 1 ELSE q + distance
    BY DEF RelativePlace
  <2>2. q \in 1..size /\ size \in Nat
    BY <1>2, <1>4
  <2> HIDE DEF p, q, size
  <2> QED
    BY <2>1, <2>2
<1>6. new \in Nat
  OBVIOUS
<1> HIDE DEF f, p, s
<1>7. Inserts(r, f, p, new, s)
  BY <1>1, <1>4, <1>5, <1>6, InsertBeforeFacts
<1>8. p <= Len(r.body[f])
  <2>1. p > Len(r.body[f]) => s.fault = "end"
    BY <1>7 DEF Inserts
  <2> QED
    BY <1>1, <1>4, <1>5, <2>1
<1>9. Tracked(s, org)
  BY <1>4, <1>5, <1>7, <1>8, InsertTracked
<1> QED
  BY <1>7, <1>8, <1>9 DEF s, Inserts, Gains

\* The two calls of a split stand for none.
LEMMA SplitTracked ==
  ASSUME program \in Programs, cmd \in Commands, i \in Nat, i + 1 < Len(cmd.splitpos),
         Sound(ir), ir.fault = "none", ir.freed = {}, NEW org, Tracked(ir, org),
         ~Mode("rm"), ~Mode("swap"), NEW pair, PairFact(pair), SplitApart(pair).fault = "none"
  PROVE  \E org2 : Tracked(SplitApart(pair), org2)
<1> DEFINE new  == NewInst(ir)
           ops  == <<AsCall(ir.op[pair.lock]), AsCall(ir.op[pair.unlock])>>
           vals == <<0, 0>>
           created  == CreateInsts(ir, InstsOf(pair), ops)
           far      == ToUnsigned(UnlockPos)
           unlocked == InsertInstructionRelative(created, pair.lock, new + 1, far)
           lockPos  == IF UnlockPos < LockPos THEN LockPos + 1 ELSE LockPos
           near     == ToUnsigned(lockPos)
           s        == InsertInstructionRelative(unlocked, pair.lock, new, near)
<1>1. SplitApart(pair) = s
  BY DEF SplitApart
<1>2. far \in Nat /\ near \in Nat
  <2>1. /\ UnlockPos \in Int /\ LockPos \in Int
        /\ UnlockPos >= -(IntMax + 1) /\ LockPos >= -(IntMax + 1) /\ IntMax \in Nat
    BY SplitValues, IntMaxAssumption
  <2>2. lockPos \in Int /\ lockPos >= -(IntMax + 1)
    <3> HIDE DEF UnlockPos, LockPos
    <3> QED
      BY <2>1
  <2> HIDE DEF UnlockPos, LockPos, lockPos
  <2> QED
    BY <2>1, <2>2, UnsignedFacts
<1>3. /\ pair.lock \in 1..Total /\ pair.unlock \in 1..Total
      /\ ir.op[pair.lock].callee # "branch" /\ ir.op[pair.unlock].callee # "branch"
      /\ ir.op[pair.lock] \in Op /\ ir.op[pair.unlock] \in Op
  <2>1. OriginalOp \in Seq(Op) /\ Len(OriginalOp) = Total
    BY OriginalOps
  <2>2. pair.lock \in 1..Total /\ pair.unlock \in 1..Total
    BY DEF PairFact
  <2>3. ir.op[pair.lock] = OriginalOp[pair.lock] /\ ir.op[pair.unlock] = OriginalOp[pair.unlock]
    BY <2>2 DEF Tracked, Content
  <2> QED
    BY <2>1, <2>2, <2>3 DEF PairFact
<1>4. ops \in Seq(Op) /\ Len(ops) = 2 /\ ~IsTerminator(ops[1]) /\ ~IsTerminator(ops[2])
  <2>1. AsCall(ir.op[pair.lock]) \in Op /\ AsCall(ir.op[pair.unlock]) \in Op
    BY <1>3, OpTypes
  <2>2. ~IsTerminator(AsCall(ir.op[pair.lock])) /\ ~IsTerminator(AsCall(ir.op[pair.unlock]))
    BY <1>3 DEF AsCall, Op, IsTerminator
  <2> QED
    BY <2>1, <2>2
<1>5. vals \in [1..Len(ops) -> 0..Total] /\ vals[1] = 0 /\ vals[2] = 0
  BY <1>4, Sizes
<1>6. /\ new = Len(ir.op) + 1 /\ Len(ir.op) \in Nat /\ new \in Nat /\ new + 1 \in Nat
      /\ new \notin 1..Total /\ new + 1 \notin 1..Total
  <2>1. Total <= Len(ir.op) /\ Total \in Nat /\ Len(ir.op) \in Nat
    BY Sizes DEF Sound, IRType
  <2> QED
    BY <2>1 DEF NewInst
<1> HIDE DEF new, ops, vals, created, far, unlocked, lockPos, near, s
<1>7. Creates(ir, org, ops, vals, created)
  <2>1. InstsOf(pair) \cap ir.freed = {}
    OBVIOUS
  <2> QED
    BY <1>4, <1>5, <2>1, CreateInstsTracked DEF created
<1>8. Sound(created) /\ created.fault = "none" /\ created.freed = {} /\ created.body = ir.body
  BY <1>7 DEF Creates
<1>9. PICK org2 : Tracked(created, org2) /\ Widened(org, org2) /\ Assigns(ir, ops, vals, org2)
  BY <1>7 DEF Creates
<1>10. /\ created.op[new] = ops[1] /\ created.op[new + 1] = ops[2]
       /\ org2[new] = 0 /\ org2[new + 1] = 0
       /\ new \in 1..Len(created.op) /\ new + 1 \in 1..Len(created.op)
  <2>1. 1 \in 1..Len(ops) /\ 2 \in 1..Len(ops) /\ new + 1 = Len(ir.op) + 2
    BY <1>4, <1>6
  <2>2. /\ created.op[Len(ir.op) + 1] = ops[1] /\ created.op[Len(ir.op) + 2] = ops[2]
        /\ Len(created.op) = Len(ir.op) + Len(ops)
    BY <1>7, <2>1 DEF Creates, Grown
  <2>3. org2[Len(ir.op) + 1] = vals[1] /\ org2[Len(ir.op) + 2] = vals[2]
    BY <1>9, <2>1 DEF Assigns
  <2> QED
    BY <1>4, <1>5, <1>6, <2>1, <2>2, <2>3
<1>11. Occurs(created, pair.lock) /\ pair.lock \notin created.freed
  BY <1>3, <1>8 DEF Sound
<1>12. s.fault = "none"
  BY <1>1
<1>13. unlocked.fault = "none"
  BY <1>12 DEF s, InsertInstructionRelative, Guarded
<1>14. /\ Sound(unlocked) /\ unlocked.op = created.op /\ unlocked.freed = created.freed /\ Tracked(unlocked, org2)
       /\ Occurs(unlocked, pair.lock)
  <2>1. ~IsTerminator(created.op[new + 1])
    BY <1>4, <1>10
  <2>2. Gains(created, unlocked, org2)
    BY <1>2, <1>6, <1>8, <1>9, <1>10, <1>11, <1>13, <2>1, InsertRelativeTracked DEF unlocked
  <2> QED
    BY <1>11, <2>2 DEF Gains
<1>15. Tracked(s, org2)
  <2>1. ~IsTerminator(unlocked.op[new]) /\ new \in 1..Len(unlocked.op)
    BY <1>4, <1>10, <1>14
  <2>2. pair.lock \notin unlocked.freed
    BY <1>11, <1>14
  <2>3. Gains(unlocked, s, org2)
    BY <1>2, <1>6, <1>10, <1>12, <1>13, <1>14, <2>1, <2>2, InsertRelativeTracked DEF s
  <2> QED
    BY <2>3 DEF Gains
<1> QED
  BY <1>1, <1>15

-----------------------------------------------------------------------------
(* What every instruction stands for, from the start to the end *)

\* The module as it was read: every instruction stands for itself.
LEMMA LoadedTracked ==
  ASSUME program \in Programs
  PROVE  Tracked(Loaded(program), [x \in 1..Total |-> x])
<1> DEFINE r == Loaded(program)
           org == [x \in 1..Total |-> x]
<1>1. /\ program \in Seq(Seq(Op)) /\ Total \in Nat
      /\ OriginalOp \in Seq(Op) /\ Len(OriginalOp) = Total
  BY Sizes, OriginalOps
<1>2. /\ r.op = OriginalOp /\ r.freed = {} /\ Len(r.body) = Len(program)
      /\ \A f \in 1..Len(program) : r.body[f] = Original(f)
  BY <1>1, LoadedFacts DEF OriginalOp, Original
<1> HIDE DEF r
<1>3. DOMAIN org = 1..Total /\ (\A x \in 1..Total : org[x] = x) /\ org \in [1..Total -> 0..Total]
  BY <1>1
<1> HIDE DEF org
<1>4. Lost(r) = {}
  BY <1>2 DEF Lost
<1>5. ASSUME NEW f \in 1..Len(program)
      PROVE  Stands(r.body[f], org, ToSet(Original(f)) \ {})
  <2> DEFINE b == Original(f)
  <2>1. b \in Seq(Nat) /\ Increasing(b) /\ ToSet(b) \subseteq 1..Total
    BY OriginalSets
  <2>2. r.body[f] = b
    BY <1>2
  <2> HIDE DEF b
  <2>3. \A n \in 1..Len(b) : b[n] \in 1..Total /\ b[n] \in ToSet(b)
    BY <2>1 DEF ToSet
  <2>4. \A n \in 1..Len(b) : org[b[n]] = b[n]
    BY <1>3, <2>3
  <2>5. \A y \in ToSet(b) : \E n \in 1..Len(b) : b[n] = y
    BY <2>1 DEF ToSet
  <2>6. Stands(b, org, ToSet(b))
    BY <1>3, <2>1, <2>3, <2>4, <2>5 DEF Stands, Increasing
  <2> QED
    BY <2>2, <2>6 DEF b
<1>6. Anchored(r, org, Lost(r))
  BY <1>1, <1>2, <1>3, <1>4, <1>5 DEF Anchored
<1>7. ASSUME NEW x, Occurs(r, x) PROVE x \in 1..Total
  <2>1. PICK f \in 1..Len(program) : \E n \in 1..Len(Original(f)) : Original(f)[n] = x
    BY <1>2, <1>7 DEF Occurs
  <2>2. x \in ToSet(Original(f))
    BY <2>1, OriginalSets DEF ToSet
  <2> QED
    BY <2>2, OriginalSets
<1>8. ASSUME NEW x, Occurs(r, x) PROVE Accounted(r, org, x)
  <2>1. x \in 1..Total /\ org[x] = x /\ x # 0
    BY <1>1, <1>3, <1>7, <1>8
  <2> QED
    BY <1>2, <2>1 DEF Accounted
<1>9. Content(r, org)
  BY <1>2, <1>8 DEF Content
<1>10. Tracked(r, org)
  BY <1>6, <1>9 DEF Tracked
<1> QED
  BY <1>10 DEF r, org

\* The module as it was read has no new instructions.
LEMMA LoadedOccurs ==
  ASSUME program \in Programs, NEW x, Occurs(Loaded(program), x)
  PROVE  x \in 1..Total
<1>1. Len(Loaded(program).body) = Len(program) /\ Loaded(program).body = Numbered(program)
  BY Sizes, LoadedFacts
<1>2. PICK f \in 1..Len(program) : \E n \in 1..Len(Original(f)) : Original(f)[n] = x
  BY <1>1 DEF Occurs, Original
<1>3. x \in ToSet(Original(f))
  BY <1>2, OriginalSets DEF ToSet
<1> QED
  BY <1>3, OriginalSets

-----------------------------------------------------------------------------
(* What the command line names does not change *)

\* The named pairs do not change once the functions were enumerated.
LEMMA SameNames ==
  ASSUME UNCHANGED <<cmd, program, lockPairs>>
  PROVE  /\ \A n : HasPair(n)' = HasPair(n) /\ PairAt(n)' = PairAt(n)
         /\ NamedPairs' = NamedPairs /\ NamedInsts' = NamedInsts /\ SwapGroups' = SwapGroups
         /\ \A x : Partners(x)' = Partners(x)
<1>1. \A n : HasPair(n)' = HasPair(n) /\ PairAt(n)' = PairAt(n)
  BY DEF HasPair, PairAt, Finds, Kind, At
<1>2. \A width : Groups(width)' = Groups(width)
  BY SameCommand
<1>3. \A n : HasGenericPair(n)' = HasGenericPair(n) /\ GenericPair(n)' = GenericPair(n)
  BY SamePairs
<1>4. NamedPairs' = NamedPairs
  BY DEF NamedPairs, HasPair, PairAt, Finds, Kind, At, HasGenericPair, GenericPair, GenericNumber, Mode, Groups
<1>5. NamedInsts' = NamedInsts
  BY <1>4 DEF NamedInsts
<1>6. SwapGroups' = SwapGroups
  BY DEF SwapGroups, HasGenericPair, GenericPair, GenericNumber, Finds, Kind, At, Groups
<1>7. \A x : Partners(x)' = Partners(x)
  BY <1>5, <1>6 DEF Partners, GenericPair, GenericNumber, Kind, At, OriginalOp
<1> QED
  BY <1>1, <1>4, <1>5, <1>6, <1>7

\* A module that is tracked with the names as they are is tracked with them unchanged.
LEMMA SameTracked ==
  ASSUME UNCHANGED <<cmd, program>>, NEW org, Tracked(ir', org),
         UNCHANGED lockPairs \/ \A x : Occurs(ir', x) => x \in 1..Total
  PROVE  Tracked(ir, org)'
<1>1. Total' = Total /\ (\A f : Original(f)' = Original(f)) /\ OriginalOp' = OriginalOp
  BY SameModule, SameProgram
<1>2. Mode("rm")' = Mode("rm") /\ Mode("swap")' = Mode("swap") /\ Mode("shift")' = Mode("shift")
  BY SameCommand
<1>3. Lost(ir)' = Lost(ir')
  BY <1>1, <1>2 DEF Lost
<1>4. Anchored(ir', org, Lost(ir')) /\ Content(ir', org)
  BY DEF Tracked
<1> DEFINE gone == Lost(ir')
<1>5. Anchored(ir, org, Lost(ir))'
  <2>1. Anchored(ir', org, Lost(ir)')
    BY <1>3, <1>4
  <2> QED
    BY <1>1, <2>1 DEF Anchored
<1>6. ASSUME NEW x, Occurs(ir', x) PROVE Accounted(ir, org, x)'
  <2>1. Accounted(ir', org, x)
    BY <1>4, <1>6 DEF Content
  <2>2. x \in 1..Total \/ \A y : Partners(y)' = Partners(y)
    BY <1>6, SameNames
  <2> QED
    BY <1>1, <1>2, <2>1, <2>2 DEF Accounted
<1>7. Content(ir, org)'
  <2>1. \A x : Occurs(ir, x)' <=> Occurs(ir', x)
    BY DEF Occurs
  <2> QED
    BY <1>1, <1>4, <1>6, <2>1 DEF Content
<1> QED
  BY <1>5, <1>7 DEF Tracked

-----------------------------------------------------------------------------
(* The second inductive invariant: what is in the place of every instruction *)

\* The module can be read as one that was mutated in place.
Active == pc \in {"loop", "erase", "ran", "done"}
TrackInv ==
  /\ pc = "fault" => ir.fault # "none"
  /\ Active => \E org : Tracked(ir, org)

\* What was erased belongs to a named pair.
NamedInv == pc \in {"erase", "ran", "done"} => ir.freed \cap (1..Total) \subseteq NamedInsts

\* -rm: what was collected so far; then what is collected, erased or left alone.
Collected(last) == UNION {InstsOf(PairAt(g)) : g \in {n \in Groups(2) : n < last /\ HasPair(n)}}
RemovedInv ==
  /\ Mode("rm") /\ pc = "loop" => mutateInsts = Collected(i)
  /\ Mode("rm") /\ pc \in {"erase", "ran", "done"} =>
       /\ modified = (NamedPairs # {})
       /\ mutateInsts \subseteq NamedInsts
       /\ \A x \in NamedInsts : x \in mutateInsts \/ x \in ir.freed \/ HasUnexpectedUses(OriginalOp[x])
       /\ \A x \in ir.freed \cap (1..Total) : ~HasUnexpectedUses(OriginalOp[x])
  /\ pc \in {"ran", "done"} => mutateInsts = {} \/ ~Mode("rm")

\* -swap: the calls of the groups that were done are no longer there.
Exchanged(g, role) ==
  Swappable(OriginalOp[GenericPair(g)[role]], OriginalOp[GenericPair(g + 2)[role]]) =>
    {GenericPair(g)[role], GenericPair(g + 2)[role]} \subseteq ir.freed
SwappedInv ==
  Mode("swap") /\ Active =>
    \A g \in SwapGroups : (pc = "loop" => g < i) => Exchanged(g, "lock") /\ Exchanged(g, "unlock")

PlaceInv == TrackInv /\ NamedInv /\ RemovedInv /\ SwappedInv

-----------------------------------------------------------------------------
(* Which instructions are named *)

\* Each loop but that of -rm mutates named pairs.
LEMMA InNamed ==
  ASSUME ~Mode("rm"), NEW g \in Groups(2), HasGenericPair(g)
  PROVE  InstsOf(GenericPair(g)) \subseteq NamedInsts
<1>1. GenericPair(g) \in NamedPairs
  BY DEF NamedPairs
<1> QED
  BY <1>1 DEF NamedInsts

\* The named pairs were enumerated.
LEMMA NamedPairFact ==
  ASSUME PairsInv, Enumerated, NEW pair \in NamedPairs
  PROVE  PairFact(pair) /\ InstsOf(pair) \subseteq PairedInsts
<1>1. Len(cmd.pos) \in Nat
  BY CommandTypes DEF PairsInv
<1>2. \A g \in Groups(2) : g \in Nat /\ g + 1 < Len(cmd.pos)
  BY <1>1 DEF Groups
<1>3. \E kind \in Kinds : pair \in ToSet(lockPairs[kind])
  <2>1. CASE Mode("rm")
    <3>1. PICK g \in Groups(2) : HasPair(g) /\ pair = PairAt(g)
      BY <2>1 DEF NamedPairs
    <3> QED
      BY <1>2, <3>1, NamedPair
  <2>2. CASE ~Mode("rm")
    <3>1. PICK g \in Groups(2) : HasGenericPair(g) /\ pair = GenericPair(g)
      BY <2>2 DEF NamedPairs
    <3> QED
      BY <1>2, <3>1, NamedPair
  <2> QED
    BY <2>1, <2>2
<1>4. PICK kind \in Kinds : pair \in ToSet(lockPairs[kind])
  BY <1>3
<1>5. PairFact(pair)
  BY <1>4, FoundPair
<1>6. InstsOf(pair) \subseteq PairedInsts
  BY <1>4 DEF PairedInsts
<1> QED
  BY <1>5, <1>6

\* What is named is an instruction that was there, and not the end of a function.
LEMMA NamedFacts ==
  ASSUME PairsInv, Enumerated, NEW inst \in NamedInsts
  PROVE  inst \in 1..Total /\ OriginalOp[inst].callee # "branch" /\ inst \in PairedInsts
<1>1. PICK pair \in NamedPairs : inst \in InstsOf(pair)
  BY DEF NamedInsts
<1>2. PairFact(pair) /\ InstsOf(pair) \subseteq PairedInsts
  BY NamedPairFact
<1> QED
  BY <1>1, <1>2 DEF PairFact, InstsOf

\* In the loops of -swap and -shift what was erased was named.
LEMMA LoopNamed ==
  ASSUME MInv, pc = "loop"
  PROVE  ir.freed \cap (1..Total) \subseteq NamedInsts
<1> SUFFICES ASSUME NEW inst \in ir.freed \cap (1..Total) PROVE inst \in NamedInsts
  OBVIOUS
<1>1. ArgsAccepted /\ Len(cmd.pos) \in Nat
  BY CommandTypes DEF MInv, ArgsInv, PairsInv
<1>2. PICK width \in {2, 4} : UsedBefore(width, inst) /\ ~Mode("rm")
  BY <1>1, OneMode DEF MInv, FreedInv
<1>3. PICK g \in PairGroups(width) : \E k \in Halves(width) : inst \in InstsOf(GenericPair(g + k))
  BY <1>2 DEF UsedBefore
<1>4. PICK k \in Halves(width) : inst \in InstsOf(GenericPair(g + k))
  BY <1>3
<1>5. g + k \in Groups(2) /\ HasGenericPair(g + k)
  <2>1. g \in 0..(Len(cmd.pos) - width) /\ g % width = 0 /\ HasGenericPair(g + k)
    BY <1>3, <1>4 DEF PairGroups, Groups
  <2>2. CASE width = 2
    <3>1. k = 0
      BY <1>4, <2>2, HalvesAre
    <3> QED
      BY <1>1, <2>1, <2>2, <3>1 DEF Groups
  <2>3. CASE width = 4
    <3>1. k \in {0, 2}
      BY <1>4, <2>3, HalvesAre
    <3>2. g + k \in 0..(Len(cmd.pos) - 2)
      BY <1>1, <2>1, <2>3, <3>1
    <3>3. (g + k) % 2 = 0
      BY <2>1, <2>3, <3>1
    <3> QED
      BY <2>1, <3>2, <3>3 DEF Groups
  <2> QED
    BY <2>2, <2>3
<1>6. InstsOf(GenericPair(g + k)) \subseteq NamedInsts
  BY <1>2, <1>5, InNamed
<1> QED
  BY <1>4, <1>6

\* A group of four positions that can be swapped is two named pairs.
LEMMA SwapGroupFacts ==
  ASSUME PairsInv, Enumerated, ~Mode("rm"), NEW g \in SwapGroups
  PROVE  /\ g \in Groups(4) /\ g \in Nat /\ g + 3 < Len(cmd.pos)
         /\ PairFact(GenericPair(g)) /\ PairFact(GenericPair(g + 2))
         /\ GenericPair(g).lock # GenericPair(g + 2).lock /\ GenericPair(g).unlock # GenericPair(g + 2).unlock
         /\ InstsOf(GenericPair(g)) \subseteq NamedInsts /\ InstsOf(GenericPair(g + 2)) \subseteq NamedInsts
<1>1. Len(cmd.pos) \in Nat
  BY CommandTypes DEF PairsInv
<1>2. /\ g \in Groups(4) /\ HasGenericPair(g) /\ HasGenericPair(g + 2)
      /\ GenericPair(g).lock # GenericPair(g + 2).lock /\ GenericPair(g).unlock # GenericPair(g + 2).unlock
  BY DEF SwapGroups
<1>3. g \in 0..(Len(cmd.pos) - 4) /\ g % 4 = 0
  BY <1>2 DEF Groups
<1>4. g \in Nat /\ g + 3 < Len(cmd.pos) /\ g + 2 \in Nat /\ g + 1 < Len(cmd.pos) /\ (g + 2) + 1 < Len(cmd.pos)
  BY <1>1, <1>3
<1>5. g \in Groups(2) /\ g + 2 \in Groups(2)
  <2>1. g \in 0..(Len(cmd.pos) - 2) /\ g + 2 \in 0..(Len(cmd.pos) - 2)
    BY <1>1, <1>3
  <2>2. g % 2 = 0 /\ (g + 2) % 2 = 0
    BY <1>3
  <2> QED
    BY <2>1, <2>2 DEF Groups
<1> QED
  BY <1>2, <1>4, <1>5, NamedFact, InNamed

-----------------------------------------------------------------------------
(* The steps before the loops and the turns of the loops *)

\* The initial states.
LEMMA InitPlace == Init => PlaceInv
  BY DEF Init, PlaceInv, TrackInv, NamedInv, RemovedInv, SwappedInv, Active

\* checkCommandLineArgs.
LEMMA CheckArgsPlace ==
  ASSUME MInv, PlaceInv, CheckCommandLineArgs
  PROVE  PlaceInv'
<1>1. pc' \in {"enumerate", "exit"}
  BY DEF CheckCommandLineArgs
<1> QED
  BY <1>1 DEF PlaceInv, TrackInv, NamedInv, RemovedInv, SwappedInv, Active

\* Before its first turn -rm collected nothing.
LEMMA NothingCollected == Collected(0) = {}
<1>1. \A n \in Groups(2) : ~(n < 0)
  BY DEF Groups
<1> QED
  BY <1>1 DEF Collected

\* The enumeration of a function, the last of which starts the loops.
LEMMA EnumeratePlace ==
  ASSUME MInv, PlaceInv, EnumerateFunction
  PROVE  PlaceInv'
<1>1. /\ pc = "enumerate" /\ pc' \in {"loop", "enumerate"}
      /\ UNCHANGED <<cmd, program, ir, mutateInsts, i, modified>>
  BY DEF EnumerateFunction
<1>2. /\ i = 0 /\ mutateInsts = {} /\ ir = Loaded(program) /\ program \in Programs
  BY <1>1 DEF MInv, ArgsInv, PairsInv
<1>3. (\A n \in Groups(2)' : ~(n < 0)) /\ (\A n \in Groups(4)' : ~(n < 0))
  BY DEF Groups
<1>4. TrackInv'
  <2> DEFINE org == [x \in 1..Total |-> x]
  <2>1. Tracked(ir', org)
    BY <1>1, <1>2, LoadedTracked
  <2>2. \A x : Occurs(ir', x) => x \in 1..Total
    BY <1>1, <1>2, LoadedOccurs
  <2>3. \E known : Tracked(ir', known)
    BY <2>1
  <2>4. PICK known : Tracked(ir', known)
    BY <2>3
  <2>5. Tracked(ir, known)'
    BY <1>1, <2>2, <2>4, SameTracked
  <2> QED
    BY <1>1, <2>5 DEF TrackInv
<1>5. NamedInv'
  BY <1>1 DEF NamedInv
<1>6. RemovedInv'
  <2>1. Collected(i)' = {}
    BY <1>1, <1>2, <1>3 DEF Collected
  <2> QED
    BY <1>1, <1>2, <2>1 DEF RemovedInv
<1>7. SwappedInv'
  <2>1. \A g \in SwapGroups' : ~(g < 0)
    BY <1>3 DEF SwapGroups
  <2> QED
    BY <1>1, <1>2, <2>1 DEF SwappedInv, Active
<1> QED
  BY <1>4, <1>5, <1>6, <1>7 DEF PlaceInv

\* A turn of a loop that keeps track.
LEMMA TurnPlace ==
  ASSUME MInv, PlaceInv, pc = "loop", UNCHANGED <<cmd, program, lockPairs>>,
         pc' = IF Faulted(ir') THEN "fault" ELSE pc,
         ir'.fault = "none" => \E org : Tracked(ir', org)
  PROVE  TrackInv' /\ NamedInv'
<1>1. NamedInv'
  BY DEF NamedInv
<1>2. CASE ir'.fault = "none"
  <2>1. PICK org : Tracked(ir', org)
    BY <1>2
  <2>2. Tracked(ir, org)'
    BY <2>1, SameTracked
  <2> QED
    BY <1>1, <1>2, <2>2 DEF TrackInv, Faulted
<1>3. CASE ir'.fault # "none"
  BY <1>1, <1>3 DEF TrackInv, Faulted, Active
<1> QED
  BY <1>2, <1>3

\* Groups do not overlap.
LEMMA NextGroup ==
  ASSUME NEW width \in {2, 4}, NEW g \in Groups(width), Len(cmd.pos) \in Nat, i \in Nat, i % width = 0, g < i + width
  PROVE  g < i \/ g = i
<1>1. g \in Nat /\ g % width = 0
  BY DEF Groups
<1>2. CASE width = 2
  BY <1>1, <1>2
<1>3. CASE width = 4
  BY <1>1, <1>3
<1> QED
  BY <1>2, <1>3

\* A group that was done stays done.
LEMMA DonePlace ==
  ASSUME MInv, PlaceInv, pc = "loop", UNCHANGED <<cmd, program, lockPairs>>, Mode("swap"),
         i' = i + 4, pc' = IF Faulted(ir') THEN "fault" ELSE pc,
         ir'.fault = "none" => ir.freed \subseteq ir'.freed,
         ir'.fault = "none" /\ i \in SwapGroups =>
           \A role \in {"lock", "unlock"} :
             Swappable(OriginalOp[GenericPair(i)[role]], OriginalOp[GenericPair(i + 2)[role]]) =>
               {GenericPair(i)[role], GenericPair(i + 2)[role]} \subseteq ir'.freed
  PROVE  SwappedInv'
<1>1. SwapGroups' = SwapGroups /\ Mode("swap")' = Mode("swap") /\ OriginalOp' = OriginalOp
  BY SameNames, SameCommand, SameProgram
<1>2. CASE ir'.fault # "none"
  BY <1>2 DEF SwappedInv, Active, Faulted
<1>3. CASE ir'.fault = "none"
  <2>1. pc' = "loop" /\ ir.freed \subseteq ir'.freed
    BY <1>3 DEF Faulted
  <2>2. i \in Nat /\ Len(cmd.pos) \in Nat /\ i % 4 = 0
    BY CommandTypes DEF MInv, ArgsInv, PairsInv
  <2>3. ASSUME NEW g \in SwapGroups, g < i' PROVE (Exchanged(g, "lock") /\ Exchanged(g, "unlock"))'
    <3>1. g < i \/ g = i
      BY <2>2, <2>3, NextGroup DEF SwapGroups
    <3> DEFINE Done(role) ==
          Swappable(OriginalOp[GenericPair(g)[role]], OriginalOp[GenericPair(g + 2)[role]]) =>
            {GenericPair(g)[role], GenericPair(g + 2)[role]} \subseteq ir'.freed
    <3>2. \A role \in {"lock", "unlock"} : Done(role)
      <4>1. CASE g < i
        <5>1. Exchanged(g, "lock") /\ Exchanged(g, "unlock")
          BY <4>1 DEF PlaceInv, SwappedInv, Active
        <5> QED
          BY <2>1, <5>1 DEF Exchanged
      <4>2. CASE g = i
        BY <1>3, <2>3, <4>2
      <4> QED
        BY <3>1, <4>1, <4>2
    <3>3. GenericPair(g)' = GenericPair(g) /\ GenericPair(g + 2)' = GenericPair(g + 2)
      BY DEF GenericPair, Kind, GenericNumber, At
    <3>4. Exchanged(g, "lock")' = Done("lock") /\ Exchanged(g, "unlock")' = Done("unlock")
      BY <1>1, <3>3 DEF Exchanged
    <3> QED
      BY <3>2, <3>4
  <2> QED
    BY <1>1, <2>1, <2>3 DEF SwappedInv
<1> QED
  BY <1>2, <1>3

-----------------------------------------------------------------------------
(* The turns of -rm *)

\* What a turn of -rm adds to what was collected.
LEMMA CollectNext ==
  ASSUME MInv, pc = "loop", i + 1 < Len(cmd.pos)
  PROVE  Collected(i + 2) = IF HasPair(i) THEN Collected(i) \union InstsOf(PairAt(i)) ELSE Collected(i)
<1>1. i \in Nat /\ Len(cmd.pos) \in Nat /\ i % 2 = 0 /\ i \in Groups(2)
  BY TwoGroup, CommandTypes DEF MInv, ArgsInv, PairsInv
<1>2. \A n \in Groups(2) : n < i + 2 <=> n < i \/ n = i
  <2> SUFFICES ASSUME NEW n \in Groups(2) PROVE n < i + 2 <=> n < i \/ n = i
    OBVIOUS
  <2>1. n < i + 2 => n < i \/ n = i
    BY <1>1, NextGroup
  <2>2. n \in Nat
    BY DEF Groups
  <2> QED
    BY <1>1, <2>1, <2>2
<1>3. ~(i < i)
  BY <1>1
<1> QED
  BY <1>1, <1>2, <1>3 DEF Collected

\* A position that leaves the module alone, or a fault.
LEMMA SkipPlace ==
  ASSUME MInv, PlaceInv, SkipCollect \/ SkipSwap \/ SkipSplit \/ SkipShift
  PROVE  PlaceInv'
<1>1. /\ pc = "loop" /\ i < Len(cmd.pos) /\ UNCHANGED <<cmd, program, lockPairs, func>>
      /\ UNCHANGED <<mutateInsts, modified>>
      /\ Mode("rm") \/ Mode("swap") \/ Mode("split") \/ Mode("shift")
  BY DEF SkipCollect, SkipSwap, SkipSplit, SkipShift, Turn, Skip
<1>2. ir.fault = "none" /\ ArgsAccepted /\ Sound(ir)
  BY <1>1 DEF MInv, ModuleInv, ArgsInv
<1>3. /\ pc' = IF Faulted(ir') THEN "fault" ELSE pc
      /\ ir'.fault = "none" => ir' = ir
  <2>1. ir'.fault = "none" \/ ir'.fault # "none"
    OBVIOUS
  <2>2. \A kind \in {"oob", "null"} : [ir EXCEPT !.fault = kind].fault # "none"
    BY <1>2, FaultSound
  <2> QED
    BY <2>2 DEF SkipCollect, SkipSwap, SkipSplit, SkipShift, Skip, Commit
<1>4. TrackInv' /\ NamedInv'
  <2>1. \E org : Tracked(ir, org)
    BY <1>1 DEF PlaceInv, TrackInv, Active
  <2>2. ir'.fault = "none" => \E org : Tracked(ir', org)
    BY <1>3, <2>1
  <2> QED
    BY <1>1, <1>3, <2>2, TurnPlace
<1>5. RemovedInv'
  <2>1. CASE ~Mode("rm")
    BY <1>1, <1>3, <2>1, SameCommand DEF RemovedInv
  <2>2. CASE Mode("rm")
    <3>1. SkipCollect /\ ~Overrun(2) /\ i + 1 < Len(cmd.pos)
      BY <1>1, <1>2, <2>2, OneMode, NoOverrun DEF SkipSwap, SkipSplit, SkipShift, Turn
    <3>2. ~HasPair(i) /\ i' = i + 2 /\ ir' = ir /\ pc' = "loop"
      BY <1>1, <1>2, <3>1 DEF SkipCollect, Skip, Commit, Faulted
    <3>3. Collected(i + 2) = Collected(i)
      BY <1>1, <3>1, <3>2, CollectNext
    <3>4. mutateInsts = Collected(i)
      BY <1>1, <2>2 DEF PlaceInv, RemovedInv
    <3>5. Collected(i)' = Collected(i + 2)
      BY <1>1, <3>2, SameNames, SameCommand DEF Collected, Groups, HasPair, PairAt, Finds, Kind, At
    <3> QED
      BY <1>1, <3>2, <3>3, <3>4, <3>5 DEF RemovedInv
  <2> QED
    BY <2>1, <2>2
<1>6. SwappedInv'
  <2>1. CASE ~Mode("swap")
    BY <1>1, <2>1, SameCommand DEF SwappedInv
  <2>2. CASE Mode("swap")
    <3>1. SkipSwap /\ ~Overrun(4)
      BY <1>1, <1>2, <2>2, OneMode, NoOverrun DEF SkipCollect, SkipSplit, SkipShift, Turn
    <3>2. i' = i + 4 /\ ir' = ir /\ i \notin SwapGroups
      BY <1>2, <3>1 DEF SkipSwap, Skip, Commit, CanSwap, SwapGroups
    <3> QED
      BY <1>1, <1>3, <2>2, <3>2, DonePlace
  <2> QED
    BY <2>1, <2>2
<1> QED
  BY <1>4, <1>5, <1>6 DEF PlaceInv

\* A turn of the loop of -rm.
LEMMA CollectPlace ==
  ASSUME MInv, PlaceInv, CollectPair
  PROVE  PlaceInv'
<1>1. /\ pc = "loop" /\ Mode("rm") /\ i < Len(cmd.pos) /\ HasPair(i)
      /\ UNCHANGED <<cmd, program, lockPairs, modified>> /\ Commit(ir, 2)
      /\ mutateInsts' = mutateInsts \union InstsOf(PairAt(i))
  BY DEF CollectPair, Turn
<1>2. ir.fault = "none" /\ ArgsAccepted /\ i + 1 < Len(cmd.pos)
  BY <1>1, NoOverrun DEF MInv, ModuleInv, ArgsInv
<1>3. ir' = ir /\ i' = i + 2 /\ pc' = IF Faulted(ir') THEN "fault" ELSE pc
  BY <1>1 DEF Commit
<1>4. pc' = "loop"
  BY <1>1, <1>2, <1>3 DEF Faulted
<1>5. TrackInv' /\ NamedInv'
  <2>1. \E org : Tracked(ir, org)
    BY <1>1 DEF PlaceInv, TrackInv, Active
  <2>2. ir'.fault = "none" => \E org : Tracked(ir', org)
    BY <1>3, <2>1
  <2> QED
    BY <1>1, <1>3, <2>2, TurnPlace
<1>6. mutateInsts' = Collected(i + 2)
  <2>1. mutateInsts = Collected(i)
    BY <1>1 DEF PlaceInv, RemovedInv
  <2> QED
    BY <1>1, <1>2, <2>1, CollectNext
<1>7. Collected(i)' = Collected(i + 2)
  BY <1>1, <1>3, SameNames, SameCommand DEF Collected, Groups, HasPair, PairAt, Finds, Kind, At
<1>8. RemovedInv'
  BY <1>4, <1>6, <1>7 DEF RemovedInv
<1>9. SwappedInv'
  BY <1>1, <1>2, SameCommand, OneMode DEF SwappedInv
<1> QED
  BY <1>5, <1>8, <1>9 DEF PlaceInv

\* What the loop collected are the instructions of the named pairs.
LEMMA StartErasingPlace ==
  ASSUME MInv, PlaceInv, StartErasing
  PROVE  PlaceInv'
<1>1. /\ pc = "loop" /\ Mode("rm") /\ i >= Len(cmd.pos) /\ pc' = "erase" /\ modified' = (mutateInsts # {})
      /\ UNCHANGED <<cmd, program, ir, lockPairs, func, mutateInsts, i>>
  BY DEF StartErasing
<1>2. ir.freed = {} /\ i \in Nat /\ Len(cmd.pos) \in Nat /\ ArgsAccepted
  BY <1>1, CommandTypes DEF MInv, ChangeInv, Loaded, ArgsInv, PairsInv
<1>3. NamedPairs = {PairAt(n) : n \in {g \in Groups(2) : HasPair(g)}}
  BY <1>1 DEF NamedPairs
<1>4. mutateInsts = NamedInsts
  <2>1. \A n \in Groups(2) : n < i
    BY <1>1, <1>2 DEF Groups
  <2>2. Collected(i) = UNION {InstsOf(PairAt(g)) : g \in {n \in Groups(2) : HasPair(n)}}
    BY <2>1 DEF Collected
  <2>3. mutateInsts = Collected(i)
    BY <1>1 DEF PlaceInv, RemovedInv
  <2> QED
    BY <1>3, <2>2, <2>3 DEF NamedInsts
<1>5. mutateInsts # {} <=> NamedPairs # {}
  <2>1. \A pair \in NamedPairs : pair.lock \in NamedInsts
    BY DEF NamedInsts, InstsOf
  <2>2. NamedPairs = {} => NamedInsts = {}
    BY DEF NamedInsts
  <2> QED
    BY <1>4, <2>1, <2>2
<1>6. /\ NamedPairs' = NamedPairs /\ NamedInsts' = NamedInsts
      /\ Mode("rm")' = Mode("rm") /\ Mode("swap")' = Mode("swap")
  BY <1>1, SameNames, SameCommand
<1>7. TrackInv'
  <2>1. PICK org : Tracked(ir, org)
    BY <1>1 DEF PlaceInv, TrackInv, Active
  <2>2. Tracked(ir, org)'
    BY <1>1, <2>1, SameTracked
  <2> QED
    BY <1>1, <2>2 DEF TrackInv
<1>8. NamedInv'
  BY <1>1, <1>2 DEF NamedInv
<1>9. RemovedInv'
  BY <1>1, <1>2, <1>4, <1>5, <1>6 DEF RemovedInv
<1>10. SwappedInv'
  BY <1>1, <1>2, <1>6, OneMode DEF SwappedInv
<1> QED
  BY <1>7, <1>8, <1>9, <1>10 DEF PlaceInv

\* One removal.
LEMMA EraseNextPlace ==
  ASSUME MInv, PlaceInv, EraseNext
  PROVE  PlaceInv'
<1>1. PICK inst \in mutateInsts : ir' = Erased(ir, inst) /\ mutateInsts' = mutateInsts \ {inst}
  BY DEF EraseNext
<1>2. /\ pc = "erase" /\ UNCHANGED <<cmd, program, lockPairs, func, i, modified>>
      /\ pc' = IF Faulted(ir') THEN "fault" ELSE pc
  BY DEF EraseNext
<1>3. /\ Mode("rm") /\ mutateInsts \cap ir.freed = {}
      /\ ir.fault = "none" /\ Sound(ir) /\ PairsInv /\ program \in Programs /\ Enumerated /\ ArgsAccepted
  BY <1>1, <1>2 DEF MInv, RemoveInv, ModuleInv, PairsInv, Enumerated, ArgsInv
<1>4. /\ modified = (NamedPairs # {}) /\ mutateInsts \subseteq NamedInsts
      /\ \A x \in NamedInsts : x \in mutateInsts \/ x \in ir.freed \/ HasUnexpectedUses(OriginalOp[x])
      /\ \A x \in ir.freed \cap (1..Total) : ~HasUnexpectedUses(OriginalOp[x])
      /\ ir.freed \cap (1..Total) \subseteq NamedInsts
  BY <1>2, <1>3 DEF PlaceInv, RemovedInv, NamedInv
<1>5. inst \in 1..Total /\ OriginalOp[inst].callee # "branch" /\ inst \in PairedInsts
  BY <1>3, <1>4, NamedFacts
<1>6. PICK org : Tracked(ir, org)
  BY <1>2 DEF PlaceInv, TrackInv, Active
<1> DEFINE s == Erased(ir, inst)
<1>7. Mutable(ir, inst)
  BY <1>3, <1>5, PairedMutable
<1>8. s.fault = "none"
  BY <1>3, <1>7, ErasedFacts
<1>9. ~Mode("swap")
  BY <1>3, OneMode
<1>10. (\E org2 : Tracked(s, org2))
       /\ s.freed = IF HasUnexpectedUses(OriginalOp[inst]) THEN ir.freed ELSE ir.freed \union {inst}
  BY <1>1, <1>3, <1>5, <1>6, <1>9, ErasedTracked
<1> HIDE DEF s
<1>11. ir' = s /\ pc' = "erase"
  BY <1>1, <1>2, <1>8 DEF Faulted, s
<1>12. /\ NamedPairs' = NamedPairs /\ NamedInsts' = NamedInsts /\ OriginalOp' = OriginalOp /\ Total' = Total
       /\ Mode("rm")' = Mode("rm") /\ Mode("swap")' = Mode("swap")
  BY <1>2, SameNames, SameCommand, SameProgram, SameModule
<1>13. TrackInv'
  <2>1. PICK org2 : Tracked(ir', org2)
    BY <1>10, <1>11
  <2>2. Tracked(ir, org2)'
    BY <1>2, <2>1, SameTracked
  <2> QED
    BY <1>11, <2>2 DEF TrackInv
<1>14. NamedInv'
  BY <1>1, <1>4, <1>10, <1>11, <1>12 DEF NamedInv
<1>15. RemovedInv'
  <2>1. \A x \in NamedInsts : x \in mutateInsts' \/ x \in s.freed \/ HasUnexpectedUses(OriginalOp[x])
    BY <1>1, <1>4, <1>10
  <2>2. \A x \in s.freed \cap (1..Total) : ~HasUnexpectedUses(OriginalOp[x])
    BY <1>4, <1>10
  <2>3. modified' = (NamedPairs' # {}) /\ mutateInsts' \subseteq NamedInsts'
    BY <1>1, <1>2, <1>4, <1>12
  <2>4. /\ \A x \in NamedInsts' : x \in mutateInsts' \/ x \in ir'.freed \/ HasUnexpectedUses(OriginalOp'[x])
        /\ \A x \in ir'.freed \cap (1..Total') : ~HasUnexpectedUses(OriginalOp'[x])
    BY <1>11, <1>12, <2>1, <2>2
  <2> QED
    BY <1>11, <2>3, <2>4 DEF RemovedInv
<1>16. SwappedInv'
  BY <1>9, <1>12 DEF SwappedInv
<1> QED
  BY <1>13, <1>14, <1>15, <1>16 DEF PlaceInv

-----------------------------------------------------------------------------
(* The turns of -swap *)

\* One of the two swaps of a group.
Swaps(r, a, b, s) ==
  /\ \E org2 : Tracked(s, org2)
  /\ r.freed \subseteq s.freed
  /\ Swappable(OriginalOp[a], OriginalOp[b]) => {a, b} \subseteq s.freed

\* One exchange, of two locks or of two unlocks.
LEMMA SwapRole ==
  ASSUME program \in Programs, NEW r, Sound(r), r.fault = "none", NEW org, Tracked(r, org),
         Mode("swap"), ~Mode("rm"), ~Mode("shift"),
         NEW a \in 1..Total, OriginalOp[a].callee # "branch", NEW b \in 1..Total, OriginalOp[b].callee # "branch",
         a # b, Swappable(OriginalOp[a], OriginalOp[b]) => a \in Partners(b) /\ b \in Partners(a),
         SwapCallOrInvoke(r, a, b).fault = "none"
  PROVE  Swaps(r, a, b, SwapCallOrInvoke(r, a, b))
<1> DEFINE s == SwapCallOrInvoke(r, a, b)
<1>1. r.op[a] = OriginalOp[a] /\ r.op[b] = OriginalOp[b]
  BY DEF Tracked, Content
<1>2. {a, b} \cap r.freed = {}
  <2> SUFFICES ASSUME {a, b} \cap r.freed # {} PROVE FALSE
    OBVIOUS
  <2>1. s = [r EXCEPT !.fault = "dangling"]
    BY DEF SwapCallOrInvoke, Guarded
  <2>2. s.fault = "dangling"
    BY <2>1, FaultSound
  <2> QED
    BY <2>2
<1>3. CASE Swappable(OriginalOp[a], OriginalOp[b])
  <2>1. s.freed = r.freed \union {a, b} /\ \E org2 : Tracked(s, org2)
    BY <1>2, <1>3, SwapTracked
  <2> HIDE DEF s
  <2>2. Swaps(r, a, b, s)
    BY <2>1 DEF Swaps
  <2> QED
    BY <2>2 DEF s
<1>4. CASE ~Swappable(OriginalOp[a], OriginalOp[b])
  <2>1. Mutable(r, a) /\ Mutable(r, b)
    BY OriginalMutable
  <2>2. s = r
    BY <1>1, <1>4, <2>1, SwapFacts
  <2> QED
    BY <1>4, <2>2 DEF Swaps
<1> QED
  BY <1>3, <1>4

\* What can be exchanged in a group are partners.
LEMMA GroupPartners ==
  ASSUME PairsInv, Enumerated, ~Mode("rm"), NEW g \in SwapGroups, NEW role \in {"lock", "unlock"},
         NEW a, a = GenericPair(g)[role], NEW b, b = GenericPair(g + 2)[role],
         Swappable(OriginalOp[a], OriginalOp[b])
  PROVE  a \in Partners(b) /\ b \in Partners(a)
<1>1. a \in NamedInsts /\ b \in NamedInsts /\ a # b
  BY SwapGroupFacts DEF InstsOf
<1>2. Swappable(OriginalOp[b], OriginalOp[a])
  BY DEF Swappable
<1>3. /\ {a, b} = {GenericPair(g)[role], GenericPair(g + 2)[role]}
      /\ {b, a} = {GenericPair(g)[role], GenericPair(g + 2)[role]}
  OBVIOUS
<1> QED
  BY <1>1, <1>2, <1>3 DEF Partners

\* A group is swapped: the locks, then the unlocks.
SwapsBoth(r, p, q, s) ==
  /\ \E org2 : Tracked(s, org2)
  /\ r.freed \subseteq s.freed
  /\ Swappable(OriginalOp[p.lock], OriginalOp[q.lock]) => {p.lock, q.lock} \subseteq s.freed
  /\ Swappable(OriginalOp[p.unlock], OriginalOp[q.unlock]) => {p.unlock, q.unlock} \subseteq s.freed

\* The two exchanges of a group.
LEMMA SwapGroupTracked ==
  ASSUME PairsInv, Enumerated, ArgsAccepted, Mode("swap"), i \in SwapGroups,
         NEW p, p = GenericPair(i), NEW q, q = GenericPair(i + 2),
         Sound(ir), ir.fault = "none", NEW org, Tracked(ir, org),
         NEW s, s = SwapCallOrInvoke(SwapCallOrInvoke(ir, p.lock, q.lock), p.unlock, q.unlock), s.fault = "none"
  PROVE  SwapsBoth(ir, p, q, s)
<1> DEFINE half == SwapCallOrInvoke(ir, p.lock, q.lock)
<1>1. program \in Programs /\ ~Mode("rm") /\ ~Mode("shift")
  BY OneMode DEF PairsInv
<1>2. PairFact(p) /\ PairFact(q) /\ p.lock # q.lock /\ p.unlock # q.unlock
  BY <1>1, SwapGroupFacts
<1>3. /\ p.lock \in 1..Total /\ q.lock \in 1..Total /\ p.unlock \in 1..Total /\ q.unlock \in 1..Total
      /\ OriginalOp[p.lock].callee # "branch" /\ OriginalOp[q.lock].callee # "branch"
      /\ OriginalOp[p.unlock].callee # "branch" /\ OriginalOp[q.unlock].callee # "branch"
  BY <1>2 DEF PairFact
<1>4. /\ Swappable(OriginalOp[p.lock], OriginalOp[q.lock]) => p.lock \in Partners(q.lock) /\ q.lock \in Partners(p.lock)
      /\ Swappable(OriginalOp[p.unlock], OriginalOp[q.unlock]) =>
           p.unlock \in Partners(q.unlock) /\ q.unlock \in Partners(p.unlock)
  <2>1. p.lock = GenericPair(i)["lock"] /\ q.lock = GenericPair(i + 2)["lock"]
    OBVIOUS
  <2>2. p.unlock = GenericPair(i)["unlock"] /\ q.unlock = GenericPair(i + 2)["unlock"]
    OBVIOUS
  <2>3. "lock" \in {"lock", "unlock"} /\ "unlock" \in {"lock", "unlock"}
    OBVIOUS
  <2> QED
    BY <1>1, <2>1, <2>2, <2>3, GroupPartners
<1>5. Mutable(ir, p.lock) /\ Mutable(ir, q.lock)
  BY <1>1, <1>2, PairMutable
<1>6. Erases(ir, half, {p.lock, q.lock})
  BY <1>1, <1>2, <1>5, SwapFacts
<1> HIDE DEF half
<1>7. Sound(half)
  BY <1>6 DEF Erases
<1>8. Mutable(half, p.unlock) /\ Mutable(half, q.unlock)
  BY <1>1, <1>2, <1>7, PairMutable
<1>9. Erases(half, s, {p.unlock, q.unlock})
  BY <1>1, <1>2, <1>7, <1>8, SwapFacts DEF half
<1>10. half.fault = "none"
  BY <1>9 DEF Erases
<1>11. Swaps(ir, p.lock, q.lock, half)
  BY <1>1, <1>2, <1>3, <1>4, <1>10, SwapRole DEF half
<1>12. PICK org1 : Tracked(half, org1)
  BY <1>11 DEF Swaps
<1>13. s = SwapCallOrInvoke(half, p.unlock, q.unlock)
  BY DEF half
<1>14. Swaps(half, p.unlock, q.unlock, s)
  BY <1>1, <1>2, <1>3, <1>4, <1>7, <1>10, <1>12, <1>13, SwapRole
<1> QED
  BY <1>11, <1>14 DEF Swaps, SwapsBoth

\* A turn of the loop of -swap.
LEMMA SwapPairsPlace ==
  ASSUME MInv, PlaceInv, SwapPairs
  PROVE  PlaceInv'
<1> DEFINE p == GenericPair(i)
           q == GenericPair(i + 2)
           s == SwapCallOrInvoke(SwapCallOrInvoke(ir, p.lock, q.lock), p.unlock, q.unlock)
<1>1. /\ pc = "loop" /\ Mode("swap") /\ i < Len(cmd.pos) /\ CanSwap
      /\ UNCHANGED <<cmd, program, lockPairs, func, mutateInsts>> /\ Commit(s, 4)
  BY DEF SwapPairs, Turn
<1>2. /\ ir.fault = "none" /\ Sound(ir) /\ ArgsAccepted /\ PairsInv /\ Enumerated
      /\ i \in Nat /\ i % 4 = 0 /\ Len(cmd.pos) \in Nat /\ i + 3 < Len(cmd.pos)
  BY <1>1, NoOverrun, CommandTypes DEF MInv, ModuleInv, ArgsInv, PairsInv, Enumerated
<1>3. i \in SwapGroups
  <2>1. i \in Groups(4)
    BY <1>2 DEF Groups
  <2> QED
    BY <1>1, <2>1 DEF CanSwap, SwapGroups
<1>4. PICK org : Tracked(ir, org)
  BY <1>1 DEF PlaceInv, TrackInv, Active
<1>5. s.fault = "none" => SwapsBoth(ir, p, q, s)
  <2> HIDE DEF p, q
  <2> QED
    BY <1>1, <1>2, <1>3, <1>4, SwapGroupTracked DEF p, q
<1> HIDE DEF s
<1>6. ir' = s /\ i' = i + 4 /\ pc' = IF Faulted(ir') THEN "fault" ELSE pc
  BY <1>1 DEF Commit
<1>7. TrackInv' /\ NamedInv'
  <2>1. ir'.fault = "none" => \E org2 : Tracked(ir', org2)
    BY <1>5, <1>6 DEF SwapsBoth
  <2> QED
    BY <1>1, <1>6, <2>1, TurnPlace
<1>8. RemovedInv'
  BY <1>1, <1>2, <1>6, SameCommand, OneMode DEF RemovedInv
<1>9. SwappedInv'
  <2>1. ir'.fault = "none" => ir.freed \subseteq ir'.freed
    BY <1>5, <1>6 DEF SwapsBoth
  <2>2. ir'.fault = "none" =>
          \A role \in {"lock", "unlock"} :
            Swappable(OriginalOp[p[role]], OriginalOp[q[role]]) => {p[role], q[role]} \subseteq ir'.freed
    <3> HIDE DEF p, q
    <3> QED
      BY <1>5, <1>6 DEF SwapsBoth
  <2> QED
    BY <1>1, <1>6, <2>1, <2>2, DonePlace
<1> QED
  BY <1>7, <1>8, <1>9 DEF PlaceInv

-----------------------------------------------------------------------------
(* The turns of -shift and of -split *)

\* A turn of the loop of -shift.
LEMMA ShiftPairPlace ==
  ASSUME MInv, PlaceInv, ShiftPair
  PROVE  PlaceInv'
<1> DEFINE p == GenericPair(i)
           dir1 == LockShift
           dir2 == UnlockShift
           half == Shifted(ir, p.lock, dir1)
           s == Shifted(half, p.unlock, dir2)
<1>1. /\ pc = "loop" /\ Mode("shift") /\ i < Len(cmd.pos) /\ HasGenericPair(i)
      /\ UNCHANGED <<cmd, program, lockPairs, func, mutateInsts>> /\ Commit(s, 2)
  BY DEF ShiftPair, Turn
<1>2. /\ ir.fault = "none" /\ Sound(ir) /\ ArgsAccepted /\ PairsInv /\ Enumerated
      /\ i \in Nat /\ i + 1 < Len(cmd.pos) /\ cmd \in Commands /\ program \in Programs
  BY <1>1, NoOverrun DEF MInv, ModuleInv, ArgsInv, PairsInv, Enumerated
<1>3. ~Mode("rm") /\ ~Mode("swap") /\ dir1 \in Int /\ dir2 \in Int
  BY <1>1, <1>2, OneMode, ShiftTypes
<1>4. PICK org : Tracked(ir, org)
  BY <1>1 DEF PlaceInv, TrackInv, Active
<1>5. PairFact(p)
  BY <1>1, <1>2, NamedFact
<1>6. ir' = s /\ i' = i + 2 /\ pc' = IF Faulted(ir') THEN "fault" ELSE pc
  BY <1>1 DEF Commit
<1> HIDE DEF p, dir1, dir2
<1>7. /\ p.lock \in 1..Total /\ OriginalOp[p.lock].callee # "branch"
      /\ p.unlock \in 1..Total /\ OriginalOp[p.unlock].callee # "branch"
      /\ ir.op[p.lock] = OriginalOp[p.lock] /\ ir.op[p.unlock] = OriginalOp[p.unlock]
  BY <1>4, <1>5 DEF PairFact, Tracked, Content
<1>8. Mutable(ir, p.lock)
  BY <1>2, <1>5, PairMutable
<1>9. Shifts(ir, p.lock, dir1, half)
  BY <1>2, <1>3, <1>8, ShiftedFacts
<1>10. half.fault = "none" => \E org1 : Tracked(half, org1)
  BY <1>1, <1>2, <1>3, <1>4, <1>7, ShiftedTracked
<1> HIDE DEF half
<1>11. Sound(half)
  BY <1>9 DEF Shifts, Erases
<1>12. Mutable(half, p.unlock)
  BY <1>2, <1>5, <1>11, PairMutable
<1>13. Shifts(half, p.unlock, dir2, s)
  BY <1>2, <1>3, <1>11, <1>12, ShiftedFacts
<1>14. s.fault = "none" => half.fault = "none"
  BY <1>13 DEF Shifts, Erases
<1>15. s.fault = "none" => \E org2 : Tracked(s, org2)
  <2> SUFFICES ASSUME s.fault = "none" PROVE \E org2 : Tracked(s, org2)
    OBVIOUS
  <2>1. PICK org1 : Tracked(half, org1)
    BY <1>10, <1>14
  <2> QED
    BY <1>1, <1>2, <1>3, <1>7, <1>11, <1>14, <2>1, ShiftedTracked
<1> HIDE DEF s
<1>16. TrackInv' /\ NamedInv'
  BY <1>1, <1>6, <1>15, TurnPlace
<1>17. RemovedInv' /\ SwappedInv'
  BY <1>1, <1>3, <1>6, SameCommand DEF RemovedInv, SwappedInv
<1> QED
  BY <1>16, <1>17 DEF PlaceInv

\* A turn of the loop of -split.
LEMMA SplitPairPlace ==
  ASSUME MInv, PlaceInv, SplitPair
  PROVE  PlaceInv'
<1> DEFINE p == GenericPair(i)
           s == SplitApart(p)
<1>1. /\ pc = "loop" /\ Mode("split") /\ i < Len(cmd.pos) /\ HasGenericPair(i) /\ HasSplitPos /\ ~SplitOverrun
      /\ UNCHANGED <<cmd, program, lockPairs, func, mutateInsts>> /\ Commit(s, 2)
  BY DEF SplitPair, Turn, CanSplit
<1>2. /\ ir.fault = "none" /\ Sound(ir) /\ ArgsAccepted /\ PairsInv /\ Enumerated
      /\ i \in Nat /\ i + 1 < Len(cmd.pos) /\ i + 1 < Len(cmd.splitpos)
      /\ cmd \in Commands /\ program \in Programs /\ ir.freed = {}
  BY <1>1, NoOverrun DEF MInv, ModuleInv, ArgsInv, PairsInv, Enumerated, SplitInv, SplitOverrun, InList
<1>3. ~Mode("rm") /\ ~Mode("swap")
  BY <1>1, <1>2, OneMode
<1>4. PICK org : Tracked(ir, org)
  BY <1>1 DEF PlaceInv, TrackInv, Active
<1>5. PairFact(p)
  BY <1>1, <1>2, NamedFact
<1>6. ir' = s /\ i' = i + 2 /\ pc' = IF Faulted(ir') THEN "fault" ELSE pc
  BY <1>1 DEF Commit
<1>7. s.fault = "none" => \E org2 : Tracked(s, org2)
  <2> HIDE DEF p
  <2> QED
    BY <1>2, <1>3, <1>4, <1>5, SplitTracked
<1> HIDE DEF s
<1>8. TrackInv' /\ NamedInv'
  BY <1>1, <1>6, <1>7, TurnPlace
<1>9. RemovedInv' /\ SwappedInv'
  BY <1>1, <1>3, <1>6, SameCommand DEF RemovedInv, SwappedInv
<1> QED
  BY <1>8, <1>9 DEF PlaceInv

-----------------------------------------------------------------------------
(* The steps after the loops *)

\* Nothing changes in the groups once the loop is over.
LEMMA SameExchanged ==
  ASSUME UNCHANGED <<cmd, program, lockPairs, ir>>, NEW g, NEW role, Exchanged(g, role)
  PROVE  Exchanged(g, role)'
<1>1. OriginalOp' = OriginalOp
  BY SameProgram
<1>2. GenericPair(g)' = GenericPair(g) /\ GenericPair(g + 2)' = GenericPair(g + 2)
  BY DEF GenericPair, Kind, GenericNumber, At
<1> QED
  BY <1>1, <1>2 DEF Exchanged

\* The end of a loop.
LEMMA FinishLoopPlace ==
  ASSUME MInv, PlaceInv, FinishLoop
  PROVE  PlaceInv'
<1>1. /\ pc \in {"loop", "erase"} /\ pc' = "ran"
      /\ UNCHANGED <<cmd, program, ir, lockPairs, func, mutateInsts, i, modified>>
      /\ pc = "loop" => ~Mode("rm") /\ ((\A m \in Modes : ~Mode(m)) \/ i >= Len(cmd.pos))
      /\ pc = "erase" => mutateInsts = {}
  BY DEF FinishLoop
<1>2. /\ ArgsAccepted /\ i \in Nat /\ Len(cmd.pos) \in Nat /\ (pc = "erase" => Mode("rm"))
  BY <1>1, CommandTypes DEF MInv, ArgsInv, PairsInv, RemoveInv
<1>3. /\ NamedPairs' = NamedPairs /\ NamedInsts' = NamedInsts /\ OriginalOp' = OriginalOp /\ Total' = Total
      /\ Mode("rm")' = Mode("rm") /\ Mode("swap")' = Mode("swap") /\ SwapGroups' = SwapGroups
  BY <1>1, SameNames, SameCommand, SameProgram, SameModule
<1>4. TrackInv'
  <2>1. PICK org : Tracked(ir, org)
    BY <1>1 DEF PlaceInv, TrackInv, Active
  <2>2. Tracked(ir, org)'
    BY <1>1, <2>1, SameTracked
  <2> QED
    BY <1>1, <2>2 DEF TrackInv
<1>5. NamedInv'
  <2>1. ir.freed \cap (1..Total) \subseteq NamedInsts
    BY <1>1, LoopNamed DEF PlaceInv, NamedInv
  <2> QED
    BY <1>1, <1>3, <2>1 DEF NamedInv
<1>6. RemovedInv'
  <2>1. Mode("rm") => pc = "erase" /\ mutateInsts = {}
    BY <1>1
  <2> QED
    BY <1>1, <1>3, <2>1 DEF PlaceInv, RemovedInv
<1>7. SwappedInv'
  <2> SUFFICES ASSUME Mode("swap"), NEW g \in SwapGroups
               PROVE  (Exchanged(g, "lock") /\ Exchanged(g, "unlock"))'
    BY <1>3 DEF SwappedInv
  <2>1. pc = "loop" /\ i >= Len(cmd.pos)
    BY <1>1, <1>2, OneMode DEF Modes
  <2>2. g < i
    BY <1>2, <2>1 DEF SwapGroups, Groups
  <2>3. Exchanged(g, "lock") /\ Exchanged(g, "unlock")
    BY <2>1, <2>2 DEF PlaceInv, SwappedInv, Active
  <2> QED
    BY <1>1, <2>3, SameExchanged
<1> QED
  BY <1>4, <1>5, <1>6, <1>7 DEF PlaceInv

\* Nothing changes, or the listing ends.
LEMMA SamePlace ==
  ASSUME MInv, PlaceInv, UNCHANGED <<cmd, program, ir, lockPairs, func, mutateInsts, i, modified>>,
         pc' = pc \/ (pc = "ran" /\ pc' = "done")
  PROVE  PlaceInv'
<1>1. /\ NamedPairs' = NamedPairs /\ NamedInsts' = NamedInsts /\ OriginalOp' = OriginalOp /\ Total' = Total
      /\ Mode("rm")' = Mode("rm") /\ Mode("swap")' = Mode("swap") /\ SwapGroups' = SwapGroups
  BY SameNames, SameCommand, SameProgram, SameModule
<1>2. TrackInv'
  <2>1. CASE Active
    <3>1. PICK org : Tracked(ir, org)
      BY <2>1 DEF PlaceInv, TrackInv
    <3>2. Tracked(ir, org)'
      BY <3>1, SameTracked
    <3> QED
      BY <2>1, <3>2 DEF TrackInv, Active
  <2>2. CASE ~Active
    BY <2>2 DEF PlaceInv, TrackInv, Active
  <2> QED
    BY <2>1, <2>2
<1>3. NamedInv'
  BY <1>1 DEF PlaceInv, NamedInv
<1>4. RemovedInv'
  <2>1. Collected(i)' = Collected(i)
    BY SameNames, SameCommand DEF Collected, Groups, HasPair, PairAt, Finds, Kind, At
  <2> QED
    BY <1>1, <2>1 DEF PlaceInv, RemovedInv
<1>5. SwappedInv'
  <2> SUFFICES ASSUME Mode("swap"), Active', NEW g \in SwapGroups, pc' = "loop" => g < i
               PROVE  (Exchanged(g, "lock") /\ Exchanged(g, "unlock"))'
    BY <1>1 DEF SwappedInv
  <2>1. Exchanged(g, "lock") /\ Exchanged(g, "unlock")
    BY DEF PlaceInv, SwappedInv, Active
  <2> QED
    BY <2>1, SameExchanged
<1> QED
  BY <1>2, <1>3, <1>4, <1>5 DEF PlaceInv

\* print(): no instruction changes.
LEMMA PrintPairsPlace ==
  ASSUME MInv, PlaceInv, PrintPairs
  PROVE  PlaceInv'
<1>1. /\ pc = "ran" /\ ir' = IF VerbosePrint THEN Dereference(ir, PairedInsts) ELSE ir
      /\ pc' = IF Faulted(ir') THEN "fault" ELSE "done"
      /\ UNCHANGED <<cmd, program, lockPairs, func, mutateInsts, i, modified>>
  BY DEF PrintPairs
<1>2. ir.fault = "none" /\ Sound(ir)
  BY <1>1 DEF MInv, ModuleInv
<1>3. [ir EXCEPT !.fault = "dangling"].fault = "dangling"
  BY <1>2, FaultSound
<1>4. ir' = ir \/ ir'.fault # "none"
  BY <1>1, <1>2, <1>3 DEF Dereference, Guarded
<1>5. CASE ir' = ir
  BY <1>1, <1>2, <1>5, SamePlace DEF Faulted
<1>6. CASE ir'.fault # "none"
  BY <1>1, <1>6 DEF Faulted, PlaceInv, TrackInv, NamedInv, RemovedInv, SwappedInv, Active
<1> QED
  BY <1>4, <1>5, <1>6

\* PlaceInv is inductive, relative to MInv.
LEMMA PlaceStep == MInv /\ PlaceInv /\ [Next]_vars => PlaceInv'
<1> SUFFICES ASSUME MInv, PlaceInv, [Next]_vars PROVE PlaceInv'
  OBVIOUS
<1>1. CASE CheckCommandLineArgs
  BY <1>1, CheckArgsPlace
<1>2. CASE EnumerateFunction
  BY <1>2, EnumeratePlace
<1>3. CASE CollectPair
  BY <1>3, CollectPlace
<1>4. CASE SkipCollect \/ SkipSwap \/ SkipShift \/ SkipSplit
  BY <1>4, SkipPlace
<1>5. CASE StartErasing
  BY <1>5, StartErasingPlace
<1>6. CASE EraseNext
  BY <1>6, EraseNextPlace
<1>7. CASE SwapPairs
  BY <1>7, SwapPairsPlace
<1>8. CASE ShiftPair
  BY <1>8, ShiftPairPlace
<1>9. CASE SplitPair
  BY <1>9, SplitPairPlace
<1>10. CASE FinishLoop
  BY <1>10, FinishLoopPlace
<1>11. CASE PrintPairs
  BY <1>11, PrintPairsPlace
<1>12. CASE UNCHANGED vars
  BY <1>12, SamePlace DEF vars
<1> QED
  BY <1>1, <1>2, <1>3, <1>4, <1>5, <1>6, <1>7, <1>8, <1>9, <1>10, <1>11, <1>12 DEF Next, Terminated

\* The second inductive invariant: every instruction of the module is one that was
\* there, or stands for one that was erased, or for none; what was erased belongs to
\* named pairs, and -rm and -swap leave out none of what they were asked for.
THEOREM PlacesAreKept == Spec => []PlaceInv
<1> QED
  BY InitPlace, PlaceStep, Invariance, PTL DEF Spec

-----------------------------------------------------------------------------
(* What -rm and -swap leave in the place of every instruction *)

\* Each instruction of a body stands for one, for that at the same place of a sequence.
EachStands(b, org) == \A n \in 1..Len(b) : org[b[n]] # 0
StandsFor(b, org, t) == Len(b) = Len(t) /\ \A n \in 1..Len(t) : org[b[n]] = t[n]

\* A body without instructions that stand for none is as long as what it stands for.
LEMMA StandFor ==
  ASSUME NEW b \in Seq(Nat), NEW org, NEW S \in SUBSET (Nat \ {0}), Stands(b, org, S),
         NEW t \in Seq(Nat), Increasing(t), ToSet(t) = S, EachStands(b, org)
  PROVE  StandsFor(b, org, t)
<1> DEFINE s == [n \in 1..Len(b) |-> org[b[n]]]
<1>1. \A n \in 1..Len(b) : org[b[n]] \in S /\ org[b[n]] \in Nat /\ org[b[n]] # 0
  BY DEF Stands, EachStands
<1>2. s \in Seq(Nat) /\ Len(s) = Len(b)
  BY <1>1, AsSeq
<1>3. \A n \in 1..Len(b) : s[n] = org[b[n]]
  OBVIOUS
<1> HIDE DEF s
<1>4. Increasing(s)
  <2> SUFFICES ASSUME NEW m \in 1..Len(b), NEW n \in 1..Len(b), m < n PROVE s[m] < s[n]
    BY <1>2 DEF Increasing
  <2>1. org[b[m]] < org[b[n]]
    BY <1>1 DEF Stands
  <2> QED
    BY <1>3, <2>1
<1>5. ToSet(s) = S
  <2>1. ToSet(s) = {s[n] : n \in 1..Len(b)}
    BY <1>2 DEF ToSet
  <2>2. \A y \in S : \E n \in 1..Len(b) : s[n] = y
    BY <1>3 DEF Stands
  <2>3. \A n \in 1..Len(b) : s[n] \in S
    BY <1>1, <1>3
  <2>4. \A y : y \in ToSet(s) <=> \E n \in 1..Len(b) : s[n] = y
    BY <2>1
  <2>5. \A y : y \in ToSet(s) <=> y \in S
    BY <2>2, <2>3, <2>4
  <2> QED
    BY <2>5
<1>6. s = t
  BY <1>2, <1>4, <1>5, SameElements
<1> QED
  BY <1>2, <1>3, <1>6 DEF StandsFor

\* What a tracked module says of a body.
BodyAccounts(r, org, b, S) ==
  /\ b \in Seq(Nat) /\ Stands(b, org, S)
  /\ \A x \in 1..Total : org[x] = x /\ r.op[x] = OriginalOp[x]
  /\ \A n \in 1..Len(b) : b[n] \in 1..Len(r.op) /\ org[b[n]] \in 0..Total /\ Accounted(r, org, b[n])

\* Each instruction of a body is accounted for.
LEMMA BodyFacts ==
  ASSUME program \in Programs, NEW r, Sound(r), NEW org, Tracked(r, org), NEW f \in 1..Len(program)
  PROVE  BodyAccounts(r, org, r.body[f], ToSet(Original(f)) \ Lost(r))
<1>1. r.body[f] \in Seq(Nat) /\ f \in 1..Len(r.body)
  BY DEF Sound, IRType
<1>2. Anchored(r, org, Lost(r)) /\ Content(r, org)
  BY DEF Tracked
<1>3. \A n \in 1..Len(r.body[f]) : Occurs(r, r.body[f][n])
  BY <1>1 DEF Occurs
<1>4. \A n \in 1..Len(r.body[f]) : r.body[f][n] \in 1..Len(r.op) /\ org[r.body[f][n]] \in 0..Total
  BY <1>2, <1>3, OccurringKnown
<1>5. Stands(r.body[f], org, ToSet(Original(f)) \ Lost(r)) /\ \A x \in 1..Total : org[x] = x
  BY <1>2 DEF Anchored
<1>6. /\ \A x \in 1..Total : r.op[x] = OriginalOp[x]
      /\ \A n \in 1..Len(r.body[f]) : Accounted(r, org, r.body[f][n])
  BY <1>2, <1>3 DEF Content
<1> QED
  BY <1>1, <1>4, <1>5, <1>6 DEF BodyAccounts

RemovedPlaces(f, gone, calls) ==
  LET kept == Kept(Original(f), ToSet(Original(f)) \ calls)
  IN  /\ Len(ir.body[f]) = Len(kept)
      /\ \A n \in 1..Len(kept) :
           IF kept[n] \in gone THEN ir.op[ir.body[f][n]] = Branch ELSE ir.body[f][n] = kept[n]

\* What -rm leaves of a function.
LEMMA RemovedFacts ==
  ASSUME program \in Programs, Sound(ir), NEW org, Tracked(ir, org), Mode("rm"), NEW f \in 1..Len(program),
         NEW gone, gone = ir.freed \cap (1..Total), NEW calls, calls = Lost(ir)
  PROVE  RemovedPlaces(f, gone, calls)
<1> DEFINE o == Original(f)
           b == ir.body[f]
           kept == Kept(o, ToSet(o) \ calls)
<1>1. /\ o \in Seq(Nat) /\ Increasing(o) /\ ToSet(o) \subseteq 1..Total /\ ToSet(o) \in SUBSET (Nat \ {0})
      /\ Total \in Nat
  BY OriginalSets, Sizes
<1> DEFINE S == ToSet(o) \ calls
<1>2. /\ b \in Seq(Nat) /\ Stands(b, org, S)
      /\ \A x \in 1..Total : org[x] = x
      /\ \A n \in 1..Len(b) : org[b[n]] \in 0..Total /\ Accounted(ir, org, b[n])
  <2>1. BodyAccounts(ir, org, ir.body[f], ToSet(Original(f)) \ Lost(ir))
    BY BodyFacts
  <2>2. S = ToSet(Original(f)) \ Lost(ir)
    OBVIOUS
  <2> HIDE DEF S, o
  <2>3. BodyAccounts(ir, org, b, S)
    BY <2>1, <2>2
  <2> QED
    BY <2>3 DEF BodyAccounts
<1> HIDE DEF o, b
<1>3. kept \in Seq(Nat) /\ Increasing(kept) /\ ToSet(kept) = ToSet(o) \ calls
  <2>1. ToSet(o) \cap (ToSet(o) \ calls) = ToSet(o) \ calls
    OBVIOUS
  <2> QED
    BY <1>1, <2>1, KeptIncreasing
<1> HIDE DEF kept
<1>4. \A n \in 1..Len(b) :
        /\ b[n] \in 1..Total => org[b[n]] = b[n] /\ b[n] \notin gone
        /\ b[n] \notin 1..Total => org[b[n]] \in gone /\ ir.op[b[n]] = Branch
  <2> SUFFICES ASSUME NEW n \in 1..Len(b)
               PROVE  /\ b[n] \in 1..Total => org[b[n]] = b[n] /\ b[n] \notin gone
                      /\ b[n] \notin 1..Total => org[b[n]] \in gone /\ ir.op[b[n]] = Branch
    OBVIOUS
  <2>1. Accounted(ir, org, b[n]) /\ org[b[n]] \in 0..Total
    BY <1>2
  <2>2. /\ b[n] \in 1..Total => b[n] \notin ir.freed
        /\ b[n] \notin 1..Total => org[b[n]] # 0 /\ org[b[n]] \in ir.freed /\ ir.op[b[n]] = Branch
    BY <2>1 DEF Accounted
  <2> QED
    BY <1>1, <1>2, <2>1, <2>2
<1>5. \A n \in 1..Len(b) : org[b[n]] # 0
  <2> SUFFICES ASSUME NEW n \in 1..Len(b) PROVE org[b[n]] # 0
    OBVIOUS
  <2>1. b[n] \in 1..Total => org[b[n]] # 0
    BY <1>1, <1>4
  <2>2. b[n] \notin 1..Total => org[b[n]] # 0
    BY <1>1, <1>4
  <2> QED
    BY <2>1, <2>2
<1>6. Len(b) = Len(kept) /\ \A n \in 1..Len(kept) : org[b[n]] = kept[n]
  <2>1. S \in SUBSET (Nat \ {0}) /\ ToSet(kept) = S
    BY <1>1, <1>3
  <2> HIDE DEF S
  <2>2. EachStands(b, org)
    BY <1>5 DEF EachStands
  <2>3. StandsFor(b, org, kept)
    BY <1>2, <1>3, <2>1, <2>2, StandFor
  <2> QED
    BY <2>3 DEF StandsFor
<1>7. \A n \in 1..Len(kept) : IF kept[n] \in gone THEN ir.op[b[n]] = Branch ELSE b[n] = kept[n]
  BY <1>4, <1>6
<1> QED
  BY <1>6, <1>7 DEF RemovedPlaces, o, b, kept

\* Whatever the module and the positions, -rm takes out exactly the calls of the named
\* pairs, leaves a branch for each invoke of them, keeps a C++11 call that is used
\* and everything else where it was, and reports a change if it found a pair.
THEOREM RemovesExactly == Spec => []RemoveExact
<1>1. MInv /\ PlaceInv => RemoveExact
  <2> SUFFICES ASSUME MInv, PlaceInv, Mode("rm"), Ran PROVE RemoveExact
    BY DEF RemoveExact
  <2> DEFINE gone == {inst \in NamedInsts : ~HasUnexpectedUses(OriginalOp[inst])}
             calls == {inst \in gone : ~OriginalOp[inst].invoke}
  <2>1. pc \in {"ran", "done"} /\ Enumerated /\ Active
    BY DEF Ran, Enumerated, Active
  <2>2. program \in Programs /\ Sound(ir) /\ PairsInv
    BY DEF MInv, ModuleInv, PairsInv
  <2>3. PICK org : Tracked(ir, org)
    BY <2>1 DEF PlaceInv, TrackInv
  <2>4. /\ modified = (NamedPairs # {}) /\ mutateInsts = {}
        /\ \A x \in NamedInsts : x \in ir.freed \/ HasUnexpectedUses(OriginalOp[x])
        /\ \A x \in ir.freed \cap (1..Total) : ~HasUnexpectedUses(OriginalOp[x])
        /\ ir.freed \cap (1..Total) \subseteq NamedInsts
    BY <2>1 DEF PlaceInv, RemovedInv, NamedInv
  <2>5. \A inst \in NamedInsts : inst \in 1..Total /\ OriginalOp[inst].callee # "branch"
    BY <2>1, <2>2, NamedFacts
  <2>6. gone = ir.freed \cap (1..Total)
    BY <2>4, <2>5
  <2>7. calls = Lost(ir)
    <3>1. \A inst \in gone : IsTerminator(OriginalOp[inst]) <=> OriginalOp[inst].invoke
      BY <2>5 DEF IsTerminator
    <3> HIDE DEF gone
    <3> QED
      BY <2>6, <3>1 DEF Lost
  <2> HIDE DEF gone, calls
  <2>8. \A f \in 1..Len(program) : RemovedPlaces(f, gone, calls)
    BY <2>2, <2>3, <2>6, <2>7, RemovedFacts
  <2> QED
    BY <2>4, <2>8 DEF RemoveExact, RemovedPlaces, gone, calls
<1> QED
  BY <1>1, Invariance, PlacesAreKept, PTL

SwappedPlaces(f) ==
  /\ Len(ir.body[f]) = Len(Original(f))
  /\ \A n \in 1..Len(Original(f)) :
       LET inst == Original(f)[n]
       IN  IF Partners(inst) = {} THEN ir.body[f][n] = inst
           ELSE \E other \in Partners(inst) :
                  ir.op[ir.body[f][n]] = InPlaceOf(OriginalOp[other], OriginalOp[inst])

\* What -swap leaves of a function.
LEMMA SwappedFacts ==
  ASSUME program \in Programs, Sound(ir), NEW org, Tracked(ir, org), Mode("swap"), ~Mode("rm"), ~Mode("shift"),
         NEW f \in 1..Len(program), \A inst : Partners(inst) # {} => inst \in ir.freed
  PROVE  SwappedPlaces(f)
<1> DEFINE o == Original(f)
           b == ir.body[f]
<1>1. /\ o \in Seq(Nat) /\ Increasing(o) /\ ToSet(o) \subseteq 1..Total /\ ToSet(o) \in SUBSET (Nat \ {0})
      /\ Total \in Nat
  BY OriginalSets, Sizes
<1>2. Lost(ir) = {}
  BY DEF Lost
<1>3. /\ b \in Seq(Nat) /\ Stands(b, org, ToSet(o))
      /\ \A x \in 1..Total : org[x] = x
      /\ \A n \in 1..Len(b) : org[b[n]] \in 0..Total /\ Accounted(ir, org, b[n])
  <2>1. BodyAccounts(ir, org, ir.body[f], ToSet(Original(f)) \ Lost(ir))
    BY BodyFacts
  <2>2. ToSet(Original(f)) = ToSet(Original(f)) \ Lost(ir)
    BY <1>2
  <2>3. BodyAccounts(ir, org, b, ToSet(o))
    BY <2>1, <2>2
  <2> QED
    BY <2>3 DEF BodyAccounts
<1> HIDE DEF o, b
<1>4. \A n \in 1..Len(b) :
        /\ b[n] \in 1..Total => org[b[n]] = b[n] /\ b[n] \notin ir.freed
        /\ b[n] \notin 1..Total =>
             /\ org[b[n]] # 0
             /\ \E other \in Partners(org[b[n]]) : ir.op[b[n]] = InPlaceOf(OriginalOp[other], OriginalOp[org[b[n]]])
  <2> SUFFICES ASSUME NEW n \in 1..Len(b)
               PROVE  /\ b[n] \in 1..Total => org[b[n]] = b[n] /\ b[n] \notin ir.freed
                      /\ b[n] \notin 1..Total =>
                           /\ org[b[n]] # 0
                           /\ \E other \in Partners(org[b[n]]) :
                                ir.op[b[n]] = InPlaceOf(OriginalOp[other], OriginalOp[org[b[n]]])
    OBVIOUS
  <2>1. Accounted(ir, org, b[n])
    BY <1>3
  <2> QED
    BY <1>3, <2>1 DEF Accounted
<1>5. \A n \in 1..Len(b) : org[b[n]] # 0
  <2> SUFFICES ASSUME NEW n \in 1..Len(b) PROVE org[b[n]] # 0
    OBVIOUS
  <2>1. b[n] \in 1..Total => org[b[n]] # 0
    BY <1>1, <1>4
  <2>2. b[n] \notin 1..Total => org[b[n]] # 0
    BY <1>4
  <2> QED
    BY <2>1, <2>2
<1>6. Len(b) = Len(o) /\ \A n \in 1..Len(o) : org[b[n]] = o[n]
  <2>1. EachStands(b, org)
    BY <1>5 DEF EachStands
  <2>2. StandsFor(b, org, o)
    BY <1>1, <1>3, <2>1, StandFor
  <2> QED
    BY <2>2 DEF StandsFor
<1>7. ASSUME NEW n \in 1..Len(o)
      PROVE  IF Partners(o[n]) = {} THEN b[n] = o[n]
             ELSE \E other \in Partners(o[n]) : ir.op[b[n]] = InPlaceOf(OriginalOp[other], OriginalOp[o[n]])
  <2>1. n \in 1..Len(b) /\ org[b[n]] = o[n]
    BY <1>6
  <2>2. CASE Partners(o[n]) = {}
    <3>1. b[n] \in 1..Total
      BY <1>4, <2>1, <2>2
    <3> QED
      BY <1>4, <2>1, <2>2, <3>1
  <2>3. CASE Partners(o[n]) # {}
    <3>1. o[n] \in ir.freed
      BY <2>3
    <3>2. b[n] \notin 1..Total
      BY <1>4, <2>1, <3>1
    <3> QED
      BY <1>4, <2>1, <2>3, <3>2
  <2> QED
    BY <2>2, <2>3
<1> QED
  BY <1>6, <1>7 DEF SwappedPlaces, o, b

\* Whatever the module and the positions, -swap keeps every function as long as it
\* was and puts in the place of each lock or unlock that can be exchanged what a
\* partner of it called; everything else is where it was.
THEOREM SwapsExactly == Spec => []SwapExact
<1>1. MInv /\ PlaceInv => SwapExact
  <2> SUFFICES ASSUME MInv, PlaceInv, Mode("swap"), Ran PROVE SwapExact
    BY DEF SwapExact
  <2>1. pc \in {"ran", "done"} /\ Enumerated /\ Active
    BY DEF Ran, Enumerated, Active
  <2>2. program \in Programs /\ Sound(ir) /\ ~Mode("rm") /\ ~Mode("shift")
    BY <2>1, OneMode DEF MInv, ModuleInv, PairsInv, ArgsInv
  <2>3. PICK org : Tracked(ir, org)
    BY <2>1 DEF PlaceInv, TrackInv
  <2>4. ASSUME NEW inst, Partners(inst) # {} PROVE inst \in ir.freed
    <3>1. PICK other \in NamedInsts :
            /\ Swappable(OriginalOp[inst], OriginalOp[other])
            /\ \E g \in SwapGroups, role \in {"lock", "unlock"} :
                 {inst, other} = {GenericPair(g)[role], GenericPair(g + 2)[role]}
      BY <2>4 DEF Partners
    <3>2. PICK g \in SwapGroups, role \in {"lock", "unlock"} :
            {inst, other} = {GenericPair(g)[role], GenericPair(g + 2)[role]}
      BY <3>1
    <3> DEFINE a == GenericPair(g)[role]
               c == GenericPair(g + 2)[role]
    <3>3. Exchanged(g, role)
      BY <2>1 DEF PlaceInv, SwappedInv
    <3> HIDE DEF a, c
    <3>4. {inst, other} = {a, c}
      BY <3>2 DEF a, c
    <3>5. Swappable(OriginalOp[a], OriginalOp[c])
      BY <3>1, <3>4 DEF Swappable
    <3>6. {a, c} \subseteq ir.freed
      BY <3>3, <3>5 DEF Exchanged, a, c
    <3> QED
      BY <3>4, <3>6
  <2>5. \A f \in 1..Len(program) : SwappedPlaces(f)
    BY <2>2, <2>3, <2>4, SwappedFacts
  <2> QED
    BY <2>5 DEF SwapExact, SwappedPlaces
<1> QED
  BY <1>1, Invariance, PlacesAreKept, PTL

-----------------------------------------------------------------------------
(* The blocks *)

\* The terminators of a function before an instruction that was there.
Below(f, x) == Cardinality({y \in ToSet(Original(f)) : IsTerminator(OriginalOp[y]) /\ y < x})

\* A body whose terminators stand for those of the function.
Terminates(b, org, f, S) ==
  /\ b \in Seq(Nat) /\ Stands(b, org, S) /\ S \subseteq ToSet(Original(f))
  /\ \A y \in ToSet(Original(f)) : IsTerminator(OriginalOp[y]) => y \in S
  /\ \A n \in 1..Len(b) :
       /\ org[b[n]] \in 0..Total
       /\ IsTerminator(ir.op[b[n]]) <=> org[b[n]] # 0 /\ IsTerminator(OriginalOp[org[b[n]]])

\* Sets between which there is a bijection have the same number of elements.
LEMMA SameCount ==
  ASSUME NEW S, IsFiniteSet(S), NEW T, NEW h \in [S -> T],
         \A x, y \in S : h[x] = h[y] => x = y, \A z \in T : \E x \in S : h[x] = z
  PROVE  Cardinality(S) = Cardinality(T)
<1>1. h \in Bijection(S, T)
  BY DEF Bijection, Injection, Surjection, IsInjective
<1> QED
  BY <1>1, FS_Bijection DEF ExistsBijection

\* The block of an instruction: as many terminators as were before what it stands for.
LEMMA BlockNumber ==
  ASSUME program \in Programs, NEW f \in 1..Len(program), NEW b, NEW org, NEW S, Terminates(b, org, f, S),
         NEW n \in 1..Len(b), org[b[n]] # 0
  PROVE  Block(b, n) = Below(f, org[b[n]])
<1> DEFINE o == Original(f)
           M == {m \in 1..(n - 1) : IsTerminator(ir.op[b[m]])}
           Y == {y \in ToSet(o) : IsTerminator(OriginalOp[y]) /\ y < org[b[n]]}
           h == [m \in M |-> org[b[m]]]
<1>1. ToSet(o) \in SUBSET (Nat \ {0}) /\ Total \in Nat
  BY OriginalSets, Sizes
<1>2. /\ b \in Seq(Nat) /\ S \subseteq ToSet(o)
      /\ \A y \in ToSet(o) : IsTerminator(OriginalOp[y]) => y \in S
      /\ \A m \in 1..Len(b) :
           /\ org[b[m]] \in 0..Total /\ (org[b[m]] # 0 => org[b[m]] \in S)
           /\ IsTerminator(ir.op[b[m]]) <=> org[b[m]] # 0 /\ IsTerminator(OriginalOp[org[b[m]]])
      /\ \A l, m \in 1..Len(b) : l < m /\ org[b[l]] # 0 /\ org[b[m]] # 0 => org[b[l]] < org[b[m]]
      /\ \A y \in S : \E m \in 1..Len(b) : org[b[m]] = y
  BY DEF Terminates, Stands
<1>3. Len(b) \in Nat
  BY <1>2
<1> HIDE DEF o
<1>4. \A m \in M : m \in 1..Len(b) /\ m < n /\ org[b[m]] # 0 /\ org[b[m]] \in Y
  <2> SUFFICES ASSUME NEW m \in M PROVE m \in 1..Len(b) /\ m < n /\ org[b[m]] # 0 /\ org[b[m]] \in Y
    OBVIOUS
  <2>1. m \in 1..Len(b) /\ m < n /\ IsTerminator(ir.op[b[m]])
    BY <1>3
  <2>2. org[b[m]] # 0 /\ IsTerminator(OriginalOp[org[b[m]]]) /\ org[b[m]] \in S
    BY <1>2, <2>1
  <2>3. org[b[m]] < org[b[n]]
    BY <1>2, <2>1, <2>2
  <2> QED
    BY <1>2, <2>1, <2>2, <2>3
<1>5. \A y \in Y : \E m \in M : org[b[m]] = y
  <2> SUFFICES ASSUME NEW y \in Y PROVE \E m \in M : org[b[m]] = y
    OBVIOUS
  <2>1. y \in ToSet(o) /\ IsTerminator(OriginalOp[y]) /\ y < org[b[n]] /\ y # 0 /\ y \in Nat /\ y \in S
    BY <1>1, <1>2
  <2>2. PICK m \in 1..Len(b) : org[b[m]] = y
    BY <1>2, <2>1
  <2>3. ~(n < m) /\ n # m
    <3>1. n < m => org[b[n]] < org[b[m]]
      BY <1>2, <2>1, <2>2
    <3>2. org[b[n]] \in Nat
      BY <1>2
    <3> QED
      BY <2>1, <2>2, <3>1, <3>2
  <2>4. m \in 1..(n - 1)
    BY <1>3, <2>2, <2>3
  <2>5. IsTerminator(ir.op[b[m]])
    BY <1>2, <2>1, <2>2
  <2> QED
    BY <2>2, <2>4, <2>5
<1>6. IsFiniteSet(M)
  <2>1. IsFiniteSet(1..(n - 1))
    BY FS_Interval
  <2>2. M \in SUBSET (1..(n - 1))
    OBVIOUS
  <2> QED
    BY <2>1, <2>2, FS_Subset
<1>7. \A l, m \in M : org[b[l]] = org[b[m]] => l = m
  <2> SUFFICES ASSUME NEW l \in M, NEW m \in M, org[b[l]] = org[b[m]] PROVE l = m
    OBVIOUS
  <2>1. l \in 1..Len(b) /\ m \in 1..Len(b) /\ org[b[l]] # 0 /\ org[b[m]] # 0
    BY <1>4
  <2>2. org[b[l]] \in 0..Total
    BY <1>2, <2>1
  <2> DEFINE x == org[b[l]]
             z == org[b[m]]
  <2>3. x \in Nat /\ z = x
    BY <1>1, <2>2
  <2>4. (l < m => x < z) /\ (m < l => z < x)
    BY <1>2, <2>1
  <2> HIDE DEF x, z
  <2>5. ~(l < m) /\ ~(m < l)
    BY <2>3, <2>4
  <2> QED
    BY <2>1, <2>5
<1> HIDE DEF M, Y
<1>8. h \in [M -> Y]
  BY <1>4
<1>9. Cardinality(M) = Cardinality(Y)
  <2>1. \A l, m \in M : h[l] = h[m] => l = m
    BY <1>7
  <2>2. \A y \in Y : \E m \in M : h[m] = y
    BY <1>5
  <2> HIDE DEF h
  <2> QED
    BY <1>6, <1>8, <2>1, <2>2, SameCount
<1> QED
  BY <1>9 DEF Block, Below, M, Y, o

\* The places of the instructions no pair names.
Unnamed(body) ==
  Kept([n \in 1..Len(body) |-> n],
       {n \in 1..Len(body) : body[n] \notin NamedInsts /\ body[n] <= Len(OriginalOp)})

\* The places of the instructions of the program that are in no named pair.
LEMMA UnnamedFacts ==
  ASSUME NEW b \in Seq(Nat)
  PROVE  /\ Unnamed(b) \in Seq(Nat) /\ Increasing(Unnamed(b))
         /\ \A n : n \in ToSet(Unnamed(b)) <=>
              n \in 1..Len(b) /\ b[n] \notin NamedInsts /\ b[n] <= Len(OriginalOp)
<1> DEFINE all == [n \in 1..Len(b) |-> n]
           S == {n \in 1..Len(b) : b[n] \notin NamedInsts /\ b[n] <= Len(OriginalOp)}
<1>1. Len(b) \in Nat
  OBVIOUS
<1>2. all \in [1..Len(b) -> Nat] /\ \A n \in 1..Len(b) : all[n] = n
  BY <1>1
<1>3. all \in Seq(Nat) /\ Len(all) = Len(b)
  BY <1>1, <1>2, AsSeq
<1> HIDE DEF all
<1>4. Increasing(all)
  BY <1>2, <1>3 DEF Increasing
<1>5. \A n : n \in ToSet(all) <=> n \in 1..Len(b)
  BY <1>2, <1>3 DEF ToSet
<1> HIDE DEF S
<1>6. Kept(all, S) \in Seq(Nat) /\ Increasing(Kept(all, S)) /\ ToSet(Kept(all, S)) = ToSet(all) \cap S
  BY <1>3, <1>4, KeptIncreasing
<1>7. Unnamed(b) = Kept(all, S)
  BY DEF Unnamed, all, S
<1>8. \A n : n \in S <=> n \in 1..Len(b) /\ b[n] \notin NamedInsts /\ b[n] <= Len(OriginalOp)
  BY DEF S
<1>9. \A n : n \in ToSet(Unnamed(b)) <=> n \in S
  BY <1>5, <1>6, <1>7, <1>8
<1> QED
  BY <1>6, <1>7, <1>8, <1>9

\* A body that has what no pair names, and nothing else that was there in its stead.
Unmoved(b, org, f, S) ==
  /\ Terminates(b, org, f, S)
  /\ DOMAIN org \subseteq Nat \ {0}
  /\ \A x \in 1..Total : org[x] = x
  /\ \A y \in ToSet(Original(f)) : y \notin NamedInsts => y \in S
  /\ \A n \in 1..Len(b) : b[n] \notin 1..Total /\ org[b[n]] # 0 => org[b[n]] \in NamedInsts

\* s lists what no pair names.
Lists(s, f) ==
  /\ s \in Seq(Nat) /\ Increasing(s)
  /\ \A y : y \in ToSet(s) <=> y \in ToSet(Original(f)) /\ y \notin NamedInsts

\* The others of a body, in their order, each with its block.
LEMMA OthersAre ==
  ASSUME program \in Programs, NEW f \in 1..Len(program), NEW b, NEW org, NEW S, Unmoved(b, org, f, S)
  PROVE  \E s : Lists(s, f) /\ Others(b) = [k \in 1..Len(s) |-> <<s[k], Below(f, s[k])>>]
<1> DEFINE o == Original(f)
           at == Unnamed(b)
           s == [k \in 1..Len(at) |-> b[at[k]]]
<1>1. ToSet(o) \subseteq 1..Total /\ Total \in Nat /\ Len(OriginalOp) = Total
  BY OriginalSets, Sizes, OriginalOps
<1>2. /\ b \in Seq(Nat) /\ S \subseteq ToSet(o) /\ Terminates(b, org, f, S)
      /\ \A n \in 1..Len(b) : b[n] \in Nat \ {0} /\ (org[b[n]] # 0 => org[b[n]] \in S)
      /\ \A l, m \in 1..Len(b) : l < m /\ org[b[l]] # 0 /\ org[b[m]] # 0 => org[b[l]] < org[b[m]]
      /\ \A y \in S : \E m \in 1..Len(b) : org[b[m]] = y
      /\ \A x \in 1..Total : org[x] = x
      /\ \A y \in ToSet(o) : y \notin NamedInsts => y \in S
      /\ \A n \in 1..Len(b) : b[n] \notin 1..Total /\ org[b[n]] # 0 => org[b[n]] \in NamedInsts
  BY DEF Unmoved, Terminates, Stands
<1>3. /\ at \in Seq(Nat) /\ Increasing(at)
      /\ \A n : n \in ToSet(at) <=> n \in 1..Len(b) /\ b[n] \notin NamedInsts /\ b[n] <= Total
  BY <1>1, <1>2, UnnamedFacts
<1> HIDE DEF at, o
<1>4. \A k \in 1..Len(at) : at[k] \in ToSet(at)
  BY <1>3 DEF ToSet
<1>5. ASSUME NEW k \in 1..Len(at)
      PROVE  /\ at[k] \in 1..Len(b) /\ b[at[k]] \in 1..Total /\ b[at[k]] \notin NamedInsts
             /\ org[b[at[k]]] = b[at[k]] /\ org[b[at[k]]] # 0
  <2>1. at[k] \in 1..Len(b) /\ b[at[k]] \notin NamedInsts /\ b[at[k]] <= Total
    BY <1>3, <1>4
  <2>2. b[at[k]] \in Nat \ {0}
    BY <1>2, <2>1
  <2>3. b[at[k]] \in 1..Total /\ b[at[k]] # 0
    BY <1>1, <2>1, <2>2
  <2> QED
    BY <1>2, <2>1, <2>3
<1>6. Len(at) \in Nat
  BY <1>3
<1>7. s \in Seq(Nat) /\ Len(s) = Len(at)
  <2>1. s \in [1..Len(at) -> Nat]
    BY <1>2, <1>5
  <2> QED
    BY <1>6, <2>1, AsSeq
<1>8. \A k \in 1..Len(at) : s[k] = b[at[k]]
  OBVIOUS
<1> HIDE DEF s
<1>9. Increasing(s)
  <2> SUFFICES ASSUME NEW j \in 1..Len(at), NEW k \in 1..Len(at), j < k PROVE s[j] < s[k]
    BY <1>7 DEF Increasing
  <2>1. at[j] < at[k]
    BY <1>3 DEF Increasing
  <2>2. org[b[at[j]]] < org[b[at[k]]]
    BY <1>2, <1>5, <2>1
  <2> QED
    BY <1>5, <1>8, <2>2
<1>10. ASSUME NEW y PROVE y \in ToSet(s) <=> y \in ToSet(o) /\ y \notin NamedInsts
  <2>1. ASSUME y \in ToSet(s) PROVE y \in ToSet(o) /\ y \notin NamedInsts
    <3>1. PICK k \in 1..Len(at) : y = b[at[k]]
      BY <1>7, <1>8, <2>1 DEF ToSet
    <3>2. org[b[at[k]]] \in S
      BY <1>2, <1>5
    <3> QED
      BY <1>2, <1>5, <3>1, <3>2
  <2>2. ASSUME y \in ToSet(o), y \notin NamedInsts PROVE y \in ToSet(s)
    <3>1. PICK m \in 1..Len(b) : org[b[m]] = y
      BY <1>2, <2>2
    <3>2. y \in 1..Total /\ y # 0
      BY <1>1, <2>2
    <3>3. b[m] \in 1..Total
      BY <1>2, <2>2, <3>1, <3>2
    <3>4. b[m] = y
      BY <1>2, <3>1, <3>3
    <3>5. m \in ToSet(at)
      BY <1>1, <1>3, <2>2, <3>2, <3>4
    <3>6. PICK k \in 1..Len(at) : at[k] = m
      BY <1>3, <3>5 DEF ToSet
    <3> QED
      BY <1>7, <1>8, <3>4, <3>6 DEF ToSet
  <2> QED
    BY <2>1, <2>2
<1>11. Lists(s, f)
  BY <1>7, <1>9, <1>10 DEF Lists, o
<1>12. \A k \in 1..Len(at) : Block(b, at[k]) = Below(f, s[k])
  <2> SUFFICES ASSUME NEW k \in 1..Len(at) PROVE Block(b, at[k]) = Below(f, s[k])
    OBVIOUS
  <2>1. at[k] \in 1..Len(b) /\ org[b[at[k]]] # 0 /\ org[b[at[k]]] = s[k]
    BY <1>5, <1>8
  <2>2. Block(b, at[k]) = Below(f, org[b[at[k]]])
    BY <1>2, <2>1, BlockNumber
  <2> QED
    BY <2>1, <2>2
<1>13. Others(b) = [k \in 1..Len(at) |-> <<b[at[k]], Block(b, at[k])>>]
  BY DEF Others, at, Unnamed
<1>14. Others(b) = [k \in 1..Len(s) |-> <<s[k], Below(f, s[k])>>]
  BY <1>7, <1>8, <1>12, <1>13
<1> QED
  BY <1>11, <1>14

\* That order is the same in all bodies.
LEMMA ListsOnce ==
  ASSUME NEW f, NEW s, NEW t, Lists(s, f), Lists(t, f)
  PROVE  s = t
<1>1. ToSet(s) = ToSet(t)
  BY DEF Lists
<1> QED
  BY <1>1, SameElements DEF Lists

-----------------------------------------------------------------------------
(* Every instruction outside the named pairs is in its block *)

\* The named pairs aside, a function has the instructions it had.
LEMMA TrackedUnmoved ==
  ASSUME program \in Programs, Sound(ir), NEW org, Tracked(ir, org), NEW f \in 1..Len(program),
         ir.freed \cap (1..Total) \subseteq NamedInsts
  PROVE  Unmoved(ir.body[f], org, f, ToSet(Original(f)) \ Lost(ir))
<1> DEFINE o == Original(f)
           b == ir.body[f]
           S == ToSet(o) \ Lost(ir)
<1>1. ToSet(o) \subseteq 1..Total /\ Total \in Nat
  BY OriginalSets, Sizes
<1>2. BodyAccounts(ir, org, b, S)
  BY BodyFacts
<1>3. \A y \in Lost(ir) : y \in NamedInsts /\ ~IsTerminator(OriginalOp[y])
  BY DEF Lost
<1>4. DOMAIN org \subseteq Nat \ {0}
  BY DEF Tracked, Anchored, Sound, IRType
<1> HIDE DEF o, b
<1>5. \A y \in ToSet(o) : (IsTerminator(OriginalOp[y]) => y \in S) /\ (y \notin NamedInsts => y \in S)
  BY <1>3
<1>6. S \subseteq ToSet(o)
  OBVIOUS
<1> HIDE DEF S
<1>7. /\ b \in Seq(Nat) /\ Stands(b, org, S) /\ \A x \in 1..Total : org[x] = x
      /\ \A n \in 1..Len(b) : org[b[n]] \in 0..Total /\ Accounted(ir, org, b[n])
  BY <1>2 DEF BodyAccounts
<1>8. ASSUME NEW n \in 1..Len(b)
      PROVE  /\ IsTerminator(ir.op[b[n]]) <=> org[b[n]] # 0 /\ IsTerminator(OriginalOp[org[b[n]]])
             /\ b[n] \notin 1..Total /\ org[b[n]] # 0 => org[b[n]] \in NamedInsts
  <2>1. Accounted(ir, org, b[n]) /\ org[b[n]] \in 0..Total
    BY <1>7
  <2>2. /\ IsTerminator(ir.op[b[n]]) <=> org[b[n]] # 0 /\ IsTerminator(OriginalOp[org[b[n]]])
        /\ b[n] \notin 1..Total /\ org[b[n]] # 0 => org[b[n]] \in ir.freed
    BY <2>1 DEF Accounted
  <2> QED
    BY <1>1, <2>1, <2>2
<1>9. Terminates(b, org, f, S)
  BY <1>5, <1>6, <1>7, <1>8 DEF Terminates, o
<1>10. Unmoved(b, org, f, S)
  BY <1>4, <1>5, <1>7, <1>8, <1>9 DEF Unmoved, o
<1> QED
  BY <1>10 DEF b, S, o

\* As it had before the run.
LEMMA OriginalUnmoved ==
  ASSUME program \in Programs, NEW f \in 1..Len(program), \A x \in 1..Total : ir.op[x] = OriginalOp[x]
  PROVE  Unmoved(Original(f), [x \in 1..Total |-> x], f, ToSet(Original(f)))
<1> DEFINE o == Original(f)
           org == [x \in 1..Total |-> x]
           S == ToSet(o)
<1>1. o \in Seq(Nat) /\ Increasing(o) /\ S \subseteq 1..Total /\ Total \in Nat
  BY OriginalSets, Sizes
<1> HIDE DEF o
<1>2. \A n \in 1..Len(o) : o[n] \in S
  BY DEF ToSet
<1>3. \A y \in S : \E n \in 1..Len(o) : o[n] = y
  BY <1>1 DEF ToSet
<1>4. DOMAIN org = 1..Total /\ \A x \in 1..Total : org[x] = x /\ x # 0
  BY <1>1
<1> HIDE DEF org, S
<1>5. \A n \in 1..Len(o) : o[n] \in 1..Total /\ org[o[n]] = o[n] /\ o[n] # 0 /\ ir.op[o[n]] = OriginalOp[o[n]]
  BY <1>1, <1>2, <1>4
<1>6. Stands(o, org, S)
  BY <1>1, <1>2, <1>3, <1>4, <1>5 DEF Stands, Increasing
<1>7. \A n \in 1..Len(o) :
        /\ org[o[n]] \in 0..Total
        /\ IsTerminator(ir.op[o[n]]) <=> org[o[n]] # 0 /\ IsTerminator(OriginalOp[org[o[n]]])
  BY <1>1, <1>5
<1>8. Terminates(o, org, f, S)
  BY <1>1, <1>6, <1>7 DEF Terminates, o, S
<1>9. Unmoved(o, org, f, S)
  BY <1>1, <1>4, <1>5, <1>8 DEF Unmoved, o, S
<1> QED
  BY <1>9 DEF o, org, S

\* What the property says of one function.
BlocksOf(f) ==
  /\ Others(ir.body[f]) = Others(Original(f))
  /\ Block(ir.body[f], Len(ir.body[f])) = Block(Original(f), Len(Original(f)))
  /\ IsTerminator(ir.op[Last(ir.body[f])])

\* So the others and their blocks are those of the program.
LEMMA BlocksFacts ==
  ASSUME program \in Programs, Sound(ir), NEW org, Tracked(ir, org), NEW f \in 1..Len(program),
         ir.freed \cap (1..Total) \subseteq NamedInsts
  PROVE  BlocksOf(f)
<1> DEFINE o == Original(f)
           b == ir.body[f]
           org0 == [x \in 1..Total |-> x]
           S == ToSet(o) \ Lost(ir)
           S0 == ToSet(o)
<1>1. \A x \in 1..Total : org[x] = x /\ ir.op[x] = OriginalOp[x]
  BY DEF Tracked, Anchored, Content
<1>2. Unmoved(b, org, f, S)
  BY TrackedUnmoved
<1>3. Unmoved(o, org0, f, S0)
  BY <1>1, OriginalUnmoved
<1>4. /\ b \in Seq(Nat) /\ b # <<>> /\ b[Len(b)] = End(f) /\ End(f) \in 1..Total
      /\ IsTerminator(OriginalOp[End(f)]) /\ End(f) # 0
  BY Sizes, OriginalOps DEF Sound, IRType, IsTerminator
<1>5. /\ o \in Seq(Nat) /\ o # <<>> /\ o[Len(o)] = End(f)
  <2>1. Sound(Loaded(program)) /\ Loaded(program).body[f] = o
    BY LoadedSound DEF Loaded, Original
  <2> QED
    BY <2>1, OriginalSets DEF Sound
<1>6. org0[End(f)] = End(f)
  BY <1>4
<1> HIDE DEF o, b, S, S0, org0
<1>7. Others(b) = Others(o)
  <2>1. PICK s : Lists(s, f) /\ Others(b) = [k \in 1..Len(s) |-> <<s[k], Below(f, s[k])>>]
    BY <1>2, OthersAre
  <2>2. PICK t : Lists(t, f) /\ Others(o) = [k \in 1..Len(t) |-> <<t[k], Below(f, t[k])>>]
    BY <1>3, OthersAre
  <2>3. s = t
    BY <2>1, <2>2, ListsOnce
  <2> QED
    BY <2>1, <2>2, <2>3
<1>8. Block(b, Len(b)) = Below(f, End(f))
  <2>1. Len(b) \in 1..Len(b) /\ org[b[Len(b)]] # 0 /\ org[b[Len(b)]] = End(f)
    BY <1>1, <1>4
  <2>2. Terminates(b, org, f, S)
    BY <1>2 DEF Unmoved
  <2>3. Block(b, Len(b)) = Below(f, org[b[Len(b)]])
    BY <2>1, <2>2, BlockNumber
  <2> QED
    BY <2>1, <2>3
<1>9. Block(o, Len(o)) = Below(f, End(f))
  <2>1. Len(o) \in 1..Len(o) /\ org0[o[Len(o)]] # 0 /\ org0[o[Len(o)]] = End(f)
    BY <1>4, <1>5, <1>6
  <2>2. Terminates(o, org0, f, S0)
    BY <1>3 DEF Unmoved
  <2>3. Block(o, Len(o)) = Below(f, org0[o[Len(o)]])
    BY <2>1, <2>2, BlockNumber
  <2> QED
    BY <2>1, <2>3
<1>10. IsTerminator(ir.op[Last(b)])
  BY <1>1, <1>4 DEF Last
<1> QED
  BY <1>7, <1>8, <1>9, <1>10 DEF BlocksOf, b, o

\* Whatever the mode, the module and the positions: every block of a function keeps
\* its place and one terminator at its end, and what no pair names stays in its
\* block and in its order.
THEOREM BlocksAreKept == Spec => []BlocksKept
<1>1. MInv /\ PlaceInv => BlocksKept
  <2> SUFFICES ASSUME MInv, PlaceInv, Enumerated, ir.fault = "none" PROVE BlocksKept
    BY DEF BlocksKept
  <2>1. pc # "fault"
    BY DEF PlaceInv, TrackInv
  <2>2. pc \in {"loop", "erase", "ran", "done"} /\ Active
    BY <2>1 DEF Enumerated, MInv, ArgsInv, Active
  <2>3. program \in Programs /\ Sound(ir)
    BY DEF MInv, ModuleInv, PairsInv
  <2>4. PICK org : Tracked(ir, org)
    BY <2>2 DEF PlaceInv, TrackInv
  <2>5. ir.freed \cap (1..Total) \subseteq NamedInsts
    BY <2>2, LoopNamed DEF PlaceInv, NamedInv
  <2>6. \A f \in 1..Len(program) : BlocksOf(f)
    BY <2>3, <2>4, <2>5, BlocksFacts
  <2> QED
    BY <2>6 DEF BlocksKept, BlocksOf
<1> QED
  BY <1>1, Invariance, PlacesAreKept, PTL

-----------------------------------------------------------------------------
(* Where -split inserts its calls *)

\* What is at a place is followed by what is at another, but for what is newer than limit.
IsNext(c, inst, limit, a, z) ==
  /\ a \in 1..Len(c) /\ c[a] = inst /\ \A m \in 1..Len(c) : c[m] = inst => m = a
  /\ z \in (a + 1)..Len(c) /\ c[z] <= limit /\ \A m \in (a + 1)..(z - 1) : c[m] > limit

\* Before says what follows.
LEMMA BeforeIs ==
  ASSUME NEW c \in Seq(Nat), NEW inst, NEW limit \in Nat, NEW a, NEW z, IsNext(c, inst, limit, a, z)
  PROVE  Before(c, inst, limit) = c[z]
<1> DEFINE n == CHOOSE m \in 1..Len(c) : c[m] = inst
           later == {m \in (n + 1)..Len(c) : c[m] <= limit}
           y == CHOOSE m \in later : \A o \in later : m <= o
<1>0. /\ a \in 1..Len(c) /\ c[a] = inst /\ \A m \in 1..Len(c) : c[m] = inst => m = a
      /\ z \in (a + 1)..Len(c) /\ c[z] <= limit /\ \A m \in (a + 1)..(z - 1) : c[m] > limit
      /\ Len(c) \in Nat /\ \A m \in 1..Len(c) : c[m] \in Nat
  BY DEF IsNext
<1>1. n = a
  BY <1>0
<1> HIDE DEF n
<1>2. z \in later
  BY <1>0, <1>1
<1>3. \A m \in later : z <= m
  <2> SUFFICES ASSUME NEW m \in later, m < z PROVE FALSE
    BY <1>0, <1>1
  <2>1. m \in (a + 1)..(z - 1) /\ c[m] <= limit /\ c[m] \in Nat
    BY <1>0, <1>1
  <2> QED
    BY <1>0, <2>1
<1>4. \A m \in later : m \in Int
  BY <1>0, <1>1
<1> HIDE DEF later
<1>5. y \in later /\ \A o \in later : y <= o
  BY <1>2, <1>3
<1> HIDE DEF y
<1>6. y = z
  BY <1>2, <1>3, <1>4, <1>5
<1>7. later # {}
  BY <1>2
<1> QED
  BY <1>6, <1>7 DEF Before, later, n, y

\* A body into which an unlock, then a lock was inserted.
TwiceWidened(b, p, q, new, c) ==
  /\ c \in Seq(Nat) /\ Len(c) = Len(b) + 2
  /\ q <= p =>
       /\ \A k \in 1..(q - 1) : c[k] = b[k]
       /\ c[q] = new
       /\ \A k \in q..(p - 1) : c[k + 1] = b[k]
       /\ c[p + 1] = new + 1
       /\ \A k \in p..Len(b) : c[k + 2] = b[k]
  /\ q > p =>
       /\ \A k \in 1..(p - 1) : c[k] = b[k]
       /\ c[p] = new + 1
       /\ \A k \in p..(q - 2) : c[k + 1] = b[k]
       /\ c[q] = new
       /\ \A k \in (q - 1)..Len(b) : c[k + 2] = b[k]

\* A body after the two insertions of a split.
LEMMA TwoInsertions ==
  ASSUME NEW b \in Seq(Nat), NEW new \in Nat, NEW p \in 1..Len(b), NEW q \in 1..(Len(b) + 1)
  PROVE  TwiceWidened(b, p, q, new, InsertAt(InsertAt(b, p, new + 1), q, new))
<1> DEFINE c1 == InsertAt(b, p, new + 1)
           c  == InsertAt(c1, q, new)
           size == Len(b)
<1>1. size \in Nat /\ p \in 1..size /\ p \in 1..(size + 1) /\ q \in 1..(size + 1)
  OBVIOUS
<1>2. /\ c1 \in Seq(Nat) /\ Len(c1) = size + 1 /\ c1[p] = new + 1
      /\ \A k \in 1..(p - 1) : c1[k] = b[k]
      /\ \A k \in p..size : c1[k + 1] = b[k]
  <2>1. p \in 1..(Len(b) + 1) /\ new + 1 \in Nat
    OBVIOUS
  <2>2. Widens(b, p, new + 1, c1)
    BY <2>1, InsertAtFacts
  <2> QED
    BY <2>2 DEF Widens
<1> HIDE DEF c1
<1>3. q \in 1..(Len(c1) + 1)
  BY <1>1, <1>2
<1>4. /\ c \in Seq(Nat) /\ Len(c) = Len(c1) + 1 /\ c[q] = new
      /\ \A k \in 1..(q - 1) : c[k] = c1[k]
      /\ \A k \in q..Len(c1) : c[k + 1] = c1[k]
  BY <1>2, <1>3, InsertAtFacts DEF Widens
<1> HIDE DEF c
<1>5. c \in Seq(Nat) /\ Len(c) = size + 2
  BY <1>1, <1>2, <1>4
<1>6. ASSUME q <= p
      PROVE  /\ \A k \in 1..(q - 1) : c[k] = b[k]
             /\ \A k \in q..(p - 1) : c[k + 1] = b[k]
             /\ c[p + 1] = new + 1
             /\ \A k \in p..size : c[k + 2] = b[k]
  <2>1. \A k \in 1..(q - 1) : c[k] = b[k]
    BY <1>1, <1>2, <1>4, <1>6
  <2>2. \A k \in q..(p - 1) : c[k + 1] = b[k]
    BY <1>1, <1>2, <1>4, <1>6
  <2>3. c[p + 1] = new + 1
    BY <1>1, <1>2, <1>4, <1>6
  <2>4. ASSUME NEW k \in p..size PROVE c[k + 2] = b[k]
    <3>1. k + 1 \in q..Len(c1)
      BY <1>1, <1>2, <1>6
    <3>2. c[(k + 1) + 1] = c1[k + 1] /\ (k + 1) + 1 = k + 2
      BY <1>1, <1>4, <3>1
    <3> QED
      BY <1>2, <3>2
  <2> QED
    BY <2>1, <2>2, <2>3, <2>4
<1>7. ASSUME q > p
      PROVE  /\ \A k \in 1..(p - 1) : c[k] = b[k]
             /\ c[p] = new + 1
             /\ \A k \in p..(q - 2) : c[k + 1] = b[k]
             /\ \A k \in (q - 1)..size : c[k + 2] = b[k]
  <2>1. \A k \in 1..(p - 1) : c[k] = b[k]
    BY <1>1, <1>2, <1>4, <1>7
  <2>2. c[p] = new + 1
    BY <1>1, <1>2, <1>4, <1>7
  <2>3. \A k \in p..(q - 2) : c[k + 1] = b[k]
    <3> SUFFICES ASSUME NEW k \in p..(q - 2) PROVE c[k + 1] = b[k]
      OBVIOUS
    <3>1. k + 1 \in 1..(q - 1) /\ k \in p..size
      BY <1>1
    <3> QED
      BY <1>2, <1>4, <3>1
  <2>4. ASSUME NEW k \in (q - 1)..size PROVE c[k + 2] = b[k]
    <3>1. k + 1 \in q..Len(c1) /\ k \in p..size
      BY <1>1, <1>2, <1>7
    <3>2. c[(k + 1) + 1] = c1[k + 1] /\ (k + 1) + 1 = k + 2
      BY <1>1, <1>4, <3>1
    <3> QED
      BY <1>2, <3>1, <3>2
  <2> QED
    BY <2>1, <2>2, <2>3, <2>4
<1> QED
  BY <1>4, <1>5, <1>6, <1>7 DEF TwiceWidened, c, c1

\* What follows the two calls in it.
Precedes(b, p, q, new, c) ==
  /\ Before(c, new + 1, new - 1) = b[p]
  /\ Before(c, new, new - 1) = IF q <= p THEN b[q] ELSE b[q - 1]

\* The unlock is before what it was inserted before; so is the lock, counted with the unlock or not.
LEMMA TwoBefore ==
  ASSUME NEW b \in Seq(Nat), NEW new \in Nat \ {0}, \A k \in 1..Len(b) : b[k] < new,
         NEW p \in 1..Len(b), NEW q \in 1..(Len(b) + 1), NEW c, TwiceWidened(b, p, q, new, c)
  PROVE  Precedes(b, p, q, new, c)
<1> DEFINE size == Len(b)
           limit == new - 1
<1>1. /\ size \in Nat /\ limit \in Nat /\ new \in Nat /\ new + 1 \in Nat /\ p \in 1..size /\ q \in 1..(size + 1)
      /\ c \in Seq(Nat) /\ Len(c) = size + 2 /\ limit = new - 1
      /\ \A k \in 1..size : b[k] \in Nat /\ b[k] < new /\ b[k] <= limit
  <2>1. c \in Seq(Nat) /\ Len(c) = size + 2
    BY DEF TwiceWidened
  <2>2. \A k \in 1..size : b[k] \in Nat /\ b[k] < new
    OBVIOUS
  <2>3. \A x \in Nat : x < new => x <= limit
    OBVIOUS
  <2>4. size \in Nat /\ limit \in Nat /\ new \in Nat /\ new + 1 \in Nat
    OBVIOUS
  <2>5. \A k \in 1..size : b[k] <= limit
    BY <2>2, <2>3
  <2> HIDE DEF size
  <2> QED
    BY <2>1, <2>2, <2>4, <2>5 DEF size
<1>4. \A inst, a, z : IsNext(c, inst, limit, a, z) => Before(c, inst, limit) = c[z]
  <2>1. c \in Seq(Nat) /\ limit \in Nat
    BY <1>1
  <2> QED
    BY <2>1, BeforeIs
<1>2. CASE q <= p
  <2>1. /\ \A k \in 1..(q - 1) : c[k] = b[k]
        /\ c[q] = new
        /\ \A k \in q..(p - 1) : c[k + 1] = b[k]
        /\ c[p + 1] = new + 1
        /\ \A k \in p..size : c[k + 2] = b[k]
    BY <1>2 DEF TwiceWidened
  <2> HIDE DEF size, limit
  <2>2. \A m \in 1..(size + 2) : m # q /\ m # p + 1 => c[m] < new
    <3> SUFFICES ASSUME NEW m \in 1..(size + 2), m # q, m # p + 1 PROVE c[m] < new
      OBVIOUS
    <3>1. CASE m < q
      <4>1. m \in 1..(q - 1) /\ m \in 1..size
        BY <1>1, <1>2, <3>1
      <4> QED
        BY <1>1, <2>1, <4>1
    <3>2. CASE q < m /\ m < p + 1
      <4>1. m - 1 \in q..(p - 1) /\ (m - 1) + 1 = m /\ m - 1 \in 1..size
        BY <1>1, <3>2
      <4> QED
        BY <1>1, <2>1, <4>1
    <3>3. CASE p + 1 < m
      <4>1. m - 2 \in p..size /\ (m - 2) + 2 = m /\ m - 2 \in 1..size
        BY <1>1, <3>3
      <4> QED
        BY <1>1, <2>1, <4>1
    <3> QED
      BY <1>1, <3>1, <3>2, <3>3
  <2>7. \A m \in 1..Len(c) : (c[m] = new => m = q) /\ (c[m] = new + 1 => m = p + 1)
    <3> SUFFICES ASSUME NEW m \in 1..Len(c) PROVE (c[m] = new => m = q) /\ (c[m] = new + 1 => m = p + 1)
      OBVIOUS
    <3>1. m \in 1..(size + 2) /\ c[m] \in Nat
      <4>1. c \in Seq(Nat) /\ Len(c) = size + 2
        BY <1>1
      <4> QED
        BY <4>1
    <3>2. m # q /\ m # p + 1 => c[m] # new /\ c[m] # new + 1
      <4>1. m # q /\ m # p + 1 => c[m] < new
        BY <2>2, <3>1
      <4>2. \A x \in Nat : x < new => x # new /\ x # new + 1
        BY <1>1
      <4> QED
        BY <3>1, <4>1, <4>2
    <3>3. new # new + 1
      BY <1>1
    <3> QED
      BY <2>1, <3>2, <3>3
  <2>3. Before(c, new + 1, limit) = c[p + 2]
    <3>1. IsNext(c, new + 1, limit, p + 1, p + 2)
      <4>1. p + 1 \in 1..Len(c) /\ c[p + 1] = new + 1 /\ p + 2 \in (p + 1 + 1)..Len(c)
        BY <1>1, <1>2, <2>1, <2>2
      <4>2. \A m \in 1..Len(c) : c[m] = new + 1 => m = p + 1
        BY <2>7
      <4>3. c[p + 2] <= limit /\ \A m \in (p + 1 + 1)..((p + 2) - 1) : c[m] > limit
        BY <1>1, <1>2, <2>1, <2>2
      <4> QED
        BY <4>1, <4>2, <4>3 DEF IsNext
    <3> QED
      BY <1>4, <3>1
  <2>4. CASE q < p
    <3>1. Before(c, new, limit) = c[q + 1]
      <4>1. IsNext(c, new, limit, q, q + 1)
        <5>1. q \in 1..Len(c) /\ c[q] = new /\ q + 1 \in (q + 1)..Len(c)
          BY <1>1, <2>1, <2>2, <2>4
        <5>2. \A m \in 1..Len(c) : c[m] = new => m = q
          BY <2>7
        <5>3. c[q + 1] <= limit /\ \A m \in (q + 1)..((q + 1) - 1) : c[m] > limit
          <6>1. q \in q..(p - 1) /\ q \in 1..size
            BY <1>1, <2>4
          <6>2. c[q + 1] = b[q] /\ b[q] <= limit
            BY <1>1, <2>1, <6>1
          <6>3. (q + 1)..((q + 1) - 1) = {}
            BY <1>1
          <6> QED
            BY <6>2, <6>3
        <5> QED
          BY <5>1, <5>2, <5>3 DEF IsNext
      <4> QED
        BY <1>4, <4>1
    <3>2. c[q + 1] = b[q] /\ c[p + 2] = b[p]
      BY <1>1, <2>1, <2>4
    <3> QED
      BY <1>2, <2>3, <3>1, <3>2 DEF Precedes, limit
  <2>5. CASE q = p
    <3>1. Before(c, new, limit) = c[q + 2]
      <4>1. IsNext(c, new, limit, q, q + 2)
        <5>1. q \in 1..Len(c) /\ c[q] = new /\ q + 2 \in (q + 1)..Len(c)
          BY <1>1, <2>1, <2>2, <2>5
        <5>2. \A m \in 1..Len(c) : c[m] = new => m = q
          BY <2>7
        <5>3. c[q + 2] <= limit /\ \A m \in (q + 1)..((q + 2) - 1) : c[m] > limit
          BY <1>1, <2>1, <2>2, <2>5
        <5> QED
          BY <5>1, <5>2, <5>3 DEF IsNext
      <4> QED
        BY <1>4, <4>1
    <3>2. c[p + 2] = b[p]
      BY <1>1, <2>1
    <3> QED
      BY <1>2, <2>3, <2>5, <3>1, <3>2 DEF Precedes, limit
  <2> QED
    BY <1>1, <1>2, <2>4, <2>5
<1>3. CASE q > p
  <2>1. /\ \A k \in 1..(p - 1) : c[k] = b[k]
        /\ c[p] = new + 1
        /\ \A k \in p..(q - 2) : c[k + 1] = b[k]
        /\ c[q] = new
        /\ \A k \in (q - 1)..size : c[k + 2] = b[k]
    BY <1>3 DEF TwiceWidened
  <2> HIDE DEF size, limit
  <2>2. \A m \in 1..(size + 2) : m # q /\ m # p => c[m] < new
    <3> SUFFICES ASSUME NEW m \in 1..(size + 2), m # q, m # p PROVE c[m] < new
      OBVIOUS
    <3>1. CASE m < p
      <4>1. m \in 1..(p - 1) /\ m \in 1..size
        BY <1>1, <3>1
      <4> QED
        BY <1>1, <2>1, <4>1
    <3>2. CASE p < m /\ m < q
      <4>1. m - 1 \in p..(q - 2) /\ (m - 1) + 1 = m /\ m - 1 \in 1..size
        BY <1>1, <3>2
      <4> QED
        BY <1>1, <2>1, <4>1
    <3>3. CASE q < m
      <4>1. m - 2 \in (q - 1)..size /\ (m - 2) + 2 = m /\ m - 2 \in 1..size
        BY <1>1, <1>3, <3>3
      <4> QED
        BY <1>1, <2>1, <4>1
    <3> QED
      BY <1>1, <3>1, <3>2, <3>3
  <2>7. \A m \in 1..Len(c) : (c[m] = new => m = q) /\ (c[m] = new + 1 => m = p)
    <3> SUFFICES ASSUME NEW m \in 1..Len(c) PROVE (c[m] = new => m = q) /\ (c[m] = new + 1 => m = p)
      OBVIOUS
    <3>1. m \in 1..(size + 2) /\ c[m] \in Nat
      <4>1. c \in Seq(Nat) /\ Len(c) = size + 2
        BY <1>1
      <4> QED
        BY <4>1
    <3>2. m # q /\ m # p => c[m] # new /\ c[m] # new + 1
      <4>1. m # q /\ m # p => c[m] < new
        BY <2>2, <3>1
      <4>2. \A x \in Nat : x < new => x # new /\ x # new + 1
        BY <1>1
      <4> QED
        BY <3>1, <4>1, <4>2
    <3>3. new # new + 1
      BY <1>1
    <3> QED
      BY <2>1, <3>2, <3>3
  <2>3. /\ q - 1 \in (q - 1)..size /\ (q - 1) + 2 = q + 1 /\ c[q + 1] = b[q - 1] /\ q - 1 \in 1..size
        /\ q + 1 \in 1..(size + 2)
    BY <1>1, <1>3, <2>1
  <2>4. Before(c, new, limit) = c[q + 1]
    <3>1. IsNext(c, new, limit, q, q + 1)
      <4>1. q \in 1..Len(c) /\ c[q] = new /\ q + 1 \in (q + 1)..Len(c)
        BY <1>1, <2>1, <2>2, <2>3
      <4>2. \A m \in 1..Len(c) : c[m] = new => m = q
        BY <2>7
      <4>3. c[q + 1] <= limit /\ \A m \in (q + 1)..((q + 1) - 1) : c[m] > limit
        BY <1>1, <2>1, <2>2, <2>3
      <4> QED
        BY <4>1, <4>2, <4>3 DEF IsNext
    <3> QED
      BY <1>4, <3>1
  <2>5. CASE q = p + 1
    <3>1. Before(c, new + 1, limit) = c[q + 1]
      <4>1. IsNext(c, new + 1, limit, p, q + 1)
        <5>1. p \in 1..Len(c) /\ c[p] = new + 1 /\ q + 1 \in (p + 1)..Len(c)
          BY <1>1, <2>1, <2>2, <2>3, <2>5
        <5>2. \A m \in 1..Len(c) : c[m] = new + 1 => m = p
          BY <2>7
        <5>3. c[q + 1] <= limit /\ \A m \in (p + 1)..((q + 1) - 1) : c[m] > limit
          BY <1>1, <2>1, <2>2, <2>3, <2>5
        <5> QED
          BY <5>1, <5>2, <5>3 DEF IsNext
      <4> QED
        BY <1>4, <4>1
    <3>2. q - 1 = p /\ ~(q <= p)
      BY <1>1, <2>5
    <3> QED
      BY <2>3, <2>4, <3>1, <3>2 DEF Precedes, limit
  <2>6. CASE q > p + 1
    <3>1. p \in p..(q - 2) /\ c[p + 1] = b[p]
      BY <1>1, <2>1, <2>6
    <3>2. Before(c, new + 1, limit) = c[p + 1]
      <4>1. IsNext(c, new + 1, limit, p, p + 1)
        <5>1. p \in 1..Len(c) /\ c[p] = new + 1 /\ p + 1 \in (p + 1)..Len(c)
          BY <1>1, <2>1, <2>2, <3>1
        <5>2. \A m \in 1..Len(c) : c[m] = new + 1 => m = p
          BY <2>7
        <5>3. c[p + 1] <= limit /\ \A m \in (p + 1)..((p + 1) - 1) : c[m] > limit
          BY <1>1, <2>1, <2>2, <3>1
        <5> QED
          BY <5>1, <5>2, <5>3 DEF IsNext
      <4> QED
        BY <1>4, <4>1
    <3>3. ~(q <= p)
      BY <1>1, <1>3
    <3> QED
      BY <2>3, <2>4, <3>1, <3>2, <3>3 DEF Precedes, limit
  <2> QED
    BY <1>1, <1>3, <2>5, <2>6
<1> QED
  BY <1>1, <1>2, <1>3

-----------------------------------------------------------------------------
(* Where the distances of a split lead *)

\* The second distance: it is that of the command line, counted with the unlock.
LEMMA NearFacts ==
  ASSUME cmd \in Commands, i \in Nat, i + 1 < Len(cmd.splitpos), UnlockPos > 0,
         NEW l, l = IF UnlockPos < LockPos THEN LockPos + 1 ELSE LockPos
  PROVE  /\ UnlockPos \in Nat /\ LockPos \in Int /\ ToUnsigned(UnlockPos) = UnlockPos
         /\ ToUnsigned(l) \in Nat
         /\ LockPos >= 0 => ToUnsigned(l) = l
         /\ LockPos < 0 => ToUnsigned(l) > IntMax
<1>1. /\ UnlockPos \in Int /\ LockPos \in Int
      /\ UnlockPos >= -(IntMax + 1) /\ LockPos >= -(IntMax + 1) /\ IntMax \in Nat
  BY SplitValues, IntMaxAssumption
<1> HIDE DEF UnlockPos, LockPos
<1>2. l \in Int /\ l >= -(IntMax + 1) /\ (LockPos >= 0 => l >= 0) /\ (LockPos < 0 => l < 0)
  BY <1>1
<1>3. ToUnsigned(UnlockPos) = UnlockPos
  BY <1>1, UnsignedFacts
<1>4. ToUnsigned(l) \in Nat /\ (l >= 0 => ToUnsigned(l) = l)
  BY <1>2, UnsignedFacts
<1>5. l < 0 => ToUnsigned(l) > IntMax
  BY <1>1, <1>2 DEF ToUnsigned
<1> QED
  BY <1>1, <1>2, <1>3, <1>4, <1>5

\* The two calls of a split, each before the instruction it was to be put before.
Splits(lock, s, new) ==
  LET body == s.body[FuncOf(ir, lock)]
  IN  /\ Before(body, new + 1, new - 1) = Target(lock, UnlockPos)
      /\ Before(body, new, new - 1) = Target(lock, LockPos)

\* A split inserts its calls where it was asked to.
LEMMA SplitWhere ==
  ASSUME MInv, PlaceInv, pc = "loop", Mode("split"), i + 1 < Len(cmd.pos), i + 1 < Len(cmd.splitpos),
         UnlockPos > 0, NEW pair, PairFact(pair),
         LockPos >= 0 \/ Len(ir.body[FuncOf(ir, pair.lock)]) <= IntMax,
         SplitApart(pair).fault = "none"
  PROVE  Splits(pair.lock, SplitApart(pair), NewInst(ir))
<1> DEFINE new  == NewInst(ir)
           ops  == <<AsCall(ir.op[pair.lock]), AsCall(ir.op[pair.unlock])>>
           created  == CreateInsts(ir, InstsOf(pair), ops)
           far      == ToUnsigned(UnlockPos)
           unlocked == InsertInstructionRelative(created, pair.lock, new + 1, far)
           lockPos  == IF UnlockPos < LockPos THEN LockPos + 1 ELSE LockPos
           near     == ToUnsigned(lockPos)
           s        == InsertInstructionRelative(unlocked, pair.lock, new, near)
<1>1. SplitApart(pair) = s
  BY DEF SplitApart
<1>2. /\ program \in Programs /\ cmd \in Commands /\ i \in Nat /\ Sound(ir) /\ ir.fault = "none"
      /\ ir.freed = {} /\ InOrder(ir) /\ IntMax \in Nat
  BY IntMaxAssumption DEF MInv, PairsInv, ArgsInv, ModuleInv, SplitInv
<1>3. /\ UnlockPos \in Nat /\ LockPos \in Int /\ far = UnlockPos /\ near \in Nat
      /\ LockPos >= 0 => near = lockPos
      /\ LockPos < 0 => near > IntMax
  BY <1>2, NearFacts
<1> HIDE DEF far, near
<1>4. pair.lock \in 1..Total /\ pair.unlock \in 1..Total /\ Total \in Nat
  BY <1>2, Sizes DEF PairFact
<1>5. PICK f \in 1..Len(program) : \E n \in 1..Len(ir.body[f]) : ir.body[f][n] = pair.lock
  <2>1. Occurs(ir, pair.lock) /\ Len(ir.body) = Len(program)
    BY <1>2, <1>4 DEF Sound
  <2> QED
    BY <2>1 DEF Occurs
<1> DEFINE b == ir.body[f]
           size == Len(b)
<1>6. PICK m \in 1..size : b[m] = pair.lock
  BY <1>5
<1>7. /\ ir.body \in Seq(Seq(Nat)) /\ Len(ir.body) = Len(program) /\ b \in Seq(Nat) /\ size \in Nat
      /\ ir.op \in Seq(Op) /\ Len(ir.op) \in Nat /\ Total <= Len(ir.op) /\ new = Len(ir.op) + 1
      /\ m \in Nat /\ 1 <= m /\ m <= size
  <2>1. /\ ir.body \in Seq(Seq(Nat)) /\ Len(ir.body) = Len(program) /\ ir.op \in Seq(Op) /\ Total <= Len(ir.op)
    BY <1>2 DEF Sound, IRType
  <2>2. b \in Seq(Nat)
    BY <2>1
  <2> QED
    BY <2>1, <2>2 DEF NewInst
<1>8. FuncOf(ir, pair.lock) = f /\ PosOf(ir, pair.lock) = m
  BY ONLY <1>2, <1>4, <1>6, m \in 1..size, f \in 1..Len(program), PlaceIs
<1>9. \A k \in 1..size : b[k] \in Nat /\ b[k] < new
  <2>1. PICK org : Tracked(ir, org)
    BY DEF PlaceInv, TrackInv, Active
  <2>2. \A k \in 1..size : b[k] \in 1..Len(ir.op)
    BY <1>2, <2>1, BodyFacts DEF BodyAccounts
  <2>3. \A x \in 1..Len(ir.op) : x \in Nat /\ x < new
    <3> DEFINE last == Len(ir.op)
    <3>1. last \in Nat /\ new = last + 1
      BY <1>7
    <3> HIDE DEF last, new
    <3>2. \A x \in 1..last : x \in Nat /\ x < new
      BY <3>1
    <3> QED
      BY <3>2 DEF last
  <2> QED
    BY <2>2, <2>3
<1>10. ops \in Seq(Op)
  <2>1. pair.lock \in 1..Len(ir.op) /\ pair.unlock \in 1..Len(ir.op)
    <3> DEFINE total == Total
               last  == Len(ir.op)
    <3>1. /\ pair.lock \in 1..total /\ pair.unlock \in 1..total
          /\ total \in Nat /\ last \in Nat /\ total <= last
      BY <1>4, <1>7
    <3> HIDE DEF total, last
    <3> QED
      <4>1. pair.lock \in 1..last /\ pair.unlock \in 1..last
        BY <3>1
      <4> QED
        BY <4>1 DEF last
  <2>2. ir.op[pair.lock] \in Op /\ ir.op[pair.unlock] \in Op
    <3>1. ir.op \in Seq(Op)
      BY <1>7
    <3> QED
      BY <2>1, <3>1
  <2>3. AsCall(ir.op[pair.lock]) \in Op /\ AsCall(ir.op[pair.unlock]) \in Op
    BY <2>2, OpTypes
  <2> QED
    BY <2>3
<1> HIDE DEF ops, created
<1>11. /\ Sound(created) /\ created.body = ir.body /\ created.freed = {} /\ created.fault = "none"
  <2>1. CreatesInsts(ir, InstsOf(pair), ops, created)
    BY <1>2, <1>10, CreateInstsFacts DEF created
  <2>2. InstsOf(pair) \cap ir.freed = {}
    BY <1>2
  <2> QED
    BY <1>2, <2>1, <2>2 DEF CreatesInsts
<1>12. InOrder(created)
  BY <1>2, <1>11 DEF InOrder
<1>13. new \in Nat \ {0} /\ new + 1 \in Nat /\ new \notin 1..Total /\ new + 1 \notin 1..Total
  <2> DEFINE total == Total
             last  == Len(ir.op)
  <2>1. total \in Nat /\ last \in Nat /\ total <= last /\ new = last + 1
    BY <1>4, <1>7
  <2> HIDE DEF total, last, new
  <2>2. new \in Nat \ {0} /\ new + 1 \in Nat /\ new \notin 1..total /\ new + 1 \notin 1..total
    BY <2>1
  <2> QED
    BY <2>2 DEF total
<1> HIDE DEF new, unlocked, s, lockPos
<1> DEFINE p == RelativeTo(created, f, m, far)
<1>14. p \in Nat \ {0} /\ Inserts(created, f, p, new + 1, unlocked)
  BY <1>2, <1>3, <1>4, <1>6, <1>11, <1>12, <1>13, RelativeFacts DEF unlocked
<1>15. p = IF m + far > size + 1 THEN size + 1 ELSE m + far
  BY <1>11 DEF RelativeTo
<1> HIDE DEF p
<1>16. unlocked.fault = "none"
  <2>1. unlocked.fault # "none" => s = unlocked
    BY DEF s, InsertInstructionRelative, Guarded
  <2> QED
    BY <1>1, <2>1
<1>17. p <= size /\ p = m + UnlockPos /\ p \in 1..size
  <2> HIDE DEF size, UnlockPos
  <2>1. ~(p > size)
    BY <1>11, <1>14, <1>16 DEF Inserts, size
  <2> QED
    BY <1>3, <1>7, <1>14, <1>15, <2>1
<1>18. /\ Sound(unlocked) /\ unlocked.freed = {}
       /\ unlocked.body = [ir.body EXCEPT ![f] = InsertAt(@, p, new + 1)]
  BY <1>11, <1>14, <1>17 DEF Inserts
<1>19. Inserted(created, f, p, unlocked)
  <2>1. p \in 1..Len(created.body[f])
    BY <1>11, <1>17
  <2> QED
    BY <1>2, <1>11, <1>12, <1>13, <1>14, <2>1, InsertInOrder
<1>20. /\ InOrder(unlocked) /\ unlocked.body[f] = InsertAt(b, p, new + 1)
       /\ Len(unlocked.body[f]) = size + 1 /\ m \in 1..(size + 1) /\ unlocked.body[f][m] = pair.lock
  <2>1. /\ InOrder(unlocked) /\ Len(unlocked.body[f]) = size + 1
        /\ \A j \in 1..(p - 1) : unlocked.body[f][j] = b[j]
    BY <1>11, <1>19 DEF Inserted
  <2>2. m \in 1..(p - 1) /\ m \in 1..(size + 1)
    <3> HIDE DEF size, UnlockPos
    <3> QED
      BY <1>3, <1>7, <1>17
  <2>3. unlocked.body[f] = InsertAt(b, p, new + 1)
    BY <1>7, <1>18
  <2> QED
    BY <1>6, <2>1, <2>2, <2>3
<1> DEFINE q == RelativeTo(unlocked, f, m, near)
<1>21. q \in Nat \ {0} /\ Inserts(unlocked, f, q, new, s)
  BY <1>2, <1>3, <1>4, <1>13, <1>16, <1>18, <1>20, RelativeFacts DEF s
<1>22. q = IF m + near > (size + 1) + 1 THEN (size + 1) + 1 ELSE m + near
  BY <1>20 DEF RelativeTo
<1> HIDE DEF q
<1>23. q <= size + 1 /\ q = m + near /\ q \in 1..(size + 1)
  <2> HIDE DEF size
  <2>1. ~(q > size + 1)
    <3>1. q > size + 1 => s.fault = "end"
      BY <1>16, <1>20, <1>21 DEF Inserts
    <3> QED
      BY <1>1, <3>1
  <2> QED
    BY <1>3, <1>7, <1>21, <1>22, <2>1
<1>24. LockPos >= 0
  <2>1. Len(ir.body[FuncOf(ir, pair.lock)]) = size
    BY <1>8
  <2>2. LockPos < 0 => size <= IntMax
    <3> DEFINE l == LockPos
    <3>1. l \in Int /\ (l >= 0 \/ size <= IntMax)
      BY <1>3, <2>1
    <3> HIDE DEF l, size
    <3>2. l < 0 => size <= IntMax
      BY <3>1
    <3> QED
      BY <3>2 DEF l
  <2> HIDE DEF LockPos, size
  <2> QED
    BY <1>2, <1>3, <1>7, <1>23, <2>2
<1>25. s.body[f] = InsertAt(InsertAt(b, p, new + 1), q, new)
  <2>1. s.body = [unlocked.body EXCEPT ![f] = InsertAt(@, q, new)]
    BY <1>16, <1>20, <1>21, <1>23 DEF Inserts
  <2>2. f \in 1..Len(unlocked.body) /\ unlocked.body \in Seq(Seq(Nat))
    BY <1>18 DEF Sound, IRType
  <2> QED
    BY <1>20, <2>1, <2>2
<1>26. Precedes(b, p, q, new, s.body[f])
  <2> DEFINE c == s.body[f]
  <2>1. TwiceWidened(b, p, q, new, c)
    BY <1>7, <1>13, <1>17, <1>23, <1>25, TwoInsertions
  <2> HIDE DEF c
  <2>2. Precedes(b, p, q, new, c)
    BY <1>7, <1>9, <1>13, <1>17, <1>23, <2>1, TwoBefore
  <2> QED
    BY <2>2 DEF c
<1>27. Target(pair.lock, UnlockPos) = b[p]
  <2>1. m + UnlockPos = p /\ ~(p < 1)
    BY <1>17
  <2> QED
    BY <1>8, <2>1 DEF Target
<1>28. Target(pair.lock, LockPos) = IF q <= p THEN b[q] ELSE b[q - 1]
  <2> DEFINE u == UnlockPos
             l == LockPos
  <2>1. near = IF u < l THEN l + 1 ELSE l
    BY <1>3, <1>24 DEF lockPos
  <2>2. /\ u \in Nat /\ l \in Int /\ l >= 0 /\ p = m + u /\ q = m + near /\ m \in Nat /\ 1 <= m
    BY <1>3, <1>7, <1>17, <1>23, <1>24
  <2> HIDE DEF u, l
  <2>3. (m + l = IF q <= p THEN q ELSE q - 1) /\ ~(m + l < 1)
    BY <2>1, <2>2
  <2>4. Target(pair.lock, l) = b[m + l]
    BY <1>8, <2>3 DEF Target
  <2>5. Target(pair.lock, l) = IF q <= p THEN b[q] ELSE b[q - 1]
    BY <2>3, <2>4
  <2> QED
    BY <2>5 DEF l
<1>29. Splits(pair.lock, s, new)
  <2>1. FuncOf(ir, pair.lock) = f
    BY <1>8
  <2> HIDE DEF b, UnlockPos, LockPos
  <2> QED
    BY <1>26, <1>27, <1>28, <2>1 DEF Splits, Precedes
<1> QED
  BY <1>1, <1>29 DEF new

\* One turn of -split.
LEMMA SplitStep ==
  ASSUME MInv, PlaceInv, [Next]_vars
  PROVE  SplitsAsAsked
<1> DEFINE pair == GenericPair(i)
           s == SplitApart(pair)
<1> SUFFICES ASSUME SplitPair, ~Faulted(ir'), UnlockPos > 0,
                    LockPos >= 0 \/ Len(ir.body[FuncOf(ir, pair.lock)]) <= IntMax
             PROVE  /\ Before(ir'.body[FuncOf(ir, pair.lock)], NewInst(ir) + 1, Len(ir.op)) = Target(pair.lock, UnlockPos)
                    /\ Before(ir'.body[FuncOf(ir, pair.lock)], NewInst(ir), Len(ir.op)) = Target(pair.lock, LockPos)
  BY DEF SplitsAsAsked
<1>1. /\ pc = "loop" /\ Mode("split") /\ i < Len(cmd.pos) /\ HasGenericPair(i) /\ HasSplitPos /\ ~SplitOverrun
      /\ Commit(s, 2)
  BY DEF SplitPair, Turn, CanSplit
<1>2. /\ Sound(ir) /\ ArgsAccepted /\ PairsInv /\ Enumerated
      /\ i \in Nat /\ i + 1 < Len(cmd.pos) /\ i + 1 < Len(cmd.splitpos)
  BY <1>1, NoOverrun DEF MInv, ModuleInv, ArgsInv, PairsInv, Enumerated, SplitOverrun, InList
<1>3. PairFact(pair)
  BY <1>1, <1>2, NamedFact
<1>4. ir' = s /\ s.fault = "none"
  BY <1>1 DEF Commit, Faulted
<1>5. Splits(pair.lock, s, NewInst(ir))
  <2> HIDE DEF pair
  <2> QED
    BY <1>1, <1>2, <1>3, <1>4, SplitWhere
<1>6. NewInst(ir) - 1 = Len(ir.op)
  <2>1. ir.op \in Seq(Op)
    BY <1>2 DEF Sound, IRType
  <2>2. Len(ir.op) \in Nat
    BY <2>1
  <2> QED
    BY <2>2 DEF NewInst
<1> HIDE DEF pair, s
<1> QED
  BY <1>4, <1>5, <1>6 DEF Splits

\* -split with an unlock position from 1 (0 misplaces the lock, line 568) and values that
\* fit an int, or a function no longer than IntMax, puts each new call before the
\* instruction at the distance the command line gives from the lock, also when the other
\* call was inserted in between
\* (insertInstructionRelative, lines 1236-1259; the second distance counts the call
\* that the first one inserted).
THEOREM SplitsWhereAsked == Spec => SplitPlaced
<1>1. MInv /\ PlaceInv /\ [Next]_vars => [SplitsAsAsked]_vars
  BY SplitStep
<1> QED
  BY <1>1, Invariance, PlacesAreKept, PTL DEF Spec, SplitPlaced
=============================================================================
