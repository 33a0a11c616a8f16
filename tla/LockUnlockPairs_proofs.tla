----------------------- MODULE LockUnlockPairs_proofs -----------------------
(***************************************************************************)
(* Theorems about LockUnlockPairs, for every module, however many          *)
(* functions and calls it has: the loops find what module LockPairing      *)
(* defines.                                                                *)
(***************************************************************************)
EXTENDS LockUnlockPairs, TLAPS, FiniteSetTheorems

\* s holds the mutex calls among the first limit - 1 instructions of a function,
\* all of them, in layout order.
FoundIn(prog, fun, limit, s) ==
  /\ \A m \in 1..Len(s) : \E n \in 1..(limit - 1) :
       s[m] = <<fun, n>> /\ IsMutexCall(prog[fun][n])
  /\ \A n \in 1..(limit - 1) : IsMutexCall(prog[fun][n]) =>
       \E m \in 1..Len(s) : s[m] = <<fun, n>>
  /\ \A m, n \in 1..Len(s) : m < n => s[m][2] < s[n][2]
  /\ Len(s) < limit

\* A lock and a later unlock of the same mutex, by their place in c.
OpIn(prog, inst) == prog[inst[1]][inst[2]]
GoodPair(prog, c, a, b) ==
  /\ a < b
  /\ IsCallToPThreadMutexLock(OpIn(prog, c[a]))
  /\ IsCallToPThreadMutexUnlock(OpIn(prog, c[b]))
  /\ CheckMutexAlias(OpIn(prog, c[a]), OpIn(prog, c[b]))
MakePair(c, a, b) == [lockCall |-> c[a], unlockCall |-> c[b]]

\* The loops have dealt with the first jj calls, and with the call behind them
\* as far as its comparisons with the first kk calls go.
Visited(a, b, jj, kk) == a <= jj \/ (a = jj + 1 /\ b <= kk)

\* ps holds the good pairs among the comparisons already made, in order.
PairsUpTo(prog, ps, c, jj, kk) ==
  /\ \A n \in 1..Len(ps) : \E a, b \in 1..Len(c) :
       Visited(a, b, jj, kk) /\ GoodPair(prog, c, a, b) /\ ps[n] = MakePair(c, a, b)
  /\ \A a, b \in 1..Len(c) : Visited(a, b, jj, kk) /\ GoodPair(prog, c, a, b) =>
       \E n \in 1..Len(ps) : ps[n] = MakePair(c, a, b)
  /\ Sorted(ps)

ScanInv ==
  /\ program \in Programs
  /\ pc = "search" => i = 0 /\ funcPairs = <<>>
  /\ pc = "search" /\ fIter <= Len(program) =>
       /\ I <= Len(program[fIter]) + 1
       /\ FoundIn(program, fIter, I, lockCalls)

CallsInv ==
  /\ Len(calls) = Len(funcs)
  /\ \A n \in 1..Len(calls) :
       /\ calls[n] # <<>>
       /\ FoundIn(program, funcs[n], Len(program[funcs[n]]) + 1, calls[n])

LoopInv ==
  /\ i <= Len(calls)
  /\ pc # "search" => Len(funcPairs) = i
  /\ pc \in {"lock", "unlock"} => i < Len(calls)
  /\ pc = "lock" => j < Len(calls[i + 1])
  /\ pc = "unlock" =>
       /\ j + 1 < Len(calls[i + 1])
       /\ k > j /\ k <= Len(calls[i + 1])
       /\ IsCallToPThreadMutexLock(OpIn(program, calls[i + 1][j + 1]))
  /\ pc = "done" => i = Len(calls)

PairsInv ==
  /\ pc = "lock" => PairsUpTo(program, pairs, calls[i + 1], j, 0)
  /\ pc = "unlock" => PairsUpTo(program, pairs, calls[i + 1], j, k)
  /\ \A n \in 1..Len(funcPairs) :
       PairsUpTo(program, funcPairs[n], calls[n], Len(calls[n]), 0)

IInv == TypeOK /\ ScanInv /\ CallsInv /\ LoopInv /\ PairsInv

-----------------------------------------------------------------------------
(* Facts about the two loops, for any sequences *)

\* Appending one element to a sequence.
LEMMA AppendFacts ==
  ASSUME NEW S, NEW s \in Seq(S), NEW e \in S
  PROVE  /\ Append(s, e) \in Seq(S)
         /\ Len(Append(s, e)) = Len(s) + 1
         /\ \A n \in 1..Len(s) : Append(s, e)[n] = s[n]
         /\ Append(s, e)[Len(s) + 1] = e
         /\ Len(s) \in Nat
  OBVIOUS

\* The search finds a call: it comes last.
LEMMA FoundCall ==
  ASSUME NEW prog, NEW fun, NEW n \in Nat \ {0}, NEW S, NEW s \in Seq(S),
         <<fun, n>> \in S, FoundIn(prog, fun, n, s), IsMutexCall(prog[fun][n])
  PROVE  FoundIn(prog, fun, n + 1, Append(s, <<fun, n>>))
<1> DEFINE e == <<fun, n>>
           t == Append(s, e)
<1>1. /\ Len(t) = Len(s) + 1 /\ Len(s) \in Nat
      /\ \A m \in 1..Len(s) : t[m] = s[m]
      /\ t[Len(s) + 1] = e
  BY AppendFacts
<1> HIDE DEF t
<1>2. ASSUME NEW m \in 1..Len(t)
      PROVE  \E x \in 1..((n + 1) - 1) : t[m] = <<fun, x>> /\ IsMutexCall(prog[fun][x])
  <2>1. CASE m = Len(s) + 1
    BY <1>1, <2>1
  <2>2. CASE m # Len(s) + 1
    <3>1. m \in 1..Len(s)
      BY <1>1, <2>2
    <3>2. PICK x \in 1..(n - 1) : s[m] = <<fun, x>> /\ IsMutexCall(prog[fun][x])
      BY <3>1 DEF FoundIn
    <3> QED
      BY <1>1, <3>1, <3>2
  <2> QED
    BY <2>1, <2>2
<1>3. ASSUME NEW x \in 1..((n + 1) - 1), IsMutexCall(prog[fun][x])
      PROVE  \E m \in 1..Len(t) : t[m] = <<fun, x>>
  <2>1. CASE x = n
    BY <1>1, <2>1
  <2>2. CASE x # n
    <3>1. x \in 1..(n - 1)
      BY <2>2
    <3>2. PICK m \in 1..Len(s) : s[m] = <<fun, x>>
      BY <1>3, <3>1 DEF FoundIn
    <3> QED
      BY <1>1, <3>2
  <2> QED
    BY <2>1, <2>2
<1>4. ASSUME NEW m1 \in 1..Len(t), NEW m2 \in 1..Len(t), m1 < m2
      PROVE  t[m1][2] < t[m2][2]
  <2>1. m1 \in 1..Len(s) /\ t[m1] = s[m1]
    BY <1>1, <1>4
  <2>2. CASE m2 = Len(s) + 1
    <3>1. PICK x \in 1..(n - 1) : s[m1] = <<fun, x>>
      BY <2>1 DEF FoundIn
    <3> QED
      BY <1>1, <2>1, <2>2, <3>1
  <2>3. CASE m2 # Len(s) + 1
    BY <1>1, <1>4, <2>1, <2>3 DEF FoundIn
  <2> QED
    BY <2>2, <2>3
<1>5. Len(t) < n + 1
  BY <1>1 DEF FoundIn
<1> QED
  BY <1>2, <1>3, <1>4, <1>5 DEF FoundIn, t

\* The search passes an instruction that is no mutex call.
LEMMA FoundOther ==
  ASSUME NEW prog, NEW fun, NEW n \in Nat \ {0}, NEW S, NEW s \in Seq(S),
         FoundIn(prog, fun, n, s), ~IsMutexCall(prog[fun][n])
  PROVE  FoundIn(prog, fun, n + 1, s)
<1>1. \A m \in 1..Len(s) : \E x \in 1..((n + 1) - 1) :
        s[m] = <<fun, x>> /\ IsMutexCall(prog[fun][x])
  <2>1. \A x \in 1..(n - 1) : x \in 1..((n + 1) - 1)
    OBVIOUS
  <2> QED
    BY <2>1 DEF FoundIn
<1>2. ASSUME NEW x \in 1..((n + 1) - 1), IsMutexCall(prog[fun][x])
      PROVE  \E m \in 1..Len(s) : s[m] = <<fun, x>>
  <2>1. x # n
    BY <1>2
  <2>2. x \in 1..(n - 1)
    BY <2>1
  <2> QED
    BY <1>2, <2>2 DEF FoundIn
<1>3. Len(s) < n + 1
  BY DEF FoundIn
<1>4. \A m1, m2 \in 1..Len(s) : m1 < m2 => s[m1][2] < s[m2][2]
  BY DEF FoundIn
<1> QED
  BY <1>1, <1>2, <1>3, <1>4 DEF FoundIn

\* At the start of a function nothing has been found.
LEMMA FoundNothing ==
  ASSUME NEW prog, NEW fun
  PROVE  FoundIn(prog, fun, 1, << >>)
  BY DEF FoundIn

\* Calls found later lie further down: what the order of the pairs rests on.
Increasing(c) == \A m, n \in 1..Len(c) : m < n => c[m][2] < c[n][2]

\* The comparison of two calls gives a pair: it comes last.
LEMMA PairFound ==
  ASSUME NEW prog, NEW S, NEW c \in Seq(S), NEW T, NEW ps \in Seq(T),
         NEW jj \in Nat, NEW kk \in Nat, jj < Len(c), kk < Len(c),
         Increasing(c), PairsUpTo(prog, ps, c, jj, kk),
         GoodPair(prog, c, jj + 1, kk + 1), MakePair(c, jj + 1, kk + 1) \in T
  PROVE  PairsUpTo(prog, Append(ps, MakePair(c, jj + 1, kk + 1)), c, jj, kk + 1)
<1> DEFINE e == MakePair(c, jj + 1, kk + 1)
           t == Append(ps, e)
<1>0. Len(c) \in Nat /\ jj + 1 \in 1..Len(c) /\ kk + 1 \in 1..Len(c)
  OBVIOUS
<1>1. /\ Len(t) = Len(ps) + 1 /\ Len(ps) \in Nat
      /\ \A n \in 1..Len(ps) : t[n] = ps[n]
      /\ t[Len(ps) + 1] = e
  BY AppendFacts
<1> HIDE DEF t, e
<1>2. ASSUME NEW n \in 1..Len(t)
      PROVE  \E a, b \in 1..Len(c) :
               Visited(a, b, jj, kk + 1) /\ GoodPair(prog, c, a, b) /\ t[n] = MakePair(c, a, b)
  <2>1. CASE n = Len(ps) + 1
    <3>1. Visited(jj + 1, kk + 1, jj, kk + 1)
      BY DEF Visited
    <3> QED
      BY <1>0, <1>1, <2>1, <3>1 DEF e
  <2>2. CASE n # Len(ps) + 1
    <3>1. n \in 1..Len(ps)
      BY <1>1, <2>2
    <3>2. PICK a \in 1..Len(c), b \in 1..Len(c) :
            Visited(a, b, jj, kk) /\ GoodPair(prog, c, a, b) /\ ps[n] = MakePair(c, a, b)
      BY <3>1 DEF PairsUpTo
    <3>3. Visited(a, b, jj, kk + 1)
      BY <3>2 DEF Visited
    <3> QED
      BY <1>1, <3>1, <3>2, <3>3
  <2> QED
    BY <2>1, <2>2
<1>3. ASSUME NEW a \in 1..Len(c), NEW b \in 1..Len(c),
             Visited(a, b, jj, kk + 1), GoodPair(prog, c, a, b)
      PROVE  \E n \in 1..Len(t) : t[n] = MakePair(c, a, b)
  <2>1. CASE a = jj + 1 /\ b = kk + 1
    BY <1>1, <2>1 DEF e
  <2>2. CASE ~(a = jj + 1 /\ b = kk + 1)
    <3>1. Visited(a, b, jj, kk)
      BY <1>3, <2>2 DEF Visited
    <3>2. PICK n \in 1..Len(ps) : ps[n] = MakePair(c, a, b)
      BY <1>3, <3>1 DEF PairsUpTo
    <3> QED
      BY <1>1, <3>2
  <2> QED
    BY <2>1, <2>2
<1>4. ASSUME NEW m \in 1..Len(t), NEW n \in 1..Len(t), m < n
      PROVE  PairLess(t[m], t[n])
  <2>1. m \in 1..Len(ps) /\ t[m] = ps[m]
    BY <1>1, <1>4
  <2>2. CASE n = Len(ps) + 1
    <3>1. PICK a \in 1..Len(c), b \in 1..Len(c) :
            Visited(a, b, jj, kk) /\ GoodPair(prog, c, a, b) /\ ps[m] = MakePair(c, a, b)
      BY <2>1 DEF PairsUpTo
    <3>2. CASE a <= jj
      <4>1. c[a][2] < c[jj + 1][2]
        BY <1>0, <3>2 DEF Increasing
      <4> QED
        BY <1>1, <2>1, <2>2, <3>1, <4>1 DEF PairLess, MakePair, e
    <3>3. CASE a = jj + 1 /\ b <= kk
      <4>1. c[b][2] < c[kk + 1][2]
        BY <1>0, <3>3 DEF Increasing
      <4> QED
        BY <1>1, <2>1, <2>2, <3>1, <3>3, <4>1 DEF PairLess, MakePair, e
    <3> QED
      BY <3>1, <3>2, <3>3 DEF Visited
  <2>3. CASE n # Len(ps) + 1
    <3>1. n \in 1..Len(ps) /\ t[n] = ps[n]
      BY <1>1, <2>3
    <3> QED
      BY <1>4, <2>1, <3>1 DEF PairsUpTo, Sorted
  <2> QED
    BY <2>2, <2>3
<1> QED
  BY <1>2, <1>3, <1>4 DEF PairsUpTo, Sorted, t, e

\* The cursor of the loops moves over comparisons that give no pair.
LEMMA NoPairBetween ==
  ASSUME NEW prog, NEW c, NEW ps,
         NEW jj \in Nat, NEW kk \in Nat, NEW j2 \in Nat, NEW k2 \in Nat,
         PairsUpTo(prog, ps, c, jj, kk),
         \A a, b \in 1..Len(c) : Visited(a, b, jj, kk) => Visited(a, b, j2, k2),
         \A a, b \in 1..Len(c) :
           Visited(a, b, j2, k2) /\ ~Visited(a, b, jj, kk) => ~GoodPair(prog, c, a, b)
  PROVE  PairsUpTo(prog, ps, c, j2, k2)
<1>1. \A a, b \in 1..Len(c) : GoodPair(prog, c, a, b) =>
        (Visited(a, b, jj, kk) <=> Visited(a, b, j2, k2))
  OBVIOUS
<1> QED
  BY <1>1 DEF PairsUpTo

\* Before the first comparison there are no pairs.
LEMMA NoPairsYet ==
  ASSUME NEW prog, NEW S, NEW c \in Seq(S)
  PROVE  PairsUpTo(prog, << >>, c, 0, 0)
<1>1. \A a, b \in 1..Len(c) : ~Visited(a, b, 0, 0)
  BY DEF Visited
<1> QED
  BY <1>1 DEF PairsUpTo, Sorted

-----------------------------------------------------------------------------
(* The inductive invariant *)

\* The module fits the unsigned counters.
LEMMA ProgramFacts ==
  ASSUME IInv
  PROVE  /\ program \in Seq(Seq(Operation))
         /\ Len(program) \in Nat
         /\ \A fun \in 1..Len(program) :
              Len(program[fun]) \in Nat /\ Len(program[fun]) <= UIntMax
         /\ UIntMax \in Nat
<1>1. program \in Programs /\ program \in Seq(Seq(Operation))
  BY DEF IInv, ScanInv, TypeOK
<1>2. \A fun \in 1..Len(program) : program[fun] \in Seq(Operation)
  BY <1>1
<1> QED
  BY <1>1, <1>2, ProgramAssumption, UIntAssumption

\* Every vector of calls is there for a function that has some, and short enough
\* for the unsigned difference.
LEMMA CallsFacts ==
  ASSUME IInv, NEW n \in 1..Len(calls)
  PROVE  /\ calls[n] \in Seq(Inst(program))
         /\ Len(calls[n]) \in 1..UIntMax
         /\ funcs[n] \in 1..Len(program)
         /\ Increasing(calls[n])
<1>1. calls[n] \in Seq(Inst(program)) /\ Len(calls) \in Nat
  BY DEF IInv, TypeOK
<1>2. funcs[n] \in 1..Len(program)
  <2> DEFINE F == 1..Len(program)
  <2>1. funcs \in Seq(F) /\ n \in 1..Len(funcs)
    BY DEF IInv, TypeOK, CallsInv
  <2> HIDE DEF F
  <2>2. funcs[n] \in F
    BY <2>1
  <2> QED
    BY <2>2 DEF F
<1>3. calls[n] # << >> /\ FoundIn(program, funcs[n], Len(program[funcs[n]]) + 1, calls[n])
  BY DEF IInv, CallsInv
<1>4. Len(calls[n]) \in Nat /\ Len(calls[n]) # 0
  BY <1>1, <1>3
<1>5. Len(calls[n]) <= UIntMax
  BY <1>2, <1>3, <1>4, ProgramFacts DEF FoundIn
<1> QED
  BY <1>1, <1>2, <1>3, <1>4, <1>5, ProgramFacts DEF FoundIn, Increasing

\* A small number is its own remainder.
LEMMA SmallRemainder ==
  ASSUME NEW x \in Nat, NEW m \in Nat, x <= m
  PROVE  x % (m + 1) = x
  BY SMT

\* The bound of the loop over j is what it looks like.
LEMMA LastCallValue ==
  ASSUME IInv, pc \in {"lock", "unlock"}
  PROVE  /\ i + 1 \in 1..Len(calls)
         /\ CallsSizeAt(i) = Len(calls[i + 1])
         /\ LastCall = Len(calls[i + 1]) - 1
<1>1. i + 1 \in 1..Len(calls) /\ i \in Nat
  BY DEF IInv, TypeOK, LoopInv
<1>2. i < Len(calls)
  BY DEF IInv, LoopInv
<1>3. CallsSizeAt(i) = Len(calls[i + 1])
  BY <1>2 DEF CallsSizeAt
<1>4. Len(calls[i + 1]) \in 1..UIntMax
  BY <1>1, CallsFacts
<1>5. (Len(calls[i + 1]) - 1) % (UIntMax + 1) = Len(calls[i + 1]) - 1
  <2>1. Len(calls[i + 1]) - 1 \in Nat /\ Len(calls[i + 1]) - 1 <= UIntMax /\ UIntMax \in Nat
    BY <1>4, ProgramFacts
  <2> QED
    BY <2>1, SmallRemainder
<1> QED
  BY <1>1, <1>3, <1>5 DEF LastCall

\* The loaded module, before the argument check.
LEMMA InitInv == Init => IInv
<1> SUFFICES ASSUME Init PROVE IInv
  OBVIOUS
<1>1. program \in Seq(Seq(Operation)) /\ program \in Programs
  BY ProgramAssumption DEF Init
<1>2. TypeOK
  BY <1>1 DEF Init, TypeOK
<1>3. ScanInv
  <2>1. fIter <= Len(program) => I <= Len(program[fIter]) + 1
    <3>1. ASSUME fIter <= Len(program) PROVE program[1] \in Seq(Operation)
      BY <1>1, <3>1 DEF Init
    <3> QED
      BY <3>1 DEF Init
  <2> QED
    BY <1>1, <2>1, FoundNothing DEF Init, ScanInv
<1>4. CallsInv /\ LoopInv /\ PairsInv
  BY DEF Init, CallsInv, LoopInv, PairsInv
<1> QED
  BY <1>2, <1>3, <1>4 DEF IInv

\* Nothing but the program counter and the search differs: the facts about the
\* visit carry over.
LEMMA SearchInstInv == IInv /\ SearchInst => IInv'
<1> SUFFICES ASSUME IInv, SearchInst PROVE IInv'
  OBVIOUS
<1> USE DEF SearchInst, visitVars
<1>1. fIter \in 1..Len(program) /\ I \in Nat \ {0} /\ I <= Len(program[fIter])
  BY ProgramFacts DEF IInv, TypeOK
<1>2. I \in 1..UIntMax /\ <<fIter, I>> \in Inst(program)
  BY <1>1, ProgramFacts DEF Inst
<1>3. lockCalls \in Seq(Inst(program)) /\ FoundIn(program, fIter, I, lockCalls)
  BY <1>1 DEF IInv, TypeOK, ScanInv
<1>4. lockCalls' \in Seq(Inst(program)) /\ FoundIn(program, fIter, I + 1, lockCalls')
  <2>1. CASE IsMutexCall(program[fIter][I])
    BY <1>1, <1>2, <1>3, <2>1, FoundCall
  <2>2. CASE ~IsMutexCall(program[fIter][I])
    BY <1>1, <1>3, <2>2, FoundOther
  <2> QED
    BY <2>1, <2>2
<1>5. TypeOK'
  BY <1>4 DEF IInv, TypeOK
<1>6. ScanInv'
  BY <1>1, <1>4, ProgramFacts DEF IInv, ScanInv
<1>7. CallsInv' /\ LoopInv' /\ PairsInv'
  BY DEF IInv, CallsInv, LoopInv, PairsInv
<1> QED
  BY <1>5, <1>6, <1>7 DEF IInv

LEMMA CloseFunctionInv == IInv /\ CloseFunction => IInv'
<1> SUFFICES ASSUME IInv, CloseFunction PROVE IInv'
  OBVIOUS
<1> USE DEF CloseFunction, visitVars
<1>1. fIter \in 1..Len(program) /\ I = Len(program[fIter]) + 1
  <2>1. fIter \in 1..Len(program)
    BY ProgramFacts DEF IInv, TypeOK
  <2>2. Len(program[fIter]) \in Nat /\ I \in Nat /\ fIter <= Len(program)
    BY <2>1, ProgramFacts DEF IInv, TypeOK
  <2>3. I <= Len(program[fIter]) + 1
    BY <2>2 DEF IInv, ScanInv
  <2> QED
    BY <2>1, <2>2, <2>3
<1>2. lockCalls \in Seq(Inst(program)) /\ FoundIn(program, fIter, I, lockCalls)
  BY <1>1 DEF IInv, TypeOK, ScanInv
<1>3. /\ funcs \in Seq(1..Len(program)) /\ calls \in Seq(Seq(Inst(program)))
      /\ Len(calls) = Len(funcs)
  BY DEF IInv, TypeOK, CallsInv
<1>4. /\ funcs' \in Seq(1..Len(program)) /\ calls' \in Seq(Seq(Inst(program)))
      /\ CallsInv'
  <2>1. CASE lockCalls = << >>
    BY <1>3, <2>1 DEF IInv, CallsInv
  <2>2. CASE lockCalls # << >>
    <3>1. /\ funcs' = Append(funcs, fIter) /\ calls' = Append(calls, lockCalls)
          /\ program' = program
      BY <2>2
    <3>2. /\ funcs' \in Seq(1..Len(program)) /\ Len(funcs') = Len(funcs) + 1
          /\ \A n \in 1..Len(funcs) : funcs'[n] = funcs[n]
          /\ funcs'[Len(funcs) + 1] = fIter
          /\ Len(funcs) \in Nat
      BY <1>1, <1>3, <3>1, AppendFacts
    <3>3. /\ calls' \in Seq(Seq(Inst(program))) /\ Len(calls') = Len(calls) + 1
          /\ \A n \in 1..Len(calls) : calls'[n] = calls[n]
          /\ calls'[Len(calls) + 1] = lockCalls
      BY <1>2, <1>3, <3>1, AppendFacts
    <3>4. ASSUME NEW n \in 1..Len(calls')
          PROVE  /\ calls'[n] # << >>
                 /\ FoundIn(program', funcs'[n], Len(program'[funcs'[n]]) + 1, calls'[n])
      <4>1. CASE n = Len(calls) + 1
        BY <1>1, <1>2, <1>3, <2>2, <3>1, <3>2, <3>3, <4>1
      <4>2. CASE n # Len(calls) + 1
        <5>1. n \in 1..Len(calls) /\ n \in 1..Len(funcs)
          BY <1>3, <3>2, <3>3, <4>2
        <5> QED
          BY <3>1, <3>2, <3>3, <5>1 DEF IInv, CallsInv
      <4> QED
        BY <4>1, <4>2
    <3> QED
      BY <1>3, <3>2, <3>3, <3>4 DEF CallsInv
  <2> QED
    BY <2>1, <2>2
<1>5. TypeOK'
  BY <1>1, <1>4, ProgramFacts DEF IInv, TypeOK
<1>6. ScanInv'
  <2>1. ASSUME fIter' <= Len(program') PROVE Len(program'[fIter']) \in Nat
    BY <1>1, <2>1, ProgramFacts
  <2> QED
    BY <2>1, FoundNothing DEF IInv, ScanInv
<1>7. LoopInv' /\ PairsInv'
  <2>1. i = 0 /\ funcPairs = << >>
    BY DEF IInv, ScanInv
  <2>2. Len(calls') \in Nat
    BY <1>4
  <2> QED
    BY <2>1, <2>2 DEF LoopInv, PairsInv
<1> QED
  BY <1>4, <1>5, <1>6, <1>7 DEF IInv

LEMMA SearchDoneInv == IInv /\ SearchDone => IInv'
<1> SUFFICES ASSUME IInv, SearchDone PROVE IInv'
  OBVIOUS
<1> USE DEF SearchDone, searchVars, visitVars
<1>1. TypeOK' /\ ScanInv' /\ CallsInv'
  BY DEF IInv, TypeOK, ScanInv, CallsInv
<1>2. LoopInv' /\ PairsInv'
  BY DEF IInv, ScanInv, LoopInv, PairsInv
<1> QED
  BY <1>1, <1>2 DEF IInv

-----------------------------------------------------------------------------
(* The steps of the visit: the calls stay as the search has left them *)

\* The search's variables are not touched by the visit.
LEMMA SearchKept ==
  ASSUME IInv, UNCHANGED <<program, searchVars>>, pc # "search", pc' # "search"
  PROVE  ScanInv' /\ CallsInv'
  BY DEF IInv, ScanInv, CallsInv, searchVars

LEMMA EnterFunctionInv == IInv /\ EnterFunction => IInv'
<1> SUFFICES ASSUME IInv, EnterFunction PROVE IInv'
  OBVIOUS
<1> USE DEF EnterFunction, searchVars
<1>1. i \in Nat /\ i + 1 \in 1..Len(calls)
  BY DEF IInv, TypeOK
<1>2. TypeOK'
  BY DEF IInv, TypeOK
<1>3. ScanInv' /\ CallsInv'
  BY SearchKept
<1>4. LoopInv'
  <2>1. Len(calls[i + 1]) \in 1..UIntMax
    BY <1>1, CallsFacts
  <2> QED
    BY <2>1 DEF IInv, LoopInv
<1>5. PairsInv'
  <2>1. PairsUpTo(program, << >>, calls[i + 1], 0, 0)
    BY <1>1, CallsFacts, NoPairsYet
  <2> QED
    BY <2>1 DEF IInv, PairsInv
<1> QED
  BY <1>2, <1>3, <1>4, <1>5 DEF IInv

LEMMA SkipFirstInv == IInv /\ SkipFirst => IInv'
<1> SUFFICES ASSUME IInv, SkipFirst PROVE IInv'
  OBVIOUS
<1> USE DEF SkipFirst, searchVars
<1> DEFINE c == calls[i + 1]
<1>1. i + 1 \in 1..Len(calls) /\ LastCall = Len(c) - 1 /\ CallsSizeAt(i) = Len(c)
  BY LastCallValue
<1>2. Len(c) \in 1..UIntMax /\ j \in Nat /\ j + 1 < Len(c)
  <2>1. Len(c) \in 1..UIntMax /\ j \in Nat
    BY <1>1, CallsFacts DEF IInv, TypeOK
  <2> QED
    BY <2>1, <1>1
<1>3. TypeOK'
  BY DEF IInv, TypeOK
<1>4. ScanInv' /\ CallsInv'
  BY SearchKept
<1>5. LoopInv'
  BY <1>2 DEF IInv, LoopInv
<1>6. PairsInv'
  <2>1. PairsUpTo(program, pairs, c, j, 0)
    BY DEF IInv, PairsInv
  <2>2. ~IsCallToPThreadMutexLock(OpIn(program, c[j + 1]))
    BY <1>1, <1>2 DEF IsLock, IsNull, CallInst, OpOf, OpIn
  <2>3. PairsUpTo(program, pairs, c, j + 1, 0)
    <3> HIDE DEF c
    <3>1. \A a, b \in 1..Len(c) : Visited(a, b, j, 0) => Visited(a, b, j + 1, 0)
      BY <1>2 DEF Visited
    <3>2. \A a, b \in 1..Len(c) : Visited(a, b, j + 1, 0) /\ ~Visited(a, b, j, 0) => a = j + 1
      BY <1>2 DEF Visited
    <3>3. \A a, b \in 1..Len(c) : a = j + 1 => ~GoodPair(program, c, a, b)
      BY <2>2 DEF GoodPair
    <3>4. j + 1 \in Nat /\ 0 \in Nat
      BY <1>2
    <3> QED
      BY <1>2, <2>1, <3>1, <3>2, <3>3, <3>4, NoPairBetween
  <2> QED
    BY <2>3 DEF IInv, PairsInv
<1> QED
  BY <1>3, <1>4, <1>5, <1>6 DEF IInv

LEMMA TakeLockInv == IInv /\ TakeLock => IInv'
<1> SUFFICES ASSUME IInv, TakeLock PROVE IInv'
  OBVIOUS
<1> USE DEF TakeLock, searchVars
<1> DEFINE c == calls[i + 1]
<1>1. i + 1 \in 1..Len(calls) /\ LastCall = Len(c) - 1 /\ CallsSizeAt(i) = Len(c)
  BY LastCallValue
<1>2. Len(c) \in 1..UIntMax /\ j \in Nat /\ j + 1 < Len(c)
  <2>1. Len(c) \in 1..UIntMax /\ j \in Nat
    BY <1>1, CallsFacts DEF IInv, TypeOK
  <2> QED
    BY <2>1, <1>1
<1>3. TypeOK'
  BY DEF IInv, TypeOK
<1>4. ScanInv' /\ CallsInv'
  BY SearchKept
<1>5. LoopInv'
  <2>1. IsCallToPThreadMutexLock(OpIn(program, c[j + 1]))
    BY DEF IsLock, CallInst, OpOf, OpIn
  <2> QED
    BY <1>2, <2>1 DEF IInv, LoopInv
<1>6. PairsInv'
  <2>1. PairsUpTo(program, pairs, c, j, 0)
    BY DEF IInv, PairsInv
  <2>2. PairsUpTo(program, pairs, c, j, j + 1)
    <3> HIDE DEF c
    <3>1. \A a, b \in 1..Len(c) : Visited(a, b, j, 0) => Visited(a, b, j, j + 1)
      BY <1>2 DEF Visited
    <3>2. \A a, b \in 1..Len(c) : Visited(a, b, j, j + 1) /\ ~Visited(a, b, j, 0) => b <= a
      BY <1>2 DEF Visited
    <3>3. \A a, b \in 1..Len(c) : b <= a => ~GoodPair(program, c, a, b)
      BY <1>2 DEF GoodPair
    <3>4. j + 1 \in Nat /\ 0 \in Nat
      BY <1>2
    <3> QED
      BY <1>2, <2>1, <3>1, <3>2, <3>3, <3>4, NoPairBetween
  <2> QED
    BY <2>2 DEF IInv, PairsInv
<1> QED
  BY <1>3, <1>4, <1>5, <1>6 DEF IInv

LEMMA CompareCallsInv == IInv /\ CompareCalls => IInv'
<1> SUFFICES ASSUME IInv, CompareCalls PROVE IInv'
  OBVIOUS
<1> USE DEF CompareCalls, searchVars
<1> DEFINE c == calls[i + 1]
<1>1. i + 1 \in 1..Len(calls) /\ CallsSizeAt(i) = Len(c)
  BY LastCallValue
<1>2. /\ c \in Seq(Inst(program)) /\ Len(c) \in 1..UIntMax /\ Increasing(c)
      /\ j \in Nat /\ k \in Nat /\ j < k /\ k < Len(c)
  BY <1>1, CallsFacts DEF IInv, TypeOK, LoopInv
<1>3. /\ pairs \in Seq(Pair(program)) /\ PairsUpTo(program, pairs, c, j, k)
      /\ IsCallToPThreadMutexLock(OpIn(program, c[j + 1]))
  BY DEF IInv, TypeOK, PairsInv, LoopInv
<1>4. j + 1 \in 1..Len(c) /\ k + 1 \in 1..Len(c) /\ k + 1 \in Nat
  BY <1>2
<1>5. IsNewPair <=> GoodPair(program, c, j + 1, k + 1)
  <2>1. ~IsNull(i, k) /\ j + 1 < k + 1
    BY <1>1, <1>2 DEF IsNull
  <2>2. /\ OpOf(CallInst(i, j)) = OpIn(program, c[j + 1])
        /\ OpOf(CallInst(i, k)) = OpIn(program, c[k + 1])
    BY DEF CallInst, OpOf, OpIn
  <2> QED
    BY <1>3, <2>1, <2>2 DEF IsNewPair, IsUnlock, GoodPair
<1>6. pairs' \in Seq(Pair(program)) /\ PairsUpTo(program, pairs', c, j, k + 1)
  <2>1. MakePair(c, j + 1, k + 1) \in Pair(program)
    BY <1>2, <1>4 DEF MakePair, Pair
  <2>2. CASE IsNewPair
    <3>1. pairs' = Append(pairs, MakePair(c, j + 1, k + 1))
      BY <2>2 DEF CallInst, MakePair
    <3> HIDE DEF c
    <3>2. pairs' \in Seq(Pair(program))
      BY <1>3, <2>1, <3>1, AppendFacts
    <3> QED
      BY <1>2, <1>3, <1>5, <2>1, <2>2, <3>1, <3>2, PairFound
  <2>3. CASE ~IsNewPair
    <3>1. pairs' = pairs
      BY <2>3
    <3> HIDE DEF c
    <3>2. \A a, b \in 1..Len(c) : Visited(a, b, j, k) => Visited(a, b, j, k + 1)
      BY <1>2 DEF Visited
    <3>3. \A a, b \in 1..Len(c) : Visited(a, b, j, k + 1) /\ ~Visited(a, b, j, k) =>
            a = j + 1 /\ b = k + 1
      BY <1>2 DEF Visited
    <3>4. \A a, b \in 1..Len(c) : a = j + 1 /\ b = k + 1 => ~GoodPair(program, c, a, b)
      BY <1>5, <2>3
    <3> QED
      BY <1>2, <1>3, <1>4, <3>1, <3>2, <3>3, <3>4, NoPairBetween
  <2> QED
    BY <2>2, <2>3
<1>7. TypeOK'
  BY <1>4, <1>6 DEF IInv, TypeOK
<1>8. ScanInv' /\ CallsInv'
  BY SearchKept
<1>9. LoopInv'
  BY <1>2 DEF IInv, LoopInv
<1>10. PairsInv'
  BY <1>6 DEF IInv, PairsInv
<1> QED
  BY <1>7, <1>8, <1>9, <1>10 DEF IInv

LEMMA NextFirstInv == IInv /\ NextFirst => IInv'
<1> SUFFICES ASSUME IInv, NextFirst PROVE IInv'
  OBVIOUS
<1> USE DEF NextFirst, searchVars
<1> DEFINE c == calls[i + 1]
<1>1. i + 1 \in 1..Len(calls) /\ CallsSizeAt(i) = Len(c)
  BY LastCallValue
<1>2. /\ Len(c) \in 1..UIntMax /\ j \in Nat /\ k \in Nat
      /\ j + 1 < Len(c) /\ k = Len(c)
  BY <1>1, CallsFacts DEF IInv, TypeOK, LoopInv
<1>3. TypeOK'
  BY DEF IInv, TypeOK
<1>4. ScanInv' /\ CallsInv'
  BY SearchKept
<1>5. LoopInv'
  BY <1>2 DEF IInv, LoopInv
<1>6. PairsInv'
  <2>1. PairsUpTo(program, pairs, c, j, k)
    BY DEF IInv, PairsInv
  <2>2. PairsUpTo(program, pairs, c, j + 1, 0)
    <3> HIDE DEF c
    <3>1. \A a, b \in 1..Len(c) : Visited(a, b, j, k) <=> Visited(a, b, j + 1, 0)
      BY <1>2 DEF Visited
    <3>2. j + 1 \in Nat /\ 0 \in Nat
      BY <1>2
    <3> QED
      BY <1>2, <2>1, <3>1, <3>2, NoPairBetween
  <2> QED
    BY <2>2 DEF IInv, PairsInv
<1> QED
  BY <1>3, <1>4, <1>5, <1>6 DEF IInv

LEMMA LeaveFunctionInv == IInv /\ LeaveFunction => IInv'
<1> SUFFICES ASSUME IInv, LeaveFunction PROVE IInv'
  OBVIOUS
<1> USE DEF LeaveFunction, searchVars
<1> DEFINE c == calls[i + 1]
<1>1. i + 1 \in 1..Len(calls) /\ LastCall = Len(c) - 1
  BY LastCallValue
<1>2. Len(c) \in 1..UIntMax /\ j \in Nat /\ j = Len(c) - 1
  <2>1. Len(c) \in 1..UIntMax /\ j \in Nat /\ j < Len(c)
    BY <1>1, CallsFacts DEF IInv, TypeOK, LoopInv
  <2> QED
    BY <2>1, <1>1
<1>3. /\ pairs \in Seq(Pair(program)) /\ funcPairs \in Seq(Seq(Pair(program)))
      /\ Len(funcPairs) = i /\ i \in Nat
  BY DEF IInv, TypeOK, LoopInv
<1>4. /\ funcPairs' \in Seq(Seq(Pair(program))) /\ Len(funcPairs') = i + 1
      /\ \A n \in 1..i : funcPairs'[n] = funcPairs[n]
      /\ funcPairs'[i + 1] = pairs
  BY <1>3, AppendFacts
<1>5. TypeOK'
  BY <1>3, <1>4 DEF IInv, TypeOK
<1>6. ScanInv' /\ CallsInv'
  BY SearchKept
<1>7. LoopInv'
  BY <1>1, <1>3, <1>4 DEF IInv, LoopInv
<1>8. PairsInv'
  <2>1. PairsUpTo(program, pairs, c, j, 0)
    BY DEF IInv, PairsInv
  <2>2. PairsUpTo(program, pairs, c, Len(c), 0)
    <3> HIDE DEF c
    <3>1. \A a, b \in 1..Len(c) : Visited(a, b, j, 0) => Visited(a, b, Len(c), 0)
      BY <1>2 DEF Visited
    <3>2. \A a, b \in 1..Len(c) : Visited(a, b, Len(c), 0) /\ ~Visited(a, b, j, 0) => b <= a
      BY <1>2 DEF Visited
    <3>3. \A a, b \in 1..Len(c) : b <= a => ~GoodPair(program, c, a, b)
      BY <1>2 DEF GoodPair
    <3>4. Len(c) \in Nat /\ 0 \in Nat
      BY <1>2
    <3> QED
      BY <1>2, <2>1, <3>1, <3>2, <3>3, <3>4, NoPairBetween
  <2>3. ASSUME NEW n \in 1..Len(funcPairs')
        PROVE  PairsUpTo(program, funcPairs'[n], calls[n], Len(calls[n]), 0)
    <3>1. CASE n = i + 1
      BY <1>4, <2>2, <3>1
    <3>2. CASE n # i + 1
      <4>1. n \in 1..i
        BY <1>3, <1>4, <3>2
      <4> QED
        BY <1>3, <1>4, <4>1 DEF IInv, PairsInv
    <3> QED
      BY <3>1, <3>2
  <2> QED
    BY <2>3 DEF PairsInv
<1> QED
  BY <1>5, <1>6, <1>7, <1>8 DEF IInv

LEMMA VisitDoneInv == IInv /\ VisitDone => IInv'
<1> SUFFICES ASSUME IInv, VisitDone PROVE IInv'
  OBVIOUS
<1> USE DEF VisitDone, searchVars, visitVars
<1>1. TypeOK' /\ ScanInv' /\ CallsInv'
  BY SearchKept DEF IInv, TypeOK
<1>2. LoopInv' /\ PairsInv'
  BY DEF IInv, TypeOK, LoopInv, PairsInv
<1> QED
  BY <1>1, <1>2 DEF IInv

\* A step that changes nothing.
LEMMA StutterInv == IInv /\ UNCHANGED vars => IInv'
  BY DEF IInv, TypeOK, ScanInv, CallsInv, LoopInv, PairsInv, vars, searchVars, visitVars

\* The invariant is inductive.
THEOREM Invariance == Spec => []IInv
<1>1. Init => IInv
  BY InitInv
<1>2. IInv /\ [Next]_vars => IInv'
  BY SearchInstInv, CloseFunctionInv, SearchDoneInv, EnterFunctionInv, SkipFirstInv,
     TakeLockInv, CompareCallsInv, NextFirstInv, LeaveFunctionInv, VisitDoneInv,
     StutterInv DEF Next, Terminated
<1> QED
  BY <1>1, <1>2, PTL DEF Spec

-----------------------------------------------------------------------------
(* What follows from it *)

\* Every variable of the visitor always holds what its C++ variable can hold,
\* for modules of any size.
THEOREM TypeCorrect == Spec => []TypeOK
<1>1. IInv => TypeOK
  BY DEF IInv
<1> QED
  BY <1>1, Invariance, PTL

\* The unsigned loop bound never wraps around and no call asked for is NULL.
THEOREM CallsNeverNull == Spec => []NeverNull
<1>1. IInv => NeverNull
  <2> SUFFICES ASSUME IInv PROVE NeverNull
    OBVIOUS
  <2>1. ASSUME pc \in {"lock", "unlock"}
        PROVE  /\ CallsSizeAt(i) = Len(calls[i + 1]) /\ LastCall = Len(calls[i + 1]) - 1
               /\ Len(calls[i + 1]) \in Nat /\ j \in Nat
    BY <2>1, LastCallValue, CallsFacts DEF IInv, TypeOK
  <2>2. pc = "lock" /\ j < LastCall => ~IsNull(i, j)
    BY <2>1 DEF IsNull
  <2>3. pc = "unlock" => ~IsNull(i, j)
    BY <2>1 DEF IsNull, IInv, LoopInv
  <2> QED
    BY <2>2, <2>3 DEF NeverNull
<1> QED
  BY <1>1, Invariance, PTL

\* The pairs of one function, once its calls and comparisons are complete.
LEMMA PairsOfOneFunction ==
  ASSUME IInv, NEW n \in 1..Len(funcs),
         NEW ps \in Seq(Pair(program)), PairsUpTo(program, ps, calls[n], Len(calls[n]), 0)
  PROVE  PairsOfFunction(funcs[n], ps)
<1> DEFINE fun == funcs[n]
           c == calls[n]
<1>1. n \in 1..Len(calls) /\ fun \in 1..Len(program) /\ Len(c) \in Nat /\ Increasing(c)
  <2>1. n \in 1..Len(calls)
    BY DEF IInv, CallsInv
  <2> QED
    BY <2>1, CallsFacts
<1>2. Len(program[fun]) \in Nat /\ FoundIn(program, fun, Len(program[fun]) + 1, c)
  BY <1>1, ProgramFacts DEF IInv, CallsInv
<1>3. SUFFICES ASSUME NEW first \in 1..Len(program[fun]), NEW second \in 1..Len(program[fun])
      PROVE  /\ first < second
             /\ IsCallToPThreadMutexLock(program[fun][first])
             /\ IsCallToPThreadMutexUnlock(program[fun][second])
             /\ CheckMutexAlias(program[fun][first], program[fun][second])
             <=> \E m \in 1..Len(ps) :
                   ps[m] = [lockCall |-> <<fun, first>>, unlockCall |-> <<fun, second>>]
  BY DEF PairsOfFunction
<1> DEFINE found == [lockCall |-> <<fun, first>>, unlockCall |-> <<fun, second>>]
<1> HIDE DEF fun, c
<1>4. ASSUME first < second,
             IsCallToPThreadMutexLock(program[fun][first]),
             IsCallToPThreadMutexUnlock(program[fun][second]),
             CheckMutexAlias(program[fun][first], program[fun][second])
      PROVE  \E m \in 1..Len(ps) : ps[m] = found
  <2>1. IsMutexCall(program[fun][first]) /\ IsMutexCall(program[fun][second])
    BY <1>4 DEF IsMutexCall
  <2>0. /\ first \in 1..((Len(program[fun]) + 1) - 1)
        /\ second \in 1..((Len(program[fun]) + 1) - 1)
    BY <1>2
  <2>2. PICK a \in 1..Len(c) : c[a] = <<fun, first>>
    BY <1>2, <2>0, <2>1 DEF FoundIn
  <2>3. PICK b \in 1..Len(c) : c[b] = <<fun, second>>
    BY <1>2, <2>0, <2>1 DEF FoundIn
  <2>4. a < b
    <3>1. c[a][2] = first /\ c[b][2] = second
      BY <2>2, <2>3
    <3>2. b < a => c[b][2] < c[a][2]
      BY <1>1 DEF Increasing
    <3> QED
      BY <1>1, <1>2, <1>4, <3>1, <3>2
  <2>5. OpIn(program, c[a]) = program[fun][first] /\ OpIn(program, c[b]) = program[fun][second]
    BY <2>2, <2>3 DEF OpIn
  <2>6. GoodPair(program, c, a, b)
    BY <1>4, <2>4, <2>5 DEF GoodPair
  <2>7. Visited(a, b, Len(c), 0)
    BY <1>1 DEF Visited
  <2>8. PICK m \in 1..Len(ps) : ps[m] = MakePair(c, a, b)
    BY <2>6, <2>7 DEF PairsUpTo, c
  <2> QED
    BY <2>2, <2>3, <2>8 DEF MakePair
<1>5. ASSUME NEW m \in 1..Len(ps), ps[m] = found
      PROVE  /\ first < second
             /\ IsCallToPThreadMutexLock(program[fun][first])
             /\ IsCallToPThreadMutexUnlock(program[fun][second])
             /\ CheckMutexAlias(program[fun][first], program[fun][second])
  <2>1. PICK a \in 1..Len(c), b \in 1..Len(c) :
          GoodPair(program, c, a, b) /\ ps[m] = MakePair(c, a, b)
    BY DEF PairsUpTo, c
  <2>2. c[a] = <<fun, first>> /\ c[b] = <<fun, second>>
    BY <1>5, <2>1 DEF MakePair
  <2>3. first < second
    <3>1. c[a][2] < c[b][2]
      BY <1>1, <2>1 DEF Increasing, GoodPair
    <3> QED
      BY <2>2, <3>1
  <2>4. OpIn(program, c[a]) = program[fun][first] /\ OpIn(program, c[b]) = program[fun][second]
    BY <2>2 DEF OpIn
  <2> QED
    BY <2>1, <2>3, <2>4 DEF GoodPair
<1> QED
  BY <1>4, <1>5

\* When the visitor is done, every function has exactly its pairs, in order, at
\* the index of its calls: what -pos counts, for modules of any size.
THEOREM PairsAreExact == Spec => []PairsExact
<1>1. IInv => PairsExact
  <2> SUFFICES ASSUME IInv, pc = "done" PROVE Len(funcPairs) = Len(funcs) /\
        \A n \in 1..Len(funcs) :
          PairsOfFunction(funcs[n], funcPairs[n]) /\ Sorted(funcPairs[n])
    BY DEF PairsExact
  <2>1. Len(funcPairs) = Len(funcs) /\ Len(funcs) = Len(calls)
    BY DEF IInv, LoopInv, CallsInv
  <2>2. ASSUME NEW n \in 1..Len(funcs)
        PROVE  PairsOfFunction(funcs[n], funcPairs[n]) /\ Sorted(funcPairs[n])
    <3>1. funcPairs[n] \in Seq(Pair(program))
      BY <2>1 DEF IInv, TypeOK
    <3>2. PairsUpTo(program, funcPairs[n], calls[n], Len(calls[n]), 0)
      BY <2>1 DEF IInv, PairsInv
    <3>3. Sorted(funcPairs[n])
      BY <3>2 DEF PairsUpTo
    <3> QED
      BY <3>1, <3>2, <3>3, PairsOfOneFunction
  <2> QED
    BY <2>1, <2>2
<1> QED
  BY <1>1, Invariance, PTL

-----------------------------------------------------------------------------
(* Kept: subsequences and their order *)

\* Every set of naturals has a least element.
LEMMA LeastNat ==
  ASSUME NEW T \in SUBSET Nat, T # {}
  PROVE  \E n \in T : \A m \in T : n <= m
<1> DEFINE Segments == {0..n : n \in T}
<1>1. Segments \subseteq FiniteSubsetsOf(Nat) /\ Segments # {}
  <2>1. \A n \in T : IsFiniteSet(0..n) /\ 0..n \subseteq Nat
    BY FS_Interval
  <2> QED
    BY <2>1 DEF FiniteSubsetsOf
<1>2. PICK X \in Segments : \A Y \in Segments : ~(<<Y, X>> \in StrictSubsetOrdering(Nat))
  BY <1>1, FS_StrictSubsetOrderingWellFounded, WFMin
<1>3. PICK n \in T : X = 0..n
  BY <1>2
<1>4. ASSUME NEW m \in T, m < n PROVE FALSE
  <2>1. 0..m \subseteq 0..n /\ n \in 0..n /\ n \notin 0..m
    BY <1>4
  <2>2. <<0..m, 0..n>> \in StrictSubsetOrdering(Nat)
    BY <2>1 DEF StrictSubsetOrdering
  <2> QED
    BY <1>2, <1>3, <2>2
<1> QED
  BY <1>4

\* A set with 0 and the successors of its elements holds all naturals up to size.
LEMMA UpTo ==
  ASSUME NEW size \in Nat, NEW T, 0 \in T, \A n \in 0..(size - 1) : n \in T => n + 1 \in T
  PROVE  0..size \subseteq T
<1> DEFINE Missing == {n \in 0..size : n \notin T}
<1> SUFFICES ASSUME Missing # {} PROVE FALSE
  OBVIOUS
<1>1. PICK n \in Missing : \A m \in Missing : n <= m
  <2>1. Missing \in SUBSET Nat
    OBVIOUS
  <2> HIDE DEF Missing
  <2> QED
    BY <2>1, LeastNat
<1>2. n # 0 /\ n - 1 \in 0..(size - 1) /\ n - 1 \notin Missing
  BY <1>1
<1>3. n - 1 \in T /\ (n - 1) + 1 = n
  BY <1>1, <1>2
<1> QED
  BY <1>1, <1>2, <1>3

\* A function can be defined by what it is at 0 and how each value follows from the
\* one before.
Solvable(X, base, size, step) ==
  \E f \in [0..size -> X] : f[0] = base /\ \A n \in 1..size : f[n] = step[<<n, f[n - 1]>>]

LEMMA Recursion ==
  ASSUME NEW X, NEW base \in X, NEW size \in Nat, NEW step \in [(1..size) \X X -> X]
  PROVE  Solvable(X, base, size, step)
<1> DEFINE Defined(n) == \E f \in [0..n -> X] :
             f[0] = base /\ \A m \in 1..n : f[m] = step[<<m, f[m - 1]>>]
           T == {n \in 0..size : Defined(n)}
<1>1. 0 \in T
  <2> DEFINE f == [m \in 0..0 |-> base]
  <2>1. f \in [0..0 -> X] /\ f[0] = base /\ \A m \in 1..0 : f[m] = step[<<m, f[m - 1]>>]
    OBVIOUS
  <2>2. Defined(0)
    BY <2>1
  <2> HIDE DEF Defined
  <2> QED
    BY <2>2
<1>2. ASSUME NEW n \in 0..(size - 1), n \in T PROVE n + 1 \in T
  <2>1. PICK f \in [0..n -> X] : f[0] = base /\ \A m \in 1..n : f[m] = step[<<m, f[m - 1]>>]
    BY <1>2
  <2> DEFINE g == [m \in 0..(n + 1) |-> IF m = n + 1 THEN step[<<n + 1, f[n]>>] ELSE f[m]]
  <2>2. n \in Nat /\ n + 1 \in 1..size /\ n + 1 \in 0..size
    BY <1>2
  <2>3. step[<<n + 1, f[n]>>] \in X
    BY <2>2
  <2>4. g \in [0..(n + 1) -> X] /\ g[0] = base
    BY <2>1, <2>2, <2>3
  <2>5. ASSUME NEW m \in 1..(n + 1) PROVE g[m] = step[<<m, g[m - 1]>>]
    <3>1. m - 1 \in 0..n /\ m - 1 # n + 1
      BY <2>2, <2>5
    <3>2. CASE m = n + 1
      <4>1. g[n + 1] = step[<<n + 1, f[n]>>] /\ (n + 1) - 1 = n /\ g[n] = f[n]
        BY <2>2
      <4> HIDE DEF g
      <4> QED
        BY <3>2, <4>1
    <3>3. CASE m # n + 1
      <4>1. m \in 1..n
        BY <2>2, <2>5, <3>3
      <4> QED
        BY <2>1, <3>1, <3>3, <4>1
    <3> QED
      BY <3>2, <3>3
  <2> HIDE DEF g
  <2> QED
    BY <2>2, <2>4, <2>5
<1>3. size \in T
  <2> HIDE DEF T
  <2>1. 0..size \subseteq T
    BY <1>1, <1>2, UpTo
  <2> QED
    BY <2>1
<1> QED
  BY <1>3 DEF Solvable

\* r[1..size] are those of the first n elements of seq that are in S, in order.
Picks(r, size, seq, n, S) ==
  \E at \in [1..size -> 1..n] :
    /\ \A a, b \in 1..size : a < b => at[a] < at[b]
    /\ \A a \in 1..size : r[a] = seq[at[a]]
    /\ \A m \in 1..n : seq[m] \in S <=> \E a \in 1..size : at[a] = m

\* Of no elements, none are picked.
LEMMA PicksNone == ASSUME NEW seq, NEW S PROVE Picks(<<>>, 0, seq, 0, S)
<1> DEFINE at == [a \in 1..0 |-> 0]
<1>1. at \in [1..0 -> 1..0]
  OBVIOUS
<1>2. /\ \A a, b \in 1..0 : a < b => at[a] < at[b]
      /\ \A a \in 1..0 : <<>>[a] = seq[at[a]]
      /\ \A m \in 1..0 : seq[m] \in S <=> \E a \in 1..0 : at[a] = m
  OBVIOUS
<1> HIDE DEF at
<1> QED
  BY <1>1, <1>2 DEF Picks

\* One more element is picked iff it is in the set.
LEMMA PicksNext ==
  ASSUME NEW E, NEW seq \in Seq(E), NEW r \in Seq(E), NEW S, NEW n \in Nat,
         n + 1 \in 1..Len(seq), Picks(r, Len(r), seq, n, S)
  PROVE  /\ seq[n + 1] \in S => Picks(Append(r, seq[n + 1]), Len(r) + 1, seq, n + 1, S)
         /\ seq[n + 1] \notin S => Picks(r, Len(r), seq, n + 1, S)
<1> DEFINE size == Len(r)
<1>1. size \in Nat
  OBVIOUS
<1>2. PICK at \in [1..size -> 1..n] :
        /\ \A a, b \in 1..size : a < b => at[a] < at[b]
        /\ \A a \in 1..size : r[a] = seq[at[a]]
        /\ \A m \in 1..n : seq[m] \in S <=> \E a \in 1..size : at[a] = m
  BY DEF Picks
<1>3. \A a \in 1..size : at[a] \in 1..n /\ at[a] \in 1..(n + 1) /\ at[a] # n + 1
  BY <1>2
<1>4. ASSUME seq[n + 1] \notin S PROVE Picks(r, size, seq, n + 1, S)
  <2>1. at \in [1..size -> 1..(n + 1)]
    BY <1>2, <1>3
  <2>2. \A m \in 1..(n + 1) : seq[m] \in S <=> \E a \in 1..size : at[a] = m
    <3> TAKE m \in 1..(n + 1)
    <3>1. CASE m = n + 1
      BY <1>3, <1>4, <3>1
    <3>2. CASE m \in 1..n
      BY <1>2, <3>2
    <3> QED
      BY <3>1, <3>2
  <2> QED
    BY <1>2, <2>1, <2>2 DEF Picks
<1>5. ASSUME seq[n + 1] \in S PROVE Picks(Append(r, seq[n + 1]), size + 1, seq, n + 1, S)
  <2> DEFINE longer == Append(r, seq[n + 1])
             to == [a \in 1..(size + 1) |-> IF a = size + 1 THEN n + 1 ELSE at[a]]
  <2>1. seq[n + 1] \in E
    OBVIOUS
  <2>2. /\ longer \in Seq(E) /\ Len(longer) = size + 1 /\ longer[size + 1] = seq[n + 1]
        /\ \A a \in 1..size : longer[a] = r[a]
    BY <1>1, <2>1
  <2>3. \A a \in 1..(size + 1) : a # size + 1 => a \in 1..size
    BY <1>1
  <2> HIDE DEF longer, size
  <2>4. /\ to \in [1..(size + 1) -> 1..(n + 1)]
        /\ to[size + 1] = n + 1 /\ \A a \in 1..size : to[a] = at[a]
    BY <1>1, <1>3, <2>3
  <2> HIDE DEF to
  <2>5. \A a, b \in 1..(size + 1) : a < b => to[a] < to[b]
    <3> SUFFICES ASSUME NEW a \in 1..(size + 1), NEW b \in 1..(size + 1), a < b
                 PROVE  to[a] < to[b]
      OBVIOUS
    <3>1. a \in 1..size
      BY <1>1
    <3>2. CASE b = size + 1
      BY <1>3, <2>4, <3>1, <3>2
    <3>3. CASE b # size + 1
      BY <1>2, <2>3, <2>4, <3>1, <3>3
    <3> QED
      BY <3>2, <3>3
  <2>6. \A a \in 1..(size + 1) : longer[a] = seq[to[a]]
    BY <1>2, <2>2, <2>3, <2>4
  <2>7. \A m \in 1..(n + 1) : seq[m] \in S <=> \E a \in 1..(size + 1) : to[a] = m
    <3> TAKE m \in 1..(n + 1)
    <3>1. CASE m = n + 1
      <4>1. size + 1 \in 1..(size + 1)
        BY <1>1
      <4> QED
        BY <1>5, <2>4, <3>1, <4>1
    <3>2. CASE m # n + 1
      <4>1. m \in 1..n
        BY <3>2
      <4>2. (\E a \in 1..size : at[a] = m) <=> \E a \in 1..(size + 1) : to[a] = m
        <5>1. \A a \in 1..size : a \in 1..(size + 1)
          BY <1>1
        <5> QED
          BY <2>3, <2>4, <3>2, <5>1
      <4> QED
        BY <1>2, <4>1, <4>2
    <3> QED
      BY <3>1, <3>2
  <2>8. Picks(longer, size + 1, seq, n + 1, S)
    BY <2>4, <2>5, <2>6, <2>7 DEF Picks
  <2> QED
    BY <2>8 DEF longer
<1> QED
  BY <1>4, <1>5

\* What Kept returns: the chosen elements, in their order.
LEMMA KeptFacts ==
  ASSUME NEW E, NEW seq \in Seq(E), NEW S
  PROVE  Kept(seq, S) \in Seq(E) /\ Picks(Kept(seq, S), Len(Kept(seq, S)), seq, Len(seq), S)
<1> DEFINE Is(f) == f = [n \in 0..Len(seq) |->
             IF n = 0 THEN <<>>
             ELSE IF seq[n] \in S THEN Append(f[n - 1], seq[n]) ELSE f[n - 1]]
           kept == CHOOSE f : Is(f)
           Next1(n, r) == IF seq[n] \in S THEN Append(r, seq[n]) ELSE r
           step == [p \in (1..Len(seq)) \X Seq(E) |-> Next1(p[1], p[2])]
<1>1. Len(seq) \in Nat /\ <<>> \in Seq(E)
  OBVIOUS
<1>2. \A n \in 1..Len(seq) : \A r \in Seq(E) : Next1(n, r) \in Seq(E)
  OBVIOUS
<1>3. step \in [(1..Len(seq)) \X Seq(E) -> Seq(E)]
  <2> HIDE DEF Next1
  <2> QED
    BY <1>2
<1>4. \A n \in 1..Len(seq) : \A r \in Seq(E) : step[<<n, r>>] = Next1(n, r)
  OBVIOUS
<1>5. PICK f \in [0..Len(seq) -> Seq(E)] :
        f[0] = <<>> /\ \A n \in 1..Len(seq) : f[n] = step[<<n, f[n - 1]>>]
  <2> HIDE DEF step
  <2>1. Solvable(Seq(E), <<>>, Len(seq), step)
    BY <1>1, <1>3, Recursion
  <2> QED
    BY <2>1 DEF Solvable
<1>6. Is(f)
  <2>1. ASSUME NEW n \in 1..Len(seq) PROVE f[n] = Next1(n, f[n - 1])
    <3>1. n - 1 \in 0..Len(seq)
      BY <1>1
    <3> HIDE DEF step, Next1
    <3> QED
      BY <1>4, <1>5, <3>1
  <2>2. \A n \in 0..Len(seq) : n # 0 => n \in 1..Len(seq)
    BY <1>1
  <2> QED
    BY <1>5, <2>1, <2>2
<1>7. Is(kept)
  <2> HIDE DEF Is
  <2> QED
    BY <1>6
<1>8. Kept(seq, S) = kept[Len(seq)]
  BY DEF Kept
<1> HIDE DEF kept
<1>9. kept[0] = <<>> /\ \A n \in 1..Len(seq) : kept[n] = Next1(n, kept[n - 1])
  <2>1. \A n \in 0..Len(seq) : kept[n] = IF n = 0 THEN <<>> ELSE Next1(n, kept[n - 1])
    BY <1>7
  <2>2. 0 \in 0..Len(seq) /\ \A n \in 1..Len(seq) : n \in 0..Len(seq) /\ n # 0
    BY <1>1
  <2> QED
    BY <2>1, <2>2
<1> HIDE DEF Is
<1> DEFINE T == {n \in 0..Len(seq) : kept[n] \in Seq(E) /\ Picks(kept[n], Len(kept[n]), seq, n, S)}
<1>10. 0 \in T
  <2>1. Picks(kept[0], Len(kept[0]), seq, 0, S) /\ kept[0] \in Seq(E) /\ 0 \in 0..Len(seq)
    BY <1>1, <1>9, PicksNone
  <2> QED
    BY <2>1
<1>11. ASSUME NEW n \in 0..(Len(seq) - 1), n \in T PROVE n + 1 \in T
  <2>1. n + 1 \in 1..Len(seq) /\ (n + 1) - 1 = n /\ n \in Nat /\ n + 1 \in 0..Len(seq)
    BY <1>1, <1>11
  <2>2. kept[n + 1] = Next1(n + 1, kept[n])
    <3> HIDE DEF Next1
    <3> QED
      BY <1>9, <2>1
  <2>3. kept[n + 1] \in Seq(E)
    BY <1>2, <1>11, <2>1, <2>2
  <2>4. Picks(kept[n + 1], Len(kept[n + 1]), seq, n + 1, S)
    <3>1. seq[n + 1] \in S => Len(kept[n + 1]) = Len(kept[n]) + 1
      BY <1>11, <2>1, <2>2
    <3> QED
      BY <1>11, <2>1, <2>2, <3>1, PicksNext
  <2> QED
    BY <2>1, <2>3, <2>4
<1>12. 0..Len(seq) \subseteq T
  <2> HIDE DEF T
  <2> QED
    BY <1>1, <1>10, <1>11, UpTo
<1> QED
  BY <1>1, <1>8, <1>12

\* A function on 1..n is a sequence.
LEMMA AsSeq == ASSUME NEW E, NEW n \in Nat, NEW f \in [1..n -> E] PROVE f \in Seq(E) /\ Len(f) = n
  OBVIOUS

\* Each element of seq is related to all that follow it.
OrderedBy(seq, R) == \A m, n \in 1..Len(seq) : m < n => <<seq[m], seq[n]>> \in R
Within(s, t) == \A m \in 1..Len(s) : \E n \in 1..Len(t) : s[m] = t[n]
Asymmetric(R) == \A p \in R : <<p[2], p[1]>> \notin R

\* The elements of seq that are in S, all of them, in the order R they have in seq.
OrderedIn(seq, S, R) ==
  \A m, n \in 1..Len(seq) : m < n /\ seq[m] \in S /\ seq[n] \in S => <<seq[m], seq[n]>> \in R
Selects(s, seq, S) ==
  /\ \A m \in 1..Len(s) : s[m] \in S /\ \E n \in 1..Len(seq) : s[m] = seq[n]
  /\ \A n \in 1..Len(seq) : seq[n] \in S => \E m \in 1..Len(s) : s[m] = seq[n]

\* A subsequence keeps the order, and holds exactly what it should.
LEMMA KeptOrdered ==
  ASSUME NEW E, NEW seq \in Seq(E), NEW S, NEW R, OrderedIn(seq, S, R)
  PROVE  /\ Kept(seq, S) \in Seq(E)
         /\ OrderedBy(Kept(seq, S), R)
         /\ Selects(Kept(seq, S), seq, S)
<1> DEFINE kept == Kept(seq, S)
           size == Len(kept)
<1>1. kept \in Seq(E) /\ Picks(kept, size, seq, Len(seq), S)
  BY KeptFacts
<1> HIDE DEF kept, size
<1>2. PICK at \in [1..size -> 1..Len(seq)] :
        /\ \A a, b \in 1..size : a < b => at[a] < at[b]
        /\ \A a \in 1..size : kept[a] = seq[at[a]]
        /\ \A m \in 1..Len(seq) : seq[m] \in S <=> \E a \in 1..size : at[a] = m
  BY <1>1 DEF Picks
<1>3. \A a \in 1..size : at[a] \in 1..Len(seq) /\ seq[at[a]] \in S
  BY <1>2
<1>4. ASSUME NEW a \in 1..size, NEW b \in 1..size, a < b PROVE <<kept[a], kept[b]>> \in R
  <2>1. at[a] < at[b] /\ kept[a] = seq[at[a]] /\ kept[b] = seq[at[b]]
    BY <1>2, <1>4
  <2>2. <<seq[at[a]], seq[at[b]]>> \in R
    BY <1>3, <2>1 DEF OrderedIn
  <2> QED
    BY <2>1, <2>2
<1>5. \A a \in 1..size : kept[a] \in S /\ \E n \in 1..Len(seq) : kept[a] = seq[n]
  BY <1>2, <1>3
<1>6. \A n \in 1..Len(seq) : seq[n] \in S => \E m \in 1..size : kept[m] = seq[n]
  BY <1>2
<1> QED
  BY <1>1, <1>4, <1>5, <1>6 DEF OrderedBy, Selects, kept, size

\* Two ordered sequences with the same elements are equal, place by place.
LEMMA AgreesWith ==
  ASSUME NEW S, NEW s \in Seq(S), NEW t \in Seq(S), NEW R, Asymmetric(R),
         OrderedBy(s, R), OrderedBy(t, R), Within(s, t), Within(t, s)
  PROVE  \A n \in 1..Len(s) : n <= Len(t) /\ s[n] = t[n]
<1> DEFINE Differ == {n \in 1..Len(s) : ~(n <= Len(t) /\ s[n] = t[n])}
<1>0. Len(s) \in Nat /\ Len(t) \in Nat
  OBVIOUS
<1>1. SUFFICES ASSUME Differ # {} PROVE FALSE
  OBVIOUS
<1>2. PICK n \in Differ : \A m \in Differ : n <= m
  <2>1. Differ \in SUBSET Nat
    OBVIOUS
  <2> HIDE DEF Differ
  <2> QED
    BY <1>1, <2>1, LeastNat
<1>3. n \in 1..Len(s) /\ ~(n <= Len(t) /\ s[n] = t[n])
  BY <1>2
<1>4. \A m \in 1..Len(s) : m < n => m <= Len(t) /\ s[m] = t[m]
  BY <1>0, <1>2
<1> HIDE DEF Differ
<1>5. ASSUME NEW x, NEW y, <<x, y>> \in R PROVE <<y, x>> \notin R /\ x # y
  <2>1. <<y, x>> \notin R
    BY <1>5 DEF Asymmetric
  <2> QED
    BY <1>5, <2>1
<1>6. PICK p \in 1..Len(t) : s[n] = t[p]
  BY <1>3 DEF Within
<1>7. ~(p < n)
  <2> SUFFICES ASSUME p < n PROVE FALSE
    OBVIOUS
  <2>1. p \in 1..Len(s) /\ s[p] = t[p] /\ <<s[p], s[n]>> \in R
    BY <1>0, <1>3, <1>4 DEF OrderedBy
  <2> QED
    BY <1>5, <1>6, <2>1
<1>8. p # n
  BY <1>0, <1>3, <1>6
<1>9. n \in 1..Len(t) /\ n < p
  BY <1>0, <1>3, <1>7, <1>8
<1>10. PICK k1 \in 1..Len(s) : t[n] = s[k1]
  BY <1>9 DEF Within
<1>11. ~(k1 < n)
  <2> SUFFICES ASSUME k1 < n PROVE FALSE
    OBVIOUS
  <2>1. k1 \in 1..Len(t) /\ s[k1] = t[k1]
    BY <1>0, <1>4
  <2>2. <<t[k1], t[n]>> \in R
    BY <1>9, <2>1 DEF OrderedBy
  <2> QED
    BY <1>5, <1>10, <2>1, <2>2
<1>12. k1 # n
  BY <1>0, <1>3, <1>9, <1>10
<1>13. <<s[n], s[k1]>> \in R /\ <<t[n], t[p]>> \in R
  BY <1>0, <1>3, <1>9, <1>11, <1>12 DEF OrderedBy
<1> QED
  BY <1>5, <1>6, <1>10, <1>13

LEMMA SameOrdered ==
  ASSUME NEW S, NEW s \in Seq(S), NEW t \in Seq(S), NEW R, Asymmetric(R),
         OrderedBy(s, R), OrderedBy(t, R), Within(s, t), Within(t, s)
  PROVE  s = t
<1>1. \A n \in 1..Len(s) : n <= Len(t) /\ s[n] = t[n]
  BY AgreesWith
<1>2. \A n \in 1..Len(t) : n <= Len(s) /\ t[n] = s[n]
  BY AgreesWith
<1>3. Len(s) \in Nat /\ Len(t) \in Nat /\ Len(s) = Len(t)
  <2>1. Len(s) \in Nat /\ Len(t) \in Nat
    OBVIOUS
  <2>2. Len(s) <= Len(t)
    <3>1. Len(s) # 0 => Len(s) \in 1..Len(s)
      BY <2>1
    <3> QED
      BY <1>1, <2>1, <3>1
  <2>3. Len(t) <= Len(s)
    <3>1. Len(t) # 0 => Len(t) \in 1..Len(t)
      BY <2>1
    <3> QED
      BY <1>2, <2>1, <3>1
  <2> QED
    BY <2>1, <2>2, <2>3
<1>4. s = [n \in 1..Len(s) |-> s[n]] /\ t = [n \in 1..Len(t) |-> t[n]]
  OBVIOUS
<1> QED
  BY <1>1, <1>3, <1>4

-----------------------------------------------------------------------------
(* The places of two loops over one vector *)

\* A quotient and a remainder make up a number, and a number has only one of each.
LEMMA DivMod ==
  ASSUME NEW x \in Nat, NEW size \in Nat \ {0}
  PROVE  /\ x \div size \in Nat /\ x % size \in 0..(size - 1)
         /\ x = size * (x \div size) + (x % size)
  BY SMT

LEMMA MonotoneProduct ==
  ASSUME NEW a \in Nat, NEW b \in Nat, NEW size \in Nat, a <= b
  PROVE  size * a <= size * b
  BY SMT

\* By the quotient, then by the remainder.
LEMMA LexOrder ==
  ASSUME NEW q1 \in Nat, NEW q2 \in Nat, NEW size \in Nat \ {0},
         NEW r1 \in 0..(size - 1), NEW r2 \in 0..(size - 1)
  PROVE  /\ size * q1 + r1 < size * q2 + r2 => q1 < q2 \/ (q1 = q2 /\ r1 < r2)
         /\ size * q1 + r1 = size * q2 + r2 => q1 = q2 /\ r1 = r2
<1>1. ASSUME NEW a \in Nat, NEW b \in Nat, a < b PROVE size * a + size <= size * b
  <2>1. size * (a + 1) <= size * b
    BY <1>1, MonotoneProduct
  <2>2. size * (a + 1) = size * a + size
    OBVIOUS
  <2> QED
    BY <2>1, <2>2
<1>2. /\ q1 < q2 => size * q1 + size <= size * q2
      /\ q2 < q1 => size * q2 + size <= size * q1
  BY <1>1
<1>3. size * q1 \in Nat /\ size * q2 \in Nat
  OBVIOUS
<1> DEFINE x == size * q1
           y == size * q2
<1>4. q1 = q2 => x = y
  OBVIOUS
<1> HIDE DEF x, y
<1>5. x \in Nat /\ y \in Nat /\ (q1 < q2 => x + size <= y) /\ (q2 < q1 => y + size <= x)
  BY <1>2, <1>3 DEF x, y
<1>6. /\ x + r1 < y + r2 => q1 < q2 \/ (q1 = q2 /\ r1 < r2)
      /\ x + r1 = y + r2 => q1 = q2 /\ r1 = r2
  BY <1>4, <1>5
<1> QED
  BY <1>6 DEF x, y

\* The order of the places: by the first call, then by the second.
PlaceOrder == {p \in (Nat \X Nat) \X (Nat \X Nat) :
                 p[1][1] < p[2][1] \/ (p[1][1] = p[2][1] /\ p[1][2] < p[2][2])}

\* Places lists all pairs of indices, once each, in that order.
LEMMA PlacesFacts ==
  ASSUME NEW size \in Nat
  PROVE  /\ Places(size) \in Seq((1..size) \X (1..size))
         /\ OrderedBy(Places(size), PlaceOrder)
         /\ \A p \in (1..size) \X (1..size) : \E n \in 1..Len(Places(size)) : Places(size)[n] = p
<1> DEFINE square == size * size
           all == Places(size)
           place(n) == <<((n - 1) \div size) + 1, ((n - 1) % size) + 1>>
<1>1. square \in Nat /\ (size = 0 => square = 0)
  OBVIOUS
<1>2. all = [n \in 1..square |-> place(n)]
  BY DEF Places
<1>3. ASSUME NEW n \in 1..square
      PROVE  /\ size \in Nat \ {0} /\ n - 1 \in Nat
             /\ (n - 1) \div size \in 0..(size - 1) /\ (n - 1) % size \in 0..(size - 1)
             /\ n - 1 = size * ((n - 1) \div size) + ((n - 1) % size)
  <2>1. size \in Nat \ {0} /\ n - 1 \in Nat
    BY <1>1
  <2> DEFINE q == (n - 1) \div size
             r == (n - 1) % size
  <2>2. q \in Nat /\ r \in 0..(size - 1) /\ n - 1 = size * q + r
    BY <2>1, DivMod
  <2>3. q < size
    <3>1. size <= q => square <= size * q
      BY <2>2, MonotoneProduct
    <3>2. n - 1 < square
      BY <1>1
    <3> DEFINE m == size * q
    <3>3. m \in Nat
      BY <2>2
    <3> HIDE DEF m, q, r, square
    <3>4. n - 1 = m + r /\ (size <= q => square <= m)
      BY <2>2, <3>1 DEF m
    <3> QED
      BY <1>1, <2>1, <2>2, <3>2, <3>3, <3>4
  <2> HIDE DEF q, r
  <2>4. q \in 0..(size - 1)
    BY <2>1, <2>2, <2>3
  <2> QED
    BY <2>1, <2>2, <2>4 DEF q, r
<1> HIDE DEF square
<1>4. \A n \in 1..square : place(n) \in (1..size) \X (1..size)
  <2> SUFFICES ASSUME NEW n \in 1..square PROVE place(n) \in (1..size) \X (1..size)
    OBVIOUS
  <2> DEFINE q == (n - 1) \div size
             r == (n - 1) % size
  <2>1. q \in 0..(size - 1) /\ r \in 0..(size - 1) /\ size \in Nat
    BY <1>3
  <2>2. place(n) = <<q + 1, r + 1>>
    OBVIOUS
  <2> HIDE DEF q, r, place
  <2> QED
    BY <2>1, <2>2
<1>5. all \in Seq((1..size) \X (1..size)) /\ Len(all) = square
  <2> HIDE DEF place
  <2>1. all \in [1..square -> (1..size) \X (1..size)]
    BY <1>2, <1>4
  <2> HIDE DEF all
  <2> QED
    BY <1>1, <2>1, AsSeq
<1>6. \A n \in 1..square : all[n] = place(n)
  BY <1>2
<1> HIDE DEF all
<1>7. OrderedBy(all, PlaceOrder)
  <2> SUFFICES ASSUME NEW m \in 1..square, NEW n \in 1..square, m < n
               PROVE  <<all[m], all[n]>> \in PlaceOrder
    BY <1>5 DEF OrderedBy
  <2> DEFINE q1 == (m - 1) \div size
             r1 == (m - 1) % size
             q2 == (n - 1) \div size
             r2 == (n - 1) % size
  <2>1. /\ size \in Nat \ {0} /\ q1 \in Nat /\ q2 \in Nat
        /\ r1 \in 0..(size - 1) /\ r2 \in 0..(size - 1)
        /\ m - 1 = size * q1 + r1 /\ n - 1 = size * q2 + r2
    BY <1>3
  <2>2. all[m] = <<q1 + 1, r1 + 1>> /\ all[n] = <<q2 + 1, r2 + 1>>
    BY <1>6
  <2>3. m - 1 < n - 1
    BY <1>1
  <2> HIDE DEF q1, r1, q2, r2
  <2>4. q1 < q2 \/ (q1 = q2 /\ r1 < r2)
    BY <2>1, <2>3, LexOrder
  <2> QED
    BY <2>1, <2>2, <2>4 DEF PlaceOrder
<1>8. ASSUME NEW p \in (1..size) \X (1..size) PROVE \E n \in 1..square : all[n] = p
  <2>1. PICK a \in 1..size, b \in 1..size : p = <<a, b>>
    OBVIOUS
  <2> DEFINE m == size * (a - 1)
             n == m + b
  <2>2. /\ size \in Nat \ {0} /\ a - 1 \in Nat /\ b - 1 \in 0..(size - 1) /\ m \in Nat
        /\ a \in Nat /\ b \in Nat
    OBVIOUS
  <2>3. m + size <= square
    <3>1. size * ((a - 1) + 1) <= size * size
      BY <2>2, MonotoneProduct
    <3>2. size * ((a - 1) + 1) = m + size
      BY <2>2
    <3> QED
      BY <3>1, <3>2 DEF square
  <2>4. n \in 1..square /\ n - 1 = m + (b - 1)
    <3> HIDE DEF m
    <3> QED
      BY <1>1, <2>2, <2>3
  <2> DEFINE q == (n - 1) \div size
             r == (n - 1) % size
  <2>5. q \in Nat /\ r \in 0..(size - 1) /\ n - 1 = size * q + r
    BY <1>3, <2>4
  <2>6. q = a - 1 /\ r = b - 1
    <3>1. size * q + r = size * (a - 1) + (b - 1)
      BY <2>4, <2>5
    <3> HIDE DEF q, r, n, m
    <3> QED
      BY <2>2, <2>5, <3>1, LexOrder
  <2>7. all[n] = <<q + 1, r + 1>>
    BY <1>6, <2>4
  <2> HIDE DEF q, r, n, m
  <2>8. q + 1 = a /\ r + 1 = b
    BY <2>2, <2>6
  <2> QED
    BY <2>1, <2>4, <2>7, <2>8
<1> QED
  BY <1>5, <1>7, <1>8 DEF all

-----------------------------------------------------------------------------
(* What the loops gather is what LockPairing computes *)

\* The bodies and operations VisitComputesFuncPairs passes to FuncPairs.
BodyOf(fun) == [n \in 1..Len(program[fun]) |-> <<fun, n>>]
OpMap == [inst \in {inst \in Inst(program) : inst[2] <= Len(program[inst[1]])} |-> OpOf(inst)]

LEMMA BodyFacts ==
  ASSUME IInv, NEW fun \in 1..Len(program)
  PROVE  /\ BodyOf(fun) \in Seq(Inst(program)) /\ Len(BodyOf(fun)) = Len(program[fun])
         /\ \A n \in 1..Len(program[fun]) :
              BodyOf(fun)[n] = <<fun, n>> /\ OpMap[<<fun, n>>] = program[fun][n]
<1> DEFINE size == Len(program[fun])
           insts == {inst \in Inst(program) : inst[2] <= Len(program[inst[1]])}
<1>1. size \in Nat /\ size <= UIntMax /\ UIntMax \in Nat
  BY ProgramFacts
<1>2. ASSUME NEW n \in 1..size PROVE <<fun, n>> \in Inst(program) /\ <<fun, n>> \in insts
  <2>1. n \in 1..UIntMax
    BY <1>1
  <2>2. <<fun, n>> \in Inst(program)
    BY <2>1 DEF Inst
  <2>3. <<fun, n>>[1] = fun /\ <<fun, n>>[2] = n /\ n <= size
    BY <1>1
  <2> QED
    BY <2>2, <2>3
<1>3. \A n \in 1..size : OpMap[<<fun, n>>] = program[fun][n]
  <2> SUFFICES ASSUME NEW n \in 1..size PROVE OpMap[<<fun, n>>] = program[fun][n]
    OBVIOUS
  <2>1. OpMap[<<fun, n>>] = OpOf(<<fun, n>>)
    BY <1>2 DEF OpMap
  <2> QED
    BY <2>1 DEF OpOf
<1>4. BodyOf(fun) \in [1..size -> Inst(program)]
  BY <1>2 DEF BodyOf
<1>5. BodyOf(fun) \in Seq(Inst(program)) /\ Len(BodyOf(fun)) = size
  <2> HIDE DEF size
  <2> QED
    BY <1>1, <1>4, AsSeq
<1> QED
  BY <1>3, <1>5 DEF BodyOf

\* One instruction behind another.
InstOrder == {p \in Inst(program) \X Inst(program) : p[1][2] < p[2][2]}

\* The search leaves in lockCalls what MutexCalls says of the function.
LEMMA CallsListed ==
  ASSUME IInv, NEW fun \in 1..Len(program), NEW c \in Seq(Inst(program)),
         FoundIn(program, fun, Len(program[fun]) + 1, c)
  PROVE  c = MutexCalls(BodyOf(fun), OpMap)
<1> DEFINE body == BodyOf(fun)
           size == Len(program[fun])
           S == {inst \in ToSet(body) : IsMutexCall(OpMap[inst])}
           t == Kept(body, S)
<1>1. /\ body \in Seq(Inst(program)) /\ Len(body) = size /\ size \in Nat
      /\ \A n \in 1..size : body[n] = <<fun, n>> /\ OpMap[<<fun, n>>] = program[fun][n]
  BY BodyFacts, ProgramFacts
<1>2. MutexCalls(body, OpMap) = t
  BY DEF MutexCalls
<1>3. \A n \in 1..size : body[n] \in S <=> IsMutexCall(program[fun][n])
  <2> SUFFICES ASSUME NEW n \in 1..size PROVE body[n] \in S <=> IsMutexCall(program[fun][n])
    OBVIOUS
  <2>1. body[n] \in ToSet(body)
    <3>1. DOMAIN body = 1..size
      BY <1>1
    <3> QED
      BY <3>1 DEF ToSet
  <2> QED
    BY <1>1, <2>1
<1> HIDE DEF body, S
<1>4. OrderedIn(body, S, InstOrder)
  <2> SUFFICES ASSUME NEW m \in 1..size, NEW n \in 1..size, m < n
               PROVE  <<body[m], body[n]>> \in InstOrder
    BY <1>1 DEF OrderedIn
  <2>1. body[m] = <<fun, m>> /\ body[n] = <<fun, n>>
    BY <1>1
  <2>2. body[m] \in Inst(program) /\ body[n] \in Inst(program)
    BY <1>1
  <2>3. body[m][2] < body[n][2]
    BY <2>1
  <2> QED
    BY <2>2, <2>3 DEF InstOrder
<1>5. /\ t \in Seq(Inst(program)) /\ OrderedBy(t, InstOrder)
      /\ \A m \in 1..Len(t) : t[m] \in S /\ \E n \in 1..Len(body) : t[m] = body[n]
      /\ \A n \in 1..Len(body) : body[n] \in S => \E m \in 1..Len(t) : t[m] = body[n]
  <2>1. t \in Seq(Inst(program)) /\ OrderedBy(t, InstOrder) /\ Selects(t, body, S)
    BY <1>1, <1>4, KeptOrdered
  <2> QED
    BY <2>1 DEF Selects
<1> HIDE DEF t
<1>6. Asymmetric(InstOrder)
  BY ProgramFacts DEF Asymmetric, InstOrder, Inst
<1>7. OrderedBy(c, InstOrder)
  <2> SUFFICES ASSUME NEW m \in 1..Len(c), NEW n \in 1..Len(c), m < n
               PROVE  <<c[m], c[n]>> \in InstOrder
    BY DEF OrderedBy
  <2>1. c[m] \in Inst(program) /\ c[n] \in Inst(program)
    OBVIOUS
  <2>2. c[m][2] < c[n][2]
    BY DEF FoundIn
  <2> QED
    BY <2>1, <2>2 DEF InstOrder
<1>8. (size + 1) - 1 = size
  BY <1>1
<1>9. Within(c, t)
  <2> SUFFICES ASSUME NEW m \in 1..Len(c) PROVE \E n \in 1..Len(t) : c[m] = t[n]
    BY DEF Within
  <2>1. PICK n \in 1..size : c[m] = <<fun, n>> /\ IsMutexCall(program[fun][n])
    BY <1>8 DEF FoundIn
  <2> QED
    BY <1>1, <1>3, <1>5, <2>1
<1>10. Within(t, c)
  <2> SUFFICES ASSUME NEW m \in 1..Len(t) PROVE \E n \in 1..Len(c) : t[m] = c[n]
    BY DEF Within
  <2>1. PICK n \in 1..size : t[m] = body[n] /\ body[n] \in S
    BY <1>1, <1>5
  <2>2. IsMutexCall(program[fun][n]) /\ t[m] = <<fun, n>>
    BY <1>1, <1>3, <2>1
  <2> QED
    BY <1>8, <2>2 DEF FoundIn
<1>11. c = t
  BY <1>5, <1>6, <1>7, <1>9, <1>10, SameOrdered
<1> QED
  BY <1>2, <1>11 DEF body

\* The order of pairs that Sorted speaks of.
PairOrder == {p \in Pair(program) \X Pair(program) : PairLess(p[1], p[2])}

LEMMA PairOrderFacts == IInv => Asymmetric(PairOrder)
<1> SUFFICES ASSUME IInv, NEW p \in Pair(program), NEW q \in Pair(program),
                    PairLess(p, q), PairLess(q, p)
             PROVE  FALSE
  BY DEF Asymmetric, PairOrder
<1>1. /\ p.lockCall \in Inst(program) /\ p.unlockCall \in Inst(program)
      /\ q.lockCall \in Inst(program) /\ q.unlockCall \in Inst(program)
  BY DEF Pair
<1>2. \A inst \in Inst(program) : inst[2] \in Nat
  BY DEF Inst
<1>3. /\ p.lockCall[2] \in Nat /\ p.unlockCall[2] \in Nat
      /\ q.lockCall[2] \in Nat /\ q.unlockCall[2] \in Nat
  BY <1>1, <1>2
<1> QED
  BY <1>3 DEF PairLess

\* The two loops leave in pairs what PairsOf says of the calls.
LEMMA PairsListed ==
  ASSUME IInv, NEW n \in 1..Len(calls), NEW ps \in Seq(Pair(program)),
         PairsUpTo(program, ps, calls[n], Len(calls[n]), 0)
  PROVE  ps = PairsOf(calls[n], OpMap)
<1> DEFINE c == calls[n]
           fun == funcs[n]
           size == Len(c)
           both == (1..size) \X (1..size)
           S == {p \in both : IsPair(c, OpMap, p[1], p[2])}
           places == Kept(Places(size), S)
           t == [m \in 1..Len(places) |->
                   [lockCall |-> c[places[m][1]], unlockCall |-> c[places[m][2]]]]
<1>1. /\ c \in Seq(Inst(program)) /\ size \in Nat /\ fun \in 1..Len(program) /\ Increasing(c)
  BY CallsFacts
<1>2. FoundIn(program, fun, Len(program[fun]) + 1, c)
  BY DEF IInv, CallsInv
<1>3. PairsOf(c, OpMap) = t
  BY DEF PairsOf
<1> HIDE DEF c, fun, size
<1>4. ASSUME NEW a \in 1..size PROVE OpMap[c[a]] = OpIn(program, c[a])
  <2>1. (Len(program[fun]) + 1) - 1 = Len(program[fun])
    BY <1>1, ProgramFacts
  <2>2. PICK m \in 1..Len(program[fun]) : c[a] = <<fun, m>>
    BY <1>2, <2>1 DEF FoundIn, size
  <2>3. OpMap[<<fun, m>>] = program[fun][m]
    BY <1>1, BodyFacts
  <2> QED
    BY <2>2, <2>3 DEF OpIn
<1>5. \A a, b \in 1..size : IsPair(c, OpMap, a, b) <=> GoodPair(program, c, a, b)
  BY <1>4 DEF IsPair, GoodPair
<1>6. \A a, b \in 1..size : <<a, b>> \in S <=> GoodPair(program, c, a, b)
  BY <1>5
<1>7. /\ Places(size) \in Seq(both) /\ OrderedBy(Places(size), PlaceOrder)
      /\ \A p \in both : \E m \in 1..Len(Places(size)) : Places(size)[m] = p
  BY <1>1, PlacesFacts
<1>8. S \subseteq both
  OBVIOUS
<1> HIDE DEF S
<1>9. /\ places \in Seq(both) /\ OrderedBy(places, PlaceOrder)
      /\ \A m \in 1..Len(places) : places[m] \in S
      /\ \A m \in 1..Len(Places(size)) : Places(size)[m] \in S =>
           \E k1 \in 1..Len(places) : places[k1] = Places(size)[m]
  <2> HIDE DEF both
  <2>1. OrderedIn(Places(size), S, PlaceOrder)
    BY <1>7 DEF OrderedBy, OrderedIn
  <2>2. /\ places \in Seq(both) /\ OrderedBy(places, PlaceOrder)
        /\ Selects(places, Places(size), S)
    BY <1>7, <2>1, KeptOrdered
  <2> QED
    BY <2>2 DEF Selects
<1>10. Len(places) \in Nat /\ \A m \in 1..Len(places) :
          places[m][1] \in 1..size /\ places[m][2] \in 1..size
          /\ places[m] = <<places[m][1], places[m][2]>>
  <2>1. \A m \in 1..Len(places) : places[m] \in both
    BY <1>9
  <2> QED
    BY <1>9, <2>1
<1> HIDE DEF places
<1>11. Len(t) = Len(places) /\ \A m \in 1..Len(places) : t[m] = MakePair(c, places[m][1], places[m][2])
  BY <1>10 DEF MakePair
<1>12. \A a, b \in 1..size : MakePair(c, a, b) \in Pair(program)
  <2>1. \A a \in 1..size : c[a] \in Inst(program)
    BY <1>1 DEF size
  <2> QED
    BY <2>1 DEF MakePair, Pair
<1>13. t \in Seq(Pair(program))
  <2>1. t \in [1..Len(places) -> Pair(program)]
    <3>1. \A m \in 1..Len(places) : t[m] \in Pair(program)
      BY <1>10, <1>11, <1>12
    <3> QED
      BY <3>1
  <2> HIDE DEF t
  <2> QED
    BY <1>10, <2>1, AsSeq
<1> HIDE DEF t
<1>14. OrderedBy(t, PairOrder)
  <2> SUFFICES ASSUME NEW m \in 1..Len(places), NEW k1 \in 1..Len(places), m < k1
               PROVE  <<t[m], t[k1]>> \in PairOrder
    BY <1>11 DEF OrderedBy
  <2>1. <<places[m], places[k1]>> \in PlaceOrder
    BY <1>9 DEF OrderedBy
  <2>2. /\ places[m][1] < places[k1][1]
        \/ (places[m][1] = places[k1][1] /\ places[m][2] < places[k1][2])
    BY <2>1 DEF PlaceOrder
  <2>3. /\ places[m][1] \in 1..size /\ places[m][2] \in 1..size
        /\ places[k1][1] \in 1..size /\ places[k1][2] \in 1..size
    BY <1>10
  <2>4. \A a, b \in 1..size : a < b => c[a][2] < c[b][2]
    BY <1>1 DEF Increasing, size
  <2>5. /\ t[m] = MakePair(c, places[m][1], places[m][2])
        /\ t[k1] = MakePair(c, places[k1][1], places[k1][2])
    BY <1>11
  <2>6. PairLess(t[m], t[k1])
    <3>1. CASE places[m][1] < places[k1][1]
      <4>1. c[places[m][1]][2] < c[places[k1][1]][2]
        BY <2>3, <2>4, <3>1
      <4> QED
        BY <2>5, <4>1 DEF PairLess, MakePair
    <3>2. CASE places[m][1] = places[k1][1] /\ places[m][2] < places[k1][2]
      <4>1. c[places[m][2]][2] < c[places[k1][2]][2]
        BY <2>3, <2>4, <3>2
      <4> QED
        BY <2>5, <3>2, <4>1 DEF PairLess, MakePair
    <3> QED
      BY <2>2, <3>1, <3>2
  <2>7. t[m] \in Pair(program) /\ t[k1] \in Pair(program)
    BY <1>11, <1>13
  <2> QED
    BY <2>6, <2>7 DEF PairOrder
<1>15. OrderedBy(ps, PairOrder)
  <2>1. Sorted(ps)
    BY DEF PairsUpTo
  <2> QED
    BY <2>1 DEF OrderedBy, PairOrder, Sorted
<1>16. /\ \A m \in 1..Len(ps) : \E a, b \in 1..size :
            GoodPair(program, c, a, b) /\ ps[m] = MakePair(c, a, b)
       /\ \A a, b \in 1..size : GoodPair(program, c, a, b) =>
            \E m \in 1..Len(ps) : ps[m] = MakePair(c, a, b)
  <2>1. PairsUpTo(program, ps, c, Len(c), 0) /\ Len(c) = size /\ size \in Nat
    BY <1>1 DEF c, size
  <2>2. \A a, b \in 1..size : Visited(a, b, size, 0)
    BY DEF Visited
  <2> QED
    BY <2>1, <2>2 DEF PairsUpTo
<1>17. Within(ps, t)
  <2> SUFFICES ASSUME NEW m \in 1..Len(ps) PROVE \E k1 \in 1..Len(t) : ps[m] = t[k1]
    BY DEF Within
  <2>1. PICK a \in 1..size, b \in 1..size :
          GoodPair(program, c, a, b) /\ ps[m] = MakePair(c, a, b)
    BY <1>16
  <2>2. <<a, b>> \in S /\ <<a, b>> \in both
    BY <1>6, <2>1
  <2>3. PICK x \in 1..Len(Places(size)) : Places(size)[x] = <<a, b>>
    BY <1>7, <2>2
  <2>4. PICK k1 \in 1..Len(places) : places[k1] = <<a, b>>
    BY <1>9, <2>2, <2>3
  <2>5. places[k1][1] = a /\ places[k1][2] = b
    BY <2>4
  <2> QED
    BY <1>11, <2>1, <2>4, <2>5
<1>18. Within(t, ps)
  <2> SUFFICES ASSUME NEW m \in 1..Len(places) PROVE \E k1 \in 1..Len(ps) : t[m] = ps[k1]
    BY <1>11 DEF Within
  <2> DEFINE a == places[m][1]
             b == places[m][2]
  <2>1. a \in 1..size /\ b \in 1..size /\ <<a, b>> \in S /\ t[m] = MakePair(c, a, b)
    BY <1>9, <1>10, <1>11
  <2> HIDE DEF a, b
  <2>2. GoodPair(program, c, a, b)
    BY <1>6, <2>1
  <2> QED
    BY <1>16, <2>1, <2>2
<1>19. ps = t
  BY <1>13, <1>14, <1>15, <1>17, <1>18, PairOrderFacts, SameOrdered
<1> QED
  BY <1>3, <1>19 DEF c

-----------------------------------------------------------------------------
(* The functions that are counted *)

\* funcs holds the functions passed that lock or unlock, all of them, in layout order.
FuncsInv ==
  /\ \A n \in 1..Len(funcs) : funcs[n] < fIter
  /\ \A m, n \in 1..Len(funcs) : m < n => funcs[m] < funcs[n]
  /\ \A fun \in 1..Len(program) :
       fun < fIter /\ (\E n \in 1..Len(program[fun]) : IsMutexCall(program[fun][n])) =>
         \E m \in 1..Len(funcs) : funcs[m] = fun
  /\ pc # "search" => fIter > Len(program)

LEMMA InitFuncs == Init => FuncsInv
<1> SUFFICES ASSUME Init PROVE FuncsInv
  OBVIOUS
<1>1. \A fun \in 1..Len(program) : ~(fun < 1)
  OBVIOUS
<1> QED
  BY <1>1 DEF Init, FuncsInv

LEMMA CloseFunctionFuncs == IInv /\ FuncsInv /\ CloseFunction => FuncsInv'
<1> SUFFICES ASSUME IInv, FuncsInv, CloseFunction PROVE FuncsInv'
  OBVIOUS
<1>1. /\ fIter \in Nat /\ Len(program) \in Nat /\ fIter \in 1..Len(program)
      /\ I \in Nat /\ Len(program[fIter]) \in Nat /\ I = Len(program[fIter]) + 1
  <2>1. fIter \in 1..Len(program) /\ I \in Nat /\ fIter <= Len(program) /\ Len(program) \in Nat
    BY ProgramFacts DEF CloseFunction, IInv, TypeOK
  <2>2. Len(program[fIter]) \in Nat
    BY <2>1, ProgramFacts
  <2> QED
    BY <2>1, <2>2 DEF CloseFunction, IInv, ScanInv
<1>2. FoundIn(program, fIter, I, lockCalls) /\ lockCalls \in Seq(Inst(program))
  BY <1>1 DEF CloseFunction, IInv, ScanInv, TypeOK
<1>3. /\ fIter' = fIter + 1 /\ program' = program /\ pc' = pc /\ pc = "search"
  BY DEF CloseFunction
<1> DEFINE F == 1..Len(program)
<1>4. funcs \in Seq(F) /\ fIter \in F
  BY <1>1 DEF IInv, TypeOK
<1>5. \A fun \in F : fun < fIter + 1 => fun < fIter \/ fun = fIter
  BY <1>1
<1>6. CASE lockCalls = <<>>
  <2>1. funcs' = funcs
    BY <1>6 DEF CloseFunction
  <2>2. \A n \in 1..Len(program[fIter]) : ~IsMutexCall(program[fIter][n])
    <3>1. (Len(program[fIter]) + 1) - 1 = Len(program[fIter]) /\ Len(lockCalls) = 0
      BY <1>1, <1>6
    <3> QED
      BY <1>1, <1>2, <3>1 DEF FoundIn
  <2>3. \A n \in 1..Len(funcs) : funcs[n] < fIter + 1
    <3>1. \A n \in 1..Len(funcs) : funcs[n] \in F /\ funcs[n] < fIter
      BY <1>4 DEF FuncsInv
    <3> QED
      BY <1>1, <3>1
  <2>4. ASSUME NEW fun \in F, fun < fIter + 1,
               \E n \in 1..Len(program[fun]) : IsMutexCall(program[fun][n])
        PROVE  \E m \in 1..Len(funcs) : funcs[m] = fun
    <3>1. fun # fIter
      BY <2>2, <2>4
    <3> QED
      BY <1>5, <2>4, <3>1 DEF FuncsInv
  <2> QED
    BY <1>3, <2>1, <2>3, <2>4 DEF FuncsInv
<1>7. CASE lockCalls # <<>>
  <2>1. funcs' = Append(funcs, fIter)
    BY <1>7 DEF CloseFunction
  <2> HIDE DEF F
  <2>2. /\ Len(funcs') = Len(funcs) + 1 /\ Len(funcs) \in Nat
        /\ \A n \in 1..Len(funcs) : funcs'[n] = funcs[n]
        /\ funcs'[Len(funcs) + 1] = fIter
    BY <1>4, <2>1, AppendFacts
  <2>3. \A n \in 1..Len(funcs) : funcs[n] \in F /\ funcs[n] < fIter
    BY <1>4 DEF FuncsInv
  <2>4. \A n \in 1..(Len(funcs) + 1) : n \in 1..Len(funcs) \/ n = Len(funcs) + 1
    BY <2>2
  <2>5. \A n \in 1..Len(funcs') : funcs'[n] < fIter + 1
    BY <1>1, <2>2, <2>3, <2>4 DEF F
  <2>6. ASSUME NEW m \in 1..Len(funcs'), NEW n \in 1..Len(funcs'), m < n
        PROVE  funcs'[m] < funcs'[n]
    <3>1. m \in 1..Len(funcs)
      BY <2>2, <2>6
    <3>2. CASE n = Len(funcs) + 1
      BY <2>2, <2>3, <3>1, <3>2
    <3>3. CASE n \in 1..Len(funcs)
      BY <2>2, <2>6, <3>1, <3>3 DEF FuncsInv
    <3> QED
      BY <2>2, <2>4, <3>2, <3>3
  <2>7. ASSUME NEW fun \in F, fun < fIter + 1,
               \E n \in 1..Len(program[fun]) : IsMutexCall(program[fun][n])
        PROVE  \E m \in 1..Len(funcs') : funcs'[m] = fun
    <3>1. CASE fun = fIter
      <4>1. Len(funcs) + 1 \in 1..Len(funcs')
        BY <2>2
      <4> QED
        BY <2>2, <3>1, <4>1
    <3>2. CASE fun # fIter
      <4>1. PICK m \in 1..Len(funcs) : funcs[m] = fun
        BY <1>5, <2>7, <3>2 DEF FuncsInv, F
      <4>2. m \in 1..Len(funcs')
        BY <2>2
      <4> QED
        BY <2>2, <4>1, <4>2
    <3> QED
      BY <3>1, <3>2
  <2> QED
    BY <1>3, <2>5, <2>6, <2>7 DEF FuncsInv, F
<1> QED
  BY <1>6, <1>7

LEMMA FuncsStep == IInv /\ FuncsInv /\ [Next]_vars => FuncsInv'
<1> SUFFICES ASSUME IInv, FuncsInv, [Next]_vars PROVE FuncsInv'
  OBVIOUS
<1>1. CASE CloseFunction
  BY <1>1, CloseFunctionFuncs
<1>2. CASE SearchInst
  BY <1>2 DEF SearchInst, FuncsInv
<1>3. CASE SearchDone
  BY <1>3 DEF SearchDone, FuncsInv, searchVars, IInv, TypeOK
<1>4. CASE UNCHANGED <<program, searchVars>> /\ pc # "search"
  BY <1>4 DEF FuncsInv, searchVars
<1>5. CASE UNCHANGED vars
  BY <1>5 DEF FuncsInv, vars, searchVars
<1> QED
  BY <1>1, <1>2, <1>3, <1>4, <1>5
  DEF Next, EnterFunction, SkipFirst, TakeLock, CompareCalls, NextFirst, LeaveFunction,
      VisitDone, Terminated

-----------------------------------------------------------------------------

\* By the function of the first call.
FunOrder ==
  {p \in Seq(Inst(program)) \X Seq(Inst(program)) :
     p[1] # <<>> /\ p[2] # <<>> /\ p[1][1][1] < p[2][1][1]}

\* The vectors of calls are those of the functions that lock or unlock.
LEMMA AllCallsListed ==
  ASSUME IInv, FuncsInv, pc = "done",
         NEW found, found = [fun \in 1..Len(program) |-> MutexCalls(BodyOf(fun), OpMap)]
  PROVE  calls = Kept(found, ToSet(found) \ {<<>>})
<1> DEFINE X == Seq(Inst(program))
           S == ToSet(found) \ {<<>>}
           t == Kept(found, S)
<1>1. /\ calls \in Seq(X) /\ Len(calls) = Len(funcs) /\ Len(calls) \in Nat
      /\ Len(program) \in Nat
  BY ProgramFacts DEF IInv, TypeOK, CallsInv
<1>2. ASSUME NEW n \in 1..Len(calls)
      PROVE  /\ funcs[n] \in 1..Len(program) /\ calls[n] \in X /\ calls[n] # <<>>
             /\ calls[n][1][1] = funcs[n] /\ calls[n] = found[funcs[n]]
             /\ FoundIn(program, funcs[n], Len(program[funcs[n]]) + 1, calls[n])
  <2>1. /\ funcs[n] \in 1..Len(program) /\ calls[n] \in X
        /\ Len(calls[n]) \in 1..UIntMax
    BY CallsFacts
  <2>2. calls[n] # <<>> /\ FoundIn(program, funcs[n], Len(program[funcs[n]]) + 1, calls[n])
    BY DEF IInv, CallsInv
  <2>3. calls[n] = found[funcs[n]]
    BY <2>1, <2>2, CallsListed
  <2>4. 1 \in 1..Len(calls[n])
    BY <2>1, UIntAssumption
  <2>5. calls[n][1][1] = funcs[n]
    <3>1. PICK x \in 1..((Len(program[funcs[n]]) + 1) - 1) : calls[n][1] = <<funcs[n], x>>
      BY <2>2, <2>4 DEF FoundIn
    <3> QED
      BY <3>1
  <2> QED
    BY <2>1, <2>2, <2>3, <2>5
<1>3. ASSUME NEW fun \in 1..Len(program)
      PROVE  /\ found[fun] \in X
             /\ found[fun] # <<>> =>
                  found[fun][1][1] = fun /\ \E n \in 1..Len(calls) : calls[n] = found[fun]
  <2> DEFINE body == BodyOf(fun)
             size == Len(program[fun])
             T == {inst \in ToSet(body) : IsMutexCall(OpMap[inst])}
             kept == Kept(body, T)
  <2>1. /\ body \in Seq(Inst(program)) /\ Len(body) = size /\ size \in Nat
        /\ \A n \in 1..size : body[n] = <<fun, n>> /\ OpMap[<<fun, n>>] = program[fun][n]
    BY BodyFacts, ProgramFacts
  <2>2. found[fun] = kept
    BY DEF MutexCalls
  <2> HIDE DEF body
  <2>3. kept \in Seq(Inst(program)) /\ Selects(kept, body, T)
    <3> DEFINE R == Inst(program) \X Inst(program)
    <3> HIDE DEF T
    <3>1. OrderedIn(body, T, R)
      BY <2>1 DEF OrderedIn
    <3> HIDE DEF R
    <3> QED
      BY <2>1, <3>1, KeptOrdered
  <2>4. ASSUME kept # <<>>
        PROVE  kept[1][1] = fun /\ \E n \in 1..size : IsMutexCall(program[fun][n])
    <3> HIDE DEF kept
    <3>1. 1 \in 1..Len(kept)
      BY <2>3, <2>4
    <3>2. kept[1] \in T /\ \E n \in 1..Len(body) : kept[1] = body[n]
      BY <2>3, <3>1 DEF Selects
    <3>3. PICK n \in 1..size : kept[1] = body[n]
      BY <2>1, <3>2
    <3>4. kept[1] = <<fun, n>> /\ IsMutexCall(program[fun][n])
      BY <2>1, <3>2, <3>3
    <3> QED
      BY <3>4
  <2> HIDE DEF kept, T
  <2>5. ASSUME kept # <<>> PROVE \E n \in 1..Len(calls) : calls[n] = found[fun]
    <3>1. fun < fIter
      BY <1>1 DEF FuncsInv, IInv, TypeOK
    <3>2. PICK n \in 1..Len(funcs) : funcs[n] = fun
      BY <2>4, <2>5, <3>1 DEF FuncsInv
    <3> QED
      BY <1>1, <1>2, <3>2
  <2> QED
    BY <2>2, <2>3, <2>4, <2>5
<1>4. found \in Seq(X) /\ Len(found) = Len(program) /\ DOMAIN found = 1..Len(program)
  <2>1. found \in [1..Len(program) -> X]
    BY <1>3
  <2> HIDE DEF X
  <2> QED
    BY <1>1, <2>1, AsSeq
<1>5. \A fun \in 1..Len(program) : found[fun] \in S <=> found[fun] # <<>>
  BY <1>4 DEF ToSet
<1>6. Asymmetric(FunOrder)
  <2> SUFFICES ASSUME NEW c \in X, NEW d \in X, c # <<>>, d # <<>>,
                      c[1][1] < d[1][1], d[1][1] < c[1][1]
               PROVE  FALSE
    BY DEF Asymmetric, FunOrder
  <2>1. \A e \in X : e # <<>> => e[1] \in Inst(program)
    OBVIOUS
  <2>2. \A inst \in Inst(program) : inst[1] \in Nat
    BY <1>1 DEF Inst
  <2>3. c[1][1] \in Nat /\ d[1][1] \in Nat
    BY <2>1, <2>2
  <2> QED
    BY <2>3
<1> HIDE DEF S
<1>7. OrderedIn(found, S, FunOrder)
  <2> SUFFICES ASSUME NEW m \in 1..Len(program), NEW n \in 1..Len(program), m < n,
                      found[m] \in S, found[n] \in S
               PROVE  <<found[m], found[n]>> \in FunOrder
    BY <1>4 DEF OrderedIn
  <2>1. /\ found[m] \in X /\ found[n] \in X /\ found[m] # <<>> /\ found[n] # <<>>
        /\ found[m][1][1] = m /\ found[n][1][1] = n
    BY <1>3, <1>5
  <2> QED
    BY <2>1 DEF FunOrder
<1>8. t \in Seq(X) /\ OrderedBy(t, FunOrder) /\ Selects(t, found, S)
  <2> HIDE DEF X
  <2> QED
    BY <1>4, <1>7, KeptOrdered
<1> HIDE DEF t
<1>9. OrderedBy(calls, FunOrder)
  <2> SUFFICES ASSUME NEW m \in 1..Len(calls), NEW n \in 1..Len(calls), m < n
               PROVE  <<calls[m], calls[n]>> \in FunOrder
    BY DEF OrderedBy
  <2>1. funcs[m] < funcs[n]
    BY <1>1 DEF FuncsInv
  <2> QED
    BY <1>2, <2>1 DEF FunOrder
<1>10. Within(calls, t)
  <2> SUFFICES ASSUME NEW m \in 1..Len(calls) PROVE \E n \in 1..Len(t) : calls[m] = t[n]
    BY DEF Within
  <2>1. funcs[m] \in 1..Len(found) /\ calls[m] = found[funcs[m]] /\ found[funcs[m]] \in S
    BY <1>2, <1>4, <1>5
  <2>2. PICK n \in 1..Len(t) : t[n] = found[funcs[m]]
    <3> HIDE DEF X
    <3> QED
      BY <1>8, <2>1 DEF Selects
  <2> QED
    BY <2>1, <2>2
<1>11. Within(t, calls)
  <2> SUFFICES ASSUME NEW m \in 1..Len(t) PROVE \E n \in 1..Len(calls) : t[m] = calls[n]
    BY DEF Within
  <2>1. t[m] \in S /\ \E fun \in 1..Len(found) : t[m] = found[fun]
    BY <1>8 DEF Selects
  <2>2. PICK fun \in 1..Len(program) : t[m] = found[fun]
    BY <1>4, <2>1
  <2>3. found[fun] # <<>>
    BY <1>5, <2>1, <2>2
  <2>4. PICK n \in 1..Len(calls) : calls[n] = found[fun]
    BY <1>3, <2>3
  <2> QED
    BY <2>2, <2>4
<1>12. calls = t
  <2> HIDE DEF X
  <2> QED
    BY <1>1, <1>6, <1>8, <1>9, <1>10, <1>11, SameOrdered
<1> QED
  BY <1>12 DEF t, S

\* The scans and loops compute what FuncPairs says in one expression: the pairs of every
\* function that locks or unlocks, in the order of the functions, of their lock calls and
\* of their unlock calls (LockUnlockPairs.cpp:19-68, FuncLocalLockCalls.cpp:11-48).
THEOREM VisitIsExact == Spec => []VisitComputesFuncPairs
<1>1. IInv /\ FuncsInv => VisitComputesFuncPairs
  <2> SUFFICES ASSUME IInv, FuncsInv, pc = "done"
               PROVE  LET body == [fun \in 1..Len(program) |->
                                     [n \in 1..Len(program[fun]) |-> <<fun, n>>]]
                          op   == [inst \in {inst \in Inst(program) :
                                               inst[2] <= Len(program[inst[1]])} |-> OpOf(inst)]
                      IN  funcPairs = FuncPairs(body, op)
    BY DEF VisitComputesFuncPairs
  <2> DEFINE body == [fun \in 1..Len(program) |-> BodyOf(fun)]
             found == [fun \in 1..Len(body) |-> MutexCalls(body[fun], OpMap)]
             listed == Kept(found, ToSet(found) \ {<<>>})
  <2>1. FuncPairs(body, OpMap) = [n \in 1..Len(listed) |-> PairsOf(listed[n], OpMap)]
    BY DEF FuncPairs
  <2>2. Len(program) \in Nat /\ Len(body) = Len(program)
    BY ProgramFacts
  <2>3. found = [fun \in 1..Len(program) |-> MutexCalls(BodyOf(fun), OpMap)]
    BY <2>2
  <2> HIDE DEF found, body
  <2>4. calls = listed
    BY <2>3, AllCallsListed
  <2>5. /\ funcPairs \in Seq(Seq(Pair(program))) /\ Len(funcPairs) = Len(calls)
        /\ Len(calls) \in Nat
    BY DEF IInv, TypeOK, LoopInv
  <2>6. ASSUME NEW n \in 1..Len(calls) PROVE funcPairs[n] = PairsOf(calls[n], OpMap)
    <3>1. /\ funcPairs[n] \in Seq(Pair(program))
          /\ PairsUpTo(program, funcPairs[n], calls[n], Len(calls[n]), 0)
      BY <2>5 DEF IInv, PairsInv
    <3> QED
      BY <3>1, PairsListed
  <2> HIDE DEF listed
  <2>7. funcPairs = [n \in 1..Len(calls) |-> funcPairs[n]]
    BY <2>5
  <2>8. funcPairs = [n \in 1..Len(calls) |-> PairsOf(calls[n], OpMap)]
    BY <2>6, <2>7
  <2>9. funcPairs = FuncPairs(body, OpMap)
    BY <2>1, <2>4, <2>8
  <2> QED
    BY <2>9 DEF body, BodyOf, OpMap
<1>2. Spec => []FuncsInv
  BY InitFuncs, FuncsStep, Invariance, PTL DEF Spec
<1> QED
  BY <1>1, <1>2, Invariance, PTL
=============================================================================
