------------------------------ MODULE InstList ------------------------------
(***************************************************************************)
(* The part of an LLVM module that the lock passes see and change: per     *)
(* function the instructions in the order of inst_iterator, what each      *)
(* instruction calls, which instructions were erased, and whether memory   *)
(* of an erased instruction or the end iterator was dereferenced.          *)
(*                                                                         *)
(*   ir.body[f]  the live instructions of function f, as numbers           *)
(*   ir.op[n]    what instruction n is; a new instruction gets the next    *)
(*               number, so a number is never used for two instructions    *)
(*   ir.freed    instructions that were erased                             *)
(*   ir.fault    the first undefined behaviour, "none" as long as there    *)
(*               was none; nothing is done to the module after it:         *)
(*     "dangling"  an erased instruction was dereferenced                  *)
(*     "end"       the end iterator of a function was dereferenced         *)
(*     "oob"       a vector was read past its end                          *)
(*     "null"      a null pointer was dereferenced                         *)
(***************************************************************************)
EXTENDS Integers, Sequences, SequencesExt

\* The module before any mutation: instructions are numbered in layout order.
Offset(prog, f) ==
  LET size[g \in 0..Len(prog)] == IF g = 0 THEN 0 ELSE size[g - 1] + Len(prog[g])
  IN  size[f - 1]
Numbered(prog) ==
  [f \in 1..Len(prog) |-> [n \in 1..Len(prog[f]) |-> Offset(prog, f) + n]]

Loaded(prog) ==
  [body |-> Numbered(prog), op |-> FlattenSeq(prog), freed |-> {}, fault |-> "none"]

\* Do nothing after a fault, fault when bad, otherwise go on.
Guarded(ir, bad, kind, good) ==
  IF ir.fault # "none" THEN ir
  ELSE IF bad THEN [ir EXCEPT !.fault = kind]
  ELSE good

\* Reading instructions, as for the debug output.
Dereference(ir, insts) == Guarded(ir, insts \cap ir.freed # {}, "dangling", ir)

\* The function an instruction is in, and its place in it.
FuncOf(ir, inst) ==
  CHOOSE f \in 1..Len(ir.body) : \E n \in 1..Len(ir.body[f]) : ir.body[f][n] = inst
PosOf(ir, inst) ==
  LET b == ir.body[FuncOf(ir, inst)]
  IN  CHOOSE n \in 1..Len(b) : b[n] = inst

\* The number the next new instruction gets.
NewInst(ir) == Len(ir.op) + 1

\* CallInst::Create: copies of calls, not yet part of a function.
CreateCopies(ir, insts) ==
  Guarded(ir, ToSet(insts) \cap ir.freed # {}, "dangling",
          [ir EXCEPT !.op = @ \o [n \in 1..Len(insts) |-> ir.op[insts[n]]]])

\* Instructions made from others: ops says what they are.
CreateInsts(ir, insts, ops) ==
  Guarded(ir, insts \cap ir.freed # {}, "dangling", [ir EXCEPT !.op = @ \o ops])

\* ReplaceInstWithInst: the new instruction takes the place of the old one.
ReplaceInst(ir, old, new) ==
  Guarded(ir, old \in ir.freed, "dangling",
          [ir EXCEPT !.body[FuncOf(ir, old)] = ReplaceAt(@, PosOf(ir, old), new),
                     !.freed = ir.freed \union {old}])

\* Mutant of EraseInst: the instruction behind the call goes.
EraseInst_Next(ir, inst) ==
  Guarded(ir, inst \in ir.freed, "dangling",
          [ir EXCEPT !.body[FuncOf(ir, inst)] = RemoveAt(@, PosOf(ir, inst) + 1),
                     !.freed = ir.freed \union {inst}])

\* RemoveInst.cpp's eraseFromParentOrReplace; that uses of the erased call's
\* value become the constant 0 is not visible here.
EraseInst(ir, inst) ==
  Guarded(ir, inst \in ir.freed, "dangling",
          [ir EXCEPT !.body[FuncOf(ir, inst)] = RemoveAt(@, PosOf(ir, inst)),
                     !.freed = ir.freed \union {inst}])

\* getInstList().insert(&*iter, new) with iter at place n of function f.
InsertBefore(ir, f, n, new) ==
  Guarded(ir, n > Len(ir.body[f]), "end",
          [ir EXCEPT !.body[f] = InsertAt(@, n, new)])

\* LockUnlockPairs::calcDistanceBetween, for two instructions of one function.
DistanceBetween(ir, a, b) ==
  IF PosOf(ir, a) <= PosOf(ir, b) THEN PosOf(ir, b) - PosOf(ir, a)
  ELSE PosOf(ir, a) - PosOf(ir, b)

\* The place insertInstructionRelative reaches: it stops at the end iterator.
RelativePlace(ir, base, distance) ==
  LET n == PosOf(ir, base) + distance
      end == Len(ir.body[FuncOf(ir, base)]) + 1
  IN  IF n > end THEN end ELSE n

InsertInstructionRelative(ir, base, new, distance) ==
  Guarded(ir, base \in ir.freed, "dangling",
          InsertBefore(ir, FuncOf(ir, base), RelativePlace(ir, base, distance), new))

\* Mutant of ShiftPlace: the upward loop stops one place early.
ShiftPlace_OneShort(ir, inst, dir) ==
  IF dir < 0
  THEN IF PosOf(ir, inst) + dir + 1 < 1 THEN 1 ELSE PosOf(ir, inst) + dir + 1
  ELSE RelativePlace(ir, inst, dir)

\* The place shiftCallInst reaches: it stops at the begin or the end iterator.
ShiftPlace(ir, inst, dir) ==
  IF dir < 0
  THEN IF PosOf(ir, inst) + dir < 1 THEN 1 ELSE PosOf(ir, inst) + dir
  ELSE RelativePlace(ir, inst, dir)

\* The iterator is moved first, then the instruction it reached is written to
\* the debug output, the call erased and a copy inserted before the iterator.
\* At the end there is nothing to write; an iterator that never left the call
\* is dangling once the call is erased.
ShiftCallInst(ir, inst, dir) ==
  IF dir = 0 THEN ir
  ELSE Guarded(ir, inst \in ir.freed, "dangling",
         LET f      == FuncOf(ir, inst)
             from   == PosOf(ir, inst)
             to     == ShiftPlace(ir, inst, dir)
             erased == EraseInst(CreateCopies(ir, <<inst>>), inst)
         IN  Guarded(ir, to > Len(ir.body[f]), "end",
               Guarded(erased, to = from, "dangling",
                 \* erasing moved everything behind the call one place up
                 InsertBefore(erased, f, IF to > from THEN to - 1 ELSE to, NewInst(ir)))))

\* The instruction that follows inst in a body, not counting new instructions.
Before(body, inst, limit) ==
  LET n == CHOOSE m \in 1..Len(body) : body[m] = inst
      later == {m \in (n + 1)..Len(body) : body[m] <= limit}
  IN  IF later = {} THEN 0 ELSE body[CHOOSE m \in later : \A o \in later : m <= o]
=============================================================================
