---------------------------- MODULE MemoryProofs ----------------------------
(***************************************************************************)
(* Proofs about where a program keeps its values: the stack, the registers *)
(* and the heap of the virtual hardware of the JIT, for every size of its  *)
(* stack and its memory, every set of instructions and every program; and  *)
(* the frame of a compiled function, for every list of declarations.       *)
(***************************************************************************)
EXTENDS VirtualMachine, Frame, ListProofs, FiniteSetTheorems, TLAPS

--------------------------------------------------------------------------------
\* The stack holds words and its pointer stays in reach, one below the first cell at
\* the lowest.
StackInv ==
  /\ sp \in -1..StackCells
  /\ stack \in [0..(StackCells - 1) -> 0..(Word - 1)]
  /\ mp \in Nat

LEMMA WordType == Word \in Nat \ {0}
<1>1. Byte \in Nat /\ Byte >= 2
  BY ByteAssumption
<1>2. Byte * Byte \in Nat /\ Byte * Byte >= Byte
  BY <1>1
<1>. QED BY <1>1, <1>2 DEF Word

\* A push lays out a sequence of words.
LEMMA PushedIsSequence ==
  ASSUME NEW i \in Is("push", 1)
  PROVE  Len(PushWords(i.args[1])) \in Nat
<1>. DEFINE a == i.args[1]
<1>1. /\ a.kind \in {"imm", "str", "reg", "mem", "vec"}
      /\ a.kind \in {"str", "vec"} => a.chars \in Seq(0..(Word - 1))
      /\ a.kind = "reg" => a.field \in {"q", "d", "w", "h", "l"}
  BY InstructionsAssumption DEF Is, Operand
<1>. HIDE DEF a
<1>2. \A n : Len(NumberWords(n)) = 2
  BY DEF NumberWords
<1>3. CASE a.kind \in {"imm", "mem"}
  BY <1>2, <1>3 DEF PushWords
<1>4. CASE a.kind \in {"str", "vec"}
  <2>1. Append(a.chars, 0) \in Seq(0..(Word - 1))
    BY <1>1, <1>4, WordType
  <2>2. PushWords(a) = Append(a.chars, 0)
    BY <1>4 DEF PushWords
  <2>. QED BY <2>1, <2>2
<1>5. CASE a.kind = "reg"
  <2>1. PushWords(a) = RegisterWords(a)
    BY <1>5 DEF PushWords
  <2>2. CASE a.field \in {"w", "h", "l"}
    BY <2>1, <2>2 DEF RegisterWords
  <2>3. CASE a.field = "d"
    BY <2>1, <2>3 DEF RegisterWords
  <2>4. CASE a.field = "q"
    <3>. DEFINE cell(k) == (reg[a.group][a.field] \div Word^(k - 1)) % Word
                cells == [k \in 1..4 |-> cell(k)]
    <3>1. RegisterWords(a) = <<0>> \o cells
      BY <2>4 DEF RegisterWords
    <3>. HIDE DEF cell
    <3>2. Len(<<0>> \o cells) = 5
      OBVIOUS
    <3>. QED BY <2>1, <3>1, <3>2
  <2>. QED BY <1>1, <1>5, <2>2, <2>3, <2>4
<1>. QED BY <1>1, <1>3, <1>4, <1>5 DEF a

\* The stack as a program sees it.
Items  == IF sp < 0 THEN << >> ELSE [i \in 1..sp |-> stack[i - 1]]
Broken == status # "running" \/ sp < 0

StackStep == StackSpec!Next \/ UNCHANGED StackSpec!vars

LEMMA ItemsType ==
  ASSUME StackInv
  PROVE  /\ Items \in Seq(0..(Word - 1))
         /\ sp >= 0 => Len(Items) = sp
<1>0. StackCells \in Nat /\ sp \in Int /\ -1 <= sp /\ sp <= StackCells
  BY VirtualMachineAssumption DEF StackInv
<1>1. CASE sp < 0
  BY <1>0, <1>1 DEF Items
<1>2. CASE sp >= 0
  <2>0. \A i \in 1..sp : i - 1 \in 0..(StackCells - 1)
    BY <1>0, <1>2
  <2>. DEFINE Words == 0..(Word - 1)
  <2>1. stack \in [0..(StackCells - 1) -> Words]
    BY DEF StackInv
  <2>. HIDE DEF Words
  <2>2. \A i \in 1..sp : stack[i - 1] \in Words
    BY <2>0, <2>1
  <2>3. [i \in 1..sp |-> stack[i - 1]] \in Seq(Words) /\ Len([i \in 1..sp |-> stack[i - 1]]) = sp
    BY <2>2, <1>0, <1>2
  <2>4. Items = [i \in 1..sp |-> stack[i - 1]]
    BY <1>0, <1>2 DEF Items
  <2>. QED BY <2>3, <2>4 DEF Words
<1>. QED BY <1>0, <1>1, <1>2

\* What leaves the stack alone, or ends the process: nothing happens to the stack, or
\* it breaks with what it held.
LEMMA StillStep ==
  ASSUME status = "running", sp' = sp, stack' = stack
  PROVE  StackStep
<1>1. Items' = Items
  BY DEF Items
<1>2. CASE Broken' = Broken
  BY <1>1, <1>2 DEF StackStep, StackSpec!vars, Items, Broken
<1>3. CASE Broken' # Broken
  <2>1. Broken' = TRUE
    BY <1>3 DEF Broken
  <2>. QED BY <1>1, <2>1 DEF StackStep, StackSpec!Next, StackSpec!Break, Items, Broken
<1>. QED BY <1>2, <1>3

\* An address written on top: one entry, or the same one twice.
LEMMA WriteStep ==
  ASSUME StackInv, status = "running", status' = "running", sp \in 0..(StackCells - 1),
         NEW p \in Nat, NEW entries, Len(entries) \in 1..2, sp + Len(entries) <= StackCells,
         StackWrite(p, entries)
  PROVE  /\ sp' \in -1..StackCells /\ stack' \in [0..(StackCells - 1) -> 0..(Word - 1)]
         /\ StackStep
<1>. DEFINE n == Len(entries)
            w == p % Word
<1>1. /\ sp' = sp + n
      /\ stack' = [i \in DOMAIN stack |-> IF i \in sp..(sp + n - 1) THEN w ELSE stack[i]]
  BY DEF StackWrite
<1>2. StackCells \in Nat /\ w \in 0..(Word - 1) /\ sp \in Nat /\ n \in 1..2
  BY WordType, VirtualMachineAssumption
<1>3. stack \in [0..(StackCells - 1) -> 0..(Word - 1)] /\ DOMAIN stack = 0..(StackCells - 1)
  BY DEF StackInv
<1>. HIDE DEF n, w
<1>4. sp' \in -1..StackCells
  BY <1>1, <1>2 DEF n
<1>5. stack' \in [0..(StackCells - 1) -> 0..(Word - 1)]
  BY <1>1, <1>2, <1>3
<1>6. Items' = [i \in 1..(sp + n) |-> IF i > sp THEN w ELSE stack[i - 1]]
  <2>0. sp + n \in Nat /\ sp + n <= StackCells
    BY <1>2 DEF n
  <2>1. \A i \in 1..(sp + n) : i - 1 \in DOMAIN stack /\ (i - 1 \in sp..(sp + n - 1) <=> i > sp)
    BY <1>2, <1>3, <2>0
  <2>2. \A i \in 1..(sp + n) : stack'[i - 1] = IF i > sp THEN w ELSE stack[i - 1]
    BY <1>1, <2>1
  <2>3. sp' = sp + n /\ ~(sp' < 0)
    BY <1>1, <1>2, <2>0
  <2>. QED BY <2>2, <2>3 DEF Items
<1>7. Items = [i \in 1..sp |-> stack[i - 1]] /\ Len(Items) = sp /\ Items \in Seq(0..(Word - 1))
  BY <1>2, ItemsType DEF Items
<1>8. Broken' = Broken /\ ~Broken
  BY <1>1, <1>2 DEF Broken
<1>9. CASE n = 1
  <2>0. sp < StackCells
    BY <1>2
  <2>1. Append(Items, w) = [i \in 1..(sp + 1) |-> IF i > sp THEN w ELSE stack[i - 1]]
    BY <1>2, <1>7
  <2>2. Items' = Append(Items, w)
    BY <1>6, <1>9, <2>1
  <2>3. Len(Items) < StackCells
    BY <1>7, <2>0
  <2>. QED BY <1>2, <1>4, <1>5, <1>8, <2>2, <2>3
    DEF StackStep, StackSpec!Next, StackSpec!Push, Items, Broken
<1>10. CASE n = 2
  <2>1. Items \o <<w, w>> = [i \in 1..(sp + 2) |-> IF i > sp THEN w ELSE stack[i - 1]]
    <3>1. DOMAIN (Items \o <<w, w>>) = 1..(sp + 2)
      BY <1>2, <1>7
    <3>2. \A i \in 1..(sp + 2) : (Items \o <<w, w>>)[i] = IF i > sp THEN w ELSE stack[i - 1]
      <4>. TAKE i \in 1..(sp + 2)
      <4>1. CASE i \in 1..sp
        <5>1. i \in 1..Len(Items) /\ ~(i > sp) /\ Items[i] = stack[i - 1]
          BY <4>1, <1>2, <1>7
        <5>2. Items \in Seq(0..(Word - 1)) /\ <<w, w>> \in Seq(0..(Word - 1))
          BY <1>2, <1>7
        <5>3. (Items \o <<w, w>>)[i] = Items[i]
          BY <5>1, <5>2
        <5>. QED BY <5>1, <5>3
      <4>2. CASE i \in {sp + 1, sp + 2}
        <5>1. /\ ~(i \in 1..Len(Items)) /\ i - Len(Items) \in {1, 2} /\ i > sp
              /\ i \in 1..(Len(Items) + 2)
          BY <4>2, <1>2, <1>7
        <5>2. Len(<<w, w>>) = 2 /\ <<w, w>> \in Seq(0..(Word - 1))
          BY <1>2
        <5>3. (Items \o <<w, w>>)[i] = <<w, w>>[i - Len(Items)]
          BY <5>1, <5>2, <1>7
        <5>. QED BY <5>1, <5>3
      <4>3. sp \in Nat
        BY <1>2
      <4>4. i \in 1..sp \/ i \in {sp + 1, sp + 2}
        BY <4>3
      <4>. QED BY <4>1, <4>2, <4>4
    <3>3. Items \o <<w, w>> \in Seq(0..(Word - 1))
      BY <1>2, <1>7
    <3>. HIDE DEF w
    <3>. DEFINE t == Items \o <<w, w>>
    <3>4. t = [i \in DOMAIN t |-> t[i]]
      BY <3>3
    <3>. QED BY <3>1, <3>2, <3>4
  <2>2. Items' = Items \o <<w, w>>
    BY <1>6, <1>10, <2>1
  <2>3. Len(Items) < StackCells - 1
    BY <1>2, <1>7, <1>10 DEF n
  <2>. QED BY <1>2, <1>4, <1>5, <1>8, <2>2, <2>3
    DEF StackStep, StackSpec!Next, StackSpec!PushTwice, Items, Broken
<1>. QED BY <1>2, <1>9, <1>10

\* A pop takes the last entry, or, of an empty stack, breaks it.
LEMMA PopStep ==
  ASSUME StackInv, status = "running", status' = "running", ~PullRefused,
         sp' = sp - 1, stack' = stack
  PROVE  sp' \in -1..StackCells /\ StackStep
<1>1. sp \in 0..(StackCells - 1) /\ StackCells \in Nat
  BY VirtualMachineAssumption DEF PullRefused, StackUnderflow, StackOverflow, StackInv
<1>2. CASE sp = 0
  <2>1. Items' = << >> /\ Broken' = TRUE
    BY <1>2 DEF Items, Broken
  <2>. QED BY <1>1, <2>1 DEF StackStep, StackSpec!Next, StackSpec!Break, Items, Broken
<1>3. CASE sp > 0
  <2>1. Items = [i \in 1..sp |-> stack[i - 1]] /\ Len(Items) = sp /\ Items \in Seq(0..(Word - 1))
    BY <1>1, ItemsType DEF Items
  <2>2. Items' = [i \in 1..(sp - 1) |-> stack[i - 1]]
    BY <1>1, <1>3 DEF Items
  <2>3. SubSeq(Items, 1, Len(Items) - 1) = [i \in 1..(sp - 1) |-> stack[i - 1]]
    BY <1>1, <1>3, <2>1
  <2>4. Items # << >> /\ Broken' = Broken /\ ~Broken
    BY <1>1, <1>3, <2>1 DEF Broken
  <2>. QED BY <1>1, <2>2, <2>3, <2>4 DEF StackStep, StackSpec!Next, StackSpec!Pop, Items, Broken
<1>. QED BY <1>1, <1>2, <1>3

\* An operation that leaves the stack and the memory pointer alone, and the end of the
\* process, which does too.
Still == sp' = sp /\ stack' = stack /\ mp' = mp

LEMMA StillInv ==
  ASSUME StackInv, status = "running", Still
  PROVE  StackInv' /\ StackStep
BY StillStep DEF StackInv, Still

LEMMA EndStill == ASSUME Except \/ Crash \/ End("exited") PROVE Still
BY DEF Except, Crash, End, machine, Still

LEMMA PushInv ==
  ASSUME StackInv, status = "running", NEW i \in Is("push", 1), Push(i.args[1])
  PROVE  StackInv' /\ StackStep
<1>. DEFINE a == i.args[1]
            ws == PushWords(a)
            entry == [at |-> mp, len |-> Len(ws), means |-> Meaning(a)]
            entries == IF a.kind = "vec" THEN <<entry, entry>> ELSE <<entry>>
<1>1. CASE Except \/ Crash
  BY <1>1, EndStill, StillInv
<1>2. CASE ~(Except \/ Crash)
  <2>1. /\ ~StackOverflow /\ ~(sp < 0) /\ ~(a.kind = "vec" /\ sp + 1 >= StackCells)
        /\ StackWrite(mp, entries) /\ WriteWords(ws) /\ status' = status
    BY <1>2 DEF Push
  <2>2. mp \in Nat /\ Len(ws) \in Nat /\ mp' = mp + Len(ws)
    BY <2>1, PushedIsSequence DEF WriteWords, StackInv
  <2>. HIDE DEF entry, ws
  <2>3. /\ sp \in 0..(StackCells - 1) /\ Len(entries) \in 1..2
        /\ sp + Len(entries) <= StackCells
    BY <2>1, VirtualMachineAssumption DEF StackInv, StackOverflow
  <2>4. mp' \in Nat
    BY <2>2
  <2>. HIDE DEF entries
  <2>. QED BY <2>1, <2>2, <2>3, <2>4, WriteStep DEF StackInv
<1>. QED BY <1>1, <1>2

LEMMA ReturnInv ==
  ASSUME StackInv, status = "running", status' = status, ~(sp < 0 \/ sp >= StackCells),
         NEW p \in Nat, Return(p), mp' = mp
  PROVE  StackInv' /\ StackStep
<1>. DEFINE entries == <<[at |-> p, len |-> 0, means |-> None]>>
<1>1. sp \in 0..(StackCells - 1) /\ Len(entries) = 1 /\ sp + 1 <= StackCells
  BY VirtualMachineAssumption DEF StackInv
<1>2. StackWrite(p, entries)
  BY DEF Return
<1>. HIDE DEF entries
<1>3. Len(entries) \in 1..2 /\ sp + Len(entries) <= StackCells
  BY <1>1
<1>. QED BY <1>1, <1>2, <1>3, WriteStep DEF StackInv

LEMMA PopInv ==
  ASSUME StackInv, status = "running", ~PullRefused, StackPop, stack' = stack, mp' = mp,
         status' = status
  PROVE  StackInv' /\ StackStep
<1>1. sp' = sp - 1
  BY DEF StackPop
<1>. QED BY <1>1, PopStep DEF StackInv

LEMMA SetRegisterStill ==
  ASSUME NEW r, NEW v, SetRegisterByName(r, v) PROVE Still
<1>. DEFINE own == Min({i \in DOMAIN Groups : Groups[i] = r.group})
            stops == {i \in DOMAIN Groups : i # own /\ DefaultCase[Groups[i]] # "nothing"}
            first == Min(stops \cup {Len(Groups) + 1})
<1>1. \/ Crash \/ Except
      \/ UNCHANGED <<status, sp, stack, mp, memory, heapList, heapUsed, memList, out, ghosts>>
  BY DEF SetRegisterByName
<1>. QED BY <1>1, EndStill DEF Still

LEMMA StackStepInv ==
  ASSUME StackInv, [Next]_vars
  PROVE  StackInv' /\ StackStep
<1>1. CASE UNCHANGED vars
  <2>1. UNCHANGED <<status, sp, stack, mp>>
    BY <1>1 DEF vars, machine
  <2>2. Items' = Items /\ Broken' = Broken
    BY <2>1 DEF Items, Broken
  <2>. QED BY <2>1, <2>2 DEF StackInv, StackStep, StackSpec!vars, Items, Broken
<1>2. CASE DoPush
  BY <1>2, PushInv DEF DoPush, Running
<1>3. CASE DoPop
  <2>1. Except \/ (~PullRefused /\ StackPop /\ stack' = stack /\ mp' = mp /\ status' = status)
    BY <1>3 DEF DoPop, Pop
  <2>. QED BY <1>3, <2>1, EndStill, StillInv, PopInv DEF DoPop, Running
<1>4. CASE DoSystem
  <2>1. PICK i \in Is("system", 1) : System(i.args[1].n)
    BY <1>4 DEF DoSystem
  <2>2. \/ Except \/ End("exited")
        \/ ~PullRefused /\ StackPop /\ stack' = stack /\ mp' = mp /\ status' = status
    BY <2>1 DEF System
  <2>. QED BY <1>4, <2>2, EndStill, StillInv, PopInv DEF DoSystem, Running
<1>5. CASE DoMath
  <2>1. PICK op, xs : Math(op, xs)
    BY <1>5 DEF DoMath
  <2>2. Except \/ Crash \/ Still
    BY <2>1 DEF Math, Still
  <2>. QED BY <1>5, <2>2, EndStill, StillInv DEF DoMath, Running
<1>6. CASE DoMov
  <2>1. PICK a, b : MovToMemory(a, b)
    BY <1>6 DEF DoMov
  <2>2. Except \/ Crash \/ Still
    BY <2>1 DEF MovToMemory, Still
  <2>. QED BY <1>6, <2>2, EndStill, StillInv DEF DoMov, Running
<1>7. CASE DoMovReg
  BY <1>7, SetRegisterStill, StillInv DEF DoMovReg, Running
<1>8. CASE DoInc
  <2>1. Crash \/ \E r, v : SetRegisterByName(r, v)
    BY <1>8 DEF DoInc, Inc
  <2>. QED BY <1>8, <2>1, EndStill, SetRegisterStill, StillInv DEF DoInc, Running
<1>9. CASE DoDec
  <2>1. Crash \/ \E r, v : SetRegisterByName(r, v)
    BY <1>9 DEF DoDec, Dec
  <2>. QED BY <1>9, <2>1, EndStill, SetRegisterStill, StillInv DEF DoDec, Running
<1>10. CASE DoMalloc
  <2>1. PICK i \in Is("malloc", 1), p \in Addresses : Malloc(i.args[1].n, p)
    BY <1>10 DEF DoMalloc
  <2>2. \/ Except \/ Crash
        \/ ~(sp < 0 \/ sp >= StackCells) /\ Return(p) /\ mp' = mp /\ status' = status
    BY <2>1 DEF Malloc
  <2>3. p \in Nat
    BY WordType, VirtualMachineAssumption
  <2>. QED BY <1>10, <2>2, <2>3, EndStill, StillInv, ReturnInv DEF DoMalloc, Running
<1>11. CASE DoCalloc
  <2>1. PICK c, s : Calloc(c, s)
    BY <1>11 DEF DoCalloc
  <2>2. \/ Except \/ Crash
        \/ ~(sp < 0 \/ sp >= StackCells) /\ Return(mp) /\ mp' = mp /\ status' = status
    BY <2>1 DEF Calloc
  <2>. QED BY <1>11, <2>2, EndStill, StillInv, ReturnInv DEF DoCalloc, Running, StackInv
<1>12. CASE DoFree
  <2>1. PICK x : Free(x)
    BY <1>12 DEF DoFree
  <2>2. Except \/ Still
    BY <2>1 DEF Free, Still
  <2>. QED BY <1>12, <2>2, EndStill, StillInv DEF DoFree, Running
<1>13. CASE DoMemFree
  <2>1. PICK x : MemFree(x)
    BY <1>13 DEF DoMemFree
  <2>2. Except \/ Still
    BY <2>1 DEF MemFree, Still
  <2>. QED BY <1>13, <2>2, EndStill, StillInv DEF DoMemFree, Running
<1>14. CASE DoSizeOf
  <2>1. PICK x : SizeOf(x)
    BY <1>14 DEF DoSizeOf
  <2>2. Except \/ Still
    BY <2>1 DEF SizeOf, Still
  <2>. QED BY <1>14, <2>2, EndStill, StillInv DEF DoSizeOf, Running
<1>15. CASE DoCpuid
  <2>1. Except \/ Still
    BY <1>15 DEF DoCpuid, Cpuid, Still, machine
  <2>. QED BY <1>15, <2>1, EndStill, StillInv DEF DoCpuid, Running
<1>. QED BY <1>1, <1>2, <1>3, <1>4, <1>5, <1>6, <1>7, <1>8, <1>9, <1>10, <1>11, <1>12, <1>13,
            <1>14, <1>15 DEF Next

LEMMA StackInit == Init => StackInv /\ StackSpec!Init
<1>. SUFFICES ASSUME Init PROVE StackInv /\ StackSpec!Init
  OBVIOUS
<1>1. /\ sp = 0 /\ mp = 0 /\ status = "running" /\ stack = [i \in 0..(StackCells - 1) |-> 0]
  BY DEF Init
<1>2. StackInv
  BY <1>1, WordType, VirtualMachineAssumption DEF StackInv
<1>3. [i \in 1..sp |-> stack[i - 1]] = << >>
  BY <1>1
<1>. QED BY <1>1, <1>2, <1>3 DEF StackSpec!Init

\* Whatever a program does, the stack is a bounded stack of words: every instruction is
\* a push of one or two equal words, a pop, the end of the stack, or nothing to it.
THEOREM StackIsBounded == Spec => StackRefines
<1>1. StackInv /\ [Next]_vars => StackInv' /\ [StackSpec!Next]_(StackSpec!vars)
  BY StackStepInv DEF StackStep
<1>2. Init => StackInv /\ StackSpec!Init
  BY StackInit
<1>. QED BY <1>1, <1>2, PTL DEF Spec, StackRefines, StackSpec!Spec

--------------------------------------------------------------------------------
\* The arrays of a register: what a | b keeps of its low bits.

(* There is one quotient and one remainder.                                *)
LEMMA Euclid ==
  ASSUME NEW a \in Int, NEW m \in Nat \ {0}
  PROVE  /\ a \div m \in Int /\ a % m \in 0..(m - 1)
         /\ a = m * (a \div m) + (a % m)
OBVIOUS

LEMMA OneQuotient ==
  ASSUME NEW a \in Int, NEW m \in Nat \ {0}, NEW q \in Int, NEW r \in 0..(m - 1), a = m * q + r
  PROVE  a \div m = q /\ a % m = r
OBVIOUS

LEMMA ModAdd ==
  ASSUME NEW a \in Int, NEW m \in Nat \ {0}, NEW k \in Int
  PROVE  (a + m * k) % m = a % m
<1>. DEFINE q == a \div m
            r == a % m
<1>1. q \in Int /\ r \in 0..(m - 1) /\ a = m * q + r
  BY Euclid
<1>. HIDE DEF q, r
<1>2. m * (q + k) = m * q + m * k /\ q + k \in Int /\ m * k \in Int /\ m * q \in Int
  BY <1>1
<1>3. a + m * k = m * (q + k) + r /\ a + m * k \in Int
  BY <1>1, <1>2
<1>4. (a + m * k) % m = r
  BY <1>1, <1>2, <1>3, OneQuotient
<1>. QED BY <1>4 DEF r

LEMMA ModOfMod ==
  ASSUME NEW a \in Int, NEW m \in Nat \ {0}, NEW n \in Nat \ {0}
  PROVE  (a % (m * n)) % m = a % m
<1>1. PICK mn \in Nat \ {0} : mn = m * n
  OBVIOUS
<1>. DEFINE q == a \div mn
            r == a % mn
<1>2. q \in Int /\ r \in Int /\ a = mn * q + r
  BY Euclid
<1>. HIDE DEF q, r
<1>3. mn * q = m * (n * q) /\ n * q \in Int
  BY <1>1, <1>2
<1>4. a = r + m * (n * q)
  BY <1>2, <1>3
<1>. DEFINE k == n * q
<1>. HIDE DEF k
<1>5. k \in Int /\ r \in Int
  BY <1>2, <1>3 DEF k
<1>6. (r + m * k) % m = r % m
  BY <1>5, ModAdd, Zenon
<1>7. a = r + m * k
  BY <1>4 DEF k
<1>8. r % m = a % m
  BY <1>6, <1>7, Zenon
<1>. QED BY <1>1, <1>8 DEF r

(* The low bit of a number and the others, of a number and of its remainder. *)
LEMMA Halves ==
  ASSUME NEW a \in Nat, NEW m \in Nat \ {0}
  PROVE  /\ a \div 2 \in Nat /\ a % 2 \in {0, 1} /\ a = 2 * (a \div 2) + (a % 2)
         /\ (a % (2 * m)) \div 2 = (a \div 2) % m
         /\ (a % (2 * m)) % 2 = a % 2
         /\ a % (2 * m) = 2 * ((a \div 2) % m) + (a % 2)
<1>1. PICK h \in Nat, b \in {0, 1} : h = a \div 2 /\ b = a % 2 /\ a = 2 * h + b
  OBVIOUS
<1>. DEFINE q == h \div m
            r == h % m
<1>2. q \in Int /\ r \in 0..(m - 1) /\ h = m * q + r
  BY Euclid
<1>. HIDE DEF q, r
<1>3. PICK mm \in Nat \ {0} : mm = 2 * m
  OBVIOUS
<1>4. 2 * (m * q) = mm * q /\ m * q \in Int
  BY <1>2, <1>3
<1>5. PICK s \in 0..(mm - 1) : s = 2 * r + b
  BY <1>1, <1>2, <1>3
<1>6. a = mm * q + s
  BY <1>1, <1>2, <1>4, <1>5
<1>7. a % mm = s
  <2>1. a \in Int /\ mm \in Nat \ {0} /\ s \in 0..(mm - 1)
    OBVIOUS
  <2>. QED BY <1>2, <1>6, <2>1, OneQuotient, Zenon
<1>8. s \div 2 = r /\ s % 2 = b
  BY <1>1, <1>2, <1>5
<1>. QED BY <1>1, <1>3, <1>5, <1>7, <1>8 DEF r

(* What OrBits returns.                                                     *)
LEMMA OrBitsUnfolds ==
  /\ OrBits \in [0..64 -> [Nat -> [Nat -> Nat]]]
  /\ \A a, b \in Nat : OrBits[0][a][b] = 0
  /\ \A n \in 1..64 : \A a, b \in Nat :
       OrBits[n][a][b] = 2 * OrBits[n - 1][a \div 2][b \div 2]
                         + (IF (a % 2) + (b % 2) > 0 THEN 1 ELSE 0)
<1>. DEFINE V == [Nat -> [Nat -> Nat]]
            one(a, b) == IF (a % 2) + (b % 2) > 0 THEN 1 ELSE 0
            first == [a \in Nat |-> [b \in Nat |-> 0]]
            next(v) == [a \in Nat |-> [b \in Nat |-> 2 * v[a \div 2][b \div 2] + one(a, b)]]
            step == [n \in 1..64 |-> [v \in V |-> next(v)]]
            Def(g) == [n \in 0..64 |-> [a \in Nat |-> [b \in Nat |->
                        IF n = 0 THEN 0 ELSE 2 * g[n - 1][a \div 2][b \div 2] + one(a, b)]]]
<1>1. first \in V
  OBVIOUS
<1>2. ASSUME NEW v \in V PROVE next(v) \in V
  <2>1. ASSUME NEW a \in Nat, NEW b \in Nat
        PROVE  2 * v[a \div 2][b \div 2] + one(a, b) \in Nat
    <3>1. a \div 2 \in Nat /\ b \div 2 \in Nat
      OBVIOUS
    <3>2. PICK x \in Nat : x = v[a \div 2][b \div 2]
      BY <1>2, <3>1
    <3>3. one(a, b) \in Nat
      OBVIOUS
    <3>4. PICK y \in Nat : y = one(a, b)
      BY <3>3
    <3>. HIDE DEF one, V
    <3>5. 2 * x + y \in Nat
      OBVIOUS
    <3>. QED BY <3>2, <3>4, <3>5
  <2>. HIDE DEF one
  <2>. QED BY <2>1
<1>. HIDE DEF next
<1>3. step \in [1..64 -> [V -> V]]
  BY <1>2
<1>. HIDE DEF first
<1>4. PICK f \in [0..64 -> V] : Steps(f, 64, first, step)
  <2>. HIDE DEF step, V
  <2>. QED BY <1>1, <1>3, Recursion
<1>5. f[0] = first /\ \A n \in 1..64 : f[n] = next(f[n - 1])
  <2>. HIDE DEF V
  <2>1. \A n \in 1..64 : n - 1 \in 0..64
    OBVIOUS
  <2>2. \A n \in 1..64 : f[n - 1] \in V
    BY <1>4, <2>1
  <2>. QED BY <1>4, <2>2 DEF Steps
<1>6. \A n \in 0..64 : n # 0 => n \in 1..64
  OBVIOUS
<1>7. f = Def(f)
  <2>1. \A n \in 0..64 : f[n] = Def(f)[n]
    <3>. TAKE n \in 0..64
    <3>1. CASE n = 0
      BY <3>1, <1>5 DEF first
    <3>2. CASE n # 0
      <4>1. f[n] = next(f[n - 1])
        BY <3>2, <1>5, <1>6
      <4>. HIDE DEF one
      <4>. QED BY <4>1, <3>2 DEF next
    <3>. QED BY <3>1, <3>2
  <2>. HIDE DEF V, one
  <2>. QED BY <1>4, <2>1
<1>8. OrBits = Def(OrBits)
  <2>. HIDE DEF one
  <2>1. OrBits = CHOOSE g : g = Def(g)
    BY Zenon DEF OrBits, one
  <2>. HIDE DEF Def
  <2>. QED BY <1>7, <2>1
<1>9. OrBits = f
  <2>. DEFINE S == {n \in 0..64 : OrBits[n] = f[n]}
  <2>. HIDE DEF V, one
  <2>1. 0 \in S
    <3>1. OrBits[0] = Def(OrBits)[0] /\ f[0] = Def(f)[0]
      BY <1>7, <1>8
    <3>. QED BY <3>1
  <2>2. ASSUME NEW n \in 0..(64 - 1), n \in S PROVE n + 1 \in S
    <3>1. n + 1 \in 0..64 /\ n + 1 # 0 /\ (n + 1) - 1 = n
      OBVIOUS
    <3>2. OrBits[n] = f[n]
      BY <2>2
    <3>3. Def(OrBits)[n + 1] = Def(f)[n + 1]
      BY <3>1, <3>2
    <3>4. OrBits[n + 1] = f[n + 1]
      <4>. HIDE DEF Def
      <4>. QED BY <1>7, <1>8, <3>3
    <3>. QED BY <3>1, <3>4
  <2>3. \A n \in 0..64 : n \in S
    <3>. HIDE DEF S
    <3>. QED BY <2>1, <2>2, InductionUpTo
  <2>4. \A n \in 0..64 : OrBits[n] = f[n]
    BY <2>3
  <2>5. OrBits = [n \in 0..64 |-> OrBits[n]]
    BY <1>8
  <2>. QED BY <1>4, <2>4, <2>5
<1>10. OrBits \in [0..64 -> V]
  BY <1>4, <1>9
<1>11. ASSUME NEW n \in 1..64, NEW a \in Nat, NEW b \in Nat
       PROVE  OrBits[n][a][b] = 2 * OrBits[n - 1][a \div 2][b \div 2] + one(a, b)
  <2>. HIDE DEF one
  <2>1. OrBits[n] = next(OrBits[n - 1])
    BY <1>5, <1>9
  <2>. QED BY <2>1 DEF next
<1>12. \A a, b \in Nat : OrBits[0][a][b] = 0
  <2>1. OrBits[0] = first
    BY <1>5, <1>9
  <2>. QED BY <2>1 DEF first
<1>. QED BY <1>10, <1>11, <1>12

--------------------------------------------------------------------------------
(* The low bits of a | b are those of the low bits of a and of b, where m is a *)
(* power of two.                                                            *)
Congruent(m) ==
  \A n \in 0..64 : \A a, b \in Nat : OrBits[n][a][b] % m = OrBits[n][a % m][b % m]

(* 0 | b is b, up to the bits that are looked at.                           *)
LowBits(m, least) ==
  \A n \in least..64 : \A b \in Nat : OrBits[n][0][b] % m = b % m

LEMMA OrBitsType == \A k \in 0..64 : \A x, y \in Nat : OrBits[k][x][y] \in Nat
<1>. SUFFICES ASSUME NEW k \in 0..64, NEW x \in Nat, NEW y \in Nat
              PROVE  OrBits[k][x][y] \in Nat
  OBVIOUS
<1>1. OrBits \in [0..64 -> [Nat -> [Nat -> Nat]]]
  BY OrBitsUnfolds
<1>2. OrBits[k] \in [Nat -> [Nat -> Nat]]
  BY <1>1
<1>3. OrBits[k][x] \in [Nat -> Nat]
  BY <1>2
<1>. QED BY <1>3

LEMMA OrStep ==
  ASSUME NEW n \in 0..63, NEW a \in Nat, NEW b \in Nat
  PROVE  /\ OrBits[n + 1][a][b] \in Nat /\ OrBits[n][a \div 2][b \div 2] \in Nat
         /\ OrBits[n + 1][a][b] = 2 * OrBits[n][a \div 2][b \div 2]
                                  + (IF (a % 2) + (b % 2) > 0 THEN 1 ELSE 0)
<1>1. n \in 0..64 /\ n + 1 \in 1..64 /\ (n + 1) - 1 = n /\ n + 1 \in 0..64
  OBVIOUS
<1>2. PICK ah \in Nat, bh \in Nat : ah = a \div 2 /\ bh = b \div 2
  OBVIOUS
<1>3. OrBits[n + 1][a][b] \in Nat /\ OrBits[n][ah][bh] \in Nat
  BY <1>1, OrBitsType, Zenon
<1>4. PICK k \in 1..64 : k = n + 1 /\ k - 1 = n
  BY <1>1
<1>5. OrBits[k][a][b] = 2 * OrBits[k - 1][a \div 2][b \div 2]
                        + (IF (a % 2) + (b % 2) > 0 THEN 1 ELSE 0)
  BY OrBitsUnfolds, Zenon
<1>. QED BY <1>1, <1>2, <1>3, <1>4, <1>5, Zenon

LEMMA OrOfZeros == \A n \in 0..64 : OrBits[n][0][0] = 0
<1>. DEFINE S == {n \in 0..64 : OrBits[n][0][0] = 0}
<1>0. PICK z \in Nat : z = 0
  OBVIOUS
<1>1. 0 \in S
  <2>1. OrBits[0][z][z] = 0
    BY OrBitsUnfolds
  <2>. QED BY <1>0, <2>1
<1>2. ASSUME NEW n \in 0..(64 - 1), n \in S PROVE n + 1 \in S
  <2>1. n \in 0..63 /\ n + 1 \in 0..64 /\ z \div 2 = 0 /\ z % 2 = 0
    BY <1>0
  <2>2. OrBits[n + 1][z][z] = 2 * OrBits[n][z \div 2][z \div 2]
                              + (IF (z % 2) + (z % 2) > 0 THEN 1 ELSE 0)
    BY <2>1, OrStep
  <2>3. OrBits[n][0][0] = 0
    BY <1>2
  <2>4. OrBits[n + 1][0][0] = 0
    BY <1>0, <2>1, <2>2, <2>3
  <2>. QED BY <2>1, <2>4
<1>. HIDE DEF S
<1>3. \A n \in 0..64 : n \in S
  BY <1>1, <1>2, InductionUpTo
<1>. QED BY <1>3 DEF S

LEMMA CongruentDoubles ==
  ASSUME NEW m \in Nat \ {0}, Congruent(m)
  PROVE  Congruent(2 * m)
<1>. SUFFICES ASSUME NEW n \in 0..64, NEW a \in Nat, NEW b \in Nat
              PROVE  OrBits[n][a][b] % (2 * m) = OrBits[n][a % (2 * m)][b % (2 * m)]
  BY DEF Congruent
<1>1. PICK mm \in Nat \ {0} : mm = 2 * m
  OBVIOUS
<1>2. PICK x \in Nat, y \in Nat : x = a % mm /\ y = b % mm
  OBVIOUS
<1>3. CASE n = 0
  <2>1. OrBits[0][a][b] = 0 /\ OrBits[0][x][y] = 0
    BY OrBitsUnfolds
  <2>2. 0 % mm = 0
    OBVIOUS
  <2>. QED BY <1>1, <1>2, <1>3, <2>1, <2>2
<1>4. CASE n # 0
  <2>0. PICK k \in 0..63 : n = k + 1
    BY <1>4
  <2>1. PICK ah \in Nat, bh \in Nat : ah = a \div 2 /\ bh = b \div 2
    OBVIOUS
  <2>. DEFINE one == IF (a % 2) + (b % 2) > 0 THEN 1 ELSE 0
  <2>2. one \in {0, 1}
    OBVIOUS
  <2>3. x \div 2 = ah % m /\ y \div 2 = bh % m /\ x % 2 = a % 2 /\ y % 2 = b % 2
    BY <1>1, <1>2, <2>1, Halves
  <2>4. OrBits[n][a][b] \in Nat /\ OrBits[k][ah][bh] \in Nat
        /\ OrBits[n][a][b] = 2 * OrBits[k][ah][bh] + one
    BY <2>0, <2>1, OrStep
  <2>5. OrBits[n][x][y] = 2 * OrBits[k][x \div 2][y \div 2] + (IF (x % 2) + (y % 2) > 0 THEN 1 ELSE 0)
    BY <2>0, OrStep, Zenon
  <2>6. OrBits[n][x][y] = 2 * OrBits[k][ah % m][bh % m] + one
    BY <2>3, <2>5, Zenon
  <2>7. OrBits[k][ah][bh] % m = OrBits[k][ah % m][bh % m]
    <3>1. k \in 0..64
      OBVIOUS
    <3>. QED BY <3>1, Zenon DEF Congruent
  <2>. HIDE DEF one
  <2>8. PICK u \in Nat, w \in Nat : u = OrBits[k][ah][bh] /\ w = OrBits[n][a][b]
    BY <2>4
  <2>9. w = 2 * u + one
    BY <2>4, <2>8
  <2>10. w \div 2 = u /\ w % 2 = one
    BY <2>2, <2>9
  <2>11. w % mm = 2 * (u % m) + one
    <3>1. w % (2 * m) = 2 * ((w \div 2) % m) + (w % 2)
      BY Halves, Zenon
    <3>. QED BY <1>1, <2>10, <3>1, Zenon
  <2>12. OrBits[n][a][b] % mm = OrBits[n][x][y]
    BY <2>6, <2>7, <2>8, <2>11, Zenon
  <2>. QED BY <1>1, <1>2, <2>12, Zenon
<1>. QED BY <1>3, <1>4

LEMMA LowBitsDouble ==
  ASSUME NEW m \in Nat \ {0}, NEW least \in 0..63, LowBits(m, least)
  PROVE  LowBits(2 * m, least + 1)
<1>. SUFFICES ASSUME NEW n \in (least + 1)..64, NEW b \in Nat
              PROVE  OrBits[n][0][b] % (2 * m) = b % (2 * m)
  BY DEF LowBits
<1>1. PICK k \in 0..63 : n = k + 1 /\ k \in least..64
  <2>1. n - 1 \in 0..63 /\ n = (n - 1) + 1 /\ n - 1 \in least..64
    OBVIOUS
  <2>. QED BY <2>1
<1>2. PICK bh \in Nat : bh = b \div 2
  OBVIOUS
<1>3. b % 2 \in {0, 1} /\ 0 % 2 = 0 /\ 0 \div 2 = 0
  OBVIOUS
<1>4. /\ OrBits[n][0][b] \in Nat /\ OrBits[k][0][bh] \in Nat
      /\ OrBits[n][0][b] = 2 * OrBits[k][0][bh] + (b % 2)
  <2>1. /\ OrBits[n][0][b] \in Nat /\ OrBits[k][0 \div 2][bh] \in Nat
        /\ OrBits[n][0][b] = 2 * OrBits[k][0 \div 2][bh]
                             + (IF (0 % 2) + (b % 2) > 0 THEN 1 ELSE 0)
    BY <1>1, <1>2, OrStep
  <2>2. (IF (0 % 2) + (b % 2) > 0 THEN 1 ELSE 0) = b % 2
    BY <1>3
  <2>. QED BY <1>3, <2>1, <2>2, Zenon
<1>5. OrBits[k][0][bh] % m = bh % m
  BY <1>1, Zenon DEF LowBits
<1>6. PICK u \in Nat, w \in Nat, low \in {0, 1} :
        u = OrBits[k][0][bh] /\ w = OrBits[n][0][b] /\ low = b % 2 /\ w = 2 * u + low
  BY <1>3, <1>4
<1>7. w \div 2 = u /\ w % 2 = low
  BY <1>6
<1>8. w % (2 * m) = 2 * (u % m) + low
  <2>1. w % (2 * m) = 2 * ((w \div 2) % m) + (w % 2)
    BY Halves, Zenon
  <2>. QED BY <1>7, <2>1, Zenon
<1>9. b % (2 * m) = 2 * (bh % m) + low
  <2>1. b % (2 * m) = 2 * ((b \div 2) % m) + (b % 2)
    BY Halves, Zenon
  <2>. QED BY <1>2, <1>6, <2>1, Zenon
<1>. QED BY <1>5, <1>6, <1>8, <1>9, Zenon

(* The same for every power of a byte.                                      *)
LEMMA CongruentBytes ==
  ASSUME NEW m \in Nat \ {0}, Congruent(m)
  PROVE  Congruent(m * Byte)
<1>. DEFINE P == {x \in Nat \ {0} : Congruent(x)}
<1>1. ASSUME NEW x \in P PROVE 2 * x \in P
  <2>1. 2 * x \in Nat \ {0}
    OBVIOUS
  <2>. QED BY <2>1, CongruentDoubles
<1>. HIDE DEF P
<1>2. m \in P
  BY DEF P
<1>3. P \subseteq Nat
  BY DEF P
<1>4. m * 2 \in P /\ m * 4 \in P /\ m * 8 \in P /\ m * 16 \in P
  <2>1. 2 * m \in P
    BY <1>1, <1>2
  <2>2. 2 * (2 * m) \in P
    BY <1>1, <2>1
  <2>3. 2 * (2 * (2 * m)) \in P
    BY <1>1, <2>2
  <2>4. 2 * (2 * (2 * (2 * m))) \in P
    BY <1>1, <2>3
  <2>5. m * 2 = 2 * m /\ m * 4 = 2 * (2 * m) /\ m * 8 = 2 * (2 * (2 * m)) /\ m * 16 = 2 * (2 * (2 * (2 * m)))
    OBVIOUS
  <2>. QED BY <2>1, <2>2, <2>3, <2>4, <2>5
<1>5. m * 32 \in P /\ m * 64 \in P /\ m * 128 \in P /\ m * 256 \in P
  <2>1. 2 * (m * 16) \in P
    BY <1>1, <1>4
  <2>2. 2 * (2 * (m * 16)) \in P
    BY <1>1, <2>1
  <2>3. 2 * (2 * (2 * (m * 16))) \in P
    BY <1>1, <2>2
  <2>4. 2 * (2 * (2 * (2 * (m * 16)))) \in P
    BY <1>1, <2>3
  <2>5. /\ m * 32 = 2 * (m * 16) /\ m * 64 = 2 * (2 * (m * 16)) /\ m * 128 = 2 * (2 * (2 * (m * 16)))
        /\ m * 256 = 2 * (2 * (2 * (2 * (m * 16))))
    OBVIOUS
  <2>. QED BY <2>1, <2>2, <2>3, <2>4, <2>5
<1>6. m * Byte \in P
  BY <1>4, <1>5, ByteAssumption
<1>. QED BY <1>6 DEF P

LEMMA LowBitsLater ==
  ASSUME NEW m, NEW least \in Nat, LowBits(m, least), NEW later \in Nat, least <= later
  PROVE  LowBits(m, later)
<1>1. \A n \in later..64 : n \in least..64
  OBVIOUS
<1>. QED BY <1>1 DEF LowBits

LEMMA LowBitsBytes ==
  ASSUME NEW m \in Nat \ {0}, NEW least \in 0..24, LowBits(m, least)
  PROVE  LowBits(m * Byte, least + 8)
<1>. DEFINE P == {p \in (Nat \ {0}) \X (0..32) : LowBits(p[1], p[2])}
<1>1. ASSUME NEW x \in Nat, NEW n \in 0..31, <<x, n>> \in P PROVE <<2 * x, n + 1>> \in P
  <2>1. 2 * x \in Nat \ {0} /\ n + 1 \in 0..32 /\ n \in 0..63
    BY <1>1
  <2>2. LowBits(x, n) /\ x \in Nat \ {0}
    BY <1>1
  <2>3. LowBits(2 * x, n + 1)
    BY <2>1, <2>2, LowBitsDouble
  <2>. QED BY <2>1, <2>3
<1>2. ASSUME NEW x \in Nat, NEW n \in 0..32, <<x, n>> \in P, NEW later \in n..32
      PROVE  <<x, later>> \in P
  <2>1. LowBits(x, n) /\ x \in Nat \ {0} /\ later \in Nat /\ n <= later /\ n \in Nat /\ later \in 0..32
    BY <1>2
  <2>. QED BY <2>1, LowBitsLater
<1>3. <<m, least>> \in P
  <2>1. least \in 0..32
    OBVIOUS
  <2>. QED BY <2>1
<1>4. ASSUME <<m * Byte, least + 8>> \in P PROVE LowBits(m * Byte, least + 8)
  BY <1>4
<1>. HIDE DEF P
<1>. DEFINE m2 == 2 * m
            m4 == 2 * m2
            m8 == 2 * m4
            m16 == 2 * m8
            m32 == 2 * m16
            m64 == 2 * m32
            m128 == 2 * m64
            m256 == 2 * m128
<1>5. /\ m2 = m * 2 /\ m4 = m * 4 /\ m8 = m * 8 /\ m16 = m * 16
      /\ m32 = m * 32 /\ m64 = m * 64 /\ m128 = m * 128 /\ m256 = m * 256
  OBVIOUS
<1>6. /\ m2 \in Nat /\ m4 \in Nat /\ m8 \in Nat /\ m16 \in Nat
      /\ m32 \in Nat /\ m64 \in Nat /\ m128 \in Nat
  BY <1>5
<1>7. /\ least + 1 \in 0..31 /\ least + 2 \in 0..31 /\ least + 3 \in 0..31 /\ least + 4 \in 0..31
      /\ least + 5 \in 0..31 /\ least + 6 \in 0..31 /\ least + 7 \in 0..31 /\ least \in 0..31
      /\ (least + 1) + 1 = least + 2 /\ (least + 2) + 1 = least + 3 /\ (least + 3) + 1 = least + 4
      /\ (least + 4) + 1 = least + 5 /\ (least + 5) + 1 = least + 6 /\ (least + 6) + 1 = least + 7
      /\ (least + 7) + 1 = least + 8
  OBVIOUS
<1>8. <<m2, least + 1>> \in P
  BY <1>1, <1>3, <1>7
<1>. HIDE DEF m2
<1>9. <<m4, least + 2>> \in P
  BY <1>1, <1>6, <1>7, <1>8
<1>. HIDE DEF m4
<1>10. <<m8, least + 3>> \in P
  BY <1>1, <1>6, <1>7, <1>9
<1>. HIDE DEF m8
<1>11. <<m16, least + 4>> \in P
  BY <1>1, <1>6, <1>7, <1>10
<1>. HIDE DEF m16
<1>12. <<m32, least + 5>> \in P
  BY <1>1, <1>6, <1>7, <1>11
<1>. HIDE DEF m32
<1>13. <<m64, least + 6>> \in P
  BY <1>1, <1>6, <1>7, <1>12
<1>. HIDE DEF m64
<1>14. <<m128, least + 7>> \in P
  BY <1>1, <1>6, <1>7, <1>13
<1>. HIDE DEF m128
<1>15. <<m256, least + 8>> \in P
  BY <1>1, <1>6, <1>7, <1>14
<1>. HIDE DEF m256
<1>16. ASSUME NEW x \in Nat, NEW n \in 1..8, <<x, least + n>> \in P
       PROVE  <<x, least + 8>> \in P
  <2>1. least + n \in 0..32 /\ least + 8 \in (least + n)..32
    OBVIOUS
  <2>. QED BY <1>2, <1>16, <2>1
<1>17. <<m * Byte, least + 8>> \in P
  <2>1. 1 \in 1..8 /\ 2 \in 1..8 /\ 3 \in 1..8 /\ 4 \in 1..8 /\ 5 \in 1..8 /\ 6 \in 1..8 /\ 7 \in 1..8
    OBVIOUS
  <2>2. <<m2, least + 8>> \in P /\ <<m4, least + 8>> \in P /\ <<m8, least + 8>> \in P
    BY <1>6, <1>8, <1>9, <1>10, <1>16, <2>1, Zenon
  <2>3. <<m16, least + 8>> \in P /\ <<m32, least + 8>> \in P /\ <<m64, least + 8>> \in P
    BY <1>6, <1>11, <1>12, <1>13, <1>16, <2>1, Zenon
  <2>4. <<m128, least + 8>> \in P
    BY <1>6, <1>14, <1>16, <2>1, Zenon
  <2>. QED BY <1>5, <1>15, <2>2, <2>3, <2>4, ByteAssumption
<1>. QED BY <1>4, <1>17

LEMMA Sizes ==
  /\ Word \in Nat \ {0} /\ DWord \in Nat \ {0} /\ QWord \in Nat \ {0} /\ Byte \in Nat \ {0}
  /\ Word = Byte * Byte /\ DWord = Word * Word /\ QWord = DWord * DWord
  /\ DWord = (Word * Byte) * Byte
<1>1. Byte \in Nat \ {0}
  BY ByteAssumption
<1>2. PICK w \in Nat \ {0} : w = Byte * Byte
  BY <1>1
<1>3. PICK d \in Nat \ {0} : d = w * w
  OBVIOUS
<1>4. d * d \in Nat \ {0}
  OBVIOUS
<1>5. w * w = (w * Byte) * Byte
  BY <1>1, <1>2
<1>. QED BY <1>1, <1>2, <1>3, <1>4, <1>5 DEF Word, DWord, QWord

LEMMA OrLaws ==
  /\ Congruent(Word) /\ LowBits(Word, 32)
  /\ Congruent(DWord) /\ LowBits(DWord, 32)
<1>1. Congruent(1)
  <2>. SUFFICES ASSUME NEW n \in 0..64, NEW a \in Nat, NEW b \in Nat
                PROVE  OrBits[n][a][b] % 1 = OrBits[n][a % 1][b % 1]
    BY DEF Congruent
  <2>1. OrBits[n][a][b] \in Nat
    BY OrBitsType, Zenon
  <2>2. OrBits[n][a][b] % 1 = 0 /\ a % 1 = 0 /\ b % 1 = 0
    BY <2>1
  <2>. QED BY <2>2, OrOfZeros, Zenon
<1>2. LowBits(1, 0)
  <2>. SUFFICES ASSUME NEW n \in 0..64, NEW b \in Nat
                PROVE  OrBits[n][0][b] % 1 = b % 1
    BY DEF LowBits
  <2>1. 0 \in Nat
    OBVIOUS
  <2>2. OrBits[n][0][b] \in Nat
    BY <2>1, OrBitsType, Zenon
  <2>. QED BY <2>2
<1>3. 1 \in Nat \ {0} /\ 1 * Byte = Byte /\ Byte \in Nat \ {0} /\ Word * Byte \in Nat \ {0}
      /\ Byte * Byte = Word /\ (Word * Byte) * Byte = DWord /\ Word \in Nat \ {0}
  BY Sizes
<1>4. Congruent(Byte) /\ Congruent(Word)
  BY <1>1, <1>3, CongruentBytes
<1>5. Congruent(Word * Byte)
  BY <1>3, <1>4, CongruentBytes
<1>6. Congruent(DWord)
  BY <1>3, <1>5, CongruentBytes
<1>7. /\ 0 \in 0..24 /\ 8 \in 0..24 /\ 16 \in 0..24 /\ 24 \in 0..24
      /\ 0 + 8 = 8 /\ 8 + 8 = 16 /\ 16 + 8 = 24 /\ 24 + 8 = 32 /\ 16 \in Nat /\ 32 \in Nat /\ 16 <= 32
  OBVIOUS
<1>8. LowBits(Byte, 8)
  BY <1>2, <1>3, <1>7, LowBitsBytes, Zenon
<1>9. LowBits(Word, 16)
  BY <1>3, <1>7, <1>8, LowBitsBytes, Zenon
<1>10. LowBits(Word * Byte, 24)
  BY <1>3, <1>7, <1>9, LowBitsBytes, Zenon
<1>11. LowBits(DWord, 32)
  BY <1>3, <1>7, <1>10, LowBitsBytes, Zenon
<1>12. LowBits(Word, 32)
  BY <1>7, <1>9, LowBitsLater, Zenon
<1>. QED BY <1>4, <1>6, <1>11, <1>12

LEMMA OrType == ASSUME NEW a \in Nat, NEW b \in Nat PROVE Or(a, b) \in Nat
<1>1. 64 \in 0..64
  OBVIOUS
<1>. QED BY <1>1, OrBitsType, Zenon DEF Or

LEMMA OrMod ==
  ASSUME NEW m, Congruent(m), NEW a \in Nat, NEW b \in Nat
  PROVE  Or(a, b) % m = Or(a % m, b % m)
<1>1. 64 \in 0..64
  OBVIOUS
<1>. QED BY <1>1, Zenon DEF Congruent, Or

(* The bits of the mask are those of the value, whatever was there.         *)
LEMMA MergeLow ==
  ASSUME NEW m \in Nat \ {0}, Congruent(m), LowBits(m, 32), NEW old \in Nat, NEW v \in Int
  PROVE  /\ Merge(old, m, v, m * m) \in Nat
         /\ Merge(old, m, v, m * m) % m = v % m
<1>1. PICK mm \in Nat \ {0} : mm = m * m
  OBVIOUS
<1>2. CASE v < 0
  <2>1. Merge(old, m, v, mm) = v % mm
    BY <1>2 DEF Merge
  <2>2. v % mm \in Nat
    OBVIOUS
  <2>3. (v % mm) % m = v % m
    <3>1. (v % (m * m)) % m = v % m
      BY ModOfMod, Zenon
    <3>. QED BY <1>1, <3>1, Zenon
  <2>. QED BY <1>1, <2>1, <2>2, <2>3
<1>3. CASE v >= 0
  <2>1. PICK high \in Nat : high = old - (old % m) /\ high % m = 0
    <3>. DEFINE q == old \div m
                r == old % m
    <3>0. old \in Int
      OBVIOUS
    <3>1. q \in Int /\ r \in 0..(m - 1) /\ old = m * q + r
      BY <3>0, Euclid, Zenon
    <3>. HIDE DEF q, r
    <3>2. old - r = m * q /\ old - r \in Int
      BY <3>1
    <3>3. old - r >= 0
      <4>1. q >= 0
        <5>1. q <= -1 => m * q <= -m
          BY <3>1
        <5>. QED BY <3>1, <5>1
      <4>2. m * q >= 0
        BY <3>1, <4>1
      <4>. QED BY <3>2, <4>2
    <3>4. (0 + m * q) % m = 0 % m
      <4>1. 0 \in Int
        OBVIOUS
      <4>. QED BY <3>1, <4>1, ModAdd, Zenon
    <3>5. 0 % m = 0 /\ 0 + m * q = m * q
      BY <3>1
    <3>6. (old - r) % m = 0
      BY <3>2, <3>4, <3>5, Zenon
    <3>7. old - r \in Nat
      BY <3>2, <3>3
    <3>. QED BY <3>6, <3>7 DEF r
  <2>2. PICK n \in Nat : n = v /\ n % m \in Nat
    BY <1>3
  <2>3. PICK x \in Nat : x = Or(high, n)
    BY OrType
  <2>4. Merge(old, m, v, mm) = x % mm
    BY <1>3, <2>1, <2>2, <2>3 DEF Merge
  <2>5. x % mm \in Nat
    OBVIOUS
  <2>6. (x % mm) % m = x % m
    <3>1. x \in Int
      OBVIOUS
    <3>2. (x % (m * m)) % m = x % m
      BY <3>1, ModOfMod, Zenon
    <3>. QED BY <1>1, <3>2, Zenon
  <2>7. x % m = Or(0, n % m)
    BY <2>1, <2>3, OrMod, Zenon
  <2>8. Or(0, n % m) % m = (n % m) % m
    <3>1. 64 \in 32..64
      OBVIOUS
    <3>. QED BY <2>2, <3>1, Zenon DEF LowBits, Or
  <2>9. (x % m) % m = x % m /\ (n % m) % m = n % m
    OBVIOUS
  <2>10. x % m = n % m
    BY <2>7, <2>8, <2>9, Zenon
  <2>. QED BY <1>1, <2>2, <2>4, <2>5, <2>6, <2>10
<1>. QED BY <1>2, <1>3

(* Written into the wide array and into its low half, a value leaves the    *)
(* same in both.                                                            *)
LEMMA MergeAlike ==
  ASSUME NEW q \in Nat, NEW d \in Nat, d = q % DWord, NEW v \in Int
  PROVE  /\ Merge(q, Word, v, QWord) \in Nat
         /\ Merge(q, Word, v, QWord) % DWord = Merge(d, Word, v, DWord)
<1>1. PICK W \in Nat \ {0}, D \in Nat \ {0}, Q \in Nat \ {0} :
        W = Word /\ D = DWord /\ Q = QWord /\ D = W * W /\ Q = D * D
  BY Sizes
<1>2. \A x \in Int : x % Q \in Nat /\ (x % Q) % D = x % D
  <2>. TAKE x \in Int
  <2>1. x % Q \in Nat
    OBVIOUS
  <2>2. (x % (D * D)) % D = x % D
    BY ModOfMod, Zenon
  <2>. QED BY <1>1, <2>1, <2>2, Zenon
<1>3. CASE v < 0
  BY <1>1, <1>2, <1>3 DEF Merge
<1>4. CASE v >= 0
  <2>1. PICK r \in Nat : r = q % W /\ r = d % W
    <3>1. q \in Int /\ d \in Int
      OBVIOUS
    <3>2. (q % (W * W)) % W = q % W
      BY <3>1, ModOfMod, Zenon
    <3>3. q % W \in Nat
      OBVIOUS
    <3>. QED BY <1>1, <3>2, <3>3
  <2>2. r <= q /\ r <= d
    <3>1. \A x \in Nat : x % W <= x
      <4>. TAKE x \in Nat
      <4>. DEFINE k == x \div W
                  e == x % W
      <4>1. k \in Int /\ e \in 0..(W - 1) /\ x = W * k + e
        BY Euclid
      <4>. HIDE DEF k, e
      <4>2. k >= 0
        <5>1. k <= -1 => W * k <= -W
          BY <4>1
        <5>. QED BY <4>1, <5>1
      <4>3. W * k >= 0
        BY <4>1, <4>2
      <4>4. e <= x
        BY <4>1, <4>3
      <4>. QED BY <4>4 DEF e
    <3>. QED BY <2>1, <3>1
  <2>3. PICK hq \in Nat, hd \in Nat : hq = q - (q % W) /\ hd = d - (d % W)
    BY <2>1, <2>2
  <2>4. hq % D = hd % D
    <3>. DEFINE k == q \div D
    <3>1. k \in Int /\ q = D * k + (q % D)
      BY Euclid
    <3>. HIDE DEF k
    <3>2. hq = hd + D * k
      <4>1. hq = q - r /\ hd = d - r
        BY <2>1, <2>3
      <4>2. q = D * k + d
        BY <1>1, <3>1, Zenon
      <4>3. D * k \in Int
        BY <3>1
      <4>. QED BY <4>1, <4>2, <4>3
    <3>3. hd \in Int
      OBVIOUS
    <3>4. (hd + D * k) % D = hd % D
      BY <3>1, <3>3, ModAdd, Zenon
    <3>. QED BY <3>2, <3>4, Zenon
  <2>5. PICK n \in Nat : n = v
    BY <1>4
  <2>6. PICK x \in Nat, y \in Nat : x = Or(hq, n) /\ y = Or(hd, n)
    BY OrType
  <2>7. Merge(q, W, v, Q) = x % Q /\ Merge(d, W, v, D) = y % D
    BY <1>4, <2>3, <2>5, <2>6 DEF Merge
  <2>8. x % D = y % D
    <3>1. Congruent(D)
      BY <1>1, OrLaws
    <3>2. x % D = Or(hq % D, n % D) /\ y % D = Or(hd % D, n % D)
      BY <2>6, <3>1, OrMod, Zenon
    <3>. QED BY <2>4, <3>2, Zenon
  <2>9. x % Q \in Nat /\ (x % Q) % D = x % D
    <3>1. x \in Int
      OBVIOUS
    <3>. QED BY <1>2, <3>1, Zenon
  <2>. QED BY <1>1, <2>7, <2>8, <2>9, Zenon
<1>. QED BY <1>3, <1>4

(* A register and its arrays.                                               *)
AllNames == {"q", "d", "w", "h", "l"}
LowNames == {"q", "d", "w", "l"}

IsRegister(g, names) == g \in [names -> Nat] /\ Coherent(g)

LEMMA LowValues ==
  ASSUME NEW v \in Int
  PROVE  /\ v % DWord \in Nat /\ v % Word \in Nat /\ v % Byte \in Nat
         /\ (v % Word) \div Byte \in Nat
         /\ (v % DWord) % Word = v % Word
         /\ (v % Word) % Byte = v % Byte
<1>1. PICK b \in Nat \ {0}, w \in Nat \ {0}, d \in Nat \ {0} :
        b = Byte /\ w = Word /\ d = DWord /\ w = b * b /\ d = w * w
  BY Sizes
<1>2. v % d \in Nat /\ v % w \in Nat /\ v % b \in Nat
  OBVIOUS
<1>3. \A n \in Nat : n \div b \in Nat
  OBVIOUS
<1>4. (v % (w * w)) % w = v % w /\ (v % (b * b)) % b = v % b
  BY ModOfMod, Zenon
<1>. QED BY <1>1, <1>2, <1>3, <1>4

(* A register after its arrays took new values.                             *)
LEMMA Updated ==
  ASSUME NEW names \in {AllNames, LowNames}, NEW g \in [names -> Nat],
         NEW q \in Nat, NEW d \in Nat, NEW w \in Nat, NEW h \in Nat, NEW l \in Nat,
         d = q % DWord, w = d % Word, l = w % Byte, h = w \div Byte
  PROVE  IsRegister(Update(g, [q |-> q, d |-> d, w |-> w, h |-> h, l |-> l]), names)
<1>. DEFINE new == [q |-> q, d |-> d, w |-> w, h |-> h, l |-> l]
            u == Update(g, new)
<1>1. DOMAIN g = names /\ DOMAIN new = AllNames
  BY DEF AllNames
<1>2. names \subseteq AllNames /\ LowNames \subseteq names
  BY DEF AllNames, LowNames
<1>3. u = [f \in names |-> new[f]]
  BY <1>1, <1>2 DEF Update
<1>4. \A f \in AllNames : new[f] \in Nat
  BY DEF AllNames
<1>5. new.q = q /\ new.d = d /\ new.w = w /\ new.h = h /\ new.l = l
  OBVIOUS
<1>. HIDE DEF new
<1>6. u \in [names -> Nat] /\ DOMAIN u = names
  BY <1>2, <1>3, <1>4
<1>7. u.q = q /\ u.d = d /\ u.w = w /\ u.l = l /\ ("h" \in names => u.h = h)
  BY <1>2, <1>3, <1>5 DEF LowNames
<1>. HIDE DEF u
<1>8. Coherent(u)
  BY <1>6, <1>7, Zenon DEF Coherent
<1>9. IsRegister(u, names)
  BY <1>6, <1>8 DEF IsRegister
<1>. QED BY <1>9 DEF u, new

LEMMA SetDAgrees ==
  ASSUME NEW names \in {AllNames, LowNames}, NEW g, IsRegister(g, names), NEW v \in Int
  PROVE  IsRegister(SetD(g, v), names)
<1>1. g \in [names -> Nat] /\ g.q \in Nat
  BY DEF IsRegister, AllNames, LowNames
<1>2. PICK q \in Nat : q = Merge(g.q, DWord, v, QWord) /\ q % DWord = v % DWord
  <2>1. /\ Merge(g.q, DWord, v, DWord * DWord) \in Nat
        /\ Merge(g.q, DWord, v, DWord * DWord) % DWord = v % DWord
    BY <1>1, Sizes, OrLaws, MergeLow, Zenon
  <2>2. DWord * DWord = QWord
    BY Sizes
  <2>. QED BY <2>1, <2>2, Zenon
<1>3. PICK d \in Nat, w \in Nat, h \in Nat, l \in Nat :
        /\ d = v % DWord /\ w = v % Word /\ h = (v % Word) \div Byte /\ l = v % Byte
        /\ w = d % Word /\ l = w % Byte
  <2>. DEFINE d == v % DWord
              w == v % Word
              h == (v % Word) \div Byte
              l == v % Byte
  <2>1. d \in Nat /\ w \in Nat /\ h \in Nat /\ l \in Nat /\ w = d % Word /\ l = w % Byte
    BY LowValues, Zenon
  <2>2. d = v % DWord /\ w = v % Word /\ h = (v % Word) \div Byte /\ l = v % Byte
    OBVIOUS
  <2>. HIDE DEF d, w, h, l
  <2>. QED BY <2>1, <2>2
<1>4. IsRegister(Update(g, [q |-> q, d |-> d, w |-> w, h |-> h, l |-> l]), names)
  <2>1. d = q % DWord /\ w = d % Word /\ l = w % Byte /\ h = w \div Byte
    BY <1>2, <1>3, Zenon
  <2>. QED BY <1>1, <2>1, Updated, Zenon
<1>. QED BY <1>2, <1>3, <1>4, Zenon DEF SetD

LEMMA SetWAgrees ==
  ASSUME NEW names \in {AllNames, LowNames}, NEW g, IsRegister(g, names), NEW v \in Int
  PROVE  IsRegister(SetW(g, v), names)
<1>1. g \in [names -> Nat] /\ g.q \in Nat /\ g.d \in Nat /\ g.d = g.q % DWord
  BY DEF IsRegister, AllNames, LowNames, Coherent
<1>2. PICK q \in Nat : q = Merge(g.q, Word, v, QWord) /\ q % DWord = Merge(g.d, Word, v, DWord)
  BY <1>1, MergeAlike, Zenon
<1>3. PICK d \in Nat : d = Merge(g.d, Word, v, DWord) /\ d % Word = v % Word
  <2>1. /\ Merge(g.d, Word, v, Word * Word) \in Nat
        /\ Merge(g.d, Word, v, Word * Word) % Word = v % Word
    BY <1>1, Sizes, OrLaws, MergeLow, Zenon
  <2>2. Word * Word = DWord
    BY Sizes
  <2>. QED BY <2>1, <2>2, Zenon
<1>4. PICK w \in Nat, h \in Nat, l \in Nat :
        w = v % Word /\ h = (v % Word) \div Byte /\ l = v % Byte /\ l = w % Byte
  BY LowValues, Zenon
<1>5. IsRegister(Update(g, [q |-> q, d |-> d, w |-> w, h |-> h, l |-> l]), names)
  <2>1. d = q % DWord /\ w = d % Word /\ l = w % Byte /\ h = w \div Byte
    BY <1>2, <1>3, <1>4, Zenon
  <2>. QED BY <1>1, <2>1, Updated, Zenon
<1>. QED BY <1>2, <1>3, <1>4, <1>5, Zenon DEF SetW

(* The sum and the product of a list of numbers are numbers.                *)
LEMMA SumType == ASSUME NEW xs \in Seq(Nat) PROVE Sum(xs) \in Nat
<1>. DEFINE N == Len(xs)
            step == [n \in 1..N |-> [v \in Nat |-> v + xs[n]]]
            Def(f) == [n \in 0..N |-> IF n = 0 THEN 0 ELSE f[n - 1] + xs[n]]
<1>1. N \in Nat /\ \A n \in 1..N : xs[n] \in Nat
  OBVIOUS
<1>. HIDE DEF N
<1>2. 0 \in Nat /\ step \in [1..N -> [Nat -> Nat]]
  BY <1>1
<1>3. PICK f \in [0..N -> Nat] : Steps(f, N, 0, step)
  <2>. HIDE DEF step
  <2>. QED BY <1>1, <1>2, Recursion
<1>4. \A n \in 0..N : n # 0 => n \in 1..N /\ n - 1 \in 0..N
  BY <1>1
<1>5. f = Def(f)
  <2>1. \A n \in 1..N : f[n] = step[n][f[n - 1]]
    BY <1>3 DEF Steps
  <2>2. ASSUME NEW n \in 1..N PROVE f[n] = f[n - 1] + xs[n]
    <3>1. f[n] = step[n][f[n - 1]]
      BY <2>1
    <3>2. n - 1 \in 0..N
      BY <1>1
    <3>3. f[n - 1] \in Nat
      BY <1>3, <3>2
    <3>. QED BY <3>1, <3>3
  <2>3. f[0] = 0
    BY <1>3 DEF Steps
  <2>. QED BY <1>3, <1>4, <2>2, <2>3
<1>. DEFINE sum == CHOOSE g : g = Def(g)
<1>6. sum = Def(sum)
  BY <1>5
<1>7. Sum(xs) = sum[N]
  BY Zenon DEF Sum, N
<1>8. \A n \in 0..N : sum[n] \in Nat
  <2>. DEFINE S == {n \in 0..N : sum[n] \in Nat}
  <2>. HIDE DEF sum
  <2>1. 0 \in S
    BY <1>1, <1>6
  <2>2. ASSUME NEW n \in 0..(N - 1), n \in S PROVE n + 1 \in S
    <3>1. n + 1 \in 0..N /\ n + 1 \in 1..N /\ n + 1 # 0 /\ (n + 1) - 1 = n
      BY <1>1
    <3>2. sum[n + 1] = sum[n] + xs[n + 1]
      BY <1>6, <3>1
    <3>3. sum[n] \in Nat /\ xs[n + 1] \in Nat
      BY <1>1, <2>2, <3>1
    <3>. QED BY <3>1, <3>2, <3>3
  <2>. HIDE DEF S
  <2>3. \A n \in 0..N : n \in S
    BY <1>1, <2>1, <2>2, InductionUpTo
  <2>. QED BY <2>3 DEF S
<1>9. N \in 0..N
  BY <1>1
<1>. QED BY <1>7, <1>8, <1>9, Zenon

LEMMA ProductType == ASSUME NEW xs \in Seq(Nat) PROVE Product(xs) \in Nat
<1>. DEFINE N == Len(xs)
            step == [n \in 1..N |-> [v \in Nat |-> v * xs[n]]]
            Def(f) == [n \in 0..N |-> IF n = 0 THEN 1 ELSE f[n - 1] * xs[n]]
<1>1. N \in Nat /\ \A n \in 1..N : xs[n] \in Nat
  OBVIOUS
<1>. HIDE DEF N
<1>2. 1 \in Nat /\ step \in [1..N -> [Nat -> Nat]]
  BY <1>1
<1>3. PICK f \in [0..N -> Nat] : Steps(f, N, 1, step)
  <2>. HIDE DEF step
  <2>. QED BY <1>1, <1>2, Recursion
<1>4. \A n \in 0..N : n # 0 => n \in 1..N /\ n - 1 \in 0..N
  BY <1>1
<1>5. f = Def(f)
  <2>1. \A n \in 1..N : f[n] = step[n][f[n - 1]]
    BY <1>3 DEF Steps
  <2>2. ASSUME NEW n \in 1..N PROVE f[n] = f[n - 1] * xs[n]
    <3>1. f[n] = step[n][f[n - 1]]
      BY <2>1
    <3>2. n - 1 \in 0..N
      BY <1>1
    <3>3. f[n - 1] \in Nat
      BY <1>3, <3>2
    <3>. QED BY <3>1, <3>3
  <2>3. f[0] = 1
    BY <1>3 DEF Steps
  <2>. QED BY <1>3, <1>4, <2>2, <2>3
<1>. DEFINE product == CHOOSE g : g = Def(g)
<1>6. product = Def(product)
  BY <1>5
<1>7. Product(xs) = product[N]
  BY Zenon DEF Product, N
<1>8. \A n \in 0..N : product[n] \in Nat
  <2>. DEFINE S == {n \in 0..N : product[n] \in Nat}
  <2>. HIDE DEF product
  <2>1. 0 \in S
    BY <1>1, <1>6
  <2>2. ASSUME NEW n \in 0..(N - 1), n \in S PROVE n + 1 \in S
    <3>1. n + 1 \in 0..N /\ n + 1 \in 1..N /\ n + 1 # 0 /\ (n + 1) - 1 = n
      BY <1>1
    <3>2. product[n + 1] = product[n] * xs[n + 1]
      BY <1>6, <3>1
    <3>3. product[n] \in Nat /\ xs[n + 1] \in Nat
      BY <1>1, <2>2, <3>1
    <3>4. product[n] * xs[n + 1] \in Nat
      BY <3>3
    <3>. QED BY <3>1, <3>2, <3>4
  <2>. HIDE DEF S
  <2>3. \A n \in 0..N : n \in S
    BY <1>1, <2>1, <2>2, InductionUpTo
  <2>. QED BY <2>3 DEF S
<1>9. N \in 0..N
  BY <1>1
<1>. QED BY <1>7, <1>8, <1>9, Zenon

--------------------------------------------------------------------------------
\* The three registers hold numbers, and the names of each agree.
RegInv ==
  /\ reg = [r \in {"rax", "rdx", "rsp"} |-> reg[r]]
  /\ IsRegister(reg["rax"], AllNames) /\ IsRegister(reg["rdx"], AllNames)
  /\ IsRegister(reg["rsp"], LowNames)

LEMMA RegInit == Init => RegInv
<1>. SUFFICES ASSUME Init PROVE RegInv
  OBVIOUS
<1>1. ASSUME NEW names \in {AllNames, LowNames} PROVE IsRegister(NewGroup(names), names)
  <2>. DEFINE g == NewGroup(names)
  <2>1. g = [f \in names |-> 0] /\ LowNames \subseteq names
    BY DEF NewGroup, AllNames, LowNames
  <2>2. g.q = 0 /\ g.d = 0 /\ g.w = 0 /\ g.l = 0 /\ ("h" \in DOMAIN g => g.h = 0)
    BY <2>1 DEF LowNames
  <2>3. 0 % DWord = 0 /\ 0 % Word = 0 /\ 0 % Byte = 0 /\ 0 \div Byte = 0
    <3>1. \A m \in Nat \ {0} : 0 % m = 0 /\ 0 \div m = 0
      OBVIOUS
    <3>. QED BY <3>1, Sizes
  <2>4. Coherent(g)
    <3>. HIDE DEF g
    <3>. QED BY <2>2, <2>3, Zenon DEF Coherent
  <2>. QED BY <2>1, <2>4 DEF IsRegister
<1>2. reg = [rax |-> NewGroup(AllNames), rdx |-> NewGroup(AllNames), rsp |-> NewGroup(LowNames)]
  BY DEF Init, AllNames, LowNames
<1>3. /\ reg = [r \in {"rax", "rdx", "rsp"} |-> reg[r]]
      /\ reg["rax"] = NewGroup(AllNames) /\ reg["rdx"] = NewGroup(AllNames)
      /\ reg["rsp"] = NewGroup(LowNames)
  BY <1>2
<1>. QED BY <1>1, <1>3, Zenon DEF RegInv

\* What an operation may write: $ax, $eax and $edx, $sp.
LEMMA RegWritten ==
  ASSUME RegInv, NEW a, IsRegister(a, AllNames), NEW d, IsRegister(d, AllNames),
         NEW s, IsRegister(s, LowNames),
         reg' = [reg EXCEPT !["rax"] = a, !["rdx"] = d, !["rsp"] = s]
  PROVE  RegInv'
<1>1. /\ reg' = [r \in {"rax", "rdx", "rsp"} |-> reg'[r]]
      /\ reg'["rax"] = a /\ reg'["rdx"] = d /\ reg'["rsp"] = s
  BY DEF RegInv
<1>. QED BY <1>1, Zenon DEF RegInv

LEMMA RegKept == ASSUME RegInv, reg' = reg PROVE RegInv'
BY DEF RegInv

LEMMA SpWritten ==
  ASSUME RegInv, sp' \in Int, reg' = SetSp(reg)
  PROVE  RegInv'
<1>. DEFINE s == SetW(reg["rsp"], sp')
<1>1. IsRegister(s, LowNames)
  BY SetWAgrees, Zenon DEF RegInv
<1>2. reg' = [reg EXCEPT !["rsp"] = s]
  BY DEF SetSp
<1>. HIDE DEF s
<1>3. /\ reg' = [r \in {"rax", "rdx", "rsp"} |-> reg'[r]]
      /\ reg'["rax"] = reg["rax"] /\ reg'["rdx"] = reg["rdx"] /\ reg'["rsp"] = s
  BY <1>2 DEF RegInv
<1>. QED BY <1>1, <1>3, Zenon DEF RegInv

LEMMA AddressReturned ==
  ASSUME RegInv, sp' \in Int, NEW p \in Nat, Return(p)
  PROVE  RegInv'
<1>. DEFINE s == SetW(reg["rsp"], sp')
            a == SetW(reg["rax"], p)
<1>1. IsRegister(s, LowNames)
  BY SetWAgrees, Zenon DEF RegInv
<1>2. IsRegister(a, AllNames)
  <2>1. p \in Int
    OBVIOUS
  <2>. QED BY <2>1, SetWAgrees, Zenon DEF RegInv
<1>3. reg' = [SetSp(reg) EXCEPT !["rax"] = SetW(@, p)] /\ SetSp(reg) = [reg EXCEPT !["rsp"] = s]
  BY DEF Return, SetSp
<1>4. SetSp(reg)["rax"] = reg["rax"]
  BY <1>3 DEF RegInv
<1>5. reg' = [SetSp(reg) EXCEPT !["rax"] = a]
  BY <1>3, <1>4
<1>. HIDE DEF s, a
<1>6. /\ reg' = [r \in {"rax", "rdx", "rsp"} |-> reg'[r]]
      /\ reg'["rax"] = a /\ reg'["rdx"] = reg["rdx"] /\ reg'["rsp"] = s
  BY <1>3, <1>5 DEF RegInv
<1>. QED BY <1>1, <1>2, <1>6, Zenon DEF RegInv

LEMMA AccumulatorsWritten ==
  ASSUME RegInv, NEW v \in Int, NEW w \in Int,
         reg' = [reg EXCEPT !.rax = SetD(@, v), !.rdx = SetD(@, w)]
  PROVE  RegInv'
<1>. DEFINE a == SetD(reg["rax"], v)
            d == SetD(reg["rdx"], w)
<1>1. IsRegister(a, AllNames) /\ IsRegister(d, AllNames)
  BY SetDAgrees, Zenon DEF RegInv
<1>2. reg' = [reg EXCEPT !["rax"] = a, !["rdx"] = d]
  BY DEF RegInv
<1>. HIDE DEF a, d
<1>3. /\ reg' = [r \in {"rax", "rdx", "rsp"} |-> reg'[r]]
      /\ reg'["rax"] = a /\ reg'["rdx"] = d /\ reg'["rsp"] = reg["rsp"]
  BY <1>2 DEF RegInv
<1>. QED BY <1>1, <1>3, Zenon DEF RegInv

LEMMA AccumulatorWritten ==
  ASSUME RegInv, NEW v \in Int, reg' = [reg EXCEPT !.rax = SetD(@, v)]
  PROVE  RegInv'
<1>. DEFINE a == SetD(reg["rax"], v)
<1>1. IsRegister(a, AllNames)
  BY SetDAgrees, Zenon DEF RegInv
<1>2. reg' = [reg EXCEPT !["rax"] = a]
  BY DEF RegInv
<1>. HIDE DEF a
<1>3. /\ reg' = [r \in {"rax", "rdx", "rsp"} |-> reg'[r]]
      /\ reg'["rax"] = a /\ reg'["rdx"] = reg["rdx"] /\ reg'["rsp"] = reg["rsp"]
  BY <1>2 DEF RegInv
<1>. QED BY <1>1, <1>3, Zenon DEF RegInv

LEMMA OperandValue == ASSUME RegInv, NEW x \in Operand PROVE Value(x) \in Nat
<1>1. CASE x.kind = "imm"
  BY <1>1 DEF Value, Operand
<1>2. CASE x.kind # "imm"
  <2>1. Value(x) = reg[x.group][x.field]
    BY <1>2 DEF Value
  <2>2. \/ x.group \in {"rax", "rdx"} /\ x.field \in AllNames
        \/ x.group = "rsp" /\ x.field \in LowNames
    BY <1>2 DEF Operand, AllNames, LowNames
  <2>3. /\ reg["rax"] \in [AllNames -> Nat] /\ reg["rdx"] \in [AllNames -> Nat]
        /\ reg["rsp"] \in [LowNames -> Nat]
    BY DEF RegInv, IsRegister
  <2>. QED BY <2>1, <2>2, <2>3
<1>. QED BY <1>1, <1>2

LEMMA ResultType ==
  ASSUME NEW vs \in Seq(Nat), vs # << >>, NEW op \in {"add", "sub", "mul", "div"}
  PROVE  Result(op, vs).n \in Nat
<1>. DEFINE a == Head(vs)
            rest == Tail(vs)
            by == Product(rest)
<1>1. a \in Nat /\ rest \in Seq(Nat)
  OBVIOUS
<1>. HIDE DEF a, rest
<1>2. PICK s \in Nat : s = Sum(rest)
  BY <1>1, SumType
<1>3. by \in Nat
  BY <1>1, ProductType
<1>. HIDE DEF by
<1>4. \A n, what : Whole(n).n = n /\ Odd(what).n = 0
  BY DEF Whole, Odd
<1>5. a + s \in Nat /\ a * by \in Nat /\ (~(a < s) => a - s \in Nat) /\ (by # 0 => a \div by \in Nat)
  <2>1. \A x, y \in Nat : /\ x + y \in Nat /\ x * y \in Nat
                         /\ (~(x < y) => x - y \in Nat) /\ (y # 0 => x \div y \in Nat)
    OBVIOUS
  <2>. QED BY <1>1, <1>2, <1>3, <2>1, Zenon
<1>6. CASE op = "add"
  <2>1. Result(op, vs) = Whole(a + s)
    BY <1>2, <1>6 DEF Result, a, rest
  <2>. QED BY <1>4, <1>5, <2>1, Zenon
<1>7. CASE op = "sub"
  <2>1. Result(op, vs) = IF a < s THEN Odd("negative") ELSE Whole(a - s)
    BY <1>2, <1>7 DEF Result, a, rest
  <2>. QED BY <1>4, <1>5, <2>1
<1>8. CASE op = "mul"
  <2>1. Result(op, vs) = Whole(a * by)
    BY <1>8 DEF Result, a, rest, by
  <2>. QED BY <1>4, <1>5, <2>1, Zenon
<1>9. CASE op = "div"
  <2>1. \/ Result(op, vs) = Odd("NaN") \/ Result(op, vs) = Odd("Infinity")
        \/ Result(op, vs) = Odd("fraction")
        \/ (by # 0 /\ Result(op, vs) = Whole(a \div by))
    BY <1>9 DEF Result, a, rest, by
  <2>2. 0 \in Nat
    OBVIOUS
  <2>. QED BY <1>4, <1>5, <2>1, <2>2, Zenon
<1>. QED BY <1>6, <1>7, <1>8, <1>9

LEMMA MathRegisters ==
  ASSUME RegInv, NEW i \in Instructions, i.op \in {"add", "sub", "mul", "div"},
         Math(i.op, i.args)
  PROVE  RegInv'
<1>. DEFINE xs == i.args
            vs == Operands([k \in DOMAIN xs |-> Value(xs[k])])
            r == Result(i.op, vs)
            v == IF r.n >= DWord THEN ToInt32(r.n) ELSE r.n
            w == IF r.n >= DWord THEN r.n % Word ELSE 0
<1>0. CASE xs = << >>
  <2>1. Len(xs) \notin 1..6
    BY <1>0
  <2>2. reg' = reg
    BY <2>1 DEF Math, Except, End, machine
  <2>. QED BY <2>2, RegKept
<1>. SUFFICES ASSUME xs # << >> PROVE RegInv'
  BY <1>0
<1>1. xs \in Seq(Operand) /\ xs # << >>
  BY OperandsAssumption
<1>2. vs \in Seq(Nat) /\ vs # << >>
  <2>. DEFINE values == [k \in DOMAIN xs |-> Value(xs[k])]
  <2>1. \A k \in DOMAIN xs : Value(xs[k]) \in Nat
    <3>1. \A k \in DOMAIN xs : xs[k] \in Operand
      BY <1>1
    <3>. QED BY <3>1, OperandValue
  <2>2. PICK n \in Nat \ {0} : n = Len(xs) /\ DOMAIN xs = 1..n
    BY <1>1
  <2>. HIDE DEF xs
  <2>3. values = [k \in 1..n |-> Value(xs[k])] /\ \A k \in 1..n : Value(xs[k]) \in Nat
    BY <2>1, <2>2
  <2>4. values \in Seq(Nat) /\ Len(values) = n
    BY <2>3
  <2>. HIDE DEF values
  <2>5. values[1] \in Nat
    BY <2>4
  <2>6. \/ vs = values
        \/ vs = <<values[1], values[1]>>
    BY DEF Operands, values
  <2>. HIDE DEF vs
  <2>7. CASE vs = values
    <3>1. values # << >>
      BY <2>2, <2>4
    <3>. QED BY <2>4, <2>7, <3>1
  <2>8. CASE vs = <<values[1], values[1]>>
    <3>1. <<values[1], values[1]>> \in Seq(Nat) /\ <<values[1], values[1]>> # << >>
      BY <2>5
    <3>. QED BY <2>8, <3>1
  <2>. QED BY <2>6, <2>7, <2>8
<1>. HIDE DEF vs
<1>3. r.n \in Nat
  BY <1>2, ResultType
<1>4. v \in Int /\ w \in Int
  <2>1. \A n \in Nat : ToInt32(n) \in Int /\ n % Word \in Int
    <3>. TAKE n \in Nat
    <3>1. PICK m \in Nat : m = n % DWord
      BY Sizes
    <3>2. n % Word \in Int
      BY Sizes
    <3>3. ToInt32(n) = IF 2 * m >= DWord THEN m - DWord ELSE m
      BY <3>1 DEF ToInt32
    <3>. QED BY <3>2, <3>3, Sizes
  <2>. QED BY <1>3, <2>1
<1>5. CASE reg' = reg
  BY <1>5, RegKept
<1>6. CASE reg' = [reg EXCEPT !.rax = SetD(@, v), !.rdx = SetD(@, w)]
  <2>. HIDE DEF v, w
  <2>. QED BY <1>4, <1>6, AccumulatorsWritten, Zenon
<1>7. reg' = reg \/ reg' = [reg EXCEPT !.rax = SetD(@, v), !.rdx = SetD(@, w)]
  BY DEF Math, Except, Crash, End, machine, vs
<1>. QED BY <1>5, <1>6, <1>7

\* No name is written by name: another setter always stops it.
LEMMA NothingByName ==
  ASSUME NEW r, NEW v, SetRegisterByName(r, v)
  PROVE  reg' = reg
<1>. DEFINE own == Min({i \in DOMAIN Groups : Groups[i] = r.group})
            stops == {i \in DOMAIN Groups : i # own /\ DefaultCase[Groups[i]] # "nothing"}
            first == Min(stops \cup {Len(Groups) + 1})
<1>1. stops # {}
  <2>1. 2 \in DOMAIN Groups /\ 17 \in DOMAIN Groups /\ Groups[2] = "rcx" /\ Groups[17] = "masks"
    BY DEF Groups
  <2>2. "rcx" \in Range(Groups) /\ "masks" \in Range(Groups)
    BY <2>1 DEF Range
  <2>3. DefaultCase["rcx"] = "throws" /\ DefaultCase["masks"] = "refuses"
    BY <2>2 DEF DefaultCase
  <2>. HIDE DEF own
  <2>4. 2 # own \/ 17 # own
    OBVIOUS
  <2>. QED BY <2>1, <2>3, <2>4
<1>. HIDE DEF stops, first, own
<1>2. Crash \/ Except
  BY <1>1 DEF SetRegisterByName, stops, first, own
<1>. QED BY <1>2 DEF Crash, Except, End, machine

LEMMA SizeWritten == ASSUME RegInv, NEW x, SizeOf(x) PROVE RegInv'
<1>. DEFINE bytes == IF x.kind = "reg"
                     THEN CASE x.field \in {"h", "l"} -> 1 [] x.field = "w" -> 2
                            [] x.field = "d" -> 4 [] OTHER -> 0
                     ELSE CASE x.n < Byte -> 1 [] IsUint16(x.n) -> 2
                            [] x.n >= Word /\ x.n < DWord -> 4 [] OTHER -> 8
<1>1. bytes \in Int
  OBVIOUS
<1>2. Except \/ reg' = [reg EXCEPT !.rax = SetD(@, bytes)]
  BY DEF SizeOf
<1>. HIDE DEF bytes
<1>3. CASE Except
  BY <1>3, RegKept DEF Except, End, machine
<1>. QED BY <1>1, <1>2, <1>3, AccumulatorWritten, Zenon

LEMMA RegStep ==
  ASSUME RegInv, StackInv, [Next]_vars
  PROVE  RegInv'
<1>0. sp' \in Int /\ mp \in Nat
  <2>1. StackInv'
    BY StackStepInv
  <2>2. sp' \in -1..StackCells /\ StackCells \in Int
    BY <2>1, VirtualMachineAssumption DEF StackInv
  <2>. QED BY <2>2 DEF StackInv
<1>1. CASE \/ UNCHANGED vars \/ DoMov \/ DoFree \/ DoMemFree \/ DoCpuid
  <2>1. reg' = reg
    BY <1>1 DEF vars, machine, DoMov, MovToMemory, DoFree, Free, DoMemFree, MemFree, DoCpuid, Cpuid,
                Except, Crash, End
  <2>. QED BY <2>1, RegKept
<1>2. CASE DoPush
  <2>1. reg' = reg \/ reg' = SetSp(reg)
    BY <1>2 DEF DoPush, Push, Except, Crash, End, machine
  <2>. QED BY <1>0, <2>1, RegKept, SpWritten
<1>3. CASE DoPop \/ DoSystem
  <2>1. reg' = reg \/ reg' = SetSp(reg)
    BY <1>3 DEF DoPop, Pop, DoSystem, System, StackPop, Except, Crash, End, machine
  <2>. QED BY <1>0, <2>1, RegKept, SpWritten
<1>4. CASE DoMath
  BY <1>4, MathRegisters DEF DoMath
<1>5. CASE DoMovReg \/ DoInc \/ DoDec
  <2>1. reg' = reg \/ \E r, v : SetRegisterByName(r, v)
    BY <1>5 DEF DoMovReg, DoInc, Inc, DoDec, Dec, Crash, End, machine
  <2>. QED BY <2>1, NothingByName, RegKept
<1>6. CASE DoMalloc
  <2>1. PICK i \in Is("malloc", 1), p \in Addresses : Malloc(i.args[1].n, p)
    BY <1>6 DEF DoMalloc
  <2>2. p \in Nat
    BY WordType, VirtualMachineAssumption
  <2>3. reg' = reg \/ Return(p)
    BY <2>1 DEF Malloc, Except, Crash, End, machine
  <2>. QED BY <1>0, <2>2, <2>3, RegKept, AddressReturned
<1>7. CASE DoCalloc
  <2>1. PICK c, s : Calloc(c, s)
    BY <1>7 DEF DoCalloc
  <2>2. reg' = reg \/ Return(mp)
    BY <2>1 DEF Calloc, Except, Crash, End, machine
  <2>. QED BY <1>0, <2>2, RegKept, AddressReturned
<1>8. CASE DoSizeOf
  BY <1>8, SizeWritten DEF DoSizeOf
<1>. QED BY <1>1, <1>2, <1>3, <1>4, <1>5, <1>6, <1>7, <1>8 DEF Next

LEMMA RegistersFollow == ASSUME RegInv PROVE RegistersCoherent
<1>1. DOMAIN reg = {"rax", "rdx", "rsp"}
  BY DEF RegInv
<1>. QED BY <1>1 DEF RegInv, IsRegister, RegistersCoherent

\* After any program the narrow names of a register are the low bits of the wide ones,
\* for every size of a byte: what a setter leaves of the value above its mask never
\* reaches a narrower name.
THEOREM RegistersAgree == Spec => []RegistersCoherent
<1>1. Init => RegInv /\ StackInv
  BY RegInit, StackInit
<1>2. (RegInv /\ StackInv) /\ [Next]_vars => (RegInv /\ StackInv)'
  BY RegStep, StackStepInv
<1>3. RegInv => RegistersCoherent
  BY RegistersFollow
<1>. QED BY <1>1, <1>2, <1>3, PTL DEF Spec


--------------------------------------------------------------------------------
\* The list of the heap: the blocks a program holds lie in it, each address once, each
\* block in one piece and closed by a zero.
Blocks == [p : Nat \ {0}, n : Nat \ {0}]

Placed(l, b, j) ==
  /\ j + b.n <= Len(l) /\ l[j + b.n] = 0
  /\ \A e \in 0..(b.n - 1) : l[j + e] = b.p + e

AddressesOnce(l) == \A j, k \in 1..Len(l) : l[j] = l[k] /\ l[j] # 0 => j = k
Apart(bs) == \A i, k \in 1..Len(bs) : i # k => Extent(bs[i]) \cap Extent(bs[k]) = {}
AllPlaced(l, bs) == \A i \in 1..Len(bs) : \E j \in 1..Len(l) : Placed(l, bs[i], j)
AllHeld(l, bs) == \A j \in 1..Len(l) : l[j] # 0 => \E i \in 1..Len(bs) : l[j] \in Extent(bs[i])
Used(l) == Range(l) \ {0}

HeapOK(l, used, bs) ==
  /\ l \in Seq(Nat) /\ bs \in Seq(Blocks)
  /\ AddressesOnce(l) /\ Apart(bs) /\ AllPlaced(l, bs) /\ AllHeld(l, bs)
  /\ used = Cardinality(Used(l)) + Len(bs)

HeapInv == clean => HeapOK(heapList, heapUsed, live)

LEMMA MinIs ==
  ASSUME NEW S \in SUBSET Int, NEW m \in S, \A y \in S : m <= y
  PROVE  Min(S) = m
<1>1. \A x \in S : (\A y \in S : x <= y) => x = m
  <2>. TAKE x \in S
  <2>. HAVE \A y \in S : x <= y
  <2>1. x \in Int /\ m \in Int /\ x <= m /\ m <= x
    OBVIOUS
  <2>. QED BY <2>1
<1>. QED BY <1>1 DEF Min

LEMMA Concatenated ==
  ASSUME NEW S, NEW s \in Seq(S), NEW t \in Seq(S)
  PROVE  /\ s \o t \in Seq(S) /\ Len(s \o t) = Len(s) + Len(t)
         /\ \A x \in 1..Len(s) : (s \o t)[x] = s[x]
         /\ \A x \in 1..Len(t) : (s \o t)[Len(s) + x] = t[x]
<1>1. s \o t \in Seq(S) /\ Len(s \o t) = Len(s) + Len(t) /\ Len(s) \in Nat /\ Len(t) \in Nat
  OBVIOUS
<1>2. \A k \in 1..(Len(s) + Len(t)) : (s \o t)[k] = IF k <= Len(s) THEN s[k] ELSE t[k - Len(s)]
  BY <1>1
<1>3. PICK a \in Nat, b \in Nat : a = Len(s) /\ b = Len(t)
  BY <1>1
<1>4. ASSUME NEW x \in 1..a PROVE (s \o t)[x] = s[x]
  <2>1. x \in 1..(a + b) /\ x <= a
    OBVIOUS
  <2>. QED BY <1>2, <1>3, <2>1
<1>5. ASSUME NEW x \in 1..b PROVE (s \o t)[a + x] = t[x]
  <2>1. a + x \in 1..(a + b) /\ ~(a + x <= a) /\ (a + x) - a = x
    OBVIOUS
  <2>. QED BY <1>2, <1>3, <2>1
<1>. QED BY <1>1, <1>3, <1>4, <1>5

CutsOf(S) ==
  \A l \in Seq(S) : \A a \in 1..Len(l) : \A d \in Nat :
    a + d <= Len(l) + 1 =>
    \E c \in Seq(S) :
      /\ c = SubSeq(l, 1, a - 1) \o SubSeq(l, a + d, Len(l)) /\ Len(c) = Len(l) - d
      /\ \A x \in 1..(Len(l) - d) : (x < a => c[x] = l[x]) /\ (~(x < a) => c[x] = l[x + d])

(* What is left of a list when d of its entries are taken out.              *)
LEMMA CutOut == ASSUME NEW S PROVE CutsOf(S)
<1>. SUFFICES ASSUME NEW l \in Seq(S), NEW a \in 1..Len(l), NEW d \in Nat, a + d <= Len(l) + 1
     PROVE  \E c \in Seq(S) :
              /\ c = SubSeq(l, 1, a - 1) \o SubSeq(l, a + d, Len(l)) /\ Len(c) = Len(l) - d
              /\ \A x \in 1..(Len(l) - d) : (x < a => c[x] = l[x]) /\ (~(x < a) => c[x] = l[x + d])
  BY Zenon DEF CutsOf
<1>0. PICK L \in Nat : L = Len(l) /\ a \in 1..L /\ a + d <= L + 1
  OBVIOUS
<1>1. PICK s \in Seq(S) : /\ s = SubSeq(l, 1, a - 1) /\ Len(s) = a - 1
                          /\ \A x \in 1..(a - 1) : s[x] = l[x]
  <2>1. a \in Nat /\ Len(l) \in Nat /\ 1 <= a /\ a <= Len(l)
    OBVIOUS
  <2>2. /\ SubSeq(l, 1, a - 1) \in Seq(S) /\ Len(SubSeq(l, 1, a - 1)) = a - 1
        /\ \A x \in 1..(a - 1) : SubSeq(l, 1, a - 1)[x] = l[x]
    BY <2>1
  <2>. QED BY <2>2
<1>2. PICK b \in Nat : b = a + d /\ 1 <= b /\ b <= L + 1
  BY <1>0
<1>3. PICK t \in Seq(S) : /\ t = SubSeq(l, b, Len(l)) /\ Len(t) = L - b + 1
                          /\ \A x \in 1..(L - b + 1) : t[x] = l[x + b - 1]
  <2>1. b \in Nat /\ Len(l) \in Nat /\ 1 <= b /\ b <= Len(l) + 1
    BY <1>0, <1>2
  <2>2. /\ SubSeq(l, b, Len(l)) \in Seq(S) /\ Len(SubSeq(l, b, Len(l))) = Len(l) - b + 1
        /\ \A x \in 1..(Len(l) - b + 1) : SubSeq(l, b, Len(l))[x] = l[x + b - 1]
    BY <2>1
  <2>. QED BY <1>0, <2>2, Zenon
<1>4. PICK c \in Seq(S) : /\ c = s \o t /\ Len(c) = Len(s) + Len(t)
                          /\ \A x \in 1..Len(s) : c[x] = s[x]
                          /\ \A x \in 1..Len(t) : c[Len(s) + x] = t[x]
  <2>1. /\ s \o t \in Seq(S) /\ Len(s \o t) = Len(s) + Len(t)
        /\ \A x \in 1..Len(s) : (s \o t)[x] = s[x]
        /\ \A x \in 1..Len(t) : (s \o t)[Len(s) + x] = t[x]
    BY Concatenated
  <2>. QED BY <2>1, Zenon
<1>5. c = SubSeq(l, 1, a - 1) \o SubSeq(l, a + d, Len(l))
  BY <1>1, <1>2, <1>3, <1>4, Zenon
<1>6. Len(s) = a - 1 /\ Len(t) = L - b + 1 /\ Len(c) = L - d
  <2>1. Len(s) = a - 1 /\ Len(t) = L - b + 1 /\ Len(c) = Len(s) + Len(t)
    BY <1>1, <1>3, <1>4, Zenon
  <2>2. (a - 1) + (L - b + 1) = L - d
    BY <1>2
  <2>. QED BY <2>1, <2>2, Zenon
<1>7. ASSUME NEW x \in 1..(L - d), x < a PROVE c[x] = l[x]
  <2>1. x \in 1..(a - 1)
    BY <1>7
  <2>. QED BY <1>1, <1>4, <1>6, <2>1, Zenon
<1>8. ASSUME NEW x \in 1..(L - d), ~(x < a) PROVE c[x] = l[x + d]
  <2>1. PICK y \in 1..(L - b + 1) : (a - 1) + y = x /\ y + b - 1 = x + d
    <3>1. x - (a - 1) \in 1..(L - b + 1) /\ (a - 1) + (x - (a - 1)) = x
          /\ (x - (a - 1)) + b - 1 = x + d
      BY <1>2, <1>8
    <3>. QED BY <3>1
  <2>2. c[(a - 1) + y] = t[y]
    BY <1>4, <1>6, <2>1, Zenon
  <2>3. t[y] = l[y + b - 1]
    BY <1>3, <2>1, Zenon
  <2>. QED BY <2>1, <2>2, <2>3, Zenon
<1>. QED BY <1>0, <1>5, <1>6, <1>7, <1>8, Zenon

(* The addresses of a block.                                                *)
LEMMA ExtentOf ==
  ASSUME NEW b \in Blocks
  PROVE  /\ b.p \in Nat /\ b.p > 0 /\ b.n \in Nat /\ b.n > 0
         /\ \A a : a \in Extent(b) <=> \E e \in 0..(b.n - 1) : a = b.p + e
         /\ Extent(b) \subseteq Nat \ {0} /\ b.p \in Extent(b)
         /\ IsFiniteSet(Extent(b)) /\ Cardinality(Extent(b)) = b.n
<1>1. b.p \in Nat /\ b.p > 0 /\ b.n \in Nat /\ b.n > 0
  BY DEF Blocks
<1>2. PICK p \in Nat, n \in Nat : p = b.p /\ n = b.n /\ p > 0 /\ n > 0
  BY <1>1
<1>3. Extent(b) = p..(p + n - 1)
  BY <1>2 DEF Extent
<1>4. ASSUME NEW a PROVE a \in p..(p + n - 1) <=> \E e \in 0..(n - 1) : a = p + e
  <2>1. ASSUME a \in p..(p + n - 1) PROVE \E e \in 0..(n - 1) : a = p + e
    <3>1. a - p \in 0..(n - 1) /\ a = p + (a - p)
      BY <2>1
    <3>. QED BY <3>1
  <2>2. ASSUME NEW e \in 0..(n - 1), a = p + e PROVE a \in p..(p + n - 1)
    BY <2>2
  <2>. QED BY <2>1, <2>2
<1>5. p \in Int /\ p + n - 1 \in Int /\ ~(p > p + n - 1) /\ (p + n - 1) - p + 1 = n
  BY <1>2
<1>6. IsFiniteSet(p..(p + n - 1)) /\ Cardinality(p..(p + n - 1)) = n
  BY <1>5, FS_Interval
<1>7. p..(p + n - 1) \subseteq Nat \ {0} /\ p \in p..(p + n - 1)
  BY <1>2
<1>. QED BY <1>1, <1>2, <1>3, <1>4, <1>6, <1>7

LEMMA UsedIsFinite == ASSUME NEW l \in Seq(Nat) PROVE IsFiniteSet(Used(l))
<1>. DEFINE D == 1..Len(l)
            f == [x \in D |-> l[x]]
<1>1. IsFiniteSet(D)
  <2>1. 1 \in Int /\ Len(l) \in Int
    OBVIOUS
  <2>. QED BY <2>1, FS_Interval
<1>2. Range(l) = {f[x] : x \in D}
  BY DEF Range
<1>3. f \in Surjection(D, Range(l))
  <2>. HIDE DEF f
  <2>1. f = [x \in D |-> f[x]]
    BY DEF f
  <2>. QED BY <1>2, <2>1 DEF Surjection
<1>4. IsFiniteSet(Range(l))
  BY <1>1, <1>3, FS_Surjection
<1>5. Used(l) \in SUBSET Range(l)
  BY DEF Used
<1>. QED BY <1>4, <1>5, FS_Subset

(* What a list becomes when a run of addresses and a zero are put at its end. *)
LEMMA ListGrown ==
  ASSUME NEW l \in Seq(Nat), NEW w \in Seq(Nat)
  PROVE  \E m \in Seq(Nat) :
           /\ m = (l \o w) \o <<0>> /\ Len(m) = Len(l) + Len(w) + 1
           /\ \A x \in 1..Len(l) : m[x] = l[x]
           /\ \A x \in 1..Len(w) : m[Len(l) + x] = w[x]
           /\ m[Len(l) + Len(w) + 1] = 0
<1>1. /\ l \o w \in Seq(Nat) /\ Len(l \o w) = Len(l) + Len(w)
      /\ \A x \in 1..Len(l) : (l \o w)[x] = l[x]
      /\ \A x \in 1..Len(w) : (l \o w)[Len(l) + x] = w[x]
  BY Concatenated
<1>2. PICK u \in Seq(Nat) : u = l \o w
  BY <1>1
<1>3. PICK L \in Nat, W \in Nat : L = Len(l) /\ W = Len(w)
  OBVIOUS
<1>4. /\ Len(u) = L + W /\ u \in Seq(Nat)
      /\ \A x \in 1..L : u[x] = l[x]
      /\ \A x \in 1..W : u[L + x] = w[x]
  BY <1>1, <1>2, <1>3, Zenon
<1>5. PICK z \in Seq(Nat) : z = <<0>> /\ Len(z) = 1 /\ z[1] = 0
  <2>1. <<0>> \in Seq(Nat) /\ Len(<<0>>) = 1 /\ <<0>>[1] = 0
    OBVIOUS
  <2>. QED BY <2>1, Zenon
<1>6. /\ u \o z \in Seq(Nat) /\ Len(u \o z) = Len(u) + Len(z)
      /\ \A x \in 1..Len(u) : (u \o z)[x] = u[x]
      /\ \A x \in 1..Len(z) : (u \o z)[Len(u) + x] = z[x]
  BY Concatenated
<1>7. PICK m \in Seq(Nat) : m = u \o z /\ m = (l \o w) \o <<0>>
  BY <1>2, <1>5, <1>6, Zenon
<1>8. 1 \in 1..1
  OBVIOUS
<1>9. m \in Seq(Nat) /\ Len(m) = L + W + 1 /\ m[L + W + 1] = 0
  BY <1>4, <1>5, <1>6, <1>7, <1>8, Zenon
<1>10. (\A x \in 1..L : x \in 1..(L + W)) /\ (\A x \in 1..W : L + x \in 1..(L + W))
  OBVIOUS
<1>11. \A x \in 1..L : m[x] = l[x]
  BY <1>4, <1>6, <1>7, <1>10, Zenon
<1>12. \A x \in 1..W : m[L + x] = w[x]
  BY <1>4, <1>6, <1>7, <1>10, Zenon
<1>. QED BY <1>3, <1>7, <1>9, <1>11, <1>12, Zenon

LEMMA UsedIs == ASSUME NEW l \in Seq(Nat) PROVE Used(l) = {l[x] : x \in 1..Len(l)} \ {0}
<1>1. DOMAIN l = 1..Len(l)
  OBVIOUS
<1>. QED BY <1>1, Zenon DEF Used, Range

LEMMA HeapGrown ==
  ASSUME NEW l, NEW used, NEW bs, HeapOK(l, used, bs), NEW b \in Blocks,
         \A i \in 1..Len(bs) : Extent(bs[i]) \cap Extent(b) = {},
         NEW m, m = l \o [i \in 1..b.n |-> b.p + i - 1] \o << 0 >>
  PROVE  HeapOK(m, used + b.n + 1, Append(bs, b))
<1>1. l \in Seq(Nat) /\ bs \in Seq(Blocks)
  BY DEF HeapOK
<1>2. PICK L \in Nat, K \in Nat : L = Len(l) /\ K = Len(bs)
  BY <1>1
<1>3. \A x \in 1..L : l[x] \in Nat
  BY <1>1, <1>2
<1>4. \A i \in 1..K : bs[i] \in Blocks
  BY <1>1, <1>2
<1>5. PICK p \in Nat, n \in Nat : p = b.p /\ n = b.n /\ p > 0 /\ n > 0
  BY ExtentOf
<1>5a. PICK w \in Seq(Nat) : /\ w = [i \in 1..n |-> p + i - 1] /\ Len(w) = n
                             /\ \A e \in 0..(n - 1) : e + 1 \in 1..n /\ w[e + 1] = p + e
  <2>. DEFINE v == [i \in 1..n |-> p + i - 1]
  <2>1. v \in Seq(Nat) /\ Len(v) = n
    <3>1. \A i \in 1..n : p + i - 1 \in Nat
      OBVIOUS
    <3>. QED BY <3>1
  <2>2. \A e \in 0..(n - 1) : e + 1 \in 1..n /\ v[e + 1] = p + e
    OBVIOUS
  <2>. QED BY <2>1, <2>2, Zenon
<1>5b. m = (l \o w) \o <<0>>
  BY <1>5, <1>5a, Zenon
<1>5c. PICK q \in Seq(Nat) : q = l
  BY <1>1
<1>5d. /\ m \in Seq(Nat) /\ Len(m) = Len(q) + Len(w) + 1
       /\ \A x \in 1..Len(q) : m[x] = q[x]
       /\ \A x \in 1..Len(w) : m[Len(q) + x] = w[x]
       /\ m[Len(q) + Len(w) + 1] = 0
  <2>1. m = (q \o w) \o <<0>>
    BY <1>5b, <1>5c, Zenon
  <2>2. q \in Seq(Nat) /\ w \in Seq(Nat)
    BY <1>5a, <1>5c
  <2>3. \E c \in Seq(Nat) :
           /\ c = (q \o w) \o <<0>> /\ Len(c) = Len(q) + Len(w) + 1
           /\ \A x \in 1..Len(q) : c[x] = q[x]
           /\ \A x \in 1..Len(w) : c[Len(q) + x] = w[x]
           /\ c[Len(q) + Len(w) + 1] = 0
    BY <2>2, ListGrown, Zenon
  <2>. QED BY <2>1, <2>3, Zenon
<1>6. /\ m \in Seq(Nat) /\ Len(m) = L + n + 1
      /\ \A x \in 1..L : m[x] = l[x]
      /\ \A e \in 0..(n - 1) : m[L + 1 + e] = p + e
      /\ m[L + 1 + n] = 0
  <2>1. L + n + 1 = L + 1 + n
    OBVIOUS
  <2>2. ASSUME NEW e \in 0..(n - 1) PROVE m[L + 1 + e] = p + e
    <3>1. L + (e + 1) = L + 1 + e
      OBVIOUS
    <3>2. m[L + (e + 1)] = w[e + 1]
      BY <1>2, <1>5a, <1>5c, <1>5d, Zenon
    <3>. QED BY <1>5a, <3>1, <3>2, Zenon
  <2>3. m[L + n + 1] = 0
    BY <1>2, <1>5a, <1>5c, <1>5d, Zenon
  <2>. QED BY <1>2, <1>5a, <1>5c, <1>5d, <2>1, <2>2, <2>3, Zenon
<1>7. PICK M \in Nat : M = Len(m) /\ M = L + n + 1
  <2>1. Len(m) = L + n + 1
    BY <1>2, <1>6, Zenon
  <2>2. L + n + 1 \in Nat
    OBVIOUS
  <2>. QED BY <2>1, <2>2, Zenon
<1>7a. /\ M = L + n + 1 /\ L + 1 \in 1..M /\ L + 1 + n \in 1..M /\ L + 1 + n <= M
       /\ (\A x \in 1..L : x \in 1..M)
       /\ (\A e \in 0..(n - 1) : L + 1 + e \in 1..M)
       /\ (\A x \in Nat : x <= L => x <= M)
  <2>1. M = L + n + 1
    BY <1>7, Zenon
  <2>. QED BY <2>1
<1>8. \A x \in 1..L : m[x] = l[x]
  BY <1>2, <1>6, Zenon
<1>9. \A e \in 0..(n - 1) : m[L + 1 + e] = p + e
  BY <1>2, <1>6, Zenon
<1>10. m[L + 1 + n] = 0
  BY <1>2, <1>6, Zenon
<1>11. PICK cs \in Seq(Blocks) : /\ cs = Append(bs, b) /\ Len(cs) = K + 1 /\ cs[K + 1] = b
                                 /\ \A i \in 1..K : cs[i] = bs[i]
  <2>1. /\ Append(bs, b) \in Seq(Blocks) /\ Len(Append(bs, b)) = K + 1 /\ Append(bs, b)[K + 1] = b
        /\ \A i \in 1..K : Append(bs, b)[i] = bs[i]
    BY <1>1, <1>2
  <2>. QED BY <2>1
<1>12. \A x \in 1..M : x \in 1..L \/ (\E e \in 0..(n - 1) : x = L + 1 + e) \/ x = L + 1 + n
  <2>. TAKE x \in 1..M
  <2>1. CASE x > L /\ x < L + n + 1
    <3>1. x - (L + 1) \in 0..(n - 1) /\ x = L + 1 + (x - (L + 1))
      BY <2>1
    <3>. QED BY <3>1
  <2>2. x <= L \/ (x > L /\ x < L + n + 1) \/ x = L + 1 + n
    <3>1. M = L + n + 1
      BY <1>7, Zenon
    <3>. QED BY <3>1
  <2>3. x <= L => x \in 1..L
    OBVIOUS
  <2>. QED BY <2>1, <2>2, <2>3
<1>13. Extent(b) \subseteq Nat \ {0}
  BY ExtentOf
<1>14. \A a : a \in Extent(b) <=> \E e \in 0..(n - 1) : a = p + e
  <2>1. \A a : a \in Extent(b) <=> \E e \in 0..(b.n - 1) : a = b.p + e
    BY ExtentOf, Zenon
  <2>. QED BY <1>5, <2>1, Zenon
<1>15. AddressesOnce(l) /\ Apart(bs) /\ AllPlaced(l, bs) /\ AllHeld(l, bs)
  BY DEF HeapOK
<1>16. \A x \in 1..L : l[x] \notin Extent(b)
  <2>. TAKE x \in 1..L
  <2>1. CASE l[x] = 0
    BY <1>13, <2>1
  <2>2. CASE l[x] # 0
    <3>1. PICK i \in 1..K : l[x] \in Extent(bs[i])
      BY <1>2, <1>15, <2>2, Zenon DEF AllHeld
    <3>2. Extent(bs[i]) \cap Extent(b) = {}
      BY <1>2, Zenon
    <3>. QED BY <3>1, <3>2
  <2>. QED BY <2>1, <2>2
<1>17. ASSUME NEW x \in 1..M, m[x] # 0
       PROVE  \/ x \in 1..L /\ m[x] = l[x] /\ m[x] \notin Extent(b)
              \/ \E e \in 0..(n - 1) : x = L + 1 + e /\ m[x] = p + e /\ m[x] \in Extent(b)
  BY <1>8, <1>9, <1>10, <1>12, <1>14, <1>16, <1>17, Zenon
<1>18. AddressesOnce(m)
  <2>. SUFFICES ASSUME NEW j \in 1..M, NEW k \in 1..M, m[j] = m[k], m[j] # 0
                PROVE  j = k
    BY <1>7, Zenon DEF AddressesOnce
  <2>2. CASE m[j] \in Extent(b)
    <3>1. PICK e \in 0..(n - 1) : j = L + 1 + e /\ m[j] = p + e
      BY <1>17, <2>2, Zenon
    <3>2. PICK d \in 0..(n - 1) : k = L + 1 + d /\ m[k] = p + d
      BY <1>17, <2>2, Zenon
    <3>3. e = d
      <4>1. p + e = p + d
        BY <3>1, <3>2, Zenon
      <4>. QED BY <4>1
    <3>. QED BY <3>1, <3>2, <3>3, Zenon
  <2>3. CASE m[j] \notin Extent(b)
    <3>1. j \in 1..L /\ m[j] = l[j] /\ k \in 1..L /\ m[k] = l[k]
      BY <1>17, <2>3, Zenon
    <3>. QED BY <1>2, <1>15, <3>1, Zenon DEF AddressesOnce
  <2>. QED BY <2>2, <2>3
<1>19. \A i \in 1..(K + 1) : i \in 1..K \/ i = K + 1
  OBVIOUS
<1>20. K + 1 \in 1..(K + 1) /\ \A i \in 1..K : i \in 1..(K + 1)
  OBVIOUS
<1>21. Apart(cs)
  <2>. SUFFICES ASSUME NEW i \in 1..(K + 1), NEW k \in 1..(K + 1), i # k
                PROVE  Extent(cs[i]) \cap Extent(cs[k]) = {}
    BY <1>11, Zenon DEF Apart
  <2>2. CASE i \in 1..K /\ k \in 1..K
    BY <1>2, <1>11, <1>15, <2>2, Zenon DEF Apart
  <2>3. CASE i \in 1..K /\ k = K + 1
    BY <1>2, <1>11, <2>3
  <2>4. CASE i = K + 1 /\ k \in 1..K
    BY <1>2, <1>11, <2>4
  <2>. QED BY <1>19, <2>2, <2>3, <2>4
<1>22. AllPlaced(m, cs)
  <2>. SUFFICES ASSUME NEW i \in 1..(K + 1)
                PROVE  \E j \in 1..M : Placed(m, cs[i], j)
    BY <1>7, <1>11, Zenon DEF AllPlaced
  <2>1. CASE i \in 1..K
    <3>1. PICK j \in 1..L : Placed(l, bs[i], j)
      BY <1>2, <1>15, <2>1, Zenon DEF AllPlaced
    <3>2. PICK c \in Nat : c = bs[i].n
      BY <1>4, <2>1, ExtentOf
    <3>3. j + c <= L /\ l[j + c] = 0 /\ \A e \in 0..(c - 1) : l[j + e] = bs[i].p + e
      BY <1>2, <3>1, <3>2, Zenon DEF Placed
    <3>3a. j + c <= L
      BY <3>3, Zenon
    <3>4. j + c \in 1..L /\ (\A e \in 0..(c - 1) : j + e \in 1..L) /\ j + c <= M
      <4>1. j + c \in 1..L /\ (\A e \in 0..(c - 1) : j + e \in 1..L) /\ j + c \in Nat
        BY <3>3a
      <4>. QED BY <1>7a, <3>3a, <4>1, Zenon
    <3>5. m[j + c] = 0 /\ \A e \in 0..(c - 1) : m[j + e] = bs[i].p + e
      BY <1>8, <3>3, <3>4, Zenon
    <3>6. j \in 1..M
      BY <1>7a, Zenon
    <3>7. Placed(m, bs[i], j)
      BY <1>7, <3>2, <3>4, <3>5, Zenon DEF Placed
    <3>. QED BY <1>11, <2>1, <3>6, <3>7, Zenon
  <2>2. CASE i = K + 1
    <3>1. L + 1 + n <= M /\ L + 1 \in 1..M
      BY <1>7a, Zenon
    <3>2. Placed(m, b, L + 1)
      BY <1>5, <1>7, <1>9, <1>10, <3>1, Zenon DEF Placed
    <3>. QED BY <1>11, <2>2, <3>1, <3>2, Zenon
  <2>. QED BY <1>19, <2>1, <2>2
<1>23. AllHeld(m, cs)
  <2>. SUFFICES ASSUME NEW x \in 1..M, m[x] # 0
                PROVE  \E i \in 1..(K + 1) : m[x] \in Extent(cs[i])
    BY <1>7, <1>11, Zenon DEF AllHeld
  <2>1. CASE x \in 1..L /\ m[x] = l[x]
    <3>1. PICK i \in 1..K : l[x] \in Extent(bs[i])
      BY <1>2, <1>15, <2>1, Zenon DEF AllHeld
    <3>. QED BY <1>11, <1>20, <2>1, <3>1, Zenon
  <2>2. CASE m[x] \in Extent(b)
    BY <1>11, <1>20, <2>2, Zenon
  <2>. QED BY <1>17, <2>1, <2>2, Zenon
<1>24. used + b.n + 1 = Cardinality(Used(m)) + Len(cs)
  <2>0. Used(m) = {m[x] : x \in 1..M} \ {0} /\ Used(l) = {l[x] : x \in 1..L} \ {0}
    BY <1>1, <1>2, <1>6, <1>7, UsedIs
  <2>1. Used(m) = Used(l) \cup Extent(b)
    <3>1. ASSUME NEW x \in 1..M, m[x] # 0 PROVE m[x] \in Used(l) \cup Extent(b)
      <4>1. CASE x \in 1..L /\ m[x] = l[x]
        BY <2>0, <3>1, <4>1, Zenon
      <4>2. CASE m[x] \in Extent(b)
        BY <4>2
      <4>. QED BY <1>17, <3>1, <4>1, <4>2, Zenon
    <3>2. ASSUME NEW x \in 1..L, l[x] # 0 PROVE l[x] \in Used(m)
      <4>1. x \in 1..M
        BY <1>7a, Zenon
      <4>2. m[x] = l[x]
        BY <1>8
      <4>. QED BY <2>0, <3>2, <4>1, <4>2, Zenon
    <3>3. ASSUME NEW e \in 0..(n - 1) PROVE p + e \in Used(m)
      <4>1. L + 1 + e \in 1..M
        BY <1>7a, Zenon
      <4>2. p + e # 0
        BY <1>5
      <4>. QED BY <1>9, <2>0, <4>1, <4>2, Zenon
    <3>4. Extent(b) \subseteq Used(m)
      BY <1>14, <3>3, Zenon
    <3>. QED BY <2>0, <3>1, <3>2, <3>4, Zenon
  <2>2. Used(l) \cap Extent(b) = {}
    BY <1>16, <2>0, Zenon
  <2>3. IsFiniteSet(Used(l)) /\ IsFiniteSet(Extent(b)) /\ Cardinality(Extent(b)) = n
    BY <1>1, <1>5, UsedIsFinite, ExtentOf
  <2>4. Cardinality(Used(l) \cup Extent(b)) = Cardinality(Used(l)) + n
    <3>1. Cardinality(Used(l) \cup Extent(b))
          = Cardinality(Used(l)) + Cardinality(Extent(b)) - Cardinality(Used(l) \cap Extent(b))
      BY <2>3, FS_Union
    <3>2. Cardinality(Used(l) \cap Extent(b)) = 0
      BY <2>2, FS_EmptySet
    <3>3. Cardinality(Used(l)) \in Nat
      BY <2>3, FS_CardinalityType
    <3>. QED BY <2>3, <3>1, <3>2, <3>3
  <2>5. PICK c \in Nat : c = Cardinality(Used(l))
    BY <2>3, FS_CardinalityType
  <2>6. used = c + K
    BY <1>2, <2>5 DEF HeapOK
  <2>7. Cardinality(Used(m)) = c + n /\ Len(cs) = K + 1
    BY <1>11, <2>1, <2>4, <2>5, Zenon
  <2>8. (c + K) + n + 1 = (c + n) + (K + 1)
    OBVIOUS
  <2>. QED BY <1>5, <2>6, <2>7, <2>8, Zenon
<1>. QED BY <1>6, <1>11, <1>18, <1>21, <1>22, <1>23, <1>24, Zenon DEF HeapOK

(* Where the search of free and of the property finds a block that is held. *)
LEMMA FoundAt ==
  ASSUME NEW l, NEW used, NEW bs, HeapOK(l, used, bs), NEW k \in 1..Len(bs)
  PROVE  \E j \in 1..Len(l) : /\ IndexOf(l, bs[k].p) = j /\ Placed(l, bs[k], j)
                              /\ RunEnd(l, j) = j + bs[k].n
<1>1. l \in Seq(Nat) /\ bs \in Seq(Blocks) /\ AddressesOnce(l) /\ AllPlaced(l, bs)
  BY DEF HeapOK
<1>2. bs[k] \in Blocks
  BY <1>1
<1>3. PICK p \in Nat, n \in Nat : p = bs[k].p /\ n = bs[k].n /\ p > 0 /\ n > 0
  BY <1>2, ExtentOf
<1>4. PICK j \in 1..Len(l) : Placed(l, bs[k], j)
  BY <1>1 DEF AllPlaced
<1>5. PICK L \in Nat : L = Len(l) /\ j \in 1..L
  BY <1>1
<1>6. j + n <= L /\ l[j + n] = 0 /\ \A e \in 0..(n - 1) : l[j + e] = p + e
  BY <1>3, <1>4, <1>5, Zenon DEF Placed
<1>7. DOMAIN l = 1..L
  BY <1>1, <1>5
<1>8. IndexOf(l, p) = j
  <2>. DEFINE S == {i \in DOMAIN l : l[i] = p}
  <2>1. l[j] = p /\ p # 0
    <3>1. 0 \in 0..(n - 1) /\ j + 0 = j /\ p + 0 = p /\ p # 0
      BY <1>3
    <3>. QED BY <1>6, <3>1, Zenon
  <2>2. S \in SUBSET Int /\ j \in S
    <3>1. \A i \in 1..L : i \in Int
      OBVIOUS
    <3>. QED BY <1>5, <1>7, <2>1, <3>1, Zenon
  <2>3. \A i \in S : i = j
    BY <1>1, <1>5, <1>7, <2>1, Zenon DEF AddressesOnce
  <2>4. \A i \in S : j <= i
    <3>1. j <= j
      OBVIOUS
    <3>. QED BY <2>3, <3>1, Zenon
  <2>5. IndexOf(l, p) = Min(S)
    BY DEF IndexOf
  <2>. HIDE DEF S
  <2>. QED BY <2>2, <2>4, <2>5, MinIs, Zenon
<1>9. RunEnd(l, j) = j + n
  <2>. DEFINE S == {i \in j..Len(l) : l[i] = 0}
  <2>1. j + n \in j..L
    <3>1. j + n <= L
      BY <1>6, Zenon
    <3>. QED BY <3>1
  <2>2. j + n \in S
    BY <1>5, <1>6, <2>1, Zenon
  <2>3. \A i \in j..L : i \in Int
    OBVIOUS
  <2>4. S \in SUBSET Int
    BY <1>5, <2>3, Zenon
  <2>5. ASSUME NEW i \in S PROVE j + n <= i
    <3>1. i \in j..L /\ l[i] = 0
      BY <1>5, Zenon
    <3>2. SUFFICES ASSUME i < j + n PROVE FALSE
      BY <3>1
    <3>3. i - j \in 0..(n - 1) /\ j + (i - j) = i
      BY <3>1, <3>2
    <3>4. l[i] = p + (i - j)
      BY <1>6, <3>3, Zenon
    <3>5. p + (i - j) # 0
      BY <1>3, <3>3
    <3>. QED BY <3>1, <3>4, <3>5, Zenon
  <2>6. RunEnd(l, j) = Min(S)
    BY DEF RunEnd
  <2>. HIDE DEF S
  <2>. QED BY <2>2, <2>4, <2>5, <2>6, MinIs, Zenon
<1>. QED BY <1>3, <1>4, <1>8, <1>9, Zenon

(* A block given back by its own address leaves, with its terminator, and no other does. *)
LEMMA HeapCut ==
  ASSUME NEW l, NEW used, NEW bs, HeapOK(l, used, bs), NEW k \in 1..Len(bs),
         NEW i, i = IndexOf(l, bs[k].p)
  PROVE  HeapOK(Splice(l, i), used - (RunEnd(l, i) - i) - 1, RemoveAt(bs, k))
<1>1. /\ l \in Seq(Nat) /\ bs \in Seq(Blocks)
      /\ AddressesOnce(l) /\ Apart(bs) /\ AllPlaced(l, bs) /\ AllHeld(l, bs)
      /\ used = Cardinality(Used(l)) + Len(bs)
  BY DEF HeapOK
<1>2. PICK L \in Nat, K \in Nat : L = Len(l) /\ K = Len(bs)
  BY <1>1
<1>3. k \in 1..K
  BY <1>2, Zenon
<1>4. bs[k] \in Blocks /\ \A y \in 1..K : bs[y] \in Blocks
  BY <1>1, <1>2
<1>5. PICK p \in Nat, n \in Nat : p = bs[k].p /\ n = bs[k].n /\ p > 0 /\ n > 0
  BY <1>4, ExtentOf
<1>6. PICK j \in 1..L : i = j /\ Placed(l, bs[k], j) /\ RunEnd(l, j) = j + n
  <2>1. \E j \in 1..Len(l) : /\ IndexOf(l, bs[k].p) = j /\ Placed(l, bs[k], j)
                             /\ RunEnd(l, j) = j + bs[k].n
    BY FoundAt
  <2>. QED BY <1>2, <1>5, <2>1, Zenon
<1>7. j + n <= L /\ l[j + n] = 0 /\ \A e \in 0..(n - 1) : l[j + e] = p + e
  BY <1>2, <1>5, <1>6, Zenon DEF Placed
<1>8. j + n <= L /\ j + n \in 1..(L + 1) /\ j + n \in j..(L + 1) /\ (j + n) - j = n /\ j \in 1..L
  <2>1. j + n <= L
    BY <1>7, Zenon
  <2>. QED BY <2>1
<1>9. PICK c \in Seq(Nat) :
        /\ c = Splice(l, i) /\ Len(c) = L - n
        /\ \A x \in 1..(L - n) : (x < j => c[x] = l[x]) /\ (~(x < j) => c[x] = l[x + n])
  <2>1. Splice(l, i) = SubSeq(l, 1, j - 1) \o SubSeq(l, j + n, Len(l))
    BY <1>6, Zenon DEF Splice
  <2>9. CutsOf(Nat)
    BY CutOut, Zenon
  <2>0. l \in Seq(Nat)
    BY <1>1, Zenon
  <2>2. j \in 1..Len(l) /\ j + n <= Len(l) + 1 /\ n \in Nat
    BY <1>2, <1>8
  <2>3. \E c \in Seq(Nat) :
          /\ c = SubSeq(l, 1, j - 1) \o SubSeq(l, j + n, Len(l)) /\ Len(c) = Len(l) - n
          /\ \A x \in 1..(Len(l) - n) : (x < j => c[x] = l[x]) /\ (~(x < j) => c[x] = l[x + n])
    BY <2>0, <2>2, <2>9, Zenon DEF CutsOf
  <2>. QED BY <1>2, <2>1, <2>3, Zenon
<1>10. PICK cs \in Seq(Blocks) :
         /\ cs = RemoveAt(bs, k) /\ Len(cs) = K - 1
         /\ \A x \in 1..(K - 1) : (x < k => cs[x] = bs[x]) /\ (~(x < k) => cs[x] = bs[x + 1])
  <2>1. RemoveAt(bs, k) = SubSeq(bs, 1, k - 1) \o SubSeq(bs, k + 1, Len(bs))
    BY DEF RemoveAt
  <2>9. CutsOf(Blocks)
    BY CutOut, Zenon
  <2>0. bs \in Seq(Blocks)
    BY <1>1, Zenon
  <2>2. k \in 1..Len(bs) /\ k + 1 <= Len(bs) + 1 /\ 1 \in Nat
    BY <1>2, <1>3
  <2>3. \E c1 \in Seq(Blocks) :
          /\ c1 = SubSeq(bs, 1, k - 1) \o SubSeq(bs, k + 1, Len(bs)) /\ Len(c1) = Len(bs) - 1
          /\ \A x \in 1..(Len(bs) - 1) : (x < k => c1[x] = bs[x]) /\ (~(x < k) => c1[x] = bs[x + 1])
    BY <2>0, <2>2, <2>9, Zenon DEF CutsOf
  <2>. QED BY <1>2, <2>1, <2>3, Zenon
<1>11. PICK M \in Int : M = L - n /\ M = Len(c)
  BY <1>9
<1>12. /\ M \in Nat /\ M + n = L /\ j + n <= L /\ j <= M /\ j >= 1 /\ j \in Nat
       /\ \A x \in 1..M : x < j => x \in 1..L
       /\ \A x \in 1..M : ~(x < j) => x + n \in 1..L
  <2>1. M = L - n /\ j + n <= L
    BY <1>8, <1>11, Zenon
  <2>. QED BY <2>1
<1>13. \A x \in 1..M : (x < j => c[x] = l[x]) /\ (~(x < j) => c[x] = l[x + n])
  BY <1>9, <1>11, Zenon
<1>14. ASSUME NEW x \in 1..M
       PROVE  \E y \in 1..L : /\ c[x] = l[y] /\ (y < j \/ y >= j + n)
                              /\ x = IF y < j THEN y ELSE y - n
  <2>1. CASE x < j
    <3>1. x \in 1..L /\ c[x] = l[x]
      BY <1>12, <1>13, <2>1, Zenon
    <3>. QED BY <2>1, <3>1, Zenon
  <2>2. CASE ~(x < j)
    <3>1. x + n \in 1..L /\ c[x] = l[x + n]
      BY <1>12, <1>13, <2>2, Zenon
    <3>2. x + n >= j + n /\ ~(x + n < j) /\ (x + n) - n = x
      BY <2>2
    <3>. QED BY <3>1, <3>2, Zenon
  <2>. QED BY <2>1, <2>2
<1>15. \A a : a \in Extent(bs[k]) <=> \E e \in 0..(n - 1) : a = p + e
  <2>1. \A a : a \in Extent(bs[k]) <=> \E e \in 0..(bs[k].n - 1) : a = bs[k].p + e
    BY <1>4, ExtentOf, Zenon
  <2>. QED BY <1>5, <2>1, Zenon
<1>16. ASSUME NEW y \in 1..L, y < j \/ y >= j + n, l[y] # 0
       PROVE  l[y] \notin Extent(bs[k])
  <2>1. SUFFICES ASSUME NEW e \in 0..(n - 1), l[y] = p + e PROVE FALSE
    BY <1>15, Zenon
  <2>2. l[j + e] = p + e
    BY <1>7, Zenon
  <2>3. j + e \in 1..L
    BY <1>12
  <2>4. y = j + e
    BY <1>1, <1>2, <1>16, <2>1, <2>2, <2>3, Zenon DEF AddressesOnce
  <2>5. j + e # y
    BY <1>16
  <2>. QED BY <2>4, <2>5, Zenon
<1>17. AddressesOnce(c)
  <2>. SUFFICES ASSUME NEW x \in 1..M, NEW w \in 1..M, c[x] = c[w], c[x] # 0
                PROVE  x = w
    BY <1>11, Zenon DEF AddressesOnce
  <2>1. PICK y \in 1..L : c[x] = l[y] /\ x = IF y < j THEN y ELSE y - n
    BY <1>14, Zenon
  <2>2. PICK z \in 1..L : c[w] = l[z] /\ w = IF z < j THEN z ELSE z - n
    BY <1>14, Zenon
  <2>3. y = z
    BY <1>1, <1>2, <2>1, <2>2, Zenon DEF AddressesOnce
  <2>. QED BY <2>1, <2>2, <2>3, Zenon
<1>18. \A x \in 1..(K - 1) : (x < k => cs[x] = bs[x]) /\ (~(x < k) => cs[x] = bs[x + 1])
  BY <1>10, Zenon
<1>19. ASSUME NEW x \in 1..(K - 1)
       PROVE  \E y \in 1..K : cs[x] = bs[y] /\ y # k /\ x = IF y < k THEN y ELSE y - 1
  <2>1. CASE x < k
    <3>1. x \in 1..K /\ x # k
      BY <2>1
    <3>2. cs[x] = bs[x]
      BY <1>18, <2>1, Zenon
    <3>. QED BY <2>1, <3>1, <3>2, Zenon
  <2>2. CASE ~(x < k)
    <3>1. x + 1 \in 1..K /\ x + 1 # k /\ ~(x + 1 < k) /\ (x + 1) - 1 = x
      BY <2>2
    <3>2. cs[x] = bs[x + 1]
      BY <1>18, <2>2, Zenon
    <3>. QED BY <3>1, <3>2, Zenon
  <2>. QED BY <2>1, <2>2
<1>20. ASSUME NEW y \in 1..K, y # k PROVE \E x \in 1..(K - 1) : cs[x] = bs[y]
  <2>1. CASE y < k
    <3>1. y \in 1..(K - 1)
      BY <1>3, <2>1
    <3>2. cs[y] = bs[y]
      BY <1>18, <2>1, <3>1, Zenon
    <3>. QED BY <3>1, <3>2
  <2>2. CASE ~(y < k)
    <3>1. PICK x \in 1..(K - 1) : x + 1 = y /\ ~(x < k)
      <4>1. y - 1 \in 1..(K - 1) /\ (y - 1) + 1 = y /\ ~(y - 1 < k)
        BY <1>20, <2>2
      <4>. QED BY <4>1
    <3>2. cs[x] = bs[x + 1]
      BY <1>18, <3>1, Zenon
    <3>. QED BY <3>1, <3>2, Zenon
  <2>. QED BY <2>1, <2>2
<1>21. Apart(cs)
  <2>. SUFFICES ASSUME NEW x \in 1..(K - 1), NEW w \in 1..(K - 1), x # w
                PROVE  Extent(cs[x]) \cap Extent(cs[w]) = {}
    BY <1>10, Zenon DEF Apart
  <2>1. PICK y \in 1..K : cs[x] = bs[y] /\ x = IF y < k THEN y ELSE y - 1
    BY <1>19, Zenon
  <2>2. PICK z \in 1..K : cs[w] = bs[z] /\ w = IF z < k THEN z ELSE z - 1
    BY <1>19, Zenon
  <2>3. y # z
    BY <2>1, <2>2, Zenon
  <2>. QED BY <1>1, <1>2, <2>1, <2>2, <2>3, Zenon DEF Apart
<1>22. AllPlaced(c, cs)
  <2>. SUFFICES ASSUME NEW x \in 1..(K - 1) PROVE \E w \in 1..M : Placed(c, cs[x], w)
    BY <1>10, <1>11, Zenon DEF AllPlaced
  <2>1. PICK y \in 1..K : cs[x] = bs[y] /\ y # k
    BY <1>19, Zenon
  <2>2. PICK h \in 1..L : Placed(l, bs[y], h)
    BY <1>1, <1>2, Zenon DEF AllPlaced
  <2>3. PICK q \in Nat, m \in Nat : q = bs[y].p /\ m = bs[y].n /\ q > 0 /\ m > 0
    <3>1. bs[y] \in Blocks
      BY <1>4, Zenon
    <3>. QED BY <3>1, ExtentOf
  <2>4. h + m <= L /\ l[h + m] = 0 /\ \A e \in 0..(m - 1) : l[h + e] = q + e
    BY <1>2, <2>2, <2>3, Zenon DEF Placed
  <2>5. h + m <= L
    BY <2>4, Zenon
  <2>6. \A e \in 0..(m - 1) : q + e \in Extent(bs[y])
    <3>1. \A a : a \in Extent(bs[y]) <=> \E e \in 0..(bs[y].n - 1) : a = bs[y].p + e
      BY <1>4, ExtentOf, Zenon
    <3>. QED BY <2>3, <3>1, Zenon
  <2>7. Extent(bs[y]) \cap Extent(bs[k]) = {}
    BY <1>1, <1>2, <1>3, <2>1, Zenon DEF Apart
  <2>8. 0 \in 0..(n - 1) /\ 0 \in 0..(m - 1) /\ j + 0 = j /\ p + 0 = p /\ h + 0 = h /\ q + 0 = q
    BY <1>5, <2>3
  <2>9. l[j] = p /\ p \in Extent(bs[k]) /\ l[h] = q /\ q \in Extent(bs[y])
    BY <1>7, <1>15, <2>4, <2>6, <2>8, Zenon
  <2>10. CASE h + m < j
    <3>1. /\ h \in 1..M /\ h + m <= M /\ h + m \in 1..M
          /\ \A e \in 0..(m - 1) : h + e \in 1..M /\ h + e < j
      BY <1>12, <2>10
    <3>2. c[h + m] = 0
      BY <1>13, <2>4, <2>10, <3>1, Zenon
    <3>3. \A e \in 0..(m - 1) : c[h + e] = q + e
      BY <1>13, <2>4, <3>1, Zenon
    <3>4. Placed(c, bs[y], h)
      BY <1>11, <2>3, <3>1, <3>2, <3>3, Zenon DEF Placed
    <3>. QED BY <2>1, <3>1, <3>4, Zenon
  <2>11. CASE h >= j + n
    <3>1. PICK w \in 1..M : w + n = h /\ w >= j
      <4>1. M + n = L
        BY <1>12, Zenon
      <4>2. h - n \in 1..M /\ (h - n) + n = h /\ h - n >= j
        BY <2>11, <4>1
      <4>. QED BY <4>2
    <3>2. /\ w + m <= M /\ w + m \in 1..M /\ ~(w + m < j) /\ (w + m) + n = h + m
          /\ \A e \in 0..(m - 1) : w + e \in 1..M /\ ~(w + e < j) /\ (w + e) + n = h + e
      <4>1. M + n = L
        BY <1>12, Zenon
      <4>. QED BY <2>5, <3>1, <4>1
    <3>3. c[w + m] = 0
      BY <1>13, <2>4, <3>2, Zenon
    <3>4. \A e \in 0..(m - 1) : c[w + e] = q + e
      BY <1>13, <2>4, <3>2, Zenon
    <3>5. Placed(c, bs[y], w)
      BY <1>11, <2>3, <3>2, <3>3, <3>4, Zenon DEF Placed
    <3>. QED BY <2>1, <3>5, Zenon
  <2>12. h + m # j
    <3>1. p # 0
      BY <1>5
    <3>. QED BY <2>4, <2>9, <3>1, Zenon
  <2>13. ASSUME h < j, j < h + m PROVE FALSE
    <3>1. j - h \in 0..(m - 1) /\ h + (j - h) = j
      BY <2>13
    <3>2. l[j] = q + (j - h) /\ q + (j - h) \in Extent(bs[y])
      BY <2>4, <2>6, <3>1, Zenon
    <3>. QED BY <2>7, <2>9, <3>2, Zenon
  <2>14. ASSUME h >= j, h < j + n PROVE FALSE
    <3>1. h - j \in 0..(n - 1) /\ j + (h - j) = h
      BY <2>14
    <3>2. l[h] = p + (h - j) /\ p + (h - j) \in Extent(bs[k])
      BY <1>7, <1>15, <3>1, Zenon
    <3>. QED BY <2>7, <2>9, <3>2, Zenon
  <2>15. h + m < j \/ h >= j + n \/ h + m = j \/ (h < j /\ j < h + m) \/ (h >= j /\ h < j + n)
    OBVIOUS
  <2>. QED BY <2>10, <2>11, <2>12, <2>13, <2>14, <2>15, Zenon
<1>23. AllHeld(c, cs)
  <2>. SUFFICES ASSUME NEW x \in 1..M, c[x] # 0
                PROVE  \E w \in 1..(K - 1) : c[x] \in Extent(cs[w])
    BY <1>10, <1>11, Zenon DEF AllHeld
  <2>1. PICK y \in 1..L : c[x] = l[y] /\ (y < j \/ y >= j + n)
    BY <1>14, Zenon
  <2>2. PICK z \in 1..K : l[y] \in Extent(bs[z])
    BY <1>1, <1>2, <2>1, Zenon DEF AllHeld
  <2>3. z # k
    BY <1>16, <2>1, <2>2, Zenon
  <2>4. PICK w \in 1..(K - 1) : cs[w] = bs[z]
    BY <1>20, <2>3, Zenon
  <2>. QED BY <2>1, <2>2, <2>4, Zenon
<1>24. used - n - 1 = Cardinality(Used(c)) + Len(cs)
  <2>1. Used(c) = {c[x] : x \in 1..M} \ {0} /\ Used(l) = {l[x] : x \in 1..L} \ {0}
    BY <1>1, <1>2, <1>11, UsedIs
  <2>2. ASSUME NEW x \in 1..M, c[x] # 0 PROVE c[x] \in Used(l) \ Extent(bs[k])
    <3>1. PICK y \in 1..L : c[x] = l[y] /\ (y < j \/ y >= j + n)
      BY <1>14, Zenon
    <3>2. l[y] \notin Extent(bs[k])
      BY <1>16, <2>2, <3>1, Zenon
    <3>. QED BY <2>1, <2>2, <3>1, <3>2, Zenon
  <2>3. ASSUME NEW y \in 1..L, l[y] # 0 PROVE l[y] \in Used(c) \cup Extent(bs[k])
    <3>1. CASE y < j
      <4>1. y \in 1..M
        BY <1>12, <3>1
      <4>2. c[y] = l[y]
        BY <1>13, <3>1, <4>1, Zenon
      <4>. QED BY <2>1, <2>3, <4>1, <4>2, Zenon
    <3>2. CASE y >= j + n
      <4>1. PICK w \in 1..M : w + n = y /\ ~(w < j)
        <5>1. M + n = L
          BY <1>12, Zenon
        <5>2. y - n \in 1..M /\ (y - n) + n = y /\ ~(y - n < j)
          BY <3>2, <5>1
        <5>. QED BY <5>2
      <4>2. c[w] = l[y]
        BY <1>13, <4>1, Zenon
      <4>. QED BY <2>1, <2>3, <4>2, Zenon
    <3>3. CASE y >= j /\ y < j + n
      <4>1. y - j \in 0..(n - 1) /\ j + (y - j) = y
        BY <3>3
      <4>2. l[y] = p + (y - j) /\ p + (y - j) \in Extent(bs[k])
        BY <1>7, <1>15, <4>1, Zenon
      <4>. QED BY <4>2
    <3>4. y < j \/ y >= j + n \/ (y >= j /\ y < j + n)
      OBVIOUS
    <3>. QED BY <3>1, <3>2, <3>3, <3>4
  <2>4. ASSUME NEW a \in Extent(bs[k]) PROVE a \in Used(l)
    <3>1. PICK e \in 0..(n - 1) : a = p + e
      BY <1>15, Zenon
    <3>2. j + e \in 1..L /\ p + e # 0
      BY <1>5, <1>12
    <3>. QED BY <1>7, <2>1, <3>1, <3>2, Zenon
  <2>5. Used(c) \cap Extent(bs[k]) = {} /\ Used(l) = Used(c) \cup Extent(bs[k])
    <3>1. \A a \in Used(c) : a \in Used(l) /\ a \notin Extent(bs[k])
      BY <2>1, <2>2, Zenon
    <3>2. \A a \in Used(l) : a \in Used(c) \cup Extent(bs[k])
      BY <2>1, <2>3, Zenon
    <3>. QED BY <2>4, <3>1, <3>2, Zenon
  <2>6. IsFiniteSet(Used(c)) /\ IsFiniteSet(Extent(bs[k])) /\ Cardinality(Extent(bs[k])) = n
    <3>1. IsFiniteSet(Used(c))
      BY UsedIsFinite
    <3>. QED BY <1>4, <1>5, <3>1, ExtentOf, Zenon
  <2>7. PICK r \in Nat : r = Cardinality(Used(c))
    BY <2>6, FS_CardinalityType
  <2>8. Cardinality(Used(l)) = r + n
    <3>1. Cardinality(Used(c) \cup Extent(bs[k]))
          = Cardinality(Used(c)) + Cardinality(Extent(bs[k])) - Cardinality(Used(c) \cap Extent(bs[k]))
      BY <2>6, FS_Union
    <3>2. Cardinality(Used(c) \cap Extent(bs[k])) = 0
      BY <2>5, FS_EmptySet
    <3>3. Cardinality(Used(l)) = r + n - 0
      BY <2>5, <2>6, <2>7, <3>1, <3>2, Zenon
    <3>. QED BY <3>3
  <2>9. used = (r + n) + K
    BY <1>1, <1>2, <2>8, Zenon
  <2>10. used - n - 1 = r + (K - 1)
    BY <2>9
  <2>. QED BY <1>10, <2>7, <2>10, Zenon
<1>25. used - (RunEnd(l, i) - i) - 1 = used - n - 1
  <2>1. RunEnd(l, i) = j + n /\ i = j
    BY <1>6, Zenon
  <2>2. RunEnd(l, i) - i = n
    BY <1>8, <2>1, Zenon
  <2>. QED BY <2>2, Zenon
<1>. QED BY <1>9, <1>10, <1>17, <1>21, <1>22, <1>23, <1>24, <1>25, Zenon DEF HeapOK

LEMMA HeapInit == Init => HeapInv
<1>. SUFFICES ASSUME Init PROVE HeapOK(<<>>, 0, <<>>)
  BY DEF Init, HeapInv
<1>1. <<>> \in Seq(Nat) /\ <<>> \in Seq(Blocks) /\ Len(<<>>) = 0 /\ \A x \in 1..0 : FALSE
  OBVIOUS
<1>2. Used(<<>>) = {} /\ 0 = 0 + 0
  <2>1. Used(<<>>) = {<<>>[x] : x \in 1..Len(<<>>)} \ {0}
    BY <1>1, UsedIs, Zenon
  <2>2. Used(<<>>) = {<<>>[x] : x \in 1..0} \ {0}
    BY <1>1, <2>1, Zenon
  <2>3. {<<>>[x] : x \in 1..0} = {}
    BY <1>1, Zenon
  <2>4. 0 = 0 + 0
    OBVIOUS
  <2>. QED BY <2>2, <2>3, <2>4, Zenon
<1>3. Cardinality(Used(<<>>)) = 0
  BY <1>2, FS_EmptySet
<1>4. AddressesOnce(<<>>) /\ Apart(<<>>) /\ AllPlaced(<<>>, <<>>) /\ AllHeld(<<>>, <<>>)
  BY <1>1, Zenon DEF AddressesOnce, Apart, AllPlaced, AllHeld
<1>. QED BY <1>1, <1>2, <1>3, <1>4, Zenon DEF HeapOK

LEMMA HeapKept ==
  ASSUME HeapInv, heapList' = heapList, heapUsed' = heapUsed, live' = live, clean' = clean
  PROVE  HeapInv'
<1>1. ASSUME clean' PROVE HeapOK(heapList', heapUsed', live')
  <2>1. HeapOK(heapList, heapUsed, live)
    BY <1>1 DEF HeapInv
  <2>. QED BY <2>1, Zenon
<1>. QED BY <1>1, Zenon DEF HeapInv

LEMMA HeapAllotted ==
  ASSUME HeapInv, NEW size, NEW p \in Nat, Malloc(size, p)
  PROVE  HeapInv'
<1>1. CASE heapList' = heapList /\ heapUsed' = heapUsed /\ live' = live /\ clean' = clean
  BY <1>1, HeapKept, Zenon
<1>2. ASSUME NEW n \in {2, 3},
             heapList' = heapList \o [i \in 1..n |-> p + i - 1] \o << 0 >>,
             heapUsed' = heapUsed + n + 1,
             live' = Append(live, [p |-> p, n |-> n]),
             clean' = (clean /\ p > 0 /\ \A i \in DOMAIN live :
                                           Extent(live[i]) \cap Extent([p |-> p, n |-> n]) = {}),
             clean'
      PROVE  HeapOK(heapList', heapUsed', live')
  <2>1. clean /\ p > 0 /\ \A i \in DOMAIN live :
                            Extent(live[i]) \cap Extent([p |-> p, n |-> n]) = {}
    BY <1>2, Zenon
  <2>2. PICK b \in Blocks : b = [p |-> p, n |-> n] /\ b.p = p /\ b.n = n
    <3>1. p > 0
      BY <2>1, Zenon
    <3>2. p \in Nat \ {0} /\ n \in Nat \ {0}
      BY <3>1
    <3>3. [p |-> p, n |-> n] \in Blocks
      BY <3>2 DEF Blocks
    <3>4. [p |-> p, n |-> n].p = p /\ [p |-> p, n |-> n].n = n
      OBVIOUS
    <3>. QED BY <3>3, <3>4, Zenon
  <2>3. HeapOK(heapList, heapUsed, live)
    BY <2>1, Zenon DEF HeapInv
  <2>4. DOMAIN live = 1..Len(live)
    BY <2>3 DEF HeapOK
  <2>5. \A i \in 1..Len(live) : Extent(live[i]) \cap Extent(b) = {}
    BY <2>1, <2>2, <2>4, Zenon
  <2>6. heapList' = heapList \o [i \in 1..b.n |-> b.p + i - 1] \o <<0>>
    BY <1>2, <2>2, Zenon
  <2>7. HeapOK(heapList', heapUsed + b.n + 1, Append(live, b))
    BY <2>3, <2>5, <2>6, HeapGrown, Zenon
  <2>. QED BY <1>2, <2>2, <2>7, Zenon
<1>3. CASE ~(heapList' = heapList /\ heapUsed' = heapUsed /\ live' = live /\ clean' = clean)
  <2>1. \E n \in {2, 3} :
          /\ heapList' = heapList \o [i \in 1..n |-> p + i - 1] \o <<0>>
          /\ heapUsed' = heapUsed + n + 1
          /\ live' = Append(live, [p |-> p, n |-> n])
          /\ clean' = (clean /\ p > 0 /\ \A i \in DOMAIN live :
                                           Extent(live[i]) \cap Extent([p |-> p, n |-> n]) = {})
    BY <1>3, Zenon DEF Malloc, Except, Crash, End, machine, ghosts
  <2>. QED BY <1>2, <2>1, Zenon DEF HeapInv
<1>. QED BY <1>1, <1>3

LEMMA HeapFreed == ASSUME HeapInv, NEW x, Free(x) PROVE HeapInv'
<1>1. CASE heapList' = heapList /\ heapUsed' = heapUsed /\ live' = live /\ clean' = clean
  BY <1>1, HeapKept, Zenon
<1>2. CASE ~(heapList' = heapList /\ heapUsed' = heapUsed /\ live' = live /\ clean' = clean)
  <2>. DEFINE own == {k \in DOMAIN live : live[k].p = Value(x)}
              i == IndexOf(heapList, Value(x))
  <2>1. /\ heapList' = Splice(heapList, i)
        /\ heapUsed' = heapUsed - (RunEnd(heapList, i) - i) - 1
        /\ clean' = (clean /\ own # {})
        /\ live' = IF own = {} THEN live ELSE RemoveAt(live, Min(own))
    BY <1>2, Zenon DEF Free, Except, End, machine, ghosts
  <2>2. SUFFICES ASSUME clean' PROVE HeapOK(heapList', heapUsed', live')
    BY Zenon DEF HeapInv
  <2>3. clean /\ own # {} /\ live' = RemoveAt(live, Min(own))
    BY <2>1, <2>2, Zenon
  <2>4. HeapOK(heapList, heapUsed, live)
    BY <2>3, Zenon DEF HeapInv
  <2>5. live \in Seq(Blocks) /\ DOMAIN live = 1..Len(live) /\ Apart(live)
    BY <2>4 DEF HeapOK
  <2>6. PICK k \in 1..Len(live) : k \in own /\ live[k].p = Value(x)
    BY <2>3, <2>5, Zenon
  <2>7. \A y \in own : y = k
    <3>1. TAKE y \in own
    <3>2. y \in 1..Len(live) /\ live[y].p = live[k].p
      BY <2>5, <2>6, Zenon
    <3>3. live[y] \in Blocks /\ live[k] \in Blocks
      BY <2>5, <3>2
    <3>4. live[y].p \in Extent(live[y]) /\ live[k].p \in Extent(live[k])
      BY <3>3, ExtentOf, Zenon
    <3>. QED BY <2>5, <3>2, <3>4, Zenon DEF Apart
  <2>8. Min(own) = k
    <3>1. k \in Int /\ k <= k
      OBVIOUS
    <3>2. own \in SUBSET Int /\ \A y \in own : k <= y
      BY <2>7, <3>1, Zenon
    <3>. HIDE DEF own
    <3>. QED BY <2>6, <3>2, MinIs, Zenon
  <2>9. i = IndexOf(heapList, live[k].p)
    BY <2>6, Zenon
  <2>. HIDE DEF i, own
  <2>10. HeapOK(Splice(heapList, i), heapUsed - (RunEnd(heapList, i) - i) - 1, RemoveAt(live, k))
    BY <2>4, <2>9, HeapCut, Zenon
  <2>. QED BY <2>1, <2>3, <2>8, <2>10, Zenon
<1>. QED BY <1>1, <1>2

LEMMA HeapStep == ASSUME HeapInv, [Next]_vars PROVE HeapInv'
<1>1. CASE DoMalloc
  <2>1. PICK i \in Is("malloc", 1), p \in Addresses : Malloc(i.args[1].n, p)
    BY <1>1 DEF DoMalloc
  <2>2. p \in Nat
    BY WordType, VirtualMachineAssumption
  <2>. QED BY <2>1, <2>2, HeapAllotted, Zenon
<1>2. CASE DoFree
  BY <1>2, HeapFreed, Zenon DEF DoFree
<1>3. CASE UNCHANGED vars
  BY <1>3, HeapKept, Zenon DEF vars, machine, ghosts
<1>4. CASE DoPush
  BY <1>4, HeapKept, Zenon DEF DoPush, Push, Except, Crash, End, machine, ghosts
<1>5. CASE DoPop
  BY <1>5, HeapKept, Zenon DEF DoPop, Pop, StackPop, Except, Crash, End, machine, ghosts
<1>6. CASE DoSystem
  BY <1>6, HeapKept, Zenon DEF DoSystem, System, StackPop, Except, Crash, End, machine, ghosts
<1>7. CASE DoMath
  BY <1>7, HeapKept, Zenon DEF DoMath, Math, Except, Crash, End, machine, ghosts
<1>8. CASE DoMov
  BY <1>8, HeapKept, Zenon DEF DoMov, MovToMemory, Except, Crash, End, machine, ghosts
<1>9. CASE DoMovReg \/ DoInc \/ DoDec
  <2>1. \A r, v : SetRegisterByName(r, v) => UNCHANGED <<heapList, heapUsed, live, clean>>
    BY Zenon DEF SetRegisterByName, Except, Crash, End, machine, ghosts
  <2>. QED BY <1>9, <2>1, HeapKept, Zenon DEF DoMovReg, DoInc, Inc, DoDec, Dec, Crash, End, machine, ghosts
<1>10. CASE DoCalloc
  BY <1>10, HeapKept, Zenon DEF DoCalloc, Calloc, Return, StackWrite, Except, Crash, End, machine, ghosts
<1>11. CASE DoMemFree
  BY <1>11, HeapKept, Zenon DEF DoMemFree, MemFree, Except, Crash, End, machine, ghosts
<1>12. CASE DoSizeOf
  BY <1>12, HeapKept, Zenon DEF DoSizeOf, SizeOf, Except, Crash, End, machine, ghosts
<1>13. CASE DoCpuid
  BY <1>13, HeapKept, Zenon DEF DoCpuid, Cpuid, Except, Crash, End, machine, ghosts
<1>. QED BY <1>1, <1>2, <1>3, <1>4, <1>5, <1>6, <1>7, <1>8, <1>9, <1>10, <1>11, <1>12, <1>13, Zenon
     DEF Next

LEMMA SameList ==
  ASSUME NEW s \in Seq(Nat), NEW t \in Seq(Nat), Len(s) = Len(t), \A x \in 1..Len(s) : s[x] = t[x]
  PROVE  s = t
OBVIOUS

(* The run of a block in the list, as the property writes it.               *)
LEMMA RunIs ==
  ASSUME NEW l \in Seq(Nat), NEW b \in Blocks, NEW j \in 1..Len(l), Placed(l, b, j)
  PROVE  SubSeq(l, j, j + b.n) = [k \in 1..b.n |-> b.p + k - 1] \o <<0>>
<1>1. PICK p \in Nat, n \in Nat : p = b.p /\ n = b.n
  BY ExtentOf
<1>2. PICK L \in Nat : L = Len(l) /\ j \in 1..L
  OBVIOUS
<1>3. j + n <= L /\ l[j + n] = 0 /\ \A e \in 0..(n - 1) : l[j + e] = p + e
  BY <1>1, <1>2, Zenon DEF Placed
<1>4. j + n <= L
  BY <1>3, Zenon
<1>5. PICK s \in Seq(Nat) : /\ s = SubSeq(l, j, j + n) /\ Len(s) = n + 1
                            /\ \A x \in 1..(n + 1) : s[x] = l[j + x - 1]
  <2>1. j \in Nat /\ j >= 1 /\ j + n <= Len(l) /\ Len(l) \in Nat /\ j + n \in Nat
    BY <1>2, <1>4
  <2>2. /\ SubSeq(l, j, j + n) \in Seq(Nat) /\ Len(SubSeq(l, j, j + n)) = n + 1
        /\ \A x \in 1..(n + 1) : SubSeq(l, j, j + n)[x] = l[j + x - 1]
    BY <2>1
  <2>. QED BY <2>2, Zenon
<1>6. PICK w \in Seq(Nat) : /\ w = [k \in 1..n |-> p + k - 1] /\ Len(w) = n
                            /\ \A x \in 1..n : w[x] = p + x - 1
  <2>. DEFINE v == [i \in 1..n |-> p + i - 1]
  <2>1. v \in Seq(Nat) /\ Len(v) = n
    <3>1. \A i \in 1..n : p + i - 1 \in Nat
      OBVIOUS
    <3>. QED BY <3>1
  <2>. QED BY <2>1, Zenon
<1>7. PICK z \in Seq(Nat) : z = <<0>> /\ Len(z) = 1 /\ z[1] = 0
  <2>1. <<0>> \in Seq(Nat) /\ Len(<<0>>) = 1 /\ <<0>>[1] = 0
    OBVIOUS
  <2>. QED BY <2>1, Zenon
<1>8. PICK t \in Seq(Nat) : /\ t = w \o z /\ Len(t) = Len(w) + Len(z)
                            /\ \A x \in 1..Len(w) : t[x] = w[x]
                            /\ \A x \in 1..Len(z) : t[Len(w) + x] = z[x]
  <2>1. /\ w \o z \in Seq(Nat) /\ Len(w \o z) = Len(w) + Len(z)
        /\ \A x \in 1..Len(w) : (w \o z)[x] = w[x]
        /\ \A x \in 1..Len(z) : (w \o z)[Len(w) + x] = z[x]
    BY Concatenated
  <2>. QED BY <2>1, Zenon
<1>9. Len(t) = n + 1 /\ (\A x \in 1..n : t[x] = p + x - 1) /\ t[n + 1] = 0
  <2>1. 1 \in 1..1
    OBVIOUS
  <2>. QED BY <1>6, <1>7, <1>8, <2>1, Zenon
<1>10. ASSUME NEW x \in 1..(n + 1) PROVE s[x] = t[x]
  <2>1. CASE x \in 1..n
    <3>1. x - 1 \in 0..(n - 1) /\ j + (x - 1) = j + x - 1 /\ p + (x - 1) = p + x - 1
      BY <2>1
    <3>2. s[x] = p + (x - 1)
      BY <1>3, <1>5, <3>1, Zenon
    <3>. QED BY <1>9, <2>1, <3>1, <3>2, Zenon
  <2>2. CASE x = n + 1
    <3>1. j + x - 1 = j + n
      BY <2>2
    <3>. QED BY <1>3, <1>5, <1>9, <2>2, <3>1, Zenon
  <2>3. x \in 1..n \/ x = n + 1
    OBVIOUS
  <2>. QED BY <2>1, <2>2, <2>3
<1>11. s = t
  BY <1>5, <1>9, <1>10, SameList
<1>. QED BY <1>1, <1>5, <1>6, <1>7, <1>8, <1>11, Zenon

LEMMA HeapFollows == ASSUME HeapInv PROVE HeapAccounted
<1>. SUFFICES ASSUME clean
     PROVE  /\ heapUsed = Cardinality(Range(heapList) \ {0}) + Len(live)
            /\ Range(heapList) \ {0} = UNION {Extent(live[i]) : i \in DOMAIN live}
            /\ \A i \in DOMAIN live :
                 SubSeq(heapList, IndexOf(heapList, live[i].p),
                                  IndexOf(heapList, live[i].p) + live[i].n)
                 = [k \in 1..live[i].n |-> live[i].p + k - 1] \o <<0>>
  BY Zenon DEF HeapAccounted
<1>1. HeapOK(heapList, heapUsed, live)
  BY Zenon DEF HeapInv
<1>2. /\ heapList \in Seq(Nat) /\ live \in Seq(Blocks)
      /\ AllPlaced(heapList, live) /\ AllHeld(heapList, live)
      /\ heapUsed = Cardinality(Used(heapList)) + Len(live)
  BY <1>1, Zenon DEF HeapOK
<1>3. /\ DOMAIN live = 1..Len(live) /\ Len(heapList) \in Nat
      /\ \A i \in 1..Len(live) : live[i] \in Blocks
  BY <1>2
<1>4. Used(heapList) = {heapList[x] : x \in 1..Len(heapList)} \ {0}
  BY <1>2, UsedIs, Zenon
<1>5. Used(heapList) = UNION {Extent(live[i]) : i \in DOMAIN live}
  <2>1. ASSUME NEW a \in Used(heapList) PROVE \E i \in DOMAIN live : a \in Extent(live[i])
    BY <1>2, <1>3, <1>4, Zenon DEF AllHeld
  <2>2. ASSUME NEW i \in DOMAIN live, NEW a \in Extent(live[i]) PROVE a \in Used(heapList)
    <3>1. PICK j \in 1..Len(heapList) : Placed(heapList, live[i], j)
      BY <1>2, <1>3, Zenon DEF AllPlaced
    <3>2. PICK L \in Nat : L = Len(heapList) /\ j \in 1..L
      BY <1>3
    <3>3. live[i] \in Blocks
      BY <1>3, Zenon
    <3>4. PICK p \in Nat, n \in Nat : p = live[i].p /\ n = live[i].n /\ p > 0
      BY <3>3, ExtentOf
    <3>5. PICK e \in 0..(n - 1) : a = p + e
      <4>1. \E e \in 0..(live[i].n - 1) : a = live[i].p + e
        BY <3>3, ExtentOf, Zenon
      <4>. QED BY <3>4, <4>1, Zenon
    <3>6. j + n <= L /\ heapList[j + e] = p + e
      BY <3>1, <3>2, <3>4, Zenon DEF Placed
    <3>7. j + e \in 1..L /\ p + e # 0
      <4>1. j + n <= L
        BY <3>6, Zenon
      <4>. QED BY <3>4, <4>1
    <3>. QED BY <1>4, <3>2, <3>5, <3>6, <3>7, Zenon
  <2>. QED BY <2>1, <2>2, Zenon
<1>6. ASSUME NEW i \in DOMAIN live
      PROVE  SubSeq(heapList, IndexOf(heapList, live[i].p),
                              IndexOf(heapList, live[i].p) + live[i].n)
             = [k \in 1..live[i].n |-> live[i].p + k - 1] \o <<0>>
  <2>1. i \in 1..Len(live) /\ live[i] \in Blocks
    BY <1>3, Zenon
  <2>2. PICK j \in 1..Len(heapList) : /\ IndexOf(heapList, live[i].p) = j
                                      /\ Placed(heapList, live[i], j)
    BY <1>1, <2>1, FoundAt, Zenon
  <2>3. SubSeq(heapList, j, j + live[i].n) = [k \in 1..live[i].n |-> live[i].p + k - 1] \o <<0>>
    BY <1>2, <2>1, <2>2, RunIs, Zenon
  <2>. QED BY <2>2, <2>3, Zenon
<1>. QED BY <1>2, <1>5, <1>6, Zenon DEF Used

\* After any program that frees what it was given, the list of the heap holds exactly
\* the addresses of the blocks still held, each block in one piece and closed by its own
\* zero, and the size in use counts them: the search of free for the next zero never
\* takes out a part of a neighbour.
THEOREM HeapKeepsAccounts == Spec => []HeapAccounted
<1>1. Init => HeapInv
  BY HeapInit
<1>2. HeapInv /\ [Next]_vars => HeapInv'
  BY HeapStep
<1>3. HeapInv => HeapAccounted
  BY HeapFollows
<1>. QED BY <1>1, <1>2, <1>3, PTL DEF Spec

--------------------------------------------------------------------------------
\* What a push laid out stays where it was put: the memory pointer never goes back, and
\* a cell below it changes only through a pointer.

\* The cell p holds w, unless it was written through a pointer.
Cell(mem, pk, p, w) == p \notin pk => mem[p] = w

Untouched(pk, at, len) == pk \cap (at..(at + len)) = {}

IsText(e, mem, pk) ==
  /\ e.means = [kind |-> "str", v |-> e.means.v]
  /\ e.means.v \in Seq(1..(Word - 1)) /\ e.means.v # << >>
  /\ e.len = Len(e.means.v) + 1
  /\ \A x \in 1..Len(e.means.v) : Cell(mem, pk, e.at + x - 1, e.means.v[x])
  /\ Cell(mem, pk, e.at + Len(e.means.v), 0)

IsSmall(e, mem, pk) ==
  /\ e.means = [kind |-> "num", v |-> e.means.v] /\ e.means.v # 0 /\ e.len = 2
  /\ Cell(mem, pk, e.at, 0) /\ Cell(mem, pk, e.at + 1, e.means.v)

IsWide(e, mem, pk) ==
  /\ e.means = [kind |-> "num", v |-> e.means.v] /\ e.len = 3
  /\ \E lo, hi \in 1..(Word - 1) :
       /\ e.means.v = lo + Word * (IF 2 * hi >= Word THEN hi - Word ELSE hi)
       /\ Cell(mem, pk, e.at, 0) /\ Cell(mem, pk, e.at + 1, lo) /\ Cell(mem, pk, e.at + 2, hi)

\* An entry with its address a on the stack, when the memory is laid out up to top.
Entry(e, a, mem, top, pk) ==
  /\ e.at \in Nat /\ a = e.at % Word
  /\ \/ e.means = None
     \/ /\ e.len \in Nat /\ e.at + e.len <= top
        /\ IsText(e, mem, pk) \/ IsSmall(e, mem, pk) \/ IsWide(e, mem, pk)

ReadInv ==
  /\ DOMAIN memory = 0..(Cells - 1) /\ mp <= Cells
  /\ pushed \in Seq(Range(pushed)) /\ Len(pushed) = (IF sp < 0 THEN 0 ELSE sp)
  /\ \A i \in 1..Len(pushed) : Entry(pushed[i], stack[i - 1], memory, mp, poked)

(* The cells from p up to the next zero.                                    *)
LEMMA DumpIs ==
  ASSUME NEW p \in Nat, NEW n \in Nat, p + n <= Cells,
         \A x \in 1..n : At(p + x - 1) # 0, At(p + n) = 0
  PROVE  Dump(p) = [x \in 1..n |-> At(p + x - 1)]
<1>. DEFINE ends == {q \in p..Cells : At(q) = 0}
            cells == [i \in 1..(Cells - p + 1) |-> At(p + i - 1)]
<1>1. Cells \in Nat /\ ~(p > Cells)
  BY VirtualMachineAssumption
<1>2. Min(ends) = p + n
  <2>1. ends \in SUBSET Int /\ p + n \in ends
    BY <1>1
  <2>2. ASSUME NEW q \in ends PROVE p + n <= q
    <3>1. q \in Int /\ p <= q /\ At(q) = 0
      BY <1>1
    <3>2. ASSUME q < p + n PROVE FALSE
      <4>1. PICK x \in 1..n : x = q - p + 1
        BY <3>1, <3>2
      <4>2. p + x - 1 = q
        BY <3>1, <4>1
      <4>. QED BY <3>1, <4>2
    <3>. QED BY <3>1, <3>2
  <2>. HIDE DEF ends
  <2>. QED BY <2>1, <2>2, MinIs
<1>3. Dump(p) = SubSeq(cells, 1, Min(ends) - p)
  BY <1>1 DEF Dump
<1>4. Dump(p) = SubSeq(cells, 1, n)
  <2>1. (p + n) - p = n
    OBVIOUS
  <2>. HIDE DEF ends, cells
  <2>. QED BY <1>2, <1>3, <2>1
<1>5. \A x \in 1..n : cells[x] = At(p + x - 1)
  BY <1>1
<1>6. SubSeq(cells, 1, n) = [x \in 1..n |-> cells[x]]
  <2>. HIDE DEF cells
  <2>. QED OBVIOUS
<1>. HIDE DEF cells
<1>. QED BY <1>4, <1>5, <1>6


\* A cell of an entry that was not written through a pointer, as a print finds it.
LEMMA CellRead ==
  ASSUME ReadInv, mp \in Nat, NEW at \in Nat, NEW len \in Nat, at + len <= mp,
         Untouched(poked, at, len), NEW k \in Nat, k < len, NEW w,
         Cell(memory, poked, at + k, w)
  PROVE  At(at + k) = w /\ memory[at + k] = w /\ ~(at + k >= Cells)
<1>1. Cells \in Nat /\ mp <= Cells
  BY VirtualMachineAssumption DEF ReadInv
<1>2. at + k \in at..(at + len) /\ at + k \in 0..(Cells - 1) /\ ~(at + k >= Cells)
  BY <1>1
<1>3. at + k \notin poked
  BY <1>2 DEF Untouched
<1>. QED BY <1>2, <1>3 DEF Cell, At

(* A text is printed as it was pushed.                                      *)
LEMMA TextShown ==
  ASSUME ReadInv, mp \in Nat, NEW e, e.at \in Nat, e.len \in Nat, e.at + e.len <= mp,
         Untouched(poked, e.at, e.len), IsText(e, memory, poked)
  PROVE  Decode(e.at) = e.means
<1>1. PICK p \in Nat, v \in Seq(1..(Word - 1)), n \in Nat :
        /\ p = e.at /\ v = e.means.v /\ n = Len(v) /\ n > 0 /\ e.len = n + 1
        /\ e.means = [kind |-> "str", v |-> v]
        /\ \A x \in 1..n : Cell(memory, poked, p + x - 1, v[x])
        /\ Cell(memory, poked, p + n, 0)
  <2>1. e.means.v \in Seq(1..(Word - 1)) /\ e.means.v # << >>
    BY DEF IsText
  <2>2. Len(e.means.v) \in Nat /\ Len(e.means.v) > 0
    BY <2>1
  <2>. QED BY <2>1, <2>2 DEF IsText
<1>2. Untouched(poked, p, n + 1) /\ p + (n + 1) <= mp /\ n + 1 \in Nat /\ Word \in Nat
  BY <1>1, WordType
<1>3. ASSUME NEW x \in 1..n
      PROVE  At(p + x - 1) = v[x] /\ memory[p + x - 1] = v[x] /\ v[x] # 0 /\ ~(p + x - 1 >= Cells)
  <2>1. PICK k \in Nat : k = x - 1 /\ k < n + 1 /\ p + k = p + x - 1
    OBVIOUS
  <2>2. Cell(memory, poked, p + k, v[x])
    BY <1>1, <2>1
  <2>3. At(p + k) = v[x] /\ memory[p + k] = v[x] /\ ~(p + k >= Cells)
    BY <1>2, <2>1, <2>2, CellRead, Zenon
  <2>4. v[x] \in 1..(Word - 1)
    <3>1. PICK S : S = 1..(Word - 1)
      OBVIOUS
    <3>2. v \in Seq(S) /\ x \in 1..Len(v)
      BY <1>1, <3>1
    <3>3. v[x] \in S
      BY <3>2
    <3>. QED BY <3>1, <3>3
  <2>5. v[x] # 0
    BY <1>2, <2>4
  <2>. QED BY <2>1, <2>3, <2>5
<1>4. At(p + n) = 0
  <2>1. n < n + 1 /\ n \in Nat
    OBVIOUS
  <2>2. Cell(memory, poked, p + n, 0)
    BY <1>1
  <2>. QED BY <1>2, <2>1, <2>2, CellRead, Zenon
<1>5. p + n <= Cells
  BY <1>2, VirtualMachineAssumption DEF ReadInv
<1>6. Dump(p) = [x \in 1..n |-> At(p + x - 1)]
  <2>1. \A x \in 1..n : At(p + x - 1) # 0
    BY <1>3, Zenon
  <2>. QED BY <1>4, <1>5, <2>1, DumpIs, Zenon
<1>7. v = [x \in 1..n |-> v[x]]
  BY <1>1
<1>8. Dump(p) = v
  BY <1>3, <1>6, <1>7
<1>9. memory[p] # 0
  <2>1. 1 \in 1..n /\ p + 1 - 1 = p
    BY <1>1
  <2>. QED BY <1>3, <2>1
<1>10. Decode(p) = [kind |-> "str", v |-> Dump(p)]
  BY <1>9 DEF Decode
<1>. QED BY <1>1, <1>8, <1>10

(* A number of one word.                                                    *)
LEMMA SmallShown ==
  ASSUME ReadInv, mp \in Nat, NEW e, e.at \in Nat, e.len \in Nat, e.at + e.len <= mp,
         Untouched(poked, e.at, e.len), IsSmall(e, memory, poked), At(e.at + e.len) = 0
  PROVE  Decode(e.at) = e.means
<1>1. PICK p \in Nat : p = e.at /\ p + 2 <= mp /\ Untouched(poked, p, 2) /\ At(p + 2) = 0
  BY DEF IsSmall
<1>2. PICK v : /\ e.means = [kind |-> "num", v |-> v] /\ v # 0
               /\ Cell(memory, poked, p, 0) /\ Cell(memory, poked, p + 1, v)
  BY <1>1 DEF IsSmall
<1>3. memory[p] = 0 /\ ~(p >= Cells)
  <2>1. PICK k \in Nat : p + k = p /\ k < 2
    OBVIOUS
  <2>2. Cell(memory, poked, p + k, 0)
    BY <1>2, <2>1
  <2>3. memory[p + k] = 0 /\ ~(p + k >= Cells)
    BY <1>1, <2>1, <2>2, CellRead
  <2>. QED BY <2>1, <2>3
<1>4. At(p + 1) = v
  <2>1. 1 < 2
    OBVIOUS
  <2>. QED BY <1>1, <1>2, <2>1, CellRead
<1>5. Dump(p + 1) = <<v>>
  <2>1. PICK q \in Nat : q = p + 1 /\ q + 1 = p + 2 /\ q + 1 <= Cells
    BY <1>1, VirtualMachineAssumption DEF ReadInv
  <2>2. ASSUME NEW x \in 1..1 PROVE At(q + x - 1) = v
    <3>1. q + x - 1 = p + 1
      BY <2>1
    <3>. QED BY <1>4, <3>1
  <2>3. At(q + 1) = 0
    BY <1>1, <2>1
  <2>4. \A x \in 1..1 : At(q + x - 1) # 0
    BY <1>2, <2>2
  <2>5. Dump(q) = [x \in 1..1 |-> At(q + x - 1)]
    BY <2>1, <2>3, <2>4, DumpIs
  <2>6. Dump(q) = [x \in 1..1 |-> v]
    BY <2>2, <2>5
  <2>. QED BY <2>1, <2>6
<1>6. Decode(p) = [kind |-> "num", v |-> v]
  <2>. DEFINE ws == Dump(p + 1)
  <2>1. Len(ws) = 1 /\ ws[1] = v
    BY <1>5
  <2>. HIDE DEF ws
  <2>2. Decode(p) = CASE Len(ws) = 1 -> [kind |-> "num", v |-> ws[1]]
         [] Len(ws) = 2 -> [kind |-> "num",
                            v |-> ws[1] + Word * (IF 2 * ws[2] >= Word THEN ws[2] - Word
                                                  ELSE ws[2])]
         [] Len(ws) = 3 -> [kind |-> "wide"]
         [] OTHER       -> [kind |-> "null"]
    BY <1>3 DEF Decode, ws
  <2>. QED BY <2>1, <2>2
<1>. QED BY <1>1, <1>2, <1>6

(* A number of two words.                                                   *)
LEMMA WideShown ==
  ASSUME ReadInv, mp \in Nat, NEW e, e.at \in Nat, e.len \in Nat, e.at + e.len <= mp,
         Untouched(poked, e.at, e.len), IsWide(e, memory, poked), At(e.at + e.len) = 0
  PROVE  Decode(e.at) = e.means
<1>1. PICK p \in Nat : p = e.at /\ p + 3 <= mp /\ Untouched(poked, p, 3) /\ At(p + 3) = 0
  BY DEF IsWide
<1>2. PICK lo \in 1..(Word - 1), hi \in 1..(Word - 1) :
        /\ e.means = [kind |-> "num", v |-> lo + Word * (IF 2 * hi >= Word THEN hi - Word ELSE hi)]
        /\ Cell(memory, poked, p, 0) /\ Cell(memory, poked, p + 1, lo)
        /\ Cell(memory, poked, p + 2, hi)
  BY <1>1 DEF IsWide
<1>3. memory[p] = 0 /\ ~(p >= Cells)
  <2>1. PICK k \in Nat : p + k = p /\ k < 3
    OBVIOUS
  <2>2. Cell(memory, poked, p + k, 0)
    BY <1>2, <2>1
  <2>3. memory[p + k] = 0 /\ ~(p + k >= Cells)
    BY <1>1, <2>1, <2>2, CellRead
  <2>. QED BY <2>1, <2>3
<1>4. At(p + 1) = lo /\ At(p + 2) = hi
  <2>1. 1 < 3 /\ 2 < 3
    OBVIOUS
  <2>2. At(p + 1) = lo
    BY <1>1, <1>2, <2>1, CellRead
  <2>3. At(p + 2) = hi
    BY <1>1, <1>2, <2>1, CellRead
  <2>. QED BY <2>2, <2>3
<1>5. Dump(p + 1) = [x \in 1..2 |-> At(p + 1 + x - 1)]
  <2>1. PICK q \in Nat : q = p + 1 /\ q + 2 = p + 3 /\ q + 2 <= Cells
    BY <1>1, VirtualMachineAssumption DEF ReadInv
  <2>2. ASSUME NEW x \in 1..2 PROVE At(q + x - 1) # 0
    <3>1. q + x - 1 = p + 1 \/ q + x - 1 = p + 2
      BY <2>1
    <3>2. lo # 0 /\ hi # 0
      BY WordType
    <3>. QED BY <1>4, <3>1, <3>2
  <2>3. At(q + 2) = 0
    BY <1>1, <2>1
  <2>4. Dump(q) = [x \in 1..2 |-> At(q + x - 1)]
    BY <2>1, <2>2, <2>3, DumpIs
  <2>. QED BY <2>1, <2>4
<1>6. Decode(p) = [kind |-> "num",
                   v |-> lo + Word * (IF 2 * hi >= Word THEN hi - Word ELSE hi)]
  <2>. DEFINE ws == Dump(p + 1)
  <2>1. Len(ws) = 2 /\ ws[1] = At(p + 1 + 1 - 1) /\ ws[2] = At(p + 1 + 2 - 1)
    BY <1>5
  <2>2. p + 1 + 1 - 1 = p + 1 /\ p + 1 + 2 - 1 = p + 2
    OBVIOUS
  <2>3. Len(ws) = 2 /\ ws[1] = lo /\ ws[2] = hi
    BY <1>4, <2>1, <2>2
  <2>. HIDE DEF ws
  <2>4. Decode(p) = CASE Len(ws) = 1 -> [kind |-> "num", v |-> ws[1]]
         [] Len(ws) = 2 -> [kind |-> "num",
                            v |-> ws[1] + Word * (IF 2 * ws[2] >= Word THEN ws[2] - Word
                                                  ELSE ws[2])]
         [] Len(ws) = 3 -> [kind |-> "wide"]
         [] OTHER       -> [kind |-> "null"]
    BY <1>3 DEF Decode, ws
  <2>. QED BY <2>3, <2>4
<1>. QED BY <1>1, <1>2, <1>6

LEMMA ReadFollows == ASSUME ReadInv, mp \in Nat PROVE Readable
<1>. SUFFICES ASSUME NEW i \in DOMAIN pushed, pushed[i].means # None, pushed[i].at < Word,
                     poked \cap (pushed[i].at..(pushed[i].at + pushed[i].len)) = {},
                     pushed[i].means.kind = "num" => At(pushed[i].at + pushed[i].len) = 0
              PROVE  Decode(stack[i - 1]) = pushed[i].means
  BY Zenon DEF Readable
<1>0. PICK e : e = pushed[i]
  OBVIOUS
<1>1. DOMAIN pushed = 1..Len(pushed)
  BY DEF ReadInv
<1>2. Entry(e, stack[i - 1], memory, mp, poked)
  BY <1>0, <1>1 DEF ReadInv
<1>3. stack[i - 1] = e.at
  <2>1. e.at \in Nat /\ stack[i - 1] = e.at % Word
    BY <1>2 DEF Entry
  <2>2. e.at % Word = e.at
    BY <1>0, <2>1, WordType
  <2>. QED BY <2>1, <2>2
<1>4. /\ e.at \in Nat /\ e.len \in Nat /\ e.at + e.len <= mp
      /\ Untouched(poked, e.at, e.len)
      /\ IsText(e, memory, poked) \/ IsSmall(e, memory, poked) \/ IsWide(e, memory, poked)
  BY <1>0, <1>2 DEF Entry, Untouched
<1>5. ASSUME IsText(e, memory, poked) PROVE Decode(e.at) = e.means
  BY <1>4, <1>5, TextShown, Zenon
<1>6. ASSUME IsSmall(e, memory, poked) \/ IsWide(e, memory, poked) PROVE Decode(e.at) = e.means
  <2>1. e.means.kind = "num"
    BY <1>6 DEF IsSmall, IsWide
  <2>2. At(e.at + e.len) = 0
    BY <1>0, <2>1
  <2>. QED BY <1>4, <1>6, <2>2, SmallShown, WideShown, Zenon
<1>7. Decode(e.at) = e.means
  BY <1>4, <1>5, <1>6, Zenon
<1>. QED BY <1>0, <1>3, <1>7

(* What stands below the pointer stays.                                     *)
LEMMA EntryKept ==
  ASSUME NEW e, NEW a, NEW mem, NEW top \in Nat, NEW pk, Entry(e, a, mem, top, pk),
         NEW mem2, NEW top2 \in Nat, top <= top2, NEW pk2, pk \subseteq pk2,
         \A q \in 0..(top - 1) : q \notin pk2 => mem2[q] = mem[q]
  PROVE  Entry(e, a, mem2, top2, pk2)
<1>1. e.at \in Nat /\ a = e.at % Word
  BY DEF Entry
<1>2. CASE e.means = None
  BY <1>1, <1>2 DEF Entry
<1>3. CASE e.means # None
  <2>1. PICK at \in Nat, len \in Nat : at = e.at /\ len = e.len /\ at + len <= top
    BY <1>1, <1>3 DEF Entry
  <2>2. ASSUME NEW q \in Nat, at <= q, q < at + len, NEW w, Cell(mem, pk, q, w)
        PROVE  Cell(mem2, pk2, q, w)
    <3>1. q \in 0..(top - 1)
      BY <2>1, <2>2
    <3>. QED BY <2>2, <3>1 DEF Cell
  <2>3. IsText(e, mem, pk) \/ IsSmall(e, mem, pk) \/ IsWide(e, mem, pk)
    BY <1>3 DEF Entry
  <2>4. CASE IsText(e, mem, pk)
    <3>1. PICK n \in Nat : n = Len(e.means.v) /\ len = n + 1
      BY <2>1, <2>4 DEF IsText
    <3>2. ASSUME NEW x \in 1..n PROVE Cell(mem2, pk2, at + x - 1, e.means.v[x])
      <4>1. Cell(mem, pk, at + x - 1, e.means.v[x])
        BY <2>1, <2>4, <3>1 DEF IsText
      <4>2. at + x - 1 \in Nat /\ at <= at + x - 1 /\ at + x - 1 < at + len
        BY <3>1
      <4>. QED BY <2>2, <4>1, <4>2, Zenon
    <3>3. Cell(mem2, pk2, at + n, 0)
      <4>1. Cell(mem, pk, at + n, 0)
        BY <2>1, <2>4, <3>1 DEF IsText
      <4>2. at + n \in Nat /\ at <= at + n /\ at + n < at + len
        BY <3>1
      <4>. QED BY <2>2, <4>1, <4>2, Zenon
    <3>4. IsText(e, mem2, pk2)
      BY <2>1, <2>4, <3>1, <3>2, <3>3 DEF IsText
    <3>. QED BY <1>1, <2>1, <3>4 DEF Entry
  <2>5. CASE IsSmall(e, mem, pk)
    <3>1. len = 2 /\ Cell(mem, pk, at, 0) /\ Cell(mem, pk, at + 1, e.means.v)
      BY <2>1, <2>5 DEF IsSmall
    <3>2. at + 1 \in Nat /\ at <= at + 1 /\ at + 1 < at + len /\ at <= at /\ at < at + len
      BY <3>1
    <3>3. Cell(mem2, pk2, at, 0) /\ Cell(mem2, pk2, at + 1, e.means.v)
      BY <2>2, <3>1, <3>2
    <3>4. IsSmall(e, mem2, pk2)
      BY <2>1, <2>5, <3>3 DEF IsSmall
    <3>. QED BY <1>1, <2>1, <3>4 DEF Entry
  <2>6. CASE IsWide(e, mem, pk)
    <3>1. PICK lo \in 1..(Word - 1), hi \in 1..(Word - 1) :
            /\ e.means.v = lo + Word * (IF 2 * hi >= Word THEN hi - Word ELSE hi)
            /\ Cell(mem, pk, at, 0) /\ Cell(mem, pk, at + 1, lo) /\ Cell(mem, pk, at + 2, hi)
      BY <2>1, <2>6 DEF IsWide
    <3>2. len = 3
      BY <2>1, <2>6 DEF IsWide
    <3>3. /\ at <= at /\ at < at + len
          /\ at + 1 \in Nat /\ at <= at + 1 /\ at + 1 < at + len
          /\ at + 2 \in Nat /\ at <= at + 2 /\ at + 2 < at + len
      BY <3>2
    <3>4. Cell(mem2, pk2, at, 0)
      BY <2>2, <3>1, <3>3
    <3>5. Cell(mem2, pk2, at + 1, lo)
      BY <2>2, <3>1, <3>3
    <3>6. Cell(mem2, pk2, at + 2, hi)
      BY <2>2, <3>1, <3>3
    <3>7. IsWide(e, mem2, pk2)
      <4>1. e.means = [kind |-> "num", v |-> e.means.v] /\ e.len = 3
        BY <2>6 DEF IsWide
      <4>. QED BY <2>1, <3>1, <3>4, <3>5, <3>6, <4>1, Zenon DEF IsWide
    <3>. QED BY <1>1, <2>1, <3>7 DEF Entry
  <2>. QED BY <2>3, <2>4, <2>5, <2>6
<1>. QED BY <1>2, <1>3

\* The memory is laid out further, and nothing below changes but through a pointer.
Grows ==
  /\ DOMAIN memory' = 0..(Cells - 1) /\ mp' \in Nat /\ mp <= mp' /\ mp' <= Cells
  /\ poked \subseteq poked'
  /\ \A q \in 0..(mp - 1) : q \notin poked' => memory'[q] = memory[q]

LEMMA SeqOfItself == ASSUME NEW S, NEW s \in Seq(S) PROVE s \in Seq(Range(s))
BY DEF Range

LEMMA ReadKept ==
  ASSUME ReadInv, mp \in Nat, Grows, sp' = sp, stack' = stack, pushed' = pushed
  PROVE  ReadInv'
<1>1. /\ pushed \in Seq(Range(pushed)) /\ Len(pushed) = (IF sp < 0 THEN 0 ELSE sp)
      /\ \A i \in 1..Len(pushed) : Entry(pushed[i], stack[i - 1], memory, mp, poked)
  BY DEF ReadInv
<1>2. ASSUME NEW i \in 1..Len(pushed)
      PROVE  Entry(pushed[i], stack[i - 1], memory', mp', poked')
  <2>1. Entry(pushed[i], stack[i - 1], memory, mp, poked)
    BY <1>1
  <2>2. /\ mp' \in Nat /\ mp <= mp' /\ poked \subseteq poked'
        /\ \A q \in 0..(mp - 1) : q \notin poked' => memory'[q] = memory[q]
    BY DEF Grows
  <2>. QED BY <2>1, <2>2, EntryKept, Zenon
<1>3. /\ pushed' \in Seq(Range(pushed')) /\ Len(pushed') = (IF sp' < 0 THEN 0 ELSE sp')
      /\ \A i \in 1..Len(pushed') : Entry(pushed'[i], stack'[i - 1], memory', mp', poked')
  BY <1>1, <1>2
<1>4. DOMAIN memory' = 0..(Cells - 1) /\ mp' <= Cells
  BY DEF Grows
<1>. QED BY <1>3, <1>4 DEF ReadInv

LEMMA ReadPopped ==
  ASSUME ReadInv, StackInv, sp >= 0, StackPop, stack' = stack, memory' = memory, mp' = mp,
         poked' = poked
  PROVE  ReadInv'
<1>1. /\ pushed \in Seq(Range(pushed)) /\ Len(pushed) = sp /\ sp \in Nat
      /\ \A i \in 1..Len(pushed) : Entry(pushed[i], stack[i - 1], memory, mp, poked)
  BY VirtualMachineAssumption DEF ReadInv, StackInv
<1>2. sp' = sp - 1 /\ pushed' = IF pushed = << >> THEN << >> ELSE Front(pushed)
  BY DEF StackPop
<1>3. CASE sp = 0
  <2>1. pushed' = << >> /\ sp' < 0
    BY <1>1, <1>2, <1>3
  <2>2. pushed' \in Seq(Range(pushed')) /\ Len(pushed') = 0
    BY <2>1
  <2>3. \A i \in 1..Len(pushed') : FALSE
    BY <2>2
  <2>. QED BY <2>1, <2>2, <2>3 DEF ReadInv
<1>4. CASE sp > 0
  <2>0. PICK S : S = Range(pushed) /\ pushed \in Seq(S)
    BY <1>1
  <2>1. pushed' = SubSeq(pushed, 1, sp - 1)
    BY <1>1, <1>2, <1>4 DEF Front
  <2>2. /\ pushed' \in Seq(S) /\ Len(pushed') = sp - 1
        /\ \A i \in 1..(sp - 1) : pushed'[i] = pushed[i]
    BY <1>1, <1>4, <2>0, <2>1
  <2>3. pushed' \in Seq(Range(pushed'))
    BY <2>2, SeqOfItself
  <2>4. ASSUME NEW i \in 1..Len(pushed')
        PROVE  Entry(pushed'[i], stack[i - 1], memory, mp, poked)
    <3>1. i \in 1..(sp - 1) /\ i \in 1..Len(pushed)
      BY <1>1, <2>2
    <3>. QED BY <1>1, <2>2, <3>1
  <2>5. sp' = sp - 1 /\ ~(sp' < 0)
    BY <1>1, <1>2, <1>4
  <2>. QED BY <2>2, <2>3, <2>4, <2>5 DEF ReadInv
<1>. QED BY <1>1, <1>3, <1>4

LEMMA ReadGrown ==
  ASSUME ReadInv, StackInv, sp >= 0, Grows, NEW p \in Nat, NEW S, NEW entries \in Seq(S),
         Len(entries) > 0, sp + Len(entries) <= StackCells, StackWrite(p, entries),
         \A k \in 1..Len(entries) : Entry(entries[k], p % Word, memory', mp', poked')
  PROVE  ReadInv'
<1>1. /\ pushed \in Seq(Range(pushed)) /\ Len(pushed) = sp /\ sp \in Nat
      /\ \A i \in 1..Len(pushed) : Entry(pushed[i], stack[i - 1], memory, mp, poked)
  BY VirtualMachineAssumption DEF ReadInv, StackInv
<1>2. PICK n \in Nat : n = Len(entries) /\ n > 0 /\ sp + n <= StackCells
  OBVIOUS
<1>3. PICK T : T = Range(pushed) \cup S
  OBVIOUS
<1>4. pushed \in Seq(T) /\ entries \in Seq(T)
  BY <1>1, <1>3
<1>5. /\ pushed' = pushed \o entries /\ sp' = sp + n
      /\ stack' = [i \in DOMAIN stack |-> IF i \in sp..(sp + n - 1) THEN p % Word ELSE stack[i]]
  BY <1>2 DEF StackWrite
<1>6. /\ pushed' \in Seq(T) /\ Len(pushed') = sp + n
      /\ \A x \in 1..sp : pushed'[x] = pushed[x]
      /\ \A x \in 1..n : pushed'[sp + x] = entries[x]
  BY <1>1, <1>2, <1>4, <1>5, Concatenated
<1>7. DOMAIN stack = 0..(StackCells - 1) /\ StackCells \in Nat
  BY VirtualMachineAssumption DEF StackInv
<1>8. ASSUME NEW i \in 1..(sp + n)
      PROVE  Entry(pushed'[i], stack'[i - 1], memory', mp', poked')
  <2>1. i - 1 \in DOMAIN stack
    BY <1>1, <1>2, <1>7
  <2>2. CASE i <= sp
    <3>1. i \in 1..sp /\ ~(i - 1 \in sp..(sp + n - 1))
      BY <1>1, <2>2
    <3>2. stack'[i - 1] = stack[i - 1] /\ pushed'[i] = pushed[i]
      BY <1>5, <1>6, <2>1, <3>1
    <3>3. Entry(pushed[i], stack[i - 1], memory, mp, poked)
      BY <1>1, <3>1
    <3>4. /\ mp' \in Nat /\ mp <= mp' /\ poked \subseteq poked' /\ mp \in Nat
          /\ \A q \in 0..(mp - 1) : q \notin poked' => memory'[q] = memory[q]
      BY DEF Grows, StackInv
    <3>5. Entry(pushed[i], stack[i - 1], memory', mp', poked')
      BY <3>3, <3>4, EntryKept, Zenon
    <3>. QED BY <3>2, <3>5
  <2>3. CASE ~(i <= sp)
    <3>1. PICK x \in 1..n : i = sp + x
      <4>1. i - sp \in 1..n /\ i = sp + (i - sp)
        BY <1>1, <2>3
      <4>. QED BY <4>1
    <3>2. i - 1 \in sp..(sp + n - 1)
      BY <1>1, <3>1
    <3>3. stack'[i - 1] = p % Word /\ pushed'[i] = entries[x]
      BY <1>5, <1>6, <2>1, <3>1, <3>2
    <3>4. Entry(entries[x], p % Word, memory', mp', poked')
      BY <1>2
    <3>. QED BY <3>3, <3>4
  <2>. QED BY <2>2, <2>3
<1>9. pushed' \in Seq(Range(pushed'))
  BY <1>6, SeqOfItself
<1>10. ~(sp' < 0)
  BY <1>1, <1>5
<1>11. DOMAIN memory' = 0..(Cells - 1) /\ mp' <= Cells
  BY DEF Grows
<1>. QED BY <1>5, <1>6, <1>8, <1>9, <1>10, <1>11 DEF ReadInv

(* The sign of a double word is that of its upper word.                     *)
LEMMA UpperHalf ==
  ASSUME NEW h \in Nat, NEW w \in Nat \ {0}, w = h + h, NEW hi \in Nat, NEW lo \in 0..(w - 1),
         NEW n \in Nat, n = w * hi + lo
  PROVE  n + n >= w * w <=> hi + hi >= w
<1>1. w * w = w * h + w * h /\ w * h \in Nat /\ w * hi \in Nat
  OBVIOUS
<1>2. CASE hi >= h
  <2>1. PICK k \in Nat : hi = h + k
    <3>1. hi - h \in Nat /\ hi = h + (hi - h)
      BY <1>2
    <3>. QED BY <3>1
  <2>2. w * hi = w * h + w * k /\ w * k \in Nat
    BY <2>1
  <2>3. n + n >= w * w
    BY <1>1, <2>2
  <2>. QED BY <1>2, <2>3
<1>3. CASE ~(hi >= h)
  <2>1. PICK k \in Nat : h = (hi + 1) + k
    <3>1. h - (hi + 1) \in Nat /\ h = (hi + 1) + (h - (hi + 1))
      BY <1>3
    <3>. QED BY <3>1
  <2>2. w * h = w * (hi + 1) + w * k /\ w * k \in Nat
    BY <2>1
  <2>3. w * (hi + 1) = w * hi + w
    OBVIOUS
  <2>4. n < w * h
    BY <1>1, <2>2, <2>3
  <2>5. ~(n + n >= w * w)
    BY <1>1, <2>4
  <2>. QED BY <1>3, <2>5
<1>. QED BY <1>2, <1>3

(* What a print makes of the two words of a double word.                    *)
LEMMA DoubleWord ==
  ASSUME NEW n \in Nat, n < DWord, n % Word > 0, n >= Word
  PROVE  /\ n % Word \in 1..(Word - 1) /\ n \div Word \in 1..(Word - 1)
         /\ (IF 2 * n >= DWord THEN n - DWord ELSE n)
            = (n % Word) + Word * (IF 2 * (n \div Word) >= Word THEN n \div Word - Word
                                 ELSE n \div Word)
<1>1. PICK b \in Nat, w \in Nat \ {0}, d \in Nat \ {0} :
        b = Byte /\ w = Word /\ d = DWord /\ w = b * b /\ d = w * w
  BY Sizes
<1>2. PICK h \in Nat : w = h + h
  <2>1. PICK k \in Nat : b = k + k
    <3>1. b \div 2 \in Nat /\ b = 2 * (b \div 2) + (b % 2)
      OBVIOUS
    <3>2. b % 2 = 0
      BY <1>1, ByteAssumption
    <3>3. b = b \div 2 + b \div 2
      BY <3>1, <3>2
    <3>. QED BY <3>1, <3>3
  <2>2. w = k * b + k * b /\ k * b \in Nat
    BY <1>1, <2>1
  <2>. QED BY <2>2
<1>3. PICK hi \in Nat, lo \in 0..(w - 1) : hi = n \div w /\ lo = n % w /\ n = w * hi + lo
  <2>1. n \in Int /\ w \in Nat \ {0}
    OBVIOUS
  <2>2. n \div w \in Int /\ n % w \in 0..(w - 1) /\ n = w * (n \div w) + (n % w)
    BY <2>1, Euclid
  <2>3. n \div w \in Nat
    OBVIOUS
  <2>. QED BY <2>2, <2>3
<1>4. lo > 0 /\ n >= w /\ n < w * w
  BY <1>1, <1>3
<1>5. hi > 0
  <2>1. CASE hi = 0
    BY <1>3, <1>4, <2>1
  <2>. QED BY <2>1
<1>6. hi < w
  <2>1. ASSUME hi >= w PROVE FALSE
    <3>1. PICK k \in Nat : hi = w + k
      <4>1. hi - w \in Nat /\ hi = w + (hi - w)
        BY <2>1
      <4>. QED BY <4>1
    <3>2. w * hi = w * w + w * k /\ w * k \in Nat /\ w * w \in Nat
      BY <3>1
    <3>. QED BY <1>3, <1>4, <3>2
  <2>. QED BY <2>1
<1>7. n + n >= w * w <=> hi + hi >= w
  BY <1>2, <1>3, UpperHalf
<1>8. w * (hi - w) = w * hi - w * w
  OBVIOUS
<1>9. (IF 2 * n >= w * w THEN n - w * w ELSE n)
      = lo + w * (IF 2 * hi >= w THEN hi - w ELSE hi)
  <2>1. 2 * n = n + n /\ 2 * hi = hi + hi
    OBVIOUS
  <2>2. CASE hi + hi >= w
    <3>1. n - w * w = lo + w * (hi - w)
      BY <1>3, <1>8
    <3>. QED BY <1>7, <2>1, <2>2, <3>1
  <2>3. CASE ~(hi + hi >= w)
    <3>1. n = lo + w * hi
      BY <1>3
    <3>. QED BY <1>7, <2>1, <2>3, <3>1
  <2>. QED BY <2>2, <2>3
<1>10. lo \in 1..(w - 1) /\ hi \in 1..(w - 1)
  BY <1>4, <1>5, <1>6
<1>. QED BY <1>1, <1>3, <1>9, <1>10

(* A 32-bit name stands for a double word.                                  *)
LEMMA RegisterValue ==
  ASSUME RegInv, NEW a \in Operand, a.kind = "reg"
  PROVE  /\ reg[a.group][a.field] \in Nat
         /\ a.field = "d" => reg[a.group][a.field] < DWord
<1>1. Value(a) = reg[a.group][a.field]
  <2>1. a.kind # "imm"
    OBVIOUS
  <2>. QED BY <2>1 DEF Value
<1>2. reg[a.group][a.field] \in Nat
  BY <1>1, OperandValue
<1>3. ASSUME a.field = "d" PROVE reg[a.group][a.field] < DWord
  <2>1. a.group \in {"rax", "rdx", "rsp"}
    BY DEF Operand
  <2>2. PICK g : /\ g = reg[a.group] /\ g.d = g.q % DWord
                 /\ g.q \in Nat
    <3>1. \E names \in {AllNames, LowNames} : IsRegister(reg[a.group], names)
      BY <2>1 DEF RegInv
    <3>2. reg[a.group].q \in Nat
      BY <3>1 DEF IsRegister, AllNames, LowNames
    <3>. QED BY <3>1, <3>2 DEF IsRegister, Coherent
  <2>3. DWord \in Nat \ {0}
    BY Sizes
  <2>4. g.q % DWord < DWord
    BY <2>2, <2>3
  <2>. QED BY <1>3, <2>2, <2>4
<1>. QED BY <1>2, <1>3

\* What a push writes down, and that nothing else changes.
LEMMA WordsWritten ==
  ASSUME ReadInv, mp \in Nat, NEW ws, Len(ws) \in Nat, mp + Len(ws) <= Cells, WriteWords(ws),
         poked' = poked
  PROVE  Grows /\ mp' = mp + Len(ws) /\ \A x \in 1..Len(ws) : memory'[mp + x - 1] = ws[x]
<1>1. PICK n \in Nat : n = Len(ws) /\ mp + n <= Cells
  OBVIOUS
<1>2. /\ memory' = [i \in DOMAIN memory |-> IF i \in mp..(mp + n - 1)
                                            THEN ws[i - mp + 1] ELSE memory[i]]
      /\ mp' = mp + n
  BY <1>1 DEF WriteWords
<1>3. DOMAIN memory = 0..(Cells - 1) /\ mp <= Cells /\ Cells \in Nat
  BY VirtualMachineAssumption DEF ReadInv
<1>4. ASSUME NEW q \in 0..(mp - 1) PROVE memory'[q] = memory[q]
  <2>1. q \in DOMAIN memory /\ ~(q \in mp..(mp + n - 1))
    BY <1>3
  <2>. QED BY <1>2, <2>1
<1>5. ASSUME NEW x \in 1..n PROVE memory'[mp + x - 1] = ws[x]
  <2>1. mp + x - 1 \in DOMAIN memory /\ mp + x - 1 \in mp..(mp + n - 1)
    BY <1>1, <1>3
  <2>2. (mp + x - 1) - mp + 1 = x
    OBVIOUS
  <2>. QED BY <1>2, <2>1, <2>2
<1>6. DOMAIN memory' = 0..(Cells - 1)
  BY <1>2, <1>3
<1>7. mp' \in Nat /\ mp <= mp' /\ mp' <= Cells
  BY <1>1, <1>2
<1>. QED BY <1>1, <1>2, <1>4, <1>5, <1>6, <1>7 DEF Grows

\* What leaves the stack and the memory alone.
LEMMA ReadIdle ==
  ASSUME ReadInv, StackInv, UNCHANGED <<sp, stack, mp, memory, pushed, poked>>
  PROVE  ReadInv'
<1>1. Grows
  BY DEF Grows, ReadInv, StackInv
<1>. QED BY <1>1, ReadKept DEF StackInv

\* An entry of a push says what was laid out.
LEMMA PushEntry ==
  ASSUME ReadInv, RegInv, mp \in Nat, NEW i \in Is("push", 1), NEW a, a = i.args[1],
         NEW ws, ws = PushWords(a), mp + Len(ws) <= Cells, WriteWords(ws), poked' = poked,
         NEW e, e = [at |-> mp, len |-> Len(ws), means |-> Meaning(a)]
  PROVE  Entry(e, mp % Word, memory', mp', poked')
<1>1. /\ a.kind \in {"imm", "str", "reg", "mem", "vec"}
      /\ a.kind \in {"str", "vec"} => a.chars \in Seq(0..(Word - 1))
      /\ a.kind = "reg" => a \in Operand
  BY InstructionsAssumption DEF Is
<1>2. Len(ws) \in Nat
  BY PushedIsSequence
<1>3. mp' = mp + Len(ws) /\ \A x \in 1..Len(ws) : Cell(memory', poked', mp + x - 1, ws[x])
  BY <1>2, WordsWritten DEF Cell
<1>4. e.at = mp /\ e.len = Len(ws) /\ e.means = Meaning(a)
  OBVIOUS
<1>5. SUFFICES ASSUME Meaning(a) # None
               PROVE  \/ IsText(e, memory', poked') \/ IsSmall(e, memory', poked')
                      \/ IsWide(e, memory', poked')
  <2>1. e.at + e.len <= mp' /\ e.len \in Nat
    BY <1>2, <1>3, <1>4
  <2>. QED BY <1>4, <2>1 DEF Entry
<1>6. CASE a.kind = "str"
  <2>1. /\ Meaning(a) = [kind |-> "str", v |-> a.chars] /\ a.chars # << >>
        /\ 0 \notin Range(a.chars)
    BY <1>5, <1>6 DEF Meaning
  <2>2. PICK v \in Seq(0..(Word - 1)), n \in Nat : v = a.chars /\ n = Len(v)
    BY <1>1, <1>6
  <2>3. \A x \in 1..n : v[x] # 0
    BY <2>1, <2>2 DEF Range
  <2>4. v \in Seq(1..(Word - 1))
    <3>1. PICK S, T : S = 0..(Word - 1) /\ T = 1..(Word - 1) /\ S \ {0} \subseteq T
      BY WordType
    <3>2. \A x \in 1..n : v[x] \in T
      <4>1. v \in Seq(S)
        BY <3>1
      <4>2. \A x \in 1..n : v[x] \in S
        BY <2>2, <4>1
      <4>. QED BY <2>3, <3>1, <4>2
    <3>3. v \in Seq(T)
      BY <2>2, <3>2
    <3>. QED BY <3>1, <3>3
  <2>5. ws = Append(v, 0)
    BY <1>6, <2>2 DEF PushWords
  <2>6. Len(ws) = n + 1 /\ ws[n + 1] = 0 /\ \A x \in 1..n : ws[x] = v[x]
    BY <2>2, <2>5
  <2>7. \A x \in 1..n : Cell(memory', poked', mp + x - 1, v[x])
    <3>. TAKE x \in 1..n
    <3>1. x \in 1..Len(ws)
      BY <2>6
    <3>. QED BY <1>3, <2>6, <3>1
  <2>8. Cell(memory', poked', mp + n, 0)
    <3>1. n + 1 \in 1..Len(ws) /\ mp + (n + 1) - 1 = mp + n
      BY <2>6
    <3>2. Cell(memory', poked', mp + (n + 1) - 1, ws[n + 1])
      BY <1>3, <3>1
    <3>. QED BY <2>6, <3>1, <3>2
  <2>9. e.means = [kind |-> "str", v |-> v] /\ e.means.v = v
    BY <1>4, <2>1, <2>2
  <2>. QED BY <1>4, <2>1, <2>2, <2>4, <2>6, <2>7, <2>8, <2>9 DEF IsText
<1>7. ASSUME NEW n, n # 0, ws = <<0, n>>, Meaning(a) = [kind |-> "num", v |-> n]
      PROVE  IsSmall(e, memory', poked')
  <2>1. Len(ws) = 2 /\ ws[1] = 0 /\ ws[2] = n
    BY <1>7
  <2>2. 1 \in 1..Len(ws) /\ 2 \in 1..Len(ws) /\ mp + 1 - 1 = mp /\ mp + 2 - 1 = mp + 1
    BY <2>1
  <2>3. Cell(memory', poked', mp + 1 - 1, ws[1]) /\ Cell(memory', poked', mp + 2 - 1, ws[2])
    BY <1>3, <2>2
  <2>4. Cell(memory', poked', mp, 0) /\ Cell(memory', poked', mp + 1, n)
    BY <2>1, <2>2, <2>3
  <2>5. e.means = [kind |-> "num", v |-> n] /\ e.means.v = n
    BY <1>4, <1>7
  <2>. QED BY <1>4, <1>7, <2>1, <2>4, <2>5 DEF IsSmall
<1>8. CASE a.kind \in {"imm", "mem"}
  <2>1. PICK n : n = (IF a.kind = "imm" THEN a.n ELSE At(Pointer(a)))
    OBVIOUS
  <2>2. Meaning(a) = [kind |-> "num", v |-> n] /\ IsUint8(n) /\ n > 0
    BY <1>5, <1>8, <2>1 DEF Meaning
  <2>3. ws = NumberWords(n)
    BY <1>8, <2>1 DEF PushWords
  <2>4. ws = <<0, n>>
    BY <2>2, <2>3 DEF NumberWords
  <2>5. n # 0
    <3>1. ~(0 > 0)
      OBVIOUS
    <3>. QED BY <2>2, <3>1
  <2>. QED BY <1>7, <2>2, <2>4, <2>5
<1>9. CASE a.kind = "reg"
  <2>1. PICK n \in Nat : n = reg[a.group][a.field] /\ (a.field = "d" => n < DWord)
    BY <1>1, <1>9, RegisterValue
  <2>2. a.field \in {"q", "d", "w", "h", "l"} /\ ws = RegisterWords(a)
    BY <1>1, <1>9 DEF PushWords, Operand
  <2>3. CASE a.field \in {"w", "h", "l"}
    <3>1. Meaning(a) = [kind |-> "num", v |-> n] /\ n > 0
      BY <1>5, <1>9, <2>1, <2>3 DEF Meaning
    <3>2. ws = <<0, n>>
      BY <2>1, <2>2, <2>3 DEF RegisterWords
    <3>. QED BY <1>7, <3>1, <3>2
  <2>4. CASE a.field = "d"
    <3>1. /\ Meaning(a) = [kind |-> "num", v |-> IF 2 * n >= DWord THEN n - DWord ELSE n]
          /\ n % Word > 0 /\ n >= Word
      BY <1>5, <1>9, <2>1, <2>4 DEF Meaning
    <3>2. PICK lo \in 1..(Word - 1), hi \in 1..(Word - 1) :
            /\ lo = n % Word /\ hi = n \div Word
            /\ (IF 2 * n >= DWord THEN n - DWord ELSE n)
               = lo + Word * (IF 2 * hi >= Word THEN hi - Word ELSE hi)
      <4>1. n \in Nat /\ n < DWord /\ n % Word > 0 /\ n >= Word
        BY <2>1, <2>4, <3>1
      <4>2. /\ n % Word \in 1..(Word - 1) /\ n \div Word \in 1..(Word - 1)
            /\ (IF 2 * n >= DWord THEN n - DWord ELSE n)
               = (n % Word) + Word * (IF 2 * (n \div Word) >= Word THEN n \div Word - Word
                                    ELSE n \div Word)
        BY ONLY <4>1, DoubleWord
      <4>. QED BY ONLY <4>2
    <3>3. ws = <<0, lo, hi>>
      BY <2>1, <2>2, <2>4, <3>2 DEF RegisterWords
    <3>4. Len(ws) = 3 /\ ws[1] = 0 /\ ws[2] = lo /\ ws[3] = hi
      BY <3>3
    <3>5. /\ 1 \in 1..Len(ws) /\ 2 \in 1..Len(ws) /\ 3 \in 1..Len(ws)
          /\ mp + 1 - 1 = mp /\ mp + 2 - 1 = mp + 1 /\ mp + 3 - 1 = mp + 2
      BY <3>4
    <3>6. /\ Cell(memory', poked', mp + 1 - 1, ws[1]) /\ Cell(memory', poked', mp + 2 - 1, ws[2])
          /\ Cell(memory', poked', mp + 3 - 1, ws[3])
      BY <1>3, <3>5
    <3>7. /\ Cell(memory', poked', mp, 0) /\ Cell(memory', poked', mp + 1, lo)
          /\ Cell(memory', poked', mp + 2, hi)
      BY <3>4, <3>5, <3>6
    <3>8. PICK v : /\ e.means = [kind |-> "num", v |-> v] /\ e.means.v = v
                   /\ v = lo + Word * (IF 2 * hi >= Word THEN hi - Word ELSE hi)
      <4>1. PICK v : v = IF 2 * n >= DWord THEN n - DWord ELSE n
        OBVIOUS
      <4>2. v = lo + Word * (IF 2 * hi >= Word THEN hi - Word ELSE hi)
        BY <3>2, <4>1
      <4>3. e.means = [kind |-> "num", v |-> v]
        BY <1>4, <3>1, <4>1
      <4>4. e.means.v = v
        BY <4>3
      <4>. QED BY <4>2, <4>3, <4>4, Zenon
    <3>. QED BY <1>4, <3>4, <3>7, <3>8, Zenon DEF IsWide
  <2>5. CASE a.field = "q"
    BY <1>5, <1>9, <2>5 DEF Meaning
  <2>. QED BY <2>2, <2>3, <2>4, <2>5
<1>10. CASE a.kind = "vec"
  BY <1>5, <1>10 DEF Meaning
<1>. QED BY <1>1, <1>6, <1>8, <1>9, <1>10

LEMMA ReadPushed ==
  ASSUME ReadInv, StackInv, RegInv, NEW i \in Is("push", 1), Push(i.args[1])
  PROVE  ReadInv'
<1>1. PICK a, ws, e : /\ a = i.args[1] /\ ws = PushWords(a)
                      /\ e = [at |-> mp, len |-> Len(ws), means |-> Meaning(a)]
  OBVIOUS
<1>2. CASE Except \/ Crash
  BY <1>2, ReadIdle DEF Except, Crash, End, machine, ghosts
<1>3. CASE ~(Except \/ Crash)
  <2>1. /\ ~StackOverflow /\ ~(sp < 0) /\ ~(a.kind = "vec" /\ sp + 1 >= StackCells)
        /\ ~(mp + Len(ws) > Cells)
        /\ StackWrite(mp, IF a.kind = "vec" THEN <<e, e>> ELSE <<e>>) /\ WriteWords(ws)
        /\ poked' = poked
    BY <1>1, <1>3 DEF Push
  <2>2. mp \in Nat /\ Len(ws) \in Nat /\ Cells \in Nat /\ mp + Len(ws) <= Cells
    <3>1. Len(ws) \in Nat
      BY <1>1, PushedIsSequence
    <3>. QED BY <2>1, <3>1, VirtualMachineAssumption DEF StackInv
  <2>3. Grows
    BY <2>1, <2>2, WordsWritten
  <2>4. Entry(e, mp % Word, memory', mp', poked')
    BY <1>1, <2>1, <2>2, PushEntry, Zenon
  <2>5. PICK entries \in Seq({e}) :
          /\ entries = (IF a.kind = "vec" THEN <<e, e>> ELSE <<e>>)
          /\ Len(entries) > 0 /\ sp + Len(entries) <= StackCells
          /\ \A k \in 1..Len(entries) : entries[k] = e
    <3>1. sp \in Nat /\ sp < StackCells /\ StackCells \in Nat
      BY <2>1, VirtualMachineAssumption DEF StackInv, StackOverflow
    <3>2. CASE a.kind = "vec"
      <4>1. \E t \in Seq({e}) : t = <<e, e>> /\ Len(t) = 2 /\ \A k \in 1..2 : t[k] = e
        <5>1. <<e, e>> \in Seq({e}) /\ Len(<<e, e>>) = 2 /\ \A k \in 1..2 : <<e, e>>[k] = e
          OBVIOUS
        <5>. QED BY <5>1, Zenon
      <4>2. PICK t \in Seq({e}) : t = <<e, e>> /\ Len(t) = 2 /\ \A k \in 1..2 : t[k] = e
        BY <4>1
      <4>3. Len(t) > 0 /\ sp + Len(t) <= StackCells /\ \A k \in 1..Len(t) : t[k] = e
        <5>1. sp + 2 <= StackCells
          BY <2>1, <3>1, <3>2
        <5>. QED BY <4>2, <5>1
      <4>. QED BY <3>2, <4>2, <4>3, Zenon
    <3>3. CASE a.kind # "vec"
      <4>1. \E t \in Seq({e}) : t = <<e>> /\ Len(t) = 1 /\ \A k \in 1..1 : t[k] = e
        <5>1. <<e>> \in Seq({e}) /\ Len(<<e>>) = 1 /\ \A k \in 1..1 : <<e>>[k] = e
          OBVIOUS
        <5>. QED BY <5>1, Zenon
      <4>2. PICK t \in Seq({e}) : t = <<e>> /\ Len(t) = 1 /\ \A k \in 1..1 : t[k] = e
        BY <4>1
      <4>3. Len(t) > 0 /\ sp + Len(t) <= StackCells /\ \A k \in 1..Len(t) : t[k] = e
        BY <3>1, <4>2
      <4>. QED BY <3>3, <4>2, <4>3, Zenon
    <3>. QED BY <3>2, <3>3
  <2>6. \A k \in 1..Len(entries) : Entry(entries[k], mp % Word, memory', mp', poked')
    BY <2>4, <2>5
  <2>7. sp >= 0 /\ StackWrite(mp, entries)
    BY <2>1, <2>5 DEF StackInv
  <2>. QED BY <2>2, <2>3, <2>5, <2>6, <2>7, ReadGrown, Zenon
<1>. QED BY <1>2, <1>3

LEMMA ReadReturned ==
  ASSUME ReadInv, StackInv, ~(sp < 0 \/ sp >= StackCells), NEW p \in Nat, Return(p),
         memory' = memory, mp' = mp, poked' = poked
  PROVE  ReadInv'
<1>1. PICK e : e = [at |-> p, len |-> 0, means |-> None]
  OBVIOUS
<1>2. StackWrite(p, <<e>>)
  BY <1>1 DEF Return
<1>3. Entry(e, p % Word, memory', mp', poked')
  BY <1>1 DEF Entry
<1>4. Grows
  BY DEF Grows, ReadInv, StackInv
<1>5. PICK entries \in Seq({e}) : entries = <<e>> /\ Len(entries) = 1 /\ entries[1] = e
  <2>1. <<e>> \in Seq({e}) /\ Len(<<e>>) = 1 /\ <<e>>[1] = e
    OBVIOUS
  <2>. QED BY <2>1, Zenon
<1>6. sp >= 0 /\ sp + Len(entries) <= StackCells /\ Len(entries) > 0
  BY <1>5, VirtualMachineAssumption DEF StackInv
<1>7. \A k \in 1..Len(entries) : Entry(entries[k], p % Word, memory', mp', poked')
  BY <1>3, <1>5
<1>8. StackWrite(p, entries)
  BY <1>2, <1>5
<1>. QED BY <1>4, <1>6, <1>7, <1>8, ReadGrown, Zenon

LEMMA ReadInit == Init => ReadInv
<1>. SUFFICES ASSUME Init PROVE ReadInv
  OBVIOUS
<1>1. sp = 0 /\ mp = 0 /\ pushed = << >> /\ memory = [i \in 0..(Cells - 1) |-> 0]
  BY DEF Init
<1>2. pushed \in Seq(Range(pushed)) /\ Len(pushed) = 0 /\ \A i \in 1..Len(pushed) : FALSE
  BY <1>1
<1>3. DOMAIN memory = 0..(Cells - 1) /\ mp <= Cells
  BY <1>1, VirtualMachineAssumption
<1>. QED BY <1>1, <1>2, <1>3 DEF ReadInv

LEMMA ReadMoved ==
  ASSUME ReadInv, StackInv, NEW a, NEW b, MovToMemory(a, b)
  PROVE  ReadInv'
<1>1. CASE Except \/ Crash
  BY <1>1, ReadIdle DEF Except, Crash, End, machine, ghosts
<1>2. CASE ~(Except \/ Crash)
  <2>1. PICK p, v : /\ memory' = [memory EXCEPT ![p] = v] /\ poked' = poked \cup {p}
                    /\ UNCHANGED <<sp, stack, mp, pushed>>
    BY <1>2 DEF MovToMemory
  <2>2. DOMAIN memory' = 0..(Cells - 1) /\ mp \in Nat /\ mp <= Cells
    BY <2>1 DEF ReadInv, StackInv
  <2>3. ASSUME NEW q \in 0..(mp - 1), q \notin poked' PROVE memory'[q] = memory[q]
    BY <2>1, <2>3
  <2>4. Grows
    BY <2>1, <2>2, <2>3 DEF Grows
  <2>. QED BY <2>1, <2>2, <2>4, ReadKept
<1>. QED BY <1>1, <1>2

LEMMA ReadStep ==
  ASSUME ReadInv, StackInv, RegInv, [Next]_vars
  PROVE  ReadInv'
<1>. DEFINE Idle == UNCHANGED <<sp, stack, mp, memory, pushed, poked>>
<1>0. Except \/ Crash \/ End("exited") => Idle
  BY DEF Except, Crash, End, machine, ghosts
<1>1. CASE UNCHANGED vars
  BY <1>1, ReadIdle DEF vars, machine, ghosts
<1>2. CASE DoPush
  BY <1>2, ReadPushed DEF DoPush
<1>3. CASE DoPop \/ DoSystem
  <2>1. \/ Idle
        \/ ~PullRefused /\ StackPop /\ UNCHANGED <<stack, memory, mp, poked>>
    BY <1>0, <1>3 DEF DoPop, Pop, DoSystem, System
  <2>2. ~PullRefused => sp >= 0
    BY VirtualMachineAssumption DEF PullRefused, StackUnderflow, StackInv
  <2>. QED BY <2>1, <2>2, ReadIdle, ReadPopped
<1>4. CASE DoMov
  BY <1>4, ReadMoved DEF DoMov
<1>5. CASE DoMath \/ DoFree \/ DoMemFree \/ DoSizeOf \/ DoCpuid
  <2>1. Idle
    BY <1>0, <1>5 DEF DoMath, Math, DoFree, Free, DoMemFree, MemFree, DoSizeOf, SizeOf, DoCpuid,
                      Cpuid, machine, ghosts
  <2>. QED BY <2>1, ReadIdle
<1>6. CASE DoMovReg \/ DoInc \/ DoDec
  <2>1. Idle \/ \E r, v : SetRegisterByName(r, v)
    BY <1>0, <1>6 DEF DoMovReg, DoInc, Inc, DoDec, Dec
  <2>2. ASSUME NEW r, NEW v, SetRegisterByName(r, v) PROVE Idle
    BY <1>0, <2>2 DEF SetRegisterByName, ghosts
  <2>3. Idle
    BY <2>1, <2>2
  <2>. QED BY <2>3, ReadIdle
<1>7. CASE DoMalloc
  <2>1. PICK i \in Is("malloc", 1), p \in Addresses : Malloc(i.args[1].n, p)
    BY <1>7 DEF DoMalloc
  <2>2. p \in Nat
    BY WordType, VirtualMachineAssumption
  <2>3. \/ Idle
        \/ ~(sp < 0 \/ sp >= StackCells) /\ Return(p) /\ UNCHANGED <<memory, mp, poked>>
    BY <1>0, <2>1 DEF Malloc
  <2>. QED BY <2>2, <2>3, ReadIdle, ReadReturned
<1>8. CASE DoCalloc
  <2>1. PICK c, s : Calloc(c, s)
    BY <1>8 DEF DoCalloc
  <2>2. \/ Idle
        \/ ~(sp < 0 \/ sp >= StackCells) /\ Return(mp) /\ UNCHANGED <<memory, mp, poked>>
    BY <1>0, <2>1 DEF Calloc
  <2>3. mp \in Nat
    BY DEF StackInv
  <2>. QED BY <2>2, <2>3, ReadIdle, ReadReturned
<1>. QED BY <1>1, <1>2, <1>3, <1>4, <1>5, <1>6, <1>7, <1>8 DEF Next

\* After any program, what a print shows of an entry of the stack is what was pushed: the
\* words of a value stay in the memory while anything else is pushed, popped or
\* allocated, and the zeros around them tell a small number, a double word and a text
\* apart, for every size of a byte.
THEOREM PushesReadable == Spec => []Readable
<1>1. Init => ReadInv /\ StackInv /\ RegInv
  BY ReadInit, StackInit, RegInit
<1>2. (ReadInv /\ StackInv /\ RegInv) /\ [Next]_vars => (ReadInv /\ StackInv /\ RegInv)'
  BY ReadStep, StackStepInv, RegStep
<1>3. ReadInv /\ StackInv /\ RegInv => Readable
  BY ReadFollows DEF StackInv
<1>. QED BY <1>1, <1>2, <1>3, PTL DEF Spec

-----------------------------------------------------------------------------
(* The frame of a function. *)

(* What align_up computes, for the alignments that occur.                   *)
LEMMA AlignUpBounds ==
  ASSUME NEW n \in Nat, NEW to \in 1..8 \cup {16}
  PROVE  AlignUp(n, to) \in Nat /\ n <= AlignUp(n, to) /\ AlignUp(n, to) % to = 0
<1>1. CASE to = 1 BY <1>1 DEF AlignUp
<1>2. CASE to = 2 BY <1>2 DEF AlignUp
<1>3. CASE to = 3 BY <1>3 DEF AlignUp
<1>4. CASE to = 4 BY <1>4 DEF AlignUp
<1>5. CASE to = 5 BY <1>5 DEF AlignUp
<1>6. CASE to = 6 BY <1>6 DEF AlignUp
<1>7. CASE to = 7 BY <1>7 DEF AlignUp
<1>8. CASE to = 8 BY <1>8 DEF AlignUp
<1>9. CASE to = 16 BY <1>9 DEF AlignUp
<1> QED
  BY <1>1, <1>2, <1>3, <1>4, <1>5, <1>6, <1>7, <1>8, <1>9

(* A declaration takes at least its size, and no more than is there.        *)
LEMMA ExtendBounds ==
  ASSUME NEW used \in Nat, NEW d \in Declaration
  PROVE  /\ Extend(used, d) \in Nat
         /\ used + d.size <= Extend(used, d)
         /\ Extend(used, d) % Least(d.elem, 8) = 0
<1>1. d.size \in Nat /\ d.elem \in Nat \ {0}
  BY DEF Declaration
<1>2. Least(d.elem, 8) \in 1..8
  BY <1>1 DEF Least
<1>3. used + d.size \in Nat
  BY <1>1
<1> QED
  BY <1>2, <1>3, AlignUpBounds DEF Extend

-----------------------------------------------------------------------------
(* Every slot that was given lies below the one before, in what is in use.  *)
SlotsInUse ==
  \A n \in Names : IF HasSlot(n) THEN slots[n].size <= slots[n].at /\ slots[n].at <= offset
                                 ELSE slots[n] = NoSlot

Closed == closed => scanned = Len(declared) /\ total = AlignUp(offset, 16)

FrameInv == FrameTypeOK /\ SlotsInUse /\ SlotsApart /\ SlotsAligned /\ Closed

LEMMA FrameStarts == FrameInit => FrameInv
<1> SUFFICES ASSUME FrameInit PROVE FrameInv
  OBVIOUS
<1>1. declared \in Seq(Declaration)
  BY DEF FrameInit
<1>2. FrameTypeOK
  <2>1. slots \in [Names -> Slot]
    BY DEF FrameInit, Empty, Slot, NoSlot
  <2>2. 0 \in 0..Len(declared)
    BY <1>1
  <2> QED
    BY <1>1, <2>1, <2>2 DEF FrameInit, Empty, FrameTypeOK
<1>3. \A n \in Names : ~HasSlot(n)
  BY DEF FrameInit, Empty, HasSlot
<1>4. SlotsInUse /\ SlotsApart
  BY <1>3 DEF FrameInit, Empty, SlotsInUse, SlotsApart
<1>5. SlotsAligned /\ Closed
  BY DEF FrameInit, Empty, SlotsAligned, Closed
<1> QED
  BY <1>2, <1>4, <1>5 DEF FrameInv

LEMMA FieldsOf ==
  ASSUME NEW list \in Seq(Declaration), NEW k \in 1..Len(list)
  PROVE  list[k] \in Declaration /\ list[k].name \in Names /\ list[k].size \in Nat
<1>1. list[k] \in Declaration
  OBVIOUS
<1> QED
  BY <1>1 DEF Declaration

LEMMA PushVarStep ==
  ASSUME FrameInv, PushVar
  PROVE  FrameInv'
<1> DEFINE d == declared[scanned + 1]
           low == Extend(offset, d)
<1> USE DEF FrameInv
<1>1. scanned + 1 \in 1..Len(declared) /\ declared \in Seq(Declaration)
  BY DEF PushVar, FrameTypeOK
<1>2. d \in Declaration /\ d.name \in Names /\ d.size \in Nat
  BY <1>1, FieldsOf
<1>3. offset \in Nat
  BY DEF FrameTypeOK
<1>4. low \in Nat /\ offset + d.size <= low /\ low % Least(d.elem, 8) = 0
  BY <1>2, <1>3, ExtendBounds
<1>5. offset' = low /\ scanned' = scanned + 1 /\ declared' = declared /\ closed' = closed
  BY DEF PushVar
<1>6. slots' = [slots EXCEPT ![d.name] = [at |-> low, size |-> d.size]]
  BY DEF PushVar
<1> HIDE DEF low
<1>7. slots \in [Names -> Slot]
  BY DEF FrameTypeOK
<1>8. slots'[d.name].at = low /\ slots'[d.name].size = d.size
  BY <1>2, <1>6, <1>7
<1>9. \A n \in Names : n # d.name => slots'[n] = slots[n]
  BY <1>2, <1>6, <1>7
<1>10. \A n \in Names : slots[n].at \in Nat /\ slots[n].size \in Nat
  BY <1>7 DEF Slot
<1>11. \A n \in Names : HasSlot(n)' <=> HasSlot(n) \/ n = d.name
  <2> SUFFICES ASSUME NEW n \in Names PROVE HasSlot(n)' <=> HasSlot(n) \/ n = d.name
    OBVIOUS
  <2>1. 1..(scanned + 1) = (1..scanned) \cup {scanned + 1}
    BY DEF FrameTypeOK
  <2> QED
    BY <1>5, <2>1 DEF HasSlot
<1>12. FrameTypeOK'
  <2>1. slots' \in [Names -> Slot]
    BY <1>2, <1>4, <1>6, <1>7 DEF Slot
  <2> QED
    BY <1>1, <1>4, <1>5, <2>1 DEF FrameTypeOK, PushVar
<1>13. SlotsInUse'
  <2> SUFFICES ASSUME NEW n \in Names
               PROVE  IF HasSlot(n)' THEN slots'[n].size <= slots'[n].at /\ slots'[n].at <= offset'
                                     ELSE slots'[n] = NoSlot
    BY DEF SlotsInUse
  <2>1. CASE n = d.name
    BY <2>1, <1>2, <1>3, <1>4, <1>5, <1>8, <1>11
  <2>2. CASE n # d.name
    BY <2>2, <1>2, <1>3, <1>4, <1>5, <1>9, <1>10, <1>11 DEF SlotsInUse
  <2> QED
    BY <2>1, <2>2
<1>14. SlotsApart'
  <2>1. \A n \in Names : n # d.name /\ HasSlot(n)' => slots'[n].at <= low - d.size
    BY <1>2, <1>3, <1>4, <1>9, <1>10, <1>11 DEF SlotsInUse
  <2> SUFFICES ASSUME NEW m \in Names, NEW n \in Names, m # n, HasSlot(m)', HasSlot(n)'
               PROVE  \/ slots'[m].at - slots'[m].size >= slots'[n].at
                      \/ slots'[n].at - slots'[n].size >= slots'[m].at
    BY DEF SlotsApart
  <2>2. CASE m = d.name
    BY <2>1, <2>2, <1>2, <1>4, <1>8, <1>9, <1>10
  <2>3. CASE n = d.name
    BY <2>1, <2>3, <1>2, <1>4, <1>8, <1>9, <1>10
  <2>4. CASE m # d.name /\ n # d.name
    BY <2>4, <1>9, <1>11 DEF SlotsApart
  <2> QED
    BY <2>2, <2>3, <2>4
<1>15. SlotsAligned'
  <2> SUFFICES ASSUME NEW k \in 1..(scanned + 1),
                      \A j \in (k + 1)..(scanned + 1) : declared[j].name # declared[k].name
               PROVE  slots'[declared[k].name].at % Least(declared[k].elem, 8) = 0
    BY <1>5 DEF SlotsAligned
  <2>1. CASE k = scanned + 1
    BY <2>1, <1>4, <1>8
  <2>2. CASE k # scanned + 1
    <3>1. scanned \in Nat
      BY DEF FrameTypeOK
    <3>2. k \in 1..scanned /\ scanned + 1 \in (k + 1)..(scanned + 1)
      BY <2>2, <3>1
    <3>3. d.name # declared[k].name
      BY <3>2
    <3>4. declared[k] \in Declaration /\ declared[k].name \in Names
      BY <3>1, <3>2, <1>1, FieldsOf
    <3>5. \A j \in (k + 1)..scanned : declared[j].name # declared[k].name
      BY <3>1
    <3>6. slots[declared[k].name].at % Least(declared[k].elem, 8) = 0
      BY <3>2, <3>5 DEF SlotsAligned
    <3> QED
      BY <3>3, <3>4, <3>6, <1>9
  <2> QED
    BY <2>1, <2>2
<1>16. Closed'
  BY <1>1, <1>5 DEF Closed, PushVar
<1> QED
  BY <1>12, <1>13, <1>14, <1>15, <1>16

LEMMA CloseFrameStep ==
  ASSUME FrameInv, CloseFrame
  PROVE  FrameInv'
<1> USE DEF FrameInv
<1>1. UNCHANGED <<declared, scanned, offset, slots>> /\ total' = AlignUp(offset, 16) /\ scanned = Len(declared)
  BY DEF CloseFrame
<1>2. FrameTypeOK'
  BY <1>1, AlignUpBounds DEF FrameTypeOK, CloseFrame
<1>3. SlotsInUse' /\ SlotsApart' /\ SlotsAligned'
  BY <1>1 DEF SlotsInUse, SlotsApart, SlotsAligned, HasSlot
<1> QED
  BY <1>1, <1>2, <1>3 DEF Closed

-----------------------------------------------------------------------------
(* The inductive invariant of the scan.                                     *)
THEOREM FrameInvariant == FrameSpec => []FrameInv
<1>1. FrameInv /\ [FrameNext]_frameVars => FrameInv'
  <2> SUFFICES ASSUME FrameInv, [FrameNext]_frameVars PROVE FrameInv'
    OBVIOUS
  <2>1. CASE PushVar
    BY <2>1, PushVarStep
  <2>2. CASE CloseFrame
    BY <2>2, CloseFrameStep
  <2>3. CASE UNCHANGED frameVars
    BY <2>3 DEF frameVars, FrameInv, FrameTypeOK, SlotsInUse, SlotsApart, SlotsAligned, HasSlot, Closed
  <2> QED
    BY <2>1, <2>2, <2>3 DEF FrameNext
<1> QED
  BY <1>1, FrameStarts, PTL DEF FrameSpec

(* Types of the frame: offsets and sizes never become negative.             *)
THEOREM FrameTypeCorrect == FrameSpec => []FrameTypeOK
<1>1. FrameInv => FrameTypeOK
  BY DEF FrameInv
<1> QED
  BY <1>1, FrameInvariant, PTL

(* No two variables that have slots share a byte, however many there are,   *)
(* and whatever their sizes.                                                *)
THEOREM VariablesApart == FrameSpec => []SlotsApart
<1>1. FrameInv => SlotsApart
  BY DEF FrameInv
<1> QED
  BY <1>1, FrameInvariant, PTL

(* Every variable lies in the frame that the prologue reserves, and the     *)
(* frame is a multiple of sixteen.                                          *)
THEOREM VariablesInFrame == FrameSpec => []SlotsInFrame
<1>1. FrameInv => SlotsInFrame
  <2> SUFFICES ASSUME FrameInv, closed
               PROVE  total % 16 = 0 /\ \A n \in Names : slots[n].size <= slots[n].at /\ slots[n].at <= total
    BY DEF SlotsInFrame
  <2>1. offset \in Nat /\ slots \in [Names -> Slot] /\ total = AlignUp(offset, 16)
    BY DEF FrameInv, FrameTypeOK, Closed
  <2>2. total \in Nat /\ offset <= total /\ total % 16 = 0
    BY <2>1, AlignUpBounds
  <2>3. ASSUME NEW n \in Names PROVE slots[n].size <= slots[n].at /\ slots[n].at <= total
    <3>1. slots[n].at \in Nat /\ slots[n].size \in Nat
      BY <2>1 DEF Slot
    <3>2. CASE HasSlot(n)
      BY <2>1, <2>2, <3>1, <3>2 DEF FrameInv, SlotsInUse
    <3>3. CASE ~HasSlot(n)
      BY <2>1, <2>2, <3>3 DEF FrameInv, SlotsInUse, NoSlot
    <3> QED
      BY <3>2, <3>3
  <2> QED
    BY <2>2, <2>3
<1> QED
  BY <1>1, FrameInvariant, PTL

(* Every variable starts at a multiple of its element size, up to 8.        *)
THEOREM VariablesAligned == FrameSpec => []SlotsAligned
<1>1. FrameInv => SlotsAligned
  BY DEF FrameInv
<1> QED
  BY <1>1, FrameInvariant, PTL

(* The placing of variables is right for every list of declarations.        *)
THEOREM VariablesPlaced == FrameSpec => []SlotsPlaced
<1>1. SlotsApart /\ SlotsInFrame /\ SlotsAligned => SlotsPlaced
  BY DEF SlotsPlaced
<1> QED
  BY <1>1, VariablesApart, VariablesInFrame, VariablesAligned, PTL
=============================================================================
