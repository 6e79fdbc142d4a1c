---------------------------- MODULE VirtualMachine ----------------------------
(***************************************************************************)
(* The virtual hardware of the JIT: the stack, the memory, the list of the *)
(* heap and the registers of hardware.js, and the instructions that change *)
(* them.  A push copies its value to the memory and puts the ADDRESS on    *)
(* the stack; nothing on the stack says what lies there, the print guesses *)
(* it from the zero cells around it.                                       *)
(*                                                                         *)
(* A program is any sequence of at most MaxSteps of the Instructions.      *)
(***************************************************************************)
EXTENDS Registers, Sequences, SequencesExt

CONSTANTS Cells,      \* cells of the memory (this.size)
          StackCells, \* cells of the stack: this.size too, a smaller one is full sooner
          Instructions, \* a program is a sequence of these
          Addresses,  \* what gen_random_uint16 may return
          MaxSteps    \* instructions of a program

ASSUME VirtualMachineAssumption ==
  /\ Cells \in Nat \ {0} /\ StackCells \in Nat \ {0} /\ MaxSteps \in Nat
  /\ Addresses \subseteq 0..(Word - 1)

\* Numbers and registers, known by their names: what an operation lets reach math.
Operand == [kind : {"imm"}, n : Nat]
           \cup [kind : {"reg"}, group : {"rax", "rdx"}, field : {"q", "d", "w", "h", "l"}]
           \cup [kind : {"reg"}, group : {"rsp"}, field : {"q", "d", "w", "l"}]

\* What the parser lets reach a push: a string is a sequence of characters, a register
\* one of those the machine holds.
ASSUME InstructionsAssumption ==
  \A i \in Instructions : i.op = "push" /\ Len(i.args) = 1 =>
    LET a == i.args[1] IN
      /\ a.kind \in {"imm", "str", "reg", "mem", "vec"}
      /\ a.kind \in {"str", "vec"} => a.chars \in Seq(0..(Word - 1))
      /\ a.kind = "reg" => a \in Operand

ASSUME OperandsAssumption ==
  \A i \in Instructions : i.op \in {"add", "sub", "mul", "div"} =>
    i.args \in Seq(Operand)

VARIABLES status,    \* "running", or how the process ended
          sp, stack, \* stackPhysicalPointer, stack
          mp, memory,            \* memoryPhysicalPointer, memory
          heapList, heapUsed,    \* #usedPointersForHeap, usedHeapSize
          memList,               \* #usedPointersForMemory
          reg,                   \* the groups rax, rdx and rsp
          out,                   \* what the last print wrote
          \* Not in the code: what the properties speak about.
          pushed,    \* what each entry of the stack stands for, and where it lies
          poked,     \* the cells written through a pointer
          live,      \* the blocks of the heap a program holds
          clean,     \* every block was disjoint and freed by its own address
          steps

machine == <<sp, stack, mp, memory, heapList, heapUsed, memList, reg, out>>
ghosts  == <<pushed, poked, live, clean>>
vars    == <<status, machine, ghosts, steps>>

Running == status = "running" /\ steps < MaxSteps

None == [kind |-> "none"]

--------------------------------------------------------------------------------
\* Sizes of numbers

IsUint8(n)  == n < Byte
IsUint16(n) == Byte <= n /\ n < Word

\* The pointer [n] of a program: the literal is made hexadecimal and read again as
\* decimal digits.  -1 stands for NaN.
Reread(n) == LET hi == n \div 16  lo == n % 16 IN
             IF n < 10 THEN n ELSE IF hi = 0 \/ hi > 9 THEN -1
             ELSE IF lo > 9 THEN hi ELSE 10 * hi + lo

--------------------------------------------------------------------------------
\* The ways a process ends.  What it had already written is not seen by anyone.

End(how) == status' = how /\ UNCHANGED <<machine, ghosts>>

\* HardwareException.except: a message and process.exit()
Except == End("refused")

\* an exception of JavaScript nobody catches
Crash == End("crashed")

StackOverflow  == sp >= StackCells
StackUnderflow == sp < 0
HeapOverflow   == heapUsed >= Cells
MemoryOverflow == mp >= Cells

--------------------------------------------------------------------------------
\* The stack and the memory

\* Mutant: a number without the zero that says it is one.
NumberWordsBare(n) == IF IsUint8(n) THEN <<n, 0>> ELSE <<n % Byte, 0>>

\* The words a value takes in the memory.  A number is led by a zero; only a small
\* one is kept whole.
NumberWords(n) == IF IsUint8(n) THEN <<0, n>> ELSE <<n % Byte, 0>>

RegisterWords(r) ==
  LET v == reg[r.group][r.field] IN
  CASE r.field \in {"w", "h", "l"} -> <<0, v>>
    [] r.field = "d" -> <<0, v % Word, v \div Word>>
    [] r.field = "q" -> <<0>> \o [i \in 1..4 |-> (v \div Word^(i - 1)) % Word]

\* memory.at
At(p) == IF p \in 0..(Cells - 1) THEN memory[p] ELSE 0

Pointer(a) == IF a.ptr = "reg" THEN reg[a.group][a.field] ELSE Reread(a.n)

PushWords(a) ==
  CASE a.kind = "imm" -> NumberWords(a.n)
    [] a.kind = "str" -> Append(a.chars, 0)
    [] a.kind = "reg" -> RegisterWords(a)
    [] a.kind = "mem" -> NumberWords(At(Pointer(a)))
    [] a.kind = "vec" -> Append(a.chars, 0)

\* What the entry of a push stands for: a number that can be told from its words, a
\* string of characters none of which is the zero that ends it, or something else.
Meaning(a) ==
  LET n == IF a.kind = "imm" THEN a.n
           ELSE IF a.kind = "mem" THEN At(Pointer(a))
           ELSE IF a.kind = "reg" THEN reg[a.group][a.field] ELSE 0
  IN IF a.kind = "str" /\ a.chars # <<>> /\ 0 \notin Range(a.chars)
       THEN [kind |-> "str", v |-> a.chars]
     ELSE IF a.kind \in {"imm", "mem"} /\ IsUint8(n) /\ n > 0
       THEN [kind |-> "num", v |-> n]
     ELSE IF a.kind = "reg" /\ a.field # "d" /\ a.field # "q" /\ n > 0
       THEN [kind |-> "num", v |-> n]
     ELSE IF a.kind = "reg" /\ a.field = "d" /\ n % Word > 0 /\ n >= Word
       THEN [kind |-> "num", v |-> IF 2 * n >= DWord THEN n - DWord ELSE n]
     ELSE None

\* Mutant: the address is written below the pointer.
StackWriteBelow(p, entries) ==
  /\ stack' = [i \in DOMAIN stack |-> IF i \in (sp - 1)..(sp + Len(entries) - 2)
                                      THEN p % Word ELSE stack[i]]
  /\ sp' = sp + Len(entries)
  /\ pushed' = pushed \o entries

\* #stack_micro_operation_push of an address, and $sp: a cell of the stack is a word
StackWrite(p, entries) ==
  /\ stack' = [i \in DOMAIN stack |-> IF i \in sp..(sp + Len(entries) - 1)
                                      THEN p % Word ELSE stack[i]]
  /\ sp' = sp + Len(entries)
  /\ pushed' = pushed \o entries

WriteWords(ws) ==
  /\ memory' = [i \in DOMAIN memory |-> IF i \in mp..(mp + Len(ws) - 1)
                                        THEN ws[i - mp + 1] ELSE memory[i]]
  /\ mp' = mp + Len(ws)

SetSp(r) == [r EXCEPT !.rsp = SetW(@, sp')]

\* @push: a vector is pushed a second time, as a string, by a nested call
Push(a) ==
  LET ws == PushWords(a)
      twice == a.kind = "vec"
      entry == [at |-> mp, len |-> Len(ws), means |-> Meaning(a)]
  IN IF StackOverflow \/ (a.kind = "mem" /\ a.ptr = "imm" /\ Pointer(a) \in {-1, 0})
       THEN Except
     ELSE IF sp < 0 THEN Crash
     ELSE IF twice /\ sp + 1 >= StackCells THEN Except
     ELSE IF mp + Len(ws) > Cells THEN Crash
     ELSE /\ StackWrite(mp, IF twice THEN <<entry, entry>> ELSE <<entry>>)
          /\ WriteWords(ws)
          /\ reg' = SetSp(reg)
          /\ UNCHANGED <<status, heapList, heapUsed, memList, out, poked, live, clean>>

\* Mutant: a pop that does not look for an empty stack.
PullUnchecked == StackOverflow

\* #stack_micro_operation_pull_address looks before the pointer moves: the first pop
\* of an empty stack finds a pointer that is not yet negative.
PullRefused == StackUnderflow \/ StackOverflow
Popped == IF sp = 0 THEN stack[StackCells - 1] ELSE stack[sp - 1]

StackPop ==
  /\ sp' = sp - 1
  /\ pushed' = IF pushed = <<>> THEN <<>> ELSE Front(pushed)
  /\ reg' = SetSp(reg)

\* @pop
Pop == IF PullRefused THEN Except
       ELSE /\ StackPop
            /\ UNCHANGED <<status, stack, mp, memory, heapList, heapUsed, memList, out,
                           poked, live, clean>>

\* memory_dump: the cells from p up to a zero
Dump(p) == LET ends == {q \in p..Cells : At(q) = 0}
           IN IF p > Cells THEN <<>>
              ELSE SubSeq([i \in 1..(Cells - p + 1) |-> At(p + i - 1)], 1, Min(ends) - p)

\* ostream_stdout: a leading zero says that a number follows, the cells up to the
\* next zero say of which size it is
Decode(p) ==
  LET ws == Dump(p + 1) IN
  IF p >= Cells \/ memory[p] # 0 THEN [kind |-> "str", v |-> Dump(p)]
  ELSE CASE Len(ws) = 1 -> [kind |-> "num", v |-> ws[1]]
         [] Len(ws) = 2 -> [kind |-> "num",
                            v |-> ws[1] + Word * (IF 2 * ws[2] >= Word THEN ws[2] - Word
                                                  ELSE ws[2])]
         [] Len(ws) = 3 -> [kind |-> "wide"]     \* cells past the end are read
         [] OTHER       -> [kind |-> "null"]

\* @system: 1 ends the program, 3 and 4 print and pop
System(n) ==
  IF ~IsUint8(n) \/ n \notin {1, 3, 4} THEN Except
  ELSE IF n = 1 THEN End("exited")
  ELSE IF PullRefused THEN Except
  ELSE /\ StackPop
       /\ out' = Decode(Popped)
       /\ UNCHANGED <<status, stack, mp, memory, heapList, heapUsed, memList,
                      poked, live, clean>>

--------------------------------------------------------------------------------
\* Arithmetic: the result goes to $eax and $edx

Value(x) == IF x.kind = "imm" THEN x.n ELSE reg[x.group][x.field]

Sum(xs) ==
  LET sum[n \in 0..Len(xs)] == IF n = 0 THEN 0 ELSE sum[n - 1] + xs[n] IN sum[Len(xs)]

Product(xs) ==
  LET product[n \in 0..Len(xs)] == IF n = 0 THEN 1 ELSE product[n - 1] * xs[n]
  IN product[Len(xs)]

\* One operand is its own second operand.
Operands(xs) == IF Len(xs) = 1 THEN <<xs[1], xs[1]>> ELSE xs

Whole(n) == [is |-> "whole", n |-> n]
Odd(what) == [is |-> what, n |-> 0]

Result(op, vs) ==
  LET a == Head(vs)  rest == Tail(vs)  by == Product(rest) IN
  CASE op = "add" -> Whole(a + Sum(rest))
    [] op = "sub" -> IF a < Sum(rest) THEN Odd("negative") ELSE Whole(a - Sum(rest))
    [] op = "mul" -> Whole(a * by)
    [] op = "div" -> IF by = 0 THEN Odd(IF a = 0 THEN "NaN" ELSE "Infinity")
                     ELSE IF a % by = 0 THEN Whole(a \div by) ELSE Odd("fraction")

\* math: a result of 64 bits is cut as JavaScript shifts it (>> 32 shifts by nothing);
\* no type fits a negative number or NaN, which no operand at all gives too, and no
\* register takes a fraction
Math(op, xs) ==
  LET r == Result(op, Operands([i \in DOMAIN xs |-> Value(xs[i])]))
      wide == r.n >= DWord
  IN IF Len(xs) \notin 1..6 THEN Except
     \* a 64-bit register is a BigInt: no sum with a number, no value for $eax
     ELSE IF \E i \in DOMAIN xs : xs[i].kind = "reg" /\ xs[i].field = "q" THEN Crash
     ELSE IF r.is \in {"negative", "NaN"} THEN Except
     ELSE IF r.is = "fraction" THEN Crash
     ELSE /\ reg' = [reg EXCEPT !.rax = SetD(@, IF wide THEN ToInt32(r.n) ELSE r.n),
                                !.rdx = SetD(@, IF wide THEN r.n % Word ELSE 0)]
          /\ UNCHANGED <<status, sp, stack, mp, memory, heapList, heapUsed, memList, out,
                         ghosts>>

--------------------------------------------------------------------------------
\* Movement

\* The setters set_register_by_name calls, one after the other, each with every name.
\* A name that is not its own is the default case of a setter.  That of $rcx looks at a
\* parameter only that of $rax has; that of the masks $k0..$k7 is told to refuse.
Groups == <<"rax", "rcx", "rdx", "rbx", "rsp", "rbp", "rsi", "rdi",
            "r8", "r9", "r10", "r11", "r12", "r13", "r14", "r15", "masks">>

DefaultCase == [g \in Range(Groups) |-> CASE g = "rcx"   -> "throws"
                                          [] g = "masks" -> "refuses"
                                          [] OTHER       -> "nothing"]

SetField(g, f, v) == CASE f = "d" -> SetD(g, v) [] f = "w" -> SetW(g, v)
                       [] f = "l" -> SetL(g, v) [] f = "h" -> SetH(g, v)

\* A number is no value for an array of 64-bit integers.
SetRegisterByName(r, v) ==
  LET own == Min({i \in DOMAIN Groups : Groups[i] = r.group})
      stops == {i \in DOMAIN Groups : i # own /\ DefaultCase[Groups[i]] # "nothing"}
      first == Min(stops \cup {Len(Groups) + 1})
  IN IF r.field = "q" /\ own < first THEN Crash
     ELSE IF stops = {}
       THEN /\ reg' = IF r.group \in DOMAIN reg
                      THEN [reg EXCEPT ![r.group] = SetField(@, r.field, v)] ELSE reg
            /\ UNCHANGED <<status, sp, stack, mp, memory, heapList, heapUsed, memList, out,
                           ghosts>>
     ELSE IF DefaultCase[Groups[first]] = "throws" THEN Crash ELSE Except

MaxValue(f) == CASE f \in {"h", "l"} -> Byte - 1 [] f = "w" -> Word - 1 [] f = "d" -> DWord - 1

\* inc: one below the largest value it starts again from 0
Inc(r) == LET v == reg[r.group][r.field] IN
          IF r.field = "q" THEN Crash
          ELSE SetRegisterByName(r, IF v + 1 = MaxValue(r.field) THEN 0 ELSE v + 1)

\* dec: stays at 0
Dec(r) == LET v == reg[r.group][r.field] IN
          IF r.field = "q" THEN Crash ELSE SetRegisterByName(r, IF v = 0 THEN 0 ELSE v - 1)

\* @mov [pointer], source: a source in brackets gives the pointer, not what it points to
MovToMemory(a, b) ==
  LET p == Pointer(a)
      v == IF b.kind = "imm" THEN b.n
           ELSE IF b.kind = "reg" THEN reg[b.group][b.field] ELSE Pointer(b)
      unread(x) == x.kind = "mem" /\ x.ptr = "imm" /\ Pointer(x) \in {-1, 0}
  IN IF unread(a) \/ unread(b) THEN Except
     ELSE IF p >= Cells THEN Crash
     ELSE /\ memory' = [memory EXCEPT ![p] = v % Word]
          /\ poked' = poked \cup {p}
          /\ UNCHANGED <<status, sp, stack, mp, heapList, heapUsed, memList, reg, out,
                         pushed, live, clean>>

--------------------------------------------------------------------------------
\* The heap: a list of the addresses in use, block after block, a zero after each

\* An address given out: on the stack, in $sp and in $ax
Return(p) ==
  /\ StackWrite(p, <<[at |-> p, len |-> 0, means |-> None]>>)
  /\ reg' = [SetSp(reg) EXCEPT !.rax = SetW(@, p)]

Extent(b) == b.p..(b.p + b.n - 1)

\* malloc: a random address; a size of one byte takes two addresses, of two bytes three.
\* The search repeats for a used first address, or for two used addresses in the other
\* case, so that a block may begin before or in the last address of another.
Malloc(size, p) ==
  LET n == IF IsUint8(size) THEN 2 ELSE 3
      used == Range(heapList)
      b == [p |-> p, n |-> n]
  IN IF HeapOverflow \/ size >= Word THEN Except
     ELSE IF sp < 0 \/ sp >= StackCells THEN Crash
     ELSE /\ IF n = 2 THEN p \notin used ELSE ~(p \in used /\ p + 1 \in used)
          /\ heapList' = heapList \o [i \in 1..n |-> p + i - 1] \o <<0>>
          /\ heapUsed' = heapUsed + n + 1
          /\ live' = Append(live, b)
          /\ clean' = (clean /\ p > 0 /\ \A i \in DOMAIN live : Extent(live[i]) \cap Extent(b) = {})
          /\ Return(p)
          /\ UNCHANGED <<status, mp, memory, memList, out, poked>>

\* The first entry equal to p, and the list without what is between it and the next zero
IndexOf(l, p) == Min({i \in DOMAIN l : l[i] = p})
RunEnd(l, i)  == Min({j \in i..Len(l) : l[j] = 0})
\* Mutant: only the first address of the block is taken from the list.
SpliceFirst(l, i) == RemoveAt(l, i)

Splice(l, i)  == SubSeq(l, 1, i - 1) \o SubSeq(l, RunEnd(l, i), Len(l))

\* free: of a number of 16 bits or a register of 16 bits; of a value that fits in a byte
\* it says that it is no pointer
Free(x) ==
  LET p == Value(x) IN
  IF (x.kind = "reg" /\ x.field # "w") \/ ~IsUint16(p) \/ p \notin Range(heapList) THEN Except
  ELSE LET i == IndexOf(heapList, p) IN
       /\ heapList' = Splice(heapList, i)
       /\ heapUsed' = heapUsed - (RunEnd(heapList, i) - i) - 1
       /\ LET own == {k \in DOMAIN live : live[k].p = p} IN
            /\ clean' = (clean /\ own # {})
            /\ live' = IF own = {} THEN live ELSE RemoveAt(live, Min(own))
       /\ UNCHANGED <<status, sp, stack, mp, memory, memList, reg, out, pushed, poked>>

\* calloc: the addresses from memoryPhysicalPointer on, which does not move
Calloc(count, size) ==
  IF MemoryOverflow \/ size \notin {1, 2} \/ count >= Word THEN Except
  ELSE IF sp < 0 \/ sp >= StackCells THEN Crash
  ELSE /\ memList' = memList \o [i \in 1..count |-> mp + i - 1] \o <<0>>
       /\ Return(mp)
       /\ UNCHANGED <<status, mp, memory, heapList, heapUsed, out, poked, live, clean>>

\* mem_free: of a register of 16 bits only
MemFree(x) ==
  LET p == Value(x) IN
  IF x.kind # "reg" \/ x.field # "w" \/ p \notin Range(memList) THEN Except
  ELSE /\ memList' = Splice(memList, IndexOf(memList, p))
       /\ UNCHANGED <<status, sp, stack, mp, memory, heapList, heapUsed, reg, out, ghosts>>

\* sizeof: of a number, the bytes it needs; of a register of up to 32 bits, its own
SizeOf(x) ==
  LET bytes == IF x.kind = "reg" THEN CASE x.field \in {"h", "l"} -> 1 [] x.field = "w" -> 2
                                        [] x.field = "d" -> 4 [] OTHER -> 0
               ELSE CASE x.n < Byte -> 1 [] IsUint16(x.n) -> 2
                      [] x.n >= Word /\ x.n < DWord -> 4 [] OTHER -> 8
  IN IF bytes = 0 THEN Except   \* a register of 64 bits is no argument of sizeof
     ELSE /\ reg' = [reg EXCEPT !.rax = SetD(@, bytes)]
          /\ UNCHANGED <<status, sp, stack, mp, memory, heapList, heapUsed, memList, out,
                         ghosts>>

\* @cpuid: the bits it collects are too many to be pushed, so it only looks for overflows
Cpuid == IF StackOverflow \/ HeapOverflow \/ MemoryOverflow THEN Except
         ELSE UNCHANGED <<status, machine, ghosts>>

--------------------------------------------------------------------------------
\* Programs: an instruction is its operation and its arguments

Imm(n)    == [kind |-> "imm", n |-> n]
Str(s)    == [kind |-> "str", chars |-> s]
Reg(g, f) == [kind |-> "reg", group |-> g, field |-> f]
MemImm(n) == [kind |-> "mem", ptr |-> "imm", n |-> n]
MemReg(g, f) == [kind |-> "mem", ptr |-> "reg", group |-> g, field |-> f]
Vec(s)    == [kind |-> "vec", chars |-> s]

Is(op, n) == {i \in Instructions : i.op = op /\ Len(i.args) = n}

DoPush    == Running /\ \E i \in Is("push", 1) : Push(i.args[1])
DoPop     == Running /\ \E i \in Is("pop", 0) : Pop
DoSystem  == Running /\ \E i \in Is("system", 1) : System(i.args[1].n)
DoMath    == Running /\ \E op \in {"add", "sub", "mul", "div"} :
                        \E i \in Instructions : i.op = op /\ Math(op, i.args)
DoMovReg  == Running /\ \E i \in Is("mov", 2) : /\ i.args[1].kind = "reg"
                                                /\ SetRegisterByName(i.args[1], Value(i.args[2]))
DoMov     == Running /\ \E i \in Is("mov", 2) : /\ i.args[1].kind = "mem"
                                                /\ MovToMemory(i.args[1], i.args[2])
DoInc     == Running /\ \E i \in Is("inc", 1) : Inc(i.args[1])
DoDec     == Running /\ \E i \in Is("dec", 1) : Dec(i.args[1])
DoMalloc  == Running /\ \E i \in Is("malloc", 1), p \in Addresses : Malloc(i.args[1].n, p)
DoFree    == Running /\ \E i \in Is("free", 1) : Free(i.args[1])
DoCalloc  == Running /\ \E i \in Is("calloc", 2) : Calloc(i.args[1].n, i.args[2].n)
DoMemFree == Running /\ \E i \in Is("mem_free", 1) : MemFree(i.args[1])
DoSizeOf  == Running /\ \E i \in Is("sizeof", 1) : SizeOf(i.args[1])
DoCpuid   == Running /\ \E i \in Is("cpuid", 0) : Cpuid

Init ==
  /\ status = "running" /\ steps = 0
  /\ sp = 0 /\ stack = [i \in 0..(StackCells - 1) |-> 0]
  /\ mp = 0 /\ memory = [i \in 0..(Cells - 1) |-> 0]
  /\ heapList = <<>> /\ heapUsed = 0 /\ memList = <<>>
  /\ reg = [rax |-> NewGroup({"q", "d", "w", "h", "l"}),
            rdx |-> NewGroup({"q", "d", "w", "h", "l"}),
            rsp |-> NewGroup({"q", "d", "w", "l"})]
  /\ out = None
  /\ pushed = <<>> /\ poked = {} /\ live = <<>> /\ clean = TRUE

Next == /\ steps' = steps + 1
        /\ \/ DoPush \/ DoPop \/ DoSystem \/ DoMath \/ DoMov \/ DoMovReg \/ DoInc \/ DoDec
           \/ DoMalloc \/ DoFree \/ DoCalloc \/ DoMemFree \/ DoSizeOf \/ DoCpuid

Spec == Init /\ [][Next]_vars

--------------------------------------------------------------------------------
\* Properties

TypeOK ==
  /\ status \in {"running", "exited", "refused", "crashed"}
  /\ sp \in -1..StackCells /\ mp \in 0..Cells
  /\ \A i \in DOMAIN stack : stack[i] \in 0..(Word - 1)
  /\ \A i \in DOMAIN memory : memory[i] \in 0..(Word - 1)
  /\ sp >= 0 => Len(pushed) = sp

\* hardware.js 1333-1396 and 1179-1233: what a push laid out in the memory is what a
\* print of that entry shows, however many entries were pushed, popped or allocated
\* since: a small number, a register of 8, 16 or 32 bits without a zero word, a string.
\* Three things break it in this code and are left out: an address of more than a word
\* (a cell of the stack keeps the low bits), a cell written through a pointer, and a
\* number whose words run into a string pushed right after it.
Readable ==
  \A i \in DOMAIN pushed :
    LET e == pushed[i] IN
    ( /\ e.means # None /\ e.at < Word
      /\ poked \cap (e.at..(e.at + e.len)) = {}
      /\ e.means.kind = "num" => At(e.at + e.len) = 0 )
    => Decode(stack[i - 1]) = e.means

\* hardware.js 1641-1679 and 1725-1747: while a program holds disjoint blocks and frees
\* them by the address it was given, the list holds exactly its blocks, each closed by a
\* zero, and usedHeapSize is their addresses with one terminator each.
HeapAccounted ==
  clean =>
    /\ heapUsed = Cardinality(Range(heapList) \ {0}) + Len(live)
    /\ Range(heapList) \ {0} = UNION {Extent(live[i]) : i \in DOMAIN live}
    /\ \A i \in DOMAIN live : LET j == IndexOf(heapList, live[i].p) IN
         SubSeq(heapList, j, j + live[i].n) = [k \in 1..live[i].n |-> live[i].p + k - 1] \o <<0>>

\* hardware.js 402-1024: the names of a register agree after any sequence of writes, by
\* arithmetic, allocation or the stack pointer, even one that leaks into the upper bits.
RegistersCoherent == \A g \in DOMAIN reg : Coherent(reg[g])

\* hardware.js 1259-1288 and 1398-1403: the stack is a bounded stack of words, and the
\* pop of an empty one, which is let through, is the last thing that happens to it.
StackSpec == INSTANCE VirtualStack WITH
    Words <- 0..(Word - 1), Capacity <- StackCells,
    items <- IF sp < 0 THEN <<>> ELSE [i \in 1..sp |-> stack[i - 1]],
    broken <- (status # "running" \/ sp < 0)
StackRefines == StackSpec!Spec

\* examples/movq.asmx:4-6: after "@mov $eax, 14" the value is pushed and printed.
MovesGoOn == [][DoMovReg => status' = "running"]_vars
================================================================================
