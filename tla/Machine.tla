------------------------------- MODULE Machine -------------------------------
(***************************************************************************)
(* The part of an x86-64 processor that the expressions of Raptor use:     *)
(* registers of eight bytes with narrower names, a memory of bytes, a      *)
(* stack that grows down.  A byte has Byte values, not 256: the width of   *)
(* an operand stays visible and numbers stay small.                        *)
(*                                                                         *)
(* A state m of the machine is [reg, mem, log]: log is the list of the     *)
(* calls so far, with the arguments and the stack pointer the callee finds.                     *)
(***************************************************************************)
EXTENDS Integers, Sequences, FiniteSetsExt, SequencesExt

CONSTANTS
  Byte,        \* number of values of a byte
  Top,         \* number of bytes of the memory
  Functions,   \* name -> [ps, ret, sg, ctor, id], see Signature
  Globals      \* name -> address

ASSUME MachineAssumption ==
  /\ Byte \in Nat \ {0, 1} /\ Top \in Nat
  /\ \A f \in DOMAIN Functions :
       /\ Functions[f].ps \in Seq(Nat \ {0})   \* size of each parameter
       /\ Functions[f].ret \in Nat \ {0}       \* size of what it returns
       /\ Functions[f].ctor \in BOOLEAN        \* the first one is `this`
  /\ \A g \in DOMAIN Globals : Globals[g] \in 0..Top - 1

ArgRegs == <<"rdi", "rsi", "rdx", "rcx", "r8", "r9">>
Registers == {"rax", "r10", "r11", "rsp", "rbp"} \cup {ArgRegs[k] : k \in 1..6}
CallerSaved == Registers \ {"rsp", "rbp"}

-----------------------------------------------------------------------------
(* Numbers of n bytes.                                                      *)
W(n) == Byte^n
Low(v, n) == v % W(n)
Signed(v, n) == IF 2 * v >= W(n) THEN v - W(n) ELSE v
Num(v, n, sg) == IF sg THEN Signed(Low(v, n), n) ELSE Low(v, n)

(* Products stay below the integers of TLC: one factor is cut in two.       *)
Product(a, b) ==
  LET half == W(4) IN
  Low(Low(a * (b \div half), 4) * half + a * (b % half), 8)

Sign(a) == IF a < 0 THEN -1 ELSE 1
Magnitude(a) == Sign(a) * a
Quotient(a, b) == Sign(a) * Sign(b) * (Magnitude(a) \div Magnitude(b))
Remainder(a, b) == a - b * Quotient(a, b)

Bytes(v, n) == [k \in 1..n |-> (v \div W(k - 1)) % Byte]
(* Addresses wrap at Top; a program that goes there is wrong anyway.        *)
Peek(mem, a, n) == [k \in 1..n |-> mem[(a + k - 1) % Top]]
Poke(mem, a, bytes) ==
  [x \in DOMAIN mem |->
     IF x \in a..a + Len(bytes) - 1 THEN bytes[x - a + 1] ELSE mem[x]]
Load(mem, a, n) == MapThenSumSet(LAMBDA k : mem[(a + k) % Top] * W(k), 0..n - 1)
Store(mem, a, n, v) == Poke(mem, a, Bytes(v, n))

-----------------------------------------------------------------------------
(* Operands.                                                                *)
Reg(r) == [k |-> "reg", r |-> r]
Imm(v) == [k |-> "imm", v |-> v]
Mem(base, disp) == [k |-> "mem", base |-> base, disp |-> disp]
Sib(base, index, scale) ==
  [k |-> "sib", base |-> base, index |-> index, scale |-> scale]
Rip(g, by) == [k |-> "rip", g |-> g, by |-> by]

Ea(m, o) ==
  CASE o.k = "mem" -> Low(m.reg[o.base] + o.disp, 8)
    [] o.k = "sib" -> Low(m.reg[o.base] + Product(m.reg[o.index], o.scale), 8)
    [] o.k = "rip" -> Globals[o.g] + o.by

Get(m, o, n) ==
  CASE o.k = "reg" -> Low(m.reg[o.r], n)
    [] o.k = "imm" -> Low(o.v, n)
    [] OTHER -> Load(m.mem, Ea(m, o), n)

(* Four bytes clear the upper half of a register, fewer keep the rest.      *)
Put(m, o, n, v) ==
  IF o.k = "reg"
  THEN LET old == m.reg[o.r]
           kept == IF n < 4 THEN old - Low(old, n) ELSE 0
       IN  [m EXCEPT !.reg[o.r] = kept + Low(v, n)]
  ELSE [m EXCEPT !.mem = Store(m.mem, Ea(m, o), n, Low(v, n))]

-----------------------------------------------------------------------------
(* Instructions.  ext stands for movzx, movsx and movsxd; isz and nz for    *)
(* the cmp, set and movzx that turn a register into 0 or 1; cmp for the     *)
(* three that leave a comparison in rax; copy for rep movsb.                *)
I(op, n, d, s) == [op |-> op, n |-> n, d |-> d, s |-> s]
Ext(sg, n, d, s) == [op |-> "ext", n |-> n, d |-> d, s |-> s, sg |-> sg]
Div(sg, n) == [op |-> "div", n |-> n, sg |-> sg]
Cmp(rel, sg, n) == [op |-> "cmp", n |-> n, rel |-> rel, sg |-> sg]
Copy(d, s, n) == [op |-> "copy", n |-> n, d |-> d, s |-> s]
Call(f) == [op |-> "call", f |-> f]

Push(r) == I("push", 8, Reg(r), Imm(0))
Pop(r) == I("pop", 8, Reg(r), Imm(0))
Mov(d, s) == I("mov", 8, Reg(d), Reg(s))
Sub(n) == IF n = 0 THEN <<>> ELSE <<I("sub", 8, Reg("rsp"), Imm(n))>>
Add(n) == IF n = 0 THEN <<>> ELSE <<I("add", 8, Reg("rsp"), Imm(n))>>

Holds(rel, a, b) ==
  CASE rel = "==" -> a = b  [] rel = "!=" -> a # b
    [] rel = "<" -> a < b   [] rel = "<=" -> a <= b
    [] rel = ">" -> a > b   [] rel = ">=" -> a >= b
Bit(p) == IF p THEN 1 ELSE 0

(* What a callee finds: scalars by value, larger things by address, and     *)
(* the arguments after the sixth on the stack.                              *)
Argument(m, at, k, n) ==
  LET word == IF k <= 6 THEN m.reg[ArgRegs[k]]
                        ELSE Load(m.mem, at + 8 * (k - 7), 8)
  IN  IF n > 8 THEN Peek(m.mem, Low(word, 8) % (Top - n), n) ELSE Low(word, n)

(* What functions return depends on all their arguments.                    *)
Weight(arg, n) == IF n > 8 THEN FoldLeft(LAMBDA a, b : a + b, 0, arg) ELSE arg
Mix(f, args) ==
  FoldLeftDomain(LAMBDA a, k : Low(3 * a + Weight(args[k], Functions[f].ps[k]), 8),
                 Functions[f].id, args)
Filled(f, args, n) == [k \in 1..n |-> (Mix(f, args) + k) % Byte]

(* A callee destroys the registers it may and the memory below the stack    *)
(* pointer.  A constructor fills the object at its first argument, which is *)
(* all it is told of it; a large result goes where the hidden pointer, the  *)
(* first argument, says; a middle one comes back in rax and rdx.            *)
Callee(m, f) ==
  LET sig == Functions[f]
      hidden == Bit(sig.ret > 16 /\ ~sig.ctor)
      first == Bit(sig.ctor) + hidden
      args == [k \in 1..Len(sig.ps) |->
                 Argument(m, m.reg["rsp"], k + first, sig.ps[k])]
      at == m.reg["rdi"] % (Top - sig.ret)
      bytes == Filled(f, args, sig.ret)
      trash == [x \in DOMAIN m.mem |->
                  IF x < m.reg["rsp"] THEN Byte - 1 ELSE m.mem[x]]
      junk == [r \in Registers |->
                 IF r \in CallerSaved THEN W(8) - 2 ELSE m.reg[r]]
      two == [k \in 1..16 |-> IF k <= sig.ret THEN bytes[k] ELSE 0]
      word(k) == MapThenSumSet(LAMBDA j : two[k + j] * W(j), 0..7)
  IN  [reg |-> IF sig.ctor \/ sig.ret > 16 THEN junk
               ELSE IF sig.ret > 8
               THEN [junk EXCEPT !["rax"] = word(1), !["rdx"] = word(9)]
               ELSE [junk EXCEPT !["rax"] =
                       W(8) - W(sig.ret) + Low(Mix(f, args), sig.ret)],
       mem |-> IF first = 1 THEN Poke(trash, at, bytes) ELSE trash,
       log |-> Append(m.log, [f |-> f, args |-> args, rsp |-> m.reg["rsp"]])]

Divide(m, i) ==
  LET a == IF i.sg THEN Signed(Low(m.reg["rax"], i.n), i.n)
                   ELSE Low(m.reg["rax"], i.n)
      b == Num(m.reg["rcx"], i.n, i.sg)
      with == Put(m, Reg("rax"), i.n, IF b = 0 THEN 0 ELSE Quotient(a, b))
  IN  Put(with, Reg("rdx"), i.n, IF b = 0 THEN 0 ELSE Remainder(a, b))

Execute(m, i) ==
  CASE i.op = "mov" -> Put(m, i.d, i.n, Get(m, i.s, i.n))
    [] i.op = "ext" -> Put(m, i.d, 8, Low(Num(Get(m, i.s, i.n), i.n, i.sg), 8))
    [] i.op = "lea" -> Put(m, i.d, 8, Ea(m, i.s))
    [] i.op = "push" ->
         LET down == [m EXCEPT !.reg["rsp"] = @ - 8]
         IN  Put(down, Mem("rsp", 0), 8, m.reg[i.d.r])
    [] i.op = "pop" ->
         [m EXCEPT !.reg = [@ EXCEPT ![i.d.r] = Load(m.mem, m.reg["rsp"], 8),
                                     !["rsp"] = @ + 8]]
    [] i.op = "add" -> Put(m, i.d, i.n, Get(m, i.d, i.n) + Get(m, i.s, i.n))
    [] i.op = "sub" -> Put(m, i.d, i.n, Get(m, i.d, i.n) - Get(m, i.s, i.n))
    [] i.op = "imul" -> Put(m, i.d, i.n, Product(Get(m, i.d, i.n), Get(m, i.s, i.n)))
    [] i.op = "neg" -> Put(m, i.d, i.n, -Get(m, i.d, i.n))
    [] i.op = "and" -> Put(m, i.d, 8, Bit(Get(m, i.d, 8) = 1 /\ Get(m, i.s, 8) = 1))
    [] i.op = "or" -> Put(m, i.d, 8, Bit(Get(m, i.d, 8) # 0 \/ Get(m, i.s, 8) # 0))
    [] i.op = "isz" -> Put(m, i.d, 8, Bit(Get(m, i.d, 8) = 0))
    [] i.op = "nz" -> Put(m, i.d, 8, Bit(Get(m, i.d, 8) # 0))
    [] i.op = "cmp" ->
         LET truth == Bit(Holds(i.rel, Num(m.reg["rax"], i.n, i.sg),
                                       Num(m.reg["rcx"], i.n, i.sg)))
         IN  Put(Put(m, Reg("r8"), 8, truth), Reg("rax"), 8, truth)
    [] i.op = "div" -> Divide(m, i)
    [] i.op = "copy" ->
         LET from == m.reg[i.s] % (Top - i.n)
             to == m.reg[i.d] % (Top - i.n)
         IN  [m EXCEPT !.mem = Poke(@, to, Peek(@, from, i.n)),
                       !.reg = [@ EXCEPT !["rdi"] = to + i.n,
                                         !["rsi"] = from + i.n, !["rcx"] = 0]]
    [] i.op = "call" -> Callee(m, i.f)
=============================================================================
