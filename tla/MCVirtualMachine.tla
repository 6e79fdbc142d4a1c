---------------------------- MODULE MCVirtualMachine ---------------------------
(***************************************************************************)
(* VirtualMachine with bytes of two bits: a word is 16, a double word 256. *)
(* The memory has more cells than a word can address; strings of seven     *)
(* characters get there in three pushes.                                   *)
(***************************************************************************)
EXTENDS VirtualMachine

AX  == Reg("rax", "w")
EAX == Reg("rax", "d")
SP  == Reg("rsp", "w")

I(op, args) == [op |-> op, args |-> args]

MCInstructions ==
  { I("push", <<Imm(3)>>), I("push", <<Imm(6)>>), I("push", <<Str(<<7, 5, 3, 1, 7, 5, 3>>)>>),
    I("push", <<EAX>>), I("push", <<SP>>), I("push", <<MemReg("rax", "w")>>),
    I("push", <<Vec(<<2, 1, 4>>)>>),
    I("pop", <<>>), I("system", <<Imm(3)>>), I("system", <<Imm(1)>>),
    I("mul", <<Imm(20), Imm(19)>>), I("add", <<EAX, Imm(19)>>), I("div", <<Imm(20), EAX>>),
    I("sub", <<EAX, Imm(3)>>), I("add", <<>>),
    I("mov", <<MemReg("rax", "w"), Imm(20)>>), I("mov", <<MemImm(20), SP>>),
    I("mov", <<AX, Imm(3)>>), I("inc", <<AX>>), I("dec", <<SP>>),
    I("malloc", <<Imm(3)>>), I("malloc", <<Imm(6)>>), I("free", <<AX>>), I("free", <<Imm(6)>>),
    I("calloc", <<Imm(3), Imm(2)>>), I("mem_free", <<AX>>),
    I("sizeof", <<EAX>>), I("cpuid", <<>>) }

MCAddresses  == {5, 6, 8}
================================================================================
