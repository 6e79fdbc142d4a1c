---------------------------- MODULE MCElfLayout ----------------------------
(***************************************************************************)
(* Section tables for ElfLayout.  The tables are those the hardware        *)
(* compiler builds (hwc/main.cts, initializeSections and the sections the  *)
(* drivers add), with sizes on both sides of the alignments and of a page. *)
(***************************************************************************)
EXTENDS ElfLayout

Sec(name, alloc, write, align, size) ==
  [name |-> name, alloc |-> alloc, write |-> write, nobits |-> FALSE,
   align |-> align, size |-> size]

Null == Sec("", FALSE, FALSE, 0, 0)
NoBits(align) == [Sec(".bss", TRUE, TRUE, align, 0) EXCEPT !.nobits = TRUE]

(* A program without external symbols: .text, perhaps constants, perhaps    *)
(* variables, perhaps the .bss of an uninitialised variable.                *)
StaticTables ==
  {<<Null>> \o text \o rodata \o data
     \o <<Sec(".symtab", FALSE, FALSE, 8, 120), Sec(".strtab", FALSE, FALSE, 1, 27),
          Sec(".shstrtab", FALSE, FALSE, 1, 33)>> \o bss :
     text \in {<< >>, <<Sec(".text", TRUE, FALSE, 16, 21)>>, <<Sec(".text", TRUE, FALSE, 16, 4096)>>},
     rodata \in {<< >>, <<Sec(".rodata", TRUE, FALSE, 8, 3)>>},
     data \in {<< >>, <<Sec(".data", TRUE, TRUE, 16, 5)>>, <<Sec(".data", TRUE, TRUE, 16, 4100)>>},
     bss \in {<< >>, <<NoBits(8)>>}}

(* With dynamic linking; .rela.* are empty or hold an entry each.  Only an  *)
(* executable names an interpreter.                                         *)
DynamicTables(interp) ==
  {<<Null>> \o interp
     \o <<Sec(".text", TRUE, FALSE, 16, text), Sec(".plt", TRUE, FALSE, 16, 32),
          Sec(".dynsym", TRUE, FALSE, 8, 48), Sec(".dynstr", TRUE, FALSE, 1, 3),
          Sec(".rela.dyn", TRUE, FALSE, 8, rela), Sec(".rela.plt", TRUE, FALSE, 8, 24),
          Sec(".data", TRUE, TRUE, 16, data), Sec(".got.plt", TRUE, TRUE, 8, 32),
          Sec(".dynamic", TRUE, TRUE, 8, 176), Sec(".hash", TRUE, FALSE, 8, 20),
          Sec(".shstrtab", FALSE, FALSE, 1, 80)>> :
     text \in {21, 3500}, rela \in {0, 24}, data \in {0, 5}}

(* A kernel module: sections sorted by type, .rela.text for the calls.      *)
ModuleTables ==
  {<<Null, Sec(".text", TRUE, FALSE, 16, text), Sec(".modinfo", FALSE, FALSE, 1, 11),
     Sec(".init.text", TRUE, FALSE, 16, init), Sec(".exit.text", TRUE, FALSE, 16, 0),
     Sec(".gnu.linkonce.this_module", TRUE, TRUE, 8, 72),
     Sec(".symtab", FALSE, FALSE, 8, 96), Sec(".strtab", FALSE, FALSE, 1, 17),
     Sec(".shstrtab", FALSE, FALSE, 1, 61), Sec(".rela.text", FALSE, FALSE, 8, 24)>> :
     text \in {0, 13}, init \in {0, 9}}

With(f, tables) == {[format |-> f, table |-> t] : t \in tables}

MCTables == With("exec", StaticTables \cup DynamicTables(<<Sec(".interp", TRUE, FALSE, 1, 28)>>))
              \cup With("so", DynamicTables(<< >>)) \cup With("ko", ModuleTables)

MCSectionNames == UNION {{t.table[k].name : k \in DOMAIN t.table} : t \in MCTables}
=============================================================================
