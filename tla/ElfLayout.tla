----------------------------- MODULE ElfLayout -----------------------------
(***************************************************************************)
(* The layout and the assembly of the file that the AsmX hardware compiler *)
(* (hwc/main.cts, hwc/linker-strategy.cts) writes.                         *)
(*                                                                         *)
(* finalizeLayout walks the list of required sections once per class and   *)
(* gives each section a file offset and an address; assembleFinalElf then  *)
(* pushes the headers, the padding and the section data into one buffer.   *)
(* The two agree only if no section was put on top of another one, so the  *)
(* offsets the headers promise are compared here with the positions at     *)
(* which the bytes are really written.                                     *)
(***************************************************************************)
EXTENDS Integers, Sequences, FiniteSets

CONSTANTS
  SectionNames, \* the names a section may have
  Tables        \* the lists of required sections that may reach the layout

VARIABLES
  format,     \* "exec", "so" or "ko": the LinkerStrategy in use
  table,      \* requiredSections: what the layout reads of each section
  phase,      \* where finalizeLayout / assembleFinalElf stands
  sh_addr,    \* section -> address
  sh_offset,  \* section -> file offset
  cursor,     \* last section the current loop of the layout has gone through
  placed,     \* sections that were given their place, by any loop
  curOffset,  \* currentOffset, then currentNonAllocOffset
  curVAddr,   \* currentVAddr
  rxEndOffset,\* end in the file of the read-execute sections
  rxEndVAddr, \* and their end in memory
  phdrs,      \* programHeaders
  shoff,      \* sectionHeadersOffset
  at,         \* section -> position in the file at which its data is written
  filePos     \* currentFilePos: the length of the file written so far

layoutVars == <<format, table, phase, sh_addr, sh_offset, cursor, placed, curOffset,
                curVAddr, rxEndOffset, rxEndVAddr, phdrs, shoff, at, filePos>>

-----------------------------------------------------------------------------
EHDR == 64          \* elfHeaderSize
PHDR == 56          \* size of one program header
PAGE == 4096        \* pageAlign
Formats == {"exec", "so", "ko"}

(* getBaseAddress of the strategies *)
BaseAddress(f) == IF f = "exec" THEN 4194304 ELSE 0
Base == BaseAddress(format)

(* alignTo: clears the low bits of value + alignment - 1.  It is the mask   *)
(* of the code for the powers of two only.                                  *)
AlignTo(value, alignment) ==
  IF alignment <= 1 THEN value
  ELSE (value + alignment - 1) - ((value + alignment - 1) % alignment)

Larger(a, b) == IF a >= b THEN a ELSE b
Alignment(s) == Larger(s.align, 1)

(* What the layout reads of a section header; sh_addralign is a power of    *)
(* two for every section that has data (the driver may give .bss another    *)
(* alignment, but never puts data there).                                   *)
Alignments == {0, 1, 2, 4, 8, 16, 32, 64, 128, 256, 512, 1024, 2048, 4096}
Section == [name : SectionNames, alloc : BOOLEAN, write : BOOLEAN, nobits : BOOLEAN,
            align : Alignments, size : Nat]

ASSUME TablesAssumption ==
  \A t \in Tables : /\ t.format \in Formats
                    /\ t.table \in Seq(Section)
                    /\ \A i \in DOMAIN t.table :
                         t.table[i].name = ".dynamic" =>
                           t.table[i].alloc /\ t.table[i].write /\ t.table[i].size > 0

Sections == DOMAIN table
Has(name) == \E i \in Sections : table[i].name = name
SectionNamed(name) == CHOOSE i \in Sections : table[i].name = name

(* The three lists the layout filters out of the required sections.  The    *)
(* relocatable strategy has a single list.                                  *)
RxSections == {i \in Sections : table[i].alloc /\ ~table[i].write /\ table[i].size > 0}
RwSections == {i \in Sections : table[i].alloc /\ table[i].write /\ table[i].size > 0}
(* Mutant: the third list takes every section with data.                    *)
NonAllocUnfiltered == {i \in Sections : table[i].size > 0}

NonAlloc == {i \in Sections : ~table[i].alloc /\ table[i].size > 0}

NeedsRxLoad == \E i \in Sections : table[i].alloc
NeedsRwLoad == RwSections # {}

(* Mutant: no entry is counted for the DYNAMIC header.                      *)
PhdrCountNoDynamic ==
  1 + (IF Has(".interp") THEN 1 ELSE 0)
    + (IF NeedsRxLoad THEN 1 ELSE 0) + (IF NeedsRwLoad THEN 1 ELSE 0)

PhdrCount == 1 + (IF Has(".interp") THEN 1 ELSE 0) + (IF Has(".dynamic") THEN 1 ELSE 0)
               + (IF NeedsRxLoad THEN 1 ELSE 0) + (IF NeedsRwLoad THEN 1 ELSE 0)

(* forEach goes through a list in the order of the table.                   *)
Rest(list) == {j \in list : j > cursor}
IsNext(i, list) == i \in Rest(list) /\ \A j \in Rest(list) : i <= j

-----------------------------------------------------------------------------
Idle(f, t) ==
  /\ format = f
  /\ table = t
  /\ phase = "start"
  /\ sh_addr = [i \in DOMAIN t |-> 0]
  /\ sh_offset = [i \in DOMAIN t |-> 0]
  /\ cursor = 0
  /\ placed = {}
  /\ curOffset = 0
  /\ curVAddr = 0
  /\ rxEndOffset = 0
  /\ rxEndVAddr = 0
  /\ phdrs = << >>
  /\ shoff = 0
  /\ at = [i \in DOMAIN t |-> 0]
  /\ filePos = 0

Init == \E t \in Tables : Idle(t.format, t.table)

(* The offset and the address where the first section may start: after the  *)
(* headers, on the alignment of the first allocated section.                *)
FirstAlignment ==
  LET allocated == {i \in Sections : table[i].alloc}
  IN IF allocated = {} THEN PAGE
     ELSE Alignment(table[CHOOSE i \in allocated : \A j \in allocated : i <= j])

StartDynamic ==
  /\ phase = "start"
  /\ format # "ko"
  /\ phase' = "rx"
  /\ cursor' = 0
  /\ curOffset' = AlignTo(EHDR + PhdrCount * PHDR, FirstAlignment)
  /\ curVAddr' = AlignTo(Base + EHDR + PhdrCount * PHDR, FirstAlignment)
  /\ UNCHANGED <<format, table, sh_addr, sh_offset, placed, rxEndOffset, rxEndVAddr, phdrs, shoff, at, filePos>>

(* Mutant: the address does not move past the section.                      *)
PlaceAllocSameAddress(i) ==
  LET addr == AlignTo(curVAddr, Alignment(table[i]))
      off  == AlignTo(curOffset, Alignment(table[i]))
  IN /\ sh_addr' = [sh_addr EXCEPT ![i] = addr]
     /\ sh_offset' = [sh_offset EXCEPT ![i] = off]
     /\ curVAddr' = addr
     /\ curOffset' = off + table[i].size
     /\ placed' = placed \cup {i}
     /\ cursor' = i
     /\ UNCHANGED <<format, table, phase, rxEndOffset, rxEndVAddr, phdrs, shoff, at, filePos>>

(* Mutant: the offset is the address less the base of an executable, in     *)
(* every format.                                                            *)
PlaceAllocFixedBase(i) ==
  LET addr == AlignTo(curVAddr, Alignment(table[i]))
  IN /\ sh_addr' = [sh_addr EXCEPT ![i] = addr]
     /\ sh_offset' = [sh_offset EXCEPT ![i] = addr - BaseAddress("exec")]
     /\ curVAddr' = addr + table[i].size
     /\ curOffset' = addr - BaseAddress("exec") + table[i].size
     /\ placed' = placed \cup {i}
     /\ cursor' = i
     /\ UNCHANGED <<format, table, phase, rxEndOffset, rxEndVAddr, phdrs, shoff, at, filePos>>

(* Both loops over allocated sections align offset and address separately.  *)
PlaceAlloc(i) ==
  LET addr == AlignTo(curVAddr, Alignment(table[i]))
      off  == AlignTo(curOffset, Alignment(table[i]))
  IN /\ sh_addr' = [sh_addr EXCEPT ![i] = addr]
     /\ sh_offset' = [sh_offset EXCEPT ![i] = off]
     /\ curVAddr' = addr + table[i].size
     /\ curOffset' = off + table[i].size
     /\ placed' = placed \cup {i}
     /\ cursor' = i
     /\ UNCHANGED <<format, table, phase, rxEndOffset, rxEndVAddr, phdrs, shoff, at, filePos>>

PlaceRx(i) == phase = "rx" /\ IsNext(i, RxSections) /\ PlaceAlloc(i)

(* Mutants: only the address, or neither, goes on to the next page.         *)
StartRwAddressOnly ==
  /\ phase = "rx"
  /\ Rest(RxSections) = {}
  /\ phase' = "rw"
  /\ cursor' = 0
  /\ rxEndOffset' = curOffset
  /\ rxEndVAddr' = curVAddr
  /\ curVAddr' = AlignTo(curVAddr, PAGE)
  /\ UNCHANGED <<format, table, sh_addr, sh_offset, placed, curOffset, phdrs, shoff, at, filePos>>

StartRwSamePage ==
  /\ phase = "rx"
  /\ Rest(RxSections) = {}
  /\ phase' = "rw"
  /\ cursor' = 0
  /\ rxEndOffset' = curOffset
  /\ rxEndVAddr' = curVAddr
  /\ UNCHANGED <<format, table, sh_addr, sh_offset, placed, curOffset, curVAddr, phdrs, shoff, at, filePos>>

(* The read-write sections start on a page of their own. *)
StartRw ==
  /\ phase = "rx"
  /\ Rest(RxSections) = {}
  /\ phase' = "rw"
  /\ cursor' = 0
  /\ rxEndOffset' = curOffset
  /\ rxEndVAddr' = curVAddr
  /\ curOffset' = AlignTo(curOffset, PAGE)
  /\ curVAddr' = AlignTo(curVAddr, PAGE)
  /\ UNCHANGED <<format, table, sh_addr, sh_offset, placed, phdrs, shoff, at, filePos>>

PlaceRw(i) == phase = "rw" /\ IsNext(i, RwSections) /\ PlaceAlloc(i)

ProgramHeader == [p_type : {"PHDR", "INTERP", "LOAD_RX", "LOAD_RW", "DYNAMIC"},
                  p_offset : Int, p_vaddr : Int, p_filesz : Int, p_memsz : Int]

Segment(type, offset, vaddr, filesz, memsz) ==
  [p_type |-> type, p_offset |-> offset, p_vaddr |-> vaddr,
   p_filesz |-> filesz, p_memsz |-> memsz]

SegmentOf(type, name) ==
  LET i == SectionNamed(name)
  IN Segment(type, sh_offset[i], sh_addr[i], table[i].size, table[i].size)

FirstRw == CHOOSE i \in RwSections : \A j \in RwSections : i <= j

When(cond, seq) == IF cond THEN seq ELSE << >>

ProgramHeaders ==
  LET phdrTableSize == PhdrCount * PHDR
      loadRx == Segment("LOAD_RX", 0, Base, rxEndOffset, rxEndVAddr - Base)
      loadRw == Segment("LOAD_RW", sh_offset[FirstRw], sh_addr[FirstRw],
                        curOffset - sh_offset[FirstRw], curVAddr - sh_addr[FirstRw])
  IN <<Segment("PHDR", EHDR, Base + EHDR, phdrTableSize, phdrTableSize)>>
       \o When(Has(".interp"), <<SegmentOf("INTERP", ".interp")>>)
       \o When(NeedsRxLoad, <<loadRx>>)
       \o When(NeedsRwLoad, <<loadRw>>)
       \o When(Has(".dynamic"), <<SegmentOf("DYNAMIC", ".dynamic")>>)

(* Mutant: they follow the read-execute sections, whatever comes after.     *)
GenerateProgramHeadersAfterRx ==
  /\ phase = "rw"
  /\ Rest(RwSections) = {}
  /\ phase' = "nonalloc"
  /\ cursor' = 0
  /\ phdrs' = ProgramHeaders
  /\ curOffset' = IF NeedsRxLoad THEN rxEndOffset ELSE EHDR + PhdrCount * PHDR
  /\ UNCHANGED <<format, table, sh_addr, sh_offset, placed, curVAddr, rxEndOffset, rxEndVAddr, shoff, at, filePos>>

(* The sections without an address follow the last segment of the file.     *)
GenerateProgramHeaders ==
  /\ phase = "rw"
  /\ Rest(RwSections) = {}
  /\ phase' = "nonalloc"
  /\ cursor' = 0
  /\ phdrs' = ProgramHeaders
  /\ curOffset' = CASE NeedsRwLoad -> curOffset
                    [] ~NeedsRwLoad /\ NeedsRxLoad -> rxEndOffset
                    [] OTHER -> EHDR + PhdrCount * PHDR
  /\ UNCHANGED <<format, table, sh_addr, sh_offset, placed, curVAddr, rxEndOffset, rxEndVAddr, shoff, at, filePos>>

PlaceNonAlloc(i) ==
  LET off == AlignTo(curOffset, Alignment(table[i]))
  IN /\ phase = "nonalloc"
     /\ IsNext(i, NonAlloc)
     /\ sh_offset' = [sh_offset EXCEPT ![i] = off]
     /\ sh_addr' = [sh_addr EXCEPT ![i] = 0]
     /\ curOffset' = off + table[i].size
     /\ placed' = placed \cup {i}
     /\ cursor' = i
     /\ UNCHANGED <<format, table, phase, curVAddr, rxEndOffset, rxEndVAddr, phdrs, shoff, at, filePos>>

(* Mutant: the sections of a module start at the ELF header.                *)
StartRelocatableAtZero ==
  /\ phase = "start"
  /\ format = "ko"
  /\ phase' = "ko"
  /\ cursor' = 0
  /\ curOffset' = 0
  /\ UNCHANGED <<format, table, sh_addr, sh_offset, placed, curVAddr, rxEndOffset, rxEndVAddr,
                 phdrs, shoff, at, filePos>>

(* The relocatable strategy: one list, no addresses, no program headers.     *)
StartRelocatable ==
  /\ phase = "start"
  /\ format = "ko"
  /\ phase' = "ko"
  /\ cursor' = 0
  /\ curOffset' = AlignTo(EHDR, 16)
  /\ UNCHANGED <<format, table, sh_addr, sh_offset, placed, curVAddr, rxEndOffset, rxEndVAddr,
                 phdrs, shoff, at, filePos>>

(* Mutant: the loop does not get past an empty section.                     *)
PlaceRelocatableStuck(i) ==
  LET off == AlignTo(curOffset, Alignment(table[i]))
  IN /\ phase = "ko"
     /\ IsNext(i, Sections)
     /\ table[i].size > 0
     /\ placed' = placed \cup {i}
     /\ cursor' = i
     /\ sh_offset' = [sh_offset EXCEPT ![i] = off]
     /\ curOffset' = off + table[i].size
     /\ UNCHANGED <<format, table, phase, sh_addr, curVAddr, rxEndOffset, rxEndVAddr, phdrs, shoff,
                    at, filePos>>

PlaceRelocatable(i) ==
  LET off == AlignTo(curOffset, Alignment(table[i]))
  IN /\ phase = "ko"
     /\ IsNext(i, Sections)
     /\ placed' = placed \cup {i}
     /\ cursor' = i
     /\ IF table[i].size > 0
          THEN /\ sh_offset' = [sh_offset EXCEPT ![i] = off]
               /\ curOffset' = off + table[i].size
          ELSE /\ sh_offset' = [sh_offset EXCEPT ![i] = 0]
               /\ curOffset' = curOffset
     /\ UNCHANGED <<format, table, phase, sh_addr, curVAddr, rxEndOffset, rxEndVAddr, phdrs, shoff,
                    at, filePos>>

(* The section header table comes after all section data.                   *)
FinishLayout ==
  /\ \/ phase = "nonalloc" /\ Rest(NonAlloc) = {}
     \/ phase = "ko" /\ Rest(Sections) = {}
  /\ phase' = "laidout"
  /\ shoff' = AlignTo(curOffset, 8)
  /\ UNCHANGED <<format, table, sh_addr, sh_offset, cursor, placed, curOffset, curVAddr, rxEndOffset,
                 rxEndVAddr, phdrs, at, filePos>>

-----------------------------------------------------------------------------
(* assembleFinalElf: the headers, then the data sorted by sh_offset, each   *)
(* piece padded up to the offset it should have, then the section headers.  *)
StartAssembly ==
  /\ phase = "laidout"
  /\ phase' = "write"
  /\ filePos' = EHDR + Len(phdrs) * PHDR
  /\ UNCHANGED <<format, table, sh_addr, sh_offset, cursor, placed, curOffset, curVAddr, rxEndOffset,
                 rxEndVAddr, phdrs, shoff, at>>

SectionsToWrite == {i \in Sections : sh_offset[i] > 0 /\ table[i].size > 0 /\ ~table[i].nobits}
Unwritten == {i \in SectionsToWrite : at[i] = 0}

WriteSection(i) ==
  /\ phase = "write"
  /\ i \in Unwritten
  /\ \A j \in Unwritten : \/ sh_offset[i] < sh_offset[j]
                          \/ sh_offset[i] = sh_offset[j] /\ i <= j
  /\ at' = [at EXCEPT ![i] = Larger(filePos, sh_offset[i])]
  /\ filePos' = Larger(filePos, sh_offset[i]) + table[i].size
  /\ UNCHANGED <<format, table, phase, sh_addr, sh_offset, cursor, placed, curOffset, curVAddr, rxEndOffset,
                 rxEndVAddr, phdrs, shoff>>

(* The section header table is pushed where filePos stands afterwards.      *)
FinishAssembly ==
  /\ phase = "write"
  /\ Unwritten = {}
  /\ phase' = "done"
  /\ filePos' = Larger(filePos, shoff)
  /\ UNCHANGED <<format, table, sh_addr, sh_offset, cursor, placed, curOffset, curVAddr, rxEndOffset,
                 rxEndVAddr, phdrs, shoff, at>>

LayoutStep ==
  \/ StartDynamic \/ StartRw \/ GenerateProgramHeaders
  \/ StartRelocatable \/ FinishLayout
  \/ \E i \in Sections : PlaceRx(i) \/ PlaceRw(i) \/ PlaceNonAlloc(i) \/ PlaceRelocatable(i)

AssemblyStep ==
  \/ StartAssembly \/ FinishAssembly
  \/ \E i \in Sections : WriteSection(i)

Next == LayoutStep \/ AssemblyStep

Spec == Init /\ [][Next]_layoutVars

-----------------------------------------------------------------------------
TypeOK ==
  /\ format \in Formats
  /\ table \in Seq(Section)
  /\ phase \in {"start", "rx", "rw", "nonalloc", "ko", "laidout", "write", "done"}
  /\ sh_addr \in [Sections -> Nat]
  /\ sh_offset \in [Sections -> Nat]
  /\ cursor \in Nat
  /\ placed \subseteq Sections
  /\ curOffset \in Nat
  /\ curVAddr \in Nat
  /\ rxEndOffset \in Nat
  /\ rxEndVAddr \in Nat
  /\ phdrs \in Seq(ProgramHeader)
  /\ shoff \in Nat
  /\ at \in [Sections -> Nat]
  /\ filePos \in Nat

Alloc == RxSections \cup RwSections

(* Sections that have been given room in the file.                          *)
Laid == {i \in placed : table[i].size > 0}

FileEnd(i) == sh_offset[i] + table[i].size
MemEnd(i) == sh_addr[i] + table[i].size

(* No two sections share a byte of the file: assembleFinalElf would log     *)
(* "FATAL: Section overlaps" and write one of them at another offset than   *)
(* its header says.                                                         *)
DisjointInFile ==
  \A i, j \in Laid : i # j => FileEnd(i) <= sh_offset[j] \/ FileEnd(j) <= sh_offset[i]

(* No two sections share a byte of memory once the segments are loaded.     *)
DisjointInMemory ==
  \A i, j \in Laid \cap Alloc :
    format # "ko" /\ i # j => MemEnd(i) <= sh_addr[j] \/ MemEnd(j) <= sh_addr[i]

(* No byte belongs to two sections, in the file or in memory.               *)
Disjoint == DisjointInFile /\ DisjointInMemory

(* The loader maps whole pages of the file, so the address of a section     *)
(* must be as far from the base as its bytes are from the start of the      *)
(* file, and both on the alignment the section asked for.                   *)
LoadedWhereMapped ==
  \A i \in Laid \cap Alloc :
    format # "ko" => /\ sh_addr[i] = Base + sh_offset[i]
                     /\ sh_addr[i] % Alignment(table[i]) = 0

Segments(type) == {k \in DOMAIN phdrs : phdrs[k].p_type = type}

Within(i, seg) == /\ seg.p_offset <= sh_offset[i]
                  /\ FileEnd(i) <= seg.p_offset + seg.p_filesz
                  /\ seg.p_vaddr <= sh_addr[i]
                  /\ MemEnd(i) <= seg.p_vaddr + seg.p_memsz

Exactly(i, seg) == /\ seg.p_offset = sh_offset[i] /\ seg.p_filesz = table[i].size
                   /\ seg.p_vaddr = sh_addr[i] /\ seg.p_memsz = table[i].size

(* The segment built for the read-execute sections covers the file header,  *)
(* the program header table and each of them; the read-write segment covers *)
(* each read-write section; and the two never meet in a page, or the loader *)
(* would give code write access or data execute access.  The DYNAMIC header *)
(* is exactly the section .dynamic, at its final place in the read-write    *)
(* segment: the loader reads the table there, through no section header.    *)
SegmentsCover ==
  phdrs # << >> =>
    /\ \A i \in RxSections : \E k \in Segments("LOAD_RX") : Within(i, phdrs[k])
    /\ \A i \in RwSections : \E k \in Segments("LOAD_RW") : Within(i, phdrs[k])
    /\ \A k \in Segments("PHDR"), l \in Segments("LOAD_RX") :
         phdrs[k].p_vaddr + phdrs[k].p_memsz <= phdrs[l].p_vaddr + phdrs[l].p_memsz
    /\ \A k \in Segments("LOAD_RX"), l \in Segments("LOAD_RW") :
         AlignTo(phdrs[k].p_vaddr + phdrs[k].p_memsz, PAGE)
           <= phdrs[l].p_vaddr - (phdrs[l].p_vaddr % PAGE)
    /\ Has(".dynamic") =>
         \E k \in Segments("DYNAMIC"), l \in Segments("LOAD_RW") :
           /\ Exactly(SectionNamed(".dynamic"), phdrs[k])
           /\ Within(SectionNamed(".dynamic"), phdrs[l])

(* What the section and program headers say of a byte's place is where the  *)
(* byte was written: no section is pushed into the headers or into another  *)
(* section, and the section header table is where the ELF header points.    *)
FileMatchesHeaders ==
  /\ \A i \in Sections : at[i] # 0 => at[i] = sh_offset[i]
  /\ phase = "done" => filePos = shoff

(* Once a section has its place the later loops never move it, although     *)
(* they write the same two fields.                                          *)
PlacedOnce ==
  [][\A i \in placed : sh_offset'[i] = sh_offset[i] /\ sh_addr'[i] = sh_addr[i]]_layoutVars

(* The file and the memory image are packed as Packing promises: each       *)
(* section gets room in one step, apart from all earlier ones, for good.    *)
Mapped == {i \in Laid \cap Alloc : format # "ko"}

File == INSTANCE Packing
          WITH room <- [i \in Laid |-> [start |-> sh_offset[i], end |-> FileEnd(i)]]
Memory == INSTANCE Packing
            WITH room <- [i \in Mapped |-> [start |-> sh_addr[i], end |-> MemEnd(i)]]

(* The layout of the file, and that of the memory image, implement Packing. *)
FilePacking == File!Spec
MemoryPacking == Memory!Spec

(* Sections are given room one after the other, in the file and in memory   *)
(* at once, behind what is there and never twice (finalizeLayout): no byte  *)
(* has two owners and no gap is filled later.                               *)
Packed == FilePacking /\ MemoryPacking

(* The inductive invariant behind these properties: both cursors move       *)
(* together, everything placed lies between the headers and the file        *)
(* cursor, and what is still to be written lies after what was written.     *)
HeaderEnd == EHDR + (IF format = "ko" THEN 0 ELSE PhdrCount * PHDR)

UpTo(list) == {j \in list : j <= cursor}

PhaseInv ==
  /\ phase = "start" => placed = {}
  /\ phase = "rx" => placed = UpTo(RxSections)
  /\ phase = "rw" => placed = RxSections \cup UpTo(RwSections)
  /\ phase = "nonalloc" => placed = Alloc \cup UpTo(NonAlloc)
  /\ phase = "ko" => placed = UpTo(Sections)
  /\ phase \in {"rx", "rw", "nonalloc"} => format # "ko"
  /\ phase = "ko" => format = "ko"

CursorInv ==
  /\ phase \in {"rx", "rw"} => curVAddr = Base + curOffset
  /\ phase # "start" => HeaderEnd <= curOffset
  /\ phase = "rw" => /\ HeaderEnd <= rxEndOffset
                     /\ \A i \in placed \cap RxSections : FileEnd(i) <= rxEndOffset
  /\ phase \in {"laidout", "write", "done"} => curOffset <= shoff

PlacedInv ==
  /\ \A i \in Sections : i \notin Laid => sh_offset[i] = 0
  /\ \A i \in Laid : HeaderEnd <= sh_offset[i] /\ FileEnd(i) <= curOffset
  /\ DisjointInFile
  /\ LoadedWhereMapped

HeadersInv ==
  /\ format = "ko" => phdrs = << >>
  /\ format # "ko" /\ phase \in {"nonalloc", "laidout"} => Len(phdrs) = PhdrCount

WriteInv ==
  /\ phase \notin {"write", "done"} => \A i \in Sections : at[i] = 0
  /\ phase = "write" => /\ filePos <= shoff
                        /\ \A i \in Unwritten : filePos <= sh_offset[i]
  /\ FileMatchesHeaders

LayoutInv == TypeOK /\ PhaseInv /\ CursorInv /\ PlacedInv /\ HeadersInv /\ WriteInv

(* Every list of sections ends in a written file.                           *)
Terminates == <>(phase = "done")
=============================================================================
