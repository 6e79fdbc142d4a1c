-------------------------- MODULE ElfLayoutProofs --------------------------
(***************************************************************************)
(* Proofs about ElfLayout for every list of sections.                      *)
(***************************************************************************)
EXTENDS ElfLayout, ListProofs, SequenceTheorems, TLAPS

-----------------------------------------------------------------------------
(* alignTo never moves a cursor back and stops on the alignment.            *)
LEMMA AlignToBounds ==
  ASSUME NEW v \in Nat, NEW a \in Alignments
  PROVE  /\ AlignTo(v, a) \in Nat
         /\ v <= AlignTo(v, a)
         /\ AlignTo(v, Larger(a, 1)) % Larger(a, 1) = 0
BY DEF AlignTo, Alignments, Larger

(* Both bases are multiples of every alignment: an offset and its address   *)
(* are aligned by the same amount of padding.                               *)
LEMMA AlignToShift ==
  ASSUME NEW v \in Nat, NEW a \in Alignments, NEW f \in Formats
  PROVE  AlignTo(BaseAddress(f) + v, a) = BaseAddress(f) + AlignTo(v, a)
BY DEF AlignTo, Alignments, BaseAddress, Formats

LEMMA LargerNat == ASSUME NEW a \in Alignments PROVE Larger(a, 1) \in Alignments
BY DEF Alignments, Larger

LEMMA BaseNat == ASSUME TypeOK PROVE Base \in Nat
BY DEF TypeOK, Base, BaseAddress, Formats

(* What the layout knows of an entry of the table. *)
LEMMA EntryType ==
  ASSUME TypeOK, NEW i \in Sections
  PROVE  /\ table[i].size \in Nat
         /\ table[i].align \in Alignments
         /\ Alignment(table[i]) \in Alignments
<1>1. table[i] \in Section
  BY DEF TypeOK, Sections
<1>2. table[i].size \in Nat /\ table[i].align \in Alignments
  BY <1>1 DEF Section
<1>. QED BY <1>2, LargerNat DEF Alignment

LEMMA FirstAlignmentType == ASSUME TypeOK PROVE FirstAlignment \in Alignments
<1>. DEFINE allocated == {i \in Sections : table[i].alloc}
<1>1. CASE allocated = {}
  BY <1>1 DEF FirstAlignment, PAGE, Alignments
<1>2. CASE allocated # {}
  <2>1. allocated \subseteq Nat /\ allocated \subseteq Sections
    BY DEF TypeOK, Sections
  <2>2. \E i \in allocated : \A j \in allocated : i <= j
    BY <2>1, <1>2, FirstOf
  <2>3. (CHOOSE i \in allocated : \A j \in allocated : i <= j) \in Sections
    BY <2>1, <2>2
  <2>. QED BY <2>3, <1>2, EntryType DEF FirstAlignment
<1>. QED BY <1>1, <1>2

(* Looking a section up by name, and the first of the read-write sections.  *)
LEMMA SectionNamedType ==
  ASSUME NEW name, Has(name)
  PROVE  SectionNamed(name) \in Sections /\ table[SectionNamed(name)].name = name
BY DEF Has, SectionNamed

LEMMA FirstRwType ==
  ASSUME TypeOK, RwSections # {}
  PROVE  FirstRw \in RwSections /\ \A j \in RwSections : FirstRw <= j
<1>1. RwSections \in SUBSET Nat
  BY DEF TypeOK, Sections, RwSections
<1>2. \E i \in RwSections : \A j \in RwSections : i <= j
  BY <1>1, FirstOf
<1>. QED BY <1>2 DEF FirstRw

(* The program headers, and how many there are: the number for which room   *)
(* was left between the ELF header and the first section.                   *)
LEMMA ProgramHeadersCorrect ==
  ASSUME TypeOK
  PROVE  /\ ProgramHeaders \in Seq(ProgramHeader)
         /\ Len(ProgramHeaders) = PhdrCount
<1>. DEFINE phdr == Segment("PHDR", EHDR, Base + EHDR, PhdrCount * PHDR, PhdrCount * PHDR)
            loadRx == Segment("LOAD_RX", 0, Base, rxEndOffset, rxEndVAddr - Base)
            loadRw == Segment("LOAD_RW", sh_offset[FirstRw], sh_addr[FirstRw],
                        curOffset - sh_offset[FirstRw], curVAddr - sh_addr[FirstRw])
            interp == SegmentOf("INTERP", ".interp")
            dynamic == SegmentOf("DYNAMIC", ".dynamic")
<1>1. PhdrCount \in Nat
  BY DEF PhdrCount
<1>2. phdr \in ProgramHeader
  BY <1>1, BaseNat DEF ProgramHeader, Segment, EHDR, PHDR
<1>3. loadRx \in ProgramHeader
  BY BaseNat DEF ProgramHeader, Segment, TypeOK
<1>4. ASSUME RwSections # {} PROVE loadRw \in ProgramHeader
  <2>1. FirstRw \in Sections
    BY <1>4, FirstRwType DEF RwSections
  <2>2. sh_offset[FirstRw] \in Nat /\ sh_addr[FirstRw] \in Nat
    BY <2>1 DEF TypeOK
  <2>. QED BY <2>2 DEF ProgramHeader, Segment, TypeOK
<1>5. ASSUME Has(".interp") PROVE interp \in ProgramHeader
  <2>1. SectionNamed(".interp") \in Sections
    BY <1>5, SectionNamedType
  <2>. QED BY <2>1, EntryType DEF SegmentOf, Segment, ProgramHeader, TypeOK
<1>6. ASSUME Has(".dynamic") PROVE dynamic \in ProgramHeader
  <2>1. SectionNamed(".dynamic") \in Sections
    BY <1>6, SectionNamedType
  <2>. QED BY <2>1, EntryType DEF SegmentOf, Segment, ProgramHeader, TypeOK
<1>7. /\ When(Has(".interp"), <<interp>>) \in Seq(ProgramHeader)
      /\ Len(When(Has(".interp"), <<interp>>)) = IF Has(".interp") THEN 1 ELSE 0
  BY <1>5 DEF When
<1>8. /\ When(NeedsRxLoad, <<loadRx>>) \in Seq(ProgramHeader)
      /\ Len(When(NeedsRxLoad, <<loadRx>>)) = IF NeedsRxLoad THEN 1 ELSE 0
  BY <1>3 DEF When
<1>9. /\ When(NeedsRwLoad, <<loadRw>>) \in Seq(ProgramHeader)
      /\ Len(When(NeedsRwLoad, <<loadRw>>)) = IF NeedsRwLoad THEN 1 ELSE 0
  BY <1>4 DEF When, NeedsRwLoad
<1>10. /\ When(Has(".dynamic"), <<dynamic>>) \in Seq(ProgramHeader)
       /\ Len(When(Has(".dynamic"), <<dynamic>>)) = IF Has(".dynamic") THEN 1 ELSE 0
  BY <1>6 DEF When
<1>11. <<phdr>> \in Seq(ProgramHeader) /\ Len(<<phdr>>) = 1
  BY <1>2
<1>12. ProgramHeaders = <<phdr>> \o When(Has(".interp"), <<interp>>)
                          \o When(NeedsRxLoad, <<loadRx>>)
                          \o When(NeedsRwLoad, <<loadRw>>)
                          \o When(Has(".dynamic"), <<dynamic>>)
  BY DEF ProgramHeaders
<1>. HIDE DEF phdr, interp, loadRx, loadRw, dynamic
<1>. QED BY <1>7, <1>8, <1>9, <1>10, <1>11, <1>12 DEF PhdrCount

-----------------------------------------------------------------------------
LEMMA CursorType ==
  ASSUME TypeOK, NEW i \in Sections
  PROVE  /\ AlignTo(curOffset, Alignment(table[i])) \in Nat
         /\ AlignTo(curVAddr, Alignment(table[i])) \in Nat
         /\ curOffset <= AlignTo(curOffset, Alignment(table[i]))
         /\ curVAddr <= AlignTo(curVAddr, Alignment(table[i]))
         /\ AlignTo(curVAddr, Alignment(table[i])) % Alignment(table[i]) = 0
<1>1. curOffset \in Nat /\ curVAddr \in Nat
  BY DEF TypeOK
<1>2. table[i].align \in Alignments /\ Alignment(table[i]) = Larger(table[i].align, 1)
  BY EntryType DEF Alignment
<1>. QED BY <1>1, <1>2, AlignToBounds, LargerNat

LEMMA PhdrCountType == PhdrCount \in 1..5
BY DEF PhdrCount

(* Every step keeps the types of the layout's variables.                    *)
LEMMA TypeStep ==
  ASSUME TypeOK, [Next]_layoutVars
  PROVE  TypeOK'
<1>1. CASE StartDynamic
  <2>1. EHDR + PhdrCount * PHDR \in Nat /\ Base + EHDR + PhdrCount * PHDR \in Nat
    BY PhdrCountType, BaseNat DEF EHDR, PHDR
  <2>2. curOffset' \in Nat /\ curVAddr' \in Nat
    BY <1>1, <2>1, FirstAlignmentType, AlignToBounds DEF StartDynamic
  <2>. QED BY <1>1, <2>2 DEF StartDynamic, TypeOK, Sections
<1>2. CASE StartRw
  <2>1. PAGE \in Alignments /\ curOffset \in Nat /\ curVAddr \in Nat
    BY DEF PAGE, Alignments, TypeOK
  <2>2. curOffset' \in Nat /\ curVAddr' \in Nat
    BY <1>2, <2>1, AlignToBounds DEF StartRw
  <2>. QED BY <1>2, <2>2 DEF StartRw, TypeOK, Sections
<1>3. CASE GenerateProgramHeaders
  <2>1. phdrs' \in Seq(ProgramHeader)
    BY <1>3, ProgramHeadersCorrect DEF GenerateProgramHeaders
  <2>2. curOffset' \in Nat
    BY <1>3, PhdrCountType DEF GenerateProgramHeaders, TypeOK, EHDR, PHDR
  <2>. QED BY <1>3, <2>1, <2>2 DEF GenerateProgramHeaders, TypeOK, Sections
<1>4. CASE StartRelocatable
  <2>1. curOffset' \in Nat
    BY <1>4, AlignToBounds DEF StartRelocatable, EHDR, Alignments
  <2>. QED BY <1>4, <2>1 DEF StartRelocatable, TypeOK, Sections
<1>5. CASE FinishLayout
  <2>1. shoff' \in Nat
    BY <1>5, AlignToBounds DEF FinishLayout, Alignments, TypeOK
  <2>. QED BY <1>5, <2>1 DEF FinishLayout, TypeOK, Sections
<1>6. ASSUME NEW i \in Sections, PlaceAlloc(i)
      PROVE TypeOK'
  <2>1. /\ AlignTo(curOffset, Alignment(table[i])) \in Nat
        /\ AlignTo(curVAddr, Alignment(table[i])) \in Nat
        /\ table[i].size \in Nat
    BY CursorType, EntryType
  <2>2. i \in Nat
    BY DEF Sections, TypeOK
  <2>3. sh_addr' \in [Sections -> Nat] /\ sh_offset' \in [Sections -> Nat]
    BY <1>6, <2>1 DEF PlaceAlloc, TypeOK
  <2>4. curOffset' \in Nat /\ curVAddr' \in Nat
    BY <1>6, <2>1 DEF PlaceAlloc
  <2>5. cursor' \in Nat /\ placed' \subseteq Sections
    BY <1>6, <2>2 DEF PlaceAlloc, TypeOK
  <2>. QED BY <1>6, <2>3, <2>4, <2>5 DEF PlaceAlloc, TypeOK, Sections
<1>7. ASSUME NEW i \in Sections, PlaceNonAlloc(i)
      PROVE TypeOK'
  <2>1. AlignTo(curOffset, Alignment(table[i])) \in Nat /\ table[i].size \in Nat
    BY CursorType, EntryType
  <2>2. i \in Nat
    BY DEF Sections, TypeOK
  <2>. QED BY <1>7, <2>1, <2>2 DEF PlaceNonAlloc, TypeOK, Sections
<1>8. ASSUME NEW i \in Sections, PlaceRelocatable(i)
      PROVE TypeOK'
  <2>1. AlignTo(curOffset, Alignment(table[i])) \in Nat /\ table[i].size \in Nat
    BY CursorType, EntryType
  <2>2. i \in Nat
    BY DEF Sections, TypeOK
  <2>3. CASE table[i].size > 0
    BY <1>8, <2>1, <2>2, <2>3 DEF PlaceRelocatable, TypeOK, Sections
  <2>4. CASE ~(table[i].size > 0)
    BY <1>8, <2>1, <2>2, <2>4 DEF PlaceRelocatable, TypeOK, Sections
  <2>. QED BY <2>3, <2>4
<1>9. CASE StartAssembly
  <2>1. Len(phdrs) \in Nat
    BY DEF TypeOK
  <2>2. filePos' \in Nat
    BY <1>9, <2>1 DEF StartAssembly, EHDR, PHDR
  <2>. QED BY <1>9, <2>2 DEF StartAssembly, TypeOK, Sections
<1>10. CASE FinishAssembly
  BY <1>10 DEF FinishAssembly, TypeOK, Sections, Larger
<1>11. ASSUME NEW i \in Sections, WriteSection(i)
       PROVE TypeOK'
  <2>1. Larger(filePos, sh_offset[i]) \in Nat /\ table[i].size \in Nat
    BY EntryType DEF TypeOK, Larger
  <2>. QED BY <1>11, <2>1 DEF WriteSection, TypeOK, Sections
<1>12. CASE UNCHANGED layoutVars
  BY <1>12 DEF layoutVars, TypeOK, Sections
<1>. QED
  BY <1>1, <1>2, <1>3, <1>4, <1>5, <1>6, <1>7, <1>8, <1>9, <1>10, <1>11, <1>12
  DEF Next, LayoutStep, AssemblyStep, PlaceRx, PlaceRw

LEMMA TypeInit == Init => TypeOK
BY TablesAssumption DEF Init, Idle, TypeOK, Sections

(* Offsets, addresses and cursors stay natural numbers, the program header  *)
(* table a table of segments.                                               *)
THEOREM LayoutTypeCorrect == Spec => []TypeOK
<1>1. Init => TypeOK
  BY TypeInit
<1>2. TypeOK /\ [Next]_layoutVars => TypeOK'
  BY TypeStep
<1>. QED BY <1>1, <1>2, PTL DEF Spec

-----------------------------------------------------------------------------
(* The list of sections and the format never change, and with them all that *)
(* is computed from them alone.                                             *)
LEMMA Frame ==
  ASSUME [Next]_layoutVars
  PROVE  /\ table' = table /\ format' = format
         /\ Sections' = Sections /\ RxSections' = RxSections
         /\ RwSections' = RwSections /\ NonAlloc' = NonAlloc /\ Alloc' = Alloc
         /\ Base' = Base /\ PhdrCount' = PhdrCount /\ HeaderEnd' = HeaderEnd
<1>1. table' = table /\ format' = format
  BY DEF Next, LayoutStep, AssemblyStep, layoutVars, StartDynamic, StartRw,
     GenerateProgramHeaders, StartRelocatable, FinishLayout, PlaceRx, PlaceRw, PlaceAlloc,
     PlaceNonAlloc, PlaceRelocatable, StartAssembly, FinishAssembly, WriteSection
<1>2. Sections' = Sections
  BY <1>1 DEF Sections
<1>3. /\ RxSections' = RxSections /\ RwSections' = RwSections /\ NonAlloc' = NonAlloc
  BY <1>1, <1>2 DEF RxSections, RwSections, NonAlloc
<1>4. Alloc' = Alloc /\ Base' = Base
  BY <1>1, <1>3 DEF Alloc, Base
<1>5. PhdrCount' = PhdrCount
  BY <1>1, <1>2, <1>3 DEF PhdrCount, Has, NeedsRxLoad, NeedsRwLoad
<1>6. HeaderEnd' = HeaderEnd
  BY <1>1, <1>5 DEF HeaderEnd
<1>. QED BY <1>1, <1>2, <1>3, <1>4, <1>5, <1>6

LEMMA HeaderEndType == HeaderEnd \in Nat
BY PhdrCountType DEF HeaderEnd, EHDR, PHDR

(* The loops go through disjoint lists, each in order: a section is given   *)
(* its place once, and the sections that have theirs are known in every     *)
(* phase.                                                                   *)
LEMMA NextIsNew ==
  ASSUME TypeOK, PhaseInv, NEW i \in Sections,
         PlaceRx(i) \/ PlaceRw(i) \/ PlaceNonAlloc(i) \/ PlaceRelocatable(i)
  PROVE  i \notin placed
<1>1. i \in Nat /\ cursor \in Nat
  BY DEF TypeOK, Sections
<1>. QED
  BY <1>1 DEF PlaceRx, PlaceRw, PlaceNonAlloc, PlaceRelocatable, IsNext, Rest, PhaseInv, UpTo,
     RxSections, RwSections, NonAlloc, Alloc

(* A step of a loop over a list takes the list one section further.         *)
LEMMA OneFurther ==
  ASSUME TypeOK, NEW list \in SUBSET Sections, NEW i \in Sections, IsNext(i, list), cursor' = i
  PROVE  {j \in list : j <= cursor'} = UpTo(list) \cup {i}
<1>1. list \subseteq Nat /\ i \in Nat /\ cursor \in Nat
  BY DEF TypeOK, Sections
<1>2. i \in list /\ cursor < i /\ \A j \in list : j > cursor => i <= j
  BY <1>1 DEF IsNext, Rest
<1>3. \A j \in list : j <= i <=> j <= cursor \/ j = i
  BY <1>1, <1>2
<1>. QED BY <1>2, <1>3 DEF UpTo

(* A loop with nothing left has gone through its list, and one that starts  *)
(* has gone through nothing.                                                *)
LEMMA ListEnds ==
  ASSUME TypeOK, NEW list \in SUBSET Sections
  PROVE  /\ Rest(list) = {} => UpTo(list) = list
         /\ cursor' = 0 => {j \in list : j <= cursor'} = {}
<1>1. cursor \in Nat /\ \A j \in list : j \in Nat /\ j > 0
  BY DEF TypeOK, Sections
<1>2. ASSUME Rest(list) = {}
      PROVE  UpTo(list) = list
  <2>1. \A j \in list : j <= cursor
    BY <1>1, <1>2 DEF Rest
  <2>. QED BY <2>1 DEF UpTo
<1>3. ASSUME cursor' = 0
      PROVE  {j \in list : j <= cursor'} = {}
  BY <1>1, <1>3
<1>. QED BY <1>2, <1>3

LEMMA PhaseStep ==
  ASSUME TypeOK, PhaseInv, [Next]_layoutVars
  PROVE  PhaseInv'
<1>1. /\ RxSections \in SUBSET Sections /\ RwSections \in SUBSET Sections
      /\ NonAlloc \in SUBSET Sections /\ Sections \in SUBSET Sections
  BY DEF RxSections, RwSections, NonAlloc
<1>2. /\ UpTo(RxSections)' = {j \in RxSections : j <= cursor'}
      /\ UpTo(RwSections)' = {j \in RwSections : j <= cursor'}
      /\ UpTo(NonAlloc)' = {j \in NonAlloc : j <= cursor'}
      /\ UpTo(Sections)' = {j \in Sections : j <= cursor'}
      /\ Alloc' = Alloc /\ RxSections' = RxSections
  BY Frame DEF UpTo
<1>3. CASE StartDynamic \/ StartRelocatable
  <2>1. UpTo(RxSections)' = {} /\ UpTo(Sections)' = {}
    BY <1>1, <1>2, <1>3, ListEnds DEF StartDynamic, StartRelocatable
  <2>. QED BY <1>3, <2>1 DEF StartDynamic, StartRelocatable, PhaseInv
<1>4. CASE StartRw
  <2>1. UpTo(RxSections) = RxSections /\ UpTo(RwSections)' = {}
    BY <1>1, <1>2, <1>4, ListEnds DEF StartRw
  <2>. QED BY <1>2, <1>4, <2>1 DEF StartRw, PhaseInv
<1>5. CASE GenerateProgramHeaders
  <2>1. UpTo(RwSections) = RwSections /\ UpTo(NonAlloc)' = {}
    BY <1>1, <1>2, <1>5, ListEnds DEF GenerateProgramHeaders
  <2>. QED BY <1>2, <1>5, <2>1 DEF GenerateProgramHeaders, PhaseInv, Alloc
<1>6. ASSUME NEW i \in Sections, PlaceRx(i)
      PROVE  PhaseInv'
  <2>1. UpTo(RxSections)' = UpTo(RxSections) \cup {i}
    BY <1>1, <1>2, <1>6, OneFurther DEF PlaceRx, PlaceAlloc
  <2>. QED BY <1>6, <2>1 DEF PlaceRx, PlaceAlloc, PhaseInv
<1>7. ASSUME NEW i \in Sections, PlaceRw(i)
      PROVE  PhaseInv'
  <2>1. UpTo(RwSections)' = UpTo(RwSections) \cup {i}
    BY <1>1, <1>2, <1>7, OneFurther DEF PlaceRw, PlaceAlloc
  <2>. QED BY <1>2, <1>7, <2>1 DEF PlaceRw, PlaceAlloc, PhaseInv
<1>8. ASSUME NEW i \in Sections, PlaceNonAlloc(i)
      PROVE  PhaseInv'
  <2>1. UpTo(NonAlloc)' = UpTo(NonAlloc) \cup {i}
    BY <1>1, <1>2, <1>8, OneFurther DEF PlaceNonAlloc
  <2>. QED BY <1>2, <1>8, <2>1 DEF PlaceNonAlloc, PhaseInv
<1>9. ASSUME NEW i \in Sections, PlaceRelocatable(i)
      PROVE  PhaseInv'
  <2>1. UpTo(Sections)' = UpTo(Sections) \cup {i}
    BY <1>1, <1>2, <1>9, OneFurther DEF PlaceRelocatable
  <2>. QED BY <1>9, <2>1 DEF PlaceRelocatable, PhaseInv
<1>10. CASE FinishLayout \/ StartAssembly \/ FinishAssembly
  BY <1>10 DEF FinishLayout, StartAssembly, FinishAssembly, PhaseInv
<1>11. ASSUME NEW i \in Sections, WriteSection(i)
       PROVE  PhaseInv'
  BY <1>11 DEF WriteSection, PhaseInv
<1>12. CASE UNCHANGED layoutVars
  BY <1>12, Frame DEF layoutVars, PhaseInv, UpTo
<1>. QED
  BY <1>3, <1>4, <1>5, <1>6, <1>7, <1>8, <1>9, <1>10, <1>11, <1>12
  DEF Next, LayoutStep, AssemblyStep

(* Room for one more section at or after the file cursor: it meets none of  *)
(* the sections before it.                                                  *)
LEMMA Placing ==
  ASSUME TypeOK, PlacedInv, [Next]_layoutVars,
         NEW i \in Sections, i \notin placed, table[i].size > 0,
         NEW off \in Nat, HeaderEnd <= curOffset, curOffset <= off,
         sh_offset' = [sh_offset EXCEPT ![i] = off],
         curOffset' = off + table[i].size,
         placed' = placed \cup {i}
  PROVE  /\ \A j \in Sections : j \notin Laid' => sh_offset'[j] = 0
         /\ \A j \in Laid' : HeaderEnd <= sh_offset'[j] /\ FileEnd(j)' <= curOffset'
         /\ DisjointInFile'
<1>1. Laid' = Laid \cup {i} /\ i \notin Laid
  BY Frame DEF Laid
<1>2. \A j \in Sections : table[j].size \in Nat /\ sh_offset[j] \in Nat
  BY EntryType DEF TypeOK
<1>3. Laid \subseteq Sections
  BY DEF Laid, TypeOK
<1>4. sh_offset'[i] = off /\ FileEnd(i)' = off + table[i].size
  BY Frame DEF TypeOK, FileEnd
<1>5. \A j \in Sections : j # i => sh_offset'[j] = sh_offset[j] /\ FileEnd(j)' = FileEnd(j)
  BY Frame DEF TypeOK, FileEnd
<1>6. \A j \in Laid : /\ j # i /\ HeaderEnd <= sh_offset[j] /\ FileEnd(j) <= curOffset
                      /\ FileEnd(j) \in Nat
  BY <1>1, <1>2, <1>3 DEF PlacedInv, FileEnd
<1>7. curOffset \in Nat /\ HeaderEnd \in Nat /\ table[i].size \in Nat
  BY <1>2, HeaderEndType DEF TypeOK
<1>8. \A j \in Sections : j \notin Laid' => sh_offset'[j] = 0
  BY <1>1, <1>5 DEF PlacedInv
<1>9. \A j \in Laid' : HeaderEnd <= sh_offset'[j] /\ FileEnd(j)' <= curOffset'
  <2>. TAKE j \in Laid'
  <2>1. CASE j = i
    BY <2>1, <1>4, <1>7
  <2>2. CASE j # i
    BY <2>2, <1>1, <1>3, <1>5, <1>6, <1>7
  <2>. QED BY <2>1, <2>2
<1>10. DisjointInFile'
  <2>. SUFFICES ASSUME NEW j \in Laid', NEW k \in Laid', j # k
                PROVE  FileEnd(j)' <= sh_offset'[k] \/ FileEnd(k)' <= sh_offset'[j]
    BY DEF DisjointInFile
  <2>1. CASE j = i
    <3>1. k \in Laid /\ FileEnd(k)' = FileEnd(k) /\ FileEnd(k) <= curOffset
      BY <2>1, <1>1, <1>3, <1>5, <1>6
    <3>. QED BY <3>1, <2>1, <1>4, <1>6, <1>7
  <2>2. CASE k = i
    <3>1. j \in Laid /\ FileEnd(j)' = FileEnd(j) /\ FileEnd(j) <= curOffset
      BY <2>2, <1>1, <1>3, <1>5, <1>6
    <3>. QED BY <3>1, <2>2, <1>4, <1>6, <1>7
  <2>3. CASE j # i /\ k # i
    BY <2>3, <1>1, <1>3, <1>5 DEF PlacedInv, DisjointInFile
  <2>. QED BY <2>1, <2>2, <2>3
<1>. QED BY <1>8, <1>9, <1>10

(* A step that places nothing keeps what is known of the placed sections,   *)
(* as long as it does not move the cursor back over them.                   *)
LEMMA NotPlacing ==
  ASSUME TypeOK, PlacedInv, [Next]_layoutVars,
         sh_offset' = sh_offset, sh_addr' = sh_addr, Laid' = Laid,
         \A i \in Laid : FileEnd(i) <= curOffset'
  PROVE  PlacedInv'
<1>1. \A i \in Sections : /\ FileEnd(i)' = FileEnd(i)
  BY Frame DEF FileEnd
<1>2. Laid \subseteq Sections
  BY DEF Laid, TypeOK
<1>3. DisjointInFile'
  BY <1>1, <1>2 DEF PlacedInv, DisjointInFile
<1>4. LoadedWhereMapped'
  BY Frame DEF PlacedInv, LoadedWhereMapped
<1>. QED BY <1>1, <1>2, <1>3, <1>4, Frame DEF PlacedInv

(* Nothing is written before the layout has ended.                          *)
LEMMA NothingWritten ==
  ASSUME LayoutInv, [Next]_layoutVars, phase \notin {"write", "done"},
         phase' \notin {"write", "done"}, at' = at
  PROVE  WriteInv'
BY Frame DEF LayoutInv, WriteInv, FileMatchesHeaders

LEMMA PlaceAllocInv ==
  ASSUME LayoutInv, [Next]_layoutVars, NEW i \in Alloc, i \notin placed, PlaceAlloc(i),
         phase \in {"rx", "rw"}, phase = "rx" => i \in RxSections,
         phase = "rw" => i \in RwSections
  PROVE  LayoutInv'
<1>. DEFINE addr == AlignTo(curVAddr, Alignment(table[i]))
            off  == AlignTo(curOffset, Alignment(table[i]))
<1>. USE DEF LayoutInv
<1>1. i \in Sections /\ table[i].size > 0 /\ table[i].size \in Nat
  BY EntryType DEF Alloc, RxSections, RwSections
<1>2. TypeOK'
  BY TypeStep
<1>3. addr \in Nat /\ off \in Nat /\ curOffset <= off /\ addr % Alignment(table[i]) = 0
  BY <1>1, CursorType
<1>4. addr = Base + off
  <2>1. curVAddr = Base + curOffset /\ curOffset \in Nat /\ format \in Formats
    BY DEF CursorInv, TypeOK
  <2>. QED BY <1>1, <2>1, EntryType, AlignToShift DEF Base
<1>5. /\ sh_addr' = [sh_addr EXCEPT ![i] = addr] /\ sh_offset' = [sh_offset EXCEPT ![i] = off]
      /\ curVAddr' = addr + table[i].size /\ curOffset' = off + table[i].size
      /\ placed' = placed \cup {i} /\ phase' = phase /\ phdrs' = phdrs /\ at' = at
      /\ rxEndOffset' = rxEndOffset
  BY DEF PlaceAlloc
<1>6. HeaderEnd <= curOffset /\ Base \in Nat
  BY BaseNat DEF CursorInv
<1>. HIDE DEF addr, off
<1>7. PhaseInv'
  BY PhaseStep
<1>8. PlacedInv'
  <2>1. /\ \A j \in Sections : j \notin Laid' => sh_offset'[j] = 0
        /\ \A j \in Laid' : HeaderEnd <= sh_offset'[j] /\ FileEnd(j)' <= curOffset'
        /\ DisjointInFile'
    BY <1>1, <1>3, <1>5, <1>6, Placing
  <2>2. LoadedWhereMapped'
    <3>. SUFFICES ASSUME NEW j \in Laid' \cap Alloc, format # "ko"
                  PROVE  /\ sh_addr'[j] = Base + sh_offset'[j]
                         /\ sh_addr'[j] % Alignment(table[j]) = 0
      BY Frame DEF LoadedWhereMapped
    <3>1. CASE j = i
      BY <3>1, <1>1, <1>3, <1>4, <1>5 DEF TypeOK
    <3>2. CASE j # i
      <4>1. j \in Laid \cap Alloc /\ j \in Sections
        BY <3>2, <1>5, Frame DEF Laid, TypeOK
      <4>. QED BY <4>1, <3>2, <1>5 DEF PlacedInv, LoadedWhereMapped, TypeOK
    <3>. QED BY <3>1, <3>2
  <2>. QED BY <2>1, <2>2, Frame DEF PlacedInv
<1>9. CursorInv'
  <2>1. HeaderEnd' <= curOffset'
    BY <1>1, <1>3, <1>5, <1>6, Frame, HeaderEndType DEF TypeOK
  <2>2. curVAddr' = Base' + curOffset'
    BY <1>1, <1>3, <1>4, <1>5, <1>6, Frame
  <2>3. ASSUME phase' = "rw"
        PROVE  /\ HeaderEnd' <= rxEndOffset'
               /\ \A j \in placed' \cap RxSections' : FileEnd(j)' <= rxEndOffset'
    <3>1. phase = "rw" /\ i \in RwSections /\ i \notin RxSections
      BY <2>3, <1>5 DEF RxSections, RwSections
    <3>2. \A j \in placed' \cap RxSections' : j \in placed \cap RxSections /\ j # i /\ j \in Sections
      BY <3>1, <1>5, Frame DEF TypeOK
    <3>3. \A j \in placed' \cap RxSections' : FileEnd(j)' = FileEnd(j)
      BY <3>2, <1>5, Frame DEF FileEnd, TypeOK
    <3>. QED BY <3>1, <3>2, <3>3, <1>5, Frame DEF CursorInv
  <2>. QED BY <2>1, <2>2, <2>3, <1>5 DEF CursorInv
<1>10. HeadersInv'
  BY <1>5, Frame DEF HeadersInv
<1>11. WriteInv'
  BY <1>5, NothingWritten
<1>. QED BY <1>2, <1>7, <1>8, <1>9, <1>10, <1>11

LEMMA PlaceNonAllocInv ==
  ASSUME LayoutInv, [Next]_layoutVars, NEW i \in Sections, PlaceNonAlloc(i)
  PROVE  LayoutInv'
<1>. DEFINE off == AlignTo(curOffset, Alignment(table[i]))
<1>. USE DEF LayoutInv
<1>1. /\ i \in NonAlloc /\ i \notin placed /\ i \notin Alloc
      /\ table[i].size > 0 /\ table[i].size \in Nat
  BY EntryType, NextIsNew DEF PlaceNonAlloc, IsNext, Rest, NonAlloc, Alloc, RxSections, RwSections
<1>2. TypeOK'
  BY TypeStep
<1>3. off \in Nat /\ curOffset <= off
  BY CursorType
<1>4. /\ sh_addr' = [sh_addr EXCEPT ![i] = 0] /\ sh_offset' = [sh_offset EXCEPT ![i] = off]
      /\ curOffset' = off + table[i].size /\ placed' = placed \cup {i}
      /\ phase = "nonalloc" /\ phase' = phase /\ phdrs' = phdrs /\ at' = at
  BY DEF PlaceNonAlloc
<1>5. HeaderEnd <= curOffset
  BY <1>4 DEF CursorInv
<1>. HIDE DEF off
<1>6. PhaseInv'
  BY PhaseStep
<1>7. PlacedInv'
  <2>1. /\ \A j \in Sections : j \notin Laid' => sh_offset'[j] = 0
        /\ \A j \in Laid' : HeaderEnd <= sh_offset'[j] /\ FileEnd(j)' <= curOffset'
        /\ DisjointInFile'
    BY <1>1, <1>3, <1>4, <1>5, Placing
  <2>2. LoadedWhereMapped'
    <3>. SUFFICES ASSUME NEW j \in Laid' \cap Alloc, format # "ko"
                  PROVE  /\ sh_addr'[j] = Base + sh_offset'[j]
                         /\ sh_addr'[j] % Alignment(table[j]) = 0
      BY Frame DEF LoadedWhereMapped
    <3>1. j # i /\ j \in Laid \cap Alloc /\ j \in Sections
      BY <1>1, <1>4, Frame DEF Laid, TypeOK
    <3>. QED BY <3>1, <1>4 DEF PlacedInv, LoadedWhereMapped, TypeOK
  <2>. QED BY <2>1, <2>2, Frame DEF PlacedInv
<1>8. CursorInv'
  BY <1>1, <1>3, <1>4, <1>5, Frame, HeaderEndType DEF CursorInv, TypeOK
<1>9. HeadersInv'
  BY <1>4, Frame DEF HeadersInv
<1>10. WriteInv'
  BY <1>4, NothingWritten
<1>. QED BY <1>2, <1>6, <1>7, <1>8, <1>9, <1>10

LEMMA PlaceRelocatableInv ==
  ASSUME LayoutInv, [Next]_layoutVars, NEW i \in Sections, PlaceRelocatable(i)
  PROVE  LayoutInv'
<1>. DEFINE off == AlignTo(curOffset, Alignment(table[i]))
<1>. USE DEF LayoutInv
<1>1. /\ i \notin placed /\ table[i].size \in Nat /\ phase = "ko" /\ format = "ko"
      /\ placed' = placed \cup {i} /\ phase' = phase /\ phdrs' = phdrs /\ at' = at
  BY EntryType, NextIsNew DEF PlaceRelocatable, PhaseInv
<1>2. TypeOK'
  BY TypeStep
<1>3. off \in Nat /\ curOffset <= off
  BY CursorType
<1>4. HeaderEnd <= curOffset
  BY <1>1 DEF CursorInv
<1>5. PhaseInv'
  BY PhaseStep
<1>6. HeadersInv' /\ WriteInv'
  BY <1>1, Frame, NothingWritten DEF HeadersInv
<1>7. LoadedWhereMapped'
  BY <1>1, Frame DEF LoadedWhereMapped
<1>8. CASE table[i].size > 0
  <2>1. /\ sh_offset' = [sh_offset EXCEPT ![i] = off]
        /\ curOffset' = off + table[i].size
    BY <1>8 DEF PlaceRelocatable
  <2>. HIDE DEF off
  <2>2. /\ \A j \in Sections : j \notin Laid' => sh_offset'[j] = 0
        /\ \A j \in Laid' : HeaderEnd <= sh_offset'[j] /\ FileEnd(j)' <= curOffset'
        /\ DisjointInFile'
    BY <1>1, <1>3, <1>4, <1>8, <2>1, Placing
  <2>3. PlacedInv'
    BY <2>2, <1>7, Frame DEF PlacedInv
  <2>4. CursorInv'
    BY <1>1, <1>3, <1>4, <2>1, Frame, HeaderEndType DEF CursorInv, TypeOK
  <2>. QED BY <1>2, <1>5, <1>6, <2>3, <2>4
<1>9. CASE ~(table[i].size > 0)
  <2>1. /\ sh_offset' = [sh_offset EXCEPT ![i] = 0] /\ sh_addr' = sh_addr
        /\ curOffset' = curOffset
    BY <1>9 DEF PlaceRelocatable
  <2>2. i \notin Laid /\ Laid' = Laid
    BY <1>1, <1>9, Frame DEF Laid
  <2>3. sh_offset' = sh_offset
    BY <2>1, <2>2 DEF PlacedInv, TypeOK
  <2>4. PlacedInv'
    BY <2>1, <2>2, <2>3, NotPlacing DEF PlacedInv
  <2>5. CursorInv'
    BY <1>1, <1>4, <2>1, Frame DEF CursorInv
  <2>. QED BY <1>2, <1>5, <1>6, <2>4, <2>5
<1>. QED BY <1>8, <1>9

LEMMA StartInv ==
  ASSUME LayoutInv, [Next]_layoutVars, StartDynamic \/ StartRelocatable
  PROVE  LayoutInv'
<1>. USE DEF LayoutInv
<1>1. /\ phase = "start" /\ placed = {} /\ placed' = {} /\ phdrs' = phdrs /\ at' = at
      /\ sh_offset' = sh_offset /\ sh_addr' = sh_addr
      /\ phase' = IF format = "ko" THEN "ko" ELSE "rx"
  BY DEF StartDynamic, StartRelocatable, PhaseInv
<1>2. TypeOK'
  BY TypeStep
<1>3. PhaseInv'
  BY PhaseStep
<1>4. PlacedInv'
  <2>1. Laid = {} /\ Laid' = {}
    BY <1>1 DEF Laid
  <2>. QED BY <1>1, <2>1, NotPlacing
<1>5. CursorInv'
  <2>1. CASE StartDynamic
    <3>. DEFINE h == EHDR + PhdrCount * PHDR
    <3>1. h \in Nat /\ HeaderEnd = h /\ Base + EHDR + PhdrCount * PHDR = Base + h
      BY <2>1, PhdrCountType, BaseNat DEF StartDynamic, HeaderEnd, EHDR, PHDR
    <3>2. curOffset' = AlignTo(h, FirstAlignment) /\ curVAddr' = AlignTo(Base + h, FirstAlignment)
      BY <2>1, <3>1 DEF StartDynamic
    <3>. HIDE DEF h
    <3>3. curVAddr' = Base + curOffset' /\ h <= curOffset'
      BY <3>1, <3>2, FirstAlignmentType, AlignToShift, AlignToBounds DEF Base, TypeOK
    <3>. QED BY <2>1, <1>1, <3>1, <3>3, Frame DEF CursorInv, StartDynamic
  <2>2. CASE StartRelocatable
    <3>1. curOffset' = 64 /\ HeaderEnd = 64
      BY <2>2 DEF StartRelocatable, HeaderEnd, EHDR, AlignTo
    <3>. QED BY <2>2, <1>1, <3>1, Frame DEF CursorInv, StartRelocatable
  <2>. QED BY <2>1, <2>2
<1>6. HeadersInv'
  BY <1>1, Frame DEF HeadersInv
<1>7. WriteInv'
  BY <1>1, NothingWritten
<1>. QED BY <1>2, <1>3, <1>4, <1>5, <1>6, <1>7

LEMMA StartRwInv ==
  ASSUME LayoutInv, [Next]_layoutVars, StartRw
  PROVE  LayoutInv'
<1>. USE DEF LayoutInv
<1>1. /\ phase = "rx" /\ phase' = "rw" /\ placed' = placed /\ phdrs' = phdrs /\ at' = at
      /\ sh_offset' = sh_offset /\ sh_addr' = sh_addr /\ rxEndOffset' = curOffset
      /\ curOffset' = AlignTo(curOffset, PAGE) /\ curVAddr' = AlignTo(curVAddr, PAGE)
  BY DEF StartRw
<1>2. TypeOK'
  BY TypeStep
<1>3. PhaseInv'
  BY PhaseStep
<1>4. /\ curOffset \in Nat /\ curOffset <= curOffset' /\ curOffset' \in Nat
      /\ curVAddr' = Base + curOffset'
  <2>1. PAGE \in Alignments /\ curOffset \in Nat /\ format \in Formats
    BY DEF PAGE, Alignments, TypeOK
  <2>2. curVAddr = Base + curOffset
    BY <1>1 DEF CursorInv
  <2>. QED BY <1>1, <2>1, <2>2, AlignToBounds, AlignToShift DEF Base
<1>5. \A i \in Laid : FileEnd(i) \in Nat /\ FileEnd(i) <= curOffset
  BY EntryType DEF PlacedInv, Laid, TypeOK, FileEnd
<1>6. Laid' = Laid
  BY <1>1, Frame DEF Laid
<1>7. PlacedInv'
  BY <1>1, <1>4, <1>5, <1>6, NotPlacing
<1>8. CursorInv'
  <2>1. \A i \in placed \cap RxSections : i \in Laid
    BY DEF Laid, RxSections
  <2>2. \A i \in Sections : FileEnd(i)' = FileEnd(i)
    BY <1>1, Frame DEF FileEnd
  <2>3. placed \subseteq Sections
    BY DEF TypeOK
  <2>4. HeaderEnd <= curOffset
    BY <1>1 DEF CursorInv
  <2>. QED BY <1>1, <1>4, <1>5, <2>1, <2>2, <2>3, <2>4, HeaderEndType, Frame DEF CursorInv
<1>9. HeadersInv'
  BY <1>1, Frame DEF HeadersInv
<1>10. WriteInv'
  BY <1>1, NothingWritten
<1>. QED BY <1>2, <1>3, <1>7, <1>8, <1>9, <1>10

LEMMA GenerateProgramHeadersInv ==
  ASSUME LayoutInv, [Next]_layoutVars, GenerateProgramHeaders
  PROVE  LayoutInv'
<1>. USE DEF LayoutInv
<1>1. /\ phase = "rw" /\ phase' = "nonalloc" /\ placed' = placed /\ at' = at /\ format # "ko"
      /\ sh_offset' = sh_offset /\ sh_addr' = sh_addr /\ phdrs' = ProgramHeaders
  BY DEF GenerateProgramHeaders, PhaseInv
<1>2. TypeOK'
  BY TypeStep
<1>3. PhaseInv'
  BY PhaseStep
<1>4. Laid' = Laid
  BY <1>1, Frame DEF Laid
<1>5. HeaderEnd <= curOffset' /\ \A i \in Laid : FileEnd(i) <= curOffset'
  <2>1. CASE NeedsRwLoad
    BY <2>1, <1>1 DEF GenerateProgramHeaders, CursorInv, PlacedInv
  <2>2. CASE ~NeedsRwLoad /\ NeedsRxLoad
    <3>1. curOffset' = rxEndOffset
      BY <2>2 DEF GenerateProgramHeaders
    <3>2. \A i \in Laid : i \in placed \cap RxSections
      BY <2>2, <1>1 DEF Laid, PhaseInv, UpTo, NeedsRwLoad
    <3>. QED BY <3>1, <3>2, <1>1 DEF CursorInv
  <2>3. CASE ~NeedsRwLoad /\ ~NeedsRxLoad
    <3>1. curOffset' = EHDR + PhdrCount * PHDR
      BY <2>3 DEF GenerateProgramHeaders
    <3>2. Laid = {}
      BY <2>3, <1>1 DEF Laid, PhaseInv, UpTo, RxSections, RwSections, NeedsRxLoad
    <3>. QED BY <3>1, <3>2, <1>1, HeaderEndType DEF HeaderEnd
  <2>. QED BY <2>1, <2>2, <2>3
<1>6. PlacedInv'
  BY <1>1, <1>4, <1>5, NotPlacing
<1>7. CursorInv'
  BY <1>1, <1>5, Frame DEF CursorInv
<1>8. HeadersInv'
  <2>1. Len(phdrs') = PhdrCount
    BY <1>1, ProgramHeadersCorrect
  <2>. QED BY <2>1, <1>1, Frame DEF HeadersInv
<1>9. WriteInv'
  BY <1>1, NothingWritten
<1>. QED BY <1>2, <1>3, <1>6, <1>7, <1>8, <1>9

LEMMA FinishLayoutInv ==
  ASSUME LayoutInv, [Next]_layoutVars, FinishLayout
  PROVE  LayoutInv'
<1>. USE DEF LayoutInv
<1>1. /\ phase \in {"nonalloc", "ko"} /\ phase' = "laidout" /\ placed' = placed
      /\ sh_offset' = sh_offset /\ sh_addr' = sh_addr /\ phdrs' = phdrs /\ at' = at
      /\ curOffset' = curOffset /\ shoff' = AlignTo(curOffset, 8)
  BY DEF FinishLayout
<1>2. TypeOK'
  BY TypeStep
<1>3. PhaseInv'
  BY PhaseStep
<1>4. Laid' = Laid
  BY <1>1, Frame DEF Laid
<1>5. PlacedInv'
  BY <1>1, <1>4, NotPlacing DEF PlacedInv
<1>6. CursorInv'
  <2>1. curOffset <= shoff'
    BY <1>1, AlignToBounds DEF TypeOK, Alignments
  <2>. QED BY <1>1, <2>1, Frame DEF CursorInv
<1>7. HeadersInv'
  BY <1>1, Frame DEF HeadersInv, PhaseInv
<1>8. WriteInv'
  BY <1>1, NothingWritten
<1>. QED BY <1>2, <1>3, <1>5, <1>6, <1>7, <1>8

(* Only sections that were given room are written.                          *)
LEMMA ToWriteIsLaid ==
  ASSUME TypeOK, PlacedInv
  PROVE  SectionsToWrite \subseteq Laid
BY DEF SectionsToWrite, PlacedInv, TypeOK

LEMMA StartAssemblyInv ==
  ASSUME LayoutInv, [Next]_layoutVars, StartAssembly
  PROVE  LayoutInv'
<1>. USE DEF LayoutInv
<1>1. /\ phase = "laidout" /\ phase' = "write" /\ placed' = placed
      /\ sh_offset' = sh_offset /\ sh_addr' = sh_addr /\ phdrs' = phdrs /\ at' = at
      /\ curOffset' = curOffset /\ shoff' = shoff /\ filePos' = EHDR + Len(phdrs) * PHDR
  BY DEF StartAssembly
<1>2. TypeOK'
  BY TypeStep
<1>3. PhaseInv'
  BY PhaseStep
<1>4. Laid' = Laid
  BY <1>1, Frame DEF Laid
<1>5. PlacedInv'
  BY <1>1, <1>4, NotPlacing DEF PlacedInv
<1>6. CursorInv' /\ HeadersInv'
  BY <1>1, Frame DEF CursorInv, HeadersInv
<1>7. WriteInv'
  <2>1. filePos' = HeaderEnd
    BY <1>1, PhdrCountType DEF HeadersInv, HeaderEnd, EHDR, PHDR
  <2>2. HeaderEnd <= curOffset /\ curOffset <= shoff
    BY <1>1 DEF CursorInv
  <2>3. filePos' <= shoff'
    BY <1>1, <2>1, <2>2, HeaderEndType DEF TypeOK
  <2>4. \A i \in Unwritten' : filePos' <= sh_offset'[i]
    <3>1. Unwritten' \subseteq SectionsToWrite
      BY <1>1, Frame DEF Unwritten, SectionsToWrite
    <3>. QED BY <1>1, <2>1, <3>1, ToWriteIsLaid DEF PlacedInv
  <2>. QED BY <1>1, <2>3, <2>4, Frame DEF WriteInv, FileMatchesHeaders
<1>. QED BY <1>2, <1>3, <1>5, <1>6, <1>7

(* The next section to write is the one with the lowest offset; it lies     *)
(* before every other one, so the cursor never runs over the place where    *)
(* one of them belongs.                                                     *)
LEMMA WriteSectionInv ==
  ASSUME LayoutInv, [Next]_layoutVars, NEW i \in Sections, WriteSection(i)
  PROVE  LayoutInv'
<1>. USE DEF LayoutInv
<1>1. /\ phase = "write" /\ phase' = "write" /\ placed' = placed /\ i \in Unwritten
      /\ sh_offset' = sh_offset /\ sh_addr' = sh_addr /\ phdrs' = phdrs
      /\ curOffset' = curOffset /\ shoff' = shoff
      /\ at' = [at EXCEPT ![i] = Larger(filePos, sh_offset[i])]
      /\ filePos' = Larger(filePos, sh_offset[i]) + table[i].size
  BY DEF WriteSection
<1>2. TypeOK'
  BY TypeStep
<1>3. PhaseInv'
  BY PhaseStep
<1>4. Laid' = Laid
  BY <1>1, Frame DEF Laid
<1>5. PlacedInv'
  BY <1>1, <1>4, NotPlacing DEF PlacedInv
<1>6. CursorInv' /\ HeadersInv'
  BY <1>1, Frame DEF CursorInv, HeadersInv
<1>7. \A j \in Unwritten : /\ j \in Laid /\ j \in Sections
                           /\ sh_offset[j] \in Nat /\ sh_offset[j] > 0
                           /\ table[j].size \in Nat /\ table[j].size > 0
  BY ToWriteIsLaid, EntryType DEF Unwritten, SectionsToWrite, TypeOK
<1>8. Larger(filePos, sh_offset[i]) = sh_offset[i] /\ filePos' = FileEnd(i)
  BY <1>1, <1>7 DEF WriteInv, Larger, FileEnd, TypeOK
<1>9. WriteInv'
  <2>1. filePos' <= shoff'
    BY <1>1, <1>7, <1>8 DEF PlacedInv, CursorInv, FileEnd, TypeOK
  <2>2. Unwritten' = Unwritten \ {i}
    BY <1>1, <1>7, <1>8, Frame DEF Unwritten, SectionsToWrite, TypeOK
  <2>3. \A j \in Unwritten' : filePos' <= sh_offset'[j]
    <3>. SUFFICES ASSUME NEW j \in Unwritten, j # i PROVE FileEnd(i) <= sh_offset[j]
      BY <1>1, <1>8, <2>2
    <3>1. FileEnd(i) <= sh_offset[j] \/ FileEnd(j) <= sh_offset[i]
      BY <1>1, <1>7 DEF PlacedInv, DisjointInFile
    <3>2. sh_offset[i] <= sh_offset[j]
      BY <1>7 DEF WriteSection
    <3>. QED BY <1>1, <1>7, <3>1, <3>2 DEF FileEnd
  <2>4. \A j \in Sections : at'[j] # 0 => at'[j] = sh_offset'[j]
    BY <1>1, <1>8 DEF WriteInv, FileMatchesHeaders, TypeOK
  <2>. QED BY <1>1, <2>1, <2>3, <2>4, Frame DEF WriteInv, FileMatchesHeaders
<1>. QED BY <1>2, <1>3, <1>5, <1>6, <1>9

LEMMA FinishAssemblyInv ==
  ASSUME LayoutInv, [Next]_layoutVars, FinishAssembly
  PROVE  LayoutInv'
<1>. USE DEF LayoutInv
<1>1. /\ phase = "write" /\ phase' = "done" /\ placed' = placed /\ at' = at
      /\ sh_offset' = sh_offset /\ sh_addr' = sh_addr /\ phdrs' = phdrs
      /\ curOffset' = curOffset /\ shoff' = shoff /\ filePos' = Larger(filePos, shoff)
  BY DEF FinishAssembly
<1>2. TypeOK'
  BY TypeStep
<1>3. PhaseInv' /\ CursorInv' /\ HeadersInv'
  BY <1>1, Frame, PhaseStep DEF CursorInv, HeadersInv
<1>4. Laid' = Laid
  BY <1>1, Frame DEF Laid
<1>5. PlacedInv'
  BY <1>1, <1>4, NotPlacing DEF PlacedInv
<1>6. filePos' = shoff
  BY <1>1 DEF WriteInv, Larger, TypeOK
<1>7. WriteInv'
  BY <1>1, <1>6, Frame DEF WriteInv, FileMatchesHeaders
<1>. QED BY <1>2, <1>3, <1>5, <1>7

-----------------------------------------------------------------------------
LEMMA LayoutInit == Init => LayoutInv
<1>. SUFFICES ASSUME Init PROVE LayoutInv
  OBVIOUS
<1>1. TypeOK
  BY TypeInit
<1>2. /\ phase = "start" /\ placed = {} /\ phdrs = << >>
      /\ \A i \in Sections : sh_offset[i] = 0 /\ at[i] = 0
  BY DEF Init, Idle, Sections
<1>3. Laid = {}
  BY <1>2 DEF Laid
<1>. QED BY <1>1, <1>2, <1>3
     DEF LayoutInv, PhaseInv, CursorInv, PlacedInv, HeadersInv, WriteInv, DisjointInFile,
         LoadedWhereMapped, FileMatchesHeaders

LEMMA LayoutStutter ==
  ASSUME LayoutInv, UNCHANGED layoutVars
  PROVE  LayoutInv'
BY Frame, TypeStep, PhaseStep
   DEF layoutVars, LayoutInv, CursorInv, PlacedInv, HeadersInv, WriteInv,
       DisjointInFile, LoadedWhereMapped, FileMatchesHeaders, Laid, FileEnd, Unwritten,
       SectionsToWrite

LEMMA LayoutStepInv ==
  ASSUME LayoutInv, [Next]_layoutVars
  PROVE  LayoutInv'
<1>1. ASSUME NEW i \in Sections, PlaceRx(i) PROVE LayoutInv'
  BY <1>1, PlaceAllocInv, NextIsNew DEF PlaceRx, IsNext, Rest, Alloc, LayoutInv
<1>2. ASSUME NEW i \in Sections, PlaceRw(i) PROVE LayoutInv'
  BY <1>2, PlaceAllocInv, NextIsNew DEF PlaceRw, IsNext, Rest, Alloc, LayoutInv
<1>. QED
  BY <1>1, <1>2, PlaceNonAllocInv, PlaceRelocatableInv, StartInv, StartRwInv,
     GenerateProgramHeadersInv, FinishLayoutInv, StartAssemblyInv, WriteSectionInv,
     FinishAssemblyInv, LayoutStutter
  DEF Next, LayoutStep, AssemblyStep

(* The inductive invariant holds for every list of sections.                *)
THEOREM LayoutInvariant == Spec => []LayoutInv
<1>1. Init => LayoutInv
  BY LayoutInit
<1>2. LayoutInv /\ [Next]_layoutVars => LayoutInv'
  BY LayoutStepInv
<1>. QED BY <1>1, <1>2, PTL DEF Spec

(* No two sections of any file overlap.                                     *)
THEOREM NoOverlapInFile == Spec => []DisjointInFile
<1>1. LayoutInv => DisjointInFile
  BY DEF LayoutInv, PlacedInv
<1>. QED BY <1>1, LayoutInvariant, PTL

(* Every allocated section is loaded where its header says, aligned.        *)
THEOREM SectionsLoadedWhereMapped == Spec => []LoadedWhereMapped
<1>1. LayoutInv => LoadedWhereMapped
  BY DEF LayoutInv, PlacedInv
<1>. QED BY <1>1, LayoutInvariant, PTL

(* The bytes of every section are written at the offset its header names,   *)
(* and the section header table where the ELF header points.                *)
THEOREM AssemblyCorrect == Spec => []FileMatchesHeaders
<1>1. LayoutInv => FileMatchesHeaders
  BY DEF LayoutInv, WriteInv
<1>. QED BY <1>1, LayoutInvariant, PTL

-----------------------------------------------------------------------------
(* A section that has its place keeps it in every step.                     *)
LEMMA PlacedKept ==
  ASSUME LayoutInv, Next, NEW i \in placed
  PROVE  sh_offset'[i] = sh_offset[i] /\ sh_addr'[i] = sh_addr[i]
<1>1. sh_offset \in [Sections -> Nat] /\ sh_addr \in [Sections -> Nat] /\ i \in Sections
  BY DEF LayoutInv, TypeOK
<1>2. ASSUME NEW j \in Sections, PlaceRx(j) \/ PlaceRw(j) \/ PlaceNonAlloc(j) \/ PlaceRelocatable(j)
      PROVE  sh_offset'[i] = sh_offset[i] /\ sh_addr'[i] = sh_addr[i]
  BY <1>1, <1>2, NextIsNew DEF PlaceRx, PlaceRw, PlaceAlloc, PlaceNonAlloc, PlaceRelocatable, LayoutInv
<1>3. CASE \/ StartDynamic \/ StartRw \/ GenerateProgramHeaders \/ StartRelocatable
           \/ FinishLayout \/ AssemblyStep
  BY <1>3 DEF StartDynamic, StartRw, GenerateProgramHeaders, StartRelocatable, FinishLayout,
     AssemblyStep, StartAssembly, FinishAssembly, WriteSection
<1>. QED BY <1>2, <1>3 DEF Next, LayoutStep

(* A section that was given its place is not moved by any later loop.       *)
THEOREM SectionsPlacedOnce == Spec => PlacedOnce
<1>1. LayoutInv /\ [Next]_layoutVars =>
        [\A i \in placed : sh_offset'[i] = sh_offset[i] /\ sh_addr'[i] = sh_addr[i]]_layoutVars
  BY PlacedKept
<1>. QED BY <1>1, LayoutInvariant, PTL DEF Spec, PlacedOnce

(* A step gives room to one section at most.                                *)
LEMMA OneAtATime ==
  ASSUME LayoutInv, [Next]_layoutVars
  PROVE  placed' = placed \/ \E i \in Sections \ placed : placed' = placed \cup {i}
<1>1. ASSUME NEW i \in Sections, PlaceRx(i) \/ PlaceRw(i) \/ PlaceNonAlloc(i) \/ PlaceRelocatable(i)
      PROVE  i \notin placed /\ placed' = placed \cup {i}
  BY <1>1, NextIsNew DEF PlaceRx, PlaceRw, PlaceAlloc, PlaceNonAlloc, PlaceRelocatable, LayoutInv
<1>2. CASE \/ StartDynamic \/ StartRw \/ GenerateProgramHeaders \/ StartRelocatable
           \/ FinishLayout \/ AssemblyStep \/ UNCHANGED layoutVars
  BY <1>2 DEF StartDynamic, StartRw, GenerateProgramHeaders, StartRelocatable, FinishLayout,
     AssemblyStep, StartAssembly, FinishAssembly, WriteSection, layoutVars
<1>. QED BY <1>1, <1>2 DEF Next, LayoutStep

(* The room of each section ends after it starts, and two sections never    *)
(* have room in common, in the file or in memory.                           *)
RoomInv ==
  /\ \A i \in Laid : sh_offset[i] < FileEnd(i) /\ sh_addr[i] < MemEnd(i)
  /\ \A i, j \in Laid : i # j => FileEnd(i) <= sh_offset[j] \/ FileEnd(j) <= sh_offset[i]
  /\ \A i, j \in Mapped : i # j => MemEnd(i) <= sh_addr[j] \/ MemEnd(j) <= sh_addr[i]

(* What the inductive invariant says of the room of the sections.           *)
LEMMA RoomFacts == LayoutInv => RoomInv
<1>. SUFFICES ASSUME LayoutInv PROVE RoomInv
  OBVIOUS
<1>1. \A i \in Laid : /\ sh_offset[i] \in Nat /\ sh_addr[i] \in Nat /\ table[i].size \in Nat
                      /\ table[i].size > 0
  BY EntryType DEF LayoutInv, TypeOK, Laid
<1>2. \A i \in Laid : sh_offset[i] < FileEnd(i) /\ sh_addr[i] < MemEnd(i)
  BY <1>1 DEF FileEnd, MemEnd
<1>3. \A i, j \in Laid : i # j => FileEnd(i) <= sh_offset[j] \/ FileEnd(j) <= sh_offset[i]
  BY DEF LayoutInv, PlacedInv, DisjointInFile
<1>4. ASSUME NEW i \in Mapped, NEW j \in Mapped, i # j
      PROVE  MemEnd(i) <= sh_addr[j] \/ MemEnd(j) <= sh_addr[i]
  <2>1. i \in Laid /\ j \in Laid
    BY DEF Mapped
  <2>2. sh_addr[i] = Base + sh_offset[i] /\ sh_addr[j] = Base + sh_offset[j]
    BY DEF LayoutInv, PlacedInv, LoadedWhereMapped, Mapped
  <2>3. Base \in Nat
    BY BaseNat DEF LayoutInv
  <2>. QED BY <1>1, <1>3, <1>4, <2>1, <2>2, <2>3 DEF FileEnd, MemEnd
<1>. QED BY <1>2, <1>3, <1>4 DEF RoomInv

(* No two allocated sections of a loaded program overlap in memory.         *)
THEOREM NoOverlapInMemory == Spec => []DisjointInMemory
<1>1. RoomInv => DisjointInMemory
  BY DEF RoomInv, DisjointInMemory, Mapped
<1>. QED BY <1>1, RoomFacts, LayoutInvariant, PTL

(* No byte of the file or of memory belongs to two sections.                *)
THEOREM NoOverlap == Spec => []Disjoint
<1>1. DisjointInFile /\ DisjointInMemory => Disjoint
  BY DEF Disjoint
<1>. QED BY <1>1, NoOverlapInFile, NoOverlapInMemory, PTL

(* The section whose room a step adds, in the file and perhaps in memory.   *)
LEMMA LaidStep ==
  ASSUME LayoutInv, [Next]_layoutVars
  PROVE  /\ Laid' = Laid \/ \E i \in Sections \ Laid : Laid' = Laid \cup {i}
         /\ Mapped' = Mapped \/ \E i \in Sections \ Mapped : Mapped' = Mapped \cup {i}
         /\ \A j \in Laid : /\ sh_offset'[j] = sh_offset[j] /\ FileEnd(j)' = FileEnd(j)
                            /\ sh_addr'[j] = sh_addr[j] /\ MemEnd(j)' = MemEnd(j)
<1>1. table' = table /\ Alloc' = Alloc /\ format' = format
  BY Frame
<1>2. /\ Laid' = Laid \/ \E i \in Sections \ Laid : Laid' = Laid \cup {i}
      /\ Mapped' = Mapped \/ \E i \in Sections \ Mapped : Mapped' = Mapped \cup {i}
  BY <1>1, OneAtATime DEF Laid, Mapped
<1>3. \A j \in Laid : sh_offset'[j] = sh_offset[j] /\ sh_addr'[j] = sh_addr[j]
  BY PlacedKept DEF Laid, layoutVars
<1>. QED BY <1>1, <1>2, <1>3 DEF FileEnd, MemEnd

(* Initially no section has room.                                           *)
LEMMA NothingLaid == Init => Laid = {} /\ Mapped = {}
BY DEF Init, Idle, Laid, Mapped

(* The layout of the file implements Packing.                               *)
THEOREM FileIsPacked == Spec => FilePacking
<1>. DEFINE Room == [i \in Laid |-> [start |-> sh_offset[i], end |-> FileEnd(i)]]
<1>1. Init => File!Init
  BY NothingLaid DEF File!Init
<1>2. ASSUME LayoutInv, RoomInv', [Next]_layoutVars
      PROVE  [File!Next]_Room
  <2>1. CASE Laid' = Laid
    <3>1. Room' = Room
      BY <1>2, <2>1, LaidStep
    <3>. QED BY <3>1
  <2>2. ASSUME NEW i \in Sections \ Laid, Laid' = Laid \cup {i}
        PROVE  File!Next
    <3>1. DOMAIN Room' = DOMAIN Room \cup {i} /\ i \in DOMAIN Room' \ DOMAIN Room
      BY <2>2
    <3>2. Room'[i].start < Room'[i].end
      BY <1>2, <2>2 DEF RoomInv
    <3>3. ASSUME NEW j \in Laid
          PROVE  Room'[j] = Room[j] /\ File!Apart(Room'[i], Room[j])
      BY <1>2, <2>2, LaidStep DEF RoomInv, File!Apart
    <3>. QED BY <3>1, <3>2, <3>3 DEF File!Next, File!Reserve
  <2>. QED BY <1>2, <2>1, <2>2, LaidStep
<1>. QED BY <1>1, <1>2, RoomFacts, LayoutInvariant, PTL DEF Spec, FilePacking, File!Spec

(* The memory image of a loaded file implements Packing.                    *)
THEOREM MemoryIsPacked == Spec => MemoryPacking
<1>. DEFINE Room == [i \in Mapped |-> [start |-> sh_addr[i], end |-> MemEnd(i)]]
<1>1. Init => Memory!Init
  BY NothingLaid DEF Memory!Init
<1>2. ASSUME LayoutInv, RoomInv', [Next]_layoutVars
      PROVE  [Memory!Next]_Room
  <2>1. Mapped \subseteq Laid /\ (Mapped \subseteq Laid)'
    BY DEF Mapped
  <2>2. CASE Mapped' = Mapped
    <3>1. Room' = Room
      BY <1>2, <2>1, <2>2, LaidStep
    <3>. QED BY <3>1
  <2>3. ASSUME NEW i \in Sections \ Mapped, Mapped' = Mapped \cup {i}
        PROVE  Memory!Next
    <3>1. DOMAIN Room' = DOMAIN Room \cup {i} /\ i \in DOMAIN Room' \ DOMAIN Room
      BY <2>3
    <3>2. Room'[i].start < Room'[i].end
      BY <1>2, <2>1, <2>3 DEF RoomInv
    <3>3. ASSUME NEW j \in Mapped
          PROVE  Room'[j] = Room[j] /\ Memory!Apart(Room'[i], Room[j])
      BY <1>2, <2>1, <2>3, LaidStep DEF RoomInv, Memory!Apart
    <3>. QED BY <3>1, <3>2, <3>3 DEF Memory!Next, Memory!Reserve
  <2>. QED BY <1>2, <2>2, <2>3, LaidStep
<1>. QED BY <1>1, <1>2, RoomFacts, LayoutInvariant, PTL DEF Spec, MemoryPacking, Memory!Spec

(* Both at once, for every list of sections and every size.                 *)
THEOREM LayoutIsPacked == Spec => Packed
<1>. QED BY FileIsPacked, MemoryIsPacked DEF Packed

-----------------------------------------------------------------------------
(* The segments.  While the read-write sections are placed they stay in     *)
(* order behind a page boundary, which is behind the read-execute ones.     *)
RxPages == AlignTo(rxEndVAddr, PAGE)

CoverInv ==
  /\ phase \in {"start", "rx", "rw"} => phdrs = << >>
  /\ phase = "rw" =>
       /\ rxEndVAddr = Base + rxEndOffset
       /\ RxPages <= curVAddr
       /\ \A i \in placed \cap RwSections : RxPages <= sh_addr[i]
       /\ \A i, j \in placed \cap RwSections : i < j => sh_offset[i] <= sh_offset[j]
  /\ phdrs # << >> => Alloc \subseteq placed
  /\ Has(".dynamic") => SectionNamed(".dynamic") \in RwSections
  /\ SegmentsCover

RxSegment == Segment("LOAD_RX", 0, Base, rxEndOffset, rxEndVAddr - Base)
RwSegment == Segment("LOAD_RW", sh_offset[FirstRw], sh_addr[FirstRw],
                     curOffset - sh_offset[FirstRw], curVAddr - sh_addr[FirstRw])
HeadersSegment == Segment("PHDR", EHDR, Base + EHDR, PhdrCount * PHDR, PhdrCount * PHDR)

(* The program header table as a set: each entry is there on its condition. *)
OnlyIf(cond, x) == IF cond THEN {x} ELSE {}
Entries ==
  {HeadersSegment}
    \cup OnlyIf(Has(".interp"), SegmentOf("INTERP", ".interp"))
    \cup OnlyIf(NeedsRxLoad, RxSegment)
    \cup OnlyIf(NeedsRwLoad, RwSegment)
    \cup OnlyIf(Has(".dynamic"), SegmentOf("DYNAMIC", ".dynamic"))

LEMMA WhenRange ==
  ASSUME NEW cond \in BOOLEAN, NEW x
  PROVE  When(cond, <<x>>) \in Seq({x}) /\ Range(When(cond, <<x>>)) = OnlyIf(cond, x)
<1>1. CASE cond
  <2>1. When(cond, <<x>>) = <<x>>
    BY <1>1 DEF When
  <2>2. <<x>> \in Seq({x}) /\ Range(<<x>>) = {x}
    BY DEF Range
  <2>3. OnlyIf(cond, x) = {x}
    BY <1>1 DEF OnlyIf
  <2>. QED BY <2>1, <2>2, <2>3
<1>2. CASE ~cond
  <2>1. When(cond, <<x>>) = << >>
    BY <1>2 DEF When
  <2>2. << >> \in Seq({x}) /\ Range(<< >>) = {}
    BY DEF Range
  <2>3. OnlyIf(cond, x) = {}
    BY <1>2 DEF OnlyIf
  <2>. QED BY <2>1, <2>2, <2>3
<1>. QED BY <1>1, <1>2

LEMMA EntriesOfTable == Range(ProgramHeaders) = Entries
<1>. DEFINE interp == SegmentOf("INTERP", ".interp")
            dynamic == SegmentOf("DYNAMIC", ".dynamic")
            s1 == <<HeadersSegment>>
            s2 == When(Has(".interp"), <<interp>>)
            s3 == When(NeedsRxLoad, <<RxSegment>>)
            s4 == When(NeedsRwLoad, <<RwSegment>>)
            s5 == When(Has(".dynamic"), <<dynamic>>)
            S == {HeadersSegment, interp, RxSegment, RwSegment, dynamic}
<1>1. /\ Has(".interp") \in BOOLEAN /\ Has(".dynamic") \in BOOLEAN
      /\ NeedsRxLoad \in BOOLEAN /\ NeedsRwLoad \in BOOLEAN
  BY DEF Has, NeedsRxLoad, NeedsRwLoad
<1>2. s1 \in Seq(S) /\ Range(s1) = {HeadersSegment}
  <2>1. Range(s1) = {HeadersSegment}
    BY DEF Range
  <2>2. s1 \in Seq({HeadersSegment}) /\ {HeadersSegment} \subseteq S
    OBVIOUS
  <2>. HIDE DEF s1, S
  <2>. QED BY <2>1, <2>2, SeqMonotonic
<1>3. ASSUME NEW c \in BOOLEAN, NEW x \in S
      PROVE  When(c, <<x>>) \in Seq(S) /\ Range(When(c, <<x>>)) = OnlyIf(c, x)
  <2>1. {x} \subseteq S
    OBVIOUS
  <2>. HIDE DEF S
  <2>. QED BY <2>1, WhenRange, SeqMonotonic
<1>4. /\ s2 \in Seq(S) /\ s3 \in Seq(S) /\ s4 \in Seq(S) /\ s5 \in Seq(S)
      /\ Range(s2) = OnlyIf(Has(".interp"), interp)
      /\ Range(s3) = OnlyIf(NeedsRxLoad, RxSegment)
      /\ Range(s4) = OnlyIf(NeedsRwLoad, RwSegment)
      /\ Range(s5) = OnlyIf(Has(".dynamic"), dynamic)
  <2>1. interp \in S /\ RxSegment \in S /\ RwSegment \in S /\ dynamic \in S
    OBVIOUS
  <2>. HIDE DEF S, interp, dynamic
  <2>. QED BY <1>1, <1>3, <2>1
<1>5. ProgramHeaders = s1 \o s2 \o s3 \o s4 \o s5
  BY DEF ProgramHeaders, RxSegment, RwSegment, HeadersSegment
<1>6. Entries = Range(s1) \cup Range(s2) \cup Range(s3) \cup Range(s4) \cup Range(s5)
  BY <1>2, <1>4 DEF Entries
<1>. HIDE DEF s1, s2, s3, s4, s5, S
<1>12. s1 \in Seq(S) /\ s2 \in Seq(S) /\ s3 \in Seq(S) /\ s4 \in Seq(S) /\ s5 \in Seq(S)
  BY <1>2, <1>4
<1>7. s1 \o s2 \in Seq(S) /\ s1 \o s2 \o s3 \in Seq(S) /\ s1 \o s2 \o s3 \o s4 \in Seq(S)
  BY <1>12
<1>8. Range(s1 \o s2 \o s3 \o s4 \o s5) = Range(s1 \o s2 \o s3 \o s4) \cup Range(s5)
  BY <1>12, <1>7, RangeConcatenation
<1>9. Range(s1 \o s2 \o s3 \o s4) = Range(s1 \o s2 \o s3) \cup Range(s4)
  BY <1>12, <1>7, RangeConcatenation
<1>10. Range(s1 \o s2 \o s3) = Range(s1 \o s2) \cup Range(s3)
  BY <1>12, <1>7, RangeConcatenation
<1>11. Range(s1 \o s2) = Range(s1) \cup Range(s2)
  BY <1>12, RangeConcatenation
<1>. QED BY <1>5, <1>6, <1>8, <1>9, <1>10, <1>11

(* What a new program header table covers.                                  *)
LEMMA NewHeadersCover ==
  ASSUME LayoutInv, CoverInv, [Next]_layoutVars, GenerateProgramHeaders
  PROVE  SegmentsCover'
<1>. USE DEF LayoutInv
<1>1. /\ phase = "rw" /\ Rest(RwSections) = {} /\ format # "ko" /\ phdrs' = ProgramHeaders
      /\ sh_offset' = sh_offset /\ sh_addr' = sh_addr
  BY DEF GenerateProgramHeaders, PhaseInv
<1>2. placed = Alloc
  <2>1. RwSections \in SUBSET Sections
    BY DEF RwSections
  <2>. QED BY <1>1, <2>1, ListEnds DEF PhaseInv, Alloc
<1>3. ASSUME NEW i \in Alloc
      PROVE  /\ i \in Laid \cap Alloc /\ i \in Sections
             /\ table[i].size \in Nat /\ sh_offset[i] \in Nat /\ FileEnd(i) \in Nat
             /\ sh_addr[i] = Base + sh_offset[i] /\ MemEnd(i) = Base + FileEnd(i)
             /\ FileEnd(i) <= curOffset /\ sh_offset[i] <= FileEnd(i)
  <2>1. i \in Laid \cap Alloc /\ i \in Sections
    BY <1>2, <1>3 DEF Laid, Alloc, RxSections, RwSections
  <2>2. table[i].size \in Nat /\ sh_offset[i] \in Nat /\ sh_addr[i] \in Nat
    BY <2>1, EntryType DEF TypeOK
  <2>3. sh_addr[i] = Base + sh_offset[i]
    BY <1>1, <2>1 DEF PlacedInv, LoadedWhereMapped
  <2>. QED BY <2>1, <2>2, <2>3, BaseNat DEF FileEnd, MemEnd, PlacedInv
<1>4. /\ Base \in Nat /\ rxEndOffset \in Nat /\ curOffset \in Nat /\ curVAddr = Base + curOffset
      /\ rxEndVAddr = Base + rxEndOffset
  BY <1>1, BaseNat DEF TypeOK, CursorInv, CoverInv
<1>5. /\ \A i \in Sections : FileEnd(i)' = FileEnd(i) /\ MemEnd(i)' = MemEnd(i)
      /\ Sections' = Sections /\ RxSections' = RxSections /\ RwSections' = RwSections
  BY <1>1, Frame DEF FileEnd, MemEnd
<1>6. \A s : (\E k \in DOMAIN phdrs' : phdrs'[k] = s) <=> s \in Entries
  BY <1>1, EntriesOfTable DEF Range
<1>7. /\ \A s \in Entries : s.p_type = "LOAD_RX" => s = RxSegment
      /\ \A s \in Entries : s.p_type = "LOAD_RW" => s = RwSegment /\ NeedsRwLoad
      /\ \A s \in Entries : s.p_type = "PHDR" => s = HeadersSegment
  BY DEF Entries, OnlyIf, RxSegment, RwSegment, HeadersSegment, SegmentOf, Segment
<1>8. ASSUME NEW i \in RxSections'
      PROVE  \E k \in Segments("LOAD_RX")' : Within(i, phdrs[k])'
  <2>1. i \in RxSections /\ i \in Alloc /\ i \in placed /\ NeedsRxLoad
    BY <1>2, <1>5 DEF Alloc, RxSections, NeedsRxLoad
  <2>2. RxSegment \in Entries
    BY <2>1 DEF Entries, OnlyIf
  <2>3. PICK k \in DOMAIN phdrs' : phdrs'[k] = RxSegment
    BY <2>2, <1>6
  <2>4. k \in Segments("LOAD_RX")'
    BY <2>3 DEF Segments, RxSegment, Segment
  <2>5. FileEnd(i) <= rxEndOffset
    BY <2>1, <1>1 DEF CursorInv
  <2>6. Within(i, phdrs[k])'
    BY <1>1, <1>3, <1>4, <1>5, <2>1, <2>3, <2>5 DEF Within, RxSegment, Segment
  <2>. QED BY <2>4, <2>6
<1>9. ASSUME NeedsRwLoad
      PROVE  /\ FirstRw \in RwSections /\ FirstRw \in Alloc
             /\ \A j \in RwSections : sh_offset[FirstRw] <= sh_offset[j]
             /\ RxPages <= sh_addr[FirstRw]
  <2>1. FirstRw \in RwSections /\ \A j \in RwSections : FirstRw <= j
    BY <1>9, FirstRwType DEF NeedsRwLoad
  <2>2. RwSections \subseteq placed \cap RwSections /\ RwSections \subseteq Nat
    BY <1>2 DEF Alloc, RwSections, Sections, TypeOK
  <2>3. \A i, j \in RwSections : i < j => sh_offset[i] <= sh_offset[j]
    BY <1>1, <2>2 DEF CoverInv
  <2>4. sh_offset[FirstRw] <= sh_offset[FirstRw]
    BY <2>1, <1>3 DEF Alloc
  <2>5. \A j \in RwSections : j = FirstRw \/ FirstRw < j
    BY <2>1, <2>2
  <2>. QED BY <1>1, <2>1, <2>2, <2>3, <2>4, <2>5 DEF CoverInv, Alloc
<1>10. ASSUME NEW i \in RwSections'
       PROVE  \E k \in Segments("LOAD_RW")' : Within(i, phdrs[k])'
  <2>1. i \in RwSections /\ i \in Alloc /\ NeedsRwLoad
    BY <1>5 DEF Alloc, NeedsRwLoad
  <2>2. RwSegment \in Entries
    BY <2>1 DEF Entries, OnlyIf
  <2>3. PICK k \in DOMAIN phdrs' : phdrs'[k] = RwSegment
    BY <2>2, <1>6
  <2>4. k \in Segments("LOAD_RW")'
    BY <2>3 DEF Segments, RwSegment, Segment
  <2>5. /\ sh_addr[FirstRw] = Base + sh_offset[FirstRw] /\ sh_offset[FirstRw] \in Nat
        /\ sh_offset[FirstRw] <= sh_offset[i]
    BY <2>1, <1>3, <1>9
  <2>6. /\ phdrs'[k].p_offset = sh_offset[FirstRw]
        /\ phdrs'[k].p_filesz = curOffset - sh_offset[FirstRw]
        /\ phdrs'[k].p_vaddr = sh_addr[FirstRw]
        /\ phdrs'[k].p_memsz = curVAddr - sh_addr[FirstRw]
    BY <2>3 DEF RwSegment, Segment
  <2>7. Within(i, phdrs[k])'
    BY <1>1, <1>3, <1>4, <1>5, <2>1, <2>5, <2>6 DEF Within
  <2>. QED BY <2>4, <2>7
<1>11. ASSUME NEW k \in Segments("PHDR")', NEW l \in Segments("LOAD_RX")'
       PROVE  phdrs'[k].p_vaddr + phdrs'[k].p_memsz <= phdrs'[l].p_vaddr + phdrs'[l].p_memsz
  <2>1. phdrs'[k] = HeadersSegment /\ phdrs'[l] = RxSegment
    BY <1>6, <1>7 DEF Segments
  <2>2. HeaderEnd <= rxEndOffset /\ HeaderEnd = EHDR + PhdrCount * PHDR
    BY <1>1 DEF CursorInv, HeaderEnd
  <2>. QED BY <2>1, <2>2, <1>4, PhdrCountType DEF HeadersSegment, RxSegment, Segment, EHDR, PHDR
<1>12. ASSUME NEW k \in Segments("LOAD_RX")', NEW l \in Segments("LOAD_RW")'
       PROVE  AlignTo(phdrs'[k].p_vaddr + phdrs'[k].p_memsz, PAGE)
                <= phdrs'[l].p_vaddr - (phdrs'[l].p_vaddr % PAGE)
  <2>1. phdrs'[k] = RxSegment /\ phdrs'[l] = RwSegment /\ NeedsRwLoad
    BY <1>6, <1>7 DEF Segments
  <2>2. phdrs'[k].p_vaddr + phdrs'[k].p_memsz = rxEndVAddr
    BY <2>1, <1>4 DEF RxSegment, Segment
  <2>3. phdrs'[l].p_vaddr = sh_addr[FirstRw] /\ sh_addr[FirstRw] \in Nat
    BY <2>1, <1>3, <1>4, <1>9 DEF RwSegment, Segment
  <2>4. RxPages \in Nat /\ RxPages % PAGE = 0
    <3>1. PAGE \in Alignments /\ Larger(PAGE, 1) = PAGE
      BY DEF PAGE, Alignments, Larger
    <3>. QED BY <3>1, <1>4, AlignToBounds DEF RxPages
  <2>5. RxPages <= sh_addr[FirstRw] - (sh_addr[FirstRw] % PAGE)
    BY <2>1, <2>3, <2>4, <1>9 DEF PAGE
  <2>. QED BY <2>2, <2>3, <2>5 DEF RxPages
<1>13. ASSUME Has(".dynamic")'
       PROVE  \E k \in Segments("DYNAMIC")', l \in Segments("LOAD_RW")' :
                /\ Exactly(SectionNamed(".dynamic"), phdrs[k])'
                /\ Within(SectionNamed(".dynamic"), phdrs[l])'
  <2>. DEFINE i == SectionNamed(".dynamic")
  <2>1. Has(".dynamic") /\ i' = i /\ table' = table
    BY <1>13, Frame DEF Has, SectionNamed
  <2>2. i \in RwSections
    BY <2>1 DEF CoverInv
  <2>3. PICK l \in Segments("LOAD_RW")' : Within(i, phdrs[l])'
    BY <1>5, <1>10, <2>1, <2>2
  <2>4. SegmentOf("DYNAMIC", ".dynamic") \in Entries
    BY <2>1 DEF Entries, OnlyIf
  <2>5. PICK k \in DOMAIN phdrs' : phdrs'[k] = SegmentOf("DYNAMIC", ".dynamic")
    BY <2>4, <1>6
  <2>6. k \in Segments("DYNAMIC")'
    BY <2>5 DEF Segments, SegmentOf, Segment
  <2>7. Exactly(i, phdrs[k])'
    <3>1. /\ phdrs'[k].p_offset = sh_offset[i] /\ phdrs'[k].p_filesz = table[i].size
          /\ phdrs'[k].p_vaddr = sh_addr[i] /\ phdrs'[k].p_memsz = table[i].size
      BY <2>5 DEF SegmentOf, Segment
    <3>. HIDE DEF i
    <3>. QED BY <1>1, <2>1, <3>1 DEF Exactly
  <2>. QED BY <2>3, <2>6, <2>7
<1>. QED BY <1>8, <1>10, <1>11, <1>12, <1>13 DEF SegmentsCover

(* A program header table that is there keeps its promise: the sections it  *)
(* covers have their place, and no step moves them.                         *)
LEMMA HeadersKept ==
  ASSUME LayoutInv, CoverInv, [Next]_layoutVars, phdrs' = phdrs
  PROVE  /\ phdrs' # << >> => Alloc' \subseteq placed'
         /\ (Has(".dynamic") => SectionNamed(".dynamic") \in RwSections)'
         /\ SegmentsCover'
<1>1. placed \subseteq placed'
  BY OneAtATime
<1>2. phdrs' # << >> => Alloc' \subseteq placed'
  BY <1>1, Frame DEF CoverInv
<1>3. Segments("LOAD_RX")' = Segments("LOAD_RX") /\ Segments("LOAD_RW")' = Segments("LOAD_RW")
      /\ Segments("PHDR")' = Segments("PHDR") /\ Segments("DYNAMIC")' = Segments("DYNAMIC")
  BY DEF Segments
<1>4. ASSUME NEW i \in Alloc, phdrs # << >>, NEW k
      PROVE  Within(i, phdrs[k])' = Within(i, phdrs[k])
  <2>1. i \in placed
    BY <1>4 DEF CoverInv
  <2>2. sh_offset'[i] = sh_offset[i] /\ sh_addr'[i] = sh_addr[i]
    BY <2>1, PlacedKept DEF layoutVars
  <2>. QED BY <2>2, Frame DEF Within, FileEnd, MemEnd
<1>5. Has(".dynamic")' = Has(".dynamic") /\ SectionNamed(".dynamic")' = SectionNamed(".dynamic")
  BY Frame DEF Has, SectionNamed
<1>6. (Has(".dynamic") => SectionNamed(".dynamic") \in RwSections)'
  BY <1>5, Frame DEF CoverInv
<1>7. ASSUME phdrs # << >>, Has(".dynamic"), NEW k
      PROVE  Exactly(SectionNamed(".dynamic"), phdrs[k])' = Exactly(SectionNamed(".dynamic"), phdrs[k])
  <2>. DEFINE i == SectionNamed(".dynamic")
  <2>1. i \in placed /\ i' = i
    BY <1>5, <1>7 DEF CoverInv, Alloc
  <2>2. sh_offset'[i] = sh_offset[i] /\ sh_addr'[i] = sh_addr[i] /\ table' = table
    BY <2>1, PlacedKept, Frame DEF layoutVars
  <2>. HIDE DEF i
  <2>3. Exactly(i, phdrs[k])' = Exactly(i, phdrs[k])
    BY <2>1, <2>2 DEF Exactly
  <2>. QED BY <2>3 DEF i
<1>8. SegmentsCover'
  <2>. SUFFICES ASSUME phdrs # << >> PROVE SegmentsCover'
    BY DEF SegmentsCover
  <2>1. SegmentsCover
    BY DEF CoverInv
  <2>2. /\ (\A i \in RxSections : \E k \in Segments("LOAD_RX") : Within(i, phdrs[k]))'
        /\ (\A i \in RwSections : \E k \in Segments("LOAD_RW") : Within(i, phdrs[k]))'
    BY <1>3, <1>4, <2>1, Frame DEF SegmentsCover, Alloc
  <2>3. ASSUME Has(".dynamic")'
        PROVE  (\E k \in Segments("DYNAMIC"), l \in Segments("LOAD_RW") :
                  /\ Exactly(SectionNamed(".dynamic"), phdrs[k])
                  /\ Within(SectionNamed(".dynamic"), phdrs[l]))'
    <3>. DEFINE i == SectionNamed(".dynamic")
    <3>1. Has(".dynamic") /\ i \in Alloc /\ i' = i
      BY <1>5, <2>3 DEF CoverInv, Alloc
    <3>2. PICK k \in Segments("DYNAMIC"), l \in Segments("LOAD_RW") : Exactly(i, phdrs[k]) /\ Within(i, phdrs[l])
      BY <2>1, <3>1 DEF SegmentsCover
    <3>3. Exactly(i, phdrs[k])'
      BY <1>7, <3>1, <3>2
    <3>4. Within(i, phdrs[l])'
      <4>. DEFINE n == i
      <4>1. n \in Alloc /\ n' = n
        BY <3>1
      <4>2. Within(n, phdrs[l])
        BY <3>2
      <4>. HIDE DEF n
      <4>3. Within(n, phdrs[l])'
        <5>1. n \in placed /\ table' = table
          BY <4>1, Frame DEF CoverInv
        <5>2. sh_offset'[n] = sh_offset[n] /\ sh_addr'[n] = sh_addr[n]
          BY <5>1, PlacedKept DEF layoutVars
        <5>. QED BY <4>1, <4>2, <5>1, <5>2 DEF Within, FileEnd, MemEnd
      <4>. QED BY <4>3 DEF n
    <3>. QED BY <1>3, <3>2, <3>3, <3>4
  <2>. QED BY <1>3, <2>1, <2>2, <2>3 DEF SegmentsCover
<1>. QED BY <1>2, <1>6, <1>8

LEMMA CoverInit == Init => CoverInv
<1>. SUFFICES ASSUME Init PROVE CoverInv
  OBVIOUS
<1>1. phase = "start" /\ phdrs = << >>
  BY DEF Init, Idle
<1>2. ASSUME Has(".dynamic") PROVE SectionNamed(".dynamic") \in RwSections
  <2>. DEFINE i == SectionNamed(".dynamic")
  <2>1. i \in Sections /\ table[i].name = ".dynamic"
    BY <1>2, SectionNamedType
  <2>2. table[i].alloc /\ table[i].write /\ table[i].size > 0
    BY <2>1, TablesAssumption DEF Init, Idle, Sections
  <2>. QED BY <2>1, <2>2 DEF RwSections
<1>. QED BY <1>1, <1>2 DEF CoverInv, SegmentsCover

LEMMA PlaceRwCovers ==
  ASSUME LayoutInv, CoverInv, [Next]_layoutVars, NEW i \in Sections, PlaceRw(i)
  PROVE  CoverInv'
<1>. DEFINE addr == AlignTo(curVAddr, Alignment(table[i]))
            off  == AlignTo(curOffset, Alignment(table[i]))
<1>. USE DEF LayoutInv
<1>1. /\ phase = "rw" /\ phase' = "rw" /\ i \in RwSections /\ cursor < i /\ phdrs' = phdrs
      /\ placed' = placed \cup {i} /\ rxEndVAddr' = rxEndVAddr /\ rxEndOffset' = rxEndOffset
      /\ sh_addr' = [sh_addr EXCEPT ![i] = addr] /\ sh_offset' = [sh_offset EXCEPT ![i] = off]
      /\ curVAddr' = addr + table[i].size
  BY DEF PlaceRw, PlaceAlloc, IsNext, Rest
<1>2. /\ curVAddr \in Nat /\ curOffset \in Nat /\ cursor \in Nat /\ table[i].size \in Nat
      /\ sh_addr \in [Sections -> Nat] /\ sh_offset \in [Sections -> Nat]
  BY EntryType DEF TypeOK
<1>3. addr \in Nat /\ off \in Nat /\ curVAddr <= addr /\ curOffset <= off
  BY <1>2, EntryType, AlignToBounds
<1>. HIDE DEF addr, off
<1>4. RxPages' = RxPages /\ RxPages \in Nat
  <2>1. PAGE \in Alignments /\ rxEndVAddr \in Nat
    BY DEF PAGE, Alignments, TypeOK
  <2>. QED BY <1>1, <2>1, AlignToBounds DEF RxPages
<1>5. ASSUME NEW j \in placed \cap RwSections
      PROVE  /\ j \in Sections /\ j \in Nat /\ j <= cursor
             /\ sh_offset[j] <= off /\ j # i
  <2>0. j \in Sections /\ j \in Nat
    BY <1>5 DEF RwSections, TypeOK, Sections
  <2>1. j \in Sections /\ j \in Nat /\ j <= cursor
    <3>1. j \notin RxSections
      BY <1>5 DEF RxSections, RwSections
    <3>2. placed = RxSections \cup UpTo(RwSections)
      BY <1>1 DEF PhaseInv
    <3>. QED BY <2>0, <3>1, <3>2 DEF UpTo
  <2>2. j \in Laid /\ FileEnd(j) <= curOffset
    BY <1>5 DEF Laid, RwSections, PlacedInv
  <2>3. table[j].size \in Nat /\ sh_offset[j] \in Nat
    BY <1>2, <2>1, EntryType
  <2>. QED BY <1>1, <1>2, <1>3, <2>1, <2>2, <2>3 DEF FileEnd
<1>6. RxPages' <= curVAddr'
  BY <1>1, <1>2, <1>3, <1>4 DEF CoverInv
<1>7. ASSUME NEW j \in (placed \cap RwSections)'
      PROVE  RxPages' <= sh_addr'[j]
  <2>1. j \in RwSections /\ (j = i \/ j \in placed)
    BY <1>1, <1>7, Frame
  <2>2. CASE j = i
    BY <2>2, <1>1, <1>2, <1>3, <1>4 DEF CoverInv
  <2>3. CASE j # i
    BY <2>1, <2>3, <1>1, <1>2, <1>4, <1>5 DEF CoverInv
  <2>. QED BY <2>2, <2>3
<1>8. ASSUME NEW j \in (placed \cap RwSections)', NEW k \in (placed \cap RwSections)', j < k
      PROVE  sh_offset'[j] <= sh_offset'[k]
  <2>1. j \in RwSections /\ (j = i \/ j \in placed) /\ k \in RwSections /\ (k = i \/ k \in placed)
    BY <1>1, <1>8, Frame
  <2>2. i \in Nat
    BY DEF TypeOK, Sections
  <2>3. j # i
    BY <2>1, <2>2, <1>1, <1>2, <1>5, <1>8
  <2>4. CASE k = i
    BY <2>1, <2>3, <2>4, <1>1, <1>2, <1>5
  <2>5. CASE k # i
    BY <2>1, <2>3, <2>5, <1>1, <1>2, <1>5, <1>8 DEF CoverInv
  <2>. QED BY <2>4, <2>5
<1>9. rxEndVAddr' = Base' + rxEndOffset'
  BY <1>1, Frame DEF CoverInv
<1>10. phdrs = << >>
  BY <1>1 DEF CoverInv
<1>. QED BY <1>1, <1>6, <1>7, <1>8, <1>9, <1>10, HeadersKept DEF CoverInv

LEMMA StartRwCovers ==
  ASSUME LayoutInv, CoverInv, [Next]_layoutVars, StartRw
  PROVE  CoverInv'
<1>. USE DEF LayoutInv
<1>1. /\ phase = "rx" /\ phase' = "rw" /\ placed' = placed /\ phdrs' = phdrs
      /\ rxEndOffset' = curOffset /\ rxEndVAddr' = curVAddr
      /\ curVAddr' = AlignTo(curVAddr, PAGE)
  BY DEF StartRw
<1>2. RxPages' = curVAddr' /\ RxPages' \in Nat
  <2>1. PAGE \in Alignments /\ curVAddr \in Nat
    BY DEF PAGE, Alignments, TypeOK
  <2>. QED BY <1>1, <2>1, AlignToBounds DEF RxPages
<1>3. (placed \cap RwSections)' = {}
  BY <1>1, Frame DEF PhaseInv, UpTo, RxSections, RwSections
<1>4. rxEndVAddr' = Base' + rxEndOffset'
  BY <1>1, Frame DEF CursorInv
<1>5. phdrs = << >>
  BY <1>1 DEF CoverInv
<1>. QED BY <1>1, <1>2, <1>3, <1>4, <1>5, HeadersKept DEF CoverInv

LEMMA CoverStep ==
  ASSUME LayoutInv, CoverInv, [Next]_layoutVars
  PROVE  CoverInv'
<1>1. CASE StartDynamic \/ \E i \in Sections : PlaceRx(i)
  <2>1. phdrs' = phdrs /\ phase \in {"start", "rx"} /\ phase' = "rx"
    BY <1>1 DEF StartDynamic, PlaceRx, PlaceAlloc
  <2>. QED BY <2>1, HeadersKept DEF CoverInv
<1>2. CASE StartRelocatable
  <2>1. phdrs' = phdrs /\ phase' = "ko"
    BY <1>2 DEF StartRelocatable
  <2>. QED BY <2>1, HeadersKept DEF CoverInv
<1>3. CASE GenerateProgramHeaders
  <2>1. phase = "rw" /\ phase' = "nonalloc" /\ placed' = placed
    BY <1>3 DEF GenerateProgramHeaders
  <2>2. RwSections \in SUBSET Sections /\ Rest(RwSections) = {} /\ TypeOK
    BY <1>3 DEF RwSections, GenerateProgramHeaders, LayoutInv
  <2>3. Alloc' \subseteq placed'
    BY <2>1, <2>2, ListEnds, Frame DEF PhaseInv, Alloc, LayoutInv
  <2>4. (Has(".dynamic") => SectionNamed(".dynamic") \in RwSections)'
    BY Frame DEF CoverInv, Has, SectionNamed
  <2>. QED BY <1>3, <2>1, <2>3, <2>4, NewHeadersCover DEF CoverInv
<1>4. CASE \/ \E i \in Sections : PlaceNonAlloc(i) \/ PlaceRelocatable(i)
           \/ FinishLayout \/ AssemblyStep
  <2>1. /\ phdrs' = phdrs
        /\ phase' \in {"nonalloc", "ko", "laidout", "write", "done"}
    BY <1>4 DEF PlaceNonAlloc, PlaceRelocatable, FinishLayout, AssemblyStep, StartAssembly,
       FinishAssembly, WriteSection
  <2>. QED BY <2>1, HeadersKept DEF CoverInv
<1>5. CASE UNCHANGED layoutVars
  BY <1>5, HeadersKept, Frame DEF CoverInv, layoutVars, RxPages
<1>. QED
  BY <1>1, <1>2, <1>3, <1>4, <1>5, StartRwCovers, PlaceRwCovers DEF Next, LayoutStep

(* The segments of every program cover what they are for, code and data     *)
(* never share a page, and the DYNAMIC header is the section .dynamic.      *)
THEOREM SegmentsCorrect == Spec => []SegmentsCover
<1>1. CoverInv => SegmentsCover
  BY DEF CoverInv
<1>. QED BY <1>1, CoverInit, CoverStep, LayoutInvariant, PTL DEF Spec
=============================================================================
