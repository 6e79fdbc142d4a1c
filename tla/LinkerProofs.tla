---------------------------- MODULE LinkerProofs ----------------------------
(***************************************************************************)
(* Proofs about Linker for every program.                                  *)
(***************************************************************************)
EXTENDS Linker, ListProofs, SequenceTheorems, FiniteSetTheorems, TLAPS

(* The theorems about ElfLayout, for the file of this program.              *)
File == INSTANCE ElfLayoutProofs WITH Tables <- {}, SectionNames <- Names

-----------------------------------------------------------------------------
(* The layout that Linker drives is the one the theorems are about.         *)
LEMMA SameSections ==
  /\ Layout!Section = File!Section
  /\ Layout!Sections = File!Sections /\ Layout!RxSections = File!RxSections
  /\ Layout!RwSections = File!RwSections /\ Layout!NonAlloc = File!NonAlloc
  /\ Layout!NeedsRxLoad = File!NeedsRxLoad /\ Layout!NeedsRwLoad = File!NeedsRwLoad
  /\ Layout!Base = File!Base /\ Layout!PhdrCount = File!PhdrCount
  /\ Layout!EHDR = File!EHDR /\ Layout!PHDR = File!PHDR /\ Layout!PAGE = File!PAGE
BY DEF Layout!Section, File!Section, Layout!Alignments, File!Alignments,
   Layout!Sections, File!Sections, Layout!RxSections, File!RxSections,
   Layout!RwSections, File!RwSections, Layout!NonAlloc, File!NonAlloc,
   Layout!NeedsRxLoad, File!NeedsRxLoad, Layout!NeedsRwLoad, File!NeedsRwLoad,
   Layout!Base, File!Base, Layout!BaseAddress, File!BaseAddress,
   Layout!PhdrCount, File!PhdrCount, Layout!Has, File!Has,
   Layout!EHDR, File!EHDR, Layout!PHDR, File!PHDR, Layout!PAGE, File!PAGE

LEMMA SameArithmetic ==
  /\ \A v, a : Layout!AlignTo(v, a) = File!AlignTo(v, a)
  /\ \A v, a : Layout!Larger(v, a) = File!Larger(v, a)
  /\ \A s : Layout!Alignment(s) = File!Alignment(s)
  /\ \A list : Layout!Rest(list) = File!Rest(list)
  /\ \A i, list : Layout!IsNext(i, list) <=> File!IsNext(i, list)
BY DEF Layout!AlignTo, File!AlignTo, Layout!Larger, File!Larger, Layout!Alignment, File!Alignment,
   Layout!Rest, File!Rest, Layout!IsNext, File!IsNext

LEMMA SameHeaders ==
  Layout!FirstAlignment = File!FirstAlignment /\ Layout!ProgramHeaders = File!ProgramHeaders
<1>1. Layout!FirstAlignment = File!FirstAlignment
  BY SameSections, SameArithmetic DEF Layout!FirstAlignment, File!FirstAlignment
<1>2. Layout!ProgramHeaders = File!ProgramHeaders
  BY SameSections DEF Layout!ProgramHeaders, File!ProgramHeaders, Layout!When, File!When,
     Layout!Segment, File!Segment, Layout!SegmentOf, File!SegmentOf, Layout!SectionNamed,
     File!SectionNamed, Layout!FirstRw, File!FirstRw, Layout!Has, File!Has
<1>. QED BY <1>1, <1>2

LEMMA SamePlacing ==
  ASSUME NEW i
  PROVE  /\ Layout!PlaceRx(i) => File!PlaceRx(i)
         /\ Layout!PlaceRw(i) => File!PlaceRw(i)
         /\ Layout!PlaceNonAlloc(i) => File!PlaceNonAlloc(i)
         /\ Layout!PlaceRelocatable(i) => File!PlaceRelocatable(i)
<1>1. Layout!PlaceAlloc(i) => File!PlaceAlloc(i)
  BY SameArithmetic DEF Layout!PlaceAlloc, File!PlaceAlloc
<1>2. /\ Layout!PlaceRx(i) => File!PlaceRx(i)
      /\ Layout!PlaceRw(i) => File!PlaceRw(i)
  BY <1>1, SameSections, SameArithmetic
     DEF Layout!PlaceRx, File!PlaceRx, Layout!PlaceRw, File!PlaceRw
<1>3. Layout!PlaceNonAlloc(i) => File!PlaceNonAlloc(i)
  BY SameSections, SameArithmetic DEF Layout!PlaceNonAlloc, File!PlaceNonAlloc
<1>4. Layout!PlaceRelocatable(i) => File!PlaceRelocatable(i)
  BY SameSections, SameArithmetic DEF Layout!PlaceRelocatable, File!PlaceRelocatable
<1>. QED BY <1>2, <1>3, <1>4

LEMMA SameLayoutStep == Layout!LayoutStep => File!LayoutStep
<1>1. Layout!StartDynamic => File!StartDynamic
  BY SameSections, SameArithmetic, SameHeaders DEF Layout!StartDynamic, File!StartDynamic
<1>2. Layout!StartRw => File!StartRw
  BY SameSections, SameArithmetic DEF Layout!StartRw, File!StartRw
<1>3. Layout!GenerateProgramHeaders => File!GenerateProgramHeaders
  BY SameSections, SameArithmetic, SameHeaders, Zenon
     DEF Layout!GenerateProgramHeaders, File!GenerateProgramHeaders
<1>4. Layout!StartRelocatable => File!StartRelocatable
  BY SameSections, SameArithmetic DEF Layout!StartRelocatable, File!StartRelocatable
<1>5. Layout!FinishLayout => File!FinishLayout
  BY SameSections, SameArithmetic DEF Layout!FinishLayout, File!FinishLayout
<1>. QED BY <1>1, <1>2, <1>3, <1>4, <1>5, SamePlacing, SameSections
        DEF Layout!LayoutStep, File!LayoutStep

LEMMA SameAssemblyStep == Layout!AssemblyStep => File!AssemblyStep
<1>1. Layout!Unwritten = File!Unwritten
  BY SameSections
     DEF Layout!Unwritten, File!Unwritten, Layout!SectionsToWrite, File!SectionsToWrite
<1>2. Layout!StartAssembly => File!StartAssembly
  BY SameSections DEF Layout!StartAssembly, File!StartAssembly
<1>3. Layout!FinishAssembly => File!FinishAssembly
  BY <1>1, SameArithmetic DEF Layout!FinishAssembly, File!FinishAssembly
<1>4. ASSUME NEW i PROVE Layout!WriteSection(i) => File!WriteSection(i)
  BY <1>1, SameArithmetic DEF Layout!WriteSection, File!WriteSection
<1>. QED BY <1>2, <1>3, <1>4, SameSections DEF Layout!AssemblyStep, File!AssemblyStep

-----------------------------------------------------------------------------
(* The declarations.                                                        *)
LEMMA ProgramType ==
  ASSUME prog \in Programs, NEW k \in DOMAIN Items
  PROVE  /\ prog.format \in {"exec", "so", "ko"} /\ prog.raptor \in BOOLEAN
         /\ Len(Items) \in Nat /\ DOMAIN Items = 1..Len(Items)
         /\ Items[k].kind \in {"var", "modinfo", "fn"}
         /\ Items[k].kind = "var" => Items[k] \in Variable
         /\ Items[k].kind = "modinfo" => Items[k] \in Modinfo
         /\ Items[k].kind = "fn" => Items[k] \in Function
<1>1. prog \in [format : {"exec", "so", "ko"}, raptor : BOOLEAN,
                items : Seq(Variable \cup Modinfo \cup Function)]
  BY ProgramsAssumption
<1>2. Items \in Seq(Variable \cup Modinfo \cup Function)
  BY <1>1 DEF Items
<1>3. Items[k] \in Variable \cup Modinfo \cup Function
  BY <1>2
<1>. QED BY <1>1, <1>2, <1>3 DEF Variable, Modinfo, Function

LEMMA OneName ==
  ASSUME prog \in Programs, NEW k \in DOMAIN Items, NEW l \in DOMAIN Items,
         Items[k].kind # "modinfo", Items[l].kind # "modinfo", Items[k].name = Items[l].name
  PROVE  k = l
BY ProgramsAssumption DEF Items, OneMeaning

LEMMA MainIsMain ==
  ASSUME prog \in Programs, NEW k \in DOMAIN Items, Items[k].kind = "fn"
  PROVE  Items[k].role = "main" <=> Items[k].name = "main"
BY ProgramsAssumption DEF Items, OneMeaning

-----------------------------------------------------------------------------
(* What the driver has translated: the relocations of every function are    *)
(* those of its references, in their order, and each function was declared  *)
(* once.  A call through the PLT is one of a name nobody defines.           *)
StageNames ==
  {"translate", "append", "module", "versions", "prepare", "sizes", "collect", "indices", "symtab",
   "rela", "sizes2", "layout", "links", "patchsymtab", "patchdynsym", "patchdynamic", "patchtext",
   "assemble", "done", "aborted"}
BodyRelocation == [name : SymbolNames, offset : Nat, type : {"PC32", "PLT32"}, addend : Int]
Translated == [fn : Function, relocs : Seq(BodyRelocation)]

MustLand(ref) == ref.use \in {"call", "instr"} \/ (ref.use = "address" /\ format = "exec")
Undeclared(name) == \A k \in DOMAIN Items : Items[k].kind # "modinfo" => Items[k].name # name
Serves(reloc, ref) ==
  /\ reloc.name = ref.name
  /\ reloc.offset = ref.at
  /\ reloc.type = "PLT32" => Undeclared(ref.name)
  /\ reloc.type # "PLT32" /\ MustLand(ref) => reloc.addend = 0
AllServe(relocs, references) ==
  /\ Len(relocs) <= Len(references)
  /\ \A r \in DOMAIN relocs : Serves(relocs[r], references[r])

Reached ==
  /\ item \in Nat \ {0}
  /\ refs \in Nat
  /\ stage = "append" => item <= Len(fnMap) + 1
Begun ==
  /\ body \in Seq(BodyRelocation)
  /\ refs > 0 =>
       /\ stage = "translate" /\ item \in DOMAIN Items
       /\ Item.kind = "fn" /\ ~Skipped(Item)
       /\ Len(body) = refs - 1
       /\ AllServe(body, Item.refs)
Finished ==
  /\ fnMap \in Seq(Translated)
  /\ \A k \in DOMAIN fnMap :
       /\ AllServe(fnMap[k].relocs, fnMap[k].fn.refs)
       /\ Len(fnMap[k].relocs) = Len(fnMap[k].fn.refs)
       /\ \E j \in DOMAIN Items : /\ fnMap[k].fn = Items[j]
                                  /\ Items[j].kind = "fn" /\ ~Skipped(Items[j])
                                  /\ stage = "translate" => j < item
FinishedOnce == \A k, l \in DOMAIN fnMap : fnMap[k].fn.name = fnMap[l].fn.name => k = l

DriverInv ==
  /\ prog \in Programs /\ format = prog.format /\ stage \in StageNames
  /\ Reached /\ Begun /\ Finished /\ FinishedOnce

LEMMA DriverInit == Init => DriverInv
<1>. SUFFICES ASSUME Init PROVE DriverInv
  OBVIOUS
<1>1. prog \in Programs /\ stage = "translate" /\ item = 1 /\ refs = 0 /\ body = << >> /\ fnMap = << >>
  BY DEF Init
<1>2. format = prog.format
  BY DEF Init, Layout!Idle
<1>3. stage \in StageNames
  BY <1>1 DEF StageNames
<1>4. Reached /\ Begun
  BY <1>1 DEF Reached, Begun
<1>5. Finished /\ FinishedOnce
  BY <1>1 DEF Finished, FinishedOnce
<1>. QED BY <1>1, <1>2, <1>3, <1>4, <1>5 DEF DriverInv

(* The steps of the layout and of the writing.                              *)
LEMMA FileStep ==
  ASSUME Layout!LayoutStep \/ Layout!AssemblyStep
  PROVE  /\ table' = table /\ format' = format
         /\ Layout!AssemblyStep => sh_addr' = sh_addr
         /\ File!TypeOK => File!TypeOK'
<1>1. File!Next
  BY SameLayoutStep, SameAssemblyStep DEF File!Next
<1>2. ASSUME Layout!AssemblyStep PROVE sh_addr' = sh_addr
  BY <1>2 DEF Layout!AssemblyStep, Layout!StartAssembly, Layout!FinishAssembly, Layout!WriteSection
<1>. QED BY <1>1, <1>2, File!Frame, File!TypeStep

(* The passes of compile() leave what was translated alone.                 *)
LEMMA Passes ==
  ASSUME Compile
  PROVE  /\ UNCHANGED driverVars /\ relocations' = relocations /\ format' = format
         /\ stage \notin {"translate", "append", "module", "versions", "aborted"}
         /\ stage' \in StageNames \ {"translate", "append", "module", "versions"}
<1>. DEFINE Kept == UNCHANGED driverVars /\ relocations' = relocations /\ format' = format
            Ordered2 == /\ stage \notin {"translate", "append", "module", "versions", "aborted"}
                        /\ stage' \in StageNames \ {"translate", "append", "module", "versions"}
<1>1. ASSUME \/ PrepareDynamic \/ PrepareRelocatable \/ UpdateInitialSectionSizes
             \/ CollectSections \/ AssignSymbolIndices \/ BuildFinalSymtabData
             \/ BuildRelaDynamic \/ BuildRelaRelocatable
      PROVE  Kept /\ Ordered2
  <2>1. CASE PrepareDynamic
    BY <2>1 DEF PrepareDynamic, Pass, fileVars, StageNames
  <2>2. CASE PrepareRelocatable
    BY <2>2 DEF PrepareRelocatable, Pass, fileVars, StageNames
  <2>3. CASE UpdateInitialSectionSizes
    BY <2>3 DEF UpdateInitialSectionSizes, Pass, fileVars, StageNames
  <2>4. CASE CollectSections
    BY <2>4 DEF CollectSections, Pass, fileVars, StageNames
  <2>5. CASE AssignSymbolIndices
    BY <2>5 DEF AssignSymbolIndices, Pass, fileVars, StageNames
  <2>6. CASE BuildFinalSymtabData
    BY <2>6 DEF BuildFinalSymtabData, Pass, fileVars, StageNames
  <2>7. CASE BuildRelaDynamic
    BY <2>7 DEF BuildRelaDynamic, Pass, fileVars, StageNames
  <2>8. CASE BuildRelaRelocatable
    BY <2>8 DEF BuildRelaRelocatable, Pass, fileVars, StageNames
  <2>. QED BY <1>1, <2>1, <2>2, <2>3, <2>4, <2>5, <2>6, <2>7, <2>8
<1>2. ASSUME \/ FinalizeSizes \/ FinalizeLayout \/ LayoutDone \/ SetSectionLinks
             \/ PatchSymbolTableAddresses \/ PatchDynSymAddresses \/ PatchDynamicSection
             \/ PatchTextRelocations \/ AssembleFinalElf \/ Finish
      PROVE  Kept /\ Ordered2
  <2>1. CASE FinalizeSizes
    BY <2>1 DEF FinalizeSizes, Pass, StageNames
  <2>2. CASE FinalizeLayout
    BY <2>2, FileStep DEF FinalizeLayout, linkVars, StageNames
  <2>3. CASE LayoutDone
    BY <2>3 DEF LayoutDone, Pass, fileVars, StageNames
  <2>4. CASE SetSectionLinks
    BY <2>4 DEF SetSectionLinks, Pass, fileVars, StageNames
  <2>5. CASE PatchSymbolTableAddresses
    BY <2>5 DEF PatchSymbolTableAddresses, Pass, fileVars, StageNames
  <2>6. CASE PatchDynSymAddresses
    BY <2>6 DEF PatchDynSymAddresses, Pass, fileVars, StageNames
  <2>7. CASE PatchDynamicSection
    BY <2>7 DEF PatchDynamicSection, Pass, fileVars, StageNames
  <2>8. CASE PatchTextRelocations
    BY <2>8 DEF PatchTextRelocations, Pass, fileVars, StageNames
  <2>9. CASE AssembleFinalElf
    BY <2>9, FileStep DEF AssembleFinalElf, linkVars, StageNames
  <2>10. CASE Finish
    BY <2>10 DEF Finish, Pass, fileVars, StageNames
  <2>. QED BY <1>2, <2>1, <2>2, <2>3, <2>4, <2>5, <2>6, <2>7, <2>8, <2>9, <2>10
<1>. QED BY <1>1, <1>2 DEF Compile

(* The relocation the driver makes for a reference serves it.               *)
LEMMA ReferenceServed ==
  ASSUME prog \in Programs, format = prog.format, item \in DOMAIN Items, Item.kind = "fn",
         NEW r \in DOMAIN Item.refs
  PROVE  LET ref == Item.refs[r]
             reloc == [name |-> ref.name, offset |-> ref.at, type |-> Type(ref),
                       addend |-> Addend(ref)]
         IN reloc \in BodyRelocation /\ Serves(reloc, ref)
<1>. DEFINE ref == Item.refs[r]
<1>1. Item \in Function
  BY ProgramType DEF Item
<1>2. ref \in Reference
  BY <1>1 DEF Function
<1>3. ref.name \in SymbolNames /\ ref.at \in Nat /\ ref.use \in {"call", "instr", "address", "value"}
  BY <1>2 DEF Reference
<1>. HIDE DEF ref
<1>4. Type(ref) \in {"PC32", "PLT32"}
  BY DEF Type
<1>5. Addend(ref) \in Int /\ (Type(ref) # "PLT32" /\ MustLand(ref) => Addend(ref) = 0)
  BY <1>3 DEF Addend, MustLand
<1>6. ASSUME Type(ref) = "PLT32" PROVE Undeclared(ref.name)
  <2>1. prog.raptor /\ ref.use = "call" /\ ~Declared(ref.name)
    BY <1>6 DEF Type, External
  <2>. SUFFICES ASSUME NEW k \in DOMAIN Items, Items[k].kind # "modinfo", Items[k].name = ref.name
                PROVE  FALSE
    BY DEF Undeclared
  <2>2. Items[k].kind \in {"var", "fn"}
    BY ProgramType
  <2>3. CASE Items[k].kind = "fn"
    BY <2>1, <2>3 DEF Declared
  <2>4. CASE Items[k].kind = "var"
    <3>1. VariablesNotCalled(prog)
      BY ProgramsAssumption
    <3>. QED BY <2>1, <2>4, <3>1 DEF VariablesNotCalled, Items, Item, ref
  <2>. QED BY <2>2, <2>3, <2>4
<1>. QED BY <1>3, <1>4, <1>5, <1>6 DEF BodyRelocation, Serves, ref

LEMMA FunctionsKept ==
  ASSUME DriverInv, prog' = prog, format' = format, fnMap' = fnMap,
         stage = "translate" => stage' # "translate" \/ item <= item', item \in Nat, item' \in Nat,
         stage # "translate" => stage' # "translate"
  PROVE  Finished' /\ FinishedOnce'
<1>1. Items' = Items /\ \A fn : Skipped(fn)' <=> Skipped(fn)
  BY DEF Items, Skipped
<1>2. \A relocs, references : AllServe(relocs, references)' <=> AllServe(relocs, references)
  BY <1>1 DEF AllServe, Serves, MustLand, Undeclared
<1>3. FinishedOnce'
  BY DEF DriverInv, FinishedOnce
<1>4. ASSUME NEW k \in DOMAIN fnMap
      PROVE  /\ AllServe(fnMap[k].relocs, fnMap[k].fn.refs)'
             /\ Len(fnMap[k].relocs) = Len(fnMap[k].fn.refs)
             /\ \E j \in DOMAIN Items : /\ fnMap[k].fn = Items[j]
                                        /\ Items[j].kind = "fn" /\ ~Skipped(Items[j])
                                        /\ stage' = "translate" => j < item'
  <2>1. PICK j \in DOMAIN Items : /\ fnMap[k].fn = Items[j]
                                  /\ Items[j].kind = "fn" /\ ~Skipped(Items[j])
                                  /\ stage = "translate" => j < item
    BY DEF DriverInv, Finished
  <2>2. j \in Nat
    BY ProgramType DEF DriverInv
  <2>3. AllServe(fnMap[k].relocs, fnMap[k].fn.refs) /\ Len(fnMap[k].relocs) = Len(fnMap[k].fn.refs)
    BY DEF DriverInv, Finished
  <2>. QED BY <1>2, <2>1, <2>2, <2>3
<1>. QED BY <1>1, <1>3, <1>4 DEF DriverInv, Finished

LEMMA DriverStep == ASSUME DriverInv, Next PROVE DriverInv'
<1>. USE DEF DriverInv
<1>1. CASE TranslateVariable \/ TranslateModinfo \/ SkipFunction
  <2>1. /\ item' = item + 1 /\ refs = 0 /\ stage = "translate"
        /\ UNCHANGED <<prog, refs, body, fnMap, stage, format>>
    BY <1>1 DEF TranslateVariable, TranslateModinfo, SkipFunction, Translating, fileVars, Begun, Reached
  <2>2. Reached' /\ Begun'
    BY <2>1 DEF Reached, Begun
  <2>. QED BY <2>1, <2>2, FunctionsKept DEF Reached
<1>2. CASE StartFunction
  <2>1. /\ refs' = 1 /\ body' = << >> /\ item \in DOMAIN Items /\ Item.kind = "fn" /\ ~Skipped(Item)
        /\ stage = "translate" /\ UNCHANGED <<prog, item, fnMap, stage, format>>
    BY <1>2, ProgramsAssumption DEF StartFunction, Translating, fileVars, Reached, Items
  <2>2. Reached' /\ Begun'
    BY <2>1 DEF Reached, Begun, Item, Items, Skipped, AllServe
  <2>. QED BY <2>1, <2>2, FunctionsKept DEF Reached
<1>3. CASE TranslateReference
  <2>. DEFINE ref == Item.refs[refs]
              reloc == [name |-> ref.name, offset |-> ref.at, type |-> Type(ref),
                        addend |-> Addend(ref)]
  <2>1. /\ refs' = refs + 1 /\ body' = Append(body, reloc) /\ refs \in DOMAIN Item.refs
        /\ item \in DOMAIN Items /\ Item.kind = "fn"
        /\ stage = "translate" /\ UNCHANGED <<prog, item, fnMap, stage, format>>
    BY <1>3, ProgramsAssumption DEF TranslateReference, Translating, fileVars, Reached, Items
  <2>2. Item \in Function /\ refs \in 1..Len(Item.refs)
    BY <2>1, ProgramType DEF Item, Function
  <2>3. reloc \in BodyRelocation /\ Serves(reloc, ref)
    BY <2>1, ReferenceServed
  <2>4. ~Skipped(Item) /\ Len(body) = refs - 1 /\ body \in Seq(BodyRelocation) /\ AllServe(body, Item.refs)
    BY <2>2 DEF Begun
  <2>. HIDE DEF reloc
  <2>5. /\ body' \in Seq(BodyRelocation) /\ Len(body') = refs
        /\ \A r \in DOMAIN body' : body'[r] = IF r = refs THEN reloc ELSE body[r]
        /\ \A r \in DOMAIN body' : r # refs => r \in DOMAIN body
        /\ refs \in Nat
    BY <2>1, <2>2, <2>3, <2>4
  <2>6. AllServe(body', Item.refs)
    BY <2>2, <2>3, <2>4, <2>5 DEF AllServe
  <2>7. Reached' /\ Begun'
    BY <2>1, <2>2, <2>4, <2>5, <2>6
    DEF Reached, Begun, Item, Items, Skipped, AllServe, Serves, MustLand, Undeclared
  <2>. QED BY <2>1, <2>7, FunctionsKept DEF Reached
<1>4. CASE FinishFunction
  <2>. DEFINE new == [fn |-> Item, relocs |-> body]
  <2>1. /\ refs = Len(Item.refs) + 1 /\ fnMap' = Append(fnMap, new) /\ item' = item + 1
        /\ item \in DOMAIN Items /\ Item.kind = "fn" /\ refs' = 0 /\ body' = << >>
        /\ stage = "translate" /\ UNCHANGED <<prog, stage, format>>
    BY <1>4, ProgramsAssumption DEF FinishFunction, Translating, fileVars, Reached, Items
  <2>2. Item \in Function /\ Len(Item.refs) \in Nat
    BY <2>1, ProgramType DEF Item, Function
  <2>3. ~Skipped(Item) /\ Len(body) = Len(Item.refs) /\ body \in Seq(BodyRelocation) /\ AllServe(body, Item.refs)
    BY <2>1, <2>2 DEF Begun
  <2>4. new \in Translated
    BY <2>2, <2>3 DEF Translated
  <2>5. new.fn = Item /\ new.relocs = body
    OBVIOUS
  <2>. HIDE DEF new
  <2>6. fnMap \in Seq(Translated)
    BY DEF Finished
  <2>7. /\ fnMap' \in Seq(Translated) /\ Len(fnMap) + 1 \in DOMAIN fnMap'
        /\ fnMap'[Len(fnMap) + 1] = new
        /\ \A k \in DOMAIN fnMap' : (k \in DOMAIN fnMap /\ fnMap'[k] = fnMap[k]) \/ k = Len(fnMap) + 1
    BY <2>1, <2>4, <2>6
  <2>8. Items' = Items /\ \A fn : Skipped(fn)' <=> Skipped(fn)
    BY <2>1 DEF Items, Skipped
  <2>9. \A relocs, references : AllServe(relocs, references)' <=> AllServe(relocs, references)
    BY <2>1, <2>8 DEF AllServe, Serves, MustLand, Undeclared
  <2>10. item \in Nat /\ item < item' /\ item + 1 \in Nat
    BY <2>1 DEF Reached
  <2>11. ASSUME NEW k \in DOMAIN fnMap
         PROVE  \E j \in DOMAIN Items : /\ fnMap[k].fn = Items[j]
                                        /\ Items[j].kind = "fn" /\ ~Skipped(Items[j])
                                        /\ j < item
    BY <2>1 DEF Finished
  <2>12. \A j \in DOMAIN Items : j \in Nat
    BY ProgramType
  <2>13. Finished'
    <3>1. ASSUME NEW k \in DOMAIN fnMap'
          PROVE  /\ AllServe(fnMap'[k].relocs, fnMap'[k].fn.refs)
                 /\ Len(fnMap'[k].relocs) = Len(fnMap'[k].fn.refs)
                 /\ \E j \in DOMAIN Items : /\ fnMap'[k].fn = Items[j]
                                            /\ Items[j].kind = "fn" /\ ~Skipped(Items[j])
                                            /\ j < item'
      <4>1. CASE k \in DOMAIN fnMap /\ fnMap'[k] = fnMap[k]
        <5>1. AllServe(fnMap[k].relocs, fnMap[k].fn.refs) /\ Len(fnMap[k].relocs) = Len(fnMap[k].fn.refs)
          BY <4>1 DEF Finished
        <5>2. \E j \in DOMAIN Items : /\ fnMap[k].fn = Items[j]
                                      /\ Items[j].kind = "fn" /\ ~Skipped(Items[j])
                                      /\ j < item'
          BY <4>1, <2>10, <2>11, <2>12, <2>1
        <5>. QED BY <4>1, <5>1, <5>2
      <4>2. CASE k = Len(fnMap) + 1
        <5>1. Item = Items[item]
          BY DEF Item
        <5>. QED BY <4>2, <5>1, <2>1, <2>3, <2>5, <2>7, <2>10
      <4>. QED BY <4>1, <4>2, <2>7
    <3>. QED BY <3>1, <2>7, <2>8, <2>9 DEF Finished
  <2>14. FinishedOnce'
    <3>1. ASSUME NEW k \in DOMAIN fnMap PROVE fnMap[k].fn.name # Item.name
      <4>1. PICK j \in DOMAIN Items : fnMap[k].fn = Items[j] /\ Items[j].kind = "fn" /\ j < item
        BY <2>11
      <4>2. Item = Items[item] /\ j # item
        BY <4>1, <2>10, <2>12 DEF Item
      <4>. QED BY <4>1, <4>2, <2>1, OneName
    <3>2. \A k, l \in DOMAIN fnMap : fnMap[k].fn.name = fnMap[l].fn.name => k = l
      BY DEF FinishedOnce
    <3>. QED BY <2>5, <2>7, <3>1, <3>2 DEF FinishedOnce
  <2>15. Reached' /\ Begun'
    BY <2>1, <2>10 DEF Reached, Begun
  <2>. QED BY <2>1, <2>13, <2>14, <2>15
<1>5. CASE StartAppend
  <2>1. /\ stage = "translate" /\ stage' = "append" /\ item' = 1 /\ refs = 0
        /\ UNCHANGED <<prog, refs, body, fnMap, format>>
    <3>1. item > Len(Items) /\ DOMAIN Items = 1..Len(Items) /\ Len(Items) \in Nat
      BY <1>5, ProgramsAssumption DEF StartAppend, Items
    <3>. QED BY <1>5, <3>1 DEF StartAppend, fileVars, Begun, Reached
  <2>2. Len(fnMap) \in Nat
    BY DEF Finished
  <2>3. Reached' /\ Begun' /\ stage' \in StageNames
    BY <2>1, <2>2 DEF Reached, Begun, StageNames
  <2>. QED BY <2>1, <2>3, FunctionsKept DEF Reached
<1>6. CASE AppendFunction
  <2>1. /\ stage = "append" /\ item <= Len(fnMap) /\ item' = item + 1
        /\ UNCHANGED <<prog, refs, body, fnMap, stage, format>>
    BY <1>6 DEF AppendFunction, fileVars
  <2>2. Len(fnMap) \in Nat
    BY DEF Finished
  <2>3. Reached' /\ Begun'
    BY <2>1, <2>2 DEF Reached, Begun
  <2>. QED BY <2>1, <2>3, FunctionsKept DEF Reached
<1>7. CASE FinishAppend \/ CreateThisModule \/ NoInitFunction \/ CreateVersions \/ Compile
  <2>1. /\ UNCHANGED driverVars /\ format' = format /\ stage # "translate"
        /\ stage' \in StageNames \ {"translate", "append"}
    <3>1. CASE FinishAppend
      BY <3>1 DEF FinishAppend, fileVars, StageNames
    <3>2. CASE CreateThisModule
      BY <3>2 DEF CreateThisModule, fileVars, StageNames
    <3>3. CASE NoInitFunction
      BY <3>3 DEF NoInitFunction, fileVars, StageNames
    <3>4. CASE CreateVersions
      BY <3>4 DEF CreateVersions, fileVars, StageNames
    <3>. QED BY <1>7, <3>1, <3>2, <3>3, <3>4, Passes
  <2>2. /\ prog' = prog /\ item' = item /\ refs' = refs /\ body' = body /\ fnMap' = fnMap /\ refs = 0
        /\ stage' # "translate" /\ stage' # "append" /\ stage' \in StageNames
    BY <2>1 DEF driverVars, Begun, Reached
  <2>3. Reached' /\ Begun'
    BY <2>2 DEF Reached, Begun
  <2>. QED BY <2>1, <2>2, <2>3, FunctionsKept DEF Reached
<1>. QED BY <1>1, <1>2, <1>3, <1>4, <1>5, <1>6, <1>7 DEF Next, Translate

-----------------------------------------------------------------------------
(* append_all_functions goes through every function once, main first.       *)
LEMMA FunctionFacts ==
  ASSUME DriverInv, NEW k \in DOMAIN fnMap
  PROVE  /\ fnMap[k] \in Translated /\ fnMap[k].fn \in Function
         /\ fnMap[k].relocs \in Seq(BodyRelocation)
         /\ fnMap[k].fn.role = "main" <=> fnMap[k].fn.name = "main"
         /\ ~Skipped(fnMap[k].fn)
         /\ \E j \in DOMAIN Items : Items[j].kind = "fn" /\ fnMap[k].fn = Items[j]
<1>1. fnMap[k] \in Translated
  BY DEF DriverInv, Finished
<1>2. PICK j \in DOMAIN Items : fnMap[k].fn = Items[j] /\ Items[j].kind = "fn" /\ ~Skipped(Items[j])
  BY DEF DriverInv, Finished
<1>. QED BY <1>1, <1>2, MainIsMain DEF Translated, DriverInv

OrderedOnce ==
  /\ Ordered \in Seq(Translated) /\ Len(Ordered) = Len(fnMap)
  /\ \A n \in DOMAIN Ordered : \E k \in DOMAIN fnMap : Ordered[n] = fnMap[k]
  /\ \A k \in DOMAIN fnMap : \E n \in DOMAIN Ordered : Ordered[n] = fnMap[k]
  /\ \A m, n \in DOMAIN Ordered : Ordered[m].fn.name = Ordered[n].fn.name => m = n
  /\ \A n \in DOMAIN Ordered : Ordered[n].fn.role = "main" => n = 1

LEMMA OrderedFacts == ASSUME DriverInv PROVE OrderedOnce
<1>. DEFINE mains == Only(fnMap, Mains)
            others == Only(fnMap, Others)
<1>1. fnMap \in Seq(Translated)
  BY DEF DriverInv, Finished
<1>2. /\ Ordered = mains \o others /\ mains \in Seq(Translated) /\ others \in Seq(Translated)
  BY <1>1, OnlyPlaces DEF Ordered
<1>3. PICK p : Places(mains, fnMap, Len(fnMap), Mains, p)
  BY <1>1, OnlyPlaces
<1>4. PICK q : Places(others, fnMap, Len(fnMap), Others, q)
  BY <1>1, OnlyPlaces
<1>5. \A k \in DOMAIN fnMap : fnMap[k] \in Mains <=> fnMap[k].fn.role = "main"
  BY DEF Mains
<1>6. \A k \in DOMAIN fnMap : fnMap[k] \in Others <=> fnMap[k].fn.role # "main"
  BY DEF Others
<1>7. Len(mains) + Len(others) = Len(fnMap)
  BY <1>1, <1>5, <1>6, OnlySplits
<1>. HIDE DEF mains, others
<1>8. DOMAIN fnMap = 1..Len(fnMap) /\ Len(fnMap) \in Nat
  BY <1>1
<1>9. /\ \A i \in DOMAIN mains : p[i] \in DOMAIN fnMap /\ mains[i] = fnMap[p[i]] /\ mains[i] \in Mains
      /\ \A i, j \in DOMAIN mains : i < j => p[i] < p[j]
      /\ \A k \in DOMAIN fnMap : fnMap[k] \in Mains => \E i \in DOMAIN mains : p[i] = k
  BY <1>3, <1>8 DEF Places
<1>10. /\ \A i \in DOMAIN others : q[i] \in DOMAIN fnMap /\ others[i] = fnMap[q[i]] /\ others[i] \in Others
       /\ \A i, j \in DOMAIN others : i < j => q[i] < q[j]
       /\ \A k \in DOMAIN fnMap : fnMap[k] \in Others => \E i \in DOMAIN others : q[i] = k
  BY <1>4, <1>8 DEF Places
<1>11. /\ DOMAIN mains = 1..Len(mains) /\ DOMAIN others = 1..Len(others)
       /\ Len(mains) \in Nat /\ Len(others) \in Nat
       /\ Ordered \in Seq(Translated) /\ Len(Ordered) = Len(mains) + Len(others)
       /\ DOMAIN Ordered = 1..(Len(mains) + Len(others))
       /\ \A i \in DOMAIN mains : i \in DOMAIN Ordered /\ Ordered[i] = mains[i]
       /\ \A i \in DOMAIN others : Len(mains) + i \in DOMAIN Ordered /\ Ordered[Len(mains) + i] = others[i]
  BY <1>2
<1>12. ASSUME NEW n \in DOMAIN Ordered
       PROVE  \/ n \in DOMAIN mains
              \/ n - Len(mains) \in DOMAIN others /\ Len(mains) + (n - Len(mains)) = n
  BY <1>11
<1>13. \A k, l \in DOMAIN fnMap : fnMap[k].fn.name = fnMap[l].fn.name => k = l
  BY DEF DriverInv, FinishedOnce
<1>14. \A k \in DOMAIN fnMap : fnMap[k].fn.role = "main" <=> fnMap[k].fn.name = "main"
  BY FunctionFacts
<1>15. ASSUME NEW i \in DOMAIN mains, NEW j \in DOMAIN mains PROVE i = j
  <2>1. p[i] = p[j]
    BY <1>5, <1>9, <1>13, <1>14
  <2>2. ~(i < j) /\ ~(j < i)
    BY <1>8, <1>9, <2>1
  <2>. QED BY <2>2, <1>11
<1>16. ASSUME NEW n \in DOMAIN Ordered, Ordered[n].fn.role = "main" PROVE n = 1
  <2>1. CASE n \in DOMAIN mains
    <3>1. 1 \in DOMAIN mains
      BY <2>1, <1>11
    <3>. QED BY <2>1, <3>1, <1>15
  <2>2. CASE n - Len(mains) \in DOMAIN others /\ Len(mains) + (n - Len(mains)) = n
    <3>1. Ordered[n] \in Others
      BY <2>2, <1>10, <1>11
    <3>. QED BY <3>1, <1>16 DEF Others
  <2>. QED BY <1>12, <2>1, <2>2
<1>17. ASSUME NEW n \in DOMAIN Ordered PROVE \E k \in DOMAIN fnMap : Ordered[n] = fnMap[k]
  <2>1. CASE n \in DOMAIN mains
    BY <2>1, <1>9, <1>11
  <2>2. CASE n - Len(mains) \in DOMAIN others /\ Len(mains) + (n - Len(mains)) = n
    <3>. DEFINE i == n - Len(mains)
    <3>1. Ordered[n] = others[i] /\ i \in DOMAIN others
      BY <2>2, <1>11
    <3>. QED BY <3>1, <1>10
  <2>. QED BY <1>12, <2>1, <2>2
<1>18. ASSUME NEW k \in DOMAIN fnMap PROVE \E n \in DOMAIN Ordered : Ordered[n] = fnMap[k]
  <2>1. CASE fnMap[k] \in Mains
    BY <2>1, <1>9, <1>11
  <2>2. CASE fnMap[k] \in Others
    BY <2>2, <1>10, <1>11
  <2>. QED BY <2>1, <2>2, <1>5, <1>6
<1>19. ASSUME NEW m \in DOMAIN Ordered, NEW n \in DOMAIN Ordered,
              Ordered[m].fn.name = Ordered[n].fn.name
       PROVE  m = n
  <2>1. ASSUME NEW i \in DOMAIN mains, NEW j \in DOMAIN others PROVE mains[i].fn.name # others[j].fn.name
    <3>1. mains[i].fn.role = "main" /\ others[j].fn.role # "main"
      BY <1>9, <1>10 DEF Mains, Others
    <3>. QED BY <3>1, <1>9, <1>10, <1>14
  <2>2. ASSUME NEW i \in DOMAIN others, NEW j \in DOMAIN others, others[i].fn.name = others[j].fn.name
        PROVE  i = j
    <3>1. q[i] = q[j]
      BY <2>2, <1>10, <1>13
    <3>2. ~(i < j) /\ ~(j < i)
      BY <1>8, <1>10, <3>1
    <3>. QED BY <3>2, <1>11
  <2>3. CASE m \in DOMAIN mains /\ n \in DOMAIN mains
    BY <2>3, <1>15
  <2>4. CASE m \in DOMAIN mains /\ n \notin DOMAIN mains
    BY <2>4, <1>11, <1>12, <1>19, <2>1
  <2>5. CASE m \notin DOMAIN mains /\ n \in DOMAIN mains
    BY <2>5, <1>11, <1>12, <1>19, <2>1
  <2>6. CASE m \notin DOMAIN mains /\ n \notin DOMAIN mains
    <3>. DEFINE i == m - Len(mains)
                j == n - Len(mains)
    <3>1. i \in DOMAIN others /\ j \in DOMAIN others /\ Len(mains) + i = m /\ Len(mains) + j = n
      BY <2>6, <1>12
    <3>2. i = j
      BY <3>1, <1>11, <1>19, <2>2
    <3>. QED BY <3>1, <3>2
  <2>. QED BY <2>3, <2>4, <2>5, <2>6
<1>. QED BY <1>7, <1>11, <1>16, <1>17, <1>18, <1>19 DEF OrderedOnce

-----------------------------------------------------------------------------
(* The names of the sections.                                               *)
RelaNames == {".rela.text", ".rela.init.text", ".rela.exit.text", ".rela.gnu.linkonce.this_module"}
BaseNames ==
  {"", ".interp", ".text", ".plt", ".rodata", ".dynsym", ".dynstr", ".rela.dyn", ".rela.plt",
   ".data", ".got.plt", ".dynamic", ".hash", ".symtab", ".strtab", ".shstrtab"}
Listed(s) == {s[k] : k \in DOMAIN s}
NoTwice(s) == \A k, l \in DOMAIN s : s[k] = s[l] => k = l

LEMMA RelaFacts ==
  /\ \A name \in Relocated : RelaOf(name) \in RelaNames
  /\ \A name, other \in Relocated : RelaOf(name) = RelaOf(other) => name = other
  /\ {RelaOf(name) : name \in Relocated} = RelaNames
BY DEF RelaOf, Relocated, RelaNames

LEMMA BaseFacts ==
  BaseSections \in Seq(BaseNames) /\ Listed(BaseSections) = BaseNames /\ NoTwice(BaseSections)
<1>1. BaseSections \in Seq(BaseNames)
  BY DEF BaseSections, BaseNames
<1>2. /\ BaseSections[1] = "" /\ BaseSections[2] = ".interp" /\ BaseSections[3] = ".text"
      /\ BaseSections[4] = ".plt" /\ BaseSections[5] = ".rodata" /\ BaseSections[6] = ".dynsym"
      /\ BaseSections[7] = ".dynstr" /\ BaseSections[8] = ".rela.dyn" /\ BaseSections[9] = ".rela.plt"
      /\ BaseSections[10] = ".data" /\ BaseSections[11] = ".got.plt" /\ BaseSections[12] = ".dynamic"
      /\ BaseSections[13] = ".hash" /\ BaseSections[14] = ".symtab" /\ BaseSections[15] = ".strtab"
      /\ BaseSections[16] = ".shstrtab"
  BY DEF BaseSections
<1>3. DOMAIN BaseSections = 1..16
  BY DEF BaseSections
<1>4. NoTwice(BaseSections)
  <2>. DEFINE Rank(name) == IF name = "" THEN 1 ELSE IF name = ".interp" THEN 2 ELSE IF name = ".text" THEN 3 ELSE 
                              IF name = ".plt" THEN 4 ELSE IF name = ".rodata" THEN 5 ELSE IF name = ".dynsym" THEN 6 ELSE 
                              IF name = ".dynstr" THEN 7 ELSE IF name = ".rela.dyn" THEN 8 ELSE IF name = ".rela.plt" THEN 9 ELSE 
                              IF name = ".data" THEN 10 ELSE IF name = ".got.plt" THEN 11 ELSE IF name = ".dynamic" THEN 12 ELSE 
                              IF name = ".hash" THEN 13 ELSE IF name = ".symtab" THEN 14 ELSE IF name = ".strtab" THEN 15 ELSE 
                              16
  <2>1. /\ Rank(BaseSections[1]) = 1 /\ Rank(BaseSections[2]) = 2
        /\ Rank(BaseSections[3]) = 3 /\ Rank(BaseSections[4]) = 4
        /\ Rank(BaseSections[5]) = 5 /\ Rank(BaseSections[6]) = 6
        /\ Rank(BaseSections[7]) = 7 /\ Rank(BaseSections[8]) = 8
        /\ Rank(BaseSections[9]) = 9 /\ Rank(BaseSections[10]) = 10
        /\ Rank(BaseSections[11]) = 11 /\ Rank(BaseSections[12]) = 12
        /\ Rank(BaseSections[13]) = 13 /\ Rank(BaseSections[14]) = 14
        /\ Rank(BaseSections[15]) = 15 /\ Rank(BaseSections[16]) = 16
    BY <1>2
  <2>2. \A k \in 1..16 : k = 1 \/ k = 2 \/ k = 3 \/ k = 4 \/ k = 5 \/ k = 6 \/ k = 7 \/ k = 8
                    \/ k = 9 \/ k = 10 \/ k = 11 \/ k = 12 \/ k = 13 \/ k = 14 \/ k = 15 \/ k = 16
    OBVIOUS
  <2>. HIDE DEF Rank
  <2>3. \A k \in 1..16 : Rank(BaseSections[k]) = k
    BY <2>1, <2>2
  <2>. QED BY <1>3, <2>3 DEF NoTwice
<1>5. \A k \in 1..16 : BaseSections[k] \in Listed(BaseSections)
  BY <1>3 DEF Listed
<1>6. /\ BaseSections[1] \in Listed(BaseSections) /\ BaseSections[2] \in Listed(BaseSections)
      /\ BaseSections[3] \in Listed(BaseSections) /\ BaseSections[4] \in Listed(BaseSections)
      /\ BaseSections[5] \in Listed(BaseSections) /\ BaseSections[6] \in Listed(BaseSections)
      /\ BaseSections[7] \in Listed(BaseSections) /\ BaseSections[8] \in Listed(BaseSections)
      /\ BaseSections[9] \in Listed(BaseSections) /\ BaseSections[10] \in Listed(BaseSections)
      /\ BaseSections[11] \in Listed(BaseSections) /\ BaseSections[12] \in Listed(BaseSections)
      /\ BaseSections[13] \in Listed(BaseSections) /\ BaseSections[14] \in Listed(BaseSections)
      /\ BaseSections[15] \in Listed(BaseSections) /\ BaseSections[16] \in Listed(BaseSections)
  BY <1>5
<1>7. BaseNames \subseteq Listed(BaseSections)
  BY <1>2, <1>6 DEF BaseNames
<1>8. Listed(BaseSections) \subseteq BaseNames
  BY <1>1 DEF Listed
<1>. QED BY <1>1, <1>4, <1>7, <1>8

LEMMA NameFacts == Names = BaseNames \cup AddedSections \cup RelaNames
BY BaseFacts, RelaFacts, Zenon DEF Names, Listed

(* Adding one section, or several.                                          *)
LEMMA EnsureFacts ==
  ASSUME sections \in Seq(Names), NoTwice(sections), NEW name \in Names
  PROVE  /\ Ensure(name) \in Seq(Names) /\ NoTwice(Ensure(name))
         /\ Listed(Ensure(name)) = Listed(sections) \cup {name}
         /\ Listed(sections) \cup Ensured(name) = Listed(sections) \cup {name}
<1>1. CASE \E k \in DOMAIN sections : sections[k] = name
  BY <1>1 DEF Ensure, Ensured, Listed
<1>2. CASE ~(\E k \in DOMAIN sections : sections[k] = name)
  <2>1. /\ Ensure(name) = Append(sections, name) /\ Ensure(name) \in Seq(Names)
        /\ DOMAIN Ensure(name) = 1..(Len(sections) + 1) /\ DOMAIN sections = 1..Len(sections)
        /\ Len(sections) \in Nat /\ Ensure(name)[Len(sections) + 1] = name
        /\ \A k \in DOMAIN sections : Ensure(name)[k] = sections[k]
    BY <1>2 DEF Ensure
  <2>2. NoTwice(Ensure(name))
    BY <1>2, <2>1 DEF NoTwice
  <2>3. Listed(Ensure(name)) = Listed(sections) \cup {name}
    <3>1. Len(sections) + 1 \in DOMAIN Ensure(name)
      BY <2>1
    <3>2. \A k \in DOMAIN Ensure(name) : k \in DOMAIN sections \/ k = Len(sections) + 1
      BY <2>1
    <3>3. \A k \in DOMAIN sections : k \in DOMAIN Ensure(name)
      BY <2>1
    <3>. QED BY <2>1, <3>1, <3>2, <3>3 DEF Listed
  <2>4. Ensure(name) # sections
    <3>1. Len(sections) + 1 \in DOMAIN Ensure(name) /\ Len(sections) + 1 \notin DOMAIN sections
      BY <2>1
    <3>. QED BY <3>1
  <2>. QED BY <2>1, <2>2, <2>3, <2>4 DEF Ensured
<1>. QED BY <1>1, <1>2

LEMMA JoinFacts ==
  ASSUME NEW s \in Seq(Names), NEW t \in Seq(Names), NoTwice(s), NoTwice(t),
         \A k \in DOMAIN t : t[k] \notin Listed(s)
  PROVE  /\ s \o t \in Seq(Names) /\ NoTwice(s \o t)
         /\ Listed(s \o t) = Listed(s) \cup Listed(t)
<1>1. /\ s \o t \in Seq(Names) /\ DOMAIN (s \o t) = 1..(Len(s) + Len(t))
      /\ DOMAIN s = 1..Len(s) /\ DOMAIN t = 1..Len(t) /\ Len(s) \in Nat /\ Len(t) \in Nat
      /\ \A k \in DOMAIN s : k \in DOMAIN (s \o t) /\ (s \o t)[k] = s[k]
      /\ \A k \in DOMAIN t : Len(s) + k \in DOMAIN (s \o t) /\ (s \o t)[Len(s) + k] = t[k]
  OBVIOUS
<1>. DEFINE all == s \o t
<1>. HIDE DEF all
<1>2. ASSUME NEW k \in DOMAIN all
      PROVE  k \in DOMAIN s \/ (k - Len(s) \in DOMAIN t /\ Len(s) + (k - Len(s)) = k)
  BY <1>1 DEF all
<1>3. \A k \in DOMAIN s : s[k] \in Listed(s)
  BY DEF Listed
<1>4. NoTwice(all)
  <2>1. SUFFICES ASSUME NEW k \in DOMAIN all, NEW l \in DOMAIN all, all[k] = all[l] PROVE k = l
    BY DEF NoTwice
  <2>2. CASE k \in DOMAIN s /\ l \in DOMAIN s
    BY <1>1, <2>1, <2>2 DEF NoTwice, all
  <2>3. CASE k \in DOMAIN s /\ l - Len(s) \in DOMAIN t /\ Len(s) + (l - Len(s)) = l
    <3>. DEFINE j == l - Len(s)
    <3>1. s[k] = t[j] /\ j \in DOMAIN t
      BY <1>1, <2>1, <2>3 DEF all
    <3>. QED BY <1>3, <2>3, <3>1
  <2>4. CASE l \in DOMAIN s /\ k - Len(s) \in DOMAIN t /\ Len(s) + (k - Len(s)) = k
    <3>. DEFINE j == k - Len(s)
    <3>1. s[l] = t[j] /\ j \in DOMAIN t
      BY <1>1, <2>1, <2>4 DEF all
    <3>. QED BY <1>3, <2>4, <3>1
  <2>5. CASE /\ k - Len(s) \in DOMAIN t /\ Len(s) + (k - Len(s)) = k
             /\ l - Len(s) \in DOMAIN t /\ Len(s) + (l - Len(s)) = l
    <3>. DEFINE i == k - Len(s)
                j == l - Len(s)
    <3>1. t[i] = t[j] /\ i \in DOMAIN t /\ j \in DOMAIN t
      BY <1>1, <2>1, <2>5 DEF all
    <3>2. i = j
      BY <3>1 DEF NoTwice
    <3>. QED BY <2>5, <3>2
  <2>. QED BY <1>2, <2>2, <2>3, <2>4, <2>5
<1>5. Listed(all) = Listed(s) \cup Listed(t)
  <2>1. ASSUME NEW k \in DOMAIN all PROVE all[k] \in Listed(s) \cup Listed(t)
    <3>1. CASE k \in DOMAIN s
      BY <3>1, <1>1 DEF Listed, all
    <3>2. CASE k - Len(s) \in DOMAIN t /\ Len(s) + (k - Len(s)) = k
      <4>. DEFINE j == k - Len(s)
      <4>1. all[k] = t[j] /\ j \in DOMAIN t
        BY <3>2, <1>1 DEF all
      <4>. QED BY <4>1 DEF Listed
    <3>. QED BY <3>1, <3>2, <1>2
  <2>2. \A k \in DOMAIN s : s[k] \in Listed(all)
    BY <1>1 DEF Listed, all
  <2>3. \A k \in DOMAIN t : t[k] \in Listed(all)
    BY <1>1 DEF Listed, all
  <2>4. Listed(all) \subseteq Listed(s) \cup Listed(t)
    BY <2>1, Zenon DEF Listed
  <2>5. Listed(s) \subseteq Listed(all) /\ Listed(t) \subseteq Listed(all)
    BY <2>2, <2>3, Zenon DEF Listed
  <2>. QED BY <2>4, <2>5
<1>. QED BY <1>1, <1>4, <1>5 DEF all

LEMMA AlignFacts ==
  ASSUME NEW name, NEW v \in Nat
  PROVE  AlignOf(name) \in File!Alignments /\ Layout!AlignTo(v, AlignOf(name)) \in Nat
<1>1. AlignOf(name) \in File!Alignments
  BY DEF AlignOf, File!Alignments
<1>2. File!AlignTo(v, AlignOf(name)) \in Nat
  BY <1>1, File!AlignToBounds
<1>. QED BY <1>1, <1>2, SameArithmetic

(* The index of a section in a list.                                        *)
LEMMA IndexFacts ==
  ASSUME NEW s \in Seq(Names), NEW name
  PROVE  /\ Index(s, name) \in Nat
         /\ name \in Listed(s) => Index(s, name) + 1 \in DOMAIN s /\ s[Index(s, name) + 1] = name
<1>1. CASE \E k \in DOMAIN s : s[k] = name
  <2>. DEFINE i == CHOOSE k \in DOMAIN s : s[k] = name
  <2>1. i \in DOMAIN s /\ s[i] = name
    BY <1>1
  <2>. HIDE DEF i
  <2>2. i \in Nat /\ i > 0 /\ (i - 1) + 1 = i
    BY <2>1
  <2>3. Index(s, name) = i - 1
    BY <1>1 DEF Index, i
  <2>. QED BY <2>1, <2>2, <2>3
<1>2. CASE ~(\E k \in DOMAIN s : s[k] = name)
  BY <1>2 DEF Index, Listed
<1>. QED BY <1>1, <1>2

(* What is known of a list of symbols.                                      *)
NamesOnce(s) == \A k, l \in DOMAIN s : s[k].name = s[l].name => k = l

LEMMA FindFacts ==
  ASSUME NEW s, NEW name \in NamesIn(s)
  PROVE  \E k \in DOMAIN s : Find(s, name) = s[k] /\ s[k].name = name
<1>1. \E k \in DOMAIN s : s[k].name = name
  BY DEF NamesIn
<1>. QED BY <1>1 DEF Find

LEMMA AppendFacts ==
  ASSUME NEW S, NEW s \in Seq(S), NEW sym \in S, NamesOnce(s), sym.name \notin NamesIn(s)
  PROVE  /\ Append(s, sym) \in Seq(S) /\ NamesOnce(Append(s, sym))
         /\ NamesIn(Append(s, sym)) = NamesIn(s) \cup {sym.name}
         /\ \E k \in DOMAIN Append(s, sym) : Append(s, sym)[k] = sym
         /\ \A k \in DOMAIN s : k \in DOMAIN Append(s, sym) /\ Append(s, sym)[k] = s[k]
<1>. DEFINE t == Append(s, sym)
<1>1. /\ t \in Seq(S) /\ DOMAIN t = 1..(Len(s) + 1) /\ DOMAIN s = 1..Len(s) /\ Len(s) \in Nat
      /\ t[Len(s) + 1] = sym /\ Len(s) + 1 \in DOMAIN t
      /\ \A k \in DOMAIN s : k \in DOMAIN t /\ t[k] = s[k]
      /\ \A k \in DOMAIN t : k \in DOMAIN s \/ k = Len(s) + 1
  OBVIOUS
<1>. HIDE DEF t
<1>2. \A k \in DOMAIN s : s[k].name # sym.name
  BY DEF NamesIn
<1>3. NamesOnce(t)
  BY <1>1, <1>2 DEF NamesOnce
<1>4. NamesIn(t) \subseteq NamesIn(s) \cup {sym.name}
  BY <1>1 DEF NamesIn
<1>5. NamesIn(s) \cup {sym.name} \subseteq NamesIn(t)
  BY <1>1 DEF NamesIn
<1>. QED BY <1>1, <1>3, <1>4, <1>5 DEF t

LEMMA PutFacts ==
  ASSUME NEW s \in Seq(SymbolRecord), NEW sym \in SymbolRecord, NamesOnce(s)
  PROVE  /\ Put(s, sym) \in Seq(SymbolRecord) /\ NamesOnce(Put(s, sym))
         /\ NamesIn(Put(s, sym)) = NamesIn(s) \cup {sym.name}
         /\ \E k \in DOMAIN Put(s, sym) : Put(s, sym)[k] = sym
         /\ \A k \in DOMAIN s : s[k].name # sym.name =>
              k \in DOMAIN Put(s, sym) /\ Put(s, sym)[k] = s[k]
<1>1. CASE sym.name \notin NamesIn(s)
  BY <1>1, AppendFacts DEF Put
<1>2. CASE sym.name \in NamesIn(s)
  <2>. DEFINE t == [k \in DOMAIN s |-> IF s[k].name = sym.name THEN sym ELSE s[k]]
  <2>1. Put(s, sym) = t
    BY <1>2 DEF Put
  <2>2. PICK k \in DOMAIN s : s[k].name = sym.name
    BY <1>2 DEF NamesIn
  <2>3. t \in Seq(SymbolRecord) /\ DOMAIN t = DOMAIN s /\ t[k] = sym
    BY <2>2
  <2>4. \A l \in DOMAIN s : t[l].name = s[l].name /\ (s[l].name # sym.name => t[l] = s[l])
    OBVIOUS
  <2>. HIDE DEF t
  <2>5. NamesOnce(t) /\ NamesIn(t) = NamesIn(s)
    BY <2>3, <2>4 DEF NamesOnce, NamesIn
  <2>. QED BY <1>2, <2>1, <2>2, <2>3, <2>4, <2>5
<1>. QED BY <1>1, <1>2

(* The passes only renumber the symbols.                                    *)
Renumbered(s, t) ==
  /\ t \in Seq(SymbolRecord) /\ DOMAIN t = DOMAIN s
  /\ \A k \in DOMAIN s : /\ t[k].name = s[k].name /\ t[k].section = s[k].section
                         /\ t[k].offset = s[k].offset /\ t[k].binding = s[k].binding

LEMMA RenumberedKeeps ==
  ASSUME NEW s, NEW t, Renumbered(s, t)
  PROVE  NamesIn(t) = NamesIn(s) /\ (NamesOnce(s) => NamesOnce(t))
BY DEF Renumbered, NamesIn, NamesOnce

-----------------------------------------------------------------------------
(* The types of the variables, and what keeps them: the sections are listed *)
(* once, those that a pass is going to add are not there yet, a name is a   *)
(* local symbol or one of .dynsym only once it is defined.                  *)
Header == [len : Nat, size : Nat, link : Nat, info : Nat]
DynEntry == [name : SymbolNames, type : {"FUNC", "OBJECT"}]

SectionInv ==
  /\ sections \in Seq(Names) /\ NoTwice(sections) /\ BaseNames \subseteq Listed(sections)
  /\ required \subseteq Listed(sections)
  /\ stage = "translate" => Listed(sections) \cap {".init.text", ".exit.text"} = {}
  /\ stage = "append" /\ format = "ko" => {".init.text", ".exit.text"} \subseteq Listed(sections)
  /\ stage \in {"translate", "append", "module", "versions", "prepare"} =>
       Listed(sections) \cap RelaNames = {}

HeaderInv == hdr \in [Names -> Header]

Appended == IF stage = "translate" THEN 0 ELSE IF stage = "append" THEN item - 1 ELSE Len(fnMap)
Defined ==
  {Items[k].name : k \in {l \in DOMAIN Items : Items[l].kind = "var"}}
    \cup {Ordered[n].fn.name : n \in 1..Appended}
    \cup (IF format = "ko" THEN {"this_module"} ELSE {})

SymbolInv ==
  /\ localSymbols \in Seq(SymbolRecord) /\ NamesOnce(localSymbols)
  /\ dynamicSymbols \in Seq(SymbolRecord) /\ NamesOnce(dynamicSymbols)
  /\ dynSymEntries \in Seq(DynEntry) /\ NamesOnce(dynSymEntries)
  /\ NamesIn(dynSymEntries) \subseteq NamesIn(dynamicSymbols)
  /\ NamesIn(localSymbols) \cup NamesIn(dynSymEntries) \subseteq Defined
  /\ dynamicLinkEnabled \in BOOLEAN
  /\ dynamicLinkEnabled => format # "ko"
  /\ dynSymEntries # << >> => dynamicLinkEnabled

RelocationInv == relocations \in Seq(Relocation)
ModuleInv == stage \in {"module", "versions"} => format = "ko"

Laid == {"layout", "links", "patchsymtab", "patchdynsym", "patchdynamic", "patchtext", "assemble", "done"}
Collected == Laid \cup {"indices", "symtab", "rela", "sizes2"}
FileInv ==
  /\ File!TypeOK
  /\ "" \in required
  /\ requiredSections \in Seq(Names)
  /\ stage \in Collected => Listed(requiredSections) = required /\ NoTwice(requiredSections)
  /\ stage \in Laid => DOMAIN table = DOMAIN requiredSections
  /\ stage \notin Laid \cup {"aborted"} => placed = {}

(* From buildRelaSections on every relocation has a symbol, and none has    *)
(* to go through the PLT.                                                   *)
ServedInv ==
  /\ stage \in Laid \cup {"sizes2"} => \A k \in DOMAIN relocations : Known(relocations[k].name)
  /\ textFields \subseteq [offset : Nat, value : Int]

TypeInv ==
  /\ DriverInv /\ SectionInv /\ HeaderInv /\ SymbolInv /\ RelocationInv /\ ModuleInv /\ FileInv
  /\ ServedInv

LEMMA Prefix ==
  /\ \A name \in BaseNames : name \in Names
  /\ SymtabSections \subseteq BaseNames /\ DynamicSections \subseteq BaseNames
  /\ {".init.text", ".exit.text"} \subseteq Names /\ AddedSections \cap RelaNames = {}
  /\ RelaNames \subseteq Names /\ BaseNames \cap RelaNames = {}
  /\ BaseNames \cap {".init.text", ".exit.text"} = {}
BY NameFacts DEF SymtabSections, DynamicSections, BaseNames, AddedSections, RelaNames

LEMMA SectionInit == Init => SectionInv /\ HeaderInv
<1>. SUFFICES ASSUME Init PROVE SectionInv /\ HeaderInv
  OBVIOUS
<1>1. sections = BaseSections /\ stage = "translate"
  BY DEF Init
<1>2. sections \in Seq(Names) /\ NoTwice(sections) /\ Listed(sections) = BaseNames
  <2>1. BaseSections \in Seq(Names)
    BY BaseFacts, Prefix
  <2>. QED BY <1>1, <2>1, BaseFacts
<1>3. required \subseteq BaseNames
  BY Prefix DEF Init, BaseNames
<1>4. HeaderInv
  BY DEF Init, HeaderInv, Header
<1>. QED BY <1>1, <1>2, <1>3, <1>4, Prefix DEF SectionInv

(* The .rela sections of a module, each for one of the others.              *)
LEMMA RelaSectionsFacts ==
  ASSUME RelocationInv
  PROVE  RelaSections \in Seq(RelaNames) /\ NoTwice(RelaSections)
<1>. DEFINE first(k) == \A j \in 1..(k - 1) : relocations[j].section # relocations[k].section
            new == {k \in DOMAIN relocations : first(k)}
            numbers == [k \in DOMAIN relocations |-> k]
            firsts == Only(numbers, new)
<1>1. relocations \in Seq(Relocation) /\ \A k \in DOMAIN relocations : relocations[k].section \in Relocated
  <2>1. relocations \in Seq(Relocation)
    BY DEF RelocationInv
  <2>2. \A k \in DOMAIN relocations : relocations[k] \in Relocation
    BY <2>1
  <2>. QED BY <2>1, <2>2 DEF Relocation
<1>2. numbers \in Seq(Nat) /\ Len(numbers) = Len(relocations)
  BY <1>1
<1>3. firsts \in Seq(Nat)
  BY <1>2, OnlyPlaces
<1>4. PICK p : Places(firsts, numbers, Len(numbers), new, p)
  BY <1>2, OnlyPlaces
<1>5. RelaSections = [n \in DOMAIN firsts |-> RelaOf(relocations[firsts[n]].section)]
  BY DEF RelaSections
<1>6. ASSUME NEW n \in DOMAIN firsts PROVE firsts[n] = p[n] /\ firsts[n] \in new /\ p[n] \in DOMAIN relocations
  <2>1. p[n] \in 1..Len(numbers) /\ firsts[n] = numbers[p[n]] /\ firsts[n] \in new
    BY <1>4 DEF Places
  <2>2. 1..Len(numbers) = DOMAIN relocations
    BY <1>1, <1>2
  <2>3. p[n] \in DOMAIN relocations
    BY <2>1, <2>2
  <2>4. numbers[p[n]] = p[n]
    BY <2>3
  <2>. QED BY <2>1, <2>3, <2>4
<1>7. \A m, n \in DOMAIN firsts : m < n => p[m] < p[n]
  BY <1>4 DEF Places
<1>. HIDE DEF firsts, numbers, new
<1>8. RelaSections \in Seq(RelaNames) /\ DOMAIN RelaSections = DOMAIN firsts
  <2>1. \A n \in DOMAIN firsts : RelaOf(relocations[firsts[n]].section) \in RelaNames
    BY <1>1, <1>6, RelaFacts
  <2>. QED BY <1>3, <1>5, <2>1
<1>9. ASSUME NEW m \in DOMAIN firsts, NEW n \in DOMAIN firsts, m < n
      PROVE  RelaSections[m] # RelaSections[n]
  <2>1. p[m] < p[n] /\ p[m] \in DOMAIN relocations /\ p[n] \in new /\ p[n] \in DOMAIN relocations
    BY <1>6, <1>7, <1>9
  <2>2. p[m] \in 1..(p[n] - 1)
    BY <1>1, <2>1
  <2>3. relocations[p[m]].section # relocations[p[n]].section
    BY <2>1, <2>2 DEF new
  <2>4. /\ relocations[p[m]].section \in Relocated /\ relocations[p[n]].section \in Relocated
        /\ RelaSections[m] = RelaOf(relocations[p[m]].section)
        /\ RelaSections[n] = RelaOf(relocations[p[n]].section)
    BY <1>1, <1>5, <1>6, <2>1
  <2>. QED BY <2>3, <2>4, RelaFacts
<1>10. NoTwice(RelaSections)
  <2>1. \A n \in DOMAIN firsts : n \in Nat
    BY <1>3
  <2>2. \A m, n \in DOMAIN firsts : m = n \/ m < n \/ n < m
    BY <2>1
  <2>. QED BY <1>8, <1>9, <2>2 DEF NoTwice
<1>. QED BY <1>8, <1>10

(* Ensuring a section that is neither a .rela section nor .init.text.       *)
LEMMA SectionAdded ==
  ASSUME SectionInv, NEW name \in Names \ RelaNames,
         name \notin {".init.text", ".exit.text"} \/ stage' # "translate",
         sections' = Ensure(name), required' \subseteq Listed(sections) \cup {name},
         stage' = "translate" => stage = "translate",
         stage' = "append" /\ format' = "ko" => stage = "append" /\ format = "ko",
         stage' \in {"translate", "append", "module", "versions", "prepare"}
           => stage \in {"translate", "append", "module", "versions", "prepare"}
  PROVE  SectionInv'
<1>1. /\ sections' \in Seq(Names) /\ NoTwice(sections')
      /\ Listed(sections') = Listed(sections) \cup {name}
  BY EnsureFacts DEF SectionInv
<1>. HIDE DEF Listed
<1>2. required' \subseteq Listed(sections')
  BY <1>1
<1>. QED BY <1>1, <1>2 DEF SectionInv

LEMMA SectionsKept ==
  ASSUME SectionInv, sections' = sections, required' \subseteq Listed(sections),
         stage' = "translate" => stage = "translate",
         stage' = "append" /\ format' = "ko" => stage = "append" /\ format = "ko",
         stage' \in {"translate", "append", "module", "versions", "prepare"}
           => stage \in {"translate", "append", "module", "versions", "prepare"}
  PROVE  SectionInv'
BY DEF SectionInv, Listed, NoTwice

LEMMA EnableKeeps ==
  ASSUME SectionInv, EnableDynamicLinking
  PROVE  required' \subseteq Listed(sections)
<1>1. required' \subseteq required \cup BaseNames
  BY Prefix DEF EnableDynamicLinking, BaseNames
<1>. QED BY <1>1 DEF SectionInv

LEMMA RequireKeeps ==
  ASSUME SectionInv, NEW name, requireSymbol(name)
  PROVE  sections' = sections /\ required' \subseteq Listed(sections)
BY EnableKeeps DEF requireSymbol, SectionInv

LEMMA SymbolSectionsFacts == ASSUME NEW sym PROVE SymbolSections(sym) \subseteq BaseNames
BY Prefix DEF SymbolSections

LEMMA SectionStep == ASSUME TypeInv, Next PROVE SectionInv'
<1>. USE DEF TypeInv
<1>1. CASE TranslateVariable
  <2>1. /\ stage = "translate" /\ UNCHANGED <<stage, format>> /\ item \in DOMAIN Items
        /\ Item.kind = "var"
        /\ sections' = IF Item.bss THEN Ensure(".bss") ELSE sections
        /\ \E sym : required' = required \cup (IF Item.bss THEN Ensured(".bss") ELSE {})
                                  \cup {Item.section} \cup SymbolSections(sym)
    BY <1>1, ProgramsAssumption
       DEF TranslateVariable, Translating, fileVars, Items, DriverInv, Reached
  <2>2. Item.section \in BaseNames
    <3>1. Item \in Variable
      BY <2>1, ProgramType DEF Item, DriverInv
    <3>. QED BY <3>1 DEF Variable, BaseNames
  <2>3. required \subseteq Listed(sections) /\ BaseNames \subseteq Listed(sections)
    BY DEF SectionInv
  <2>4. CASE Item.bss
    <3>1. ".bss" \in Names \ RelaNames
      BY NameFacts DEF AddedSections, RelaNames
    <3>2. Listed(sections) \cup Ensured(".bss") = Listed(sections) \cup {".bss"}
      BY <3>1, EnsureFacts DEF SectionInv
    <3>3. required' \subseteq Listed(sections) \cup {".bss"}
      BY <2>1, <2>2, <2>3, <2>4, <3>2, SymbolSectionsFacts
    <3>. QED BY <2>1, <2>4, <3>1, <3>3, SectionAdded
  <2>5. CASE ~Item.bss
    <3>1. required' \subseteq Listed(sections)
      BY <2>1, <2>2, <2>3, <2>5, SymbolSectionsFacts
    <3>. QED BY <2>1, <2>5, <3>1, SectionsKept
  <2>. QED BY <2>4, <2>5
<1>2. CASE TranslateModinfo
  <2>1. ".modinfo" \in Names \ RelaNames
    BY NameFacts DEF AddedSections, RelaNames
  <2>. QED BY <1>2, <2>1, SectionAdded DEF TranslateModinfo, Translating, fileVars, SectionInv
<1>3. CASE SkipFunction \/ FinishFunction
  BY <1>3, SectionsKept
     DEF SkipFunction, FinishFunction, sectionVars, fileVars, SectionInv
<1>4. CASE StartFunction
  BY <1>4, SectionsKept, RequireKeeps DEF StartFunction, sectionVars, fileVars, SectionInv
<1>5. CASE TranslateReference
  BY <1>5, SectionsKept, RequireKeeps DEF TranslateReference, sectionVars, fileVars, SectionInv
<1>6. CASE StartAppend
  <2>. DEFINE two == <<".init.text", ".exit.text">>
  <2>1. two \in Seq(Names) /\ NoTwice(two) /\ Listed(two) = {".init.text", ".exit.text"}
    <3>1. two \in Seq(Names) /\ NoTwice(two)
      BY Prefix DEF NoTwice
    <3>2. DOMAIN two = 1..2 /\ two[1] = ".init.text" /\ two[2] = ".exit.text"
      OBVIOUS
    <3>3. Listed(two) = {two[1], two[2]}
      BY <3>2 DEF Listed
    <3>. QED BY <3>1, <3>2, <3>3
  <2>2. /\ stage = "translate" /\ stage' = "append" /\ format' = format
        /\ IF format = "ko"
             THEN sections' = sections \o two /\ required' = required \cup {".init.text", ".exit.text"}
             ELSE sections' = sections /\ required' = required
    BY <1>6 DEF StartAppend, fileVars
  <2>. HIDE DEF two
  <2>3. CASE format # "ko"
    BY <2>2, <2>3 DEF SectionInv
  <2>4. CASE format = "ko"
    <3>1. \A k \in DOMAIN two : two[k] \notin Listed(sections)
      <4>1. Listed(two) \cap Listed(sections) = {}
        BY <2>1, <2>2 DEF SectionInv
      <4>2. \A k \in DOMAIN two : two[k] \in Listed(two)
        BY DEF Listed
      <4>. QED BY <4>1, <4>2
    <3>2. /\ sections' \in Seq(Names) /\ NoTwice(sections')
          /\ Listed(sections') = Listed(sections) \cup {".init.text", ".exit.text"}
      BY <2>1, <2>2, <2>4, <3>1, JoinFacts DEF SectionInv
    <3>3. {".init.text", ".exit.text"} \cap RelaNames = {}
      BY DEF RelaNames
    <3>4. required \subseteq Listed(sections) /\ BaseNames \subseteq Listed(sections)
          /\ Listed(sections) \cap RelaNames = {}
      BY <2>2 DEF SectionInv
    <3>. QED BY <2>2, <2>4, <3>2, <3>3, <3>4 DEF SectionInv
  <2>. QED BY <2>3, <2>4
<1>7. CASE AppendFunction
  <2>. DEFINE fn == Ordered[item].fn
  <2>1. /\ stage = "append" /\ item <= Len(fnMap) /\ sections' = sections
        /\ UNCHANGED <<stage, format>>
        /\ \E sym : required' = required \cup {TargetSection(fn)} \cup SymbolSections(sym)
    BY <1>7 DEF AppendFunction, fileVars
  <2>2. item \in DOMAIN Ordered
    <3>1. OrderedOnce
      BY OrderedFacts
    <3>. QED BY <2>1, <3>1 DEF OrderedOnce, DriverInv, Reached
  <2>3. PICK k \in DOMAIN fnMap : fn = fnMap[k].fn
    BY <2>2, OrderedFacts DEF OrderedOnce
  <2>4. TargetSection(fn) \in Listed(sections)
    <3>1. fn.role \in {"init", "exit"} => format = "ko"
      BY <2>3, FunctionFacts DEF Skipped
    <3>2. ".text" \in Listed(sections)
      BY DEF SectionInv, BaseNames
    <3>3. format = "ko" => {".init.text", ".exit.text"} \subseteq Listed(sections)
      BY <2>1 DEF SectionInv
    <3>4. TargetSection(fn) \in {".text", ".init.text", ".exit.text"}
      BY DEF TargetSection
    <3>5. fn.role \notin {"init", "exit"} => TargetSection(fn) = ".text"
      BY DEF TargetSection
    <3>. QED BY <3>1, <3>2, <3>3, <3>4, <3>5
  <2>5. required' \subseteq Listed(sections)
    BY <2>1, <2>4, SymbolSectionsFacts DEF SectionInv
  <2>. QED BY <2>1, <2>5, SectionsKept
<1>8. CASE FinishAppend \/ NoInitFunction
  BY <1>8, SectionsKept DEF FinishAppend, NoInitFunction, sectionVars, fileVars, SectionInv
<1>9. CASE CreateThisModule
  <2>. DEFINE name == ".gnu.linkonce.this_module"
  <2>1. name \in Names \ RelaNames
    BY NameFacts DEF AddedSections, RelaNames
  <2>2. /\ stage = "module" /\ stage' = "versions" /\ sections' = Ensure(name)
        /\ \E sym : required' = required \cup {name} \cup SymbolSections(sym)
    BY <1>9 DEF CreateThisModule
  <2>3. required' \subseteq Listed(sections) \cup {name}
    BY <2>2, SymbolSectionsFacts DEF SectionInv
  <2>. QED BY <2>1, <2>2, <2>3, SectionAdded
<1>10. CASE CreateVersions
  <2>1. "__versions" \in Names \ RelaNames
    BY NameFacts DEF AddedSections, RelaNames
  <2>2. /\ stage = "versions" /\ stage' = "prepare"
        /\ \/ sections' = sections /\ required' = required
           \/ sections' = Ensure("__versions") /\ required' = required \cup {"__versions"}
    BY <1>10 DEF CreateVersions, sectionVars
  <2>. QED BY <2>1, <2>2, SectionAdded, SectionsKept DEF SectionInv
<1>11. CASE PrepareRelocatable
  <2>1. /\ stage = "prepare" /\ stage' = "sizes" /\ sections' = sections \o RelaSections
        /\ required' = required \cup {RelaSections[k] : k \in DOMAIN RelaSections}
    BY <1>11 DEF PrepareRelocatable, Pass
  <2>2. RelaSections \in Seq(RelaNames) /\ NoTwice(RelaSections)
    BY RelaSectionsFacts
  <2>3. Listed(sections) \cap RelaNames = {}
    BY <2>1 DEF SectionInv
  <2>4. RelaSections \in Seq(Names) /\ \A k \in DOMAIN RelaSections : RelaSections[k] \notin Listed(sections)
    BY <2>2, <2>3, Prefix
  <2>5. /\ sections' \in Seq(Names) /\ NoTwice(sections')
        /\ Listed(sections') = Listed(sections) \cup Listed(RelaSections)
    BY <2>1, <2>2, <2>4, JoinFacts DEF SectionInv
  <2>6. required' = required \cup Listed(RelaSections)
    BY <2>1 DEF Listed
  <2>. QED BY <2>1, <2>5, <2>6 DEF SectionInv
<1>12. CASE Compile /\ ~PrepareRelocatable
  <2>1. sections' = sections /\ required' = required
    <3>1. CASE PrepareDynamic \/ UpdateInitialSectionSizes \/ CollectSections
      BY <3>1 DEF PrepareDynamic, UpdateInitialSectionSizes, CollectSections, sectionVars
    <3>2. CASE AssignSymbolIndices \/ BuildFinalSymtabData \/ BuildRelaDynamic \/ BuildRelaRelocatable
      BY <3>2 DEF AssignSymbolIndices, BuildFinalSymtabData, BuildRelaDynamic, BuildRelaRelocatable,
         sectionVars
    <3>3. CASE FinalizeSizes \/ FinalizeLayout \/ LayoutDone \/ SetSectionLinks
      BY <3>3 DEF FinalizeSizes, FinalizeLayout, LayoutDone, SetSectionLinks, sectionVars, linkVars
    <3>4. CASE PatchSymbolTableAddresses \/ PatchDynSymAddresses \/ PatchDynamicSection
      BY <3>4 DEF PatchSymbolTableAddresses, PatchDynSymAddresses, PatchDynamicSection, sectionVars
    <3>5. CASE PatchTextRelocations \/ AssembleFinalElf \/ Finish
      BY <3>5 DEF PatchTextRelocations, AssembleFinalElf, Finish, sectionVars, linkVars
    <3>. QED BY <1>12, <3>1, <3>2, <3>3, <3>4, <3>5 DEF Compile
  <2>2. /\ stage' \notin {"translate", "append", "module", "versions"}
        /\ stage' = "prepare" => stage = "prepare"
    <3>1. stage' # "prepare"
      BY <1>12 DEF Compile, Pass, PrepareDynamic, UpdateInitialSectionSizes, CollectSections,
         AssignSymbolIndices, BuildFinalSymtabData, BuildRelaDynamic, BuildRelaRelocatable,
         FinalizeSizes, LayoutDone, SetSectionLinks, PatchSymbolTableAddresses, PatchDynSymAddresses,
         PatchDynamicSection, PatchTextRelocations, Finish, FinalizeLayout, AssembleFinalElf, linkVars
    <3>. QED BY <1>12, <3>1, Passes
  <2>. QED BY <2>1, <2>2, SectionsKept DEF SectionInv
<1>. QED BY <1>1, <1>2, <1>3, <1>4, <1>5, <1>6, <1>7, <1>8, <1>9, <1>10, <1>11, <1>12
     DEF Next, Translate

-----------------------------------------------------------------------------
(* The headers keep their type.                                             *)
LEMMA HeaderFields ==
  ASSUME NEW h \in Header, NEW n \in Nat
  PROVE  /\ h.len \in Nat /\ h.size \in Nat /\ h.link \in Nat /\ h.info \in Nat
         /\ [h EXCEPT !.len = n] \in Header /\ [h EXCEPT !.size = n] \in Header
         /\ [h EXCEPT !.info = n] \in Header
         /\ [h EXCEPT !.len = n, !.size = n] \in Header
BY DEF Header

LEMMA HeaderUpdates ==
  ASSUME NEW h \in [Names -> Header], NEW name \in Names, NEW n \in Nat
  PROVE  /\ h[name] \in Header
         /\ [h EXCEPT ![name].len = n] \in [Names -> Header]
         /\ [h EXCEPT ![name].size = n] \in [Names -> Header]
         /\ [h EXCEPT ![name].info = n] \in [Names -> Header]
<1>1. h[name] \in Header
  OBVIOUS
<1>2. [h EXCEPT ![name].len = n] \in [Names -> Header]
  BY <1>1, HeaderFields, Zenon
<1>3. [h EXCEPT ![name].size = n] \in [Names -> Header]
  BY <1>1, HeaderFields, Zenon
<1>4. [h EXCEPT ![name].info = n] \in [Names -> Header]
  BY <1>1, HeaderFields, Zenon
<1>. QED BY <1>1, <1>2, <1>3, <1>4

LEMMA DataHeaders ==
  ASSUME NEW h \in [Names -> Header], NEW name \in Names, NEW n \in Nat
  PROVE  /\ WithData(h, name, n) \in [Names -> Header]
         /\ Grown(h, name, n) \in [Names -> Header]
         /\ Grown(h, name, n)[name].len = h[name].len + n
         /\ \A other \in Names : other # name => Grown(h, name, n)[other] = h[other]
<1>1. h[name] \in Header
  OBVIOUS
<1>2. WithData(h, name, n) \in [Names -> Header]
  <2>. DEFINE g == [h EXCEPT ![name].len = n]
  <2>1. g \in [Names -> Header]
    BY HeaderUpdates
  <2>2. WithData(h, name, n) = [g EXCEPT ![name].size = n]
    BY Zenon DEF WithData
  <2>. HIDE DEF g
  <2>3. [g EXCEPT ![name].size = n] \in [Names -> Header]
    BY <2>1, HeaderUpdates
  <2>. QED BY <2>2, <2>3, Zenon
<1>. DEFINE more == h[name].len + n
            wide == [h[name] EXCEPT !.len = more]
<1>4. more \in Nat
  <2>1. h[name].len \in Nat
    BY <1>1, HeaderFields
  <2>. QED BY <2>1
<1>5. Grown(h, name, n) = [h EXCEPT ![name] = wide]
  BY Zenon DEF Grown
<1>6. wide \in Header /\ wide.len = more
  <2>. DEFINE r == h[name]
  <2>. HIDE DEF r, more
  <2>1. [r EXCEPT !.len = more].len = more
    BY <1>1, <1>4 DEF r, Header
  <2>. QED BY <1>1, <1>4, <2>1, HeaderFields DEF r
<1>. HIDE DEF wide
<1>. QED BY <1>2, <1>5, <1>6

LEMMA SizesFacts == ASSUME HeaderInv PROVE SizesFromData \in [Names -> Header]
<1>1. ASSUME NEW name \in Names PROVE [hdr[name] EXCEPT !.size = hdr[name].len] \in Header
  <2>1. hdr[name] \in Header
    BY DEF HeaderInv
  <2>. QED BY <2>1, HeaderFields
<1>. QED BY <1>1, Zenon DEF HeaderInv, SizesFromData

LEMMA EnableHeaders == ASSUME HeaderInv, EnableDynamicLinking PROVE HeaderInv'
<1>1. ".interp" \in Names /\ INTERP \in Nat
  BY Prefix DEF BaseNames, INTERP
<1>2. [hdr EXCEPT ![".interp"].len = INTERP] \in [Names -> Header]
  BY <1>1, HeaderUpdates DEF HeaderInv
<1>. QED BY <1>2, Zenon DEF EnableDynamicLinking, HeaderInv

LEMMA RequireHeaders == ASSUME HeaderInv, NEW name, requireSymbol(name) PROVE HeaderInv'
<1>1. EnableDynamicLinking \/ hdr' = hdr
  BY Zenon DEF requireSymbol
<1>. QED BY <1>1, EnableHeaders DEF HeaderInv

(* One header is replaced.                                                  *)
LEMMA HeaderReplaced ==
  ASSUME NEW h \in [Names -> Header], NEW name \in Names, NEW len \in Nat, NEW size \in Nat,
         NEW link \in Nat, NEW info \in Nat
  PROVE  [h EXCEPT ![name] = [len |-> len, size |-> size, link |-> link, info |-> info]]
           \in [Names -> Header]
BY DEF Header

LEMMA LinkedFacts ==
  ASSUME TypeInv, NEW name \in Names
  PROVE  Linked(name) \in Header
<1>. DEFINE h == hdr[name]
            Link(index) == [h EXCEPT !.link = OrOld(index, @)]
<1>1. h \in Header
  BY DEF TypeInv, HeaderInv
<1>2. \A other : IndexIfRequired(other) \in Nat
  <2>1. sections \in Seq(Names) /\ requiredSections \in Seq(Names)
    BY DEF TypeInv, SectionInv, FileInv
  <2>. QED BY <2>1, IndexFacts DEF IndexIfRequired, getSectionIndex
<1>3. \A index \in Nat : Link(index) \in Header
  BY <1>1 DEF Header, OrOld
<1>4. \A index, info \in Nat : [Link(index) EXCEPT !.info = OrOld(info, @)] \in Header
  BY <1>1 DEF Header, OrOld
<1>5. \A index \in Nat : [h EXCEPT !.link = index, !.info = 1] \in Header
  BY <1>1 DEF Header
<1>. HIDE DEF h, Link
<1>6. /\ Link(IndexIfRequired(".strtab")) \in Header /\ Link(IndexIfRequired(".dynsym")) \in Header
      /\ Link(IndexIfRequired(".dynstr")) \in Header /\ Link(IndexIfRequired(".symtab")) \in Header
  BY <1>2, <1>3
<1>7. [h EXCEPT !.link = IndexIfRequired(".dynstr"), !.info = 1] \in Header
  BY <1>2, <1>5
<1>8. /\ [Link(IndexIfRequired(".dynsym")) EXCEPT !.info = OrOld(IndexIfRequired(".got.plt"), @)] \in Header
      /\ \A other : [Link(IndexIfRequired(".symtab")) EXCEPT !.info = OrOld(IndexIfRequired(other), @)] \in Header
  BY <1>2, <1>4
<1>. QED BY <1>1, <1>6, <1>7, <1>8 DEF Linked, h, Link

LEMMA Counts ==
  ASSUME SymbolInv
  PROVE  /\ NumDynSymbols \in Nat /\ NumFunctions \in Nat /\ NumBuckets \in Nat
         /\ DynamicEntryCount \in Nat
<1>1. Len(dynSymEntries) \in Nat /\ DOMAIN dynSymEntries = 1..Len(dynSymEntries)
  BY DEF SymbolInv
<1>2. NumFunctions \in Nat
  <2>1. IsFiniteSet(DOMAIN dynSymEntries)
    BY <1>1, FS_Interval
  <2>2. {k \in DOMAIN dynSymEntries : dynSymEntries[k].type = "FUNC"} \subseteq DOMAIN dynSymEntries
    OBVIOUS
  <2>. QED BY <2>1, <2>2, FS_Subset, FS_CardinalityType DEF NumFunctions
<1>3. NumBuckets \in Nat
  <2>. DEFINE n == IF NumDynSymbols > 0 THEN NumDynSymbols ELSE 1
  <2>1. n \in Nat
    BY <1>1 DEF NumDynSymbols
  <2>2. NumBuckets = IF n % 2 = 0 THEN n + 1 ELSE n
    BY DEF NumBuckets
  <2>. HIDE DEF n
  <2>. QED BY <2>1, <2>2
<1>4. DynamicEntryCount \in Nat
  BY DEF DynamicEntryCount
<1>. QED BY <1>1, <1>2, <1>3, <1>4 DEF NumDynSymbols

LEMMA PrepareHeaders == ASSUME SectionInv, HeaderInv, SymbolInv, PrepareDynamic PROVE HeaderInv'
<1>1. CASE ~dynamicLinkEnabled
  BY <1>1 DEF PrepareDynamic, HeaderInv
<1>2. CASE dynamicLinkEnabled
  <2>. DEFINE link(name) == Index(sections, name)
              so == IF format = "so" THEN NAME ELSE 0
              got == 24 + NumFunctions * 8
              strlen == 1 + NumDynSymbols * NAME + so
              symlen == 24 * (NumDynSymbols + 1)
              pltlen == 16 + NumFunctions * 16
              dynlen == 16 * DynamicEntryCount
              hashlen == 4 * (2 + NumBuckets + NumDynSymbols + 1)
              h1 == [hdr EXCEPT ![".dynstr"].len = strlen]
              h2 == [h1 EXCEPT ![".dynsym"] = [len |-> symlen, size |-> hdr[".dynsym"].size,
                                               link |-> link(".dynstr"), info |-> 1]]
              h3 == [h2 EXCEPT ![".plt"].len = pltlen]
              h4 == [h3 EXCEPT ![".plt"].size = pltlen]
              h5 == [h4 EXCEPT ![".got.plt"] = [len |-> got, size |-> got, link |-> link(".dynamic"),
                                                info |-> hdr[".got.plt"].info]]
              h6 == [h5 EXCEPT ![".dynamic"] = [len |-> dynlen, size |-> dynlen, link |-> link(".dynstr"),
                                                info |-> hdr[".dynamic"].info]]
              h7 == [h6 EXCEPT ![".hash"] = [len |-> hashlen, size |-> hdr[".hash"].size,
                                             link |-> link(".dynsym"), info |-> hdr[".hash"].info]]
  <2>1. hdr' = h7
    BY <1>2, Zenon DEF PrepareDynamic
  <2>2. NumDynSymbols \in Nat /\ NumFunctions \in Nat /\ NumBuckets \in Nat /\ DynamicEntryCount \in Nat
    BY Counts
  <2>3. \A name : link(name) \in Nat
    BY IndexFacts DEF SectionInv
  <2>4. so \in Nat
    BY DEF NAME
  <2>. HIDE DEF link, so
  <2>5. /\ got \in Nat /\ strlen \in Nat /\ symlen \in Nat /\ pltlen \in Nat /\ dynlen \in Nat
        /\ hashlen \in Nat /\ 1 \in Nat
    BY <2>2, <2>4 DEF NAME
  <2>6. {".dynstr", ".dynsym", ".plt", ".got.plt", ".dynamic", ".hash"} \subseteq Names
    BY Prefix DEF BaseNames
  <2>7. \A name \in Names : hdr[name].size \in Nat /\ hdr[name].info \in Nat
    BY DEF HeaderInv, Header
  <2>. HIDE DEF got, strlen, symlen, pltlen, dynlen, hashlen
  <2>8. h1 \in [Names -> Header]
    BY <2>5, <2>6, HeaderUpdates DEF HeaderInv
  <2>. HIDE DEF h1
  <2>9. h2 \in [Names -> Header]
    BY <2>3, <2>5, <2>6, <2>7, <2>8, HeaderReplaced
  <2>. HIDE DEF h2
  <2>10. h3 \in [Names -> Header]
    BY <2>5, <2>6, <2>9, HeaderUpdates
  <2>. HIDE DEF h3
  <2>11. h4 \in [Names -> Header]
    BY <2>5, <2>6, <2>10, HeaderUpdates
  <2>. HIDE DEF h4
  <2>12. h5 \in [Names -> Header]
    BY <2>3, <2>5, <2>6, <2>7, <2>11, HeaderReplaced
  <2>. HIDE DEF h5
  <2>13. h6 \in [Names -> Header]
    BY <2>3, <2>5, <2>6, <2>7, <2>12, HeaderReplaced
  <2>. HIDE DEF h6
  <2>14. h7 \in [Names -> Header]
    BY <2>3, <2>5, <2>6, <2>7, <2>13, HeaderReplaced
  <2>. QED BY <2>1, <2>14 DEF HeaderInv
<1>. QED BY <1>1, <1>2

LEMMA NumLocalsNat == ASSUME SymbolInv, FileInv PROVE NumLocals \in Nat /\ NumSectionSymbols \in Nat
<1>1. localSymbols \in Seq(SymbolRecord) /\ requiredSections \in Seq(Names)
  BY DEF SymbolInv, FileInv
<1>2. Len(localSymbols) \in Nat /\ Len(requiredSections) \in Nat
  BY <1>1
<1>. QED BY <1>2 DEF NumLocals, NumSectionSymbols

LEMMA SymtabHeaders == ASSUME TypeInv, BuildFinalSymtabData PROVE HeaderInv'
<1>. USE DEF TypeInv
<1>1. CASE ~(SymtabSections \subseteq required)
  BY <1>1 DEF BuildFinalSymtabData, HeaderInv
<1>2. CASE SymtabSections \subseteq required
  <2>. DEFINE names == {SymtabOrder[k].name : k \in DOMAIN SymtabOrder} \ {""}
              strtab == WithData(hdr, ".strtab", 1 + NAME * Cardinality(names))
              symbols == WithData(strtab, ".symtab", 24 * Len(SymtabOrder))
  <2>1. hdr' = [symbols EXCEPT ![".symtab"].info = NumLocals]
    BY <1>2, Zenon DEF BuildFinalSymtabData
  <2>2. SymtabOrder \in Seq({SymtabOrder[k] : k \in DOMAIN SymtabOrder})
    <3>. DEFINE Own == {SectionSymbol(name) : name \in Names}
    <3>1. SectionSymbols \in Seq(Own)
      <4>. DEFINE named == Only(sections, required \ {""})
      <4>1. named \in Seq(Names)
        BY OnlyPlaces DEF SectionInv
      <4>2. SectionSymbols = [k \in DOMAIN named |-> SectionSymbol(named[k])]
        BY DEF SectionSymbols
      <4>. HIDE DEF named
      <4>3. DOMAIN named = 1..Len(named) /\ Len(named) \in Nat /\ \A k \in DOMAIN named : named[k] \in Names
        BY <4>1
      <4>4. \A k \in DOMAIN named : SectionSymbol(named[k]) \in Own
        BY <4>3
      <4>. HIDE DEF Own
      <4>. QED BY <4>2, <4>3, <4>4
    <3>2. VisibleSymbols \in Seq(SymbolRecord)
      BY OnlyPlaces DEF VisibleSymbols, SymbolInv
    <3>3. localSymbols \in Seq(SymbolRecord)
      BY DEF SymbolInv
    <3>. DEFINE S == Own \cup SymbolRecord \cup {UndefinedSymbol}
    <3>4. SectionSymbols \in Seq(S) /\ VisibleSymbols \in Seq(S) /\ localSymbols \in Seq(S)
          /\ <<UndefinedSymbol>> \in Seq(S)
      BY <3>1, <3>2, <3>3
    <3>. HIDE DEF S
    <3>5. SymtabOrder \in Seq(S)
      BY <3>4 DEF SymtabOrder
    <3>. QED BY <3>5
  <2>3. Len(SymtabOrder) \in Nat /\ IsFiniteSet(DOMAIN SymtabOrder)
    BY <2>2, FS_Interval
  <2>4. Cardinality(names) \in Nat
    <3>1. IsFiniteSet({SymtabOrder[k].name : k \in DOMAIN SymtabOrder})
      <4>. DEFINE T == {SymtabOrder[k].name : k \in DOMAIN SymtabOrder}
                  f == [k \in 1..Len(SymtabOrder) |-> SymtabOrder[k].name]
      <4>1. DOMAIN SymtabOrder = 1..Len(SymtabOrder)
        BY <2>2
      <4>2. f \in Surjection(1..Len(SymtabOrder), T)
        BY <4>1 DEF Surjection
      <4>3. ExistsSurjection(1..Len(SymtabOrder), T)
        BY <4>2 DEF ExistsSurjection
      <4>. HIDE DEF T, f
      <4>4. IsFiniteSet(T)
        BY <2>3, <4>3, FS_NatSurjection
      <4>. QED BY <4>4 DEF T
    <3>. QED BY <3>1, FS_Subset, FS_CardinalityType
  <2>5. 1 + NAME * Cardinality(names) \in Nat /\ 24 * Len(SymtabOrder) \in Nat
    <3>. DEFINE n == Cardinality(names)
    <3>. HIDE DEF n, names
    <3>1. n \in Nat
      BY <2>4 DEF n
    <3>2. 1 + NAME * n \in Nat
      BY <3>1 DEF NAME
    <3>. QED BY <2>3, <3>2 DEF n
  <2>6. ".strtab" \in Names /\ ".symtab" \in Names
    BY Prefix DEF BaseNames
  <2>. HIDE DEF names
  <2>7. strtab \in [Names -> Header]
    BY <2>5, <2>6, DataHeaders DEF HeaderInv
  <2>. HIDE DEF strtab
  <2>8. symbols \in [Names -> Header]
    BY <2>5, <2>6, <2>7, DataHeaders
  <2>. HIDE DEF symbols
  <2>9. [symbols EXCEPT ![".symtab"].info = NumLocals] \in [Names -> Header]
    BY <2>6, <2>8, NumLocalsNat, HeaderUpdates
  <2>. QED BY <2>1, <2>9 DEF HeaderInv
<1>. QED BY <1>1, <1>2

LEMMA RelaHeaders == ASSUME TypeInv, BuildRelaRelocatable PROVE HeaderInv'
<1>. USE DEF TypeInv
<1>1. CASE hdr' = hdr
  BY <1>1 DEF HeaderInv
<1>2. CASE hdr' = [name \in Names |->
                     IF name \in DOMAIN rela /\ RelaEntries(name) # << >>
                       THEN [hdr[name] EXCEPT !.len = 24 * Len(RelaEntries(name)),
                                              !.size = 24 * Len(RelaEntries(name))]
                       ELSE hdr[name]]
  <2>1. ASSUME NEW name \in Names
        PROVE  [hdr[name] EXCEPT !.len = 24 * Len(RelaEntries(name)),
                                 !.size = 24 * Len(RelaEntries(name))] \in Header
    <3>. DEFINE relocs == Only(relocations, {reloc \in {relocations[k] : k \in DOMAIN relocations} :
                                               RelaOf(reloc.section) = name})
    <3>1. relocs \in Seq(Relocation)
      BY OnlyPlaces DEF RelocationInv
    <3>2. RelaEntries(name) =
            [k \in DOMAIN relocs |->
               [offset |-> relocs[k].offset, sym |-> getAnySymbol(relocs[k].name).index,
                type |-> relocs[k].type, addend |-> relocs[k].addend]]
      BY DEF RelaEntries
    <3>. HIDE DEF relocs
    <3>3. DOMAIN RelaEntries(name) = DOMAIN relocs
      BY <3>2
    <3>4. DOMAIN relocs = 1..Len(relocs) /\ Len(relocs) \in Nat
      BY <3>1
    <3>5. Len(RelaEntries(name)) = Len(relocs)
      <4>. DEFINE entries == [k \in 1..Len(relocs) |->
               [offset |-> relocs[k].offset, sym |-> getAnySymbol(relocs[k].name).index,
                type |-> relocs[k].type, addend |-> relocs[k].addend]]
      <4>1. RelaEntries(name) = entries
        BY <3>2, <3>4
      <4>2. Len(entries) = Len(relocs)
        BY <3>4
      <4>. QED BY <4>1, <4>2
    <3>6. 24 * Len(RelaEntries(name)) \in Nat
      BY <3>4, <3>5
    <3>7. hdr[name] \in Header
      BY DEF HeaderInv
    <3>. QED BY <3>6, <3>7, HeaderFields
  <2>2. \A name \in Names : hdr[name] \in Header
    BY DEF HeaderInv
  <2>. QED BY <1>2, <2>1, <2>2, Zenon DEF HeaderInv
<1>. QED BY <1>1, <1>2 DEF BuildRelaRelocatable

LEMMA HeaderStep == ASSUME TypeInv, Next PROVE HeaderInv'
<1>. USE DEF TypeInv
<1>1. CASE TranslateVariable
  <2>. DEFINE start == Layout!AlignTo(hdr[Item.section].len, AlignOf(Item.section))
  <2>1. /\ hdr' = [hdr EXCEPT ![Item.section].len = start + Item.size]
        /\ item \in DOMAIN Items /\ Item.kind = "var"
    <3>1. hdr' = [hdr EXCEPT ![Item.section].len = start + Item.size]
      BY <1>1, Zenon DEF TranslateVariable
    <3>. QED BY <1>1, <3>1, ProgramsAssumption
             DEF TranslateVariable, Translating, Items, DriverInv, Reached
  <2>2. Item.section \in Names /\ Item.size \in Nat
    <3>1. Item \in Variable
      BY <2>1, ProgramType DEF Item, DriverInv
    <3>. QED BY <3>1, Prefix DEF Variable, BaseNames
  <2>3. start + Item.size \in Nat
    <3>1. hdr[Item.section].len \in Nat
      BY <2>2, HeaderFields DEF HeaderInv
    <3>2. start \in Nat
      BY <3>1, AlignFacts
    <3>. HIDE DEF start
    <3>. QED BY <2>2, <3>2
  <2>. HIDE DEF start
  <2>. QED BY <2>1, <2>2, <2>3, HeaderUpdates DEF HeaderInv
<1>2. CASE TranslateModinfo
  <2>1. /\ hdr' = Grown(hdr, ".modinfo", Item.size)
        /\ item \in DOMAIN Items /\ Item.kind = "modinfo"
    BY <1>2, ProgramsAssumption DEF TranslateModinfo, Translating, Items, DriverInv, Reached
  <2>2. Item.size \in Nat
    <3>1. Item \in Modinfo
      BY <2>1, ProgramType DEF Item, DriverInv
    <3>. QED BY <3>1 DEF Modinfo
  <2>3. ".modinfo" \in Names
    BY NameFacts DEF AddedSections
  <2>. QED BY <2>1, <2>2, <2>3, DataHeaders DEF HeaderInv
<1>3. CASE StartFunction \/ TranslateReference
  <2>1. hdr' = hdr \/ \E name : requireSymbol(name)
    BY <1>3, Zenon DEF StartFunction, TranslateReference, sectionVars
  <2>. QED BY <2>1, RequireHeaders DEF HeaderInv
<1>4. CASE SkipFunction \/ FinishFunction \/ StartAppend \/ FinishAppend \/ NoInitFunction
  BY <1>4 DEF SkipFunction, FinishFunction, StartAppend, FinishAppend, NoInitFunction, sectionVars,
     HeaderInv
<1>5. CASE AppendFunction
  <2>. DEFINE fn == Ordered[item].fn
  <2>1. hdr' = Grown(hdr, TargetSection(fn), fn.size) /\ stage = "append" /\ item <= Len(fnMap)
    BY <1>5 DEF AppendFunction
  <2>2. item \in DOMAIN Ordered
    BY <2>1, OrderedFacts DEF OrderedOnce, DriverInv, Reached
  <2>3. PICK k \in DOMAIN fnMap : fn = fnMap[k].fn
    BY <2>2, OrderedFacts DEF OrderedOnce
  <2>4. fn.size \in Nat
    BY <2>3, FunctionFacts DEF Function
  <2>5. TargetSection(fn) \in Names
    BY Prefix DEF TargetSection, BaseNames
  <2>. QED BY <2>1, <2>4, <2>5, DataHeaders DEF HeaderInv
<1>6. CASE CreateThisModule
  <2>1. ".gnu.linkonce.this_module" \in Names /\ MODULESIZE \in Nat
    BY NameFacts DEF AddedSections, MODULESIZE
  <2>. QED BY <1>6, <2>1, DataHeaders DEF CreateThisModule, HeaderInv
<1>7. CASE CreateVersions
  <2>. DEFINE external == Only(dynamicSymbols, {sym \in SymbolsIn(dynamicSymbols) : sym.section = Undefined})
  <2>1. external \in Seq(SymbolRecord)
    BY OnlyPlaces DEF SymbolInv
  <2>2. hdr' = hdr \/ hdr' = Grown(hdr, "__versions", Len(external) * (8 + NAME))
    BY <1>7, Zenon DEF CreateVersions, sectionVars
  <2>. HIDE DEF external
  <2>3. "__versions" \in Names /\ Len(external) * (8 + NAME) \in Nat
    BY <2>1, NameFacts DEF AddedSections, NAME
  <2>. QED BY <2>2, <2>3, DataHeaders DEF HeaderInv
<1>8. CASE PrepareDynamic
  BY <1>8, PrepareHeaders
<1>9. CASE UpdateInitialSectionSizes
  BY <1>9, SizesFacts DEF UpdateInitialSectionSizes, HeaderInv
<1>10. CASE AssignSymbolIndices
  <2>1. hdr' = hdr \/ hdr' = [hdr EXCEPT ![".symtab"].info = NumLocals]
    BY <1>10, Zenon DEF AssignSymbolIndices
  <2>2. ".symtab" \in Names
    BY Prefix DEF BaseNames
  <2>. QED BY <2>1, <2>2, NumLocalsNat, HeaderUpdates DEF HeaderInv
<1>11. CASE BuildFinalSymtabData
  BY <1>11, SymtabHeaders
<1>12. CASE BuildRelaRelocatable
  BY <1>12, RelaHeaders
<1>13. CASE FinalizeSizes
  <2>1. ".shstrtab" \in Names
    BY Prefix DEF BaseNames
  <2>2. hdr' = WithData(SizesFromData, ".shstrtab", 1 + NAME * (Len(requiredSections) - 1))
    BY <1>13 DEF FinalizeSizes
  <2>3. 1 + NAME * (Len(requiredSections) - 1) \in Nat
    <3>1. stage \in Collected
      BY <1>13 DEF FinalizeSizes, Pass, Collected
    <3>2. \E k \in DOMAIN requiredSections : requiredSections[k] = ""
      BY <3>1 DEF FileInv, Listed
    <3>3. Len(requiredSections) \in Nat /\ Len(requiredSections) > 0
      <4>1. requiredSections \in Seq(Names)
        BY DEF FileInv
      <4>2. Len(requiredSections) \in Nat /\ DOMAIN requiredSections = 1..Len(requiredSections)
        BY <4>1
      <4>3. PICK k \in DOMAIN requiredSections : TRUE
        BY <3>2
      <4>4. k \in Nat /\ 1 <= k /\ k <= Len(requiredSections)
        BY <4>2
      <4>. QED BY <4>2, <4>4
    <3>. QED BY <3>3 DEF NAME
  <2>. QED BY <2>1, <2>2, <2>3, SizesFacts, DataHeaders DEF HeaderInv
<1>14. CASE SetSectionLinks
  BY <1>14, LinkedFacts DEF SetSectionLinks, HeaderInv
<1>15. CASE \/ PrepareRelocatable \/ CollectSections \/ BuildRelaDynamic \/ FinalizeLayout \/ LayoutDone
            \/ PatchSymbolTableAddresses \/ PatchDynSymAddresses \/ PatchDynamicSection
            \/ PatchTextRelocations \/ AssembleFinalElf \/ Finish
  BY <1>15 DEF PrepareRelocatable, CollectSections, BuildRelaDynamic, FinalizeLayout, LayoutDone,
     PatchSymbolTableAddresses, PatchDynSymAddresses, PatchDynamicSection, PatchTextRelocations,
     AssembleFinalElf, Finish, sectionVars, linkVars, HeaderInv
<1>. QED BY <1>1, <1>2, <1>3, <1>4, <1>5, <1>6, <1>7, <1>8, <1>9, <1>10, <1>11, <1>12, <1>13, <1>14, <1>15
     DEF Next, Translate, Compile

(* Pass 2 lists every required section once.                                *)
LEMMA OnlyListed ==
  ASSUME NEW s \in Seq(Names), NoTwice(s), NEW set
  PROVE  /\ Only(s, set) \in Seq(Names) /\ NoTwice(Only(s, set))
         /\ Listed(Only(s, set)) = Listed(s) \cap set
<1>. DEFINE t == Only(s, set)
<1>1. t \in Seq(Names)
  BY OnlyPlaces
<1>2. PICK p : Places(t, s, Len(s), set, p)
  BY OnlyPlaces
<1>. HIDE DEF t
<1>3. DOMAIN s = 1..Len(s) /\ \A k \in DOMAIN t : k \in Nat
  BY <1>1
<1>4. /\ \A i \in DOMAIN t : p[i] \in DOMAIN s /\ t[i] = s[p[i]] /\ t[i] \in set
      /\ \A i, j \in DOMAIN t : i < j => p[i] < p[j]
      /\ \A k \in DOMAIN s : s[k] \in set => \E i \in DOMAIN t : p[i] = k
  BY <1>2, <1>3 DEF Places
<1>5. NoTwice(t)
  <2>1. SUFFICES ASSUME NEW i \in DOMAIN t, NEW j \in DOMAIN t, t[i] = t[j] PROVE i = j
    BY DEF NoTwice
  <2>2. p[i] = p[j] /\ p[i] \in Nat
    BY <1>3, <1>4, <2>1 DEF NoTwice
  <2>3. ~(i < j) /\ ~(j < i)
    BY <1>3, <1>4, <2>2
  <2>. QED BY <1>3, <2>3
<1>6. Listed(t) = Listed(s) \cap set
  BY <1>4 DEF Listed
<1>. QED BY <1>1, <1>5, <1>6 DEF t

LEMMA RequiredSectionsFacts ==
  ASSUME SectionInv
  PROVE  /\ RequiredSections \in Seq(Names) /\ NoTwice(RequiredSections)
         /\ Listed(RequiredSections) = required
<1>. DEFINE all == Only(sections, required)
            Rank(r) == {name \in required : TypeRank(name) = r}
            OfRank(r) == Only(all, Rank(r))
<1>1. all \in Seq(Names) /\ NoTwice(all) /\ Listed(all) = required
  <2>1. sections \in Seq(Names) /\ NoTwice(sections) /\ required \subseteq Listed(sections)
    BY DEF SectionInv
  <2>2. all \in Seq(Names) /\ NoTwice(all) /\ Listed(all) = Listed(sections) \cap required
    BY <2>1, OnlyListed, Zenon
  <2>. HIDE DEF all
  <2>. QED BY <2>1, <2>2
<1>2. CASE format # "ko"
  BY <1>1, <1>2 DEF RequiredSections
<1>3. CASE format = "ko"
  <2>1. RequiredSections =
          OfRank(0) \o OfRank(1) \o OfRank(2) \o OfRank(3) \o OfRank(4) \o OfRank(8)
    BY <1>3 DEF RequiredSections
  <2>2. \A name : TypeRank(name) \in {0, 1, 2, 3, 4, 8}
    BY DEF TypeRank
  <2>. HIDE DEF all
  <2>3. \A r : Rank(r) \subseteq required
    OBVIOUS
  <2>4. required = Rank(0) \cup Rank(1) \cup Rank(2) \cup Rank(3) \cup Rank(4) \cup Rank(8)
    BY <2>2
  <2>5. \A r, other : r # other => Rank(r) \cap Rank(other) = {}
    OBVIOUS
  <2>. HIDE DEF Rank
  <2>6. \A r : OfRank(r) \in Seq(Names) /\ NoTwice(OfRank(r)) /\ Listed(OfRank(r)) = Rank(r)
    BY <1>1, <2>3, OnlyListed
  <2>. HIDE DEF OfRank
  <2>7. ASSUME NEW s \in Seq(Names), NoTwice(s), NEW r, Listed(s) \cap Rank(r) = {}
        PROVE  /\ s \o OfRank(r) \in Seq(Names) /\ NoTwice(s \o OfRank(r))
               /\ Listed(s \o OfRank(r)) = Listed(s) \cup Rank(r)
    <3>1. \A k \in DOMAIN OfRank(r) : OfRank(r)[k] \notin Listed(s)
      <4>1. \A k \in DOMAIN OfRank(r) : OfRank(r)[k] \in Listed(OfRank(r))
        BY DEF Listed
      <4>. QED BY <4>1, <2>6, <2>7
    <3>. QED BY <2>6, <2>7, <3>1, JoinFacts
  <2>. DEFINE s1 == OfRank(0) \o OfRank(1)
              s2 == s1 \o OfRank(2)
              s3 == s2 \o OfRank(3)
              s4 == s3 \o OfRank(4)
              s5 == s4 \o OfRank(8)
  <2>8. s1 \in Seq(Names) /\ NoTwice(s1) /\ Listed(s1) = Rank(0) \cup Rank(1)
    BY <2>5, <2>6, <2>7
  <2>. HIDE DEF s1
  <2>9. s2 \in Seq(Names) /\ NoTwice(s2) /\ Listed(s2) = Rank(0) \cup Rank(1) \cup Rank(2)
    <3>1. Listed(s1) \cap Rank(2) = {}
      BY <2>5, <2>8
    <3>. QED BY <3>1, <2>7, <2>8
  <2>. HIDE DEF s2
  <2>10. s3 \in Seq(Names) /\ NoTwice(s3)
         /\ Listed(s3) = Rank(0) \cup Rank(1) \cup Rank(2) \cup Rank(3)
    <3>1. Listed(s2) \cap Rank(3) = {}
      BY <2>5, <2>9
    <3>. QED BY <3>1, <2>7, <2>9
  <2>. HIDE DEF s3
  <2>11. s4 \in Seq(Names) /\ NoTwice(s4)
         /\ Listed(s4) = Rank(0) \cup Rank(1) \cup Rank(2) \cup Rank(3) \cup Rank(4)
    <3>1. Listed(s3) \cap Rank(4) = {}
      BY <2>5, <2>10
    <3>. QED BY <3>1, <2>7, <2>10
  <2>. HIDE DEF s4
  <2>12. s5 \in Seq(Names) /\ NoTwice(s5) /\ Listed(s5) = required
    <3>1. Listed(s4) \cap Rank(8) = {}
      BY <2>5, <2>11
    <3>. QED BY <3>1, <2>4, <2>7, <2>11
  <2>. QED BY <2>1, <2>12 DEF s5, s4, s3, s2, s1
<1>. QED BY <1>2, <1>3

-----------------------------------------------------------------------------
(* The functions appended so far.                                           *)
LEMMA AppendedFacts ==
  ASSUME DriverInv
  PROVE  /\ Appended \in Nat /\ Appended <= Len(fnMap) /\ 1..Appended \subseteq DOMAIN Ordered
         /\ Len(fnMap) \in Nat /\ DOMAIN Ordered = 1..Len(fnMap)
<1>1. Len(fnMap) \in Nat /\ item \in Nat \ {0} /\ (stage = "append" => item <= Len(fnMap) + 1)
  BY DEF DriverInv, Finished, Reached
<1>2. Appended \in Nat /\ Appended <= Len(fnMap)
  BY <1>1 DEF Appended
<1>3. DOMAIN Ordered = 1..Len(fnMap)
  <2>1. Ordered \in Seq(Translated) /\ Len(Ordered) = Len(fnMap)
    BY OrderedFacts DEF OrderedOnce
  <2>. QED BY <2>1
<1>. QED BY <1>1, <1>2, <1>3

LEMMA AppendedStep ==
  ASSUME DriverInv, Next
  PROVE  /\ prog' = prog /\ format' = format /\ Items' = Items
         /\ \/ stage = "translate" /\ stage' = "translate"
            \/ AppendFunction /\ stage = "append" /\ fnMap' = fnMap /\ item <= Len(fnMap)
               /\ Appended = item - 1 /\ Appended' = item /\ Ordered' = Ordered
            \/ ~AppendFunction /\ fnMap' = fnMap /\ Appended' = Appended /\ Ordered' = Ordered
               /\ stage' # "translate"
<1>1. Len(fnMap) \in Nat /\ item \in Nat \ {0} /\ (stage = "append" => item <= Len(fnMap) + 1)
  BY DEF DriverInv, Finished, Reached
<1>2. fnMap' = fnMap => Ordered' = Ordered
  BY DEF Ordered, Mains, Others
<1>3. prog' = prog => Items' = Items
  BY DEF Items
<1>4. CASE TranslateVariable \/ TranslateModinfo \/ SkipFunction \/ StartFunction \/ TranslateReference
           \/ FinishFunction
  BY <1>3, <1>4 DEF TranslateVariable, TranslateModinfo, SkipFunction, StartFunction,
     TranslateReference, FinishFunction, Translating, fileVars
<1>5. CASE StartAppend
  <2>1. /\ prog' = prog /\ format' = format /\ fnMap' = fnMap /\ item' = 1
        /\ stage = "translate" /\ stage' = "append"
    BY <1>5 DEF StartAppend, fileVars
  <2>2. ~AppendFunction
    BY <2>1 DEF AppendFunction
  <2>. QED BY <1>2, <1>3, <2>1, <2>2 DEF Appended
<1>6. CASE AppendFunction
  <2>1. /\ prog' = prog /\ format' = format /\ fnMap' = fnMap /\ item' = item + 1
        /\ stage = "append" /\ stage' = "append" /\ item <= Len(fnMap)
    BY <1>6 DEF AppendFunction, fileVars
  <2>2. Appended = item - 1 /\ Appended' = item
    BY <1>1, <2>1 DEF Appended
  <2>. QED BY <1>2, <1>3, <1>6, <2>1, <2>2
<1>7. CASE FinishAppend
  <2>1. /\ prog' = prog /\ format' = format /\ fnMap' = fnMap /\ item' = item /\ item > Len(fnMap)
        /\ stage = "append" /\ stage' \in {"module", "prepare"}
    BY <1>7 DEF FinishAppend, fileVars, driverVars
  <2>2. ~AppendFunction
    BY <1>1, <2>1 DEF AppendFunction
  <2>. QED BY <1>1, <1>2, <1>3, <2>1, <2>2 DEF Appended
<1>8. CASE CreateThisModule \/ NoInitFunction \/ CreateVersions \/ Compile
  <2>1. /\ prog' = prog /\ format' = format /\ fnMap' = fnMap
        /\ stage \notin {"translate", "append"} /\ stage' \notin {"translate", "append"}
    <3>1. CASE CreateThisModule
      BY <3>1 DEF CreateThisModule, fileVars, driverVars
    <3>2. CASE NoInitFunction
      BY <3>2 DEF NoInitFunction, fileVars, driverVars
    <3>3. CASE CreateVersions
      BY <3>3 DEF CreateVersions, fileVars, driverVars
    <3>4. CASE Compile
      BY <3>4, Passes DEF driverVars
    <3>. QED BY <1>8, <3>1, <3>2, <3>3, <3>4
  <2>2. ~AppendFunction
    BY <2>1 DEF AppendFunction
  <2>. QED BY <1>2, <1>3, <2>1, <2>2 DEF Appended
<1>. QED BY <1>4, <1>5, <1>6, <1>7, <1>8 DEF Next, Translate

LEMMA DefinedGrows ==
  ASSUME DriverInv, Next
  PROVE  Defined \subseteq Defined'
<1>1. prog' = prog /\ format' = format /\ Items' = Items
  BY AppendedStep
<1>2. {Ordered[n].fn.name : n \in 1..Appended} \subseteq {Ordered[n].fn.name : n \in 1..Appended}'
  <2>1. CASE stage = "translate"
    BY <2>1 DEF Appended
  <2>2. CASE AppendFunction /\ Appended = item - 1 /\ Appended' = item /\ Ordered' = Ordered
    <3>1. item \in Nat
      BY DEF DriverInv, Reached
    <3>2. \A n \in 1..Appended : n \in 1..Appended'
      BY <2>2, <3>1
    <3>. QED BY <2>2, <3>2
  <2>3. CASE Appended' = Appended /\ Ordered' = Ordered
    BY <2>3
  <2>. QED BY <2>1, <2>2, <2>3, AppendedStep
<1>. QED BY <1>1, <1>2 DEF Defined

(* Where a symbol is: a local symbol hides the dynamic one of its name.     *)
IsAt(s, name, section, offset) ==
  \E k \in DOMAIN s : s[k].name = name /\ s[k].section = section /\ s[k].offset = offset
Located(name, section, offset) ==
  IF name \in NamesIn(localSymbols) THEN IsAt(localSymbols, name, section, offset)
                                    ELSE IsAt(dynamicSymbols, name, section, offset)

LEMMA LocatedFound ==
  ASSUME SymbolInv, NEW name, NEW section, NEW offset, Located(name, section, offset)
  PROVE  /\ Known(name) /\ getAnySymbol(name).section = section
         /\ getAnySymbol(name).offset = offset
<1>. USE DEF SymbolInv
<1>1. CASE name \in NamesIn(localSymbols)
  BY <1>1, FindFacts DEF Known, getAnySymbol, Located, IsAt, NamesOnce
<1>2. CASE name \notin NamesIn(localSymbols)
  <2>1. name \in NamesIn(dynamicSymbols)
    BY <1>2 DEF Located, IsAt, NamesIn
  <2>. QED BY <1>2, <2>1, FindFacts DEF Known, getAnySymbol, Located, IsAt, NamesOnce
<1>. QED BY <1>1, <1>2

LEMMA KnownType ==
  ASSUME SymbolInv, NEW name, Known(name)
  PROVE  getAnySymbol(name) \in SymbolRecord
<1>. USE DEF SymbolInv
<1>1. CASE name \in NamesIn(localSymbols)
  BY <1>1, FindFacts DEF getAnySymbol
<1>2. CASE name \notin NamesIn(localSymbols)
  BY <1>2, FindFacts DEF Known, getAnySymbol
<1>. QED BY <1>1, <1>2

LEMMA PutSymbol ==
  ASSUME NEW s \in Seq(SymbolRecord), NEW sym \in SymbolRecord, NamesOnce(s)
  PROVE  /\ Put(s, sym) \in Seq(SymbolRecord) /\ NamesOnce(Put(s, sym))
         /\ NamesIn(Put(s, sym)) = NamesIn(s) \cup {sym.name}
         /\ IsAt(Put(s, sym), sym.name, sym.section, sym.offset)
         /\ \A name, section, offset :
              name # sym.name /\ IsAt(s, name, section, offset)
                => IsAt(Put(s, sym), name, section, offset)
<1>1. /\ Put(s, sym) \in Seq(SymbolRecord) /\ NamesOnce(Put(s, sym))
      /\ NamesIn(Put(s, sym)) = NamesIn(s) \cup {sym.name}
      /\ \E k \in DOMAIN Put(s, sym) : Put(s, sym)[k] = sym
      /\ \A k \in DOMAIN s : s[k].name # sym.name =>
           k \in DOMAIN Put(s, sym) /\ Put(s, sym)[k] = s[k]
  BY PutFacts
<1>. DEFINE t == Put(s, sym)
<1>. HIDE DEF t
<1>2. IsAt(t, sym.name, sym.section, sym.offset)
  BY <1>1 DEF IsAt, t
<1>3. \A name, section, offset :
        name # sym.name /\ IsAt(s, name, section, offset) => IsAt(t, name, section, offset)
  BY <1>1 DEF IsAt, t
<1>. QED BY <1>1, <1>2, <1>3 DEF t

LEMMA SymbolAdded ==
  ASSUME SymbolInv, NEW sym \in SymbolRecord, addSymbol(sym), sym.type \in {"FUNC", "OBJECT"},
         dynamicLinkEnabled' = dynamicLinkEnabled, format' = format,
         Defined \subseteq Defined', sym.name \in Defined'
  PROVE  /\ SymbolInv'
         /\ sym.name \notin NamesIn(localSymbols) => Located(sym.name, sym.section, sym.offset)'
         /\ \A name, section, offset :
              name # sym.name /\ Located(name, section, offset) => Located(name, section, offset)'
<1>1. /\ localSymbols \in Seq(SymbolRecord) /\ NamesOnce(localSymbols)
      /\ dynamicSymbols \in Seq(SymbolRecord) /\ NamesOnce(dynamicSymbols)
      /\ dynSymEntries \in Seq(DynEntry) /\ NamesOnce(dynSymEntries)
      /\ NamesIn(dynSymEntries) \subseteq NamesIn(dynamicSymbols)
      /\ NamesIn(localSymbols) \cup NamesIn(dynSymEntries) \subseteq Defined
      /\ dynamicLinkEnabled \in BOOLEAN /\ (dynamicLinkEnabled => format # "ko")
      /\ (dynSymEntries # << >> => dynamicLinkEnabled)
  BY DEF SymbolInv
<1>2. ASSUME NEW s \in Seq(SymbolRecord), NamesOnce(s), NEW new \in SymbolRecord, new.name = sym.name,
             new.section = sym.section, new.offset = sym.offset
      PROVE  /\ Put(s, new) \in Seq(SymbolRecord) /\ NamesOnce(Put(s, new))
             /\ NamesIn(Put(s, new)) = NamesIn(s) \cup {sym.name}
             /\ IsAt(Put(s, new), sym.name, sym.section, sym.offset)
             /\ \A name, section, offset :
                  name # sym.name /\ IsAt(s, name, section, offset) => IsAt(Put(s, new), name, section, offset)
  BY <1>2, PutSymbol
<1>3. CASE ~Exported(sym)
  <2>1. /\ localSymbols' = Put(localSymbols, sym) /\ dynamicSymbols' = dynamicSymbols
        /\ dynSymEntries' = dynSymEntries
    BY <1>3 DEF addSymbol
  <2>2. /\ localSymbols' \in Seq(SymbolRecord) /\ NamesOnce(localSymbols')
        /\ NamesIn(localSymbols') = NamesIn(localSymbols) \cup {sym.name}
        /\ IsAt(localSymbols', sym.name, sym.section, sym.offset)
        /\ \A name, section, offset :
             name # sym.name /\ IsAt(localSymbols, name, section, offset)
               => IsAt(localSymbols', name, section, offset)
    BY <1>1, <1>2, <2>1
  <2>3. SymbolInv'
    BY <1>1, <2>1, <2>2 DEF SymbolInv
  <2>4. Located(sym.name, sym.section, sym.offset)'
    BY <2>2 DEF Located
  <2>5. \A name, section, offset :
          name # sym.name /\ Located(name, section, offset) => Located(name, section, offset)'
    BY <2>1, <2>2 DEF Located
  <2>. QED BY <2>3, <2>4, <2>5
<1>4. CASE Exported(sym)
  <2>1. PICK new \in SymbolRecord :
          /\ new.name = sym.name /\ new.section = sym.section /\ new.offset = sym.offset
          /\ localSymbols' = localSymbols /\ dynamicSymbols' = Put(dynamicSymbols, new)
          /\ \/ sym.name \notin NamesIn(dynSymEntries)
                /\ dynSymEntries' = Append(dynSymEntries, [name |-> sym.name, type |-> sym.type])
             \/ sym.name \in NamesIn(dynSymEntries) /\ dynSymEntries' = dynSymEntries
    <3>1. CASE sym.name \notin NamesIn(dynSymEntries)
      BY <1>4, <3>1 DEF addSymbol
    <3>2. CASE sym.name \in NamesIn(dynSymEntries)
      <4>. DEFINE old == Find(dynamicSymbols, sym.name)
                  new == [sym EXCEPT !.type = old.type, !.index = old.index]
      <4>1. old \in SymbolRecord
        BY <1>1, <3>2, FindFacts
      <4>2. new \in SymbolRecord /\ new.name = sym.name /\ new.section = sym.section
            /\ new.offset = sym.offset
        BY <4>1 DEF SymbolRecord
      <4>3. localSymbols' = localSymbols /\ dynamicSymbols' = Put(dynamicSymbols, new)
            /\ dynSymEntries' = dynSymEntries
        BY <1>4, <3>2, Zenon DEF addSymbol
      <4>. HIDE DEF new
      <4>. QED BY <3>2, <4>2, <4>3
    <3>. QED BY <3>1, <3>2
  <2>2. /\ dynamicSymbols' \in Seq(SymbolRecord) /\ NamesOnce(dynamicSymbols')
        /\ NamesIn(dynamicSymbols') = NamesIn(dynamicSymbols) \cup {sym.name}
        /\ IsAt(dynamicSymbols', sym.name, sym.section, sym.offset)
        /\ \A name, section, offset :
             name # sym.name /\ IsAt(dynamicSymbols, name, section, offset)
               => IsAt(dynamicSymbols', name, section, offset)
    BY <1>1, <1>2, <2>1
  <2>3. /\ dynSymEntries' \in Seq(DynEntry) /\ NamesOnce(dynSymEntries')
        /\ NamesIn(dynSymEntries') = NamesIn(dynSymEntries) \cup {sym.name}
    <3>1. CASE sym.name \notin NamesIn(dynSymEntries)
      <4>. DEFINE added == [name |-> sym.name, type |-> sym.type]
      <4>1. added \in DynEntry /\ added.name = sym.name
        BY DEF DynEntry, SymbolRecord
      <4>. HIDE DEF added
      <4>2. dynSymEntries' = Append(dynSymEntries, added)
        BY <2>1, <3>1 DEF added
      <4>. QED BY <1>1, <3>1, <4>1, <4>2, AppendFacts
    <3>2. CASE sym.name \in NamesIn(dynSymEntries)
      BY <1>1, <2>1, <3>2
    <3>. QED BY <3>1, <3>2
  <2>4. dynamicLinkEnabled
    BY <1>4 DEF Exported
  <2>5. SymbolInv'
    BY <1>1, <2>1, <2>2, <2>3, <2>4 DEF SymbolInv
  <2>6. sym.name \notin NamesIn(localSymbols) => Located(sym.name, sym.section, sym.offset)'
    BY <2>1, <2>2 DEF Located
  <2>7. \A name, section, offset :
          name # sym.name /\ Located(name, section, offset) => Located(name, section, offset)'
    BY <2>1, <2>2 DEF Located
  <2>. QED BY <2>5, <2>6, <2>7
<1>. QED BY <1>3, <1>4

LEMMA SymbolRequired ==
  ASSUME SymbolInv, NEW name \in SymbolNames, requireSymbol(name), format' = format,
         Defined \subseteq Defined'
  PROVE  SymbolInv'
<1>1. /\ localSymbols \in Seq(SymbolRecord) /\ NamesOnce(localSymbols)
      /\ dynamicSymbols \in Seq(SymbolRecord) /\ NamesOnce(dynamicSymbols)
      /\ dynSymEntries \in Seq(DynEntry) /\ NamesOnce(dynSymEntries)
      /\ NamesIn(dynSymEntries) \subseteq NamesIn(dynamicSymbols)
      /\ NamesIn(localSymbols) \cup NamesIn(dynSymEntries) \subseteq Defined
      /\ dynamicLinkEnabled \in BOOLEAN /\ (dynamicLinkEnabled => format # "ko")
      /\ (dynSymEntries # << >> => dynamicLinkEnabled)
  BY DEF SymbolInv
<1>2. localSymbols' = localSymbols /\ dynSymEntries' = dynSymEntries
  BY DEF requireSymbol
<1>3. CASE Known(name)
  BY <1>1, <1>2, <1>3 DEF requireSymbol, SymbolInv
<1>4. CASE ~Known(name)
  <2>. DEFINE sym == Symbol(name, Undefined, 0, 0, "FUNC", "GLOBAL")
  <2>1. /\ dynamicSymbols' = Append(dynamicSymbols, sym)
        /\ \/ format = "ko" /\ dynamicLinkEnabled' = dynamicLinkEnabled
           \/ format # "ko" /\ dynamicLinkEnabled' = TRUE
    BY <1>4 DEF requireSymbol, EnableDynamicLinking
  <2>2. sym \in SymbolRecord /\ sym.name = name
    BY DEF Symbol, SymbolRecord
  <2>. HIDE DEF sym
  <2>3. name \notin NamesIn(dynamicSymbols)
    BY <1>4 DEF Known
  <2>4. /\ dynamicSymbols' \in Seq(SymbolRecord) /\ NamesOnce(dynamicSymbols')
        /\ NamesIn(dynamicSymbols') = NamesIn(dynamicSymbols) \cup {name}
    BY <1>1, <2>1, <2>2, <2>3, AppendFacts
  <2>5. NamesIn(dynSymEntries') \subseteq NamesIn(dynamicSymbols')
    BY <1>1, <1>2, <2>4
  <2>6. NamesIn(localSymbols') \cup NamesIn(dynSymEntries') \subseteq Defined'
    BY <1>1, <1>2
  <2>7. /\ dynamicLinkEnabled' \in BOOLEAN /\ (dynamicLinkEnabled' => format' # "ko")
        /\ (dynSymEntries' # << >> => dynamicLinkEnabled')
    <3>1. CASE format = "ko" /\ dynamicLinkEnabled' = dynamicLinkEnabled
      BY <1>1, <1>2, <3>1
    <3>2. CASE format # "ko" /\ dynamicLinkEnabled' = TRUE
      BY <3>2
    <3>. QED BY <2>1, <3>1, <3>2
  <2>8. /\ localSymbols' \in Seq(SymbolRecord) /\ NamesOnce(localSymbols')
        /\ dynSymEntries' \in Seq(DynEntry) /\ NamesOnce(dynSymEntries')
    BY <1>1, <1>2
  <2>. QED BY <2>4, <2>5, <2>6, <2>7, <2>8 DEF SymbolInv
<1>. QED BY <1>3, <1>4

LEMMA SymbolsKept ==
  ASSUME SymbolInv, UNCHANGED symbolVars, format' = format, Defined \subseteq Defined'
  PROVE  /\ SymbolInv'
         /\ \A name, section, offset :
              Located(name, section, offset) => Located(name, section, offset)'
<1>1. /\ localSymbols' = localSymbols /\ dynamicSymbols' = dynamicSymbols
      /\ dynSymEntries' = dynSymEntries /\ dynamicLinkEnabled' = dynamicLinkEnabled
  BY DEF symbolVars
<1>2. SymbolInv'
  BY <1>1 DEF SymbolInv
<1>. QED BY <1>1, <1>2 DEF Located, IsAt

LEMMA SymbolsRenumbered ==
  ASSUME SymbolInv, Renumbered(localSymbols, localSymbols'), Renumbered(dynamicSymbols, dynamicSymbols'),
         dynSymEntries' = dynSymEntries, dynamicLinkEnabled' = dynamicLinkEnabled, format' = format,
         Defined \subseteq Defined'
  PROVE  /\ SymbolInv'
         /\ \A name, section, offset :
              Located(name, section, offset) => Located(name, section, offset)'
<1>1. /\ NamesIn(localSymbols') = NamesIn(localSymbols) /\ NamesIn(dynamicSymbols') = NamesIn(dynamicSymbols)
      /\ NamesOnce(localSymbols') /\ NamesOnce(dynamicSymbols')
      /\ localSymbols' \in Seq(SymbolRecord) /\ dynamicSymbols' \in Seq(SymbolRecord)
  BY RenumberedKeeps DEF SymbolInv, Renumbered
<1>2. SymbolInv'
  BY <1>1 DEF SymbolInv
<1>3. \A name, section, offset :
        /\ IsAt(localSymbols, name, section, offset) => IsAt(localSymbols', name, section, offset)
        /\ IsAt(dynamicSymbols, name, section, offset) => IsAt(dynamicSymbols', name, section, offset)
  BY DEF IsAt, Renumbered
<1>. QED BY <1>1, <1>2, <1>3 DEF Located

(* The symbols of .symtab are those of the program and others.              *)
AnySymbol == SymbolRecord \cup {UndefinedSymbol} \cup {SectionSymbol(name) : name \in Names}

LEMMA JoinSymbols ==
  ASSUME NEW s \in Seq(AnySymbol), NEW t \in Seq(AnySymbol)
  PROVE  s \o t \in Seq(AnySymbol) /\ Listed(s) \cup Listed(t) \subseteq Listed(s \o t)
<1>. DEFINE all == s \o t
<1>1. /\ all \in Seq(AnySymbol)
      /\ \A k \in DOMAIN s : k \in DOMAIN all /\ all[k] = s[k]
      /\ \A k \in DOMAIN t : Len(s) + k \in DOMAIN all /\ all[Len(s) + k] = t[k]
  OBVIOUS
<1>. HIDE DEF all
<1>2. Listed(s) \subseteq Listed(all)
  BY <1>1, Zenon DEF Listed
<1>3. Listed(t) \subseteq Listed(all)
  BY <1>1, Zenon DEF Listed
<1>. QED BY <1>1, <1>2, <1>3 DEF all

LEMMA SymtabType ==
  ASSUME SectionInv, SymbolInv
  PROVE  /\ SymtabOrder \in Seq(AnySymbol)
         /\ Listed(localSymbols) \subseteq Listed(SymtabOrder)
         /\ \A k \in DOMAIN dynamicSymbols :
              ~Shadowed(dynamicSymbols[k]) => dynamicSymbols[k] \in Listed(SymtabOrder)
<1>1. SectionSymbols \in Seq(AnySymbol)
  <2>. DEFINE named == Only(sections, required \ {""})
  <2>1. named \in Seq(Names)
    BY OnlyPlaces DEF SectionInv
  <2>2. SectionSymbols = [k \in DOMAIN named |-> SectionSymbol(named[k])]
    BY DEF SectionSymbols
  <2>. HIDE DEF named
  <2>3. DOMAIN named = 1..Len(named) /\ Len(named) \in Nat /\ \A k \in DOMAIN named : named[k] \in Names
    BY <2>1
  <2>4. \A k \in DOMAIN named : SectionSymbol(named[k]) \in AnySymbol
    BY <2>3 DEF AnySymbol
  <2>. QED BY <2>2, <2>3, <2>4
<1>2. localSymbols \in Seq(SymbolRecord) /\ dynamicSymbols \in Seq(SymbolRecord)
  BY DEF SymbolInv
<1>. DEFINE visible == {sym \in SymbolsIn(dynamicSymbols) : ~Shadowed(sym)}
<1>3. VisibleSymbols \in Seq(SymbolRecord)
  BY <1>2, OnlyPlaces DEF VisibleSymbols
<1>4. PICK p : Places(VisibleSymbols, dynamicSymbols, Len(dynamicSymbols), visible, p)
  BY <1>2, OnlyPlaces DEF VisibleSymbols
<1>5. ASSUME NEW k \in DOMAIN dynamicSymbols, ~Shadowed(dynamicSymbols[k])
      PROVE  dynamicSymbols[k] \in Listed(VisibleSymbols)
  <2>1. dynamicSymbols[k] \in visible /\ DOMAIN dynamicSymbols = 1..Len(dynamicSymbols)
    BY <1>2, <1>5 DEF SymbolsIn
  <2>. HIDE DEF visible
  <2>2. PICK i \in DOMAIN VisibleSymbols : p[i] = k
    BY <1>4, <2>1 DEF Places
  <2>3. VisibleSymbols[i] = dynamicSymbols[k]
    BY <1>4, <2>2 DEF Places
  <2>. QED BY <2>3 DEF Listed
<1>6. /\ <<UndefinedSymbol>> \in Seq(AnySymbol) /\ localSymbols \in Seq(AnySymbol)
      /\ VisibleSymbols \in Seq(AnySymbol)
  <2>. DEFINE S == {UndefinedSymbol} \cup {SectionSymbol(name) : name \in Names}
  <2>1. AnySymbol = SymbolRecord \cup S /\ UndefinedSymbol \in S
    BY DEF AnySymbol
  <2>. HIDE DEF S
  <2>. QED BY <1>2, <1>3, <2>1
<1>. DEFINE s1 == <<UndefinedSymbol>> \o SectionSymbols
            s2 == s1 \o localSymbols
            s3 == s2 \o VisibleSymbols
<1>7. s1 \in Seq(AnySymbol)
  BY <1>1, <1>6, JoinSymbols
<1>. HIDE DEF s1
<1>8. s2 \in Seq(AnySymbol) /\ Listed(localSymbols) \subseteq Listed(s2)
  BY <1>6, <1>7, JoinSymbols
<1>. HIDE DEF s2
<1>9. /\ s3 \in Seq(AnySymbol) /\ Listed(s2) \subseteq Listed(s3)
      /\ Listed(VisibleSymbols) \subseteq Listed(s3)
  BY <1>6, <1>8, JoinSymbols
<1>10. SymtabOrder = s3
  BY DEF SymtabOrder, s1, s2
<1>. HIDE DEF s3
<1>. QED BY <1>5, <1>8, <1>9, <1>10

LEMMA FinalIndexType ==
  ASSUME SectionInv, SymbolInv, NEW sym \in Listed(SymtabOrder)
  PROVE  FinalIndex(sym) \in Int
<1>1. SymtabOrder \in Seq(AnySymbol)
  BY SymtabType
<1>. DEFINE i == CHOOSE k \in DOMAIN SymtabOrder : SymtabOrder[k] = sym
<1>2. i \in DOMAIN SymtabOrder
  BY DEF Listed
<1>. HIDE DEF i
<1>3. i \in Int
  BY <1>1, <1>2
<1>. QED BY <1>3 DEF FinalIndex, i

Reindexed(s, t) ==
  /\ t = [k \in DOMAIN s |-> t[k]]
  /\ \A k \in DOMAIN s : t[k] = s[k] \/ \E i \in Int : t[k] = [s[k] EXCEPT !.index = i]

LEMMA Renumbering ==
  ASSUME NEW s \in Seq(SymbolRecord), NEW t, Reindexed(s, t)
  PROVE  Renumbered(s, t)
<1>1. DOMAIN s = 1..Len(s) /\ Len(s) \in Nat /\ DOMAIN t = DOMAIN s /\ t = [k \in DOMAIN s |-> t[k]]
  BY Zenon, LenProperties DEF Reindexed
<1>2. ASSUME NEW k \in DOMAIN s
      PROVE  /\ t[k] \in SymbolRecord
             /\ t[k].name = s[k].name /\ t[k].section = s[k].section
             /\ t[k].offset = s[k].offset /\ t[k].binding = s[k].binding
  <2>. DEFINE r == s[k]
  <2>1. r \in SymbolRecord
    OBVIOUS
  <2>2. t[k] = r \/ \E i \in Int : t[k] = [r EXCEPT !.index = i]
    BY Zenon DEF Reindexed
  <2>. HIDE DEF r
  <2>3. \A i \in Int : /\ [r EXCEPT !.index = i] \in SymbolRecord
                       /\ [r EXCEPT !.index = i].name = r.name
                       /\ [r EXCEPT !.index = i].section = r.section
                       /\ [r EXCEPT !.index = i].offset = r.offset
                       /\ [r EXCEPT !.index = i].binding = r.binding
    BY <2>1 DEF SymbolRecord
  <2>4. /\ t[k] \in SymbolRecord
        /\ t[k].name = r.name /\ t[k].section = r.section
        /\ t[k].offset = r.offset /\ t[k].binding = r.binding
    BY <2>1, <2>2, <2>3
  <2>. QED BY <2>4 DEF r
<1>. QED BY <1>1, <1>2 DEF Renumbered

LEMMA RenumberStep ==
  ASSUME SectionInv, SymbolInv, FileInv,
         PrepareDynamic \/ AssignSymbolIndices \/ BuildFinalSymtabData \/ UNCHANGED symbolVars
  PROVE  /\ Renumbered(localSymbols, localSymbols') /\ Renumbered(dynamicSymbols, dynamicSymbols')
         /\ dynSymEntries' = dynSymEntries /\ dynamicLinkEnabled' = dynamicLinkEnabled
<1>1. localSymbols \in Seq(SymbolRecord) /\ dynamicSymbols \in Seq(SymbolRecord)
  BY DEF SymbolInv
<1>2. dynSymEntries' = dynSymEntries /\ dynamicLinkEnabled' = dynamicLinkEnabled
  BY DEF PrepareDynamic, AssignSymbolIndices, BuildFinalSymtabData, symbolVars
<1>3. /\ Renumbered(localSymbols, localSymbols) /\ Renumbered(dynamicSymbols, dynamicSymbols)
  BY <1>1 DEF Renumbered
<1>4. CASE PrepareDynamic
  <2>1. localSymbols' = localSymbols
    BY <1>4 DEF PrepareDynamic
  <2>2. CASE dynamicSymbols' = dynamicSymbols
    BY <1>2, <1>3, <2>1, <2>2
  <2>3. CASE dynamicSymbols' = [k \in DOMAIN dynamicSymbols |->
                                 [dynamicSymbols[k] EXCEPT !.index = DynIndex(dynamicSymbols[k])]]
    <3>1. ASSUME NEW k \in DOMAIN dynamicSymbols PROVE DynIndex(dynamicSymbols[k]) \in Int
      <4>1. dynSymEntries \in Seq(DynEntry)
        BY DEF SymbolInv
      <4>2. CASE dynamicSymbols[k].name \in NamesIn(dynSymEntries)
        <5>. DEFINE i == CHOOSE j \in DOMAIN dynSymEntries : dynSymEntries[j].name = dynamicSymbols[k].name
        <5>1. i \in DOMAIN dynSymEntries
          BY <4>2 DEF NamesIn
        <5>2. DynIndex(dynamicSymbols[k]) = i
          BY <4>2 DEF DynIndex
        <5>. HIDE DEF i
        <5>. QED BY <4>1, <5>1, <5>2
      <4>3. CASE dynamicSymbols[k].name \notin NamesIn(dynSymEntries)
        <5>1. dynamicSymbols[k].index \in Int
          <6>1. dynamicSymbols[k] \in SymbolRecord
            BY <1>1
          <6>2. \A sym \in SymbolRecord : sym.index \in Int
            BY DEF SymbolRecord
          <6>. QED BY <6>1, <6>2
        <5>. QED BY <4>3, <5>1 DEF DynIndex
      <4>. QED BY <4>2, <4>3
    <3>2. /\ dynamicSymbols' = [k \in DOMAIN dynamicSymbols |-> dynamicSymbols'[k]]
          /\ \A k \in DOMAIN dynamicSymbols :
               dynamicSymbols'[k] = [dynamicSymbols[k] EXCEPT !.index = DynIndex(dynamicSymbols[k])]
      BY <2>3, Zenon
    <3>3. Renumbered(dynamicSymbols, dynamicSymbols')
      <4>1. Reindexed(dynamicSymbols, dynamicSymbols')
        BY <3>1, <3>2, Zenon DEF Reindexed
      <4>. QED BY <1>1, <4>1, Renumbering
    <3>. QED BY <1>2, <1>3, <2>1, <3>3
  <2>. QED BY <1>4, <2>2, <2>3 DEF PrepareDynamic
<1>5. CASE AssignSymbolIndices
  <2>1. CASE localSymbols' = localSymbols /\ dynamicSymbols' = dynamicSymbols
    BY <1>2, <1>3, <2>1
  <2>2. CASE /\ localSymbols' = [k \in DOMAIN localSymbols |->
                 [localSymbols[k] EXCEPT !.index = NumSectionSymbols + k - 1]]
             /\ dynamicSymbols' = [k \in DOMAIN dynamicSymbols |->
                 [dynamicSymbols[k] EXCEPT !.index = NumLocals + k - 1]]
    <3>1. /\ localSymbols' = [k \in DOMAIN localSymbols |-> localSymbols'[k]]
          /\ \A k \in DOMAIN localSymbols :
               localSymbols'[k] = [localSymbols[k] EXCEPT !.index = NumSectionSymbols + k - 1]
      BY <2>2, Zenon
    <3>2. /\ dynamicSymbols' = [k \in DOMAIN dynamicSymbols |-> dynamicSymbols'[k]]
          /\ \A k \in DOMAIN dynamicSymbols :
               dynamicSymbols'[k] = [dynamicSymbols[k] EXCEPT !.index = NumLocals + k - 1]
      BY <2>2, Zenon
    <3>3. NumSectionSymbols \in Nat /\ NumLocals \in Nat
      BY NumLocalsNat
    <3>4. \A k \in Nat : NumSectionSymbols + k - 1 \in Int /\ NumLocals + k - 1 \in Int
      BY <3>3
    <3>5. (\A k \in DOMAIN localSymbols : k \in Nat) /\ (\A k \in DOMAIN dynamicSymbols : k \in Nat)
      BY <1>1
    <3>6. \A k \in DOMAIN localSymbols : NumSectionSymbols + k - 1 \in Int
      BY <3>4, <3>5
    <3>7. \A k \in DOMAIN dynamicSymbols : NumLocals + k - 1 \in Int
      BY <3>4, <3>5
    <3>8. Renumbered(localSymbols, localSymbols')
      <4>1. Reindexed(localSymbols, localSymbols')
        BY <3>1, <3>6, Zenon DEF Reindexed
      <4>. QED BY <1>1, <4>1, Renumbering
    <3>9. Renumbered(dynamicSymbols, dynamicSymbols')
      <4>1. Reindexed(dynamicSymbols, dynamicSymbols')
        BY <3>2, <3>7, Zenon DEF Reindexed
      <4>. QED BY <1>1, <4>1, Renumbering
    <3>. QED BY <1>2, <3>8, <3>9
  <2>. QED BY <1>5, <2>1, <2>2 DEF AssignSymbolIndices
<1>6. CASE BuildFinalSymtabData
  <2>1. CASE localSymbols' = localSymbols /\ dynamicSymbols' = dynamicSymbols
    BY <1>2, <1>3, <2>1
  <2>2. CASE /\ localSymbols' = [k \in DOMAIN localSymbols |->
                 [localSymbols[k] EXCEPT !.index = FinalIndex(localSymbols[k])]]
             /\ dynamicSymbols' = [k \in DOMAIN dynamicSymbols |->
                 IF Shadowed(dynamicSymbols[k]) THEN dynamicSymbols[k]
                 ELSE [dynamicSymbols[k] EXCEPT !.index = FinalIndex(dynamicSymbols[k])]]
    <3>1. /\ localSymbols' = [k \in DOMAIN localSymbols |-> localSymbols'[k]]
          /\ \A k \in DOMAIN localSymbols :
               localSymbols'[k] = [localSymbols[k] EXCEPT !.index = FinalIndex(localSymbols[k])]
      BY <2>2, Zenon
    <3>2. /\ dynamicSymbols' = [k \in DOMAIN dynamicSymbols |-> dynamicSymbols'[k]]
          /\ \A k \in DOMAIN dynamicSymbols :
               dynamicSymbols'[k] =
                 IF Shadowed(dynamicSymbols[k]) THEN dynamicSymbols[k]
                 ELSE [dynamicSymbols[k] EXCEPT !.index = FinalIndex(dynamicSymbols[k])]
      BY <2>2, Zenon
    <3>3. \A k \in DOMAIN localSymbols : FinalIndex(localSymbols[k]) \in Int
      <4>1. \A k \in DOMAIN localSymbols : localSymbols[k] \in Listed(SymtabOrder)
        BY SymtabType DEF Listed
      <4>. QED BY <4>1, FinalIndexType
    <3>4. \A k \in DOMAIN dynamicSymbols :
            ~Shadowed(dynamicSymbols[k]) => FinalIndex(dynamicSymbols[k]) \in Int
      BY SymtabType, FinalIndexType
    <3>5. Renumbered(localSymbols, localSymbols')
      <4>1. Reindexed(localSymbols, localSymbols')
        BY <3>1, <3>3, Zenon DEF Reindexed
      <4>. QED BY <1>1, <4>1, Renumbering
    <3>6. \A k \in DOMAIN dynamicSymbols :
            \/ dynamicSymbols'[k] = dynamicSymbols[k]
            \/ \E i \in Int : dynamicSymbols'[k] = [dynamicSymbols[k] EXCEPT !.index = i]
      BY <3>2, <3>4, Zenon
    <3>7. Renumbered(dynamicSymbols, dynamicSymbols')
      <4>1. Reindexed(dynamicSymbols, dynamicSymbols')
        BY <3>2, <3>6, Zenon DEF Reindexed
      <4>. QED BY <1>1, <4>1, Renumbering
    <3>. QED BY <1>2, <3>5, <3>7
  <2>. QED BY <1>6, <2>1, <2>2 DEF BuildFinalSymtabData
<1>7. CASE UNCHANGED symbolVars
  BY <1>2, <1>3, <1>7 DEF symbolVars
<1>. QED BY <1>4, <1>5, <1>6, <1>7

(* The code of the next function to be appended.                            *)
LEMMA NextFunction ==
  ASSUME TypeInv, AppendFunction
  PROVE  LET fn == Ordered[item].fn
         IN /\ item \in DOMAIN Ordered /\ item \in Nat
            /\ fn \in Function /\ Ordered[item].relocs \in Seq(BodyRelocation)
            /\ ~Skipped(fn) /\ TargetSection(fn) \in Relocated \cap Names
            /\ hdr[TargetSection(fn)] \in Header
            /\ format # "ko" => fn.name \notin NamesIn(localSymbols)
            /\ \A n \in 1..Appended : Ordered[n].fn.name # fn.name
<1>. DEFINE fn == Ordered[item].fn
<1>1. stage = "append" /\ item <= Len(fnMap) /\ item \in Nat /\ item > 0
  BY DEF AppendFunction, TypeInv, DriverInv, Reached
<1>2. OrderedOnce /\ DriverInv
  BY OrderedFacts DEF TypeInv
<1>3. DOMAIN Ordered = 1..Len(fnMap) /\ Len(fnMap) \in Nat
  BY <1>2, AppendedFacts
<1>4. item \in DOMAIN Ordered /\ Appended = item - 1
  BY <1>1, <1>3 DEF Appended
<1>5. PICK k \in DOMAIN fnMap : Ordered[item] = fnMap[k]
  BY <1>2, <1>4 DEF OrderedOnce
<1>6. /\ fn \in Function /\ Ordered[item].relocs \in Seq(BodyRelocation) /\ ~Skipped(fn)
      /\ \E j \in DOMAIN Items : Items[j].kind = "fn" /\ fn = Items[j]
  BY <1>2, <1>5, FunctionFacts
<1>7. TargetSection(fn) \in Relocated \cap Names
  BY Prefix DEF TargetSection, Relocated, BaseNames
<1>8. hdr[TargetSection(fn)] \in Header
  BY <1>7 DEF TypeInv, HeaderInv
<1>9. ASSUME NEW n \in 1..Appended PROVE Ordered[n].fn.name # fn.name
  <2>1. n \in DOMAIN Ordered /\ n # item
    BY <1>1, <1>3, <1>4
  <2>. QED BY <1>2, <1>4, <2>1 DEF OrderedOnce
<1>10. format # "ko" => fn.name \notin Defined
  <2>1. \A l \in DOMAIN Items : Items[l].kind = "var" => Items[l].name # fn.name
    BY <1>2, <1>6, OneName DEF DriverInv
  <2>. QED BY <1>9, <2>1 DEF Defined
<1>11. format # "ko" => fn.name \notin NamesIn(localSymbols)
  BY <1>10 DEF TypeInv, SymbolInv
<1>. QED BY <1>1, <1>4, <1>6, <1>7, <1>8, <1>9, <1>11

(* The lists of symbols keep their shape, and once the functions are being  *)
(* appended a symbol stays where it is.                                     *)
LEMMA SymbolStep ==
  ASSUME TypeInv, Next
  PROVE  /\ SymbolInv'
         /\ AppendFunction /\ format # "ko" =>
              \E name, section, start :
                /\ name = Ordered[item].fn.name /\ section = TargetSection(Ordered[item].fn)
                /\ start = hdr[section].len /\ Located(name, section, start)'
         /\ stage # "translate" /\ format # "ko" =>
              \A name, section, offset :
                /\ Located(name, section, offset)
                /\ AppendFunction => name # Ordered[item].fn.name
                => Located(name, section, offset)'
<1>1. DriverInv /\ SectionInv /\ HeaderInv /\ SymbolInv /\ FileInv
  BY DEF TypeInv
<1>2. Defined \subseteq Defined' /\ format' = format /\ Items' = Items
  BY <1>1, DefinedGrows, AppendedStep
<1>3. CASE TranslateVariable
  <2>. DEFINE start == Layout!AlignTo(hdr[Item.section].len, AlignOf(Item.section))
              sym == Symbol(Item.name, Item.section, start, Item.size, "OBJECT", Item.binding)
  <2>1. /\ addSymbol(sym) /\ item \in DOMAIN Items /\ Item.kind = "var" /\ stage = "translate"
        /\ dynamicLinkEnabled' = dynamicLinkEnabled
    BY <1>1, <1>3, ProgramsAssumption
       DEF TranslateVariable, Translating, Items, DriverInv, Reached
  <2>2. Item \in Variable
    BY <1>1, <2>1, ProgramType DEF Item, DriverInv
  <2>3. Item.section \in Names
    BY <2>2, Prefix DEF Variable, BaseNames
  <2>4. start \in Nat
    <3>1. hdr[Item.section].len \in Nat
      BY <1>1, <2>3, HeaderFields DEF HeaderInv
    <3>. QED BY <3>1, AlignFacts
  <2>. HIDE DEF start
  <2>5. /\ sym \in SymbolRecord /\ sym.type \in {"FUNC", "OBJECT"} /\ sym.name = Item.name
    BY <2>2, <2>3, <2>4 DEF Symbol, SymbolRecord, Variable
  <2>6. sym.name \in Defined'
    <3>1. sym.name \in Defined
      BY <2>1, <2>5 DEF Defined, Item
    <3>. QED BY <1>2, <3>1
  <2>. HIDE DEF sym
  <2>7. ~AppendFunction
    BY <2>1 DEF AppendFunction
  <2>. QED BY <1>1, <1>2, <2>1, <2>5, <2>6, <2>7, SymbolAdded
<1>4. CASE StartFunction \/ TranslateReference
  <2>1. /\ stage = "translate" /\ item \in DOMAIN Items /\ Item.kind = "fn"
        /\ \/ UNCHANGED symbolVars
           \/ requireSymbol(Item.name)
           \/ refs \in DOMAIN Item.refs /\ requireSymbol(Item.refs[refs].name)
    BY <1>1, <1>4, ProgramsAssumption
       DEF StartFunction, TranslateReference, Translating, Items, DriverInv, Reached
  <2>2. Item \in Function
    BY <1>1, <2>1, ProgramType DEF Item, DriverInv
  <2>3. Item.name \in SymbolNames /\ (refs \in DOMAIN Item.refs => Item.refs[refs].name \in SymbolNames)
    <3>1. Item.name \in SymbolNames /\ Item.refs \in Seq(Reference)
      BY <2>2 DEF Function
    <3>2. refs \in DOMAIN Item.refs => Item.refs[refs] \in Reference
      BY <3>1
    <3>. QED BY <3>1, <3>2 DEF Reference
  <2>4. ~AppendFunction
    BY <2>1 DEF AppendFunction
  <2>. QED BY <1>1, <1>2, <2>1, <2>3, <2>4, SymbolRequired, SymbolsKept
<1>5. CASE AppendFunction
  <2>. DEFINE fn == Ordered[item].fn
              section == TargetSection(fn)
              start == hdr[section].len
              sym == Symbol(fn.name, section, start, fn.size, "FUNC",
                            IF fn.public \/ fn.role = "main" THEN "GLOBAL" ELSE "LOCAL")
  <2>1. /\ fn \in Function /\ section \in Relocated \cap Names /\ hdr[section] \in Header
        /\ item \in DOMAIN Ordered /\ item \in Nat
        /\ format # "ko" => fn.name \notin NamesIn(localSymbols)
    BY <1>5, NextFunction
  <2>2. addSymbol(sym) /\ dynamicLinkEnabled' = dynamicLinkEnabled /\ stage = "append"
    BY <1>5 DEF AppendFunction
  <2>3. start \in Nat
    BY <2>1, HeaderFields
  <2>4. Appended' = item /\ Ordered' = Ordered
    BY <1>1, <1>5, <2>2, AppendedStep
  <2>5. fn.name \in Defined'
    <3>1. item > 0
      BY <1>1 DEF DriverInv, Reached
    <3>2. item \in 1..item
      BY <2>1, <3>1
    <3>. QED BY <2>4, <3>2 DEF Defined
  <2>. HIDE DEF start, section, fn
  <2>6. /\ sym \in SymbolRecord /\ sym.type \in {"FUNC", "OBJECT"} /\ sym.name = fn.name
        /\ sym.section = section /\ sym.offset = start
    BY <2>1, <2>3 DEF Symbol, SymbolRecord, Function
  <2>. HIDE DEF sym
  <2>7. PICK new \in SymbolRecord : new = sym
    BY <2>6
  <2>8. /\ SymbolInv'
        /\ new.name \notin NamesIn(localSymbols) => Located(new.name, new.section, new.offset)'
        /\ \A name, other, offset :
             name # new.name /\ Located(name, other, offset) => Located(name, other, offset)'
    <3>1. addSymbol(new) /\ new.type \in {"FUNC", "OBJECT"} /\ new.name \in Defined'
      BY <2>2, <2>5, <2>6, <2>7
    <3>. QED BY <1>1, <1>2, <2>2, <3>1, SymbolAdded
  <2>9. /\ new.name = Ordered[item].fn.name /\ new.section = TargetSection(Ordered[item].fn)
        /\ new.offset = hdr[new.section].len
    BY <2>6, <2>7 DEF fn, section, start
  <2>10. format # "ko" => Located(new.name, new.section, new.offset)'
    BY <2>1, <2>6, <2>7, <2>8
  <2>. QED BY <1>5, <2>8, <2>9, <2>10
<1>6. CASE CreateThisModule
  <2>. DEFINE sym == Symbol("this_module", ".gnu.linkonce.this_module", 0, MODULESIZE, "OBJECT", "GLOBAL")
  <2>1. addSymbol(sym) /\ dynamicLinkEnabled' = dynamicLinkEnabled /\ stage = "module"
    BY <1>6 DEF CreateThisModule
  <2>2. format = "ko"
    BY <2>1 DEF TypeInv, ModuleInv
  <2>3. ".gnu.linkonce.this_module" \in Names
    BY NameFacts DEF AddedSections
  <2>4. sym \in SymbolRecord /\ sym.type \in {"FUNC", "OBJECT"} /\ sym.name = "this_module"
    BY <2>3, HashAssumption DEF Symbol, SymbolRecord, MODULESIZE
  <2>. HIDE DEF sym
  <2>5. sym.name \in Defined'
    BY <1>2, <2>2, <2>4 DEF Defined
  <2>6. ~AppendFunction
    BY <2>1 DEF AppendFunction
  <2>. QED BY <1>1, <1>2, <2>1, <2>2, <2>4, <2>5, <2>6, SymbolAdded
<1>7. CASE PrepareDynamic \/ AssignSymbolIndices \/ BuildFinalSymtabData
  <2>1. ~AppendFunction
    BY <1>7 DEF AppendFunction, PrepareDynamic, AssignSymbolIndices, BuildFinalSymtabData, Pass
  <2>. QED BY <1>1, <1>2, <1>7, <2>1, RenumberStep, SymbolsRenumbered
<1>8. CASE UNCHANGED symbolVars /\ ~AppendFunction
  BY <1>1, <1>2, <1>8, SymbolsKept
<1>9. ASSUME \/ TranslateModinfo \/ SkipFunction \/ FinishFunction \/ StartAppend \/ FinishAppend
             \/ NoInitFunction \/ CreateVersions \/ PrepareRelocatable \/ UpdateInitialSectionSizes
             \/ CollectSections \/ BuildRelaDynamic \/ BuildRelaRelocatable \/ FinalizeSizes
             \/ FinalizeLayout \/ LayoutDone \/ SetSectionLinks \/ PatchSymbolTableAddresses
             \/ PatchDynSymAddresses \/ PatchDynamicSection \/ PatchTextRelocations
             \/ AssembleFinalElf \/ Finish
      PROVE  UNCHANGED symbolVars
  BY <1>9 DEF TranslateModinfo, SkipFunction, FinishFunction, StartAppend, FinishAppend,
     NoInitFunction, CreateVersions, PrepareRelocatable, UpdateInitialSectionSizes,
     CollectSections, BuildRelaDynamic, BuildRelaRelocatable, FinalizeSizes,
     FinalizeLayout, LayoutDone, SetSectionLinks, PatchSymbolTableAddresses,
     PatchDynSymAddresses, PatchDynamicSection, PatchTextRelocations, AssembleFinalElf, Finish,
     symbolVars, linkVars
<1>. QED BY <1>3, <1>4, <1>5, <1>6, <1>7, <1>8, <1>9 DEF Next, Translate, Compile

LEMMA SymbolInit == Init => SymbolInv /\ RelocationInv /\ ModuleInv
<1>. SUFFICES ASSUME Init PROVE SymbolInv /\ RelocationInv /\ ModuleInv
  OBVIOUS
<1>1. /\ localSymbols = << >> /\ dynamicSymbols = << >> /\ dynSymEntries = << >> /\ relocations = << >>
      /\ stage = "translate" /\ dynamicLinkEnabled = (prog.format = "so") /\ format = prog.format
  BY DEF Init, Layout!Idle
<1>2. /\ \A S : << >> \in Seq(S)
      /\ NamesOnce(<< >>) /\ NamesIn(<< >>) = {}
  BY DEF NamesOnce, NamesIn
<1>. QED BY <1>1, <1>2 DEF SymbolInv, RelocationInv, ModuleInv

LEMMA ModuleStep == ASSUME TypeInv, Next PROVE ModuleInv'
<1>1. format' = format /\ (stage \in {"module", "versions"} => format = "ko")
  BY AppendedStep DEF TypeInv, ModuleInv
<1>2. CASE \/ TranslateVariable \/ TranslateModinfo \/ SkipFunction \/ StartFunction \/ TranslateReference
           \/ FinishFunction \/ StartAppend \/ AppendFunction
  BY <1>1, <1>2 DEF TranslateVariable, TranslateModinfo, SkipFunction, StartFunction, Translating,
     TranslateReference, FinishFunction, StartAppend, AppendFunction, ModuleInv
<1>3. CASE FinishAppend \/ CreateThisModule \/ NoInitFunction \/ CreateVersions
  BY <1>1, <1>3 DEF FinishAppend, CreateThisModule, NoInitFunction, CreateVersions, ModuleInv
<1>4. CASE Compile
  BY <1>4, Passes DEF ModuleInv
<1>. QED BY <1>2, <1>3, <1>4 DEF Next, Translate

(* The relocations the driver hands over.                                   *)
LEMMA AppendedRelocations ==
  ASSUME TypeInv, AppendFunction
  PROVE  LET entry == Ordered[item]
             section == TargetSection(entry.fn)
             start == hdr[section].len
         IN /\ relocations' \in Seq(Relocation)
            /\ \A k \in DOMAIN relocations :
                 k \in DOMAIN relocations' /\ relocations'[k] = relocations[k]
            /\ \A r \in DOMAIN entry.relocs : \E k \in DOMAIN relocations' :
                 /\ relocations'[k].name = entry.relocs[r].name
                 /\ relocations'[k].section = section
                 /\ relocations'[k].offset = entry.relocs[r].offset + start
                 /\ relocations'[k].type = entry.relocs[r].type
                 /\ relocations'[k].addend = entry.relocs[r].addend
            /\ \A k \in DOMAIN relocations' :
                 k \in DOMAIN relocations \/ \E r \in DOMAIN entry.relocs :
                                               /\ relocations'[k].name = entry.relocs[r].name
                                               /\ relocations'[k].type = entry.relocs[r].type
<1>. DEFINE relocs == Ordered[item].relocs
            section == TargetSection(Ordered[item].fn)
            start == hdr[section].len
            moved(k) == [name |-> relocs[k].name, section |-> section,
                         offset |-> relocs[k].offset + start,
                         type |-> relocs[k].type, addend |-> relocs[k].addend]
            new == [k \in DOMAIN relocs |-> moved(k)]
<1>1. relocations' = relocations \o new
  BY DEF AppendFunction
<1>2. relocs \in Seq(BodyRelocation) /\ section \in Relocated /\ hdr[section] \in Header
  BY NextFunction
<1>3. start \in Nat
  BY <1>2, HeaderFields
<1>. HIDE DEF start, section, relocs
<1>4. ASSUME NEW k \in DOMAIN relocs PROVE moved(k) \in Relocation
  <2>1. relocs[k] \in BodyRelocation
    BY <1>2
  <2>2. \A r \in BodyRelocation : /\ r.name \in SymbolNames /\ r.offset \in Nat
                                  /\ r.type \in {"PC32", "PLT32"} /\ r.addend \in Int
    BY DEF BodyRelocation
  <2>3. relocs[k].offset + start \in Nat
    BY <1>3, <2>1, <2>2
  <2>. QED BY <1>2, <2>1, <2>2, <2>3 DEF Relocation
<1>5. relocations \in Seq(Relocation)
  BY DEF TypeInv, RelocationInv
<1>6. DOMAIN relocs = 1..Len(relocs) /\ Len(relocs) \in Nat
  BY <1>2
<1>7. \A k \in DOMAIN relocs : /\ moved(k).name = relocs[k].name /\ moved(k).section = section
                               /\ moved(k).offset = relocs[k].offset + start
                               /\ moved(k).type = relocs[k].type /\ moved(k).addend = relocs[k].addend
  OBVIOUS
<1>. HIDE DEF moved
<1>8. new \in Seq(Relocation) /\ DOMAIN new = DOMAIN relocs /\ \A k \in DOMAIN relocs : new[k] = moved(k)
  BY <1>4, <1>6
<1>. HIDE DEF new
<1>9. /\ relocations' \in Seq(Relocation)
      /\ \A k \in DOMAIN relocations : k \in DOMAIN relocations' /\ relocations'[k] = relocations[k]
      /\ \A r \in DOMAIN new : /\ Len(relocations) + r \in DOMAIN relocations'
                               /\ relocations'[Len(relocations) + r] = new[r]
      /\ \A k \in DOMAIN relocations' :
           k \in DOMAIN relocations \/ (k - Len(relocations) \in DOMAIN new /\ relocations'[k] = new[k - Len(relocations)])
  BY <1>1, <1>5, <1>8
<1>10. ASSUME NEW r \in DOMAIN relocs
       PROVE  \E k \in DOMAIN relocations' : relocations'[k] = moved(r)
  BY <1>8, <1>9
<1>11. \A k \in DOMAIN relocations' :
         k \in DOMAIN relocations \/ \E r \in DOMAIN relocs : relocations'[k] = moved(r)
  BY <1>8, <1>9
<1>12. \A r \in DOMAIN relocs : \E k \in DOMAIN relocations' :
         /\ relocations'[k].name = relocs[r].name
         /\ relocations'[k].section = section
         /\ relocations'[k].offset = relocs[r].offset + start
         /\ relocations'[k].type = relocs[r].type
         /\ relocations'[k].addend = relocs[r].addend
  BY <1>7, <1>10
<1>13. \A k \in DOMAIN relocations' :
         k \in DOMAIN relocations \/ \E r \in DOMAIN relocs : /\ relocations'[k].name = relocs[r].name
                                                             /\ relocations'[k].type = relocs[r].type
  BY <1>7, <1>11
<1>. QED BY <1>9, <1>12, <1>13 DEF relocs, section, start

LEMMA RelocationStep == ASSUME TypeInv, Next PROVE RelocationInv'
<1>1. CASE AppendFunction
  BY <1>1, AppendedRelocations DEF RelocationInv
<1>2. CASE CreateThisModule
  <2>1. ASSUME NEW role, WithRole(role) # {}
        PROVE  FirstWithRole(role).name \in SymbolNames
    <3>1. WithRole(role) \in SUBSET Nat
      BY DEF TypeInv, DriverInv, Finished, WithRole
    <3>2. \E k \in WithRole(role) : \A l \in WithRole(role) : k <= l
      BY <2>1, <3>1, FirstOf
    <3>3. \E k \in WithRole(role) : FirstWithRole(role) = fnMap[k].fn
      BY <3>2 DEF FirstWithRole
    <3>4. \A k \in WithRole(role) : fnMap[k].fn \in Function
      BY FunctionFacts DEF WithRole, TypeInv
    <3>. QED BY <3>3, <3>4 DEF Function
  <2>2. ASSUME NEW role, WithRole(role) # {}, NEW field \in Nat
        PROVE  <<Pointer(field, role)>> \in Seq(Relocation)
    <3>1. Pointer(field, role) \in Relocation
      BY <2>1, <2>2 DEF Pointer, Relocation, Relocated
    <3>. QED BY <3>1
  <2>. DEFINE exit == IF WithRole("exit") # {} THEN <<Pointer(EXITFIELD, "exit")>> ELSE << >>
              init == <<Pointer(INITFIELD, "init")>>
  <2>3. relocations' = (relocations \o init) \o exit /\ WithRole("init") # {}
    BY <1>2 DEF CreateThisModule
  <2>4. init \in Seq(Relocation) /\ exit \in Seq(Relocation)
    <3>1. INITFIELD \in Nat /\ EXITFIELD \in Nat
      BY DEF INITFIELD, EXITFIELD
    <3>. QED BY <2>2, <2>3, <3>1
  <2>. HIDE DEF init, exit
  <2>5. relocations \in Seq(Relocation)
    BY DEF TypeInv, RelocationInv
  <2>6. (relocations \o init) \o exit \in Seq(Relocation)
    BY <2>4, <2>5
  <2>. QED BY <2>3, <2>6 DEF RelocationInv
<1>3. CASE relocations' = relocations
  BY <1>3 DEF TypeInv, RelocationInv
<1>4. ASSUME \/ TranslateVariable \/ TranslateModinfo \/ SkipFunction \/ StartFunction \/ TranslateReference
             \/ FinishFunction \/ StartAppend \/ FinishAppend \/ NoInitFunction \/ CreateVersions
      PROVE  relocations' = relocations
  BY <1>4 DEF TranslateVariable, TranslateModinfo, SkipFunction, StartFunction, TranslateReference,
     FinishFunction, StartAppend, FinishAppend, NoInitFunction, CreateVersions
<1>. QED BY <1>1, <1>2, <1>3, <1>4, Passes DEF Next, Translate

-----------------------------------------------------------------------------
(* The list of required sections and the file.                              *)
LEMMA FileKept ==
  ASSUME UNCHANGED fileVars
  PROVE  /\ File!TypeOK => File!TypeOK'
         /\ DOMAIN table' = DOMAIN table /\ placed' = placed /\ sh_addr' = sh_addr
BY DEF fileVars, File!TypeOK, File!Sections

LEMMA FileInit == Init => FileInv /\ ServedInv
<1>. SUFFICES ASSUME Init PROVE FileInv /\ ServedInv
  OBVIOUS
<1>1. /\ format = prog.format /\ table = << >> /\ phase = "start" /\ cursor = 0 /\ placed = {}
      /\ sh_addr = [i \in DOMAIN << >> |-> 0] /\ sh_offset = [i \in DOMAIN << >> |-> 0]
      /\ curOffset = 0 /\ curVAddr = 0 /\ rxEndOffset = 0 /\ rxEndVAddr = 0 /\ phdrs = << >>
      /\ shoff = 0 /\ at = [i \in DOMAIN << >> |-> 0] /\ filePos = 0
  BY DEF Init, Layout!Idle
<1>2. prog.format \in {"exec", "so", "ko"}
  BY ProgramsAssumption DEF Init
<1>3. File!TypeOK
  BY <1>1, <1>2 DEF File!TypeOK, File!Sections, File!Formats
<1>4. stage = "translate" /\ requiredSections = << >> /\ textFields = {} /\ "" \in required
  BY DEF Init
<1>5. FileInv
  <2>1. stage \notin Collected /\ stage \notin Laid
    BY <1>4 DEF Collected, Laid
  <2>2. requiredSections \in Seq(Names)
    <3>1. \A S : << >> \in Seq(S)
      OBVIOUS
    <3>. QED BY <1>4, <3>1
  <2>. QED BY <1>1, <1>3, <1>4, <2>1, <2>2 DEF FileInv
<1>6. ServedInv
  <2>1. stage \notin Laid \cup {"sizes2"}
    BY <1>4 DEF Laid
  <2>. QED BY <1>4, <2>1 DEF ServedInv
<1>. QED BY <1>5, <1>6

(* What finalizeSizes hands to the layout.                                  *)
LEMMA TableType ==
  ASSUME TypeInv, FinalizeSizes
  PROVE  FileInv'
<1>1. /\ stage = "sizes2" /\ stage' = "layout" /\ required' = required /\ requiredSections' = requiredSections
      /\ hdr' = WithData(SizesFromData, ".shstrtab", 1 + NAME * (Len(requiredSections) - 1))
      /\ sh_addr' = [k \in DOMAIN requiredSections |-> 0]
      /\ sh_offset' = [k \in DOMAIN requiredSections |-> 0]
      /\ at' = [k \in DOMAIN requiredSections |-> 0]
      /\ format' = format /\ phase' = phase /\ cursor' = cursor /\ placed' = placed
      /\ curOffset' = curOffset /\ curVAddr' = curVAddr /\ rxEndOffset' = rxEndOffset
      /\ rxEndVAddr' = rxEndVAddr /\ phdrs' = phdrs /\ shoff' = shoff /\ filePos' = filePos
  BY DEF FinalizeSizes, Pass
<1>2. FileInv
  BY DEF TypeInv
<1>3. placed = {}
  BY <1>1, <1>2 DEF FileInv, Laid
<1>4. HeaderInv'
  BY HeaderStep DEF Next, Compile
<1>. DEFINE entry(name) == [name |-> name, alloc |-> name \notin NotLoaded, write |-> name \in Writable,
                            nobits |-> name = ".bss", align |-> AlignOf(name), size |-> hdr'[name].size]
<1>5. table' = [k \in DOMAIN requiredSections |-> entry(requiredSections[k])]
  BY DEF FinalizeSizes
<1>6. ASSUME NEW name \in Names PROVE entry(name) \in File!Section
  <2>1. hdr'[name].size \in Nat
    BY <1>4, HeaderFields DEF HeaderInv
  <2>2. AlignOf(name) \in File!Alignments
    BY AlignFacts
  <2>. QED BY <2>1, <2>2 DEF File!Section
<1>. HIDE DEF entry
<1>7. requiredSections \in Seq(Names)
  BY <1>2 DEF FileInv
<1>8. /\ DOMAIN requiredSections = 1..Len(requiredSections) /\ Len(requiredSections) \in Nat
      /\ \A k \in DOMAIN requiredSections : entry(requiredSections[k]) \in File!Section
  BY <1>6, <1>7
<1>9. table' \in Seq(File!Section) /\ DOMAIN table' = DOMAIN requiredSections
  BY <1>5, <1>8
<1>10. File!TypeOK'
  <2>1. File!TypeOK
    BY <1>2 DEF FileInv
  <2>2. /\ sh_addr' \in [DOMAIN table' -> Nat] /\ sh_offset' \in [DOMAIN table' -> Nat]
        /\ at' \in [DOMAIN table' -> Nat] /\ placed' = {}
    BY <1>1, <1>3, <1>9
  <2>. QED BY <1>1, <1>9, <2>1, <2>2 DEF File!TypeOK, File!Sections
<1>. QED BY <1>1, <1>2, <1>3, <1>9, <1>10 DEF FileInv, Collected, Laid, NoTwice, Listed

LEMMA RequiredGrows ==
  ASSUME Next, stage \notin Collected \cup {"aborted"}
  PROVE  required \subseteq required'
<1>1. CASE \/ TranslateVariable \/ TranslateModinfo \/ SkipFunction \/ FinishFunction \/ StartAppend
           \/ AppendFunction \/ FinishAppend \/ CreateThisModule \/ NoInitFunction \/ CreateVersions
  BY <1>1 DEF TranslateVariable, TranslateModinfo, SkipFunction, FinishFunction, StartAppend,
     AppendFunction, FinishAppend, CreateThisModule, NoInitFunction, CreateVersions, sectionVars
<1>2. CASE StartFunction \/ TranslateReference
  BY <1>2 DEF StartFunction, TranslateReference, requireSymbol, EnableDynamicLinking, sectionVars
<1>3. CASE PrepareDynamic \/ PrepareRelocatable \/ UpdateInitialSectionSizes \/ CollectSections
  BY <1>3 DEF PrepareDynamic, PrepareRelocatable, UpdateInitialSectionSizes, CollectSections, sectionVars
<1>4. CASE \/ AssignSymbolIndices \/ BuildFinalSymtabData
           \/ BuildRelaDynamic \/ BuildRelaRelocatable \/ FinalizeSizes
           \/ FinalizeLayout \/ LayoutDone \/ SetSectionLinks
           \/ PatchSymbolTableAddresses \/ PatchDynSymAddresses \/ PatchDynamicSection
           \/ PatchTextRelocations \/ AssembleFinalElf \/ Finish
  BY <1>4 DEF Collected, Laid, AssignSymbolIndices, BuildFinalSymtabData, BuildRelaDynamic,
     BuildRelaRelocatable, FinalizeSizes, FinalizeLayout, LayoutDone, SetSectionLinks,
     PatchSymbolTableAddresses, PatchDynSymAddresses, PatchDynamicSection,
     PatchTextRelocations, AssembleFinalElf, Finish, Pass
<1>. QED BY <1>1, <1>2, <1>3, <1>4 DEF Next, Translate, Compile

(* Once the list is made, neither it nor the set it lists changes.          *)
LEMMA RequiredKept ==
  ASSUME TypeInv, Next, stage \in Collected
  PROVE  /\ required' = required /\ requiredSections' = requiredSections
         /\ stage' \in Collected \cup {"aborted"}
         /\ stage \in Laid => stage' \in Laid \cup {"aborted"}
<1>1. CASE Translate
  BY <1>1 DEF Translate, Translating, TranslateVariable, TranslateModinfo, SkipFunction, StartFunction,
     TranslateReference, FinishFunction, StartAppend, AppendFunction, FinishAppend, CreateThisModule,
     NoInitFunction, CreateVersions, Collected, Laid
<1>2. CASE PrepareDynamic \/ PrepareRelocatable \/ UpdateInitialSectionSizes \/ CollectSections
  BY <1>2 DEF PrepareDynamic, PrepareRelocatable, UpdateInitialSectionSizes, CollectSections, Pass,
     Collected, Laid
<1>3. CASE \/ AssignSymbolIndices \/ BuildFinalSymtabData \/ BuildRelaDynamic \/ BuildRelaRelocatable
           \/ FinalizeSizes
  BY <1>3 DEF AssignSymbolIndices, BuildFinalSymtabData, BuildRelaDynamic, BuildRelaRelocatable,
     FinalizeSizes, Pass, Collected, Laid, sectionVars
<1>4. CASE FinalizeLayout \/ AssembleFinalElf
  BY <1>4 DEF FinalizeLayout, AssembleFinalElf, linkVars, sectionVars, Collected, Laid
<1>5. CASE \/ LayoutDone \/ SetSectionLinks \/ PatchSymbolTableAddresses \/ PatchDynSymAddresses
           \/ PatchDynamicSection \/ Finish
  BY <1>5 DEF LayoutDone, SetSectionLinks, PatchSymbolTableAddresses, PatchDynSymAddresses,
     PatchDynamicSection, Finish, Pass, Collected, Laid, sectionVars
<1>6. CASE PatchTextRelocations
  BY <1>6 DEF PatchTextRelocations, Pass, Collected, Laid, sectionVars
<1>. QED BY <1>1, <1>2, <1>3, <1>4, <1>5, <1>6 DEF Next, Compile

LEMMA FileInvStep == ASSUME TypeInv, Next PROVE FileInv'
<1>1. FileInv /\ SectionInv
  BY DEF TypeInv
<1>2. CASE stage \in Collected
  <2>1. /\ required' = required /\ requiredSections' = requiredSections
        /\ stage' \in Collected \cup {"aborted"}
        /\ stage \in Laid => stage' \in Laid \cup {"aborted"}
    BY <1>2, RequiredKept
  <2>2. CASE FinalizeSizes
    BY <2>2, TableType
  <2>3. CASE UNCHANGED fileVars /\ (stage \notin Laid => stage' \notin Laid)
    <3>1. File!TypeOK' /\ DOMAIN table' = DOMAIN table /\ placed' = placed
      BY <1>1, <2>3, FileKept DEF FileInv
    <3>. QED BY <1>1, <1>2, <2>1, <2>3, <3>1 DEF FileInv, Listed, NoTwice, Laid, Collected
  <2>4. CASE stage \in Laid /\ (Layout!LayoutStep \/ Layout!AssemblyStep)
    <3>1. File!TypeOK' /\ table' = table
      BY <1>1, <2>4, FileStep DEF FileInv
    <3>. QED BY <1>1, <1>2, <2>1, <2>4, <3>1 DEF FileInv, Listed, NoTwice, Laid, Collected
  <2>5. ASSUME FinalizeLayout \/ AssembleFinalElf
        PROVE  stage \in Laid /\ (Layout!LayoutStep \/ Layout!AssemblyStep)
    BY <2>5 DEF FinalizeLayout, AssembleFinalElf, Laid
  <2>6. ASSUME \/ AssignSymbolIndices \/ BuildFinalSymtabData \/ BuildRelaDynamic
               \/ BuildRelaRelocatable \/ LayoutDone \/ SetSectionLinks \/ PatchSymbolTableAddresses
               \/ PatchDynSymAddresses \/ PatchDynamicSection \/ PatchTextRelocations \/ Finish
        PROVE  UNCHANGED fileVars /\ (stage \notin Laid => stage' \notin Laid)
    BY <2>6 DEF AssignSymbolIndices, BuildFinalSymtabData, BuildRelaDynamic, BuildRelaRelocatable,
       LayoutDone, SetSectionLinks, PatchSymbolTableAddresses, PatchDynSymAddresses,
       PatchDynamicSection, PatchTextRelocations, Finish, Pass, Laid
  <2>7. ASSUME Translate \/ PrepareDynamic \/ PrepareRelocatable \/ UpdateInitialSectionSizes \/ CollectSections
        PROVE  FALSE
    BY <1>2, <2>7 DEF Translate, Translating, TranslateVariable, TranslateModinfo, SkipFunction,
       StartFunction, TranslateReference, FinishFunction, StartAppend, AppendFunction, FinishAppend,
       CreateThisModule, NoInitFunction, CreateVersions, PrepareDynamic, PrepareRelocatable,
       UpdateInitialSectionSizes, CollectSections, Pass, Collected, Laid
  <2>. QED BY <2>2, <2>3, <2>4, <2>5, <2>6, <2>7 DEF Next, Compile
<1>3. CASE stage \notin Collected
  <2>1. stage # "aborted"
    BY Passes DEF Next, Translate, Translating, TranslateVariable, TranslateModinfo, SkipFunction,
       StartFunction, TranslateReference, FinishFunction, StartAppend, AppendFunction, FinishAppend,
       CreateThisModule, NoInitFunction, CreateVersions
  <2>2. "" \in required'
    BY <1>1, <1>3, <2>1, RequiredGrows DEF FileInv
  <2>3. CASE CollectSections
    <3>1. /\ requiredSections' = RequiredSections /\ required' = required /\ stage' = "indices"
          /\ UNCHANGED fileVars
      BY <2>3 DEF CollectSections, Pass, sectionVars
    <3>2. /\ requiredSections' \in Seq(Names) /\ NoTwice(requiredSections')
          /\ Listed(requiredSections') = required'
      BY <1>1, <3>1, RequiredSectionsFacts
    <3>3. File!TypeOK' /\ placed' = placed
      BY <1>1, <3>1, FileKept DEF FileInv
    <3>. QED BY <1>1, <1>3, <2>1, <2>2, <3>1, <3>2, <3>3 DEF FileInv, Collected, Laid
  <2>4. CASE /\ UNCHANGED fileVars /\ requiredSections' = requiredSections
             /\ stage' \notin Collected
    <3>1. File!TypeOK' /\ placed' = placed
      BY <1>1, <2>4, FileKept DEF FileInv
    <3>. QED BY <1>1, <1>3, <2>1, <2>2, <2>4, <3>1 DEF FileInv, Collected
  <2>5. ASSUME Translate \/ PrepareDynamic \/ PrepareRelocatable \/ UpdateInitialSectionSizes
        PROVE  /\ UNCHANGED fileVars /\ requiredSections' = requiredSections
               /\ stage' \notin Collected
    <3>1. CASE \/ TranslateVariable \/ TranslateModinfo \/ SkipFunction \/ StartFunction
               \/ TranslateReference \/ FinishFunction \/ StartAppend \/ AppendFunction
      BY <1>3, <3>1 DEF Translating, TranslateVariable, TranslateModinfo, SkipFunction,
         StartFunction, TranslateReference, FinishFunction, StartAppend, AppendFunction, Collected, Laid
    <3>2. CASE FinishAppend \/ CreateThisModule \/ NoInitFunction \/ CreateVersions
      BY <3>2 DEF FinishAppend, CreateThisModule, NoInitFunction, CreateVersions, Collected, Laid
    <3>3. CASE PrepareDynamic \/ PrepareRelocatable \/ UpdateInitialSectionSizes
      BY <3>3 DEF PrepareDynamic, PrepareRelocatable, UpdateInitialSectionSizes, Pass, Collected, Laid
    <3>. QED BY <2>5, <3>1, <3>2, <3>3 DEF Translate
  <2>6. ASSUME \/ AssignSymbolIndices \/ BuildFinalSymtabData
               \/ BuildRelaDynamic \/ BuildRelaRelocatable \/ FinalizeSizes
               \/ FinalizeLayout \/ LayoutDone \/ SetSectionLinks
               \/ PatchSymbolTableAddresses \/ PatchDynSymAddresses \/ PatchDynamicSection
               \/ PatchTextRelocations \/ AssembleFinalElf \/ Finish
        PROVE  FALSE
    BY <1>3, <2>6 DEF Collected, Laid, AssignSymbolIndices, BuildFinalSymtabData, BuildRelaDynamic,
       BuildRelaRelocatable, FinalizeSizes, FinalizeLayout, LayoutDone, SetSectionLinks,
       PatchSymbolTableAddresses, PatchDynSymAddresses, PatchDynamicSection,
       PatchTextRelocations, AssembleFinalElf, Finish, Pass
  <2>. QED BY <2>3, <2>4, <2>5, <2>6 DEF Next, Compile
<1>. QED BY <1>2, <1>3

LEMMA CompileSymbols ==
  ASSUME TypeInv, Compile
  PROVE  /\ Renumbered(localSymbols, localSymbols') /\ Renumbered(dynamicSymbols, dynamicSymbols')
         /\ dynSymEntries' = dynSymEntries /\ dynamicLinkEnabled' = dynamicLinkEnabled
         /\ \A name : Known(name)' <=> Known(name)
<1>1. PrepareDynamic \/ AssignSymbolIndices \/ BuildFinalSymtabData \/ UNCHANGED symbolVars
  BY DEF Compile, PrepareRelocatable, UpdateInitialSectionSizes,
     CollectSections, BuildRelaDynamic, BuildRelaRelocatable, FinalizeSizes,
     FinalizeLayout, LayoutDone, SetSectionLinks, PatchSymbolTableAddresses,
     PatchDynSymAddresses, PatchDynamicSection, PatchTextRelocations, AssembleFinalElf, Finish,
     symbolVars, linkVars
<1>2. /\ Renumbered(localSymbols, localSymbols') /\ Renumbered(dynamicSymbols, dynamicSymbols')
      /\ dynSymEntries' = dynSymEntries /\ dynamicLinkEnabled' = dynamicLinkEnabled
  BY <1>1, RenumberStep DEF TypeInv
<1>3. NamesIn(localSymbols') = NamesIn(localSymbols) /\ NamesIn(dynamicSymbols') = NamesIn(dynamicSymbols)
  BY <1>2, RenumberedKeeps
<1>. QED BY <1>2, <1>3 DEF Known

(* The address of a section, and a patched field.                           *)
LEMMA AddrType ==
  ASSUME FileInv, stage \in Laid, NEW name
  PROVE  AddrOf(name) \in Nat
<1>1. CASE \E k \in DOMAIN requiredSections : requiredSections[k] = name
  <2>1. Index(requiredSections, name) + 1 \in DOMAIN requiredSections
    <3>1. name \in Listed(requiredSections)
      BY <1>1 DEF Listed
    <3>. QED BY <3>1, IndexFacts DEF FileInv
  <2>2. DOMAIN table = DOMAIN requiredSections /\ sh_addr \in [DOMAIN table -> Nat]
    BY DEF FileInv, File!TypeOK, File!Sections
  <2>. QED BY <1>1, <2>1, <2>2 DEF AddrOf
<1>2. CASE ~(\E k \in DOMAIN requiredSections : requiredSections[k] = name)
  BY <1>2 DEF AddrOf
<1>. QED BY <1>1, <1>2

LEMMA FieldType ==
  ASSUME TypeInv, stage \in Laid, NEW k \in DOMAIN relocations
  PROVE  Field(relocations[k]) \in [offset : Nat, value : Int]
<1>. DEFINE reloc == relocations[k]
            sym == getAnySymbol(reloc.name)
<1>1. reloc \in Relocation
  BY DEF TypeInv, RelocationInv
<1>2. reloc.offset \in Nat /\ reloc.addend \in Int
  BY <1>1 DEF Relocation
<1>3. sym \in SymbolRecord
  BY KnownType DEF TypeInv, ServedInv
<1>4. sym.offset \in Nat
  BY <1>3 DEF SymbolRecord
<1>5. AddrOf(".text") \in Nat /\ AddrOf(sym.section) \in Nat
  BY AddrType DEF TypeInv
<1>6. Field(reloc) = [offset |-> reloc.offset,
                      value |-> (AddrOf(sym.section) + sym.offset)
                                  - (AddrOf(".text") + reloc.offset + 4) + reloc.addend]
  BY DEF Field, Address, PatchAddr
<1>. HIDE DEF sym, reloc
<1>7. Field(reloc) \in [offset : Nat, value : Int]
  BY <1>2, <1>4, <1>5, <1>6
<1>. QED BY <1>7 DEF reloc

LEMMA ServedStep == ASSUME TypeInv, Next PROVE ServedInv'
<1>1. ServedInv
  BY DEF TypeInv
<1>. DEFINE Served == Laid \cup {"sizes2"}
<1>2. CASE PatchTextRelocations
  <2>1. /\ stage = "patchtext" /\ relocations' = relocations
        /\ textFields' \subseteq textFields \cup {Field(relocations[k]) : k \in TextRelocations}
    BY <1>2 DEF PatchTextRelocations, Pass, tableVars
  <2>2. \A k \in DOMAIN relocations : Field(relocations[k]) \in [offset : Nat, value : Int]
    BY <2>1, FieldType DEF Laid
  <2>3. textFields' \subseteq [offset : Nat, value : Int]
    BY <1>1, <2>1, <2>2 DEF ServedInv, TextRelocations
  <2>4. \A k \in DOMAIN relocations : Known(relocations[k].name)'
    BY <1>1, <1>2, <2>1, CompileSymbols DEF ServedInv, Laid, Compile
  <2>. QED BY <2>1, <2>3, <2>4 DEF ServedInv
<1>3. CASE BuildRelaDynamic \/ BuildRelaRelocatable
  <2>1. relocations' = relocations /\ textFields' = textFields
    BY <1>3 DEF BuildRelaDynamic, BuildRelaRelocatable, Pass, tableVars
  <2>2. stage' # "aborted" => \A k \in DOMAIN relocations : Known(relocations[k].name)
    BY <1>3 DEF BuildRelaDynamic, BuildRelaRelocatable, Pass, Unservable
  <2>3. \A name : Known(name)' <=> Known(name)
    BY <1>3, CompileSymbols DEF Compile
  <2>. QED BY <1>1, <2>1, <2>2, <2>3 DEF ServedInv, Laid
<1>4. CASE stage' \notin Served /\ textFields' = textFields
  BY <1>1, <1>4 DEF ServedInv
<1>5. CASE Compile /\ stage \in Served /\ textFields' = textFields
  BY <1>1, <1>5, Passes, CompileSymbols DEF ServedInv
<1>6. ASSUME Translate \/ PrepareDynamic \/ PrepareRelocatable \/ UpdateInitialSectionSizes
             \/ CollectSections \/ AssignSymbolIndices \/ BuildFinalSymtabData
      PROVE  stage' \notin Served /\ textFields' = textFields
  <2>1. CASE \/ TranslateVariable \/ TranslateModinfo \/ SkipFunction \/ StartFunction
             \/ TranslateReference \/ FinishFunction \/ StartAppend \/ AppendFunction
    BY <2>1 DEF Translating, TranslateVariable, TranslateModinfo, SkipFunction,
       StartFunction, TranslateReference, FinishFunction, StartAppend, AppendFunction, Laid, tableVars
  <2>2. CASE FinishAppend \/ CreateThisModule \/ NoInitFunction \/ CreateVersions
    BY <2>2 DEF FinishAppend, CreateThisModule, NoInitFunction, CreateVersions, Laid, tableVars
  <2>3. CASE PrepareDynamic \/ PrepareRelocatable \/ UpdateInitialSectionSizes
    BY <2>3 DEF PrepareDynamic, PrepareRelocatable, UpdateInitialSectionSizes, Pass, Laid, tableVars
  <2>4. CASE CollectSections \/ AssignSymbolIndices \/ BuildFinalSymtabData
    BY <2>4 DEF CollectSections, AssignSymbolIndices, BuildFinalSymtabData, Pass, Laid, tableVars
  <2>. QED BY <1>6, <2>1, <2>2, <2>3, <2>4 DEF Translate
<1>7. ASSUME \/ FinalizeSizes \/ FinalizeLayout \/ LayoutDone \/ SetSectionLinks
             \/ PatchSymbolTableAddresses \/ PatchDynSymAddresses \/ PatchDynamicSection
             \/ AssembleFinalElf \/ Finish
      PROVE  stage \in Served /\ textFields' = textFields
  BY <1>7 DEF FinalizeSizes, FinalizeLayout, LayoutDone, SetSectionLinks,
     PatchSymbolTableAddresses, PatchDynSymAddresses, PatchDynamicSection,
     AssembleFinalElf, Finish, Pass, Laid, tableVars, linkVars
<1>. QED BY <1>2, <1>3, <1>4, <1>5, <1>6, <1>7 DEF Next, Compile

LEMMA TypeInit == Init => TypeInv
BY DriverInit, SectionInit, SymbolInit, FileInit DEF TypeInv

LEMMA TypeStep == ASSUME TypeInv, Next PROVE TypeInv'
<1>1. DriverInv' /\ SectionInv' /\ HeaderInv'
  BY DriverStep, SectionStep, HeaderStep DEF TypeInv
<1>2. SymbolInv' /\ RelocationInv' /\ ModuleInv'
  BY SymbolStep, RelocationStep, ModuleStep
<1>3. FileInv' /\ ServedInv'
  BY FileInvStep, ServedStep
<1>. QED BY <1>1, <1>2, <1>3 DEF TypeInv

LEMMA TypeUnchanged == ASSUME TypeInv, UNCHANGED vars PROVE TypeInv'
<1>1. /\ UNCHANGED driverVars /\ UNCHANGED sectionVars /\ UNCHANGED symbolVars /\ UNCHANGED tableVars
      /\ UNCHANGED fileVars /\ stage' = stage /\ relocations' = relocations
      /\ requiredSections' = requiredSections
  BY DEF vars, linkVars
<1>2. DriverInv' /\ SectionInv' /\ HeaderInv'
  BY <1>1 DEF TypeInv, DriverInv, Reached, Begun, Finished, FinishedOnce, Items, Item, Skipped,
     AllServe, Serves, MustLand, Undeclared, SectionInv, HeaderInv, driverVars, sectionVars, fileVars
<1>3. SymbolInv' /\ RelocationInv' /\ ModuleInv'
  <2>1. Defined' = Defined
    <3>1. Items' = Items /\ Ordered' = Ordered /\ Appended' = Appended /\ format' = format
      BY <1>1 DEF Items, Ordered, Mains, Others, Appended, driverVars, fileVars
    <3>. QED BY <3>1 DEF Defined
  <2>2. SymbolInv'
    BY <1>1, <2>1, SymbolsKept DEF TypeInv, fileVars
  <2>. QED BY <1>1, <2>2 DEF TypeInv, RelocationInv, ModuleInv, fileVars
<1>4. FileInv' /\ ServedInv'
  BY <1>1, FileKept DEF TypeInv, FileInv, ServedInv, Known, sectionVars, symbolVars, tableVars
<1>. QED BY <1>2, <1>3, <1>4 DEF TypeInv

(* Linker's own type invariant follows.                                     *)
LEMMA StagesListed ==
  /\ Stages[1] = "translate" /\ Stages[2] = "append" /\ Stages[3] = "module"
  /\ Stages[4] = "versions" /\ Stages[5] = "prepare" /\ Stages[6] = "sizes"
  /\ Stages[7] = "collect" /\ Stages[8] = "indices" /\ Stages[9] = "symtab"
  /\ Stages[10] = "rela" /\ Stages[11] = "sizes2" /\ Stages[12] = "layout"
  /\ Stages[13] = "links" /\ Stages[14] = "patchsymtab" /\ Stages[15] = "patchdynsym"
  /\ Stages[16] = "patchdynamic" /\ Stages[17] = "patchtext" /\ Stages[18] = "assemble"
  /\ Stages[19] = "done" /\ DOMAIN Stages = 1..19
  /\ \A k \in 1..19 : \/ k = 1 \/ k = 2 \/ k = 3 \/ k = 4 \/ k = 5 \/ k = 6 \/ k = 7 \/ k = 8 \/ k = 9
                      \/ k = 10 \/ k = 11 \/ k = 12 \/ k = 13 \/ k = 14 \/ k = 15 \/ k = 16
                      \/ k = 17 \/ k = 18 \/ k = 19
BY DEF Stages

LEMMA StagesNamed == stage = "aborted" \/ From("translate") <=> stage \in StageNames
<1>3. ASSUME NEW k \in 1..19 PROVE Stages[k] \in StageNames
  BY StagesListed DEF StageNames
<1>4. From("translate") => stage \in StageNames
  BY StagesListed, <1>3 DEF From
<1>5. ASSUME stage \in StageNames, stage # "aborted"
      PROVE  \E l \in 1..19 : Stages[l] = stage
  <2>. SUFFICES ASSUME \A k \in 1..19 : Stages[k] # stage PROVE FALSE
    OBVIOUS
  <2>1. /\ Stages[1] # stage /\ Stages[2] # stage /\ Stages[3] # stage /\ Stages[4] # stage
        /\ Stages[5] # stage /\ Stages[6] # stage /\ Stages[7] # stage /\ Stages[8] # stage
        /\ Stages[9] # stage /\ Stages[10] # stage /\ Stages[11] # stage /\ Stages[12] # stage
        /\ Stages[13] # stage /\ Stages[14] # stage /\ Stages[15] # stage /\ Stages[16] # stage
        /\ Stages[17] # stage /\ Stages[18] # stage /\ Stages[19] # stage
    OBVIOUS
  <2>. QED BY StagesListed, <1>5, <2>1 DEF StageNames
<1>6. stage \in StageNames /\ stage # "aborted" => From("translate")
  BY StagesListed, <1>5 DEF From
<1>7. "aborted" \in StageNames
  BY DEF StageNames
<1>. QED BY <1>4, <1>6, <1>7

LEMMA TypesFollow == TypeInv => TypeOK
<1>. SUFFICES ASSUME TypeInv PROVE TypeOK
  OBVIOUS
<1>1. /\ prog \in Programs /\ format = prog.format /\ item \in Nat /\ refs \in Nat
      /\ (stage = "aborted" \/ From("translate"))
  BY StagesNamed DEF TypeInv, DriverInv, Reached
<1>2. /\ sections \in Seq(Names)
      /\ \A k, l \in DOMAIN sections : sections[k] = sections[l] => k = l
      /\ required \subseteq {sections[k] : k \in DOMAIN sections}
  BY DEF TypeInv, SectionInv, NoTwice, Listed
<1>3. hdr \in [Names -> [len : Nat, size : Nat, link : Nat, info : Nat]]
  BY DEF TypeInv, HeaderInv, Header
<1>4. /\ dynamicLinkEnabled \in BOOLEAN
      /\ localSymbols \in Seq(SymbolRecord) /\ dynamicSymbols \in Seq(SymbolRecord)
  BY DEF TypeInv, SymbolInv
<1>5. /\ relocations \in Seq(Relocation) /\ requiredSections \in Seq(Names)
      /\ textFields \subseteq [offset : Nat, value : Int]
  BY DEF TypeInv, RelocationInv, FileInv, ServedInv
<1>. QED BY <1>1, <1>2, <1>3, <1>4, <1>5 DEF TypeOK

(* The variables of the compiler keep their types, the sections are listed  *)
(* once and every required one is among them, whatever is compiled.         *)
THEOREM LinkerTypeCorrect == Spec => []TypeOK
<1>1. Init => TypeInv
  BY TypeInit
<1>2. TypeInv /\ [Next]_vars => TypeInv'
  BY TypeStep, TypeUnchanged
<1>3. TypeInv => TypeOK
  BY TypesFollow
<1>. QED BY <1>1, <1>2, <1>3, PTL DEF Spec

-----------------------------------------------------------------------------
(* Where the functions are, as soon as each is appended: its symbol is at   *)
(* the start of its code, main at that of .text, and its relocations lie    *)
(* behind the start.  Afterwards no symbol and no relocation moves, those   *)
(* that would need the PLT end the compilation, and the fields of .text     *)
(* hold what the addresses of the finished layout ask for.                  *)
FunctionPlaced(n) ==
  LET entry == Ordered[n]
  IN \E start \in Nat :
       /\ Located(entry.fn.name, ".text", start)
       /\ entry.fn.role = "main" => start = 0
       /\ \A r \in DOMAIN entry.relocs : \E k \in DOMAIN relocations :
            /\ relocations[k].name = entry.relocs[r].name
            /\ relocations[k].section = ".text"
            /\ relocations[k].offset = entry.relocs[r].offset + start
            /\ relocations[k].type = entry.relocs[r].type
            /\ relocations[k].addend = entry.relocs[r].addend

LandInv ==
  format # "ko" =>
    /\ \A n \in 1..Appended : FunctionPlaced(n)
    /\ stage \in {"translate", "append"} /\ Appended = 0 => hdr[".text"].len = 0
    /\ Appended > 0 => ".text" \in required
    /\ \A k \in DOMAIN relocations :
         relocations[k].type = "PLT32" => Undeclared(relocations[k].name)
    /\ stage \in Laid \cup {"sizes2"} =>
         \A k \in DOMAIN relocations : relocations[k].type # "PLT32"
    /\ stage \in {"assemble", "done"} /\ ".text" \in required =>
         textFields = {Field(relocations[k]) : k \in TextRelocations}

LEMMA LandInit == Init => LandInv
<1>. SUFFICES ASSUME Init, format # "ko" PROVE LandInv
  BY DEF LandInv
<1>1. stage = "translate" /\ relocations = << >> /\ Appended = 0
  BY DEF Init, Appended
<1>2. hdr[".text"].len = 0
  <2>1. ".text" \in Names
    BY Prefix DEF BaseNames
  <2>. QED BY <2>1 DEF Init
<1>. QED BY <1>1, <1>2 DEF LandInv, Laid

(* Code goes to .text only when it is appended.                             *)
LEMMA TextEmpty ==
  ASSUME TypeInv, Next, format # "ko", stage \in {"translate", "append"}, ~AppendFunction,
         stage' \in {"translate", "append"}
  PROVE  hdr'[".text"].len = hdr[".text"].len
<1>0. ".text" \in Names /\ ".interp" \in Names /\ DOMAIN hdr = Names
  BY Prefix DEF BaseNames, TypeInv, HeaderInv
<1>1. CASE TranslateVariable
  <2>1. hdr' = [hdr EXCEPT ![Item.section].len =
                  Layout!AlignTo(hdr[Item.section].len, AlignOf(Item.section)) + Item.size]
        /\ item \in DOMAIN Items /\ Item.kind = "var"
    BY <1>1, ProgramsAssumption DEF TranslateVariable, Translating, Items, TypeInv, DriverInv, Reached
  <2>2. Item.section # ".text"
    <3>1. Item \in Variable
      BY <2>1, ProgramType DEF Item, TypeInv, DriverInv
    <3>. QED BY <3>1 DEF Variable
  <2>3. hdr'[".text"] = hdr[".text"]
    BY <1>0, <2>1, <2>2
  <2>. QED BY <2>3
<1>2. CASE TranslateModinfo
  BY <1>2 DEF TranslateModinfo
<1>3. CASE StartFunction \/ TranslateReference
  <2>1. hdr' = hdr \/ hdr' = [hdr EXCEPT ![".interp"].len = INTERP]
    BY <1>3 DEF StartFunction, TranslateReference, requireSymbol, EnableDynamicLinking, sectionVars
  <2>2. hdr'[".text"] = hdr[".text"]
    BY <1>0, <2>1
  <2>. QED BY <2>2
<1>4. CASE SkipFunction \/ FinishFunction \/ StartAppend
  BY <1>4 DEF SkipFunction, FinishFunction, StartAppend, sectionVars
<1>5. CASE FinishAppend \/ CreateThisModule \/ NoInitFunction \/ CreateVersions
  BY <1>5 DEF FinishAppend, CreateThisModule, NoInitFunction, CreateVersions
<1>. QED BY <1>1, <1>2, <1>3, <1>4, <1>5, Passes DEF Next, Translate

(* The relocations of an executable or a shared object come from its        *)
(* functions alone.                                                         *)
LEMMA RelocationsKept ==
  ASSUME TypeInv, Next, format # "ko", ~AppendFunction
  PROVE  relocations' = relocations
<1>1. CASE CreateThisModule
  BY <1>1 DEF CreateThisModule, TypeInv, ModuleInv
<1>2. CASE \/ TranslateVariable \/ TranslateModinfo \/ SkipFunction \/ StartFunction
           \/ TranslateReference \/ FinishFunction \/ StartAppend \/ FinishAppend \/ NoInitFunction
           \/ CreateVersions
  BY <1>2 DEF TranslateVariable, TranslateModinfo, SkipFunction, StartFunction, TranslateReference,
     FinishFunction, StartAppend, FinishAppend, NoInitFunction, CreateVersions
<1>. QED BY <1>1, <1>2, Passes DEF Next, Translate

(* A name that a relocation of the PLT has is not in .dynsym.               *)
LEMMA UndeclaredUnknown ==
  ASSUME TypeInv, format # "ko", NEW name, Undeclared(name)
  PROVE  name \notin NamesIn(dynSymEntries)
<1>1. \A k \in DOMAIN Items : Items[k].kind = "var" => Items[k].name # name
  BY DEF Undeclared
<1>2. ASSUME NEW n \in 1..Appended PROVE Ordered[n].fn.name # name
  <2>1. n \in DOMAIN Ordered
    BY AppendedFacts DEF TypeInv
  <2>2. PICK k \in DOMAIN fnMap : Ordered[n] = fnMap[k]
    BY <2>1, OrderedFacts DEF OrderedOnce, TypeInv
  <2>3. \E j \in DOMAIN Items : Items[j].kind = "fn" /\ fnMap[k].fn = Items[j]
    BY FunctionFacts DEF TypeInv
  <2>. QED BY <2>2, <2>3 DEF Undeclared
<1>3. name \notin Defined
  BY <1>1, <1>2 DEF Defined
<1>. QED BY <1>3 DEF TypeInv, SymbolInv

LEMMA FieldsKept ==
  ASSUME UNCHANGED symbolVars, relocations' = relocations, requiredSections' = requiredSections,
         sh_addr' = sh_addr
  PROVE  {Field(relocations[k]) : k \in TextRelocations}'
           = {Field(relocations[k]) : k \in TextRelocations}
<1>1. localSymbols' = localSymbols /\ dynamicSymbols' = dynamicSymbols
  BY DEF symbolVars
<1>2. \A name : AddrOf(name)' = AddrOf(name) /\ getAnySymbol(name)' = getAnySymbol(name)
  BY <1>1 DEF AddrOf, getAnySymbol
<1>3. ASSUME NEW reloc PROVE Field(reloc)' = Field(reloc)
  BY <1>2 DEF Field, Address, PatchAddr
<1>4. TextRelocations' = TextRelocations
  BY DEF TextRelocations
<1>. QED BY <1>3, <1>4

LEMMA PlacedAppending ==
  ASSUME TypeInv, LandInv, AppendFunction, format # "ko", NEW n \in 1..Appended'
  PROVE  FunctionPlaced(n)'
<1>1. /\ prog' = prog /\ format' = format /\ stage = "append"
      /\ Appended = item - 1 /\ Appended' = item /\ Ordered' = Ordered
  <2>1. stage = "append"
    BY DEF AppendFunction
  <2>. QED BY <2>1, AppendedStep DEF TypeInv, Next, Translate
<1>2. /\ item \in DOMAIN Ordered /\ item \in Nat /\ Ordered[item].fn \in Function
      /\ Ordered[item].relocs \in Seq(BodyRelocation)
      /\ ~Skipped(Ordered[item].fn) /\ hdr[TargetSection(Ordered[item].fn)] \in Header
      /\ \A m \in 1..Appended : Ordered[m].fn.name # Ordered[item].fn.name
  BY NextFunction
<1>3. TargetSection(Ordered[item].fn) = ".text"
  BY <1>2 DEF Skipped, TargetSection
<1>4. /\ \E name, section, start :
           /\ name = Ordered[item].fn.name /\ section = TargetSection(Ordered[item].fn)
           /\ start = hdr[section].len /\ Located(name, section, start)'
      /\ \A name, section, offset :
           Located(name, section, offset) /\ name # Ordered[item].fn.name
             => Located(name, section, offset)'
  BY <1>1, SymbolStep DEF Next, Translate
<1>5. /\ \A k \in DOMAIN relocations : k \in DOMAIN relocations' /\ relocations'[k] = relocations[k]
      /\ \A r \in DOMAIN Ordered[item].relocs : \E k \in DOMAIN relocations' :
           /\ relocations'[k].name = Ordered[item].relocs[r].name
           /\ relocations'[k].section = TargetSection(Ordered[item].fn)
           /\ relocations'[k].offset = Ordered[item].relocs[r].offset + hdr[TargetSection(Ordered[item].fn)].len
           /\ relocations'[k].type = Ordered[item].relocs[r].type
           /\ relocations'[k].addend = Ordered[item].relocs[r].addend
  BY AppendedRelocations
<1>6. CASE n = item
  <2>1. PICK start : start = hdr[".text"].len
    OBVIOUS
  <2>2. start \in Nat
    BY <1>2, <1>3, <2>1, HeaderFields
  <2>3. Ordered[item].fn.role = "main" => start = 0
    <3>1. ASSUME Ordered[item].fn.role = "main" PROVE Appended = 0
      BY <1>1, <1>2, <3>1, OrderedFacts DEF OrderedOnce, TypeInv
    <3>. QED BY <1>1, <2>1, <3>1 DEF LandInv
  <2>4. \A r \in DOMAIN Ordered[n].relocs : \E k \in DOMAIN relocations' :
               /\ relocations'[k].name = Ordered[n].relocs[r].name
               /\ relocations'[k].section = ".text"
               /\ relocations'[k].offset = Ordered[n].relocs[r].offset + start
               /\ relocations'[k].type = Ordered[n].relocs[r].type
               /\ relocations'[k].addend = Ordered[n].relocs[r].addend
    BY <1>3, <1>5, <1>6, <2>1
  <2>5. Located(Ordered[n].fn.name, ".text", start)'
    <3>1. PICK name : name = Ordered[item].fn.name /\ Located(name, ".text", start)'
      BY <1>3, <1>4, <2>1
    <3>. QED BY <1>1, <1>6, <3>1
  <2>. QED BY <1>1, <1>6, <2>2, <2>3, <2>4, <2>5 DEF FunctionPlaced
<1>7. CASE n # item
  <2>1. n \in 1..Appended
    BY <1>1, <1>2, <1>7
  <2>2. PICK start \in Nat :
          /\ Located(Ordered[n].fn.name, ".text", start)
          /\ Ordered[n].fn.role = "main" => start = 0
          /\ \A r \in DOMAIN Ordered[n].relocs : \E k \in DOMAIN relocations :
               /\ relocations[k].name = Ordered[n].relocs[r].name
               /\ relocations[k].section = ".text"
               /\ relocations[k].offset = Ordered[n].relocs[r].offset + start
               /\ relocations[k].type = Ordered[n].relocs[r].type
               /\ relocations[k].addend = Ordered[n].relocs[r].addend
    BY <2>1 DEF LandInv, FunctionPlaced
  <2>3. Located(Ordered[n].fn.name, ".text", start)'
    <3>1. PICK name : name = Ordered[n].fn.name
      OBVIOUS
    <3>2. Located(name, ".text", start)'
      BY <1>2, <1>4, <2>1, <2>2, <3>1
    <3>. QED BY <1>1, <3>1, <3>2
  <2>4. \A r \in DOMAIN Ordered[n].relocs : \E k \in DOMAIN relocations' :
               /\ relocations'[k].name = Ordered[n].relocs[r].name
               /\ relocations'[k].section = ".text"
               /\ relocations'[k].offset = Ordered[n].relocs[r].offset + start
               /\ relocations'[k].type = Ordered[n].relocs[r].type
               /\ relocations'[k].addend = Ordered[n].relocs[r].addend
    BY <1>5, <2>2
  <2>. QED BY <1>1, <2>2, <2>3, <2>4 DEF FunctionPlaced
<1>. QED BY <1>6, <1>7

LEMMA PlacedAfterwards ==
  ASSUME TypeInv, LandInv, Next, ~AppendFunction, format # "ko", NEW n \in 1..Appended'
  PROVE  FunctionPlaced(n)'
<1>1. /\ stage # "translate" /\ Ordered' = Ordered /\ Appended' = Appended
  <2>1. stage' # "translate"
    BY DEF Appended
  <2>2. Ordered' = Ordered /\ Appended' = Appended
    BY <2>1, AppendedStep DEF TypeInv
  <2>. QED BY <2>2 DEF Appended
<1>2. relocations' = relocations
  BY RelocationsKept
<1>3. \A name, section, offset : Located(name, section, offset) => Located(name, section, offset)'
  BY <1>1, SymbolStep
<1>4. FunctionPlaced(n)
  BY <1>1 DEF LandInv
<1>5. PICK name : name = Ordered[n].fn.name
  OBVIOUS
<1>6. \A start : Located(name, ".text", start) => Located(name, ".text", start)'
  BY <1>3
<1>. QED BY <1>1, <1>2, <1>4, <1>5, <1>6 DEF FunctionPlaced

LEMMA LandStep ==
  ASSUME TypeInv, LandInv, Next
  PROVE  LandInv'
<1>0. prog' = prog /\ format' = format /\ Items' = Items
  BY AppendedStep DEF TypeInv
<1>. SUFFICES ASSUME format # "ko" PROVE LandInv'
  BY <1>0 DEF LandInv
<1>1. \A n \in 1..Appended' : FunctionPlaced(n)'
  BY PlacedAppending, PlacedAfterwards
<1>2. ASSUME stage' \in {"translate", "append"}, Appended' = 0
      PROVE  hdr'[".text"].len = 0
  <2>1. ~AppendFunction
    <3>1. item \in Nat \ {0}
      BY DEF TypeInv, DriverInv, Reached
    <3>2. AppendFunction => Appended' = item
      BY AppendedStep DEF TypeInv, AppendFunction
    <3>. QED BY <1>2, <3>1, <3>2
  <2>2. stage \in {"translate", "append"}
    <3>1. CASE Translate
      BY <1>2, <3>1 DEF Translate, Translating, TranslateVariable, TranslateModinfo, SkipFunction,
         StartFunction, TranslateReference, FinishFunction, StartAppend, AppendFunction, FinishAppend,
         CreateThisModule, NoInitFunction, CreateVersions
    <3>. QED BY <1>2, <3>1, Passes DEF Next
  <2>3. Appended = 0
    BY <1>2, <2>1, AppendedStep DEF TypeInv, Appended
  <2>4. hdr[".text"].len = 0
    BY <2>2, <2>3 DEF LandInv
  <2>. QED BY <1>2, <2>1, <2>2, <2>4, TextEmpty
<1>3. ASSUME Appended' > 0 PROVE ".text" \in required'
  <2>1. CASE AppendFunction
    <3>1. TargetSection(Ordered[item].fn) = ".text"
      BY <2>1, NextFunction DEF Skipped, TargetSection
    <3>. QED BY <2>1, <3>1 DEF AppendFunction
  <2>2. CASE ~AppendFunction
    <3>1. ".text" \in required
      BY <1>3, <2>2, AppendedStep DEF TypeInv, LandInv, Appended
    <3>2. stage # "aborted"
      BY Passes DEF Next, Translate, Translating, TranslateVariable, TranslateModinfo, SkipFunction,
         StartFunction, TranslateReference, FinishFunction, StartAppend, AppendFunction, FinishAppend,
         CreateThisModule, NoInitFunction, CreateVersions
    <3>. QED BY <3>1, <3>2, RequiredGrows, RequiredKept
  <2>. QED BY <2>1, <2>2
<1>4. ASSUME NEW k \in DOMAIN relocations', relocations'[k].type = "PLT32"
      PROVE  Undeclared(relocations'[k].name)
  <2>1. CASE AppendFunction
    <3>1. CASE k \in DOMAIN relocations
      BY <2>1, <3>1, <1>4, AppendedRelocations DEF LandInv
    <3>2. CASE k \notin DOMAIN relocations
      <4>1. PICK r \in DOMAIN Ordered[item].relocs :
              /\ relocations'[k].name = Ordered[item].relocs[r].name
              /\ relocations'[k].type = Ordered[item].relocs[r].type
        BY <2>1, <3>2, AppendedRelocations
      <4>2. item \in DOMAIN Ordered
        BY <2>1, NextFunction
      <4>3. PICK l \in DOMAIN fnMap : Ordered[item] = fnMap[l]
        BY <4>2, OrderedFacts DEF OrderedOnce, TypeInv
      <4>4. AllServe(fnMap[l].relocs, fnMap[l].fn.refs)
        BY DEF TypeInv, DriverInv, Finished
      <4>5. Serves(Ordered[item].relocs[r], fnMap[l].fn.refs[r])
        BY <4>1, <4>3, <4>4 DEF AllServe
      <4>. QED BY <1>4, <4>1, <4>5 DEF Serves
    <3>. QED BY <3>1, <3>2
  <2>2. CASE ~AppendFunction
    BY <1>4, <2>2, RelocationsKept DEF LandInv
  <2>. QED BY <2>1, <2>2
<1>5. ASSUME stage' \in Laid \cup {"sizes2"}, NEW k \in DOMAIN relocations'
      PROVE  relocations'[k].type # "PLT32"
  <2>1. Compile
    BY <1>5 DEF Next, Translate, Translating, TranslateVariable, TranslateModinfo, SkipFunction,
       StartFunction, TranslateReference, FinishFunction, StartAppend, AppendFunction, FinishAppend,
       CreateThisModule, NoInitFunction, CreateVersions, Laid
  <2>2. relocations' = relocations
    BY <2>1, Passes
  <2>3. CASE BuildRelaDynamic
    <3>1. ~Unservable(relocations[k])
      BY <1>5, <2>2, <2>3 DEF BuildRelaDynamic, Pass, Laid
    <3>2. relocations[k].type = "PLT32" => Undeclared(relocations[k].name)
      BY <2>2 DEF LandInv
    <3>. QED BY <2>2, <3>1, <3>2, UndeclaredUnknown DEF Unservable
  <2>4. CASE stage \in Laid \cup {"sizes2"}
    BY <2>2, <2>4 DEF LandInv
  <2>5. ASSUME stage \notin Laid \cup {"sizes2"} PROVE BuildRelaDynamic
    BY <1>5, <2>1, <2>5 DEF Compile, BuildRelaRelocatable, PrepareDynamic, PrepareRelocatable,
       UpdateInitialSectionSizes, CollectSections, AssignSymbolIndices, BuildFinalSymtabData,
       FinalizeSizes, FinalizeLayout, LayoutDone, SetSectionLinks, PatchSymbolTableAddresses,
       PatchDynSymAddresses, PatchDynamicSection, PatchTextRelocations, AssembleFinalElf, Finish,
       Pass, Laid
  <2>. QED BY <2>3, <2>4, <2>5
<1>6. ASSUME stage' \in {"assemble", "done"}, ".text" \in required'
      PROVE  textFields' = {Field(relocations[k]) : k \in TextRelocations}'
  <2>1. PatchTextRelocations \/ AssembleFinalElf \/ Finish
    BY <1>6 DEF Next, Translate, Translating, TranslateVariable, TranslateModinfo, SkipFunction,
       StartFunction, TranslateReference, FinishFunction, StartAppend, AppendFunction, FinishAppend,
       CreateThisModule, NoInitFunction, CreateVersions,
       Compile, BuildRelaDynamic, BuildRelaRelocatable, PrepareDynamic, PrepareRelocatable,
       UpdateInitialSectionSizes, CollectSections, AssignSymbolIndices, BuildFinalSymtabData,
       FinalizeSizes, FinalizeLayout, linkVars, LayoutDone, SetSectionLinks, PatchSymbolTableAddresses,
       PatchDynSymAddresses, PatchDynamicSection, Pass
  <2>2. /\ UNCHANGED symbolVars /\ relocations' = relocations /\ requiredSections' = requiredSections
        /\ required' = required
    BY <2>1 DEF PatchTextRelocations, AssembleFinalElf, Finish, Pass, linkVars, sectionVars
  <2>3. sh_addr' = sh_addr
    BY <2>1, FileStep DEF PatchTextRelocations, AssembleFinalElf, Finish, fileVars
  <2>4. {Field(relocations[k]) : k \in TextRelocations}'
          = {Field(relocations[k]) : k \in TextRelocations}
    BY <2>2, <2>3, FieldsKept
  <2>5. textFields' = {Field(relocations[k]) : k \in TextRelocations}
    <3>1. CASE PatchTextRelocations
      BY <1>6, <2>2, <3>1 DEF PatchTextRelocations, Pass
    <3>2. CASE AssembleFinalElf \/ Finish
      BY <1>6, <2>2, <3>2 DEF AssembleFinalElf, Finish, Pass, linkVars, tableVars, LandInv
    <3>. QED BY <2>1, <3>1, <3>2
  <2>. QED BY <2>4, <2>5
<1>7. \A name : Undeclared(name)' <=> Undeclared(name)
  BY <1>0 DEF Undeclared
<1>. QED BY <1>1, <1>2, <1>3, <1>4, <1>5, <1>6, <1>7 DEF LandInv

(* The stages after a pass.                                                 *)
LEMMA FromStages ==
  /\ From("assemble") <=> stage \in {"assemble", "done"}
  /\ From("links") <=> stage \in Laid \ {"layout"}
<1>1. From("assemble") <=> stage \in {"assemble", "done"}
  <2>1. \A k \in 1..19 : Stages[k] = "assemble" <=> k = 18
    BY StagesListed
  <2>2. From("assemble") <=> \E l \in 18..19 : Stages[l] = stage
    BY <2>1, StagesListed DEF From
  <2>. QED BY <2>2, StagesListed
<1>2. From("links") <=> stage \in Laid \ {"layout"}
  <2>1. \A k \in 1..19 : Stages[k] = "links" <=> k = 13
    BY StagesListed
  <2>2. From("links") <=> \E l \in 13..19 : Stages[l] = stage
    BY <2>1, StagesListed DEF From
  <2>3. \A l \in 13..19 : l \in {13, 14, 15, 16, 17, 18, 19}
    OBVIOUS
  <2>4. (\E l \in 13..19 : Stages[l] = stage) <=>
          \/ Stages[13] = stage \/ Stages[14] = stage \/ Stages[15] = stage \/ Stages[16] = stage
          \/ Stages[17] = stage \/ Stages[18] = stage \/ Stages[19] = stage
    BY <2>3
  <2>. QED BY <2>2, <2>4, StagesListed DEF Laid
<1>. QED BY <1>1, <1>2

LEMMA SymbolAddress ==
  ASSUME TypeInv, stage \in Laid, NEW name, Known(name)
  PROVE  Address(getAnySymbol(name)) \in Nat
<1>. DEFINE sym == getAnySymbol(name)
<1>1. sym \in SymbolRecord
  BY KnownType DEF TypeInv
<1>2. sym.offset \in Nat
  BY <1>1 DEF SymbolRecord
<1>3. AddrOf(sym.section) \in Nat
  BY AddrType DEF TypeInv
<1>. HIDE DEF sym
<1>4. Address(sym) \in Nat
  BY <1>2, <1>3 DEF Address
<1>. QED BY <1>4 DEF sym

LEMMA ReferenceLands ==
  ASSUME TypeInv, LandInv, stage \in {"assemble", "done"}, format # "ko",
         NEW l \in DOMAIN fnMap, NEW r \in DOMAIN fnMap[l].fn.refs, MustLand(fnMap[l].fn.refs[r])
  PROVE  Lands(fnMap[l].fn, fnMap[l].fn.refs[r])
<1>. DEFINE fn == fnMap[l].fn
            ref == fn.refs[r]
            reloc == fnMap[l].relocs[r]
<1>1. fn \in Function /\ fnMap[l].relocs \in Seq(BodyRelocation)
  BY FunctionFacts DEF TypeInv
<1>2. AllServe(fnMap[l].relocs, fn.refs) /\ Len(fnMap[l].relocs) = Len(fn.refs)
  BY DEF TypeInv, DriverInv, Finished
<1>3. r \in DOMAIN fnMap[l].relocs
  BY <1>1, <1>2 DEF Function
<1>4. Serves(reloc, ref)
  BY <1>2, <1>3 DEF AllServe
<1>5. ref.at \in Nat
  <2>1. ref \in Reference
    BY <1>1 DEF Function
  <2>. QED BY <2>1 DEF Reference
<1>6. PICK n \in DOMAIN Ordered : Ordered[n] = fnMap[l]
  BY OrderedFacts DEF OrderedOnce, TypeInv
<1>7. n \in 1..Appended /\ stage \in Laid
  <2>1. DOMAIN Ordered = 1..Len(fnMap)
    BY AppendedFacts DEF TypeInv
  <2>. QED BY <1>6, <2>1 DEF Appended, Laid
<1>8. PICK start \in Nat :
        /\ Located(fn.name, ".text", start)
        /\ \A q \in DOMAIN fnMap[l].relocs : \E k \in DOMAIN relocations :
             /\ relocations[k].name = fnMap[l].relocs[q].name
             /\ relocations[k].section = ".text"
             /\ relocations[k].offset = fnMap[l].relocs[q].offset + start
             /\ relocations[k].type = fnMap[l].relocs[q].type
             /\ relocations[k].addend = fnMap[l].relocs[q].addend
  BY <1>6, <1>7 DEF LandInv, FunctionPlaced
<1>9. PICK k \in DOMAIN relocations :
        /\ relocations[k].name = reloc.name /\ relocations[k].section = ".text"
        /\ relocations[k].offset = reloc.offset + start
        /\ relocations[k].type = reloc.type /\ relocations[k].addend = reloc.addend
  BY <1>3, <1>8
<1>10. relocations[k].name = ref.name /\ relocations[k].offset = ref.at + start
       /\ relocations[k].addend = 0
  <2>1. relocations[k].type # "PLT32"
    BY <1>7 DEF LandInv
  <2>. QED BY <1>4, <1>9, <2>1 DEF Serves
<1>11. ".text" \in required
  <2>1. Appended > 0
    BY <1>7, AppendedFacts DEF TypeInv
  <2>. QED BY <2>1 DEF LandInv
<1>12. Field(relocations[k]) \in textFields
  BY <1>9, <1>11 DEF LandInv, TextRelocations
<1>13. getAnySymbol(fn.name).section = ".text" /\ getAnySymbol(fn.name).offset = start
  BY <1>8, LocatedFound DEF TypeInv
<1>14. Known(ref.name)
  BY <1>7, <1>10 DEF TypeInv, ServedInv
<1>15. Address(getAnySymbol(ref.name)) \in Nat /\ AddrOf(".text") \in Nat
  BY <1>7, <1>14, SymbolAddress, AddrType DEF TypeInv
<1>. DEFINE field == Field(relocations[k])
<1>16. /\ field.offset = ref.at + start
       /\ field.value = Address(getAnySymbol(ref.name)) - (AddrOf(".text") + (ref.at + start) + 4) + 0
  BY <1>10 DEF Field, PatchAddr
<1>17. Place(fn, ref) = (AddrOf(".text") + start) + ref.at
  BY <1>13 DEF Place, Address
<1>. HIDE DEF field, fn, ref
<1>18. /\ AddrOf(".text") + field.offset = Place(fn, ref)
       /\ Place(fn, ref) + 4 + field.value = Address(getAnySymbol(ref.name))
  BY <1>5, <1>8, <1>15, <1>16, <1>17
<1>19. Lands(fn, ref)
  BY <1>12, <1>18 DEF Lands, field
<1>. QED BY <1>19 DEF fn, ref

LEMMA CallsFollow == TypeInv /\ LandInv => CallsLand
<1>. SUFFICES ASSUME TypeInv, LandInv PROVE CallsLand
  OBVIOUS
<1>. DEFINE checked(ref) == \/ ref.use \in {"call", "instr"}
                            \/ ref.use = "address" /\ format = "exec"
<1>1. Patched => \A k \in DOMAIN fnMap : \A r \in DOMAIN fnMap[k].fn.refs :
                   checked(fnMap[k].fn.refs[r]) => Lands(fnMap[k].fn, fnMap[k].fn.refs[r])
  BY FromStages, ReferenceLands DEF Patched, MustLand
<1>2. ASSUME From("links"), format = "exec", WithRole("main") # {}
      PROVE  Address(getAnySymbol("main")) = EntryPoint
  <2>1. PICK l \in DOMAIN fnMap : fnMap[l].fn.role = "main"
    BY <1>2 DEF WithRole
  <2>2. fnMap[l].fn.name = "main"
    BY <2>1, FunctionFacts DEF TypeInv
  <2>3. stage \in Laid
    BY <1>2, FromStages
  <2>4. PICK n \in DOMAIN Ordered : Ordered[n] = fnMap[l]
    BY OrderedFacts DEF OrderedOnce, TypeInv
  <2>5. n \in 1..Appended /\ Appended > 0
    <3>1. DOMAIN Ordered = 1..Len(fnMap) /\ Len(fnMap) \in Nat
      BY AppendedFacts DEF TypeInv
    <3>2. Appended = Len(fnMap)
      BY <2>3 DEF Appended, Laid
    <3>. QED BY <2>4, <3>1, <3>2
  <2>6. Located("main", ".text", 0)
    BY <1>2, <2>1, <2>2, <2>4, <2>5 DEF LandInv, FunctionPlaced
  <2>7. getAnySymbol("main").section = ".text" /\ getAnySymbol("main").offset = 0
    BY <2>6, LocatedFound DEF TypeInv
  <2>8. ".text" \in required
    BY <1>2, <2>5 DEF LandInv
  <2>9. AddrOf(".text") \in Nat
    BY <2>3, AddrType DEF TypeInv
  <2>. QED BY <2>7, <2>8, <2>9 DEF Address, EntryPoint
<1>. QED BY <1>1, <1>2 DEF CallsLand, LandsWhere

LEMMA LandUnchanged == ASSUME LandInv, UNCHANGED vars PROVE LandInv'
<1>1. /\ UNCHANGED driverVars /\ UNCHANGED sectionVars /\ UNCHANGED symbolVars /\ UNCHANGED tableVars
      /\ UNCHANGED fileVars /\ stage' = stage /\ relocations' = relocations
      /\ requiredSections' = requiredSections
  BY DEF vars, linkVars
<1>2. /\ Items' = Items /\ Ordered' = Ordered /\ Appended' = Appended /\ format' = format
      /\ hdr' = hdr /\ required' = required /\ textFields' = textFields
      /\ localSymbols' = localSymbols /\ dynamicSymbols' = dynamicSymbols /\ sh_addr' = sh_addr
  BY <1>1 DEF Items, Ordered, Mains, Others, Appended, driverVars, fileVars, sectionVars, symbolVars,
     tableVars
<1>3. ASSUME NEW n PROVE FunctionPlaced(n)' <=> FunctionPlaced(n)
  BY <1>1, <1>2 DEF FunctionPlaced, Located
<1>4. \A name : Undeclared(name)' <=> Undeclared(name)
  BY <1>2 DEF Undeclared
<1>5. {Field(relocations[k]) : k \in TextRelocations}'
        = {Field(relocations[k]) : k \in TextRelocations}
  BY <1>1, <1>2, FieldsKept
<1>. QED BY <1>1, <1>2, <1>3, <1>4, <1>5 DEF LandInv

(* Every call of a written executable or shared object, and every address   *)
(* an executable takes, reaches the function or variable it names, and the  *)
(* executable starts at main.                                               *)
THEOREM CallsAlwaysLand == Spec => []CallsLand
<1>1. Init => TypeInv /\ LandInv
  BY TypeInit, LandInit
<1>2. TypeInv /\ LandInv /\ [Next]_vars => (TypeInv /\ LandInv)'
  BY TypeStep, TypeUnchanged, LandStep, LandUnchanged
<1>3. TypeInv /\ LandInv => CallsLand
  BY CallsFollow
<1>. QED BY <1>1, <1>2, <1>3, PTL DEF Spec

-----------------------------------------------------------------------------
(* Which symbols there are.  What the driver has defined so far is in one   *)
(* of the tables and has a section; what it only asked for is among the     *)
(* dynamic symbols and has none.  What is called is known unless it is      *)
(* declared, and in a module nothing else is asked for.                     *)
Resolved == NamesIn(localSymbols) \cup NamesIn(dynSymEntries)
Reachable(k) == k \in DOMAIN Items /\ (stage = "translate" => k < item)
BeforeModule == {"translate", "append", "module", "aborted"}
Added ==
  {Items[k].name : k \in {l \in DOMAIN Items : Items[l].kind = "var" /\ Reachable(l)}}
    \cup {Ordered[n].fn.name : n \in 1..Appended}
    \cup (IF format = "ko" /\ stage \notin BeforeModule THEN {"this_module"} ELSE {})

DefinedInv ==
  /\ Added \subseteq Resolved
  /\ \A k \in DOMAIN localSymbols : localSymbols[k].section # Undefined
  /\ \A k \in DOMAIN dynamicSymbols :
       dynamicSymbols[k].section # Undefined <=> dynamicSymbols[k].name \in NamesIn(dynSymEntries)
  /\ localSymbols # << >> => SymtabSections \subseteq required

Met(ref) == ref.use \in {"call", "instr"} => Known(ref.name) \/ Declared(ref.name)
AskedInv ==
  /\ \A k \in DOMAIN fnMap : \A r \in DOMAIN fnMap[k].fn.refs : Met(fnMap[k].fn.refs[r])
  /\ \A r \in 1..(refs - 1) : Met(Item.refs[r])
  /\ format = "ko" => \A name \in NamesIn(dynamicSymbols) : LeftToKernel(name)

(* Every function of this format is translated, and what its code refers to *)
(* becomes relocations, and nothing else but the pointers of a module.      *)
WrittenNames == {Items[k].name : k \in Written}
ReferredNames == UNION {{ref.name : ref \in References(k)} : k \in Written}

TranslatedInv ==
  \A k \in Written : Reachable(k) => \E n \in DOMAIN fnMap : fnMap[n].fn = Items[k]

RelocatedInv ==
  /\ \A k \in DOMAIN relocations : relocations[k].name \in WrittenNames \cup ReferredNames
  /\ \A n \in 1..Appended : \A r \in DOMAIN Ordered[n].fn.refs : \E k \in DOMAIN relocations :
       /\ relocations[k].name = Ordered[n].fn.refs[r].name
       /\ format # "ko" => relocations[k].section = ".text"

(* An index, where buildRelaSections looks for one.                         *)
Numbered == {"sizes", "collect", "indices", "symtab", "rela"}
IndexInv ==
  format # "ko" =>
    /\ stage \in Numbered =>
         \A k \in DOMAIN dynamicSymbols :
           dynamicSymbols[k].name \in NamesIn(dynSymEntries) => dynamicSymbols[k].index >= 0
    /\ stage \in {"symtab", "rela"} =>
         \A k \in DOMAIN localSymbols : localSymbols[k].index >= 0

TextDefined == \A k \in TextRelocations : getAnySymbol(relocations[k].name).section # Undefined
OutcomeInv ==
  /\ stage = "aborted" => ~Linkable
  /\ format = "ko" /\ stage \notin BeforeModule => WithRole("init") # {}
  /\ stage \in {"assemble", "done"} /\ format # "ko" /\ ".text" \in required => TextDefined

ResolveInv ==
  TypeInv /\ LandInv /\ DefinedInv /\ AskedInv /\ TranslatedInv /\ RelocatedInv /\ IndexInv /\ OutcomeInv

-----------------------------------------------------------------------------
(* A symbol has a section exactly if it was defined.                        *)
Placed ==
  /\ \A k \in DOMAIN localSymbols : localSymbols[k].section # Undefined
  /\ \A k \in DOMAIN dynamicSymbols :
       dynamicSymbols[k].section # Undefined <=> dynamicSymbols[k].name \in NamesIn(dynSymEntries)

(* What is in a list after a symbol was put there.                          *)
LEMMA PutMembers ==
  ASSUME NEW s \in Seq(SymbolRecord), NEW sym \in SymbolRecord, NEW k \in DOMAIN Put(s, sym)
  PROVE  \/ Put(s, sym)[k] = sym
         \/ k \in DOMAIN s /\ s[k].name # sym.name /\ Put(s, sym)[k] = s[k]
<1>1. CASE sym.name \in NamesIn(s)
  BY <1>1, Zenon DEF Put
<1>2. CASE sym.name \notin NamesIn(s)
  <2>. DEFINE t == Append(s, sym)
  <2>1. \A j \in DOMAIN t : t[j] = sym \/ (j \in DOMAIN s /\ t[j] = s[j])
    OBVIOUS
  <2>2. \A j \in DOMAIN s : s[j].name # sym.name
    BY <1>2 DEF NamesIn
  <2>3. Put(s, sym) = t
    BY <1>2 DEF Put
  <2>. HIDE DEF t
  <2>. QED BY <2>1, <2>2, <2>3
<1>. QED BY <1>1, <1>2

(* A definition is found afterwards, and nothing else changes.              *)
LEMMA DefinitionResolves ==
  ASSUME SymbolInv, Placed, NEW sym \in SymbolRecord, addSymbol(sym), sym.section # Undefined
  PROVE  /\ Placed' /\ Resolved' = Resolved \cup {sym.name}
         /\ NamesIn(localSymbols) \subseteq NamesIn(localSymbols')
         /\ NamesIn(dynamicSymbols) \subseteq NamesIn(dynamicSymbols')
         /\ Exported(sym) => localSymbols' = localSymbols
         /\ ~Exported(sym) => dynamicSymbols' = dynamicSymbols
<1>1. /\ localSymbols \in Seq(SymbolRecord) /\ NamesOnce(localSymbols)
      /\ dynamicSymbols \in Seq(SymbolRecord) /\ NamesOnce(dynamicSymbols)
      /\ dynSymEntries \in Seq(DynEntry)
      /\ NamesIn(dynSymEntries) \subseteq NamesIn(dynamicSymbols)
  BY DEF SymbolInv
<1>2. CASE ~Exported(sym)
  <2>1. /\ localSymbols' = Put(localSymbols, sym) /\ dynamicSymbols' = dynamicSymbols
        /\ dynSymEntries' = dynSymEntries
    BY <1>2 DEF addSymbol
  <2>2. NamesIn(localSymbols') = NamesIn(localSymbols) \cup {sym.name}
    BY <1>1, <2>1, PutFacts
  <2>3. \A k \in DOMAIN localSymbols' : localSymbols'[k].section # Undefined
    BY <1>1, <2>1, PutMembers DEF Placed
  <2>. QED BY <1>2, <2>1, <2>2, <2>3 DEF Placed, Resolved
<1>3. CASE Exported(sym)
  <2>1. PICK new \in SymbolRecord :
          /\ new.name = sym.name /\ new.section = sym.section
          /\ localSymbols' = localSymbols /\ dynamicSymbols' = Put(dynamicSymbols, new)
          /\ \/ sym.name \notin NamesIn(dynSymEntries)
                /\ dynSymEntries' = Append(dynSymEntries, [name |-> sym.name, type |-> sym.type])
             \/ sym.name \in NamesIn(dynSymEntries) /\ dynSymEntries' = dynSymEntries
    <3>1. CASE sym.name \notin NamesIn(dynSymEntries)
      BY <1>3, <3>1 DEF addSymbol
    <3>2. CASE sym.name \in NamesIn(dynSymEntries)
      <4>. DEFINE old == Find(dynamicSymbols, sym.name)
                  new == [sym EXCEPT !.type = old.type, !.index = old.index]
      <4>1. old \in SymbolRecord
        BY <1>1, <3>2, FindFacts
      <4>2. new \in SymbolRecord /\ new.name = sym.name /\ new.section = sym.section
        BY <4>1 DEF SymbolRecord
      <4>3. localSymbols' = localSymbols /\ dynamicSymbols' = Put(dynamicSymbols, new)
            /\ dynSymEntries' = dynSymEntries
        BY <1>3, <3>2, Zenon DEF addSymbol
      <4>. HIDE DEF new
      <4>. QED BY <3>2, <4>2, <4>3
    <3>. QED BY <3>1, <3>2
  <2>2. NamesIn(dynamicSymbols') = NamesIn(dynamicSymbols) \cup {sym.name}
    <3>1. NamesIn(Put(dynamicSymbols, new)) = NamesIn(dynamicSymbols) \cup {new.name}
      BY <1>1, PutFacts
    <3>. QED BY <2>1, <3>1
  <2>3. NamesIn(dynSymEntries') = NamesIn(dynSymEntries) \cup {sym.name}
    <3>1. CASE sym.name \notin NamesIn(dynSymEntries)
      <4>. DEFINE added == [name |-> sym.name, type |-> sym.type]
                  t == Append(dynSymEntries, added)
      <4>1. /\ \A k \in DOMAIN t : (k \in DOMAIN dynSymEntries /\ t[k] = dynSymEntries[k]) \/ t[k] = added
            /\ \A k \in DOMAIN dynSymEntries : k \in DOMAIN t /\ t[k] = dynSymEntries[k]
            /\ \E k \in DOMAIN t : t[k] = added
        <5>1. /\ DOMAIN t = 1..(Len(dynSymEntries) + 1) /\ Len(dynSymEntries) \in Nat
              /\ DOMAIN dynSymEntries = 1..Len(dynSymEntries)
              /\ t[Len(dynSymEntries) + 1] = added
              /\ \A k \in 1..Len(dynSymEntries) : t[k] = dynSymEntries[k]
          BY <1>1
        <5>. HIDE DEF t, added
        <5>. QED BY <5>1
      <4>2. dynSymEntries' = t /\ added.name = sym.name
        BY <2>1, <3>1
      <4>. HIDE DEF t, added
      <4>. QED BY <4>1, <4>2 DEF NamesIn
    <3>. QED BY <2>1, <3>1
  <2>4. \A k \in DOMAIN dynamicSymbols' :
          dynamicSymbols'[k].section # Undefined <=> dynamicSymbols'[k].name \in NamesIn(dynSymEntries')
    BY <1>1, <2>1, <2>3, PutMembers DEF Placed
  <2>. QED BY <1>3, <2>1, <2>2, <2>3, <2>4 DEF Placed, Resolved
<1>. QED BY <1>2, <1>3

(* Asking for a symbol makes it known and defines nothing.                  *)
LEMMA RequestKnown ==
  ASSUME SymbolInv, Placed, NEW name \in SymbolNames, requireSymbol(name)
  PROVE  /\ Placed' /\ Resolved' = Resolved /\ localSymbols' = localSymbols
         /\ NamesIn(dynamicSymbols) \subseteq NamesIn(dynamicSymbols')
         /\ NamesIn(dynamicSymbols') \subseteq NamesIn(dynamicSymbols) \cup {name}
         /\ Known(name)'
<1>1. dynamicSymbols \in Seq(SymbolRecord) /\ NamesOnce(dynamicSymbols)
      /\ NamesIn(dynSymEntries) \subseteq NamesIn(dynamicSymbols)
  BY DEF SymbolInv
<1>2. localSymbols' = localSymbols /\ dynSymEntries' = dynSymEntries
  BY DEF requireSymbol
<1>3. CASE Known(name)
  BY <1>2, <1>3 DEF requireSymbol, Placed, Resolved, Known
<1>4. CASE ~Known(name)
  <2>. DEFINE sym == Symbol(name, Undefined, 0, 0, "FUNC", "GLOBAL")
              t == Append(dynamicSymbols, sym)
  <2>1. dynamicSymbols' = t
    BY <1>4 DEF requireSymbol
  <2>2. sym \in SymbolRecord /\ sym.name = name /\ sym.section = Undefined
    BY DEF Symbol, SymbolRecord
  <2>3. name \notin NamesIn(dynamicSymbols)
    BY <1>4 DEF Known
  <2>. HIDE DEF sym
  <2>4. \A k \in DOMAIN t : t[k] = sym \/ (k \in DOMAIN dynamicSymbols /\ t[k] = dynamicSymbols[k])
    BY <1>1
  <2>5. NamesIn(t) = NamesIn(dynamicSymbols) \cup {name}
    BY <1>1, <2>2, <2>3, AppendFacts
  <2>. HIDE DEF t
  <2>6. name \notin NamesIn(dynSymEntries)
    BY <1>1, <2>3
  <2>7. \A k \in DOMAIN t : t[k].section # Undefined <=> t[k].name \in NamesIn(dynSymEntries)
    BY <2>2, <2>4, <2>6 DEF Placed
  <2>8. Placed'
    BY <1>2, <2>1, <2>7 DEF Placed
  <2>. QED BY <1>2, <2>1, <2>5, <2>8 DEF Resolved, Known
<1>. QED BY <1>3, <1>4

LEMMA RenumberingResolves ==
  ASSUME Placed, Renumbered(localSymbols, localSymbols'), Renumbered(dynamicSymbols, dynamicSymbols'),
         dynSymEntries' = dynSymEntries
  PROVE  /\ Placed' /\ Resolved' = Resolved
         /\ NamesIn(localSymbols') = NamesIn(localSymbols)
         /\ NamesIn(dynamicSymbols') = NamesIn(dynamicSymbols)
<1>1. /\ NamesIn(localSymbols') = NamesIn(localSymbols)
      /\ NamesIn(dynamicSymbols') = NamesIn(dynamicSymbols)
  BY RenumberedKeeps
<1>. QED BY <1>1 DEF Placed, Renumbered, Resolved

(* What is looked up has a section exactly if it was defined.               *)
LEMMA FoundPlaced ==
  ASSUME SymbolInv, Placed, NEW name, Known(name)
  PROVE  getAnySymbol(name).section # Undefined <=> name \in Resolved
<1>1. CASE name \in NamesIn(localSymbols)
  <2>1. PICK k \in DOMAIN localSymbols : Find(localSymbols, name) = localSymbols[k]
    BY <1>1, FindFacts
  <2>. QED BY <1>1, <2>1 DEF getAnySymbol, Placed, Resolved
<1>2. CASE name \notin NamesIn(localSymbols)
  <2>1. PICK k \in DOMAIN dynamicSymbols : /\ Find(dynamicSymbols, name) = dynamicSymbols[k]
                                           /\ dynamicSymbols[k].name = name
    BY <1>2, FindFacts DEF Known
  <2>. QED BY <1>2, <2>1 DEF getAnySymbol, Placed, Resolved
<1>. QED BY <1>1, <1>2

(* What a step does to the tables of symbols.                               *)
Holding == Relocated \cup {".data", ".rodata"}
Defines(sym) ==
  /\ addSymbol(sym) /\ sym.section # Undefined
  /\ required \subseteq required' /\ SymbolSections(sym) \subseteq required'
  /\ sym.section \in Holding /\ sym.section \in required'
  /\ \/ TranslateVariable /\ sym.name = Item.name /\ sym.binding = Item.binding
     \/ /\ AppendFunction /\ sym.name = Ordered[item].fn.name
        /\ sym.binding = "GLOBAL" <=> Ordered[item].fn.public \/ Ordered[item].fn.role = "main"
     \/ CreateThisModule /\ sym.name = "this_module"
AsksFor(name) ==
  /\ requireSymbol(name) /\ required \subseteq required'
  /\ \/ StartFunction /\ format # "ko"
     \/ TranslateReference /\ External(Item.refs[refs]) /\ name = Item.refs[refs].name
Renumbers ==
  /\ Renumbered(localSymbols, localSymbols') /\ Renumbered(dynamicSymbols, dynamicSymbols')
  /\ dynSymEntries' = dynSymEntries /\ required \subseteq required'
  /\ ~TranslateVariable /\ ~AppendFunction /\ ~CreateThisModule
  /\ TranslateReference => ~External(Item.refs[refs])

LEMMA UndefinedNoSection == \A name \in Names : name # Undefined
BY NameFacts DEF Undefined, BaseNames, AddedSections, RelaNames

LEMMA RequiredStays == ASSUME TypeInv, Next PROVE required \subseteq required'
<1>1. CASE Translate
  BY <1>1 DEF Translate, TranslateVariable, TranslateModinfo, SkipFunction, StartFunction,
     TranslateReference, FinishFunction, StartAppend, AppendFunction, FinishAppend, CreateThisModule,
     NoInitFunction, CreateVersions, sectionVars, requireSymbol, EnableDynamicLinking
<1>2. CASE PrepareDynamic \/ PrepareRelocatable \/ UpdateInitialSectionSizes \/ CollectSections
  BY <1>2 DEF PrepareDynamic, PrepareRelocatable, UpdateInitialSectionSizes, CollectSections, sectionVars
<1>3. ASSUME Next PROVE Translate \/ PrepareDynamic \/ PrepareRelocatable
                        \/ UpdateInitialSectionSizes \/ CollectSections \/ stage \in Collected
  BY <1>3 DEF Next, Compile, AssignSymbolIndices, BuildFinalSymtabData, BuildRelaDynamic,
     BuildRelaRelocatable, FinalizeSizes, FinalizeLayout, LayoutDone, SetSectionLinks,
     PatchSymbolTableAddresses, PatchDynSymAddresses, PatchDynamicSection, PatchTextRelocations,
     AssembleFinalElf, Finish, Pass, Collected, Laid
<1>. QED BY <1>1, <1>2, <1>3, RequiredKept

LEMMA SymbolOperations ==
  ASSUME TypeInv, Next
  PROVE  \/ \E sym \in SymbolRecord : Defines(sym)
         \/ \E name \in SymbolNames : AsksFor(name)
         \/ Renumbers
<1>1. DriverInv /\ SectionInv /\ HeaderInv /\ SymbolInv /\ FileInv
  BY DEF TypeInv
<1>2. required \subseteq required'
  BY RequiredStays
<1>3. CASE TranslateVariable
  <2>. DEFINE start == Layout!AlignTo(hdr[Item.section].len, AlignOf(Item.section))
              sym == Symbol(Item.name, Item.section, start, Item.size, "OBJECT", Item.binding)
  <2>1. /\ addSymbol(sym) /\ item \in DOMAIN Items /\ Item.kind = "var"
        /\ SymbolSections(sym) \subseteq required'
    BY <1>1, <1>3, ProgramsAssumption
       DEF TranslateVariable, Translating, Items, DriverInv, Reached
  <2>2. Item \in Variable
    BY <1>1, <2>1, ProgramType DEF Item, DriverInv
  <2>3. Item.section \in Names
    BY <2>2, Prefix DEF Variable, BaseNames
  <2>4. start \in Nat
    <3>1. hdr[Item.section].len \in Nat
      BY <1>1, <2>3, HeaderFields DEF HeaderInv
    <3>. QED BY <3>1, AlignFacts
  <2>. HIDE DEF start
  <2>5. /\ sym \in SymbolRecord /\ sym.name = Item.name /\ sym.section # Undefined
        /\ sym.binding = Item.binding /\ sym.section = Item.section
    BY <2>2, <2>3, <2>4, UndefinedNoSection DEF Symbol, SymbolRecord, Variable
  <2>6. Item.section \in Holding /\ Item.section \in required'
    BY <1>3, <2>2 DEF TranslateVariable, Variable, Holding
  <2>. HIDE DEF sym
  <2>7. PICK new \in SymbolRecord : new = sym
    BY <2>5
  <2>. QED BY <1>2, <1>3, <2>1, <2>5, <2>6, <2>7 DEF Defines
<1>4. CASE AppendFunction
  <2>. DEFINE fn == Ordered[item].fn
              section == TargetSection(fn)
              start == hdr[section].len
              sym == Symbol(fn.name, section, start, fn.size, "FUNC",
                            IF fn.public \/ fn.role = "main" THEN "GLOBAL" ELSE "LOCAL")
  <2>1. /\ fn \in Function /\ section \in Relocated \cap Names /\ hdr[section] \in Header
    BY <1>4, NextFunction
  <2>2. addSymbol(sym) /\ SymbolSections(sym) \subseteq required'
    BY <1>4 DEF AppendFunction
  <2>3. start \in Nat
    BY <2>1, HeaderFields
  <2>4. section \in required'
    BY <1>4 DEF AppendFunction
  <2>. HIDE DEF start, section
  <2>5. /\ sym \in SymbolRecord /\ sym.name = fn.name /\ sym.section # Undefined
        /\ sym.section = section /\ (sym.binding = "GLOBAL" <=> fn.public \/ fn.role = "main")
    BY <2>1, <2>3, UndefinedNoSection DEF Symbol, SymbolRecord, Function
  <2>6. sym.section \in Holding /\ sym.section \in required'
    BY <2>1, <2>4, <2>5 DEF Holding
  <2>. HIDE DEF sym
  <2>7. PICK new \in SymbolRecord : new = sym
    BY <2>5
  <2>. QED BY <1>2, <1>4, <2>2, <2>5, <2>6, <2>7 DEF Defines
<1>5. CASE CreateThisModule
  <2>. DEFINE sym == Symbol("this_module", ".gnu.linkonce.this_module", 0, MODULESIZE, "OBJECT", "GLOBAL")
  <2>1. addSymbol(sym) /\ SymbolSections(sym) \subseteq required'
    BY <1>5 DEF CreateThisModule
  <2>2. ".gnu.linkonce.this_module" \in Names
    BY NameFacts DEF AddedSections
  <2>3. sym \in SymbolRecord /\ sym.section # Undefined /\ sym.name = "this_module"
    BY <2>2, HashAssumption, UndefinedNoSection DEF Symbol, SymbolRecord, MODULESIZE
  <2>4. sym.section \in Holding /\ sym.section \in required'
    BY <1>5 DEF CreateThisModule, Holding, Relocated, Symbol
  <2>. HIDE DEF sym
  <2>5. PICK new \in SymbolRecord : new = sym
    BY <2>3
  <2>. QED BY <1>2, <1>5, <2>1, <2>3, <2>4, <2>5 DEF Defines
<1>6. CASE StartFunction \/ TranslateReference
  <2>1. /\ item \in DOMAIN Items /\ Item.kind = "fn" /\ stage = "translate"
    BY <1>1, <1>6, ProgramsAssumption
       DEF StartFunction, TranslateReference, Translating, Items, DriverInv, Reached
  <2>2. Item \in Function
    BY <1>1, <2>1, ProgramType DEF Item, DriverInv
  <2>3. Item.name \in SymbolNames /\ (refs \in DOMAIN Item.refs => Item.refs[refs].name \in SymbolNames)
    <3>1. Item.name \in SymbolNames /\ Item.refs \in Seq(Reference)
      BY <2>2 DEF Function
    <3>2. refs \in DOMAIN Item.refs => Item.refs[refs] \in Reference
      BY <3>1
    <3>. QED BY <3>1, <3>2 DEF Reference
  <2>4. ~TranslateVariable /\ ~AppendFunction /\ ~CreateThisModule
    BY <2>1 DEF TranslateVariable, AppendFunction, CreateThisModule, Translating
  <2>5. UNCHANGED symbolVars => /\ Renumbered(localSymbols, localSymbols')
                                /\ Renumbered(dynamicSymbols, dynamicSymbols')
                                /\ dynSymEntries' = dynSymEntries
    BY <1>1, RenumberStep
  <2>6. CASE StartFunction
    <3>1. ~TranslateReference
      <4>1. refs = 0 /\ Item.refs \in Seq(Reference)
        BY <2>2, <2>6 DEF StartFunction, Function
      <4>2. refs \notin DOMAIN Item.refs
        BY <4>1
      <4>. QED BY <4>2 DEF TranslateReference
    <3>. QED BY <1>2, <2>3, <2>4, <2>5, <2>6, <3>1 DEF StartFunction, AsksFor, Renumbers
  <2>7. CASE TranslateReference
    BY <1>2, <2>3, <2>4, <2>5, <2>7 DEF TranslateReference, AsksFor, Renumbers
  <2>. QED BY <1>6, <2>6, <2>7
<1>7. CASE PrepareDynamic \/ AssignSymbolIndices \/ BuildFinalSymtabData
  <2>1. ~AppendFunction /\ ~TranslateVariable /\ ~TranslateReference /\ ~CreateThisModule
    BY <1>7 DEF AppendFunction, CreateThisModule, PrepareDynamic, AssignSymbolIndices, BuildFinalSymtabData, Pass,
       TranslateVariable, TranslateReference, Translating
  <2>. QED BY <1>1, <1>2, <1>7, <2>1, RenumberStep DEF Renumbers
<1>8. ASSUME \/ TranslateModinfo \/ SkipFunction \/ FinishFunction \/ StartAppend \/ FinishAppend
             \/ NoInitFunction \/ CreateVersions \/ PrepareRelocatable \/ UpdateInitialSectionSizes
             \/ CollectSections \/ BuildRelaDynamic \/ BuildRelaRelocatable \/ FinalizeSizes
             \/ FinalizeLayout \/ LayoutDone \/ SetSectionLinks \/ PatchSymbolTableAddresses
             \/ PatchDynSymAddresses \/ PatchDynamicSection \/ PatchTextRelocations
             \/ AssembleFinalElf \/ Finish
      PROVE  UNCHANGED symbolVars
  BY <1>8 DEF TranslateModinfo, SkipFunction, FinishFunction, StartAppend, FinishAppend,
     NoInitFunction, CreateVersions, PrepareRelocatable, UpdateInitialSectionSizes,
     CollectSections, BuildRelaDynamic, BuildRelaRelocatable, FinalizeSizes,
     FinalizeLayout, LayoutDone, SetSectionLinks, PatchSymbolTableAddresses,
     PatchDynSymAddresses, PatchDynamicSection, PatchTextRelocations, AssembleFinalElf, Finish,
     symbolVars, linkVars
<1>9. CASE /\ UNCHANGED symbolVars /\ ~TranslateVariable /\ ~AppendFunction /\ ~CreateThisModule
           /\ ~TranslateReference
  BY <1>1, <1>2, <1>9, RenumberStep DEF Renumbers
<1>. QED BY <1>3, <1>4, <1>5, <1>6, <1>7, <1>8, <1>9 DEF Next, Translate, Compile

(* What a step does to the place of the driver in the program.              *)
Moves ==
  \/ /\ TranslateVariable \/ TranslateModinfo \/ SkipFunction
     /\ Item.kind = "var" <=> TranslateVariable
     /\ item \notin Written /\ item' = item + 1 /\ UNCHANGED <<refs, fnMap, stage>>
  \/ /\ StartFunction
     /\ refs = 0 /\ refs' = 1 /\ Item.kind = "fn" /\ UNCHANGED <<item, fnMap, stage>>
  \/ /\ TranslateReference
     /\ refs \in DOMAIN Item.refs /\ refs' = refs + 1 /\ Item.kind = "fn"
     /\ UNCHANGED <<item, fnMap, stage>>
  \/ /\ FinishFunction
     /\ refs = Len(Item.refs) + 1 /\ refs' = 0 /\ item' = item + 1 /\ Item.kind = "fn"
     /\ fnMap' = Append(fnMap, [fn |-> Item, relocs |-> body]) /\ UNCHANGED stage
MovesOn ==
  /\ ~TranslateVariable /\ fnMap' = fnMap /\ refs' = refs /\ stage' # "translate"
  /\ stage = "translate" => item > Len(Items)

LEMMA DriverMoves ==
  ASSUME TypeInv, Next
  PROVE  /\ prog' = prog /\ format' = format /\ Items' = Items /\ Written' = Written
         /\ \/ Moves /\ stage = "translate" /\ item \in DOMAIN Items
            \/ MovesOn
<1>1. DriverInv /\ prog' = prog /\ format' = format /\ Items' = Items
  BY AppendedStep DEF TypeInv
<1>2. Written' = Written
  BY <1>1 DEF Written, Skipped
<1>3. CASE Translating("var") \/ Translating("modinfo") \/ Translating("fn")
  <2>1. stage = "translate" /\ item \in DOMAIN Items /\ item \in Nat /\ Len(Items) \in Nat
    BY <1>1, <1>3, ProgramsAssumption DEF Translating, Items, DriverInv, Reached
  <2>2. stage \notin {"append", "module", "versions", "prepare"} /\ item <= Len(Items)
    BY <1>3, <2>1 DEF Translating
  <2>3. CASE TranslateVariable
    <3>1. item' = item + 1 /\ UNCHANGED <<refs, fnMap, stage>> /\ Item.kind = "var"
      BY <2>3 DEF TranslateVariable, Translating
    <3>2. item \notin Written
      BY <3>1 DEF Written, Item
    <3>. QED BY <1>1, <1>2, <2>1, <2>3, <3>1, <3>2 DEF Moves
  <2>4. CASE TranslateModinfo
    <3>1. item' = item + 1 /\ UNCHANGED <<refs, fnMap, stage>> /\ Item.kind = "modinfo"
      BY <2>4 DEF TranslateModinfo, Translating
    <3>2. item \notin Written /\ ~TranslateVariable
      BY <3>1 DEF Written, Item, TranslateVariable, Translating
    <3>. QED BY <1>1, <1>2, <2>1, <2>4, <3>1, <3>2 DEF Moves
  <2>5. CASE SkipFunction
    <3>1. item' = item + 1 /\ UNCHANGED <<refs, fnMap, stage>> /\ Item.kind = "fn" /\ Skipped(Item)
      BY <2>5 DEF SkipFunction, Translating
    <3>2. item \notin Written /\ ~TranslateVariable
      BY <3>1 DEF Written, Item, TranslateVariable, Translating
    <3>. QED BY <1>1, <1>2, <2>1, <2>5, <3>1, <3>2 DEF Moves
  <2>6. CASE StartFunction
    BY <1>1, <1>2, <2>1, <2>6 DEF Moves, StartFunction, Translating
  <2>7. CASE TranslateReference
    BY <1>1, <1>2, <2>1, <2>7 DEF Moves, TranslateReference, Translating
  <2>8. CASE FinishFunction
    BY <1>1, <1>2, <2>1, <2>8 DEF Moves, FinishFunction, Translating
  <2>9. ASSUME Translate
        PROVE  \/ TranslateVariable \/ TranslateModinfo \/ SkipFunction \/ StartFunction
               \/ TranslateReference \/ FinishFunction
    BY <2>1, <2>2, <2>9 DEF Translate, StartAppend, AppendFunction, FinishAppend, CreateThisModule,
       NoInitFunction, CreateVersions
  <2>10. ~Compile
    BY <1>1, <2>1, Passes
  <2>. QED BY <2>3, <2>4, <2>5, <2>6, <2>7, <2>8, <2>9, <2>10 DEF Next
<1>4. CASE ~(Translating("var") \/ Translating("modinfo") \/ Translating("fn"))
  <2>1. /\ ~TranslateVariable /\ ~TranslateModinfo /\ ~SkipFunction /\ ~StartFunction
        /\ ~TranslateReference /\ ~FinishFunction
    BY <1>4 DEF TranslateVariable, TranslateModinfo, SkipFunction, StartFunction, TranslateReference,
       FinishFunction
  <2>2. CASE StartAppend
    BY <1>1, <1>2, <2>1, <2>2 DEF StartAppend, MovesOn
  <2>3. CASE AppendFunction \/ FinishAppend \/ CreateThisModule \/ NoInitFunction \/ CreateVersions
    <3>1. stage # "translate" /\ stage' # "translate" /\ fnMap' = fnMap /\ refs' = refs
      BY <2>3 DEF AppendFunction, FinishAppend, CreateThisModule, NoInitFunction, CreateVersions,
         driverVars
    <3>. QED BY <1>1, <1>2, <2>1, <3>1 DEF MovesOn
  <2>4. CASE Compile
    BY <1>1, <1>2, <2>1, <2>4, Passes DEF MovesOn, driverVars
  <2>. QED BY <2>1, <2>2, <2>3, <2>4 DEF Next, Translate
<1>. QED BY <1>3, <1>4

(* Every function of the format is translated before any is appended.       *)
LEMMA TranslatedStep == ASSUME TypeInv, TranslatedInv, Next PROVE TranslatedInv'
<1>1. /\ Items' = Items /\ Written' = Written
      /\ (Moves /\ stage = "translate" /\ item \in DOMAIN Items) \/ MovesOn
  BY DriverMoves
<1>2. item \in Nat /\ fnMap \in Seq(Translated) /\ DOMAIN Items = 1..Len(Items) /\ Len(Items) \in Nat
  BY ProgramsAssumption DEF TypeInv, DriverInv, Reached, Finished, Items
<1>. SUFFICES ASSUME NEW k \in Written', Reachable(k)'
              PROVE  \E n \in DOMAIN fnMap' : fnMap'[n].fn = Items'[k]
  BY DEF TranslatedInv
<1>3. k \in Written /\ k \in DOMAIN Items /\ k \in Nat
  BY <1>1, <1>2 DEF Written
<1>4. CASE MovesOn
  <2>1. Reachable(k)
    BY <1>2, <1>3, <1>4 DEF MovesOn, Reachable
  <2>. QED BY <1>1, <1>3, <1>4, <2>1 DEF TranslatedInv, MovesOn
<1>5. CASE Moves /\ stage = "translate" /\ fnMap' = fnMap /\ stage' = stage
           /\ (item' = item \/ (item' = item + 1 /\ item \notin Written))
  <2>1. k # item \/ item' = item
    BY <1>3, <1>5
  <2>2. Reachable(k)
    BY <1>2, <1>3, <1>5, <2>1 DEF Reachable
  <2>. QED BY <1>1, <1>3, <1>5, <2>2 DEF TranslatedInv
<1>6. CASE /\ stage = "translate" /\ stage' = stage /\ item' = item + 1
           /\ fnMap' = Append(fnMap, [fn |-> Item, relocs |-> body])
  <2>. DEFINE new == [fn |-> Item, relocs |-> body]
              t == Append(fnMap, new)
  <2>1. /\ \A n \in DOMAIN fnMap : n \in DOMAIN t /\ t[n] = fnMap[n]
        /\ \E n \in DOMAIN t : t[n] = new
    <3>1. /\ DOMAIN t = 1..(Len(fnMap) + 1) /\ Len(fnMap) \in Nat /\ DOMAIN fnMap = 1..Len(fnMap)
          /\ t[Len(fnMap) + 1] = new /\ \A n \in 1..Len(fnMap) : t[n] = fnMap[n]
      BY <1>2
    <3>. HIDE DEF t, new
    <3>. QED BY <3>1
  <2>2. fnMap' = t /\ new.fn = Item
    BY <1>6
  <2>. HIDE DEF t, new
  <2>3. CASE k = item
    BY <1>1, <2>1, <2>2, <2>3 DEF Item
  <2>4. CASE k # item
    <3>1. Reachable(k)
      BY <1>2, <1>3, <1>6, <2>4 DEF Reachable
    <3>. QED BY <1>1, <1>3, <2>1, <2>2, <3>1 DEF TranslatedInv
  <2>. QED BY <2>3, <2>4
<1>. QED BY <1>1, <1>4, <1>5, <1>6 DEF Moves

LEMMA ModuleReached ==
  ASSUME Next, stage' \notin BeforeModule, format = "ko"
  PROVE  stage \notin BeforeModule \/ CreateThisModule
<1>1. CASE Compile
  BY <1>1, Passes DEF BeforeModule
<1>2. CASE Translate
  BY <1>2 DEF Translate, TranslateVariable, TranslateModinfo, SkipFunction, StartFunction,
     TranslateReference, FinishFunction, StartAppend, AppendFunction, FinishAppend,
     NoInitFunction, CreateVersions, Translating, BeforeModule
<1>. QED BY <1>1, <1>2 DEF Next

(* What is defined when a step was taken, and how it came to that.          *)
LEMMA AddedStep ==
  ASSUME TypeInv, Next, NEW name \in Added'
  PROVE  \/ name \in Added
         \/ TranslateVariable /\ name = Item.name
         \/ AppendFunction /\ name = Ordered[item].fn.name
         \/ CreateThisModule /\ name = "this_module"
<1>1. /\ Items' = Items
      /\ (Moves /\ stage = "translate" /\ item \in DOMAIN Items) \/ MovesOn
  BY DriverMoves
<1>2. item \in Nat /\ DOMAIN Items = 1..Len(Items) /\ Len(Items) \in Nat /\ DriverInv
  BY ProgramsAssumption DEF TypeInv, DriverInv, Reached, Items
<1>3. CASE \E k \in DOMAIN Items' : Items'[k].kind = "var" /\ Reachable(k)' /\ name = Items'[k].name
  <2>1. PICK k \in DOMAIN Items : Items[k].kind = "var" /\ Reachable(k)' /\ name = Items[k].name
    BY <1>1, <1>3
  <2>2. k \in Nat
    BY <1>2
  <2>3. Reachable(k) => name \in Added
    BY <2>1 DEF Added
  <2>4. CASE MovesOn
    <3>1. Reachable(k)
      BY <1>2, <2>1, <2>2, <2>4 DEF MovesOn, Reachable
    <3>. QED BY <2>3, <3>1
  <2>5. CASE Moves /\ stage = "translate"
    <3>1. CASE k = item
      <4>1. Item.kind = "var" /\ name = Item.name
        BY <2>1, <3>1 DEF Item
      <4>2. CASE TranslateVariable
        BY <4>1, <4>2
      <4>3. CASE ~TranslateVariable
        <5>1. FALSE
          BY <1>2, <2>5, <3>1, <2>1, <4>1, <4>3 DEF Moves, Reachable
        <5>. QED BY <5>1
      <4>. QED BY <4>2, <4>3
    <3>2. CASE k # item
      <4>1. stage' = "translate" /\ (item' = item \/ item' = item + 1)
        BY <2>5 DEF Moves
      <4>2. Reachable(k)
        BY <1>2, <2>1, <2>2, <3>2, <4>1 DEF Reachable
      <4>. QED BY <2>3, <4>2
    <3>. QED BY <3>1, <3>2
  <2>. QED BY <1>1, <2>4, <2>5
<1>4. CASE \E n \in 1..Appended' : name = Ordered'[n].fn.name
  <2>1. PICK n \in 1..Appended' : name = Ordered'[n].fn.name
    BY <1>4
  <2>2. CASE stage = "translate" /\ stage' = "translate"
    BY <2>1, <2>2 DEF Appended
  <2>3. CASE AppendFunction /\ Appended = item - 1 /\ Appended' = item /\ Ordered' = Ordered
    <3>1. n = item \/ n \in 1..Appended
      BY <1>2, <2>1, <2>3
    <3>. QED BY <2>1, <2>3, <3>1 DEF Added
  <2>4. CASE Appended' = Appended /\ Ordered' = Ordered
    BY <2>1, <2>4 DEF Added
  <2>. QED BY <1>2, <2>2, <2>3, <2>4, AppendedStep
<1>5. CASE format' = "ko" /\ stage' \notin BeforeModule /\ name = "this_module"
  <2>1. format = "ko" => (stage \notin BeforeModule \/ CreateThisModule)
    BY <1>5, ModuleReached
  <2>2. format' = format
    BY <1>2, AppendedStep
  <2>. QED BY <1>5, <2>1, <2>2 DEF Added
<1>. QED BY <1>3, <1>4, <1>5 DEF Added

LEMMA DefinedStep == ASSUME TypeInv, DefinedInv, Next PROVE DefinedInv'
<1>1. Placed /\ SymbolInv /\ Added \subseteq Resolved
  BY DEF DefinedInv, Placed, TypeInv
<1>2. CASE \E sym \in SymbolRecord : Defines(sym)
  <2>1. PICK sym \in SymbolRecord : Defines(sym)
    BY <1>2
  <2>2. Placed' /\ Resolved' = Resolved \cup {sym.name} /\ (Exported(sym) => localSymbols' = localSymbols)
    BY <1>1, <2>1, DefinitionResolves DEF Defines
  <2>3. ~(TranslateVariable /\ AppendFunction)
    BY DEF TranslateVariable, AppendFunction, Translating
  <2>4. Added' \subseteq Resolved'
    <3>. SUFFICES ASSUME NEW name \in Added' PROVE name \in Resolved'
      OBVIOUS
    <3>1. ~(CreateThisModule /\ (TranslateVariable \/ AppendFunction))
      BY DEF CreateThisModule, TranslateVariable, AppendFunction, Translating
    <3>. QED BY <1>1, <2>1, <2>2, <2>3, <3>1, AddedStep DEF Defines
  <2>5. localSymbols' # << >> => SymtabSections \subseteq required'
    BY <2>1, <2>2 DEF Defines, SymbolSections, DefinedInv
  <2>. QED BY <2>2, <2>4, <2>5 DEF DefinedInv, Placed
<1>3. CASE \E name \in SymbolNames : AsksFor(name)
  <2>1. PICK asked \in SymbolNames : AsksFor(asked)
    BY <1>3
  <2>2. Placed' /\ Resolved' = Resolved /\ localSymbols' = localSymbols /\ required \subseteq required'
    BY <1>1, <2>1, RequestKnown DEF AsksFor
  <2>3. stage = "translate" /\ ~TranslateVariable /\ ~AppendFunction /\ ~CreateThisModule
    <3>1. Translating("fn")
      BY <2>1 DEF AsksFor, StartFunction, TranslateReference
    <3>. QED BY <3>1 DEF TranslateVariable, AppendFunction, CreateThisModule, Translating
  <2>4. Added' \subseteq Resolved'
    BY <1>1, <2>2, <2>3, AddedStep
  <2>. QED BY <2>2, <2>4 DEF DefinedInv, Placed
<1>4. CASE Renumbers
  <2>1. Placed' /\ Resolved' = Resolved
    BY <1>1, <1>4, RenumberingResolves DEF Renumbers
  <2>2. Added' \subseteq Resolved'
    BY <1>1, <1>4, <2>1, AddedStep DEF Renumbers
  <2>3. localSymbols' # << >> => localSymbols # << >>
    <3>1. /\ localSymbols' \in Seq(SymbolRecord) /\ localSymbols \in Seq(SymbolRecord)
          /\ DOMAIN localSymbols' = DOMAIN localSymbols
      BY <1>1, <1>4 DEF Renumbers, Renumbered, SymbolInv
    <3>. QED BY <3>1
  <2>. QED BY <1>4, <2>1, <2>2, <2>3 DEF DefinedInv, Placed, Renumbers
<1>. QED BY <1>2, <1>3, <1>4, SymbolOperations

(* What is known or declared stays so.                                      *)
LEMMA KnownStays ==
  ASSUME TypeInv, DefinedInv, Next, NEW name
  PROVE  /\ Known(name) => Known(name)'
         /\ Declared(name) => Declared(name)'
<1>1. SymbolInv /\ Placed
  BY DEF TypeInv, DefinedInv, Placed
<1>2. Known(name) => Known(name)'
  <2>1. CASE \E sym \in SymbolRecord : Defines(sym)
    BY <1>1, <2>1, DefinitionResolves DEF Defines, Known
  <2>2. CASE \E asked \in SymbolNames : AsksFor(asked)
    BY <1>1, <2>2, RequestKnown DEF AsksFor, Known
  <2>3. CASE Renumbers
    BY <1>1, <2>3, RenumberingResolves DEF Renumbers, Known
  <2>. QED BY <2>1, <2>2, <2>3, SymbolOperations
<1>3. \A k \in DOMAIN fnMap : k \in DOMAIN fnMap' /\ fnMap'[k].fn = fnMap[k].fn
  <2>1. CASE fnMap' = fnMap
    BY <2>1
  <2>2. CASE \E entry : fnMap' = Append(fnMap, entry)
    <3>1. fnMap \in Seq(Translated)
      BY DEF TypeInv, DriverInv, Finished
    <3>2. PICK entry : fnMap' = Append(fnMap, entry)
      BY <2>2
    <3>3. \A k \in DOMAIN fnMap : k \in DOMAIN Append(fnMap, entry) /\ Append(fnMap, entry)[k] = fnMap[k]
      <4>1. DOMAIN fnMap = 1..Len(fnMap) /\ Len(fnMap) \in Nat
        BY <3>1
      <4>. QED BY <4>1
    <3>. QED BY <3>2, <3>3
  <2>. QED BY <2>1, <2>2, DriverMoves DEF Moves, MovesOn
<1>4. Items' = Items /\ prog' = prog
  BY DriverMoves
<1>. QED BY <1>2, <1>3, <1>4 DEF Declared

(* A function is translated from its first reference to its last.           *)
LEMMA OutsideFunction ==
  ASSUME TypeInv, refs > 0
  PROVE  stage = "translate" /\ item \in DOMAIN Items /\ item \in Written /\ Item \in Function
<1>1. DriverInv
  BY DEF TypeInv
<1>2. /\ stage = "translate" /\ item \in DOMAIN Items /\ Item.kind = "fn" /\ ~Skipped(Item)
  BY <1>1 DEF DriverInv, Begun
<1>. QED BY <1>1, <1>2, ProgramType DEF Written, Item, DriverInv

LEMMA AskedStep == ASSUME TypeInv, DefinedInv, AskedInv, Next PROVE AskedInv'
<1>1. DriverInv /\ SymbolInv /\ Placed
  BY DEF TypeInv, DefinedInv, Placed
<1>2. /\ prog' = prog /\ format' = format /\ Items' = Items /\ Written' = Written
      /\ (Moves /\ stage = "translate" /\ item \in DOMAIN Items) \/ MovesOn
  BY DriverMoves
<1>3. refs \in Nat /\ item \in Nat \ {0} /\ Len(Items) \in Nat /\ DOMAIN Items = 1..Len(Items)
      /\ fnMap \in Seq(Translated)
  BY <1>1, ProgramsAssumption DEF DriverInv, Reached, Finished, Items
<1>4. ASSUME NEW ref, Met(ref) PROVE Met(ref)'
  BY <1>4, KnownStays DEF Met
<1>5. ASSUME NEW k \in DOMAIN fnMap', NEW r \in DOMAIN fnMap'[k].fn.refs,
             NEW ref, ref = fnMap'[k].fn.refs[r]
      PROVE  Met(ref)'
  <2>1. CASE fnMap' = fnMap
    <3>1. Met(fnMap[k].fn.refs[r])
      BY <1>5, <2>1 DEF AskedInv
    <3>. QED BY <1>4, <1>5, <2>1, <3>1
  <2>2. CASE FinishFunction /\ Moves
    <3>. DEFINE new == [fn |-> Item, relocs |-> body]
                t == Append(fnMap, new)
    <3>1. fnMap' = t /\ refs = Len(Item.refs) + 1
      BY <2>2 DEF FinishFunction
    <3>2. \A j \in DOMAIN t : t[j] = new \/ (j \in DOMAIN fnMap /\ t[j] = fnMap[j])
      BY <1>3
    <3>3. new.fn = Item
      OBVIOUS
    <3>. HIDE DEF t, new
    <3>4. CASE k \in DOMAIN fnMap /\ t[k] = fnMap[k]
      <4>1. Met(fnMap[k].fn.refs[r])
        BY <1>5, <3>1, <3>4 DEF AskedInv
      <4>. QED BY <1>4, <1>5, <3>1, <3>4, <4>1
    <3>5. CASE t[k] = new
      <4>1. Item.refs \in Seq(Reference)
        <5>1. Item.kind = "fn" /\ item \in DOMAIN Items
          BY <1>3, <2>2 DEF FinishFunction, Translating
        <5>. QED BY <1>1, <5>1, ProgramType DEF Item, Function, DriverInv
      <4>2. r \in 1..(refs - 1)
        BY <1>5, <3>1, <3>3, <3>5, <4>1
      <4>3. Met(Item.refs[r])
        BY <4>2 DEF AskedInv
      <4>. QED BY <1>4, <1>5, <3>1, <3>3, <3>5, <4>3
    <3>. QED BY <1>5, <3>1, <3>2, <3>4, <3>5
  <2>. QED BY <1>2, <2>1, <2>2 DEF Moves, MovesOn
<1>6. ASSUME NEW r \in 1..(refs' - 1), NEW ref, ref = Item'.refs[r]
      PROVE  Met(ref)'
  <2>1. CASE refs' = refs
    <3>1. stage = "translate" /\ item \in DOMAIN Items /\ item \in Written
      <4>1. refs > 0
        BY <1>3, <1>6, <2>1
      <4>. QED BY <4>1, OutsideFunction
    <3>2. FALSE
      <4>1. CASE MovesOn
        BY <1>3, <3>1, <4>1 DEF MovesOn
      <4>2. CASE Moves
        <5>1. Item.refs \in Seq(Reference)
          <6>1. Item.kind = "fn"
            BY <3>1 DEF Written, Item
          <6>. QED BY <1>1, <3>1, <6>1, ProgramType DEF Item, Function, DriverInv
        <5>. QED BY <1>3, <1>6, <2>1, <3>1, <4>2, <5>1 DEF Moves
      <4>. QED BY <1>2, <4>1, <4>2
    <3>. QED BY <3>2
  <2>2. CASE TranslateReference /\ refs' = refs + 1 /\ item' = item /\ refs \in DOMAIN Item.refs
    <3>1. Item' = Item
      BY <1>2, <2>2 DEF Item
    <3>2. CASE r = refs
      <4>. ref = Item.refs[refs]
        BY <1>6, <3>1, <3>2
      <4>1. CASE External(ref)
        <5>1. requireSymbol(ref.name) /\ ref.name \in SymbolNames
          <6>1. ~Renumbers
            BY <2>2, <4>1 DEF Renumbers
          <6>2. ~\E sym \in SymbolRecord : Defines(sym)
            BY <2>2 DEF Defines, TranslateReference, TranslateVariable, AppendFunction,
               CreateThisModule, Translating
          <6>3. PICK asked \in SymbolNames : AsksFor(asked)
            BY <6>1, <6>2, SymbolOperations
          <6>4. ~StartFunction
            BY <1>3, <2>2 DEF StartFunction
          <6>. QED BY <6>3, <6>4 DEF AsksFor
        <5>2. Known(ref.name)'
          BY <1>1, <5>1, RequestKnown
        <5>. QED BY <5>2 DEF Met
      <4>2. CASE ~External(ref)
        <5>1. Met(ref)
          BY <4>2 DEF External, Met
        <5>. QED BY <1>4, <5>1
      <4>. QED BY <4>1, <4>2
    <3>3. CASE r # refs
      <4>1. r \in 1..(refs - 1)
        BY <1>3, <1>6, <2>2, <3>3
      <4>2. Met(Item.refs[r])
        BY <4>1 DEF AskedInv
      <4>. QED BY <1>4, <1>6, <3>1, <4>2
    <3>. QED BY <3>2, <3>3
  <2>3. CASE refs' \in {0, 1}
    BY <1>6, <2>3
  <2>. QED BY <1>2, <2>1, <2>2, <2>3 DEF Moves, MovesOn
<1>7. ASSUME format' = "ko", NEW name \in NamesIn(dynamicSymbols)'
      PROVE  LeftToKernel(name)'
  <2>1. LeftToKernel(name)' <=> LeftToKernel(name)
    BY <1>2 DEF LeftToKernel, References
  <2>2. name \in NamesIn(dynamicSymbols) => LeftToKernel(name)
    BY <1>2, <1>7 DEF AskedInv
  <2>3. CASE \E sym \in SymbolRecord : Defines(sym)
    <3>1. PICK sym \in SymbolRecord : Defines(sym)
      BY <2>3
    <3>2. ~Exported(sym)
      BY <1>1, <1>2, <1>7 DEF Exported, SymbolInv
    <3>. QED BY <1>1, <1>7, <2>1, <2>2, <3>1, <3>2, DefinitionResolves DEF Defines
  <2>4. CASE \E asked \in SymbolNames : AsksFor(asked)
    <3>1. PICK asked \in SymbolNames : AsksFor(asked)
      BY <2>4
    <3>2. NamesIn(dynamicSymbols') \subseteq NamesIn(dynamicSymbols) \cup {asked}
      BY <1>1, <3>1, RequestKnown DEF AsksFor
    <3>3. LeftToKernel(asked)
      <4>1. /\ TranslateReference /\ External(Item.refs[refs]) /\ asked = Item.refs[refs].name
        BY <1>2, <1>7, <3>1 DEF AsksFor
      <4>2. refs \in DOMAIN Item.refs /\ item \in DOMAIN Items /\ Item.kind = "fn"
        BY <1>3, <4>1 DEF TranslateReference, Translating
      <4>3. refs > 0
        <5>1. Item.refs \in Seq(Reference)
          BY <1>1, <4>2, ProgramType DEF Item, Function, DriverInv
        <5>. QED BY <4>2, <5>1
      <4>4. item \in Written /\ Item.refs[refs] \in References(item)
        BY <4>2, <4>3, OutsideFunction DEF References, Item
      <4>. QED BY <1>2, <1>7, <4>1, <4>4 DEF LeftToKernel, External, Declared
    <3>. QED BY <1>7, <2>1, <2>2, <3>2, <3>3
  <2>5. CASE Renumbers
    BY <1>1, <1>7, <2>1, <2>2, <2>5, RenumberingResolves DEF Renumbers
  <2>. QED BY <2>3, <2>4, <2>5, SymbolOperations
<1>8. /\ \A k \in DOMAIN fnMap' : \A r \in DOMAIN fnMap'[k].fn.refs : Met(fnMap[k].fn.refs[r])'
      /\ \A r \in 1..(refs' - 1) : Met(Item.refs[r])'
  BY <1>5, <1>6 DEF Met
<1>. QED BY <1>7, <1>8 DEF AskedInv

(* The relocations of a function are those of its references.               *)
LEMMA OrderedServed ==
  ASSUME DriverInv, NEW n \in DOMAIN Ordered
  PROVE  /\ \E l \in Written : Ordered[n].fn = Items[l]
         /\ DOMAIN Ordered[n].relocs = DOMAIN Ordered[n].fn.refs
         /\ \A r \in DOMAIN Ordered[n].fn.refs : Ordered[n].relocs[r].name = Ordered[n].fn.refs[r].name
<1>1. PICK k \in DOMAIN fnMap : Ordered[n] = fnMap[k]
  BY OrderedFacts DEF OrderedOnce
<1>2. /\ fnMap[k].fn \in Function /\ fnMap[k].relocs \in Seq(BodyRelocation)
      /\ ~Skipped(fnMap[k].fn)
      /\ \E j \in DOMAIN Items : Items[j].kind = "fn" /\ fnMap[k].fn = Items[j]
  BY FunctionFacts
<1>3. AllServe(fnMap[k].relocs, fnMap[k].fn.refs) /\ Len(fnMap[k].relocs) = Len(fnMap[k].fn.refs)
  BY DEF DriverInv, Finished
<1>4. fnMap[k].fn.refs \in Seq(Reference)
  BY <1>2 DEF Function
<1>5. DOMAIN fnMap[k].relocs = DOMAIN fnMap[k].fn.refs
  BY <1>2, <1>3, <1>4
<1>6. \A r \in DOMAIN fnMap[k].fn.refs : fnMap[k].relocs[r].name = fnMap[k].fn.refs[r].name
  BY <1>3, <1>5 DEF AllServe, Serves
<1>. QED BY <1>1, <1>2, <1>5, <1>6 DEF Written

LEMMA Joined ==
  ASSUME NEW S, NEW s \in Seq(S), NEW t \in Seq(S)
  PROVE  /\ s \o t \in Seq(S)
         /\ \A k \in DOMAIN s : k \in DOMAIN (s \o t) /\ (s \o t)[k] = s[k]
         /\ \A k \in DOMAIN (s \o t) : \/ k \in DOMAIN s /\ (s \o t)[k] = s[k]
                                      \/ \E j \in DOMAIN t : (s \o t)[k] = t[j]
<1>1. s \o t \in Seq(S) /\ Len(s \o t) = Len(s) + Len(t) /\ Len(s) \in Nat /\ Len(t) \in Nat
  OBVIOUS
<1>2. /\ DOMAIN s = 1..Len(s) /\ DOMAIN t = 1..Len(t) /\ DOMAIN (s \o t) = 1..(Len(s) + Len(t))
      /\ \A k \in 1..(Len(s) + Len(t)) : (s \o t)[k] = IF k <= Len(s) THEN s[k] ELSE t[k - Len(s)]
  BY <1>1
<1>3. ASSUME NEW k \in DOMAIN (s \o t), k \notin DOMAIN s
      PROVE  \E j \in DOMAIN t : (s \o t)[k] = t[j]
  <2>1. k - Len(s) \in DOMAIN t /\ (s \o t)[k] = t[k - Len(s)]
    BY <1>1, <1>2, <1>3
  <2>. QED BY <2>1
<1>. QED BY <1>1, <1>2, <1>3

LEMMA PointerNames ==
  ASSUME TypeInv, NEW role, WithRole(role) # {}
  PROVE  FirstWithRole(role).name \in WrittenNames \cap SymbolNames
<1>1. WithRole(role) \in SUBSET Nat
  BY DEF TypeInv, DriverInv, Finished, WithRole
<1>2. \E k \in WithRole(role) : \A l \in WithRole(role) : k <= l
  BY <1>1, FirstOf
<1>3. \E k \in WithRole(role) : FirstWithRole(role) = fnMap[k].fn
  BY <1>2 DEF FirstWithRole
<1>4. ASSUME NEW k \in WithRole(role) PROVE fnMap[k].fn.name \in WrittenNames \cap SymbolNames
  <2>1. k \in DOMAIN fnMap
    BY DEF WithRole
  <2>2. fnMap[k].fn \in Function /\ ~Skipped(fnMap[k].fn)
        /\ \E j \in DOMAIN Items : Items[j].kind = "fn" /\ fnMap[k].fn = Items[j]
    BY <2>1, FunctionFacts DEF TypeInv
  <2>. QED BY <2>2 DEF WrittenNames, Written, Function
<1>. QED BY <1>3, <1>4

LEMMA RelocatedStep == ASSUME TypeInv, RelocatedInv, Next PROVE RelocatedInv'
<1>1. /\ DriverInv /\ format' = format /\ Items' = Items /\ Written' = Written
      /\ relocations \in Seq(Relocation)
  BY DriverMoves DEF TypeInv, RelocationInv
<1>. DEFINE names == WrittenNames \cup ReferredNames
            found(n, relocs) ==
              \A r \in DOMAIN Ordered[n].fn.refs : \E k \in DOMAIN relocs :
                /\ relocs[k].name = Ordered[n].fn.refs[r].name
                /\ format # "ko" => relocs[k].section = ".text"
<1>2. names' = names
  BY <1>1 DEF WrittenNames, ReferredNames, References
<1>3. /\ \A k \in DOMAIN relocations : relocations[k].name \in names
      /\ \A n \in 1..Appended : found(n, relocations)
  BY DEF RelocatedInv
<1>4. CASE AppendFunction
  <2>. DEFINE entry == Ordered[item]
              section == TargetSection(entry.fn)
  <2>1. /\ \A k \in DOMAIN relocations :
             k \in DOMAIN relocations' /\ relocations'[k] = relocations[k]
        /\ \A r \in DOMAIN entry.relocs : \E k \in DOMAIN relocations' :
             relocations'[k].name = entry.relocs[r].name /\ relocations'[k].section = section
        /\ \A k \in DOMAIN relocations' :
             k \in DOMAIN relocations \/ \E r \in DOMAIN entry.relocs :
                                           relocations'[k].name = entry.relocs[r].name
    BY <1>4, AppendedRelocations
  <2>2. item \in DOMAIN Ordered /\ ~Skipped(entry.fn)
    BY <1>4, NextFunction
  <2>3. /\ \E l \in Written : entry.fn = Items[l]
        /\ DOMAIN entry.relocs = DOMAIN entry.fn.refs
        /\ \A r \in DOMAIN entry.fn.refs : entry.relocs[r].name = entry.fn.refs[r].name
    BY <1>1, <2>2, OrderedServed
  <2>4. \A r \in DOMAIN entry.relocs : entry.relocs[r].name \in names
    BY <2>3 DEF ReferredNames, References
  <2>5. \A k \in DOMAIN relocations' : relocations'[k].name \in names
    BY <1>3, <2>1, <2>4
  <2>6. format # "ko" => section = ".text"
    BY <2>2 DEF TargetSection, Skipped
  <2>7. Appended = item - 1 /\ Appended' = item /\ Ordered' = Ordered /\ item \in Nat
    BY <1>1, <1>4, AppendedStep DEF AppendFunction, DriverInv, Reached
  <2>8. ASSUME NEW n \in 1..Appended' PROVE found(n, relocations')
    <3>1. CASE n = item
      BY <2>1, <2>3, <2>6, <3>1
    <3>2. CASE n # item
      <4>1. n \in 1..Appended
        BY <2>7, <3>2
      <4>. QED BY <1>3, <2>1, <4>1
    <3>. QED BY <3>1, <3>2
  <2>9. \A n \in 1..Appended' : found(n, relocations)'
    BY <1>1, <2>7, <2>8
  <2>. QED BY <1>2, <2>5, <2>9 DEF RelocatedInv
<1>5. ASSUME ~AppendFunction, Appended' > 0
      PROVE  Appended' = Appended /\ Ordered' = Ordered
  BY <1>1, <1>5, AppendedStep DEF Appended
<1>6. Appended' \in Nat
  BY <1>1, AppendedFacts, AppendedStep DEF Appended, DriverInv, Reached
<1>7. CASE relocations' = relocations /\ ~AppendFunction
  <2>1. ASSUME NEW n \in 1..Appended' PROVE found(n, relocations)'
    <3>1. Appended' = Appended /\ Ordered' = Ordered
      BY <1>5, <1>6, <1>7
    <3>. QED BY <1>1, <1>3, <1>7, <3>1
  <2>. QED BY <1>2, <1>3, <1>7, <2>1 DEF RelocatedInv
<1>8. CASE CreateThisModule
  <2>. DEFINE exit == IF WithRole("exit") # {} THEN <<Pointer(EXITFIELD, "exit")>> ELSE << >>
              init == <<Pointer(INITFIELD, "init")>>
  <2>1. relocations' = (relocations \o init) \o exit /\ WithRole("init") # {}
    BY <1>8 DEF CreateThisModule
  <2>2. \A k \in DOMAIN init : init[k].name \in names
    BY <2>1, PointerNames DEF Pointer
  <2>3. \A k \in DOMAIN exit : exit[k].name \in names
    BY PointerNames DEF Pointer
  <2>4. init \in Seq(Relocation) /\ exit \in Seq(Relocation)
    <3>1. ASSUME NEW role, WithRole(role) # {}, NEW field \in Nat
          PROVE  <<Pointer(field, role)>> \in Seq(Relocation)
      <4>1. Pointer(field, role) \in Relocation
        BY <3>1, PointerNames DEF Pointer, Relocation, Relocated
      <4>. QED BY <4>1
    <3>2. INITFIELD \in Nat /\ EXITFIELD \in Nat
      BY DEF INITFIELD, EXITFIELD
    <3>. QED BY <2>1, <3>1, <3>2
  <2>. HIDE DEF init, exit
  <2>. DEFINE both == (relocations \o init) \o exit
  <2>5. /\ \A k \in DOMAIN relocations : k \in DOMAIN both /\ both[k] = relocations[k]
        /\ \A k \in DOMAIN both : \/ k \in DOMAIN relocations /\ both[k] = relocations[k]
                                  \/ \E j \in DOMAIN init : both[k] = init[j]
                                  \/ \E j \in DOMAIN exit : both[k] = exit[j]
    <3>. DEFINE first == relocations \o init
    <3>1. /\ first \in Seq(Relocation)
          /\ \A k \in DOMAIN relocations : k \in DOMAIN first /\ first[k] = relocations[k]
          /\ \A k \in DOMAIN first : \/ k \in DOMAIN relocations /\ first[k] = relocations[k]
                                     \/ \E j \in DOMAIN init : first[k] = init[j]
      BY <1>1, <2>4, Joined
    <3>. HIDE DEF first
    <3>2. /\ \A k \in DOMAIN first : k \in DOMAIN (first \o exit) /\ (first \o exit)[k] = first[k]
          /\ \A k \in DOMAIN (first \o exit) : \/ k \in DOMAIN first /\ (first \o exit)[k] = first[k]
                                              \/ \E j \in DOMAIN exit : (first \o exit)[k] = exit[j]
      BY <2>4, <3>1, Joined
    <3>3. both = first \o exit
      BY DEF first
    <3>. HIDE DEF both
    <3>. QED BY <3>1, <3>2, <3>3
  <2>. HIDE DEF both
  <2>6. relocations' = both
    BY <2>1 DEF both
  <2>7. \A k \in DOMAIN relocations' : relocations'[k].name \in names
    BY <1>3, <2>2, <2>3, <2>5, <2>6
  <2>8. ASSUME NEW n \in 1..Appended' PROVE found(n, relocations)'
    <3>1. Appended' = Appended /\ Ordered' = Ordered
      <4>1. ~AppendFunction
        BY <1>8 DEF CreateThisModule, AppendFunction
      <4>. QED BY <1>5, <1>6, <4>1
    <3>. QED BY <1>1, <1>3, <2>5, <2>6, <3>1
  <2>. QED BY <1>2, <2>7, <2>8 DEF RelocatedInv
<1>9. ASSUME \/ TranslateVariable \/ TranslateModinfo \/ SkipFunction \/ StartFunction \/ TranslateReference
             \/ FinishFunction \/ StartAppend \/ FinishAppend \/ NoInitFunction \/ CreateVersions
             \/ Compile
      PROVE  relocations' = relocations
  BY <1>9, Passes DEF TranslateVariable, TranslateModinfo, SkipFunction, StartFunction, TranslateReference,
     FinishFunction, StartAppend, FinishAppend, NoInitFunction, CreateVersions
<1>. QED BY <1>4, <1>7, <1>8, <1>9 DEF Next, Translate

(* The indices that are given.                                              *)
LEMMA IndexGiven ==
  ASSUME NEW s \in Seq(SymbolRecord), NEW k \in DOMAIN s, NEW i \in Nat
  PROVE  [s[k] EXCEPT !.index = i].index >= 0 /\ [s[k] EXCEPT !.index = i].name = s[k].name
<1>1. s[k] \in SymbolRecord
  OBVIOUS
<1>2. \A sym \in SymbolRecord : [sym EXCEPT !.index = i].index = i /\ [sym EXCEPT !.index = i].name = sym.name
  BY DEF SymbolRecord
<1>. QED BY <1>1, <1>2

LEMMA FinalIndexCounts ==
  ASSUME SectionInv, SymbolInv, NEW sym \in Listed(SymtabOrder)
  PROVE  FinalIndex(sym) \in Nat
<1>1. SymtabOrder \in Seq(AnySymbol)
  BY SymtabType
<1>. DEFINE i == CHOOSE k \in DOMAIN SymtabOrder : SymtabOrder[k] = sym
<1>2. i \in DOMAIN SymtabOrder
  BY DEF Listed
<1>. HIDE DEF i
<1>3. i \in Nat \ {0}
  BY <1>1, <1>2
<1>. QED BY <1>3 DEF FinalIndex, i

LEMMA IndexStep == ASSUME TypeInv, DefinedInv, IndexInv, Next PROVE IndexInv'
<1>1. /\ localSymbols \in Seq(SymbolRecord) /\ dynamicSymbols \in Seq(SymbolRecord)
      /\ dynSymEntries \in Seq(DynEntry) /\ SectionInv /\ SymbolInv /\ FileInv
  BY DEF TypeInv, SymbolInv
<1>2. CASE PrepareDynamic
  <2>1. /\ dynSymEntries' = dynSymEntries /\ stage' = "sizes" /\ format # "ko"
        /\ dynamicLinkEnabled => dynamicSymbols' = [k \in DOMAIN dynamicSymbols |->
              [dynamicSymbols[k] EXCEPT !.index = DynIndex(dynamicSymbols[k])]]
    BY <1>2 DEF PrepareDynamic, Pass
  <2>2. ASSUME NEW k \in DOMAIN dynamicSymbols', dynamicSymbols'[k].name \in NamesIn(dynSymEntries)
        PROVE  dynamicSymbols'[k].index >= 0
    <3>1. dynamicLinkEnabled
      <4>1. dynSymEntries # << >>
        BY <2>2 DEF NamesIn
      <4>. QED BY <1>1, <4>1 DEF SymbolInv
    <3>2. k \in DOMAIN dynamicSymbols
      BY <2>1, <3>1
    <3>. DEFINE i == DynIndex(dynamicSymbols[k])
    <3>3. dynamicSymbols'[k] = [dynamicSymbols[k] EXCEPT !.index = i]
      BY <2>1, <3>1, <3>2, Zenon
    <3>4. dynamicSymbols[k].name \in NamesIn(dynSymEntries)
      <4>1. [dynamicSymbols[k] EXCEPT !.index = i].name = dynamicSymbols[k].name
        <5>1. dynamicSymbols[k] \in SymbolRecord
          BY <1>1, <3>2
        <5>. HIDE DEF i
        <5>. QED BY <5>1 DEF SymbolRecord
      <4>. QED BY <2>2, <3>3, <4>1
    <3>5. i \in Nat
      <4>. DEFINE j == CHOOSE m \in DOMAIN dynSymEntries : dynSymEntries[m].name = dynamicSymbols[k].name
      <4>1. j \in DOMAIN dynSymEntries
        BY <3>4 DEF NamesIn
      <4>2. i = j
        BY <3>4 DEF DynIndex
      <4>. HIDE DEF i, j
      <4>. QED BY <1>1, <4>1, <4>2
    <3>. HIDE DEF i
    <3>. QED BY <1>1, <3>2, <3>3, <3>5, IndexGiven
  <2>. QED BY <2>1, <2>2 DEF IndexInv
<1>3. CASE AssignSymbolIndices
  <2>1. /\ dynSymEntries' = dynSymEntries /\ stage = "indices" /\ stage' = "symtab" /\ format' = format
    BY <1>3 DEF AssignSymbolIndices, Pass, fileVars
  <2>2. CASE ".symtab" \in required
    <3>1. /\ localSymbols' = [k \in DOMAIN localSymbols |->
                 [localSymbols[k] EXCEPT !.index = NumSectionSymbols + k - 1]]
          /\ dynamicSymbols' = [k \in DOMAIN dynamicSymbols |->
                 [dynamicSymbols[k] EXCEPT !.index = NumLocals + k - 1]]
      BY <1>3, <2>2 DEF AssignSymbolIndices
    <3>2. NumSectionSymbols \in Nat /\ NumLocals \in Nat
      BY <1>1, NumLocalsNat
    <3>3. (\A k \in DOMAIN localSymbols : k \in Nat \ {0}) /\ (\A k \in DOMAIN dynamicSymbols : k \in Nat \ {0})
      BY <1>1
    <3>4. ASSUME NEW k \in DOMAIN localSymbols' PROVE localSymbols'[k].index >= 0
      <4>1. k \in DOMAIN localSymbols
        BY <3>1
      <4>2. NumSectionSymbols + k - 1 \in Nat
        <5>1. k \in Nat \ {0}
          BY <3>3, <4>1
        <5>. QED BY <3>2, <5>1
      <4>3. localSymbols'[k] = [localSymbols[k] EXCEPT !.index = NumSectionSymbols + k - 1]
        BY <3>1, <4>1, Zenon
      <4>. QED BY <1>1, <4>1, <4>2, <4>3, IndexGiven
    <3>5. ASSUME NEW k \in DOMAIN dynamicSymbols' PROVE dynamicSymbols'[k].index >= 0
      <4>1. k \in DOMAIN dynamicSymbols
        BY <3>1
      <4>2. NumLocals + k - 1 \in Nat
        <5>1. k \in Nat \ {0}
          BY <3>3, <4>1
        <5>. QED BY <3>2, <5>1
      <4>3. dynamicSymbols'[k] = [dynamicSymbols[k] EXCEPT !.index = NumLocals + k - 1]
        BY <3>1, <4>1, Zenon
      <4>. QED BY <1>1, <4>1, <4>2, <4>3, IndexGiven
    <3>. QED BY <3>4, <3>5 DEF IndexInv
  <2>3. CASE ".symtab" \notin required
    <3>1. localSymbols' = localSymbols /\ dynamicSymbols' = dynamicSymbols
      BY <1>3, <2>3 DEF AssignSymbolIndices
    <3>2. localSymbols = << >>
      BY <2>3 DEF DefinedInv, SymtabSections
    <3>. QED BY <2>1, <3>1, <3>2 DEF IndexInv, Numbered
  <2>. QED BY <2>2, <2>3
<1>4. CASE BuildFinalSymtabData
  <2>1. /\ dynSymEntries' = dynSymEntries /\ stage = "symtab" /\ stage' = "rela" /\ format' = format
    BY <1>4 DEF BuildFinalSymtabData, Pass, fileVars
  <2>2. CASE SymtabSections \subseteq required
    <3>1. /\ localSymbols' = [k \in DOMAIN localSymbols |->
                 [localSymbols[k] EXCEPT !.index = FinalIndex(localSymbols[k])]]
          /\ dynamicSymbols' = [k \in DOMAIN dynamicSymbols |->
                 IF Shadowed(dynamicSymbols[k]) THEN dynamicSymbols[k]
                 ELSE [dynamicSymbols[k] EXCEPT !.index = FinalIndex(dynamicSymbols[k])]]
      BY <1>4, <2>2 DEF BuildFinalSymtabData
    <3>2. \A k \in DOMAIN localSymbols : localSymbols[k] \in Listed(SymtabOrder)
      BY <1>1, SymtabType DEF Listed
    <3>3. ASSUME NEW k \in DOMAIN localSymbols' PROVE localSymbols'[k].index >= 0
      <4>1. k \in DOMAIN localSymbols
        BY <3>1
      <4>2. FinalIndex(localSymbols[k]) \in Nat
        BY <1>1, <3>2, <4>1, FinalIndexCounts
      <4>3. localSymbols'[k] = [localSymbols[k] EXCEPT !.index = FinalIndex(localSymbols[k])]
        BY <3>1, <4>1, Zenon
      <4>. QED BY <1>1, <4>1, <4>2, <4>3, IndexGiven
    <3>4. ASSUME NEW k \in DOMAIN dynamicSymbols', format # "ko",
                 dynamicSymbols'[k].name \in NamesIn(dynSymEntries)
          PROVE  dynamicSymbols'[k].index >= 0
      <4>1. k \in DOMAIN dynamicSymbols
        BY <3>1
      <4>2. CASE Shadowed(dynamicSymbols[k])
        <5>1. dynamicSymbols'[k] = dynamicSymbols[k]
          BY <3>1, <4>1, <4>2, Zenon
        <5>. QED BY <2>1, <3>4, <4>1, <5>1 DEF IndexInv, Numbered
      <4>3. CASE ~Shadowed(dynamicSymbols[k])
        <5>1. dynamicSymbols'[k] = [dynamicSymbols[k] EXCEPT !.index = FinalIndex(dynamicSymbols[k])]
          BY <3>1, <4>1, <4>3, Zenon
        <5>2. FinalIndex(dynamicSymbols[k]) \in Nat
          <6>1. dynamicSymbols[k] \in Listed(SymtabOrder)
            BY <1>1, <4>1, <4>3, SymtabType
          <6>. QED BY <1>1, <6>1, FinalIndexCounts
        <5>. QED BY <1>1, <4>1, <5>1, <5>2, IndexGiven
      <4>. QED BY <4>2, <4>3
    <3>. QED BY <2>1, <3>3, <3>4 DEF IndexInv
  <2>3. CASE ~(SymtabSections \subseteq required)
    <3>1. localSymbols' = localSymbols /\ dynamicSymbols' = dynamicSymbols
      BY <1>4, <2>3 DEF BuildFinalSymtabData
    <3>. QED BY <2>1, <3>1 DEF IndexInv, Numbered
  <2>. QED BY <2>2, <2>3
<1>5. CASE UpdateInitialSectionSizes \/ CollectSections
  <2>1. /\ UNCHANGED symbolVars /\ format' = format /\ stage \in Numbered /\ stage' \notin {"symtab", "rela"}
    BY <1>5 DEF UpdateInitialSectionSizes, CollectSections, Pass, fileVars, Numbered
  <2>. QED BY <2>1 DEF IndexInv, symbolVars
<1>6. CASE format' = "ko" \/ stage' \notin Numbered
  BY <1>6 DEF IndexInv, Numbered
<1>7. ASSUME Translate PROVE stage' \notin Numbered
  BY <1>7 DEF Translate, Numbered, Translating, TranslateVariable, TranslateModinfo, SkipFunction, StartFunction,
     TranslateReference, FinishFunction, StartAppend, AppendFunction, FinishAppend, CreateThisModule,
     NoInitFunction, CreateVersions
<1>8. ASSUME \/ BuildRelaDynamic \/ BuildRelaRelocatable \/ FinalizeSizes
             \/ FinalizeLayout \/ LayoutDone \/ SetSectionLinks \/ PatchSymbolTableAddresses
             \/ PatchDynSymAddresses \/ PatchDynamicSection \/ PatchTextRelocations
             \/ AssembleFinalElf \/ Finish
      PROVE  stage' \notin Numbered
  BY <1>8 DEF Numbered, BuildRelaDynamic, BuildRelaRelocatable, FinalizeSizes,
     FinalizeLayout, LayoutDone, SetSectionLinks, PatchSymbolTableAddresses,
     PatchDynSymAddresses, PatchDynamicSection, PatchTextRelocations,
     AssembleFinalElf, Finish, Pass, linkVars
<1>9. ASSUME PrepareRelocatable PROVE format' = "ko"
  BY <1>9 DEF PrepareRelocatable, fileVars
<1>. QED BY <1>2, <1>3, <1>4, <1>5, <1>6, <1>7, <1>8, <1>9 DEF Next, Compile

-----------------------------------------------------------------------------
(* Behind the driver every name the program defines is in a table, and what *)
(* it may refer to is known.                                                *)
LEMMA WrittenOrdered ==
  ASSUME TypeInv, TranslatedInv, stage \notin {"translate", "append"}, NEW k \in Written
  PROVE  \E n \in 1..Appended : Ordered[n].fn = Items[k]
<1>1. Reachable(k)
  BY DEF Reachable, Written
<1>2. PICK n \in DOMAIN fnMap : fnMap[n].fn = Items[k]
  BY <1>1 DEF TranslatedInv
<1>3. PICK m \in DOMAIN Ordered : Ordered[m] = fnMap[n]
  BY OrderedFacts DEF OrderedOnce, TypeInv
<1>4. m \in 1..Appended
  BY AppendedFacts DEF TypeInv, Appended
<1>. QED BY <1>2, <1>3, <1>4

LEMMA AllAdded ==
  ASSUME TypeInv, TranslatedInv, stage \notin BeforeModule
  PROVE  DefinedNames \subseteq Added
<1>1. stage \notin {"translate", "append"}
  BY DEF BeforeModule
<1>2. ASSUME NEW k \in Written PROVE Items[k].name \in Added
  BY <1>1, WrittenOrdered DEF Added
<1>3. ASSUME NEW k \in DOMAIN Items, Items[k].kind = "var" PROVE Items[k].name \in Added
  BY <1>1, <1>3 DEF Added, Reachable
<1>4. format = "ko" => "this_module" \in Added
  BY DEF Added
<1>. QED BY <1>2, <1>3, <1>4 DEF DefinedNames

LEMMA DefinedAreNames == ASSUME TypeInv PROVE Defined \subseteq DefinedNames
<1>1. ASSUME NEW n \in 1..Appended PROVE Ordered[n].fn.name \in DefinedNames
  <2>1. n \in DOMAIN Ordered
    BY AppendedFacts DEF TypeInv
  <2>2. \E l \in Written : Ordered[n].fn = Items[l]
    BY <2>1, OrderedServed DEF TypeInv
  <2>. QED BY <2>2 DEF DefinedNames
<1>. QED BY <1>1 DEF Defined, DefinedNames

LEMMA NamesResolve ==
  ASSUME TypeInv, DefinedInv, AskedInv, TranslatedInv, Linkable, stage \notin BeforeModule,
         NEW name \in WrittenNames \cup ReferredNames
  PROVE  /\ Known(name)
         /\ format # "ko" => name \in DefinedNames /\ name \in Resolved
<1>1. \A other \in Resolved : Known(other)
  BY DEF Resolved, Known, TypeInv, SymbolInv
<1>2. DefinedNames \subseteq Resolved
  BY AllAdded DEF DefinedInv
<1>3. CASE name \in DefinedNames
  BY <1>1, <1>2, <1>3
<1>4. CASE name \notin DefinedNames
  <2>1. name \in ReferredNames
    BY <1>4 DEF WrittenNames, DefinedNames
  <2>2. LeftToKernel(name)
    BY <1>4, <2>1 DEF Linkable, ReferredNames
  <2>3. PICK k \in Written : \E ref \in References(k) : ref.name = name /\ ref.use \in {"call", "instr"}
    BY <2>2 DEF LeftToKernel
  <2>4. PICK r \in DOMAIN Items[k].refs :
          Items[k].refs[r].name = name /\ Items[k].refs[r].use \in {"call", "instr"}
    BY <2>3 DEF References
  <2>5. PICK n \in DOMAIN fnMap : fnMap[n].fn = Items[k]
    <3>1. Reachable(k)
      BY DEF Reachable, Written, BeforeModule
    <3>. QED BY <3>1 DEF TranslatedInv
  <2>6. Met(fnMap[n].fn.refs[r])
    BY <2>4, <2>5 DEF AskedInv
  <2>7. Known(name) \/ Declared(name)
    BY <2>4, <2>5, <2>6 DEF Met
  <2>8. CASE Declared(name)
    <3>1. PICK j \in DOMAIN fnMap : fnMap[j].fn.name = name
      BY <2>2, <2>8 DEF Declared, LeftToKernel
    <3>2. ~Skipped(fnMap[j].fn) /\ \E l \in DOMAIN Items : Items[l].kind = "fn" /\ fnMap[j].fn = Items[l]
      BY FunctionFacts DEF TypeInv
    <3>3. name \in DefinedNames
      BY <3>1, <3>2 DEF DefinedNames, Written
    <3>. QED BY <1>4, <3>3
  <2>. QED BY <2>2, <2>7, <2>8 DEF LeftToKernel
<1>. QED BY <1>3, <1>4

LEMMA SameProgram == ASSUME TypeInv, Next PROVE Linkable' <=> Linkable
<1>1. prog' = prog /\ format' = format /\ Items' = Items /\ Written' = Written
  BY DriverMoves
<1>2. DefinedNames' = DefinedNames /\ \A k : References(k)' = References(k)
  BY <1>1 DEF DefinedNames, References
<1>3. \A name : LeftToKernel(name)' <=> LeftToKernel(name)
  BY <1>1 DEF LeftToKernel, References
<1>. QED BY <1>1, <1>2, <1>3 DEF Linkable, References

(* No pass of compile() refuses a program whose references are defined.     *)
LEMMA RelaServes ==
  ASSUME TypeInv, LandInv, DefinedInv, AskedInv, TranslatedInv, RelocatedInv, IndexInv,
         Linkable, stage = "rela", NEW k \in DOMAIN relocations
  PROVE  Known(relocations[k].name) /\ (format # "ko" => ~Unservable(relocations[k]))
<1>. DEFINE name == relocations[k].name
<1>1. stage \notin BeforeModule
  BY DEF BeforeModule
<1>2. name \in WrittenNames \cup ReferredNames
  BY DEF RelocatedInv
<1>3. Known(name) /\ (format # "ko" => name \in DefinedNames /\ name \in Resolved)
  BY <1>1, <1>2, NamesResolve
<1>4. ASSUME format # "ko" PROVE getAnySymbol(name).index >= 0
  <2>1. CASE name \in NamesIn(localSymbols)
    <3>1. PICK j \in DOMAIN localSymbols : Find(localSymbols, name) = localSymbols[j]
      BY <2>1, FindFacts
    <3>. QED BY <1>4, <2>1, <3>1 DEF getAnySymbol, IndexInv
  <2>2. CASE name \notin NamesIn(localSymbols)
    <3>1. name \in NamesIn(dynSymEntries)
      BY <1>3, <1>4, <2>2 DEF Resolved
    <3>2. PICK j \in DOMAIN dynamicSymbols : /\ Find(dynamicSymbols, name) = dynamicSymbols[j]
                                             /\ dynamicSymbols[j].name = name
      BY <1>3, <2>2, FindFacts DEF Known
    <3>. QED BY <1>4, <2>2, <3>1, <3>2 DEF getAnySymbol, IndexInv, Numbered
  <2>. QED BY <2>1, <2>2
<1>5. ASSUME format # "ko" PROVE relocations[k].type # "PLT32"
  <2>1. ~Undeclared(name)
    BY <1>3, <1>5 DEF DefinedNames, Written, Undeclared
  <2>. QED BY <1>5, <2>1 DEF LandInv
<1>6. ASSUME format # "ko" PROVE ~Unservable(relocations[k])
  BY <1>3, <1>4, <1>5, <1>6 DEF Unservable
<1>. QED BY <1>3, <1>6

LEMMA TextServes ==
  ASSUME TypeInv, DefinedInv, AskedInv, TranslatedInv, RelocatedInv,
         Linkable, stage = "patchtext", format # "ko", NEW k \in DOMAIN relocations
  PROVE  getAnySymbol(relocations[k].name).section # Undefined
<1>1. stage \notin BeforeModule
  BY DEF BeforeModule
<1>2. relocations[k].name \in WrittenNames \cup ReferredNames
  BY DEF RelocatedInv
<1>3. Known(relocations[k].name) /\ relocations[k].name \in Resolved
  BY <1>1, <1>2, NamesResolve
<1>. QED BY <1>3, FoundPlaced DEF TypeInv, DefinedInv, Placed

LEMMA TextDefinedKept ==
  ASSUME TextDefined, UNCHANGED symbolVars, relocations' = relocations
  PROVE  TextDefined'
<1>1. localSymbols' = localSymbols /\ dynamicSymbols' = dynamicSymbols /\ TextRelocations' = TextRelocations
  BY DEF symbolVars, TextRelocations
<1>. QED BY <1>1 DEF TextDefined, getAnySymbol

LEMMA OutcomeStep ==
  ASSUME TypeInv, LandInv, DefinedInv, AskedInv, TranslatedInv, RelocatedInv, IndexInv, OutcomeInv, Next
  PROVE  OutcomeInv'
<1>1. format' = format /\ (Linkable' <=> Linkable)
  BY DriverMoves, SameProgram
<1>2. ASSUME stage' = "aborted" PROVE ~Linkable
  <2>. SUFFICES ASSUME Linkable PROVE FALSE
    OBVIOUS
  <2>1. CASE NoInitFunction
    <3>1. stage = "module" /\ WithRole("init") = {} /\ format = "ko"
      BY <2>1 DEF NoInitFunction, TypeInv, ModuleInv
    <3>2. PICK k \in Written : Items[k].role = "init"
      BY <3>1 DEF Linkable
    <3>3. Reachable(k)
      BY <3>1 DEF Reachable, Written
    <3>. QED BY <3>1, <3>2, <3>3 DEF TranslatedInv, WithRole
  <2>2. CASE BuildRelaDynamic
    BY <1>2, <2>2, RelaServes DEF BuildRelaDynamic, Pass
  <2>3. CASE BuildRelaRelocatable
    BY <1>2, <2>3, RelaServes DEF BuildRelaRelocatable, Pass
  <2>4. CASE PatchTextRelocations
    BY <1>2, <2>4, TextServes DEF PatchTextRelocations, Pass, TextRelocations
  <2>5. ~\/ TranslateVariable \/ TranslateModinfo \/ SkipFunction \/ StartFunction \/ TranslateReference
         \/ FinishFunction \/ StartAppend \/ AppendFunction \/ FinishAppend \/ CreateThisModule
         \/ CreateVersions
    BY <1>2 DEF Translating, TranslateVariable, TranslateModinfo, SkipFunction, StartFunction,
       TranslateReference, FinishFunction, StartAppend, AppendFunction, FinishAppend, CreateThisModule,
       CreateVersions
  <2>6. ~\/ PrepareDynamic \/ PrepareRelocatable \/ UpdateInitialSectionSizes \/ CollectSections
         \/ AssignSymbolIndices \/ BuildFinalSymtabData \/ FinalizeSizes \/ FinalizeLayout
         \/ LayoutDone \/ SetSectionLinks \/ PatchSymbolTableAddresses \/ PatchDynSymAddresses
         \/ PatchDynamicSection \/ AssembleFinalElf \/ Finish
    BY <1>2 DEF PrepareDynamic, PrepareRelocatable, UpdateInitialSectionSizes, CollectSections,
       AssignSymbolIndices, BuildFinalSymtabData, FinalizeSizes, FinalizeLayout, LayoutDone,
       SetSectionLinks, PatchSymbolTableAddresses, PatchDynSymAddresses, PatchDynamicSection,
       AssembleFinalElf, Finish, Pass, linkVars
  <2>. QED BY <2>1, <2>2, <2>3, <2>4, <2>5, <2>6 DEF Next, Translate, Compile
<1>3. ASSUME format = "ko", stage' \notin BeforeModule PROVE WithRole("init")' # {}
  <2>1. CASE CreateThisModule
    BY <2>1 DEF CreateThisModule, WithRole, driverVars
  <2>2. CASE stage \notin BeforeModule
    <3>1. fnMap' = fnMap
      BY <2>2, DriverMoves DEF BeforeModule, MovesOn
    <3>. QED BY <1>3, <2>2, <3>1 DEF OutcomeInv, WithRole
  <2>. QED BY <1>3, <2>1, <2>2, ModuleReached
<1>4. ASSUME stage' \in {"assemble", "done"}, format # "ko", ".text" \in required'
      PROVE  TextDefined'
  <2>1. CASE PatchTextRelocations
    <3>1. /\ relocations' = relocations /\ UNCHANGED symbolVars /\ required' = required
          /\ ~\E k \in TextRelocations : getAnySymbol(relocations[k].name).section = Undefined
      BY <1>4, <2>1 DEF PatchTextRelocations, Pass, sectionVars
    <3>2. TextDefined
      BY <3>1 DEF TextDefined
    <3>. QED BY <3>1, <3>2, TextDefinedKept
  <2>2. CASE AssembleFinalElf \/ Finish
    <3>1. /\ relocations' = relocations /\ UNCHANGED symbolVars /\ required' = required
          /\ stage \in {"assemble", "done"}
      BY <1>4, <2>2 DEF AssembleFinalElf, Finish, Pass, sectionVars, linkVars
    <3>. QED BY <1>1, <1>4, <3>1, TextDefinedKept DEF OutcomeInv
  <2>3. ~Translate
    BY <1>4 DEF Translate, Translating, TranslateVariable, TranslateModinfo, SkipFunction, StartFunction,
       TranslateReference, FinishFunction, StartAppend, AppendFunction, FinishAppend, CreateThisModule,
       NoInitFunction, CreateVersions
  <2>4. ~\/ PrepareDynamic \/ PrepareRelocatable \/ UpdateInitialSectionSizes \/ CollectSections
         \/ AssignSymbolIndices \/ BuildFinalSymtabData \/ BuildRelaDynamic \/ BuildRelaRelocatable
         \/ FinalizeSizes \/ FinalizeLayout \/ LayoutDone \/ SetSectionLinks
         \/ PatchSymbolTableAddresses \/ PatchDynSymAddresses \/ PatchDynamicSection
    BY <1>4 DEF PrepareDynamic, PrepareRelocatable, UpdateInitialSectionSizes, CollectSections,
       AssignSymbolIndices, BuildFinalSymtabData, BuildRelaDynamic, BuildRelaRelocatable, FinalizeSizes,
       FinalizeLayout, LayoutDone, SetSectionLinks, PatchSymbolTableAddresses, PatchDynSymAddresses,
       PatchDynamicSection, Pass, linkVars
  <2>. QED BY <2>1, <2>2, <2>3, <2>4 DEF Next, Compile
<1>. QED BY <1>1, <1>2, <1>3, <1>4 DEF OutcomeInv

LEMMA ResolveInit == Init => ResolveInv
<1>. SUFFICES ASSUME Init PROVE ResolveInv
  OBVIOUS
<1>1. /\ stage = "translate" /\ item = 1 /\ refs = 0 /\ fnMap = << >> /\ relocations = << >>
      /\ localSymbols = << >> /\ dynamicSymbols = << >> /\ dynSymEntries = << >>
  BY DEF Init
<1>2. TypeInv /\ LandInv
  BY TypeInit, LandInit
<1>3. Added = {}
  <2>1. \A k : Reachable(k) => k < 1 /\ k \in DOMAIN Items
    BY <1>1 DEF Reachable
  <2>2. DOMAIN Items = 1..Len(Items)
    BY <1>2, ProgramsAssumption DEF TypeInv, DriverInv, Items
  <2>3. \A k : ~Reachable(k)
    BY <2>1, <2>2
  <2>. QED BY <1>1, <2>3 DEF Added, Appended, BeforeModule
<1>4. DefinedInv
  BY <1>1, <1>3 DEF DefinedInv
<1>5. AskedInv
  BY <1>1 DEF AskedInv, NamesIn
<1>6. TranslatedInv
  <2>1. \A k \in Written : ~(k < 1)
    BY <1>2, ProgramsAssumption DEF Written, TypeInv, DriverInv, Items
  <2>. QED BY <1>1, <2>1 DEF TranslatedInv, Reachable
<1>7. RelocatedInv
  BY <1>1 DEF RelocatedInv, Appended
<1>8. IndexInv /\ OutcomeInv
  BY <1>1 DEF IndexInv, OutcomeInv, Numbered, BeforeModule
<1>. QED BY <1>2, <1>4, <1>5, <1>6, <1>7, <1>8 DEF ResolveInv

LEMMA ResolveUnchanged == ASSUME ResolveInv, UNCHANGED vars PROVE ResolveInv'
<1>1. /\ UNCHANGED driverVars /\ UNCHANGED sectionVars /\ UNCHANGED symbolVars
      /\ UNCHANGED fileVars /\ stage' = stage /\ relocations' = relocations
  BY DEF vars, linkVars
<1>2. /\ Items' = Items /\ Ordered' = Ordered /\ Appended' = Appended /\ format' = format /\ prog' = prog
      /\ item' = item /\ refs' = refs /\ fnMap' = fnMap /\ required' = required /\ Item' = Item
      /\ localSymbols' = localSymbols /\ dynamicSymbols' = dynamicSymbols
      /\ dynSymEntries' = dynSymEntries
  BY <1>1 DEF Items, Item, Ordered, Mains, Others, Appended, driverVars, fileVars, sectionVars, symbolVars
<1>3. TypeInv' /\ LandInv'
  BY TypeUnchanged, LandUnchanged DEF ResolveInv
<1>4. Written' = Written /\ WrittenNames' = WrittenNames /\ ReferredNames' = ReferredNames
  BY <1>2 DEF Written, Skipped, WrittenNames, ReferredNames, References
<1>5. /\ \A k : Reachable(k)' <=> Reachable(k)
      /\ \A ref : Met(ref)' <=> Met(ref)
      /\ \A name : LeftToKernel(name)' <=> LeftToKernel(name)
      /\ \A role : WithRole(role)' = WithRole(role)
  BY <1>1, <1>2, <1>4 DEF Reachable, Met, Known, Declared, LeftToKernel, References, WithRole
<1>6. DefinedInv'
  <2>1. Added' = Added /\ Resolved' = Resolved
    BY <1>1, <1>2, <1>5 DEF Added, Resolved
  <2>. QED BY <1>2, <2>1 DEF ResolveInv, DefinedInv
<1>7. AskedInv'
  <2>1. /\ \A k \in DOMAIN fnMap : \A r \in DOMAIN fnMap[k].fn.refs : Met(fnMap[k].fn.refs[r])'
        /\ \A r \in 1..(refs - 1) : Met(Item.refs[r])'
    BY <1>2, <1>5 DEF ResolveInv, AskedInv, Met, Known, Declared
  <2>. QED BY <1>2, <1>5, <2>1 DEF ResolveInv, AskedInv
<1>8. TranslatedInv' /\ RelocatedInv' /\ IndexInv'
  BY <1>1, <1>2, <1>4, <1>5 DEF ResolveInv, TranslatedInv, RelocatedInv, IndexInv
<1>9. OutcomeInv'
  <2>1. Linkable' <=> Linkable
    <3>1. DefinedNames' = DefinedNames /\ \A k : References(k)' = References(k)
      BY <1>2, <1>4 DEF DefinedNames, References
    <3>. QED BY <1>2, <1>4, <1>5, <3>1 DEF Linkable, References
  <2>2. TextDefined => TextDefined'
    BY <1>1, TextDefinedKept
  <2>. QED BY <1>1, <1>2, <1>5, <2>1, <2>2 DEF ResolveInv, OutcomeInv
<1>. QED BY <1>3, <1>6, <1>7, <1>8, <1>9 DEF ResolveInv

LEMMA ResolveStep == ASSUME ResolveInv, Next PROVE ResolveInv'
<1>1. /\ TypeInv /\ LandInv /\ DefinedInv /\ AskedInv /\ TranslatedInv /\ RelocatedInv /\ IndexInv
      /\ OutcomeInv
  BY DEF ResolveInv
<1>. QED BY <1>1, TypeStep, LandStep, DefinedStep, AskedStep, TranslatedStep, RelocatedStep, IndexStep,
            OutcomeStep DEF ResolveInv

(* What was written refers to nothing that is undefined.                    *)
LEMMA LinkedAreDefined ==
  ASSUME ResolveInv, stage = "done", NEW k \in Written, NEW ref \in References(k)
  PROVE  ref.name \in DefinedNames \/ LeftToKernel(ref.name)
<1>1. /\ TypeInv /\ LandInv /\ DefinedInv /\ AskedInv /\ TranslatedInv /\ RelocatedInv /\ OutcomeInv
      /\ SymbolInv /\ Placed
  BY DEF ResolveInv, TypeInv, DefinedInv, Placed
<1>2. PICK n \in 1..Appended : Ordered[n].fn = Items[k]
  BY <1>1, WrittenOrdered
<1>3. PICK r \in DOMAIN Items[k].refs : ref = Items[k].refs[r]
  BY DEF References
<1>4. PICK j \in DOMAIN relocations : /\ relocations[j].name = ref.name
                                      /\ format # "ko" => relocations[j].section = ".text"
  BY <1>1, <1>2, <1>3 DEF RelocatedInv
<1>5. Known(ref.name)
  BY <1>1, <1>4 DEF TypeInv, ServedInv, Laid
<1>6. Resolved \subseteq DefinedNames
  BY <1>1, DefinedAreNames DEF Resolved, SymbolInv
<1>7. CASE format = "ko"
  <2>1. ref.name \in Resolved \/ ref.name \in NamesIn(dynamicSymbols)
    BY <1>5 DEF Known, Resolved
  <2>. QED BY <1>1, <1>6, <1>7, <2>1 DEF AskedInv
<1>8. CASE format # "ko"
  <2>1. ".text" \in required
    <3>1. Appended > 0
      BY <1>1, <1>2, AppendedFacts DEF TypeInv
    <3>. QED BY <1>1, <1>8, <3>1 DEF LandInv
  <2>2. getAnySymbol(ref.name).section # Undefined
    BY <1>1, <1>4, <1>8, <2>1 DEF OutcomeInv, TextDefined, TextRelocations
  <2>. QED BY <1>1, <1>5, <1>6, <2>2, FoundPlaced
<1>. QED BY <1>7, <1>8

(* A file is written only for a program whose references are all defined,   *)
(* and the compilation is given up only for one of the others: the three    *)
(* passes that may find an undefined symbol agree.                          *)
THEOREM AbortsExactly == Spec => []AbortsIffUnresolved
<1>1. Init => ResolveInv
  BY ResolveInit
<1>2. ResolveInv /\ [Next]_vars => ResolveInv'
  BY ResolveStep, ResolveUnchanged
<1>3. ResolveInv => AbortsIffUnresolved
  <2>. SUFFICES ASSUME ResolveInv PROVE AbortsIffUnresolved
    OBVIOUS
  <2>1. stage = "aborted" => ~Linkable
    BY DEF ResolveInv, OutcomeInv
  <2>2. ASSUME stage = "done", format = "ko" PROVE \E k \in Written : Items[k].role = "init"
    <3>1. WithRole("init") # {}
      BY <2>2 DEF ResolveInv, OutcomeInv, BeforeModule
    <3>2. PICK n \in DOMAIN fnMap : fnMap[n].fn.role = "init"
      BY <3>1 DEF WithRole
    <3>3. ~Skipped(fnMap[n].fn) /\ \E j \in DOMAIN Items : Items[j].kind = "fn" /\ fnMap[n].fn = Items[j]
      BY FunctionFacts DEF ResolveInv, TypeInv
    <3>. QED BY <3>2, <3>3 DEF Written
  <2>. QED BY <2>1, <2>2, LinkedAreDefined DEF AbortsIffUnresolved, Linkable
<1>. QED BY <1>1, <1>2, <1>3, PTL DEF Spec
===============================================================================
