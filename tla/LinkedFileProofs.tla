-------------------------- MODULE LinkedFileProofs --------------------------
(***************************************************************************)
(* Proofs about the tables and the sections of the file that Linker        *)
(* writes, for every program.                                              *)
(***************************************************************************)
EXTENDS LinkerProofs

-----------------------------------------------------------------------------
(* What is required together: the two sections of .symtab, those of dynamic *)
(* linking, and with a .rela section the one it is about.                   *)
RequiredInv ==
  /\ SymtabSections \cap required # {} => SymtabSections \subseteq required
  /\ DynamicSections \cap required # {} => dynamicLinkEnabled
  /\ dynamicLinkEnabled => DynamicSections \subseteq required
  /\ \A k \in DOMAIN relocations : relocations[k].section \in required
  /\ format = "ko" /\ relocations # << >> => SymtabSections \subseteq required
  /\ \A name \in Relocated :
       RelaOf(name) \in required => name \in required /\ SymtabSections \subseteq required

Grouped == SymtabSections \cup DynamicSections \cup RelaNames
Single(S) == \A name \in S : name \notin Grouped

LEMMA GroupsApart ==
  /\ \A name \in SymtabSections : name \notin DynamicSections \cup RelaNames
  /\ \A name \in DynamicSections : name \notin RelaNames \cup SymtabSections
BY DEF SymtabSections, DynamicSections, RelaNames

LEMMA SinglesListed ==
  Single({"", ".shstrtab", ".data", ".rodata", ".text", ".bss", ".modinfo", ".init.text", ".exit.text",
          ".gnu.linkonce.this_module", "__versions", ".interp"})
BY DEF Single, Grouped, SymtabSections, DynamicSections, RelaNames

LEMMA RequiredInit == Init => RequiredInv
<1>. SUFFICES ASSUME Init PROVE RequiredInv
  OBVIOUS
<1>1. relocations = << >> /\ format = prog.format
  BY DEF Init, Layout!Idle
<1>2. /\ dynamicLinkEnabled <=> prog.format = "so"
      /\ required = {"", ".shstrtab"}
           \cup (IF prog.format = "so" THEN SymtabSections \cup DynamicSections ELSE {})
  BY DEF Init
<1>3. \A name \in Relocated : RelaOf(name) \notin required
  BY <1>2, RelaFacts, GroupsApart, SinglesListed DEF Single, Grouped
<1>4. SymtabSections \cap {"", ".shstrtab"} = {} /\ DynamicSections \cap {"", ".shstrtab"} = {}
  BY DEF SymtabSections, DynamicSections
<1>5. CASE prog.format = "so"
  <2>1. SymtabSections \subseteq required /\ DynamicSections \subseteq required /\ dynamicLinkEnabled
    BY <1>2, <1>5
  <2>. QED BY <1>1, <1>3, <2>1 DEF RequiredInv
<1>6. CASE prog.format # "so"
  <2>1. /\ SymtabSections \cap required = {} /\ DynamicSections \cap required = {}
        /\ ~dynamicLinkEnabled
    BY <1>2, <1>4, <1>6
  <2>. QED BY <1>1, <1>3, <2>1 DEF RequiredInv
<1>. QED BY <1>5, <1>6

(* The sections a symbol or a piece of data needs.                          *)
LEMMA RequiredSingles ==
  ASSUME RequiredInv, NEW S, Single(S), NEW X, X = {} \/ X = SymtabSections,
         required' = required \cup S \cup X, dynamicLinkEnabled' = dynamicLinkEnabled, format' = format,
         \A k \in DOMAIN relocations' : relocations'[k].section \in required \cup S,
         format = "ko" /\ relocations' # << >> => SymtabSections \subseteq required \cup X
  PROVE  RequiredInv'
<1>1. \A name \in S : name \notin SymtabSections /\ name \notin DynamicSections /\ name \notin RelaNames
  BY DEF Single, Grouped
<1>2. SymtabSections \cap required' # {} => SymtabSections \subseteq required'
  BY <1>1 DEF RequiredInv
<1>3. DynamicSections \cap required' # {} => DynamicSections \cap required # {}
  BY <1>1, GroupsApart
<1>4. ASSUME NEW name \in Relocated, RelaOf(name) \in required'
      PROVE  name \in required' /\ SymtabSections \subseteq required'
  <2>1. RelaOf(name) \in required
    BY <1>1, <1>4, RelaFacts, GroupsApart
  <2>. QED BY <2>1 DEF RequiredInv
<1>. QED BY <1>2, <1>3, <1>4 DEF RequiredInv

LEMMA RequiredAsked ==
  ASSUME RequiredInv, NEW name, requireSymbol(name), format' = format, relocations' = relocations
  PROVE  RequiredInv'
<1>1. CASE required' = required /\ dynamicLinkEnabled' = dynamicLinkEnabled
  BY <1>1 DEF RequiredInv
<1>2. CASE ~dynamicLinkEnabled /\ EnableDynamicLinking
  <2>1. /\ dynamicLinkEnabled' = TRUE
        /\ \E S : required' = required \cup DynamicSections \cup S /\ (S = {} \/ S = {".interp"})
    BY <1>2 DEF EnableDynamicLinking
  <2>2. \A other \in SymtabSections \cup RelaNames : other \in required' => other \in required
    <3>1. \A other \in SymtabSections \cup RelaNames : other # ".interp"
      BY DEF SymtabSections, RelaNames
    <3>. QED BY <2>1, <3>1, GroupsApart
  <2>3. required \subseteq required' /\ DynamicSections \subseteq required'
    BY <2>1
  <2>. QED BY <2>1, <2>2, <2>3, RelaFacts DEF RequiredInv
<1>. QED BY <1>1, <1>2 DEF requireSymbol, EnableDynamicLinking

(* Each new .rela section is for the section of a relocation.               *)
LEMMA RelaSectionFrom ==
  ASSUME RelocationInv, NEW j \in DOMAIN RelaSections
  PROVE  \E k \in DOMAIN relocations : RelaSections[j] = RelaOf(relocations[k].section)
<1>. DEFINE first(k) == \A i \in 1..(k - 1) : relocations[i].section # relocations[k].section
            new == {k \in DOMAIN relocations : first(k)}
            numbers == [k \in DOMAIN relocations |-> k]
            firsts == Only(numbers, new)
<1>1. RelaSections = [n \in DOMAIN firsts |-> RelaOf(relocations[firsts[n]].section)]
  BY DEF RelaSections
<1>2. numbers \in Seq(Nat)
  BY DEF RelocationInv
<1>3. PICK p : Places(firsts, numbers, Len(numbers), new, p)
  BY <1>2, OnlyPlaces
<1>. HIDE DEF firsts, numbers
<1>4. j \in DOMAIN firsts /\ firsts[j] \in new
  BY <1>1, <1>3 DEF Places
<1>. QED BY <1>1, <1>4

(* The sections of a step of the driver, in the form of RequiredSingles.    *)
LEMMA TextSingles ==
  ASSUME NEW S, S \subseteq {"", ".shstrtab", ".data", ".rodata", ".text", ".bss", ".modinfo", ".init.text",
                             ".exit.text", ".gnu.linkonce.this_module", "__versions", ".interp"}
  PROVE  Single(S)
BY SinglesListed DEF Single

LEMMA RequiredStep == ASSUME TypeInv, RequiredInv, Next PROVE RequiredInv'
<1>0. format' = format /\ DriverInv /\ SymbolInv /\ RelocationInv
  BY AppendedStep DEF TypeInv
<1>. DEFINE Held == \A k \in DOMAIN relocations : relocations[k].section \in required
            Tabled == format = "ko" /\ relocations # << >> => SymtabSections \subseteq required
<1>a. Held /\ Tabled
  BY DEF RequiredInv
<1>1. CASE TranslateVariable
  <2>. DEFINE start == Layout!AlignTo(hdr[Item.section].len, AlignOf(Item.section))
              sym == Symbol(Item.name, Item.section, start, Item.size, "OBJECT", Item.binding)
              S == (IF Item.bss THEN Ensured(".bss") ELSE {}) \cup {Item.section}
  <2>1. /\ required' = required \cup S \cup SymbolSections(sym)
        /\ UNCHANGED <<dynamicLinkEnabled, relocations>> /\ item \in DOMAIN Items /\ Item.kind = "var"
    BY <1>1, <1>0, ProgramsAssumption DEF TranslateVariable, Translating, Items, DriverInv, Reached
  <2>2. Item.section \in {".data", ".rodata"}
    <3>1. Item \in Variable
      BY <2>1, <1>0, ProgramType DEF Item, DriverInv
    <3>. QED BY <3>1 DEF Variable
  <2>3. Single(S)
    BY <2>2, TextSingles DEF Ensured
  <2>4. SymbolSections(sym) = {} \/ SymbolSections(sym) = SymtabSections
    BY DEF SymbolSections
  <2>. HIDE DEF S, sym
  <2>. QED BY <1>0, <1>a, <2>1, <2>3, <2>4, RequiredSingles
<1>2. CASE TranslateModinfo \/ CreateVersions
  <2>1. /\ UNCHANGED <<dynamicLinkEnabled, relocations>>
        /\ \E S : required' = required \cup S /\ (S = {} \/ S = {".modinfo"} \/ S = {"__versions"})
    <3>1. CASE TranslateModinfo
      BY <3>1 DEF TranslateModinfo, symbolVars
    <3>2. CASE CreateVersions
      BY <3>2 DEF CreateVersions, symbolVars, sectionVars
    <3>. QED BY <1>2, <3>1, <3>2
  <2>2. PICK S : required' = required \cup S \cup {} /\ (S = {} \/ S = {".modinfo"} \/ S = {"__versions"})
    BY <2>1
  <2>3. Single(S)
    BY <2>2, TextSingles
  <2>. QED BY <1>0, <1>a, <2>1, <2>2, <2>3, RequiredSingles
<1>3. CASE \/ SkipFunction \/ FinishFunction \/ FinishAppend \/ NoInitFunction
           \/ Compile /\ ~PrepareRelocatable
  <2>1. required' = required /\ dynamicLinkEnabled' = dynamicLinkEnabled /\ relocations' = relocations
    <3>1. CASE SkipFunction \/ FinishFunction \/ FinishAppend \/ NoInitFunction
      BY <3>1 DEF SkipFunction, FinishFunction, FinishAppend, NoInitFunction, sectionVars, symbolVars
    <3>2. CASE Compile /\ ~PrepareRelocatable
      <4>1. relocations' = relocations /\ dynamicLinkEnabled' = dynamicLinkEnabled
        BY <3>2, Passes, CompileSymbols
      <4>2. CASE PrepareDynamic \/ UpdateInitialSectionSizes \/ CollectSections
        BY <4>1, <4>2 DEF PrepareDynamic, UpdateInitialSectionSizes, CollectSections, sectionVars
      <4>3. ASSUME Compile PROVE \/ PrepareDynamic \/ PrepareRelocatable \/ UpdateInitialSectionSizes
                                 \/ CollectSections \/ stage \in Collected
        BY <4>3 DEF Compile, AssignSymbolIndices, BuildFinalSymtabData, BuildRelaDynamic,
           BuildRelaRelocatable, FinalizeSizes, FinalizeLayout, LayoutDone, SetSectionLinks,
           PatchSymbolTableAddresses, PatchDynSymAddresses, PatchDynamicSection, PatchTextRelocations,
           AssembleFinalElf, Finish, Pass, Collected, Laid
      <4>4. CASE stage \in Collected
        BY <4>1, <4>4, RequiredKept
      <4>. QED BY <3>2, <4>2, <4>3, <4>4
    <3>. QED BY <1>3, <3>1, <3>2
  <2>2. required' = required \cup {} \cup {} /\ Single({})
    BY <2>1 DEF Single
  <2>. QED BY <1>0, <1>a, <2>1, <2>2, RequiredSingles
<1>4. CASE StartFunction \/ TranslateReference
  <2>1. relocations' = relocations /\ \/ \E name : requireSymbol(name)
                                      \/ required' = required /\ dynamicLinkEnabled' = dynamicLinkEnabled
    <3>1. CASE StartFunction
      BY <3>1 DEF StartFunction, sectionVars, symbolVars
    <3>2. CASE TranslateReference
      BY <3>2 DEF TranslateReference, sectionVars, symbolVars
    <3>. QED BY <1>4, <3>1, <3>2
  <2>2. CASE \E name : requireSymbol(name)
    BY <1>0, <2>1, <2>2, RequiredAsked
  <2>3. CASE required' = required /\ dynamicLinkEnabled' = dynamicLinkEnabled
    <3>1. required' = required \cup {} \cup {} /\ Single({})
      BY <2>3 DEF Single
    <3>. QED BY <1>0, <1>a, <2>1, <2>3, <3>1, RequiredSingles
  <2>. QED BY <2>1, <2>2, <2>3
<1>5. CASE StartAppend
  <2>1. /\ UNCHANGED <<dynamicLinkEnabled, relocations>>
        /\ \E S : required' = required \cup S /\ (S = {} \/ S = {".init.text", ".exit.text"})
    BY <1>5 DEF StartAppend, symbolVars
  <2>2. PICK S : required' = required \cup S \cup {} /\ (S = {} \/ S = {".init.text", ".exit.text"})
    BY <2>1
  <2>3. Single(S)
    BY <2>2, TextSingles
  <2>. QED BY <1>0, <1>a, <2>1, <2>2, <2>3, RequiredSingles
<1>6. CASE AppendFunction
  <2>. DEFINE entry == Ordered[item]
              fn == entry.fn
              section == TargetSection(fn)
              start == hdr[section].len
              sym == Symbol(fn.name, section, start, fn.size, "FUNC",
                            IF fn.public \/ fn.role = "main" THEN "GLOBAL" ELSE "LOCAL")
              new == [k \in DOMAIN entry.relocs |->
                        [name |-> entry.relocs[k].name, section |-> section,
                         offset |-> entry.relocs[k].offset + start,
                         type |-> entry.relocs[k].type, addend |-> entry.relocs[k].addend]]
  <2>1. /\ required' = required \cup {section} \cup SymbolSections(sym)
        /\ dynamicLinkEnabled' = dynamicLinkEnabled /\ relocations' = relocations \o new
    BY <1>6 DEF AppendFunction
  <2>2. Single({section}) /\ entry.relocs \in Seq(BodyRelocation)
    <3>1. section \in {".text", ".init.text", ".exit.text"}
      BY DEF TargetSection
    <3>. QED BY <1>6, <3>1, TextSingles, NextFunction
  <2>3. SymbolSections(sym) = {} \/ SymbolSections(sym) = SymtabSections
    BY DEF SymbolSections
  <2>4. format = "ko" => SymbolSections(sym) = SymtabSections
    BY <1>0 DEF SymbolSections, Exported, SymbolInv
  <2>5. \A k \in DOMAIN relocations' : relocations'[k].section \in required \cup {section}
    <3>. DEFINE S == {relocations[k] : k \in DOMAIN relocations} \cup {new[k] : k \in DOMAIN new}
    <3>1. relocations \in Seq(S) /\ new \in Seq(S)
      <4>1. DOMAIN entry.relocs = 1..Len(entry.relocs) /\ Len(entry.relocs) \in Nat
        BY <2>2
      <4>2. relocations \in Seq(Relocation)
        BY <1>0 DEF RelocationInv
      <4>. HIDE DEF entry
      <4>. QED BY <4>1, <4>2
    <3>2. \A j \in DOMAIN new : new[j].section = section
      OBVIOUS
    <3>. HIDE DEF new, S
    <3>3. \A k \in DOMAIN relocations' : \/ k \in DOMAIN relocations /\ relocations'[k] = relocations[k]
                                        \/ \E j \in DOMAIN new : relocations'[k] = new[j]
      BY <2>1, <3>1, Joined
    <3>. QED BY <1>a, <3>2, <3>3
  <2>. HIDE DEF section, sym, new
  <2>. QED BY <1>0, <1>a, <2>1, <2>2, <2>3, <2>4, <2>5, RequiredSingles
<1>7. CASE CreateThisModule
  <2>. DEFINE section == ".gnu.linkonce.this_module"
              sym == Symbol("this_module", section, 0, MODULESIZE, "OBJECT", "GLOBAL")
              exits == IF WithRole("exit") # {} THEN <<Pointer(EXITFIELD, "exit")>> ELSE << >>
              new == <<Pointer(INITFIELD, "init")>> \o exits
  <2>1. /\ required' = required \cup {section} \cup SymbolSections(sym)
        /\ dynamicLinkEnabled' = dynamicLinkEnabled
        /\ relocations' = (relocations \o <<Pointer(INITFIELD, "init")>>) \o exits /\ stage = "module"
    BY <1>7 DEF CreateThisModule
  <2>2. Single({section})
    BY TextSingles
  <2>3. SymbolSections(sym) = SymtabSections
    BY <1>0, <2>1 DEF SymbolSections, Exported, SymbolInv, TypeInv, ModuleInv
  <2>4. \A k \in DOMAIN relocations' : relocations'[k].section \in required \cup {section}
    <3>. DEFINE S == {relocations[k] : k \in DOMAIN relocations}
                       \cup {Pointer(INITFIELD, "init"), Pointer(EXITFIELD, "exit")}
                one == <<Pointer(INITFIELD, "init")>>
                both == relocations \o one
    <3>1. relocations \in Seq(S) /\ one \in Seq(S) /\ exits \in Seq(S)
      <4>1. relocations \in Seq(Relocation)
        BY <1>0 DEF RelocationInv
      <4>. DEFINE a == Pointer(INITFIELD, "init")
                  b == Pointer(EXITFIELD, "exit")
      <4>. HIDE DEF a, b
      <4>2. S = {relocations[k] : k \in DOMAIN relocations} \cup {a, b} /\ one = <<a>>
            /\ (exits = <<b>> \/ exits = << >>)
        BY DEF a, b
      <4>. HIDE DEF one, exits, S
      <4>3. relocations \in Seq(S)
        BY <4>1, <4>2
      <4>4. one \in Seq(S)
        BY <4>2
      <4>5. exits \in Seq(S)
        <5>1. <<b>> \in Seq(S) /\ << >> \in Seq(S)
          BY <4>2
        <5>. QED BY <4>2, <5>1
      <4>. QED BY <4>3, <4>4, <4>5
    <3>2. Pointer(INITFIELD, "init").section = section /\ Pointer(EXITFIELD, "exit").section = section
      BY DEF Pointer
    <3>3. \A j \in DOMAIN one : one[j].section = section
      BY <3>2
    <3>4. \A j \in DOMAIN exits : exits[j].section = section
      BY <3>2
    <3>. HIDE DEF one, exits, S
    <3>5. /\ both \in Seq(S)
          /\ \A k \in DOMAIN both : \/ k \in DOMAIN relocations /\ both[k] = relocations[k]
                                    \/ \E j \in DOMAIN one : both[k] = one[j]
      BY <3>1, Joined
    <3>6. relocations' = both \o exits
      BY <2>1 DEF one
    <3>. HIDE DEF both
    <3>7. \A k \in DOMAIN relocations' : \/ k \in DOMAIN both /\ relocations'[k] = both[k]
                                        \/ \E j \in DOMAIN exits : relocations'[k] = exits[j]
      BY <3>1, <3>5, <3>6, Joined
    <3>. QED BY <1>a, <3>3, <3>4, <3>5, <3>7
  <2>. HIDE DEF sym, exits
  <2>. QED BY <1>0, <1>a, <2>1, <2>2, <2>3, <2>4, RequiredSingles
<1>8. CASE PrepareRelocatable
  <2>1. /\ required' = required \cup Listed(RelaSections) /\ relocations' = relocations
        /\ dynamicLinkEnabled' = dynamicLinkEnabled /\ format = "ko"
    BY <1>8 DEF PrepareRelocatable, Pass, symbolVars, Listed
  <2>2. ASSUME NEW name \in Listed(RelaSections)
        PROVE  name \in RelaNames /\ \E k \in DOMAIN relocations : name = RelaOf(relocations[k].section)
    <3>1. RelaSections \in Seq(RelaNames)
      BY <1>0, RelaSectionsFacts
    <3>2. PICK j \in DOMAIN RelaSections : name = RelaSections[j]
      BY <2>2 DEF Listed
    <3>. QED BY <1>0, <3>1, <3>2, RelaSectionFrom
  <2>3. ASSUME NEW name \in Relocated, RelaOf(name) \in required'
        PROVE  name \in required' /\ SymtabSections \subseteq required'
    <3>1. CASE RelaOf(name) \in required
      BY <2>1, <3>1 DEF RequiredInv
    <3>2. CASE RelaOf(name) \in Listed(RelaSections)
      <4>1. PICK k \in DOMAIN relocations : RelaOf(name) = RelaOf(relocations[k].section)
        BY <2>2, <3>2
      <4>2. relocations[k].section \in Relocated /\ relocations # << >>
        <5>1. relocations[k] \in Relocation
          BY <1>0 DEF RelocationInv
        <5>. QED BY <5>1 DEF Relocation
      <4>3. name = relocations[k].section
        BY <4>1, <4>2, RelaFacts
      <4>. QED BY <1>a, <2>1, <4>2, <4>3
    <3>. QED BY <2>1, <2>3, <3>1, <3>2
  <2>4. \A other \in SymtabSections \cup DynamicSections : other \in required' => other \in required
    BY <2>1, <2>2, GroupsApart
  <2>. QED BY <1>0, <2>1, <2>3, <2>4 DEF RequiredInv
<1>. QED BY <1>1, <1>2, <1>3, <1>4, <1>5, <1>6, <1>7, <1>8 DEF Next, Translate

-----------------------------------------------------------------------------
(* What is known of the lengths and the sizes of the sections.  The driver  *)
(* only adds data; the passes fill tables and copy lengths to sizes.        *)
Driving == {"translate", "append", "module", "versions", "prepare"}
Prepared == Collected \cup {"sizes", "collect"}
Measured == {".hash", ".dynstr", ".dynsym", ".got.plt", ".dynamic"}
Unfilled == {".rela.dyn", ".rela.plt"}
SizeInv ==
  /\ \A name \in Names : hdr[name].len = 0 \/ stage \in Driving => hdr[name].size = 0
  /\ \A name \in Presized : hdr[name].size = hdr[name].len
  /\ \A name \in Unfilled : hdr[name].len = 0
  /\ stage \in Prepared /\ dynamicLinkEnabled => \A name \in Measured : hdr[name].len > 0
  /\ stage \in Laid => \A name \in Names : hdr[name].size = hdr[name].len
  /\ DOMAIN rela = RelaNames

LEMMA SizeNames ==
  /\ Presized \cup Measured \cup Unfilled \subseteq Names /\ Presized \cup Unfilled \subseteq BaseNames
  /\ Driving \cap Prepared = {} /\ Driving \cap Laid = {} /\ Laid \subseteq Prepared
  /\ "aborted" \notin Driving /\ "aborted" \notin Prepared /\ "aborted" \notin Laid
<1>1. Presized \cup Measured \cup Unfilled \subseteq BaseNames
  BY DEF Presized, Measured, Unfilled, BaseNames
<1>2. BaseNames \subseteq Names
  BY Prefix
<1>3. /\ Driving \cap Prepared = {} /\ Driving \cap Laid = {} /\ Laid \subseteq Prepared
      /\ "aborted" \notin Driving /\ "aborted" \notin Prepared /\ "aborted" \notin Laid
  BY DEF Driving, Prepared, Collected, Laid
<1>. QED BY <1>1, <1>2, <1>3

LEMMA SizeInit == Init => SizeInv
<1>. SUFFICES ASSUME Init PROVE SizeInv
  OBVIOUS
<1>1. \A name \in Names : hdr[name].size = 0 /\ (name # ".shstrtab" => hdr[name].len = 0)
  BY DEF Init
<1>2. ".shstrtab" \notin Presized \cup Unfilled
  BY DEF Presized, Unfilled
<1>3. stage \in Driving
  BY DEF Init, Driving
<1>4. DOMAIN rela = RelaNames
  BY RelaFacts DEF Init
<1>. QED BY <1>1, <1>2, <1>3, <1>4, SizeNames DEF SizeInv

(* Setting the length of one section.                                       *)
LEMMA LenChanged ==
  ASSUME NEW h \in [Names -> Header], NEW name \in Names, NEW n \in Nat,
         NEW g, g = [h EXCEPT ![name].len = n]
  PROVE  /\ g[name].len = n /\ g[name].size = h[name].size
         /\ \A other \in Names : other # name => g[other] = h[other]
         /\ \A other \in Names : g[other].size = h[other].size
<1>. DEFINE r == h[name]
            wide == [r EXCEPT !.len = n]
<1>1. g = [h EXCEPT ![name] = wide]
  BY Zenon
<1>2. r \in Header
  OBVIOUS
<1>. HIDE DEF r
<1>3. wide.len = n /\ wide.size = r.size
  BY <1>2 DEF Header
<1>. HIDE DEF wide
<1>. QED BY <1>1, <1>3 DEF r

(* A section is given data, and its size at once.                           *)
LEMMA DataChanged ==
  ASSUME NEW h \in [Names -> Header], NEW name \in Names, NEW n \in Nat
  PROVE  /\ WithData(h, name, n)[name].len = n /\ WithData(h, name, n)[name].size = n
         /\ \A other \in Names : other # name => WithData(h, name, n)[other] = h[other]
<1>. DEFINE r == h[name]
            wide == [[r EXCEPT !.len = n] EXCEPT !.size = n]
<1>1. WithData(h, name, n) = [h EXCEPT ![name] = wide]
  BY Zenon DEF WithData
<1>2. r \in Header
  OBVIOUS
<1>. HIDE DEF r
<1>3. wide.len = n /\ wide.size = n
  BY <1>2 DEF Header
<1>. HIDE DEF wide
<1>. QED BY <1>1, <1>3

(* The driver adds data to sections that no pass measures before.           *)
AddsData ==
  \E name \in Names \ (Presized \cup Unfilled) : \E n \in Nat : hdr' = [hdr EXCEPT ![name].len = n]
SizesKept ==
  \A name \in Names : /\ hdr'[name].size = hdr[name].size
                      /\ name \in Presized \cup Unfilled => hdr'[name] = hdr[name]

LEMMA DriverHeaders == ASSUME TypeInv, Translate PROVE SizesKept
<1>0. HeaderInv /\ DriverInv
  BY DEF TypeInv
<1>1. ASSUME AddsData PROVE SizesKept
  <2>1. PICK name \in Names \ (Presized \cup Unfilled) : \E n \in Nat : hdr' = [hdr EXCEPT ![name].len = n]
    BY <1>1 DEF AddsData
  <2>2. PICK n \in Nat : hdr' = [hdr EXCEPT ![name].len = n]
    BY <2>1
  <2>3. hdr \in [Names -> Header]
    BY <1>0 DEF HeaderInv
  <2>. QED BY <2>2, <2>3, LenChanged DEF SizesKept
<1>2. ASSUME NEW name \in Names \ (Presized \cup Unfilled), NEW n \in Nat, hdr' = Grown(hdr, name, n)
      PROVE  AddsData
  <2>1. hdr' = [hdr EXCEPT ![name].len = hdr[name].len + n]
    BY <1>2, Zenon DEF Grown
  <2>2. hdr[name].len + n \in Nat
    <3>1. hdr[name].len \in Nat
      BY <1>0, HeaderFields DEF HeaderInv
    <3>. QED BY <3>1
  <2>. QED BY <2>1, <2>2 DEF AddsData
<1>. DEFINE Free == {".data", ".rodata", ".interp", ".text", ".init.text", ".exit.text", ".modinfo",
                     ".gnu.linkonce.this_module", "__versions"}
<1>3. Free \subseteq Names \ (Presized \cup Unfilled)
  <2>1. Free \subseteq Names
    BY NameFacts DEF BaseNames, AddedSections
  <2>2. Free \cap (Presized \cup Unfilled) = {}
    BY DEF Presized, Unfilled
  <2>. QED BY <2>1, <2>2
<1>. HIDE DEF Free
<1>f. {".data", ".rodata", ".interp", ".text", ".init.text", ".exit.text", ".modinfo",
       ".gnu.linkonce.this_module", "__versions"} \subseteq Names \ (Presized \cup Unfilled)
  BY <1>3 DEF Free
<1>4. CASE TranslateVariable
  <2>. DEFINE start == Layout!AlignTo(hdr[Item.section].len, AlignOf(Item.section))
  <2>1. /\ hdr' = [hdr EXCEPT ![Item.section].len = start + Item.size]
        /\ item \in DOMAIN Items /\ Item.kind = "var"
    <3>1. hdr' = [hdr EXCEPT ![Item.section].len = start + Item.size]
      BY <1>4, Zenon DEF TranslateVariable
    <3>. QED BY <1>0, <1>4, <3>1, ProgramsAssumption
             DEF TranslateVariable, Translating, Items, DriverInv, Reached
  <2>2. Item.section \in Free /\ Item.size \in Nat
    <3>1. Item \in Variable
      BY <1>0, <2>1, ProgramType DEF Item, DriverInv
    <3>. QED BY <3>1 DEF Variable, Free
  <2>3. start + Item.size \in Nat
    <3>1. hdr[Item.section].len \in Nat
      BY <1>0, <1>3, <2>2, HeaderFields DEF HeaderInv
    <3>2. start \in Nat
      BY <3>1, AlignFacts
    <3>. HIDE DEF start
    <3>. QED BY <2>2, <3>2
  <2>. HIDE DEF start
  <2>4. AddsData
    BY <1>3, <2>1, <2>2, <2>3 DEF AddsData
  <2>. QED BY <1>1, <2>4 DEF SizesKept
<1>5. CASE TranslateModinfo
  <2>1. /\ hdr' = Grown(hdr, ".modinfo", Item.size)
        /\ item \in DOMAIN Items /\ Item.kind = "modinfo"
    BY <1>0, <1>5, ProgramsAssumption DEF TranslateModinfo, Translating, Items, DriverInv, Reached
  <2>2. Item.size \in Nat
    <3>1. Item \in Modinfo
      BY <1>0, <2>1, ProgramType DEF Item, DriverInv
    <3>. QED BY <3>1 DEF Modinfo
  <2>3. AddsData
    BY <1>2, <1>f, <2>1, <2>2
  <2>. QED BY <1>1, <2>3
<1>6. CASE StartFunction \/ TranslateReference
  <2>1. hdr' = hdr \/ \E name : requireSymbol(name)
    BY <1>6, Zenon DEF StartFunction, TranslateReference, sectionVars
  <2>2. hdr' = hdr \/ hdr' = [hdr EXCEPT ![".interp"].len = INTERP]
    BY <2>1, Zenon DEF requireSymbol, EnableDynamicLinking
  <2>3. INTERP \in Nat
    BY DEF INTERP
  <2>4. hdr' = hdr \/ AddsData
    BY <1>f, <2>2, <2>3 DEF AddsData
  <2>. QED BY <1>1, <2>4 DEF SizesKept
<1>7. CASE SkipFunction \/ FinishFunction \/ StartAppend \/ FinishAppend \/ NoInitFunction
  BY <1>7 DEF SkipFunction, FinishFunction, StartAppend, FinishAppend, NoInitFunction, sectionVars, SizesKept
<1>8. CASE AppendFunction
  <2>. DEFINE fn == Ordered[item].fn
  <2>1. hdr' = Grown(hdr, TargetSection(fn), fn.size)
    BY <1>8 DEF AppendFunction
  <2>2. fn.size \in Nat
    BY <1>8, NextFunction DEF Function
  <2>3. TargetSection(fn) \in Free
    BY DEF TargetSection, Free
  <2>4. AddsData
    BY <1>2, <1>3, <2>1, <2>2, <2>3
  <2>. QED BY <1>1, <2>4 DEF SizesKept
<1>9. CASE CreateThisModule
  <2>1. hdr' = Grown(hdr, ".gnu.linkonce.this_module", MODULESIZE) /\ MODULESIZE \in Nat
    BY <1>9 DEF CreateThisModule, MODULESIZE
  <2>2. AddsData
    BY <1>2, <1>f, <2>1
  <2>. QED BY <1>1, <2>2
<1>10. CASE CreateVersions
  <2>. DEFINE external == Only(dynamicSymbols, {sym \in SymbolsIn(dynamicSymbols) : sym.section = Undefined})
  <2>1. external \in Seq(SymbolRecord)
    BY OnlyPlaces DEF SymbolInv, TypeInv
  <2>2. hdr' = hdr \/ hdr' = Grown(hdr, "__versions", Len(external) * (8 + NAME))
    BY <1>10, Zenon DEF CreateVersions, sectionVars
  <2>. HIDE DEF external
  <2>3. Len(external) * (8 + NAME) \in Nat
    BY <2>1 DEF NAME
  <2>4. hdr' = hdr \/ AddsData
    BY <1>2, <1>f, <2>2, <2>3
  <2>. QED BY <1>1, <2>4 DEF SizesKept
<1>. QED BY <1>4, <1>5, <1>6, <1>7, <1>8, <1>9, <1>10 DEF Translate

(* A pass that fills a table of its own, and one that measures nothing.     *)
Fills ==
  \A name \in Names :
    \/ hdr'[name].len = hdr[name].len /\ hdr'[name].size = hdr[name].size
    \/ name \notin Presized \cup Measured \cup Unfilled /\ hdr'[name].size = hdr'[name].len

LEMMA SizesFilled ==
  ASSUME SizeInv, Fills, stage \notin Driving, stage' \notin Driving,
         stage' \in Laid => stage \in Laid, stage' \in Prepared => stage \in Prepared,
         dynamicLinkEnabled' = dynamicLinkEnabled, DOMAIN rela' = DOMAIN rela
  PROVE  SizeInv'
<1>1. ASSUME NEW name \in Names, hdr'[name].len = 0 PROVE hdr'[name].size = 0
  BY <1>1 DEF SizeInv, Fills
<1>2. ASSUME NEW name \in Presized \cup Measured \cup Unfilled
      PROVE  name \in Names /\ hdr'[name].len = hdr[name].len /\ hdr'[name].size = hdr[name].size
  BY SizeNames DEF Fills
<1>3. ASSUME stage \in Laid, NEW name \in Names PROVE hdr'[name].size = hdr'[name].len
  BY <1>3 DEF SizeInv, Fills
<1>. QED BY <1>1, <1>2, <1>3 DEF SizeInv

(* updateInitialSectionSizes.                                               *)
LEMMA SizesFromDataFacts ==
  ASSUME HeaderInv, SizeInv, NEW name \in Names
  PROVE  /\ SizesFromData[name].len = hdr[name].len
         /\ SizesFromData[name].size = hdr[name].len
<1>. DEFINE r == hdr[name]
<1>1. r \in Header
  BY DEF HeaderInv
<1>2. SizesFromData[name] = IF name \notin Presized /\ r.len > 0 THEN [r EXCEPT !.size = r.len] ELSE r
  BY DEF SizesFromData
<1>3. r.len = 0 => r.size = 0
  BY DEF SizeInv
<1>4. name \in Presized => r.size = r.len
  BY DEF SizeInv
<1>. HIDE DEF r
<1>5. [r EXCEPT !.size = r.len].len = r.len /\ [r EXCEPT !.size = r.len].size = r.len /\ r.len \in Nat
  BY <1>1 DEF Header
<1>6. SizesFromData[name].len = r.len /\ SizesFromData[name].size = r.len
  BY <1>2, <1>3, <1>4, <1>5
<1>. QED BY <1>6 DEF r

(* What buildDynamicSections allots.                                        *)
LEMMA PreparedSizes ==
  ASSUME TypeInv, SizeInv, PrepareDynamic, dynamicLinkEnabled
  PROVE  SizeInv'
<1>. DEFINE so == IF format = "so" THEN NAME ELSE 0
            got == 24 + NumFunctions * 8
            strlen == 1 + NumDynSymbols * NAME + so
            symlen == 24 * (NumDynSymbols + 1)
            pltlen == 16 + NumFunctions * 16
            dynlen == 16 * DynamicEntryCount
            hashlen == 4 * (2 + NumBuckets + NumDynSymbols + 1)
            h1 == [hdr EXCEPT ![".dynstr"].len = strlen]
            r2 == [len |-> symlen, size |-> hdr[".dynsym"].size, link |-> Index(sections, ".dynstr"), info |-> 1]
            h2 == [h1 EXCEPT ![".dynsym"] = r2]
            h3 == [h2 EXCEPT ![".plt"].len = pltlen]
            h4 == [h3 EXCEPT ![".plt"].size = pltlen]
            r5 == [len |-> got, size |-> got, link |-> Index(sections, ".dynamic"), info |-> hdr[".got.plt"].info]
            h5 == [h4 EXCEPT ![".got.plt"] = r5]
            r6 == [len |-> dynlen, size |-> dynlen, link |-> Index(sections, ".dynstr"),
                   info |-> hdr[".dynamic"].info]
            h6 == [h5 EXCEPT ![".dynamic"] = r6]
            r7 == [len |-> hashlen, size |-> hdr[".hash"].size, link |-> Index(sections, ".dynsym"),
                   info |-> hdr[".hash"].info]
            h7 == [h6 EXCEPT ![".hash"] = r7]
            r1 == [hdr[".dynstr"] EXCEPT !.len = strlen]
            r4 == [[hdr[".plt"] EXCEPT !.len = pltlen] EXCEPT !.size = pltlen]
<1>1. hdr' = h7
  BY Zenon DEF PrepareDynamic
<1>2. NumDynSymbols \in Nat /\ NumFunctions \in Nat /\ NumBuckets \in Nat /\ DynamicEntryCount \in Nat
      /\ DynamicEntryCount > 0
  BY Counts DEF TypeInv, DynamicEntryCount
<1>3. so \in Nat
  BY DEF NAME
<1>. HIDE DEF so
<1>4. strlen > 0 /\ symlen > 0 /\ got > 0 /\ dynlen > 0 /\ hashlen > 0
  BY <1>2, <1>3 DEF NAME
<1>5. pltlen \in Nat /\ strlen \in Nat
  BY <1>2, <1>3 DEF NAME
<1>. HIDE DEF strlen, symlen, got, dynlen, hashlen, pltlen
<1>6. hdr \in [Names -> Header]
  BY DEF TypeInv, HeaderInv
<1>7. hdr' = [name \in Names |->
                CASE name = ".dynstr" -> r1 [] name = ".dynsym" -> r2 [] name = ".plt" -> r4
                  [] name = ".got.plt" -> r5 [] name = ".dynamic" -> r6 [] name = ".hash" -> r7
                  [] OTHER -> hdr[name]]
  <2>1. {".dynstr", ".dynsym", ".plt", ".got.plt", ".dynamic", ".hash"} \subseteq Names
    BY Prefix DEF BaseNames
  <2>. HIDE DEF r2, r5, r6, r7
  <2>. QED BY <1>1, <1>6, <2>1
<1>8. r1.len = strlen /\ r1.size = hdr[".dynstr"].size /\ r4.len = pltlen /\ r4.size = pltlen
  <2>1. hdr[".dynstr"] \in Header /\ hdr[".plt"] \in Header
    BY <1>6, Prefix DEF BaseNames
  <2>. DEFINE a == hdr[".dynstr"]
              b == hdr[".plt"]
  <2>. HIDE DEF a, b
  <2>2. [a EXCEPT !.len = strlen].len = strlen /\ [a EXCEPT !.len = strlen].size = a.size
    BY <2>1 DEF Header, a
  <2>3. [[b EXCEPT !.len = pltlen] EXCEPT !.size = pltlen].len = pltlen
        /\ [[b EXCEPT !.len = pltlen] EXCEPT !.size = pltlen].size = pltlen
    BY <2>1 DEF Header, b
  <2>. QED BY <2>2, <2>3 DEF a, b
<1>9. /\ r2.len = symlen /\ r2.size = hdr[".dynsym"].size /\ r5.len = got /\ r5.size = got
      /\ r6.len = dynlen /\ r6.size = dynlen /\ r7.len = hashlen /\ r7.size = hdr[".hash"].size
  OBVIOUS
<1>. HIDE DEF r1, r2, r4, r5, r6, r7
<1>10. stage = "prepare" /\ stage' = "sizes" /\ stage \in Driving /\ stage' \notin Driving \cup Laid
  BY DEF PrepareDynamic, Pass, Driving, Laid
<1>11. \A name \in Names : hdr[name].size = 0
  BY <1>10 DEF SizeInv
<1>12. ASSUME NEW name \in Names, hdr'[name].len = 0 PROVE hdr'[name].size = 0
  <2>1. CASE name \in {".dynstr", ".dynsym", ".got.plt", ".dynamic", ".hash"}
    BY <1>4, <1>7, <1>8, <1>9, <1>12, <2>1
  <2>2. CASE name = ".plt"
    BY <1>7, <1>8, <1>12, <2>2
  <2>3. CASE name \notin {".dynstr", ".dynsym", ".got.plt", ".dynamic", ".hash", ".plt"}
    BY <1>7, <1>11, <2>3
  <2>. QED BY <2>1, <2>2, <2>3
<1>13. \A name \in Presized : hdr'[name].size = hdr'[name].len
  BY <1>7, <1>8, <1>9, SizeNames DEF Presized
<1>14. \A name \in Unfilled : hdr'[name].len = 0
  BY <1>7, SizeNames DEF Unfilled, SizeInv
<1>15. \A name \in Measured : hdr'[name].len > 0
  BY <1>4, <1>7, <1>8, <1>9, SizeNames DEF Measured
<1>16. DOMAIN rela' = RelaNames
  BY DEF SizeInv, PrepareDynamic
<1>. QED BY <1>10, <1>12, <1>13, <1>14, <1>15, <1>16 DEF SizeInv

LEMMA IndicesFill == ASSUME TypeInv, AssignSymbolIndices PROVE Fills
<1>1. hdr' = hdr \/ hdr' = [hdr EXCEPT ![".symtab"].info = NumLocals]
  BY Zenon DEF AssignSymbolIndices
<1>. DEFINE r == hdr[".symtab"]
            wide == [r EXCEPT !.info = NumLocals]
<1>2. hdr' = hdr \/ hdr' = [hdr EXCEPT ![".symtab"] = wide]
  BY <1>1, Zenon
<1>3. hdr \in [Names -> Header] /\ r \in Header
  BY Prefix DEF TypeInv, HeaderInv, BaseNames
<1>. HIDE DEF r
<1>4. wide.len = r.len /\ wide.size = r.size
  BY <1>3 DEF Header
<1>. HIDE DEF wide
<1>. QED BY <1>2, <1>3, <1>4 DEF Fills, r

LEMMA SymtabFills == ASSUME TypeInv, BuildFinalSymtabData PROVE Fills
<1>. DEFINE names == {SymtabOrder[k].name : k \in DOMAIN SymtabOrder} \ {""}
            m == 1 + NAME * Cardinality(names)
            n == 24 * Len(SymtabOrder)
            a == [[hdr[".strtab"] EXCEPT !.len = m] EXCEPT !.size = m]
            b == [[[hdr[".symtab"] EXCEPT !.len = n] EXCEPT !.size = n] EXCEPT !.info = NumLocals]
            h1 == WithData(hdr, ".strtab", m)
            h2 == WithData(h1, ".symtab", n)
            h3 == [h2 EXCEPT ![".symtab"].info = NumLocals]
<1>1. hdr' = hdr \/ hdr' = h3
  BY Zenon DEF BuildFinalSymtabData
<1>. HIDE DEF m, n
<1>2. hdr \in [Names -> Header] /\ ".strtab" \in Names /\ ".symtab" \in Names
  BY Prefix DEF TypeInv, HeaderInv, BaseNames
<1>3. h1 = [hdr EXCEPT ![".strtab"] = a]
  BY Zenon DEF WithData
<1>. HIDE DEF h1
<1>4. h2 = [h1 EXCEPT ![".symtab"] = [[h1[".symtab"] EXCEPT !.len = n] EXCEPT !.size = n]]
  BY Zenon DEF WithData
<1>. HIDE DEF h2
<1>5. h3 = [h2 EXCEPT ![".symtab"] = [h2[".symtab"] EXCEPT !.info = NumLocals]]
  BY Zenon
<1>. HIDE DEF h3
<1>6. h1[".symtab"] = hdr[".symtab"] /\ DOMAIN h1 = Names
  BY <1>2, <1>3
<1>7. h2[".symtab"] = [[hdr[".symtab"] EXCEPT !.len = n] EXCEPT !.size = n] /\ DOMAIN h2 = Names
  BY <1>2, <1>4, <1>6
<1>8. h3[".symtab"] = b
  BY <1>2, <1>5, <1>7
<1>9. h3[".strtab"] = a
  BY <1>2, <1>3, <1>4, <1>5, <1>6, <1>7
<1>10. \A name \in Names : name \notin {".symtab", ".strtab"} => h3[name] = hdr[name]
  BY <1>2, <1>3, <1>4, <1>5, <1>6, <1>7
<1>11. a.len = m /\ a.size = m /\ b.len = n /\ b.size = n
  <2>. DEFINE r == hdr[".strtab"]
              s == hdr[".symtab"]
  <2>1. r \in Header /\ s \in Header
    BY <1>2
  <2>. HIDE DEF r, s
  <2>2. [[r EXCEPT !.len = m] EXCEPT !.size = m].len = m /\ [[r EXCEPT !.len = m] EXCEPT !.size = m].size = m
    BY <2>1 DEF Header
  <2>3. /\ [[[s EXCEPT !.len = n] EXCEPT !.size = n] EXCEPT !.info = NumLocals].len = n
        /\ [[[s EXCEPT !.len = n] EXCEPT !.size = n] EXCEPT !.info = NumLocals].size = n
    BY <2>1 DEF Header
  <2>. QED BY <2>2, <2>3 DEF r, s
<1>. HIDE DEF a, b
<1>12. ".symtab" \notin Presized \cup Measured \cup Unfilled /\ ".strtab" \notin Presized \cup Measured \cup Unfilled
  BY DEF Presized, Measured, Unfilled
<1>. QED BY <1>1, <1>8, <1>9, <1>10, <1>11, <1>12 DEF Fills

LEMMA RelaFills == ASSUME TypeInv, SizeInv, BuildRelaRelocatable PROVE Fills
<1>. DEFINE n(name) == 24 * Len(RelaEntries(name))
<1>1. \/ hdr' = hdr
      \/ hdr' = [name \in Names |-> IF name \in DOMAIN rela /\ RelaEntries(name) # << >>
                                     THEN [hdr[name] EXCEPT !.len = n(name), !.size = n(name)]
                                     ELSE hdr[name]]
  BY Zenon DEF BuildRelaRelocatable
<1>. HIDE DEF n
<1>2. ASSUME NEW name \in Names
      PROVE  /\ [hdr[name] EXCEPT !.len = n(name), !.size = n(name)].len = n(name)
             /\ [hdr[name] EXCEPT !.len = n(name), !.size = n(name)].size = n(name)
  <2>. DEFINE r == hdr[name]
  <2>1. r \in Header
    BY DEF TypeInv, HeaderInv
  <2>. HIDE DEF r
  <2>2. /\ [r EXCEPT !.len = n(name), !.size = n(name)].len = n(name)
        /\ [r EXCEPT !.len = n(name), !.size = n(name)].size = n(name)
    BY <2>1 DEF Header
  <2>. QED BY <2>2 DEF r
<1>3. \A name \in RelaNames : name \notin Presized \cup Measured \cup Unfilled
  BY DEF RelaNames, Presized, Measured, Unfilled
<1>. QED BY <1>1, <1>2, <1>3 DEF Fills, SizeInv

LEMMA LinkedSizes ==
  ASSUME TypeInv, SetSectionLinks, NEW old \in Names
  PROVE  hdr'[old].len = hdr[old].len /\ hdr'[old].size = hdr[old].size
<1>1. \A name \in Names : hdr'[name] = Linked(name)
  BY DEF SetSectionLinks
<1>2. ASSUME NEW name \in Names
      PROVE  Linked(name).len = hdr[name].len /\ Linked(name).size = hdr[name].size
  <2>. DEFINE h == hdr[name]
              Link(index) == [h EXCEPT !.link = OrOld(index, @)]
  <2>1. h \in Header
    BY DEF TypeInv, HeaderInv
  <2>2. \A other : IndexIfRequired(other) \in Nat
    <3>1. sections \in Seq(Names) /\ requiredSections \in Seq(Names)
      BY DEF TypeInv, SectionInv, FileInv
    <3>. QED BY <3>1, IndexFacts DEF IndexIfRequired, getSectionIndex
  <2>. DEFINE Kept(g) == g.len = h.len /\ g.size = h.size
  <2>. HIDE DEF h
  <2>3. \A index \in Nat : Kept(Link(index))
    BY <2>1 DEF Header, OrOld
  <2>4. \A index, info \in Nat : Kept([Link(index) EXCEPT !.info = OrOld(info, @)])
    BY <2>1 DEF Header, OrOld
  <2>5. \A index \in Nat : Kept([h EXCEPT !.link = index, !.info = 1])
    BY <2>1 DEF Header
  <2>6. Kept(h)
    OBVIOUS
  <2>. HIDE DEF Link, Kept
  <2>7. /\ Kept(Link(IndexIfRequired(".strtab"))) /\ Kept(Link(IndexIfRequired(".dynsym")))
        /\ Kept(Link(IndexIfRequired(".dynstr"))) /\ Kept(Link(IndexIfRequired(".symtab")))
        /\ Kept([h EXCEPT !.link = IndexIfRequired(".dynstr"), !.info = 1])
        /\ Kept([Link(IndexIfRequired(".dynsym")) EXCEPT !.info = OrOld(IndexIfRequired(".got.plt"), @)])
        /\ \A other : Kept([Link(IndexIfRequired(".symtab")) EXCEPT !.info = OrOld(IndexIfRequired(other), @)])
    BY <2>2, <2>3, <2>4, <2>5
  <2>8. Kept(Linked(name))
    BY <2>6, <2>7 DEF Linked, h, Link
  <2>. QED BY <2>8 DEF Kept, h
<1>. QED BY <1>1, <1>2

LEMMA LinksFill == ASSUME TypeInv, SetSectionLinks PROVE Fills
BY LinkedSizes DEF Fills

LEMMA SizeStep == ASSUME TypeInv, SizeInv, Next PROVE SizeInv'
<1>1. CASE Translate
  <2>1. /\ stage \in Driving /\ stage' \in Driving \cup {"aborted"} /\ rela' = rela
    BY <1>1 DEF Translate, Translating, TranslateVariable, TranslateModinfo, SkipFunction, StartFunction,
       TranslateReference, FinishFunction, StartAppend, AppendFunction, FinishAppend, CreateThisModule,
       NoInitFunction, CreateVersions, Driving, tableVars
  <2>2. SizesKept
    BY <1>1, DriverHeaders
  <2>3. \A name \in Names : hdr'[name].size = 0
    BY <2>1, <2>2 DEF SizeInv, SizesKept
  <2>4. \A name \in Presized \cup Unfilled : name \in Names /\ hdr'[name] = hdr[name]
    BY <2>2, SizeNames DEF SizesKept
  <2>5. stage' \notin Prepared /\ stage' \notin Laid
    BY <2>1, SizeNames
  <2>. QED BY <2>1, <2>3, <2>4, <2>5 DEF SizeInv
<1>2. CASE PrepareDynamic /\ dynamicLinkEnabled
  BY <1>2, PreparedSizes
<1>3. CASE (PrepareDynamic /\ ~dynamicLinkEnabled) \/ PrepareRelocatable
  <2>1. /\ hdr' = hdr /\ stage' = "sizes" /\ rela' = rela /\ ~dynamicLinkEnabled'
    <3>1. CASE PrepareRelocatable
      BY <3>1 DEF PrepareRelocatable, Pass, symbolVars, tableVars, TypeInv, SymbolInv
    <3>2. CASE PrepareDynamic /\ ~dynamicLinkEnabled
      BY <3>2 DEF PrepareDynamic, Pass
    <3>. QED BY <1>3, <3>1, <3>2
  <2>2. stage' \notin Driving /\ stage' \notin Laid
    BY <2>1 DEF Driving, Laid
  <2>. QED BY <2>1, <2>2 DEF SizeInv
<1>4. CASE UpdateInitialSectionSizes \/ FinalizeSizes
  <2>1. HeaderInv
    BY DEF TypeInv
  <2>2. \A name \in Names : /\ SizesFromData[name].len = hdr[name].len
                            /\ SizesFromData[name].size = hdr[name].len
    BY <2>1, SizesFromDataFacts
  <2>3. /\ stage \in Prepared /\ stage' \notin Driving /\ dynamicLinkEnabled' = dynamicLinkEnabled /\ rela' = rela
        /\ stage' \in Laid => FinalizeSizes
    BY <1>4 DEF UpdateInitialSectionSizes, FinalizeSizes, Pass, symbolVars, tableVars, Prepared, Collected,
       Driving, Laid
  <2>4. \A name \in Names : /\ hdr'[name].size = hdr'[name].len
                            /\ name # ".shstrtab" => hdr'[name].len = hdr[name].len
    <3>1. CASE UpdateInitialSectionSizes
      BY <2>2, <3>1 DEF UpdateInitialSectionSizes
    <3>2. CASE FinalizeSizes
      <4>. DEFINE n == 1 + NAME * (Len(requiredSections) - 1)
      <4>1. hdr' = WithData(SizesFromData, ".shstrtab", n)
        BY <3>2 DEF FinalizeSizes
      <4>2. SizesFromData \in [Names -> Header] /\ ".shstrtab" \in Names
        BY <2>1, SizesFacts, Prefix DEF BaseNames
      <4>3. n \in Nat
        <5>1. stage \in Collected
          BY <3>2 DEF FinalizeSizes, Pass, Collected
        <5>2. Len(requiredSections) \in Nat /\ Len(requiredSections) > 0
          <6>1. requiredSections \in Seq(Names)
            BY DEF TypeInv, FileInv
          <6>2. PICK k \in DOMAIN requiredSections : requiredSections[k] = ""
            BY <5>1 DEF TypeInv, FileInv, Listed
          <6>3. k \in 1..Len(requiredSections) /\ Len(requiredSections) \in Nat
            BY <6>1
          <6>. QED BY <6>3
        <5>. QED BY <5>2 DEF NAME
      <4>. HIDE DEF n
      <4>. QED BY <2>2, <4>1, <4>2, <4>3, DataChanged
    <3>. QED BY <1>4, <3>1, <3>2
  <2>5. \A name \in Presized \cup Measured \cup Unfilled : name \in Names /\ hdr'[name].len = hdr[name].len
    <3>1. ".shstrtab" \notin Presized \cup Measured \cup Unfilled
      BY DEF Presized, Measured, Unfilled
    <3>. QED BY <2>4, <3>1, SizeNames
  <2>. QED BY <2>3, <2>4, <2>5 DEF SizeInv
<1>5. CASE \/ AssignSymbolIndices \/ BuildFinalSymtabData \/ BuildRelaRelocatable \/ SetSectionLinks
           \/ CollectSections \/ BuildRelaDynamic \/ FinalizeLayout \/ LayoutDone
           \/ PatchSymbolTableAddresses \/ PatchDynSymAddresses \/ PatchDynamicSection
           \/ PatchTextRelocations \/ AssembleFinalElf \/ Finish
  <2>1. Fills
    <3>1. CASE AssignSymbolIndices \/ BuildFinalSymtabData \/ BuildRelaRelocatable \/ SetSectionLinks
      BY <3>1, IndicesFill, SymtabFills, RelaFills, LinksFill
    <3>2. CASE \/ CollectSections \/ BuildRelaDynamic \/ FinalizeLayout \/ LayoutDone
               \/ PatchSymbolTableAddresses \/ PatchDynSymAddresses \/ PatchDynamicSection
               \/ PatchTextRelocations \/ AssembleFinalElf \/ Finish
      <4>1. hdr' = hdr
        BY <3>2 DEF CollectSections, BuildRelaDynamic, FinalizeLayout, LayoutDone,
           PatchSymbolTableAddresses, PatchDynSymAddresses, PatchDynamicSection,
           PatchTextRelocations, AssembleFinalElf, Finish, sectionVars, linkVars
      <4>. QED BY <4>1 DEF Fills
    <3>. QED BY <1>5, <3>1, <3>2
  <2>2. stage \in Prepared /\ stage' \notin Driving /\ (stage' \in Laid => stage \in Laid)
    BY <1>5 DEF AssignSymbolIndices, BuildFinalSymtabData, BuildRelaRelocatable, SetSectionLinks,
       CollectSections, BuildRelaDynamic, FinalizeLayout, LayoutDone, PatchSymbolTableAddresses,
       PatchDynSymAddresses, PatchDynamicSection, PatchTextRelocations, AssembleFinalElf, Finish, linkVars,
       Pass, Prepared, Collected, Laid, Driving
  <2>3. dynamicLinkEnabled' = dynamicLinkEnabled
    BY <1>5, CompileSymbols DEF Compile
  <2>4. DOMAIN rela' = DOMAIN rela
    BY <1>5 DEF AssignSymbolIndices, BuildFinalSymtabData, BuildRelaRelocatable, SetSectionLinks,
       CollectSections, BuildRelaDynamic, FinalizeLayout, LayoutDone, PatchSymbolTableAddresses,
       PatchDynSymAddresses, PatchDynamicSection, PatchTextRelocations, AssembleFinalElf, Finish, linkVars,
       tableVars
  <2>5. stage \notin Driving
    BY <2>2, SizeNames
  <2>. QED BY <2>1, <2>2, <2>3, <2>4, <2>5, SizesFilled
<1>. QED BY <1>1, <1>2, <1>3, <1>4, <1>5 DEF Next, Compile

-----------------------------------------------------------------------------
(* The file that is laid out.  Until the sizes are final the layout has not *)
(* begun; then it works on what the sections were at that time, and nothing *)
(* it was told of them changes behind its back.                             *)
Described ==
  \A k \in DOMAIN table :
    /\ table[k].name = requiredSections[k]
    /\ table[k].alloc <=> requiredSections[k] \notin NotLoaded
    /\ table[k].write <=> requiredSections[k] \in Writable
    /\ table[k].size = hdr[requiredSections[k]].size
LaidOut == {"laidout", "write", "done"}
LayInv ==
  /\ stage \notin Laid \cup {"aborted"} =>
       phase = "start" /\ table = << >> /\ phdrs = << >> /\ placed = {}
  /\ stage \in Laid => File!LayoutInv /\ Described
  /\ stage \in Laid \ {"layout"} => phase \in LaidOut
  /\ stage \in Laid /\ phase \in LaidOut /\ format # "ko" => File!Alloc \subseteq placed
  /\ stage \in Laid /\ format = "ko" => \A k \in DOMAIN sh_addr : sh_addr[k] = 0

LEMMA LayInit == Init => LayInv
<1>. SUFFICES ASSUME Init PROVE LayInv
  OBVIOUS
<1>1. phase = "start" /\ table = << >> /\ phdrs = << >> /\ placed = {}
  BY DEF Init, Layout!Idle
<1>2. stage \notin Laid
  BY DEF Init, Laid
<1>. QED BY <1>1, <1>2 DEF LayInv

(* The layout begins.                                                       *)
LEMMA LayBegins ==
  ASSUME TypeInv, SizeInv, LayInv, FinalizeSizes
  PROVE  LayInv'
<1>1. /\ stage = "sizes2" /\ stage' = "layout" /\ requiredSections' = requiredSections
      /\ sh_addr' = [k \in DOMAIN requiredSections |-> 0]
      /\ sh_offset' = [k \in DOMAIN requiredSections |-> 0]
      /\ at' = [k \in DOMAIN requiredSections |-> 0]
      /\ format' = format /\ phase' = phase /\ placed' = placed /\ phdrs' = phdrs
  BY DEF FinalizeSizes, Pass
<1>2. phase' = "start" /\ phdrs' = << >> /\ placed' = {}
  BY <1>1 DEF LayInv, Laid
<1>3. FileInv'
  BY TableType
<1>4. File!TypeOK'
  BY <1>3 DEF FileInv
<1>5. table' = [k \in DOMAIN requiredSections |->
         [name |-> requiredSections[k], alloc |-> requiredSections[k] \notin NotLoaded,
          write |-> requiredSections[k] \in Writable, nobits |-> requiredSections[k] = ".bss",
          align |-> AlignOf(requiredSections[k]), size |-> hdr'[requiredSections[k]].size]]
  BY DEF FinalizeSizes
<1>6. Described'
  BY <1>1, <1>5 DEF Described
<1>7. \A i \in DOMAIN table' : sh_offset'[i] = 0 /\ at'[i] = 0
  BY <1>1, <1>5
<1>8. File!Laid' = {}
  BY <1>2 DEF File!Laid
<1>9. File!LayoutInv'
  BY <1>2, <1>4, <1>7, <1>8
     DEF File!LayoutInv, File!PhaseInv, File!CursorInv, File!PlacedInv, File!HeadersInv, File!WriteInv,
         File!DisjointInFile, File!LoadedWhereMapped, File!FileMatchesHeaders, File!Sections
<1>10. phase' \notin LaidOut /\ (\A k \in DOMAIN sh_addr' : sh_addr'[k] = 0)
  BY <1>1, <1>2 DEF LaidOut
<1>. QED BY <1>1, <1>6, <1>9, <1>10 DEF LayInv, Laid

(* A step of the layout or of the writing.                                  *)
LEMMA LayMoves ==
  ASSUME TypeInv, LayInv, stage \in Laid, stage' = stage, hdr' = hdr, requiredSections' = requiredSections,
         Layout!LayoutStep \/ Layout!AssemblyStep, Layout!LayoutStep => stage = "layout"
  PROVE  LayInv'
<1>1. File!Next /\ table' = table /\ format' = format
  BY FileStep, SameLayoutStep, SameAssemblyStep DEF File!Next
<1>2. File!LayoutInv /\ Described
  BY DEF LayInv
<1>3. File!LayoutInv'
  BY <1>1, <1>2, File!LayoutStepInv
<1>4. Described'
  BY <1>1, <1>2 DEF Described
<1>5. File!Alloc' = File!Alloc
  BY <1>1, File!Frame
<1>6. stage # "layout" => phase' \in LaidOut
  <2>. SUFFICES ASSUME stage # "layout" PROVE phase' \in LaidOut
    OBVIOUS
  <2>1. File!AssemblyStep
    BY SameAssemblyStep
  <2>2. phase \in LaidOut
    BY DEF LayInv
  <2>. QED BY <2>1, <2>2 DEF File!AssemblyStep, File!StartAssembly, File!FinishAssembly, File!WriteSection, LaidOut
<1>7. phase' \in LaidOut /\ format # "ko" => File!Alloc' \subseteq placed'
  <2>. SUFFICES ASSUME phase' \in LaidOut, format # "ko" PROVE File!Alloc \subseteq placed'
    BY <1>5
  <2>1. CASE phase \in LaidOut
    <3>1. placed' = placed
      BY <1>1, <2>1 DEF File!Next, File!LayoutStep, File!AssemblyStep, File!StartDynamic, File!StartRw,
         File!GenerateProgramHeaders, File!StartRelocatable, File!FinishLayout, File!PlaceRx, File!PlaceRw,
         File!PlaceNonAlloc, File!PlaceRelocatable, File!StartAssembly, File!FinishAssembly,
         File!WriteSection, LaidOut
    <3>. QED BY <2>1, <3>1 DEF LayInv
  <2>2. CASE phase \notin LaidOut
    <3>1. File!FinishLayout
      BY <1>1, <2>2 DEF File!Next, File!LayoutStep, File!AssemblyStep, File!StartDynamic, File!StartRw,
         File!GenerateProgramHeaders, File!StartRelocatable, File!PlaceRx, File!PlaceRw, File!PlaceAlloc,
         File!PlaceNonAlloc, File!PlaceRelocatable, File!StartAssembly, File!FinishAssembly,
         File!WriteSection, LaidOut
    <3>2. File!PhaseInv
      BY <1>2 DEF File!LayoutInv
    <3>. QED BY <3>1, <3>2 DEF File!FinishLayout, File!PhaseInv
  <2>. QED BY <2>1, <2>2
<1>8. format = "ko" => \A k \in DOMAIN sh_addr' : sh_addr'[k] = 0
  <2>. SUFFICES ASSUME format = "ko" PROVE \A k \in DOMAIN sh_addr' : sh_addr'[k] = 0
    OBVIOUS
  <2>1. \A k \in DOMAIN sh_addr : sh_addr[k] = 0
    BY DEF LayInv
  <2>2. File!PhaseInv
    BY <1>2 DEF File!LayoutInv
  <2>3. sh_addr' = sh_addr
    BY <1>1, <2>2 DEF File!Next, File!LayoutStep, File!AssemblyStep, File!StartDynamic, File!StartRw,
       File!GenerateProgramHeaders, File!StartRelocatable, File!FinishLayout, File!PlaceRx, File!PlaceRw,
       File!PlaceNonAlloc, File!PlaceRelocatable, File!StartAssembly, File!FinishAssembly,
       File!WriteSection, File!PhaseInv
  <2>. QED BY <2>1, <2>3
<1>. QED BY <1>1, <1>3, <1>4, <1>6, <1>7, <1>8 DEF LayInv

LEMMA LayStep == ASSUME TypeInv, SizeInv, LayInv, Next PROVE LayInv'
<1>1. CASE FinalizeSizes
  BY <1>1, LayBegins
<1>2. CASE FinalizeLayout \/ AssembleFinalElf
  <2>1. /\ stage \in Laid /\ stage' = stage /\ hdr' = hdr /\ requiredSections' = requiredSections
        /\ Layout!LayoutStep \/ Layout!AssemblyStep
    BY <1>2 DEF FinalizeLayout, AssembleFinalElf, linkVars, sectionVars, Laid
  <2>2. Layout!LayoutStep => stage = "layout"
    <3>1. ASSUME AssembleFinalElf, Layout!LayoutStep PROVE FALSE
      <4>1. phase \in LaidOut
        BY <3>1 DEF AssembleFinalElf, LayInv, Laid
      <4>2. File!LayoutStep
        BY <3>1, SameLayoutStep
      <4>. QED BY <4>1, <4>2 DEF LaidOut, File!LayoutStep, File!StartDynamic, File!StartRw,
         File!GenerateProgramHeaders, File!StartRelocatable, File!FinishLayout, File!PlaceRx, File!PlaceRw,
         File!PlaceNonAlloc, File!PlaceRelocatable
    <3>. QED BY <1>2, <3>1 DEF FinalizeLayout
  <2>. QED BY <2>1, <2>2, LayMoves
<1>3. CASE /\ UNCHANGED fileVars /\ stage \in Laid /\ requiredSections' = requiredSections
           /\ \A name \in Names : hdr'[name].size = hdr[name].size
           /\ stage' \in (Laid \ {"layout"}) \cup {"aborted"}
           /\ stage = "layout" => phase \in LaidOut
  <2>1. File!LayoutInv /\ Described /\ UNCHANGED File!layoutVars
    BY <1>3 DEF LayInv, fileVars, File!layoutVars
  <2>2. File!LayoutInv'
    BY <2>1, File!LayoutStutter
  <2>3. table' = table /\ format' = format /\ phase' = phase /\ placed' = placed /\ sh_addr' = sh_addr
        /\ phdrs' = phdrs
    BY <1>3 DEF fileVars
  <2>4. Described'
    <3>1. DOMAIN table = DOMAIN requiredSections /\ requiredSections \in Seq(Names)
      BY <1>3 DEF TypeInv, FileInv
    <3>2. \A k \in DOMAIN table : requiredSections[k] \in Names
      BY <3>1
    <3>. QED BY <1>3, <2>1, <2>3, <3>2 DEF Described
  <2>5. File!Alloc' = File!Alloc
    BY <2>1, File!Frame DEF File!Next
  <2>6. phase \in LaidOut
    BY <1>3 DEF LayInv
  <2>7. "aborted" \notin Laid
    BY SizeNames
  <2>. QED BY <1>3, <2>2, <2>3, <2>4, <2>5, <2>6, <2>7 DEF LayInv
<1>4. CASE UNCHANGED fileVars /\ stage \notin Laid \cup {"aborted"} /\ stage' \notin Laid
  BY <1>4 DEF LayInv, fileVars
<1>5. ASSUME LayoutDone \/ SetSectionLinks \/ PatchSymbolTableAddresses \/ PatchDynSymAddresses
             \/ PatchDynamicSection \/ PatchTextRelocations \/ Finish
      PROVE  /\ UNCHANGED fileVars /\ stage \in Laid /\ requiredSections' = requiredSections
             /\ \A name \in Names : hdr'[name].size = hdr[name].size
             /\ stage' \in (Laid \ {"layout"}) \cup {"aborted"}
             /\ stage = "layout" => phase \in LaidOut
  <2>1. CASE SetSectionLinks
    <3>1. \A name \in Names : hdr'[name].size = hdr[name].size
      BY <2>1, LinkedSizes
    <3>. QED BY <2>1, <3>1 DEF SetSectionLinks, Pass, Laid
  <2>2. CASE LayoutDone \/ PatchSymbolTableAddresses \/ PatchDynSymAddresses
             \/ PatchDynamicSection \/ PatchTextRelocations \/ Finish
    BY <2>2 DEF LayoutDone, PatchSymbolTableAddresses, PatchDynSymAddresses, PatchDynamicSection,
       PatchTextRelocations, Finish, Pass, Laid, LaidOut, sectionVars
  <2>. QED BY <1>5, <2>1, <2>2
<1>6. ASSUME \/ PrepareDynamic \/ PrepareRelocatable \/ UpdateInitialSectionSizes \/ CollectSections
             \/ AssignSymbolIndices \/ BuildFinalSymtabData \/ BuildRelaDynamic \/ BuildRelaRelocatable
      PROVE  UNCHANGED fileVars /\ stage \notin Laid \cup {"aborted"} /\ stage' \notin Laid
  BY <1>6 DEF PrepareDynamic, PrepareRelocatable, UpdateInitialSectionSizes, CollectSections,
     AssignSymbolIndices, BuildFinalSymtabData, BuildRelaDynamic, BuildRelaRelocatable, Pass, Laid
<1>7. ASSUME Translate
      PROVE  UNCHANGED fileVars /\ stage \notin Laid \cup {"aborted"} /\ stage' \notin Laid
  BY <1>7 DEF Translate, Translating, TranslateVariable, TranslateModinfo, SkipFunction, StartFunction,
     TranslateReference, FinishFunction, StartAppend, AppendFunction, FinishAppend, CreateThisModule,
     NoInitFunction, CreateVersions, Laid
<1>. QED BY <1>1, <1>2, <1>3, <1>4, <1>5, <1>6, <1>7 DEF Next, Compile

-----------------------------------------------------------------------------
(* The null section is the first one, in the raw list and in the final one. *)
(* So every other section has an index greater than 0, which is how         *)
(* setSectionLinks tells a section that is there from one that is not.      *)
NullSection == ""
FirstInv ==
  /\ 1 \in DOMAIN sections /\ sections[1] = NullSection
  /\ stage \in Collected => 1 \in DOMAIN requiredSections /\ requiredSections[1] = NullSection

LEMMA OnlyFirst ==
  ASSUME NEW V, NEW list \in Seq(V), NEW set, 1 \in DOMAIN list, list[1] \in set
  PROVE  1 \in DOMAIN Only(list, set) /\ Only(list, set)[1] = list[1]
<1>. DEFINE kept == Only(list, set)
<1>1. kept \in Seq(V)
  BY OnlyPlaces
<1>2. PICK p : Places(kept, list, Len(list), set, p)
  BY OnlyPlaces
<1>. HIDE DEF kept
<1>3. 1 \in 1..Len(list)
  OBVIOUS
<1>4. PICK i \in DOMAIN kept : p[i] = 1
  BY <1>2, <1>3 DEF Places
<1>5. DOMAIN kept = 1..Len(kept) /\ Len(kept) \in Nat
  BY <1>1
<1>6. i = 1
  <2>1. CASE i > 1
    <3>1. 1 \in DOMAIN kept /\ 1 < i
      BY <1>5, <2>1
    <3>2. p[1] < p[i] /\ p[1] \in 1..Len(list) /\ Len(list) \in Nat
      BY <1>2, <3>1 DEF Places
    <3>. QED BY <1>4, <3>2
  <2>. QED BY <1>5, <2>1
<1>. QED BY <1>2, <1>4, <1>6 DEF Places, kept

LEMMA FirstInit == Init => FirstInv
<1>1. 1 \in DOMAIN BaseSections /\ BaseSections[1] = NullSection
  <2>1. BaseSections[1] = NullSection
    BY DEF BaseSections, NullSection
  <2>2. DOMAIN BaseSections = 1..16
    BY DEF BaseSections
  <2>. QED BY <2>1, <2>2
<1>2. "translate" \notin Collected
  BY DEF Collected, Laid
<1>. QED BY <1>1, <1>2 DEF Init, FirstInv

LEMMA RequiredFirst ==
  ASSUME SectionInv, FirstInv, NullSection \in required
  PROVE  1 \in DOMAIN RequiredSections /\ RequiredSections[1] = NullSection
<1>. DEFINE all == Only(sections, required)
            OfRank(r) == Only(all, {name \in required : TypeRank(name) = r})
<1>1. all \in Seq(Names) /\ 1 \in DOMAIN all /\ all[1] = NullSection
  <2>1. sections \in Seq(Names) /\ 1 \in DOMAIN sections /\ sections[1] = NullSection
    BY DEF SectionInv, FirstInv
  <2>. QED BY <2>1, OnlyFirst, OnlyPlaces
<1>2. RequiredSections = IF format = "ko"
        THEN OfRank(0) \o OfRank(1) \o OfRank(2) \o OfRank(3) \o OfRank(4) \o OfRank(8) ELSE all
  BY DEF RequiredSections
<1>. HIDE DEF all
<1>3. \A r : OfRank(r) \in Seq(Names)
  BY <1>1, OnlyPlaces
<1>4. 1 \in DOMAIN OfRank(0) /\ OfRank(0)[1] = NullSection
  <2>1. TypeRank(NullSection) = 0
    <3>1. TypeRank("") = 0
      <4>1. "" \notin {RelaOf(other) : other \in Relocated}
        <5>1. "" \in BaseNames
          BY Zenon DEF BaseNames
        <5>. QED BY <5>1, Prefix, RelaFacts, Zenon
      <4>. QED BY <4>1, Zenon DEF TypeRank
    <3>. QED BY <3>1, Zenon DEF NullSection
  <2>. DEFINE R == {name \in required : TypeRank(name) = 0}
  <2>2. all[1] \in R
    BY <1>1, <2>1
  <2>3. OfRank(0) = Only(all, R)
    OBVIOUS
  <2>. HIDE DEF R, OfRank
  <2>4. 1 \in DOMAIN Only(all, R) /\ Only(all, R)[1] = all[1]
    BY <1>1, <2>2, OnlyFirst
  <2>. QED BY <1>1, <2>3, <2>4
<1>r. /\ OfRank(0) \in Seq(Names) /\ OfRank(1) \in Seq(Names) /\ OfRank(2) \in Seq(Names)
      /\ OfRank(3) \in Seq(Names) /\ OfRank(4) \in Seq(Names) /\ OfRank(8) \in Seq(Names)
  BY <1>3
<1>. HIDE DEF OfRank
<1>. DEFINE a == OfRank(0) \o OfRank(1)
            b == a \o OfRank(2)
            c == b \o OfRank(3)
            d == c \o OfRank(4)
            e == d \o OfRank(8)
<1>j. ASSUME NEW s \in Seq(Names), NEW t \in Seq(Names), 1 \in DOMAIN s, s[1] = NullSection
      PROVE  s \o t \in Seq(Names) /\ 1 \in DOMAIN (s \o t) /\ (s \o t)[1] = NullSection
  BY <1>j, Joined
<1>5. a \in Seq(Names) /\ 1 \in DOMAIN a /\ a[1] = NullSection
  BY <1>r, <1>4, <1>j, Zenon
<1>6. RequiredSections = IF format = "ko" THEN e ELSE all
  BY <1>2
<1>. HIDE DEF a
<1>7. b \in Seq(Names) /\ 1 \in DOMAIN b /\ b[1] = NullSection
  BY <1>r, <1>5, <1>j, Zenon
<1>. HIDE DEF b
<1>8. c \in Seq(Names) /\ 1 \in DOMAIN c /\ c[1] = NullSection
  BY <1>r, <1>7, <1>j, Zenon
<1>. HIDE DEF c
<1>9. d \in Seq(Names) /\ 1 \in DOMAIN d /\ d[1] = NullSection
  BY <1>r, <1>8, <1>j, Zenon
<1>. HIDE DEF d
<1>10. e \in Seq(Names) /\ 1 \in DOMAIN e /\ e[1] = NullSection
  BY <1>r, <1>9, <1>j, Zenon
<1>. QED BY <1>1, <1>6, <1>10

LEMMA FirstStep == ASSUME TypeInv, FirstInv, Next PROVE FirstInv'
<1>0. sections \in Seq(Names) /\ RelocationInv /\ SectionInv /\ NullSection \in required
  BY DEF TypeInv, SectionInv, FileInv, NullSection
<1>1. 1 \in DOMAIN sections' /\ sections'[1] = NullSection
  <2>1. ASSUME NEW name, sections' = Ensure(name) PROVE 1 \in DOMAIN sections' /\ sections'[1] = NullSection
    <3>1. 1 \in DOMAIN sections /\ sections[1] = NullSection /\ Len(sections) \in Nat
          /\ DOMAIN sections = 1..Len(sections)
      BY <1>0 DEF FirstInv
    <3>2. CASE sections' = sections
      BY <3>1, <3>2
    <3>3. CASE sections' = Append(sections, name)
      <4>1. Append(sections, name) = sections \o <<name>>
        BY <1>0
      <4>2. sections \in Seq(Names \cup {name}) /\ <<name>> \in Seq(Names \cup {name})
        <5>1. Len(sections) \in Nat /\ sections \in [1..Len(sections) -> Names \cup {name}]
          BY <1>0
        <5>. QED BY <5>1
      <4>. QED BY <3>1, <3>3, <4>1, <4>2, Joined
    <3>. QED BY <2>1, <3>2, <3>3 DEF Ensure
  <2>2. ASSUME NEW S, NEW t \in Seq(S), sections' = sections \o t
        PROVE  1 \in DOMAIN sections' /\ sections'[1] = NullSection
    <3>1. 1 \in DOMAIN sections /\ sections[1] = NullSection
      BY DEF FirstInv
    <3>2. sections \in Seq(Names \cup S) /\ t \in Seq(Names \cup S)
      <4>1. Len(sections) \in Nat /\ sections \in [1..Len(sections) -> Names \cup S]
        BY <1>0
      <4>2. Len(t) \in Nat /\ t \in [1..Len(t) -> Names \cup S]
        OBVIOUS
      <4>. QED BY <4>1, <4>2
    <3>. QED BY <2>2, <3>1, <3>2, Joined
  <2>3. CASE sections' = sections
    BY <2>3 DEF FirstInv
  <2>4. CASE TranslateVariable \/ TranslateModinfo \/ CreateThisModule \/ CreateVersions
    <3>1. sections' = sections \/ \E name : sections' = Ensure(name)
      BY <2>4 DEF TranslateVariable, TranslateModinfo, CreateThisModule, CreateVersions, sectionVars
    <3>. QED BY <2>1, <2>3, <3>1
  <2>5. CASE StartAppend
    <3>1. sections' = sections \/ sections' = sections \o <<".init.text", ".exit.text">>
      BY <2>5 DEF StartAppend
    <3>2. <<".init.text", ".exit.text">> \in Seq({".init.text", ".exit.text"})
      OBVIOUS
    <3>. QED BY <2>2, <2>3, <3>1, <3>2
  <2>6. CASE PrepareRelocatable
    <3>1. sections' = sections \o RelaSections
      BY <2>6 DEF PrepareRelocatable
    <3>2. RelaSections \in Seq(RelaNames)
      BY <1>0, RelaSectionsFacts
    <3>. QED BY <2>2, <3>1, <3>2
  <2>7. CASE StartFunction \/ TranslateReference
    <3>1. sections' = sections
      BY <2>7 DEF StartFunction, TranslateReference, requireSymbol, sectionVars
    <3>. QED BY <2>3, <3>1
  <2>8. CASE \/ SkipFunction \/ FinishFunction \/ AppendFunction \/ FinishAppend \/ NoInitFunction
             \/ Compile /\ ~PrepareRelocatable
    <3>1. sections' = sections
      <4>1. CASE SkipFunction \/ FinishFunction \/ AppendFunction \/ FinishAppend \/ NoInitFunction
        BY <4>1 DEF SkipFunction, FinishFunction, AppendFunction, FinishAppend, NoInitFunction, sectionVars
      <4>2. CASE Compile /\ ~PrepareRelocatable
        BY <4>2 DEF Compile, PrepareDynamic, UpdateInitialSectionSizes, CollectSections,
           AssignSymbolIndices, BuildFinalSymtabData, BuildRelaDynamic, BuildRelaRelocatable, FinalizeSizes,
           FinalizeLayout, LayoutDone, SetSectionLinks, PatchSymbolTableAddresses, PatchDynSymAddresses,
           PatchDynamicSection, PatchTextRelocations, AssembleFinalElf, Finish, sectionVars, linkVars
      <4>. QED BY <2>8, <4>1, <4>2
    <3>. QED BY <2>3, <3>1
  <2>. QED BY <2>4, <2>5, <2>6, <2>7, <2>8 DEF Next, Translate
<1>2. CASE stage \in Collected
  <2>1. requiredSections' = requiredSections
    BY <1>2, RequiredKept
  <2>. QED BY <1>1, <1>2, <2>1 DEF FirstInv
<1>3. CASE CollectSections
  <2>1. requiredSections' = RequiredSections
    BY <1>3 DEF CollectSections
  <2>. QED BY <1>0, <1>1, <2>1, RequiredFirst DEF FirstInv
<1>4. CASE stage \notin Collected /\ ~CollectSections
  <2>1. stage' \notin Collected
    <3>1. CASE Translate
      BY <3>1 DEF Translate, Translating, TranslateVariable, TranslateModinfo, SkipFunction, StartFunction,
         TranslateReference, FinishFunction, StartAppend, AppendFunction, FinishAppend, CreateThisModule,
         NoInitFunction, CreateVersions, Collected, Laid
    <3>2. CASE PrepareDynamic \/ PrepareRelocatable \/ UpdateInitialSectionSizes
      BY <3>2 DEF PrepareDynamic, PrepareRelocatable, UpdateInitialSectionSizes, Pass, Collected, Laid
    <3>3. ASSUME \/ AssignSymbolIndices \/ BuildFinalSymtabData \/ BuildRelaDynamic \/ BuildRelaRelocatable
                 \/ FinalizeSizes \/ FinalizeLayout \/ LayoutDone \/ SetSectionLinks
                 \/ PatchSymbolTableAddresses \/ PatchDynSymAddresses \/ PatchDynamicSection
                 \/ PatchTextRelocations \/ AssembleFinalElf \/ Finish
          PROVE  FALSE
      BY <1>4, <3>3 DEF Collected, Laid, AssignSymbolIndices, BuildFinalSymtabData, BuildRelaDynamic,
         BuildRelaRelocatable, FinalizeSizes, FinalizeLayout, LayoutDone, SetSectionLinks,
         PatchSymbolTableAddresses, PatchDynSymAddresses, PatchDynamicSection,
         PatchTextRelocations, AssembleFinalElf, Finish, Pass
    <3>. QED BY <1>4, <3>1, <3>2, <3>3 DEF Next, Compile
  <2>. QED BY <1>1, <2>1 DEF FirstInv
<1>. QED BY <1>2, <1>3, <1>4

(* The index a pass after collectAndFinalizeSections finds for a section.   *)
LEMMA IndexLeads ==
  ASSUME TypeInv, FirstInv, stage \in Collected, NEW name \in required, name # NullSection
  PROVE  /\ getSectionIndex(name) = Index(requiredSections, name)
         /\ getSectionIndex(name) \in Nat /\ getSectionIndex(name) > 0
         /\ InSection(getSectionIndex(name), name)
         /\ IndexIfRequired(name) = getSectionIndex(name)
<1>1. /\ requiredSections \in Seq(Names) /\ Listed(requiredSections) = required
      /\ 1 \in DOMAIN requiredSections /\ requiredSections[1] = NullSection
  BY DEF TypeInv, FileInv, FirstInv
<1>. DEFINE i == Index(requiredSections, name)
<1>2. i \in Nat /\ i + 1 \in DOMAIN requiredSections /\ requiredSections[i + 1] = name
  BY <1>1, IndexFacts
<1>3. getSectionIndex(name) = i
  <2>1. requiredSections # << >>
    BY <1>1
  <2>. QED BY <2>1 DEF getSectionIndex
<1>. HIDE DEF i
<1>4. i # 0
  <2>1. CASE i = 0
    <3>1. i + 1 = 1
      BY <2>1
    <3>. QED BY <1>1, <1>2, <3>1
  <2>. QED BY <2>1
<1>5. i > 0
  <2>1. \A n \in Nat : n # 0 => n > 0
    OBVIOUS
  <2>. QED BY <1>2, <1>4, <2>1
<1>6. getSectionIndex(name) = Index(requiredSections, name)
  BY <1>3 DEF i
<1>7. InSection(i, name)
  BY <1>2 DEF InSection
<1>8. IndexIfRequired(name) = getSectionIndex(name)
  BY DEF IndexIfRequired
<1>. QED BY <1>2, <1>3, <1>5, <1>6, <1>7, <1>8

(* Every link leads to its section.                                         *)
LinksLead ==
  /\ \A pair \in Links : pair[1] \in required => InSection(hdr[pair[1]].link, pair[2])
  /\ \A pair \in Infos : pair[1] \in required => InSection(hdr[pair[1]].info, pair[2])
LinksInv == stage \in Laid \ {"layout", "links"} => LinksLead

(* What setSectionLinks makes of one header.                                *)
LinkTo(h, index) == [h EXCEPT !.link = OrOld(index, @)]
Of(name) == {other \in Relocated : RelaOf(other) = name}

LEMMA LinkToFacts ==
  ASSUME NEW h \in Header, NEW index \in Nat, index > 0
  PROVE  LinkTo(h, index).link = index /\ LinkTo(h, index).info = h.info /\ LinkTo(h, index) \in Header
BY DEF LinkTo, OrOld, Header

LEMMA InfoToFacts ==
  ASSUME NEW h \in Header, NEW index \in Nat, index > 0
  PROVE  /\ [h EXCEPT !.info = OrOld(index, @)].info = index
         /\ [h EXCEPT !.info = OrOld(index, @)].link = h.link
BY DEF OrOld, Header

LEMMA OfFacts ==
  /\ \A name \in BaseNames : Of(name) = {}
  /\ \A name \in Relocated : Of(RelaOf(name)) = {name} /\ RelaOf(name) \notin BaseNames
<1>1. \A name \in BaseNames : Of(name) = {}
  BY Prefix, RelaFacts DEF Of
<1>2. \A name \in Relocated : Of(RelaOf(name)) = {name} /\ RelaOf(name) \notin BaseNames
  BY Prefix, RelaFacts DEF Of
<1>. QED BY <1>1, <1>2

LEMMA LinkedBase ==
  /\ Linked(".symtab") = LinkTo(hdr[".symtab"], IndexIfRequired(".strtab"))
  /\ ".dynsym" \in required /\ IndexIfRequired(".dynstr") > 0 =>
       Linked(".dynsym") = [hdr[".dynsym"] EXCEPT !.link = IndexIfRequired(".dynstr"), !.info = 1]
  /\ ".hash" \in required => Linked(".hash") = LinkTo(hdr[".hash"], IndexIfRequired(".dynsym"))
  /\ ".dynamic" \in required => Linked(".dynamic") = LinkTo(hdr[".dynamic"], IndexIfRequired(".dynstr"))
  /\ ".rela.dyn" \in required => Linked(".rela.dyn") = LinkTo(hdr[".rela.dyn"], IndexIfRequired(".dynsym"))
  /\ ".rela.plt" \in required =>
       Linked(".rela.plt") = [LinkTo(hdr[".rela.plt"], IndexIfRequired(".dynsym"))
                                EXCEPT !.info = OrOld(IndexIfRequired(".got.plt"), @)]
<1>1. /\ Of(".symtab") = {} /\ Of(".dynsym") = {} /\ Of(".hash") = {} /\ Of(".dynamic") = {}
      /\ Of(".rela.dyn") = {} /\ Of(".rela.plt") = {}
  BY OfFacts DEF BaseNames
<1>. QED BY <1>1 DEF Linked, LinkTo, Of

LEMMA LinkedRela ==
  ASSUME NEW name \in Relocated, RelaOf(name) \in required
  PROVE  Linked(RelaOf(name)) = [LinkTo(hdr[RelaOf(name)], IndexIfRequired(".symtab"))
                                   EXCEPT !.info = OrOld(IndexIfRequired(name), @)]
<1>. DEFINE section == RelaOf(name)
<1>1. Of(section) = {name} /\ section \notin BaseNames
  BY OfFacts
<1>2. /\ section # ".symtab" /\ section # ".dynsym" /\ section # ".hash" /\ section # ".dynamic"
      /\ section # ".rela.dyn" /\ section # ".rela.plt"
  BY <1>1 DEF BaseNames
<1>3. (CHOOSE other \in Of(section) : TRUE) = name
  BY <1>1
<1>4. Of(section) # {}
  BY <1>1
<1>. HIDE DEF section
<1>5. section \in required
  BY DEF section
<1>6. Linked(section) = [LinkTo(hdr[section], IndexIfRequired(".symtab"))
                           EXCEPT !.info = OrOld(IndexIfRequired(CHOOSE other \in Of(section) : TRUE), @)]
  BY <1>2, <1>4, <1>5, Zenon DEF Linked, LinkTo, Of
<1>. QED BY <1>3, <1>6 DEF section

LEMMA OnlyRequired == ASSUME TypeInv PROVE required \subseteq Names
<1>1. sections \in Seq(Names) /\ required \subseteq Listed(sections)
  BY DEF TypeInv, SectionInv
<1>2. Listed(sections) \subseteq Names
  BY <1>1 DEF Listed
<1>. QED BY <1>1, <1>2

(* Whichever section has a link, the one it is to lead to is required too.  *)
LEMMA LinksMeant ==
  ASSUME TypeInv, RequiredInv, FirstInv, stage \in Collected
  PROVE  /\ \A pair \in Links : pair[1] \in required => InSection(Linked(pair[1]).link, pair[2])
         /\ \A pair \in Infos : pair[1] \in required => InSection(Linked(pair[1]).info, pair[2])
<1>0. hdr \in [Names -> Header] /\ required \subseteq Names
  BY OnlyRequired DEF TypeInv, HeaderInv
<1>h. \A name \in required : hdr[name] \in Header
  BY <1>0
<1>. DEFINE index(name) == IndexIfRequired(name)
            Reached2(name) == index(name) \in Nat /\ index(name) > 0 /\ InSection(index(name), name)
<1>1. \A name \in required \ {NullSection} : Reached2(name)
  BY IndexLeads DEF IndexIfRequired
<1>2. /\ ".symtab" \in required => Reached2(".strtab")
      /\ DynamicSections \cap required # {} =>
           Reached2(".dynsym") /\ Reached2(".dynstr") /\ Reached2(".got.plt")
      /\ \A name \in Relocated : RelaOf(name) \in required => Reached2(name) /\ Reached2(".symtab")
  <2>1. \A name \in SymtabSections \cup DynamicSections \cup Relocated : name # NullSection
    BY Zenon DEF SymtabSections, DynamicSections, Relocated, NullSection
  <2>2. ASSUME ".symtab" \in required PROVE Reached2(".strtab")
    <3>1. ".strtab" \in required /\ ".strtab" \in SymtabSections
      BY <2>2 DEF RequiredInv, SymtabSections
    <3>. QED BY <1>1, <2>1, <3>1
  <2>3. ASSUME DynamicSections \cap required # {}
        PROVE  Reached2(".dynsym") /\ Reached2(".dynstr") /\ Reached2(".got.plt")
    <3>1. DynamicSections \subseteq required
      BY <2>3 DEF RequiredInv
    <3>2. {".dynsym", ".dynstr", ".got.plt"} \subseteq DynamicSections
      BY DEF DynamicSections
    <3>. HIDE DEF Reached2
    <3>. QED BY <1>1, <2>1, <3>1, <3>2
  <2>4. ASSUME NEW name \in Relocated, RelaOf(name) \in required
        PROVE  Reached2(name) /\ Reached2(".symtab")
    <3>1. name \in required /\ SymtabSections \subseteq required /\ ".symtab" \in SymtabSections
      BY <2>4 DEF RequiredInv, SymtabSections
    <3>. HIDE DEF Reached2
    <3>. QED BY <1>1, <2>1, <3>1
  <2>. QED BY <2>2, <2>3, <2>4
<1>. HIDE DEF index
<1>3. \A name \in Names : name = name
  OBVIOUS
<1>4. ".symtab" \in required => InSection(Linked(".symtab").link, ".strtab")
  BY <1>2, <1>h, LinkedBase, LinkToFacts DEF index
<1>5. ".dynsym" \in required => InSection(Linked(".dynsym").link, ".dynstr")
  <2>. SUFFICES ASSUME ".dynsym" \in required PROVE InSection(Linked(".dynsym").link, ".dynstr")
    OBVIOUS
  <2>1. Reached2(".dynstr")
    BY <1>2 DEF DynamicSections
  <2>2. Linked(".dynsym") = [hdr[".dynsym"] EXCEPT !.link = index(".dynstr"), !.info = 1]
    BY <2>1, LinkedBase DEF index
  <2>3. Linked(".dynsym").link = index(".dynstr")
    BY <1>h, <2>2 DEF Header
  <2>. QED BY <2>1, <2>3
<1>6. ".hash" \in required => InSection(Linked(".hash").link, ".dynsym")
  <2>. SUFFICES ASSUME ".hash" \in required PROVE InSection(Linked(".hash").link, ".dynsym")
    OBVIOUS
  <2>1. Reached2(".dynsym")
    BY <1>2 DEF DynamicSections
  <2>. QED BY <1>h, <2>1, LinkedBase, LinkToFacts DEF index
<1>7. ".dynamic" \in required => InSection(Linked(".dynamic").link, ".dynstr")
  <2>. SUFFICES ASSUME ".dynamic" \in required PROVE InSection(Linked(".dynamic").link, ".dynstr")
    OBVIOUS
  <2>1. Reached2(".dynstr")
    BY <1>2 DEF DynamicSections
  <2>. QED BY <1>h, <2>1, LinkedBase, LinkToFacts DEF index
<1>8. ".rela.dyn" \in required => InSection(Linked(".rela.dyn").link, ".dynsym")
  <2>. SUFFICES ASSUME ".rela.dyn" \in required PROVE InSection(Linked(".rela.dyn").link, ".dynsym")
    OBVIOUS
  <2>1. Reached2(".dynsym")
    BY <1>2 DEF DynamicSections
  <2>. QED BY <1>h, <2>1, LinkedBase, LinkToFacts DEF index
<1>9. ".rela.plt" \in required =>
        InSection(Linked(".rela.plt").link, ".dynsym") /\ InSection(Linked(".rela.plt").info, ".got.plt")
  <2>. SUFFICES ASSUME ".rela.plt" \in required
                PROVE  /\ InSection(Linked(".rela.plt").link, ".dynsym")
                       /\ InSection(Linked(".rela.plt").info, ".got.plt")
    OBVIOUS
  <2>1. Reached2(".dynsym") /\ Reached2(".got.plt")
    BY <1>2 DEF DynamicSections
  <2>. DEFINE h == LinkTo(hdr[".rela.plt"], index(".dynsym"))
  <2>2. h \in Header /\ h.link = index(".dynsym")
    BY <1>h, <2>1, LinkToFacts
  <2>3. Linked(".rela.plt") = [h EXCEPT !.info = OrOld(index(".got.plt"), @)]
    BY LinkedBase DEF index
  <2>. HIDE DEF h
  <2>4. Linked(".rela.plt").link = index(".dynsym") /\ Linked(".rela.plt").info = index(".got.plt")
    <3>. DEFINE i == index(".got.plt")
    <3>1. i \in Nat /\ i > 0
      BY <2>1
    <3>. HIDE DEF i
    <3>2. /\ [h EXCEPT !.info = OrOld(i, @)].info = i
          /\ [h EXCEPT !.info = OrOld(i, @)].link = h.link
      BY <2>2, <3>1, InfoToFacts
    <3>3. Linked(".rela.plt") = [h EXCEPT !.info = OrOld(i, @)]
      BY <2>3 DEF i
    <3>. QED BY <2>2, <3>2, <3>3 DEF i
  <2>. QED BY <2>1, <2>4
<1>10. ASSUME NEW name \in Relocated, RelaOf(name) \in required
       PROVE  /\ InSection(Linked(RelaOf(name)).link, ".symtab")
              /\ InSection(Linked(RelaOf(name)).info, name)
  <2>1. Reached2(".symtab") /\ Reached2(name)
    BY <1>2, <1>10
  <2>. DEFINE h == LinkTo(hdr[RelaOf(name)], index(".symtab"))
  <2>2. h \in Header /\ h.link = index(".symtab")
    BY <1>h, <1>10, <2>1, LinkToFacts
  <2>3. Linked(RelaOf(name)) = [h EXCEPT !.info = OrOld(index(name), @)]
    BY <1>10, LinkedRela DEF index
  <2>. HIDE DEF h
  <2>4. Linked(RelaOf(name)).link = index(".symtab") /\ Linked(RelaOf(name)).info = index(name)
    BY <2>1, <2>2, <2>3, InfoToFacts
  <2>. QED BY <2>1, <2>4
<1>. HIDE DEF Reached2
<1>11. ASSUME NEW pair \in Links, pair[1] \in required PROVE InSection(Linked(pair[1]).link, pair[2])
  BY <1>4, <1>5, <1>6, <1>7, <1>8, <1>9, <1>10, <1>11 DEF Links
<1>12. ASSUME NEW pair \in Infos, pair[1] \in required PROVE InSection(Linked(pair[1]).info, pair[2])
  BY <1>9, <1>10, <1>12 DEF Infos
<1>. QED BY <1>11, <1>12

(* The link of .got.plt is the raw index of .dynamic, from pass 1 on.       *)
GotInv == stage \in Prepared /\ dynamicLinkEnabled => hdr[".got.plt"].link = Index(sections, ".dynamic")

LEMMA GotPrepared ==
  ASSUME TypeInv, PrepareDynamic, dynamicLinkEnabled
  PROVE  sections' = sections /\ hdr'[".got.plt"].link = Index(sections, ".dynamic")
<1>. DEFINE got == 24 + NumFunctions * 8
            so == IF format = "so" THEN NAME ELSE 0
            r5 == [len |-> got, size |-> got, link |-> Index(sections, ".dynamic"), info |-> hdr[".got.plt"].info]
            r2 == [len |-> 24 * (NumDynSymbols + 1), size |-> hdr[".dynsym"].size,
                   link |-> Index(sections, ".dynstr"), info |-> 1]
            r6 == [len |-> 16 * DynamicEntryCount, size |-> 16 * DynamicEntryCount,
                   link |-> Index(sections, ".dynstr"), info |-> hdr[".dynamic"].info]
            r7 == [len |-> 4 * (2 + NumBuckets + NumDynSymbols + 1), size |-> hdr[".hash"].size,
                   link |-> Index(sections, ".dynsym"), info |-> hdr[".hash"].info]
            h3 == [hdr EXCEPT ![".dynstr"].len = 1 + NumDynSymbols * NAME + so, ![".dynsym"] = r2,
                              ![".plt"].len = 16 + NumFunctions * 16]
            h4 == [h3 EXCEPT ![".plt"].size = 16 + NumFunctions * 16]
<1>1. hdr' = [[[h4 EXCEPT ![".got.plt"] = r5] EXCEPT ![".dynamic"] = r6] EXCEPT ![".hash"] = r7]
  BY Zenon DEF PrepareDynamic
<1>2. hdr \in [Names -> Header] /\ ".got.plt" \in Names
  BY Prefix DEF TypeInv, HeaderInv, BaseNames
<1>3. DOMAIN h4 = Names
  BY <1>2
<1>4. r5.link = Index(sections, ".dynamic")
  OBVIOUS
<1>. HIDE DEF h4, r5, r6, r7
<1>5. hdr'[".got.plt"] = r5
  BY <1>1, <1>2, <1>3
<1>. QED BY <1>4, <1>5 DEF PrepareDynamic

LEMMA GotKept ==
  ASSUME TypeInv, SizeInv, Next, stage \in Prepared
  PROVE  /\ sections' = sections /\ dynamicLinkEnabled' = dynamicLinkEnabled
         /\ hdr'[".got.plt"].link = hdr[".got.plt"].link
<1>1. hdr \in [Names -> Header] /\ {".got.plt", ".symtab", ".strtab", ".shstrtab"} \subseteq Names
  BY Prefix DEF TypeInv, HeaderInv, BaseNames
<1>2. \A name \in RelaNames : name # ".got.plt"
  BY DEF RelaNames
<1>3. SizesFromData[".got.plt"] = hdr[".got.plt"] /\ DOMAIN SizesFromData = Names
  BY <1>1 DEF SizesFromData, Presized
<1>4. Compile /\ ~PrepareDynamic /\ ~PrepareRelocatable
  BY DEF Next, Translate, Translating, TranslateVariable, TranslateModinfo, SkipFunction, StartFunction,
     TranslateReference, FinishFunction, StartAppend, AppendFunction, FinishAppend, CreateThisModule,
     NoInitFunction, CreateVersions, PrepareDynamic, PrepareRelocatable, Pass, Prepared, Collected, Laid
<1>5. sections' = sections /\ dynamicLinkEnabled' = dynamicLinkEnabled
  BY <1>4, CompileSymbols DEF Compile, UpdateInitialSectionSizes, CollectSections, AssignSymbolIndices,
     BuildFinalSymtabData, BuildRelaDynamic, BuildRelaRelocatable, FinalizeSizes, FinalizeLayout,
     LayoutDone, SetSectionLinks, PatchSymbolTableAddresses, PatchDynSymAddresses, PatchDynamicSection,
     PatchTextRelocations, AssembleFinalElf, Finish, sectionVars, linkVars
<1>6. CASE UpdateInitialSectionSizes
  <2>1. hdr' = SizesFromData
    BY <1>6, Zenon DEF UpdateInitialSectionSizes
  <2>. QED BY <1>3, <1>5, <2>1
<1>7. CASE AssignSymbolIndices
  BY <1>1, <1>7 DEF AssignSymbolIndices
<1>8. CASE BuildFinalSymtabData
  BY <1>1, <1>8 DEF BuildFinalSymtabData, WithData
<1>9. CASE BuildRelaRelocatable
  <2>1. DOMAIN rela = RelaNames
    BY DEF SizeInv
  <2>2. CASE hdr' = hdr
    BY <1>5, <2>2
  <2>3. CASE hdr' = [name \in Names |->
                 IF name \in DOMAIN rela /\ RelaEntries(name) # << >>
                   THEN [hdr[name] EXCEPT !.len = 24 * Len(RelaEntries(name)),
                                          !.size = 24 * Len(RelaEntries(name))]
                   ELSE hdr[name]]
    <3>1. ".got.plt" \in Names /\ ".got.plt" \notin DOMAIN rela
      BY <1>1, <1>2, <2>1
    <3>2. hdr'[".got.plt"] = hdr[".got.plt"]
      BY <2>3, <3>1, Zenon
    <3>. QED BY <1>5, <3>2
  <2>4. hdr' = hdr \/ hdr' = [name \in Names |->
                 IF name \in DOMAIN rela /\ RelaEntries(name) # << >>
                   THEN [hdr[name] EXCEPT !.len = 24 * Len(RelaEntries(name)),
                                          !.size = 24 * Len(RelaEntries(name))]
                   ELSE hdr[name]]
    BY <1>9, Zenon DEF BuildRelaRelocatable
  <2>. QED BY <2>2, <2>3, <2>4
<1>10. CASE FinalizeSizes
  <2>. DEFINE n == 1 + NAME * (Len(requiredSections) - 1)
  <2>1. hdr' = [SizesFromData EXCEPT ![".shstrtab"].len = n, ![".shstrtab"].size = n]
    BY <1>10, Zenon DEF FinalizeSizes, WithData
  <2>. HIDE DEF n
  <2>2. ".got.plt" \in DOMAIN SizesFromData
    BY <1>1, <1>3
  <2>3. hdr'[".got.plt"] = SizesFromData[".got.plt"]
    BY <2>1, <2>2
  <2>. QED BY <1>3, <1>5, <2>3
<1>11. CASE SetSectionLinks
  <2>1. {other \in Relocated : RelaOf(other) = ".got.plt"} = {}
    <3>1. ".got.plt" \in BaseNames
      BY DEF BaseNames
    <3>. QED BY <3>1, OfFacts DEF Of
  <2>2. Linked(".got.plt") = hdr[".got.plt"]
    BY <2>1 DEF Linked
  <2>3. hdr' = [name \in Names |-> Linked(name)]
    BY <1>11, Zenon DEF SetSectionLinks
  <2>4. hdr'[".got.plt"] = Linked(".got.plt")
    BY <1>1, <2>3
  <2>. QED BY <1>5, <2>2, <2>4
<1>12. CASE \/ CollectSections \/ BuildRelaDynamic \/ FinalizeLayout \/ LayoutDone
            \/ PatchSymbolTableAddresses \/ PatchDynSymAddresses \/ PatchDynamicSection
            \/ PatchTextRelocations \/ AssembleFinalElf \/ Finish
  <2>1. hdr' = hdr
    BY <1>12 DEF CollectSections, BuildRelaDynamic, FinalizeLayout, LayoutDone, PatchSymbolTableAddresses,
       PatchDynSymAddresses, PatchDynamicSection, PatchTextRelocations, AssembleFinalElf, Finish,
       sectionVars, linkVars
  <2>. QED BY <1>5, <2>1
<1>. QED BY <1>4, <1>5, <1>6, <1>7, <1>8, <1>9, <1>10, <1>11, <1>12 DEF Compile

LEMMA GotStep == ASSUME TypeInv, SizeInv, GotInv, Next PROVE GotInv'
<1>1. CASE stage \in Prepared
  BY <1>1, GotKept DEF GotInv
<1>2. CASE PrepareDynamic
  BY <1>2, GotPrepared, CompileSymbols DEF GotInv, Next, Compile
<1>3. CASE PrepareRelocatable
  <2>1. ~dynamicLinkEnabled'
    BY <1>3 DEF PrepareRelocatable, symbolVars, TypeInv, SymbolInv
  <2>. QED BY <2>1 DEF GotInv
<1>4. CASE stage \notin Prepared /\ ~PrepareDynamic /\ ~PrepareRelocatable
  <2>1. CASE Translate
    <3>1. stage' \notin Prepared
      BY <2>1 DEF Translate, Translating, TranslateVariable, TranslateModinfo, SkipFunction, StartFunction,
         TranslateReference, FinishFunction, StartAppend, AppendFunction, FinishAppend, CreateThisModule,
         NoInitFunction, CreateVersions, Prepared, Collected, Laid
    <3>. QED BY <3>1 DEF GotInv
  <2>2. CASE Compile
    <3>1. FALSE
      BY <1>4, <2>2 DEF Compile, UpdateInitialSectionSizes, CollectSections, AssignSymbolIndices,
         BuildFinalSymtabData, BuildRelaDynamic, BuildRelaRelocatable, FinalizeSizes, FinalizeLayout,
         LayoutDone, SetSectionLinks, PatchSymbolTableAddresses, PatchDynSymAddresses,
         PatchDynamicSection, PatchTextRelocations, AssembleFinalElf, Finish, Pass, Prepared, Collected, Laid
    <3>. QED BY <3>1
  <2>. QED BY <2>1, <2>2 DEF Next
<1>. QED BY <1>1, <1>2, <1>3, <1>4

LEMMA LinksStep == ASSUME TypeInv, RequiredInv, FirstInv, LinksInv, Next PROVE LinksInv'
<1>0. ASSUME stage \in Collected
      PROVE  /\ required' = required
             /\ \A n, name : InSection(n, name)' <=> InSection(n, name)
  <2>1. required' = required /\ requiredSections' = requiredSections
    BY <1>0, RequiredKept
  <2>. QED BY <2>1 DEF InSection
<1>1. CASE SetSectionLinks
  <2>1. stage \in Collected /\ hdr' = [name \in Names |-> Linked(name)] /\ required \subseteq Names
    BY <1>1, OnlyRequired DEF SetSectionLinks, Pass, Collected, Laid
  <2>2. \A name \in required : hdr'[name] = Linked(name)
    BY <2>1
  <2>3. /\ \A pair \in Links : pair[1] \in required => InSection(Linked(pair[1]).link, pair[2])
        /\ \A pair \in Infos : pair[1] \in required => InSection(Linked(pair[1]).info, pair[2])
    BY <2>1, LinksMeant
  <2>. QED BY <1>0, <2>1, <2>2, <2>3 DEF LinksInv, LinksLead
<1>2. CASE /\ stage \in Laid \ {"layout", "links"} /\ hdr' = hdr
           /\ stage' \in Laid \cup {"aborted"}
  <2>1. LinksLead /\ stage \in Collected
    BY <1>2 DEF LinksInv, Collected
  <2>. QED BY <1>0, <1>2, <2>1 DEF LinksInv, LinksLead
<1>3. CASE stage' \notin Laid \ {"layout", "links"}
  BY <1>3 DEF LinksInv
<1>4. ASSUME \/ PatchSymbolTableAddresses \/ PatchDynSymAddresses \/ PatchDynamicSection
             \/ PatchTextRelocations \/ AssembleFinalElf \/ Finish
      PROVE  stage \in Laid \ {"layout", "links"} /\ hdr' = hdr /\ stage' \in Laid \cup {"aborted"}
  BY <1>4 DEF PatchSymbolTableAddresses, PatchDynSymAddresses, PatchDynamicSection, PatchTextRelocations,
     AssembleFinalElf, Finish, Pass, Laid, sectionVars, linkVars
<1>5. ASSUME \/ PrepareDynamic \/ PrepareRelocatable \/ UpdateInitialSectionSizes \/ CollectSections
             \/ AssignSymbolIndices \/ BuildFinalSymtabData \/ BuildRelaDynamic \/ BuildRelaRelocatable
             \/ FinalizeSizes \/ FinalizeLayout \/ LayoutDone
      PROVE  stage' \notin Laid \ {"layout", "links"}
  BY <1>5 DEF PrepareDynamic, PrepareRelocatable, UpdateInitialSectionSizes, CollectSections,
     AssignSymbolIndices, BuildFinalSymtabData, BuildRelaDynamic, BuildRelaRelocatable, FinalizeSizes,
     FinalizeLayout, LayoutDone, Pass, Laid, linkVars
<1>6. ASSUME Translate PROVE stage' \notin Laid \ {"layout", "links"}
  BY <1>6 DEF Translate, Translating, TranslateVariable, TranslateModinfo, SkipFunction, StartFunction,
     TranslateReference, FinishFunction, StartAppend, AppendFunction, FinishAppend, CreateThisModule,
     NoInitFunction, CreateVersions, Laid
<1>. QED BY <1>1, <1>2, <1>3, <1>4, <1>5, <1>6 DEF Next, Compile

-----------------------------------------------------------------------------
(* The tables of dynamic linking have their size from pass 1 on; pass 3     *)
(* only fills in what was left open.                                        *)
DynsymEntry == [name : SymbolNames, shndx : Nat, value : Nat]
TablesMade ==
  /\ DOMAIN dynsym = DOMAIN dynSymEntries
  /\ \A k \in DOMAIN dynsym : dynsym[k] \in DynsymEntry /\ dynsym[k].name = dynSymEntries[k].name
  /\ DOMAIN dynamic = 1..DynamicEntryCount
  /\ hash = HashTable
TablesInv == stage \in Prepared /\ dynamicLinkEnabled => TablesMade

LEMMA TablesMadeKept ==
  ASSUME TablesMade, dynSymEntries' = dynSymEntries, format' = format, hash' = hash,
         DOMAIN dynsym' = DOMAIN dynsym, DOMAIN dynamic' = DOMAIN dynamic,
         \A k \in DOMAIN dynsym : dynsym'[k] \in DynsymEntry /\ dynsym'[k].name = dynsym[k].name
  PROVE  TablesMade'
<1>1. HashTable' = HashTable
  BY DEF HashTable, Bucket, NumBuckets, NumDynSymbols
<1>2. DynamicEntryCount' = DynamicEntryCount
  BY DEF DynamicEntryCount
<1>. QED BY <1>1, <1>2 DEF TablesMade

LEMMA TablesBegin == ASSUME TypeInv, PrepareDynamic, dynamicLinkEnabled PROVE TablesMade'
<1>1. dynSymEntries' = dynSymEntries /\ format' = format
  BY DEF PrepareDynamic, fileVars
<1>2. dynSymEntries \in Seq(DynEntry)
  BY DEF TypeInv, SymbolInv
<1>3. /\ dynsym' = [k \in 1..NumDynSymbols |-> [name |-> dynSymEntries[k].name, shndx |-> 0, value |-> 0]]
      /\ dynamic' = [k \in 1..DynamicEntryCount |-> [tag |-> "NULL", value |-> 0]]
      /\ hash' = HashTable
  BY DEF PrepareDynamic
<1>4. HashTable' = HashTable
  BY <1>1 DEF HashTable, Bucket, NumBuckets, NumDynSymbols
<1>5. DynamicEntryCount' = DynamicEntryCount
  BY <1>1 DEF DynamicEntryCount
<1>6. DOMAIN dynSymEntries = 1..NumDynSymbols
  BY <1>2 DEF NumDynSymbols
<1>7. ASSUME NEW k \in DOMAIN dynsym'
      PROVE  dynsym'[k] \in DynsymEntry /\ dynsym'[k].name = dynSymEntries[k].name
  <2>1. dynSymEntries[k] \in DynEntry
    <3>1. DOMAIN dynsym' = 1..NumDynSymbols
      BY <1>3
    <3>2. k \in DOMAIN dynSymEntries
      BY <1>6, <3>1
    <3>. QED BY <1>2, <3>2
  <2>2. dynSymEntries[k].name \in SymbolNames
    BY <2>1 DEF DynEntry
  <2>. QED BY <1>3, <2>2 DEF DynsymEntry
<1>. HIDE DEF TablesMade
<1>8. DOMAIN dynsym' = DOMAIN dynSymEntries' /\ DOMAIN dynamic' = 1..DynamicEntryCount'
  BY <1>1, <1>3, <1>5, <1>6
<1>. QED BY <1>1, <1>3, <1>4, <1>7, <1>8 DEF TablesMade

(* The address of a symbol of .dynsym, when it is patched in.               *)
LEMMA DynsymPatched ==
  ASSUME TypeInv, TablesMade, PatchDynSymAddresses
  PROVE  /\ DOMAIN dynsym' = DOMAIN dynsym
         /\ \A k \in DOMAIN dynsym : dynsym'[k] \in DynsymEntry /\ dynsym'[k].name = dynsym[k].name
<1>0. stage \in Laid /\ FileInv /\ SymbolInv
  BY DEF PatchDynSymAddresses, Pass, Laid, TypeInv
<1>. DEFINE sym(k) == Find(dynamicSymbols, dynSymEntries[k].name)
<1>1. dynsym' = [k \in DOMAIN dynsym |->
         IF sym(k).section = Undefined THEN dynsym[k]
         ELSE [dynsym[k] EXCEPT !.value = Address(sym(k)), !.shndx = getSectionIndex(sym(k).section)]]
  BY DEF PatchDynSymAddresses
<1>2. ASSUME NEW k \in DOMAIN dynsym PROVE Address(sym(k)) \in Nat
  <2>1. dynSymEntries[k].name \in NamesIn(dynamicSymbols)
    BY <1>0 DEF TablesMade, SymbolInv, NamesIn
  <2>2. sym(k) \in SymbolRecord
    BY <1>0, <2>1, FindFacts DEF SymbolInv
  <2>3. sym(k).offset \in Nat
    BY <2>2 DEF SymbolRecord
  <2>4. AddrOf(sym(k).section) \in Nat
    BY <1>0, AddrType
  <2>. HIDE DEF sym
  <2>. QED BY <2>3, <2>4 DEF Address
<1>3. \A name : getSectionIndex(name) \in Nat
  <2>1. sections \in Seq(Names) /\ requiredSections \in Seq(Names)
    BY DEF TypeInv, SectionInv, FileInv
  <2>. QED BY <2>1, IndexFacts DEF getSectionIndex
<1>4. ASSUME NEW entry \in DynsymEntry, NEW value \in Nat, NEW shndx \in Nat
      PROVE  /\ [entry EXCEPT !.value = value, !.shndx = shndx] \in DynsymEntry
             /\ [entry EXCEPT !.value = value, !.shndx = shndx].name = entry.name
  BY <1>4 DEF DynsymEntry
<1>5. \A k \in DOMAIN dynsym : dynsym[k] \in DynsymEntry
  BY DEF TablesMade
<1>. HIDE DEF sym
<1>6. ASSUME NEW k \in DOMAIN dynsym PROVE dynsym'[k] \in DynsymEntry /\ dynsym'[k].name = dynsym[k].name
  BY <1>1, <1>2, <1>3, <1>4, <1>5
<1>. QED BY <1>1, <1>6

LEMMA TablesInit == Init => TablesInv
BY DEF Init, TablesInv, Prepared, Collected, Laid

LEMMA TablesStep == ASSUME TypeInv, TablesInv, Next PROVE TablesInv'
<1>1. ASSUME Translate PROVE stage' \notin Prepared
  BY <1>1 DEF Translate, Translating, TranslateVariable, TranslateModinfo, SkipFunction, StartFunction,
     TranslateReference, FinishFunction, StartAppend, AppendFunction, FinishAppend, CreateThisModule,
     NoInitFunction, CreateVersions, Prepared, Collected, Laid
<1>2. CASE PrepareDynamic
  <2>1. dynamicLinkEnabled' = dynamicLinkEnabled
    BY <1>2 DEF PrepareDynamic
  <2>. QED BY <1>2, <2>1, TablesBegin DEF TablesInv
<1>3. CASE PrepareRelocatable
  <2>1. ~dynamicLinkEnabled'
    BY <1>3 DEF PrepareRelocatable, symbolVars, TypeInv, SymbolInv
  <2>. QED BY <2>1 DEF TablesInv
<1>4. CASE Compile /\ ~PrepareDynamic /\ ~PrepareRelocatable
  <2>1. /\ dynSymEntries' = dynSymEntries /\ dynamicLinkEnabled' = dynamicLinkEnabled /\ format' = format
    BY <1>4, CompileSymbols, Passes
  <2>2. ASSUME ~PatchDynSymAddresses, ~PatchDynamicSection
        PROVE  stage \in Prepared /\ dynsym' = dynsym /\ dynamic' = dynamic /\ hash' = hash
    <3>1. ASSUME \/ UpdateInitialSectionSizes \/ CollectSections \/ AssignSymbolIndices
                 \/ BuildRelaDynamic \/ FinalizeSizes \/ LayoutDone \/ SetSectionLinks \/ Finish
          PROVE  stage \in Prepared /\ dynsym' = dynsym /\ dynamic' = dynamic /\ hash' = hash
      BY <3>1 DEF UpdateInitialSectionSizes, CollectSections, AssignSymbolIndices, BuildRelaDynamic,
         FinalizeSizes, LayoutDone, SetSectionLinks, Finish, Pass, Prepared, Collected, Laid, tableVars
    <3>2. ASSUME \/ BuildFinalSymtabData \/ BuildRelaRelocatable \/ PatchSymbolTableAddresses
                 \/ PatchTextRelocations \/ FinalizeLayout \/ AssembleFinalElf
          PROVE  stage \in Prepared /\ dynsym' = dynsym /\ dynamic' = dynamic /\ hash' = hash
      BY <3>2 DEF BuildFinalSymtabData, BuildRelaRelocatable, PatchSymbolTableAddresses,
         PatchTextRelocations, FinalizeLayout, AssembleFinalElf, Pass, Prepared, Collected, Laid,
         tableVars, linkVars
    <3>. QED BY <1>4, <2>2, <3>1, <3>2 DEF Compile
  <2>3. CASE PatchDynSymAddresses
    <3>1. stage \in Prepared /\ dynamic' = dynamic /\ hash' = hash
      BY <2>3 DEF PatchDynSymAddresses, Pass, Prepared, Collected, Laid
    <3>. QED BY <2>1, <2>3, <3>1, DynsymPatched, TablesMadeKept DEF TablesInv
  <2>4. CASE PatchDynamicSection
    <3>1. stage \in Prepared /\ dynsym' = dynsym /\ hash' = hash /\ DOMAIN dynamic' = DOMAIN dynamic
      BY <2>4 DEF PatchDynamicSection, Pass, Prepared, Collected, Laid
    <3>2. TablesMade => \A k \in DOMAIN dynsym : dynsym'[k] \in DynsymEntry /\ dynsym'[k].name = dynsym[k].name
      BY <3>1 DEF TablesMade
    <3>. QED BY <2>1, <3>1, <3>2, TablesMadeKept DEF TablesInv
  <2>5. CASE ~PatchDynSymAddresses /\ ~PatchDynamicSection
    <3>1. TablesMade => \A k \in DOMAIN dynsym : dynsym'[k] \in DynsymEntry /\ dynsym'[k].name = dynsym[k].name
      BY <2>2, <2>5 DEF TablesMade
    <3>. QED BY <2>1, <2>2, <2>5, <3>1, TablesMadeKept DEF TablesInv
  <2>. QED BY <2>3, <2>4, <2>5
<1>. QED BY <1>1, <1>2, <1>3, <1>4 DEF Next, TablesInv

(* The sections the loader looks for have an address.                       *)
LEMMA Addressed ==
  ASSUME TypeInv, RequiredInv, SizeInv, LayInv, stage \in Laid \ {"layout"}, dynamicLinkEnabled,
         NEW name \in Measured
  PROVE  AddrOf(name) \in Nat /\ AddrOf(name) > 0
<1>1. name \in required /\ name \notin NotLoaded /\ name \in Names
  <2>1. name \in DynamicSections /\ name \notin NotLoaded
    BY RelaFacts DEF Measured, DynamicSections, NotLoaded, RelaNames
  <2>. QED BY <2>1, OnlyRequired DEF RequiredInv
<1>. DEFINE i == Index(requiredSections, name) + 1
<1>2. /\ requiredSections \in Seq(Names) /\ Listed(requiredSections) = required
      /\ DOMAIN table = DOMAIN requiredSections /\ File!TypeOK
  BY DEF TypeInv, FileInv, Collected
<1>3. i \in DOMAIN requiredSections /\ requiredSections[i] = name
  BY <1>1, <1>2, IndexFacts
<1>4. AddrOf(name) = sh_addr[i]
  BY <1>3 DEF AddrOf
<1>. HIDE DEF i
<1>5. hdr[name].size > 0
  <2>1. hdr[name].size = hdr[name].len /\ hdr[name].len > 0
    BY <1>1 DEF SizeInv, Prepared, Collected
  <2>. QED BY <2>1
<1>6. table[i].alloc /\ table[i].size > 0 /\ i \in File!Sections
  BY <1>1, <1>2, <1>3, <1>5 DEF LayInv, Described, File!Sections
<1>7. i \in File!Alloc
  BY <1>6 DEF File!Alloc, File!RxSections, File!RwSections
<1>8. format # "ko" /\ i \in File!Laid
  <2>1. format # "ko" /\ phase \in LaidOut
    BY DEF TypeInv, SymbolInv, LayInv
  <2>2. i \in placed
    BY <1>7, <2>1 DEF LayInv
  <2>. QED BY <1>6, <2>1, <2>2 DEF File!Laid
<1>9. sh_addr[i] = File!Base + sh_offset[i] /\ File!HeaderEnd <= sh_offset[i] /\ sh_offset[i] \in Nat
  <2>1. File!PlacedInv /\ File!TypeOK
    BY DEF LayInv, File!LayoutInv
  <2>2. sh_offset[i] \in Nat
    BY <1>6, <2>1 DEF File!TypeOK
  <2>. QED BY <1>7, <1>8, <2>1, <2>2 DEF File!PlacedInv, File!LoadedWhereMapped
<1>10. File!HeaderEnd > 0 /\ File!HeaderEnd \in Nat /\ File!Base \in Nat
  <2>1. File!PhdrCount \in 1..5
    BY File!PhdrCountType
  <2>2. File!HeaderEnd = 64 + File!PhdrCount * 56
    BY <1>8 DEF File!HeaderEnd, File!EHDR, File!PHDR
  <2>3. File!Base \in Nat
    BY DEF File!Base, File!BaseAddress
  <2>. QED BY <2>1, <2>2, <2>3
<1>11. sh_addr[i] \in Nat /\ sh_addr[i] > 0
  BY <1>9, <1>10
<1>. QED BY <1>4, <1>11

LEMMA OneMore ==
  ASSUME NEW V, NEW s \in Seq(V), NEW x \in V
  PROVE  /\ s \o <<x>> \in Seq(V) /\ Len(s \o <<x>>) = Len(s) + 1
         /\ (s \o <<x>>)[Len(s) + 1] = x /\ \A k \in 1..Len(s) : (s \o <<x>>)[k] = s[k]
         /\ s \o << >> = s /\ Len(s) \in Nat
OBVIOUS

(* The entries of .dynamic: no section of relocations is filled, so those   *)
(* that are left are exactly as many as pass 1 has counted.                 *)
LEMMA DynamicEntriesFacts ==
  ASSUME TypeInv, RequiredInv, SizeInv, stage \in Laid, dynamicLinkEnabled
  PROVE  /\ DOMAIN DynamicEntries = 1..DynamicEntryCount
         /\ DynamicEntries[1] = Tag("HASH", AddrOf(".hash"))
         /\ DynamicEntries[2] = Tag("STRTAB", AddrOf(".dynstr"))
         /\ DynamicEntries[4] = Tag("SYMTAB", AddrOf(".dynsym"))
         /\ DynamicEntries[6] = Tag("PLTGOT", AddrOf(".got.plt"))
         /\ DynamicEntries[DynamicEntryCount] = Tag("NULL", 0)
         /\ DynamicEntryCount \in {7, 8}
<1>1. /\ hdr[".rela.dyn"].size = 0 /\ hdr[".rela.plt"].size = 0
      /\ ".got.plt" \in required /\ hdr[".got.plt"].size > 0
  <2>1. \A name \in Names : hdr[name].size = hdr[name].len
    BY DEF SizeInv
  <2>2. \A name \in Unfilled : hdr[name].len = 0
    BY DEF SizeInv
  <2>3. \A name \in Measured : hdr[name].len > 0
    BY DEF SizeInv, Prepared, Collected
  <2>4. ".rela.dyn" \in Names /\ ".rela.plt" \in Names /\ ".got.plt" \in Names /\ ".got.plt" \in DynamicSections
    BY Prefix DEF BaseNames, DynamicSections
  <2>. QED BY <2>1, <2>2, <2>3, <2>4 DEF Unfilled, Measured, RequiredInv
<1>. DEFINE a == Tag("HASH", AddrOf(".hash"))
            b == Tag("STRTAB", AddrOf(".dynstr"))
            c == Tag("STRSZ", hdr[".dynstr"].size)
            d == Tag("SYMTAB", AddrOf(".dynsym"))
            e == Tag("SYMENT", 24)
            f == Tag("PLTGOT", AddrOf(".got.plt"))
            g == Tag("SONAME", 1 + NAME * NumDynSymbols)
            h == Tag("NULL", 0)
<1>2. DynamicEntries = <<a, b, c, d, e>> \o << >> \o << >> \o <<f>>
                         \o (IF format = "so" THEN <<g>> ELSE << >>) \o <<h>>
  BY <1>1 DEF DynamicEntries
<1>. DEFINE V == {a, b, c, d, e, f, g, h}
            first == <<a, b, c, d, e>>
            six == first \o <<f>>
            seven == six \o <<g>>
<1>3. /\ first \in Seq(V) /\ Len(first) = 5 /\ a \in V /\ f \in V /\ g \in V /\ h \in V
      /\ first[1] = a /\ first[2] = b /\ first[4] = d
  <2>. HIDE DEF a, b, c, d, e, f, g, h
  <2>. QED OBVIOUS
<1>. HIDE DEF a, b, c, d, e, f, g, h, V, first
<1>4. /\ six \in Seq(V) /\ Len(six) = 6 /\ six[6] = f
      /\ six[1] = a /\ six[2] = b /\ six[4] = d /\ first \o << >> = first
  <2>1. /\ first \o <<f>> \in Seq(V) /\ Len(first \o <<f>>) = Len(first) + 1
        /\ (first \o <<f>>)[Len(first) + 1] = f /\ \A k \in 1..Len(first) : (first \o <<f>>)[k] = first[k]
        /\ first \o << >> = first
    <3>1. first \in Seq(V) /\ f \in V
      BY <1>3
    <3>. QED BY <3>1, OneMore, Zenon
  <2>2. 5 + 1 = 6 /\ 1 \in 1..5 /\ 2 \in 1..5 /\ 4 \in 1..5
    OBVIOUS
  <2>3. six = first \o <<f>>
    OBVIOUS
  <2>. HIDE DEF six
  <2>. QED BY <1>3, <2>1, <2>2, <2>3, Zenon
<1>. HIDE DEF six
<1>5. /\ seven \in Seq(V) /\ Len(seven) = 7 /\ six \o << >> = six
      /\ seven[1] = a /\ seven[2] = b /\ seven[4] = d /\ seven[6] = f
  <2>1. /\ six \o <<g>> \in Seq(V) /\ Len(six \o <<g>>) = Len(six) + 1
        /\ (six \o <<g>>)[Len(six) + 1] = g /\ \A k \in 1..Len(six) : (six \o <<g>>)[k] = six[k]
        /\ six \o << >> = six
    <3>1. six \in Seq(V) /\ g \in V
      BY <1>3, <1>4
    <3>. QED BY <3>1, OneMore, Zenon
  <2>2. 6 + 1 = 7 /\ 1 \in 1..6 /\ 2 \in 1..6 /\ 4 \in 1..6 /\ 6 \in 1..6
    OBVIOUS
  <2>3. seven = six \o <<g>>
    OBVIOUS
  <2>. HIDE DEF seven
  <2>. QED BY <1>4, <2>1, <2>2, <2>3, Zenon
<1>6. DynamicEntries = (six \o (IF format = "so" THEN <<g>> ELSE << >>)) \o <<h>>
  BY <1>2, <1>4 DEF six, first
<1>. HIDE DEF seven
<1>7. CASE format = "so"
  <2>1. DynamicEntries = seven \o <<h>>
    BY <1>6, <1>7 DEF seven
  <2>2. DynamicEntryCount = 8
    BY <1>7 DEF DynamicEntryCount
  <2>3. /\ DynamicEntries \in Seq(V) /\ Len(DynamicEntries) = 8 /\ DynamicEntries[8] = h
        /\ DynamicEntries[1] = a /\ DynamicEntries[2] = b /\ DynamicEntries[4] = d
        /\ DynamicEntries[6] = f
    <3>1. /\ seven \o <<h>> \in Seq(V) /\ Len(seven \o <<h>>) = Len(seven) + 1
          /\ (seven \o <<h>>)[Len(seven) + 1] = h /\ \A k \in 1..Len(seven) : (seven \o <<h>>)[k] = seven[k]
          /\ seven \o << >> = seven
      <4>1. seven \in Seq(V) /\ h \in V
        BY <1>3, <1>5
      <4>. QED BY <4>1, OneMore, Zenon
    <3>2. 7 + 1 = 8 /\ 1 \in 1..7 /\ 2 \in 1..7 /\ 4 \in 1..7 /\ 6 \in 1..7
      OBVIOUS
    <3>. QED BY <1>5, <2>1, <3>1, <3>2, Zenon
  <2>4. DOMAIN DynamicEntries = 1..8
    BY <2>3
  <2>. QED BY <2>2, <2>3, <2>4 DEF a, b, d, f, h
<1>8. CASE format # "so"
  <2>1. DynamicEntries = six \o <<h>>
    BY <1>5, <1>6, <1>8
  <2>2. DynamicEntryCount = 7
    BY <1>8 DEF DynamicEntryCount
  <2>3. /\ DynamicEntries \in Seq(V) /\ Len(DynamicEntries) = 7 /\ DynamicEntries[7] = h
        /\ DynamicEntries[1] = a /\ DynamicEntries[2] = b /\ DynamicEntries[4] = d
        /\ DynamicEntries[6] = f
    <3>1. /\ six \o <<h>> \in Seq(V) /\ Len(six \o <<h>>) = Len(six) + 1
          /\ (six \o <<h>>)[Len(six) + 1] = h /\ \A k \in 1..Len(six) : (six \o <<h>>)[k] = six[k]
          /\ six \o << >> = six
      <4>1. six \in Seq(V) /\ h \in V
        BY <1>3, <1>4
      <4>. QED BY <4>1, OneMore, Zenon
    <3>2. 6 + 1 = 7 /\ 1 \in 1..6 /\ 2 \in 1..6 /\ 4 \in 1..6 /\ 6 \in 1..6
      OBVIOUS
    <3>. QED BY <1>4, <2>1, <3>1, <3>2, Zenon
  <2>4. DOMAIN DynamicEntries = 1..7
    BY <2>3
  <2>. QED BY <2>2, <2>3, <2>4 DEF a, b, d, f, h
<1>. QED BY <1>7, <1>8

Shows(tag, name) ==
  \E k \in DOMAIN dynamic : dynamic[k].tag = tag /\ dynamic[k].value = AddrOf(name) /\ AddrOf(name) > 0
DynamicFilled ==
  /\ \E k \in DOMAIN dynamic : dynamic[k].tag = "NULL"
  /\ Shows("HASH", ".hash") /\ Shows("STRTAB", ".dynstr")
  /\ Shows("SYMTAB", ".dynsym") /\ Shows("PLTGOT", ".got.plt")
DynamicInv == stage \in {"patchtext", "assemble", "done"} /\ dynamicLinkEnabled => DynamicFilled

LEMMA DynamicBegins ==
  ASSUME TypeInv, RequiredInv, SizeInv, LayInv, TablesInv, PatchDynamicSection, dynamicLinkEnabled
  PROVE  DynamicFilled'
<1>1. /\ stage = "patchdynamic" /\ format # "ko"
      /\ \A name : AddrOf(name)' = AddrOf(name)
  BY DEF PatchDynamicSection, Pass, TypeInv, SymbolInv, fileVars, AddrOf
<1>2. stage \in Laid /\ stage \in Prepared /\ stage # "layout"
  BY <1>1 DEF Laid, Prepared, Collected
<1>3. DOMAIN dynamic = 1..DynamicEntryCount /\ DOMAIN DynamicEntries = 1..DynamicEntryCount
  BY <1>2, DynamicEntriesFacts DEF TablesInv, TablesMade
<1>4. dynamic' = [k \in DOMAIN dynamic |-> DynamicEntries[k]]
  BY <1>1, <1>3 DEF PatchDynamicSection
<1>5. /\ 1 \in DOMAIN dynamic /\ 2 \in DOMAIN dynamic /\ 4 \in DOMAIN dynamic /\ 6 \in DOMAIN dynamic
      /\ DynamicEntryCount \in DOMAIN dynamic /\ DOMAIN dynamic' = DOMAIN dynamic
  BY <1>2, <1>3, <1>4, DynamicEntriesFacts
<1>6. /\ dynamic'[1] = Tag("HASH", AddrOf(".hash")) /\ dynamic'[2] = Tag("STRTAB", AddrOf(".dynstr"))
      /\ dynamic'[4] = Tag("SYMTAB", AddrOf(".dynsym")) /\ dynamic'[6] = Tag("PLTGOT", AddrOf(".got.plt"))
      /\ dynamic'[DynamicEntryCount] = Tag("NULL", 0)
  BY <1>2, <1>4, <1>5, DynamicEntriesFacts
<1>7. AddrOf(".hash") > 0 /\ AddrOf(".dynstr") > 0 /\ AddrOf(".dynsym") > 0 /\ AddrOf(".got.plt") > 0
  BY <1>2, Addressed DEF Measured
<1>8. \A tag, value : Tag(tag, value).tag = tag /\ Tag(tag, value).value = value
  BY DEF Tag
<1>9. \E k \in DOMAIN dynamic' : dynamic'[k].tag = "NULL"
  BY <1>5, <1>6, <1>8
<1>10. Shows("HASH", ".hash")' /\ Shows("STRTAB", ".dynstr")'
  BY <1>1, <1>5, <1>6, <1>7, <1>8 DEF Shows
<1>11. Shows("SYMTAB", ".dynsym")' /\ Shows("PLTGOT", ".got.plt")'
  BY <1>1, <1>5, <1>6, <1>7, <1>8 DEF Shows
<1>. QED BY <1>9, <1>10, <1>11 DEF DynamicFilled

LEMMA DynamicStep ==
  ASSUME TypeInv, RequiredInv, SizeInv, LayInv, TablesInv, DynamicInv, Next
  PROVE  DynamicInv'
<1>1. CASE PatchDynamicSection
  <2>1. dynamicLinkEnabled' = dynamicLinkEnabled
    BY <1>1 DEF PatchDynamicSection, symbolVars
  <2>. QED BY <1>1, <2>1, DynamicBegins DEF DynamicInv
<1>2. CASE PatchTextRelocations \/ AssembleFinalElf \/ Finish
  <2>1. /\ stage \in {"patchtext", "assemble", "done"} /\ dynamic' = dynamic
        /\ dynamicLinkEnabled' = dynamicLinkEnabled
        /\ requiredSections' = requiredSections /\ sh_addr' = sh_addr
    <3>1. CASE PatchTextRelocations \/ Finish
      BY <3>1 DEF PatchTextRelocations, Finish, Pass, symbolVars, tableVars, fileVars
    <3>2. CASE AssembleFinalElf
      BY <3>2, FileStep DEF AssembleFinalElf, linkVars, symbolVars, tableVars
    <3>. QED BY <1>2, <3>1, <3>2
  <2>2. \A name : AddrOf(name)' = AddrOf(name)
    BY <2>1 DEF AddrOf
  <2>3. \A tag, name : Shows(tag, name)' <=> Shows(tag, name)
    BY <2>1, <2>2 DEF Shows
  <2>. QED BY <2>1, <2>3 DEF DynamicInv, DynamicFilled
<1>3. CASE stage' \notin {"patchtext", "assemble", "done"}
  BY <1>3 DEF DynamicInv
<1>4. ASSUME \/ PrepareDynamic \/ PrepareRelocatable \/ UpdateInitialSectionSizes \/ CollectSections
             \/ AssignSymbolIndices \/ BuildFinalSymtabData \/ BuildRelaDynamic \/ BuildRelaRelocatable
             \/ FinalizeSizes \/ FinalizeLayout \/ LayoutDone \/ SetSectionLinks
             \/ PatchSymbolTableAddresses \/ PatchDynSymAddresses
      PROVE  stage' \notin {"patchtext", "assemble", "done"}
  BY <1>4 DEF PrepareDynamic, PrepareRelocatable, UpdateInitialSectionSizes, CollectSections,
     AssignSymbolIndices, BuildFinalSymtabData, BuildRelaDynamic, BuildRelaRelocatable, FinalizeSizes,
     FinalizeLayout, LayoutDone, SetSectionLinks, PatchSymbolTableAddresses, PatchDynSymAddresses, Pass,
     linkVars
<1>5. ASSUME Translate PROVE stage' \notin {"patchtext", "assemble", "done"}
  BY <1>5 DEF Translate, Translating, TranslateVariable, TranslateModinfo, SkipFunction, StartFunction,
     TranslateReference, FinishFunction, StartAppend, AppendFunction, FinishAppend, CreateThisModule,
     NoInitFunction, CreateVersions
<1>. QED BY <1>1, <1>2, <1>3, <1>4, <1>5 DEF Next, Compile

LEMMA FromWhere ==
  ASSUME NEW n \in 1..19, NEW first, \A k \in 1..19 : Stages[k] = first <=> k = n
  PROVE  From(first) <=> \E l \in n..19 : Stages[l] = stage
<1>1. DOMAIN Stages = 1..19
  BY StagesListed
<1>2. ASSUME From(first) PROVE \E l \in n..19 : Stages[l] = stage
  <2>1. PICK k \in 1..19, l \in 1..19 : k <= l /\ Stages[k] = first /\ Stages[l] = stage
    BY <1>1, <1>2 DEF From
  <2>2. k = n
    BY <2>1
  <2>. QED BY <2>1, <2>2
<1>3. ASSUME NEW l \in n..19, Stages[l] = stage PROVE From(first)
  <2>1. n <= l /\ l \in 1..19 /\ Stages[n] = first
    BY <1>3
  <2>. QED BY <1>1, <1>3, <2>1 DEF From
<1>. QED BY <1>2, <1>3

(* What has happened at which stage.                                        *)
LEMMA FromLater ==
  /\ From("sizes") <=> stage \in Prepared
  /\ From("rela") <=> stage \in Laid \cup {"rela", "sizes2"}
  /\ From("sizes2") <=> stage \in Laid \cup {"sizes2"}
  /\ From("layout") <=> stage \in Laid
  /\ From("patchsymtab") <=> stage \in Laid \ {"layout", "links"}
  /\ From("patchdynsym") <=> stage \in {"patchdynsym", "patchdynamic", "patchtext", "assemble", "done"}
  /\ From("patchdynamic") <=> stage \in {"patchdynamic", "patchtext", "assemble", "done"}
  /\ From("patchtext") <=> stage \in {"patchtext", "assemble", "done"}
<1>1. From("sizes") <=> stage \in Prepared
  <2>1. \A k \in 1..19 : Stages[k] = "sizes" <=> k = 6
    BY StagesListed
  <2>2. From("sizes") <=> \E l \in 6..19 : Stages[l] = stage
    BY <2>1, FromWhere
  <2>3. \A l \in 6..19 : l \in {6, 7, 8, 9, 10, 11, 12, 13, 14, 15, 16, 17, 18, 19}
    OBVIOUS
  <2>4. (\E l \in 6..19 : Stages[l] = stage) <=>
          \/ Stages[6] = stage \/ Stages[7] = stage \/ Stages[8] = stage \/ Stages[9] = stage
          \/ Stages[10] = stage \/ Stages[11] = stage \/ Stages[12] = stage \/ Stages[13] = stage
          \/ Stages[14] = stage \/ Stages[15] = stage \/ Stages[16] = stage \/ Stages[17] = stage
          \/ Stages[18] = stage \/ Stages[19] = stage
    BY <2>3
  <2>. QED BY <2>2, <2>4, StagesListed DEF Prepared, Collected, Laid
<1>2. From("rela") <=> stage \in Laid \cup {"rela", "sizes2"}
  <2>1. \A k \in 1..19 : Stages[k] = "rela" <=> k = 10
    BY StagesListed
  <2>2. From("rela") <=> \E l \in 10..19 : Stages[l] = stage
    BY <2>1, FromWhere
  <2>3. \A l \in 10..19 : l \in {10, 11, 12, 13, 14, 15, 16, 17, 18, 19}
    OBVIOUS
  <2>4. (\E l \in 10..19 : Stages[l] = stage) <=>
          \/ Stages[10] = stage \/ Stages[11] = stage \/ Stages[12] = stage \/ Stages[13] = stage
          \/ Stages[14] = stage \/ Stages[15] = stage \/ Stages[16] = stage \/ Stages[17] = stage
          \/ Stages[18] = stage \/ Stages[19] = stage
    BY <2>3
  <2>. QED BY <2>2, <2>4, StagesListed DEF Prepared, Collected, Laid
<1>3. From("sizes2") <=> stage \in Laid \cup {"sizes2"}
  <2>1. \A k \in 1..19 : Stages[k] = "sizes2" <=> k = 11
    BY StagesListed
  <2>2. From("sizes2") <=> \E l \in 11..19 : Stages[l] = stage
    BY <2>1, FromWhere
  <2>3. \A l \in 11..19 : l \in {11, 12, 13, 14, 15, 16, 17, 18, 19}
    OBVIOUS
  <2>4. (\E l \in 11..19 : Stages[l] = stage) <=>
          \/ Stages[11] = stage \/ Stages[12] = stage \/ Stages[13] = stage \/ Stages[14] = stage
          \/ Stages[15] = stage \/ Stages[16] = stage \/ Stages[17] = stage \/ Stages[18] = stage
          \/ Stages[19] = stage
    BY <2>3
  <2>. QED BY <2>2, <2>4, StagesListed DEF Prepared, Collected, Laid
<1>4. From("layout") <=> stage \in Laid
  <2>1. \A k \in 1..19 : Stages[k] = "layout" <=> k = 12
    BY StagesListed
  <2>2. From("layout") <=> \E l \in 12..19 : Stages[l] = stage
    BY <2>1, FromWhere
  <2>3. \A l \in 12..19 : l \in {12, 13, 14, 15, 16, 17, 18, 19}
    OBVIOUS
  <2>4. (\E l \in 12..19 : Stages[l] = stage) <=>
          \/ Stages[12] = stage \/ Stages[13] = stage \/ Stages[14] = stage \/ Stages[15] = stage
          \/ Stages[16] = stage \/ Stages[17] = stage \/ Stages[18] = stage \/ Stages[19] = stage
    BY <2>3
  <2>. QED BY <2>2, <2>4, StagesListed DEF Prepared, Collected, Laid
<1>5. From("patchsymtab") <=> stage \in Laid \ {"layout", "links"}
  <2>1. \A k \in 1..19 : Stages[k] = "patchsymtab" <=> k = 14
    BY StagesListed
  <2>2. From("patchsymtab") <=> \E l \in 14..19 : Stages[l] = stage
    BY <2>1, FromWhere
  <2>3. \A l \in 14..19 : l \in {14, 15, 16, 17, 18, 19}
    OBVIOUS
  <2>4. (\E l \in 14..19 : Stages[l] = stage) <=>
          \/ Stages[14] = stage \/ Stages[15] = stage \/ Stages[16] = stage \/ Stages[17] = stage
          \/ Stages[18] = stage \/ Stages[19] = stage
    BY <2>3
  <2>. QED BY <2>2, <2>4, StagesListed DEF Prepared, Collected, Laid
<1>6. From("patchdynsym") <=> stage \in {"patchdynsym", "patchdynamic", "patchtext", "assemble", "done"}
  <2>1. \A k \in 1..19 : Stages[k] = "patchdynsym" <=> k = 15
    BY StagesListed
  <2>2. From("patchdynsym") <=> \E l \in 15..19 : Stages[l] = stage
    BY <2>1, FromWhere
  <2>3. \A l \in 15..19 : l \in {15, 16, 17, 18, 19}
    OBVIOUS
  <2>4. (\E l \in 15..19 : Stages[l] = stage) <=>
          \/ Stages[15] = stage \/ Stages[16] = stage \/ Stages[17] = stage \/ Stages[18] = stage
          \/ Stages[19] = stage
    BY <2>3
  <2>. QED BY <2>2, <2>4, StagesListed DEF Prepared, Collected, Laid
<1>7. From("patchdynamic") <=> stage \in {"patchdynamic", "patchtext", "assemble", "done"}
  <2>1. \A k \in 1..19 : Stages[k] = "patchdynamic" <=> k = 16
    BY StagesListed
  <2>2. From("patchdynamic") <=> \E l \in 16..19 : Stages[l] = stage
    BY <2>1, FromWhere
  <2>3. \A l \in 16..19 : l \in {16, 17, 18, 19}
    OBVIOUS
  <2>4. (\E l \in 16..19 : Stages[l] = stage) <=>
          \/ Stages[16] = stage \/ Stages[17] = stage \/ Stages[18] = stage \/ Stages[19] = stage
    BY <2>3
  <2>. QED BY <2>2, <2>4, StagesListed DEF Prepared, Collected, Laid
<1>8. From("patchtext") <=> stage \in {"patchtext", "assemble", "done"}
  <2>1. \A k \in 1..19 : Stages[k] = "patchtext" <=> k = 17
    BY StagesListed
  <2>2. From("patchtext") <=> \E l \in 17..19 : Stages[l] = stage
    BY <2>1, FromWhere
  <2>3. \A l \in 17..19 : l \in {17, 18, 19}
    OBVIOUS
  <2>4. (\E l \in 17..19 : Stages[l] = stage) <=>
          \/ Stages[17] = stage \/ Stages[18] = stage \/ Stages[19] = stage
    BY <2>3
  <2>. QED BY <2>2, <2>4, StagesListed DEF Prepared, Collected, Laid
<1>. QED BY <1>1, <1>2, <1>3, <1>4, <1>5, <1>6, <1>7, <1>8

(* Every invariant above is one of the compiler.                            *)
FileBuilt ==
  TypeInv /\ LandInv /\ RequiredInv /\ SizeInv /\ LayInv /\ FirstInv /\ LinksInv /\ GotInv /\ TablesInv
    /\ DynamicInv

LEMMA BuiltInit == Init => FileBuilt
<1>1. Init => LinksInv /\ GotInv /\ DynamicInv
  BY DEF Init, LinksInv, GotInv, DynamicInv, Laid, Collected, Prepared
<1>. QED BY <1>1, TypeInit, LandInit, RequiredInit, SizeInit, LayInit, FirstInit, TablesInit DEF FileBuilt

LEMMA BuiltStep == ASSUME FileBuilt, Next PROVE FileBuilt'
BY TypeStep, LandStep, RequiredStep, SizeStep, LayStep, FirstStep, LinksStep, GotStep, TablesStep, DynamicStep
   DEF FileBuilt

LEMMA BuiltUnchanged == ASSUME FileBuilt, UNCHANGED vars PROVE FileBuilt'
<1>1. /\ UNCHANGED driverVars /\ UNCHANGED sectionVars /\ UNCHANGED symbolVars /\ UNCHANGED tableVars
      /\ UNCHANGED fileVars /\ stage' = stage /\ relocations' = relocations
      /\ requiredSections' = requiredSections
  BY DEF vars, linkVars
<1>2. TypeInv' /\ LandInv'
  BY TypeUnchanged, LandUnchanged DEF FileBuilt
<1>3. /\ sections' = sections /\ required' = required /\ hdr' = hdr /\ format' = format
      /\ dynamicLinkEnabled' = dynamicLinkEnabled /\ dynSymEntries' = dynSymEntries
      /\ dynsym' = dynsym /\ hash' = hash /\ dynamic' = dynamic /\ rela' = rela
      /\ table' = table /\ sh_addr' = sh_addr /\ phase' = phase /\ phdrs' = phdrs /\ placed' = placed
  BY <1>1 DEF sectionVars, symbolVars, tableVars, fileVars
<1>4. RequiredInv' /\ SizeInv'
  BY <1>1, <1>3 DEF FileBuilt, RequiredInv, SizeInv
<1>5. LayInv'
  <2>1. UNCHANGED File!layoutVars
    BY <1>1 DEF fileVars, File!layoutVars
  <2>2. File!LayoutInv => File!LayoutInv'
    BY <2>1, File!LayoutStutter
  <2>3. stage \in Laid => File!Alloc' = File!Alloc
    BY <1>1, <2>1 DEF File!Alloc, File!RxSections, File!RwSections, File!Sections, File!layoutVars
  <2>4. Described => Described'
    BY <1>1, <1>3 DEF Described
  <2>. QED BY <1>1, <1>3, <2>2, <2>3, <2>4 DEF FileBuilt, LayInv
<1>6. FirstInv'
  BY <1>1, <1>3 DEF FileBuilt, FirstInv
<1>7. LinksInv' /\ GotInv'
  <2>1. \A n, name : InSection(n, name)' <=> InSection(n, name)
    BY <1>1 DEF InSection
  <2>. QED BY <1>1, <1>3, <2>1 DEF FileBuilt, LinksInv, LinksLead, GotInv
<1>8. TablesInv'
  <2>1. TablesMade => TablesMade'
    <3>. SUFFICES ASSUME TablesMade PROVE TablesMade'
      OBVIOUS
    <3>1. \A k \in DOMAIN dynsym : dynsym'[k] \in DynsymEntry /\ dynsym'[k].name = dynsym[k].name
      BY <1>3 DEF TablesMade
    <3>. QED BY <1>3, <3>1, TablesMadeKept
  <2>. QED BY <1>1, <1>3, <2>1 DEF FileBuilt, TablesInv
<1>9. DynamicInv'
  <2>1. \A name : AddrOf(name)' = AddrOf(name)
    BY <1>1, <1>3 DEF AddrOf
  <2>2. \A tag, name : Shows(tag, name)' <=> Shows(tag, name)
    BY <1>3, <2>1 DEF Shows
  <2>. QED BY <1>1, <1>3, <2>2 DEF FileBuilt, DynamicInv, DynamicFilled
<1>. QED BY <1>2, <1>4, <1>5, <1>6, <1>7, <1>8, <1>9 DEF FileBuilt

(* What the layout was handed, and what it never meets.                     *)
LEMMA LayoutHanded == ASSUME FileBuilt PROVE LayoutAssumption
<1>. SUFFICES ASSUME stage \in Laid PROVE /\ table \in Seq(Layout!Section)
                                          /\ \A k \in DOMAIN table : table[k].name = ".dynamic" =>
                                               table[k].alloc /\ table[k].write /\ table[k].size > 0
  BY FromLater DEF LayoutAssumption
<1>1. table \in Seq(Layout!Section)
  BY SameSections DEF FileBuilt, TypeInv, FileInv, File!TypeOK
<1>2. ASSUME NEW k \in DOMAIN table, table[k].name = ".dynamic"
      PROVE  table[k].alloc /\ table[k].write /\ table[k].size > 0
  <2>1. /\ requiredSections[k] = ".dynamic" /\ k \in DOMAIN requiredSections
        /\ Listed(requiredSections) = required
    BY <1>2 DEF FileBuilt, TypeInv, FileInv, LayInv, Described, Collected
  <2>2. ".dynamic" \in required
    BY <2>1 DEF Listed
  <2>3. dynamicLinkEnabled
    BY <2>2 DEF FileBuilt, RequiredInv, DynamicSections
  <2>4. ".dynamic" \in Names /\ ".dynamic" \notin NotLoaded /\ ".dynamic" \in Writable
    BY Prefix, RelaFacts DEF BaseNames, NotLoaded, RelaNames, Writable
  <2>5. hdr[".dynamic"].size > 0
    <3>1. hdr[".dynamic"].size = hdr[".dynamic"].len /\ hdr[".dynamic"].len > 0
      BY <2>3, <2>4 DEF FileBuilt, SizeInv, Prepared, Collected, Measured
    <3>. QED BY <3>1
  <2>. QED BY <1>2, <2>1, <2>4, <2>5 DEF FileBuilt, LayInv, Described
<1>. QED BY <1>1, <1>2

LEMMA NoneJumps == ASSUME FileBuilt PROVE NoJumpSlots
<1>. SUFFICES ASSUME NEW k \in DOMAIN relocations, relocations[k].type = "PLT32"
              PROVE  relocations[k].name \notin NamesIn(dynSymEntries)
  BY DEF NoJumpSlots
<1>1. CASE format = "ko"
  <2>1. dynSymEntries = << >>
    BY <1>1 DEF FileBuilt, TypeInv, SymbolInv
  <2>. QED BY <2>1 DEF NamesIn
<1>2. CASE format # "ko"
  <2>1. Undeclared(relocations[k].name)
    BY <1>2 DEF FileBuilt, LandInv
  <2>. QED BY <1>2, <2>1, UndeclaredUnknown DEF FileBuilt
<1>. QED BY <1>1, <1>2

LEMMA SectionsFollow == ASSUME FileBuilt PROVE SectionsFinal
<1>1. TypeOK
  BY TypesFollow DEF FileBuilt
<1>2. DynamicTable
  <2>. SUFFICES ASSUME stage \in {"patchtext", "assemble", "done"}, dynamicLinkEnabled PROVE
         /\ \E k \in DOMAIN dynamic : dynamic[k].tag = "NULL"
         /\ \A name \in {".hash", ".dynstr", ".dynsym", ".got.plt"} :
              \E k \in DOMAIN dynamic :
                /\ dynamic[k].tag = CASE name = ".hash" -> "HASH" [] name = ".dynstr" -> "STRTAB"
                                      [] name = ".dynsym" -> "SYMTAB" [] name = ".got.plt" -> "PLTGOT"
                /\ dynamic[k].value = AddrOf(name) /\ AddrOf(name) > 0
    BY FromLater DEF DynamicTable
  <2>1. DynamicFilled
    BY DEF FileBuilt, DynamicInv
  <2>. QED BY <2>1 DEF DynamicFilled, Shows
<1>3. LinksFinal
  <2>1. ".got.plt" \in required /\ stage \in Laid => hdr[".got.plt"].link = Index(sections, ".dynamic")
    BY DEF FileBuilt, RequiredInv, DynamicSections, GotInv, Prepared, Collected
  <2>. QED BY <2>1, FromLater DEF FileBuilt, LinksInv, LinksLead, LinksFinal
<1>4. SizesMatchData
  BY FromLater, OnlyRequired DEF FileBuilt, SizeInv, SizesMatchData
<1>. QED BY <1>1, <1>2, <1>3, <1>4, LayoutHanded, NoneJumps DEF SectionsFinal, Assumptions

(* Whatever is compiled: sizes measure the complete data, every link but    *)
(* that of .got.plt leads to its section (that one keeps the index of the   *)
(* raw list), .dynamic has room for its entries, which hold final           *)
(* addresses, and the layout is handed what it is proved right for.         *)
THEOREM SectionsStayFinal == Spec => []SectionsFinal
<1>1. FileBuilt /\ [Next]_vars => FileBuilt'
  BY BuiltStep, BuiltUnchanged
<1>2. FileBuilt => SectionsFinal
  BY SectionsFollow
<1>. QED BY BuiltInit, <1>1, <1>2, PTL DEF Spec

-----------------------------------------------------------------------------
(* The loader's lookup: from the bucket of a name along the chain every     *)
(* entry of .dynsym is reached, the later ones of its bucket first.         *)
LastOf(s) == IF s = {} THEN 0 ELSE CHOOSE j \in s : \A k \in s : k <= j
BucketOf(k) == Bucket(dynSymEntries[k].name)
InBucket(b) == {j \in 1..NumDynSymbols : BucketOf(j) = b}
ChainedBefore(k) == {j \in 1..(k - 1) : BucketOf(j) = BucketOf(k)}
Reaches(k) ==
  \E n \in 1..(NumDynSymbols - k + 1) : \E path \in [1..n -> 1..NumDynSymbols] :
    Leads(path, n, dynSymEntries[k].name) /\ path[n] = k

LEMMA LastIs ==
  ASSUME NEW N \in Nat, NEW S \in SUBSET (1..N), NEW k \in S, \A j \in S : j <= k
  PROVE  LastOf(S) = k
<1>. DEFINE last == CHOOSE j \in S : \A i \in S : i <= j
<1>1. last \in S /\ \A i \in S : i <= last
  OBVIOUS
<1>. HIDE DEF last
<1>2. last <= k /\ k <= last /\ last \in Nat /\ k \in Nat
  BY <1>1
<1>3. last = k
  BY <1>2
<1>. QED BY <1>3 DEF LastOf, last

LEMMA HashTableIs ==
  /\ HashTable.buckets = [b \in 0..(NumBuckets - 1) |-> LastOf(InBucket(b))]
  /\ HashTable.chains = [k \in 0..NumDynSymbols |-> IF k = 0 THEN 0 ELSE LastOf(ChainedBefore(k))]
BY DEF HashTable, LastOf, InBucket, ChainedBefore, BucketOf

LEMMA BucketFacts ==
  ASSUME TypeInv, hash = HashTable, NEW k \in 1..NumDynSymbols
  PROVE  /\ NumDynSymbols \in Nat /\ k \in InBucket(BucketOf(k))
         /\ hash.buckets[Hash[dynSymEntries[k].name] % Cardinality(DOMAIN hash.buckets)]
              = LastOf(InBucket(BucketOf(k)))
<1>1. dynSymEntries \in Seq(DynEntry) /\ NumDynSymbols \in Nat /\ DOMAIN dynSymEntries = 1..NumDynSymbols
  BY DEF TypeInv, SymbolInv, NumDynSymbols
<1>2. dynSymEntries[k] \in DynEntry
  BY <1>1
<1>. DEFINE h == Hash[dynSymEntries[k].name]
<1>3. h \in Nat
  BY <1>2, HashAssumption DEF DynEntry
<1>4. NumBuckets \in Nat /\ NumBuckets > 0
  BY <1>1 DEF NumBuckets
<1>5. DOMAIN hash.buckets = 0..(NumBuckets - 1)
  BY HashTableIs
<1>6. Cardinality(DOMAIN hash.buckets) = NumBuckets
  <2>1. Cardinality(0..(NumBuckets - 1)) = NumBuckets
    BY <1>4, FS_Interval
  <2>. QED BY <1>5, <2>1
<1>7. BucketOf(k) = h % NumBuckets
  BY DEF BucketOf, Bucket
<1>. HIDE DEF h
<1>8. h % NumBuckets \in 0..(NumBuckets - 1)
  BY <1>3, <1>4
<1>9. hash.buckets[h % NumBuckets] = LastOf(InBucket(BucketOf(k)))
  BY <1>7, <1>8, HashTableIs
<1>. QED BY <1>1, <1>6, <1>9 DEF InBucket, h

(* An entry is the first of its chain, or the next later one leads to it.   *)
LEMMA ReachesNext ==
  ASSUME TypeInv, hash = HashTable, NEW k \in 1..NumDynSymbols,
         \A j \in (k + 1)..NumDynSymbols : Reaches(j)
  PROVE  Reaches(k)
<1>. DEFINE N == NumDynSymbols
            later == {j \in (k + 1)..N : BucketOf(j) = BucketOf(k)}
<1>1. N \in Nat /\ k \in InBucket(BucketOf(k)) /\ k \in Nat
  BY BucketFacts
<1>2. CASE later = {}
  <2>. DEFINE path == [m \in 1..1 |-> k]
  <2>1. \A j \in InBucket(BucketOf(k)) : j <= k
    BY <1>1, <1>2 DEF InBucket
  <2>2. LastOf(InBucket(BucketOf(k))) = k
    <3>1. InBucket(BucketOf(k)) \in SUBSET (1..N)
      BY DEF InBucket
    <3>. HIDE DEF N
    <3>. QED BY <1>1, <2>1, <3>1, LastIs
  <2>3. path \in [1..1 -> 1..N] /\ path[1] = k
    OBVIOUS
  <2>4. 1 \in 1..(N - k + 1)
    BY <1>1
  <2>. HIDE DEF path
  <2>5. Leads(path, 1, dynSymEntries[k].name)
    BY <2>2, <2>3, BucketFacts DEF Leads
  <2>. QED BY <2>3, <2>4, <2>5 DEF Reaches
<1>3. CASE later # {}
  <2>1. later \in SUBSET Nat
    BY <1>1
  <2>2. PICK j \in later : \A i \in later : j <= i
    <3>. HIDE DEF later
    <3>. QED BY <1>3, <2>1, FirstOf
  <2>3. j \in (k + 1)..N /\ j \in 1..N /\ j \in Nat /\ j # 0 /\ BucketOf(j) = BucketOf(k)
    BY <1>1, <2>2
  <2>4. PICK n \in 1..(N - j + 1) : \E path \in [1..n -> 1..N] :
            Leads(path, n, dynSymEntries[j].name) /\ path[n] = j
    BY <2>3 DEF Reaches
  <2>5. PICK path \in [1..n -> 1..N] : Leads(path, n, dynSymEntries[j].name) /\ path[n] = j
    BY <2>4
  <2>. DEFINE longer == [m \in 1..(n + 1) |-> IF m <= n THEN path[m] ELSE k]
  <2>6. /\ n \in Nat /\ n >= 1 /\ n + 1 \in 1..(N - k + 1) /\ (n + 1) - 1 = n
        /\ 1 \in 1..n
    BY <1>1, <2>3
  <2>7. longer \in [1..(n + 1) -> 1..N] /\ longer[n + 1] = k /\ \A m \in 1..n : longer[m] = path[m]
    BY <2>5, <2>6
  <2>8. hash.chains[j] = k
    <3>1. ChainedBefore(j) \in SUBSET (1..N) /\ k \in ChainedBefore(j)
      BY <1>1, <2>3 DEF ChainedBefore
    <3>2. \A i \in ChainedBefore(j) : i <= k
      <4>. SUFFICES ASSUME NEW i \in ChainedBefore(j), ~(i <= k) PROVE FALSE
        OBVIOUS
      <4>1. i \in 1..(j - 1) /\ BucketOf(i) = BucketOf(k)
        BY <2>3 DEF ChainedBefore
      <4>2. i \in (k + 1)..N /\ ~(j <= i)
        BY <1>1, <2>3, <4>1
      <4>. QED BY <2>2, <4>1, <4>2
    <3>3. LastOf(ChainedBefore(j)) = k
      <4>. HIDE DEF N
      <4>. QED BY <1>1, <3>1, <3>2, LastIs
    <3>4. hash.chains = [i \in 0..N |-> IF i = 0 THEN 0 ELSE LastOf(ChainedBefore(i))]
      BY HashTableIs
    <3>5. j \in 0..N
      BY <2>3
    <3>. QED BY <2>3, <3>3, <3>4, <3>5
  <2>. HIDE DEF longer, N, later
  <2>9. Leads(longer, n + 1, dynSymEntries[k].name)
    <3>. DEFINE first(i) == hash.buckets[Hash[dynSymEntries[i].name] % Cardinality(DOMAIN hash.buckets)]
    <3>1. first(k) = LastOf(InBucket(BucketOf(k))) /\ first(j) = LastOf(InBucket(BucketOf(j)))
      BY <2>3, BucketFacts DEF N
    <3>2. path[1] = first(j) /\ \A m \in 1..(n - 1) : path[m + 1] = hash.chains[path[m]]
      BY <2>5 DEF Leads
    <3>. HIDE DEF first
    <3>3. longer[1] = first(k)
      BY <2>3, <2>6, <2>7, <3>1, <3>2
    <3>4. ASSUME NEW m \in 1..n PROVE longer[m + 1] = hash.chains[longer[m]]
      <4>1. CASE m = n
        BY <2>5, <2>6, <2>7, <2>8, <4>1
      <4>2. CASE m # n
        <5>1. m \in 1..(n - 1) /\ m + 1 \in 1..n
          BY <2>6, <4>2
        <5>. QED BY <2>7, <3>2, <5>1
      <4>. QED BY <4>1, <4>2
    <3>. QED BY <2>6, <3>3, <3>4 DEF Leads, first
  <2>. QED BY <2>6, <2>7, <2>9 DEF Reaches, N
<1>. QED BY <1>2, <1>3

LEMMA AllReached ==
  ASSUME TypeInv, hash = HashTable
  PROVE  \A k \in 1..NumDynSymbols : Reaches(k)
<1>. DEFINE N == NumDynSymbols
            S == {d \in 0..N : \A k \in 1..N : k > N - d => Reaches(k)}
<1>1. N \in Nat
  BY DEF TypeInv, SymbolInv, NumDynSymbols
<1>. HIDE DEF N
<1>2. 0 \in S
  BY <1>1
<1>3. ASSUME NEW d \in 0..(N - 1), d \in S PROVE d + 1 \in S
  <2>1. d + 1 \in 0..N /\ d \in Nat
    BY <1>1
  <2>2. ASSUME NEW k \in 1..N, k > N - (d + 1) PROVE Reaches(k)
    <3>1. \A j \in (k + 1)..N : j \in 1..N /\ j > N - d
      BY <1>1, <2>1, <2>2
    <3>2. \A j \in (k + 1)..N : Reaches(j)
      BY <1>3, <3>1
    <3>. QED BY <3>2, ReachesNext DEF N
  <2>. QED BY <2>1, <2>2
<1>4. N \in S
  <2>. HIDE DEF S
  <2>1. \A d \in 0..N : d \in S
    BY <1>1, <1>2, <1>3, InductionUpTo
  <2>. QED BY <1>1, <2>1
<1>5. \A k \in 1..N : k > N - N
  BY <1>1
<1>. QED BY <1>4, <1>5 DEF N

LEMMA HashLeads == ASSUME FileBuilt PROVE HashFinds
<1>. SUFFICES ASSUME stage \in Prepared, dynamicLinkEnabled, NEW k \in DOMAIN dynsym
              PROVE  \E n \in DOMAIN dynsym : \E path \in [1..n -> DOMAIN dynsym] :
                       Leads(path, n, dynsym[k].name) /\ path[n] = k
  BY FromLater DEF HashFinds
<1>1. TypeInv /\ TablesMade
  BY DEF FileBuilt, TablesInv
<1>2. DOMAIN dynsym = 1..NumDynSymbols /\ NumDynSymbols \in Nat
  BY <1>1 DEF TablesMade, TypeInv, SymbolInv, NumDynSymbols
<1>3. hash = HashTable /\ dynsym[k].name = dynSymEntries[k].name
  BY <1>1 DEF TablesMade
<1>4. Reaches(k)
  BY <1>1, <1>2, <1>3, AllReached
<1>5. \A n \in 1..(NumDynSymbols - k + 1) : n \in 1..NumDynSymbols
  BY <1>2
<1>. QED BY <1>2, <1>3, <1>4, <1>5 DEF Reaches

-----------------------------------------------------------------------------
LEMMA SymtabPieces ==
  ASSUME SectionInv, SymbolInv
  PROVE  /\ <<UndefinedSymbol>> \in Seq(AnySymbol) /\ SectionSymbols \in Seq(AnySymbol)
         /\ localSymbols \in Seq(AnySymbol) /\ VisibleSymbols \in Seq(AnySymbol)
<1>1. SectionSymbols \in Seq(AnySymbol)
  <2>. DEFINE named == Only(sections, required \ {""})
  <2>1. named \in Seq(Names)
    BY OnlyPlaces DEF SectionInv
  <2>2. SectionSymbols = [k \in DOMAIN named |-> SectionSymbol(named[k])]
    BY DEF SectionSymbols
  <2>. HIDE DEF named
  <2>3. DOMAIN named = 1..Len(named) /\ Len(named) \in Nat /\ \A k \in DOMAIN named : named[k] \in Names
    BY <2>1
  <2>4. \A k \in DOMAIN named : SectionSymbol(named[k]) \in AnySymbol
    BY <2>3 DEF AnySymbol
  <2>. QED BY <2>2, <2>3, <2>4
<1>2. localSymbols \in Seq(SymbolRecord) /\ dynamicSymbols \in Seq(SymbolRecord)
  BY DEF SymbolInv
<1>3. VisibleSymbols \in Seq(SymbolRecord)
  BY <1>2, OnlyPlaces DEF VisibleSymbols
<1>. DEFINE S == {UndefinedSymbol} \cup {SectionSymbol(name) : name \in Names}
<1>4. AnySymbol = SymbolRecord \cup S /\ UndefinedSymbol \in S
  BY DEF AnySymbol
<1>. HIDE DEF S
<1>. QED BY <1>1, <1>2, <1>3, <1>4

LEMMA SymtabParts ==
  ASSUME SectionInv, SymbolInv, SectionInv', SymbolInv'
  PROVE  /\ <<UndefinedSymbol>> \in Seq(AnySymbol) /\ SectionSymbols \in Seq(AnySymbol)
         /\ localSymbols \in Seq(AnySymbol) /\ VisibleSymbols \in Seq(AnySymbol)
         /\ localSymbols' \in Seq(AnySymbol) /\ VisibleSymbols' \in Seq(AnySymbol)
<1>1. localSymbols' \in Seq(SymbolRecord) /\ dynamicSymbols' \in Seq(SymbolRecord)
  BY DEF SymbolInv
<1>2. VisibleSymbols' \in Seq(SymbolRecord)
  BY <1>1, OnlyPlaces DEF VisibleSymbols
<1>3. \A s : s \in Seq(SymbolRecord) => s \in Seq(AnySymbol)
  <2>. DEFINE S == {UndefinedSymbol} \cup {SectionSymbol(name) : name \in Names}
  <2>1. AnySymbol = SymbolRecord \cup S
    BY DEF AnySymbol
  <2>. HIDE DEF S
  <2>. QED BY <2>1
<1>. QED BY <1>1, <1>2, <1>3, SymtabPieces
-----------------------------------------------------------------------------
(* .symtab: the passes that number, build and patch its entries go through  *)
(* the symbols in one order, of which renumbering changes nothing else.     *)
Alike(a, b) == a.name = b.name /\ a.section = b.section /\ a.offset = b.offset /\ a.binding = b.binding
AllAlike(s, t) == DOMAIN t = DOMAIN s /\ \A k \in DOMAIN s : Alike(s[k], t[k])

(* Two lists filtered in the same places stay side by side.                 *)
LEMMA OnlyTogether ==
  ASSUME NEW V, NEW s \in Seq(V), NEW t \in Seq(V), Len(t) = Len(s), NEW A, NEW B,
         \A n \in 1..Len(s) : s[n] \in A <=> t[n] \in B
  PROVE  /\ Len(Only(t, B)) = Len(Only(s, A))
         /\ \A j \in 1..Len(Only(s, A)) :
              \E m \in 1..Len(s) : Only(s, A)[j] = s[m] /\ Only(t, B)[j] = t[m]
<1>. DEFINE N == Len(s)
<1>1. N \in Nat
  OBVIOUS
<1>2. PICK f \in [0..N -> Seq(V)] :
        /\ Only(s, A) = f[N]
        /\ f[0] = << >>
        /\ \A n \in 1..N : f[n] = IF s[n] \in A THEN Append(f[n - 1], s[n]) ELSE f[n - 1]
  BY OnlyUnfolds
<1>3. PICK g \in [0..N -> Seq(V)] :
        /\ Only(t, B) = g[N]
        /\ g[0] = << >>
        /\ \A n \in 1..N : g[n] = IF t[n] \in B THEN Append(g[n - 1], t[n]) ELSE g[n - 1]
  <2>1. \E g \in [0..Len(t) -> Seq(V)] :
          /\ Only(t, B) = g[Len(t)]
          /\ g[0] = << >>
          /\ \A n \in 1..Len(t) : g[n] = IF t[n] \in B THEN Append(g[n - 1], t[n]) ELSE g[n - 1]
    BY OnlyUnfolds
  <2>. QED BY <2>1
<1>. DEFINE Beside(n) == /\ Len(g[n]) = Len(f[n])
                         /\ \A j \in 1..Len(f[n]) : \E m \in 1..n : f[n][j] = s[m] /\ g[n][j] = t[m]
            S == {n \in 0..N : Beside(n)}
<1>4. \A n \in 1..N : s[n] \in V /\ t[n] \in V
  OBVIOUS
<1>. HIDE DEF N
<1>5. 0 \in S
  <2>1. Len(f[0]) = 0 /\ Len(g[0]) = 0
    BY <1>2, <1>3
  <2>2. Beside(0)
    BY <2>1
  <2>. HIDE DEF Beside
  <2>. QED BY <1>1, <2>2
<1>6. ASSUME NEW n \in 0..(N - 1), n \in S PROVE n + 1 \in S
  <2>1. n \in Nat /\ n + 1 \in 1..N /\ n + 1 \in 0..N /\ (n + 1) - 1 = n /\ Beside(n)
    BY <1>1, <1>6
  <2>2. /\ f[n] \in Seq(V) /\ g[n] \in Seq(V) /\ Len(f[n]) \in Nat /\ Len(g[n]) = Len(f[n])
        /\ s[n + 1] \in V /\ t[n + 1] \in V
    <3>1. n \in 0..N
      BY <1>1
    <3>2. f[n] \in Seq(V) /\ g[n] \in Seq(V)
      BY <1>2, <1>3, <3>1
    <3>3. Len(g[n]) = Len(f[n])
      BY <2>1
    <3>. QED BY <1>4, <2>1, <3>2, <3>3
  <2>3. s[n + 1] \in A <=> t[n + 1] \in B
    BY <2>1 DEF N
  <2>4. CASE s[n + 1] \notin A
    <3>1. f[n + 1] = f[n] /\ g[n + 1] = g[n]
      BY <1>2, <1>3, <2>1, <2>3, <2>4
    <3>2. \A m \in 1..n : m \in 1..(n + 1)
      BY <2>1
    <3>3. Beside(n + 1)
      BY <2>1, <3>1, <3>2
    <3>. HIDE DEF Beside
    <3>. QED BY <2>1, <3>3
  <2>5. CASE s[n + 1] \in A
    <3>. DEFINE L == Len(f[n])
    <3>1. f[n + 1] = Append(f[n], s[n + 1]) /\ g[n + 1] = Append(g[n], t[n + 1])
      BY <1>2, <1>3, <2>1, <2>3, <2>5
    <3>2. /\ Len(f[n + 1]) = L + 1 /\ Len(g[n + 1]) = L + 1
          /\ \A j \in 1..L : f[n + 1][j] = f[n][j] /\ g[n + 1][j] = g[n][j]
          /\ f[n + 1][L + 1] = s[n + 1] /\ g[n + 1][L + 1] = t[n + 1]
      BY <2>2, <3>1
    <3>3. ASSUME NEW j \in 1..(L + 1)
          PROVE  \E m \in 1..(n + 1) : f[n + 1][j] = s[m] /\ g[n + 1][j] = t[m]
      <4>1. CASE j \in 1..L
        <5>1. PICK m \in 1..n : f[n][j] = s[m] /\ g[n][j] = t[m]
          BY <2>1, <4>1
        <5>2. m \in 1..(n + 1)
          BY <2>1
        <5>. QED BY <3>2, <4>1, <5>1, <5>2
      <4>2. CASE j = L + 1
        <5>1. n + 1 \in 1..(n + 1)
          BY <2>1
        <5>. QED BY <3>2, <4>2, <5>1
      <4>. QED BY <2>2, <4>1, <4>2
    <3>4. Beside(n + 1)
      BY <3>2, <3>3
    <3>. HIDE DEF Beside
    <3>. QED BY <2>1, <3>4
  <2>. QED BY <2>4, <2>5
<1>7. Beside(N)
  <2>1. \A n \in 0..N : n \in S
    <3>. HIDE DEF S
    <3>. QED BY <1>1, <1>5, <1>6, InductionUpTo
  <2>2. N \in 0..N
    BY <1>1
  <2>. HIDE DEF Beside
  <2>. QED BY <2>1, <2>2
<1>. QED BY <1>2, <1>3, <1>7 DEF N

LEMMA AlikeJoined ==
  ASSUME NEW V, NEW s \in Seq(V), NEW t \in Seq(V), NEW u \in Seq(V), NEW v \in Seq(V),
         AllAlike(s, u), AllAlike(t, v)
  PROVE  s \o t \in Seq(V) /\ u \o v \in Seq(V) /\ AllAlike(s \o t, u \o v)
<1>1. Len(s) = Len(u) /\ Len(t) = Len(v) /\ Len(s) \in Nat /\ Len(t) \in Nat
  BY DEF AllAlike
<1>2. ASSUME NEW k \in DOMAIN (s \o t) PROVE k \in DOMAIN (u \o v) /\ Alike((s \o t)[k], (u \o v)[k])
  <2>1. CASE k \in 1..Len(s)
    <3>1. (s \o t)[k] = s[k] /\ (u \o v)[k] = u[k] /\ k \in DOMAIN (u \o v)
      BY <1>1, <2>1
    <3>. QED BY <2>1, <3>1 DEF AllAlike
  <2>2. CASE k \notin 1..Len(s)
    <3>1. k - Len(s) \in 1..Len(t) /\ k \in Nat /\ k > Len(s)
      BY <1>1, <2>2
    <3>2. (s \o t)[k] = t[k - Len(s)] /\ (u \o v)[k] = v[k - Len(s)] /\ k \in DOMAIN (u \o v)
      BY <1>1, <2>2, <3>1
    <3>. QED BY <3>1, <3>2 DEF AllAlike
  <2>. QED BY <2>1, <2>2
<1>3. DOMAIN (u \o v) = DOMAIN (s \o t)
  BY <1>1
<1>4. s \o t \in Seq(V) /\ u \o v \in Seq(V)
  OBVIOUS
<1>. QED BY <1>2, <1>3, <1>4 DEF AllAlike

LEMMA RenumberedAlike ==
  ASSUME NEW s, NEW t, Renumbered(s, t)
  PROVE  AllAlike(s, t)
BY DEF Renumbered, AllAlike, Alike

LEMMA VisibleAlike ==
  ASSUME SymbolInv, Renumbered(localSymbols, localSymbols'), Renumbered(dynamicSymbols, dynamicSymbols')
  PROVE  AllAlike(VisibleSymbols, VisibleSymbols')
<1>. DEFINE s == dynamicSymbols
            t == dynamicSymbols'
            A == {sym \in SymbolsIn(s) : ~Shadowed(sym)}
            B == {sym \in SymbolsIn(t) : sym.name \notin NamesIn(localSymbols')}
<1>1. /\ s \in Seq(SymbolRecord) /\ t \in Seq(SymbolRecord) /\ DOMAIN t = DOMAIN s
      /\ NamesIn(localSymbols') = NamesIn(localSymbols)
  BY RenumberedKeeps DEF SymbolInv, Renumbered
<1>2. Len(t) = Len(s) /\ DOMAIN s = 1..Len(s)
  BY <1>1
<1>3. \A n \in DOMAIN s : Alike(s[n], t[n])
  BY RenumberedAlike DEF AllAlike
<1>4. \A n \in 1..Len(s) : s[n] \in A <=> t[n] \in B
  BY <1>1, <1>2, <1>3 DEF Alike, SymbolsIn, Shadowed
<1>5. VisibleSymbols = Only(s, A) /\ VisibleSymbols' = Only(t, B)
  BY DEF VisibleSymbols, SymbolsIn, Shadowed
<1>. HIDE DEF s, t, A, B
<1>6. Only(s, A) \in Seq(SymbolRecord) /\ Only(t, B) \in Seq(SymbolRecord)
  BY <1>1, OnlyPlaces
<1>7. /\ Len(Only(t, B)) = Len(Only(s, A))
      /\ \A j \in 1..Len(Only(s, A)) :
           \E m \in 1..Len(s) : Only(s, A)[j] = s[m] /\ Only(t, B)[j] = t[m]
  BY <1>1, <1>2, <1>4, OnlyTogether
<1>8. DOMAIN Only(t, B) = 1..Len(Only(s, A)) /\ DOMAIN Only(s, A) = 1..Len(Only(s, A))
  BY <1>6, <1>7
<1>. QED BY <1>2, <1>3, <1>5, <1>7, <1>8 DEF AllAlike

LEMMA OrderAlike ==
  ASSUME SectionInv, SymbolInv, SectionInv', SymbolInv', sections' = sections, required' = required,
         Renumbered(localSymbols, localSymbols'), Renumbered(dynamicSymbols, dynamicSymbols')
  PROVE  AllAlike(SymtabOrder, SymtabOrder')
<1>. DEFINE u == <<UndefinedSymbol>>
<1>1. SectionSymbols' = SectionSymbols
  BY DEF SectionSymbols
<1>2. AllAlike(VisibleSymbols, VisibleSymbols') /\ AllAlike(localSymbols, localSymbols')
  BY VisibleAlike, RenumberedAlike
<1>3. \A s : AllAlike(s, s)
  BY DEF AllAlike, Alike
<1>4. /\ u \in Seq(AnySymbol) /\ SectionSymbols \in Seq(AnySymbol)
      /\ localSymbols \in Seq(AnySymbol) /\ VisibleSymbols \in Seq(AnySymbol)
      /\ localSymbols' \in Seq(AnySymbol) /\ VisibleSymbols' \in Seq(AnySymbol)
  BY SymtabParts
<1>. DEFINE s1 == u \o SectionSymbols
            s2 == s1 \o localSymbols
            t2 == s1 \o localSymbols'
<1>. HIDE DEF u
<1>5. s1 \in Seq(AnySymbol)
  BY <1>4, JoinSymbols
<1>. HIDE DEF s1
<1>6. s2 \in Seq(AnySymbol) /\ t2 \in Seq(AnySymbol) /\ AllAlike(s2, t2)
  BY <1>2, <1>3, <1>4, <1>5, AlikeJoined
<1>7. SymtabOrder = s2 \o VisibleSymbols /\ SymtabOrder' = t2 \o VisibleSymbols'
  BY <1>1 DEF SymtabOrder, s1, u
<1>. HIDE DEF s2, t2
<1>8. AllAlike(s2 \o VisibleSymbols, t2 \o VisibleSymbols')
  BY <1>2, <1>4, <1>6, AlikeJoined
<1>. QED BY <1>7, <1>8
-----------------------------------------------------------------------------
(* A symbol is in a section of the file, or nowhere.                        *)
Kept(sym) == sym.section \in Holding /\ sym.section \in required
HeldInv ==
  /\ \A k \in DOMAIN localSymbols : Kept(localSymbols[k])
  /\ \A k \in DOMAIN dynamicSymbols :
       Kept(dynamicSymbols[k]) \/ (dynamicSymbols[k].section = Undefined /\ dynamicSymbols[k].offset = 0)

LEMMA HeldInit == Init => HeldInv
<1>1. Init => localSymbols = << >> /\ dynamicSymbols = << >>
  BY Zenon DEF Init
<1>. QED BY <1>1 DEF HeldInv

LEMMA HeldDefined ==
  ASSUME SymbolInv, HeldInv, NEW sym \in SymbolRecord, Defines(sym)
  PROVE  HeldInv'
<1>1. /\ localSymbols \in Seq(SymbolRecord) /\ dynamicSymbols \in Seq(SymbolRecord)
      /\ NamesIn(dynSymEntries) \subseteq NamesIn(dynamicSymbols)
      /\ addSymbol(sym) /\ required \subseteq required'
      /\ sym.section \in Holding /\ sym.section \in required'
  BY DEF SymbolInv, Defines
<1>2. \A k \in DOMAIN localSymbols :
        localSymbols[k].section \in Holding /\ localSymbols[k].section \in required'
  BY <1>1 DEF HeldInv, Kept
<1>3. \A k \in DOMAIN dynamicSymbols :
        \/ dynamicSymbols[k].section \in Holding /\ dynamicSymbols[k].section \in required'
        \/ dynamicSymbols[k].section = Undefined /\ dynamicSymbols[k].offset = 0
  BY <1>1 DEF HeldInv, Kept
<1>4. CASE ~Exported(sym)
  <2>1. localSymbols' = Put(localSymbols, sym) /\ dynamicSymbols' = dynamicSymbols
    BY <1>1, <1>4 DEF addSymbol
  <2>2. \A k \in DOMAIN localSymbols' :
          localSymbols'[k].section \in Holding /\ localSymbols'[k].section \in required'
    BY <1>1, <1>2, <2>1, PutMembers
  <2>. QED BY <1>3, <2>1, <2>2 DEF HeldInv, Kept
<1>5. CASE Exported(sym)
  <2>1. PICK new \in SymbolRecord :
          new.section = sym.section /\ localSymbols' = localSymbols /\ dynamicSymbols' = Put(dynamicSymbols, new)
    <3>1. CASE sym.name \notin NamesIn(dynSymEntries)
      BY <1>1, <1>5, <3>1 DEF addSymbol
    <3>2. CASE sym.name \in NamesIn(dynSymEntries)
      <4>. DEFINE old == Find(dynamicSymbols, sym.name)
                  new == [sym EXCEPT !.type = old.type, !.index = old.index]
      <4>1. old \in SymbolRecord
        BY <1>1, <3>2, FindFacts
      <4>2. new \in SymbolRecord /\ new.section = sym.section
        BY <4>1 DEF SymbolRecord
      <4>3. localSymbols' = localSymbols /\ dynamicSymbols' = Put(dynamicSymbols, new)
        BY <1>1, <1>5, <3>2, Zenon DEF addSymbol
      <4>. HIDE DEF new
      <4>. QED BY <4>2, <4>3
    <3>. QED BY <3>1, <3>2
  <2>2. \A k \in DOMAIN dynamicSymbols' :
          \/ dynamicSymbols'[k].section \in Holding /\ dynamicSymbols'[k].section \in required'
          \/ dynamicSymbols'[k].section = Undefined /\ dynamicSymbols'[k].offset = 0
    <3>. TAKE k \in DOMAIN dynamicSymbols'
    <3>1. \/ dynamicSymbols'[k] = new
          \/ k \in DOMAIN dynamicSymbols /\ dynamicSymbols'[k] = dynamicSymbols[k]
      BY <1>1, <2>1, PutMembers
    <3>. QED BY <1>1, <1>3, <2>1, <3>1
  <2>. QED BY <1>2, <2>1, <2>2 DEF HeldInv, Kept
<1>. QED BY <1>4, <1>5

LEMMA HeldAsked ==
  ASSUME SymbolInv, HeldInv, NEW name \in SymbolNames, AsksFor(name)
  PROVE  HeldInv'
<1>1. /\ dynamicSymbols \in Seq(SymbolRecord) /\ requireSymbol(name) /\ required \subseteq required'
      /\ localSymbols' = localSymbols
  BY DEF SymbolInv, AsksFor, requireSymbol
<1>2. CASE Known(name)
  BY <1>1, <1>2 DEF requireSymbol, HeldInv, Kept
<1>3. CASE ~Known(name)
  <2>. DEFINE sym == Symbol(name, Undefined, 0, 0, "FUNC", "GLOBAL")
              t == Append(dynamicSymbols, sym)
  <2>1. dynamicSymbols' = t
    BY <1>1, <1>3 DEF requireSymbol
  <2>2. sym.section = Undefined /\ sym.offset = 0
    BY DEF Symbol
  <2>. HIDE DEF sym
  <2>3. \A k \in DOMAIN t : t[k] = sym \/ (k \in DOMAIN dynamicSymbols /\ t[k] = dynamicSymbols[k])
    BY <1>1
  <2>. HIDE DEF t
  <2>. QED BY <1>1, <2>1, <2>2, <2>3 DEF HeldInv, Kept
<1>. QED BY <1>2, <1>3

LEMMA HeldStep == ASSUME TypeInv, HeldInv, Next PROVE HeldInv'
<1>1. SymbolInv
  BY DEF TypeInv
<1>2. CASE Renumbers
  BY <1>2 DEF Renumbers, Renumbered, HeldInv, Kept
<1>. QED BY <1>1, <1>2, SymbolOperations, HeldDefined, HeldAsked

(* What a pass after buildFinalSymtabData leaves alone.                     *)
SymtabDone == Laid \cup {"rela", "sizes2"}
Addresses == {"patchdynsym", "patchdynamic", "patchtext", "assemble", "done"}
Quiet ==
  /\ UNCHANGED symbolVars /\ relocations' = relocations /\ format' = format
  /\ sections' = sections /\ required' = required /\ requiredSections' = requiredSections
  /\ stage \in SymtabDone
  /\ stage' \in Addresses => sh_addr' = sh_addr

LEMMA QuietStep ==
  ASSUME TypeInv, Next, stage' \in SymtabDone, ~BuildFinalSymtabData
  PROVE  /\ Quiet
         /\ PatchSymbolTableAddresses \/ (symtab' = symtab /\ (stage' \in Addresses <=> stage \in Addresses))
<1>1. Compile
  BY DEF Next, Translate, Translating, TranslateVariable, TranslateModinfo, SkipFunction, StartFunction,
     TranslateReference, FinishFunction, StartAppend, AppendFunction, FinishAppend, CreateThisModule,
     NoInitFunction, CreateVersions, SymtabDone, Laid
<1>2. relocations' = relocations /\ format' = format
  BY <1>1, Passes
<1>3. ASSUME \/ PrepareDynamic \/ PrepareRelocatable \/ UpdateInitialSectionSizes \/ CollectSections
             \/ AssignSymbolIndices
      PROVE  FALSE
  BY <1>3 DEF PrepareDynamic, PrepareRelocatable, UpdateInitialSectionSizes, CollectSections,
     AssignSymbolIndices, Pass, SymtabDone, Laid
<1>4. ASSUME BuildRelaDynamic \/ BuildRelaRelocatable \/ FinalizeSizes \/ FinalizeLayout \/ LayoutDone
      PROVE  /\ UNCHANGED symbolVars /\ sections' = sections /\ required' = required
             /\ requiredSections' = requiredSections /\ symtab' = symtab
             /\ stage \in SymtabDone /\ stage \notin Addresses /\ stage' \notin Addresses
  BY <1>4 DEF BuildRelaDynamic, BuildRelaRelocatable, FinalizeSizes, FinalizeLayout, LayoutDone, Pass,
     SymtabDone, Laid, Addresses, sectionVars, symbolVars, tableVars, linkVars
<1>5. ASSUME \/ SetSectionLinks \/ PatchDynSymAddresses \/ PatchDynamicSection \/ PatchTextRelocations
             \/ Finish
      PROVE  /\ UNCHANGED symbolVars /\ sections' = sections /\ required' = required
             /\ requiredSections' = requiredSections /\ symtab' = symtab /\ sh_addr' = sh_addr
             /\ stage \in SymtabDone /\ (stage' \in Addresses <=> stage \in Addresses)
  BY <1>5 DEF SetSectionLinks, PatchDynSymAddresses, PatchDynamicSection, PatchTextRelocations, Finish, Pass,
     SymtabDone, Laid, Addresses, sectionVars, symbolVars, tableVars, fileVars
<1>6. CASE AssembleFinalElf
  <2>1. sh_addr' = sh_addr
    BY <1>6, FileStep DEF AssembleFinalElf
  <2>. QED BY <1>2, <1>6, <2>1 DEF AssembleFinalElf, SymtabDone, Laid, linkVars, sectionVars, symbolVars,
           tableVars, Quiet, Addresses
<1>7. CASE PatchSymbolTableAddresses
  BY <1>2, <1>7 DEF PatchSymbolTableAddresses, Pass, SymtabDone, Laid, sectionVars, symbolVars, tableVars,
     fileVars, Quiet
<1>. QED BY <1>1, <1>2, <1>3, <1>4, <1>5, <1>6, <1>7 DEF Compile, Quiet

(* The entry of a symbol, and the symbol an entry is found for.             *)
ValueOf(sym) ==
  IF stage \in Addresses /\ sym.section # Undefined /\ AddrOf(sym.section) > 0 THEN Address(sym) ELSE sym.offset
EntryFor(entry, sym) ==
  entry = [name |-> sym.name, binding |-> sym.binding, type |-> entry.type, shndx |-> SectionIndex(sym),
           value |-> ValueOf(sym)]
Indexed(sym) == sym.index + 1 \in DOMAIN symtab /\ Alike(SymtabOrder[sym.index + 1], sym)
SymtabMade ==
  /\ DOMAIN symtab = DOMAIN SymtabOrder
  /\ \A k \in DOMAIN symtab : EntryFor(symtab[k], SymtabOrder[k])
  /\ \A k \in DOMAIN localSymbols : Indexed(localSymbols[k])
  /\ \A k \in DOMAIN dynamicSymbols : ~Shadowed(dynamicSymbols[k]) => Indexed(dynamicSymbols[k])
SymtabInv == stage \in SymtabDone /\ SymtabSections \subseteq required => SymtabMade

LEMMA SymtabBegins ==
  ASSUME TypeInv, TypeInv', BuildFinalSymtabData, SymtabSections \subseteq required
  PROVE  SymtabMade'
<1>. DEFINE order == SymtabOrder
            entry(sym) == [name |-> sym.name, binding |-> sym.binding, type |-> sym.type,
                           shndx |-> SectionIndex(sym), value |-> sym.offset]
<1>1. /\ SectionInv /\ SymbolInv /\ SectionInv' /\ SymbolInv' /\ FileInv
      /\ sections' = sections /\ required' = required /\ requiredSections' = requiredSections
      /\ stage' \notin Addresses
  BY DEF TypeInv, BuildFinalSymtabData, Pass, Addresses
<1>2. Renumbered(localSymbols, localSymbols') /\ Renumbered(dynamicSymbols, dynamicSymbols')
  BY <1>1, RenumberStep
<1>3. AllAlike(order, SymtabOrder')
  BY <1>1, <1>2, OrderAlike
<1>4. symtab' = [k \in DOMAIN order |-> entry(order[k])]
  BY Zenon DEF BuildFinalSymtabData
<1>5. \A a, b : Alike(a, b) => SectionIndex(b)' = SectionIndex(a)
  <2>1. \A name : getSectionIndex(name)' = getSectionIndex(name)
    BY <1>1 DEF getSectionIndex
  <2>. QED BY <1>1, <2>1 DEF Alike, SectionIndex
<1>6. /\ DOMAIN symtab' = DOMAIN order /\ DOMAIN SymtabOrder' = DOMAIN order
      /\ \A k \in DOMAIN order : Alike(order[k], SymtabOrder'[k])
  BY <1>3, <1>4 DEF AllAlike
<1>7. ASSUME NEW k \in DOMAIN symtab' PROVE EntryFor(symtab[k], SymtabOrder[k])'
  <2>1. PICK a : a = order[k]
    OBVIOUS
  <2>2. PICK b : b = SymtabOrder'[k]
    OBVIOUS
  <2>3. PICK e : e = symtab'[k]
    OBVIOUS
  <2>4. e = entry(a) /\ Alike(a, b)
    BY <1>4, <1>6, <2>1, <2>2, <2>3
  <2>5. SectionIndex(b)' = SectionIndex(a) /\ ValueOf(b)' = b.offset
    BY <1>1, <1>5, <2>4 DEF ValueOf, Alike
  <2>6. EntryFor(e, b)'
    BY <2>4, <2>5 DEF EntryFor, Alike
  <2>. QED BY <2>2, <2>3, <2>6 DEF EntryFor, SectionIndex, getSectionIndex, ValueOf, Address
<1>8. \A sym, new : sym \in Listed(order) /\ new = [sym EXCEPT !.index = FinalIndex(sym)] /\ sym \in SymbolRecord
        => Indexed(new)'
  <2>. SUFFICES ASSUME NEW sym \in Listed(order), NEW new, new = [sym EXCEPT !.index = FinalIndex(sym)],
                       sym \in SymbolRecord
                PROVE  Indexed(new)'
    OBVIOUS
  <2>. DEFINE place == CHOOSE k \in DOMAIN order : order[k] = sym
  <2>1. place \in DOMAIN order /\ order[place] = sym
    BY DEF Listed
  <2>2. order \in Seq(AnySymbol)
    BY <1>1, SymtabType
  <2>. HIDE DEF order
  <2>3. place \in Nat
    BY <2>1, <2>2
  <2>. HIDE DEF place
  <2>4. FinalIndex(sym) = place - 1
    BY DEF FinalIndex, place, order
  <2>5. new.index = place - 1 /\ Alike(sym, new)
    BY <2>4 DEF SymbolRecord, Alike
  <2>6. new.index + 1 = place
    BY <2>3, <2>5
  <2>. QED BY <1>6, <2>1, <2>5, <2>6 DEF Indexed, Alike
<1>9. /\ localSymbols \in Seq(SymbolRecord) /\ dynamicSymbols \in Seq(SymbolRecord)
      /\ Listed(localSymbols) \subseteq Listed(order)
      /\ \A k \in DOMAIN dynamicSymbols :
           ~Shadowed(dynamicSymbols[k]) => dynamicSymbols[k] \in Listed(order)
  BY <1>1, SymtabType DEF SymbolInv
<1>. HIDE DEF order, entry
<1>10. ASSUME NEW k \in DOMAIN localSymbols' PROVE Indexed(localSymbols[k])'
  <2>1. localSymbols' = [l \in DOMAIN localSymbols |->
           [localSymbols[l] EXCEPT !.index = FinalIndex(localSymbols[l])]]
    BY DEF BuildFinalSymtabData
  <2>2. k \in DOMAIN localSymbols /\ localSymbols[k] \in SymbolRecord /\ localSymbols[k] \in Listed(order)
    <3>1. k \in DOMAIN localSymbols
      BY <2>1
    <3>2. localSymbols[k] \in Listed(localSymbols)
      BY <3>1 DEF Listed
    <3>. QED BY <1>9, <3>1, <3>2
  <2>3. PICK new : new = localSymbols'[k]
    OBVIOUS
  <2>4. Indexed(new)'
    BY <1>8, <2>1, <2>2, <2>3
  <2>. QED BY <2>3, <2>4 DEF Indexed
<1>11. ASSUME NEW k \in DOMAIN dynamicSymbols', ~Shadowed(dynamicSymbols[k])' PROVE Indexed(dynamicSymbols[k])'
  <2>1. dynamicSymbols' = [l \in DOMAIN dynamicSymbols |->
           IF Shadowed(dynamicSymbols[l]) THEN dynamicSymbols[l]
           ELSE [dynamicSymbols[l] EXCEPT !.index = FinalIndex(dynamicSymbols[l])]]
    BY DEF BuildFinalSymtabData
  <2>2. k \in DOMAIN dynamicSymbols /\ dynamicSymbols[k] \in SymbolRecord
    BY <1>9, <2>1
  <2>3. Shadowed(dynamicSymbols[k])' <=> Shadowed(dynamicSymbols[k])
    BY <1>2, <2>2, RenumberedKeeps DEF Shadowed, Renumbered
  <2>4. PICK new : new = dynamicSymbols'[k]
    OBVIOUS
  <2>5. new = [dynamicSymbols[k] EXCEPT !.index = FinalIndex(dynamicSymbols[k])]
    BY <1>11, <2>1, <2>2, <2>3, <2>4
  <2>6. Indexed(new)'
    BY <1>8, <1>9, <1>11, <2>2, <2>3, <2>5
  <2>. QED BY <2>4, <2>6 DEF Indexed
<1>. QED BY <1>6, <1>7, <1>10, <1>11 DEF SymtabMade

LEMMA SymtabPatched ==
  ASSUME TypeInv, SymtabMade, PatchSymbolTableAddresses
  PROVE  SymtabMade'
<1>1. /\ UNCHANGED symbolVars /\ sections' = sections /\ required' = required
      /\ requiredSections' = requiredSections /\ sh_addr' = sh_addr
      /\ stage \notin Addresses /\ stage' \in Addresses
  BY DEF PatchSymbolTableAddresses, Pass, Addresses, sectionVars, fileVars
<1>2. SymtabOrder' = SymtabOrder
  BY <1>1 DEF SymtabOrder, SectionSymbols, VisibleSymbols, SymbolsIn, Shadowed, symbolVars
<1>3. PatchOrder = SymtabOrder
  BY DEF PatchOrder, SymtabOrder
<1>4. /\ \A name : AddrOf(name)' = AddrOf(name)
      /\ \A sym : Address(sym)' = Address(sym) /\ SectionIndex(sym)' = SectionIndex(sym)
  BY <1>1 DEF AddrOf, Address, SectionIndex, getSectionIndex
<1>5. symtab' = [k \in DOMAIN symtab |->
        IF k \in DOMAIN SymtabOrder /\ SymtabOrder[k].section # Undefined /\ AddrOf(SymtabOrder[k].section) > 0
          THEN [symtab[k] EXCEPT !.value = Address(SymtabOrder[k])] ELSE symtab[k]]
  BY <1>3, Zenon DEF PatchSymbolTableAddresses
<1>6. ASSUME NEW k \in DOMAIN symtab' PROVE EntryFor(symtab[k], SymtabOrder[k])'
  <2>1. PICK sym : sym = SymtabOrder[k]
    OBVIOUS
  <2>2. PICK old : old = symtab[k]
    OBVIOUS
  <2>3. PICK new : new = symtab'[k]
    OBVIOUS
  <2>4. k \in DOMAIN symtab /\ k \in DOMAIN SymtabOrder
    BY <1>5 DEF SymtabMade
  <2>5. old = [name |-> sym.name, binding |-> sym.binding, type |-> old.type, shndx |-> SectionIndex(sym),
               value |-> sym.offset]
    BY <1>1, <2>1, <2>2, <2>4 DEF SymtabMade, EntryFor, ValueOf
  <2>6. new = IF sym.section # Undefined /\ AddrOf(sym.section) > 0
                THEN [old EXCEPT !.value = Address(sym)] ELSE old
    BY <1>5, <2>1, <2>2, <2>3, <2>4
  <2>7. ValueOf(sym)' = IF sym.section # Undefined /\ AddrOf(sym.section) > 0 THEN Address(sym) ELSE sym.offset
    BY <1>1, <1>4 DEF ValueOf
  <2>8. SectionIndex(sym)' = SectionIndex(sym)
    BY <1>4
  <2>9. EntryFor(new, sym)'
    <3>. DEFINE index == SectionIndex(sym)
                address == Address(sym)
    <3>1. CASE sym.section # Undefined /\ AddrOf(sym.section) > 0
      <4>1. new = [old EXCEPT !.value = address] /\ ValueOf(sym)' = address
        BY <2>6, <2>7, <3>1
      <4>2. old = [name |-> sym.name, binding |-> sym.binding, type |-> old.type, shndx |-> index,
                   value |-> sym.offset]
        BY <2>5
      <4>3. SectionIndex(sym)' = index
        BY <2>8
      <4>. HIDE DEF index, address
      <4>4. new = [name |-> sym.name, binding |-> sym.binding, type |-> new.type, shndx |-> index,
                   value |-> address]
        BY <4>1, <4>2
      <4>. QED BY <4>1, <4>3, <4>4 DEF EntryFor
    <3>2. CASE ~(sym.section # Undefined /\ AddrOf(sym.section) > 0)
      BY <2>5, <2>6, <2>7, <2>8, <3>2 DEF EntryFor
    <3>. QED BY <3>1, <3>2
  <2>. QED BY <1>2, <2>1, <2>3, <2>9 DEF EntryFor, SectionIndex, getSectionIndex, ValueOf, Address
<1>7. DOMAIN symtab' = DOMAIN symtab
  BY <1>5
<1>8. \A sym : Indexed(sym) => Indexed(sym)'
  BY <1>2, <1>7 DEF Indexed
<1>. QED BY <1>1, <1>2, <1>6, <1>7, <1>8 DEF SymtabMade, symbolVars, Shadowed, Indexed

LEMMA SymtabKept ==
  ASSUME SymtabMade, Quiet, symtab' = symtab, stage' \in Addresses <=> stage \in Addresses
  PROVE  SymtabMade'
<1>1. /\ UNCHANGED symbolVars /\ sections' = sections /\ required' = required
      /\ requiredSections' = requiredSections
      /\ stage' \in Addresses => sh_addr' = sh_addr
  BY DEF Quiet
<1>2. SymtabOrder' = SymtabOrder
  BY <1>1 DEF SymtabOrder, SectionSymbols, VisibleSymbols, SymbolsIn, Shadowed, symbolVars
<1>3. \A sym : ValueOf(sym)' = ValueOf(sym) /\ SectionIndex(sym)' = SectionIndex(sym)
  <2>. SUFFICES ASSUME NEW sym PROVE ValueOf(sym)' = ValueOf(sym) /\ SectionIndex(sym)' = SectionIndex(sym)
    OBVIOUS
  <2>1. SectionIndex(sym)' = SectionIndex(sym)
    BY <1>1 DEF SectionIndex, getSectionIndex
  <2>2. CASE stage' \in Addresses
    <3>1. stage \in Addresses /\ sh_addr' = sh_addr
      BY <1>1, <2>2
    <3>2. \A name : AddrOf(name)' = AddrOf(name)
      BY <1>1, <3>1 DEF AddrOf, getSectionIndex
    <3>3. Address(sym)' = Address(sym)
      BY <3>2 DEF Address
    <3>. QED BY <2>1, <2>2, <3>1, <3>2, <3>3, Zenon DEF ValueOf
  <2>3. CASE stage' \notin Addresses
    BY <2>1, <2>3 DEF ValueOf
  <2>. QED BY <2>2, <2>3
<1>4. \A entry, sym : EntryFor(entry, sym) => EntryFor(entry, sym)'
  BY <1>3 DEF EntryFor
<1>5. \A k \in DOMAIN symtab' : EntryFor(symtab[k], SymtabOrder[k])'
  BY <1>2, <1>4 DEF SymtabMade, EntryFor, ValueOf, SectionIndex, Address
<1>6. \A sym : Indexed(sym) => Indexed(sym)'
  BY <1>2 DEF Indexed
<1>. QED BY <1>1, <1>2, <1>5, <1>6 DEF SymtabMade, symbolVars, Shadowed, Indexed

LEMMA SymtabStep == ASSUME TypeInv, SymtabInv, Next PROVE SymtabInv'
<1>. SUFFICES ASSUME stage' \in SymtabDone, SymtabSections \subseteq required' PROVE SymtabMade'
  BY DEF SymtabInv
<1>1. CASE BuildFinalSymtabData
  <2>1. required' = required
    BY <1>1 DEF BuildFinalSymtabData
  <2>. QED BY <1>1, <2>1, TypeStep, SymtabBegins
<1>2. CASE ~BuildFinalSymtabData
  <2>1. Quiet /\ required' = required /\ stage \in SymtabDone
    BY <1>2, QuietStep DEF Quiet
  <2>2. SymtabMade
    BY <2>1 DEF SymtabInv
  <2>. QED BY <1>2, <2>1, <2>2, QuietStep, SymtabPatched, SymtabKept
<1>. QED BY <1>1, <1>2

LEMMA SymtabInit == Init => SymtabInv
<1>1. Init => stage = "translate"
  BY Zenon DEF Init
<1>. QED BY <1>1 DEF SymtabInv, SymtabDone, Laid

LEMMA SymtabUnchanged == ASSUME SymtabInv, UNCHANGED vars PROVE SymtabInv'
<1>1. /\ UNCHANGED symbolVars /\ relocations' = relocations /\ format' = format
      /\ sections' = sections /\ required' = required /\ requiredSections' = requiredSections
      /\ sh_addr' = sh_addr /\ stage' = stage /\ symtab' = symtab
  BY DEF vars, linkVars, sectionVars, tableVars, fileVars
<1>. SUFFICES ASSUME stage \in SymtabDone, SymtabSections \subseteq required PROVE SymtabMade'
  BY <1>1 DEF SymtabInv
<1>2. Quiet
  BY <1>1 DEF Quiet
<1>. QED BY <1>1, <1>2, SymtabKept DEF SymtabInv

LEMMA EntryFound ==
  ASSUME FileBuilt, SymtabMade, stage \in Addresses, NEW sym \in SymbolRecord, Indexed(sym),
         Kept(sym) \/ (sym.section = Undefined /\ sym.offset = 0)
  PROVE  EntryOf(sym)
<1>. DEFINE place == sym.index + 1
            entry == symtab[place]
            other == SymtabOrder[place]
<1>1. /\ place \in DOMAIN symtab /\ EntryFor(entry, other) /\ Alike(other, sym)
  BY DEF SymtabMade, Indexed
<1>2. SectionIndex(other) = SectionIndex(sym) /\ ValueOf(other) = ValueOf(sym)
  BY <1>1 DEF Alike, SectionIndex, ValueOf, Address
<1>3. entry.name = sym.name /\ entry.binding = sym.binding
  BY <1>1 DEF EntryFor, Alike
<1>4. entry.shndx = SectionIndex(sym) /\ entry.value = ValueOf(sym)
  BY <1>1, <1>2 DEF EntryFor
<1>. HIDE DEF entry, other
<1>5. CASE sym.section = Undefined
  BY <1>1, <1>3, <1>4, <1>5 DEF EntryOf, SectionIndex, ValueOf, Kept, Holding, Relocated, Undefined, entry
<1>6. CASE sym.section # Undefined
  <2>1. sym.section \in required /\ sym.section # NullSection
    BY <1>6 DEF Kept, Holding, Relocated, NullSection
  <2>2. stage \in Collected /\ stage \in Laid /\ TypeInv /\ FirstInv /\ LayInv
    BY DEF Addresses, Collected, Laid, FileBuilt
  <2>3. InSection(getSectionIndex(sym.section), sym.section)
    BY <2>1, <2>2, IndexLeads
  <2>4. InSection(entry.shndx, sym.section)
    BY <1>4, <1>6, <2>3 DEF SectionIndex
  <2>5. AddrOf(sym.section) \in Nat /\ sym.offset \in Nat
    BY <2>2, AddrType DEF TypeInv, SymbolRecord
  <2>6. PICK addr \in Nat : addr = AddrOf(sym.section)
    BY <2>5
  <2>7. Address(sym) = addr + sym.offset
    BY <2>6 DEF Address
  <2>8. ~(addr > 0) => Address(sym) = sym.offset
    BY <2>5, <2>7
  <2>9. ValueOf(sym) = Address(sym)
    BY <1>6, <2>6, <2>8 DEF ValueOf
  <2>10. format = "ko" => Address(sym) = sym.offset
    <3>. SUFFICES ASSUME format = "ko" PROVE ~(addr > 0)
      BY <2>8
    <3>1. /\ requiredSections \in Seq(Names) /\ Listed(requiredSections) = required
          /\ DOMAIN table = DOMAIN requiredSections /\ sh_addr \in [DOMAIN table -> Nat]
      BY <2>2 DEF TypeInv, FileInv, File!TypeOK, File!Sections
    <3>2. /\ Index(requiredSections, sym.section) + 1 \in DOMAIN requiredSections
          /\ \E k \in DOMAIN requiredSections : requiredSections[k] = sym.section
      BY <2>1, <3>1, IndexFacts DEF Listed
    <3>3. AddrOf(sym.section) = sh_addr[Index(requiredSections, sym.section) + 1]
      BY <3>2 DEF AddrOf
    <3>4. \A k \in DOMAIN sh_addr : sh_addr[k] = 0
      BY <2>2 DEF LayInv
    <3>5. DOMAIN sh_addr = DOMAIN requiredSections
      BY <3>1
    <3>. QED BY <2>6, <3>2, <3>3, <3>4, <3>5
  <2>11. entry.value = IF format = "ko" THEN sym.offset ELSE Address(sym)
    BY <1>4, <2>9, <2>10
  <2>. QED BY <1>1, <1>3, <1>6, <2>4, <2>11 DEF EntryOf, entry
<1>. QED BY <1>5, <1>6

LEMMA SymtabFollows == ASSUME FileBuilt, HeldInv, SymtabInv PROVE SymtabCorrect
<1>. SUFFICES ASSUME stage \in Addresses, ".symtab" \in required
              PROVE  /\ \A k \in DOMAIN localSymbols : EntryOf(localSymbols[k])
                     /\ \A k \in DOMAIN dynamicSymbols :
                          ~Shadowed(dynamicSymbols[k]) => EntryOf(dynamicSymbols[k])
  BY FromLater DEF SymtabCorrect, Addresses
<1>1. SymtabSections \subseteq required
  BY DEF FileBuilt, RequiredInv, SymtabSections
<1>2. SymtabMade
  BY <1>1 DEF SymtabInv, SymtabDone, Laid, Addresses
<1>3. localSymbols \in Seq(SymbolRecord) /\ dynamicSymbols \in Seq(SymbolRecord)
  BY DEF FileBuilt, TypeInv, SymbolInv
<1>4. ASSUME NEW k \in DOMAIN localSymbols PROVE EntryOf(localSymbols[k])
  <2>1. localSymbols[k] \in SymbolRecord
    BY <1>3
  <2>2. Indexed(localSymbols[k]) /\ Kept(localSymbols[k])
    BY <1>2 DEF SymtabMade, HeldInv
  <2>. QED BY <1>2, <2>1, <2>2, EntryFound
<1>5. ASSUME NEW k \in DOMAIN dynamicSymbols, ~Shadowed(dynamicSymbols[k]) PROVE EntryOf(dynamicSymbols[k])
  <2>1. dynamicSymbols[k] \in SymbolRecord
    BY <1>3
  <2>2. Indexed(dynamicSymbols[k])
    BY <1>2, <1>5 DEF SymtabMade
  <2>3. Kept(dynamicSymbols[k]) \/ (dynamicSymbols[k].section = Undefined /\ dynamicSymbols[k].offset = 0)
    BY DEF HeldInv
  <2>. QED BY <1>2, <2>1, <2>2, <2>3, EntryFound
<1>. QED BY <1>4, <1>5

-----------------------------------------------------------------------------
(* What .dynsym says of a symbol, once its addresses are patched.           *)
DynsymDone == Addresses \ {"patchdynsym"}
Shown(entry) ==
  LET sym == Find(dynamicSymbols, entry.name)
  IN entry.value = Address(sym) /\ InSection(entry.shndx, sym.section)
DynsymInv == stage \in DynsymDone /\ dynamicLinkEnabled => \A k \in DOMAIN dynsym : Shown(dynsym[k])

LEMMA DynsymBegins ==
  ASSUME FileBuilt, DefinedInv, HeldInv, PatchDynSymAddresses, dynamicLinkEnabled,
         NEW k \in DOMAIN dynsym'
  PROVE  Shown(dynsym[k])'
<1>1. /\ stage = "patchdynsym" /\ UNCHANGED symbolVars /\ requiredSections' = requiredSections
      /\ sh_addr' = sh_addr
  BY DEF PatchDynSymAddresses, Pass, fileVars
<1>2. /\ TypeInv /\ SymbolInv /\ FirstInv /\ TablesMade /\ stage \in Collected
  BY <1>1 DEF FileBuilt, TypeInv, TablesInv, Prepared, Collected, Laid
<1>. DEFINE sym == Find(dynamicSymbols, dynSymEntries[k].name)
<1>3. dynsym' = [j \in DOMAIN dynsym |->
         IF Find(dynamicSymbols, dynSymEntries[j].name).section = Undefined THEN dynsym[j]
         ELSE [dynsym[j] EXCEPT !.value = Address(Find(dynamicSymbols, dynSymEntries[j].name)),
                                !.shndx = getSectionIndex(Find(dynamicSymbols, dynSymEntries[j].name).section)]]
  BY DEF PatchDynSymAddresses
<1>4. /\ k \in DOMAIN dynsym /\ dynsym[k] \in DynsymEntry /\ dynsym[k].name = dynSymEntries[k].name
      /\ k \in DOMAIN dynSymEntries
  BY <1>2, <1>3 DEF TablesMade
<1>5. dynSymEntries[k].name \in NamesIn(dynSymEntries) /\ dynSymEntries[k].name \in NamesIn(dynamicSymbols)
  BY <1>2, <1>4 DEF SymbolInv, NamesIn
<1>6. PICK j \in DOMAIN dynamicSymbols : sym = dynamicSymbols[j] /\ dynamicSymbols[j].name = dynSymEntries[k].name
  BY <1>5, FindFacts
<1>7. sym.section # Undefined /\ sym.section \in Holding /\ sym.section \in required
  BY <1>5, <1>6 DEF DefinedInv, HeldInv, Kept
<1>8. InSection(getSectionIndex(sym.section), sym.section)
  <2>1. sym.section # NullSection
    BY <1>7 DEF Holding, Relocated, NullSection
  <2>. QED BY <1>2, <1>7, <2>1, IndexLeads
<1>9. PICK entry : entry = dynsym'[k]
  OBVIOUS
<1>10. entry = [dynsym[k] EXCEPT !.value = Address(sym), !.shndx = getSectionIndex(sym.section)]
  BY <1>3, <1>4, <1>7, <1>9
<1>11. PICK address, shndx : address = Address(sym) /\ shndx = getSectionIndex(sym.section)
  OBVIOUS
<1>12. entry.name = dynSymEntries[k].name /\ entry.value = address /\ entry.shndx = shndx
  <2>1. \A a, i : LET e == [dynsym[k] EXCEPT !.value = a, !.shndx = i]
                  IN e.name = dynsym[k].name /\ e.value = a /\ e.shndx = i
    BY <1>4 DEF DynsymEntry
  <2>. QED BY <1>4, <1>10, <1>11, <2>1
<1>13. Find(dynamicSymbols, entry.name) = sym
  BY <1>12
<1>14. /\ \A other : Address(other)' = Address(other)
       /\ \A n, name : InSection(n, name)' <=> InSection(n, name)
       /\ dynamicSymbols' = dynamicSymbols
  BY <1>1 DEF Address, AddrOf, InSection, symbolVars
<1>. HIDE DEF sym
<1>15. Shown(entry)
  BY <1>8, <1>11, <1>12, <1>13 DEF Shown
<1>16. Shown(entry)'
  BY <1>14, <1>15 DEF Shown
<1>. QED BY <1>9, <1>16 DEF Shown

LEMMA DynsymStep == ASSUME FileBuilt, DefinedInv, HeldInv, DynsymInv, Next PROVE DynsymInv'
<1>. SUFFICES ASSUME stage' \in DynsymDone, dynamicLinkEnabled' PROVE \A k \in DOMAIN dynsym' : Shown(dynsym[k])'
  BY DEF DynsymInv
<1>1. CASE PatchDynSymAddresses
  <2>1. dynamicLinkEnabled
    BY <1>1 DEF PatchDynSymAddresses, symbolVars
  <2>. QED BY <1>1, <2>1, DynsymBegins
<1>2. CASE ~PatchDynSymAddresses
  <2>1. ~BuildFinalSymtabData /\ stage' \in SymtabDone /\ stage' \in Addresses
    BY DEF BuildFinalSymtabData, Pass, DynsymDone, Addresses, SymtabDone, Laid
  <2>2. UNCHANGED symbolVars /\ requiredSections' = requiredSections /\ sh_addr' = sh_addr
    BY <2>1, QuietStep DEF Quiet, FileBuilt
  <2>3. ASSUME PatchDynamicSection \/ PatchTextRelocations \/ AssembleFinalElf \/ Finish
        PROVE  stage \in DynsymDone /\ dynsym' = dynsym
    BY <2>3 DEF PatchDynamicSection, PatchTextRelocations, AssembleFinalElf, Finish, Pass, DynsymDone,
       Addresses, tableVars, linkVars
  <2>4. ASSUME \/ PrepareDynamic \/ PrepareRelocatable \/ UpdateInitialSectionSizes \/ CollectSections
               \/ AssignSymbolIndices \/ BuildFinalSymtabData \/ BuildRelaDynamic \/ BuildRelaRelocatable
               \/ FinalizeSizes \/ FinalizeLayout \/ LayoutDone \/ SetSectionLinks
               \/ PatchSymbolTableAddresses
        PROVE  stage' \notin DynsymDone
    BY <2>4 DEF PrepareDynamic, PrepareRelocatable, UpdateInitialSectionSizes, CollectSections,
       AssignSymbolIndices, BuildFinalSymtabData, BuildRelaDynamic, BuildRelaRelocatable, FinalizeSizes,
       FinalizeLayout, LayoutDone, SetSectionLinks, PatchSymbolTableAddresses, Pass, DynsymDone, Addresses,
       linkVars
  <2>5. ASSUME Translate PROVE stage' \notin DynsymDone
    BY <2>5 DEF Translate, Translating, TranslateVariable, TranslateModinfo, SkipFunction, StartFunction,
       TranslateReference, FinishFunction, StartAppend, AppendFunction, FinishAppend, CreateThisModule,
       NoInitFunction, CreateVersions, DynsymDone, Addresses
  <2>6. stage \in DynsymDone /\ dynsym' = dynsym
    BY <1>2, <2>3, <2>4, <2>5 DEF Next, Compile
  <2>7. \A entry : Shown(entry) => Shown(entry)'
    BY <2>2 DEF Shown, Address, AddrOf, InSection, symbolVars
  <2>8. \A k \in DOMAIN dynsym : Shown(dynsym[k])
    BY <2>2, <2>6 DEF DynsymInv, symbolVars
  <2>. QED BY <2>6, <2>7, <2>8 DEF Shown
<1>. QED BY <1>1, <1>2

LEMMA DynsymUnchanged == ASSUME DynsymInv, UNCHANGED vars PROVE DynsymInv'
<1>1. /\ UNCHANGED symbolVars /\ requiredSections' = requiredSections /\ sh_addr' = sh_addr
      /\ stage' = stage /\ dynsym' = dynsym
  BY DEF vars, linkVars, tableVars, fileVars
<1>2. \A entry : Shown(entry) => Shown(entry)'
  BY <1>1 DEF Shown, Address, AddrOf, InSection, symbolVars
<1>. QED BY <1>1, <1>2 DEF DynsymInv, symbolVars, Shown

LEMMA DynsymFollows == ASSUME DynsymInv PROVE DynsymCorrect
<1>1. From("patchdynamic") <=> stage \in DynsymDone
  BY FromLater DEF DynsymDone, Addresses
<1>. QED BY <1>1 DEF DynsymInv, DynsymCorrect, Shown

-----------------------------------------------------------------------------
(* What a shared object has exported when the driver is as far as it is.    *)
GlobalVariables == {k \in DOMAIN Items : Items[k].kind = "var" /\ Items[k].binding = "GLOBAL" /\ Reachable(k)}
PublicFunctions == {n \in 1..Appended : Ordered[n].fn.public}
Exports == {Items[k].name : k \in GlobalVariables} \cup {Ordered[n].fn.name : n \in PublicFunctions}
ExportInv == format = "so" => dynamicLinkEnabled /\ NamesIn(dynSymEntries) = Exports

LEMMA ExportInit == Init => ExportInv
<1>. SUFFICES ASSUME Init PROVE ExportInv
  OBVIOUS
<1>1. stage = "translate" /\ item = 1 /\ dynSymEntries = << >> /\ dynamicLinkEnabled = (prog.format = "so")
  BY Zenon DEF Init
<1>2. format = prog.format /\ DOMAIN Items = 1..Len(Items) /\ Len(Items) \in Nat
  BY TypeInit, ProgramsAssumption DEF TypeInv, DriverInv, Items
<1>3. GlobalVariables = {}
  BY <1>1, <1>2 DEF GlobalVariables, Reachable
<1>4. PublicFunctions = {}
  BY <1>1 DEF PublicFunctions, Appended
<1>5. Exports = {} /\ NamesIn(dynSymEntries) = {}
  BY <1>1, <1>3, <1>4 DEF Exports, NamesIn
<1>6. format = "so" => dynamicLinkEnabled
  BY <1>1, <1>2, Zenon
<1>. QED BY <1>5, <1>6 DEF ExportInv

LEMMA GlobalsStep ==
  ASSUME TypeInv, Next
  PROVE  GlobalVariables' = GlobalVariables \cup
           (IF TranslateVariable /\ Item.binding = "GLOBAL" THEN {item} ELSE {})
<1>1. /\ Items' = Items
      /\ (Moves /\ stage = "translate" /\ item \in DOMAIN Items) \/ MovesOn
  BY DriverMoves
<1>2. item \in Nat /\ DOMAIN Items = 1..Len(Items) /\ Len(Items) \in Nat
  BY ProgramsAssumption DEF TypeInv, DriverInv, Reached, Items
<1>3. CASE MovesOn
  <2>1. \A k \in DOMAIN Items : Reachable(k) /\ Reachable(k)'
    BY <1>1, <1>2, <1>3 DEF MovesOn, Reachable
  <2>. QED BY <1>1, <1>3, <2>1 DEF MovesOn, GlobalVariables
<1>4. CASE Moves /\ stage = "translate" /\ item \in DOMAIN Items
  <2>1. stage' = "translate"
    BY <1>4 DEF Moves
  <2>2. \A k \in DOMAIN Items : (Reachable(k) <=> k < item) /\ (Reachable(k)' <=> k < item')
    BY <1>1, <1>4, <2>1 DEF Reachable
  <2>3. CASE TranslateVariable
    <3>1. item' = item + 1 /\ Item.kind = "var"
      BY <2>3 DEF TranslateVariable, Translating
    <3>2. \A k \in DOMAIN Items : k < item' <=> k < item \/ k = item
      BY <1>2, <3>1
    <3>. QED BY <1>1, <1>4, <2>2, <2>3, <3>1, <3>2 DEF GlobalVariables, Item
  <2>4. CASE ~TranslateVariable
    <3>1. item' = item \/ (item' = item + 1 /\ Item.kind # "var")
      BY <1>4, <2>4 DEF Moves
    <3>2. \A k \in DOMAIN Items : Items[k].kind = "var" => (k < item' <=> k < item)
      <4>1. CASE item' = item
        BY <4>1
      <4>2. CASE item' = item + 1 /\ Item.kind # "var"
        <5>1. \A k \in DOMAIN Items : Items[k].kind = "var" => k # item
          BY <4>2 DEF Item
        <5>. QED BY <1>2, <4>2, <5>1
      <4>. QED BY <3>1, <4>1, <4>2
    <3>. QED BY <1>1, <2>2, <2>4, <3>2 DEF GlobalVariables
  <2>. QED BY <2>3, <2>4
<1>. QED BY <1>1, <1>3, <1>4

LEMMA PublicStep ==
  ASSUME TypeInv, Next
  PROVE  {Ordered[n].fn.name : n \in PublicFunctions}' =
           {Ordered[n].fn.name : n \in PublicFunctions}
             \cup (IF AppendFunction /\ Ordered[item].fn.public THEN {Ordered[item].fn.name} ELSE {})
<1>. DEFINE names == {Ordered[n].fn.name : n \in PublicFunctions}
<1>1. DriverInv /\ item \in Nat \ {0}
  BY DEF TypeInv, DriverInv, Reached
<1>2. CASE stage = "translate" /\ stage' = "translate"
  <2>1. PublicFunctions = {} /\ PublicFunctions' = {}
    BY <1>2 DEF PublicFunctions, Appended
  <2>. QED BY <1>2, <2>1 DEF AppendFunction
<1>3. CASE AppendFunction /\ Appended = item - 1 /\ Appended' = item /\ Ordered' = Ordered
  <2>1. 1..Appended' = 1..Appended \cup {item}
    BY <1>1, <1>3
  <2>. QED BY <1>3, <2>1 DEF PublicFunctions
<1>4. CASE ~AppendFunction /\ Appended' = Appended /\ Ordered' = Ordered
  BY <1>4 DEF PublicFunctions
<1>. QED BY <1>1, <1>2, <1>3, <1>4, AppendedStep

LEMMA DefinitionExports ==
  ASSUME SymbolInv, NEW sym \in SymbolRecord, addSymbol(sym)
  PROVE  NamesIn(dynSymEntries') = NamesIn(dynSymEntries) \cup (IF Exported(sym) THEN {sym.name} ELSE {})
<1>1. dynSymEntries \in Seq(DynEntry) /\ NamesOnce(dynSymEntries)
  BY DEF SymbolInv
<1>2. CASE ~Exported(sym) \/ sym.name \in NamesIn(dynSymEntries)
  BY <1>2 DEF addSymbol
<1>3. CASE Exported(sym) /\ sym.name \notin NamesIn(dynSymEntries)
  <2>. DEFINE entry == [name |-> sym.name, type |-> sym.type]
  <2>1. dynSymEntries' = Append(dynSymEntries, entry)
    BY <1>3 DEF addSymbol
  <2>2. entry \in DynEntry /\ entry.name = sym.name
    BY DEF DynEntry, SymbolRecord
  <2>. HIDE DEF entry
  <2>3. NamesIn(Append(dynSymEntries, entry)) = NamesIn(dynSymEntries) \cup {sym.name}
    BY <1>1, <1>3, <2>2, AppendFacts
  <2>. QED BY <1>3, <2>1, <2>3
<1>. QED BY <1>2, <1>3

LEMMA LinkingStays == ASSUME TypeInv, Next, dynamicLinkEnabled PROVE dynamicLinkEnabled'
<1>1. CASE Translate
  BY <1>1 DEF Translate, TranslateVariable, TranslateModinfo, SkipFunction, StartFunction,
     TranslateReference, FinishFunction, StartAppend, AppendFunction, FinishAppend, CreateThisModule,
     NoInitFunction, CreateVersions, symbolVars, requireSymbol, EnableDynamicLinking
<1>2. CASE Compile
  BY <1>2, CompileSymbols
<1>. QED BY <1>1, <1>2 DEF Next

LEMMA ExportStep == ASSUME TypeInv, ExportInv, Next PROVE ExportInv'
<1>1. format' = format /\ Items' = Items /\ SymbolInv /\ DriverInv /\ ModuleInv
  BY DriverMoves DEF TypeInv
<1>. SUFFICES ASSUME format = "so" PROVE NamesIn(dynSymEntries') = Exports'
  BY <1>1, LinkingStays DEF ExportInv
<1>2. dynamicLinkEnabled /\ NamesIn(dynSymEntries) = Exports
  BY DEF ExportInv
<1>3. Exports' = Exports \cup (IF TranslateVariable /\ Item.binding = "GLOBAL" THEN {Item.name} ELSE {})
                         \cup (IF AppendFunction /\ Ordered[item].fn.public THEN {Ordered[item].fn.name} ELSE {})
  BY <1>1, GlobalsStep, PublicStep DEF Exports, Item
<1>4. CASE \E sym \in SymbolRecord : Defines(sym)
  <2>1. PICK sym \in SymbolRecord : Defines(sym)
    BY <1>4
  <2>2. NamesIn(dynSymEntries') =
          NamesIn(dynSymEntries) \cup (IF sym.binding = "GLOBAL" THEN {sym.name} ELSE {})
    <3>1. addSymbol(sym)
      BY <2>1 DEF Defines
    <3>. QED BY <1>1, <1>2, <3>1, DefinitionExports DEF Exported
  <2>3. CASE TranslateVariable /\ sym.name = Item.name /\ sym.binding = Item.binding
    <3>1. ~AppendFunction
      BY <2>3 DEF TranslateVariable, AppendFunction, Translating
    <3>. QED BY <1>2, <1>3, <2>2, <2>3, <3>1
  <2>4. CASE /\ AppendFunction /\ sym.name = Ordered[item].fn.name
             /\ sym.binding = "GLOBAL" <=> Ordered[item].fn.public \/ Ordered[item].fn.role = "main"
    <3>1. ~TranslateVariable
      BY <2>4 DEF TranslateVariable, AppendFunction, Translating
    <3>2. Ordered[item].fn.role # "main"
      <4>1. item \in DOMAIN Ordered
        <5>1. item \in Nat \ {0} /\ item <= Len(fnMap) /\ DOMAIN Ordered = 1..Len(fnMap) /\ Len(fnMap) \in Nat
          BY <1>1, <2>4, AppendedFacts DEF AppendFunction, DriverInv, Reached
        <5>. QED BY <5>1
      <4>2. PICK k \in DOMAIN fnMap : Ordered[item] = fnMap[k]
        BY <1>1, <4>1, OrderedFacts DEF OrderedOnce
      <4>3. ~Skipped(fnMap[k].fn)
        BY <1>1, FunctionFacts
      <4>. QED BY <4>2, <4>3 DEF Skipped
    <3>. QED BY <1>2, <1>3, <2>2, <2>4, <3>1, <3>2
  <2>5. ~CreateThisModule
    BY <1>1 DEF CreateThisModule, ModuleInv
  <2>. QED BY <2>1, <2>3, <2>4, <2>5 DEF Defines
<1>5. CASE \E name \in SymbolNames : AsksFor(name)
  <2>1. Translating("fn") /\ dynSymEntries' = dynSymEntries
    BY <1>5 DEF AsksFor, StartFunction, TranslateReference, requireSymbol
  <2>2. ~TranslateVariable /\ ~AppendFunction
    BY <2>1 DEF TranslateVariable, AppendFunction, Translating
  <2>. QED BY <1>2, <1>3, <2>1, <2>2
<1>6. CASE Renumbers
  BY <1>2, <1>3, <1>6 DEF Renumbers
<1>. QED BY <1>4, <1>5, <1>6, SymbolOperations

LEMMA ExportUnchanged == ASSUME ExportInv, UNCHANGED vars PROVE ExportInv'
<1>1. /\ prog' = prog /\ stage' = stage /\ item' = item /\ fnMap' = fnMap /\ format' = format
      /\ dynSymEntries' = dynSymEntries /\ dynamicLinkEnabled' = dynamicLinkEnabled
  BY DEF vars, linkVars, driverVars, symbolVars, fileVars
<1>2. Items' = Items /\ Ordered' = Ordered /\ Appended' = Appended
  BY <1>1 DEF Items, Ordered, Mains, Others, Appended
<1>3. GlobalVariables' = GlobalVariables /\ PublicFunctions' = PublicFunctions
  BY <1>1, <1>2 DEF GlobalVariables, Reachable, PublicFunctions
<1>. QED BY <1>1, <1>2, <1>3 DEF ExportInv, Exports

LEMMA ExportsFollow == ASSUME FileBuilt, TranslatedInv, ExportInv PROVE ExportsExact
<1>. SUFFICES ASSUME stage \in DynsymDone, format = "so"
              PROVE  {dynsym[k].name : k \in DOMAIN dynsym} = {Items[k].name : k \in {l \in DOMAIN Items : Public(l)}}
  BY FromLater DEF ExportsExact, DynsymDone, Addresses
<1>1. TypeInv /\ DriverInv /\ stage \notin {"translate", "append"} /\ stage \in Prepared
  BY DEF FileBuilt, TypeInv, DynsymDone, Addresses, Prepared, Collected, Laid
<1>2. dynamicLinkEnabled /\ NamesIn(dynSymEntries) = Exports
  BY DEF ExportInv
<1>3. {dynsym[k].name : k \in DOMAIN dynsym} = Exports
  BY <1>1, <1>2 DEF FileBuilt, TablesInv, TablesMade, NamesIn
<1>4. ASSUME NEW k \in DOMAIN Items, Public(k) PROVE Items[k].name \in Exports
  <2>1. CASE Items[k].kind = "fn" /\ Items[k].public /\ k \in Written
    <3>1. PICK n \in 1..Appended : Ordered[n].fn = Items[k]
      BY <1>1, <2>1, WrittenOrdered
    <3>. QED BY <2>1, <3>1 DEF Exports, PublicFunctions
  <2>2. CASE Items[k].kind = "var" /\ Items[k].binding = "GLOBAL"
    BY <1>1, <2>2 DEF Exports, GlobalVariables, Reachable
  <2>. QED BY <1>4, <2>1, <2>2 DEF Public
<1>5. ASSUME NEW k \in GlobalVariables PROVE k \in DOMAIN Items /\ Public(k)
  BY DEF GlobalVariables, Public
<1>6. ASSUME NEW n \in PublicFunctions
      PROVE  \E k \in DOMAIN Items : Public(k) /\ Items[k].name = Ordered[n].fn.name
  <2>1. n \in DOMAIN Ordered /\ Ordered[n].fn.public
    BY <1>1, AppendedFacts DEF PublicFunctions
  <2>2. PICK l \in Written : Ordered[n].fn = Items[l]
    BY <1>1, <2>1, OrderedServed
  <2>. QED BY <2>1, <2>2 DEF Written, Public
<1>. DEFINE shown == {Items[k].name : k \in {l \in DOMAIN Items : Public(l)}}
<1>7. shown \subseteq Exports
  BY <1>4
<1>8. Exports \subseteq shown
  <2>1. \A k \in GlobalVariables : Items[k].name \in shown
    BY <1>5
  <2>2. \A n \in PublicFunctions : Ordered[n].fn.name \in shown
    BY <1>6
  <2>. HIDE DEF shown
  <2>. QED BY <2>1, <2>2 DEF Exports
<1>. HIDE DEF shown
<1>9. shown = Exports
  BY <1>7, <1>8
<1>. QED BY <1>3, <1>9 DEF shown

-----------------------------------------------------------------------------
(* A relocation of a module is in the table of its section, and names its   *)
(* symbol by the index that symbol has for good.                            *)
RelaDone == Laid \cup {"sizes2"}
Handed(reloc) ==
  \E j \in DOMAIN rela[RelaOf(reloc.section)] :
    LET entry == rela[RelaOf(reloc.section)][j]
    IN entry.offset = reloc.offset /\ entry.sym = getAnySymbol(reloc.name).index
RelaInv == stage \in RelaDone /\ format = "ko" => \A k \in DOMAIN relocations : Handed(relocations[k])

LEMMA RelaBegins ==
  ASSUME TypeInv, SizeInv, BuildRelaRelocatable, stage' \in RelaDone, NEW k \in DOMAIN relocations
  PROVE  Handed(relocations[k])'
<1>1. relocations' = relocations /\ UNCHANGED symbolVars /\ rela' = [name \in DOMAIN rela |-> RelaEntries(name)]
  BY DEF BuildRelaRelocatable, Pass, RelaDone, Laid
<1>. DEFINE reloc == relocations[k]
            name == RelaOf(reloc.section)
            here == {other \in {relocations[l] : l \in DOMAIN relocations} : RelaOf(other.section) = name}
            relocs == Only(relocations, here)
<1>2. relocations \in Seq(Relocation) /\ reloc \in Relocation /\ reloc \in here
  BY DEF TypeInv, RelocationInv
<1>3. name \in DOMAIN rela
  BY <1>2, RelaFacts DEF Relocation, SizeInv
<1>4. PICK p : Places(relocs, relocations, Len(relocations), here, p)
  BY <1>2, OnlyPlaces
<1>5. PICK j \in DOMAIN relocs : relocs[j] = reloc
  <2>1. k \in 1..Len(relocations)
    BY <1>2
  <2>. HIDE DEF relocs, here
  <2>. QED BY <1>2, <1>4, <2>1 DEF Places
<1>6. RelaEntries(name) =
        [l \in DOMAIN relocs |->
           [offset |-> relocs[l].offset, sym |-> getAnySymbol(relocs[l].name).index,
            type |-> relocs[l].type, addend |-> relocs[l].addend]]
  BY Zenon DEF RelaEntries
<1>. HIDE DEF relocs, here
<1>7. /\ j \in DOMAIN RelaEntries(name)
      /\ RelaEntries(name)[j].offset = reloc.offset
      /\ RelaEntries(name)[j].sym = getAnySymbol(reloc.name).index
  BY <1>5, <1>6
<1>8. rela'[name] = RelaEntries(name)
  BY <1>1, <1>3
<1>9. \A other : getAnySymbol(other)' = getAnySymbol(other)
  BY <1>1 DEF getAnySymbol, symbolVars
<1>. QED BY <1>1, <1>7, <1>8, <1>9 DEF Handed

LEMMA RelaStep == ASSUME TypeInv, SizeInv, RelaInv, Next PROVE RelaInv'
<1>. SUFFICES ASSUME stage' \in RelaDone, format' = "ko"
              PROVE  \A k \in DOMAIN relocations' : Handed(relocations[k])'
  BY DEF RelaInv
<1>0. format' = format
  BY DriverMoves
<1>1. CASE BuildRelaRelocatable
  <2>1. relocations' = relocations
    BY <1>1 DEF BuildRelaRelocatable, Pass
  <2>. QED BY <1>1, <2>1, RelaBegins
<1>2. CASE ~BuildRelaRelocatable
  <2>1. ~BuildFinalSymtabData /\ stage' \in SymtabDone
    BY DEF BuildFinalSymtabData, Pass, RelaDone, SymtabDone, Laid
  <2>2. UNCHANGED symbolVars /\ relocations' = relocations
    BY <2>1, QuietStep DEF Quiet
  <2>3. ASSUME \/ FinalizeSizes \/ FinalizeLayout \/ LayoutDone \/ SetSectionLinks
               \/ PatchSymbolTableAddresses \/ PatchDynSymAddresses \/ PatchDynamicSection
               \/ PatchTextRelocations \/ AssembleFinalElf \/ Finish
        PROVE  stage \in RelaDone /\ rela' = rela
    BY <2>3 DEF FinalizeSizes, FinalizeLayout, LayoutDone, SetSectionLinks, PatchSymbolTableAddresses,
       PatchDynSymAddresses, PatchDynamicSection, PatchTextRelocations, AssembleFinalElf, Finish, Pass,
       RelaDone, Laid, tableVars, linkVars
  <2>4. ASSUME \/ PrepareDynamic \/ PrepareRelocatable \/ UpdateInitialSectionSizes \/ CollectSections
               \/ AssignSymbolIndices
        PROVE  stage' \notin RelaDone
    BY <2>4 DEF PrepareDynamic, PrepareRelocatable, UpdateInitialSectionSizes, CollectSections,
       AssignSymbolIndices, Pass, RelaDone, Laid
  <2>5. ~BuildRelaDynamic
    BY <1>0 DEF BuildRelaDynamic
  <2>6. ASSUME Translate PROVE stage' \notin RelaDone
    BY <2>6 DEF Translate, Translating, TranslateVariable, TranslateModinfo, SkipFunction, StartFunction,
       TranslateReference, FinishFunction, StartAppend, AppendFunction, FinishAppend, CreateThisModule,
       NoInitFunction, CreateVersions, RelaDone, Laid
  <2>7. stage \in RelaDone /\ rela' = rela
    BY <1>2, <2>1, <2>3, <2>4, <2>5, <2>6 DEF Next, Compile
  <2>8. \A reloc : Handed(reloc) => Handed(reloc)'
    BY <2>2, <2>7 DEF Handed, getAnySymbol, symbolVars
  <2>9. \A k \in DOMAIN relocations : Handed(relocations[k])
    BY <1>0, <2>7 DEF RelaInv
  <2>. QED BY <2>2, <2>8, <2>9 DEF Handed
<1>. QED BY <1>1, <1>2

LEMMA RelaUnchanged == ASSUME RelaInv, UNCHANGED vars PROVE RelaInv'
<1>1. /\ UNCHANGED symbolVars /\ relocations' = relocations /\ rela' = rela /\ format' = format /\ stage' = stage
  BY DEF vars, linkVars, tableVars, fileVars
<1>2. \A reloc : Handed(reloc) => Handed(reloc)'
  BY <1>1 DEF Handed, getAnySymbol, symbolVars
<1>. QED BY <1>1, <1>2 DEF RelaInv, Handed

LEMMA RelaFollows == ASSUME FileBuilt, SymtabInv, RelaInv PROVE RelaNamesSymbol
<1>. SUFFICES ASSUME stage \in RelaDone, format = "ko", NEW k \in DOMAIN relocations
              PROVE  \E j \in DOMAIN rela[RelaOf(relocations[k].section)] :
                       LET entry == rela[RelaOf(relocations[k].section)][j]
                       IN /\ entry.offset = relocations[k].offset
                          /\ entry.sym + 1 \in DOMAIN symtab
                          /\ symtab[entry.sym + 1].name = relocations[k].name
  BY FromLater DEF RelaNamesSymbol, RelaDone
<1>. DEFINE name == relocations[k].name
            sym == getAnySymbol(name)
<1>1. Known(name)
  BY DEF FileBuilt, TypeInv, ServedInv, RelaDone
<1>2. SymtabSections \subseteq required
  BY DEF FileBuilt, RequiredInv
<1>3. SymtabMade
  BY <1>2 DEF SymtabInv, SymtabDone, RelaDone
<1>4. sym.name = name /\ Indexed(sym)
  <2>1. CASE name \in NamesIn(localSymbols)
    <3>1. PICK l \in DOMAIN localSymbols : Find(localSymbols, name) = localSymbols[l] /\ localSymbols[l].name = name
      BY <2>1, FindFacts
    <3>. QED BY <1>3, <2>1, <3>1 DEF getAnySymbol, SymtabMade
  <2>2. CASE name \notin NamesIn(localSymbols)
    <3>1. PICK l \in DOMAIN dynamicSymbols :
            Find(dynamicSymbols, name) = dynamicSymbols[l] /\ dynamicSymbols[l].name = name
      BY <1>1, <2>2, FindFacts DEF Known
    <3>. QED BY <1>3, <2>2, <3>1 DEF getAnySymbol, SymtabMade, Shadowed
  <2>. QED BY <2>1, <2>2
<1>5. sym.index + 1 \in DOMAIN symtab /\ symtab[sym.index + 1].name = name
  BY <1>3, <1>4 DEF SymtabMade, Indexed, EntryFor, Alike
<1>6. Handed(relocations[k])
  BY DEF RelaInv
<1>. QED BY <1>5, <1>6 DEF Handed

(* The invariants of the tables of symbols, with those of the file and of   *)
(* the symbols themselves.                                                  *)
TablesBuilt ==
  FileBuilt /\ ResolveInv /\ HeldInv /\ SymtabInv /\ DynsymInv /\ ExportInv /\ RelaInv

LEMMA TablesBuiltInit == Init => TablesBuilt
<1>1. Init => DynsymInv /\ RelaInv
  <2>1. Init => stage = "translate"
    BY Zenon DEF Init
  <2>. QED BY <2>1 DEF DynsymInv, DynsymDone, Addresses, RelaInv, RelaDone, Laid
<1>. QED BY <1>1, BuiltInit, ResolveInit, HeldInit, SymtabInit, ExportInit DEF TablesBuilt

LEMMA TablesBuiltStep == ASSUME TablesBuilt, Next PROVE TablesBuilt'
<1>1. TypeInv /\ SizeInv /\ DefinedInv
  BY DEF TablesBuilt, FileBuilt, ResolveInv
<1>. QED BY <1>1, BuiltStep, ResolveStep, HeldStep, SymtabStep, DynsymStep, ExportStep, RelaStep
         DEF TablesBuilt

LEMMA TablesBuiltUnchanged == ASSUME TablesBuilt, UNCHANGED vars PROVE TablesBuilt'
<1>1. HeldInv'
  BY DEF TablesBuilt, HeldInv, Kept, vars, linkVars, sectionVars, symbolVars
<1>. QED BY <1>1, BuiltUnchanged, ResolveUnchanged, SymtabUnchanged, DynsymUnchanged, ExportUnchanged,
         RelaUnchanged DEF TablesBuilt

(* Whatever is compiled: the kernel finds at the index of every relocation  *)
(* of a module the symbol of that name, and the loader finds every exported *)
(* name along its chain of the hash table, however the names collide.       *)
THEOREM NamesAreFound == Spec => []NamesFound
<1>1. TablesBuilt /\ [Next]_vars => TablesBuilt'
  BY TablesBuiltStep, TablesBuiltUnchanged
<1>2. TablesBuilt => NamesFound
  BY RelaFollows, HashLeads DEF TablesBuilt, NamesFound
<1>. QED BY TablesBuiltInit, <1>1, <1>2, PTL DEF Spec

(* Whatever is compiled: .symtab and .dynsym give every symbol its section  *)
(* and its final address, although three loops and two numberings of the    *)
(* symbols have to agree on them, and a shared object exports its public    *)
(* functions and global variables and nothing else.                         *)
THEOREM SymbolsStayCorrect == Spec => []SymbolsCorrect
<1>1. TablesBuilt /\ [Next]_vars => TablesBuilt'
  BY TablesBuiltStep, TablesBuiltUnchanged
<1>2. TablesBuilt => SymbolsCorrect
  BY SymtabFollows, DynsymFollows, ExportsFollow DEF TablesBuilt, SymbolsCorrect, ResolveInv
<1>. QED BY TablesBuiltInit, <1>1, <1>2, PTL DEF Spec
=============================================================================
