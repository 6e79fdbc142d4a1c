------------------------------- MODULE Linker -------------------------------
(***************************************************************************)
(* The hardware compiler (hwc/main.cts) with its linker strategies         *)
(* (hwc/linker-strategy.cts), driven by one of the two x86-64 drivers      *)
(* (driver.js, raptor/driver.cts).                                         *)
(*                                                                         *)
(* A driver goes through the declarations of a program, asking for symbols *)
(* and adding variables as it meets them; only then does it append the     *)
(* code of all functions.  compile() runs its passes over what was         *)
(* collected.  Each pass repeats some order or some index an earlier pass  *)
(* has chosen, and the file is right only if they all agree.               *)
(*                                                                         *)
(* The layout of the sections and the writing of the file are those of     *)
(* ElfLayout.  Contents of sections are modelled as tables, code as a      *)
(* length, names as tokens of a fixed length.                              *)
(***************************************************************************)
EXTENDS Integers, Sequences, FiniteSets, Lists

CONSTANTS
  Programs,   \* the programs that may be compiled
  Hash        \* elfHash, as a function of the names of symbols

VARIABLES
  prog,       \* the program: target format, driver and declarations
  stage,      \* where the driver or compile() stands
  item,       \* the declaration, later the function, the driver has reached
  refs,       \* references translated in it, plus one; 0: not begun
  body,       \* relocations of the function under translation
  fnMap,      \* functions translated so far, with their relocations
  sections,   \* names of this.sections, in order
  required,   \* sectionsRequired
  hdr,        \* name -> length of data, sh_size, sh_link, sh_info
  dynamicLinkEnabled,
  localSymbols, dynamicSymbols, dynSymEntries,
  relocations,
  requiredSections,
  symtab, dynsym, hash, dynamic,   \* what the tables of these names hold
  rela,       \* name of a .rela section -> its entries
  textFields  \* fields of .text that were patched
VARIABLES     \* those of ElfLayout
  format, table, phase, sh_addr, sh_offset, cursor, placed, curOffset, curVAddr,
  rxEndOffset, rxEndVAddr, phdrs, shoff, at, filePos

driverVars == <<prog, item, refs, body, fnMap>>
sectionVars == <<sections, required, hdr>>
symbolVars == <<dynamicLinkEnabled, localSymbols, dynamicSymbols, dynSymEntries>>
tableVars == <<symtab, dynsym, hash, dynamic, rela, textFields>>
linkVars == <<driverVars, stage, sectionVars, symbolVars, relocations, requiredSections, tableVars>>
fileVars == <<format, table, phase, sh_addr, sh_offset, cursor, placed, curOffset, curVAddr,
              rxEndOffset, rxEndVAddr, phdrs, shoff, at, filePos>>
vars == <<linkVars, fileVars>>

-----------------------------------------------------------------------------
(* The sections of initializeSections, in order, and those added later.     *)
BaseSections ==
  <<"", ".interp", ".text", ".plt", ".rodata", ".dynsym", ".dynstr", ".rela.dyn", ".rela.plt",
    ".data", ".got.plt", ".dynamic", ".hash", ".symtab", ".strtab", ".shstrtab">>
AddedSections ==
  {".bss", ".modinfo", ".init.text", ".exit.text", ".gnu.linkonce.this_module", "__versions"}
RelaOf(name) ==
  CASE name = ".text" -> ".rela.text"
    [] name = ".init.text" -> ".rela.init.text"
    [] name = ".exit.text" -> ".rela.exit.text"
    [] name = ".gnu.linkonce.this_module" -> ".rela.gnu.linkonce.this_module"
Relocated == {".text", ".init.text", ".exit.text", ".gnu.linkonce.this_module"}
Names == {BaseSections[k] : k \in DOMAIN BaseSections} \cup AddedSections
           \cup {RelaOf(name) : name \in Relocated}

NotLoaded == {"", ".symtab", ".strtab", ".shstrtab", ".modinfo"} \cup {RelaOf(name) : name \in Relocated}
(* Mutant: .dynamic is not writable.                                        *)
WritableNoDynamic == {".data", ".got.plt", ".bss", ".gnu.linkonce.this_module"}

Writable == {".data", ".got.plt", ".dynamic", ".bss", ".gnu.linkonce.this_module"}
AlignOf(name) ==
  CASE name = "" -> 0
    [] name \in {".interp", ".dynstr", ".strtab", ".shstrtab", ".modinfo"} -> 1
    [] name \in {".text", ".plt", ".data", ".init.text", ".exit.text"} -> 16
    [] OTHER -> 8

(* sh_type, as far as the relocatable strategy sorts by it.                 *)
TypeRank(name) ==
  CASE name = "" -> 0
    [] name = ".symtab" -> 2
    [] name \in {".strtab", ".shstrtab"} -> 3
    [] name \in {RelaOf(other) : other \in Relocated} -> 4
    [] name = ".bss" -> 8
    [] OTHER -> 1

DynamicSections ==
  {".dynamic", ".dynsym", ".dynstr", ".plt", ".got.plt", ".rela.plt", ".rela.dyn", ".hash"}
SymtabSections == {".symtab", ".strtab"}

NAME == 8      \* bytes of a name in a string table, its terminator included
INTERP == 28   \* bytes of the interpreter's name

Layout == INSTANCE ElfLayout WITH Tables <- {}, SectionNames <- Names

Index(s, name) == IF \E k \in DOMAIN s : s[k] = name
                    THEN (CHOOSE k \in DOMAIN s : s[k] = name) - 1 ELSE 0
NamesIn(s) == {s[k].name : k \in DOMAIN s}
Find(s, name) == s[CHOOSE k \in DOMAIN s : s[k].name = name]

(* Map.set: a known name keeps its position.                                *)
Put(s, sym) ==
  IF sym.name \in NamesIn(s)
    THEN [k \in DOMAIN s |-> IF s[k].name = sym.name THEN sym ELSE s[k]]
    ELSE Append(s, sym)

(* getSectionIndex: the raw list serves until the final one exists.         *)
getSectionIndex(name) ==
  IF requiredSections = << >> THEN Index(sections, name) ELSE Index(requiredSections, name)

getAnySymbol(name) ==
  IF name \in NamesIn(localSymbols) THEN Find(localSymbols, name) ELSE Find(dynamicSymbols, name)
Known(name) == name \in NamesIn(localSymbols) \cup NamesIn(dynamicSymbols)
Symbol(name, section, offset, size, type, binding) ==
  [name |-> name, section |-> section, offset |-> offset, size |-> size, type |-> type,
   binding |-> binding, index |-> -1]
Undefined == "undefined"

WithData(h, name, len) == [h EXCEPT ![name].len = len, ![name].size = len]
Grown(h, name, len) == [h EXCEPT ![name].len = @ + len]
(* Mutant: a section is created each time it is asked for.                  *)
EnsureAlways(name) == Append(sections, name)

Ensure(name) == IF \E k \in DOMAIN sections : sections[k] = name THEN sections ELSE Append(sections, name)
Ensured(name) == IF Ensure(name) = sections THEN {} ELSE {name}

Init ==
  /\ prog \in Programs
  /\ LET so == prog.format = "so"
     IN /\ required = {"", ".shstrtab"} \cup (IF so THEN SymtabSections \cup DynamicSections ELSE {})
        /\ dynamicLinkEnabled = so
  /\ stage = "translate"
  /\ item = 1
  /\ refs = 0
  /\ body = << >>
  /\ fnMap = << >>
  /\ sections = BaseSections
  /\ hdr = [name \in Names |-> [len |-> IF name = ".shstrtab" THEN 1 ELSE 0,
                                size |-> 0, link |-> 0, info |-> 0]]
  /\ localSymbols = << >> /\ dynamicSymbols = << >> /\ dynSymEntries = << >>
  /\ relocations = << >>
  /\ requiredSections = << >>
  /\ symtab = << >> /\ dynsym = << >> /\ dynamic = << >>
  /\ hash = [buckets |-> << >>, chains |-> << >>]
  /\ rela = [name \in {RelaOf(other) : other \in Relocated} |-> << >>]
  /\ textFields = {}
  /\ Layout!Idle(prog.format, << >>)

-----------------------------------------------------------------------------
(* What the drivers call while they go through the program.                 *)
EnableDynamicLinking ==
  /\ dynamicLinkEnabled' = TRUE
  /\ IF dynamicLinkEnabled
       THEN required' = required /\ hdr' = hdr
       ELSE /\ required' = required \cup DynamicSections
                             \cup (IF format = "exec" THEN {".interp"} ELSE {})
            /\ hdr' = IF format = "exec" THEN [hdr EXCEPT ![".interp"].len = INTERP] ELSE hdr

requireSymbol(name) ==
  /\ UNCHANGED <<sections, localSymbols, dynSymEntries>>
  /\ IF Known(name)
       THEN UNCHANGED <<required, hdr, dynamicLinkEnabled, dynamicSymbols>>
       ELSE /\ dynamicSymbols' =
                 Append(dynamicSymbols, Symbol(name, Undefined, 0, 0, "FUNC", "GLOBAL"))
            /\ IF format = "ko" THEN UNCHANGED <<required, hdr, dynamicLinkEnabled>>
                                ELSE EnableDynamicLinking

(* addSymbol: a global symbol goes to .dynsym once dynamic linking is on,   *)
(* every other symbol to .symtab only.                                      *)
(* Mutant: every symbol is exported once dynamic linking is on.             *)
ExportedWhenDynamic(sym) == dynamicLinkEnabled

Exported(sym) == dynamicLinkEnabled /\ sym.binding = "GLOBAL"
SymbolSections(sym) == IF Exported(sym) THEN {} ELSE SymtabSections

addSymbol(sym) ==
  IF ~Exported(sym)
    THEN localSymbols' = Put(localSymbols, sym) /\ UNCHANGED <<dynamicSymbols, dynSymEntries>>
    ELSE /\ localSymbols' = localSymbols
         /\ IF sym.name \notin NamesIn(dynSymEntries)
              THEN /\ dynSymEntries' = Append(dynSymEntries, [name |-> sym.name, type |-> sym.type])
                   /\ dynamicSymbols' = Put(dynamicSymbols, sym)
              ELSE /\ dynSymEntries' = dynSymEntries
                   /\ LET old == Find(dynamicSymbols, sym.name)
                      IN dynamicSymbols' =
                           Put(dynamicSymbols, [sym EXCEPT !.type = old.type, !.index = old.index])

-----------------------------------------------------------------------------
(* The drivers.  A declaration is a record:                                 *)
(*   kind     "var", "modinfo" or "fn"                                      *)
(*   name, section, size                                                    *)
(*   binding  of a variable                                                 *)
(*   bss      whether the variable has no initializer (Raptor only)         *)
(*   public, role ("main", "init", "exit" or "plain") of a function         *)
(*   refs     of a function: the names it refers to, where, and whether it  *)
(*            calls them ("call", "instr" for an explicit call              *)
(*            instruction), takes their address or reads their value        *)
SymbolNames == DOMAIN Hash
ASSUME HashAssumption ==
  "this_module" \in SymbolNames /\ \A name \in SymbolNames : Hash[name] \in Nat

Reference == [name : SymbolNames, at : Nat, use : {"call", "instr", "address", "value"}]
Variable == [kind : {"var"}, name : SymbolNames, section : {".data", ".rodata"}, size : Nat,
             binding : {"LOCAL", "GLOBAL"}, bss : BOOLEAN]
Modinfo == [kind : {"modinfo"}, size : Nat]
Function == [kind : {"fn"}, name : SymbolNames, role : {"main", "init", "exit", "plain"},
             public : BOOLEAN, size : Nat, refs : Seq(Reference)]

(* A name stands for one thing: both drivers refuse a second variable of a  *)
(* name, and fnMap holds one function of each name.  (Programs that give a  *)
(* variable and a function one name, which Raptor mangles apart and the     *)
(* older driver does not notice, are left out.)  main is recognized by its  *)
(* name.  In Raptor what is called by name is a function: the call of a     *)
(* variable, a function pointer, is indirect and refers to no symbol.       *)
OneMeaning(p) ==
  /\ \A k, l \in DOMAIN p.items :
       k # l => \/ "modinfo" \in {p.items[k].kind, p.items[l].kind}
                \/ p.items[k].name # p.items[l].name
  /\ \A k \in DOMAIN p.items :
       p.items[k].kind = "fn" => (p.items[k].role = "main" <=> p.items[k].name = "main")

VariablesNotCalled(p) ==
  p.raptor =>
    \A k, l \in DOMAIN p.items :
      p.items[k].kind = "fn" /\ p.items[l].kind = "var" =>
        \A r \in DOMAIN p.items[k].refs :
          p.items[k].refs[r].use = "call" => p.items[k].refs[r].name # p.items[l].name

ASSUME ProgramsAssumption ==
  \A p \in Programs :
    /\ p \in [format : {"exec", "so", "ko"}, raptor : BOOLEAN,
              items : Seq(Variable \cup Modinfo \cup Function)]
    /\ OneMeaning(p)
    /\ VariablesNotCalled(p)

Items == prog.items
Item == Items[item]
Translating(kind) == stage = "translate" /\ item <= Len(Items) /\ Item.kind = kind

TranslateVariable ==
  LET start == Layout!AlignTo(hdr[Item.section].len, AlignOf(Item.section))
      sym == Symbol(Item.name, Item.section, start, Item.size, "OBJECT", Item.binding)
  IN /\ Translating("var")
     /\ sections' = IF Item.bss THEN Ensure(".bss") ELSE sections
     /\ required' = required \cup (IF Item.bss THEN Ensured(".bss") ELSE {})
                      \cup {Item.section} \cup SymbolSections(sym)
     /\ hdr' = [hdr EXCEPT ![Item.section].len = start + Item.size]
     /\ addSymbol(sym)
     /\ item' = item + 1
     /\ UNCHANGED <<prog, refs, body, fnMap, stage, dynamicLinkEnabled, relocations, requiredSections,
                    tableVars, fileVars>>

(* .modinfo exists in modules only.                                         *)
TranslateModinfo ==
  /\ Translating("modinfo")
  /\ format = "ko"
  /\ sections' = Ensure(".modinfo")
  /\ required' = required \cup {".modinfo"}
  /\ hdr' = Grown(hdr, ".modinfo", Item.size)
  /\ item' = item + 1
  /\ UNCHANGED <<prog, refs, body, fnMap, stage, symbolVars, relocations, requiredSections,
                 tableVars, fileVars>>

(* main is left out of modules and shared objects, __init and __exit of     *)
(* everything but modules.                                                  *)
Skipped(fn) ==
  \/ format # "exec" /\ fn.role = "main"
  \/ format # "ko" /\ fn.role \in {"init", "exit"}

SkipFunction ==
  /\ Translating("fn")
  /\ Skipped(Item)
  /\ item' = item + 1
  /\ UNCHANGED <<prog, refs, body, fnMap, stage, sectionVars, symbolVars, relocations, requiredSections,
                 tableVars, fileVars>>

StartFunction ==
  /\ Translating("fn")
  /\ ~Skipped(Item)
  /\ refs = 0
  /\ refs' = 1
  /\ body' = << >>
  /\ IF format = "so" /\ Item.public THEN requireSymbol(Item.name)
                                     ELSE UNCHANGED <<sectionVars, symbolVars>>
  /\ UNCHANGED <<prog, item, fnMap, stage, relocations, requiredSections, tableVars, fileVars>>

(* Mutant: Raptor does not register its functions beforehand either.        *)
DeclaredInOrder(name) == \E k \in DOMAIN fnMap : fnMap[k].fn.name = name

(* fnMap.has: Raptor registers all functions beforehand, the older driver   *)
(* knows those it has translated.                                           *)
Declared(name) ==
  \/ prog.raptor /\ \E k \in DOMAIN Items : Items[k].kind = "fn" /\ Items[k].name = name
  \/ \E k \in DOMAIN fnMap : fnMap[k].fn.name = name

External(ref) == ref.use \in {"call", "instr"} /\ ~Declared(ref.name)

Type(ref) == IF prog.raptor /\ ref.use = "call" /\ External(ref) THEN "PLT32" ELSE "PC32"
Addend(ref) ==
  CASE Type(ref) = "PLT32" -> -4
    [] ref.use = "address" /\ format # "exec" -> -4
    [] ref.use = "value" /\ prog.raptor -> -4
    [] OTHER -> 0

TranslateReference ==
  LET ref == Item.refs[refs]
  IN /\ Translating("fn")
     /\ refs \in DOMAIN Item.refs
     /\ IF External(ref) THEN requireSymbol(ref.name) ELSE UNCHANGED <<sectionVars, symbolVars>>
     /\ body' = Append(body, [name |-> ref.name, offset |-> ref.at, type |-> Type(ref),
                              addend |-> Addend(ref)])
     /\ refs' = refs + 1
     /\ UNCHANGED <<prog, item, fnMap, stage, relocations, requiredSections, tableVars, fileVars>>

FinishFunction ==
  /\ Translating("fn")
  /\ refs = Len(Item.refs) + 1
  /\ fnMap' = Append(fnMap, [fn |-> Item, relocs |-> body])
  /\ item' = item + 1
  /\ refs' = 0
  /\ body' = << >>
  /\ UNCHANGED <<prog, stage, sectionVars, symbolVars, relocations, requiredSections, tableVars,
                 fileVars>>

(* append_all_functions: main is put in front.                              *)
Mains == {entry \in {fnMap[k] : k \in DOMAIN fnMap} : entry.fn.role = "main"}
Others == {entry \in {fnMap[k] : k \in DOMAIN fnMap} : entry.fn.role # "main"}
(* Mutant: main stays where it was declared.                                *)
OrderedAsDeclared == fnMap

Ordered == Only(fnMap, Mains) \o Only(fnMap, Others)

StartAppend ==
  /\ stage = "translate"
  /\ item > Len(Items)
  /\ stage' = "append"
  /\ item' = 1
  /\ IF format = "ko"
       THEN /\ sections' = sections \o <<".init.text", ".exit.text">>
            /\ required' = required \cup {".init.text", ".exit.text"}
       ELSE UNCHANGED <<sections, required>>
  /\ UNCHANGED <<prog, refs, body, fnMap, hdr, symbolVars, relocations, requiredSections, tableVars,
                 fileVars>>

TargetSection(fn) ==
  CASE fn.role = "init" -> ".init.text" [] fn.role = "exit" -> ".exit.text" [] OTHER -> ".text"

(* addRelocations, then addFunction.                                        *)
AppendFunction ==
  LET entry == Ordered[item]
      fn == entry.fn
      section == TargetSection(fn)
      start == hdr[section].len
      sym == Symbol(fn.name, section, start, fn.size, "FUNC",
                    IF fn.public \/ fn.role = "main" THEN "GLOBAL" ELSE "LOCAL")
  IN /\ stage = "append"
     /\ item <= Len(fnMap)
     /\ relocations' = relocations \o
          [k \in DOMAIN entry.relocs |->
             [name |-> entry.relocs[k].name, section |-> section,
              offset |-> entry.relocs[k].offset + start,
              type |-> entry.relocs[k].type, addend |-> entry.relocs[k].addend]]
     /\ addSymbol(sym)
     /\ required' = required \cup {section} \cup SymbolSections(sym)
     /\ hdr' = Grown(hdr, section, fn.size)
     /\ item' = item + 1
     /\ UNCHANGED <<prog, refs, body, fnMap, stage, sections, dynamicLinkEnabled, requiredSections,
                    tableVars, fileVars>>

FinishAppend ==
  /\ stage = "append"
  /\ item > Len(fnMap)
  /\ stage' = IF format = "ko" THEN "module" ELSE "prepare"
  /\ UNCHANGED <<driverVars, sectionVars, symbolVars, relocations, requiredSections, tableVars,
                 fileVars>>

WithRole(role) == {k \in DOMAIN fnMap : fnMap[k].fn.role = role}
FirstWithRole(role) == fnMap[CHOOSE k \in WithRole(role) : \A l \in WithRole(role) : k <= l].fn
MODULESIZE == 72     \* bytes of struct module
INITFIELD == 8       \* offset of its pointers to the init and exit functions
EXITFIELD == 16
Pointer(field, role) ==
  [name |-> FirstWithRole(role).name, section |-> ".gnu.linkonce.this_module",
   offset |-> field, type |-> "64", addend |-> 0]

(* create_this_module_section; the driver exits if nothing is __init.       *)
CreateThisModule ==
  LET section == ".gnu.linkonce.this_module"
      sym == Symbol("this_module", section, 0, MODULESIZE, "OBJECT", "GLOBAL")
  IN /\ stage = "module"
     /\ WithRole("init") # {}
     /\ stage' = "versions"
     /\ sections' = Ensure(section)
     /\ required' = required \cup {section} \cup SymbolSections(sym)
     /\ hdr' = Grown(hdr, section, MODULESIZE)
     /\ addSymbol(sym)
     /\ relocations' = relocations \o <<Pointer(INITFIELD, "init")>>
          \o (IF WithRole("exit") # {} THEN <<Pointer(EXITFIELD, "exit")>> ELSE << >>)
     /\ UNCHANGED <<driverVars, dynamicLinkEnabled, requiredSections, tableVars, fileVars>>

NoInitFunction ==
  /\ stage = "module"
  /\ WithRole("init") = {}
  /\ stage' = "aborted"
  /\ UNCHANGED <<driverVars, sectionVars, symbolVars, relocations, requiredSections, tableVars,
                 fileVars>>

SymbolsIn(s) == {s[k] : k \in DOMAIN s}

CreateVersions ==
  LET external == Only(dynamicSymbols, {sym \in SymbolsIn(dynamicSymbols) : sym.section = Undefined})
  IN /\ stage = "versions"
     /\ stage' = "prepare"
     /\ IF external = << >>
          THEN UNCHANGED sectionVars
          ELSE /\ sections' = Ensure("__versions")
               /\ required' = required \cup {"__versions"}
               /\ hdr' = Grown(hdr, "__versions", Len(external) * (8 + NAME))
     /\ UNCHANGED <<driverVars, symbolVars, relocations, requiredSections, tableVars, fileVars>>


-----------------------------------------------------------------------------
(* compile(), pass 1.                                                       *)
Pass(from, to) == stage = from /\ stage' = to /\ UNCHANGED <<driverVars, relocations>>

(* The tables of the dynamic symbols.  Only dynamic linking requires their  *)
(* sections.  The links are raw indices, set anew by SetSectionLinks.       *)
NumDynSymbols == Len(dynSymEntries)
NumFunctions == Cardinality({k \in DOMAIN dynSymEntries : dynSymEntries[k].type = "FUNC"})
(* Mutant: DT_PLTGOT is forgotten.                                          *)
DynamicEntryCountNoPltGot == 1 + 1 + 2 + 2 + (IF format = "so" THEN 1 ELSE 0)

DynamicEntryCount == 1 + 1 + 2 + 2 + 1 + (IF format = "so" THEN 1 ELSE 0)

DynIndex(sym) == IF sym.name \in NamesIn(dynSymEntries)
                   THEN CHOOSE k \in DOMAIN dynSymEntries : dynSymEntries[k].name = sym.name
                   ELSE sym.index

(* A bucket holds the symbol last put into it, the chain the one before.    *)
NumBuckets == LET n == IF NumDynSymbols > 0 THEN NumDynSymbols ELSE 1
              IN IF n % 2 = 0 THEN n + 1 ELSE n
Bucket(name) == Hash[name] % NumBuckets
(* Mutant: a bucket keeps its last symbol, the others are not chained.      *)
HashTableUnchained ==
  LET In(b) == {j \in 1..NumDynSymbols : Bucket(dynSymEntries[j].name) = b}
      Last(s) == IF s = {} THEN 0 ELSE CHOOSE j \in s : \A k \in s : k <= j
  IN [buckets |-> [b \in 0..(NumBuckets - 1) |-> Last(In(b))],
      chains |-> [k \in 0..NumDynSymbols |-> 0]]

HashTable ==
  LET Before(k) == {j \in 1..(k - 1) : Bucket(dynSymEntries[j].name) = Bucket(dynSymEntries[k].name)}
      In(b) == {j \in 1..NumDynSymbols : Bucket(dynSymEntries[j].name) = b}
      Last(s) == IF s = {} THEN 0 ELSE CHOOSE j \in s : \A k \in s : k <= j
  IN [buckets |-> [b \in 0..(NumBuckets - 1) |-> Last(In(b))],
      chains |-> [k \in 0..NumDynSymbols |-> IF k = 0 THEN 0 ELSE Last(Before(k))]]

PrepareDynamic ==
  LET link(name) == Index(sections, name)
      so == IF format = "so" THEN NAME ELSE 0
      got == 24 + NumFunctions * 8
  IN /\ format # "ko"
     /\ Pass("prepare", "sizes")
     /\ IF ~dynamicLinkEnabled THEN UNCHANGED <<hdr, dynamicSymbols, dynsym, dynamic, hash>>
        ELSE
        /\ dynsym' = [k \in 1..NumDynSymbols |->
                        [name |-> dynSymEntries[k].name, shndx |-> 0, value |-> 0]]
        /\ dynamicSymbols' = [k \in DOMAIN dynamicSymbols |->
                                [dynamicSymbols[k] EXCEPT !.index = DynIndex(dynamicSymbols[k])]]
        /\ hash' = HashTable
        /\ dynamic' = [k \in 1..DynamicEntryCount |-> [tag |-> "NULL", value |-> 0]]
        /\ hdr' = [hdr EXCEPT
             ![".dynstr"].len = 1 + NumDynSymbols * NAME + so,
             ![".dynsym"] = [len |-> 24 * (NumDynSymbols + 1), size |-> @.size,
                             link |-> link(".dynstr"), info |-> 1],
             ![".plt"].len = 16 + NumFunctions * 16,
             ![".plt"].size = 16 + NumFunctions * 16,
             ![".got.plt"] = [len |-> got, size |-> got, link |-> link(".dynamic"), info |-> @.info],
             ![".dynamic"] = [len |-> 16 * DynamicEntryCount, size |-> 16 * DynamicEntryCount,
                              link |-> link(".dynstr"), info |-> @.info],
             ![".hash"] = [len |-> 4 * (2 + NumBuckets + NumDynSymbols + 1), size |-> @.size,
                           link |-> link(".dynsym"), info |-> @.info]]
     /\ UNCHANGED <<sections, required, dynamicLinkEnabled, localSymbols, dynSymEntries,
                    requiredSections, symtab, rela, textFields, fileVars>>

(* The relocatable strategy makes a .rela section for each section that     *)
(* has relocations, in the order of the relocations.                        *)
RelaSections ==
  LET first(k) == \A j \in 1..(k - 1) : relocations[j].section # relocations[k].section
      new == {k \in DOMAIN relocations : first(k)}
      firsts == Only([k \in DOMAIN relocations |-> k], new)
  IN [n \in DOMAIN firsts |-> RelaOf(relocations[firsts[n]].section)]

PrepareRelocatable ==
  /\ format = "ko"
  /\ Pass("prepare", "sizes")
  /\ sections' = sections \o RelaSections
  /\ required' = required \cup {RelaSections[k] : k \in DOMAIN RelaSections}
  /\ UNCHANGED <<hdr, symbolVars, requiredSections, tableVars, fileVars>>

(* updateInitialSectionSizes, which runs twice.                             *)
Presized == {".plt", ".got.plt"}
(* Mutant: .dynstr is taken for a section whose builder sets its size.      *)
SizesFromDataNoDynStr ==
  [name \in Names |->
     IF name \notin Presized \cup {".dynstr"} /\ hdr[name].len > 0
       THEN [hdr[name] EXCEPT !.size = hdr[name].len] ELSE hdr[name]]

SizesFromData ==
  [name \in Names |->
     IF name \notin Presized /\ hdr[name].len > 0
       THEN [hdr[name] EXCEPT !.size = hdr[name].len] ELSE hdr[name]]

UpdateInitialSectionSizes ==
  /\ Pass("sizes", "collect")
  /\ hdr' = SizesFromData
  /\ UNCHANGED <<sections, required, symbolVars, requiredSections, tableVars, fileVars>>

(* Pass 2: the list of sections, sorted by type in a module.                *)
RequiredSections ==
  LET all == Only(sections, required)
      OfRank(r) == Only(all, {name \in required : TypeRank(name) = r})
  IN IF format = "ko" THEN OfRank(0) \o OfRank(1) \o OfRank(2) \o OfRank(3) \o OfRank(4) \o OfRank(8)
                      ELSE all

CollectSections ==
  /\ Pass("collect", "indices")
  /\ requiredSections' = RequiredSections
  /\ UNCHANGED <<sectionVars, symbolVars, tableVars, fileVars>>

(* The number of entries before the symbols of the program: the undefined   *)
(* symbol and one for each section.                                         *)
NumSectionSymbols == Len(requiredSections)
NumLocals == NumSectionSymbols + Len(localSymbols)

(* Every symbol is counted here, also an undefined one that was shadowed.   *)
AssignSymbolIndices ==
  /\ Pass("indices", "symtab")
  /\ IF ".symtab" \notin required THEN UNCHANGED <<localSymbols, dynamicSymbols, hdr>>
     ELSE /\ localSymbols' = [k \in DOMAIN localSymbols |->
                 [localSymbols[k] EXCEPT !.index = NumSectionSymbols + k - 1]]
          /\ dynamicSymbols' = [k \in DOMAIN dynamicSymbols |->
                 [dynamicSymbols[k] EXCEPT !.index = NumLocals + k - 1]]
          /\ hdr' = [hdr EXCEPT ![".symtab"].info = NumLocals]
  /\ UNCHANGED <<sections, required, dynamicLinkEnabled, dynSymEntries, requiredSections, tableVars,
                 fileVars>>

Shadowed(sym) == sym.name \in NamesIn(localSymbols)
VisibleSymbols == Only(dynamicSymbols, {sym \in SymbolsIn(dynamicSymbols) : ~Shadowed(sym)})
UndefinedSymbol == Symbol("", Undefined, 0, 0, "NOTYPE", "LOCAL")
SectionSymbol(name) == Symbol(name, name, 0, 0, "SECTION", "LOCAL")
SectionSymbols == LET named == Only(sections, required \ {""})
                  IN [k \in DOMAIN named |-> SectionSymbol(named[k])]

(* allSymbols of buildFinalSymtabData.                                      *)
SymtabOrder ==
  <<UndefinedSymbol>> \o SectionSymbols \o localSymbols \o VisibleSymbols

SectionIndex(sym) == IF sym.section = Undefined THEN 0 ELSE getSectionIndex(sym.section)
(* Mutant: the undefined symbol is not counted.                             *)
FinalIndexNoUndefined(sym) == (CHOOSE k \in DOMAIN SymtabOrder : SymtabOrder[k] = sym) - 2

FinalIndex(sym) == (CHOOSE k \in DOMAIN SymtabOrder : SymtabOrder[k] = sym) - 1

BuildFinalSymtabData ==
  /\ Pass("symtab", "rela")
  /\ IF ~(SymtabSections \subseteq required)
       THEN UNCHANGED <<localSymbols, dynamicSymbols, hdr, symtab>>
       ELSE
       /\ symtab' = [k \in DOMAIN SymtabOrder |->
                       [name |-> SymtabOrder[k].name, binding |-> SymtabOrder[k].binding,
                        type |-> SymtabOrder[k].type,
                        shndx |-> SectionIndex(SymtabOrder[k]), value |-> SymtabOrder[k].offset]]
       /\ localSymbols' = [k \in DOMAIN localSymbols |->
               [localSymbols[k] EXCEPT !.index = FinalIndex(localSymbols[k])]]
       /\ dynamicSymbols' = [k \in DOMAIN dynamicSymbols |->
               IF Shadowed(dynamicSymbols[k]) THEN dynamicSymbols[k]
               ELSE [dynamicSymbols[k] EXCEPT !.index = FinalIndex(dynamicSymbols[k])]]
       /\ LET names == {SymtabOrder[k].name : k \in DOMAIN SymtabOrder} \ {""}
              strtab == WithData(hdr, ".strtab", 1 + NAME * Cardinality(names))
          IN hdr' = [WithData(strtab, ".symtab", 24 * Len(SymtabOrder))
                       EXCEPT ![".symtab"].info = NumLocals]
  /\ UNCHANGED <<sections, required, dynamicLinkEnabled, dynSymEntries, requiredSections, dynsym, hash,
                 dynamic, rela, textFields, fileVars>>

(* buildRelaSections of the dynamic strategies throws for every relocation  *)
(* it cannot serve.  A PLT32 relocation names a function no driver defines  *)
(* later (NoJumpSlots), so no entry is ever made.                           *)
Unservable(reloc) ==
  \/ ~Known(reloc.name)
  \/ getAnySymbol(reloc.name).index = -1
  \/ reloc.type = "PLT32" /\ reloc.name \notin NamesIn(dynSymEntries)

BuildRelaDynamic ==
  /\ format # "ko"
  /\ Pass("rela", IF \E k \in DOMAIN relocations : Unservable(relocations[k]) THEN "aborted" ELSE "sizes2")
  /\ UNCHANGED <<sectionVars, symbolVars, requiredSections, tableVars, fileVars>>

(* The relocatable strategy hands each relocation on to the kernel.         *)
RelaEntries(name) ==
  LET here == {reloc \in {relocations[k] : k \in DOMAIN relocations} : RelaOf(reloc.section) = name}
      relocs == Only(relocations, here)
  IN [k \in DOMAIN relocs |->
        [offset |-> relocs[k].offset, sym |-> getAnySymbol(relocs[k].name).index,
         type |-> relocs[k].type, addend |-> relocs[k].addend]]

BuildRelaRelocatable ==
  /\ format = "ko"
  /\ IF \E k \in DOMAIN relocations : ~Known(relocations[k].name)
       THEN Pass("rela", "aborted") /\ UNCHANGED <<hdr, rela>>
       ELSE /\ Pass("rela", "sizes2")
            /\ rela' = [name \in DOMAIN rela |-> RelaEntries(name)]
            /\ hdr' = [name \in Names |->
                 IF name \in DOMAIN rela /\ RelaEntries(name) # << >>
                   THEN [hdr[name] EXCEPT !.len = 24 * Len(RelaEntries(name)),
                                          !.size = 24 * Len(RelaEntries(name))]
                   ELSE hdr[name]]
  /\ UNCHANGED <<sections, required, symbolVars, requiredSections, symtab, dynsym, hash, dynamic,
                 textFields, fileVars>>

(* The sizes again, then .shstrtab, which names the sections themselves.    *)
FinalizeSizes ==
  /\ Pass("sizes2", "layout")
  /\ hdr' = WithData(SizesFromData, ".shstrtab", 1 + NAME * (Len(requiredSections) - 1))
  /\ table' = [k \in DOMAIN requiredSections |->
       LET name == requiredSections[k]
       IN [name |-> name, alloc |-> name \notin NotLoaded, write |-> name \in Writable,
           nobits |-> name = ".bss", align |-> AlignOf(name), size |-> hdr'[name].size]]
  /\ sh_addr' = [k \in DOMAIN requiredSections |-> 0]
  /\ sh_offset' = [k \in DOMAIN requiredSections |-> 0]
  /\ at' = [k \in DOMAIN requiredSections |-> 0]
  /\ UNCHANGED <<sections, required, symbolVars, requiredSections, tableVars, format, phase, cursor, placed,
                 curOffset, curVAddr, rxEndOffset, rxEndVAddr, phdrs, shoff, filePos>>

FinalizeLayout ==
  /\ stage = "layout"
  /\ Layout!LayoutStep
  /\ UNCHANGED linkVars

LayoutDone ==
  /\ Pass("layout", "links")
  /\ phase = "laidout"
  /\ UNCHANGED <<sectionVars, symbolVars, requiredSections, tableVars, fileVars>>


-----------------------------------------------------------------------------
(* Pass 3: links between the headers, final addresses.                      *)
AddrOf(name) == IF \E k \in DOMAIN requiredSections : requiredSections[k] = name
                  THEN sh_addr[Index(requiredSections, name) + 1] ELSE 0
Address(sym) == AddrOf(sym.section) + sym.offset

IndexIfRequired(name) == IF name \in required THEN getSectionIndex(name) ELSE 0
OrOld(new, old) == IF new > 0 THEN new ELSE old

(* The links of one section.                                                *)
Linked(name) ==
  LET dynSym == IndexIfRequired(".dynsym")
      dynStr == IndexIfRequired(".dynstr")
      h == hdr[name]
      Link(index) == [h EXCEPT !.link = OrOld(index, @)]
      relocated == {other \in Relocated : RelaOf(other) = name}
  IN CASE name = ".symtab" -> Link(IndexIfRequired(".strtab"))
       [] name = ".dynsym" /\ name \in required /\ dynStr > 0 -> [h EXCEPT !.link = dynStr, !.info = 1]
       [] name = ".hash" /\ name \in required -> Link(dynSym)
       [] name = ".dynamic" /\ name \in required -> Link(dynStr)
       [] name = ".rela.dyn" /\ name \in required -> Link(dynSym)
       [] name = ".rela.plt" /\ name \in required ->
            [Link(dynSym) EXCEPT !.info = OrOld(IndexIfRequired(".got.plt"), @)]
       [] relocated # {} /\ name \in required ->
            [Link(IndexIfRequired(".symtab")) EXCEPT
               !.info = OrOld(IndexIfRequired(CHOOSE other \in relocated : TRUE), @)]
       [] OTHER -> h

(* Mutant: the links are those of pass 1.                                   *)
SetSectionLinksNone ==
  /\ Pass("links", "patchsymtab")
  /\ UNCHANGED <<sectionVars, symbolVars, requiredSections, tableVars, fileVars>>

SetSectionLinks ==
  /\ Pass("links", "patchsymtab")
  /\ hdr' = [name \in Names |-> Linked(name)]
  /\ UNCHANGED <<sections, required, symbolVars, requiredSections, tableVars, fileVars>>

(* allSymbols of patchSymbolTableAddresses: built once more, it must be the *)
(* order of buildFinalSymtabData.                                           *)
(* Mutant: the shadowed symbols are not left out.                           *)
PatchOrderWithShadowed ==
  <<UndefinedSymbol>> \o SectionSymbols \o localSymbols \o dynamicSymbols

PatchOrder ==
  <<UndefinedSymbol>> \o SectionSymbols \o localSymbols \o VisibleSymbols

PatchSymbolTableAddresses ==
  /\ Pass("patchsymtab", "patchdynsym")
  /\ symtab' = [k \in DOMAIN symtab |->
       IF k \in DOMAIN PatchOrder /\ PatchOrder[k].section # Undefined
            /\ AddrOf(PatchOrder[k].section) > 0
         THEN [symtab[k] EXCEPT !.value = Address(PatchOrder[k])] ELSE symtab[k]]
  /\ UNCHANGED <<sectionVars, symbolVars, requiredSections, dynsym, hash, dynamic, rela, textFields,
                 fileVars>>

(* Mutant: entries are found by the index of the symbol, which by then is   *)
(* its index in .symtab.                                                    *)
PatchDynSymAddressesByIndex ==
  /\ Pass("patchdynsym", "patchdynamic")
  /\ dynsym' = [k \in DOMAIN dynsym |->
       LET here == {j \in DOMAIN dynamicSymbols : dynamicSymbols[j].index = k}
           sym == dynamicSymbols[CHOOSE j \in here : TRUE]
       IN IF here = {} \/ sym.section = Undefined THEN dynsym[k]
          ELSE [dynsym[k] EXCEPT !.value = Address(sym), !.shndx = getSectionIndex(sym.section)]]
  /\ UNCHANGED <<sectionVars, symbolVars, requiredSections, symtab, hash, dynamic, rela, textFields,
                 fileVars>>

PatchDynSymAddresses ==
  /\ Pass("patchdynsym", "patchdynamic")
  /\ dynsym' = [k \in DOMAIN dynsym |->
       LET sym == Find(dynamicSymbols, dynSymEntries[k].name)
       IN IF sym.section = Undefined THEN dynsym[k]
          ELSE [dynsym[k] EXCEPT !.value = Address(sym), !.shndx = getSectionIndex(sym.section)]]
  /\ UNCHANGED <<sectionVars, symbolVars, requiredSections, symtab, hash, dynamic, rela, textFields,
                 fileVars>>

(* Entries are written while they fit, the others are logged and dropped.   *)
Tag(tag, value) == [tag |-> tag, value |-> value]
DynamicEntries ==
  LET rel(name, tags) == IF name \in required /\ hdr[name].size > 0 THEN tags ELSE << >>
  IN <<Tag("HASH", AddrOf(".hash")), Tag("STRTAB", AddrOf(".dynstr")),
       Tag("STRSZ", hdr[".dynstr"].size), Tag("SYMTAB", AddrOf(".dynsym")), Tag("SYMENT", 24)>>
     \o rel(".rela.dyn", <<Tag("RELA", AddrOf(".rela.dyn")), Tag("RELASZ", hdr[".rela.dyn"].size),
                           Tag("RELAENT", 24)>>)
     \o rel(".rela.plt", <<Tag("PLTRELSZ", hdr[".rela.plt"].size), Tag("PLTREL", 7),
                           Tag("JMPREL", AddrOf(".rela.plt"))>>)
     \o rel(".got.plt", <<Tag("PLTGOT", AddrOf(".got.plt"))>>)
     \o (IF format = "so" THEN <<Tag("SONAME", 1 + NAME * NumDynSymbols)>> ELSE << >>)
     \o <<Tag("NULL", 0)>>

PatchDynamicSection ==
  /\ Pass("patchdynamic", "patchtext")
  /\ dynamic' = IF format = "ko" \/ ~dynamicLinkEnabled THEN dynamic
                ELSE [k \in DOMAIN dynamic |->
                        IF k \in DOMAIN DynamicEntries THEN DynamicEntries[k] ELSE dynamic[k]]
  /\ UNCHANGED <<sectionVars, symbolVars, requiredSections, symtab, dynsym, hash, rela, textFields,
                 fileVars>>

(* patchTextRelocations; nothing of .plt is filled in without a JUMP_SLOT.  *)
(* Mutant: the next instruction is not accounted for.                       *)
PatchAddrAfterField(reloc) == AddrOf(".text") + reloc.offset + 4

PatchAddr(reloc) == AddrOf(".text") + reloc.offset
Field(reloc) ==
  [offset |-> reloc.offset,
   value |-> Address(getAnySymbol(reloc.name)) - (PatchAddr(reloc) + 4) + reloc.addend]
TextRelocations == {k \in DOMAIN relocations : relocations[k].section = ".text"}

(* Mutants: a call of an undefined symbol is left to the program; or the    *)
(* pass waits for it to be defined.                                         *)
PatchTextRelocationsLenient ==
  IF format = "ko" \/ ".text" \notin required
    THEN Pass("patchtext", "assemble")
         /\ UNCHANGED <<sectionVars, symbolVars, requiredSections, tableVars, fileVars>>
    ELSE /\ Pass("patchtext", "assemble")
         /\ textFields' = {Field(relocations[k]) : k \in TextRelocations}
         /\ UNCHANGED <<sectionVars, symbolVars, requiredSections, symtab, dynsym, hash, dynamic, rela,
                        fileVars>>

PatchTextRelocationsWaiting ==
  /\ Pass("patchtext", "assemble")
  /\ \A k \in TextRelocations : getAnySymbol(relocations[k].name).section # Undefined
  /\ textFields' = IF format = "ko" THEN textFields
                                     ELSE {Field(relocations[k]) : k \in TextRelocations}
  /\ UNCHANGED <<sectionVars, symbolVars, requiredSections, symtab, dynsym, hash, dynamic, rela, fileVars>>

PatchTextRelocations ==
  LET throws == \E k \in TextRelocations : getAnySymbol(relocations[k].name).section = Undefined
  IN IF format = "ko" \/ ".text" \notin required
       THEN Pass("patchtext", "assemble")
            /\ UNCHANGED <<sectionVars, symbolVars, requiredSections, tableVars, fileVars>>
       ELSE /\ Pass("patchtext", IF throws THEN "aborted" ELSE "assemble")
            /\ textFields' = IF throws THEN textFields
                             ELSE {Field(relocations[k]) : k \in TextRelocations}
            /\ UNCHANGED <<sectionVars, symbolVars, requiredSections, symtab, dynsym, hash, dynamic, rela,
                           fileVars>>

(* The entry point finalizeLayout sets last.                                *)
EntryPoint == IF ".text" \in required THEN AddrOf(".text") ELSE Layout!Base

AssembleFinalElf ==
  /\ stage = "assemble"
  /\ Layout!AssemblyStep
  /\ UNCHANGED linkVars

Finish ==
  /\ Pass("assemble", "done")
  /\ phase = "done"
  /\ UNCHANGED <<sectionVars, symbolVars, requiredSections, tableVars, fileVars>>

Translate ==
  \/ TranslateVariable \/ TranslateModinfo
  \/ SkipFunction \/ StartFunction \/ TranslateReference \/ FinishFunction
  \/ StartAppend \/ AppendFunction \/ FinishAppend
  \/ CreateThisModule \/ NoInitFunction \/ CreateVersions

Compile ==
  \/ PrepareDynamic \/ PrepareRelocatable \/ UpdateInitialSectionSizes
  \/ CollectSections \/ AssignSymbolIndices \/ BuildFinalSymtabData
  \/ BuildRelaDynamic \/ BuildRelaRelocatable \/ FinalizeSizes
  \/ FinalizeLayout \/ LayoutDone \/ SetSectionLinks
  \/ PatchSymbolTableAddresses \/ PatchDynSymAddresses \/ PatchDynamicSection
  \/ PatchTextRelocations \/ AssembleFinalElf \/ Finish

Next == Translate \/ Compile

Spec == Init /\ [][Next]_vars
-----------------------------------------------------------------------------
Relocation == [name : SymbolNames, offset : Nat, section : Relocated,
               type : {"PC32", "PLT32", "64"}, addend : Int]
SymbolRecord == [name : SymbolNames, section : Names \cup {Undefined}, offset : Nat, size : Nat,
                 type : {"FUNC", "OBJECT"}, binding : {"LOCAL", "GLOBAL"}, index : Int]
Stages == <<"translate", "append", "module", "versions", "prepare", "sizes", "collect", "indices",
            "symtab", "rela", "sizes2", "layout", "links", "patchsymtab", "patchdynsym",
            "patchdynamic", "patchtext", "assemble", "done">>

(* The pass that leads to this stage is over, and nothing was aborted.      *)
From(first) == \E k, l \in DOMAIN Stages : k <= l /\ Stages[k] = first /\ Stages[l] = stage

TypeOK ==
  /\ prog \in Programs /\ format = prog.format
  /\ stage = "aborted" \/ From("translate")
  /\ item \in Nat /\ refs \in Nat
  /\ sections \in Seq(Names)
  /\ \A k, l \in DOMAIN sections : sections[k] = sections[l] => k = l
  /\ required \subseteq {sections[k] : k \in DOMAIN sections}
  /\ hdr \in [Names -> [len : Nat, size : Nat, link : Nat, info : Nat]]
  /\ dynamicLinkEnabled \in BOOLEAN
  /\ localSymbols \in Seq(SymbolRecord) /\ dynamicSymbols \in Seq(SymbolRecord)
  /\ relocations \in Seq(Relocation)
  /\ requiredSections \in Seq(Names)
  /\ textFields \subseteq [offset : Nat, value : Int]

(* What the programmer wrote, independently of the tables: the names the    *)
(* program defines in this format (in a module also that of the structure   *)
(* the driver adds), and what it refers to.                                 *)
Written == {k \in DOMAIN Items : Items[k].kind = "fn" /\ ~Skipped(Items[k])}
DefinedNames == {Items[k].name : k \in Written}
                  \cup {Items[k].name : k \in {l \in DOMAIN Items : Items[l].kind = "var"}}
                  \cup (IF format = "ko" THEN {"this_module"} ELSE {})
References(k) == {Items[k].refs[r] : r \in DOMAIN Items[k].refs}

(* The kernel resolves what a module calls and nobody declares, wherever    *)
(* else the module refers to it.                                            *)
LeftToKernel(name) ==
  /\ format = "ko"
  /\ \E k \in Written : \E ref \in References(k) : ref.name = name /\ ref.use \in {"call", "instr"}
  /\ ~(prog.raptor /\ \E k \in DOMAIN Items : Items[k].kind = "fn" /\ Items[k].name = name)

Linkable ==
  /\ format = "ko" => \E k \in Written : Items[k].role = "init"
  /\ \A k \in Written : \A ref \in References(k) : ref.name \in DefinedNames \/ LeftToKernel(ref.name)

(* A file is written exactly for the programs whose references are all      *)
(* defined: an undefined symbol is found in one of three passes, depending  *)
(* on the driver and on which tables the program happens to need, and in    *)
(* none of them may a defined one be refused.                               *)
AbortsIffUnresolved ==
  /\ stage = "aborted" => ~Linkable
  /\ stage = "done" => Linkable

(* A symbol refers to a section by its index in the final list.             *)
InSection(shndx, name) == shndx + 1 \in DOMAIN requiredSections /\ requiredSections[shndx + 1] = name

(* Three passes walk the symbols of .symtab, each with its own loop: the    *)
(* index a symbol is given, the entry built there and the address patched   *)
(* into it later belong together, though a local symbol may shadow a        *)
(* dynamic one that was asked for earlier.                                  *)
EntryOf(sym) ==
  /\ sym.index + 1 \in DOMAIN symtab
  /\ LET entry == symtab[sym.index + 1]
     IN /\ entry.name = sym.name
        /\ entry.binding = sym.binding
        /\ IF sym.section = Undefined THEN entry.shndx = 0 /\ entry.value = 0
           ELSE /\ InSection(entry.shndx, sym.section)
                /\ entry.value = IF format = "ko" THEN sym.offset ELSE Address(sym)

SymtabCorrect ==
  From("patchdynsym") /\ ".symtab" \in required =>
    /\ \A k \in DOMAIN localSymbols : EntryOf(localSymbols[k])
    /\ \A k \in DOMAIN dynamicSymbols : ~Shadowed(dynamicSymbols[k]) => EntryOf(dynamicSymbols[k])

(* The relocations of a module name the symbols the code refers to: each    *)
(* entry is for a reference of the function around it or for a pointer of   *)
(* struct module, and the kernel finds that very name at r_sym.             *)
RelaNamesSymbol ==
  From("sizes2") /\ format = "ko" =>
    \A k \in DOMAIN relocations :
      \E j \in DOMAIN rela[RelaOf(relocations[k].section)] :
        LET entry == rela[RelaOf(relocations[k].section)][j]
        IN /\ entry.offset = relocations[k].offset
           /\ entry.sym + 1 \in DOMAIN symtab
           /\ symtab[entry.sym + 1].name = relocations[k].name

(* The lookup of the dynamic loader: from the bucket along the chain, until *)
(* the entry with the name is found or the chain ends with 0.               *)
Leads(path, n, name) ==
  /\ path[1] = hash.buckets[Hash[name] % Cardinality(DOMAIN hash.buckets)]
  /\ \A m \in 1..(n - 1) : path[m + 1] = hash.chains[path[m]]

(* .hash is built before the addresses are known and from the same list as  *)
(* .dynsym: the loader reaches every exported name, whatever collides.      *)
HashFinds ==
  From("sizes") /\ dynamicLinkEnabled =>
    \A k \in DOMAIN dynsym : \E n \in DOMAIN dynsym : \E path \in [1..n -> DOMAIN dynsym] :
      Leads(path, n, dynsym[k].name) /\ path[n] = k

(* .dynsym tells the loader where an exported symbol is, in the section     *)
(* that really holds it, while the symbols themselves have meanwhile been   *)
(* renumbered for .symtab.                                                  *)
DynsymCorrect ==
  From("patchdynamic") /\ dynamicLinkEnabled =>
    \A k \in DOMAIN dynsym :
      LET sym == Find(dynamicSymbols, dynsym[k].name)
      IN dynsym[k].value = Address(sym) /\ InSection(dynsym[k].shndx, sym.section)

(* A shared object exports its public functions and global variables, and   *)
(* no static function, even one that was called, and so required, before it *)
(* was declared.                                                            *)
Public(k) == \/ Items[k].kind = "fn" /\ Items[k].public /\ k \in Written
             \/ Items[k].kind = "var" /\ Items[k].binding = "GLOBAL"

ExportsExact ==
  From("patchdynamic") /\ format = "so" =>
    {dynsym[k].name : k \in DOMAIN dynsym} = {Items[k].name : k \in {l \in DOMAIN Items : Public(l)}}

(* The room for .dynamic is counted in pass 1 and filled in pass 3 by other *)
(* code: everything fits, the list ends, and its addresses are final.       *)
DynamicTable ==
  From("patchtext") /\ format # "ko" /\ dynamicLinkEnabled =>
    /\ \E k \in DOMAIN dynamic : dynamic[k].tag = "NULL"
    /\ \A name \in {".hash", ".dynstr", ".dynsym", ".got.plt"} :
         \E k \in DOMAIN dynamic :
           /\ dynamic[k].tag = CASE name = ".hash" -> "HASH" [] name = ".dynstr" -> "STRTAB"
                                 [] name = ".dynsym" -> "SYMTAB" [] name = ".got.plt" -> "PLTGOT"
           /\ dynamic[k].value = AddrOf(name) /\ AddrOf(name) > 0

(* The section a header's sh_link, or sh_info, has to lead to, for every    *)
(* link setSectionLinks makes; that of .got.plt is not among them.          *)
Links ==
  {<<".symtab", ".strtab">>, <<".dynsym", ".dynstr">>, <<".hash", ".dynsym">>, <<".dynamic", ".dynstr">>,
   <<".rela.dyn", ".dynsym">>, <<".rela.plt", ".dynsym">>}
    \cup {<<RelaOf(name), ".symtab">> : name \in Relocated}
Infos == {<<".rela.plt", ".got.plt">>} \cup {<<RelaOf(name), name>> : name \in Relocated}

(* Pass 1 links with indices of the raw list of sections.  In the file      *)
(* every link of setSectionLinks leads to its section in the final list;    *)
(* that of .got.plt, which pass 1 sets and no later pass touches, is still  *)
(* the raw index of .dynamic (main.cts:639-644, 663-700), and so leads to   *)
(* another section, or to none, in every file where an earlier section is   *)
(* not required.                                                            *)
LinksFinal ==
  From("patchsymtab") =>
    /\ \A pair \in Links : pair[1] \in required => InSection(hdr[pair[1]].link, pair[2])
    /\ \A pair \in Infos : pair[1] \in required => InSection(hdr[pair[1]].info, pair[2])
    /\ ".got.plt" \in required => hdr[".got.plt"].link = Index(sections, ".dynamic")

(* "setSectionLinks() in Pass 3 will overwrite this with the correct final  *)
(* index" (main.cts:644).  It does not for .got.plt, as the last line of    *)
(* LinksFinal says; this is what the comment promises.                      *)
GotLinkFinal ==
  From("patchsymtab") /\ ".got.plt" \in required => InSection(hdr[".got.plt"].link, ".dynamic")

(* The place of a reference in memory, and where the instruction there      *)
(* leads: the processor adds the field to the address of the next           *)
(* instruction.                                                             *)
Place(fn, ref) == Address(getAnySymbol(fn.name)) + ref.at
Lands(fn, ref) ==
  \E field \in textFields :
    /\ AddrOf(".text") + field.offset = Place(fn, ref)
    /\ Place(fn, ref) + 4 + field.value = Address(getAnySymbol(ref.name))
Patched == From("assemble") /\ format # "ko"
LandsWhere(Checked(_)) ==
  \A k \in DOMAIN fnMap : LET fn == fnMap[k].fn
                          IN \A r \in DOMAIN fn.refs : Checked(fn.refs[r]) => Lands(fn, fn.refs[r])

(* In executables and shared objects every call, and in executables every   *)
(* address that is taken, reaches the function or variable of that name at  *)
(* its final address, across the order of the declarations, the moving of   *)
(* main and the layout; the executable starts at main, wherever main was    *)
(* declared.  Calls of kernel modules, which the kernel patches, and        *)
(* references to values, whose addend is -4, do not land (ReferencesLand).  *)
CallsLand ==
  LET checked(ref) == \/ ref.use \in {"call", "instr"}
                      \/ ref.use = "address" /\ format = "exec"
  IN  /\ Patched => LandsWhere(checked)
      /\ From("links") /\ format = "exec" /\ WithRole("main") # {} =>
           Address(getAnySymbol("main")) = EntryPoint

(* "For PC32 addend is often equal to -4, but the patcher already takes     *)
(* this into account" (driver.js): so no reference at all needs an addend,  *)
(* and each one reaches its symbol.  Nobody does for a module: the kernel   *)
(* stores S + A - P in the field, so that a call goes to S only with -4.    *)
ReferencesLand ==
  LET all(ref) == TRUE
  IN  /\ Patched => LandsWhere(all)
      /\ From("sizes2") /\ format = "ko" =>
           \A name \in DOMAIN rela : \A j \in DOMAIN rela[name] :
             rela[name][j].type = "PC32" => rela[name][j].addend + 4 = 0

(* No size is read before the data it measures is complete.                 *)
SizesMatchData ==
  From("layout") => \A name \in required : hdr[name].size = hdr[name].len

(* What the layout is handed satisfies the assumption under which it is     *)
(* proved right, for every program.                                         *)
LayoutAssumption ==
  From("layout") =>
    /\ table \in Seq(Layout!Section)
    /\ \A k \in DOMAIN table :
         table[k].name = ".dynamic" => table[k].alloc /\ table[k].write /\ table[k].size > 0

(* A PLT32 relocation never has a symbol with a slot in .got.plt: the       *)
(* programs that need one are aborted, so the code that fills .rela.plt and *)
(* the PLT serves no program of these drivers.                              *)
NoJumpSlots ==
  From("rela") =>
    \A k \in DOMAIN relocations :
      relocations[k].type = "PLT32" => relocations[k].name \notin NamesIn(dynSymEntries)

(* What ElfLayout and this module leave out happens to no program.          *)
Assumptions == LayoutAssumption /\ NoJumpSlots

(* What the tables of symbols say is where the symbols are, in .symtab and  *)
(* in .dynsym, whose indices and addresses other passes assign in between;  *)
(* and a shared object shows what it exports and nothing else.              *)
SymbolsCorrect == SymtabCorrect /\ DynsymCorrect /\ ExportsExact

(* Whoever looks a symbol up finds the one that was meant: the kernel by    *)
(* the index of a relocation, the loader by the hash of a name.             *)
NamesFound == RelaNamesSymbol /\ HashFinds

(* What is decided about a section before the data, the addresses or the    *)
(* final list exist still holds in the file: sizes, room, addresses, and    *)
(* links but for the one LinksFinal names.                                  *)
SectionsFinal == TypeOK /\ DynamicTable /\ LinksFinal /\ SizesMatchData /\ Assumptions

(* "all STB_LOCAL symbols come first, their number is in section.info"      *)
(* (buildFinalSymtabData): like GotLinkFinal and ReferencesLand this is     *)
(* what a comment says and not what the code does; README says why.         *)
LocalsFirst ==
  From("rela") /\ ".symtab" \in required =>
    \A k \in DOMAIN symtab : (symtab[k].binding = "LOCAL") <=> (k <= hdr[".symtab"].info)
=============================================================================
