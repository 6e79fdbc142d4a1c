# Verification of the AsmX G3 compiler

TLA+ models of the AsmX G3 compiler and interpreter (`src/`), model-checked with
TLC and, for the layout of the output file, the linker, multiboot runs, stack
frames, the virtual machine, the executor and the context of the semantic
analyzer, proved with TLAPS for every value of the constants.

    tlc -config MCLinker.cfg MCLinker        one of the runs of PROJECT.json
    tlapm ElfLayoutProofs.tla                the proofs (also MultibootProofs, ListProofs, LinkerProofs,
                                             LinkedFileProofs, ExecutorProofs, MemoryProofs, AnalyzerProofs)

Paths below are relative to `src/src/`; `T/` stands for
`backend/targets/x86_64/`.  The `.cjs` files are the compiled form of the
`.cts` files next to them; the models follow the `.cts` sources.

## 1. The system

A run of `asmx` is one Node process.  `kernel.js` parses the arguments and
hands over either to the JIT core (`core.js`: parse, then execute on a virtual
machine) or, with `--release`, to the `Supervisor`, which calls the core of the
target (`T/core.js`) once per job.  That core scans and parses the source, then
runs one of two drivers, `T/driver.js` or the newer `T/raptor/driver.cts`
(behind a module expander and a semantic analyzer).  A driver encodes
instructions with the *hardware machine* (`T/hwm`), collects code, data,
symbols and relocations in the *hardware compiler* (`T/hwc/main.cts`), and calls
its `compile`, which lets a `LinkerStrategy` (`T/hwc/linker-strategy.cts`: executable,
shared object, relocatable object) lay out, patch and write an ELF file.
Optionally a packager wraps the result.

| Component | State | Operations | What is hard | What makes it correct |
|---|---|---|---|---|
| Hardware compiler, linker strategies | section list and map, `sectionsRequired`, local and dynamic symbol maps, `.dynsym` entries, relocations, final section list, program headers | `addVariable`, `addFunction`, `requireSymbol`, `addRelocation`, `ensureSection`; `compile` and its fifteen passes | passes repeat orders and indices chosen by earlier ones; one index field serves two tables; raw and final indices; sizes promised before the contents exist | tables agree with each other; every reference reaches its symbol; a file exactly when everything is defined |
| Layout and assembly | offsets, addresses, two running positions, program headers, file position | `finalizeLayout`, `assembleFinalElf` | alignment of two positions in step; fields written by several loops; count of headers before placing | no overlap in file or memory, loaded where mapped, written where placed |
| Drivers | `fnMap`, variables, offsets of sections | collecting functions, variables, relocations; appending code; the sections of a kernel module | forward references, static functions, `main` moved to the front, displacement fields | exports exact, calls land |
| Kernel, Supervisor | manifest on disk, error count, panic flag | recording, jobs, `--multiclean`, signal and rejection handlers | crash between manifest and output, signals between jobs, failures half way | what was made can be cleaned; a failed job is not hidden |
| Hardware machine, operand parsers | instruction table, output buffer, journal | choose a form, encode ModR/M, SIB, REX, immediates | width and special registers; which of several forms wins | the bytes decode to the operands; a relocation is on its field |
| Raptor code generator: control flow | frame of locals, loop and inspect patches | statements, scopes, jumps | nested scopes, early exits, code that moves after its jumps were noted | slots disjoint, jumps land, the code does what the tree means |
| Raptor code generator: expressions | none but the code made; registers and stack when it runs | operators, calls, addresses, assignments, union values | widths and signs, registers overwritten by calls, alignment of the stack | the value is the one meant, the stack is as before |
| Semantic analyzer, type checker | scopes, current function, struct, loops, templates and instances | declarations, expressions, instantiation | fields overwritten by work nested in the middle of other work | what is saved is restored; names and symbols unique; one instance each |
| Parser, module expander | tokens that can be split and put back, files remembered | recursive descent with trials, expansion of imports | `<`, `>>`, postfix operators, cyclic imports | the tree is the one written; every file once, in order |
| JIT virtual hardware | registers, stack, memory, list of the heap | push, pop, print, arithmetic, moves, allocation | a stack of addresses that do not say what they lead to; a pointer checked before it moves; registers in five arrays | what is pushed can be read and popped |
| JIT executor and members | static fields: environment, mode, directory, files read, labels | one executor per block, file and jump | fields saved and put back by hand, jumps that are calls | programs do what their text says; the fields agree with the stack of executors |
| Packagers, installer, source version control, devices, journals, argument parser, utilities | archives and files of the host | one pass each | mostly I/O | – |

`PROJECT.json` lists the components with their status, the hazards at their
lines and the properties that watch them.

## 2. Plan

1. **Layout** – `Packing` (abstract), `ElfLayout` (loop by loop), proofs. *Done.*
2. **Linking** – `Linker`: drivers' requests and all passes of `compile`, over `ElfLayout`. *Done.*
3. **Multiboot** – manifest, jobs, panics, clean-up, crashes between steps, and proofs. *Done.*
4. **Virtual hardware** – stack, heap, registers of the JIT, against an abstract stack. *Done.* **Executor** – main, labels, jumps, imports. *Done.*
5. **Frames and control flow** of Raptor – local slots, `break`/`continue` patches, against lexical scoping; frames proved. *Done.*
   **Expressions** of Raptor – values in registers and on the stack, arguments, alignment of the stack at calls, run on a model of the processor. *Done.*
6. **Encoder** – table, choice of the form, ModR/M, SIB, REX, against a decoder; the drivers around it. *Done.*
7. **Analyzer** – scopes, current function and struct, template instantiation, types and layout of structs. *Done.*
   **Parser and module expander** – against a grammar that writes what is read. *Done.*
8. **Proofs** – the segments of the layout, the context of `Executor`, the stack, the registers, the heap and the memory of `VirtualMachine`, the types, the calls, the outcome, the section headers and the tables of symbols of `Linker`, the context and the current struct of `Analyzer`. *Done.*
9. `elfHash` on 32-bit integers; the instructions of the parser and of the analyzer; MMX and SSE.

## 3. Modules

### Packing, ElfLayout, ElfLayoutProofs, MCElfLayout

`Packing` says what a layout promises: things get room one after another, apart
from everything that has room, for good.

`ElfLayout` is `finalizeLayout` of each strategy and `assembleFinalElf`.  An
iteration of a `forEach` is an action (`PlaceRx`, `PlaceRw`, `PlaceNonAlloc`,
`PlaceRelocatable`, `WriteSection`), the statements between loops are actions of
their own; `cursor` is the loop index, `curOffset`/`curVAddr` are the running
positions.  `table` is the list of required sections as the layout sees it:
flags, alignment, size.  `at` records where a section's bytes are pushed, so
that what the headers say can be compared with what the file holds.  `alignTo`
masks with `alignment - 1`, which is rounding up for powers of two; alignments
are powers of two in every section that has data.  The branch for a `.dynamic`
section that was not placed (linker-strategy.cts:205-224) is left out: it is
always placed, which is `TablesAssumption` here and is shown of all programs by
the run `linker` (`Assumptions`).

### Lists, ListProofs, Linker, LinkerProofs, LinkedFileProofs, MCLinker

A *program* is a target format, a driver and a list of declarations: variables,
functions with their references, `.modinfo` entries.  `Translate` is the driver:
one action per declaration, reference and appended function, then the sections
of a kernel module.  `Compile` is `compile()`: one action per pass, in order
(`stage`), with the layout and the assembly taken from `ElfLayout` by `INSTANCE`.
Both drivers are modelled; `prog.raptor` chooses where they differ (which calls
use PLT32, which references need a known name, `.bss`).

Abstractions.  Names are tokens of `NAME` bytes, code is a length, an instruction
has its field in its last four bytes.  Contents of tables are sequences of
records (`symtab`, `dynsym`, `dynamic`, `hash`, `rela`), of which `hdr` has the
length in bytes.  `Hash` is any function of the names.  The running offset of a
section kept by a driver is the length of the section.  The list of needed
libraries is empty, as nothing fills it.  Kernel headers are assumed to be in the
cache (an external resource); without them the driver exits before compiling.
The unnamed placeholder at the head of `dynSymEntries`, which every use filters
out, is left out.

`Lists` has the one operation on lists the linker is made of, `Array.filter` (`Only`),
as a recursive function, so that it can be reasoned about.

### Multiboot, MCMultiboot, MultibootProofs

A shell starts `asmx --multiboot` and `asmx --multiclean` processes in one
directory, one at a time.  `pc` is where the process stands: `startup` is
`__asmx_startup_main_fn`, `record` and `saving` are
`__asmx_record_multiboot_artifacts`, `boot` to `compile` are the supervisor's
`run`, `runway_multiboot` and `_execute_compilation_cycle`, `multiclean` and
`clean` are `build_multiclean`, `rejected` and `drain` are the end of a process
whose main promise was rejected or fulfilled.  `disk` and `manifest` survive a
process; `errors` is `GVE.COUNT_SYSERR`.  `made`, `unsaved` and `kept` are
history: what the last run wrote, whether it failed to save its manifest, and
what a clean-up could not remove; the last two are the exceptions `CleanupPossible` names.

What a step is follows Node's scheduling.  `build_multiclean`, the manifest and
a compilation use synchronous calls, so a signal handler cannot run inside
them; a signal is seen where the supervisor awaits `fs.promises` (`access`) or
when the main function is over (`drain`).  A crash may come between any two
steps, also between the truncation of the manifest and its writing (`Torn`).
Nobody awaits the main promise, so an exception in a job reaches the
`unhandledRejection` handler, which counts it; unless the count panics, the
process then ends with status 0.  The `.catch` at kernel.js:979 is never
reached, because the function it is called on handles its own errors.
`process.exit` does not return, so the guard `IS_PANICKING` never
decides anything and is left out.  A compilation is one step with four
outcomes; how it gets there is the subject of `Linker`.

### Frame, MemoryProofs

`Frame` is pass 1 of Raptor, `pre_scan_local_frame`, from the moment the scan has
found the declarations: `PushVar` is `push_var` and its copy for arrays (a scalar
is one element), `CloseFrame` rounds the frame up.  `offset` and `slots` are the
variables of the source; a slot is kept by the distance of its far end from the
base pointer.  The declarations are any list here, as the theorems want it; `Raptor` runs it
with the list its scan of a function finds.

### Tree, Structured, Raptor, MCRaptor

`Tree` is the syntax tree of a function, with what the analyzer accepts: nodes are
paths, declarations are visible to what follows them in their block.
`Structured` is what a function means: control is at a node, each declaration has a
place of its own while it is in scope, a jump goes to the loop it names.

`Raptor` is what the compiler makes of it.  `Analyze` is the analyzer's verdict;
`ScanFrame` walks through `Frame` (by `INSTANCE`) with the declarations in the
order of the scan; `Generate` is `compile_function_body_with_frame` in one step,
written as the recursion over statements it is (`Compile`, with one operator per
case: `CompileIf`, `CompileWhile`, `AddCase`, ...): buffers are appended with `Then`,
which moves the patches and relocations of the second part; `Write` puts a
displacement into its field.  The rest is a machine that runs the
buffer: conditions, tags and stored values are any.  The refinement
(`Structured`) maps the instruction pointer to the next node with an effect
(`Landing` follows jumps) and the bytes of a slot to the value of the
declarations that own it.

Abstractions.  What an expression computes is not followed: an assignment stores
some value, a condition is taken or not, and their code is one cell, as is
every instruction without a displacement; jumps and calls have their real length,
because displacements and offsets are what the module is about.  The
generated code is one step, as nothing else runs while it is made.  An
`ExpressionException` (of the submodule `llvm.js`, outside `src/`) is taken to end the
compilation.  The label of a loop is the `LabelStatement` around it; the parser has no
labelled blocks.  An array is declared and has a slot, its elements are not accessed.  The
default case of an `inspect` binds nothing: the analyzer takes bindings from the arguments of a
pattern (`semantic_analyzer.cts:2146-2190`), and the default's is the name `_`.  Names without a
declaration, the entry of `main`, and results in memory are not modelled.

### VirtualStack, Registers, VirtualMachine, MemoryProofs, MCVirtualMachine

`VirtualMachine` is `execution/hardware/hardware.js`: one action per instruction form
that changes the stack, the memory, the list of the heap or a register (`DoPush`,
`DoPop`, `DoSystem`, `DoMath`, `DoMovReg`, `DoMalloc`, ...).  A push lays its value out in the
memory and puts the *address* on the stack; nothing on the stack says what lies there,
and a print guesses it from the zero cells around it.  `Registers` is one register as
the typed arrays it is kept in, all updated by one setter; `a | b` is written bit by bit as a
recursive function (`OrBits`).  `VirtualStack` is what a program may expect: a bounded
stack, which one pop too many breaks for good.

`pushed`, `poked`, `live` and `clean` are history: what each entry stands for, the cells
written through a pointer, the blocks in use, and whether the program has kept to the
rules of `malloc` and `free`.  Bytes have two bits (`Byte = 4`), so a word wraps at 16,
below the 20 cells of the memory, and truncations happen in programs of five
instructions.  Comparisons belong to `Executor`; vectors are left out.

### Executor, ExecutorProofs, MCExecutor

`Executor` is the flow of control of the interpreter: `core.js` and the members in
`execution/members`.  `frames` is the stack of executors, one per file, `main` and jump; each
keeps what it must put back (`saved`).  `env`, `mode`, `hasMain`, `dir` and `files` are the
static fields of `Runtime` and `Router`; `labels` and `spent` the labels and the nodes whose
`id` has been deleted.  An executor takes one node per step, and one action stands for each
kind of node; a failed check ends the process (`refused`), an exception of JavaScript too
(`crashed`).  `Meaning`, in `MCExecutor`, is what a program means, as a function of its text.

### Tokens to trees: Parser, ModuleExpander, Grammar, MCParser

`Parser` is Raptor's recursive descent parser, method by method, as operators on a record: tokens,
position, open generic brackets, access of the next field, whether it still runs.  A trial
that fails goes back to the record it started from; one that succeeds has split `>>` in the
tokens, as the code does in place.  `ModuleExpander` is the main file's way to one tree: the
calls of `expand` on a stack, the files remembered, imports and includes replaced.

`Grammar` is independent of the parser: from a tree to the tokens that mean it, by the
precedences and associativities the source documents.  A state of `MCParser` has a disk written from
trees, and the question is whether the trees come back.  `Troubled` names the forms for
which they do not, and the property is an equivalence: exactly those.

### TypeSystem, Analyzer, AnalyzerProofs, MCAnalyzer

`TypeSystem` is `type-checker.cts` and `mangle.cts`: conversions, overloads, sizes, layout of
structs, mangled names.  A name is the sequence of the pieces the code glues together, so two
names that become one string are one sequence.

`Analyzer` is `semantic_analyzer.cts`.  The recursion of the visit is an `agenda`: its head is the
node being visited, its rest what the callers still have to do, the restoring of saved
fields included (`leaveBlock`, `leaveFunction`, ...).  That makes the middle of a visit a state, and
what the code keeps in fields while it recurses (`environment`, `owner`, `namespacePath`,
`loopStack`) can be compared with where the visit stands.  An expression is one step unless it
needs a template instance that does not exist; then the tasks of the instance come first
and the expression is taken up again.  `owner` is one variable for three fields that are always
set together.  `Nodes` is every node of the declarations at hand, and `NodesAssumption` what the parser
gives each of them (`HasParts`: the statements of a body in a list, a statement under each label and in each case) and that none is an instance.

### InstructionTable, Encoder, Decoder, Assembly, MCAssembly

`InstructionTable` is `tbl.cts` reduced to what the encoder reads.  `Encoder` is `hwm/main.cts`: the
choice of a variant, prefixes, ModR/M, SIB, displacement, immediate, and the exceptions of
`Buffer`.  A number is `[hi, lo]`, `hi * 2^24 + lo`, since the widths the code asks about exceed
the checker's integers.  `Assembly` is the drivers around it: a statement becomes one or more
calls of `compile` (`pending`), with relocations found by searching the bytes, in both drivers.
`log` is history: what was asked and where the answer went.

`Decoder` is the processor's side, written from the rules of the architecture and not
from the repository: it is what the bytes are compared with.

### Machine, RaptorExpr, MCRaptorExpr

`RaptorExpr` is `compile_expr_to_reg`, `compile_lvalue_address`, `compile_hl_call_statement`,
`compile_assignment_stmt` and `compile_variable_decl_local`: `Code` gives the instructions of a
statement, `Run` executes them one by one on `Machine`, and `Meaning` evaluates the tree.  A
byte of the machine has four values; registers have narrower names and are cleared or kept above
them as on the processor.  A called function writes junk into the registers it may, and
returns a number that depends on its arguments, so a wrong argument is seen in the result.
`Code` follows `compile_local_statement`: a variant that is only a statement is taken off the
stack, a name, field, element or literal gives no code, and an operator that assigns nothing ends the
compilation (`Refused`).  `Format` decides where an access to a global lands: the addends of
the driver (`PlaceAddend`, -4 in a load) meet the linker, which allows for the four bytes of the field, or the kernel,
which does not (`Landing`).  `Rbp` is a multiple of eight: of sixteen in a function that was called
by the rules, eight past one in the `main` of an executable, which is the ELF entry
(`driver.cts:987-1002`).  `Handled` (`Exact`, `Reachable`, ...) lists what the generator gets right.  It is a
long list, and everything it leaves out goes wrong for some program; see section 6.

`Machine` is no code of the repository.

## 4. Runs

| Run | Question | Bounds, and why they suffice |
|---|---|---|
| `layout` | Is every list of sections laid out and written as `Packing` promises? | All shapes of tables the compiler builds for the three formats; sizes below, at and above a page, empty sections with and without alignment. The theorems remove the bound. |
| `linker` | Do the passes agree on every symbol, index, size, link (but `.got.plt`'s) and address? | 63 programs: every order of a variable, a caller and a callee; public and static; both drivers; executable, shared object and module; an undefined and an external symbol; recursion. `MCHash` makes names collide. Passes loop over declarations without looking at more than two of them together. |
| `multiboot` | Can what a run made be cleaned, is what ends with status 0 complete, does every process end? | Three processes, so two builds and a clean-up or one build and two clean-ups: nothing older than the last manifest survives. 38 command lines: two jobs with every pair of outcomes, with and without `--emergency`, and the odd ones (more outputs than sources, fewer, the same output twice, no target, no source). Two signals and a rejection reach past the panic threshold. |
| `raptor` | Does the code do what the tree means, over slots that are apart, aligned and in the frame? | 713 functions of up to two dozen nodes: two loops, one with a label, with every pair of jumps and statements in them, under a condition or not; every shape of `if`; an `inspect` with bindings and a default, around and inside loops; siblings of one name; every three declarations of sizes 1 to 24, scalars, structs and arrays, in one block or in two that share a name (the theorems remove this bound); what the analyzer refuses. Patches and relocations are moved by one construct at a time, and each of `if`, `while` and `inspect` is nested in each (but for jumps out of an `inspect`). Functions with a jump in an `inspect`, names that share a slot and more than six parameters are left out: for them the code does something else (section 6). |
| `expr` | Does the code of an expression compute its value, leave the stack alone and pad for its calls? | 9,108 statements of an executable: every operator on every pair of seven operands of four widths, both signs; every operator on every pair of nineteen compounds (calls of one to eight arguments, methods, fields, elements, increments); assignments, declarations and union values with them; variants, addresses and increments as statements. An operand is disturbed by what is computed next to it, so two levels are enough to lose it. |
| `expr_entry` | Is the stack aligned at every call, as `driver.cts:829` says? | No: from the frame of an executable's `main` a plain call is made with the stack pointer eight past a multiple of sixteen. |
| `encoder` | Do the bytes mean the instruction that was asked for? | Some four thousand instructions: every kind of operand at the boundaries of the encoding (extended, special and high-byte registers in every field, bases and indices that need an escape, displacements and immediates on both sides of a byte, a word and a double word), one instruction to a function, in both drivers. Instructions do not influence each other but for the place a relocation is searched. |
| `analyzer` | Is what the analyzer saves restored, and do names stay unique? | Every sequence of up to four of twenty-nine declarations: templates that instantiate each other, methods, overloads, namespaces with and without a name, enumerations, unions, loops with labels. Three declarations nest an instance inside a method inside a namespace; the fourth comes after all is restored. `MaxAgenda` (40) stands for the stack of JavaScript and is reached only by templates that instantiate themselves without end. |
| `parser` | Is what is read what was written, and every file once? | Some ten thousand programs: every pair of eleven operators with a leaf of every kind in every place, every statement and declaration, once in the main file and once in an import; every graph of imports of a main file, two others and one of the library, missing files included. |
| `parser_enum` | Are the members of an enumeration numbered 0, 1, ...? | No: they are read as one list, which is the name of a single member. |
| `jit` | Can a program get back what it put on the stack, the heap and into registers? | Every program of five instructions on three stack cells and 20 cells of memory: overflow, underflow and one pop after it, a block freed and given out again, a word that wraps. |
| `executor` | Does a program do what its text says, and does it end? | 79,272 disks: main files of up to two declarations and a main of up to three instructions, before or after them, next to two other files that may import each other. `Word` 8 lets `$eax` wrap; `MaxDepth` 7 leaves room for main, imports within imports and labels in them, and only loops of jumps reach it often. |

`parser_enum` and `expr_entry` are disagreements between a text and the code, quoted under
`findings`.  The hash is checked with the loader's own lookup and the symbol tables
against what the source declares (`NamesFound`, `SymbolsCorrect`), calls against the address
arithmetic of the processor (`CallsLand`), aborts against a definition of "everything
is defined" that does not mention the passes (`AbortsIffUnresolved`).  Properties that
belong together are one conjunction (`CleanupPossible`, `SlotsPlaced`, `SymbolsCorrect`,
`NamesFound`, `SectionsFinal`, `Packed`, `ContextKept`); the names of the parts are next to it.

**Equivalences.**  Where the code does not do what is meant for some inputs, the
property says for which.  `Decodes` (five forms, `Misencoded`) and `ReadAsWritten`
(`Troubled`) say for exactly which: an input that is listed and yet comes
out right would violate them as well.  `ResultsRight` (`Handled`) and `RunsAsMeant` (four cases) are one-sided:
they promise the meaning outside of the list and nothing of the programs in it.

**Fairness.** `WF_vars(Next)` in `Executor`: one thread runs to the end and waits for nobody, so some
enabled step is always taken (the interpreter has no asynchronous call in its loop).  `LoopsEnd` rests on it and on the
bound of the stack of JavaScript, without which a loop of jumps would go on.  `MCParser` states the
same fairness.  In `Multiboot` only the process is fair (`WF_vars(Process)`), for `Ends`: the event loop takes the
next callback as long as there is one.  Nothing is asked of the user or of the signals; when the last run is
over nobody need start another.  The other modules are straight lines or loops over lists and state no liveness.  All systems here stop when their work is done,
hence `CHECK_DEADLOCK FALSE`; `Analyzer` has a step for the end (`Ended`), so its run also finds a visit that is stuck.

## 5. Proofs

`ElfLayoutProofs` proves, for every list of sections that satisfies
`TablesAssumption`:

* `LayoutTypeCorrect`, `LayoutInvariant` – types, and the inductive invariant `LayoutInv`;
* `NoOverlap` (from `NoOverlapInFile` and `NoOverlapInMemory`), `SectionsLoadedWhereMapped`, `AssemblyCorrect`, `SectionsPlacedOnce`;
* `SegmentsCorrect` – every loaded section lies in a segment with its rights, `.dynamic` is what the DYNAMIC header says, and the loaded segments never share a page;
* `FileIsPacked`, `MemoryIsPacked` – the two refinements of `Packing`, and `LayoutIsPacked`, which is the property `Packed` of the run.

None of these properties is inductive.  That two sections do not overlap needs to
know that everything placed so far ends at or below the running position
(`PlacedInv`), which set that is in each phase (`PhaseInv`), that the two
positions differ by the base (`CursorInv`; both bases are multiples of every
alignment, lemma `AlignToShift`), how many program headers were counted
(`HeadersInv`, used by lemma `ProgramHeadersCorrect`), and, while writing, that
what is still to be written lies after what was written (`WriteInv`).  The
segments are right (`CoverInv`) because the header of a segment is written when the last
section it is for has just been placed.  Disjointness
in memory then follows from that in the file, because addresses are offsets plus
the base.

`MultibootProofs` proves, for all files, command lines, bounds and faults:

* `MultibootInvariant`, `MultibootTypeCorrect` – the inductive invariant `Inv` and the types in it;
* `LeftoversNamed` (`CleanupPossible`) – what the last run left is named by the manifest, which stays while something is left; with the two exceptions the code has: a manifest that could not be saved (`kernel.js:295`), and files whose removal failed (330), since the manifest goes nevertheless (335);
* `CleanupCompletes` – the manifest goes only when each entry was removed or reported;
* `CompiledJobsWritten` – every job that compiled has its output in place when the next starts;
* `SuccessAlwaysComplete` (`SuccessIsComplete`) – status 0 without a counted error, and without a `process.exit` in a compiler, means every output is there.

`Inv` adds to the properties themselves what keeps them.  `ControlInv` ties the place
of the process to its command and bounds `job` (a clean-up is never in a job; the
job at `access` has a source and an output).  `RecordInv` says that from `boot` on
the manifest lists exactly the outputs, or could not be saved: so what a job
writes is listed.  `CleanInv` says that a clean-up has dealt with every entry
before the one it stands at: so the manifest goes only when all were.  `DrainInv` says that a
process that drains has been through all its jobs or has counted an error, `ErrorsBounded` that the counter
stays below the one that halts.  Most of
the 23 actions only move the process; lemma `Kinds` sorts every step into ten
kinds once, and each conjunct is then preserved kind by kind.

`MemoryProofs` is about what lies in memory while a program runs.  Of the frames of Raptor it proves,
for every set of declarations, that variables of
different names share no byte (`VariablesApart`), lie in the frame
(`VariablesInFrame`) and are aligned (`VariablesAligned`); `VariablesPlaced` is the three
together, which the run `raptor` checks of its `Pass1`, the instance of `Frame`.  Apartness is not inductive
by itself: `FrameInv` adds that every slot lies between the base pointer and the
running offset (`SlotsInUse`), so a new one is beyond all others, and lemma
`AlignUpBounds` that rounding up never falls short.

`ListProofs` is what the linker's proofs need to know of `Only`: it keeps the
elements of the set, in their order (`OnlyPlaces`), and a list is split by a set and its
complement (`OnlySplits`).  The induction is done on a set of numbers (`Induction`), and
`Recursion` and `OneRecursion` say that a function defined from its predecessor exists and is the
only one, so that no operator has to be handed to a theorem.

`LinkerProofs` proves, for every program and every hash:

* `LinkerTypeCorrect` – the types of the tables of the compiler, sections listed once, required ones among them;
* `CallsAlwaysLand` – every call of an executable or shared object reaches what it names (those of a module, which the kernel patches, do not: `ReferencesLand`), over the order of declarations, the moving of `main`, the renumbering of symbols and the layout;
* `AbortsExactly` – a file is written exactly for the programs whose references are all defined.

`TypeInv` strengthens the types by what keeps them.  `DriverInv` says what was translated:
each function once, with the relocations of its references in their order (`Serves`).
`SectionInv` says which sections a pass is going to add are not there yet; `SymbolInv` that names
are in each table once and only if what they name was defined so far (`Defined`); `FileInv` that
the final list is the required sections, each once, and that `ElfLayout` was handed that list.
`LandInv` then says where code goes.  Each appended function has
its symbol at the start of its code and its relocations behind it (`FunctionPlaced`); from the
pass on that sorts relocations out, none needs the PLT; the fields written into `.text` are those
the final addresses ask for.  None of it is
inductive without the order in which functions are appended: lemma `OrderedFacts` shows
`main` first and each function once.  `ResolveInv` says which symbols there are: what was defined so far has a section, what was
only asked for has none (`DefinedInv`); what is called is known or declared (`AskedInv`); every function of
the format is translated (`TranslatedInv`), and each of its references is a relocation, nothing else but the pointers of
`struct module` (`RelocatedInv`); where relocations are sorted out every defined symbol has an index (`IndexInv`).  The
proof corrected `Linkable`: a module is also linked if it takes the address of a name another function
calls, or refers to `this_module`; four programs of the run show it.  That layout and writing of the file
are those of `ElfLayout` is `SameLayoutStep` and `SameAssemblyStep`, so its theorems
are cited here.  Assumed are `HashAssumption` (`this_module` is one of the names, hashes are natural numbers, as `elfHash` ends with `>>> 0`) and `ProgramsAssumption`
(what both drivers accept: one meaning for each name, and in Raptor no variable called by its name).

`LinkedFileProofs` proves, on top of it, for every program and every hash:

* `SectionsStayFinal` – headers, links and the dynamic table of a written file describe the file, but for the link of `.got.plt`, which keeps the index of `.dynamic` in the raw list (`SectionsFinal`);
* `SymbolsStayCorrect` – `.symtab` and `.dynsym` say where the symbols are, a shared object exports what is public and nothing else (`SymbolsCorrect`);
* `NamesAreFound` – the kernel finds the symbol of a relocation by its index, the loader a name by its hash (`NamesFound`).

The first has the invariant `FileBuilt`.  `RequiredInv` says that sections are required together (symbols with their
strings, the tables of dynamic linking with each other, a table of relocations with what it is for);
`SizeInv` that a section the layout has seen has the size of what was put into it, or one set aside for it;
`LayInv` that `ElfLayout` works on those sizes; `FirstInv` that the null section
comes first, so that an index of zero means none; `LinksInv` that indices are taken from the final list, after the
last section was added, and `GotInv` that one is not; `TablesInv` that the tables of dynamic linking are built from the final names
(`DynamicInv`: and hold, once patched, the final addresses).  The dynamic table is right only because its length is counted
before its entries are known, which is why `TablesInv` has `DynamicEntryCount`.

The other two have `TablesBuilt`, which adds to `FileBuilt` and `ResolveInv`: `HeldInv`, a symbol is in a required
section or, only asked for, nowhere; `SymtabInv`, the entries of `.symtab` are those of `SymtabOrder` and each symbol has
the index of an entry like it, so that a later pass over the list meets the same symbols (the list itself is not the same:
the symbols were renumbered while it was used, and lemma `OrderAlike` shows that this moves none);
`DynsymInv` and `RelaInv`, what the patched `.dynsym` and the `.rela` sections hold; `ExportInv`, `.dynsym` lists what is
public among what was defined so far.  That the loader finds every name is a fact about `HashTable` alone, whatever
collides: the last symbol of a bucket is in it, and if a symbol is reached, so is the one its chain
continues with; so every symbol of the bucket is, from the last down (`ReachesNext`, `AllReached`).

`ExecutorProofs` proves, for every set of disks and depth, `ContextAlwaysOfFrames`.  `ExecutorInv`
adds what each executor has put aside: a file keeps the mode of the file below it, main was started in
global code, the list of files read is that of the executors, from the bottom.  With these the fields
are right again when an executor is left.  It assumes that the main file is on each disk.

Of the virtual machine `MemoryProofs` proves, for every program and size of the stack, the memory and a byte:

* `StackIsBounded` – the stack implements `VirtualStack`.  `StackInv` bounds the pointer and keeps words in the cells;
* `RegistersAgree` – the names of a register agree (`RegistersCoherent`).  `RegInv` adds the range of each name;
  it stands on what `|` does to low bits (`OrLaws`, `MergeLow`, `MergeAlike`), proved from `OrBits` by
  induction on a set of numbers, and on `NothingByName`: no setter called by name ever gets to write;
* `HeapKeepsAccounts` – the list of the heap is the blocks held (`HeapAccounted`).  `HeapOK` adds that each
  address is in the list once and each block lies in it in one piece, closed by a zero; `HeapGrown` is
  `malloc`, `HeapCut` is `free`: the search for the next zero stops at the block's own;
* `PushesReadable` – a print shows what was pushed (`Readable`).  `ReadInv` says of each entry which words
  lie at its address: nothing below the memory pointer changes but through a pointer (`EntryKept`), the cells
  up to the next zero are the entry's own (`DumpIs`), and the sign of a double word is that of its upper
  word (`DoubleWord`, from `RegistersAgree`'s invariant and the evenness of a word).

`ByteAssumption` says that a byte has one to eight bits, `InstructionsAssumption` and `OperandsAssumption`
what the members let reach a push and an operation.

`AnalyzerProofs` proves, for every set of declarations, nested in any way and whatever instances they ask for:

* `ContextHeld` – the inductive invariant `ContextInv`, and from it `ContextIsKept` (the property `ContextKept`):
  what is in force is what the place in the source says, and after a declaration everything has its value back;
* `OwnerIsPending` (`OwnerPending`) – the current struct is that of the innermost method whose visit is not over;
* `InstancesBuiltOnce` (`InstancesOnce`) – no step begins to build an instance that is complete.

`ContextKept` speaks of the moments between declarations and of the length of the chain of environments, and neither
says what is saved where.  `ContextInv` reads the tasks that are left as one path: each undoes one change (`Undoes`) and
together they lead (`Leads`) from the context in force, `Now`, back to the one of the constructor, `AtStart`.  A
handler changes the context and puts a task with the way back in front of the rest (`Opened`, `Wrapped`); an instance
puts its tasks between the caller's context and a `restore` of it (`InstanceInFront`); a task that is done takes its own
step of the way (`HeadDone`).  The length of the chain then is the number of tasks that shorten it
(`LeavingIs`).  `OwnerInv` says that the first task of a method that is left (`Innermost`) is one of the current struct, and that
types are never taken out of the table.  That the current struct is a *struct* is not among it: an enumeration or union declared in the
body of a method under the struct's name replaces it in the table.

`InstanceInv` is behind the third.  The lookup before an instance is made (`Exists`) goes through the type table and the
chain of environments, and `ContextInv` says that every chain ends in the global one: what is registered there is found
from everywhere (`FoundFromAnywhere`).  It remains that an instance on `astRoot` is registered under its name.  Its
push waits directly behind the visit of its clone (`Pending`), and that visit registers it: a function because a
clone is visited in the global environment, a struct because it is visited outside of any namespace.  Both are part of the path
of `ContextInv` (`AtHome`).  Between its clone's visit and its registration an instance is *not* found, and is built a second
time when its own signature or fields ask for it: `BuiltOnce` is false of the declaration `ring` of the run.

Assumed is `NodesAssumption`, what the types of the parser's nodes (`types/expression.cts`) say, and that no node of the source
is itself an instance.

**Only model-checked.**

* *Recursion over trees and texts*, which is induction over data: `JumpsReachTarget`, `RelocsOnCalls`, `SlotOfItsOwn` and the
  refinement of `Raptor`; `ResultsRight`, `StackKept`, `CallsAligned` of `RaptorExpr`; `Decodes`, `FieldsFound` of `Assembly`;
  `ReadAsWritten`, `FilesInOrder`; what a text means in `RunsAsMeant`.  The operators are `RECURSIVE`, where the prover has no backend.
* *True of what the code is given, not of any declaration*: `CallsResolved`, `FieldsApart` of `Analyzer`.  For some programs
  each fails (section 6: `f(int)` and `f(int&)`, a struct defined again), and the run shows them of programs that do nothing
  of the kind; that symbols are unique is asked of the states where no instance was built twice (`BuiltOnce`).
* *Liveness*: `Ends`, `LoopsEnd`.

## 6. Where code and text disagree

`findings` has two disagreements with a run of their own (`parser_enum`, `expr_entry`).  The others were met while
modelling.  For some the modules keep the definition that fails; put it into the
configuration of its module to see how.

| Definition | Module | What it says, and what the code does |
|---|---|---|
| `LocalsFirst` | `Linker` | "all STB_LOCAL symbols come first, their number is in section.info" (`T/hwc/main.cts:158`). Global symbols are in the list when it is counted (184). |
| `GotLinkFinal` | `Linker` | Pass 3 overwrites raw indices (`T/hwc/main.cts:644`). The link of `.got.plt` is set in pass 1 only; `LinksFinal`, which the run checks, says so. |
| `ReferencesLand` | `Linker` | The patcher accounts for -4 (`T/driver.js:390`). References with addend -4 are patched four bytes low; calls of a kernel module, which the kernel patches, land four bytes high. |
| `AllRemembered` | `Multiboot` | "`--multiclean` removes all artifacts created by any `--multiboot` run" (changelog v30.0.0-rev1.0:17). Every run replaces the manifest. A clean-up also removes files no job has written (`kernel.js:287`). |
| – | `Multiboot` | The manifest names what is to be cleaned. It is removed after failed removals too (`kernel.js:335`), so that what is left is known to nobody (`kept`). And a first rejection or signal is counted (489) without changing the status: the process ends with 0 although jobs were dropped. |
| `RestContinue` | `Multiboot` | "if one subjob fails, the rest continue" (v30.0.0-rev1.0:28). They do not. |
| `JumpsReachTarget` with `Programs <- InspectJumps` | `MCRaptor` | Loops catch the patches of `break` and `continue` (v32.0.0-rev1.0:387). Those inside an `inspect` are dropped: the jump goes to the next instruction. |
| `SlotOfItsOwn` with `Programs <- SharedNames` | `MCRaptor` | A slot for every parameter and local variable (`T/raptor/driver.cts:828`). Not if it shadows another, has the name of a larger or smaller sibling, or belongs to a labelled loop; nor is a seventh parameter stored (964). |
| `AnyExpression` | `RaptorExpr` | "Evaluates any expression" (v32.0.0-rev1.0:617). See the list below. |
| `OwnerIsCaller` | `Analyzer` | The current struct is that of the function visited; instances built inside a method keep the caller's. |
| `AccumulatorIsRax` | `Assembly` | The forms with `AX`, `EAX`, `RAX` (`T/hwm/tbl.cts:88-112`) take any register (`main.cts:893`). |
| `MovesGoOn` | `VirtualMachine` | `@mov $eax, 14` before a push and a print (`examples/movq.asmx:4-6`). The process ends. |

**Expressions of Raptor** (what `Handled` leaves out).  `*` of unsigned operands, `/=`, bit
and shift operators, `*p` as a value and the address of an element emit no instruction.
Arithmetic and calls, which have no annotation, count as eight unsigned bytes: operators with them,
and payloads of a union, take that width.  `-x` is not extended into a wider place.  A
temporary built into another register than `rax` is overwritten.  Calls among the
arguments of a constructor or of an assigned union value change `r10`.  A call that returns more than
eight bytes leaves its room on the stack when it is an argument or a statement.  `&&` and `||`
evaluate both sides.  The value of a global is read four bytes low in an executable or shared object (addend -4,
`driver.cts:1467`, which the linker allows for a second time, `linker-strategy.cts:889`), and its place written four low in a shared
object; in a module these are right and `&g` is four high.  A call below a pushed operand is not aligned, nor is any
in the `main` of an executable (`AlignedBeforeCall`).

**Analyzer.**  A name `x` in namespace `ns` is looked up as `ns__x` through the whole chain before the
local `x`.  `f(int)` and `f(int&)` have one unique name, as have a struct `c` and `char` in a signature.
Results of more than sixteen bytes cannot be called.  A `break` in a template instance is accepted inside the loop of
the caller.  Methods of a struct template declared after its first use are not instantiated; a
template used unqualified in its own namespace is refused; a struct template loses
its namespace; one that mentions itself recurses without end.
An instance is known only when its signature or its fields are resolved (`semantic_analyzer.cts:443`, 1619); asked for again before, it is
built twice, and its symbol is emitted twice: a function template whose parameter is an instance of a struct template that has a
method calling that function.  `A::S::m` drops `A`.  `sizeof` of a variable and a
copy of `const int` to `int` are refused; `const` is lost through `void*`.  A second
definition of a struct replaces the first; an array in a struct has the room of one element.

**Encoder and drivers.**  Besides the five forms of `Misencoded` (accumulator forms, SIB displacements that
reach neighbouring bits, high bytes under REX, wide pushes, operands of mixed sizes): immediates 128 to 255 in byte forms, negative words and
double words above 2^31-1 raise `RangeError`; `mul` with two operands and `@call` of a register emit nothing;
the Raptor driver keeps the relocation of a refused instruction; `push %fs` raises
`TypeError` there; `@mov &x %rax` loads the value; `@syscall` moves its arguments one after the
other, so a register may be overwritten before it is read; the messages of the encoder are printed after
the output is written (`core.js:163`).

**Parser and expander.**  Read differently from what is written: an increment followed by an operator; type
arguments in an operand of a relational or tighter operator; comparisons that look like type arguments;
chained assignments in initializers; members of an enumeration; `int a = 1, b = 2;`.  Refused:
chained assignments in parentheses, `fn f() -> T* {`, `= default` and `= delete` (`parser.cts:290`), `...` in imported
files (`core.js:120`).  An instruction without `;` takes in a next line that begins with `*`, `&`, `(`, `-` or
`%`.  Imports inside a namespace are not expanded.

**Interpreter.**  The second import of a file is looked up one directory too high (`module-member.js:44`); a label inside a
label ends the process the second time (`branch-member.js:12`); `jle` jumps on equality only (`jump-member.js:17`);
`@ret` and unknown local instructions do nothing; `@export` is always refused; a module with a `main` that is imported from within main
is refused; a file imported along two ways is executed twice; the last label of a name wins wherever it stands; a loop of
jumps ends with the stack.

## 7. Not modelled

Packagers, installer, source version control and devices are sequential I/O; the argument parser
keeps no state; the assembly helpers are constants; journals only write.  The
interpreter's own parser and scanners build trees without a state of their own.  Of
the hardware of the JIT the vectors (MMX, SSE) are left out: a load of one ends the process.  Of the
parser and analyzer of Raptor: instructions and their operands, function pointers, `@section` fields, `volatile` (it goes wherever `const`
goes).  Of the drivers: `create_versions_section`, a kernel module without
`__init`, `elfHash` itself (any function of the names here).  Of the kernel, single builds, packaging and
the synchronisation of resources are left out: they are straight calls, the first
one job of a multiboot run.
