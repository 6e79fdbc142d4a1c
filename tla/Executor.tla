------------------------------ MODULE Executor ------------------------------
(***************************************************************************)
(* The flow of control of the interpreter (src/core.js, src/execution):    *)
(* an executor goes through the nodes of one block and starts another one  *)
(* for the body of main, of a label jumped to and of an imported file. A   *)
(* jump is therefore a call: what follows it runs when its block has       *)
(* ended, and a loop of jumps deepens the stack of JavaScript.             *)
(*                                                                         *)
(* What the executors share is in static fields: whether code is global or *)
(* local, whether this is the main file or a module, the directory imports *)
(* start from, the files being read. Each is saved and put back by hand.   *)
(*                                                                         *)
(* A program is a sequence of instructions, <<mnemonic, operands>>:        *)
(*   <<"function", name, has attributes, body>>   <<"label", name, body>>  *)
(*   <<"import", directories, name>>              <<"goto", label>>        *)
(*   <<"jnz", label>>  <<"jle", label>>           <<"jmp", label>>         *)
(*   <<"cmp", n>> and <<"add", n>> on $eax        <<"call", function>>     *)
(*   <<"export">>  <<"exit">>  <<"local">>  <<"section">>  <<"ret">>       *)
(* What else the instructions do to the hardware is VirtualMachine.        *)
(***************************************************************************)
EXTENDS Integers, Sequences, FiniteSets

CONSTANTS
  Disks,      \* the disks to run: path -> program, a path being <<directories, name>>
  Main,       \* the path of the file to run
  Builtins,   \* the functions of BuiltinHardwareFunctions
  Word,       \* numbers $eax can hold: 2^32, less in a small instance
  MaxDepth    \* executors the stack of JavaScript has room for

ASSUME MainAssumption == \A d \in Disks : Main \in DOMAIN d
ASSUME BoundAssumption == MaxDepth \in Nat \ {0} /\ Word \in Nat \ {0}

VARIABLES
  disk,
  frames,     \* executors, the innermost first: [kind, file, code, at, pc, saved]
  labels,     \* Enviroment.labels: name -> [code, at]
  spent,      \* nodes of labels whose id has been deleted
  env,        \* Runtime.TYPE_OF_ENVIROMENT: "global" or "local"
  mode,       \* Runtime.IMPORT_ENVIROMENT_MODE: "main" or "module"
  hasMain,    \* Runtime.HAS_MAIN_FUNCTION
  dir,        \* Router.ROUTE_IMPORT_DIRECTORY
  files,      \* Router.TRACEWAY_FILES
  cpu,        \* $eax and the flags a comparison sets
  loads,      \* how many files have been read: each has nodes of its own
  status      \* "running", "done", "exited", "refused", "crashed"

shared == <<env, mode, hasMain, dir, files>>
vars == <<disk, frames, labels, spent, shared, cpu, loads, status>>

Declarations == {"import", "export", "label", "function", "local"}
Silent == {"local", "section", "ret"}

Top == frames[1]
Instr == Top.code[Top.pc]
Running == status = "running"
Fetched == Running /\ Top.pc <= Len(Top.code)

\* An instruction is looked at in the global environment before it is run.
Forbidden == env = "global" /\ Instr[1] \notin Declarations \cup {"section"}
Fetch(ops) == Fetched /\ ~Forbidden /\ Instr[1] \in ops

Passed == <<[Top EXCEPT !.pc = @ + 1]>> \o Tail(frames)
Go == frames' = Passed /\ UNCHANGED status
Stop(how) == status' = how /\ frames' = <<>>

Frame(kind, file, code, at) ==
  [kind |-> kind, file |-> file, code |-> code, at |-> at, pc |-> 1,
   saved |-> [env |-> env, mode |-> mode, dir |-> dir]]

\* A new executor; RangeError when there is no room for it.
Enter(frame) ==
  IF Len(frames) = MaxDepth THEN Stop("crashed")
  ELSE frames' = <<frame>> \o Passed /\ UNCHANGED status

Parent(d) == IF d = <<>> THEN d ELSE SubSeq(d, 1, Len(d) - 1)

Refuse ==
  /\ Fetched /\ Forbidden
  /\ Stop("refused")
  /\ UNCHANGED <<disk, labels, spent, shared, cpu, loads>>

\* Variables, returns and unknown instructions have no case; sections are passed over.
Skip ==
  /\ Fetch(Silent)
  /\ Go
  /\ UNCHANGED <<disk, labels, spent, shared, cpu, loads>>

\* The id is deleted from the node, which is asked for it when it is run again.
Label ==
  /\ Fetch({"label"})
  /\ LET at == Append(Top.at, Top.pc)
     IN  IF at \in spent THEN Stop("crashed") /\ UNCHANGED <<labels, spent>>
         ELSE /\ labels' = [l \in DOMAIN labels \cup {Instr[2]} |->
                             IF l = Instr[2] THEN [code |-> Instr[3], at |-> at] ELSE labels[l]]
              /\ spent' = spent \cup {at}
              /\ Go
  /\ UNCHANGED <<disk, shared, cpu, loads>>

BodyOf(l) == Frame("jump", Top.file, labels[l].code, labels[l].at)

\* Mutant: a jump at the end of a block takes the place of the block.
JumpInPlace(l) ==
  IF l \notin DOMAIN labels THEN Stop("refused")
  ELSE IF Top.kind = "jump" /\ Top.pc = Len(Top.code)
  THEN frames' = <<BodyOf(l)>> \o Tail(frames) /\ UNCHANGED status
  ELSE Enter(BodyOf(l))

Jump(l) == IF l \notin DOMAIN labels THEN Stop("refused") ELSE Enter(BodyOf(l))

Goto ==
  /\ Fetch({"goto", "jmp"})
  /\ Jump(Instr[2])
  /\ UNCHANGED <<disk, labels, spent, shared, cpu, loads>>

\* Mutant: both look at the flag the same way.
JumpIfEqual ==
  /\ Fetch({"jnz", "jle"})
  /\ IF cpu.zf THEN Jump(Instr[2]) ELSE Go
  /\ UNCHANGED <<disk, labels, spent, shared, cpu, loads>>

\* jle looks at the zero flag only.
JumpIf ==
  /\ Fetch({"jnz", "jle"})
  /\ IF cpu.zf = (Instr[1] = "jle") THEN Jump(Instr[2]) ELSE Go
  /\ UNCHANGED <<disk, labels, spent, shared, cpu, loads>>

Cmp ==
  /\ Fetch({"cmp"})
  /\ cpu' = [cpu EXCEPT !.zf = cpu.eax = Instr[2], !.cf = Instr[2] > cpu.eax]
  /\ Go
  /\ UNCHANGED <<disk, labels, spent, shared, loads>>

Add ==
  /\ Fetch({"add"})
  /\ cpu' = [cpu EXCEPT !.eax = (@ + Instr[2]) % Word]
  /\ Go
  /\ UNCHANGED <<disk, labels, spent, shared, loads>>

\* The environment is local during the call and what it was after it.
Call ==
  /\ Fetch({"call"})
  /\ IF Instr[2] \in Builtins THEN Go ELSE Stop("refused")
  /\ UNCHANGED <<disk, labels, spent, shared, cpu, loads>>

Exit ==
  /\ Fetch({"exit"})
  /\ Stop("exited")
  /\ UNCHANGED <<disk, labels, spent, shared, cpu, loads>>

Export ==
  /\ Fetch({"export"})
  /\ Stop("refused")
  /\ UNCHANGED <<disk, labels, spent, shared, cpu, loads>>

\* Mutant: main is run whichever file it is in.
FunctionAnywhere ==
  /\ Fetch({"function"})
  /\ IF Instr[2] # "main" THEN Go /\ UNCHANGED env
     ELSE IF Instr[3] \/ env # "global" \/ hasMain THEN Stop("refused") /\ UNCHANGED env
     ELSE Enter(Frame("main", Top.file, Instr[4], Append(Top.at, Top.pc))) /\ env' = "local"
  /\ UNCHANGED <<disk, labels, spent, mode, hasMain, dir, files, cpu, loads>>

\* main is run where it is declared, in the main file; a module's is passed over.
Function ==
  /\ Fetch({"function"})
  /\ IF Instr[2] # "main" THEN Go /\ UNCHANGED env
     ELSE IF Instr[3] \/ env # "global" THEN Stop("refused") /\ UNCHANGED env
     ELSE IF mode # "main" THEN Go /\ UNCHANGED env
     ELSE IF hasMain THEN Stop("refused") /\ UNCHANGED env
     ELSE Enter(Frame("main", Top.file, Instr[4], Append(Top.at, Top.pc))) /\ env' = "local"
  /\ UNCHANGED <<disk, labels, spent, mode, hasMain, dir, files, cpu, loads>>

\* A file that is being read is not read again. What is kept of the directory is its parent.
Import ==
  /\ Fetch({"import"})
  /\ LET path == <<dir \o Instr[2], Instr[3]>>
         frame == [Frame("file", path, disk[path], <<loads + 1>>) EXCEPT !.saved.dir = Parent(dir)]
     IN  IF path \in {files[i] : i \in DOMAIN files}
         THEN Go /\ UNCHANGED <<mode, dir, files, loads>>
         ELSE IF path \notin DOMAIN disk
         THEN Stop("refused") /\ UNCHANGED <<mode, dir, files, loads>>
         ELSE /\ Enter(frame)
              /\ mode' = "module"
              /\ files' = Append(files, path)
              /\ dir' = path[1]
              /\ loads' = loads + 1
  /\ UNCHANGED <<disk, labels, spent, env, hasMain, cpu>>

Ended == Running /\ Top.pc > Len(Top.code)
LacksMain == mode = "main" /\ env = "global" /\ ~hasMain
Drop == frames' = Tail(frames) /\ UNCHANGED status

LeaveJump ==
  /\ Ended /\ Top.kind = "jump"
  /\ IF LacksMain THEN Stop("refused") ELSE Drop
  /\ UNCHANGED <<disk, labels, spent, shared, cpu, loads>>

LeaveMain ==
  /\ Ended /\ Top.kind = "main"
  /\ IF LacksMain THEN Stop("refused") /\ UNCHANGED <<env, hasMain>>
     ELSE Drop /\ env' = Top.saved.env /\ hasMain' = TRUE
  /\ UNCHANGED <<disk, labels, spent, mode, dir, files, cpu, loads>>

\* Mutant: only the directory is put back.
LeaveFileAsModule ==
  /\ Ended /\ Top.kind = "file" /\ Len(frames) > 1
  /\ Drop
  /\ dir' = Top.saved.dir
  /\ files' = SubSeq(files, 1, Len(files) - 1)
  /\ UNCHANGED <<disk, labels, spent, env, mode, hasMain, cpu, loads>>

LeaveFile ==
  /\ Ended /\ Top.kind = "file" /\ Len(frames) > 1
  /\ IF LacksMain THEN Stop("refused") /\ UNCHANGED <<mode, dir, files>>
     ELSE /\ Drop
          /\ mode' = Top.saved.mode
          /\ dir' = Top.saved.dir
          /\ files' = SubSeq(files, 1, Len(files) - 1)
  /\ UNCHANGED <<disk, labels, spent, env, hasMain, cpu, loads>>

Finish ==
  /\ Ended /\ Len(frames) = 1
  /\ Stop(IF LacksMain THEN "refused" ELSE "done")
  /\ UNCHANGED <<disk, labels, spent, shared, cpu, loads>>

Init ==
  /\ disk \in Disks
  /\ env = "global" /\ mode = "main" /\ hasMain = FALSE
  /\ dir = Main[1]
  /\ files = <<Main>>
  /\ frames = <<Frame("file", Main, disk[Main], <<1>>)>>
  /\ labels = <<>>
  /\ spent = {}
  /\ cpu = [eax |-> 0, zf |-> FALSE, cf |-> FALSE]
  /\ loads = 1
  /\ status = "running"

Next ==
  \/ Refuse \/ Skip \/ Label \/ Goto \/ JumpIf \/ Cmp \/ Add \/ Call \/ Exit \/ Export
  \/ Function \/ Import \/ LeaveJump \/ LeaveMain \/ LeaveFile \/ Finish

\* JavaScript goes on as long as there is something to do.
Spec == Init /\ [][Next]_vars /\ WF_vars(Next)

(***************************************************************************)
(* Properties.                                                             *)
(***************************************************************************)
KindsIn(fs) == {fs[i].kind : i \in DOMAIN fs}
FilesOf(fs) == {i \in DOMAIN fs : fs[i].kind = "file"}

\* The static fields say what the stack of executors says, through any nesting of main,
\* jumps and imports, refusals excepted (they end the process): code is local exactly in
\* main, in a module exactly under an import, no file is read inside itself, and main is
\* run once, by the main file and in no import.
ContextOfFrames ==
  Running =>
    /\ (env = "local") = ("main" \in KindsIn(frames))
    /\ (mode = "module") = (Cardinality(FilesOf(frames)) > 1)
    /\ Len(files) = Cardinality(FilesOf(frames))
    /\ \A i \in FilesOf(frames) : frames[i].file = files[Cardinality({j \in FilesOf(frames) : j >= i})]
    /\ \A i, j \in DOMAIN files : files[i] = files[j] => i = j
    /\ Cardinality({i \in DOMAIN frames : frames[i].kind = "main"}) <= (IF hasMain THEN 0 ELSE 1)
    /\ \A i \in DOMAIN frames : frames[i].kind = "main" => frames[i].file = Main

\* No program runs forever: there is no loop but by jumps, and a loop of jumps that does
\* not end runs out of stack.
LoopsEnd == <>(status # "running")
=============================================================================
