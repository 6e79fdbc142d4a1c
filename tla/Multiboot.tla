------------------------------ MODULE Multiboot ------------------------------
(***************************************************************************)
(* Multiboot runs and their clean-up: the kernel (kernel.js), which keeps  *)
(* a manifest of artifacts, counts errors and panics, and the supervisor   *)
(* (supervisor.js), which runs one job after the other in the same         *)
(* process.                                                                *)
(*                                                                         *)
(* A shell starts `asmx --multiboot ...` and `asmx --multiclean` in one    *)
(* directory.  A process may be sent signals, which it sees only where it  *)
(* waits for the event loop; it may be killed between any two steps; and   *)
(* writing the manifest or removing a file may fail.  Only the manifest    *)
(* and the files survive the process.                                      *)
(***************************************************************************)
EXTENDS Naturals, Sequences

CONSTANTS
  Files,       \* paths of outputs, in the working directory
  Builds,      \* the command lines of multiboot runs
  Faults,      \* which of "crash", "save", "unlink" may happen
  MaxRuns,     \* bound: processes started
  MaxSignals   \* bound: signals sent to one process

(* What becomes of a source: it compiles, it does not exist (Core.run does  *)
(* nothing then), an Error is thrown, or the compiler calls process.exit.   *)
Outcomes == {"compiles", "missing", "throws", "exits"}
Build == [sources : Seq(Outcomes), outputs : Seq(Files), target : BOOLEAN, emergency : BOOLEAN]
Multiclean == [sources |-> << >>, outputs |-> << >>, target |-> FALSE, emergency |-> FALSE]

ASSUME BuildsAssumption == Builds \subseteq Build

VARIABLES
  disk,        \* path -> no file, a file of somebody else's, or an artifact
  manifest,    \* multiboot_manifest.json: whether it is there, and its files
  runs,        \* processes started so far
  cmd,         \* command line of the process, or of the last one
  cleaning,    \* it is a --multiclean
  pc,          \* where the process stands; "shell": there is none
  job,         \* i, plus one; in a clean-up, the entry of the manifest
  errors,      \* GVE.COUNT_SYSERR
  pending,     \* signals sent and not seen yet
  status,      \* how the last process ended
  made,        \* files the last multiboot run has written
  unsaved,     \* its manifest could not be saved
  kept         \* files it was last tried to remove, in vain

diskVars == <<disk, manifest>>
historyVars == <<made, unsaved, kept>>
vars == <<diskVars, runs, cmd, cleaning, pc, job, errors, pending, status, historyVars>>

NoManifest == [state |-> "none", files |-> << >>]
Torn == [state |-> "torn", files |-> << >>]
Saved(files) == [state |-> "saved", files |-> files]
Elements(s) == {s[k] : k \in DOMAIN s}

Goto(label) == pc' = label /\ UNCHANGED status
Exit(code) == pc' = "shell" /\ status' = code

-----------------------------------------------------------------------------
Init ==
  /\ disk \in [Files -> {"absent", "foreign"}]
  /\ manifest = NoManifest
  /\ runs = 0
  /\ cmd = Multiclean /\ cleaning = TRUE
  /\ pc = "shell" /\ status = "ok"
  /\ job = 0 /\ errors = 0 /\ pending = 0
  /\ made = {} /\ unsaved = FALSE /\ kept = {}

Start(c, clean) ==
  /\ pc = "shell" /\ runs < MaxRuns
  /\ runs' = runs + 1
  /\ cmd' = c /\ cleaning' = clean
  /\ pc' = "startup" /\ status' = "running"
  /\ job' = 0 /\ errors' = 0 /\ pending' = 0
  /\ made' = IF clean THEN made ELSE {}
  /\ unsaved' = IF clean THEN unsaved ELSE FALSE
  /\ kept' = IF clean THEN kept ELSE {}
  /\ UNCHANGED diskVars

StartMultiboot == \E c \in Builds : Start(c, FALSE)
StartMulticlean == Start(Multiclean, TRUE)

(* A process is sent a signal; it is seen when the process next waits.      *)
SendSignal ==
  /\ pc # "shell"
  /\ errors + pending < MaxSignals
  /\ pending' = pending + 1
  /\ UNCHANGED <<diskVars, runs, cmd, cleaning, pc, job, errors, status, historyVars>>

(* The machine or the user stops the process for good.                      *)
Crash ==
  /\ "crash" \in Faults
  /\ pc # "shell"
  /\ Exit("killed")
  /\ UNCHANGED <<diskVars, runs, cmd, cleaning, job, errors, pending, historyVars>>

-----------------------------------------------------------------------------
(* __asmx_kernel_panic_fn halts the process at the first error if the user  *)
(* asked for it, otherwise at the second.                                   *)
Panics(count) == cmd.emergency \/ count >= 2

(* A handler has counted an error: panic, or go on as if nothing happened.  *)
CountError(label) ==
  /\ errors' = errors + 1
  /\ IF Panics(errors + 1) THEN Exit("panic") ELSE Goto(label)

(* The signal handlers run while the supervisor waits for fs.promises, and  *)
(* perhaps once more before the event loop ends.                            *)
HandleSignal ==
  /\ pc \in {"access", "drain"}
  /\ pending > 0
  /\ pending' = pending - 1
  /\ CountError(pc)
  /\ UNCHANGED <<diskVars, runs, cmd, cleaning, job, historyVars>>

(* Mutant: the rejection is swallowed, as it was meant to be by the .catch  *)
(* of the main function (kernel.js:979).                                    *)
HandleRejectionSwallowed ==
  /\ pc = "rejected"
  /\ Goto("drain")
  /\ UNCHANGED <<diskVars, runs, cmd, cleaning, job, errors, pending, historyVars>>

(* The handler of unhandledRejection: the promise of the main function is   *)
(* awaited by nobody.                                                       *)
HandleRejection ==
  /\ pc = "rejected"
  /\ CountError("drain")
  /\ UNCHANGED <<diskVars, runs, cmd, cleaning, job, pending, historyVars>>

Drain ==
  /\ pc = "drain"
  /\ Exit("ok")
  /\ UNCHANGED <<diskVars, runs, cmd, cleaning, job, errors, pending, historyVars>>

-----------------------------------------------------------------------------
(* __asmx_startup_main_fn: --multiclean is an exit flag; a multiboot run    *)
(* without sources throws at terminal_arguments.source.map.                 *)
Startup ==
  /\ pc = "startup"
  /\ IF cleaning THEN Goto("multiclean")
     ELSE IF cmd.sources = << >> THEN Goto("rejected") ELSE Goto("record")
  /\ UNCHANGED <<diskVars, runs, cmd, cleaning, job, errors, pending, historyVars>>

(* Mutant: a manifest that is already there is kept.                        *)
OpenManifestOnce ==
  /\ pc = "record"
  /\ IF cmd.outputs = << >> \/ manifest.state # "none"
       THEN Goto("boot") /\ UNCHANGED manifest
       ELSE Goto("saving") /\ manifest' = Torn
  /\ UNCHANGED <<disk, runs, cmd, cleaning, job, errors, pending, historyVars>>

(* __asmx_record_multiboot_artifacts: writeFileSync empties the old         *)
(* manifest, then writes the new one.  An error is logged and swallowed.    *)
OpenManifest ==
  /\ pc = "record"
  /\ IF cmd.outputs = << >> THEN Goto("boot") /\ UNCHANGED manifest
                            ELSE Goto("saving") /\ manifest' = Torn
  /\ UNCHANGED <<disk, runs, cmd, cleaning, job, errors, pending, historyVars>>

WriteManifest ==
  /\ pc = "saving"
  /\ Goto("boot")
  /\ manifest' = Saved(cmd.outputs)
  /\ UNCHANGED <<disk, runs, cmd, cleaning, job, errors, pending, historyVars>>

FailToSave ==
  /\ "save" \in Faults
  /\ pc = "saving" \/ (pc = "record" /\ cmd.outputs # << >>)
  /\ Goto("boot")
  /\ unsaved' = TRUE
  /\ UNCHANGED <<diskVars, runs, cmd, cleaning, job, errors, pending, made, kept>>

(* Supervisor.run looks for the target only after the manifest was written. *)
RunSupervisor ==
  /\ pc = "boot"
  /\ IF cmd.target THEN Goto("job") ELSE Exit("error")
  /\ job' = 1
  /\ UNCHANGED <<diskVars, runs, cmd, cleaning, errors, pending, historyVars>>

(* The loop of runway_multiboot.  A source without an output assigns to a   *)
(* variable that was never declared: a ReferenceError.                      *)
NextJob ==
  /\ pc = "job"
  /\ Goto(IF job > Len(cmd.sources) THEN "drain"
          ELSE IF job > Len(cmd.outputs) THEN "rejected" ELSE "access")
  /\ UNCHANGED <<diskVars, runs, cmd, cleaning, job, errors, pending, historyVars>>

(* _execute_compilation_cycle waits for two file checks, then calls the     *)
(* core of the target, which runs to its end without waiting.               *)
BeginCompilation ==
  /\ pc = "access"
  /\ Goto("compile")
  /\ UNCHANGED <<diskVars, runs, cmd, cleaning, job, errors, pending, historyVars>>

Written(file) == disk' = [disk EXCEPT ![file] = "artifact"] /\ made' = made \cup {file}

(* Mutants: every job writes the first output, as the drivers take the      *)
(* first source for their messages; a missing source is tried again.        *)
CompileJobFirstOutput ==
  /\ pc = "compile"
  /\ IF cmd.sources[job] = "compiles" THEN Goto("job") /\ Written(cmd.outputs[1])
     ELSE Goto(IF cmd.sources[job] = "missing" THEN "job" ELSE "rejected") /\ UNCHANGED <<disk, made>>
  /\ job' = IF pc' = "job" THEN job + 1 ELSE job
  /\ UNCHANGED <<manifest, runs, cmd, cleaning, errors, pending, unsaved, kept>>

CompileJobRetry ==
  /\ pc = "compile"
  /\ IF cmd.sources[job] = "compiles" THEN Goto("job") /\ Written(cmd.outputs[job])
     ELSE Goto(IF cmd.sources[job] = "missing" THEN "job" ELSE "rejected") /\ UNCHANGED <<disk, made>>
  /\ job' = IF cmd.sources[job] = "compiles" THEN job + 1 ELSE job
  /\ UNCHANGED <<manifest, runs, cmd, cleaning, errors, pending, unsaved, kept>>

CompileJob ==
  /\ pc = "compile"
  /\ \/ cmd.sources[job] = "compiles" /\ Goto("job") /\ Written(cmd.outputs[job])
     \/ cmd.sources[job] = "missing" /\ Goto("job") /\ UNCHANGED <<disk, made>>
     \/ cmd.sources[job] = "throws" /\ Goto("rejected") /\ UNCHANGED <<disk, made>>
     \/ cmd.sources[job] = "exits" /\ Exit("ok") /\ UNCHANGED <<disk, made>>
     \/ cmd.sources[job] = "exits" /\ Exit("error") /\ UNCHANGED <<disk, made>>
  /\ job' = IF pc' = "job" THEN job + 1 ELSE job
  /\ UNCHANGED <<manifest, runs, cmd, cleaning, errors, pending, unsaved, kept>>

-----------------------------------------------------------------------------
(* build_multiclean.  A manifest that cannot be parsed ends it.             *)
ReadManifest ==
  /\ pc = "multiclean"
  /\ IF manifest.state = "saved" THEN Goto("clean") ELSE Exit("error")
  /\ job' = 1
  /\ UNCHANGED <<diskVars, runs, cmd, cleaning, errors, pending, historyVars>>

Entry == manifest.files[job]
Cleaned == pc = "clean" /\ job > Len(manifest.files)

(* Mutant: an entry without a file ends the loop instead of this iteration. *)
RemoveFileOrStop ==
  /\ pc = "clean" /\ job <= Len(manifest.files)
  /\ disk' = [disk EXCEPT ![Entry] = "absent"]
  /\ job' = IF disk[Entry] = "absent" THEN Len(manifest.files) + 1 ELSE job + 1
  /\ kept' = kept \ {Entry}
  /\ UNCHANGED <<manifest, runs, cmd, cleaning, pc, errors, pending, status, made, unsaved>>

RemoveFile ==
  /\ pc = "clean" /\ job <= Len(manifest.files)
  /\ disk' = [disk EXCEPT ![Entry] = "absent"]
  /\ job' = job + 1
  /\ kept' = kept \ {Entry}
  /\ UNCHANGED <<manifest, runs, cmd, cleaning, pc, errors, pending, status, made, unsaved>>

FailToRemove ==
  /\ "unlink" \in Faults
  /\ pc = "clean" /\ job <= Len(manifest.files)
  /\ disk[Entry] # "absent"
  /\ kept' = kept \cup {Entry}
  /\ job' = job + 1
  /\ UNCHANGED <<diskVars, runs, cmd, cleaning, pc, errors, pending, status, made, unsaved>>

(* The manifest goes, whatever could not be removed.                        *)
RemoveManifest ==
  /\ Cleaned
  /\ manifest' = NoManifest
  /\ Exit("ok")
  /\ UNCHANGED <<disk, runs, cmd, cleaning, job, errors, pending, historyVars>>

(* If it cannot be removed either, the process reports a failed clean-up.   *)
FailToRemoveManifest ==
  /\ "unlink" \in Faults
  /\ Cleaned
  /\ Exit("error")
  /\ UNCHANGED <<diskVars, runs, cmd, cleaning, job, errors, pending, historyVars>>

-----------------------------------------------------------------------------
Kernel == Startup \/ OpenManifest \/ WriteManifest \/ FailToSave
Supervisor == RunSupervisor \/ NextJob \/ BeginCompilation \/ CompileJob
Cleanup == ReadManifest \/ RemoveFile \/ FailToRemove \/ RemoveManifest \/ FailToRemoveManifest
Handlers == HandleSignal \/ HandleRejection \/ Drain
Process == Kernel \/ Supervisor \/ Cleanup \/ Handlers
Environment == StartMultiboot \/ StartMulticlean \/ SendSignal \/ Crash

Next == Process \/ Environment

Spec == Init /\ [][Next]_vars

(* The process is one thread that always has a next step; nothing is asked  *)
(* of the user.                                                             *)
FairSpec == Spec /\ WF_vars(Process)
-----------------------------------------------------------------------------
Labels == {"shell", "startup", "record", "saving", "boot", "job", "access", "compile", "rejected",
           "drain", "multiclean", "clean"}

(* The third error that would show as a segmentation fault never counts:    *)
(* the panic at the second one halts the process.                           *)
TypeOK ==
  /\ disk \in [Files -> {"absent", "foreign", "artifact"}]
  /\ manifest.state \in {"none", "torn", "saved"} /\ manifest.files \in Seq(Files)
  /\ runs \in Nat
  /\ cmd \in Build /\ cleaning \in BOOLEAN
  /\ pc \in Labels
  /\ status \in {"running", "ok", "error", "panic", "killed"}
  /\ job \in Nat /\ errors \in 0..2 /\ pending \in Nat
  /\ made \subseteq Files /\ unsaved \in BOOLEAN /\ kept \subseteq Files

Artifacts == {f \in Files : disk[f] = "artifact"}

(* What the last run has made and is still there is named by the manifest,  *)
(* wherever the run or a later clean-up was killed, panicked or failed, so  *)
(* that the next clean-up finds it.  There are two exceptions, and the      *)
(* process reports each when it happens.  A manifest that could not be      *)
(* saved (kernel.js:295) names the files of an older run or none.  And once *)
(* a clean-up has gone through its list, the manifest goes (335) even if    *)
(* some file could not be removed (330): no later clean-up knows of that    *)
(* file.  Nothing else is ever forgotten.                                   *)
CleanupPossible ==
  ~unsaved => IF manifest.state = "saved" THEN made \cap Artifacts \subseteq Elements(manifest.files)
                                          ELSE made \cap Artifacts \subseteq kept

(* When a clean-up ends well, no file of the manifest is left but those it  *)
(* reported it could not remove.                                            *)
CleanupComplete ==
  [][manifest.state = "saved" /\ manifest'.state = "none" =>
       \A f \in Elements(manifest.files) : disk[f] = "absent" \/ f \in kept]_vars

(* The output of a job is there, written by this run.                       *)
OutputMade(j) ==
  j \in DOMAIN cmd.outputs /\ disk[cmd.outputs[j]] = "artifact" /\ cmd.outputs[j] \in made

(* A job that compiled has written its file, and has it in place when the   *)
(* next one starts and as long as the process runs, whatever becomes of the *)
(* other jobs.                                                              *)
JobsDone ==
  \A j \in DOMAIN cmd.sources : cmd.sources[j] = "compiles" /\ j < job => OutputMade(j)

(* A run that ends with status 0 has written the output of every job that   *)
(* compiles, unless an error was counted or a compiler called process.exit  *)
(* (supervisor.js:61).  The exception is needed: a rejection or a signal    *)
(* ends or follows the loop, is counted and, if it is the first, forgotten  *)
(* by the status (kernel.js:489); an error that is not even counted would   *)
(* leave a run nobody can tell from a complete one.                         *)
SuccessIsComplete ==
  pc = "shell" /\ status = "ok" /\ ~cleaning /\ errors = 0 /\ "exits" \notin Elements(cmd.sources) =>
    \A j \in DOMAIN cmd.sources : cmd.sources[j] = "compiles" => OutputMade(j)

(* Whatever happens to it, a process ends.                                  *)
Ends == pc # "shell" ~> pc = "shell"

-----------------------------------------------------------------------------
(* What the change log says of these commands.                              *)

(* "--multiclean removes all artifacts created by any --multiboot run".     *)
AllRemembered == Artifacts \subseteq Elements(manifest.files) \/ manifest.state = "torn"

(* "if one subjob fails, the rest continue".                                *)
RestContinue ==
  pc = "shell" /\ status \in {"ok", "error"} /\ job > 0 /\ ~cleaning => job >= Len(cmd.sources)
=============================================================================
