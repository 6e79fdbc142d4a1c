--------------------------- MODULE MultibootProofs ---------------------------
(***************************************************************************)
(* The safety properties of Multiboot, for all sets of files, command      *)
(* lines, faults and bounds.                                               *)
(***************************************************************************)
EXTENDS Multiboot, TLAPS

(* Two errors halt the process, one if the user asked for it.               *)
ErrorsBounded == pc # "shell" => errors < 2 /\ (cmd.emergency => errors = 0)

(* Where the process stands says which command it runs and bounds the job.  *)
ControlInv ==
  /\ cleaning => cmd = Multiclean
  /\ pc \in {"record", "saving", "boot", "job", "access", "compile"} => ~cleaning
  /\ pc \in {"multiclean", "clean"} => cleaning
  /\ pc \in {"job", "access", "compile", "clean"} => job >= 1
  /\ pc \in {"access", "compile"} => job <= Len(cmd.sources) /\ job <= Len(cmd.outputs)

(* Nothing is written before the manifest, which then lists every output.   *)
RecordInv ==
  /\ pc \in {"startup", "record", "saving", "boot"} /\ ~cleaning => made = {}
  /\ pc \in {"boot", "job", "access", "compile"} /\ ~unsaved /\ cmd.outputs # << >>
       => manifest = Saved(cmd.outputs)

(* A manifest that is there names what the last run left.                   *)
ManifestCovers ==
  ~unsaved /\ manifest.state = "saved" => made \cap Artifacts \subseteq Elements(manifest.files)

(* It is there while something is left that could still be removed.         *)
CleanupRepeats ==
  ~unsaved /\ (made \cap Artifacts) \ kept # {} => manifest.state = "saved"

(* The end is reached behind the last job, or with an error counted.        *)
DrainInv ==
  LET Over == errors >= 1 \/ job > Len(cmd.sources) IN
  /\ pc = "drain" => Over
  /\ pc = "shell" /\ status = "ok" /\ ~cleaning => Over \/ "exits" \in Elements(cmd.sources)

(* A clean-up has dealt with every entry before the one it stands at.       *)
CleanInv ==
  pc = "clean" =>
    /\ manifest.state = "saved"
    /\ \A k \in DOMAIN manifest.files :
         k < job => disk[manifest.files[k]] = "absent" \/ manifest.files[k] \in kept

Core == TypeOK /\ ErrorsBounded /\ ControlInv

LEMMA BuildFields ==
  ASSUME NEW command \in Build
  PROVE  /\ command.sources \in Seq(Outcomes)
         /\ command.outputs \in Seq(Files)
         /\ command.target \in BOOLEAN
         /\ command.emergency \in BOOLEAN
BY DEF Build

LEMMA MulticleanIsBuild == Multiclean \in Build
BY DEF Multiclean, Build

-----------------------------------------------------------------------------
LEMMA CoreInit == Init => Core
<1> SUFFICES ASSUME Init PROVE Core
  OBVIOUS
<1>1. disk \in [Files -> {"absent", "foreign", "artifact"}]
  BY DEF Init
<1>2. manifest.state \in {"none", "torn", "saved"} /\ manifest.files \in Seq(Files)
  BY DEF Init, NoManifest
<1>3. cmd \in Build
  BY MulticleanIsBuild DEF Init
<1>4. TypeOK
  <2>1. /\ runs \in Nat /\ job \in Nat /\ errors \in 0..2 /\ pending \in Nat
        /\ made \subseteq Files /\ kept \subseteq Files
    BY DEF Init
  <2>3. cleaning \in BOOLEAN /\ unsaved \in BOOLEAN
    BY Zenon DEF Init
  <2>2. pc \in Labels /\ status \in {"running", "ok", "error", "panic", "killed"}
    BY DEF Init, Labels
  <2> QED
    BY <1>1, <1>2, <1>3, <2>1, <2>2, <2>3 DEF TypeOK
<1> QED
  BY <1>4 DEF Init, Core, ErrorsBounded, ControlInv

LEMMA CoreStep ==
  ASSUME Core, [Next]_vars
  PROVE  Core'
<1> USE DEF Core, TypeOK, ErrorsBounded, ControlInv, Labels, diskVars, historyVars, Goto, Exit
<1>b. /\ cmd \in Build
      /\ cmd.sources \in Seq(Outcomes) /\ cmd.outputs \in Seq(Files)
      /\ cmd.emergency \in BOOLEAN /\ cmd.target \in BOOLEAN
  BY BuildFields
<1>count. ASSUME NEW label, label \in Labels, CountError(label), pc # "shell"
          PROVE  /\ errors' \in 0..2
                 /\ \/ /\ pc' = label /\ status' = status
                       /\ errors' < 2 /\ ~cmd.emergency
                    \/ pc' = "shell" /\ status' = "panic"
  <2>1. CASE Panics(errors + 1)
    BY <1>count, <2>1 DEF CountError
  <2>2. CASE ~Panics(errors + 1)
    <3>1. ~cmd.emergency /\ errors + 1 < 2
      BY <2>2 DEF Panics
    <3> QED
      BY <1>count, <2>2, <3>1 DEF CountError
  <2> QED
    BY <2>1, <2>2
<1>1. CASE StartMultiboot
  <2>1. PICK c \in Builds : Start(c, FALSE)
    BY <1>1 DEF StartMultiboot
  <2>2. cmd' \in Build
    BY <2>1, BuildsAssumption DEF Start
  <2>3. TypeOK'
    <3>1. /\ runs' \in Nat /\ job' = 0 /\ errors' = 0 /\ pending' = 0
          /\ made' = {} /\ kept' = {}
          /\ pc' = "startup" /\ status' = "running"
          /\ UNCHANGED <<disk, manifest>>
      BY <2>1 DEF Start
    <3>2. cleaning' \in BOOLEAN /\ unsaved' \in BOOLEAN
      BY <2>1, Zenon DEF Start
    <3> QED
      BY <2>2, <3>1, <3>2
  <2> QED
    BY <2>1, <2>3 DEF Start
<1>2. CASE StartMulticlean
  BY <1>2, MulticleanIsBuild DEF StartMulticlean, Start
<1>3. CASE SendSignal
  BY <1>3 DEF SendSignal
<1>4. CASE Crash
  BY <1>4 DEF Crash
<1>5. CASE HandleSignal
  BY <1>5, <1>count DEF HandleSignal
<1>6. CASE HandleRejection
  BY <1>6, <1>count DEF HandleRejection
<1>7. CASE Drain
  BY <1>7 DEF Drain
<1>8. CASE Startup
  BY <1>8 DEF Startup
<1>9. CASE OpenManifest
  <2>1. manifest'.state \in {"none", "torn", "saved"} /\ manifest'.files \in Seq(Files)
    <3>1. manifest' = manifest \/ manifest' = Torn
      BY <1>9 DEF OpenManifest
    <3>2. Torn.state = "torn" /\ Torn.files \in Seq(Files)
      BY DEF Torn
    <3> QED
      BY <3>1, <3>2
  <2>2. /\ pc' \in {"boot", "saving"}
        /\ UNCHANGED <<disk, runs, cmd, cleaning, job, errors, pending, status, made, unsaved, kept>>
    BY <1>9 DEF OpenManifest
  <2> QED
    BY <1>9, <2>1, <2>2 DEF OpenManifest
<1>10. CASE WriteManifest
  BY <1>10, <1>b DEF WriteManifest, Saved
<1>11. CASE FailToSave
  BY <1>11 DEF FailToSave
<1>12. CASE RunSupervisor
  BY <1>12 DEF RunSupervisor
<1>13. CASE NextJob
  BY <1>13, <1>b DEF NextJob
<1>14. CASE BeginCompilation
  BY <1>14 DEF BeginCompilation
<1>15. CASE CompileJob
  <2>1. job \in 1..Len(cmd.outputs) /\ cmd.outputs[job] \in Files
    BY <1>15, <1>b DEF CompileJob
  <2>2. disk' \in [Files -> {"absent", "foreign", "artifact"}] /\ made' \subseteq Files
    BY <1>15, <2>1 DEF CompileJob, Written
  <2>3. job' \in Nat /\ job' >= 1
    BY <1>15, <2>1 DEF CompileJob
  <2> QED
    BY <1>15, <2>2, <2>3 DEF CompileJob
<1>16. CASE ReadManifest
  BY <1>16 DEF ReadManifest
<1>17. CASE RemoveFile
  <2>1. Entry \in Files
    BY <1>17 DEF RemoveFile, Entry
  <2> QED
    BY <1>17, <2>1 DEF RemoveFile
<1>18. CASE FailToRemove
  <2>1. Entry \in Files
    BY <1>18 DEF FailToRemove, Entry
  <2> QED
    BY <1>18, <2>1 DEF FailToRemove
<1>19. CASE RemoveManifest
  BY <1>19 DEF RemoveManifest, Cleaned, NoManifest
<1>20. CASE FailToRemoveManifest
  BY <1>20 DEF FailToRemoveManifest, Cleaned
<1>21. CASE UNCHANGED vars
  BY <1>21 DEF vars
<1> QED
  BY <1>1, <1>2, <1>3, <1>4, <1>5, <1>6, <1>7, <1>8, <1>9, <1>10, <1>11, <1>12, <1>13, <1>14,
     <1>15, <1>16, <1>17, <1>18, <1>19, <1>20, <1>21
     DEF Next, Process, Kernel, Supervisor, Cleanup, Handlers, Environment

-----------------------------------------------------------------------------
(* Most steps touch neither files nor manifest nor the list of jobs: they   *)
(* only move the process.                                                   *)
Quiet ==
  /\ UNCHANGED <<disk, manifest, cmd, cleaning, job, made, unsaved, kept>>
  /\ \/ pc' \in {pc, "shell", "drain", "rejected", "multiclean"}
     \/ pc = "startup" /\ pc' = "record" /\ ~cleaning
     \/ pc \in {"job", "access"} /\ pc' \in {"access", "compile"}

LEMMA Kinds ==
  ASSUME [Next]_vars
  PROVE  \/ StartMultiboot \/ StartMulticlean
         \/ OpenManifest \/ WriteManifest \/ FailToSave
         \/ RunSupervisor \/ CompileJob
         \/ ReadManifest \/ RemoveFile \/ FailToRemove \/ RemoveManifest
         \/ Quiet
<1> USE DEF Quiet, Goto, Exit, diskVars, historyVars
<1>1. CASE SendSignal
  BY <1>1 DEF SendSignal
<1>2. CASE Crash
  BY <1>2 DEF Crash
<1>3. CASE HandleSignal
  BY <1>3 DEF HandleSignal, CountError
<1>4. CASE HandleRejection
  BY <1>4 DEF HandleRejection, CountError
<1>5. CASE Drain
  BY <1>5 DEF Drain
<1>6. CASE Startup
  BY <1>6 DEF Startup
<1>7. CASE NextJob
  BY <1>7 DEF NextJob
<1>8. CASE BeginCompilation
  BY <1>8 DEF BeginCompilation
<1>9. CASE FailToRemoveManifest
  BY <1>9 DEF FailToRemoveManifest
<1>10. CASE UNCHANGED vars
  BY <1>10 DEF vars
<1> QED
  BY <1>1, <1>2, <1>3, <1>4, <1>5, <1>6, <1>7, <1>8, <1>9, <1>10
     DEF Next, Process, Kernel, Supervisor, Cleanup, Handlers, Environment

LEMMA RecordStep ==
  ASSUME Core, RecordInv, [Next]_vars
  PROVE  RecordInv'
<1> USE DEF RecordInv, Goto, Exit, diskVars, historyVars
<1>1. CASE StartMultiboot
  BY <1>1 DEF StartMultiboot, Start
<1>2. CASE StartMulticlean
  BY <1>2 DEF StartMulticlean, Start
<1>3. CASE OpenManifest
  BY <1>3 DEF OpenManifest
<1>4. CASE WriteManifest
  BY <1>4 DEF WriteManifest
<1>5. CASE FailToSave
  BY <1>5 DEF FailToSave
<1>6. CASE RunSupervisor
  BY <1>6 DEF RunSupervisor
<1>7. CASE CompileJob
  BY <1>7 DEF CompileJob
<1>8. CASE ReadManifest
  BY <1>8 DEF ReadManifest
<1>9. CASE RemoveFile \/ FailToRemove \/ RemoveManifest
  BY <1>9 DEF RemoveFile, FailToRemove, RemoveManifest, Cleaned
<1>10. CASE Quiet
  BY <1>10 DEF Quiet
<1> QED
  BY <1>1, <1>2, <1>3, <1>4, <1>5, <1>6, <1>7, <1>8, <1>9, <1>10, Kinds

LEMMA CleanStep ==
  ASSUME Core, CleanInv, [Next]_vars
  PROVE  CleanInv'
<1> USE DEF CleanInv, Goto, Exit, diskVars, historyVars, Core, TypeOK
<1>1. CASE StartMultiboot \/ StartMulticlean
  BY <1>1 DEF StartMultiboot, StartMulticlean, Start
<1>2. CASE OpenManifest \/ WriteManifest \/ FailToSave \/ RunSupervisor
  BY <1>2 DEF OpenManifest, WriteManifest, FailToSave, RunSupervisor
<1>3. CASE CompileJob
  BY <1>3 DEF CompileJob
<1>4. CASE ReadManifest
  BY <1>4 DEF ReadManifest
<1>5. CASE RemoveFile
  <2>1. Entry \in Files /\ Entry = manifest.files[job] /\ job \in DOMAIN manifest.files
    BY <1>5 DEF RemoveFile, Entry, ControlInv
  <2>2. disk'[Entry] = "absent" /\ kept' = kept \ {Entry}
    BY <1>5, <2>1 DEF RemoveFile
  <2>3. \A f \in Files \ {Entry} : disk'[f] = disk[f]
    BY <1>5, <2>1 DEF RemoveFile
  <2>4. ASSUME NEW k \in DOMAIN manifest.files, k < job'
        PROVE  disk'[manifest.files[k]] = "absent" \/ manifest.files[k] \in kept'
    <3>1. manifest.files[k] \in Files /\ (k < job \/ k = job)
      BY <1>5, <2>4 DEF RemoveFile
    <3>2. CASE manifest.files[k] = Entry
      BY <3>2, <2>2
    <3>3. CASE manifest.files[k] # Entry
      <4>1. k < job
        BY <3>1, <3>3, <2>1
      <4> QED
        BY <1>5, <2>2, <2>3, <3>1, <3>3, <4>1 DEF RemoveFile
    <3> QED
      BY <3>2, <3>3
  <2> QED
    BY <1>5, <2>4 DEF RemoveFile
<1>6. CASE FailToRemove
  BY <1>6 DEF FailToRemove, Entry
<1>7. CASE RemoveManifest
  BY <1>7 DEF RemoveManifest
<1>8. CASE Quiet
  BY <1>8 DEF Quiet
<1> QED
  BY <1>1, <1>2, <1>3, <1>4, <1>5, <1>6, <1>7, <1>8, Kinds

-----------------------------------------------------------------------------
(* Artifacts only appear where a job compiles.                              *)
LEMMA ArtifactsAppear ==
  ASSUME Core, [Next]_vars
  PROVE  \/ CompileJob
         \/ Artifacts' \subseteq Artifacts
<1> USE DEF Artifacts, Core, TypeOK, diskVars
<1>1. CASE StartMultiboot \/ StartMulticlean
  BY <1>1 DEF StartMultiboot, StartMulticlean, Start
<1>2. CASE OpenManifest \/ WriteManifest \/ FailToSave \/ RunSupervisor \/ ReadManifest
  BY <1>2 DEF OpenManifest, WriteManifest, FailToSave, RunSupervisor, ReadManifest
<1>3. CASE RemoveFile
  BY <1>3 DEF RemoveFile, Entry
<1>4. CASE FailToRemove \/ RemoveManifest \/ Quiet
  BY <1>4 DEF FailToRemove, RemoveManifest, Quiet
<1> QED
  BY <1>1, <1>2, <1>3, <1>4, Kinds

LEMMA CoversStep ==
  ASSUME Core, RecordInv, ManifestCovers, [Next]_vars
  PROVE  ManifestCovers'
<1> USE DEF ManifestCovers, Goto, Exit, diskVars, historyVars
<1>1. CASE CompileJob
  <2>1. CASE cmd.sources[job] = "compiles"
    <3>1. job \in DOMAIN cmd.outputs /\ cmd.outputs # << >>
      BY <1>1, BuildFields DEF CompileJob, Core, TypeOK, ControlInv
    <3>2. ~unsaved => manifest = Saved(cmd.outputs)
      BY <1>1, <3>1 DEF CompileJob, RecordInv
    <3>3. ~unsaved => cmd.outputs[job] \in Elements(manifest.files)
      BY <3>1, <3>2 DEF Saved, Elements
    <3>4. Artifacts' \subseteq Artifacts \cup {cmd.outputs[job]}
      BY <1>1, <2>1 DEF CompileJob, Written, Artifacts, Core, TypeOK
    <3>5. made' \subseteq made \cup {cmd.outputs[job]} /\ UNCHANGED <<manifest, unsaved>>
      BY <1>1, <2>1 DEF CompileJob, Written
    <3>6. ASSUME ~unsaved, manifest.state = "saved", NEW f \in made' \cap Artifacts'
          PROVE  f \in Elements(manifest.files)
      <4>1. CASE f = cmd.outputs[job]
        BY <3>3, <3>6, <4>1
      <4>2. CASE f # cmd.outputs[job]
        BY <3>4, <3>5, <3>6, <4>2
      <4> QED
        BY <4>1, <4>2
    <3> QED
      BY <3>5, <3>6 DEF Elements
  <2>2. CASE cmd.sources[job] # "compiles"
    BY <1>1, <2>2 DEF CompileJob, Artifacts, Elements
  <2> QED
    BY <2>1, <2>2
<1>2. CASE Artifacts' \subseteq Artifacts
  <2>1. CASE StartMultiboot
    BY <2>1 DEF StartMultiboot, Start
  <2>2. CASE StartMulticlean \/ RunSupervisor \/ ReadManifest \/ FailToRemove \/ RemoveFile \/ Quiet
    BY <1>2, <2>2 DEF StartMulticlean, Start, RunSupervisor, ReadManifest, FailToRemove, RemoveFile,
                      Quiet, Elements
  <2>3. CASE OpenManifest
    BY <1>2, <2>3 DEF OpenManifest, Torn, Elements
  <2>4. CASE WriteManifest
    BY <2>4 DEF WriteManifest, RecordInv, Core, ControlInv
  <2>5. CASE FailToSave
    BY <2>5 DEF FailToSave
  <2>6. CASE RemoveManifest
    BY <2>6 DEF RemoveManifest, NoManifest
  <2> QED
    BY <1>1, <2>1, <2>2, <2>3, <2>4, <2>5, <2>6, Kinds
<1> QED
  BY <1>1, <1>2, ArtifactsAppear

LEMMA CleanedAll ==
  ASSUME Core, CleanInv, Cleaned
  PROVE  \A f \in Elements(manifest.files) : disk[f] = "absent" \/ f \in kept
<1>1. \A k \in DOMAIN manifest.files : k < job
  BY DEF Cleaned, Core, TypeOK
<1> QED
  BY <1>1 DEF CleanInv, Cleaned, Elements

LEMMA RepeatsStep ==
  ASSUME Core, RecordInv, CleanInv, ManifestCovers, CleanupRepeats, [Next]_vars
  PROVE  CleanupRepeats'
<1> USE DEF CleanupRepeats, Goto, Exit, diskVars, historyVars
<1>1. CASE CompileJob
  <2>1. CASE cmd.sources[job] = "compiles"
    <3>1. cmd.outputs # << >>
      BY <1>1, BuildFields DEF CompileJob, Core, TypeOK, ControlInv
    <3> QED
      BY <1>1, <3>1 DEF CompileJob, RecordInv, Saved
  <2>2. CASE cmd.sources[job] # "compiles"
    BY <1>1, <2>2 DEF CompileJob, Artifacts
  <2> QED
    BY <2>1, <2>2
<1>2. CASE StartMultiboot
  BY <1>2 DEF StartMultiboot, Start
<1>3. CASE StartMulticlean \/ RunSupervisor \/ ReadManifest \/ Quiet
  BY <1>3 DEF StartMulticlean, Start, RunSupervisor, ReadManifest, Quiet, Artifacts
<1>4. CASE OpenManifest
  BY <1>4 DEF OpenManifest, RecordInv, Core, ControlInv, Artifacts
<1>5. CASE WriteManifest
  BY <1>5 DEF WriteManifest, Saved
<1>6. CASE FailToSave
  BY <1>6 DEF FailToSave
<1>7. CASE RemoveFile \/ FailToRemove
  BY <1>7 DEF RemoveFile, FailToRemove, CleanInv
<1>8. CASE RemoveManifest
  <2>1. UNCHANGED <<disk, made, kept, unsaved>> /\ Cleaned /\ manifest.state = "saved"
    BY <1>8 DEF RemoveManifest, CleanInv, Cleaned
  <2>2. \A f \in Elements(manifest.files) : disk[f] = "absent" \/ f \in kept
    BY <2>1, CleanedAll
  <2>3. ~unsaved => (made \cap Artifacts) \ kept = {}
    BY <2>1, <2>2 DEF ManifestCovers, Artifacts
  <2> QED
    BY <2>1, <2>3 DEF Artifacts
<1> QED
  BY <1>1, <1>2, <1>3, <1>4, <1>5, <1>6, <1>7, <1>8, Kinds

LEMMA JobsStep ==
  ASSUME Core, JobsDone, [Next]_vars
  PROVE  JobsDone'
<1> USE DEF JobsDone, OutputMade, Core, TypeOK, Goto, Exit, diskVars, historyVars
<1>1. CASE CompileJob
  <2>1. /\ job \in DOMAIN cmd.sources /\ cmd' = cmd
        /\ \A j \in DOMAIN cmd.sources : j <= job => j \in DOMAIN cmd.outputs /\ cmd.outputs[j] \in Files
    BY <1>1, BuildFields DEF CompileJob, ControlInv
  <2>2. CASE cmd.sources[job] = "compiles"
    <3>1. /\ disk' = [disk EXCEPT ![cmd.outputs[job]] = "artifact"] /\ job' = job + 1
          /\ made' = made \cup {cmd.outputs[job]}
      BY <1>1, <2>2 DEF CompileJob, Written
    <3> SUFFICES ASSUME NEW j \in DOMAIN cmd.sources, cmd.sources[j] = "compiles", j < job'
                 PROVE  OutputMade(j)'
      BY <2>1
    <3>2. j <= job /\ j \in DOMAIN cmd.outputs /\ cmd.outputs[j] \in Files
      BY <2>1, <3>1, BuildFields
    <3>3. CASE cmd.outputs[j] = cmd.outputs[job]
      BY <2>1, <3>1, <3>2, <3>3
    <3>4. CASE cmd.outputs[j] # cmd.outputs[job]
      <4>1. j < job
        BY <3>2, <3>4, BuildFields
      <4>2. disk[cmd.outputs[j]] = "artifact" /\ cmd.outputs[j] \in made
        BY <4>1
      <4> QED
        BY <2>1, <3>1, <3>2, <3>4, <4>2
    <3> QED
      BY <3>3, <3>4
  <2>3. CASE cmd.sources[job] # "compiles"
    <3>1. disk' = disk /\ made' = made /\ job' \in {job, job + 1}
      BY <1>1, <2>3 DEF CompileJob
    <3>2. \A j \in DOMAIN cmd.sources : cmd.sources[j] = "compiles" /\ j < job' => j < job
      BY <2>3, <3>1, BuildFields
    <3> QED
      BY <2>1, <3>1, <3>2
  <2> QED
    BY <2>2, <2>3
<1>2. CASE StartMultiboot \/ StartMulticlean
  <2>1. job' = 0 /\ cmd' \in Build
    BY <1>2, MulticleanIsBuild, BuildsAssumption DEF StartMultiboot, StartMulticlean, Start
  <2>2. \A j \in DOMAIN cmd'.sources : ~(j < job')
    BY <2>1, BuildFields
  <2> QED
    BY <2>2
<1>3. CASE RunSupervisor \/ ReadManifest
  <2>1. job' = 1 /\ cmd' = cmd
    BY <1>3 DEF RunSupervisor, ReadManifest
  <2>2. \A j \in DOMAIN cmd'.sources : ~(j < job')
    BY <2>1, BuildFields
  <2> QED
    BY <2>2
<1>4. CASE OpenManifest \/ WriteManifest \/ FailToSave \/ Quiet
  BY <1>4 DEF OpenManifest, WriteManifest, FailToSave, Quiet
<1>5. CASE RemoveFile \/ FailToRemove \/ RemoveManifest
  <2>1. cmd' = cmd /\ cmd.sources = << >>
    BY <1>5 DEF RemoveFile, FailToRemove, RemoveManifest, Cleaned, ControlInv, Multiclean
  <2> QED
    BY <2>1
<1> QED
  BY <1>1, <1>2, <1>3, <1>4, <1>5, Kinds

(* The loop is left behind the last job, by an exit or by an exception,     *)
(* which is counted before the process drains.                              *)
LEMMA DrainStep ==
  ASSUME Core, DrainInv, [Next]_vars
  PROVE  DrainInv'
<1> USE DEF DrainInv, Core, TypeOK, Goto, Exit, diskVars, historyVars
<1>count. ASSUME CountError("drain") PROVE errors' >= 1
  BY <1>count DEF CountError
<1>1. CASE StartMultiboot \/ StartMulticlean
  BY <1>1 DEF StartMultiboot, StartMulticlean, Start
<1>2. CASE SendSignal
  BY <1>2 DEF SendSignal
<1>3. CASE Crash
  BY <1>3 DEF Crash
<1>4. CASE HandleSignal
  <2>1. errors' >= 1 /\ cmd' = cmd
    BY <1>4 DEF HandleSignal, CountError
  <2> QED
    BY <2>1
<1>5. CASE HandleRejection
  <2>1. errors' >= 1 /\ cmd' = cmd
    BY <1>5, <1>count DEF HandleRejection
  <2> QED
    BY <2>1
<1>6. CASE Drain
  BY <1>6 DEF Drain
<1>7. CASE Startup \/ OpenManifest \/ WriteManifest \/ FailToSave
  BY <1>7 DEF Startup, OpenManifest, WriteManifest, FailToSave
<1>8. CASE RunSupervisor
  BY <1>8 DEF RunSupervisor
<1>9. CASE NextJob
  BY <1>9 DEF NextJob
<1>10. CASE BeginCompilation
  BY <1>10 DEF BeginCompilation
<1>11. CASE CompileJob
  <2>1. job \in DOMAIN cmd.sources /\ cmd' = cmd
    BY <1>11, BuildFields DEF CompileJob, ControlInv
  <2>2. pc' = "shell" => "exits" \in Elements(cmd'.sources)
    BY <1>11, <2>1 DEF CompileJob, Elements
  <2>3. pc' \in {"shell", "job", "rejected"}
    BY <1>11 DEF CompileJob
  <2> QED
    BY <2>2, <2>3
<1>12. CASE ReadManifest \/ RemoveFile \/ FailToRemove \/ RemoveManifest \/ FailToRemoveManifest
  BY <1>12 DEF ReadManifest, RemoveFile, FailToRemove, RemoveManifest, FailToRemoveManifest, Cleaned,
               ControlInv
<1>13. CASE UNCHANGED vars
  BY <1>13 DEF vars
<1> QED
  BY <1>1, <1>2, <1>3, <1>4, <1>5, <1>6, <1>7, <1>8, <1>9, <1>10, <1>11, <1>12, <1>13
     DEF Next, Process, Kernel, Supervisor, Cleanup, Handlers, Environment

LEMMA CompleteStep ==
  ASSUME Core, CleanInv, [Next]_vars, manifest.state = "saved", manifest'.state = "none"
  PROVE  \A f \in Elements(manifest.files) : disk[f] = "absent" \/ f \in kept
<1> USE DEF diskVars
<1>1. CASE RemoveManifest
  BY <1>1, CleanedAll DEF RemoveManifest
<1>2. CASE OpenManifest \/ WriteManifest \/ FailToSave
  BY <1>2 DEF OpenManifest, WriteManifest, FailToSave, Torn, Saved
<1>3. CASE StartMultiboot \/ StartMulticlean
  BY <1>3 DEF StartMultiboot, StartMulticlean, Start
<1>4. CASE RunSupervisor \/ CompileJob \/ ReadManifest \/ RemoveFile \/ FailToRemove \/ Quiet
  BY <1>4 DEF RunSupervisor, CompileJob, ReadManifest, RemoveFile, FailToRemove, Quiet
<1> QED
  BY <1>1, <1>2, <1>3, <1>4, Kinds

-----------------------------------------------------------------------------
Inv == Core /\ RecordInv /\ CleanInv /\ ManifestCovers /\ CleanupRepeats /\ JobsDone /\ DrainInv

(* The inductive invariant of a kernel that builds, halts and cleans.       *)
THEOREM MultibootInvariant == Spec => []Inv
<1>1. ASSUME Init PROVE Inv
  <2>1. Core
    BY <1>1, CoreInit
  <2>2. RecordInv /\ CleanInv
    BY <1>1 DEF Init, RecordInv, CleanInv
  <2>3. ManifestCovers /\ CleanupRepeats
    BY <1>1 DEF Init, ManifestCovers, CleanupRepeats, NoManifest
  <2>4. JobsDone
    BY <1>1 DEF Init, JobsDone, OutputMade, Multiclean
  <2>5. DrainInv
    BY <1>1 DEF Init, DrainInv, Multiclean
  <2> QED
    BY <2>1, <2>2, <2>3, <2>4, <2>5 DEF Inv
<1>2. ASSUME Inv, [Next]_vars PROVE Inv'
  BY <1>2, CoreStep, RecordStep, CleanStep, CoversStep, RepeatsStep, JobsStep, DrainStep DEF Inv
<1> QED
  BY <1>1, <1>2, PTL DEF Spec

(* Every variable has its type; in particular the kernel counts no third    *)
(* error, so its report of a segmentation fault is never reached.           *)
THEOREM MultibootTypeCorrect == Spec => []TypeOK
<1>1. Inv => TypeOK
  BY DEF Inv, Core
<1> QED
  BY <1>1, MultibootInvariant, PTL

(* What compiled is in place when the next job starts.                      *)
THEOREM CompiledJobsWritten == Spec => []JobsDone
<1>1. Inv => JobsDone
  BY DEF Inv
<1> QED
  BY <1>1, MultibootInvariant, PTL

(* The manifest is removed only when each of its files was removed or       *)
(* reported.                                                                *)
THEOREM CleanupCompletes == Spec => CleanupComplete
<1>1. ASSUME Inv, [Next]_vars
      PROVE  manifest.state = "saved" /\ manifest'.state = "none" =>
               \A f \in Elements(manifest.files) : disk[f] = "absent" \/ f \in kept
  BY <1>1, CompleteStep DEF Inv
<1> QED
  BY <1>1, MultibootInvariant, PTL DEF Spec, CleanupComplete

(* What a run leaves is named by the manifest, unless saving it or removing *)
(* the file itself has failed.                                              *)
THEOREM LeftoversNamed == Spec => []CleanupPossible
<1>1. Inv => CleanupPossible
  BY DEF Inv, ManifestCovers, CleanupRepeats, CleanupPossible
<1> QED
  BY <1>1, MultibootInvariant, PTL

(* Status 0 and no error counted mean that every output is in place.        *)
THEOREM SuccessAlwaysComplete == Spec => []SuccessIsComplete
<1>1. ASSUME Inv PROVE SuccessIsComplete
  <2> SUFFICES ASSUME pc = "shell", status = "ok", ~cleaning, errors = 0,
                      "exits" \notin Elements(cmd.sources),
                      NEW j \in DOMAIN cmd.sources, cmd.sources[j] = "compiles"
               PROVE  OutputMade(j)
    BY DEF SuccessIsComplete
  <2>1. job > Len(cmd.sources)
    BY <1>1 DEF Inv, DrainInv
  <2>2. j < job
    BY <1>1, <2>1, BuildFields DEF Inv, Core, TypeOK
  <2> QED
    BY <1>1, <2>2 DEF Inv, JobsDone
<1> QED
  BY <1>1, MultibootInvariant, PTL
=============================================================================
