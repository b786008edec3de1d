---------------------------- MODULE BundleExport ----------------------------
(***************************************************************************)
(* PublicationProjectionService.export (publishing/projection.py): the     *)
(* public bundle is written beside its target directory and swapped in by  *)
(* two renames.  Neither the CLI nor the API takes a lock for it, so an    *)
(* export from the command line may run beside the worker's.               *)
(*                                                                         *)
(* A bundle is what the properties tell apart: the artifact its file       *)
(* hashes stand for (files), and the rest of manifest.json, such as the    *)
(* number of pending reviews, which no file repeats (meta).  Every export  *)
(* uses fresh names for its stage and backup directories.                  *)
(***************************************************************************)
EXTENDS Integers, FiniteSets

CONSTANTS
  Processes,    \* worker and CLI processes
  Exporters,    \* those that export
  Artifacts,    \* contents of the bundle's files
  Manifests,    \* contents of manifest.json, its file hashes aside
  None,         \* a missing file
  MaxEdits,     \* bound: how often the ledger changes
  MaxFaults,    \* bound: how many commands and file operations fail
  MaxCrashes    \* bound: how many processes are killed

ASSUME NoneAssumption == None \notin Artifacts /\ None \notin Manifests
ASSUME ExporterAssumption == Exporters \subseteq Processes
ASSUME ExportBounds   == /\ MaxEdits \in Nat
                         /\ MaxFaults \in Nat
                         /\ MaxCrashes \in Nat

VARIABLES
  ledger,       \* the bundle an export of the committed ledger has
  target,       \* the directory export_path
  image,        \* what each process read of the ledger and has yet to write
  stage,        \* each process's stage directory
  backup,       \* each process's backup directory
  orphans,      \* backup directories no process will come back for
  step,         \* where each process is
  exported,     \* history: some export moved a bundle to the target
  edits, faults, crashes

disk       == <<target, stage, backup, orphans>>
budget     == <<edits, faults, crashes>>
exportVars == <<ledger, disk, image, step, exported, budget>>

Bundle  == [files : Artifacts, meta : Manifests]
Dir     == [files : Artifacts \union {None}, meta : Manifests \union {None}]
Absent  == [files |-> None, meta |-> None]
Whole(d) == d \in Bundle    \* validate_publication_bundle accepts d

ExportStep == {"read", "written", "sealed", "found", "aside", "moved", "swapped", "failing"}

Staged == {"sealed", "found", "aside"}    \* the stage is complete

\* Types; and a stage directory exists only while its export runs, or fails.
ExportTypeOK ==
  /\ ledger \in Bundle
  /\ target \in Dir
  /\ image \in [Processes -> Dir]
  /\ stage \in [Processes -> Dir]
  /\ backup \in [Processes -> Dir]
  /\ orphans \subseteq Dir
  /\ exported \in BOOLEAN
  /\ \A p \in Processes :
       /\ step[p] \in Staged => Whole(stage[p])
       /\ stage[p] # Absent => step[p] \in Staged \union {"written", "failing"}
  /\ edits \in 0..MaxEdits /\ faults \in 0..MaxFaults /\ crashes \in 0..MaxCrashes

ExportInit ==
  /\ ledger \in Bundle
  /\ target = Absent
  /\ image = [p \in Processes |-> Absent]
  /\ stage = [p \in Processes |-> Absent]
  /\ backup = [p \in Processes |-> Absent]
  /\ orphans = {}
  /\ step = [p \in Processes |-> "idle"]
  /\ exported = FALSE
  /\ edits = 0 /\ faults = 0 /\ crashes = 0

Goto(p, from, to) == step[p] = from /\ step' = [step EXCEPT ![p] = to]

-----------------------------------------------------------------------------
\* Collection, review or a pipeline commits something the bundle shows.
Edit ==
  /\ edits < MaxEdits
  /\ edits' = edits + 1
  /\ \E b \in Bundle \ {ledger} : ledger' = b
  /\ UNCHANGED <<disk, image, step, exported, faults, crashes>>

\* read_publication_ledger, build_site_data
Read(p) ==
  /\ Goto(p, "idle", "read")
  /\ image' = [image EXCEPT ![p] = ledger]
  /\ UNCHANGED <<ledger, disk, exported, budget>>

\* Mutant: the manifest is left for later.
MutantWriteFiles(p) ==
  /\ Goto(p, "read", "sealed")
  /\ stage' = [stage EXCEPT ![p].files = image[p].files]
  /\ UNCHANGED <<ledger, target, image, backup, orphans, exported, budget>>

\* stage/data/ledger.json
WriteFiles(p) ==
  /\ Goto(p, "read", "written")
  /\ stage' = [stage EXCEPT ![p].files = image[p].files]
  /\ UNCHANGED <<ledger, target, image, backup, orphans, exported, budget>>

\* stage/manifest.json, and the validation of the stage.
Seal(p) ==
  /\ Goto(p, "written", "sealed")
  /\ stage' = [stage EXCEPT ![p].meta = image[p].meta]
  /\ image' = [image EXCEPT ![p] = Absent]
  /\ UNCHANGED <<ledger, target, backup, orphans, exported, budget>>

\* target.exists()
LookAtTarget(p) ==
  /\ Goto(p, "sealed", IF target = Absent THEN "aside" ELSE "found")
  /\ UNCHANGED <<ledger, disk, image, exported, budget>>

\* Mutant: the old bundle is removed, not renamed.
MutantMoveAside(p) ==
  /\ Goto(p, "found", "aside")
  /\ target' = Absent
  /\ UNCHANGED <<ledger, stage, backup, image, orphans, exported, budget>>

\* target.rename(backup), if another process has not moved it away meanwhile.
MoveAside(p) ==
  /\ Goto(p, "found", IF target = Absent THEN "failing" ELSE "aside")
  /\ backup' = [backup EXCEPT ![p] = target]
  /\ target' = Absent
  /\ UNCHANGED <<ledger, stage, image, orphans, exported, budget>>

\* stage.rename(target); a directory another process put there meanwhile makes
\* the rename fail.
MoveIn(p) ==
  /\ IF target = Absent
       THEN /\ Goto(p, "aside", "moved")
            /\ target' = stage[p]
            /\ stage' = [stage EXCEPT ![p] = Absent]
            /\ exported' = TRUE
       ELSE /\ Goto(p, "aside", "failing")
            /\ UNCHANGED <<target, stage, exported>>
  /\ UNCHANGED <<ledger, image, backup, orphans, budget>>

DropBackup(p) ==
  /\ Goto(p, "moved", "swapped")
  /\ backup' = [backup EXCEPT ![p] = Absent]
  /\ UNCHANGED <<ledger, target, stage, image, orphans, exported, budget>>

\* The validation of the target, which another process may have moved aside.
Confirm(p) ==
  /\ Goto(p, "swapped", IF Whole(target) THEN "idle" ELSE "failing")
  /\ UNCHANGED <<ledger, disk, image, exported, budget>>

\* Mutant: the stage is left behind.
MutantCleanUp(p) ==
  /\ Goto(p, "failing", "idle")
  /\ backup' = [backup EXCEPT ![p] = Absent]
  /\ IF target = Absent
       THEN target' = backup[p] /\ orphans' = orphans
       ELSE target' = target /\ orphans' = orphans \union ({backup[p]} \ {Absent})
  /\ UNCHANGED <<ledger, stage, image, exported, budget>>

\* except Exception: the stage is removed, and the backup is put back unless
\* there is a target; then it stays where it is.
CleanUp(p) ==
  /\ Goto(p, "failing", "idle")
  /\ stage' = [stage EXCEPT ![p] = Absent]
  /\ backup' = [backup EXCEPT ![p] = Absent]
  /\ IF target = Absent
       THEN target' = backup[p] /\ orphans' = orphans
       ELSE target' = target /\ orphans' = orphans \union ({backup[p]} \ {Absent})
  /\ UNCHANGED <<ledger, image, exported, budget>>

\* A removal that is cut short may have taken the manifest already.
Remains(p) == {backup[p]} \union
              (IF step[p] = "moved" THEN {[backup[p] EXCEPT !.meta = None]} ELSE {})

\* A read, a write, a rename or a removal fails.
FailExport(p) ==
  /\ faults < MaxFaults
  /\ faults' = faults + 1
  /\ step[p] \in ExportStep \ {"failing"}
  /\ step' = [step EXCEPT ![p] = "failing"]
  /\ image' = [image EXCEPT ![p] = Absent]
  /\ \E d \in Remains(p) : backup' = [backup EXCEPT ![p] = d]
  /\ UNCHANGED <<ledger, target, stage, orphans, exported, edits, crashes>>

\* The process is killed; its stage and backup directories stay behind.
KillExport(p) ==
  /\ crashes < MaxCrashes
  /\ crashes' = crashes + 1
  /\ step[p] \in ExportStep
  /\ step' = [step EXCEPT ![p] = "idle"]
  /\ image' = [image EXCEPT ![p] = Absent]
  /\ stage' = [stage EXCEPT ![p] = Absent]
  /\ backup' = [backup EXCEPT ![p] = Absent]
  /\ \E d \in Remains(p) : orphans' = orphans \union ({d} \ {Absent})
  /\ UNCHANGED <<ledger, target, exported, edits, faults>>

Export(p) ==
  \/ Read(p) \/ WriteFiles(p) \/ Seal(p) \/ LookAtTarget(p) \/ MoveAside(p)
  \/ MoveIn(p) \/ DropBackup(p) \/ Confirm(p) \/ CleanUp(p)

ExportNext == Edit \/ \E p \in Exporters : Export(p) \/ FailExport(p) \/ KillExport(p)

ExportSpec == ExportInit /\ [][ExportNext]_exportVars

-----------------------------------------------------------------------------
(* Properties *)

\* Whoever reads export_path while exports run or are killed finds no bundle or a
\* whole one, never files without their manifest, as long as no removal fails.
TargetIsWhole == faults = 0 => target = Absent \/ Whole(target)

\* Once a bundle was exported, some whole bundle survives every failed export,
\* every race of two exports and every crash: at export_path, or in a backup.  It
\* is away from export_path only while an export that will put one there is under
\* way, or after a crash, and then a backup was left.
BundleSurvives ==
  exported =>
    \/ Whole(target)
    \/ \E p \in Processes : step[p] \in {"aside", "failing"} /\ Whole(backup[p])
    \/ \E d \in orphans : Whole(d)
=============================================================================
