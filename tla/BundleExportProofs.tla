------------------------- MODULE BundleExportProofs -------------------------
(***************************************************************************)
(* Proofs about BundleExport, for any number of exporting processes, any   *)
(* contents, and any number of failures and kills.                         *)
(***************************************************************************)
EXTENDS BundleExport, TLAPS

USE DEF Bundle, Dir, Absent, Whole

\* Where a process is has a name; a process that also publishes has steps of its
\* own (DraftPublisher).
StepOK == step = [p \in Processes |-> step[p]]

\* What an export that has not sealed its stage yet holds.
ProgressInv ==
  \A p \in Processes :
    /\ step[p] \in {"read", "written"} => image[p] \in Bundle
    /\ step[p] = "written" => stage[p] = [files |-> image[p].files, meta |-> None]

\* Only a removal that failed leaves a backup without its manifest.
BackupInv == faults = 0 => \A p \in Processes : backup[p] \in Bundle \union {Absent}

IInv == ExportTypeOK /\ StepOK /\ ProgressInv /\ TargetIsWhole /\ BackupInv

-----------------------------------------------------------------------------
LEMMA WholeIsThere == Absent \in Dir /\ ~Whole(Absent) /\ Bundle \subseteq Dir
  BY NoneAssumption

LEMMA InitHolds == ExportInit => IInv
<1> SUFFICES ASSUME ExportInit PROVE IInv
  OBVIOUS
<1> USE ExportBounds, WholeIsThere DEF ExportInit
<1>1. ExportTypeOK /\ StepOK
  <2>1. /\ ledger \in Bundle /\ target \in Dir /\ orphans \subseteq Dir
        /\ edits \in 0..MaxEdits /\ faults \in 0..MaxFaults /\ crashes \in 0..MaxCrashes
    OBVIOUS
  <2>2. /\ image \in [Processes -> Dir] /\ stage \in [Processes -> Dir]
        /\ backup \in [Processes -> Dir]
    BY Zenon
  <2>3. StepOK /\ \A p \in Processes : stage[p] = Absent /\ step[p] = "idle"
    BY DEF StepOK
  <2> QED
    BY <2>1, <2>2, <2>3 DEF ExportTypeOK, Staged
<1>2. ProgressInv /\ TargetIsWhole /\ BackupInv
  BY DEF ProgressInv, TargetIsWhole, BackupInv
<1> QED
  BY <1>1, <1>2 DEF IInv

LEMMA RemainsType ==
  ASSUME IInv, NEW p \in Processes
  PROVE  /\ Remains(p) \subseteq Dir
         /\ step[p] # "moved" => Remains(p) = {backup[p]}
  BY DEF IInv, ExportTypeOK, Remains

\* An export that has read the ledger and written nothing.
LEMMA ReadHolds ==
  ASSUME IInv, NEW p \in Exporters, step[p] = "read"
  PROVE  p \in Processes /\ image[p] \in Bundle /\ stage[p] = Absent
<1>1. p \in Processes
  BY ExporterAssumption
<1>2. image[p] \in Bundle
  BY <1>1 DEF IInv, ProgressInv
<1>3. stage[p] = Absent
  BY <1>1 DEF IInv, ExportTypeOK, Staged
<1> QED
  BY <1>1, <1>2, <1>3

LEMMA WriteFilesHolds ==
  ASSUME IInv, NEW p \in Exporters, WriteFiles(p)
  PROVE  IInv'
<1>1. step[p] = "read"
  BY DEF WriteFiles, Goto
<1>2. p \in Processes /\ image[p] \in Bundle /\ stage[p] = Absent
  BY <1>1, ReadHolds
<1>3. [files |-> image[p].files, meta |-> None] \in Dir
  BY <1>2
<1>4. [stage[p] EXCEPT !.files = image[p].files] = [files |-> image[p].files, meta |-> None]
  BY <1>2
<1> HIDE DEF Bundle, Dir, Absent
<1>5. /\ stage' = [stage EXCEPT ![p] = [files |-> image[p].files, meta |-> None]]
      /\ step' = [step EXCEPT ![p] = "written"]
      /\ UNCHANGED <<ledger, target, image, backup, orphans, exported, edits, faults, crashes>>
  BY <1>4 DEF WriteFiles, Goto, budget
<1>6. /\ stage' \in [Processes -> Dir]
      /\ \A q \in Processes :
           \/ q # p /\ stage'[q] = stage[q] /\ step'[q] = step[q]
           \/ /\ q = p /\ step'[q] = "written"
              /\ stage'[q] = [files |-> image[q].files, meta |-> None]
  BY <1>2, <1>3, <1>5 DEF IInv, ExportTypeOK, StepOK
<1>7. StepOK'
  BY <1>5 DEF IInv, StepOK
<1>8. ExportTypeOK'
  BY <1>5, <1>6 DEF IInv, ExportTypeOK, Staged
<1>9. ProgressInv'
  BY <1>2, <1>5, <1>6 DEF IInv, ProgressInv
<1>10. TargetIsWhole' /\ BackupInv'
  BY <1>5 DEF IInv, TargetIsWhole, BackupInv
<1> QED
  BY <1>7, <1>8, <1>9, <1>10 DEF IInv

LEMMA MoveInHolds ==
  ASSUME IInv, NEW p \in Exporters, MoveIn(p)
  PROVE  IInv'
<1>1. /\ p \in Processes /\ stage[p] \in Bundle /\ Absent \notin Bundle
      /\ Absent \in Dir /\ Bundle \subseteq Dir
  BY ExporterAssumption, NoneAssumption DEF MoveIn, Goto, IInv, ExportTypeOK, Staged
<1> HIDE DEF Bundle, Dir, Absent
<1> USE DEF Goto
<1>2. /\ UNCHANGED <<ledger, image, backup, orphans, edits, faults, crashes>>
      /\ \E s \in {"moved", "failing"} : step' = [step EXCEPT ![p] = s]
      /\ step[p] = "aside"
  BY DEF MoveIn, budget
<1>3. StepOK' /\ BackupInv'
  BY <1>1, <1>2 DEF IInv, StepOK, BackupInv, ExportStep
<1>4. CASE target = Absent
  <2>1. target' = stage[p] /\ exported' = TRUE /\ stage' = [stage EXCEPT ![p] = Absent]
    BY <1>4 DEF MoveIn
  <2>2. target' \in Dir /\ stage' \in [Processes -> Dir] /\ TargetIsWhole'
    BY <1>1, <2>1 DEF IInv, ExportTypeOK, TargetIsWhole
  <2>3. \A q \in Processes :
          \/ q # p /\ stage'[q] = stage[q] /\ step'[q] = step[q]
          \/ q = p /\ stage'[q] = Absent /\ step'[q] \in {"moved", "failing"}
    BY <1>2, <2>1 DEF IInv, ExportTypeOK, StepOK
  <2>4. ExportTypeOK'
    BY <1>2, <2>1, <2>2, <2>3 DEF IInv, ExportTypeOK, Staged
  <2>5. ProgressInv'
    BY <1>2, <2>3 DEF IInv, ProgressInv
  <2> QED
    BY <1>3, <2>2, <2>4, <2>5 DEF IInv
<1>5. CASE target # Absent
  <2>1. UNCHANGED <<target, stage, exported>> /\ step' = [step EXCEPT ![p] = "failing"]
    BY <1>5 DEF MoveIn
  <2>2. \A q \in Processes : step'[q] = step[q] \/ step'[q] = "failing"
    BY <2>1 DEF IInv, StepOK
  <2>3. ExportTypeOK' /\ ProgressInv' /\ TargetIsWhole'
    BY <1>2, <2>1, <2>2 DEF IInv, ExportTypeOK, ProgressInv, TargetIsWhole, Staged
  <2> QED
    BY <1>3, <2>3 DEF IInv
<1> QED
  BY <1>4, <1>5

LEMMA StepHolds == IInv /\ [ExportNext]_exportVars => IInv'
<1> SUFFICES ASSUME IInv, [ExportNext]_exportVars PROVE IInv'
  OBVIOUS
<1> USE ExportBounds, NoneAssumption
    DEF IInv, ExportTypeOK, StepOK, ProgressInv, TargetIsWhole, BackupInv,
        ExportStep, Staged, disk, budget, Goto
<1>1. CASE Edit
  BY <1>1 DEF Edit
<1>2. ASSUME NEW p \in Exporters, Read(p) PROVE IInv'
  BY <1>2, ExporterAssumption DEF Read
<1>3. ASSUME NEW p \in Exporters, WriteFiles(p) PROVE IInv'
  BY <1>3, WriteFilesHolds
<1>4. ASSUME NEW p \in Exporters, Seal(p) PROVE IInv'
  <2>1. p \in Processes /\ image[p] \in Bundle
        /\ stage[p] = [files |-> image[p].files, meta |-> None]
    BY <1>4, ExporterAssumption DEF Seal
  <2>2. stage'[p] \in Bundle
    BY <1>4, <2>1 DEF Seal
  <2> QED
    BY <1>4, <2>1, <2>2 DEF Seal
<1>5. ASSUME NEW p \in Exporters, LookAtTarget(p) PROVE IInv'
  BY <1>5, ExporterAssumption DEF LookAtTarget
<1>6. ASSUME NEW p \in Exporters, MoveAside(p) PROVE IInv'
  BY <1>6, ExporterAssumption DEF MoveAside
<1>7. ASSUME NEW p \in Exporters, MoveIn(p) PROVE IInv'
  BY <1>7, MoveInHolds
<1>8. ASSUME NEW p \in Exporters, DropBackup(p) PROVE IInv'
  BY <1>8, ExporterAssumption DEF DropBackup
<1>9. ASSUME NEW p \in Exporters, Confirm(p) PROVE IInv'
  BY <1>9, ExporterAssumption DEF Confirm
<1>10. ASSUME NEW p \in Exporters, CleanUp(p) PROVE IInv'
  <2>1. p \in Processes
    BY ExporterAssumption
  <2>2. /\ step' = [step EXCEPT ![p] = "idle"]
        /\ stage' = [stage EXCEPT ![p] = Absent]
        /\ backup' = [backup EXCEPT ![p] = Absent]
        /\ target' \in {target, backup[p]}
        /\ orphans' \subseteq orphans \union {backup[p]}
        /\ UNCHANGED <<ledger, image, exported, edits, faults, crashes>>
    BY <1>10 DEF CleanUp
  <2>3. /\ step'[p] = "idle" /\ stage'[p] = Absent /\ backup'[p] = Absent
        /\ \A q \in Processes \ {p} : /\ step'[q] = step[q] /\ stage'[q] = stage[q]
                                      /\ backup'[q] = backup[q]
    BY <2>1, <2>2
  <2>4. ExportTypeOK' /\ StepOK'
    BY <2>1, <2>2, <2>3
  <2>5. ProgressInv' /\ TargetIsWhole' /\ BackupInv'
    BY <2>1, <2>2, <2>3
  <2> QED
    BY <2>4, <2>5
<1>11. ASSUME NEW p \in Exporters, FailExport(p) PROVE IInv'
  <2>1. p \in Processes /\ Remains(p) \subseteq Dir
    BY RemainsType, ExporterAssumption
  <2> QED
    BY <1>11, <2>1 DEF FailExport
<1>12. ASSUME NEW p \in Exporters, KillExport(p) PROVE IInv'
  <2>1. p \in Processes /\ Remains(p) \subseteq Dir
    BY RemainsType, ExporterAssumption
  <2> QED
    BY <1>12, <2>1 DEF KillExport
<1>13. CASE UNCHANGED exportVars
  BY <1>13 DEF exportVars
<1> QED
  BY <1>1, <1>2, <1>3, <1>4, <1>5, <1>6, <1>7, <1>8, <1>9, <1>10, <1>11, <1>12, <1>13
  DEF ExportNext, Export

\* Types are kept and no stage directory is left behind, whatever fails.
THEOREM ExportTypes == ExportSpec => []ExportTypeOK
<1>1. IInv => ExportTypeOK
  BY DEF IInv
<1> QED
  BY <1>1, InitHolds, StepHolds, PTL DEF ExportSpec

\* No reader of export_path ever finds files without their manifest, as long as no
\* removal fails.
THEOREM NeverPartial == ExportSpec => []TargetIsWhole
<1>1. IInv => TargetIsWhole
  BY DEF IInv
<1> QED
  BY <1>1, InitHolds, StepHolds, PTL DEF ExportSpec

-----------------------------------------------------------------------------
(* BundleSurvives: each step hands the whole bundle on, from the target to a *)
(* backup, from a backup to the target or to the orphans.                    *)

Keeps(p) == step[p] \in {"aside", "failing"} /\ Whole(backup[p])

LEMMA SurvivalStep == IInv /\ BundleSurvives /\ [ExportNext]_exportVars => BundleSurvives'
<1> SUFFICES ASSUME IInv, BundleSurvives, [ExportNext]_exportVars PROVE BundleSurvives'
  OBVIOUS
<1>0. /\ step = [p \in Processes |-> step[p]]
      /\ backup \in [Processes -> Dir] /\ stage \in [Processes -> Dir]
      /\ \A p \in Processes : step[p] = "aside" => Whole(stage[p])
      /\ ~Whole(Absent)
  BY WholeIsThere DEF IInv, ExportTypeOK, StepOK, Staged
<1> HIDE DEF Bundle, Dir, Absent, Whole
<1>a. BundleSurvives <=> (exported => \/ Whole(target)
                                      \/ \E p \in Processes : Keeps(p)
                                      \/ \E d \in orphans : Whole(d))
  BY DEF BundleSurvives, Keeps
<1>b. BundleSurvives' <=> (exported' => \/ Whole(target')
                                        \/ \E p \in Processes : Keeps(p)'
                                        \/ \E d \in orphans' : Whole(d))
  BY DEF BundleSurvives, Keeps, Whole
<1> USE ExporterAssumption DEF Goto, disk, budget
<1>1. ASSUME NEW p \in Exporters, MoveAside(p) PROVE BundleSurvives'
  <2>1. \A q \in Processes \ {p} : Keeps(q) => Keeps(q)'
    BY <1>1, <1>0 DEF MoveAside, Keeps, Whole
  <2>2. ~Keeps(p) /\ (Whole(target) => Keeps(p)')
    BY <1>1, <1>0 DEF MoveAside, Keeps, Whole
  <2>3. exported' = exported /\ orphans' = orphans
    BY <1>1 DEF MoveAside
  <2> QED
    BY <1>a, <1>b, <2>1, <2>2, <2>3
<1>2. ASSUME NEW p \in Exporters, MoveIn(p) PROVE BundleSurvives'
  <2>1. CASE target = Absent
    BY <1>2, <1>0, <1>b, <2>1 DEF MoveIn, Whole
  <2>2. CASE target # Absent
    <3>1. \A q \in Processes : Keeps(q) => Keeps(q)'
      BY <1>2, <1>0, <2>2 DEF MoveIn, Keeps, Whole
    <3>2. exported' = exported /\ orphans' = orphans /\ target' = target
      BY <1>2, <2>2 DEF MoveIn
    <3> QED
      BY <1>a, <1>b, <3>1, <3>2
  <2> QED
    BY <2>1, <2>2
<1>3. ASSUME NEW p \in Exporters, DropBackup(p) PROVE BundleSurvives'
  <2>1. \A q \in Processes : Keeps(q) => Keeps(q)'
    BY <1>3, <1>0 DEF DropBackup, Keeps, Whole
  <2>2. exported' = exported /\ orphans' = orphans /\ target' = target
    BY <1>3 DEF DropBackup
  <2> QED
    BY <1>a, <1>b, <2>1, <2>2
<1>4. ASSUME NEW p \in Exporters, CleanUp(p) PROVE BundleSurvives'
  <2>1. \A q \in Processes \ {p} : Keeps(q) => Keeps(q)'
    BY <1>4, <1>0 DEF CleanUp, Keeps, Whole
  <2>2. Keeps(p) => Whole(target') \/ \E d \in orphans' : Whole(d)
    BY <1>4, <1>0 DEF CleanUp, Keeps
  <2>3. /\ exported' = exported
        /\ orphans \subseteq orphans'
        /\ Whole(target) => Whole(target')
    BY <1>4, <1>0 DEF CleanUp
  <2> QED
    BY <1>a, <1>b, <2>1, <2>2, <2>3
<1>5. ASSUME NEW p \in Exporters, FailExport(p) PROVE BundleSurvives'
  <2>1. step[p] # "moved" => Remains(p) = {backup[p]}
    BY RemainsType
  <2>2. \A q \in Processes : Keeps(q) => Keeps(q)'
    BY <1>5, <1>0, <2>1 DEF FailExport, Keeps, Whole
  <2>3. exported' = exported /\ orphans' = orphans /\ target' = target
    BY <1>5 DEF FailExport
  <2> QED
    BY <1>a, <1>b, <2>2, <2>3
<1>6. ASSUME NEW p \in Exporters, KillExport(p) PROVE BundleSurvives'
  <2>1. step[p] # "moved" => Remains(p) = {backup[p]}
    BY RemainsType
  <2>2. \A q \in Processes \ {p} : Keeps(q) => Keeps(q)'
    BY <1>6, <1>0 DEF KillExport, Keeps, Whole
  <2>3. Keeps(p) => backup[p] \in orphans'
    BY <1>6, <1>0, <2>1 DEF KillExport, Keeps
  <2>4. exported' = exported /\ orphans \subseteq orphans' /\ target' = target
    BY <1>6 DEF KillExport
  <2> QED
    BY <1>a, <1>b, <2>2, <2>3, <2>4 DEF Keeps
<1>7. ASSUME NEW p \in Exporters,
             Read(p) \/ WriteFiles(p) \/ Seal(p) \/ LookAtTarget(p) \/ Confirm(p)
      PROVE  BundleSurvives'
  <2>1. \A q \in Processes : Keeps(q) => Keeps(q)'
    BY <1>7, <1>0 DEF Read, WriteFiles, Seal, LookAtTarget, Confirm, Keeps, Whole
  <2>2. exported' = exported /\ orphans' = orphans /\ target' = target
    BY <1>7 DEF Read, WriteFiles, Seal, LookAtTarget, Confirm
  <2> QED
    BY <1>a, <1>b, <2>1, <2>2
<1>8. CASE Edit \/ UNCHANGED exportVars
  <2>1. \A q \in Processes : Keeps(q) => Keeps(q)'
    BY <1>8 DEF Edit, exportVars, Keeps, Whole
  <2>2. exported' = exported /\ orphans' = orphans /\ target' = target
    BY <1>8 DEF Edit, exportVars
  <2> QED
    BY <1>a, <1>b, <2>1, <2>2
<1> QED
  BY <1>1, <1>2, <1>3, <1>4, <1>5, <1>6, <1>7, <1>8 DEF ExportNext, Export

\* The last whole bundle outlives every failure, race and kill.
THEOREM Survival == ExportSpec => []BundleSurvives
<1>1. ExportInit => BundleSurvives
  BY DEF ExportInit, BundleSurvives
<1> QED
  BY <1>1, InitHolds, StepHolds, SurvivalStep, PTL DEF ExportSpec
=============================================================================
