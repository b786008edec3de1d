------------------------ MODULE DraftPublisherProofs ------------------------
(***************************************************************************)
(* Proofs about DraftPublisher, for any exporters, any contents, and any   *)
(* number of edits, failures and kills.  That an artifact has one pull     *)
(* request, and that a branch is adopted only for what it holds, is proved *)
(* for one publisher: the worker runs one pipeline at a time.              *)
(***************************************************************************)
EXTENDS DraftPublisher, BundleExportProofs

-----------------------------------------------------------------------------
(* Types.  The parts of TypeOK that a step may disturb.                      *)

StepType == step \in [Processes -> {"idle"} \union ExportStep \union PublishStep]

CallType ==
  /\ main \in Dir
  /\ branch \in [Artifacts -> Dir]
  /\ pull \in [Artifacts -> PullState]
  /\ opened \in [Artifacts -> Nat]
  /\ want \in [Publishers -> Dir]
  /\ tree \in [Publishers -> Dir]
  /\ outcome \in [Publishers -> Outcome]
  /\ redo \in [Publishers -> BOOLEAN]

Validated == \A p \in Publishers : /\ step[p] \in PublishStep => Whole(want[p])
                                   /\ step[p] \in Built => Whole(tree[p])

LEMMA TypeParts == TypeOK <=> ExportTypeOK /\ StepType /\ CallType /\ Validated
<1>1. TypeOK => ExportTypeOK /\ StepType
  BY Zenon DEF TypeOK, StepType
<1>2. TypeOK => CallType
  BY DEF TypeOK, CallType
<1>3. TypeOK => Validated
  BY DEF TypeOK, Validated
<1>4. ExportTypeOK /\ StepType /\ CallType /\ Validated => TypeOK
  BY Zenon DEF TypeOK, StepType, CallType, Validated
<1> QED
  BY <1>1, <1>2, <1>3, <1>4

TInv == IInv /\ StepType /\ CallType /\ Validated

LEMMA WholeFacts ==
  /\ Absent \in Dir
  /\ ~Whole(Absent)
  /\ \A d : Whole(d) => d \in Dir /\ d.files \in Artifacts
  BY NoneAssumption DEF Absent, Dir, Bundle, Whole

LEMMA StepNames ==
  /\ "idle" \notin PublishStep
  /\ PublishStep \intersect ExportStep = {}
  /\ Built \subseteq PublishStep
  /\ Staged \union {"written", "failing", "read"} \subseteq ExportStep
  BY DEF PublishStep, ExportStep, Built, Staged

PublisherStep(p) ==
  BeginPublish(p) \/ Publish(p) \/ CreateFails(p) \/ FailPublish(p) \/ KillPublish(p)

\* What a step of a publisher does to the export's variables: it moves the
\* publisher, which has no export under way, and counts.
LEMMA PublisherMoves ==
  ASSUME TInv, NEW p \in Publishers, PublisherStep(p)
  PROVE  /\ step[p] \in {"idle"} \union PublishStep
         /\ \E s \in {"idle"} \union PublishStep : step' = [step EXCEPT ![p] = s]
         /\ UNCHANGED <<ledger, disk, image, exported, edits>>
         /\ faults' = faults \/ (faults < MaxFaults /\ faults' = faults + 1)
         /\ crashes' = crashes \/ (crashes < MaxCrashes /\ crashes' = crashes + 1)
<1> USE DEF Goto, GoOn, Return, PublishStep, outer, budget
<1>1. CASE BeginPublish(p)
  BY <1>1 DEF BeginPublish
<1>2. CASE LookUp(p)
  BY <1>2 DEF LookUp
<1>3. CASE Inspect(p)
  BY <1>3 DEF Inspect
<1>4. CASE Compare(p)
  BY <1>4 DEF Compare
<1>5. CASE Build(p)
  BY <1>5 DEF Build
<1>6. CASE Push(p) \/ Verify(p)
  BY <1>6 DEF Push, Verify
<1>7. CASE CreatePull(p)
  BY <1>7 DEF CreatePull
<1>8. CASE ConfirmPull(p)
  BY <1>8 DEF ConfirmPull
<1>9. CASE CreateFails(p)
  BY <1>9 DEF CreateFails
<1>10. CASE FailPublish(p)
  BY <1>10 DEF FailPublish
<1>11. CASE KillPublish(p)
  BY <1>11 DEF KillPublish
<1> QED
  BY <1>1, <1>2, <1>3, <1>4, <1>5, <1>6, <1>7, <1>8, <1>9, <1>10, <1>11
     DEF PublisherStep, Publish

\* A publisher leaves exports as they were.
LEMMA PublisherKeepsExports ==
  ASSUME TInv, NEW p \in Publishers, PublisherStep(p)
  PROVE  IInv' /\ StepType'
<1>1. p \in Processes
  BY PublisherAssumption
<1>2. PICK s \in {"idle"} \union PublishStep : step' = [step EXCEPT ![p] = s]
  BY PublisherMoves
<1>3. /\ UNCHANGED <<ledger, target, stage, backup, orphans, image, exported, edits>>
      /\ step[p] \in {"idle"} \union PublishStep
  BY PublisherMoves DEF disk
<1>4. /\ faults' \in 0..MaxFaults /\ crashes' \in 0..MaxCrashes
      /\ faults' = 0 => faults = 0
  BY PublisherMoves, ExportBounds DEF TInv, IInv, ExportTypeOK
<1>5. /\ step'[p] \notin ExportStep /\ step[p] \notin ExportStep
      /\ \A q \in Processes \ {p} : step'[q] = step[q]
  BY <1>1, <1>2, <1>3, StepNames DEF TInv, StepType, ExportStep
<1>6. StepType' /\ StepOK'
  BY <1>2 DEF TInv, StepType, IInv, StepOK
<1>7. \A q \in Processes : \A S \in SUBSET ExportStep :
        step'[q] \in S <=> step[q] \in S
  BY <1>5
<1>8. ExportTypeOK'
  BY <1>3, <1>4, <1>5, StepNames DEF TInv, IInv, ExportTypeOK
<1>9. ProgressInv'
  BY <1>3, <1>5, StepNames DEF TInv, IInv, ProgressInv
<1>10. TargetIsWhole' /\ BackupInv'
  BY <1>3, <1>4 DEF TInv, IInv, TargetIsWhole, BackupInv
<1> QED
  BY <1>6, <1>8, <1>9, <1>10 DEF IInv

\* An export leaves publishers where they were.
LEMMA ExportKeepsPublishers ==
  ASSUME TInv, ExportNext
  PROVE  /\ StepType'
         /\ \A q \in Processes : \/ step'[q] = step[q]
                                 \/ /\ step[q] \notin PublishStep
                                    /\ step'[q] \notin PublishStep
<1>1. CASE Edit
  <2>1. step' = step
    BY <1>1 DEF Edit
  <2> QED
    BY <2>1 DEF TInv, StepType
<1>2. ASSUME NEW p \in Exporters, Export(p) \/ FailExport(p) \/ KillExport(p)
      PROVE  /\ step[p] \in {"idle"} \union ExportStep
             /\ \E s \in {"idle"} \union ExportStep : step' = [step EXCEPT ![p] = s]
  BY <1>2 DEF Export, Read, WriteFiles, Seal, LookAtTarget, MoveAside, MoveIn,
     DropBackup, Confirm, CleanUp, FailExport, KillExport, ExportStep, Goto
<1>3. ASSUME NEW p \in Exporters, Export(p) \/ FailExport(p) \/ KillExport(p)
      PROVE  /\ StepType'
             /\ \A q \in Processes : \/ step'[q] = step[q]
                                    \/ /\ step[q] \notin PublishStep
                                       /\ step'[q] \notin PublishStep
  <2>1. PICK s \in {"idle"} \union ExportStep : step' = [step EXCEPT ![p] = s]
    BY <1>2, <1>3
  <2>2. p \in Processes
    BY <1>2, <1>3, StepNames, ExporterAssumption
  <2>3. step[p] \notin PublishStep /\ s \notin PublishStep
    BY <1>2, <1>3, <2>1, StepNames
  <2>4. StepType'
    BY <2>1, <2>2 DEF TInv, StepType
  <2>5. \A q \in Processes : step'[q] = IF q = p THEN s ELSE step[q]
    BY <2>1, <2>2 DEF TInv, StepType
  <2> QED
    BY <2>3, <2>4, <2>5
<1> QED
  BY <1>1, <1>3 DEF ExportNext

\* The bundle a publisher was asked for names an artifact.
LEMMA WantsArtifact ==
  ASSUME TInv, NEW p \in Publishers, step[p] \in PublishStep
  PROVE  Whole(want[p]) /\ Hash(p) \in Artifacts
  BY WholeFacts DEF TInv, Validated, Hash

\* A publisher's step keeps the call it works for.
LEMMA CallHolds ==
  ASSUME TInv, NEW p \in Publishers, PublisherStep(p)
  PROVE  CallType' /\ Validated'
<1>0. p \in Processes /\ step \in [Processes -> {"idle"} \union ExportStep \union PublishStep]
  BY PublisherAssumption DEF TInv, StepType
<1>1. target \in Dir /\ CallType
  BY DEF TInv, IInv, ExportTypeOK
<1>2. step[p] \in PublishStep =>
        /\ Whole(want[p]) /\ Hash(p) \in Artifacts
        /\ step[p] \in Built => Whole(tree[p])
  BY WantsArtifact DEF TInv, Validated
<1>3. \A q \in Publishers \ {p} :
        /\ q \in Processes
        /\ step'[q] = step[q]
        /\ step[q] \in PublishStep => Whole(want[q])
        /\ step[q] \in Built => Whole(tree[q])
  BY <1>0, PublisherAssumption, PublisherMoves DEF TInv, Validated
<1>4. CASE BeginPublish(p)
  <2>1. CallType'
    BY <1>1, <1>4, WholeFacts DEF BeginPublish, CallType, Outcome, github
  <2>2. \A q \in Publishers \ {p} : want'[q] = want[q] /\ tree'[q] = tree[q]
    BY <1>1, <1>4 DEF BeginPublish, CallType
  <2>3. /\ step'[p] \in PublishStep => Whole(want'[p])
        /\ step'[p] \notin Built
    <3>1. step'[p] = IF Whole(target) THEN "asking" ELSE "idle"
      BY <1>0, <1>4 DEF BeginPublish, Goto
    <3>2. Whole(target) => want'[p] = target
      BY <1>1, <1>4 DEF BeginPublish, CallType
    <3>3. "idle" \notin PublishStep /\ "idle" \notin Built /\ "asking" \notin Built
      BY DEF PublishStep, Built
    <3>4. Whole(target) => Whole(want'[p])
      BY <3>2
    <3> QED
      BY <3>1, <3>3, <3>4
  <2>4. ASSUME NEW q \in Publishers
        PROVE  /\ step'[q] \in PublishStep => Whole(want'[q])
               /\ step'[q] \in Built => Whole(tree'[q])
    BY <1>3, <2>2, <2>3
  <2> QED
    BY <2>1, <2>4 DEF Validated, Whole
<1>5. CASE Build(p)
  <2>1. CallType'
    BY <1>1, <1>5 DEF Build, GoOn, CallType, Outcome, github
  <2>2. \A q \in Publishers \ {p} : want'[q] = want[q] /\ tree'[q] = tree[q]
    BY <1>1, <1>5 DEF Build, CallType
  <2>3. want'[p] = want[p] /\ tree'[p] = target /\ step[p] \in PublishStep
    BY <1>1, <1>5 DEF Build, GoOn, Goto, CallType, PublishStep
  <2>4. step'[p] \in Built => Whole(target)
    BY <1>0, <1>5 DEF Build, GoOn, Goto, Built
  <2>5. ASSUME NEW q \in Publishers
        PROVE  /\ step'[q] \in PublishStep => Whole(want'[q])
               /\ step'[q] \in Built => Whole(tree'[q])
    BY <1>2, <1>3, <2>2, <2>3, <2>4
  <2> QED
    BY <2>1, <2>5 DEF Validated, Whole
<1>6. CASE ~BeginPublish(p) /\ ~Build(p)
  <2>1. /\ UNCHANGED <<want, tree>>
        /\ step[p] \in PublishStep
        /\ step'[p] \in Built => step[p] \in Built
    <3> USE <1>0 DEF GoOn, Goto, Return, Built, PublishStep, local
    <3>1. CASE LookUp(p) \/ Inspect(p) \/ Compare(p)
      BY <3>1 DEF LookUp, Inspect, Compare
    <3>2. CASE Push(p) \/ Verify(p) \/ ConfirmPull(p)
      BY <3>2 DEF Push, Verify, ConfirmPull
    <3>3. CASE CreatePull(p)
      BY <3>3 DEF CreatePull
    <3>4. CASE CreateFails(p)
      BY <3>4 DEF CreateFails
    <3>5. CASE FailPublish(p) \/ KillPublish(p)
      BY <3>5 DEF FailPublish, KillPublish
    <3> QED
      BY <1>6, <3>1, <3>2, <3>3, <3>4, <3>5 DEF PublisherStep, Publish
  <2>2. Hash(p) \in Artifacts /\ (step[p] \in Built => tree[p] \in Dir)
    BY <1>2, <2>1, WholeFacts
  <2>3. CallType'
    <3> USE <1>1, <2>1, <2>2
        DEF GoOn, Return, CallType, Outcome, PullState, OpenPull, local, github
    <3>1. CASE LookUp(p) \/ Inspect(p) \/ Compare(p)
      BY <3>1 DEF LookUp, Inspect, Compare
    <3>2. CASE Push(p)
      BY <3>2 DEF Push
    <3>3. CASE Verify(p) \/ ConfirmPull(p)
      BY <3>3 DEF Verify, ConfirmPull
    <3>4. CASE CreatePull(p)
      BY <3>4 DEF CreatePull
    <3>5. CASE CreateFails(p)
      BY <3>5 DEF CreateFails
    <3>6. CASE FailPublish(p) \/ KillPublish(p)
      BY <3>6 DEF FailPublish, KillPublish
    <3> QED
      BY <1>6, <3>1, <3>2, <3>3, <3>4, <3>5, <3>6 DEF PublisherStep, Publish
  <2>4. ASSUME NEW q \in Publishers
        PROVE  /\ step'[q] \in PublishStep => Whole(want[q])
               /\ step'[q] \in Built => Whole(tree[q])
    BY <1>2, <1>3, <2>1
  <2> QED
    BY <2>1, <2>3, <2>4 DEF Validated, Whole
<1> QED
  BY <1>4, <1>5, <1>6

LEMMA TypesInit == Init => TInv
<1> SUFFICES ASSUME Init PROVE TInv
  OBVIOUS
<1>1. IInv
  BY InitHolds DEF Init
<1>2. StepType /\ Validated
  BY PublisherAssumption, StepNames DEF Init, ExportInit, StepType, Validated
<1>3. CallType
  BY WholeFacts DEF Init, CallType, PullState, Outcome
<1> QED
  BY <1>1, <1>2, <1>3 DEF TInv

LEMMA TypesStep == TInv /\ [Next]_vars => TInv'
<1> SUFFICES ASSUME TInv, [Next]_vars PROVE TInv'
  OBVIOUS
<1>1. CASE ExportNext /\ UNCHANGED publisherVars
  <2>1. IInv'
    BY <1>1, StepHolds DEF TInv
  <2>2. StepType'
    BY <1>1, ExportKeepsPublishers
  <2>3. CallType'
    BY <1>1 DEF TInv, CallType, publisherVars, github, call
  <2>4. \A p \in Publishers : \/ step'[p] = step[p]
                              \/ step'[p] \notin PublishStep /\ step'[p] \notin Built
    BY <1>1, ExportKeepsPublishers, PublisherAssumption, StepNames
  <2>5. Validated'
    BY <1>1, <2>4 DEF TInv, Validated, publisherVars, call, Whole
  <2> QED
    BY <2>1, <2>2, <2>3, <2>5 DEF TInv
<1>2. ASSUME NEW p \in Publishers, PublisherStep(p) PROVE TInv'
  BY <1>2, PublisherKeepsExports, CallHolds DEF TInv
<1>3. ASSUME NEW a \in Artifacts, Decide(a) \/ DeleteBranch(a) PROVE TInv'
  <2>1. UNCHANGED <<exportVars, call>>
    BY <1>3 DEF Decide, DeleteBranch
  <2>2. UNCHANGED exportVars /\ UNCHANGED <<step, want, tree>>
    BY <2>1 DEF exportVars, call
  <2>3. IInv'
    BY <2>2, StepHolds DEF TInv
  <2>4. StepType' /\ Validated'
    BY <2>2 DEF TInv, StepType, Validated, Whole
  <2>5. CallType'
    BY <1>3, <2>1, WholeFacts DEF TInv, CallType, PullState, Decide, DeleteBranch, call
  <2> QED
    BY <2>3, <2>4, <2>5 DEF TInv
<1>4. CASE UNCHANGED vars
  <2>1. IInv'
    BY <1>4, StepHolds DEF TInv, vars
  <2>2. StepType' /\ CallType' /\ Validated'
    BY <1>4 DEF TInv, StepType, CallType, Validated, Whole, vars, exportVars,
       publisherVars, github, call
  <2> QED
    BY <2>1, <2>2 DEF TInv
<1> QED
  BY <1>1, <1>2, <1>3, <1>4 DEF Next, PublisherStep

LEMMA TypesHold == Spec => []TInv
  BY TypesInit, TypesStep, PTL DEF Spec

\* Types are kept; and whatever is exported meanwhile, publish works for a bundle
\* that was validated, and pushes a copy that was validated.
THEOREM PublisherTypes == Spec => []TypeOK
<1>1. TInv => TypeOK
  BY TypeParts DEF TInv, IInv
<1> QED
  BY <1>1, TypesHold, PTL

-----------------------------------------------------------------------------
(* Exports beside publishers *)

LEMMA PublisherKeepsBundles ==
  ASSUME TInv, BundleSurvives, NEW p \in Publishers, PublisherStep(p)
  PROVE  BundleSurvives'
<1>1. /\ UNCHANGED <<target, backup, orphans, exported>>
      /\ \E s \in {"idle"} \union PublishStep : step' = [step EXCEPT ![p] = s]
      /\ step[p] \in {"idle"} \union PublishStep
  BY PublisherMoves DEF disk
<1>2. \A q \in Processes : step[q] \in {"aside", "failing"} => step'[q] = step[q]
  BY <1>1 DEF TInv, StepType, PublishStep
<1> QED
  BY <1>1, <1>2 DEF BundleSurvives, Whole

\* Publishers and people disturb no export: the bundle at export_path is whole as
\* long as no removal fails, and a whole bundle survives, in the composition too.
THEOREM ExportsUndisturbed == Spec => [](TargetIsWhole /\ BundleSurvives)
<1>1. Init => BundleSurvives
  BY DEF Init, ExportInit, BundleSurvives
<1>2. TInv /\ BundleSurvives /\ [Next]_vars => BundleSurvives'
  <2> SUFFICES ASSUME TInv, BundleSurvives, [Next]_vars PROVE BundleSurvives'
    OBVIOUS
  <2>1. CASE [ExportNext]_exportVars
    BY <2>1, SurvivalStep DEF TInv
  <2>2. ASSUME NEW p \in Publishers, PublisherStep(p) PROVE BundleSurvives'
    BY <2>2, PublisherKeepsBundles
  <2>3. ASSUME NEW a \in Artifacts, Decide(a) \/ DeleteBranch(a)
        PROVE  UNCHANGED exportVars
    BY <2>3 DEF Decide, DeleteBranch
  <2> QED
    BY <2>1, <2>2, <2>3 DEF Next, PublisherStep, vars
<1>3. TInv => TargetIsWhole
  BY DEF TInv, IInv
<1> QED
  BY <1>1, <1>2, <1>3, TypesHold, PTL DEF Spec

-----------------------------------------------------------------------------
(* One publisher.  What it learned of an artifact's branch and pull request   *)
(* stays true while it works, because nobody else pushes or proposes.         *)

OnePublisher == \A p, q \in Publishers : p = q

\* Steps that are reached only if the artifact had no pull request.
Unproposed == {"new", "strayBranch", "adopting", "building", "pushing", "pushed",
               "proposing"}

\* Nobody else opens a pull request while the publisher believes there is none.
PullInv == \A p \in Publishers : step[p] \in Unproposed => pull[Hash(p)] = "none"

CountInv == \A a \in Artifacts : opened[a] = IF pull[a] = "none" THEN 0 ELSE 1

\* A call that pushed nothing answers for a branch it has compared: it is what was
\* asked for, or deleted since.
BranchInv ==
  \A p \in Publishers :
    /\ step[p] \in PublishStep => outcome[p] = "none"
    /\ outcome[p] = "duplicate" => Whole(want[p])
    /\ \/ step[p] = "adopting"
       \/ tree[p] = Absent /\ step[p] \in {"refused", "confirming"}
       \/ tree[p] = Absent /\ outcome[p] = "duplicate"
       => branch[Hash(p)] \in {Absent, want[p]}

PInv == TInv /\ OnePublisher /\ PullInv /\ CountInv

\* What a step of the only publisher does on GitHub.
LEMMA PublisherOnGitHub ==
  ASSUME PInv, NEW p \in Publishers, PublisherStep(p)
  PROVE  /\ main' = main
         /\ \/ UNCHANGED <<branch, pull, opened>>
            \/ /\ step[p] = "pushing"
               /\ pull[Hash(p)] = "none"
               /\ branch[Hash(p)] = Absent
               /\ branch' = [branch EXCEPT ![Hash(p)] = tree[p]]
               /\ UNCHANGED <<pull, opened>>
            \/ /\ pull[Hash(p)] = "none"
               /\ OpenPull(Hash(p))
               /\ step'[p] \notin Unproposed
<1>0. p \in Processes /\ step \in [Processes -> {"idle"} \union ExportStep \union PublishStep]
  BY PublisherAssumption DEF PInv, TInv, StepType
<1>1. step[p] \in Unproposed => pull[Hash(p)] = "none"
  BY DEF PInv, PullInv
<1> USE DEF GoOn, Goto, Return, github
<1>2. CASE BeginPublish(p) \/ LookUp(p) \/ Inspect(p) \/ Compare(p) \/ Build(p)
           \/ Verify(p) \/ ConfirmPull(p)
  BY <1>2 DEF BeginPublish, LookUp, Inspect, Compare, Build, Verify, ConfirmPull
<1>3. CASE Push(p)
  BY <1>1, <1>3 DEF Push, Unproposed
<1>4. CASE CreatePull(p) \/ CreateFails(p)
  <2>1. step[p] \in {"adopting", "proposing"}
    BY <1>4 DEF CreatePull, CreateFails
  <2>2. UNCHANGED github \/ OpenPull(Hash(p))
    BY <1>4 DEF CreatePull, CreateFails
  <2>3. step'[p] \in {"refused", "confirming"}
    BY <1>0, <1>4 DEF CreatePull, CreateFails
  <2> QED
    BY <1>1, <2>1, <2>2, <2>3 DEF OpenPull, Unproposed
<1>5. CASE FailPublish(p) \/ KillPublish(p)
  BY <1>5 DEF FailPublish, KillPublish
<1> QED
  BY <1>2, <1>3, <1>4, <1>5 DEF PublisherStep, Publish

LEMMA PullStep ==
  ASSUME PInv, NEW p \in Publishers, PublisherStep(p)
  PROVE  PullInv' /\ CountInv'
<1>0. /\ p \in Processes
      /\ step \in [Processes -> {"idle"} \union ExportStep \union PublishStep]
      /\ want \in [Publishers -> Dir]
      /\ pull \in [Artifacts -> PullState]
      /\ opened \in [Artifacts -> Nat]
      /\ \A q \in Publishers : q = p
  BY PublisherAssumption DEF PInv, TInv, StepType, CallType, OnePublisher
<1>1. step[p] \in Unproposed => pull[Hash(p)] = "none"
  BY DEF PInv, PullInv
<1>2. CASE OpenPull(Hash(p)) /\ pull[Hash(p)] = "none" /\ step'[p] \notin Unproposed
  <2>1. CountInv'
    BY <1>0, <1>2 DEF PInv, CountInv, OpenPull
  <2>2. PullInv'
    BY <1>0, <1>2 DEF PullInv
  <2> QED
    BY <2>1, <2>2
<1>3. CASE UNCHANGED <<pull, opened>>
  <2>1. CountInv'
    BY <1>3 DEF PInv, CountInv
  <2>2. step'[p] \in Unproposed /\ step[p] \notin Unproposed => pull[Hash(p)] = "none"
    <3> USE <1>0 DEF GoOn, Goto, Return, Unproposed
    <3>1. CASE LookUp(p)
      BY <3>1 DEF LookUp, Found
    <3>2. CASE BeginPublish(p)
      BY <3>2 DEF BeginPublish
    <3>3. CASE Inspect(p) \/ Compare(p) \/ Build(p)
      BY <3>3 DEF Inspect, Compare, Build
    <3>4. CASE Push(p) \/ Verify(p) \/ ConfirmPull(p)
      BY <3>4 DEF Push, Verify, ConfirmPull
    <3>5. CASE CreatePull(p) \/ CreateFails(p)
      BY <3>5 DEF CreatePull, CreateFails
    <3>6. CASE FailPublish(p) \/ KillPublish(p)
      BY <3>6 DEF FailPublish, KillPublish
    <3> QED
      BY <3>1, <3>2, <3>3, <3>4, <3>5, <3>6 DEF PublisherStep, Publish
  <2>3. step'[p] \in Unproposed => want'[p] = want[p]
    <3> USE <1>0 DEF GoOn, Goto, Return, Unproposed, local
    <3>1. CASE BeginPublish(p)
      BY <3>1 DEF BeginPublish
    <3>2. CASE LookUp(p) \/ Inspect(p) \/ Compare(p) \/ Build(p)
      BY <3>2 DEF LookUp, Inspect, Compare, Build
    <3>3. CASE Push(p) \/ Verify(p) \/ ConfirmPull(p)
      BY <3>3 DEF Push, Verify, ConfirmPull
    <3>4. CASE CreatePull(p) \/ CreateFails(p)
      BY <3>4 DEF CreatePull, CreateFails
    <3>5. CASE FailPublish(p) \/ KillPublish(p)
      BY <3>5 DEF FailPublish, KillPublish
    <3> QED
      BY <3>1, <3>2, <3>3, <3>4, <3>5 DEF PublisherStep, Publish
  <2>4. PullInv'
    BY <1>0, <1>1, <1>3, <2>2, <2>3 DEF PullInv, Hash
  <2> QED
    BY <2>1, <2>4
<1> QED
  BY <1>2, <1>3, PublisherOnGitHub

\* A call that pushed nothing is about to answer for the branch, or has.
Answers(p) == \/ step[p] = "adopting"
              \/ tree[p] = Absent /\ step[p] \in {"refused", "confirming"}
              \/ tree[p] = Absent /\ outcome[p] = "duplicate"

LEMMA BranchStep ==
  ASSUME PInv, BranchInv, NEW p \in Publishers, PublisherStep(p)
  PROVE  /\ step'[p] \in PublishStep => outcome'[p] = "none"
         /\ outcome'[p] = "duplicate" => Whole(want'[p])
         /\ Answers(p)' => branch'[Hash(p)'] \in {Absent, want'[p]}
<1>0. /\ p \in Processes
      /\ step \in [Processes -> {"idle"} \union ExportStep \union PublishStep]
      /\ want \in [Publishers -> Dir]
      /\ tree \in [Publishers -> Dir]
      /\ outcome \in [Publishers -> Outcome]
      /\ branch \in [Artifacts -> Dir]
  BY PublisherAssumption DEF PInv, TInv, StepType, CallType
<1>1. /\ step[p] \in PublishStep => /\ outcome[p] = "none"
                                    /\ Whole(want[p])
                                    /\ Hash(p) \in Artifacts
      /\ step[p] \in Built => Whole(tree[p])
      /\ ~Whole(Absent)
  BY WantsArtifact, WholeFacts DEF PInv, TInv, Validated, BranchInv
<1>2. Answers(p) => branch[Hash(p)] \in {Absent, want[p]}
  BY DEF BranchInv, Answers
<1>3. CASE BeginPublish(p)
  BY <1>0, <1>3 DEF BeginPublish, Goto, Answers, PublishStep
<1>4. CASE Build(p)
  BY <1>0, <1>1, <1>4 DEF Build, GoOn, Goto, Answers, PublishStep
<1>5. CASE ~BeginPublish(p) /\ ~Build(p)
  <2>1. UNCHANGED <<want, tree>> /\ step[p] \in PublishStep
    <3> USE DEF GoOn, Goto, Return, PublishStep, local
    <3>1. CASE LookUp(p) \/ Inspect(p) \/ Compare(p)
      BY <3>1 DEF LookUp, Inspect, Compare
    <3>2. CASE Push(p) \/ Verify(p) \/ ConfirmPull(p)
      BY <3>2 DEF Push, Verify, ConfirmPull
    <3>3. CASE CreatePull(p) \/ CreateFails(p)
      BY <3>3 DEF CreatePull, CreateFails
    <3>4. CASE FailPublish(p) \/ KillPublish(p)
      BY <3>4 DEF FailPublish, KillPublish
    <3> QED
      BY <1>5, <3>1, <3>2, <3>3, <3>4 DEF PublisherStep, Publish
  <2>2. Hash(p)' = Hash(p)
    BY <2>1 DEF Hash
  <2>3. step'[p] \in PublishStep => outcome'[p] = "none"
    <3> USE <1>0, <1>1, <2>1 DEF GoOn, Goto, Return, PublishStep
    <3>1. CASE LookUp(p) \/ Inspect(p) \/ Compare(p)
      BY <3>1 DEF LookUp, Inspect, Compare
    <3>2. CASE Push(p) \/ Verify(p) \/ ConfirmPull(p)
      BY <3>2 DEF Push, Verify, ConfirmPull
    <3>3. CASE CreatePull(p) \/ CreateFails(p)
      BY <3>3 DEF CreatePull, CreateFails
    <3>4. CASE FailPublish(p) \/ KillPublish(p)
      BY <3>4 DEF FailPublish, KillPublish
    <3> QED
      BY <1>5, <3>1, <3>2, <3>3, <3>4 DEF PublisherStep, Publish
  <2>4. ASSUME Answers(p)' PROVE branch'[Hash(p)] \in {Absent, want[p]}
    <3> USE <1>0, <1>1, <2>1 DEF GoOn, Goto, Return, PublishStep, github
    <3>a. \/ step'[p] = "adopting"
          \/ tree[p] = Absent /\ step'[p] \in {"refused", "confirming"}
          \/ tree[p] = Absent /\ outcome'[p] = "duplicate"
      BY <2>4 DEF Answers
    <3>1. CASE LookUp(p) \/ Inspect(p)
      BY <3>a, <3>1 DEF LookUp, Inspect
    <3>2. CASE Compare(p)
      BY <3>a, <3>2 DEF Compare, Matches
    <3>3. CASE Push(p) \/ Verify(p)
      BY <3>a, <3>3 DEF Push, Verify
    <3>4. CASE ConfirmPull(p)
      BY <1>2, <3>a, <3>4 DEF ConfirmPull, Answers
    <3>5. CASE CreatePull(p) \/ CreateFails(p)
      <4>1. step[p] \in {"adopting", "proposing"}
        BY <3>5 DEF CreatePull, CreateFails
      <4>2. step'[p] \in {"refused", "confirming"} /\ outcome'[p] = outcome[p]
        BY <3>5 DEF CreatePull, CreateFails
      <4>3. branch' = branch
        BY <3>5 DEF CreatePull, CreateFails, OpenPull
      <4>4. tree[p] = Absent
        BY <3>a, <4>2
      <4>5. step[p] = "adopting"
        BY <4>1, <4>4 DEF Built
      <4> QED
        BY <1>2, <4>3, <4>5 DEF Answers
    <3>6. CASE FailPublish(p) \/ KillPublish(p)
      BY <3>a, <3>6 DEF FailPublish, KillPublish
    <3> QED
      BY <1>5, <3>1, <3>2, <3>3, <3>4, <3>5, <3>6 DEF PublisherStep, Publish
  <2>5. outcome'[p] = "duplicate" => Whole(want[p])
    BY <1>1, <2>1
  <2> QED
    BY <2>1, <2>2, <2>3, <2>4, <2>5
<1> QED
  BY <1>3, <1>4, <1>5

LEMMA OneInit == Init /\ OnePublisher => PInv /\ BranchInv
<1> SUFFICES ASSUME Init, OnePublisher PROVE PInv /\ BranchInv
  OBVIOUS
<1>1. \A p \in Publishers : step[p] = "idle" /\ outcome[p] = "none"
  BY PublisherAssumption DEF Init, ExportInit
<1>2. PullInv /\ CountInv /\ BranchInv
  BY <1>1, StepNames
     DEF Init, PullInv, CountInv, BranchInv, Unproposed
<1> QED
  BY <1>2, TypesInit DEF PInv

LEMMA OneStep == PInv /\ BranchInv /\ [Next]_vars => PInv' /\ BranchInv'
<1> SUFFICES ASSUME PInv, BranchInv, [Next]_vars PROVE PInv' /\ BranchInv'
  OBVIOUS
<1>0. TInv' /\ OnePublisher
  BY TypesStep DEF PInv
<1>1. ASSUME NEW p \in Publishers, PublisherStep(p) PROVE PInv' /\ BranchInv'
  <2>1. PullInv' /\ CountInv'
    BY <1>1, PullStep
  <2>2. \A q \in Publishers : q = p
    BY <1>0 DEF OnePublisher
  <2>3. BranchInv'
    BY <1>1, <2>2, BranchStep DEF BranchInv, Answers, Whole
  <2> QED
    BY <1>0, <2>1, <2>3 DEF PInv, OnePublisher
<1>2. CASE ExportNext /\ UNCHANGED publisherVars
  <2>1. \A p \in Publishers : \/ step'[p] = step[p]
                              \/ step'[p] \notin PublishStep
    BY <1>2, ExportKeepsPublishers, PublisherAssumption DEF PInv
  <2>2. UNCHANGED <<branch, pull, opened, want, tree, outcome>>
    BY <1>2 DEF publisherVars, github, call
  <2>3. Unproposed \union {"refused", "confirming"} \subseteq PublishStep
    BY DEF Unproposed, PublishStep
  <2>4. PullInv' /\ CountInv'
    BY <2>1, <2>2, <2>3 DEF PInv, PullInv, CountInv, Hash
  <2>5. BranchInv'
    BY <2>1, <2>2, <2>3 DEF BranchInv, Hash, Whole, Unproposed
  <2> QED
    BY <1>0, <2>4, <2>5 DEF PInv, OnePublisher
<1>3. ASSUME NEW a \in Artifacts, Decide(a) \/ DeleteBranch(a)
      PROVE  PInv' /\ BranchInv'
  <2>0. /\ pull \in [Artifacts -> PullState]
        /\ branch \in [Artifacts -> Dir]
    BY DEF PInv, TInv, CallType
  <2>1. UNCHANGED <<step, opened, want, tree, outcome>>
    BY <1>3 DEF Decide, DeleteBranch, exportVars, call
  <2>2. \A b \in Artifacts : /\ pull'[b] = "none" <=> pull[b] = "none"
                             /\ branch'[b] \in {branch[b], Absent}
    BY <1>3, <2>0 DEF Decide, DeleteBranch
  <2>3. \A p \in Publishers : step[p] \in PublishStep \/ outcome[p] = "duplicate" =>
                                Hash(p) \in Artifacts
    BY WantsArtifact, WholeFacts DEF PInv, BranchInv, Hash
  <2>4. Unproposed \union {"refused", "confirming"} \subseteq PublishStep
    BY DEF Unproposed, PublishStep
  <2>5. PullInv' /\ CountInv'
    BY <2>1, <2>2, <2>3, <2>4 DEF PInv, PullInv, CountInv, Hash
  <2>6. BranchInv'
    BY <2>1, <2>2, <2>3, <2>4 DEF BranchInv, Hash, Whole, Unproposed
  <2> QED
    BY <1>0, <2>5, <2>6 DEF PInv, OnePublisher
<1>4. CASE UNCHANGED vars
  <2>1. UNCHANGED <<step, branch, pull, opened, want, tree, outcome>>
    BY <1>4 DEF vars, exportVars, publisherVars, github, call
  <2> QED
    BY <1>0, <2>1 DEF PInv, OnePublisher, PullInv, CountInv, BranchInv, Hash, Whole
<1> QED
  BY <1>1, <1>2, <1>3, <1>4 DEF Next, PublisherStep

LEMMA OneHolds == Spec /\ OnePublisher => [](PInv /\ BranchInv)
  BY OneInit, OneStep, PTL DEF Spec

\* However often publish is killed, fails or is repeated, and whoever decides or
\* deletes meanwhile: an artifact has one pull request.
THEOREM OnePull == Spec /\ OnePublisher => []OnePullPerArtifact
<1>1. PInv => OnePullPerArtifact
  BY DEF PInv, CountInv, OnePullPerArtifact
<1> QED
  BY <1>1, OneHolds, PTL

\* A branch is proposed or answered for by a call that did not push it only if it
\* is what this call was asked to publish, manifest and all, or is gone.
THEOREM AdoptedBranches == Spec /\ OnePublisher => []AdoptedBranchMatches
<1>1. BranchInv => AdoptedBranchMatches
  BY DEF BranchInv, AdoptedBranchMatches
<1> QED
  BY <1>1, OneHolds, PTL

\* Once an artifact has a pull request the publisher neither pushes its branch nor
\* touches the request, and what people closed or merged stays so.
THEOREM Decided == Spec /\ OnePublisher => DecisionIsFinal
<1>1. PInv /\ [Next]_vars =>
        [\A a \in Artifacts :
           pull[a] # "none" =>
             /\ branch'[a] \in {branch[a], Absent}
             /\ pull'[a] \notin {"none"} /\ opened'[a] = opened[a]
             /\ pull[a] \notin {"draft", "ready"} => pull'[a] = pull[a]]_vars
  <2> SUFFICES ASSUME PInv, Next, NEW a \in Artifacts, pull[a] # "none"
               PROVE  /\ branch'[a] \in {branch[a], Absent}
                      /\ pull'[a] \notin {"none"} /\ opened'[a] = opened[a]
                      /\ pull[a] \notin {"draft", "ready"} => pull'[a] = pull[a]
    OBVIOUS
  <2>0. /\ pull \in [Artifacts -> PullState]
        /\ branch \in [Artifacts -> Dir]
        /\ opened \in [Artifacts -> Nat]
    BY DEF PInv, TInv, CallType
  <2>1. CASE UNCHANGED publisherVars
    BY <2>1 DEF publisherVars, github
  <2>2. ASSUME NEW p \in Publishers, PublisherStep(p)
        PROVE  branch'[a] = branch[a] /\ pull'[a] = pull[a] /\ opened'[a] = opened[a]
    BY <2>0, <2>2, PublisherOnGitHub DEF OpenPull
  <2>3. ASSUME NEW b \in Artifacts, Decide(b) \/ DeleteBranch(b)
        PROVE  /\ branch'[a] \in {branch[a], Absent}
               /\ pull'[a] \notin {"none"} /\ opened'[a] = opened[a]
               /\ pull[a] \notin {"draft", "ready"} => pull'[a] = pull[a]
    BY <2>0, <2>3 DEF Decide, DeleteBranch
  <2> QED
    BY <2>1, <2>2, <2>3 DEF Next, PublisherStep
<1> QED
  BY <1>1, OneHolds, PTL DEF Spec, DecisionIsFinal
=============================================================================
