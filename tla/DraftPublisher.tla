--------------------------- MODULE DraftPublisher ---------------------------
(***************************************************************************)
(* GitHubDraftPublisher.publish (publishing/github.py) over the bundle that *)
(* exports leave at export_path, and the part of GitHub it works with.     *)
(*                                                                         *)
(* A branch is named after the artifact it is for.  An artifact's pull     *)
(* request is the newest one of its branch, open or not: that is the row   *)
(* `gh pr list --state all` lists first.  Each gh or git command and each  *)
(* reading of the bundle is a step; in between, people decide on pull      *)
(* requests, exports run, and the publisher may be killed, after which its *)
(* job is run again.                                                       *)
(***************************************************************************)
EXTENDS BundleExport

CONSTANT
  Publishers    \* the processes that publish, each with a worktree root of its own

ASSUME PublisherAssumption == Publishers \subseteq Processes

VARIABLES
  main,         \* publication/ on the downstream main branch
  branch,       \* publication/ on each artifact's branch
  pull,         \* each artifact's newest pull request
  opened,       \* history: how many pull requests an artifact ever had
  want,         \* the manifest this call of publish validated
  tree,         \* the bundle this call copied into its worktree
  outcome,      \* how the last call ended
  redo          \* the process was killed in publish and has to run it again

github        == <<main, branch, pull, opened>>
call          == <<want, tree, outcome, redo>>
publisherVars == <<github, call>>
vars          == <<exportVars, publisherVars>>

PullState == {"none", "draft", "ready", "merged", "closed", "rejected"}
Drafts    == {"draft", "closed"}     \* isDraft is true, open or closed
Open      == {"draft", "ready"}

PublishStep == {"asking", "known", "new", "knownBranch", "strayBranch", "adopting",
                "building", "pushing", "pushed", "proposing", "refused", "confirming"}
Outcome     == {"none", "created", "duplicate", "failed", "mismatch"}

Built == {"pushing", "pushed", "proposing"}    \* this call made the branch

\* Types; and publish works for a validated bundle, and pushes a validated copy.
TypeOK ==
  /\ ExportTypeOK
  /\ step \in [Processes -> {"idle"} \union ExportStep \union PublishStep]
  /\ main \in Dir
  /\ branch \in [Artifacts -> Dir]
  /\ pull \in [Artifacts -> PullState]
  /\ opened \in [Artifacts -> Nat]
  /\ want \in [Publishers -> Dir]
  /\ tree \in [Publishers -> Dir]
  /\ outcome \in [Publishers -> Outcome]
  /\ redo \in [Publishers -> BOOLEAN]
  /\ \A p \in Publishers : /\ step[p] \in PublishStep => Whole(want[p])
                           /\ step[p] \in Built => Whole(tree[p])

Init ==
  /\ ExportInit
  /\ main = Absent
  /\ branch = [a \in Artifacts |-> Absent]
  /\ pull = [a \in Artifacts |-> "none"]
  /\ opened = [a \in Artifacts |-> 0]
  /\ want = [p \in Publishers |-> Absent]
  /\ tree = [p \in Publishers |-> Absent]
  /\ outcome = [p \in Publishers |-> "none"]
  /\ redo = [p \in Publishers |-> FALSE]

-----------------------------------------------------------------------------
(* GitHubDraftPublisher.publish *)

Hash(p) == want[p].files    \* artifact_hash, and the branch named after it

\* publish ends: it returns a result, or raises PublicationError.
Return(p, from, result) ==
  /\ Goto(p, from, "idle")
  /\ outcome' = [outcome EXCEPT ![p] = result]

\* publish goes on to the next step or, unless ok, fails.
GoOn(p, from, ok, to) ==
  /\ Goto(p, from, IF ok THEN to ELSE "idle")
  /\ outcome' = [outcome EXCEPT ![p] = IF ok THEN @ ELSE "failed"]

local == <<want, tree, redo>>
outer == <<ledger, disk, image, exported, budget>>

\* The bundle is validated and names the branch.
BeginPublish(p) ==
  /\ Goto(p, "idle", IF Whole(target) THEN "asking" ELSE "idle")
  /\ outcome' = [outcome EXCEPT ![p] = IF Whole(target) THEN "none" ELSE "failed"]
  /\ want' = [want EXCEPT ![p] = IF Whole(target) THEN target ELSE Absent]
  /\ tree' = [tree EXCEPT ![p] = Absent]
  /\ redo' = [redo EXCEPT ![p] = FALSE]
  /\ UNCHANGED <<outer, github>>

\* Mutant: only open pull requests are listed, which is gh's default.
MutantFound(a) == pull[a] \in Open

\* gh pr list --state all
Found(a) == pull[a] # "none"

LookUp(p) ==
  /\ step[p] = "asking"
  /\ IF Found(Hash(p))
       THEN GoOn(p, "asking", pull[Hash(p)] \in Drafts, "known")
       ELSE GoOn(p, "asking", TRUE, "new")
  /\ UNCHANGED <<outer, github, local>>

\* Mutant: a branch without a pull request is an error.
MutantInspect(p) ==
  LET exists == branch[Hash(p)] # Absent
  IN  /\ \/ GoOn(p, "known", exists, "knownBranch")
         \/ GoOn(p, "new", ~exists, "building")
      /\ UNCHANGED <<outer, github, local>>

\* git ls-remote: is there a branch?
Inspect(p) ==
  LET exists == branch[Hash(p)] # Absent
  IN  /\ \/ GoOn(p, "known", exists, "knownBranch")
         \/ GoOn(p, "new", TRUE, IF exists THEN "strayBranch" ELSE "building")
      /\ UNCHANGED <<outer, github, local>>

\* Mutant: the branch is trusted for its name.
MutantMatches(p) == branch[Hash(p)] # Absent

\* The branch is there, and its hash and the rest of its manifest are the
\* requested ones.
Matches(p) == branch[Hash(p)] = want[p]

SameHash(p) == branch[Hash(p)].files = Hash(p)

\* _validate_remote_branch.  A branch whose artifact main already has may show no
\* changes any more, which is an error, too.
Compare(p) ==
  /\ step[p] \in {"knownBranch", "strayBranch"}
  /\ \/ /\ Matches(p)
        /\ IF step[p] = "knownBranch" THEN Return(p, "knownBranch", "duplicate")
                                      ELSE GoOn(p, "strayBranch", TRUE, "adopting")
     \/ /\ ~Matches(p)
        /\ Return(p, step[p], IF SameHash(p) THEN "mismatch" ELSE "failed")
     \/ /\ pull[Hash(p)] = "merged"
        /\ Return(p, step[p], "failed")
  /\ UNCHANGED <<outer, github, local>>

\* Mutant: the copy is not validated.
MutantBuild(p) ==
  /\ tree' = [tree EXCEPT ![p] = target]
  /\ GoOn(p, "building", target # main, "pushing")
  /\ UNCHANGED <<outer, github, want, redo>>

\* A clone of main, a copy of whatever bundle is at export_path by now, its
\* validation, and the commit, which fails when the copy is what main has.
Build(p) ==
  /\ tree' = [tree EXCEPT ![p] = target]
  /\ \E ok \in BOOLEAN : /\ ok => Whole(target)
                         /\ ~ok => target = main \/ ~Whole(target)
                         /\ GoOn(p, "building", ok, "pushing")
  /\ UNCHANGED <<outer, github, want, redo>>

\* git push, rejected when another publisher has pushed the branch.
Push(p) ==
  /\ step[p] = "pushing"
  /\ GoOn(p, "pushing", branch[Hash(p)] = Absent, "pushed")
  /\ branch' = IF branch[Hash(p)] = Absent THEN [branch EXCEPT ![Hash(p)] = tree[p]]
                                           ELSE branch
  /\ UNCHANGED <<outer, main, pull, opened, local>>

Verify(p) ==
  /\ GoOn(p, "pushed", branch[Hash(p)] # Absent, "proposing")
  /\ UNCHANGED <<outer, github, local>>

\* GitHub refuses a second open pull request of a branch.
Proposable(a) == pull[a] \notin Open /\ branch[a] # Absent

OpenPull(a) == /\ pull' = [pull EXCEPT ![a] = "draft"]
               /\ opened' = [opened EXCEPT ![a] = @ + 1]
               /\ UNCHANGED <<main, branch>>

\* gh pr create --draft
CreatePull(p) ==
  /\ step[p] \in {"adopting", "proposing"}
  /\ IF Proposable(Hash(p))
       THEN GoOn(p, step[p], TRUE, "confirming") /\ OpenPull(Hash(p))
       ELSE GoOn(p, step[p], TRUE, "refused") /\ UNCHANGED github
  /\ UNCHANGED <<outer, local>>

\* gh pr create reports an error; the pull request may exist all the same.
CreateFails(p) ==
  /\ step[p] \in {"adopting", "proposing"}
  /\ faults < MaxFaults
  /\ faults' = faults + 1
  /\ GoOn(p, step[p], TRUE, "refused")
  /\ \/ UNCHANGED github
     \/ Proposable(Hash(p)) /\ OpenPull(Hash(p))
  /\ UNCHANGED <<ledger, disk, image, exported, edits, crashes, local>>

\* The pull request is looked up, whether it was created or refused.
ConfirmPull(p) ==
  LET drafted == pull[Hash(p)] \in Drafts
  IN  /\ \/ Return(p, "refused", IF drafted THEN "duplicate" ELSE "failed")
         \/ Return(p, "confirming", IF ~drafted THEN "failed"
                                    ELSE IF tree[p] = Absent THEN "duplicate" ELSE "created")
      /\ UNCHANGED <<outer, github, local>>

\* Any other command fails, and publish with it.
FailPublish(p) ==
  /\ faults < MaxFaults
  /\ faults' = faults + 1
  /\ step[p] \in PublishStep \ {"adopting", "proposing"}
  /\ Return(p, step[p], "failed")
  /\ UNCHANGED <<ledger, disk, image, exported, edits, crashes, github, local>>

\* The worker is killed; its job is queued again.
KillPublish(p) ==
  /\ crashes < MaxCrashes
  /\ crashes' = crashes + 1
  /\ step[p] \in PublishStep
  /\ Return(p, step[p], "none")
  /\ redo' = [redo EXCEPT ![p] = TRUE]
  /\ UNCHANGED <<ledger, disk, image, exported, edits, faults, github, want, tree>>

Publish(p) ==
  \/ LookUp(p) \/ Inspect(p) \/ Compare(p) \/ Build(p) \/ Push(p) \/ Verify(p)
  \/ CreatePull(p) \/ ConfirmPull(p)

-----------------------------------------------------------------------------
(* People on GitHub *)

\* Ready for review, merged or closed: what is decided is not reopened.
Decide(a) ==
  /\ \/ pull[a] = "draft" /\ pull' = [pull EXCEPT ![a] = "ready"] /\ UNCHANGED main
     \/ pull[a] = "draft" /\ pull' = [pull EXCEPT ![a] = "closed"] /\ UNCHANGED main
     \/ pull[a] = "ready" /\ pull' = [pull EXCEPT ![a] = "rejected"] /\ UNCHANGED main
     \/ pull[a] = "ready" /\ pull' = [pull EXCEPT ![a] = "merged"] /\ main' = branch[a]
  /\ UNCHANGED <<exportVars, branch, opened, call>>

\* The branch of a closed pull request is deleted.
DeleteBranch(a) ==
  /\ pull[a] \in {"merged", "closed", "rejected"}
  /\ branch[a] # Absent
  /\ branch' = [branch EXCEPT ![a] = Absent]
  /\ UNCHANGED <<exportVars, main, pull, opened, call>>

-----------------------------------------------------------------------------
Next ==
  \/ ExportNext /\ UNCHANGED publisherVars
  \/ \E p \in Publishers : BeginPublish(p) \/ Publish(p) \/ CreateFails(p)
                           \/ FailPublish(p) \/ KillPublish(p)
  \/ \E a \in Artifacts : Decide(a) \/ DeleteBranch(a)

\* A call goes on to its end, an export too, and the job of a killed publisher is
\* run again although others are before it in the queue.  Nobody has to publish,
\* export or decide.
Fairness ==
  /\ \A p \in Exporters : WF_vars((Export(p) /\ ~Read(p)) /\ UNCHANGED publisherVars)
  /\ \A p \in Publishers : /\ WF_vars(Publish(p))
                           /\ SF_vars(redo[p] /\ BeginPublish(p))

Spec     == Init /\ [][Next]_vars
FairSpec == Spec /\ Fairness

-----------------------------------------------------------------------------
(* Properties *)

\* A branch that an earlier call left, with or without a pull request, is answered
\* for or proposed only if it holds what this call was asked to publish, files and
\* manifest, whatever was exported and wherever earlier calls were killed.
AdoptedBranchMatches ==
  \A p \in Publishers :
    \/ step[p] = "adopting"
    \/ outcome[p] = "duplicate" /\ tree[p] = Absent
    => branch[Hash(p)] \in {Absent, want[p]}

\* However often publish is killed, fails or is repeated, an artifact gets one pull
\* request: a retry finds the branch or the pull request of the call before it.
OnePullPerArtifact == \A a \in Artifacts : opened[a] <= 1

\* What people decided stays decided: once an artifact has a pull request, the
\* publisher neither pushes its branch again nor changes the pull request.
DecisionIsFinal ==
  [][\A a \in Artifacts :
       pull[a] # "none" => /\ branch'[a] \in {branch[a], Absent}
                           /\ pull'[a] \notin {"none"} /\ opened'[a] = opened[a]
                           /\ pull[a] \notin {"draft", "ready"} => pull'[a] = pull[a]]_vars

\* A publish that began for an artifact ends with that artifact's pull request, even
\* if it is killed between any two commands, unless another bundle was exported.
Proposed ==
  \A p \in Publishers, a \in Artifacts :
    step[p] = "asking" /\ Hash(p) = a ~> pull[a] # "none" \/ target.files # a

\* README.md: "draft-only downstream GitHub publisher with artifact-hash
\* deduplication": a bundle whose artifact is on its branch already is a duplicate.
SameHashIsDuplicate == \A p \in Publishers : outcome[p] # "mismatch"

\* publishing/github.py: "The existing publication branch does not match the
\* requested artifact" is an error: a branch holds the artifact it is named after.
BranchHoldsItsArtifact ==
  \A a \in Artifacts : branch[a] # Absent => branch[a].files = a
=============================================================================
