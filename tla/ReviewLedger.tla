---------------------------- MODULE ReviewLedger ----------------------------
(***************************************************************************)
(* Human review of detected changes: structured_diffs, change_review_queue *)
(* and confirmed_changes (storage/schema.sql), the repository methods that *)
(* write them (storage/repositories.py), and a job that reads them with    *)
(* one statement per table and no transaction (storage/read_models.py) and *)
(* derives the daily brief's status (editorial/reports.py).                *)
(*                                                                         *)
(* Each write is a transaction of its own; writers that put several in one *)
(* have fewer interleavings.  A refused write changes nothing.  Rows of    *)
(* change_review_queue never change, so a row a reviewer loaded earlier is *)
(* the row in the table, and a review is written from any row.             *)
(***************************************************************************)
EXTENDS Integers, Sequences

CONSTANTS
  Candidates,    \* ids of structured diffs
  Material,      \* those with material_candidate
  ChangeIds,     \* ids of material changes
  SystemsKnown,  \* the ledger holds systems or assertions
  MaxReviews     \* bound: rows of change_review_queue

ASSUME MaterialAssumption == Material \subseteq Candidates
ASSUME ReviewBound == MaxReviews \in Nat

VARIABLES
  diffs,      \* table structured_diffs
  reviews,    \* table change_review_queue, in rowid order
  changes,    \* table confirmed_changes
  at,         \* how many of its statements a brief or publication job has run
  reader      \* what it has read

vars == <<diffs, reviews, changes, at, reader>>

NoPrior  == 0
Decision == {"CONFIRMED", "REJECTED"}
Review   == [candidate : Candidates, prior : 0..MaxReviews, status : {"PENDING"} \union Decision]
Change   == [id : ChangeIds, review : 1..MaxReviews]

Rows(c)     == {i \in DOMAIN reviews : reviews[i].candidate = c}
IsLatest(i) == \A j \in DOMAIN reviews : reviews[j].prior # i
Latest      == {i \in DOMAIN reviews : IsLatest(i)}
Pending     == {i \in Latest : reviews[i].status = "PENDING"}

\* What pending_review_count and every brief understand by a finished review.
Decided(c)  == Rows(c) # {} /\ Rows(c) \intersect Pending = {}

\* A mutant: latest_reviews is read before the changes.
MutantStatements ==
  <<"candidates", "latest_reviews", "confirmed_changes", "confirmed_change_reviews">>

\* The statements of publication_data that read these tables, in their order.
Statements == <<"candidates", "confirmed_changes", "confirmed_change_reviews", "latest_reviews">>

Unread == [candidates |-> {}, changes |-> {}, explained |-> {}, latest |-> {}, committed |-> {}]
Done   == at = Len(Statements)

\* Types; and every change refers to a review, every review to a stored diff.
TypeOK ==
  /\ diffs \subseteq Candidates
  /\ reviews \in Seq(Review) /\ Len(reviews) <= MaxReviews
  /\ changes \subseteq Change
  /\ \A i \in DOMAIN reviews : reviews[i].candidate \in diffs
  /\ \A x \in changes : x.review \in DOMAIN reviews
  /\ at \in 0..Len(Statements)
  /\ reader \in [candidates : SUBSET Candidates, changes : SUBSET Change,
                 explained : SUBSET Change, latest : SUBSET (1..MaxReviews),
                 committed : SUBSET Change]

Init == diffs = {} /\ reviews = <<>> /\ changes = {} /\ at = 0 /\ reader = Unread

-----------------------------------------------------------------------------
(* Writers *)

AddDiff(c) ==
  /\ c \notin diffs
  /\ diffs' = diffs \union {c}
  /\ UNCHANGED <<reviews, changes, at, reader>>

\* change_review_queue_preserve_machine_proposal: a successor repeats its prior's proposal.
KeepsProposal(row) ==
  row.prior # NoPrior => /\ row.prior \in DOMAIN reviews
                         /\ reviews[row.prior].candidate = row.candidate

\* Mutants: the schema without one of its unique indexes.
MutantOneProposal(row)  == TRUE
MutantOneSuccessor(row) == TRUE

\* one_machine_proposal_per_candidate
OneProposal(row) ==
  row.prior = NoPrior => \A i \in Rows(row.candidate) : reviews[i].prior # NoPrior

\* one_successor_per_review
OneSuccessor(row) == row.prior # NoPrior => IsLatest(row.prior)

\* A mutant: foreign keys are off.
MutantAddReview(row) ==
  /\ Len(reviews) < MaxReviews
  /\ row.status = "PENDING" <=> row.prior = NoPrior
  /\ KeepsProposal(row) /\ OneProposal(row) /\ OneSuccessor(row)
  /\ reviews' = Append(reviews, row)
  /\ UNCHANGED <<diffs, changes, at, reader>>

AddReview(row) ==
  /\ Len(reviews) < MaxReviews
  /\ row.candidate \in diffs
  /\ row.status = "PENDING" <=> row.prior = NoPrior
  /\ KeepsProposal(row)
  /\ OneProposal(row)
  /\ OneSuccessor(row)
  /\ reviews' = Append(reviews, row)
  /\ UNCHANGED <<diffs, changes, at, reader>>

\* The machine proposes, again if a detection is repeated.
CreateReview(c) == AddReview([candidate |-> c, prior |-> NoPrior, status |-> "PENDING"])

Successor(i, s) == [candidate |-> reviews[i].candidate, prior |-> i, status |-> s]

ConfirmReview(i) ==
  /\ reviews[i].status = "PENDING"
  /\ AddReview(Successor(i, "CONFIRMED"))

\* A caller that builds the record itself: a rejection, or a second opinion on a
\* completed review, which the tables accept.
RecordDecision(i, s) == AddReview(Successor(i, s))

AddConfirmedChange(id, i) ==
  /\ \A x \in changes : x.id # id
  /\ reviews[i].status = "CONFIRMED"
  /\ changes' = changes \union {[id |-> id, review |-> i]}
  /\ UNCHANGED <<diffs, reviews, at, reader>>

-----------------------------------------------------------------------------
(* A reader: publication_data, statement by statement *)

Runs(s) == ~Done /\ Statements[at + 1] = s /\ at' = at + 1

Tables == <<diffs, reviews, changes>>

ReadCandidates ==
  /\ Runs("candidates")
  /\ reader' = [reader EXCEPT !.candidates = diffs]
  /\ UNCHANGED Tables

ReadChanges ==
  /\ Runs("confirmed_changes")
  /\ reader' = [reader EXCEPT !.changes = changes]
  /\ UNCHANGED Tables

ReadChangeReviews ==
  /\ Runs("confirmed_change_reviews")
  /\ reader' = [reader EXCEPT !.explained = changes]
  /\ UNCHANGED Tables

\* committed is history: the changes that were in the table at this moment.
ReadLatest ==
  /\ Runs("latest_reviews")
  /\ reader' = [reader EXCEPT !.latest = Latest, !.committed = changes]
  /\ UNCHANGED Tables

StartReading ==
  /\ Done
  /\ at' = 0
  /\ reader' = Unread
  /\ UNCHANGED Tables

\* A mutant: a review counts as completed whatever its status.
MutantCompleted == {reviews[i].candidate : i \in reader.latest}

Surviving == reader.candidates \intersect Material
Completed == {reviews[i].candidate : i \in {j \in reader.latest : reviews[j].status # "PENDING"}}
Content   == SystemsKnown \/ reader.candidates # {} \/ reader.changes # {} \/ reader.latest # {}

Status ==
  IF reader.changes # {} THEN "MATERIAL_CHANGES"
  ELSE IF ~(Surviving \subseteq Completed) THEN "REVIEW_PENDING"
  ELSE IF Surviving # {} THEN "NO_CONFIRMED_MATERIAL_CHANGE"
  ELSE IF ~Content THEN "NO_REVIEWED_CONTENT"
  ELSE "NO_MATERIAL_CHANGE"

Write ==
  \/ \E c \in Candidates : AddDiff(c) \/ CreateReview(c)
  \/ \E i \in DOMAIN reviews :
       \/ ConfirmReview(i)
       \/ \E s \in Decision : RecordDecision(i, s)
       \/ \E id \in ChangeIds : AddConfirmedChange(id, i)

Read ==
  ReadCandidates \/ ReadChanges \/ ReadChangeReviews \/ ReadLatest \/ StartReading

Next == Write \/ Read

Spec == Init /\ [][Next]_vars

-----------------------------------------------------------------------------
(* Properties *)

\* However reviewers race on a proposal and detections are repeated, the reviews of
\* a candidate form one history: exactly one of them is the latest, so that
\* latest_reviews and pending_review_count answer once for each candidate.
HistoryIsChain ==
  \A c \in Candidates :
    Rows(c) # {} => \E i \in Rows(c) : \A j \in Rows(c) : IsLatest(j) <=> j = i

\* A candidate people have decided on is never pending again, whatever is detected,
\* proposed or corrected later.
DecisionsStand == [][\A c \in Candidates : Decided(c) => Decided(c)']_vars

\* A publication never lists a change whose review it did not read, or whose
\* candidate it counts as pending, although its tables are read at different moments.
ChangesComeWithReviews ==
  Done => \A x \in reader.changes :
            /\ x \in reader.explained
            /\ \A i \in reader.latest :
                 reviews[i].candidate = reviews[x.review].candidate
                   => reviews[i].status # "PENDING"

\* A brief that mentions neither changes nor pending reviews is right to be silent:
\* people have decided on every material candidate that was stored when it began.
SilenceIsDecided ==
  Done /\ Status \notin {"MATERIAL_CHANGES", "REVIEW_PENDING"}
    => \A c \in Surviving : Decided(c)

\* What the brief says: "Candidates were reviewed; none were confirmed as material."
\* No review it has read then backs a change that was committed when it read it.
NoneWereConfirmed ==
  Done /\ Status = "NO_CONFIRMED_MATERIAL_CHANGE"
    => \A x \in reader.committed : x.review \notin reader.latest

=============================================================================
