------------------------- MODULE ReviewLedgerProofs -------------------------
(***************************************************************************)
(* Proofs about ReviewLedger, for any number of candidates, changes and    *)
(* reviews.                                                                *)
(***************************************************************************)
EXTENDS ReviewLedger, TLAPS

\* A pending row is its candidate's machine proposal, and every history has one.
Rooted ==
  /\ \A i \in DOMAIN reviews : reviews[i].status = "PENDING" <=> reviews[i].prior = NoPrior
  /\ \A i \in DOMAIN reviews : \E r \in Rows(reviews[i].candidate) : reviews[r].prior = NoPrior

\* A successor belongs to the candidate of its prior.
Linked ==
  \A i \in DOMAIN reviews :
    reviews[i].prior # NoPrior => /\ reviews[i].prior \in DOMAIN reviews
                                  /\ reviews[reviews[i].prior].candidate = reviews[i].candidate

\* A proposal that is still pending is the only row of its candidate.
Alone == \A i \in Pending : Rows(reviews[i].candidate) = {i}

Backed == \A x \in changes : reviews[x.review].status = "CONFIRMED"

\* What the reader holds was in the tables, and the changes it holds were there at
\* each of its later statements.
ReaderInv ==
  /\ reader.changes \subseteq changes
  /\ at \in {3, 4} => reader.changes \subseteq reader.explained
  /\ at # 4 => reader.latest = {}
  /\ reader.latest \subseteq DOMAIN reviews
  /\ \A x \in reader.changes, i \in reader.latest :
       reviews[i].candidate = reviews[x.review].candidate => reviews[i].status # "PENDING"

IInv == TypeOK /\ Rooted /\ Linked /\ HistoryIsChain /\ Alone /\ Backed /\ ReaderInv

-----------------------------------------------------------------------------
(* The table only grows *)

LEMMA Appended ==
  ASSUME NEW s \in Seq(Review), NEW row \in Review
  PROVE  /\ Append(s, row) \in Seq(Review)
         /\ Len(Append(s, row)) = Len(s) + 1
         /\ DOMAIN Append(s, row) = DOMAIN s \union {Len(s) + 1}
         /\ Len(s) + 1 \notin DOMAIN s
         /\ \A i \in DOMAIN s : Append(s, row)[i] = s[i]
         /\ Append(s, row)[Len(s) + 1] = row
  OBVIOUS

LEMMA InitHolds == Init => IInv
<1> SUFFICES ASSUME Init PROVE IInv
  OBVIOUS
<1>1. DOMAIN reviews = {} /\ reviews \in Seq(Review) /\ Len(reviews) = 0
  BY DEF Init
<1>2. TypeOK
  BY <1>1, ReviewBound DEF Init, TypeOK, Unread, Statements
<1>3. Rooted /\ Linked /\ HistoryIsChain /\ Alone /\ Backed /\ ReaderInv
  BY <1>1 DEF Init, Rooted, Linked, HistoryIsChain, Alone, Backed, ReaderInv, Unread, Rows,
              Pending, Latest
<1> QED
  BY <1>2, <1>3 DEF IInv

\* What add_review does to the rows and to who is the latest.
LEMMA Grows ==
  ASSUME IInv, NEW row \in Review, AddReview(row)
  PROVE  /\ TypeOK'
         /\ \E n : /\ n \notin DOMAIN reviews /\ n # NoPrior
                   /\ DOMAIN reviews' = DOMAIN reviews \union {n}
                   /\ reviews'[n] = row
                   /\ \A i \in DOMAIN reviews : reviews'[i] = reviews[i]
                   /\ \A i \in DOMAIN reviews : IsLatest(i)' <=> IsLatest(i) /\ i # row.prior
                   /\ IsLatest(n)'
                   /\ \A c : Rows(c)' = Rows(c) \union {i \in {n} : row.candidate = c}
<1>1. /\ reviews \in Seq(Review) /\ reviews' = Append(reviews, row)
      /\ Len(reviews) < MaxReviews
  BY DEF IInv, TypeOK, AddReview
<1>0. PICK n : n = Len(reviews) + 1
  OBVIOUS
<1>2. /\ reviews' \in Seq(Review) /\ Len(reviews') = n
      /\ DOMAIN reviews' = DOMAIN reviews \union {n}
      /\ n \notin DOMAIN reviews
      /\ \A i \in DOMAIN reviews : reviews'[i] = reviews[i]
      /\ reviews'[n] = row
  BY <1>0, <1>1, Appended
<1>3. n # NoPrior /\ n \in Nat
  BY <1>0, <1>1 DEF NoPrior
<1>4. TypeOK'
  <2>1. reviews' \in Seq(Review) /\ Len(reviews') <= MaxReviews
    BY <1>0, <1>1, <1>2, <1>3, ReviewBound
  <2>2. diffs' = diffs /\ changes' = changes /\ at' = at /\ reader' = reader /\ row.candidate \in diffs
    BY DEF AddReview
  <2> QED
    BY <1>2, <2>1, <2>2 DEF IInv, TypeOK
<1>5. \A i \in DOMAIN reviews : IsLatest(i)' <=> IsLatest(i) /\ i # row.prior
  BY <1>2 DEF IsLatest
<1>6. IsLatest(n)'
  <2>1. row.prior # n
    BY <1>2, <1>3 DEF AddReview, KeepsProposal
  <2>2. \A i \in DOMAIN reviews : reviews[i].prior # n
    BY <1>2, <1>3 DEF IInv, Linked
  <2> QED
    BY <1>2, <2>1, <2>2 DEF IsLatest
<1>7. \A c : Rows(c)' = Rows(c) \union {i \in {n} : row.candidate = c}
  BY <1>2 DEF Rows
<1> QED
  BY <1>2, <1>3, <1>4, <1>5, <1>6, <1>7

-----------------------------------------------------------------------------
(* One lemma for each kind of step *)

LEMMA AddReviewStep ==
  ASSUME IInv, NEW row \in Review, AddReview(row)
  PROVE  IInv' /\ \A c \in Candidates : Decided(c) => Decided(c)'
<1>1. TypeOK'
  BY Grows
<1>2. PICK n : /\ n \notin DOMAIN reviews /\ n # NoPrior
               /\ DOMAIN reviews' = DOMAIN reviews \union {n}
               /\ reviews'[n] = row
               /\ \A i \in DOMAIN reviews : reviews'[i] = reviews[i]
               /\ \A i \in DOMAIN reviews : IsLatest(i)' <=> IsLatest(i) /\ i # row.prior
               /\ IsLatest(n)'
               /\ \A c : Rows(c)' = Rows(c) \union {i \in {n} : row.candidate = c}
  BY Grows
<1>3. \/ row.prior = NoPrior /\ Rows(row.candidate) = {}
      \/ /\ row.prior # NoPrior /\ row.prior \in Rows(row.candidate) /\ IsLatest(row.prior)
         /\ row.status # "PENDING"
  BY DEF AddReview, KeepsProposal, OneProposal, OneSuccessor, IInv, Rooted, Rows
<1>4. row.status = "PENDING" <=> row.prior = NoPrior
  BY DEF AddReview
<1>5. changes' = changes /\ at' = at /\ reader' = reader
  BY DEF AddReview
<1>6. \A x \in changes : x.review \in DOMAIN reviews
  BY DEF IInv, TypeOK
<1>7. Rooted'
  BY <1>2, <1>3, <1>4 DEF IInv, Rooted, Rows
<1>8. Linked'
  BY <1>2, <1>3 DEF IInv, Linked, Rows
<1>9. HistoryIsChain'
  <2> SUFFICES ASSUME NEW c \in Candidates, Rows(c)' # {}
               PROVE  \E i \in Rows(c)' : \A j \in Rows(c)' : IsLatest(j)' <=> j = i
    BY DEF HistoryIsChain
  <2>1. CASE c = row.candidate
    <3>1. n \in Rows(c)' /\ \A j \in Rows(c)' : j = n \/ j \in Rows(c)
      BY <1>2, <2>1
    <3>2. \A j \in Rows(c) : j # n /\ (IsLatest(j) => j = row.prior)
      BY <1>2, <1>3, <2>1 DEF IInv, HistoryIsChain, Rows
    <3>3. \A j \in Rows(c) : ~IsLatest(j)'
      BY <1>2, <3>2 DEF Rows
    <3> QED
      BY <1>2, <3>1, <3>2, <3>3
  <2>2. CASE c # row.candidate
    <3>1. Rows(c)' = Rows(c) /\ row.prior \notin Rows(c)
      BY <1>2, <1>3, <2>2 DEF Rows, IInv, TypeOK, NoPrior
    <3>2. \A j \in Rows(c) : IsLatest(j)' <=> IsLatest(j)
      BY <1>2, <3>1 DEF Rows
    <3> QED
      BY <3>1, <3>2 DEF IInv, HistoryIsChain
  <2> QED
    BY <2>1, <2>2
<1>10. \A i \in Pending' : (i = n /\ row.prior = NoPrior) \/ (i \in Pending /\ i # row.prior)
  BY <1>2, <1>4 DEF Pending, Latest
<1>11. Alone'
  <2> SUFFICES ASSUME NEW i \in Pending' PROVE (Rows(reviews[i].candidate) = {i})'
    BY DEF Alone
  <2>1. CASE i = n /\ row.prior = NoPrior
    BY <1>2, <1>3, <2>1
  <2>2. CASE i \in Pending /\ i # row.prior
    <3>1. Rows(reviews[i].candidate) = {i} /\ i \in DOMAIN reviews
      BY <2>2 DEF IInv, Alone, Pending, Latest
    <3>2. reviews[i].candidate # row.candidate
      BY <1>3, <2>2, <3>1
    <3> QED
      BY <1>2, <3>1, <3>2
  <2> QED
    BY <1>10, <2>1, <2>2
<1>12. Backed'
  BY <1>2, <1>5, <1>6 DEF IInv, Backed
<1>13. ReaderInv'
  BY <1>2, <1>5, <1>6 DEF IInv, ReaderInv
<1>14. ASSUME NEW c \in Candidates, Decided(c) PROVE Decided(c)'
  <2>1. Rows(c)' # {}
    BY <1>2, <1>14 DEF Decided
  <2>2. row.prior = NoPrior => row.candidate # c
    BY <1>3, <1>14 DEF Decided
  <2>3. Rows(c)' \intersect Pending' = {}
    <3> SUFFICES ASSUME NEW i \in Rows(c)', i \in Pending' PROVE FALSE
      OBVIOUS
    <3>1. CASE i = n /\ row.prior = NoPrior
      BY <1>2, <2>2, <3>1 DEF Rows
    <3>2. CASE i \in Pending
      BY <1>2, <1>14, <3>2 DEF Decided, Pending, Latest
    <3> QED
      BY <1>10, <3>1, <3>2
  <2> QED
    BY <2>1, <2>3 DEF Decided
<1> QED
  BY <1>1, <1>7, <1>8, <1>9, <1>11, <1>12, <1>13, <1>14 DEF IInv

\* The other steps leave the reviews alone.
LEMMA SameReviews ==
  ASSUME reviews' = reviews, Rooted, Linked, HistoryIsChain, Alone
  PROVE  /\ Rooted' /\ Linked' /\ HistoryIsChain' /\ Alone'
         /\ \A c : Decided(c) <=> Decided(c)'
<1>1. \A i : IsLatest(i)' <=> IsLatest(i)
  BY DEF IsLatest
<1>2. Pending' = Pending
  BY <1>1 DEF Pending, Latest
<1>3. \A c : Rows(c)' = Rows(c)
  BY DEF Rows
<1>4. Rooted' /\ Linked' /\ Alone' /\ \A c : Decided(c) <=> Decided(c)'
  BY <1>2, <1>3 DEF Rooted, Linked, Alone, Decided
<1> QED
  BY <1>1, <1>3, <1>4 DEF HistoryIsChain

\* A review that is confirmed leaves no pending proposal of its candidate.
LEMMA ConfirmedIsDecided ==
  ASSUME IInv, NEW x \in changes, NEW i \in Latest,
         reviews[i].candidate = reviews[x.review].candidate
  PROVE  reviews[i].status # "PENDING"
<1> SUFFICES ASSUME i \in Pending PROVE FALSE
  BY DEF Pending
<1>1. x.review \in Rows(reviews[i].candidate)
  BY DEF IInv, TypeOK, Rows
<1>2. x.review = i
  BY <1>1 DEF IInv, Alone
<1> QED
  BY <1>2 DEF IInv, Backed, Pending

ReaderType ==
  [candidates : SUBSET Candidates, changes : SUBSET Change, explained : SUBSET Change,
   latest : SUBSET (1..MaxReviews), committed : SUBSET Change]

LEMMA StatementOrder ==
  ASSUME at \in 0..4
  PROVE  /\ Runs("candidates") => at = 0
         /\ Runs("confirmed_changes") => at = 1
         /\ Runs("confirmed_change_reviews") => at = 2
         /\ Runs("latest_reviews") => at = 3
<1>1. at \in {0, 1, 2, 3} \/ Done
  BY DEF Done, Statements
<1> QED
  BY <1>1 DEF Runs, Statements

LEMMA ReadStep ==
  ASSUME IInv, Read
  PROVE  TypeOK' /\ ReaderInv' /\ reviews' = reviews /\ changes' = changes
<1>1. reader \in ReaderType /\ at \in 0..4
  BY DEF IInv, TypeOK, ReaderType, Statements
<1>2. /\ diffs \in SUBSET Candidates /\ changes \in SUBSET Change
      /\ Latest \in SUBSET (1..MaxReviews) /\ Latest \subseteq DOMAIN reviews
  BY ReviewBound DEF IInv, TypeOK, Latest
<1>3. diffs' = diffs /\ reviews' = reviews /\ changes' = changes
  BY DEF Read, ReadCandidates, ReadChanges, ReadChangeReviews, ReadLatest, StartReading, Tables
<1>4. ReaderInv
  BY DEF IInv
<1>5. reader' \in ReaderType /\ at' \in 0..4 => TypeOK'
  BY <1>3 DEF IInv, TypeOK, ReaderType, Statements
<1>6. CASE ReadCandidates
  <2>1. at = 0
    BY <1>1, <1>6, StatementOrder DEF ReadCandidates
  <2>2. /\ reader' \in ReaderType /\ at' = 1
        /\ reader'.candidates = diffs
        /\ reader'.changes = reader.changes
        /\ reader'.explained = reader.explained
        /\ reader'.latest = reader.latest
        /\ reader'.committed = reader.committed
    BY <1>1, <1>2, <1>6, <2>1 DEF ReadCandidates, Runs, ReaderType
  <2> QED
    BY <1>3, <1>4, <1>5, <2>1, <2>2 DEF ReaderInv
<1>7. CASE ReadChanges
  <2>1. at = 1
    BY <1>1, <1>7, StatementOrder DEF ReadChanges
  <2>2. /\ reader' \in ReaderType /\ at' = 2
        /\ reader'.candidates = reader.candidates
        /\ reader'.changes = changes
        /\ reader'.explained = reader.explained
        /\ reader'.latest = reader.latest
        /\ reader'.committed = reader.committed
    BY <1>1, <1>2, <1>7, <2>1 DEF ReadChanges, Runs, ReaderType
  <2> QED
    BY <1>3, <1>4, <1>5, <2>1, <2>2 DEF ReaderInv
<1>8. CASE ReadChangeReviews
  <2>1. at = 2
    BY <1>1, <1>8, StatementOrder DEF ReadChangeReviews
  <2>2. /\ reader' \in ReaderType /\ at' = 3
        /\ reader'.candidates = reader.candidates
        /\ reader'.changes = reader.changes
        /\ reader'.explained = changes
        /\ reader'.latest = reader.latest
        /\ reader'.committed = reader.committed
    BY <1>1, <1>2, <1>8, <2>1 DEF ReadChangeReviews, Runs, ReaderType
  <2> QED
    BY <1>3, <1>4, <1>5, <2>1, <2>2 DEF ReaderInv
<1>9. CASE ReadLatest
  <2>1. at = 3 /\ at' = 4
    BY <1>1, <1>9, StatementOrder DEF ReadLatest, Runs
  <2>2. reader' = [reader EXCEPT !.latest = Latest, !.committed = changes]
    BY <1>9 DEF ReadLatest
  <2>3. reader' \in ReaderType
    BY <1>1, <1>2, <2>2 DEF ReaderType
  <2>4. /\ reader'.changes = reader.changes /\ reader'.explained = reader.explained
        /\ reader'.latest = Latest
    BY <1>1, <2>2 DEF ReaderType
  <2>5. \A x \in changes, i \in Latest :
          reviews[i].candidate = reviews[x.review].candidate => reviews[i].status # "PENDING"
    BY ConfirmedIsDecided
  <2>6. ReaderInv'
    BY <1>2, <1>3, <1>4, <2>1, <2>4, <2>5 DEF ReaderInv
  <2> QED
    BY <1>3, <1>5, <2>1, <2>3, <2>6
<1>10. CASE StartReading
  <2>1. reader' = Unread /\ at' = 0
    BY <1>10 DEF StartReading
  <2>2. reader' \in ReaderType
    BY <2>1 DEF Unread, ReaderType
  <2> QED
    BY <1>3, <1>5, <2>1, <2>2 DEF ReaderInv, Unread
<1> QED
  BY <1>3, <1>6, <1>7, <1>8, <1>9, <1>10 DEF Read

LEMMA StepHolds ==
  IInv /\ [Next]_vars => IInv' /\ \A c \in Candidates : Decided(c) => Decided(c)'
<1> SUFFICES ASSUME IInv, [Next]_vars
             PROVE  IInv' /\ \A c \in Candidates : Decided(c) => Decided(c)'
  OBVIOUS
<1> USE DEF IInv
<1>1. ASSUME NEW c \in Candidates, AddDiff(c)
      PROVE  IInv' /\ \A d \in Candidates : Decided(d) => Decided(d)'
  <2>1. TypeOK' /\ Backed' /\ ReaderInv' /\ reviews' = reviews
    BY <1>1 DEF AddDiff, TypeOK, Backed, ReaderInv
  <2> QED
    BY <2>1, SameReviews
<1>2. ASSUME NEW c \in Candidates, CreateReview(c)
      PROVE  IInv' /\ \A d \in Candidates : Decided(d) => Decided(d)'
  <2>1. [candidate |-> c, prior |-> NoPrior, status |-> "PENDING"] \in Review
    BY ReviewBound DEF Review, NoPrior
  <2> QED
    BY <1>2, <2>1, AddReviewStep DEF CreateReview
<1>3. ASSUME NEW i \in DOMAIN reviews, NEW s \in Decision PROVE Successor(i, s) \in Review
  BY <1>3, ReviewBound DEF Successor, Review, TypeOK
<1>4. ASSUME NEW i \in DOMAIN reviews, ConfirmReview(i)
      PROVE  IInv' /\ \A d \in Candidates : Decided(d) => Decided(d)'
  <2>1. "CONFIRMED" \in Decision
    BY DEF Decision
  <2> QED
    BY <1>3, <1>4, <2>1, AddReviewStep DEF ConfirmReview
<1>5. ASSUME NEW i \in DOMAIN reviews, NEW s \in Decision, RecordDecision(i, s)
      PROVE  IInv' /\ \A d \in Candidates : Decided(d) => Decided(d)'
  BY <1>3, <1>5, AddReviewStep DEF RecordDecision
<1>6. ASSUME NEW i \in DOMAIN reviews, NEW id \in ChangeIds, AddConfirmedChange(id, i)
      PROVE  IInv' /\ \A d \in Candidates : Decided(d) => Decided(d)'
  <2>1. TypeOK'
    <3>1. [id |-> id, review |-> i] \in Change
      BY ReviewBound DEF TypeOK, Change
    <3> QED
      BY <1>6, <3>1 DEF AddConfirmedChange, TypeOK
  <2>2. Backed' /\ ReaderInv' /\ reviews' = reviews
    BY <1>6 DEF AddConfirmedChange, Backed, ReaderInv
  <2> QED
    BY <2>1, <2>2, SameReviews
<1>7. ASSUME Read PROVE IInv' /\ \A d \in Candidates : Decided(d) => Decided(d)'
  <2>1. reviews' = reviews /\ changes' = changes
    BY <1>7, ReadStep
  <2>2. TypeOK' /\ ReaderInv'
    BY <1>7, ReadStep
  <2>3. Backed'
    BY <2>1 DEF Backed
  <2> QED
    BY <2>1, <2>2, <2>3, SameReviews
<1>8. CASE UNCHANGED vars
  BY <1>8, SameReviews DEF vars, TypeOK, Backed, ReaderInv
<1> QED
  BY <1>1, <1>2, <1>4, <1>5, <1>6, <1>7, <1>8 DEF Next, Write

LEMMA Invariance == Spec => []IInv
<1>1. IInv /\ [Next]_vars => IInv'
  BY StepHolds
<1> QED
  BY <1>1, InitHolds, PTL DEF Spec

-----------------------------------------------------------------------------
\* Types and references hold, for any candidates, changes and reviews.
THEOREM TypeCorrect == Spec => []TypeOK
<1>1. IInv => TypeOK
  BY DEF IInv
<1> QED
  BY <1>1, Invariance, PTL

\* The reviews of a candidate form one history, with one latest review.
THEOREM OneHistory == Spec => []HistoryIsChain
<1>1. IInv => HistoryIsChain
  BY DEF IInv
<1> QED
  BY <1>1, Invariance, PTL

\* A candidate people have decided on is never pending again.
THEOREM DecisionsAreFinal == Spec => DecisionsStand
<1>1. IInv /\ [Next]_vars => [\A c \in Candidates : Decided(c) => Decided(c)']_vars
  BY StepHolds
<1> QED
  BY <1>1, Invariance, PTL DEF Spec, DecisionsStand

\* A reader that takes the tables one by one never lists a change without its review,
\* nor one whose candidate it counts as pending.
THEOREM ReadersAgree == Spec => []ChangesComeWithReviews
<1>1. IInv => ChangesComeWithReviews
  BY DEF IInv, ReaderInv, ChangesComeWithReviews, Done, Statements
<1> QED
  BY <1>1, Invariance, PTL

\* A brief that is silent about changes and pending reviews leaves out no candidate
\* that people have yet to decide on.
THEOREM SilenceIsSafe == Spec => []SilenceIsDecided
<1>1. ASSUME IInv, Surviving \subseteq Completed, NEW c \in Surviving PROVE Decided(c)
  <2>1. PICK i \in reader.latest : reviews[i].status # "PENDING" /\ reviews[i].candidate = c
    BY <1>1 DEF Completed
  <2>2. i \in Rows(c)
    BY <1>1, <2>1 DEF IInv, ReaderInv, Rows
  <2>3. ASSUME NEW j \in Rows(c), j \in Pending PROVE FALSE
    <3>1. Rows(c) = {j}
      BY <1>1, <2>3 DEF IInv, Alone, Rows
    <3> QED
      BY <2>1, <2>2, <2>3, <3>1 DEF Pending
  <2> QED
    BY <2>2, <2>3 DEF Decided
<1>2. IInv => SilenceIsDecided
  BY <1>1 DEF SilenceIsDecided, Status
<1> QED
  BY <1>2, Invariance, PTL
=============================================================================
