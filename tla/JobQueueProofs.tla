--------------------------- MODULE JobQueueProofs ---------------------------
(***************************************************************************)
(* Proofs about JobQueue, for every number of workers, clients and jobs,   *)
(* every retry limit, lease length and bound.                              *)
(***************************************************************************)
EXTENDS JobQueue, TLAPS

USE DEF Time, NoJob, Conflict, Idle

-----------------------------------------------------------------------------
(* Types of the helpers *)

LEMMA NoLeaseType == NoLease \in Lease
  BY BoundAssumption DEF NoLease, Lease

LEMMA UnexpiredType == ASSUME TypeOK, NEW t PROVE Unexpired(t) \in Lease
  BY NoLeaseType DEF Unexpired, TypeOK

LEMMA ReleasedType == ASSUME TypeOK, NEW j PROVE Released(j) \in Lease
  BY NoLeaseType DEF Released, TypeOK

LEMMA ExpiryType == ASSUME NEW t \in Time PROVE Expiry(t) \in Time
  BY BoundAssumption DEF Expiry

LEMMA RecoveredRowType ==
  ASSUME TypeOK, NEW j \in JobIds, NEW t \in Time
  PROVE  RecoveredRow(j, t) \in Row
<1>1. jobs[j] \in Row
  BY DEF TypeOK
<1>2. CASE Retryable(j)
  <2>1. jobs[j].retries + 1 \in 0..MaxRetries
    BY <1>1, <1>2, BoundAssumption DEF Row, Retryable
  <2> QED
    BY <1>1, <1>2, <2>1 DEF RecoveredRow, Row, Status, Failure
<1>3. CASE ~Retryable(j)
  BY <1>1, <1>3 DEF RecoveredRow, Row, Status, Failure, Terminal
<1> QED
  BY <1>2, <1>3

LEMMA FinishedRowType ==
  ASSUME TypeOK, NEW j \in JobIds, NEW result
  PROVE  FinishedRow(j, result) \in Row
<1>1. jobs[j] \in Row
  BY DEF TypeOK
<1> QED
  BY <1>1 DEF FinishedRow, Row, Status, Failure, Terminal

LEMMA NoRowType == NoRow \in Row
  BY BoundAssumption DEF NoRow, Row, Status, Failure

-----------------------------------------------------------------------------
(* Type correctness *)

LEMMA TypeInit == Init => TypeOK
  BY NoRowType, NoLeaseType, BoundAssumption DEF Init, TypeOK, WorkerState

LEMMA TypeStep == TypeOK /\ [Next]_vars => TypeOK'
<1> SUFFICES ASSUME TypeOK, [Next]_vars PROVE TypeOK'
  OBVIOUS
<1> USE DEF TypeOK, store, process, api, history
<1>1. CASE Tick
  BY <1>1, BoundAssumption DEF Tick
<1>2. ASSUME NEW c \in Clients, Client(c) PROVE TypeOK'
  <2>1. CASE Post(c)
    BY <2>1, BoundAssumption DEF Post
  <2>2. CASE Drop(c)
    BY <2>2 DEF Drop
  <2>3. CASE EnqueueNew(c)
    <3>1. PICK j \in JobIds :
            /\ jobs' = [jobs EXCEPT ![j] =
                     [NoRow EXCEPT !.status = "QUEUED", !.by = c,
                                   !.created = stamp[c], !.queued = stamp[c]]]
            /\ queuedAt' = [queuedAt EXCEPT ![j] = now]
            /\ Answer(c, j)
      BY <2>3 DEF EnqueueNew
    <3>2. stamp[c] \in Time
      BY <2>3 DEF EnqueueNew
    <3>3. [NoRow EXCEPT !.status = "QUEUED", !.by = c,
                        !.created = stamp[c], !.queued = stamp[c]] \in Row
      BY <3>2, NoRowType DEF NoRow, Row, Status
    <3> QED
      BY <2>3, <3>1, <3>3 DEF EnqueueNew, Answer
  <2>4. CASE EnqueueReplay(c)
    BY <2>4 DEF EnqueueReplay, Answer, Existing
  <2>5. CASE EnqueueConflict(c)
    BY <2>5 DEF EnqueueConflict, Answer
  <2> QED
    BY <1>2, <2>1, <2>2, <2>3, <2>4, <2>5 DEF Client
<1>3. ASSUME NEW w \in Workers, Worker(w) PROVE TypeOK'
  <2> USE DEF WorkerState, Holding, Executing
  <2>1. CASE Start(w)
    BY <2>1 DEF Start
  <2>2. CASE TakeLock(w)
    BY <2>2 DEF TakeLock
  <2>3. CASE Recover(w)
    <3>1. \A j \in JobIds : RecoveredRow(j, current[w]) \in Row
      BY RecoveredRowType
    <3>2. lease' \in Lease
      BY <2>3, UnexpiredType DEF Recover
    <3>3. jobs' \in [JobIds -> Row]
      BY <2>3, <3>1 DEF Recover
    <3>4. queuedAt' \in [JobIds -> Time]
      BY <2>3 DEF Recover
    <3> QED
      BY <2>3, <3>2, <3>3, <3>4 DEF Recover
  <2>4. CASE ReadClock(w)
    BY <2>4 DEF ReadClock
  <2>5. CASE ClaimNothing(w)
    BY <2>5, UnexpiredType, BoundAssumption DEF ClaimNothing
  <2>6. ASSUME NEW j \in JobIds, Claim(w, j) PROVE TypeOK'
    <3>1. lease' \in Lease
      BY <2>6, ExpiryType DEF Claim, Lease
    <3>2. jobs' \in [JobIds -> Row]
      BY <2>6 DEF Claim, Row, Status
    <3>3. attempts' \in [JobIds -> Nat]
      BY <2>6 DEF Claim
    <3> QED
      BY <2>6, <3>1, <3>2, <3>3, BoundAssumption DEF Claim
  <2>7. CASE Execute(w)
    BY <2>7 DEF Execute
  <2>8. CASE Finish(w)
    <3>1. CASE mine[w] \in JobIds
      <4>1. FinishedRow(mine[w], pc[w]) \in Row
        BY <3>1, FinishedRowType
      <4>2. jobs' \in [JobIds -> Row]
        BY <2>8, <4>1 DEF Finish
      <4>3. lease' \in Lease
        BY <2>8, ReleasedType DEF Finish
      <4> QED
        BY <2>8, <4>2, <4>3 DEF Finish
    <3>2. CASE mine[w] \notin JobIds
      <4>1. jobs' \in [JobIds -> Row]
        BY <2>8, <3>2 DEF Finish
      <4>2. lease' \in Lease
        BY <2>8, ReleasedType DEF Finish
      <4> QED
        BY <2>8, <4>1, <4>2 DEF Finish
    <3> QED
      BY <3>1, <3>2
  <2>9. CASE Unlock(w)
    BY <2>9 DEF Unlock
  <2> QED
    BY <1>3, <2>1, <2>2, <2>3, <2>4, <2>5, <2>6, <2>7, <2>8, <2>9 DEF Worker
<1>4. ASSUME NEW w \in Workers, Die(w) PROVE TypeOK'
  <2>1. deaths' \in [JobIds -> Nat]
    BY <1>4 DEF Die
  <2> QED
    BY <1>4, <2>1, BoundAssumption DEF Die, WorkerState
<1>5. CASE UNCHANGED vars
  BY <1>5 DEF vars
<1> QED
  BY <1>1, <1>2, <1>3, <1>4, <1>5 DEF Next

\* Every reachable state has the declared shape.
THEOREM TypeCorrect == Spec => []TypeOK
  BY TypeInit, TypeStep, PTL DEF Spec

-----------------------------------------------------------------------------
(* The inductive invariant.  Leases do not keep workers apart, they expire:  *)
(* the lock does, and it is what the argument rests on.                      *)

\* The lock is held by exactly the worker that is between taking it and
\* releasing it.
LockInv == \A w \in Workers : pc[w] \in Holding <=> lock = w

\* A worker remembers a job exactly while it executes or finishes it; that job is
\* RUNNING and nobody else has taken its lease.
MineInv ==
  \A w \in Workers :
    /\ pc[w] \in Executing => /\ mine[w] \in JobIds
                              /\ jobs[mine[w]].status = "RUNNING"
                              /\ lease.holder = mine[w]
    /\ pc[w] \notin Executing => mine[w] = NoJob

IInv == TypeOK /\ LockInv /\ MineInv /\ LeaseHolderIsRunning

LEMMA LockInit == Init => LockInv
  BY WorkerAssumption DEF Init, LockInv, Holding, Executing

LEMMA LockStep == TypeOK /\ LockInv /\ [Next]_vars => LockInv'
<1> SUFFICES ASSUME TypeOK, LockInv, [Next]_vars PROVE LockInv'
  OBVIOUS
<1> USE WorkerAssumption
    DEF TypeOK, LockInv, process, Holding, Executing, WorkerState
<1>1. CASE Tick
  BY <1>1 DEF Tick
<1>2. ASSUME NEW c \in Clients, Client(c) PROVE LockInv'
  BY <1>2 DEF Client, Post, Drop, EnqueueNew, EnqueueReplay, EnqueueConflict
<1>3. ASSUME NEW w \in Workers, Worker(w) PROVE LockInv'
  <2>1. CASE Start(w)
    BY <2>1 DEF Start
  <2>2. CASE TakeLock(w)
    BY <2>2 DEF TakeLock
  <2>3. CASE Recover(w)
    BY <2>3 DEF Recover
  <2>4. CASE ReadClock(w)
    BY <2>4 DEF ReadClock
  <2>5. CASE ClaimNothing(w)
    BY <2>5 DEF ClaimNothing
  <2>6. ASSUME NEW j \in JobIds, Claim(w, j) PROVE LockInv'
    BY <2>6 DEF Claim
  <2>7. CASE Execute(w)
    BY <2>7 DEF Execute
  <2>8. CASE Finish(w)
    BY <2>8 DEF Finish
  <2>9. CASE Unlock(w)
    BY <2>9 DEF Unlock
  <2> QED
    BY <1>3, <2>1, <2>2, <2>3, <2>4, <2>5, <2>6, <2>7, <2>8, <2>9 DEF Worker
<1>4. ASSUME NEW w \in Workers, Die(w) PROVE LockInv'
  BY <1>4 DEF Die
<1>5. CASE UNCHANGED vars
  BY <1>5 DEF vars
<1> QED
  BY <1>1, <1>2, <1>3, <1>4, <1>5 DEF Next

\* Only one worker holds the lock, so all others are outside and own no job.
LEMMA OthersOwnNothing ==
  ASSUME TypeOK, LockInv, MineInv,
         NEW w \in Workers, pc[w] \in Holding, NEW v \in Workers, v # w
  PROVE  pc[v] \notin Holding /\ pc[v] \notin Executing /\ mine[v] = NoJob
  BY DEF LockInv, MineInv, Holding

\* A recovery or a claim at time t leaves a lease alone or removes it.
LEMMA UnexpiredHolder ==
  ASSUME NEW t PROVE Unexpired(t) = lease \/ Unexpired(t).holder = NoJob
  BY DEF Unexpired, NoLease

LEMMA OwnInit == Init => MineInv /\ LeaseHolderIsRunning
  BY DEF Init, MineInv, LeaseHolderIsRunning, NoLease, Executing

LEMMA OwnStep == IInv /\ [Next]_vars => MineInv' /\ LeaseHolderIsRunning'
<1> SUFFICES ASSUME IInv, [Next]_vars PROVE MineInv' /\ LeaseHolderIsRunning'
  OBVIOUS
<1> USE JobIdAssumption DEF IInv, TypeOK, MineInv, LeaseHolderIsRunning
<1>1. CASE Tick
  BY <1>1 DEF Tick, store, process
<1>2. ASSUME NEW c \in Clients, Client(c) PROVE MineInv' /\ LeaseHolderIsRunning'
  <2>1. CASE EnqueueNew(c)
    <3>1. PICK j \in JobIds :
            /\ jobs[j].status = "ABSENT"
            /\ jobs' = [jobs EXCEPT ![j] =
                     [NoRow EXCEPT !.status = "QUEUED", !.by = c,
                                   !.created = stamp[c], !.queued = stamp[c]]]
      BY <2>1 DEF EnqueueNew
    <3>2. \A i \in JobIds : i # j => jobs'[i] = jobs[i]
      BY <3>1
    <3> QED
      BY <2>1, <3>1, <3>2 DEF EnqueueNew, process, Lease
  <2>2. CASE UNCHANGED <<store, process>>
    BY <2>2 DEF store, process
  <2> QED
    BY <1>2, <2>1, <2>2
       DEF Client, Post, Drop, EnqueueReplay, EnqueueConflict
<1>3. ASSUME NEW w \in Workers, Worker(w) PROVE MineInv' /\ LeaseHolderIsRunning'
  <2>1. CASE Start(w)
    BY <2>1 DEF Start, store, Executing
  <2>2. CASE TakeLock(w)
    BY <2>2 DEF TakeLock, store, Executing
  <2>3. CASE Recover(w)
    <3>1. \A v \in Workers : mine[v] = NoJob /\ pc[v] \notin Executing
      BY <2>3, OthersOwnNothing DEF Recover, Holding, Executing
    <3>2. MineInv'
      BY <2>3, <3>1 DEF Recover, Executing
    <3>3. lease'.holder # NoJob => jobs'[lease'.holder] = jobs[lease.holder]
      BY <2>3, UnexpiredHolder DEF Recover, Interrupted, Lease
    <3>4. lease'.holder # NoJob => lease'.holder = lease.holder
      BY <2>3, UnexpiredHolder DEF Recover
    <3> QED
      BY <3>2, <3>3, <3>4
  <2>4. CASE ReadClock(w)
    BY <2>4 DEF ReadClock, store, Executing
  <2>5. CASE ClaimNothing(w)
    <3>1. \A v \in Workers : mine[v] = NoJob /\ pc[v] \notin Executing
      BY <2>5, OthersOwnNothing DEF ClaimNothing, Holding, Executing
    <3>2. MineInv'
      BY <2>5, <3>1 DEF ClaimNothing, Executing
    <3>3. lease'.holder # NoJob => lease' = lease
      BY <2>5, UnexpiredHolder DEF ClaimNothing
    <3> QED
      BY <2>5, <3>2, <3>3 DEF ClaimNothing
  <2>6. ASSUME NEW j \in JobIds, Claim(w, j)
        PROVE  MineInv' /\ LeaseHolderIsRunning'
    <3>1. \A v \in Workers \ {w} : mine[v] = NoJob /\ pc[v] \notin Executing
      BY <2>6, OthersOwnNothing DEF Claim, Holding
    <3>2. jobs'[j].status = "RUNNING" /\ lease'.holder = j
      BY <2>6 DEF Claim, Row
    <3>3. mine'[w] = j /\ pc'[w] \in Executing
      BY <2>6 DEF Claim, Executing
    <3>4. \A v \in Workers \ {w} : mine'[v] = NoJob /\ pc'[v] \notin Executing
      BY <2>6, <3>1 DEF Claim
    <3> QED
      BY <3>2, <3>3, <3>4
  <2>7. CASE Execute(w)
    <3>1. pc[w] \in Executing /\ pc'[w] \in Executing
      BY <2>7 DEF Execute, Executing
    <3>2. \A v \in Workers \ {w} : pc'[v] = pc[v]
      BY <2>7 DEF Execute
    <3> QED
      BY <2>7, <3>1, <3>2 DEF Execute, store
  <2>8. CASE Finish(w)
    <3>1. pc[w] \in Executing /\ pc[w] \in Holding
      BY <2>8 DEF Finish, Executing, Holding
    <3>2. \A v \in Workers \ {w} : mine[v] = NoJob /\ pc[v] \notin Executing
      BY <3>1, OthersOwnNothing
    <3>3. lease.holder = mine[w] /\ jobs[mine[w]].status = "RUNNING"
      BY <3>1
    <3>4. lease'.holder = NoJob
      BY <2>8, <3>3 DEF Finish, Released, NoLease
    <3>5. \A v \in Workers : mine'[v] = NoJob /\ pc'[v] \notin Executing
      BY <2>8, <3>2 DEF Finish, Executing
    <3> QED
      BY <3>4, <3>5
  <2>9. CASE Unlock(w)
    BY <2>9 DEF Unlock, store, Executing
  <2> QED
    BY <1>3, <2>1, <2>2, <2>3, <2>4, <2>5, <2>6, <2>7, <2>8, <2>9 DEF Worker
<1>4. ASSUME NEW w \in Workers, Die(w) PROVE MineInv' /\ LeaseHolderIsRunning'
  BY <1>4 DEF Die, store, Executing
<1>5. CASE UNCHANGED vars
  BY <1>5 DEF vars, store, process
<1> QED
  BY <1>1, <1>2, <1>3, <1>4, <1>5 DEF Next

\* The inductive invariant holds in every reachable state.
THEOREM Invariance == Spec => []IInv
<1>1. Init => IInv
  BY TypeInit, LockInit, OwnInit DEF IInv
<1>2. IInv /\ [Next]_vars => IInv'
  BY TypeStep, LockStep, OwnStep DEF IInv
<1> QED
  BY <1>1, <1>2, PTL DEF Spec

LEMMA Ownership == IInv => SinglePipeline
<1> SUFFICES ASSUME IInv PROVE SinglePipeline
  OBVIOUS
<1>1. \A v \in Workers : pc[v] \in Executing => pc[v] \in Holding
  BY DEF Holding
<1>2. \A v, w \in Workers : pc[v] \in Executing /\ w # v => pc[w] \notin Executing
  BY <1>1, OthersOwnNothing DEF IInv
<1> QED
  BY <1>2 DEF IInv, MineInv, SinglePipeline

\* One worker at a time executes a pipeline; its job is RUNNING and holds the
\* lease for as long as it executes, however long that is.
THEOREM OnePipeline == Spec => []SinglePipeline
  BY Invariance, Ownership, PTL

\* No lease outlives the run it was taken for.
THEOREM LeasesAreOwned == Spec => []LeaseHolderIsRunning
<1>1. IInv => LeaseHolderIsRunning
  BY DEF IInv
<1> QED
  BY <1>1, Invariance, PTL

-----------------------------------------------------------------------------
(* Rows keep their identity *)

\* Only EnqueueNew makes a row; nothing deletes one or changes whose it is.
LEMMA RowsKept ==
  ASSUME IInv, [Next]_vars, NEW j \in JobIds
  PROVE  \/ jobs'[j].by = jobs[j].by
            /\ (jobs'[j].status = "ABSENT" <=> jobs[j].status = "ABSENT")
         \/ \E c \in Clients : EnqueueNew(c) /\ jobs[j].status = "ABSENT"
<1> USE JobIdAssumption DEF IInv, TypeOK
<1>1. CASE Tick
  BY <1>1 DEF Tick, store
<1>2. ASSUME NEW c \in Clients, EnqueueNew(c), jobs[j].status # "ABSENT"
      PROVE  jobs'[j] = jobs[j]
  BY <1>2 DEF EnqueueNew
<1>3. ASSUME NEW c \in Clients, Client(c), ~EnqueueNew(c)
      PROVE  jobs'[j] = jobs[j]
  BY <1>3 DEF Client, Post, Drop, EnqueueReplay, EnqueueConflict, store
<1>4. ASSUME NEW w \in Workers, Worker(w)
      PROVE  jobs'[j].by = jobs[j].by
             /\ (jobs'[j].status = "ABSENT" <=> jobs[j].status = "ABSENT")
  <2>1. CASE Recover(w)
    <3>1. jobs'[j] = jobs[j] \/ (/\ jobs[j].status = "RUNNING"
                                 /\ jobs'[j] = RecoveredRow(j, current[w]))
      BY <2>1 DEF Recover, Interrupted
    <3>2. jobs[j] \in Row
      OBVIOUS
    <3> QED
      BY <3>1, <3>2 DEF RecoveredRow, Row
  <2>2. ASSUME NEW i \in JobIds, Claim(w, i)
        PROVE  jobs'[j].by = jobs[j].by
               /\ (jobs'[j].status = "ABSENT" <=> jobs[j].status = "ABSENT")
    BY <2>2 DEF Claim, IsNext, Queued, Row
  <2>3. CASE Finish(w)
    <3>1. mine[w] \in JobIds /\ jobs[mine[w]].status = "RUNNING"
      BY <2>3 DEF Finish, MineInv, Executing
    <3>2. jobs' = [jobs EXCEPT ![mine[w]] = FinishedRow(mine[w], pc[w])]
      BY <2>3, <3>1 DEF Finish
    <3>3. jobs[j] \in Row
      OBVIOUS
    <3> QED
      BY <3>1, <3>2, <3>3 DEF FinishedRow, Row
  <2>4. CASE UNCHANGED jobs
    BY <2>4
  <2> QED
    BY <1>4, <2>1, <2>2, <2>3, <2>4 DEF Worker, Start, TakeLock, ReadClock,
       ClaimNothing, Execute, Unlock, store
<1>5. ASSUME NEW w \in Workers, Die(w) PROVE jobs' = jobs
  BY <1>5 DEF Die, store
<1>6. CASE UNCHANGED vars
  BY <1>6 DEF vars, store
<1> QED
  BY <1>1, <1>2, <1>3, <1>4, <1>5, <1>6 DEF Next

\* A row belongs to the client that made it.
RowInv == \A j \in JobIds : jobs[j].status # "ABSENT" => jobs[j].by \in Clients

\* The row an enqueue makes, and that it touches no other.
LEMMA NewRow ==
  ASSUME TypeOK, NEW c \in Clients, EnqueueNew(c)
  PROVE  \E j \in JobIds : /\ jobs[j].status = "ABSENT"
                           /\ jobs'[j].status = "QUEUED"
                           /\ jobs'[j].by = c
                           /\ \A i \in JobIds \ {j} : jobs'[i] = jobs[i]
                           /\ Answer(c, j)
  BY DEF EnqueueNew, TypeOK, NoRow

LEMMA KeyInit == Init => RowInv /\ OneJobPerKey
  BY DEF Init, RowInv, OneJobPerKey, NoRow

LEMMA KeyStep ==
  IInv /\ RowInv /\ OneJobPerKey /\ [Next]_vars => RowInv' /\ OneJobPerKey'
<1> SUFFICES ASSUME IInv, RowInv, OneJobPerKey, [Next]_vars
             PROVE  RowInv' /\ OneJobPerKey'
  OBVIOUS
<1>1. ASSUME NEW c \in Clients, EnqueueNew(c) PROVE RowInv' /\ OneJobPerKey'
  <2>1. PICK j \in JobIds : /\ jobs[j].status = "ABSENT"
                            /\ jobs'[j].status = "QUEUED"
                            /\ jobs'[j].by = c
                            /\ \A i \in JobIds \ {j} : jobs'[i] = jobs[i]
    BY <1>1, NewRow DEF IInv
  <2>2. \A i \in JobIds : jobs[i].status # "ABSENT" => KeyOf[jobs[i].by] # KeyOf[c]
    BY <1>1 DEF EnqueueNew, Existing
  <2> QED
    BY <2>1, <2>2 DEF RowInv, OneJobPerKey
<1>2. ASSUME \A c \in Clients : ~EnqueueNew(c) PROVE RowInv' /\ OneJobPerKey'
  <2>1. \A j \in JobIds : jobs'[j].by = jobs[j].by
                /\ (jobs'[j].status = "ABSENT" <=> jobs[j].status = "ABSENT")
    BY <1>2, RowsKept
  <2> QED
    BY <2>1 DEF RowInv, OneJobPerKey
<1> QED
  BY <1>1, <1>2

\* One job per Idempotency key, however the requests race.
THEOREM Idempotency == Spec => [](RowInv /\ OneJobPerKey)
<1>1. Init => RowInv /\ OneJobPerKey
  BY KeyInit
<1>2. IInv /\ IInv' /\ RowInv /\ OneJobPerKey /\ [Next]_vars => RowInv' /\ OneJobPerKey'
  BY KeyStep
<1> QED
  BY <1>1, <1>2, Invariance, PTL DEF Spec

-----------------------------------------------------------------------------
(* Outcomes are final *)

LEMMA TerminalStep ==
  ASSUME IInv, [Next]_vars, NEW j \in JobIds, jobs[j].status \in Terminal
  PROVE  jobs'[j] = jobs[j]
<1> USE DEF IInv, TypeOK, Terminal
<1>1. ASSUME NEW c \in Clients, Client(c) PROVE jobs'[j] = jobs[j]
  BY <1>1 DEF Client, Post, Drop, EnqueueNew, EnqueueReplay, EnqueueConflict, store
<1>2. ASSUME NEW w \in Workers, Worker(w) PROVE jobs'[j] = jobs[j]
  <2>1. CASE Recover(w)
    BY <2>1 DEF Recover, Interrupted
  <2>2. ASSUME NEW i \in JobIds, Claim(w, i) PROVE jobs'[j] = jobs[j]
    BY <2>2 DEF Claim, IsNext, Queued
  <2>3. CASE Finish(w)
    BY <2>3 DEF Finish, store
  <2>4. CASE UNCHANGED jobs
    BY <2>4
  <2> QED
    BY <1>2, <2>1, <2>2, <2>3, <2>4 DEF Worker, Start, TakeLock, ReadClock,
       ClaimNothing, Execute, Unlock, store
<1>3. ASSUME NEW w \in Workers, Die(w) PROVE jobs' = jobs
  BY <1>3 DEF Die, store
<1>4. CASE Tick \/ UNCHANGED vars
  BY <1>4 DEF Tick, vars, store
<1> QED
  BY <1>1, <1>2, <1>3, <1>4 DEF Next

\* A job that was reported finished is never run or reported again.
THEOREM OutcomesAreFinal == Spec => TerminalIsFinal
<1>1. IInv /\ [Next]_vars =>
        [\A j \in JobIds : jobs[j].status \in Terminal => jobs'[j] = jobs[j]]_vars
  BY TerminalStep
<1> QED
  BY <1>1, Invariance, PTL DEF Spec, TerminalIsFinal

-----------------------------------------------------------------------------
(* Retries are deaths *)

\* What else a row's columns say of one another.
RowShape ==
  \A j \in JobIds : /\ jobs[j].status = "ABSENT" => jobs[j].retries = 0
                    /\ jobs[j].failure # "NONE" => jobs[j].status = "FAILED"

LEMMA RetryInit == Init => RowShape /\ RetriesAreDeaths
  BY BoundAssumption DEF Init, RowShape, RetriesAreDeaths, AccountBalanced, NoRow

\* A step that touches neither rows nor counts nor owners preserves the account.
LEMMA RetryFrame ==
  ASSUME RowShape, RetriesAreDeaths, UNCHANGED <<jobs, attempts, deaths, mine>>
  PROVE  RowShape' /\ RetriesAreDeaths'
  BY DEF RowShape, RetriesAreDeaths, AccountBalanced, HeldByWorker

\* A worker's job is in the table, and it is RUNNING.
LEMMA HeldIsRunning ==
  ASSUME IInv, NEW j \in JobIds, HeldByWorker(j) PROVE jobs[j].status = "RUNNING"
  BY JobIdAssumption DEF IInv, MineInv, HeldByWorker

LEMMA RetryStep ==
  IInv /\ RowShape /\ RetriesAreDeaths /\ [Next]_vars
    => RowShape' /\ RetriesAreDeaths'
<1> SUFFICES ASSUME IInv, RowShape, RetriesAreDeaths, [Next]_vars
             PROVE  RowShape' /\ RetriesAreDeaths'
  OBVIOUS
<1> USE BoundAssumption, JobIdAssumption DEF IInv, TypeOK
<1>1. CASE Tick
  BY <1>1, RetryFrame DEF Tick, store, process, history
<1>2. ASSUME NEW c \in Clients, Client(c) PROVE RowShape' /\ RetriesAreDeaths'
  <2>1. CASE EnqueueNew(c)
    <3>1. PICK j \in JobIds :
            /\ jobs[j].status = "ABSENT"
            /\ jobs' = [jobs EXCEPT ![j] =
                     [NoRow EXCEPT !.status = "QUEUED", !.by = c,
                                   !.created = stamp[c], !.queued = stamp[c]]]
      BY <2>1 DEF EnqueueNew
    <3>2. \A i \in JobIds \ {j} : jobs'[i] = jobs[i]
      BY <3>1
    <3>3. /\ jobs'[j].status = "QUEUED"
          /\ jobs'[j].retries = 0
          /\ jobs'[j].failure = "NONE"
      BY <3>1 DEF NoRow
    <3>4. jobs[j].retries = 0 /\ jobs[j].failure = "NONE"
      BY <3>1 DEF RowShape
    <3>5. UNCHANGED <<attempts, deaths, mine>>
      BY <2>1 DEF EnqueueNew, process
    <3> QED
      BY <3>1, <3>2, <3>3, <3>4, <3>5
         DEF RowShape, RetriesAreDeaths, AccountBalanced, HeldByWorker
  <2>2. CASE UNCHANGED <<jobs, attempts, deaths, mine>>
    BY <2>2, RetryFrame
  <2> QED
    BY <1>2, <2>1, <2>2 DEF Client, Post, Drop, EnqueueReplay, EnqueueConflict,
       store, process, history
<1>3. ASSUME NEW w \in Workers, Worker(w) PROVE RowShape' /\ RetriesAreDeaths'
  <2>1. CASE Recover(w)
    <3>1. \A j \in JobIds : ~HeldByWorker(j) /\ ~HeldByWorker(j)'
      BY <2>1, OthersOwnNothing
         DEF Recover, Holding, Executing, HeldByWorker, MineInv
    <3>2. \A j \in JobIds : \/ jobs'[j] = jobs[j]
                            \/ /\ jobs[j].status = "RUNNING"
                               /\ jobs'[j] = RecoveredRow(j, current[w])
      BY <2>1 DEF Recover, Interrupted
    <3>3. UNCHANGED <<attempts, deaths>>
      BY <2>1 DEF Recover
    <3>4. ASSUME NEW j \in JobIds, jobs[j].status = "RUNNING",
                 jobs'[j] = RecoveredRow(j, current[w])
          PROVE  \/ /\ jobs'[j].status = "QUEUED"
                    /\ jobs'[j].failure = "NONE"
                    /\ jobs'[j].retries = jobs[j].retries + 1
                    /\ jobs[j].retries < MaxRetries
                 \/ /\ jobs'[j].status = "FAILED"
                    /\ jobs'[j].failure = "INTERRUPTED"
                    /\ jobs'[j].retries = jobs[j].retries
                    /\ ~(jobs[j].retries < MaxRetries)
      BY <3>4 DEF RecoveredRow, Retryable, Row
    <3>5. RowShape'
      BY <3>2, <3>4 DEF RowShape
    <3>6. ASSUME NEW j \in JobIds
          PROVE  /\ jobs[j].retries \in 0..MaxRetries
                 /\ attempts[j] \in Nat
                 /\ deaths[j] \in Nat
      BY DEF Row
    <3>7. ASSUME NEW j \in JobIds PROVE AccountBalanced(j)'
      <4>1. AccountBalanced(j)
        BY DEF RetriesAreDeaths
      <4>2. CASE jobs'[j] = jobs[j]
        BY <3>1, <3>3, <4>1, <4>2 DEF AccountBalanced
      <4>3. CASE /\ jobs[j].status = "RUNNING"
                 /\ jobs'[j] = RecoveredRow(j, current[w])
        <5>1. jobs[j].failure # "INTERRUPTED"
          BY <4>3 DEF RowShape
        <5> QED
          BY <3>1, <3>3, <3>4, <3>6, <4>1, <4>3, <5>1 DEF AccountBalanced
      <4> QED
        BY <3>2, <4>2, <4>3
    <3> QED
      BY <3>5, <3>7 DEF RetriesAreDeaths
  <2>2. ASSUME NEW j \in JobIds, Claim(w, j)
        PROVE  RowShape' /\ RetriesAreDeaths'
    <3>1. /\ jobs[j].status = "QUEUED"
          /\ jobs'[j].status = "RUNNING"
          /\ jobs'[j].retries = jobs[j].retries
          /\ jobs'[j].failure = jobs[j].failure
          /\ \A i \in JobIds \ {j} : jobs'[i] = jobs[i]
      BY <2>2 DEF Claim, IsNext, Queued, Row
    <3>2. /\ attempts'[j] = attempts[j] + 1
          /\ \A i \in JobIds \ {j} : attempts'[i] = attempts[i]
          /\ deaths' = deaths
      BY <2>2 DEF Claim
    <3>3. /\ HeldByWorker(j)'
          /\ \A i \in JobIds \ {j} : HeldByWorker(i)' <=> HeldByWorker(i)
      <4>1. mine[w] = NoJob
        BY <2>2 DEF Claim, MineInv, Executing
      <4>2. mine' = [mine EXCEPT ![w] = j]
        BY <2>2 DEF Claim
      <4> QED
        BY <4>1, <4>2 DEF HeldByWorker
    <3>4. jobs[j].retries \in 0..MaxRetries
      BY DEF Row
    <3> QED
      BY <3>1, <3>2, <3>3, <3>4 DEF RowShape, RetriesAreDeaths, AccountBalanced
  <2>3. CASE Finish(w)
    <3>1. PICK j \in JobIds : /\ mine[w] = j
                              /\ jobs[j].status = "RUNNING"
                              /\ HeldByWorker(j)
      BY <2>3 DEF Finish, MineInv, Executing, HeldByWorker
    <3>2. jobs' = [jobs EXCEPT ![j] = FinishedRow(j, pc[w])]
      BY <2>3, <3>1 DEF Finish
    <3>3. /\ jobs'[j].status \in Terminal
          /\ jobs'[j].retries = jobs[j].retries
          /\ jobs'[j].failure # "INTERRUPTED"
          /\ jobs'[j].failure # "NONE" => jobs'[j].status = "FAILED"
          /\ \A i \in JobIds \ {j} : jobs'[i] = jobs[i]
      BY <3>1, <3>2 DEF FinishedRow, Row, Terminal
    <3>4. \A i \in JobIds \ {j} : HeldByWorker(i)' <=> HeldByWorker(i)
      BY <2>3, <3>1 DEF Finish, HeldByWorker
    <3>5. UNCHANGED <<attempts, deaths>>
      BY <2>3 DEF Finish, history
    <3>6. jobs[j].failure # "INTERRUPTED"
      BY <3>1 DEF RowShape
    <3>7. RowShape'
      BY <3>3 DEF RowShape, Terminal
    <3>8. ASSUME NEW i \in JobIds \ {j}
          PROVE  jobs'[i] = jobs[i] /\ (HeldByWorker(i)' <=> HeldByWorker(i))
      BY <3>3, <3>4
    <3> QED
      BY <3>1, <3>3, <3>5, <3>6, <3>7, <3>8
         DEF RetriesAreDeaths, AccountBalanced, Terminal
  <2>4. CASE UNCHANGED <<jobs, attempts, deaths, mine>>
    BY <2>4, RetryFrame
  <2> QED
    BY <1>3, <2>1, <2>2, <2>3, <2>4 DEF Worker, Start, TakeLock, ReadClock,
       ClaimNothing, Execute, Unlock, store, history
<1>4. ASSUME NEW w \in Workers, Die(w) PROVE RowShape' /\ RetriesAreDeaths'
  <2>1. CASE mine[w] = NoJob
    <3>1. mine' = mine /\ deaths' = deaths
      BY <1>4, <2>1 DEF Die
    <3> QED
      BY <1>4, <3>1, RetryFrame DEF Die, store
  <2>2. CASE mine[w] # NoJob
    <3>1. PICK j \in JobIds : /\ mine[w] = j
                              /\ jobs[j].status = "RUNNING"
                              /\ HeldByWorker(j)
      BY <2>2 DEF MineInv, HeldByWorker
    <3>2. ~HeldByWorker(j)'
      <4>1. pc[w] \in Executing /\ pc[w] \in Holding
        BY <2>2 DEF MineInv, Holding
      <4>2. \A v \in Workers \ {w} : mine[v] = NoJob
        BY <4>1, OthersOwnNothing
      <4> QED
        BY <1>4, <3>1, <4>2 DEF Die, HeldByWorker
    <3>3. \A i \in JobIds \ {j} : HeldByWorker(i)' <=> HeldByWorker(i)
      BY <1>4, <3>1 DEF Die, HeldByWorker
    <3>4. /\ deaths'[j] = deaths[j] + 1
          /\ \A i \in JobIds \ {j} : deaths'[i] = deaths[i]
      BY <1>4, <2>2, <3>1 DEF Die
    <3>5. UNCHANGED <<jobs, attempts>>
      BY <1>4 DEF Die, store
    <3>6. jobs[j].failure # "INTERRUPTED" /\ jobs[j].retries \in 0..MaxRetries
      BY <3>1 DEF RowShape, Row
    <3> QED
      BY <3>1, <3>2, <3>3, <3>4, <3>5, <3>6
         DEF RowShape, RetriesAreDeaths, AccountBalanced
  <2> QED
    BY <2>1, <2>2
<1>5. CASE UNCHANGED vars
  BY <1>5, RetryFrame DEF vars, store, process, history
<1> QED
  BY <1>1, <1>2, <1>3, <1>4, <1>5 DEF Next

\* Every retry of a job pays for one worker death, and no job is started more
\* than MaxRetries + 1 times.
THEOREM RetryAccount == Spec => [](RowShape /\ RetriesAreDeaths)
<1>1. Init => RowShape /\ RetriesAreDeaths
  BY RetryInit
<1>2. IInv /\ IInv' /\ RowShape /\ RetriesAreDeaths /\ [Next]_vars
        => RowShape' /\ RetriesAreDeaths'
  BY RetryStep
<1> QED
  BY <1>1, <1>2, Invariance, PTL DEF Spec
=============================================================================
