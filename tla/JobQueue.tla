------------------------------ MODULE JobQueue ------------------------------
(***************************************************************************)
(* The durable job queue: JobStore (jobs/store.py) over one SQLite file,   *)
(* the API threads that enqueue (api/app.py), and the worker processes     *)
(* (jobs/worker.py) that share one local lock file (jobs/lock.py).         *)
(*                                                                         *)
(* A JobStore method reads the wall clock first and only then waits for    *)
(* BEGIN IMMEDIATE, so reading the clock and committing the transaction    *)
(* are separate steps: the time a transaction uses may be stale.  One      *)
(* transaction is one step.  A worker may die between any two steps; the   *)
(* operating system then drops its lock, and the database keeps what was   *)
(* committed.                                                              *)
(***************************************************************************)
EXTENDS Integers, FiniteSets

CONSTANTS
  Workers,      \* worker processes of one host
  Clients,      \* requests in the hands of API threads, each may be re-sent
  KeyOf,        \* Client -> its Idempotency key
  BodyOf,       \* Client -> its effective request: job type and requester
  JobIds,       \* numbers standing for the random uuids, ordered as text is
  NoWorker,     \* the lock file is not locked
  NoClient,     \* the row does not exist
  MaxRetries,   \* RuntimeConfig.max_restart_retries
  LeaseTicks,   \* RuntimeConfig.pipeline_lease_seconds, in ticks
  MaxTime,      \* bound: the clock stops here
  MaxPosts,     \* bound: how many requests are posted in all
  MaxDeaths     \* bound: how many times a worker dies in a behaviour

ASSUME ClientAssumption == /\ DOMAIN KeyOf = Clients
                           /\ DOMAIN BodyOf = Clients
                           /\ NoClient \notin Clients
                           /\ \A c \in Clients : KeyOf[c] # NoClient
ASSUME WorkerAssumption == NoWorker \notin Workers
ASSUME JobIdAssumption  == JobIds \subseteq Nat
ASSUME BoundAssumption  == /\ MaxRetries \in Nat
                           /\ LeaseTicks \in Nat \ {0}
                           /\ MaxTime \in Nat
                           /\ MaxPosts \in Nat
                           /\ MaxDeaths \in Nat

VARIABLES
  now,          \* the host's clock
  jobs,         \* table jobs: job id -> row
  lease,        \* table pipeline_leases: its only row
  lock,         \* who holds the flock on pipeline.lock
  pc,           \* where each worker is in run_once
  current,      \* the clock value the worker's JobStore call read
  mine,         \* the job the worker claimed and has not finished
  died,         \* how many times a worker has died
  stamp,        \* the created_at an API thread read, or Idle
  posts,        \* how many requests have been posted
  reply,        \* the last answer to each client's request
  attempts,     \* history: how often each job was claimed
  deaths,       \* history: how many workers died holding each job
  queuedAt      \* history: when the row last became QUEUED

store   == <<jobs, lease>>
process == <<lock, pc, current, mine, died>>
api     == <<stamp, posts, reply>>
history == <<attempts, deaths, queuedAt>>
vars    == <<now, store, process, api, history>>

NoJob    == -1    \* no holder, no claimed job, no answer yet
Conflict == -2    \* the answer 409 IDEMPOTENCY_CONFLICT
Idle     == -1    \* no request in flight

Time        == 0..MaxTime
Terminal    == {"SUCCEEDED", "FAILED"}
Status      == {"ABSENT", "QUEUED", "RUNNING"} \union Terminal
Failure     == {"NONE", "INTERRUPTED", "EXECUTION"}
Executing   == {"executing", "succeeded", "failed"}
Holding     == {"recovering", "recovered", "claiming", "unlocking"} \union Executing
WorkerState == {"down", "idle"} \union Holding

Row == [status : Status, by : Clients \union {NoClient}, created : Time,
        queued : Time, retries : 0..MaxRetries, failure : Failure]

NoRow == [status |-> "ABSENT", by |-> NoClient, created |-> 0,
          queued |-> 0, retries |-> 0, failure |-> "NONE"]

Lease   == [holder : JobIds \union {NoJob}, expires : Time]
NoLease == [holder |-> NoJob, expires |-> 0]

\* Every variable keeps its type; in particular a job's retries stay within
\* max_restart_retries.
TypeOK ==
  /\ now \in Time
  /\ jobs \in [JobIds -> Row]
  /\ lease \in Lease
  /\ lock \in Workers \union {NoWorker}
  /\ pc \in [Workers -> WorkerState]
  /\ current \in [Workers -> Time]
  /\ mine \in [Workers -> JobIds \union {NoJob}]
  /\ died \in 0..MaxDeaths
  /\ stamp \in [Clients -> Time \union {Idle}]
  /\ posts \in 0..MaxPosts
  /\ reply \in [Clients -> JobIds \union {NoJob, Conflict}]
  /\ attempts \in [JobIds -> Nat]
  /\ deaths \in [JobIds -> Nat]
  /\ queuedAt \in [JobIds -> Time]

Init ==
  /\ now = 0
  /\ jobs = [j \in JobIds |-> NoRow]
  /\ lease = NoLease
  /\ lock = NoWorker
  /\ pc = [w \in Workers |-> "down"]
  /\ current = [w \in Workers |-> 0]
  /\ mine = [w \in Workers |-> NoJob]
  /\ died = 0
  /\ stamp = [c \in Clients |-> Idle]
  /\ posts = 0
  /\ reply = [c \in Clients |-> NoJob]
  /\ attempts = [j \in JobIds |-> 0]
  /\ deaths = [j \in JobIds |-> 0]
  /\ queuedAt = [j \in JobIds |-> 0]

-----------------------------------------------------------------------------
(* POST /jobs *)

\* Mutant: the key is looked up together with the request it came with.
MutantExisting(c) == {j \in JobIds : /\ jobs[j].status # "ABSENT"
                                     /\ KeyOf[jobs[j].by] = KeyOf[c]
                                     /\ BodyOf[jobs[j].by] = BodyOf[c]}

Existing(c) == {j \in JobIds : jobs[j].status # "ABSENT"
                               /\ KeyOf[jobs[j].by] = KeyOf[c]}

\* Time passes while transactions wait and while jobs run.
Tick ==
  /\ now < MaxTime
  /\ now' = now + 1
  /\ UNCHANGED <<store, process, api, history>>

\* enqueue reads created_at before it waits for the write lock.  Any client
\* may post again, whether or not it saw an answer.
Post(c) ==
  /\ stamp[c] = Idle
  /\ posts < MaxPosts
  /\ posts' = posts + 1
  /\ stamp' = [stamp EXCEPT ![c] = now]
  /\ UNCHANGED <<now, store, process, reply, history>>

\* The request ends before its transaction: 507 DISK_GUARD, 503, disconnect.
Drop(c) ==
  /\ stamp[c] # Idle
  /\ stamp' = [stamp EXCEPT ![c] = Idle]
  /\ UNCHANGED <<now, store, process, posts, reply, history>>

\* The request is answered.  Whether or not the answer arrives, the client may
\* post the same request again.
Answer(c, a) ==
  /\ stamp' = [stamp EXCEPT ![c] = Idle]
  /\ reply' = [reply EXCEPT ![c] = a]
  /\ UNCHANGED posts

EnqueueNew(c) ==
  /\ stamp[c] # Idle
  /\ Existing(c) = {}
  /\ \E j \in JobIds :
       /\ jobs[j].status = "ABSENT"
       /\ jobs' = [jobs EXCEPT ![j] =
                     [NoRow EXCEPT !.status = "QUEUED", !.by = c,
                                   !.created = stamp[c], !.queued = stamp[c]]]
       /\ queuedAt' = [queuedAt EXCEPT ![j] = now]
       /\ Answer(c, j)
  /\ UNCHANGED <<now, lease, process, attempts, deaths>>

\* Mutant: a replay is not compared with the original request.
MutantEnqueueReplay(c) ==
  /\ stamp[c] # Idle
  /\ \E j \in Existing(c) : Answer(c, j)
  /\ UNCHANGED <<now, store, process, history>>

EnqueueReplay(c) ==
  /\ stamp[c] # Idle
  /\ \E j \in Existing(c) : /\ BodyOf[jobs[j].by] = BodyOf[c]
                            /\ Answer(c, j)
  /\ UNCHANGED <<now, store, process, history>>

EnqueueConflict(c) ==
  /\ stamp[c] # Idle
  /\ \E j \in Existing(c) : /\ BodyOf[jobs[j].by] # BodyOf[c]
                            /\ Answer(c, Conflict)
  /\ UNCHANGED <<now, store, process, history>>

-----------------------------------------------------------------------------
(* Worker.run_once *)

\* A worker process starts; it holds nothing and remembers nothing.
Start(w) ==
  /\ pc[w] = "down"
  /\ pc' = [pc EXCEPT ![w] = "idle"]
  /\ UNCHANGED <<now, store, lock, current, mine, died, api, history>>

\* Mutant: the answer of the lock is ignored.
MutantTakeLock(w) ==
  /\ pc[w] = "idle"
  /\ lock' = w
  /\ pc' = [pc EXCEPT ![w] = "recovering"]
  /\ current' = [current EXCEPT ![w] = now]
  /\ UNCHANGED <<now, store, mine, died, api, history>>

\* The non-blocking flock, then recover_interrupted reads the clock.
TakeLock(w) ==
  /\ pc[w] = "idle"
  /\ lock = NoWorker
  /\ lock' = w
  /\ pc' = [pc EXCEPT ![w] = "recovering"]
  /\ current' = [current EXCEPT ![w] = now]
  /\ UNCHANGED <<now, store, mine, died, api, history>>

\* Mutant: leases do not expire.
MutantUnexpired(t) == lease

\* DELETE FROM pipeline_leases WHERE expires_at <= t
Unexpired(t) == IF lease.expires <= t THEN NoLease ELSE lease

\* Mutant: recovery takes every row that is not waiting.
MutantInterrupted(t) == {j \in JobIds : jobs[j].status \notin {"ABSENT", "QUEUED"}
                                        /\ j # Unexpired(t).holder}

\* The RUNNING rows a recovery at time t gives up on.
Interrupted(t) == {j \in JobIds : jobs[j].status = "RUNNING"
                                  /\ j # Unexpired(t).holder}

\* Mutant: one retry too many.
MutantRetryable(j) == jobs[j].retries <= MaxRetries

\* retry_count < max_retries: back to the queue, else FAILED.
Retryable(j) == jobs[j].retries < MaxRetries

\* Mutant: the retry is not counted.
MutantRecoveredRow(j, t) ==
  IF Retryable(j)
    THEN [jobs[j] EXCEPT !.status = "QUEUED", !.queued = t]
    ELSE [jobs[j] EXCEPT !.status = "FAILED", !.failure = "INTERRUPTED"]

RecoveredRow(j, t) ==
  IF Retryable(j)
    THEN [jobs[j] EXCEPT !.status = "QUEUED", !.queued = t, !.retries = @ + 1,
                          !.failure = "NONE"]
    ELSE [jobs[j] EXCEPT !.status = "FAILED", !.failure = "INTERRUPTED"]

Recover(w) ==
  LET lost == Interrupted(current[w])
  IN  /\ pc[w] = "recovering"
      /\ lease' = Unexpired(current[w])
      /\ jobs' = [j \in JobIds |-> IF j \in lost THEN RecoveredRow(j, current[w])
                                                 ELSE jobs[j]]
      /\ queuedAt' = [j \in JobIds |-> IF j \in lost /\ Retryable(j)
                                         THEN now ELSE queuedAt[j]]
      /\ pc' = [pc EXCEPT ![w] = "recovered"]
      /\ UNCHANGED <<now, lock, current, mine, died, api, attempts, deaths>>

\* claim_next reads the clock again, for itself.
ReadClock(w) ==
  /\ pc[w] = "recovered"
  /\ pc' = [pc EXCEPT ![w] = "claiming"]
  /\ current' = [current EXCEPT ![w] = now]
  /\ UNCHANGED <<now, store, lock, mine, died, api, history>>

\* Mutant: the order of the index jobs_status_created_idx.
MutantBefore(i, j) ==
  \/ jobs[i].created < jobs[j].created
  \/ jobs[i].created = jobs[j].created /\ i < j

\* ORDER BY queued_at, created_at, job_id
Before(i, j) ==
  \/ jobs[i].queued < jobs[j].queued
  \/ /\ jobs[i].queued = jobs[j].queued
     /\ \/ jobs[i].created < jobs[j].created
        \/ jobs[i].created = jobs[j].created /\ i < j

Queued    == {j \in JobIds : jobs[j].status = "QUEUED"}
IsNext(j) == j \in Queued /\ \A i \in Queued \ {j} : Before(j, i)

\* acquired_at + lease_seconds; past the bound, every expiry is the bound.
Expiry(t) == IF t + LeaseTicks <= MaxTime THEN t + LeaseTicks ELSE MaxTime

Claim(w, j) ==
  /\ pc[w] = "claiming"
  /\ Unexpired(current[w]) = NoLease
  /\ IsNext(j)
  /\ lease' = [holder |-> j, expires |-> Expiry(current[w])]
  /\ jobs' = [jobs EXCEPT ![j].status = "RUNNING"]
  /\ attempts' = [attempts EXCEPT ![j] = @ + 1]
  /\ mine' = [mine EXCEPT ![w] = j]
  /\ pc' = [pc EXCEPT ![w] = "executing"]
  /\ current' = [current EXCEPT ![w] = 0]
  /\ UNCHANGED <<now, lock, died, api, deaths, queuedAt>>

\* claim_next returns None: a lease is held, or nothing is queued.
ClaimNothing(w) ==
  /\ pc[w] = "claiming"
  /\ Unexpired(current[w]) = NoLease => Queued = {}
  /\ lease' = Unexpired(current[w])
  /\ pc' = [pc EXCEPT ![w] = "unlocking"]
  /\ current' = [current EXCEPT ![w] = 0]
  /\ UNCHANGED <<now, jobs, lock, mine, died, api, history>>

\* The executor returns, or raises an error that run_once turns into FAILED.
Execute(w) ==
  /\ pc[w] = "executing"
  /\ \E result \in {"succeeded", "failed"} : pc' = [pc EXCEPT ![w] = result]
  /\ UNCHANGED <<now, store, lock, current, mine, died, api, history>>

FinishedRow(j, result) ==
  IF result = "succeeded"
    THEN [jobs[j] EXCEPT !.status = "SUCCEEDED", !.failure = "NONE"]
    ELSE [jobs[j] EXCEPT !.status = "FAILED", !.failure = "EXECUTION"]

\* Mutant: finish leaves the lease to expire.
MutantReleased(j) == lease

\* DELETE FROM pipeline_leases WHERE holder_id = j
Released(j) == IF lease.holder = j THEN NoLease ELSE lease

\* finish updates a RUNNING row only; otherwise it raises, nothing catches
\* the error and the process ends.
Finish(w) ==
  /\ pc[w] \in {"succeeded", "failed"}
  /\ IF jobs[mine[w]].status = "RUNNING"
       THEN /\ jobs' = [jobs EXCEPT ![mine[w]] = FinishedRow(mine[w], pc[w])]
            /\ lease' = Released(mine[w])
            /\ pc' = [pc EXCEPT ![w] = "unlocking"]
            /\ lock' = lock
       ELSE /\ UNCHANGED store
            /\ pc' = [pc EXCEPT ![w] = "down"]
            /\ lock' = NoWorker
  /\ mine' = [mine EXCEPT ![w] = NoJob]
  /\ UNCHANGED <<now, current, died, api, history>>

Unlock(w) ==
  /\ pc[w] = "unlocking"
  /\ lock' = NoWorker
  /\ pc' = [pc EXCEPT ![w] = "idle"]
  /\ UNCHANGED <<now, store, current, mine, died, api, history>>

\* The process ends at any point: killed, host lost, or an sqlite error that
\* run_forever does not catch.  The operating system drops its lock.
Die(w) ==
  /\ pc[w] # "down"
  /\ died < MaxDeaths
  /\ died' = died + 1
  /\ pc' = [pc EXCEPT ![w] = "down"]
  /\ lock' = IF lock = w THEN NoWorker ELSE lock
  /\ mine' = [mine EXCEPT ![w] = NoJob]
  /\ current' = [current EXCEPT ![w] = 0]
  /\ deaths' = IF mine[w] = NoJob THEN deaths
                                  ELSE [deaths EXCEPT ![mine[w]] = @ + 1]
  /\ UNCHANGED <<now, store, api, attempts, queuedAt>>

-----------------------------------------------------------------------------
Worker(w) ==
  \/ Start(w) \/ TakeLock(w) \/ Recover(w) \/ ReadClock(w) \/ ClaimNothing(w)
  \/ (\E j \in JobIds : Claim(w, j))
  \/ Execute(w) \/ Finish(w) \/ Unlock(w)

Client(c) ==
  \/ Post(c) \/ Drop(c)
  \/ EnqueueNew(c) \/ EnqueueReplay(c) \/ EnqueueConflict(c)

Next ==
  \/ Tick
  \/ \E c \in Clients : Client(c)
  \/ \E w \in Workers : Worker(w) \/ Die(w)

\* Time passes, a stopped worker is started again and a running one is
\* scheduled.  Nobody has to post, and no request has to reach its transaction.
Fairness == WF_vars(Tick) /\ \A w \in Workers : WF_vars(Worker(w))

Spec     == Init /\ [][Next]_vars
FairSpec == Spec /\ Fairness

-----------------------------------------------------------------------------
(* The promise this queue implements *)

Keys    == {KeyOf[c] : c \in Clients}
Rows(k) == {j \in JobIds : jobs[j].status # "ABSENT" /\ KeyOf[jobs[j].by] = k}

StateOf(k) == IF Rows(k) = {} THEN "ABSENT" ELSE jobs[CHOOSE j \in Rows(k) : TRUE].status
TriesOf(k) == IF Rows(k) = {} THEN 0 ELSE attempts[CHOOSE j \in Rows(k) : TRUE]

Performers  == {w \in Workers : pc[w] \in Executing}
BusyKey     == IF Performers = {} THEN NoClient
               ELSE KeyOf[jobs[mine[CHOOSE w \in Performers : TRUE]].by]

Promise == INSTANCE JobPromise
  WITH Limit <- MaxRetries + 1, Nobody <- NoClient,
       state <- [k \in Keys |-> StateOf(k)],
       tries <- [k \in Keys |-> TriesOf(k)],
       busy  <- BusyKey

-----------------------------------------------------------------------------
(* Properties *)

\* At most one worker executes a pipeline.  Its job is RUNNING in the table and
\* holds the lease, even when the lease has expired under it, so that no other
\* worker recovers or claims the job and finish never raises "job is not running".
SinglePipeline ==
  \A v \in Workers : pc[v] \in Executing =>
     /\ mine[v] \in JobIds
     /\ jobs[mine[v]].status = "RUNNING"
     /\ lease.holder = mine[v]
     /\ \A w \in Workers \ {v} : pc[w] \notin Executing

\* The lease is never left to a job that is queued again or finished: nothing
\* but a job believed to be running keeps the queue from moving.
LeaseHolderIsRunning ==
  lease.holder # NoJob => jobs[lease.holder].status = "RUNNING"

HeldByWorker(j) == \E w \in Workers : mine[w] = j

AccountBalanced(j) ==
  LET unnoticed == \/ jobs[j].status = "RUNNING" /\ ~HeldByWorker(j)
                   \/ jobs[j].failure = "INTERRUPTED"
  IN  /\ deaths[j] = jobs[j].retries + (IF unnoticed THEN 1 ELSE 0)
      /\ attempts[j] = jobs[j].retries
                       + (IF jobs[j].status \in {"ABSENT", "QUEUED"} THEN 0 ELSE 1)
      /\ jobs[j].retries <= MaxRetries
      /\ jobs[j].failure = "INTERRUPTED" => jobs[j].retries = MaxRetries

\* Every retry pays for exactly one worker death, and nothing else does: a job is
\* claimed once per death plus once, at most MaxRetries + 1 times, and is reported
\* INTERRUPTED only after a worker died in each of its MaxRetries + 1 attempts.
RetriesAreDeaths == \A j \in JobIds : AccountBalanced(j)

\* However requests with one Idempotency key race or are repeated, one job exists.
OneJobPerKey ==
  \A i, j \in JobIds :
    /\ jobs[i].status # "ABSENT"
    /\ jobs[j].status # "ABSENT"
    /\ KeyOf[jobs[i].by] = KeyOf[jobs[j].by]
    => i = j

\* A client that was answered gets the same answer to every repetition: the same
\* job, or the same conflict; and a job it was given is the job it asked for.
RepliesAreStable ==
  [][\A c \in Clients : reply[c] # NoJob =>
        /\ reply'[c] = reply[c]
        /\ reply[c] # Conflict =>
             /\ jobs'[reply[c]].status # "ABSENT"
             /\ KeyOf[jobs'[reply[c]].by] = KeyOf[c]
             /\ BodyOf[jobs'[reply[c]].by] = BodyOf[c]]_vars

\* A finished job is never run, requeued or reported differently again.
TerminalIsFinal ==
  [][\A j \in JobIds : jobs[j].status \in Terminal => jobs'[j] = jobs[j]]_vars

\* A job whose request, or whose recovery, read the clock after another job was
\* committed to the queue is never claimed before that job, although each
\* transaction orders the rows by clock values read before it began.
FirstComeFirstServed ==
  [][\A j \in JobIds : attempts'[j] # attempts[j] =>
        \A i \in Queued \ {j} : jobs[j].queued <= queuedAt[i]]_vars

\* Seen through its idempotency keys the queue does only what JobPromise allows:
\* each request once, one at a time, at most MaxRetries + 1 tries, a final outcome.
KeepsPromise == Promise!Spec

\* Every job that was accepted ends SUCCEEDED or FAILED, if workers are restarted
\* and do not die for ever.
EveryJobFinishes ==
  \A j \in JobIds : jobs[j].status # "ABSENT" ~> jobs[j].status \in Terminal
=============================================================================
