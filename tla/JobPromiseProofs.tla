-------------------------- MODULE JobPromiseProofs --------------------------
(***************************************************************************)
(* Proofs that the durable queue implements what JobPromise states, that   *)
(* its replies are stable and that it serves in order, for every number of *)
(* workers, clients, keys and jobs, every retry limit, lease length and    *)
(* bound.                                                                  *)
(***************************************************************************)
EXTENDS JobQueueProofs

USE DEF Time, NoJob, Conflict, Idle

-----------------------------------------------------------------------------
(* What a key stands for.  A key is mapped to one of its rows by CHOOSE:     *)
(* what follows says that it does not matter which.                          *)

PInv == IInv /\ RowInv /\ OneJobPerKey /\ RowShape /\ RetriesAreDeaths

StateMap == [k \in Keys |-> StateOf(k)]
TriesMap == [k \in Keys |-> TriesOf(k)]

\* Every row tells the state and the tries of its key.
KeyMapped ==
  \A k \in Keys :
    /\ \A j \in Rows(k) : StateOf(k) = jobs[j].status /\ TriesOf(k) = attempts[j]
    /\ Rows(k) = {} => StateOf(k) = "ABSENT" /\ TriesOf(k) = 0

\* The worker that executes tells the busy key.
BusyMapped ==
  /\ \A w \in Performers : BusyKey = KeyOf[jobs[mine[w]].by]
  /\ Performers = {} => BusyKey = NoClient

LEMMA KeyIsMapped == OneJobPerKey => KeyMapped
<1> SUFFICES ASSUME OneJobPerKey, NEW k \in Keys
             PROVE  /\ \A j \in Rows(k) : /\ StateOf(k) = jobs[j].status
                                          /\ TriesOf(k) = attempts[j]
                    /\ Rows(k) = {} => StateOf(k) = "ABSENT" /\ TriesOf(k) = 0
  BY DEF KeyMapped
<1>1. ASSUME NEW j \in Rows(k)
      PROVE  StateOf(k) = jobs[j].status /\ TriesOf(k) = attempts[j]
  <2>1. \A i \in Rows(k) : i = j
    BY <1>1 DEF Rows, OneJobPerKey
  <2>2. (CHOOSE i \in Rows(k) : TRUE) \in Rows(k)
    BY <1>1
  <2>3. (CHOOSE i \in Rows(k) : TRUE) = j
    BY <2>1, <2>2
  <2> QED
    BY <1>1, <2>3 DEF StateOf, TriesOf
<1>2. Rows(k) = {} => StateOf(k) = "ABSENT" /\ TriesOf(k) = 0
  BY DEF StateOf, TriesOf
<1> QED
  BY <1>1, <1>2

LEMMA BusyIsMapped == IInv => BusyMapped
<1> SUFFICES ASSUME IInv PROVE BusyMapped
  OBVIOUS
<1>1. ASSUME NEW w \in Performers PROVE BusyKey = KeyOf[jobs[mine[w]].by]
  <2>1. \A v \in Performers : v = w
    BY Ownership DEF Performers, SinglePipeline
  <2>2. (CHOOSE v \in Performers : TRUE) \in Performers
    BY <1>1
  <2>3. (CHOOSE v \in Performers : TRUE) = w
    BY <2>1, <2>2
  <2> QED
    BY <1>1, <2>3 DEF BusyKey
<1>2. Performers = {} => BusyKey = NoClient
  BY DEF BusyKey
<1> QED
  BY <1>1, <1>2 DEF BusyMapped

Mapped == PInv /\ KeyMapped /\ BusyMapped

LEMMA IsMapped == PInv => Mapped
  BY KeyIsMapped, BusyIsMapped DEF PInv, Mapped

\* The key of a row is one of the keys, and none of them is NoClient.
LEMMA KeyOfRow ==
  ASSUME PInv, NEW j \in JobIds, jobs[j].status # "ABSENT"
  PROVE  /\ KeyOf[jobs[j].by] \in Keys
         /\ KeyOf[jobs[j].by] # NoClient
         /\ j \in Rows(KeyOf[jobs[j].by])
  BY ClientAssumption DEF PInv, RowInv, Keys, Rows

\* The executing worker's row: RUNNING, known under the busy key.
LEMMA PerformersRow ==
  ASSUME Mapped, NEW w \in Workers, pc[w] \in Executing
  PROVE  /\ mine[w] \in JobIds
         /\ jobs[mine[w]].status = "RUNNING"
         /\ BusyKey = KeyOf[jobs[mine[w]].by]
         /\ BusyKey \in Keys
         /\ BusyKey # NoClient
         /\ StateMap[BusyKey] = "RUNNING"
         /\ \A v \in Workers : pc[v] \in Executing => v = w
<1>1. mine[w] \in JobIds /\ jobs[mine[w]].status = "RUNNING"
  BY DEF Mapped, PInv, IInv, MineInv
<1>2. BusyKey = KeyOf[jobs[mine[w]].by]
  BY DEF Mapped, BusyMapped, Performers
<1>3. /\ BusyKey \in Keys /\ BusyKey # NoClient
      /\ mine[w] \in Rows(BusyKey)
  BY <1>1, <1>2, KeyOfRow DEF Mapped
<1>4. StateMap[BusyKey] = "RUNNING"
  BY <1>1, <1>3 DEF Mapped, KeyMapped, StateMap
<1>5. \A v \in Workers : pc[v] \in Executing => v = w
  BY Ownership DEF Mapped, PInv, SinglePipeline
<1> QED
  BY <1>1, <1>2, <1>3, <1>4, <1>5

-----------------------------------------------------------------------------
(* What a step does to a key *)

\* A key whose rows a step leaves alone.
LEMMA KeyKept ==
  ASSUME Mapped, Mapped', NEW k \in Keys, Rows(k)' = Rows(k),
         \A j \in Rows(k) : jobs'[j].status = jobs[j].status
                            /\ attempts'[j] = attempts[j]
  PROVE  StateOf(k)' = StateOf(k) /\ TriesOf(k)' = TriesOf(k)
<1>1. CASE Rows(k) = {}
  BY <1>1 DEF Mapped, KeyMapped
<1>2. ASSUME NEW j \in Rows(k)
      PROVE  StateOf(k)' = StateOf(k) /\ TriesOf(k)' = TriesOf(k)
  BY <1>2 DEF Mapped, KeyMapped
<1> QED
  BY <1>1, <1>2

\* A step that touches one row.
LEMMA RowMoved ==
  ASSUME Mapped, Mapped', NEW j \in JobIds,
         jobs'[j].status # "ABSENT",
         jobs[j].status # "ABSENT" => jobs'[j].by = jobs[j].by,
         \A i \in JobIds \ {j} : jobs'[i] = jobs[i] /\ attempts'[i] = attempts[i],
         NEW k, k = KeyOf[jobs'[j].by]
  PROVE  /\ k \in Keys
         /\ StateMap' = [StateMap EXCEPT ![k] = jobs'[j].status]
         /\ TriesMap' = [TriesMap EXCEPT ![k] = attempts'[j]]
         /\ jobs[j].status # "ABSENT" => StateMap[k] = jobs[j].status
                                         /\ TriesMap[k] = attempts[j]
<1>1. k \in Keys /\ j \in Rows(k)'
  BY ClientAssumption DEF Mapped, PInv, RowInv, Keys, Rows
<1>2. StateOf(k)' = jobs'[j].status /\ TriesOf(k)' = attempts'[j]
  BY <1>1 DEF Mapped, KeyMapped
<1>3. ASSUME NEW l \in Keys, l # k
      PROVE  StateOf(l)' = StateOf(l) /\ TriesOf(l)' = TriesOf(l)
  <2>1. j \notin Rows(l) /\ j \notin Rows(l)'
    BY <1>3 DEF Rows
  <2>2. Rows(l)' = Rows(l)
    BY <2>1 DEF Rows
  <2>3. \A i \in Rows(l) : i \in JobIds \ {j}
    BY <2>1 DEF Rows
  <2> QED
    BY <1>3, <2>2, <2>3, KeyKept
<1>4. jobs[j].status # "ABSENT" => StateMap[k] = jobs[j].status
                                   /\ TriesMap[k] = attempts[j]
  BY <1>1, KeyOfRow DEF Mapped, KeyMapped, StateMap, TriesMap
<1>5. StateMap' = [StateMap EXCEPT ![k] = jobs'[j].status]
  BY <1>1, <1>2, <1>3 DEF StateMap
<1>6. TriesMap' = [TriesMap EXCEPT ![k] = attempts'[j]]
  BY <1>1, <1>2, <1>3 DEF TriesMap
<1> QED
  BY <1>1, <1>4, <1>5, <1>6

\* A step that leaves every row and every count alone.
LEMMA MapKept ==
  ASSUME UNCHANGED <<jobs, attempts>>
  PROVE  StateMap' = StateMap /\ TriesMap' = TriesMap
  BY DEF StateMap, TriesMap, StateOf, TriesOf, Rows

\* A step that leaves the workers' jobs alone.
LEMMA BusyKept ==
  ASSUME Mapped, Mapped', Performers' = Performers, mine' = mine,
         \A w \in Performers : jobs'[mine[w]].by = jobs[mine[w]].by
  PROVE  BusyKey' = BusyKey
<1>1. CASE Performers = {}
  BY <1>1 DEF Mapped, BusyMapped
<1>2. ASSUME NEW w \in Performers PROVE BusyKey' = BusyKey
  BY <1>2 DEF Mapped, BusyMapped
<1> QED
  BY <1>1, <1>2

-----------------------------------------------------------------------------
(* Steps the promise does not see *)

LEMMA Unseen ==
  ASSUME UNCHANGED <<jobs, attempts>>, BusyKey' = BusyKey
  PROVE  UNCHANGED Promise!vars
<1>1. StateMap' = StateMap /\ TriesMap' = TriesMap
  BY MapKept
<1> QED
  BY <1>1 DEF Promise!vars, StateMap, TriesMap

LEMMA UnseenFrame ==
  ASSUME UNCHANGED <<jobs, attempts, mine>>, Performers' = Performers
  PROVE  UNCHANGED Promise!vars
<1>1. BusyKey' = BusyKey
  BY DEF BusyKey
<1> QED
  BY <1>1, Unseen

LEMMA UnseenClient ==
  ASSUME NEW c \in Clients, Client(c), ~EnqueueNew(c)
  PROVE  UNCHANGED Promise!vars
<1>1. UNCHANGED <<jobs, attempts, mine, pc>>
  BY DEF Client, Post, Drop, EnqueueReplay, EnqueueConflict, store, process, history
<1> QED
  BY <1>1, UnseenFrame DEF Performers

\* A worker that executes neither before nor after its step.
LEMMA UnseenWorker ==
  ASSUME TypeOK, NEW w \in Workers, UNCHANGED <<jobs, attempts, mine>>,
         NEW s, pc' = [pc EXCEPT ![w] = s], pc[w] \in Executing <=> s \in Executing
  PROVE  UNCHANGED Promise!vars
<1>1. Performers' = Performers
  BY DEF TypeOK, Performers
<1> QED
  BY <1>1, UnseenFrame

-----------------------------------------------------------------------------
(* Steps the promise sees *)

\* A new row is a request accepted.
LEMMA EnqueueAccepts ==
  ASSUME Mapped, Mapped', NEW c \in Clients, EnqueueNew(c)
  PROVE  KeyOf[c] \in Keys /\ Promise!Accept(KeyOf[c])
<1> DEFINE k == KeyOf[c]
<1>1. PICK j \in JobIds : /\ jobs[j].status = "ABSENT"
                          /\ jobs'[j].status = "QUEUED"
                          /\ jobs'[j].by = c
                          /\ \A i \in JobIds \ {j} : jobs'[i] = jobs[i]
  BY NewRow DEF Mapped, PInv, IInv
<1>2. UNCHANGED <<attempts, mine, pc>>
  BY DEF EnqueueNew, process
<1>3. /\ k \in Keys
      /\ StateMap' = [StateMap EXCEPT ![k] = "QUEUED"]
      /\ TriesMap' = [TriesMap EXCEPT ![k] = attempts'[j]]
  BY <1>1, <1>2, RowMoved
<1>4. Rows(k) = {}
  BY DEF EnqueueNew, Existing, Rows
<1>5. StateMap[k] = "ABSENT" /\ TriesMap[k] = 0
  BY <1>3, <1>4 DEF Mapped, KeyMapped, StateMap, TriesMap
<1>6. attempts'[j] = 0
  <2>1. jobs[j].retries = 0 /\ AccountBalanced(j)
    BY <1>1 DEF Mapped, PInv, RowShape, RetriesAreDeaths
  <2> QED
    BY <1>1, <1>2, <2>1 DEF AccountBalanced
<1>7. TriesMap' = TriesMap
  BY <1>3, <1>5, <1>6 DEF TriesMap
<1>8. BusyKey' = BusyKey
  <2>1. Performers' = Performers
    BY <1>2 DEF Performers
  <2>2. \A w \in Performers : mine[w] \in JobIds \ {j}
    BY <1>1, PerformersRow DEF Performers
  <2> QED
    BY <1>1, <1>2, <2>1, <2>2, BusyKept
<1> QED
  BY <1>3, <1>5, <1>7, <1>8 DEF Promise!Accept, StateMap, TriesMap

\* A claim begins a request: no other worker is past the lock, and the row's
\* tries are the retries that paid for them.
LEMMA ClaimBegins ==
  ASSUME Mapped, Mapped', NEW w \in Workers, NEW j \in JobIds, Claim(w, j)
  PROVE  \E k \in Keys : Promise!Begin(k)
<1> DEFINE k == KeyOf[jobs[j].by]
<1>1. /\ jobs[j].status = "QUEUED"
      /\ jobs'[j].status = "RUNNING"
      /\ jobs'[j].by = jobs[j].by
      /\ \A i \in JobIds \ {j} : jobs'[i] = jobs[i]
  BY DEF Claim, IsNext, Queued, Row, Mapped, PInv, IInv, TypeOK
<1>2. /\ attempts'[j] = attempts[j] + 1
      /\ \A i \in JobIds \ {j} : attempts'[i] = attempts[i]
  BY DEF Claim, Mapped, PInv, IInv, TypeOK
<1>3. /\ k \in Keys
      /\ StateMap[k] = "QUEUED"
      /\ TriesMap[k] = attempts[j]
      /\ StateMap' = [StateMap EXCEPT ![k] = "RUNNING"]
      /\ TriesMap' = [TriesMap EXCEPT ![k] = attempts[j] + 1]
  BY <1>1, <1>2, RowMoved
<1>4. attempts[j] < MaxRetries + 1
  <2>1. AccountBalanced(j) /\ jobs[j].retries \in Nat
    BY BoundAssumption
       DEF Mapped, PInv, IInv, TypeOK, Row, RetriesAreDeaths
  <2> QED
    BY <1>1, <2>1, BoundAssumption DEF AccountBalanced
<1>5. BusyKey = NoClient
  <2>1. \A v \in Workers : pc[v] \notin Executing
    BY OthersOwnNothing DEF Mapped, PInv, IInv, Claim, Holding, Executing
  <2> QED
    BY <2>1 DEF Performers, Mapped, BusyMapped
<1>6. BusyKey' = k
  <2>1. pc'[w] \in Executing /\ mine'[w] = j
    BY DEF Claim, Executing, Mapped, PInv, IInv, TypeOK
  <2>2. w \in Performers'
    BY <2>1 DEF Performers
  <2> QED
    BY <1>1, <2>1, <2>2 DEF Mapped, BusyMapped
<1> QED
  BY <1>3, <1>4, <1>5, <1>6 DEF Promise!Begin, StateMap, TriesMap

\* Finishing a job completes its request.
LEMMA FinishCompletes ==
  ASSUME Mapped, Mapped', NEW w \in Workers, Finish(w)
  PROVE  \E k \in Keys : Promise!Complete(k)
<1> DEFINE k == BusyKey
           j == mine[w]
<1>1. pc[w] \in Executing
  BY DEF Finish, Executing
<1>2. /\ j \in JobIds
      /\ jobs[j].status = "RUNNING"
      /\ k = KeyOf[jobs[j].by]
      /\ k \in Keys
      /\ StateMap[k] = "RUNNING"
      /\ \A v \in Workers : pc[v] \in Executing => v = w
  BY <1>1, PerformersRow
<1>3. jobs' = [jobs EXCEPT ![j] = FinishedRow(j, pc[w])]
  BY <1>2 DEF Finish
<1>4. /\ jobs'[j].status \in {"SUCCEEDED", "FAILED"}
      /\ jobs'[j].by = jobs[j].by
      /\ \A i \in JobIds \ {j} : jobs'[i] = jobs[i]
  BY <1>2, <1>3 DEF FinishedRow, Row, Mapped, PInv, IInv, TypeOK
<1>5. attempts' = attempts
  BY DEF Finish, history
<1>6. /\ StateMap' = [StateMap EXCEPT ![k] = jobs'[j].status]
      /\ TriesMap' = [TriesMap EXCEPT ![k] = attempts[j]]
      /\ TriesMap[k] = attempts[j]
  <2>1. jobs'[j].status # "ABSENT"
    BY <1>4
  <2> QED
    BY <1>2, <1>4, <1>5, <2>1, RowMoved
<1>7. TriesMap' = TriesMap
  BY <1>6 DEF TriesMap
<1>8. BusyKey' = NoClient
  <2>1. \A v \in Workers : pc'[v] \notin Executing
    BY <1>2 DEF Finish, Executing, Mapped, PInv, IInv, TypeOK
  <2> QED
    BY <2>1 DEF Performers, Mapped, BusyMapped
<1> QED
  BY <1>2, <1>4, <1>6, <1>7, <1>8 DEF Promise!Complete, StateMap, TriesMap

\* A worker that dies while it executes cuts its request short; any other
\* death is not seen.
LEMMA DeathAborts ==
  ASSUME Mapped, Mapped', NEW w \in Workers, Die(w)
  PROVE  Promise!Abort \/ UNCHANGED Promise!vars
<1>1. UNCHANGED <<jobs, attempts>> /\ pc' = [pc EXCEPT ![w] = "down"]
  BY DEF Die, store
<1>2. CASE pc[w] \in Executing
  <2>1. BusyKey # NoClient /\ \A v \in Workers : pc[v] \in Executing => v = w
    BY <1>2, PerformersRow
  <2>2. \A v \in Workers : pc'[v] \notin Executing
    BY <1>1, <2>1 DEF Executing, Mapped, PInv, IInv, TypeOK
  <2>3. BusyKey' = NoClient
    BY <2>2 DEF Performers, Mapped, BusyMapped
  <2>4. StateMap' = StateMap /\ TriesMap' = TriesMap
    BY <1>1, MapKept
  <2> QED
    BY <2>1, <2>3, <2>4 DEF Promise!Abort, StateMap, TriesMap
<1>3. CASE pc[w] \notin Executing
  <2>1. mine' = mine
    BY <1>3 DEF Die, Mapped, PInv, IInv, TypeOK, MineInv
  <2>2. "down" \notin Executing
    BY DEF Executing
  <2> QED
    BY <1>1, <1>3, <2>1, <2>2, UnseenWorker DEF Mapped, PInv, IInv
<1> QED
  BY <1>2, <1>3

\* A recovery notices every request that was cut short: the one who recovers
\* holds the lock, so nobody executes, and a row may be queued again exactly
\* when its request has tries left.
LEMMA RecoveryNotices ==
  ASSUME Mapped, Mapped', NEW w \in Workers, Recover(w)
  PROVE  \E lost \in SUBSET Keys : Promise!Notice(lost)
<1> DEFINE lostRows == Interrupted(current[w])
           lost == {k \in Keys : \E j \in lostRows : j \in Rows(k)}
<1>1. \A v \in Workers : pc[v] \notin Executing /\ pc'[v] \notin Executing
  BY OthersOwnNothing DEF Mapped, PInv, IInv, TypeOK, Recover, Holding, Executing
<1>2. BusyKey = NoClient /\ BusyKey' = NoClient
  BY <1>1 DEF Performers, Mapped, BusyMapped
<1>3. attempts' = attempts
  BY DEF Recover
<1>4. ASSUME NEW j \in lostRows
      PROVE  /\ j \in JobIds
             /\ jobs[j].status = "RUNNING"
             /\ jobs'[j].by = jobs[j].by
             /\ attempts[j] = jobs[j].retries + 1
             /\ jobs[j].retries < MaxRetries => jobs'[j].status = "QUEUED"
             /\ ~(jobs[j].retries < MaxRetries) => jobs'[j].status = "FAILED"
             /\ jobs[j].retries \in Nat
  <2>1. /\ j \in JobIds /\ jobs[j].status = "RUNNING"
        /\ jobs'[j] = RecoveredRow(j, current[w])
    BY DEF Interrupted, Recover
  <2>2. jobs[j] \in Row
    BY <2>1 DEF Mapped, PInv, IInv, TypeOK
  <2>3. AccountBalanced(j)
    BY <2>1 DEF Mapped, PInv, RetriesAreDeaths
  <2>4. attempts[j] = jobs[j].retries + 1
    BY <2>1, <2>3 DEF AccountBalanced
  <2> QED
    BY <2>1, <2>2, <2>4, BoundAssumption DEF RecoveredRow, Retryable, Row
<1>5. \A j \in JobIds \ lostRows : jobs'[j] = jobs[j]
  BY DEF Recover
<1>6. \A k \in Keys : Rows(k)' = Rows(k)
  BY <1>4, <1>5 DEF Rows
<1>7. ASSUME NEW k \in Keys \ lost
      PROVE  StateOf(k)' = StateOf(k) /\ TriesOf(k)' = TriesOf(k)
  <2>1. \A j \in Rows(k) : j \in JobIds \ lostRows
    BY DEF Rows
  <2> QED
    BY <1>3, <1>5, <1>6, <2>1, KeyKept
<1>8. ASSUME NEW k \in lost
      PROVE  /\ StateOf(k) = "RUNNING"
             /\ StateOf(k)' = IF TriesOf(k) < MaxRetries + 1
                                THEN "QUEUED" ELSE "FAILED"
             /\ TriesOf(k)' = TriesOf(k)
             /\ k # NoClient
  <2>1. PICK j \in lostRows : j \in Rows(k)
    OBVIOUS
  <2>2. j \in Rows(k)'
    BY <1>6, <2>1
  <2>3. StateOf(k) = "RUNNING" /\ TriesOf(k) = attempts[j]
    BY <1>4, <2>1 DEF Mapped, KeyMapped
  <2>4. StateOf(k)' = jobs'[j].status /\ TriesOf(k)' = attempts[j]
    BY <1>3, <2>2 DEF Mapped, KeyMapped
  <2>5. k # NoClient
    BY <2>1, ClientAssumption DEF Keys
  <2> QED
    BY <1>4, <2>3, <2>4, <2>5, BoundAssumption
<1>9. StateMap' = [k \in Keys |-> IF k \notin lost THEN StateMap[k]
                                  ELSE IF TriesMap[k] < MaxRetries + 1
                                         THEN "QUEUED" ELSE "FAILED"]
  BY <1>7, <1>8 DEF StateMap, TriesMap
<1>10. TriesMap' = TriesMap
  BY <1>7, <1>8 DEF TriesMap
<1>11. \A k \in lost : k # BusyKey /\ StateMap[k] = "RUNNING"
  BY <1>2, <1>8 DEF StateMap
<1>12. BusyKey' = BusyKey
  BY <1>2
<1> HIDE DEF lost, lostRows
<1>13. Promise!Notice(lost)
  BY <1>9, <1>10, <1>11, <1>12 DEF Promise!Notice, StateMap, TriesMap
<1> QED
  BY <1>13 DEF lost

-----------------------------------------------------------------------------
(* The refinement *)

LEMMA PromiseInit == Init => Promise!Init
<1> SUFFICES ASSUME Init PROVE Promise!Init
  OBVIOUS
<1>1. \A k : Rows(k) = {}
  BY DEF Init, Rows, NoRow
<1>2. Performers = {}
  BY DEF Init, Performers, Executing
<1> QED
  BY <1>1, <1>2 DEF Promise!Init, StateOf, TriesOf, BusyKey

LEMMA PromiseStep ==
  Mapped /\ Mapped' /\ [Next]_vars => [Promise!Next]_(Promise!vars)
<1> SUFFICES ASSUME Mapped, Mapped', [Next]_vars
             PROVE  Promise!Next \/ UNCHANGED Promise!vars
  OBVIOUS
<1>1. CASE Tick
  BY <1>1, UnseenFrame DEF Tick, store, process, history, Performers
<1>2. ASSUME NEW c \in Clients, Client(c)
      PROVE  Promise!Next \/ UNCHANGED Promise!vars
  <2>1. CASE EnqueueNew(c)
    BY <2>1, EnqueueAccepts DEF Promise!Next
  <2>2. CASE ~EnqueueNew(c)
    BY <1>2, <2>2, UnseenClient
  <2> QED
    BY <2>1, <2>2
<1>3. ASSUME NEW w \in Workers, Worker(w)
      PROVE  Promise!Next \/ UNCHANGED Promise!vars
  <2>1. CASE Recover(w)
    BY <2>1, RecoveryNotices DEF Promise!Next
  <2>2. ASSUME NEW j \in JobIds, Claim(w, j) PROVE Promise!Next
    BY <2>2, ClaimBegins DEF Promise!Next
  <2>3. CASE Finish(w)
    BY <2>3, FinishCompletes DEF Promise!Next
  <2>4. CASE Start(w) \/ TakeLock(w) \/ ReadClock(w) \/ ClaimNothing(w)
             \/ Execute(w) \/ Unlock(w)
    <3>1. UNCHANGED <<jobs, attempts, mine>>
      BY <2>4 DEF Start, TakeLock, ReadClock, ClaimNothing, Execute, Unlock,
         store, history
    <3>2. PICK s : pc' = [pc EXCEPT ![w] = s]
                   /\ (pc[w] \in Executing <=> s \in Executing)
      BY <2>4 DEF Start, TakeLock, ReadClock, ClaimNothing, Execute, Unlock,
         Executing
    <3> QED
      BY <3>1, <3>2, UnseenWorker DEF Mapped, PInv, IInv
  <2> QED
    BY <1>3, <2>1, <2>2, <2>3, <2>4 DEF Worker
<1>4. ASSUME NEW w \in Workers, Die(w)
      PROVE  Promise!Next \/ UNCHANGED Promise!vars
  BY <1>4, DeathAborts DEF Promise!Next
<1>5. CASE UNCHANGED vars
  BY <1>5, UnseenFrame DEF vars, store, process, history, Performers
<1> QED
  BY <1>1, <1>2, <1>3, <1>4, <1>5 DEF Next

\* The queue with its rows, leases, lock, clocks and dying workers does only
\* what JobPromise allows: each key is accepted once, performed by one worker at
\* a time, started at most MaxRetries + 1 times, and its outcome is final.
THEOREM QueueKeepsPromise == Spec => KeepsPromise
<1>1. Spec => []Mapped
  <2>1. Spec => []PInv
    BY Invariance, Idempotency, RetryAccount, PTL DEF PInv
  <2> QED
    BY <2>1, IsMapped, PTL
<1> QED
  BY <1>1, PromiseInit, PromiseStep, PTL DEF Spec, KeepsPromise, Promise!Spec

-----------------------------------------------------------------------------
(* Replies *)

\* A client that was given a job was given one of its own key and request; one
\* that was told of a conflict shares its key with a different request.
ReplyInv ==
  \A c \in Clients :
    /\ reply[c] \in JobIds =>
         /\ jobs[reply[c]].status # "ABSENT"
         /\ KeyOf[jobs[reply[c]].by] = KeyOf[c]
         /\ BodyOf[jobs[reply[c]].by] = BodyOf[c]
    /\ reply[c] = Conflict =>
         \E j \in Rows(KeyOf[c]) : BodyOf[jobs[j].by] # BodyOf[c]

LEMMA NoJobIds == NoJob \notin JobIds /\ Conflict \notin JobIds /\ NoJob # Conflict
<1>1. \A j \in JobIds : j \in Nat
  BY JobIdAssumption
<1>2. NoJob \notin Nat /\ Conflict \notin Nat /\ NoJob # Conflict
  OBVIOUS
<1> QED
  BY <1>1, <1>2

\* The answer to a request, against the key's row: nothing was answered before
\* unless the row was there, and one row answers the same each time.
LEMMA AnswerStep ==
  ASSUME IInv, RowInv, OneJobPerKey, ReplyInv, NEW c \in Clients,
         NEW d \in Clients, EnqueueNew(d) \/ EnqueueReplay(d) \/ EnqueueConflict(d),
         \A j \in JobIds : jobs[j].status # "ABSENT" =>
             jobs'[j].status # "ABSENT" /\ jobs'[j].by = jobs[j].by
  PROVE  /\ reply'[c] \in JobIds =>
              /\ jobs'[reply'[c]].status # "ABSENT"
              /\ KeyOf[jobs'[reply'[c]].by] = KeyOf[c]
              /\ BodyOf[jobs'[reply'[c]].by] = BodyOf[c]
         /\ reply'[c] = Conflict =>
              \E j \in Rows(KeyOf[c])' : BodyOf[jobs'[j].by] # BodyOf[c]
         /\ reply[c] # NoJob => reply'[c] = reply[c]
<1>1. PICK a : reply' = [reply EXCEPT ![d] = a]
  BY DEF EnqueueNew, EnqueueReplay, EnqueueConflict, Answer
<1>2. reply \in [Clients -> JobIds \union {NoJob, Conflict}]
  BY DEF IInv, TypeOK
<1>3. \A j \in Rows(KeyOf[c]) : j \in Rows(KeyOf[c])' /\ jobs'[j].by = jobs[j].by
  BY DEF Rows
<1>4. reply[c] \in JobIds => /\ jobs[reply[c]].status # "ABSENT"
                             /\ KeyOf[jobs[reply[c]].by] = KeyOf[c]
                             /\ BodyOf[jobs[reply[c]].by] = BodyOf[c]
                             /\ reply[c] \in Rows(KeyOf[c])
  BY DEF ReplyInv, Rows
<1>5. reply[c] = Conflict => \E j \in Rows(KeyOf[c]) : BodyOf[jobs[j].by] # BodyOf[c]
  BY DEF ReplyInv
<1>6. reply[c] # NoJob => reply[c] \in JobIds \/ reply[c] = Conflict
  BY <1>2
<1>7. CASE c # d
  <2>1. reply'[c] = reply[c]
    BY <1>1, <1>2, <1>7
  <2> QED
    BY <1>3, <1>4, <1>5, <2>1
<1>8. CASE c = d /\ EnqueueNew(c)
  <2>1. PICK j \in JobIds : /\ jobs'[j].status = "QUEUED"
                            /\ jobs'[j].by = c
                            /\ Answer(c, j)
    BY <1>8, NewRow DEF IInv
  <2>2. reply'[c] = j
    BY <1>2, <2>1 DEF Answer
  <2>3. Rows(KeyOf[c]) = {}
    BY <1>8 DEF EnqueueNew, Existing, Rows
  <2>4. reply[c] = NoJob
    BY <1>4, <1>5, <1>6, <2>3
  <2> QED
    BY <2>1, <2>2, <2>4, NoJobIds
<1>9. CASE c = d /\ EnqueueReplay(c)
  <2>1. PICK j \in Existing(c) : BodyOf[jobs[j].by] = BodyOf[c] /\ Answer(c, j)
    BY <1>9 DEF EnqueueReplay
  <2>2. reply'[c] = j
    BY <1>2, <2>1 DEF Answer
  <2>3. j \in Rows(KeyOf[c]) /\ \A i \in Rows(KeyOf[c]) : i = j
    BY <2>1 DEF Existing, Rows, OneJobPerKey
  <2>4. reply[c] # NoJob => reply[c] = j
    BY <1>4, <1>5, <1>6, <2>1, <2>3
  <2>5. j \in JobIds /\ j # Conflict
    BY <2>1, NoJobIds DEF Existing
  <2>6. /\ jobs'[j].status # "ABSENT"
        /\ KeyOf[jobs'[j].by] = KeyOf[c]
        /\ BodyOf[jobs'[j].by] = BodyOf[c]
    BY <2>1 DEF Existing
  <2> QED
    BY <2>2, <2>4, <2>5, <2>6
<1>10. CASE c = d /\ EnqueueConflict(c)
  <2>1. PICK j \in Existing(c) : /\ BodyOf[jobs[j].by] # BodyOf[c]
                                 /\ Answer(c, Conflict)
    BY <1>10 DEF EnqueueConflict
  <2>2. reply'[c] = Conflict
    BY <1>2, <2>1 DEF Answer
  <2>3. j \in Rows(KeyOf[c]) /\ \A i \in Rows(KeyOf[c]) : i = j
    BY <2>1 DEF Existing, Rows, OneJobPerKey
  <2>4. reply[c] \notin JobIds
    BY <1>4, <2>1, <2>3
  <2>5. j \in Rows(KeyOf[c])' /\ BodyOf[jobs'[j].by] # BodyOf[c]
    BY <1>3, <2>1, <2>3
  <2> QED
    BY <1>6, <2>2, <2>4, <2>5, NoJobIds
<1> QED
  BY <1>7, <1>8, <1>9, <1>10

LEMMA ReplyStep ==
  ASSUME IInv, RowInv, OneJobPerKey, ReplyInv, [Next]_vars, NEW c \in Clients
  PROVE  /\ reply'[c] \in JobIds =>
              /\ jobs'[reply'[c]].status # "ABSENT"
              /\ KeyOf[jobs'[reply'[c]].by] = KeyOf[c]
              /\ BodyOf[jobs'[reply'[c]].by] = BodyOf[c]
         /\ reply'[c] = Conflict =>
              \E j \in Rows(KeyOf[c])' : BodyOf[jobs'[j].by] # BodyOf[c]
         /\ reply[c] # NoJob => reply'[c] = reply[c]
<1>1. \A j \in JobIds : jobs[j].status # "ABSENT" =>
         jobs'[j].status # "ABSENT" /\ jobs'[j].by = jobs[j].by
  BY RowsKept
<1>2. ASSUME NEW d \in Clients,
             EnqueueNew(d) \/ EnqueueReplay(d) \/ EnqueueConflict(d)
      PROVE  reply'[c] = reply[c] \/ c = d
  BY <1>2 DEF EnqueueNew, EnqueueReplay, EnqueueConflict, Answer, IInv, TypeOK
<1>3. CASE \E d \in Clients : EnqueueNew(d) \/ EnqueueReplay(d) \/ EnqueueConflict(d)
  BY <1>1, <1>3, AnswerStep
<1>4. CASE ~\E d \in Clients : EnqueueNew(d) \/ EnqueueReplay(d) \/ EnqueueConflict(d)
  <2>1. reply' = reply
    BY <1>4 DEF Next, vars, api, Tick, Client, Post, Drop, Worker, Start, TakeLock,
       Recover, ReadClock, ClaimNothing, Claim, Execute, Finish, Unlock, Die
  <2>2. Rows(KeyOf[c]) \subseteq Rows(KeyOf[c])'
    BY <1>1 DEF Rows
  <2>3. \A j \in Rows(KeyOf[c]) : jobs'[j].by = jobs[j].by
    BY <1>1 DEF Rows
  <2> QED
    BY <1>1, <2>1, <2>2, <2>3 DEF ReplyInv
<1> QED
  BY <1>3, <1>4

\* However often a client repeats its request, and whatever happens between two
\* answers, it is given the same job, its own, or told of the same conflict.
THEOREM StableReplies == Spec => RepliesAreStable
<1> DEFINE RInv == IInv /\ RowInv /\ OneJobPerKey /\ ReplyInv
<1>1. Init => ReplyInv
  BY NoJobIds DEF Init, ReplyInv
<1>2. RInv /\ [Next]_vars => ReplyInv'
  BY ReplyStep DEF ReplyInv
<1>3. RInv /\ [Next]_vars =>
        [\A c \in Clients : reply[c] # NoJob =>
           /\ reply'[c] = reply[c]
           /\ reply[c] # Conflict =>
                /\ jobs'[reply[c]].status # "ABSENT"
                /\ KeyOf[jobs'[reply[c]].by] = KeyOf[c]
                /\ BodyOf[jobs'[reply[c]].by] = BodyOf[c]]_vars
  BY ReplyStep DEF IInv, TypeOK
<1> QED
  BY <1>1, <1>2, <1>3, Invariance, Idempotency, PTL DEF Spec, RepliesAreStable

-----------------------------------------------------------------------------
(* Order *)

\* A clock that was read is not ahead, so no row's queued_at is later than the
\* commit that queued it.
ClockInv ==
  /\ \A c \in Clients : stamp[c] # Idle => stamp[c] <= now
  /\ \A w \in Workers : current[w] <= now
  /\ \A j \in JobIds : jobs[j].queued <= queuedAt[j]

LEMMA ClockInit == Init => ClockInv
  BY BoundAssumption DEF Init, ClockInv, NoRow

\* The numbers compared are integers.
LEMMA ClockTypes ==
  ASSUME TypeOK
  PROVE  /\ now \in Int
         /\ \A c \in Clients : stamp[c] \in Int
         /\ \A w \in Workers : current[w] \in Int
         /\ \A j \in JobIds : jobs[j].queued \in Int /\ queuedAt[j] \in Int
<1>1. Time \subseteq Int
  BY BoundAssumption
<1>2. \A c \in Clients : stamp[c] \in Int
  BY <1>1 DEF TypeOK
<1>3. \A j \in JobIds : jobs[j].queued \in Time /\ queuedAt[j] \in Time
  BY DEF TypeOK, Row
<1>4. now \in Time /\ \A w \in Workers : current[w] \in Time
  BY DEF TypeOK
<1> QED
  BY <1>1, <1>2, <1>3, <1>4

\* Time does not go back, a step reads the clock as it is, and a row is queued at
\* a clock value that was read.
LEMMA ClockMoves ==
  ASSUME TypeOK, ClockInv, [Next]_vars
  PROVE  /\ now <= now'
         /\ \A c \in Clients : stamp'[c] \in {stamp[c], now, Idle}
         /\ \A w \in Workers : current'[w] \in {current[w], now, 0}
         /\ \A j \in JobIds : \/ /\ jobs'[j].queued = jobs[j].queued
                                 /\ queuedAt'[j] = queuedAt[j]
                              \/ jobs'[j].queued <= now /\ queuedAt'[j] = now
<1> USE ClockTypes DEF store, process, api, history
<1> DEFINE Kept == \A j \in JobIds : /\ jobs'[j].queued = jobs[j].queued
                                     /\ queuedAt'[j] = queuedAt[j]
<1>0. /\ stamp \in [Clients -> Time \union {Idle}]
      /\ current \in [Workers -> Time]
      /\ jobs \in [JobIds -> Row]
      /\ queuedAt \in [JobIds -> Time]
  BY DEF TypeOK
<1>1. CASE Tick
  BY <1>1 DEF Tick
<1>2. ASSUME NEW c \in Clients, EnqueueNew(c)
      PROVE  /\ \A j \in JobIds : \/ /\ jobs'[j].queued = jobs[j].queued
                                     /\ queuedAt'[j] = queuedAt[j]
                                  \/ jobs'[j].queued <= now /\ queuedAt'[j] = now
             /\ \A d \in Clients : stamp'[d] \in {stamp[d], now, Idle}
             /\ UNCHANGED <<now, current>>
  <2>1. PICK j \in JobIds :
          /\ jobs' = [jobs EXCEPT ![j] =
                     [NoRow EXCEPT !.status = "QUEUED", !.by = c,
                                   !.created = stamp[c], !.queued = stamp[c]]]
          /\ queuedAt' = [queuedAt EXCEPT ![j] = now]
          /\ Answer(c, j)
    BY <1>2 DEF EnqueueNew
  <2>2. stamp[c] <= now
    BY <1>2 DEF EnqueueNew, ClockInv
  <2>3. jobs'[j].queued = stamp[c] /\ queuedAt'[j] = now
    BY <1>0, <2>1 DEF NoRow
  <2>4. \A i \in JobIds \ {j} : jobs'[i] = jobs[i] /\ queuedAt'[i] = queuedAt[i]
    BY <1>0, <2>1
  <2>5. \A d \in Clients : stamp'[d] \in {stamp[d], now, Idle}
    BY <1>0, <2>1 DEF Answer
  <2> QED
    BY <1>2, <2>2, <2>3, <2>4, <2>5 DEF EnqueueNew
<1>3. ASSUME NEW c \in Clients, Client(c), ~EnqueueNew(c)
      PROVE  /\ \A d \in Clients : stamp'[d] \in {stamp[d], now, Idle}
             /\ UNCHANGED <<now, current, jobs, queuedAt>>
  BY <1>0, <1>3 DEF Client, Post, Drop, EnqueueReplay, EnqueueConflict, Answer
<1>4. ASSUME NEW w \in Workers, Worker(w) \/ Die(w)
      PROVE  /\ UNCHANGED <<now, stamp>>
             /\ \A v \in Workers : current'[v] \in {current[v], now, 0}
  <2>1. CASE TakeLock(w) \/ ReadClock(w)
    BY <1>0, <2>1 DEF TakeLock, ReadClock
  <2>2. CASE ClaimNothing(w) \/ (\E j \in JobIds : Claim(w, j)) \/ Die(w)
    BY <1>0, <2>2 DEF ClaimNothing, Claim, Die
  <2> QED
    BY <1>4, <2>1, <2>2 DEF Worker, Start, Recover, Execute, Finish, Unlock
<1>5. ASSUME NEW w \in Workers, Recover(w), NEW j \in JobIds
      PROVE  \/ /\ jobs'[j].queued = jobs[j].queued
                /\ queuedAt'[j] = queuedAt[j]
             \/ jobs'[j].queued <= now /\ queuedAt'[j] = now
  <2>1. jobs[j] \in Row
    BY <1>0
  <2>2. CASE j \in Interrupted(current[w]) /\ Retryable(j)
    <3>1. jobs'[j] = RecoveredRow(j, current[w]) /\ queuedAt'[j] = now
      BY <1>5, <2>2 DEF Recover
    <3>2. jobs'[j].queued = current[w]
      BY <2>1, <2>2, <3>1 DEF RecoveredRow, Row
    <3> QED
      BY <3>1, <3>2 DEF ClockInv
  <2>3. CASE j \in Interrupted(current[w]) /\ ~Retryable(j)
    <3>1. jobs'[j] = RecoveredRow(j, current[w]) /\ queuedAt'[j] = queuedAt[j]
      BY <1>5, <2>3 DEF Recover
    <3> QED
      BY <2>1, <2>3, <3>1 DEF RecoveredRow, Row
  <2>4. CASE j \notin Interrupted(current[w])
    BY <1>5, <2>4 DEF Recover
  <2> QED
    BY <2>2, <2>3, <2>4
<1>6. ASSUME NEW w \in Workers, Worker(w), ~Recover(w) PROVE Kept
  <2>1. ASSUME NEW j \in JobIds, Claim(w, j) PROVE Kept
    BY <1>0, <2>1 DEF Claim, Row
  <2>2. CASE Finish(w)
    <3>1. \A j \in JobIds : FinishedRow(j, pc[w]).queued = jobs[j].queued
      BY <1>0 DEF FinishedRow, Row
    <3>2. \A j \in JobIds : jobs'[j] \in {jobs[j], FinishedRow(j, pc[w])}
      BY <1>0, <2>2 DEF Finish
    <3> QED
      BY <2>2, <3>1, <3>2 DEF Finish
  <2> QED
    BY <1>6, <2>1, <2>2 DEF Worker, Start, TakeLock, ReadClock, ClaimNothing,
       Execute, Unlock
<1>7. ASSUME NEW w \in Workers, Die(w) PROVE Kept
  BY <1>7 DEF Die
<1>8. CASE UNCHANGED vars
  BY <1>8 DEF vars
<1> QED
  BY <1>1, <1>2, <1>3, <1>4, <1>5, <1>6, <1>7, <1>8 DEF Next, Tick

LEMMA ClockStep == IInv /\ IInv' /\ ClockInv /\ [Next]_vars => ClockInv'
<1> SUFFICES ASSUME IInv, IInv', ClockInv, [Next]_vars PROVE ClockInv'
  OBVIOUS
<1>1. /\ now \in Int /\ now' \in Int /\ now <= now' /\ 0 <= now'
      /\ \A c \in Clients : stamp[c] \in Int
      /\ \A w \in Workers : current[w] \in Int
      /\ \A j \in JobIds : /\ jobs[j].queued \in Int /\ queuedAt[j] \in Int
                           /\ jobs'[j].queued \in Int /\ queuedAt'[j] \in Int
  <2>1. TypeOK /\ TypeOK'
    BY DEF IInv
  <2>2. /\ now' \in Int /\ 0 <= now'
        /\ \A j \in JobIds : jobs'[j].queued \in Int /\ queuedAt'[j] \in Int
    BY <2>1, BoundAssumption DEF TypeOK, Row
  <2> QED
    BY <2>1, <2>2, ClockTypes, ClockMoves
<1>2. /\ \A c \in Clients : stamp'[c] \in {stamp[c], now, Idle}
      /\ \A w \in Workers : current'[w] \in {current[w], now, 0}
      /\ \A j \in JobIds : \/ /\ jobs'[j].queued = jobs[j].queued
                              /\ queuedAt'[j] = queuedAt[j]
                           \/ jobs'[j].queued <= now /\ queuedAt'[j] = now
  BY ClockMoves DEF IInv
<1> QED
  BY <1>1, <1>2 DEF ClockInv

LEMMA ClaimsInOrder ==
  ASSUME IInv, ClockInv, [Next]_vars, NEW j \in JobIds, attempts'[j] # attempts[j],
         NEW i \in Queued \ {j}
  PROVE  jobs[j].queued <= queuedAt[i]
<1>1. PICK w \in Workers : Claim(w, j)
  <2>1. PICK w \in Workers, k \in JobIds : Claim(w, k)
    BY DEF Next, vars, history, Tick, Client, Post, Drop, EnqueueNew,
       EnqueueReplay, EnqueueConflict, Worker, Start, TakeLock, Recover,
       ReadClock, ClaimNothing, Execute, Finish, Unlock, Die
  <2>2. k = j
    BY <2>1 DEF Claim, IInv, TypeOK
  <2> QED
    BY <2>1, <2>2
<1>2. i \in JobIds /\ Before(j, i)
  BY <1>1 DEF Claim, IsNext, Queued
<1>3. jobs[j].queued \in Int /\ jobs[i].queued \in Int /\ queuedAt[i] \in Int
  BY <1>2, ClockTypes DEF IInv
<1>4. jobs[j].queued <= jobs[i].queued
  BY <1>2, <1>3 DEF Before
<1>5. jobs[i].queued <= queuedAt[i]
  BY <1>2 DEF ClockInv
<1> QED
  BY <1>3, <1>4, <1>5

\* A job queued by a clock value read after another job's commit waits for it.
THEOREM QueueIsFair == Spec => FirstComeFirstServed
<1>1. IInv /\ ClockInv /\ [Next]_vars =>
        [\A j \in JobIds : attempts'[j] # attempts[j] =>
           \A i \in Queued \ {j} : jobs[j].queued <= queuedAt[i]]_vars
  BY ClaimsInOrder
<1> QED
  BY <1>1, ClockInit, ClockStep, Invariance, PTL DEF Spec, FirstComeFirstServed
=============================================================================
