----------------------------- MODULE JobPromise -----------------------------
(***************************************************************************)
(* What the job queue promises to whoever posts a job, with no table,      *)
(* lease, lock, clock or process in it.  A request is known by its         *)
(* idempotency key.  One request at a time is being performed; a           *)
(* performance that is cut short is noticed later, and the request is      *)
(* performed again, at most Limit times in all; its outcome is final.      *)
(***************************************************************************)
EXTENDS Naturals

CONSTANTS Keys, Limit, Nobody

VARIABLES
  state,   \* how far each request is
  tries,   \* how often each request was started
  busy     \* the request being performed

vars == <<state, tries, busy>>

Init ==
  /\ state = [k \in Keys |-> "ABSENT"]
  /\ tries = [k \in Keys |-> 0]
  /\ busy = Nobody

Accept(k) ==
  /\ state[k] = "ABSENT"
  /\ state' = [state EXCEPT ![k] = "QUEUED"]
  /\ UNCHANGED <<tries, busy>>

Begin(k) ==
  /\ busy = Nobody
  /\ state[k] = "QUEUED"
  /\ tries[k] < Limit
  /\ state' = [state EXCEPT ![k] = "RUNNING"]
  /\ tries' = [tries EXCEPT ![k] = @ + 1]
  /\ busy' = k

\* Performed to its end, well or badly.
Complete(k) ==
  /\ busy = k
  /\ state[k] = "RUNNING"
  /\ \E outcome \in {"SUCCEEDED", "FAILED"} :
       state' = [state EXCEPT ![k] = outcome]
  /\ busy' = Nobody
  /\ UNCHANGED tries

\* Cut short.
Abort ==
  /\ busy # Nobody
  /\ busy' = Nobody
  /\ UNCHANGED <<state, tries>>

\* Requests that were cut short are queued again, or given up at the limit.
Notice(lost) ==
  /\ \A k \in lost : k # busy /\ state[k] = "RUNNING"
  /\ state' = [k \in Keys |-> IF k \notin lost THEN state[k]
                              ELSE IF tries[k] < Limit THEN "QUEUED" ELSE "FAILED"]
  /\ UNCHANGED <<tries, busy>>

Next ==
  \/ \E k \in Keys : Accept(k) \/ Begin(k) \/ Complete(k)
  \/ Abort
  \/ \E lost \in SUBSET Keys : Notice(lost)

Spec == Init /\ [][Next]_vars
=============================================================================
