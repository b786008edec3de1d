---------------------------- MODULE SerialLedger ----------------------------
(***************************************************************************)
(* What the transactions of the fact ledger amount to, with no process,    *)
(* snapshot or lock in it: one draft, on which one repository call follows *)
(* another, is committed or thrown away as a whole.  A call sees all that  *)
(* was committed before it.                                                *)
(***************************************************************************)
CONSTANTS
  Empty,             \* a ledger without rows
  Recorded(_, _, _), \* given the taxonomies, a repository call makes one ledger of another
  Imported(_, _)     \* init-db or the collector does

VARIABLES
  facts,       \* what is committed
  draft,       \* that, and what the transaction in hand has written
  taxonomies   \* what the assertions may be classified by

Init == facts = Empty /\ draft = Empty

Call == Recorded(taxonomies, draft, draft') /\ UNCHANGED facts

Commit == facts' = draft /\ UNCHANGED draft

Rollback == draft' = facts /\ UNCHANGED facts

\* nothing is in hand
Import == draft = facts /\ Imported(facts, facts') /\ draft' = facts'

Next == Call \/ Commit \/ Rollback \/ Import

Spec == Init /\ [][Next]_<<facts, draft>>
=============================================================================
