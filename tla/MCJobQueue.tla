----------------------------- MODULE MCJobQueue -----------------------------
(***************************************************************************)
(* Small instances of JobQueue.  Two jobs are enough for one to wait       *)
(* behind, or be claimed beside, another.                                  *)
(***************************************************************************)
EXTENDS JobQueue, TLC

CONSTANTS c1, c2, c3, c4, k1, k2, b1, b2

\* c1 and c4 post the same request; c2 reuses its key for another; c3 has its own.
RivalKeys   == (c1 :> k1) @@ (c2 :> k1) @@ (c3 :> k2) @@ (c4 :> k1)
RivalBodies == (c1 :> b1) @@ (c2 :> b2) @@ (c3 :> b1) @@ (c4 :> b1)

\* Two clients, two keys.
TwoKeys   == (c1 :> k1) @@ (c3 :> k2)
TwoBodies == (c1 :> b1) @@ (c3 :> b1)
=============================================================================
