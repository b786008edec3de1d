------------------------------ MODULE MCLedger ------------------------------
(***************************************************************************)
(* One operator and one service, three releases (old, and two that fork    *)
(* its taxonomy), and a ledger in which a derivative item is offered,      *)
(* assertions contradict each other, observations arrive out of order, and *)
(* a system is announced twice.                                            *)
(***************************************************************************)
EXTENDS Ledger, TLC

CONSTANTS r1, r2, r3, t1, t2, t3, m1, vendor, labs, doc, lab, echo,
          affirmed, denied, echoed, first, late, preview, ga, again, agent

Migrations == (r1 :> 1) @@ (r2 :> 2) @@ (r3 :> 1)
Lineages == (r1 :> {t1}) @@ (r2 :> {t1, t2}) @@ (r3 :> {t1, t3})
Methodologies == (r1 :> m1) @@ (r2 :> m1) @@ (r3 :> m1)

Ours == [self |-> TRUE, allows |-> ClaimPurpose]
Others == [self |-> FALSE, allows |-> {"DOCUMENTATION", "INDEPENDENT_VALIDATION"}]

BothForms == {Ours, Others}

Outside == [funding |-> "NONE", commercial |-> "NONE", selected |-> FALSE, operated |-> FALSE,
            reviewed |-> FALSE, reproducible |-> TRUE, public |-> TRUE]
Item(s, c, m, purpose, f, parent) ==
  [source |-> s, class |-> c, maturity |-> m, purpose |-> purpose, facets |-> f, parent |-> parent]
Corpus ==
  (doc :> Item(vendor, "P1", 2, "DOCUMENTATION", None, None))
  @@ (lab :> Item(labs, "R2", 3, "INDEPENDENT_VALIDATION", Outside, None))
  @@ (echo :> Item(labs, "I1", 3, "INDEPENDENT_VALIDATION", Outside, lab))

Statement(k, s, support) ==
  [key |-> k, system |-> agent, taxonomy |-> t1, about |-> agent, type |-> "capability",
   gated |-> FALSE, state |-> s, statement |-> k, support |-> support, contrary |-> {},
   confidence |-> "HIGH"]
Statements ==
  (affirmed :> Statement(1, "AFFIRMED", {doc, lab}))
  @@ (denied :> Statement(2, "EXPLICITLY_UNSUPPORTED", {doc}))
  @@ (echoed :> Statement(3, "UNKNOWN", {echo}))

Seen(id, at) == [about |-> affirmed, evidence |-> doc, at |-> at, id |-> id, scope |-> id]
Visits == (first :> Seen(1, 2)) @@ (late :> Seen(2, 1))

News(s, day) ==
  [entity |-> agent, evidence |-> doc, state |-> s, retrieved |-> day, effective |-> day]
Feed == (preview :> News("PUBLIC_PREVIEW", 1)) @@ (ga :> News("GA", 2)) @@ (again :> News("GA", 3))

Packet ==
  [systems |-> {agent}, sources |-> [s \in Sources |-> Others], evidence |-> {doc, lab},
   assertions |-> <<affirmed>>, observations |-> {first}, events |-> <<preview>>,
   flags |-> {}, resolved |-> {}]
=============================================================================
