------------------------------- MODULE Ledger -------------------------------
(***************************************************************************)
(* The facts of the ledger while processes start, stop and write them: the *)
(* repositories of storage/repositories.py, called inside                  *)
(* Database.transaction, on the file that Startup creates.                 *)
(*                                                                         *)
(* The program itself writes facts when init-db loads the demo packet and  *)
(* when the collector syncs sources; who else calls a repository is not    *)
(* under src, and holds a deferred transaction for as long as he likes.    *)
(* SQLite (external): a transaction sees the ledger as it was when it      *)
(* began to read; its first write takes the lock that one connection can   *)
(* have, and fails if something has been committed since.                  *)
(*                                                                         *)
(* A write that is refused changes nothing and its exception rolls the     *)
(* transaction back (Abort), so a refusal is a guard here.                 *)
(***************************************************************************)
EXTENDS Startup, Derivations

CONSTANTS
  Sources, Forms,        \* a form of a source: what it may contribute, and whether it is ours
  Cards, Evidence,       \* ids of evidence; what each says
  Claims, Claim,         \* ids of assertions; what each says
  Sightings, Sighting,   \* ids of accepted observations; what each says
  Announcements, Event,  \* ids of lifecycle events; what each says
  Demo,                  \* the packet of fixtures.py
  MaxTransactions,       \* bound: transactions begun
  MaxRows                \* bound: rows written by them

Source == [self : BOOLEAN, allows : SUBSET ClaimPurpose]
EvidenceItem ==
  [source : Sources, class : SourceClass, maturity : Maturity, purpose : ClaimPurpose,
   facets : Facets \cup {None}, parent : Cards \cup {None}]
LifecycleEvent ==
  [entity : Demo.systems, evidence : Cards, state : AvailabilityState,
   retrieved : Nat, effective : Nat \cup {None}]
Observation == [about : Claims, evidence : Cards, at : Nat, id : Nat, scope : Nat]

\* Assertion.enforce_semantics
Sensible(a) ==
  /\ a.support \cup a.contrary \subseteq Cards
  /\ a.state = "EXPLICITLY_UNSUPPORTED" => a.support \cup a.contrary # {}
  /\ a.state = "DISPUTED" => a.contrary # {}

ASSUME NoneAssumption == None \notin Forms \cup Cards \cup Processes
ASSUME SourcesAssumption == Forms \subseteq Source
ASSUME CardsAssumption == Evidence \in [Cards -> EvidenceItem]
ASSUME ClaimsAssumption ==
  /\ \A a \in Claims : Sensible(Claim[a]) /\ Claim[a].taxonomy \in Taxonomies
  /\ Sighting \in [Sightings -> Observation] /\ Event \in [Announcements -> LifecycleEvent]
ASSUME LedgerBounds == MaxTransactions \in Nat /\ MaxRows \in Nat

VARIABLES
  ledger,        \* the committed facts
  open,          \* the processes in a transaction
  copy,          \* what each of them sees, with what it has written
  newest,        \* those that nobody has overtaken with a commit
  holder,        \* the process whose transaction has the write lock
  transactions, written

factVars == <<ledger, open, copy, newest, holder>>
countVars == <<transactions, written>>
ledgerVars == <<startupVars, factVars, countVars>>

Nothing ==
  [systems |-> {}, sources |-> [s \in Sources |-> None], evidence |-> {}, assertions |-> <<>>,
   observations |-> {}, events |-> <<>>, flags |-> {}, resolved |-> {}]

LedgerInit ==
  /\ StartupInit
  /\ ledger = Nothing
  /\ open = {} /\ newest = {} /\ copy = [p \in Processes |-> Nothing]
  /\ holder = None /\ transactions = 0 /\ written = 0
-----------------------------------------------------------------------------
(* Transactions *)

Rows(seq) == {seq[i] : i \in DOMAIN seq}

\* a commit overtakes every transaction but p's
Overtake(p) == newest' = newest \cap {p}

Open(p) ==
  /\ pc[p] = "up" /\ p \notin open
  /\ transactions < MaxTransactions /\ transactions' = transactions + 1
  /\ open' = open \cup {p} /\ newest' = newest \cup {p}
  /\ copy' = [copy EXCEPT ![p] = ledger]
  /\ UNCHANGED <<startupVars, ledger, holder, written>>

\* an overtaken transaction writes
MutantWrite(p, facts) ==
  /\ p \in open /\ holder \in {None, p} /\ holder' = p
  /\ written < MaxRows /\ written' = written + 1
  /\ copy' = [copy EXCEPT ![p] = facts]
  /\ UNCHANGED <<startupVars, ledger, open, newest, transactions>>

\* a repository has written to what p sees
Write(p, facts) ==
  /\ p \in newest /\ holder \in {None, p} /\ holder' = p
  /\ written < MaxRows /\ written' = written + 1
  /\ copy' = [copy EXCEPT ![p] = facts]
  /\ UNCHANGED <<startupVars, ledger, open, newest, transactions>>

Closed(p) ==
  /\ open' = open \ {p} /\ copy' = [copy EXCEPT ![p] = Nothing]
  /\ holder' = IF holder = p THEN None ELSE holder

Commit(p) ==
  /\ p \in open /\ Closed(p)
  /\ IF holder = p
       THEN ledger' = copy[p] /\ newest' = {}
       ELSE newest' = newest \ {p} /\ UNCHANGED ledger
  /\ UNCHANGED <<startupVars, countVars>>

\* an exception, of the ledger or of its caller, or the lock is not had in time
Abort(p) ==
  /\ p \in open /\ Closed(p)
  /\ newest' = newest \ {p}
  /\ UNCHANGED <<startupVars, ledger, countVars>>
-----------------------------------------------------------------------------
(* Repositories *)

\* validate_evidence_purpose
Contributes(e, sources) ==
  LET form == sources[Evidence[e].source]
  IN  form # None /\ ~form.self /\ Evidence[e].purpose \in form.allows

AddEvidence(p, e) ==
  /\ p \in open
  /\ e \notin copy[p].evidence
  /\ Contributes(e, copy[p].sources) /\ Classified(Evidence[e])
  /\ Evidence[e].parent \in copy[p].evidence \cup {None}
  /\ Write(p, [copy[p] EXCEPT !.evidence = @ \cup {e}])

\* foreign keys off
MutantAddAssertion(p, a) ==
  /\ p \in open
  /\ \A b \in Rows(copy[p].assertions) : b # a /\ Claim[b].key # Claim[a].key
  /\ Claim[a].system \in copy[p].systems /\ Claim[a].taxonomy \in taxonomies
  /\ Write(p, [copy[p] EXCEPT !.assertions = Append(@, a)])

AddAssertion(p, a) ==
  /\ p \in open
  /\ \A b \in Rows(copy[p].assertions) : b # a /\ Claim[b].key # Claim[a].key
  /\ Claim[a].system \in copy[p].systems /\ Claim[a].taxonomy \in taxonomies
  /\ Claim[a].support \cup Claim[a].contrary \subseteq copy[p].evidence
  /\ Write(p, [copy[p] EXCEPT !.assertions = Append(@, a)])

AddObservation(p, o) ==
  /\ p \in open
  /\ o \notin copy[p].observations
  /\ Sighting[o].about \in Rows(copy[p].assertions) /\ Sighting[o].evidence \in copy[p].evidence
  /\ Write(p, [copy[p] EXCEPT !.observations = @ \cup {o}])

\* the events of one system or agent, by sequence
History(events, entity) ==
  [i \in {j \in DOMAIN events : Event[events[j]].entity = entity} |-> Event[events[i]]]

\* the history is read through another connection
MutantAppendEvent(p, v) ==
  /\ p \in open
  /\ v \notin Rows(copy[p].events)
  /\ Event[v].entity \in copy[p].systems /\ Event[v].evidence \in copy[p].evidence
  /\ ValidTransition(History(ledger.events, Event[v].entity), Event[v])
  /\ Write(p, [copy[p] EXCEPT !.events = Append(@, v)])

AppendEvent(p, v) ==
  /\ p \in open
  /\ v \notin Rows(copy[p].events)
  /\ Event[v].entity \in copy[p].systems /\ Event[v].evidence \in copy[p].evidence
  /\ ValidTransition(History(copy[p].events, Event[v].entity), Event[v])
  /\ Write(p, [copy[p] EXCEPT !.events = Append(@, v)])

\* flag_contradictions sees evidence, not its ids
Stated(a) ==
  [Claim[a] EXCEPT !.support = {Evidence[e] : e \in @}, !.contrary = {Evidence[e] : e \in @}]
Flagged(assertions) ==
  LET items == [i \in DOMAIN assertions |-> Stated(assertions[i])]
  IN  {[id |-> FlagId(items, f), status |-> "PENDING", payload |-> "PENDING"] : f \in Found(items)}

\* add_conflict, for every flag that flag_contradictions finds: an id that is taken ends it
FlagContradictions(p) ==
  /\ p \in open
  /\ LET found == Flagged(copy[p].assertions)
     IN  /\ found # {}
         /\ \A f \in found, g \in copy[p].flags : f.id # g.id
         /\ Write(p, [copy[p] EXCEPT !.flags = @ \cup found])

\* add_resolution: the payload of the flag stays as it is
AddResolution(p, f) ==
  /\ p \in open /\ f \in copy[p].flags
  /\ Write(p, [copy[p] EXCEPT !.flags = (@ \ {f}) \cup {[f EXCEPT !.status = "CONFIRMED"]},
                              !.resolved = @ \cup {f.id}])

\* the collector commits the form a source has in sources.yaml
SyncSource(p, s) ==
  /\ pc[p] = "up" /\ p \notin Operators /\ p \notin open /\ holder = None
  /\ transactions < MaxTransactions /\ transactions' = transactions + 1
  /\ \E form \in Forms \ {ledger.sources[s]} : ledger' = [ledger EXCEPT !.sources[s] = form]
  /\ Overtake(p)
  /\ UNCHANGED <<startupVars, open, copy, holder, written>>

\* init-db --with-demo: GateAPacketRepository.load, one transaction; rows of the packet that
\* are there already end it
LoadDemo(p) ==
  /\ p \in Operators /\ pc[p] = "up" /\ holder = None /\ p \notin open
  /\ End(p)
  /\ IF /\ Accepted(release)
        /\ ledger.systems = {} /\ Demo.evidence \cap ledger.evidence = {}
        /\ \A s \in Sources : None \in {Demo.sources[s], ledger.sources[s]}
       THEN /\ ledger' = [Demo EXCEPT
                 !.evidence = @ \cup ledger.evidence,
                 !.sources = [s \in Sources |-> IF @[s] = None THEN ledger.sources[s] ELSE @[s]],
                 !.flags = ledger.flags, !.resolved = ledger.resolved]
            /\ Seeded(release) /\ Overtake(p)
       ELSE UNCHANGED <<ledger, taxonomies, methods, newest>>
  /\ UNCHANGED <<release, file, applied, ran, deploys, kills, open, copy, holder, countVars>>
-----------------------------------------------------------------------------
(* Starts and stops beside the transactions *)

\* BEGIN IMMEDIATE of a start waits for the lock, and its commit overtakes who has begun
Boot(p) ==
  /\ Booting(p)
  /\ pc[p] \in {"migrate", "seed"} => holder = None
  /\ IF UNCHANGED <<applied, taxonomies, methods>> THEN UNCHANGED newest ELSE Overtake(p)
  /\ UNCHANGED <<ledger, open, copy, holder, countVars>>

\* another connection has the lock for longer than busy_timeout
LockedOut(p) ==
  /\ pc[p] \in {"migrate", "seed"} /\ holder # None /\ End(p)
  /\ UNCHANGED <<release, databaseVars, deploys, kills, factVars, countVars>>

Finish(p) == Leave(p) /\ p \notin open /\ UNCHANGED <<factVars, countVars>>

\* what the process had written is undone
Killed(p) ==
  /\ Kill(p) /\ Closed(p) /\ newest' = newest \ {p}
  /\ UNCHANGED <<ledger, countVars>>

Replace == Deploy /\ UNCHANGED <<factVars, countVars>>

Record(p) ==
  \/ \E e \in Cards : AddEvidence(p, e)
  \/ \E a \in Claims : AddAssertion(p, a)
  \/ \E o \in Sightings : AddObservation(p, o)
  \/ \E v \in Announcements : AppendEvent(p, v)
  \/ FlagContradictions(p)
  \/ p \in open /\ \E f \in copy[p].flags : AddResolution(p, f)

LedgerNext ==
  \/ Replace
  \/ \E p \in Processes :
       \/ Boot(p) \/ LockedOut(p) \/ Finish(p) \/ Killed(p)
       \/ Open(p) \/ Record(p) \/ Commit(p) \/ Abort(p)
       \/ LoadDemo(p) \/ \E s \in Sources : SyncSource(p, s)

LedgerSpec == LedgerInit /\ [][LedgerNext]_ledgerVars

\* what ends is started again, and nobody keeps a transaction open for ever
FairLedgerSpec ==
  /\ LedgerSpec
  /\ \A p \in Processes : WF_ledgerVars(Boot(p)) /\ WF_ledgerVars(Commit(p) \/ Abort(p))
-----------------------------------------------------------------------------
(* What is published (site_data.py, read_models.py, reports.py) *)

\* the evidence of an assertion without that of our own sources, as they are now
Kept(a) == {e \in Claim[a].support : ~ledger.sources[Evidence[e].source].self}
Items(a) == {Evidence[e] : e \in Kept(a)}

\* support_confidence of a row: as stored, or recomputed if evidence was left out
Published(a, age) ==
  IF Kept(a) = Claim[a].support THEN Claim[a].confidence
  ELSE Support(Items(a), Freshness(age), Claim[a].contrary # {})

Observed(a) == {Sighting[o] : o \in {x \in ledger.observations : Sighting[x].about = a}}

OpenConflicts == {f.id : f \in {g \in ledger.flags : g.payload = "PENDING"}}
-----------------------------------------------------------------------------
(* Properties *)

Tables(facts) ==
  [systems |-> facts.systems, sources |-> facts.sources, evidence |-> facts.evidence,
   assertions |-> facts.assertions, observations |-> facts.observations,
   events |-> facts.events, flags |-> facts.flags, resolved |-> facts.resolved]

\* every row refers to rows that are there
Sound(facts) ==
  /\ facts = Tables(facts)
  /\ facts.systems \in {{}, Demo.systems} /\ facts.sources \in [Sources -> Forms \cup {None}]
  /\ facts.assertions \in Seq(Claims) /\ facts.observations \subseteq Sightings
  /\ facts.events \in Seq(Announcements)
  /\ facts.evidence \subseteq {e \in Cards : facts.sources[Evidence[e].source] # None
                                              /\ Evidence[e].parent \in facts.evidence \cup {None}}
  /\ \A a \in Rows(facts.assertions) :
       /\ Claim[a].system \in facts.systems
       /\ Claim[a].support \cup Claim[a].contrary \subseteq facts.evidence
  /\ \A o \in facts.observations :
       Sighting[o].about \in Rows(facts.assertions) /\ Sighting[o].evidence \in facts.evidence
  /\ \A v \in Rows(facts.events) :
       Event[v].entity \in facts.systems /\ Event[v].evidence \in facts.evidence
  /\ facts.resolved \subseteq {f.id : f \in facts.flags}

\* the packet passes the checks of the repositories that load it
ASSUME DemoAssumption ==
  /\ Sound(Demo) /\ IsFiniteSet(Demo.observations)
  /\ \A e \in Demo.evidence : Classified(Evidence[e])
  /\ \A n \in DOMAIN Demo.events :
       LET v == Event[Demo.events[n]]
       IN  ValidTransition(History(SubSeq(Demo.events, 1, n - 1), v.entity), v)

(* The tables are sound, committed or not, and SQLite's promise to a writer   *)
(* is kept: who has the lock is in a transaction that nobody has overtaken,   *)
(* and who was not overtaken and has not written sees the ledger.             *)
LedgerTypeOK ==
  /\ StartupTypeOK
  /\ open \subseteq Processes /\ newest \subseteq open /\ holder \in newest \cup {None}
  /\ Sound(ledger) /\ \A p \in Processes : Sound(copy[p])
  /\ \A p \in newest : holder # p => copy[p] = ledger
  /\ transactions \in 0 .. MaxTransactions /\ written \in 0 .. MaxRows

(* However writers interleave and whatever order a writer appends in, the     *)
(* availability of a system moves forward: events are in order of retrieval,  *)
(* only UNKNOWN is recorded twice, nothing follows DEPRECATED, and the        *)
(* velocity that is published spans its first preview and its only, later GA. *)
AvailabilityMovesForward ==
  \A x \in Demo.systems :
    LET h == History(ledger.events, x)
    IN  /\ \A i, j \in DOMAIN h : i < j =>
             /\ h[i].retrieved <= h[j].retrieved
             /\ h[i].state # "DEPRECATED"
             /\ h[i].state = h[j].state => h[i].state = "UNKNOWN"
        /\ HasVelocity(h) => Dated(h, {"GA"}) = {LastGa(h)} /\ FirstPreview(h) < LastGa(h)

(* The panel of a published assertion says HIGH for independent validation    *)
(* only if somebody outside earned it: evidence of its own, not derived from  *)
(* another's, not press, of a source that is not ours by now, although        *)
(* sources change sides after their evidence was accepted (site_data.py:86).  *)
ValidationIsEarned ==
  \A a \in Rows(ledger.assertions) :
    Panel(Items(a)).validation = "HIGH" =>
      \E e \in Claim[a].support :
        /\ Evidence[e].parent = None /\ Evidence[e].class # "S1"
        /\ ~ledger.sources[Evidence[e].source].self

Continues(longer, seq) ==
  DOMAIN seq \subseteq DOMAIN longer /\ \A i \in DOMAIN seq : longer[i] = seq[i]

\* every row of old is in new, in its place
Keeps(new, old) ==
  /\ old.systems \subseteq new.systems
  /\ \A s \in Sources : old.sources[s] # None => new.sources[s] # None
  /\ old.evidence \subseteq new.evidence /\ old.observations \subseteq new.observations
  /\ Continues(new.assertions, old.assertions) /\ Continues(new.events, old.events)
  /\ \A f \in old.flags : \E g \in new.flags : g.id = f.id
  /\ old.resolved \subseteq new.resolved

(* No update is lost: whoever commits what he saw some time ago, what others  *)
(* have committed meanwhile is in it, in the order in which it came           *)
(* (append-only history, schema.sql:127; no repository deletes).              *)
NothingIsLost == [][Keeps(ledger', ledger)]_ledgerVars

\* what one call of a repository makes of a ledger that nobody else touches
Recorded(known, old, new) ==
  \/ \E e \in Cards \ old.evidence :
       /\ Contributes(e, old.sources) /\ Classified(Evidence[e])
       /\ Evidence[e].parent \in old.evidence \cup {None}
       /\ new = [old EXCEPT !.evidence = @ \cup {e}]
  \/ \E a \in Claims :
       /\ \A b \in Rows(old.assertions) : b # a /\ Claim[b].key # Claim[a].key
       /\ Claim[a].system \in old.systems /\ Claim[a].taxonomy \in known
       /\ Claim[a].support \cup Claim[a].contrary \subseteq old.evidence
       /\ new = [old EXCEPT !.assertions = Append(@, a)]
  \/ \E o \in Sightings \ old.observations :
       /\ Sighting[o].about \in Rows(old.assertions) /\ Sighting[o].evidence \in old.evidence
       /\ new = [old EXCEPT !.observations = @ \cup {o}]
  \/ \E v \in Announcements \ Rows(old.events) :
       /\ Event[v].entity \in old.systems /\ Event[v].evidence \in old.evidence
       /\ ValidTransition(History(old.events, Event[v].entity), Event[v])
       /\ new = [old EXCEPT !.events = Append(@, v)]
  \/ /\ \A f \in Flagged(old.assertions), g \in old.flags : f.id # g.id
     /\ new = [old EXCEPT !.flags = @ \cup Flagged(old.assertions)]
  \/ \E f \in old.flags :
       new = [old EXCEPT !.flags = (@ \ {f}) \cup {[f EXCEPT !.status = "CONFIRMED"]},
                         !.resolved = @ \cup {f.id}]

\* a source of sources.yaml, or the whole packet where there is nothing of it
Imported(old, new) ==
  \/ \E s \in Sources, form \in Forms : new = [old EXCEPT !.sources[s] = form]
  \/ /\ old.systems = {} /\ Demo.evidence \cap old.evidence = {}
     /\ \A s \in Sources : None \in {Demo.sources[s], old.sources[s]}
     /\ new = [Demo EXCEPT
          !.evidence = @ \cup old.evidence,
          !.sources = [s \in Sources |-> IF @[s] = None THEN old.sources[s] ELSE @[s]],
          !.flags = old.flags, !.resolved = old.resolved]

(* However transactions interleave, are overtaken, undone and killed, the     *)
(* ledger is one that a single writer could have written: what a repository   *)
(* has checked in its snapshot (foreign keys, the history before an event,    *)
(* keys that are free) holds of all that is committed when its row is         *)
(* (database.py:69).                                                          *)
Serial == INSTANCE SerialLedger WITH
  Empty <- Nothing, facts <- ledger, draft <- IF holder = None THEN ledger ELSE copy[holder]
LooksSerial == Serial!Spec

(* An observation that is committed late does not take the scope of its       *)
(* assertion back: the scope changes only to that of a later observation.     *)
ScopeMovesForward ==
  [][\A a \in Claims :
       LET before == Observed(a) now == Observed(a)'
       IN  before # {} => /\ now # {}
                          /\ \E o \in now : /\ o.scope = Current(now)
                                            /\ \A p \in before : o.at >= p.at]_ledgerVars

(* A conflict a person has resolved is not among the open_conflict_ids of the *)
(* weekly evidence pack (reports.py:131).                                     *)
ResolvedIsNotOpen == OpenConflicts \cap ledger.resolved = {}
=============================================================================
