---------------------------- MODULE LedgerProofs ----------------------------
(***************************************************************************)
(* Theorems about the ledger of Ledger and the starts of Startup, for any  *)
(* number of processes, releases, rows and transactions.                   *)
(*                                                                         *)
(* A start and a transaction touch different variables but for LoadDemo,   *)
(* so the invariant has two parts, each preserved by every step.           *)
(***************************************************************************)
EXTENDS Ledger, DerivationProofs

\* What a process has passed over in its list of migrations is applied.
Prefixes ==
  /\ glob \in [Processes -> {0} \cup {Shipped[r] : r \in Releases}]
  /\ \A p \in Processes : 1 .. (next[p] - 1) \subseteq applied

StartupInv == StartupTypeOK /\ MigrationsRunOnce /\ OneLineage /\ Prefixes

\* Every two events of one system or agent are in order, and not only neighbours.
InOrder(events) == \A x \in Demo.systems : Chronological(History(events, x))

\* A primary key.
Keyed(flags) == \A f, g \in flags : f.id = g.id => f = g

\* What is in the tables has passed the checks of the repositories.
Vetted(facts) ==
  /\ \A e \in facts.evidence : Classified(Evidence[e])
  /\ InOrder(facts.events)
  /\ IsFiniteSet(facts.observations)
  /\ Keyed(facts.flags)

FactInv ==
  /\ open \subseteq Processes /\ newest \subseteq open /\ holder \in newest \cup {None}
  /\ copy = [p \in Processes |-> copy[p]]
  /\ Sound(ledger) /\ Vetted(ledger)
  /\ \A p \in Processes : Sound(copy[p]) /\ Vetted(copy[p])
  /\ \A p \in newest : (holder # p => copy[p] = ledger) /\ Keeps(copy[p], ledger)
  /\ transactions \in 0 .. MaxTransactions /\ written \in 0 .. MaxRows

-----------------------------------------------------------------------------
(* The starts *)

LEMMA VersionsAreNumbers ==
  /\ Versions \subseteq Nat \ {0}
  /\ \A r \in Releases : 1 .. Shipped[r] \subseteq Versions
BY ReleasesAssumption DEF Versions

\* A process that ends is back at the first migration of an empty list.
LEMMA EndKeeps ==
  ASSUME StartupInv, NEW p \in Processes, End(p),
         release' \in Releases, file' \in BOOLEAN, UNCHANGED <<applied, ran>>,
         deploys' \in 0 .. MaxDeploys, kills' \in 0 .. MaxKills,
         taxonomies' \subseteq Taxonomies, methods' \subseteq Methods, OneLineage'
  PROVE  StartupInv'
BY DEF StartupInv, StartupTypeOK, MigrationsRunOnce, Prefixes, End, Goto

\* The metadata of one release is what seed_authoritative_metadata leaves.
LEMMA SeedsWhole ==
  ASSUME StartupInv, Seeded(release), Accepted(release)
  PROVE  taxonomies' \subseteq Taxonomies /\ methods' \subseteq Methods /\ OneLineage'
<1> release \in Releases
  BY DEF StartupInv, StartupTypeOK
<1>1. taxonomies' = Lineage[release] /\ methods' = {Method[release]}
  BY DEF Seeded, Accepted
<1>2. Lineage[release] \subseteq Taxonomies /\ Method[release] \in Methods
  BY ReleasesAssumption
<1> QED
  BY <1>1, <1>2 DEF OneLineage

LEMMA StartKeeps ==
  ASSUME StartupInv, NEW p \in Processes, Start(p)
  PROVE  StartupInv'
BY DEF StartupInv, StartupTypeOK, MigrationsRunOnce, OneLineage, Prefixes, Start, Goto

LEMMA InstallSchemaKeeps ==
  ASSUME StartupInv, NEW p \in Processes, InstallSchema(p)
  PROVE  StartupInv'
BY ReleasesAssumption
DEF StartupInv, StartupTypeOK, MigrationsRunOnce, OneLineage, Prefixes, InstallSchema, Goto,
    databaseVars

LEMMA SelectKeeps ==
  ASSUME StartupInv, NEW p \in Processes, Select(p)
  PROVE  StartupInv'
<1> USE DEF databaseVars
<1>1. CASE next[p] > glob[p]
  BY <1>1 DEF StartupInv, StartupTypeOK, MigrationsRunOnce, OneLineage, Prefixes, Select, Goto
<1>2. CASE ~(next[p] > glob[p]) /\ next[p] \in applied
  <2>1. next' = [next EXCEPT ![p] = @ + 1] /\ UNCHANGED <<pc, glob, release, deploys, kills>>
        /\ UNCHANGED databaseVars
    BY <1>2 DEF Select
  <2>2. pc[p] = "select"
    BY DEF Select
  <2>3. StartupTypeOK'
    BY <2>1, <2>2 DEF StartupInv, StartupTypeOK
  <2>4. Prefixes'
    <3>1. \A q \in Processes : 1 .. (next'[q] - 1) \subseteq applied
      BY <1>2, <2>1 DEF StartupInv, StartupTypeOK, Prefixes
    <3> QED
      BY <2>1, <3>1 DEF StartupInv, Prefixes
  <2> QED
    BY <2>1, <2>3, <2>4 DEF StartupInv, MigrationsRunOnce, OneLineage
<1>3. CASE ~(next[p] > glob[p]) /\ next[p] \notin applied
  <2>1. next[p] \in Versions
    <3>1. PICK r \in Releases : glob[p] = Shipped[r]
      BY <1>3 DEF StartupInv, StartupTypeOK, Prefixes
    <3> QED
      BY <1>3, <3>1, VersionsAreNumbers, ReleasesAssumption DEF StartupInv, StartupTypeOK
  <2> QED
    BY <1>3, <2>1
    DEF StartupInv, StartupTypeOK, MigrationsRunOnce, OneLineage, Prefixes, Select, Goto
<1> QED
  BY <1>1, <1>2, <1>3

\* The race of Database.initialize: a migration that is missing from what a process has
\* listed in order is the one after those applied, whoever applied them.
LEMMA MigrateKeeps ==
  ASSUME StartupInv, NEW p \in Processes, Migrate(p)
  PROVE  StartupInv'
<1>1. CASE next[p] \in applied
  BY <1>1, EndKeeps DEF Migrate, StartupInv, StartupTypeOK, OneLineage
<1>2. CASE next[p] \notin applied
  <2> DEFINE v == next[p]
  <2>1. /\ applied' = applied \cup {v} /\ ran' = [ran EXCEPT ![v] = @ + 1]
        /\ next' = [next EXCEPT ![p] = v + 1] /\ pc' = [pc EXCEPT ![p] = "select"]
        /\ UNCHANGED <<glob, release, file, taxonomies, methods, deploys, kills>>
    BY <1>2 DEF Migrate, Goto
  <2>2. v \in Versions /\ v \in Nat \ {0} /\ 1 .. (v - 1) \subseteq applied
    BY VersionsAreNumbers DEF Migrate, StartupInv, StartupTypeOK, Prefixes
  <2>3. PICK n \in {0} \cup Versions : applied = 1 .. n
    BY DEF StartupInv, MigrationsRunOnce
  <2>4. n \in Nat
    BY VersionsAreNumbers
  <2>5. v = n + 1
    <3>1. v > n
      BY <1>2, <2>2, <2>3, <2>4
    <3>2. v - 1 > n => n + 1 \in 1 .. (v - 1)
      BY <2>2, <2>4
    <3> QED
      BY <2>2, <2>3, <2>4, <3>1, <3>2
  <2>6. applied' = 1 .. v
    BY <2>1, <2>3, <2>4, <2>5
  <2>7. MigrationsRunOnce'
    <3>1. \A w \in Versions : ran'[w] = IF w \in applied' THEN 1 ELSE 0
      BY <1>2, <2>1, <2>2 DEF StartupInv, StartupTypeOK, MigrationsRunOnce
    <3> QED
      BY <2>2, <2>6, <3>1 DEF MigrationsRunOnce
  <2>8. StartupTypeOK'
    <3>1. ran' \in [Versions -> Nat] /\ next' \in [Processes -> Nat \ {0}]
      BY <2>1, <2>2 DEF StartupInv, StartupTypeOK
    <3> QED
      BY <2>1, <2>2, <3>1 DEF StartupInv, StartupTypeOK
  <2>9. Prefixes'
    <3>1. \A q \in Processes : 1 .. (next'[q] - 1) \subseteq applied'
      <4> SUFFICES ASSUME NEW q \in Processes PROVE 1 .. (next'[q] - 1) \subseteq applied'
        OBVIOUS
      <4>1. CASE q = p
        <5>1. next'[q] = v + 1
          BY <2>1, <4>1 DEF StartupInv, StartupTypeOK
        <5> QED
          BY <2>2, <2>6, <5>1
      <4>2. CASE q # p
        BY <2>1, <4>2 DEF StartupInv, StartupTypeOK, Prefixes
      <4> QED
        BY <4>1, <4>2
    <3> QED
      BY <2>1, <3>1 DEF StartupInv, Prefixes
  <2> QED
    BY <2>1, <2>7, <2>8, <2>9 DEF StartupInv, OneLineage
<1> QED
  BY <1>1, <1>2

LEMMA SeedKeeps ==
  ASSUME StartupInv, NEW p \in Processes, Seed(p)
  PROVE  StartupInv'
<1>1. CASE Accepted(release)
  <2>1. taxonomies' \subseteq Taxonomies /\ methods' \subseteq Methods /\ OneLineage'
    BY <1>1, SeedsWhole DEF Seed
  <2> QED
    BY <1>1, <2>1
    DEF Seed, StartupInv, StartupTypeOK, MigrationsRunOnce, Prefixes, Goto
<1>2. CASE ~Accepted(release)
  BY <1>2, EndKeeps DEF Seed, StartupInv, StartupTypeOK, OneLineage
<1> QED
  BY <1>1, <1>2

LEMMA DeployKeeps ==
  ASSUME StartupInv, Deploy
  PROVE  StartupInv'
BY StartupBounds
DEF StartupInv, StartupTypeOK, MigrationsRunOnce, OneLineage, Prefixes, Deploy, databaseVars,
    processVars

LEMMA KillKeeps ==
  ASSUME StartupInv, NEW p \in Processes, Kill(p)
  PROVE  StartupInv'
BY StartupBounds, EndKeeps DEF StartupInv, StartupTypeOK, OneLineage, Kill, databaseVars

LEMMA LoadDemoKeepsStartup ==
  ASSUME StartupInv, NEW p \in Processes, LoadDemo(p)
  PROVE  StartupInv'
<1>1. taxonomies' \subseteq Taxonomies /\ methods' \subseteq Methods /\ OneLineage'
  <2>1. CASE UNCHANGED <<taxonomies, methods>>
    BY <2>1 DEF StartupInv, StartupTypeOK, OneLineage
  <2>2. CASE Accepted(release) /\ Seeded(release)
    BY <2>2, SeedsWhole
  <2> QED
    BY <2>1, <2>2 DEF LoadDemo
<1> QED
  BY <1>1, EndKeeps DEF LoadDemo, StartupInv, StartupTypeOK

-----------------------------------------------------------------------------
(* The facts *)

LEMMA RowsOfAppend ==
  ASSUME NEW S, NEW s \in Seq(S), NEW x \in S
  PROVE  Append(s, x) \in Seq(S) /\ Rows(Append(s, x)) = Rows(s) \cup {x}
<1>1. /\ Append(s, x) \in Seq(S) /\ DOMAIN s = 1 .. Len(s) /\ Len(s) \in Nat
      /\ DOMAIN Append(s, x) = 1 .. (Len(s) + 1)
  OBVIOUS
<1>2. \A i \in 1 .. Len(s) : Append(s, x)[i] = s[i]
  OBVIOUS
<1>3. Append(s, x)[Len(s) + 1] = x
  OBVIOUS
<1>4. Rows(Append(s, x)) \subseteq Rows(s) \cup {x}
  BY <1>1, <1>2, <1>3 DEF Rows
<1>5. Rows(s) \cup {x} \subseteq Rows(Append(s, x))
  BY <1>1, <1>2, <1>3 DEF Rows
<1> QED
  BY <1>1, <1>4, <1>5

Fields ==
  {"systems", "sources", "evidence", "assertions", "observations", "events", "flags", "resolved"}

With(f, k, rows) == [f EXCEPT ![k] = rows]

LEMMA TablesAreRecords ==
  ASSUME NEW f
  PROVE  f = Tables(f) <=> DOMAIN f = Fields /\ f = [x \in Fields |-> f[x]]
<1>1. DOMAIN Tables(f) = Fields
  BY DEF Tables, Fields
<1>2. Tables(f) = [x \in DOMAIN Tables(f) |-> Tables(f)[x]]
  BY DEF Tables
<1>3. \A x \in Fields : Tables(f)[x] = f[x]
  BY DEF Tables, Fields
<1> QED
  BY <1>1, <1>2, <1>3

\* Writing one table leaves the others.
LEMMA OneTable ==
  ASSUME NEW f, f = Tables(f), NEW k \in Fields, NEW rows
  PROVE  /\ With(f, k, rows) = Tables(With(f, k, rows))
         /\ With(f, k, rows)[k] = rows
         /\ \A x \in Fields \ {k} : With(f, k, rows)[x] = f[x]
<1>1. DOMAIN f = Fields /\ f = [x \in Fields |-> f[x]]
  BY TablesAreRecords
<1> DEFINE g == With(f, k, rows)
<1>2. DOMAIN g = Fields /\ g = [x \in Fields |-> g[x]]
  BY <1>1 DEF With
<1>3. g[k] = rows /\ \A x \in Fields \ {k} : g[x] = f[x]
  BY <1>1 DEF With
<1> HIDE DEF g
<1>4. g = Tables(g)
  BY <1>2, TablesAreRecords
<1> QED
  BY <1>3, <1>4 DEF g

LEMMA NothingIsSound == Sound(Nothing) /\ Vetted(Nothing)
<1>1. Sound(Nothing)
  BY DEF Nothing, Sound, Tables, Rows
<1>2. InOrder(Nothing.events)
  BY DEF Nothing, InOrder, Chronological, History
<1>3. Vetted(Nothing)
  BY <1>2, FS_EmptySet DEF Nothing, Vetted, Keyed
<1> QED
  BY <1>1, <1>3

LEMMA EventsAreDated ==
  ASSUME NEW v \in Announcements
  PROVE  IsDatedState(Event[v]) /\ Event[v].entity \in Demo.systems
BY ClaimsAssumption DEF LifecycleEvent, IsDatedState

\* LifecycleRepository.append: an event that may follow the last is in order with all.
LEMMA AppendedInOrder ==
  ASSUME NEW events \in Seq(Announcements), NEW v \in Announcements, InOrder(events),
         ValidTransition(History(events, Event[v].entity), Event[v])
  PROVE  InOrder(Append(events, v))
<1> DEFINE longer == Append(events, v)
           n == Len(events)
<1>1. /\ n \in Nat /\ DOMAIN events = 1 .. n /\ DOMAIN longer = 1 .. (n + 1)
      /\ longer[n + 1] = v /\ \A i \in 1 .. n : longer[i] = events[i] /\ events[i] \in Announcements
  OBVIOUS
<1> HIDE DEF longer, n
<1> SUFFICES ASSUME NEW x \in Demo.systems,
                    NEW i \in DOMAIN History(longer, x), NEW j \in DOMAIN History(longer, x), i < j
             PROVE  Succeeds(History(longer, x)[j], History(longer, x)[i])
  BY DEF InOrder, Chronological, longer
<1>2. /\ i \in 1 .. n /\ j \in 1 .. (n + 1)
      /\ Event[longer[i]].entity = x /\ Event[longer[j]].entity = x
      /\ History(longer, x)[i] = Event[longer[i]] /\ History(longer, x)[j] = Event[longer[j]]
  BY <1>1 DEF History
<1>3. i \in DOMAIN History(events, x) /\ History(longer, x)[i] = History(events, x)[i]
  BY <1>1, <1>2 DEF History
<1>4. Chronological(History(events, x))
  BY DEF InOrder
<1>5. CASE j \in 1 .. n
  <2>1. j \in DOMAIN History(events, x) /\ History(longer, x)[j] = History(events, x)[j]
    BY <1>1, <1>2, <1>5 DEF History
  <2> QED
    BY <1>3, <1>4, <2>1 DEF Chronological
<1>6. CASE j = n + 1
  <2> DEFINE h == History(events, x)
  <2>1. x = Event[v].entity /\ History(longer, x)[j] = Event[v]
    BY <1>1, <1>2, <1>6
  <2>2. DOMAIN h \subseteq 1 .. n /\ \A k \in DOMAIN h : IsDatedState(h[k])
    BY <1>1, EventsAreDated DEF History
  <2>3. IsDatedState(Event[v]) /\ ValidTransition(h, Event[v])
    BY <2>1, EventsAreDated
  <2> HIDE DEF h
  <2>4. \A k \in DOMAIN h : Succeeds(Event[v], h[k])
    BY <1>1, <1>4, <2>2, <2>3, TransitionsAreChronological DEF h
  <2> QED
    BY <1>3, <2>1, <2>4 DEF h
<1> QED
  BY <1>1, <1>2, <1>5, <1>6

\* GateAPacketRepository.load appends the events of the packet one by one.
LEMMA PacketInOrder == InOrder(Demo.events)
<1> DEFINE Loaded(n) == SubSeq(Demo.events, 1, n)
           Bad == {n \in 0 .. Len(Demo.events) : ~InOrder(Loaded(n))}
<1>1. Demo.events \in Seq(Announcements) /\ Len(Demo.events) \in Nat
  BY DemoAssumption DEF Sound
<1>2. Loaded(Len(Demo.events)) = Demo.events
  BY <1>1
<1>3. CASE Bad = {}
  <2>1. Len(Demo.events) \in 0 .. Len(Demo.events)
    BY <1>1
  <2> HIDE DEF Loaded
  <2> QED
    BY <1>2, <1>3, <2>1
<1>4. CASE Bad # {}
  <2>1. PICK m \in Bad : \A k \in Bad : m <= k
    <3>1. Bad \in SUBSET Nat
      OBVIOUS
    <3> HIDE DEF Bad
    <3> QED
      BY <1>4, <3>1, Least
  <2>2. m # 0
    <3>1. DOMAIN Loaded(0) = {}
      BY <1>1
    <3> HIDE DEF Loaded
    <3>2. InOrder(Loaded(0))
      BY <3>1 DEF InOrder, Chronological, History
    <3> QED
      BY <3>2
  <2>3. m \in 1 .. Len(Demo.events) /\ m - 1 \in 0 .. Len(Demo.events)
    BY <1>1, <2>2
  <2>4. InOrder(Loaded(m - 1))
    BY <2>1, <2>3
  <2>5. /\ Loaded(m) = Append(Loaded(m - 1), Demo.events[m])
        /\ Loaded(m - 1) \in Seq(Announcements) /\ Demo.events[m] \in Announcements
    BY <1>1, <2>3
  <2>6. ValidTransition(History(Loaded(m - 1), Event[Demo.events[m]].entity), Event[Demo.events[m]])
    BY <1>1, <2>3, DemoAssumption
  <2> HIDE DEF Loaded
  <2>7. InOrder(Loaded(m))
    BY <2>4, <2>5, <2>6, AppendedInOrder
  <2> QED
    BY <2>7
<1> QED
  BY <1>3, <1>4

\* Flags that one run of the rules finds have ids of their own.
LEMMA FlaggedIsKeyed ==
  ASSUME NEW assertions \in Seq(Claims)
  PROVE  Keyed(Flagged(assertions))
<1> DEFINE items == [i \in DOMAIN assertions |-> Stated(assertions[i])]
           Row(f) == [id |-> FlagId(items, f), status |-> "PENDING", payload |-> "PENDING"]
<1>1. PICK T : items \in Seq(T)
  <2>1. DOMAIN assertions = 1 .. Len(assertions) /\ Len(assertions) \in Nat
    OBVIOUS
  <2>2. items \in Seq({Stated(a) : a \in Claims})
    BY <2>1
  <2> QED
    BY <2>2
<1>2. \A f, h \in Found(items) : FlagId(items, f) = FlagId(items, h) => f = h
  BY <1>1, FlagIdsDiffer
<1>3. Flagged(assertions) = {Row(f) : f \in Found(items)}
  BY DEF Flagged
<1>4. \A f : Row(f).id = FlagId(items, f)
  OBVIOUS
<1> HIDE DEF items, Row
<1> QED
  BY <1>2, <1>3, <1>4 DEF Keyed

LEMMA KeepsItself ==
  ASSUME NEW f
  PROVE  Keeps(f, f)
BY DEF Keeps, Continues

LEMMA KeepsIsTransitive ==
  ASSUME NEW f, NEW g, NEW h, Keeps(g, f), Keeps(h, g)
  PROVE  Keeps(h, f)
<1>1. /\ Continues(h.assertions, f.assertions)
      /\ Continues(h.events, f.events)
  BY DEF Keeps, Continues
<1>2. \A x \in f.flags : \E y \in h.flags : y.id = x.id
  BY DEF Keeps
<1> QED
  BY <1>1, <1>2 DEF Keeps

LEMMA AppendContinues ==
  ASSUME NEW S, NEW s \in Seq(S), NEW x \in S
  PROVE  Continues(Append(s, x), s)
BY DEF Continues

\* What a repository writes to sound tables leaves them sound, and what was there is kept.
LEMMA EvidenceIsSound ==
  ASSUME NEW f, Sound(f), Vetted(f), NEW e \in Cards,
         Contributes(e, f.sources), Classified(Evidence[e]),
         Evidence[e].parent \in f.evidence \cup {None}
  PROVE  LET g == [f EXCEPT !.evidence = @ \cup {e}] IN Sound(g) /\ Vetted(g) /\ Keeps(g, f)
<1> DEFINE g == [f EXCEPT !.evidence = @ \cup {e}]
<1>1. /\ g = Tables(g) /\ g.evidence = f.evidence \cup {e}
      /\ g.systems = f.systems /\ g.sources = f.sources /\ g.assertions = f.assertions
      /\ g.observations = f.observations /\ g.events = f.events
      /\ g.flags = f.flags /\ g.resolved = f.resolved
  <2>1. g = With(f, "evidence", f.evidence \cup {e})
    BY DEF With
  <2> HIDE DEF g
  <2>2. f = Tables(f)
    BY DEF Sound
  <2> QED
    BY <2>1, <2>2, OneTable DEF Fields
<1> HIDE DEF g
<1>2. f.sources[Evidence[e].source] # None
  BY DEF Contributes
<1>3. Sound(g)
  BY <1>1, <1>2 DEF Sound
<1>4. Vetted(g)
  BY <1>1 DEF Vetted
<1>5. Keeps(g, f)
  BY <1>1, KeepsItself DEF Keeps
<1> QED
  BY <1>3, <1>4, <1>5 DEF g

LEMMA AssertionIsSound ==
  ASSUME NEW f, Sound(f), Vetted(f), NEW a \in Claims,
         Claim[a].system \in f.systems, Claim[a].support \cup Claim[a].contrary \subseteq f.evidence
  PROVE  LET g == [f EXCEPT !.assertions = Append(@, a)] IN Sound(g) /\ Vetted(g) /\ Keeps(g, f)
<1> DEFINE g == [f EXCEPT !.assertions = Append(@, a)]
<1>1. /\ g = Tables(g) /\ g.assertions = Append(f.assertions, a)
      /\ g.systems = f.systems /\ g.sources = f.sources /\ g.evidence = f.evidence
      /\ g.observations = f.observations /\ g.events = f.events
      /\ g.flags = f.flags /\ g.resolved = f.resolved
  <2> DEFINE longer == Append(f.assertions, a)
  <2>1. g = With(f, "assertions", longer)
    BY DEF With
  <2> HIDE DEF g, longer
  <2>2. f = Tables(f)
    BY DEF Sound
  <2>3. /\ g = Tables(g) /\ g.assertions = longer
        /\ \A z \in Fields \ {"assertions"} : g[z] = f[z]
    BY <2>1, <2>2, OneTable DEF Fields
  <2> QED
    BY <2>3 DEF Fields, longer
<1> HIDE DEF g
<1>2. g.assertions \in Seq(Claims) /\ Rows(g.assertions) = Rows(f.assertions) \cup {a}
  BY <1>1, RowsOfAppend DEF Sound
<1>3. Sound(g)
  BY <1>1, <1>2 DEF Sound
<1>4. Vetted(g)
  BY <1>1 DEF Vetted
<1>5. Keeps(g, f)
  BY <1>1, AppendContinues, KeepsItself DEF Keeps, Sound
<1> QED
  BY <1>3, <1>4, <1>5 DEF g

LEMMA ObservationIsSound ==
  ASSUME NEW f, Sound(f), Vetted(f), NEW o \in Sightings,
         Sighting[o].about \in Rows(f.assertions), Sighting[o].evidence \in f.evidence
  PROVE  LET g == [f EXCEPT !.observations = @ \cup {o}] IN Sound(g) /\ Vetted(g) /\ Keeps(g, f)
<1> DEFINE g == [f EXCEPT !.observations = @ \cup {o}]
<1>1. /\ g = Tables(g) /\ g.observations = f.observations \cup {o}
      /\ g.systems = f.systems /\ g.sources = f.sources /\ g.evidence = f.evidence
      /\ g.assertions = f.assertions /\ g.events = f.events
      /\ g.flags = f.flags /\ g.resolved = f.resolved
  <2>1. g = With(f, "observations", f.observations \cup {o})
    BY DEF With
  <2> HIDE DEF g
  <2>2. f = Tables(f)
    BY DEF Sound
  <2> QED
    BY <2>1, <2>2, OneTable DEF Fields
<1> HIDE DEF g
<1>2. Vetted(g)
  BY <1>1, FS_AddElement DEF Vetted
<1>3. Sound(g)
  BY <1>1 DEF Sound
<1>4. Keeps(g, f)
  BY <1>1, KeepsItself DEF Keeps
<1> QED
  BY <1>2, <1>3, <1>4 DEF g

LEMMA EventIsSound ==
  ASSUME NEW f, Sound(f), Vetted(f), NEW v \in Announcements,
         Event[v].entity \in f.systems, Event[v].evidence \in f.evidence,
         ValidTransition(History(f.events, Event[v].entity), Event[v])
  PROVE  LET g == [f EXCEPT !.events = Append(@, v)] IN Sound(g) /\ Vetted(g) /\ Keeps(g, f)
<1> DEFINE g == [f EXCEPT !.events = Append(@, v)]
<1>1. /\ g = Tables(g) /\ g.events = Append(f.events, v)
      /\ g.systems = f.systems /\ g.sources = f.sources /\ g.evidence = f.evidence
      /\ g.assertions = f.assertions /\ g.observations = f.observations
      /\ g.flags = f.flags /\ g.resolved = f.resolved
  <2> DEFINE longer == Append(f.events, v)
  <2>1. g = With(f, "events", longer)
    BY DEF With
  <2> HIDE DEF g, longer
  <2>2. f = Tables(f)
    BY DEF Sound
  <2>3. /\ g = Tables(g) /\ g.events = longer
        /\ \A z \in Fields \ {"events"} : g[z] = f[z]
    BY <2>1, <2>2, OneTable DEF Fields
  <2> QED
    BY <2>3 DEF Fields, longer
<1> HIDE DEF g
<1>2. g.events \in Seq(Announcements) /\ Rows(g.events) = Rows(f.events) \cup {v}
  BY <1>1, RowsOfAppend DEF Sound
<1>3. Sound(g)
  BY <1>1, <1>2 DEF Sound
<1>4. InOrder(g.events)
  BY <1>1, AppendedInOrder DEF Sound, Vetted
<1>5. Vetted(g)
  BY <1>1, <1>4 DEF Vetted
<1>6. Keeps(g, f)
  BY <1>1, AppendContinues, KeepsItself DEF Keeps, Sound
<1> QED
  BY <1>3, <1>5, <1>6 DEF g

LEMMA FlagsAreSound ==
  ASSUME NEW f, Sound(f), Vetted(f), NEW found, Keyed(found),
         \A x \in found, y \in f.flags : x.id # y.id
  PROVE  LET g == [f EXCEPT !.flags = @ \cup found] IN Sound(g) /\ Vetted(g) /\ Keeps(g, f)
<1> DEFINE g == [f EXCEPT !.flags = @ \cup found]
<1>1. /\ g = Tables(g) /\ g.flags = f.flags \cup found
      /\ g.systems = f.systems /\ g.sources = f.sources /\ g.evidence = f.evidence
      /\ g.assertions = f.assertions /\ g.observations = f.observations
      /\ g.events = f.events /\ g.resolved = f.resolved
  <2>1. g = With(f, "flags", f.flags \cup found)
    BY DEF With
  <2> HIDE DEF g
  <2>2. f = Tables(f)
    BY DEF Sound
  <2> QED
    BY <2>1, <2>2, OneTable DEF Fields
<1> HIDE DEF g
<1>2. Keyed(g.flags)
  BY <1>1 DEF Vetted, Keyed
<1>3. Keeps(g, f)
  BY <1>1, KeepsItself DEF Keeps
<1> QED
  BY <1>1, <1>2, <1>3 DEF Sound, Vetted, g

LEMMA ResolutionIsSound ==
  ASSUME NEW f, Sound(f), Vetted(f), NEW x \in f.flags
  PROVE  LET g == [f EXCEPT !.flags = (@ \ {x}) \cup {[x EXCEPT !.status = "CONFIRMED"]},
                            !.resolved = @ \cup {x.id}]
         IN  Sound(g) /\ Vetted(g) /\ Keeps(g, f)
<1> DEFINE y == [x EXCEPT !.status = "CONFIRMED"]
           g == [f EXCEPT !.flags = (@ \ {x}) \cup {y}, !.resolved = @ \cup {x.id}]
<1>1. y.id = x.id
  OBVIOUS
<1> HIDE DEF y
<1>2. /\ g = Tables(g) /\ g.flags = (f.flags \ {x}) \cup {y} /\ g.resolved = f.resolved \cup {x.id}
      /\ g.systems = f.systems /\ g.sources = f.sources /\ g.evidence = f.evidence
      /\ g.assertions = f.assertions /\ g.observations = f.observations
      /\ g.events = f.events
  <2>1. PICK h : h = With(f, "flags", (f.flags \ {x}) \cup {y})
    BY DEF With
  <2>2. h = Tables(h) /\ h.flags = (f.flags \ {x}) \cup {y}
        /\ \A z \in Fields \ {"flags"} : h[z] = f[z]
    BY <2>1, OneTable DEF Fields, Sound
  <2>3. g = With(h, "resolved", f.resolved \cup {x.id})
    BY <2>1, <2>2 DEF Fields, With
  <2> HIDE DEF g
  <2>4. g = Tables(g) /\ g.resolved = f.resolved \cup {x.id}
        /\ \A z \in Fields \ {"resolved"} : g[z] = h[z]
    BY <2>2, <2>3, OneTable DEF Fields
  <2> QED
    BY <2>2, <2>4 DEF Fields
<1> HIDE DEF g
<1>3. g.resolved \subseteq {z.id : z \in g.flags}
  BY <1>1, <1>2 DEF Sound
<1>4. Sound(g)
  BY <1>2, <1>3 DEF Sound
<1>5. Keyed(g.flags)
  BY <1>1, <1>2 DEF Vetted, Keyed
<1>6. Vetted(g)
  BY <1>2, <1>5 DEF Vetted
<1>7. Keeps(g, f)
  BY <1>1, <1>2, KeepsItself DEF Keeps
<1> QED
  BY <1>4, <1>6, <1>7 DEF g, y

LEMMA SyncedIsSound ==
  ASSUME NEW f, Sound(f), Vetted(f), NEW s \in Sources, NEW form \in Forms
  PROVE  LET g == [f EXCEPT !.sources[s] = form] IN Sound(g) /\ Vetted(g) /\ Keeps(g, f)
<1> DEFINE g == [f EXCEPT !.sources[s] = form]
<1>1. /\ g = Tables(g) /\ g.sources = [f.sources EXCEPT ![s] = form]
      /\ g.systems = f.systems /\ g.flags = f.flags /\ g.evidence = f.evidence
      /\ g.assertions = f.assertions /\ g.observations = f.observations
      /\ g.events = f.events /\ g.resolved = f.resolved
  <2>1. g = With(f, "sources", [f.sources EXCEPT ![s] = form])
    BY DEF With
  <2> HIDE DEF g
  <2>2. f = Tables(f)
    BY DEF Sound
  <2> QED
    BY <2>1, <2>2, OneTable DEF Fields
<1> HIDE DEF g
<1>2. \A e \in f.evidence : g.sources[Evidence[e].source] # None
  BY <1>1, NoneAssumption DEF Sound
<1>3. g.sources \in [Sources -> Forms \cup {None}]
  BY <1>1 DEF Sound
<1>4. Sound(g)
  BY <1>1, <1>2, <1>3 DEF Sound
<1>5. Vetted(g)
  BY <1>1 DEF Vetted
<1>6. Keeps(g, f)
  BY <1>1, <1>3, NoneAssumption, KeepsItself DEF Keeps, Sound
<1> QED
  BY <1>4, <1>5, <1>6 DEF g

LEMMA PacketIsSound ==
  ASSUME NEW f, Sound(f), Vetted(f), f.systems = {},
         \A s \in Sources : None \in {Demo.sources[s], f.sources[s]}
  PROVE  LET g == [Demo EXCEPT
                     !.evidence = @ \cup f.evidence,
                     !.sources = [s \in Sources |-> IF @[s] = None THEN f.sources[s] ELSE @[s]],
                     !.flags = f.flags, !.resolved = f.resolved]
         IN  Sound(g) /\ Vetted(g) /\ Keeps(g, f)
<1> DEFINE both ==
             [s \in Sources |-> IF Demo.sources[s] = None THEN f.sources[s] ELSE Demo.sources[s]]
           g == [Demo EXCEPT !.evidence = @ \cup f.evidence,
                   !.sources = [s \in Sources |-> IF @[s] = None THEN f.sources[s] ELSE @[s]],
                   !.flags = f.flags, !.resolved = f.resolved]
<1>1. Sound(Demo) /\ \A e \in Demo.evidence : Classified(Evidence[e])
  BY DemoAssumption
<1>2. /\ g = Tables(g) /\ g.sources = both
      /\ g.systems = Demo.systems /\ g.flags = f.flags /\ g.resolved = f.resolved
      /\ g.evidence = Demo.evidence \cup f.evidence
      /\ g.assertions = Demo.assertions /\ g.observations = Demo.observations
      /\ g.events = Demo.events
  <2>1. PICK h : h = With(Demo, "evidence", Demo.evidence \cup f.evidence)
    OBVIOUS
  <2>2. h = Tables(h) /\ h.evidence = Demo.evidence \cup f.evidence
        /\ \A z \in Fields \ {"evidence"} : h[z] = Demo[z]
    BY <1>1, <2>1, OneTable DEF Fields, Sound
  <2>3. PICK k : k = With(h, "sources", both)
    OBVIOUS
  <2>4. PICK l : l = With(k, "flags", f.flags)
    OBVIOUS
  <2>5. k = Tables(k) /\ k.sources = both /\ \A z \in Fields \ {"sources"} : k[z] = h[z]
    BY <2>2, <2>3, OneTable DEF Fields
  <2>6. l = Tables(l) /\ l.flags = f.flags /\ \A z \in Fields \ {"flags"} : l[z] = k[z]
    BY <2>4, <2>5, OneTable DEF Fields
  <2>7. g = With(l, "resolved", f.resolved)
    BY <2>1, <2>2, <2>3, <2>4, <2>5, <2>6 DEF Fields, With
  <2> HIDE DEF g, both
  <2>8. g = Tables(g) /\ g.resolved = f.resolved /\ \A z \in Fields \ {"resolved"} : g[z] = l[z]
    BY <2>6, <2>7, OneTable DEF Fields
  <2> QED
    BY <2>2, <2>5, <2>6, <2>8 DEF Fields
<1> HIDE DEF g
<1>3. both \in [Sources -> Forms \cup {None}]
  BY <1>1 DEF Sound
<1>4. \A e \in g.evidence : e \in Cards /\ Evidence[e].source \in Sources
  BY <1>1, <1>2, CardsAssumption DEF Sound, EvidenceItem
<1>5. \A e \in g.evidence : both[Evidence[e].source] # None
  BY <1>1, <1>2, <1>4 DEF Sound
<1>6. \A e \in g.evidence : Evidence[e].parent \in g.evidence \cup {None}
  BY <1>1, <1>2 DEF Sound
<1> HIDE DEF both
<1>7. Sound(g)
  <2>1. g.evidence \subseteq {e \in Cards : g.sources[Evidence[e].source] # None
                                             /\ Evidence[e].parent \in g.evidence \cup {None}}
    BY <1>2, <1>4, <1>5, <1>6
  <2> QED
    BY <1>1, <1>2, <1>3, <2>1 DEF Sound
<1>8. Vetted(g)
  BY <1>1, <1>2, PacketInOrder, DemoAssumption DEF Vetted
<1>9. Keeps(g, f)
  <2>1. f.observations = {}
    BY DEF Sound
  <2>2. Rows(f.assertions) = {} /\ Rows(f.events) = {}
    BY DEF Sound
  <2>3. \A s \in Sources : f.sources[s] # None => g.sources[s] # None
    BY <1>2 DEF both
  <2>4. Continues(g.assertions, f.assertions) /\ Continues(g.events, f.events)
    <3>1. \A seq : Rows(seq) = {} => DOMAIN seq = {}
      <4> SUFFICES ASSUME NEW seq, NEW i \in DOMAIN seq PROVE Rows(seq) # {}
        OBVIOUS
      <4>1. seq[i] \in Rows(seq)
        BY DEF Rows
      <4> QED
        BY <4>1
    <3> QED
      BY <2>2, <3>1 DEF Continues
  <2> QED
    BY <1>2, <2>1, <2>3, <2>4 DEF Keeps
<1> QED
  BY <1>7, <1>8, <1>9 DEF g

-----------------------------------------------------------------------------
(* The transactions *)

LEMMA UnchangedFactsKeep ==
  ASSUME FactInv, UNCHANGED <<factVars, countVars>>
  PROVE  FactInv'
BY DEF FactInv, factVars, countVars

LEMMA OpenKeeps ==
  ASSUME FactInv, NEW p \in Processes, Open(p)
  PROVE  FactInv'
<1>1. /\ copy' = [copy EXCEPT ![p] = ledger] /\ p \notin open
      /\ open' = open \cup {p} /\ newest' = newest \cup {p}
      /\ transactions < MaxTransactions /\ transactions' = transactions + 1
      /\ UNCHANGED <<ledger, holder, written>>
  BY DEF Open
<1> SUFFICES
      /\ copy' = [q \in Processes |-> copy'[q]]
      /\ \A q \in Processes : Sound(copy'[q]) /\ Vetted(copy'[q])
      /\ \A q \in newest' : (holder # q => copy'[q] = ledger) /\ Keeps(copy'[q], ledger)
      /\ transactions' \in 0 .. MaxTransactions
  BY <1>1 DEF FactInv
<1>2. copy'[p] = ledger /\ \A q \in Processes \ {p} : copy'[q] = copy[q]
  BY <1>1 DEF FactInv
<1>3. transactions' \in 0 .. MaxTransactions
  BY <1>1, LedgerBounds DEF FactInv
<1> QED
  BY <1>1, <1>2, <1>3, KeepsItself DEF FactInv

\* A write inside a transaction, once what is written is sound.
LEMMA WriteKeeps ==
  ASSUME FactInv, NEW p \in Processes, NEW facts, Sound(facts), Vetted(facts),
         Keeps(facts, copy[p]), Write(p, facts)
  PROVE  FactInv'
<1>1. /\ copy' = [copy EXCEPT ![p] = facts] /\ p \in newest
      /\ holder \in {None, p} /\ holder' = p
      /\ written < MaxRows /\ written' = written + 1
      /\ UNCHANGED <<ledger, open, newest, transactions>>
  BY DEF Write
<1>2. copy'[p] = facts /\ \A q \in Processes \ {p} : copy'[q] = copy[q]
  BY <1>1 DEF FactInv
<1>3. copy' = [q \in Processes |-> copy'[q]]
  BY <1>1 DEF FactInv
<1>4. \A q \in Processes : Sound(copy'[q]) /\ Vetted(copy'[q])
  BY <1>2 DEF FactInv
<1>5. \A q \in newest : p # q => copy'[q] = ledger
  <2> SUFFICES ASSUME NEW q \in newest, p # q PROVE copy'[q] = ledger
    OBVIOUS
  <2>1. q \in Processes /\ holder # q
    BY <1>1, NoneAssumption DEF FactInv
  <2> QED
    BY <1>2, <2>1 DEF FactInv
<1>6. written' \in 0 .. MaxRows
  BY <1>1, LedgerBounds DEF FactInv
<1>7. \A q \in newest : Keeps(copy'[q], ledger)
  <2> SUFFICES ASSUME NEW q \in newest PROVE Keeps(copy'[q], ledger)
    OBVIOUS
  <2>1. Keeps(copy[q], ledger) /\ q \in Processes
    BY DEF FactInv
  <2>2. CASE q = p
    BY <1>2, <2>1, <2>2, KeepsIsTransitive
  <2>3. CASE q # p
    BY <1>2, <2>1, <2>3
  <2> QED
    BY <2>2, <2>3
<1> QED
  BY <1>1, <1>3, <1>4, <1>5, <1>6, <1>7 DEF FactInv

LEMMA RecordKeeps ==
  ASSUME FactInv, NEW p \in Processes, Record(p)
  PROVE  FactInv'
<1>1. Sound(copy[p]) /\ Vetted(copy[p])
  BY DEF FactInv
<1>2. CASE \E e \in Cards : AddEvidence(p, e)
  <2> PICK e \in Cards : AddEvidence(p, e)
    BY <1>2
  <2> QED
    BY <1>1, EvidenceIsSound, WriteKeeps DEF AddEvidence
<1>3. CASE \E a \in Claims : AddAssertion(p, a)
  <2> PICK a \in Claims : AddAssertion(p, a)
    BY <1>3
  <2> QED
    BY <1>1, AssertionIsSound, WriteKeeps DEF AddAssertion
<1>4. CASE \E o \in Sightings : AddObservation(p, o)
  <2> PICK o \in Sightings : AddObservation(p, o)
    BY <1>4
  <2> QED
    BY <1>1, ObservationIsSound, WriteKeeps DEF AddObservation
<1>5. CASE \E v \in Announcements : AppendEvent(p, v)
  <2> PICK v \in Announcements : AppendEvent(p, v)
    BY <1>5
  <2> QED
    BY <1>1, EventIsSound, WriteKeeps DEF AppendEvent
<1>6. CASE FlagContradictions(p)
  <2> DEFINE found == Flagged(copy[p].assertions)
  <2>1. Write(p, [copy[p] EXCEPT !.flags = @ \cup found])
    BY <1>6 DEF FlagContradictions
  <2>2. \A x \in found, y \in copy[p].flags : x.id # y.id
    BY <1>6 DEF FlagContradictions
  <2>3. Keyed(found)
    BY <1>1, FlaggedIsKeyed DEF Sound
  <2> HIDE DEF found
  <2> QED
    BY <1>1, <2>1, <2>2, <2>3, FlagsAreSound, WriteKeeps
<1>7. CASE p \in open /\ \E f \in copy[p].flags : AddResolution(p, f)
  <2> PICK f \in copy[p].flags : AddResolution(p, f)
    BY <1>7
  <2> QED
    BY <1>1, ResolutionIsSound, WriteKeeps DEF AddResolution
<1> QED
  BY <1>2, <1>3, <1>4, <1>5, <1>6, <1>7 DEF Record

\* The end of a transaction leaves a sound copy, and nobody without the lock holding it.
LEMMA ClosedKeeps ==
  ASSUME FactInv, NEW p \in Processes, Closed(p)
  PROVE  /\ copy' = [q \in Processes |-> copy'[q]]
         /\ \A q \in Processes : Sound(copy'[q]) /\ Vetted(copy'[q])
         /\ \A q \in Processes \ {p} : copy'[q] = copy[q]
         /\ open' = open \ {p} /\ holder' # p
         /\ holder' = IF holder = p THEN None ELSE holder
<1>1. copy' = [copy EXCEPT ![p] = Nothing] /\ open' = open \ {p}
      /\ holder' = IF holder = p THEN None ELSE holder
  BY DEF Closed
<1>2. copy'[p] = Nothing /\ \A q \in Processes \ {p} : copy'[q] = copy[q]
  BY <1>1 DEF FactInv
<1>3. copy' = [q \in Processes |-> copy'[q]]
  BY <1>1 DEF FactInv
<1>4. \A q \in Processes : Sound(copy'[q]) /\ Vetted(copy'[q])
  BY <1>2, NothingIsSound DEF FactInv
<1>5. holder' # p
  BY <1>1, NoneAssumption
<1> QED
  BY <1>1, <1>2, <1>3, <1>4, <1>5

\* Undone: the ledger is as it was.
LEMMA UndoneKeeps ==
  ASSUME FactInv, NEW p \in Processes, Closed(p), newest' = newest \ {p},
         UNCHANGED <<ledger, countVars>>
  PROVE  FactInv'
<1>1. \A q \in newest' : (holder' # q => copy'[q] = ledger) /\ Keeps(copy'[q], ledger)
  <2> SUFFICES ASSUME NEW q \in newest'
               PROVE  (holder' # q => copy'[q] = ledger) /\ Keeps(copy'[q], ledger)
    OBVIOUS
  <2>1. q \in newest /\ q \in Processes /\ q # p /\ (holder' # q => holder # q)
    BY ClosedKeeps DEF FactInv
  <2> QED
    BY <2>1, ClosedKeeps DEF FactInv
<1>2. newest' \subseteq open' /\ open' \subseteq Processes /\ holder' \in newest' \cup {None}
  BY ClosedKeeps DEF FactInv
<1> QED
  BY <1>1, <1>2, ClosedKeeps DEF FactInv, countVars

LEMMA CommitKeeps ==
  ASSUME FactInv, NEW p \in Processes, Commit(p)
  PROVE  FactInv'
<1>1. CASE holder = p
  <2>1. ledger' = copy[p] /\ newest' = {} /\ Closed(p) /\ UNCHANGED countVars
    BY <1>1 DEF Commit
  <2>2. open' \subseteq Processes /\ holder' \in newest' \cup {None}
    BY <1>1, <2>1, ClosedKeeps DEF FactInv
  <2>3. Sound(copy[p]) /\ Vetted(copy[p])
    BY DEF FactInv
  <2> QED
    BY <2>1, <2>2, <2>3, ClosedKeeps DEF FactInv, countVars
<1>2. CASE holder # p
  BY <1>2, UndoneKeeps DEF Commit
<1> QED
  BY <1>1, <1>2

\* A commit outside the transactions that are open overtakes them all.
LEMMA OvertakingKeeps ==
  ASSUME FactInv, NEW p \in Processes, p \notin open, holder = None, Overtake(p),
         Sound(ledger'), Vetted(ledger'), UNCHANGED <<open, copy, holder, written>>,
         transactions' \in 0 .. MaxTransactions
  PROVE  FactInv'
<1>1. newest' = {}
  BY DEF Overtake, FactInv
<1> QED
  BY <1>1 DEF FactInv

LEMMA SyncSourceKeeps ==
  ASSUME FactInv, NEW p \in Processes, NEW s \in Sources, SyncSource(p, s)
  PROVE  FactInv'
<1>1. PICK form \in Forms : ledger' = [ledger EXCEPT !.sources[s] = form]
  BY DEF SyncSource
<1>2. Sound(ledger') /\ Vetted(ledger')
  BY <1>1, SyncedIsSound DEF FactInv
<1>3. transactions' \in 0 .. MaxTransactions
  BY LedgerBounds DEF SyncSource, FactInv
<1> QED
  BY <1>2, <1>3, OvertakingKeeps DEF SyncSource

LEMMA LoadDemoKeeps ==
  ASSUME FactInv, NEW p \in Processes, LoadDemo(p)
  PROVE  FactInv'
<1>1. p \notin open /\ holder = None /\ UNCHANGED <<open, copy, holder, countVars>>
  BY DEF LoadDemo
<1>2. CASE UNCHANGED <<ledger, newest>>
  BY <1>1, <1>2, UnchangedFactsKeep DEF factVars
<1>3. CASE ~UNCHANGED <<ledger, newest>>
  <2>1. /\ ledger.systems = {}
        /\ \A s \in Sources : None \in {Demo.sources[s], ledger.sources[s]}
        /\ ledger' = [Demo EXCEPT
             !.evidence = @ \cup ledger.evidence,
             !.sources = [s \in Sources |-> IF @[s] = None THEN ledger.sources[s] ELSE @[s]],
             !.flags = ledger.flags, !.resolved = ledger.resolved]
        /\ Overtake(p)
    BY <1>3 DEF LoadDemo
  <2>2. Sound(ledger') /\ Vetted(ledger')
    BY <2>1, PacketIsSound DEF FactInv
  <2> QED
    BY <1>1, <2>1, <2>2, OvertakingKeeps DEF FactInv, countVars
<1> QED
  BY <1>2, <1>3

\* Only a migration and the metadata commit anything during a start.
LEMMA BootKeeps ==
  ASSUME FactInv, NEW p \in Processes, Boot(p)
  PROVE  FactInv'
<1>1. UNCHANGED <<ledger, open, copy, holder, countVars>>
  BY DEF Boot
<1>2. CASE UNCHANGED newest
  BY <1>1, <1>2, UnchangedFactsKeep DEF factVars
<1>3. CASE ~UNCHANGED newest
  <2>1. Overtake(p) /\ ~UNCHANGED <<applied, taxonomies, methods>>
    BY <1>3 DEF Boot
  <2>2. pc[p] \in {"migrate", "seed"}
    BY <2>1 DEF Boot, Booting, Start, InstallSchema, Select, Migrate, Seed, databaseVars
  <2>3. holder = None /\ newest' \subseteq newest
    BY <2>1, <2>2 DEF Boot, Overtake
  <2> QED
    BY <1>1, <2>3 DEF FactInv, countVars
<1> QED
  BY <1>2, <1>3
-----------------------------------------------------------------------------
LEMMA StartupStep ==
  ASSUME StartupInv, [LedgerNext]_ledgerVars
  PROVE  StartupInv'
<1>1. CASE UNCHANGED startupVars
  BY <1>1
  DEF startupVars, databaseVars, processVars, StartupInv, StartupTypeOK, MigrationsRunOnce,
      OneLineage, Prefixes
<1>2. ASSUME NEW p \in Processes, Boot(p)
      PROVE  StartupInv'
  BY <1>2, StartKeeps, InstallSchemaKeeps, SelectKeeps, MigrateKeeps, SeedKeeps DEF Boot, Booting
<1>3. ASSUME NEW p \in Processes, LockedOut(p) \/ Finish(p)
      PROVE  StartupInv'
  BY <1>3, EndKeeps
  DEF LockedOut, Finish, Leave, databaseVars, StartupInv, StartupTypeOK, OneLineage
<1>4. ASSUME NEW p \in Processes, Killed(p)
      PROVE  StartupInv'
  BY <1>4, KillKeeps DEF Killed
<1>5. ASSUME NEW p \in Processes, Open(p) \/ Commit(p) \/ Abort(p)
      PROVE  UNCHANGED startupVars
  BY <1>5 DEF Open, Commit, Abort
<1>6. ASSUME NEW p \in Processes, Record(p)
      PROVE  UNCHANGED startupVars
  BY <1>6
  DEF Record, AddEvidence, AddAssertion, AddObservation, AppendEvent, FlagContradictions,
      AddResolution, Write
<1>7. ASSUME NEW p \in Processes, NEW s \in Sources, SyncSource(p, s)
      PROVE  UNCHANGED startupVars
  BY <1>7 DEF SyncSource
<1>8. CASE Replace
  BY <1>8, DeployKeeps DEF Replace
<1>9. CASE UNCHANGED ledgerVars
  BY <1>1, <1>9 DEF ledgerVars
<1> QED
  BY <1>1, <1>2, <1>3, <1>4, <1>5, <1>6, <1>7, <1>8, <1>9, LoadDemoKeepsStartup DEF LedgerNext

LEMMA FactStep ==
  ASSUME FactInv, [LedgerNext]_ledgerVars
  PROVE  FactInv'
<1>1. CASE Replace
  BY <1>1, UnchangedFactsKeep DEF Replace
<1>2. ASSUME NEW p \in Processes, LockedOut(p) \/ Finish(p)
      PROVE  FactInv'
  BY <1>2, UnchangedFactsKeep DEF LockedOut, Finish
<1>3. ASSUME NEW p \in Processes, Killed(p) \/ Abort(p)
      PROVE  FactInv'
  BY <1>3, UndoneKeeps DEF Killed, Abort
<1>4. CASE UNCHANGED ledgerVars
  BY <1>4, UnchangedFactsKeep DEF ledgerVars
<1> QED
  BY <1>1, <1>2, <1>3, <1>4, BootKeeps, OpenKeeps, RecordKeeps, CommitKeeps, LoadDemoKeeps,
     SyncSourceKeeps DEF LedgerNext

LEMMA LedgerStarts ==
  ASSUME LedgerInit
  PROVE  StartupInv /\ FactInv
<1>1. StartupTypeOK /\ MigrationsRunOnce /\ OneLineage
  <2> USE DEF LedgerInit, StartupInit
  <2>1. StartupTypeOK
    <3>1. ran \in [Versions -> Nat] /\ glob \in [Processes -> Nat]
          /\ next \in [Processes -> Nat \ {0}]
      OBVIOUS
    <3>2. pc \in [Processes -> {"down", "schema", "select", "migrate", "seed", "up"}]
      OBVIOUS
    <3>3. \A p \in Processes : pc[p] # "migrate"
      OBVIOUS
    <3>4. deploys \in 0 .. MaxDeploys /\ kills \in 0 .. MaxKills
      BY StartupBounds
    <3>5. release \in Releases /\ file \in BOOLEAN /\ applied = {} /\ taxonomies = {}
          /\ methods = {}
      OBVIOUS
    <3> HIDE DEF LedgerInit, StartupInit
    <3> QED
      BY <3>1, <3>2, <3>3, <3>4, <3>5 DEF StartupTypeOK
  <2>2. applied = 1 .. 0
    OBVIOUS
  <2>3. MigrationsRunOnce
    BY <2>2 DEF MigrationsRunOnce
  <2> QED
    BY <2>1, <2>3 DEF OneLineage
<1>2. Prefixes
  BY DEF LedgerInit, StartupInit, Prefixes
<1>3. FactInv
  BY NothingIsSound, LedgerBounds DEF LedgerInit, FactInv
<1> QED
  BY <1>1, <1>2, <1>3 DEF StartupInv

LEMMA Inductive == LedgerSpec => [](StartupInv /\ FactInv)
<1>1. LedgerInit => StartupInv /\ FactInv
  BY LedgerStarts
<1>2. StartupInv /\ FactInv /\ [LedgerNext]_ledgerVars => (StartupInv /\ FactInv)'
  BY StartupStep, FactStep
<1> QED
  BY <1>1, <1>2, PTL DEF LedgerSpec

\* The types, the soundness of every table and copy, and SQLite's promise to a writer.
THEOREM LedgerIsSound == LedgerSpec => []LedgerTypeOK
<1>1. StartupInv /\ FactInv => LedgerTypeOK
  BY DEF StartupInv, FactInv, LedgerTypeOK
<1> QED
  BY <1>1, Inductive, PTL

\* Database.initialize: however many processes start at once, a migration is committed once
\* and in order.
THEOREM MigrationsAreSafe == LedgerSpec => []MigrationsRunOnce
<1>1. StartupInv /\ FactInv => MigrationsRunOnce
  BY DEF StartupInv
<1> QED
  BY <1>1, Inductive, PTL

\* _apply_authoritative_metadata: releases never mix in one ledger.
THEOREM LineageIsWhole == LedgerSpec => []OneLineage
<1>1. StartupInv /\ FactInv => OneLineage
  BY DEF StartupInv
<1> QED
  BY <1>1, Inductive, PTL

\* LifecycleRepository.append: an order of every two events is kept by comparing neighbours,
\* because the history a writer compares with is the ledger's, which nobody overtakes.
THEOREM AvailabilityIsForward == LedgerSpec => []AvailabilityMovesForward
<1>1. ASSUME FactInv
      PROVE  AvailabilityMovesForward
  <2> SUFFICES ASSUME NEW x \in Demo.systems, NEW h, h = History(ledger.events, x)
               PROVE  /\ \A i, j \in DOMAIN h : i < j =>
                           /\ h[i].retrieved <= h[j].retrieved
                           /\ h[i].state # "DEPRECATED"
                           /\ h[i].state = h[j].state => h[i].state = "UNKNOWN"
                      /\ HasVelocity(h) =>
                           Dated(h, {"GA"}) = {LastGa(h)} /\ FirstPreview(h) < LastGa(h)
    BY DEF AvailabilityMovesForward
  <2>1. Chronological(h)
    BY <1>1 DEF FactInv, Vetted, InOrder
  <2>2. ledger.events \in Seq(Announcements)
    BY <1>1 DEF FactInv, Sound
  <2>3. Len(ledger.events) \in Nat /\ DOMAIN h \subseteq 1 .. Len(ledger.events)
    BY <2>2 DEF History
  <2>4. HasVelocity(h) => Dated(h, {"GA"}) = {LastGa(h)} /\ FirstPreview(h) < LastGa(h)
    BY <2>1, <2>3, VelocityIsPositive
  <2> QED
    BY <2>1, <2>4 DEF Chronological, Succeeds
<1> QED
  BY <1>1, Inductive, PTL

\* A commit is of a transaction that nobody has overtaken, and init-db fills an empty ledger.
LEMMA StepKeeps ==
  ASSUME FactInv, [LedgerNext]_ledgerVars
  PROVE  Keeps(ledger', ledger)
<1>1. CASE UNCHANGED ledger
  BY <1>1, KeepsItself
<1>2. ASSUME NEW p \in Processes, Commit(p)
      PROVE  Keeps(ledger', ledger)
  <2>1. CASE holder = p
    <3>1. p \in newest
      BY <2>1, NoneAssumption DEF FactInv
    <3> QED
      BY <1>2, <2>1, <3>1 DEF Commit, FactInv
  <2> QED
    BY <1>1, <1>2, <2>1 DEF Commit
<1>3. ASSUME NEW p \in Processes, LoadDemo(p)
      PROVE  Keeps(ledger', ledger)
  <2>1. CASE ~UNCHANGED ledger
    <3>1. /\ ledger.systems = {}
          /\ \A s \in Sources : None \in {Demo.sources[s], ledger.sources[s]}
          /\ ledger' = [Demo EXCEPT
               !.evidence = @ \cup ledger.evidence,
               !.sources = [s \in Sources |-> IF @[s] = None THEN ledger.sources[s] ELSE @[s]],
               !.flags = ledger.flags, !.resolved = ledger.resolved]
      BY <1>3, <2>1 DEF LoadDemo
    <3> QED
      BY <3>1, PacketIsSound DEF FactInv
  <2> QED
    BY <1>1, <2>1
<1>4. ASSUME NEW p \in Processes, NEW s \in Sources, SyncSource(p, s)
      PROVE  Keeps(ledger', ledger)
  <2>1. PICK form \in Forms : ledger' = [ledger EXCEPT !.sources[s] = form]
    BY <1>4 DEF SyncSource
  <2> QED
    BY <2>1, SyncedIsSound DEF FactInv
<1>5. ASSUME NEW p \in Processes,
             Boot(p) \/ LockedOut(p) \/ Finish(p) \/ Killed(p) \/ Open(p) \/ Abort(p)
      PROVE  UNCHANGED ledger
  BY <1>5 DEF Boot, LockedOut, Finish, Killed, Open, Abort, factVars
<1>6. ASSUME NEW p \in Processes, Record(p)
      PROVE  UNCHANGED ledger
  BY <1>6
  DEF Record, AddEvidence, AddAssertion, AddObservation, AppendEvent, FlagContradictions,
      AddResolution, Write
<1>7. Replace \/ UNCHANGED ledgerVars => UNCHANGED ledger
  BY DEF Replace, ledgerVars, factVars
<1> QED
  BY <1>1, <1>2, <1>3, <1>4, <1>5, <1>6, <1>7 DEF LedgerNext

\* SQLite's promise to a writer is enough for no update to be lost.
THEOREM UpdatesAreKept == LedgerSpec => NothingIsLost
<1>1. FactInv /\ [LedgerNext]_ledgerVars => Keeps(ledger', ledger)
  BY StepKeeps
<1> QED
  BY <1>1, Inductive, PTL DEF LedgerSpec, NothingIsLost

-----------------------------------------------------------------------------
(* The refinement of SerialLedger *)

Draft == IF holder = None THEN ledger ELSE copy[holder]

LEMMA DraftStands ==
  ASSUME UNCHANGED <<ledger, holder>>, holder # None => copy'[holder] = copy[holder]
  PROVE  UNCHANGED <<ledger, Draft>>
BY DEF Draft

\* Who may write sees the draft.
LEMMA WriteIsCall ==
  ASSUME FactInv, NEW p \in Processes, NEW rows, Write(p, rows),
         Recorded(taxonomies, copy[p], rows)
  PROVE  Serial!Call
<1>1. p \in newest /\ holder \in {None, p} /\ holder' = p /\ UNCHANGED ledger
      /\ copy' = [copy EXCEPT ![p] = rows] /\ p # None
  BY NoneAssumption DEF Write
<1>2. Draft = copy[p]
  BY <1>1 DEF Draft, FactInv
<1>3. copy'[p] = rows
  BY <1>1 DEF FactInv
<1>4. Draft' = rows
  BY <1>1, <1>3 DEF Draft
<1> QED
  BY <1>1, <1>2, <1>4 DEF Serial!Call, Draft

LEMMA RecordIsCall ==
  ASSUME FactInv, NEW p \in Processes, Record(p)
  PROVE  Serial!Call
<1>1. ASSUME NEW e \in Cards, AddEvidence(p, e)
      PROVE  Serial!Call
  <2>1. Recorded(taxonomies, copy[p], [copy[p] EXCEPT !.evidence = @ \cup {e}])
    BY <1>1 DEF AddEvidence, Recorded
  <2> QED
    BY <1>1, <2>1, WriteIsCall DEF AddEvidence
<1>2. ASSUME NEW a \in Claims, AddAssertion(p, a)
      PROVE  Serial!Call
  <2>1. Recorded(taxonomies, copy[p], [copy[p] EXCEPT !.assertions = Append(@, a)])
    BY <1>2 DEF AddAssertion, Recorded
  <2> QED
    BY <1>2, <2>1, WriteIsCall DEF AddAssertion
<1>3. ASSUME NEW o \in Sightings, AddObservation(p, o)
      PROVE  Serial!Call
  <2>1. Recorded(taxonomies, copy[p], [copy[p] EXCEPT !.observations = @ \cup {o}])
    BY <1>3 DEF AddObservation, Recorded
  <2> QED
    BY <1>3, <2>1, WriteIsCall DEF AddObservation
<1>4. ASSUME NEW v \in Announcements, AppendEvent(p, v)
      PROVE  Serial!Call
  <2>1. Recorded(taxonomies, copy[p], [copy[p] EXCEPT !.events = Append(@, v)])
    BY <1>4 DEF AppendEvent, Recorded
  <2> QED
    BY <1>4, <2>1, WriteIsCall DEF AppendEvent
<1>5. CASE FlagContradictions(p)
  <2>1. Recorded(taxonomies, copy[p],
                 [copy[p] EXCEPT !.flags = @ \cup Flagged(copy[p].assertions)])
    BY <1>5 DEF FlagContradictions, Recorded
  <2> QED
    BY <1>5, <2>1, WriteIsCall DEF FlagContradictions
<1>6. ASSUME NEW f \in copy[p].flags, AddResolution(p, f)
      PROVE  Serial!Call
  <2>1. Recorded(taxonomies, copy[p],
                 [copy[p] EXCEPT !.flags = (@ \ {f}) \cup {[f EXCEPT !.status = "CONFIRMED"]},
                                 !.resolved = @ \cup {f.id}])
    BY DEF Recorded
  <2> QED
    BY <1>6, <2>1, WriteIsCall DEF AddResolution
<1> QED
  BY <1>1, <1>2, <1>3, <1>4, <1>5, <1>6 DEF Record

\* The end of a transaction that has not written leaves the draft.
LEMMA ReaderLeaves ==
  ASSUME FactInv, NEW p \in Processes, Closed(p), holder # p, UNCHANGED ledger
  PROVE  UNCHANGED <<ledger, Draft>>
<1>1. UNCHANGED holder
  BY ClosedKeeps
<1>2. holder # None => copy'[holder] = copy[holder]
  BY ClosedKeeps DEF FactInv
<1> QED
  BY <1>1, <1>2, DraftStands

LEMMA CommitIsCommit ==
  ASSUME FactInv, NEW p \in Processes, Commit(p)
  PROVE  Serial!Commit \/ UNCHANGED <<ledger, Draft>>
<1>1. CASE holder = p
  <2>1. ledger' = copy[p] /\ holder' = None /\ p # None
    BY <1>1, NoneAssumption DEF Commit, Closed
  <2> QED
    BY <1>1, <2>1 DEF Serial!Commit
<1>2. CASE holder # p
  BY <1>2, ReaderLeaves DEF Commit
<1> QED
  BY <1>1, <1>2

LEMMA UndoneIsRollback ==
  ASSUME FactInv, NEW p \in Processes, Closed(p), UNCHANGED ledger
  PROVE  Serial!Rollback \/ UNCHANGED <<ledger, Draft>>
<1>1. CASE holder = p
  <2>1. holder' = None
    BY <1>1 DEF Closed
  <2> QED
    BY <2>1 DEF Serial!Rollback
<1>2. CASE holder # p
  BY <1>2, ReaderLeaves
<1> QED
  BY <1>1, <1>2

LEMMA ImportIsImport ==
  ASSUME holder = None, UNCHANGED holder, Imported(ledger, ledger')
  PROVE  Serial!Import
BY DEF Serial!Import

LEMMA SerialStep ==
  ASSUME FactInv, [LedgerNext]_ledgerVars
  PROVE  Serial!Next \/ UNCHANGED <<ledger, Draft>>
<1>1. CASE UNCHANGED <<ledger, copy, holder>>
  BY <1>1, DraftStands
<1>2. ASSUME NEW p \in Processes, Open(p)
      PROVE  UNCHANGED <<ledger, Draft>>
  <2>1. UNCHANGED <<ledger, holder>> /\ copy' = [copy EXCEPT ![p] = ledger] /\ p \notin open
    BY <1>2 DEF Open
  <2>2. holder # None => holder \in Processes /\ holder # p
    BY <2>1 DEF FactInv
  <2>3. holder # None => copy'[holder] = copy[holder]
    BY <2>1, <2>2 DEF FactInv
  <2> QED
    BY <2>1, <2>3, DraftStands
<1>3. ASSUME NEW p \in Processes, LoadDemo(p)
      PROVE  Serial!Import \/ UNCHANGED <<ledger, copy, holder>>
  <2>1. CASE UNCHANGED ledger
    BY <1>3, <2>1 DEF LoadDemo
  <2>2. CASE ~UNCHANGED ledger
    <3>1. Imported(ledger, ledger')
      BY <1>3, <2>2 DEF LoadDemo, Imported
    <3> QED
      BY <1>3, <3>1, ImportIsImport DEF LoadDemo
  <2> QED
    BY <2>1, <2>2
<1>4. ASSUME NEW p \in Processes, NEW s \in Sources, SyncSource(p, s)
      PROVE  Serial!Import
  <2>1. Imported(ledger, ledger')
    BY <1>4 DEF SyncSource, Imported
  <2> QED
    BY <1>4, <2>1, ImportIsImport DEF SyncSource
<1>5. ASSUME NEW p \in Processes, Boot(p) \/ LockedOut(p) \/ Finish(p)
      PROVE  UNCHANGED <<ledger, copy, holder>>
  BY <1>5 DEF Boot, LockedOut, Finish, factVars
<1>6. ASSUME NEW p \in Processes, Killed(p) \/ Abort(p)
      PROVE  Serial!Rollback \/ UNCHANGED <<ledger, Draft>>
  BY <1>6, UndoneIsRollback DEF Killed, Abort
<1>7. Replace \/ UNCHANGED ledgerVars => UNCHANGED <<ledger, copy, holder>>
  BY DEF Replace, ledgerVars, factVars
<1> QED
  BY <1>1, <1>2, <1>3, <1>4, <1>5, <1>6, <1>7, RecordIsCall, CommitIsCommit
  DEF LedgerNext, Serial!Next

\* Snapshots, one write lock and the refusal of whoever was overtaken serialise the writers.
THEOREM TransactionsAreSerial == LedgerSpec => LooksSerial
<1>1. LedgerInit => Serial!Init
  BY DEF LedgerInit, Serial!Init
<1>2. FactInv /\ [LedgerNext]_ledgerVars => [Serial!Next]_<<ledger, Draft>>
  BY SerialStep
<1> QED
  BY <1>1, <1>2, Inductive, PTL DEF LedgerSpec, LooksSerial, Serial!Spec, Draft

-----------------------------------------------------------------------------
(* The scope of an assertion *)

LEMMA ObservedIsFinite ==
  ASSUME NEW S, IsFiniteSet(S), NEW a
  PROVE  IsFiniteSet({Sighting[o] : o \in {x \in S : Sighting[x].about = a}})
<1> DEFINE own == {x \in S : Sighting[x].about = a}
           said == {Sighting[o] : o \in own}
           say == [o \in own |-> Sighting[o]]
<1>1. IsFiniteSet(own)
  BY FS_Subset
<1>2. say \in Surjection(own, said)
  BY DEF Surjection
<1> HIDE DEF own, say
<1>3. IsFiniteSet(said)
  BY <1>1, <1>2, FS_Surjection
<1> QED
  BY <1>3 DEF own

\* derive_current_scope: the observations of an assertion are finitely many and only become
\* more, and of finitely many one is the latest.
THEOREM ScopesMoveForward == LedgerSpec => ScopeMovesForward
<1>1. ASSUME FactInv, FactInv', [LedgerNext]_ledgerVars, NEW a \in Claims, Observed(a) # {}
      PROVE  LET now == Observed(a)'
             IN  /\ now # {}
                 /\ \E o \in now : /\ o.scope = Current(now)
                                   /\ \A p \in Observed(a) : o.at >= p.at
  <2> DEFINE shown(facts) == {Sighting[o] : o \in {x \in facts.observations : Sighting[x].about = a}}
  <2>1. Observed(a) = shown(ledger) /\ Observed(a)' = shown(ledger')
    BY DEF Observed
  <2>2. Keeps(ledger', ledger)
    BY <1>1, StepKeeps
  <2>3. shown(ledger) \subseteq shown(ledger')
    BY <2>2 DEF Keeps
  <2>4. IsFiniteSet(shown(ledger'))
    BY <1>1, ObservedIsFinite DEF FactInv, Vetted
  <2>5. ledger'.observations \subseteq Sightings
    BY <1>1 DEF FactInv, Sound
  <2>6. \A o \in shown(ledger') : o.at \in Nat /\ o.id \in Nat
    BY <2>5, ClaimsAssumption DEF Observation
  <2>7. shown(ledger') # {}
    BY <1>1, <2>1, <2>3
  <2> HIDE DEF shown
  <2>8. PICK o \in shown(ledger') :
          o.scope = Current(shown(ledger')) /\ \A p \in shown(ledger') : Later(o, p)
    BY <2>4, <2>6, <2>7, CurrentIsLatest
  <2>9. \A p \in shown(ledger) : o.at >= p.at
    BY <2>3, <2>6, <2>8 DEF Later
  <2> QED
    BY <2>1, <2>7, <2>8, <2>9
<1>2. (StartupInv /\ FactInv) /\ (StartupInv /\ FactInv)' /\ [LedgerNext]_ledgerVars
        => [\A a \in Claims :
              LET before == Observed(a) now == Observed(a)'
              IN  before # {} => /\ now # {}
                                 /\ \E o \in now : /\ o.scope = Current(now)
                                                   /\ \A p \in before : o.at >= p.at]_ledgerVars
  BY <1>1
<1> QED
  BY <1>2, Inductive, PTL DEF LedgerSpec, ScopeMovesForward

\* The published panel: evidence from E3 up is not derived and not press, because whatever
\* is in the table was classified when it was added.
THEOREM ValidationsAreEarned == LedgerSpec => []ValidationIsEarned
<1>1. ASSUME FactInv
      PROVE  ValidationIsEarned
  <2> SUFFICES ASSUME NEW a \in Rows(ledger.assertions), Panel(Items(a)).validation = "HIGH"
               PROVE  \E e \in Claim[a].support :
                        /\ Evidence[e].parent = None /\ Evidence[e].class # "S1"
                        /\ ~ledger.sources[Evidence[e].source].self
    BY DEF ValidationIsEarned
  <2>1. PICK item \in Items(a) : Validated(item)
    BY DEF Panel
  <2>2. PICK e \in Kept(a) : item = Evidence[e]
    BY <2>1 DEF Items
  <2>3. e \in Claim[a].support /\ ~ledger.sources[Evidence[e].source].self
    BY <2>2 DEF Kept
  <2>4. Sound(ledger) /\ Vetted(ledger)
    BY <1>1 DEF FactInv
  <2>5. e \in ledger.evidence
    BY <2>3, <2>4 DEF Sound
  <2>6. Classified(Evidence[e]) /\ e \in Cards
    BY <2>4, <2>5 DEF Vetted, Sound
  <2>7. Evidence[e].maturity \in Nat /\ Evidence[e].maturity >= 3
    BY <2>1, <2>2, <2>6, CardsAssumption DEF Validated, EvidenceItem, Maturity
  <2>8. Evidence[e].parent = None /\ Evidence[e].class # "S1"
    BY <2>6, <2>7 DEF Classified
  <2> QED
    BY <2>3, <2>8
<1> QED
  BY <1>1, Inductive, PTL

\* contradiction_flags has a primary key, and add_conflict is given the flags of one run: they
\* differ from one another (FlagIdsDiffer) and from what is there, or nothing is stored.
THEOREM FlagsAreKeyed == LedgerSpec => []Keyed(ledger.flags)
<1>1. FactInv => Keyed(ledger.flags)
  BY DEF FactInv, Vetted
<1> QED
  BY <1>1, Inductive, PTL

\* When confidence has to be recomputed, it does not rise because nobody looked for longer; of
\* first-hand evidence only: press alone is LOW while fresh and MEDIUM after 30 days
\* (derivations.py:104).
ConfidenceDecays ==
  \A a \in Rows(ledger.assertions) :
    (Kept(a) # Claim[a].support /\ \E e \in Items(a) : Primary(e) \/ Secondary(e)) =>
      \A old, new \in Nat :
        new < old => Rank(Published(a, old)) <= Rank(Published(a, new))

\* What the site publishes after it has left evidence out (site_data.py:152).
THEOREM RecomputedConfidenceDecays == LedgerSpec => []ConfidenceDecays
<1>1. ConfidenceDecays
  <2> SUFFICES ASSUME NEW a \in Rows(ledger.assertions), Kept(a) # Claim[a].support,
                      \E e \in Items(a) : Primary(e) \/ Secondary(e),
                      NEW old \in Nat, NEW new \in Nat, new < old
               PROVE  Rank(Published(a, old)) <= Rank(Published(a, new))
    BY DEF ConfidenceDecays
  <2> DEFINE contested == Claim[a].contrary # {}
  <2>1. Published(a, old) = Support(Items(a), Freshness(old), contested)
        /\ Published(a, new) = Support(Items(a), Freshness(new), contested)
    BY DEF Published
  <2>2. contested \in BOOLEAN
    OBVIOUS
  <2> HIDE DEF contested
  <2> QED
    BY <2>1, <2>2, SupportDecays
<1> QED
  BY <1>1, PTL
=============================================================================
