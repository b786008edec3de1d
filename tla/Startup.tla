------------------------------ MODULE Startup ------------------------------
(***************************************************************************)
(* Processes that start on one SQLite file: the API and the worker         *)
(* (Database.initialize) and the operator's init-db, which also writes the *)
(* authoritative metadata (storage/initialization.py), while releases are  *)
(* deployed and processes are killed.                                      *)
(*                                                                         *)
(* A migration and its row are one transaction, but that it is missing is  *)
(* found out before it.  schema.sql is not a transaction: it consists of   *)
(* CREATE ... IF NOT EXISTS, and what a kill leaves out the next start     *)
(* adds.                                                                   *)
(***************************************************************************)
EXTENDS Integers, FiniteSets

CONSTANTS
  Processes,
  Operators,   \* those that run init-db; the others serve
  Releases,
  Shipped,     \* how many migrations a release has
  Lineage,     \* its taxonomy and the previous versions of it
  Method,      \* its methodology
  Taxonomies,
  Methods,
  MaxDeploys,  \* bound: releases deployed
  MaxKills     \* bound: kills

ASSUME ProcessesAssumption == Operators \subseteq Processes
ASSUME ReleasesAssumption ==
  /\ Releases # {}
  /\ Shipped \in [Releases -> Nat]
  /\ Lineage \in [Releases -> (SUBSET Taxonomies) \ {{}}]
  /\ Method \in [Releases -> Methods]
ASSUME StartupBounds == MaxDeploys \in Nat /\ MaxKills \in Nat

VARIABLES
  release,     \* the release whose files are on disk
  file,        \* the database file exists
  applied,     \* table schema_migrations
  ran,         \* history: how often each migration has been committed
  taxonomies,  \* table taxonomy_versions
  methods,     \* table methodology_versions
  pc,          \* where each process is
  glob,        \* the migrations it has listed
  next,        \* the one in hand
  deploys, kills

databaseVars == <<file, applied, ran, taxonomies, methods>>
processVars == <<pc, glob, next>>
startupVars == <<release, databaseVars, processVars, deploys, kills>>

Versions == UNION {1 .. Shipped[r] : r \in Releases}

StartupInit ==
  /\ release \in Releases
  /\ file = FALSE /\ applied = {} /\ ran = [v \in Versions |-> 0]
  /\ taxonomies = {} /\ methods = {}
  /\ pc = [p \in Processes |-> "down"]
  /\ glob = [p \in Processes |-> 0] /\ next = [p \in Processes |-> 1]
  /\ deploys = 0 /\ kills = 0

Goto(p, place) == pc' = [pc EXCEPT ![p] = place]

\* the process ends; what it had not committed is undone
End(p) ==
  /\ Goto(p, "down")
  /\ glob' = [glob EXCEPT ![p] = 0] /\ next' = [next EXCEPT ![p] = 1]

\* init-db creates the file by connecting to it; the others end if there is none
Start(p) ==
  /\ pc[p] = "down" /\ (file \/ p \in Operators)
  /\ file' = TRUE /\ Goto(p, "schema")
  /\ UNCHANGED <<release, applied, ran, taxonomies, methods, glob, next, deploys, kills>>

\* schema.sql and the table schema_migrations; then the list of migrations
InstallSchema(p) ==
  /\ pc[p] = "schema" /\ Goto(p, "select")
  /\ glob' = [glob EXCEPT ![p] = Shipped[release]]
  /\ UNCHANGED <<release, databaseVars, next, deploys, kills>>

\* the check for an applied migration is lost
MutantSelect(p) ==
  /\ pc[p] = "select"
  /\ Goto(p, IF next[p] <= glob[p] THEN "migrate" ELSE IF p \in Operators THEN "seed" ELSE "up")
  /\ UNCHANGED <<release, databaseVars, glob, next, deploys, kills>>

Select(p) ==
  /\ pc[p] = "select"
  /\ IF next[p] > glob[p]
       THEN Goto(p, IF p \in Operators THEN "seed" ELSE "up") /\ UNCHANGED next
     ELSE IF next[p] \in applied
       THEN next' = [next EXCEPT ![p] = @ + 1] /\ UNCHANGED pc
     ELSE Goto(p, "migrate") /\ UNCHANGED next
  /\ UNCHANGED <<release, databaseVars, glob, deploys, kills>>

\* a migration outside a transaction: its statements run before its row is refused
MutantMigrate(p) ==
  /\ pc[p] = "migrate"
  /\ ran' = [ran EXCEPT ![next[p]] = @ + 1]
  /\ IF next[p] \in applied
       THEN End(p) /\ UNCHANGED applied
       ELSE /\ applied' = applied \cup {next[p]}
            /\ next' = [next EXCEPT ![p] = @ + 1]
            /\ Goto(p, "select") /\ UNCHANGED glob
  /\ UNCHANGED <<release, file, taxonomies, methods, deploys, kills>>

\* BEGIN IMMEDIATE ... COMMIT; if another process was first, the row's key exists, the
\* transaction is rolled back and IntegrityError ends the process
Migrate(p) ==
  /\ pc[p] = "migrate"
  /\ IF next[p] \in applied
       THEN End(p) /\ UNCHANGED <<applied, ran>>
       ELSE /\ applied' = applied \cup {next[p]}
            /\ ran' = [ran EXCEPT ![next[p]] = @ + 1]
            /\ next' = [next EXCEPT ![p] = @ + 1]
            /\ Goto(p, "select") /\ UNCHANGED glob
  /\ UNCHANGED <<release, file, taxonomies, methods, deploys, kills>>

\* taxonomies of other releases are not noticed
MutantAccepted(r) == methods \subseteq {Method[r]}

\* _apply_authoritative_metadata finds nothing unexpected and no drift: the rows are whole
\* definitions of the release
Accepted(r) == taxonomies \subseteq Lineage[r] /\ methods \subseteq {Method[r]}

\* seed_authoritative_metadata inserts what is missing, in one transaction
Seeded(r) == taxonomies' = taxonomies \cup Lineage[r] /\ methods' = {Method[r]}

Seed(p) ==
  /\ pc[p] = "seed"
  /\ IF Accepted(release)
       THEN Seeded(release) /\ Goto(p, "up") /\ UNCHANGED <<glob, next>>
       ELSE End(p) /\ UNCHANGED <<taxonomies, methods>>
  /\ UNCHANGED <<release, file, applied, ran, deploys, kills>>

\* init-db is finished
Leave(p) ==
  /\ p \in Operators /\ pc[p] = "up" /\ End(p)
  /\ UNCHANGED <<release, databaseVars, deploys, kills>>

Kill(p) ==
  /\ kills < MaxKills /\ kills' = kills + 1
  /\ pc[p] # "down" /\ End(p)
  /\ UNCHANGED <<release, databaseVars, deploys>>

\* another release: a newer one, or an older one again
Deploy ==
  /\ deploys < MaxDeploys /\ deploys' = deploys + 1
  /\ release' \in Releases \ {release}
  /\ UNCHANGED <<databaseVars, processVars, kills>>

Booting(p) == Start(p) \/ InstallSchema(p) \/ Select(p) \/ Migrate(p) \/ Seed(p)
-----------------------------------------------------------------------------
StartupTypeOK ==
  /\ release \in Releases
  /\ file \in BOOLEAN /\ applied \subseteq Versions /\ ran \in [Versions -> Nat]
  /\ taxonomies \subseteq Taxonomies /\ methods \subseteq Methods
  /\ pc \in [Processes -> {"down", "schema", "select", "migrate", "seed", "up"}]
  /\ glob \in [Processes -> Nat] /\ next \in [Processes -> Nat \ {0}]
  /\ \A p \in Processes : pc[p] = "migrate" => next[p] \in Versions
  /\ deploys \in 0 .. MaxDeploys /\ kills \in 0 .. MaxKills

(* Whoever starts beside whom and is killed where, a migration is committed   *)
(* at most once and never before an earlier one: the applied versions are     *)
(* 1 .. n, each ran once (the SELECT of initialize is outside the             *)
(* transaction).                                                              *)
MigrationsRunOnce ==
  /\ \E n \in {0} \cup Versions : applied = 1 .. n
  /\ \A v \in Versions : ran[v] = IF v \in applied THEN 1 ELSE 0

(* The ledger never mixes releases: its metadata is that of one release,      *)
(* whole, or not there, although releases come and go between and during the  *)
(* starts (_apply_authoritative_metadata).                                    *)
OneLineage ==
  \/ taxonomies = {} /\ methods = {}
  \/ \E r \in Releases : taxonomies = Lineage[r] /\ methods = {Method[r]}

(* Once there is a ledger, every process that serves gets to serve: one that  *)
(* loses the race for a migration finds it applied when it is started again.  *)
StartsSucceed == \A p \in Processes \ Operators : file ~> pc[p] = "up"
=============================================================================
