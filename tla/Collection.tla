----------------------------- MODULE Collection -----------------------------
(***************************************************************************)
(* A collection job: LiveCollectionService.collect (collection/service.py) *)
(* retrieves the page of every configured source through one persistent    *)
(* cache (collection/base.py), then writes snapshot files and, in one      *)
(* SQLite transaction, the rows of sources and snapshots.                  *)
(*                                                                         *)
(* Only the worker that holds the pipeline lock collects, so there is one  *)
(* collector; the web, the operator, the clock and a kill come in between. *)
(* The rows of the open transaction are not seen by others and are gone    *)
(* when the process is: they are kept in tx until the commit.              *)
(***************************************************************************)
EXTENDS Retrieval, Sequences, FiniteSets

CONSTANTS
  Configured,    \* collection_source_ids, in order
  Bodies,        \* contents of pages
  ContentTypes,  \* allowed_content_types
  Texts,         \* what a page says once normalized
  Garbled,       \* what cannot be read: a body that is not UTF-8, a file written half-way
  TextOf,        \* decode and normalize a body
  Forms,         \* contents of a source's entry in sources.yaml
  Approved,      \* those that may be collected
  None,
  MaxBatches,    \* bound: collection jobs begun
  MaxEdits,      \* bound: edits of sources.yaml
  MaxFaults,     \* bound: failing writes
  MaxKills       \* bound: kills of the worker

ASSUME ConfiguredAssumption ==
  /\ Configured \in Seq(Sources) /\ Len(Configured) > 0
  /\ \A i, j \in 1 .. Len(Configured) : Configured[i] = Configured[j] => i = j
ASSUME PagesAssumption ==
  /\ Responses \subseteq [body : Bodies, type : ContentTypes]
  /\ TextOf \in [Bodies -> Texts \cup {Garbled}]
  /\ Garbled \notin Texts
  /\ None \notin Bodies \cup Forms \cup Texts \cup [source : Sources, text : Texts]
  /\ Approved \subseteq Forms
ASSUME BatchBounds ==
  MaxBatches \in Nat /\ MaxEdits \in Nat /\ MaxFaults \in Nat /\ MaxKills \in Nat

Batch == 1 .. MaxBatches
Place == 1 .. Len(Configured)

\* snapshot ids are a source, a time and a nonce: here the source's place and the job
Ids == Batch \X Place

VARIABLES
  registry,   \* sources.yaml: the form of each source's entry
  batch,      \* collection jobs begun
  step,       \* where the job is
  used,       \* the registry this job loaded
  place,      \* the source in hand
  fetched,    \* pages retrieved, in order
  bodyFile,   \* cache: <key>.body
  metaFile,   \* cache: <key>.json, with the hash and the type of a body
  fresh,      \* addresses whose stored_at is within the time to live
  files,      \* snapshots/<id>.json
  created,    \* created_paths
  tx,         \* snapshots inserted in the open transaction
  rows,       \* table snapshots
  sourceRows, \* table sources
  outcome,    \* how the last job ended
  edits, faults, kills

cacheVars == <<bodyFile, metaFile, fresh>>
storeVars == <<files, created, tx, rows, sourceRows>>
boundVars == <<registry, edits, faults, kills>>
jobVars == <<batch, step, used, place, fetched, outcome>>
vars == <<retrievalVars, cacheVars, storeVars, boundVars, jobVars>>

Text(i) == TextOf[fetched[i].body]
Row(id) == [source |-> Configured[id[2]], text |-> Text(id[2])]

NoRegistry == [s \in Sources |-> None]

Init ==
  /\ RetrievalInit
  /\ registry \in [Sources -> Approved]
  /\ batch = 0 /\ step = "idle" /\ used = NoRegistry /\ place = 1
  /\ fetched = <<>> /\ outcome = None
  /\ bodyFile = [u \in Urls |-> None] /\ metaFile = [u \in Urls |-> None]
  /\ fresh = {}
  /\ files = [id \in Ids |-> None] /\ created = {} /\ tx = {}
  /\ rows = [id \in Ids |-> None]
  /\ sourceRows = [s \in Sources |-> None]
  /\ edits = 0 /\ faults = 0 /\ kills = 0

\* collect ends: nothing of it is left in memory
Ended(how) ==
  /\ step' = "idle" /\ outcome' = how
  /\ place' = 1 /\ fetched' = <<>> /\ created' = {} /\ tx' = {}
  /\ used' = NoRegistry

\* _validated_sources and _source_registry: sources.yaml is read once
Collect ==
  /\ step = "idle" /\ batch < MaxBatches
  /\ batch' = batch + 1
  /\ IF \A i \in Place : registry[Configured[i]] \in Approved
       THEN step' = "fetch" /\ outcome' = "running" /\ used' = registry
       ELSE step' = "idle" /\ outcome' = "unconfigured" /\ UNCHANGED used
  /\ UNCHANGED <<place, fetched, retrievalVars, cacheVars, storeVars, boundVars>>

Fetch ==
  /\ step = "fetch" /\ at = "off"
  /\ StartRetrieval(Configured[place])
  /\ UNCHANGED <<jobVars, cacheVars, storeVars, boundVars>>

\* the retriever goes on: the web answers, or an address is checked
Web == Answered /\ UNCHANGED <<jobVars, cacheVars, storeVars, boundVars>>

MutantHit(u) == bodyFile[u] # None /\ metaFile[u] # None /\ u \in fresh

\* PersistentRetrievalCache.get
Hit(u) ==
  /\ bodyFile[u] # None /\ metaFile[u] # None
  /\ u \in fresh
  /\ metaFile[u].body = bodyFile[u]

Cached(u) == [body |-> bodyFile[u], type |-> metaFile[u].type]

Lookup ==
  /\ at = "lookup"
  /\ LET u == Home[source]
     IN  IF Hit(u)
           THEN at' = "have" /\ answer' = Cached(u)
           ELSE at' = "send" /\ UNCHANGED answer
  /\ UNCHANGED <<source, hop, ask, known, rules, sent, asked,
                 jobVars, cacheVars, storeVars, boundVars>>

\* PersistentRetrievalCache.put: the two staged files are moved into place one by one
PutBody ==
  /\ at = "got" /\ at' = "half"
  /\ bodyFile' = [bodyFile EXCEPT ![Home[source]] = answer.body]
  /\ UNCHANGED <<source, hop, ask, known, rules, answer, sent, asked,
                 metaFile, fresh, jobVars, storeVars, boundVars>>

PutMeta ==
  /\ at = "half" /\ at' = "have"
  /\ metaFile' = [metaFile EXCEPT ![Home[source]] = answer]
  /\ fresh' = fresh \cup {Home[source]}
  /\ UNCHANGED <<source, hop, ask, known, rules, answer, sent, asked,
                 bodyFile, jobVars, storeVars, boundVars>>

Fault == faults < MaxFaults /\ faults' = faults + 1 /\ UNCHANGED <<registry, edits, kills>>

PutFails ==
  /\ at \in {"got", "half"} /\ Fault
  /\ Leave /\ Ended("failed")
  /\ UNCHANGED <<batch, cacheVars, files, rows, sourceRows>>

\* build_snapshot decodes the page after it has been cached; the next source, or _persist
Keep ==
  /\ at = "have" /\ TextOf[answer.body] # Garbled
  /\ Leave
  /\ fetched' = Append(fetched, answer)
  /\ IF place < Len(Configured)
       THEN place' = place + 1 /\ UNCHANGED step
       ELSE place' = 1 /\ step' = "begin"
  /\ UNCHANGED <<batch, used, outcome, cacheVars, storeVars, boundVars>>

MutantGiveUp ==
  /\ at = "failed" \/ (at = "have" /\ TextOf[answer.body] = Garbled)
  /\ Leave
  /\ UNCHANGED <<jobVars, cacheVars, storeVars, boundVars>>

\* LiveCollectionError: denied, not retrieved, or not decoded
GiveUp ==
  /\ at = "failed" \/ (at = "have" /\ TextOf[answer.body] = Garbled)
  /\ Leave /\ Ended("failed")
  /\ UNCHANGED <<batch, cacheVars, files, rows, sourceRows, boundVars>>

\* BEGIN IMMEDIATE and SourceRepository.sync of every source; the rows follow at the commit
Begin ==
  /\ step = "begin" /\ step' = "save"
  /\ UNCHANGED <<batch, used, place, fetched, outcome,
                 retrievalVars, cacheVars, storeVars, boundVars>>

MutantDuplicate == \E id \in tx : Row(id) = Row(<<batch, place>>)

\* the source has had a snapshot with this text
Duplicate ==
  LET row == Row(<<batch, place>>)
  IN  (\E id \in Ids : rows[id] = row) \/ (\E id \in tx : Row(id) = row)

MutantAdvance == place' = 1 /\ step' = "commit"

Advance == IF place < Len(Configured) THEN place' = place + 1 /\ step' = "save"
           ELSE place' = 1 /\ step' = "commit"

Skip ==
  /\ step = "save" /\ Duplicate /\ Advance
  /\ UNCHANGED <<batch, used, fetched, outcome,
                 retrievalVars, cacheVars, storeVars, boundVars>>

MutantSave ==
  /\ step = "save" /\ ~Duplicate /\ step' = "insert"
  /\ files' = [files EXCEPT ![<<batch, place>>] = Text(place)]
  /\ UNCHANGED <<batch, used, place, fetched, outcome, created,
                 retrievalVars, cacheVars, tx, rows, sourceRows, boundVars>>

\* SnapshotStore.save, then SnapshotRepository.add
Save ==
  /\ step = "save" /\ ~Duplicate /\ step' = "insert"
  /\ files' = [files EXCEPT ![<<batch, place>>] = Text(place)]
  /\ created' = created \cup {<<batch, place>>}
  /\ UNCHANGED <<batch, used, place, fetched, outcome,
                 retrievalVars, cacheVars, tx, rows, sourceRows, boundVars>>

Insert ==
  /\ step = "insert" /\ Advance
  /\ tx' = tx \cup {<<batch, place>>}
  /\ UNCHANGED <<batch, used, fetched, outcome,
                 retrievalVars, cacheVars, files, created, rows, sourceRows, boundVars>>

Commit ==
  /\ step = "commit" /\ step' = "verify"
  /\ rows' = [id \in Ids |-> IF id \in tx THEN Row(id) ELSE rows[id]]
  /\ sourceRows' = [s \in Sources |-> IF \E i \in Place : Configured[i] = s THEN used[s]
                                      ELSE sourceRows[s]]
  /\ UNCHANGED <<batch, used, place, fetched, outcome,
                 retrievalVars, cacheVars, files, created, tx, boundVars>>

\* write_text is interrupted: its path is not yet in created_paths
HalfWritten ==
  step = "save" /\ ~Duplicate /\ files' = [files EXCEPT ![<<batch, place>>] = Garbled]

MutantPersistFails ==
  /\ step \in {"begin", "save", "insert", "commit", "verify"} /\ Fault
  /\ HalfWritten \/ UNCHANGED files
  /\ step' = "undo"
  /\ UNCHANGED <<batch, used, place, fetched, outcome, tx, created, rows, sourceRows,
                 retrievalVars, cacheVars>>

\* a statement or a write fails and the transaction is rolled back
PersistFails ==
  /\ step \in {"begin", "save", "insert", "commit"} /\ Fault
  /\ HalfWritten \/ UNCHANGED files
  /\ step' = "undo"
  /\ UNCHANGED <<batch, used, place, fetched, outcome, tx, created, rows, sourceRows,
                 retrievalVars, cacheVars>>

\* except Exception: the created files are removed, then the exception goes on
Undo ==
  /\ step = "undo"
  /\ IF created = {}
       THEN Ended("failed") /\ UNCHANGED files
       ELSE \E id \in created :
              /\ files' = [files EXCEPT ![id] = None]
              /\ created' = created \ {id}
              /\ UNCHANGED <<step, place, fetched, outcome, tx, used>>
  /\ UNCHANGED <<batch, rows, sourceRows, retrievalVars, cacheVars, boundVars>>

\* _verify_persisted
Verify ==
  /\ step = "verify"
  /\ Ended(IF /\ \A i \in Place : sourceRows[Configured[i]] = used[Configured[i]]
              /\ \A id \in tx : rows[id] # None /\ files[id] # None
           THEN "succeeded" ELSE "failed")
  /\ UNCHANGED <<batch, files, rows, sourceRows, retrievalVars, cacheVars, boundVars>>

\* the worker is killed: the transaction is rolled back, the files stay as they are
Kill ==
  /\ step # "idle" /\ kills < MaxKills /\ kills' = kills + 1
  /\ Leave /\ Ended("killed")
  /\ HalfWritten \/ UNCHANGED files
  /\ UNCHANGED <<batch, cacheVars, rows, sourceRows, registry, edits, faults>>

\* time passes, the clock is set, or collection_cache_ttl_seconds is configured anew
Age ==
  /\ fresh' \in SUBSET {u \in Urls : metaFile[u] # None}
  /\ UNCHANGED <<retrievalVars, bodyFile, metaFile, storeVars, boundVars, jobVars>>

EditRegistry ==
  /\ edits < MaxEdits /\ edits' = edits + 1
  /\ \E s \in Sources, f \in Forms : registry' = [registry EXCEPT ![s] = f]
  /\ UNCHANGED <<faults, kills, retrievalVars, cacheVars, storeVars, jobVars>>

\* a step of the worker itself
Work ==
  \/ Fetch \/ Web \/ Lookup \/ PutBody \/ PutMeta \/ Keep \/ GiveUp
  \/ Begin \/ Skip \/ Save \/ Insert \/ Commit \/ Undo \/ Verify

Next == Collect \/ Work \/ PutFails \/ PersistFails \/ Kill \/ Age \/ EditRegistry

Spec == Init /\ [][Next]_vars

\* a request is answered or times out, and a live worker goes on
FairSpec == Spec /\ WF_vars(Work)
-----------------------------------------------------------------------------
TypeOK ==
  /\ RetrievalTypeOK
  /\ registry \in [Sources -> Forms] /\ used \in [Sources -> Forms \cup {None}]
  /\ batch \in 0 .. MaxBatches /\ place \in Place
  /\ step \in {"idle", "fetch", "begin", "save", "insert", "commit", "undo", "verify"}
  /\ fetched \in Seq(Responses)
  /\ outcome \in {None, "running", "unconfigured", "succeeded", "failed", "killed"}
  /\ bodyFile \in [Urls -> Bodies \cup {None}] /\ metaFile \in [Urls -> Responses \cup {None}]
  /\ fresh \subseteq Urls
  /\ files \in [Ids -> Texts \cup {Garbled, None}]
  /\ created \subseteq Ids /\ tx \subseteq Ids
  /\ rows \in [Ids -> [source : Sources, text : Texts] \cup {None}]
  /\ sourceRows \in [Sources -> Forms \cup {None}]
  /\ edits \in 0 .. MaxEdits /\ faults \in 0 .. MaxFaults /\ kills \in 0 .. MaxKills

(* Every snapshot in the table has its whole file, whatever fails and       *)
(* whenever the worker is killed: the file is written before its row        *)
(* commits, and only files of rows that were rolled back are removed        *)
(* (_persist).                                                              *)
RowsHaveFiles == \A id \in Ids : rows[id] # None => files[id] = rows[id].text

(* When no job runs, a file without a row is what a kill or a file written  *)
(* half-way has left: a batch that fails otherwise removes all it wrote     *)
(* (created_paths).                                                         *)
OnlyAccidentsLeaveFiles ==
  step = "idle" /\ kills = 0 =>
    \A id \in Ids : files[id] \notin {None, Garbled} => rows[id] # None

(* A source never has two snapshots of one text, in one job or across jobs, *)
(* repeats and crashes (the duplicate check of _persist).                   *)
TextsAreDistinct ==
  \A i, j \in Ids : rows[i] # None /\ rows[i] = rows[j] => i = j

(* What the cache gives for an address is a body with the content type it   *)
(* was sent with, also when the worker was killed between the two           *)
(* replacements of put, with a page in hand that differs from the cached    *)
(* one (PersistentRetrievalCache.get compares the hashes).                  *)
CacheGivesWhatWasSent ==
  \A u \in Urls : Hit(u) => Cached(u) \in Responses

(* A batch is recorded whole or not at all: the table of snapshots changes  *)
(* only when every configured source's page of this batch has its text in   *)
(* the table, and the sources' rows are the ones the batch was approved by  *)
(* (one failure among the sources persists nothing).                        *)
BatchIsAtomic ==
  [][rows' # rows =>
       \A i \in Place :
         /\ \E id \in Ids : rows'[id] = [source |-> Configured[i], text |-> Text(i)]
         /\ sourceRows'[Configured[i]] = used[Configured[i]]
         /\ used[Configured[i]] \in Approved]_vars

(* A job that begins ends, whatever the web answers: no redirect loop,      *)
(* retry or failing write keeps the pipeline lock.                          *)
EveryBatchEnds == (step # "idle") ~> (step = "idle")
=============================================================================
