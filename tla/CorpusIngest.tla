---------------------------- MODULE CorpusIngest ----------------------------
(***************************************************************************)
(* How the documentation corpus gets into an index version: the worker CLI *)
(* that drives one run over the sources (worker/cli.py) and the runner     *)
(* that replaces one source's chunks in a transaction of its own           *)
(* (worker/runner.py).  Answers read the result: see GroundedAnswers.      *)
(*                                                                         *)
(* Covered: the corpus fingerprint taken when a run is built and published *)
(* after it, the failure of any stage of any source, a crash between any   *)
(* two steps, sources edited between or during runs, runs that overlap     *)
(* (each DELETE removes what its own snapshot shows, under READ COMMITTED, *)
(* and waits for the rows another run holds).                              *)
(*                                                                         *)
(* Not covered: what parsing and chunking produce (a source has one chunk, *)
(* which stands for all of one generation), exact terms (written and       *)
(* deleted with their chunk), embedding stamps, the ingestion_jobs rows    *)
(* (no part of the application decides anything from them).  Sources are   *)
(* visited in any order, not the fixed one of the allowlist.               *)
(***************************************************************************)
EXTENDS Naturals, FiniteSets

CONSTANTS
  Sources,      \* the allowlisted documents, MVP_SOURCES
  Versions,     \* names of index versions
  Workers,      \* runs of the ingestion CLI that may be in progress at once
  Absent,         \* no row, no target
  Unusable,     \* text of a source that cannot be fetched or has no section
  Preloaded,    \* whether every version starts built by an earlier clean run
  EditsMidRun,  \* whether sources may change while a run is in progress
  Reverts,      \* whether an edit may bring an earlier text back
  MaxEdits,     \* bound: edits of the sources
  MaxRuns       \* bound: runs started

ASSUME SentinelAssumption ==
  /\ Unusable \notin Nat
  /\ Absent \notin Versions /\ Absent \notin [Sources -> Nat \cup {Unusable}]
ASSUME EnvironmentAssumption ==
  Preloaded \in BOOLEAN /\ EditsMidRun \in BOOLEAN /\ Reverts \in BOOLEAN
ASSUME IngestBoundsAssumption == MaxEdits \in Nat /\ MaxRuns \in Nat

VARIABLES
  upstream,  \* the text each source has now; a number per distinct text
  edits,     \* number of edits so far, the newest text's number
  docs,      \* rows of documents, per version and source
  chunks,    \* rows of chunks, per version and source
  hash,      \* index_versions.source_version_hash, Absent without a row
  worker,    \* what each run is doing
  rowIds,    \* ids given to documents and chunks so far
  runCount   \* number of runs started

source == <<upstream, edits>>
corpus == <<docs, chunks>>
ingestVars == <<source, corpus, hash, worker, rowIds, runCount>>

Texts == Nat \cup {Unusable}

\* The fingerprint of a corpus is injective in its texts, so it is the corpus;
\* an unfetchable source contributes a sentinel (content_version_hash).
Corpora == [Sources -> Texts]

Chunk == [doc : Nat, id : Nat, text : Nat]

NotRunning == [phase |-> "idle", version |-> Absent, image |-> Absent,
               full |-> FALSE, todo |-> {}, failed |-> FALSE,
               source |-> Absent, text |-> 0, doc |-> 0, drop |-> {}]

WorkerType ==
  [phase : {"idle", "choosing", "fetched", "deleting", "embedding"},
   version : Versions \cup {Absent}, image : Corpora \cup {Absent}, full : BOOLEAN,
   todo : SUBSET Sources, failed : BOOLEAN, source : Sources \cup {Absent},
   text : Nat, doc : Nat, drop : SUBSET Chunk]

Running(x) == \E w \in Workers : worker[w].phase # "idle" /\ worker[w].version = x

TextsOf(x, s) == {c.text : c \in chunks[x][s]}

\* The chunks of the version are those of the corpus its fingerprint names.
Holds(x) == \A s \in Sources : TextsOf(x, s) = {hash[x][s]}

----------------------------------------------------------------------------
(* The sources change: an edit, a revert, a document that disappears.      *)

Edit(s) ==
  /\ edits < MaxEdits
  /\ EditsMidRun \/ \A w \in Workers : worker[w].phase = "idle"
  /\ edits' = edits + 1
  /\ \E t \in (IF Reverts THEN 0 .. edits' ELSE {edits'}) \cup {Unusable} :
       /\ t # upstream[s]
       /\ upstream' = [upstream EXCEPT ![s] = t]
  /\ UNCHANGED <<corpus, hash, worker, rowIds, runCount>>

----------------------------------------------------------------------------
(* A run of the CLI.                                                       *)

\* Mutant: the fingerprint is published when the run begins.
BeginRunPublishing(w, x, S) ==
  /\ worker[w].phase = "idle"
  /\ runCount < MaxRuns
  /\ runCount' = runCount + 1
  /\ hash' = [hash EXCEPT ![x] = upstream]
  /\ worker' = [worker EXCEPT ![w] =
       [NotRunning EXCEPT !.phase = "choosing", !.version = x, !.todo = S,
                          !.image = upstream, !.full = (S = Sources)]]
  /\ UNCHANGED <<source, corpus, rowIds>>

\* build_runner fingerprints every source, whichever of them the run will
\* ingest; then ensure_index_version creates a missing row, with that
\* fingerprint, and leaves that of an existing row alone.
BeginRun(w, x, S) ==
  /\ worker[w].phase = "idle"
  /\ runCount < MaxRuns
  /\ runCount' = runCount + 1
  /\ hash' = [hash EXCEPT ![x] = IF hash[x] = Absent THEN upstream ELSE hash[x]]
  /\ worker' = [worker EXCEPT ![w] =
       [NotRunning EXCEPT !.phase = "choosing", !.version = x, !.todo = S,
                          !.image = upstream, !.full = (S = Sources)]]
  /\ UNCHANGED <<source, corpus, rowIds>>

\* What the next source starts from: nothing is kept of the previous one.
NextSource(w, s, f) ==
  LET me == worker[w] IN
  worker' = [worker EXCEPT ![w] =
    [me EXCEPT !.phase = "choosing", !.todo = me.todo \ {s}, !.failed = me.failed \/ f,
               !.source = Absent, !.text = 0, !.doc = 0, !.drop = {}]]

\* The fetch fails, or the parse yields no section: the job fails before
\* anything is written.
RefuseSource(w, s) ==
  /\ worker[w].phase = "choosing"
  /\ s \in worker[w].todo
  /\ NextSource(w, s, TRUE)
  /\ UNCHANGED <<source, corpus, hash, rowIds, runCount>>

FetchSource(w, s) ==
  /\ worker[w].phase = "choosing"
  /\ s \in worker[w].todo
  /\ upstream[s] # Unusable
  /\ worker' = [worker EXCEPT ![w] =
       [worker[w] EXCEPT !.phase = "fetched", !.source = s, !.text = upstream[s]]]
  /\ UNCHANGED <<source, corpus, hash, rowIds, runCount>>

\* _find_document_for_source: the latest fetched row, or a new one.
DocumentFor(x, s) ==
  IF docs[x][s] = {} THEN rowIds + 1
  ELSE CHOOSE d \in docs[x][s] : \A e \in docs[x][s] : e =< d

\* Mutant: the chunks of the previous generation are not deleted.
FindNoChunks(w) ==
  LET x == worker[w].version
      s == worker[w].source
  IN  /\ worker[w].phase = "fetched"
      /\ rowIds' = IF docs[x][s] = {} THEN rowIds + 1 ELSE rowIds
      /\ worker' = [worker EXCEPT ![w] =
           [@ EXCEPT !.phase = "deleting", !.doc = DocumentFor(x, s)]]
      /\ UNCHANGED <<source, corpus, hash, runCount>>

\* The transaction finds its document, and its DELETE the chunks to remove:
\* those of that document which are committed by now.
FindChunks(w) ==
  LET x == worker[w].version
      s == worker[w].source
      d == DocumentFor(x, s)
  IN  /\ worker[w].phase = "fetched"
      /\ rowIds' = IF docs[x][s] = {} THEN rowIds + 1 ELSE rowIds
      /\ worker' = [worker EXCEPT ![w] =
           [worker[w] EXCEPT !.phase = "deleting", !.doc = d,
                             !.drop = {c \in chunks[x][s] : c.doc = d}]]
      /\ UNCHANGED <<source, corpus, hash, runCount>>

\* This run has deleted that document's chunks and not yet committed.
HoldsRows(w, x, d) ==
  worker[w].phase = "embedding" /\ worker[w].version = x /\ worker[w].doc = d

\* Mutant: the DELETE is committed before the provider is called.
DeleteChunksCommitted(w) ==
  LET x == worker[w].version
      s == worker[w].source
  IN  /\ worker[w].phase = "deleting"
      /\ chunks' = [chunks EXCEPT ![x][s] = @ \ worker[w].drop]
      /\ worker' = [worker EXCEPT ![w].phase = "embedding"]
      /\ UNCHANGED <<source, docs, hash, rowIds, runCount>>

\* The DELETE and the UPDATE of the document wait for a run that has them.
DeleteChunks(w) ==
  /\ worker[w].phase = "deleting"
  /\ \A u \in Workers \ {w} : ~ HoldsRows(u, worker[w].version, worker[w].doc)
  /\ worker' = [worker EXCEPT ![w] = [worker[w] EXCEPT !.phase = "embedding"]]
  /\ UNCHANGED <<source, corpus, hash, rowIds, runCount>>

\* Mutant: a source that fails is tried again at once.
FailSourceRetried(w) ==
  /\ worker[w].phase \in {"fetched", "deleting", "embedding"}
  /\ worker' = [worker EXCEPT ![w] =
       [@ EXCEPT !.phase = "choosing", !.source = Absent, !.text = 0, !.doc = 0,
                 !.drop = {}]]
  /\ UNCHANGED <<source, corpus, hash, rowIds, runCount>>

\* Embedding (a call to the provider) or any statement raises: rollback.
FailSource(w) ==
  /\ worker[w].phase \in {"fetched", "deleting", "embedding"}
  /\ NextSource(w, worker[w].source, TRUE)
  /\ UNCHANGED <<source, corpus, hash, rowIds, runCount>>

CommitSource(w) ==
  LET x == worker[w].version
      s == worker[w].source
      c == [doc |-> worker[w].doc, id |-> rowIds + 1, text |-> worker[w].text]
  IN  /\ worker[w].phase = "embedding"
      /\ chunks' = [chunks EXCEPT ![x] =
                       [chunks[x] EXCEPT ![s] = (chunks[x][s] \ worker[w].drop) \cup {c}]]
      /\ docs' = [docs EXCEPT ![x] = [docs[x] EXCEPT ![s] = docs[x][s] \cup {worker[w].doc}]]
      /\ rowIds' = rowIds + 1
      /\ NextSource(w, s, FALSE)
      /\ UNCHANGED <<source, hash, runCount>>

\* Mutant: a run over some of the sources publishes.
PublishesPartial(w) == ~ worker[w].failed

\* The fingerprint is published after a clean run over every source.
Publishes(w) == ~ worker[w].failed /\ worker[w].full

EndRun(w) ==
  /\ worker[w].phase = "choosing"
  /\ worker[w].todo = {}
  /\ hash' = IF Publishes(w)
             THEN [hash EXCEPT ![worker[w].version] = worker[w].image] ELSE hash
  /\ worker' = [worker EXCEPT ![w] = NotRunning]
  /\ UNCHANGED <<source, corpus, rowIds, runCount>>

\* The process dies; Postgres rolls its transaction back.
Crash(w) ==
  /\ worker[w].phase # "idle"
  /\ worker' = [worker EXCEPT ![w] = NotRunning]
  /\ UNCHANGED <<source, corpus, hash, rowIds, runCount>>

----------------------------------------------------------------------------
IngestInit ==
  /\ upstream = [s \in Sources |-> 0]
  /\ edits = 0
  /\ worker = [w \in Workers |-> NotRunning]
  /\ runCount = 0
  /\ IF Preloaded
     THEN /\ docs = [x \in Versions |-> [s \in Sources |-> {1}]]
          /\ chunks = [x \in Versions |-> [s \in Sources |->
                        {[doc |-> 1, id |-> 1, text |-> 0]}]]
          /\ hash = [x \in Versions |-> upstream]
          /\ rowIds = 1
     ELSE /\ docs = [x \in Versions |-> [s \in Sources |-> {}]]
          /\ chunks = [x \in Versions |-> [s \in Sources |-> {}]]
          /\ hash = [x \in Versions |-> Absent]
          /\ rowIds = 0

RunStep(w) ==
  \/ \E s \in Sources : RefuseSource(w, s) \/ FetchSource(w, s)
  \/ FindChunks(w) \/ DeleteChunks(w) \/ FailSource(w) \/ CommitSource(w)
  \/ EndRun(w)

IngestNext ==
  \/ \E s \in Sources : Edit(s)
  \/ \E w \in Workers, x \in Versions :
       \E S \in {Sources} \cup {{s} : s \in Sources} : BeginRun(w, x, S)
  \/ \E w \in Workers : RunStep(w) \/ Crash(w)

IngestSpec == IngestInit /\ [][IngestNext]_ingestVars

----------------------------------------------------------------------------
(* Properties.                                                             *)

\* Types of the corpus rows and of what each run has in hand.
IngestTypeOK ==
  /\ upstream \in Corpora
  /\ edits \in 0 .. MaxEdits
  /\ docs \in [Versions -> [Sources -> SUBSET Nat]]
  /\ chunks \in [Versions -> [Sources -> SUBSET Chunk]]
  /\ hash \in [Versions -> Corpora \cup {Absent}]
  /\ worker \in [Workers -> WorkerType]
  /\ \A w \in Workers : worker[w].phase # "idle" => worker[w].version \in Versions
  /\ rowIds \in Nat
  /\ runCount \in 0 .. MaxRuns

\* A source that has chunks never loses all of them: not when its run fails
\* after the DELETE, not when it dies, not when the source becomes empty or
\* disappears, not when two runs replace it at once (IngestionRunner.run:
\* "refusing to replace its existing chunks with none").
SourcesStayAnswerable ==
  [][\A x \in Versions, s \in Sources :
       chunks[x][s] # {} => chunks'[x][s] # {}]_ingestVars

\* A source has the chunks of one generation only: a re-ingest "replaces the
\* document's chunks rather than adding to them" (_materialize_chunks).
OneGeneration ==
  \A x \in Versions, s \in Sources : Cardinality(chunks[x][s]) =< 1

=============================================================================
