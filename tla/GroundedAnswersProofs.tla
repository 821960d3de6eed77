----------------------- MODULE GroundedAnswersProofs -----------------------
(***************************************************************************)
(* The theorems about answers over a changing corpus (GroundedAnswers and  *)
(* the ingestion under it, CorpusIngest), for any number of sources,       *)
(* versions and requests: no cached answer mixes versions; with one run at *)
(* a time a source has one generation of chunks and no cached answer is    *)
(* older than its key; and a settled corpus is answered from as it is.     *)
(***************************************************************************)
EXTENDS GroundedAnswers, FiniteSetTheorems, WellFoundedInduction, TLAPS

----------------------------------------------------------------------------
(* What some theorems assume of the constants.                             *)

\* Runs of the ingestion do not overlap.
OneRun == \A u, w \in Workers : u = w

\* There is a single version, re-ingested in place.
OneVersion == \A x, y \in Versions : x = y

----------------------------------------------------------------------------
(* Types.                                                                  *)

InProgress(u) == u.phase \in {"fetched", "deleting", "embedding"}

IngestTypes ==
  /\ upstream \in Corpora /\ edits \in Nat /\ rowIds \in Nat
  /\ docs \in [Versions -> [Sources -> SUBSET Nat]]
  /\ chunks \in [Versions -> [Sources -> SUBSET Chunk]]
  /\ hash \in [Versions -> Corpora \cup {Absent}]
  /\ worker \in [Workers -> WorkerType]
  /\ \A w \in Workers : worker[w].phase # "idle" =>
       worker[w].version \in Versions /\ worker[w].image \in Corpora
  /\ \A w \in Workers : InProgress(worker[w]) => worker[w].source \in Sources

\* What a run keeps from its beginning to its end.
SameRun(me, you) ==
  you.version = me.version /\ you.image = me.image /\ you.full = me.full

LEMMA IdleRun == NotRunning \in WorkerType /\ NotRunning.phase = "idle"
BY DEF NotRunning, WorkerType

\* Steps of one run, field by field.
LEMMA BeginIs ==
  ASSUME IngestTypes, NEW w \in Workers, NEW x \in Versions, NEW S \in SUBSET Sources,
         BeginRun(w, x, S)
  PROVE  \E you \in WorkerType :
           /\ worker' = [worker EXCEPT ![w] = you]
           /\ you.phase = "choosing" /\ you.version = x /\ you.todo = S
           /\ you.image = upstream /\ you.full = (S = Sources) /\ ~ you.failed
<1>1. upstream \in Corpora
  BY DEF IngestTypes
<1>. DEFINE b == S = Sources
            me == [NotRunning EXCEPT !.phase = "choosing", !.version = x, !.todo = S,
                          !.image = upstream, !.full = b]
<1>3. b \in BOOLEAN
  OBVIOUS
<1>. HIDE DEF b
<1>4. me \in WorkerType
  BY <1>1, <1>3, IdleRun DEF WorkerType
<1>5. /\ me.phase = "choosing" /\ me.version = x /\ me.todo = S
      /\ me.image = upstream
  BY IdleRun DEF WorkerType
<1>6. me.full = b
  BY <1>3, IdleRun DEF WorkerType
<1>7. ~ me.failed
  BY DEF NotRunning
<1>8. worker' = [worker EXCEPT ![w] = me]
  BY DEF BeginRun, b
<1>. HIDE DEF me
<1>. QED BY <1>4, <1>5, <1>6, <1>7, <1>8 DEF b

LEMMA NextIs ==
  ASSUME IngestTypes, NEW w \in Workers, NEW s, NEW f \in BOOLEAN, NextSource(w, s, f)
  PROVE  \E you \in WorkerType :
           /\ worker' = [worker EXCEPT ![w] = you]
           /\ you.phase = "choosing" /\ SameRun(worker[w], you)
           /\ you.todo = worker[w].todo \ {s}
           /\ ~ you.failed <=> ~ worker[w].failed /\ ~ f
<1>. DEFINE me == worker[w]
            b == me.failed \/ f
            you == [me EXCEPT !.phase = "choosing", !.todo = me.todo \ {s}, !.failed = b,
                              !.source = Absent, !.text = 0, !.doc = 0, !.drop = {}]
<1>1. me \in WorkerType
  BY DEF IngestTypes
<1>2. worker' = [worker EXCEPT ![w] = you]
  BY DEF NextSource
<1>. HIDE DEF me
<1>3. b \in BOOLEAN /\ (~ b <=> ~ me.failed /\ ~ f)
  BY <1>1 DEF WorkerType
<1>. HIDE DEF b
<1>4. you \in WorkerType
  BY <1>1, <1>3 DEF WorkerType
<1>5. you.phase = "choosing" /\ you.todo = me.todo \ {s}
  BY <1>1 DEF WorkerType
<1>6. you.version = me.version /\ you.image = me.image
  BY <1>1 DEF WorkerType
<1>7. you.full = me.full
  BY <1>1 DEF WorkerType
<1>8. you.failed = b
  BY <1>1, <1>3 DEF WorkerType
<1>. HIDE DEF you
<1>. QED BY <1>2, <1>3, <1>4, <1>5, <1>6, <1>7, <1>8 DEF SameRun, me

LEMMA FetchIs ==
  ASSUME IngestTypes, NEW w \in Workers, NEW s \in Sources, FetchSource(w, s)
  PROVE  \E you \in WorkerType :
           /\ worker' = [worker EXCEPT ![w] = you]
           /\ you.phase = "fetched" /\ SameRun(worker[w], you)
           /\ you.source = s /\ you.text = upstream[s]
           /\ you.todo = worker[w].todo /\ you.failed = worker[w].failed
<1>. DEFINE me == worker[w]
            you == [me EXCEPT !.phase = "fetched", !.source = s, !.text = upstream[s]]
<1>1. me \in WorkerType /\ upstream[s] \in Nat
  BY DEF IngestTypes, FetchSource, Corpora, Texts
<1>2. worker' = [worker EXCEPT ![w] = you]
  BY DEF FetchSource
<1>. HIDE DEF me
<1>3. you \in WorkerType
  BY <1>1 DEF WorkerType
<1>4. you.phase = "fetched" /\ you.source = s /\ you.text = upstream[s]
  BY <1>1 DEF WorkerType
<1>5. you.version = me.version /\ you.image = me.image /\ you.todo = me.todo
  BY <1>1 DEF WorkerType
<1>6. you.full = me.full
  BY <1>1 DEF WorkerType
<1>7. you.failed = me.failed
  BY <1>1 DEF WorkerType
<1>. HIDE DEF you
<1>. QED BY <1>2, <1>3, <1>4, <1>5, <1>6, <1>7 DEF SameRun, me

LEMMA FindIs ==
  ASSUME IngestTypes, NEW w \in Workers, FindChunks(w),
         DocumentFor(worker[w].version, worker[w].source) \in Nat
  PROVE  \E you \in WorkerType :
           /\ worker' = [worker EXCEPT ![w] = you]
           /\ you.phase = "deleting" /\ SameRun(worker[w], you)
           /\ you.source = worker[w].source /\ you.text = worker[w].text
           /\ you.doc = DocumentFor(worker[w].version, worker[w].source)
           /\ you.drop = {c \in chunks[worker[w].version][worker[w].source] : c.doc = you.doc}
           /\ you.todo = worker[w].todo /\ you.failed = worker[w].failed
<1>. DEFINE me == worker[w]
            d == DocumentFor(me.version, me.source)
            D == {c \in chunks[me.version][me.source] : c.doc = d}
            you == [me EXCEPT !.phase = "deleting", !.doc = d, !.drop = D]
<1>1. me \in WorkerType /\ me.version \in Versions /\ me.source \in Sources
  BY DEF IngestTypes, FindChunks, InProgress
<1>2. worker' = [worker EXCEPT ![w] = you]
  BY DEF FindChunks
<1>3. D \in SUBSET Chunk
  BY <1>1 DEF IngestTypes
<1>. HIDE DEF me, D, d
<1>4. you \in WorkerType
  BY <1>1, <1>3 DEF WorkerType, d, me
<1>5. you.phase = "deleting" /\ you.doc = d /\ you.drop = D
  BY <1>1 DEF WorkerType
<1>6. /\ you.version = me.version /\ you.image = me.image /\ you.todo = me.todo
      /\ you.source = me.source /\ you.text = me.text
  BY <1>1 DEF WorkerType
<1>7. you.full = me.full
  BY <1>1 DEF WorkerType
<1>8. you.failed = me.failed
  BY <1>1 DEF WorkerType
<1>. HIDE DEF you
<1>. QED BY <1>2, <1>4, <1>5, <1>6, <1>7, <1>8 DEF SameRun, me, d, D

LEMMA DeleteIs ==
  ASSUME IngestTypes, NEW w \in Workers, DeleteChunks(w)
  PROVE  \E you \in WorkerType :
           /\ worker' = [worker EXCEPT ![w] = you]
           /\ you.phase = "embedding" /\ SameRun(worker[w], you)
           /\ you.source = worker[w].source /\ you.text = worker[w].text
           /\ you.doc = worker[w].doc /\ you.drop = worker[w].drop
           /\ you.todo = worker[w].todo /\ you.failed = worker[w].failed
<1>. DEFINE me == worker[w]
            you == [me EXCEPT !.phase = "embedding"]
<1>1. me \in WorkerType
  BY DEF IngestTypes
<1>2. worker' = [worker EXCEPT ![w] = you]
  BY DEF DeleteChunks
<1>. HIDE DEF me
<1>3. you \in WorkerType /\ you.phase = "embedding"
  BY <1>1 DEF WorkerType
<1>4. /\ you.version = me.version /\ you.image = me.image /\ you.todo = me.todo
      /\ you.source = me.source /\ you.text = me.text /\ you.doc = me.doc /\ you.drop = me.drop
  BY <1>1 DEF WorkerType
<1>5. you.full = me.full
  BY <1>1 DEF WorkerType
<1>6. you.failed = me.failed
  BY <1>1 DEF WorkerType
<1>. HIDE DEF you
<1>. QED BY <1>2, <1>3, <1>4, <1>5, <1>6 DEF SameRun, me
ChunkOf(u, n) == [doc |-> u.doc, id |-> n, text |-> u.text]

LEMMA CommitIs ==
  ASSUME IngestTypes, NEW w \in Workers, CommitSource(w)
  PROVE  /\ worker[w].version \in Versions /\ worker[w].source \in Sources
         /\ ChunkOf(worker[w], rowIds + 1) \in Chunk
         /\ chunks' \in [Versions -> [Sources -> SUBSET Chunk]]
         /\ docs' \in [Versions -> [Sources -> SUBSET Nat]]
         /\ \A y \in Versions, r \in Sources :
              IF y = worker[w].version /\ r = worker[w].source
              THEN /\ chunks'[y][r] = (chunks[y][r] \ worker[w].drop)
                                        \cup {ChunkOf(worker[w], rowIds + 1)}
                   /\ docs'[y][r] = docs[y][r] \cup {worker[w].doc}
              ELSE chunks'[y][r] = chunks[y][r] /\ docs'[y][r] = docs[y][r]
<1>. DEFINE me == worker[w]
            x == me.version
            s == me.source
            c == ChunkOf(me, rowIds + 1)
            C == (chunks[x][s] \ me.drop) \cup {c}
            D == docs[x][s] \cup {me.doc}
<1>1. me \in WorkerType /\ x \in Versions /\ s \in Sources
  BY DEF IngestTypes, CommitSource, InProgress
<1>2. c \in Chunk
  BY <1>1 DEF IngestTypes, Chunk, ChunkOf, WorkerType
<1>3. C \in SUBSET Chunk /\ D \in SUBSET Nat
  BY <1>1, <1>2 DEF IngestTypes, WorkerType
<1>4. /\ chunks' = [chunks EXCEPT ![x] = [chunks[x] EXCEPT ![s] = C]]
      /\ docs' = [docs EXCEPT ![x] = [docs[x] EXCEPT ![s] = D]]
  BY DEF CommitSource, ChunkOf
<1>5. /\ chunks \in [Versions -> [Sources -> SUBSET Chunk]]
      /\ docs \in [Versions -> [Sources -> SUBSET Nat]]
  BY DEF IngestTypes
<1>. HIDE DEF C, D, x, s
<1>6. /\ chunks' \in [Versions -> [Sources -> SUBSET Chunk]]
      /\ docs' \in [Versions -> [Sources -> SUBSET Nat]]
  BY <1>1, <1>3, <1>4, <1>5
<1>7. \A y \in Versions, r \in Sources :
        /\ chunks'[y][r] = IF y = x /\ r = s THEN C ELSE chunks[y][r]
        /\ docs'[y][r] = IF y = x /\ r = s THEN D ELSE docs[y][r]
  BY <1>1, <1>4, <1>5
<1>. QED BY <1>1, <1>2, <1>6, <1>7 DEF C, D, x, s

\* The row of the document a transaction finds.
LEMMA DocumentIs ==
  ASSUME IngestTypes, NEW x \in Versions, NEW s \in Sources,
         \A d, e \in docs[x][s] : d = e
  PROVE  /\ DocumentFor(x, s) \in Nat
         /\ \A d \in docs[x][s] : d = DocumentFor(x, s)
<1>1. docs[x][s] \subseteq Nat /\ rowIds + 1 \in Nat
  BY DEF IngestTypes
<1>2. CASE docs[x][s] = {}
  BY <1>1, <1>2 DEF DocumentFor
<1>3. CASE docs[x][s] # {}
  <2>1. PICK d \in docs[x][s] : TRUE
    BY <1>3
  <2>2. \A e \in docs[x][s] : e =< d
    BY <1>1, <2>1
  <2>3. DocumentFor(x, s) \in docs[x][s]
    BY <1>3, <2>2 DEF DocumentFor
  <2>. QED BY <1>1, <2>3
<1>. QED BY <1>2, <1>3

----------------------------------------------------------------------------
(* Invariants. *)

OneRow(x, s) ==
  /\ \A c, d \in chunks[x][s] : c = d
  /\ \A d, e \in docs[x][s] : d = e
  /\ \A c \in chunks[x][s] : c.doc \in docs[x][s]

FoundAll(u) ==
  u.phase \in {"deleting", "embedding"} =>
    /\ u.drop = chunks[u.version][u.source]
    /\ \A d \in docs[u.version][u.source] : d = u.doc

RowsInv ==
  /\ \A x \in Versions, s \in Sources : OneRow(x, s)
  /\ \A w \in Workers : FoundAll(worker[w])

Ingesting(u, x, s) == InProgress(u) /\ u.version = x /\ u.source = s

\* k is no newer than what version x holds or is about to hold of a source.
OlderAt(k, x, s) ==
  k[s] # Unusable =>
    /\ k[s] =< edits
    /\ upstream[s] # Unusable => k[s] =< upstream[s]
    /\ \A c \in chunks[x][s] : k[s] =< c.text
    /\ \A w \in Workers : Ingesting(worker[w], x, s) => k[s] =< worker[w].text

Older(k, x) == \A s \in Sources : OlderAt(k, x, s)

ImageAt(u, s) ==
  u.image[s] # Unusable =>
    /\ u.image[s] =< edits
    /\ upstream[s] # Unusable => u.image[s] =< upstream[s]
    /\ InProgress(u) /\ u.source = s => u.image[s] =< u.text
    /\ u.full /\ ~ u.failed /\ s \notin u.todo =>
         \A c \in chunks[u.version][s] : u.image[s] =< c.text

ImageOlder(u) == u.phase # "idle" => \A s \in Sources : ImageAt(u, s)

Unbuilt(x) ==
  hash[x] = Absent =>
    /\ \A s \in Sources : chunks[x][s] = {}
    /\ \A w \in Workers : worker[w].phase # "idle" => worker[w].version # x

FetchedOf(u) ==
  InProgress(u) =>
    /\ u.source \in u.todo /\ u.text =< edits
    /\ upstream[u.source] # Unusable => u.text =< upstream[u.source]

UpstreamBound == \A s \in Sources : upstream[s] # Unusable => upstream[s] =< edits

TextsInv ==
  /\ UpstreamBound
  /\ \A x \in Versions : Unbuilt(x) /\ (hash[x] # Absent => Older(hash[x], x))
  /\ \A w \in Workers : FetchedOf(worker[w]) /\ ImageOlder(worker[w])

----------------------------------------------------------------------------
(* Every step keeps the types and one row. *)

WorkerTypes ==
  /\ worker \in [Workers -> WorkerType]
  /\ \A w \in Workers : worker[w].phase # "idle" =>
       worker[w].version \in Versions /\ worker[w].image \in Corpora
  /\ \A w \in Workers : InProgress(worker[w]) => worker[w].source \in Sources

LEMMA WorkerIs ==
  ASSUME IngestTypes, NEW w \in Workers, NEW you \in WorkerType,
         worker' = [worker EXCEPT ![w] = you],
         you.phase # "idle" => you.version \in Versions /\ you.image \in Corpora,
         InProgress(you) => you.source \in Sources
  PROVE  /\ WorkerTypes'
         /\ worker'[w] = you
         /\ \A u \in Workers \ {w} : worker'[u] = worker[u]
<1>1. worker \in [Workers -> WorkerType]
  BY DEF IngestTypes
<1>2. worker' \in [Workers -> WorkerType]
  BY <1>1
<1>3. worker'[w] = you /\ \A u \in Workers \ {w} : worker'[u] = worker[u]
  BY <1>1
<1>4. \A u \in Workers : worker'[u].phase # "idle" =>
        worker'[u].version \in Versions /\ worker'[u].image \in Corpora
  BY <1>3 DEF IngestTypes
<1>5. \A u \in Workers : InProgress(worker'[u]) => worker'[u].source \in Sources
  BY <1>3 DEF IngestTypes
<1>. QED BY <1>2, <1>3, <1>4, <1>5 DEF WorkerTypes

\* The rows when the only run moves to you.
LEMMA RowsStand ==
  ASSUME OneRun, IngestTypes, RowsInv, NEW w \in Workers, NEW you,
         UNCHANGED corpus, worker'[w] = you, FoundAll(you)
  PROVE  RowsInv'
<1>1. \A u \in Workers : worker'[u] = you
  BY DEF OneRun
<1>2. docs' = docs /\ chunks' = chunks
  BY DEF corpus
<1>3. \A x \in Versions, s \in Sources : OneRow(x, s)'
  BY <1>2 DEF RowsInv, OneRow
<1>4. \A u \in Workers : FoundAll(worker[u])'
  BY <1>1, <1>2 DEF FoundAll
<1>. QED BY <1>3, <1>4 DEF RowsInv

Moved(w, you) ==
  /\ you \in WorkerType
  /\ worker' = [worker EXCEPT ![w] = you]
  /\ you.phase # "idle" => you.version \in Versions /\ you.image \in Corpora
  /\ InProgress(you) => you.source \in Sources
  /\ FoundAll(you)

LEMMA MovedKeeps ==
  ASSUME OneRun, IngestTypes, RowsInv, NEW w \in Workers, NEW you,
         Moved(w, you), UNCHANGED corpus,
         upstream' \in Corpora, edits' \in Nat, rowIds' \in Nat,
         hash' \in [Versions -> Corpora \cup {Absent}]
  PROVE  IngestTypes' /\ RowsInv'
<1>1. WorkerTypes' /\ worker'[w] = you
  BY WorkerIs DEF Moved
<1>2. RowsInv'
  BY <1>1, RowsStand DEF Moved
<1>3. docs' = docs /\ chunks' = chunks
  BY DEF corpus
<1>. QED BY <1>1, <1>2, <1>3 DEF IngestTypes, WorkerTypes

LEMMA EditKeeps ==
  ASSUME IngestTypes, RowsInv, NEW s \in Sources, Edit(s)
  PROVE  IngestTypes' /\ RowsInv'
<1>1. PICK t \in (IF Reverts THEN 0 .. edits' ELSE {edits'}) \cup {Unusable} :
        upstream' = [upstream EXCEPT ![s] = t]
  BY DEF Edit
<1>2. edits' \in Nat /\ edits' = edits + 1
  BY DEF Edit, IngestTypes
<1>3. t \in Texts
  BY <1>1, <1>2 DEF Texts
<1>4. upstream' \in Corpora
  BY <1>1, <1>3 DEF IngestTypes, Corpora
<1>5. UNCHANGED <<docs, chunks, hash, worker, rowIds>>
  BY DEF Edit, corpus
<1>6. IngestTypes'
  BY <1>2, <1>4, <1>5 DEF IngestTypes
<1>7. RowsInv'
  BY <1>5 DEF RowsInv, OneRow, FoundAll
<1>. QED BY <1>6, <1>7

LEMMA BeginKeeps ==
  ASSUME OneRun, IngestTypes, RowsInv, NEW w \in Workers, NEW x \in Versions,
         NEW S \in SUBSET Sources, BeginRun(w, x, S)
  PROVE  IngestTypes' /\ RowsInv'
<1>1. PICK you \in WorkerType :
        /\ worker' = [worker EXCEPT ![w] = you]
        /\ you.phase = "choosing" /\ you.version = x /\ you.image = upstream
  BY BeginIs
<1>2. Moved(w, you)
  BY <1>1 DEF Moved, InProgress, FoundAll, IngestTypes
<1>3. hash' \in [Versions -> Corpora \cup {Absent}]
  BY DEF BeginRun, IngestTypes
<1>4. UNCHANGED corpus /\ UNCHANGED <<upstream, edits, rowIds>>
  BY DEF BeginRun, source
<1>. QED BY <1>2, <1>3, <1>4, MovedKeeps DEF IngestTypes

LEMMA NextKeeps ==
  ASSUME OneRun, IngestTypes, RowsInv, NEW w \in Workers, NEW s, NEW f \in BOOLEAN,
         NextSource(w, s, f), worker[w].phase # "idle",
         UNCHANGED <<source, corpus, hash, rowIds>>
  PROVE  IngestTypes' /\ RowsInv'
<1>1. PICK you \in WorkerType :
        /\ worker' = [worker EXCEPT ![w] = you]
        /\ you.phase = "choosing" /\ SameRun(worker[w], you)
  BY NextIs
<1>2. Moved(w, you)
  BY <1>1 DEF Moved, InProgress, FoundAll, IngestTypes, SameRun
<1>3. UNCHANGED <<upstream, edits>>
  BY DEF source
<1>. QED BY <1>2, <1>3, MovedKeeps DEF IngestTypes

LEMMA FetchKeeps ==
  ASSUME OneRun, IngestTypes, RowsInv, NEW w \in Workers, NEW s \in Sources, FetchSource(w, s)
  PROVE  IngestTypes' /\ RowsInv'
<1>1. PICK you \in WorkerType :
        /\ worker' = [worker EXCEPT ![w] = you]
        /\ you.phase = "fetched" /\ SameRun(worker[w], you) /\ you.source = s
  BY FetchIs
<1>2. Moved(w, you)
  BY <1>1 DEF Moved, FoundAll, IngestTypes, SameRun, FetchSource
<1>3. UNCHANGED <<upstream, edits, hash, rowIds>> /\ UNCHANGED corpus
  BY DEF source, FetchSource
<1>. QED BY <1>2, <1>3, MovedKeeps DEF IngestTypes

LEMMA FindKeeps ==
  ASSUME OneRun, IngestTypes, RowsInv, NEW w \in Workers, FindChunks(w)
  PROVE  IngestTypes' /\ RowsInv'
<1>. DEFINE x == worker[w].version
            s == worker[w].source
            d == DocumentFor(x, s)
<1>1. x \in Versions /\ s \in Sources /\ worker[w].image \in Corpora
  BY DEF FindChunks, IngestTypes, InProgress
<1>2. OneRow(x, s)
  BY <1>1 DEF RowsInv
<1>3. d \in Nat /\ \A e \in docs[x][s] : e = d
  BY <1>1, <1>2, DocumentIs DEF OneRow
<1>4. PICK you \in WorkerType :
        /\ worker' = [worker EXCEPT ![w] = you]
        /\ you.phase = "deleting" /\ SameRun(worker[w], you) /\ you.source = s
        /\ you.doc = d /\ you.drop = {c \in chunks[x][s] : c.doc = you.doc}
  BY <1>3, FindIs
<1>5. you.drop = chunks[x][s]
  BY <1>2, <1>3, <1>4 DEF OneRow
<1>6. FoundAll(you)
  BY <1>3, <1>4, <1>5 DEF FoundAll, SameRun
<1>7. Moved(w, you)
  BY <1>1, <1>4, <1>6 DEF Moved, SameRun
<1>8. rowIds' \in Nat
  BY DEF FindChunks, IngestTypes
<1>9. UNCHANGED <<upstream, edits, hash>> /\ UNCHANGED corpus
  BY DEF source, FindChunks
<1>. QED BY <1>7, <1>8, <1>9, MovedKeeps DEF IngestTypes

LEMMA DeleteKeeps ==
  ASSUME OneRun, IngestTypes, RowsInv, NEW w \in Workers, DeleteChunks(w)
  PROVE  IngestTypes' /\ RowsInv'
<1>1. PICK you \in WorkerType :
        /\ worker' = [worker EXCEPT ![w] = you]
        /\ you.phase = "embedding" /\ SameRun(worker[w], you)
        /\ you.source = worker[w].source /\ you.doc = worker[w].doc
        /\ you.drop = worker[w].drop
  BY DeleteIs
<1>2. worker[w].phase = "deleting"
  BY DEF DeleteChunks
<1>3. FoundAll(you)
  BY <1>1, <1>2 DEF FoundAll, SameRun, RowsInv
<1>4. Moved(w, you)
  BY <1>1, <1>2, <1>3 DEF Moved, SameRun, IngestTypes, InProgress
<1>5. UNCHANGED <<upstream, edits, hash, rowIds>> /\ UNCHANGED corpus
  BY DEF source, DeleteChunks
<1>. QED BY <1>4, <1>5, MovedKeeps DEF IngestTypes

\* What a commit leaves: one chunk of one document.
LEMMA CommitLeaves ==
  ASSUME IngestTypes, RowsInv, NEW w \in Workers, CommitSource(w),
         NEW y \in Versions, NEW r \in Sources
  PROVE  /\ y = worker[w].version /\ r = worker[w].source =>
              /\ chunks'[y][r] = {ChunkOf(worker[w], rowIds + 1)}
              /\ docs'[y][r] = {worker[w].doc}
         /\ ~ (y = worker[w].version /\ r = worker[w].source) =>
              chunks'[y][r] = chunks[y][r] /\ docs'[y][r] = docs[y][r]
<1>. DEFINE x == worker[w].version
            s == worker[w].source
            c == ChunkOf(worker[w], rowIds + 1)
<1>1. /\ worker[w].drop = chunks[x][s]
      /\ \A d \in docs[x][s] : d = worker[w].doc
  BY DEF CommitSource, RowsInv, FoundAll
<1>2. IF y = x /\ r = s
      THEN /\ chunks'[y][r] = (chunks[y][r] \ worker[w].drop) \cup {c}
           /\ docs'[y][r] = docs[y][r] \cup {worker[w].doc}
      ELSE chunks'[y][r] = chunks[y][r] /\ docs'[y][r] = docs[y][r]
  BY CommitIs
<1>. HIDE DEF c
<1>. QED BY <1>1, <1>2 DEF c

LEMMA CommitKeeps ==
  ASSUME OneRun, IngestTypes, RowsInv, NEW w \in Workers, CommitSource(w)
  PROVE  IngestTypes' /\ RowsInv'
<1>. DEFINE x == worker[w].version
            s == worker[w].source
<1>1. PICK you \in WorkerType :
        /\ worker' = [worker EXCEPT ![w] = you]
        /\ you.phase = "choosing" /\ SameRun(worker[w], you)
  BY NextIs DEF CommitSource
<1>2. x \in Versions /\ worker[w].image \in Corpora
  BY DEF CommitSource, IngestTypes
<1>3. WorkerTypes' /\ worker'[w] = you
  <2>1. you.phase # "idle" => you.version \in Versions /\ you.image \in Corpora
    BY <1>1, <1>2 DEF SameRun
  <2>2. ~ InProgress(you)
    BY <1>1 DEF InProgress
  <2>. QED BY <1>1, <2>1, <2>2, WorkerIs
<1>4. /\ chunks' \in [Versions -> [Sources -> SUBSET Chunk]]
      /\ docs' \in [Versions -> [Sources -> SUBSET Nat]]
  BY CommitIs
<1>5. rowIds' \in Nat /\ UNCHANGED <<upstream, edits, hash>>
  BY DEF CommitSource, IngestTypes, source
<1>6. IngestTypes'
  BY <1>3, <1>4, <1>5 DEF IngestTypes, WorkerTypes
<1>7. ASSUME NEW y \in Versions, NEW r \in Sources
      PROVE  OneRow(y, r)'
  <2>1. CASE y = x /\ r = s
    <3>1. chunks'[y][r] = {ChunkOf(worker[w], rowIds + 1)} /\ docs'[y][r] = {worker[w].doc}
      BY <2>1, CommitLeaves
    <3>2. ChunkOf(worker[w], rowIds + 1).doc = worker[w].doc
      BY DEF ChunkOf
    <3>. QED BY <3>1, <3>2 DEF OneRow
  <2>2. CASE ~ (y = x /\ r = s)
    <3>1. chunks'[y][r] = chunks[y][r] /\ docs'[y][r] = docs[y][r]
      BY <2>2, CommitLeaves
    <3>2. OneRow(y, r)
      BY DEF RowsInv
    <3>. QED BY <3>1, <3>2 DEF OneRow
  <2>. QED BY <2>1, <2>2
<1>8. \A u \in Workers : FoundAll(worker[u])'
  <2>1. \A u \in Workers : worker'[u] = you
    BY <1>3 DEF OneRun
  <2>. QED BY <1>1, <2>1 DEF FoundAll
<1>9. RowsInv'
  BY <1>7, <1>8 DEF RowsInv
<1>. QED BY <1>6, <1>9

LEMMA StopKeeps ==
  ASSUME OneRun, IngestTypes, RowsInv, NEW w \in Workers, EndRun(w) \/ Crash(w)
  PROVE  IngestTypes' /\ RowsInv'
<1>1. worker' = [worker EXCEPT ![w] = NotRunning]
  BY DEF EndRun, Crash
<1>2. Moved(w, NotRunning)
  BY <1>1, IdleRun DEF Moved, FoundAll, InProgress
<1>3. hash' \in [Versions -> Corpora \cup {Absent}]
  <2>1. CASE Crash(w)
    BY <2>1 DEF Crash, IngestTypes
  <2>2. CASE EndRun(w)
    <3>1. worker[w].version \in Versions /\ worker[w].image \in Corpora
      BY <2>2 DEF EndRun, IngestTypes
    <3>. QED BY <2>2, <3>1 DEF EndRun, IngestTypes
  <2>. QED BY <2>1, <2>2
<1>4. UNCHANGED corpus /\ UNCHANGED <<upstream, edits, rowIds>>
  BY DEF EndRun, Crash, source
<1>. QED BY <1>2, <1>3, <1>4, MovedKeeps DEF IngestTypes

LEMMA IngestKeeps ==
  ASSUME OneRun, IngestTypes, RowsInv, IngestNext
  PROVE  IngestTypes' /\ RowsInv'
<1>1. CASE \E s \in Sources : Edit(s)
  BY <1>1, EditKeeps
<1>2. CASE \E w \in Workers, x \in Versions :
             \E S \in {Sources} \cup {{s} : s \in Sources} : BeginRun(w, x, S)
  BY <1>2, BeginKeeps
<1>3. CASE \E w \in Workers : RunStep(w) \/ Crash(w)
  <2>1. PICK w \in Workers : RunStep(w) \/ Crash(w)
    BY <1>3
  <2>2. CASE \E s \in Sources : RefuseSource(w, s)
    <3>1. PICK s \in Sources : RefuseSource(w, s)
      BY <2>2
    <3>2. /\ NextSource(w, s, TRUE) /\ worker[w].phase # "idle"
          /\ UNCHANGED <<source, corpus, hash, rowIds>>
      BY <3>1 DEF RefuseSource
    <3>. QED BY <3>2, NextKeeps
  <2>3. CASE \E s \in Sources : FetchSource(w, s)
    BY <2>3, FetchKeeps
  <2>4. CASE FindChunks(w)
    BY <2>4, FindKeeps
  <2>5. CASE DeleteChunks(w)
    BY <2>5, DeleteKeeps
  <2>6. CASE FailSource(w)
    <3>1. /\ NextSource(w, worker[w].source, TRUE) /\ worker[w].phase # "idle"
          /\ UNCHANGED <<source, corpus, hash, rowIds>>
      BY <2>6 DEF FailSource
    <3>. QED BY <3>1, NextKeeps
  <2>7. CASE CommitSource(w)
    BY <2>7, CommitKeeps
  <2>8. CASE EndRun(w) \/ Crash(w)
    BY <2>8, StopKeeps
  <2>. QED BY <2>1, <2>2, <2>3, <2>4, <2>5, <2>6, <2>7, <2>8 DEF RunStep
<1>. QED BY <1>1, <1>2, <1>3 DEF IngestNext

----------------------------------------------------------------------------
(* What a step does to texts, whichever action it is. *)

Edits(s, t) ==
  /\ t \in {edits', Unusable} /\ edits' = edits + 1
  /\ upstream' = [upstream EXCEPT ![s] = t]
  /\ UNCHANGED <<chunks, worker>>

BecomesRun(w, you) == you \in WorkerType /\ worker' = [worker EXCEPT ![w] = you]

\* Nothing is fetched.
Calms(w, you) ==
  /\ BecomesRun(w, you)
  /\ InProgress(you) =>
       /\ InProgress(worker[w])
       /\ you.version = worker[w].version
       /\ you.source = worker[w].source /\ you.text = worker[w].text
  /\ UNCHANGED <<upstream, edits, chunks>>

Fetches(w, s, you) ==
  /\ BecomesRun(w, you)
  /\ InProgress(you) /\ ~ InProgress(worker[w]) /\ upstream[s] # Unusable
  /\ you.source = s /\ you.text = upstream[s]
  /\ you.version \in Versions
  /\ UNCHANGED <<upstream, edits, chunks>>

Commits(w, you) ==
  /\ BecomesRun(w, you)
  /\ InProgress(worker[w]) /\ ~ InProgress(you)
  /\ worker[w].version \in Versions /\ worker[w].source \in Sources
  /\ \A y \in Versions, r \in Sources :
       IF y = worker[w].version /\ r = worker[w].source
       THEN chunks'[y][r] = {ChunkOf(worker[w], rowIds + 1)}
       ELSE chunks'[y][r] = chunks[y][r]
  /\ UNCHANGED <<upstream, edits>>

Kinds ==
  \/ \E s \in Sources, t \in Texts : Edits(s, t)
  \/ \E w \in Workers, you \in WorkerType : Calms(w, you)
  \/ \E w \in Workers, s \in Sources, you \in WorkerType : Fetches(w, s, you)
  \/ \E w \in Workers, you \in WorkerType : Commits(w, you)

LEMMA EditEdits ==
  ASSUME ~ Reverts, IngestTypes, NEW s \in Sources, Edit(s)
  PROVE  \E t \in Texts : Edits(s, t)
<1>1. PICK t \in {edits'} \cup {Unusable} : upstream' = [upstream EXCEPT ![s] = t]
  BY DEF Edit
<1>2. edits' = edits + 1 /\ edits' \in Nat
  BY DEF Edit, IngestTypes
<1>3. UNCHANGED <<chunks, worker>>
  BY DEF Edit, corpus
<1>. QED BY <1>1, <1>2, <1>3 DEF Edits, Texts

LEMMA BeginCalms ==
  ASSUME IngestTypes, NEW w \in Workers, NEW x \in Versions, NEW S \in SUBSET Sources,
         BeginRun(w, x, S)
  PROVE  \E you \in WorkerType :
           /\ Calms(w, you)
           /\ you.phase = "choosing" /\ you.version = x /\ you.todo = S
           /\ you.image = upstream /\ you.full = (S = Sources) /\ ~ you.failed
<1>1. PICK you \in WorkerType :
        /\ worker' = [worker EXCEPT ![w] = you]
        /\ you.phase = "choosing" /\ you.version = x /\ you.todo = S
        /\ you.image = upstream /\ you.full = (S = Sources) /\ ~ you.failed
  BY BeginIs
<1>2. UNCHANGED <<upstream, edits, chunks>>
  BY DEF BeginRun, source, corpus
<1>. QED BY <1>1, <1>2 DEF Calms, BecomesRun, InProgress

LEMMA NextCalms ==
  ASSUME IngestTypes, NEW w \in Workers, NEW s, NextSource(w, s, TRUE),
         UNCHANGED <<source, corpus>>
  PROVE  \E you \in WorkerType :
           /\ Calms(w, you)
           /\ you.phase = "choosing" /\ SameRun(worker[w], you) /\ you.failed
<1>1. PICK you \in WorkerType :
        /\ worker' = [worker EXCEPT ![w] = you]
        /\ you.phase = "choosing" /\ SameRun(worker[w], you)
        /\ ~ you.failed <=> ~ worker[w].failed /\ ~ TRUE
  BY NextIs
<1>2. UNCHANGED <<upstream, edits, chunks>>
  BY DEF source, corpus
<1>. QED BY <1>1, <1>2 DEF Calms, BecomesRun, InProgress

LEMMA FetchFetches ==
  ASSUME IngestTypes, NEW w \in Workers, NEW s \in Sources, FetchSource(w, s)
  PROVE  \E you \in WorkerType :
           /\ Fetches(w, s, you) /\ SameRun(worker[w], you)
           /\ you.todo = worker[w].todo /\ you.failed = worker[w].failed
<1>1. PICK you \in WorkerType :
        /\ worker' = [worker EXCEPT ![w] = you]
        /\ you.phase = "fetched" /\ SameRun(worker[w], you)
        /\ you.source = s /\ you.text = upstream[s]
        /\ you.todo = worker[w].todo /\ you.failed = worker[w].failed
  BY FetchIs
<1>2. UNCHANGED <<upstream, edits, chunks>> /\ upstream[s] # Unusable
  BY DEF source, corpus, FetchSource
<1>3. ~ InProgress(worker[w]) /\ worker[w].version \in Versions
  BY DEF FetchSource, InProgress, IngestTypes
<1>. QED BY <1>1, <1>2, <1>3 DEF Fetches, BecomesRun, InProgress, SameRun

\* Finding the chunks and deleting them go on with the same text.
LEMMA MiddleCalms ==
  ASSUME OneRun, IngestTypes, RowsInv, NEW w \in Workers, FindChunks(w) \/ DeleteChunks(w)
  PROVE  \E you \in WorkerType :
           /\ Calms(w, you) /\ SameRun(worker[w], you)
           /\ InProgress(worker[w])
           /\ you.todo = worker[w].todo /\ you.failed = worker[w].failed
           /\ you.source = worker[w].source /\ you.text = worker[w].text
<1>1. CASE FindChunks(w)
  <2>1. worker[w].version \in Versions /\ worker[w].source \in Sources
    BY <1>1 DEF FindChunks, IngestTypes, InProgress
  <2>2. DocumentFor(worker[w].version, worker[w].source) \in Nat
    BY <2>1, DocumentIs DEF RowsInv, OneRow
  <2>3. PICK you \in WorkerType :
          /\ worker' = [worker EXCEPT ![w] = you]
          /\ you.phase = "deleting" /\ SameRun(worker[w], you)
          /\ you.source = worker[w].source /\ you.text = worker[w].text
          /\ you.todo = worker[w].todo /\ you.failed = worker[w].failed
    BY <1>1, <2>2, FindIs
  <2>4. UNCHANGED <<upstream, edits, chunks>> /\ InProgress(worker[w])
    BY <1>1 DEF source, corpus, FindChunks, InProgress
  <2>. QED BY <2>3, <2>4 DEF Calms, BecomesRun, SameRun
<1>2. CASE DeleteChunks(w)
  <2>3. PICK you \in WorkerType :
          /\ worker' = [worker EXCEPT ![w] = you]
          /\ you.phase = "embedding" /\ SameRun(worker[w], you)
          /\ you.source = worker[w].source /\ you.text = worker[w].text
          /\ you.todo = worker[w].todo /\ you.failed = worker[w].failed
    BY <1>2, DeleteIs
  <2>4. UNCHANGED <<upstream, edits, chunks>> /\ InProgress(worker[w])
    BY <1>2 DEF source, corpus, DeleteChunks, InProgress
  <2>. QED BY <2>3, <2>4 DEF Calms, BecomesRun, SameRun
<1>. QED BY <1>1, <1>2

LEMMA CommitCommits ==
  ASSUME IngestTypes, RowsInv, NEW w \in Workers, CommitSource(w)
  PROVE  \E you \in WorkerType :
           /\ Commits(w, you)
           /\ you.phase = "choosing" /\ SameRun(worker[w], you)
           /\ you.todo = worker[w].todo \ {worker[w].source}
           /\ ~ you.failed <=> ~ worker[w].failed
<1>1. PICK you \in WorkerType :
        /\ worker' = [worker EXCEPT ![w] = you]
        /\ you.phase = "choosing" /\ SameRun(worker[w], you)
        /\ you.todo = worker[w].todo \ {worker[w].source}
        /\ ~ you.failed <=> ~ worker[w].failed /\ ~ FALSE
  BY NextIs DEF CommitSource
<1>2. InProgress(worker[w]) /\ UNCHANGED <<upstream, edits>>
  BY DEF CommitSource, InProgress, source
<1>3. worker[w].version \in Versions /\ worker[w].source \in Sources
  BY CommitIs
<1>4. \A y \in Versions, r \in Sources :
        IF y = worker[w].version /\ r = worker[w].source
        THEN chunks'[y][r] = {ChunkOf(worker[w], rowIds + 1)}
        ELSE chunks'[y][r] = chunks[y][r]
  BY CommitLeaves
<1>5. ~ InProgress(you)
  BY <1>1 DEF InProgress
<1>6. Commits(w, you)
  BY <1>1, <1>2, <1>3, <1>4, <1>5 DEF Commits, BecomesRun
<1>. QED BY <1>1, <1>6

LEMMA StopCalms ==
  ASSUME IngestTypes, NEW w \in Workers, EndRun(w) \/ Crash(w)
  PROVE  Calms(w, NotRunning)
BY IdleRun DEF EndRun, Crash, Calms, BecomesRun, InProgress, source, corpus

LEMMA IngestKinds ==
  ASSUME OneRun, ~ Reverts, IngestTypes, RowsInv, IngestNext
  PROVE  Kinds
<1>1. CASE \E s \in Sources : Edit(s)
  BY <1>1, EditEdits DEF Kinds
<1>2. CASE \E w \in Workers, x \in Versions :
             \E S \in {Sources} \cup {{s} : s \in Sources} : BeginRun(w, x, S)
  BY <1>2, BeginCalms DEF Kinds
<1>3. CASE \E w \in Workers : RunStep(w) \/ Crash(w)
  <2>1. PICK w \in Workers : RunStep(w) \/ Crash(w)
    BY <1>3
  <2>2. CASE (\E s \in Sources : RefuseSource(w, s)) \/ FailSource(w)
    <3>1. \E s : NextSource(w, s, TRUE) /\ UNCHANGED <<source, corpus>>
      BY <2>2 DEF RefuseSource, FailSource
    <3>. QED BY <3>1, NextCalms DEF Kinds
  <2>3. CASE \E s \in Sources : FetchSource(w, s)
    BY <2>3, FetchFetches DEF Kinds
  <2>4. CASE FindChunks(w) \/ DeleteChunks(w)
    BY <2>4, MiddleCalms DEF Kinds
  <2>5. CASE CommitSource(w)
    BY <2>5, CommitCommits DEF Kinds
  <2>6. CASE EndRun(w) \/ Crash(w)
    BY <2>6, StopCalms, IdleRun DEF Kinds
  <2>. QED BY <2>1, <2>2, <2>3, <2>4, <2>5, <2>6 DEF RunStep
<1>. QED BY <1>1, <1>2, <1>3 DEF IngestNext

----------------------------------------------------------------------------
(* Lower bounds stand. *)

LEMMA OnlyRun ==
  ASSUME OneRun, IngestTypes, NEW w \in Workers, NEW you, BecomesRun(w, you)
  PROVE  \A u \in Workers : u = w /\ worker'[u] = you
<1>1. worker'[w] = you
  BY DEF BecomesRun, IngestTypes
<1>2. \A u \in Workers : u = w
  BY DEF OneRun
<1>. QED BY <1>1, <1>2

LEMMA BoundStands ==
  ASSUME IngestTypes, UpstreamBound, Kinds
  PROVE  UpstreamBound'
<1>1. CASE \E s \in Sources, t \in Texts : Edits(s, t)
  <2>1. PICK s \in Sources, t \in Texts : Edits(s, t)
    BY <1>1
  <2>2. ASSUME NEW r \in Sources, upstream'[r] # Unusable
        PROVE  upstream'[r] =< edits'
    <3>1. edits \in Nat /\ edits' = edits + 1 /\ upstream[r] \in Nat \cup {Unusable}
      BY <2>1 DEF Edits, IngestTypes, Corpora, Texts
    <3>2. upstream'[r] = IF r = s THEN t ELSE upstream[r]
      BY <2>1 DEF Edits, IngestTypes, Corpora
    <3>3. t \in {edits', Unusable}
      BY <2>1 DEF Edits
    <3>. QED BY <2>2, <3>1, <3>2, <3>3 DEF UpstreamBound
  <2>. QED BY <2>2 DEF UpstreamBound
<1>2. CASE UNCHANGED <<upstream, edits>>
  BY <1>2 DEF UpstreamBound
<1>. QED BY <1>1, <1>2 DEF Kinds, Calms, Fetches, Commits

LEMMA OlderStands ==
  ASSUME OneRun, IngestTypes, UpstreamBound, Kinds,
         NEW k \in Corpora, NEW x \in Versions, Older(k, x)
  PROVE  Older(k, x)'
<1>. SUFFICES ASSUME NEW s \in Sources, k[s] # Unusable
              PROVE  OlderAt(k, x, s)'
  BY DEF Older, OlderAt
<1>1. k[s] \in Nat /\ edits \in Nat
  BY DEF Corpora, Texts, IngestTypes
<1>2. /\ k[s] =< edits
      /\ upstream[s] # Unusable => k[s] =< upstream[s]
      /\ \A c \in chunks[x][s] : k[s] =< c.text
      /\ \A w \in Workers : Ingesting(worker[w], x, s) => k[s] =< worker[w].text
  BY DEF Older, OlderAt
<1>3. CASE \E r \in Sources, t \in Texts : Edits(r, t)
  <2>1. PICK r \in Sources, t \in Texts : Edits(r, t)
    BY <1>3
  <2>2. edits' = edits + 1 /\ t \in {edits', Unusable} /\ UNCHANGED <<chunks, worker>>
    BY <2>1 DEF Edits
  <2>3. upstream'[s] = IF r = s THEN t ELSE upstream[s]
    BY <2>1 DEF Edits, IngestTypes, Corpora
  <2>4. k[s] =< edits'
    BY <1>1, <1>2, <2>2
  <2>5. upstream'[s] # Unusable => k[s] =< upstream'[s]
    BY <1>2, <2>2, <2>3, <2>4
  <2>. QED BY <1>2, <2>2, <2>4, <2>5 DEF OlderAt
<1>4. CASE \E w \in Workers, you \in WorkerType : Calms(w, you)
  <2>1. PICK w \in Workers, you \in WorkerType : Calms(w, you)
    BY <1>4
  <2>2. \A u \in Workers : u = w /\ worker'[u] = you
    BY <2>1, OnlyRun DEF Calms
  <2>3. Ingesting(you, x, s) => k[s] =< you.text
    BY <1>2, <2>1 DEF Calms, Ingesting
  <2>4. UNCHANGED <<upstream, edits, chunks>>
    BY <2>1 DEF Calms
  <2>. QED BY <1>2, <2>2, <2>3, <2>4 DEF OlderAt
<1>5. CASE \E w \in Workers, r \in Sources, you \in WorkerType : Fetches(w, r, you)
  <2>1. PICK w \in Workers, r \in Sources, you \in WorkerType : Fetches(w, r, you)
    BY <1>5
  <2>2. \A u \in Workers : u = w /\ worker'[u] = you
    BY <2>1, OnlyRun DEF Fetches
  <2>3. Ingesting(you, x, s) => k[s] =< you.text
    BY <1>2, <2>1 DEF Fetches, Ingesting
  <2>4. UNCHANGED <<upstream, edits, chunks>>
    BY <2>1 DEF Fetches
  <2>. QED BY <1>2, <2>2, <2>3, <2>4 DEF OlderAt
<1>6. CASE \E w \in Workers, you \in WorkerType : Commits(w, you)
  <2>1. PICK w \in Workers, you \in WorkerType : Commits(w, you)
    BY <1>6
  <2>2. \A u \in Workers : u = w /\ worker'[u] = you
    BY <2>1, OnlyRun DEF Commits
  <2>3. ~ InProgress(you) /\ UNCHANGED <<upstream, edits>>
    BY <2>1 DEF Commits
  <2>4. \A c \in chunks'[x][s] : k[s] =< c.text
    <3>1. CASE x = worker[w].version /\ s = worker[w].source
      <4>1. chunks'[x][s] = {ChunkOf(worker[w], rowIds + 1)} /\ Ingesting(worker[w], x, s)
        BY <2>1, <3>1 DEF Commits, Ingesting
      <4>2. ChunkOf(worker[w], rowIds + 1).text = worker[w].text
        BY DEF ChunkOf
      <4>. QED BY <1>2, <4>1, <4>2
    <3>2. CASE ~ (x = worker[w].version /\ s = worker[w].source)
      <4>1. chunks'[x][s] = chunks[x][s]
        BY <2>1, <3>2 DEF Commits
      <4>. QED BY <1>2, <4>1
    <3>. QED BY <3>1, <3>2
  <2>. QED BY <1>2, <2>2, <2>3, <2>4 DEF OlderAt, Ingesting
<1>. QED BY <1>3, <1>4, <1>5, <1>6 DEF Kinds

\* The same for what a run means to publish.
LEMMA ImageStands ==
  ASSUME OneRun, IngestTypes, UpstreamBound, NEW u, NEW v, NEW s \in Sources,
         NEW w \in Workers, worker[w] = u, BecomesRun(w, v), SameRun(u, v),
         u.image \in Corpora, ImageAt(u, s), UNCHANGED <<upstream, edits>>,
         InProgress(v) /\ v.source = s =>
           \/ InProgress(u) /\ u.source = s /\ v.text = u.text
           \/ v.text = upstream[s] /\ upstream[s] # Unusable,
         v.full /\ ~ v.failed /\ s \notin v.todo =>
           \A c \in chunks'[u.version][s] :
             \/ c \in chunks[u.version][s] /\ ~ u.failed /\ s \notin u.todo
             \/ InProgress(u) /\ u.source = s /\ c.text = u.text
  PROVE  ImageAt(v, s)'
<1>. SUFFICES ASSUME v.image[s] # Unusable
              PROVE  ImageAt(v, s)'
  BY DEF ImageAt
<1>1. v.image = u.image /\ v.full = u.full /\ v.version = u.version
  BY DEF SameRun
<1>2. /\ u.image[s] =< edits
      /\ upstream[s] # Unusable => u.image[s] =< upstream[s]
      /\ InProgress(u) /\ u.source = s => u.image[s] =< u.text
      /\ u.full /\ ~ u.failed /\ s \notin u.todo =>
           \A c \in chunks[u.version][s] : u.image[s] =< c.text
  BY <1>1 DEF ImageAt
<1>3. InProgress(v) /\ v.source = s => v.image[s] =< v.text
  BY <1>1, <1>2
<1>4. v.full /\ ~ v.failed /\ s \notin v.todo =>
        \A c \in chunks'[v.version][s] : v.image[s] =< c.text
  BY <1>1, <1>2
<1>. QED BY <1>1, <1>2, <1>3, <1>4 DEF ImageAt

\* What the run has in hand.
RunFits(u) == FetchedOf(u) /\ ImageOlder(u)

LEMMA EditRun ==
  ASSUME IngestTypes, TextsInv, NEW r \in Sources, NEW t \in Texts, Edits(r, t),
         NEW w \in Workers
  PROVE  RunFits(worker[w])'
<1>. DEFINE u == worker[w]
<1>1. edits' = edits + 1 /\ t \in {edits', Unusable} /\ UNCHANGED <<chunks, worker>> /\ edits \in Nat
  BY DEF Edits, IngestTypes
<1>2. u' = u /\ u \in WorkerType
  BY <1>1 DEF IngestTypes
<1>3. FetchedOf(u) /\ ImageOlder(u)
  BY DEF TextsInv
<1>4. FetchedOf(u)'
  <2>. SUFFICES ASSUME InProgress(u)
                PROVE  FetchedOf(u)'
    BY <1>2 DEF FetchedOf
  <2>1. u.text \in Nat /\ u.source \in Sources
    BY <1>2 DEF WorkerType, IngestTypes
  <2>. HIDE DEF u
  <2>2. u.source \in u.todo /\ u.text =< edits
    BY <1>3 DEF FetchedOf
  <2>3. u.text =< edits'
    BY <1>1, <2>1, <2>2
  <2>4. upstream'[u.source] = IF r = u.source THEN t ELSE upstream[u.source]
    BY <2>1 DEF Edits, IngestTypes, Corpora
  <2>5. upstream'[u.source] # Unusable => u.text =< upstream'[u.source]
    BY <1>1, <1>3, <2>3, <2>4 DEF FetchedOf
  <2>. QED BY <1>2, <2>2, <2>3, <2>5 DEF FetchedOf
<1>5. ASSUME u.phase # "idle", NEW s \in Sources, u.image[s] # Unusable
      PROVE  ImageAt(u, s)'
  <2>1. u.image[s] \in Nat
    BY <1>5 DEF IngestTypes, Corpora, Texts
  <2>2. ImageAt(u, s)
    BY <1>3, <1>5 DEF ImageOlder
  <2>3. upstream'[s] = IF r = s THEN t ELSE upstream[s]
    BY DEF Edits, IngestTypes, Corpora
  <2>. HIDE DEF u
  <2>4. u.image[s] =< edits'
    BY <1>1, <1>5, <2>1, <2>2 DEF ImageAt
  <2>5. upstream'[s] # Unusable => u.image[s] =< upstream'[s]
    BY <1>1, <1>5, <2>2, <2>3, <2>4 DEF ImageAt
  <2>. QED BY <1>1, <1>2, <1>5, <2>2, <2>4, <2>5 DEF ImageAt
<1>6. ImageOlder(u)'
  <2>. HIDE DEF u
  <2>1. \A s \in Sources : u.phase # "idle" => ImageAt(u, s)'
    BY <1>1, <1>2, <1>5 DEF ImageAt
  <2>. QED BY <1>2, <2>1 DEF ImageOlder
<1>. QED BY <1>4, <1>6 DEF RunFits

LEMMA BeginRunFits ==
  ASSUME OneRun, IngestTypes, TextsInv, NEW w \in Workers, NEW x \in Versions,
         NEW S \in {Sources} \cup {{s} : s \in Sources}, BeginRun(w, x, S)
  PROVE  RunFits(worker[w])'
<1>1. PICK you \in WorkerType :
        /\ Calms(w, you)
        /\ you.phase = "choosing" /\ you.version = x /\ you.todo = S
        /\ you.image = upstream /\ you.full = (S = Sources) /\ ~ you.failed
  BY BeginCalms
<1>2. worker'[w] = you /\ UNCHANGED <<upstream, edits, chunks>>
  BY <1>1, OnlyRun DEF Calms
<1>3. ~ InProgress(you)
  BY <1>1 DEF InProgress
<1>4. ASSUME NEW s \in Sources, you.image[s] # Unusable
      PROVE  ImageAt(you, s)'
  <2>1. upstream[s] \in Nat /\ upstream[s] =< edits
    BY <1>1, <1>4 DEF IngestTypes, Corpora, Texts, TextsInv, UpstreamBound
  <2>2. ~ (you.full /\ s \notin you.todo)
    BY <1>1
  <2>. QED BY <1>1, <1>2, <1>3, <2>1, <2>2 DEF ImageAt
<1>5. \A s \in Sources : ImageAt(you, s)'
  BY <1>2, <1>4 DEF ImageAt
<1>. QED BY <1>2, <1>3, <1>5 DEF RunFits, FetchedOf, ImageOlder

LEMMA NextFits ==
  ASSUME OneRun, IngestTypes, TextsInv, NEW w \in Workers, NEW s, NextSource(w, s, TRUE),
         worker[w].phase # "idle", UNCHANGED <<source, corpus>>
  PROVE  RunFits(worker[w])'
<1>1. PICK you \in WorkerType :
        /\ Calms(w, you)
        /\ you.phase = "choosing" /\ SameRun(worker[w], you) /\ you.failed
  BY NextCalms
<1>2. worker'[w] = you /\ BecomesRun(w, you) /\ UNCHANGED <<upstream, edits>>
  BY <1>1, OnlyRun DEF Calms
<1>3. ~ InProgress(you)
  BY <1>1 DEF InProgress
<1>4. ASSUME NEW r \in Sources
      PROVE  ImageAt(you, r)'
  <2>1. ImageAt(worker[w], r) /\ worker[w].image \in Corpora
    BY DEF TextsInv, ImageOlder, IngestTypes
  <2>. QED BY <1>1, <1>2, <1>3, <2>1, ImageStands DEF TextsInv
<1>. QED BY <1>2, <1>3, <1>4 DEF RunFits, FetchedOf, ImageOlder

LEMMA FetchFits ==
  ASSUME OneRun, IngestTypes, TextsInv, NEW w \in Workers, NEW s \in Sources, FetchSource(w, s)
  PROVE  RunFits(worker[w])'
<1>1. PICK you \in WorkerType :
        /\ Fetches(w, s, you) /\ SameRun(worker[w], you)
        /\ you.todo = worker[w].todo /\ you.failed = worker[w].failed
  BY FetchFetches
<1>2. worker'[w] = you /\ BecomesRun(w, you) /\ UNCHANGED <<upstream, edits, chunks>>
  BY <1>1, OnlyRun DEF Fetches
<1>3. you.source = s /\ you.text = upstream[s] /\ upstream[s] # Unusable
  BY <1>1 DEF Fetches
<1>4. worker[w].phase # "idle" /\ s \in worker[w].todo
  BY DEF FetchSource
<1>5. FetchedOf(you)'
  <2>1. upstream[s] \in Nat /\ upstream[s] =< edits
    BY <1>3 DEF IngestTypes, Corpora, Texts, TextsInv, UpstreamBound
  <2>2. you.text =< edits /\ you.text =< upstream[s]
    BY <1>3, <2>1
  <2>. QED BY <1>1, <1>2, <1>3, <1>4, <2>2 DEF FetchedOf
<1>6. ASSUME NEW r \in Sources
      PROVE  ImageAt(you, r)'
  <2>1. ImageAt(worker[w], r) /\ worker[w].image \in Corpora
    BY <1>4 DEF TextsInv, ImageOlder, IngestTypes
  <2>. QED BY <1>1, <1>2, <1>3, <2>1, ImageStands DEF TextsInv
<1>. QED BY <1>2, <1>5, <1>6 DEF RunFits, ImageOlder, FetchedOf

LEMMA MiddleFits ==
  ASSUME OneRun, IngestTypes, RowsInv, TextsInv, NEW w \in Workers,
         FindChunks(w) \/ DeleteChunks(w)
  PROVE  RunFits(worker[w])'
<1>1. PICK you \in WorkerType :
        /\ Calms(w, you) /\ SameRun(worker[w], you)
        /\ InProgress(worker[w])
        /\ you.todo = worker[w].todo /\ you.failed = worker[w].failed
        /\ you.source = worker[w].source /\ you.text = worker[w].text
  BY MiddleCalms
<1>2. worker'[w] = you /\ BecomesRun(w, you) /\ UNCHANGED <<upstream, edits, chunks>>
  BY <1>1, OnlyRun DEF Calms
<1>3. worker[w].phase # "idle"
  BY <1>1 DEF InProgress
<1>4. FetchedOf(you)'
  BY <1>1, <1>2 DEF FetchedOf, TextsInv
<1>5. ASSUME NEW r \in Sources
      PROVE  ImageAt(you, r)'
  <2>1. ImageAt(worker[w], r) /\ worker[w].image \in Corpora
    BY <1>3 DEF TextsInv, ImageOlder, IngestTypes
  <2>. QED BY <1>1, <1>2, <2>1, ImageStands DEF TextsInv
<1>. QED BY <1>2, <1>4, <1>5 DEF RunFits, ImageOlder, FetchedOf

LEMMA CommitFits ==
  ASSUME OneRun, IngestTypes, RowsInv, TextsInv, NEW w \in Workers, CommitSource(w)
  PROVE  RunFits(worker[w])'
<1>. DEFINE u == worker[w]
<1>1. PICK you \in WorkerType :
        /\ Commits(w, you)
        /\ you.phase = "choosing" /\ SameRun(worker[w], you)
        /\ you.todo = worker[w].todo \ {worker[w].source}
        /\ ~ you.failed <=> ~ worker[w].failed
  BY CommitCommits
<1>2. worker'[w] = you /\ BecomesRun(w, you) /\ UNCHANGED <<upstream, edits>>
  BY <1>1, OnlyRun DEF Commits
<1>3. ~ InProgress(you) /\ InProgress(u) /\ u.version \in Versions /\ u.source \in Sources
  BY <1>1 DEF Commits
<1>4. u.phase # "idle"
  BY <1>3 DEF InProgress
<1>5. ASSUME NEW r \in Sources
      PROVE  ImageAt(you, r)'
  <2>1. ImageAt(u, r) /\ u.image \in Corpora
    BY <1>4 DEF TextsInv, ImageOlder, IngestTypes
  <2>2. you.full /\ ~ you.failed /\ r \notin you.todo =>
          \A c \in chunks'[u.version][r] :
            \/ c \in chunks[u.version][r] /\ ~ u.failed /\ r \notin u.todo
            \/ InProgress(u) /\ u.source = r /\ c.text = u.text
    <3>1. CASE r = u.source
      <4>1. chunks'[u.version][r] = {ChunkOf(u, rowIds + 1)}
        BY <1>1, <3>1 DEF Commits
      <4>2. ChunkOf(u, rowIds + 1).text = u.text
        BY DEF ChunkOf
      <4>. QED BY <1>3, <3>1, <4>1, <4>2
    <3>2. CASE r # u.source
      <4>1. chunks'[u.version][r] = chunks[u.version][r]
        BY <1>1, <1>3, <3>2 DEF Commits
      <4>. QED BY <1>1, <3>2, <4>1
    <3>. QED BY <3>1, <3>2
  <2>. QED BY <1>1, <1>2, <1>3, <2>1, <2>2, ImageStands DEF TextsInv
<1>. QED BY <1>2, <1>3, <1>5 DEF RunFits, ImageOlder, FetchedOf

LEMMA RunsFit ==
  ASSUME OneRun, ~ Reverts, IngestTypes, RowsInv, TextsInv, IngestNext
  PROVE  \A w \in Workers : RunFits(worker[w])'
<1>1. CASE \E s \in Sources : Edit(s)
  BY <1>1, EditEdits, EditRun
<1>2. CASE \E w \in Workers, x \in Versions :
             \E S \in {Sources} \cup {{s} : s \in Sources} : BeginRun(w, x, S)
  <2>1. PICK w \in Workers, x \in Versions, S \in {Sources} \cup {{s} : s \in Sources} :
          BeginRun(w, x, S)
    BY <1>2
  <2>2. RunFits(worker[w])'
    BY <2>1, BeginRunFits
  <2>3. \A u \in Workers : u = w
    BY DEF OneRun
  <2>. QED BY <2>2, <2>3
<1>3. CASE \E w \in Workers : RunStep(w) \/ Crash(w)
  <2>1. PICK w \in Workers : RunStep(w) \/ Crash(w)
    BY <1>3
  <2>2. RunFits(worker[w])'
    <3>2. CASE (\E s \in Sources : RefuseSource(w, s)) \/ FailSource(w)
      <4>1. \E s : NextSource(w, s, TRUE) /\ UNCHANGED <<source, corpus>>
        BY <3>2 DEF RefuseSource, FailSource
      <4>2. worker[w].phase # "idle"
        BY <3>2 DEF RefuseSource, FailSource
      <4>. QED BY <4>1, <4>2, NextFits
    <3>3. CASE \E s \in Sources : FetchSource(w, s)
      BY <3>3, FetchFits
    <3>4. CASE FindChunks(w) \/ DeleteChunks(w)
      BY <3>4, MiddleFits
    <3>5. CASE CommitSource(w)
      BY <3>5, CommitFits
    <3>6. CASE EndRun(w) \/ Crash(w)
      <4>1. worker'[w] = NotRunning
        BY <3>6, StopCalms, OnlyRun DEF Calms
      <4>. QED BY <4>1, IdleRun DEF RunFits, FetchedOf, ImageOlder, InProgress
    <3>. QED BY <2>1, <3>2, <3>3, <3>4, <3>5, <3>6 DEF RunStep
  <2>3. \A u \in Workers : u = w
    BY DEF OneRun
  <2>. QED BY <2>2, <2>3
<1>. QED BY <1>1, <1>2, <1>3 DEF IngestNext

----------------------------------------------------------------------------
(* Fingerprints. *)

HashFits(x) == Unbuilt(x) /\ (hash[x] # Absent => Older(hash[x], x))

LEMMA HashStands ==
  ASSUME OneRun, IngestTypes, UpstreamBound, Kinds, NEW x \in Versions,
         HashFits(x), hash'[x] = hash[x], Unbuilt(x)'
  PROVE  HashFits(x)'
<1>1. CASE hash[x] # Absent
  <2>1. hash[x] \in Corpora /\ Older(hash[x], x)
    BY <1>1 DEF IngestTypes, HashFits
  <2>2. PICK k \in Corpora : k = hash[x]
    BY <2>1
  <2>3. Older(k, x)
    BY <2>1, <2>2
  <2>4. Older(k, x)'
    BY <2>3, OlderStands
  <2>5. k = hash'[x]
    BY <2>2
  <2>. QED BY <2>4, <2>5 DEF HashFits, Older, OlderAt
<1>2. CASE hash[x] = Absent
  BY <1>2 DEF HashFits
<1>. QED BY <1>1, <1>2

LEMMA UnbuiltStays ==
  ASSUME OneRun, IngestTypes, NEW x \in Versions, Unbuilt(x), hash'[x] = hash[x],
         NEW w \in Workers, NEW you, BecomesRun(w, you),
         you.phase # "idle" => you.version = worker[w].version /\ worker[w].phase # "idle",
         \A s \in Sources : chunks'[x][s] # chunks[x][s] =>
           x = worker[w].version /\ worker[w].phase # "idle"
  PROVE  Unbuilt(x)'
<1>1. \A u \in Workers : u = w /\ worker'[u] = you
  BY OnlyRun
<1>2. SUFFICES ASSUME hash[x] = Absent
               PROVE  /\ \A s \in Sources : chunks'[x][s] = {}
                      /\ \A u \in Workers : worker'[u].phase # "idle" => worker'[u].version # x
  BY DEF Unbuilt
<1>3. /\ \A s \in Sources : chunks[x][s] = {}
      /\ worker[w].phase # "idle" => worker[w].version # x
  BY <1>2 DEF Unbuilt
<1>. QED BY <1>1, <1>3

LEMMA BeginHash ==
  ASSUME OneRun, IngestTypes, TextsInv, Kinds, NEW w \in Workers, NEW y \in Versions,
         NEW S \in SUBSET Sources, BeginRun(w, y, S), NEW x \in Versions
  PROVE  HashFits(x)'
<1>1. PICK you \in WorkerType :
        Calms(w, you) /\ you.phase = "choosing" /\ you.version = y /\ you.image = upstream
  BY BeginCalms
<1>2. \A u \in Workers : u = w /\ worker'[u] = you
  BY <1>1, OnlyRun DEF Calms
<1>3. UNCHANGED <<upstream, edits, chunks>>
  BY <1>1 DEF Calms
<1>4. HashFits(x)
  BY DEF TextsInv, HashFits
<1>5. upstream \in Corpora /\ upstream # Absent
  BY SentinelAssumption DEF IngestTypes, Corpora, Texts
<1>6. hash'[x] = IF x = y /\ hash[y] = Absent THEN upstream ELSE hash[x]
  BY DEF BeginRun, IngestTypes
<1>7. CASE x # y
  <2>1. Unbuilt(x)'
    BY <1>2, <1>3, <1>4, <1>6, <1>7, <1>1 DEF Unbuilt, HashFits
  <2>. QED BY <1>4, <1>6, <1>7, <2>1, HashStands DEF TextsInv
<1>8. CASE x = y /\ hash[y] # Absent
  <2>1. Unbuilt(x)'
    BY <1>6, <1>8 DEF Unbuilt
  <2>. QED BY <1>4, <1>6, <1>8, <2>1, HashStands DEF TextsInv
<1>9. CASE x = y /\ hash[y] = Absent
  <2>1. hash'[x] = upstream /\ Unbuilt(x)'
    BY <1>5, <1>6, <1>9 DEF Unbuilt
  <2>2. \A s \in Sources : chunks[x][s] = {}
    BY <1>4, <1>9 DEF HashFits, Unbuilt
  <2>3. ASSUME NEW s \in Sources, upstream[s] # Unusable
        PROVE  OlderAt(upstream, x, s)'
    <3>1. upstream[s] \in Nat /\ upstream[s] =< edits
      BY <2>3 DEF IngestTypes, Corpora, Texts, TextsInv, UpstreamBound
    <3>2. \A u \in Workers : ~ Ingesting(worker'[u], x, s)
      BY <1>1, <1>2 DEF Ingesting, InProgress
    <3>. QED BY <1>3, <2>2, <3>1, <3>2 DEF OlderAt
  <2>4. \A s \in Sources : OlderAt(upstream, x, s)'
    BY <1>3, <2>3 DEF OlderAt
  <2>. QED BY <1>3, <2>1, <2>4 DEF HashFits, Older, OlderAt
<1>. QED BY <1>7, <1>8, <1>9

LEMMA EndHash ==
  ASSUME OneRun, IngestTypes, RowsInv, TextsInv, Kinds, NEW w \in Workers, EndRun(w),
         NEW x \in Versions
  PROVE  HashFits(x)'
<1>. DEFINE u == worker[w]
<1>1. \A v \in Workers : v = w /\ worker'[v] = NotRunning
  BY StopCalms, OnlyRun DEF Calms
<1>2. UNCHANGED <<upstream, edits, chunks>> /\ BecomesRun(w, NotRunning)
  BY StopCalms DEF Calms
<1>3. HashFits(x)
  BY DEF TextsInv, HashFits
<1>4. u.version \in Versions /\ u.image \in Corpora /\ u.todo = {}
  BY DEF EndRun, IngestTypes
<1>5. CASE Publishes(w) /\ x = u.version
  <2>1. hash'[x] = u.image
    BY <1>4, <1>5 DEF EndRun, IngestTypes
  <2>2. u.image # Absent
    BY <1>4, SentinelAssumption DEF Corpora, Texts
  <2>3. PICK k \in Corpora : k = u.image
    BY <1>4
  <2>4. ASSUME NEW s \in Sources
        PROVE  OlderAt(k, x, s)'
    <3>1. ImageAt(u, s)
      BY DEF EndRun, TextsInv, ImageOlder
    <3>2. \A v \in Workers : ~ Ingesting(worker'[v], x, s)
      BY <1>1, IdleRun DEF Ingesting, InProgress
    <3>3. u.full /\ ~ u.failed
      BY <1>5 DEF Publishes
    <3>. HIDE DEF u
    <3>. QED BY <1>2, <1>4, <1>5, <2>3, <3>1, <3>2, <3>3 DEF OlderAt, ImageAt
  <2>5. k = hash'[x]
    BY <2>1, <2>3
  <2>6. Older(hash[x], x)'
    BY <2>4, <2>5 DEF Older, OlderAt
  <2>. QED BY <2>1, <2>2, <2>6 DEF HashFits, Unbuilt
<1>6. CASE ~ (Publishes(w) /\ x = u.version)
  <2>1. hash'[x] = hash[x]
    BY <1>4, <1>6 DEF EndRun, IngestTypes
  <2>2. Unbuilt(x)'
    BY <1>2, <1>3, <2>1, IdleRun, UnbuiltStays DEF HashFits
  <2>. QED BY <1>3, <2>1, <2>2, HashStands DEF TextsInv
<1>. QED BY <1>5, <1>6

LEMMA StepHash ==
  ASSUME OneRun, IngestTypes, RowsInv, TextsInv, Kinds, NEW w \in Workers,
         RunStep(w) \/ Crash(w), ~ EndRun(w), NEW x \in Versions
  PROVE  HashFits(x)'
<1>1. hash'[x] = hash[x]
  BY DEF RunStep, Crash, RefuseSource, FetchSource, FindChunks, DeleteChunks, FailSource,
         CommitSource
<1>2. HashFits(x)
  BY DEF TextsInv, HashFits
<1>3. Unbuilt(x)'
  <2>1. CASE (\E s \in Sources : RefuseSource(w, s)) \/ FailSource(w)
    <3>1. PICK s : NextSource(w, s, TRUE) /\ UNCHANGED <<source, corpus>>
      BY <2>1 DEF RefuseSource, FailSource
    <3>2. worker[w].phase # "idle"
      BY <2>1 DEF RefuseSource, FailSource
    <3>3. PICK you : Calms(w, you) /\ SameRun(worker[w], you)
      BY <3>1, NextCalms
    <3>. QED BY <1>1, <1>2, <3>2, <3>3, UnbuiltStays DEF Calms, SameRun, HashFits
  <2>2. CASE \E s \in Sources : FetchSource(w, s)
    <3>1. PICK s \in Sources : FetchSource(w, s)
      BY <2>2
    <3>2. worker[w].phase # "idle"
      BY <3>1 DEF FetchSource
    <3>3. PICK you : Fetches(w, s, you) /\ SameRun(worker[w], you)
      BY <3>1, FetchFetches
    <3>. QED BY <1>1, <1>2, <3>2, <3>3, UnbuiltStays DEF Fetches, SameRun, HashFits
  <2>3. CASE FindChunks(w) \/ DeleteChunks(w)
    <3>2. worker[w].phase # "idle"
      BY <2>3 DEF FindChunks, DeleteChunks
    <3>3. PICK you : Calms(w, you) /\ SameRun(worker[w], you)
      BY <2>3, MiddleCalms
    <3>. QED BY <1>1, <1>2, <3>2, <3>3, UnbuiltStays DEF Calms, SameRun, HashFits
  <2>4. CASE CommitSource(w)
    <3>2. worker[w].phase # "idle"
      BY <2>4 DEF CommitSource
    <3>3. PICK you : Commits(w, you) /\ SameRun(worker[w], you)
      BY <2>4, CommitCommits
    <3>. QED BY <1>1, <1>2, <3>2, <3>3, UnbuiltStays DEF Commits, SameRun, HashFits
  <2>5. CASE Crash(w)
    <3>1. Calms(w, NotRunning)
      BY <2>5, StopCalms
    <3>. QED BY <1>1, <1>2, <3>1, IdleRun, UnbuiltStays DEF Calms, HashFits
  <2>. QED BY <2>1, <2>2, <2>3, <2>4, <2>5 DEF RunStep
<1>. QED BY <1>1, <1>2, <1>3, HashStands DEF TextsInv

LEMMA TextsKeep ==
  ASSUME OneRun, ~ Reverts, IngestTypes, RowsInv, TextsInv, IngestNext
  PROVE  TextsInv'
<1>1. Kinds
  BY IngestKinds
<1>2. UpstreamBound'
  BY <1>1, BoundStands DEF TextsInv
<1>3. \A w \in Workers : RunFits(worker[w])'
  BY RunsFit
<1>4. ASSUME NEW x \in Versions
      PROVE  HashFits(x)'
  <2>1. CASE \E s \in Sources : Edit(s)
    <3>1. UNCHANGED <<hash, chunks, worker>>
      BY <2>1 DEF Edit, corpus
    <3>2. HashFits(x)
      BY DEF TextsInv, HashFits
    <3>3. Unbuilt(x)'
      BY <3>1, <3>2 DEF HashFits, Unbuilt
    <3>. QED BY <1>1, <3>1, <3>2, <3>3, HashStands DEF TextsInv
  <2>2. CASE \E w \in Workers, y \in Versions :
               \E S \in {Sources} \cup {{s} : s \in Sources} : BeginRun(w, y, S)
    BY <1>1, <2>2, BeginHash
  <2>3. CASE \E w \in Workers : RunStep(w) \/ Crash(w)
    BY <1>1, <2>3, EndHash, StepHash
  <2>. QED BY <2>1, <2>2, <2>3 DEF IngestNext
<1>. QED BY <1>2, <1>3, <1>4 DEF TextsInv, RunFits, HashFits

----------------------------------------------------------------------------
(* Requests, field by field. *)

\* A request, whatever its fields hold.
IsAsk(q) ==
  q \in [phase : {q.phase}, pinned : {q.pinned}, key : {q.key}, pin : {q.pin},
         arms : {q.arms}, evidence : {q.evidence}, cacheable : BOOLEAN]

AskShapes == ask = [a \in Askers |-> ask[a]] /\ \A a \in Askers : IsAsk(ask[a])

SamePin(q, r) == r.pinned = q.pinned /\ r.key = q.key /\ r.pin = q.pin

AskBecomes(a, r) == IsAsk(r) /\ ask' = [ask EXCEPT ![a] = r]

LEMMA AskIs ==
  ASSUME AskShapes, NEW a \in Askers, NEW r, AskBecomes(a, r)
  PROVE  /\ AskShapes'
         /\ ask'[a] = r
         /\ \A b \in Askers \ {a} : ask'[b] = ask[b]
<1>1. ask' = [b \in Askers |-> IF b = a THEN r ELSE ask[b]]
  BY DEF AskShapes, AskBecomes
<1>2. ask'[a] = r /\ \A b \in Askers \ {a} : ask'[b] = ask[b]
  BY <1>1
<1>3. \A b \in Askers : IsAsk(ask'[b])
  BY <1>2 DEF AskShapes, AskBecomes
<1>4. ask' = [b \in Askers |-> ask'[b]]
  BY <1>1
<1>. QED BY <1>2, <1>3, <1>4 DEF AskShapes

LEMMA IdleAsk == IsAsk(NotAsking) /\ ~ NotAsking.cacheable /\ NotAsking.phase = "idle"
                   /\ NotAsking.evidence = {} /\ NotAsking.key = NoHash
                   /\ NotAsking.pinned = Absent /\ NotAsking.arms = 0 /\ NotAsking.pin = "none"
BY DEF NotAsking, IsAsk

LEMMA ReadIs ==
  ASSUME NEW a \in Askers, ReadIndex(a)
  PROVE  \E r : /\ AskBecomes(a, r)
                /\ r.phase = "pinned" /\ ~ r.cacheable /\ r.evidence = {} /\ r.arms = 0
                /\ \/ /\ Resolution = "one"
                      /\ r.pinned = (CHOOSE y \in active : TRUE)
                      /\ r.key = hash[CHOOSE y \in active : TRUE] /\ r.pin = "one"
                   \/ r.pinned = Absent /\ r.key = NoHash /\ r.pin = Resolution
<1>. DEFINE x == CHOOSE y \in active : TRUE
            one == [NotAsking EXCEPT !.phase = "pinned", !.pinned = x, !.key = hash[x],
                                     !.pin = "one"]
            other == [NotAsking EXCEPT !.phase = "pinned", !.pin = Resolution]
<1>1. ask' = [ask EXCEPT ![a] = IF Resolution = "one" THEN one ELSE other]
  BY DEF ReadIndex
<1>. HIDE DEF x
<1>2. /\ IsAsk(one) /\ one.phase = "pinned" /\ ~ one.cacheable /\ one.evidence = {}
      /\ one.arms = 0 /\ one.pinned = x /\ one.key = hash[x] /\ one.pin = "one"
  BY DEF NotAsking, IsAsk
<1>3. /\ IsAsk(other) /\ other.phase = "pinned" /\ ~ other.cacheable /\ other.evidence = {}
      /\ other.arms = 0 /\ other.pinned = Absent /\ other.key = NoHash
      /\ other.pin = Resolution
  BY DEF NotAsking, IsAsk
<1>. HIDE DEF one, other
<1>4. CASE Resolution = "one"
  BY <1>1, <1>2, <1>4 DEF AskBecomes, x
<1>5. CASE Resolution # "one"
  BY <1>1, <1>3, <1>5 DEF AskBecomes
<1>. QED BY <1>4, <1>5

LEMMA MissIs ==
  ASSUME AskShapes, NEW a \in Askers, Miss(a)
  PROVE  \E r : /\ AskBecomes(a, r) /\ SamePin(ask[a], r)
                /\ r.phase = "retrieving" /\ r.cacheable = ask[a].cacheable
                /\ r.evidence = ask[a].evidence /\ r.arms = 2
<1>. DEFINE q == ask[a]
            r == [q EXCEPT !.phase = "retrieving", !.arms = 2]
<1>1. IsAsk(q)
  BY DEF AskShapes
<1>2. ask' = [ask EXCEPT ![a] = r]
  BY DEF Miss
<1>. HIDE DEF q
<1>3. /\ IsAsk(r) /\ SamePin(q, r) /\ r.phase = "retrieving" /\ r.cacheable = q.cacheable
      /\ r.evidence = q.evidence /\ r.arms = 2
  BY <1>1 DEF IsAsk, SamePin
<1>. HIDE DEF r
<1>. QED BY <1>2, <1>3 DEF AskBecomes, q

LEMMA ArmIs ==
  ASSUME AskShapes, NEW a \in Askers, RetrieveArm(a)
  PROVE  \E r, V, left :
           /\ V \in Scopes(a) /\ left \in {ask[a].arms - 1, 0}
           /\ AskBecomes(a, r) /\ SamePin(ask[a], r)
           /\ r.phase = ask[a].phase /\ r.cacheable = ask[a].cacheable
           /\ r.evidence = ask[a].evidence \cup Visible(V) /\ r.arms = left
<1>1. PICK V \in Scopes(a), left \in {ask[a].arms - 1, 0} :
        ask' = [ask EXCEPT ![a] =
            [ask[a] EXCEPT !.arms = left, !.evidence = ask[a].evidence \cup Visible(V)]]
  BY DEF RetrieveArm
<1>. DEFINE q == ask[a]
            E == q.evidence \cup Visible(V)
            r == [q EXCEPT !.arms = left, !.evidence = E]
<1>2. IsAsk(q)
  BY DEF AskShapes
<1>3. ask' = [ask EXCEPT ![a] = r]
  BY <1>1
<1>. HIDE DEF q, E
<1>4. /\ IsAsk(r) /\ SamePin(q, r) /\ r.phase = q.phase /\ r.cacheable = q.cacheable
      /\ r.evidence = E /\ r.arms = left
  BY <1>2 DEF IsAsk, SamePin
<1>. HIDE DEF r
<1>. QED BY <1>1, <1>3, <1>4 DEF AskBecomes, q, E

LEMMA FinalIs ==
  ASSUME AskShapes, NEW a \in Askers, Finalize(a)
  PROVE  \E r : /\ AskBecomes(a, r) /\ SamePin(ask[a], r)
                /\ r.phase = "generating" /\ (r.cacheable => MayCache(a))
                /\ r.evidence = ask[a].evidence /\ r.arms = ask[a].arms
<1>1. PICK degraded \in BOOLEAN :
        ask' = [ask EXCEPT ![a] =
          [ask[a] EXCEPT !.phase = "generating", !.cacheable = ~ degraded /\ MayCache(a)]]
  BY DEF Finalize
<1>. DEFINE q == ask[a]
            b == ~ degraded /\ MayCache(a)
            r == [q EXCEPT !.phase = "generating", !.cacheable = b]
<1>2. IsAsk(q) /\ b \in BOOLEAN /\ (b => MayCache(a))
  BY DEF AskShapes
<1>3. ask' = [ask EXCEPT ![a] = r]
  BY <1>1
<1>. HIDE DEF q, b
<1>4. /\ IsAsk(r) /\ SamePin(q, r) /\ r.phase = "generating" /\ r.cacheable = b
      /\ r.evidence = q.evidence /\ r.arms = q.arms
  BY <1>2 DEF IsAsk, SamePin
<1>. HIDE DEF r
<1>. QED BY <1>2, <1>3, <1>4 DEF AskBecomes, q

LEMMA AnsweredIs ==
  ASSUME AskShapes, NEW a \in Askers, Generate(a)
  PROVE  \E r : /\ AskBecomes(a, r) /\ SamePin(ask[a], r)
                /\ r.phase = "answered" /\ r.cacheable = ask[a].cacheable
                /\ r.evidence = ask[a].evidence /\ r.arms = ask[a].arms
<1>. DEFINE q == ask[a]
            r == [q EXCEPT !.phase = "answered"]
<1>1. IsAsk(q)
  BY DEF AskShapes
<1>2. ask' = [ask EXCEPT ![a] = r]
  BY DEF Generate
<1>. HIDE DEF q
<1>3. /\ IsAsk(r) /\ SamePin(q, r) /\ r.phase = "answered" /\ r.cacheable = q.cacheable
      /\ r.evidence = q.evidence /\ r.arms = q.arms
  BY <1>1 DEF IsAsk, SamePin
<1>. HIDE DEF r
<1>. QED BY <1>2, <1>3 DEF AskBecomes, q

\* The steps that end a request.
Closes(a) ==
  AnswerFromCache(a) \/ GiveUp(a) \/ FailOnEvidence(a) \/ Persist(a) \/ Abandon(a)

LEMMA ClosesIs ==
  ASSUME NEW a \in Askers, Closes(a)
  PROVE  AskBecomes(a, NotAsking)
BY IdleAsk DEF Closes, AnswerFromCache, GiveUp, FailOnEvidence, Persist, Abandon, Ends,
   AskBecomes

----------------------------------------------------------------------------
(* No union of versions is frozen. *)

Unmixed(q) ==
  /\ q.cacheable => ~ SpansVersions(q.evidence)
  /\ q.phase \in {"idle", "pinned", "retrieving"} => ~ q.cacheable

UnionInv == AskShapes /\ (\A a \in Askers : Unmixed(ask[a])) /\ NoFrozenUnion

LEMMA UnmixedKeeps ==
  ASSUME UnionInv, NEW a \in Askers, NEW r, AskBecomes(a, r), Unmixed(r)
  PROVE  AskShapes' /\ \A b \in Askers : Unmixed(ask[b])'
<1>1. AskShapes' /\ ask'[a] = r /\ \A b \in Askers \ {a} : ask'[b] = ask[b]
  BY AskIs DEF UnionInv
<1>2. \A b \in Askers : Unmixed(ask'[b])
  BY <1>1 DEF UnionInv
<1>. QED BY <1>1, <1>2 DEF Unmixed, SpansVersions

LEMMA AskUnion ==
  ASSUME UnionInv, NEW a \in Askers, ReadIndex(a) \/ AskStep(a) \/ Abandon(a)
  PROVE  UnionInv'
<1>1. IsAsk(ask[a]) /\ Unmixed(ask[a])
  BY DEF UnionInv, AskShapes
<1>2. \E r : AskBecomes(a, r) /\ Unmixed(r)
  <2>1. CASE ReadIndex(a)
    BY <2>1, ReadIs DEF Unmixed
  <2>2. CASE Miss(a)
    <3>1. ~ ask[a].cacheable
      BY <1>1, <2>2 DEF Miss, Unmixed
    <3>. QED BY <2>2, <3>1, MissIs DEF Unmixed, UnionInv
  <2>3. CASE RetrieveArm(a)
    <3>1. ~ ask[a].cacheable
      BY <1>1, <2>3 DEF RetrieveArm, Unmixed
    <3>. QED BY <2>3, <3>1, ArmIs DEF Unmixed, UnionInv
  <2>4. CASE Finalize(a)
    BY <2>4, FinalIs DEF Unmixed, UnionInv, MayCache
  <2>5. CASE Generate(a)
    BY <1>1, <2>5, AnsweredIs DEF Unmixed, UnionInv
  <2>6. CASE Closes(a)
    BY <2>6, ClosesIs, IdleAsk DEF Unmixed
  <2>. QED BY <2>1, <2>2, <2>3, <2>4, <2>5, <2>6 DEF AskStep, Closes
<1>3. NoFrozenUnion'
  <2>1. CASE Persist(a)
    <3>1. \A e \in cache' : e \in cache \/ (ask[a].cacheable /\ e = Entry(a))
      BY <2>1 DEF Persist
    <3>2. ask[a].cacheable => ~ SpansVersions(Entry(a).evidence)
      BY <1>1 DEF Unmixed, Entry
    <3>. QED BY <3>1, <3>2 DEF UnionInv, NoFrozenUnion, SpansVersions
  <2>2. CASE UNCHANGED cache
    BY <2>2 DEF UnionInv, NoFrozenUnion, SpansVersions
  <2>. QED BY <2>1, <2>2 DEF AskStep, ReadIndex, AnswerFromCache, Miss, RetrieveArm, Finalize,
           GiveUp, Generate, FailOnEvidence, Abandon
<1>. QED BY <1>2, <1>3, UnmixedKeeps DEF UnionInv

\* No cached answer mixes index versions, however runs and promotions overlap
\* (HybridRetriever._finalize).
THEOREM UnionsAreNotFrozen == AnswersSpec => []NoFrozenUnion
<1>1. AnswersInit => UnionInv
  BY IdleAsk DEF AnswersInit, UnionInv, AskShapes, Unmixed, NoFrozenUnion
<1>2. UnionInv /\ [AnswersNext]_answersVars => UnionInv'
  <2>. SUFFICES ASSUME UnionInv, [AnswersNext]_answersVars
                PROVE  UnionInv'
    OBVIOUS
  <2>1. CASE UNCHANGED askVars
    BY <2>1 DEF askVars, UnionInv, AskShapes, IsAsk, Unmixed, NoFrozenUnion, SpansVersions
  <2>2. CASE \E x \in Versions : Promote(x)
    BY <2>2 DEF Promote, UnionInv, AskShapes, IsAsk, Unmixed, NoFrozenUnion, SpansVersions
  <2>3. CASE \E a \in Askers : ReadIndex(a) \/ AskStep(a) \/ Abandon(a)
    BY <2>3, AskUnion
  <2>4. CASE \E e \in cache : Expire(e)
    BY <2>4 DEF Expire, UnionInv, AskShapes, IsAsk, Unmixed, NoFrozenUnion, SpansVersions
  <2>5. CASE UNCHANGED answersVars
    BY <2>1, <2>5 DEF answersVars
  <2>. QED BY <2>1, <2>2, <2>3, <2>4, <2>5 DEF AnswersNext
<1>3. UnionInv => NoFrozenUnion
  BY DEF UnionInv
<1>. QED BY <1>1, <1>2, <1>3, PTL DEF AnswersSpec

----------------------------------------------------------------------------
(* No answer is older than its fingerprint. *)

NotOlder(k, E) == \A h \in E : k[h.source] # Unusable => h.text >= k[h.source]

\* What a request has pinned, and what it found under it.
PinFits(q) ==
  /\ q.evidence \subseteq Hit /\ q.pinned \in Versions \cup {Absent}
  /\ q.key # NoHash =>
       /\ q.pinned \in Versions /\ q.key \in Corpora
       /\ Older(q.key, q.pinned)
       /\ NotOlder(q.key, q.evidence)

EntryFits(e) ==
  /\ e.evidence \subseteq Hit
  /\ e.key # NoHash => NotOlder(e.key, e.evidence)

PinsInv ==
  /\ active \subseteq Versions
  /\ \A a \in Askers : PinFits(ask[a])
  /\ \A e \in cache : EntryFits(e)

IngestInv == IngestTypes /\ RowsInv /\ TextsInv

\* A step of the ingestion, or one that leaves it alone.
LEMMA PinStands ==
  ASSUME OneRun, ~ Reverts, IngestInv, IngestNext \/ UNCHANGED ingestVars,
         NEW q, PinFits(q)
  PROVE  PinFits(q)'
<1>1. CASE q.key = NoHash
  BY <1>1 DEF PinFits
<1>2. CASE q.key # NoHash
  <2>1. q.pinned \in Versions /\ q.key \in Corpora /\ Older(q.key, q.pinned)
    BY <1>2 DEF PinFits
  <2>2. Older(q.key, q.pinned)'
    <3>1. CASE IngestNext
      BY <2>1, <3>1, IngestKinds, OlderStands DEF IngestInv, TextsInv
    <3>2. CASE UNCHANGED ingestVars
      <4>1. UNCHANGED <<upstream, edits, chunks, worker>>
        BY <3>2 DEF ingestVars, source, corpus
      <4>. QED BY <2>1, <4>1 DEF Older, OlderAt
    <3>. QED BY <3>1, <3>2
  <2>. QED BY <1>2, <2>1, <2>2 DEF PinFits, NotOlder
<1>. QED BY <1>1, <1>2

LEMMA IngestPins ==
  ASSUME OneRun, ~ Reverts, IngestInv, PinsInv, IngestNext \/ UNCHANGED ingestVars,
         UNCHANGED ask
  PROVE  \A a \in Askers : PinFits(ask[a])'
<1>. SUFFICES ASSUME NEW a \in Askers
              PROVE  PinFits(ask[a])'
  OBVIOUS
<1>1. PICK q : q = ask[a]
  OBVIOUS
<1>2. PinFits(q)
  BY <1>1 DEF PinsInv
<1>3. PinFits(q)'
  BY <1>2, PinStands
<1>4. q = ask'[a]
  BY <1>1
<1>. QED BY <1>3, <1>4 DEF PinFits, Older, OlderAt, NotOlder, Ingesting

\* A request goes on.
LEMMA AskPins ==
  ASSUME OneRun, ~ Reverts, IngestInv, AskShapes, PinsInv, UNCHANGED ingestVars,
         NEW a \in Askers, NEW r, AskBecomes(a, r), PinFits(r)
  PROVE  \A b \in Askers : PinFits(ask[b])'
<1>. SUFFICES ASSUME NEW b \in Askers
              PROVE  PinFits(ask[b])'
  OBVIOUS
<1>1. ask'[a] = r /\ \A c \in Askers \ {a} : ask'[c] = ask[c]
  BY AskIs
<1>2. PICK q : q = ask'[b]
  OBVIOUS
<1>3. PinFits(q)
  BY <1>1, <1>2 DEF PinsInv
<1>4. PinFits(q)'
  BY <1>3, PinStands
<1>. QED BY <1>2, <1>4 DEF PinFits, Older, OlderAt, NotOlder, Ingesting

\* What one statement sees of one version.
LEMMA VisibleIs ==
  ASSUME IngestTypes, NEW V \in SUBSET Versions, NEW h \in Visible(V)
  PROVE  /\ h \in Hit /\ h.version \in V
         /\ \E c \in chunks[h.version][h.source] : c.text = h.text /\ c.id = h.id
<1>1. PICK x \in V, s \in Sources :
        h \in {[version |-> x, source |-> s, id |-> c.id, text |-> c.text] : c \in chunks[x][s]}
  BY DEF Visible
<1>2. PICK c \in chunks[x][s] :
        h = [version |-> x, source |-> s, id |-> c.id, text |-> c.text]
  BY <1>1
<1>3. c \in Chunk
  BY <1>2 DEF IngestTypes
<1>4. h \in Hit
  BY <1>2, <1>3 DEF Hit, Chunk
<1>5. h.version = x /\ h.source = s /\ h.id = c.id /\ h.text = c.text
  BY <1>2
<1>. QED BY <1>2, <1>4, <1>5

LEMMA VisibleHas ==
  ASSUME NEW V, NEW x \in V, NEW s \in Sources,
         NEW h \in {[version |-> x, source |-> s, id |-> c.id, text |-> c.text] :
                      c \in chunks[x][s]}
  PROVE  h \in Visible(V)
<1>. DEFINE S == {[version |-> x, source |-> s, id |-> c.id, text |-> c.text] :
                    c \in chunks[x][s]}
            T == {{[version |-> y, source |-> r, id |-> c.id, text |-> c.text] :
                     c \in chunks[y][r]} : y \in V, r \in Sources}
<1>1. S \in T
  OBVIOUS
<1>2. h \in S
  OBVIOUS
<1>3. Visible(V) = UNION T
  BY DEF Visible
<1>. HIDE DEF S, T
<1>. QED BY <1>1, <1>2, <1>3

LEMMA ScopeIs ==
  ASSUME PinsInv, NEW a \in Askers, NEW V \in Scopes(a)
  PROVE  /\ V \in SUBSET Versions
         /\ ask[a].pinned \in Versions => V = {ask[a].pinned}
BY SentinelAssumption DEF Scopes, PinsInv, PinFits

LEMMA PinnedIs ==
  ASSUME IngestInv, PinsInv, NEW a \in Askers, ReadIndex(a)
  PROVE  \E r : AskBecomes(a, r) /\ PinFits(r)
<1>1. PICK r :
        /\ AskBecomes(a, r) /\ r.evidence = {}
        /\ \/ /\ Resolution = "one"
              /\ r.pinned = (CHOOSE y \in active : TRUE)
              /\ r.key = hash[CHOOSE y \in active : TRUE]
           \/ r.pinned = Absent /\ r.key = NoHash
  BY ReadIs
<1>2. CASE r.pinned = Absent /\ r.key = NoHash
  BY <1>1, <1>2 DEF PinFits
<1>3. CASE Resolution = "one" /\ r.pinned = (CHOOSE y \in active : TRUE)
             /\ r.key = hash[CHOOSE y \in active : TRUE]
  <2>1. active # {}
    BY <1>3 DEF Resolution
  <2>2. r.pinned \in active /\ r.key = hash[r.pinned]
    BY <1>3, <2>1
  <2>3. r.pinned \in Versions
    BY <2>2 DEF PinsInv
  <2>4. r.key # NoHash => r.key \in Corpora /\ Older(r.key, r.pinned)
    BY <2>2, <2>3 DEF IngestInv, TextsInv, IngestTypes, NoHash
  <2>. QED BY <1>1, <2>3, <2>4 DEF PinFits, NotOlder
<1>. QED BY <1>1, <1>2, <1>3

LEMMA ArmFits ==
  ASSUME IngestInv, AskShapes, PinsInv, NEW a \in Askers, RetrieveArm(a)
  PROVE  \E r : AskBecomes(a, r) /\ PinFits(r)
<1>. DEFINE q == ask[a]
<1>1. PICK r, V, left :
        /\ V \in Scopes(a) /\ AskBecomes(a, r) /\ SamePin(q, r)
        /\ r.evidence = q.evidence \cup Visible(V)
  BY ArmIs
<1>2. V \in SUBSET Versions /\ (q.pinned \in Versions => V = {q.pinned})
  BY <1>1, ScopeIs
<1>3. PinFits(q)
  BY DEF PinsInv
<1>4. r.evidence \subseteq Hit
  BY <1>1, <1>2, <1>3, VisibleIs DEF PinFits, IngestInv
<1>5. ASSUME r.key # NoHash, NEW h \in Visible(V), r.key[h.source] # Unusable
      PROVE  h.text >= r.key[h.source]
  <2>1. /\ q.pinned \in Versions /\ q.key \in Corpora /\ r.key = q.key
        /\ Older(q.key, q.pinned)
    BY <1>1, <1>3, <1>5 DEF PinFits, SamePin
  <2>2. /\ h \in Hit /\ h.version = q.pinned
        /\ \E c \in chunks[h.version][h.source] : c.text = h.text
    BY <1>2, <1>5, <2>1, VisibleIs DEF IngestInv
  <2>3. h.source \in Sources /\ h.text \in Nat
    BY <2>2 DEF Hit
  <2>4. r.key[h.source] =< h.text
    BY <1>5, <2>1, <2>2, <2>3 DEF Older, OlderAt
  <2>5. r.key[h.source] \in Nat
    BY <1>5, <2>1, <2>3 DEF Corpora, Texts
  <2>. QED BY <2>3, <2>4, <2>5
<1>6. r.key # NoHash =>
        /\ r.pinned \in Versions /\ r.key \in Corpora
        /\ Older(r.key, r.pinned)
        /\ NotOlder(r.key, r.evidence)
  BY <1>1, <1>3, <1>5 DEF PinFits, SamePin, NotOlder
<1>. QED BY <1>1, <1>3, <1>4, <1>6 DEF PinFits, SamePin

LEMMA AskFits ==
  ASSUME IngestInv, AskShapes, PinsInv, NEW a \in Askers,
         ReadIndex(a) \/ AskStep(a) \/ Abandon(a)
  PROVE  \E r : AskBecomes(a, r) /\ PinFits(r)
<1>1. PinFits(ask[a])
  BY DEF PinsInv
<1>2. CASE ReadIndex(a)
  BY <1>2, PinnedIs
<1>3. CASE RetrieveArm(a)
  BY <1>3, ArmFits
<1>4. CASE Miss(a) \/ Finalize(a) \/ Generate(a)
  <2>1. PICK r : AskBecomes(a, r) /\ SamePin(ask[a], r) /\ r.evidence = ask[a].evidence
    BY <1>4, MissIs, FinalIs, AnsweredIs
  <2>. QED BY <1>1, <2>1 DEF PinFits, SamePin
<1>5. CASE Closes(a)
  BY <1>5, ClosesIs, IdleAsk DEF PinFits
<1>. QED BY <1>2, <1>3, <1>4, <1>5 DEF AskStep, Closes

LEMMA CacheFits ==
  ASSUME PinsInv, AnswersNext \/ UNCHANGED answersVars
  PROVE  \A e \in cache' : EntryFits(e)
<1>1. CASE UNCHANGED cache
  BY <1>1 DEF PinsInv
<1>2. CASE \E e \in cache : Expire(e)
  BY <1>2 DEF Expire, PinsInv
<1>3. CASE \E a \in Askers : Persist(a)
  <2>1. PICK a \in Askers : Persist(a)
    BY <1>3
  <2>2. \A e \in cache' : e \in cache \/ e = Entry(a)
    BY <2>1 DEF Persist
  <2>3. EntryFits(Entry(a))
    BY DEF PinsInv, PinFits, EntryFits, Entry
  <2>. QED BY <2>2, <2>3 DEF PinsInv
<1>4. CASE UNCHANGED answersVars
  BY <1>1, <1>4 DEF answersVars, askVars
<1>. QED BY <1>1, <1>2, <1>3, <1>4 DEF AnswersNext, askVars, Promote, ReadIndex, AskStep,
         AnswerFromCache, Miss, RetrieveArm, Finalize, GiveUp, Generate, FailOnEvidence,
         Abandon

\* Steps of requests and promotions leave the ingestion alone.
LEMMA Sides ==
  ASSUME AnswersNext \/ UNCHANGED answersVars
  PROVE  \/ IngestNext /\ UNCHANGED <<active, ask>>
         \/ UNCHANGED <<ingestVars, ask>> /\ active' \subseteq active \cup Versions
         \/ /\ UNCHANGED <<ingestVars, active>>
            /\ \E a \in Askers : ReadIndex(a) \/ AskStep(a) \/ Abandon(a)
<1>1. CASE IngestNext /\ UNCHANGED askVars
  BY <1>1 DEF askVars
<1>2. CASE \E x \in Versions : Promote(x)
  BY <1>2 DEF Promote
<1>3. CASE \E a \in Askers : ReadIndex(a) \/ AskStep(a) \/ Abandon(a)
  BY <1>3 DEF ReadIndex, AskStep, AnswerFromCache, Miss, RetrieveArm, Finalize, GiveUp,
     Generate, FailOnEvidence, Persist, Abandon
<1>4. CASE \E e \in cache : Expire(e)
  BY <1>4 DEF Expire
<1>5. CASE UNCHANGED answersVars
  BY <1>5 DEF answersVars, askVars
<1>. QED BY <1>1, <1>2, <1>3, <1>4, <1>5 DEF AnswersNext

LEMMA IngestInvStands ==
  ASSUME IngestInv, UNCHANGED ingestVars
  PROVE  IngestInv'
<1>1. UNCHANGED <<upstream, edits, docs, chunks, hash, worker, rowIds>>
  BY DEF ingestVars, source, corpus
<1>2. IngestTypes' /\ RowsInv'
  BY <1>1 DEF IngestInv, IngestTypes, RowsInv, OneRow, FoundAll
<1>3. TextsInv'
  BY <1>1 DEF IngestInv, TextsInv, UpstreamBound, Unbuilt, Older, OlderAt, Ingesting,
     FetchedOf, ImageOlder, ImageAt
<1>. QED BY <1>2, <1>3 DEF IngestInv

LEMMA ShapesKeep ==
  ASSUME AskShapes, AnswersNext \/ UNCHANGED answersVars
  PROVE  AskShapes'
<1>1. CASE UNCHANGED ask
  BY <1>1 DEF AskShapes
<1>2. CASE \E a \in Askers : ReadIndex(a) \/ AskStep(a) \/ Abandon(a)
  <2>1. PICK a \in Askers : ReadIndex(a) \/ AskStep(a) \/ Abandon(a)
    BY <1>2
  <2>2. \E r : AskBecomes(a, r)
    BY <2>1, ReadIs, MissIs, ArmIs, FinalIs, AnsweredIs, ClosesIs DEF AskStep, Closes
  <2>. QED BY <2>2, AskIs
<1>. QED BY <1>1, <1>2, Sides

LEMMA PinsKeep ==
  ASSUME OneRun, ~ Reverts, IngestInv, AskShapes, PinsInv,
         AnswersNext \/ UNCHANGED answersVars
  PROVE  IngestInv' /\ PinsInv'
<1>1. \A e \in cache' : EntryFits(e)
  BY CacheFits
<1>2. CASE IngestNext /\ UNCHANGED <<active, ask>>
  <2>1. IngestInv'
    BY <1>2, IngestKeeps, TextsKeep DEF IngestInv
  <2>2. \A a \in Askers : PinFits(ask[a])'
    BY <1>2, IngestPins
  <2>. QED BY <1>1, <1>2, <2>1, <2>2 DEF PinsInv, EntryFits, NotOlder
<1>3. CASE UNCHANGED <<ingestVars, ask>> /\ active' \subseteq active \cup Versions
  <2>1. IngestInv'
    BY <1>3, IngestInvStands
  <2>2. \A a \in Askers : PinFits(ask[a])'
    BY <1>3, IngestPins
  <2>. QED BY <1>1, <1>3, <2>1, <2>2 DEF PinsInv, EntryFits, NotOlder
<1>4. CASE /\ UNCHANGED <<ingestVars, active>>
           /\ \E a \in Askers : ReadIndex(a) \/ AskStep(a) \/ Abandon(a)
  <2>1. IngestInv'
    BY <1>4, IngestInvStands
  <2>2. \A a \in Askers : PinFits(ask[a])'
    BY <1>4, AskFits, AskPins
  <2>. QED BY <1>1, <1>4, <2>1, <2>2 DEF PinsInv, EntryFits, NotOlder
<1>. QED BY <1>2, <1>3, <1>4, Sides

LEMMA IngestBegins ==
  ASSUME IngestInit
  PROVE  IngestInv
<1>. DEFINE c == [doc |-> 1, id |-> 1, text |-> 0]
<1>1. upstream \in Corpora /\ edits = 0 /\ \A s \in Sources : upstream[s] = 0
  BY DEF IngestInit, Corpora, Texts
<1>2. worker = [w \in Workers |-> NotRunning]
  BY DEF IngestInit
<1>3. \A w \in Workers : worker[w] = NotRunning
  BY <1>2
<1>4. c \in Chunk /\ c.text = 0 /\ c.doc = 1
  BY DEF Chunk
<1>5. CASE Preloaded
  <2>1. /\ docs = [x \in Versions |-> [s \in Sources |-> {1}]]
        /\ chunks = [x \in Versions |-> [s \in Sources |-> {c}]]
        /\ hash = [x \in Versions |-> upstream] /\ rowIds = 1
    BY <1>5 DEF IngestInit
  <2>. HIDE DEF c
  <2>2. IngestTypes
    BY <1>1, <1>2, <1>3, <1>4, <2>1, IdleRun DEF IngestTypes, InProgress
  <2>3. RowsInv
    BY <1>3, <1>4, <2>1, IdleRun DEF RowsInv, OneRow, FoundAll
  <2>4. TextsInv
    <3>1. UpstreamBound
      BY <1>1 DEF UpstreamBound
    <3>2. ASSUME NEW x \in Versions
          PROVE  Unbuilt(x) /\ Older(hash[x], x)
      <4>1. hash[x] = upstream /\ hash[x] # Absent
        BY <1>1, <2>1, SentinelAssumption DEF Corpora, Texts
      <4>2. ASSUME NEW s \in Sources PROVE OlderAt(upstream, x, s)
        <5>1. \A w \in Workers : ~ Ingesting(worker[w], x, s)
          BY <1>3, IdleRun DEF Ingesting, InProgress
        <5>2. chunks[x][s] = {c}
          BY <2>1
        <5>. QED BY <1>1, <1>4, <5>1, <5>2 DEF OlderAt
      <4>. QED BY <4>1, <4>2 DEF Unbuilt, Older
    <3>3. \A w \in Workers : FetchedOf(worker[w]) /\ ImageOlder(worker[w])
      BY <1>3, IdleRun DEF FetchedOf, ImageOlder, InProgress
    <3>. QED BY <3>1, <3>2, <3>3 DEF TextsInv
  <2>. QED BY <2>2, <2>3, <2>4 DEF IngestInv
<1>6. CASE ~ Preloaded
  <2>1. /\ docs = [x \in Versions |-> [s \in Sources |-> {}]]
        /\ chunks = [x \in Versions |-> [s \in Sources |-> {}]]
        /\ hash = [x \in Versions |-> Absent] /\ rowIds = 0
    BY <1>6 DEF IngestInit
  <2>2. IngestTypes
    BY <1>1, <1>2, <1>3, <2>1, IdleRun DEF IngestTypes, InProgress
  <2>3. RowsInv
    BY <1>3, <2>1, IdleRun DEF RowsInv, OneRow, FoundAll
  <2>4. TextsInv
    BY <1>1, <1>3, <2>1, IdleRun
       DEF TextsInv, UpstreamBound, Unbuilt, FetchedOf, ImageOlder, InProgress
  <2>. QED BY <2>2, <2>3, <2>4 DEF IngestInv
<1>. QED BY <1>5, <1>6

LEMMA OneRowCounts ==
  ASSUME IngestTypes, RowsInv
  PROVE  OneGeneration
<1>. SUFFICES ASSUME NEW x \in Versions, NEW s \in Sources
              PROVE  Cardinality(chunks[x][s]) =< 1
  BY DEF OneGeneration
<1>1. CASE chunks[x][s] = {}
  <2>1. Cardinality(chunks[x][s]) = 0
    BY <1>1, FS_EmptySet
  <2>. QED BY <2>1
<1>2. CASE chunks[x][s] # {}
  <2>1. PICK c \in chunks[x][s] : TRUE
    BY <1>2
  <2>2. chunks[x][s] = {c}
    BY <2>1 DEF RowsInv, OneRow
  <2>3. Cardinality(chunks[x][s]) = 1
    BY <2>2, FS_Singleton
  <2>. QED BY <2>3
<1>. QED BY <1>1, <1>2

\* One run at a time leaves one generation of chunks for a source, whichever
\* step of it fails or dies (IngestionRunner.run, _materialize_chunks).
THEOREM GenerationsDoNotMix == OneRun => (AnswersSpec => []OneGeneration)
<1>. SUFFICES ASSUME OneRun
              PROVE  AnswersSpec => []OneGeneration
  OBVIOUS
<1>. DEFINE Inv == IngestTypes /\ RowsInv
<1>1. AnswersInit => Inv
  BY IngestBegins DEF AnswersInit, IngestInv
<1>2. Inv /\ [AnswersNext]_answersVars => Inv'
  <2>. SUFFICES ASSUME Inv, AnswersNext \/ UNCHANGED answersVars
                PROVE  Inv'
    OBVIOUS
  <2>1. CASE IngestNext
    BY <2>1, IngestKeeps
  <2>2. CASE UNCHANGED ingestVars
    <3>1. UNCHANGED <<upstream, edits, docs, chunks, hash, worker, rowIds>>
      BY <2>2 DEF ingestVars, source, corpus
    <3>. QED BY <3>1 DEF IngestTypes, RowsInv, OneRow, FoundAll
  <2>. QED BY <2>1, <2>2, Sides
<1>3. Inv => OneGeneration
  BY OneRowCounts
<1>. HIDE DEF Inv
<1>. QED BY <1>1, <1>2, <1>3, PTL DEF AnswersSpec

AnswersInv == IngestInv /\ AskShapes /\ PinsInv

LEMMA AnswersBegin == AnswersInit => AnswersInv
BY IngestBegins, IdleAsk
   DEF AnswersInit, AnswersInv, AskShapes, PinsInv, PinFits, EntryFits

\* With one run at a time and no edit that brings an earlier text back, a
\* cached answer is never older than the corpus its key names: not after a run
\* that failed, died, covered part of the corpus or met an edit
\* (advance_source_version_hash, build_cache_key).
THEOREM KeysAreKept ==
  OneRun /\ ~ Reverts => (AnswersSpec => []NeverOlderThanPinned)
<1>. SUFFICES ASSUME OneRun, ~ Reverts
              PROVE  AnswersSpec => []NeverOlderThanPinned
  OBVIOUS
<1>1. AnswersInv /\ [AnswersNext]_answersVars => AnswersInv'
  BY PinsKeep, ShapesKeep DEF AnswersInv
<1>2. AnswersInv => NeverOlderThanPinned
  BY DEF AnswersInv, PinsInv, EntryFits, NotOlder, NeverOlderThanPinned
<1>. QED BY AnswersBegin, <1>1, <1>2, PTL DEF AnswersSpec

----------------------------------------------------------------------------
(* A corpus that has settled is answered from as it is.                    *)

\* The chunks only ever get newer texts.
GrowsAt(x, s) ==
  \A c \in chunks[x][s] :
    /\ c.text =< edits
    /\ upstream[s] # Unusable => c.text =< upstream[s]
    /\ \A w \in Workers : Ingesting(worker[w], x, s) => c.text =< worker[w].text

ChunksInv ==
  \A x \in Versions, s \in Sources : chunks[x][s] # {} /\ GrowsAt(x, s)

\* What was found is no newer than what is there now.
NotNewer(E) == \A h \in E : \A x \in Versions : \A c \in chunks[x][h.source] : h.text =< c.text

Covers(E) == E # {} => \A s \in Sources : \E h \in E : h.source = s

FoundFits(q) ==
  q.key # NoHash =>
    /\ NotNewer(q.evidence) /\ Covers(q.evidence)
    /\ q.phase \in {"generating", "answered"} => q.evidence # {}

StoredFits(e) == e.key # NoHash => NotNewer(e.evidence) /\ Covers(e.evidence) /\ e.evidence # {}

GrowInv ==
  /\ ChunksInv
  /\ \A a \in Askers : FoundFits(ask[a])
  /\ \A e \in cache : StoredFits(e)

LEMMA GrowsStand ==
  ASSUME OneRun, IngestTypes, TextsInv, ChunksInv, Kinds
  PROVE  ChunksInv'
<1>. SUFFICES ASSUME NEW x \in Versions, NEW s \in Sources
              PROVE  chunks'[x][s] # {} /\ GrowsAt(x, s)'
  BY DEF ChunksInv
<1>0. /\ chunks[x][s] # {} /\ edits \in Nat
      /\ \A c \in chunks[x][s] : c.text \in Nat
  BY DEF ChunksInv, IngestTypes, Chunk
<1>1. \A c \in chunks[x][s] :
        /\ c.text =< edits
        /\ upstream[s] # Unusable => c.text =< upstream[s]
        /\ \A w \in Workers : Ingesting(worker[w], x, s) => c.text =< worker[w].text
  BY DEF ChunksInv, GrowsAt
<1>3. CASE \E r \in Sources, t \in Texts : Edits(r, t)
  <2>1. PICK r \in Sources, t \in Texts : Edits(r, t)
    BY <1>3
  <2>2. edits' = edits + 1 /\ t \in {edits', Unusable} /\ UNCHANGED <<chunks, worker>>
    BY <2>1 DEF Edits
  <2>3. upstream'[s] = IF r = s THEN t ELSE upstream[s]
    BY <2>1 DEF Edits, IngestTypes, Corpora
  <2>4. \A c \in chunks[x][s] : c.text =< edits'
    BY <1>0, <1>1, <2>2
  <2>5. \A c \in chunks[x][s] : upstream'[s] # Unusable => c.text =< upstream'[s]
    BY <1>1, <2>2, <2>3, <2>4
  <2>. QED BY <1>0, <1>1, <2>2, <2>4, <2>5 DEF GrowsAt
<1>4. CASE \E w \in Workers, you \in WorkerType : Calms(w, you)
  <2>1. PICK w \in Workers, you \in WorkerType : Calms(w, you)
    BY <1>4
  <2>2. \A u \in Workers : u = w /\ worker'[u] = you
    BY <2>1, OnlyRun DEF Calms
  <2>3. \A c \in chunks[x][s] : Ingesting(you, x, s) => c.text =< you.text
    BY <1>1, <2>1 DEF Calms, Ingesting
  <2>4. UNCHANGED <<upstream, edits, chunks>>
    BY <2>1 DEF Calms
  <2>. QED BY <1>0, <1>1, <2>2, <2>3, <2>4 DEF GrowsAt
<1>5. CASE \E w \in Workers, r \in Sources, you \in WorkerType : Fetches(w, r, you)
  <2>1. PICK w \in Workers, r \in Sources, you \in WorkerType : Fetches(w, r, you)
    BY <1>5
  <2>2. \A u \in Workers : u = w /\ worker'[u] = you
    BY <2>1, OnlyRun DEF Fetches
  <2>3. \A c \in chunks[x][s] : Ingesting(you, x, s) => c.text =< you.text
    BY <1>1, <2>1 DEF Fetches, Ingesting
  <2>4. UNCHANGED <<upstream, edits, chunks>>
    BY <2>1 DEF Fetches
  <2>. QED BY <1>0, <1>1, <2>2, <2>3, <2>4 DEF GrowsAt
<1>6. CASE \E w \in Workers, you \in WorkerType : Commits(w, you)
  <2>1. PICK w \in Workers, you \in WorkerType : Commits(w, you)
    BY <1>6
  <2>2. \A u \in Workers : u = w /\ worker'[u] = you
    BY <2>1, OnlyRun DEF Commits
  <2>3. ~ InProgress(you) /\ UNCHANGED <<upstream, edits>>
    BY <2>1 DEF Commits
  <2>4. \A u \in Workers : ~ Ingesting(worker'[u], x, s)
    BY <2>2, <2>3 DEF Ingesting
  <2>5. CASE x = worker[w].version /\ s = worker[w].source
    <3>1. chunks'[x][s] = {ChunkOf(worker[w], rowIds + 1)}
      BY <2>1, <2>5 DEF Commits
    <3>2. ChunkOf(worker[w], rowIds + 1).text = worker[w].text
      BY DEF ChunkOf
    <3>3. FetchedOf(worker[w]) /\ InProgress(worker[w])
      BY <2>1 DEF TextsInv, Commits
    <3>. QED BY <2>3, <2>4, <2>5, <3>1, <3>2, <3>3 DEF GrowsAt, FetchedOf
  <2>6. CASE ~ (x = worker[w].version /\ s = worker[w].source)
    <3>1. chunks'[x][s] = chunks[x][s]
      BY <2>1, <2>6 DEF Commits
    <3>. QED BY <1>0, <1>1, <2>3, <2>4, <3>1 DEF GrowsAt
  <2>. QED BY <2>5, <2>6
<1>. QED BY <1>3, <1>4, <1>5, <1>6 DEF Kinds

LEMMA CommitIsNewer ==
  ASSUME OneRun, IngestTypes, ChunksInv, Kinds, NEW E \in SUBSET Hit, NotNewer(E)
  PROVE  NotNewer(E)'
<1>. SUFFICES ASSUME NEW h \in E, NEW x \in Versions, NEW c \in chunks'[x][h.source]
              PROVE  h.text =< c.text
  BY DEF NotNewer
<1>. DEFINE s == h.source
<1>1. s \in Sources /\ h.text \in Nat
  BY DEF Hit
<1>2. PICK d \in chunks[x][s] : TRUE
  BY <1>1 DEF ChunksInv
<1>3. h.text =< d.text /\ d.text \in Nat
  BY <1>1, <1>2 DEF NotNewer, IngestTypes, Chunk
<1>4. CASE \E w \in Workers, you \in WorkerType :
             Commits(w, you) /\ x = worker[w].version /\ s = worker[w].source
  <2>1. PICK w \in Workers, you \in WorkerType :
          Commits(w, you) /\ x = worker[w].version /\ s = worker[w].source
    BY <1>4
  <2>2. c.text = worker[w].text
    BY <2>1, <1>1 DEF Commits, ChunkOf
  <2>3. d.text =< worker[w].text
    BY <1>1, <1>2, <2>1 DEF ChunksInv, GrowsAt, Ingesting, Commits
  <2>4. worker[w].text \in Nat
    BY DEF IngestTypes, WorkerType
  <2>. QED BY <1>1, <1>3, <2>2, <2>3, <2>4
<1>5. CASE chunks'[x][s] = chunks[x][s]
  BY <1>5 DEF NotNewer
<1>. QED BY <1>1, <1>4, <1>5 DEF Kinds, Edits, Calms, Fetches, Commits

\* What is found stands, whatever step the ingestion takes.
LEMMA FoundStands ==
  ASSUME OneRun, ~ Reverts, IngestInv, ChunksInv, IngestNext \/ UNCHANGED ingestVars,
         NEW E \in SUBSET Hit, NotNewer(E)
  PROVE  NotNewer(E)'
<1>1. CASE IngestNext
  BY <1>1, IngestKinds, CommitIsNewer DEF IngestInv
<1>2. CASE UNCHANGED ingestVars
  BY <1>2 DEF NotNewer, ingestVars, corpus
<1>. QED BY <1>1, <1>2

LEMMA IngestFound ==
  ASSUME OneRun, ~ Reverts, IngestInv, ChunksInv, IngestNext \/ UNCHANGED ingestVars,
         NEW q, q.evidence \subseteq Hit, FoundFits(q)
  PROVE  FoundFits(q)'
BY FoundStands DEF FoundFits

LEMMA ChunksKeep ==
  ASSUME OneRun, ~ Reverts, IngestInv, ChunksInv, IngestNext \/ UNCHANGED ingestVars
  PROVE  ChunksInv'
<1>1. CASE IngestNext
  BY <1>1, IngestKinds, GrowsStand DEF IngestInv
<1>2. CASE UNCHANGED ingestVars
  <2>1. UNCHANGED <<upstream, edits, chunks, worker>>
    BY <1>2 DEF ingestVars, source, corpus
  <2>. QED BY <2>1 DEF ChunksInv, GrowsAt, Ingesting
<1>. QED BY <1>1, <1>2

\* A request moves to r, or r is what another one holds.
LEMMA AskFound ==
  ASSUME OneRun, ~ Reverts, IngestInv, AskShapes, PinsInv, GrowInv,
         UNCHANGED ingestVars, NEW a \in Askers, NEW r, AskBecomes(a, r), FoundFits(r),
         NEW b \in Askers
  PROVE  FoundFits(ask[b])'
<1>1. ask'[a] = r /\ \A c \in Askers \ {a} : ask'[c] = ask[c]
  BY AskIs
<1>2. PICK q : q = ask'[b]
  OBVIOUS
<1>3. FoundFits(q)
  BY <1>1, <1>2 DEF GrowInv
<1>4. UNCHANGED chunks
  BY DEF ingestVars, corpus
<1>. QED BY <1>2, <1>3, <1>4 DEF FoundFits, NotNewer

\* A statement over the pinned version sees every source as it is.
LEMMA ArmFinds ==
  ASSUME OneVersion, IngestInv, AskShapes, PinsInv, GrowInv,
         NEW a \in Askers, RetrieveArm(a)
  PROVE  \E r : AskBecomes(a, r) /\ FoundFits(r)
<1>. DEFINE q == ask[a]
<1>1. PICK r, V, left :
        /\ V \in Scopes(a) /\ AskBecomes(a, r) /\ SamePin(q, r)
        /\ r.phase = q.phase /\ r.evidence = q.evidence \cup Visible(V)
  BY ArmIs
<1>2. V \in SUBSET Versions /\ (q.pinned \in Versions => V = {q.pinned})
  BY <1>1, ScopeIs
<1>3. PinFits(q) /\ FoundFits(q)
  BY DEF PinsInv, GrowInv
<1>4. CASE r.key = NoHash
  BY <1>1, <1>4 DEF FoundFits
<1>5. CASE r.key # NoHash
  <2>1. q.key # NoHash /\ V = {q.pinned} /\ q.pinned \in Versions
    BY <1>1, <1>2, <1>3, <1>5 DEF SamePin, PinFits
  <2>2. ASSUME NEW h \in Visible(V), NEW x \in Versions, NEW c \in chunks[x][h.source]
        PROVE  h.text =< c.text
    <3>1. /\ h \in Hit /\ h.version \in V
          /\ \E d \in chunks[h.version][h.source] : d.text = h.text
      BY <1>2, VisibleIs DEF IngestInv
    <3>2. h.version \in Versions /\ h.source \in Sources /\ h.text \in Nat
      BY <3>1 DEF Hit
    <3>3. x = h.version
      BY <3>2 DEF OneVersion
    <3>4. \A d \in chunks[x][h.source] : d = c
      BY <3>2 DEF IngestInv, RowsInv, OneRow
    <3>. QED BY <3>1, <3>2, <3>3, <3>4
  <2>3. NotNewer(r.evidence)
    BY <1>1, <1>3, <2>1, <2>2 DEF FoundFits, NotNewer
  <2>4. ASSUME NEW s \in Sources PROVE \E h \in r.evidence : h.source = s
    <3>1. PICK c \in chunks[q.pinned][s] : TRUE
      BY <2>1 DEF GrowInv, ChunksInv
    <3>. DEFINE h == [version |-> q.pinned, source |-> s, id |-> c.id, text |-> c.text]
    <3>2. h \in Visible(V)
      <4>1. h \in {[version |-> q.pinned, source |-> s, id |-> d.id, text |-> d.text] :
                      d \in chunks[q.pinned][s]}
        BY <3>1
      <4>. HIDE DEF h, q
      <4>. QED BY <2>1, <4>1, VisibleHas
    <3>3. h.source = s
      OBVIOUS
    <3>. QED BY <1>1, <3>2, <3>3
  <2>5. q.phase = "retrieving"
    BY DEF RetrieveArm
  <2>. QED BY <1>1, <2>3, <2>4, <2>5 DEF FoundFits, Covers
<1>. QED BY <1>1, <1>4, <1>5

LEMMA AskFinds ==
  ASSUME OneVersion, IngestInv, AskShapes, PinsInv, GrowInv,
         NEW a \in Askers, ReadIndex(a) \/ AskStep(a) \/ Abandon(a)
  PROVE  \E r : AskBecomes(a, r) /\ FoundFits(r)
<1>1. FoundFits(ask[a])
  BY DEF GrowInv
<1>2. CASE ReadIndex(a)
  <2>1. PICK r : AskBecomes(a, r) /\ r.phase = "pinned" /\ r.evidence = {}
    BY <1>2, ReadIs
  <2>. QED BY <2>1 DEF FoundFits, NotNewer, Covers
<1>3. CASE RetrieveArm(a)
  BY <1>3, ArmFinds
<1>4. CASE Miss(a)
  <2>1. PICK r : /\ AskBecomes(a, r) /\ SamePin(ask[a], r) /\ r.phase = "retrieving"
                 /\ r.evidence = ask[a].evidence
    BY <1>4, MissIs
  <2>. QED BY <1>1, <2>1 DEF FoundFits, SamePin
<1>5. CASE Finalize(a)
  <2>1. PICK r : /\ AskBecomes(a, r) /\ SamePin(ask[a], r) /\ r.evidence = ask[a].evidence
    BY <1>5, FinalIs
  <2>2. ask[a].evidence # {}
    BY <1>5 DEF Finalize
  <2>. QED BY <1>1, <2>1, <2>2 DEF FoundFits, SamePin
<1>6. CASE Generate(a)
  <2>1. PICK r : /\ AskBecomes(a, r) /\ SamePin(ask[a], r) /\ r.evidence = ask[a].evidence
    BY <1>6, AnsweredIs
  <2>2. ask[a].phase = "generating"
    BY <1>6 DEF Generate
  <2>. QED BY <1>1, <2>1, <2>2 DEF FoundFits, SamePin
<1>7. CASE Closes(a)
  BY <1>7, ClosesIs, IdleAsk DEF FoundFits
<1>. QED BY <1>2, <1>3, <1>4, <1>5, <1>6, <1>7 DEF AskStep, Closes

LEMMA StoredKeep ==
  ASSUME OneRun, ~ Reverts, IngestInv, PinsInv, GrowInv, AnswersNext \/ UNCHANGED answersVars
  PROVE  \A e \in cache' : StoredFits(e)'
<1>. SUFFICES ASSUME NEW e \in cache'
              PROVE  StoredFits(e)'
  OBVIOUS
<1>1. StoredFits(e) /\ e.evidence \subseteq Hit
  <2>1. CASE e \in cache
    BY <2>1 DEF GrowInv, PinsInv, EntryFits
  <2>2. CASE e \notin cache
    <3>1. PICK a \in Askers : Persist(a)
      BY <2>2 DEF AnswersNext, answersVars, askVars, Promote, ReadIndex, AskStep,
         AnswerFromCache, Miss, RetrieveArm, Finalize, GiveUp, Generate, FailOnEvidence,
         Abandon, Expire
    <3>2. e = Entry(a) /\ ask[a].phase = "answered"
      BY <2>2, <3>1 DEF Persist
    <3>3. FoundFits(ask[a]) /\ PinFits(ask[a])
      BY DEF GrowInv, PinsInv
    <3>4. Entry(a).key = ask[a].key /\ Entry(a).evidence = ask[a].evidence
      BY DEF Entry
    <3>. QED BY <3>2, <3>3, <3>4 DEF FoundFits, PinFits, StoredFits
  <2>. QED BY <2>1, <2>2
<1>2. IngestNext \/ UNCHANGED ingestVars
  BY Sides
<1>. QED BY <1>1, <1>2, FoundStands DEF StoredFits, GrowInv

LEMMA GrowKeep ==
  ASSUME OneRun, OneVersion, ~ Reverts, AnswersInv, GrowInv,
         AnswersNext \/ UNCHANGED answersVars
  PROVE  GrowInv'
<1>1. \A e \in cache' : StoredFits(e)'
  BY StoredKeep DEF AnswersInv
<1>2. IngestNext \/ UNCHANGED ingestVars
  BY Sides
<1>3. ChunksInv'
  BY <1>2, ChunksKeep DEF AnswersInv, GrowInv
<1>4. ASSUME NEW b \in Askers
      PROVE  FoundFits(ask[b])'
  <2>1. CASE UNCHANGED ask
    <3>1. PICK q : q = ask[b]
      OBVIOUS
    <3>2. q.evidence \subseteq Hit /\ FoundFits(q)
      BY <3>1 DEF AnswersInv, PinsInv, PinFits, GrowInv
    <3>3. FoundFits(q)'
      BY <1>2, <3>2, IngestFound DEF AnswersInv, GrowInv
    <3>4. q = ask'[b]
      BY <2>1, <3>1
    <3>. QED BY <3>3, <3>4 DEF FoundFits, NotNewer
  <2>2. CASE /\ UNCHANGED ingestVars
             /\ \E a \in Askers : ReadIndex(a) \/ AskStep(a) \/ Abandon(a)
    BY <2>2, AskFinds, AskFound DEF AnswersInv
  <2>. QED BY <2>1, <2>2, Sides
<1>. QED BY <1>1, <1>3, <1>4 DEF GrowInv

LEMMA GrowBegins ==
  ASSUME Preloaded, AnswersInit
  PROVE  GrowInv
<1>. DEFINE c == [doc |-> 1, id |-> 1, text |-> 0]
<1>1. /\ upstream = [s \in Sources |-> 0] /\ edits = 0
      /\ worker = [w \in Workers |-> NotRunning]
      /\ chunks = [x \in Versions |-> [s \in Sources |-> {c}]]
      /\ ask = [a \in Askers |-> NotAsking] /\ cache = {}
  BY DEF AnswersInit, IngestInit
<1>2. c.text = 0
  OBVIOUS
<1>. HIDE DEF c
<1>3. ChunksInv
  BY <1>1, <1>2, IdleRun DEF ChunksInv, GrowsAt, Ingesting, InProgress
<1>. QED BY <1>1, <1>3, IdleAsk DEF GrowInv, FoundFits

LEMMA SettledIs ==
  ASSUME AnswersInv, GrowInv
  PROVE  SettledCacheIsCurrent
<1>. SUFFICES ASSUME NEW x \in active, hash[x] # Absent, Holds(x), NEW e \in cache,
                     e.key = hash[x]
              PROVE  {<<h.source, h.text>> : h \in e.evidence}
                       = {<<s, hash[x][s]>> : s \in Sources}
  BY DEF SettledCacheIsCurrent
<1>1. x \in Versions /\ hash[x] \in Corpora /\ e.key # NoHash
  BY DEF AnswersInv, PinsInv, IngestInv, IngestTypes, NoHash
<1>2. /\ e.evidence \subseteq Hit /\ NotOlder(hash[x], e.evidence)
      /\ NotNewer(e.evidence) /\ Covers(e.evidence) /\ e.evidence # {}
  BY <1>1 DEF AnswersInv, PinsInv, EntryFits, GrowInv, StoredFits
<1>3. ASSUME NEW h \in e.evidence
      PROVE  h.source \in Sources /\ h.text = hash[x][h.source]
  <2>1. h.source \in Sources /\ h.text \in Nat
    BY <1>2 DEF Hit
  <2>2. PICK d \in chunks[x][h.source] : d.text = hash[x][h.source]
    <3>1. hash[x][h.source] \in TextsOf(x, h.source)
      BY <2>1 DEF Holds
    <3>. QED BY <3>1 DEF TextsOf
  <2>3. d.text \in Nat
    BY <1>1, <2>1, <2>2 DEF AnswersInv, IngestInv, IngestTypes, Chunk
  <2>4. hash[x][h.source] # Unusable
    BY <2>2, <2>3, SentinelAssumption
  <2>5. h.text >= hash[x][h.source] /\ h.text =< d.text
    BY <1>1, <1>2, <2>2, <2>4 DEF NotOlder, NotNewer
  <2>. QED BY <2>1, <2>2, <2>3, <2>5
<1>4. \A s \in Sources : \E h \in e.evidence : h.source = s
  BY <1>2 DEF Covers
<1>5. \A p \in {<<h.source, h.text>> : h \in e.evidence} : p \in {<<s, hash[x][s]>> : s \in Sources}
  BY <1>3
<1>6. \A p \in {<<s, hash[x][s]>> : s \in Sources} : p \in {<<h.source, h.text>> : h \in e.evidence}
  BY <1>3, <1>4
<1>. QED BY <1>5, <1>6

\* With one version, built before anything is asked, one run at a time and no
\* edit that brings an earlier text back: once the chunks are those the
\* fingerprint names, every answer the cache gives under it was built from
\* exactly those (advance_source_version_hash, RUNBOOK 3.4).
THEOREM SettledIsCurrent ==
  OneRun /\ OneVersion /\ Preloaded /\ ~ Reverts => (AnswersSpec => []SettledCacheIsCurrent)
<1>. SUFFICES ASSUME OneRun, OneVersion, Preloaded, ~ Reverts
              PROVE  AnswersSpec => []SettledCacheIsCurrent
  OBVIOUS
<1>1. AnswersInit => AnswersInv /\ GrowInv
  BY AnswersBegin, GrowBegins
<1>2. AnswersInv /\ GrowInv /\ [AnswersNext]_answersVars => AnswersInv' /\ GrowInv'
  BY PinsKeep, ShapesKeep, GrowKeep DEF AnswersInv
<1>3. AnswersInv /\ GrowInv => SettledCacheIsCurrent
  BY SettledIs
<1>. QED BY <1>1, <1>2, <1>3, PTL DEF AnswersSpec

----------------------------------------------------------------------------
(* Sources stay answerable.                                                *)

ChunkShape == chunks = [x \in Versions |-> [s \in Sources |-> chunks[x][s]]]

LEMMA CommitAdds ==
  ASSUME ChunkShape, NEW w \in Workers, CommitSource(w)
  PROVE  /\ ChunkShape'
         /\ \A x \in Versions, s \in Sources :
              chunks'[x][s] = chunks[x][s] \/ chunks'[x][s] # {}
<1>. DEFINE x0 == worker[w].version
            s0 == worker[w].source
            c == [doc |-> worker[w].doc, id |-> rowIds + 1, text |-> worker[w].text]
            C == (chunks[x0][s0] \ worker[w].drop) \cup {c}
<1>1. chunks' = [chunks EXCEPT ![x0] = [chunks[x0] EXCEPT ![s0] = C]]
  BY DEF CommitSource
<1>2. C # {}
  OBVIOUS
<1>. HIDE DEF C, x0, s0
<1>3. ASSUME NEW x \in Versions
      PROVE  /\ chunks'[x] = [s \in Sources |-> chunks'[x][s]]
             /\ \A s \in Sources : chunks'[x][s] \in {chunks[x][s], C}
  <2>1. chunks[x] = [s \in Sources |-> chunks[x][s]]
    BY DEF ChunkShape
  <2>2. CASE x = x0
    <3>1. chunks'[x] = [chunks[x] EXCEPT ![s0] = C]
      BY <1>1, <2>2 DEF ChunkShape
    <3>. QED BY <2>1, <3>1
  <2>3. CASE x # x0
    <3>1. chunks'[x] = chunks[x]
      BY <1>1, <2>3 DEF ChunkShape
    <3>. QED BY <2>1, <3>1
  <2>. QED BY <2>2, <2>3
<1>4. chunks' = [x \in Versions |-> chunks'[x]]
  BY <1>1 DEF ChunkShape
<1>. QED BY <1>2, <1>3, <1>4 DEF ChunkShape

LEMMA OnlyCommits ==
  ASSUME IngestNext
  PROVE  UNCHANGED chunks \/ \E w \in Workers : CommitSource(w)
BY DEF IngestNext, RunStep, Edit, BeginRun, RefuseSource, FetchSource, FindChunks,
   DeleteChunks, FailSource, EndRun, Crash, corpus

\* A source that has chunks never loses all of them, whatever runs overlap,
\* fail or die (IngestionRunner.run).
THEOREM SourcesAreKept == AnswersSpec => SourcesStayAnswerable
<1>1. AnswersInit => ChunkShape
  BY DEF AnswersInit, IngestInit, ChunkShape
<1>2. ChunkShape /\ [AnswersNext]_answersVars =>
        /\ ChunkShape'
        /\ [\A x \in Versions, s \in Sources :
              chunks[x][s] # {} => chunks'[x][s] # {}]_ingestVars
  <2>. SUFFICES ASSUME ChunkShape, [AnswersNext]_answersVars
                PROVE  /\ ChunkShape'
                       /\ \A x \in Versions, s \in Sources :
                            chunks[x][s] # {} => chunks'[x][s] # {}
    OBVIOUS
  <2>1. CASE IngestNext
    <3>1. CASE UNCHANGED chunks
      BY <3>1 DEF ChunkShape
    <3>2. CASE \E w \in Workers : CommitSource(w)
      BY <3>2, CommitAdds
    <3>. QED BY <2>1, <3>1, <3>2, OnlyCommits
  <2>2. CASE UNCHANGED ingestVars
    BY <2>2 DEF ChunkShape, ingestVars, corpus
  <2>3. IngestNext \/ UNCHANGED ingestVars
    BY DEF AnswersNext, answersVars, Promote, ReadIndex, AskStep, AnswerFromCache, Miss,
       RetrieveArm, Finalize, GiveUp, Generate, FailOnEvidence, Persist, Abandon, Expire
  <2>. QED BY <2>1, <2>2, <2>3
<1>. QED BY <1>1, <1>2, PTL DEF AnswersSpec, SourcesStayAnswerable

----------------------------------------------------------------------------
(* The types, whatever runs overlap. *)

\* The id of a document row was given out before. Runs that overlap may leave
\* several rows for one source; a transaction then needs the newest of them, and
\* there is one because ids are bounded.
NumbersInv ==
  /\ \A x \in Versions, s \in Sources : docs[x][s] \subseteq 1 .. rowIds
  /\ \A w \in Workers :
       worker[w].phase \in {"deleting", "embedding"} => worker[w].doc \in 1 .. rowIds

RunsInv == IngestTypes /\ NumbersInv

\* A non-empty set of naturals has a least element.
LEMMA LeastNatural ==
  ASSUME NEW T \in SUBSET Nat, T # {}
  PROVE  \E x \in T : \A y \in T : x =< y
<1>1. PICK x \in T : \A y \in T : ~ (<<y, x>> \in OpToRel(<, Nat))
  BY NatLessThanWellFounded, WFMin
<1>2. ASSUME NEW y \in T PROVE x =< y
  <2>1. <<y, x>> \in Nat \X Nat
    OBVIOUS
  <2>2. ~ (y < x)
    BY <1>1, <2>1 DEF OpToRel
  <2>. QED BY <2>2
<1>. QED BY <1>2

\* A non-empty set of bounded numbers has a greatest element.
LEMMA GreatestId ==
  ASSUME NEW n \in Nat, NEW D \in SUBSET (1 .. n), D # {}
  PROVE  \E d \in D : \A e \in D : e =< d
<1>. DEFINE T == {k \in Nat : \E d \in D : k = n - d}
<1>1. T # {}
  <2>1. PICK d \in D : d \in 1 .. n
    OBVIOUS
  <2>2. n - d \in Nat
    BY <2>1
  <2>. QED BY <2>1, <2>2
<1>2. PICK k \in T : \A m \in T : k =< m
  <2>1. T \in SUBSET Nat
    OBVIOUS
  <2>. HIDE DEF T
  <2>. QED BY <1>1, <2>1, LeastNatural
<1>3. PICK d \in D : k = n - d
  BY <1>2
<1>4. ASSUME NEW e \in D PROVE e =< d
  <2>1. e \in 1 .. n /\ d \in 1 .. n
    BY <1>3
  <2>2. n - e \in T
    BY <2>1
  <2>3. n - d =< n - e
    BY <1>2, <1>3, <2>2
  <2>. QED BY <2>1, <2>3
<1>. QED BY <1>4

LEMMA DocumentIsNumbered ==
  ASSUME RunsInv, NEW x \in Versions, NEW s \in Sources
  PROVE  DocumentFor(x, s) \in Nat /\ DocumentFor(x, s) > 0
         /\ DocumentFor(x, s) =< (IF docs[x][s] = {} THEN rowIds + 1 ELSE rowIds)
<1>1. rowIds \in Nat /\ docs[x][s] \subseteq 1 .. rowIds
  BY DEF RunsInv, NumbersInv, IngestTypes
<1>2. CASE docs[x][s] = {}
  BY <1>1, <1>2 DEF DocumentFor
<1>3. CASE docs[x][s] # {}
  <2>1. \E d \in docs[x][s] : \A e \in docs[x][s] : e =< d
    BY <1>1, <1>3, GreatestId
  <2>2. DocumentFor(x, s) \in docs[x][s]
    BY <1>3, <2>1 DEF DocumentFor
  <2>. QED BY <1>1, <1>3, <2>2
<1>. QED BY <1>2, <1>3

\* A run moves on, and leaves the rows alone.
LEMMA RunMoves ==
  ASSUME RunsInv, NEW w \in Workers, NEW you \in WorkerType,
         worker' = [worker EXCEPT ![w] = you],
         you.phase # "idle" => you.version \in Versions /\ you.image \in Corpora,
         InProgress(you) => you.source \in Sources,
         you.phase \in {"deleting", "embedding"} => you.doc \in 1 .. rowIds',
         UNCHANGED <<upstream, edits>>, UNCHANGED corpus, rowIds' \in Nat,
         rowIds =< rowIds',
         hash' \in [Versions -> Corpora \cup {Absent}]
  PROVE  RunsInv'
<1>1. IngestTypes /\ NumbersInv
  BY DEF RunsInv
<1>2. WorkerTypes' /\ worker'[w] = you /\ \A u \in Workers \ {w} : worker'[u] = worker[u]
  BY <1>1, WorkerIs
<1>3. docs' = docs /\ chunks' = chunks
  BY DEF corpus
<1>4. IngestTypes'
  BY <1>1, <1>2, <1>3 DEF IngestTypes, WorkerTypes
<1>5. rowIds \in Nat /\ 1 .. rowIds \subseteq 1 .. rowIds'
  BY <1>1 DEF IngestTypes
<1>6. \A x \in Versions, s \in Sources : docs'[x][s] \subseteq 1 .. rowIds'
  BY <1>1, <1>3, <1>5 DEF NumbersInv
<1>7. \A u \in Workers :
        worker'[u].phase \in {"deleting", "embedding"} => worker'[u].doc \in 1 .. rowIds'
  BY <1>1, <1>2, <1>5 DEF NumbersInv
<1>. QED BY <1>4, <1>6, <1>7 DEF RunsInv, NumbersInv

LEMMA RunsEdit ==
  ASSUME RunsInv, NEW s \in Sources, Edit(s)
  PROVE  RunsInv'
<1>1. PICK t \in (IF Reverts THEN 0 .. edits' ELSE {edits'}) \cup {Unusable} :
        upstream' = [upstream EXCEPT ![s] = t]
  BY DEF Edit
<1>2. edits' \in Nat /\ edits' = edits + 1
  BY DEF Edit, RunsInv, IngestTypes
<1>3. t \in Texts
  BY <1>1, <1>2 DEF Texts
<1>4. upstream' \in Corpora
  BY <1>1, <1>3 DEF RunsInv, IngestTypes, Corpora
<1>5. UNCHANGED <<docs, chunks, hash, worker, rowIds>>
  BY DEF Edit, corpus
<1>. QED BY <1>2, <1>4, <1>5 DEF RunsInv, IngestTypes, NumbersInv

LEMMA RunsBegin ==
  ASSUME RunsInv, NEW w \in Workers, NEW x \in Versions, NEW S \in SUBSET Sources,
         BeginRun(w, x, S)
  PROVE  RunsInv'
<1>1. PICK you \in WorkerType :
        /\ worker' = [worker EXCEPT ![w] = you]
        /\ you.phase = "choosing" /\ you.version = x /\ you.image = upstream
  BY BeginIs DEF RunsInv
<1>2. upstream \in Corpora /\ hash' \in [Versions -> Corpora \cup {Absent}] /\ rowIds \in Nat
  BY DEF BeginRun, RunsInv, IngestTypes
<1>3. UNCHANGED <<upstream, edits>> /\ UNCHANGED corpus /\ rowIds' \in Nat /\ rowIds =< rowIds'
  BY <1>2 DEF BeginRun, source
<1>4. /\ ~ InProgress(you) /\ you.phase \notin {"deleting", "embedding"}
      /\ you.version \in Versions /\ you.image \in Corpora
  BY <1>1, <1>2 DEF InProgress
<1>. QED BY <1>1, <1>2, <1>3, <1>4, RunMoves

\* The transaction's document is one that is there, or gets the next id.
LEMMA RunsFind ==
  ASSUME RunsInv, NEW w \in Workers, FindChunks(w)
  PROVE  RunsInv'
<1>. DEFINE x == worker[w].version
            s == worker[w].source
<1>1. x \in Versions /\ s \in Sources /\ worker[w].image \in Corpora /\ rowIds \in Nat
  BY DEF FindChunks, RunsInv, IngestTypes, InProgress
<1>2. rowIds' = IF docs[x][s] = {} THEN rowIds + 1 ELSE rowIds
  BY DEF FindChunks
<1>3. rowIds' \in Nat /\ rowIds =< rowIds' /\ DocumentFor(x, s) \in 1 .. rowIds'
      /\ DocumentFor(x, s) \in Nat
  BY <1>1, <1>2, DocumentIsNumbered
<1>4. PICK you \in WorkerType :
        /\ worker' = [worker EXCEPT ![w] = you]
        /\ you.phase = "deleting" /\ SameRun(worker[w], you)
        /\ you.source = s /\ you.doc = DocumentFor(x, s)
  BY <1>3, FindIs DEF RunsInv
<1>5. UNCHANGED <<upstream, edits, hash, corpus>>
  BY DEF FindChunks, source
<1>6. hash' \in [Versions -> Corpora \cup {Absent}]
  BY <1>5 DEF RunsInv, IngestTypes
<1>. QED BY <1>1, <1>3, <1>4, <1>5, <1>6, RunMoves DEF SameRun

LEMMA RunsCommit ==
  ASSUME RunsInv, NEW w \in Workers, CommitSource(w)
  PROVE  RunsInv'
<1>. DEFINE x == worker[w].version
            s == worker[w].source
<1>0. IngestTypes /\ NumbersInv
  BY DEF RunsInv
<1>1. PICK you \in WorkerType :
        /\ worker' = [worker EXCEPT ![w] = you]
        /\ you.phase = "choosing" /\ SameRun(worker[w], you)
  BY <1>0, NextIs DEF CommitSource
<1>2. x \in Versions /\ worker[w].image \in Corpora /\ worker[w].doc \in 1 .. rowIds
  BY <1>0 DEF CommitSource, IngestTypes, NumbersInv
<1>3. WorkerTypes' /\ worker'[w] = you /\ \A u \in Workers \ {w} : worker'[u] = worker[u]
  BY <1>0, <1>1, <1>2, WorkerIs DEF SameRun, InProgress
<1>4. rowIds \in Nat /\ rowIds' = rowIds + 1 /\ UNCHANGED <<upstream, edits, hash>>
  BY <1>0 DEF CommitSource, IngestTypes, source
<1>5. /\ chunks' \in [Versions -> [Sources -> SUBSET Chunk]]
      /\ docs' \in [Versions -> [Sources -> SUBSET Nat]]
      /\ \A y \in Versions, r \in Sources :
           docs'[y][r] \subseteq docs[y][r] \cup {worker[w].doc}
  BY <1>0, CommitIs
<1>6. IngestTypes'
  BY <1>0, <1>3, <1>4, <1>5 DEF IngestTypes, WorkerTypes
<1>7. 1 .. rowIds \subseteq 1 .. rowIds'
  BY <1>4
<1>8. \A y \in Versions, r \in Sources : docs'[y][r] \subseteq 1 .. rowIds'
  BY <1>0, <1>2, <1>5, <1>7 DEF NumbersInv
<1>9. \A u \in Workers :
        worker'[u].phase \in {"deleting", "embedding"} => worker'[u].doc \in 1 .. rowIds'
  BY <1>0, <1>1, <1>3, <1>7 DEF NumbersInv
<1>. QED BY <1>6, <1>8, <1>9 DEF RunsInv, NumbersInv

LEMMA RunsGoOn ==
  ASSUME RunsInv, NEW w \in Workers, RunStep(w) \/ Crash(w)
  PROVE  RunsInv'
<1>0. IngestTypes /\ NumbersInv /\ rowIds \in Nat
      /\ hash \in [Versions -> Corpora \cup {Absent}]
  BY DEF RunsInv, IngestTypes
<1>1. ASSUME NEW s, NEW f \in BOOLEAN, NextSource(w, s, f), worker[w].phase # "idle",
             UNCHANGED <<source, corpus, hash, rowIds>>
      PROVE  RunsInv'
  <2>1. PICK you \in WorkerType :
          /\ worker' = [worker EXCEPT ![w] = you]
          /\ you.phase = "choosing" /\ SameRun(worker[w], you)
    BY <1>0, <1>1, NextIs
  <2>2. worker[w].version \in Versions /\ worker[w].image \in Corpora
    BY <1>0, <1>1 DEF IngestTypes
  <2>3. /\ UNCHANGED <<upstream, edits>> /\ UNCHANGED corpus
        /\ rowIds' \in Nat /\ rowIds =< rowIds' /\ hash' \in [Versions -> Corpora \cup {Absent}]
    BY <1>0, <1>1 DEF source
  <2>4. /\ ~ InProgress(you) /\ you.phase \notin {"deleting", "embedding"}
        /\ you.version \in Versions /\ you.image \in Corpora
    BY <2>1, <2>2 DEF InProgress, SameRun
  <2>. QED BY <2>1, <2>3, <2>4, RunMoves
<1>2. CASE \E s \in Sources : RefuseSource(w, s)
  BY <1>1, <1>2 DEF RefuseSource
<1>3. CASE \E s \in Sources : FetchSource(w, s)
  <2>1. PICK s \in Sources : FetchSource(w, s)
    BY <1>3
  <2>2. PICK you \in WorkerType :
          /\ worker' = [worker EXCEPT ![w] = you]
          /\ you.phase = "fetched" /\ SameRun(worker[w], you) /\ you.source = s
    BY <1>0, <2>1, FetchIs
  <2>3. worker[w].version \in Versions /\ worker[w].image \in Corpora
    BY <1>0, <2>1 DEF IngestTypes, FetchSource
  <2>4. /\ UNCHANGED <<upstream, edits>> /\ UNCHANGED corpus
        /\ rowIds' \in Nat /\ rowIds =< rowIds' /\ hash' \in [Versions -> Corpora \cup {Absent}]
    BY <1>0, <2>1 DEF FetchSource, source
  <2>5. /\ you.phase \notin {"deleting", "embedding"} /\ you.source \in Sources
        /\ you.version \in Versions /\ you.image \in Corpora
    BY <2>2, <2>3 DEF SameRun
  <2>. QED BY <2>2, <2>4, <2>5, RunMoves
<1>4. CASE DeleteChunks(w)
  <2>1. PICK you \in WorkerType :
          /\ worker' = [worker EXCEPT ![w] = you]
          /\ you.phase = "embedding" /\ SameRun(worker[w], you)
          /\ you.source = worker[w].source /\ you.doc = worker[w].doc
    BY <1>0, <1>4, DeleteIs
  <2>2. /\ worker[w].version \in Versions /\ worker[w].image \in Corpora
        /\ worker[w].source \in Sources /\ worker[w].doc \in 1 .. rowIds
    BY <1>0, <1>4 DEF IngestTypes, NumbersInv, DeleteChunks, InProgress
  <2>3. /\ UNCHANGED <<upstream, edits>> /\ UNCHANGED corpus
        /\ rowIds' \in Nat /\ rowIds =< rowIds' /\ hash' \in [Versions -> Corpora \cup {Absent}]
    BY <1>0, <1>4 DEF DeleteChunks, source
  <2>4. /\ you.doc \in 1 .. rowIds' /\ you.source \in Sources
        /\ you.version \in Versions /\ you.image \in Corpora
    BY <1>4, <2>1, <2>2 DEF SameRun, DeleteChunks
  <2>. QED BY <2>1, <2>3, <2>4, RunMoves
<1>5. CASE FailSource(w)
  BY <1>1, <1>5 DEF FailSource
<1>6. CASE EndRun(w) \/ Crash(w)
  <2>1. /\ worker' = [worker EXCEPT ![w] = NotRunning]
        /\ UNCHANGED <<upstream, edits>> /\ UNCHANGED corpus
        /\ rowIds' \in Nat /\ rowIds =< rowIds'
    BY <1>0, <1>6 DEF EndRun, Crash, source
  <2>2. hash' \in [Versions -> Corpora \cup {Absent}]
    <3>1. CASE EndRun(w)
      <4>1. worker[w].version \in Versions /\ worker[w].image \in Corpora
        BY <1>0, <3>1 DEF EndRun, IngestTypes
      <4>. QED BY <1>0, <3>1, <4>1 DEF EndRun
    <3>2. CASE Crash(w)
      BY <1>0, <3>2 DEF Crash
    <3>. QED BY <1>6, <3>1, <3>2
  <2>3. ~ InProgress(NotRunning) /\ NotRunning.phase \notin {"deleting", "embedding"}
    BY IdleRun DEF InProgress
  <2>. QED BY <2>1, <2>2, <2>3, IdleRun, RunMoves
<1>. QED BY <1>2, <1>3, <1>4, <1>5, <1>6, RunsFind, RunsCommit DEF RunStep

LEMMA RunsStep ==
  ASSUME RunsInv, IngestNext \/ UNCHANGED ingestVars
  PROVE  RunsInv'
<1>1. CASE IngestNext
  BY <1>1, RunsEdit, RunsBegin, RunsGoOn DEF IngestNext
<1>2. CASE UNCHANGED ingestVars
  <2>1. UNCHANGED <<upstream, edits, docs, chunks, hash, worker, rowIds>>
    BY <1>2 DEF ingestVars, source, corpus
  <2>. QED BY <2>1 DEF RunsInv, IngestTypes, NumbersInv
<1>. QED BY <1>1, <1>2

\* What a request may hold.
AskType ==
  [phase : {"idle", "pinned", "retrieving", "generating", "answered"},
   pinned : Versions \cup {Absent}, key : Corpora \cup {NoHash},
   pin : {"none", "one", "ambiguous"}, arms : 0 .. 2, evidence : SUBSET Hit,
   cacheable : BOOLEAN]

AskTypes ==
  /\ active \subseteq Versions /\ ask \in [Askers -> AskType]
  /\ \A e \in cache : e.key \in Corpora \cup {NoHash} /\ e.evidence \subseteq Hit

\* With what IsAsk says of its fields' names, a request has its type.
LEMMA IsOfAskType ==
  ASSUME NEW r, IsAsk(r),
         r.phase \in {"idle", "pinned", "retrieving", "generating", "answered"},
         r.pinned \in Versions \cup {Absent}, r.key \in Corpora \cup {NoHash},
         r.pin \in {"none", "one", "ambiguous"}, r.arms \in 0 .. 2, r.evidence \subseteq Hit
  PROVE  r \in AskType
BY DEF IsAsk, AskType

LEMMA TypeIsAsk ==
  ASSUME AskTypes
  PROVE  AskShapes /\ \A a \in Askers : ask[a] \in AskType
BY DEF AskTypes, AskType, AskShapes, IsAsk

LEMMA AskMoves ==
  ASSUME AskTypes, RunsInv, NEW a \in Askers, ReadIndex(a) \/ AskStep(a) \/ Abandon(a)
  PROVE  \E r \in AskType : ask' = [ask EXCEPT ![a] = r]
<1>0. AskShapes /\ ask[a] \in AskType
  BY TypeIsAsk
<1>1. CASE ReadIndex(a)
  <2>1. Resolution \in {"none", "one", "ambiguous"} /\ (Resolution = "one" => active # {})
    BY DEF Resolution
  <2>2. Resolution = "one" => (CHOOSE y \in active : TRUE) \in Versions
    BY <2>1 DEF AskTypes
  <2>3. \A y \in Versions : hash[y] \in Corpora \cup {NoHash}
    BY DEF RunsInv, IngestTypes, NoHash
  <2>4. PICK r : /\ AskBecomes(a, r) /\ r.phase = "pinned" /\ r.evidence = {} /\ r.arms = 0
                 /\ \/ /\ Resolution = "one"
                       /\ r.pinned = (CHOOSE y \in active : TRUE)
                       /\ r.key = hash[CHOOSE y \in active : TRUE] /\ r.pin = "one"
                    \/ r.pinned = Absent /\ r.key = NoHash /\ r.pin = Resolution
    BY <1>1, ReadIs
  <2>5. r.pinned \in Versions \cup {Absent} /\ r.key \in Corpora \cup {NoHash}
        /\ r.pin \in {"none", "one", "ambiguous"}
    BY <2>1, <2>2, <2>3, <2>4
  <2>6. r \in AskType
    <3>1. IsAsk(r) /\ r.arms \in 0 .. 2 /\ r.evidence \subseteq Hit
      BY <2>4 DEF AskBecomes
    <3>. QED BY <2>4, <2>5, <3>1, IsOfAskType
  <2>. QED BY <2>4, <2>6 DEF AskBecomes
<1>2. CASE Miss(a)
  BY <1>0, <1>2, MissIs, IsOfAskType DEF AskBecomes, SamePin, AskType
<1>3. CASE RetrieveArm(a)
  <2>1. PICK r, V, left :
           /\ V \in Scopes(a) /\ left \in {ask[a].arms - 1, 0}
           /\ AskBecomes(a, r) /\ SamePin(ask[a], r)
           /\ r.phase = ask[a].phase
           /\ r.evidence = ask[a].evidence \cup Visible(V) /\ r.arms = left
    BY <1>0, <1>3, ArmIs
  <2>2. V \in SUBSET Versions
    BY <1>0, <2>1 DEF Scopes, AskType
  <2>3. Visible(V) \subseteq Hit
    BY <2>2, VisibleIs DEF RunsInv
  <2>4. ask[a].arms > 0 /\ ask[a].arms \in 0 .. 2
    BY <1>0, <1>3 DEF RetrieveArm, AskType
  <2>5. r.arms \in 0 .. 2 /\ r.evidence \subseteq Hit
    BY <1>0, <2>1, <2>3, <2>4 DEF AskType
  <2>. QED BY <1>0, <2>1, <2>5, IsOfAskType DEF AskBecomes, SamePin, AskType
<1>4. CASE Finalize(a)
  BY <1>0, <1>4, FinalIs, IsOfAskType DEF AskBecomes, SamePin, AskType
<1>5. CASE Generate(a)
  BY <1>0, <1>5, AnsweredIs, IsOfAskType DEF AskBecomes, SamePin, AskType
<1>6. CASE Closes(a)
  <2>1. NotAsking \in AskType
    BY DEF NotAsking, AskType
  <2>. QED BY <1>6, <2>1, ClosesIs DEF AskBecomes
<1>. QED BY <1>1, <1>2, <1>3, <1>4, <1>5, <1>6 DEF AskStep, Closes

LEMMA CacheMoves ==
  ASSUME AskTypes, AnswersNext \/ UNCHANGED answersVars
  PROVE  \A e \in cache' : e.key \in Corpora \cup {NoHash} /\ e.evidence \subseteq Hit
<1>1. ASSUME NEW a \in Askers, Persist(a)
      PROVE  \A e \in cache' : e.key \in Corpora \cup {NoHash} /\ e.evidence \subseteq Hit
  <2>1. Entry(a).key \in Corpora \cup {NoHash} /\ Entry(a).evidence \subseteq Hit
    BY <1>1, TypeIsAsk DEF Entry, AskType
  <2>2. \A e \in cache' : e \in cache \/ e = Entry(a)
    BY <1>1 DEF Persist
  <2>. QED BY <2>1, <2>2 DEF AskTypes
<1>2. (\E a \in Askers : Persist(a)) \/ cache' \subseteq cache
  BY DEF AnswersNext, askVars, answersVars, Promote, ReadIndex, AskStep, AnswerFromCache, Miss,
         RetrieveArm, Finalize, GiveUp, Generate, FailOnEvidence, Abandon, Expire
<1>. QED BY <1>1, <1>2 DEF AskTypes

\* The bounds of an instance are kept.
BoundsInv == edits \in 0 .. MaxEdits /\ runCount \in 0 .. MaxRuns

LEMMA BoundsKeep ==
  ASSUME BoundsInv, IngestNext \/ UNCHANGED ingestVars
  PROVE  BoundsInv'
<1>1. MaxEdits \in Nat /\ MaxRuns \in Nat
  BY IngestBoundsAssumption
<1>2. \/ edits' = edits /\ runCount' = runCount
      \/ edits < MaxEdits /\ edits' = edits + 1 /\ runCount' = runCount
      \/ runCount < MaxRuns /\ runCount' = runCount + 1 /\ edits' = edits
  BY DEF IngestNext, RunStep, Edit, BeginRun, RefuseSource, FetchSource, FindChunks, DeleteChunks,
         FailSource, CommitSource, EndRun, Crash, source, ingestVars
<1>. QED BY <1>1, <1>2 DEF BoundsInv

\* The types of the corpus rows, of every run and of every request, for any number
\* of overlapping runs: also where two first ingestions leave two documents for a
\* source (_find_document_for_source takes the latest).
THEOREM AnswersTyped == AnswersSpec => []AnswersTypeOK
<1>. DEFINE Inv == RunsInv /\ AskTypes /\ BoundsInv
<1>1. AnswersInit => Inv
  <2>. SUFFICES ASSUME AnswersInit PROVE Inv
    OBVIOUS
  <2>1. IngestTypes
    BY IngestBegins DEF AnswersInit, IngestInv
  <2>2. NumbersInv
    <3>1. \A x \in Versions, s \in Sources : docs[x][s] \subseteq 1 .. rowIds
      BY DEF AnswersInit, IngestInit
    <3>2. \A w \in Workers : worker[w].phase = "idle"
      BY IdleRun DEF AnswersInit, IngestInit
    <3>. QED BY <3>1, <3>2 DEF NumbersInv
  <2>3. AskTypes
    BY DEF AnswersInit, AskTypes, AskType, NotAsking
  <2>4. BoundsInv
    BY IngestBoundsAssumption DEF AnswersInit, IngestInit, BoundsInv
  <2>. QED BY <2>1, <2>2, <2>3, <2>4 DEF RunsInv
<1>2. ASSUME Inv, [AnswersNext]_answersVars PROVE Inv'
  <2>1. \A e \in cache' : e.key \in Corpora \cup {NoHash} /\ e.evidence \subseteq Hit
    BY <1>2, CacheMoves
  <2>2. IngestNext \/ UNCHANGED ingestVars
    BY <1>2, Sides
  <2>3. active' \subseteq Versions /\ ask' \in [Askers -> AskType]
    <3>1. CASE UNCHANGED ask
      BY <1>2, <3>1, Sides DEF AskTypes
    <3>2. CASE UNCHANGED active /\ \E a \in Askers : ReadIndex(a) \/ AskStep(a) \/ Abandon(a)
      BY <1>2, <3>2, AskMoves DEF AskTypes
    <3>. QED BY <1>2, <3>1, <3>2, Sides
  <2>. QED BY <1>2, <2>1, <2>2, <2>3, RunsStep, BoundsKeep DEF AskTypes
<1>3. Inv => AnswersTypeOK
  BY DEF RunsInv, IngestTypes, AskTypes, AskType, BoundsInv, AnswersTypeOK, IngestTypeOK
<1>. HIDE DEF Inv
<1>. QED BY <1>1, <1>2, <1>3, PTL DEF AnswersSpec
=============================================================================
