--------------------------- MODULE AnswerProofs ----------------------------
(***************************************************************************)
(* The theorems about how an answer comes about.  VectorSpaces: a question *)
(* meets vectors of its own model only, for any number of versions,        *)
(* sources, runs, questions and embedders.  AnswerText: a marker is read   *)
(* as it stands, whatever the model writes.  SourceText: an exact search   *)
(* finds the sections that have the term, for any texts, versions and      *)
(* sources.  AnswerPath: a conversation keeps its topic, and a card is     *)
(* shown for a grounded answer only, for any conversations, questions and  *)
(* texts.  RequestGuards: a window admits no more than its limit and a     *)
(* solution lets one request on, for any number of requests, buckets and   *)
(* challenges, any limits, and any wait up to MaxDelay.                    *)
(***************************************************************************)
EXTENDS MCGuards, FiniteSetTheorems, WellFoundedInduction, TLAPS

----------------------------------------------------------------------------
(* VectorSpaces.                                                           *)

RunType ==
  [version : Versions \cup {Unset}, by : Writers \cup {Unset}, left : SUBSET Sources,
   whole : BOOLEAN, failed : BOOLEAN, alone : BOOLEAN]

AskType ==
  [step : {"idle", "pinned", "allowed", "compared", "degraded"},
   by : Embedders \cup {Unset}, version : Versions \cup {Unset},
   stamp : Embedders \cup {Unset, "unknown", "ambiguous"},
   known : SUBSET Embedders, compared : SUBSET Embedders]

\* The stamp names a builder of its version, or nothing where it has none; a
\* version that is active has a row, and the vectors are of its builders.
BuildInv ==
  /\ \A v \in Versions :
       /\ stamp[v] \in builders[v] \cup {"absent", "unknown"}
       /\ stamp[v] \in {"absent", "unknown"} => builders[v] = {}
       /\ v \in active => stamp[v] # "absent"
  /\ \A v \in Versions, s \in Sources : vectors[v][s] \in builders[v] \cup {"null", "absent"}

\* What a run of version v has done: its embedder is a builder, and one that is
\* alone on its version has stamped it and, if it is whole, embedded every source
\* that is through.
RunAt(i, v) ==
  ingest[i].version = v =>
    /\ ingest[i].by \in builders[v] \cup {"null"}
    /\ ingest[i].alone = TRUE =>
         /\ \A j \in Ingesters : j # i => ingest[j].version # v
         /\ ingest[i].by # "null" => stamp[v] = ingest[i].by
         /\ ingest[i].whole = TRUE /\ ingest[i].failed = FALSE =>
              \A s \in Sources : s \in ingest[i].left \/ vectors[v][s] = ingest[i].by

NoRunAt(i) ==
  ingest[i].version \notin Versions => ingest[i].left = {} /\ ingest[i].alone = FALSE

RunInv == \A i \in Ingesters : NoRunAt(i) /\ \A v \in Versions : RunAt(i, v)

\* A question on its way knows every builder of what it reads; once allowed, its
\* own embedder is one of them unless nothing was known.
AskOk(a) ==
  /\ a.step \in {"pinned", "allowed"} =>
       /\ a.by \in Embedders
       /\ a.version \in Versions => stamp[a.version] # "absent"
       /\ \A v \in Scope(a.version) : builders[v] \subseteq a.known
  /\ a.step = "allowed" => a.stamp = "unknown" \/ a.by \in a.known
  /\ a.step # "compared" => a.compared = {}
  /\ a.compared \subseteq a.known
  /\ a.compared # {} => a.stamp = "unknown" \/ a.by \in a.known

AskInv == \A q \in Askers : AskOk(ask[q])

SpaceInv == SpacesTypeOK /\ BuildInv /\ RunInv /\ AskInv

LEMMA Apart ==
  /\ Unset \notin Versions /\ Unset \notin Embedders
  /\ "absent" \notin Embedders /\ "unknown" \notin Embedders
  /\ "ambiguous" \notin Embedders /\ "null" \notin Embedders
BY SpacesAssumption

\* A set of at most one embedder that has e in it is {e}.
LEMMA OneEmbedder ==
  ASSUME NEW S \in SUBSET Embedders, Cardinality(S) <= 1, NEW e \in S
  PROVE  S = {e}
<1>1. IsFiniteSet(S)
  BY FS_Subset, SpacesAssumption
<1>2. IsFiniteSet({e}) /\ Cardinality({e}) = 1
  BY FS_Singleton
<1>3. Cardinality({e}) <= Cardinality(S) /\ (Cardinality(S) = Cardinality({e}) => S = {e})
  BY <1>1, FS_Subset
<1>4. Cardinality(S) \in Nat
  BY <1>1, FS_CardinalityType
<1>. QED BY <1>2, <1>3, <1>4

----------------------------------------------------------------------------
(* What the invariant says of the property.                                 *)

LEMMA InvMatches == SpaceInv => SpacesMatch
<1>. SUFFICES ASSUME SpaceInv PROVE SpacesMatch
  OBVIOUS
<1>1. ASSUME NEW q \in Askers, ask[q].stamp # "unknown", Cardinality(ask[q].known) <= 1
      PROVE  ask[q].compared \subseteq {ask[q].by}
  <2>1. PICK a : a = ask[q]
    OBVIOUS
  <2>2. a \in AskType /\ AskOk(a)
    BY <2>1 DEF SpaceInv, SpacesTypeOK, AskType, AskInv
  <2>3. CASE a.compared = {}
    BY <2>1, <2>3
  <2>4. CASE a.compared # {}
    <3>1. a.by \in a.known /\ a.compared \subseteq a.known /\ a.known \in SUBSET Embedders
      BY <1>1, <2>1, <2>2, <2>4 DEF AskOk, AskType
    <3>2. a.known = {a.by}
      BY <1>1, <2>1, <3>1, OneEmbedder
    <3>. QED BY <2>1, <3>1, <3>2
  <2>. QED BY <2>3, <2>4
<1>2. ASSUME NEW e \in Embedders, NEW v \in active, VectorArm(e, v) = "healthy",
             Cardinality(builders[v]) <= 1, NEW s \in Chunked(v)
      PROVE  vectors[v][s] = e
  <2>1. v \in Versions /\ s \in Sources /\ builders[v] \in SUBSET Embedders
    BY DEF SpaceInv, SpacesTypeOK, Chunked
  <2>2. ~ Mismatch(e, stamp[v]) /\ Embedded(v) = Chunked(v)
    BY <1>2 DEF VectorArm
  <2>3. vectors[v][s] # "absent" /\ vectors[v][s] # "null"
    BY <2>2 DEF Chunked, Embedded
  <2>4. vectors[v][s] \in builders[v]
    BY <2>1, <2>3 DEF SpaceInv, BuildInv
  <2>5. stamp[v] = e
    BY <2>1, <2>2, <2>4 DEF SpaceInv, BuildInv, Mismatch
  <2>6. e \in builders[v]
    BY <2>1, <2>5, Apart DEF SpaceInv, BuildInv
  <2>. QED BY <1>2, <2>1, <2>4, <2>6, OneEmbedder
<1>. QED BY <1>1, <1>2 DEF SpacesMatch

----------------------------------------------------------------------------
(* The vector arm of one question.                                          *)

\* One question moves, the index stands.
LEMMA AskMoves ==
  ASSUME SpaceInv, NEW q \in Askers, NEW a \in AskType, AskOk(a),
         ask' = [ask EXCEPT ![q] = a],
         UNCHANGED <<stamp, vectors, active, ingest, begun, builders>>
  PROVE  SpaceInv'
<1>1. SpacesTypeOK'
  BY DEF SpaceInv, SpacesTypeOK, AskType
<1>2. BuildInv' /\ RunInv'
  BY DEF SpaceInv, BuildInv, RunInv, RunAt, NoRunAt
<1>3. \A p \in Askers : AskOk(ask'[p])
  BY DEF SpaceInv, SpacesTypeOK, AskInv
<1>4. AskInv'
  BY <1>3 DEF AskInv, AskOk
<1>. QED BY <1>1, <1>2, <1>4 DEF SpaceInv

LEMMA AskParts ==
  ASSUME SpaceInv, NEW q \in Askers PROVE ask[q] \in AskType /\ AskOk(ask[q])
BY DEF SpaceInv, SpacesTypeOK, AskType, AskInv

LEMMA PinKeeps ==
  ASSUME SpaceInv, NEW q \in Askers, NEW e \in Embedders, Pin(q, e) PROVE SpaceInv'
<1>1. PICK version \in Versions \cup {Unset} :
        (version \in Versions => version \in active) /\ ask' = [ask EXCEPT ![q] =
            [step |-> "pinned", by |-> e, version |-> version, stamp |-> Unset,
             known |-> UNION {builders[v] : v \in Scope(version)}, compared |-> {}]]
  BY Apart DEF Pin
<1>2. PICK known : known = UNION {builders[v] : v \in Scope(version)}
  OBVIOUS
<1>3. PICK a : a = [step |-> "pinned", by |-> e, version |-> version, stamp |-> Unset,
                    known |-> known, compared |-> {}]
  OBVIOUS
<1>4. Scope(version) \subseteq Versions
  BY DEF Scope
<1>5. known \subseteq Embedders /\ \A v \in Scope(version) : builders[v] \subseteq known
  BY <1>2, <1>4 DEF SpaceInv, SpacesTypeOK
<1>6. a \in AskType
  BY <1>3, <1>5 DEF AskType
<1>7. AskOk(a)
  <2>1. /\ a.step = "pinned" /\ a.by = e /\ a.version = version /\ a.known = known
        /\ a.compared = {}
    BY <1>3
  <2>2. version \in Versions => stamp[version] # "absent"
    BY <1>1, Apart DEF SpaceInv, BuildInv
  <2>. QED BY <1>5, <2>1, <2>2 DEF AskOk
<1>8. ask' = [ask EXCEPT ![q] = a]
  BY <1>1, <1>2, <1>3
<1>. QED BY <1>6, <1>7, <1>8, AskMoves DEF Pin

\* What the stamp says of a question's own embedder: if it agrees, the embedder is
\* one of the builders the question knows.
LEMMA ReadStampKeeps ==
  ASSUME SpaceInv, NEW q \in Askers, ReadStamp(q) PROVE SpaceInv'
<1>1. PICK old : old = ask[q]
  OBVIOUS
<1>2. PICK read : read = StampFor(old.version)
  OBVIOUS
<1>3. old \in AskType /\ AskOk(old) /\ old.step = "pinned"
  BY <1>1, AskParts DEF ReadStamp
<1>4. PICK step : step = IF Mismatch(old.by, read) THEN "degraded" ELSE "allowed"
  OBVIOUS
<1>5. PICK a : a = [old EXCEPT !.stamp = read, !.step = step]
  OBVIOUS
<1>6. ask' = [ask EXCEPT ![q] = a]
  BY <1>1, <1>2, <1>4, <1>5 DEF ReadStamp
<1>7. \/ read \in {"unknown", "ambiguous"}
      \/ \E v \in Scope(old.version) :
           v \in Versions /\ read = stamp[v] /\ stamp[v] # "absent"
  <2>1. old.version \in Versions \cup {Unset} /\ active \subseteq Versions
    BY <1>3 DEF AskType, SpaceInv, SpacesTypeOK
  <2>2. CASE old.version # Unset
    <3>1. old.version \in Versions /\ stamp[old.version] # "absent"
      BY <1>3, <2>1, <2>2 DEF AskOk
    <3>. QED BY <1>2, <2>2, <3>1 DEF StampFor, Scope
  <2>3. CASE old.version = Unset /\ active # {}
    <3>1. (CHOOSE v \in active : TRUE) \in active
      BY <2>3
    <3>2. \A v \in active : stamp[v] # "absent"
      BY <2>1 DEF SpaceInv, BuildInv
    <3>. QED BY <1>2, <2>1, <2>3, <3>1, <3>2 DEF StampFor, Scope
  <2>4. CASE old.version = Unset /\ active = {}
    BY <1>2, <2>4 DEF StampFor
  <2>. QED BY <2>2, <2>3, <2>4
<1>8. /\ old.by \in Embedders /\ (old.version \in Versions => stamp[old.version] # "absent")
      /\ \A v \in Scope(old.version) : builders[v] \subseteq old.known
  BY <1>3 DEF AskOk
<1>9. step = "allowed" => read = "unknown" \/ old.by \in old.known
  <2>1. ASSUME step = "allowed", read # "unknown" PROVE old.by \in old.known
    <3>1. read = old.by
      BY <1>4, <2>1 DEF Mismatch
    <3>2. PICK v \in Scope(old.version) : v \in Versions /\ read = stamp[v]
      BY <1>7, <1>8, <2>1, <3>1, Apart
    <3>3. read \in builders[v]
      BY <1>8, <3>1, <3>2, Apart DEF SpaceInv, BuildInv
    <3>. QED BY <1>8, <3>1, <3>2, <3>3
  <2>. QED BY <2>1
<1>10. step \in {"degraded", "allowed"}
  BY <1>4
<1>11. read \in Embedders \cup {"unknown", "ambiguous"}
  BY <1>7 DEF SpaceInv, SpacesTypeOK
<1>12. a \in AskType
  BY <1>3, <1>5, <1>10, <1>11 DEF AskType
<1>13. /\ a.step = step /\ a.stamp = read /\ a.by = old.by /\ a.version = old.version
       /\ a.known = old.known /\ a.compared = old.compared
  BY <1>3, <1>5 DEF AskType
<1>14. old.compared = {}
  BY <1>3 DEF AskOk
<1>15. AskOk(a)
  BY <1>8, <1>9, <1>10, <1>13, <1>14 DEF AskOk
<1>. QED BY <1>6, <1>12, <1>15, AskMoves DEF ReadStamp

\* What is compared is of the builders the question knows.
LEMMA CompareKeeps ==
  ASSUME SpaceInv, NEW q \in Askers, Compare(q) PROVE SpaceInv'
<1>1. PICK old : old = ask[q]
  OBVIOUS
<1>2. old \in AskType /\ AskOk(old) /\ old.step = "allowed"
  BY <1>1, AskParts DEF Compare
<1>3. PICK compared : compared = SpacesIn(old.version)
  OBVIOUS
<1>4. PICK a : a = [old EXCEPT !.step = "compared", !.compared = compared]
  OBVIOUS
<1>5. ask' = [ask EXCEPT ![q] = a]
  BY <1>1, <1>3, <1>4 DEF Compare
<1>6. compared \subseteq old.known /\ compared \subseteq Embedders
  <2>1. old.version \in Versions \cup {Unset} /\ Scope(old.version) \subseteq Versions
    BY <1>2 DEF AskType, Scope
  <2>2. ASSUME NEW v \in Scope(old.version), NEW s \in Sources, vectors[v][s] \in Embedders
        PROVE  vectors[v][s] \in old.known
    <3>1. vectors[v][s] \in builders[v]
      BY <2>1, <2>2, Apart DEF SpaceInv, BuildInv
    <3>. QED BY <1>2, <2>2, <3>1 DEF AskOk
  <2>. QED BY <1>3, <2>2 DEF SpacesIn
<1>7. a \in AskType
  BY <1>2, <1>4, <1>6 DEF AskType
<1>8. /\ a.step = "compared" /\ a.stamp = old.stamp /\ a.by = old.by
      /\ a.known = old.known /\ a.compared = compared
  BY <1>2, <1>4 DEF AskType
<1>9. AskOk(a)
  BY <1>2, <1>6, <1>8 DEF AskOk
<1>. QED BY <1>5, <1>7, <1>9, AskMoves DEF Compare

LEMMA EndsKeep ==
  ASSUME SpaceInv, NEW q \in Askers, EmbedderFails(q) \/ Ask(q) PROVE SpaceInv'
<1>1. CASE EmbedderFails(q)
  <2>1. PICK old : old = ask[q]
    OBVIOUS
  <2>2. old \in AskType /\ AskOk(old) /\ old.step = "allowed"
    BY <1>1, <2>1, AskParts DEF EmbedderFails
  <2>3. PICK a : a = [old EXCEPT !.step = "degraded"]
    OBVIOUS
  <2>4. ask' = [ask EXCEPT ![q] = a]
    BY <1>1, <2>1, <2>3 DEF EmbedderFails
  <2>5. a \in AskType /\ a.step = "degraded" /\ a.compared = old.compared
        /\ a.known = old.known
    BY <2>2, <2>3 DEF AskType
  <2>6. AskOk(a)
    BY <2>2, <2>5 DEF AskOk
  <2>. QED BY <1>1, <2>4, <2>5, <2>6, AskMoves DEF EmbedderFails
<1>2. CASE Ask(q)
  <2>1. NoQuestion \in AskType /\ AskOk(NoQuestion)
    BY DEF NoQuestion, AskType, AskOk
  <2>. QED BY <1>2, <2>1, AskMoves DEF Ask
<1>. QED BY <1>1, <1>2
----------------------------------------------------------------------------
(* The worker and the promotions.                                           *)

LEMMA PromoteKeeps ==
  ASSUME SpaceInv, NEW v \in Versions, Promote(v) PROVE SpaceInv'
<1>1. /\ active' \subseteq active \cup {v} /\ stamp[v] # "absent"
      /\ UNCHANGED <<stamp, vectors, ingest, begun, ask, builders>>
  BY DEF Promote
<1>2. SpacesTypeOK'
  BY <1>1 DEF SpaceInv, SpacesTypeOK
<1>3. BuildInv'
  BY <1>1 DEF SpaceInv, BuildInv
<1>4. RunInv'
  BY <1>1 DEF SpaceInv, RunInv, RunAt, NoRunAt
<1>5. AskInv'
  BY <1>1 DEF SpaceInv, AskInv, AskOk
<1>. QED BY <1>2, <1>3, <1>4, <1>5 DEF SpaceInv

\* What a question knows stays enough where no version gets another builder.
LEMMA AskStands ==
  ASSUME SpaceInv, UNCHANGED <<ask, stamp>>,
         \A v \in Versions : builders'[v] \subseteq builders[v]
  PROVE  AskInv'
<1>1. ASSUME NEW q \in Askers PROVE AskOk(ask[q])'
  <2>1. PICK a : a = ask[q]
    OBVIOUS
  <2>2. AskOk(a) /\ a = ask'[q] /\ Scope(a.version) \subseteq Versions
    BY <2>1, AskParts DEF AskType, Scope
  <2>. QED BY <2>2 DEF AskOk
<1>. QED BY <1>1 DEF AskInv

LEMMA RunParts ==
  ASSUME SpaceInv, NEW i \in Ingesters PROVE ingest[i] \in RunType
BY DEF SpaceInv, SpacesTypeOK, RunType

\* A run takes one of its sources off, and does no other.
LEMMA SourceDone ==
  ASSUME SpaceInv, NEW i \in Ingesters, NEW s \in ingest[i].left, NEW r \in RunType,
         r.version = ingest[i].version, r.by = ingest[i].by, r.whole = ingest[i].whole,
         r.alone = ingest[i].alone, r.left = ingest[i].left \ {s},
         NEW v \in Versions, v = ingest[i].version,
         ingest' = [ingest EXCEPT ![i] = r],
         \/ r.failed = TRUE /\ UNCHANGED vectors
         \/ /\ r.failed = ingest[i].failed
            /\ vectors' = [vectors EXCEPT ![v] = [vectors[v] EXCEPT ![s] = r.by]],
         UNCHANGED <<stamp, active, begun, ask, builders>>
  PROVE  SpaceInv'
<1>1. s \in Sources
  BY RunParts DEF RunType
<1>2. r.by \in builders[v] \cup {"null"} /\ r.by \in Writers
  BY DEF SpaceInv, RunInv, RunAt, SpacesTypeOK, Writers
<1>3. \A w \in Versions, t \in Sources :
        vectors'[w][t] = vectors[w][t] \/ (w = v /\ t = s /\ vectors'[w][t] = r.by)
  BY <1>1 DEF SpaceInv, SpacesTypeOK
<1>4. vectors' \in [Versions -> [Sources -> Writers \cup {"absent"}]]
  <2>1. vectors \in [Versions -> [Sources -> Writers \cup {"absent"}]]
    BY DEF SpaceInv, SpacesTypeOK
  <2>2. [vectors[v] EXCEPT ![s] = r.by] \in [Sources -> Writers \cup {"absent"}]
    BY <1>1, <1>2, <2>1
  <2>. QED BY <2>1, <2>2
<1>5. /\ ingest' \in [Ingesters -> RunType] /\ ingest'[i] = r
      /\ \A j \in Ingesters : j # i => ingest'[j] = ingest[j]
  BY DEF SpaceInv, SpacesTypeOK, RunType
<1>6. SpacesTypeOK'
  BY <1>4, <1>5 DEF SpaceInv, SpacesTypeOK, RunType
<1>7. BuildInv'
  <2>1. \A w \in Versions, t \in Sources :
          vectors'[w][t] \in builders[w] \cup {"null", "absent"}
    BY <1>2, <1>3 DEF SpaceInv, BuildInv
  <2>. QED BY <2>1 DEF SpaceInv, BuildInv
<1>8. RunInv'
  <2>1. ASSUME NEW j \in Ingesters PROVE NoRunAt(j)'
    BY <1>5 DEF SpaceInv, RunInv, NoRunAt
  <2>2. ASSUME NEW j \in Ingesters, NEW w \in Versions, ingest'[j].version = w
        PROVE  /\ ingest'[j].by \in builders[w] \cup {"null"}
               /\ ingest'[j].alone = TRUE =>
                    /\ \A k \in Ingesters : k # j => ingest'[k].version # w
                    /\ ingest'[j].by # "null" => stamp[w] = ingest'[j].by
                    /\ ingest'[j].whole = TRUE /\ ingest'[j].failed = FALSE =>
                         \A t \in Sources : t \in ingest'[j].left \/ vectors'[w][t] = ingest'[j].by
    <3>0. \A k \in Ingesters : ingest'[k].version = ingest[k].version
      BY <1>5
    <3>1. CASE j = i
      <4>1. w = v
        BY <1>5, <2>2, <3>1
      <4>2. ASSUME r.alone = TRUE, r.whole = TRUE, r.failed = FALSE, NEW t \in Sources, t \notin r.left
            PROVE  vectors'[v][t] = r.by
        <5>1. ingest[i].failed = FALSE \/ UNCHANGED vectors
          BY <4>2
        <5>2. vectors' = [vectors EXCEPT ![v] = [vectors[v] EXCEPT ![s] = r.by]]
              /\ ingest[i].failed = FALSE
          BY <4>2
        <5>3. CASE t = s
          BY <1>1, <5>2, <5>3 DEF SpaceInv, SpacesTypeOK
        <5>4. CASE t # s
          <6>1. t \notin ingest[i].left
            BY <4>2, <5>4
          <6>2. vectors[v][t] = r.by
            BY <4>2, <5>2, <6>1 DEF SpaceInv, RunInv, RunAt, NoRunAt
          <6>. QED BY <1>3, <5>4, <6>2
        <5>. QED BY <5>3, <5>4
      <4>3. /\ r.by \in builders[w] \cup {"null"}
            /\ r.alone = TRUE => /\ \A k \in Ingesters : k # i => ingest[k].version # w
                                 /\ r.by # "null" => stamp[w] = r.by
        BY <4>1 DEF SpaceInv, RunInv, RunAt, NoRunAt
      <4>. QED BY <1>5, <3>0, <3>1, <4>1, <4>2, <4>3
    <3>2. CASE j # i
      <4>1. /\ ingest[j].version = w /\ ingest'[j] = ingest[j]
            /\ ingest[j].by \in builders[w] \cup {"null"}
        BY <1>5, <2>2, <3>2 DEF SpaceInv, RunInv, RunAt, NoRunAt
      <4>2. CASE ingest[j].alone = TRUE
        <5>1. /\ \A k \in Ingesters : k # j => ingest[k].version # w
              /\ ingest[j].by # "null" => stamp[w] = ingest[j].by
              /\ ingest[j].whole = TRUE /\ ingest[j].failed = FALSE =>
                   \A t \in Sources : t \in ingest[j].left \/ vectors[w][t] = ingest[j].by
          BY <4>1, <4>2 DEF SpaceInv, RunInv, RunAt, NoRunAt
        <5>2. w # v
          BY <3>2, <5>1
        <5>. QED BY <1>3, <3>0, <4>1, <5>1, <5>2
      <4>3. CASE ingest[j].alone # TRUE
        BY <4>1, <4>3
      <4>. QED BY <4>2, <4>3
    <3>. QED BY <3>1, <3>2
  <2>3. ASSUME NEW j \in Ingesters, NEW w \in Versions PROVE RunAt(j, w)'
    BY <2>2 DEF RunAt
  <2>. QED BY <2>1, <2>3 DEF RunInv
<1>9. AskInv'
  BY DEF SpaceInv, AskInv, AskOk
<1>. QED BY <1>6, <1>7, <1>8, <1>9 DEF SpaceInv

LEMMA IngestKeeps ==
  ASSUME SpaceInv, NEW i \in Ingesters, NEW s \in Sources, IngestSource(i, s) \/ FailSource(i, s)
  PROVE  SpaceInv'
<1>1. PICK v : v = ingest[i].version
  OBVIOUS
<1>2. s \in ingest[i].left /\ v \in Versions
  BY <1>1 DEF IngestSource, FailSource, SpaceInv, RunInv, NoRunAt
<1>3. CASE IngestSource(i, s)
  <2>1. PICK r : r = [ingest[i] EXCEPT !.left = ingest[i].left \ {s}]
    OBVIOUS
  <2>2. /\ r \in RunType /\ r.version = ingest[i].version /\ r.by = ingest[i].by
        /\ r.whole = ingest[i].whole /\ r.alone = ingest[i].alone
        /\ r.left = ingest[i].left \ {s} /\ r.failed = ingest[i].failed
    BY <2>1, RunParts DEF RunType
  <2>3. /\ ingest' = [ingest EXCEPT ![i] = r]
        /\ vectors' = [vectors EXCEPT ![v] = [vectors[v] EXCEPT ![s] = r.by]]
    <3>1. ingest' = [ingest EXCEPT ![i] = r]
      BY <1>3, <2>1 DEF IngestSource
    <3>2. vectors' = [vectors EXCEPT ![v] = [vectors[v] EXCEPT ![s] = r.by]]
      BY <1>1, <1>3, <2>2 DEF IngestSource
    <3>. QED BY <3>1, <3>2
  <2>4. UNCHANGED <<stamp, active, begun, ask, builders>>
    BY <1>3 DEF IngestSource
  <2>. QED BY <1>1, <1>2, <2>2, <2>3, <2>4, SourceDone
<1>4. CASE FailSource(i, s)
  <2>1. PICK r : r = [ingest[i] EXCEPT !.left = ingest[i].left \ {s}, !.failed = TRUE]
    OBVIOUS
  <2>2. /\ r \in RunType /\ r.version = ingest[i].version /\ r.by = ingest[i].by
        /\ r.whole = ingest[i].whole /\ r.alone = ingest[i].alone
        /\ r.left = ingest[i].left \ {s} /\ r.failed = TRUE
    BY <2>1, RunParts DEF RunType
  <2>3. ingest' = [ingest EXCEPT ![i] = r]
    BY <1>4, <2>1 DEF FailSource
  <2>. QED BY <1>1, <1>2, <1>4, <2>2, <2>3, SourceDone DEF FailSource
<1>. QED BY <1>3, <1>4
\* A run that embedded every source alone has left no vector of another embedder.
LEMMA EndKeeps ==
  ASSUME SpaceInv, NEW i \in Ingesters, EndRun(i) PROVE SpaceInv'
<1>1. PICK v : v = ingest[i].version
  OBVIOUS
<1>2. /\ ingest' = [ingest EXCEPT ![i] = NoRun]
      /\ UNCHANGED <<stamp, vectors, active, begun, ask>>
      /\ \/ builders' = builders
         \/ /\ ingest[i].left = {} /\ ingest[i].whole = TRUE
            /\ ingest[i].failed = FALSE /\ ingest[i].alone = TRUE
            /\ builders' = [builders EXCEPT ![v] = {stamp[v]} \cap Embedders]
  <2>1. ingest[i].whole \in BOOLEAN /\ ingest[i].failed \in BOOLEAN /\ ingest[i].alone \in BOOLEAN
    BY RunParts DEF RunType
  <2>2. CASE ingest[i].left = {} /\ ingest[i].whole /\ ~ ingest[i].failed /\ ingest[i].alone
    BY <1>1, <2>1, <2>2 DEF EndRun
  <2>3. CASE ~ (ingest[i].left = {} /\ ingest[i].whole /\ ~ ingest[i].failed /\ ingest[i].alone)
    BY <2>3 DEF EndRun
  <2>. QED BY <2>2, <2>3
<1>3. /\ ingest' \in [Ingesters -> RunType] /\ ingest'[i] = NoRun
      /\ \A j \in Ingesters : j # i => ingest'[j] = ingest[j]
  <2>1. NoRun \in RunType
    BY DEF NoRun, RunType
  <2>. QED BY <1>2, <2>1 DEF SpaceInv, SpacesTypeOK, RunType
<1>4. /\ NoRun.version \notin Versions /\ NoRun.left = {} /\ NoRun.alone = FALSE
  BY Apart DEF NoRun
<1>5. CASE builders' = builders
  <2>1. SpacesTypeOK'
    BY <1>2, <1>3, <1>5 DEF SpaceInv, SpacesTypeOK, RunType
  <2>2. BuildInv' /\ AskInv'
    BY <1>2, <1>5, AskStands DEF SpaceInv, BuildInv
  <2>3. ASSUME NEW j \in Ingesters, NEW w \in Versions PROVE RunAt(j, w)'
    <3>1. CASE j = i
      BY <1>3, <1>4, <3>1 DEF RunAt
    <3>2. CASE j # i
      <4>1. RunAt(j, w)
        BY DEF SpaceInv, RunInv
      <4>2. ingest'[j] = ingest[j] /\ \A k \in Ingesters :
              ingest[k].version # w => ingest'[k].version # w
        BY <1>3, <1>4, <3>2
      <4>. QED BY <1>2, <1>5, <4>1, <4>2 DEF RunAt
    <3>. QED BY <3>1, <3>2
  <2>4. ASSUME NEW j \in Ingesters PROVE NoRunAt(j)'
    <3>1. CASE j = i
      BY <1>3, <1>4, <3>1 DEF NoRunAt
    <3>2. CASE j # i
      BY <1>3, <3>2 DEF SpaceInv, RunInv, NoRunAt
    <3>. QED BY <3>1, <3>2
  <2>5. RunInv'
    BY <2>3, <2>4 DEF RunInv
  <2>. QED BY <2>1, <2>2, <2>5 DEF SpaceInv
<1>6. CASE /\ ingest[i].left = {} /\ ingest[i].whole = TRUE
           /\ ingest[i].failed = FALSE /\ ingest[i].alone = TRUE
           /\ builders' = [builders EXCEPT ![v] = {stamp[v]} \cap Embedders]
  <2>1. /\ v \in Versions /\ ingest[i].by \in builders[v] \cup {"null"}
        /\ \A j \in Ingesters : j # i => ingest[j].version # v
        /\ ingest[i].by # "null" => stamp[v] = ingest[i].by
        /\ \A s \in Sources : vectors[v][s] = ingest[i].by
    <3>1. NoRunAt(i)
      BY DEF SpaceInv, RunInv
    <3>2. v \in Versions
      BY <1>1, <1>6, <3>1 DEF NoRunAt
    <3>3. RunAt(i, v)
      BY <3>2 DEF SpaceInv, RunInv
    <3>. QED BY <1>1, <1>6, <3>2, <3>3 DEF RunAt
  <2>2. /\ builders'[v] = {stamp[v]} \cap Embedders
        /\ \A w \in Versions : w # v => builders'[w] = builders[w]
        /\ builders' \in [Versions -> SUBSET Embedders]
    BY <1>6, <2>1 DEF SpaceInv, SpacesTypeOK
  <2>3. builders'[v] \subseteq builders[v]
    BY <2>1, <2>2, Apart DEF SpaceInv, BuildInv
  <2>4. SpacesTypeOK'
    BY <1>2, <1>3, <2>2 DEF SpaceInv, SpacesTypeOK, RunType
  <2>5. BuildInv'
    <3>1. ASSUME NEW w \in Versions
          PROVE  /\ stamp[w] \in builders'[w] \cup {"absent", "unknown"}
                 /\ stamp[w] \in {"absent", "unknown"} => builders'[w] = {}
                 /\ \A s \in Sources : vectors[w][s] \in builders'[w] \cup {"null", "absent"}
      <4>1. CASE w = v
        <5>1. stamp[v] \in Embedders \cup {"absent", "unknown"} /\ builders[v] \subseteq Embedders
          BY <2>1 DEF SpaceInv, SpacesTypeOK
        <5>2. ingest[i].by # "null" => ingest[i].by \in builders'[v]
          BY <2>1, <2>2, <5>1
        <5>. QED BY <2>1, <2>2, <4>1, <5>1, <5>2, Apart
      <4>2. CASE w # v
        BY <2>2, <4>2 DEF SpaceInv, BuildInv
      <4>. QED BY <4>1, <4>2
    <3>2. \A w \in Versions : w \in active => stamp[w] # "absent"
      BY DEF SpaceInv, BuildInv
    <3>. QED BY <1>2, <3>1, <3>2 DEF BuildInv
  <2>6. RunInv'
    <3>1. ASSUME NEW j \in Ingesters PROVE NoRunAt(j)'
      <4>1. CASE j = i
        BY <1>3, <1>4, <4>1 DEF NoRunAt
      <4>2. CASE j # i
        BY <1>3, <4>2 DEF SpaceInv, RunInv, NoRunAt
      <4>. QED BY <4>1, <4>2
    <3>2. ASSUME NEW j \in Ingesters, NEW w \in Versions PROVE RunAt(j, w)'
      <4>1. CASE j = i
        BY <1>3, <1>4, <4>1 DEF RunAt
      <4>2. CASE j # i /\ w = v
        BY <1>3, <2>1, <4>2 DEF RunAt
      <4>3. CASE j # i /\ w # v
        <5>1. RunAt(j, w)
          BY DEF SpaceInv, RunInv
        <5>2. ingest'[j] = ingest[j] /\ \A k \in Ingesters :
                ingest[k].version # w => ingest'[k].version # w
          BY <1>3, <1>4, <4>3
        <5>. QED BY <1>2, <2>2, <4>3, <5>1, <5>2 DEF RunAt
      <4>. QED BY <4>1, <4>2, <4>3
    <3>. QED BY <3>1, <3>2 DEF RunInv
  <2>7. AskInv'
    BY <1>2, <2>2, <2>3, AskStands
  <2>. QED BY <2>4, <2>5, <2>6, <2>7 DEF SpaceInv
<1>. QED BY <1>2, <1>5, <1>6
\* The questions on their way learn the embedder that begins.
LEMMA BeginAsks ==
  ASSUME SpaceInv, NEW v \in Versions, NEW e \in Writers,
         stamp'[v] # "absent", \A w \in Versions : w # v => stamp'[w] = stamp[w],
         builders'[v] = builders[v] \cup Real(e),
         \A w \in Versions : w # v => builders'[w] = builders[w],
         ask' = [q \in Askers |->
           IF ask[q].step \in {"pinned", "allowed"} /\ ask[q].version \in {v, Unset}
             THEN [ask[q] EXCEPT !.known = @ \cup Real(e)]
             ELSE ask[q]]
  PROVE  ask' \in [Askers -> AskType] /\ AskInv'
<1>1. Real(e) \subseteq Embedders
  BY DEF Real, Writers
<1>2. ASSUME NEW q \in Askers PROVE ask'[q] \in AskType /\ AskOk(ask[q])'
  <2>1. PICK a : a = ask[q]
    OBVIOUS
  <2>2. a \in AskType /\ AskOk(a) /\ Scope(a.version) \subseteq Versions
    BY <2>1, AskParts DEF AskType, Scope
  <2>3. CASE a.step \in {"pinned", "allowed"} /\ a.version \in {v, Unset}
    <3>1. PICK b : b = [a EXCEPT !.known = a.known \cup Real(e)]
      OBVIOUS
    <3>2. ask'[q] = b
      BY <2>1, <2>3, <3>1
    <3>3. /\ b \in AskType /\ b.step = a.step /\ b.by = a.by /\ b.version = a.version
          /\ b.stamp = a.stamp /\ b.known = a.known \cup Real(e) /\ b.compared = a.compared
      BY <1>1, <2>2, <3>1 DEF AskType
    <3>4. \A w \in Scope(b.version) : builders'[w] \subseteq b.known
      BY <2>2, <2>3, <3>3 DEF AskOk
    <3>5. b.version \in Versions => stamp'[b.version] # "absent"
      BY <2>2, <2>3, <3>3 DEF AskOk
    <3>. QED BY <2>2, <2>3, <3>2, <3>3, <3>4, <3>5 DEF AskOk
  <2>4. CASE ~ (a.step \in {"pinned", "allowed"} /\ a.version \in {v, Unset})
    <3>1. ask'[q] = a
      BY <2>1, <2>4
    <3>2. ASSUME a.step \in {"pinned", "allowed"}
          PROVE  /\ a.version \in Versions => stamp'[a.version] # "absent"
                 /\ \A w \in Scope(a.version) : builders'[w] \subseteq a.known
      <4>1. a.version \in Versions /\ a.version # v /\ Scope(a.version) = {a.version}
        BY <2>2, <2>4, <3>2 DEF AskType, Scope
      <4>. QED BY <2>2, <3>2, <4>1 DEF AskOk
    <3>. QED BY <2>2, <3>1, <3>2 DEF AskOk
  <2>. QED BY <2>3, <2>4
<1>. QED BY <1>2 DEF AskInv

\* A run begins: its stamp is committed before its first source, and runs on the
\* same version are no longer alone.
LEMMA RunBeginKeeps ==
  ASSUME SpaceInv, NEW i \in Ingesters, NEW v \in Versions, NEW e \in Writers,
         NEW sources \in SUBSET Sources, BeginRun(i, v, e, sources)
  PROVE  SpaceInv'
<1>1. PICK whole \in BOOLEAN : whole = (sources = Sources)
  OBVIOUS
<1>2. PICK alone \in BOOLEAN : alone = (\A k \in Ingesters : ingest[k].version # v)
  OBVIOUS
<1>3. PICK r : r = [version |-> v, by |-> e, left |-> sources, whole |-> whole,
                    failed |-> FALSE, alone |-> alone]
  OBVIOUS
<1>4. r \in RunType
  BY <1>3 DEF RunType
<1>5. /\ DOMAIN ingest' = Ingesters /\ ingest'[i] = r
      /\ \A j \in Ingesters : j # i =>
           ingest'[j] = [ingest[j] EXCEPT !.alone = ingest[j].alone /\ ingest[j].version # v]
  BY <1>1, <1>2, <1>3 DEF BeginRun
<1>6. ASSUME NEW j \in Ingesters, j # i
      PROVE  /\ ingest'[j] \in RunType /\ ingest'[j].version = ingest[j].version
             /\ ingest'[j].by = ingest[j].by /\ ingest'[j].left = ingest[j].left
             /\ ingest'[j].whole = ingest[j].whole /\ ingest'[j].failed = ingest[j].failed
             /\ ingest'[j].alone = TRUE => ingest[j].alone = TRUE /\ ingest[j].version # v
             /\ ingest[j].alone = FALSE => ingest'[j].alone = FALSE
  <2>1. PICK old : old = ingest[j]
    OBVIOUS
  <2>2. old \in RunType
    BY <2>1, RunParts
  <2>3. PICK b \in BOOLEAN : b = (old.alone /\ old.version # v)
    OBVIOUS
  <2>4. b = TRUE => old.alone = TRUE /\ old.version # v
    BY <2>2, <2>3 DEF RunType
  <2>5. old.alone = FALSE => b = FALSE
    BY <2>2, <2>3 DEF RunType
  <2>6. PICK new : new = [old EXCEPT !.alone = b]
    OBVIOUS
  <2>7. ingest'[j] = new
    BY <1>5, <1>6, <2>1, <2>3, <2>6
  <2>8. /\ new \in RunType /\ new.version = old.version /\ new.by = old.by
        /\ new.left = old.left /\ new.whole = old.whole /\ new.failed = old.failed
        /\ new.alone = b
    BY <2>2, <2>6 DEF RunType
  <2>. QED BY <2>1, <2>4, <2>5, <2>7, <2>8
<1>7. /\ stamp'[v] = Stamped(stamp[v], e) /\ \A w \in Versions : w # v => stamp'[w] = stamp[w]
      /\ builders'[v] = builders[v] \cup Real(e)
      /\ \A w \in Versions : w # v => builders'[w] = builders[w]
      /\ UNCHANGED <<vectors, active>>
  BY DEF BeginRun, SpaceInv, SpacesTypeOK
<1>8. /\ stamp'[v] # "absent"
      /\ e # "null" => stamp'[v] = e /\ e \in Embedders /\ Real(e) = {e}
      /\ e = "null" => Real(e) = {} /\ stamp'[v] \in {stamp[v], "unknown"}
                      /\ (stamp'[v] = "unknown" => stamp[v] \in {"absent", "unknown"})
  BY <1>7, Apart DEF Stamped, Real, Writers
<1>9. SpacesTypeOK' /\ AskInv'
  <2>1. ask' \in [Askers -> AskType] /\ AskInv'
    BY <1>7, <1>8, BeginAsks DEF BeginRun
  <2>2. stamp' \in [Versions -> Embedders \cup {"absent", "unknown"}]
    <3>1. stamp'[v] \in Embedders \cup {"absent", "unknown"}
      BY <1>8 DEF SpaceInv, SpacesTypeOK
    <3>. QED BY <1>7, <3>1 DEF BeginRun, SpaceInv, SpacesTypeOK
  <2>3. builders' \in [Versions -> SUBSET Embedders]
    <3>1. builders'[v] \subseteq Embedders
      BY <1>7, <1>8 DEF SpaceInv, SpacesTypeOK
    <3>. QED BY <1>7, <3>1 DEF BeginRun, SpaceInv, SpacesTypeOK
  <2>4. ingest' \in [Ingesters -> RunType]
    <3>1. ingest' = [j \in Ingesters |-> ingest'[j]]
      BY DEF BeginRun
    <3>2. \A j \in Ingesters : ingest'[j] \in RunType
      BY <1>4, <1>5, <1>6
    <3>. QED BY <3>1, <3>2
  <2>5. begun' \in 0..MaxRuns
    BY SpacesAssumption DEF BeginRun, SpaceInv, SpacesTypeOK
  <2>6. vectors' = vectors /\ active' = active
    BY <1>7
  <2>. QED BY <2>1, <2>2, <2>3, <2>4, <2>5, <2>6 DEF SpaceInv, SpacesTypeOK, AskType, RunType
<1>10. BuildInv'
  <2>1. ASSUME NEW w \in Versions
        PROVE  /\ stamp'[w] \in builders'[w] \cup {"absent", "unknown"}
               /\ stamp'[w] \in {"absent", "unknown"} => builders'[w] = {}
               /\ w \in active' => stamp'[w] # "absent"
               /\ \A s \in Sources : vectors'[w][s] \in builders'[w] \cup {"null", "absent"}
    <3>1. /\ stamp[w] \in builders[w] \cup {"absent", "unknown"}
          /\ stamp[w] \in {"absent", "unknown"} => builders[w] = {}
          /\ w \in active => stamp[w] # "absent"
          /\ \A s \in Sources : vectors[w][s] \in builders[w] \cup {"null", "absent"}
      BY DEF SpaceInv, BuildInv
    <3>2. CASE w = v /\ e # "null"
      BY <1>7, <1>8, <3>1, <3>2, Apart
    <3>3. CASE w = v /\ e = "null"
      BY <1>7, <1>8, <3>1, <3>3
    <3>4. CASE w # v
      BY <1>7, <3>1, <3>4
    <3>. QED BY <3>2, <3>3, <3>4
  <2>. QED BY <2>1 DEF BuildInv
<1>11. RunInv'
  <2>0. /\ ingest'[i].version = v
        /\ \A k \in Ingesters : k # i => ingest'[k].version = ingest[k].version
    <3>1. ingest'[i].version = v
      BY <1>3, <1>5
    <3>2. ASSUME NEW k \in Ingesters, k # i PROVE ingest'[k].version = ingest[k].version
      BY <1>6, <3>2
    <3>. QED BY <3>1, <3>2
  <2>1. ASSUME NEW j \in Ingesters PROVE NoRunAt(j)'
    <3>1. CASE j = i
      BY <1>3, <1>5, <3>1 DEF NoRunAt
    <3>2. CASE j # i
      BY <1>6, <3>2 DEF SpaceInv, RunInv, NoRunAt
    <3>. QED BY <3>1, <3>2
  <2>2. ASSUME NEW j \in Ingesters, NEW w \in Versions PROVE RunAt(j, w)'
    <3>1. CASE j = i /\ w = v
      <4>1. /\ r.by = e /\ r.version = v /\ r.left = sources /\ r.whole = whole
            /\ r.alone = alone
        BY <1>3
      <4>2. e \in builders'[v] \cup {"null"} /\ (e # "null" => stamp'[v] = e)
        BY <1>7, <1>8
      <4>3. alone = TRUE => \A k \in Ingesters : k # i => ingest'[k].version # v
        <5>1. alone = TRUE => \A k \in Ingesters : ingest[k].version # v
          BY <1>2
        <5>. QED BY <2>0, <5>1
      <4>4. whole = TRUE => \A s \in Sources : s \in sources
        BY <1>1
      <4>. QED BY <1>5, <3>1, <4>1, <4>2, <4>3, <4>4 DEF RunAt
    <3>2. CASE j = i /\ w # v
      BY <1>3, <1>5, <3>2 DEF RunAt
    <3>3. CASE j # i /\ w = v
      <4>1. RunAt(j, w)
        BY DEF SpaceInv, RunInv
      <4>. QED BY <1>6, <1>7, <3>3, <4>1 DEF RunAt
    <3>4. CASE j # i /\ w # v
      <4>1. RunAt(j, w)
        BY DEF SpaceInv, RunInv
      <4>2. \A k \in Ingesters : k # j /\ ingest[k].version # w => ingest'[k].version # w
        BY <2>0, <3>4
      <4>. QED BY <1>6, <1>7, <3>4, <4>1, <4>2 DEF RunAt
    <3>. QED BY <3>1, <3>2, <3>3, <3>4
  <2>. QED BY <2>1, <2>2 DEF RunInv
<1>. QED BY <1>9, <1>10, <1>11 DEF SpaceInv

----------------------------------------------------------------------------
LEMMA SpacesInit_Inv == SpacesInit => SpaceInv
<1>. SUFFICES ASSUME SpacesInit PROVE SpaceInv
  OBVIOUS
<1>1. NoRun \in RunType /\ NoRun.version = Unset /\ NoRun.left = {} /\ NoRun.alone = FALSE
  BY DEF NoRun, RunType
<1>2. NoQuestion \in AskType /\ AskOk(NoQuestion)
  BY DEF NoQuestion, AskType, AskOk
<1>3. SpacesTypeOK
  BY <1>1, <1>2, SpacesAssumption DEF SpacesInit, SpacesTypeOK, RunType, AskType
<1>4. BuildInv
  BY DEF SpacesInit, BuildInv
<1>5. RunInv
  BY <1>1, Apart DEF SpacesInit, RunInv, RunAt, NoRunAt
<1>6. AskInv
  BY <1>2 DEF SpacesInit, AskInv
<1>. QED BY <1>3, <1>4, <1>5, <1>6 DEF SpaceInv

LEMMA SpacesStep_Inv == SpaceInv /\ [SpacesNext]_spaceVars => SpaceInv'
<1>. SUFFICES ASSUME SpaceInv, [SpacesNext]_spaceVars PROVE SpaceInv'
  OBVIOUS
<1>1. ASSUME NEW i \in Ingesters, NEW v \in Versions, NEW e \in Writers,
             BeginRun(i, v, e, Sources) \/ \E s \in Sources : BeginRun(i, v, e, {s})
      PROVE  SpaceInv'
  <2>1. Sources \in SUBSET Sources /\ \A s \in Sources : {s} \in SUBSET Sources
    OBVIOUS
  <2>2. CASE BeginRun(i, v, e, Sources)
    BY <2>1, <2>2, RunBeginKeeps
  <2>3. ASSUME NEW s \in Sources, BeginRun(i, v, e, {s}) PROVE SpaceInv'
    BY <2>1, <2>3, RunBeginKeeps
  <2>. QED BY <1>1, <2>2, <2>3
<1>2. CASE UNCHANGED spaceVars
  <2>1. SpacesTypeOK' /\ BuildInv' /\ RunInv'
    BY <1>2
    DEF spaceVars, SpaceInv, SpacesTypeOK, BuildInv, RunInv, RunAt, NoRunAt
  <2>2. AskInv'
    BY <1>2, AskStands DEF spaceVars
  <2>. QED BY <2>1, <2>2 DEF SpaceInv
<1>. QED
  BY <1>1, <1>2, IngestKeeps, EndKeeps, PromoteKeeps, PinKeeps, ReadStampKeeps, CompareKeeps,
     EndsKeep
  DEF SpacesNext

\* A question is compared with vectors of its own model only, and a version is
\* reported healthy only with every chunk in that space (_vector_arm_degrade,
\* derive_vector_arm_status), as far as one embedder alone has built what is
\* read, for any number of versions, sources, runs, questions and embedders.
THEOREM EveryQuestionMatches == SpacesSpec => []SpacesMatch
BY InvMatches, SpacesInit_Inv, SpacesStep_Inv, PTL DEF SpacesSpec

\* The types of versions, stamps and vectors, of runs and questions
\* (IngestionRunner, _vector_arm_degrade).
THEOREM SpacesTyped == SpacesSpec => []SpacesTypeOK
<1>1. SpaceInv => SpacesTypeOK
  BY DEF SpaceInv
<1>. QED BY <1>1, SpacesInit_Inv, SpacesStep_Inv, PTL DEF SpacesSpec

----------------------------------------------------------------------------
(* AnswerText.                                                             *)

\* A set of numbers has a least.
LEMMA LeastNatural ==
  ASSUME NEW T \in SUBSET Nat, T # {}
  PROVE  \E x \in T : \A y \in T : x =< y
<1>1. PICK x \in T : \A y \in T : ~ (<<y, x>> \in OpToRel(<, Nat))
  BY NatLessThanWellFounded, WFMin
<1>2. ASSUME NEW y \in T PROVE x =< y
  <2>1. <<y, x>> \in Nat \X Nat
    OBVIOUS
  <2>2. ~ (y < x)
    BY <1>1, <2>1 DEF OpToRel
  <2>. QED BY <2>2
<1>. QED BY <1>2

\* A text is read line by line: from what holds before it, and what each line
\* makes of what holds above it.
Scanned(f, n, c, step) ==
  f[0] = c /\ \A i \in 1 .. n : f[i] = step[<<i, f[i - 1]>>]

LEMMA ScanExists ==
  ASSUME NEW n \in Nat, NEW S, NEW c \in S, NEW step \in [(1 .. n) \X S -> S]
  PROVE  \E f \in [0 .. n -> S] : Scanned(f, n, c, step)
<1>. DEFINE Read(k) == \E f \in [0 .. k -> S] : Scanned(f, k, c, step)
            T == {k \in 0 .. n : ~ Read(k)}
<1>1. SUFFICES ASSUME T # {} PROVE FALSE
  <2>1. T = {} => Read(n)
    OBVIOUS
  <2>. QED BY <2>1
<1>2. PICK k \in T : \A j \in T : k =< j
  <2>1. T \in SUBSET Nat
    OBVIOUS
  <2>. HIDE DEF T
  <2>. QED BY <1>1, <2>1, LeastNatural
<1>3. k \in 0 .. n /\ ~ Read(k)
  OBVIOUS
<1>4. CASE k = 0
  <2>. DEFINE f == [i \in 0 .. 0 |-> c]
  <2>1. f \in [0 .. 0 -> S] /\ Scanned(f, 0, c, step)
    BY DEF Scanned
  <2>. QED BY <1>3, <1>4, <2>1
<1>5. CASE k # 0
  <2>1. k - 1 \in 0 .. n /\ k - 1 \notin T /\ k \in 1 .. n
    BY <1>2, <1>3, <1>5
  <2>2. PICK g \in [0 .. k - 1 -> S] : Scanned(g, k - 1, c, step)
    BY <2>1
  <2>. DEFINE f == [i \in 0 .. k |-> IF i < k THEN g[i] ELSE step[<<k, g[k - 1]>>]]
  <2>3. g[k - 1] \in S /\ step[<<k, g[k - 1]>>] \in S
    BY <2>1, <2>2
  <2>4. f \in [0 .. k -> S]
    BY <2>1, <2>2, <2>3
  <2>5. ASSUME NEW i \in 1 .. k PROVE f[i] = step[<<i, f[i - 1]>>]
    <3>1. CASE i < k
      <4>1. i \in 1 .. k - 1 /\ i \in 0 .. k /\ i - 1 \in 0 .. k /\ i - 1 < k
        BY <2>1, <3>1
      <4>2. g[i] = step[<<i, g[i - 1]>>]
        BY <2>2, <4>1 DEF Scanned
      <4>3. f[i] = g[i] /\ f[i - 1] = g[i - 1]
        BY <3>1, <4>1
      <4>. QED BY <4>2, <4>3
    <3>2. CASE i = k
      <4>1. k \in 0 .. k /\ k - 1 \in 0 .. k /\ k - 1 < k /\ ~ (k < k)
        BY <2>1
      <4>2. f[k] = step[<<k, g[k - 1]>>] /\ f[k - 1] = g[k - 1]
        BY <4>1
      <4>. QED BY <3>2, <4>2
    <3>. QED BY <2>1, <3>1, <3>2
  <2>6. f[0] = c
    BY <2>1, <2>2 DEF Scanned
  <2>7. Read(k)
    BY <2>4, <2>5, <2>6 DEF Scanned
  <2>. QED BY <1>3, <2>7
<1>. QED BY <1>4, <1>5

FenceType == {NoFence} \cup [char : {"tick", "tilde"}, run : Nat]

\* What a line makes of the fence that is open above it.
NextFence(text, i, was) ==
  IF was # NoFence THEN IF Closes(text, i, was) THEN NoFence ELSE was
  ELSE IF Opens(text, i) THEN [char |-> text[i].char, run |-> text[i].run] ELSE NoFence

LEMMA NextFenceType ==
  ASSUME NEW text \in Seq(Line), NEW i \in 1 .. Len(text), NEW was \in FenceType
  PROVE  NextFence(text, i, was) \in FenceType
<1>1. text[i] \in Line
  OBVIOUS
<1>2. Opens(text, i) => text[i].char \in {"tick", "tilde"} /\ text[i].run \in Nat
  BY <1>1 DEF Opens, IsFence, Line
<1>. QED BY <1>2 DEF NextFence, FenceType

LEMMA OpenFenceIs ==
  ASSUME NEW text \in Seq(Line)
  PROVE  /\ OpenFence(text) \in [0 .. Len(text) -> FenceType]
         /\ OpenFence(text)[0] = NoFence
         /\ \A i \in 1 .. Len(text) : OpenFence(text)[i] = NextFence(text, i, OpenFence(text)[i - 1])
<1>. DEFINE n == Len(text)
            step == [p \in (1 .. n) \X FenceType |-> NextFence(text, p[1], p[2])]
<1>0. n \in Nat /\ NoFence \in FenceType
  BY DEF FenceType
<1>1. step \in [(1 .. n) \X FenceType -> FenceType]
  BY NextFenceType
<1>2. PICK f \in [0 .. n -> FenceType] : Scanned(f, n, NoFence, step)
  <2>. HIDE DEF n, step
  <2>. QED BY <1>0, <1>1, ScanExists
<1>3. \A i \in 1 .. n : f[i] = NextFence(text, i, f[i - 1])
  <2>1. ASSUME NEW i \in 1 .. n PROVE f[i] = NextFence(text, i, f[i - 1])
    <3>1. i - 1 \in 0 .. n /\ f[i - 1] \in FenceType
      BY <1>0
    <3>2. f[i] = step[<<i, f[i - 1]>>]
      BY <1>2 DEF Scanned
    <3>. QED BY <3>1, <3>2
  <2>. QED BY <2>1
<1>. DEFINE Reads(g) ==
       g = [i \in 0 .. n |->
              IF i = 0 THEN NoFence
              ELSE IF g[i - 1] # NoFence
              THEN IF Closes(text, i, g[i - 1]) THEN NoFence ELSE g[i - 1]
              ELSE IF Opens(text, i) THEN [char |-> text[i].char, run |-> text[i].run]
              ELSE NoFence]
<1>4. Reads(f)
  <2>1. f[0] = NoFence
    BY <1>2 DEF Scanned
  <2>2. \A i \in 0 .. n : i = 0 \/ i \in 1 .. n
    BY <1>0
  <2>3. f = [i \in 0 .. n |-> f[i]]
    BY <1>2
  <2>. QED BY <1>3, <2>1, <2>2, <2>3 DEF NextFence
<1>5. Reads(OpenFence(text))
  BY <1>4, Zenon DEF OpenFence
<1>. DEFINE open == OpenFence(text)
<1>6. /\ DOMAIN open = 0 .. n /\ open = [i \in 0 .. n |-> open[i]]
      /\ open[0] = NoFence
      /\ \A i \in 1 .. n : open[i] = NextFence(text, i, open[i - 1])
  <2>. HIDE DEF open
  <2>1. Reads(open)
    BY <1>5 DEF open
  <2>2. \A i \in 1 .. n : i \in 0 .. n /\ i # 0
    BY <1>0
  <2>3. 0 \in 0 .. n
    BY <1>0
  <2>. HIDE DEF n
  <2>4. DOMAIN open = 0 .. n /\ open = [i \in 0 .. n |-> open[i]]
    BY <2>1, Zenon
  <2>5. open[0] = NoFence
    BY <2>1, <2>3, Zenon
  <2>6. \A i \in 1 .. n : open[i] = NextFence(text, i, open[i - 1])
    BY <2>1, <2>2, Zenon DEF NextFence
  <2>. QED BY <2>4, <2>5, <2>6
<1>7. \A i \in 0 .. n : open[i] \in FenceType
  <2>. DEFINE T == {i \in 0 .. n : open[i] \notin FenceType}
  <2>1. SUFFICES ASSUME T # {} PROVE FALSE
    OBVIOUS
  <2>2. PICK i \in T : \A j \in T : i =< j
    <3>1. T \in SUBSET Nat
      OBVIOUS
    <3>. HIDE DEF T
    <3>. QED BY <2>1, <3>1, LeastNatural
  <2>3. i \in 1 .. n
    BY <1>0, <1>6
  <2>4. open[i - 1] \in FenceType
    BY <2>2, <2>3
  <2>5. open[i] \in FenceType
    BY <1>6, <2>3, <2>4, NextFenceType
  <2>. QED BY <2>5
<1>. QED BY <1>6, <1>7

LEMMA SeqIsSeq ==
  ASSUME NEW S, NEW s \in Seq(S), NEW t \in Seq(S), Len(s) = Len(t),
         \A i \in 1 .. Len(s) : s[i] = t[i]
  PROVE  s = t
OBVIOUS

\* Splitting the groups of a line's markers.
LEMMA UngroupedOnce ==
  ASSUME NEW marks \in SUBSET Mark
  PROVE  /\ Ungrouped(marks) \in SUBSET Mark
         /\ Ungrouped(Ungrouped(marks)) = Ungrouped(marks)
         /\ SinglesOf(marks) \subseteq SinglesOf(Ungrouped(marks))
<1>. DEFINE grouped == {k \in marks : k.group /\ ~ k.code}
            split == UNION {m.nums : m \in grouped}
            whole == {m \in marks : m.code \/ ~ m.group}
            single == {Single(n) : n \in split}
<1>1. split \subseteq Nat
  BY DEF Mark
<1>2. \A n \in Nat : Single(n) \in Mark /\ Single(n).group = FALSE /\ Single(n).code = FALSE
  BY DEF Single, Mark
<1>3. Ungrouped(marks) = whole \cup single
  BY DEF Ungrouped
<1>. HIDE DEF split, single
<1>4. single \subseteq Mark /\ \A m \in single : ~ m.group
  BY <1>1, <1>2 DEF single
<1>5. whole \cup single \in SUBSET Mark
  BY <1>4
<1>. DEFINE u == whole \cup single
<1>6. \A m \in u : m.code \/ ~ m.group
  BY <1>4
<1>7. {k \in u : k.group /\ ~ k.code} = {}
  BY <1>6
<1>8. {m \in u : m.code \/ ~ m.group} = u
  BY <1>6
<1>9. Ungrouped(u) = u
  <2>. HIDE DEF u
  <2>1. Ungrouped(u) = u \cup {Single(n) : n \in UNION {m.nums : m \in {}}}
    BY <1>7, <1>8, Zenon DEF Ungrouped
  <2>. QED BY <2>1
<1>10. SinglesOf(marks) \subseteq SinglesOf(u)
  <2>1. {k \in marks : ~ k.group} \subseteq {k \in u : ~ k.group}
    OBVIOUS
  <2>. HIDE DEF u
  <2>. QED BY <2>1 DEF SinglesOf
<1>. QED BY <1>3, <1>5, <1>9, <1>10

\* Lines keep what fences are read from.
LEMMA ExpandIs ==
  ASSUME NEW text \in Seq(Line)
  PROVE  /\ Expand(text) \in Seq(Line) /\ DOMAIN Expand(text) = DOMAIN text
         /\ Len(Expand(text)) = Len(text)
         /\ \A i \in DOMAIN text :
              /\ Expand(text)[i].marks = IF Expands(text, i) THEN Ungrouped(text[i].marks)
                                         ELSE text[i].marks
              /\ Expand(text)[i].char = text[i].char /\ Expand(text)[i].run = text[i].run
              /\ Expand(text)[i].info = text[i].info
              /\ Expand(text)[i] = [text[i] EXCEPT !.marks = Expand(text)[i].marks]
<1>1. ASSUME NEW i \in DOMAIN text
      PROVE  /\ Expand(text)[i] \in Line
             /\ Expand(text)[i].marks = IF Expands(text, i) THEN Ungrouped(text[i].marks)
                                         ELSE text[i].marks
             /\ Expand(text)[i].char = text[i].char /\ Expand(text)[i].run = text[i].run
             /\ Expand(text)[i].info = text[i].info
             /\ Expand(text)[i] = [text[i] EXCEPT !.marks = Expand(text)[i].marks]
  <2>1. text[i] \in Line
    OBVIOUS
  <2>2. PICK c, r, o, m : /\ text[i] = [char |-> c, run |-> r, info |-> o, marks |-> m]
                          /\ c \in {"prose", "tick", "tilde"} /\ r \in Nat
                          /\ o \in {"none", "token", "words"} /\ m \in SUBSET Mark
    BY <2>1 DEF Line
  <2>3. Ungrouped(m) \in SUBSET Mark
    BY <2>2, UngroupedOnce
  <2>. DEFINE e == IF Expands(text, i) THEN [text[i] EXCEPT !.marks = Ungrouped(@)] ELSE text[i]
              k == IF Expands(text, i) THEN Ungrouped(m) ELSE m
  <2>4. e = [char |-> c, run |-> r, info |-> o, marks |-> k]
    BY <2>2
  <2>5. Expand(text)[i] = e
    BY DEF Expand
  <2>6. k \in SUBSET Mark /\ k = IF Expands(text, i) THEN Ungrouped(text[i].marks) ELSE text[i].marks
    BY <2>2, <2>3
  <2>. HIDE DEF e, k
  <2>7. [text[i] EXCEPT !.marks = k] = [char |-> c, run |-> r, info |-> o, marks |-> k]
    BY <2>2
  <2>8. e \in Line /\ e.marks = k /\ e.char = c /\ e.run = r /\ e.info = o
    BY <2>2, <2>4, <2>6 DEF Line
  <2>. QED BY <2>2, <2>4, <2>5, <2>6, <2>7, <2>8
<1>2. DOMAIN Expand(text) = DOMAIN text /\ DOMAIN text = 1 .. Len(text) /\ Len(text) \in Nat
  BY DEF Expand
<1>3. Expand(text) = [i \in 1 .. Len(text) |-> Expand(text)[i]]
  BY <1>2 DEF Expand
<1>4. Expand(text) \in [1 .. Len(text) -> Line]
  BY <1>1, <1>2, <1>3, Zenon
<1>. DEFINE e == Expand(text)
<1>5. Expand(text) \in Seq(Line) /\ Len(Expand(text)) = Len(text)
  <2>. HIDE DEF e
  <2>1. e \in [1 .. Len(text) -> Line] /\ Len(text) \in Nat
    BY <1>2, <1>4 DEF e
  <2>2. e \in Seq(Line) /\ Len(e) = Len(text)
    BY <2>1
  <2>. QED BY <2>2 DEF e
<1>. QED BY <1>1, <1>2, <1>5

\* A text with its groups split has the same code.
LEMMA ExpandKeepsCode ==
  ASSUME NEW text \in Seq(Line)
  PROVE  CodeLines(Expand(text)) = CodeLines(text)
<1>. DEFINE e == Expand(text)
            n == Len(text)
<1>1. /\ e \in Seq(Line) /\ Len(e) = n /\ n \in Nat
      /\ \A i \in 1 .. n :
           /\ text[i] \in Line
           /\ e[i].char = text[i].char /\ e[i].run = text[i].run /\ e[i].info = text[i].info
           /\ e[i].marks = IF Expands(text, i) THEN Ungrouped(text[i].marks) ELSE text[i].marks
  <2>1. DOMAIN text = 1 .. Len(text) /\ Len(text) \in Nat /\ \A i \in 1 .. Len(text) : text[i] \in Line
    OBVIOUS
  <2>. QED BY <2>1, ExpandIs
<1>. HIDE DEF e, n
<1>2. \A i \in 1 .. n : /\ IsFence(e[i]) <=> IsFence(text[i])
                        /\ IsFence(text[i]) => e[i].marks = text[i].marks
  BY <1>1 DEF IsFence, Expands
<1>3. \A i \in 1 .. n : Bare(e[i]) <=> Bare(text[i])
  BY <1>1, <1>2 DEF Bare
<1>4. \A i \in 1 .. n : IsFence(text[i]) => (Simple(e[i]) <=> Simple(text[i]))
  BY <1>1, <1>2 DEF Simple
<1>5. ASSUME NEW i \in 1 .. n, NEW char, NEW run
      PROVE  BareAfter(e, i, char, run) <=> BareAfter(text, i, char, run)
  <2>1. \A j \in i + 1 .. n : j \in 1 .. n
    BY <1>1
  <2>2. Len(text) = n
    BY DEF n
  <2>3. \A j \in i + 1 .. n : /\ Bare(e[j]) <=> Bare(text[j])
                              /\ e[j].char = text[j].char /\ e[j].run = text[j].run
    BY <1>1, <1>3, <2>1
  <2>. QED BY <1>1, <2>2, <2>3 DEF BareAfter
<1>6. ASSUME NEW i \in 1 .. n, NEW was \in FenceType
      PROVE  NextFence(e, i, was) = NextFence(text, i, was)
  <2>1. Closes(e, i, was) <=> Closes(text, i, was)
    BY <1>1, <1>3, <1>5 DEF Closes
  <2>2. Opens(e, i) <=> Opens(text, i)
    <3>1. BareAfter(e, i, e[i].char, e[i].run) <=> BareAfter(text, i, text[i].char, text[i].run)
      BY <1>1, <1>5
    <3>. QED BY <1>2, <1>4, <3>1 DEF Opens
  <2>. QED BY <1>1, <2>1, <2>2 DEF NextFence
<1>. DEFINE f == OpenFence(e)
            g == OpenFence(text)
<1>7. /\ f[0] = NoFence /\ g[0] = NoFence /\ g \in [0 .. n -> FenceType]
      /\ \A i \in 1 .. n : /\ f[i] = NextFence(e, i, f[i - 1])
                           /\ g[i] = NextFence(text, i, g[i - 1])
  BY <1>1, OpenFenceIs DEF n
<1>. HIDE DEF f, g
<1>8. \A i \in 0 .. n : f[i] = g[i]
  <2>. DEFINE T == {i \in 0 .. n : f[i] # g[i]}
  <2>1. SUFFICES ASSUME T # {} PROVE FALSE
    OBVIOUS
  <2>2. PICK i \in T : \A j \in T : i =< j
    <3>1. T \in SUBSET Nat
      BY <1>1
    <3>. HIDE DEF T
    <3>. QED BY <2>1, <3>1, LeastNatural
  <2>3. i \in 1 .. n
    BY <1>1, <1>7
  <2>4. f[i - 1] = g[i - 1] /\ g[i - 1] \in FenceType
    BY <1>1, <1>7, <2>2, <2>3
  <2>5. f[i] = g[i]
    BY <1>6, <1>7, <2>3, <2>4
  <2>. QED BY <2>5
<1>9. \A i \in 1 .. n : f[i] = g[i] /\ f[i - 1] = g[i - 1]
  BY <1>1, <1>8
<1>. QED BY <1>1, <1>9 DEF CodeLines, f, g, e, n

LEMMA ExpandedOnce ==
  ASSUME NEW text \in Seq(Line)
  PROVE  Expand(Expand(text)) = Expand(text)
<1>. DEFINE e == Expand(text)
            x == Expand(e)
            n == Len(text)
<1>1. /\ e \in Seq(Line) /\ Len(e) = n /\ DOMAIN e = 1 .. n /\ DOMAIN text = 1 .. n
      /\ \A i \in 1 .. n :
           /\ text[i] \in Line /\ e[i] \in Line /\ e[i].char = text[i].char
           /\ e[i].marks = IF Expands(text, i) THEN Ungrouped(text[i].marks) ELSE text[i].marks
  <2>1. DOMAIN text = 1 .. n /\ n \in Nat /\ \A i \in 1 .. n : text[i] \in Line
    OBVIOUS
  <2>2. \A t \in Seq(Line) : \A i \in DOMAIN t : t[i] \in Line
    OBVIOUS
  <2>. QED BY <2>1, <2>2, ExpandIs
<1>2. CodeLines(e) = CodeLines(text)
  BY ExpandKeepsCode
<1>3. /\ x \in Seq(Line) /\ Len(x) = n /\ DOMAIN x = 1 .. n
      /\ \A i \in 1 .. n :
           /\ x[i].marks = IF Expands(e, i) THEN Ungrouped(e[i].marks) ELSE e[i].marks
           /\ x[i] = [e[i] EXCEPT !.marks = x[i].marks]
  BY <1>1, ExpandIs
<1>. HIDE DEF e, x, n
<1>4. ASSUME NEW i \in 1 .. n PROVE x[i] = e[i]
  <2>1. Expands(e, i) <=> Expands(text, i)
    BY <1>1, <1>2 DEF Expands, IsFence
  <2>2. text[i].marks \in SUBSET Mark
    BY <1>1 DEF Line
  <2>3. x[i].marks = e[i].marks
    BY <1>1, <1>3, <2>1, <2>2, UngroupedOnce
  <2>4. [e[i] EXCEPT !.marks = e[i].marks] = e[i]
    BY <1>1 DEF Line
  <2>. QED BY <1>3, <2>3, <2>4
<1>5. x = e
  BY <1>1, <1>3, <1>4, SeqIsSeq
<1>. QED BY <1>5 DEF x, e

\* What CommonMark makes of a line.
NextMark(text, i, was) ==
  IF was = NoFence
  THEN IF IsFence(text[i]) THEN [char |-> text[i].char, run |-> text[i].run] ELSE NoFence
  ELSE IF Bare(text[i]) /\ text[i].char = was.char /\ text[i].run >= was.run
  THEN NoFence ELSE was

LEMMA NextMarkType ==
  ASSUME NEW text \in Seq(Line), NEW i \in 1 .. Len(text), NEW was \in FenceType
  PROVE  NextMark(text, i, was) \in FenceType
<1>1. text[i] \in Line
  OBVIOUS
<1>2. IsFence(text[i]) => text[i].char \in {"tick", "tilde"} /\ text[i].run \in Nat
  BY <1>1 DEF IsFence, Line
<1>. QED BY <1>2 DEF NextMark, FenceType

LEMMA CommonMarkIs ==
  ASSUME NEW text \in Seq(Line)
  PROVE  /\ CommonMark(text)[0] = NoFence
         /\ \A i \in 0 .. Len(text) : CommonMark(text)[i] \in FenceType
         /\ \A i \in 1 .. Len(text) : CommonMark(text)[i] = NextMark(text, i, CommonMark(text)[i - 1])
<1>. DEFINE n == Len(text)
            step == [p \in (1 .. n) \X FenceType |-> NextMark(text, p[1], p[2])]
<1>0. n \in Nat /\ NoFence \in FenceType
  BY DEF FenceType
<1>1. step \in [(1 .. n) \X FenceType -> FenceType]
  BY NextMarkType
<1>2. PICK f \in [0 .. n -> FenceType] : Scanned(f, n, NoFence, step)
  <2>. HIDE DEF n, step
  <2>. QED BY <1>0, <1>1, ScanExists
<1>3. \A i \in 1 .. n : f[i] = NextMark(text, i, f[i - 1])
  <2>1. ASSUME NEW i \in 1 .. n PROVE f[i] = NextMark(text, i, f[i - 1])
    <3>1. i - 1 \in 0 .. n /\ f[i - 1] \in FenceType
      BY <1>0
    <3>2. f[i] = step[<<i, f[i - 1]>>]
      BY <1>2 DEF Scanned
    <3>. QED BY <3>1, <3>2
  <2>. QED BY <2>1
<1>. DEFINE Reads(g) ==
       g = [i \in 0 .. n |->
              IF i = 0 THEN NoFence
              ELSE IF g[i - 1] = NoFence
              THEN IF IsFence(text[i]) THEN [char |-> text[i].char, run |-> text[i].run]
                   ELSE NoFence
              ELSE IF /\ Bare(text[i])
                      /\ text[i].char = g[i - 1].char /\ text[i].run >= g[i - 1].run
              THEN NoFence ELSE g[i - 1]]
<1>4. Reads(f)
  <2>1. f[0] = NoFence
    BY <1>2 DEF Scanned
  <2>2. \A i \in 0 .. n : i = 0 \/ i \in 1 .. n
    BY <1>0
  <2>3. f = [i \in 0 .. n |-> f[i]]
    BY <1>2
  <2>. QED BY <1>3, <2>1, <2>2, <2>3 DEF NextMark
<1>5. Reads(CommonMark(text))
  BY <1>4, Zenon DEF CommonMark
<1>. DEFINE open == CommonMark(text)
<1>6. open[0] = NoFence /\ \A i \in 1 .. n : open[i] = NextMark(text, i, open[i - 1])
  <2>. HIDE DEF open
  <2>1. Reads(open)
    BY <1>5 DEF open
  <2>2. \A i \in 1 .. n : i \in 0 .. n /\ i # 0
    BY <1>0
  <2>3. 0 \in 0 .. n
    BY <1>0
  <2>. HIDE DEF n
  <2>4. open[0] = NoFence
    BY <2>1, <2>3, Zenon
  <2>5. \A i \in 1 .. n : open[i] = NextMark(text, i, open[i - 1])
    BY <2>1, <2>2, Zenon DEF NextMark
  <2>. QED BY <2>4, <2>5
<1>7. \A i \in 0 .. n : open[i] \in FenceType
  <2>. DEFINE T == {i \in 0 .. n : open[i] \notin FenceType}
  <2>1. SUFFICES ASSUME T # {} PROVE FALSE
    OBVIOUS
  <2>2. PICK i \in T : \A j \in T : i =< j
    <3>1. T \in SUBSET Nat
      OBVIOUS
    <3>. HIDE DEF T
    <3>. QED BY <2>1, <3>1, LeastNatural
  <2>3. i \in 1 .. n
    BY <1>0, <1>6
  <2>4. open[i - 1] \in FenceType
    BY <2>2, <2>3
  <2>5. open[i] \in FenceType
    BY <1>6, <2>3, <2>4, NextMarkType
  <2>. QED BY <2>5
<1>. QED BY <1>6, <1>7

\* In a text whose fences are all closed, the fence that is open after line i is
\* closed by a bare line further down.
LEMMA ClosedBelow ==
  ASSUME NEW text \in Seq(Line), WellFormed(text), NEW i \in 0 .. Len(text),
         CommonMark(text)[i] # NoFence
  PROVE  BareAfter(text, i, CommonMark(text)[i].char, CommonMark(text)[i].run)
<1>. DEFINE open == CommonMark(text)
            n == Len(text)
            T == {j \in i .. n : open[j] # open[i]}
<1>0. n \in Nat /\ open[n] = NoFence /\ open[i] # NoFence
  BY DEF WellFormed
<1>1. n \in T
  BY <1>0
<1>2. PICK j \in T : \A k \in T : j =< k
  <2>1. T \in SUBSET Nat /\ T # {}
    BY <1>0, <1>1
  <2>. HIDE DEF T
  <2>. QED BY <2>1, LeastNatural
<1>3. j \in i + 1 .. n /\ j \in 1 .. n /\ j - 1 \in i .. n /\ j - 1 \notin T
  BY <1>0, <1>2
<1>4. open[j - 1] = open[i] /\ open[j] # open[i]
  BY <1>2, <1>3
<1>5. open[j] = NextMark(text, j, open[j - 1])
  BY <1>3, CommonMarkIs
<1>. HIDE DEF open
<1>6. Bare(text[j]) /\ text[j].char = open[i].char /\ text[j].run >= open[i].run
  BY <1>0, <1>4, <1>5 DEF NextMark
<1>. QED BY <1>3, <1>6 DEF BareAfter, open

LEMMA FencesAgree ==
  ASSUME NEW text \in Seq(Line), WellFormed(text)
  PROVE  \A i \in 0 .. Len(text) : OpenFence(text)[i] = CommonMark(text)[i]
<1>. DEFINE n == Len(text)
            f == OpenFence(text)
            g == CommonMark(text)
            T == {i \in 0 .. n : f[i] # g[i]}
<1>1. SUFFICES ASSUME T # {} PROVE FALSE
  OBVIOUS
<1>0. n \in Nat
  OBVIOUS
<1>2. PICK i \in T : \A j \in T : i =< j
  <2>1. T \in SUBSET Nat
    BY <1>0
  <2>. HIDE DEF T
  <2>. QED BY <1>1, <2>1, LeastNatural
<1>3. i \in 1 .. n
  <2>1. f[0] = g[0]
    BY OpenFenceIs, CommonMarkIs
  <2>. QED BY <1>0, <1>2, <2>1
<1>4. i - 1 \in 0 .. n /\ i \in 0 .. n /\ i - 1 + 1 = i /\ f[i - 1] = g[i - 1]
  BY <1>0, <1>2, <1>3
<1>5. /\ f[i] = NextFence(text, i, g[i - 1])
      /\ g[i] = NextMark(text, i, g[i - 1]) /\ f[i] # g[i]
  BY <1>2, <1>3, <1>4, OpenFenceIs, CommonMarkIs
<1>6. g[i] # NoFence => BareAfter(text, i, g[i].char, g[i].run)
  BY <1>4, ClosedBelow
<1>7. g[i - 1] \in FenceType /\ text[i] \in Line
  BY <1>3, <1>4, CommonMarkIs
<1>. HIDE DEF f, g, T, n
<1>8. CASE g[i - 1] = NoFence
  <2>1. CASE IsFence(text[i])
    <3>1. g[i] = [char |-> text[i].char, run |-> text[i].run]
      BY <1>5, <1>8, <2>1 DEF NextMark
    <3>2. g[i] # NoFence /\ g[i].char = text[i].char /\ g[i].run = text[i].run
      BY <2>1, <3>1 DEF IsFence, NoFence
    <3>3. Opens(text, i)
      BY <1>6, <2>1, <3>2 DEF Opens
    <3>. QED BY <1>5, <1>8, <3>1, <3>3 DEF NextFence
  <2>2. CASE ~ IsFence(text[i])
    BY <1>5, <1>8, <2>2 DEF NextFence, NextMark, Opens
  <2>. QED BY <2>1, <2>2
<1>9. CASE g[i - 1] # NoFence
  <2>. DEFINE was == g[i - 1]
  <2>1. f[i] = IF Closes(text, i, was) THEN NoFence ELSE was
    BY <1>5, <1>9 DEF NextFence
  <2>2. g[i] = IF Bare(text[i]) /\ text[i].char = was.char /\ text[i].run >= was.run
               THEN NoFence ELSE was
    BY <1>5, <1>9 DEF NextMark
  <2>. HIDE DEF was
  <2>3. CASE Bare(text[i]) /\ text[i].char = was.char /\ text[i].run >= was.run
    BY <1>5, <2>1, <2>2, <2>3 DEF Closes
  <2>4. CASE ~ (Bare(text[i]) /\ text[i].char = was.char /\ text[i].run >= was.run)
    <3>1. g[i] = was /\ was # NoFence
      BY <1>9, <2>2, <2>4 DEF was
    <3>2. BareAfter(text, i, was.char, was.run)
      BY <1>6, <3>1
    <3>3. ~ Closes(text, i, was)
      BY <2>4, <3>2 DEF Closes
    <3>. QED BY <1>5, <2>1, <3>1, <3>3
  <2>. QED BY <2>3, <2>4
<1>. QED BY <1>8, <1>9

\* A single marker stays one when the groups of its line are split.
LEMMA SinglesStay ==
  ASSUME NEW marks \in SUBSET Mark
  PROVE  SinglesOf(marks) \subseteq SinglesOf(Ungrouped(marks))
<1>1. {m \in marks : ~ m.group} \subseteq {m \in Ungrouped(marks) : ~ m.group}
  BY DEF Ungrouped
<1>. QED BY <1>1 DEF SinglesOf

LEMMA CitedIsWritten ==
  ASSUME NEW text
  PROVE  CitedMarkers(text) = {} <=> Written(text) = {}
<1>1. ASSUME NEW i \in DOMAIN text
      PROVE  SinglesOf({m \in text[i].marks : ~ m.code}) \subseteq SinglesOf(text[i].marks)
  <2>1. {k \in {m \in text[i].marks : ~ m.code} : ~ k.group} \subseteq {k \in text[i].marks : ~ k.group}
    OBVIOUS
  <2>. QED BY <2>1 DEF SinglesOf
<1>2. OutsideCode(text) \subseteq Written(text)
  BY <1>1 DEF OutsideCode, Written
<1>. QED BY <1>2 DEF CitedMarkers

\* What is written single stays written when groups are split, so that a text
\* that cites keeps a source card (expand_grouped_markers).
LEMMA CitesStill ==
  ASSUME NEW text \in Seq(Line), CitedMarkers(text) # {}
  PROVE  CitedMarkers(Expand(text)) # {}
<1>1. PICK i \in DOMAIN text : SinglesOf(text[i].marks) # {}
  BY CitedIsWritten DEF Written
<1>2. text[i] \in Line
  OBVIOUS
<1>3. text[i].marks \in SUBSET Mark
  BY <1>2 DEF Line
<1>4. Expand(text)[i].marks \in {text[i].marks, Ungrouped(text[i].marks)}
  <2>. DEFINE l == [text[i] EXCEPT !.marks = Ungrouped(text[i].marks)]
  <2>1. l.marks = Ungrouped(text[i].marks)
    BY <1>2 DEF Line
  <2>2. Expand(text)[i] = text[i] \/ Expand(text)[i] = l
    BY DEF Expand
  <2>. HIDE DEF l
  <2>. QED BY <2>1, <2>2
<1>5. SinglesOf(Expand(text)[i].marks) # {}
  BY <1>1, <1>3, <1>4, SinglesStay
<1>6. i \in DOMAIN Expand(text)
  BY DEF Expand
<1>7. Written(Expand(text)) # {}
  BY <1>5, <1>6 DEF Written
<1>. QED BY <1>7, CitedIsWritten

\* What the model writes is read as it stands there.
LEMMA DraftIsRead == ASSUME draft \in Seq(Line) PROVE MarkersAreRead
<1>1. FencesAreRead
  <2>1. SUFFICES ASSUME WellFormed(draft)
                 PROVE  CodeLines(draft) = {i \in 1 .. Len(draft) :
                          CommonMark(draft)[i - 1] # NoFence \/ CommonMark(draft)[i] # NoFence}
    BY DEF FencesAreRead
  <2>2. \A i \in 1 .. Len(draft) : i \in 0 .. Len(draft) /\ i - 1 \in 0 .. Len(draft)
    OBVIOUS
  <2>3. \A i \in 1 .. Len(draft) : /\ OpenFence(draft)[i] = CommonMark(draft)[i]
                                   /\ OpenFence(draft)[i - 1] = CommonMark(draft)[i - 1]
    BY <2>1, <2>2, FencesAgree
  <2>. QED BY <2>3 DEF CodeLines
<1>2. ExpandsOnce
  BY ExpandedOnce DEF ExpandsOnce
<1>3. CitedStaysCited
  BY CitesStill DEF CitedStaysCited
<1>. QED BY <1>1, <1>2, <1>3 DEF MarkersAreRead

\* What the model writes consists of lines.
THEOREM TextTyped == TextSpec => []TextTypeOK
<1>1. TextInit => TextTypeOK
  BY DEF TextInit, TextTypeOK
<1>2. TextTypeOK /\ [TextNext]_draft => TextTypeOK'
  BY LinesAssumption DEF TextTypeOK, TextNext, WriteLine
<1>. QED BY <1>1, <1>2, PTL DEF TextSpec

\* Wherever fences, groups and markers stand, in a text of any length: a text
\* whose fences are all closed as CommonMark has it is read as CommonMark reads
\* it, splitting groups a second time changes nothing, and a text that cites
\* keeps a source card (_strip_code, expand_grouped_markers, validate_citations).
THEOREM EveryMarkerIsRead == TextSpec => []MarkersAreRead
<1>1. TextTypeOK => MarkersAreRead
  BY DraftIsRead DEF TextTypeOK
<1>. QED BY <1>1, TextTyped, PTL

----------------------------------------------------------------------------
(* SourceText.                                                             *)

Block == [heading : DocLine, body : Seq(DocLine)]

\* What has been read of a text.
ReadType ==
  [title : DocLine \cup {Untitled}, open : DocLine \cup {Untitled},
   body : Seq(DocLine), blocks : Seq(Block)]

NothingRead == [title |-> Untitled, open |-> Untitled, body |-> <<>>, blocks |-> <<>>]

LEMMA FlushType ==
  ASSUME NEW was \in ReadType PROVE Flush(was) \in Seq(Block)
<1>1. was.blocks \in Seq(Block) /\ was.open \in DocLine \cup {Untitled} /\ was.body \in Seq(DocLine)
  BY DEF ReadType
<1>2. CASE was.open = Untitled \/ was.body = <<>>
  BY <1>1, <1>2 DEF Flush
<1>3. CASE ~ (was.open = Untitled \/ was.body = <<>>)
  <2>. DEFINE b == [heading |-> was.open, body |-> was.body]
  <2>1. b \in Block
    BY <1>1, <1>3 DEF Block
  <2>. HIDE DEF b
  <2>2. Append(was.blocks, b) \in Seq(Block)
    BY <1>1, <2>1
  <2>. QED BY <1>3, <2>2 DEF Flush, b
<1>. QED BY <1>2, <1>3

\* What one line adds.
LineAdds(was, l, is) ==
  /\ l.kind = "blank" => is = was
  /\ l.kind = "title" /\ was.title = Untitled =>
       is.title = l /\ is.open = was.open /\ is.body = was.body /\ is.blocks = was.blocks
  /\ l.kind = "section" =>
       is.title = was.title /\ is.open = l /\ is.body = <<>> /\ is.blocks = Flush(was)
  /\ l.kind = "body" \/ (l.kind = "title" /\ was.title # Untitled) =>
       IF was.open = Untitled THEN is = was
       ELSE /\ is.title = was.title /\ is.open = was.open
            /\ is.body = Append(was.body, l) /\ is.blocks = was.blocks

LEMMA LineRead ==
  ASSUME NEW was \in ReadType, NEW l \in DocLine
  PROVE  ReadLine(was, l) \in ReadType /\ LineAdds(was, l, ReadLine(was, l))
<1>. DEFINE is == ReadLine(was, l)
            f == Flush(was)
<1>0. l.kind \in {"title", "section", "body", "blank"}
  BY DEF DocLine
<1>1. PICK a, b, c, d : /\ was = [title |-> a, open |-> b, body |-> c, blocks |-> d]
                        /\ a \in DocLine \cup {Untitled} /\ b \in DocLine \cup {Untitled}
                        /\ c \in Seq(DocLine) /\ d \in Seq(Block)
  BY DEF ReadType
<1>2. was.title = a /\ was.open = b /\ was.body = c /\ was.blocks = d
  BY <1>1
<1>3. f \in Seq(Block) /\ Append(c, l) \in Seq(DocLine)
  BY <1>1, FlushType
<1>. HIDE DEF f
<1>4. CASE l.kind = "blank"
  <2>1. is = was
    BY <1>4 DEF ReadLine
  <2>. QED BY <1>4, <2>1 DEF LineAdds
<1>5. CASE l.kind = "title" /\ was.title = Untitled
  <2>. DEFINE r == [title |-> l, open |-> b, body |-> c, blocks |-> d]
  <2>1. is = [was EXCEPT !.title = l]
    BY <1>5 DEF ReadLine
  <2>2. is = r
    BY <1>1, <2>1
  <2>3. r \in ReadType
    BY <1>1 DEF ReadType
  <2>4. LineAdds(was, l, r)
    BY <1>2, <1>5 DEF LineAdds
  <2>. HIDE DEF r
  <2>. QED BY <2>2, <2>3, <2>4
<1>6. CASE l.kind = "section"
  <2>. DEFINE r == [title |-> a, open |-> l, body |-> <<>>, blocks |-> f]
  <2>1. is = [was EXCEPT !.blocks = f, !.open = l, !.body = <<>>]
    BY <1>6 DEF ReadLine, f
  <2>2. is = r
    BY <1>1, <2>1
  <2>3. r \in ReadType
    BY <1>1, <1>3 DEF ReadType
  <2>4. LineAdds(was, l, r)
    BY <1>2, <1>6 DEF LineAdds, f
  <2>. HIDE DEF r
  <2>. QED BY <2>2, <2>3, <2>4
<1>7. CASE l.kind = "body" \/ (l.kind = "title" /\ was.title # Untitled)
  <2>1. is = IF was.open = Untitled THEN was ELSE [was EXCEPT !.body = Append(was.body, l)]
    BY <1>7 DEF ReadLine
  <2>2. CASE was.open = Untitled
    <3>1. is = was
      BY <2>1, <2>2
    <3>. QED BY <1>7, <2>2, <3>1 DEF LineAdds
  <2>3. CASE was.open # Untitled
    <3>. DEFINE r == [title |-> a, open |-> b, body |-> Append(c, l), blocks |-> d]
    <3>1. is = r
      BY <1>1, <1>2, <2>1, <2>3
    <3>2. r \in ReadType
      BY <1>1, <1>3 DEF ReadType
    <3>3. LineAdds(was, l, r)
      BY <1>2, <1>7, <2>3 DEF LineAdds
    <3>. HIDE DEF r
    <3>. QED BY <3>1, <3>2, <3>3
  <2>. QED BY <2>2, <2>3
<1>. QED BY <1>0, <1>4, <1>5, <1>6, <1>7

LEMMA ParseIs ==
  ASSUME NEW text \in Seq(DocLine)
  PROVE  \E read : /\ read[0] = NothingRead
                   /\ \A i \in 0 .. Len(text) : read[i] \in ReadType
                   /\ \A i \in 1 .. Len(text) : read[i] = ReadLine(read[i - 1], text[i])
                   /\ ParseMarkdown(text) =
                        [title |-> read[Len(text)].title, blocks |-> Flush(read[Len(text)])]
<1>. DEFINE n == Len(text)
            step == [p \in (1 .. n) \X ReadType |-> ReadLine(p[2], text[p[1]])]
<1>0. n \in Nat /\ NothingRead \in ReadType /\ \A i \in 1 .. n : text[i] \in DocLine
  BY DEF ReadType, NothingRead
<1>1. step \in [(1 .. n) \X ReadType -> ReadType]
  <2>1. \A p \in (1 .. n) \X ReadType : p[1] \in 1 .. n /\ p[2] \in ReadType
    OBVIOUS
  <2>2. \A i \in 1 .. n, was \in ReadType : ReadLine(was, text[i]) \in ReadType
    BY <1>0, LineRead
  <2>. QED BY <2>1, <2>2
<1>2. PICK f \in [0 .. n -> ReadType] : Scanned(f, n, NothingRead, step)
  <2>. HIDE DEF n, step
  <2>. QED BY <1>0, <1>1, ScanExists
<1>3. \A i \in 1 .. n : f[i] = ReadLine(f[i - 1], text[i])
  <2>1. ASSUME NEW i \in 1 .. n PROVE f[i] = ReadLine(f[i - 1], text[i])
    <3>1. i - 1 \in 0 .. n /\ f[i - 1] \in ReadType
      BY <1>0
    <3>2. f[i] = step[<<i, f[i - 1]>>]
      BY <1>2 DEF Scanned
    <3>. QED BY <3>1, <3>2
  <2>. QED BY <2>1
<1>. DEFINE Reads(g) ==
       g = [i \in 0 .. n |->
              IF i = 0 THEN [title |-> Untitled, open |-> Untitled, body |-> <<>>, blocks |-> <<>>]
              ELSE ReadLine(g[i - 1], text[i])]
<1>4. Reads(f)
  <2>1. f[0] = NothingRead
    BY <1>2 DEF Scanned
  <2>2. \A i \in 0 .. n : i = 0 \/ i \in 1 .. n
    BY <1>0
  <2>3. f = [i \in 0 .. n |-> f[i]]
    BY <1>2
  <2>. QED BY <1>3, <2>1, <2>2, <2>3 DEF NothingRead
<1>5. \E g : /\ Reads(g)
             /\ ParseMarkdown(text) = [title |-> g[n].title, blocks |-> Flush(g[n])]
  BY <1>4, Zenon DEF ParseMarkdown
<1>6. PICK g : /\ Reads(g)
               /\ ParseMarkdown(text) = [title |-> g[n].title, blocks |-> Flush(g[n])]
  BY <1>5
<1>7. g[0] = NothingRead /\ \A i \in 1 .. n : g[i] = ReadLine(g[i - 1], text[i])
  <2>1. \A i \in 1 .. n : i \in 0 .. n /\ i # 0
    BY <1>0
  <2>2. 0 \in 0 .. n
    BY <1>0
  <2>. HIDE DEF n
  <2>3. g[0] = NothingRead
    BY <1>6, <2>2, Zenon DEF NothingRead
  <2>4. \A i \in 1 .. n : g[i] = ReadLine(g[i - 1], text[i])
    BY <1>6, <2>1, Zenon
  <2>. QED BY <2>3, <2>4
<1>8. \A i \in 0 .. n : g[i] \in ReadType
  <2>. DEFINE T == {i \in 0 .. n : g[i] \notin ReadType}
  <2>1. SUFFICES ASSUME T # {} PROVE FALSE
    OBVIOUS
  <2>2. PICK i \in T : \A j \in T : i =< j
    <3>1. T \in SUBSET Nat
      OBVIOUS
    <3>. HIDE DEF T
    <3>. QED BY <2>1, <3>1, LeastNatural
  <2>3. i \in 1 .. n
    BY <1>0, <1>7
  <2>4. g[i - 1] \in ReadType
    BY <2>2, <2>3
  <2>5. g[i] \in ReadType
    BY <1>0, <1>7, <2>3, <2>4, LineRead
  <2>. QED BY <2>5
<1>. QED BY <1>6, <1>7, <1>8

\* The heading of the section line i stands in.
OpenAt(text, i, h) ==
  h \in 1 .. i /\ text[h].kind = "section" /\ \A j \in h + 1 .. i : text[j].kind # "section"

LinesOf(body) == {body[k] : k \in DOMAIN body}

\* Blocks that are the sections of H, in their order.
BlocksFor(text, b, H) ==
  /\ Len(b) = Cardinality(H)
  /\ \A g \in H : /\ Place(text, g) \in 1 .. Len(b)
                  /\ b[Place(text, g)].heading = text[g]
                  /\ LinesOf(b[Place(text, g)].body) = Body(text, g)
  /\ \A k \in 1 .. Len(b) : \E g \in H : Place(text, g) = k

Titles(text, i) == {j \in 1 .. i : text[j].kind = "title"}

\* What of the first i lines has been read.
TitleShown(text, i, r) ==
  IF Titles(text, i) = {} THEN r.title = Untitled
  ELSE \E t \in Titles(text, i) : r.title = text[t] /\ \A j \in Titles(text, i) : t =< j

NoneOpen(text, i, r) ==
  r.open = Untitled /\ r.blocks = <<>> /\ \A j \in 1 .. i : text[j].kind # "section"

OneOpen(text, i, r, h) ==
  /\ OpenAt(text, i, h) /\ r.open = text[h]
  /\ LinesOf(r.body) = {text[j] : j \in BodyBelow(text, h) \cap (1 .. i)}
  /\ BlocksFor(text, r.blocks, {g \in Headings(text) : g < h})

SectionShown(text, i, r) == NoneOpen(text, i, r) \/ \E h \in 1 .. i : OneOpen(text, i, r, h)

LEMMA HeadingsAre ==
  ASSUME NEW text \in Seq(DocLine), NEW H \in SUBSET Headings(text)
  PROVE  /\ Headings(text) \subseteq 1 .. Len(text) /\ Len(text) \in Nat
         /\ IsFiniteSet(H) /\ Cardinality(H) \in 0 .. Len(text)
<1>1. Headings(text) \subseteq 1 .. Len(text) /\ Len(text) \in Nat
  BY DEF Headings
<1>2. IsFiniteSet(1 .. Len(text)) /\ Cardinality(1 .. Len(text)) = Len(text)
  <2>. DEFINE n == Len(text)
  <2>1. 1 \in Int /\ n \in Int /\ n \in Nat
    BY <1>1
  <2>. HIDE DEF n
  <2>2. IsFiniteSet(1 .. n) /\ Cardinality(1 .. n) = IF 1 > n THEN 0 ELSE n - 1 + 1
    BY <2>1, FS_Interval
  <2>3. (IF 1 > n THEN 0 ELSE n - 1 + 1) = n
    BY <2>1
  <2>4. IsFiniteSet(1 .. n) /\ Cardinality(1 .. n) = n
    BY <2>2, <2>3
  <2>. QED BY <2>4 DEF n
<1>3. H \in SUBSET (1 .. Len(text))
  BY <1>1
<1>4. IsFiniteSet(H) /\ Cardinality(H) =< Cardinality(1 .. Len(text))
  BY <1>2, <1>3, FS_Subset
<1>5. Cardinality(H) \in Nat
  BY <1>4, FS_CardinalityType
<1>. QED BY <1>1, <1>2, <1>4, <1>5

LEMMA NoLines == ASSUME NEW body \in Seq(DocLine) PROVE body = <<>> <=> LinesOf(body) = {}
<1>1. body = <<>> <=> DOMAIN body = {}
  <2>1. DOMAIN body = 1 .. Len(body) /\ Len(body) \in Nat
    OBVIOUS
  <2>2. body = <<>> <=> Len(body) = 0
    OBVIOUS
  <2>3. \A n \in Nat : n = 0 <=> 1 .. n = {}
    <3>1. ASSUME NEW n \in Nat, n # 0 PROVE 1 \in 1 .. n
      BY <3>1
    <3>2. 1 .. 0 = {}
      OBVIOUS
    <3>. QED BY <3>1, <3>2
  <2>. QED BY <2>1, <2>2, <2>3, Zenon
<1>. QED BY <1>1 DEF LinesOf

LEMMA MoreLines ==
  ASSUME NEW body \in Seq(DocLine), NEW l \in DocLine
  PROVE  LinesOf(Append(body, l)) = LinesOf(body) \cup {l}
<1>. DEFINE more == Append(body, l)
<1>1. /\ DOMAIN more = 1 .. Len(body) + 1 /\ DOMAIN body = 1 .. Len(body) /\ Len(body) \in Nat
      /\ more[Len(body) + 1] = l /\ \A k \in 1 .. Len(body) : more[k] = body[k]
  OBVIOUS
<1>. HIDE DEF more
<1>2. \A k \in 1 .. Len(body) + 1 : k \in 1 .. Len(body) \/ k = Len(body) + 1
  BY <1>1
<1>3. 1 .. Len(body) \subseteq 1 .. Len(body) + 1 /\ Len(body) + 1 \in 1 .. Len(body) + 1
  BY <1>1
<1>4. LinesOf(more) \subseteq LinesOf(body) \cup {l}
  BY <1>1, <1>2 DEF LinesOf
<1>5. LinesOf(body) \cup {l} \subseteq LinesOf(more)
  BY <1>1, <1>3 DEF LinesOf
<1>. QED BY <1>4, <1>5 DEF more

\* Where a section ends, it becomes a block if it has a body.
LEMMA FlushIs ==
  ASSUME NEW text \in Seq(DocLine), NEW i \in 0 .. Len(text), NEW r \in ReadType,
         SectionShown(text, i, r), i = Len(text) \/ text[i + 1].kind = "section"
  PROVE  BlocksFor(text, Flush(r), {g \in Headings(text) : g =< i})
<1>. DEFINE n == Len(text)
            K == {g \in Headings(text) : g =< i}
<1>0. /\ n \in Nat /\ Headings(text) \subseteq 1 .. n
      /\ \A g \in Headings(text) : text[g].kind = "section"
  BY DEF Headings
<1>1. CASE NoneOpen(text, i, r)
  <2>1. K = {}
    BY <1>0, <1>1 DEF NoneOpen
  <2>2. Flush(r) = <<>>
    BY <1>1 DEF NoneOpen, Flush
  <2>3. Cardinality({}) = 0
    BY FS_EmptySet
  <2>4. Len(<<>>) = 0 /\ 1 .. 0 = {}
    OBVIOUS
  <2>5. BlocksFor(text, <<>>, {})
    BY <2>3, <2>4 DEF BlocksFor
  <2>. HIDE DEF K
  <2>6. BlocksFor(text, Flush(r), K)
    BY <2>1, <2>2, <2>5
  <2>. QED BY <2>6 DEF K
<1>2. ASSUME NEW h \in 1 .. i, OneOpen(text, i, r, h) PROVE BlocksFor(text, Flush(r), K)
  <2>. DEFINE H == {g \in Headings(text) : g < h}
  <2>0. h \in 1 .. n /\ h =< i
    BY <1>0
  <2>1. \A j \in BodyBelow(text, h) : j =< i
    <3>1. ASSUME NEW j \in BodyBelow(text, h), ~ (j =< i) PROVE FALSE
      <4>1. j \in h + 1 .. n /\ \A k \in h + 1 .. j : text[k].kind # "section"
        BY <3>1 DEF BodyBelow
      <4>2. i + 1 \in h + 1 .. j /\ i # n
        BY <1>0, <2>0, <3>1, <4>1
      <4>. QED BY <4>1, <4>2
    <3>. QED BY <3>1
  <2>2. BodyBelow(text, h) \cap (1 .. i) = BodyBelow(text, h)
    <3>1. \A j \in BodyBelow(text, h) : j \in h + 1 .. n
      BY DEF BodyBelow
    <3>. QED BY <1>0, <2>0, <2>1, <3>1
  <2>3. LinesOf(r.body) = Body(text, h)
    BY <1>2, <2>2 DEF OneOpen, Body
  <2>4. r.body \in Seq(DocLine) /\ r.blocks \in Seq(Block) /\ r.open = text[h] /\ r.open # Untitled
    <3>1. text[h] \in DocLine
      BY <2>0
    <3>. QED BY <1>2, <3>1, SourceAssumption DEF ReadType, OneOpen
  <2>5. r.body = <<>> <=> BodyBelow(text, h) = {}
    BY <2>3, <2>4, NoLines DEF Body
  <2>6. text[h].kind = "section" /\ (h \in Headings(text) <=> r.body # <<>>)
    <3>1. h \in DOMAIN text /\ text[h].kind = "section"
      BY <1>2, <2>0 DEF OneOpen, OpenAt
    <3>. QED BY <2>5, <3>1 DEF Headings
  <2>7. \A g \in Headings(text) : g =< i <=> g < h \/ g = h
    <3>1. \A j \in h + 1 .. i : text[j].kind # "section"
      BY <1>2 DEF OneOpen, OpenAt
    <3>. QED BY <1>0, <2>0, <3>1
  <2>8. BlocksFor(text, r.blocks, H)
    BY <1>2 DEF OneOpen
  <2>9. CASE r.body = <<>>
    <3>1. K = H
      BY <2>6, <2>7, <2>9
    <3>2. Flush(r) = r.blocks
      BY <2>9 DEF Flush
    <3>. HIDE DEF K, H
    <3>. QED BY <2>8, <3>1, <3>2
  <2>10. CASE r.body # <<>>
    <3>. DEFINE x == [heading |-> r.open, body |-> r.body]
                b == r.blocks
                c == Append(b, x)
    <3>1. Flush(r) = c
      BY <2>4, <2>10 DEF Flush
    <3>2. K = H \cup {h} /\ h \notin H /\ H \in SUBSET Headings(text)
      BY <1>0, <2>0, <2>6, <2>7, <2>10
    <3>3. IsFiniteSet(H) /\ Cardinality(H) \in Nat
      BY <3>2, HeadingsAre
    <3>4. Cardinality(K) = Cardinality(H) + 1
      BY <3>2, <3>3, FS_AddElement
    <3>5. Place(text, h) = Cardinality(K)
      <4>1. {g \in Headings(text) : g =< h} = K
        BY <1>0, <2>0, <2>7, <3>2
      <4>. HIDE DEF K
      <4>. QED BY <4>1 DEF Place
    <3>6. x.heading = text[h] /\ LinesOf(x.body) = Body(text, h)
      BY <2>3, <2>4
    <3>. HIDE DEF K, H, x
    <3>7. /\ Len(b) = Cardinality(H)
          /\ \A g \in H : /\ Place(text, g) \in 1 .. Len(b)
                          /\ b[Place(text, g)].heading = text[g]
                          /\ LinesOf(b[Place(text, g)].body) = Body(text, g)
          /\ \A k \in 1 .. Len(b) : \E g \in H : Place(text, g) = k
      BY <2>8 DEF BlocksFor
    <3>8. /\ Len(c) = Len(b) + 1 /\ Len(b) \in Nat
          /\ c[Len(b) + 1] = x /\ \A k \in 1 .. Len(b) : c[k] = b[k]
      BY <2>4
    <3>. HIDE DEF b, c
    <3>9. \A g \in K : /\ Place(text, g) \in 1 .. Len(c)
                       /\ c[Place(text, g)].heading = text[g]
                       /\ LinesOf(c[Place(text, g)].body) = Body(text, g)
      <4>1. ASSUME NEW g \in H
            PROVE  /\ Place(text, g) \in 1 .. Len(c)
                   /\ c[Place(text, g)].heading = text[g]
                   /\ LinesOf(c[Place(text, g)].body) = Body(text, g)
        BY <3>7, <3>8
      <4>2. /\ Place(text, h) \in 1 .. Len(c)
            /\ c[Place(text, h)].heading = text[h]
            /\ LinesOf(c[Place(text, h)].body) = Body(text, h)
        <5>1. Place(text, h) = Len(b) + 1
          BY <3>4, <3>5, <3>7
        <5>2. Len(b) + 1 \in 1 .. Len(c)
          BY <3>8
        <5>. QED BY <3>6, <3>8, <5>1, <5>2
      <4>. QED BY <3>2, <4>1, <4>2
    <3>10. ASSUME NEW k \in 1 .. Len(c) PROVE \E g \in K : Place(text, g) = k
      <4>1. CASE k = Len(b) + 1
        BY <3>2, <3>4, <3>5, <3>7, <4>1
      <4>2. CASE k # Len(b) + 1
        <5>1. k \in 1 .. Len(b)
          BY <3>8, <4>2
        <5>. QED BY <3>2, <3>7, <5>1
      <4>. QED BY <4>1, <4>2
    <3>. QED BY <3>1, <3>4, <3>7, <3>8, <3>9, <3>10 DEF BlocksFor
  <2>. QED BY <2>9, <2>10
<1>. QED BY <1>1, <1>2 DEF SectionShown

LEMMA TitleStep ==
  ASSUME NEW text \in Seq(DocLine), NEW i \in 1 .. Len(text),
         NEW was \in ReadType, NEW is \in ReadType,
         LineAdds(was, text[i], is), TitleShown(text, i - 1, was)
  PROVE  /\ TitleShown(text, i, is)
         /\ was.title = Untitled <=> Titles(text, i - 1) = {}
<1>. DEFINE T == Titles(text, i - 1)
            l == text[i]
<1>0. i \in Nat /\ i - 1 \in Nat /\ l \in DocLine /\ Untitled \notin DocLine
  BY SourceAssumption
<1>1. T \subseteq 1 .. i - 1 /\ \A j \in T : text[j] \in DocLine
  BY <1>0 DEF Titles
<1>2. was.title = Untitled <=> T = {}
  BY <1>0, <1>1 DEF TitleShown
<1>3. Titles(text, i) = IF l.kind = "title" THEN T \cup {i} ELSE T
  BY <1>0 DEF Titles
<1>4. is.title = IF l.kind = "title" /\ was.title = Untitled THEN l ELSE was.title
  <2>1. l.kind \in {"title", "section", "body", "blank"}
    BY <1>0 DEF DocLine
  <2>. HIDE DEF l
  <2>. QED BY <2>1 DEF LineAdds, l
<1>. HIDE DEF T, l
<1>5. CASE T = {}
  <2>1. CASE l.kind = "title"
    <3>1. Titles(text, i) = {i} /\ is.title = text[i]
      BY <1>2, <1>3, <1>4, <1>5, <2>1 DEF l
    <3>. QED BY <1>0, <1>2, <3>1 DEF TitleShown, T
  <2>2. CASE l.kind # "title"
    BY <1>2, <1>3, <1>4, <1>5, <2>2 DEF TitleShown, T
  <2>. QED BY <2>1, <2>2
<1>6. CASE T # {}
  <2>1. PICK t \in T : was.title = text[t] /\ \A j \in T : t =< j
    BY <1>6 DEF TitleShown, T
  <2>2. is.title = text[t]
    BY <1>2, <1>4, <1>6, <2>1
  <2>3. t \in Titles(text, i) /\ t =< i
    BY <1>0, <1>1, <1>3
  <2>4. \A j \in Titles(text, i) : t =< j
    BY <1>3, <2>1, <2>3
  <2>5. TitleShown(text, i, is)
    BY <2>2, <2>3, <2>4 DEF TitleShown
  <2>. QED BY <1>2, <2>5 DEF T
<1>. QED BY <1>5, <1>6

\* A line of the section that is open.
LEMMA SameSection ==
  ASSUME NEW text \in Seq(DocLine), NEW i \in 1 .. Len(text), NEW h \in 1 .. i - 1,
         NEW was, NEW is, OneOpen(text, i - 1, was, h), text[i].kind # "section",
         is.open = was.open, is.blocks = was.blocks,
         LinesOf(is.body) = IF i \in BodyBelow(text, h) THEN LinesOf(was.body) \cup {text[i]}
                            ELSE LinesOf(was.body)
  PROVE  OneOpen(text, i, is, h)
<1>. DEFINE B == BodyBelow(text, h)
<1>0. i \in Nat /\ h \in 1 .. i
  OBVIOUS
<1>1. OpenAt(text, i, h)
  <2>1. OpenAt(text, i - 1, h)
    BY DEF OneOpen
  <2>2. \A j \in h + 1 .. i : j = i \/ j \in h + 1 .. i - 1
    OBVIOUS
  <2>. QED BY <1>0, <2>1, <2>2 DEF OpenAt
<1>2. LinesOf(was.body) = {text[j] : j \in B \cap (1 .. i - 1)}
  BY DEF OneOpen
<1>3. B \cap (1 .. i) = IF i \in B THEN (B \cap (1 .. i - 1)) \cup {i} ELSE B \cap (1 .. i - 1)
  <2>1. \A j \in 1 .. i : j = i \/ j \in 1 .. i - 1
    OBVIOUS
  <2>2. i \in 1 .. i /\ \A j \in 1 .. i - 1 : j \in 1 .. i
    OBVIOUS
  <2>. HIDE DEF B
  <2>. QED BY <2>1, <2>2
<1>4. LinesOf(is.body) = {text[j] : j \in B \cap (1 .. i)}
  <2>. HIDE DEF B
  <2>1. CASE i \in B
    <3>1. LinesOf(is.body) = {text[j] : j \in B \cap (1 .. i - 1)} \cup {text[i]}
      BY <1>2, <2>1 DEF B
    <3>2. B \cap (1 .. i) = (B \cap (1 .. i - 1)) \cup {i}
      BY <1>3, <2>1
    <3>. QED BY <3>1, <3>2
  <2>2. CASE i \notin B
    BY <1>2, <1>3, <2>2 DEF B
  <2>. QED BY <2>1, <2>2
<1>. QED BY <1>1, <1>4 DEF OneOpen

LEMMA SectionStep ==
  ASSUME NEW text \in Seq(DocLine), NEW i \in 1 .. Len(text),
         NEW was \in ReadType, NEW is \in ReadType,
         LineAdds(was, text[i], is), TitleShown(text, i - 1, was),
         SectionShown(text, i - 1, was)
  PROVE  SectionShown(text, i, is)
<1>. DEFINE l == text[i]
<1>0. /\ i \in Nat /\ i - 1 \in Nat /\ i - 1 \in 0 .. Len(text) /\ Len(text) \in Nat
      /\ l \in DocLine /\ Untitled \notin DocLine
  BY SourceAssumption
<1>1. l.kind \in {"title", "section", "body", "blank"}
  BY <1>0 DEF DocLine
<1>2. was.title = Untitled <=> Titles(text, i - 1) = {}
  BY TitleStep
<1>3. \A h \in 1 .. i - 1 : OneOpen(text, i - 1, was, h) => was.open # Untitled
  BY <1>0 DEF OneOpen
<1>4. CASE l.kind = "section"
  <2>1. is.open = l /\ is.body = <<>> /\ is.blocks = Flush(was)
    BY <1>4 DEF LineAdds
  <2>2. BlocksFor(text, Flush(was), {g \in Headings(text) : g =< i - 1})
    BY <1>0, <1>4, FlushIs
  <2>3. {g \in Headings(text) : g =< i - 1} = {g \in Headings(text) : g < i}
    <3>1. \A g \in Headings(text) : g \in 1 .. Len(text)
      BY DEF Headings
    <3>. QED BY <1>0, <3>1
  <2>4. LinesOf(<<>>) = {}
    BY DEF LinesOf
  <2>5. BodyBelow(text, i) \cap (1 .. i) = {}
    <3>1. \A j \in BodyBelow(text, i) : j \in i + 1 .. Len(text)
      BY DEF BodyBelow
    <3>. QED BY <1>0, <3>1
  <2>6. OpenAt(text, i, i)
    BY <1>4 DEF OpenAt
  <2>7. OneOpen(text, i, is, i)
    <3>1. LinesOf(is.body) = {text[j] : j \in BodyBelow(text, i) \cap (1 .. i)}
      BY <2>1, <2>4, <2>5
    <3>2. BlocksFor(text, is.blocks, {g \in Headings(text) : g < i})
      BY <2>1, <2>2, <2>3
    <3>. QED BY <2>1, <2>6, <3>1, <3>2 DEF OneOpen
  <2>. QED BY <2>7 DEF SectionShown
<1>5. CASE l.kind # "section"
  <2>1. CASE NoneOpen(text, i - 1, was)
    <3>1. was.open = Untitled /\ was.blocks = <<>>
      BY <2>1 DEF NoneOpen
    <3>2. is.open = Untitled /\ is.blocks = <<>>
      BY <1>1, <1>5, <3>1 DEF LineAdds
    <3>3. \A j \in 1 .. i : j = i \/ j \in 1 .. i - 1
      OBVIOUS
    <3>4. NoneOpen(text, i, is)
      BY <1>5, <2>1, <3>2, <3>3 DEF NoneOpen
    <3>. QED BY <3>4 DEF SectionShown
  <2>2. ASSUME NEW h \in 1 .. i - 1, OneOpen(text, i - 1, was, h) PROVE SectionShown(text, i, is)
    <3>1. was.open # Untitled /\ h \in 1 .. i
      BY <1>3, <2>2
    <3>2. OpenAt(text, i - 1, h)
      BY <2>2 DEF OneOpen
    <3>3. i \in BodyBelow(text, h) <=> l.kind = "body" \/ (l.kind = "title" /\ was.title # Untitled)
      <4>1. i \in h + 1 .. Len(text) /\ \A j \in h + 1 .. i : text[j].kind # "section"
        <5>1. \A j \in h + 1 .. i : j = i \/ j \in h + 1 .. i - 1
          OBVIOUS
        <5>. QED BY <1>0, <1>5, <3>2, <5>1 DEF OpenAt
      <4>2. was.title # Untitled <=> \E j \in 1 .. i - 1 : text[j].kind = "title"
        BY <1>2 DEF Titles
      <4>3. i \in BodyBelow(text, h) <=>
              /\ l.kind \in {"title", "body"}
              /\ l.kind = "title" => \E j \in 1 .. i - 1 : text[j].kind = "title"
        BY <4>1 DEF BodyBelow
      <4>. HIDE DEF l
      <4>. QED BY <4>2, <4>3
    <3>4. is.open = was.open /\ is.blocks = was.blocks
      <4>. HIDE DEF l
      <4>. QED BY <1>1, <1>5, <3>1 DEF LineAdds, l
    <3>5. is.body = IF i \in BodyBelow(text, h) THEN Append(was.body, l) ELSE was.body
      <4>. HIDE DEF l
      <4>. QED BY <1>1, <1>5, <3>1, <3>3 DEF LineAdds, l
    <3>6. was.body \in Seq(DocLine)
      BY DEF ReadType
    <3>7. LinesOf(Append(was.body, l)) = LinesOf(was.body) \cup {l}
      BY <1>0, <3>6, MoreLines
    <3>8. LinesOf(is.body) = IF i \in BodyBelow(text, h) THEN LinesOf(was.body) \cup {l}
                             ELSE LinesOf(was.body)
      BY <3>5, <3>7, Zenon
    <3>9. OneOpen(text, i, is, h)
      BY <1>5, <2>2, <3>4, <3>8, SameSection
    <3>. QED BY <3>1, <3>9 DEF SectionShown
  <2>. QED BY <2>1, <2>2 DEF SectionShown
<1>. QED BY <1>4, <1>5

\* The blocks of a text are its sections, and its title is its first title line.
LEMMA ParsedIs ==
  ASSUME NEW text \in Seq(DocLine)
  PROVE  /\ ParseMarkdown(text).blocks \in Seq(Block)
         /\ BlocksFor(text, ParseMarkdown(text).blocks, Headings(text))
         /\ TitleShown(text, Len(text), ParseMarkdown(text))
<1>. DEFINE n == Len(text)
<1>0. n \in Nat /\ \A i \in 1 .. n : text[i] \in DocLine
  OBVIOUS
<1>1. PICK read : /\ read[0] = NothingRead
                  /\ \A i \in 0 .. n : read[i] \in ReadType
                  /\ \A i \in 1 .. n : read[i] = ReadLine(read[i - 1], text[i])
                  /\ ParseMarkdown(text) = [title |-> read[n].title, blocks |-> Flush(read[n])]
  BY ParseIs
<1>2. \A i \in 0 .. n : TitleShown(text, i, read[i]) /\ SectionShown(text, i, read[i])
  <2>. DEFINE T == {i \in 0 .. n : ~ (TitleShown(text, i, read[i]) /\ SectionShown(text, i, read[i]))}
  <2>1. SUFFICES ASSUME T # {} PROVE FALSE
    OBVIOUS
  <2>2. PICK i \in T : \A j \in T : i =< j
    <3>1. T \in SUBSET Nat
      OBVIOUS
    <3>. HIDE DEF T
    <3>. QED BY <2>1, <3>1, LeastNatural
  <2>3. i \in 0 .. n /\ ~ (TitleShown(text, i, read[i]) /\ SectionShown(text, i, read[i]))
    OBVIOUS
  <2>4. CASE i = 0
    <3>1. 1 .. 0 = {}
      OBVIOUS
    <3>2. TitleShown(text, 0, NothingRead) /\ SectionShown(text, 0, NothingRead)
      BY <3>1 DEF TitleShown, Titles, SectionShown, NoneOpen, NothingRead
    <3>. QED BY <1>1, <2>3, <2>4, <3>2
  <2>5. CASE i # 0
    <3>1. i \in 1 .. n /\ i - 1 \in 0 .. n /\ i - 1 \notin T
      BY <1>0, <2>2, <2>3, <2>5
    <3>2. TitleShown(text, i - 1, read[i - 1]) /\ SectionShown(text, i - 1, read[i - 1])
      BY <3>1
    <3>3. read[i - 1] \in ReadType /\ read[i] \in ReadType /\ read[i] = ReadLine(read[i - 1], text[i])
      BY <1>1, <2>3, <3>1
    <3>4. LineAdds(read[i - 1], text[i], read[i])
      BY <1>0, <3>1, <3>3, LineRead
    <3>. QED BY <2>3, <3>1, <3>2, <3>3, <3>4, TitleStep, SectionStep
  <2>. QED BY <2>4, <2>5
<1>3. n \in 0 .. n /\ n = Len(text)
  BY <1>0
<1>. DEFINE r == read[n]
            p == ParseMarkdown(text)
<1>4. r \in ReadType /\ TitleShown(text, n, r) /\ SectionShown(text, n, r)
  BY <1>1, <1>2, <1>3
<1>5. p.title = r.title /\ p.blocks = Flush(r)
  BY <1>1
<1>6. BlocksFor(text, Flush(r), {g \in Headings(text) : g =< n})
  <2>. HIDE DEF r
  <2>. QED BY <1>3, <1>4, FlushIs
<1>7. {g \in Headings(text) : g =< n} = Headings(text)
  BY <1>0 DEF Headings
<1>8. Flush(r) \in Seq(Block)
  <2>. HIDE DEF r
  <2>. QED BY <1>4, FlushType
<1>9. TitleShown(text, n, p)
  <2>. HIDE DEF r, p, n
  <2>. QED BY <1>4, <1>5 DEF TitleShown
<1>. HIDE DEF r, p
<1>10. BlocksFor(text, p.blocks, Headings(text))
  BY <1>5, <1>6, <1>7
<1>. QED BY <1>5, <1>8, <1>9, <1>10 DEF p

\* An exact term of the index.
Term == [text : STRING, type : TermTypes]

SectionType == [order : Nat, heading : DocLine, terms : SUBSET Term]

\* The sections of a text of the source: each in its place, with the terms of its body.
SectionsFor(text, name, found) ==
  /\ Len(found) = Cardinality(Headings(text))
  /\ \A h \in Headings(text) :
       /\ Place(text, h) \in 1 .. Len(found)
       /\ found[Place(text, h)].heading = text[h]
       /\ TermsOf(Body(text, h)) \subseteq found[Place(text, h)].terms
       /\ found[Place(text, h)].terms \subseteq TermsOf(Body(text, h) \cup Above(text, name, h))
       /\ (\A l \in Above(text, name, h) : ~ l.stop) =>
            found[Place(text, h)].terms = TermsOf(Body(text, h))
  /\ \A k \in 1 .. Len(found) : \E h \in Headings(text) : Place(text, h) = k

LEMMA MoreWords ==
  ASSUME NEW V, NEW W, V \subseteq W PROVE ExtractTerms(V) \subseteq ExtractTerms(W)
BY DEF ExtractTerms

LEMMA TermsTyped ==
  ASSUME NEW W \in SUBSET SUBSET Match PROVE ExtractTerms(W) \in SUBSET Term
<1>1. UNION W \subseteq Match
  OBVIOUS
<1>2. \A m \in Match : [text |-> m.text, type |-> m.type] \in Term
  BY DEF Match, Term
<1>. QED BY <1>1, <1>2 DEF ExtractTerms

LEMMA SpecTitle ==
  ASSUME NEW name \in SpecNames PROVE SpecOf(name).title \in DocLine
<1>1. \E s \in {Specs[i] : i \in DOMAIN Specs} : s.name = name
  BY DEF SpecNames
<1>2. SpecOf(name) \in {Specs[i] : i \in DOMAIN Specs}
  BY <1>1 DEF SpecOf
<1>. QED BY <1>2, SourceAssumption

\* The first title line of a text, or the title of its source.
TitleOf(text, name) ==
  IF ParseMarkdown(text).title = Untitled THEN SpecOf(name).title ELSE ParseMarkdown(text).title

LEMMA TitleIs ==
  ASSUME NEW text \in Seq(DocLine), NEW name \in SpecNames
  PROVE  /\ TitleOf(text, name) \in DocLine
         /\ \A h : Above(text, name, h) = {text[h], TitleOf(text, name)}
<1>. DEFINE T == {i \in DOMAIN text : text[i].kind = "title"}
            p == ParseMarkdown(text)
<1>1. /\ DOMAIN text = 1 .. Len(text) /\ Len(text) \in Nat /\ \A i \in 1 .. Len(text) : text[i] \in DocLine
      /\ Untitled \notin DocLine
  BY SourceAssumption
<1>2. T = Titles(text, Len(text))
  BY <1>1 DEF Titles
<1>3. TitleShown(text, Len(text), p)
  BY ParsedIs
<1>. HIDE DEF p
<1>4. CASE T = {}
  <2>1. TitleOf(text, name) = SpecOf(name).title
    BY <1>2, <1>3, <1>4 DEF TitleShown, TitleOf, p
  <2>. QED BY <1>4, <2>1, SpecTitle DEF Above
<1>5. CASE T # {}
  <2>1. PICK t \in T : p.title = text[t] /\ \A j \in T : t =< j
    <3>. HIDE DEF T
    <3>. QED BY <1>2, <1>3, <1>5 DEF TitleShown
  <2>2. T \subseteq Nat /\ text[t] \in DocLine
    BY <1>1
  <2>3. TitleOf(text, name) = text[t]
    BY <1>1, <2>1, <2>2 DEF TitleOf, p
  <2>4. (CHOOSE i \in T : \A j \in T : i =< j) = t
    <3>. HIDE DEF T
    <3>1. \A i \in T : (\A j \in T : i =< j) <=> i = t
      BY <2>1, <2>2
    <3>. QED BY <3>1
  <2>5. \A h : Above(text, name, h) =
          {text[h], IF T = {} THEN SpecOf(name).title ELSE text[CHOOSE i \in T : \A j \in T : i =< j]}
    BY Zenon DEF Above
  <2>. HIDE DEF T
  <2>6. \A h : Above(text, name, h) = {text[h], TitleOf(text, name)}
    BY <1>5, <2>3, <2>4, <2>5
  <2>. QED BY <2>2, <2>3, <2>6
<1>. QED BY <1>4, <1>5

\* What is searched of a chunk: its body, and at most its title and heading.
LEMMA WordsAre ==
  ASSUME NEW body \in Seq(DocLine), NEW heading \in DocLine, NEW title \in DocLine, NEW k \in Nat
  PROVE  LET s == Section([order |-> k, title |-> title, heading |-> heading, body |-> body])
             L == LinesOf(body)
         IN  /\ s \in SectionType /\ s.heading = heading
             /\ TermsOf(L) \subseteq s.terms
             /\ s.terms \subseteq TermsOf(L \cup {heading, title})
             /\ ~ heading.stop /\ ~ title.stop => s.terms = TermsOf(L)
<1>. DEFINE c == [order |-> k, title |-> title, heading |-> heading, body |-> body]
            L == LinesOf(body)
            V == UNION {l.words : l \in L}
            W == SearchedWords(c)
            A == UNION {l.words : l \in L \cup {heading, title}}
<1>1. /\ c.order = k /\ c.title = title /\ c.heading = heading /\ c.body = body
  OBVIOUS
<1>2. \A l \in DocLine : /\ l.words \in SUBSET SUBSET Match /\ l.late \subseteq l.words
                         /\ ~ l.stop => l.late = {}
  BY DEF DocLine
<1>3. L \subseteq DocLine
  <2>1. \A i \in DOMAIN body : body[i] \in DocLine
    OBVIOUS
  <2>. QED BY <2>1 DEF LinesOf
<1>4. WordsIn(body) = V
  BY DEF WordsIn, LinesOf
<1>5. W = V \cup (IF title.stop THEN title.late \cup heading.words ELSE heading.late)
  <2>. HIDE DEF c, V
  <2>. QED BY <1>1, <1>4 DEF SearchedWords
<1>. HIDE DEF W, L
<1>6. V \subseteq W
  <2>. HIDE DEF V
  <2>. QED BY <1>5
<1>7. A = V \cup heading.words \cup title.words
  OBVIOUS
<1>8. W \subseteq A /\ W \in SUBSET SUBSET Match
  <2>1. A \in SUBSET SUBSET Match
    BY <1>2, <1>3
  <2>2. W \subseteq A
    <3>. HIDE DEF A, V
    <3>. QED BY <1>2, <1>5, <1>7
  <2>. HIDE DEF A
  <2>. QED BY <2>1, <2>2
<1>9. ~ heading.stop /\ ~ title.stop => W = V
  <2>. HIDE DEF V
  <2>. QED BY <1>2, <1>5
<1>10. Section(c) = [order |-> k, heading |-> heading, terms |-> ExtractTerms(W)]
  BY DEF Section, W
<1>11. TermsOf(L) = ExtractTerms(V) /\ TermsOf(L \cup {heading, title}) = ExtractTerms(A)
  BY DEF TermsOf
<1>. HIDE DEF V, A
<1>12. ExtractTerms(W) \in SUBSET Term
  BY <1>8, TermsTyped
<1>13. ExtractTerms(V) \subseteq ExtractTerms(W) /\ ExtractTerms(W) \subseteq ExtractTerms(A)
  BY <1>6, <1>8, MoreWords
<1>. DEFINE s == Section(c)
<1>14. s \in SectionType /\ s.heading = heading /\ s.terms = ExtractTerms(W)
  BY <1>10, <1>12 DEF SectionType
<1>. HIDE DEF s
<1>15. /\ s \in SectionType /\ s.heading = heading
       /\ TermsOf(L) \subseteq s.terms
       /\ s.terms \subseteq TermsOf(L \cup {heading, title})
       /\ ~ heading.stop /\ ~ title.stop => s.terms = TermsOf(L)
  BY <1>9, <1>11, <1>13, <1>14
<1>. QED BY <1>15 DEF s, c, L

LEMMA SectionsAre ==
  ASSUME NEW text \in Seq(DocLine), NEW name \in SpecNames
  PROVE  LET chunks == ChunkDocument(ParseMarkdown(text), SpecOf(name))
             found == [k \in DOMAIN chunks |-> Section(chunks[k])]
         IN  found \in Seq(SectionType) /\ SectionsFor(text, name, found)
<1>. DEFINE chunks == ChunkDocument(ParseMarkdown(text), SpecOf(name))
            found == [k \in DOMAIN chunks |-> Section(chunks[k])]
            b == ParseMarkdown(text).blocks
            t == TitleOf(text, name)
            c(k) == [order |-> k - 1, title |-> t, heading |-> b[k].heading, body |-> b[k].body]
<1>1. b \in Seq(Block) /\ BlocksFor(text, b, Headings(text))
  BY ParsedIs
<1>2. t \in DocLine /\ \A h : Above(text, name, h) = {text[h], t}
  BY TitleIs
<1>3. chunks = [k \in DOMAIN b |-> c(k)]
  BY DEF ChunkDocument, TitleOf
<1>. HIDE DEF b, t, chunks
<1>4. DOMAIN b = 1 .. Len(b) /\ Len(b) \in Nat
  BY <1>1
<1>5. found = [k \in 1 .. Len(b) |-> Section(c(k))]
  <2>1. DOMAIN chunks = 1 .. Len(b) /\ \A k \in 1 .. Len(b) : chunks[k] = c(k)
    <3>. HIDE DEF c
    <3>. QED BY <1>3, <1>4
  <2>. HIDE DEF c
  <2>. QED BY <2>1
<1>6. ASSUME NEW k \in 1 .. Len(b)
      PROVE  LET s == Section(c(k))
                 L == LinesOf(b[k].body)
             IN  /\ s \in SectionType /\ s.heading = b[k].heading
                 /\ TermsOf(L) \subseteq s.terms
                 /\ s.terms \subseteq TermsOf(L \cup {b[k].heading, t})
                 /\ ~ b[k].heading.stop /\ ~ t.stop => s.terms = TermsOf(L)
  <2>1. b[k] \in Block
    BY <1>1, <1>4
  <2>. DEFINE heading == b[k].heading
              body == b[k].body
              j == k - 1
  <2>2. heading \in DocLine /\ body \in Seq(DocLine)
    BY <2>1 DEF Block
  <2>3. j \in Nat
    BY <1>4
  <2>. HIDE DEF heading, body, j
  <2>4. LET s == Section([order |-> j, title |-> t, heading |-> heading, body |-> body])
            L == LinesOf(body)
        IN  /\ s \in SectionType /\ s.heading = heading
            /\ TermsOf(L) \subseteq s.terms
            /\ s.terms \subseteq TermsOf(L \cup {heading, t})
            /\ ~ heading.stop /\ ~ t.stop => s.terms = TermsOf(L)
    BY <1>2, <2>2, <2>3, WordsAre
  <2>. QED BY <2>4 DEF heading, body, j
<1>. HIDE DEF c, found
<1>7. found \in Seq(SectionType) /\ Len(found) = Len(b) /\ \A k \in 1 .. Len(b) : found[k] = Section(c(k))
  <2>1. \A k \in 1 .. Len(b) : Section(c(k)) \in SectionType
    BY <1>6
  <2>. HIDE DEF SectionType
  <2>2. found \in [1 .. Len(b) -> SectionType]
    BY <1>5, <2>1
  <2>. QED BY <1>4, <1>5, <2>2
<1>8. ASSUME NEW h \in Headings(text)
      PROVE  /\ Place(text, h) \in 1 .. Len(found)
             /\ found[Place(text, h)].heading = text[h]
             /\ TermsOf(Body(text, h)) \subseteq found[Place(text, h)].terms
             /\ found[Place(text, h)].terms \subseteq TermsOf(Body(text, h) \cup Above(text, name, h))
             /\ (\A l \in Above(text, name, h) : ~ l.stop) =>
                  found[Place(text, h)].terms = TermsOf(Body(text, h))
  <2>. DEFINE k == Place(text, h)
  <2>1. k \in 1 .. Len(b) /\ b[k].heading = text[h] /\ LinesOf(b[k].body) = Body(text, h)
    BY <1>1 DEF BlocksFor
  <2>2. Above(text, name, h) = {b[k].heading, t}
    BY <1>2, <2>1
  <2>. HIDE DEF k
  <2>3. (\A l \in Above(text, name, h) : ~ l.stop) => ~ b[k].heading.stop /\ ~ t.stop
    BY <2>2
  <2>4. /\ Section(c(k)).heading = b[k].heading
        /\ TermsOf(Body(text, h)) \subseteq Section(c(k)).terms
        /\ Section(c(k)).terms \subseteq TermsOf(Body(text, h) \cup {b[k].heading, t})
        /\ ~ b[k].heading.stop /\ ~ t.stop => Section(c(k)).terms = TermsOf(Body(text, h))
    BY <1>6, <2>1
  <2>5. /\ k \in 1 .. Len(found)
        /\ found[k].heading = text[h]
        /\ TermsOf(Body(text, h)) \subseteq found[k].terms
        /\ found[k].terms \subseteq TermsOf(Body(text, h) \cup Above(text, name, h))
        /\ (\A l \in Above(text, name, h) : ~ l.stop) => found[k].terms = TermsOf(Body(text, h))
    BY <1>7, <2>1, <2>2, <2>3, <2>4
  <2>. QED BY <2>5 DEF k
<1>9. SectionsFor(text, name, found)
  <2>1. /\ Len(b) = Cardinality(Headings(text))
        /\ \A k \in 1 .. Len(b) : \E h \in Headings(text) : Place(text, h) = k
    BY <1>1 DEF BlocksFor
  <2>. QED BY <1>7, <1>8, <2>1 DEF SectionsFor
<1>. QED BY <1>7, <1>9 DEF found, chunks

DocJobs == {NoJob, MarkCompleted, MarkFailed("FetchError"), MarkFailed("ParseError")}

\* A text an author may have written.
TextFits(text) == text \in Seq(DocLine) /\ Len(text) =< MaxDocLines

\* What the table has of a version and a source is the text of their last
\* completed job, in sections.
DocInv ==
  /\ DOMAIN file = SpecNames
  /\ \A name \in SpecNames : file[name] = Missing \/ TextFits(file[name])
  /\ ingested \in [Builds -> [SpecNames -> Seq(DocLine)]]
  /\ sections \in [Builds -> [SpecNames -> Seq(SectionType)]]
  /\ \A x \in Builds, name \in SpecNames :
       /\ Len(ingested[x][name]) =< MaxDocLines
       /\ SectionsFor(ingested[x][name], name, sections[x][name])
  /\ job \in DocJobs

LEMMA DocInitially == DocInit => DocInv
<1>. SUFFICES ASSUME DocInit PROVE DocInv
  OBVIOUS
<1>1. /\ DOMAIN file = SpecNames
      /\ \A name \in SpecNames : file[name] = Missing \/ TextFits(file[name])
  BY SourceAssumption DEF DocInit, TextFits
<1>2. <<>> \in Seq(DocLine) /\ <<>> \in Seq(SectionType) /\ Len(<<>>) = 0 /\ 1 .. 0 = {}
      /\ MaxDocLines \in Nat
  BY SourceAssumption
<1>3. /\ ingested = [x \in Builds |-> [name \in SpecNames |-> <<>>]]
      /\ sections = [x \in Builds |-> [name \in SpecNames |-> <<>>]]
      /\ job \in DocJobs
  BY DEF DocInit, NoSections, DocJobs
<1>4. \A x \in Builds, name \in SpecNames : ingested[x][name] = <<>> /\ sections[x][name] = <<>>
  BY <1>3
<1>5. \A name \in SpecNames : SectionsFor(<<>>, name, <<>>)
  <2>1. Headings(<<>>) = {} /\ Cardinality({}) = 0
    BY <1>2, FS_EmptySet DEF Headings
  <2>. QED BY <1>2, <2>1 DEF SectionsFor
<1>6. /\ ingested \in [Builds -> [SpecNames -> Seq(DocLine)]]
      /\ sections \in [Builds -> [SpecNames -> Seq(SectionType)]]
  <2>. HIDE DEF SectionType
  <2>. QED BY <1>2, <1>3
<1>7. \A x \in Builds, name \in SpecNames :
        /\ Len(ingested[x][name]) =< MaxDocLines
        /\ SectionsFor(ingested[x][name], name, sections[x][name])
  BY <1>2, <1>4, <1>5
<1>. QED BY <1>1, <1>3, <1>6, <1>7 DEF DocInv

LEMMA LineStep ==
  ASSUME DocInv, NEW name \in SpecNames, NEW l \in DocLines, WriteDocLine(name, l)
  PROVE  DocInv'
<1>. DEFINE text == file[name]
            more == Append(text, l)
<1>1. file' = [file EXCEPT ![name] = more] /\ TextFits(text) /\ Len(text) < MaxDocLines
  BY DEF WriteDocLine, DocInv
<1>2. more \in Seq(DocLine) /\ Len(more) = Len(text) + 1 /\ Len(text) \in Nat /\ MaxDocLines \in Nat
  <2>. HIDE DEF text
  <2>. QED BY <1>1, SourceAssumption DEF TextFits
<1>3. TextFits(more)
  BY <1>1, <1>2 DEF TextFits
<1>. HIDE DEF more
<1>4. /\ DOMAIN file' = SpecNames
      /\ \A s \in SpecNames : file'[s] = Missing \/ TextFits(file'[s])
  BY <1>1, <1>3 DEF DocInv
<1>. QED BY <1>4 DEF WriteDocLine, DocInv

LEMMA JobStep ==
  ASSUME DocInv, NEW x \in Builds, NEW name \in SpecNames, RunJob(x, name)
  PROVE  DocInv'
<1>1. CASE FetchFails(x, name) \/ ParseFails(x, name)
  <2>1. UNCHANGED <<file, sections, ingested>> /\ job' \in DocJobs
    BY <1>1 DEF FetchFails, ParseFails, DocJobs
  <2>. QED BY <2>1 DEF DocInv
<1>2. CASE Materialize(x, name)
  <2>. DEFINE text == file[name]
              chunks == ChunkDocument(ParseMarkdown(text), SpecOf(name))
              found == [k \in DOMAIN chunks |-> Section(chunks[k])]
  <2>1. /\ sections' = [sections EXCEPT ![x][name] = found]
        /\ ingested' = [ingested EXCEPT ![x][name] = text]
        /\ file' = file /\ job' \in DocJobs
    BY <1>2 DEF Materialize, DocJobs
  <2>2. TextFits(text)
    BY <1>2 DEF Materialize, Fetches, DocInv
  <2>3. text \in Seq(DocLine) /\ Len(text) =< MaxDocLines
    BY <2>2 DEF TextFits
  <2>. HIDE DEF text
  <2>4. found \in Seq(SectionType) /\ SectionsFor(text, name, found)
    BY <2>3, SectionsAre
  <2>. HIDE DEF found
  <2>5. /\ sections \in [Builds -> [SpecNames -> Seq(SectionType)]]
        /\ ingested \in [Builds -> [SpecNames -> Seq(DocLine)]]
    BY DEF DocInv
  <2>6. /\ sections' \in [Builds -> [SpecNames -> Seq(SectionType)]]
        /\ \A y \in Builds, s \in SpecNames :
             sections'[y][s] = IF y = x /\ s = name THEN found ELSE sections[y][s]
    <3>. DEFINE T == Seq(SectionType)
    <3>1. found \in T /\ sections \in [Builds -> [SpecNames -> T]]
      BY <2>4, <2>5
    <3>. HIDE DEF T
    <3>2. sections' \in [Builds -> [SpecNames -> T]]
      BY <2>1, <3>1
    <3>3. \A y \in Builds, s \in SpecNames :
            sections'[y][s] = IF y = x /\ s = name THEN found ELSE sections[y][s]
      BY <2>1, <3>1
    <3>. QED BY <3>2, <3>3 DEF T
  <2>7. /\ ingested' \in [Builds -> [SpecNames -> Seq(DocLine)]]
        /\ \A y \in Builds, s \in SpecNames :
             ingested'[y][s] = IF y = x /\ s = name THEN text ELSE ingested[y][s]
    <3>. DEFINE T == Seq(DocLine)
    <3>1. text \in T /\ ingested \in [Builds -> [SpecNames -> T]]
      BY <2>3, <2>5
    <3>. HIDE DEF T
    <3>2. ingested' \in [Builds -> [SpecNames -> T]]
      BY <2>1, <3>1
    <3>3. \A y \in Builds, s \in SpecNames :
            ingested'[y][s] = IF y = x /\ s = name THEN text ELSE ingested[y][s]
      BY <2>1, <3>1
    <3>. QED BY <3>2, <3>3 DEF T
  <2>8. \A y \in Builds, s \in SpecNames :
          /\ Len(ingested'[y][s]) =< MaxDocLines
          /\ SectionsFor(ingested'[y][s], s, sections'[y][s])
    <3>1. \A y \in Builds, s \in SpecNames :
            /\ Len(ingested[y][s]) =< MaxDocLines
            /\ SectionsFor(ingested[y][s], s, sections[y][s])
      BY DEF DocInv
    <3>. QED BY <2>3, <2>4, <2>6, <2>7, <3>1
  <2>9. /\ DOMAIN file' = SpecNames
        /\ \A s \in SpecNames : file'[s] = Missing \/ TextFits(file'[s])
    BY <2>1 DEF DocInv
  <2>. QED BY <2>1, <2>6, <2>7, <2>8, <2>9 DEF DocInv
<1>. QED BY <1>1, <1>2 DEF RunJob

LEMMA DocStep == DocInv /\ [DocNext]_docVars => DocInv'
<1>. SUFFICES ASSUME DocInv, [DocNext]_docVars PROVE DocInv'
  OBVIOUS
<1>1. ASSUME NEW name \in SpecNames, LoseFile(name) PROVE DocInv'
  <2>1. /\ DOMAIN file' = SpecNames
        /\ \A s \in SpecNames : file'[s] = Missing \/ TextFits(file'[s])
    BY <1>1 DEF LoseFile, DocInv
  <2>. QED BY <1>1, <2>1 DEF LoseFile, DocInv
<1>2. ASSUME NEW name \in SpecNames, NEW l \in DocLines, WriteDocLine(name, l) PROVE DocInv'
  BY <1>2, LineStep
<1>3. ASSUME NEW x \in Builds, NEW name \in SpecNames, RunJob(x, name) PROVE DocInv'
  BY <1>3, JobStep
<1>4. CASE UNCHANGED docVars
  BY <1>4 DEF docVars, DocInv
<1>. QED BY <1>1, <1>2, <1>3, <1>4 DEF DocNext

LEMMA DocHeld == DocSpec => []DocInv
BY DocInitially, DocStep, PTL DEF DocSpec

\* Type correctness: the texts are lines, the sections of a version have
\* headings, and a job has one of the outcomes of the worker.
THEOREM DocTyped == DocSpec => []DocTypeOK
<1>1. DocInv => DocTypeOK
  <2>. SUFFICES ASSUME DocInv PROVE DocTypeOK
    OBVIOUS
  <2>1. ASSUME NEW x \in Builds, NEW name \in SpecNames
        PROVE  /\ ingested[x][name] \in Seq(DocLine)
               /\ \A k \in DOMAIN sections[x][name] : sections[x][name][k].heading \in DocLine
    <3>. DEFINE found == sections[x][name]
    <3>1. ingested[x][name] \in Seq(DocLine) /\ found \in Seq(SectionType)
      BY DEF DocInv
    <3>. HIDE DEF found
    <3>2. \A k \in DOMAIN found : found[k] \in SectionType
      BY <3>1
    <3>3. \A s \in SectionType : s.heading \in DocLine
      BY DEF SectionType
    <3>. QED BY <3>1, <3>2, <3>3 DEF found
  <2>. QED BY <2>1 DEF DocTypeOK, DocInv, TextFits, DocJobs
<1>. QED BY <1>1, DocHeld, PTL

RowKeys == ((Builds \X SpecNames) \X (1 .. MaxDocLines)) \X TermTypes

RowOf(text, p) ==
  [version |-> p[1][1][1], source |-> p[1][1][2], area |-> AreaOf(p[1][1][2]),
   chunk |-> p[1][2], term |-> [text |-> text, type |-> p[2]]]

LEMMA KeysAreFinite == IsFiniteSet(RowKeys)
<1>1. IsFiniteSet(TermTypes)
  <2>1. IsFiniteSet({"flag"})
    BY FS_Singleton
  <2>2. IsFiniteSet({"flag"} \cup {"slash_command"})
    BY <2>1, FS_AddElement
  <2>3. IsFiniteSet({"flag", "slash_command"} \cup {"environment_variable"})
    BY <2>2, FS_AddElement
  <2>4. IsFiniteSet({"flag", "slash_command", "environment_variable"} \cup {"api_parameter"})
    BY <2>3, FS_AddElement
  <2>5. IsFiniteSet({"flag", "slash_command", "environment_variable", "api_parameter"}
                      \cup {"file_name"})
    BY <2>4, FS_AddElement
  <2>6. IsFiniteSet({"flag", "slash_command", "environment_variable", "api_parameter", "file_name"}
                      \cup {"error_message"})
    BY <2>5, FS_AddElement
  <2>7. IsFiniteSet({"flag", "slash_command", "environment_variable", "api_parameter", "file_name",
                     "error_message"} \cup {"model_name"})
    BY <2>6, FS_AddElement
  <2>8. IsFiniteSet({"flag", "slash_command", "environment_variable", "api_parameter", "file_name",
                     "error_message", "model_name"} \cup {"config_key"})
    BY <2>7, FS_AddElement
  <2>. QED BY <2>8 DEF TermTypes
<1>2. IsFiniteSet(SpecNames)
  <2>. DEFINE n == Len(Specs)
              f == [i \in 1 .. n |-> Specs[i].name]
  <2>1. 1 \in Int /\ n \in Int /\ DOMAIN Specs = 1 .. n
    BY SourceAssumption
  <2>2. f \in Surjection(1 .. n, SpecNames)
    BY <2>1 DEF Surjection, SpecNames
  <2>. HIDE DEF n, f
  <2>3. IsFiniteSet(1 .. n)
    BY <2>1, FS_Interval
  <2>. QED BY <2>2, <2>3, FS_Surjection
<1>3. IsFiniteSet(1 .. MaxDocLines)
  <2>1. 1 \in Int /\ MaxDocLines \in Int
    BY SourceAssumption
  <2>. QED BY <2>1, FS_Interval
<1>4. IsFiniteSet(Builds \X SpecNames)
  BY <1>2, FS_Product, SourceAssumption
<1>5. IsFiniteSet((Builds \X SpecNames) \X (1 .. MaxDocLines))
  BY <1>3, <1>4, FS_Product
<1>. QED BY <1>1, <1>5, FS_Product DEF RowKeys

\* A row is a term of a section of a version and a source.
TermRow(x, name, k, t) ==
  [version |-> x, source |-> name, area |-> AreaOf(name), chunk |-> k, term |-> t]

LEMMA RowsAre ==
  ASSUME DocInv
  PROVE  /\ \A r \in Rows : \E x \in Builds, name \in SpecNames :
              \E k \in 1 .. Len(sections[x][name]) :
                \E t \in sections[x][name][k].terms : r = TermRow(x, name, k, t)
         /\ \A x \in Builds, name \in SpecNames : \A k \in 1 .. Len(sections[x][name]) :
              \A t \in sections[x][name][k].terms : TermRow(x, name, k, t) \in Rows
<1>1. ASSUME NEW x \in Builds, NEW name \in SpecNames
      PROVE  DOMAIN sections[x][name] = 1 .. Len(sections[x][name])
  <2>. DEFINE found == sections[x][name]
  <2>1. found \in Seq(SectionType)
    BY DEF DocInv
  <2>. HIDE DEF found
  <2>2. DOMAIN found = 1 .. Len(found)
    BY <2>1
  <2>. QED BY <2>2 DEF found
<1>2. ASSUME NEW x \in Builds, NEW name \in SpecNames
      PROVE  RowsOf(x, name) =
               UNION {{TermRow(x, name, k, t) : t \in sections[x][name][k].terms} :
                        k \in DOMAIN sections[x][name]}
  BY Zenon DEF RowsOf, TermRow
<1>3. ASSUME NEW r \in Rows
      PROVE  \E x \in Builds, name \in SpecNames : \E k \in 1 .. Len(sections[x][name]) :
               \E t \in sections[x][name][k].terms : r = TermRow(x, name, k, t)
  <2>1. PICK x \in Builds, name \in SpecNames : r \in RowsOf(x, name)
    BY <1>3 DEF Rows
  <2>2. PICK k \in DOMAIN sections[x][name] :
          r \in {TermRow(x, name, k, t) : t \in sections[x][name][k].terms}
    BY <1>2, <2>1
  <2>. QED BY <1>1, <2>2
<1>4. ASSUME NEW x \in Builds, NEW name \in SpecNames, NEW k \in 1 .. Len(sections[x][name]),
             NEW t \in sections[x][name][k].terms
      PROVE  TermRow(x, name, k, t) \in Rows
  <2>1. k \in DOMAIN sections[x][name]
    BY <1>1
  <2>2. TermRow(x, name, k, t) \in RowsOf(x, name)
    BY <1>2, <2>1
  <2>. QED BY <2>2 DEF Rows
<1>. QED BY <1>3, <1>4

\* The sections of a version and a source are few, and their terms typed.
LEMMA SectionsFit ==
  ASSUME DocInv, NEW x \in Builds, NEW name \in SpecNames
  PROVE  /\ Len(sections[x][name]) \in 0 .. MaxDocLines
         /\ \A k \in 1 .. Len(sections[x][name]) : sections[x][name][k].terms \subseteq Term
<1>. DEFINE text == ingested[x][name]
            found == sections[x][name]
<1>1. text \in Seq(DocLine) /\ found \in Seq(SectionType)
  BY DEF DocInv
<1>2. Len(text) =< MaxDocLines /\ Len(found) = Cardinality(Headings(text))
  BY DEF DocInv, SectionsFor
<1>. HIDE DEF text, found
<1>3. Cardinality(Headings(text)) \in 0 .. Len(text) /\ Len(text) \in Nat
  BY <1>1, HeadingsAre
<1>4. Len(found) \in 0 .. MaxDocLines
  BY <1>2, <1>3, SourceAssumption
<1>5. \A k \in 1 .. Len(found) : found[k] \in SectionType
  BY <1>1
<1>6. \A s \in SectionType : s.terms \subseteq Term
  BY DEF SectionType
<1>. QED BY <1>4, <1>5, <1>6 DEF found

LEMMA MatchesAreFinite ==
  ASSUME DocInv, NEW text, NEW area, NEW types, NEW versions
  PROVE  IsFiniteSet(Matching(text, area, types, versions))
<1>. DEFINE M == Matching(text, area, types, versions)
            R == {RowOf(text, p) : p \in RowKeys}
            f == [p \in RowKeys |-> RowOf(text, p)]
<1>1. f \in Surjection(RowKeys, R)
  <2>. HIDE DEF RowKeys, RowOf
  <2>. QED BY DEF Surjection
<1>2. IsFiniteSet(R)
  <2>. HIDE DEF f, R
  <2>. QED BY <1>1, KeysAreFinite, FS_Surjection
<1>3. ASSUME NEW r \in M PROVE r \in R
  <2>1. r \in Rows /\ r.term.text = text
    BY <1>3 DEF Matching
  <2>2. PICK x \in Builds, name \in SpecNames : \E k \in 1 .. Len(sections[x][name]) :
          \E t \in sections[x][name][k].terms : r = TermRow(x, name, k, t)
    BY <2>1, RowsAre
  <2>3. PICK k \in 1 .. Len(sections[x][name]) :
          \E t \in sections[x][name][k].terms : r = TermRow(x, name, k, t)
    BY <2>2
  <2>9. PICK t \in sections[x][name][k].terms : r = TermRow(x, name, k, t)
    BY <2>3
  <2>4. t \in Term /\ k \in 1 .. MaxDocLines
    BY SectionsFit, SourceAssumption
  <2>5. t = [text |-> text, type |-> t.type] /\ t.type \in TermTypes
    BY <2>1, <2>4, <2>9 DEF Term, TermRow
  <2>. DEFINE p == <<<<<<x, name>>, k>>, t.type>>
  <2>6. p \in RowKeys
    BY <2>4, <2>5 DEF RowKeys
  <2>7. RowOf(text, p) = r
    BY <2>5, <2>9 DEF RowOf, TermRow
  <2>. QED BY <2>6, <2>7
<1>. HIDE DEF M, R
<1>4. M \in SUBSET R
  BY <1>3
<1>5. IsFiniteSet(M)
  BY <1>2, <1>4, FS_Subset
<1>. QED BY <1>5 DEF M

\* What a search finds, in the versions it reads.
LEMMA SearchHits ==
  ASSUME DocInv, NEW text, NEW area, NEW version, NEW versions, NEW limit,
         NEW hits \in SearchExact(text, area, TermTypes, version, versions, limit)
  PROVE  LET rows == Matching(text, area, TermTypes, Asked(version, versions))
         IN  hits \subseteq rows /\ (Cardinality(hits) < limit => hits = rows)
<1>. DEFINE rows == Matching(text, area, TermTypes, Asked(version, versions))
            n == IF Cardinality(rows) < limit THEN Cardinality(rows) ELSE limit
<1>1. limit \in 1 .. MaxResults /\ hits \in {h \in SUBSET rows : Cardinality(h) = n}
  BY DEF SearchExact, ExactLookup
<1>2. IsFiniteSet(rows)
  BY MatchesAreFinite
<1>. HIDE DEF rows
<1>3. hits \in SUBSET rows /\ Cardinality(hits) = n
  BY <1>1
<1>4. ASSUME Cardinality(hits) < limit PROVE hits = rows
  <2>1. limit \in Int
    BY <1>1
  <2>2. Cardinality(rows) \in Nat
    BY <1>2, FS_CardinalityType
  <2>3. Cardinality(hits) = Cardinality(rows)
    BY <1>3, <1>4, <2>1, <2>2
  <2>. QED BY <1>2, <1>3, <2>3, FS_Subset
<1>. QED BY <1>3, <1>4 DEF rows

LEMMA SearchIsRight ==
  ASSUME DocInv, NEW text, NEW area, NEW version, NEW versions,
         version \in Builds \/ (version = Served /\ versions \subseteq Builds), NEW limit
  PROVE  SearchFinds(text, area, version, versions, limit)
<1>. DEFINE A == IF version \in Builds THEN {version} ELSE versions
<1>1. Asked(version, versions) = A /\ A \subseteq Builds
  BY SourceAssumption DEF Asked
<1>. HIDE DEF A
<1>2. SUFFICES ASSUME NEW hits \in SearchExact(text, area, TermTypes, version, versions, limit)
      PROVE  /\ \A r \in hits :
                  LET doc == ingested[r.version][r.source] IN
                  /\ r.version \in A
                  /\ AreaOf(r.source) = area
                  /\ \E h \in Headings(doc) :
                       /\ Place(doc, h) = r.chunk
                       /\ text \in TextsIn(Body(doc, h) \cup Above(doc, r.source, h))
             /\ Cardinality(hits) < limit =>
                  \A x \in A, name \in SpecNames :
                    \A h \in Headings(ingested[x][name]) :
                      AreaOf(name) = area /\ text \in TextsIn(Body(ingested[x][name], h)) =>
                        \E r \in hits : /\ r.version = x /\ r.source = name
                                        /\ r.chunk = Place(ingested[x][name], h)
  BY DEF SearchFinds, A
<1>. DEFINE rows == Matching(text, area, TermTypes, A)
<1>3. hits \subseteq rows /\ (Cardinality(hits) < limit => hits = rows)
  BY <1>1, SearchHits
<1>4. ASSUME NEW r \in rows
      PROVE  LET doc == ingested[r.version][r.source] IN
             /\ r.version \in A
             /\ AreaOf(r.source) = area
             /\ \E h \in Headings(doc) :
                  /\ Place(doc, h) = r.chunk
                  /\ text \in TextsIn(Body(doc, h) \cup Above(doc, r.source, h))
  <2>1. r \in Rows /\ r.term.text = text /\ r.area = area /\ r.version \in A
    BY <1>4 DEF Matching
  <2>2. PICK x \in Builds, name \in SpecNames : \E k \in 1 .. Len(sections[x][name]) :
          \E t \in sections[x][name][k].terms : r = TermRow(x, name, k, t)
    BY <2>1, RowsAre
  <2>3. PICK k \in 1 .. Len(sections[x][name]) :
          \E t \in sections[x][name][k].terms : r = TermRow(x, name, k, t)
    BY <2>2
  <2>9. PICK t \in sections[x][name][k].terms : r = TermRow(x, name, k, t)
    BY <2>3
  <2>. DEFINE doc == ingested[x][name]
  <2>4. r.version = x /\ r.source = name /\ r.chunk = k /\ r.term = t /\ r.area = AreaOf(name)
    BY <2>9 DEF TermRow
  <2>5. SectionsFor(doc, name, sections[x][name])
    BY DEF DocInv
  <2>. HIDE DEF doc
  <2>6. PICK h \in Headings(doc) : Place(doc, h) = k
    BY <2>5 DEF SectionsFor
  <2>7. t \in TermsOf(Body(doc, h) \cup Above(doc, name, h))
    BY <2>5, <2>6, <2>9 DEF SectionsFor
  <2>8. text \in TextsIn(Body(doc, h) \cup Above(doc, name, h))
    BY <2>1, <2>4, <2>7 DEF TextsIn
  <2>. QED BY <2>1, <2>4, <2>6, <2>8 DEF doc
<1>5. ASSUME NEW x \in A, NEW name \in SpecNames, NEW h \in Headings(ingested[x][name]),
             AreaOf(name) = area, text \in TextsIn(Body(ingested[x][name], h))
      PROVE  \E r \in rows : /\ r.version = x /\ r.source = name
                             /\ r.chunk = Place(ingested[x][name], h)
  <2>. DEFINE doc == ingested[x][name]
              k == Place(doc, h)
  <2>0. x \in Builds
    BY <1>1
  <2>1. SectionsFor(doc, name, sections[x][name])
    BY <2>0 DEF DocInv
  <2>2. PICK t \in TermsOf(Body(doc, h)) : t.text = text
    BY <1>5 DEF TextsIn
  <2>3. k \in 1 .. Len(sections[x][name]) /\ t \in sections[x][name][k].terms
    BY <2>1, <2>2 DEF SectionsFor
  <2>4. t \in Term
    BY <2>0, <2>3, SectionsFit
  <2>. HIDE DEF doc, k
  <2>. DEFINE r == TermRow(x, name, k, t)
  <2>5. r \in Rows
    BY <2>0, <2>3, RowsAre
  <2>6. r.version = x /\ r.source = name /\ r.chunk = k /\ r.term = t /\ r.area = area
    BY <1>5 DEF TermRow
  <2>. HIDE DEF r
  <2>7. r.term.type \in TermTypes
    BY <2>4, <2>6 DEF Term
  <2>8. r \in rows
    BY <2>2, <2>5, <2>6, <2>7 DEF Matching
  <2>. QED BY <2>6, <2>8 DEF k, doc
<1>. HIDE DEF rows
<1>6. ASSUME NEW r \in hits
      PROVE  LET doc == ingested[r.version][r.source] IN
             /\ r.version \in A
             /\ AreaOf(r.source) = area
             /\ \E h \in Headings(doc) :
                  /\ Place(doc, h) = r.chunk
                  /\ text \in TextsIn(Body(doc, h) \cup Above(doc, r.source, h))
  <2>1. r \in rows
    BY <1>3
  <2>. QED BY <1>4, <2>1
<1>7. ASSUME Cardinality(hits) < limit,
             NEW x \in A, NEW name \in SpecNames, NEW h \in Headings(ingested[x][name]),
             AreaOf(name) = area /\ text \in TextsIn(Body(ingested[x][name], h))
      PROVE  \E r \in hits : /\ r.version = x /\ r.source = name
                             /\ r.chunk = Place(ingested[x][name], h)
  <2>1. hits = rows
    BY <1>3, <1>7
  <2>. QED BY <1>5, <1>7, <2>1
<1>. QED BY <1>6, <1>7

\* What a version has of a source are the sections of the text ingested last,
\* each with the terms of its body, and an exact search of it finds every
\* section whose body has the term and none that has it nowhere.
THEOREM EverySectionIsFound == DocSpec => []SectionsAreFound
<1>1. DocInv => SectionsAreFound
  <2>. SUFFICES ASSUME DocInv PROVE SectionsAreFound
    OBVIOUS
  <2>1. ASSUME NEW x \in Builds, NEW name \in SpecNames
        PROVE  LET text == ingested[x][name]
                   found == sections[x][name]
               IN  /\ Len(found) = Cardinality(Headings(text))
                   /\ \A h \in Headings(text) :
                        /\ found[Place(text, h)].heading = text[h]
                        /\ (\A l \in Above(text, name, h) : ~ l.stop) =>
                             found[Place(text, h)].terms = TermsOf(Body(text, h))
    <3>1. SectionsFor(ingested[x][name], name, sections[x][name])
      BY DEF DocInv
    <3>. QED BY <3>1 DEF SectionsFor
  <2>2. ASSUME NEW text, NEW area, NEW limit
        PROVE  /\ \A x \in Builds : SearchFinds(text, area, x, {}, limit)
               /\ SearchFinds(text, area, Served, Builds, limit)
    BY SearchIsRight
  <2>. QED BY <2>1, <2>2 DEF SectionsAreFound
<1>. QED BY <1>1, DocHeld, PTL

----------------------------------------------------------------------------
(* AnswerPath.                                                             *)

(* Shapes of records.                                                      *)

IsAsk(r) ==
  r = [phase |-> r.phase, question |-> r.question, query |-> r.query, areas |-> r.areas,
       intent |-> r.intent, anywhere |-> r.anywhere, found |-> r.found, text |-> r.text]

\* A question that names a product is asked as it is, of the products it names.
AsItIs(question, query, areas) ==
  \A q \in Questions :
    q.id = question /\ Supported(q.names) /\ q.shape # "greeting" =>
      query.text = <<q.id>> /\ areas \in {DomainsOf(q.names), {DomainOf(q.names)}}

WellCarded(cards, shown, hits) ==
  cards = shown /\ cards # {} /\ cards \subseteq 1 .. hits

\* A request keeps the topic of its question from its routing on; what is kept
\* has its cards and is filed under the question it answers.
PathInv ==
  /\ asking = [s \in Conversations |-> asking[s]]
  /\ \A s \in Conversations :
       /\ IsAsk(asking[s])
       /\ asking[s].phase # "idle" => \E q \in Questions : q.id = asking[s].question
       /\ asking[s].phase \notin {"idle", "begun"} =>
            AsItIs(asking[s].question, asking[s].query, asking[s].areas)
       /\ asking[s].text = Refusal \/ asking[s].text \in Texts
  /\ \A e \in kept : WellCarded(e.cards, e.shown, e.hits) /\ e.asFor = e.key.query
  /\ reply.outcome \in {"answer", "cached"} => WellCarded(reply.cards, reply.shown, reply.hits)
  /\ reply.outcome \notin {"answer", "cached"} => reply.cards = {}
  /\ reply.outcome = "cached" => reply.asFor = reply.query
  /\ AsItIs(reply.question, reply.query, reply.areas)

LEMMA NotAskedIs ==
  IsAsk(NotAsked) /\ NotAsked.phase = "idle" /\ NotAsked.text = Refusal
BY DEF IsAsk, NotAsked

\* A request moves on.
LEMMA BecomesKeeps ==
  ASSUME PathInv, NEW s \in Conversations, NEW r, IsAsk(r), r.text = Refusal \/ r.text \in Texts,
         r.phase # "idle" => \E q \in Questions : q.id = r.question,
         r.phase \notin {"idle", "begun"} => AsItIs(r.question, r.query, r.areas),
         asking' = [asking EXCEPT ![s] = r], UNCHANGED <<kept, reply>>
  PROVE  PathInv'
<1>1. /\ asking' = [t \in Conversations |-> asking'[t]]
      /\ asking'[s] = r /\ \A t \in Conversations : t # s => asking'[t] = asking[t]
  BY DEF PathInv
<1>. QED BY <1>1 DEF PathInv

\* A request replies, and what is kept stays well.
LEMMA RepliesKeeps ==
  ASSUME PathInv, NEW s \in Conversations, NEW r, Replies(s, r),
         \A e \in kept' : WellCarded(e.cards, e.shown, e.hits) /\ e.asFor = e.key.query,
         r.outcome \in {"answer", "cached"} => WellCarded(r.cards, r.shown, r.hits),
         r.outcome \notin {"answer", "cached"} => r.cards = {},
         r.outcome = "cached" => r.asFor = r.query,
         AsItIs(r.question, r.query, r.areas)
  PROVE  PathInv'
<1>1. /\ asking' = [t \in Conversations |-> asking'[t]]
      /\ asking'[s] = NotAsked /\ \A t \in Conversations : t # s => asking'[t] = asking[t]
      /\ reply' = r
  BY DEF PathInv, Replies
<1>. QED BY <1>1, NotAskedIs DEF PathInv

LEMMA AboutIs ==
  ASSUME NEW s \in Conversations, NEW outcome
  PROVE  LET r == About(s, outcome) IN
         /\ r.outcome = outcome /\ r.question = asking[s].question /\ r.query = asking[s].query
         /\ r.areas = asking[s].areas /\ r.cards = {}
         /\ r = [outcome |-> r.outcome, question |-> r.question, query |-> r.query,
                 areas |-> r.areas, cards |-> r.cards, shown |-> r.shown, hits |-> r.hits,
                 note |-> r.note, asFor |-> r.asFor]
<1>. DEFINE x == asking[s]
            T == [outcome : {"none", outcome}, question : {"", x.question},
                  query : {NoQuery, x.query}, areas : {{}, x.areas}, cards : {{}}, shown : {{}},
                  hits : {0}, note : {{}}, asFor : {NoQuery}]
            r == [NoReply EXCEPT !.outcome = outcome, !.question = x.question,
                                 !.query = x.query, !.areas = x.areas]
<1>. HIDE DEF x
<1>1. NoReply \in T
  BY DEF NoReply
<1>2. r \in T
  BY <1>1
<1>3. r.outcome = outcome /\ r.question = x.question /\ r.query = x.query /\ r.areas = x.areas
  BY <1>1
<1>4. r.cards = {} /\ r = [outcome |-> r.outcome, question |-> r.question, query |-> r.query,
                 areas |-> r.areas, cards |-> r.cards, shown |-> r.shown, hits |-> r.hits,
                 note |-> r.note, asFor |-> r.asFor]
  <2>. HIDE DEF r
  <2>. QED BY <1>2
<1>. HIDE DEF r, T
<1>5. About(s, outcome) = r
  BY DEF About, r, x
<1>. QED BY <1>3, <1>4, <1>5 DEF x

\* A refusal carries no card and is not kept.
LEMMA RefusesKeeps ==
  ASSUME PathInv, NEW s \in Conversations, NEW outcome, Refuses(s, outcome),
         outcome \notin {"answer", "cached"},
         AsItIs(asking[s].question, asking[s].query, asking[s].areas)
  PROVE  PathInv'
<1>. DEFINE r == About(s, outcome)
<1>1. /\ r.outcome = outcome /\ r.question = asking[s].question /\ r.query = asking[s].query
      /\ r.areas = asking[s].areas /\ r.cards = {}
  BY AboutIs
<1>2. Replies(s, r) /\ UNCHANGED kept
  BY DEF Refuses
<1>. HIDE DEF r
<1>. QED BY <1>1, <1>2, RepliesKeeps DEF PathInv

\* The question of a request is the one with its id.
LEMMA QuestionIs ==
  ASSUME PathInv, NEW s \in Conversations, asking[s].phase # "idle"
  PROVE  /\ QuestionOf(s) \in Questions /\ QuestionOf(s).id = asking[s].question
         /\ \A q \in Questions : q.id = asking[s].question => q = QuestionOf(s)
<1>1. \E q \in Questions : q.id = asking[s].question
  BY DEF PathInv
<1>2. QuestionOf(s) \in Questions /\ QuestionOf(s).id = asking[s].question
  BY <1>1 DEF QuestionOf
<1>. QED BY <1>2, PathAssumption

LEMMA BeginKeeps ==
  ASSUME PathInv, NEW s \in Conversations, NEW q \in Questions, BeginQuestion(s, q)
  PROVE  PathInv'
<1>. DEFINE r == [NotAsked EXCEPT !.phase = "begun", !.question = q.id]
            T == [phase : {"idle", "begun"}, question : {"", q.id}, query : {NoQuery},
                  areas : {{}}, intent : {"faq"}, anywhere : {FALSE}, found : {NoHits},
                  text : {Refusal}]
<1>0. NotAsked \in T
  BY DEF NotAsked
<1>1. IsAsk(r) /\ r.phase = "begun" /\ r.question = q.id /\ r.text = Refusal
  <2>1. r \in T /\ r.phase = "begun" /\ r.question = q.id
    BY <1>0
  <2>. HIDE DEF r
  <2>. QED BY <2>1 DEF IsAsk
<1>2. asking' = [asking EXCEPT ![s] = r] /\ UNCHANGED <<kept, reply>>
  BY DEF BeginQuestion
<1>. HIDE DEF r
<1>. QED BY <1>1, <1>2, BecomesKeeps

LEMMA GreetKeeps ==
  ASSUME PathInv, NEW s \in Conversations, Greet(s) PROVE PathInv'
<1>1. asking[s].phase = "begun" /\ QuestionOf(s).shape = "greeting" /\ Refuses(s, "greeting")
  BY DEF Greet
<1>2. AsItIs(asking[s].question, asking[s].query, asking[s].areas)
  BY <1>1, QuestionIs DEF AsItIs
<1>. QED BY <1>1, <1>2, RefusesKeeps

\* A question that names a product is not one about the assistant, leans on
\* nothing, is not asked about and not condensed.
LEMMA RouteKeeps ==
  ASSUME PathInv, NEW s \in Conversations, RouteQuestion(s) PROVE PathInv'
<1>. DEFINE q == QuestionOf(s)
            inContext == Contextual(Canonical(q), turns[s])
            Query(meant) ==
              IF meant THEN [inContext EXCEPT !.names = inContext.names \cup {"citevyn"}] ELSE inContext
            Anywhere(query) == answerWhenGrounded /\ ~ Supported(query.names)
            Condenses(query) == (Anywhere(query) \/ inContext # Canonical(q)) /\ turns[s] # <<>>
            Areas(query) == IF Cardinality(DomainsOf(query.names)) >= 2
                            THEN DomainsOf(query.names) ELSE {DomainOf(query.names)}
<1>1. PICK meant \in IF AsksForAlias(inContext) THEN BOOLEAN ELSE {FALSE} :
        \E condensed \in Condensed(Query(meant), Condenses(Query(meant))) :
          Becomes(s, [asking[s] EXCEPT
                 !.phase = "routed",
                 !.query = condensed,
                 !.areas = Areas(Query(meant)),
                 !.intent = IntentOf(Query(meant)),
                 !.anywhere = Anywhere(Query(meant))])
  BY DEF RouteQuestion
<1>2. PICK condensed \in Condensed(Query(meant), Condenses(Query(meant))) :
          Becomes(s, [asking[s] EXCEPT
                 !.phase = "routed",
                 !.query = condensed,
                 !.areas = Areas(Query(meant)),
                 !.intent = IntentOf(Query(meant)),
                 !.anywhere = Anywhere(Query(meant))])
  BY <1>1
<1>3. asking[s].phase = "begun" /\ q.shape # "greeting"
  BY DEF RouteQuestion
<1>4. q \in Questions /\ q.id = asking[s].question
      /\ \A p \in Questions : p.id = asking[s].question => p = q
  BY <1>3, QuestionIs
<1>5. ASSUME Supported(q.names)
      PROVE  /\ condensed.text = <<q.id>>
             /\ Areas(Query(meant)) \in {DomainsOf(q.names), {DomainOf(q.names)}}
  <2>. DEFINE plain == [text |-> <<q.id>>, names |-> q.names, leans |-> q.leans, shape |-> q.shape]
  <2>1. q.shape # "self"
    <3>1. ~ Supported({})
      BY DEF Supported, DomainOf
    <3>. QED BY <1>4, <1>5, <3>1, PathAssumption
  <2>2. Canonical(q) = plain
    BY <2>1 DEF Canonical
  <2>3. plain.names = q.names /\ plain.text = <<q.id>>
    OBVIOUS
  <2>. HIDE DEF plain, q
  <2>4. inContext = plain
    BY <1>5, <2>2, <2>3 DEF Contextual
  <2>. HIDE DEF inContext
  <2>5. ~ AsksForAlias(inContext)
    BY <1>5, <2>3, <2>4 DEF AsksForAlias
  <2>6. Query(meant) = plain /\ ~ Anywhere(Query(meant))
    BY <1>1, <1>5, <2>3, <2>4, <2>5
  <2>7. ~ Condenses(Query(meant))
    BY <2>2, <2>4, <2>6
  <2>8. condensed = [text |-> plain.text, names |-> plain.names]
    BY <1>2, <2>6, <2>7 DEF Condensed
  <2>9. condensed.text = <<q.id>>
    BY <2>3, <2>8
  <2>. QED BY <2>3, <2>6, <2>9
<1>. HIDE DEF q, inContext, Query, Anywhere, Condenses, Areas
<1>. DEFINE r == [asking[s] EXCEPT
                 !.phase = "routed",
                 !.query = condensed,
                 !.areas = Areas(Query(meant)),
                 !.intent = IntentOf(Query(meant)),
                 !.anywhere = Anywhere(Query(meant))]
<1>6. IsAsk(asking[s]) /\ (asking[s].text = Refusal \/ asking[s].text \in Texts)
  BY DEF PathInv
<1>7. /\ IsAsk(r) /\ r.phase = "routed" /\ r.question = asking[s].question
      /\ r.query = condensed /\ r.areas = Areas(Query(meant)) /\ r.text = asking[s].text
  <2>. DEFINE x == asking[s]
              A == Areas(Query(meant))
              I == IntentOf(Query(meant))
              W == Anywhere(Query(meant))
              T == [phase : {x.phase, "routed"}, question : {x.question},
                    query : {x.query, condensed}, areas : {x.areas, A}, intent : {x.intent, I},
                    anywhere : {x.anywhere, W}, found : {x.found}, text : {x.text}]
              y == [x EXCEPT !.phase = "routed", !.query = condensed, !.areas = A,
                             !.intent = I, !.anywhere = W]
  <2>. HIDE DEF x, A, I, W
  <2>1. x \in T
    BY <1>6 DEF IsAsk, x
  <2>2. y \in T
    BY <2>1
  <2>3. y.phase = "routed" /\ y.query = condensed /\ y.areas = A
    BY <2>1
  <2>4. IsAsk(y) /\ y.question = x.question /\ y.text = x.text
    <3>. HIDE DEF y
    <3>. QED BY <2>2 DEF IsAsk
  <2>. HIDE DEF y, T
  <2>5. r = y
    BY DEF y, x, A, I, W
  <2>. QED BY <2>3, <2>4, <2>5 DEF x, A
<1>8. asking' = [asking EXCEPT ![s] = r] /\ UNCHANGED <<kept, reply>>
  BY <1>2 DEF Becomes
<1>. HIDE DEF r
<1>9. AsItIs(r.question, r.query, r.areas)
  BY <1>4, <1>5, <1>7 DEF AsItIs
<1>. QED BY <1>4, <1>6, <1>7, <1>8, <1>9, BecomesKeeps

\* A request that keeps its question, whatever else it learns.
SameQuestion(x, r) ==
  /\ IsAsk(r) /\ r.question = x.question /\ r.query = x.query /\ r.areas = x.areas
  /\ r.intent = x.intent

WithFound(x, p, f) == [x EXCEPT !.phase = p, !.found = f]

WithText(x, p, t) == [x EXCEPT !.phase = p, !.text = t]

WithBoth(x, f, t) == [x EXCEPT !.found = f, !.text = t]

LEMMA PhaseMoves ==
  ASSUME NEW x, IsAsk(x), NEW p
  PROVE  LET r == [x EXCEPT !.phase = p] IN
         SameQuestion(x, r) /\ r.phase = p /\ r.text = x.text /\ r.found = x.found
<1>. DEFINE T == [phase : {x.phase, p}, question : {x.question}, query : {x.query},
                  areas : {x.areas}, intent : {x.intent}, anywhere : {x.anywhere},
                  found : {x.found}, text : {x.text}]
<1>1. x \in T
  BY DEF IsAsk
<1>2. ASSUME NEW r \in T PROVE SameQuestion(x, r)
  <2>1. r = [phase |-> r.phase, question |-> r.question, query |-> r.query, areas |-> r.areas,
             intent |-> r.intent, anywhere |-> r.anywhere, found |-> r.found, text |-> r.text]
    OBVIOUS
  <2>2. r.question = x.question /\ r.query = x.query /\ r.areas = x.areas /\ r.intent = x.intent
    OBVIOUS
  <2>. QED BY <2>1, <2>2 DEF SameQuestion, IsAsk
<1>3. LET r == [x EXCEPT !.phase = p] IN r \in T /\ r.phase = p /\ r.text = x.text /\ r.found = x.found
  BY <1>1
<1>. HIDE DEF T
<1>. QED BY <1>2, <1>3

LEMMA FoundMoves ==
  ASSUME NEW x, IsAsk(x), NEW p, NEW f
  PROVE  LET r == WithFound(x, p, f) IN
         SameQuestion(x, r) /\ r.phase = p /\ r.text = x.text /\ r.found = f
<1>. DEFINE T == [phase : {x.phase, p}, question : {x.question}, query : {x.query},
                  areas : {x.areas}, intent : {x.intent}, anywhere : {x.anywhere},
                  found : {x.found, f}, text : {x.text}]
<1>1. x \in T
  BY DEF IsAsk
<1>2. ASSUME NEW r \in T PROVE SameQuestion(x, r)
  <2>1. r = [phase |-> r.phase, question |-> r.question, query |-> r.query, areas |-> r.areas,
             intent |-> r.intent, anywhere |-> r.anywhere, found |-> r.found, text |-> r.text]
    OBVIOUS
  <2>2. r.question = x.question /\ r.query = x.query /\ r.areas = x.areas /\ r.intent = x.intent
    OBVIOUS
  <2>. QED BY <2>1, <2>2 DEF SameQuestion, IsAsk
<1>3. LET r == WithFound(x, p, f) IN r \in T /\ r.phase = p /\ r.text = x.text /\ r.found = f
  BY <1>1 DEF WithFound
<1>. HIDE DEF T
<1>. QED BY <1>2, <1>3

LEMMA TextMoves ==
  ASSUME NEW x, IsAsk(x), NEW p, NEW t
  PROVE  LET r == WithText(x, p, t) IN
         SameQuestion(x, r) /\ r.phase = p /\ r.text = t /\ r.found = x.found
<1>. DEFINE T == [phase : {x.phase, p}, question : {x.question}, query : {x.query},
                  areas : {x.areas}, intent : {x.intent}, anywhere : {x.anywhere},
                  found : {x.found}, text : {x.text, t}]
<1>1. x \in T
  BY DEF IsAsk
<1>2. ASSUME NEW r \in T PROVE SameQuestion(x, r)
  <2>1. r = [phase |-> r.phase, question |-> r.question, query |-> r.query, areas |-> r.areas,
             intent |-> r.intent, anywhere |-> r.anywhere, found |-> r.found, text |-> r.text]
    OBVIOUS
  <2>2. r.question = x.question /\ r.query = x.query /\ r.areas = x.areas /\ r.intent = x.intent
    OBVIOUS
  <2>. QED BY <2>1, <2>2 DEF SameQuestion, IsAsk
<1>3. LET r == WithText(x, p, t) IN r \in T /\ r.phase = p /\ r.text = t /\ r.found = x.found
  BY <1>1 DEF WithText
<1>. HIDE DEF T
<1>. QED BY <1>2, <1>3

LEMMA RetryMoves ==
  ASSUME NEW x, IsAsk(x), NEW f, NEW t
  PROVE  LET r == WithBoth(x, f, t) IN
         SameQuestion(x, r) /\ r.phase = x.phase /\ r.text = t /\ r.found = f
<1>. DEFINE T == [phase : {x.phase}, question : {x.question}, query : {x.query},
                  areas : {x.areas}, intent : {x.intent}, anywhere : {x.anywhere},
                  found : {x.found, f}, text : {x.text, t}]
<1>1. x \in T
  BY DEF IsAsk
<1>2. ASSUME NEW r \in T PROVE SameQuestion(x, r)
  <2>1. r = [phase |-> r.phase, question |-> r.question, query |-> r.query, areas |-> r.areas,
             intent |-> r.intent, anywhere |-> r.anywhere, found |-> r.found, text |-> r.text]
    OBVIOUS
  <2>2. r.question = x.question /\ r.query = x.query /\ r.areas = x.areas /\ r.intent = x.intent
    OBVIOUS
  <2>. QED BY <2>1, <2>2 DEF SameQuestion, IsAsk
<1>3. LET r == WithBoth(x, f, t) IN r \in T /\ r.phase = x.phase /\ r.text = t /\ r.found = f
  BY <1>1 DEF WithBoth
<1>. HIDE DEF T
<1>. QED BY <1>2, <1>3

LEMMA MovesKeep ==
  ASSUME PathInv, NEW s \in Conversations, NEW r, SameQuestion(asking[s], r),
         asking[s].phase \notin {"idle", "begun"},
         r.text = Refusal \/ r.text \in Texts, Becomes(s, r)
  PROVE  PathInv'
<1>1. asking' = [asking EXCEPT ![s] = r] /\ UNCHANGED <<kept, reply>>
  BY DEF Becomes
<1>2. AsItIs(r.question, r.query, r.areas) /\ \E q \in Questions : q.id = r.question
  BY DEF PathInv, SameQuestion
<1>. QED BY <1>1, <1>2, BecomesKeeps DEF SameQuestion

LEMMA WorkKeeps ==
  ASSUME PathInv, NEW s \in Conversations, Retrieve(s) \/ WriteText(s) \/ RetryWithoutExact(s)
  PROVE  PathInv'
<1>. DEFINE x == asking[s]
<1>1. IsAsk(x) /\ (x.text = Refusal \/ x.text \in Texts)
  BY DEF PathInv
<1>2. x.phase \notin {"idle", "begun"}
  BY DEF Retrieve, WriteText, RetryWithoutExact, Ungrounded, Missed, LooksUp
<1>3. \E r : SameQuestion(x, r) /\ (r.text = Refusal \/ r.text \in Texts) /\ Becomes(s, r)
  <2>1. ASSUME NEW f, Becomes(s, [x EXCEPT !.phase = "retrieved", !.found = f])
        PROVE  \E r : SameQuestion(x, r) /\ (r.text = Refusal \/ r.text \in Texts) /\ Becomes(s, r)
    <3>. DEFINE y == WithFound(x, "retrieved", f)
    <3>1. SameQuestion(x, y) /\ y.text = x.text
      BY <1>1, FoundMoves
    <3>2. Becomes(s, y)
      BY <2>1 DEF WithFound
    <3>. HIDE DEF y, x
    <3>. QED BY <1>1, <3>1, <3>2
  <2>2. ASSUME NEW t \in Texts \cup {Refusal}, Becomes(s, [x EXCEPT !.phase = "written", !.text = t])
        PROVE  \E r : SameQuestion(x, r) /\ (r.text = Refusal \/ r.text \in Texts) /\ Becomes(s, r)
    <3>. DEFINE y == WithText(x, "written", t)
    <3>1. SameQuestion(x, y) /\ y.text = t
      BY <1>1, TextMoves
    <3>2. Becomes(s, y)
      BY <2>2 DEF WithText
    <3>. HIDE DEF y, x
    <3>. QED BY <1>1, <3>1, <3>2
  <2>3. ASSUME NEW f, NEW t \in Texts, Becomes(s, [x EXCEPT !.found = f, !.text = t])
        PROVE  \E r : SameQuestion(x, r) /\ (r.text = Refusal \/ r.text \in Texts) /\ Becomes(s, r)
    <3>. DEFINE y == WithBoth(x, f, t)
    <3>1. SameQuestion(x, y) /\ y.text = t
      BY <1>1, RetryMoves
    <3>2. Becomes(s, y)
      BY <2>3 DEF WithBoth
    <3>. HIDE DEF y, x
    <3>. QED BY <1>1, <3>1, <3>2
  <2>4. ASSUME Becomes(s, [x EXCEPT !.phase = "ungrounded"])
        PROVE  \E r : SameQuestion(x, r) /\ (r.text = Refusal \/ r.text \in Texts) /\ Becomes(s, r)
    <3>. DEFINE y == [x EXCEPT !.phase = "ungrounded"]
    <3>1. SameQuestion(x, y) /\ y.text = x.text
      BY <1>1, PhaseMoves
    <3>2. Becomes(s, y)
      BY <2>4
    <3>. HIDE DEF y, x
    <3>. QED BY <1>1, <3>1, <3>2
  <2>5. Retrieve(s) => \E f : Becomes(s, [x EXCEPT !.phase = "retrieved", !.found = f])
    BY DEF Retrieve
  <2>6. WriteText(s) => \E t \in Texts \cup {Refusal} : Becomes(s, [x EXCEPT !.phase = "written", !.text = t])
    BY DEF WriteText
  <2>7. RetryWithoutExact(s) => \/ \E f : \E t \in Texts : Becomes(s, [x EXCEPT !.found = f, !.text = t])
                                \/ Becomes(s, [x EXCEPT !.phase = "ungrounded"])
    BY DEF RetryWithoutExact
  <2>. HIDE DEF x
  <2>. QED BY <2>1, <2>2, <2>3, <2>4, <2>5, <2>6, <2>7
<1>. QED BY <1>2, <1>3, MovesKeep

LEMMA RefusalsKeep ==
  ASSUME PathInv, NEW s \in Conversations,
         \/ RefuseUnsupported(s) \/ RefuseClarify(s) \/ RefuseEmpty(s) \/ RefuseInvalid(s)
         \/ RefuseUncited(s)
  PROVE  PathInv'
<1>1. PICK outcome \in {"unsupported", "no_answer", "citation_validation_failed"} :
        Refuses(s, outcome)
  BY DEF RefuseUnsupported, RefuseClarify, RefuseEmpty, RefuseInvalid, RefuseUncited
<1>2. asking[s].phase \notin {"idle", "begun"}
  BY DEF RefuseUnsupported, RefuseClarify, RefuseEmpty, RefuseInvalid, RefuseUncited, Ungrounded,
         Missed, LooksUp
<1>. QED BY <1>1, <1>2, RefusesKeeps DEF PathInv

\* A reply with cards, fresh or from the cache.
LEMMA CardedIs ==
  ASSUME NEW s \in Conversations, NEW outcome, NEW cards, NEW shown, NEW hits, NEW note, NEW asFor
  PROVE  LET r == [About(s, outcome) EXCEPT !.cards = cards, !.shown = shown, !.hits = hits,
                                           !.note = note, !.asFor = asFor] IN
         /\ r.outcome = outcome /\ r.question = asking[s].question /\ r.query = asking[s].query
         /\ r.areas = asking[s].areas
         /\ r.cards = cards /\ r.shown = shown /\ r.hits = hits /\ r.asFor = asFor
<1>. DEFINE a == About(s, outcome)
            T == [outcome : {a.outcome}, question : {a.question}, query : {a.query},
                  areas : {a.areas}, cards : {a.cards, cards}, shown : {a.shown, shown},
                  hits : {a.hits, hits}, note : {a.note, note}, asFor : {a.asFor, asFor}]
            r == [a EXCEPT !.cards = cards, !.shown = shown, !.hits = hits,
                           !.note = note, !.asFor = asFor]
<1>1. /\ a.outcome = outcome /\ a.question = asking[s].question /\ a.query = asking[s].query
      /\ a.areas = asking[s].areas
      /\ a = [outcome |-> a.outcome, question |-> a.question, query |-> a.query,
              areas |-> a.areas, cards |-> a.cards, shown |-> a.shown, hits |-> a.hits,
              note |-> a.note, asFor |-> a.asFor]
  BY AboutIs
<1>. HIDE DEF a
<1>2. a \in T
  BY <1>1
<1>3. r \in T /\ r.cards = cards /\ r.shown = shown /\ r.hits = hits /\ r.asFor = asFor
  BY <1>2
<1>4. r.outcome = a.outcome /\ r.question = a.question /\ r.query = a.query /\ r.areas = a.areas
  BY <1>2
<1>. HIDE DEF T
<1>. QED BY <1>1, <1>3, <1>4 DEF a

LEMMA HitKeeps ==
  ASSUME PathInv, NEW s \in Conversations, HitCache(s) PROVE PathInv'
<1>1. PICK e \in kept :
       /\ e.key = KeyOf(s)
       /\ Replies(s, [About(s, "cached") EXCEPT
            !.cards = e.cards, !.shown = e.shown, !.hits = e.hits, !.note = e.note,
            !.asFor = e.asFor])
  BY DEF HitCache
<1>. DEFINE r == [About(s, "cached") EXCEPT
            !.cards = e.cards, !.shown = e.shown, !.hits = e.hits, !.note = e.note,
            !.asFor = e.asFor]
<1>2. /\ r.outcome = "cached" /\ r.question = asking[s].question /\ r.query = asking[s].query
      /\ r.areas = asking[s].areas
      /\ r.cards = e.cards /\ r.shown = e.shown /\ r.hits = e.hits /\ r.asFor = e.asFor
  BY CardedIs
<1>3. UNCHANGED kept /\ asking[s].phase \notin {"idle", "begun"}
  BY DEF HitCache, LooksUp
<1>4. WellCarded(e.cards, e.shown, e.hits) /\ e.asFor = asking[s].query
  BY <1>1 DEF PathInv, KeyOf
<1>5. AsItIs(r.question, r.query, r.areas)
  BY <1>2, <1>3 DEF PathInv
<1>. HIDE DEF r
<1>6. Replies(s, r)
  BY <1>1 DEF r
<1>. QED BY <1>2, <1>3, <1>4, <1>5, <1>6, RepliesKeeps DEF PathInv

\* An answer that cites has a card, and only cards of its evidence.
LEMMA AnswerKeeps ==
  ASSUME PathInv, NEW s \in Conversations, Answer(s) PROVE PathInv'
<1>. DEFINE cards == Cards(s)
            shown == CitedMarkers(Expand(asking[s].text))
            hits == Len(asking[s].found.areas)
            r == [About(s, "answer") EXCEPT
                 !.cards = cards, !.shown = shown,
                 !.hits = hits, !.note = MissingNote(s),
                 !.asFor = asking[s].query]
            new == [key |-> KeyOf(s), cards |-> r.cards, shown |-> r.shown,
                    hits |-> r.hits, note |-> r.note, asFor |-> r.asFor]
<1>1. /\ Replies(s, r) /\ asking[s].phase = "written"
      /\ Judgement(s).valid /\ Judgement(s).singly # {}
      /\ kept' \subseteq kept \cup {new}
  BY DEF Answer
<1>2. /\ r.outcome = "answer" /\ r.question = asking[s].question /\ r.query = asking[s].query
      /\ r.areas = asking[s].areas
      /\ r.cards = cards /\ r.shown = shown /\ r.hits = hits /\ r.asFor = asking[s].query
  BY CardedIs
<1>. DEFINE text == asking[s].text
<1>3. text # Refusal /\ text \in Seq(Line)
  <2>1. text # Refusal
    BY <1>1 DEF Judgement, Judged
  <2>. QED BY <2>1, PathAssumption DEF PathInv
<1>4. /\ Judgement(s).cited = CitedMarkers(Expand(text)) /\ Judgement(s).singly = CitedMarkers(text)
      /\ Judgement(s).valid = (CitedMarkers(Expand(text)) \cup CitedMarkers(text) \subseteq 1 .. hits)
  BY <1>3 DEF Judgement, Judged, Validation
<1>5. WellCarded(cards, shown, hits)
  <2>1. cards = shown
    BY <1>4 DEF Cards
  <2>2. shown # {} /\ shown \subseteq 1 .. hits
    BY <1>1, <1>3, <1>4, CitesStill
  <2>. QED BY <2>1, <2>2 DEF WellCarded
<1>6. /\ new.cards = cards /\ new.shown = shown /\ new.hits = hits
      /\ new.asFor = asking[s].query /\ new.key.query = asking[s].query
  <2>1. KeyOf(s).query = asking[s].query
    BY DEF KeyOf
  <2>. HIDE DEF r, cards, shown, hits
  <2>. QED BY <1>2, <2>1
<1>7. AsItIs(r.question, r.query, r.areas)
  BY <1>1, <1>2 DEF PathInv
<1>. HIDE DEF r, new, cards, shown, hits
<1>8. \A e \in kept' : WellCarded(e.cards, e.shown, e.hits) /\ e.asFor = e.key.query
  BY <1>1, <1>5, <1>6 DEF PathInv
<1>. QED BY <1>1, <1>2, <1>5, <1>7, <1>8, RepliesKeeps

LEMMA PathInit_Inv == PathInit => PathInv
<1>. SUFFICES ASSUME PathInit PROVE PathInv
  OBVIOUS
<1>1. NoReply.outcome = "none" /\ NoReply.cards = {} /\ NoReply.question = ""
  BY DEF NoReply
<1>2. AsItIs(NoReply.question, NoReply.query, NoReply.areas)
  BY <1>1, PathAssumption DEF AsItIs
<1>. QED BY <1>1, <1>2, NotAskedIs DEF PathInit, PathInv

LEMMA PathStep_Inv == PathInv /\ [PathNext]_pathVars => PathInv'
<1>. SUFFICES ASSUME PathInv, [PathNext]_pathVars PROVE PathInv'
  OBVIOUS
<1>1. ASSUME NEW s \in Conversations, NEW q \in Questions, BeginQuestion(s, q) PROVE PathInv'
  BY <1>1, BeginKeeps
<1>2. ASSUME NEW s \in Conversations,
             Greet(s) \/ RouteQuestion(s) \/ HitCache(s) \/ Answer(s)
      PROVE  PathInv'
  BY <1>2, GreetKeeps, RouteKeeps, HitKeeps, AnswerKeeps
<1>3. ASSUME NEW s \in Conversations,
             \/ RefuseUnsupported(s) \/ RefuseClarify(s) \/ RefuseEmpty(s) \/ RefuseInvalid(s)
             \/ RefuseUncited(s)
      PROVE  PathInv'
  BY <1>3, RefusalsKeep
<1>4. ASSUME NEW s \in Conversations, Retrieve(s) \/ WriteText(s) \/ RetryWithoutExact(s)
      PROVE  PathInv'
  BY <1>4, WorkKeeps
<1>5. ASSUME NEW s \in Conversations, FailQuestion(s) PROVE PathInv'
  <2>1. asking' = [asking EXCEPT ![s] = NotAsked] /\ UNCHANGED <<kept, reply>>
    BY <1>5 DEF FailQuestion, Becomes
  <2>. QED BY <2>1, NotAskedIs, BecomesKeeps
<1>6. ASSUME NEW e \in kept, ExpireAnswer(e) PROVE PathInv'
  <2>1. UNCHANGED <<asking, reply>> /\ kept' \subseteq kept
    BY <1>6 DEF ExpireAnswer
  <2>. QED BY <2>1 DEF PathInv
<1>7. CASE UNCHANGED pathVars
  <2>1. UNCHANGED <<asking, kept, reply>>
    BY <1>7 DEF pathVars
  <2>. QED BY <2>1 DEF PathInv
<1>. QED BY <1>1, <1>2, <1>3, <1>4, <1>5, <1>6, <1>7 DEF PathNext

LEMMA PathHolds == PathInv => TopicIsKept /\ CardsAreGrounded
BY DEF PathInv, AsItIs, WellCarded, TopicIsKept, CardsAreGrounded

\* A reply from the cache was written for the same question standing alone, and
\* a question that names a product is asked as it is, of the products it names
\* (Orchestrator.ask, build_contextual_query), for any conversations, questions
\* and histories and whatever the model rewrites.
THEOREM TopicStays == PathSpec => []TopicIsKept
<1>. QED BY PathHolds, PathInit_Inv, PathStep_Inv, PTL DEF PathSpec

\* An answer has a source card for exactly the markers its reader sees, at least
\* one, each of them a chunk of its evidence (validate_citations,
\* expand_grouped_markers), for any texts the model may write.
THEOREM CardsStayGrounded == PathSpec => []CardsAreGrounded
<1>. QED BY PathHolds, PathInit_Inv, PathStep_Inv, PTL DEF PathSpec

----------------------------------------------------------------------------
(* Types of AnswerPath.                                                    *)

Areas == Products \cup {"citevyn", "unsupported"}

AskTyped(r) ==
  /\ r.phase \in {"idle", "begun", "routed", "retrieved", "written", "ungrounded"}
  /\ r.intent \in {"faq", "exact_lookup", "clarify", "unsupported"}
  /\ r.areas \subseteq Areas /\ r.query.names \subseteq Names
  /\ Len(r.found.areas) \in 0 .. MaxHits

PathTypes ==
  /\ turns \in [Conversations -> Seq(Questions)]
  /\ \A s \in Conversations : Len(turns[s]) =< MemoryTurns
  /\ \A s \in Conversations : AskTyped(asking[s])
  /\ \A e \in kept : e.hits \in 0 .. MaxHits

LEMMA AskMovesTyped ==
  ASSUME PathInv, PathTypes, NEW s \in Conversations, NEW r, AskTyped(r),
         asking' = [asking EXCEPT ![s] = r], UNCHANGED turns, kept' \subseteq kept
  PROVE  PathTypes'
<1>1. asking'[s] = r /\ \A t \in Conversations : t # s => asking'[t] = asking[t]
  BY DEF PathInv
<1>. QED BY <1>1 DEF PathTypes

LEMMA NotAskedTyped == AskTyped(NotAsked)
<1>1. NoHits.areas = <<>> /\ Len(NoHits.areas) = 0 /\ NoQuery.names = {}
  BY DEF NoHits, NoQuery
<1>2. /\ NotAsked.phase = "idle" /\ NotAsked.intent = "faq" /\ NotAsked.areas = {}
      /\ NotAsked.query = NoQuery /\ NotAsked.found = NoHits
  BY DEF NotAsked
<1>. QED BY <1>1, <1>2, HistoryAssumption DEF AskTyped

\* The question joins those remembered, and the oldest may go.
LEMMA RememberedTyped ==
  ASSUME PathTypes, NEW s \in Conversations, NEW q \in Questions
  PROVE  Remembered(s, q) \in Seq(Questions) /\ Len(Remembered(s, q)) =< MemoryTurns
<1>. DEFINE all == <<q>> \o turns[s]
            n == IF Len(all) > MemoryTurns THEN MemoryTurns ELSE Len(all)
<1>1. turns[s] \in Seq(Questions) /\ <<q>> \in Seq(Questions)
  BY DEF PathTypes
<1>2. all \in Seq(Questions) /\ Len(all) \in Nat
  BY <1>1
<1>. HIDE DEF all
<1>3. n \in 0 .. Len(all) /\ n =< MemoryTurns
  BY <1>2, HistoryAssumption
<1>. HIDE DEF n
<1>4. SubSeq(all, 1, n) \in Seq(Questions) /\ Len(SubSeq(all, 1, n)) = n
  BY <1>2, <1>3
<1>5. Remembered(s, q) = SubSeq(all, 1, n)
  BY DEF Remembered, all, n
<1>. QED BY <1>3, <1>4, <1>5

LEMMA RepliesTyped ==
  ASSUME PathInv, PathTypes, NEW s \in Conversations, asking[s].phase # "idle",
         NEW r, Replies(s, r), \A e \in kept' : e.hits \in 0 .. MaxHits
  PROVE  PathTypes'
<1>1. QuestionOf(s) \in Questions
  BY QuestionIs
<1>. DEFINE q == QuestionOf(s)
<1>2. Remembered(s, q) \in Seq(Questions) /\ Len(Remembered(s, q)) =< MemoryTurns
  BY <1>1, RememberedTyped
<1>3. turns' = [turns EXCEPT ![s] = Remembered(s, q)]
  BY DEF Replies
<1>4. /\ turns' \in [Conversations -> Seq(Questions)]
      /\ \A t \in Conversations : Len(turns'[t]) =< MemoryTurns
  <2>. HIDE DEF q
  <2>. QED BY <1>2, <1>3 DEF PathTypes
<1>5. asking'[s] = NotAsked /\ \A t \in Conversations : t # s => asking'[t] = asking[t]
  BY DEF PathInv, Replies
<1>. QED BY <1>4, <1>5, NotAskedTyped DEF PathTypes

\* The first name the patterns know decides.
LEMMA DomainIs == ASSUME NEW names PROVE DomainOf(names) \in Areas
<1>. DEFINE named == {i \in DOMAIN Precedence : Precedence[i] \in names}
            first == CHOOSE i \in named : \A j \in named : i =< j
<1>0. DOMAIN Precedence = 1 .. 6
  BY DEF Precedence
<1>1. CASE named = {}
  BY <1>1 DEF DomainOf, Areas
<1>2. CASE named # {}
  <2>1. named \in SUBSET Nat
    BY <1>0
  <2>2. \E i \in named : \A j \in named : i =< j
    <3>. HIDE DEF named
    <3>. QED BY <1>2, <2>1, LeastNatural
  <2>3. first \in named
    <3>. HIDE DEF named
    <3>. QED BY <2>2
  <2>4. first \in 1 .. 6
    BY <1>0, <2>3
  <2>. HIDE DEF first
  <2>5. Precedence[first] \in Areas \cup {"claude"}
    BY <2>4 DEF Precedence, Areas, Products
  <2>6. DomainOf(names) = IF Precedence[first] = "claude" THEN "claude_api" ELSE Precedence[first]
    BY <1>2 DEF DomainOf, first
  <2>. QED BY <2>5, <2>6 DEF Areas, Products
<1>. QED BY <1>1, <1>2

LEMMA CanonicalNames ==
  ASSUME NEW q \in Questions
  PROVE  Canonical(q).names \subseteq Names /\ "names" \in DOMAIN Canonical(q)
<1>1. CASE q.shape = "self"
  BY <1>1 DEF Canonical, Names
<1>2. CASE q.shape # "self"
  <2>1. Canonical(q) = [text |-> <<q.id>>, names |-> q.names, leans |-> q.leans, shape |-> q.shape]
    BY <1>2 DEF Canonical
  <2>. QED BY <2>1, HistoryAssumption
<1>. QED BY <1>1, <1>2

LEMMA ContextualNames ==
  ASSUME NEW query, query.names \subseteq Names, "names" \in DOMAIN query,
         NEW prior \in Seq(Questions)
  PROVE  LET inContext == Contextual(query, prior) IN
         inContext.names \subseteq Names /\ "names" \in DOMAIN inContext
<1>. DEFINE topics == {i \in DOMAIN prior : Supported(prior[i].names)}
            k == CHOOSE i \in topics : \A j \in topics : i =< j
            topic == prior[k]
            new == [text |-> <<topic.id>> \o query.text, names |-> topic.names \cup query.names,
                    leans |-> TRUE,
                    shape |-> IF "flag" \in {topic.shape, query.shape} THEN "flag" ELSE "plain"]
<1>1. CASE topics = {}
  <2>1. Contextual(query, prior) = query
    BY <1>1 DEF Contextual
  <2>. QED BY <2>1
<1>2. CASE topics # {}
  <2>1. topics \in SUBSET Nat
    OBVIOUS
  <2>2. \E i \in topics : \A j \in topics : i =< j
    <3>. HIDE DEF topics
    <3>. QED BY <1>2, <2>1, LeastNatural
  <2>3. k \in topics
    <3>. HIDE DEF topics
    <3>. QED BY <2>2
  <2>. HIDE DEF k
  <2>4. topic \in Questions
    BY <2>3
  <2>. HIDE DEF topic
  <2>5. new.names \subseteq Names /\ "names" \in DOMAIN new
    BY <2>4, HistoryAssumption
  <2>. HIDE DEF new
  <2>6. Contextual(query, prior) = query \/ Contextual(query, prior) = new
    BY DEF Contextual, new, topic, k
  <2>. QED BY <2>5, <2>6
<1>. QED BY <1>1, <1>2

LEMMA EvidenceIs ==
  ASSUME NEW areas, NEW n \in Nat, NEW h \in Evidence(areas, n)
  PROVE  Len(h) \in 0 .. MaxHits
<1>1. PICK k \in n .. MaxHits : h \in [1 .. k -> areas]
  BY DEF Evidence
<1>2. k \in Nat /\ k =< MaxHits
  BY HistoryAssumption
<1>3. Len(h) = k
  BY <1>1, <1>2
<1>. QED BY <1>2, <1>3, HistoryAssumption

LEMMA HitsAre ==
  ASSUME NEW s \in Conversations, NEW intent, NEW f \in FindHits(s, intent)
  PROVE  Len(f.areas) \in 0 .. MaxHits
<1>1. \/ \E areas, exact, d : \E n \in {0, 1} : \E h \in Evidence(areas, n) :
           f = [areas |-> h, exact |-> exact, degrade |-> d]
      \/ f = [areas |-> <<>>, exact |-> FALSE, degrade |-> "unavailable"]
  BY DEF FindHits, AnywhereHits, ScopedHits, ExactHits
<1>2. CASE f = [areas |-> <<>>, exact |-> FALSE, degrade |-> "unavailable"]
  BY <1>2, HistoryAssumption
<1>3. ASSUME NEW areas, NEW n \in {0, 1}, NEW exact, NEW d, NEW h \in Evidence(areas, n),
             f = [areas |-> h, exact |-> exact, degrade |-> d]
      PROVE  Len(f.areas) \in 0 .. MaxHits
  <2>1. f.areas = h /\ n \in Nat
    BY <1>3
  <2>. QED BY <2>1, EvidenceIs
<1>. QED BY <1>1, <1>2, <1>3

LEMMA BeginTyped ==
  ASSUME PathInv, PathTypes, NEW s \in Conversations, NEW q \in Questions, BeginQuestion(s, q)
  PROVE  PathTypes'
<1>. DEFINE r == [NotAsked EXCEPT !.phase = "begun", !.question = q.id]
            T == [phase : {"idle", "begun"}, question : {"", q.id}, query : {NoQuery},
                  areas : {{}}, intent : {"faq"}, anywhere : {FALSE}, found : {NoHits},
                  text : {Refusal}]
<1>1. NotAsked \in T
  BY DEF NotAsked
<1>2. r \in T
  BY <1>1
<1>3. AskTyped(r)
  <2>. HIDE DEF r
  <2>1. r.phase \in {"idle", "begun"} /\ r.intent = "faq" /\ r.areas = {}
        /\ r.query = NoQuery /\ r.found = NoHits
    BY <1>2
  <2>2. Len(NoHits.areas) = 0 /\ NoQuery.names = {}
    BY DEF NoHits, NoQuery
  <2>. QED BY <2>1, <2>2, HistoryAssumption DEF AskTyped
<1>4. asking' = [asking EXCEPT ![s] = r] /\ UNCHANGED <<turns, kept>>
  BY DEF BeginQuestion
<1>. HIDE DEF r
<1>. QED BY <1>3, <1>4, AskMovesTyped

\* Routing names products, of the question and of the topic it leans on.
LEMMA RouteTyped ==
  ASSUME PathInv, PathTypes, NEW s \in Conversations, RouteQuestion(s)
  PROVE  PathTypes'
<1>. DEFINE q == QuestionOf(s)
            inContext == Contextual(Canonical(q), turns[s])
            Query(meant) ==
              IF meant THEN [inContext EXCEPT !.names = inContext.names \cup {"citevyn"}] ELSE inContext
            Anywhere(query) == answerWhenGrounded /\ ~ Supported(query.names)
            Condenses(query) == (Anywhere(query) \/ inContext # Canonical(q)) /\ turns[s] # <<>>
            Named(query) == IF Cardinality(DomainsOf(query.names)) >= 2
                            THEN DomainsOf(query.names) ELSE {DomainOf(query.names)}
<1>1. PICK meant \in BOOLEAN :
        \E condensed \in Condensed(Query(meant), Condenses(Query(meant))) :
          Becomes(s, [asking[s] EXCEPT
                 !.phase = "routed",
                 !.query = condensed,
                 !.areas = Named(Query(meant)),
                 !.intent = IntentOf(Query(meant)),
                 !.anywhere = Anywhere(Query(meant))])
  BY DEF RouteQuestion
<1>2. PICK condensed \in Condensed(Query(meant), Condenses(Query(meant))) :
          Becomes(s, [asking[s] EXCEPT
                 !.phase = "routed",
                 !.query = condensed,
                 !.areas = Named(Query(meant)),
                 !.intent = IntentOf(Query(meant)),
                 !.anywhere = Anywhere(Query(meant))])
  BY <1>1
<1>3. asking[s].phase = "begun" /\ q \in Questions /\ turns[s] \in Seq(Questions)
  BY QuestionIs DEF RouteQuestion, PathTypes
<1>. HIDE DEF q
<1>4. inContext.names \subseteq Names /\ "names" \in DOMAIN inContext
  BY <1>3, CanonicalNames, ContextualNames
<1>5. Query(meant).names \subseteq Names
  <2>. HIDE DEF inContext
  <2>1. ASSUME NEW x, x.names \subseteq Names, "names" \in DOMAIN x
        PROVE  [x EXCEPT !.names = x.names \cup {"citevyn"}].names \subseteq Names
    BY <2>1 DEF Names
  <2>. QED BY <1>4, <2>1
<1>. HIDE DEF inContext, Query, Anywhere, Condenses
<1>6. condensed.names \subseteq Names
  <2>1. \/ condensed = [text |-> Query(meant).text, names |-> Query(meant).names]
        \/ \E rewrite : condensed = [text |-> <<rewrite>>, names |-> {}]
    BY <1>2 DEF Condensed
  <2>. QED BY <1>5, <2>1
<1>7. Named(Query(meant)) \subseteq Areas
  BY DomainIs DEF DomainsOf, Areas
<1>8. IntentOf(Query(meant)) \in {"faq", "exact_lookup", "clarify", "unsupported"}
  BY DEF IntentOf
<1>. DEFINE x == asking[s]
            A == Named(Query(meant))
            I == IntentOf(Query(meant))
            W == Anywhere(Query(meant))
            T == [phase : {x.phase, "routed"}, question : {x.question},
                  query : {x.query, condensed}, areas : {x.areas, A}, intent : {x.intent, I},
                  anywhere : {x.anywhere, W}, found : {x.found}, text : {x.text}]
            r == [x EXCEPT !.phase = "routed", !.query = condensed, !.areas = A,
                           !.intent = I, !.anywhere = W]
<1>9. /\ IsAsk(x) /\ AskTyped(x)
      /\ A \subseteq Areas /\ I \in {"faq", "exact_lookup", "clarify", "unsupported"}
      /\ asking' = [asking EXCEPT ![s] = r] /\ UNCHANGED <<turns, kept>>
  BY <1>2, <1>7, <1>8 DEF PathInv, PathTypes, Becomes
<1>. HIDE DEF x, A, I, W
<1>10. x \in T
  BY <1>9 DEF IsAsk
<1>11. /\ r.phase = "routed" /\ r.query = condensed /\ r.areas = A /\ r.intent = I
       /\ r.found = x.found
  BY <1>10
<1>12. AskTyped(r)
  <2>. HIDE DEF r
  <2>. QED BY <1>6, <1>9, <1>11 DEF AskTyped
<1>. HIDE DEF r
<1>. QED BY <1>9, <1>12, AskMovesTyped

LEMMA WorkTyped ==
  ASSUME PathInv, PathTypes, NEW s \in Conversations,
         Retrieve(s) \/ WriteText(s) \/ RetryWithoutExact(s)
  PROVE  PathTypes'
<1>. DEFINE x == asking[s]
            Good(r) == AskTyped(r) /\ Becomes(s, r)
<1>1. IsAsk(x) /\ AskTyped(x)
  BY DEF PathInv, PathTypes
<1>2. \E r : Good(r)
  <2>1. ASSUME NEW f, Len(f.areas) \in 0 .. MaxHits,
               Becomes(s, [x EXCEPT !.phase = "retrieved", !.found = f])
        PROVE  \E r : Good(r)
    <3>. DEFINE y == WithFound(x, "retrieved", f)
    <3>1. SameQuestion(x, y) /\ y.phase = "retrieved" /\ y.found = f
      BY <1>1, FoundMoves
    <3>2. Becomes(s, y)
      BY <2>1 DEF WithFound
    <3>. HIDE DEF y, x
    <3>. QED BY <1>1, <2>1, <3>1, <3>2 DEF AskTyped, SameQuestion
  <2>2. ASSUME NEW t, Becomes(s, [x EXCEPT !.phase = "written", !.text = t])
        PROVE  \E r : Good(r)
    <3>. DEFINE y == WithText(x, "written", t)
    <3>1. SameQuestion(x, y) /\ y.phase = "written" /\ y.found = x.found
      BY <1>1, TextMoves
    <3>2. Becomes(s, y)
      BY <2>2 DEF WithText
    <3>. HIDE DEF y, x
    <3>. QED BY <1>1, <3>1, <3>2 DEF AskTyped, SameQuestion
  <2>3. ASSUME NEW f, Len(f.areas) \in 0 .. MaxHits, NEW t,
               Becomes(s, [x EXCEPT !.found = f, !.text = t])
        PROVE  \E r : Good(r)
    <3>. DEFINE y == WithBoth(x, f, t)
    <3>1. SameQuestion(x, y) /\ y.phase = x.phase /\ y.found = f
      BY <1>1, RetryMoves
    <3>2. Becomes(s, y)
      BY <2>3 DEF WithBoth
    <3>. HIDE DEF y, x
    <3>. QED BY <1>1, <2>3, <3>1, <3>2 DEF AskTyped, SameQuestion
  <2>4. ASSUME Becomes(s, [x EXCEPT !.phase = "ungrounded"]) PROVE \E r : Good(r)
    <3>. DEFINE y == [x EXCEPT !.phase = "ungrounded"]
    <3>1. SameQuestion(x, y) /\ y.phase = "ungrounded" /\ y.found = x.found
      BY <1>1, PhaseMoves
    <3>2. Becomes(s, y)
      BY <2>4
    <3>. HIDE DEF y, x
    <3>. QED BY <1>1, <3>1, <3>2 DEF AskTyped, SameQuestion
  <2>5. Retrieve(s) => \E f \in FindHits(s, x.intent) :
                         Becomes(s, [x EXCEPT !.phase = "retrieved", !.found = f])
    BY DEF Retrieve
  <2>6. WriteText(s) => \E t : Becomes(s, [x EXCEPT !.phase = "written", !.text = t])
    BY DEF WriteText
  <2>7. RetryWithoutExact(s) =>
          \/ \E f \in FindHits(s, "faq") : \E t : Becomes(s, [x EXCEPT !.found = f, !.text = t])
          \/ Becomes(s, [x EXCEPT !.phase = "ungrounded"])
    BY DEF RetryWithoutExact
  <2>8. \A intent : \A f \in FindHits(s, intent) : Len(f.areas) \in 0 .. MaxHits
    BY HitsAre
  <2>. HIDE DEF x, Good
  <2>. QED BY <2>1, <2>2, <2>3, <2>4, <2>5, <2>6, <2>7, <2>8
<1>3. PICK r : AskTyped(r) /\ Becomes(s, r)
  BY <1>2
<1>. QED BY <1>3, AskMovesTyped DEF Becomes

LEMMA RefusalsTyped ==
  ASSUME PathInv, PathTypes, NEW s \in Conversations,
         \/ Greet(s) \/ RefuseUnsupported(s) \/ RefuseClarify(s) \/ RefuseEmpty(s)
         \/ RefuseInvalid(s) \/ RefuseUncited(s)
  PROVE  PathTypes'
<1>1. PICK outcome : Refuses(s, outcome)
  BY DEF Greet, RefuseUnsupported, RefuseClarify, RefuseEmpty, RefuseInvalid, RefuseUncited
<1>2. asking[s].phase # "idle"
  BY DEF Greet, RefuseUnsupported, RefuseClarify, RefuseEmpty, RefuseInvalid, RefuseUncited,
         Ungrounded, Missed, LooksUp
<1>3. Replies(s, About(s, outcome)) /\ UNCHANGED kept
  BY <1>1 DEF Refuses
<1>4. \A e \in kept' : e.hits \in 0 .. MaxHits
  BY <1>3 DEF PathTypes
<1>. QED BY <1>2, <1>3, <1>4, RepliesTyped

LEMMA HitTyped ==
  ASSUME PathInv, PathTypes, NEW s \in Conversations, HitCache(s) PROVE PathTypes'
<1>1. PICK r : Replies(s, r)
  BY DEF HitCache
<1>2. asking[s].phase # "idle" /\ UNCHANGED kept
  BY DEF HitCache, LooksUp
<1>3. \A e \in kept' : e.hits \in 0 .. MaxHits
  BY <1>2 DEF PathTypes
<1>. QED BY <1>1, <1>2, <1>3, RepliesTyped

LEMMA AnswerTyped ==
  ASSUME PathInv, PathTypes, NEW s \in Conversations, Answer(s) PROVE PathTypes'
<1>. DEFINE hits == Len(asking[s].found.areas)
            r == [About(s, "answer") EXCEPT
                 !.cards = Cards(s), !.shown = CitedMarkers(Expand(asking[s].text)),
                 !.hits = hits, !.note = MissingNote(s),
                 !.asFor = asking[s].query]
            new == [key |-> KeyOf(s), cards |-> r.cards, shown |-> r.shown,
                    hits |-> r.hits, note |-> r.note, asFor |-> r.asFor]
<1>1. Replies(s, r) /\ asking[s].phase = "written" /\ kept' \subseteq kept \cup {new}
  BY DEF Answer
<1>2. r.hits = hits
  BY CardedIs
<1>3. hits \in 0 .. MaxHits
  BY DEF PathTypes, AskTyped
<1>4. new.hits = hits
  <2>. HIDE DEF r, hits
  <2>. QED BY <1>2
<1>. HIDE DEF r, new, hits
<1>5. \A e \in kept' : e.hits \in 0 .. MaxHits
  BY <1>1, <1>3, <1>4 DEF PathTypes
<1>. QED BY <1>1, <1>5, RepliesTyped

LEMMA PathInit_Types == PathInit => PathTypes
<1>. SUFFICES ASSUME PathInit PROVE PathTypes
  OBVIOUS
<1>1. turns \in [Conversations -> Seq(Questions)] /\ \A s \in Conversations : Len(turns[s]) =< MemoryTurns
  BY HistoryAssumption DEF PathInit
<1>2. kept = {} /\ \A s \in Conversations : asking[s] = NotAsked
  BY DEF PathInit
<1>. QED BY <1>1, <1>2, NotAskedTyped DEF PathTypes

LEMMA PathStep_Types == PathInv /\ PathTypes /\ [PathNext]_pathVars => PathTypes'
<1>. SUFFICES ASSUME PathInv, PathTypes, [PathNext]_pathVars PROVE PathTypes'
  OBVIOUS
<1>1. ASSUME NEW s \in Conversations, NEW q \in Questions, BeginQuestion(s, q) PROVE PathTypes'
  BY <1>1, BeginTyped
<1>2. ASSUME NEW s \in Conversations, RouteQuestion(s) \/ HitCache(s) \/ Answer(s)
      PROVE  PathTypes'
  BY <1>2, RouteTyped, HitTyped, AnswerTyped
<1>3. ASSUME NEW s \in Conversations,
             \/ Greet(s) \/ RefuseUnsupported(s) \/ RefuseClarify(s) \/ RefuseEmpty(s)
             \/ RefuseInvalid(s) \/ RefuseUncited(s)
      PROVE  PathTypes'
  BY <1>3, RefusalsTyped
<1>4. ASSUME NEW s \in Conversations, Retrieve(s) \/ WriteText(s) \/ RetryWithoutExact(s)
      PROVE  PathTypes'
  BY <1>4, WorkTyped
<1>5. ASSUME NEW s \in Conversations, FailQuestion(s) PROVE PathTypes'
  BY <1>5, NotAskedTyped, AskMovesTyped DEF FailQuestion, Becomes
<1>6. ASSUME NEW e \in kept, ExpireAnswer(e) PROVE PathTypes'
  BY <1>6 DEF ExpireAnswer, PathTypes
<1>7. CASE UNCHANGED pathVars
  BY <1>7 DEF pathVars, PathTypes
<1>. QED BY <1>1, <1>2, <1>3, <1>4, <1>5, <1>6, <1>7 DEF PathNext

LEMMA PathTypesHold == PathInv /\ PathTypes => PathTypeOK
<1>. SUFFICES ASSUME PathInv, PathTypes PROVE PathTypeOK
  OBVIOUS
<1>1. ASSUME NEW e \in kept PROVE e.cards \subseteq 1 .. MaxHits
  <2>1. e.cards \subseteq 1 .. e.hits /\ e.hits \in 0 .. MaxHits
    BY DEF PathInv, PathTypes, WellCarded
  <2>. QED BY <2>1, HistoryAssumption
<1>. QED BY <1>1 DEF PathTypes, PathTypeOK, AskTyped, Areas

\* A conversation remembers no more turns than the setting allows, a question is
\* routed to products there are, and a cached answer has no more cards than a
\* search has hits, for any questions, histories and settings.
THEOREM PathTyped == PathSpec => []PathTypeOK
<1>. QED BY PathTypesHold, PathInit_Inv, PathStep_Inv, PathInit_Types, PathStep_Types, PTL DEF PathSpec

----------------------------------------------------------------------------
(* RequestGuards.                                                          *)

\* What a request holds at time t: a reading of the clock that is not too old,
\* and while it has a bucket to ask, that bucket.
Timely(r, t) ==
  /\ r.step = "solved" => /\ r.challenge \in Challenges
                          /\ r.now <= t /\ t <= r.now + MaxDelay
                          /\ Expiry[r.challenge] > r.now
  /\ r.step = "asked" => r.left # <<>> /\ r.now <= t /\ t <= r.now + MaxDelay
  /\ r.step = "late" => r.left # <<>> /\ r.now <= t

RequestsInv ==
  /\ clock \in Nat
  /\ request \in [Requests -> Request]
  /\ \A q \in Requests : Timely(request[q], clock)

\* The hits of a bucket, and what the history has of them: an admitted hit that
\* is still in the window is in the bucket.
HitsInv ==
  /\ bucket \in [Buckets -> SUBSET Hit]
  /\ admitted \in [Buckets -> SUBSET Hit]
  /\ \A b \in Buckets : IsFiniteSet(bucket[b])
  /\ \A b \in Buckets : \A h \in bucket[b] : h.stamp <= h.ran
  /\ \A b \in Buckets : \A h \in admitted[b] :
       /\ h.ran <= h.stamp + MaxDelay
       /\ h.stamp + Window[b] > clock => h \in bucket[b]

\* A solution that was taken has its row, or expired longer ago than any request
\* may have waited with it.
SolutionsInv ==
  /\ paid \in [Challenges -> SUBSET Requests]
  /\ \A c \in Challenges : paid[c] # {} => c \in used \/ Expiry[c] + Margin < clock

WindowsInv == WindowIsBounded /\ \A b \in Buckets : IsFiniteSet(RecentlyAdmitted(b))

GuardsInv == RequestsInv /\ HitsInv /\ SolutionsInv /\ WindowsInv /\ SolutionPaysOnce

LEMMA Constants ==
  /\ Limit \in [Buckets -> Nat] /\ Window \in [Buckets -> Nat]
  /\ Expiry \in [Challenges -> Nat]
  /\ Margin \in Nat /\ MaxDelay \in Nat /\ MaxDelay <= Margin
BY RequestGuardsAssumption

----------------------------------------------------------------------------
(* Requests.                                                                *)

LEMMA RouteType ==
  ASSUME NEW v \in Visitors, NEW kind \in Kinds
  PROVE  Route(kind, v) \in Seq(Buckets)
<1>1. v \in Buckets /\ Global \in Buckets /\ Interval \in Buckets /\ Address \in Buckets
  BY DEF Buckets
<1>2. kind = "page" \/ kind = "link"
  BY DEF Kinds
<1>3. <<v, Global>> \in Seq(Buckets) /\ <<v, Global, Interval, Address>> \in Seq(Buckets)
  BY <1>1
<1>. QED BY <1>2, <1>3 DEF Route

\* One request moves to a record that is timely.
LEMMA RequestMoves ==
  ASSUME RequestsInv, NEW q \in Requests, NEW r \in Request, Timely(r, clock),
         request' = [request EXCEPT ![q] = r], clock' = clock
  PROVE  RequestsInv'
BY DEF RequestsInv

LEMMA ArriveRequests ==
  ASSUME RequestsInv, NEW q \in Requests, NEW kind \in Kinds, NEW v \in Visitors,
         NEW c \in Challenges \cup {None}, Arrive(q, kind, v, c)
  PROVE  RequestsInv'
<1>. DEFINE r == [step |-> IF c = None THEN "waiting" ELSE "solved", challenge |-> c,
                  left |-> Route(kind, v), now |-> IF c = None THEN 0 ELSE clock]
<1>1. r \in Request
  BY RouteType DEF RequestsInv, Request
<1>2. Timely(r, clock)
  BY Constants DEF Arrive, Timely, RequestsInv
<1>3. request' = [request EXCEPT ![q] = r] /\ clock' = clock
  BY DEF Arrive
<1>. HIDE DEF r
<1>. QED BY <1>1, <1>2, <1>3, RequestMoves

LEMMA WaitsRequests ==
  ASSUME RequestsInv, NEW q \in Requests, NEW left \in Seq(Buckets), Waits(q, left),
         clock' = clock
  PROVE  RequestsInv'
<1>. DEFINE r == [step |-> "waiting", challenge |-> None, left |-> left, now |-> 0]
<1>1. r \in Request /\ Timely(r, clock)
  BY DEF Request, Timely
<1>2. request' = [request EXCEPT ![q] = r]
  BY DEF Waits
<1>. HIDE DEF r
<1>. QED BY <1>1, <1>2, RequestMoves

LEMMA RefusedRequests ==
  ASSUME RequestsInv, NEW q \in Requests, Refused(q), clock' = clock
  PROVE  RequestsInv'
<1>. DEFINE r == [step |-> "refused", challenge |-> None, left |-> <<>>, now |-> 0]
<1>1. r \in Request /\ Timely(r, clock)
  BY DEF Request, Timely
<1>2. request' = [request EXCEPT ![q] = r]
  BY DEF Refused
<1>. HIDE DEF r
<1>. QED BY <1>1, <1>2, RequestMoves

LEMMA RequestParts ==
  ASSUME RequestsInv, NEW q \in Requests
  PROVE  /\ request[q] \in Request /\ request[q].now \in Nat
         /\ request[q].left \in Seq(Buckets)
         /\ clock \in Nat /\ Timely(request[q], clock)
BY DEF RequestsInv, Request

LEMMA StepRequests ==
  ASSUME RequestsInv, NEW q \in Requests, GuardStep(q)
  PROVE  RequestsInv' /\ clock' = clock
<1>1. CASE \E kind \in Kinds, v \in Visitors, c \in Challenges \cup {None} : Arrive(q, kind, v, c)
  BY <1>1, ArriveRequests DEF Arrive
<1>2. CASE UseOnce(q)
  BY <1>2, RequestParts, WaitsRequests, RefusedRequests DEF UseOnce
<1>3. CASE ReadClock(q)
  <2>. DEFINE r == [request[q] EXCEPT !.step = "asked", !.now = clock]
  <2>1. r \in Request
    BY RequestParts DEF Request
  <2>2. Timely(r, clock)
    BY <1>3, RequestParts, Constants DEF ReadClock, Timely, Request
  <2>3. request' = [request EXCEPT ![q] = r] /\ clock' = clock
    BY <1>3 DEF ReadClock
  <2>. HIDE DEF r
  <2>. QED BY <2>1, <2>2, <2>3, RequestMoves
<1>4. CASE Check(q)
  <2>1. Tail(request[q].left) \in Seq(Buckets)
    BY <1>4, RequestParts DEF Check, Timely
  <2>. QED BY <1>4, <2>1, WaitsRequests, RefusedRequests DEF Check
<1>5. CASE RedisFails(q)
  <2>. DEFINE r == [request[q] EXCEPT !.step = "late"]
  <2>1. r \in Request
    BY RequestParts DEF Request
  <2>2. Timely(r, clock)
    BY <1>5, RequestParts DEF RedisFails, Timely, Request
  <2>3. request' = [request EXCEPT ![q] = r] /\ clock' = clock
    BY <1>5 DEF RedisFails
  <2>. HIDE DEF r
  <2>. QED BY <2>1, <2>2, <2>3, RequestMoves
<1>6. CASE RunsLate(q)
  BY <1>6, RefusedRequests DEF RunsLate
<1>. QED BY <1>1, <1>2, <1>3, <1>4, <1>5, <1>6 DEF GuardStep

\* Time passes no request that must not wait longer.
LEMMA TickRequests == ASSUME RequestsInv, Tick PROVE RequestsInv'
<1>1. clock' = clock + 1 /\ clock \in Nat /\ request' = request
  BY DEF Tick, RequestsInv
<1>2. ASSUME NEW q \in Requests PROVE Timely(request[q], clock + 1)
  <2>1. request[q].step \in {"solved", "asked"} => clock < request[q].now + MaxDelay
    BY DEF Tick, Hurried
  <2>. QED BY <1>1, <2>1, RequestParts, Constants DEF Timely
<1>. QED BY <1>1, <1>2 DEF RequestsInv
----------------------------------------------------------------------------
(* Hits.                                                                    *)

\* The hits a script keeps at a time that is not ahead of the clock: all that
\* count now are among them.
LEMMA KeptIsCurrent ==
  ASSUME RequestsInv, HitsInv, NEW b \in Buckets, NEW now \in Nat, now <= clock
  PROVE  /\ Kept(b, now) \subseteq bucket[b]
         /\ IsFiniteSet(Kept(b, now))
         /\ \A h \in admitted[b] : h.stamp + Window[b] > clock => h \in Kept(b, now)
<1>1. Kept(b, now) \subseteq bucket[b]
  BY DEF Kept
<1>2. IsFiniteSet(Kept(b, now))
  BY <1>1, FS_Subset DEF HitsInv
<1>3. ASSUME NEW h \in admitted[b], h.stamp + Window[b] > clock PROVE h \in Kept(b, now)
  <2>1. h \in bucket[b]
    BY <1>3 DEF HitsInv
  <2>2. h.stamp \in Nat /\ Window[b] \in Nat /\ clock \in Nat
    BY Constants DEF HitsInv, Hit, RequestsInv
  <2>3. h.stamp > now - Window[b]
    BY <1>3, <2>2
  <2>. QED BY <2>1, <2>3 DEF Kept
<1>. QED BY <1>1, <1>2, <1>3

\* A script that found `now` leaves the hits `new`, of which `hit` may be one that
\* is admitted.
LEMMA HitAdded ==
  ASSUME RequestsInv, HitsInv, NEW b \in Buckets, NEW now \in Nat, now <= clock,
         NEW hit \in Hit, hit.stamp = now, hit.ran = clock,
         NEW new, new = Added(b, now, hit),
         bucket' = [bucket EXCEPT ![b] = new], clock' = clock,
         \/ UNCHANGED admitted
         \/ /\ Admits(b, now) /\ clock <= now + MaxDelay
            /\ admitted' = [admitted EXCEPT ![b] = @ \cup {hit}]
  PROVE  HitsInv'
<1>1. clock \in Nat
  BY DEF RequestsInv
<1>2. /\ Kept(b, now) \subseteq bucket[b] /\ IsFiniteSet(Kept(b, now))
      /\ \A h \in admitted[b] : h.stamp + Window[b] > clock => h \in Kept(b, now)
  BY KeptIsCurrent
<1>3. /\ Kept(b, now) \subseteq new /\ new \subseteq Kept(b, now) \cup {hit}
      /\ Admits(b, now) => hit \in new
  BY DEF Added
<1>4. IsFiniteSet(new)
  <2>1. IsFiniteSet(Kept(b, now) \cup {hit})
    BY <1>2, FS_AddElement
  <2>. QED BY <1>3, <2>1, FS_Subset
<1>5. \A d \in Buckets : d # b => admitted'[d] = admitted[d] /\ bucket'[d] = bucket[d]
  BY DEF HitsInv
<1>6. admitted'[b] \subseteq admitted[b] \cup {hit} /\ admitted' \in [Buckets -> SUBSET Hit]
  BY DEF HitsInv
<1>7. ASSUME NEW h \in admitted'[b]
      PROVE  /\ h.ran <= h.stamp + MaxDelay
             /\ h.stamp + Window[b] > clock => h \in new
  <2>1. CASE h \in admitted[b]
    BY <1>2, <1>3, <2>1 DEF HitsInv
  <2>2. CASE h \notin admitted[b]
    <3>1. h = hit /\ Admits(b, now) /\ clock <= now + MaxDelay
      BY <1>6, <2>2
    <3>. QED BY <1>3, <3>1
  <2>. QED BY <2>1, <2>2
<1>8. new \subseteq Hit
  BY <1>2, <1>3 DEF HitsInv
<1>9. \A h \in new : h.stamp <= h.ran
  <2>1. \A h \in bucket[b] : h.stamp <= h.ran
    BY DEF HitsInv
  <2>2. hit.stamp <= hit.ran
    BY <1>1
  <2>. QED BY <1>2, <1>3, <2>1, <2>2
<1>10. bucket' \in [Buckets -> SUBSET Hit] /\ bucket'[b] = new
  BY <1>8 DEF HitsInv
<1>11. \A d \in Buckets : IsFiniteSet(bucket'[d])
  BY <1>4, <1>5, <1>10 DEF HitsInv
<1>12. \A d \in Buckets : \A h \in bucket'[d] : h.stamp <= h.ran
  BY <1>5, <1>9, <1>10 DEF HitsInv
<1>13. \A d \in Buckets : \A h \in admitted'[d] :
          /\ h.ran <= h.stamp + MaxDelay
          /\ h.stamp + Window[d] > clock => h \in bucket'[d]
  BY <1>7, <1>5, <1>10 DEF HitsInv
<1>. QED BY <1>6, <1>10, <1>11, <1>12, <1>13 DEF HitsInv

\* The script runs, in time (the request is told, and the hit is admitted) or
\* late (it is not).
LEMMA ScriptHits ==
  ASSUME RequestsInv, HitsInv, NEW q \in Requests, NEW b \in Buckets,
         request[q].now <= clock,
         bucket' = [bucket EXCEPT ![b] = Added(b, request[q].now, TheHit(q))],
         clock' = clock,
         \/ UNCHANGED admitted
         \/ /\ Admits(b, request[q].now) /\ clock <= request[q].now + MaxDelay
            /\ admitted' = [admitted EXCEPT ![b] = @ \cup {TheHit(q)}]
  PROVE  HitsInv'
<1>1. request[q].now \in Nat /\ clock \in Nat
  BY RequestParts
<1>2. TheHit(q) \in Hit /\ TheHit(q).stamp = request[q].now /\ TheHit(q).ran = clock
  BY <1>1 DEF TheHit, Hit
<1>. QED BY <1>1, <1>2, HitAdded

LEMMA TickHits == ASSUME RequestsInv, HitsInv, Tick PROVE HitsInv'
<1>1. /\ clock' = clock + 1 /\ clock \in Nat /\ admitted' = admitted
      /\ bucket' = [b \in Buckets |-> IF Expired(b) THEN {} ELSE bucket[b]]
  BY DEF Tick, RequestsInv
<1>2. \A b \in Buckets : bucket'[b] \in {{}, bucket[b]}
  BY <1>1
<1>3. \A b \in Buckets : IsFiniteSet(bucket'[b]) /\ bucket'[b] \subseteq bucket[b]
  BY <1>2, FS_EmptySet DEF HitsInv
<1>4. ASSUME NEW b \in Buckets, NEW h \in admitted[b], h.stamp + Window[b] > clock + 1
      PROVE  h \in bucket'[b]
  <2>1. h.stamp \in Nat /\ h.ran \in Nat /\ Window[b] \in Nat
    BY Constants DEF HitsInv, Hit
  <2>2. h \in bucket[b] /\ h.stamp <= h.ran
    BY <1>1, <1>4, <2>1 DEF HitsInv
  <2>3. ~ Expired(b)
    BY <1>1, <1>4, <2>1, <2>2 DEF Expired
  <2>. QED BY <1>1, <2>2, <2>3
<1>5. bucket' \in [Buckets -> SUBSET Hit]
  BY <1>1, <1>3 DEF HitsInv
<1>. QED BY <1>1, <1>3, <1>4, <1>5 DEF HitsInv
----------------------------------------------------------------------------
(* Windows.                                                                 *)

\* Where nothing is admitted, the hits that count only become fewer.
LEMMA WindowsShrink ==
  ASSUME RequestsInv, HitsInv, WindowsInv, UNCHANGED admitted, clock' \in Nat, clock <= clock'
  PROVE  WindowsInv'
<1>1. ASSUME NEW b \in Buckets
      PROVE  /\ IsFiniteSet(RecentlyAdmitted(b)')
             /\ Cardinality(RecentlyAdmitted(b)') <= Limit[b]
  <2>1. RecentlyAdmitted(b)' \subseteq RecentlyAdmitted(b)
    <3>1. ASSUME NEW h \in admitted[b], h.ran + Window[b] > clock' + MaxDelay
          PROVE  h.ran + Window[b] > clock + MaxDelay
      <4>1. h.ran \in Nat /\ Window[b] \in Nat /\ clock \in Nat /\ MaxDelay \in Nat
        BY Constants DEF HitsInv, Hit, RequestsInv
      <4>. QED BY <3>1, <4>1
    <3>. QED BY <3>1 DEF RecentlyAdmitted
  <2>2. IsFiniteSet(RecentlyAdmitted(b)) /\ Cardinality(RecentlyAdmitted(b)) <= Limit[b]
    BY DEF WindowsInv, WindowIsBounded
  <2>3. /\ IsFiniteSet(RecentlyAdmitted(b)')
        /\ Cardinality(RecentlyAdmitted(b)') <= Cardinality(RecentlyAdmitted(b))
    BY <2>1, <2>2, FS_Subset
  <2>4. /\ Cardinality(RecentlyAdmitted(b)') \in Nat
        /\ Cardinality(RecentlyAdmitted(b)) \in Nat /\ Limit[b] \in Nat
    BY <2>2, <2>3, FS_CardinalityType, Constants
  <2>. QED BY <2>2, <2>3, <2>4
<1>. QED BY <1>1 DEF WindowsInv, WindowIsBounded

\* A hit is admitted only where the hits that count, all of which the script has
\* kept, are fewer than the limit.
LEMMA WindowsGrow ==
  ASSUME RequestsInv, HitsInv, WindowsInv, NEW b \in Buckets, NEW now \in Nat,
         now <= clock, Admits(b, now), NEW hit,
         admitted' = [admitted EXCEPT ![b] = @ \cup {hit}], clock' = clock
  PROVE  WindowsInv'
<1>1. /\ IsFiniteSet(Kept(b, now))
      /\ \A h \in admitted[b] : h.stamp + Window[b] > clock => h \in Kept(b, now)
  BY KeptIsCurrent
<1>2. RecentlyAdmitted(b) \subseteq Kept(b, now)
  <2>1. ASSUME NEW h \in admitted[b], h.ran + Window[b] > clock + MaxDelay
        PROVE  h.stamp + Window[b] > clock
    <3>1. h \in Hit /\ h.ran <= h.stamp + MaxDelay
      BY DEF HitsInv
    <3>2. h.ran \in Nat /\ h.stamp \in Nat
      BY <3>1 DEF Hit
    <3>3. Window[b] \in Nat /\ clock \in Nat /\ MaxDelay \in Nat
      BY Constants DEF RequestsInv
    <3>. QED BY <2>1, <3>1, <3>2, <3>3
  <2>. QED BY <1>1, <2>1 DEF RecentlyAdmitted
<1>3. RecentlyAdmitted(b)' \subseteq Kept(b, now) \cup {hit}
  <2>1. admitted'[b] = admitted[b] \cup {hit}
    BY DEF HitsInv
  <2>. QED BY <1>2, <2>1 DEF RecentlyAdmitted
<1>4. /\ IsFiniteSet(Kept(b, now) \cup {hit})
      /\ Cardinality(Kept(b, now) \cup {hit}) <= Limit[b]
  <2>1. Cardinality(Kept(b, now)) \in Nat /\ Limit[b] \in Nat
    BY <1>1, FS_CardinalityType, Constants
  <2>2. Cardinality(Kept(b, now)) + 1 <= Limit[b]
    BY <2>1 DEF Admits
  <2>3. /\ IsFiniteSet(Kept(b, now) \cup {hit})
        /\ \/ Cardinality(Kept(b, now) \cup {hit}) = Cardinality(Kept(b, now))
           \/ Cardinality(Kept(b, now) \cup {hit}) = Cardinality(Kept(b, now)) + 1
    BY <1>1, FS_AddElement
  <2>. QED BY <2>1, <2>2, <2>3
<1>5. /\ IsFiniteSet(RecentlyAdmitted(b)')
      /\ Cardinality(RecentlyAdmitted(b)') <= Limit[b]
  <2>1. /\ IsFiniteSet(RecentlyAdmitted(b)')
        /\ Cardinality(RecentlyAdmitted(b)') <= Cardinality(Kept(b, now) \cup {hit})
    BY <1>3, <1>4, FS_Subset
  <2>2. /\ Cardinality(RecentlyAdmitted(b)') \in Nat /\ Limit[b] \in Nat
        /\ Cardinality(Kept(b, now) \cup {hit}) \in Nat
    BY <1>4, <2>1, FS_CardinalityType, Constants
  <2>. QED BY <1>4, <2>1, <2>2
<1>6. ASSUME NEW d \in Buckets, d # b
      PROVE  /\ IsFiniteSet(RecentlyAdmitted(d)')
             /\ Cardinality(RecentlyAdmitted(d)') <= Limit[d]
  <2>1. admitted'[d] = admitted[d]
    BY <1>6 DEF HitsInv
  <2>2. RecentlyAdmitted(d)' = RecentlyAdmitted(d)
    BY <2>1 DEF RecentlyAdmitted
  <2>. QED BY <2>2 DEF WindowsInv, WindowIsBounded
<1>. QED BY <1>5, <1>6 DEF WindowsInv, WindowIsBounded

----------------------------------------------------------------------------
(* Solutions.                                                               *)

\* Nothing is taken, no row goes, and time does not go back.
LEMMA SolutionsStand ==
  ASSUME RequestsInv, SolutionsInv, SolutionPaysOnce, UNCHANGED <<used, paid>>,
         clock' \in Nat, clock <= clock'
  PROVE  SolutionsInv' /\ SolutionPaysOnce'
<1>1. ASSUME NEW c \in Challenges, Expiry[c] + Margin < clock
      PROVE  Expiry[c] + Margin < clock'
  BY <1>1, Constants DEF RequestsInv
<1>. QED BY <1>1 DEF SolutionsInv, SolutionPaysOnce

\* A solution is taken only where no request was let on with it: its row may be
\* gone, but then it expired before anybody still waiting could present it.
LEMMA SolutionTaken ==
  ASSUME RequestsInv, SolutionsInv, SolutionPaysOnce, NEW q \in Requests, UseOnce(q)
  PROVE  SolutionsInv' /\ SolutionPaysOnce'
<1>. DEFINE c == request[q].challenge
            now == request[q].now
<1>1. /\ c \in Challenges /\ now \in Nat /\ clock \in Nat /\ now <= clock
      /\ clock <= now + MaxDelay /\ Expiry[c] > now
  BY RequestParts DEF UseOnce, Timely
<1>2. CASE c \in Cleaned(now)
  BY <1>2 DEF UseOnce, SolutionsInv, SolutionPaysOnce
<1>3. CASE c \notin Cleaned(now)
  <2>1. used' = Cleaned(now) \cup {c} /\ paid' = [paid EXCEPT ![c] = @ \cup {q}]
        /\ clock' = clock
    BY <1>3 DEF UseOnce
  <2>2. c \notin used
    BY <1>1, <1>3, Constants DEF Cleaned
  <2>3. paid[c] = {}
    <3>1. ~ (Expiry[c] + Margin < clock)
      BY <1>1, Constants
    <3>. QED BY <1>1, <2>2, <3>1 DEF SolutionsInv
  <2>4. paid'[c] = {q} /\ \A d \in Challenges : d # c => paid'[d] = paid[d]
    BY <1>1, <2>1, <2>3 DEF SolutionsInv
  <2>5. paid' \in [Challenges -> SUBSET Requests]
    BY <1>1, <2>1 DEF SolutionsInv
  <2>6. ASSUME NEW d \in Challenges, paid'[d] # {}
        PROVE  d \in used' \/ Expiry[d] + Margin < clock'
    <3>1. CASE d = c
      BY <2>1, <3>1
    <3>2. CASE d # c
      <4>1. d \in used \/ Expiry[d] + Margin < clock
        BY <2>4, <2>6, <3>2 DEF SolutionsInv
      <4>2. CASE d \in used
        <5>1. Expiry[d] >= now - Margin \/ Expiry[d] + Margin < clock
          BY <1>1, Constants
        <5>. QED BY <2>1, <4>2, <5>1 DEF Cleaned
      <4>. QED BY <2>1, <4>1, <4>2
    <3>. QED BY <3>1, <3>2
  <2>7. \A d \in Challenges : Cardinality(paid'[d]) <= 1
    <3>1. Cardinality(paid'[c]) = 1
      BY <2>4, FS_Singleton
    <3>. QED BY <2>4, <3>1 DEF SolutionPaysOnce
  <2>. QED BY <2>5, <2>6, <2>7 DEF SolutionsInv, SolutionPaysOnce
<1>. QED BY <1>2, <1>3

----------------------------------------------------------------------------
LEMMA GuardsInit_Inv == GuardsInit => GuardsInv
<1>. SUFFICES ASSUME GuardsInit PROVE GuardsInv
  OBVIOUS
<1>1. RequestsInv
  BY DEF GuardsInit, RequestsInv, Request, Idle, Timely
<1>2. HitsInv
  BY FS_EmptySet DEF GuardsInit, HitsInv
<1>3. SolutionsInv
  BY DEF GuardsInit, SolutionsInv
<1>4. WindowsInv
  <2>1. \A b \in Buckets : RecentlyAdmitted(b) = {} /\ Limit[b] \in Nat
    BY Constants DEF GuardsInit, RecentlyAdmitted
  <2>2. IsFiniteSet({}) /\ Cardinality({}) = 0
    BY FS_EmptySet
  <2>. QED BY <2>1, <2>2 DEF WindowsInv, WindowIsBounded
<1>5. SolutionPaysOnce
  BY FS_EmptySet DEF GuardsInit, SolutionPaysOnce
<1>. QED BY <1>1, <1>2, <1>3, <1>4, <1>5 DEF GuardsInv

LEMMA GuardsStep_Inv == GuardsInv /\ [GuardsNext]_guardVars => GuardsInv'
<1>. SUFFICES ASSUME GuardsInv, [GuardsNext]_guardVars PROVE GuardsInv'
  OBVIOUS
<1>0. RequestsInv /\ HitsInv /\ SolutionsInv /\ WindowsInv /\ SolutionPaysOnce
      /\ clock \in Nat
  BY DEF GuardsInv, RequestsInv
<1>1. CASE Tick
  <2>1. clock' \in Nat /\ clock <= clock' /\ UNCHANGED <<used, paid, admitted>>
    BY <1>0, <1>1 DEF Tick
  <2>. QED
    BY <1>0, <1>1, <2>1, TickRequests, TickHits, WindowsShrink, SolutionsStand DEF GuardsInv
<1>2. ASSUME NEW q \in Requests, GuardStep(q) PROVE GuardsInv'
  <2>0. RequestsInv' /\ clock' = clock /\ clock' \in Nat /\ clock <= clock'
    BY <1>0, <1>2, StepRequests
  <2>1. CASE UNCHANGED <<bucket, used, admitted, paid>>
    <3>1. HitsInv'
      BY <1>0, <2>0, <2>1 DEF HitsInv
    <3>. QED BY <1>0, <2>0, <2>1, <3>1, WindowsShrink, SolutionsStand DEF GuardsInv
  <2>2. CASE UseOnce(q)
    <3>1. UNCHANGED <<bucket, admitted>>
      BY <2>2 DEF UseOnce
    <3>2. HitsInv'
      BY <1>0, <2>0, <3>1 DEF HitsInv
    <3>. QED BY <1>0, <2>0, <2>2, <3>1, <3>2, WindowsShrink, SolutionTaken DEF GuardsInv
  <2>3. CASE Check(q) \/ RunsLate(q)
    <3>. DEFINE b == Head(request[q].left)
    <3>1. /\ b \in Buckets /\ request[q].now \in Nat /\ request[q].now <= clock
          /\ Check(q) => clock <= request[q].now + MaxDelay
      BY <1>0, <2>3, RequestParts DEF Check, RunsLate, Timely
    <3>2. UNCHANGED <<used, paid>>
      BY <2>3 DEF Check, RunsLate
    <3>3. /\ bucket' = [bucket EXCEPT ![b] = Added(b, request[q].now, TheHit(q))]
          /\ \/ UNCHANGED admitted
             \/ /\ Admits(b, request[q].now) /\ clock <= request[q].now + MaxDelay
                /\ admitted' = [admitted EXCEPT ![b] = @ \cup {TheHit(q)}]
      BY <2>3, <3>1 DEF Check, RunsLate
    <3>. HIDE DEF b
    <3>4. HitsInv'
      BY <1>0, <2>0, <3>1, <3>3, ScriptHits
    <3>5. WindowsInv'
      BY <1>0, <2>0, <3>1, <3>3, WindowsShrink, WindowsGrow
    <3>. QED BY <1>0, <2>0, <3>2, <3>4, <3>5, SolutionsStand DEF GuardsInv
  <2>. QED BY <1>2, <2>1, <2>2, <2>3 DEF GuardStep, Arrive, ReadClock, RedisFails
<1>3. CASE UNCHANGED guardVars
  <2>1. RequestsInv'
    BY <1>0, <1>3 DEF guardVars, RequestsInv
  <2>2. HitsInv'
    BY <1>0, <1>3 DEF guardVars, HitsInv
  <2>. QED BY <1>0, <1>3, <2>1, <2>2, WindowsShrink, SolutionsStand DEF guardVars, GuardsInv
<1>. QED BY <1>1, <1>2, <1>3 DEF GuardsNext

\* What the two guards rest on is an invariant of the specification.
THEOREM GuardsHold == GuardsSpec => []GuardsInv
BY GuardsInit_Inv, GuardsStep_Inv, PTL DEF GuardsSpec

\* The script admits no more than the limit of a bucket in its window, shorter by
\* the longest wait (rate_limit.py), for any number of requests and buckets.
THEOREM EveryWindowIsBounded == GuardsSpec => []WindowIsBounded
<1>1. GuardsInv => WindowIsBounded
  BY DEF GuardsInv, WindowsInv
<1>. QED BY <1>1, GuardsHold, PTL

\* A proof-of-work solution lets one request on, also after its row was deleted
\* (bot_check.py), where no request waits longer than the margin.
THEOREM EverySolutionPaysOnce == GuardsSpec => []SolutionPaysOnce
<1>1. GuardsInv => SolutionPaysOnce
  BY DEF GuardsInv
<1>. QED BY <1>1, GuardsHold, PTL

\* The types of the guards: of what GuardsInv leaves out, only a request that has
\* not paid yet holds a solution, and rows are of challenges (bot_check.py).
THEOREM GuardsTyped == GuardsSpec => []GuardsTypeOK
<1>. DEFINE Holds == /\ \A q \in Requests : request[q].challenge # None <=> request[q].step = "solved"
                     /\ used \in SUBSET Challenges
<1>1. GuardsInit => Holds
  BY DEF GuardsInit, Idle
<1>2. ASSUME GuardsInv, Holds, [GuardsNext]_guardVars PROVE Holds'
  <2>0. request \in [Requests -> Request] /\ None \notin Challenges
        /\ \A q \in Requests : request[q].step = "solved" => request[q].challenge \in Challenges
    BY <1>2, RequestGuardsAssumption DEF GuardsInv, RequestsInv, Timely
  <2>1. CASE Tick \/ UNCHANGED guardVars
    BY <1>2, <2>1 DEF Tick, guardVars
  <2>2. ASSUME NEW q \in Requests, GuardStep(q) PROVE Holds'
    <3>1. ASSUME NEW kind \in Kinds, NEW v \in Visitors, NEW c \in Challenges \cup {None},
                 Arrive(q, kind, v, c)
          PROVE  Holds'
      BY <1>2, <2>0, <3>1 DEF Arrive
    <3>2. CASE UseOnce(q)
      <4>1. used' \subseteq used \cup {request[q].challenge}
        BY <3>2 DEF UseOnce, Cleaned
      <4>2. request[q].challenge \in Challenges
        BY <2>0, <3>2 DEF UseOnce
      <4>3. used' \in SUBSET Challenges
        BY <1>2, <4>1, <4>2
      <4>. QED BY <1>2, <2>0, <3>2, <4>3 DEF UseOnce, Refused, Waits
    <3>3. CASE Check(q)
      BY <1>2, <2>0, <3>3 DEF Check, Refused, Waits
    <3>4. CASE ReadClock(q) \/ RedisFails(q)
      <4>1. /\ request'[q].challenge = request[q].challenge
            /\ request[q].step # "solved" /\ request'[q].step # "solved"
        BY <2>0, <3>4 DEF ReadClock, RedisFails, Request
      <4>2. \A p \in Requests \ {q} : request'[p] = request[p]
        BY <2>0, <3>4 DEF ReadClock, RedisFails
      <4>. QED BY <1>2, <3>4, <4>1, <4>2 DEF ReadClock, RedisFails
    <3>5. CASE RunsLate(q)
      BY <1>2, <2>0, <3>5 DEF RunsLate, Refused
    <3>. QED BY <2>2, <3>1, <3>2, <3>3, <3>4, <3>5 DEF GuardStep
  <2>. QED BY <1>2, <2>1, <2>2 DEF GuardsNext
<1>3. GuardsInv /\ Holds => GuardsTypeOK
  BY DEF GuardsInv, RequestsInv, HitsInv, SolutionsInv, GuardsTypeOK
<1>. HIDE DEF Holds
<1>. QED BY <1>1, <1>2, <1>3, GuardsInit_Inv, GuardsStep_Inv, PTL DEF GuardsSpec

----------------------------------------------------------------------------
(* MCGuards.                                                               *)

\* A step of all of them is a step of each, or leaves it alone.
LEMMA ServicesPartsStep ==
  ASSUME [ServicesNext]_<<part, guardVars, draft, pathVars, spaceVars, docVars>>
  PROVE  /\ [GuardsNext]_guardVars /\ [TextNext]_draft /\ [PathNext]_pathVars
         /\ [SpacesNext]_spaceVars /\ [DocNext]_docVars
<1>1. CASE OthersAsleep("guards") /\ GuardsNext
  BY <1>1 DEF OthersAsleep
<1>2. CASE OthersAsleep("text") /\ TextNext
  BY <1>2 DEF OthersAsleep
<1>3. CASE OthersAsleep("answers") /\ PathNext
  BY <1>3 DEF OthersAsleep
<1>4. CASE OthersAsleep("spaces") /\ SpacesNext
  BY <1>4 DEF OthersAsleep
<1>5. CASE OthersAsleep("sources") /\ DocNext
  BY <1>5 DEF OthersAsleep
<1>6. CASE UNCHANGED <<part, guardVars, draft, pathVars, spaceVars, docVars>>
  BY <1>6
<1>. QED BY <1>1, <1>2, <1>3, <1>4, <1>5, <1>6 DEF ServicesNext

\* A behaviour of all of them is one of each: a run of MCGuards checks
\* each part as its own module specifies it.
THEOREM ServicesPartsAreTheirOwn ==
  ServicesSpec => GuardsSpec /\ TextSpec /\ PathSpec /\ SpacesSpec /\ DocSpec
<1>1. ServicesInit => GuardsInit /\ TextInit /\ PathInit /\ SpacesInit /\ DocInit
  BY DEF ServicesInit
<1>. QED
  BY <1>1, ServicesPartsStep, PTL
  DEF ServicesSpec, GuardsSpec, TextSpec, PathSpec, SpacesSpec, DocSpec

\* The types of the guards, the texts, the questions, the vectors and the sources,
\* for any number of each (rate_limit.py, citations.py, orchestrator.py, vector.py,
\* parser.py).
THEOREM ServicesTyped == ServicesSpec => []ServicesTypeOK
<1>1. GuardsTypeOK /\ TextTypeOK /\ PathTypeOK /\ SpacesTypeOK /\ DocTypeOK => ServicesTypeOK
  BY DEF ServicesTypeOK
<1>. QED
  BY <1>1, ServicesPartsAreTheirOwn, GuardsTyped, TextTyped, PathTyped, SpacesTyped, DocTyped, PTL

\* A marker the model writes is read as it stands, and a section of the corpus is
\* found by what stands in it.
THEOREM TextsRead == ServicesSpec => []TextsAreRead
<1>1. MarkersAreRead /\ SectionsAreFound => TextsAreRead
  BY DEF TextsAreRead
<1>. QED
  BY <1>1, ServicesPartsAreTheirOwn, EveryMarkerIsRead, EverySectionIsFound, PTL
=============================================================================
