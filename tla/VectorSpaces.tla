---------------------------- MODULE VectorSpaces ----------------------------
(* Which embedding model made the stored vectors, and which made the        *)
(* question's.                                                              *)
(*                                                                          *)
(* A run of the worker stamps its version with its embedder and commits,    *)
(* then replaces the chunks of its sources, each in a transaction of its    *)
(* own; sources fail and runs die.  A question is embedded by the process   *)
(* that answers it.  Its vector arm reads the stamp first and runs only     *)
(* when the stamp agrees or nothing is known; /health/index reports the     *)
(* same verdict.  Every process has the embedder of its own settings, so a  *)
(* deploy, a roll-back or a worker with other settings mixes them freely.   *)
EXTENDS Naturals, FiniteSets

CONSTANTS
  Versions, Sources, Ingesters, Askers,
  Embedders,    \* identities: provider, model and dimension
  MaxRuns,      \* bound: runs begun
  Unset

ASSUME SpacesAssumption ==
  /\ MaxRuns \in Nat
  /\ Unset \notin Versions \cup Embedders
  /\ Embedders \cap {"absent", "unknown", "ambiguous", "null"} = {}
  /\ IsFiniteSet(Embedders)

VARIABLES
  stamp,      \* [Versions -> "absent" (no row), "unknown" (NULL) or an embedder]
  vectors,    \* what embedded the chunks of a source: "absent", "null" or an embedder
  active,     \* the versions with status active
  ingest,     \* what each worker process is doing
  begun,      \* runs begun so far
  ask,        \* the vector arm of each question
  builders    \* history: its embedders since it was last rebuilt alone, whole

spaceVars == <<stamp, vectors, active, ingest, begun, ask, builders>>

\* The seeder's embedder writes chunks without vectors and stamps nothing.
Writers == Embedders \cup {"null"}

NoRun == [version |-> Unset, by |-> Unset, left |-> {}, whole |-> FALSE,
          failed |-> FALSE, alone |-> FALSE]

NoQuestion == [step |-> "idle", by |-> Unset, version |-> Unset, stamp |-> Unset,
               known |-> {}, compared |-> {}]

SpacesTypeOK ==
  /\ stamp \in [Versions -> Embedders \cup {"absent", "unknown"}]
  /\ vectors \in [Versions -> [Sources -> Writers \cup {"absent"}]]
  /\ active \subseteq Versions
  /\ ingest \in [Ingesters -> [version : Versions \cup {Unset}, by : Writers \cup {Unset},
                            left : SUBSET Sources, whole : BOOLEAN,
                            failed : BOOLEAN, alone : BOOLEAN]]
  /\ begun \in 0..MaxRuns
  /\ ask \in [Askers ->
       [step : {"idle", "pinned", "allowed", "compared", "degraded"},
        by : Embedders \cup {Unset}, version : Versions \cup {Unset},
        stamp : Embedders \cup {Unset, "unknown", "ambiguous"},
        known : SUBSET Embedders, compared : SUBSET Embedders]]
  /\ builders \in [Versions -> SUBSET Embedders]

SpacesInit ==
  /\ stamp = [v \in Versions |-> "absent"]
  /\ vectors = [v \in Versions |-> [s \in Sources |-> "absent"]]
  /\ active = {}
  /\ ingest = [i \in Ingesters |-> NoRun]
  /\ begun = 0
  /\ ask = [q \in Askers |-> NoQuestion]
  /\ builders = [v \in Versions |-> {}]

----------------------------------------------------------------------------
(* The worker.                                                              *)

Real(e) == {e} \ {"null"}

\* Mutant: an existing row keeps the stamp of its first embedder.
StampedOnce(old, e) ==
  IF old # "absent" THEN old ELSE IF e = "null" THEN "unknown" ELSE e

\* A new row takes the embedder, or NULL; an existing one is re-stamped, but
\* never by an embedder that writes no vectors.
Stamped(old, e) ==
  IF e # "null" THEN e ELSE IF old = "absent" THEN "unknown" ELSE old

\* ensure_index_version, committed before any source is ingested.  Questions
\* on their way remember that another embedder has begun on their version.
BeginRun(i, v, e, sources) ==
  /\ ingest[i] = NoRun /\ begun < MaxRuns
  /\ begun' = begun + 1
  /\ stamp' = [stamp EXCEPT ![v] = Stamped(@, e)]
  /\ ingest' = [j \in Ingesters |->
       IF j = i
         THEN [version |-> v, by |-> e, left |-> sources, whole |-> sources = Sources,
               failed |-> FALSE, alone |-> \A k \in Ingesters : ingest[k].version # v]
         ELSE [ingest[j] EXCEPT !.alone = ingest[j].alone /\ ingest[j].version # v]]
  /\ builders' = [builders EXCEPT ![v] = @ \cup Real(e)]
  /\ ask' = [q \in Askers |->
       IF ask[q].step \in {"pinned", "allowed"} /\ ask[q].version \in {v, Unset}
         THEN [ask[q] EXCEPT !.known = @ \cup Real(e)]
         ELSE ask[q]]
  /\ UNCHANGED <<vectors, active>>

\* One source's transaction: its old chunks go, the new ones come, in this
\* run's space.
IngestSource(i, s) ==
  /\ s \in ingest[i].left
  /\ vectors' = [vectors EXCEPT ![ingest[i].version] = [@ EXCEPT ![s] = ingest[i].by]]
  /\ ingest' = [ingest EXCEPT ![i] = [ingest[i] EXCEPT !.left = ingest[i].left \ {s}]]
  /\ UNCHANGED <<stamp, active, begun, ask, builders>>

\* It rolls back: the source keeps the chunks it had.
FailSource(i, s) ==
  /\ s \in ingest[i].left
  /\ ingest' = [ingest EXCEPT ![i] =
       [ingest[i] EXCEPT !.left = ingest[i].left \ {s}, !.failed = TRUE]]
  /\ UNCHANGED <<stamp, vectors, active, begun, ask, builders>>

\* Its sources are through, or the process dies before.
EndRun(i) ==
  /\ ingest[i] # NoRun
  /\ LET r == ingest[i] IN
     builders' = IF r.left = {} /\ r.whole /\ ~ r.failed /\ r.alone
                   THEN [builders EXCEPT ![r.version] = {stamp[r.version]} \cap Embedders]
                   ELSE builders
  /\ ingest' = [ingest EXCEPT ![i] = NoRun]
  /\ UNCHANGED <<stamp, vectors, active, begun, ask>>

\* A promotion demotes what it saw active; racing ones may leave two.
Promote(v) ==
  /\ stamp[v] # "absent" /\ v \notin active
  /\ active' \in {{v}, active \cup {v}}
  /\ UNCHANGED <<stamp, vectors, ingest, begun, ask, builders>>

----------------------------------------------------------------------------
(* The vector arm of one question.                                          *)

\* The versions whose chunks a query scoped to `version` reads.
Scope(version) == IF version = Unset THEN Versions ELSE {version}

\* One active version is pinned; none or several leave the arms unscoped.
Pin(q, e) ==
  /\ ask[q] = NoQuestion
  /\ \E version \in Versions \cup {Unset} :
       /\ IF Cardinality(active) = 1 THEN version \in active ELSE version = Unset
       /\ ask' = [ask EXCEPT ![q] =
            [step |-> "pinned", by |-> e, version |-> version, stamp |-> Unset,
             known |-> UNION {builders[v] : v \in Scope(version)}, compared |-> {}]]
  /\ UNCHANGED <<stamp, vectors, active, ingest, begun, builders>>

\* Mutant: of several active versions nothing is known either.
MismatchOfKnown(e, indexStamp) ==
  /\ indexStamp \notin {"unknown", "ambiguous"}
  /\ indexStamp # e

\* is_index_embedder_mismatch: ambiguity fails closed, the unknown is allowed.
Mismatch(e, indexStamp) ==
  /\ indexStamp # "unknown"
  /\ indexStamp # e

\* _active_index_stamp: the pinned row's, or that of the one active row.
StampFor(version) ==
  IF version # Unset THEN stamp[version]
  ELSE IF active = {} THEN "unknown"
  ELSE IF Cardinality(active) > 1 THEN "ambiguous"
  ELSE stamp[CHOOSE v \in active : TRUE]

\* _vector_arm_degrade, before the arms run.
ReadStamp(q) ==
  /\ ask[q].step = "pinned"
  /\ LET read == StampFor(ask[q].version) IN
     ask' = [ask EXCEPT ![q] = [@ EXCEPT !.stamp = read,
               !.step = IF Mismatch(ask[q].by, read) THEN "degraded" ELSE "allowed"]]
  /\ UNCHANGED <<stamp, vectors, active, ingest, begun, builders>>

\* The spaces of the chunks a query over `version` orders by distance.
SpacesIn(version) ==
  {vectors[v][s] : v \in Scope(version), s \in Sources} \cap Embedders

\* The question is embedded and the distances are taken, in one statement.
Compare(q) ==
  /\ ask[q].step = "allowed"
  /\ ask' = [ask EXCEPT ![q] =
       [@ EXCEPT !.step = "compared", !.compared = SpacesIn(ask[q].version)]]
  /\ UNCHANGED <<stamp, vectors, active, ingest, begun, builders>>

\* The provider does not embed it: the other arms answer alone.
EmbedderFails(q) ==
  /\ ask[q].step = "allowed"
  /\ ask' = [ask EXCEPT ![q] = [@ EXCEPT !.step = "degraded"]]
  /\ UNCHANGED <<stamp, vectors, active, ingest, begun, builders>>

\* The next question.
Ask(q) ==
  /\ ask[q].step \in {"compared", "degraded"}
  /\ ask' = [ask EXCEPT ![q] = NoQuestion]
  /\ UNCHANGED <<stamp, vectors, active, ingest, begun, builders>>

----------------------------------------------------------------------------
(* GET /health/index.                                                       *)

Chunked(v) == {s \in Sources : vectors[v][s] # "absent"}

Embedded(v) == {s \in Chunked(v) : vectors[v][s] # "null"}

\* Mutant: a version is as good as its first vectors.
VectorArmOfSome(e, v) ==
  IF Chunked(v) = {} THEN "empty"
  ELSE IF Embedded(v) = {} THEN "dead"
  ELSE IF Mismatch(e, stamp[v]) THEN "mismatch" ELSE "healthy"

\* derive_vector_arm_status for one active version and the process's embedder;
\* the row and the two counts are three statements there, one snapshot here.
VectorArm(e, v) ==
  IF Chunked(v) = {} THEN "empty"
  ELSE IF Embedded(v) = {} THEN "dead"
  ELSE IF Mismatch(e, stamp[v]) THEN "mismatch"
  ELSE IF Embedded(v) # Chunked(v) THEN "partial" ELSE "healthy"

----------------------------------------------------------------------------
SpacesNext ==
  \/ \E i \in Ingesters, v \in Versions, e \in Writers :
       \/ BeginRun(i, v, e, Sources)
       \/ \E s \in Sources : BeginRun(i, v, e, {s})
  \/ \E i \in Ingesters, s \in Sources : IngestSource(i, s) \/ FailSource(i, s)
  \/ \E i \in Ingesters : EndRun(i)
  \/ \E v \in Versions : Promote(v)
  \/ \E q \in Askers, e \in Embedders : Pin(q, e)
  \/ \E q \in Askers : ReadStamp(q) \/ Compare(q) \/ EmbedderFails(q) \/ Ask(q)

SpacesSpec == SpacesInit /\ [][SpacesNext]_spaceVars

----------------------------------------------------------------------------
(* Properties.                                                              *)

\* A question is compared with vectors of its own model only, and a version
\* is reported healthy only with every chunk in that space (the Tier-3 gate of
\* _vector_arm_degrade and derive_vector_arm_status), whatever embedders the
\* processes have and whatever is promoted meanwhile, as long as one embedder
\* alone has built what is read since it was last rebuilt whole.
SpacesMatch ==
  /\ \A q \in Askers :
       ask[q].stamp # "unknown" /\ Cardinality(ask[q].known) <= 1
         => ask[q].compared \subseteq {ask[q].by}
  /\ \A e \in Embedders, v \in active :
       VectorArm(e, v) = "healthy" /\ Cardinality(builders[v]) <= 1
         => \A s \in Chunked(v) : vectors[v][s] = e

\* The claim of _vector_arm_degrade (hybrid.py:508): stored vectors and the
\* question's come from the same model whenever the arm ran on a stamp.
ComparesOneSpace ==
  \A q \in Askers :
    ask[q].stamp # "unknown" => ask[q].compared \subseteq {ask[q].by}
=============================================================================
