-------------------------- MODULE GroundedAnswers --------------------------
(***************************************************************************)
(* Answers while the corpus under them changes: one question, asked again  *)
(* and again (Orchestrator.ask, answer/orchestrator.py), the retrieval     *)
(* arms that read the chunks (retrieval/hybrid.py), the answer cache       *)
(* (cache/answer_cache.py), the ingestion runs of CorpusIngest and the     *)
(* promotions of IndexPromotion.                                           *)
(*                                                                         *)
(* Covered: the index pinned at the start of a request and used to its     *)
(* end, each retrieval arm reading its own snapshot, the unscoped search   *)
(* when no single version is active, the decision whether an answer may be *)
(* cached, the foreign key from an answer's evidence to its chunks, the    *)
(* expiry of entries at any time.                                          *)
(*                                                                         *)
(* Not covered: what is retrieved and what is generated (an arm returns    *)
(* all chunks of the versions it draws on), the other parts of the cache   *)
(* key (constant here), conversation memory, the second retrieval of an    *)
(* exact lookup that did not ground (it replaces the first).               *)
(***************************************************************************)
EXTENDS CorpusIngest

CONSTANTS
  Askers,       \* requests that may be in progress at once
  DualActive    \* whether promotions may leave several versions active

ASSUME DualActiveAssumption == DualActive \in BOOLEAN

VARIABLES
  active,  \* versions with index_versions.status = active
  ask,     \* what each request has read so far
  cache    \* rows of answer_cache

askVars == <<active, ask, cache>>
answersVars == <<ingestVars, askVars>>

Resolution ==
  IF active = {} THEN "none"
  ELSE IF Cardinality(active) = 1 THEN "one" ELSE "ambiguous"

\* The empty source_version_hash of a request without a single active index.
NoHash == Absent

Hit == [version : Versions, source : Sources, id : Nat, text : Nat]

NotAsking == [phase |-> "idle", pinned |-> Absent, key |-> NoHash,
              pin |-> "none", arms |-> 0, evidence |-> {}, cacheable |-> FALSE]

----------------------------------------------------------------------------
(* Promotion, as far as readers see it (IndexPromotion: a promotion        *)
(* retires what it saw active, which races may make less than all).        *)

Promote(x) ==
  /\ hash[x] # Absent
  /\ x \notin active
  /\ \E D \in IF DualActive THEN SUBSET active ELSE {active} :
       active' = (active \ D) \cup {x}
  /\ UNCHANGED <<ingestVars, ask, cache>>

----------------------------------------------------------------------------
(* A request.                                                              *)

\* _retrieve_active_index: the version and its fingerprint, in one query.
ReadIndex(a) ==
  LET x == CHOOSE y \in active : TRUE IN
  /\ ask[a].phase = "idle"
  /\ ask' = [ask EXCEPT ![a] =
       IF Resolution = "one"
       THEN [NotAsking EXCEPT !.phase = "pinned", !.pinned = x,
                              !.key = hash[x], !.pin = "one"]
       ELSE [NotAsking EXCEPT !.phase = "pinned", !.pin = Resolution]]
  /\ UNCHANGED <<ingestVars, active, cache>>

Ends(a) == ask' = [ask EXCEPT ![a] = NotAsking]

AnswerFromCache(a) ==
  /\ ask[a].phase = "pinned"
  /\ \E e \in cache : e.key = ask[a].key
  /\ Ends(a)
  /\ UNCHANGED <<ingestVars, active, cache>>

Miss(a) ==
  /\ ask[a].phase = "pinned"
  /\ \A e \in cache : e.key # ask[a].key
  /\ ask' = [ask EXCEPT ![a] = [ask[a] EXCEPT !.phase = "retrieving", !.arms = 2]]
  /\ UNCHANGED <<ingestVars, active, cache>>

\* The chunks of some versions as one statement sees them; a document is
\* searchable from its ingestion on, whatever the status of its version.
Visible(V) ==
  UNION {{[version |-> x, source |-> s, id |-> c.id, text |-> c.text] :
            c \in chunks[x][s]} : x \in V, s \in Sources}

\* The versions an arm's statement may draw on.
Scopes(a) == IF ask[a].pinned = Absent THEN SUBSET Versions ELSE {{ask[a].pinned}}

\* An exact match makes the other arms unnecessary.
RetrieveArm(a) ==
  /\ ask[a].phase = "retrieving"
  /\ ask[a].arms > 0
  /\ \E V \in Scopes(a), left \in {ask[a].arms - 1, 0} :
       /\ left # ask[a].arms - 1 => Visible(V) # {}
       /\ ask' = [ask EXCEPT ![a] =
            [ask[a] EXCEPT !.arms = left, !.evidence = ask[a].evidence \cup Visible(V)]]
  /\ UNCHANGED <<ingestVars, active, cache>>

SpansVersions(E) == \E g, h \in E : g.version # h.version

\* Mutant: the evidence is not compared.
MayCacheUnion(a) == ask[a].pinned # Absent \/ Resolution # "ambiguous"

\* _finalize: neither evidence that spans versions nor evidence gathered
\* without a scope while several versions are active may be cached.
MayCache(a) ==
  /\ ~ SpansVersions(ask[a].evidence)
  /\ ask[a].pinned # Absent \/ Resolution # "ambiguous"

\* An answer whose vector arm was degraded (the provider is down, the index
\* was built by another embedder, its owner was unclear) is not cached either.
Finalize(a) ==
  /\ ask[a].phase = "retrieving"
  /\ ask[a].arms = 0
  /\ ask[a].evidence # {}
  /\ \E degraded \in BOOLEAN :
       ask' = [ask EXCEPT ![a] =
         [ask[a] EXCEPT !.phase = "generating", !.cacheable = ~ degraded /\ MayCache(a)]]
  /\ UNCHANGED <<ingestVars, active, cache>>

\* Nothing was found, the language model is unavailable, or the answer cites
\* nothing: no answer is kept.
GiveUp(a) ==
  /\ \/ ask[a].phase = "retrieving" /\ ask[a].arms = 0
     \/ ask[a].phase = "generating"
  /\ Ends(a)
  /\ UNCHANGED <<ingestVars, active, cache>>

\* The model answers, and the citations are valid.
Generate(a) ==
  /\ ask[a].phase = "generating"
  /\ ask' = [ask EXCEPT ![a] = [ask[a] EXCEPT !.phase = "answered"]]
  /\ UNCHANGED <<ingestVars, active, cache>>

Exists(h) ==
  \E c \in chunks[h.version][h.source] : c.id = h.id

\* A run has deleted the chunk and not yet committed: the foreign key check
\* waits for it.
BeingDeleted(h) ==
  \E w \in Workers :
    /\ worker[w].phase = "embedding"
    /\ worker[w].version = h.version /\ worker[w].source = h.source
    /\ \E c \in worker[w].drop : c.id = h.id

\* Mutant: the refused rows are sent again.
FailOnEvidenceRetried(a) ==
  /\ ask[a].phase = "answered"
  /\ \E h \in ask[a].evidence : ~ Exists(h)
  /\ UNCHANGED <<ingestVars, active, ask, cache>>

\* A chunk of the evidence is gone: retrieved_evidence refuses the row, the
\* request fails.
FailOnEvidence(a) ==
  /\ ask[a].phase = "answered"
  /\ \E h \in ask[a].evidence : ~ Exists(h)
  /\ Ends(a)
  /\ UNCHANGED <<ingestVars, active, cache>>

Entry(a) == [key |-> ask[a].key, evidence |-> ask[a].evidence, pin |-> ask[a].pin]

\* Messages, evidence rows and the cache row, committed together.
Persist(a) ==
  /\ ask[a].phase = "answered"
  /\ \A h \in ask[a].evidence : Exists(h) /\ ~ BeingDeleted(h)
  /\ cache' = IF ask[a].cacheable
              THEN {e \in cache : e.key # ask[a].key} \cup {Entry(a)}
              ELSE cache
  /\ Ends(a)
  /\ UNCHANGED <<ingestVars, active>>

\* The request fails or goes away and its session rolls back: the client
\* disconnects, the process dies, a statement raises (such as the INSERT of a
\* cache row that another request stored after the merge looked for it).
Abandon(a) ==
  /\ ask[a].phase # "idle"
  /\ Ends(a)
  /\ UNCHANGED <<ingestVars, active, cache>>

\* The entry's ttl_expires_at has passed: get returns nothing for it.
Expire(e) ==
  /\ cache' = cache \ {e}
  /\ UNCHANGED <<ingestVars, active, ask>>

----------------------------------------------------------------------------
AnswersInit ==
  /\ IngestInit
  /\ active = {}
  /\ ask = [a \in Askers |-> NotAsking]
  /\ cache = {}

AskStep(a) ==
  \/ AnswerFromCache(a) \/ Miss(a) \/ RetrieveArm(a) \/ Finalize(a)
  \/ GiveUp(a) \/ Generate(a) \/ FailOnEvidence(a) \/ Persist(a)

AnswersNext ==
  \/ IngestNext /\ UNCHANGED askVars
  \/ \E x \in Versions : Promote(x)
  \/ \E a \in Askers : ReadIndex(a) \/ AskStep(a) \/ Abandon(a)
  \/ \E e \in cache : Expire(e)

AnswersSpec == AnswersInit /\ [][AnswersNext]_answersVars

\* Requests and runs go on; runs may die, requests may come or not.
AnswersFairness ==
  /\ \A a \in Askers : WF_answersVars(AskStep(a))
  /\ \A w \in Workers : WF_answersVars(RunStep(w) /\ UNCHANGED askVars)

----------------------------------------------------------------------------
(* Properties.                                                             *)

\* Types of what requests have read and of the cached answers.
AnswersTypeOK ==
  /\ IngestTypeOK
  /\ active \subseteq Versions
  /\ ask \in [Askers -> [phase : {"idle", "pinned", "retrieving", "generating",
                                  "answered"},
                         pinned : Versions \cup {Absent},
                         key : Corpora \cup {NoHash},
                         pin : {"none", "one", "ambiguous"}, arms : 0 .. 2,
                         evidence : SUBSET Hit, cacheable : BOOLEAN]]
  /\ \A e \in cache :
       e.key \in Corpora \cup {NoHash} /\ e.evidence \subseteq Hit

\* Once a version's chunks are those its fingerprint names and no run is
\* changing them, every live cached answer found under that fingerprint was
\* built from exactly that corpus: nothing read before, during or between
\* runs is still served (advance_source_version_hash, RUNBOOK 3.4).
SettledCacheIsCurrent ==
  \A x \in active : (hash[x] # Absent /\ ~ Running(x) /\ Holds(x)) =>
    \A e \in cache : e.key = hash[x] =>
      {<<h.source, h.text>> : h \in e.evidence} = {<<s, hash[x][s]>> : s \in Sources}

\* Whatever runs failed, died, covered part of the corpus or met an edit, a
\* cached answer never uses a text older than the one its fingerprint names.
NeverOlderThanPinned ==
  \A e \in cache : e.key # NoHash =>
    \A h \in e.evidence :
      e.key[h.source] # Unusable => h.text >= e.key[h.source]

\* No cached answer mixes index versions (_finalize: evidence that spans
\* versions "was not cached").
NoFrozenUnion == \A e \in cache : ~ SpansVersions(e.evidence)

\* Every request ends, although storing its evidence may have to wait for
\* an ingestion run that is replacing the same chunks.
RequestsEnd == \A a \in Askers : []<>(ask[a].phase = "idle")

\* Every ingestion run ends, also when runs wait for each other's rows.
RunsEnd == \A w \in Workers : []<>(worker[w].phase = "idle")

----------------------------------------------------------------------------
(* What the repository says of the program, and the code does not do.      *)

\* HybridRetriever._finalize: "An answer produced in that state is not
\* frozen", the state being more than one active row.
AmbiguityIsNotFrozen == \A e \in cache : e.pin # "ambiguous"

=============================================================================
