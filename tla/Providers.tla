----------------------------- MODULE Providers ------------------------------
(* From settings to the models a process calls.                             *)
(*                                                                          *)
(* Settings are refused when they are parsed (in every process), again when *)
(* the API starts and when the worker builds a run; the clients are built   *)
(* later, by the first call that needs one, and a Gemini client may fall    *)
(* back to OpenRouter.  The daily spending cap counts only models with a    *)
(* price.  Which checks a configuration passes and which client it gets are *)
(* decided in four places that have to agree.                               *)
(*                                                                          *)
(* A call that succeeds leaves a spend row, priced by the model the vendor  *)
(* SAYS it used, with the tokens it says, or an estimate.  Which slots and  *)
(* budgets a call passes first is in PaidCalls.                             *)
EXTENDS Naturals, FiniteSets

CONSTANT MaxUnits   \* bound: tokens are counted in units, a call has at most so many

ASSUME UnitsAssumption == MaxUnits \in Nat \ {0}

VARIABLES
  settings,     \* of this process; they never change
  process,      \* [role, phase]
  client,       \* the language model client, once built
  called,       \* history: the settings whose model has been sent a request
  answeredBy,   \* what wrote the last answer or vector
  spendRow      \* the row that call left, if any

providerVars == <<settings, process, client, called, answeredBy, spendRow>>

Vendors == {"anthropic", "gemini", "openrouter"}

\* The settings that name a model.
Models == {"llm_model", "gemini_model", "openrouter_model", "embedding_model"}

\* Providers as they are spelled in the settings; "other" is any other string.
AllSettings ==
  [production : BOOLEAN,
   llm : {"stub", "anthropic", "gemini", "router", "other"},
   embedding : {"stub", "gemini", "openrouter", "other"},
   keys : SUBSET Vendors,
   unpriced : {M \in SUBSET Models : Cardinality(M) <= 1},
   geminiShaped : BOOLEAN,     \* the embedding model's name
   dimFits : BOOLEAN]          \* the dimension of the vector column

Unrecorded == [of |-> "nothing", priced |-> FALSE, unknown |-> FALSE, reported |-> 0, tokens |-> 0]

\* What was asked for; whether it has a price, and whether that is because the
\* vendor names a model the price book does not know; tokens, as the vendor reports
\* them and as they are charged.
SpendRows ==
  [of : Models, priced : BOOLEAN, unknown : BOOLEAN, reported : 0 .. MaxUnits,
   tokens : 0 .. MaxUnits]

ProvidersTypeOK ==
  /\ settings \in AllSettings
  /\ process \in [role : {"api", "worker"}, phase : {"parsing", "starting", "up", "refused"}]
  /\ client \in {"none", "stub", "anthropic", "gemini", "router", "gemini, then router"}
  /\ called \subseteq Models
  /\ answeredBy \in {"nothing", "failed", "stub"} \cup Models
  /\ spendRow \in SpendRows \cup {Unrecorded}

ProvidersInit ==
  /\ settings \in AllSettings
  /\ process \in [role : {"api", "worker"}, phase : {"parsing"}]
  /\ client = "none" /\ called = {} /\ answeredBy = "nothing" /\ spendRow = Unrecorded

----------------------------------------------------------------------------
(* The checks.                                                              *)

\* Mutant: a fallback is not in use until it is needed.
InUseFirst(s) ==
  {m \in Models :
    CASE m = "gemini_model" -> s.llm = "gemini"
      [] m = "openrouter_model" -> s.llm = "router"
      [] m = "llm_model" -> s.llm = "anthropic"
      [] m = "embedding_model" -> s.embedding # "stub"}

\* The models _reject_unpriced_models_in_production wants a price for.
InUse(s) ==
  {m \in Models :
    CASE m = "gemini_model" -> s.llm = "gemini"
      [] m = "openrouter_model" ->
           s.llm = "router" \/ (s.llm = "gemini" /\ "openrouter" \in s.keys)
      [] m = "llm_model" -> s.llm = "anthropic"
      [] m = "embedding_model" -> s.embedding # "stub"}

\* _reject_stub_llm_in_production: the names the factory builds.
RealName(s) == s.llm \in {"anthropic", "gemini", "router"}

\* Settings(): the validators about providers, keys and prices.
Parses(s) ==
  /\ s.production =>
       /\ RealName(s)
       /\ s.llm = "anthropic" => "anthropic" \in s.keys
       /\ s.embedding \in Vendors => s.embedding \in s.keys
       /\ InUse(s) \cap s.unpriced = {}
  /\ ~ (s.embedding = "openrouter" /\ s.geminiShaped)

\* validate_llm_provider: the API only.
AcceptsLlm(s) ==
  /\ s.llm \in {"stub", "anthropic", "gemini", "router"}
  /\ ~ (s.production /\ s.llm = "stub")

\* Mutant: left to the validators of the settings.
AcceptsKnownEmbedder(s) ==
  s.embedding \in {"stub", "gemini", "openrouter"} /\ s.dimFits

\* validate_embedder_provider: the API and every command that embeds.
AcceptsEmbedder(s) ==
  /\ s.embedding \in {"stub", "gemini", "openrouter"}
  /\ s.dimFits
  /\ ~ (s.production /\ s.embedding = "stub")

Enter(phase) == process' = [process EXCEPT !.phase = phase]

Parse ==
  /\ process.phase = "parsing"
  /\ Enter(IF Parses(settings) THEN "starting" ELSE "refused")
  /\ UNCHANGED <<settings, client, called, answeredBy, spendRow>>

\* The lifespan of the API, build_runner and evaluate of the worker.
Start ==
  /\ process.phase = "starting"
  /\ Enter(IF AcceptsEmbedder(settings) /\ (process.role = "api" => AcceptsLlm(settings))
             THEN "up" ELSE "refused")
  /\ UNCHANGED <<settings, client, called, answeredBy, spendRow>>

----------------------------------------------------------------------------
(* Clients and calls.                                                       *)

\* build_llm_client; "none" where a constructor raises.
ClientFor(s) ==
  LET gemini == "gemini" \in s.keys
      router == "openrouter" \in s.keys IN
  CASE s.llm = "anthropic" -> IF "anthropic" \in s.keys THEN "anthropic" ELSE "none"
    [] s.llm = "gemini" -> IF gemini /\ router THEN "gemini, then router"
                           ELSE IF gemini THEN "gemini"
                           ELSE IF router THEN "router"
                           ELSE IF s.production THEN "none" ELSE "stub"
    [] s.llm = "router" -> IF router THEN "router" ELSE "none"
    [] OTHER -> "stub"

ModelOf(vendor) ==
  CASE vendor = "anthropic" -> "llm_model"
    [] vendor = "gemini" -> "gemini_model"
    [] vendor = "router" -> "openrouter_model"

\* get_llm_client builds it once; a question that needs it fails where that raises.
BuildClient ==
  /\ process = [role |-> "api", phase |-> "up"] /\ client = "none"
  /\ client' = ClientFor(settings)
  /\ answeredBy' = IF client' = "none" THEN "failed" ELSE answeredBy
  /\ spendRow' = IF client' = "none" THEN Unrecorded ELSE spendRow
  /\ UNCHANGED <<settings, process, called>>

----------------------------------------------------------------------------
(* What a call is charged.                                                  *)

\* Mutant: only the very names of the price book.
HasPriceExactly(model, name) == name = "asked" /\ model \notin settings.unpriced

\* price_for a name in a reply: the model asked for, a dated release or another
\* routing of it, its free routing, or any other model.
HasPrice(model, name) ==
  name = "free" \/ (name # "another" /\ model \notin settings.unpriced)

\* Mutant: the usage block at face value.
FaceValue(reported, estimate) == reported

\* _resolve_tokens: a reply without a usage block counts as its estimate.
ResolvedTokens(reported, estimate) == IF reported > 0 THEN reported ELSE estimate

\* What the clients make of a body; a blank text is an answer to Anthropic's only.
Replies ==
  [blank : BOOLEAN, reported : 0 .. MaxUnits,
   name : {"asked", "dated", "routed", "free", "another"}]

Usable(vendor, reply) == reply.blank => vendor = "anthropic"

\* Gemini's client reports the name it was configured with.
NameIn(vendor, reply) == IF vendor = "gemini" THEN "asked" ELSE reply.name

CompletionRow(vendor, reply) ==
  LET model == ModelOf(vendor)
      name == NameIn(vendor, reply) IN
  [of |-> model, priced |-> HasPrice(model, name), unknown |-> name = "another",
   reported |-> reply.reported, tokens |-> ResolvedTokens(reply.reported, 1)]

\* The answer stands also where its row cannot be written.
VendorAnswers(vendor) ==
  \E reply \in Replies :
    /\ Usable(vendor, reply)
    /\ answeredBy' = ModelOf(vendor)
    /\ spendRow' \in {CompletionRow(vendor, reply), Unrecorded}

\* post_json and the clients: a timeout, the network, a status of 400 or more, a body
\* that is no JSON, has no answer or a blank one. Such a call leaves no row.
CallFails == answeredBy' = "failed" /\ spendRow' = Unrecorded

\* One that falls back does so for any such failure.
Complete ==
  /\ process.phase = "up"
  /\ \/ /\ client = "stub"
        /\ answeredBy' = "stub" /\ spendRow' = Unrecorded /\ UNCHANGED called
     \/ /\ client \in {"anthropic", "gemini", "router"}
        /\ called' = called \cup {ModelOf(client)}
        /\ VendorAnswers(client) \/ CallFails
     \/ /\ client = "gemini, then router"
        /\ \/ called' = called \cup {"gemini_model"} /\ VendorAnswers("gemini")
           \/ /\ called' = called \cup {"gemini_model", "openrouter_model"}
              /\ VendorAnswers("router") \/ CallFails
  /\ UNCHANGED <<settings, process, client>>

\* A call embeds a question or a document in several requests, retries included, some
\* with a count, of a unit here; Gemini never sends one, and 0 is taken for none.
Batches(vendor) ==
  {b \in [requests : 1 .. MaxUnits, counted : 0 .. MaxUnits, estimate : 1 .. MaxUnits] :
     b.counted <= b.requests /\ (vendor = "gemini" => b.counted = 0)}

FullyReported(b) == b.counted = b.requests

\* _resolve_embedding_tokens: an estimate where a count is missing, but never less
\* than the counts there are.
ResolvedEmbedding(b) ==
  IF FullyReported(b) \/ b.estimate <= b.counted THEN b.counted ELSE b.estimate

\* Priced by the configured model, and by its vendor under the name of the price book.
EmbeddingRow(b) ==
  [of |-> "embedding_model", priced |-> HasPrice("embedding_model", "asked"), unknown |-> FALSE,
   reported |-> b.counted, tokens |-> ResolvedEmbedding(b)]

\* build_embedder and one call: the key is read when the client is built. A batch
\* that fails after others were billed leaves no row.
Embed ==
  /\ process.phase = "up"
  /\ CASE settings.embedding \notin Vendors ->
            answeredBy' = "stub" /\ spendRow' = Unrecorded /\ UNCHANGED called
       [] settings.embedding \in Vendors \ settings.keys -> CallFails /\ UNCHANGED called
       [] OTHER ->
            /\ called' = called \cup {"embedding_model"}
            /\ \/ CallFails
               \/ /\ answeredBy' = "embedding_model"
                  /\ \E b \in Batches(settings.embedding) :
                       spendRow' \in {EmbeddingRow(b), Unrecorded}
  /\ UNCHANGED <<settings, process, client>>

ProvidersNext == Parse \/ Start \/ BuildClient \/ Complete \/ Embed

ProvidersSpec == ProvidersInit /\ [][ProvidersNext]_providerVars

----------------------------------------------------------------------------
(* Properties.                                                              *)

\* Charged what the vendor reported and at least something, and without a price only
\* where the vendor named a model the price book does not know.
IsCharged(row) ==
  /\ row.tokens > 0 /\ row.tokens >= row.reported
  /\ row.priced \/ row.unknown

\* In production no answer or vector comes from the stub, and every model that
\* is sent a request, a fallback included, has a price, so that the daily cap
\* counts it (_reject_stub_llm_in_production, validate_embedder_provider,
\* _reject_unpriced_models_in_production), whatever the settings are; and no
\* recorded call passes for a free one (_resolve_tokens, price_for).
ProductionIsRealAndPriced ==
  settings.production =>
    /\ answeredBy # "stub" /\ called \cap settings.unpriced = {}
    /\ spendRow = Unrecorded \/ IsCharged(spendRow)
=============================================================================
