------------------------- MODULE MCAccountsProofs -------------------------
(***************************************************************************)
(* The theorems about Providers: what a production process calls is real   *)
(* and has a price, whatever the settings are.  Then those of MCAccounts:  *)
(* the instance for TLC runs each of its parts as it is on its own, so     *)
(* that what is proved of the parts holds of all of them.                  *)
(***************************************************************************)
EXTENDS MCAccounts, AccountProofs, ReaderProofs

----------------------------------------------------------------------------
(* Providers.                                                              *)

\* What the checks have settled once a process is up: only then does it build
\* a client, and the one it builds is the one its settings name.
CheckedInv ==
  /\ process.phase # "up" => client = "none" /\ called = {} /\ answeredBy = "nothing"
                               /\ spendRow = Unrecorded
  /\ process.phase \in {"starting", "up"} => Parses(settings)
  /\ process.phase = "up" => AcceptsEmbedder(settings)
  /\ process.phase = "up" /\ process.role = "api" => AcceptsLlm(settings)
  /\ client # "none" => process.role = "api" /\ client = ClientFor(settings)

ProvidersInv ==
  /\ CheckedInv
  /\ process \in [role : {"api", "worker"}, phase : {"parsing", "starting", "up", "refused"}]
  /\ settings.production \in BOOLEAN
  /\ settings.production =>
       /\ answeredBy # "stub" /\ \A m \in called : m \notin settings.unpriced
       /\ spendRow = Unrecorded \/ IsCharged(spendRow)

\* The models of a client that a production process can build are in use, so
\* that they have a price; it is never the stub.
LEMMA ClientIsPriced ==
  ASSUME NEW s, s.production = TRUE, Parses(s), AcceptsLlm(s)
  PROVE  /\ ClientFor(s) # "stub"
         /\ ClientFor(s) = "anthropic" => "llm_model" \in InUse(s)
         /\ ClientFor(s) \in {"gemini", "gemini, then router"} => "gemini_model" \in InUse(s)
         /\ ClientFor(s) \in {"router", "gemini, then router"} => "openrouter_model" \in InUse(s)
BY DEF ClientFor, InUse, Models, Parses, AcceptsLlm, RealName

\* So is the embedding model of a process that embeds with a vendor.
LEMMA EmbedderIsPriced ==
  ASSUME NEW s, s.production = TRUE, AcceptsEmbedder(s)
  PROVE  "embedding_model" \in InUse(s) /\ s.embedding \in Vendors
BY DEF InUse, Models, AcceptsEmbedder, Vendors

LEMMA PricedInUse ==
  ASSUME NEW s, s.production = TRUE, Parses(s), NEW m \in InUse(s)
  PROVE  m \notin s.unpriced
BY DEF Parses

\* A call of a model with a price is charged, whatever its reply says or omits.
LEMMA CompletionIsCharged ==
  ASSUME NEW vendor, NEW reply \in Replies, ModelOf(vendor) \notin settings.unpriced
  PROVE  IsCharged(CompletionRow(vendor, reply))
<1>1. reply.reported \in 0 .. MaxUnits
  BY DEF Replies
<1>2. HasPrice(ModelOf(vendor), NameIn(vendor, reply)) \/ NameIn(vendor, reply) = "another"
  BY DEF HasPrice
<1>3. /\ ResolvedTokens(reply.reported, 1) > 0
      /\ ResolvedTokens(reply.reported, 1) >= reply.reported
  BY <1>1, UnitsAssumption DEF ResolvedTokens
<1>4. /\ CompletionRow(vendor, reply).tokens = ResolvedTokens(reply.reported, 1)
      /\ CompletionRow(vendor, reply).reported = reply.reported
  BY DEF CompletionRow
<1>5. CompletionRow(vendor, reply).priced \/ CompletionRow(vendor, reply).unknown
  BY <1>2 DEF CompletionRow
<1>. QED BY <1>3, <1>4, <1>5 DEF IsCharged

LEMMA EmbeddingIsCharged ==
  ASSUME NEW vendor, NEW b \in Batches(vendor), "embedding_model" \notin settings.unpriced
  PROVE  IsCharged(EmbeddingRow(b))
<1>1. b.requests \in 1 .. MaxUnits /\ b.counted \in 0 .. MaxUnits /\ b.estimate \in 1 .. MaxUnits
  BY DEF Batches
<1>2. ResolvedEmbedding(b) > 0 /\ ResolvedEmbedding(b) >= b.counted
  BY <1>1, UnitsAssumption DEF ResolvedEmbedding, FullyReported
<1>3. HasPrice("embedding_model", "asked")
  BY DEF HasPrice
<1>. QED BY <1>2, <1>3 DEF IsCharged, EmbeddingRow

LEMMA ProvidersInit_Inv == ProvidersInit => ProvidersInv
BY DEF ProvidersInit, ProvidersInv, CheckedInv, AllSettings

\* The checks only let on what passes them; clients and calls keep to what was
\* checked.
LEMMA ProvidersStep_Inv ==
  ASSUME ProvidersInv, [ProvidersNext]_providerVars PROVE ProvidersInv'
<1>1. CASE Parse
  <2>1. /\ process'.phase \in {"starting", "refused"}
        /\ process'.phase = "starting" => Parses(settings)
        /\ process' \in [role : {"api", "worker"},
                         phase : {"parsing", "starting", "up", "refused"}]
    BY <1>1 DEF Parse, Enter, ProvidersInv
  <2>2. client = "none" /\ called = {} /\ answeredBy = "nothing" /\ spendRow = Unrecorded
    BY <1>1 DEF Parse, ProvidersInv, CheckedInv
  <2>. QED BY <1>1, <2>1, <2>2 DEF Parse, ProvidersInv, CheckedInv
<1>2. CASE Start
  <2>1. /\ process'.phase \in {"up", "refused"}
        /\ process' \in [role : {"api", "worker"},
                         phase : {"parsing", "starting", "up", "refused"}]
    BY <1>2 DEF Start, Enter, ProvidersInv
  <2>2. /\ client = "none" /\ called = {} /\ answeredBy = "nothing" /\ spendRow = Unrecorded
        /\ Parses(settings)
    BY <1>2 DEF Start, ProvidersInv, CheckedInv
  <2>3. UNCHANGED <<settings, client, called, answeredBy, spendRow>>
    BY <1>2 DEF Start
  <2>4. process'.phase = "up" => AcceptsEmbedder(settings')
    BY <1>2, <2>3 DEF Start, Enter, ProvidersInv
  <2>5. process'.phase = "up" /\ process'.role = "api" => AcceptsLlm(settings')
    BY <1>2, <2>3 DEF Start, Enter, ProvidersInv
  <2>6. Parses(settings')
    BY <2>2, <2>3
  <2>7. CheckedInv'
    BY <2>1, <2>2, <2>3, <2>4, <2>5, <2>6 DEF CheckedInv
  <2>. QED BY <2>1, <2>2, <2>3, <2>7 DEF ProvidersInv
<1>3. CASE BuildClient
  <2>1. process.phase = "up" /\ process.role = "api"
    BY <1>3 DEF BuildClient
  <2>2. answeredBy' \in {"failed", answeredBy}
    BY <1>3 DEF BuildClient
  <2>3. spendRow' \in {Unrecorded, spendRow}
    BY <1>3 DEF BuildClient
  <2>. QED BY <1>3, <2>1, <2>2, <2>3 DEF BuildClient, ProvidersInv, CheckedInv
<1>4. CASE Complete
  <2>1. process.phase = "up"
    BY <1>4 DEF Complete
  <2>2. ASSUME settings.production = TRUE
        PROVE  /\ answeredBy' # "stub" /\ \A m \in called' : m \notin settings.unpriced
               /\ spendRow' = Unrecorded \/ IsCharged(spendRow')
    <3>1. client # "none" /\ client = ClientFor(settings) /\ Parses(settings)
          /\ AcceptsLlm(settings)
      BY <1>4, <2>1 DEF Complete, ProvidersInv, CheckedInv
    <3>2. \A m \in called : m \notin settings.unpriced
      BY <2>2 DEF ProvidersInv
    <3>3. client # "stub"
      BY <2>2, <3>1, ClientIsPriced
    <3>4. ASSUME NEW vendor, VendorAnswers(vendor), ModelOf(vendor) \notin settings.unpriced
          PROVE  answeredBy' = ModelOf(vendor) /\ (spendRow' = Unrecorded \/ IsCharged(spendRow'))
      BY <3>4, CompletionIsCharged DEF VendorAnswers
    <3>5. CallFails => answeredBy' = "failed" /\ spendRow' = Unrecorded
      BY DEF CallFails
    <3>6. CASE client \in {"anthropic", "gemini", "router"}
      <4>1. ModelOf(client) \in InUse(settings) /\ ModelOf(client) # "stub"
        BY <2>2, <3>1, <3>6, ClientIsPriced DEF ModelOf
      <4>2. ModelOf(client) \notin settings.unpriced
        BY <2>2, <3>1, <4>1, PricedInUse
      <4>3. /\ called' = called \cup {ModelOf(client)}
            /\ VendorAnswers(client) \/ CallFails
        BY <1>4, <3>6 DEF Complete
      <4>. QED BY <3>2, <3>4, <3>5, <4>1, <4>2, <4>3
    <3>7. CASE client = "gemini, then router"
      <4>1. "gemini_model" \in InUse(settings) /\ "openrouter_model" \in InUse(settings)
        BY <2>2, <3>1, <3>7, ClientIsPriced
      <4>2. "gemini_model" \notin settings.unpriced /\ "openrouter_model" \notin settings.unpriced
        BY <2>2, <3>1, <4>1, PricedInUse
      <4>3. ModelOf("gemini") = "gemini_model" /\ ModelOf("router") = "openrouter_model"
        BY DEF ModelOf
      <4>4. /\ called' \subseteq called \cup {"gemini_model", "openrouter_model"}
            /\ VendorAnswers("gemini") \/ VendorAnswers("router") \/ CallFails
        BY <1>4, <3>7 DEF Complete
      <4>. QED BY <3>2, <3>4, <3>5, <4>2, <4>3, <4>4
    <3>. QED BY <1>4, <3>3, <3>6, <3>7 DEF Complete
  <2>3. UNCHANGED <<settings, process, client>>
    BY <1>4 DEF Complete
  <2>. QED BY <2>1, <2>2, <2>3 DEF ProvidersInv, CheckedInv
<1>5. CASE Embed
  <2>1. process.phase = "up"
    BY <1>5 DEF Embed
  <2>2. ASSUME settings.production = TRUE
        PROVE  /\ answeredBy' # "stub" /\ \A m \in called' : m \notin settings.unpriced
               /\ spendRow' = Unrecorded \/ IsCharged(spendRow')
    <3>1. Parses(settings) /\ AcceptsEmbedder(settings)
      BY <2>1 DEF ProvidersInv, CheckedInv
    <3>2. \A m \in called : m \notin settings.unpriced
      BY <2>2 DEF ProvidersInv
    <3>3. "embedding_model" \in InUse(settings) /\ settings.embedding \in Vendors
      BY <2>2, <3>1, EmbedderIsPriced
    <3>4. "embedding_model" \notin settings.unpriced
      BY <2>2, <3>1, <3>3, PricedInUse
    <3>5. /\ called' \subseteq called \cup {"embedding_model"}
          /\ \/ CallFails
             \/ /\ answeredBy' = "embedding_model"
                /\ \E b \in Batches(settings.embedding) :
                     spendRow' \in {EmbeddingRow(b), Unrecorded}
      BY <1>5, <3>3 DEF Embed
    <3>. QED BY <3>2, <3>4, <3>5, EmbeddingIsCharged DEF CallFails
  <2>3. UNCHANGED <<settings, process, client>>
    BY <1>5 DEF Embed
  <2>. QED BY <2>1, <2>2, <2>3 DEF ProvidersInv, CheckedInv
<1>6. CASE UNCHANGED providerVars
  BY <1>6 DEF providerVars, ProvidersInv, CheckedInv
<1>. QED BY <1>1, <1>2, <1>3, <1>4, <1>5, <1>6 DEF ProvidersNext

\* In production no answer or vector comes from the stub, and every model that
\* is sent a request, a fallback included, has a price, for every combination
\* of settings (the validators of the settings, validate_llm_provider,
\* validate_embedder_provider and build_llm_client agree).
THEOREM EverySettingIsRealAndPriced == ProvidersSpec => []ProductionIsRealAndPriced
<1>1. ProvidersInv => ProductionIsRealAndPriced
  BY DEF ProvidersInv, ProductionIsRealAndPriced
<1>. QED BY <1>1, ProvidersInit_Inv, ProvidersStep_Inv, PTL DEF ProvidersSpec

\* What a client is, and what it charges, is one of a few things, for every
\* combination of settings (build_llm_client, _resolve_tokens).
LEMMA RowsAreTyped ==
  /\ \A s : ClientFor(s) \in {"none", "stub", "anthropic", "gemini", "router", "gemini, then router"}
  /\ \A vendor \in {"anthropic", "gemini", "router"}, reply \in Replies :
       ModelOf(vendor) \in Models /\ CompletionRow(vendor, reply) \in SpendRows
  /\ \A vendor : \A b \in Batches(vendor) : EmbeddingRow(b) \in SpendRows
<1>1. \A s : ClientFor(s) \in {"none", "stub", "anthropic", "gemini", "router", "gemini, then router"}
  BY DEF ClientFor
<1>2. ASSUME NEW vendor \in {"anthropic", "gemini", "router"}, NEW reply \in Replies
      PROVE  ModelOf(vendor) \in Models /\ CompletionRow(vendor, reply) \in SpendRows
  <2>1. ModelOf(vendor) \in Models
    BY DEF ModelOf, Models
  <2>2. reply.reported \in 0 .. MaxUnits /\ ResolvedTokens(reply.reported, 1) \in 0 .. MaxUnits
    BY UnitsAssumption DEF Replies, ResolvedTokens
  <2>3. HasPrice(ModelOf(vendor), NameIn(vendor, reply)) \in BOOLEAN
        /\ (NameIn(vendor, reply) = "another") \in BOOLEAN
    BY DEF HasPrice
  <2>. QED BY <2>1, <2>2, <2>3 DEF CompletionRow, SpendRows
<1>3. ASSUME NEW vendor, NEW b \in Batches(vendor)
      PROVE  EmbeddingRow(b) \in SpendRows
  <2>1. b.counted \in 0 .. MaxUnits /\ ResolvedEmbedding(b) \in 0 .. MaxUnits
    BY UnitsAssumption DEF Batches, ResolvedEmbedding
  <2>2. HasPrice("embedding_model", "asked") \in BOOLEAN /\ "embedding_model" \in Models
    BY DEF HasPrice, Models
  <2>. QED BY <2>1, <2>2 DEF EmbeddingRow, SpendRows
<1>. QED BY <1>1, <1>2, <1>3

\* The types of the settings' process, its client and what it records.
THEOREM ProvidersTyped == ProvidersSpec => []ProvidersTypeOK
<1>1. ProvidersInit => ProvidersTypeOK
  BY DEF ProvidersInit, ProvidersTypeOK
<1>2. ASSUME ProvidersTypeOK, [ProvidersNext]_providerVars PROVE ProvidersTypeOK'
  <2>1. CASE Parse \/ Start
    BY <1>2, <2>1 DEF Parse, Start, Enter, ProvidersTypeOK
  <2>2. CASE BuildClient
    <3>1. client' \in {"none", "stub", "anthropic", "gemini", "router", "gemini, then router"}
      BY <2>2, RowsAreTyped DEF BuildClient
    <3>2. answeredBy' \in {"failed", answeredBy} /\ spendRow' \in {Unrecorded, spendRow}
      BY <2>2 DEF BuildClient
    <3>. QED BY <1>2, <2>2, <3>1, <3>2 DEF BuildClient, ProvidersTypeOK
  <2>3. CASE Complete
    <3>1. ASSUME NEW vendor \in {"anthropic", "gemini", "router"}, VendorAnswers(vendor)
          PROVE  answeredBy' \in Models /\ spendRow' \in SpendRows \cup {Unrecorded}
      BY <3>1, RowsAreTyped DEF VendorAnswers
    <3>2. CallFails => answeredBy' = "failed" /\ spendRow' = Unrecorded
      BY DEF CallFails
    <3>3. \A vendor \in {"anthropic", "gemini", "router"} : ModelOf(vendor) \in Models
      BY DEF ModelOf, Models
    <3>4. "gemini_model" \in Models /\ "openrouter_model" \in Models
      BY DEF Models
    <3>. QED BY <1>2, <2>3, <3>1, <3>2, <3>3, <3>4 DEF Complete, ProvidersTypeOK
  <2>4. CASE Embed
    <3>1. \/ answeredBy' \in {"stub", "failed"} /\ spendRow' = Unrecorded
          \/ answeredBy' = "embedding_model" /\ spendRow' \in SpendRows \cup {Unrecorded}
      BY <2>4, RowsAreTyped DEF Embed, CallFails
    <3>2. called' \subseteq called \cup {"embedding_model"} /\ "embedding_model" \in Models
      BY <2>4 DEF Embed, Models
    <3>. QED BY <1>2, <2>4, <3>1, <3>2 DEF Embed, ProvidersTypeOK
  <2>5. CASE UNCHANGED providerVars
    BY <1>2, <2>5 DEF providerVars, ProvidersTypeOK
  <2>. QED BY <1>2, <2>1, <2>2, <2>3, <2>4, <2>5 DEF ProvidersNext
<1>. QED BY <1>1, <1>2, PTL DEF ProvidersSpec

----------------------------------------------------------------------------
(* MCAccounts.                                                             *)

\* A step of all of them is a step of each, or leaves it alone.
LEMMA PartsStep ==
  ASSUME [AccountsNext]_<<part, vars, signInVars, allowanceVars, chatVars, mailVars,
                          providerVars, clientVars>>
  PROVE  /\ [Next]_vars /\ [SignInNext]_signInVars /\ [AllowanceNext]_allowanceVars
         /\ [ChatNext]_chatVars /\ [MailNext]_mailVars /\ [ProvidersNext]_providerVars
         /\ [ClientNext]_clientVars
<1>0. UNCHANGED <<conversation, sharingVars, votingVars>> => UNCHANGED chatVars
  BY DEF chatVars
<1>1. CASE OthersAsleep("deletion") /\ Next
  BY <1>0, <1>1 DEF OthersAsleep
<1>2. CASE OthersAsleep("sign-in") /\ SignInNext
  BY <1>0, <1>2 DEF OthersAsleep
<1>3. CASE OthersAsleep("allowance") /\ AllowanceNext
  BY <1>0, <1>3 DEF OthersAsleep
<1>4. CASE (OthersAsleep("shares") \/ OthersAsleep("votes")) /\ ChatNext
  BY <1>4 DEF OthersAsleep
<1>5. CASE OthersAsleep("mail") /\ MailNext
  BY <1>0, <1>5 DEF OthersAsleep
<1>6. CASE OthersAsleep("settings") /\ ProvidersNext
  BY <1>0, <1>6 DEF OthersAsleep
<1>7. CASE OthersAsleep("page") /\ ClientNext
  BY <1>0, <1>7 DEF OthersAsleep
<1>8. CASE UNCHANGED <<part, vars, signInVars, allowanceVars, chatVars, mailVars,
                       providerVars, clientVars>>
  BY <1>8
<1>. QED BY <1>1, <1>2, <1>3, <1>4, <1>5, <1>6, <1>7, <1>8 DEF AccountsNext

\* A behaviour of all of them is one of each: a run of MCAccounts checks each
\* part as its own module specifies it.
THEOREM AccountsPartsAreTheirOwn ==
  AccountsSpec =>
    /\ Spec /\ SignInSpec /\ AllowanceSpec /\ ChatSpec /\ MailSpec
    /\ ProvidersSpec /\ ClientSpec
<1>1. AccountsInit => /\ Init /\ SignInInit /\ AllowanceInit /\ ChatInit /\ MailInit
                      /\ ProvidersInit /\ ClientInit
  BY DEF AccountsInit
<1>. QED
  BY <1>1, PartsStep, PTL
  DEF AccountsSpec, Spec, SignInSpec, AllowanceSpec, ChatSpec, MailSpec, ProvidersSpec, ClientSpec

\* The types of accounts, sign-in, the allowance, chats, mails, providers and the
\* page, for any number of each (delete_account, magic_link.py, trial.py,
\* share_answer, digest.py, config.py, useLandingState).
THEOREM AccountsTyped == AccountsSpec => []AccountsTypeOK
<1>1. /\ TypeOK /\ SignInTypeOK /\ AllowanceTypeOK /\ ChatTypeOK /\ MailTypeOK
      /\ ProvidersTypeOK /\ ClientTypeOK
      => AccountsTypeOK
  BY DEF AccountsTypeOK
<1>. QED
  BY <1>1, AccountsPartsAreTheirOwn, TypeCorrect, SignInTyped, AllowanceTypes, ChatTyped,
     MailTyped, ProvidersTyped, ClientTyped, PTL
=============================================================================
