# A TLA+ model of CiteVyn

CiteVyn answers questions about product documentation and cites the passages it
used. Documents are ingested into versions of an index, operators promote one
version to be served, requests retrieve from it, a language model writes the
answer, and the answer is cached. Around this stand accounts, memberships,
limits on use and on spending, mails about changed pages, and a web page.

This directory holds TLA+ modules of the parts where several actors meet or a
rule is easy to get wrong, TLC configurations that check them on small
instances, and proofs checked by TLAPS. Paths below are relative to
`src/backend/app/` unless they start with `docs/` or `frontend/`.

## Inventory

| Part | State it keeps | Operations | What is hard | What makes it correct |
|---|---|---|---|---|
| Index promotion: `services/index_versions.py`, `services/index_resolution.py`, `api/routes/admin.py`, `worker/promotion_eval.py` | `index_versions` (status, promoted_at, evaluation pointer), `evaluation_runs`, `audit_events` | promote (gated or forced), evaluate, resolve the active row | row locks, per-statement snapshots, a stale unlocked read, deadlocks, overlapping evaluations | something stays served, no unseen demotion, evidence for every unforced promotion |
| Corpus ingestion: `worker/cli.py`, `worker/runner.py` | `documents`, `chunks`, `source_version_hash` | one run over the sources, one transaction per source | failure after the delete, crash, edits during the run, overlapping runs | old chunks stay until new ones are there, the hash names what is there |
| Embeddings: `embeddings/`, `retrieval/vector.py`, `services/index_health.py` | the stamp of a version, vectors, one alert key in Redis | embed, stamp, compare, record a refusal, self-check | stamps committed before vectors, processes with different settings, late results | only vectors of one model are compared; the alert follows the account |
| Answers: `answer/orchestrator.py`, `retrieval/`, `cache/answer_cache.py` | `answer_cache`, `messages`, `retrieved_evidence` | ask: pin, look up, retrieve, generate, store | the corpus and the active version change during a request | a cached answer is not stale and not a mixture |
| A question's way: `answer/memory.py`, `guardrails/domain.py`, `routing/intent.py`, `llm/validation.py` | the turns of a conversation | rewrite, route, look up, retrieve, validate, retry | one cache for all conversations, a model that writes anything | an answer is about its question and its cards are its citations |
| Providers and settings: `core/config.py`, `llm/`, `cost/pricing.py`, `cost/meter.py` | settings, clients, spend rows | parse, start, build a client, fall back, charge | four places decide and must agree; replies leave out usage or name another model | production calls real, priced models, and none of its calls passes for a free one |
| Paid calls: `cost/` | `provider_calls`, one semaphore per process | check the budget, wait, call, meter | check and charge are far apart; cancellation; lost rows | no slot lost, bounded overshoot |
| Answer allowance: `access/quota.py`, `access/policy.py`, `api/routes/messages.py`, `api/routes/mcp.py` | usage rows, API key, plan | check, answer, record | check and record are far apart; the plan changes between | bounded overshoot |
| Memberships: `billing/`, `api/routes/billing.py` | `memberships`, `stripe_events` | checkout, webhook, fetch, apply | duplicated, reordered, concurrent deliveries | the row follows Stripe's newest state |
| Account deletion: `services/account_deletion.py`, `core/deletion_list.py` | users and what hangs on them, tombstones, a durable Redis list | lock, count, list, commit or undo; reapply after a restore | two stores without a common commit, lost replies, a restore in the middle | a deleted account does not come back, and none is deleted that bills |
| Sign-in: `api/routes/auth.py`, `magic_link.py`, `oauth.py`, `core/auth_sessions.py` | sessions, links, nonces, users, identities | register, log in, redeem, connect, log out | two tabs of one browser, unique keys that decide races | a link signs in once, a report is true, history is not taken over |
| Rate limits and bot checks: `core/rate_limit.py`, `access/bot_check.py` | windows, used challenges | check, use once, clean up | clocks and scripts in another order, Redis running late | limits hold, a solution pays once |
| Watch, alerts, digest: `watch/`, `services/digest.py`, `services/alerts.py` | snapshots, changes, claims | run, claim, send, release | overlapping jobs, a crash between claim and send | nothing is mailed twice, changes reach readers |
| Sessions, shares, feedback: `api/routes/sessions.py`, `shares.py`, `feedback.py` | sessions, messages, shared answers, votes | ask, share, revoke, vote, end | count and insert, pairs found by time | bounded shares, an answer under its own question |
| Web page: `frontend/src/hooks/useLandingState.ts` | transcript, two composers, requests in flight | submit, park, resume, leave | timers, late answers, changed identity | no question that passed the gate comes between an answer and its own |
| Source texts and exact search: `worker/parser.py`, `chunker.py`, `exact_terms.py`, `services/exact_lookup.py` | chunks, `exact_terms` | fetch, parse, chunk, extract, search | texts are cut and joined again, a failed fetch keeps the old rows | a search finds the sections of the last text that was ingested, under their headings |
| Static pages, deployment | none that is shared | | sequential | |

The parts interact through Postgres rows: ingestion writes chunks, the
fingerprint and the stamp that answers read; promotion writes the status that
answers pin; answers and ingestion both make paid calls; the evidence rows of
answers refer to chunks by a foreign key, so storing an answer can wait for, or
be refused by, an ingestion run; billing decides the tier the allowance reads,
and deletion asks billing whether it may go on. `PROJECT.json` lists every part
with what is modelled and what is not, and the hazards at their lines.

## Modules

Definitions marked "Mutant" are wrong variants of the operator after them: each
property is shown to fail when its operator is replaced by one.

### IndexPromotion (abstract specification: ServedIndex)

`status`, `promotedAt` and `pointer` are columns of `index_versions`; `runs` is
`evaluation_runs` by `started_at`; `audit` is the promotion part of
`audit_events`; `lock` says which transaction holds a row; `tx[p]` is what one
call of the promote route has read so far. `clock` counts readings of
`datetime.now`.

A call goes through `ReadPrior` (the route's unlocked read), `Start` (the
timestamp), `LockTarget` or `AlreadyActive` (first `SELECT ... FOR UPDATE`),
`Gate` or `Refuse`, `ScanActive` and one `LockActive` per row (second
`SELECT ... FOR UPDATE`), and `Commit`, which contains all writes of
`promote_version`. Three facts about the platform are modelled because the code
depends on them: a statement under READ COMMITTED visits the rows of its own
snapshot and, once it owns a row, rechecks the WHERE clause on that row only; an
ORM session does not refresh an instance it already holds; Postgres aborts one
member of a cycle of waiting transactions. `Abort` can end a call anywhere.
`StartRun` and `FinishRun` are the two transactions of an evaluation. The second
updates the version's row and waits for a promotion that holds it. The first
waits for nobody: migration 0001 gives `evaluation_runs` no foreign key
(`worker/promotion_eval.py:267-269` relies on that; only the ORM class declares
one).

`ServedIndex` says what readers are promised: a promotion looks once at what is
served, and later replaces all of that, in one step, by its own version.
`Served == INSTANCE ServedIndex WITH served <- Active, ...` maps calls in phase
`scanning` to promotions that have looked.

### CorpusIngest and GroundedAnswers

In `CorpusIngest` a text is a number, a fingerprint is the corpus it fingerprints
(the hash is injective in the texts), and a source has one chunk per generation.
`BeginRun` is `build_runner` and `ensure_index_version`; `FetchSource`,
`FindChunks`, `DeleteChunks`, `CommitSource` are one source's transaction as far
as it can interleave; `RefuseSource` and `FailSource` are its failures before and
after something is written; `EndRun` publishes the fingerprint or not; `Crash`
ends a process anywhere. `EditsMidRun`, `Reverts` and `Preloaded` choose the
environment.

`GroundedAnswers` extends it with `active` (which versions are served), requests
`ask[a]` and `cache`. One question is asked again and again, so the other parts
of the cache key are constant and the key is the fingerprint. `ReadIndex` pins
version and fingerprint, `Miss` and `AnswerFromCache` are the lookup,
`RetrieveArm` is one arm's statement with its own snapshot (two arms stand for
the exact, keyword and vector arms: two suffice for a union), `Finalize` decides
cacheability, `Persist` commits messages, evidence and cache row together and
waits for a run that is deleting its chunks, `FailOnEvidence` is the foreign
key's refusal. `Promote` is IndexPromotion as readers see it; `DualActive` lets
it leave several versions active, which IndexPromotion shows can happen.

### VectorSpaces

Which embedder made the stored vectors and which made the question's. `stamp` is
the version's recorded identity, `vectors[v][s]` what embedded a source,
`builders` a history variable: the embedders of a version since one run, alone
on it, rebuilt it whole. `BeginRun` commits the stamp first, as
`ensure_index_version` does; `IngestSource`, `FailSource`, `EndRun` follow.
`Pin`, `ReadStamp` and `Compare` (or `EmbedderFails`) are a question's vector
arm, with promotions and re-stamping between them; `Mismatch` is the gate and
`VectorArm` the verdict of `/health/index`, read in one snapshot here although
the route takes three statements. Every process may have any embedder: a deploy,
a roll-back, or a worker with other settings.

### EmbedderHealth

`account` is the provider's view, `alert` the Redis key that says the account is
refused, `lock` the key that spaces self-checks, `caller[c]` a question or a
probe with its attempt and result. `Vector`, `Refused`, `Transient`, `Failed`
are the outcomes of a request to the provider, `AccountRefused` the verdict of
each client on a status, `RecordResult` the write to the key (possibly late, or
lost with Redis), `Ping`, `SkipCheck` and `Report` the health route.

### Providers

The settings of a process, what refuses them when they are parsed (`Parses`),
when the API starts (`AcceptsLlm`, `AcceptsEmbedder`) or the worker builds its
run, which client the factory builds (`ClientFor`), the fallback of the Gemini
client, and the models that are sent a request. All settings are initial states.
A successful call may leave a spend row (`CompletionRow`, `EmbeddingRow`): priced
by the name in the reply (`HasPrice`), with the tokens the reply reports or an
estimate (`ResolvedTokens`, `ResolvedEmbedding`). `Usable` and `CallFails` say
which replies are no answer to which client.

### SourceText

`file` is the text of each source, a sequence of lines with words; `sections`
the chunks of a version and source with their exact terms; `job` the last
ingestion job; `ingested` a history variable, the text of the last job that
completed. `RunJob` is one source's job: `FetchFails`, `ParseFails` or
`Materialize`, which goes through `ParseMarkdown`, `ChunkDocument` and
`ExtractTerms`. `SearchFinds` is `exact_lookup`. The texts are processed line by line as
in the code; what a word matches is data of the word.

### AnswerText and AnswerPath

`AnswerText` is the part of `llm/validation.py` a citation depends on: a text is
a sequence of lines, prose or fences of a character and a length, with markers;
`CodeLines` follows the open fence line by line, `Expand` splits grouped markers, `CitedMarkers` is
what counts as cited, `Validation` the verdict.

`AnswerPath` uses its operators in the way of one question through `Orchestrator.ask`:
`BeginQuestion`, `Greet`, `RouteQuestion` (rewriting, products, intent),
`HitCache` or `Retrieve` with its fallbacks, `WriteText` (the model writes any
text), `RefuseInvalid`, `RetryWithoutExact`, `Answer`. A question is the products it
names, whether it leans on the conversation, and its shape. `reply` is a history
variable: what the last reader saw and what it was written for.

### PaidCalls

`call[c]` is what a call is doing and in which process; `free` and `queue` are
the value and the waiters of each process's `asyncio.Semaphore`; `spent` is the
sum of the day's `provider_calls`. `Begin` is `enforce_budget` (an unreadable
table is always possible), `Enter`, `Answer`, `ProviderFails`, `Record` and
`RecordFails` follow `MeteredLLMClient.complete`; `Cancel`, `Restart` and
`Midnight` happen at any time. `userSpent` is a history variable: ingestion is
metered but never refused, so the limit speaks of the rest.

### Allowance

One account: `plan` is the tier its memberships give it now, `usage` the counted
answers (trial, this month's Pro answers, older ones), `question[q]` a question
in progress with the tier it was admitted with. `Ask` is the check for chat or
MCP, `RecordAnswer` the usage row that commits with the answer, `EndUncounted` a
refusal or failure. `ChangePlan`, `NewMonth`, `VerifyEmail`, `MakeKey` and
`RevokeKey` happen at any time.

### Memberships

`live[s]` is what Stripe holds about a subscription, with a version number per
change; `rows` is `memberships`, `applied` the logged events, `handler[h]` one
webhook request. `Receive` claims an event, `Bind` is the first fetch, which finds the
account, `LockUser` the lock on its users row, `Fetch` the second fetch,
`Apply` or `LogUnmatched` the writes; `Conflict` is the unique key of the event
log; `Fail` a failed request at any point. `StartCheckout`, `CompleteCheckout`,
`Change`, `ClearMetadata`, `GraceEnds` and `DeleteAccount` are the environment.

### AccountDeletion

One address: at most one account at a time, every new one with a new id. `db` is
what Postgres holds about it: `acct` the users row, `live` whether the Membership
row says a subscription can bill, `used` the account's counted usage rows,
`stone` the answers on the tombstone rows. `backups` are copies of `db`,
`listed` is the Redis sorted set, `lock` the holder of the users row
`FOR UPDATE`, `task[p]` what a process is doing, `seen[m]` the entries a reapply
run read. `gone` is a history variable: the accounts whose deletion was reported
done.

`OwnerAsks` (behind the gate of `access/deps.py`) and `OperatorAsks` (the
`delete-account` command, which asks no gate) begin an attempt. `Plan` locks the
row, looks at the subscription and counts the answers; `Record` executes the
deletes and writes the list, still uncommitted; `Commit` ends it. `RecordFails`,
`CommitFails` and `CommitUnheard` are the failures, with or without effect, that
lead to `_unlist_if_still_there`: `StillThere` is its SELECT, `Forget` its ZREM,
`KeepListed` every other outcome. `Refuse` is a failure before the list is
written, `Crash` the end of the process anywhere.

`reapply_deletions` is `ReadList` (which also drops old entries), `FindPresent`,
`LockListed`, `DeleteAgain`, or `Skip` when another machine got there first; it
does not look at the subscription. `Restorable` states what the code assumes
when it drops entries: one is kept twice as long as any backup, so only an
account that no backup holds loses its entry.

`Admit`, `StoreAnswer` and `CommitAnswer` are a question of the account. An answer
holds its session row and then waits for the users row, which its usage row
refers to; a deletion holds the users row and then waits for the session row its
cascade reaches. `Record` and `CommitAnswer` are then both disabled, and `Refuse`
or `Abandon` is the deadlock detector's choice. `Restore` replaces `db`, cuts
every open transaction, ends the questions, and leaves a deletion to find out at
its next statement; the list is outside and stays.

### SignIn

`cookie[b]` is a browser's session, `session[s]` its principal (an anonymous
principal is named by the session that made it), `account`, `identity`, `nonce`,
`link` and `owner` are the rows of accounts, linked identities, flows, emailed
links and conversations, `tab[t]` a request in progress with the cookie it was
sent with. Each read that precedes a write is a step of its own; unique keys
decide races. `ClaimLink` and `ClaimNonce` are the one-use updates, `Connect` and
`InsertIdentity` a connect, `Identify` and `InsertAccount` a login at a provider,
`SignedIn` the new session together with the claim of the history.

### RequestGuards

`bucket[b]` holds the hits of a sliding window, each with the clock reading it
carries and the time its script ran. A request arrives (`Arrive`), uses a
solution (`UseOnce`, with the clean-up of old rows), reads the clock
(`ReadClock`) and is checked by bucket after bucket (`Check`). `RedisFails` ends
a request before or after its script ran, `RunsLate` is a script that runs when
its request was already refused. `MaxDelay` bounds a wait that still succeeds;
`RequestGuardsAssumption` says it is within the clean-up margin.

### DocsMail

The watcher (`StartWatcher`, `FindEdited`, `FindSame`, `FailPage`) stamps
changes with the time its run began. A digest or alert job is `ReadChanges`,
`ReadReaders`, then per reader `Claim` (a row, committed) and `Send`, `SendFails`
followed by `Release`, or a death in between, recorded in `cut`. Readers choose
and unsubscribe at any time.

### ChatHistory and ChatClient

`ChatHistory`: `chat` the sessions, `turn` the question and the answer with
their times, `shares` and `sharing`, `votes` and `voting` the rows and the
requests in progress. A share is `CheckShare` (the reads), `InsertShare` (the
lock on the users row, the count, the insert) and `CommitShare`; a vote is
`FindVote`, `InsertVote` or `UpdateVote`, `FindWinner` after a refused insert.
Ending a session and deleting a member cut across.

`ChatClient` is the controller of the web page: `SubmitChat`, `PickSuggestion`,
`PickOnLanding`, `AskHero` send, park or refuse a question; `Entered` is the
60 ms timer; `SessionCreated`, `AnswerArrives`, `RequestFails`, `Resumed` are the
replies, in any order; `Resume`, `LeaveChat` and `IdentityChanges` happen
meanwhile. It leaves out nudges, the highlight of a question asked before,
streaming, demonstrations and focus. `shown` is the page as React last rendered
it, which is what a handler closes over: the reader sees and clicks `shown`, and
the duplicate guard, a submitted text and a carried draft are read from it, while
the refs (requests in flight, failed questions, the box that `park` writes) are
current. Every event ends with `Render`, which shows the new page or leaves the
old one for the next event, so two suggestions can be picked before a render. A
reader's bubble says how its question came: "asked" past the gate of `submitChat`
or `enterChat`, "suggested" by a chip of an empty chat, which has none, or
"stored" in a resumed conversation.

### Instances

`MCIndexPromotion`, `MCGroundedAnswers`, `MCAccountDeletion`, `MCProgress`,
`MCAccounts` and `MCGuards` declare model values, initial states and symmetry
sets. The last three put several modules into one instance. Those modules share
no state (what they share in the program is a constant or a nondeterministic
change in each), so their product would say nothing more: the initial state
chooses one `part`, and a behaviour belongs to that part while the others stay
asleep. The reachable states are the disjoint union of the parts' states.
`MCProgress` has PaidCalls, Memberships, GroundedAnswers (with CorpusIngest) and
EmbedderHealth; `MCAccounts` has AccountDeletion, SignIn, Allowance, ChatHistory
(shares and votes apart), DocsMail, Providers and ChatClient; `MCGuards` has
RequestGuards, AnswerText, AnswerPath, VectorSpaces and SourceText. Components do share
state, and are composed for it, in GroundedAnswers (ingestion, promotion and
requests over the same rows), AccountDeletion (deletions, answers, billing,
backups) and AnswerPath (which uses the citation check of AnswerText).

## Runs

Passing:

- `promotions` (4 versions, 2 calls at a time, 2 promotions, 2 evaluation runs of
  two of the versions):
  `DemotesWhatIsServed`, `UnforcedIsEvidenced`, `ActiveLeavesOnlyForSuccessor`,
  `ReplacesWhatItSaw`, `PromotionsEnd`. The initial states are ones earlier
  calls leave: three candidates and a version yet to be built; one served version
  with a rollback target and two candidates; or two served versions, which the
  run `dual_active` reaches from `Init`, and two candidates. With
  two rows to demote and two calls, scans, locks and commits cross in every way,
  including circular waits. Two runs of one version or of both, each starting and
  ending at any time, overlap each other and the promotions: the gate has to tell
  the last finished run from an earlier one, a failed one and one still running.
  Only `v3` and `v4` are evaluated (`EvaluatesTwo`), whose roles the initial
  states vary: candidate, absent at first.
- `answers_settled` (2 sources, 1 version, 1 run at a time, 2 runs, 2 edits
  between runs): `SettledCacheIsCurrent`, `OneGeneration`. Two sources make
  partial runs, half-done runs and one failed source differ from a clean run;
  two runs let the second repair, or not, what the first left.
- `answers_unsettled` (1 source, 2 versions, empty at first, edits during runs,
  several versions possibly active, 3 runs, 2 edits): `NeverOlderThanPinned`,
  `NoFrozenUnion`. Two versions are what a union needs.
- `progress` (`MCProgress`): the types of its modules; of PaidCalls `SlotsAddUp`
  and `BurstIsBounded` (3 calls, 2 processes, 1 slot each, limit 2, cost up to 2:
  two calls wait in a queue, and all three pass the check and overshoot); of
  Memberships `RowsNeverGoBack`, `SettledRowsAreCurrent`, `ProFollowsStripe` (1
  account, 2 subscriptions, 2 handlers, 3 events, 1 failed request: an event is
  delivered late, twice, to both handlers at once); of CorpusIngest
  `SourcesStayAnswerable` (2 runs at once on 1 source, 1 request storing
  evidence); of EmbedderHealth `AlertIsEarned` and `AlertFollowsAccount` (1
  question, 2 probes, 1 retry, the account refused and topped up, 2 faults);
  and `WorkEnds`: calls, requests and runs all end.
- `accounts` (`MCAccounts`): the types of its modules; `NobodyStaysBilled` (1
  account id, an owner, an operator, 1 question, 1 backup; `deletion_restored` has
  two ids); `LinkSignsInOnce`,
  `ReportedLinkIsTrue`, `HistoryIsNotTakenOver` (2 users, 1 address, 1 identity, 1
  browser with 2 tabs, 1 link, 2 nonces, 3 sessions, 3 requests: two tabs can both
  hold an old cookie while a third session is made); `AllowanceIsBounded` (2 questions at limits of 2, so that
  both pass at the last answer, with changes of plan and month); `SharesStayBounded`
  (2 requests at a limit of 1), `SharesPairUp` (2 overlapping questions), with two
  votes at once; `MailedOnce` (2 jobs, the watcher, 2 weeks
  of one step each, 2 texts, 2 mails);
  `ProductionIsRealAndPriced` (every setting, every kind of reply, up to 1 unit of
  tokens of each kind); `GateKeepsQuestionsApart` (demo and members, 2
  questions, 1 earlier conversation, 2 requests, 3 bubbles and the replies still
  awaited, 1 landing question waiting, 1 resume). `PageBounds` adds that the
  landing page's box is filled before the first request only, that a conversation
  is resumed only while an answer is awaited, and that at most one handler runs on
  a page whose transcript has changed since: two suggestions picked before a
  render, and replies that land in a resumed conversation, are reached.
- `guards` (`MCGuards`): the types of its modules; `WindowIsBounded`,
  `SolutionPaysOnce` (3 requests, limits of 1, which two
  of them race for, 2 challenges that expire at
  different times, a delay of 1, time to 2); `TextsAreRead`, which is
  `MarkersAreRead` of AnswerText (every text of up to 4 lines over fences of two
  lengths and two characters, groups and code spans: an opening fence, a false and
  a true closing and a line between fit) and `SectionsAreFound` of SourceText (2
  sources, 2 versions, texts of up to 4 lines of 4 kinds: a title, two sections
  one of which is empty, and a body fit; files change, vanish and are ingested
  again between searches);
  `TopicIsKept`, `CardsAreGrounded` (2 conversations, one with a history and
  one without, over one cache, 2 questions out of 8 kinds: the second can meet what the first
  cached); `SpacesMatch` (2 versions, 2 sources, 2 overlapping runs, 2
  embedders and one without vectors, 1 question).
- `deletion_restored` (2 account ids, one owner, one reapply run, 1 question, a
  trial of 1, 1 backup): `DeletedStaysUnusable`, `TrialIsNotRenewed`,
  `RestoredIsDeletedAgain`. A backup can hold either account, with or without a
  live subscription; the second id is a new account of the same address, which a
  restore can replace by the first.

The instances are kept small, a minute each: every safety property of the passing
runs has a theorem (`DeletedStaysUnusable` under a condition that `deletion_undone`
shows to be needed), so what a larger instance would show the proofs show for every
value of the constants. A run's part is a sanity check of
the model, of the invariants before they were proved, and of the mutants; each
bound is the smallest at which every mutant of its properties is still caught and
every action still taken.

Bounds (`Max...` constants) appear in guards; they stop counters, not actions
that end what has begun, and with them used up the system may have nothing left
to do, so deadlock is checked only in the deletion runs. `PaidCalls` needs no bound on spend:
past the limit only calls already admitted add to it, and a new day resets it,
apart from ingestion, which `MaxIngests` bounds.

What the properties assume is part of what they say. `SettledCacheIsCurrent`:
one version, built before it is asked, one run at a time, and no edit that brings
an earlier text back (with it the fingerprint comes back, and what was cached
under it); the run has no edits during runs, the theorem allows them.
`NeverOlderThanPinned`: one run at a time and no text brought back; with
overlapping runs it does not hold, since a run that fetched an older text may
commit it after a newer fingerprint is published. `DeletedStaysUnusable`: the owner's attempts alone;
`deletion_undone` shows what a second attempt does. `WindowIsBounded` and
`SolutionPaysOnce`: waits up to `MaxDelay`, which is at most the margin.
`SpacesMatch`: versions one embedder alone has built since they were last rebuilt
whole; `spaces_mixed` shows the others. `SharesPairUp`: an answer stands under its
own question unless another was stored while it was produced.

Violations, each a statement of the repository that the code does not keep:

- `dual_active`: `services/index_versions.py:14-16`, "one wins, the other sees a
  clean state". Two promotions of different versions can leave both active.
- `ambiguous_frozen`: `retrieval/hybrid.py:253-254`, an answer produced while
  several versions are active "is not frozen". It is when the ambiguity ends
  between pinning and the second check.
- `deletion_undone`: `services/account_deletion.py:32-35`, the list is there "so
  a restore from an older backup cannot quietly bring the account back". The undo
  of an attempt that failed removes the entry whoever wrote it, so it can undo
  another attempt's.
- `spaces_mixed`: `retrieval/hybrid.py:508-510`, stored vectors and the question's
  "must come from the same embedding model". The stamp is committed before the
  vectors are replaced, so a question passes the gate and meets old vectors.
- `digest_skips`: `services/digest.py:3-5` and 12-13, each account "gets the
  changes since its own last digest". A change committed after a digest read the
  changes carries an older time than that digest, and the next passes over it.

## Fairness

Requests that have begun keep running, and the database, Redis and providers
answer or fail within timeouts; nothing says that requests begin, that an
operator acts or that a process dies. A wait is a disabled step, so fairness does
not assume that waits end.

- `IndexPromotion!FairSpec`, and `PromotionsSpec` of the run: weak fairness of
  each call's own steps (Postgres breaks deadlocks).
- `GroundedAnswers!AnswersFairness`: weak fairness of each request's and each
  run's steps.
- `PaidCalls!CallsFairness`: weak fairness of entering the semaphore when first
  in line, of ending a provider call (every client has a timeout) and of a
  metering write. The queue of `asyncio.Semaphore` is first-in first-out.
- `Memberships!BillingFairness`: Stripe delivers each event until it is logged
  (weak fairness of receiving it by some handler), handlers go on, a grace that
  runs ends. `MaxFailures` says that requests do not fail for ever.
- `EmbedderHealth!HealthFairness`: weak fairness of a call's answer and of
  recording it, of the uptime probe's calls while the self-check is on and of
  their report, and of the expiry of the key that spaces them.
- `AccountDeletion!Fairness`: weak fairness of the steps of an attempt and of a
  question; for a reapply run, weak fairness of reading the list and of skipping,
  and strong fairness of its other steps. `keep_reapplying` starts again after
  every failure, and a step that other transactions or failures keep disabling is
  tried again on every round: strong fairness says that it does not fail every
  time at the same statement.

The other modules state no liveness: their requests are single passes without
waits on each other, apart from a lock held until the end of a transaction.

## Proofs

All theorems hold for every value of the constants, under the modules' named
assumptions (sentinels outside the sets they are added to, natural bounds,
integer rates, a positive cap, finite sets of calls, of embedders and of the
versions that are built, and texts, histories and titles of the shape the code
gives them). Five theorems also name what they need of the environment:
`OneOwner` for `DeletedForGood`, `UndosCrossNone` for `OnlyCrossedUndosLose`, and
in `GroundedAnswersProofs` `OneRun` (runs do not overlap), `OneVersion`,
`Preloaded` (a version is built before it is asked) and the absence of `Reverts`
(no edit brings an earlier text back). The section on runs says what fails
without them.

Every module's types are a theorem of it. Most follow from the invariants below;
`AnswersTyped` needs that document ids are bounded and so a newest document
exists where a source has two. `AccountsPartsAreTheirOwn`,
`ProgressPartsAreTheirOwn` and `ServicesPartsAreTheirOwn` say of the instances
that join several modules that a behaviour of the instance is one of each of its
modules: what is proved of a module holds in the run that checks it. The joint
types (`AccountsTyped`, `ProgressTyped`, `ServicesTyped`) and `TextsRead` follow.

`IndexPromotionProofs`. `DemotesWhatIsServed` is not inductive: why a visited
row stays active follows from who holds locks. `LockInv` says, for each call,
that past its first SELECT it owns its target, that what it will demote and has
still to visit is part of what it saw, and that each row it has visited is
owned by it and was noted by its present status. A step of another call changes
only rows that call owns, so it cannot disturb this (`CommitWritesOwnRows`,
`LockInvStep`, `LocksAreKept`). From it follow `DemotionIsCurrent`;
`LastKnownGoodIsKept`; and `PromotionReplacesWhatItSaw`, the refinement of
`ServedIndex`: at its commit a call has visited all it saw, each visited row
that was still active is demoted, and rows it did not see are left alone
(`CommitReplaces`, `ViewEnds`). `PromotionIsEvidenced` uses a second invariant,
`EvidenceInv`: an unforced call past the gate holds a finished run of its target
that reached the threshold, and finished runs never change (`RunsOnlyGrow`).
`TypeCorrect` proves the types.

`GroundedAnswersProofs`. `UnionsAreNotFrozen`: `UnionInv` follows `cacheable`
from the gathered evidence to the cache row; a request becomes cacheable only
when what it has found is of one version, and finds nothing more afterwards.
`GenerationsDoNotMix`: `RowsInv` says that a source has at most one document row
in a version, that its chunks refer to it, and that a run about to commit drops
everything that is there; this is where `OneRun` is needed, since two first
ingestions that overlap each insert a row. `KeysAreKept`
(`NeverOlderThanPinned`): `TextsInv` bounds what a fingerprint names. Of every
source it names a text no newer than the chunks, than what a run has fetched for
it, and than the file; and a run that will publish has, for each source it is
past, left chunks at least as new as its own fingerprint names. `PinsInv`
carries that bound from the pin to the evidence and the cache row. Edits during
runs are included. `SettledIsCurrent` (`SettledCacheIsCurrent`) adds the
opposite bound, `GrowInv`: chunks only get newer texts, what was found is no
newer than what is there, and every source was found. A key that is settled is
then met from both sides. Without `Preloaded` a version carries its fingerprint
before it has chunks (known as #478). `SourcesAreKept` (`SourcesStayAnswerable`)
needs none of these: the chunks of a source change only in a commit, and a
commit always puts one there.

`BillingProofs`. Paid calls: `SlotsAddUp` is inductive with the types; the work
is that a step moves one call in or out of the provider and one slot with it
(`SlotTaken`, `SlotReturned`). `BurstIsBounded` needs that user spend is part of
the sum that is checked (`BoundInv`): a call admitted below the limit adds its
share to the bound, and recording replaces that share by a row (`BoundWithRow`).

Memberships: `RowsSettle` and `RowsOnlyAdvance`. `RowsInv` orders the versions
of a subscription: a row is no newer than what Stripe holds, and is at least as
new as any logged event of it. Between its fetch and its commit a handler holds
the account's users row, so the row cannot have passed what it fetched, and what
it fetched is no older than its event. A row thus never goes back; and when
every change has its event logged, the row is current.

`AccountProofs`. Deletion: what a deletion commits was read two steps earlier.
`LockInv` says that whoever holds the users row has noted what is there now: the
account, its answers and, for a first deletion, that nothing bills. Only holders
of the row, and steps that find it free, change these; a restore frees it.
`NoLiveSubscriptionDeleted` follows, and `TrialStaysCounted`: a deletion moves
exactly `used` to the tombstone (`RemovedKeepsAnswers`, `AnswersStep`).
`OvershootStaysBounded` adds `BoundInv`: answers plus questions in flight stay
below the limit plus all questions, and so does every backup (`PendingStep`).
`DeletedForGood` assumes `OneOwner`, no operator and at most one request of the
owner, the case the code gets right. Its invariant `GoneInv` says that what was
reported deleted and can come back is listed, and that no attempt under way is
about such an account, so that no undo can touch its entry; a new account has a
new id, and `ReadList` drops only what no backup holds. `OnlyCrossedUndosLose`
drops `OneOwner` and says what goes wrong without it: for any owners, operators,
failures and crashes, a deletion reported done is lost to a restore only if some
undo crosses another deletion of the same account. `ListedInv` says that what was
reported deleted and can come back is listed, and so is what an attempt that
holds the row is about to delete; only an undo takes away an entry that is needed,
and `UndosCrossNone` says that none does. The run `deletion_undone` shows the
crossing.

Sign-in: `LinkOnce`, `ReportTrue`, `HistoryStays`. `LinkInv`: a link is open, or
in the hands of one request, or has signed in once. `FlowInv`: the session under
which a flow was started belongs to its starter as long as it is there, however
the cookie has changed since. `PendingInv`: an identity that a request is about
to insert is still nobody's and no other request's, so the unique key has
decided, and what was reported as connected stays true (`ReportInv`). That a
history is not taken over follows step by step from the types: a sign-in claims
only conversations of an anonymous principal.

Allowance: `AllowanceHolds`. Its invariant counts the answers recorded together
with the questions admitted on the same tier; an admission below the limit keeps
the sum below the limit plus all questions, whatever the plan does meanwhile.

`ReaderProofs`. Sessions and shares: `SharesStayBounded` counts rows that a
request is about to commit. `HeldInv`: a request that has inserted holds its
account's users row until it commits, the live shares are still below the limit
and none is of the same answer. Revoking, ending a session and deleting a member
only make them fewer (`FewerLive`); another request for the same account cannot
hold the lock. `SharesStayPaired`: by `TimesInv` no two messages have the same
time, and a question is earlier than its answer; by `PairInv` the question a
share has chosen is the answer's own or one asked between the two, in the same
conversation, and stays so until the share commits, or its account is gone and
the commit refused.

Mails: `NeverTwice` and `ClaimsNotLost`. `NumbersInv`: a mail is of one job;
`KeysInv`: claims are unique by their keys, and a mail that was accepted or is
being sent has the claims of everything it says, so a second mail about the same
change would need the same key. A claim without its mail belongs to a job that
is working on it, or is one that was cut short.

Web page: `GateKeepsApart`. `ClientInv` has two parts. `Stand`: every answer and
error stands where it may (`ReadyFor`): below its own question, if it was asked
in the conversation on the screen, and with no other question nearest above that
passed the gate. And whatever is awaited could be appended now: a question past
the gate is sent only when nothing is awaited, a suggestion changes the nearest
question to a suggested one, a resume to a stored one, and a reply to none. The
theorem says no more than that: an answer may stand under a suggestion or a
stored question that is not its own. `ClientTyped` also types the page as last
rendered.

`MCProgressProofs`. Health: `EarnedInv` follows a refusal from the provider
through a call's result to the key: a late result is still one that was refused
(`RefusalsAreOnRecord`, `AlertStaysEarned`); `OneRequestOnly` says of both
clients that a refused request alone is never read as a refused account.

`MCAccountsProofs`. Settings: `CheckedInv` keeps what each phase of a process has checked: a running
process has settings that parsed and passed the check of its role, and its
client is the one those settings name. `ClientIsPriced` and `EmbedderIsPriced`
say that whatever such a client calls, the fallback included, is among the
models whose prices were checked. `CompletionIsCharged` and `EmbeddingIsCharged`
add that no row of a checked client passes for a free call: the name that is
priced is one of a priced model or of nobody, and tokens a reply leaves out are
estimated.

`AnswerProofs`. Guards: a window's bound is about hits by the time their script
ran, the limiter counts by the time they carry. `HitsInv` joins the two: an
admitted hit waited at most `MaxDelay`, and stays in its bucket while its window
lasts, whatever is pruned with an earlier or later clock. So what was recently
admitted is part of what a script counts, and admission below the limit keeps
the bound (`EveryWindowIsBounded`). `SolutionsInv` says that a solution that was
taken has its row, or expired longer ago than the margin; a request that still
holds it read its clock at most `MaxDelay` ago and saw it unexpired, so the row
is there and refuses it (`EverySolutionPaysOnce`). `MaxDelay <= Margin` is where
the proof needs the margin, and all it needs.

Spaces: `SpacesMatch` speaks of a history. `BuildInv`: a known
stamp names a builder of its version, and every vector is of a builder.
`RunInv`: the embedder of a run is a builder, and a run that is alone on a
version and whole has embedded all it has passed, so that when it ends
`builders` may be reset to it. `AskInv`: a question knows every builder of what
it reads from its pin on, also of versions that are rebuilt meanwhile, and once
allowed its own embedder is one of them; with one builder, what it meets is that
one's.

The way of a question: `TopicStays` and `CardsStayGrounded`. `PathInv`: from its
routing on a request keeps a query and areas that its question gave it; what is
cached has its cards among the passages that were shown and is filed under the
query it was written for. Of the model's text the proof needs only which markers
`Validation` counted, not how it reads them.

What the model writes: `EveryMarkerIsRead`. The code follows the open fence
line by line, and so does the specification of CommonMark it is compared with. A
text is a sequence of any length, so what is read of it is found by recursion over
the lines. `ScanExists` shows once that such a reading exists, by the least line
at which it would not (`LeastNatural`, from the well-foundedness of the natural
numbers); every other fact about a text is again the absence of a least line at
which it fails. Where the text is well formed the two readings agree on every
line; splitting the groups of a line's markers (`Expand`) changes neither the
fences nor a single marker, so splitting twice is splitting once, and what was
cited stays cited.

The corpus: `EverySectionIsFound`. `SectionShown` says what `ParseMarkdown` knows
after i lines: no section has begun, or one has, its body so far is what a reader
takes for it, and the blocks are the finished sections, each in its place
(`BlocksFor`). `FlushIs` ends a section: it becomes a block just when it has a
body, so that places and headings agree (`ParsedIs`). The words searched are those
of the body, and of the title and heading at most (`WordsAre`); hence the terms of
a section are between those of its body and those of its body, heading and title
(`SectionsFor`). `DocInv` keeps that of every version and source across failed
jobs, since `ingested` and `sections` change together. The rows that have a text
are finitely many, so a search below its limit returns all of them (`SearchHits`).

Only model-checked. Liveness (`WorkEnds`, `PromotionsEnd`, `ProFollowsStripe`,
`AlertFollowsAccount`, `RestoredIsDeletedAgain`) and ENABLED, which are beyond the
prover. That the operators of `AnswerText` and `SourceText` read real Markdown as
CommonMark or the patterns of the extractor do is not a theorem: the line kinds
and the matches of a word are data of the model. The violated properties are
false. No module declares a RECURSIVE operator.


## Differences between words and code

Met while reading and modelling, and not given a run.

Index and answers. A call that waited for a promotion of the same version audits
a change though "the state didn't change"
(`services/index_versions.py:424-425`), comparing with a status read before it
waited (`api/routes/admin.py:283`). The rollback target shown is the one with
the newest `promoted_at`, a time taken before the locks, and not always the
"most recently demoted" of `docs/API_SPEC.md:1210`. The displayed evaluation is
the last linked, not the "newest TERMINAL run"
(`services/index_versions.py:296-297` against 347). Answers produced in the
middle of a run become "unreachable" (`worker/runner.py:650-652`) unless an edit
is reverted, which brings their fingerprint back. A re-ingest "replaces" the
chunks (`worker/runner.py:356-357`) but two overlapping first ingestions leave
two documents for one source. An edit between fingerprint and fetch is ingested
under the older fingerprint (`worker/cli.py:457-458` against 628 and
`worker/runner.py:203`). A first build carries its fingerprint before it has
chunks (`worker/runner.py:654-656` against 619-622, known as #478). With no
active version, or an ambiguity that ends between the pin and the reading of the
stamp, the arms run unscoped over all versions. A query's success that is
recorded late deletes a newer refusal, although the alert "must not clear itself
while the account is still refused"; the next self-check sets it again. A fourth
product named in a comparison is neither searched nor named in the note. An
exact lookup may answer from another product's chunks (`in_domain or rows` in
`retrieval/exact.py`). The words searched for exactly are to be those of the
"pre-prefix body" (`worker/runner.py:493-497`), but the body is cut at the first
". " of the text, so a title or heading that contains one puts its own words
among them. Every source of a run is read by the fetcher built for the first
(`worker/cli.py:592`), whatever `SourceSpec.fetcher`, "the implementation key"
(`worker/allowlist.py:48`), says; today all are local.

Spending and settings. "Bounds how far past the line a single burst can carry
it" (`cost/admission.py:6-7`): the budget check precedes the wait for a slot, so
callers and not slots bound the burst (`cost/metered.py:143-144`, known as #459);
`docs/COST_CONTROLS.md:126` on ingestion against `cost/metered.py:328-329`. A reply
without text is billed and raises before it is metered, and an embedding in
several batches that fails in a later one loses the usage of the earlier. The
model echoed by OpenRouter may be one without a price and then counts as free.
Production accepts a provider whose key is missing: the process starts, is
healthy, and fails every question.

Accounts. "Only a restore from a backup can bring one back"
(`services/account_deletion.py:284-288`) is why the second deletion skips the
subscription check, but an attempt that died after writing the list leaves the
entry of an account that was never deleted, and the next reapply run deletes it.
"A later failure always gets a fresh 7 days" (`billing/memberships.py:15-17`) fails
when the recovery between two failures was never seen. The rule "No lost update"
fails if metadata is edited to name another account before the first event is
applied. The portal may open the customer of an ended subscription. The branch
`winner is None`, "unreachable in practice" in `api/routes/oauth.py`, is reached
when two accounts race for one address; it fails closed. The waiver of the old
password is "one shot" except for two concurrent requests of one session, and a
login that verified the old password may commit its session after the change
that was to end "every OTHER device". "At most one live row at a time" for
emailed links relies on the interval limiter. A conversation created by a
request in flight while its anonymous principal signs in belongs to nobody. "A margin
keeps the two rules from ever overlapping" (`access/bot_check.py`) while no request
waits longer than the margin.

Mails. "Any old digest's link still turns the digest off"
(`services/digest.py:17-18`) fails for a mail that arrived although the sender
heard a timeout: its row was released. Runs "either side of Monday never repeat a
change" (15-16) unless they overlap. A crash between claim and send loses that
mail; the claim stays.

Conversations. With two overlapping questions a share may pair an answer with
the other question, and a resumed history shows both questions before both
answers. The refused insert of a vote is taken for a duplicate
(`api/routes/feedback.py:157`), but a message deleted with its account also refuses
it. Two overlapping votes may leave a thumbs-up with a reason
(`docs/API_SPEC.md:978`, 981). In the page, an answer in flight is appended to a
conversation resumed meanwhile (`frontend/src/hooks/useLandingState.ts:257-258`
"must not leave the previous one's bubbles mixed in"); the session created by an earlier
question may replace the resumed one; the state called "UNREPRESENTABLE" next to
`REFUSED_SUBMIT` is reached by an empty Enter after a refusal; suggestion chips
have no gate, so two picked before a render, one picked while a timer's question
is being rendered, or one in an empty resumed conversation puts two questions in
flight, and the first answer then stands under the second question ("the reader
attributes A1 to Q2", as `submitChat` says of its own gate; the comment claims the
gate for the composer and the landing page only); a stale 401 after a login shows
the visitor signed out.

## Not modelled

Ranking and scores, matches over several words, prompts, the payloads of
providers, prices as arithmetic, what a page looks like and mail texts are sequential
functions on data that the properties do not distinguish. The kill switch and
the soft limit of the budget refuse everything or only log. Read-only routes
(lists, exports, usage page), the notification feed and the static pages keep no
state. Hashing, signatures and the exchange with identity providers are taken as
given: a token, a signature or a state value belongs to whoever got it. The rows
of `ingestion_jobs` decide nothing. Deployment, migrations and the seed are
outside the program; the constraints they create are modelled where they bite. A
Redis that loses its data is outside all modules.

## What is left

- IndexPromotion and CorpusIngest composed: what an evaluation says about a
  version that was ingested again after it.
- A property of the note under a comparison, which AnswerPath models and no
  property reads: that it names every product the evidence does not answer
  for.
- A spend row that cannot be written because its process dies: PaidCalls counts
  the call as unrecorded, and nothing bounds the sum of such calls.
