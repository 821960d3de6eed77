------------------------------ MODULE AnswerPath ------------------------------
(***************************************************************************)
(* How one question becomes an answer or a refusal (Orchestrator.ask,      *)
(* answer/orchestrator.py): the conversation it is read in                 *)
(* (answer/memory.py), the products it names (guardrails/domain.py), its   *)
(* intent (routing/intent.py), the cache, the retrieval it is scoped to,   *)
(* the text the model writes and the second try of an exact lookup that    *)
(* did not ground.                                                         *)
(*                                                                         *)
(* Covered: several conversations at once over one cache; a language model *)
(* that fails, rewrites a question into anything, or cites anything;       *)
(* retrieval that is degraded or finds nothing; entries that expire.       *)
(*                                                                         *)
(* Not covered: the index under the cache (GroundedAnswers), two questions *)
(* of one conversation at once, the patterns by which a name, a flag or a  *)
(* pronoun is recognised: a question is its names, whether it leans on the *)
(* conversation, and its shape.                                            *)
(***************************************************************************)
EXTENDS AnswerText

CONSTANTS
  Conversations,
  Questions,           \* records [id, names, leans, shape]
  Rewrites,            \* texts the model may condense a question to
  Texts,               \* texts the model may answer with
  Corpus,              \* products the index holds chunks of
  Refusal,             \* the refusal the system prompt asks for
  MemoryTurns,         \* Settings.memory_recent_turns
  Histories,           \* what may have been asked before, per conversation
  MaxHits,             \* Settings.retrieval_top_k
  MaxQuestions         \* bound: questions asked

\* An id is one question's, and the phrasings that ask the assistant about
\* itself are a closed list in which no product stands.
ASSUME PathAssumption ==
  /\ \A p, q \in Questions : p.id = q.id => p = q
  /\ \A q \in Questions : q.id # "" /\ (q.shape = "self" => q.names = {})
  /\ Texts \subseteq Seq(Line)

Products == {"claude_code", "claude_api", "gemini_api", "codex"}

Names == Products \cup {"citevyn", "claude", "site win"}

\* Names are those the patterns know, and the settings are numbers.
ASSUME HistoryAssumption ==
  /\ \A q \in Questions : q.names \subseteq Names
  /\ MemoryTurns \in Nat /\ MaxHits \in Nat
  /\ \A past \in Histories :
       /\ past \in [Conversations -> Seq(Questions)]
       /\ \A s \in Conversations : Len(past[s]) =< MemoryTurns

VARIABLES
  answerWhenGrounded,  \* the setting of that name, fixed for a deployment
  turns,    \* questions stored for each conversation, latest first
  asking,   \* what the request of each conversation knows
  kept,     \* rows of answer_cache
  reply,    \* history: the latest reply
  asked     \* number of questions asked

pathVars == <<answerWhenGrounded, turns, asking, kept, reply, asked>>

----------------------------------------------------------------------------
(* The guardrail: which products a text is about.                          *)

Precedence == <<"citevyn", "claude_code", "claude_api", "gemini_api", "codex", "claude">>

DomainOf(names) ==
  LET named == {i \in DOMAIN Precedence : Precedence[i] \in names}
      first == CHOOSE i \in named : \A j \in named : i =< j
  IN  IF named = {} THEN "unsupported"
      ELSE IF Precedence[first] = "claude" THEN "claude_api" ELSE Precedence[first]

Supported(names) == DomainOf(names) # "unsupported"

\* classify_domains: every product named; CiteVyn alone if it is named.
DomainsOf(names) == IF "citevyn" \in names THEN {"citevyn"} ELSE names \cap Products

\* At most three products are searched, in the order of the patterns.
Searched(areas) ==
  {Precedence[i] : i \in {j \in DOMAIN Precedence :
     /\ Precedence[j] \in areas
     /\ Cardinality({k \in 1 .. j : Precedence[k] \in areas}) =< 3}}

----------------------------------------------------------------------------
(* The question in its conversation.                                       *)

\* A question to the assistant about itself is a question about CiteVyn.
Canonical(q) ==
  IF q.shape = "self"
  THEN [text |-> <<"CiteVyn">>, names |-> {"citevyn"}, leans |-> FALSE, shape |-> "plain"]
  ELSE [text |-> <<q.id>>, names |-> q.names, leans |-> q.leans, shape |-> q.shape]

\* Mutant: a follow-up takes the topic before it even if it names its own.
ContextualAlways(query, prior) ==
  IF query.leans /\ prior # <<>>
  THEN [text |-> <<prior[1].id>> \o query.text, names |-> prior[1].names \cup query.names,
        leans |-> TRUE, shape |-> query.shape]
  ELSE query

\* A follow-up that names no product takes the latest question that did.
Contextual(query, prior) ==
  LET topics == {i \in DOMAIN prior : Supported(prior[i].names)}
      topic == prior[CHOOSE i \in topics : \A j \in topics : i =< j]
  IN  IF Supported(query.names) \/ ~ query.leans \/ topics = {} THEN query
      ELSE [text |-> <<topic.id>> \o query.text, names |-> topic.names \cup query.names,
            leans |-> TRUE,
            shape |-> IF "flag" \in {topic.shape, query.shape} THEN "flag" ELSE "plain"]

\* "site win" in a text that names no product: the model is asked.
AsksForAlias(query) == "site win" \in query.names /\ ~ Supported(query.names)

\* What the model makes of a follow-up; the question itself if it fails.
Condensed(query, condenses) ==
  {[text |-> query.text, names |-> query.names]}
    \cup IF condenses THEN {[text |-> <<rewrite>>, names |-> {}] : rewrite \in Rewrites} ELSE {}

IntentOf(query) ==
  IF ~ Supported(query.names) THEN "unsupported"
  ELSE CASE query.shape = "flag" -> "exact_lookup"
         [] query.shape = "short" -> "clarify"
         [] OTHER -> "faq"

----------------------------------------------------------------------------
(* A request.                                                              *)

NoHits == [areas |-> <<>>, exact |-> FALSE, degrade |-> "none"]

NoQuery == [text |-> <<>>, names |-> {}]

NotAsked == [phase |-> "idle", question |-> "", query |-> NoQuery, areas |-> {},
             intent |-> "faq", anywhere |-> FALSE, found |-> NoHits, text |-> Refusal]

NoReply == [outcome |-> "none", question |-> "", query |-> NoQuery, areas |-> {},
            cards |-> {}, shown |-> {}, hits |-> 0, note |-> {}, asFor |-> NoQuery]

Becomes(s, r) ==
  /\ asking' = [asking EXCEPT ![s] = r]
  /\ UNCHANGED <<answerWhenGrounded, turns, kept, reply, asked>>

QuestionOf(s) == CHOOSE q \in Questions : q.id = asking[s].question

Remembered(s, q) ==
  LET all == <<q>> \o turns[s]
  IN  SubSeq(all, 1, IF Len(all) > MemoryTurns THEN MemoryTurns ELSE Len(all))

\* The question, the reply and the audit row are stored together.
Replies(s, r) ==
  /\ reply' = r
  /\ turns' = [turns EXCEPT ![s] = Remembered(s, QuestionOf(s))]
  /\ asking' = [asking EXCEPT ![s] = NotAsked]
  /\ UNCHANGED <<answerWhenGrounded, asked>>

About(s, outcome) ==
  [NoReply EXCEPT !.outcome = outcome, !.question = asking[s].question,
                  !.query = asking[s].query, !.areas = asking[s].areas]

Refuses(s, outcome) == Replies(s, About(s, outcome)) /\ UNCHANGED kept

BeginQuestion(s, q) ==
  /\ asked < MaxQuestions
  /\ asking[s].phase = "idle"
  /\ asking' = [asking EXCEPT ![s] = [NotAsked EXCEPT !.phase = "begun", !.question = q.id]]
  /\ asked' = asked + 1
  /\ UNCHANGED <<answerWhenGrounded, turns, kept, reply>>

Greet(s) ==
  /\ asking[s].phase = "begun"
  /\ QuestionOf(s).shape = "greeting"
  /\ Refuses(s, "greeting")

\* Everything routing decides comes from the question in its conversation;
\* what the model condenses it to serves retrieval, generation and the key.
RouteQuestion(s) ==
  LET q == QuestionOf(s)
      plain == Canonical(q)
      inContext == Contextual(plain, turns[s])
  IN  /\ asking[s].phase = "begun"
      /\ q.shape # "greeting"
      /\ \E meant \in IF AsksForAlias(inContext) THEN BOOLEAN ELSE {FALSE} :
         LET query == IF meant THEN [inContext EXCEPT !.names = @ \cup {"citevyn"}] ELSE inContext
             anywhere == answerWhenGrounded /\ ~ Supported(query.names)
             condenses == (anywhere \/ inContext # plain) /\ turns[s] # <<>>
         IN  \E condensed \in Condensed(query, condenses) :
               Becomes(s, [asking[s] EXCEPT
                 !.phase = "routed",
                 !.query = condensed,
                 !.areas = IF Cardinality(DomainsOf(query.names)) >= 2
                           THEN DomainsOf(query.names) ELSE {DomainOf(query.names)},
                 !.intent = IntentOf(query),
                 !.anywhere = anywhere])

RefuseUnsupported(s) ==
  /\ asking[s].phase = "routed"
  /\ asking[s].intent = "unsupported" /\ ~ asking[s].anywhere
  /\ Refuses(s, "unsupported")

LooksUp(s) ==
  asking[s].phase = "routed" /\ (asking[s].intent # "unsupported" \/ asking[s].anywhere)

\* Mutant: the key has the words typed, not the question they stand for.
KeyAsTyped(s) == [query |-> [text |-> <<asking[s].question>>, names |-> {}], areas |-> asking[s].areas]

\* The query and the areas; the index, the policy and the embedder are constant here.
KeyOf(s) == [query |-> asking[s].query, areas |-> asking[s].areas]

HitCache(s) ==
  /\ LooksUp(s)
  /\ \E e \in kept :
       /\ e.key = KeyOf(s)
       /\ Replies(s, [About(s, "cached") EXCEPT
            !.cards = e.cards, !.shown = e.shown, !.hits = e.hits, !.note = e.note,
            !.asFor = e.asFor])
  /\ UNCHANGED kept

Missed(s) == LooksUp(s) /\ \A e \in kept : e.key # KeyOf(s)

\* One or two words are not searched for.
RefuseClarify(s) ==
  /\ Missed(s) /\ asking[s].intent = "clarify"
  /\ Refuses(s, "no_answer")

Evidence(areas, n) ==
  UNION {[1 .. k -> areas] : k \in n .. MaxHits}

\* An exact term that only other products have is found there.
ExactHits ==
  {[areas |-> h, exact |-> TRUE, degrade |-> "none"] : h \in Evidence(Corpus, 1)}

\* The arms scoped to one product, or round robin over those named.  What
\* degrades the vector arm otherwise keeps the answer out of the cache as well.
ScopedHits(areas) ==
  {[areas |-> h, exact |-> FALSE, degrade |-> d] :
     h \in Evidence(Corpus \cap Searched(areas), 0), d \in {"none", "unavailable"}}

\* The vector arm alone, over everything, if it is confident.
AnywhereHits ==
  {[areas |-> h, exact |-> FALSE, degrade |-> "none"] : h \in Evidence(Corpus, 0)}
    \cup {[areas |-> <<>>, exact |-> FALSE, degrade |-> "unavailable"]}

FindHits(s, intent) ==
  IF asking[s].anywhere THEN AnywhereHits
  ELSE ScopedHits(asking[s].areas) \cup IF intent = "exact_lookup" THEN ExactHits ELSE {}

Retrieve(s) ==
  /\ Missed(s) /\ asking[s].intent # "clarify"
  /\ \E f \in FindHits(s, asking[s].intent) :
       Becomes(s, [asking[s] EXCEPT !.phase = "retrieved", !.found = f])

\* Nothing was found: the embedder is to blame, or nothing is known of it.
RefuseEmpty(s) ==
  /\ asking[s].phase = "retrieved" /\ asking[s].found.areas = <<>>
  /\ asking[s].found.degrade # "unavailable"
  /\ Refuses(s, IF asking[s].anywhere THEN "unsupported" ELSE "no_answer")

WriteText(s) ==
  /\ asking[s].phase = "retrieved" /\ asking[s].found.areas # <<>>
  /\ \E t \in Texts \cup {Refusal} :
       Becomes(s, [asking[s] EXCEPT !.phase = "written", !.text = t])

Judged(text, found) ==
  IF text = Refusal THEN [valid |-> TRUE, cited |-> {}, singly |-> {}]
  ELSE Validation(text, Len(found.areas))

Judgement(s) == Judged(asking[s].text, asking[s].found)

RefuseInvalid(s) ==
  /\ asking[s].phase = "written" /\ ~ Judgement(s).valid
  /\ Refuses(s, "citation_validation_failed")

\* Every hit came from the exact arm (_strategy_for).
IsExactLookup(s) == asking[s].found.exact

Ungrounded(s) ==
  /\ asking[s].phase = "written"
  /\ Judgement(s).valid /\ Judgement(s).singly = {}

\* An exact lookup that did not ground is searched again without the exact
\* arm, and generated again; what does not ground either changes nothing.
RetryWithoutExact(s) ==
  /\ Ungrounded(s) /\ IsExactLookup(s)
  /\ \/ \E f \in FindHits(s, "faq"), t \in Texts :
          /\ f.areas # <<>>
          /\ Judged(t, f).valid /\ Judged(t, f).singly # {}
          /\ Becomes(s, [asking[s] EXCEPT !.found = f, !.text = t])
     \/ Becomes(s, [asking[s] EXCEPT !.phase = "ungrounded"])

RefuseUncited(s) ==
  /\ \/ asking[s].phase = "ungrounded"
     \/ Ungrounded(s) /\ ~ IsExactLookup(s)
  /\ Refuses(s, "no_answer")

\* The products a comparison names and its evidence does not answer for.
MissingNote(s) ==
  IF Cardinality(asking[s].areas) < 2 \/ asking[s].found.degrade # "none" THEN {}
  ELSE Searched(asking[s].areas)
         \ {asking[s].found.areas[i] : i \in Judgement(s).singly}

\* Mutant: only the markers the model wrote one by one get a card.
CardsSingly(s) == Judgement(s).singly

\* One card per marker the reader sees once the groups are split.
Cards(s) == Judgement(s).cited

KeepsAnswer(s) == asking[s].found.degrade = "none"

Answer(s) ==
  /\ asking[s].phase = "written"
  /\ Judgement(s).valid /\ Judgement(s).singly # {}
  /\ LET r == [About(s, "answer") EXCEPT
                 !.cards = Cards(s), !.shown = CitedMarkers(Expand(asking[s].text)),
                 !.hits = Len(asking[s].found.areas), !.note = MissingNote(s),
                 !.asFor = asking[s].query]
     IN  /\ Replies(s, r)
         /\ kept' = IF KeepsAnswer(s)
                    THEN {e \in kept : e.key # KeyOf(s)}
                           \cup {[key |-> KeyOf(s), cards |-> r.cards, shown |-> r.shown,
                                  hits |-> r.hits, note |-> r.note, asFor |-> r.asFor]}
                    ELSE kept

\* The embedder or the model is unavailable, the client goes away: nothing is
\* stored, not even the question.
FailQuestion(s) ==
  /\ asking[s].phase # "idle"
  /\ Becomes(s, NotAsked)

ExpireAnswer(e) ==
  /\ kept' = kept \ {e}
  /\ UNCHANGED <<answerWhenGrounded, turns, asking, reply, asked>>

----------------------------------------------------------------------------
PathInit ==
  /\ answerWhenGrounded \in BOOLEAN
  /\ turns \in Histories
  /\ asking = [s \in Conversations |-> NotAsked]
  /\ kept = {} /\ reply = NoReply /\ asked = 0

PathNext ==
  \/ \E s \in Conversations :
       \/ \E q \in Questions : BeginQuestion(s, q)
       \/ Greet(s) \/ RouteQuestion(s) \/ RefuseUnsupported(s) \/ HitCache(s) \/ RefuseClarify(s)
       \/ Retrieve(s) \/ RefuseEmpty(s) \/ WriteText(s) \/ RefuseInvalid(s)
       \/ RetryWithoutExact(s) \/ RefuseUncited(s) \/ Answer(s) \/ FailQuestion(s)
  \/ \E e \in kept : ExpireAnswer(e)

PathSpec == PathInit /\ [][PathNext]_pathVars

----------------------------------------------------------------------------
(* Properties.                                                             *)

\* Types of what requests know and of the cached answers.
PathTypeOK ==
  /\ \A s \in Conversations : Len(turns[s]) =< MemoryTurns
  /\ \A s \in Conversations :
       /\ asking[s].phase \in {"idle", "begun", "routed", "retrieved", "written", "ungrounded"}
       /\ asking[s].intent \in {"faq", "exact_lookup", "clarify", "unsupported"}
       /\ asking[s].areas \subseteq Products \cup {"citevyn", "unsupported"}
       /\ asking[s].query.names \subseteq Names
  /\ \A e \in kept : e.cards \subseteq 1 .. MaxHits

(* Whatever the conversation was about, whatever the model rewrites and    *)
(* whatever other conversations left in the cache: a reply from the cache  *)
(* was written for the same question standing alone (ask, "never cross-    *)
(* serve a wrong cached answer"), and a question that names a product is   *)
(* asked as it is, of the products it names (build_contextual_query,       *)
(* "answered as-is").                                                      *)
TopicIsKept ==
  /\ reply.outcome = "cached" => reply.asFor = reply.query
  /\ \A q \in Questions :
       (q.id = reply.question /\ Supported(q.names) /\ q.shape # "greeting") =>
         /\ reply.query.text = <<q.id>>
         /\ reply.areas \in {DomainsOf(q.names), {DomainOf(q.names)}}

(* An answer, fresh or cached or from a second try, has a source card for  *)
(* exactly the markers its reader sees, at least one, each of them a chunk *)
(* of the evidence it was written from; a refusal has none and is not kept *)
(* ("a marker pointing at a card that does not exist", "wearing every      *)
(* citation the retriever produced").                                      *)
CardsAreGrounded ==
  /\ IF reply.outcome \in {"answer", "cached"}
     THEN reply.cards = reply.shown /\ reply.cards # {} /\ reply.cards \subseteq 1 .. reply.hits
     ELSE reply.cards = {}
  /\ \A e \in kept : e.cards # {}
=============================================================================
