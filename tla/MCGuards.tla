------------------------------ MODULE MCGuards ------------------------------
(* RequestGuards, AnswerText, AnswerPath, VectorSpaces and SourceText in   *)
(* one instance for TLC.  They share no state: a behaviour is one of one   *)
(* of them (AnswerPath has AnswerText's operators, not its draft), and the *)
(* same model values name requests or embedders.                           *)
EXTENDS RequestGuards, AnswerPath, VectorSpaces, SourceText, TLC

CONSTANTS q1, q2, q3, v1, ch1, ch2, p1, r1, j1, j2, s1, s2

VARIABLE part

GuardsLimit == [b \in Buckets |-> 1]

GuardsWindow == [b \in Buckets |-> IF b = Interval THEN 2 ELSE 3]

GuardsExpiry == [c \in Challenges |-> IF c = ch1 THEN 1 ELSE 2]

----------------------------------------------------------------------------
(* Texts and questions.                                                    *)

Group == [group |-> TRUE, nums |-> {1, 2}, spaced |-> TRUE, code |-> FALSE]

InSpan == [group |-> FALSE, nums |-> {3}, spaced |-> FALSE, code |-> TRUE]

LineOf(char, run, info, marks) == [char |-> char, run |-> run, info |-> info, marks |-> marks]

Prose(marks) == LineOf("prose", 0, "words", marks)

\* Fences of two lengths and two characters, with and without markers.
AnswerLines ==
  {Prose(m) : m \in {{}, {Single(1)}, {Group}, {InSpan, Group}}}
    \cup {LineOf("tick", 3, i, {}) : i \in {"none", "token", "words"}}
    \cup {LineOf("tick", 4, "none", {}), LineOf("tilde", 3, "none", {})}
    \cup {LineOf("tick", 3, "none", {m}) : m \in {Group, Single(2)}}

\* With two chunks of evidence it cites all of it, with one a chunk too many.
AnswerTexts == {<<Prose({Single(2), Group})>>}

QuestionOn(id, names, leans, shape) ==
  [id |-> id, names |-> names, leans |-> leans, shape |-> shape]

AnswerQuestions ==
  {QuestionOn("codex", {"codex"}, FALSE, "plain"),
   QuestionOn("both", {"codex", "gemini_api"}, TRUE, "plain"),
   QuestionOn("it", {}, TRUE, "plain"),
   QuestionOn("flag", {"claude"}, FALSE, "flag"),
   QuestionOn("site", {"site win"}, FALSE, "plain"),
   QuestionOn("hi", {}, FALSE, "greeting"),
   QuestionOn("you", {}, TRUE, "self"),
   QuestionOn("brief", {"claude_code"}, FALSE, "short")}

NothingAsked == [s \in Conversations |-> <<>>]

AnswerHistories ==
  {[s \in Conversations |->
      IF s = s1 THEN <<CHOOSE q \in Questions : q.id = "both">> ELSE <<>>]}

----------------------------------------------------------------------------
(* Sources: their lines, and what the patterns match in three words.       *)

MatchOf(text, type) == [text |-> text, type |-> type, common |-> FALSE]

\* What the patterns match in "--model", in "API_KEY" and in "THE".
FlagWord == {MatchOf("--model", "flag"), MatchOf("model", "config_key")}

KeyWord == {MatchOf("API_KEY", "environment_variable")}

StopWord == {[text |-> "THE", type |-> "environment_variable", common |-> TRUE]}

DocLineOf(kind, words, late) == [kind |-> kind, words |-> words, stop |-> late # {}, late |-> late]

Plain(kind) == DocLineOf(kind, {}, {})

SourceLines ==
  {Plain("title"), Plain("section"),
   DocLineOf("section", {StopWord, KeyWord}, {KeyWord}),
   DocLineOf("body", {FlagWord, StopWord}, {})}

SourceSpecs ==
  <<[name |-> s1, area |-> "codex", title |-> DocLineOf("title", {KeyWord, FlagWord}, {FlagWord}),
     fetcher |-> "local"],
    [name |-> s2, area |-> "gemini_api", title |-> Plain("title"), fetcher |-> "local"]>>

SourceDrafts ==
  {[s \in {s1, s2} |-> IF s = s1 THEN <<>> ELSE Missing],
   [s \in {s1, s2} |-> <<Plain("title"), Plain("section"), DocLineOf("body", {FlagWord}, {})>>]}

----------------------------------------------------------------------------
ServicesInit ==
  /\ part \in {"guards", "text", "answers", "spaces", "sources"}
  /\ GuardsInit /\ TextInit /\ PathInit /\ SpacesInit /\ DocInit
  /\ part # "answers" => ~ answerWhenGrounded
  /\ part # "sources" => file[s2] = Missing

OthersAsleep(own) ==
  /\ part = own /\ UNCHANGED part
  /\ own # "guards" => UNCHANGED guardVars
  /\ own # "text" => UNCHANGED draft
  /\ own # "answers" => UNCHANGED pathVars
  /\ own # "spaces" => UNCHANGED spaceVars
  /\ own # "sources" => UNCHANGED docVars

ServicesNext ==
  \/ OthersAsleep("guards") /\ GuardsNext
  \/ OthersAsleep("text") /\ TextNext
  \/ OthersAsleep("answers") /\ PathNext
  \/ OthersAsleep("spaces") /\ SpacesNext
  \/ OthersAsleep("sources") /\ DocNext

ServicesSpec ==
  ServicesInit /\ [][ServicesNext]_<<part, guardVars, draft, pathVars, spaceVars, docVars>>

\* The types of all of them.
ServicesTypeOK ==
  GuardsTypeOK /\ TextTypeOK /\ PathTypeOK /\ SpacesTypeOK /\ DocTypeOK

\* What the model writes and what the sources say are read as they stand there:
\* MarkersAreRead of an answer, SectionsAreFound of the corpus.
TextsAreRead == MarkersAreRead /\ (part = "sources" => SectionsAreFound)

Interchangeable == Permutations({q1, q2}) \cup Permutations(Ingesters)
=============================================================================
