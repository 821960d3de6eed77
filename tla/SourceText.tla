------------------------------ MODULE SourceText ------------------------------
(***************************************************************************)
(* From the text of a source to what an exact search finds: the fetch      *)
(* (worker/fetchers.py), the Markdown parser, the chunker, the exact terms *)
(* and their rows (worker/parser.py, chunker.py, exact_terms.py,           *)
(* runner.py), and the lookup behind POST /v1/search/exact                 *)
(* (services/exact_lookup.py).                                             *)
(*                                                                         *)
(* A line is a "# " line, a "## " line, another line or a blank one, and   *)
(* has words.  A word is what the patterns of the extractor match in it:   *)
(* "--model" is a flag, and "model" in it a configuration key.             *)
(*                                                                         *)
(* Not covered: a match over two words, and a text under two types (the    *)
(* patterns are disjoint; the row's unique key would refuse the source).   *)
(* One source is one step here: CorpusIngest has the transaction, the runs *)
(* that overlap and the fingerprint.                                       *)
(***************************************************************************)
EXTENDS Naturals, Sequences, FiniteSets

CONSTANTS
  Specs,       \* MVP_SOURCES, a sequence of records of SourceSpec
  Builds,      \* index versions the CLI is asked to build
  DocLines,    \* lines an author may write
  Drafts,      \* the texts the sources may have at first
  MaxDocLines, \* bound: lines of a text
  Missing,     \* a file that is not there, or is not UTF-8
  Untitled,    \* no "# " line seen, no section begun
  MaxResults,  \* MAX_RESULTS
  Served       \* what a search names for the active versions

VARIABLES
  file,      \* the text of each source on disk
  sections,  \* chunks of each version and source, with their exact terms
  job,       \* the last ingestion job: what became of it
  ingested   \* history: the text of the last job that completed

docVars == <<file, sections, job, ingested>>

TermTypes == {"flag", "slash_command", "environment_variable", "api_parameter",
              "file_name", "error_message", "model_name", "config_key"}

\* A match; common: in capitals it is one of _NON_TERMS ("THE", "AND").
Match == [text : STRING, type : TermTypes, common : BOOLEAN]

\* stop: a full stop and a space in the line; late: the words behind it.
DocLine ==
  {l \in [kind : {"title", "section", "body", "blank"},
          words : SUBSET SUBSET Match, stop : BOOLEAN, late : SUBSET SUBSET Match] :
     l.late \subseteq l.words /\ (l.late # {} => l.stop)}

SpecNames == {Specs[i].name : i \in DOMAIN Specs}

ASSUME SourceAssumption ==
  /\ DOMAIN Specs = 1 .. Len(Specs) /\ Len(Specs) \in Nat
  /\ \A i \in DOMAIN Specs : Specs[i].title \in DocLine
  /\ DocLines \subseteq DocLine /\ Untitled \notin DocLine
  /\ \A drafts \in Drafts :
       /\ DOMAIN drafts = SpecNames
       /\ \A name \in SpecNames :
            drafts[name] = Missing \/ (drafts[name] \in Seq(DocLine) /\ Len(drafts[name]) =< MaxDocLines)
  /\ IsFiniteSet(Builds) /\ Served \notin Builds /\ MaxDocLines \in Nat

SpecOf(name) == CHOOSE s \in {Specs[i] : i \in DOMAIN Specs} : s.name = name

AreaOf(name) == SpecOf(name).area

----------------------------------------------------------------------------
(* parse_markdown.                                                         *)

\* Mutant: a section becomes a block whether or not it has a body.
FlushEmpty(was) ==
  IF was.open = Untitled THEN was.blocks
  ELSE Append(was.blocks, [heading |-> was.open, body |-> was.body])

\* A section becomes a block if it has a body.
Flush(was) ==
  IF was.open = Untitled \/ was.body = <<>> THEN was.blocks
  ELSE Append(was.blocks, [heading |-> was.open, body |-> was.body])

ReadLine(was, l) ==
  CASE l.kind = "blank" -> was
    [] l.kind = "title" /\ was.title = Untitled -> [was EXCEPT !.title = l]
    [] l.kind = "section" ->
         [was EXCEPT !.blocks = Flush(was), !.open = l, !.body = <<>>]
    [] OTHER ->
         IF was.open = Untitled THEN was ELSE [was EXCEPT !.body = Append(@, l)]

ParseMarkdown(text) ==
  LET read[i \in 0 .. Len(text)] ==
        IF i = 0 THEN [title |-> Untitled, open |-> Untitled, body |-> <<>>, blocks |-> <<>>]
        ELSE ReadLine(read[i - 1], text[i])
      end == read[Len(text)]
  IN  [title |-> end.title, blocks |-> Flush(end)]

----------------------------------------------------------------------------
(* chunk_document, extract_terms.                                          *)

\* One chunk per block; the text is "title - heading. body".
ChunkDocument(parsed, spec) ==
  [k \in DOMAIN parsed.blocks |->
     [order |-> k - 1,
      title |-> IF parsed.title = Untitled THEN spec.title ELSE parsed.title,
      heading |-> parsed.blocks[k].heading,
      body |-> parsed.blocks[k].body]]

WordsIn(lines) == UNION {lines[i].words : i \in DOMAIN lines}

\* _materialize_terms reads the body back: what follows the first full stop
\* and space of the chunk's text, which a title or a heading may have too.
SearchedWords(chunk) ==
  WordsIn(chunk.body)
    \cup (IF chunk.title.stop THEN chunk.title.late \cup chunk.heading.words
          ELSE chunk.heading.late)

IsMeaningful(m) == ~ (m.common /\ m.type \in {"environment_variable", "config_key"})

\* Distinct terms; the order of the patterns is only that of the rows.
ExtractTerms(words) ==
  {[text |-> m.text, type |-> m.type] : m \in {n \in UNION words : IsMeaningful(n)}}

Section(chunk) ==
  [order |-> chunk.order, heading |-> chunk.heading,
   terms |-> ExtractTerms(SearchedWords(chunk))]

----------------------------------------------------------------------------
(* The sources, and one job of the worker.                                 *)

WriteDocLine(name, l) ==
  /\ file[name] # Missing
  /\ Len(file[name]) < MaxDocLines
  /\ file' = [file EXCEPT ![name] = Append(@, l)]
  /\ UNCHANGED <<sections, job, ingested>>

LoseFile(name) ==
  /\ file[name] # Missing
  /\ file' = [file EXCEPT ![name] = Missing]
  /\ UNCHANGED <<sections, job, ingested>>

\* build_runner asks build_fetcher once, with the first source: that of the
\* local one reads every source's location.  HttpFetcher always refuses.
Fetches(name) == Specs[1].fetcher = "local" /\ file[name] # Missing

MarkFailed(error) == [status |-> "failed", error |-> error]

MarkCompleted == [status |-> "completed", error |-> "none"]

\* The job fails, and nothing but its row is written.
FetchFails(x, name) ==
  /\ ~ Fetches(name)
  /\ job' = MarkFailed("FetchError")
  /\ UNCHANGED <<file, sections, ingested>>

\* No section: the chunks of an earlier job stay.
ParseFails(x, name) ==
  /\ Fetches(name)
  /\ ParseMarkdown(file[name]).blocks = <<>>
  /\ job' = MarkFailed("ParseError")
  /\ UNCHANGED <<file, sections, ingested>>

\* The chunks and terms of an earlier job are replaced.
Materialize(x, name) ==
  LET chunks == ChunkDocument(ParseMarkdown(file[name]), SpecOf(name)) IN
  /\ Fetches(name)
  /\ chunks # <<>>
  /\ sections' = [sections EXCEPT ![x][name] = [k \in DOMAIN chunks |-> Section(chunks[k])]]
  /\ ingested' = [ingested EXCEPT ![x][name] = file[name]]
  /\ job' = MarkCompleted
  /\ UNCHANGED file

RunJob(x, name) == FetchFails(x, name) \/ ParseFails(x, name) \/ Materialize(x, name)

----------------------------------------------------------------------------
(* search_exact, exact_lookup.                                             *)

\* The rows of exact_terms; a term has the product area of its source.
RowsOf(x, name) ==
  UNION {{[version |-> x, source |-> name, area |-> AreaOf(name), chunk |-> k, term |-> t] :
            t \in sections[x][name][k].terms} : k \in DOMAIN sections[x][name]}

Rows == UNION {RowsOf(x, name) : x \in Builds, name \in SpecNames}

Matching(text, area, types, versions) ==
  {r \in Rows : r.term.text = text /\ r.term.type \in types /\ r.area = area
                 /\ r.version \in versions}

\* LIMIT without ORDER BY: any of them, as many as asked for.  (The service
\* clamps the limit too; the route has refused those it would change.)
ExactLookup(text, area, types, versions, limit) ==
  LET rows == Matching(text, area, types, versions)
      n == IF Cardinality(rows) < limit THEN Cardinality(rows) ELSE limit
  IN  {hits \in SUBSET rows : Cardinality(hits) = n}

\* The sentinel stands for every active version, the union of several; any
\* other name is that version, active or not.
Asked(version, active) == IF version = Served THEN active ELSE {version}

\* POST /v1/search/exact; the request is refused over the limit.
SearchExact(text, area, types, version, active, limit) ==
  IF limit \in 1 .. MaxResults
  THEN ExactLookup(text, area, types, Asked(version, active), limit)
  ELSE {}

----------------------------------------------------------------------------
NoJob == [status |-> "pending", error |-> "none"]

NoSections == [x \in Builds |-> [name \in SpecNames |-> <<>>]]

DocInit == file \in Drafts /\ sections = NoSections /\ job = NoJob /\ ingested = NoSections

DocNext ==
  \/ \E name \in SpecNames : LoseFile(name) \/ \E l \in DocLines : WriteDocLine(name, l)
  \/ \E x \in Builds, name \in SpecNames : RunJob(x, name)

DocSpec == DocInit /\ [][DocNext]_docVars

----------------------------------------------------------------------------
(* Properties.                                                             *)

\* Texts are lines; a version has sections of the sources.
DocTypeOK ==
  /\ \A name \in SpecNames : file[name] = Missing \/ file[name] \in Seq(DocLine)
  /\ \A x \in Builds, name \in SpecNames :
       /\ ingested[x][name] \in Seq(DocLine)
       /\ \A k \in DOMAIN sections[x][name] : sections[x][name][k].heading \in DocLine
  /\ job \in {NoJob, MarkCompleted, MarkFailed("FetchError"), MarkFailed("ParseError")}

\* What a reader takes for the body of the section a heading line begins: the
\* lines down to the next heading, without the blank ones and the title.
BodyBelow(text, h) ==
  {i \in h + 1 .. Len(text) :
     /\ text[i].kind \in {"title", "body"}
     /\ \A j \in h + 1 .. i : text[j].kind # "section"
     /\ text[i].kind = "title" => \E j \in 1 .. i - 1 : text[j].kind = "title"}

Headings(text) == {h \in DOMAIN text : text[h].kind = "section" /\ BodyBelow(text, h) # {}}

\* The place of a section among those of its text.
Place(text, h) == Cardinality({g \in Headings(text) : g =< h})

TermsOf(lines) == ExtractTerms(UNION {l.words : l \in lines})

TextsIn(lines) == {t.text : t \in TermsOf(lines)}

Body(text, h) == {text[i] : i \in BodyBelow(text, h)}

\* The heading, and the title: the first "# " line, or the source's own.
Above(text, name, h) ==
  LET T == {i \in DOMAIN text : text[i].kind = "title"} IN
  {text[h], IF T = {} THEN SpecOf(name).title
            ELSE text[CHOOSE i \in T : \A j \in T : i =< j]}

\* A search finds, of the sections of the area in the versions asked for, all
\* that have the text in their body (or as many as the limit allows), and no
\* section that has it nowhere.
SearchFinds(text, area, version, active, limit) ==
  \A hits \in SearchExact(text, area, TermTypes, version, active, limit) :
    /\ \A r \in hits :
         LET doc == ingested[r.version][r.source] IN
         /\ r.version \in (IF version \in Builds THEN {version} ELSE active)
         /\ AreaOf(r.source) = area
         /\ \E h \in Headings(doc) :
              /\ Place(doc, h) = r.chunk
              /\ text \in TextsIn(Body(doc, h) \cup Above(doc, r.source, h))
    /\ Cardinality(hits) < limit =>
         \A x \in IF version \in Builds THEN {version} ELSE active, name \in SpecNames :
           \A h \in Headings(ingested[x][name]) :
             AreaOf(name) = area /\ text \in TextsIn(Body(ingested[x][name], h)) =>
               \E r \in hits : /\ r.version = x /\ r.source = name
                               /\ r.chunk = Place(ingested[x][name], h)

(* The chunks of a version are the sections of the text ingested last, in  *)
(* order (_parse, _flush, _build_draft), and its exact terms those of the  *)
(* bodies, "what's actually searchable" (_materialize_terms), if neither   *)
(* title nor heading has a full stop.  In any case, and after any failed   *)
(* job, an exact search finds every section whose body has what it asks    *)
(* for, and none that does not have it at all (exact_lookup).              *)
SectionsAreFound ==
  /\ \A x \in Builds, name \in SpecNames :
       LET text == ingested[x][name]
           found == sections[x][name]
       IN  /\ Len(found) = Cardinality(Headings(text))
           /\ \A h \in Headings(text) :
                /\ found[Place(text, h)].heading = text[h]
                /\ (\A l \in Above(text, name, h) : ~ l.stop) =>
                     found[Place(text, h)].terms = TermsOf(Body(text, h))
  /\ \A text \in TextsIn(DocLines), i \in DOMAIN Specs, limit \in {1, MaxResults} :
       /\ \A x \in Builds : SearchFinds(text, Specs[i].area, x, {}, limit)
       /\ SearchFinds(text, Specs[i].area, Served, Builds, limit)
=============================================================================
