------------------------------ MODULE AnswerText ------------------------------
(***************************************************************************)
(* What counts as a citation in a text the language model wrote            *)
(* (llm/validation.py): which lines are code, which markers stand outside  *)
(* it, how a grouped marker becomes single ones, whether the citations of  *)
(* an answer fit its evidence.                                             *)
(*                                                                         *)
(* A line is prose or starts with a fence run; what follows the run is     *)
(* nothing, one token or several words, and a line carries markers.  A     *)
(* marker is single ([3]) or a group ([1, 2]), may have spaces inside and  *)
(* may stand in an inline code span.                                       *)
(*                                                                         *)
(* Not covered: the characters of a line, the order of the markers in it,  *)
(* an info string with a backtick in it, the rewording of "the provided    *)
(* evidence" (it touches no marker and no code).                           *)
(***************************************************************************)
EXTENDS Naturals, Sequences, FiniteSets

CONSTANTS
  Lines,     \* lines the model may write
  MaxLines   \* bound: lines of a text

VARIABLE draft   \* the text the model has written so far

Mark == [group : BOOLEAN, nums : SUBSET Nat, spaced : BOOLEAN, code : BOOLEAN]

Line == [char : {"prose", "tick", "tilde"}, run : Nat,
         info : {"none", "token", "words"}, marks : SUBSET Mark]

ASSUME LinesAssumption == Lines \subseteq Line

Single(n) == [group |-> FALSE, nums |-> {n}, spaced |-> FALSE, code |-> FALSE]

----------------------------------------------------------------------------
(* Which lines are code (_fence_run, _closes, _strip_code).                *)

IsFence(l) == l.char # "prose"

Bare(l) == IsFence(l) /\ l.info = "none" /\ l.marks = {}

\* The info string is empty or one token, markers included.
Simple(l) == l.info # "words" /\ \A m \in l.marks : ~ m.spaced

\* reachable[char][i + 1] >= run.
BareAfter(text, i, char, run) ==
  \E j \in i + 1 .. Len(text) :
    Bare(text[j]) /\ text[j].char = char /\ text[j].run >= run

NoFence == [char |-> "prose", run |-> 0]

\* Mutant: a closer need not be bare.
ClosesSloppy(text, i, fence) ==
  text[i].char = fence.char /\ text[i].run >= fence.run

\* A closer with trailing text counts only when no bare one follows.
Closes(text, i, fence) ==
  /\ text[i].char = fence.char /\ text[i].run >= fence.run
  /\ Bare(text[i]) \/ ~ BareAfter(text, i, fence.char, fence.run)

\* A run followed by words opens a fence only if a closer follows.
Opens(text, i) ==
  /\ IsFence(text[i])
  /\ Simple(text[i]) \/ BareAfter(text, i, text[i].char, text[i].run)

\* The fence that is open after each line.
OpenFence(text) ==
  LET open[i \in 0 .. Len(text)] ==
        IF i = 0 THEN NoFence
        ELSE IF open[i - 1] # NoFence
        THEN IF Closes(text, i, open[i - 1]) THEN NoFence ELSE open[i - 1]
        ELSE IF Opens(text, i) THEN [char |-> text[i].char, run |-> text[i].run]
        ELSE NoFence
  IN  open

CodeLines(text) ==
  LET open == OpenFence(text)
  IN  {i \in 1 .. Len(text) : open[i - 1] # NoFence \/ open[i] # NoFence}

----------------------------------------------------------------------------
(* Markers (_cited_markers, expand_grouped_markers, validate_citations).   *)

SinglesOf(marks) == UNION {m.nums : m \in {k \in marks : ~ k.group}}

Written(text) == UNION {SinglesOf(text[i].marks) : i \in DOMAIN text}

OutsideCode(text) ==
  UNION {SinglesOf({m \in text[i].marks : ~ m.code}) : i \in DOMAIN text \ CodeLines(text)}

\* Markers outside code, or all of them if none is outside.
CitedMarkers(text) == IF OutsideCode(text) # {} THEN OutsideCode(text) ELSE Written(text)

Ungrouped(marks) ==
  {m \in marks : m.code \/ ~ m.group}
    \cup {Single(n) : n \in UNION {m.nums : m \in {k \in marks : k.group /\ ~ k.code}}}

\* Mutant: a group is split on any line outside a code block.
ExpandsAnywhere(text, i) == i \notin CodeLines(text)

\* A group is split outside code, and not on a line that starts with a fence run.
Expands(text, i) == i \notin CodeLines(text) /\ ~ IsFence(text[i])

Expand(text) ==
  [i \in DOMAIN text |->
     IF Expands(text, i) THEN [text[i] EXCEPT !.marks = Ungrouped(@)] ELSE text[i]]

\* valid, what gets a source card, and what counts as cited.
Validation(text, evidence) ==
  LET cited == CitedMarkers(Expand(text))
      singly == CitedMarkers(text)
  IN  [valid |-> cited \cup singly \subseteq 1 .. evidence,
       cited |-> cited, singly |-> singly]

----------------------------------------------------------------------------
(* The model writes its text line by line.                                 *)

TextInit == draft = <<>>

WriteLine(l) ==
  /\ Len(draft) < MaxLines
  /\ draft' = Append(draft, l)

TextNext == \E l \in Lines : WriteLine(l)

TextSpec == TextInit /\ [][TextNext]_draft

----------------------------------------------------------------------------
(* Properties.                                                             *)

\* The text consists of lines.
TextTypeOK == draft \in Seq(Line)

\* Code as CommonMark defines it: any fence line opens, only a bare one closes.
CommonMark(text) ==
  LET open[i \in 0 .. Len(text)] ==
        IF i = 0 THEN NoFence
        ELSE IF open[i - 1] = NoFence
        THEN IF IsFence(text[i]) THEN [char |-> text[i].char, run |-> text[i].run]
             ELSE NoFence
        ELSE IF /\ Bare(text[i])
                /\ text[i].char = open[i - 1].char /\ text[i].run >= open[i - 1].run
        THEN NoFence ELSE open[i - 1]
  IN  open

WellFormed(text) == CommonMark(text)[Len(text)] = NoFence

FencesAreRead ==
  WellFormed(draft) =>
    CodeLines(draft) = {i \in 1 .. Len(draft) :
                          CommonMark(draft)[i - 1] # NoFence \/ CommonMark(draft)[i] # NoFence}

ExpandsOnce == Expand(Expand(draft)) = Expand(draft)

CitedStaysCited == CitedMarkers(draft) # {} => CitedMarkers(Expand(draft)) # {}

(* Wherever fences, groups and markers stand: a text whose fences are all  *)
(* closed as CommonMark has it is read as CommonMark reads it (_closes,    *)
(* "0 lost citations, 0 leaked phantoms"); splitting groups a second time  *)
(* changes nothing ("keeps the function idempotent"); and a text that      *)
(* cites keeps a source card (Orchestrator.ask, "cited_indices is          *)
(* guaranteed non-empty here").                                            *)
MarkersAreRead == FencesAreRead /\ ExpandsOnce /\ CitedStaysCited
=============================================================================
