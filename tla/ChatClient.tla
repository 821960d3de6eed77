------------------------------ MODULE ChatClient ------------------------------
(***************************************************************************)
(* The chat of the web page (frontend/src/hooks/useLandingState.ts): two   *)
(* composers, the transcript, questions in flight and the conversation     *)
(* they are asked in.  A question's bubble is appended when it is sent and *)
(* its answer's bubble when the request comes back, so what keeps an       *)
(* answer under its own question is that nothing else is sent meanwhile:   *)
(* the composer refuses, a question of the landing page is parked in it.   *)
(* The suggestions of an empty chat pass no such gate, and a conversation  *)
(* resumed meanwhile takes the place of the transcript.                    *)
(*                                                                         *)
(* A handler closes over the page that React rendered last, which may be   *)
(* older than what the reducer holds; only the refs are current.  Left     *)
(* out: the text of a bubble while it grows, what the page says about a    *)
(* text it does not send, the highlight of a question asked before, the    *)
(* demonstrations of the landing page, focus and scrolling.                *)
(***************************************************************************)
EXTENDS Naturals, Sequences

CONSTANTS
  Prompts,       \* questions
  Past,          \* earlier conversations of the visitor
  Blank,         \* an empty box, no conversation
  TooLong,       \* a text over MAX_QUESTION_LENGTH
  MaxSends,      \* bound: requests sent
  MaxBubbles,    \* bound: bubbles, but for the replies still awaited
  MaxWaiting,    \* bound: landing questions not yet sent
  MaxResumes     \* bound: conversations resumed

ASSUME ResumesAssumption == MaxResumes \in Nat

VARIABLES
  mode,          \* "demo", "live", or "members": live for the signed in only
  signedIn,      \* the authentication store's status
  screen,        \* "landing" or "chat"
  transcript,    \* the bubbles: [from, prompt, at]
  shown,         \* the page as last rendered
  epoch,         \* how often a resumed conversation replaced the transcript
  chatInput, heroInput,
  refused,       \* refusedInFlight
  requests,      \* sendLive calls: [prompt, at, step, awaits]
  failed,        \* failedQuestionsRef
  entering,      \* timers of enterChat: [prompt, existing, carried]
  sessionId,     \* sessionIdRef
  promise,       \* sessionPromiseRef: the request that creates one, or 0
  resuming       \* the conversation the newest resume fetches

composerVars == <<screen, chatInput, heroInput>>
sendVars == <<transcript, requests, failed, promise>>
clientVars == <<mode, signedIn, epoch, refused, entering, sessionId, resuming, shown,
                composerVars, sendVars>>

\* What a render shows, and the handlers it makes close over.
Page == [transcript |-> transcript, screen |-> screen,
         chatInput |-> chatInput, heroInput |-> heroInput]

Texts == Prompts \cup {Blank, TooLong}

\* A reader's bubble, by the way its question came: past the gate, from a
\* suggestion, or with a resumed conversation.
Ways == {"asked", "suggested", "stored"}

Bubble == [from : Ways \cup {"answer", "error", "notice"},
           prompt : Prompts \cup {Blank}, at : 0 .. MaxResumes]

PageType == [transcript : Seq(Bubble), screen : {"landing", "chat"},
             chatInput : Texts, heroInput : Texts]

\* A conversation the visitor had: one question and its answer, or none yet.
StoredTurns ==
  {<<>>} \cup
    {<<[from |-> "stored", prompt |-> q, at |-> epoch + 1],
       [from |-> "answer", prompt |-> q, at |-> epoch + 1]>> : q \in Prompts}

\* The live requests of sendLive that have not come back.
InFlight == {i \in DOMAIN requests : requests[i].step # "done"}

ClientInit ==
  /\ mode \in {"demo", "live", "members"} /\ signedIn = FALSE
  /\ screen = "landing" /\ transcript = <<>> /\ epoch = 0
  /\ chatInput = Blank /\ heroInput = Blank
  /\ refused = FALSE
  /\ requests = <<>> /\ failed = {} /\ entering = <<>>
  /\ sessionId = Blank /\ promise = 0 /\ resuming = Blank
  /\ shown = Page

----------------------------------------------------------------------------
(* Sending.                                                                *)

Said(from, q) == [from |-> from, prompt |-> q, at |-> epoch]

\* The duplicate guard's look at the messages that its handler closed over.
Existing(q) ==
  \E i \in DOMAIN shown.transcript :
    shown.transcript[i].from \in Ways /\ shown.transcript[i].prompt = q

\* ensureSession, up to its first await: a known session, or the one creation.
StartRequest(q) ==
  LET n == Len(requests) + 1
      owner == IF sessionId # Blank THEN 0 ELSE IF promise = 0 THEN n ELSE promise IN
  /\ requests' = Append(requests,
       [prompt |-> q, at |-> epoch, awaits |-> owner,
        step |-> IF owner = 0 THEN "asked" ELSE "creating"])
  /\ promise' = IF owner = 0 THEN promise ELSE owner

\* routeQuestion: to the service, or a canned reply under the question.
Route(q, known, way) ==
  IF mode = "members" /\ ~ signedIn
    THEN /\ transcript' = transcript \o <<Said(way, q), Said("answer", q)>>
         /\ failed' = known \cup {q}
         /\ UNCHANGED <<requests, promise>>
    ELSE /\ failed' = known
         /\ IF mode = "demo"
              THEN /\ transcript' = transcript \o <<Said(way, q), Said("answer", q)>>
                   /\ UNCHANGED <<requests, promise>>
              ELSE /\ transcript' = Append(transcript, Said(way, q))
                   /\ StartRequest(q)

\* send: an answered question is only pointed at, a failed one asked again.
SendPrompt(q, existing, way) ==
  IF existing /\ q \notin failed
    THEN UNCHANGED sendVars
    ELSE /\ Len(requests) < MaxSends /\ Len(transcript) + 1 < MaxBubbles
         /\ Route(q, IF existing THEN failed \ {q} ELSE failed, way)

\* submitChat: empty and over-length first, then the gate, then the clear.
SubmitChat ==
  /\ shown.screen = "chat" /\ shown.chatInput \in Prompts
  /\ IF InFlight # {}
       THEN refused' = TRUE /\ UNCHANGED <<chatInput, sendVars>>
       ELSE /\ chatInput' = Blank
            /\ SendPrompt(shown.chatInput, Existing(shown.chatInput), "asked")
            /\ UNCHANGED refused
  /\ UNCHANGED <<mode, signedIn, screen, epoch, heroInput, entering, sessionId, resuming>>

\* The suggestions of an empty chat call send without a gate, as long as they
\* are on the screen.
PickSuggestion(q) ==
  /\ shown.screen = "chat" /\ shown.transcript = <<>>
  /\ SendPrompt(q, FALSE, "suggested")
  /\ UNCHANGED <<mode, signedIn, screen, epoch, chatInput, heroInput, refused, entering,
                 sessionId, resuming>>

----------------------------------------------------------------------------
(* From the landing page into the chat.                                    *)

\* The reader's draft outranks the question that is parked.
Park(q, carried, box) == IF ~ carried /\ box = Blank THEN q ELSE box

\* enterChat: hero is the hero box as the caller leaves it, carry its text.
EnterChat(q, carry, hero) ==
  LET carried == carry /\ shown.chatInput = Blank /\ shown.heroInput # Blank
      box == IF carried THEN shown.heroInput ELSE chatInput IN
  /\ screen' = "chat"
  /\ heroInput' = IF carried THEN Blank ELSE hero
  /\ IF q = Blank
       THEN chatInput' = box /\ UNCHANGED entering
       ELSE IF InFlight # {}
         THEN chatInput' = Park(q, carried, box) /\ UNCHANGED entering
         ELSE /\ chatInput' = box /\ Len(entering) < MaxWaiting
              /\ entering' = Append(entering,
                   [prompt |-> q, existing |-> Existing(q), carried |-> carried])
  /\ UNCHANGED <<mode, signedIn, transcript, epoch, refused, requests, failed, sessionId,
                 promise, resuming>>

\* Chips, pills, persona buttons and "Get Pro"; the header's button asks nothing.
PickOnLanding(q) ==
  /\ q # Blank => shown.screen = "landing"
  /\ EnterChat(q, TRUE, heroInput)

\* askHero: its text became the question, so the box is cleared, not carried.
AskHero ==
  /\ shown.screen = "landing" /\ shown.heroInput \in Prompts
  /\ EnterChat(shown.heroInput, FALSE, Blank)

\* Mutant: checked when the timer was armed only.
EnteredUnchecked ==
  /\ entering # <<>>
  /\ entering' = Tail(entering)
  /\ SendPrompt(Head(entering).prompt, Head(entering).existing, "asked")
  /\ UNCHANGED <<mode, signedIn, screen, epoch, chatInput, heroInput, refused, sessionId,
                 resuming>>

\* The timer of enterChat, 60 ms later, looks again.
Entered ==
  /\ entering # <<>>
  /\ entering' = Tail(entering)
  /\ LET e == Head(entering) IN
     IF InFlight # {}
       THEN chatInput' = Park(e.prompt, e.carried, chatInput) /\ UNCHANGED sendVars
       ELSE SendPrompt(e.prompt, e.existing, "asked") /\ UNCHANGED chatInput
  /\ UNCHANGED <<mode, signedIn, screen, epoch, heroInput, refused, sessionId, resuming>>

----------------------------------------------------------------------------
(* Requests come back.                                                     *)

\* createSession resolves or is refused, for every request that awaits it.
SessionCreated(i) ==
  /\ requests[i].step = "creating" /\ requests[i].awaits = i
  /\ \/ /\ sessionId' = i
        /\ requests' = [j \in DOMAIN requests |->
             IF requests[j].awaits = i THEN [requests[j] EXCEPT !.step = "asked", !.awaits = 0]
             ELSE requests[j]]
        /\ UNCHANGED promise
     \/ /\ promise' = 0
        /\ requests' = [j \in DOMAIN requests |->
             IF requests[j].awaits = i THEN [requests[j] EXCEPT !.step = "failed", !.awaits = 0]
             ELSE requests[j]]
        /\ UNCHANGED sessionId
  /\ UNCHANGED <<mode, signedIn, epoch, refused, entering, resuming, composerVars,
                 transcript, failed>>

Done == [prompt |-> Blank, at |-> 0, awaits |-> 0, step |-> "done"]

\* The finally of sendLive; the last one to end takes the refusal with it.
EndRequest(i) ==
  /\ requests' = [requests EXCEPT ![i] = Done]
  /\ refused' = (refused /\ InFlight # {i})

Reply(i, from) ==
  Append(transcript, [from |-> from, prompt |-> requests[i].prompt, at |-> requests[i].at])

AnswerArrives(i) ==
  /\ requests[i].step = "asked"
  /\ failed' = failed \ {requests[i].prompt}
  /\ transcript' = Reply(i, "answer")
  /\ EndRequest(i)
  /\ UNCHANGED <<mode, signedIn, epoch, entering, resuming, composerVars, promise,
                 sessionId>>

\* handleApiError: whatever went wrong, one bubble that says so.
ErrorReply(i) == Reply(i, "error")

\* The question may be asked again; a 404 drops the session.
RequestFails(i, gone) ==
  /\ requests[i].step \in {"asked", "failed"}
  /\ gone => requests[i].step = "asked"
  /\ sessionId' = IF gone THEN Blank ELSE sessionId
  /\ promise' = IF gone THEN 0 ELSE promise
  /\ failed' = failed \cup {requests[i].prompt}
  /\ transcript' = ErrorReply(i)
  /\ EndRequest(i)
  /\ UNCHANGED <<mode, signedIn, epoch, entering, resuming, composerVars>>

----------------------------------------------------------------------------
(* Resuming a conversation.                                                *)

\* Only the newest resume counts; what it supersedes has no effect.
Resume(chat) ==
  /\ mode # "demo" /\ epoch < MaxResumes
  /\ resuming' = chat
  /\ UNCHANGED <<mode, signedIn, epoch, refused, entering, sessionId, composerVars, sendVars>>

Resumed ==
  /\ resuming # Blank
  /\ transcript' \in StoredTurns
  /\ epoch' = epoch + 1
  /\ sessionId' = resuming /\ resuming' = Blank
  /\ screen' = "chat"
  /\ UNCHANGED <<mode, signedIn, refused, entering, chatInput, heroInput, requests, failed,
                 promise>>

ResumeFails ==
  /\ resuming # Blank
  /\ Len(transcript) + 1 < MaxBubbles
  /\ transcript' = Append(transcript, Said("notice", Blank))
  /\ resuming' = Blank
  /\ UNCHANGED <<mode, signedIn, epoch, refused, entering, sessionId, composerVars, requests,
                 failed, promise>>

----------------------------------------------------------------------------
(* The rest of the page.                                                   *)

Type(text) ==
  /\ IF shown.screen = "chat" THEN chatInput' = text /\ UNCHANGED heroInput
                              ELSE heroInput' = text /\ UNCHANGED chatInput
  /\ UNCHANGED <<mode, signedIn, epoch, refused, entering, sessionId, resuming, screen,
                 sendVars>>

\* backToLanding clears the hero box, goSection does not.
LeaveChat(clear) ==
  /\ shown.screen = "chat"
  /\ screen' = "landing"
  /\ heroInput' = IF clear THEN Blank ELSE heroInput
  /\ UNCHANGED <<mode, signedIn, epoch, refused, entering, sessionId, resuming, chatInput,
                 transcript, requests, failed, promise>>

\* A login applies, a logout or a 401 drops the identity.
IdentityChanges ==
  /\ mode = "members"
  /\ signedIn' = ~ signedIn
  /\ UNCHANGED <<mode, epoch, refused, entering, sessionId, resuming, composerVars, sendVars>>

PageEvent ==
  \/ SubmitChat \/ AskHero \/ Entered
  \/ \E q \in Prompts : PickSuggestion(q)
  \/ \E q \in Prompts \cup {Blank} : PickOnLanding(q)
  \/ \E i \in InFlight : SessionCreated(i)
  \/ \E i \in InFlight : AnswerArrives(i)
  \/ \E i \in InFlight, gone \in BOOLEAN : RequestFails(i, gone)
  \/ \E c \in Past : Resume(c)
  \/ Resumed \/ ResumeFails
  \/ \E text \in Texts : Type(text)
  \/ \E clear \in BOOLEAN : LeaveChat(clear)
  \/ IdentityChanges

\* React renders before the next handler runs, or lets it run on the old page.
Render == shown' \in {shown, Page'}

ClientNext == PageEvent /\ Render

ClientSpec == ClientInit /\ [][ClientNext]_clientVars

----------------------------------------------------------------------------
(* Properties.                                                             *)

ClientTypeOK ==
  /\ {Page, shown} \subseteq PageType
  /\ sessionId \in Past \cup {Blank} \cup DOMAIN requests
  /\ failed \subseteq Prompts /\ promise \in DOMAIN requests \cup {0}
  /\ refused => InFlight # {}

\* The questions above a bubble.
Above(i) == {j \in 1 .. i : transcript[j].from \in Ways}

\* An answer or error stands below its own question, if that question is of
\* the conversation on the screen, and no question that passed the gate ever
\* comes between them, however old the page its handler saw, and whatever
\* timers, answers, resumes and suggestions came first (submitChat, enterChat:
\* of "two questions sent back to back" the reader "attributes A1 to Q2").
\* Two things may come between, for they pass no gate: a suggestion of an empty
\* chat, and the last question of a conversation resumed meanwhile.
GateKeepsQuestionsApart ==
  \A i \in DOMAIN transcript :
    transcript[i].from \in {"answer", "error"} =>
      /\ transcript[i].at = epoch =>
           \E j \in Above(i) : transcript[j].prompt = transcript[i].prompt
      /\ \A j \in Above(i) :
           (\A k \in Above(i) : k <= j) =>
             \/ transcript[j].prompt = transcript[i].prompt
             \/ transcript[j].from \in {"suggested", "stored"}
=============================================================================
