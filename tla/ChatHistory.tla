----------------------------- MODULE ChatHistory -----------------------------
(***************************************************************************)
(* Conversations after the answer: chat sessions and their stored turns    *)
(* (api/routes/sessions.py, Orchestrator._persist_messages), public copies *)
(* of answers (api/routes/shares.py) and votes on them                     *)
(* (api/routes/feedback.py).                                               *)
(*                                                                         *)
(* Covered: questions of one conversation that overlap; requests that      *)
(* share or vote at once, each a transaction of its own; sessions that end *)
(* and accounts that are deleted at any moment.                            *)
(*                                                                         *)
(* Not covered: texts and pages, a vote's comment (it behaves as its       *)
(* reason), requests for a source, the lists and exports, which only read; *)
(* two readings of the clock that return the same time.                    *)
(***************************************************************************)
EXTENDS Naturals, FiniteSets

CONSTANTS
  Members,      \* accounts
  Chats,       \* ids of chat sessions
  Turns,       \* questions that may be asked
  Sharers,     \* requests that share an answer
  Voters,      \* requests that vote on an answer
  NoOne,       \* nobody
  MaxLive,     \* MAX_LIVE_SHARES
  MaxShared    \* bound: shares made

ASSUME ChatAssumption ==
  MaxLive \in Nat /\ NoOne \notin Sharers \cup Members \cup Chats \cup Turns

VARIABLES
  now,       \* the clock, one later with every reading
  members,   \* users
  chat,      \* sessions
  turn,      \* the messages of each question
  shares,    \* shared_answers
  made,      \* number of shares made
  rowLock,   \* who holds the users row of an account FOR UPDATE
  sharing,   \* what each sharing request is doing
  votes,     \* answer_feedback, at most one row for an answer
  voting     \* what each voting request is doing

conversation == <<now, members, chat, turn>>
sharingVars == <<shares, made, rowLock, sharing>>
votingVars == <<votes, voting>>
chatVars == <<conversation, sharingVars, votingVars>>

NoChat == [owner |-> NoOne, state |-> "none"]

NotAsked == [phase |-> "none", chat |-> NoOne, cited |-> FALSE, asked |-> 0, answered |-> 0]

NotSharing == [phase |-> "idle", owner |-> NoOne, turn |-> NoOne, question |-> NoOne]

\* A reason explains a thumbs-down.
Bodies ==
  {[rating |-> "up", reason |-> "none"], [rating |-> "down", reason |-> "none"],
   [rating |-> "down", reason |-> "wrong"]}

NoVote == [rating |-> "none", reason |-> "none"]

NotVoting == [phase |-> "idle", turn |-> NoOne, body |-> NoVote, seen |-> NoVote]

----------------------------------------------------------------------------
(* Chat sessions and their turns.                                          *)

CreateSession(s, o) ==
  /\ o \in members /\ chat[s] = NoChat
  /\ chat' = [chat EXCEPT ![s] = [owner |-> o, state |-> "open"]]
  /\ UNCHANGED <<now, members, turn, sharingVars, votingVars>>

\* Ownership and expiry are one predicate.
RequireSession(s) == chat[s].state = "open"

\* Closed by its owner, or its time is over: expires_at is in the past.
EndSession(s) ==
  /\ RequireSession(s)
  /\ chat' = [chat EXCEPT ![s].state = "ended"]
  /\ UNCHANGED <<now, members, turn, sharingVars, votingVars>>

SetTurn(q, r) ==
  /\ turn' = [turn EXCEPT ![q] = r]
  /\ UNCHANGED <<members, chat, sharingVars, votingVars>>

AskInChat(q, s) ==
  /\ turn[q].phase = "none" /\ RequireSession(s)
  /\ SetTurn(q, [NotAsked EXCEPT !.phase = "answering", !.chat = s])
  /\ UNCHANGED now

\* The question's row is written when the answer is there; from here on the
\* session's row cannot be deleted.
WriteQuestion(q) ==
  /\ turn[q].phase = "answering" /\ chat[turn[q].chat].state # "gone"
  /\ SetTurn(q, [turn[q] EXCEPT !.phase = "written", !.asked = now])
  /\ now' = now + 1

\* SessionGone: nothing is saved.
DropQuestion(q) ==
  /\ turn[q].phase = "answering" /\ chat[turn[q].chat].state = "gone"
  /\ SetTurn(q, [NotAsked EXCEPT !.phase = "gone"])
  /\ UNCHANGED now

\* The answer's row is later than the question's; both are committed together.
StoreTurn(q) ==
  /\ turn[q].phase = "written"
  /\ \E cited \in BOOLEAN :
       SetTurn(q, [turn[q] EXCEPT !.phase = "stored", !.cited = cited, !.answered = now])
  /\ now' = now + 1

Stored(q) == turn[q].phase = "stored"

----------------------------------------------------------------------------
(* Sharing.                                                                *)

SetSharing(r, v) == sharing' = [sharing EXCEPT ![r] = v]

\* require_session, require_message, and only an answer with sources.
CheckShare(r, q) ==
  /\ sharing[r].phase = "idle"
  /\ Stored(q) /\ turn[q].cited /\ RequireSession(turn[q].chat)
  /\ SetSharing(r, [phase |-> "checked", owner |-> chat[turn[q].chat].owner,
                    turn |-> q, question |-> NoOne])
  /\ UNCHANGED <<conversation, shares, made, rowLock, votingVars>>

Latest(Q) == CHOOSE u \in Q : \A v \in Q : turn[v].asked =< turn[u].asked

\* Mutant: the latest question of the session, whenever the answer came.
QuestionNewest(q) == Latest({u \in Turns : Stored(u) /\ turn[u].chat = turn[q].chat})

\* The latest question of the session that is not after the answer.
QuestionFor(q) ==
  Latest({u \in Turns : /\ Stored(u) /\ turn[u].chat = turn[q].chat
                        /\ turn[u].asked =< turn[q].answered})

Live(o) == {x \in shares : x.owner = o /\ ~ x.revoked}

\* Mutant: the account's row is not locked.
LocksNobody(r) == UNCHANGED rowLock

\* SELECT ... FOR UPDATE of the users row.
LocksOwner(r) ==
  /\ rowLock[sharing[r].owner] = NoOne
  /\ rowLock' = [rowLock EXCEPT ![sharing[r].owner] = r]

\* No live share of the answer, fewer than the limit: a row is inserted.
InsertShare(r) ==
  LET me == sharing[r] IN
  /\ me.phase = "checked" /\ me.owner \in members
  /\ \A x \in Live(me.owner) : x.answer # me.turn
  /\ Cardinality(Live(me.owner)) < MaxLive
  /\ made < MaxShared /\ made' = made + 1
  /\ LocksOwner(r)
  /\ SetSharing(r, [phase |-> "inserted", owner |-> me.owner, turn |-> me.turn,
                    question |-> QuestionFor(me.turn)])
  /\ UNCHANGED <<conversation, shares, votingVars>>

\* The answer is shared already, the limit is reached, or the account is gone.
EndShare(r) ==
  LET me == sharing[r] IN
  /\ me.phase = "checked"
  /\ \/ me.owner \notin members
     \/ /\ rowLock[me.owner] = NoOne
        /\ \/ \E x \in Live(me.owner) : x.answer = me.turn
           \/ Cardinality(Live(me.owner)) >= MaxLive
  /\ SetSharing(r, NotSharing)
  /\ UNCHANGED <<conversation, shares, made, rowLock, votingVars>>

CommitShare(r) ==
  LET me == sharing[r] IN
  /\ me.phase = "inserted"
  /\ shares' = shares \cup {[by |-> r, owner |-> me.owner, answer |-> me.turn,
                             question |-> me.question, revoked |-> FALSE]}
  /\ rowLock' = [o \in Members |-> IF rowLock[o] = r THEN NoOne ELSE rowLock[o]]
  /\ SetSharing(r, NotSharing)
  /\ UNCHANGED <<conversation, made, votingVars>>

\* What is revoked stays revoked; the row is kept.
RevokeShare(x) ==
  /\ ~ x.revoked
  /\ shares' = (shares \ {x}) \cup {[x EXCEPT !.revoked = TRUE]}
  /\ UNCHANGED <<conversation, made, rowLock, sharing, votingVars>>

----------------------------------------------------------------------------
(* Votes.                                                                  *)

SetVoting(v, r) ==
  /\ voting' = [voting EXCEPT ![v] = r]
  /\ UNCHANGED <<conversation, sharingVars>>

FindVote(v, q, body) ==
  /\ voting[v].phase = "idle" /\ Stored(q) /\ RequireSession(turn[q].chat)
  /\ SetVoting(v, [phase |-> IF votes[q] = NoVote THEN "inserting" ELSE "updating",
                   turn |-> q, body |-> body, seen |-> votes[q]])
  /\ UNCHANGED votes

InsertVote(v) ==
  LET me == voting[v] IN
  /\ me.phase = "inserting" /\ Stored(me.turn) /\ votes[me.turn] = NoVote
  /\ votes' = [votes EXCEPT ![me.turn] = me.body]
  /\ SetVoting(v, NotVoting)

\* The constraint refuses a second row: the first is read and updated.
FindWinner(v) ==
  LET me == voting[v] IN
  /\ me.phase = "inserting" /\ Stored(me.turn) /\ votes[me.turn] # NoVote
  /\ SetVoting(v, [me EXCEPT !.phase = "updating", !.seen = votes[me.turn]])
  /\ UNCHANGED votes

\* UPDATE names the columns that differ from what was read.
UpdateVote(v) ==
  LET me == voting[v]
      Column(f) == IF me.body[f] # me.seen[f] THEN me.body[f] ELSE votes[me.turn][f]
  IN  /\ me.phase = "updating" /\ Stored(me.turn)
      /\ votes' = [votes EXCEPT ![me.turn] = [rating |-> Column("rating"),
                                              reason |-> Column("reason")]]
      /\ SetVoting(v, NotVoting)

\* The answer is gone with its account: an error, and nothing is stored.
FailVote(v) ==
  /\ voting[v].phase # "idle" /\ ~ Stored(voting[v].turn)
  /\ SetVoting(v, NotVoting)
  /\ UNCHANGED votes

----------------------------------------------------------------------------
(* Deleting an account takes its sessions, messages, shares and votes with *)
(* it; it waits for the rows that others hold.                             *)

ChatsOf(o) == {s \in Chats : chat[s].owner = o}

TurnsOf(o) == {q \in Turns : turn[q].chat \in ChatsOf(o)}

DeleteMember(o) ==
  /\ o \in members /\ rowLock[o] = NoOne
  /\ \A q \in TurnsOf(o) : turn[q].phase # "written"
  /\ members' = members \ {o}
  /\ chat' = [s \in Chats |-> IF s \in ChatsOf(o)
                              THEN [owner |-> NoOne, state |-> "gone"] ELSE chat[s]]
  /\ turn' = [q \in Turns |-> IF q \in TurnsOf(o) /\ Stored(q)
                              THEN [NotAsked EXCEPT !.phase = "gone"] ELSE turn[q]]
  /\ shares' = {x \in shares : x.owner # o}
  /\ votes' = [q \in Turns |-> IF q \in TurnsOf(o) THEN NoVote ELSE votes[q]]
  /\ UNCHANGED <<now, made, rowLock, sharing, voting>>

----------------------------------------------------------------------------
ChatInit ==
  /\ now = 0 /\ members = Members
  /\ chat = [s \in Chats |-> NoChat]
  /\ turn = [q \in Turns |-> NotAsked]
  /\ shares = {} /\ made = 0 /\ rowLock = [o \in Members |-> NoOne]
  /\ sharing = [r \in Sharers |-> NotSharing]
  /\ votes = [q \in Turns |-> NoVote]
  /\ voting = [v \in Voters |-> NotVoting]

ChatNext ==
  \/ \E s \in Chats : EndSession(s) \/ \E o \in Members : CreateSession(s, o)
  \/ \E q \in Turns :
       WriteQuestion(q) \/ DropQuestion(q) \/ StoreTurn(q) \/ \E s \in Chats : AskInChat(q, s)
  \/ \E r \in Sharers :
       InsertShare(r) \/ EndShare(r) \/ CommitShare(r) \/ \E q \in Turns : CheckShare(r, q)
  \/ \E x \in shares : RevokeShare(x)
  \/ \E v \in Voters :
       \/ InsertVote(v) \/ FindWinner(v) \/ UpdateVote(v) \/ FailVote(v)
       \/ \E q \in Turns, b \in Bodies : FindVote(v, q, b)
  \/ \E o \in Members : DeleteMember(o)

ChatSpec == ChatInit /\ [][ChatNext]_chatVars

----------------------------------------------------------------------------
(* Properties.                                                             *)

\* Types of the rows and of the requests; a share is of an answer that is there.
ChatTypeOK ==
  /\ members \subseteq Members
  /\ \A s \in Chats : chat[s].owner \in members \cup {NoOne}
  /\ \A q \in Turns :
       /\ turn[q].phase \in {"none", "answering", "written", "stored", "gone"}
       /\ turn[q].chat \in Chats \cup {NoOne}
       /\ Stored(q) => turn[q].asked < turn[q].answered
       /\ votes[q] # NoVote => Stored(q)
  /\ \A x \in shares : x.owner \in members /\ Stored(x.answer)
  /\ \A o \in Members : rowLock[o] \in Sharers \cup {NoOne}
  /\ \A v \in Voters : voting[v].phase \in {"idle", "inserting", "updating"}

\* However many requests of an account share at once: an answer has one live
\* share, and an account at most MAX_LIVE_SHARES (share_answer, "Sharing the
\* same answer again returns the live share (200), not a second one").
SharesStayBounded ==
  \A o \in Members :
    /\ Cardinality(Live(o)) =< MaxLive
    /\ \A x, y \in Live(o) : x.answer = y.answer => x = y

\* A shared answer stands under its own question whatever was asked later,
\* unless another question of the conversation was stored while it was
\* being answered (_question_for).
SharesPairUp ==
  \A x \in shares :
    \/ x.question = x.answer
    \/ /\ turn[x.question].chat = turn[x.answer].chat
       /\ turn[x.answer].asked < turn[x.question].asked
       /\ turn[x.question].asked < turn[x.answer].answered
=============================================================================
