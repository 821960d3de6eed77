--------------------------- MODULE ReaderProofs ----------------------------
(***************************************************************************)
(* The theorems about what a reader keeps, sees and is sent, for any       *)
(* number of accounts, conversations, answers, requests, prompts, jobs and *)
(* readers. ChatHistory: shares stay bounded, and each stands under its    *)
(* question. DocsMail: nothing is mailed twice, no claim is lost.          *)
(* ChatClient: no gated question comes between an answer and its own.      *)
(***************************************************************************)
EXTENDS ChatHistory, DocsMail, ChatClient, FiniteSetTheorems, SequenceTheorems,
        WellFoundedInduction, TLAPS

----------------------------------------------------------------------------
(* ChatHistory: shares stay bounded.                                       *)

\* A request that has inserted its row holds the account's users row until it
\* commits; nobody else inserts for the account meanwhile, and the row it is
\* about to commit still fits.
HeldInv ==
  /\ members \subseteq Members
  /\ DOMAIN rowLock = Members /\ DOMAIN sharing = Sharers
  /\ \A r \in Sharers : \A o, t :
       sharing[r].phase = "inserted" /\ sharing[r].owner = o /\ sharing[r].turn = t =>
         /\ o \in Members /\ rowLock[o] = r
         /\ Cardinality(Live(o)) < MaxLive
         /\ \A x \in Live(o) : x.answer # t

SharesInv ==
  /\ IsFiniteSet(shares)
  /\ \A x \in shares : x = [by |-> x.by, owner |-> x.owner, answer |-> x.answer,
                            question |-> x.question, revoked |-> x.revoked]
  /\ HeldInv
  /\ SharesStayBounded

LEMMA LiveIsFinite ==
  ASSUME IsFiniteSet(shares), NEW o
  PROVE  IsFiniteSet(Live(o)) /\ Cardinality(Live(o)) \in Nat
<1>1. Live(o) \subseteq shares
  BY DEF Live
<1>. QED BY <1>1, FS_Subset, FS_CardinalityType

\* Where the live shares only become fewer, everything stays within its bound.
LEMMA FewerLive ==
  ASSUME SharesInv, IsFiniteSet(shares'), UNCHANGED <<rowLock, sharing>>,
         members' \subseteq Members,
         \A o \in Members : Live(o)' \subseteq Live(o),
         \A x \in shares' : x = [by |-> x.by, owner |-> x.owner, answer |-> x.answer,
                                question |-> x.question, revoked |-> x.revoked]
  PROVE  SharesInv'
<1>1. ASSUME NEW o \in Members
      PROVE  /\ Cardinality(Live(o)') <= Cardinality(Live(o))
             /\ Cardinality(Live(o)') \in Nat /\ Cardinality(Live(o)) \in Nat
  <2>1. IsFiniteSet(Live(o)) /\ Cardinality(Live(o)) \in Nat
    BY LiveIsFinite DEF SharesInv
  <2>2. IsFiniteSet(Live(o)') /\ Cardinality(Live(o)') <= Cardinality(Live(o))
    BY <2>1, FS_Subset
  <2>. QED BY <2>1, <2>2, FS_CardinalityType
<1>2. SharesStayBounded'
  BY <1>1, ChatAssumption DEF SharesInv, SharesStayBounded
<1>3. HeldInv'
  BY <1>1, ChatAssumption DEF SharesInv, HeldInv
<1>. QED BY <1>2, <1>3 DEF SharesInv

LEMMA InsertKeeps ==
  ASSUME SharesInv, NEW r \in Sharers, InsertShare(r) PROVE SharesInv'
<1>0. PICK o, t : o = sharing[r].owner /\ t = sharing[r].turn
  OBVIOUS
<1>1. o \in Members /\ rowLock[o] = NoOne
  BY <1>0 DEF InsertShare, LocksOwner, SharesInv, HeldInv
<1>2. /\ rowLock' = [rowLock EXCEPT ![o] = r]
      /\ sharing' = [sharing EXCEPT ![r] = [phase |-> "inserted", owner |-> o,
            turn |-> t, question |-> QuestionFor(sharing[r].turn)]]
      /\ UNCHANGED <<shares, members>>
      /\ Cardinality(Live(o)) < MaxLive
      /\ \A x \in Live(o) : x.answer # t
  BY <1>0 DEF InsertShare, LocksOwner, SetSharing, conversation
<1>3. \A p : Live(p)' = Live(p)
  BY <1>2 DEF Live
<1>4. HeldInv'
  <2>1. /\ sharing'[r].owner = o /\ sharing'[r].turn = t
        /\ \A s \in Sharers : s # r => sharing'[s] = sharing[s]
        /\ rowLock'[o] = r /\ \A p \in Members : p # o => rowLock'[p] = rowLock[p]
        /\ DOMAIN rowLock' = Members /\ DOMAIN sharing' = Sharers
    BY <1>1, <1>2 DEF SharesInv, HeldInv
  <2>2. ASSUME NEW s \in Sharers, NEW p, NEW u,
               sharing'[s].phase = "inserted", sharing'[s].owner = p, sharing'[s].turn = u
        PROVE  /\ p \in Members /\ rowLock'[p] = s
               /\ Cardinality(Live(p)) < MaxLive
               /\ \A x \in Live(p) : x.answer # u
    <3>1. CASE s = r
      BY <1>1, <1>2, <2>1, <2>2, <3>1
    <3>2. CASE s # r
      <4>1. /\ p \in Members /\ rowLock[p] = s
            /\ Cardinality(Live(p)) < MaxLive
            /\ \A x \in Live(p) : x.answer # u
        BY <2>1, <2>2, <3>2 DEF SharesInv, HeldInv
      <4>2. p # o
        BY <1>1, <4>1, ChatAssumption
      <4>. QED BY <2>1, <4>1, <4>2
    <3>. QED BY <3>1, <3>2
  <2>3. members' \subseteq Members
    BY <1>2 DEF SharesInv, HeldInv
  <2>. QED BY <1>3, <2>1, <2>2, <2>3 DEF HeldInv
<1>5. SharesStayBounded'
  BY <1>3 DEF SharesInv, SharesStayBounded
<1>. QED BY <1>2, <1>4, <1>5 DEF SharesInv
LEMMA CommitKeeps ==
  ASSUME SharesInv, NEW r \in Sharers, CommitShare(r) PROVE SharesInv'
<1>0. PICK o, t : o = sharing[r].owner /\ t = sharing[r].turn
  OBVIOUS
<1>1. /\ o \in Members /\ rowLock[o] = r
      /\ Cardinality(Live(o)) < MaxLive
      /\ \A x \in Live(o) : x.answer # t
  BY <1>0 DEF CommitShare, SharesInv, HeldInv
<1>2. PICK new : new = [by |-> r, owner |-> o, answer |-> t,
                        question |-> sharing[r].question, revoked |-> FALSE]
  OBVIOUS
<1>3. /\ shares' = shares \cup {new}
      /\ rowLock' = [p \in Members |-> IF rowLock[p] = r THEN NoOne ELSE rowLock[p]]
      /\ sharing' = [sharing EXCEPT ![r] = NotSharing]
      /\ UNCHANGED members
  BY <1>0, <1>2 DEF CommitShare, SetSharing, conversation
<1>4. /\ new.owner = o /\ new.answer = t /\ new.revoked = FALSE
      /\ new = [by |-> new.by, owner |-> new.owner, answer |-> new.answer,
                question |-> new.question, revoked |-> new.revoked]
  BY <1>2
<1>5. Live(o)' = Live(o) \cup {new} /\ \A p \in Members : p # o => Live(p)' = Live(p)
  BY <1>3, <1>4 DEF Live
<1>6. IsFiniteSet(shares')
  BY <1>3, FS_AddElement DEF SharesInv
<1>7. HeldInv'
  <2>1. /\ \A s \in Sharers : s # r => sharing'[s] = sharing[s]
        /\ sharing'[r].phase = "idle"
        /\ \A p \in Members : rowLock[p] # r => rowLock'[p] = rowLock[p]
        /\ DOMAIN rowLock' = Members /\ DOMAIN sharing' = Sharers
    BY <1>3 DEF SharesInv, HeldInv, NotSharing
  <2>2. ASSUME NEW s \in Sharers, NEW p, NEW u,
               sharing'[s].phase = "inserted", sharing'[s].owner = p, sharing'[s].turn = u
        PROVE  /\ p \in Members /\ rowLock'[p] = s
               /\ Cardinality(Live(p)') < MaxLive
               /\ \A x \in Live(p)' : x.answer # u
    <3>1. s # r /\ sharing'[s] = sharing[s]
      BY <2>1, <2>2
    <3>2. /\ p \in Members /\ rowLock[p] = s
          /\ Cardinality(Live(p)) < MaxLive
          /\ \A x \in Live(p) : x.answer # u
      BY <2>2, <3>1 DEF SharesInv, HeldInv
    <3>3. p # o
      BY <1>1, <3>1, <3>2
    <3>4. Live(p)' = Live(p) /\ rowLock'[p] = s
      BY <1>5, <2>1, <3>1, <3>2, <3>3
    <3>. QED BY <3>2, <3>4
  <2>3. members' \subseteq Members
    BY <1>3 DEF SharesInv, HeldInv
  <2>. QED BY <2>1, <2>2, <2>3 DEF HeldInv
<1>8. SharesStayBounded'
  <2>1. Cardinality(Live(o)') <= MaxLive
    <3>1. IsFiniteSet(Live(o)) /\ Cardinality(Live(o)) \in Nat
      BY LiveIsFinite DEF SharesInv
    <3>2. \/ Cardinality(Live(o) \cup {new}) = Cardinality(Live(o))
          \/ Cardinality(Live(o) \cup {new}) = Cardinality(Live(o)) + 1
      BY <3>1, FS_AddElement
    <3>3. Cardinality(Live(o)) + 1 <= MaxLive /\ Cardinality(Live(o)) <= MaxLive
      BY <1>1, <3>1, ChatAssumption
    <3>. QED BY <1>5, <3>2, <3>3
  <2>2. \A x, y \in Live(o)' : x.answer = y.answer => x = y
    BY <1>1, <1>4, <1>5 DEF SharesInv, SharesStayBounded
  <2>3. \A p \in Members : p # o =>
          /\ Cardinality(Live(p)') <= MaxLive
          /\ \A x, y \in Live(p)' : x.answer = y.answer => x = y
    BY <1>5 DEF SharesInv, SharesStayBounded
  <2>. QED BY <2>1, <2>2, <2>3 DEF SharesStayBounded
<1>9. \A x \in shares' : x = [by |-> x.by, owner |-> x.owner, answer |-> x.answer,
                             question |-> x.question, revoked |-> x.revoked]
  BY <1>3, <1>4 DEF SharesInv
<1>. QED BY <1>6, <1>7, <1>8, <1>9 DEF SharesInv

LEMMA RevokeKeeps ==
  ASSUME SharesInv, NEW x \in shares, RevokeShare(x) PROVE SharesInv'
<1>. DEFINE y == [x EXCEPT !.revoked = TRUE]
<1>1. /\ y.revoked = TRUE
      /\ y = [by |-> y.by, owner |-> y.owner, answer |-> y.answer,
              question |-> y.question, revoked |-> y.revoked]
  <2>1. x = [by |-> x.by, owner |-> x.owner, answer |-> x.answer,
             question |-> x.question, revoked |-> x.revoked]
    BY DEF SharesInv
  <2>. DEFINE T == [by : {x.by}, owner : {x.owner}, answer : {x.answer},
                    question : {x.question}, revoked : {x.revoked, TRUE}]
  <2>2. x \in T
    BY <2>1
  <2>3. y \in T /\ y.revoked = TRUE
    BY <2>2
  <2>. HIDE DEF y
  <2>. QED BY <2>3
<1>2. /\ shares' = (shares \ {x}) \cup {y}
      /\ UNCHANGED <<rowLock, sharing, members>>
  BY DEF RevokeShare, conversation
<1>. HIDE DEF y
<1>3. IsFiniteSet(shares')
  <2>1. shares \ {x} \subseteq shares
    OBVIOUS
  <2>2. IsFiniteSet(shares \ {x})
    BY <2>1, FS_Subset DEF SharesInv
  <2>. QED BY <1>2, <2>2, FS_AddElement
<1>4. \A o \in Members : Live(o)' \subseteq Live(o)
  BY <1>1, <1>2 DEF Live
<1>5. \A z \in shares' : z = [by |-> z.by, owner |-> z.owner, answer |-> z.answer,
                             question |-> z.question, revoked |-> z.revoked]
  BY <1>1, <1>2 DEF SharesInv
<1>6. members' \subseteq Members
  BY <1>2 DEF SharesInv, HeldInv
<1>. QED BY <1>2, <1>3, <1>4, <1>5, <1>6, FewerLive

LEMMA DeletionKeeps ==
  ASSUME SharesInv, NEW o \in Members, DeleteMember(o) PROVE SharesInv'
<1>1. shares' \subseteq shares /\ UNCHANGED <<rowLock, sharing>> /\ members' \subseteq members
  BY DEF DeleteMember
<1>2. IsFiniteSet(shares')
  BY <1>1, FS_Subset DEF SharesInv
<1>3. \A p \in Members : Live(p)' \subseteq Live(p)
  BY <1>1 DEF Live
<1>4. members' \subseteq Members
  BY <1>1 DEF SharesInv, HeldInv
<1>. QED BY <1>1, <1>2, <1>3, <1>4, FewerLive DEF SharesInv

\* The rest of the conversations leaves shares and locks alone.
LEMMA OthersKeep ==
  ASSUME SharesInv, UNCHANGED <<shares, rowLock, sharing, members>> PROVE SharesInv'
<1>1. \A o : Live(o)' = Live(o)
  BY DEF Live
<1>. QED BY <1>1 DEF SharesInv, HeldInv, SharesStayBounded

\* A request that only looks, or gives up, holds nothing.
LEMMA LookingKeeps ==
  ASSUME SharesInv, NEW r \in Sharers, NEW v, v.phase # "inserted",
         sharing' = [sharing EXCEPT ![r] = v], UNCHANGED <<shares, rowLock, members>>
  PROVE  SharesInv'
<1>1. \A o : Live(o)' = Live(o)
  BY DEF Live
<1>2. /\ \A s \in Sharers : s # r => sharing'[s] = sharing[s]
      /\ sharing'[r] = v /\ DOMAIN sharing' = Sharers
  BY DEF SharesInv, HeldInv
<1>3. HeldInv'
  BY <1>1, <1>2 DEF SharesInv, HeldInv
<1>. QED BY <1>1, <1>3 DEF SharesInv, SharesStayBounded

LEMMA ChatInit_Inv == ChatInit => SharesInv
<1>. SUFFICES ASSUME ChatInit PROVE SharesInv
  OBVIOUS
<1>1. shares = {} /\ IsFiniteSet(shares) /\ Cardinality({}) = 0
  BY FS_EmptySet DEF ChatInit
<1>2. \A o : Live(o) = {}
  BY <1>1 DEF Live
<1>3. SharesStayBounded
  BY <1>1, <1>2, ChatAssumption DEF SharesStayBounded
<1>4. HeldInv
  BY DEF ChatInit, HeldInv, NotSharing
<1>. QED BY <1>1, <1>3, <1>4 DEF SharesInv

LEMMA ChatStep_Inv == SharesInv /\ [ChatNext]_chatVars => SharesInv'
<1>. SUFFICES ASSUME SharesInv, [ChatNext]_chatVars PROVE SharesInv'
  OBVIOUS
<1>1. ASSUME NEW s \in Chats, EndSession(s) \/ \E o \in Members : CreateSession(s, o)
      PROVE  SharesInv'
  BY <1>1, OthersKeep DEF EndSession, CreateSession, sharingVars
<1>2. ASSUME NEW q \in Turns,
             WriteQuestion(q) \/ DropQuestion(q) \/ StoreTurn(q) \/ \E s \in Chats : AskInChat(q, s)
      PROVE  SharesInv'
  BY <1>2, OthersKeep
  DEF WriteQuestion, DropQuestion, StoreTurn, AskInChat, SetTurn, sharingVars
<1>3. ASSUME NEW r \in Sharers, InsertShare(r) \/ CommitShare(r) PROVE SharesInv'
  BY <1>3, InsertKeeps, CommitKeeps
<1>4. ASSUME NEW r \in Sharers, EndShare(r) \/ \E q \in Turns : CheckShare(r, q)
      PROVE  SharesInv'
  <2>1. PICK v : /\ v.phase # "inserted" /\ sharing' = [sharing EXCEPT ![r] = v]
                 /\ UNCHANGED <<shares, rowLock, members>>
    BY <1>4 DEF EndShare, CheckShare, SetSharing, conversation, NotSharing
  <2>. QED BY <2>1, LookingKeeps
<1>5. ASSUME NEW x \in shares, RevokeShare(x) PROVE SharesInv'
  BY <1>5, RevokeKeeps
<1>6. ASSUME NEW v \in Voters,
             \/ InsertVote(v) \/ FindWinner(v) \/ UpdateVote(v) \/ FailVote(v)
             \/ \E q \in Turns, b \in Bodies : FindVote(v, q, b)
      PROVE  SharesInv'
  <2>1. UNCHANGED <<shares, rowLock, sharing, members>>
    BY <1>6
    DEF InsertVote, FindWinner, UpdateVote, FailVote, FindVote, SetVoting, sharingVars,
        conversation
  <2>. QED BY <2>1, OthersKeep
<1>7. ASSUME NEW o \in Members, DeleteMember(o) PROVE SharesInv'
  BY <1>7, DeletionKeeps
<1>8. CASE UNCHANGED chatVars
  BY <1>8, OthersKeep DEF chatVars, sharingVars, conversation
<1>. QED BY <1>1, <1>2, <1>3, <1>4, <1>5, <1>6, <1>7, <1>8 DEF ChatNext

\* An answer has one live share and an account at most MAX_LIVE_SHARES
\* (share_answer), for any number of requests that share at once: the FOR UPDATE
\* lock of the users row makes counting and inserting one step.
THEOREM SharingStaysBounded == ChatSpec => []SharesStayBounded
<1>1. SharesInv => SharesStayBounded
  BY DEF SharesInv
<1>. QED BY <1>1, ChatInit_Inv, ChatStep_Inv, PTL DEF ChatSpec

----------------------------------------------------------------------------
(* ChatHistory: a shared answer stands under its question.                 *)

\* A non-empty set of naturals has a least element.
LEMMA LeastNatural ==
  ASSUME NEW T \in SUBSET Nat, T # {}
  PROVE  \E x \in T : \A y \in T : x =< y
<1>1. PICK x \in T : \A y \in T : ~ (<<y, x>> \in OpToRel(<, Nat))
  BY NatLessThanWellFounded, WFMin
<1>2. ASSUME NEW y \in T PROVE x =< y
  <2>1. <<y, x>> \in Nat \X Nat
    OBVIOUS
  <2>2. ~ (y < x)
    BY <1>1, <2>1 DEF OpToRel
  <2>. QED BY <2>2
<1>. QED BY <1>2

TurnType ==
  [phase : {"none", "answering", "written", "stored", "gone"}, chat : Chats \cup {NoOne},
   cited : BOOLEAN, asked : Nat, answered : Nat]

ChatRow == [owner : Members \cup {NoOne}, state : {"none", "open", "ended", "gone"}]

SharingType ==
  [phase : {"idle", "checked", "inserted"}, owner : Members \cup {NoOne},
   turn : Turns \cup {NoOne}, question : Turns \cup {NoOne}]

Asked(q) == turn[q].phase \in {"written", "stored"}

\* Every reading of the clock is later than the readings before it.
TimesInv ==
  /\ now \in Nat /\ turn \in [Turns -> TurnType]
  /\ \A q \in Turns : turn[q].phase \in {"answering", "written", "stored"} => turn[q].chat \in Chats
  /\ \A q \in Turns : Asked(q) => turn[q].asked < now
  /\ \A q \in Turns : Stored(q) => turn[q].asked < turn[q].answered /\ turn[q].answered < now
  /\ \A p, q \in Turns : Asked(p) /\ Stored(q) => turn[p].asked # turn[q].answered
  /\ \A p, q \in Turns : Asked(p) /\ Asked(q) /\ turn[p].asked = turn[q].asked => p = q

\* The answer a is stored in a conversation of the account o.
AnswerOf(o, a) ==
  /\ a \in Turns /\ Stored(a) /\ turn[a].chat \in Chats
  /\ chat[turn[a].chat].owner = o

\* The question q may stand over the answer a.
Fits(a, q) ==
  \/ q = a
  \/ /\ turn[q].chat = turn[a].chat
     /\ turn[a].asked < turn[q].asked /\ turn[q].asked < turn[a].answered

Paired(a, q) == q \in Turns /\ Stored(q) /\ turn[q].chat = turn[a].chat /\ Fits(a, q)

\* A request knows an answer of its account, and the question it has inserted
\* fits; while the row is inserted the account cannot be deleted.
PairInv ==
  /\ members \subseteq Members
  /\ chat \in [Chats -> ChatRow] /\ sharing \in [Sharers -> SharingType]
  /\ \A x \in shares : x.owner \in members /\ AnswerOf(x.owner, x.answer)
                       /\ Paired(x.answer, x.question)
  /\ \A r \in Sharers :
       /\ sharing[r].phase = "inserted" => sharing[r].owner \in members
       /\ sharing[r].phase # "idle" /\ sharing[r].owner \in members =>
            AnswerOf(sharing[r].owner, sharing[r].turn)
       /\ sharing[r].phase = "inserted" => Paired(sharing[r].turn, sharing[r].question)

\* One turn moves on, at a reading of the clock.
LEMMA TurnMoves ==
  ASSUME TimesInv, NEW q \in Turns, NEW r \in TurnType, turn' = [turn EXCEPT ![q] = r]
  PROVE  /\ turn' \in [Turns -> TurnType]
         /\ turn'[q] = r /\ \A p \in Turns : p # q => turn'[p] = turn[p]
         /\ \A p \in Turns : p # q => (Asked(p)' <=> Asked(p)) /\ (Stored(p)' <=> Stored(p))
BY DEF TimesInv, Asked, Stored

\* The turns that are stored stay as they are.
TurnsStand == \A q \in Turns : Stored(q) => turn'[q] = turn[q]

LEMMA StandKeeps ==
  ASSUME TurnsStand, NEW a, NEW q, NEW o, AnswerOf(o, a), UNCHANGED chat
  PROVE  AnswerOf(o, a)' /\ (Paired(a, q) => Paired(a, q)')
BY DEF TurnsStand, AnswerOf, Paired, Fits, Stored

LEMMA TurnsKeep ==
  ASSUME PairInv, TurnsStand, UNCHANGED <<members, chat, shares, sharing>>
  PROVE  PairInv'
<1>1. \A x \in shares : /\ AnswerOf(x.owner, x.answer)' /\ Paired(x.answer, x.question)'
  BY StandKeeps DEF PairInv
<1>2. ASSUME NEW r \in Sharers, sharing[r].phase # "idle" /\ sharing[r].owner \in members
      PROVE  /\ AnswerOf(sharing[r].owner, sharing[r].turn)'
             /\ sharing[r].phase = "inserted" => Paired(sharing[r].turn, sharing[r].question)'
  BY <1>2, StandKeeps DEF PairInv
<1>. QED BY <1>1, <1>2 DEF PairInv

\* The conversations' own steps.
LEMMA AskKeeps ==
  ASSUME TimesInv, PairInv, NEW q \in Turns, NEW s \in Chats, AskInChat(q, s)
  PROVE  TimesInv' /\ PairInv'
<1>. DEFINE r == [NotAsked EXCEPT !.phase = "answering", !.chat = s]
<1>1. r \in TurnType /\ r.phase = "answering" /\ r.chat = s
  BY DEF NotAsked, TurnType
<1>2. turn' = [turn EXCEPT ![q] = r] /\ UNCHANGED <<now, members, chat, shares, sharing>>
  BY DEF AskInChat, SetTurn, sharingVars
<1>3. ~ Stored(q)
  BY DEF AskInChat, Stored
<1>. HIDE DEF r
<1>4. /\ turn' \in [Turns -> TurnType]
      /\ turn'[q] = r /\ \A p \in Turns : p # q => turn'[p] = turn[p]
  BY <1>1, <1>2, TurnMoves
<1>5. TurnsStand
  BY <1>3, <1>4 DEF TurnsStand
<1>6. TimesInv'
  BY <1>1, <1>2, <1>4 DEF TimesInv, Asked, Stored
<1>. QED BY <1>2, <1>5, <1>6, TurnsKeep

LEMMA WriteKeeps ==
  ASSUME TimesInv, PairInv, NEW q \in Turns, WriteQuestion(q)
  PROVE  TimesInv' /\ PairInv'
<1>. DEFINE r == [turn[q] EXCEPT !.phase = "written", !.asked = now]
<1>1. turn[q] \in TurnType /\ now \in Nat /\ turn[q].phase = "answering" /\ turn[q].chat \in Chats
  BY DEF TimesInv, WriteQuestion
<1>2. r \in TurnType
  BY <1>1 DEF TurnType
<1>3. r.phase = "written" /\ r.asked = now /\ r.chat = turn[q].chat
  BY <1>1 DEF TurnType
<1>4. /\ turn' = [turn EXCEPT ![q] = r] /\ now' = now + 1
      /\ UNCHANGED <<members, chat, shares, sharing>>
  BY DEF WriteQuestion, SetTurn, sharingVars
<1>. HIDE DEF r
<1>5. /\ turn' \in [Turns -> TurnType]
      /\ turn'[q] = r /\ \A p \in Turns : p # q => turn'[p] = turn[p]
  BY <1>2, <1>4, TurnMoves
<1>6. TurnsStand
  BY <1>1, <1>5 DEF TurnsStand, Stored
<1>7. TimesInv'
  <2>1. now' \in Nat /\ now' > now
    BY <1>1, <1>4
  <2>2. \A p \in Turns : turn[p] \in TurnType /\ turn'[p] \in TurnType
    BY <1>5 DEF TimesInv
  <2>3. \A p \in Turns : turn[p].asked \in Nat /\ turn[p].answered \in Nat
    BY <2>2 DEF TurnType
  <2>4. \A p \in Turns : turn'[p].phase \in {"answering", "written", "stored"} =>
                           turn'[p].chat \in Chats
    BY <1>1, <1>3, <1>5 DEF TimesInv
  <2>5. \A p \in Turns : Asked(p)' => turn'[p].asked < now'
    BY <1>1, <1>3, <1>4, <1>5, <2>1, <2>3 DEF TimesInv, Asked
  <2>6. \A p \in Turns : Stored(p)' => p # q /\ Stored(p) /\ turn'[p] = turn[p]
    BY <1>3, <1>5 DEF Stored
  <2>7. \A p \in Turns : Stored(p)' => turn'[p].asked < turn'[p].answered /\ turn'[p].answered < now'
    BY <1>1, <1>4, <2>3, <2>6 DEF TimesInv
  <2>8. \A p \in Turns : p # q => turn'[p] = turn[p] /\ (Asked(p)' <=> Asked(p))
    BY <1>5 DEF Asked
  <2>9. \A p, t \in Turns : Asked(p)' /\ Stored(t)' => turn'[p].asked # turn'[t].answered
    BY <1>1, <1>3, <1>5, <2>3, <2>6, <2>8 DEF TimesInv
  <2>10. \A p, t \in Turns : Asked(p)' /\ Asked(t)' /\ turn'[p].asked = turn'[t].asked => p = t
    BY <1>1, <1>3, <1>5, <2>3, <2>8 DEF TimesInv
  <2>. QED BY <1>5, <2>1, <2>4, <2>5, <2>7, <2>9, <2>10 DEF TimesInv
<1>. QED BY <1>4, <1>6, <1>7, TurnsKeep

LEMMA DropKeeps ==
  ASSUME TimesInv, PairInv, NEW q \in Turns, DropQuestion(q)
  PROVE  TimesInv' /\ PairInv'
<1>. DEFINE r == [NotAsked EXCEPT !.phase = "gone"]
<1>1. r \in TurnType /\ r.phase = "gone"
  BY DEF NotAsked, TurnType
<1>2. turn' = [turn EXCEPT ![q] = r] /\ UNCHANGED <<now, members, chat, shares, sharing>>
  BY DEF DropQuestion, SetTurn, sharingVars
<1>3. ~ Stored(q)
  BY DEF DropQuestion, Stored
<1>. HIDE DEF r
<1>4. /\ turn' \in [Turns -> TurnType]
      /\ turn'[q] = r /\ \A p \in Turns : p # q => turn'[p] = turn[p]
  BY <1>1, <1>2, TurnMoves
<1>5. TurnsStand
  BY <1>3, <1>4 DEF TurnsStand
<1>6. TimesInv'
  BY <1>1, <1>2, <1>4 DEF TimesInv, Asked, Stored
<1>. QED BY <1>2, <1>5, <1>6, TurnsKeep

LEMMA StoreKeeps ==
  ASSUME TimesInv, PairInv, NEW q \in Turns, StoreTurn(q)
  PROVE  TimesInv' /\ PairInv'
<1>0. PICK cited \in BOOLEAN :
        SetTurn(q, [turn[q] EXCEPT !.phase = "stored", !.cited = cited, !.answered = now])
  BY DEF StoreTurn
<1>. DEFINE r == [turn[q] EXCEPT !.phase = "stored", !.cited = cited, !.answered = now]
<1>1. turn[q] \in TurnType /\ now \in Nat /\ turn[q].phase = "written" /\ turn[q].chat \in Chats
      /\ Asked(q)
  BY DEF TimesInv, StoreTurn, Asked
<1>2. r \in TurnType
  BY <1>1 DEF TurnType
<1>3. r.phase = "stored" /\ r.asked = turn[q].asked /\ r.answered = now /\ r.chat = turn[q].chat
  BY <1>1 DEF TurnType
<1>4. /\ turn' = [turn EXCEPT ![q] = r] /\ now' = now + 1
      /\ UNCHANGED <<members, chat, shares, sharing>>
  BY <1>0 DEF StoreTurn, SetTurn, sharingVars
<1>. HIDE DEF r
<1>5. /\ turn' \in [Turns -> TurnType]
      /\ turn'[q] = r /\ \A p \in Turns : p # q => turn'[p] = turn[p]
  BY <1>2, <1>4, TurnMoves
<1>6. TurnsStand
  BY <1>1, <1>5 DEF TurnsStand, Stored
<1>7. TimesInv'
  <2>1. now' \in Nat /\ now' > now
    BY <1>1, <1>4
  <2>2. \A p \in Turns : turn[p] \in TurnType
    BY DEF TimesInv
  <2>3. \A p \in Turns : turn[p].asked \in Nat /\ turn[p].answered \in Nat
    BY <2>2 DEF TurnType
  <2>4. \A p \in Turns : turn'[p].phase \in {"answering", "written", "stored"} =>
                           turn'[p].chat \in Chats
    BY <1>1, <1>3, <1>5 DEF TimesInv
  <2>5. \A p \in Turns : Asked(p)' => Asked(p) /\ turn'[p].asked = turn[p].asked
    BY <1>1, <1>3, <1>5 DEF Asked
  <2>6. \A p \in Turns : Asked(p)' => turn'[p].asked < now'
    BY <1>1, <1>4, <2>3, <2>5 DEF TimesInv
  <2>7. \A p \in Turns : Stored(p)' /\ p # q => Stored(p) /\ turn'[p] = turn[p]
    BY <1>5 DEF Stored
  <2>8. \A p \in Turns : Stored(p)' => turn'[p].asked < turn'[p].answered /\ turn'[p].answered < now'
    <3>1. turn[q].asked < now
      BY <1>1 DEF TimesInv
    <3>. QED BY <1>1, <1>3, <1>4, <1>5, <2>3, <2>7, <3>1 DEF TimesInv
  <2>9. \A p, t \in Turns : Asked(p)' /\ Stored(t)' => turn'[p].asked # turn'[t].answered
    <3>1. \A p \in Turns : Asked(p) => turn[p].asked < now
      BY DEF TimesInv
    <3>. QED BY <1>1, <1>3, <1>5, <2>3, <2>5, <2>7, <3>1 DEF TimesInv
  <2>10. \A p, t \in Turns : Asked(p)' /\ Asked(t)' /\ turn'[p].asked = turn'[t].asked => p = t
    BY <2>5 DEF TimesInv
  <2>. QED BY <1>5, <2>1, <2>4, <2>6, <2>8, <2>9, <2>10 DEF TimesInv
<1>. QED BY <1>4, <1>6, <1>7, TurnsKeep

\* Somebody asked the latest of the questions that are not after an answer.
LEMMA QuestionForFits ==
  ASSUME TimesInv, NEW q \in Turns, Stored(q) PROVE Paired(q, QuestionFor(q))
<1>. DEFINE S == {u \in Turns : /\ Stored(u) /\ turn[u].chat = turn[q].chat
                                /\ turn[u].asked =< turn[q].answered}
            G == {turn[q].answered - turn[u].asked : u \in S}
<1>1. \A p \in Turns : turn[p].asked \in Nat /\ turn[p].answered \in Nat
  BY DEF TimesInv, TurnType
<1>2. q \in S
  BY <1>1 DEF TimesInv
<1>3. \A u \in S : turn[q].answered - turn[u].asked \in Nat
  BY <1>1
<1>4. G \in SUBSET Nat /\ G # {}
  BY <1>2, <1>3
<1>5. PICK g \in G : \A h \in G : g =< h
  BY <1>4, LeastNatural
<1>6. PICK u \in S : g = turn[q].answered - turn[u].asked
  BY <1>5
<1>7. \A v \in S : turn[v].asked =< turn[u].asked
  <2>1. ASSUME NEW v \in S PROVE turn[v].asked =< turn[u].asked
    <3>1. turn[q].answered - turn[u].asked <= turn[q].answered - turn[v].asked
      BY <1>5, <1>6
    <3>2. turn[v].asked \in Nat /\ turn[u].asked \in Nat /\ turn[q].answered \in Nat
      BY <1>1
    <3>. QED BY <3>1, <3>2
  <2>. QED BY <2>1
<1>8. QuestionFor(q) \in S /\ \A v \in S : turn[v].asked =< turn[QuestionFor(q)].asked
  <2>1. QuestionFor(q) = CHOOSE w \in S : \A v \in S : turn[v].asked =< turn[w].asked
    BY DEF QuestionFor, Latest
  <2>. HIDE DEF S, G
  <2>. QED BY <1>6, <1>7, <2>1
<1>9. PICK w : w = QuestionFor(q)
  OBVIOUS
<1>10. w \in Turns /\ Stored(w) /\ turn[w].chat = turn[q].chat
       /\ turn[w].asked <= turn[q].answered /\ turn[q].asked <= turn[w].asked
  BY <1>2, <1>8, <1>9
<1>11. turn[w].asked # turn[q].answered
  BY <1>10 DEF TimesInv, Asked, Stored
<1>12. w = q \/ turn[q].asked < turn[w].asked
  BY <1>1, <1>10 DEF TimesInv, Asked, Stored
<1>. QED BY <1>1, <1>9, <1>10, <1>11, <1>12 DEF Paired, Fits

\* A new conversation has no answers yet, and one that ends keeps its account.
LEMMA SessionKeeps ==
  ASSUME TimesInv, PairInv, NEW s \in Chats,
         EndSession(s) \/ \E o \in Members : CreateSession(s, o)
  PROVE  TimesInv' /\ PairInv'
<1>1. UNCHANGED <<now, members, turn, shares, sharing>>
  BY DEF EndSession, CreateSession, sharingVars
<1>2. chat[s] \in ChatRow
  BY DEF PairInv
<1>. DEFINE Kept(c) == /\ chat' = [chat EXCEPT ![s] = c]
                       /\ chat[s].owner \in Members => c.owner = chat[s].owner
<1>3. \E c \in ChatRow : Kept(c)
  <2>1. ASSUME EndSession(s) PROVE \E c \in ChatRow : Kept(c)
    <3>. DEFINE c == [chat[s] EXCEPT !.state = "ended"]
    <3>1. c \in ChatRow
      BY <1>2 DEF ChatRow
    <3>2. c.owner = chat[s].owner
      BY <1>2 DEF ChatRow
    <3>. QED BY <2>1, <3>1, <3>2 DEF EndSession
  <2>2. ASSUME NEW o \in Members, CreateSession(s, o) PROVE \E c \in ChatRow : Kept(c)
    <3>1. chat[s].owner = NoOne
      BY <2>2 DEF CreateSession, NoChat
    <3>2. [owner |-> o, state |-> "open"] \in ChatRow
      BY DEF ChatRow
    <3>. QED BY <2>2, <3>1, <3>2, ChatAssumption DEF CreateSession
  <2>. HIDE DEF Kept
  <2>. QED BY <2>1, <2>2
<1>4. /\ chat' \in [Chats -> ChatRow]
      /\ \A d \in Chats : chat[d].owner \in Members => chat'[d].owner = chat[d].owner
  BY <1>3 DEF PairInv
<1>. HIDE DEF Kept
<1>5. ASSUME NEW o \in Members, NEW a, AnswerOf(o, a) PROVE AnswerOf(o, a)'
  BY <1>1, <1>4, <1>5 DEF AnswerOf, Stored
<1>6. \A a, q : Paired(a, q)' <=> Paired(a, q)
  BY <1>1 DEF Paired, Fits, Stored
<1>7. TimesInv'
  BY <1>1 DEF TimesInv, Asked, Stored
<1>8. \A x \in shares : x.owner \in Members
  BY DEF PairInv
<1>. QED BY <1>1, <1>4, <1>5, <1>6, <1>7, <1>8 DEF PairInv

\* One request moves on; the conversations stand still.
LEMMA RequestKeeps ==
  ASSUME TimesInv, PairInv, NEW r \in Sharers, NEW v \in SharingType,
         sharing' = [sharing EXCEPT ![r] = v], UNCHANGED conversation,
         v.phase = "inserted" => v.owner \in members /\ Paired(v.turn, v.question),
         v.phase # "idle" /\ v.owner \in members => AnswerOf(v.owner, v.turn),
         \A x \in shares' : x.owner \in members /\ AnswerOf(x.owner, x.answer)
                             /\ Paired(x.answer, x.question)
  PROVE  TimesInv' /\ PairInv'
<1>1. UNCHANGED <<now, members, chat, turn>>
  BY DEF conversation
<1>2. \A a, q : Paired(a, q)' <=> Paired(a, q)
  BY <1>1 DEF Paired, Fits, Stored
<1>3. \A o, a : AnswerOf(o, a)' <=> AnswerOf(o, a)
  BY <1>1 DEF AnswerOf, Stored
<1>4. /\ sharing' \in [Sharers -> SharingType] /\ sharing'[r] = v
      /\ \A s \in Sharers : s # r => sharing'[s] = sharing[s]
  BY DEF PairInv
<1>5. TimesInv'
  BY <1>1 DEF TimesInv, Asked, Stored
<1>. QED BY <1>1, <1>2, <1>3, <1>4, <1>5 DEF PairInv

LEMMA IdleSharing == NotSharing \in SharingType /\ NotSharing.phase = "idle"
BY DEF NotSharing, SharingType

LEMMA CheckPairs ==
  ASSUME TimesInv, PairInv, NEW r \in Sharers, NEW q \in Turns, CheckShare(r, q)
  PROVE  TimesInv' /\ PairInv'
<1>1. PICK o : o = chat[turn[q].chat].owner
  OBVIOUS
<1>2. turn[q].chat \in Chats
  BY DEF CheckShare, TimesInv, Stored
<1>3. o \in Members \cup {NoOne}
  BY <1>1, <1>2 DEF PairInv, ChatRow
<1>4. PICK v : v = [phase |-> "checked", owner |-> o, turn |-> q, question |-> NoOne]
  OBVIOUS
<1>5. v \in SharingType /\ v.phase = "checked" /\ v.owner = o /\ v.turn = q
  BY <1>3, <1>4 DEF SharingType
<1>6. sharing' = [sharing EXCEPT ![r] = v] /\ UNCHANGED <<conversation, shares>>
  BY <1>1, <1>4 DEF CheckShare, SetSharing
<1>7. AnswerOf(o, q)
  BY <1>1, <1>2 DEF CheckShare, AnswerOf
<1>8. \A x \in shares' : x.owner \in members /\ AnswerOf(x.owner, x.answer)
                             /\ Paired(x.answer, x.question)
  BY <1>6 DEF PairInv
<1>. QED BY <1>5, <1>6, <1>7, <1>8, RequestKeeps

LEMMA InsertPairs ==
  ASSUME TimesInv, PairInv, NEW r \in Sharers, InsertShare(r)
  PROVE  TimesInv' /\ PairInv'
<1>1. PICK o, t : o = sharing[r].owner /\ t = sharing[r].turn
  OBVIOUS
<1>2. o \in members /\ AnswerOf(o, t)
  BY <1>1 DEF InsertShare, PairInv
<1>3. Paired(t, QuestionFor(t))
  BY <1>2, QuestionForFits DEF AnswerOf
<1>4. PICK v : v = [phase |-> "inserted", owner |-> o, turn |-> t, question |-> QuestionFor(t)]
  OBVIOUS
<1>5. /\ v \in SharingType /\ v.phase = "inserted" /\ v.owner = o /\ v.turn = t
      /\ v.question = QuestionFor(t)
  <2>1. o \in Members /\ t \in Turns /\ QuestionFor(t) \in Turns
    BY <1>2, <1>3 DEF PairInv, AnswerOf, Paired
  <2>. QED BY <1>4, <2>1 DEF SharingType
<1>6. sharing' = [sharing EXCEPT ![r] = v] /\ UNCHANGED <<conversation, shares>>
  BY <1>1, <1>4 DEF InsertShare, SetSharing
<1>7. \A x \in shares' : x.owner \in members /\ AnswerOf(x.owner, x.answer)
                             /\ Paired(x.answer, x.question)
  BY <1>6 DEF PairInv
<1>. QED BY <1>2, <1>3, <1>5, <1>6, <1>7, RequestKeeps

LEMMA EndPairs ==
  ASSUME TimesInv, PairInv, NEW r \in Sharers, EndShare(r) \/ CommitShare(r)
  PROVE  TimesInv' /\ PairInv'
<1>1. sharing' = [sharing EXCEPT ![r] = NotSharing] /\ UNCHANGED conversation
  BY DEF EndShare, CommitShare, SetSharing
<1>2. \A x \in shares' : x.owner \in members /\ AnswerOf(x.owner, x.answer)
                             /\ Paired(x.answer, x.question)
  <2>1. CASE EndShare(r)
    BY <2>1 DEF EndShare, PairInv
  <2>2. CASE CommitShare(r)
    <3>1. PICK x : x = [by |-> r, owner |-> sharing[r].owner, answer |-> sharing[r].turn,
                        question |-> sharing[r].question, revoked |-> FALSE]
      OBVIOUS
    <3>2. shares' = shares \cup {x} /\ sharing[r].phase = "inserted"
      BY <2>2, <3>1 DEF CommitShare
    <3>3. x.owner = sharing[r].owner /\ x.answer = sharing[r].turn
          /\ x.question = sharing[r].question
      BY <3>1
    <3>. QED BY <3>2, <3>3 DEF PairInv
  <2>. QED BY <2>1, <2>2
<1>. QED BY <1>1, <1>2, IdleSharing, RequestKeeps

\* What is revoked keeps what it shows.
LEMMA RevokePairs ==
  ASSUME SharesInv, TimesInv, PairInv, NEW x \in shares, RevokeShare(x)
  PROVE  TimesInv' /\ PairInv'
<1>. DEFINE y == [x EXCEPT !.revoked = TRUE]
<1>1. y.owner = x.owner /\ y.answer = x.answer /\ y.question = x.question
  BY DEF SharesInv
<1>2. shares' = (shares \ {x}) \cup {y} /\ UNCHANGED <<now, members, chat, turn, sharing>>
  BY DEF RevokeShare, conversation
<1>. HIDE DEF y
<1>3. \A z \in shares' : z.owner \in members /\ AnswerOf(z.owner, z.answer)
                             /\ Paired(z.answer, z.question)
  BY <1>1, <1>2 DEF PairInv
<1>4. \A a, q : Paired(a, q)' <=> Paired(a, q)
  BY <1>2 DEF Paired, Fits, Stored
<1>5. \A o, a : AnswerOf(o, a)' <=> AnswerOf(o, a)
  BY <1>2 DEF AnswerOf, Stored
<1>6. TimesInv'
  BY <1>2 DEF TimesInv, Asked, Stored
<1>. QED BY <1>2, <1>3, <1>4, <1>5, <1>6 DEF PairInv

\* What others have stored stays when an account is deleted; a request that has
\* inserted its row holds the row of the account.
LEMMA DeletePairs ==
  ASSUME SharesInv, TimesInv, PairInv, NEW o \in Members, DeleteMember(o)
  PROVE  TimesInv' /\ PairInv'
<1>. DEFINE goneTurn == [NotAsked EXCEPT !.phase = "gone"]
            goneChat == [owner |-> NoOne, state |-> "gone"]
<1>1. goneTurn \in TurnType /\ goneTurn.phase = "gone" /\ goneChat \in ChatRow
  BY DEF NotAsked, TurnType, ChatRow
<1>2. /\ o \in members /\ members' = members \ {o}
      /\ chat' = [s \in Chats |-> IF s \in ChatsOf(o) THEN goneChat ELSE chat[s]]
      /\ turn' = [q \in Turns |-> IF q \in TurnsOf(o) /\ Stored(q) THEN goneTurn ELSE turn[q]]
      /\ shares' = {x \in shares : x.owner # o}
      /\ UNCHANGED <<now, sharing>>
      /\ rowLock[o] = NoOne
  BY DEF DeleteMember
<1>. HIDE DEF goneTurn, goneChat
<1>3. chat' \in [Chats -> ChatRow] /\ turn' \in [Turns -> TurnType]
  BY <1>1, <1>2 DEF PairInv, TimesInv
<1>4. \A q \in Turns : turn'[q] = turn[q] \/ turn'[q].phase = "gone"
  BY <1>1, <1>2
<1>5. TimesInv'
  BY <1>2, <1>3, <1>4 DEF TimesInv, Asked, Stored
<1>6. ASSUME NEW a, NEW p \in members', AnswerOf(p, a)
      PROVE  /\ AnswerOf(p, a)'
             /\ \A q : Paired(a, q) => Paired(a, q)'
  <2>1. p # o
    BY <1>2
  <2>2. turn[a].chat \notin ChatsOf(o) /\ a \in Turns
    BY <1>6, <2>1 DEF AnswerOf, ChatsOf
  <2>3. turn'[a] = turn[a] /\ chat'[turn[a].chat] = chat[turn[a].chat]
    BY <1>2, <1>6, <2>2 DEF TurnsOf, AnswerOf
  <2>4. ASSUME NEW q, Paired(a, q) PROVE turn'[q] = turn[q]
    BY <1>2, <2>2, <2>4 DEF TurnsOf, Paired
  <2>5. AnswerOf(p, a)'
    BY <1>6, <2>3 DEF AnswerOf, Stored
  <2>. QED BY <2>3, <2>4, <2>5 DEF Paired, Fits, Stored
<1>7. \A x \in shares' : x.owner \in members' /\ AnswerOf(x.owner, x.answer)'
                             /\ Paired(x.answer, x.question)'
  <2>1. \A x \in shares' : /\ x \in shares /\ x.owner \in members' /\ AnswerOf(x.owner, x.answer)
                           /\ Paired(x.answer, x.question)
    BY <1>2 DEF PairInv
  <2>. QED BY <1>6, <2>1
<1>8. ASSUME NEW r \in Sharers, NEW p, NEW t, NEW q,
             p = sharing[r].owner, t = sharing[r].turn, q = sharing[r].question
      PROVE  /\ sharing[r].phase = "inserted" => p \in members' /\ Paired(t, q)'
             /\ sharing[r].phase # "idle" /\ p \in members' => AnswerOf(p, t)'
  <2>1. sharing[r].phase = "inserted" => p \in members' /\ Paired(t, q)
    <3>1. sharing[r].phase = "inserted" => rowLock[p] = r
      BY <1>8 DEF SharesInv, HeldInv
    <3>. QED BY <1>2, <1>8, <3>1, ChatAssumption DEF PairInv
  <2>2. sharing[r].phase # "idle" /\ p \in members' => AnswerOf(p, t)
    BY <1>2, <1>8 DEF PairInv
  <2>. QED BY <1>6, <2>1, <2>2
<1>9. members' \subseteq Members /\ sharing' \in [Sharers -> SharingType]
  BY <1>2 DEF PairInv
<1>10. PairInv'
  BY <1>2, <1>3, <1>7, <1>8, <1>9 DEF PairInv
<1>. QED BY <1>5, <1>10

LEMMA PairsInit == ChatInit => TimesInv /\ PairInv
<1>. SUFFICES ASSUME ChatInit PROVE TimesInv /\ PairInv
  OBVIOUS
<1>1. NotAsked \in TurnType /\ NotAsked.phase = "none" /\ NoChat \in ChatRow
  BY DEF NotAsked, TurnType, NoChat, ChatRow
<1>2. TimesInv
  BY <1>1 DEF ChatInit, TimesInv, Asked, Stored
<1>3. PairInv
  BY <1>1, IdleSharing DEF ChatInit, PairInv
<1>. QED BY <1>2, <1>3

LEMMA PairsStep == SharesInv /\ TimesInv /\ PairInv /\ [ChatNext]_chatVars => TimesInv' /\ PairInv'
<1>. SUFFICES ASSUME SharesInv, TimesInv, PairInv, [ChatNext]_chatVars
              PROVE  TimesInv' /\ PairInv'
  OBVIOUS
<1>0. ASSUME UNCHANGED <<now, members, chat, turn, shares, sharing>> PROVE TimesInv' /\ PairInv'
  <2>1. TimesInv'
    BY <1>0 DEF TimesInv, Asked, Stored
  <2>2. TurnsStand
    BY <1>0 DEF TurnsStand
  <2>. QED BY <1>0, <2>1, <2>2, TurnsKeep
<1>1. ASSUME NEW s \in Chats, EndSession(s) \/ \E o \in Members : CreateSession(s, o)
      PROVE  TimesInv' /\ PairInv'
  BY <1>1, SessionKeeps
<1>2. ASSUME NEW q \in Turns,
             WriteQuestion(q) \/ DropQuestion(q) \/ StoreTurn(q) \/ \E s \in Chats : AskInChat(q, s)
      PROVE  TimesInv' /\ PairInv'
  BY <1>2, AskKeeps, WriteKeeps, DropKeeps, StoreKeeps
<1>3. ASSUME NEW r \in Sharers,
             InsertShare(r) \/ EndShare(r) \/ CommitShare(r) \/ \E q \in Turns : CheckShare(r, q)
      PROVE  TimesInv' /\ PairInv'
  BY <1>3, InsertPairs, EndPairs, CheckPairs
<1>4. ASSUME NEW x \in shares, RevokeShare(x) PROVE TimesInv' /\ PairInv'
  BY <1>4, RevokePairs
<1>5. ASSUME NEW v \in Voters,
             \/ InsertVote(v) \/ FindWinner(v) \/ UpdateVote(v) \/ FailVote(v)
             \/ \E q \in Turns, b \in Bodies : FindVote(v, q, b)
      PROVE  TimesInv' /\ PairInv'
  <2>1. UNCHANGED <<now, members, chat, turn, shares, sharing>>
    BY <1>5
    DEF InsertVote, FindWinner, UpdateVote, FailVote, FindVote, SetVoting, sharingVars,
        conversation
  <2>. QED BY <1>0, <2>1
<1>6. ASSUME NEW o \in Members, DeleteMember(o) PROVE TimesInv' /\ PairInv'
  BY <1>6, DeletePairs
<1>7. CASE UNCHANGED chatVars
  BY <1>0, <1>7 DEF chatVars, sharingVars, conversation
<1>. QED BY <1>1, <1>2, <1>3, <1>4, <1>5, <1>6, <1>7 DEF ChatNext

\* A shared answer stands under its own question, or under one of the same
\* conversation that was stored while it was being answered (_question_for), for
\* any number of conversations, questions and requests, and whichever accounts
\* are deleted meanwhile.
THEOREM SharesStayPaired == ChatSpec => []SharesPairUp
<1>1. PairInv => SharesPairUp
  BY DEF PairInv, Paired, Fits, SharesPairUp
<1>. QED BY <1>1, ChatInit_Inv, ChatStep_Inv, PairsInit, PairsStep, PTL DEF ChatSpec

\* Owners of sessions are members, a vote is of an answer that is there, and a
\* request that votes knows its answer.
VotingShape(r) ==
  /\ r = [phase |-> r.phase, turn |-> r.turn, body |-> r.body, seen |-> r.seen]
  /\ r.phase \in {"idle", "inserting", "updating"}
  /\ r.phase # "idle" => r.turn \in Turns

ChatOwnersInv ==
  /\ \A s \in Chats : chat[s].owner \in members \cup {NoOne}
  /\ rowLock \in [Members -> Sharers \cup {NoOne}]
  /\ votes = [q \in Turns |-> votes[q]]
  /\ \A q \in Turns : votes[q] # NoVote => Stored(q)
  /\ voting = [v \in Voters |-> voting[v]]
  /\ \A v \in Voters : VotingShape(voting[v])

LEMMA ChatOwnersStart == ChatInit => ChatOwnersInv
BY DEF ChatInit, ChatOwnersInv, VotingShape, NotVoting, NoChat

LEMMA ChatOwnersVote ==
  ASSUME ChatOwnersInv, NEW v \in Voters,
         \/ InsertVote(v) \/ FindWinner(v) \/ UpdateVote(v) \/ FailVote(v)
         \/ \E q \in Turns, b \in Bodies : FindVote(v, q, b)
  PROVE  ChatOwnersInv'
<1>1. VotingShape(voting[v])
  BY DEF ChatOwnersInv
<1>2. \E r : VotingShape(r) /\ voting' = [voting EXCEPT ![v] = r]
  <2>1. VotingShape(NotVoting)
    BY DEF VotingShape, NotVoting
  <2>2. CASE InsertVote(v) \/ UpdateVote(v) \/ FailVote(v)
    <3>1. SetVoting(v, NotVoting)
      BY <2>2 DEF InsertVote, UpdateVote, FailVote
    <3>2. voting' = [voting EXCEPT ![v] = NotVoting]
      BY <3>1 DEF SetVoting
    <3>. QED BY <2>1, <3>2
  <2>3. CASE FindWinner(v)
    <3>. DEFINE r == [voting[v] EXCEPT !.phase = "updating", !.seen = votes[voting[v].turn]]
    <3>1. VotingShape(voting[v]) /\ voting[v].phase = "inserting"
      BY <1>1, <2>3 DEF FindWinner
    <3>2. PICK p, t, b, s : voting[v] = [phase |-> p, turn |-> t, body |-> b, seen |-> s]
      BY <3>1, Zenon DEF VotingShape
    <3>3. voting' = [voting EXCEPT ![v] = r]
      BY <2>3 DEF FindWinner, SetVoting
    <3>4. VotingShape(r)
      <4>. DEFINE x == [phase |-> p, turn |-> t, body |-> b, seen |-> s]
                  z == votes[voting[v].turn]
      <4>1. r = [x EXCEPT !.phase = "updating", !.seen = z]
        BY <3>2, Zenon
      <4>2. t \in Turns
        BY <3>1, <3>2 DEF VotingShape
      <4>. HIDE DEF z, r
      <4>3. [x EXCEPT !.phase = "updating", !.seen = z]
              = [phase |-> "updating", turn |-> t, body |-> b, seen |-> z]
        <5>1. [x EXCEPT !.phase = "updating"]
                = [phase |-> "updating", turn |-> t, body |-> b, seen |-> s]
          OBVIOUS
        <5>2. [[phase |-> "updating", turn |-> t, body |-> b, seen |-> s] EXCEPT !.seen = z]
                = [phase |-> "updating", turn |-> t, body |-> b, seen |-> z]
          OBVIOUS
        <5>. QED BY <5>1, <5>2, Zenon
      <4>4. r = [phase |-> "updating", turn |-> t, body |-> b, seen |-> z]
        BY <4>1, <4>3, Zenon
      <4>. QED BY <4>2, <4>4 DEF VotingShape
    <3>. QED BY <3>3, <3>4
  <2>4. ASSUME NEW q \in Turns, NEW b \in Bodies, FindVote(v, q, b)
        PROVE  \E r : VotingShape(r) /\ voting' = [voting EXCEPT ![v] = r]
    <3>. DEFINE r == [phase |-> IF votes[q] = NoVote THEN "inserting" ELSE "updating",
                      turn |-> q, body |-> b, seen |-> votes[q]]
    <3>1. VotingShape(r)
      BY DEF VotingShape
    <3>2. voting' = [voting EXCEPT ![v] = r]
      BY <2>4 DEF FindVote, SetVoting
    <3>. QED BY <3>1, <3>2
  <2>. QED BY <2>2, <2>3, <2>4
<1>3. voting' = [u \in Voters |-> voting'[u]] /\ \A u \in Voters : VotingShape(voting'[u])
  <2>1. PICK r : VotingShape(r) /\ voting' = [voting EXCEPT ![v] = r]
    BY <1>2
  <2>2. voting' = [u \in Voters |-> IF u = v THEN r ELSE voting[u]]
    BY <2>1 DEF ChatOwnersInv
  <2>. QED BY <2>1, <2>2 DEF ChatOwnersInv
<1>4. UNCHANGED <<members, chat, turn, rowLock>>
  BY DEF InsertVote, FindWinner, UpdateVote, FailVote, FindVote, SetVoting, sharingVars,
         conversation
<1>5. /\ votes' = [q \in Turns |-> votes'[q]]
      /\ \A q \in Turns : votes'[q] # votes[q] => Stored(q)
  <2>1. CASE UNCHANGED votes
    BY <2>1 DEF ChatOwnersInv
  <2>2. CASE InsertVote(v)
    <3>1. votes' = [votes EXCEPT ![voting[v].turn] = voting[v].body] /\ Stored(voting[v].turn)
      BY <2>2 DEF InsertVote
    <3>. QED BY <3>1 DEF ChatOwnersInv
  <2>3. CASE UpdateVote(v)
    <3>1. Stored(voting[v].turn) /\ \E x : votes' = [votes EXCEPT ![voting[v].turn] = x]
      BY <2>3 DEF UpdateVote
    <3>. QED BY <3>1 DEF ChatOwnersInv
  <2>. QED BY <2>1, <2>2, <2>3 DEF FindWinner, FailVote, FindVote
<1>. QED BY <1>3, <1>4, <1>5 DEF ChatOwnersInv, Stored

LEMMA ChatOwnersStep ==
  ASSUME SharesInv, TimesInv, PairInv, ChatOwnersInv, [ChatNext]_chatVars
  PROVE  ChatOwnersInv'
<1>0. chat \in [Chats -> ChatRow] /\ turn \in [Turns -> TurnType]
  BY DEF PairInv, TimesInv
<1>1. ASSUME UNCHANGED <<members, chat, rowLock, votes, voting>>,
             \A q \in Turns : Stored(q) => Stored(q)'
      PROVE  ChatOwnersInv'
  BY <1>1 DEF ChatOwnersInv, VotingShape
<1>2. ASSUME NEW s \in Chats, EndSession(s) \/ \E o \in Members : CreateSession(s, o)
      PROVE  ChatOwnersInv'
  <2>1. \A t \in Chats : chat'[t].owner \in members \cup {NoOne}
    BY <1>0, <1>2 DEF EndSession, CreateSession, ChatRow, ChatOwnersInv
  <2>2. UNCHANGED <<members, turn, rowLock, votes, voting>>
    BY <1>2 DEF EndSession, CreateSession, sharingVars, votingVars
  <2>. QED BY <2>1, <2>2 DEF ChatOwnersInv, VotingShape, Stored
<1>3. ASSUME NEW q \in Turns,
             WriteQuestion(q) \/ DropQuestion(q) \/ StoreTurn(q) \/ \E s \in Chats : AskInChat(q, s)
      PROVE  ChatOwnersInv'
  <2>1. ~ Stored(q) /\ \A p \in Turns : p # q => turn'[p] = turn[p]
    BY <1>0, <1>3 DEF WriteQuestion, DropQuestion, StoreTurn, AskInChat, SetTurn, Stored
  <2>2. UNCHANGED <<members, chat, rowLock, votes, voting>>
    BY <1>3
    DEF WriteQuestion, DropQuestion, StoreTurn, AskInChat, SetTurn, sharingVars, votingVars
  <2>. QED BY <1>1, <2>1, <2>2 DEF Stored
<1>4. ASSUME NEW r \in Sharers,
             InsertShare(r) \/ EndShare(r) \/ CommitShare(r) \/ \E q \in Turns : CheckShare(r, q)
      PROVE  ChatOwnersInv'
  <2>1. rowLock' \in [Members -> Sharers \cup {NoOne}]
    BY <1>4 DEF InsertShare, EndShare, CommitShare, CheckShare, LocksOwner, ChatOwnersInv
  <2>2. UNCHANGED <<members, chat, turn, votes, voting>>
    BY <1>4 DEF InsertShare, EndShare, CommitShare, CheckShare, conversation, votingVars
  <2>. QED BY <2>1, <2>2 DEF ChatOwnersInv, VotingShape, Stored
<1>5. ASSUME NEW x \in shares, RevokeShare(x) PROVE ChatOwnersInv'
  BY <1>1, <1>5 DEF RevokeShare, conversation, votingVars, Stored
<1>6. ASSUME NEW v \in Voters,
             \/ InsertVote(v) \/ FindWinner(v) \/ UpdateVote(v) \/ FailVote(v)
             \/ \E q \in Turns, b \in Bodies : FindVote(v, q, b)
      PROVE  ChatOwnersInv'
  BY <1>6, ChatOwnersVote
<1>7. ASSUME NEW o \in Members, DeleteMember(o) PROVE ChatOwnersInv'
  <2>1. \A s \in Chats : chat'[s].owner \in members' \cup {NoOne}
    BY <1>0, <1>7 DEF DeleteMember, ChatsOf, ChatOwnersInv
  <2>2. votes' = [q \in Turns |-> votes'[q]] /\ \A q \in Turns : votes'[q] # NoVote => Stored(q)'
    <3>1. \A q \in Turns : votes'[q] # NoVote => q \notin TurnsOf(o) /\ votes'[q] = votes[q]
      BY <1>7 DEF DeleteMember
    <3>2. \A q \in Turns : q \notin TurnsOf(o) => turn'[q] = turn[q]
      BY <1>7 DEF DeleteMember
    <3>3. votes' = [q \in Turns |-> votes'[q]]
      BY <1>7 DEF DeleteMember
    <3>. QED BY <3>1, <3>2, <3>3 DEF ChatOwnersInv, Stored
  <2>3. UNCHANGED <<rowLock, voting>>
    BY <1>7 DEF DeleteMember
  <2>. QED BY <2>1, <2>2, <2>3 DEF ChatOwnersInv, VotingShape
<1>8. CASE UNCHANGED chatVars
  BY <1>1, <1>8 DEF chatVars, sharingVars, votingVars, conversation, Stored
<1>. QED BY <1>2, <1>3, <1>4, <1>5, <1>6, <1>7, <1>8 DEF ChatNext

\* The types of sessions, turns, shares and votes: a share and a vote are of an
\* answer that is there, whoever deletes an account meanwhile (share_answer,
\* feedback.py).
THEOREM ChatTyped == ChatSpec => []ChatTypeOK
<1>1. TimesInv /\ PairInv /\ ChatOwnersInv => ChatTypeOK
  BY DEF TimesInv, PairInv, ChatOwnersInv, VotingShape, AnswerOf, TurnType, ChatTypeOK
<1>. QED
  BY <1>1, ChatInit_Inv, ChatStep_Inv, PairsInit, PairsStep, ChatOwnersStart, ChatOwnersStep, PTL
  DEF ChatSpec

----------------------------------------------------------------------------
(* DocsMail.                                                               *)

ChangeType == [page : Pages, text : Nat, at : Nat]

TodoType == [reader : Readers, mine : SUBSET ChangeType]

MailJob ==
  [step : {"off", "read", "loop", "sending", "failed"}, kind : MailKinds, now : Nat,
   changes : SUBSET ChangeType, todo : SUBSET TodoType, reader : Readers \cup {Nothing},
   mine : SUBSET ChangeType, mail : Nat]

MailTypes ==
  /\ today \in Nat /\ mails \in Nat
  /\ snapshot \in [Pages -> Nat] /\ changes \subseteq ChangeType
  /\ watcher \in [now : Nat, left : SUBSET Pages]
  /\ job \in [Jobs -> MailJob]

Busy(k) == job[k].step \in {"sending", "failed"}

\* Mails are numbered; a number is one job's, or of one accepted mail.
NumbersInv ==
  /\ \A c \in claims : c.mail \in Nat /\ c.mail > 0 /\ c.mail <= mails
  /\ \A k \in Jobs : job[k].mail # 0 <=> Busy(k)
  /\ \A k \in Jobs : job[k].mail <= mails
  /\ \A m \in accepted : m.mail \in Nat /\ m.mail > 0 /\ m.mail <= mails
  /\ \A k, l \in Jobs : job[k].mail = job[l].mail /\ Busy(k) => k = l
  /\ \A k \in Jobs, m \in accepted : m.mail # job[k].mail

\* Every claim is unique by its key, and a mail that is accepted or on its way has
\* the claims of what it says.
Says(m) ==
  IF m.kind = "digest"
  THEN \E c \in claims : /\ c.mail = m.mail /\ c.kind = m.kind /\ c.reader = m.reader
                         /\ c.about = m.week
  ELSE \A x \in m.changes :
         \E c \in claims : /\ c.mail = m.mail /\ c.kind = m.kind /\ c.reader = m.reader
                           /\ c.about = x

KeysInv ==
  /\ \A c, d \in claims : SameKey(c, d) => c = d
  /\ \A m \in accepted : Says(m)
  /\ \A k \in Jobs : job[k].step = "sending" => Says(TheMail(k))

MailInv == MailTypes /\ NumbersInv /\ KeysInv /\ ClaimsAreMailed

LEMMA JobTypes ==
  ASSUME MailInv
  PROVE  /\ job \in [Jobs -> MailJob] /\ mails \in Nat
         /\ \A k \in Jobs : job[k] \in MailJob /\ job[k].mail \in Nat /\ job[k].todo \subseteq TodoType
BY DEF MailInv, MailTypes, MailJob

LEMMA OffType == Off \in MailJob /\ Off.step = "off" /\ Off.mail = 0
BY DEF Off, MailJob, MailKinds

\* A job moves that is not sending, before or after.
LEMMA JobMoves ==
  ASSUME MailInv, NEW k \in Jobs, NEW r \in MailJob, JobGoes(k, r),
         ~ Busy(k), r.step \notin {"sending", "failed"}, r.mail = 0,
         UNCHANGED <<today, snapshot, changes, watcher, claims, mails, accepted>>,
         cut \subseteq cut'
  PROVE  MailInv'
<1>1. job' \in [Jobs -> MailJob] /\ job'[k] = r /\ \A l \in Jobs : l # k => job'[l] = job[l]
  BY JobTypes DEF JobGoes
<1>2. MailTypes'
  BY <1>1 DEF MailInv, MailTypes
<1>3. job[k].mail = 0
  BY DEF MailInv, NumbersInv
<1>4. \A l \in Jobs : /\ job'[l].mail = job[l].mail /\ (Busy(l)' <=> Busy(l))
                      /\ (job'[l].step = "sending" => job'[l] = job[l])
                      /\ (job[l].step = "sending" <=> job'[l].step = "sending")
  BY <1>1, <1>3 DEF Busy
<1>5. NumbersInv'
  BY <1>4 DEF MailInv, NumbersInv
<1>6. KeysInv'
  BY <1>4 DEF MailInv, KeysInv, Says, TheMail
<1>7. ClaimsAreMailed'
  BY <1>4 DEF MailInv, ClaimsAreMailed
<1>. QED BY <1>2, <1>5, <1>6, <1>7 DEF MailInv

LEMMA ReadChangesStep ==
  ASSUME MailInv, NEW k \in Jobs, NEW kind \in MailKinds, ReadChanges(k, kind)
  PROVE  MailInv'
<1>. DEFINE r == [Off EXCEPT !.step = "read", !.kind = kind, !.now = today,
                             !.changes = Recent(today)]
<1>1. Recent(today) \subseteq ChangeType /\ today \in Nat
  BY DEF Recent, MailInv, MailTypes
<1>2. r \in MailJob /\ r.step = "read" /\ r.mail = 0
  BY <1>1, OffType DEF MailJob
<1>3. JobGoes(k, r) /\ ~ Busy(k)
  BY DEF ReadChanges, Busy
<1>. HIDE DEF r
<1>. QED BY <1>2, <1>3, JobMoves DEF ReadChanges

LEMMA ReadReadersStep ==
  ASSUME MailInv, NEW k \in Jobs, ReadReaders(k)
  PROVE  MailInv'
<1>. DEFINE todo == {[reader |-> x, mine |-> Mine(k, x)] : x \in Recipients(k)}
            r == [job[k] EXCEPT !.step = "loop", !.changes = {}, !.todo = todo]
<1>1. job[k] \in MailJob /\ job[k].step = "read" /\ job[k].mail = 0
  BY JobTypes DEF ReadReaders, MailInv, NumbersInv, Busy
<1>2. todo \subseteq TodoType
  <2>1. \A x \in Recipients(k) : x \in Readers /\ Mine(k, x) \subseteq ChangeType
    BY <1>1 DEF Recipients, Mine, MailJob
  <2>. QED BY <2>1 DEF TodoType
<1>3. JobGoes(k, r) /\ ~ Busy(k)
  BY DEF ReadReaders, Busy
<1>. HIDE DEF todo
<1>4. r \in MailJob
  BY <1>1, <1>2 DEF MailJob
<1>5. r.step = "loop" /\ r.mail = 0
  BY <1>1 DEF MailJob
<1>. HIDE DEF r
<1>. QED BY <1>3, <1>4, <1>5, JobMoves DEF ReadReaders

LEMMA SkipReaderStep ==
  ASSUME MailInv, NEW k \in Jobs, NEW todo \in job[k].todo, SkipReader(k, todo)
  PROVE  MailInv'
<1>. DEFINE left == job[k].todo \ {todo}
            r == [job[k] EXCEPT !.todo = left]
<1>1. job[k] \in MailJob /\ job[k].step = "loop" /\ job[k].mail = 0 /\ left \subseteq TodoType
  BY JobTypes DEF SkipReader, MailInv, NumbersInv, Busy
<1>2. JobGoes(k, r) /\ ~ Busy(k)
  BY DEF SkipReader, Busy
<1>. HIDE DEF left
<1>3. r \in MailJob
  BY <1>1 DEF MailJob
<1>4. r.step = "loop" /\ r.mail = 0
  BY <1>1 DEF MailJob
<1>. HIDE DEF r
<1>. QED BY <1>2, <1>3, <1>4, JobMoves DEF SkipReader

\* What a claim claims.
LEMMA ClaimedRows ==
  ASSUME MailInv, NEW k \in Jobs, NEW todo \in TodoType
  PROVE  /\ \A c \in Claimed(k, todo) :
              /\ c.mail = mails + 1 /\ c.kind = job[k].kind /\ c.reader = todo.reader
         /\ \A c, d \in Claimed(k, todo) : SameKey(c, d) => c = d
         /\ LET m == [mail |-> mails + 1, kind |-> job[k].kind, reader |-> todo.reader,
                      week |-> Week(job[k].now), changes |-> todo.mine] IN
            IF m.kind = "digest"
            THEN \E c \in Claimed(k, todo) : c.about = m.week
            ELSE \A x \in m.changes : \E c \in Claimed(k, todo) : c.about = x
<1>1. CASE job[k].kind = "digest"
  BY <1>1 DEF Claimed, SameKey
<1>2. CASE job[k].kind # "digest"
  <2>. DEFINE row(c) == [kind |-> job[k].kind, reader |-> todo.reader, mail |-> mails + 1,
                         about |-> c, at |-> 0]
  <2>1. Claimed(k, todo) = {row(c) : c \in todo.mine}
    BY <1>2 DEF Claimed
  <2>2. \A c : /\ row(c).mail = mails + 1 /\ row(c).kind = job[k].kind
              /\ row(c).reader = todo.reader /\ row(c).about = c
    OBVIOUS
  <2>. HIDE DEF row
  <2>3. \A x \in Claimed(k, todo) : \E c \in todo.mine : x = row(c)
    BY <2>1
  <2>4. \A x \in todo.mine : row(x) \in Claimed(k, todo)
    BY <2>1
  <2>. QED BY <1>2, <2>2, <2>3, <2>4 DEF SameKey
<1>. QED BY <1>1, <1>2

LEMMA ClaimStep ==
  ASSUME MailInv, NEW k \in Jobs, NEW todo \in job[k].todo, Claim(k, todo)
  PROVE  MailInv'
<1>. DEFINE left == job[k].todo \ {todo}
            n == mails + 1
            r == [job[k] EXCEPT !.step = "sending", !.todo = left, !.reader = todo.reader,
                                !.mine = todo.mine, !.mail = n]
            new == Claimed(k, todo)
<1>1. /\ job[k] \in MailJob /\ job[k].step = "loop" /\ job[k].mail = 0 /\ left \subseteq TodoType
      /\ todo \in TodoType /\ n \in Nat /\ n > mails /\ n > 0 /\ mails \in Nat
  BY JobTypes DEF Claim, MailInv, NumbersInv, Busy
<1>2. /\ JobGoes(k, r) /\ IsNew(new) /\ claims' = claims \cup new /\ mails' = n
      /\ UNCHANGED <<today, snapshot, changes, watcher, accepted, cut>>
  BY DEF Claim
<1>3. /\ \A c \in new : c.mail = n /\ c.kind = job[k].kind /\ c.reader = todo.reader
      /\ \A c, d \in new : SameKey(c, d) => c = d
      /\ IF job[k].kind = "digest" THEN \E c \in new : c.about = Week(job[k].now)
         ELSE \A x \in todo.mine : \E c \in new : c.about = x
  BY <1>1, ClaimedRows
<1>. HIDE DEF left, n, new
<1>4. r \in MailJob
  BY <1>1 DEF MailJob, TodoType
<1>5. /\ r.step = "sending" /\ r.mail = n /\ r.kind = job[k].kind /\ r.reader = todo.reader
      /\ r.mine = todo.mine /\ r.now = job[k].now
  BY <1>1 DEF MailJob
<1>. HIDE DEF r
<1>6. job' \in [Jobs -> MailJob] /\ job'[k] = r /\ \A l \in Jobs : l # k => job'[l] = job[l]
  BY <1>2, <1>4, JobTypes DEF JobGoes
<1>7. MailTypes'
  BY <1>1, <1>2, <1>6 DEF MailInv, MailTypes
<1>8. NumbersInv'
  <2>1. \A c \in claims' : c.mail \in Nat /\ c.mail > 0 /\ c.mail <= n
    BY <1>1, <1>2, <1>3 DEF MailInv, NumbersInv
  <2>2. \A l \in Jobs : (job'[l].mail # 0 <=> Busy(l)') /\ job'[l].mail <= n
    BY <1>1, <1>5, <1>6, JobTypes DEF MailInv, NumbersInv, Busy
  <2>3. \A m \in accepted : m.mail \in Nat /\ m.mail > 0 /\ m.mail <= n /\ m.mail # n
    BY <1>1 DEF MailInv, NumbersInv
  <2>4. \A l \in Jobs : l # k => job'[l].mail # n
    BY <1>1, <1>6, JobTypes DEF MailInv, NumbersInv
  <2>5. \A l, j \in Jobs : job'[l].mail = job'[j].mail /\ Busy(l)' => l = j
    BY <1>5, <1>6, <2>4 DEF MailInv, NumbersInv, Busy
  <2>6. \A l \in Jobs, m \in accepted : m.mail # job'[l].mail
    BY <1>5, <1>6, <2>3 DEF MailInv, NumbersInv
  <2>. QED BY <1>2, <2>1, <2>2, <2>3, <2>5, <2>6 DEF NumbersInv
<1>9. KeysInv'
  <2>1. \A c, d \in claims' : SameKey(c, d) => c = d
    BY <1>2, <1>3 DEF IsNew, SameKey, MailInv, KeysInv
  <2>2. \A m : Says(m) => Says(m)'
    BY <1>2 DEF Says
  <2>3. \A m \in accepted : Says(m)'
    BY <2>2 DEF MailInv, KeysInv
  <2>4. ASSUME NEW l \in Jobs, job'[l].step = "sending" PROVE Says(TheMail(l))'
    <3>1. CASE l = k
      BY <1>2, <1>3, <1>5, <1>6, <3>1 DEF Says, TheMail
    <3>2. CASE l # k
      <4>1. Says(TheMail(l)) /\ TheMail(l)' = TheMail(l)
        BY <1>6, <2>4, <3>2 DEF MailInv, KeysInv, TheMail
      <4>. QED BY <2>2, <4>1
    <3>. QED BY <3>1, <3>2
  <2>. QED BY <1>2, <2>1, <2>3, <2>4 DEF KeysInv
<1>10. ClaimsAreMailed'
  <2>1. \A l \in Jobs : job[l].mail = job'[l].mail \/ job[l].mail = 0
    BY <1>1, <1>6
  <2>2. \A c \in claims : c.mail # 0
    BY DEF MailInv, NumbersInv
  <2>3. ASSUME NEW c \in claims'
        PROVE  \/ \E m \in accepted : m.mail = c.mail
               \/ \E l \in Jobs : job'[l].mail = c.mail
               \/ c.mail \in cut
    <3>1. CASE c \in new
      BY <1>3, <1>5, <1>6, <3>1
    <3>2. CASE c \in claims
      BY <2>1, <2>2, <3>2 DEF MailInv, ClaimsAreMailed
    <3>. QED BY <1>2, <3>1, <3>2
  <2>. QED BY <1>2, <2>3 DEF ClaimsAreMailed
<1>. QED BY <1>7, <1>8, <1>9, <1>10 DEF MailInv

LEMMA LoopingType ==
  ASSUME MailInv, NEW k \in Jobs
  PROVE  Looping(k) \in MailJob /\ Looping(k).step = "loop" /\ Looping(k).mail = 0
<1>1. job[k] \in MailJob
  BY JobTypes
<1>2. Looping(k) \in MailJob
  BY <1>1 DEF Looping, MailJob
<1>. QED BY <1>1, <1>2 DEF Looping, MailJob

LEMMA SendStep ==
  ASSUME MailInv, NEW k \in Jobs, Send(k)
  PROVE  MailInv'
<1>. DEFINE r == Looping(k)
            m == TheMail(k)
<1>1. /\ job[k].step = "sending" /\ JobGoes(k, r) /\ accepted' = accepted \cup {m}
      /\ UNCHANGED <<today, snapshot, changes, watcher, claims, mails, cut>>
  BY DEF Send
<1>2. r \in MailJob /\ r.step = "loop" /\ r.mail = 0
  BY LoopingType
<1>3. m.mail = job[k].mail /\ m.mail \in Nat /\ m.mail # 0 /\ m.mail <= mails /\ Says(m)
  BY <1>1, JobTypes DEF TheMail, MailInv, NumbersInv, KeysInv, Busy
<1>. HIDE DEF r, m
<1>4. job' \in [Jobs -> MailJob] /\ job'[k] = r /\ \A l \in Jobs : l # k => job'[l] = job[l]
  BY <1>1, <1>2, JobTypes DEF JobGoes
<1>5. MailTypes'
  BY <1>1, <1>4 DEF MailInv, MailTypes
<1>6. NumbersInv'
  <2>1. \A l \in Jobs : (job'[l].mail # 0 <=> Busy(l)') /\ job'[l].mail <= mails
    BY <1>2, <1>4, JobTypes DEF MailInv, NumbersInv, Busy
  <2>2. \A x \in accepted' : x.mail \in Nat /\ x.mail > 0 /\ x.mail <= mails
    BY <1>1, <1>3 DEF MailInv, NumbersInv
  <2>3. \A l \in Jobs : Busy(l)' => l # k /\ job'[l] = job[l] /\ Busy(l)
    BY <1>2, <1>4 DEF Busy
  <2>4. \A l, j \in Jobs : job'[l].mail = job'[j].mail /\ Busy(l)' => l = j
    <3>1. \A j \in Jobs : Busy(j) => job[j].mail # 0
      BY DEF MailInv, NumbersInv
    <3>2. ASSUME NEW l \in Jobs, NEW j \in Jobs, job'[l].mail = job'[j].mail, Busy(l)'
          PROVE  l = j
      <4>1. job'[j].mail # 0
        BY <2>3, <3>1, <3>2
      <4>2. j # k /\ job'[j] = job[j]
        BY <1>2, <1>4, <4>1
      <4>. QED BY <2>3, <3>2, <4>2 DEF MailInv, NumbersInv
    <3>. QED BY <3>2
  <2>5. \A l \in Jobs : job'[l].mail # m.mail
    <3>1. \A l \in Jobs : l # k => job[l].mail # job[k].mail
      BY <1>1 DEF MailInv, NumbersInv, Busy
    <3>. QED BY <1>2, <1>3, <1>4, <3>1
  <2>6. \A l \in Jobs, x \in accepted' : x.mail # job'[l].mail
    BY <1>1, <1>2, <1>4, <2>5 DEF MailInv, NumbersInv
  <2>7. \A c \in claims' : c.mail \in Nat /\ c.mail > 0 /\ c.mail <= mails'
    BY <1>1 DEF MailInv, NumbersInv
  <2>. QED BY <1>1, <2>1, <2>2, <2>4, <2>6, <2>7 DEF NumbersInv
<1>7. KeysInv'
  <2>1. \A x : Says(x) => Says(x)'
    BY <1>1 DEF Says
  <2>2. \A x \in accepted' : Says(x)'
    BY <1>1, <1>3, <2>1 DEF MailInv, KeysInv
  <2>3. ASSUME NEW l \in Jobs, job'[l].step = "sending" PROVE Says(TheMail(l))'
    <3>1. l # k
      BY <1>2, <1>4, <2>3
    <3>2. Says(TheMail(l)) /\ TheMail(l)' = TheMail(l)
      BY <1>4, <2>3, <3>1 DEF MailInv, KeysInv, TheMail
    <3>. QED BY <2>1, <3>2
  <2>. QED BY <1>1, <2>2, <2>3 DEF MailInv, KeysInv, SameKey
<1>8. ClaimsAreMailed'
  BY <1>1, <1>3, <1>4 DEF MailInv, ClaimsAreMailed
<1>. QED BY <1>5, <1>6, <1>7, <1>8 DEF MailInv

LEMMA SendFailsStep ==
  ASSUME MailInv, NEW k \in Jobs, SendFails(k)
  PROVE  MailInv'
<1>. DEFINE r == [job[k] EXCEPT !.step = "failed"]
<1>1. /\ job[k].step = "sending" /\ JobGoes(k, r) /\ job[k] \in MailJob
      /\ UNCHANGED <<today, snapshot, changes, watcher, claims, mails, accepted, cut>>
  BY JobTypes DEF SendFails
<1>2. r \in MailJob
  BY <1>1 DEF MailJob
<1>3. r.step = "failed" /\ r.mail = job[k].mail
  BY <1>1 DEF MailJob
<1>. HIDE DEF r
<1>4. job' \in [Jobs -> MailJob] /\ job'[k] = r /\ \A l \in Jobs : l # k => job'[l] = job[l]
  BY <1>1, <1>2, JobTypes DEF JobGoes
<1>5. MailTypes'
  BY <1>1, <1>4 DEF MailInv, MailTypes
<1>6. \A l \in Jobs : job'[l].mail = job[l].mail /\ (Busy(l)' <=> Busy(l))
  BY <1>1, <1>3, <1>4 DEF Busy
<1>7. \A l \in Jobs : job'[l].step = "sending" => job'[l] = job[l]
  BY <1>3, <1>4
<1>8. NumbersInv'
  BY <1>1, <1>6 DEF MailInv, NumbersInv
<1>9. KeysInv'
  BY <1>1, <1>7 DEF MailInv, KeysInv, Says, TheMail, SameKey
<1>10. ClaimsAreMailed'
  BY <1>1, <1>6 DEF MailInv, ClaimsAreMailed
<1>. QED BY <1>5, <1>8, <1>9, <1>10 DEF MailInv

\* The claims of a mail that failed are released; no other mail has its number.
LEMMA ReleaseStep ==
  ASSUME MailInv, NEW k \in Jobs, Release(k)
  PROVE  MailInv'
<1>. DEFINE r == Looping(k)
            n == job[k].mail
<1>1. /\ job[k].step = "failed" /\ JobGoes(k, r) /\ claims' = {c \in claims : c.mail # n}
      /\ UNCHANGED <<today, snapshot, changes, watcher, mails, accepted, cut>>
  BY DEF Release
<1>2. r \in MailJob /\ r.step = "loop" /\ r.mail = 0
  BY LoopingType
<1>3. n # 0 /\ (\A m \in accepted : m.mail # n) /\ (\A l \in Jobs : l # k => job[l].mail # n)
  BY <1>1 DEF MailInv, NumbersInv, Busy
<1>. HIDE DEF r
<1>4. job' \in [Jobs -> MailJob] /\ job'[k] = r /\ \A l \in Jobs : l # k => job'[l] = job[l]
  BY <1>1, <1>2, JobTypes DEF JobGoes
<1>5. MailTypes'
  BY <1>1, <1>4 DEF MailInv, MailTypes
<1>6. NumbersInv'
  <2>1. \A l \in Jobs : (job'[l].mail # 0 <=> Busy(l)') /\ job'[l].mail <= mails
    BY <1>2, <1>4, JobTypes DEF MailInv, NumbersInv, Busy
  <2>2. \A l, j \in Jobs : job'[l].mail = job'[j].mail /\ Busy(l)' => l = j
    <3>1. ASSUME NEW l \in Jobs, NEW j \in Jobs, job'[l].mail = job'[j].mail, Busy(l)'
          PROVE  l = j
      <4>1. l # k /\ Busy(l) /\ job'[l] = job[l] /\ job[l].mail # 0
        BY <1>2, <1>4, <3>1 DEF Busy, MailInv, NumbersInv
      <4>2. j # k /\ job'[j] = job[j]
        BY <1>2, <1>4, <3>1, <4>1
      <4>. QED BY <3>1, <4>1, <4>2 DEF MailInv, NumbersInv
    <3>. QED BY <3>1
  <2>3. \A l \in Jobs, x \in accepted : x.mail # job'[l].mail
    BY <1>2, <1>4 DEF MailInv, NumbersInv
  <2>. QED BY <1>1, <2>1, <2>2, <2>3 DEF MailInv, NumbersInv
<1>7. KeysInv'
  <2>1. \A m : Says(m) /\ m.mail # n => Says(m)'
    BY <1>1 DEF Says
  <2>2. \A m \in accepted : Says(m)'
    BY <1>3, <2>1 DEF MailInv, KeysInv
  <2>3. ASSUME NEW l \in Jobs, job'[l].step = "sending" PROVE Says(TheMail(l))'
    <3>1. l # k
      BY <1>2, <1>4, <2>3
    <3>2. Says(TheMail(l)) /\ TheMail(l)' = TheMail(l) /\ TheMail(l).mail # n
      BY <1>3, <1>4, <2>3, <3>1 DEF MailInv, KeysInv, TheMail
    <3>. QED BY <2>1, <3>2
  <2>. QED BY <1>1, <2>2, <2>3 DEF MailInv, KeysInv, SameKey
<1>8. ClaimsAreMailed'
  <2>1. ASSUME NEW c \in claims'
        PROVE  \/ \E m \in accepted : m.mail = c.mail
               \/ \E l \in Jobs : job'[l].mail = c.mail
               \/ c.mail \in cut
    <3>1. c \in claims /\ c.mail # n
      BY <1>1
    <3>. QED BY <1>4, <3>1 DEF MailInv, ClaimsAreMailed
  <2>. QED BY <1>1, <2>1 DEF ClaimsAreMailed
<1>. QED BY <1>5, <1>6, <1>7, <1>8 DEF MailInv

LEMMA EndJobStep ==
  ASSUME MailInv, NEW k \in Jobs, EndJob(k)
  PROVE  MailInv'
<1>. DEFINE n == job[k].mail
<1>1. /\ JobGoes(k, Off) /\ cut' = IF n = 0 THEN cut ELSE cut \cup {n}
      /\ UNCHANGED <<today, snapshot, changes, watcher, claims, mails, accepted>>
  BY DEF EndJob
<1>2. /\ job' \in [Jobs -> MailJob] /\ job'[k] = Off
      /\ \A l \in Jobs : l # k => job'[l] = job[l]
  BY <1>1, OffType, JobTypes DEF JobGoes
<1>3. MailTypes'
  BY <1>1, <1>2 DEF MailInv, MailTypes
<1>4. NumbersInv'
  <2>1. \A l \in Jobs : (job'[l].mail # 0 <=> Busy(l)') /\ job'[l].mail <= mails
    BY <1>2, OffType, JobTypes DEF MailInv, NumbersInv, Busy
  <2>2. \A l, j \in Jobs : job'[l].mail = job'[j].mail /\ Busy(l)' => l = j
    <3>1. ASSUME NEW l \in Jobs, NEW j \in Jobs, job'[l].mail = job'[j].mail, Busy(l)'
          PROVE  l = j
      <4>1. l # k /\ Busy(l) /\ job'[l] = job[l] /\ job[l].mail # 0
        BY <1>2, <3>1, OffType DEF Busy, MailInv, NumbersInv
      <4>2. j # k /\ job'[j] = job[j]
        BY <1>2, <3>1, <4>1, OffType
      <4>. QED BY <3>1, <4>1, <4>2 DEF MailInv, NumbersInv
    <3>. QED BY <3>1
  <2>3. \A l \in Jobs, x \in accepted : x.mail # job'[l].mail
    BY <1>2, OffType DEF MailInv, NumbersInv
  <2>. QED BY <1>1, <2>1, <2>2, <2>3 DEF MailInv, NumbersInv
<1>5. KeysInv'
  <2>1. \A l \in Jobs : job'[l].step = "sending" => job'[l] = job[l]
    BY <1>2, OffType
  <2>. QED BY <1>1, <2>1 DEF MailInv, KeysInv, Says, TheMail, SameKey
<1>6. ClaimsAreMailed'
  <2>1. \A c \in claims : c.mail # 0
    BY DEF MailInv, NumbersInv
  <2>2. ASSUME NEW c \in claims
        PROVE  \/ \E m \in accepted : m.mail = c.mail
               \/ \E l \in Jobs : job'[l].mail = c.mail
               \/ c.mail \in cut'
    BY <1>1, <1>2, <2>1 DEF MailInv, ClaimsAreMailed
  <2>. QED BY <1>1, <2>2 DEF ClaimsAreMailed
<1>. QED BY <1>3, <1>4, <1>5, <1>6 DEF MailInv

\* Neither the watcher nor a reader touches claims, jobs or mails.
LEMMA OthersStep ==
  ASSUME MailInv, MailTypes', UNCHANGED <<claims, job, mails, accepted, cut>>
  PROVE  MailInv'
BY DEF MailInv, NumbersInv, KeysInv, ClaimsAreMailed, Says, TheMail, SameKey, Busy

LEMMA FindEditedStep ==
  ASSUME MailInv, NEW p \in Pages, FindEdited(p)
  PROVE  MailInv'
<1>. DEFINE c == [page |-> p, text |-> snapshot[p] + 1, at |-> watcher.now]
<1>1. snapshot \in [Pages -> Nat] /\ watcher \in [now : Nat, left : SUBSET Pages]
  BY DEF MailInv, MailTypes
<1>2. c \in ChangeType
  BY <1>1 DEF ChangeType
<1>3. changes' = changes \/ changes' = changes \cup {c}
  BY DEF FindEdited
<1>. HIDE DEF c
<1>4. snapshot' \in [Pages -> Nat] /\ watcher' \in [now : Nat, left : SUBSET Pages]
  BY <1>1 DEF FindEdited, Checked
<1>5. changes' \subseteq ChangeType
  BY <1>2, <1>3 DEF MailInv, MailTypes
<1>6. MailTypes'
  BY <1>4, <1>5 DEF FindEdited, MailInv, MailTypes
<1>. QED BY <1>6, OthersStep DEF FindEdited

LEMMA OtherTypes ==
  ASSUME MailInv,
         \/ NextDay \/ StartWatcher \/ UNCHANGED mailVars
         \/ \E p \in Pages : FindSame(p) \/ FailPage(p)
         \/ \E r \in Readers, kind \in MailKinds : Choose(r, kind)
         \/ \E claim \in claims : Unsubscribe(claim)
  PROVE  MailInv'
<1>. USE DEF MailInv, MailTypes
<1>1. CASE NextDay
  BY <1>1, OthersStep DEF NextDay
<1>2. CASE StartWatcher
  BY <1>2, OthersStep DEF StartWatcher
<1>3. CASE UNCHANGED mailVars
  BY <1>3, OthersStep DEF mailVars
<1>4. ASSUME NEW p \in Pages, FindSame(p) \/ FailPage(p) PROVE MailInv'
  <2>1. watcher' \in [now : Nat, left : SUBSET Pages]
    BY <1>4 DEF FindSame, FailPage, Checked
  <2>. QED BY <1>4, <2>1, OthersStep DEF FindSame, FailPage
<1>5. ASSUME NEW r, NEW kind, Choose(r, kind) PROVE MailInv'
  BY <1>5, OthersStep DEF Choose
<1>6. ASSUME NEW claim, Unsubscribe(claim) PROVE MailInv'
  BY <1>6, OthersStep DEF Unsubscribe
<1>. QED BY <1>1, <1>2, <1>3, <1>4, <1>5, <1>6

LEMMA MailStarts == MailInit => MailInv
<1>. SUFFICES ASSUME MailInit PROVE MailInv
  OBVIOUS
<1>1. MailTypes
  BY OffType DEF MailInit, MailTypes, Asleep
<1>2. NumbersInv
  BY OffType DEF MailInit, NumbersInv, Busy
<1>3. KeysInv /\ ClaimsAreMailed
  BY OffType DEF MailInit, KeysInv, ClaimsAreMailed
<1>. QED BY <1>1, <1>2, <1>3 DEF MailInv

LEMMA MailStep == MailInv /\ [MailNext]_mailVars => MailInv'
<1>. SUFFICES ASSUME MailInv, [MailNext]_mailVars PROVE MailInv'
  OBVIOUS
<1>1. ASSUME NEW k \in Jobs, JobStep(k) PROVE MailInv'
  BY <1>1, ReadChangesStep, ReadReadersStep, SkipReaderStep, ClaimStep, SendStep, SendFailsStep,
     ReleaseStep, EndJobStep DEF JobStep
<1>. QED BY <1>1, FindEditedStep, OtherTypes DEF MailNext

LEMMA MailAlways == MailSpec => []MailInv
BY MailStarts, MailStep, PTL DEF MailSpec

(* No reader is told twice, whatever jobs overlap, fail or die: an accepted *)
(* mail keeps the claims of all it says, and claims are unique (digest.py,  *)
(* "mails no one twice"; alerts.py, "Never twice").                         *)
THEOREM NeverTwice == MailSpec => []MailedOnce
<1>1. MailInv => MailedOnce
  <2>. SUFFICES ASSUME MailInv, NEW m \in accepted, NEW n \in accepted,
                       m.mail # n.mail, m.reader = n.reader, m.kind = n.kind
                PROVE  IF m.kind = "digest" THEN m.week # n.week ELSE m.changes \cap n.changes = {}
    BY DEF MailedOnce
  <2>1. Says(m) /\ Says(n) /\ \A c, d \in claims : SameKey(c, d) => c = d
    BY DEF MailInv, KeysInv
  <2>2. CASE m.kind = "digest"
    BY <2>1, <2>2 DEF Says, SameKey
  <2>3. CASE m.kind # "digest"
    BY <2>1, <2>3 DEF Says, SameKey
  <2>. QED BY <2>2, <2>3
<1>. QED BY <1>1, MailAlways, PTL

(* No claim is kept for a mail that was not sent: it is of an accepted      *)
(* mail, of one a job is sending, or of one whose job died (alerts.py:      *)
(* "never keep a claim for mail not sent").                                 *)
THEOREM ClaimsNotLost == MailSpec => []ClaimsAreMailed
BY MailAlways, PTL DEF MailInv

\* A change was found by now, and a claim is a reader's.
DaysInv ==
  /\ today \in 0 .. MaxDays /\ mails \in 0 .. MaxMails
  /\ \A p \in Pages : snapshot[p] \in 0 .. MaxTexts
  /\ \A c \in changes : c.at <= today
  /\ watcher.now <= today
  /\ wants \in [Readers -> SUBSET MailKinds]
  /\ \A c \in claims : c.kind \in MailKinds /\ c.reader \in Readers

LEMMA DaysStep ==
  ASSUME MailInv, DaysInv, [MailNext]_mailVars
  PROVE  DaysInv'
<1>0. /\ today \in Nat /\ snapshot \in [Pages -> Nat] /\ changes \subseteq ChangeType
      /\ watcher \in [now : Nat, left : SUBSET Pages] /\ mails \in Nat
      /\ MaxDays \in Nat /\ MaxMails \in Nat /\ MaxTexts \in Nat
  BY DaysAssumption DEF MailInv, MailTypes
<1>1. ASSUME NEW k \in Jobs, JobStep(k) PROVE DaysInv'
  <2>1. UNCHANGED <<today, snapshot, changes, watcher, wants>>
    BY <1>1 DEF JobStep, ReadChanges, ReadReaders, SkipReader, Claim, Send, SendFails, Release, EndJob
  <2>2. ASSUME NEW todo \in job[k].todo, Claim(k, todo)
        PROVE  mails' \in 0 .. MaxMails /\ \A c \in claims' : c.kind \in MailKinds /\ c.reader \in Readers
    <3>1. job[k].kind \in MailKinds /\ todo.reader \in Readers
      BY JobTypes DEF MailJob, TodoType
    <3>2. \A c \in Claimed(k, todo) : c.kind = job[k].kind /\ c.reader = todo.reader
      BY DEF Claimed
    <3>3. claims' = claims \cup Claimed(k, todo) /\ mails' = mails + 1 /\ mails < MaxMails
      BY <2>2 DEF Claim
    <3>. QED BY <1>0, <3>1, <3>2, <3>3 DEF DaysInv
  <2>3. CASE mails' = mails /\ claims' \subseteq claims
    BY <2>1, <2>3 DEF DaysInv
  <2>4. (\E todo \in job[k].todo : Claim(k, todo)) \/ (mails' = mails /\ claims' \subseteq claims)
    BY <1>1 DEF JobStep, ReadChanges, ReadReaders, SkipReader, Send, SendFails, Release, EndJob
  <2>. QED BY <2>1, <2>2, <2>3, <2>4 DEF DaysInv
<1>2. CASE NextDay
  BY <1>0, <1>2 DEF NextDay, DaysInv, ChangeType
<1>3. CASE StartWatcher
  BY <1>0, <1>3 DEF StartWatcher, DaysInv
<1>4. ASSUME NEW p \in Pages, FindEdited(p) PROVE DaysInv'
  <2>1. watcher'.now = watcher.now /\ UNCHANGED <<today, wants, claims, mails>>
    BY <1>0, <1>4 DEF FindEdited, Checked
  <2>2. \A q \in Pages : snapshot'[q] \in 0 .. MaxTexts
    BY <1>0, <1>4 DEF FindEdited, DaysInv
  <2>3. \A c \in changes' : c \in changes \/ c.at = watcher.now
    BY <1>4 DEF FindEdited
  <2>. QED BY <2>1, <2>2, <2>3 DEF DaysInv
<1>5. ASSUME NEW p \in Pages, FindSame(p) \/ FailPage(p) PROVE DaysInv'
  <2>1. watcher'.now = watcher.now
    BY <1>0, <1>5 DEF FindSame, FailPage, Checked
  <2>. QED BY <1>5, <2>1 DEF FindSame, FailPage, DaysInv
<1>6. ASSUME NEW r \in Readers, NEW kind \in MailKinds, Choose(r, kind) PROVE DaysInv'
  <2>1. wants' \in [Readers -> SUBSET MailKinds]
    BY <1>6 DEF Choose, DaysInv
  <2>. QED BY <1>6, <2>1 DEF Choose, DaysInv
<1>7. ASSUME NEW claim \in claims, Unsubscribe(claim) PROVE DaysInv'
  <2>1. wants' \in [Readers -> SUBSET MailKinds]
    BY <1>7 DEF Unsubscribe, DaysInv
  <2>. QED BY <1>7, <2>1 DEF Unsubscribe, DaysInv
<1>8. CASE UNCHANGED mailVars
  BY <1>8 DEF mailVars, DaysInv
<1>. QED BY <1>1, <1>2, <1>3, <1>4, <1>5, <1>6, <1>7, <1>8 DEF MailNext

(* The types of pages, changes, claims and jobs (digest.py, alerts.py).     *)
THEOREM MailTyped == MailSpec => []MailTypeOK
<1>1. MailInit => DaysInv
  BY DaysAssumption DEF MailInit, DaysInv, Asleep
<1>2. MailInv /\ DaysInv => MailTypeOK
  <2>. SUFFICES ASSUME MailInv, DaysInv PROVE MailTypeOK
    OBVIOUS
  <2>1. \A c \in claims : c.mail \in 1 .. mails
    BY DEF MailInv, MailTypes, NumbersInv
  <2>2. \A k \in Jobs : job[k].step \in {"off", "read", "loop", "sending", "failed"}
    BY JobTypes DEF MailJob
  <2>3. ClaimsAreMailed /\ watcher.left \subseteq Pages /\ \A c \in changes : c.page \in Pages
    BY DEF MailInv, MailTypes, ChangeType
  <2>. QED BY <2>1, <2>2, <2>3 DEF DaysInv, MailTypeOK
<1>. QED BY <1>1, <1>2, MailAlways, DaysStep, PTL DEF MailSpec

----------------------------------------------------------------------------
(* ChatClient.                                                             *)

BubbleType ==
  [from : Ways \cup {"answer", "error", "notice"}, prompt : Prompts \cup {Blank}, at : Nat]

RequestType ==
  [prompt : Prompts \cup {Blank}, at : Nat, awaits : Nat,
   step : {"asked", "creating", "failed", "done"}]

EnteringType == [prompt : Prompts, existing : BOOLEAN, carried : BOOLEAN]

\* Bubble j asks the last question of the first n bubbles of t.
LastAsked(t, n, j) ==
  j \in 1 .. n /\ t[j].from \in Ways /\ \A k \in 1 .. n : t[k].from \in Ways => k <= j

\* A reply to q, asked in epoch at, may follow the first n bubbles of t in
\* epoch e: q is there, and no other question that passed the gate is the last.
ReadyFor(t, n, e, q, at) ==
  /\ at = e => \E j \in 1 .. n : t[j].from \in Ways /\ t[j].prompt = q
  /\ \A j : LastAsked(t, n, j) => t[j].prompt = q \/ t[j].from \in {"suggested", "stored"}

\* The replies among the bubbles t stand where they may.
Stand(t, e) ==
  \A i \in DOMAIN t : t[i].from \in {"answer", "error"} =>
    ReadyFor(t, i, e, t[i].prompt, t[i].at)

\* Whatever is awaited could be answered now: so its answer can be appended.
ClientInv ==
  /\ epoch \in Nat /\ promise \in Nat
  /\ transcript \in Seq(BubbleType) /\ requests \in Seq(RequestType)
  /\ entering \in Seq(EnteringType)
  /\ \A i \in DOMAIN requests :
       /\ requests[i].at <= epoch
       /\ requests[i].step = "done" => requests[i].awaits = 0
       /\ requests[i].step # "done" =>
            ReadyFor(transcript, Len(transcript), epoch, requests[i].prompt, requests[i].at)
  /\ Stand(transcript, epoch)

LEMMA OneMore ==
  ASSUME NEW B, NEW s \in Seq(B), NEW b \in B
  PROVE  /\ Append(s, b) \in Seq(B) /\ DOMAIN Append(s, b) = 1 .. Len(s) + 1
         /\ DOMAIN s = 1 .. Len(s) /\ Len(s) \in Nat /\ \A i \in DOMAIN s : s[i] \in B
         /\ \A i \in DOMAIN s : Append(s, b)[i] = s[i]
         /\ Append(s, b)[Len(s) + 1] = b
         /\ Len(Append(s, b)) = Len(s) + 1
OBVIOUS

LEMMA TwoMore ==
  ASSUME NEW B, NEW s \in Seq(B), NEW b \in B, NEW c \in B
  PROVE  s \o <<b, c>> = Append(Append(s, b), c)
<1>. DEFINE t == s \o <<b, c>>
            u == Append(Append(s, b), c)
<1>1. t \in Seq(B) /\ Len(t) = Len(s) + 2 /\ \A i \in 1 .. Len(t) :
         t[i] = IF i <= Len(s) THEN s[i] ELSE <<b, c>>[i - Len(s)]
  <2>1. <<b, c>> \in Seq(B) /\ Len(<<b, c>>) = 2
    OBVIOUS
  <2>. HIDE DEF t
  <2>. QED BY <2>1, ConcatProperties DEF t
<1>2. u \in Seq(B) /\ Len(u) = Len(s) + 2
      /\ \A i \in 1 .. Len(u) : u[i] = IF i <= Len(s) THEN s[i] ELSE IF i = Len(s) + 1 THEN b ELSE c
  OBVIOUS
<1>3. \A i \in 1 .. Len(t) : t[i] = u[i]
  <2>1. Len(s) \in Nat /\ <<b, c>>[1] = b /\ <<b, c>>[2] = c
    OBVIOUS
  <2>2. \A i \in 1 .. Len(s) + 2 : i <= Len(s) \/ i - Len(s) = 1 \/ i - Len(s) = 2
    BY <2>1
  <2>. HIDE DEF t, u
  <2>. QED BY <1>1, <1>2, <2>1, <2>2
<1>. HIDE DEF t, u
<1>4. t = u
  BY <1>1, <1>2, <1>3, SeqEqual
<1>. QED BY <1>4 DEF t, u

\* The property, as one of the bubbles.
LEMMA StandIs ==
  ASSUME transcript \in Seq(BubbleType), Stand(transcript, epoch)
  PROVE  GateKeepsQuestionsApart
<1>. SUFFICES ASSUME NEW i \in DOMAIN transcript, transcript[i].from \in {"answer", "error"}
              PROVE  /\ transcript[i].at = epoch =>
                          \E j \in Above(i) : transcript[j].prompt = transcript[i].prompt
                     /\ \A j \in Above(i) :
                          (\A k \in Above(i) : k <= j) =>
                             \/ transcript[j].prompt = transcript[i].prompt
                             \/ transcript[j].from \in {"suggested", "stored"}
  BY DEF GateKeepsQuestionsApart
<1>1. ReadyFor(transcript, i, epoch, transcript[i].prompt, transcript[i].at)
  BY DEF Stand
<1>2. \A j : (j \in Above(i) /\ \A k \in Above(i) : k <= j) => LastAsked(transcript, i, j)
  BY DEF Above, LastAsked
<1>. QED BY <1>1, <1>2 DEF ReadyFor, Above

LEMMA SaidType ==
  ASSUME epoch \in Nat, NEW q \in Prompts \cup {Blank},
         NEW from \in Ways \cup {"answer", "error", "notice"}
  PROVE  /\ Said(from, q) \in BubbleType
         /\ Said(from, q).from = from /\ Said(from, q).prompt = q /\ Said(from, q).at = epoch
BY DEF Said, BubbleType

\* Where a reply may stand depends on the bubbles above only.
LEMMA ReadyAbove ==
  ASSUME NEW t, NEW u, NEW n \in Nat, \A k \in 1 .. n : u[k] = t[k],
         NEW e, NEW q, NEW at
  PROVE  ReadyFor(t, n, e, q, at) => ReadyFor(u, n, e, q, at)
<1>1. \A j : LastAsked(u, n, j) => LastAsked(t, n, j)
  BY DEF LastAsked
<1>. QED BY <1>1 DEF ReadyFor, LastAsked

\* A bubble at the end leaves the replies above it where they stand.
LEMMA StandAbove ==
  ASSUME NEW t \in Seq(BubbleType), NEW e \in Nat, Stand(t, e), NEW b \in BubbleType,
         b.from \in {"answer", "error"} =>
           ReadyFor(Append(t, b), Len(t) + 1, e, b.prompt, b.at)
  PROVE  Stand(Append(t, b), e)
<1>. DEFINE u == Append(t, b)
<1>1. /\ DOMAIN u = 1 .. Len(t) + 1 /\ DOMAIN t = 1 .. Len(t)
      /\ Len(t) \in Nat /\ \A i \in DOMAIN t : u[i] = t[i]
      /\ u[Len(t) + 1] = b
  BY OneMore
<1>2. b.from \in {"answer", "error"} => ReadyFor(u, Len(t) + 1, e, b.prompt, b.at)
  OBVIOUS
<1>. HIDE DEF u
<1>3. ASSUME NEW i \in DOMAIN u, u[i].from \in {"answer", "error"}
      PROVE  ReadyFor(u, i, e, u[i].prompt, u[i].at)
  <2>1. CASE i \in DOMAIN t
    <3>1. i \in Nat /\ u[i] = t[i] /\ \A k \in 1 .. i : u[k] = t[k]
      BY <1>1, <2>1
    <3>2. ReadyFor(t, i, e, t[i].prompt, t[i].at)
      BY <1>3, <2>1, <3>1 DEF Stand
    <3>. QED BY <3>1, <3>2, ReadyAbove
  <2>2. CASE i = Len(t) + 1
    BY <1>1, <1>2, <1>3, <2>2
  <2>. QED BY <1>1, <2>1, <2>2
<1>4. Stand(u, e)
  BY <1>3 DEF Stand
<1>. QED BY <1>4 DEF u

\* A question is asked: it is the last, and may be answered.  If it was a
\* suggestion, so may be what is awaited already.
LEMMA ReaderSays ==
  ASSUME NEW t \in Seq(BubbleType), NEW e \in Nat, Stand(t, e),
         NEW b \in BubbleType, b.from \in Ways
  PROVE  /\ Stand(Append(t, b), e)
         /\ \A at : ReadyFor(Append(t, b), Len(t) + 1, e, b.prompt, at)
         /\ \A q, at : b.from = "suggested" /\ ReadyFor(t, Len(t), e, q, at) =>
              ReadyFor(Append(t, b), Len(t) + 1, e, q, at)
<1>. DEFINE u == Append(t, b)
            n == Len(t) + 1
<1>0. Stand(u, e)
  <2>1. b.from \notin {"answer", "error"}
    BY DEF Ways
  <2>. QED BY <2>1, StandAbove
<1>1. /\ n \in Nat /\ Len(t) \in Nat /\ \A i \in 1 .. Len(t) : u[i] = t[i]
      /\ u[n] = b /\ n \in 1 .. n /\ 1 .. Len(t) \subseteq 1 .. n
      /\ \A i \in 1 .. n : i <= n
  BY OneMore
<1>. HIDE DEF u, n
<1>2. \A j : LastAsked(u, n, j) => j = n
  BY <1>1 DEF LastAsked
<1>3. \A at : ReadyFor(u, n, e, b.prompt, at)
  BY <1>1, <1>2 DEF ReadyFor
<1>4. ASSUME NEW q, NEW at, b.from = "suggested", ReadyFor(t, Len(t), e, q, at)
      PROVE  ReadyFor(u, n, e, q, at)
  BY <1>1, <1>2, <1>4 DEF ReadyFor
<1>. QED BY <1>0, <1>3, <1>4 DEF u, n

\* A bubble that asks nothing leaves what may be answered; one that replies to
\* it stands where it may.
LEMMA OthersSay ==
  ASSUME NEW t \in Seq(BubbleType), NEW e \in Nat, Stand(t, e),
         NEW b \in BubbleType, b.from \notin Ways,
         b.from \in {"answer", "error"} => ReadyFor(t, Len(t), e, b.prompt, b.at)
  PROVE  /\ Stand(Append(t, b), e)
         /\ \A q, at : ReadyFor(t, Len(t), e, q, at) =>
              ReadyFor(Append(t, b), Len(t) + 1, e, q, at)
<1>. DEFINE u == Append(t, b)
            n == Len(t) + 1
<1>1. /\ n \in Nat /\ Len(t) \in Nat /\ \A i \in 1 .. Len(t) : u[i] = t[i]
      /\ u[n] = b /\ 1 .. Len(t) \subseteq 1 .. n
      /\ \A i \in 1 .. n : i \in 1 .. Len(t) \/ i = n
  BY OneMore
<1>. HIDE DEF u, n
<1>2. ASSUME NEW j, LastAsked(u, n, j) PROVE LastAsked(t, Len(t), j) /\ u[j] = t[j]
  <2>1. j \in 1 .. Len(t)
    BY <1>1, <1>2 DEF LastAsked
  <2>. QED BY <1>1, <1>2, <2>1 DEF LastAsked
<1>3. ASSUME NEW q, NEW at, ReadyFor(t, Len(t), e, q, at) PROVE ReadyFor(u, n, e, q, at)
  BY <1>1, <1>2, <1>3 DEF ReadyFor
<1>4. b.from \in {"answer", "error"} => ReadyFor(u, n, e, b.prompt, b.at)
  BY <1>3
<1>5. Stand(u, e)
  BY <1>4, StandAbove DEF u, n
<1>. QED BY <1>3, <1>5 DEF u, n

\* A canned reply comes with its question.
LEMMA BothSay ==
  ASSUME NEW t \in Seq(BubbleType), NEW e \in Nat, Stand(t, e),
         NEW b \in BubbleType, NEW c \in BubbleType,
         b.from \in Ways, c.from = "answer", c.prompt = b.prompt
  PROVE  /\ t \o <<b, c>> \in Seq(BubbleType) /\ Stand(t \o <<b, c>>, e)
         /\ \A q, at : b.from = "suggested" /\ ReadyFor(t, Len(t), e, q, at) =>
              ReadyFor(t \o <<b, c>>, Len(t \o <<b, c>>), e, q, at)
<1>. DEFINE u == Append(t, b)
<1>1. t \o <<b, c>> = Append(u, c) /\ u \in Seq(BubbleType) /\ Len(u) = Len(t) + 1
  BY TwoMore
<1>2. /\ Stand(u, e) /\ ReadyFor(u, Len(u), e, b.prompt, c.at)
      /\ \A q, at : b.from = "suggested" /\ ReadyFor(t, Len(t), e, q, at) =>
           ReadyFor(u, Len(u), e, q, at)
  BY <1>1, ReaderSays
<1>. HIDE DEF u
<1>3. c.from \notin Ways
  BY DEF Ways
<1>4. /\ Append(u, c) \in Seq(BubbleType) /\ Len(Append(u, c)) = Len(u) + 1
  BY <1>1, OneMore
<1>5. /\ Stand(Append(u, c), e)
      /\ \A q, at : ReadyFor(u, Len(u), e, q, at) =>
           ReadyFor(Append(u, c), Len(u) + 1, e, q, at)
  BY <1>1, <1>2, <1>3, OthersSay
<1>. QED BY <1>1, <1>2, <1>4, <1>5

LEMMA StartType ==
  ASSUME ClientInv, NEW q \in Prompts, StartRequest(q)
  PROVE  promise' \in Nat /\ \E r \in RequestType : /\ requests' = Append(requests, r) /\ r.step # "done"
                                /\ r.prompt = q /\ r.at = epoch
<1>. DEFINE owner == IF sessionId # Blank THEN 0 ELSE
                       IF promise = 0 THEN Len(requests) + 1 ELSE promise
            r == [prompt |-> q, at |-> epoch, awaits |-> owner,
                  step |-> IF owner = 0 THEN "asked" ELSE "creating"]
<1>1. owner \in Nat /\ epoch \in Nat
  BY DEF ClientInv
<1>2. requests' = Append(requests, r) /\ (promise' = promise \/ promise' = owner)
  BY DEF StartRequest
<1>. HIDE DEF owner
<1>3. r \in RequestType /\ r.step # "done" /\ r.prompt = q /\ r.at = epoch
  BY <1>1 DEF RequestType
<1>4. promise' \in Nat
  BY <1>1, <1>2 DEF ClientInv
<1>. HIDE DEF r
<1>. QED BY <1>2, <1>3, <1>4

\* The only place a question is sent from (send, routeQuestion, sendLive): past
\* the gate only when nothing is awaited.
LEMMA SendKeeps ==
  ASSUME ClientInv, NEW q \in Prompts, NEW existing, NEW way \in {"asked", "suggested"},
         InFlight = {} \/ way = "suggested", SendPrompt(q, existing, way),
         UNCHANGED epoch, entering' \in Seq(EnteringType)
  PROVE  ClientInv'
<1>. DEFINE b == Said(way, q)
            c == Said("answer", q)
<1>0. way \in Ways
  BY DEF Ways
<1>1. /\ b \in BubbleType /\ b.from = way /\ b.prompt = q /\ b.at = epoch
      /\ c \in BubbleType /\ c.from = "answer" /\ c.prompt = q /\ c.at = epoch
  BY <1>0, SaidType DEF ClientInv
<1>. HIDE DEF b, c
<1>2. CASE UNCHANGED sendVars
  BY <1>2 DEF sendVars, ClientInv
<1>6. transcript \in Seq(BubbleType) /\ epoch \in Nat /\ Stand(transcript, epoch)
  BY DEF ClientInv
<1>7. ASSUME NEW i \in DOMAIN requests, requests[i].step # "done"
      PROVE  /\ way = "suggested"
             /\ ReadyFor(transcript, Len(transcript), epoch, requests[i].prompt, requests[i].at)
  BY <1>7 DEF ClientInv, InFlight
<1>3. CASE transcript' = transcript \o <<b, c>> /\ UNCHANGED <<requests, promise>>
  <2>1. /\ transcript' \in Seq(BubbleType) /\ Stand(transcript', epoch)
        /\ \A p, at : way = "suggested" /\ ReadyFor(transcript, Len(transcript), epoch, p, at) =>
             ReadyFor(transcript', Len(transcript'), epoch, p, at)
    BY <1>0, <1>1, <1>3, <1>6, BothSay
  <2>. QED BY <1>3, <1>7, <2>1 DEF ClientInv
<1>4. CASE transcript' = Append(transcript, b) /\ StartRequest(q)
  <2>1. /\ Stand(transcript', epoch)
        /\ \A at : ReadyFor(transcript', Len(transcript) + 1, epoch, q, at)
        /\ \A p, at : way = "suggested" /\ ReadyFor(transcript, Len(transcript), epoch, p, at) =>
             ReadyFor(transcript', Len(transcript) + 1, epoch, p, at)
    BY <1>0, <1>1, <1>4, <1>6, ReaderSays
  <2>5. transcript' \in Seq(BubbleType) /\ Len(transcript') = Len(transcript) + 1
    BY <1>1, <1>4, <1>6, OneMore
  <2>0. promise' \in Nat
    BY <1>4, StartType
  <2>2. PICK r \in RequestType : /\ requests' = Append(requests, r) /\ r.step # "done"
                                 /\ r.prompt = q /\ r.at = epoch
    BY <1>4, StartType
  <2>3. /\ requests' \in Seq(RequestType) /\ DOMAIN requests' = 1 .. Len(requests) + 1
        /\ DOMAIN requests = 1 .. Len(requests) /\ Len(requests) \in Nat
        /\ \A i \in DOMAIN requests : requests'[i] = requests[i]
        /\ requests'[Len(requests) + 1] = r
    BY <2>2, OneMore DEF ClientInv
  <2>4. ASSUME NEW i \in DOMAIN requests'
        PROVE  /\ requests'[i].at <= epoch
               /\ requests'[i].step = "done" => requests'[i].awaits = 0
               /\ requests'[i].step # "done" =>
                    ReadyFor(transcript', Len(transcript'), epoch, requests'[i].prompt,
                             requests'[i].at)
    <3>1. CASE i \in DOMAIN requests
      <4>1. requests'[i] = requests[i]
        BY <2>3, <3>1
      <4>2. requests[i].at <= epoch /\ (requests[i].step = "done" => requests[i].awaits = 0)
        BY <3>1 DEF ClientInv
      <4>3. requests[i].step # "done" =>
              ReadyFor(transcript', Len(transcript) + 1, epoch, requests[i].prompt,
                       requests[i].at)
        BY <1>7, <2>1, <3>1
      <4>. QED BY <2>5, <4>1, <4>2, <4>3
    <3>2. CASE i = Len(requests) + 1
      <4>1. requests'[i] = r
        BY <2>3, <3>2
      <4>2. ReadyFor(transcript', Len(transcript'), epoch, r.prompt, r.at)
        BY <2>1, <2>2, <2>5
      <4>. QED BY <1>6, <2>2, <4>1, <4>2
    <3>. QED BY <2>3, <3>1, <3>2
  <2>. QED BY <1>6, <2>0, <2>1, <2>3, <2>4, <2>5 DEF ClientInv
<1>5. \/ UNCHANGED sendVars
      \/ transcript' = transcript \o <<b, c>> /\ UNCHANGED <<requests, promise>>
      \/ transcript' = Append(transcript, b) /\ StartRequest(q)
  BY DEF SendPrompt, Route, b, c
<1>. QED BY <1>2, <1>3, <1>4, <1>5

\* A request comes back: what it says may stand at the end, whichever
\* conversation is on the screen.
LEMMA ReplyKeeps ==
  ASSUME ClientInv, NEW i \in InFlight, NEW from \in {"answer", "error"},
         transcript' = Reply(i, from), requests' = [requests EXCEPT ![i] = Done],
         UNCHANGED <<epoch, entering>>, promise' \in Nat
  PROVE  ClientInv'
<1>. DEFINE b == [from |-> from, prompt |-> requests[i].prompt, at |-> requests[i].at]
<1>0. Done \in RequestType
  BY DEF Done, RequestType
<1>1. requests[i] \in RequestType /\ i \in DOMAIN requests /\ requests[i].step # "done"
  BY DEF ClientInv, InFlight
<1>2. /\ b \in BubbleType /\ b.from = from /\ b.prompt = requests[i].prompt
      /\ b.at = requests[i].at
  BY <1>1 DEF BubbleType, RequestType
<1>3. transcript' = Append(transcript, b)
  BY DEF Reply
<1>. HIDE DEF b
<1>4. /\ transcript' \in Seq(BubbleType) /\ Stand(transcript', epoch)
      /\ \A q, at : ReadyFor(transcript, Len(transcript), epoch, q, at) =>
           ReadyFor(transcript', Len(transcript'), epoch, q, at)
  <2>1. transcript \in Seq(BubbleType) /\ epoch \in Nat /\ Stand(transcript, epoch)
    BY DEF ClientInv
  <2>2. b.from \notin Ways
    BY <1>2 DEF Ways
  <2>3. ReadyFor(transcript, Len(transcript), epoch, b.prompt, b.at)
    BY <1>1, <1>2 DEF ClientInv
  <2>4. transcript' \in Seq(BubbleType) /\ Len(transcript') = Len(transcript) + 1
    BY <1>2, <1>3, <2>1, OneMore
  <2>. QED BY <1>2, <1>3, <2>1, <2>2, <2>3, <2>4, OthersSay
<1>5. /\ requests' \in Seq(RequestType) /\ DOMAIN requests' = DOMAIN requests
      /\ requests'[i] = Done /\ \A j \in DOMAIN requests : j # i => requests'[j] = requests[j]
  BY <1>0, <1>1 DEF ClientInv
<1>6. Done.step = "done" /\ Done.at = 0 /\ Done.awaits = 0
  BY DEF Done
<1>. QED BY <1>4, <1>5, <1>6 DEF ClientInv

\* The conversation is created or refused: its requests go on waiting.
LEMMA CreatedKeeps ==
  ASSUME ClientInv, NEW i \in InFlight, SessionCreated(i) PROVE ClientInv'
<1>1. PICK s \in {"asked", "failed"} :
        requests' = [j \in DOMAIN requests |->
             IF requests[j].awaits = i THEN [requests[j] EXCEPT !.step = s, !.awaits = 0]
             ELSE requests[j]]
  BY DEF SessionCreated
<1>2. UNCHANGED <<epoch, entering, transcript>> /\ promise' \in Nat
  <2>1. UNCHANGED <<epoch, entering, transcript>> /\ (promise' = promise \/ promise' = 0)
    BY DEF SessionCreated
  <2>. QED BY <2>1 DEF ClientInv
<1>3. /\ DOMAIN requests = 1 .. Len(requests) /\ Len(requests) \in Nat
      /\ \A j \in DOMAIN requests : requests[j] \in RequestType
      /\ i # 0
  BY DEF ClientInv, InFlight
<1>4. ASSUME NEW j \in DOMAIN requests
      PROVE  /\ requests'[j] \in RequestType
             /\ requests'[j].at = requests[j].at /\ requests'[j].prompt = requests[j].prompt
             /\ requests'[j].step = "done" => requests[j].step = "done" /\ requests'[j].awaits = 0
             /\ requests'[j].step # "done" => requests[j].step # "done"
  <2>. DEFINE r == [requests[j] EXCEPT !.step = s, !.awaits = 0]
  <2>1. r \in RequestType
    BY <1>3 DEF RequestType
  <2>2. r.at = requests[j].at /\ r.prompt = requests[j].prompt /\ r.step = s
    BY <1>3 DEF RequestType
  <2>3. requests'[j] = IF requests[j].awaits = i THEN r ELSE requests[j]
    BY <1>1
  <2>. HIDE DEF r
  <2>4. requests[j].step = "done" => requests[j].awaits = 0
    BY DEF ClientInv
  <2>. QED BY <1>3, <2>1, <2>2, <2>3, <2>4
<1>5. DOMAIN requests' = DOMAIN requests
  BY <1>1
<1>6. requests' \in Seq(RequestType)
  <2>1. requests' \in [1 .. Len(requests) -> RequestType]
    BY <1>1, <1>3, <1>4, <1>5
  <2>. QED BY <1>3, <2>1
<1>. QED BY <1>2, <1>4, <1>5, <1>6 DEF ClientInv

\* Another conversation replaces the one on the screen: what is awaited was
\* asked in an older one, and its last question is a stored one.
LEMMA ResumedKeeps == ASSUME ClientInv, Resumed PROVE ClientInv'
<1>1. /\ transcript' \in StoredTurns /\ epoch' = epoch + 1 /\ UNCHANGED <<requests, entering, promise>>
      /\ epoch \in Nat
  BY DEF Resumed, ClientInv
<1>2. PICK e \in Nat : e = epoch + 1
  BY <1>1
<1>3. /\ transcript' \in Seq(BubbleType) /\ Stand(transcript', e)
      /\ \A j \in DOMAIN transcript' : transcript'[j].from \in Ways => transcript'[j].from = "stored"
  <2>1. CASE transcript' = <<>>
    BY <2>1 DEF Stand
  <2>2. ASSUME NEW q \in Prompts,
               transcript' = <<[from |-> "stored", prompt |-> q, at |-> epoch + 1],
                               [from |-> "answer", prompt |-> q, at |-> epoch + 1]>>
        PROVE  /\ transcript' \in Seq(BubbleType) /\ Stand(transcript', e)
               /\ \A j \in DOMAIN transcript' :
                    transcript'[j].from \in Ways => transcript'[j].from = "stored"
    <3>1. PICK b, c : /\ b = [from |-> "stored", prompt |-> q, at |-> e]
                      /\ c = [from |-> "answer", prompt |-> q, at |-> e]
      OBVIOUS
    <3>2. /\ b \in BubbleType /\ b.from = "stored" /\ b.prompt = q
          /\ c \in BubbleType /\ c.from = "answer" /\ c.prompt = q
      BY <3>1 DEF BubbleType, Ways
    <3>3. transcript' = <<b, c>>
      BY <1>2, <2>2, <3>1
    <3>4. <<>> \in Seq(BubbleType) /\ Stand(<<>>, e) /\ b.from \in Ways
      BY <3>2 DEF Stand, Ways
    <3>5. /\ <<>> \o <<b, c>> \in Seq(BubbleType) /\ Stand(<<>> \o <<b, c>>, e)
      BY <3>2, <3>4, BothSay
    <3>6. <<b, c>> \in Seq(BubbleType)
      BY <3>2
    <3>7. <<>> \o <<b, c>> = <<b, c>>
      BY <3>6, ConcatEmptySeq
    <3>8. \A j \in DOMAIN <<b, c>> : <<b, c>>[j] = b \/ <<b, c>>[j] = c
      OBVIOUS
    <3>9. \A j \in DOMAIN transcript' : transcript'[j].from \in {"stored", "answer"}
      BY <3>2, <3>3, <3>8
    <3>. QED BY <3>3, <3>5, <3>7, <3>9 DEF Ways
  <2>. QED BY <1>1, <2>1, <2>2 DEF StoredTurns
<1>4. \A i \in DOMAIN requests : requests[i].at <= e /\ requests[i].at # e
  <2>0. \A i \in DOMAIN requests : requests[i] \in RequestType /\ requests[i].at <= epoch
    BY DEF ClientInv
  <2>1. \A i \in DOMAIN requests : requests[i].at \in Nat /\ requests[i].at <= epoch
    BY <2>0 DEF RequestType
  <2>. QED BY <1>1, <1>2, <2>1
<1>5. ASSUME NEW q, NEW at, at # e
      PROVE  ReadyFor(transcript', Len(transcript'), e, q, at)
  <2>1. DOMAIN transcript' = 1 .. Len(transcript')
    BY <1>3
  <2>2. \A j : LastAsked(transcript', Len(transcript'), j) => transcript'[j].from = "stored"
    BY <1>3, <2>1 DEF LastAsked
  <2>. QED BY <1>5, <2>2 DEF ReadyFor
<1>. QED BY <1>1, <1>2, <1>3, <1>4, <1>5 DEF ClientInv

LEMMA EnterKeeps ==
  ASSUME ClientInv, NEW q \in Prompts \cup {Blank}, NEW carry \in BOOLEAN, NEW hero,
         EnterChat(q, carry, hero)
  PROVE  ClientInv'
<1>. DEFINE carried == carry /\ shown.chatInput = Blank /\ shown.heroInput # Blank
            e == [prompt |-> q, existing |-> Existing(q), carried |-> carried]
<1>1. UNCHANGED <<transcript, epoch, requests, promise>>
  BY DEF EnterChat
<1>2. \/ entering' = entering
      \/ q # Blank /\ entering' = Append(entering, e)
  <2>1. CASE q = Blank \/ InFlight # {}
    BY <2>1 DEF EnterChat
  <2>2. CASE q # Blank /\ InFlight = {}
    BY <2>2 DEF EnterChat
  <2>. QED BY <2>1, <2>2
<1>3. entering \in Seq(EnteringType)
  BY DEF ClientInv
<1>4. q # Blank => e \in EnteringType
  <2>1. carried \in BOOLEAN
    OBVIOUS
  <2>2. Existing(q) \in BOOLEAN
    BY DEF Existing
  <2>3. q # Blank => q \in Prompts
    OBVIOUS
  <2>. HIDE DEF carried
  <2>. QED BY <2>1, <2>2, <2>3 DEF EnteringType
<1>5. entering' \in Seq(EnteringType)
  <2>. HIDE DEF e
  <2>. QED BY <1>2, <1>3, <1>4, OneMore
<1>. QED BY <1>1, <1>5 DEF ClientInv

\* The timer holds a question.
LEMMA EnteringHead ==
  ASSUME ClientInv, Entered
  PROVE  /\ entering' \in Seq(EnteringType) /\ Head(entering) \in EnteringType
         /\ Head(entering).prompt \in Prompts
<1>1. entering # <<>> /\ entering \in Seq(EnteringType) /\ entering' = Tail(entering)
  BY DEF Entered, ClientInv
<1>2. entering' \in Seq(EnteringType) /\ Head(entering) \in EnteringType
  BY <1>1
<1>. QED BY <1>2 DEF EnteringType

LEMMA EnteredKeeps == ASSUME ClientInv, Entered PROVE ClientInv'
<1>1. entering' \in Seq(EnteringType) /\ Head(entering).prompt \in Prompts /\ UNCHANGED epoch
  BY EnteringHead DEF Entered
<1>2. CASE InFlight # {}
  <2>1. UNCHANGED sendVars
    BY <1>2 DEF Entered
  <2>. QED BY <1>1, <2>1 DEF sendVars, ClientInv
<1>3. CASE InFlight = {}
  <2>1. SendPrompt(Head(entering).prompt, Head(entering).existing, "asked")
    BY <1>3 DEF Entered
  <2>. QED BY <1>1, <1>3, <2>1, SendKeeps
<1>. QED BY <1>2, <1>3

\* The rest of the page leaves what is said and awaited alone.
LEMMA PageKeeps ==
  ASSUME ClientInv, UNCHANGED <<epoch, transcript, requests, entering, promise>>
  PROVE  ClientInv'
BY DEF ClientInv

LEMMA ClientInit_Inv == ClientInit => ClientInv
BY DEF ClientInit, ClientInv, Stand

LEMMA ClientStep_Inv == ClientInv /\ [ClientNext]_clientVars => ClientInv'
<1>. SUFFICES ASSUME ClientInv, [ClientNext]_clientVars PROVE ClientInv'
  OBVIOUS
<1>1. CASE SubmitChat
  <2>1. shown.chatInput \in Prompts /\ UNCHANGED <<epoch, entering>>
    BY <1>1 DEF SubmitChat
  <2>2. CASE InFlight # {}
    <3>1. UNCHANGED sendVars
      BY <1>1, <2>2 DEF SubmitChat
    <3>. QED BY <2>1, <3>1, PageKeeps DEF sendVars
  <2>3. CASE InFlight = {}
    <3>1. SendPrompt(shown.chatInput, Existing(shown.chatInput), "asked")
      BY <1>1, <2>3 DEF SubmitChat
    <3>2. entering' \in Seq(EnteringType)
      BY <2>1 DEF ClientInv
    <3>. QED BY <2>1, <2>3, <3>1, <3>2, SendKeeps
  <2>. QED BY <2>2, <2>3
<1>2. CASE AskHero
  <2>1. EnterChat(shown.heroInput, FALSE, Blank) /\ shown.heroInput \in Prompts \cup {Blank}
    BY <1>2 DEF AskHero
  <2>. QED BY <2>1, EnterKeeps
<1>3. CASE Entered
  BY <1>3, EnteredKeeps
<1>4. ASSUME NEW q \in Prompts, PickSuggestion(q) PROVE ClientInv'
  <2>1. SendPrompt(q, FALSE, "suggested") /\ UNCHANGED <<epoch, entering>>
    BY <1>4 DEF PickSuggestion
  <2>2. entering' \in Seq(EnteringType)
    BY <2>1 DEF ClientInv
  <2>. QED BY <2>1, <2>2, SendKeeps
<1>5. ASSUME NEW q \in Prompts \cup {Blank}, PickOnLanding(q) PROVE ClientInv'
  BY <1>5, EnterKeeps DEF PickOnLanding
<1>6. ASSUME NEW i \in InFlight, SessionCreated(i) PROVE ClientInv'
  BY <1>6, CreatedKeeps
<1>7. ASSUME NEW i \in InFlight, AnswerArrives(i) PROVE ClientInv'
  <2>1. /\ transcript' = Reply(i, "answer") /\ requests' = [requests EXCEPT ![i] = Done]
        /\ UNCHANGED <<epoch, entering>> /\ promise' \in Nat
    BY <1>7 DEF AnswerArrives, EndRequest, ClientInv
  <2>. QED BY <2>1, ReplyKeeps
<1>8. ASSUME NEW i \in InFlight, NEW gone \in BOOLEAN, RequestFails(i, gone) PROVE ClientInv'
  <2>1. /\ transcript' = Reply(i, "error") /\ requests' = [requests EXCEPT ![i] = Done]
        /\ UNCHANGED <<epoch, entering>> /\ promise' \in Nat
    BY <1>8 DEF RequestFails, ErrorReply, EndRequest, ClientInv
  <2>. QED BY <2>1, ReplyKeeps
<1>9. ASSUME NEW c \in Past, Resume(c) PROVE ClientInv'
  BY <1>9, PageKeeps DEF Resume, sendVars
<1>10. CASE Resumed
  BY <1>10, ResumedKeeps
<1>11. CASE ResumeFails
  <2>. DEFINE b == Said("notice", Blank)
  <2>1. b \in BubbleType /\ b.from = "notice"
    BY SaidType DEF ClientInv
  <2>2. transcript' = Append(transcript, b) /\ UNCHANGED <<epoch, requests, entering, promise>>
    BY <1>11 DEF ResumeFails
  <2>. HIDE DEF b
  <2>3. transcript \in Seq(BubbleType) /\ epoch \in Nat /\ Stand(transcript, epoch)
    BY DEF ClientInv
  <2>4. transcript' \in Seq(BubbleType) /\ Len(transcript') = Len(transcript) + 1
    BY <2>1, <2>2, <2>3, OneMore
  <2>5. b.from \notin Ways
    BY <2>1 DEF Ways
  <2>6. /\ Stand(transcript', epoch)
        /\ \A q, at : ReadyFor(transcript, Len(transcript), epoch, q, at) =>
             ReadyFor(transcript', Len(transcript'), epoch, q, at)
    BY <2>1, <2>2, <2>3, <2>4, <2>5, OthersSay
  <2>. QED BY <2>2, <2>4, <2>6 DEF ClientInv
<1>12. ASSUME NEW text \in Texts, Type(text) PROVE ClientInv'
  BY <1>12, PageKeeps DEF Type, sendVars
<1>13. ASSUME NEW clear \in BOOLEAN, LeaveChat(clear) PROVE ClientInv'
  BY <1>13, PageKeeps DEF LeaveChat
<1>14. CASE IdentityChanges
  BY <1>14, PageKeeps DEF IdentityChanges, sendVars
<1>15. CASE UNCHANGED clientVars
  BY <1>15, PageKeeps DEF clientVars, sendVars
<1>. QED BY <1>1, <1>2, <1>3, <1>4, <1>5, <1>6, <1>7, <1>8, <1>9, <1>10, <1>11, <1>12, <1>13,
            <1>14, <1>15 DEF ClientNext, PageEvent

\* An answer or an error stands below its own question if that is of the
\* conversation on the screen, and no other question that passed the gate
\* (submitChat, enterChat and its timer) is nearer, for any questions, any
\* number of conversations resumed and however old the page a handler saw.  A
\* suggestion of an empty chat and the last question of a resumed conversation
\* pass no gate: either may be nearer, and the theorem does not exclude it.
THEOREM GateKeepsApart == ClientSpec => []GateKeepsQuestionsApart
<1>1. ClientInv => GateKeepsQuestionsApart
  BY StandIs DEF ClientInv
<1>. QED BY <1>1, ClientInit_Inv, ClientStep_Inv, PTL DEF ClientSpec

\* The page: what its boxes hold, what is resumed, and the conversations that
\* requests know.
BoxesInv ==
  /\ screen \in {"landing", "chat"} /\ chatInput \in Texts /\ heroInput \in Texts
  /\ resuming \in Past \cup {Blank}
  /\ epoch <= MaxResumes /\ (resuming # Blank => epoch < MaxResumes)
  /\ \A i \in DOMAIN transcript : transcript[i].at <= MaxResumes

SendsInv ==
  /\ \A i \in InFlight : requests[i].prompt \in Prompts
  /\ failed \subseteq Prompts
  /\ promise \in DOMAIN requests \cup {0}
  /\ sessionId \in Past \cup {Blank} \cup DOMAIN requests
  /\ refused => InFlight # {}

\* A question is sent: one more request, or none.
LEMMA SendMoves ==
  ASSUME ClientInv, BoxesInv, SendsInv, NEW q \in Prompts, NEW existing,
         NEW way \in {"asked", "suggested"}, SendPrompt(q, existing, way)
  PROVE  /\ \A i \in DOMAIN transcript' : transcript'[i].at <= MaxResumes
         /\ failed' \subseteq Prompts
         /\ promise' \in DOMAIN requests' \cup {0}
         /\ DOMAIN requests \subseteq DOMAIN requests'
         /\ \A i \in DOMAIN requests : requests'[i] = requests[i]
         /\ \A i \in DOMAIN requests' : i \in DOMAIN requests \/ requests'[i].prompt \in Prompts
<1>. DEFINE b == Said(way, q)
            c == Said("answer", q)
<1>0. way \in Ways
  BY DEF Ways
<1>1. b \in BubbleType /\ b.at = epoch /\ c \in BubbleType /\ c.at = epoch
  BY <1>0, SaidType DEF ClientInv
<1>2. /\ failed' \subseteq Prompts
      /\ transcript' \in {transcript, transcript \o <<b, c>>, Append(transcript, b)}
      /\ StartRequest(q) \/ UNCHANGED <<requests, promise>>
  BY DEF SendPrompt, Route, sendVars, SendsInv
<1>. HIDE DEF b, c
<1>3. \A i \in DOMAIN transcript' : transcript'[i].at <= MaxResumes
  <2>1. ASSUME NEW t \in Seq(BubbleType), \A i \in DOMAIN t : t[i].at <= MaxResumes,
               NEW d \in BubbleType, d.at = epoch
        PROVE  Append(t, d) \in Seq(BubbleType)
               /\ \A i \in DOMAIN Append(t, d) : Append(t, d)[i].at <= MaxResumes
    <3>. DEFINE u == Append(t, d)
    <3>1. /\ u \in Seq(BubbleType) /\ DOMAIN u = 1 .. Len(t) + 1 /\ DOMAIN t = 1 .. Len(t)
          /\ Len(t) \in Nat /\ \A i \in DOMAIN t : u[i] = t[i]
          /\ u[Len(t) + 1] = d
      BY OneMore
    <3>. HIDE DEF u
    <3>2. \A i \in DOMAIN u : u[i].at <= MaxResumes
      BY <2>1, <3>1 DEF BoxesInv
    <3>. QED BY <3>1, <3>2 DEF u
  <2>2. transcript \in Seq(BubbleType) /\ \A i \in DOMAIN transcript : transcript[i].at <= MaxResumes
    BY DEF ClientInv, BoxesInv
  <2>. DEFINE u == Append(transcript, b)
  <2>3. u \in Seq(BubbleType) /\ \A i \in DOMAIN u : u[i].at <= MaxResumes
    BY <1>1, <2>1, <2>2
  <2>4. transcript \o <<b, c>> = Append(u, c)
    BY <1>1, <2>2, TwoMore
  <2>. HIDE DEF u
  <2>5. \A i \in DOMAIN Append(u, c) : Append(u, c)[i].at <= MaxResumes
    BY <1>1, <2>1, <2>3
  <2>6. CASE transcript' = transcript \o <<b, c>>
    BY <2>4, <2>5, <2>6
  <2>7. CASE transcript' = Append(transcript, b)
    BY <2>3, <2>7 DEF u
  <2>. QED BY <1>2, <2>2, <2>6, <2>7
<1>4. CASE UNCHANGED <<requests, promise>>
  BY <1>2, <1>3, <1>4 DEF SendsInv
<1>5. CASE StartRequest(q)
  <2>1. PICK r \in RequestType : requests' = Append(requests, r) /\ r.prompt = q
    BY <1>5, StartType
  <2>2. /\ DOMAIN requests' = 1 .. Len(requests) + 1 /\ DOMAIN requests = 1 .. Len(requests)
        /\ Len(requests) \in Nat /\ \A i \in DOMAIN requests : requests'[i] = requests[i]
        /\ requests'[Len(requests) + 1] = r
    BY <2>1, OneMore DEF ClientInv
  <2>3. promise' \in {promise, 0, Len(requests) + 1}
    BY <1>5 DEF StartRequest
  <2>4. promise' \in DOMAIN requests' \cup {0}
    BY <2>2, <2>3 DEF SendsInv
  <2>5. \A i \in DOMAIN requests' : i \in DOMAIN requests \/ requests'[i].prompt \in Prompts
    BY <2>1, <2>2
  <2>. QED BY <1>2, <1>3, <2>2, <2>4, <2>5
<1>. QED BY <1>2, <1>4, <1>5

\* Nothing that was awaited is lost when questions are sent.
LEMMA SendsGrow ==
  ASSUME SendsInv,
         failed' \subseteq Prompts, promise' \in DOMAIN requests' \cup {0},
         DOMAIN requests \subseteq DOMAIN requests',
         \A i \in DOMAIN requests : requests'[i] = requests[i],
         \A i \in DOMAIN requests' : i \in DOMAIN requests \/ requests'[i].prompt \in Prompts,
         sessionId' = sessionId, refused' = refused \/ (refused' = TRUE /\ InFlight # {})
  PROVE  SendsInv'
<1>1. \A i \in InFlight : i \in InFlight'
  BY DEF InFlight
<1>2. \A i \in InFlight' : requests'[i].prompt \in Prompts
  BY DEF InFlight, SendsInv
<1>. QED BY <1>1, <1>2 DEF SendsInv

\* A request that came back is done; whoever was refused still waits for another.
LEMMA EndMoves ==
  ASSUME ClientInv, SendsInv, NEW i \in InFlight, EndRequest(i)
  PROVE  /\ DOMAIN requests' = DOMAIN requests
         /\ \A j \in InFlight' : j \in InFlight /\ requests'[j] = requests[j]
         /\ refused' => InFlight' # {}
<1>1. i \in DOMAIN requests /\ requests \in Seq(RequestType)
  BY DEF ClientInv, InFlight
<1>2. requests' = [requests EXCEPT ![i] = Done]
  BY DEF EndRequest
<1>3. /\ DOMAIN requests' = DOMAIN requests /\ requests'[i] = Done
      /\ \A j \in DOMAIN requests : j # i => requests'[j] = requests[j]
  BY <1>1, <1>2
<1>4. InFlight' = InFlight \ {i}
  BY <1>3 DEF InFlight, Done
<1>5. refused' => InFlight # {i}
  BY DEF EndRequest
<1>. QED BY <1>3, <1>4, <1>5 DEF SendsInv, InFlight, EndRequest

\* What an answer or an error adds to the transcript is of its request's time.
LEMMA ReplyAt ==
  ASSUME ClientInv, BoxesInv, NEW i \in InFlight, NEW from \in {"answer", "error"},
         transcript' = Reply(i, from)
  PROVE  \A j \in DOMAIN transcript' : transcript'[j].at <= MaxResumes
<1>. DEFINE b == [from |-> from, prompt |-> requests[i].prompt, at |-> requests[i].at]
<1>1. requests[i] \in RequestType /\ requests[i].at <= epoch
  BY DEF ClientInv, InFlight
<1>2. b \in BubbleType /\ b.at <= MaxResumes
  BY <1>1, ResumesAssumption DEF BubbleType, RequestType, BoxesInv, ClientInv
<1>3. transcript' = Append(transcript, b) /\ transcript \in Seq(BubbleType)
  BY DEF Reply, ClientInv
<1>. HIDE DEF b
<1>4. /\ DOMAIN transcript' = 1 .. Len(transcript) + 1
      /\ DOMAIN transcript = 1 .. Len(transcript) /\ Len(transcript) \in Nat
      /\ \A j \in DOMAIN transcript : transcript'[j] = transcript[j]
      /\ transcript'[Len(transcript) + 1] = b
  BY <1>2, <1>3, OneMore
<1>. QED BY <1>2, <1>4 DEF BoxesInv

\* The landing page parks a question in a box, or arms a timer for it.
LEMMA EnterBoxes ==
  ASSUME BoxesInv, SendsInv, shown \in PageType, NEW q \in Prompts \cup {Blank},
         NEW carry \in BOOLEAN, NEW hero \in Texts, EnterChat(q, carry, hero)
  PROVE  BoxesInv' /\ SendsInv'
<1>. DEFINE carried == carry /\ shown.chatInput = Blank /\ shown.heroInput # Blank
            box == IF carried THEN shown.heroInput ELSE chatInput
<1>0. shown.heroInput \in Texts
  BY DEF PageType
<1>1. box \in Texts /\ Park(q, carried, box) \in Texts /\ q \in Texts /\ Blank \in Texts
  BY <1>0 DEF BoxesInv, Park, Texts
<1>2. /\ screen' = "chat" /\ heroInput' \in {Blank, hero}
      /\ chatInput' \in {box, Park(q, carried, box)}
      /\ UNCHANGED <<transcript, epoch, refused, requests, failed, sessionId, promise, resuming>>
  BY DEF EnterChat
<1>. HIDE DEF carried, box
<1>. QED BY <1>1, <1>2 DEF BoxesInv, SendsInv, InFlight

LEMMA SentBoxes ==
  ASSUME ClientInv, BoxesInv, SendsInv, NEW q \in Prompts, NEW existing,
         NEW way \in {"asked", "suggested"}, SendPrompt(q, existing, way), chatInput' \in Texts,
         UNCHANGED <<screen, heroInput, resuming, epoch, sessionId, refused>>
  PROVE  BoxesInv' /\ SendsInv'
<1>. DEFINE moves ==
       /\ \A i \in DOMAIN transcript' : transcript'[i].at <= MaxResumes
       /\ failed' \subseteq Prompts
       /\ promise' \in DOMAIN requests' \cup {0}
       /\ DOMAIN requests \subseteq DOMAIN requests'
       /\ \A i \in DOMAIN requests : requests'[i] = requests[i]
       /\ \A i \in DOMAIN requests' : i \in DOMAIN requests \/ requests'[i].prompt \in Prompts
<1>1. moves
  BY SendMoves
<1>2. SendsInv'
  BY <1>1, SendsGrow
<1>. QED BY <1>1, <1>2 DEF BoxesInv

LEMMA BoxesInit == ClientInit => BoxesInv /\ SendsInv
BY ResumesAssumption DEF ClientInit, BoxesInv, SendsInv, Texts, InFlight

LEMMA BoxesStep ==
  ASSUME ClientInv, BoxesInv, SendsInv, shown \in PageType, [ClientNext]_clientVars
  PROVE  BoxesInv' /\ SendsInv'
<1>1. CASE SubmitChat
  <2>1. CASE InFlight # {}
    BY <1>1, <2>1 DEF SubmitChat, BoxesInv, SendsInv, sendVars, InFlight
  <2>2. CASE InFlight = {}
    <3>1. /\ SendPrompt(shown.chatInput, Existing(shown.chatInput), "asked")
          /\ shown.chatInput \in Prompts /\ chatInput' = Blank
          /\ UNCHANGED <<screen, heroInput, resuming, epoch, sessionId, refused>>
      BY <1>1, <2>2 DEF SubmitChat
    <3>. QED BY <3>1, SentBoxes DEF Texts
  <2>. QED BY <2>1, <2>2
<1>2. CASE AskHero
  <2>1. EnterChat(shown.heroInput, FALSE, Blank) /\ shown.heroInput \in Prompts
    BY <1>2 DEF AskHero
  <2>. QED BY <2>1, EnterBoxes DEF Texts
<1>3. CASE Entered
  <2>. DEFINE e == Head(entering)
  <2>1. e \in EnteringType /\ e.prompt \in Prompts
    BY <1>3, EnteringHead
  <2>2. CASE InFlight # {}
    <3>1. /\ chatInput' = Park(e.prompt, e.carried, chatInput)
          /\ UNCHANGED <<screen, heroInput, resuming, epoch, sessionId, refused, transcript,
                         requests, failed, promise>>
      BY <1>3, <2>2 DEF Entered, sendVars
    <3>2. chatInput' \in Texts
      BY <2>1, <3>1 DEF Park, Texts, BoxesInv
    <3>. QED BY <3>1, <3>2 DEF BoxesInv, SendsInv, InFlight
  <2>3. CASE InFlight = {}
    <3>1. /\ SendPrompt(e.prompt, e.existing, "asked") /\ UNCHANGED chatInput
          /\ UNCHANGED <<screen, heroInput, resuming, epoch, sessionId, refused>>
      BY <1>3, <2>3 DEF Entered
    <3>. QED BY <2>1, <3>1, SentBoxes DEF BoxesInv
  <2>. QED BY <2>2, <2>3
<1>4. ASSUME NEW q \in Prompts, PickSuggestion(q) PROVE BoxesInv' /\ SendsInv'
  <2>1. /\ SendPrompt(q, FALSE, "suggested") /\ UNCHANGED chatInput
        /\ UNCHANGED <<screen, heroInput, resuming, epoch, sessionId, refused>>
    BY <1>4 DEF PickSuggestion
  <2>. QED BY <2>1, SentBoxes DEF BoxesInv
<1>5. ASSUME NEW q \in Prompts \cup {Blank}, PickOnLanding(q) PROVE BoxesInv' /\ SendsInv'
  BY <1>5, EnterBoxes DEF PickOnLanding, BoxesInv
<1>6. ASSUME NEW i \in InFlight, SessionCreated(i) PROVE BoxesInv' /\ SendsInv'
  <2>1. /\ UNCHANGED <<epoch, refused, resuming, screen, chatInput, heroInput, transcript, failed>>
        /\ promise' \in {promise, 0} /\ sessionId' \in {sessionId, i}
    BY <1>6 DEF SessionCreated, composerVars
  <2>2. PICK s \in {"asked", "failed"} :
          requests' = [j \in DOMAIN requests |->
             IF requests[j].awaits = i THEN [requests[j] EXCEPT !.step = s, !.awaits = 0]
             ELSE requests[j]]
    BY <1>6 DEF SessionCreated
  <2>3. i # 0 /\ i \in DOMAIN requests /\ \A j \in DOMAIN requests : requests[j] \in RequestType
    BY DEF ClientInv, InFlight
  <2>4. ASSUME NEW j \in DOMAIN requests
        PROVE  /\ requests'[j].prompt = requests[j].prompt
               /\ (requests'[j].step = "done") <=> (requests[j].step = "done")
    <3>. DEFINE r == [requests[j] EXCEPT !.step = s, !.awaits = 0]
    <3>1. r.prompt = requests[j].prompt /\ r.step = s
      BY <2>3 DEF RequestType
    <3>2. requests'[j] = IF requests[j].awaits = i THEN r ELSE requests[j]
      BY <2>2
    <3>. HIDE DEF r
    <3>3. requests[j].step = "done" => requests[j].awaits # i
      BY <2>3 DEF ClientInv
    <3>. QED BY <3>1, <3>2, <3>3
  <2>5. DOMAIN requests' = DOMAIN requests
    BY <2>2
  <2>6. InFlight' = InFlight
    BY <2>4, <2>5 DEF InFlight
  <2>7. SendsInv'
    BY <2>1, <2>3, <2>4, <2>5, <2>6 DEF SendsInv, InFlight
  <2>. QED BY <2>1, <2>7 DEF BoxesInv
<1>7. ASSUME NEW i \in InFlight, NEW from \in {"answer", "error"},
             EndRequest(i), transcript' = Reply(i, from),
             failed' \in {failed \ {requests[i].prompt}, failed \cup {requests[i].prompt}},
             promise' \in {promise, 0}, sessionId' \in {sessionId, Blank},
             UNCHANGED <<epoch, resuming, screen, chatInput, heroInput>>
      PROVE  BoxesInv' /\ SendsInv'
  <2>1. BoxesInv'
    BY <1>7, ReplyAt DEF BoxesInv
  <2>2. /\ DOMAIN requests' = DOMAIN requests
        /\ \A j \in InFlight' : j \in InFlight /\ requests'[j] = requests[j]
        /\ refused' => InFlight' # {}
    BY <1>7, EndMoves
  <2>3. requests[i].prompt \in Prompts
    BY DEF SendsInv
  <2>. QED BY <1>7, <2>1, <2>2, <2>3 DEF SendsInv
<1>8. ASSUME NEW i \in InFlight,
             AnswerArrives(i) \/ \E gone \in BOOLEAN : RequestFails(i, gone)
      PROVE  BoxesInv' /\ SendsInv'
  <2>1. /\ EndRequest(i)
        /\ transcript' = Reply(i, "answer") \/ transcript' = Reply(i, "error")
        /\ failed' \in {failed \ {requests[i].prompt}, failed \cup {requests[i].prompt}}
        /\ promise' \in {promise, 0} /\ sessionId' \in {sessionId, Blank}
        /\ UNCHANGED <<epoch, resuming, screen, chatInput, heroInput>>
    BY <1>8 DEF AnswerArrives, RequestFails, ErrorReply, composerVars
  <2>. QED BY <1>7, <2>1
<1>9. ASSUME NEW c \in Past, Resume(c) PROVE BoxesInv' /\ SendsInv'
  BY <1>9 DEF Resume, composerVars, sendVars, BoxesInv, SendsInv, InFlight
<1>10. CASE Resumed
  <2>1. /\ epoch \in Nat /\ epoch < MaxResumes
        /\ transcript' \in StoredTurns /\ epoch' = epoch + 1 /\ sessionId' = resuming
        /\ resuming' = Blank /\ screen' = "chat"
        /\ UNCHANGED <<refused, chatInput, heroInput, requests, failed, promise>>
    BY <1>10 DEF Resumed, BoxesInv, ClientInv
  <2>2. \A t \in StoredTurns : \A i \in DOMAIN t : t[i].at = epoch + 1
    <3>1. \A a, b : DOMAIN <<a, b>> = {1, 2} /\ <<a, b>>[1] = a /\ <<a, b>>[2] = b
      OBVIOUS
    <3>2. ASSUME NEW t \in StoredTurns, NEW i \in DOMAIN t PROVE t[i].at = epoch + 1
      <4>1. DOMAIN <<>> = {}
        OBVIOUS
      <4>2. PICK q \in Prompts :
              t = <<[from |-> "stored", prompt |-> q, at |-> epoch + 1],
                    [from |-> "answer", prompt |-> q, at |-> epoch + 1]>>
        BY <3>2, <4>1 DEF StoredTurns
      <4>. QED BY <3>1, <3>2, <4>2
    <3>. QED BY <3>2
  <2>3. \A i \in DOMAIN transcript' : transcript'[i].at <= MaxResumes
    BY <2>1, <2>2, ResumesAssumption
  <2>. QED BY <2>1, <2>3, ResumesAssumption DEF BoxesInv, SendsInv, InFlight
<1>11. CASE ResumeFails
  <2>. DEFINE b == Said("notice", Blank)
  <2>1. b \in BubbleType /\ b.at = epoch
    BY SaidType DEF ClientInv
  <2>2. /\ transcript' = Append(transcript, b) /\ resuming' = Blank
        /\ UNCHANGED <<screen, chatInput, heroInput, epoch, refused, sessionId, requests, failed,
                       promise>>
    BY <1>11 DEF ResumeFails, composerVars
  <2>. HIDE DEF b
  <2>3. /\ DOMAIN transcript' = 1 .. Len(transcript) + 1
        /\ DOMAIN transcript = 1 .. Len(transcript) /\ Len(transcript) \in Nat
        /\ \A j \in DOMAIN transcript : transcript'[j] = transcript[j]
        /\ transcript'[Len(transcript) + 1] = b
    BY <2>1, <2>2, OneMore DEF ClientInv
  <2>4. \A j \in DOMAIN transcript' : transcript'[j].at <= MaxResumes
    BY <2>1, <2>3 DEF BoxesInv
  <2>. QED BY <2>2, <2>4 DEF BoxesInv, SendsInv, InFlight
<1>12. ASSUME NEW text \in Texts, Type(text) PROVE BoxesInv' /\ SendsInv'
  BY <1>12 DEF Type, sendVars, BoxesInv, SendsInv, InFlight
<1>13. ASSUME NEW clear \in BOOLEAN, LeaveChat(clear) PROVE BoxesInv' /\ SendsInv'
  BY <1>13 DEF LeaveChat, Texts, BoxesInv, SendsInv, InFlight
<1>14. CASE IdentityChanges
  BY <1>14 DEF IdentityChanges, composerVars, sendVars, BoxesInv, SendsInv, InFlight
<1>15. CASE UNCHANGED clientVars
  BY <1>15 DEF clientVars, composerVars, sendVars, BoxesInv, SendsInv, InFlight
<1>. QED BY <1>1, <1>2, <1>3, <1>4, <1>5, <1>6, <1>8, <1>9, <1>10, <1>11, <1>12, <1>13,
            <1>14, <1>15 DEF ClientNext, PageEvent

\* What the page shows has the types of what it holds.
LEMMA PageTyped == ASSUME ClientInv, BoxesInv PROVE Page \in PageType
<1>1. transcript \in Seq(BubbleType) /\ \A i \in DOMAIN transcript : transcript[i] \in BubbleType
  BY DEF ClientInv
<1>2. \A i \in DOMAIN transcript : transcript[i] \in Bubble
  BY <1>1, ResumesAssumption DEF BoxesInv, BubbleType, Bubble
<1>3. transcript \in Seq(Bubble)
  BY <1>1, <1>2
<1>. QED BY <1>3 DEF Page, PageType, BoxesInv

\* A handler sees the page as it is, or as it was.
ShownInv == shown \in PageType

PageInv == Page \in PageType

LEMMA ShownStep ==
  ASSUME ShownInv, PageInv', [ClientNext]_clientVars PROVE ShownInv'
<1>1. shown' \in {shown, Page'}
  BY DEF ClientNext, Render, clientVars
<1>. QED BY <1>1 DEF ShownInv, PageInv, PageType, Bubble, Texts

\* The types of the page: a refused question waits for another (submitChat,
\* refusedInFlight), and the conversation asked in is a past one, or one that a
\* request created (ensureSession).
THEOREM ClientTyped == ClientSpec => []ClientTypeOK
<1>1. ClientInv /\ BoxesInv => PageInv
  BY PageTyped DEF PageInv
<1>2. PageInv /\ ShownInv /\ SendsInv => ClientTypeOK
  BY DEF PageInv, ShownInv, SendsInv, ClientTypeOK
<1>3. ClientInit /\ PageInv => ShownInv
  BY DEF ClientInit, PageInv, ShownInv
<1>4. ClientInv /\ BoxesInv /\ SendsInv /\ ShownInv /\ [ClientNext]_clientVars =>
        BoxesInv' /\ SendsInv'
  BY BoxesStep DEF ShownInv
<1>5. ShownInv /\ PageInv' /\ [ClientNext]_clientVars => ShownInv'
  BY ShownStep
<1>. QED
  BY <1>1, <1>2, <1>3, <1>4, <1>5, ClientInit_Inv, ClientStep_Inv, BoxesInit, PTL DEF ClientSpec
=============================================================================
