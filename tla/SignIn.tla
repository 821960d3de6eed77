------------------------------- MODULE SignIn -------------------------------
(***************************************************************************)
(* Sessions and the ways to sign in (core/auth_sessions.py,                *)
(* api/routes/auth.py, api/routes/magic_link.py, api/routes/oauth.py): a   *)
(* visitor is an anonymous principal until it registers, logs in, redeems  *)
(* an emailed link or comes back from an identity provider; the chat       *)
(* history of the anonymous principal then goes to the account.            *)
(*                                                                         *)
(* Covered: requests of several tabs and browsers in any order, each with  *)
(* the cookie it was sent with; the reads before a row is written and the  *)
(* unique keys that decide a race; a link or a nonce that is claimed and   *)
(* then lost; a connect whose browser signs in as somebody else meanwhile; *)
(* logout, a changed password and expiry at any point.                     *)
(*                                                                         *)
(* Not covered: rate limits and bot checks (RequestGuards), mail delivery, *)
(* the deletion of accounts (AccountDeletion), which address is verified   *)
(* (Allowance), the stamp of a fresh sign-in that waives a password, and a *)
(* conversation created while its principal signs in.                      *)
(***************************************************************************)
EXTENDS Naturals, FiniteSets

CONSTANTS
  Users,       \* ids of registered accounts
  Addresses,      \* email addresses
  Identities,     \* accounts at GitHub or Google
  Browsers,
  Links,          \* emailed links
  Nonces,         \* flows at an identity provider
  Conversations,
  Tabs,           \* requests of the browsers in progress at once
  Nobody,
  MaxSessions,    \* bound: auth sessions ever made
  MaxRequests     \* bound: sign-ins, connects and password changes ever sent

ASSUME SignInAssumption ==
  /\ MaxSessions \in Nat /\ MaxRequests \in Nat
  /\ Users \cap (0 .. MaxSessions) = {}
  /\ Nobody \notin Users \cup Addresses \cup Identities \cup Links \cup (0 .. MaxSessions)

VARIABLES
  account,     \* users: the address and whether there is a password
  session,     \* auth_sessions
  minted,      \* number of sessions ever made
  sent,        \* number of requests ever sent
  cookie,      \* the session each browser's cookie names
  link,        \* magic_link_tokens
  nonce,       \* oauth_nonces
  identity,    \* user_identities
  owner,       \* sessions.user_id: whose a conversation is
  tab,         \* what each request is doing
  redeemed,    \* history: how often each link signed somebody in
  connected    \* history: identities a page was told it has connected, and to whom

signInVars == <<account, session, minted, sent, cookie, link, nonce, identity, owner, tab,
                redeemed, connected>>

\* An anonymous principal is as old as its first session, and named like it.
SessionIds == 1 .. MaxSessions

Principals == Users \cup SessionIds

IsRegistered(p) == p \in Users

NoAccount == [exists |-> FALSE, address |-> Nobody, password |-> FALSE]

Nonce(state, s, intent, starter) ==
  [state |-> state, session |-> s, intent |-> intent, starter |-> starter]

NewNonce == Nonce("new", 0, "login", Nobody)

GoneNonce == Nonce("gone", 0, "login", Nobody)

NewLink == [state |-> "new", account |-> Nobody]

GoneLink == [state |-> "gone", account |-> Nobody]

\* A request: the browser, the cookie it was sent with, the account it works for,
\* and what its kind needs further.
Closed == [step |-> "closed", browser |-> Nobody, cookie |-> 0, account |-> Nobody,
           creates |-> NoAccount, identity |-> Nobody, old |-> Nobody, nonce |-> NewNonce,
           link |-> Nobody]

Open(b, step) == [Closed EXCEPT !.step = step, !.browser = b, !.cookie = cookie[b]]

Lookup(c) == IF c \in SessionIds THEN session[c] ELSE Nobody

Principal(b) == Lookup(cookie[b])

\* A session takes the flows that were started under it with it.
WithoutNoncesOf(gone) ==
  [n \in Nonces |-> IF nonce[n].state = "live" /\ nonce[n].session \in gone
                    THEN GoneNonce ELSE nonce[n]]

Pending == {t \in Tabs : tab[t].step \in {"look", "signin"} /\ tab[t].creates.exists}

----------------------------------------------------------------------------
(* Visitors.                                                               *)

\* resolve_principal without a cookie that resolves: an anonymous principal.
Mint(b) ==
  /\ minted < MaxSessions
  /\ minted' = minted + 1
  /\ session' = [session EXCEPT ![minted'] = minted']
  /\ cookie' = [cookie EXCEPT ![b] = minted']

\* POST /v1/sessions, for whoever the cookie resolves to.
Converse(b, c) ==
  /\ owner[c] = Nobody
  /\ IF Principal(b) = Nobody THEN Mint(b) ELSE UNCHANGED <<session, minted, cookie>>
  /\ owner' = [owner EXCEPT ![c] = session'[cookie'[b]]]
  /\ UNCHANGED <<sent, account, link, nonce, identity, tab, redeemed, connected>>

Logout(b) ==
  /\ cookie' = [cookie EXCEPT ![b] = 0]
  /\ IF Principal(b) = Nobody THEN UNCHANGED <<session, nonce>>
     ELSE /\ session' = [session EXCEPT ![cookie[b]] = Nobody]
          /\ nonce' = WithoutNoncesOf({cookie[b]})
  /\ cookie[b] # 0
  /\ UNCHANGED <<sent, account, minted, link, identity, owner, tab, redeemed, connected>>

Expire(s) ==
  /\ session[s] # Nobody
  /\ session' = [session EXCEPT ![s] = Nobody]
  /\ nonce' = WithoutNoncesOf({s})
  /\ UNCHANGED <<sent, account, minted, cookie, link, identity, owner, tab, redeemed, connected>>

----------------------------------------------------------------------------
(* Passwords and links.                                                    *)

TabGoes(t, r) == tab' = [tab EXCEPT ![t] = r]

Sends(t, r) ==
  /\ tab[t].step = "closed" /\ sent < MaxRequests
  /\ sent' = sent + 1
  /\ TabGoes(t, r)

Taken(e) == e # Nobody /\ \E a \in Users : account[a].address = e

\* No account has the address yet; then the password is hashed.
Register(t, b, a, e) ==
  /\ ~ account[a].exists /\ ~ Taken(e)
  /\ Sends(t, [Open(b, "insert") EXCEPT
                !.account = a, !.creates = [exists |-> TRUE, address |-> e, password |-> TRUE]])
  /\ UNCHANGED <<account, session, minted, cookie, link, nonce, identity, owner, redeemed, connected>>

\* The password fits the account's.
Login(t, b, a) ==
  /\ account[a].exists /\ account[a].password
  /\ Sends(t, [Open(b, "look") EXCEPT !.account = a])
  /\ UNCHANGED <<account, session, minted, cookie, link, nonce, identity, owner, redeemed, connected>>

\* A new link replaces the account's earlier ones.
RequestLink(a, l) ==
  /\ account[a].address # Nobody /\ link[l].state = "new"
  /\ link' = [k \in Links |-> IF k = l THEN [state |-> "live", account |-> a]
                              ELSE IF link[k].account = a THEN GoneLink
                              ELSE link[k]]
  /\ UNCHANGED <<sent, account, session, minted, cookie, nonce, identity, owner, tab, redeemed, connected>>

\* Mutant: the link is read, and deleted only with what the sign-in commits.
ReadLink(t, b, l) ==
  /\ link[l].state = "live"
  /\ Sends(t, [Open(b, "look") EXCEPT !.account = link[l].account, !.link = l])
  /\ UNCHANGED <<account, session, minted, cookie, link, nonce, identity, owner, redeemed, connected>>

\* The link is deleted and the deletion committed before anything else is done.
ClaimLink(t, b, l) ==
  /\ link[l].state = "live"
  /\ link' = [link EXCEPT ![l] = GoneLink]
  /\ Sends(t, [Open(b, "look") EXCEPT !.account = link[l].account, !.link = l])
  /\ UNCHANGED <<account, session, minted, cookie, nonce, identity, owner, redeemed, connected>>

\* The current password fits, or is waived by the stamp, or there is none yet.
BeginPassword(t, b) ==
  /\ IsRegistered(Principal(b))
  /\ Sends(t, [Open(b, "password") EXCEPT !.account = Principal(b)])
  /\ UNCHANGED <<account, session, minted, cookie, link, nonce, identity, owner, redeemed, connected>>

\* Every other session of the account goes, and its links.
SetPassword(t) ==
  LET a == tab[t].account
      others == {s \in SessionIds \ {tab[t].cookie} : session[s] = a} IN
  /\ tab[t].step = "password"
  /\ account' = [account EXCEPT ![a].password = TRUE]
  /\ session' = [s \in SessionIds |-> IF s \in others THEN Nobody ELSE session[s]]
  /\ nonce' = WithoutNoncesOf(others)
  /\ link' = [l \in Links |-> IF link[l].account = a THEN GoneLink ELSE link[l]]
  /\ TabGoes(t, Closed)
  /\ UNCHANGED <<sent, minted, cookie, identity, owner, redeemed, connected>>

----------------------------------------------------------------------------
(* Identity providers.                                                     *)

\* The nonce is bound to the session of the browser, which a login may have to
\* make and a connect must have.
StartFlow(b, n, s, intent) ==
  nonce' = [nonce EXCEPT ![n] = Nonce("live", s, intent, session'[s])]

StartLogin(b, n) ==
  /\ nonce[n].state = "new"
  /\ IF Principal(b) = Nobody THEN Mint(b) ELSE UNCHANGED <<session, minted, cookie>>
  /\ StartFlow(b, n, cookie'[b], "login")
  /\ UNCHANGED <<sent, account, link, identity, owner, tab, redeemed, connected>>

StartConnect(b, n) ==
  /\ nonce[n].state = "new"
  /\ IsRegistered(Principal(b))
  /\ UNCHANGED session /\ StartFlow(b, n, cookie[b], "connect")
  /\ UNCHANGED <<sent, account, minted, cookie, link, identity, owner, tab, redeemed, connected>>

\* _claim_nonce: it counts once, and only for the session that is the browser's now.
Redeemable(n, b) == nonce[n].state = "live" /\ nonce[n].session = cookie[b]

\* The provider sends the browser back.
ClaimNonce(t, b, n) ==
  /\ Principal(b) # Nobody /\ Redeemable(n, b)
  /\ nonce' = [nonce EXCEPT ![n] = GoneNonce]
  /\ Sends(t, [Open(b, "provider") EXCEPT !.nonce = nonce[n]])
  /\ UNCHANGED <<account, session, minted, cookie, link, identity, owner, redeemed, connected>>

\* The visitor said no, the nonce expired, the provider failed, or the process died.
Lose(t) ==
  /\ tab[t].step # "closed"
  /\ TabGoes(t, Closed)
  /\ UNCHANGED <<sent, account, session, minted, cookie, link, nonce, identity, owner, redeemed, connected>>

\* Mutant: the account to connect to is that of the browser's cookie now.
ConnectTargetNow(t) == Principal(tab[t].browser)

ConnectTarget(t) == Lookup(tab[t].nonce.session)

Reports(t, success, i) ==
  connected' = IF success THEN connected \cup {[identity |-> i, to |-> tab[t].nonce.starter]}
               ELSE connected

\* A connect goes to the account of the session that started it, if that is still
\* there. The identity is that account's already, another's, or to be inserted.
Connect(t, i) ==
  LET target == ConnectTarget(t) IN
  /\ tab[t].step = "provider" /\ tab[t].nonce.intent = "connect"
  /\ TabGoes(t, IF IsRegistered(target) /\ identity[i] = Nobody
             THEN [tab[t] EXCEPT !.step = "connect", !.account = target, !.identity = i]
             ELSE Closed)
  /\ Reports(t, IsRegistered(target) /\ identity[i] = target, i)
  /\ UNCHANGED <<sent, account, session, minted, cookie, link, nonce, identity, owner, redeemed>>

\* The row is inserted and committed, unless another request was first: then the
\* winner's account decides. An insert waits for one of the same key in progress.
InsertIdentity(t) ==
  /\ tab[t].step = "connect"
  /\ \A u \in Pending : tab[u].identity # tab[t].identity
  /\ identity' = [identity EXCEPT ![tab[t].identity] = IF @ = Nobody THEN tab[t].account ELSE @]
  /\ Reports(t, identity'[tab[t].identity] = tab[t].account, tab[t].identity)
  /\ TabGoes(t, Closed)
  /\ UNCHANGED <<sent, account, session, minted, cookie, link, nonce, owner, redeemed>>

\* A login as an identity that is known, or with an account made for it, which
\* gets the address the provider has verified unless that is taken.
Identify(t, i, a, e) ==
  /\ tab[t].step = "provider" /\ tab[t].nonce.intent = "login"
  /\ \/ /\ identity[i] # Nobody /\ a = identity[i] /\ e = Nobody
        /\ TabGoes(t, [tab[t] EXCEPT !.step = "look", !.account = a])
     \/ /\ identity[i] = Nobody /\ ~ account[a].exists
        /\ TabGoes(t, [tab[t] EXCEPT
              !.step = "insert", !.account = a, !.identity = i,
              !.creates = [exists |-> TRUE, address |-> IF Taken(e) THEN Nobody ELSE e,
                           password |-> FALSE]])
  /\ UNCHANGED <<sent, account, session, minted, cookie, link, nonce, identity, owner, redeemed, connected>>

----------------------------------------------------------------------------
(* The end of every sign-in.                                               *)

\* The users row, and the identity's, are inserted in the request's transaction.
\* Who loses the race for a key signs in as the winner's account if there is one.
InsertAccount(t) ==
  LET new == tab[t].creates
      i == tab[t].identity IN
  /\ tab[t].step = "insert"
  /\ \A u \in Pending : /\ new.address = Nobody \/ tab[u].creates.address # new.address
                        /\ i = Nobody \/ tab[u].identity # i
                        /\ tab[u].account # tab[t].account
  /\ ~ account[tab[t].account].exists
  /\ IF ~ Taken(new.address) /\ (i = Nobody \/ identity[i] = Nobody)
     THEN TabGoes(t, [tab[t] EXCEPT !.step = "look"])
     ELSE IF i # Nobody /\ identity[i] # Nobody
     THEN TabGoes(t, [tab[t] EXCEPT !.step = "look", !.account = identity[i],
                                 !.creates = NoAccount, !.identity = Nobody])
     ELSE TabGoes(t, Closed)
  /\ UNCHANGED <<sent, account, session, minted, cookie, link, nonce, identity, owner, redeemed, connected>>

\* claim_and_login: the session the request's cookie names is read...
Look(t) ==
  /\ tab[t].step = "look"
  /\ TabGoes(t, [tab[t] EXCEPT !.step = "signin", !.old = Lookup(tab[t].cookie)])
  /\ UNCHANGED <<sent, account, session, minted, cookie, link, nonce, identity, owner, redeemed, connected>>

\* Mutant: the history of whoever was signed in is claimed.
ClaimsFromAnybody(t) == {c \in Conversations : tab[t].old # Nobody /\ owner[c] = tab[t].old}

ClaimedHistory(t) ==
  {c \in Conversations : owner[c] = tab[t].old /\ tab[t].old # Nobody /\ ~ IsRegistered(tab[t].old)}

\* ... its history, if it was anonymous, goes to the account; it is replaced by a
\* new session, and all of it is committed.
SignedIn(t) ==
  LET a == tab[t].account
      gone == IF tab[t].old = Nobody THEN {} ELSE {tab[t].cookie}
      claimed == ClaimedHistory(t) IN
  /\ tab[t].step = "signin" /\ minted < MaxSessions
  /\ account' = IF tab[t].creates.exists THEN [account EXCEPT ![a] = tab[t].creates] ELSE account
  /\ identity' = IF tab[t].creates.exists /\ tab[t].identity # Nobody
                 THEN [identity EXCEPT ![tab[t].identity] = a] ELSE identity
  /\ owner' = [c \in Conversations |-> IF c \in claimed THEN a ELSE owner[c]]
  /\ minted' = minted + 1
  /\ session' = [s \in SessionIds |->
        IF s = minted' THEN a
        ELSE IF s \in gone THEN Nobody ELSE session[s]]
  /\ nonce' = WithoutNoncesOf(gone)
  /\ cookie' = [cookie EXCEPT ![tab[t].browser] = minted']
  /\ redeemed' = IF tab[t].link = Nobody THEN redeemed
                 ELSE [redeemed EXCEPT ![tab[t].link] = @ + 1]
  /\ TabGoes(t, Closed)
  /\ UNCHANGED <<sent, link, connected>>

----------------------------------------------------------------------------
SignInInit ==
  /\ account = [a \in Users |-> NoAccount]
  /\ session = [s \in SessionIds |-> Nobody]
  /\ minted = 0 /\ sent = 0
  /\ cookie = [b \in Browsers |-> 0]
  /\ link = [l \in Links |-> NewLink]
  /\ nonce = [n \in Nonces |-> NewNonce]
  /\ identity = [i \in Identities |-> Nobody]
  /\ owner = [c \in Conversations |-> Nobody]
  /\ tab = [t \in Tabs |-> Closed]
  /\ redeemed = [l \in Links |-> 0]
  /\ connected = {}

BrowserStep(b) ==
  \/ Logout(b)
  \/ \E c \in Conversations : Converse(b, c)
  \/ \E n \in Nonces : StartLogin(b, n) \/ StartConnect(b, n)
  \/ \E t \in Tabs :
        \/ \E a \in Users : Login(t, b, a) \/ \E e \in Addresses : Register(t, b, a, e)
        \/ \E l \in Links : ClaimLink(t, b, l)
        \/ \E n \in Nonces : ClaimNonce(t, b, n)
        \/ BeginPassword(t, b)

TabStep(t) ==
  \/ SetPassword(t) \/ InsertAccount(t) \/ Look(t) \/ SignedIn(t) \/ Lose(t)
  \/ InsertIdentity(t)
  \/ \E i \in Identities :
        \/ Connect(t, i)
        \/ \E a \in Users, e \in Addresses \cup {Nobody} : Identify(t, i, a, e)

SignInNext ==
  \/ \E b \in Browsers : BrowserStep(b)
  \/ \E t \in Tabs : TabStep(t)
  \/ \E s \in SessionIds : Expire(s)
  \/ \E l \in Links, a \in Users : RequestLink(a, l)

SignInSpec == SignInInit /\ [][SignInNext]_signInVars

----------------------------------------------------------------------------
SignInTypeOK ==
  /\ \A a \in Users : account[a].address \in Addresses \cup {Nobody}
  /\ \A s \in SessionIds : session[s] \in Principals \cup {Nobody}
  /\ minted \in 0 .. MaxSessions /\ sent \in 0 .. MaxRequests
  /\ \A b \in Browsers : cookie[b] \in 0 .. minted
  /\ \A l \in Links : link[l].state \in {"new", "live", "gone"}
  /\ \A n \in Nonces : nonce[n].session \in 0 .. minted
  /\ \A i \in Identities : identity[i] \in Users \cup {Nobody}
  /\ \A c \in Conversations : owner[c] \in Principals \cup {Nobody}
  /\ \A t \in Tabs : tab[t].step \in {"closed", "insert", "look", "signin", "password",
                                      "provider", "connect"}

(* A link signs somebody in once, however many tabs, retries and mail      *)
(* scanners open it at a time (magic_link.py, _claim_token: "two tabs, a   *)
(* double-click, a replayed POST -- gets zero rows").                      *)
LinkSignsInOnce == \A l \in Links : redeemed[l] <= 1

(* What a page was told to be connected is connected to the account that   *)
(* started the flow, whoever else connects, signs in or logs in with the   *)
(* same identity meanwhile (oauth.py, _link_identity, _claim_nonce).       *)
ReportedLinkIsTrue == \A r \in connected : identity[r.identity] = r.to

(* A conversation changes hands once: from the anonymous visitor who began *)
(* it to the account that visitor signed in as (claim_and_login). A        *)
(* registered account's history is never taken over by the next sign-in in *)
(* the same browser, nor by two at once.                                   *)
HistoryIsNotTakenOver ==
  [][\A c \in Conversations : IsRegistered(owner[c]) => owner'[c] = owner[c]]_signInVars
============================================================================
