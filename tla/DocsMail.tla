------------------------------ MODULE DocsMail ------------------------------
(***************************************************************************)
(* Telling readers what changed in the vendors' pages: the watcher         *)
(* (watch/runner.py) records changes, the weekly digest                    *)
(* (services/digest.py) and the watch alerts (services/alerts.py) mail     *)
(* them, a claim row first; readers turn both on and off                   *)
(* (api/routes/digest.py, alerts.py, watches.py).                          *)
(*                                                                         *)
(* Covered: jobs that overlap each other and the watcher; changes that are *)
(* committed after the time they carry; a mail that fails, arrives         *)
(* unheard, or is cut short by the death of the job before or after its    *)
(* claim; readers that change their mind meanwhile.                        *)
(*                                                                         *)
(* Not covered: the text of mails and summaries, which term matches which  *)
(* page (a watch is for every page here), the address of an account, and   *)
(* two watchers at once, which runner.py forbids.                          *)
(***************************************************************************)
EXTENDS Naturals, FiniteSets

CONSTANTS
  Pages, Readers,
  Jobs,        \* processes that run a digest or an alert job
  Lookback,      \* how far back both jobs look, a week
  Nothing,
  MaxDays, MaxTexts, MaxMails   \* bounds

ASSUME DaysAssumption == MaxDays \in Nat /\ MaxTexts \in Nat /\ MaxMails \in Nat

VARIABLES
  today,       \* the time, in steps of which Lookback make a week
  snapshot,    \* doc_snapshots: the text last seen of a page, numbered; 0 before the first
  changes,     \* doc_changes
  watcher,     \* the watcher's run
  wants,       \* users.digest_opt_in_at, and whether there are watches
  claims,      \* digest_sends and alert_sends
  job,         \* what each job is doing
  mails,       \* number of mails ever claimed
  accepted,    \* history: mails the provider has accepted, and the job was told so
  cut          \* history: mails whose job died before it knew

mailVars == <<today, snapshot, changes, watcher, wants, claims, job, mails, accepted, cut>>

MailKinds == {"digest", "alert"}

Week(t) == t \div Lookback

Off == [step |-> "off", kind |-> "digest", now |-> 0, changes |-> {}, todo |-> {},
        reader |-> Nothing, mine |-> {}, mail |-> 0]

Asleep == [now |-> 0, left |-> {}]

NextDay ==
  /\ today < MaxDays /\ today' = today + 1
  /\ UNCHANGED <<snapshot, changes, watcher, wants, claims, job, mails, accepted, cut>>

----------------------------------------------------------------------------
(* The watcher: every page, compared with what was seen last.              *)

StartWatcher ==
  /\ watcher.left = {}
  /\ watcher' = [now |-> today, left |-> Pages]
  /\ UNCHANGED <<today, snapshot, changes, wants, claims, job, mails, accepted, cut>>

Checked(p) == watcher' = [watcher EXCEPT !.left = @ \ {p}]

\* The vendor's text is new, or seen for the first time: the baseline is no
\* change. A page is committed on its own; a change carries the time the run began.
FindEdited(p) ==
  /\ p \in watcher.left /\ snapshot[p] < MaxTexts
  /\ Checked(p)
  /\ snapshot' = [snapshot EXCEPT ![p] = @ + 1]
  /\ changes' = IF snapshot[p] = 0 THEN changes
                ELSE changes \cup {[page |-> p, text |-> snapshot[p] + 1, at |-> watcher.now]}
  /\ UNCHANGED <<today, wants, claims, job, mails, accepted, cut>>

FindSame(p) ==
  /\ p \in watcher.left /\ snapshot[p] > 0
  /\ Checked(p)
  /\ UNCHANGED <<today, snapshot, changes, wants, claims, job, mails, accepted, cut>>

\* robots.txt, the network, the deadline or the size says no: the snapshot stays.
FailPage(p) ==
  /\ p \in watcher.left
  /\ Checked(p)
  /\ UNCHANGED <<today, snapshot, changes, wants, claims, job, mails, accepted, cut>>

----------------------------------------------------------------------------
(* Readers.                                                                *)

\* The account menu turns both on and off.
Choose(r, kind) ==
  /\ wants' = [wants EXCEPT ![r] = IF kind \in @ THEN @ \ {kind} ELSE @ \cup {kind}]
  /\ UNCHANGED <<today, snapshot, changes, watcher, claims, job, mails, accepted, cut>>

\* The link of a mail works as long as its claim is there.
Unsubscribe(claim) ==
  /\ claim \in claims /\ claim.kind \in wants[claim.reader]
  /\ wants' = [wants EXCEPT ![claim.reader] = @ \ {claim.kind}]
  /\ UNCHANGED <<today, snapshot, changes, watcher, claims, job, mails, accepted, cut>>

----------------------------------------------------------------------------
(* A job, digest or alerts.                                                *)

JobGoes(k, record) == job' = [job EXCEPT ![k] = record]

Recent(t) == {c \in changes : c.at + Lookback >= t /\ c.at <= t}

ReadChanges(k, kind) ==
  /\ job[k].step = "off" /\ Recent(today) # {}
  /\ JobGoes(k, [Off EXCEPT !.step = "read", !.kind = kind, !.now = today, !.changes = Recent(today)])
  /\ UNCHANGED <<today, snapshot, changes, watcher, wants, claims, mails, accepted, cut>>

\* The digest: what is newer than the reader's last one. Alerts: what no alert to
\* the reader has named.
Mine(k, r) ==
  LET theirs == {c \in claims : c.kind = job[k].kind /\ c.reader = r} IN
  IF job[k].kind = "digest"
  THEN {c \in job[k].changes : \A s \in theirs : c.at > s.at}
  ELSE {c \in job[k].changes : \A s \in theirs : c # s.about}

Recipients(k) == {r \in Readers : job[k].kind \in wants[r] /\ Mine(k, r) # {}}

\* Everything the loop needs is copied first.
ReadReaders(k) ==
  /\ job[k].step = "read"
  /\ JobGoes(k, [job[k] EXCEPT !.step = "loop", !.changes = {},
                !.todo = {[reader |-> r, mine |-> Mine(k, r)] : r \in Recipients(k)}])
  /\ UNCHANGED <<today, snapshot, changes, watcher, wants, claims, mails, accepted, cut>>

\* What is unique: a week of a reader, a change of a reader.
\* When an alert was sent is never read.
Claimed(k, todo) ==
  LET Said(about, at) == [kind |-> job[k].kind, reader |-> todo.reader, mail |-> mails + 1,
                          about |-> about, at |-> at] IN
  IF job[k].kind = "digest" THEN {Said(Week(job[k].now), job[k].now)}
  ELSE {Said(c, 0) : c \in todo.mine}

SameKey(c, d) == c.kind = d.kind /\ c.reader = d.reader /\ c.about = d.about

\* Nothing new, no longer Pro, the cap of the run, or claimed by another job.
SkipReader(k, todo) ==
  /\ job[k].step = "loop"
  /\ JobGoes(k, [job[k] EXCEPT !.todo = @ \ {todo}])
  /\ UNCHANGED <<today, snapshot, changes, watcher, wants, claims, mails, accepted, cut>>

\* Mutant: the claim is not unique.
NewAlways(rows) == TRUE

IsNew(rows) == \A c \in rows, d \in claims : ~ SameKey(c, d)

\* The claim is committed before the mail is sent.
Claim(k, todo) ==
  /\ job[k].step = "loop" /\ mails < MaxMails
  /\ IsNew(Claimed(k, todo))
  /\ claims' = claims \cup Claimed(k, todo)
  /\ mails' = mails + 1
  /\ JobGoes(k, [job[k] EXCEPT !.step = "sending", !.todo = @ \ {todo},
                !.reader = todo.reader, !.mine = todo.mine, !.mail = mails + 1])
  /\ UNCHANGED <<today, snapshot, changes, watcher, wants, accepted, cut>>

Looping(k) == [job[k] EXCEPT !.step = "loop", !.reader = Nothing, !.mine = {}, !.mail = 0]

TheMail(k) == [mail |-> job[k].mail, kind |-> job[k].kind, reader |-> job[k].reader,
               week |-> Week(job[k].now), changes |-> job[k].mine]

Send(k) ==
  /\ job[k].step = "sending"
  /\ accepted' = accepted \cup {TheMail(k)}
  /\ JobGoes(k, Looping(k))
  /\ UNCHANGED <<today, snapshot, changes, watcher, wants, claims, mails, cut>>

\* An error, although the mail may have arrived: its claim will be released.
SendFails(k) ==
  /\ job[k].step = "sending"
  /\ JobGoes(k, [job[k] EXCEPT !.step = "failed"])
  /\ UNCHANGED <<today, snapshot, changes, watcher, wants, claims, mails, accepted, cut>>

Release(k) ==
  /\ job[k].step = "failed"
  /\ claims' = {c \in claims : c.mail # job[k].mail}
  /\ JobGoes(k, Looping(k))
  /\ UNCHANGED <<today, snapshot, changes, watcher, wants, mails, accepted, cut>>

\* The job is done, or dies at any point.
EndJob(k) ==
  /\ job[k].step # "off"
  /\ cut' = IF job[k].mail = 0 THEN cut ELSE cut \cup {job[k].mail}
  /\ JobGoes(k, Off)
  /\ UNCHANGED <<today, snapshot, changes, watcher, wants, claims, mails, accepted>>

----------------------------------------------------------------------------
MailInit ==
  /\ today = 0
  /\ snapshot = [p \in Pages |-> 0] /\ changes = {}
  /\ watcher = Asleep
  /\ wants = [r \in Readers |-> MailKinds]
  /\ claims = {} /\ job = [k \in Jobs |-> Off]
  /\ mails = 0 /\ accepted = {} /\ cut = {}

JobStep(k) ==
  \/ \E kind \in MailKinds : ReadChanges(k, kind)
  \/ ReadReaders(k)
  \/ \E todo \in job[k].todo : SkipReader(k, todo) \/ Claim(k, todo)
  \/ Send(k) \/ SendFails(k) \/ Release(k) \/ EndJob(k)

MailNext ==
  \/ NextDay \/ StartWatcher
  \/ \E p \in Pages : FindEdited(p) \/ FindSame(p) \/ FailPage(p)
  \/ \E r \in Readers, kind \in MailKinds : Choose(r, kind)
  \/ \E claim \in claims : Unsubscribe(claim)
  \/ \E k \in Jobs : JobStep(k)

MailSpec == MailInit /\ [][MailNext]_mailVars

----------------------------------------------------------------------------
(* A claim without a mail keeps a reader from being told: only a mail in   *)
(* progress, or one whose job died, has a claim and is not accepted        *)
(* (alerts.py: "never keep a claim for mail not sent").                    *)
ClaimsAreMailed ==
  \A c \in claims :
    \/ \E m \in accepted : m.mail = c.mail
    \/ \E k \in Jobs : job[k].mail = c.mail
    \/ c.mail \in cut

MailTypeOK ==
  /\ today \in 0 .. MaxDays /\ mails \in 0 .. MaxMails
  /\ \A p \in Pages : snapshot[p] \in 0 .. MaxTexts
  /\ \A c \in changes : c.page \in Pages /\ c.at <= today
  /\ watcher.left \subseteq Pages
  /\ \A r \in Readers : wants[r] \subseteq MailKinds
  /\ \A c \in claims : c.kind \in MailKinds /\ c.reader \in Readers /\ c.mail \in 1 .. mails
  /\ \A k \in Jobs : job[k].step \in {"off", "read", "loop", "sending", "failed"}
  /\ ClaimsAreMailed

(* Jobs that overlap never both tell a reader: no two accepted mails are   *)
(* the digest of one week, nor name one change in an alert (digest.py: "a  *)
(* re-run in the same week mails no one twice"; alerts.py: "Never twice"). *)
MailedOnce ==
  \A m \in accepted, n \in accepted :
    m.mail # n.mail /\ m.reader = n.reader /\ m.kind = n.kind
      => IF m.kind = "digest" THEN m.week # n.week ELSE m.changes \cap n.changes = {}

(* Once a reader gets digests, a change is named by one of them or is      *)
(* still newer than the last, so that the next will name it (digest.py:    *)
(* "get one email a week listing the watched vendor pages that changed in  *)
(* the last 7 days"). The code breaks it: a change carries the time its    *)
(* watcher began, so one committed after a digest has read the changes is  *)
(* older than that digest, and the next passes over it.                    *)
ChangesReachReaders ==
  \A r \in Readers, c \in changes :
    (\E m \in accepted : m.reader = r /\ m.kind = "digest")
      => \/ \E m \in accepted : m.reader = r /\ m.kind = "digest" /\ c \in m.changes
         \/ \A s \in claims : s.kind = "digest" /\ s.reader = r => c.at > s.at
         \/ \E s \in claims : s.kind = "digest" /\ s.reader = r /\ s.mail \in cut
         \/ \A s \in claims : s.kind = "digest" /\ s.reader = r => c.at + Lookback < s.at
============================================================================
