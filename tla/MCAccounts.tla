----------------------------- MODULE MCAccounts -----------------------------
(* AccountDeletion, SignIn, Allowance, ChatHistory, DocsMail, Providers and *)
(* ChatClient in one instance for TLC.  They share no state: a behaviour is *)
(* one of one of them, and of ChatHistory one that shares or one that votes. *)
EXTENDS AccountDeletion, SignIn, Allowance, ChatHistory, DocsMail, Providers,
        ChatClient, TLC

CONSTANTS u1, u2, o1, p1, e1, g1, b1, l1, n1, n2, c1, t1, t2, m1, k1

VARIABLE part

SomeSettings == CHOOSE s \in AllSettings : TRUE

AccountsInit ==
  /\ part \in {"deletion", "sign-in", "allowance", "shares", "votes", "mail", "settings",
              "page"}
  /\ Init /\ SignInInit /\ AllowanceInit /\ ChatInit /\ MailInit
  /\ ProvidersInit /\ ClientInit
  /\ mode = "demo" \/ (part = "page" /\ mode = "members")
  /\ part # "allowance" => plan = "free"
  /\ part # "settings" => settings = SomeSettings /\ process.role = "api"

OthersAsleep(own) ==
  /\ part = own /\ UNCHANGED part
  /\ own # "deletion" => UNCHANGED vars
  /\ own # "sign-in" => UNCHANGED signInVars
  /\ own # "allowance" => UNCHANGED allowanceVars
  /\ own \notin {"shares", "votes"} => UNCHANGED conversation
  /\ own # "shares" => UNCHANGED sharingVars
  /\ own # "votes" => UNCHANGED votingVars
  /\ own # "mail" => UNCHANGED mailVars
  /\ own # "settings" => UNCHANGED providerVars
  /\ own # "page" => UNCHANGED clientVars

\* Bounds of the page: the landing page's box is filled before the first request
\* only, a conversation is resumed only while an answer is awaited, and at most
\* one handler runs on a page whose transcript the reducer has changed.
PageBounds ==
  /\ heroInput' = Blank \/ (chatInput' = Blank /\ requests' = <<>>)
  /\ resuming' \in {resuming, Blank} \/ InFlight # {}
  /\ shown' = Page' \/ (shown = Page /\ transcript' # transcript)

AccountsNext ==
  \/ OthersAsleep("deletion") /\ Next
  \/ OthersAsleep("sign-in") /\ SignInNext
  \/ OthersAsleep("allowance") /\ AllowanceNext
  \/ OthersAsleep("shares") /\ ChatNext
  \/ OthersAsleep("votes") /\ ChatNext
  \/ OthersAsleep("mail") /\ MailNext
  \/ OthersAsleep("settings") /\ ProvidersNext
  \/ OthersAsleep("page") /\ ClientNext /\ PageBounds

AccountsSpec ==
  /\ AccountsInit
  /\ [][AccountsNext]_<<part, vars, signInVars, allowanceVars, chatVars, mailVars,
       providerVars, clientVars>>

\* The types of all of them.
AccountsTypeOK ==
  TypeOK /\ SignInTypeOK /\ AllowanceTypeOK /\ ChatTypeOK /\ MailTypeOK
  /\ ProvidersTypeOK /\ ClientTypeOK

Interchangeable ==
  Permutations({u1, u2}) \cup Permutations({t1, t2})
=============================================================================
