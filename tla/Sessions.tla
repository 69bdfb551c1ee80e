------------------------------ MODULE Sessions ------------------------------
(***************************************************************************)
(* One account's password, the refresh tokens issued to it, the denylist   *)
(* of those signed out and the links that reset the password: the session  *)
(* use cases of the auth module.                                           *)
(*                                                                         *)
(* Passwords are numbered in the order they are set.  A token keeps which  *)
(* password its bearer has proved to know, and whether they proved it by   *)
(* logging in or by changing it; the code keeps only the epoch.  The clock *)
(* ticks twice a second, because tokens and denylist entries last for      *)
(* whole seconds and requests arrive in between.                           *)
(***************************************************************************)
EXTENDS Requests

CONSTANTS
  Tokens,         \* ids that refresh tokens may take
  ResetLinks,     \* ids that reset links may take
  TokenLifetime,  \* ticks a refresh token lasts
  Leeway,         \* ticks the token library accepts one for longer
  MaxNow,         \* bound on the clock
  MaxPasswords    \* bound on how often the password is replaced

ASSUME SessionsAssumption ==
  /\ TokenLifetime \in Nat /\ Leeway \in Nat /\ MaxNow \in Nat /\ MaxPasswords \in Nat

VARIABLES
  account,     \* password, epoch and is_active of the users row
  tokens,      \* the refresh tokens issued
  denied,      \* until when the denylist keeps each token
  signedOut,   \* history: the tokens whose sign-out was answered with success
  links,       \* the password_reset_tokens rows
  spentOn,     \* history: the passwords each link has set
  now          \* the clock

sessionVars == <<account, tokens, denied, signedOut, links, spentOn, now>>

Second == 2
NoToken == [born |-> "never"]
Issued(t) == tokens[t].born # "never"

WholeSecondsDown(ticks) == (ticks \div Second) * Second
WholeSecondsUp(ticks) == WholeSecondsDown(ticks + Second - 1)

\* parent is the token it was refreshed from, if it was.
Token(epoch, knows, born, parent) ==
  [born |-> born, epoch |-> epoch, knows |-> knows, parent |-> parent,
   exp |-> WholeSecondsDown(now + TokenLifetime)]

\* Ids are drawn at random: any that was never drawn stands for all of them.
Issue(token) ==
  /\ \E t \in Tokens : ~Issued(t)
  /\ tokens' = [tokens EXCEPT ![CHOOSE t \in Tokens : ~Issued(t)] = token]

\* The signature check, with the leeway of the library.
Verifies(t) == Issued(t) /\ now <= tokens[t].exp + Leeway

IsRevoked(t) == now < denied[t]

-----------------------------------------------------------------------------
(* Logging in, refreshing, signing out *)

LogIn ==
  /\ account.active
  /\ Happens("login")
  /\ Issue(Token(account.epoch, account.password, "login", {}))
  /\ UNCHANGED <<account, denied, signedOut, links, spentOn, now>>

ReadDenylist(s, t) ==
  /\ Verifies(t) /\ ~IsRevoked(t)
  /\ Begin(s, "refresh", [step |-> "session.refresh", token |-> t])
  /\ UNCHANGED sessionVars

\* The account is read after the denylist, and the tokens carry its epoch.
CanRefresh(t) == account.active /\ tokens[t].epoch = account.epoch

IssueRefreshed(s) ==
  LET t == slot[s].token IN
  /\ At(s, "session.refresh") /\ CanRefresh(t)
  /\ Issue(Token(account.epoch, tokens[t].knows, tokens[t].born, {t}))
  /\ Finish(s)
  /\ UNCHANGED <<account, denied, signedOut, links, spentOn, now>>

RefuseRefresh(s) ==
  /\ At(s, "session.refresh") /\ ~CanRefresh(slot[s].token)
  /\ Finish(s)
  /\ UNCHANGED sessionVars

\* Variant: the entry's lifetime is truncated to whole seconds.
DeniedUntilTruncated(exp) == now + WholeSecondsDown(exp - now)

DeniedUntil(exp) == now + WholeSecondsUp(exp - now)

\* A token past its expiry is not put on the list.
LogOut(t) ==
  /\ Verifies(t)
  /\ Happens("logout")
  /\ \/ tokens[t].exp <= now /\ UNCHANGED denied
     \/ /\ tokens[t].exp > now
        /\ denied' = [denied EXCEPT ![t] = DeniedUntil(tokens[t].exp)]
  /\ signedOut' = signedOut \cup {t}
  /\ UNCHANGED <<account, tokens, links, spentOn, now>>

-----------------------------------------------------------------------------
(* Replacing the password: by whoever knows it, or by a link *)

\* Variant: the sessions are left as they are.
ReplacePasswordOnly(p) == account' = [account EXCEPT !.password = p]

\* The epoch is counted up in the same statement.
ReplacePassword(p) ==
  account' = [account EXCEPT !.password = p, !.epoch = @ + 1]

\* A password nobody has had.
Fresh == account.password + 1

ReadToChange(s) ==
  /\ account.password < MaxPasswords
  /\ Begin(s, "password.change", [step |-> "password.replace"])
  /\ UNCHANGED sessionVars

WriteChanged(s) ==
  /\ At(s, "password.replace") /\ account.password < MaxPasswords
  /\ ReplacePassword(Fresh)
  /\ Continue(s, [step |-> "password.issue", knows |-> Fresh])
  /\ UNCHANGED <<tokens, denied, signedOut, links, spentOn, now>>

\* The account is read again for the epoch: the one it has by now.
IssueChanged(s) ==
  /\ At(s, "password.issue")
  /\ Issue(Token(account.epoch, slot[s].knows, "change", {}))
  /\ Finish(s)
  /\ UNCHANGED <<account, denied, signedOut, links, spentOn, now>>

Forgot(k) ==
  /\ account.active
  /\ links[k].state = "none"
  /\ Happens("forgot")
  /\ links' = [links EXCEPT ![k] = [state |-> "usable", asked |-> account.password]]
  /\ UNCHANGED <<account, tokens, denied, signedOut, spentOn, now>>

LinkLapses(k) ==
  /\ links[k].state = "usable"
  /\ Happens("link.lapse")
  /\ links' = [links EXCEPT ![k].state = "lapsed"]
  /\ UNCHANGED <<account, tokens, denied, signedOut, spentOn, now>>

ReadToReset(s, k) ==
  /\ links[k].state = "usable"
  /\ Begin(s, "reset", [step |-> "reset.spend", link |-> k])
  /\ UNCHANGED sessionVars

Spendable(state) == state \in {"usable", "lapsed"}

\* Variant: whoever gets here has spent it.
MarkUsedAlways(s) ==
  /\ At(s, "reset.spend")
  /\ links' = [links EXCEPT ![slot[s].link].state = "spent"]
  /\ Continue(s, [step |-> "reset.replace", link |-> slot[s].link])
  /\ UNCHANGED <<account, tokens, denied, signedOut, spentOn, now>>

\* UPDATE ... WHERE used_at IS NULL: of two requests one updates a row.
MarkUsed(s) ==
  /\ At(s, "reset.spend")
  /\ Spendable(links[slot[s].link].state)
  /\ links' = [links EXCEPT ![slot[s].link].state = "spent"]
  /\ Continue(s, [step |-> "reset.replace", link |-> slot[s].link])
  /\ UNCHANGED <<account, tokens, denied, signedOut, spentOn, now>>

RefuseReset(s) ==
  /\ At(s, "reset.spend")
  /\ ~Spendable(links[slot[s].link].state)
  /\ Finish(s)
  /\ UNCHANGED sessionVars

WriteReset(s) ==
  /\ At(s, "reset.replace") /\ account.password < MaxPasswords
  /\ ReplacePassword(Fresh)
  /\ spentOn' = [spentOn EXCEPT ![slot[s].link] = @ \cup {Fresh}]
  /\ Continue(s, [step |-> "reset.expireAll"])
  /\ UNCHANGED <<tokens, denied, signedOut, links, now>>

ExpireAllLinks(s) ==
  /\ At(s, "reset.expireAll")
  /\ links' = [k \in ResetLinks |->
                 IF Spendable(links[k].state) THEN [links[k] EXCEPT !.state = "spent"]
                 ELSE links[k]]
  /\ Finish(s)
  /\ UNCHANGED <<account, tokens, denied, signedOut, spentOn, now>>

-----------------------------------------------------------------------------
\* set_user_status writes its column and leaves password and epoch alone.
SetActive ==
  /\ Happens("account.status")
  /\ account' = [account EXCEPT !.active = ~@]
  /\ UNCHANGED <<tokens, denied, signedOut, links, spentOn, now>>

Tick ==
  /\ Happens("clock")
  /\ now < MaxNow
  /\ now' = now + 1
  /\ UNCHANGED <<account, tokens, denied, signedOut, links, spentOn>>

SessionsInit ==
  /\ account = [password |-> 0, epoch |-> 0, active |-> TRUE]
  /\ tokens = [t \in Tokens |-> NoToken]
  /\ denied = [t \in Tokens |-> 0]
  /\ signedOut = {}
  /\ links = [k \in ResetLinks |-> [state |-> "none", asked |-> 0]]
  /\ spentOn = [k \in ResetLinks |-> {}]
  /\ now = 0

SessionsRequest(s) ==
  \/ \E t \in Tokens : ReadDenylist(s, t)
  \/ ReadToChange(s)
  \/ \E k \in ResetLinks : ReadToReset(s, k)

SessionsStep(s) ==
  \/ IssueRefreshed(s) \/ RefuseRefresh(s)
  \/ WriteChanged(s) \/ IssueChanged(s)
  \/ MarkUsed(s) \/ RefuseReset(s) \/ WriteReset(s) \/ ExpireAllLinks(s)

SessionsRequests ==
  {"login", "refresh", "logout", "password.change", "forgot", "reset", "link.lapse",
   "account.status", "clock"}

SessionsNext ==
  /\ Concerns(SessionsRequests)
  /\ \/ LogIn
     \/ \E t \in Tokens : LogOut(t)
     \/ \E k \in ResetLinks : Forgot(k) \/ LinkLapses(k)
     \/ \E s \in Slots : (Free(s) /\ SessionsRequest(s)) \/ SessionsStep(s)
     \/ SetActive
     \/ Tick

-----------------------------------------------------------------------------
(* Correctness *)

WholeSeconds == {ticks \in Nat : ticks % Second = 0}

TokenRecords ==
  {NoToken} \cup
  [born : {"login", "change"}, epoch : Nat, knows : Nat, parent : SUBSET Tokens,
   exp : WholeSeconds]

\* The rows, tokens and denylist entries keep their shape; a token expires on a
\* whole second.
SessionsTypeOK ==
  /\ account \in [password : Nat, epoch : Nat, active : BOOLEAN]
  /\ tokens \in [Tokens -> TokenRecords]
  /\ denied \in [Tokens -> Nat]
  /\ signedOut \in SUBSET {t \in Tokens : Issued(t)}
  /\ links \in [ResetLinks -> [state : {"none", "usable", "lapsed", "spent"}, asked : Nat]]
  /\ spentOn \in [ResetLinks -> SUBSET Nat]
  /\ now \in Nat

\* A session that can still be refreshed belongs to somebody who has proved to
\* know the password the account has now: with every request in turn always,
\* and for sessions that began with a log-in however changes, resets and
\* refreshes overlap.
LiveSessionsKnowThePassword ==
  \A t \in Tokens :
    Issued(t) /\ tokens[t].epoch = account.epoch /\ (tokens[t].born = "login" \/ InTurn)
      => tokens[t].knows = account.password

\* One reset link sets one password, however many requests bring it and
\* whichever of them are dropped; and once a reset is over, a link that was asked
\* for before it cannot be used any more.
OneLinkOnePassword ==
  /\ \A k \in ResetLinks : Cardinality(spentOn[k]) <= 1
  /\ Quiet /\ InTurn =>
       \A k, r \in ResetLinks :
         links[k].state = "usable" => \A p \in spentOn[r] : links[k].asked >= p

\* Once sign-out was answered, no session is continued from that token for as
\* long as it lasts, in whatever part of a second it was signed out.
SignedOutIsOver ==
  [][\A t \in Tokens :
       InTurn' /\ ~Issued(t) /\ Issued(t)'
         => \A p \in tokens'[t].parent \cap signedOut : now >= tokens[p].exp
    ]_<<tokens, disturbed>>
=============================================================================
