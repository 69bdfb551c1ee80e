--------------------------- MODULE ServiceProofs ---------------------------
(***************************************************************************)
(* Proofs about what staff and customers share the service for: sessions,  *)
(* users, expense reports, quotes, attachments, purchased goods, purchase  *)
(* orders with their payments, leave, the chart of accounts, and projects. *)
(*                                                                         *)
(* The theorems are about the specification of the whole service.  What    *)
(* its other parts do to the handlers of one comes from HandlersProofs.    *)
(* For each part there is an invariant of rows and locals; what it says of *)
(* requests in turn is that a handler's locals still fit the rows it read, *)
(* because in turn it is the only one in flight.                           *)
(***************************************************************************)
EXTENDS HandlersProofs

-----------------------------------------------------------------------------
(* Sessions: rows and locals *)

SessionLocals(s) ==
  /\ At(s, "session.refresh") => slot[s].token \in Tokens /\ Issued(slot[s].token)
  /\ At(s, "password.issue") => slot[s].knows \in Nat
  /\ slot[s].step \in {"reset.spend", "reset.replace"} => slot[s].link \in ResetLinks

\* Every replacement of the password counts the epoch up with it.
EpochCountsPasswords == account.epoch = account.password

SessionRows ==
  /\ SessionsTypeOK
  /\ EpochCountsPasswords
  /\ \A s \in Slots : SessionLocals(s)

\* A token is issued under an id that has none.
LEMMA Issuing ==
  ASSUME NEW token, Issue(token)
  PROVE  \E t \in Tokens : ~Issued(t) /\ tokens' = [tokens EXCEPT ![t] = token]
BY DEF Issue

\* What a token issued now looks like.
LEMMA NewToken ==
  ASSUME SessionsTypeOK, NEW epoch \in Nat, NEW knows \in Nat, NEW born \in {"login", "change"},
         NEW parent \in SUBSET Tokens
  PROVE  /\ Token(epoch, knows, born, parent) \in TokenRecords
         /\ Token(epoch, knows, born, parent).born = born
         /\ Token(epoch, knows, born, parent).epoch = epoch
         /\ Token(epoch, knows, born, parent).knows = knows
         /\ Token(epoch, knows, born, parent).parent = parent
<1>1. now + TokenLifetime \in Nat
  BY SessionsAssumption DEF SessionsTypeOK
<1>2. \A n \in Nat : WholeSecondsDown(n) \in WholeSeconds
  BY DEF WholeSecondsDown, WholeSeconds, Second
<1> QED
  BY <1>1, <1>2 DEF Token, TokenRecords

\* An id has a token of this shape, or none.
LEMMA TokenIsNone ==
  ASSUME SessionsTypeOK, NEW t \in Tokens
  PROVE  /\ Issued(t) => tokens[t] \in [born : {"login", "change"}, epoch : Nat, knows : Nat,
                                        parent : SUBSET Tokens, exp : WholeSeconds]
         /\ ~Issued(t) => tokens[t] = NoToken
BY DEF SessionsTypeOK, TokenRecords, Issued, NoToken

\* A replaced password counts both up.
LEMMA PasswordReplaced ==
  ASSUME SessionRows, ReplacePassword(Fresh)
  PROVE  /\ account' = [password |-> account.password + 1, epoch |-> account.epoch + 1,
                        active |-> account.active]
         /\ Fresh = account.password + 1
<1>1. PICK a : a = [account EXCEPT !.password = Fresh]
  OBVIOUS
<1>2. account' = [a EXCEPT !.epoch = a.epoch + 1]
  BY <1>1, Zenon DEF ReplacePassword
<1>3. account = [password |-> account.password, epoch |-> account.epoch, active |-> account.active]
  BY DEF SessionRows, SessionsTypeOK
<1>4. a = [password |-> Fresh, epoch |-> account.epoch, active |-> account.active]
  BY <1>1, <1>3
<1> QED
  BY <1>2, <1>4 DEF Fresh

\* Tokens are only added: those issued stay as they are.
LEMMA TokensStay ==
  ASSUME SessionsTypeOK, NEW token \in TokenRecords, token.born # "never", Issue(token)
  PROVE  /\ tokens' \in [Tokens -> TokenRecords]
         /\ \A t \in Tokens : Issued(t) => tokens'[t] = tokens[t] /\ Issued(t)'
<1>1. PICK t \in Tokens : ~Issued(t) /\ tokens' = [tokens EXCEPT ![t] = token]
  BY Issuing
<1> QED
  BY <1>1 DEF SessionsTypeOK, Issued

\* Locals that were not touched still fit.
LEMMA LocalsStay ==
  ASSUME SessionRows, HandlersInv, \A t \in Tokens : Issued(t) => Issued(t)',
         \/ slot' = slot
         \/ \E s \in Slots : slot' = [slot EXCEPT ![s] = slot'[s]] /\ SessionLocals(s)'
  PROVE  \A s \in Slots : SessionLocals(s)'
<1>1. CASE slot' = slot
  BY <1>1 DEF SessionRows, SessionLocals, At
<1>2. ASSUME NEW s \in Slots, slot' = [slot EXCEPT ![s] = slot'[s]], SessionLocals(s)'
      PROVE  \A r \in Slots : SessionLocals(r)'
  <2>1. \A r \in Slots \ {s} : slot'[r] = slot[r]
    BY <1>2 DEF HandlersInv
  <2> QED
    BY <1>2, <2>1 DEF SessionRows, SessionLocals, At
<1> QED
  BY <1>1, <1>2

\* Requests and refusals write no row.
LEMMA NothingWritten ==
  ASSUME SessionRows, UNCHANGED sessionVars
  PROVE  SessionsTypeOK' /\ EpochCountsPasswords' /\ \A t \in Tokens : Issued(t) => Issued(t)'
BY DEF SessionRows, sessionVars, SessionsTypeOK, EpochCountsPasswords, Issued

\* What is put into a slot.
LEMMA PutIn ==
  ASSUME HandlersInv, NEW s \in Slots, NEW request, NEW locals,
         Begin(s, request, locals) \/ Continue(s, locals)
  PROVE  slot' = [slot EXCEPT ![s] = slot'[s]] /\ slot'[s] = locals
BY DEF HandlersInv, Begin, Continue

\* What is left in the slot of a handler that ends.
LEMMA PutIdle ==
  ASSUME HandlersInv, NEW s \in Slots, Finish(s)
  PROVE  /\ slot' = [slot EXCEPT ![s] = slot'[s]] /\ slot'[s] = Idle
         /\ SessionLocals(s)'
BY DEF HandlersInv, Finish, Continue, SessionLocals, At, Idle

\* Requests keep rows and locals in shape.
LEMMA SessionRequestRows ==
  ASSUME SessionRows, HandlersInv, NEW s \in Slots, SessionsRequest(s)
  PROVE  SessionRows'
<1>1. ASSUME NEW t \in Tokens, ReadDenylist(s, t) PROVE SessionRows'
  <2>1. slot' = [slot EXCEPT ![s] = slot'[s]]
        /\ slot'[s] = [step |-> "session.refresh", token |-> t]
    BY <1>1, PutIn DEF ReadDenylist
  <2>2. UNCHANGED sessionVars /\ Issued(t)
    BY <1>1 DEF ReadDenylist, Verifies
  <2>3. SessionLocals(s)'
    BY <2>1, <2>2 DEF SessionLocals, At, sessionVars, Issued
  <2> QED
    BY <2>1, <2>2, <2>3, NothingWritten, LocalsStay DEF SessionRows
<1>2. CASE ReadToChange(s)
  <2>1. slot' = [slot EXCEPT ![s] = slot'[s]] /\ slot'[s] = [step |-> "password.replace"]
    BY <1>2, PutIn DEF ReadToChange
  <2>2. UNCHANGED sessionVars
    BY <1>2 DEF ReadToChange
  <2>3. SessionLocals(s)'
    BY <2>1 DEF SessionLocals, At
  <2> QED
    BY <2>1, <2>2, <2>3, NothingWritten, LocalsStay DEF SessionRows
<1>3. ASSUME NEW k \in ResetLinks, ReadToReset(s, k) PROVE SessionRows'
  <2>1. slot' = [slot EXCEPT ![s] = slot'[s]]
        /\ slot'[s] = [step |-> "reset.spend", link |-> k]
    BY <1>3, PutIn DEF ReadToReset
  <2>2. UNCHANGED sessionVars
    BY <1>3 DEF ReadToReset
  <2>3. SessionLocals(s)'
    BY <2>1 DEF SessionLocals, At
  <2> QED
    BY <2>1, <2>2, <2>3, NothingWritten, LocalsStay DEF SessionRows
<1> QED
  BY <1>1, <1>2, <1>3 DEF SessionsRequest

\* A handler that issues a token and is done.
LEMMA IssuedRows ==
  ASSUME SessionRows, HandlersInv, NEW token \in TokenRecords, token.born # "never",
         Issue(token), slot' = slot \/ \E s \in Slots : Finish(s),
         UNCHANGED <<account, denied, signedOut, links, spentOn, now>>
  PROVE  SessionRows'
<1>1. /\ tokens' \in [Tokens -> TokenRecords]
      /\ \A t \in Tokens : Issued(t) => Issued(t)'
  BY TokensStay DEF SessionRows
<1>2. SessionsTypeOK' /\ EpochCountsPasswords'
  BY <1>1 DEF SessionRows, SessionsTypeOK, EpochCountsPasswords
<1>3. slot' = slot \/ \E s \in Slots : slot' = [slot EXCEPT ![s] = slot'[s]] /\ SessionLocals(s)'
  BY PutIdle
<1> QED
  BY <1>1, <1>2, <1>3, LocalsStay DEF SessionRows

\* So does every step of a handler.
LEMMA SessionStepRows ==
  ASSUME SessionRows, HandlersInv, NEW s \in Slots, SessionsStep(s)
  PROVE  SessionRows'
<1>1. CASE IssueRefreshed(s)
  <2>1. PICK t : t = slot[s].token
    OBVIOUS
  <2>2. /\ t \in Tokens /\ Issued(t)
        /\ Issue(Token(account.epoch, tokens[t].knows, tokens[t].born, {t}))
        /\ Finish(s) /\ UNCHANGED <<account, denied, signedOut, links, spentOn, now>>
    BY <1>1, <2>1 DEF IssueRefreshed, SessionRows, SessionLocals
  <2>3. tokens[t].knows \in Nat /\ tokens[t].born \in {"login", "change"} /\ account.epoch \in Nat
    BY <2>2, TokenIsNone DEF SessionRows, SessionsTypeOK
  <2> QED
    BY <2>2, <2>3, NewToken, IssuedRows DEF SessionRows
<1>2. CASE RefuseRefresh(s) \/ RefuseReset(s)
  BY <1>2, PutIdle, NothingWritten, LocalsStay DEF RefuseRefresh, RefuseReset, SessionRows
<1>3. CASE WriteChanged(s)
  <2>1. /\ slot' = [slot EXCEPT ![s] = slot'[s]]
        /\ slot'[s] = [step |-> "password.issue", knows |-> Fresh]
    BY <1>3, PutIn DEF WriteChanged
  <2>2. /\ account' = [password |-> account.password + 1, epoch |-> account.epoch + 1,
                       active |-> account.active]
        /\ Fresh \in Nat
    BY <1>3, PasswordReplaced DEF WriteChanged, SessionRows, SessionsTypeOK
  <2>3. SessionsTypeOK' /\ EpochCountsPasswords' /\ tokens' = tokens
    BY <1>3, <2>2 DEF WriteChanged, SessionRows, SessionsTypeOK, EpochCountsPasswords, Issued
  <2>4. SessionLocals(s)'
    BY <2>1, <2>2 DEF SessionLocals, At
  <2> QED
    BY <2>1, <2>3, <2>4, LocalsStay DEF SessionRows, Issued
<1>4. CASE IssueChanged(s)
  <2>1. slot[s].knows \in Nat /\ account.epoch \in Nat
    BY <1>4 DEF IssueChanged, SessionRows, SessionLocals, SessionsTypeOK
  <2> QED
    BY <1>4, <2>1, NewToken, IssuedRows DEF IssueChanged, SessionRows
<1>5. CASE MarkUsed(s)
  <2>1. PICK k \in ResetLinks : k = slot[s].link
    BY <1>5 DEF MarkUsed, SessionRows, SessionLocals, At
  <2>2. /\ slot' = [slot EXCEPT ![s] = slot'[s]]
        /\ slot'[s] = [step |-> "reset.replace", link |-> k]
    BY <1>5, <2>1, PutIn DEF MarkUsed
  <2>3. SessionsTypeOK' /\ EpochCountsPasswords' /\ tokens' = tokens
    BY <1>5, <2>1 DEF MarkUsed, SessionRows, SessionsTypeOK, EpochCountsPasswords, Issued
  <2>4. SessionLocals(s)'
    BY <2>2 DEF SessionLocals, At
  <2> QED
    BY <2>2, <2>3, <2>4, LocalsStay DEF SessionRows, Issued
<1>6. CASE WriteReset(s)
  <2>1. PICK k \in ResetLinks : k = slot[s].link
    BY <1>6 DEF WriteReset, SessionRows, SessionLocals, At
  <2>2. /\ slot' = [slot EXCEPT ![s] = slot'[s]]
        /\ slot'[s] = [step |-> "reset.expireAll"]
    BY <1>6, PutIn DEF WriteReset
  <2>3. /\ account' = [password |-> account.password + 1, epoch |-> account.epoch + 1,
                       active |-> account.active]
        /\ Fresh \in Nat
    BY <1>6, PasswordReplaced DEF WriteReset, SessionRows, SessionsTypeOK
  <2>4. SessionsTypeOK' /\ EpochCountsPasswords' /\ tokens' = tokens
    BY <1>6, <2>1, <2>3 DEF WriteReset, SessionRows, SessionsTypeOK, EpochCountsPasswords, Issued
  <2>5. SessionLocals(s)'
    BY <2>2 DEF SessionLocals, At
  <2> QED
    BY <2>2, <2>4, <2>5, LocalsStay DEF SessionRows, Issued
<1>7. CASE ExpireAllLinks(s)
  <2>1. SessionsTypeOK' /\ EpochCountsPasswords' /\ tokens' = tokens
    BY <1>7 DEF ExpireAllLinks, SessionRows, SessionsTypeOK, EpochCountsPasswords, Issued
  <2> QED
    BY <1>7, <2>1, PutIdle, LocalsStay DEF ExpireAllLinks, SessionRows, Issued
<1> QED
  BY <1>1, <1>2, <1>3, <1>4, <1>5, <1>6, <1>7 DEF SessionsStep

\* So does what takes one call.
LEMMA SessionCallRows ==
  ASSUME SessionRows, HandlersInv
  PROVE  /\ LogIn \/ SetActive \/ Tick => SessionRows'
         /\ \A t \in Tokens : LogOut(t) => SessionRows'
         /\ \A k \in ResetLinks : Forgot(k) \/ LinkLapses(k) => SessionRows'
<1>1. CASE LogIn
  <2>1. account.epoch \in Nat /\ account.password \in Nat
    BY DEF SessionRows, SessionsTypeOK
  <2> QED
    BY <1>1, <2>1, NewToken, IssuedRows DEF LogIn, Happens, SessionRows
<1>2. CASE SetActive
  <2>1. SessionsTypeOK' /\ EpochCountsPasswords' /\ tokens' = tokens /\ slot' = slot
    BY <1>2 DEF SetActive, Happens, SessionRows, SessionsTypeOK, EpochCountsPasswords, Issued
  <2> QED
    BY <2>1, LocalsStay DEF SessionRows, Issued
<1>3. CASE Tick
  <2>1. SessionsTypeOK' /\ EpochCountsPasswords' /\ tokens' = tokens /\ slot' = slot
    BY <1>3 DEF Tick, Happens, SessionRows, SessionsTypeOK, EpochCountsPasswords, Issued
  <2> QED
    BY <2>1, LocalsStay DEF SessionRows, Issued
<1>4. ASSUME NEW t \in Tokens, LogOut(t) PROVE SessionRows'
  <2>1. tokens[t].exp > now => DeniedUntil(tokens[t].exp) \in Nat
    BY <1>4, TokenIsNone DEF LogOut, Verifies, DeniedUntil, WholeSecondsUp, WholeSecondsDown, Second,
           SessionRows, SessionsTypeOK, WholeSeconds
  <2>2. denied' \in [Tokens -> Nat]
    BY <1>4, <2>1 DEF LogOut, SessionRows, SessionsTypeOK
  <2>3. SessionsTypeOK' /\ EpochCountsPasswords' /\ tokens' = tokens /\ slot' = slot
    BY <1>4, <2>2 DEF LogOut, Verifies, Happens, SessionRows, SessionsTypeOK, EpochCountsPasswords,
                      Issued
  <2> QED
    BY <2>3, LocalsStay DEF SessionRows, Issued
<1>5. ASSUME NEW k \in ResetLinks, Forgot(k) \/ LinkLapses(k) PROVE SessionRows'
  <2>1. /\ UNCHANGED <<account, tokens, denied, signedOut, spentOn, now>>
        /\ slot' = slot
    BY <1>5 DEF Forgot, LinkLapses, Happens
  <2>2. links' \in [ResetLinks -> [state : {"none", "usable", "lapsed", "spent"}, asked : Nat]]
    <3>1. CASE Forgot(k)
      BY <3>1 DEF Forgot, SessionRows, SessionsTypeOK
    <3>2. CASE LinkLapses(k)
      BY <3>2 DEF LinkLapses, SessionRows, SessionsTypeOK
    <3> QED
      BY <1>5, <3>1, <3>2
  <2>3. SessionsTypeOK' /\ EpochCountsPasswords'
    BY <2>1, <2>2 DEF SessionRows, SessionsTypeOK, EpochCountsPasswords, Issued
  <2> QED
    BY <2>1, <2>3, LocalsStay DEF SessionRows, Issued
<1> QED
  BY <1>1, <1>2, <1>3, <1>4, <1>5

\* So does every step of the service.
LEMMA SessionRowsNext ==
  ASSUME SessionRows, HandlersInv, [ServiceNext]_ServiceVars
  PROVE  SessionRows'
<1>1. CASE SessionsNext
  BY <1>1, SessionRequestRows, SessionStepRows, SessionCallRows DEF SessionsNext
<1>2. CASE UNCHANGED sessionVars /\ Elsewhere(SessionSteps)
  <2>1. \A s \in Slots : SessionLocals(s)'
    BY <1>2 DEF Elsewhere, SessionSteps, SessionRows, SessionLocals, At, sessionVars, Issued
  <2> QED
    BY <1>2, <2>1, NothingWritten DEF SessionRows
<1> QED
  BY <1>1, <1>2, NotSessions

\* Rows and locals keep their shape for good.
LEMMA SessionRowsAlways == ServiceSpec => []SessionRows
<1>1. ServiceInit => SessionRows
  BY FS_EmptySet
     DEF ServiceInit, RequestsInit, SessionsInit, SessionRows, SessionsTypeOK, SessionLocals,
         EpochCountsPasswords, TokenRecords, NoToken, Issued, At, Idle
<1> QED
  BY <1>1, HandlersAlways, SessionRowsNext, PTL DEF ServiceSpec

\* Requests that have overlapped have overlapped.
LEMMA Undisturbed ==
  ASSUME HandlersInv, [ServiceNext]_ServiceVars, InTurn'
  PROVE  InTurn
BY NotSessions, SessionsHandle DEF Elsewhere, Handles, InTurn

\* A request of a session writes nothing and takes a slot to one of three steps.
LEMMA SessionRequested ==
  ASSUME HandlersInv, NEW s \in Slots, SessionsRequest(s)
  PROVE  /\ UNCHANGED sessionVars
         /\ slot' = [slot EXCEPT ![s] = slot'[s]]
         /\ slot'[s].step \in {"session.refresh", "password.replace", "reset.spend"}
         /\ slot'[s].step = "session.refresh" => ~IsRevoked(slot'[s].token)
<1>1. ASSUME NEW t \in Tokens, ReadDenylist(s, t)
      PROVE  /\ UNCHANGED sessionVars /\ slot' = [slot EXCEPT ![s] = slot'[s]]
             /\ slot'[s].step = "session.refresh" /\ ~IsRevoked(slot'[s].token)
  <2>1. /\ slot' = [slot EXCEPT ![s] = slot'[s]]
        /\ slot'[s] = [step |-> "session.refresh", token |-> t]
    BY <1>1, PutIn DEF ReadDenylist
  <2> QED
    BY <1>1, <2>1 DEF ReadDenylist
<1>2. ASSUME ReadToChange(s)
      PROVE  /\ UNCHANGED sessionVars /\ slot' = [slot EXCEPT ![s] = slot'[s]]
             /\ slot'[s].step = "password.replace"
  <2>1. /\ slot' = [slot EXCEPT ![s] = slot'[s]]
        /\ slot'[s] = [step |-> "password.replace"]
    BY <1>2, PutIn DEF ReadToChange
  <2> QED
    BY <1>2, <2>1 DEF ReadToChange
<1>3. ASSUME NEW k \in ResetLinks, ReadToReset(s, k)
      PROVE  /\ UNCHANGED sessionVars /\ slot' = [slot EXCEPT ![s] = slot'[s]]
             /\ slot'[s].step = "reset.spend"
  <2>1. /\ slot' = [slot EXCEPT ![s] = slot'[s]]
        /\ slot'[s] = [step |-> "reset.spend", link |-> k]
    BY <1>3, PutIn DEF ReadToReset
  <2> QED
    BY <1>3, <2>1 DEF ReadToReset
<1> QED
  BY <1>1, <1>2, <1>3, Zenon DEF SessionsRequest

\* A step of a session takes its slot on, to one of four places.
LEMMA SessionStepped ==
  ASSUME HandlersInv, NEW s \in Slots, SessionsStep(s)
  PROVE  /\ slot' = [slot EXCEPT ![s] = slot'[s]] /\ disturbed' = disturbed
         /\ slot[s].step \in SessionSteps
         /\ slot'[s].step \in {"idle", "password.issue", "reset.replace", "reset.expireAll"}
         /\ slot'[s].step = "reset.replace" => MarkUsed(s) /\ slot'[s].link = slot[s].link
         /\ slot'[s].step = "reset.expireAll" => WriteReset(s)
<1>1. slot[s].step \in SessionSteps /\ disturbed' = disturbed
  BY DEF SessionsStep, IssueRefreshed, RefuseRefresh, WriteChanged, IssueChanged, MarkUsed,
         RefuseReset, WriteReset, ExpireAllLinks, At, SessionSteps, Finish, Continue
<1>2. ASSUME Finish(s) PROVE slot' = [slot EXCEPT ![s] = slot'[s]] /\ slot'[s].step = "idle"
  BY <1>2, PutIdle DEF Idle
<1>3. ASSUME WriteChanged(s)
      PROVE  slot' = [slot EXCEPT ![s] = slot'[s]] /\ slot'[s].step = "password.issue"
  <2>1. /\ slot' = [slot EXCEPT ![s] = slot'[s]]
        /\ slot'[s] = [step |-> "password.issue", knows |-> Fresh]
    BY <1>3, PutIn DEF WriteChanged
  <2> QED
    BY <2>1
<1>4. ASSUME MarkUsed(s)
      PROVE  /\ slot' = [slot EXCEPT ![s] = slot'[s]]
             /\ slot'[s].step = "reset.replace" /\ slot'[s].link = slot[s].link
  <2>1. /\ slot' = [slot EXCEPT ![s] = slot'[s]]
        /\ slot'[s] = [step |-> "reset.replace", link |-> slot[s].link]
    BY <1>4, PutIn DEF MarkUsed
  <2> QED
    BY <2>1
<1>5. ASSUME WriteReset(s)
      PROVE  slot' = [slot EXCEPT ![s] = slot'[s]] /\ slot'[s].step = "reset.expireAll"
  <2>1. /\ slot' = [slot EXCEPT ![s] = slot'[s]]
        /\ slot'[s] = [step |-> "reset.expireAll"]
    BY <1>5, PutIn DEF WriteReset
  <2> QED
    BY <2>1
<1>6. Finish(s) \/ WriteChanged(s) \/ MarkUsed(s) \/ WriteReset(s)
  BY DEF SessionsStep, IssueRefreshed, RefuseRefresh, IssueChanged, RefuseReset, ExpireAllLinks
<1> QED
  BY <1>1, <1>2, <1>3, <1>4, <1>5, <1>6

-----------------------------------------------------------------------------
(* Sessions: what the bearer of a token knows *)

\* Passwords and epochs are counted alike, so that a token's epoch is the number
\* of the password it was issued under.  Its bearer knows that one, and a handler
\* that is about to issue one with requests in turn carries the password the
\* account has.
TokensKnow ==
  /\ \A t \in Tokens :
       Issued(t) /\ (tokens[t].born = "login" \/ InTurn) => tokens[t].knows = tokens[t].epoch
  /\ InTurn => \A s \in Slots : At(s, "password.issue") => slot[s].knows = account.password

\* Whether a token may be added to those there are.
Proved(token) ==
  /\ token.born # "never"
  /\ token.born = "login" \/ InTurn => token.knows = token.epoch

\* A token is issued only to whom has proved to know the password of its epoch.
LEMMA ProvedIssued ==
  ASSUME SessionRows, HandlersInv, TokensKnow, SessionsNext
  PROVE  tokens' = tokens \/ \E token : Proved(token) /\ Issue(token)
<1>1. account.epoch \in Nat /\ account.password \in Nat /\ account.epoch = account.password
  BY DEF SessionRows, SessionsTypeOK, EpochCountsPasswords
<1>2. CASE LogIn
  BY <1>1, <1>2, NewToken DEF LogIn, Proved, SessionRows
<1>3. ASSUME NEW s \in Slots, IssueRefreshed(s)
      PROVE  \E token : Proved(token) /\ Issue(token)
  <2>1. PICK t : t = slot[s].token
    OBVIOUS
  <2>2. /\ t \in Tokens /\ Issued(t) /\ tokens[t].epoch = account.epoch
        /\ Issue(Token(account.epoch, tokens[t].knows, tokens[t].born, {t}))
    BY <1>3, <2>1 DEF IssueRefreshed, CanRefresh, SessionRows, SessionLocals
  <2>3. tokens[t].knows \in Nat /\ tokens[t].born \in {"login", "change"}
    BY <2>2, TokenIsNone DEF SessionRows
  <2> QED
    BY <1>1, <2>2, <2>3, NewToken DEF Proved, TokensKnow, SessionRows
<1>4. ASSUME NEW s \in Slots, IssueChanged(s)
      PROVE  \E token : Proved(token) /\ Issue(token)
  <2>1. slot[s].knows \in Nat /\ (InTurn => slot[s].knows = account.epoch)
    BY <1>1, <1>4 DEF IssueChanged, SessionRows, SessionLocals, TokensKnow
  <2>2. Issue(Token(account.epoch, slot[s].knows, "change", {}))
    BY <1>4 DEF IssueChanged
  <2> QED
    BY <1>1, <2>1, <2>2, NewToken DEF Proved, SessionRows
<1>5. ASSUME NEW s \in Slots, SessionsRequest(s) PROVE tokens' = tokens
  BY <1>5 DEF SessionsRequest, ReadDenylist, ReadToChange, ReadToReset, sessionVars
<1>6. ASSUME NEW s \in Slots, SessionsStep(s), ~IssueRefreshed(s), ~IssueChanged(s)
      PROVE  tokens' = tokens
  BY <1>6 DEF SessionsStep, RefuseRefresh, WriteChanged, MarkUsed, RefuseReset, WriteReset,
              ExpireAllLinks, sessionVars
<1>7. ASSUME SetActive \/ Tick \/ (\E t \in Tokens : LogOut(t))
               \/ (\E k \in ResetLinks : Forgot(k) \/ LinkLapses(k))
      PROVE  tokens' = tokens
  BY <1>7 DEF SetActive, Tick, LogOut, Forgot, LinkLapses
<1> QED
  BY <1>2, <1>3, <1>4, <1>5, <1>6, <1>7 DEF SessionsNext

\* Whoever changes the password carries the one they set, and with requests in
\* turn nobody sets another before they have their token.
LEMMA ChangerKnows ==
  ASSUME SessionRows, HandlersInv, TokensKnow, SessionsNext, InTurn, InTurn',
         NEW r \in Slots, At(r, "password.issue")'
  PROVE  slot'[r].knows = account'.password
<1>1. ASSUME UNCHANGED <<account, slot>> PROVE slot'[r].knows = account'.password
  BY <1>1 DEF TokensKnow, At
<1>2. ASSUME NEW s \in Slots, slot' = [slot EXCEPT ![s] = slot'[s]],
             slot'[s].step # "password.issue", account' = account
      PROVE  slot'[r].knows = account'.password
  BY <1>2 DEF TokensKnow, At, HandlersInv
<1>3. ASSUME NEW s \in Slots, SessionsRequest(s) PROVE slot'[r].knows = account'.password
  <2>1. account' = account
    BY <1>3 DEF SessionsRequest, ReadDenylist, ReadToChange, ReadToReset, sessionVars
  <2>2. slot' = [slot EXCEPT ![s] = slot'[s]] /\ slot'[s].step # "password.issue"
    BY <1>3, SessionRequested
  <2> QED
    BY <1>2, <2>1, <2>2
<1>4. ASSUME NEW s \in Slots, WriteChanged(s) \/ WriteReset(s)
      PROVE  slot'[r].knows = account'.password
  <2>1. account'.password = Fresh
    BY <1>4, PasswordReplaced DEF WriteChanged, WriteReset
  <2>2. CASE WriteChanged(s)
    <3>1. /\ slot' = [slot EXCEPT ![s] = slot'[s]]
          /\ slot'[s] = [step |-> "password.issue", knows |-> Fresh]
      BY <2>2, PutIn DEF WriteChanged
    <3>2. r = s
      BY <2>2, <3>1 DEF WriteChanged, HandlersInv, OneBusy, At
    <3> QED
      BY <2>1, <3>1, <3>2
  <2>3. CASE WriteReset(s)
    <3>1. /\ slot' = [slot EXCEPT ![s] = slot'[s]]
          /\ slot'[s] = [step |-> "reset.expireAll"]
      BY <2>3, PutIn DEF WriteReset
    <3> QED
      BY <2>3, <3>1 DEF WriteReset, HandlersInv, OneBusy, At
  <2> QED
    BY <1>4, <2>2, <2>3
<1>5. ASSUME NEW s \in Slots, SessionsStep(s), ~WriteChanged(s), ~WriteReset(s)
      PROVE  slot'[r].knows = account'.password
  <2>1. CASE MarkUsed(s)
    <3>1. account' = account /\ slot'[s] = [step |-> "reset.replace", link |-> slot[s].link]
          /\ slot' = [slot EXCEPT ![s] = slot'[s]]
      BY <2>1, PutIn DEF MarkUsed
    <3> QED
      BY <1>2, <3>1
  <2>2. CASE ~MarkUsed(s)
    <3>1. account' = account /\ Finish(s)
      BY <1>5, <2>2 DEF SessionsStep, IssueRefreshed, RefuseRefresh, IssueChanged, RefuseReset,
                        ExpireAllLinks, sessionVars
    <3>2. slot'[s].step # "password.issue" /\ slot' = [slot EXCEPT ![s] = slot'[s]]
      BY <3>1, PutIdle DEF Idle
    <3> QED
      BY <1>2, <3>1, <3>2
  <2> QED
    BY <2>1, <2>2
<1>6. ASSUME SetActive PROVE slot'[r].knows = account'.password
  <2>1. account'.password = account.password /\ slot' = slot
    BY <1>6 DEF SetActive, Happens, SessionRows, SessionsTypeOK
  <2> QED
    BY <2>1 DEF TokensKnow, At
<1>7. ASSUME LogIn \/ Tick \/ (\E t \in Tokens : LogOut(t))
               \/ (\E k \in ResetLinks : Forgot(k) \/ LinkLapses(k))
      PROVE  slot'[r].knows = account'.password
  BY <1>1, <1>7 DEF LogIn, Tick, LogOut, Forgot, LinkLapses, Happens
<1> QED
  BY <1>3, <1>4, <1>5, <1>6, <1>7 DEF SessionsNext

\* Every step keeps what the bearers of tokens know.
LEMMA TokensKnowNext ==
  ASSUME SessionRows, HandlersInv, TokensKnow, [ServiceNext]_ServiceVars
  PROVE  TokensKnow'
<1>1. InTurn' => InTurn
  BY Undisturbed
<1>2. CASE UNCHANGED sessionVars /\ Elsewhere(SessionSteps)
  BY <1>1, <1>2 DEF TokensKnow, Elsewhere, SessionSteps, sessionVars, Issued, At
<1>3. CASE SessionsNext
  <2>1. \A t \in Tokens :
          Issued(t)' /\ (tokens'[t].born = "login" \/ InTurn')
            => tokens'[t].knows = tokens'[t].epoch
    <3>1. CASE tokens' = tokens
      BY <1>1, <3>1 DEF TokensKnow, Issued
    <3>2. ASSUME NEW token, Proved(token), Issue(token)
          PROVE  \A t \in Tokens : Issued(t)' /\ (tokens'[t].born = "login" \/ InTurn')
                                     => tokens'[t].knows = tokens'[t].epoch
      <4>1. PICK t \in Tokens : tokens' = [tokens EXCEPT ![t] = token]
        BY <3>2, Issuing
      <4>2. tokens'[t] = token /\ \A u \in Tokens \ {t} : tokens'[u] = tokens[u]
        BY <4>1 DEF SessionRows, SessionsTypeOK
      <4> QED
        BY <1>1, <3>2, <4>2 DEF Proved, TokensKnow, Issued
    <3> QED
      BY <1>3, <3>1, <3>2, ProvedIssued
  <2>2. InTurn' => \A r \in Slots : At(r, "password.issue")' => slot'[r].knows = account'.password
    BY <1>1, <1>3, ChangerKnows
  <2> QED
    BY <2>1, <2>2 DEF TokensKnow
<1> QED
  BY <1>2, <1>3, NotSessions

\* Bearers know what they knew for good.
LEMMA SessionsKnow == ServiceSpec => []TokensKnow
<1>1. ServiceInit => TokensKnow
  BY DEF ServiceInit, RequestsInit, SessionsInit, TokensKnow, NoToken, Issued, At, Idle
<1> QED
  BY <1>1, HandlersAlways, SessionRowsAlways, TokensKnowNext, PTL DEF ServiceSpec

\* A session that can still be refreshed belongs to somebody who has proved to
\* know the password the account has now, whatever else the service is asked:
\* always for sessions that began with a log-in, and for all of them as long as
\* requests come one after the other.
THEOREM SessionsKnowThePassword == ServiceSpec => []LiveSessionsKnowThePassword
<1>1. SessionRows /\ TokensKnow => LiveSessionsKnowThePassword
  BY DEF SessionRows, EpochCountsPasswords, TokensKnow, LiveSessionsKnowThePassword
<1> QED
  BY <1>1, SessionRowsAlways, SessionsKnow, PTL

-----------------------------------------------------------------------------
(* Sessions: signing out *)

\* A token signed out has expired or is on the denylist until it has, and with
\* requests in turn a token that passed the denylist still passes it when its
\* account has been read.
SignedOutInv ==
  /\ \A t \in signedOut : tokens[t].exp <= now \/ tokens[t].exp <= denied[t]
  /\ InTurn => \A s \in Slots : At(s, "session.refresh") => ~IsRevoked(slot[s].token)

\* Lifetimes are rounded up, so an entry lasts as long as its token.
LEMMA DeniedLongEnough ==
  ASSUME NEW exp \in Nat, now \in Nat
  PROVE  DeniedUntil(exp) >= exp
BY DEF DeniedUntil, WholeSecondsUp, WholeSecondsDown, Second

\* Which tokens are signed out, the denylist and the clock are the business of
\* two calls.
LEMMA OnlySigningOut ==
  ASSUME SessionsNext, ~Tick, ~(\E t \in Tokens : LogOut(t))
  PROVE  UNCHANGED <<denied, signedOut, now>>
BY DEF SessionsNext, LogIn, SetActive, Forgot, LinkLapses, SessionsRequest, SessionsStep,
       ReadDenylist, ReadToChange, ReadToReset, IssueRefreshed, RefuseRefresh, WriteChanged,
       IssueChanged, MarkUsed, RefuseReset, WriteReset, ExpireAllLinks, sessionVars

\* Tokens that were issued stay as they are.
LEMMA TokensKept ==
  ASSUME SessionRows, HandlersInv, TokensKnow, [ServiceNext]_ServiceVars,
         NEW t \in Tokens, Issued(t)
  PROVE  tokens'[t] = tokens[t]
<1>1. CASE tokens' = tokens
  BY <1>1
<1>2. ASSUME NEW token, Issue(token) PROVE tokens'[t] = tokens[t]
  <2>1. PICK u \in Tokens : ~Issued(u) /\ tokens' = [tokens EXCEPT ![u] = token]
    BY <1>2, Issuing
  <2> QED
    BY <2>1 DEF SessionRows, SessionsTypeOK
<1> QED
  BY <1>1, <1>2, NotSessions, ProvedIssued DEF sessionVars

\* A handler about to refresh has come there just now or was there before.
LEMMA RefreshersPass ==
  ASSUME HandlersInv, SignedOutInv, SessionsNext, InTurn, InTurn',
         NEW r \in Slots, At(r, "session.refresh")'
  PROVE  ~IsRevoked(slot[r].token)'
<1>1. ASSUME NEW event, Happens(event) PROVE FALSE
  BY <1>1 DEF Happens, Quiet, InTurn, At
<1>2. UNCHANGED <<denied, now>>
  BY <1>1, OnlySigningOut DEF Tick, LogOut
<1>3. ASSUME NEW s \in Slots, SessionsRequest(s) PROVE ~IsRevoked(slot[r].token)'
  <2>1. CASE r = s
    BY <1>2, <1>3, <2>1, SessionRequested DEF IsRevoked, At
  <2>2. CASE r # s
    BY <1>2, <1>3, <2>2, SessionRequested DEF IsRevoked, At, SignedOutInv, HandlersInv
  <2> QED
    BY <2>1, <2>2
<1>4. ASSUME NEW s \in Slots, SessionsStep(s) PROVE FALSE
  BY <1>4, SessionStepped DEF HandlersInv, OneBusy, At, SessionSteps
<1> QED
  BY <1>1, <1>3, <1>4 DEF SessionsNext, LogIn, LogOut, Forgot, LinkLapses, SetActive, Tick

\* Every step keeps tokens that are signed out at their end or on the denylist.
LEMMA SignedOutNext ==
  ASSUME SessionRows, SessionRows', HandlersInv, TokensKnow, SignedOutInv,
         [ServiceNext]_ServiceVars
  PROVE  SignedOutInv'
<1>1. InTurn' => InTurn
  BY Undisturbed
<1>2. \A t \in signedOut : t \in Tokens /\ tokens'[t] = tokens[t] /\ tokens[t].exp \in Nat
  BY TokensKept, TokenIsNone DEF SessionRows, SessionsTypeOK, WholeSeconds
<1>3. now \in Nat
  BY DEF SessionRows, SessionsTypeOK
<1>4. CASE UNCHANGED sessionVars /\ Elsewhere(SessionSteps)
  BY <1>1, <1>4 DEF SignedOutInv, Elsewhere, SessionSteps, sessionVars, IsRevoked, At
<1>5. CASE SessionsNext
  <2>1. \A t \in signedOut' : tokens'[t].exp <= now' \/ tokens'[t].exp <= denied'[t]
    <3>1. CASE UNCHANGED <<denied, signedOut, now>>
      BY <1>2, <3>1 DEF SignedOutInv
    <3>2. CASE Tick
      BY <1>2, <1>3, <3>2 DEF Tick, SignedOutInv
    <3>3. ASSUME NEW u \in Tokens, LogOut(u)
          PROVE  \A t \in signedOut' : tokens'[t].exp <= now' \/ tokens'[t].exp <= denied'[t]
      <4>1. tokens[u].exp \in Nat
        BY <3>3, TokenIsNone DEF LogOut, Verifies, SessionRows, WholeSeconds
      <4>2. tokens[u].exp <= now \/ tokens[u].exp <= denied'[u]
        BY <1>3, <3>3, <4>1, DeniedLongEnough DEF LogOut, SessionRows, SessionsTypeOK
      <4>3. \A t \in Tokens \ {u} : denied'[t] = denied[t]
        BY <3>3 DEF LogOut, SessionRows, SessionsTypeOK
      <4>4. signedOut' = signedOut \cup {u} /\ now' = now /\ tokens' = tokens
        BY <3>3 DEF LogOut
      <4> QED
        BY <1>2, <4>2, <4>3, <4>4 DEF SignedOutInv
    <3> QED
      BY <1>5, <3>1, <3>2, <3>3, OnlySigningOut
  <2>2. InTurn' => \A r \in Slots : At(r, "session.refresh")' => ~IsRevoked(slot[r].token)'
    BY <1>1, <1>5, RefreshersPass
  <2> QED
    BY <2>1, <2>2 DEF SignedOutInv
<1> QED
  BY <1>4, <1>5, NotSessions

\* No session goes on from a token signed out before its time.
LEMMA RefreshedInTime ==
  ASSUME SessionRows, HandlersInv, SignedOutInv, [ServiceNext]_ServiceVars, InTurn',
         NEW t \in Tokens, ~Issued(t), Issued(t)', NEW p \in tokens'[t].parent \cap signedOut
  PROVE  now >= tokens[p].exp
<1>1. InTurn
  BY Undisturbed
<1>2. ASSUME NEW token, Issue(token)
      PROVE  tokens'[t] = token
  <2>1. PICK u \in Tokens : tokens' = [tokens EXCEPT ![u] = token]
    BY <1>2, Issuing
  <2> QED
    BY <2>1 DEF SessionRows, SessionsTypeOK, Issued
<1>3. ASSUME NEW epoch, NEW knows, NEW born, Issue(Token(epoch, knows, born, {}))
      PROVE  FALSE
  BY <1>2, <1>3 DEF Token
<1>4. ASSUME NEW s \in Slots, IssueRefreshed(s) PROVE now >= tokens[p].exp
  <2>1. p = slot[s].token /\ At(s, "session.refresh")
    BY <1>2, <1>4 DEF IssueRefreshed, Token
  <2>2. p \in Tokens /\ tokens[p].exp \in Nat /\ denied[p] \in Nat /\ now \in Nat
    BY TokenIsNone DEF SessionRows, SessionsTypeOK, WholeSeconds
  <2> QED
    BY <1>1, <2>1, <2>2 DEF SignedOutInv, IsRevoked
<1>5. tokens' # tokens
  BY DEF Issued
<1>6. CASE SessionsNext
  BY <1>3, <1>4, <1>5, <1>6, SessionRequested DEF SessionsNext, LogIn, LogOut, SetActive, Tick,
     Forgot, LinkLapses, SessionsStep, RefuseRefresh, WriteChanged, IssueChanged, MarkUsed,
     RefuseReset, WriteReset, ExpireAllLinks, sessionVars
<1> QED
  BY <1>5, <1>6, NotSessions DEF sessionVars

\* Once sign-out was answered, no session is continued from that token for as
\* long as it lasts, in whatever part of a second it was signed out: the
\* lifetime of a denylist entry is rounded up, that of a token down.
THEOREM SignOutHolds == ServiceSpec => SignedOutIsOver
<1>1. ServiceInit => SignedOutInv
  BY DEF ServiceInit, RequestsInit, SessionsInit, SignedOutInv, At, Idle
<1>2. ASSUME SessionRows, HandlersInv, SignedOutInv, [ServiceNext]_ServiceVars
      PROVE  [\A t \in Tokens :
                InTurn' /\ ~Issued(t) /\ Issued(t)'
                  => \A p \in tokens'[t].parent \cap signedOut : now >= tokens[p].exp
             ]_<<tokens, disturbed>>
  BY <1>2, RefreshedInTime
<1> QED
  BY <1>1, <1>2, HandlersAlways, SessionRowsAlways, SessionsKnow, SignedOutNext, PTL
     DEF ServiceSpec, SignedOutIsOver


-----------------------------------------------------------------------------
(* Sessions: links that reset the password *)

\* A link that has set a password was spent; one that is about to was spent too,
\* has set none yet, and is in the hands of one handler.
SpentInv ==
  /\ \A k \in ResetLinks :
       /\ spentOn[k] = {} \/ \E p \in Nat : spentOn[k] = {p}
       /\ spentOn[k] # {} => links[k].state = "spent"
       /\ \A p \in spentOn[k] : p <= account.password
  /\ \A s \in Slots :
       At(s, "reset.replace") =>
         /\ links[slot[s].link].state = "spent" /\ spentOn[slot[s].link] = {}
         /\ \A r \in Slots :
              At(r, "reset.replace") /\ slot[r].link = slot[s].link => r = s

\* Once a reset is over, links asked for before it are not usable.
Superseded ==
  \A k, r \in ResetLinks :
    links[k].state = "usable" => \A p \in spentOn[r] : links[k].asked >= p

\* With requests in turn, it is over or about to be.
SupersededInv == InTurn => Superseded \/ \E s \in Slots : At(s, "reset.expireAll")

\* The password is never one set earlier.
LEMMA PasswordGrows ==
  ASSUME SessionRows, [SessionsNext]_sessionVars
  PROVE  account'.password >= account.password
<1>1. account.password \in Nat
  BY DEF SessionRows, SessionsTypeOK
<1>2. ASSUME ReplacePassword(Fresh) PROVE account'.password >= account.password
  BY <1>1, <1>2, PasswordReplaced
<1>3. CASE account' = account
  BY <1>1, <1>3
<1>4. CASE SetActive
  BY <1>1, <1>4 DEF SetActive, SessionRows, SessionsTypeOK
<1>5. ASSUME NEW s \in Slots, WriteChanged(s) \/ WriteReset(s)
      PROVE  account'.password >= account.password
  <2>1. ReplacePassword(Fresh)
    BY <1>5 DEF WriteChanged, WriteReset
  <2> QED
    BY <1>2, <2>1
<1>6. ASSUME SessionsNext, ~SetActive, \A s \in Slots : ~WriteChanged(s) /\ ~WriteReset(s)
      PROVE  account' = account
  BY <1>6 DEF SessionsNext, LogIn, LogOut, Forgot, LinkLapses, Tick, SessionsRequest, SessionsStep,
     ReadDenylist, ReadToChange, ReadToReset, IssueRefreshed, RefuseRefresh, IssueChanged, MarkUsed,
     RefuseReset, ExpireAllLinks, sessionVars
<1> QED
  BY <1>3, <1>4, <1>5, <1>6 DEF sessionVars

\* What leaves passwords, spent links and the handlers that have spent one alone.
LEMMA SpentStays ==
  ASSUME SessionRows, SessionRows', SpentInv, spentOn' = spentOn,
         account'.password >= account.password,
         \A k \in ResetLinks : links[k].state = "spent" => links'[k].state = "spent",
         \A s \in Slots : At(s, "reset.replace")' => slot'[s] = slot[s]
  PROVE  SpentInv'
<1>1. /\ account.password \in Nat /\ account'.password \in Nat
      /\ \A k \in ResetLinks : spentOn[k] \subseteq Nat
  BY DEF SessionRows, SessionsTypeOK
<1>2. \A s \in Slots : At(s, "reset.replace") => slot[s].link \in ResetLinks
  BY DEF SessionRows, SessionLocals, At
<1>3. \A k \in ResetLinks : \A p \in spentOn[k] : p <= account'.password
  BY <1>1 DEF SpentInv
<1>4. \A s \in Slots : At(s, "reset.replace")' =>
        At(s, "reset.replace") /\ slot'[s].link = slot[s].link /\ slot[s].link \in ResetLinks
  BY <1>2 DEF At
<1>5. \A s \in Slots : At(s, "reset.replace")' =>
        /\ links'[slot'[s].link].state = "spent" /\ spentOn'[slot'[s].link] = {}
        /\ \A r \in Slots :
             At(r, "reset.replace")' /\ slot'[r].link = slot'[s].link => r = s
  BY <1>4 DEF SpentInv
<1> QED
  BY <1>3, <1>5 DEF SpentInv

\* A link is marked used before the password is replaced, and only once.
LEMMA SpentByMarking ==
  ASSUME SessionRows, SessionRows', HandlersInv, SpentInv, NEW s \in Slots, MarkUsed(s)
  PROVE  SpentInv'
<1>1. PICK k \in ResetLinks : k = slot[s].link
  BY DEF MarkUsed, SessionRows, SessionLocals, At
<1>2. /\ slot' = [slot EXCEPT ![s] = slot'[s]]
      /\ slot'[s] = [step |-> "reset.replace", link |-> k]
  BY <1>1, PutIn DEF MarkUsed
<1>3. /\ links[k].state # "spent" /\ links' = [links EXCEPT ![k].state = "spent"]
      /\ account' = account /\ spentOn' = spentOn
  BY <1>1 DEF MarkUsed, Spendable
<1>4. /\ links'[k].state = "spent"
      /\ \A r \in ResetLinks \ {k} : links'[r] = links[r]
  BY <1>3 DEF SessionRows, SessionsTypeOK
<1>5. /\ \A r \in Slots \ {s} : slot'[r] = slot[r]
      /\ \A r \in Slots : At(r, "reset.replace") => slot[r].link \in ResetLinks \ {k}
  BY <1>2, <1>3 DEF HandlersInv, SpentInv, SessionRows, SessionLocals, At
<1>6. spentOn[k] = {}
  BY <1>3 DEF SpentInv
<1>7. \A r \in Slots : At(r, "reset.replace")' =>
        /\ links'[slot'[r].link].state = "spent" /\ spentOn'[slot'[r].link] = {}
        /\ \A q \in Slots :
             At(q, "reset.replace")' /\ slot'[q].link = slot'[r].link => q = r
  <2>1. \A r \in Slots \ {s} : At(r, "reset.replace")' =>
          /\ slot'[r] = slot[r] /\ slot[r].link \in ResetLinks \ {k}
          /\ links[slot[r].link].state = "spent" /\ spentOn[slot[r].link] = {}
          /\ \A q \in Slots \ {s} :
               At(q, "reset.replace") /\ slot[q].link = slot[r].link => q = r
    BY <1>5 DEF SpentInv, At
  <2>2. \A q \in Slots \ {s} :
          At(q, "reset.replace")' => slot'[q].link = slot[q].link /\ At(q, "reset.replace")
    BY <1>5 DEF At
  <2>3. slot'[s].link = k
    BY <1>2
  <2> QED
    BY <1>3, <1>4, <1>6, <2>1, <2>2, <2>3
<1> QED
  BY <1>3, <1>4, <1>7 DEF SpentInv

\* The password a link sets is its first.
LEMMA SpentByReplacing ==
  ASSUME SessionRows, SessionRows', HandlersInv, SpentInv, NEW s \in Slots, WriteReset(s)
  PROVE  SpentInv'
<1>1. PICK k \in ResetLinks : k = slot[s].link
  BY DEF WriteReset, SessionRows, SessionLocals, At
<1>2. /\ slot' = [slot EXCEPT ![s] = slot'[s]]
      /\ slot'[s] = [step |-> "reset.expireAll"]
  BY PutIn DEF WriteReset
<1>3. /\ account'.password = account.password + 1 /\ Fresh = account.password + 1
      /\ account.password \in Nat
  BY PasswordReplaced DEF WriteReset, SessionRows, SessionsTypeOK
<1>4. links[k].state = "spent" /\ spentOn[k] = {} /\ links' = links
  BY <1>1 DEF WriteReset, SpentInv
<1>5. /\ spentOn'[k] = {Fresh}
      /\ \A r \in ResetLinks \ {k} : spentOn'[r] = spentOn[r]
  BY <1>1, <1>4 DEF WriteReset, SessionRows, SessionsTypeOK
<1>6. \A r \in Slots \ {s} : /\ slot'[r] = slot[r]
                             /\ At(r, "reset.replace") => slot[r].link \in ResetLinks \ {k}
  BY <1>1, <1>2 DEF WriteReset, HandlersInv, SpentInv, SessionRows, SessionLocals, At
<1>7. \A r \in Slots : At(r, "reset.replace")' =>
        /\ links'[slot'[r].link].state = "spent" /\ spentOn'[slot'[r].link] = {}
        /\ \A q \in Slots :
             At(q, "reset.replace")' /\ slot'[q].link = slot'[r].link => q = r
  <2>1. ~At(s, "reset.replace")'
    BY <1>2 DEF At
  <2>2. \A r \in Slots \ {s} : At(r, "reset.replace")' =>
          /\ slot'[r] = slot[r] /\ slot[r].link \in ResetLinks \ {k}
          /\ links[slot[r].link].state = "spent" /\ spentOn[slot[r].link] = {}
          /\ \A q \in Slots \ {s} :
               At(q, "reset.replace") /\ slot[q].link = slot[r].link => q = r
    BY <1>6 DEF SpentInv, At
  <2>3. \A q \in Slots \ {s} :
          At(q, "reset.replace")' => slot'[q].link = slot[q].link /\ At(q, "reset.replace")
    BY <1>6 DEF At
  <2> QED
    BY <1>4, <1>5, <2>1, <2>2, <2>3
<1>8. \A r \in ResetLinks \ {k} :
        /\ spentOn'[r] = {} \/ \E p \in Nat : spentOn'[r] = {p}
        /\ spentOn'[r] # {} => links'[r].state = "spent"
        /\ \A p \in spentOn'[r] : p \in Nat /\ p <= account.password
  BY <1>4, <1>5 DEF SpentInv, SessionRows, SessionsTypeOK
<1>9. \A r \in ResetLinks \ {k} : \A p \in spentOn'[r] : p <= account'.password
  BY <1>3, <1>8
<1>10. /\ \E p \in Nat : spentOn'[k] = {p}
       /\ links'[k].state = "spent"
       /\ \A p \in spentOn'[k] : p <= account'.password
  BY <1>3, <1>4, <1>5
<1> QED
  BY <1>7, <1>8, <1>9, <1>10 DEF SpentInv

\* Every step keeps spent links spent, for one password each.
LEMMA SpentNext ==
  ASSUME SessionRows, SessionRows', HandlersInv, SpentInv, [ServiceNext]_ServiceVars
  PROVE  SpentInv'
<1>1. CASE UNCHANGED sessionVars /\ Elsewhere(SessionSteps)
  BY <1>1, SpentStays, PasswordGrows DEF sessionVars, Elsewhere, SessionSteps, At
<1>2. CASE SessionsNext
  <2>1. account'.password >= account.password
    BY <1>2, PasswordGrows
  <2>2. ASSUME NEW s \in Slots, SessionsRequest(s) PROVE SpentInv'
    BY <2>1, <2>2, SessionRequested, SpentStays DEF sessionVars, At, HandlersInv
  <2>3. ASSUME NEW s \in Slots, SessionsStep(s), ~MarkUsed(s), ~WriteReset(s) PROVE SpentInv'
    <3>1. \A r \in Slots : At(r, "reset.replace")' => slot'[r] = slot[r]
      BY <2>3, SessionStepped DEF At, HandlersInv
    <3>2. spentOn' = spentOn
      BY <2>3 DEF SessionsStep, IssueRefreshed, RefuseRefresh, WriteChanged, IssueChanged,
                  RefuseReset, ExpireAllLinks, sessionVars
    <3>3. \A k \in ResetLinks : links[k].state = "spent" => links'[k].state = "spent"
      BY <2>3 DEF SessionsStep, IssueRefreshed, RefuseRefresh, WriteChanged, IssueChanged,
                  RefuseReset, ExpireAllLinks, Spendable, sessionVars
    <3> QED
      BY <2>1, <3>1, <3>2, <3>3, SpentStays
  <2>4. ASSUME NEW k \in ResetLinks, Forgot(k) \/ LinkLapses(k) PROVE SpentInv'
    <3>1. \A r \in ResetLinks : links[r].state = "spent" => links'[r].state = "spent"
      BY <2>4 DEF Forgot, LinkLapses, SessionRows, SessionsTypeOK
    <3> QED
      BY <2>1, <2>4, <3>1, SpentStays DEF Forgot, LinkLapses, Happens
  <2>5. CASE LogIn \/ SetActive \/ Tick \/ \E t \in Tokens : LogOut(t)
    BY <2>1, <2>5, SpentStays DEF LogIn, SetActive, Tick, LogOut, Happens
  <2> QED
    BY <1>2, <2>2, <2>3, <2>4, <2>5, SpentByMarking, SpentByReplacing DEF SessionsNext
<1> QED
  BY <1>1, <1>2, NotSessions

\* A handler in flight is alone as long as nothing has disturbed it.
LEMMA AloneInTurn ==
  ASSUME HandlersInv, SessionsNext, InTurn, InTurn', NEW s \in Slots, ~At(s, "idle"),
         ~SessionsStep(s)
  PROVE  FALSE
<1>1. ASSUME NEW event, Happens(event) PROVE FALSE
  BY <1>1 DEF Happens, Quiet, InTurn
<1>2. ASSUME NEW r \in Slots, At(r, "idle"), SessionsRequest(r) PROVE FALSE
  BY <1>2 DEF SessionsRequest, ReadDenylist, ReadToChange, ReadToReset, Begin, InTurn
<1>3. ASSUME NEW r \in Slots, SessionsStep(r) PROVE FALSE
  BY <1>3, SessionStepped DEF OneBusy, HandlersInv, SessionSteps, At
<1> QED
  BY <1>1, <1>2, <1>3
     DEF SessionsNext, Free, LogIn, LogOut, Forgot, LinkLapses, SetActive, Tick

\* A step that makes no link usable and sets no password by one keeps older links
\* superseded.
LEMMA SupersededStays ==
  ASSUME Superseded, spentOn' = spentOn,
         \A k \in ResetLinks : links'[k].state = "usable" => links'[k] = links[k]
  PROVE  Superseded'
BY DEF Superseded

\* Every step leaves older links unusable or is followed by one that does.
LEMMA SupersededNext ==
  ASSUME SessionRows, SessionRows', HandlersInv, SpentInv, SupersededInv,
         [ServiceNext]_ServiceVars
  PROVE  SupersededInv'
<1> SUFFICES ASSUME InTurn' PROVE Superseded' \/ \E s \in Slots : At(s, "reset.expireAll")'
  BY DEF SupersededInv
<1>1. InTurn
  BY Undisturbed
<1>2. CASE UNCHANGED sessionVars /\ Elsewhere(SessionSteps)
  <2>1. Superseded => Superseded'
    BY <1>2 DEF Superseded, sessionVars
  <2>2. \A s \in Slots : At(s, "reset.expireAll") => At(s, "reset.expireAll")'
    BY <1>2 DEF Elsewhere, SessionSteps, At, InTurn
  <2> QED
    BY <1>1, <2>1, <2>2 DEF SupersededInv
<1>3. CASE SessionsNext
  <2>1. ASSUME NEW s \in Slots, At(s, "reset.expireAll") PROVE Superseded'
    <3>1. SessionsStep(s)
      BY <1>1, <1>3, <2>1, AloneInTurn DEF At
    <3>2. ExpireAllLinks(s)
      BY <2>1, <3>1 DEF SessionsStep, IssueRefreshed, RefuseRefresh, WriteChanged, IssueChanged,
                        MarkUsed, RefuseReset, WriteReset, At
    <3>3. \A k \in ResetLinks : links'[k].state # "usable"
      BY <3>2 DEF ExpireAllLinks, Spendable, SessionRows, SessionsTypeOK
    <3> QED
      BY <3>3 DEF Superseded
  <2>2. CASE Superseded
    <3>1. ASSUME NEW k \in ResetLinks, Forgot(k) PROVE Superseded'
      <4>1. /\ links'[k].asked = account.password
            /\ \A r \in ResetLinks \ {k} : links'[r] = links[r]
            /\ spentOn' = spentOn
        BY <3>1 DEF Forgot, SessionRows, SessionsTypeOK
      <4>2. \A r \in ResetLinks : \A p \in spentOn[r] : account.password >= p
        BY DEF SpentInv, SessionRows, SessionsTypeOK
      <4> QED
        BY <2>2, <4>1, <4>2 DEF Superseded
    <3>2. ASSUME NEW k \in ResetLinks, LinkLapses(k) PROVE Superseded'
      <4>1. \A r \in ResetLinks : links'[r].state = "usable" => links'[r] = links[r]
        BY <3>2 DEF LinkLapses, SessionRows, SessionsTypeOK
      <4> QED
        BY <2>2, <3>2, <4>1, SupersededStays DEF LinkLapses
    <3>3. ASSUME NEW s \in Slots, WriteReset(s) PROVE At(s, "reset.expireAll")'
      <4>1. slot'[s] = [step |-> "reset.expireAll"]
        BY <3>3, PutIn DEF WriteReset
      <4> QED
        BY <4>1 DEF At
    <3>4. ASSUME NEW s \in Slots, MarkUsed(s) PROVE Superseded'
      <4>1. \A r \in ResetLinks : links'[r].state = "usable" => links'[r] = links[r]
        BY <3>4 DEF MarkUsed, SessionRows, SessionsTypeOK
      <4> QED
        BY <2>2, <3>4, <4>1, SupersededStays DEF MarkUsed
    <3>5. ASSUME NEW s \in Slots, ExpireAllLinks(s) PROVE Superseded'
      BY <2>1, <3>5 DEF ExpireAllLinks
    <3>6. ASSUME NEW s \in Slots, SessionsRequest(s) PROVE Superseded'
      BY <2>2, <3>6, SessionRequested DEF sessionVars, Superseded
    <3>7. ASSUME NEW s \in Slots, SessionsStep(s), ~WriteReset(s), ~MarkUsed(s), ~ExpireAllLinks(s)
          PROVE  Superseded'
      BY <2>2, <3>7 DEF SessionsStep, IssueRefreshed, RefuseRefresh, WriteChanged, IssueChanged,
                        RefuseReset, sessionVars, Superseded
    <3>8. ASSUME LogIn \/ SetActive \/ Tick \/ \E t \in Tokens : LogOut(t) PROVE Superseded'
      BY <2>2, <3>8 DEF LogIn, SetActive, Tick, LogOut, Superseded
    <3> QED
      BY <1>3, <3>1, <3>2, <3>3, <3>4, <3>5, <3>6, <3>7, <3>8 DEF SessionsNext
  <2> QED
    BY <1>1, <2>1, <2>2 DEF SupersededInv
<1> QED
  BY <1>2, <1>3, NotSessions

\* One reset link sets one password, however many requests bring it and
\* whichever of them are dropped; and once a reset is over, with requests in turn,
\* a link that was asked for before it cannot be used any more.
THEOREM ResetLinksAreSpentOnce == ServiceSpec => []OneLinkOnePassword
<1>1. ServiceInit => SpentInv /\ SupersededInv
  BY DEF ServiceInit, RequestsInit, SessionsInit, SpentInv, SupersededInv, Superseded, At, Idle
<1>2. SpentInv /\ SupersededInv => OneLinkOnePassword
  <2> SUFFICES ASSUME SpentInv, SupersededInv PROVE OneLinkOnePassword
    OBVIOUS
  <2>1. ASSUME NEW k \in ResetLinks PROVE Cardinality(spentOn[k]) <= 1
    <3>1. CASE spentOn[k] = {}
      BY <3>1, FS_EmptySet
    <3>2. ASSUME NEW p \in Nat, spentOn[k] = {p} PROVE Cardinality(spentOn[k]) <= 1
      <4>1. Cardinality({p}) = 1
        BY FS_Singleton
      <4> QED
        BY <3>2, <4>1
    <3> QED
      BY <3>1, <3>2 DEF SpentInv
  <2>2. ASSUME Quiet, InTurn PROVE Superseded
    BY <2>2, Zenon DEF SupersededInv, Quiet, At
  <2>3. \A k \in ResetLinks : Cardinality(spentOn[k]) <= 1
    BY <2>1
  <2>4. Quiet /\ InTurn =>
          \A k, r \in ResetLinks :
            links[k].state = "usable" => \A p \in spentOn[r] : links[k].asked >= p
    BY <2>2 DEF Superseded
  <2> QED
    BY <2>3, <2>4 DEF OneLinkOnePassword
<1> QED
  BY <1>1, <1>2, HandlersAlways, SessionRowsAlways, SpentNext, SupersededNext, PTL
     DEF ServiceSpec

-----------------------------------------------------------------------------
(* Users: rows and locals *)

UserRow == [registered : BOOLEAN, role : Roles, active : BOOLEAN, verified : BOOLEAN]

UserLocals(s) ==
  /\ slot[s].step \in {"user.insert", "verify.spend", "verify.mark"} => slot[s].who \in People
  /\ At(s, "user.insert") => slot[s].role \in Roles
  /\ At(s, "user.update") =>
       slot[s].who \in People /\ slot[s].row \in UserRow /\ slot[s].row.registered

UserRows ==
  /\ user \in [People -> UserRow]
  /\ \A p \in People : ~user[p].registered => user[p].role = "user" /\ ~user[p].active
  /\ \A s \in Slots : UserLocals(s)

\* A row that will be written leaves an administrator: somebody else, or the one
\* whose row it is.
Leaves(p, row) ==
  ~outdated =>
    \E a \in People : IF a = p THEN row.active /\ row.role = "admin" ELSE IsAdministrator(a)

\* There is an administrator, and everybody who has the role was made one.
Administered ==
  /\ Registered # {} /\ ~outdated => \E p \in People : IsAdministrator(p)
  /\ \A p \in People : user[p].role = "admin" => p \in first \cup granted

\* What a handler carries still fits the rows when it gets to write.
CarriesWhatFits(s) ==
  /\ At(s, "user.insert") => slot[s].role = BootstrapRole
  /\ At(s, "user.update") =>
       /\ Leaves(slot[s].who, slot[s].row)
       /\ slot[s].row.role = "admin" => slot[s].who \in first \cup granted

AdministeredInv == InTurn => Administered /\ \A s \in Slots : CarriesWhatFits(s)

\* A request about a user writes no row.  The handler carries the row as it was
\* read, with one field changed.
LEMMA UserRequested ==
  ASSUME HandlersInv, UserRows, NEW s \in Slots, UsersRequest(s)
  PROVE  /\ slot' = [slot EXCEPT ![s] = slot'[s]]
         /\ user' = user /\ first' = first /\ UserLocals(s)'
         /\ outdated => outdated'
         /\ granted \subseteq granted'
<1>1. ASSUME NEW p \in People, ReadToRegister(s, p)
      PROVE  slot' = [slot EXCEPT ![s] = slot'[s]] /\ UserLocals(s)'
  <2>1. /\ slot' = [slot EXCEPT ![s] = slot'[s]]
        /\ slot'[s] = [step |-> "user.insert", who |-> p, role |-> BootstrapRole]
    BY <1>1, PutIn DEF ReadToRegister
  <2> QED
    BY <2>1 DEF UserLocals, At, BootstrapRole, Roles
<1>2. ASSUME NEW p \in People, ReadToVerify(s, p)
      PROVE  slot' = [slot EXCEPT ![s] = slot'[s]] /\ UserLocals(s)'
  <2>1. /\ slot' = [slot EXCEPT ![s] = slot'[s]]
        /\ slot'[s] = [step |-> "verify.spend", who |-> p]
    BY <1>2, PutIn DEF ReadToVerify
  <2> QED
    BY <2>1 DEF UserLocals, At
<1>3. ASSUME NEW p \in People, ReadToUpdateProfile(s, p)
      PROVE  slot' = [slot EXCEPT ![s] = slot'[s]] /\ UserLocals(s)'
  <2>1. /\ slot' = [slot EXCEPT ![s] = slot'[s]]
        /\ slot'[s] = [step |-> "user.update", who |-> p, row |-> user[p]]
    BY <1>3, PutIn DEF ReadToUpdateProfile
  <2> QED
    BY <1>3, <2>1 DEF ReadToUpdateProfile, UserLocals, At, UserRows, Registered
<1>4. ASSUME NEW a \in People, NEW p \in People, NEW role \in Roles,
             ReadUserToSetRole(s, a, p, role)
      PROVE  slot' = [slot EXCEPT ![s] = slot'[s]] /\ UserLocals(s)'
  <2>1. PICK row : row = [user[p] EXCEPT !.role = role]
    OBVIOUS
  <2>2. row \in UserRow /\ row.registered
    BY <1>4, <2>1 DEF ReadUserToSetRole, UserRows, UserRow, Registered
  <2>3. /\ slot' = [slot EXCEPT ![s] = slot'[s]]
        /\ slot'[s] = [step |-> "user.update", who |-> p, row |-> row]
    BY <1>4, <2>1, PutIn DEF ReadUserToSetRole
  <2> QED
    BY <2>2, <2>3 DEF UserLocals, At
<1>5. ASSUME NEW a \in People, NEW p \in People, NEW active \in BOOLEAN,
             ReadUserToSetStatus(s, a, p, active)
      PROVE  slot' = [slot EXCEPT ![s] = slot'[s]] /\ UserLocals(s)'
  <2>1. PICK row : row = [user[p] EXCEPT !.active = active]
    OBVIOUS
  <2>2. row \in UserRow /\ row.registered
    BY <1>5, <2>1 DEF ReadUserToSetStatus, UserRows, UserRow, Registered
  <2>3. /\ slot' = [slot EXCEPT ![s] = slot'[s]]
        /\ slot'[s] = [step |-> "user.update", who |-> p, row |-> row]
    BY <1>5, <2>1, PutIn DEF ReadUserToSetStatus
  <2> QED
    BY <2>2, <2>3 DEF UserLocals, At
<1>6. user' = user /\ first' = first
  BY DEF UsersRequest, ReadToRegister, ReadToVerify, ReadToUpdateProfile, ReadUserToSetRole,
         ReadUserToSetStatus, userVars
<1>7. (outdated => outdated') /\ granted \subseteq granted'
  <2>1. ASSUME NEW p, ReadToRegister(s, p) \/ ReadToVerify(s, p) \/ ReadToUpdateProfile(s, p)
        PROVE  (outdated => outdated') /\ granted \subseteq granted'
    BY <2>1 DEF ReadToRegister, ReadToVerify, ReadToUpdateProfile, userVars
  <2>2. ASSUME NEW a, NEW p, NEW x, ReadUserToSetRole(s, a, p, x) \/ ReadUserToSetStatus(s, a, p, x)
        PROVE  (outdated => outdated') /\ granted \subseteq granted'
    BY <2>2, Zenon DEF ReadUserToSetRole, ReadUserToSetStatus
  <2> QED
    BY <2>1, <2>2, Zenon DEF UsersRequest
<1> QED
  BY <1>1, <1>2, <1>3, <1>4, <1>5, <1>6, <1>7 DEF UsersRequest

\* A step of a request about a user, but for the three that write its row,
\* writes none.
LEMMA UserStepped ==
  ASSUME HandlersInv, UserRows, NEW s \in Slots, UsersStep(s)
  PROVE  /\ slot' = [slot EXCEPT ![s] = slot'[s]] /\ UserLocals(s)'
         /\ slot[s].step \in UserSteps
         /\ slot'[s].step \notin {"user.insert", "user.update"}
         /\ disturbed' = disturbed /\ outdated' = outdated /\ granted' = granted
         /\ InsertUser(s) \/ UpdateUser(s) \/ MarkEmailVerified(s) \/ user' = user
         /\ InsertUser(s) \/ first' = first
<1>1. ASSUME Finish(s)
      PROVE  /\ slot' = [slot EXCEPT ![s] = slot'[s]] /\ UserLocals(s)'
             /\ slot'[s].step \notin {"user.insert", "user.update"}
  BY <1>1, PutIdle DEF Idle, UserLocals, At
<1>2. ASSUME NEW role,
             Continue(s, [step |-> "user.welcome", who |-> slot[s].who, role |-> role])
      PROVE  /\ slot' = [slot EXCEPT ![s] = slot'[s]] /\ UserLocals(s)'
             /\ slot'[s].step \notin {"user.insert", "user.update"}
  <2>1. /\ slot' = [slot EXCEPT ![s] = slot'[s]]
        /\ slot'[s] = [step |-> "user.welcome", who |-> slot[s].who, role |-> role]
    BY <1>2, PutIn
  <2> QED
    BY <2>1 DEF UserLocals, At
<1>3. ASSUME NEW step \in {"verify.mark", "verify.expireAll"},
             Continue(s, [step |-> step, who |-> slot[s].who]), slot[s].who \in People
      PROVE  /\ slot' = [slot EXCEPT ![s] = slot'[s]] /\ UserLocals(s)'
             /\ slot'[s].step \notin {"user.insert", "user.update"}
  <2>1. /\ slot' = [slot EXCEPT ![s] = slot'[s]]
        /\ slot'[s] = [step |-> step, who |-> slot[s].who]
    BY <1>3, PutIn
  <2> QED
    BY <1>3, <2>1 DEF UserLocals, At
<1>4. /\ slot[s].step \in UserSteps
      /\ disturbed' = disturbed /\ outdated' = outdated /\ granted' = granted
      /\ InsertUser(s) \/ UpdateUser(s) \/ MarkEmailVerified(s) \/ user' = user
      /\ InsertUser(s) \/ first' = first
  BY DEF UsersStep, InsertUser, Welcome, UpdateUser, SpendVerification, MarkEmailVerified,
         ExpireVerifications, UserSteps, At, Finish, Continue
<1>5. slot[s].step \in {"verify.spend", "verify.mark"} => slot[s].who \in People
  BY DEF UserRows, UserLocals
<1>6. CASE InsertUser(s)
  BY <1>1, <1>2, <1>4, <1>6 DEF InsertUser
<1>7. CASE SpendVerification(s) \/ MarkEmailVerified(s)
  BY <1>1, <1>3, <1>4, <1>5, <1>7 DEF SpendVerification, MarkEmailVerified, At
<1>8. CASE Welcome(s) \/ UpdateUser(s) \/ ExpireVerifications(s)
  BY <1>1, <1>4, <1>8 DEF Welcome, UpdateUser, ExpireVerifications
<1> QED
  BY <1>6, <1>7, <1>8 DEF UsersStep

\* The three that do keep the shape of rows.
LEMMA UserWritten ==
  ASSUME HandlersInv, UserRows, NEW s \in Slots,
         InsertUser(s) \/ UpdateUser(s) \/ MarkEmailVerified(s)
  PROVE  /\ user' \in [People -> UserRow]
         /\ \A p \in People : ~user'[p].registered => user'[p].role = "user" /\ ~user'[p].active
<1>1. CASE InsertUser(s)
  <2>1. PICK p \in People : p = slot[s].who
    BY <1>1 DEF InsertUser, UserRows, UserLocals, At
  <2>2. PICK row : row = [registered |-> TRUE, role |-> slot[s].role, active |-> TRUE,
                          verified |-> FALSE]
    OBVIOUS
  <2>3. row \in UserRow /\ row.registered
    BY <1>1, <2>2 DEF InsertUser, UserRows, UserLocals, At, UserRow
  <2>4. user' = user \/ user' = [user EXCEPT ![p] = row]
    BY <1>1, <2>1, <2>2 DEF InsertUser
  <2> QED
    BY <2>3, <2>4 DEF UserRows
<1>2. CASE UpdateUser(s)
  <2>1. PICK p \in People : p = slot[s].who
    BY <1>2 DEF UpdateUser, UserRows, UserLocals, At
  <2>2. PICK row : row = slot[s].row
    OBVIOUS
  <2>3. row \in UserRow /\ row.registered /\ user' = [user EXCEPT ![p] = row]
    BY <1>2, <2>1, <2>2 DEF UpdateUser, UserRows, UserLocals, At
  <2> QED
    BY <2>3 DEF UserRows
<1>3. CASE MarkEmailVerified(s)
  <2>1. PICK p \in People : p = slot[s].who
    BY <1>3 DEF MarkEmailVerified, UserRows, UserLocals, At
  <2>2. user' = [user EXCEPT ![p].verified = TRUE]
    BY <1>3, <2>1 DEF MarkEmailVerified
  <2> QED
    BY <2>2 DEF UserRows, UserRow
<1> QED
  BY <1>1, <1>2, <1>3

\* What takes one call writes no row of a user.
LEMMA UserCalled ==
  ASSUME NEW p, NEW role, TakeBadge(p) \/ ResendVerification(p) \/ BadgeLapses(p, role)
  PROVE  UNCHANGED <<user, first, granted, outdated, slot>>
BY DEF TakeBadge, ResendVerification, BadgeLapses, Happens

\* Every step keeps the shape of users and of the locals about them.
LEMMA UserRowsNext ==
  ASSUME UserRows, HandlersInv, [ServiceNext]_ServiceVars
  PROVE  UserRows'
<1>1. CASE UNCHANGED userVars /\ Elsewhere(UserSteps)
  BY <1>1 DEF UserRows, UserLocals, Elsewhere, UserSteps, userVars, At
<1>2. CASE UsersNext
  <2>1. ASSUME NEW s \in Slots, slot' = [slot EXCEPT ![s] = slot'[s]], UserLocals(s)'
        PROVE  \A r \in Slots : UserLocals(r)'
    <3>1. \A r \in Slots \ {s} : slot'[r] = slot[r]
      BY <2>1 DEF HandlersInv
    <3> QED
      BY <2>1, <3>1 DEF UserRows, UserLocals, At
  <2>2. ASSUME NEW s \in Slots, UsersRequest(s) PROVE UserRows'
    <3>1. \A r \in Slots : UserLocals(r)'
      BY <2>1, <2>2, UserRequested
    <3> QED
      BY <2>2, <3>1, UserRequested DEF UserRows
  <2>3. ASSUME NEW s \in Slots, UsersStep(s) PROVE UserRows'
    <3>1. \A r \in Slots : UserLocals(r)'
      BY <2>1, <2>3, UserStepped
    <3>2. CASE user' = user
      BY <3>1, <3>2 DEF UserRows
    <3>3. CASE InsertUser(s) \/ UpdateUser(s) \/ MarkEmailVerified(s)
      BY <3>1, <3>3, UserWritten DEF UserRows
    <3> QED
      BY <2>3, <3>2, <3>3, UserStepped
  <2>4. ASSUME UNCHANGED <<user, slot>> PROVE UserRows'
    BY <2>4 DEF UserRows, UserLocals, At
  <2> QED
    BY <1>2, <2>2, <2>3, <2>4, UserCalled DEF UsersNext
<1> QED
  BY <1>1, <1>2, NotUsers

\* Users keep their shape for good.
LEMMA UserRowsAlways == ServiceSpec => []UserRows
<1>1. ServiceInit => UserRows
  BY DEF ServiceInit, RequestsInit, UsersInit, UserRows, UserRow, UserLocals, NoUser, Roles, At, Idle
<1> QED
  BY <1>1, HandlersAlways, UserRowsNext, PTL DEF ServiceSpec

-----------------------------------------------------------------------------
(* Users: an administrator remains *)

\* Whoever administers in turn leaves an administrator, because nobody takes the
\* role or the account away from themselves.
LEMMA RequestsFit ==
  ASSUME HandlersInv, UserRows, Administered, NEW s \in Slots, UsersRequest(s)
  PROVE  CarriesWhatFits(s)'
<1>1. ASSUME NEW p \in People, ReadToRegister(s, p) PROVE CarriesWhatFits(s)'
  <2>1. slot'[s] = [step |-> "user.insert", who |-> p, role |-> BootstrapRole] /\ user' = user
    BY <1>1, PutIn DEF ReadToRegister, userVars
  <2> QED
    BY <2>1 DEF CarriesWhatFits, At, BootstrapRole, Registered
<1>2. ASSUME NEW p \in People, ReadToVerify(s, p) PROVE CarriesWhatFits(s)'
  <2>1. slot'[s] = [step |-> "verify.spend", who |-> p]
    BY <1>2, PutIn DEF ReadToVerify
  <2> QED
    BY <2>1 DEF CarriesWhatFits, At
<1>3. ASSUME NEW p \in People, NEW row \in UserRow, p \in Registered,
             slot'[s] = [step |-> "user.update", who |-> p, row |-> row],
             Leaves(p, row)', row.role = "admin" => p \in first' \cup granted'
      PROVE  CarriesWhatFits(s)'
  BY <1>3 DEF CarriesWhatFits, At
<1>4. ASSUME NEW p \in People, ReadToUpdateProfile(s, p) PROVE CarriesWhatFits(s)'
  <2>1. /\ slot'[s] = [step |-> "user.update", who |-> p, row |-> user[p]]
        /\ UNCHANGED userVars /\ p \in Registered /\ user[p] \in UserRow
    BY <1>4, PutIn DEF ReadToUpdateProfile, UserRows
  <2>2. Leaves(p, user[p])'
    BY <2>1 DEF Leaves, Administered, IsAdministrator, userVars
  <2> QED
    BY <1>3, <2>1, <2>2 DEF Administered, userVars
<1>5. ASSUME NEW a \in People, NEW p \in People, NEW role \in Roles,
             ReadUserToSetRole(s, a, p, role)
      PROVE  CarriesWhatFits(s)'
  <2>1. PICK row : row = [user[p] EXCEPT !.role = role]
    OBVIOUS
  <2>2. row \in UserRow /\ row.role = role /\ row.active = user[p].active
    BY <2>1 DEF UserRows, UserRow
  <2>3. /\ slot'[s] = [step |-> "user.update", who |-> p, row |-> row]
        /\ p \in Registered /\ user' = user
    BY <1>5, <2>1, PutIn DEF ReadUserToSetRole
  <2>4. ~outdated' => IsAdministrator(a)' /\ (a = p => role = "admin")
    BY <1>5 DEF ReadUserToSetRole, MayDemote, IsAdministrator
  <2>5. Leaves(p, row)'
    BY <2>2, <2>3, <2>4 DEF Leaves, IsAdministrator
  <2>6. row.role = "admin" => p \in first' \cup granted'
    BY <1>5, <2>2 DEF ReadUserToSetRole
  <2> QED
    BY <1>3, <2>2, <2>3, <2>5, <2>6
<1>6. ASSUME NEW a \in People, NEW p \in People, NEW active \in BOOLEAN,
             ReadUserToSetStatus(s, a, p, active)
      PROVE  CarriesWhatFits(s)'
  <2>1. PICK row : row = [user[p] EXCEPT !.active = active]
    OBVIOUS
  <2>2. row \in UserRow /\ row.active = active /\ row.role = user[p].role
    BY <2>1 DEF UserRows, UserRow
  <2>3. /\ slot'[s] = [step |-> "user.update", who |-> p, row |-> row]
        /\ p \in Registered /\ UNCHANGED <<user, first, granted>>
    BY <1>6, <2>1, PutIn DEF ReadUserToSetStatus
  <2>4. ~outdated' => IsAdministrator(a)' /\ (a = p => active)
    BY <1>6 DEF ReadUserToSetStatus, MayDemote, IsAdministrator
  <2>5. Leaves(p, row)'
    BY <2>2, <2>3, <2>4 DEF Leaves, IsAdministrator
  <2>6. row.role = "admin" => p \in first' \cup granted'
    BY <2>2, <2>3 DEF Administered
  <2> QED
    BY <1>3, <2>2, <2>3, <2>5, <2>6
<1> QED
  BY <1>1, <1>2, <1>4, <1>5, <1>6 DEF UsersRequest

\* The first account administers, and no later one takes that from it.
LEMMA InsertingAdministered ==
  ASSUME HandlersInv, UserRows, Administered, NEW s \in Slots, InsertUser(s), CarriesWhatFits(s)
  PROVE  Administered'
<1>1. CASE UNCHANGED <<user, first>>
  BY <1>1 DEF InsertUser, Administered, Registered, IsAdministrator
<1>2. PICK p \in People : p = slot[s].who
  BY DEF InsertUser, UserRows, UserLocals, At
<1>3. PICK row : row = [registered |-> TRUE, role |-> BootstrapRole, active |-> TRUE,
                        verified |-> FALSE]
  OBVIOUS
<1>4. CASE /\ p \notin Registered
           /\ user' = [user EXCEPT ![p] = row]
           /\ first' = IF Registered = {} THEN {p} ELSE first
  <2>1. /\ user'[p].role = BootstrapRole /\ user'[p].active
        /\ \A a \in People \ {p} : user'[a] = user[a]
    BY <1>3, <1>4 DEF UserRows
  <2>2. UNCHANGED <<granted, outdated>>
    BY DEF InsertUser
  <2>3. CASE Registered = {}
    <3>1. \A a \in People : user[a].role = "user"
      BY <2>3 DEF Registered, UserRows
    <3> QED
      BY <1>4, <2>1, <2>3, <3>1 DEF Administered, IsAdministrator, BootstrapRole
  <2>4. CASE Registered # {}
    <3>1. ~outdated => \E a \in People \ {p} : IsAdministrator(a)
      BY <1>4, <2>4 DEF Administered, IsAdministrator, Registered, UserRows
    <3> QED
      BY <1>4, <2>1, <2>2, <2>4, <3>1 DEF Administered, IsAdministrator, BootstrapRole
  <2> QED
    BY <2>3, <2>4
<1> QED
  BY <1>1, <1>2, <1>3, <1>4 DEF InsertUser, CarriesWhatFits, At

\* Any other row that is written leaves an administrator.
LEMMA UpdatingAdministered ==
  ASSUME HandlersInv, UserRows, Administered, NEW s \in Slots, CarriesWhatFits(s),
         UpdateUser(s) \/ MarkEmailVerified(s)
  PROVE  Administered'
<1>1. CASE UpdateUser(s)
  <2>1. PICK p \in People : p = slot[s].who
    BY <1>1 DEF UpdateUser, UserRows, UserLocals, At
  <2>2. PICK row : row = slot[s].row
    OBVIOUS
  <2>3. /\ user' = [user EXCEPT ![p] = row] /\ UNCHANGED <<first, granted, outdated>>
        /\ Leaves(p, row) /\ (row.role = "admin" => p \in first \cup granted)
    BY <1>1, <2>1, <2>2 DEF UpdateUser, CarriesWhatFits
  <2>4. user'[p] = row /\ \A a \in People \ {p} : user'[a] = user[a]
    BY <2>3 DEF UserRows
  <2>5. ~outdated => \E a \in People : IsAdministrator(a)'
    BY <2>3, <2>4 DEF Leaves, IsAdministrator
  <2>6. \A a \in People : user'[a].role = "admin" => a \in first' \cup granted'
    BY <2>3, <2>4 DEF Administered
  <2> QED
    BY <2>3, <2>5, <2>6 DEF Administered
<1>2. CASE MarkEmailVerified(s)
  <2>1. \A a \in People :
          /\ user'[a].registered = user[a].registered
          /\ user'[a].role = user[a].role /\ user'[a].active = user[a].active
    BY <1>2 DEF MarkEmailVerified, UserRows, UserRow
  <2>2. Registered' = Registered /\ UNCHANGED <<first, granted, outdated>>
    BY <1>2, <2>1 DEF MarkEmailVerified, Registered
  <2> QED
    BY <2>1, <2>2 DEF Administered, IsAdministrator
<1> QED
  BY <1>1, <1>2

\* Every step in turn leaves an administrator and locals that fit.
LEMMA AdministeredNext ==
  ASSUME UserRows, HandlersInv, AdministeredInv, [ServiceNext]_ServiceVars
  PROVE  AdministeredInv'
<1> SUFFICES ASSUME InTurn' PROVE Administered' /\ \A s \in Slots : CarriesWhatFits(s)'
  BY DEF AdministeredInv
<1>1. InTurn /\ Administered /\ \A s \in Slots : CarriesWhatFits(s)
  BY Undisturbed DEF AdministeredInv
<1>2. ASSUME UNCHANGED <<user, first, granted, outdated>>
      PROVE  /\ Administered'
             /\ \A s \in Slots : slot'[s] = slot[s] => CarriesWhatFits(s)'
  BY <1>1, <1>2 DEF Administered, CarriesWhatFits, Leaves, IsAdministrator, BootstrapRole, Registered, At
<1>3. CASE UNCHANGED userVars /\ Elsewhere(UserSteps)
  <2>1. \A s \in Slots : slot'[s].step \in UserSteps => slot'[s] = slot[s]
    BY <1>3 DEF Elsewhere
  <2>2. \A s \in Slots : slot'[s].step \notin UserSteps => CarriesWhatFits(s)'
    BY DEF CarriesWhatFits, At, UserSteps
  <2> QED
    BY <1>2, <1>3, <2>1, <2>2 DEF userVars
<1>4. ASSUME NEW s \in Slots, slot' = [slot EXCEPT ![s] = slot'[s]], CarriesWhatFits(s)',
             \A r \in Slots \ {s} : At(r, "idle")
      PROVE  \A r \in Slots : CarriesWhatFits(r)'
  BY <1>4 DEF HandlersInv, CarriesWhatFits, At
<1>5. CASE UsersNext
  <2>1. ASSUME NEW s \in Slots, At(s, "idle"), UsersRequest(s)
        PROVE  Administered' /\ \A r \in Slots : CarriesWhatFits(r)'
    <3>1. \A r \in Slots \ {s} : At(r, "idle")
      BY <2>1 DEF UsersRequest, ReadToRegister, ReadToVerify, ReadToUpdateProfile,
                  ReadUserToSetRole, ReadUserToSetStatus, Begin, InTurn
    <3>2. Administered'
      BY <1>1, <2>1, UserRequested DEF Administered, IsAdministrator, Registered
    <3> QED
      BY <1>1, <1>4, <2>1, <3>1, <3>2, RequestsFit, UserRequested
  <2>2. ASSUME NEW s \in Slots, UsersStep(s)
        PROVE  Administered' /\ \A r \in Slots : CarriesWhatFits(r)'
    <3>1. \A r \in Slots \ {s} : At(r, "idle")
      BY <1>1, <2>2, UserStepped, StepsApart DEF HandlersInv, OneBusy, At
    <3>2. CarriesWhatFits(s)'
      BY <2>2, UserStepped DEF CarriesWhatFits, At
    <3>3. Administered'
      <4>1. CASE InsertUser(s) \/ UpdateUser(s) \/ MarkEmailVerified(s)
        BY <1>1, <4>1, InsertingAdministered, UpdatingAdministered
      <4>2. CASE ~InsertUser(s) /\ ~UpdateUser(s) /\ ~MarkEmailVerified(s)
        BY <1>2, <2>2, <4>2, UserStepped
      <4> QED
        BY <4>1, <4>2
    <3> QED
      BY <1>4, <2>2, <3>1, <3>2, <3>3, UserStepped
  <2>3. ASSUME NEW p, NEW role, TakeBadge(p) \/ ResendVerification(p) \/ BadgeLapses(p, role)
        PROVE  Administered' /\ \A r \in Slots : CarriesWhatFits(r)'
    BY <1>2, <2>3, UserCalled
  <2> QED
    BY <1>5, <2>1, <2>2, <2>3 DEF UsersNext, Free
<1> QED
  BY <1>3, <1>5, NotUsers

\* As long as requests come one after the other and nobody acts on an access
\* token that has outlived their role, the installation always has an
\* administrator, and nobody is one whom no administrator made one but for the
\* person who registered first.
THEOREM SomebodyAdministers == ServiceSpec => []AnAdministratorRemains
<1>1. ServiceInit => AdministeredInv
  <2> SUFFICES ASSUME ServiceInit PROVE Administered /\ \A s \in Slots : CarriesWhatFits(s)
    BY DEF AdministeredInv
  <2>1. Registered = {} /\ \A p \in People : user[p].role = "user"
    BY DEF ServiceInit, UsersInit, NoUser, Registered
  <2> QED
    BY <2>1 DEF ServiceInit, RequestsInit, Administered, CarriesWhatFits, At, Idle
<1>2. AdministeredInv => AnAdministratorRemains
  BY DEF AdministeredInv, Administered, AnAdministratorRemains
<1> QED
  BY <1>1, <1>2, HandlersAlways, UserRowsAlways, AdministeredNext, PTL DEF ServiceSpec

-----------------------------------------------------------------------------
(* Expense reports: what is booked *)

Decisions == {"approved", "rejected", "reimbursed"}

ReportRow == [status : ExpenseStatuses \cup {"none", "gone"}, total : Nat, decided : BOOLEAN]

\* The books owe what was approved until it is paid out.
Booked(status, sum) ==
  /\ booked["approved"] = IF status \in Postings THEN sum ELSE 0
  /\ booked["reimbursed"] = IF status = "reimbursed" THEN sum ELSE 0

\* The row of a report fits its lines, and names who decided if somebody did.
ReportFits ==
  /\ report \in ReportRow /\ claimed \in Nat
  /\ ReportOnFile => report.total = claimed /\ (report.decided <=> report.status \in Decisions)

\* What a handler read is still so when it writes, and it posts what is missing.
ReportCarried(s) ==
  /\ At(s, "expense.update") =>
       /\ ReportOnFile /\ ExpenseEditable(report.status)
       /\ slot[s].row \in ReportRow /\ slot[s].lines \in Nat
       /\ slot[s].row.status = report.status /\ slot[s].row.decided = report.decided
       /\ slot[s].row.total = IF slot[s].lines = 0 THEN claimed ELSE slot[s].lines
  /\ At(s, "expense.writeStatus") =>
       /\ ReportOnFile /\ slot[s].row \in ReportRow
       /\ <<report.status, slot[s].row.status>> \in ExpenseTransitions
       /\ slot[s].row.total = claimed
       /\ slot[s].row.decided <=> slot[s].row.status \in Decisions
  /\ At(s, "expense.post") =>
       /\ slot[s].what = report.status /\ slot[s].amount = claimed
       /\ \/ /\ report.status = "approved"
             /\ booked["approved"] = 0 /\ booked["reimbursed"] = 0
          \/ /\ report.status = "reimbursed"
             /\ booked["approved"] = claimed /\ booked["reimbursed"] = 0
  /\ At(s, "expense.delete") => report.status = "draft"

Posting(s) == At(s, "expense.post")

ClaimsInv ==
  /\ booked = [p \in Postings |-> booked[p]]
  /\ InTurn =>
       /\ ReportFits
       /\ \A s \in Slots : ReportCarried(s)
       /\ (\A s \in Slots : ~Posting(s)) => Booked(report.status, claimed)

\* What a request reads fits when it has been read.
LEMMA ReportRead ==
  ASSUME HandlersInv, ReportFits, NEW s \in Slots, ExpensesRequest(s)
  PROVE  /\ slot' = [slot EXCEPT ![s] = slot'[s]]
         /\ UNCHANGED expenseVars /\ ~Posting(s)' /\ ReportCarried(s)'
<1>1. ASSUME NEW n \in 0..MaxClaim, ReadReportToUpdate(s, n)
      PROVE  /\ slot' = [slot EXCEPT ![s] = slot'[s]]
             /\ UNCHANGED expenseVars /\ ~Posting(s)' /\ ReportCarried(s)'
  <2>1. PICK row : row = [report EXCEPT !.total = IF n = 0 THEN @ ELSE n]
    OBVIOUS
  <2>2. /\ row \in ReportRow /\ row.status = report.status /\ row.decided = report.decided
        /\ row.total = IF n = 0 THEN report.total ELSE n
    BY <2>1, MaxClaimAssumption DEF ReportFits, ReportRow
  <2>3. /\ slot' = [slot EXCEPT ![s] = slot'[s]]
        /\ slot'[s] = [step |-> "expense.update", lines |-> n, row |-> row]
    BY <1>1, <2>1, PutIn DEF ReadReportToUpdate
  <2>4. UNCHANGED <<report, claimed, booked>> /\ ReportOnFile /\ ExpenseEditable(report.status)
    BY <1>1 DEF ReadReportToUpdate, expenseVars
  <2> QED
    BY <2>2, <2>3, <2>4, MaxClaimAssumption
       DEF ReportCarried, ReportFits, ReportOnFile, Posting, At, expenseVars
<1>2. ASSUME NEW status \in ExpenseStatuses, ReadReportToSetStatus(s, status)
      PROVE  /\ slot' = [slot EXCEPT ![s] = slot'[s]]
             /\ UNCHANGED expenseVars /\ ~Posting(s)' /\ ReportCarried(s)'
  <2>1. PICK half : half = [report EXCEPT !.status = status]
    OBVIOUS
  <2>2. PICK row : row = [half EXCEPT !.decided = Decided(status)]
    OBVIOUS
  <2>3. UNCHANGED <<report, claimed, booked>> /\ ReportOnFile
        /\ <<report.status, status>> \in ExpenseTransitions
    BY <1>2 DEF ReadReportToSetStatus, expenseVars
  <2>4. Decided(status) \in BOOLEAN /\ (Decided(status) <=> status \in Decisions)
    BY <2>3 DEF Decided, Decisions, ExpenseTransitions, ReportFits, ReportRow
  <2>5. /\ row \in ReportRow /\ row.status = status /\ row.total = report.total
        /\ row.decided <=> status \in Decisions
    BY <2>1, <2>2, <2>4 DEF ReportFits, ReportRow
  <2>6. row = [report EXCEPT !.status = status, !.decided = Decided(status)]
    BY <2>1, <2>2, Zenon
  <2>7. Begin(s, "expense.status", [step |-> "expense.writeStatus", row |-> row])
    BY <1>2, <2>6, Zenon DEF ReadReportToSetStatus
  <2>8. /\ slot' = [slot EXCEPT ![s] = slot'[s]]
        /\ slot'[s] = [step |-> "expense.writeStatus", row |-> row]
    BY <2>7, PutIn
  <2> QED
    BY <2>3, <2>5, <2>8 DEF ReportCarried, ReportFits, ReportOnFile, Posting, At, expenseVars
<1>3. ASSUME ReadReportToDelete(s)
      PROVE  /\ slot' = [slot EXCEPT ![s] = slot'[s]]
             /\ UNCHANGED expenseVars /\ ~Posting(s)' /\ ReportCarried(s)'
  <2>1. /\ slot' = [slot EXCEPT ![s] = slot'[s]]
        /\ slot'[s] = [step |-> "expense.delete"]
    BY <1>3, PutIn DEF ReadReportToDelete
  <2> QED
    BY <1>3, <2>1 DEF ReadReportToDelete, ReportCarried, Posting, At, expenseVars
<1> QED
  BY <1>1, <1>2, <1>3 DEF ExpensesRequest

\* A step of the only handler in flight leaves row, lines and books in agreement,
\* or goes on to post what is missing.
LEMMA ReportStepped ==
  ASSUME HandlersInv, booked = [p \in Postings |-> booked[p]], ReportFits,
         NEW s \in Slots, ReportCarried(s), ExpensesStep(s),
         ~Posting(s) => Booked(report.status, claimed)
  PROVE  /\ slot' = [slot EXCEPT ![s] = slot'[s]]
         /\ ReportFits' /\ ReportCarried(s)'
         /\ ~Posting(s)' => Booked(report.status, claimed)'
<1>1. ASSUME Finish(s)
      PROVE  /\ slot' = [slot EXCEPT ![s] = slot'[s]]
             /\ ReportCarried(s)' /\ ~Posting(s)'
  BY <1>1, PutIdle DEF Idle, ReportCarried, Posting, At
<1>2. CASE UpdateReport(s)
  <2>1. /\ report' = slot[s].row /\ booked' = booked
        /\ claimed' = IF slot[s].lines = 0 THEN claimed ELSE slot[s].lines
        /\ Finish(s) /\ At(s, "expense.update")
    BY <1>2 DEF UpdateReport
  <2>2. /\ report.status \in {"draft", "rejected"}
        /\ booked["approved"] = 0 /\ booked["reimbursed"] = 0
    BY <2>1 DEF ReportCarried, ExpenseEditable, Booked, Postings, Posting, At
  <2>3. /\ report' \in ReportRow /\ report'.status = report.status
        /\ report'.decided = report.decided /\ claimed' \in Nat /\ report'.total = claimed'
        /\ ReportOnFile
    BY <2>1 DEF ReportCarried, ReportFits
  <2>4. ReportFits'
    BY <2>3 DEF ReportFits, ReportOnFile
  <2>5. Booked(report.status, claimed)'
    BY <2>1, <2>2, <2>3 DEF Booked, Postings
  <2> QED
    BY <1>1, <2>1, <2>4, <2>5
<1>3. CASE WriteReportStatus(s)
  <2>1. /\ report' = slot[s].row /\ booked' = booked /\ claimed' = claimed
        /\ At(s, "expense.writeStatus")
    BY <1>3 DEF WriteReportStatus
  <2>2. /\ <<report.status, report'.status>> \in ExpenseTransitions
        /\ report' \in ReportRow /\ report'.total = claimed
        /\ report'.decided <=> report'.status \in Decisions
    BY <2>1 DEF ReportCarried
  <2>3. ReportFits'
    BY <2>1, <2>2 DEF ReportFits
  <2>4. Booked(report.status, claimed)
    BY <2>1 DEF Posting, At
  <2>5. CASE report'.status \in Postings
    <3>1. Continue(s, [step |-> "expense.post", what |-> report'.status, amount |-> claimed])
      BY <1>3, <2>1, <2>2, <2>5 DEF WriteReportStatus
    <3>2. /\ slot' = [slot EXCEPT ![s] = slot'[s]]
          /\ slot'[s] = [step |-> "expense.post", what |-> report'.status, amount |-> claimed]
      BY <3>1, PutIn
    <3>3. \/ /\ report'.status = "approved"
             /\ booked["approved"] = 0 /\ booked["reimbursed"] = 0
          \/ /\ report'.status = "reimbursed"
             /\ booked["approved"] = claimed /\ booked["reimbursed"] = 0
      BY <2>2, <2>4, <2>5 DEF ExpenseTransitions, Postings, Booked
    <3> QED
      BY <2>1, <2>3, <3>2, <3>3 DEF ReportCarried, Posting, At
  <2>6. CASE report'.status \notin Postings
    <3>1. Finish(s)
      BY <1>3, <2>1, <2>6 DEF WriteReportStatus
    <3>2. Booked(report.status, claimed)'
      BY <2>1, <2>2, <2>4, <2>6 DEF ExpenseTransitions, Postings, Booked
    <3> QED
      BY <1>1, <2>3, <3>1, <3>2
  <2> QED
    BY <2>5, <2>6
<1>4. CASE PostExpense(s)
  <2>1. /\ booked' = [booked EXCEPT ![slot[s].what] = IF @ = 0 THEN slot[s].amount ELSE @]
        /\ UNCHANGED <<report, claimed>> /\ Finish(s) /\ At(s, "expense.post")
    BY <1>4 DEF PostExpense
  <2>2. booked' = [booked EXCEPT ![report.status] = claimed]
    BY <2>1 DEF ReportCarried
  <2>3. Booked(report.status, claimed)'
    BY <2>1, <2>2 DEF ReportCarried, Booked, Postings
  <2> QED
    BY <1>1, <2>1, <2>3 DEF ReportFits, ReportOnFile
<1>5. CASE DeleteReport(s)
  <2>1. /\ report' = [report EXCEPT !.status = "gone"] /\ claimed' = 0 /\ booked' = booked
        /\ Finish(s) /\ At(s, "expense.delete")
    BY <1>5 DEF DeleteReport
  <2>2. report.status = "draft" /\ Booked("draft", claimed)
    BY <2>1 DEF ReportCarried, Posting, At
  <2>3. report' \in ReportRow /\ report'.status = "gone"
    BY <2>1 DEF ReportFits, ReportRow
  <2> QED
    BY <1>1, <2>1, <2>2, <2>3 DEF ReportFits, ReportOnFile, Booked, Postings, ExpenseStatuses
<1>6. CASE FailExpense(s)
  BY <1>1, <1>6 DEF FailExpense, expenseVars, ReportCarried, ReportOnFile, At
<1> QED
  BY <1>2, <1>3, <1>4, <1>5, <1>6 DEF ExpensesStep

\* The books have two places for a report, and what is there stays there.
LEMMA BookedStays ==
  ASSUME booked = [p \in Postings |-> booked[p]], HandlersInv, [ServiceNext]_ServiceVars
  PROVE  /\ booked' = [p \in Postings |-> booked'[p]]
         /\ \A p \in Postings : booked[p] # 0 => booked'[p] = booked[p]
<1>1. CASE booked' = booked
  BY <1>1
<1>2. ASSUME NEW s, PostExpense(s)
      PROVE  /\ booked' = [p \in Postings |-> booked'[p]]
             /\ \A p \in Postings : booked[p] # 0 => booked'[p] = booked[p]
  BY <1>2 DEF PostExpense
<1>3. CASE ExpensesNext
  BY <1>1, <1>2, <1>3 DEF ExpensesNext, CreateReport, ExpensesRequest, ExpensesStep,
     ReadReportToUpdate, ReadReportToSetStatus, ReadReportToDelete, UpdateReport,
     WriteReportStatus, DeleteReport, FailExpense, expenseVars
<1> QED
  BY <1>1, <1>3, NotExpenses DEF expenseVars

\* What is so of the only handler in flight is so of every slot.
LEMMA OnlyOneCarries ==
  ASSUME HandlersInv, NEW s \in Slots, slot' = [slot EXCEPT ![s] = slot'[s]],
         \A r \in Slots \ {s} : At(r, "idle")
  PROVE  \A r \in Slots \ {s} : At(r, "idle")'
BY DEF HandlersInv, At

\* Steps in turn keep rows, lines and books in agreement.
LEMMA ClaimsNext ==
  ASSUME HandlersInv, ClaimsInv, [ServiceNext]_ServiceVars
  PROVE  ClaimsInv'
<1> SUFFICES ASSUME InTurn'
    PROVE  /\ ReportFits'
           /\ \A s \in Slots : ReportCarried(s)'
           /\ (\A s \in Slots : ~Posting(s)') => Booked(report.status, claimed)'
  BY BookedStays DEF ClaimsInv
<1>1. /\ InTurn /\ ReportFits /\ \A s \in Slots : ReportCarried(s)
      /\ (\A s \in Slots : ~Posting(s)) => Booked(report.status, claimed)
  BY Undisturbed DEF ClaimsInv
<1>2. ASSUME NEW s \in Slots, slot' = [slot EXCEPT ![s] = slot'[s]], ReportCarried(s)',
             \A r \in Slots \ {s} : At(r, "idle")
      PROVE  /\ \A r \in Slots : ReportCarried(r)'
             /\ \A r \in Slots \ {s} : ~Posting(r) /\ ~Posting(r)'
  BY <1>2, OnlyOneCarries DEF ReportCarried, Posting, At
<1>3. CASE UNCHANGED expenseVars /\ Elsewhere(ExpenseSteps)
  <2>1. ReportFits' /\ (Booked(report.status, claimed) => Booked(report.status, claimed)')
    BY <1>1, <1>3 DEF ReportFits, ReportOnFile, Booked, expenseVars
  <2>2. ASSUME NEW s \in Slots PROVE ReportCarried(s)'
    <3>1. CASE slot'[s] = slot[s]
      BY <1>1, <1>3, <3>1 DEF ReportCarried, ReportOnFile, At, expenseVars
    <3>2. CASE slot'[s].step \notin ExpenseSteps
      BY <3>2 DEF ReportCarried, At, ExpenseSteps
    <3> QED
      BY <1>3, <3>1, <3>2 DEF Elsewhere
  <2>3. ASSUME NEW s \in Slots PROVE Posting(s) => Posting(s)'
    BY <1>3 DEF Elsewhere, Posting, At, ExpenseSteps, InTurn
  <2> QED
    BY <1>1, <2>1, <2>2, <2>3
<1>4. CASE ExpensesNext
  <2>1. ASSUME NEW n \in 1..MaxClaim, CreateReport(n)
        PROVE  /\ ReportFits'
               /\ \A s \in Slots : ReportCarried(s)'
               /\ (\A s \in Slots : ~Posting(s)') => Booked(report.status, claimed)'
    <3>1. slot' = slot /\ \A s \in Slots : At(s, "idle")
      BY <2>1 DEF CreateReport, Happens, Quiet, InTurn
    <3>2. report' = [status |-> "draft", total |-> n, decided |-> FALSE] /\ claimed' = n
          /\ booked' = booked /\ Booked("none", claimed)
      BY <1>1, <2>1, <3>1 DEF CreateReport, Posting, At
    <3>3. ReportFits'
      BY <3>2, MaxClaimAssumption DEF ReportFits, ReportRow, ReportOnFile, ExpenseStatuses, Decisions
    <3>4. Booked(report.status, claimed)'
      BY <3>2 DEF Booked, Postings
    <3> QED
      BY <3>1, <3>3, <3>4 DEF ReportCarried, At
  <2>2. ASSUME NEW s \in Slots, At(s, "idle"), ExpensesRequest(s)
        PROVE  /\ ReportFits'
               /\ \A r \in Slots : ReportCarried(r)'
               /\ (\A r \in Slots : ~Posting(r)') => Booked(report.status, claimed)'
    <3>1. \A r \in Slots \ {s} : At(r, "idle")
      BY <2>2 DEF ExpensesRequest, ReadReportToUpdate, ReadReportToSetStatus,
                  ReadReportToDelete, Begin, InTurn
    <3>2. /\ slot' = [slot EXCEPT ![s] = slot'[s]] /\ UNCHANGED expenseVars
          /\ ~Posting(s)' /\ ReportCarried(s)'
      BY <1>1, <2>2, ReportRead
    <3>3. /\ ReportFits'
          /\ Booked(report.status, claimed) => Booked(report.status, claimed)'
      BY <1>1, <3>2 DEF ReportFits, ReportOnFile, Booked, expenseVars
    <3>4. ~Posting(s)
      BY <2>2 DEF Posting, At
    <3> QED
      BY <1>1, <1>2, <3>1, <3>2, <3>3, <3>4
  <2>3. ASSUME NEW s \in Slots, ExpensesStep(s)
        PROVE  /\ ReportFits'
               /\ \A r \in Slots : ReportCarried(r)'
               /\ (\A r \in Slots : ~Posting(r)') => Booked(report.status, claimed)'
    <3>1. slot[s].step \in ExpenseSteps
      BY <2>3 DEF ExpensesStep, UpdateReport, WriteReportStatus, PostExpense, DeleteReport,
                  FailExpense, ExpenseSteps, At
    <3>2. \A r \in Slots \ {s} : At(r, "idle")
      BY <1>1, <3>1 DEF HandlersInv, OneBusy, ExpenseSteps, At
    <3>3. ~Posting(s) => Booked(report.status, claimed)
      BY <1>1, <3>2 DEF Posting, At
    <3>4. /\ slot' = [slot EXCEPT ![s] = slot'[s]]
          /\ ReportFits' /\ ReportCarried(s)'
          /\ ~Posting(s)' => Booked(report.status, claimed)'
      BY <1>1, <2>3, <3>3, ReportStepped DEF ClaimsInv
    <3> QED
      BY <1>2, <3>2, <3>4
  <2> QED
    BY <1>4, <2>1, <2>2, <2>3 DEF ExpensesNext, Free
<1> QED
  BY <1>3, <1>4, NotExpenses

\* Nobody has reported anything yet.
LEMMA ClaimsInitially == ServiceInit => ClaimsInv
<1> SUFFICES ASSUME ServiceInit PROVE ClaimsInv
  OBVIOUS
<1>1. /\ report = [status |-> "none", total |-> 0, decided |-> FALSE] /\ claimed = 0
      /\ booked = [p \in Postings |-> 0] /\ slot = [s \in Slots |-> Idle]
  BY DEF ServiceInit, ExpensesInit, RequestsInit
<1>2. ReportFits /\ Booked(report.status, claimed)
  BY <1>1 DEF ReportFits, ReportRow, ReportOnFile, ExpenseStatuses, Booked, Postings
<1>3. \A s \in Slots : ReportCarried(s)
  BY <1>1 DEF ReportCarried, At, Idle
<1> QED
  BY <1>1, <1>2, <1>3 DEF ClaimsInv

\* As long as requests come one after the other, a report names who decided it,
\* totals what its lines claim, and the books owe its employee what was approved
\* until it is paid out.
THEOREM ReportsAreBooked == ServiceSpec => []ClaimsAgree
<1>1. ClaimsInv => ClaimsAgree
  <2> SUFFICES ASSUME ClaimsInv, InTurn
      PROVE  /\ ReportOnFile => /\ report.total = claimed
                                /\ report.decided <=> report.status \in Decisions
             /\ Quiet => Booked(report.status, claimed)
    BY DEF ClaimsAgree, Decisions, Booked
  <2> QED
    BY DEF ClaimsInv, ReportFits, Quiet, Posting, At
<1> QED
  BY <1>1, ClaimsInitially, HandlersAlways, ClaimsNext, PTL DEF ServiceSpec

\* Whichever requests meet or are dropped, what is booked for a report is booked
\* for good.
THEOREM DecisionsAreBookedOnce == ServiceSpec => BookedOnce
<1>1. HandlersInv /\ ClaimsInv /\ [ServiceNext]_ServiceVars
      => [\A p \in Postings : booked[p] # 0 => booked'[p] = booked[p]]_booked
  BY BookedStays DEF ClaimsInv
<1> QED
  BY <1>1, ClaimsInitially, HandlersAlways, ClaimsNext, PTL DEF ServiceSpec, BookedOnce

-----------------------------------------------------------------------------
(* Quotes: one conversion of what was accepted *)

QuoteRow == [status : QuoteStatuses \cup {"none", "gone"}, total : Nat]

\* Locals keep the shape of the columns they are written to.
QuoteLocals(s) ==
  /\ At(s, "quote.update") => slot[s].total \in Nat /\ slot[s].lines \in Nat
  /\ At(s, "quote.writeStatus") => slot[s].status \in QuoteStatuses

\* Whatever overlaps: the rows keep their shape, and orders name a quote on file.
QuoteRows ==
  /\ quote \in QuoteRow /\ quoted \in Nat
  /\ raised = [o \in QuoteOrders |-> raised[o]]
  /\ Naming # {} => QuoteOnFile
  /\ \A s \in Slots : QuoteLocals(s)

\* What the rows say of each other in turn.
QuoteFits ==
  /\ QuoteOnFile => quote.total = quoted
  /\ quote.status = "accepted" => quoted = accepted
  /\ \A o, p \in Converted : o = p
  /\ \A o \in Converted :
       /\ quote.status = "accepted"
       /\ raised[o].total = accepted /\ raised[o].lines = accepted

\* What a handler read in turn is still so when it writes.
QuoteCarried(s) ==
  /\ At(s, "quote.update") =>
       /\ quote.status = "draft"
       /\ slot[s].total = IF slot[s].lines = 0 THEN quoted ELSE slot[s].lines
  /\ At(s, "quote.writeStatus") => <<quote.status, slot[s].status>> \in QuoteTransitions
  /\ At(s, "quote.delete") => quote.status = "draft"
  /\ At(s, "quote.lines") =>
       quote.status = "accepted" /\ Naming = {} /\ slot[s].total = accepted
  /\ At(s, "quote.insert") =>
       /\ quote.status = "accepted" /\ Naming = {}
       /\ slot[s].total = accepted /\ slot[s].lines = accepted

QuotesInv ==
  /\ QuoteRows
  /\ InTurn => QuoteFits /\ \A s \in Slots : QuoteCarried(s)

\* A request writes nothing, and what it reads fits.
LEMMA QuoteRead ==
  ASSUME HandlersInv, QuoteRows, NEW s \in Slots, QuotesRequest(s)
  PROVE  /\ slot' = [slot EXCEPT ![s] = slot'[s]]
         /\ UNCHANGED quoteVars /\ QuoteLocals(s)'
         /\ QuoteFits => QuoteCarried(s)'
<1>1. ASSUME NEW n \in 0..MaxQuoted, ReadQuoteToUpdate(s, n)
      PROVE  /\ slot' = [slot EXCEPT ![s] = slot'[s]]
             /\ UNCHANGED quoteVars /\ QuoteLocals(s)'
             /\ QuoteFits => QuoteCarried(s)'
  <2>1. /\ slot' = [slot EXCEPT ![s] = slot'[s]]
        /\ slot'[s] = [step |-> "quote.update", lines |-> n,
                       total |-> IF n = 0 THEN quote.total ELSE n]
    BY <1>1, PutIn DEF ReadQuoteToUpdate
  <2>2. n \in Nat /\ quote.total \in Nat
    BY MaxQuotedAssumption DEF QuoteRows, QuoteRow
  <2> QED
    BY <1>1, <2>1, <2>2 DEF ReadQuoteToUpdate, QuoteEditable, QuoteLocals, QuoteCarried,
       QuoteFits, quoteVars, At
<1>2. ASSUME NEW status \in QuoteStatuses, ReadQuoteToSetStatus(s, status)
      PROVE  /\ slot' = [slot EXCEPT ![s] = slot'[s]]
             /\ UNCHANGED quoteVars /\ QuoteLocals(s)'
             /\ QuoteFits => QuoteCarried(s)'
  <2>1. /\ slot' = [slot EXCEPT ![s] = slot'[s]]
        /\ slot'[s] = [step |-> "quote.writeStatus", status |-> status]
    BY <1>2, PutIn DEF ReadQuoteToSetStatus
  <2> QED
    BY <1>2, <2>1 DEF ReadQuoteToSetStatus, QuoteLocals, QuoteCarried, quoteVars, At
<1>3. ASSUME ReadQuoteToDelete(s)
      PROVE  /\ slot' = [slot EXCEPT ![s] = slot'[s]]
             /\ UNCHANGED quoteVars /\ QuoteLocals(s)'
             /\ QuoteFits => QuoteCarried(s)'
  <2>1. /\ slot' = [slot EXCEPT ![s] = slot'[s]] /\ slot'[s] = [step |-> "quote.delete"]
    BY <1>3, PutIn DEF ReadQuoteToDelete
  <2> QED
    BY <1>3, <2>1 DEF ReadQuoteToDelete, QuoteEditable, QuoteLocals, QuoteCarried, quoteVars, At
<1>4. ASSUME ReadQuoteToConvert(s)
      PROVE  /\ slot' = [slot EXCEPT ![s] = slot'[s]]
             /\ UNCHANGED quoteVars /\ QuoteLocals(s)'
             /\ QuoteFits => QuoteCarried(s)'
  <2>1. /\ slot' = [slot EXCEPT ![s] = slot'[s]]
        /\ slot'[s] = [step |-> "quote.lines", total |-> quote.total]
    BY <1>4, PutIn DEF ReadQuoteToConvert
  <2>2. UNCHANGED quoteVars /\ quote.status = "accepted" /\ Naming = {}
    BY <1>4 DEF ReadQuoteToConvert
  <2>3. Naming' = Naming
    BY <2>2 DEF Naming, quoteVars
  <2>4. QuoteFits => quote.total = accepted
    BY <2>2 DEF QuoteFits, QuoteOnFile, QuoteStatuses
  <2> QED
    BY <2>1, <2>2, <2>3, <2>4 DEF QuoteLocals, QuoteCarried, quoteVars, At
<1> QED
  BY <1>1, <1>2, <1>3, <1>4 DEF QuotesRequest

\* Rows that are as they were agree as they did.
LEMMA QuoteUnwritten ==
  ASSUME UNCHANGED quoteVars
  PROVE  /\ Naming' = Naming /\ Converted' = Converted
         /\ QuoteOnFile' = QuoteOnFile /\ (QuoteFits => QuoteFits')
BY DEF quoteVars, Naming, Converted, QuoteOnFile, QuoteFits

\* A step of a handler keeps orders to a quote on file, and the step of the only
\* one keeps rows and orders to what was accepted.
LEMMA QuoteStepped ==
  ASSUME HandlersInv, QuoteRows, NEW s \in Slots, QuotesStep(s)
  PROVE  /\ slot' = [slot EXCEPT ![s] = slot'[s]] /\ QuoteLocals(s)'
         /\ quote' \in QuoteRow /\ quoted' \in Nat
         /\ raised' = [o \in QuoteOrders |-> raised'[o]]
         /\ Naming' # {} => QuoteOnFile'
         /\ QuoteFits /\ QuoteCarried(s) => QuoteFits' /\ QuoteCarried(s)'
<1>1. ASSUME Finish(s)
      PROVE  /\ slot' = [slot EXCEPT ![s] = slot'[s]]
             /\ QuoteLocals(s)' /\ QuoteCarried(s)'
  BY <1>1, PutIdle DEF Idle, QuoteLocals, QuoteCarried, At
<1>2. CASE UpdateQuote(s)
  <2>1. /\ quote' = [quote EXCEPT !.total = slot[s].total]
        /\ quoted' = IF slot[s].lines = 0 THEN quoted ELSE slot[s].lines
        /\ accepted' = accepted /\ raised' = raised
        /\ Finish(s) /\ At(s, "quote.update") /\ QuoteOnFile
    BY <1>2 DEF UpdateQuote
  <2>2. /\ quote' \in QuoteRow /\ quoted' \in Nat
        /\ quote'.status = quote.status /\ quote'.total = slot[s].total
    BY <2>1 DEF QuoteRows, QuoteRow, QuoteLocals
  <2>3. Naming' = Naming /\ Converted' = Converted /\ QuoteOnFile'
    BY <2>1, <2>2 DEF Naming, Converted, QuoteOnFile
  <2>4. ASSUME QuoteFits, QuoteCarried(s) PROVE QuoteFits'
    BY <2>1, <2>2, <2>3, <2>4 DEF QuoteFits, QuoteCarried
  <2> QED
    BY <1>1, <2>1, <2>2, <2>3, <2>4 DEF QuoteRows
<1>3. CASE WriteQuoteStatus(s)
  <2>1. /\ quote' = [quote EXCEPT !.status = slot[s].status]
        /\ accepted' = IF slot[s].status = "accepted" THEN quoted ELSE accepted
        /\ quoted' = quoted /\ raised' = raised
        /\ Finish(s) /\ At(s, "quote.writeStatus") /\ QuoteOnFile
    BY <1>3 DEF WriteQuoteStatus
  <2>2. /\ quote' \in QuoteRow /\ quote'.status \in QuoteStatuses
        /\ quote'.status = slot[s].status /\ quote'.total = quote.total
    BY <2>1 DEF QuoteRows, QuoteRow, QuoteLocals
  <2>3. Naming' = Naming /\ Converted' = Converted /\ QuoteOnFile'
    BY <2>1, <2>2 DEF Naming, Converted, QuoteOnFile
  <2>4. ASSUME QuoteFits, QuoteCarried(s) PROVE QuoteFits'
    <3>1. <<quote.status, slot[s].status>> \in QuoteTransitions
      BY <2>1, <2>4 DEF QuoteCarried
    <3>2. quote.status # "accepted" /\ Converted = {}
      BY <2>4, <3>1 DEF QuoteTransitions, QuoteFits
    <3> QED
      BY <2>1, <2>2, <2>3, <2>4, <3>2 DEF QuoteFits
  <2> QED
    BY <1>1, <2>1, <2>2, <2>3, <2>4 DEF QuoteRows
<1>4. CASE DeleteQuote(s)
  <2>1. Finish(s) /\ accepted' = accepted /\ raised' = raised /\ At(s, "quote.delete")
    BY <1>4 DEF DeleteQuote
  <2>2. Naming' = Naming /\ Converted' = Converted
    BY <2>1 DEF Naming, Converted
  <2>3. CASE QuoteOnFile /\ Naming = {} /\ quote' = [status |-> "gone", total |-> 0] /\ quoted' = 0
    <3>1. Converted = {} /\ quote' \in QuoteRow /\ quote'.status = "gone"
      BY <2>3 DEF Converted, QuoteRow
    <3>2. QuoteFits'
      BY <2>2, <3>1 DEF QuoteFits, QuoteOnFile, QuoteStatuses
    <3> QED
      BY <1>1, <2>1, <2>2, <2>3, <3>1, <3>2 DEF QuoteRows
  <2>4. CASE UNCHANGED <<quote, quoted>>
    BY <1>1, <2>1, <2>4, QuoteUnwritten DEF QuoteRows, quoteVars
  <2> QED
    BY <1>4, <2>3, <2>4 DEF DeleteQuote
<1>5. CASE ReadQuoteLines(s)
  <2>1. UNCHANGED quoteVars /\ At(s, "quote.lines")
    BY <1>5 DEF ReadQuoteLines
  <2>2. CASE Finish(s)
    BY <1>1, <2>1, <2>2, QuoteUnwritten DEF QuoteRows, quoteVars
  <2>3. CASE Continue(s, [step |-> "quote.insert", total |-> slot[s].total, lines |-> quoted])
    <3>1. /\ slot' = [slot EXCEPT ![s] = slot'[s]]
          /\ slot'[s] = [step |-> "quote.insert", total |-> slot[s].total, lines |-> quoted]
      BY <2>3, PutIn
    <3>2. QuoteFits /\ QuoteCarried(s) => QuoteCarried(s)'
      BY <2>1, <3>1, QuoteUnwritten DEF QuoteFits, QuoteCarried, At, quoteVars
    <3> QED
      BY <2>1, <3>1, <3>2, QuoteUnwritten DEF QuoteRows, QuoteLocals, At, quoteVars
  <2> QED
    BY <1>5, <2>2, <2>3 DEF ReadQuoteLines
<1>6. ASSUME NEW o \in QuoteOrders, InsertConverted(s, o)
      PROVE  /\ slot' = [slot EXCEPT ![s] = slot'[s]] /\ QuoteLocals(s)'
             /\ quote' \in QuoteRow /\ quoted' \in Nat
             /\ raised' = [p \in QuoteOrders |-> raised'[p]]
             /\ Naming' # {} => QuoteOnFile'
             /\ QuoteFits /\ QuoteCarried(s) => QuoteFits' /\ QuoteCarried(s)'
  <2>1. Finish(s) /\ UNCHANGED <<quote, quoted, accepted>> /\ At(s, "quote.insert")
    BY <1>6 DEF InsertConverted
  <2>2. CASE UNCHANGED raised
    BY <1>1, <2>1, <2>2, QuoteUnwritten DEF QuoteRows, quoteVars
  <2>3. CASE QuoteOnFile /\ raised' = [raised EXCEPT
               ![o] = RaisedOrder("conversion", slot[s].total, slot[s].lines)]
    <3>1. /\ raised' = [p \in QuoteOrders |-> raised'[p]] /\ QuoteOnFile'
          /\ raised'[o] = RaisedOrder("conversion", slot[s].total, slot[s].lines)
          /\ \A p \in QuoteOrders \ {o} : raised'[p] = raised[p]
      BY <2>1, <2>3 DEF QuoteRows, QuoteOnFile
    <3>2. ASSUME QuoteFits, QuoteCarried(s) PROVE QuoteFits'
      <4>1. /\ quote.status = "accepted" /\ Naming = {}
            /\ slot[s].total = accepted /\ slot[s].lines = accepted
        BY <2>1, <3>2 DEF QuoteCarried
      <4>2. \A p \in QuoteOrders \ {o} : p \notin Naming'
        BY <3>1, <4>1 DEF Naming
      <4>3. \A p \in Converted' : p = o
        BY <4>2 DEF Converted, Naming
      <4>4. raised'[o].total = accepted /\ raised'[o].lines = accepted
        BY <3>1, <4>1 DEF RaisedOrder
      <4> QED
        BY <2>1, <3>2, <4>1, <4>3, <4>4 DEF QuoteFits, QuoteOnFile
    <3> QED
      BY <1>1, <2>1, <3>1, <3>2 DEF QuoteRows
  <2> QED
    BY <1>6, <2>2, <2>3 DEF InsertConverted
<1>7. CASE FailQuote(s)
  BY <1>1, <1>7, QuoteUnwritten DEF FailQuote, QuoteRows, quoteVars
<1> QED
  BY <1>2, <1>3, <1>4, <1>5, <1>6, <1>7 DEF QuotesStep

\* What takes one call: entering a quote, and entering or deleting an order that
\* names it.
LEMMA QuoteCalled ==
  ASSUME HandlersInv, QuoteRows, NEW n, NEW o,
         \/ n \in 1..MaxQuoted /\ CreateQuote(n)
         \/ o \in QuoteOrders /\ (DeleteRaised(o) \/ EnterOrder(o, n))
  PROVE  /\ slot' = slot /\ (InTurn' => Quiet)
         /\ quote' \in QuoteRow /\ quoted' \in Nat
         /\ raised' = [p \in QuoteOrders |-> raised'[p]]
         /\ Naming' # {} => QuoteOnFile'
         /\ QuoteFits => QuoteFits'
<1>1. slot' = slot /\ (InTurn' => Quiet)
  BY DEF CreateQuote, DeleteRaised, EnterOrder, Happens, InTurn
<1>2. CASE n \in 1..MaxQuoted /\ CreateQuote(n)
  <2>1. /\ quote.status = "none" /\ quote' = [status |-> "draft", total |-> n]
        /\ quoted' = n /\ UNCHANGED <<accepted, raised>> /\ n \in Nat
    BY <1>2, MaxQuotedAssumption DEF CreateQuote
  <2>2. Naming = {} /\ Naming' = Naming /\ Converted' = Converted /\ Converted = {}
    BY <2>1 DEF QuoteRows, QuoteOnFile, QuoteStatuses, Naming, Converted
  <2>3. quote' \in QuoteRow /\ QuoteFits'
    BY <2>1, <2>2 DEF QuoteRow, QuoteStatuses, QuoteFits
  <2> QED
    BY <1>1, <2>1, <2>2, <2>3 DEF QuoteRows
<1>3. CASE o \in QuoteOrders /\ DeleteRaised(o)
  <2>1. /\ raised' = [raised EXCEPT ![o] = NoOrder]
        /\ UNCHANGED <<quote, quoted, accepted>> /\ o \in Naming
    BY <1>3 DEF DeleteRaised
  <2>2. /\ raised' = [p \in QuoteOrders |-> raised'[p]] /\ raised'[o] = NoOrder
        /\ \A p \in QuoteOrders \ {o} : raised'[p] = raised[p]
    BY <1>3, <2>1 DEF QuoteRows
  <2>3. /\ Converted' \subseteq Converted /\ o \notin Converted' /\ QuoteOnFile /\ QuoteOnFile'
    BY <2>1, <2>2 DEF Converted, Naming, QuoteRows, QuoteOnFile
  <2>4. \A p \in Converted' : raised'[p] = raised[p]
    BY <2>2, <2>3 DEF Converted, Naming
  <2>5. QuoteFits => QuoteFits'
    BY <2>1, <2>3, <2>4 DEF QuoteFits
  <2> QED
    BY <1>1, <2>1, <2>2, <2>3, <2>5 DEF QuoteRows
<1>4. CASE o \in QuoteOrders /\ EnterOrder(o, n)
  <2>1. /\ raised' = [raised EXCEPT ![o] = RaisedOrder("hand", n, n)]
        /\ UNCHANGED <<quote, quoted, accepted>> /\ QuoteOnFile /\ raised[o] = NoOrder
    BY <1>4 DEF EnterOrder
  <2>2. /\ raised' = [p \in QuoteOrders |-> raised'[p]] /\ raised'[o].by = "hand"
        /\ \A p \in QuoteOrders \ {o} : raised'[p] = raised[p]
    BY <1>4, <2>1 DEF QuoteRows, RaisedOrder
  <2>3. Converted' \subseteq Converted /\ o \notin Converted' /\ QuoteOnFile'
    BY <2>1, <2>2 DEF Converted, Naming, QuoteOnFile
  <2>4. \A p \in Converted' : raised'[p] = raised[p]
    BY <2>2, <2>3 DEF Converted, Naming
  <2>5. QuoteFits => QuoteFits'
    BY <2>1, <2>3, <2>4 DEF QuoteFits
  <2> QED
    BY <1>1, <2>1, <2>2, <2>3, <2>5 DEF QuoteRows
<1> QED
  BY <1>2, <1>3, <1>4

\* Every step keeps the rows of a quote and what they say of each other.
LEMMA QuotesInvNext ==
  ASSUME HandlersInv, QuotesInv, [ServiceNext]_ServiceVars
  PROVE  QuotesInv'
<1>1. QuoteRows /\ (InTurn' => InTurn /\ QuoteFits /\ \A s \in Slots : QuoteCarried(s))
  BY Undisturbed DEF QuotesInv
<1>2. CASE UNCHANGED quoteVars /\ Elsewhere(QuoteSteps)
  <2>1. ASSUME NEW s \in Slots PROVE QuoteLocals(s)' /\ (InTurn' => QuoteCarried(s)')
    <3>1. CASE slot'[s] = slot[s]
      BY <1>1, <1>2, <3>1, QuoteUnwritten DEF QuoteRows, QuoteLocals, QuoteCarried, At, quoteVars
    <3>2. CASE slot'[s].step \notin QuoteSteps
      BY <3>2 DEF QuoteLocals, QuoteCarried, At, QuoteSteps
    <3> QED
      BY <1>2, <3>1, <3>2 DEF Elsewhere
  <2> QED
    BY <1>1, <1>2, <2>1, QuoteUnwritten DEF QuotesInv, QuoteRows, quoteVars
<1>3. ASSUME NEW s \in Slots, slot' = [slot EXCEPT ![s] = slot'[s]], QuoteLocals(s)'
      PROVE  /\ \A r \in Slots : QuoteLocals(r)'
             /\ (\A r \in Slots \ {s} : At(r, "idle")) /\ QuoteCarried(s)'
                => \A r \in Slots : QuoteCarried(r)'
  <2>1. \A r \in Slots \ {s} : slot'[r] = slot[r]
    BY <1>3 DEF HandlersInv
  <2> QED
    BY <1>1, <1>3, <2>1 DEF QuoteRows, QuoteLocals, QuoteCarried, At
<1>4. ASSUME NEW s \in Slots, At(s, "idle"), QuotesRequest(s) PROVE QuotesInv'
  <2>1. InTurn' => \A r \in Slots \ {s} : At(r, "idle")
    BY <1>4 DEF QuotesRequest, ReadQuoteToUpdate, ReadQuoteToSetStatus, ReadQuoteToDelete,
                ReadQuoteToConvert, Begin, InTurn
  <2>2. /\ slot' = [slot EXCEPT ![s] = slot'[s]]
        /\ UNCHANGED quoteVars /\ QuoteLocals(s)'
        /\ QuoteFits => QuoteCarried(s)'
    BY <1>1, <1>4, QuoteRead
  <2>3. QuoteRows'
    BY <1>1, <1>3, <2>2, QuoteUnwritten DEF QuoteRows, quoteVars
  <2>4. InTurn' => QuoteFits' /\ \A r \in Slots : QuoteCarried(r)'
    BY <1>1, <1>3, <2>1, <2>2, QuoteUnwritten
  <2> QED
    BY <2>3, <2>4 DEF QuotesInv
<1>5. ASSUME NEW s \in Slots, QuotesStep(s) PROVE QuotesInv'
  <2>1. slot[s].step \in QuoteSteps
    BY <1>5 DEF QuotesStep, UpdateQuote, WriteQuoteStatus, DeleteQuote, ReadQuoteLines,
                InsertConverted, FailQuote, QuoteSteps, At
  <2>2. InTurn' => \A r \in Slots \ {s} : At(r, "idle")
    BY <1>1, <2>1 DEF HandlersInv, OneBusy, QuoteSteps, At
  <2>3. /\ slot' = [slot EXCEPT ![s] = slot'[s]] /\ QuoteLocals(s)'
        /\ quote' \in QuoteRow /\ quoted' \in Nat
        /\ raised' = [o \in QuoteOrders |-> raised'[o]]
        /\ Naming' # {} => QuoteOnFile'
        /\ QuoteFits /\ QuoteCarried(s) => QuoteFits' /\ QuoteCarried(s)'
    BY <1>1, <1>5, QuoteStepped
  <2>4. QuoteRows'
    BY <1>3, <2>3 DEF QuoteRows
  <2>5. InTurn' => QuoteFits' /\ \A r \in Slots : QuoteCarried(r)'
    BY <1>1, <1>3, <2>2, <2>3
  <2> QED
    BY <2>4, <2>5 DEF QuotesInv
<1>6. ASSUME NEW n, NEW o,
             \/ n \in 1..MaxQuoted /\ CreateQuote(n)
             \/ o \in QuoteOrders /\ (DeleteRaised(o) \/ EnterOrder(o, n))
      PROVE  QuotesInv'
  <2>1. /\ slot' = slot /\ (InTurn' => Quiet)
        /\ quote' \in QuoteRow /\ quoted' \in Nat
        /\ raised' = [p \in QuoteOrders |-> raised'[p]]
        /\ Naming' # {} => QuoteOnFile'
        /\ QuoteFits => QuoteFits'
    BY <1>1, <1>6, QuoteCalled
  <2>2. \A s \in Slots : QuoteLocals(s)' /\ (Quiet => QuoteCarried(s)')
    BY <1>1, <2>1 DEF QuoteRows, QuoteLocals, QuoteCarried, Quiet, At
  <2> QED
    BY <1>1, <2>1, <2>2 DEF QuotesInv, QuoteRows
<1> QED
  BY <1>2, <1>4, <1>5, <1>6, NotQuotes DEF QuotesNext, Free

\* Nobody has quoted anything yet.
LEMMA QuotesInitially == ServiceInit => QuotesInv
<1> SUFFICES ASSUME ServiceInit PROVE QuotesInv
  OBVIOUS
<1>1. /\ quote = [status |-> "none", total |-> 0] /\ quoted = 0
      /\ raised = [o \in QuoteOrders |-> NoOrder] /\ slot = [s \in Slots |-> Idle]
  BY DEF ServiceInit, QuotesInit, RequestsInit
<1>2. Naming = {} /\ Converted = {}
  BY <1>1 DEF Naming, Converted
<1>3. QuoteFits
  BY <1>1, <1>2 DEF QuoteFits, QuoteOnFile, QuoteStatuses
<1> QED
  BY <1>1, <1>2, <1>3 DEF QuotesInv, QuoteRows, QuoteRow, QuoteLocals, QuoteCarried, At, Idle

\* Whatever overlaps, no order outlives the quote it names; and as long as
\* requests come one after the other, a quote is converted at most once, into
\* what the customer accepted.
THEOREM QuotesAreConvertedOnce == ServiceSpec => []QuotesAgree
<1>1. QuotesInv => QuotesAgree
  <2> SUFFICES ASSUME QuotesInv PROVE QuotesAgree
    OBVIOUS
  <2>1. QuoteRows /\ (InTurn => QuoteFits)
    BY DEF QuotesInv
  <2>2. ASSUME \A o, p \in Converted : o = p PROVE Cardinality(Converted) <= 1
    <3>1. CASE Converted = {}
      BY <3>1, FS_EmptySet
    <3>2. ASSUME NEW o \in Converted PROVE Cardinality(Converted) <= 1
      <4>1. Converted = {o}
        BY <2>2
      <4>2. Cardinality({o}) = 1
        BY FS_Singleton
      <4> QED
        BY <4>1, <4>2
    <3> QED
      BY <3>1, <3>2
  <2> QED
    BY <2>1, <2>2 DEF QuotesAgree, QuoteRows, QuoteFits
<1> QED
  BY <1>1, QuotesInitially, HandlersAlways, QuotesInvNext, PTL DEF ServiceSpec

-----------------------------------------------------------------------------
(* Attachments: a receipt that looks present is *)

ClaimRow == [employee : {{person} : person \in Staff}, receipts : SUBSET Files]

\* Whoever uploaded each of these may file for this employee.
MayFile(receipts, whose) ==
  \A f \in receipts : \E person \in Staff : uploader[f] = {person} /\ Allows(person, whose)

MayRead(f, person) ==
  \/ \E c \in NamedBy(f) : Allows(person, claim[c].employee)
  \/ NamedBy(f) = {} /\ uploader[f] = {person}

Uploading(s) == slot[s].step \in {"file.put", "file.row"}

FileRows ==
  /\ uploader = [f \in Files |-> uploader[f]] /\ claim = [c \in FileClaims |-> claim[c]]
  /\ OnRecord \subseteq stored
  /\ \A c \in FileClaims : claim[c] \in {NoClaim, GoneClaim} \cup ClaimRow
  /\ \A c \in Claimed : MayFile(claim[c].receipts, claim[c].employee)

\* A file is not in the store before it is put there and has no row before one is
\* inserted; what is to be claimed may be, and a claim that is edited was filed.
FileLocals(s) ==
  /\ Uploading(s) =>
       /\ slot[s] = [step |-> slot[s].step, file |-> slot[s].file, person |-> slot[s].person]
       /\ slot[s].file \in Files /\ slot[s].person \in Staff
       /\ IF At(s, "file.put") THEN slot[s].file \notin stored
          ELSE slot[s].file \in stored /\ uploader[slot[s].file] = NoRow
  /\ At(s, "file.insertClaim") =>
       /\ slot[s].claim \in ClaimRow
       /\ MayFile(slot[s].claim.receipts, slot[s].claim.employee)
  /\ At(s, "file.replaceLines") =>
       /\ slot[s].onto \in FileClaims /\ claim[slot[s].onto] # NoClaim
       /\ slot[s].receipts \in SUBSET Files
       /\ slot[s].onto \in Claimed => MayFile(slot[s].receipts, claim[slot[s].onto].employee)
  /\ At(s, "file.owner") =>
       /\ slot[s] = [step |-> "file.owner", file |-> slot[s].file, person |-> slot[s].person]
       /\ slot[s].file \in OnRecord
  /\ At(s, "file.link") => slot[s].file \in stored

FilesInv ==
  /\ FileRows
  /\ \A s \in Slots : FileLocals(s)
  /\ \A r, s \in Slots : Uploading(r) /\ Uploading(s) /\ r # s => slot[r].file # slot[s].file
  /\ InTurn => \A s \in Slots : At(s, "file.link") => MayRead(slot[s].file, slot[s].person)

\* What no step undoes: a row names its uploader for good, what is stored is
\* stored, and a claim that was filed is that employee's until it is gone.
FilesGrow ==
  /\ \A f \in Files : uploader[f] # NoRow => uploader'[f] = uploader[f]
  /\ stored \subseteq stored'
  /\ \A c \in FileClaims : claim[c] # NoClaim =>
       /\ claim'[c] # NoClaim
       /\ c \in Claimed' => c \in Claimed /\ claim'[c].employee = claim[c].employee

\* What may be filed may be filed later.
LEMMA MayFileStays ==
  ASSUME FilesGrow
  PROVE  \A receipts \in SUBSET Files : \A whose :
           MayFile(receipts, whose) => MayFile(receipts, whose)'
BY DEF FilesGrow, MayFile, NoRow

\* Locals fit as long as the file that is being uploaded is left alone.
LEMMA FileLocalsStay ==
  ASSUME FileRows, FilesGrow, NEW r \in Slots, slot'[r] = slot[r], FileLocals(r),
         At(r, "file.put") => slot[r].file \notin stored',
         At(r, "file.row") => uploader'[slot[r].file] = NoRow
  PROVE  FileLocals(r)'
<1>1. CASE Uploading(r)
  BY <1>1 DEF FileLocals, FilesGrow, Uploading, At
<1>2. CASE At(r, "file.insertClaim")
  <2>1. PICK row \in ClaimRow : row = slot[r].claim
    BY <1>2 DEF FileLocals
  <2>2. MayFile(row.receipts, row.employee)
    BY <1>2, <2>1 DEF FileLocals
  <2>3. MayFile(row.receipts, row.employee)'
    BY <2>2, MayFileStays DEF ClaimRow
  <2> QED
    BY <1>2, <2>1, <2>3 DEF FileLocals, Uploading, At
<1>3. CASE At(r, "file.replaceLines")
  <2>1. PICK c \in FileClaims, receipts \in SUBSET Files :
          c = slot[r].onto /\ receipts = slot[r].receipts
    BY <1>3 DEF FileLocals
  <2>2. PICK whose : whose = claim[c].employee
    OBVIOUS
  <2>3. claim[c] # NoClaim /\ (c \in Claimed => MayFile(receipts, whose))
    BY <1>3, <2>1, <2>2 DEF FileLocals
  <2>4. /\ claim'[c] # NoClaim
        /\ c \in Claimed' => MayFile(receipts, whose)' /\ claim'[c].employee = whose
    BY <2>2, <2>3, MayFileStays DEF FilesGrow
  <2>5. c \in Claimed' => MayFile(slot[r].receipts, claim[slot[r].onto].employee)'
    BY <2>1, <2>4 DEF MayFile
  <2> QED
    BY <1>3, <2>1, <2>4, <2>5 DEF FileLocals, Uploading, At
<1>4. CASE At(r, "file.owner") \/ At(r, "file.link")
  BY <1>4 DEF FileLocals, FilesGrow, OnRecord, Uploading, At
<1> QED
  BY <1>1, <1>2, <1>3, <1>4 DEF FileLocals, Uploading, At

\* A request writes nothing and reads what fits.
LEMMA FileRequested ==
  ASSUME HandlersInv, FileRows, NEW s \in Slots, FilesRequest(s)
  PROVE  /\ slot' = [slot EXCEPT ![s] = slot'[s]]
         /\ UNCHANGED fileVars /\ FileLocals(s)' /\ ~At(s, "file.link")'
         /\ Uploading(s)' => slot'[s].file \notin InUpload
         /\ InTurn' => \A r \in Slots \ {s} : At(r, "idle")
<1>1. ASSUME NEW person \in Staff, NEW f \in Files, BeginUpload(s, person, f)
      PROVE  /\ slot' = [slot EXCEPT ![s] = slot'[s]]
             /\ UNCHANGED fileVars /\ FileLocals(s)' /\ ~At(s, "file.link")'
             /\ Uploading(s)' => slot'[s].file \notin InUpload
             /\ InTurn' => \A r \in Slots \ {s} : At(r, "idle")
  <2>1. /\ slot' = [slot EXCEPT ![s] = slot'[s]]
        /\ slot'[s] = [step |-> "file.put", file |-> f, person |-> person]
    BY <1>1, PutIn DEF BeginUpload
  <2>2. f \notin stored /\ f \notin InUpload /\ UNCHANGED fileVars
        /\ (InTurn' => \A r \in Slots \ {s} : At(r, "idle"))
    BY <1>1 DEF BeginUpload, Begin, InTurn
  <2> QED
    BY <2>1, <2>2 DEF FileLocals, Uploading, At, fileVars
<1>2. ASSUME NEW person \in Staff, NEW f \in Files, ReadRow(s, person, f)
      PROVE  /\ slot' = [slot EXCEPT ![s] = slot'[s]]
             /\ UNCHANGED fileVars /\ FileLocals(s)' /\ ~At(s, "file.link")'
             /\ ~Uploading(s)' /\ (InTurn' => \A r \in Slots \ {s} : At(r, "idle"))
  <2>1. /\ slot' = [slot EXCEPT ![s] = slot'[s]]
        /\ slot'[s] = [step |-> "file.owner", file |-> f, person |-> person]
    BY <1>2, PutIn DEF ReadRow
  <2>2. f \in OnRecord /\ UNCHANGED fileVars
        /\ (InTurn' => \A r \in Slots \ {s} : At(r, "idle"))
    BY <1>2 DEF ReadRow, Begin, InTurn
  <2> QED
    BY <2>1, <2>2 DEF FileLocals, Uploading, At, fileVars, OnRecord
<1>3. ASSUME NEW person \in Staff, NEW receipts \in SUBSET Files, NEW whose \in Staff,
             ReadToFile(s, person, whose, receipts)
      PROVE  /\ slot' = [slot EXCEPT ![s] = slot'[s]]
             /\ UNCHANGED fileVars /\ FileLocals(s)' /\ ~At(s, "file.link")'
             /\ ~Uploading(s)' /\ (InTurn' => \A r \in Slots \ {s} : At(r, "idle"))
  <2>1. PICK row : row = [employee |-> {whose}, receipts |-> receipts]
    OBVIOUS
  <2>2. Begin(s, "file.claim", [step |-> "file.insertClaim", by |-> person, claim |-> row])
    BY <1>3, <2>1 DEF ReadToFile
  <2>3. /\ slot' = [slot EXCEPT ![s] = slot'[s]]
        /\ slot'[s] = [step |-> "file.insertClaim", by |-> person, claim |-> row]
    BY <2>2, PutIn
  <2>4. /\ UNCHANGED fileVars /\ Allows(person, {whose})
        /\ ReceiptsAreTheirs(person, receipts)
        /\ (InTurn' => \A r \in Slots \ {s} : At(r, "idle"))
    BY <1>3 DEF ReadToFile, Begin, InTurn
  <2>5. row \in ClaimRow /\ row.receipts = receipts /\ row.employee = {whose}
    BY <2>1 DEF ClaimRow
  <2>6. MayFile(receipts, {whose})'
    BY <2>4 DEF MayFile, ReceiptsAreTheirs, fileVars
  <2>7. MayFile(row.receipts, row.employee)'
    BY <2>5, <2>6
  <2> QED
    BY <2>3, <2>4, <2>5, <2>7 DEF FileLocals, Uploading, At
<1>4. ASSUME NEW person \in Staff, NEW receipts \in SUBSET Files, NEW c \in FileClaims,
             ReadToEdit(s, person, c, receipts)
      PROVE  /\ slot' = [slot EXCEPT ![s] = slot'[s]]
             /\ UNCHANGED fileVars /\ FileLocals(s)' /\ ~At(s, "file.link")'
             /\ ~Uploading(s)' /\ (InTurn' => \A r \in Slots \ {s} : At(r, "idle"))
  <2>1. /\ slot' = [slot EXCEPT ![s] = slot'[s]]
        /\ slot'[s] = [step |-> "file.replaceLines", by |-> person,
                       onto |-> c, receipts |-> receipts]
    BY <1>4, PutIn DEF ReadToEdit
  <2>2. /\ UNCHANGED fileVars /\ c \in Claimed /\ Allows(person, claim[c].employee)
        /\ ReceiptsAreTheirs(person, receipts)
        /\ (InTurn' => \A r \in Slots \ {s} : At(r, "idle"))
    BY <1>4 DEF ReadToEdit, Begin, InTurn
  <2>3. MayFile(receipts, claim[c].employee)'
    BY <2>2 DEF MayFile, ReceiptsAreTheirs, fileVars
  <2>4. claim'[c] # NoClaim
    BY <2>2 DEF Claimed, fileVars
  <2> QED
    BY <2>1, <2>2, <2>3, <2>4 DEF FileLocals, Uploading, At
<1> QED
  BY <1>1, <1>2, <1>3, <1>4 DEF FilesRequest

\* Rows fit when no claim is written but those that may be.
LEMMA FileRowsStay ==
  ASSUME FileRows, FilesGrow, claim' = claim, OnRecord' \subseteq stored',
         uploader' = [f \in Files |-> uploader'[f]]
  PROVE  FileRows'
<1>1. \A c \in Claimed : MayFile(claim[c].receipts, claim[c].employee)'
  <2> SUFFICES ASSUME NEW c \in Claimed, NEW row, row = claim[c]
      PROVE  MayFile(row.receipts, row.employee)'
    BY DEF MayFile
  <2>1. row \in ClaimRow /\ MayFile(row.receipts, row.employee)
    BY DEF FileRows, Claimed
  <2> QED
    BY <2>1, MayFileStays DEF ClaimRow
<1> QED
  BY <1>1 DEF FileRows, Claimed, MayFile

\* What the step of a handler does to the files: it touches the file it uploads
\* and the claim it writes.
LEMMA FileStepped ==
  ASSUME HandlersInv, FileRows, NEW s \in Slots, FileLocals(s), FilesStep(s)
  PROVE  /\ slot' = [slot EXCEPT ![s] = slot'[s]]
         /\ FilesGrow /\ FileRows' /\ FileLocals(s)'
         /\ Uploading(s)' => Uploading(s) /\ slot'[s].file = slot[s].file
         /\ \A f \in stored' \ stored : Uploading(s) /\ f = slot[s].file
         /\ \A f \in Files : uploader'[f] = uploader[f] \/ (Uploading(s) /\ f = slot[s].file)
         /\ At(s, "file.link")' => MayRead(slot[s].file, slot[s].person)'
<1> DEFINE Done ==
      /\ slot' = [slot EXCEPT ![s] = slot'[s]]
      /\ FileLocals(s)' /\ ~Uploading(s)' /\ ~At(s, "file.link")'
<1>1. ASSUME Finish(s) PROVE Done
  BY <1>1, PutIdle DEF Idle, FileLocals, Uploading, At
<1>2. ASSUME UNCHANGED fileVars
      PROVE  /\ FilesGrow /\ FileRows' /\ stored' = stored
             /\ \A f \in Files : uploader'[f] = uploader[f]
  BY <1>2 DEF fileVars, FilesGrow, FileRows, Claimed, OnRecord, MayFile
<1>3. CASE Put(s)
  <2>1. At(s, "file.put") /\ UNCHANGED <<uploader, claim>>
    BY <1>3 DEF Put
  <2>2. CASE Finish(s) /\ UNCHANGED stored
    BY <1>1, <1>2, <2>1, <2>2 DEF fileVars
  <2>3. CASE stored' = stored \cup {slot[s].file} /\ Continue(s, [slot[s] EXCEPT !.step = "file.row"])
    <3>1. PICK f \in Files, person \in Staff :
            /\ slot[s] = [step |-> "file.put", file |-> f, person |-> person]
            /\ f \notin stored
      BY <2>1 DEF FileLocals, Uploading, At
    <3>2. [slot[s] EXCEPT !.step = "file.row"] = [step |-> "file.row", file |-> f, person |-> person]
      BY <3>1
    <3>3. /\ slot' = [slot EXCEPT ![s] = slot'[s]]
          /\ slot'[s] = [step |-> "file.row", file |-> f, person |-> person]
      BY <2>3, <3>2, PutIn
    <3>4. f \notin OnRecord /\ OnRecord' = OnRecord
      BY <2>1, <3>1 DEF FileRows, OnRecord
    <3>5. FilesGrow /\ stored' = stored \cup {f}
      BY <2>1, <2>3, <3>1 DEF FilesGrow, Claimed
    <3>6. FileRows'
      BY <2>1, <3>4, <3>5, FileRowsStay DEF FileRows
    <3>7. FileLocals(s)'
      BY <2>1, <3>1, <3>3, <3>4, <3>5 DEF FileLocals, Uploading, At, OnRecord
    <3> QED
      BY <2>1, <3>1, <3>3, <3>5, <3>6, <3>7 DEF Uploading, At
  <2> QED
    BY <1>3, <2>2, <2>3 DEF Put
<1>4. CASE InsertRow(s)
  <2>1. /\ uploader' = [uploader EXCEPT ![slot[s].file] = {slot[s].person}]
        /\ Finish(s) /\ UNCHANGED <<stored, claim>> /\ At(s, "file.row")
    BY <1>4 DEF InsertRow
  <2>2. PICK f \in Files : f = slot[s].file /\ f \in stored /\ uploader[f] = NoRow
    BY <2>1 DEF FileLocals, Uploading, At
  <2>3. /\ uploader' = [g \in Files |-> uploader'[g]]
        /\ \A g \in Files \ {f} : uploader'[g] = uploader[g]
    BY <2>1, <2>2 DEF FileRows
  <2>4. FilesGrow
    BY <2>1, <2>2, <2>3 DEF FilesGrow, Claimed
  <2>5. OnRecord' \subseteq stored'
    BY <2>1, <2>2, <2>3 DEF FileRows, OnRecord
  <2>6. FileRows'
    BY <2>1, <2>3, <2>4, <2>5, FileRowsStay
  <2> QED
    BY <1>1, <2>1, <2>2, <2>3, <2>4, <2>6 DEF Uploading, At
<1>5. ASSUME NEW c \in FileClaims, InsertClaim(s, c)
      PROVE  Done /\ FilesGrow /\ FileRows' /\ UNCHANGED <<stored, uploader>>
  <2>1. /\ claim' = [claim EXCEPT ![c] = slot[s].claim] /\ claim[c] = NoClaim
        /\ Finish(s) /\ UNCHANGED <<stored, uploader>> /\ At(s, "file.insertClaim")
    BY <1>5 DEF InsertClaim
  <2>2. PICK row \in ClaimRow : row = slot[s].claim
    BY <2>1 DEF FileLocals
  <2>3. MayFile(row.receipts, row.employee)
    BY <2>1, <2>2 DEF FileLocals
  <2>4. /\ claim' = [d \in FileClaims |-> claim'[d]] /\ claim'[c] = row
        /\ \A d \in FileClaims \ {c} : claim'[d] = claim[d]
    BY <2>1, <2>2 DEF FileRows
  <2>5. FilesGrow
    BY <2>1, <2>4 DEF FilesGrow, Claimed
  <2>6. FileRows'
    BY <2>1, <2>3, <2>4 DEF FileRows, Claimed, OnRecord, MayFile
  <2> QED
    BY <1>1, <2>1, <2>5, <2>6
<1>6. CASE ReplaceLines(s)
  <2>1. PICK c \in FileClaims, receipts \in SUBSET Files :
          c = slot[s].onto /\ receipts = slot[s].receipts
    BY <1>6 DEF ReplaceLines, FileLocals
  <2>2. /\ Finish(s) /\ UNCHANGED <<stored, uploader>> /\ At(s, "file.replaceLines")
        /\ claim' = IF c \in Claimed THEN [claim EXCEPT ![c].receipts = receipts] ELSE claim
    BY <1>6, <2>1 DEF ReplaceLines
  <2>3. CASE c \notin Claimed
    BY <1>1, <1>2, <2>2, <2>3 DEF fileVars
  <2>4. CASE c \in Claimed
    <3>1. PICK old \in ClaimRow : old = claim[c]
      BY <2>4 DEF FileRows, Claimed
    <3>2. PICK row : row = [old EXCEPT !.receipts = receipts]
      OBVIOUS
    <3>3. row \in ClaimRow /\ row.receipts = receipts /\ row.employee = old.employee
          /\ row # NoClaim
      BY <3>1, <3>2 DEF ClaimRow, NoClaim
    <3>4. claim' = [claim EXCEPT ![c] = row]
      BY <2>2, <2>4, <3>1, <3>2
    <3>5. /\ claim' = [d \in FileClaims |-> claim'[d]] /\ claim'[c] = row
          /\ \A d \in FileClaims \ {c} : claim'[d] = claim[d]
      BY <3>4 DEF FileRows
    <3>6. MayFile(row.receipts, row.employee)
      BY <2>1, <2>2, <2>4, <3>1, <3>3 DEF FileLocals
    <3>7. FilesGrow
      BY <2>2, <2>4, <3>1, <3>3, <3>5 DEF FilesGrow, Claimed
    <3>8. FileRows'
      BY <2>2, <3>3, <3>5, <3>6 DEF FileRows, Claimed, OnRecord, MayFile
    <3> QED
      BY <1>1, <2>2, <3>7, <3>8
  <2> QED
    BY <2>3, <2>4
<1>7. CASE FindOwner(s)
  <2>1. UNCHANGED fileVars /\ At(s, "file.owner")
    BY <1>7 DEF FindOwner
  <2>2. PICK f, person :
          /\ slot[s] = [step |-> "file.owner", file |-> f, person |-> person]
          /\ f \in OnRecord
    BY <2>1 DEF FileLocals, At
  <2>3. CASE Finish(s)
    BY <1>1, <1>2, <2>1, <2>3
  <2>4. CASE /\ Continue(s, [slot[s] EXCEPT !.step = "file.link"])
             /\ MayRead(f, person)
    <3>1. [slot[s] EXCEPT !.step = "file.link"] = [step |-> "file.link", file |-> f, person |-> person]
      BY <2>2
    <3>2. /\ slot' = [slot EXCEPT ![s] = slot'[s]]
          /\ slot'[s] = [step |-> "file.link", file |-> f, person |-> person]
      BY <2>4, <3>1, PutIn
    <3>3. MayRead(f, person)'
      BY <2>1, <2>4 DEF MayRead, NamedBy, Claimed, fileVars
    <3>4. f \in stored'
      BY <2>1, <2>2 DEF FileRows, fileVars
    <3>5. slot[s].file = f /\ slot[s].person = person
      BY <2>2
    <3>6. MayRead(slot[s].file, slot[s].person)'
      BY <2>1, <3>2, <3>3 DEF MayRead, NamedBy, Claimed
    <3> QED
      BY <1>2, <2>1, <3>2, <3>4, <3>6 DEF FileLocals, Uploading, At
  <2> QED
    BY <1>7, <2>2, <2>3, <2>4 DEF FindOwner, MayRead
<1>8. CASE SignLink(s)
  BY <1>1, <1>2, <1>8 DEF SignLink
<1> QED
  BY <1>3, <1>4, <1>5, <1>6, <1>7, <1>8 DEF FilesStep

\* Deleting a claim leaves the others as they are.
LEMMA ClaimDeleted ==
  ASSUME FileRows, NEW c \in FileClaims, DeleteClaim(c)
  PROVE  /\ slot' = slot /\ (InTurn' => Quiet)
         /\ FilesGrow /\ FileRows' /\ UNCHANGED <<stored, uploader>>
<1>1. /\ slot' = slot /\ (InTurn' => Quiet) /\ UNCHANGED <<stored, uploader>>
      /\ claim' = [claim EXCEPT ![c] = GoneClaim]
  BY DEF DeleteClaim, Happens, InTurn
<1>2. /\ claim' = [d \in FileClaims |-> claim'[d]] /\ claim'[c] = GoneClaim
      /\ \A d \in FileClaims \ {c} : claim'[d] = claim[d]
  BY <1>1 DEF FileRows
<1>3. GoneClaim # NoClaim
  <2>1. "deleted" \in DOMAIN GoneClaim /\ "deleted" \notin DOMAIN NoClaim
    BY DEF GoneClaim, NoClaim
  <2> QED
    BY <2>1
<1>4. FilesGrow
  BY <1>1, <1>2, <1>3 DEF FilesGrow, Claimed
<1>5. FileRows'
  BY <1>1, <1>2 DEF FileRows, Claimed, OnRecord, MayFile
<1> QED
  BY <1>1, <1>4, <1>5

\* Every step keeps the receipts of claims in the store and links to who may read.
LEMMA FilesInvNext ==
  ASSUME HandlersInv, FilesInv, [ServiceNext]_ServiceVars
  PROVE  FilesInv'
<1>1. /\ FileRows /\ \A s \in Slots : FileLocals(s)
      /\ \A r, s \in Slots : Uploading(r) /\ Uploading(s) /\ r # s => slot[r].file # slot[s].file
      /\ InTurn' => /\ InTurn
                    /\ \A s \in Slots : At(s, "file.link") => MayRead(slot[s].file, slot[s].person)
  BY Undisturbed DEF FilesInv
<1>2. ASSUME UNCHANGED fileVars
      PROVE  /\ FilesGrow /\ FileRows'
             /\ \A r \in Slots : slot'[r] = slot[r] =>
                  /\ FileLocals(r)'
                  /\ MayRead(slot[r].file, slot[r].person) => MayRead(slot[r].file, slot[r].person)'
  <2>1. FilesGrow /\ FileRows'
    BY <1>1, <1>2 DEF fileVars, FilesGrow, FileRows, Claimed, OnRecord, MayFile
  <2>2. ASSUME NEW r \in Slots, slot'[r] = slot[r] PROVE FileLocals(r)'
    BY <1>1, <1>2, <2>1, <2>2, FileLocalsStay DEF FileLocals, Uploading, At, fileVars
  <2>3. ASSUME NEW r \in Slots, slot'[r] = slot[r], MayRead(slot[r].file, slot[r].person)
        PROVE  MayRead(slot[r].file, slot[r].person)'
    BY <1>2, <2>3 DEF MayRead, NamedBy, Claimed, fileVars
  <2> QED
    BY <2>1, <2>2, <2>3
<1>3. CASE UNCHANGED fileVars /\ Elsewhere(FileSteps)
  <2>1. \A s \in Slots : slot'[s] = slot[s] \/ slot'[s].step \notin FileSteps
    BY <1>3 DEF Elsewhere
  <2>2. \A s \in Slots : slot'[s].step \notin FileSteps =>
          FileLocals(s)' /\ ~Uploading(s)' /\ ~At(s, "file.link")'
    BY DEF FileLocals, Uploading, At, FileSteps
  <2>3. \A s \in Slots : Uploading(s)' => slot'[s] = slot[s] /\ Uploading(s)
    BY <2>1, <2>2 DEF Uploading
  <2>4. \A s \in Slots : At(s, "file.link")' => slot'[s] = slot[s] /\ At(s, "file.link")
    BY <2>1, <2>2 DEF At
  <2> QED
    BY <1>1, <1>2, <1>3, <2>1, <2>2, <2>3, <2>4 DEF FilesInv
<1>4. ASSUME NEW s \in Slots, slot' = [slot EXCEPT ![s] = slot'[s]], slot[s].step \notin FileSteps,
             FilesRequest(s)
      PROVE  FilesInv'
  <2>1. /\ UNCHANGED fileVars /\ FileLocals(s)' /\ ~At(s, "file.link")'
        /\ Uploading(s)' => slot'[s].file \notin InUpload
        /\ InTurn' => \A r \in Slots \ {s} : At(r, "idle")
    BY <1>1, <1>4, FileRequested
  <2>2. \A r \in Slots \ {s} : slot'[r] = slot[r]
    BY <1>4 DEF HandlersInv
  <2>3. \A r \in Slots \ {s} : Uploading(r) => slot[r].file \in InUpload
    BY DEF Uploading, InUpload
  <2>4. FileRows' /\ \A r \in Slots : FileLocals(r)'
    BY <1>2, <2>1, <2>2
  <2>5. \A r, t \in Slots : Uploading(r)' /\ Uploading(t)' /\ r # t => slot'[r].file # slot'[t].file
    BY <1>1, <2>1, <2>2, <2>3 DEF Uploading
  <2>6. InTurn' => \A r \in Slots : ~At(r, "file.link")'
    BY <2>1, <2>2 DEF At
  <2> QED
    BY <2>4, <2>5, <2>6 DEF FilesInv
<1>5. ASSUME NEW s \in Slots, FilesStep(s) PROVE FilesInv'
  <2>1. /\ slot' = [slot EXCEPT ![s] = slot'[s]]
        /\ FilesGrow /\ FileRows' /\ FileLocals(s)'
        /\ Uploading(s)' => Uploading(s) /\ slot'[s].file = slot[s].file
        /\ \A f \in stored' \ stored : Uploading(s) /\ f = slot[s].file
        /\ \A f \in Files : uploader'[f] = uploader[f] \/ (Uploading(s) /\ f = slot[s].file)
        /\ At(s, "file.link")' => MayRead(slot[s].file, slot[s].person)'
    BY <1>1, <1>5, FileStepped
  <2>2. \A r \in Slots \ {s} : slot'[r] = slot[r]
    BY <2>1 DEF HandlersInv
  <2>3. slot[s].step \in FileSteps
    BY <1>5 DEF FilesStep, Put, InsertRow, InsertClaim, ReplaceLines, FindOwner, SignLink,
                FileSteps, At
  <2>4. InTurn' => \A r \in Slots \ {s} : At(r, "idle")
    BY <1>1, <2>3 DEF HandlersInv, OneBusy, FileSteps, At
  <2>5. ASSUME NEW r \in Slots \ {s} PROVE FileLocals(r)'
    <3>1. /\ Uploading(r) => slot[r].file \in Files
          /\ At(r, "file.put") => Uploading(r) /\ slot[r].file \notin stored
          /\ At(r, "file.row") => Uploading(r) /\ uploader[slot[r].file] = NoRow
      BY <1>1 DEF FileLocals, Uploading, At
    <3>2. Uploading(r) /\ Uploading(s) => slot[r].file # slot[s].file
      BY <1>1, <2>5
    <3>3. At(r, "file.put") => slot[r].file \notin stored'
      BY <2>1, <3>1, <3>2
    <3>4. At(r, "file.row") => uploader'[slot[r].file] = NoRow
      BY <2>1, <3>1, <3>2
    <3> QED
      BY <1>1, <2>1, <2>2, <3>3, <3>4, FileLocalsStay
  <2>6. \A r, t \in Slots : Uploading(r)' /\ Uploading(t)' /\ r # t => slot'[r].file # slot'[t].file
    BY <1>1, <2>1, <2>2 DEF Uploading
  <2>7. InTurn' => \A r \in Slots \ {s} : ~At(r, "file.link")'
    BY <2>2, <2>4 DEF At
  <2>8. At(s, "file.link")' => MayRead(slot[s].file, slot[s].person)'
    BY <2>1
  <2> QED
    BY <2>1, <2>5, <2>6, <2>7, <2>8 DEF FilesInv
<1>6. ASSUME NEW c \in FileClaims, DeleteClaim(c) PROVE FilesInv'
  <2>1. /\ slot' = slot /\ (InTurn' => Quiet)
        /\ FilesGrow /\ FileRows' /\ UNCHANGED <<stored, uploader>>
    BY <1>1, <1>6, ClaimDeleted
  <2>2. \A r \in Slots : FileLocals(r)'
    BY <1>1, <2>1, FileLocalsStay DEF FileLocals, Uploading, At
  <2>3. InTurn' => \A r \in Slots : ~At(r, "file.link")'
    BY <2>1 DEF Quiet, At
  <2> QED
    BY <1>1, <2>1, <2>2, <2>3 DEF FilesInv, Uploading
<1>7. ASSUME NEW s \in Slots, At(s, "idle"), FilesRequest(s) PROVE FilesInv'
  BY <1>1, <1>4, <1>7, FileRequested DEF At, FileSteps
<1> QED
  BY <1>3, <1>5, <1>6, <1>7, NotFiles DEF AttachmentsNext, Free

\* Nothing has been uploaded yet.
LEMMA FilesInitially == ServiceInit => FilesInv
<1> SUFFICES ASSUME ServiceInit PROVE FilesInv
  OBVIOUS
<1>1. /\ uploader = [f \in Files |-> NoRow] /\ claim = [c \in FileClaims |-> NoClaim]
      /\ slot = [s \in Slots |-> Idle]
  BY DEF ServiceInit, AttachmentsInit, RequestsInit
<1>2. OnRecord = {} /\ Claimed = {}
  BY <1>1 DEF OnRecord, Claimed
<1> QED
  BY <1>1, <1>2 DEF FilesInv, FileRows, FileLocals, Uploading, At, Idle

\* Whatever is refused, dropped or overlaps, the receipts a claim names are in
\* the store, uploaded by somebody who may file that claim; and as long as
\* requests come one after the other, a link goes only to whoever may read one.
THEOREM ReceiptsStayThere == ServiceSpec => []ReceiptsAreThere
<1>1. FilesInv => ReceiptsAreThere
  <2> SUFFICES ASSUME FilesInv PROVE ReceiptsAreThere
    OBVIOUS
  <2>1. OnRecord \subseteq stored
    BY DEF FilesInv, FileRows
  <2>2. ASSUME NEW c \in Claimed PROVE MayFile(claim[c].receipts, claim[c].employee)
    BY DEF FilesInv, FileRows
  <2>3. ASSUME NEW s \in Slots, At(s, "file.link")
        PROVE  slot[s].file \in stored /\ (InTurn => MayRead(slot[s].file, slot[s].person))
    BY <2>3 DEF FilesInv, FileLocals
  <2> QED
    BY <2>1, <2>2, <2>3 DEF ReceiptsAreThere, MayFile, MayRead
<1> QED
  BY <1>1, FilesInitially, HandlersAlways, FilesInvNext, PTL DEF ServiceSpec

-----------------------------------------------------------------------------
(* Purchasing: goods follow papers *)

\* What is on its way: the units of the handlers at a step, one by one.
Units(slots, step) ==
  {u \in Slots \X Nat :
     slots[u[1]].step = step /\ u[2] \in 1..slots[u[1]].quantity}

Load(slots, s, step) == IF slots[s].step = step THEN slots[s].quantity ELSE 0

UnitsBut(slots, s, step) == {u \in Units(slots, step) : u[1] # s}

\* The units on the way are those of one handler and those of the others.
LEMMA UnitsSplit ==
  ASSUME NEW slots, NEW s \in Slots, NEW step, Load(slots, s, step) \in Nat
  PROVE  /\ IsFiniteSet(Units(slots, step)) <=> IsFiniteSet(UnitsBut(slots, s, step))
         /\ IsFiniteSet(Units(slots, step)) =>
              Cardinality(Units(slots, step)) =
                Cardinality(UnitsBut(slots, s, step)) + Load(slots, s, step)
<1> DEFINE n == Load(slots, s, step)
           OwnUnits == {s} \X (1..n)
           Rest == UnitsBut(slots, s, step)
<1>1. IsFiniteSet({s}) /\ Cardinality({s}) = 1
  BY FS_Singleton
<1>2. IsFiniteSet(1..n) /\ Cardinality(1..n) = n
  BY FS_Interval
<1>3. IsFiniteSet(OwnUnits) /\ Cardinality(OwnUnits) = n
  <2>1. ASSUME NEW S, IsFiniteSet(S), Cardinality(S) = n
        PROVE  IsFiniteSet({s} \X S) /\ Cardinality({s} \X S) = n
    <3>1. IsFiniteSet({s} \X S) /\ Cardinality({s} \X S) = Cardinality({s}) * Cardinality(S)
      BY <1>1, <2>1, FS_Product
    <3>2. 1 * n = n
      OBVIOUS
    <3> QED
      BY <1>1, <2>1, <3>1, <3>2
  <2> QED
    BY <1>2, <2>1
<1>4. Units(slots, step) = Rest \cup OwnUnits
  <2>1. ASSUME NEW u \in Slots \X Nat
        PROVE  u \in Units(slots, step) <=> u \in Rest \cup OwnUnits
    <3>1. CASE u[1] = s
      <4>1. u \notin Rest /\ (u \in OwnUnits <=> u[2] \in 1..n)
        BY <3>1 DEF UnitsBut
      <4>2. u \in Units(slots, step) <=> u[2] \in 1..n
        BY <3>1 DEF Units, Load
      <4> QED
        BY <4>1, <4>2
    <3>2. CASE u[1] # s
      BY <3>2 DEF UnitsBut
    <3> QED
      BY <3>1, <3>2
  <2>2. OwnUnits \subseteq Slots \X Nat /\ Rest \subseteq Slots \X Nat
    BY DEF UnitsBut, Units
  <2>3. Units(slots, step) \subseteq Slots \X Nat
    BY DEF Units
  <2> QED
    BY <2>1, <2>2, <2>3
<1>5. Rest \cap OwnUnits = {}
  BY DEF UnitsBut
<1>6. Rest \subseteq Units(slots, step)
  BY DEF UnitsBut
<1> HIDE DEF OwnUnits, Rest
<1>7. IsFiniteSet(Units(slots, step)) => IsFiniteSet(Rest)
  BY <1>6, FS_Subset
<1>8. IsFiniteSet(Rest) =>
        /\ IsFiniteSet(Rest \cup OwnUnits)
        /\ Cardinality(Rest \cup OwnUnits) = Cardinality(Rest) + n - Cardinality({})
  BY <1>3, <1>5, FS_Union
<1>9. IsFiniteSet(Rest) => Cardinality(Rest) \in Nat
  BY FS_CardinalityType
<1>10. Cardinality({}) = 0
  BY FS_EmptySet
<1> QED
  BY <1>4, <1>7, <1>8, <1>9, <1>10 DEF Rest

\* A handler that goes on takes its own units along and leaves the others.
LEMMA UnitsMoved ==
  ASSUME NEW before, NEW after, NEW s \in Slots, NEW step,
         \A r \in Slots \ {s} : after[r] = before[r],
         Load(before, s, step) \in Nat, Load(after, s, step) \in Nat,
         IsFiniteSet(Units(before, step))
  PROVE  /\ IsFiniteSet(Units(after, step))
         /\ Cardinality(Units(before, step)) \in Nat /\ Cardinality(Units(after, step)) \in Nat
         /\ Cardinality(Units(after, step)) =
              Cardinality(Units(before, step)) - Load(before, s, step) + Load(after, s, step)
<1>1. UnitsBut(before, s, step) = UnitsBut(after, s, step)
  BY DEF UnitsBut, Units
<1>2. IsFiniteSet(UnitsBut(before, s, step)) /\ IsFiniteSet(Units(after, step))
  BY <1>1, UnitsSplit
<1>3. Cardinality(UnitsBut(before, s, step)) \in Nat
  BY <1>2, FS_CardinalityType
<1>4. Cardinality(Units(before, step)) = Cardinality(UnitsBut(before, s, step)) + Load(before, s, step)
  BY UnitsSplit
<1>5. Cardinality(Units(after, step)) = Cardinality(UnitsBut(after, s, step)) + Load(after, s, step)
  BY <1>2, UnitsSplit
<1> QED
  BY <1>1, <1>2, <1>3, <1>4, <1>5

\* Units that are dropped are dropped, and without that none are lost.
LEMMA UnitsDropped ==
  ASSUME NEW before, NEW after, NEW step, IsFiniteSet(Units(before, step)),
         \A s \in Slots : after[s].step = step => after[s] = before[s]
  PROVE  /\ IsFiniteSet(Units(after, step))
         /\ Cardinality(Units(before, step)) \in Nat /\ Cardinality(Units(after, step)) \in Nat
         /\ Cardinality(Units(after, step)) <= Cardinality(Units(before, step))
         /\ (\A s \in Slots : before[s].step = step => after[s] = before[s])
            => Units(after, step) = Units(before, step)
<1>1. Units(after, step) \subseteq Units(before, step)
  BY DEF Units
<1>2. (\A s \in Slots : before[s].step = step => after[s] = before[s])
      => Units(before, step) \subseteq Units(after, step)
  BY DEF Units
<1> QED
  BY <1>1, <1>2, FS_Subset, FS_CardinalityType

PapersOnTheWay(s) == slot[s].step \in {"receipt.insert", "receipt.move", "return.insert", "return.move"}

\* Whatever overlaps: what has moved and what is on its way is on paper, and the
\* line's counter forgets nothing.
PurchaseRows ==
  /\ {"status", "ordered", "received"} \subseteq DOMAIN po
  /\ po.received \in Nat /\ po.ordered \in Nat
  /\ received \in Nat /\ returned \in Nat /\ arrived \in Nat /\ left \in Nat /\ refused \in Nat
  /\ po.status = "none" => received = 0 /\ returned = 0
  /\ po.received >= received - returned
  /\ IsFiniteSet(Units(slot, "receipt.move")) /\ IsFiniteSet(Units(slot, "return.move"))
  /\ arrived + Cardinality(Units(slot, "receipt.move")) <= received
  /\ left + refused + Cardinality(Units(slot, "return.move")) <= returned

PurchaseLocals(s) ==
  /\ PapersOnTheWay(s) => slot[s].quantity \in Nat
  /\ slot[s].step \in {"po.writeStatus", "receipt.insert", "return.insert"} =>
       slot[s].status \in PurchaseStatuses
  /\ At(s, "po.write") => slot[s].quantity \in Nat /\ slot[s].received \in Nat

\* In turn nothing on paper is lost on the way, but for the returns that the
\* shelf refused, and the counter is exact.
PurchaseExact ==
  /\ arrived + Cardinality(Units(slot, "receipt.move")) = received
  /\ left + refused + Cardinality(Units(slot, "return.move")) = returned
  /\ po.received = received - returned /\ po.received <= po.ordered

\* What a handler read in turn is still so.
PurchaseCarried(s) ==
  /\ At(s, "po.write") => slot[s].received = po.received
  /\ At(s, "receipt.insert") => slot[s].quantity <= po.ordered - po.received
  /\ At(s, "return.insert") => slot[s].quantity <= po.received
  /\ slot[s].step \in {"return.insert", "return.move"} =>
       Available(slot[s].at) >= slot[s].quantity \/ slot[s].repeats

PurchasingInv ==
  /\ PurchaseRows
  /\ \A s \in Slots : PurchaseLocals(s)
  /\ InTurn => PurchaseExact /\ \A s \in Slots : PurchaseCarried(s)

\* A request that is taken to a step where nothing moves.
LEMMA PurchaseTaken ==
  ASSUME HandlersInv, NEW s \in Slots, NEW request, NEW locals,
         Begin(s, request, locals), locals.step \notin {"receipt.move", "return.move"},
         At(s, "idle")
  PROVE  /\ slot' = [slot EXCEPT ![s] = locals] /\ slot'[s] = locals
         /\ \A r \in Slots \ {s} : slot'[r] = slot[r]
         /\ Units(slot', "receipt.move") = Units(slot, "receipt.move")
         /\ Units(slot', "return.move") = Units(slot, "return.move")
         /\ InTurn' => \A r \in Slots \ {s} : At(r, "idle")
<1>1. /\ slot' = [slot EXCEPT ![s] = locals] /\ slot'[s] = locals
      /\ \A r \in Slots \ {s} : slot'[r] = slot[r]
      /\ InTurn' => \A r \in Slots \ {s} : At(r, "idle")
  BY DEF Begin, InTurn, HandlersInv
<1>2. \A step \in {"receipt.move", "return.move"} :
        \A r \in Slots : /\ slot'[r].step = step => slot'[r] = slot[r]
                         /\ slot[r].step = step => slot'[r] = slot[r]
  BY <1>1 DEF At
<1>3. \A step \in {"receipt.move", "return.move"} : Units(slot', step) = Units(slot, step)
  BY <1>2 DEF Units
<1> QED
  BY <1>1, <1>3

\* What a request reads fits.
LEMMA PurchaseRead ==
  ASSUME HandlersInv, PurchaseRows, NEW s \in Slots, At(s, "idle"), PurchasingRequest(s)
  PROVE  /\ UNCHANGED <<purchaseVars, goods>>
         /\ PurchaseLocals(s)' /\ PurchaseCarried(s)'
         /\ \A r \in Slots \ {s} : slot'[r] = slot[r]
         /\ Units(slot', "receipt.move") = Units(slot, "receipt.move")
         /\ Units(slot', "return.move") = Units(slot, "return.move")
         /\ InTurn' => \A r \in Slots \ {s} : At(r, "idle")
<1> DEFINE Goal ==
      /\ UNCHANGED <<purchaseVars, goods>>
      /\ PurchaseLocals(s)' /\ PurchaseCarried(s)'
      /\ \A r \in Slots \ {s} : slot'[r] = slot[r]
      /\ Units(slot', "receipt.move") = Units(slot, "receipt.move")
      /\ Units(slot', "return.move") = Units(slot, "return.move")
      /\ InTurn' => \A r \in Slots \ {s} : At(r, "idle")
<1>1. ASSUME NEW n \in 0..MaxQuantity, ReadPurchaseToUpdate(s, n) PROVE Goal
  <2>1. PICK locals :
          /\ locals.step = "po.write" /\ locals.quantity = n /\ locals.received = po.received
          /\ Begin(s, "po.update", locals) /\ UNCHANGED <<purchaseVars, goods>>
    BY <1>1 DEF ReadPurchaseToUpdate
  <2>2. n \in Nat /\ po.received \in Nat
    BY MaxQuantityAssumption DEF PurchaseRows
  <2> QED
    BY <2>1, <2>2, PurchaseTaken DEF PurchaseLocals, PurchaseCarried, PapersOnTheWay, At, purchaseVars
<1>2. ASSUME NEW status \in PurchaseStatuses, ReadPurchaseToSetStatus(s, status) PROVE Goal
  <2>1. PICK locals :
          /\ locals.step = "po.writeStatus" /\ locals.status = status
          /\ Begin(s, "po.status", locals) /\ UNCHANGED <<purchaseVars, goods>>
    BY <1>2 DEF ReadPurchaseToSetStatus
  <2> QED
    BY <2>1, PurchaseTaken DEF PurchaseLocals, PurchaseCarried, PapersOnTheWay, At
<1>3. ASSUME ReadPurchaseToDelete(s) PROVE Goal
  <2>1. PICK locals :
          /\ locals.step = "po.delete"
          /\ Begin(s, "po.delete", locals) /\ UNCHANGED <<purchaseVars, goods>>
    BY <1>3 DEF ReadPurchaseToDelete
  <2> QED
    BY <2>1, PurchaseTaken DEF PurchaseLocals, PurchaseCarried, PapersOnTheWay, At
<1>4. ASSUME NEW w \in Depots, NEW n \in Quantities, ReadToReceive(s, w, n) PROVE Goal
  <2>1. PICK locals :
          /\ locals.step = "receipt.insert" /\ locals.quantity = n
          /\ locals.status = StatusAfterReceipt(po.received + n)
          /\ Begin(s, "po.receive", locals) /\ UNCHANGED <<purchaseVars, goods>>
          /\ n <= OutstandingUnits
    BY <1>4 DEF ReadToReceive
  <2>2. n \in Nat \ {0} /\ po.received \in Nat /\ po.ordered \in Nat
    BY MaxQuantityAssumption DEF PurchaseRows, Quantities
  <2>3. n <= po.ordered - po.received /\ StatusAfterReceipt(po.received + n) \in PurchaseStatuses
    BY <2>1, <2>2 DEF OutstandingUnits, AtLeastZero, StatusAfterReceipt, PurchaseStatuses
  <2> QED
    BY <2>1, <2>2, <2>3, PurchaseTaken
       DEF PurchaseLocals, PurchaseCarried, PapersOnTheWay, At, purchaseVars
<1>5. ASSUME NEW w \in Depots, NEW n \in Quantities, NEW most \in 1..n,
             ReadToReturn(s, w, n, most)
      PROVE  Goal
  <2>1. PICK locals :
          /\ locals.step = "return.insert" /\ locals.quantity = n /\ locals.at = w
          /\ locals.repeats = (most < n) /\ locals.status = StatusAfterReceipt(po.received - n)
          /\ Begin(s, "po.return", locals) /\ UNCHANGED <<purchaseVars, goods>>
          /\ n <= po.received /\ Available(w) >= most
    BY <1>5 DEF ReadToReturn
  <2>2. n \in Nat /\ StatusAfterReceipt(po.received - n) \in PurchaseStatuses
    BY MaxQuantityAssumption DEF Quantities, StatusAfterReceipt, PurchaseStatuses
  <2>3. (Available(w)' >= n \/ locals.repeats) /\ n <= po'.received
    <3>1. UNCHANGED <<po, onHand, reserved>>
      BY <2>1 DEF goods, purchaseVars
    <3>2. Available(w)' = Available(w)
      BY <3>1 DEF Available
    <3>3. most = n \/ most < n
      BY <2>2
    <3>4. most < n => locals.repeats
      BY <2>1, Zenon
    <3> QED
      BY <2>1, <3>1, <3>2, <3>3, <3>4
  <2>4. slot'[s] = locals
    BY <2>1, PurchaseTaken
  <2>5. PurchaseLocals(s)' /\ PurchaseCarried(s)'
    BY <2>1, <2>2, <2>3, <2>4 DEF PurchaseLocals, PurchaseCarried, PapersOnTheWay, At, Available
  <2> QED
    BY <2>1, <2>5, PurchaseTaken
<1>6. ASSUME NEW a, ReadToPayVendor(s, a) PROVE Goal
  <2>1. PICK locals :
          /\ locals.step = "po.insertPayment"
          /\ Begin(s, "po.pay", locals) /\ UNCHANGED <<purchaseVars, goods>>
    BY <1>6 DEF ReadToPayVendor
  <2> QED
    BY <2>1, PurchaseTaken DEF PurchaseLocals, PurchaseCarried, PapersOnTheWay, At
<1>7. ASSUME NEW p, ReadToUnpayVendor(s, p) PROVE Goal
  <2>1. PICK locals :
          /\ locals.step = "po.deletePayment"
          /\ Begin(s, "po.unpay", locals) /\ UNCHANGED <<purchaseVars, goods>>
    BY <1>7 DEF ReadToUnpayVendor
  <2> QED
    BY <2>1, PurchaseTaken DEF PurchaseLocals, PurchaseCarried, PapersOnTheWay, At
<1> HIDE DEF Goal
<1>8. Goal
  BY <1>1, <1>2, <1>3, <1>4, <1>5, <1>6, <1>7 DEF PurchasingRequest
<1> QED
  BY <1>8 DEF Goal

\* A handler that neither was about to move goods nor is leaves the units alone.
LEMMA UnitsStay ==
  ASSUME HandlersInv, NEW s \in Slots, NEW locals, Continue(s, locals),
         slot[s].step \notin {"receipt.move", "return.move"},
         locals.step \notin {"receipt.move", "return.move"}
  PROVE  /\ slot'[s] = locals /\ \A r \in Slots \ {s} : slot'[r] = slot[r]
         /\ Units(slot', "receipt.move") = Units(slot, "receipt.move")
         /\ Units(slot', "return.move") = Units(slot, "return.move")
<1>1. slot'[s] = locals /\ \A r \in Slots \ {s} : slot'[r] = slot[r]
  BY DEF Continue, HandlersInv
<1>2. \A step \in {"receipt.move", "return.move"} :
        \A r \in Slots : /\ slot'[r].step = step => slot'[r] = slot[r]
                         /\ slot[r].step = step => slot'[r] = slot[r]
  BY <1>1
<1>3. \A step \in {"receipt.move", "return.move"} : Units(slot', step) = Units(slot, step)
  BY <1>2 DEF Units
<1> QED
  BY <1>1, <1>3

\* A handler that ends without having moved anything.
LEMMA PurchaseEnds ==
  ASSUME HandlersInv, NEW s \in Slots, Finish(s),
         slot[s].step \notin {"receipt.move", "return.move"}
  PROVE  /\ \A r \in Slots \ {s} : slot'[r] = slot[r]
         /\ Units(slot', "receipt.move") = Units(slot, "receipt.move")
         /\ Units(slot', "return.move") = Units(slot, "return.move")
         /\ PurchaseLocals(s)' /\ PurchaseCarried(s)'
<1>1. Continue(s, Idle) /\ Idle.step = "idle"
  BY DEF Finish, Idle
<1>2. slot'[s] = Idle
  BY <1>1, UnitsStay
<1> QED
  BY <1>1, <1>2, UnitsStay DEF PurchaseLocals, PurchaseCarried, PapersOnTheWay, At

\* What an edit writes.
LEMMA PurchaseWritten ==
  ASSUME HandlersInv, PurchaseRows, NEW s \in Slots, PurchaseLocals(s), WritePurchase(s)
  PROVE  /\ Finish(s) /\ At(s, "po.write") /\ UNCHANGED <<papers, goods>>
         /\ {"status", "ordered", "received"} \subseteq DOMAIN po' /\ po'.status = po.status
         /\ \/ po'.ordered = po.ordered /\ po'.received = po.received
            \/ /\ received = 0
               /\ po'.ordered = slot[s].quantity /\ po'.received = slot[s].received
<1> DEFINE l == slot[s]
<1>1. /\ Finish(s) /\ At(s, "po.write") /\ UNCHANGED <<papers, goods>>
      /\ CanWritePurchase(l.quantity)
  BY DEF WritePurchase
<1>2. PICK half : half = [po EXCEPT !.total = l.total]
  OBVIOUS
<1>3. PICK written : written = [half EXCEPT !.due = l.total - l.paid]
  OBVIOUS
<1>4. written = [po EXCEPT !.total = l.total, !.due = l.total - l.paid]
  BY <1>2, <1>3, Zenon
<1>5. /\ {"status", "ordered", "received"} \subseteq DOMAIN written /\ written.status = po.status
      /\ written.ordered = po.ordered /\ written.received = po.received
  BY <1>2, <1>3 DEF PurchaseRows
<1>6. CASE l.quantity = 0 /\ po' = written
  BY <1>1, <1>5, <1>6
<1>7. CASE /\ l.quantity > 0
           /\ po' = [written EXCEPT !.line = @ + 1, !.ordered = l.quantity, !.received = l.received]
  <2>1. PICK a : a = [written EXCEPT !.line = @ + 1]
    OBVIOUS
  <2>2. PICK b : b = [a EXCEPT !.ordered = l.quantity]
    OBVIOUS
  <2>3. PICK c : c = [b EXCEPT !.received = l.received]
    OBVIOUS
  <2>4. po' = c
    BY <1>7, <2>1, <2>2, <2>3, Zenon
  <2>5. /\ {"status", "ordered", "received"} \subseteq DOMAIN c /\ c.status = po.status
        /\ c.ordered = l.quantity /\ c.received = l.received
    BY <1>5, <2>1, <2>2, <2>3
  <2>6. received = 0
    BY <1>1, <1>7 DEF CanWritePurchase
  <2> QED
    BY <1>1, <2>4, <2>5, <2>6
<1>8. \/ l.quantity = 0 /\ po' = written
      \/ /\ l.quantity > 0
         /\ po' = [written EXCEPT !.line = @ + 1, !.ordered = l.quantity, !.received = l.received]
  BY <1>4, Zenon DEF WritePurchase
<1> QED
  BY <1>6, <1>7, <1>8

\* What every step of a handler leaves behind it.
PurchaseKept(s) ==
  /\ \A r \in Slots \ {s} : slot'[r] = slot[r]
  /\ PurchaseRows' /\ PurchaseLocals(s)'
  /\ PurchaseExact /\ PurchaseCarried(s) => PurchaseExact' /\ PurchaseCarried(s)'

\* Rows and units that are as they were fit as they did.
LEMMA PurchaseUnwritten ==
  ASSUME PurchaseRows, UNCHANGED <<papers, goods>>,
         {"status", "ordered", "received"} \subseteq DOMAIN po',
         po'.ordered = po.ordered, po'.received = po.received, po'.status # "none",
         Units(slot', "receipt.move") = Units(slot, "receipt.move"),
         Units(slot', "return.move") = Units(slot, "return.move")
  PROVE  PurchaseRows' /\ (PurchaseExact => PurchaseExact')
BY DEF PurchaseRows, PurchaseExact, papers, goods

\* Edits, changes of status and deletion.
LEMMA OrderStepped ==
  ASSUME HandlersInv, PurchaseRows, NEW s \in Slots, PurchaseLocals(s),
         WritePurchase(s) \/ WritePurchaseStatus(s) \/ DeletePurchase(s)
  PROVE  PurchaseKept(s)
<1>1. CASE WritePurchase(s)
  <2>1. /\ Finish(s) /\ At(s, "po.write") /\ UNCHANGED <<papers, goods>>
        /\ {"status", "ordered", "received"} \subseteq DOMAIN po' /\ po'.status = po.status
        /\ \/ po'.ordered = po.ordered /\ po'.received = po.received
           \/ /\ received = 0
              /\ po'.ordered = slot[s].quantity /\ po'.received = slot[s].received
    BY <1>1, PurchaseWritten
  <2>2. /\ \A r \in Slots \ {s} : slot'[r] = slot[r]
        /\ Units(slot', "receipt.move") = Units(slot, "receipt.move")
        /\ Units(slot', "return.move") = Units(slot, "return.move")
        /\ PurchaseLocals(s)' /\ PurchaseCarried(s)'
    BY <2>1, PurchaseEnds DEF At
  <2>3. po.status # "none"
    BY <1>1 DEF WritePurchase, CanWritePurchase, Ordered, PurchaseStatuses
  <2>4. CASE po'.ordered = po.ordered /\ po'.received = po.received
    BY <2>1, <2>2, <2>3, <2>4, PurchaseUnwritten DEF PurchaseKept
  <2>5. CASE received = 0 /\ po'.ordered = slot[s].quantity /\ po'.received = slot[s].received
    <3>1. slot[s].quantity \in Nat /\ slot[s].received \in Nat
      BY <2>1 DEF PurchaseLocals
    <3>2. UNCHANGED <<received, returned, arrived, left, refused>>
      BY <2>1 DEF papers, goods
    <3>3. PurchaseRows'
      BY <2>1, <2>2, <2>3, <2>5, <3>1, <3>2 DEF PurchaseRows
    <3>4. ASSUME PurchaseExact, PurchaseCarried(s) PROVE PurchaseExact'
      <4>1. slot[s].received = po.received /\ po.received = 0 - returned
        BY <2>1, <2>5, <3>4 DEF PurchaseCarried, PurchaseExact
      <4>2. po.received = 0 /\ returned = 0
        BY <4>1 DEF PurchaseRows
      <4> QED
        BY <2>2, <2>5, <3>1, <3>2, <3>4, <4>1, <4>2 DEF PurchaseExact
    <3> QED
      BY <2>2, <3>3, <3>4 DEF PurchaseKept
  <2> QED
    BY <2>1, <2>4, <2>5
<1>2. CASE WritePurchaseStatus(s)
  <2>1. /\ po' = [po EXCEPT !.status = slot[s].status] /\ At(s, "po.writeStatus")
        /\ Finish(s) /\ UNCHANGED <<papers, goods>>
    BY <1>2 DEF WritePurchaseStatus
  <2>2. /\ \A r \in Slots \ {s} : slot'[r] = slot[r]
        /\ Units(slot', "receipt.move") = Units(slot, "receipt.move")
        /\ Units(slot', "return.move") = Units(slot, "return.move")
        /\ PurchaseLocals(s)' /\ PurchaseCarried(s)'
    BY <2>1, PurchaseEnds DEF At
  <2>3. slot[s].status # "none"
    BY <2>1 DEF PurchaseLocals, PurchaseStatuses, At
  <2>4. /\ {"status", "ordered", "received"} \subseteq DOMAIN po' /\ po'.status # "none"
        /\ po'.ordered = po.ordered /\ po'.received = po.received
    BY <2>1, <2>3 DEF PurchaseRows
  <2> QED
    BY <2>1, <2>2, <2>4, PurchaseUnwritten DEF PurchaseKept
<1>3. CASE DeletePurchase(s)
  <2>1. /\ po' = [po EXCEPT !.status = "gone"] /\ At(s, "po.delete")
        /\ Finish(s) /\ UNCHANGED <<papers, goods>>
    BY <1>3 DEF DeletePurchase
  <2>2. /\ \A r \in Slots \ {s} : slot'[r] = slot[r]
        /\ Units(slot', "receipt.move") = Units(slot, "receipt.move")
        /\ Units(slot', "return.move") = Units(slot, "return.move")
        /\ PurchaseLocals(s)' /\ PurchaseCarried(s)'
    BY <2>1, PurchaseEnds DEF At
  <2>3. /\ {"status", "ordered", "received"} \subseteq DOMAIN po' /\ po'.status # "none"
        /\ po'.ordered = po.ordered /\ po'.received = po.received
    BY <2>1 DEF PurchaseRows
  <2> QED
    BY <2>1, <2>2, <2>3, PurchaseUnwritten DEF PurchaseKept
<1> QED
  BY <1>1, <1>2, <1>3

\* A receipt is on paper before its goods move.
LEMMA ReceiptStepped ==
  ASSUME HandlersInv, PurchaseRows, NEW s \in Slots, PurchaseLocals(s),
         InsertReceipt(s) \/ MoveReceived(s)
  PROVE  PurchaseKept(s)
<1> DEFINE n == slot[s].quantity
<1>1. CASE InsertReceipt(s)
  <2>1. /\ At(s, "receipt.insert")
        /\ po' = [po EXCEPT !.received = @ + n, !.status = slot[s].status]
        /\ received' = received + n
        /\ Continue(s, [step |-> "receipt.move", quantity |-> n, at |-> slot[s].at])
        /\ UNCHANGED <<returned, arrived, left, refused>>
    BY <1>1 DEF InsertReceipt, goods
  <2>2. n \in Nat /\ slot[s].status \in PurchaseStatuses
    BY <2>1 DEF PurchaseLocals, PapersOnTheWay, At
  <2>3. /\ slot'[s] = [step |-> "receipt.move", quantity |-> n, at |-> slot[s].at]
        /\ \A r \in Slots \ {s} : slot'[r] = slot[r]
    BY <2>1 DEF Continue, HandlersInv
  <2>4. /\ {"status", "ordered", "received"} \subseteq DOMAIN po' /\ po'.status = slot[s].status
        /\ po'.ordered = po.ordered /\ po'.received = po.received + n
    <3>1. PICK half : half = [po EXCEPT !.received = @ + n]
      OBVIOUS
    <3>2. po' = [half EXCEPT !.status = slot[s].status]
      BY <2>1, <3>1, Zenon
    <3> QED
      BY <3>1, <3>2 DEF PurchaseRows
  <2>5. /\ Load(slot, s, "receipt.move") = 0 /\ Load(slot', s, "receipt.move") = n
        /\ Load(slot, s, "return.move") = 0 /\ Load(slot', s, "return.move") = 0
    BY <2>1, <2>3 DEF Load, At
  <2>6. /\ IsFiniteSet(Units(slot', "receipt.move"))
        /\ Cardinality(Units(slot, "receipt.move")) \in Nat
        /\ Cardinality(Units(slot', "receipt.move")) = Cardinality(Units(slot, "receipt.move")) - 0 + n
    BY <2>2, <2>3, <2>5, UnitsMoved DEF PurchaseRows
  <2>7. /\ IsFiniteSet(Units(slot', "return.move"))
        /\ Cardinality(Units(slot, "return.move")) \in Nat
        /\ Cardinality(Units(slot', "return.move")) = Cardinality(Units(slot, "return.move")) - 0 + 0
    BY <2>3, <2>5, UnitsMoved DEF PurchaseRows
  <2>8. PurchaseRows'
    BY <2>1, <2>2, <2>4, <2>6, <2>7 DEF PurchaseRows, PurchaseStatuses
  <2>9. PurchaseLocals(s)' /\ PurchaseCarried(s)'
    BY <2>2, <2>3 DEF PurchaseLocals, PurchaseCarried, PapersOnTheWay, At
  <2>10. ASSUME PurchaseExact, PurchaseCarried(s) PROVE PurchaseExact'
    <3>1. n <= po.ordered - po.received
      BY <2>1, <2>10 DEF PurchaseCarried
    <3> QED
      BY <2>1, <2>2, <2>4, <2>6, <2>7, <2>10, <3>1 DEF PurchaseRows, PurchaseExact
  <2> QED
    BY <2>3, <2>8, <2>9, <2>10 DEF PurchaseKept
<1>2. CASE MoveReceived(s)
  <2>1. /\ At(s, "receipt.move") /\ arrived' = arrived + n /\ Finish(s)
        /\ UNCHANGED <<po, papers, left, refused>>
    BY <1>2 DEF MoveReceived
  <2>2. n \in Nat /\ UNCHANGED <<received, returned>>
    BY <2>1 DEF PurchaseLocals, PapersOnTheWay, At, papers
  <2>3. slot'[s] = Idle /\ \A r \in Slots \ {s} : slot'[r] = slot[r]
    BY <2>1 DEF Finish, Continue, HandlersInv
  <2>4. /\ Load(slot, s, "receipt.move") = n /\ Load(slot', s, "receipt.move") = 0
        /\ Load(slot, s, "return.move") = 0 /\ Load(slot', s, "return.move") = 0
    BY <2>1, <2>3 DEF Load, At, Idle
  <2>5. /\ IsFiniteSet(Units(slot', "receipt.move"))
        /\ Cardinality(Units(slot, "receipt.move")) \in Nat
        /\ Cardinality(Units(slot', "receipt.move")) = Cardinality(Units(slot, "receipt.move")) - n + 0
    <3>1. IsFiniteSet(Units(slot, "receipt.move")) /\ 0 \in Nat
      BY DEF PurchaseRows
    <3> QED
      BY <2>2, <2>3, <2>4, <3>1, UnitsMoved
  <2>6. /\ IsFiniteSet(Units(slot', "return.move"))
        /\ Cardinality(Units(slot, "return.move")) \in Nat
        /\ Cardinality(Units(slot', "return.move")) = Cardinality(Units(slot, "return.move")) - 0 + 0
    BY <2>3, <2>4, UnitsMoved DEF PurchaseRows
  <2>7. PurchaseRows' /\ (PurchaseExact => PurchaseExact')
    BY <2>1, <2>2, <2>5, <2>6 DEF PurchaseRows, PurchaseExact
  <2>8. PurchaseLocals(s)' /\ PurchaseCarried(s)'
    BY <2>3 DEF PurchaseLocals, PurchaseCarried, PapersOnTheWay, At, Idle
  <2> QED
    BY <2>3, <2>7, <2>8 DEF PurchaseKept
<1> QED
  BY <1>1, <1>2

\* A return is on paper before its goods move or are refused.
LEMMA ReturnStepped ==
  ASSUME HandlersInv, PurchaseRows, NEW s \in Slots, PurchaseLocals(s),
         InsertReturn(s) \/ MoveReturned(s) \/ RefuseReturn(s)
  PROVE  PurchaseKept(s)
<1> DEFINE n == slot[s].quantity
<1>1. CASE InsertReturn(s)
  <2>1. /\ At(s, "return.insert")
        /\ po' = [po EXCEPT !.received = AtLeastZero(@ - n), !.status = slot[s].status]
        /\ returned' = returned + n
        /\ Continue(s, [step |-> "return.move", quantity |-> n, at |-> slot[s].at,
                        repeats |-> slot[s].repeats, total |-> slot[s].total])
        /\ UNCHANGED <<received, goods>>
    BY <1>1 DEF InsertReturn
  <2>2. n \in Nat /\ slot[s].status \in PurchaseStatuses
    BY <2>1 DEF PurchaseLocals, PapersOnTheWay, At
  <2>3. /\ slot'[s] = [step |-> "return.move", quantity |-> n, at |-> slot[s].at,
                       repeats |-> slot[s].repeats, total |-> slot[s].total]
        /\ \A r \in Slots \ {s} : slot'[r] = slot[r]
    BY <2>1 DEF Continue, HandlersInv
  <2>4. /\ {"status", "ordered", "received"} \subseteq DOMAIN po' /\ po'.status = slot[s].status
        /\ po'.ordered = po.ordered /\ po'.received = AtLeastZero(po.received - n)
    <3>1. PICK half : half = [po EXCEPT !.received = AtLeastZero(@ - n)]
      OBVIOUS
    <3>2. po' = [half EXCEPT !.status = slot[s].status]
      BY <2>1, <3>1, Zenon
    <3> QED
      BY <3>1, <3>2 DEF PurchaseRows
  <2>5. /\ Load(slot, s, "receipt.move") = 0 /\ Load(slot', s, "receipt.move") = 0
        /\ Load(slot, s, "return.move") = 0 /\ Load(slot', s, "return.move") = n
    BY <2>1, <2>3 DEF Load, At
  <2>6. /\ IsFiniteSet(Units(slot', "receipt.move"))
        /\ Cardinality(Units(slot, "receipt.move")) \in Nat
        /\ Cardinality(Units(slot', "receipt.move")) = Cardinality(Units(slot, "receipt.move")) - 0 + 0
    BY <2>3, <2>5, UnitsMoved DEF PurchaseRows
  <2>7. /\ IsFiniteSet(Units(slot', "return.move"))
        /\ Cardinality(Units(slot, "return.move")) \in Nat
        /\ Cardinality(Units(slot', "return.move")) = Cardinality(Units(slot, "return.move")) - 0 + n
    BY <2>2, <2>3, <2>5, UnitsMoved DEF PurchaseRows
  <2>8. UNCHANGED <<arrived, left, refused, onHand, reserved>>
    BY <2>1 DEF goods
  <2>9. PurchaseRows'
    BY <2>1, <2>2, <2>4, <2>6, <2>7, <2>8 DEF PurchaseRows, PurchaseStatuses, AtLeastZero
  <2>10. PurchaseLocals(s)'
    BY <2>2, <2>3 DEF PurchaseLocals, PapersOnTheWay, At
  <2>11. ASSUME PurchaseExact, PurchaseCarried(s) PROVE PurchaseExact' /\ PurchaseCarried(s)'
    <3>1. n <= po.received /\ (Available(slot[s].at) >= n \/ slot[s].repeats)
      BY <2>1, <2>11 DEF PurchaseCarried, At
    <3>2. po'.received = po.received - n
      BY <2>2, <2>4, <3>1 DEF AtLeastZero, PurchaseRows
    <3>3. PurchaseExact'
      BY <2>1, <2>2, <2>4, <2>6, <2>7, <2>8, <2>11, <3>1, <3>2 DEF PurchaseRows, PurchaseExact
    <3>4. PurchaseCarried(s)'
      BY <2>3, <2>8, <3>1 DEF PurchaseCarried, Available, At
    <3> QED
      BY <3>3, <3>4
  <2> QED
    BY <2>3, <2>9, <2>10, <2>11 DEF PurchaseKept
<1>2. ASSUME NEW locals, Continue(s, locals), locals.step \in {"po.readPaid", "idle"},
             At(s, "return.move"), UNCHANGED <<po, papers, arrived>>
      PROVE  /\ \A r \in Slots \ {s} : slot'[r] = slot[r]
             /\ n \in Nat /\ UNCHANGED <<received, returned>>
             /\ PurchaseLocals(s)' /\ PurchaseCarried(s)'
             /\ IsFiniteSet(Units(slot', "receipt.move")) /\ IsFiniteSet(Units(slot', "return.move"))
             /\ Cardinality(Units(slot, "receipt.move")) \in Nat
             /\ Cardinality(Units(slot, "return.move")) \in Nat
             /\ Cardinality(Units(slot', "return.move")) \in Nat
             /\ Cardinality(Units(slot', "receipt.move")) = Cardinality(Units(slot, "receipt.move"))
             /\ Cardinality(Units(slot', "return.move")) = Cardinality(Units(slot, "return.move")) - n
  <2>1. n \in Nat /\ UNCHANGED <<received, returned>>
    BY <1>2 DEF PurchaseLocals, PapersOnTheWay, At, papers
  <2>2. slot'[s] = locals /\ \A r \in Slots \ {s} : slot'[r] = slot[r]
    BY <1>2 DEF Continue, HandlersInv
  <2>3. /\ Load(slot, s, "receipt.move") = 0 /\ Load(slot', s, "receipt.move") = 0
        /\ Load(slot, s, "return.move") = n /\ Load(slot', s, "return.move") = 0
    BY <1>2, <2>2 DEF Load, At
  <2>4. /\ IsFiniteSet(Units(slot', "receipt.move"))
        /\ Cardinality(Units(slot, "receipt.move")) \in Nat
        /\ Cardinality(Units(slot', "receipt.move")) = Cardinality(Units(slot, "receipt.move")) - 0 + 0
    BY <2>2, <2>3, UnitsMoved DEF PurchaseRows
  <2>5. /\ IsFiniteSet(Units(slot', "return.move"))
        /\ Cardinality(Units(slot, "return.move")) \in Nat
        /\ Cardinality(Units(slot', "return.move")) \in Nat
        /\ Cardinality(Units(slot', "return.move")) = Cardinality(Units(slot, "return.move")) - n + 0
    BY <2>1, <2>2, <2>3, UnitsMoved DEF PurchaseRows
  <2>6. PurchaseLocals(s)' /\ PurchaseCarried(s)'
    BY <1>2, <2>2 DEF PurchaseLocals, PurchaseCarried, PapersOnTheWay, At
  <2> QED
    BY <2>1, <2>2, <2>4, <2>5, <2>6
<1>3. CASE MoveReturned(s)
  <2>1. /\ At(s, "return.move") /\ left' = left + n
        /\ Continue(s, [step |-> "po.readPaid", total |-> slot[s].total])
        /\ UNCHANGED <<po, papers, arrived, refused>>
    BY <1>3 DEF MoveReturned
  <2>2. PICK locals : locals.step = "po.readPaid" /\ Continue(s, locals)
    BY <2>1
  <2>3. /\ \A r \in Slots \ {s} : slot'[r] = slot[r]
        /\ n \in Nat /\ UNCHANGED <<received, returned>>
        /\ PurchaseLocals(s)' /\ PurchaseCarried(s)'
        /\ IsFiniteSet(Units(slot', "receipt.move")) /\ IsFiniteSet(Units(slot', "return.move"))
        /\ Cardinality(Units(slot, "receipt.move")) \in Nat
        /\ Cardinality(Units(slot, "return.move")) \in Nat
        /\ Cardinality(Units(slot', "return.move")) \in Nat
        /\ Cardinality(Units(slot', "receipt.move")) = Cardinality(Units(slot, "receipt.move"))
        /\ Cardinality(Units(slot', "return.move")) = Cardinality(Units(slot, "return.move")) - n
    BY <1>2, <2>1, <2>2
  <2>4. PurchaseRows' /\ (PurchaseExact => PurchaseExact')
    BY <2>1, <2>3 DEF PurchaseRows, PurchaseExact
  <2> QED
    BY <2>3, <2>4 DEF PurchaseKept
<1>4. CASE RefuseReturn(s)
  <2>1. /\ At(s, "return.move") /\ refused' = refused + n
        /\ Continue(s, Idle) /\ Idle.step = "idle"
        /\ UNCHANGED <<po, papers, arrived, left>>
    BY <1>4 DEF RefuseReturn, Finish, Idle
  <2>2. PurchaseRows' /\ (PurchaseExact => PurchaseExact')
    BY <1>2, <2>1 DEF PurchaseRows, PurchaseExact
  <2> QED
    BY <1>2, <2>1, <2>2 DEF PurchaseKept
<1> QED
  BY <1>1, <1>3, <1>4

\* Payments, and what the database refuses, move no goods.
LEMMA PaymentStepped ==
  ASSUME HandlersInv, PurchaseRows, NEW s \in Slots, PurchaseLocals(s),
         \/ InsertVendorPayment(s) \/ DeleteVendorPayment(s) \/ ReadVendorPaid(s)
         \/ ReadReturned(s) \/ SettlePurchase(s) \/ FailPurchasing(s)
  PROVE  PurchaseKept(s)
<1>1. ASSUME NEW locals, Continue(s, locals),
             slot[s].step \notin {"receipt.move", "return.move"},
             locals.step \in {"po.readPaid", "po.readReturned", "po.settle", "idle"},
             UNCHANGED <<received, returned, goods>>,
             {"status", "ordered", "received"} \subseteq DOMAIN po',
             po'.ordered = po.ordered, po'.received = po.received, po'.status = po.status
      PROVE  PurchaseKept(s)
  <2>1. /\ slot'[s] = locals /\ \A r \in Slots \ {s} : slot'[r] = slot[r]
        /\ Units(slot', "receipt.move") = Units(slot, "receipt.move")
        /\ Units(slot', "return.move") = Units(slot, "return.move")
    BY <1>1, UnitsStay
  <2>2. PurchaseLocals(s)' /\ PurchaseCarried(s)'
    BY <1>1, <2>1 DEF PurchaseLocals, PurchaseCarried, PapersOnTheWay, At
  <2>3. PurchaseRows' /\ (PurchaseExact => PurchaseExact')
    BY <1>1, <2>1 DEF PurchaseRows, PurchaseExact, goods
  <2> QED
    BY <2>1, <2>2, <2>3 DEF PurchaseKept
<1>2. ASSUME NEW locals, Continue(s, locals),
             slot[s].step \notin {"receipt.move", "return.move"},
             locals.step \in {"po.readPaid", "po.readReturned", "po.settle", "idle"},
             UNCHANGED <<po, received, returned, goods>>
      PROVE  PurchaseKept(s)
  BY <1>1, <1>2 DEF PurchaseRows
<1>3. CASE InsertVendorPayment(s)
  BY <1>2, <1>3 DEF InsertVendorPayment, At
<1>4. CASE DeleteVendorPayment(s)
  BY <1>2, <1>4 DEF DeleteVendorPayment, At
<1>5. CASE ReadVendorPaid(s)
  BY <1>2, <1>5 DEF ReadVendorPaid, At, purchaseVars
<1>6. CASE ReadReturned(s)
  BY <1>2, <1>6 DEF ReadReturned, At, purchaseVars
<1>7. CASE SettlePurchase(s)
  <2>1. /\ po' = [po EXCEPT !.paid = slot[s].paid,
                            !.due = slot[s].total - slot[s].returned - slot[s].paid]
        /\ At(s, "po.settle") /\ Continue(s, Idle) /\ Idle.step = "idle"
        /\ UNCHANGED <<received, returned, goods>>
    BY <1>7 DEF SettlePurchase, Finish, Idle, papers
  <2>2. PICK half : half = [po EXCEPT !.paid = slot[s].paid]
    OBVIOUS
  <2>3. po' = [half EXCEPT !.due = slot[s].total - slot[s].returned - slot[s].paid]
    BY <2>1, <2>2, Zenon
  <2>4. /\ {"status", "ordered", "received"} \subseteq DOMAIN po'
        /\ po'.ordered = po.ordered /\ po'.received = po.received /\ po'.status = po.status
    BY <2>2, <2>3 DEF PurchaseRows
  <2> QED
    BY <1>1, <2>1, <2>4 DEF At
<1>8. CASE FailPurchasing(s)
  <2>1. /\ Continue(s, Idle) /\ Idle.step = "idle"
        /\ slot[s].step \notin {"receipt.move", "return.move"}
        /\ UNCHANGED <<po, received, returned, goods>>
    BY <1>8 DEF FailPurchasing, Finish, Idle, At, purchaseVars
  <2> QED
    BY <1>2, <2>1
<1> QED
  BY <1>3, <1>4, <1>5, <1>6, <1>7, <1>8

\* Placing an order, and selling what has arrived.
LEMMA PurchaseCalled ==
  ASSUME HandlersInv, PurchaseRows, NEW w, NEW n \in Quantities,
         CreatePurchase(n) \/ SellReceived(w, n)
  PROVE  /\ slot' = slot /\ (InTurn' => Quiet)
         /\ PurchaseRows' /\ (PurchaseExact => PurchaseExact')
<1>1. slot' = slot /\ (InTurn' => Quiet)
  BY DEF CreatePurchase, SellReceived, Happens, InTurn
<1>2. CASE CreatePurchase(n)
  <2>1. /\ po' = [status |-> "draft", line |-> 1, ordered |-> n, received |-> 0,
                  total |-> n, paid |-> 0, due |-> n]
        /\ UNCHANGED <<received, returned, arrived, left, refused>>
        /\ received = 0 /\ returned = 0 /\ n \in Nat
    BY <1>2, MaxQuantityAssumption DEF CreatePurchase, papers, goods, PurchaseRows, Quantities
  <2>2. /\ {"status", "ordered", "received"} \subseteq DOMAIN po' /\ po'.status = "draft"
        /\ po'.ordered = n /\ po'.received = 0
    BY <2>1
  <2> QED
    BY <1>1, <2>1, <2>2 DEF PurchaseRows, PurchaseExact
<1>3. CASE SellReceived(w, n)
  BY <1>1, <1>3 DEF SellReceived, purchaseVars, PurchaseRows, PurchaseExact
<1> QED
  BY <1>2, <1>3

\* Every step keeps goods behind papers, and in turn the two together.
LEMMA PurchasingInvNext ==
  ASSUME HandlersInv, PurchasingInv, [ServiceNext]_ServiceVars
  PROVE  PurchasingInv'
<1>1. /\ PurchaseRows /\ \A s \in Slots : PurchaseLocals(s)
      /\ InTurn' => InTurn /\ PurchaseExact /\ \A s \in Slots : PurchaseCarried(s)
  BY Undisturbed DEF PurchasingInv
<1>2. ASSUME NEW s \in Slots, slot'[s] = slot[s]
      PROVE  PurchaseLocals(s)'
  BY <1>1, <1>2 DEF PurchaseLocals, PapersOnTheWay, At
<1>3. ASSUME NEW s \in Slots, slot'[s].step \notin PurchasingSteps
      PROVE  PurchaseLocals(s)' /\ PurchaseCarried(s)'
  BY <1>3 DEF PurchaseLocals, PurchaseCarried, PapersOnTheWay, At, PurchasingSteps
<1>4. ASSUME UNCHANGED purchaseVars, Elsewhere(PurchasingSteps),
             \A s \in Slots : slot[s].step \in PurchasingSteps /\ InTurn' => UNCHANGED shelfVars
      PROVE  PurchasingInv'
  <2>1. \A s \in Slots : slot'[s].step \in PurchasingSteps => slot'[s] = slot[s]
    BY <1>4 DEF Elsewhere
  <2>2. \A s \in Slots : slot[s].step \in PurchasingSteps /\ InTurn' => slot'[s] = slot[s]
    BY <1>4 DEF Elsewhere, InTurn
  <2>3. ASSUME NEW step \in {"receipt.move", "return.move"}
        PROVE  /\ IsFiniteSet(Units(slot', step))
               /\ Cardinality(Units(slot, step)) \in Nat /\ Cardinality(Units(slot', step)) \in Nat
               /\ Cardinality(Units(slot', step)) <= Cardinality(Units(slot, step))
               /\ InTurn' => Units(slot', step) = Units(slot, step)
    <3>1. step \in PurchasingSteps /\ IsFiniteSet(Units(slot, step))
      BY <1>1 DEF PurchaseRows, PurchasingSteps
    <3>2. /\ \A s \in Slots : slot'[s].step = step => slot'[s] = slot[s]
          /\ InTurn' => \A s \in Slots : slot[s].step = step => slot'[s] = slot[s]
      BY <2>1, <2>2, <3>1
    <3> QED
      BY <3>1, <3>2, UnitsDropped
  <2>4. PurchaseRows' /\ (InTurn' => PurchaseExact')
    BY <1>1, <1>4, <2>3 DEF PurchaseRows, PurchaseExact, purchaseVars
  <2>5. ASSUME NEW s \in Slots PROVE PurchaseLocals(s)' /\ (InTurn' => PurchaseCarried(s)')
    <3>1. CASE slot'[s].step \in PurchasingSteps
      <4>1. slot'[s] = slot[s] /\ slot[s].step \in PurchasingSteps
        BY <2>1, <3>1
      <4>2. InTurn' => PurchaseCarried(s) /\ UNCHANGED <<po, onHand, reserved>>
        BY <1>1, <1>4, <4>1 DEF purchaseVars, shelfVars
      <4> QED
        BY <1>2, <4>1, <4>2 DEF PurchaseCarried, Available, At
    <3> QED
      BY <1>3, <3>1
  <2> QED
    BY <2>4, <2>5 DEF PurchasingInv
<1>5. ASSUME NEW s \in Slots, \A r \in Slots \ {s} : slot'[r] = slot[r], PurchaseLocals(s)'
      PROVE  /\ \A r \in Slots : PurchaseLocals(r)'
             /\ (\A r \in Slots \ {s} : At(r, "idle")) /\ PurchaseCarried(s)'
                => \A r \in Slots : PurchaseCarried(r)'
  BY <1>2, <1>3, <1>5 DEF At, PurchasingSteps
<1>6. ASSUME NEW s \in Slots, At(s, "idle"), PurchasingRequest(s) PROVE PurchasingInv'
  <2>1. /\ UNCHANGED <<purchaseVars, goods>>
        /\ PurchaseLocals(s)' /\ PurchaseCarried(s)'
        /\ \A r \in Slots \ {s} : slot'[r] = slot[r]
        /\ Units(slot', "receipt.move") = Units(slot, "receipt.move")
        /\ Units(slot', "return.move") = Units(slot, "return.move")
        /\ InTurn' => \A r \in Slots \ {s} : At(r, "idle")
    BY <1>1, <1>6, PurchaseRead
  <2>2. PurchaseRows' /\ (PurchaseExact => PurchaseExact')
    BY <1>1, <2>1 DEF PurchaseRows, PurchaseExact, purchaseVars
  <2> QED
    BY <1>1, <1>5, <2>1, <2>2 DEF PurchasingInv
<1>7. ASSUME NEW s \in Slots, PurchasingStep(s) PROVE PurchasingInv'
  <2>1. PurchaseKept(s)
    BY <1>1, <1>7, OrderStepped, ReceiptStepped, ReturnStepped, PaymentStepped DEF PurchasingStep
  <2>2. slot[s].step \in PurchasingSteps
    BY <1>7 DEF PurchasingStep, WritePurchase, WritePurchaseStatus, DeletePurchase, InsertReceipt,
                MoveReceived, InsertReturn, MoveReturned, RefuseReturn, InsertVendorPayment,
                DeleteVendorPayment, ReadVendorPaid, ReadReturned, SettlePurchase, FailPurchasing,
                PurchasingSteps, At
  <2>3. InTurn' => \A r \in Slots \ {s} : At(r, "idle")
    BY <1>1, <2>2 DEF HandlersInv, OneBusy, PurchasingSteps, At
  <2> QED
    BY <1>1, <1>5, <2>1, <2>3 DEF PurchasingInv, PurchaseKept
<1>8. ASSUME NEW w, NEW n \in Quantities, CreatePurchase(n) \/ SellReceived(w, n)
      PROVE  PurchasingInv'
  <2>1. /\ slot' = slot /\ (InTurn' => Quiet)
        /\ PurchaseRows' /\ (PurchaseExact => PurchaseExact')
    BY <1>1, <1>8, PurchaseCalled
  <2>2. Quiet => \A s \in Slots : PurchaseCarried(s)'
    BY <1>3, <2>1 DEF Quiet, At, PurchasingSteps
  <2> QED
    BY <1>1, <1>2, <2>1, <2>2 DEF PurchasingInv
<1> QED
  BY <1>4, <1>6, <1>7, <1>8, NotPurchasing DEF PurchasingNext, Free

\* Nothing has been ordered yet.
LEMMA PurchasingInitially == ServiceInit => PurchasingInv
<1> SUFFICES ASSUME ServiceInit PROVE PurchasingInv
  OBVIOUS
<1>1. /\ po = [status |-> "none", line |-> 0, ordered |-> 0, received |-> 0,
               total |-> 0, paid |-> 0, due |-> 0]
      /\ received = 0 /\ returned = 0 /\ arrived = 0 /\ left = 0 /\ refused = 0
      /\ slot = [s \in Slots |-> Idle] /\ Idle.step = "idle"
  BY DEF ServiceInit, PurchasingInit, RequestsInit, Idle
<1>2. \A step \in {"receipt.move", "return.move"} : Units(slot, step) = {}
  BY <1>1 DEF Units
<1>3. \A step \in {"receipt.move", "return.move"} :
        IsFiniteSet(Units(slot, step)) /\ Cardinality(Units(slot, step)) = 0
  BY <1>2, FS_EmptySet
<1>4. /\ {"status", "ordered", "received"} \subseteq DOMAIN po /\ po.status = "none"
      /\ po.ordered = 0 /\ po.received = 0
  BY <1>1
<1>5. PurchaseRows /\ PurchaseExact
  BY <1>1, <1>3, <1>4 DEF PurchaseRows, PurchaseExact
<1>6. \A s \in Slots : PurchaseLocals(s) /\ PurchaseCarried(s)
  BY <1>1 DEF PurchaseLocals, PurchaseCarried, PapersOnTheWay, At
<1> QED
  BY <1>5, <1>6 DEF PurchasingInv

\* Whatever overlaps or is dropped, goods only move on a document and the line's
\* counter forgets none of them; and as long as requests come one after the
\* other, all that the documents name has moved once a request is over, but for
\* returns that named a line more than once and that the shelf then refused.
THEOREM GoodsMoveOnPaper == ServiceSpec => []GoodsFollowPapers
<1>1. PurchasingInv => GoodsFollowPapers
  <2> SUFFICES ASSUME PurchasingInv PROVE GoodsFollowPapers
    OBVIOUS
  <2>1. PurchaseRows /\ (InTurn => PurchaseExact /\ \A s \in Slots : PurchaseCarried(s))
    BY DEF PurchasingInv
  <2>2. ASSUME NEW step \in {"receipt.move", "return.move"}
        PROVE  /\ Cardinality(Units(slot, step)) \in Nat
               /\ Quiet => Cardinality(Units(slot, step)) = 0
    <3>1. Cardinality(Units(slot, step)) \in Nat
      BY <2>1, FS_CardinalityType DEF PurchaseRows
    <3>2. Quiet => Units(slot, step) = {}
      BY DEF Quiet, Units, At
    <3> QED
      BY <3>1, <3>2, FS_EmptySet
  <2>3. InTurn => \A s \in Slots :
          At(s, "return.move") => Available(slot[s].at) >= slot[s].quantity \/ slot[s].repeats
    BY <2>1 DEF PurchaseCarried, At
  <2>4. /\ arrived <= received /\ left + refused <= returned /\ po.received >= received - returned
        /\ Quiet /\ InTurn => arrived = received /\ left + refused = returned
        /\ InTurn => po.received = received - returned /\ po.received <= po.ordered
    BY <2>1, <2>2 DEF PurchaseRows, PurchaseExact
  <2> QED
    BY <2>3, <2>4 DEF GoodsFollowPapers
<1> QED
  BY <1>1, PurchasingInitially, HandlersAlways, PurchasingInvNext, PTL DEF ServiceSpec

-----------------------------------------------------------------------------
(* Purchasing: an order agrees with its papers and payments *)

SettlingSteps == {"return.move", "po.readPaid", "po.readReturned", "po.settle"}

TotalSteps ==
  SettlingSteps \cup {"return.insert", "po.insertPayment", "po.deletePayment"}

\* Whatever overlaps: the rows keep their shape, and what is paid is paid for an
\* order that is there.
VendorRows ==
  /\ PurchasingTypeOK
  /\ (\E p \in VendorPayments : vendorPayment[p] > 0) => Ordered(po.status)

VendorLocals(s) ==
  /\ At(s, "po.write") => /\ slot[s].quantity \in Nat /\ slot[s].received \in Nat
                          /\ slot[s].total \in Nat /\ slot[s].paid \in Nat
  /\ slot[s].step \in {"po.writeStatus", "receipt.insert", "return.insert"} =>
       slot[s].status \in PurchaseStatuses
  /\ PapersOnTheWay(s) => slot[s].quantity \in Nat
  /\ slot[s].step \in TotalSteps => slot[s].total \in Nat
  /\ At(s, "po.insertPayment") => slot[s].amount \in Nat
  /\ slot[s].step \in {"po.readReturned", "po.settle"} => slot[s].paid \in Nat
  /\ At(s, "po.settle") => slot[s].returned \in Nat

\* In turn: the status says how much has arrived, the total is that of the lines.
StatusFits ==
  /\ po.status = "fully_received" => po.received >= po.ordered
  /\ po.status = "partially_received" => po.received < po.ordered /\ received > 0
  /\ po.status = "closed" => received > 0
  /\ po.status \notin {"fully_received", "partially_received", "closed"} => received = 0

OrderFits ==
  /\ StatusFits
  /\ po.total = po.ordered
  /\ Ordered(po.status) => po.ordered > 0

\* What is paid and owed is what the payments and returns on file make it, but
\* for n that is owed too much.
SettledBut(n) ==
  /\ po.paid = TotalVendorPaid
  /\ po.due - (po.total - returned - TotalVendorPaid) \in 0..n

OrderSettled == SettledBut(refused)

\* What a handler read in turn is still so.
VendorCarried(s) ==
  /\ At(s, "po.write") =>
       /\ Editable(po.status) /\ slot[s].paid = po.paid
       /\ slot[s].total = IF slot[s].quantity = 0 THEN po.total ELSE slot[s].quantity
  /\ At(s, "po.writeStatus") => <<po.status, slot[s].status>> \in PurchaseTransitions
  /\ At(s, "receipt.insert") =>
       slot[s].quantity > 0 /\ slot[s].status = StatusAfterReceipt(po.received + slot[s].quantity)
  /\ At(s, "return.insert") =>
       slot[s].quantity > 0 /\ slot[s].status = StatusAfterReceipt(po.received - slot[s].quantity)
  /\ At(s, "return.move") => SettledBut(refused + slot[s].quantity)
  /\ slot[s].step \in TotalSteps => slot[s].total = po.total
  /\ slot[s].step \in SettlingSteps \cup {"po.deletePayment"} => Ordered(po.status)
  /\ slot[s].step \in {"po.readReturned", "po.settle"} => slot[s].paid = TotalVendorPaid
  /\ At(s, "po.settle") => slot[s].returned = returned

Settling == \E s \in Slots : slot[s].step \in SettlingSteps

VendorInv ==
  /\ VendorRows
  /\ \A s \in Slots : VendorLocals(s)
  /\ InTurn => /\ OrderFits /\ \A s \in Slots : VendorCarried(s)
               /\ Settling \/ OrderSettled

\* What purchase payments add up to.
LEMMA VendorSum ==
  ASSUME VendorRows
  PROVE  /\ TotalVendorPaid \in Nat
         /\ (\A p \in VendorPayments : vendorPayment[p] = 0) <=> TotalVendorPaid = 0
<1>1. TotalVendorPaid = SumOf(vendorPayment, VendorPayments)
  BY DEF TotalVendorPaid, SumOf
<1>2. /\ SumOf(vendorPayment, VendorPayments) \in Nat
      /\ \A p \in VendorPayments : vendorPayment[p] <= SumOf(vendorPayment, VendorPayments)
      /\ (\A p \in VendorPayments : vendorPayment[p] = 0) => SumOf(vendorPayment, VendorPayments) = 0
  BY SumNatural, VendorPaymentsAssumption DEF VendorRows, PurchasingTypeOK
<1>3. \A p \in VendorPayments : vendorPayment[p] \in Nat
  BY DEF VendorRows, PurchasingTypeOK
<1> HIDE DEF VendorRows
<1> QED
  BY <1>1, <1>2, <1>3

\* Payments that stay as they are add up to the same.
LEMMA VendorSumStays ==
  ASSUME UNCHANGED vendorPayment
  PROVE  TotalVendorPaid' = TotalVendorPaid
<1>1. /\ TotalVendorPaid = SumOf(vendorPayment, VendorPayments)
      /\ TotalVendorPaid' = SumOf(vendorPayment', VendorPayments)
  BY DEF TotalVendorPaid, SumOf, MapThenSumSet, MapThenFoldSet
<1> QED
  BY <1>1

\* What a request reads fits.
LEMMA VendorRead ==
  ASSUME HandlersInv, VendorRows, NEW s \in Slots, At(s, "idle"), PurchasingRequest(s)
  PROVE  VendorLocals(s)' /\ VendorCarried(s)' /\ slot'[s].step \notin SettlingSteps
<1> DEFINE Goal == VendorLocals(s)' /\ VendorCarried(s)' /\ slot'[s].step \notin SettlingSteps
<1>1. ASSUME NEW n \in 0..MaxQuantity, ReadPurchaseToUpdate(s, n) PROVE Goal
  <2>1. PICK locals :
          /\ locals.step = "po.write" /\ locals.quantity = n /\ locals.received = po.received
          /\ locals.total = (IF n = 0 THEN po.total ELSE n) /\ locals.paid = po.paid
          /\ Begin(s, "po.update", locals) /\ UNCHANGED po /\ Editable(po.status)
    BY <1>1 DEF ReadPurchaseToUpdate, purchaseVars
  <2>2. slot'[s] = locals
    BY <2>1, PurchaseTaken
  <2>3. n \in Nat /\ po.received \in Nat /\ po.total \in Nat /\ po.paid \in Nat
    BY MaxQuantityAssumption DEF VendorRows, PurchasingTypeOK
  <2>4. VendorLocals(s)'
    BY <2>1, <2>2, <2>3 DEF VendorLocals, PapersOnTheWay, At, TotalSteps, SettlingSteps
  <2> QED
    BY <2>1, <2>2, <2>4 DEF VendorCarried, At, TotalSteps, SettlingSteps
<1>2. ASSUME NEW status \in PurchaseStatuses, ReadPurchaseToSetStatus(s, status) PROVE Goal
  <2>1. PICK locals :
          /\ locals.step = "po.writeStatus" /\ locals.status = status
          /\ Begin(s, "po.status", locals) /\ UNCHANGED po
          /\ <<po.status, status>> \in PurchaseTransitions
    BY <1>2 DEF ReadPurchaseToSetStatus, purchaseVars
  <2>2. slot'[s] = locals
    BY <2>1, PurchaseTaken
  <2> QED
    BY <2>1, <2>2 DEF VendorLocals, VendorCarried, PapersOnTheWay, At, TotalSteps, SettlingSteps
<1>3. ASSUME ReadPurchaseToDelete(s) PROVE Goal
  <2>1. PICK locals : locals.step = "po.delete" /\ Begin(s, "po.delete", locals)
    BY <1>3 DEF ReadPurchaseToDelete
  <2>2. slot'[s] = locals
    BY <2>1, PurchaseTaken
  <2> QED
    BY <2>1, <2>2 DEF VendorLocals, VendorCarried, PapersOnTheWay, At, TotalSteps, SettlingSteps
<1>4. ASSUME NEW w \in Depots, NEW n \in Quantities, ReadToReceive(s, w, n) PROVE Goal
  <2>1. PICK locals :
          /\ locals.step = "receipt.insert" /\ locals.quantity = n
          /\ locals.status = StatusAfterReceipt(po.received + n)
          /\ Begin(s, "po.receive", locals) /\ UNCHANGED po
    BY <1>4 DEF ReadToReceive, purchaseVars
  <2>2. slot'[s] = locals
    BY <2>1, PurchaseTaken
  <2>3. n \in Nat /\ n > 0 /\ StatusAfterReceipt(po.received + n) \in PurchaseStatuses
    BY MaxQuantityAssumption DEF Quantities, StatusAfterReceipt, PurchaseStatuses
  <2>4. StatusAfterReceipt(po.received + n)' = StatusAfterReceipt(po.received + n)
    BY <2>1 DEF StatusAfterReceipt
  <2>5. VendorLocals(s)'
    BY <2>1, <2>2, <2>3 DEF VendorLocals, PapersOnTheWay, At, TotalSteps, SettlingSteps
  <2> QED
    BY <2>1, <2>2, <2>3, <2>4, <2>5 DEF VendorCarried, At, TotalSteps, SettlingSteps, StatusAfterReceipt
<1>5. ASSUME NEW w \in Depots, NEW n \in Quantities, NEW most, ReadToReturn(s, w, n, most) PROVE Goal
  <2>1. PICK locals :
          /\ locals.step = "return.insert" /\ locals.quantity = n /\ locals.total = po.total
          /\ locals.status = StatusAfterReceipt(po.received - n)
          /\ Begin(s, "po.return", locals) /\ UNCHANGED po
    BY <1>5 DEF ReadToReturn, purchaseVars
  <2>2. slot'[s] = locals
    BY <2>1, PurchaseTaken
  <2>3. /\ n \in Nat /\ n > 0 /\ StatusAfterReceipt(po.received - n) \in PurchaseStatuses
        /\ po.total \in Nat
    BY MaxQuantityAssumption DEF Quantities, StatusAfterReceipt, PurchaseStatuses, VendorRows, PurchasingTypeOK
  <2>5. VendorLocals(s)'
    BY <2>1, <2>2, <2>3 DEF VendorLocals, PapersOnTheWay, At, TotalSteps, SettlingSteps
  <2> QED
    BY <2>1, <2>2, <2>3, <2>5 DEF VendorCarried, At, TotalSteps, SettlingSteps, StatusAfterReceipt
<1>6. ASSUME NEW a \in Quantities, ReadToPayVendor(s, a) PROVE Goal
  <2>1. PICK locals :
          /\ locals.step = "po.insertPayment" /\ locals.amount = a /\ locals.total = po.total
          /\ Begin(s, "po.pay", locals) /\ UNCHANGED po
    BY <1>6 DEF ReadToPayVendor, purchaseVars
  <2>2. slot'[s] = locals
    BY <2>1, PurchaseTaken
  <2>3. a \in Nat /\ po.total \in Nat
    BY MaxQuantityAssumption DEF Quantities, VendorRows, PurchasingTypeOK
  <2> QED
    BY <2>1, <2>2, <2>3 DEF VendorLocals, VendorCarried, PapersOnTheWay, At, TotalSteps, SettlingSteps
<1>7. ASSUME NEW p \in VendorPayments, ReadToUnpayVendor(s, p) PROVE Goal
  <2>1. PICK locals :
          /\ locals.step = "po.deletePayment" /\ locals.total = po.total
          /\ Begin(s, "po.unpay", locals) /\ UNCHANGED po
    BY <1>7 DEF ReadToUnpayVendor, purchaseVars
  <2>2. slot'[s] = locals
    BY <2>1, PurchaseTaken
  <2>3. po.total \in Nat /\ Ordered(po.status)
    BY <1>7 DEF ReadToUnpayVendor, VendorRows, PurchasingTypeOK
  <2>4. Ordered(po'.status)
    BY <2>1, <2>3
  <2> QED
    BY <2>1, <2>2, <2>3, <2>4 DEF VendorLocals, VendorCarried, PapersOnTheWay, At, TotalSteps, SettlingSteps
<1> HIDE DEF Goal
<1>8. Goal
  BY <1>1, <1>2, <1>3, <1>4, <1>5, <1>6, <1>7 DEF PurchasingRequest
<1> QED
  BY <1>8 DEF Goal

\* What holds before a step that is taken in turn.
VendorBefore(s) ==
  /\ PurchaseExact /\ PurchaseCarried(s)
  /\ OrderFits /\ VendorCarried(s)
  /\ slot[s].step \in SettlingSteps \/ OrderSettled

\* What every step of a handler leaves behind it.
VendorKept(s) ==
  /\ VendorRows' /\ VendorLocals(s)'
  /\ VendorBefore(s) =>
       /\ OrderFits' /\ VendorCarried(s)'
       /\ slot'[s].step \in SettlingSteps \/ OrderSettled'

\* A handler that has ended carries nothing.
LEMMA VendorIdle ==
  ASSUME HandlersInv, NEW s \in Slots, Finish(s)
  PROVE  VendorLocals(s)' /\ VendorCarried(s)' /\ slot'[s].step \notin SettlingSteps
<1>1. slot'[s] = Idle /\ Idle.step = "idle"
  BY DEF Finish, Continue, HandlersInv, Idle
<1> QED
  BY <1>1 DEF VendorLocals, VendorCarried, PapersOnTheWay, At, TotalSteps, SettlingSteps

PurchaseRecords ==
  [status : PurchaseStatuses \cup {"none", "gone"}, line : Nat, ordered : Nat,
   received : Nat, total : Nat, paid : Nat, due : Int]

\* What an edit writes, field by field.
LEMMA EditWritten ==
  ASSUME VendorRows, NEW s \in Slots, VendorLocals(s), WritePurchase(s)
  PROVE  /\ po' \in PurchaseRecords /\ po'.status = po.status /\ po'.paid = po.paid
         /\ po'.total = slot[s].total /\ po'.due = slot[s].total - slot[s].paid
         /\ \/ /\ slot[s].quantity = 0
               /\ po'.ordered = po.ordered /\ po'.received = po.received
            \/ /\ slot[s].quantity > 0 /\ received = 0
               /\ po'.ordered = slot[s].quantity /\ po'.received = slot[s].received
<1> DEFINE l == slot[s]
<1>1. /\ po \in PurchaseRecords /\ CanWritePurchase(l.quantity)
      /\ l.quantity \in Nat /\ l.received \in Nat /\ l.total \in Nat /\ l.paid \in Nat
  BY DEF VendorRows, PurchasingTypeOK, PurchaseRecords, VendorLocals, WritePurchase
<1>2. PICK half : half = [po EXCEPT !.total = l.total]
  OBVIOUS
<1>3. PICK written : written = [half EXCEPT !.due = l.total - l.paid]
  OBVIOUS
<1>4. written = [po EXCEPT !.total = l.total, !.due = l.total - l.paid]
  BY <1>2, <1>3, Zenon
<1>5. /\ half \in PurchaseRecords
      /\ half.status = po.status /\ half.ordered = po.ordered
      /\ half.received = po.received /\ half.paid = po.paid /\ half.total = l.total
  BY <1>1, <1>2 DEF PurchaseRecords
<1>6. /\ written \in PurchaseRecords
      /\ written.status = po.status /\ written.ordered = po.ordered
      /\ written.received = po.received /\ written.paid = po.paid
      /\ written.total = l.total /\ written.due = l.total - l.paid
  <2>1. l.total - l.paid \in Int
    BY <1>1
  <2>2. ASSUME NEW d \in Int, written = [half EXCEPT !.due = d]
        PROVE  /\ written \in PurchaseRecords
               /\ written.status = half.status /\ written.ordered = half.ordered
               /\ written.received = half.received /\ written.paid = half.paid
               /\ written.total = half.total /\ written.due = d
    BY <1>5, <2>2 DEF PurchaseRecords
  <2> QED
    BY <1>3, <1>5, <2>1, <2>2
<1>7. CASE l.quantity = 0 /\ po' = written
  BY <1>6, <1>7
<1>8. CASE /\ l.quantity > 0
           /\ po' = [written EXCEPT !.line = @ + 1, !.ordered = l.quantity, !.received = l.received]
  <2>1. PICK a : a = [written EXCEPT !.line = @ + 1]
    OBVIOUS
  <2>2. PICK b : b = [a EXCEPT !.ordered = l.quantity]
    OBVIOUS
  <2>3. PICK c : c = [b EXCEPT !.received = l.received]
    OBVIOUS
  <2>4. po' = c
    BY <1>8, <2>1, <2>2, <2>3, Zenon
  <2>5. /\ a \in PurchaseRecords
        /\ a.status = po.status /\ a.paid = po.paid /\ a.total = l.total /\ a.due = l.total - l.paid
    BY <1>6, <2>1 DEF PurchaseRecords
  <2>6. /\ b \in PurchaseRecords
        /\ b.status = po.status /\ b.paid = po.paid /\ b.total = l.total /\ b.due = l.total - l.paid
        /\ b.ordered = l.quantity
    BY <1>1, <2>2, <2>5 DEF PurchaseRecords
  <2>7. /\ c \in PurchaseRecords
        /\ c.status = po.status /\ c.paid = po.paid /\ c.total = l.total /\ c.due = l.total - l.paid
        /\ c.ordered = l.quantity /\ c.received = l.received
    BY <1>1, <2>3, <2>6 DEF PurchaseRecords
  <2>8. received = 0
    BY <1>1, <1>8 DEF CanWritePurchase
  <2> QED
    BY <1>8, <2>4, <2>7, <2>8
<1>9. \/ l.quantity = 0 /\ po' = written
      \/ /\ l.quantity > 0
         /\ po' = [written EXCEPT !.line = @ + 1, !.ordered = l.quantity, !.received = l.received]
  BY <1>4, Zenon DEF WritePurchase
<1> QED
  BY <1>7, <1>8, <1>9

\* Edits, changes of status and deletion keep the status, the total and what is
\* owed in step with the lines.
LEMMA EditStepped ==
  ASSUME HandlersInv, PurchaseRows, VendorRows, NEW s \in Slots, VendorLocals(s),
         WritePurchase(s) \/ WritePurchaseStatus(s) \/ DeletePurchase(s)
  PROVE  VendorKept(s)
<1>1. /\ Finish(s) /\ UNCHANGED <<received, returned, vendorPayment, vendorUsed, arrived, left, refused>>
      /\ slot[s].step \notin SettlingSteps
  BY DEF WritePurchase, WritePurchaseStatus, DeletePurchase, papers, goods, At, SettlingSteps
<1>2. /\ VendorLocals(s)' /\ VendorCarried(s)'
      /\ TotalVendorPaid' = TotalVendorPaid /\ TotalVendorPaid \in Nat
  BY <1>1, VendorIdle, VendorSumStays, VendorSum
<1>3. po \in PurchaseRecords
  BY DEF VendorRows, PurchasingTypeOK, PurchaseRecords
<1>4. ASSUME po' \in PurchaseRecords, Ordered(po'.status) \/ TotalVendorPaid = 0
      PROVE  VendorRows'
  <2>1. PurchasingTypeOK'
    BY <1>1, <1>4 DEF VendorRows, PurchasingTypeOK, PurchaseRecords
  <2>2. (\E p \in VendorPayments : vendorPayment'[p] > 0) => Ordered(po'.status)
    <3>1. TotalVendorPaid = 0 => \A p \in VendorPayments : vendorPayment[p] = 0
      BY VendorSum
    <3> QED
      BY <1>1, <1>4, <3>1
  <2> QED
    BY <2>1, <2>2 DEF VendorRows
<1>5. CASE WritePurchase(s)
  <2>1. /\ po' \in PurchaseRecords /\ po'.status = po.status /\ po'.paid = po.paid
        /\ po'.total = slot[s].total /\ po'.due = slot[s].total - slot[s].paid
        /\ \/ /\ slot[s].quantity = 0
              /\ po'.ordered = po.ordered /\ po'.received = po.received
           \/ /\ slot[s].quantity > 0 /\ received = 0
              /\ po'.ordered = slot[s].quantity /\ po'.received = slot[s].received
    BY <1>5, EditWritten
  <2>2. At(s, "po.write") /\ Ordered(po.status)
    BY <1>5 DEF WritePurchase, CanWritePurchase
  <2>3. VendorRows'
    BY <1>4, <2>1, <2>2
  <2>4. ASSUME VendorBefore(s) PROVE OrderFits' /\ OrderSettled'
    <3>1. /\ Editable(po.status) /\ slot[s].paid = po.paid
          /\ slot[s].total = IF slot[s].quantity = 0 THEN po.total ELSE slot[s].quantity
          /\ slot[s].quantity \in Nat
      BY <2>2, <2>4 DEF VendorBefore, VendorCarried, VendorLocals
    <3>2. received = 0 /\ po.status \in {"draft", "sent"} /\ po.total = po.ordered /\ po.ordered > 0
      BY <2>2, <2>4, <3>1 DEF VendorBefore, OrderFits, StatusFits, Editable
    <3>3. po.received = 0 - returned /\ po.received \in Nat /\ returned \in Nat
      BY <2>4, <3>2 DEF VendorBefore, PurchaseExact, PurchaseRows
    <3>4. returned = 0
      BY <3>3
    <3>5. po.paid = TotalVendorPaid /\ refused \in Nat
      BY <1>1, <2>4 DEF VendorBefore, OrderSettled, SettledBut, VendorRows, PurchasingTypeOK
    <3>6. po'.total = po'.ordered /\ po'.ordered > 0
      BY <2>1, <3>1, <3>2
    <3>7. OrderFits'
      BY <1>1, <2>1, <3>2, <3>6 DEF OrderFits, StatusFits
    <3>8. po'.due = po'.total - returned' - TotalVendorPaid
      BY <1>1, <1>2, <2>1, <3>1, <3>4, <3>5, <3>6 DEF PurchaseRecords
    <3>9. po'.due - (po'.total - returned' - TotalVendorPaid) \in 0..refused
      <4>1. po'.total \in Nat /\ returned' = 0 /\ TotalVendorPaid \in Nat
        BY <1>1, <1>2, <2>1, <3>4 DEF PurchaseRecords
      <4> QED
        BY <3>5, <3>8, <4>1
    <3> QED
      BY <1>1, <1>2, <2>1, <3>5, <3>7, <3>9 DEF OrderSettled, SettledBut
  <2> QED
    BY <1>2, <2>3, <2>4 DEF VendorKept
<1>6. CASE WritePurchaseStatus(s)
  <2>1. /\ po' = [po EXCEPT !.status = slot[s].status] /\ At(s, "po.writeStatus")
        /\ Ordered(po.status) /\ slot[s].status \in PurchaseStatuses
    BY <1>6 DEF WritePurchaseStatus, VendorLocals, At
  <2>2. /\ po' \in PurchaseRecords /\ po'.status = slot[s].status /\ po'.ordered = po.ordered
        /\ po'.received = po.received /\ po'.total = po.total /\ po'.paid = po.paid
        /\ po'.due = po.due
    BY <1>3, <2>1 DEF PurchaseRecords
  <2>3. VendorRows'
    BY <1>4, <2>1, <2>2 DEF Ordered
  <2>4. ASSUME VendorBefore(s) PROVE OrderFits' /\ OrderSettled'
    <3>1. <<po.status, slot[s].status>> \in PurchaseTransitions
      BY <2>1, <2>4 DEF VendorBefore, VendorCarried
    <3>2. /\ OrderFits /\ PurchaseExact /\ OrderSettled /\ po.ordered > 0
      BY <1>1, <2>1, <2>4 DEF VendorBefore, OrderFits
    <3>3. po.received = received - returned /\ received \in Nat /\ returned \in Nat
          /\ po.received \in Nat /\ po.ordered \in Nat
      BY <3>2 DEF PurchaseExact, PurchaseRows
    <3>4. CASE po.status = "fully_received" /\ slot[s].status = "closed"
      <4>1. received > 0
        BY <3>2, <3>3, <3>4 DEF OrderFits, StatusFits
      <4> QED
        BY <1>1, <1>2, <2>2, <3>2, <3>4, <4>1 DEF OrderFits, StatusFits, OrderSettled, SettledBut
    <3>5. CASE po.status = "partially_received" /\ slot[s].status = "closed"
      BY <1>1, <1>2, <2>2, <3>2, <3>5 DEF OrderFits, StatusFits, OrderSettled, SettledBut
    <3>6. CASE /\ po.status \in {"draft", "sent", "confirmed"}
               /\ slot[s].status \in {"sent", "confirmed", "cancelled"}
      BY <1>1, <1>2, <2>2, <3>2, <3>6 DEF OrderFits, StatusFits, OrderSettled, SettledBut
    <3> QED
      BY <3>1, <3>4, <3>5, <3>6 DEF PurchaseTransitions
  <2> QED
    BY <1>2, <2>3, <2>4 DEF VendorKept
<1>7. CASE DeletePurchase(s)
  <2>1. /\ po' = [po EXCEPT !.status = "gone"] /\ received = 0 /\ TotalVendorPaid = 0
    BY <1>7 DEF DeletePurchase, CanDeletePurchase
  <2>2. /\ po' \in PurchaseRecords /\ po'.status = "gone" /\ po'.ordered = po.ordered
        /\ po'.received = po.received /\ po'.total = po.total /\ po'.paid = po.paid
        /\ po'.due = po.due
    BY <1>3, <2>1 DEF PurchaseRecords
  <2>3. VendorRows'
    BY <1>4, <2>1, <2>2
  <2>4. ASSUME VendorBefore(s) PROVE OrderFits' /\ OrderSettled'
    BY <1>1, <1>2, <2>1, <2>2, <2>4
       DEF VendorBefore, OrderFits, StatusFits, OrderSettled, SettledBut, Ordered, PurchaseStatuses
  <2> QED
    BY <1>2, <2>3, <2>4 DEF VendorKept
<1> QED
  BY <1>5, <1>6, <1>7

\* A receipt or a return writes the line's counter and the status.
LEMMA CounterWritten ==
  ASSUME VendorRows, NEW count \in Nat, NEW status \in PurchaseStatuses,
         po' = [po EXCEPT !.received = count, !.status = status]
  PROVE  /\ po' \in PurchaseRecords /\ po'.status = status /\ po'.received = count
         /\ po'.ordered = po.ordered /\ po'.total = po.total /\ po'.paid = po.paid
         /\ po'.due = po.due
<1>1. po \in PurchaseRecords
  BY DEF VendorRows, PurchasingTypeOK, PurchaseRecords
<1>2. PICK half : half = [po EXCEPT !.received = count]
  OBVIOUS
<1>3. po' = [half EXCEPT !.status = status]
  BY <1>2, Zenon
<1>4. /\ half \in PurchaseRecords /\ half.received = count
      /\ half.ordered = po.ordered /\ half.total = po.total /\ half.paid = po.paid
      /\ half.due = po.due
  BY <1>1, <1>2 DEF PurchaseRecords
<1> QED
  BY <1>3, <1>4 DEF PurchaseRecords

\* Goods that arrive take the order to the status that says so.
LEMMA ReceivingFits ==
  ASSUME HandlersInv, PurchaseRows, VendorRows, NEW s \in Slots, VendorLocals(s),
         InsertReceipt(s) \/ MoveReceived(s)
  PROVE  VendorKept(s)
<1> DEFINE n == slot[s].quantity
<1>1. CASE InsertReceipt(s)
  <2>1. /\ At(s, "receipt.insert") /\ Ordered(po.status)
        /\ po' = [po EXCEPT !.received = @ + n, !.status = slot[s].status]
        /\ received' = received + n
        /\ Continue(s, [step |-> "receipt.move", quantity |-> n, at |-> slot[s].at])
        /\ UNCHANGED <<returned, vendorPayment, vendorUsed, arrived, left, refused>>
    BY <1>1 DEF InsertReceipt, LineStands, goods
  <2>2. n \in Nat /\ slot[s].status \in PurchaseStatuses
    BY <2>1 DEF VendorLocals, PapersOnTheWay, At
  <2>3. slot'[s] = [step |-> "receipt.move", quantity |-> n, at |-> slot[s].at]
    BY <2>1 DEF Continue, HandlersInv
  <2>4. /\ VendorLocals(s)' /\ VendorCarried(s)'
        /\ slot[s].step \notin SettlingSteps /\ slot'[s].step \notin SettlingSteps
    BY <2>1, <2>2, <2>3 DEF VendorLocals, VendorCarried, PapersOnTheWay, At, TotalSteps, SettlingSteps
  <2>5. po.received \in Nat /\ po.received + n \in Nat
    BY <2>2 DEF PurchaseRows
  <2>6. po' = [po EXCEPT !.received = po.received + n, !.status = slot[s].status]
    BY <2>1, Zenon
  <2>7. /\ po' \in PurchaseRecords /\ po'.status = slot[s].status /\ po'.received = po.received + n
        /\ po'.ordered = po.ordered /\ po'.total = po.total /\ po'.paid = po.paid
        /\ po'.due = po.due
    BY <2>2, <2>5, <2>6, CounterWritten
  <2>8. VendorRows'
    BY <2>1, <2>2, <2>7 DEF VendorRows, PurchasingTypeOK, PurchaseRecords, Ordered
  <2>9. ASSUME VendorBefore(s) PROVE OrderFits' /\ OrderSettled'
    <3>1. /\ n > 0 /\ slot[s].status = StatusAfterReceipt(po.received + n)
          /\ n <= po.ordered - po.received /\ PurchaseExact /\ OrderFits /\ OrderSettled
      BY <2>1, <2>4, <2>9 DEF VendorBefore, VendorCarried, PurchaseCarried
    <3>2. po.ordered \in Nat /\ received \in Nat
      BY DEF PurchaseRows
    <3>3. received' > 0 /\ po'.received = po.received + n
      BY <2>1, <2>2, <2>7, <3>1, <3>2
    <3>4. \/ po'.status = "fully_received" /\ po'.received >= po'.ordered
          \/ po'.status = "partially_received" /\ po'.received < po'.ordered
      BY <2>2, <2>5, <2>7, <3>1, <3>2 DEF StatusAfterReceipt
    <3>5. OrderFits'
      BY <2>1, <2>7, <3>1, <3>3, <3>4 DEF OrderFits, StatusFits
    <3>6. OrderSettled'
      BY <2>1, <2>7, <3>1, VendorSumStays DEF OrderSettled, SettledBut
    <3> QED
      BY <3>5, <3>6
  <2> QED
    BY <2>4, <2>8, <2>9 DEF VendorKept
<1>2. CASE MoveReceived(s)
  <2>1. /\ At(s, "receipt.move") /\ arrived' = arrived + n /\ Finish(s)
        /\ UNCHANGED <<po, received, returned, vendorPayment, vendorUsed, left, refused>>
    BY <1>2 DEF MoveReceived, papers
  <2>2. /\ VendorLocals(s)' /\ VendorCarried(s)' /\ n \in Nat
        /\ slot[s].step \notin SettlingSteps /\ slot'[s].step \notin SettlingSteps
    BY <2>1, VendorIdle DEF VendorLocals, PapersOnTheWay, At, SettlingSteps
  <2>3. VendorRows'
    BY <2>1, <2>2 DEF VendorRows, PurchasingTypeOK
  <2>4. OrderFits /\ OrderSettled => OrderFits' /\ OrderSettled'
    BY <2>1, VendorSumStays DEF OrderFits, StatusFits, OrderSettled, SettledBut
  <2> QED
    BY <2>2, <2>3, <2>4 DEF VendorKept, VendorBefore
<1> QED
  BY <1>1, <1>2

\* Goods that go back take it back, and leave what is owed to be settled.
LEMMA ReturningFits ==
  ASSUME HandlersInv, PurchaseRows, VendorRows, NEW s \in Slots, VendorLocals(s),
         InsertReturn(s) \/ MoveReturned(s) \/ RefuseReturn(s)
  PROVE  VendorKept(s)
<1> DEFINE n == slot[s].quantity
<1>1. CASE InsertReturn(s)
  <2>1. /\ At(s, "return.insert") /\ Ordered(po.status)
        /\ po' = [po EXCEPT !.received = AtLeastZero(@ - n), !.status = slot[s].status]
        /\ returned' = returned + n
        /\ Continue(s, [step |-> "return.move", quantity |-> n, at |-> slot[s].at,
                        repeats |-> slot[s].repeats, total |-> slot[s].total])
        /\ UNCHANGED <<received, vendorPayment, vendorUsed, arrived, left, refused>>
    BY <1>1 DEF InsertReturn, LineStands, goods
  <2>2. n \in Nat /\ slot[s].status \in PurchaseStatuses /\ slot[s].total \in Nat
    BY <2>1 DEF VendorLocals, PapersOnTheWay, At, TotalSteps
  <2>3. slot'[s] = [step |-> "return.move", quantity |-> n, at |-> slot[s].at,
                    repeats |-> slot[s].repeats, total |-> slot[s].total]
    BY <2>1 DEF Continue, HandlersInv
  <2>4. VendorLocals(s)' /\ slot'[s].step \in SettlingSteps
    BY <2>1, <2>2, <2>3 DEF VendorLocals, PapersOnTheWay, At, TotalSteps, SettlingSteps
  <2>5. po.received \in Nat /\ AtLeastZero(po.received - n) \in Nat
    BY <2>2 DEF PurchaseRows, AtLeastZero
  <2>6. po' = [po EXCEPT !.received = AtLeastZero(po.received - n), !.status = slot[s].status]
    BY <2>1, Zenon
  <2>7. /\ po' \in PurchaseRecords /\ po'.status = slot[s].status
        /\ po'.received = AtLeastZero(po.received - n)
        /\ po'.ordered = po.ordered /\ po'.total = po.total /\ po'.paid = po.paid
        /\ po'.due = po.due
    BY <2>2, <2>5, <2>6, CounterWritten
  <2>8. VendorRows'
    BY <2>1, <2>2, <2>7 DEF VendorRows, PurchasingTypeOK, PurchaseRecords, Ordered
  <2>9. ASSUME VendorBefore(s) PROVE OrderFits' /\ VendorCarried(s)'
    <3>1. /\ n > 0 /\ slot[s].status = StatusAfterReceipt(po.received - n)
          /\ n <= po.received /\ PurchaseExact /\ OrderFits /\ slot[s].total = po.total
          /\ OrderSettled
      BY <2>1, <2>9 DEF VendorBefore, VendorCarried, PurchaseCarried, At, TotalSteps, SettlingSteps
    <3>2. po.ordered \in Nat /\ received \in Nat /\ returned \in Nat
      BY DEF PurchaseRows
    <3>3. po'.received = po.received - n /\ received > 0
      BY <2>2, <2>5, <2>7, <3>1, <3>2 DEF AtLeastZero, PurchaseExact
    <3>4. \/ po'.status = "fully_received" /\ po'.received >= po'.ordered
          \/ po'.status = "partially_received" /\ po'.received < po'.ordered
      BY <2>2, <2>5, <2>7, <3>1, <3>2, <3>3 DEF StatusAfterReceipt
    <3>5. OrderFits'
      BY <2>1, <2>7, <3>1, <3>3, <3>4 DEF OrderFits, StatusFits
    <3>6. Ordered(po'.status)
      BY <2>2, <2>7 DEF Ordered
    <3>7. SettledBut(refused + n)'
      <4>1. TotalVendorPaid' = TotalVendorPaid /\ TotalVendorPaid \in Nat
        BY <2>1, VendorSumStays, VendorSum
      <4>2. po.due \in Int /\ po.total \in Nat /\ refused \in Nat /\ n' = n
        BY <2>3 DEF VendorRows, PurchasingTypeOK
      <4>3. /\ po.paid = TotalVendorPaid
            /\ po.due - (po.total - returned - TotalVendorPaid) \in 0..refused
        BY <3>1 DEF OrderSettled, SettledBut
      <4> QED
        BY <2>1, <2>2, <2>7, <3>2, <4>1, <4>2, <4>3 DEF SettledBut
    <3>8. VendorCarried(s)'
      BY <2>3, <2>7, <3>1, <3>6, <3>7 DEF VendorCarried, At, TotalSteps, SettlingSteps
    <3> QED
      BY <3>5, <3>8
  <2> QED
    BY <2>4, <2>8, <2>9 DEF VendorKept
<1>2. CASE MoveReturned(s)
  <2>1. /\ At(s, "return.move") /\ left' = left + n
        /\ Continue(s, [step |-> "po.readPaid", total |-> slot[s].total])
        /\ UNCHANGED <<po, received, returned, vendorPayment, vendorUsed, arrived, refused>>
    BY <1>2 DEF MoveReturned, papers
  <2>2. slot'[s] = [step |-> "po.readPaid", total |-> slot[s].total]
    BY <2>1 DEF Continue, HandlersInv
  <2>3. n \in Nat /\ slot[s].total \in Nat
    BY <2>1 DEF VendorLocals, PapersOnTheWay, At, TotalSteps, SettlingSteps
  <2>4. VendorLocals(s)' /\ slot'[s].step \in SettlingSteps
    BY <2>2, <2>3 DEF VendorLocals, PapersOnTheWay, At, TotalSteps, SettlingSteps
  <2>5. VendorRows'
    BY <2>1, <2>3 DEF VendorRows, PurchasingTypeOK
  <2>6. VendorCarried(s) => VendorCarried(s)'
    BY <2>1, <2>2 DEF VendorCarried, At, TotalSteps, SettlingSteps
  <2>7. OrderFits => OrderFits'
    BY <2>1 DEF OrderFits, StatusFits
  <2> QED
    BY <2>4, <2>5, <2>6, <2>7 DEF VendorKept, VendorBefore
<1>3. CASE RefuseReturn(s)
  <2>1. /\ At(s, "return.move") /\ refused' = refused + n /\ Finish(s)
        /\ UNCHANGED <<po, received, returned, vendorPayment, vendorUsed, arrived, left>>
    BY <1>3 DEF RefuseReturn, papers
  <2>2. n \in Nat
    BY <2>1 DEF VendorLocals, PapersOnTheWay, At
  <2>3. VendorRows'
    BY <2>1, <2>2 DEF VendorRows, PurchasingTypeOK
  <2>4. VendorCarried(s) => OrderSettled'
    BY <2>1, VendorSumStays DEF VendorCarried, OrderSettled, SettledBut
  <2>5. OrderFits => OrderFits'
    BY <2>1 DEF OrderFits, StatusFits
  <2> QED
    BY <2>1, <2>3, <2>4, <2>5, VendorIdle DEF VendorKept, VendorBefore
<1> QED
  BY <1>1, <1>2, <1>3

\* A payment is recorded, or deleted.
LEMMA PayingFits ==
  ASSUME HandlersInv, PurchaseRows, VendorRows, NEW s \in Slots, VendorLocals(s),
         InsertVendorPayment(s) \/ DeleteVendorPayment(s)
  PROVE  VendorKept(s)
<1>1. /\ Continue(s, [step |-> "po.readPaid", total |-> slot[s].total])
      /\ UNCHANGED <<po, received, returned, arrived, left, refused>>
      /\ slot[s].step \in {"po.insertPayment", "po.deletePayment"}
  BY DEF InsertVendorPayment, DeleteVendorPayment, goods, At
<1>2. slot'[s] = [step |-> "po.readPaid", total |-> slot[s].total]
  BY <1>1 DEF Continue, HandlersInv
<1>3. slot[s].total \in Nat
  BY <1>1 DEF VendorLocals, TotalSteps
<1>4. VendorLocals(s)' /\ slot'[s].step \in SettlingSteps
  BY <1>2, <1>3 DEF VendorLocals, PapersOnTheWay, At, TotalSteps, SettlingSteps
<1>5. OrderFits => OrderFits'
  BY <1>1 DEF OrderFits, StatusFits
<1>6. CASE InsertVendorPayment(s)
  <2>1. PICK p \in VendorPayments :
          /\ vendorPayment' = [vendorPayment EXCEPT ![p] = slot[s].amount]
          /\ vendorUsed' = vendorUsed \cup {p}
    <3>1. \E p \in VendorPayments : p \notin vendorUsed
      BY <1>6 DEF InsertVendorPayment, VendorRows, PurchasingTypeOK
    <3> QED
      BY <1>6, <3>1 DEF InsertVendorPayment
  <2>2. At(s, "po.insertPayment") /\ Ordered(po.status) /\ slot[s].amount \in Nat
    BY <1>6 DEF InsertVendorPayment, VendorLocals
  <2>3. VendorRows'
    BY <1>1, <2>1, <2>2 DEF VendorRows, PurchasingTypeOK
  <2>4. VendorCarried(s) => VendorCarried(s)'
    <3>1. VendorCarried(s) => slot[s].total = po.total
      BY <1>1 DEF VendorCarried, TotalSteps
    <3> QED
      BY <1>1, <1>2, <2>2, <3>1 DEF VendorCarried, At, TotalSteps, SettlingSteps
  <2> QED
    BY <1>4, <1>5, <2>3, <2>4 DEF VendorKept, VendorBefore
<1>7. CASE DeleteVendorPayment(s)
  <2>1. /\ At(s, "po.deletePayment") /\ UNCHANGED vendorUsed
        /\ vendorPayment' = [vendorPayment EXCEPT ![slot[s].id] = 0]
    BY <1>7 DEF DeleteVendorPayment
  <2>2. /\ vendorPayment' \in [VendorPayments -> Nat]
        /\ \A p \in VendorPayments : vendorPayment'[p] > 0 => vendorPayment[p] > 0
    <3>1. vendorPayment \in [VendorPayments -> Nat]
      BY DEF VendorRows, PurchasingTypeOK
    <3>2. ASSUME NEW p \in VendorPayments
          PROVE  vendorPayment'[p] = IF p = slot[s].id THEN 0 ELSE vendorPayment[p]
      BY <2>1, <3>1
    <3>3. vendorPayment' \in [VendorPayments -> Nat]
      BY <2>1, <3>1
    <3>4. ASSUME NEW p \in VendorPayments, vendorPayment'[p] > 0 PROVE vendorPayment[p] > 0
      BY <3>1, <3>2, <3>4
    <3> QED
      BY <3>3, <3>4
  <2>3. VendorRows'
    BY <1>1, <2>1, <2>2 DEF VendorRows, PurchasingTypeOK
  <2>4. VendorCarried(s) => VendorCarried(s)'
    <3>1. VendorCarried(s) => slot[s].total = po.total /\ Ordered(po.status)
      BY <1>1, <2>1 DEF VendorCarried, TotalSteps, At
    <3> QED
      BY <1>1, <1>2, <3>1 DEF VendorCarried, At, TotalSteps, SettlingSteps
  <2> QED
    BY <1>4, <1>5, <2>3, <2>4 DEF VendorKept, VendorBefore
<1> QED
  BY <1>6, <1>7

\* What is paid and owed is settled from what was read.
LEMMA SettlingFits ==
  ASSUME HandlersInv, PurchaseRows, VendorRows, NEW s \in Slots, VendorLocals(s),
         ReadVendorPaid(s) \/ ReadReturned(s) \/ SettlePurchase(s) \/ FailPurchasing(s)
  PROVE  VendorKept(s)
<1>1. TotalVendorPaid \in Nat /\ returned \in Nat
  BY VendorSum DEF PurchaseRows
<1>2. ASSUME UNCHANGED purchaseVars
      PROVE  /\ VendorRows' /\ (OrderFits => OrderFits') /\ (OrderSettled => OrderSettled')
             /\ TotalVendorPaid' = TotalVendorPaid
  BY <1>2, VendorSumStays
     DEF purchaseVars, VendorRows, PurchasingTypeOK, OrderFits, StatusFits, OrderSettled, SettledBut
<1>3. CASE ReadVendorPaid(s)
  <2>1. /\ At(s, "po.readPaid") /\ UNCHANGED purchaseVars
        /\ Continue(s, [step |-> "po.readReturned", total |-> slot[s].total,
                        paid |-> TotalVendorPaid])
    BY <1>3 DEF ReadVendorPaid
  <2>2. slot'[s] = [step |-> "po.readReturned", total |-> slot[s].total, paid |-> TotalVendorPaid]
    BY <2>1 DEF Continue, HandlersInv
  <2>3. slot[s].total \in Nat
    BY <2>1 DEF VendorLocals, At, TotalSteps, SettlingSteps
  <2>4. VendorLocals(s)' /\ slot'[s].step \in SettlingSteps
    BY <1>1, <2>2, <2>3 DEF VendorLocals, PapersOnTheWay, At, TotalSteps, SettlingSteps
  <2>5. ASSUME VendorCarried(s) PROVE VendorCarried(s)'
    <3>1. slot[s].total = po.total /\ Ordered(po.status)
      BY <2>1, <2>5 DEF VendorCarried, At, TotalSteps, SettlingSteps
    <3>2. UNCHANGED po /\ TotalVendorPaid' = TotalVendorPaid
      BY <1>2, <2>1 DEF purchaseVars
    <3> QED
      BY <2>2, <3>1, <3>2 DEF VendorCarried, At, TotalSteps, SettlingSteps
  <2> QED
    BY <1>2, <2>1, <2>4, <2>5 DEF VendorKept, VendorBefore
<1>4. CASE ReadReturned(s)
  <2>1. /\ At(s, "po.readReturned") /\ UNCHANGED purchaseVars
        /\ Continue(s, [step |-> "po.settle", total |-> slot[s].total,
                        paid |-> slot[s].paid, returned |-> returned])
    BY <1>4 DEF ReadReturned
  <2>2. slot'[s] = [step |-> "po.settle", total |-> slot[s].total,
                    paid |-> slot[s].paid, returned |-> returned]
    BY <2>1 DEF Continue, HandlersInv
  <2>3. slot[s].total \in Nat /\ slot[s].paid \in Nat
    BY <2>1 DEF VendorLocals, At, TotalSteps, SettlingSteps
  <2>4. VendorLocals(s)' /\ slot'[s].step \in SettlingSteps
    BY <1>1, <2>2, <2>3 DEF VendorLocals, PapersOnTheWay, At, TotalSteps, SettlingSteps
  <2>5. ASSUME VendorCarried(s) PROVE VendorCarried(s)'
    <3>1. slot[s].total = po.total /\ Ordered(po.status) /\ slot[s].paid = TotalVendorPaid
      BY <2>1, <2>5 DEF VendorCarried, At, TotalSteps, SettlingSteps
    <3>2. UNCHANGED <<po, returned>> /\ TotalVendorPaid' = TotalVendorPaid
      BY <1>2, <2>1 DEF purchaseVars
    <3> QED
      BY <2>2, <3>1, <3>2 DEF VendorCarried, At, TotalSteps, SettlingSteps
  <2> QED
    BY <1>2, <2>1, <2>4, <2>5 DEF VendorKept, VendorBefore
<1>5. CASE SettlePurchase(s)
  <2> DEFINE l == slot[s]
  <2>1. /\ At(s, "po.settle") /\ Finish(s)
        /\ UNCHANGED <<received, returned, vendorPayment, vendorUsed, arrived, left, refused>>
    BY <1>5 DEF SettlePurchase, papers, goods
  <2>2. l.total \in Nat /\ l.paid \in Nat /\ l.returned \in Nat
    BY <2>1 DEF VendorLocals, At, TotalSteps, SettlingSteps
  <2>3. /\ po' \in PurchaseRecords /\ po'.status = po.status /\ po'.received = po.received
        /\ po'.ordered = po.ordered /\ po'.total = po.total /\ po'.paid = l.paid
        /\ po'.due = l.total - l.returned - l.paid
    <3>1. po \in PurchaseRecords
      BY DEF VendorRows, PurchasingTypeOK, PurchaseRecords
    <3>2. PICK half : half = [po EXCEPT !.paid = l.paid]
      OBVIOUS
    <3>3. po' = [half EXCEPT !.due = l.total - l.returned - l.paid]
      BY <1>5, <3>2, Zenon DEF SettlePurchase
    <3>4. /\ half \in PurchaseRecords /\ half.status = po.status /\ half.received = po.received
          /\ half.ordered = po.ordered /\ half.total = po.total /\ half.paid = l.paid
      BY <2>2, <3>1, <3>2 DEF PurchaseRecords
    <3>5. l.total - l.returned - l.paid \in Int
      BY <2>2
    <3>6. ASSUME NEW d \in Int, po' = [half EXCEPT !.due = d]
          PROVE  /\ po' \in PurchaseRecords /\ po'.status = half.status
                 /\ po'.received = half.received /\ po'.ordered = half.ordered
                 /\ po'.total = half.total /\ po'.paid = half.paid /\ po'.due = d
      BY <3>4, <3>6 DEF PurchaseRecords
    <3> QED
      BY <3>3, <3>4, <3>5, <3>6
  <2>4. VendorRows'
    BY <2>1, <2>3 DEF VendorRows, PurchasingTypeOK, PurchaseRecords
  <2>5. ASSUME VendorBefore(s) PROVE OrderFits' /\ OrderSettled'
    <3>1. /\ l.total = po.total /\ l.paid = TotalVendorPaid /\ l.returned = returned
          /\ OrderFits
      BY <2>1, <2>5 DEF VendorBefore, VendorCarried, At, TotalSteps, SettlingSteps
    <3>2. OrderFits'
      BY <2>1, <2>3, <3>1 DEF OrderFits, StatusFits
    <3>3. TotalVendorPaid' = TotalVendorPaid
      BY <2>1, VendorSumStays
    <3>4. po.total \in Nat /\ refused \in Nat
      BY DEF VendorRows, PurchasingTypeOK
    <3> QED
      BY <1>1, <2>1, <2>3, <3>1, <3>2, <3>3, <3>4 DEF OrderSettled, SettledBut
  <2> QED
    BY <2>1, <2>4, <2>5, VendorIdle DEF VendorKept
<1>6. CASE FailPurchasing(s)
  <2>1. Finish(s) /\ UNCHANGED purchaseVars
    BY <1>6 DEF FailPurchasing
  <2>2. ASSUME VendorBefore(s) PROVE slot[s].step \notin SettlingSteps
    <3>1. slot[s].step \in SettlingSteps => Ordered(po.status)
      BY <2>2 DEF VendorBefore, VendorCarried
    <3> QED
      BY <1>6, <3>1 DEF FailPurchasing, At, SettlingSteps
  <2> QED
    BY <1>2, <2>1, <2>2, VendorIdle DEF VendorKept, VendorBefore
<1> QED
  BY <1>3, <1>4, <1>5, <1>6

\* Placing an order, and selling what has arrived.
LEMMA VendorCalled ==
  ASSUME HandlersInv, PurchaseRows, PurchaseRows', VendorRows, NEW w, NEW n \in Quantities,
         CreatePurchase(n) \/ SellReceived(w, n)
  PROVE  /\ VendorRows'
         /\ OrderFits /\ OrderSettled => OrderFits' /\ OrderSettled'
<1>1. UNCHANGED <<received, returned, vendorPayment, vendorUsed, arrived, left, refused>>
  BY DEF CreatePurchase, SellReceived, papers, goods, purchaseVars
<1>2. CASE CreatePurchase(n)
  <2>1. /\ po' = [status |-> "draft", line |-> 1, ordered |-> n, received |-> 0,
                  total |-> n, paid |-> 0, due |-> n]
        /\ po.status = "none" /\ n \in Nat /\ n > 0
    BY <1>2, MaxQuantityAssumption DEF CreatePurchase, Quantities
  <2>2. /\ po' \in PurchaseRecords /\ po'.status = "draft" /\ po'.ordered = n
        /\ po'.received = 0 /\ po'.total = n /\ po'.paid = 0 /\ po'.due = n
    BY <2>1 DEF PurchaseRecords, PurchaseStatuses
  <2>3. Ordered(po'.status) /\ ~Ordered(po.status) /\ received = 0 /\ returned = 0
    BY <2>1, <2>2 DEF Ordered, PurchaseStatuses, PurchaseRows
  <2>4. VendorRows'
    BY <1>1, <2>2, <2>3 DEF VendorRows, PurchasingTypeOK, PurchaseRecords
  <2>5. TotalVendorPaid = 0
    <3>1. \A p \in VendorPayments : vendorPayment[p] \in Nat /\ ~(vendorPayment[p] > 0)
      BY <2>3 DEF VendorRows, PurchasingTypeOK
    <3>2. \A p \in VendorPayments : vendorPayment[p] = 0
      BY <3>1
    <3> QED
      BY <3>2, VendorSum
  <2>6. TotalVendorPaid' = 0
    BY <1>1, <2>5, VendorSumStays
  <2>7. OrderFits'
    BY <1>1, <2>1, <2>2, <2>3 DEF OrderFits, StatusFits
  <2>8. OrderSettled'
    <3>1. refused \in Nat
      BY DEF VendorRows, PurchasingTypeOK
    <3> QED
      BY <1>1, <2>1, <2>2, <2>3, <2>6, <3>1 DEF OrderSettled, SettledBut
  <2> QED
    BY <2>4, <2>7, <2>8
<1>3. CASE SellReceived(w, n)
  <2>1. UNCHANGED po
    BY <1>3 DEF SellReceived, purchaseVars
  <2>2. TotalVendorPaid' = TotalVendorPaid
    BY <1>1, VendorSumStays
  <2> QED
    BY <1>1, <2>1, <2>2
       DEF VendorRows, PurchasingTypeOK, OrderFits, StatusFits, OrderSettled, SettledBut
<1> QED
  BY <1>2, <1>3

\* Every step keeps the order in shape and, in turn, in agreement.
LEMMA VendorInvNext ==
  ASSUME HandlersInv, PurchasingInv, PurchasingInv', VendorInv, [ServiceNext]_ServiceVars
  PROVE  VendorInv'
<1>1. /\ PurchaseRows /\ PurchaseRows' /\ VendorRows /\ \A s \in Slots : VendorLocals(s)
      /\ InTurn' =>
           /\ InTurn /\ OneBusy /\ PurchaseExact /\ \A s \in Slots : PurchaseCarried(s)
           /\ OrderFits /\ \A s \in Slots : VendorCarried(s)
           /\ Settling \/ OrderSettled
  BY Undisturbed DEF PurchasingInv, VendorInv, HandlersInv
<1>2. ASSUME NEW s \in Slots, slot'[s] = slot[s]
      PROVE  VendorLocals(s)'
  BY <1>1, <1>2 DEF VendorLocals, PapersOnTheWay, At
<1>3. ASSUME NEW s \in Slots, slot'[s].step \notin PurchasingSteps
      PROVE  VendorLocals(s)' /\ VendorCarried(s)' /\ slot'[s].step \notin SettlingSteps
  BY <1>3 DEF VendorLocals, VendorCarried, PapersOnTheWay, At, TotalSteps, SettlingSteps, PurchasingSteps
<1>4. ASSUME UNCHANGED purchaseVars, Elsewhere(PurchasingSteps)
      PROVE  VendorInv'
  <2>1. \A s \in Slots : slot'[s].step \in PurchasingSteps => slot'[s] = slot[s]
    BY <1>4 DEF Elsewhere
  <2>2. InTurn' => \A s \in Slots : slot[s].step \in PurchasingSteps => slot'[s] = slot[s]
    BY <1>4 DEF Elsewhere, InTurn
  <2>3. /\ VendorRows' /\ (OrderFits => OrderFits') /\ (OrderSettled => OrderSettled')
        /\ TotalVendorPaid' = TotalVendorPaid /\ UNCHANGED <<po, returned, refused>>
    BY <1>1, <1>4, VendorSumStays
       DEF purchaseVars, VendorRows, PurchasingTypeOK, OrderFits, StatusFits, OrderSettled, SettledBut
  <2>4. ASSUME NEW s \in Slots PROVE VendorLocals(s)' /\ (InTurn' => VendorCarried(s)')
    <3>1. CASE slot'[s].step \in PurchasingSteps
      <4>1. slot'[s] = slot[s]
        BY <2>1, <3>1
      <4>2. ASSUME VendorCarried(s) PROVE VendorCarried(s)'
        BY <2>3, <4>1, <4>2 DEF VendorCarried, SettledBut, StatusAfterReceipt, At
      <4> QED
        BY <1>1, <1>2, <4>1, <4>2
    <3> QED
      BY <1>3, <3>1
  <2>5. InTurn' /\ Settling => Settling'
    BY <2>2 DEF Settling, SettlingSteps, PurchasingSteps
  <2> QED
    BY <1>1, <2>3, <2>4, <2>5 DEF VendorInv
<1>5. ASSUME NEW s \in Slots, \A r \in Slots \ {s} : slot'[r] = slot[r], VendorLocals(s)'
      PROVE  /\ \A r \in Slots : VendorLocals(r)'
             /\ (\A r \in Slots \ {s} : At(r, "idle")) /\ VendorCarried(s)'
                => \A r \in Slots : VendorCarried(r)'
             /\ (\A r \in Slots \ {s} : At(r, "idle")) =>
                  /\ Settling <=> slot[s].step \in SettlingSteps
                  /\ Settling' <=> slot'[s].step \in SettlingSteps
  <2>1. \A r \in Slots : VendorLocals(r)'
    BY <1>2, <1>5
  <2>2. ASSUME \A r \in Slots \ {s} : At(r, "idle")
        PROVE  \A r \in Slots \ {s} : slot[r].step \notin SettlingSteps /\ slot'[r].step \notin PurchasingSteps
    BY <1>5, <2>2 DEF At, SettlingSteps, PurchasingSteps
  <2>3. ASSUME \A r \in Slots \ {s} : At(r, "idle")
        PROVE  \A r \in Slots \ {s} : VendorCarried(r)' /\ slot'[r].step \notin SettlingSteps
    BY <1>3, <2>2, <2>3
  <2> QED
    BY <2>1, <2>2, <2>3 DEF Settling
<1>6. ASSUME NEW s \in Slots, At(s, "idle"), PurchasingRequest(s) PROVE VendorInv'
  <2>1. /\ UNCHANGED purchaseVars
        /\ \A r \in Slots \ {s} : slot'[r] = slot[r]
        /\ InTurn' => \A r \in Slots \ {s} : At(r, "idle")
    BY <1>1, <1>6, PurchaseRead
  <2>2. VendorLocals(s)' /\ VendorCarried(s)' /\ slot'[s].step \notin SettlingSteps
    BY <1>1, <1>6, VendorRead
  <2>3. VendorRows' /\ (OrderFits => OrderFits') /\ (OrderSettled => OrderSettled')
    BY <1>1, <2>1, VendorSumStays
       DEF purchaseVars, VendorRows, PurchasingTypeOK, OrderFits, StatusFits, OrderSettled, SettledBut
  <2>4. slot[s].step \notin SettlingSteps
    BY <1>6 DEF At, SettlingSteps
  <2> QED
    BY <1>1, <1>5, <2>1, <2>2, <2>3, <2>4 DEF VendorInv
<1>7. ASSUME NEW s \in Slots, PurchasingStep(s) PROVE VendorInv'
  <2>1. VendorKept(s)
    BY <1>1, <1>7, EditStepped, ReceivingFits, ReturningFits, PayingFits, SettlingFits
       DEF PurchasingStep
  <2>2. slot[s].step \in PurchasingSteps /\ \A r \in Slots \ {s} : slot'[r] = slot[r]
    <3>1. PurchaseKept(s)
      BY <1>1, <1>7, OrderStepped, ReceiptStepped, ReturnStepped, PaymentStepped
         DEF PurchasingStep, PurchasingInv
    <3> QED
      BY <1>7, <3>1
         DEF PurchaseKept, PurchasingStep, WritePurchase, WritePurchaseStatus, DeletePurchase,
             InsertReceipt, MoveReceived, InsertReturn, MoveReturned, RefuseReturn,
             InsertVendorPayment, DeleteVendorPayment, ReadVendorPaid, ReadReturned,
             SettlePurchase, FailPurchasing, PurchasingSteps, At
  <2>3. InTurn' => \A r \in Slots \ {s} : At(r, "idle")
    BY <1>1, <2>2 DEF OneBusy, PurchasingSteps, At
  <2>4. InTurn' => VendorBefore(s)
    BY <1>1, <1>5, <2>1, <2>2, <2>3 DEF VendorBefore, VendorKept
  <2> QED
    BY <1>5, <2>1, <2>2, <2>3, <2>4 DEF VendorInv, VendorKept
<1>8. ASSUME NEW w, NEW n \in Quantities, CreatePurchase(n) \/ SellReceived(w, n)
      PROVE  VendorInv'
  <2>1. slot' = slot /\ (InTurn' => Quiet)
    BY <1>1, <1>8, PurchaseCalled
  <2>2. VendorRows' /\ (OrderFits /\ OrderSettled => OrderFits' /\ OrderSettled')
    BY <1>1, <1>8, VendorCalled
  <2>3. Quiet => ~Settling /\ \A s \in Slots : VendorCarried(s)'
    BY <1>3, <2>1 DEF Quiet, At, PurchasingSteps, Settling, SettlingSteps
  <2> QED
    BY <1>1, <1>2, <2>1, <2>2, <2>3 DEF VendorInv
<1> QED
  BY <1>4, <1>6, <1>7, <1>8, NotPurchasing DEF PurchasingNext, Free

\* Nothing is paid yet.
LEMMA VendorInitially == ServiceInit => VendorInv
<1> SUFFICES ASSUME ServiceInit PROVE VendorInv
  OBVIOUS
<1>1. /\ po = [status |-> "none", line |-> 0, ordered |-> 0, received |-> 0,
               total |-> 0, paid |-> 0, due |-> 0]
      /\ received = 0 /\ returned = 0 /\ arrived = 0 /\ left = 0 /\ refused = 0
      /\ vendorPayment = [p \in VendorPayments |-> 0] /\ vendorUsed = {}
      /\ slot = [s \in Slots |-> Idle] /\ Idle.step = "idle"
  BY DEF ServiceInit, PurchasingInit, RequestsInit, Idle
<1>2. VendorRows
  BY <1>1 DEF VendorRows, PurchasingTypeOK
<1>3. TotalVendorPaid = 0
  BY <1>1, <1>2, VendorSum
<1>4. /\ po.status = "none" /\ po.ordered = 0 /\ po.received = 0 /\ po.total = 0
      /\ po.paid = 0 /\ po.due = 0
  BY <1>1
<1>5. OrderFits /\ OrderSettled
  BY <1>1, <1>3, <1>4 DEF OrderFits, StatusFits, OrderSettled, SettledBut, Ordered, PurchaseStatuses
<1>6. \A s \in Slots : VendorLocals(s) /\ VendorCarried(s)
  BY <1>1 DEF VendorLocals, VendorCarried, PapersOnTheWay, At, TotalSteps, SettlingSteps
<1> QED
  BY <1>2, <1>5, <1>6 DEF VendorInv

\* As long as requests come one after the other, whenever one is over the status
\* of a purchase order says how much has arrived, its total is that of its lines,
\* what is paid is what the payments on file add up to, and what is owed is what
\* they and the returns on file leave, or too much by what returns that the shelf
\* refused were worth at most.
THEOREM PurchasesAgree == ServiceSpec => []PurchaseAgrees
<1>1. VendorInv => PurchaseAgrees
  <2> SUFFICES ASSUME VendorInv, Quiet, InTurn PROVE PurchaseAgrees
    BY DEF PurchaseAgrees
  <2>1. OrderFits /\ OrderSettled
    BY DEF VendorInv, Settling, SettlingSteps, Quiet, At
  <2> QED
    BY <2>1 DEF PurchaseAgrees, OrderFits, StatusFits, OrderSettled, SettledBut
<1> QED
  BY <1>1, PurchasingInitially, VendorInitially, HandlersAlways, PurchasingInvNext, VendorInvNext, PTL
     DEF ServiceSpec

-----------------------------------------------------------------------------
(* Leave: what is approved fits the year's entitlement *)

LeaveRecords ==
  [status : LeaveStatuses, type : LeaveTypes, start : Days, end : Days, days : Nat \ {0}]

LeaveLocals(s) ==
  /\ At(s, "leave.insert") => slot[s].row \in LeaveRecords /\ slot[s].row.status = "pending"
  /\ slot[s].step \in {"leave.update", "leave.delete"} => slot[s].id \in LeaveIds
  /\ At(s, "leave.update") => slot[s].row \in LeaveRecords
  /\ At(s, "employee.update") =>
       slot[s].row \in [status : EmployeeStatuses, entitlement : 0..MaxEntitlement]

\* In turn: the request that is decided still waits, and still fits.
LeaveCarried(s) ==
  At(s, "leave.update") =>
    LET r == leave[slot[s].id] IN
    /\ r.status = "pending"
    /\ slot[s].row.type = r.type /\ slot[s].row.start = r.start /\ slot[s].row.days = r.days
    /\ slot[s].row.status = "approved" => Fits(r.type, r.days, r.start)

LeaveInv ==
  /\ LeaveTypeOK
  /\ leave = [r \in LeaveIds |-> leave[r]]
  /\ \A s \in Slots : LeaveLocals(s)
  /\ InTurn => \A s \in Slots : LeaveCarried(s)

\* What MapThenSumSet makes of the days of the requests S.
DaysSum(rows, S) ==
  (CHOOSE g : g = [T \in SUBSET S |->
     IF T = {} THEN 0
               ELSE LET x == CHOOSE x \in T : TRUE IN rows[x].days + g[T \ {x}]])[S]

\* It is the sum of the days they are for.
LEMMA DaysSummed ==
  ASSUME NEW rows, NEW S
  PROVE  DaysSum(rows, S) = SumOf([r \in S |-> rows[r].days], S)
<1> DEFINE w == [r \in S |-> rows[r].days]
           Counts(g) ==
             g = [T \in SUBSET S |->
                    IF T = {} THEN 0
                              ELSE LET x == CHOOSE x \in T : TRUE
                                   IN rows[x].days + g[T \ {x}]]
<1>1. ASSUME NEW T \in SUBSET S, T # {}
      PROVE  w[CHOOSE x \in T : TRUE] = rows[CHOOSE x \in T : TRUE].days
  BY <1>1
<1>2. ASSUME NEW g PROVE Counts(g) <=> Adds(g, w, S)
  BY <1>1 DEF Adds
<1>3. DaysSum(rows, S) = (CHOOSE g : Counts(g))[S]
  BY DEF DaysSum
<1> HIDE DEF Counts, w
<1>4. (CHOOSE g : Counts(g)) = (CHOOSE g : Adds(g, w, S))
  BY <1>2
<1> QED
  BY <1>3, <1>4, SumUnfolded DEF w

\* The days of each of some requests.
DaysEach(S) == [r \in S |-> leave[r].days]

\* What is taken is such a sum, before a step and after it.
LEMMA TakenIsSum ==
  ASSUME NEW year
  PROVE  /\ Taken(year) = SumOf(DaysEach(ApprovedInYear(year)), ApprovedInYear(year))
         /\ Taken(year)' = SumOf(DaysEach(ApprovedInYear(year))', ApprovedInYear(year)')
<1>1. Taken(year) = DaysSum(leave, ApprovedInYear(year))
  BY DEF Taken, DaysSum, MapThenSumSet, MapThenFoldSet
<1>2. Taken(year)' = DaysSum(leave', ApprovedInYear(year)')
  BY DEF Taken, DaysSum, MapThenSumSet, MapThenFoldSet
<1> QED
  BY <1>1, <1>2, DaysSummed DEF DaysEach

\* What has been approved is for a number of days.
LEMMA ApprovedTyped ==
  ASSUME LeaveTypeOK, NEW year
  PROVE  /\ ApprovedInYear(year) \subseteq LeaveIds /\ IsFiniteSet(ApprovedInYear(year))
         /\ \A r \in ApprovedInYear(year) : leave[r].days \in Nat
         /\ Taken(year) \in Nat
<1>1. ApprovedInYear(year) \subseteq LeaveIds
  BY DEF ApprovedInYear
<1>2. IsFiniteSet(ApprovedInYear(year))
  BY <1>1, LeaveIdsAssumption, FS_Subset
<1>3. \A r \in ApprovedInYear(year) : leave[r].days \in Nat
  BY DEF ApprovedInYear, LeaveTypeOK, NoLeave, GoneLeave
<1> DEFINE S == ApprovedInYear(year)
           w == DaysEach(S)
<1>4. S \subseteq DOMAIN w /\ \A r \in S : w[r] \in Nat
  BY <1>3 DEF DaysEach
<1>5. Taken(year) = SumOf(w, S)
  BY TakenIsSum
<1> HIDE DEF S, w
<1>6. IsFiniteSet(S)
  BY <1>2 DEF S
<1>7. SumOf(w, S) \in Nat
  BY <1>4, <1>6, SumNatural
<1> QED
  BY <1>1, <1>2, <1>3, <1>5, <1>7

\* Leave that stays as it is takes the same.
LEMMA TakenStays ==
  ASSUME UNCHANGED leave, NEW year
  PROVE  Taken(year)' = Taken(year)
BY TakenIsSum DEF DaysEach, ApprovedInYear

\* A request that was not approved is written: what is taken grows by its days if
\* it is approved for this year now, and stays the same if not.
LEMMA TakenWritten ==
  ASSUME LeaveTypeOK, leave = [r \in LeaveIds |-> leave[r]],
         NEW i \in LeaveIds, leave[i].status # "approved",
         NEW row \in LeaveRecords, leave' = [leave EXCEPT ![i] = row], NEW year
  PROVE  /\ \/ row.status # "approved" \/ ~CountsAgainstEntitlement(row.type)
            \/ YearOf(row.start) # year
            => Taken(year)' = Taken(year)
         /\ /\ row.status = "approved" /\ CountsAgainstEntitlement(row.type)
            /\ YearOf(row.start) = year
            => Taken(year)' = Taken(year) + row.days
<1> DEFINE S == ApprovedInYear(year)
           w == DaysEach(S)
           v == DaysEach(S)'
<1>1. /\ leave'[i] = row /\ row.days \in Nat
      /\ \A r \in LeaveIds \ {i} : leave'[r] = leave[r]
  BY DEF LeaveRecords
<1>2. /\ S \subseteq LeaveIds /\ IsFiniteSet(S) /\ i \notin S
      /\ \A r \in S : leave[r].days \in Nat /\ leave'[r] = leave[r]
  BY <1>1, ApprovedTyped DEF ApprovedInYear
<1>3. Taken(year) = SumOf(w, S) /\ Taken(year)' = SumOf(v, S')
  BY TakenIsSum
<1>4. CASE \/ row.status # "approved" \/ ~CountsAgainstEntitlement(row.type)
           \/ YearOf(row.start) # year
  <2>1. S' = S
    BY <1>1, <1>4 DEF ApprovedInYear
  <2>2. w = v
    BY <1>2, <2>1 DEF DaysEach
  <2> QED
    BY <1>3, <1>4, <2>1, <2>2
<1>5. CASE /\ row.status = "approved" /\ CountsAgainstEntitlement(row.type)
           /\ YearOf(row.start) = year
  <2>1. S' = S \cup {i}
    BY <1>1, <1>5 DEF ApprovedInYear
  <2>2. /\ S \subseteq DOMAIN w /\ S \cup {i} \subseteq DOMAIN v
        /\ \A r \in S : w[r] \in Int /\ v[r] = w[r]
        /\ v[i] = row.days /\ v[i] \in Int
    BY <1>1, <1>2, <2>1 DEF DaysEach
  <2> HIDE DEF S, w, v
  <2>3. SumOf(v, S \cup {i}) = SumOf(w, S) + v[i]
    BY <1>2, <2>2, SumExtended
  <2> QED
    BY <1>3, <1>5, <2>1, <2>2, <2>3
<1> QED
  BY <1>4, <1>5

\* A request that is deleted takes nothing any more.
LEMMA TakenDeleted ==
  ASSUME LeaveTypeOK, leave = [r \in LeaveIds |-> leave[r]],
         NEW i \in LeaveIds, leave' = [leave EXCEPT ![i] = GoneLeave], NEW year
  PROVE  ~(Taken(year)' > Taken(year))
<1> DEFINE S == ApprovedInYear(year)
           T == ApprovedInYear(year)'
           w == DaysEach(S)
           v == DaysEach(S)'
<1>1. /\ leave'[i].status # "approved" /\ \A r \in LeaveIds \ {i} : leave'[r] = leave[r]
  BY DEF GoneLeave
<1>2. T \subseteq S /\ \A r \in T : leave'[r] = leave[r]
  BY <1>1 DEF ApprovedInYear
<1>3. /\ IsFiniteSet(S) /\ \A r \in S : leave[r].days \in Nat
  BY ApprovedTyped
<1>4. IsFiniteSet(T)
  BY <1>2, <1>3, FS_Subset
<1>5. Taken(year) = SumOf(w, S) /\ Taken(year)' = SumOf(v, T)
  BY TakenIsSum
<1>6. /\ S \subseteq DOMAIN w /\ T \subseteq DOMAIN v
      /\ \A r \in S : w[r] \in Nat
      /\ \A r \in T : v[r] = w[r] /\ v[r] \in Nat
  BY <1>2, <1>3 DEF DaysEach
<1> HIDE DEF S, T, w, v
<1>7. \A r \in T : v[r] = 0 \/ (r \in S /\ v[r] <= w[r])
  BY <1>2, <1>6
<1>8. SumOf(v, T) \in Nat /\ SumOf(w, S) \in Nat /\ SumOf(v, T) <= SumOf(w, S)
  BY <1>3, <1>4, <1>6, <1>7, SumGrows
<1> QED
  BY <1>5, <1>8

\* A request is for a day at least.
LEMMA SomeDays ==
  ASSUME NEW start \in Days, NEW end \in Days
  PROVE  DaysRequested(start, end) \in Nat \ {0}
<1>1. start \in Int /\ end \in Int
  BY CalendarAssumption
<1>2. IsFiniteSet(start..end)
  BY <1>1, FS_Interval
<1>3. IsFiniteSet({d \in start..end : d \notin Weekend})
  BY <1>2, FS_Subset
<1>4. WorkingDays(start, end) \in Nat
  BY <1>3, FS_CardinalityType DEF WorkingDays
<1> QED
  BY <1>4 DEF DaysRequested

\* Whether something fits is the same as long as the rows are.
LEMMA FitsStays ==
  ASSUME UNCHANGED leaveVars, NEW type, NEW days, NEW start
  PROVE  Fits(type, days, start)' <=> Fits(type, days, start)
<1>1. Taken(YearOf(start))' = Taken(YearOf(start)) /\ employee' = employee
  BY TakenStays DEF leaveVars
<1> QED
  BY <1>1 DEF Fits

\* What a request reads fits.
LEMMA LeaveRead ==
  ASSUME HandlersInv, LeaveTypeOK, NEW s \in Slots, At(s, "idle"), LeaveRequest(s)
  PROVE  /\ UNCHANGED leaveVars /\ LeaveLocals(s)' /\ LeaveCarried(s)'
         /\ \A r \in Slots \ {s} : slot'[r] = slot[r]
         /\ InTurn' => \A r \in Slots \ {s} : At(r, "idle")
<1>1. ASSUME NEW request, NEW locals, Begin(s, request, locals)
      PROVE  /\ slot'[s] = locals
             /\ \A r \in Slots \ {s} : slot'[r] = slot[r]
             /\ InTurn' => \A r \in Slots \ {s} : At(r, "idle")
  BY <1>1 DEF Begin, InTurn, HandlersInv
<1> DEFINE Goal ==
      /\ UNCHANGED leaveVars /\ LeaveLocals(s)' /\ LeaveCarried(s)'
      /\ \A r \in Slots \ {s} : slot'[r] = slot[r]
      /\ InTurn' => \A r \in Slots \ {s} : At(r, "idle")
<1>2. ASSUME NEW type \in LeaveTypes, NEW start \in Days, NEW end \in Days,
             NEW days \in {1, DaysRequested(start, end)},
             ReadToRequestLeave(s, type, start, end, days)
      PROVE  Goal
  <2>1. PICK row : row = [status |-> "pending", type |-> type, start |-> start, end |-> end,
                          days |-> days]
    OBVIOUS
  <2>2. PICK locals : locals = [step |-> "leave.insert", row |-> row]
    OBVIOUS
  <2>3. Begin(s, "leave.create", locals) /\ UNCHANGED leaveVars
    BY <1>2, <2>1, <2>2 DEF ReadToRequestLeave
  <2>4. row \in LeaveRecords /\ row.status = "pending"
    BY <2>1, SomeDays DEF LeaveRecords, LeaveStatuses
  <2>5. LeaveLocals(s)' /\ LeaveCarried(s)'
    BY <1>1, <2>2, <2>3, <2>4 DEF LeaveLocals, LeaveCarried, At
  <2> QED
    BY <1>1, <2>3, <2>5
<1>3. ASSUME NEW r \in LeaveIds, ReadToWithdrawLeave(s, r) PROVE Goal
  <2>1. PICK locals : locals = [step |-> "leave.delete", id |-> r]
    OBVIOUS
  <2>2. Begin(s, "leave.delete", locals) /\ UNCHANGED leaveVars
    BY <1>3, <2>1 DEF ReadToWithdrawLeave
  <2>3. LeaveLocals(s)' /\ LeaveCarried(s)'
    BY <1>1, <2>1, <2>2 DEF LeaveLocals, LeaveCarried, At
  <2> QED
    BY <1>1, <2>2, <2>3
<1>4. ASSUME NEW r \in LeaveIds, NEW status \in LeaveStatuses, ReadToDecideLeave(s, r, status)
      PROVE  Goal
  <2>1. PICK row : row = [leave[r] EXCEPT !.status = status]
    OBVIOUS
  <2>2. PICK locals : locals = [step |-> "leave.update", id |-> r, row |-> row]
    OBVIOUS
  <2>3. /\ Begin(s, "leave.decide", locals) /\ UNCHANGED leaveVars
        /\ leave[r].status = "pending" /\ OnFile(r)
        /\ status = "approved" => Fits(leave[r].type, leave[r].days, leave[r].start)
    BY <1>4, <2>1, <2>2 DEF ReadToDecideLeave, LeaveTransitions, StillFits
  <2>4. leave[r] \in LeaveRecords
    BY <2>3 DEF LeaveTypeOK, LeaveRecords, OnFile, NoLeave, GoneLeave, LeaveStatuses
  <2>5. /\ row \in LeaveRecords /\ row.status = status /\ row.type = leave[r].type
        /\ row.start = leave[r].start /\ row.days = leave[r].days
    BY <2>1, <2>4 DEF LeaveRecords
  <2>6. slot'[s] = locals /\ UNCHANGED leave
    BY <1>1, <2>3 DEF leaveVars
  <2>7. LeaveLocals(s)'
    BY <2>2, <2>5, <2>6 DEF LeaveLocals, At
  <2>8. status = "approved" => Fits(leave[r].type, leave[r].days, leave[r].start)'
    <3>1. PICK type, days, start : type = leave[r].type /\ days = leave[r].days /\ start = leave[r].start
      OBVIOUS
    <3>2. status = "approved" => Fits(type, days, start)'
      BY <2>3, <3>1, FitsStays
    <3>3. leave'[r].type = type /\ leave'[r].days = days /\ leave'[r].start = start
      BY <2>6, <3>1
    <3> QED
      BY <3>2, <3>3 DEF Fits
  <2>9. LeaveCarried(s)'
    BY <2>2, <2>3, <2>5, <2>6, <2>8 DEF LeaveCarried, At
  <2> QED
    BY <1>1, <2>3, <2>7, <2>9
<1>5. ASSUME NEW status \in EmployeeStatuses, NEW n \in 0..MaxEntitlement,
             ReadToUpdateEmployee(s, status, n)
      PROVE  Goal
  <2>1. PICK locals : locals = [step |-> "employee.update",
                                row |-> [status |-> status, entitlement |-> n]]
    OBVIOUS
  <2>2. Begin(s, "employee.update", locals) /\ UNCHANGED leaveVars
    BY <1>5, <2>1 DEF ReadToUpdateEmployee
  <2>3. LeaveLocals(s)' /\ LeaveCarried(s)'
    BY <1>1, <2>1, <2>2 DEF LeaveLocals, LeaveCarried, At
  <2> QED
    BY <1>1, <2>2, <2>3
<1>6. ASSUME ReadToDeleteEmployee(s) PROVE Goal
  <2>1. PICK locals : locals = [step |-> "employee.delete"]
    OBVIOUS
  <2>2. Begin(s, "employee.delete", locals) /\ UNCHANGED leaveVars
    BY <1>6, <2>1 DEF ReadToDeleteEmployee
  <2>3. LeaveLocals(s)' /\ LeaveCarried(s)'
    BY <1>1, <2>1, <2>2 DEF LeaveLocals, LeaveCarried, At
  <2> QED
    BY <1>1, <2>2, <2>3
<1> HIDE DEF Goal
<1>7. Goal
  BY <1>2, <1>3, <1>4, <1>5, <1>6 DEF LeaveRequest
<1> QED
  BY <1>7 DEF Goal

\* What a request that is on file looks like, and one that is not.
LEMMA LeaveShape ==
  ASSUME LeaveTypeOK, NEW r \in LeaveIds
  PROVE  /\ OnFile(r) => leave[r] \in LeaveRecords /\ employee.status # "gone"
         /\ ~OnFile(r) => leave[r] \in {NoLeave, GoneLeave}
BY DEF LeaveTypeOK, LeaveRecords, OnFile, NoLeave, GoneLeave, LeaveStatuses

\* Only a row of the right shape is written, for an employee who is there.
LEMMA LeaveStepped ==
  ASSUME HandlersInv, LeaveTypeOK, leave = [r \in LeaveIds |-> leave[r]],
         NEW s \in Slots, LeaveLocals(s), LeaveStep(s)
  PROVE  /\ LeaveTypeOK' /\ leave' = [r \in LeaveIds |-> leave'[r]]
         /\ Finish(s) /\ slot[s].step \in LeaveSteps
<1>1. Finish(s) /\ slot[s].step \in LeaveSteps
  BY DEF LeaveStep, InsertLeave, UpdateLeave, DeleteLeave, UpdateEmployee, DeleteEmployee,
         FailLeave, LeaveSteps, At
<1>2. ASSUME NEW i \in LeaveIds, NEW row \in LeaveRecords \cup {GoneLeave},
             leave' = [leave EXCEPT ![i] = row], UNCHANGED employee,
             row = GoneLeave \/ employee.status # "gone"
      PROVE  LeaveTypeOK' /\ leave' = [r \in LeaveIds |-> leave'[r]]
  <2>1. leave'[i] = row /\ \A r \in LeaveIds \ {i} : leave'[r] = leave[r]
    BY <1>2
  <2>2. leave' = [r \in LeaveIds |-> leave'[r]]
    BY <1>2
  <2> QED
    BY <1>2, <2>1, <2>2 DEF LeaveTypeOK, LeaveRecords
<1>3. CASE InsertLeave(s)
  <2> DEFINE i == CHOOSE r \in LeaveIds : leave[r] = NoLeave
  <2>1. i \in LeaveIds /\ leave' = [leave EXCEPT ![i] = slot[s].row]
    BY <1>3 DEF InsertLeave
  <2>2. /\ slot[s].row \in LeaveRecords /\ employee.status # "gone" /\ UNCHANGED employee
    BY <1>3 DEF InsertLeave, LeaveLocals
  <2> QED
    BY <1>1, <1>2, <2>1, <2>2
<1>4. CASE UpdateLeave(s)
  <2>1. /\ slot[s].id \in LeaveIds /\ slot[s].row \in LeaveRecords /\ OnFile(slot[s].id)
        /\ leave' = [leave EXCEPT ![slot[s].id] = slot[s].row] /\ UNCHANGED employee
    BY <1>4 DEF UpdateLeave, LeaveLocals, At
  <2>2. employee.status # "gone"
    BY <2>1, LeaveShape
  <2> QED
    BY <1>1, <1>2, <2>1, <2>2
<1>5. CASE DeleteLeave(s)
  <2>1. /\ slot[s].id \in LeaveIds
        /\ leave' = [leave EXCEPT ![slot[s].id] = GoneLeave] /\ UNCHANGED employee
    BY <1>5 DEF DeleteLeave, LeaveLocals, At
  <2> QED
    BY <1>1, <1>2, <2>1
<1>6. CASE UpdateEmployee(s)
  <2>1. /\ slot[s].row \in [status : EmployeeStatuses, entitlement : 0..MaxEntitlement]
        /\ employee' = slot[s].row /\ UNCHANGED leave
    BY <1>6 DEF UpdateEmployee, LeaveLocals
  <2>2. employee'.status # "gone" /\ employee' \in [status : EmployeeStatuses \cup {"gone"}, entitlement : 0..MaxEntitlement]
    BY <2>1 DEF EmployeeStatuses
  <2> QED
    BY <1>1, <2>1, <2>2 DEF LeaveTypeOK
<1>7. CASE DeleteEmployee(s)
  <2>1. /\ \A r \in LeaveIds : ~OnFile(r)
        /\ employee' = [employee EXCEPT !.status = "gone"] /\ UNCHANGED leave
    BY <1>7 DEF DeleteEmployee, CanDeleteEmployee
  <2>2. \A r \in LeaveIds : leave'[r] \in {NoLeave, GoneLeave}
    BY <2>1, LeaveShape
  <2>3. employee' \in [status : EmployeeStatuses \cup {"gone"}, entitlement : 0..MaxEntitlement]
    BY <2>1 DEF LeaveTypeOK
  <2> QED
    BY <1>1, <2>1, <2>2, <2>3 DEF LeaveTypeOK
<1>8. CASE FailLeave(s)
  BY <1>1, <1>8 DEF FailLeave, leaveVars, LeaveTypeOK
<1> QED
  BY <1>3, <1>4, <1>5, <1>6, <1>7, <1>8 DEF LeaveStep

\* Every step keeps rows and locals in shape and, in turn, decisions good.
LEMMA LeaveInvNext ==
  ASSUME HandlersInv, LeaveInv, [ServiceNext]_ServiceVars
  PROVE  LeaveInv'
<1>1. /\ LeaveTypeOK /\ leave = [r \in LeaveIds |-> leave[r]] /\ \A s \in Slots : LeaveLocals(s)
      /\ InTurn' => InTurn /\ OneBusy /\ \A s \in Slots : LeaveCarried(s)
  BY Undisturbed DEF LeaveInv, HandlersInv
<1>2. ASSUME NEW s \in Slots, slot'[s] = slot[s]
      PROVE  LeaveLocals(s)'
  BY <1>1, <1>2 DEF LeaveLocals, At
<1>3. ASSUME NEW s \in Slots, slot'[s].step \notin LeaveSteps
      PROVE  LeaveLocals(s)' /\ LeaveCarried(s)'
  BY <1>3 DEF LeaveLocals, LeaveCarried, At, LeaveSteps
<1>4. CASE UNCHANGED leaveVars /\ Elsewhere(LeaveSteps)
  <2>1. LeaveTypeOK' /\ leave' = [r \in LeaveIds |-> leave'[r]]
    BY <1>1, <1>4 DEF leaveVars, LeaveTypeOK
  <2>2. ASSUME NEW s \in Slots PROVE LeaveLocals(s)' /\ (LeaveCarried(s) => LeaveCarried(s)')
    <3>1. CASE slot'[s].step \in LeaveSteps
      <4>1. slot'[s] = slot[s] /\ UNCHANGED leave
        BY <1>4, <3>1 DEF Elsewhere, leaveVars
      <4>2. ASSUME LeaveCarried(s) PROVE LeaveCarried(s)'
        <5>1. PICK r : r = leave[slot[s].id]
          OBVIOUS
        <5>2. leave'[slot'[s].id] = r /\ slot'[s] = slot[s]
          BY <4>1, <5>1
        <5>3. Fits(r.type, r.days, r.start)' <=> Fits(r.type, r.days, r.start)
          BY <1>4, FitsStays
        <5> QED
          BY <4>2, <5>1, <5>2, <5>3 DEF LeaveCarried, Fits, At
      <4> QED
        BY <1>2, <4>1, <4>2
    <3> QED
      BY <1>3, <3>1
  <2> QED
    BY <1>1, <2>1, <2>2 DEF LeaveInv
<1>5. ASSUME NEW s \in Slots, \A r \in Slots \ {s} : slot'[r] = slot[r], LeaveLocals(s)'
      PROVE  /\ \A r \in Slots : LeaveLocals(r)'
             /\ (\A r \in Slots \ {s} : At(r, "idle")) /\ LeaveCarried(s)'
                => \A r \in Slots : LeaveCarried(r)'
  BY <1>2, <1>3, <1>5 DEF At, LeaveSteps
<1>6. ASSUME NEW s \in Slots, At(s, "idle"), LeaveRequest(s) PROVE LeaveInv'
  <2>1. /\ UNCHANGED leaveVars /\ LeaveLocals(s)' /\ LeaveCarried(s)'
        /\ \A r \in Slots \ {s} : slot'[r] = slot[r]
        /\ InTurn' => \A r \in Slots \ {s} : At(r, "idle")
    BY <1>1, <1>6, LeaveRead
  <2>2. LeaveTypeOK' /\ leave' = [r \in LeaveIds |-> leave'[r]]
    BY <1>1, <2>1 DEF leaveVars, LeaveTypeOK
  <2> QED
    BY <1>5, <2>1, <2>2 DEF LeaveInv
<1>7. ASSUME NEW s \in Slots, LeaveStep(s) PROVE LeaveInv'
  <2>1. /\ LeaveTypeOK' /\ leave' = [r \in LeaveIds |-> leave'[r]]
        /\ Finish(s) /\ slot[s].step \in LeaveSteps
    BY <1>1, <1>7, LeaveStepped
  <2>2. slot'[s] = Idle /\ \A r \in Slots \ {s} : slot'[r] = slot[r]
    BY <2>1 DEF Finish, Continue, HandlersInv
  <2>3. LeaveLocals(s)' /\ LeaveCarried(s)'
    BY <1>3, <2>2 DEF Idle, LeaveSteps
  <2>4. InTurn' => \A r \in Slots \ {s} : At(r, "idle")
    BY <1>1, <2>1 DEF OneBusy, LeaveSteps, At
  <2> QED
    BY <1>5, <2>1, <2>2, <2>3, <2>4 DEF LeaveInv
<1> QED
  BY <1>4, <1>6, <1>7, NotLeave DEF LeaveNext, Free

\* Nobody has asked for leave yet.
LEMMA LeaveInitially == ServiceInit => LeaveInv
<1> SUFFICES ASSUME ServiceInit PROVE LeaveInv
  OBVIOUS
<1>1. /\ employee = [status |-> "active", entitlement |-> MaxEntitlement]
      /\ leave = [r \in LeaveIds |-> NoLeave]
      /\ slot = [s \in Slots |-> Idle] /\ Idle.step = "idle"
  BY DEF ServiceInit, LeaveInit, RequestsInit, Idle
<1>2. LeaveTypeOK
  BY <1>1, CalendarAssumption DEF LeaveTypeOK, EmployeeStatuses
<1>3. \A s \in Slots : LeaveLocals(s) /\ LeaveCarried(s)
  BY <1>1 DEF LeaveLocals, LeaveCarried, At
<1> QED
  BY <1>1, <1>2, <1>3 DEF LeaveInv

\* No leave is on file for an employee who is gone, and none for less than a day.
LEMMA LeaveAlways == ServiceSpec => []LeaveInv
BY LeaveInitially, HandlersAlways, LeaveInvNext, PTL DEF ServiceSpec

\* As long as requests come one after the other, an approval leaves the year it
\* counts in within the entitlement.
THEOREM LeaveFitsTheEntitlement == ServiceSpec => ApprovalsFitTheEntitlement
<1> DEFINE Within ==
      InTurn' => \A year \in {1, 2} :
        Taken(year)' > Taken(year) => Taken(year)' <= employee.entitlement
<1>1. HandlersInv /\ LeaveInv /\ [ServiceNext]_ServiceVars => [Within]_<<leave, disturbed>>
  <2> SUFFICES ASSUME HandlersInv, LeaveInv, [ServiceNext]_ServiceVars, InTurn',
                      NEW year \in {1, 2}, Taken(year)' > Taken(year)
               PROVE  Taken(year)' <= employee.entitlement
    OBVIOUS
  <2>1. /\ LeaveTypeOK /\ leave = [r \in LeaveIds |-> leave[r]] /\ \A s \in Slots : LeaveLocals(s)
        /\ \A s \in Slots : LeaveCarried(s)
    BY Undisturbed DEF LeaveInv
  <2>2. Taken(year) \in Nat
    BY <2>1, ApprovedTyped
  <2>3. leave' # leave
    BY <2>2, TakenStays
  <2>4. PICK s \in Slots : InsertLeave(s) \/ UpdateLeave(s) \/ DeleteLeave(s)
    <3>1. LeaveNext
      BY <2>3, NotLeave DEF leaveVars
    <3>2. ASSUME NEW s \in Slots, Free(s), LeaveRequest(s) PROVE FALSE
      BY <2>1, <2>3, <3>2, LeaveRead DEF Free, leaveVars
    <3>3. ASSUME NEW s \in Slots, UpdateEmployee(s) \/ DeleteEmployee(s) \/ FailLeave(s) PROVE FALSE
      BY <2>3, <3>3 DEF UpdateEmployee, DeleteEmployee, FailLeave, leaveVars
    <3> QED
      BY <3>1, <3>2, <3>3 DEF LeaveNext, LeaveStep
  <2>5. CASE InsertLeave(s)
    <3> DEFINE i == CHOOSE r \in LeaveIds : leave[r] = NoLeave
    <3>1. /\ i \in LeaveIds /\ leave[i] = NoLeave
          /\ leave' = [leave EXCEPT ![i] = slot[s].row]
      BY <2>5 DEF InsertLeave
    <3>2. slot[s].row \in LeaveRecords /\ slot[s].row.status # "approved"
      BY <2>1, <2>5 DEF InsertLeave, LeaveLocals
    <3>3. leave[i].status # "approved"
      BY <3>1 DEF NoLeave
    <3> HIDE DEF i
    <3>4. Taken(year)' = Taken(year)
      BY <2>1, <3>1, <3>2, <3>3, TakenWritten
    <3> QED
      BY <2>2, <3>4
  <2>6. CASE UpdateLeave(s)
    <3> DEFINE i == slot[s].id
               row == slot[s].row
               r == leave[i]
    <3>1. /\ At(s, "leave.update") /\ i \in LeaveIds /\ row \in LeaveRecords
          /\ leave' = [leave EXCEPT ![i] = row]
      BY <2>1, <2>6 DEF UpdateLeave, LeaveLocals, At
    <3>2. /\ r.status = "pending"
          /\ row.type = r.type /\ row.start = r.start /\ row.days = r.days
          /\ row.status = "approved" => Fits(r.type, r.days, r.start)
      BY <2>1, <3>1 DEF LeaveCarried
    <3> HIDE DEF i, row, r
    <3>3. leave[i].status # "approved"
      BY <3>2 DEF r
    <3>4. /\ row.status = "approved" /\ CountsAgainstEntitlement(row.type)
          /\ YearOf(row.start) = year
          /\ Taken(year)' = Taken(year) + row.days
      BY <2>1, <2>2, <3>1, <3>3, TakenWritten
    <3>5. row.days <= employee.entitlement - Taken(year)
      BY <3>2, <3>4 DEF Fits
    <3>6. row.days \in Nat /\ employee.entitlement \in Nat
      BY <2>1, <3>1, CalendarAssumption DEF LeaveRecords, LeaveTypeOK
    <3> QED
      BY <2>2, <3>4, <3>5, <3>6
  <2>7. CASE DeleteLeave(s)
    <3>1. slot[s].id \in LeaveIds /\ leave' = [leave EXCEPT ![slot[s].id] = GoneLeave]
      BY <2>1, <2>7 DEF DeleteLeave, LeaveLocals, At
    <3> QED
      BY <2>1, <3>1, TakenDeleted
  <2> QED
    BY <2>4, <2>5, <2>6, <2>7
<1> QED
  BY <1>1, LeaveAlways, HandlersAlways, PTL DEF ServiceSpec, ApprovalsFitTheEntitlement

-----------------------------------------------------------------------------
(* Walks up a tree *)

\* Of some numbers one is the least.
LEMMA LeastNumber ==
  ASSUME NEW S \in SUBSET Nat, S # {}
  PROVE  \E n \in S : \A m \in S : n <= m
<1>1. PICK n \in S : \A m \in S : ~(<<m, n>> \in OpToRel(<, Nat))
  BY NatLessThanWellFounded, WFMin
<1>2. \A m \in S : ~(m < n)
  BY <1>1 DEF OpToRel
<1> QED
  BY <1>2

\* What holds of 0, and of the next number with every number, holds of all.
LEMMA FromZero ==
  ASSUME NEW S, 0 \in S, \A n \in Nat : n \in S => n + 1 \in S
  PROVE  \A n \in Nat : n \in S
<1> SUFFICES ASSUME NEW m \in Nat, m \notin S PROVE FALSE
  OBVIOUS
<1>1. PICK n \in {i \in Nat : i \notin S} : \A i \in {j \in Nat : j \notin S} : n <= i
  BY LeastNumber
<1>2. n # 0 /\ n - 1 \in Nat /\ ~(n <= n - 1)
  BY <1>1
<1>3. n - 1 \in S /\ n = (n - 1) + 1
  BY <1>1, <1>2
<1> QED
  BY <1>1, <1>2, <1>3

\* A tree of rows: each has its parent among them, or none.
IsParents(parent, rows) ==
  NoParent \notin rows /\ parent \in [rows -> rows \cup {NoParent}]

\* n steps up from x, each from a row to its parent, lead to y.
IsWalk(parent, rows, p, n) ==
  p \in [0..n -> rows] /\ \A i \in 0..(n - 1) : p[i + 1] = parent[p[i]]

Reaches(parent, rows, x, y, n) ==
  \E p \in [0..n -> rows] : IsWalk(parent, rows, p, n) /\ p[0] = x /\ p[n] = y

\* A walk of no step stays; one of a step more takes it from where the others lead.
LEMMA ReachesMore ==
  ASSUME NEW rows, NEW parent, IsParents(parent, rows), NEW x \in rows
  PROVE  /\ \A y \in rows : Reaches(parent, rows, x, y, 0) <=> x = y
         /\ \A n \in Nat, y \in rows :
              Reaches(parent, rows, x, y, n + 1) <=>
                \E z \in rows : Reaches(parent, rows, x, z, n) /\ y = parent[z]
<1>1. ASSUME NEW y \in rows PROVE Reaches(parent, rows, x, y, 0) <=> x = y
  <2>1. ASSUME x = y PROVE Reaches(parent, rows, x, y, 0)
    <3> DEFINE p == [i \in 0..0 |-> x]
    <3>1. p \in [0..0 -> rows] /\ p[0] = x
      OBVIOUS
    <3>2. \A i \in 0..(0 - 1) : p[i + 1] = parent[p[i]]
      OBVIOUS
    <3> HIDE DEF p
    <3> QED
      BY <2>1, <3>1, <3>2 DEF Reaches, IsWalk
  <2> QED
    BY <2>1 DEF Reaches
<1>2. ASSUME NEW n \in Nat, NEW y \in rows, Reaches(parent, rows, x, y, n + 1)
      PROVE  \E z \in rows : Reaches(parent, rows, x, z, n) /\ y = parent[z]
  <2>1. PICK p \in [0..(n + 1) -> rows] :
          /\ \A i \in 0..n : p[i + 1] = parent[p[i]]
          /\ p[0] = x /\ p[n + 1] = y
    BY <1>2 DEF Reaches, IsWalk
  <2> DEFINE q == [i \in 0..n |-> p[i]]
  <2>2. q \in [0..n -> rows] /\ q[0] = x /\ q[n] = p[n]
    BY <2>1
  <2>3. \A i \in 0..(n - 1) : q[i + 1] = parent[q[i]]
    BY <2>1
  <2>4. Reaches(parent, rows, x, p[n], n)
    BY <2>2, <2>3 DEF Reaches, IsWalk
  <2> QED
    BY <2>1, <2>2, <2>4
<1>3. ASSUME NEW n \in Nat, NEW y \in rows, NEW z \in rows,
             Reaches(parent, rows, x, z, n), y = parent[z]
      PROVE  Reaches(parent, rows, x, y, n + 1)
  <2>1. PICK p \in [0..n -> rows] :
          /\ \A i \in 0..(n - 1) : p[i + 1] = parent[p[i]]
          /\ p[0] = x /\ p[n] = z
    BY <1>3 DEF Reaches, IsWalk
  <2> DEFINE q == [i \in 0..(n + 1) |-> IF i = n + 1 THEN y ELSE p[i]]
  <2>2. q \in [0..(n + 1) -> rows] /\ q[0] = x /\ q[n + 1] = y
    BY <2>1
  <2>3. \A i \in 0..n : q[i + 1] = parent[q[i]]
    BY <1>3, <2>1
  <2>4. (n + 1) - 1 = n /\ n + 1 \in Nat
    OBVIOUS
  <2> HIDE DEF q
  <2> QED
    BY <2>2, <2>3, <2>4 DEF Reaches, IsWalk
<1> QED
  BY <1>1, <1>2, <1>3

\* A piece of a walk is a walk.
LEMMA WalksHavePieces ==
  ASSUME NEW rows, NEW parent, NEW n \in Nat, NEW p, IsWalk(parent, rows, p, n),
         NEW i \in 0..n, NEW j \in i..n
  PROVE  Reaches(parent, rows, p[i], p[j], j - i)
<1> DEFINE m == j - i
           q == [k \in 0..m |-> p[i + k]]
<1>1. m \in Nat /\ \A k \in 0..m : i + k \in 0..n
  OBVIOUS
<1>2. q \in [0..m -> rows] /\ q[0] = p[i] /\ q[m] = p[j]
  BY <1>1 DEF IsWalk
<1>3. ASSUME NEW k \in 0..(m - 1) PROVE q[k + 1] = parent[q[k]]
  <2>1. k \in 0..m /\ k + 1 \in 0..m /\ i + k \in 0..(n - 1) /\ i + (k + 1) = (i + k) + 1
    BY <1>1
  <2>2. q[k] = p[i + k] /\ q[k + 1] = p[(i + k) + 1]
    BY <2>1
  <2>3. p[(i + k) + 1] = parent[p[i + k]]
    BY <2>1 DEF IsWalk
  <2> QED
    BY <2>2, <2>3
<1> HIDE DEF q
<1> QED
  BY <1>1, <1>2, <1>3 DEF Reaches, IsWalk

\* What the function that Met defines has to be.
IsMet(g, parent, row, hops) ==
  g = [n \in 0..hops |->
         IF n = 0 THEN {row}
         ELSE LET before == g[n - 1]
              IN  before \cup ({parent[r] : r \in before} \ {NoParent})]

\* What the code finds on a walk up is that function at the last hop.
LEMMA MetUnfolded ==
  ASSUME NEW parent, NEW row, NEW hops
  PROVE  Met(parent, row, hops) = (CHOOSE g : IsMet(g, parent, row, hops))[hops]
BY DEF Met, IsMet

\* A walk up a tree meets what so many steps lead to.
LEMMA MetIsReached ==
  ASSUME NEW rows, NEW parent, IsParents(parent, rows), NEW x \in rows, NEW hops \in Nat
  PROVE  Met(parent, x, hops) =
           {y \in rows : \E k \in 0..hops : Reaches(parent, rows, x, y, k)}
<1> DEFINE R(n) == {y \in rows : \E k \in 0..n : Reaches(parent, rows, x, y, k)}
           f == [n \in 0..hops |-> R(n)]
<1>1. R(0) = {x}
  <2>1. \A y \in rows : y \in R(0) <=> Reaches(parent, rows, x, y, 0)
    OBVIOUS
  <2> QED
    BY <2>1, ReachesMore
<1>2. ASSUME NEW n \in Nat
      PROVE  R(n + 1) = R(n) \cup ({parent[r] : r \in R(n)} \ {NoParent})
  <2>1. ASSUME NEW y \in R(n + 1) PROVE y \in R(n) \cup ({parent[r] : r \in R(n)} \ {NoParent})
    <3>1. PICK k \in 0..(n + 1) : Reaches(parent, rows, x, y, k)
      BY <2>1
    <3>2. CASE k \in 0..n
      BY <2>1, <3>1, <3>2
    <3>3. CASE k = n + 1
      <4>1. PICK z \in rows : Reaches(parent, rows, x, z, n) /\ y = parent[z]
        BY <2>1, <3>1, <3>3, ReachesMore
      <4>2. z \in R(n)
        BY <4>1
      <4> QED
        BY <2>1, <4>1, <4>2 DEF IsParents
    <3> QED
      BY <3>1, <3>2, <3>3
  <2>2. ASSUME NEW y \in R(n) PROVE y \in R(n + 1)
    BY <2>2
  <2>3. ASSUME NEW z \in R(n), parent[z] # NoParent PROVE parent[z] \in R(n + 1)
    <3>1. PICK k \in 0..n : Reaches(parent, rows, x, z, k)
      BY <2>3
    <3>2. parent[z] \in rows
      BY <2>3 DEF IsParents
    <3>3. Reaches(parent, rows, x, parent[z], k + 1)
      BY <3>1, <3>2, ReachesMore
    <3> QED
      BY <3>2, <3>3
  <2> HIDE DEF R
  <2> QED
    BY <2>1, <2>2, <2>3
<1> HIDE DEF R
<1>3. IsMet(f, parent, x, hops)
  <2>1. ASSUME NEW n \in 0..hops
        PROVE  R(n) = IF n = 0 THEN {x}
                      ELSE LET before == f[n - 1]
                           IN  before \cup ({parent[r] : r \in before} \ {NoParent})
    <3>1. CASE n = 0
      BY <1>1, <3>1
    <3>2. CASE n # 0
      <4>1. n - 1 \in Nat /\ n - 1 \in 0..hops /\ (n - 1) + 1 = n
        BY <3>2
      <4>2. R(n) = R(n - 1) \cup ({parent[r] : r \in R(n - 1)} \ {NoParent})
        BY <1>2, <4>1
      <4> QED
        BY <3>2, <4>1, <4>2
    <3> QED
      BY <3>1, <3>2
  <2> QED
    BY <2>1 DEF IsMet
<1> DEFINE g == CHOOSE h : IsMet(h, parent, x, hops)
<1>4. IsMet(g, parent, x, hops)
  BY <1>3
<1> HIDE DEF g
<1> DEFINE Same == {n \in Nat : n \in 0..hops => g[n] = R(n)}
<1>5. 0 \in Same
  BY <1>1, <1>4 DEF IsMet
<1>6. ASSUME NEW n \in Nat, n \in Same PROVE n + 1 \in Same
  <2>1. CASE n + 1 \in 0..hops
    <3>1. /\ n \in 0..hops /\ n + 1 # 0 /\ (n + 1) - 1 = n
          /\ g[n] = R(n)
      BY <1>6, <2>1
    <3>2. g[n + 1] = g[n] \cup ({parent[r] : r \in g[n]} \ {NoParent})
      BY <1>4, <2>1, <3>1 DEF IsMet
    <3>3. g[n + 1] = R(n + 1)
      BY <1>2, <3>1, <3>2
    <3> QED
      BY <3>3
  <2> QED
    BY <2>1
<1>7. \A n \in Nat : n \in Same
  <2> HIDE DEF Same
  <2> QED
    BY <1>5, <1>6, FromZero
<1>8. g[hops] = R(hops)
  BY <1>7
<1> QED
  BY <1>8, MetUnfolded DEF g, R

\* A step more takes a walk from the parent of where it starts, too.
LEMMA ReachesFirst ==
  ASSUME NEW rows, NEW parent, IsParents(parent, rows), NEW x \in rows, NEW y \in rows,
         NEW n \in Nat
  PROVE  Reaches(parent, rows, x, y, n + 1) <=>
           parent[x] # NoParent /\ Reaches(parent, rows, parent[x], y, n)
<1>1. ASSUME Reaches(parent, rows, x, y, n + 1)
      PROVE  parent[x] # NoParent /\ Reaches(parent, rows, parent[x], y, n)
  <2>1. PICK p \in [0..(n + 1) -> rows] :
          IsWalk(parent, rows, p, n + 1) /\ p[0] = x /\ p[n + 1] = y
    BY <1>1 DEF Reaches
  <2>2. p[1] = parent[x] /\ p[1] \in rows
    <3>1. 0 \in 0..((n + 1) - 1) /\ 0 + 1 = 1 /\ 1 \in 0..(n + 1)
      OBVIOUS
    <3> QED
      BY <2>1, <3>1 DEF IsWalk
  <2>3. Reaches(parent, rows, p[1], p[n + 1], (n + 1) - 1)
    <3>1. n + 1 \in Nat /\ 1 \in 0..(n + 1) /\ n + 1 \in 1..(n + 1)
      OBVIOUS
    <3> QED
      BY <2>1, <3>1, WalksHavePieces, Zenon
  <2>4. (n + 1) - 1 = n
    OBVIOUS
  <2> QED
    BY <2>1, <2>2, <2>3, <2>4 DEF IsParents
<1>2. ASSUME parent[x] # NoParent, Reaches(parent, rows, parent[x], y, n)
      PROVE  Reaches(parent, rows, x, y, n + 1)
  <2>1. PICK p \in [0..n -> rows] :
          IsWalk(parent, rows, p, n) /\ p[0] = parent[x] /\ p[n] = y
    BY <1>2 DEF Reaches
  <2> DEFINE q == [i \in 0..(n + 1) |-> IF i = 0 THEN x ELSE p[i - 1]]
  <2>2. q \in [0..(n + 1) -> rows] /\ q[0] = x /\ q[n + 1] = y
    BY <2>1
  <2>3. ASSUME NEW i \in 0..((n + 1) - 1) PROVE q[i + 1] = parent[q[i]]
    <3>1. CASE i = 0
      BY <2>1, <3>1
    <3>2. CASE i # 0
      <4>1. i - 1 \in 0..(n - 1) /\ (i - 1) + 1 = i /\ (i + 1) - 1 = i
        BY <3>2
      <4>2. p[(i - 1) + 1] = parent[p[i - 1]]
        BY <2>1, <4>1 DEF IsWalk
      <4>3. q[i + 1] = p[i] /\ q[i] = p[i - 1]
        BY <3>2, <4>1
      <4> QED
        BY <4>1, <4>2, <4>3
    <3> QED
      BY <3>1, <3>2
  <2> HIDE DEF q
  <2> QED
    BY <2>2, <2>3 DEF Reaches, IsWalk
<1> QED
  BY <1>1, <1>2

\* No row leads back to itself in as many steps as a walk up takes, and one.
NoLoops(parent, rows) ==
  \A r \in rows : \A n \in 1..(MaxHops + 1) : ~Reaches(parent, rows, r, r, n)

\* That is what a forest is, when rows that are not on file have no parents.
LEMMA ForestHasNoLoops ==
  ASSUME NEW rows, NEW parent, IsParents(parent, rows), NEW filed \in SUBSET rows,
         \A r \in rows \ filed : parent[r] = NoParent
  PROVE  IsForest(parent, filed) <=> NoLoops(parent, rows)
<1>1. \A r \in rows : parent[r] # NoParent => r \in filed /\ parent[r] \in rows
  BY DEF IsParents
<1>2. \A r \in rows : parent[r] # NoParent =>
        (r \in Met(parent, parent[r], MaxHops) <=>
           \E k \in 0..MaxHops : Reaches(parent, rows, parent[r], r, k))
  BY <1>1, MetIsReached, MaxHopsAssumption
<1>3. \A r \in rows : \A k \in Nat :
        Reaches(parent, rows, r, r, k + 1) <=>
          parent[r] # NoParent /\ Reaches(parent, rows, parent[r], r, k)
  BY ReachesFirst
<1>4. ASSUME IsForest(parent, filed), NEW r \in rows, NEW n \in 1..(MaxHops + 1),
             Reaches(parent, rows, r, r, n)
      PROVE  FALSE
  <2>1. n - 1 \in 0..MaxHops /\ n - 1 \in Nat /\ (n - 1) + 1 = n
    BY MaxHopsAssumption
  <2>2. parent[r] # NoParent /\ Reaches(parent, rows, parent[r], r, n - 1)
    BY <1>3, <1>4, <2>1
  <2> QED
    BY <1>1, <1>2, <1>4, <2>1, <2>2 DEF IsForest
<1>5. ASSUME NoLoops(parent, rows), NEW r \in filed, parent[r] # NoParent,
             r \in Met(parent, parent[r], MaxHops)
      PROVE  FALSE
  <2>1. PICK k \in 0..MaxHops : Reaches(parent, rows, parent[r], r, k)
    BY <1>2, <1>5
  <2>2. k + 1 \in 1..(MaxHops + 1) /\ k \in Nat
    BY MaxHopsAssumption
  <2>3. Reaches(parent, rows, r, r, k + 1)
    BY <1>3, <1>5, <2>1, <2>2
  <2> QED
    BY <1>5, <2>2, <2>3 DEF NoLoops
<1> QED
  BY <1>4, <1>5 DEF IsForest, NoLoops

\* A row is hung under another that does not lead to it: still no row leads back
\* to itself.  A loop there was would lead from the new parent to the row,
\* without the step that is new.
LEMMA Rehung ==
  ASSUME NEW rows, NEW parent, IsParents(parent, rows), NoLoops(parent, rows),
         NEW a \in rows, NEW under \in rows \cup {NoParent},
         \A k \in 0..MaxHops : ~Reaches(parent, rows, under, a, k)
  PROVE  /\ IsParents([parent EXCEPT ![a] = under], rows)
         /\ NoLoops([parent EXCEPT ![a] = under], rows)
<1> DEFINE new == [parent EXCEPT ![a] = under]
<1>1. IsParents(new, rows) /\ new[a] = under /\ \A r \in rows \ {a} : new[r] = parent[r]
  BY DEF IsParents
<1> HIDE DEF new
<1>2. ASSUME NEW r \in rows, NEW n \in 1..(MaxHops + 1), Reaches(new, rows, r, r, n)
      PROVE  FALSE
  <2>1. PICK p \in [0..n -> rows] :
          /\ \A i \in 0..(n - 1) : p[i + 1] = new[p[i]]
          /\ p[0] = r /\ p[n] = r
    BY <1>2 DEF Reaches, IsWalk
  <2>2. n \in Nat /\ n >= 1 /\ n <= MaxHops + 1 /\ MaxHops \in Nat
    BY MaxHopsAssumption
  <2>3. CASE \A i \in 0..(n - 1) : p[i] # a
    <3>1. \A i \in 0..(n - 1) : p[i + 1] = parent[p[i]]
      BY <1>1, <2>1, <2>2, <2>3
    <3>2. Reaches(parent, rows, r, r, n)
      BY <2>1, <2>2, <3>1 DEF Reaches, IsWalk
    <3> QED
      BY <3>2 DEF NoLoops
  <2>4. CASE \E i \in 0..(n - 1) : p[i] = a
    <3>1. PICK i \in 0..(n - 1) : p[i] = a
      BY <2>4
    <3> DEFINE v == [k \in 0..(n - 1) |-> IF i + 1 + k <= n THEN p[i + 1 + k]
                                                           ELSE p[i + 1 + k - n]]
    <3>2. v \in [0..(n - 1) -> rows]
      BY <2>1, <2>2
    <3>3. v[0] = under
      BY <1>1, <2>1, <2>2, <3>1
    <3>4. v[n - 1] = a
      <4>1. CASE i = 0
        BY <2>1, <2>2, <3>1, <4>1
      <4>2. CASE i # 0
        <5>1. ~(i + 1 + (n - 1) <= n) /\ i + 1 + (n - 1) - n = i
          BY <2>2, <4>2
        <5> QED
          BY <2>2, <3>1, <5>1
      <4> QED
        BY <4>1, <4>2
    <3>5. ASSUME NEW k \in 0..(n - 2) PROVE v[k + 1] = new[v[k]]
      <4>1. k \in 0..(n - 1) /\ k + 1 \in 0..(n - 1)
        BY <2>2
      <4>2. CASE i + 1 + k < n
        <5>1. /\ v[k] = p[i + 1 + k] /\ v[k + 1] = p[(i + 1 + k) + 1]
              /\ i + 1 + k \in 0..(n - 1)
          BY <2>2, <4>1, <4>2
        <5> QED
          BY <2>1, <5>1
      <4>3. CASE i + 1 + k = n
        <5>1. v[k] = p[n] /\ v[k + 1] = p[1] /\ 0 \in 0..(n - 1)
          BY <2>2, <4>1, <4>3
        <5>2. p[1] = new[p[0]] /\ p[n] = p[0]
          BY <2>1, <5>1
        <5> HIDE DEF v
        <5> QED
          BY <5>1, <5>2
      <4>4. CASE i + 1 + k > n
        <5>1. /\ v[k] = p[i + 1 + k - n] /\ v[k + 1] = p[(i + 1 + k - n) + 1]
              /\ i + 1 + k - n \in 0..(n - 1)
          BY <2>2, <4>1, <4>4
        <5> QED
          BY <2>1, <5>1
      <4> QED
        BY <2>2, <4>1, <4>2, <4>3, <4>4
    <3> HIDE DEF v
    <3>6. n - 1 \in {k \in Nat : k \in 0..(n - 1) /\ v[k] = a}
      BY <2>2, <3>4
    <3>7. PICK m \in {k \in Nat : k \in 0..(n - 1) /\ v[k] = a} :
            \A k \in {l \in Nat : l \in 0..(n - 1) /\ v[l] = a} : m <= k
      <4> DEFINE Ends == {k \in Nat : k \in 0..(n - 1) /\ v[k] = a}
      <4>1. Ends \in SUBSET Nat /\ Ends # {}
        BY <3>6
      <4> HIDE DEF Ends
      <4>2. PICK m \in Ends : \A k \in Ends : m <= k
        BY <4>1, LeastNumber
      <4> QED
        BY <4>2 DEF Ends
    <3>8. m \in 0..MaxHops /\ m \in 0..(n - 1) /\ v[m] = a
      BY <2>2, <3>7
    <3>9. ASSUME NEW k \in 0..(m - 1) PROVE v[k + 1] = parent[v[k]]
      <4>1. k \in 0..(n - 1) /\ k \in 0..(n - 2) /\ k \in Nat /\ ~(m <= k)
        BY <2>2, <3>8
      <4>2. v[k] # a /\ v[k] \in rows
        BY <3>2, <3>7, <4>1
      <4> QED
        BY <1>1, <3>5, <4>1, <4>2
    <3> DEFINE q == [k \in 0..m |-> v[k]]
    <3>10. /\ q \in [0..m -> rows] /\ q[0] = under /\ q[m] = a
           /\ \A k \in 0..(m - 1) : q[k + 1] = parent[q[k]]
      <4>1. \A k \in 0..m : k \in 0..(n - 1)
        BY <2>2, <3>8
      <4>2. 0 \in 0..m /\ m \in 0..m
        BY <2>2, <3>8
      <4> QED
        BY <3>2, <3>3, <3>8, <3>9, <4>1, <4>2
    <3> HIDE DEF q
    <3>11. Reaches(parent, rows, under, a, m)
      BY <3>10 DEF Reaches, IsWalk
    <3> QED
      BY <3>8, <3>11
  <2> QED
    BY <2>3, <2>4
<1> QED
  BY <1>1, <1>2 DEF NoLoops, new

\* Rows that become roots make no loop.
LEMMA Unhung ==
  ASSUME NEW rows, NEW parent, IsParents(parent, rows), NoLoops(parent, rows),
         NEW new \in [rows -> rows \cup {NoParent}],
         \A r \in rows : new[r] \in {parent[r], NoParent}
  PROVE  IsParents(new, rows) /\ NoLoops(new, rows)
<1>1. ASSUME NEW r \in rows, NEW n \in 1..(MaxHops + 1), Reaches(new, rows, r, r, n)
      PROVE  FALSE
  <2>1. PICK p \in [0..n -> rows] :
          /\ \A i \in 0..(n - 1) : p[i + 1] = new[p[i]]
          /\ p[0] = r /\ p[n] = r
    BY <1>1 DEF Reaches, IsWalk
  <2>2. n \in Nat
    BY MaxHopsAssumption
  <2>3. ASSUME NEW i \in 0..(n - 1) PROVE p[i + 1] = parent[p[i]]
    <3>1. i \in 0..n /\ i + 1 \in 0..n
      BY <2>2
    <3>2. p[i] \in rows /\ p[i + 1] \in rows /\ p[i + 1] = new[p[i]]
      BY <2>1, <3>1
    <3> QED
      BY <3>2 DEF IsParents
  <2>4. Reaches(parent, rows, r, r, n)
    BY <2>1, <2>3 DEF Reaches, IsWalk
  <2> QED
    BY <2>4 DEF NoLoops
<1> QED
  BY <1>1 DEF NoLoops, IsParents

\* So many rows hang under each other that a walk up from the first gives up.
IsDeep(parent, rows) ==
  \E p \in [0..(MaxHops + 1) -> rows] :
    /\ IsWalk(parent, rows, p, MaxHops + 1)
    /\ \A i, j \in 0..(MaxHops + 1) : p[i] = p[j] => i = j

\* Where no row leads back to itself, a walk up from any meets a root, unless so
\* many rows hang under each other that it gives up.
LEMMA RootsAreMet ==
  ASSUME NEW rows, NEW parent, IsParents(parent, rows), NoLoops(parent, rows),
         ~IsDeep(parent, rows), NEW x \in rows
  PROVE  \E r \in Met(parent, x, MaxHops) : parent[r] = NoParent
<1> SUFFICES ASSUME \A r \in Met(parent, x, MaxHops) : parent[r] # NoParent PROVE FALSE
  OBVIOUS
<1>1. \A y \in rows : \A k \in 0..MaxHops :
        Reaches(parent, rows, x, y, k) => parent[y] # NoParent
  BY MetIsReached, MaxHopsAssumption
<1> DEFINE Far == {n \in Nat : n <= MaxHops + 1 => \E y \in rows : Reaches(parent, rows, x, y, n)}
<1>2. 0 \in Far
  BY ReachesMore
<1>3. ASSUME NEW n \in Nat, n \in Far PROVE n + 1 \in Far
  <2>1. SUFFICES ASSUME n + 1 <= MaxHops + 1
                 PROVE  \E y \in rows : Reaches(parent, rows, x, y, n + 1)
    OBVIOUS
  <2>2. n \in 0..MaxHops /\ n <= MaxHops + 1
    BY <2>1, MaxHopsAssumption
  <2>3. PICK y \in rows : Reaches(parent, rows, x, y, n)
    BY <1>3, <2>2
  <2>4. parent[y] \in rows
    BY <1>1, <2>2, <2>3 DEF IsParents
  <2>5. Reaches(parent, rows, x, parent[y], n + 1)
    BY <2>3, <2>4, ReachesMore
  <2> QED
    BY <2>4, <2>5
<1>4. MaxHops + 1 \in Far
  <2>1. \A n \in Nat : n \in Far
    <3> HIDE DEF Far
    <3> QED
      BY <1>2, <1>3, FromZero
  <2> QED
    BY <2>1, MaxHopsAssumption
<1> DEFINE h == MaxHops + 1
<1>5. PICK p \in [0..h -> rows] : IsWalk(parent, rows, p, h)
  BY <1>4, MaxHopsAssumption DEF Reaches
<1>6. h \in Nat
  BY MaxHopsAssumption
<1>7. PICK i \in 0..h, j \in 0..h : i # j /\ p[i] = p[j]
  BY <1>5 DEF IsDeep
<1> HIDE DEF h
<1>8. ASSUME NEW k \in 0..h, NEW l \in 0..h, k < l, p[k] = p[l] PROVE FALSE
  <2>1. l \in k..h /\ l - k \in 1..h
    BY <1>6, <1>8
  <2>2. Reaches(parent, rows, p[k], p[l], l - k)
    BY <1>5, <1>6, <2>1, WalksHavePieces
  <2>3. p[k] \in rows
    OBVIOUS
  <2> QED
    BY <1>8, <2>1, <2>2, <2>3 DEF NoLoops, h
<1>9. i < j \/ j < i
  BY <1>6, <1>7
<1> QED
  BY <1>7, <1>8, <1>9

-----------------------------------------------------------------------------
(* The chart of accounts: rows, locals, and no loops *)

ChartRecords ==
  [state : {"none", "active", "inactive", "gone"}, parent : AccountIds \cup {NoParent}]

\* Whatever overlaps: an account that others hang under, or that has entries,
\* stays on file.
ChartRows ==
  /\ chart \in [AccountIds -> ChartRecords]
  /\ \A a \in AccountIds \ AccountsOnFile : chart[a].parent = NoParent
  /\ \A a \in AccountsOnFile : chart[a].parent \in AccountsOnFile \cup {NoParent}
  /\ entered \subseteq AccountsOnFile

ChartLocals(s) ==
  /\ slot[s].step \in {"account.write", "account.delete"} => slot[s].id \in AccountIds
  /\ At(s, "account.write") =>
       slot[s].row \in [state : {"active", "inactive"}, parent : AccountIds \cup {NoParent}]

\* In turn: the parent that is written is the one the row has, or one that does
\* not lead back to it.
ChartCarried(s) ==
  At(s, "account.write") =>
    \/ slot[s].row.parent = chart[slot[s].id].parent
    \/ \A k \in 0..MaxHops :
         ~Reaches(AccountParents, AccountIds, slot[s].row.parent, slot[s].id, k)

ChartInv ==
  /\ ChartRows
  /\ \A s \in Slots : ChartLocals(s)
  /\ InTurn => /\ NoLoops(AccountParents, AccountIds)
               /\ \A s \in Slots : ChartCarried(s)

\* The rows of accounts are a tree of parents.
LEMMA ChartIsParents ==
  ASSUME ChartRows
  PROVE  /\ IsParents(AccountParents, AccountIds)
         /\ \A a \in AccountIds \ AccountsOnFile : AccountParents[a] = NoParent
         /\ \A a \in AccountIds : AccountParents[a] = chart[a].parent
BY AccountIdsAssumption DEF ChartRows, ChartRecords, AccountParents, IsParents

\* What a handler reads before its first write.
LEMMA ChartRead ==
  ASSUME HandlersInv, ChartRows, NEW s \in Slots, At(s, "idle"), ChartRequest(s)
  PROVE  /\ UNCHANGED chartVars /\ ChartLocals(s)' /\ ChartCarried(s)'
         /\ \A r \in Slots \ {s} : slot'[r] = slot[r]
         /\ InTurn' => \A r \in Slots \ {s} : At(r, "idle")
<1> DEFINE Goal == /\ UNCHANGED chartVars /\ ChartLocals(s)' /\ ChartCarried(s)'
                   /\ \A r \in Slots \ {s} : slot'[r] = slot[r]
                   /\ InTurn' => \A r \in Slots \ {s} : At(r, "idle")
<1>1. ASSUME NEW request, NEW locals, Begin(s, request, locals)
      PROVE  /\ slot'[s] = locals /\ \A r \in Slots \ {s} : slot'[r] = slot[r]
             /\ InTurn' => \A r \in Slots \ {s} : At(r, "idle")
  BY <1>1 DEF Begin, HandlersInv, InTurn
<1>2. ASSUME NEW parent, ReadToOpenAccount(s, parent) PROVE Goal
  BY <1>1, <1>2 DEF ReadToOpenAccount, ChartLocals, ChartCarried, At
<1>3. ASSUME NEW a \in AccountIds, NEW parent \in AccountIds, ReadToMoveAccount(s, a, parent)
      PROVE  Goal
  <2> DEFINE row == [chart[a] EXCEPT !.parent = parent]
  <2>1. /\ a \in AccountsOnFile /\ ~WouldLoop(AccountParents, a, parent) /\ UNCHANGED chartVars
        /\ Begin(s, "account.move", [step |-> "account.write", id |-> a, row |-> row])
    BY <1>3 DEF ReadToMoveAccount
  <2>2. /\ row \in [state : {"active", "inactive"}, parent : AccountIds \cup {NoParent}]
        /\ row.parent = parent
    <3>1. chart[a] \in ChartRecords /\ chart[a].state \in {"active", "inactive"}
      BY <2>1 DEF ChartRows, AccountsOnFile
    <3> QED
      BY <3>1 DEF ChartRecords
  <2>3. \A k \in 0..MaxHops : ~Reaches(AccountParents, AccountIds, parent, a, k)
    BY <2>1, ChartIsParents, MetIsReached, MaxHopsAssumption DEF WouldLoop
  <2> HIDE DEF row
  <2>4. /\ slot'[s] = [step |-> "account.write", id |-> a, row |-> row]
        /\ \A r \in Slots \ {s} : slot'[r] = slot[r]
        /\ InTurn' => \A r \in Slots \ {s} : At(r, "idle")
    BY <1>1, <2>1
  <2>5. AccountParents' = AccountParents
    BY <2>1 DEF AccountParents, chartVars
  <2>6. \A k \in 0..MaxHops :
          ~Reaches(AccountParents', AccountIds, slot'[s].row.parent, slot'[s].id, k)
    BY <2>2, <2>3, <2>4, <2>5
  <2>7. ChartCarried(s)'
    BY <2>6 DEF ChartCarried
  <2>8. ChartLocals(s)'
    BY <1>3, <2>2, <2>4 DEF ChartLocals, At
  <2> QED
    BY <2>1, <2>4, <2>7, <2>8
<1>4. ASSUME NEW a \in AccountIds, NEW state \in {"active", "inactive"},
             ReadToSetActive(s, a, state)
      PROVE  Goal
  <2> DEFINE row == [chart[a] EXCEPT !.state = state]
  <2>1. /\ UNCHANGED chartVars
        /\ Begin(s, "account.use", [step |-> "account.write", id |-> a, row |-> row])
    BY <1>4 DEF ReadToSetActive
  <2>2. /\ row \in [state : {"active", "inactive"}, parent : AccountIds \cup {NoParent}]
        /\ row.parent = chart[a].parent
    BY DEF ChartRows, ChartRecords
  <2> HIDE DEF row
  <2>3. /\ slot'[s] = [step |-> "account.write", id |-> a, row |-> row]
        /\ \A r \in Slots \ {s} : slot'[r] = slot[r]
        /\ InTurn' => \A r \in Slots \ {s} : At(r, "idle")
    BY <1>1, <2>1
  <2>4. ChartCarried(s)' /\ ChartLocals(s)'
    BY <2>1, <2>2, <2>3 DEF ChartCarried, ChartLocals, At, chartVars
  <2> QED
    BY <2>1, <2>3, <2>4
<1>5. ASSUME NEW a \in AccountIds, ReadToCloseAccount(s, a) PROVE Goal
  BY <1>1, <1>5 DEF ReadToCloseAccount, ChartLocals, ChartCarried, At
<1>6. ASSUME NEW debit \in AccountIds, NEW credit \in AccountIds, ReadToEnter(s, debit, credit)
      PROVE  Goal
  BY <1>1, <1>6 DEF ReadToEnter, ChartLocals, ChartCarried, At
<1> HIDE DEF Goal
<1>7. Goal
  BY <1>2, <1>3, <1>4, <1>5, <1>6 DEF ChartRequest
<1> QED
  BY <1>7 DEF Goal

\* One row is written: it is on file with its parent, or it is gone and nothing
\* names it.
LEMMA ChartWritten ==
  ASSUME ChartRows, NEW a \in AccountIds, NEW row \in ChartRecords,
         chart' = [chart EXCEPT ![a] = row], UNCHANGED entered,
         \/ /\ row.state \in {"active", "inactive"}
            /\ row.parent \in AccountsOnFile \cup {NoParent}
         \/ /\ row.state = "gone" /\ row.parent = NoParent
            /\ a \notin entered /\ Children(a) = {}
  PROVE  ChartRows' /\ AccountParents' = [AccountParents EXCEPT ![a] = row.parent]
<1>1. chart'[a] = row /\ \A b \in AccountIds \ {a} : chart'[b] = chart[b]
  BY DEF ChartRows
<1>2. chart' \in [AccountIds -> ChartRecords]
  BY DEF ChartRows
<1>3. AccountsOnFile' = IF row.state = "gone" THEN AccountsOnFile \ {a} ELSE AccountsOnFile \cup {a}
  BY <1>1 DEF AccountsOnFile
<1>4. \A b \in AccountIds \ AccountsOnFile' : chart'[b].parent = NoParent
  BY <1>1, <1>3 DEF ChartRows
<1>5. \A b \in AccountsOnFile' : chart'[b].parent \in AccountsOnFile' \cup {NoParent}
  <2> SUFFICES ASSUME NEW b \in AccountsOnFile'
               PROVE  chart'[b].parent \in AccountsOnFile' \cup {NoParent}
    OBVIOUS
  <2>1. b \in AccountIds
    BY DEF AccountsOnFile
  <2>2. CASE b = a
    BY <1>1, <1>3, <2>2
  <2>3. CASE b # a
    <3>1. b \in AccountsOnFile /\ chart'[b] = chart[b]
      BY <1>1, <1>3, <2>1, <2>3
    <3>2. row.state = "gone" => chart[b].parent # a
      BY <3>1 DEF Children
    <3> QED
      BY <1>3, <3>1, <3>2 DEF ChartRows
  <2> QED
    BY <2>2, <2>3
<1>6. entered' \subseteq AccountsOnFile'
  BY <1>3 DEF ChartRows
<1>7. AccountParents' = [AccountParents EXCEPT ![a] = row.parent]
  <2>1. \A b \in AccountIds : chart'[b].parent = IF b = a THEN row.parent ELSE chart[b].parent
    BY <1>1
  <2>2. AccountParents' = [b \in AccountIds |-> chart'[b].parent]
    BY DEF AccountParents
  <2>3. [AccountParents EXCEPT ![a] = row.parent] =
          [b \in AccountIds |-> IF b = a THEN row.parent ELSE chart[b].parent]
    BY DEF AccountParents
  <2> QED
    BY <2>1, <2>2, <2>3
<1> QED
  BY <1>2, <1>4, <1>5, <1>6, <1>7 DEF ChartRows

\* A row that nothing is hung under is hung under one on file.
LEMMA FreshlyHung ==
  ASSUME ChartRows, NEW a \in AccountIds, chart[a] = NoAccount,
         NEW under \in AccountsOnFile
  PROVE  \A k \in 0..MaxHops : ~Reaches(AccountParents, AccountIds, under, a, k)
<1> SUFFICES ASSUME NEW k \in 0..MaxHops, Reaches(AccountParents, AccountIds, under, a, k)
             PROVE  FALSE
  OBVIOUS
<1>1. a \notin AccountsOnFile /\ under \in AccountIds /\ under # a
  BY DEF AccountsOnFile, NoAccount
<1>2. CASE k = 0
  BY <1>1, <1>2, ChartIsParents, ReachesMore
<1>3. CASE k # 0
  <2>1. k - 1 \in Nat /\ (k - 1) + 1 = k
    BY <1>3, MaxHopsAssumption
  <2>2. IsParents(AccountParents, AccountIds) /\ Reaches(AccountParents, AccountIds, under, a, (k - 1) + 1)
    BY <2>1, ChartIsParents
  <2> DEFINE n == k - 1
  <2> HIDE DEF n
  <2>5. PICK z \in AccountIds : a = AccountParents[z]
    BY <1>1, <2>1, <2>2, ReachesMore DEF n
  <2>3. chart[z].parent \in AccountsOnFile \cup {NoParent}
    BY DEF ChartRows
  <2> QED
    BY <1>1, <2>3, <2>5, ChartIsParents DEF IsParents
<1> QED
  BY <1>2, <1>3

\* An account that becomes a root makes no loop.
LEMMA UnhungOne ==
  ASSUME ChartRows, NEW a \in AccountIds, NoLoops(AccountParents, AccountIds)
  PROVE  NoLoops([AccountParents EXCEPT ![a] = NoParent], AccountIds)
<1> DEFINE new == [AccountParents EXCEPT ![a] = NoParent]
<1>1. /\ IsParents(AccountParents, AccountIds)
      /\ new \in [AccountIds -> AccountIds \cup {NoParent}]
      /\ \A r \in AccountIds : new[r] \in {AccountParents[r], NoParent}
  BY ChartIsParents DEF IsParents
<1> HIDE DEF new
<1>2. NoLoops(new, AccountIds)
  BY <1>1, Unhung
<1> QED
  BY <1>2 DEF new

\* One step of a handler keeps the rows, and in turn makes no loop.
LEMMA ChartStepped ==
  ASSUME HandlersInv, ChartRows, NEW s \in Slots, ChartLocals(s), ChartStep(s)
  PROVE  /\ ChartRows' /\ Finish(s) /\ slot[s].step \in ChartSteps
         /\ ChartCarried(s) /\ NoLoops(AccountParents, AccountIds)
            => NoLoops(AccountParents, AccountIds)'
<1> DEFINE Kept == ChartCarried(s) /\ NoLoops(AccountParents, AccountIds)
                   => NoLoops(AccountParents, AccountIds)'
<1>1. Finish(s) /\ slot[s].step \in ChartSteps
  BY DEF ChartStep, InsertAccount, UpdateAccount, DeleteAccount, InsertLedgerEntry, ChartSteps, At
<1>2. ASSUME UNCHANGED chart, entered' \subseteq AccountsOnFile
      PROVE  ChartRows' /\ Kept
  <2>1. AccountParents' = AccountParents
    BY <1>2 DEF AccountParents
  <2>2. ChartRows'
    BY <1>2 DEF ChartRows, AccountsOnFile
  <2> QED
    BY <2>1, <2>2
<1>3. ASSUME NEW a \in AccountIds, InsertAccount(s, a) PROVE ChartRows' /\ Kept
  <2> DEFINE parent == slot[s].parent
             row == [state |-> "active", parent |-> parent]
  <2>1. CASE UNCHANGED chart
    BY <1>2, <1>3, <2>1 DEF InsertAccount, ChartRows
  <2>2. CASE parent \in AccountsOnFile \cup {NoParent} /\ chart' = [chart EXCEPT ![a] = row]
    <3>1. UNCHANGED entered /\ chart[a] = NoAccount
      BY <1>3 DEF InsertAccount
    <3>2. row \in ChartRecords /\ row.state = "active" /\ row.parent = parent
      BY <2>2 DEF ChartRecords, AccountsOnFile
    <3> HIDE DEF row
    <3>3. ChartRows' /\ AccountParents' = [AccountParents EXCEPT ![a] = parent]
      BY <2>2, <3>1, <3>2, ChartWritten
    <3>4. CASE parent = NoParent
      <4>1. NoLoops(AccountParents, AccountIds) => NoLoops(AccountParents', AccountIds)
        BY <3>3, <3>4, UnhungOne
      <4> QED
        BY <3>3, <4>1
    <3>5. CASE parent \in AccountsOnFile
      <4>1. \A k \in 0..MaxHops : ~Reaches(AccountParents, AccountIds, parent, a, k)
        BY <3>1, <3>5, FreshlyHung
      <4>2. parent \in AccountIds
        BY <3>5 DEF AccountsOnFile
      <4> HIDE DEF parent
      <4> QED
        BY <3>3, <4>1, <4>2, ChartIsParents, Rehung
    <3> QED
      BY <2>2, <3>4, <3>5
  <2> QED
    BY <1>3, <2>1, <2>2 DEF InsertAccount
<1>4. ASSUME UpdateAccount(s) PROVE ChartRows' /\ Kept
  <2> DEFINE a == slot[s].id
             row == slot[s].row
  <2>1. /\ At(s, "account.write") /\ a \in AccountIds /\ UNCHANGED entered
        /\ row \in [state : {"active", "inactive"}, parent : AccountIds \cup {NoParent}]
    BY <1>4 DEF UpdateAccount, ChartLocals, At
  <2>2. CASE a \in AccountsOnFile /\ row.parent \in AccountsOnFile \cup {NoParent}
    <3>1. chart' = [chart EXCEPT ![a] = row]
      BY <1>4, <2>2 DEF UpdateAccount
    <3>2. row \in ChartRecords /\ row.state \in {"active", "inactive"}
      BY <2>1 DEF ChartRecords
    <3>3. ChartCarried(s) => \/ row.parent = chart[a].parent
                             \/ \A k \in 0..MaxHops :
                                  ~Reaches(AccountParents, AccountIds, row.parent, a, k)
      BY <2>1 DEF ChartCarried
    <3> HIDE DEF a, row
    <3>4. ChartRows' /\ AccountParents' = [AccountParents EXCEPT ![a] = row.parent]
      BY <2>1, <2>2, <3>1, <3>2, ChartWritten
    <3>5. CASE row.parent = chart[a].parent
      <4>1. [AccountParents EXCEPT ![a] = row.parent] = AccountParents
        BY <3>5, ChartIsParents DEF IsParents
      <4>2. AccountParents' = AccountParents
        BY <3>4, <4>1
      <4> QED
        BY <3>4, <4>2
    <3>6. CASE \A k \in 0..MaxHops : ~Reaches(AccountParents, AccountIds, row.parent, a, k)
      <4>1. row.parent \in AccountIds \cup {NoParent}
        BY <2>1
      <4>2. NoLoops(AccountParents, AccountIds) => NoLoops(AccountParents', AccountIds)
        BY <2>1, <3>4, <3>6, <4>1, ChartIsParents, Rehung
      <4> QED
        BY <3>4, <4>2
    <3> QED
      BY <3>3, <3>4, <3>5, <3>6
  <2>3. CASE ~(a \in AccountsOnFile /\ row.parent \in AccountsOnFile \cup {NoParent})
    BY <1>2, <1>4, <2>3 DEF UpdateAccount, ChartRows
  <2> QED
    BY <2>2, <2>3
<1>5. ASSUME DeleteAccount(s) PROVE ChartRows' /\ Kept
  <2> DEFINE a == slot[s].id
             row == [NoAccount EXCEPT !.state = "gone"]
  <2>1. a \in AccountIds /\ UNCHANGED entered
    BY <1>5 DEF DeleteAccount, ChartLocals, At
  <2>2. CASE a \notin entered /\ Children(a) = {}
    <3>1. chart' = [chart EXCEPT ![a] = row]
      BY <1>5, <2>2 DEF DeleteAccount
    <3>2. row \in ChartRecords /\ row.state = "gone" /\ row.parent = NoParent
      BY DEF ChartRecords, NoAccount
    <3> HIDE DEF a, row
    <3>3. ChartRows' /\ AccountParents' = [AccountParents EXCEPT ![a] = NoParent]
      BY <2>1, <2>2, <3>1, <3>2, ChartWritten
    <3>4. NoLoops(AccountParents, AccountIds) => NoLoops(AccountParents', AccountIds)
      BY <2>1, <3>3, UnhungOne
    <3> QED
      BY <3>3, <3>4
  <2>3. CASE ~(a \notin entered /\ Children(a) = {})
    BY <1>2, <1>5, <2>3 DEF DeleteAccount, ChartRows
  <2> QED
    BY <2>2, <2>3
<1>6. ASSUME InsertLedgerEntry(s) PROVE ChartRows' /\ Kept
  BY <1>2, <1>6 DEF InsertLedgerEntry, ChartRows
<1> HIDE DEF Kept
<1>7. ChartRows' /\ Kept
  <2>1. CASE \E a \in AccountIds : InsertAccount(s, a)
    BY <1>3, <2>1
  <2> QED
    BY <1>4, <1>5, <1>6, <2>1 DEF ChartStep
<1> QED
  BY <1>1, <1>7 DEF Kept

\* Every step keeps the chart together and, in turn, a forest.
LEMMA ChartInvNext ==
  ASSUME HandlersInv, ChartInv, [ServiceNext]_ServiceVars
  PROVE  ChartInv'
<1>1. /\ ChartRows /\ \A s \in Slots : ChartLocals(s)
      /\ InTurn' => /\ InTurn /\ OneBusy
                    /\ NoLoops(AccountParents, AccountIds) /\ \A s \in Slots : ChartCarried(s)
  BY Undisturbed DEF ChartInv, HandlersInv
<1>2. ASSUME NEW s \in Slots, slot'[s] = slot[s]
      PROVE  ChartLocals(s)'
  BY <1>1, <1>2 DEF ChartLocals, At
<1>3. ASSUME NEW s \in Slots, slot'[s].step \notin ChartSteps
      PROVE  ChartLocals(s)' /\ ChartCarried(s)'
  BY <1>3 DEF ChartLocals, ChartCarried, At, ChartSteps
<1>4. CASE UNCHANGED chartVars /\ Elsewhere(ChartSteps)
  <2>1. ChartRows' /\ AccountParents' = AccountParents
    BY <1>1, <1>4 DEF chartVars, ChartRows, AccountsOnFile, AccountParents
  <2>2. ASSUME NEW s \in Slots PROVE ChartLocals(s)' /\ (ChartCarried(s) => ChartCarried(s)')
    <3>1. CASE slot'[s].step \in ChartSteps
      <4>1. slot'[s] = slot[s] /\ UNCHANGED chart
        BY <1>4, <3>1 DEF Elsewhere, chartVars
      <4> QED
        BY <1>2, <2>1, <4>1 DEF ChartCarried, At
    <3> QED
      BY <1>3, <3>1
  <2> QED
    BY <1>1, <2>1, <2>2 DEF ChartInv
<1>5. ASSUME NEW s \in Slots, \A r \in Slots \ {s} : slot'[r] = slot[r], ChartLocals(s)'
      PROVE  /\ \A r \in Slots : ChartLocals(r)'
             /\ (\A r \in Slots \ {s} : At(r, "idle")) /\ ChartCarried(s)'
                => \A r \in Slots : ChartCarried(r)'
  BY <1>2, <1>3, <1>5 DEF At, ChartSteps
<1>6. ASSUME NEW s \in Slots, At(s, "idle"), ChartRequest(s) PROVE ChartInv'
  <2>1. /\ UNCHANGED chartVars /\ ChartLocals(s)' /\ ChartCarried(s)'
        /\ \A r \in Slots \ {s} : slot'[r] = slot[r]
        /\ InTurn' => \A r \in Slots \ {s} : At(r, "idle")
    BY <1>1, <1>6, ChartRead
  <2>2. ChartRows' /\ AccountParents' = AccountParents
    BY <1>1, <2>1 DEF chartVars, ChartRows, AccountsOnFile, AccountParents
  <2> QED
    BY <1>1, <1>5, <2>1, <2>2 DEF ChartInv
<1>7. ASSUME NEW s \in Slots, ChartStep(s) PROVE ChartInv'
  <2>1. /\ ChartRows' /\ Finish(s) /\ slot[s].step \in ChartSteps
        /\ InTurn' => NoLoops(AccountParents, AccountIds)'
    BY <1>1, <1>7, ChartStepped
  <2>2. slot'[s] = Idle /\ \A r \in Slots \ {s} : slot'[r] = slot[r]
    BY <2>1 DEF Finish, Continue, HandlersInv
  <2>3. ChartLocals(s)' /\ ChartCarried(s)'
    BY <1>3, <2>2 DEF Idle, ChartSteps
  <2>4. InTurn' => \A r \in Slots \ {s} : At(r, "idle")
    BY <1>1, <2>1 DEF OneBusy, ChartSteps, At
  <2> QED
    BY <1>5, <2>1, <2>2, <2>3, <2>4 DEF ChartInv
<1> QED
  BY <1>4, <1>6, <1>7, NotChart DEF ChartNext, Free

\* No account has been opened yet.
LEMMA ChartInitially == ServiceInit => ChartInv
<1> SUFFICES ASSUME ServiceInit PROVE ChartInv
  OBVIOUS
<1>1. /\ chart = [a \in AccountIds |-> NoAccount] /\ entered = {}
      /\ slot = [s \in Slots |-> Idle] /\ Idle.step = "idle"
  BY DEF ServiceInit, ChartInit, RequestsInit, Idle
<1>2. AccountsOnFile = {} /\ \A a \in AccountIds : chart[a] = NoAccount /\ NoAccount \in ChartRecords
  BY <1>1 DEF AccountsOnFile, NoAccount, ChartRecords
<1>3. ChartRows
  BY <1>1, <1>2 DEF ChartRows, NoAccount
<1>4. NoLoops(AccountParents, AccountIds)
  <2> SUFFICES ASSUME NEW a \in AccountIds, NEW n \in 1..(MaxHops + 1),
                      Reaches(AccountParents, AccountIds, a, a, n)
               PROVE  FALSE
    BY DEF NoLoops
  <2>1. n - 1 \in Nat /\ (n - 1) + 1 = n
    BY MaxHopsAssumption
  <2>2. AccountParents[a] # NoParent
    BY <1>3, <2>1, ChartIsParents, ReachesFirst
  <2> QED
    BY <1>2, <1>3, <2>2, ChartIsParents
<1>5. \A s \in Slots : ChartLocals(s) /\ ChartCarried(s)
  BY <1>1 DEF ChartLocals, ChartCarried, At
<1> QED
  BY <1>3, <1>4, <1>5 DEF ChartInv

\* So it is after every step.
LEMMA ChartAlways == ServiceSpec => []ChartInv
BY ChartInitially, HandlersAlways, ChartInvNext, PTL DEF ServiceSpec

\* More accounts hang under each other than a walk up the tree meets.
TooDeep == IsDeep(AccountParents, AccountIds)

\* An account that has entries or others under it stays on file, whatever
\* overlaps; in turn no account hangs under itself, and the tree of the chart
\* shows every one, unless it is deeper than the walk that keeps it one.
THEOREM ChartHangsTogether == ServiceSpec => [](TooDeep \/ ChartAgrees)
<1>1. ChartInv => TooDeep \/ ChartAgrees
  <2> SUFFICES ASSUME ChartInv, ~TooDeep PROVE ChartAgrees
    OBVIOUS
  <2>1. ChartRows /\ (InTurn => NoLoops(AccountParents, AccountIds))
    BY DEF ChartInv
  <2>2. ASSUME NoLoops(AccountParents, AccountIds)
        PROVE  IsForest(AccountParents, AccountsOnFile) /\ Shown = AccountsOnFile
    <3>1. IsForest(AccountParents, AccountsOnFile)
      BY <2>1, <2>2, ChartIsParents, ForestHasNoLoops DEF AccountsOnFile
    <3>2. ASSUME NEW a \in AccountsOnFile
          PROVE  \E r \in Met(AccountParents, a, MaxHops) : chart[r].parent = NoParent
      <4>1. a \in AccountIds
        BY DEF AccountsOnFile
      <4>2. PICK r \in Met(AccountParents, a, MaxHops) : AccountParents[r] = NoParent
        BY <2>1, <2>2, <4>1, ChartIsParents, RootsAreMet DEF TooDeep
      <4>3. r \in AccountIds
        BY <2>1, <4>1, <4>2, ChartIsParents, MetIsReached, MaxHopsAssumption
      <4> QED
        BY <2>1, <4>2, <4>3, ChartIsParents
    <3> QED
      BY <3>1, <3>2 DEF Shown
  <2> QED
    BY <2>1, <2>2 DEF ChartAgrees, ChartRows
<1> QED
  BY <1>1, ChartAlways, PTL

\* However deep the chart is: what entries and accounts name is on file, and in
\* turn no account is met on a walk up from its own parent.
THEOREM ChartNamesAccounts ==
  ServiceSpec => [](/\ entered \subseteq AccountsOnFile
                    /\ \A a \in AccountsOnFile : chart[a].parent \in AccountsOnFile \cup {NoParent}
                    /\ InTurn => IsForest(AccountParents, AccountsOnFile))
<1>1. ChartInv =>
        /\ entered \subseteq AccountsOnFile
        /\ \A a \in AccountsOnFile : chart[a].parent \in AccountsOnFile \cup {NoParent}
        /\ InTurn => IsForest(AccountParents, AccountsOnFile)
  <2> SUFFICES ASSUME ChartInv
               PROVE  /\ ChartRows
                      /\ InTurn => IsForest(AccountParents, AccountsOnFile)
    BY DEF ChartRows
  <2>1. ChartRows /\ (InTurn => NoLoops(AccountParents, AccountIds))
    BY DEF ChartInv
  <2> QED
    BY <2>1, ChartIsParents, ForestHasNoLoops DEF AccountsOnFile
<1> QED
  BY <1>1, ChartAlways, PTL

-----------------------------------------------------------------------------
(* Projects: rows, locals, hours and progress *)

ProjectRecords ==
  [status : ProjectStatuses \cup {"none", "gone"}, progress : 0..100]

TaskRecords ==
  [status : TaskStatuses \cup {"none", "gone"}, project : ProjectIds \cup {NoParent},
   parent : TaskIds \cup {NoParent}, progress : 0..100, hours : Nat]

EntryRecords == [task : TaskIds \cup {NoParent}, hours : -1..MaxHours]

GoneTask == [NoTask EXCEPT !.status = "gone"]

\* Whatever overlaps: a task is in a project on file and under a task of it, an
\* entry is on a task on file.
ProjectRows ==
  /\ project \in [ProjectIds -> ProjectRecords]
  /\ task \in [TaskIds -> TaskRecords]
  /\ entry \in [EntryIds -> EntryRecords]
  /\ \A t \in TaskIds \ TasksOnFile : task[t] \in {NoTask, GoneTask}
  /\ \A t \in TasksOnFile :
       /\ task[t].project \in ProjectsOnFile
       /\ task[t].parent # NoParent => task[t].parent \in TasksOf(task[t].project)
  /\ \A e \in EntriesOnFile : entry[e].task \in TasksOnFile /\ entry[e].hours \in 1..MaxHours
  /\ byHand \subseteq ProjectIds

\* A task that was on file, and in a project; rows are made once and a task
\* never changes its project.
WasIn(t, j) == task[t].status # "none" /\ (t \in TasksOnFile => task[t].project = j)

WasLogged(e, t) == entry[e] # NoEntry /\ (e \in EntriesOnFile => entry[e].task = t)

\* The steps of a handler that owes a task its hours.
HoursSteps == {"hours.sync", "hours.store"}

ProjectLocals(s) ==
  LET x == slot[s] IN
  /\ At(s, "project.write") =>
       /\ x.id \in ProjectIds /\ x.byHand \in BOOLEAN
       /\ x.row \in [status : ProjectStatuses, progress : 0..100]
  /\ At(s, "task.insert") =>
       /\ x.project \in ProjectIds /\ x.parent \in TaskIds \cup {NoParent}
       /\ x.parent # NoParent => WasIn(x.parent, x.project)
  /\ At(s, "task.write") =>
       /\ x.id \in TaskIds /\ x.row \in TaskRecords
       /\ x.row.status \in TaskStatuses /\ x.row.project \in ProjectIds
       /\ WasIn(x.id, x.row.project)
       /\ x.row.parent # NoParent => WasIn(x.row.parent, x.row.project)
  /\ At(s, "task.delete") =>
       x.id \in TaskIds /\ x.project \in ProjectIds /\ WasIn(x.id, x.project)
  /\ x.step \in {"task.rollUp", "task.progress"} => x.project \in ProjectIds
  /\ At(s, "task.progress") => x.progress \in 0..100
  /\ At(s, "hours.insert") => x.task \in TaskIds /\ x.hours \in 1..MaxHours
  /\ At(s, "hours.write") =>
       /\ x.id \in EntryIds /\ x.task \in TaskIds /\ x.hours \in 0..MaxHours
       /\ WasLogged(x.id, x.task)
  /\ x.step \in {"hours.sync", "hours.store"} => x.task \in TaskIds
  /\ At(s, "hours.store") => x.hours \in Nat

\* What a handler read in turn is still so.
ProjectCarried(s) ==
  LET x == slot[s] IN
  /\ At(s, "project.write") => x.byHand \/ x.row.progress = project[x.id].progress
  /\ At(s, "task.write") =>
       \/ x.row.parent = task[x.id].parent
       \/ \A k \in 0..MaxHops : ~Reaches(Parents, TaskIds, x.row.parent, x.id, k)
  /\ At(s, "task.progress") => x.progress = RollUp(x.project, project[x.project].progress)
  /\ At(s, "hours.store") => x.hours = HoursLogged(x.task)

Rolling(j) ==
  \E s \in Slots : slot[s].step \in {"task.rollUp", "task.progress"} /\ slot[s].project = j

Syncing(t) == \E s \in Slots : slot[s].step \in HoursSteps /\ slot[s].task = t

\* A task has its hours, unless a handler has still to write them.
HoursFit ==
  \A t \in TasksOnFile : task[t].hours = HoursLogged(t) \/ Syncing(t)

\* A project that nobody has set by hand is as far as its tasks, unless a handler
\* has still to write it.
ProgressFits ==
  \A j \in ProjectsOnFile \ byHand :
    project[j].progress = RollUp(j, project[j].progress) \/ Rolling(j)

ProjectsInv ==
  /\ ProjectRows
  /\ \A s \in Slots : ProjectLocals(s)
  /\ InTurn => /\ NoLoops(Parents, TaskIds) /\ HoursFit /\ ProgressFits
               /\ \A s \in Slots : ProjectCarried(s)

\* What MapThenSumSet makes of the hours of the entries S.
HoursSum(rows, S) ==
  (CHOOSE g : g = [T \in SUBSET S |->
     IF T = {} THEN 0
               ELSE LET x == CHOOSE x \in T : TRUE IN rows[x].hours + g[T \ {x}]])[S]

\* What MapThenSumSet makes of the progress of the tasks S.
ProgressSum(rows, S) ==
  (CHOOSE g : g = [T \in SUBSET S |->
     IF T = {} THEN 0
               ELSE LET x == CHOOSE x \in T : TRUE IN rows[x].progress + g[T \ {x}]])[S]

\* They are sums of numbers.
LEMMA HoursSummed ==
  ASSUME NEW rows, NEW S
  PROVE  HoursSum(rows, S) = SumOf([x \in S |-> rows[x].hours], S)
<1> DEFINE w == [x \in S |-> rows[x].hours]
           Counts(g) ==
             g = [T \in SUBSET S |->
                    IF T = {} THEN 0
                              ELSE LET x == CHOOSE x \in T : TRUE
                                   IN rows[x].hours + g[T \ {x}]]
<1>1. ASSUME NEW T \in SUBSET S, T # {}
      PROVE  w[CHOOSE x \in T : TRUE] = rows[CHOOSE x \in T : TRUE].hours
  BY <1>1
<1>2. ASSUME NEW g PROVE Counts(g) <=> Adds(g, w, S)
  BY <1>1 DEF Adds
<1>3. HoursSum(rows, S) = (CHOOSE g : Counts(g))[S]
  BY DEF HoursSum
<1> HIDE DEF Counts, w
<1>4. (CHOOSE g : Counts(g)) = (CHOOSE g : Adds(g, w, S))
  BY <1>2
<1> QED
  BY <1>3, <1>4, SumUnfolded DEF w

\* Progress summed up is a sum over those rows.
LEMMA ProgressSummed ==
  ASSUME NEW rows, NEW S
  PROVE  ProgressSum(rows, S) = SumOf([x \in S |-> rows[x].progress], S)
<1> DEFINE w == [x \in S |-> rows[x].progress]
           Counts(g) ==
             g = [T \in SUBSET S |->
                    IF T = {} THEN 0
                              ELSE LET x == CHOOSE x \in T : TRUE
                                   IN rows[x].progress + g[T \ {x}]]
<1>1. ASSUME NEW T \in SUBSET S, T # {}
      PROVE  w[CHOOSE x \in T : TRUE] = rows[CHOOSE x \in T : TRUE].progress
  BY <1>1
<1>2. ASSUME NEW g PROVE Counts(g) <=> Adds(g, w, S)
  BY <1>1 DEF Adds
<1>3. ProgressSum(rows, S) = (CHOOSE g : Counts(g))[S]
  BY DEF ProgressSum
<1> HIDE DEF Counts, w
<1>4. (CHOOSE g : Counts(g)) = (CHOOSE g : Adds(g, w, S))
  BY <1>2
<1> QED
  BY <1>3, <1>4, SumUnfolded DEF w

\* The hours logged are a sum over the entries, before a step and after it.
LEMMA HoursAre ==
  ASSUME NEW t
  PROVE  /\ HoursLogged(t) = HoursSum(entry, EntriesOf(t))
         /\ HoursLogged(t)' = HoursSum(entry', EntriesOf(t)')
<1>1. HoursLogged(t) = HoursSum(entry, EntriesOf(t))
  BY DEF HoursLogged, HoursSum, MapThenSumSet, MapThenFoldSet
<1>2. HoursLogged(t)' = HoursSum(entry', EntriesOf(t)')
  BY DEF HoursLogged, HoursSum, MapThenSumSet, MapThenFoldSet
<1> QED
  BY <1>1, <1>2

\* Hours logged are a number, and none where nothing is logged.
LEMMA HoursTyped ==
  ASSUME ProjectRows, NEW t \in TaskIds
  PROVE  /\ HoursLogged(t) \in Nat
         /\ EntriesOf(t) = {} => HoursLogged(t) = 0
<1> DEFINE S == EntriesOf(t)
           w == [x \in S |-> entry[x].hours]
<1>1. IsFiniteSet(S) /\ \A x \in S : entry[x].hours \in Nat
  <2>1. S \subseteq EntryIds
    BY DEF EntriesOf, EntriesOnFile
  <2>2. IsFiniteSet(S)
    BY <2>1, EntryIdsAssumption, FS_Subset
  <2>3. \A x \in S : entry[x].hours \in 1..MaxHours
    BY DEF EntriesOf, ProjectRows
  <2> QED
    BY <2>2, <2>3
<1>2. S \subseteq DOMAIN w /\ \A x \in S : w[x] \in Nat
  BY <1>1
<1>3. HoursLogged(t) = SumOf(w, S)
  BY HoursAre, HoursSummed
<1> HIDE DEF S, w
<1>4. SumOf(w, S) \in Nat
  BY <1>1, <1>2, SumNatural
<1>5. S = {} => SumOf(w, S) = 0
  BY <1>1, <1>2, SumNatural
<1> QED
  BY <1>3, <1>4, <1>5 DEF S

\* A task whose entries are as they were has the hours it had.
LEMMA HoursStay ==
  ASSUME ProjectRows, NEW t \in TaskIds, EntriesOf(t)' = EntriesOf(t),
         \A e \in EntriesOf(t) : entry'[e].hours = entry[e].hours
  PROVE  HoursLogged(t)' = HoursLogged(t)
<1> DEFINE S == EntriesOf(t)
<1>1. [x \in S |-> entry'[x].hours] = [x \in S |-> entry[x].hours]
  OBVIOUS
<1>2. HoursSum(entry', S) = HoursSum(entry, S)
  BY <1>1, HoursSummed
<1> QED
  BY <1>2, HoursAre

Live(j) == {t \in TasksOf(j) : task[t].status # "cancelled"}

\* What a roll-up comes to, of these tasks.
Rolled(rows, live, current) ==
  IF live = {} THEN current
  ELSE (2 * ProgressSum(rows, live) + Cardinality(live)) \div (2 * Cardinality(live))

\* That is what the handlers roll up.
LEMMA RollUpIs ==
  ASSUME NEW j
  PROVE  /\ RollUp(j, project[j].progress) = Rolled(task, Live(j), project[j].progress)
         /\ RollUp(j, project[j].progress)' = Rolled(task', Live(j)', project'[j].progress)
<1>1. ASSUME NEW S PROVE MapThenSumSet(LAMBDA t : task[t].progress, S) = ProgressSum(task, S)
  BY DEF ProgressSum, MapThenSumSet, MapThenFoldSet
<1>2. ASSUME NEW S PROVE MapThenSumSet(LAMBDA t : task'[t].progress, S) = ProgressSum(task', S)
  BY DEF ProgressSum, MapThenSumSet, MapThenFoldSet
<1>3. RollUp(j, project[j].progress) = Rolled(task, Live(j), project[j].progress)
  BY <1>1 DEF RollUp, Rolled, Live
<1>4. RollUp(j, project[j].progress)' = Rolled(task', Live(j)', project'[j].progress)
  <2> DEFINE L == {t \in TasksOf(j)' : task'[t].status # "cancelled"}
  <2>1. Live(j)' = L
    BY DEF Live
  <2>2. RollUp(j, project[j].progress)' =
          IF L = {} THEN project'[j].progress
          ELSE (2 * ProgressSum(task', L) + Cardinality(L)) \div (2 * Cardinality(L))
    BY DEF RollUp, ProgressSum, MapThenSumSet, MapThenFoldSet
  <2> QED
    BY <2>1, <2>2 DEF Rolled
<1> QED
  BY <1>3, <1>4

\* Tasks that are as far as they were roll up to what they did.
LEMMA RolledSame ==
  ASSUME NEW rows, NEW others, NEW S, \A x \in S : others[x].progress = rows[x].progress,
         NEW current
  PROVE  Rolled(others, S, current) = Rolled(rows, S, current)
<1>1. [x \in S |-> others[x].progress] = [x \in S |-> rows[x].progress]
  OBVIOUS
<1>2. ProgressSum(others, S) = ProgressSum(rows, S)
  BY <1>1, ProgressSummed
<1> QED
  BY <1>2 DEF Rolled

\* What is written as a roll-up is what a project rolls up to from then on.
LEMMA RolledAgain ==
  ASSUME NEW rows, NEW S, NEW current
  PROVE  Rolled(rows, S, Rolled(rows, S, current)) = Rolled(rows, S, current)
BY DEF Rolled

\* Percentages roll up to a percentage.
LEMMA RolledBounded ==
  ASSUME NEW S, IsFiniteSet(S), NEW rows, \A x \in S : rows[x].progress \in 0..100,
         NEW current \in 0..100
  PROVE  Rolled(rows, S, current) \in 0..100
<1> DEFINE w == [x \in S |-> rows[x].progress]
           n == Cardinality(S)
           sum == ProgressSum(rows, S)
<1>1. CASE S = {}
  BY <1>1 DEF Rolled
<1>2. CASE S # {}
  <2>1. n \in Nat /\ n > 0
    BY <1>2, FS_CardinalityType, FS_EmptySet
  <2>2. S \subseteq DOMAIN w /\ \A x \in S : w[x] \in 0..100
    OBVIOUS
  <2>3. sum = SumOf(w, S)
    BY ProgressSummed
  <2> HIDE DEF w, sum
  <2>4. sum \in Nat
    BY <2>2, <2>3, SumNatural
  <2>5. sum <= 100 * n
    <3>1. sum = Cardinality(Heap(w, S)) - Cardinality(Heap(Negated(w), S))
      BY <2>2, <2>3, SumWeighs DEF Weight
    <3>2. Heap(Negated(w), S) = {}
      BY <2>2 DEF Heap, Negated
    <3>3. Heap(w, S) \subseteq S \X (1..100)
      BY <2>2 DEF Heap
    <3>4. PICK m \in Nat : m = 100
      OBVIOUS
    <3>5. IsFiniteSet(1..m) /\ Cardinality(1..m) = m
      <4>1. Cardinality(1..m) = IF 1 > m THEN 0 ELSE m - 1 + 1
        BY FS_Interval
      <4>2. IsFiniteSet(1..m)
        BY FS_Interval
      <4> QED
        BY <3>4, <4>1, <4>2
    <3>6. IsFiniteSet(S \X (1..m)) /\ Cardinality(S \X (1..m)) = n * m
      BY <3>5, FS_Product
    <3>7. Cardinality(Heap(w, S)) <= n * 100 /\ Cardinality(Heap(w, S)) \in Nat
      BY <3>3, <3>4, <3>6, FS_Subset, FS_CardinalityType
    <3>8. Cardinality(Heap(Negated(w), S)) = 0
      BY <3>2, FS_EmptySet
    <3> QED
      BY <2>1, <3>1, <3>7, <3>8
  <2> DEFINE q == (2 * sum + n) \div (2 * n)
  <2> HIDE DEF n
  <2>6. q \in Int /\ (2 * n) * q <= 2 * sum + n /\ 2 * sum + n < (2 * n) * (q + 1)
    <3>1. \A a \in Nat, b \in Nat :
            b > 0 => /\ a \div b \in Int
                     /\ b * (a \div b) <= a /\ a < b * ((a \div b) + 1)
      OBVIOUS
    <3> QED
      BY <2>1, <2>4, <3>1
  <2> HIDE DEF q
  <2>7. q \in 0..100
    <3>1. ASSUME q < 0 PROVE FALSE
      <4>1. (2 * n) * (q + 1) <= 0
        BY <2>1, <2>6, <3>1
      <4> QED
        BY <2>1, <2>4, <2>6, <4>1
    <3>2. ASSUME q > 100 PROVE FALSE
      <4>1. (2 * n) * q >= (2 * n) * 101
        BY <2>1, <2>6, <3>2
      <4> QED
        BY <2>1, <2>4, <2>5, <2>6, <4>1
    <3> QED
      BY <2>6, <3>1, <3>2
  <2> QED
    BY <1>2, <2>7 DEF Rolled, q, sum, n
<1> QED
  BY <1>1, <1>2

\* Tasks and entries keep the project and the task they were made with.
TasksKeep == \A t \in TaskIds, j \in ProjectIds : WasIn(t, j) => WasIn(t, j)'

EntriesKeep == \A e \in EntryIds, t \in TaskIds : WasLogged(e, t) => WasLogged(e, t)'

\* A project is written or opened; none is deleted.
LEMMA ProjectWritten ==
  ASSUME ProjectRows, project' \in [ProjectIds -> ProjectRecords],
         ProjectsOnFile \subseteq ProjectsOnFile', UNCHANGED <<task, entry>>,
         byHand' \subseteq ProjectIds
  PROVE  /\ ProjectRows' /\ TasksKeep /\ EntriesKeep
         /\ TasksOnFile' = TasksOnFile /\ Parents' = Parents
         /\ \A j : TasksOf(j)' = TasksOf(j) /\ Live(j)' = Live(j)
<1>1. /\ TasksOnFile' = TasksOnFile /\ Parents' = Parents /\ EntriesOnFile' = EntriesOnFile
      /\ \A j : TasksOf(j)' = TasksOf(j)
  BY DEF TasksOnFile, Parents, EntriesOnFile, TasksOf
<1>2. \A j : Live(j)' = Live(j)
  BY <1>1 DEF Live
<1>3. TasksKeep /\ EntriesKeep
  BY <1>1 DEF TasksKeep, EntriesKeep, WasIn, WasLogged
<1>4. ProjectRows'
  BY <1>1 DEF ProjectRows
<1> QED
  BY <1>1, <1>2, <1>3, <1>4

\* A task is made, or written, in a project and under a task that are on file.
LEMMA TaskWritten ==
  ASSUME ProjectRows, NEW t \in TaskIds, NEW row \in TaskRecords,
         row.status \in TaskStatuses, row.project \in ProjectsOnFile,
         row.parent = NoParent \/ row.parent \in TasksOf(row.project),
         task[t] = NoTask \/ t \in TasksOf(row.project),
         task' = [task EXCEPT ![t] = row], UNCHANGED <<project, entry, byHand>>
  PROVE  /\ ProjectRows' /\ TasksKeep /\ EntriesKeep
         /\ task'[t] = row /\ \A u \in TaskIds \ {t} : task'[u] = task[u]
         /\ TasksOnFile' = TasksOnFile \cup {t}
         /\ Parents' = [Parents EXCEPT ![t] = row.parent]
         /\ \A j \in ProjectIds \ {row.project} : Live(j)' = Live(j) /\ t \notin Live(j)
<1>1. task'[t] = row /\ \A u \in TaskIds \ {t} : task'[u] = task[u]
  BY DEF ProjectRows
<1>2. TasksOnFile' = TasksOnFile \cup {t} /\ t \in TasksOnFile'
  BY <1>1 DEF TasksOnFile
<1>3. ProjectsOnFile' = ProjectsOnFile /\ EntriesOnFile' = EntriesOnFile
  BY DEF ProjectsOnFile, EntriesOnFile
<1>4. NoTask.status = "none" /\ "none" \notin TaskStatuses
  BY DEF NoTask, TaskStatuses
<1>5. task' \in [TaskIds -> TaskRecords]
  BY DEF ProjectRows
<1>6. ASSUME NEW j, NEW u \in TasksOf(j) PROVE u \in TasksOf(j)'
  <2>1. u \in TasksOnFile /\ task[u].project = j /\ u \in TaskIds
    BY <1>6 DEF TasksOf, TasksOnFile
  <2>2. CASE u = t
    <3>1. task[t] # NoTask
      BY <1>4, <2>1, <2>2 DEF TasksOnFile
    <3> QED
      BY <1>1, <1>2, <2>1, <2>2, <3>1 DEF TasksOf
  <2>3. CASE u # t
    BY <1>1, <1>2, <2>1, <2>3 DEF TasksOf
  <2> QED
    BY <2>2, <2>3
<1>7. ASSUME NEW u \in TasksOnFile'
      PROVE  /\ task'[u].project \in ProjectsOnFile'
             /\ task'[u].parent # NoParent =>
                  /\ task'[u].parent \in TasksOnFile'
                  /\ task'[task'[u].parent].project = task'[u].project
  <2>1. CASE u = t
    <3>1. row.parent # NoParent => row.parent \in TasksOf(row.project)'
      BY <1>6
    <3> QED
      BY <1>1, <1>3, <2>1, <3>1 DEF TasksOf
  <2>2. CASE u # t
    <3>1. u \in TasksOnFile /\ task'[u] = task[u]
      BY <1>1, <1>2, <2>2 DEF TasksOnFile
    <3>2. /\ task[u].project \in ProjectsOnFile
          /\ task[u].parent # NoParent => task[u].parent \in TasksOf(task[u].project)
      BY <3>1 DEF ProjectRows
    <3> DEFINE k == task[u].project
    <3>3. \A v \in TasksOf(k) : v \in TasksOnFile' /\ task'[v].project = k
      BY <1>6 DEF TasksOf
    <3> QED
      BY <1>3, <3>1, <3>2, <3>3
  <2> QED
    BY <2>1, <2>2
<1>8. \A u \in TaskIds \ TasksOnFile' : task'[u] \in {NoTask, GoneTask}
  BY <1>1, <1>2 DEF ProjectRows
<1>9. /\ \A e \in EntriesOnFile' : entry'[e].task \in TasksOnFile' /\ entry'[e].hours \in 1..MaxHours
      /\ project' \in [ProjectIds -> ProjectRecords] /\ entry' \in [EntryIds -> EntryRecords]
      /\ byHand' \subseteq ProjectIds
  BY <1>2, <1>3 DEF ProjectRows
<1>10. ProjectRows'
  BY <1>5, <1>7, <1>8, <1>9 DEF ProjectRows, TasksOf
<1>11. TasksKeep
  <2> SUFFICES ASSUME NEW u \in TaskIds, NEW j \in ProjectIds, WasIn(u, j) PROVE WasIn(u, j)'
    BY DEF TasksKeep
  <2>1. CASE u = t
    <3>1. task[t] # NoTask
      BY <1>4, <2>1 DEF WasIn
    <3>2. t \in TasksOnFile /\ task[t].project = row.project
      BY <3>1 DEF TasksOf
    <3> QED
      BY <1>1, <1>4, <2>1, <3>2 DEF WasIn
  <2>2. CASE u # t
    BY <1>1, <1>2, <2>2 DEF WasIn
  <2> QED
    BY <2>1, <2>2
<1>12. EntriesKeep
  BY <1>3 DEF EntriesKeep, WasLogged
<1>13. Parents' = [Parents EXCEPT ![t] = row.parent]
  <2>1. \A u \in TaskIds : task'[u].parent = IF u = t THEN row.parent ELSE task[u].parent
    BY <1>1
  <2>2. Parents' = [u \in TaskIds |-> task'[u].parent]
    BY DEF Parents
  <2>3. [Parents EXCEPT ![t] = row.parent] =
          [u \in TaskIds |-> IF u = t THEN row.parent ELSE task[u].parent]
    BY DEF Parents
  <2> QED
    BY <2>1, <2>2, <2>3
<1>14. ASSUME NEW j \in ProjectIds \ {row.project} PROVE Live(j)' = Live(j) /\ t \notin Live(j)
  <2>1. t \notin TasksOf(j) /\ t \notin TasksOf(j)'
    BY <1>1, <1>4, <1>14 DEF TasksOf, TasksOnFile
  <2>2. \A u : u \in TasksOf(j)' <=> u \in TasksOf(j)
    BY <1>1, <1>2, <2>1 DEF TasksOf, TasksOnFile
  <2>3. \A u \in TasksOf(j) : task'[u] = task[u]
    BY <1>1, <2>1 DEF TasksOf, TasksOnFile
  <2> QED
    BY <2>1, <2>2, <2>3 DEF Live
<1> QED
  BY <1>1, <1>2, <1>10, <1>11, <1>12, <1>13, <1>14

\* An entry is logged, or written, on a task on file; or it is gone.
LEMMA EntryWritten ==
  ASSUME ProjectRows, NEW e \in EntryIds, NEW row \in EntryRecords,
         row = GoneEntry \/ (/\ row.task \in TasksOnFile /\ row.hours \in 1..MaxHours
                             /\ entry[e] = NoEntry \/ entry[e].task = row.task),
         entry' = [entry EXCEPT ![e] = row], UNCHANGED <<project, task, byHand>>
  PROVE  /\ ProjectRows' /\ TasksKeep /\ EntriesKeep
         /\ entry'[e] = row /\ \A f \in EntryIds \ {e} : entry'[f] = entry[f]
         /\ EntriesOnFile' = IF row = GoneEntry THEN EntriesOnFile \ {e} ELSE EntriesOnFile \cup {e}
         /\ Parents' = Parents /\ TasksOnFile' = TasksOnFile /\ ProjectsOnFile' = ProjectsOnFile
         /\ \A j : TasksOf(j)' = TasksOf(j) /\ Live(j)' = Live(j)
<1>1. entry'[e] = row /\ \A f \in EntryIds \ {e} : entry'[f] = entry[f]
  BY DEF ProjectRows
<1>2. /\ ProjectsOnFile' = ProjectsOnFile /\ TasksOnFile' = TasksOnFile /\ Parents' = Parents
      /\ \A j : TasksOf(j)' = TasksOf(j)
  BY DEF ProjectsOnFile, TasksOnFile, Parents, TasksOf
<1>3. \A j : Live(j)' = Live(j)
  BY <1>2 DEF Live
<1>4. NoEntry.task = NoParent /\ GoneEntry.task = NoParent /\ NoEntry # GoneEntry
  BY DEF NoEntry, GoneEntry
<1>5. \A t \in TasksOnFile : t \in TaskIds /\ t # NoParent
  BY TaskIdsAssumption DEF TasksOnFile
<1>6. row # GoneEntry => row # NoEntry /\ row.task \in TasksOnFile /\ row.hours \in 1..MaxHours
  BY <1>4, <1>5
<1>7. EntriesOnFile' = IF row = GoneEntry THEN EntriesOnFile \ {e} ELSE EntriesOnFile \cup {e}
  <2>1. \A f \in EntryIds \ {e} : f \in EntriesOnFile' <=> f \in EntriesOnFile
    BY <1>1 DEF EntriesOnFile
  <2>2. e \in EntriesOnFile' <=> row # GoneEntry
    BY <1>1, <1>4, <1>6 DEF EntriesOnFile
  <2>3. EntriesOnFile \subseteq EntryIds /\ EntriesOnFile' \subseteq EntryIds
    BY DEF EntriesOnFile
  <2> QED
    BY <2>1, <2>2, <2>3
<1>8. ProjectRows'
  <2>1. entry' \in [EntryIds -> EntryRecords]
    BY DEF ProjectRows
  <2>2. ASSUME NEW f \in EntriesOnFile'
        PROVE  entry'[f].task \in TasksOnFile' /\ entry'[f].hours \in 1..MaxHours
    <3>1. CASE f = e
      BY <1>1, <1>2, <1>6, <1>7, <2>2, <3>1
    <3>2. CASE f # e
      <4>1. f \in EntriesOnFile /\ entry'[f] = entry[f]
        BY <1>1, <1>7, <2>2, <3>2 DEF EntriesOnFile
      <4> QED
        BY <1>2, <4>1 DEF ProjectRows
    <3> QED
      BY <3>1, <3>2
  <2> QED
    BY <1>2, <2>1, <2>2 DEF ProjectRows
<1>9. TasksKeep
  BY <1>2 DEF TasksKeep, WasIn
<1>10. EntriesKeep
  <2> SUFFICES ASSUME NEW f \in EntryIds, NEW t \in TaskIds, WasLogged(f, t)
               PROVE  WasLogged(f, t)'
    BY DEF EntriesKeep
  <2>1. CASE f # e
    BY <1>1, <2>1 DEF WasLogged, EntriesOnFile
  <2>2. CASE f = e /\ row = GoneEntry
    BY <1>1, <1>4, <1>7, <2>2 DEF WasLogged
  <2>3. CASE f = e /\ row # GoneEntry
    <3>1. entry[e] # NoEntry /\ entry[e].task = row.task
      BY <2>3 DEF WasLogged
    <3>2. e \in EntriesOnFile
      BY <1>4, <1>5, <1>6, <2>3, <3>1 DEF EntriesOnFile
    <3> QED
      BY <1>1, <1>6, <2>3, <3>1, <3>2 DEF WasLogged
  <2> QED
    BY <2>1, <2>2, <2>3
<1> QED
  BY <1>1, <1>2, <1>3, <1>7, <1>8, <1>9, <1>10

\* Tasks are deleted, with what was logged on them, and none that stays is under
\* one of them.
LEMMA TasksRemoved ==
  ASSUME ProjectRows, NEW S \in SUBSET TaskIds,
         \A t \in TasksOnFile \ S : task[t].parent \notin S,
         project' \in [ProjectIds -> ProjectRecords],
         \A t \in TasksOnFile \ S : task[t].project \in ProjectsOnFile',
         task' = [t \in TaskIds |-> IF t \in S THEN GoneTask ELSE task[t]],
         entry' = [e \in EntryIds |-> IF entry[e].task \in S THEN GoneEntry ELSE entry[e]],
         UNCHANGED byHand
  PROVE  /\ ProjectRows' /\ TasksKeep /\ EntriesKeep
         /\ TasksOnFile' = TasksOnFile \ S /\ \A t \in TasksOnFile \ S : task'[t] = task[t]
         /\ \A t \in TasksOnFile \ S :
              EntriesOf(t)' = EntriesOf(t) /\ \A e \in EntriesOf(t) : entry'[e] = entry[e]
         /\ Parents' \in [TaskIds -> TaskIds \cup {NoParent}]
         /\ \A t \in TaskIds : Parents'[t] \in {Parents[t], NoParent}
<1>1. GoneTask \in TaskRecords /\ GoneTask.parent = NoParent /\ GoneTask.status = "gone"
  BY DEF GoneTask, NoTask, TaskRecords
<1>2. GoneEntry \in EntryRecords /\ GoneEntry.task = NoParent /\ NoEntry # GoneEntry
  BY EntryIdsAssumption DEF GoneEntry, EntryRecords, NoEntry
<1>3. /\ \A t \in TaskIds \ S : task'[t] = task[t]
      /\ \A t \in S : task'[t] = GoneTask
  OBVIOUS
<1>4. TasksOnFile' = TasksOnFile \ S
  <2>1. "gone" \notin TaskStatuses
    BY DEF TaskStatuses
  <2> QED
    BY <1>1, <1>3, <2>1 DEF TasksOnFile
<1>5. \A t \in TasksOnFile \ S : t \in TaskIds \ S /\ task'[t] = task[t] /\ t # NoParent
  BY <1>3, TaskIdsAssumption DEF TasksOnFile
<1>6. \A e \in EntryIds :
        /\ entry[e].task \in S => entry'[e] = GoneEntry /\ e \notin EntriesOnFile'
        /\ entry[e].task \notin S =>
             entry'[e] = entry[e] /\ (e \in EntriesOnFile' <=> e \in EntriesOnFile)
  BY <1>2 DEF EntriesOnFile
<1>7. task' \in [TaskIds -> TaskRecords] /\ entry' \in [EntryIds -> EntryRecords]
  BY <1>1, <1>2 DEF ProjectRows
<1>8. \A t \in TaskIds \ TasksOnFile' : task'[t] \in {NoTask, GoneTask}
  BY <1>3, <1>4 DEF ProjectRows
<1>9. ASSUME NEW t \in TasksOnFile'
      PROVE  /\ task'[t].project \in ProjectsOnFile'
             /\ task'[t].parent # NoParent => task'[t].parent \in TasksOf(task[t].project)'
  <2>1. t \in TasksOnFile \ S /\ task'[t] = task[t]
    BY <1>4, <1>5
  <2>2. task[t].parent # NoParent => task[t].parent \in TasksOf(task[t].project)
    BY <2>1 DEF ProjectRows
  <2>3. task[t].parent # NoParent =>
          /\ task[t].parent \in TasksOnFile \ S
          /\ task[task[t].parent].project = task[t].project
    BY <2>1, <2>2 DEF TasksOf
  <2> QED
    BY <1>4, <1>5, <2>1, <2>3 DEF TasksOf
<1>10. ASSUME NEW e \in EntriesOnFile'
       PROVE  entry'[e].task \in TasksOnFile' /\ entry'[e].hours \in 1..MaxHours
  <2>1. e \in EntryIds /\ e \in EntriesOnFile /\ entry[e].task \notin S /\ entry'[e] = entry[e]
    BY <1>6, <1>10 DEF EntriesOnFile
  <2> QED
    BY <1>4, <2>1 DEF ProjectRows
<1>11. ProjectRows'
  <2>1. byHand' \subseteq ProjectIds
    BY DEF ProjectRows
  <2>2. \A t \in TasksOnFile' : task'[t] = task[t]
    BY <1>4, <1>5
  <2> QED
    BY <1>7, <1>8, <1>9, <1>10, <2>1, <2>2 DEF ProjectRows, TasksOf
<1>12. TasksKeep
  <2> SUFFICES ASSUME NEW t \in TaskIds, NEW j \in ProjectIds, WasIn(t, j) PROVE WasIn(t, j)'
    BY DEF TasksKeep
  <2>1. CASE t \in S
    BY <1>1, <1>3, <1>4, <2>1 DEF WasIn
  <2>2. CASE t \notin S
    BY <1>3, <1>4, <2>2 DEF WasIn
  <2> QED
    BY <2>1, <2>2
<1>13. EntriesKeep
  <2> SUFFICES ASSUME NEW e \in EntryIds, NEW t \in TaskIds, WasLogged(e, t)
               PROVE  WasLogged(e, t)'
    BY DEF EntriesKeep
  <2>1. CASE entry[e].task \in S
    BY <1>2, <1>6, <2>1 DEF WasLogged
  <2>2. CASE entry[e].task \notin S
    BY <1>6, <2>2 DEF WasLogged
  <2> QED
    BY <2>1, <2>2
<1>14. ASSUME NEW t \in TasksOnFile \ S
       PROVE  EntriesOf(t)' = EntriesOf(t) /\ \A e \in EntriesOf(t) : entry'[e] = entry[e]
  <2>1. \A e \in EntriesOf(t) : e \in EntryIds /\ entry[e].task \notin S
    BY DEF EntriesOf, EntriesOnFile
  <2>2. \A e \in EntriesOf(t)' : e \in EntryIds /\ entry'[e].task = t /\ e \in EntriesOnFile'
    BY DEF EntriesOf, EntriesOnFile
  <2>3. \A e \in EntriesOf(t) : e \in EntriesOf(t)' /\ entry'[e] = entry[e]
    BY <1>6, <2>1 DEF EntriesOf
  <2>4. \A e \in EntriesOf(t)' : e \in EntriesOf(t)
    BY <1>6, <2>2 DEF EntriesOf
  <2> QED
    BY <2>3, <2>4
<1>15. /\ Parents' \in [TaskIds -> TaskIds \cup {NoParent}]
       /\ \A t \in TaskIds : Parents'[t] \in {Parents[t], NoParent}
  <2>1. \A t \in TaskIds : task'[t].parent \in {task[t].parent, NoParent}
                           /\ task'[t].parent \in TaskIds \cup {NoParent}
    BY <1>1, <1>3, <1>7 DEF TaskRecords
  <2> QED
    BY <2>1 DEF Parents
<1> QED
  BY <1>4, <1>5, <1>11, <1>12, <1>13, <1>14, <1>15

\* The rows of tasks are a tree of parents.
LEMMA TasksAreParents ==
  ASSUME ProjectRows
  PROVE  /\ IsParents(Parents, TaskIds)
         /\ \A t \in TaskIds \ TasksOnFile : Parents[t] = NoParent
         /\ \A t \in TaskIds : Parents[t] = task[t].parent
         /\ TasksOnFile \subseteq TaskIds
BY TaskIdsAssumption DEF ProjectRows, TaskRecords, Parents, IsParents, TasksOnFile, NoTask, GoneTask

\* A task on file was so from when it was made.
LEMMA OnFileWasIn ==
  ASSUME NEW j, NEW t \in TasksOf(j)
  PROVE  WasIn(t, j) /\ t \in TaskIds
BY DEF TasksOf, WasIn, TasksOnFile, TaskStatuses

\* A task that is read can be written, in the project it is in.
LEMMA TaskRead ==
  ASSUME ProjectRows, NEW t \in TasksOnFile, NEW row \in TaskRecords,
         row.status \in TaskStatuses, row.project = task[t].project,
         row.parent = task[t].parent \/ row.parent \in TasksOf(row.project)
  PROVE  /\ t \in TaskIds /\ row.project \in ProjectIds
         /\ WasIn(t, row.project)
         /\ row.parent # NoParent => WasIn(row.parent, row.project)
<1>1. /\ t \in TaskIds /\ task[t] \in TaskRecords /\ t \in TasksOf(task[t].project)
      /\ task[t].project \in ProjectsOnFile /\ task[t].project \in ProjectIds
      /\ task[t].parent # NoParent => task[t].parent \in TasksOf(task[t].project)
  BY DEF ProjectRows, TasksOnFile, TasksOf, ProjectsOnFile
<1> QED
  BY <1>1, OnFileWasIn

\* What a request reads before the first write of its handler.
LEMMA ProjectsRead ==
  ASSUME HandlersInv, ProjectRows, NEW s \in Slots, At(s, "idle"), ProjectsRequest(s)
  PROVE  /\ UNCHANGED projectVars /\ ProjectLocals(s)' /\ ProjectCarried(s)'
         /\ \A r \in Slots \ {s} : slot'[r] = slot[r]
         /\ InTurn' => \A r \in Slots \ {s} : At(r, "idle")
         /\ agenda' = agenda
<1> DEFINE Goal == /\ UNCHANGED projectVars /\ ProjectLocals(s)' /\ ProjectCarried(s)'
                   /\ \A r \in Slots \ {s} : slot'[r] = slot[r]
                   /\ InTurn' => \A r \in Slots \ {s} : At(r, "idle")
                   /\ agenda' = agenda
<1>1. ASSUME NEW request, NEW locals, Begin(s, request, locals)
      PROVE  /\ slot'[s] = locals /\ \A r \in Slots \ {s} : slot'[r] = slot[r]
             /\ InTurn' => \A r \in Slots \ {s} : At(r, "idle")
             /\ agenda' = agenda
  BY <1>1 DEF Begin, HandlersInv, InTurn
<1>2. ASSUME NEW j \in ProjectIds, NEW byhand \in BOOLEAN,
             NEW row \in [status : ProjectStatuses, progress : 0..100],
             byhand \/ row.progress = project[j].progress, NEW request,
             Begin(s, request,
                   [step |-> "project.write", id |-> j, byHand |-> byhand, row |-> row]),
             UNCHANGED projectVars
      PROVE  Goal
  <2>1. slot'[s] = [step |-> "project.write", id |-> j, byHand |-> byhand, row |-> row]
    BY <1>1, <1>2
  <2>2. ProjectLocals(s)'
    BY <2>1 DEF ProjectLocals, At
  <2>3. ProjectCarried(s)'
    BY <1>2, <2>1 DEF ProjectCarried, At, projectVars
  <2> QED
    BY <1>1, <1>2, <2>2, <2>3
<1>3. ASSUME NEW t \in TasksOnFile, NEW row \in TaskRecords,
             t \in TaskIds, row.status \in TaskStatuses, row.project \in ProjectIds,
             WasIn(t, row.project), row.parent # NoParent => WasIn(row.parent, row.project),
             row.parent = task[t].parent \/ ~WouldLoop(Parents, t, row.parent),
             row.parent = task[t].parent \/ row.parent \in TaskIds,
             NEW request,
             Begin(s, request, [step |-> "task.write", id |-> t, row |-> row]),
             UNCHANGED projectVars
      PROVE  Goal
  <2>1. slot'[s] = [step |-> "task.write", id |-> t, row |-> row]
    BY <1>1, <1>3
  <2>2. task' = task /\ TasksOnFile' = TasksOnFile /\ Parents' = Parents
    BY <1>3 DEF projectVars, TasksOnFile, Parents
  <2>3. ProjectLocals(s)'
    BY <1>3, <2>1, <2>2 DEF ProjectLocals, At, WasIn
  <2>4. \/ row.parent = task[t].parent
        \/ \A k \in 0..MaxHops : ~Reaches(Parents, TaskIds, row.parent, t, k)
    BY <1>3, TasksAreParents, MetIsReached, MaxHopsAssumption DEF WouldLoop
  <2>5. ProjectCarried(s)'
    BY <2>1, <2>2, <2>4 DEF ProjectCarried, At
  <2> QED
    BY <1>1, <1>3, <2>3, <2>5
<1> HIDE DEF Goal
<1>4. ASSUME ProjectRequest(s) PROVE Goal
  <2>1. ASSUME NEW j \in ProjectIds, NEW percent \in Percents, ReadProjectToUpdate(s, j, percent)
        PROVE  Goal
    <3> DEFINE row == [project[j] EXCEPT !.progress = percent]
    <3>1. row \in [status : ProjectStatuses, progress : 0..100]
      <4>1. /\ project[j] \in ProjectRecords /\ project[j].status \in ProjectStatuses
            /\ percent \in 0..100
        BY <2>1, PercentsAssumption DEF ReadProjectToUpdate, ProjectsOnFile, ProjectRows
      <4> QED
        BY <4>1 DEF ProjectRecords
    <3>2. /\ Begin(s, "project.update",
                   [step |-> "project.write", id |-> j, byHand |-> TRUE, row |-> row])
          /\ UNCHANGED projectVars
      BY <2>1 DEF ReadProjectToUpdate
    <3> HIDE DEF row
    <3> QED
      BY <1>2, <3>1, <3>2
  <2>2. ASSUME NEW j \in ProjectIds, NEW status \in ProjectStatuses,
               ReadProjectToSetStatus(s, j, status)
        PROVE  Goal
    <3> DEFINE row == [status |-> status,
                       progress |-> IF status = "completed" THEN 100 ELSE project[j].progress]
               byhand == status = "completed"
    <3>1. row \in [status : ProjectStatuses, progress : 0..100]
      <4>1. project[j] \in ProjectRecords
        BY DEF ProjectRows
      <4> QED
        BY <4>1 DEF ProjectRecords
    <3>2. /\ Begin(s, "project.status",
                   [step |-> "project.write", id |-> j, byHand |-> byhand, row |-> row])
          /\ UNCHANGED projectVars
      BY <2>2 DEF ReadProjectToSetStatus
    <3>3. byhand \in BOOLEAN /\ (byhand \/ row.progress = project[j].progress)
      OBVIOUS
    <3> HIDE DEF row, byhand
    <3> QED
      BY <1>2, <3>1, <3>2, <3>3
  <2> QED
    BY <1>4, <2>1, <2>2 DEF ProjectRequest
<1>5. ASSUME TaskRequest(s) PROVE Goal
  <2>1. ASSUME NEW j \in ProjectIds, NEW parent \in TaskIds \cup {NoParent},
               ReadToCreateTask(s, j, parent)
        PROVE  Goal
    <3>1. /\ slot'[s] = [step |-> "task.insert", project |-> j, parent |-> parent]
          /\ UNCHANGED projectVars /\ MayHangUnder(j, parent)
      BY <1>1, <2>1 DEF ReadToCreateTask
    <3>2. parent # NoParent => WasIn(parent, j)
      BY <3>1, OnFileWasIn DEF MayHangUnder
    <3>3. task' = task /\ TasksOnFile' = TasksOnFile
      BY <3>1 DEF projectVars, TasksOnFile
    <3>4. ProjectLocals(s)'
      BY <3>1, <3>2, <3>3 DEF ProjectLocals, At, WasIn
    <3>5. ProjectCarried(s)'
      BY <3>1 DEF ProjectCarried, At
    <3> QED
      BY <1>1, <2>1, <3>1, <3>4, <3>5 DEF ReadToCreateTask, Goal
  <2>2. \A t \in TasksOnFile : task[t] \in TaskRecords /\ task[t].status \in TaskStatuses
    BY DEF ProjectRows, TasksOnFile
  <2>3. ASSUME NEW t \in TaskIds, NEW parent \in TaskIds, ReadTaskToMove(s, t, parent)
        PROVE  Goal
    <3> DEFINE row == [task[t] EXCEPT !.parent = parent]
    <3>1. /\ t \in TasksOnFile /\ parent \in TasksOf(task[t].project)
          /\ ~WouldLoop(Parents, t, parent) /\ UNCHANGED projectVars
          /\ Begin(s, "task.update", [step |-> "task.write", id |-> t, row |-> row])
      BY <2>3 DEF ReadTaskToMove, MayHangUnder
    <3>2. /\ row \in TaskRecords /\ row.status \in TaskStatuses
          /\ row.project = task[t].project /\ row.parent = parent
      BY <2>2, <2>3, <3>1 DEF TaskRecords
    <3> HIDE DEF row
    <3> QED
      BY <1>3, <3>1, <3>2, TaskRead
  <2>4. ASSUME NEW t \in TaskIds, NEW percent \in Percents, ReadTaskToReport(s, t, percent)
        PROVE  Goal
    <3> DEFINE row == [task[t] EXCEPT !.progress = percent]
    <3>1. /\ t \in TasksOnFile /\ UNCHANGED projectVars /\ percent \in 0..100
          /\ Begin(s, "task.report", [step |-> "task.write", id |-> t, row |-> row])
      BY <2>4, PercentsAssumption DEF ReadTaskToReport
    <3>2. /\ row \in TaskRecords /\ row.status \in TaskStatuses
          /\ row.project = task[t].project /\ row.parent = task[t].parent
      BY <2>2, <3>1 DEF TaskRecords
    <3> HIDE DEF row
    <3> QED
      BY <1>3, <3>1, <3>2, TaskRead
  <2>5. ASSUME NEW t \in TaskIds, NEW status \in TaskStatuses, ReadTaskToSetStatus(s, t, status)
        PROVE  Goal
    <3>1. PICK half : half = [task[t] EXCEPT !.status = status]
      OBVIOUS
    <3>2. PICK row : row = [half EXCEPT !.progress = ImpliedProgress(status, @)]
      OBVIOUS
    <3>3. row = [task[t] EXCEPT !.status = status, !.progress = ImpliedProgress(status, @)]
      BY <3>1, <3>2, Zenon
    <3>4. /\ t \in TasksOnFile /\ UNCHANGED projectVars
          /\ Begin(s, "task.status", [step |-> "task.write", id |-> t, row |-> row])
      <4> DEFINE read == [task[t] EXCEPT !.status = status,
                                         !.progress = ImpliedProgress(status, @)]
      <4>1. /\ t \in TasksOnFile /\ UNCHANGED projectVars
            /\ Begin(s, "task.status", [step |-> "task.write", id |-> t, row |-> read])
        BY <2>5, Zenon DEF ReadTaskToSetStatus
      <4>2. row = read
        BY <3>3, Zenon
      <4> HIDE DEF read
      <4> QED
        BY <4>1, <4>2, Zenon
    <3>5. \A percent \in 0..100 : ImpliedProgress(status, percent) \in 0..100
      <4>1. CASE status = "todo"
        BY <4>1 DEF ImpliedProgress
      <4>2. CASE status = "done"
        BY <4>2 DEF ImpliedProgress
      <4>3. CASE status \notin {"todo", "done"}
        BY <4>3 DEF ImpliedProgress
      <4> QED
        BY <4>1, <4>2, <4>3
    <3>6. /\ half \in TaskRecords /\ half.status = status /\ half.project = task[t].project
          /\ half.parent = task[t].parent
      BY <2>2, <2>5, <3>1, <3>4 DEF TaskRecords
    <3>7. ImpliedProgress(status, half.progress) \in 0..100
      BY <3>5, <3>6 DEF TaskRecords
    <3>8. /\ row \in TaskRecords /\ row.status \in TaskStatuses
          /\ row.project = task[t].project /\ row.parent = task[t].parent
      BY <2>5, <3>2, <3>6, <3>7 DEF TaskRecords
    <3> QED
      BY <1>3, <3>4, <3>8, TaskRead
  <2>6. ASSUME NEW t \in TaskIds, ReadTaskToDelete(s, t) PROVE Goal
    <3>1. /\ slot'[s] = [step |-> "task.delete", id |-> t, project |-> task[t].project]
          /\ UNCHANGED projectVars /\ t \in TasksOnFile
      BY <1>1, <2>6 DEF ReadTaskToDelete
    <3>2. WasIn(t, task[t].project) /\ task[t].project \in ProjectIds
      BY <3>1, OnFileWasIn DEF TasksOf, ProjectRows, ProjectsOnFile
    <3>3. task' = task /\ TasksOnFile' = TasksOnFile
      BY <3>1 DEF projectVars, TasksOnFile
    <3>4. ProjectLocals(s)'
      BY <3>1, <3>2, <3>3 DEF ProjectLocals, At, WasIn
    <3>5. ProjectCarried(s)'
      BY <3>1 DEF ProjectCarried, At
    <3> QED
      BY <1>1, <2>6, <3>1, <3>4, <3>5 DEF ReadTaskToDelete, Goal
  <2> QED
    BY <1>5, <2>1, <2>3, <2>4, <2>5, <2>6 DEF TaskRequest
<1>6. ASSUME HoursRequest(s) PROVE Goal
  <2>1. ASSUME NEW t \in TaskIds, NEW n \in 1..MaxHours, ReadToLogHours(s, t, n) PROVE Goal
    <3>1. /\ slot'[s] = [step |-> "hours.insert", task |-> t, hours |-> n]
          /\ UNCHANGED projectVars
      BY <1>1, <2>1 DEF ReadToLogHours
    <3>2. ProjectLocals(s)' /\ ProjectCarried(s)'
      BY <3>1 DEF ProjectLocals, ProjectCarried, At
    <3> QED
      BY <1>1, <2>1, <3>1, <3>2 DEF ReadToLogHours, Goal
  <2>2. ASSUME NEW e \in EntryIds, NEW n \in 0..MaxHours, NEW request, e \in EntriesOnFile,
               Begin(s, request,
                     [step |-> "hours.write", id |-> e, task |-> entry[e].task, hours |-> n]),
               UNCHANGED projectVars
        PROVE  Goal
    <3>1. slot'[s] = [step |-> "hours.write", id |-> e, task |-> entry[e].task, hours |-> n]
      BY <1>1, <2>2
    <3>2. entry[e].task \in TaskIds /\ WasLogged(e, entry[e].task)
      BY <2>2 DEF ProjectRows, WasLogged, EntriesOnFile, TasksOnFile
    <3>3. entry' = entry /\ EntriesOnFile' = EntriesOnFile
      BY <2>2 DEF projectVars, EntriesOnFile
    <3>4. ProjectLocals(s)'
      BY <3>1, <3>2, <3>3 DEF ProjectLocals, At, WasLogged
    <3>5. ProjectCarried(s)'
      BY <3>1 DEF ProjectCarried, At
    <3> QED
      BY <1>1, <2>2, <3>1, <3>4, <3>5 DEF Goal
  <2>3. 0 \in 0..MaxHours /\ \A n \in 1..MaxHours : n \in 0..MaxHours
    BY EntryIdsAssumption
  <2> QED
    BY <1>6, <2>1, <2>2, <2>3 DEF HoursRequest, ReadEntryToDelete, ReadEntryToUpdate
<1>7. Goal
  BY <1>4, <1>5, <1>6 DEF ProjectsRequest
<1> QED
  BY <1>7 DEF Goal

\* The tasks that have their hours, or await them, do so after a step that leaves
\* them and their entries alone.
LEMMA HoursFitStill ==
  ASSUME HoursFit, NEW s \in Slots, \A r \in Slots \ {s} : slot'[r] = slot[r],
         \A t \in TasksOnFile' :
           \/ Syncing(t)' \/ task'[t].hours = HoursLogged(t)'
           \/ /\ t \in TasksOnFile /\ task'[t].hours = task[t].hours
              /\ HoursLogged(t)' = HoursLogged(t)
              /\ slot'[s] = slot[s] \/ ~(slot[s].step \in HoursSteps /\ slot[s].task = t)
  PROVE  HoursFit'
<1> SUFFICES ASSUME NEW t \in TasksOnFile'
             PROVE  task'[t].hours = HoursLogged(t)' \/ Syncing(t)'
  BY DEF HoursFit
<1>1. CASE /\ t \in TasksOnFile /\ task'[t].hours = task[t].hours
           /\ HoursLogged(t)' = HoursLogged(t)
           /\ slot'[s] = slot[s] \/ ~(slot[s].step \in HoursSteps /\ slot[s].task = t)
  <2>1. CASE task[t].hours = HoursLogged(t)
    BY <1>1, <2>1
  <2>2. CASE Syncing(t)
    <3>1. PICK r \in Slots : slot[r].step \in HoursSteps /\ slot[r].task = t
      BY <2>2 DEF Syncing
    <3>2. slot'[r] = slot[r]
      BY <1>1, <3>1
    <3> QED
      BY <3>1, <3>2 DEF Syncing
  <2> QED
    BY <1>1, <2>1, <2>2 DEF HoursFit
<1> QED
  BY <1>1

\* A project is as far as its tasks after a step that leaves them alone.
LEMMA ProgressFitsStill ==
  ASSUME ProgressFits, NEW s \in Slots, \A r \in Slots \ {s} : At(r, "idle"),
         \A j \in ProjectsOnFile' \ byHand' :
           \/ Rolling(j)' \/ project'[j].progress = RollUp(j, project[j].progress)'
           \/ /\ j \in ProjectsOnFile \ byHand /\ project'[j].progress = project[j].progress
              /\ Live(j)' = Live(j) /\ \A t \in Live(j) : task'[t].progress = task[t].progress
              /\ \/ slot'[s] = slot[s]
                 \/ slot[s].step \notin {"task.rollUp", "task.progress"} \/ slot[s].project # j
  PROVE  ProgressFits'
<1> SUFFICES ASSUME NEW j \in ProjectsOnFile' \ byHand',
                    j \in ProjectsOnFile \ byHand, project'[j].progress = project[j].progress,
                    Live(j)' = Live(j), \A t \in Live(j) : task'[t].progress = task[t].progress,
                    \/ slot'[s] = slot[s]
                    \/ slot[s].step \notin {"task.rollUp", "task.progress"} \/ slot[s].project # j
             PROVE  project'[j].progress = RollUp(j, project[j].progress)' \/ Rolling(j)'
  BY DEF ProgressFits
<1>1. CASE project[j].progress = RollUp(j, project[j].progress)
  <2> DEFINE c == project[j].progress
  <2>1. Rolled(task', Live(j), c) = Rolled(task, Live(j), c)
    BY RolledSame
  <2>2. RollUp(j, project[j].progress)' = Rolled(task', Live(j), c)
    BY RollUpIs
  <2>3. RollUp(j, project[j].progress) = Rolled(task, Live(j), c)
    BY RollUpIs
  <2> QED
    BY <1>1, <2>1, <2>2, <2>3
<1>2. CASE Rolling(j)
  <2>1. PICK r \in Slots : slot[r].step \in {"task.rollUp", "task.progress"} /\ slot[r].project = j
    BY <1>2 DEF Rolling
  <2>2. r = s /\ slot'[s] = slot[s]
    BY <2>1 DEF At
  <2> QED
    BY <2>1, <2>2 DEF Rolling
<1> QED
  BY <1>1, <1>2 DEF ProgressFits

\* What a step of one handler has to keep.
ProjectsKept(s) ==
  /\ ProjectRows' /\ TasksKeep /\ EntriesKeep
  /\ ProjectCarried(s) /\ HoursFit => HoursFit'
  /\ ProjectCarried(s) /\ NoLoops(Parents, TaskIds) => NoLoops(Parents, TaskIds)'
  /\ ProjectCarried(s) /\ ProgressFits /\ (\A r \in Slots \ {s} : At(r, "idle")) => ProgressFits'

\* A handler goes on, and the others stay where they are.
LEMMA GoesOn ==
  ASSUME HandlersInv, NEW s \in Slots, NEW x, Continue(s, x)
  PROVE  /\ slot'[s] = x /\ \A r \in Slots \ {s} : slot'[r] = slot[r]
         /\ agenda' = agenda /\ disturbed' = disturbed
BY DEF Continue, HandlersInv

\* What handlers do that write no row.
LEMMA RowsKept ==
  ASSUME ProjectRows, UNCHANGED <<project, task, entry>>, byHand' \subseteq ProjectIds
  PROVE  /\ ProjectRows' /\ TasksKeep /\ EntriesKeep
         /\ TasksOnFile' = TasksOnFile /\ ProjectsOnFile' = ProjectsOnFile
         /\ Parents' = Parents
         /\ \A j : TasksOf(j)' = TasksOf(j) /\ Live(j)' = Live(j)
         /\ \A t : EntriesOf(t)' = EntriesOf(t)
<1>1. ProjectsOnFile' = ProjectsOnFile /\ EntriesOnFile' = EntriesOnFile
  BY DEF ProjectsOnFile, EntriesOnFile
<1>2. project' \in [ProjectIds -> ProjectRecords] /\ ProjectsOnFile \subseteq ProjectsOnFile'
  BY <1>1 DEF ProjectRows
<1>3. \A t : EntriesOf(t)' = EntriesOf(t)
  BY <1>1 DEF EntriesOf
<1> QED
  BY <1>1, <1>2, <1>3, ProjectWritten

\* A step that leaves tasks and entries alone leaves the hours alone.
LEMMA HoursFitOn ==
  ASSUME ProjectRows, HoursFit, NEW s \in Slots, \A r \in Slots \ {s} : slot'[r] = slot[r],
         slot[s].step \notin HoursSteps \/ slot'[s] = slot[s],
         \A t \in TasksOnFile' :
           /\ t \in TasksOnFile /\ task'[t].hours = task[t].hours
           /\ EntriesOf(t)' = EntriesOf(t) /\ \A e \in EntriesOf(t) : entry'[e] = entry[e]
  PROVE  HoursFit'
<1>1. \A t \in TasksOnFile' : HoursLogged(t)' = HoursLogged(t)
  BY HoursStay DEF TasksOnFile
<1> QED
  BY <1>1, HoursFitStill

\* A change of a project is written.
LEMMA WriteProjectKept ==
  ASSUME HandlersInv, ProjectRows, NEW s \in Slots, ProjectLocals(s), WriteProject(s)
  PROVE  ProjectsKept(s) /\ slot'[s] = Idle
<1> DEFINE j == slot[s].id
           row == slot[s].row
<1>1. /\ slot'[s] = Idle /\ \A r \in Slots \ {s} : slot'[r] = slot[r]
      /\ UNCHANGED <<task, entry>>
  BY GoesOn DEF WriteProject, Finish
<1>2. /\ j \in ProjectIds /\ row \in [status : ProjectStatuses, progress : 0..100]
      /\ slot[s].byHand \in BOOLEAN /\ At(s, "project.write")
  BY DEF WriteProject, ProjectLocals
<1>3. /\ row \in ProjectRecords /\ row.status \in ProjectStatuses
  BY <1>2 DEF ProjectRecords
<1>4. /\ \/ project' = project
         \/ j \in ProjectsOnFile /\ project' = [project EXCEPT ![j] = row]
      /\ byHand \subseteq byHand' /\ byHand' \subseteq byHand \cup {j}
      /\ j \in ProjectsOnFile => (slot[s].byHand => j \in byHand')
  BY DEF WriteProject
<1> HIDE DEF j, row
<1>5. project' \in [ProjectIds -> ProjectRecords]
  BY <1>3, <1>4 DEF ProjectRows
<1>6. ProjectsOnFile' = ProjectsOnFile
  BY <1>2, <1>3, <1>4 DEF ProjectsOnFile, ProjectRows
<1>7. byHand' \subseteq ProjectIds
  BY <1>2, <1>4 DEF ProjectRows
<1>8. /\ ProjectRows' /\ TasksKeep /\ EntriesKeep
      /\ TasksOnFile' = TasksOnFile /\ Parents' = Parents
      /\ \A k : TasksOf(k)' = TasksOf(k) /\ Live(k)' = Live(k)
  BY <1>1, <1>5, <1>6, <1>7, ProjectWritten
<1>9. HoursFit => HoursFit'
  <2>1. \A t : EntriesOf(t)' = EntriesOf(t)
    BY <1>1 DEF EntriesOf, EntriesOnFile
  <2> QED
    BY <1>1, <1>2, <1>8, <2>1, HoursFitOn DEF At, HoursSteps
<1>10. ASSUME ProjectCarried(s), ProgressFits, \A r \in Slots \ {s} : At(r, "idle")
       PROVE  ProgressFits'
  <2>1. ASSUME NEW k \in ProjectsOnFile' \ byHand'
        PROVE  k \in ProjectsOnFile \ byHand /\ project'[k].progress = project[k].progress
    <3>1. k \in ProjectsOnFile \ byHand /\ k \in ProjectIds
      BY <1>4, <1>6 DEF ProjectsOnFile
    <3>2. CASE k = j
      <4>1. row.progress = project[j].progress
        BY <1>2, <1>4, <1>10, <2>1, <3>1, <3>2 DEF ProjectCarried, j, row
      <4> QED
        BY <1>4, <3>1, <3>2, <4>1 DEF ProjectRows
    <3>3. CASE k # j
      BY <1>4, <3>1, <3>3 DEF ProjectRows
    <3> QED
      BY <3>1, <3>2, <3>3
  <2> QED
    BY <1>1, <1>2, <1>8, <1>10, <2>1, ProgressFitsStill DEF At
<1> QED
  BY <1>1, <1>8, <1>9, <1>10 DEF ProjectsKept

\* Progress is read, and what the tasks roll up to is carried on.
LEMMA ReadProgressKept ==
  ASSUME HandlersInv, ProjectRows, NEW s \in Slots, ProjectLocals(s), ReadProgress(s)
  PROVE  /\ ProjectsKept(s) /\ ProjectLocals(s)' /\ ProjectCarried(s)'
<1> DEFINE j == slot[s].project
           progress == RollUp(j, project[j].progress)
           on == [step |-> "task.progress", project |-> j, progress |-> progress]
<1>1. /\ At(s, "task.rollUp") /\ j \in ProjectIds /\ UNCHANGED <<project, task, entry>>
  BY DEF ReadProgress, ProjectLocals, At
<1>2. \/ Continue(s, on) /\ byHand' = byHand
      \/ /\ Finish(s) /\ byHand' \in {byHand, byHand \ {j}}
         /\ j \notin ProjectsOnFile \/ progress = project[j].progress
  BY DEF ReadProgress
<1>3. /\ slot'[s] \in {on, Idle} /\ \A r \in Slots \ {s} : slot'[r] = slot[r]
      /\ slot'[s] = Idle => j \notin ProjectsOnFile \/ progress = project[j].progress
  <2> HIDE DEF progress
  <2>1. on # Idle
    BY DEF Idle
  <2> HIDE DEF on
  <2> QED
    BY <1>2, <2>1, GoesOn DEF Finish
<1>4. progress \in 0..100
  <2>1. IsFiniteSet(Live(j)) /\ \A t \in Live(j) : task[t].progress \in 0..100
    <3>1. Live(j) \subseteq TaskIds
      BY DEF Live, TasksOf, TasksOnFile
    <3>2. \A t \in TaskIds : task[t].progress \in 0..100
      BY DEF ProjectRows, TaskRecords
    <3> QED
      BY <3>1, <3>2, FS_Subset, TaskIdsAssumption
  <2>2. project[j].progress \in 0..100
    BY <1>1 DEF ProjectRows, ProjectRecords
  <2>3. progress = Rolled(task, Live(j), project[j].progress)
    BY RollUpIs
  <2> HIDE DEF progress
  <2> QED
    BY <2>1, <2>2, <2>3, RolledBounded, Zenon
<1>5. byHand' \subseteq ProjectIds
  BY <1>2 DEF ProjectRows
<1>6. /\ ProjectRows' /\ TasksKeep /\ EntriesKeep
      /\ TasksOnFile' = TasksOnFile /\ ProjectsOnFile' = ProjectsOnFile /\ Parents' = Parents
      /\ \A k : TasksOf(k)' = TasksOf(k) /\ Live(k)' = Live(k)
      /\ \A t : EntriesOf(t)' = EntriesOf(t)
  BY <1>1, <1>5, RowsKept
<1>7. \A k : RollUp(k, project[k].progress)' = RollUp(k, project[k].progress)
  <2> SUFFICES ASSUME NEW k
               PROVE  RollUp(k, project[k].progress)' = RollUp(k, project[k].progress)
    OBVIOUS
  <2>1. RollUp(k, project[k].progress)' = Rolled(task', Live(k)', project'[k].progress)
    BY RollUpIs
  <2>2. RollUp(k, project[k].progress) = Rolled(task, Live(k), project[k].progress)
    BY RollUpIs
  <2> QED
    BY <1>1, <1>6, <2>1, <2>2
<1>8. HoursFit => HoursFit'
  BY <1>1, <1>3, <1>6, HoursFitOn DEF At, HoursSteps
<1>9. ASSUME ProgressFits, \A r \in Slots \ {s} : At(r, "idle") PROVE ProgressFits'
  <2>1. ASSUME NEW k \in ProjectsOnFile' \ byHand'
        PROVE  \/ Rolling(k)' \/ project'[k].progress = RollUp(k, project[k].progress)'
               \/ /\ k \in ProjectsOnFile \ byHand
                  /\ slot[s].project # k
    <3>1. CASE k = j
      <4>1. CASE slot'[s] = on
        BY <3>1, <4>1 DEF Rolling
      <4>2. CASE slot'[s] = Idle
        <5>1. progress = project[j].progress
          BY <1>3, <1>6, <3>1, <4>2
        <5>2. RollUp(k, project[k].progress)' = project[k].progress
          BY <1>7, <3>1, <5>1
        <5> QED
          BY <1>1, <5>2
      <4> QED
        BY <1>3, <4>1, <4>2
    <3>2. CASE k # j
      BY <1>2, <1>6, <3>2
    <3> QED
      BY <3>1, <3>2
  <2> QED
    BY <1>1, <1>6, <1>9, <2>1, ProgressFitsStill
<1>10. ProjectLocals(s)' /\ ProjectCarried(s)'
  <2>1. CASE slot'[s] = Idle
    BY <2>1 DEF ProjectLocals, ProjectCarried, Idle, At
  <2>2. CASE slot'[s] = on
    <3>1. /\ slot'[s].step = "task.progress" /\ slot'[s].project = j
          /\ slot'[s].progress = progress
      <4> HIDE DEF progress
      <4> QED
        BY <2>2
    <3>2. ProjectLocals(s)'
      BY <1>1, <1>4, <3>1 DEF ProjectLocals, At
    <3>3. slot'[s].progress = RollUp(slot[s].project, project[slot[s].project].progress)'
      BY <3>1, <1>7
    <3> QED
      BY <3>1, <3>2, <3>3 DEF ProjectCarried, At
  <2> QED
    BY <1>3, <2>1, <2>2
<1> QED
  BY <1>6, <1>8, <1>9, <1>10 DEF ProjectsKept

\* The progress of a project is written.
LEMMA WriteProgressKept ==
  ASSUME HandlersInv, ProjectRows, NEW s \in Slots, ProjectLocals(s), WriteProgress(s)
  PROVE  ProjectsKept(s) /\ slot'[s] = Idle
<1> DEFINE j == slot[s].project
           progress == slot[s].progress
<1>1. /\ slot'[s] = Idle /\ \A r \in Slots \ {s} : slot'[r] = slot[r]
      /\ UNCHANGED <<task, entry>>
  BY GoesOn DEF WriteProgress, Finish
<1>2. j \in ProjectIds /\ progress \in 0..100 /\ At(s, "task.progress")
  BY DEF WriteProgress, ProjectLocals, At
<1>3. \/ /\ j \in ProjectsOnFile /\ project' = [project EXCEPT ![j].progress = progress]
         /\ byHand' = byHand \ {j}
      \/ j \notin ProjectsOnFile /\ project' = project /\ byHand' = byHand
  BY DEF WriteProgress
<1>4. ProjectCarried(s) => progress = RollUp(j, project[j].progress)
  BY <1>2 DEF ProjectCarried
<1> HIDE DEF j, progress
<1>5. /\ project' \in [ProjectIds -> ProjectRecords]
      /\ \A k \in ProjectIds : project'[k].status = project[k].status
      /\ \A k \in ProjectIds \ {j} : project'[k] = project[k]
      /\ j \in ProjectsOnFile => project'[j].progress = progress
  BY <1>2, <1>3 DEF ProjectRows, ProjectRecords
<1>6. ProjectsOnFile' = ProjectsOnFile
  BY <1>5 DEF ProjectsOnFile
<1>7. byHand' \subseteq ProjectIds
  BY <1>3 DEF ProjectRows
<1>8. /\ ProjectRows' /\ TasksKeep /\ EntriesKeep
      /\ TasksOnFile' = TasksOnFile /\ Parents' = Parents
      /\ \A k : TasksOf(k)' = TasksOf(k) /\ Live(k)' = Live(k)
  BY <1>1, <1>5, <1>6, <1>7, ProjectWritten
<1>9. HoursFit => HoursFit'
  <2>1. \A t : EntriesOf(t)' = EntriesOf(t)
    BY <1>1 DEF EntriesOf, EntriesOnFile
  <2> QED
    BY <1>1, <1>2, <1>8, <2>1, HoursFitOn DEF At, HoursSteps
<1>10. ASSUME ProjectCarried(s), ProgressFits, \A r \in Slots \ {s} : At(r, "idle")
       PROVE  ProgressFits'
  <2>1. ASSUME NEW k \in ProjectsOnFile' \ byHand'
        PROVE  \/ project'[k].progress = RollUp(k, project[k].progress)'
               \/ /\ k \in ProjectsOnFile \ byHand /\ project'[k].progress = project[k].progress
                  /\ slot[s].project # k
    <3>1. k \in ProjectsOnFile /\ k \in ProjectIds
      BY <1>6 DEF ProjectsOnFile
    <3>2. CASE k = j
      <4>1. project'[k].progress = progress /\ progress = RollUp(k, project[k].progress)
        BY <1>4, <1>5, <1>10, <3>1, <3>2
      <4>2. RollUp(k, project[k].progress)' = Rolled(task, Live(k), project'[k].progress)
        <5>1. RollUp(k, project[k].progress)' = Rolled(task', Live(k)', project'[k].progress)
          BY RollUpIs
        <5> QED
          BY <1>1, <1>8, <5>1
      <4>3. RollUp(k, project[k].progress) = Rolled(task, Live(k), project[k].progress)
        BY RollUpIs
      <4> QED
        BY <4>1, <4>2, <4>3, RolledAgain
    <3>3. CASE k # j
      BY <1>3, <1>5, <3>1, <3>3, <2>1 DEF j
    <3> QED
      BY <3>2, <3>3
  <2> QED
    BY <1>1, <1>8, <1>10, <2>1, ProgressFitsStill
<1> QED
  BY <1>1, <1>8, <1>9, <1>10 DEF ProjectsKept

\* The row of a task is written, or made, and its project is to follow.
WritesTask(s, t, row) ==
  /\ t \in TaskIds /\ row \in TaskRecords
  /\ row.status \in TaskStatuses /\ row.project \in ProjectsOnFile
  /\ row.parent = NoParent \/ row.parent \in TasksOf(row.project)
  /\ task[t] = NoTask \/ t \in TasksOf(row.project)
  /\ row.hours = IF task[t] = NoTask THEN 0 ELSE task[t].hours
  /\ task' = [task EXCEPT ![t] = row] /\ UNCHANGED <<project, entry, byHand>>
  /\ slot[s].step \notin {"hours.sync", "hours.store", "task.rollUp", "task.progress"}
  /\ Continue(s, [step |-> "task.rollUp", project |-> row.project])
  /\ \/ task[t] = NoTask
     \/ ~ProjectCarried(s) \/ row.parent = task[t].parent
     \/ \A k \in 0..MaxHops : ~Reaches(Parents, TaskIds, row.parent, t, k)

\* Hours and progress fit, but for the progress that is to follow.
LEMMA TaskWrittenFits ==
  ASSUME HandlersInv, ProjectRows, NEW s \in Slots, NEW t, NEW row, WritesTask(s, t, row)
  PROVE  ProjectsKept(s) /\ slot'[s] = [step |-> "task.rollUp", project |-> row.project]
<1>0. /\ t \in TaskIds /\ row \in TaskRecords
      /\ row.status \in TaskStatuses /\ row.project \in ProjectsOnFile
      /\ row.parent = NoParent \/ row.parent \in TasksOf(row.project)
      /\ task[t] = NoTask \/ t \in TasksOf(row.project)
      /\ row.hours = IF task[t] = NoTask THEN 0 ELSE task[t].hours
      /\ task' = [task EXCEPT ![t] = row] /\ UNCHANGED <<project, entry, byHand>>
      /\ slot[s].step \notin {"hours.sync", "hours.store", "task.rollUp", "task.progress"}
      /\ Continue(s, [step |-> "task.rollUp", project |-> row.project])
      /\ \/ task[t] = NoTask
         \/ ~ProjectCarried(s) \/ row.parent = task[t].parent
         \/ \A k \in 0..MaxHops : ~Reaches(Parents, TaskIds, row.parent, t, k)
  BY DEF WritesTask
<1>1. /\ slot'[s] = [step |-> "task.rollUp", project |-> row.project]
      /\ \A r \in Slots \ {s} : slot'[r] = slot[r]
  BY <1>0, GoesOn
<1>2. /\ ProjectRows' /\ TasksKeep /\ EntriesKeep
      /\ task'[t] = row /\ \A u \in TaskIds \ {t} : task'[u] = task[u]
      /\ TasksOnFile' = TasksOnFile \cup {t}
      /\ Parents' = [Parents EXCEPT ![t] = row.parent]
      /\ \A j \in ProjectIds \ {row.project} : Live(j)' = Live(j) /\ t \notin Live(j)
  BY <1>0, TaskWritten
<1>3. /\ task[t] = NoTask => t \notin TasksOnFile
      /\ t \notin TasksOnFile => task[t] = NoTask
  BY <1>0 DEF TasksOnFile, NoTask, TaskStatuses, TasksOf
<1>4. ProjectsOnFile' = ProjectsOnFile
  BY <1>0 DEF ProjectsOnFile
<1>5. \A u : EntriesOf(u)' = EntriesOf(u)
  BY <1>0 DEF EntriesOf, EntriesOnFile
<1>6. ASSUME HoursFit PROVE HoursFit'
  <2>1. \A u \in TaskIds : HoursLogged(u)' = HoursLogged(u)
    BY <1>0, <1>5, HoursStay
  <2>2. t \notin TasksOnFile => HoursLogged(t) = 0
    <3>1. t \notin TasksOnFile => EntriesOf(t) = {}
      BY <1>0 DEF EntriesOf, ProjectRows
    <3> QED
      BY <1>0, <3>1, HoursTyped
  <2>3. ASSUME NEW u \in TasksOnFile'
        PROVE  \/ task'[u].hours = HoursLogged(u)'
               \/ /\ u \in TasksOnFile /\ task'[u].hours = task[u].hours
                  /\ HoursLogged(u)' = HoursLogged(u)
    <3>1. u \in TaskIds
      BY <1>0 DEF TasksOnFile
    <3>2. CASE u = t
      BY <1>0, <1>2, <1>3, <2>1, <2>2, <3>1, <3>2
    <3>3. CASE u # t
      BY <1>0, <1>2, <2>1, <3>1, <3>3
    <3> QED
      BY <1>0, <3>2, <3>3
  <2> QED
    BY <1>0, <1>1, <1>6, <2>3, HoursFitStill DEF At, HoursSteps
<1>7. ASSUME ProjectCarried(s), NoLoops(Parents, TaskIds) PROVE NoLoops(Parents, TaskIds)'
  <2>1. row.parent \in TaskIds \cup {NoParent}
    BY <1>0 DEF TaskRecords
  <2>2. ASSUME \A k \in 0..MaxHops : ~Reaches(Parents, TaskIds, row.parent, t, k)
        PROVE  NoLoops(Parents', TaskIds)
    BY <1>0, <1>2, <1>7, <2>1, <2>2, TasksAreParents, Rehung
  <2>3. CASE row.parent = task[t].parent
    <3>1. [Parents EXCEPT ![t] = row.parent] = Parents
      BY <1>0, <2>3, TasksAreParents DEF IsParents
    <3>2. Parents' = Parents
      BY <1>0, <1>2, <3>1
    <3> QED
      BY <1>0, <1>7, <3>2
  <2>4. CASE task[t] = NoTask /\ row.parent # NoParent
    <3>1. t \notin TasksOnFile /\ row.parent \in TasksOnFile
      BY <1>0, <1>3, <2>4 DEF TasksOf
    <3>2. \A k \in 0..MaxHops : ~Reaches(Parents, TaskIds, row.parent, t, k)
      <4> SUFFICES ASSUME NEW k \in 0..MaxHops, Reaches(Parents, TaskIds, row.parent, t, k)
                   PROVE  FALSE
        OBVIOUS
      <4>1. row.parent \in TaskIds /\ row.parent # t /\ IsParents(Parents, TaskIds)
        BY <1>0, <3>1, TasksAreParents DEF TasksOnFile
      <4>2. k # 0
        BY <1>0, <4>1, ReachesMore
      <4>3. k - 1 \in Nat /\ (k - 1) + 1 = k
        BY <1>0, <4>2, MaxHopsAssumption
      <4> DEFINE m == k - 1
      <4> HIDE DEF m
      <4>4. PICK z \in TaskIds : t = Parents[z]
        <5>1. m \in Nat /\ Reaches(Parents, TaskIds, row.parent, t, m + 1)
          BY <1>0, <4>3 DEF m
        <5>2. PICK x \in TaskIds : x = row.parent
          BY <1>0, <4>1
        <5>3. \A n \in Nat, y \in TaskIds :
                Reaches(Parents, TaskIds, x, y, n + 1) <=>
                  \E z \in TaskIds : Reaches(Parents, TaskIds, x, z, n) /\ y = Parents[z]
          BY <1>0, <4>1, ReachesMore
        <5>4. Reaches(Parents, TaskIds, x, t, m + 1)
          BY <1>0, <5>1, <5>2
        <5> QED
          BY <1>0, <5>1, <5>3, <5>4
      <4>5. z \in TasksOnFile /\ task[z].parent = t
        BY <1>0, <4>4, TasksAreParents, TaskIdsAssumption
      <4>6. t \in TasksOf(task[z].project)
        BY <1>0, <4>5, TaskIdsAssumption DEF ProjectRows
      <4> QED
        BY <1>0, <3>1, <4>6 DEF TasksOf
    <3> QED
      BY <1>0, <2>2, <3>2
  <2>5. CASE task[t] = NoTask /\ row.parent = NoParent
    BY <1>0, <2>3, <2>5 DEF NoTask
  <2> QED
    BY <1>0, <1>7, <2>2, <2>3, <2>4, <2>5
<1>8. ASSUME ProgressFits, \A r \in Slots \ {s} : At(r, "idle") PROVE ProgressFits'
  <2>1. ASSUME NEW k \in ProjectsOnFile' \ byHand'
        PROVE  \/ Rolling(k)'
               \/ /\ k \in ProjectsOnFile \ byHand /\ project'[k].progress = project[k].progress
                  /\ Live(k)' = Live(k) /\ \A u \in Live(k) : task'[u].progress = task[u].progress
    <3>1. CASE k = row.project
      BY <1>0, <1>1, <3>1 DEF Rolling
    <3>2. CASE k # row.project
      <4>1. k \in ProjectIds \ {row.project}
        BY <1>0, <3>2 DEF ProjectsOnFile
      <4>2. \A u \in Live(k) : u \in TaskIds \ {t}
        BY <1>0, <1>2, <4>1 DEF Live, TasksOf, TasksOnFile
      <4> QED
        BY <1>0, <1>2, <1>4, <2>1, <4>1, <4>2
    <3> QED
      BY <1>0, <3>1, <3>2
  <2> QED
    BY <1>0, <1>1, <1>8, <2>1, ProgressFitsStill
<1> QED
  BY <1>0, <1>1, <1>2, <1>6, <1>7, <1>8 DEF ProjectsKept

\* A handler that ends without a write keeps everything.
LEMMA EndsKept ==
  ASSUME HandlersInv, ProjectRows, NEW s \in Slots, Finish(s),
         slot[s].step \notin {"hours.sync", "hours.store", "task.rollUp", "task.progress"},
         UNCHANGED projectVars
  PROVE  ProjectsKept(s) /\ slot'[s] = Idle
<1>1. slot'[s] = Idle /\ \A r \in Slots \ {s} : slot'[r] = slot[r]
  BY GoesOn DEF Finish
<1>2. UNCHANGED <<project, task, entry>> /\ byHand' = byHand /\ byHand' \subseteq ProjectIds
  BY DEF projectVars, ProjectRows
<1>3. /\ ProjectRows' /\ TasksKeep /\ EntriesKeep
      /\ TasksOnFile' = TasksOnFile /\ ProjectsOnFile' = ProjectsOnFile /\ Parents' = Parents
      /\ \A j : TasksOf(j)' = TasksOf(j) /\ Live(j)' = Live(j)
      /\ \A t : EntriesOf(t)' = EntriesOf(t)
  BY <1>2, RowsKept
<1>4. HoursFit => HoursFit'
  BY <1>1, <1>2, <1>3, HoursFitOn DEF At, HoursSteps
<1>5. ProgressFits /\ (\A r \in Slots \ {s} : At(r, "idle")) => ProgressFits'
  BY <1>1, <1>2, <1>3, ProgressFitsStill
<1> QED
  BY <1>1, <1>3, <1>4, <1>5 DEF ProjectsKept

\* A task is made.
LEMMA InsertTaskKept ==
  ASSUME HandlersInv, ProjectRows, NEW s \in Slots, ProjectLocals(s), NEW t \in TaskIds,
         InsertTask(s, t)
  PROVE  ProjectsKept(s) /\ ProjectLocals(s)' /\ ProjectCarried(s)'
<1> DEFINE j == slot[s].project
           parent == slot[s].parent
           row == [status |-> "todo", project |-> j, parent |-> parent,
                   progress |-> 0, hours |-> 0]
<1>1. /\ At(s, "task.insert") /\ task[t] = NoTask /\ UNCHANGED <<project, entry, byHand>>
      /\ j \in ProjectIds /\ parent \in TaskIds \cup {NoParent}
      /\ parent # NoParent => WasIn(parent, j)
      /\ \/ /\ j \in ProjectsOnFile /\ parent \in TasksOnFile \cup {NoParent}
            /\ task' = [task EXCEPT ![t] = row]
            /\ Continue(s, [step |-> "task.rollUp", project |-> j])
         \/ Finish(s) /\ UNCHANGED task
  BY DEF InsertTask, ProjectLocals
<1>2. /\ row \in TaskRecords /\ row.status \in TaskStatuses /\ row.project = j
      /\ row.parent = parent /\ row.hours = 0
  BY <1>1 DEF TaskRecords, TaskStatuses
<1>3. parent \in TasksOnFile => parent \in TasksOf(j)
  BY <1>1, TasksAreParents, TaskIdsAssumption DEF WasIn, TasksOf
<1>4. slot[s].step \notin {"hours.sync", "hours.store", "task.rollUp", "task.progress"}
  BY <1>1 DEF At
<1> HIDE DEF row, j, parent
<1>5. ASSUME Finish(s), UNCHANGED task PROVE ProjectsKept(s) /\ slot'[s] = Idle
  BY <1>1, <1>4, <1>5, EndsKept DEF projectVars
<1>6. ASSUME j \in ProjectsOnFile, parent \in TasksOnFile \cup {NoParent},
             task' = [task EXCEPT ![t] = row],
             Continue(s, [step |-> "task.rollUp", project |-> j])
      PROVE  ProjectsKept(s) /\ slot'[s] = [step |-> "task.rollUp", project |-> j]
  <2>1. WritesTask(s, t, row)
    BY <1>1, <1>2, <1>3, <1>4, <1>6 DEF WritesTask
  <2> QED
    BY <1>2, <2>1, TaskWrittenFits
<1>7. /\ ProjectsKept(s)
      /\ slot'[s] \in {Idle, [step |-> "task.rollUp", project |-> j]}
  BY <1>1, <1>5, <1>6
<1> QED
  BY <1>1, <1>7 DEF ProjectLocals, ProjectCarried, At, Idle

\* A change of a task is written.
LEMMA UpdateTaskKept ==
  ASSUME HandlersInv, ProjectRows, NEW s \in Slots, ProjectLocals(s), UpdateTask(s)
  PROVE  ProjectsKept(s) /\ ProjectLocals(s)' /\ ProjectCarried(s)'
<1> DEFINE t == slot[s].id
           read == slot[s].row
           j == read.project
           row == [read EXCEPT !.hours = task[t].hours]
<1>1. /\ At(s, "task.write") /\ UNCHANGED <<project, entry, byHand>>
      /\ t \in TaskIds /\ read \in TaskRecords /\ read.status \in TaskStatuses /\ j \in ProjectIds
      /\ WasIn(t, j) /\ (read.parent # NoParent => WasIn(read.parent, j))
      /\ \/ /\ t \in TasksOnFile /\ read.parent \in TasksOnFile \cup {NoParent}
            /\ task' = [task EXCEPT ![t] = row]
            /\ Continue(s, [step |-> "task.rollUp", project |-> j])
         \/ Finish(s) /\ UNCHANGED task
  BY DEF UpdateTask, ProjectLocals
<1>2. /\ row \in TaskRecords /\ row.status \in TaskStatuses /\ row.project = j
      /\ row.parent = read.parent /\ row.hours = task[t].hours
  <2>1. task[t] \in TaskRecords
    BY <1>1 DEF ProjectRows
  <2> QED
    BY <1>1, <2>1 DEF TaskRecords
<1>3. ProjectCarried(s) =>
        \/ read.parent = task[t].parent
        \/ \A k \in 0..MaxHops : ~Reaches(Parents, TaskIds, read.parent, t, k)
  BY <1>1 DEF ProjectCarried
<1>4. slot[s].step \notin {"hours.sync", "hours.store", "task.rollUp", "task.progress"}
  BY <1>1 DEF At
<1> HIDE DEF row, j, read, t
<1>5. ASSUME Finish(s), UNCHANGED task PROVE ProjectsKept(s) /\ slot'[s] = Idle
  BY <1>1, <1>4, <1>5, EndsKept DEF projectVars
<1>6. ASSUME t \in TasksOnFile, read.parent \in TasksOnFile \cup {NoParent},
             task' = [task EXCEPT ![t] = row],
             Continue(s, [step |-> "task.rollUp", project |-> j])
      PROVE  ProjectsKept(s) /\ slot'[s] = [step |-> "task.rollUp", project |-> j]
  <2>1. t \in TasksOf(j) /\ j \in ProjectsOnFile /\ task[t] # NoTask
    BY <1>1, <1>6 DEF WasIn, TasksOf, ProjectRows, TasksOnFile, NoTask, TaskStatuses
  <2>2. row.parent = NoParent \/ row.parent \in TasksOf(j)
    BY <1>1, <1>2, <1>6 DEF WasIn, TasksOf
  <2>3. /\ row.project \in ProjectsOnFile
        /\ row.parent = NoParent \/ row.parent \in TasksOf(row.project)
        /\ task[t] = NoTask \/ t \in TasksOf(row.project)
        /\ row.hours = IF task[t] = NoTask THEN 0 ELSE task[t].hours
        /\ Continue(s, [step |-> "task.rollUp", project |-> row.project])
    BY <1>2, <1>6, <2>1, <2>2
  <2>4. \/ task[t] = NoTask \/ ~ProjectCarried(s) \/ row.parent = task[t].parent
        \/ \A k \in 0..MaxHops : ~Reaches(Parents, TaskIds, row.parent, t, k)
    BY <1>2, <1>3
  <2>5. WritesTask(s, t, row)
    BY <1>1, <1>2, <1>4, <1>6, <2>3, <2>4 DEF WritesTask
  <2> QED
    BY <1>2, <2>5, TaskWrittenFits
<1>7. /\ ProjectsKept(s)
      /\ slot'[s] \in {Idle, [step |-> "task.rollUp", project |-> j]}
  BY <1>1, <1>5, <1>6
<1> QED
  BY <1>1, <1>7 DEF ProjectLocals, ProjectCarried, At, Idle

\* What tasks that are deleted leave: the hours of the others, their tree, and the
\* progress of projects that had none of them.
LEMMA TasksRemovedFits ==
  ASSUME ProjectRows, NEW S \in SUBSET TaskIds,
         \A t \in TasksOnFile \ S : task[t].parent \notin S,
         project' \in [ProjectIds -> ProjectRecords],
         \A t \in TasksOnFile \ S : task[t].project \in ProjectsOnFile',
         task' = [t \in TaskIds |-> IF t \in S THEN GoneTask ELSE task[t]],
         entry' = [e \in EntryIds |-> IF entry[e].task \in S THEN GoneEntry ELSE entry[e]],
         UNCHANGED byHand
  PROVE  /\ ProjectRows' /\ TasksKeep /\ EntriesKeep
         /\ \A s \in Slots : (/\ \A r \in Slots \ {s} : slot'[r] = slot[r]
                              /\ slot[s].step \notin HoursSteps \/ slot'[s] = slot[s])
                             /\ HoursFit => HoursFit'
         /\ NoLoops(Parents, TaskIds) => NoLoops(Parents, TaskIds)'
         /\ \A j : TasksOf(j) \cap S = {} =>
                     Live(j)' = Live(j) /\ \A t \in Live(j) : task'[t] = task[t]
<1>1. /\ ProjectRows' /\ TasksKeep /\ EntriesKeep
      /\ TasksOnFile' = TasksOnFile \ S /\ \A t \in TasksOnFile \ S : task'[t] = task[t]
      /\ \A t \in TasksOnFile \ S :
           EntriesOf(t)' = EntriesOf(t) /\ \A e \in EntriesOf(t) : entry'[e] = entry[e]
      /\ Parents' \in [TaskIds -> TaskIds \cup {NoParent}]
      /\ \A t \in TaskIds : Parents'[t] \in {Parents[t], NoParent}
  BY TasksRemoved
<1>2. ASSUME NEW s \in Slots, \A r \in Slots \ {s} : slot'[r] = slot[r],
             slot[s].step \notin HoursSteps \/ slot'[s] = slot[s], HoursFit
      PROVE  HoursFit'
  BY <1>1, <1>2, HoursFitOn
<1>3. NoLoops(Parents, TaskIds) => NoLoops(Parents', TaskIds)
  BY <1>1, TasksAreParents, Unhung
<1>4. ASSUME NEW j, TasksOf(j) \cap S = {}
      PROVE  Live(j)' = Live(j) /\ \A t \in Live(j) : task'[t] = task[t]
  <2>1. TasksOf(j)' = TasksOf(j)
    BY <1>1, <1>4 DEF TasksOf
  <2>2. \A t \in TasksOf(j) : task'[t] = task[t]
    BY <1>1, <1>4 DEF TasksOf
  <2> QED
    BY <2>1, <2>2 DEF Live
<1> QED
  BY <1>1, <1>2, <1>3, <1>4

\* A task is deleted.
LEMMA DeleteTaskKept ==
  ASSUME HandlersInv, ProjectRows, NEW s \in Slots, ProjectLocals(s), DeleteTask(s)
  PROVE  ProjectsKept(s) /\ ProjectLocals(s)' /\ ProjectCarried(s)'
<1> DEFINE t == slot[s].id
           j == slot[s].project
<1>1. /\ At(s, "task.delete") /\ UNCHANGED <<project, byHand>>
      /\ t \in TaskIds /\ j \in ProjectIds /\ WasIn(t, j)
      /\ \/ /\ Subtasks(t) = {}
            /\ task' = [task EXCEPT ![t] = GoneTask]
            /\ entry' = [e \in EntryIds |-> IF entry[e].task = t THEN GoneEntry ELSE entry[e]]
            /\ Continue(s, [step |-> "task.rollUp", project |-> j])
         \/ Finish(s) /\ UNCHANGED <<task, entry>>
  BY DEF DeleteTask, ProjectLocals, GoneTask
<1>2. slot[s].step \notin {"hours.sync", "hours.store", "task.rollUp", "task.progress"}
  BY <1>1 DEF At
<1> HIDE DEF t, j
<1>3. ASSUME Finish(s), UNCHANGED <<task, entry>> PROVE ProjectsKept(s) /\ slot'[s] = Idle
  BY <1>1, <1>2, <1>3, EndsKept DEF projectVars
<1>4. ASSUME Subtasks(t) = {}, task' = [task EXCEPT ![t] = GoneTask],
             entry' = [e \in EntryIds |-> IF entry[e].task = t THEN GoneEntry ELSE entry[e]],
             Continue(s, [step |-> "task.rollUp", project |-> j])
      PROVE  ProjectsKept(s) /\ slot'[s] = [step |-> "task.rollUp", project |-> j]
  <2> DEFINE S == {t}
  <2>1. /\ slot'[s] = [step |-> "task.rollUp", project |-> j]
        /\ \A r \in Slots \ {s} : slot'[r] = slot[r]
    BY <1>4, GoesOn
  <2>2. S \in SUBSET TaskIds /\ \A u \in TasksOnFile \ S : task[u].parent \notin S
    BY <1>1, <1>4 DEF Subtasks
  <2>3. ProjectsOnFile' = ProjectsOnFile /\ project' \in [ProjectIds -> ProjectRecords]
    BY <1>1 DEF ProjectsOnFile, ProjectRows
  <2>4. \A u \in TasksOnFile \ S : task[u].project \in ProjectsOnFile'
    BY <2>3 DEF ProjectRows
  <2>5. task' = [u \in TaskIds |-> IF u \in S THEN GoneTask ELSE task[u]]
    BY <1>4 DEF ProjectRows
  <2>6. entry' = [e \in EntryIds |-> IF entry[e].task \in S THEN GoneEntry ELSE entry[e]]
    BY <1>4
  <2>7. \A k : k # j => TasksOf(k) \cap S = {}
    BY <1>1 DEF WasIn, TasksOf
  <2> HIDE DEF S
  <2>8. /\ ProjectRows' /\ TasksKeep /\ EntriesKeep
        /\ \A r \in Slots : (/\ \A q \in Slots \ {r} : slot'[q] = slot[q]
                             /\ slot[r].step \notin HoursSteps \/ slot'[r] = slot[r])
                            /\ HoursFit => HoursFit'
        /\ NoLoops(Parents, TaskIds) => NoLoops(Parents, TaskIds)'
        /\ \A k : TasksOf(k) \cap S = {} =>
                    Live(k)' = Live(k) /\ \A u \in Live(k) : task'[u] = task[u]
    BY <1>1, <2>2, <2>3, <2>4, <2>5, <2>6, TasksRemovedFits
  <2>9. HoursFit => HoursFit'
    BY <1>2, <2>1, <2>8 DEF HoursSteps
  <2>10. ASSUME ProgressFits, \A r \in Slots \ {s} : At(r, "idle") PROVE ProgressFits'
    <3>1. ASSUME NEW k \in ProjectsOnFile' \ byHand'
          PROVE  \/ Rolling(k)'
                 \/ /\ k \in ProjectsOnFile \ byHand /\ project'[k].progress = project[k].progress
                    /\ Live(k)' = Live(k) /\ \A u \in Live(k) : task'[u].progress = task[u].progress
      <4>1. CASE k = j
        BY <2>1, <4>1 DEF Rolling
      <4>2. CASE k # j
        BY <1>1, <2>3, <2>7, <2>8, <3>1, <4>2
      <4> QED
        BY <4>1, <4>2
    <3> QED
      BY <1>2, <2>10, <3>1, ProgressFitsStill
  <2> QED
    BY <2>1, <2>8, <2>9, <2>10 DEF ProjectsKept
<1>5. /\ ProjectsKept(s)
      /\ slot'[s] \in {Idle, [step |-> "task.rollUp", project |-> j]}
  BY <1>1, <1>3, <1>4
<1> QED
  BY <1>1, <1>5 DEF ProjectLocals, ProjectCarried, At, Idle

\* An entry of a task is written, and the hours of the task are to follow.
WritesEntry(s, e, row, t) ==
  /\ e \in EntryIds /\ t \in TaskIds /\ row \in EntryRecords
  /\ \/ row = GoneEntry
     \/ /\ row.task = t /\ t \in TasksOnFile /\ row.hours \in 1..MaxHours
        /\ entry[e] = NoEntry \/ entry[e].task = t
  /\ e \in EntriesOnFile => entry[e].task = t
  /\ entry' = [entry EXCEPT ![e] = row] /\ UNCHANGED <<project, task, byHand>>
  /\ slot[s].step \notin {"hours.sync", "hours.store", "task.rollUp", "task.progress"}
  /\ Continue(s, [step |-> "hours.sync", task |-> t])

\* Hours and progress fit, but for the hours that are to follow.
LEMMA EntryWrittenFits ==
  ASSUME HandlersInv, ProjectRows, NEW s \in Slots, NEW e, NEW row, NEW t,
         WritesEntry(s, e, row, t)
  PROVE  ProjectsKept(s) /\ slot'[s] = [step |-> "hours.sync", task |-> t]
<1>0. /\ e \in EntryIds /\ t \in TaskIds /\ row \in EntryRecords
      /\ \/ row = GoneEntry
         \/ /\ row.task = t /\ t \in TasksOnFile /\ row.hours \in 1..MaxHours
            /\ entry[e] = NoEntry \/ entry[e].task = t
      /\ e \in EntriesOnFile => entry[e].task = t
      /\ entry' = [entry EXCEPT ![e] = row] /\ UNCHANGED <<project, task, byHand>>
      /\ slot[s].step \notin {"hours.sync", "hours.store", "task.rollUp", "task.progress"}
      /\ Continue(s, [step |-> "hours.sync", task |-> t])
  BY DEF WritesEntry
<1>1. /\ slot'[s] = [step |-> "hours.sync", task |-> t]
      /\ \A r \in Slots \ {s} : slot'[r] = slot[r]
  BY <1>0, GoesOn
<1>2. /\ ProjectRows' /\ TasksKeep /\ EntriesKeep
      /\ entry'[e] = row /\ \A f \in EntryIds \ {e} : entry'[f] = entry[f]
      /\ EntriesOnFile' = IF row = GoneEntry THEN EntriesOnFile \ {e} ELSE EntriesOnFile \cup {e}
      /\ Parents' = Parents /\ TasksOnFile' = TasksOnFile /\ ProjectsOnFile' = ProjectsOnFile
      /\ \A j : TasksOf(j)' = TasksOf(j) /\ Live(j)' = Live(j)
  BY <1>0, EntryWritten
<1>3. ASSUME NEW u \in TasksOnFile', u # t
      PROVE  /\ task'[u].hours = task[u].hours /\ HoursLogged(u)' = HoursLogged(u)
             /\ u \in TasksOnFile
  <2>1. e \notin EntriesOf(u)
    BY <1>0, <1>3 DEF EntriesOf
  <2>2. e \notin EntriesOf(u)'
    BY <1>0, <1>2, <1>3 DEF EntriesOf
  <2>3. \A f : f \in EntriesOf(u)' <=> f \in EntriesOf(u)
    BY <1>0, <1>2, <2>1, <2>2 DEF EntriesOf, EntriesOnFile
  <2>4. EntriesOf(u)' = EntriesOf(u) /\ \A f \in EntriesOf(u) : entry'[f].hours = entry[f].hours
    BY <1>2, <2>1, <2>3 DEF EntriesOf, EntriesOnFile
  <2>5. u \in TaskIds /\ u \in TasksOnFile
    BY <1>2 DEF TasksOnFile
  <2> QED
    BY <1>0, <2>4, <2>5, HoursStay
<1>4. ASSUME HoursFit PROVE HoursFit'
  <2>1. Syncing(t)'
    BY <1>1 DEF Syncing, HoursSteps
  <2>2. \A u \in TasksOnFile' : u = t \/ u # t
    OBVIOUS
  <2> QED
    BY <1>0, <1>1, <1>3, <1>4, <2>1, HoursFitStill DEF At, HoursSteps
<1>5. ASSUME ProgressFits, \A r \in Slots \ {s} : At(r, "idle") PROVE ProgressFits'
  BY <1>0, <1>2, <1>5, ProgressFitsStill
<1> QED
  BY <1>1, <1>2, <1>4, <1>5 DEF ProjectsKept

\* An entry is made.
LEMMA InsertEntryKept ==
  ASSUME HandlersInv, ProjectRows, NEW s \in Slots, ProjectLocals(s), NEW e \in EntryIds,
         InsertEntry(s, e)
  PROVE  ProjectsKept(s) /\ ProjectLocals(s)' /\ ProjectCarried(s)'
<1> DEFINE t == slot[s].task
           n == slot[s].hours
           row == [task |-> t, hours |-> n]
<1>1. /\ At(s, "hours.insert") /\ entry[e] = NoEntry /\ UNCHANGED <<project, task, byHand>>
      /\ t \in TaskIds /\ n \in 1..MaxHours
      /\ \/ /\ t \in TasksOnFile /\ entry' = [entry EXCEPT ![e] = row]
            /\ Continue(s, [step |-> "hours.sync", task |-> t])
         \/ Finish(s) /\ UNCHANGED entry
  BY DEF InsertEntry, ProjectLocals
<1>2. row \in EntryRecords /\ row.task = t /\ row.hours = n
  BY <1>1, EntryIdsAssumption DEF EntryRecords
<1>3. slot[s].step \notin {"hours.sync", "hours.store", "task.rollUp", "task.progress"}
  BY <1>1 DEF At
<1> HIDE DEF row, t, n
<1>4. ASSUME Finish(s), UNCHANGED entry PROVE ProjectsKept(s) /\ slot'[s] = Idle
  BY <1>1, <1>3, <1>4, EndsKept DEF projectVars
<1>5. ASSUME t \in TasksOnFile, entry' = [entry EXCEPT ![e] = row],
             Continue(s, [step |-> "hours.sync", task |-> t])
      PROVE  ProjectsKept(s) /\ slot'[s] = [step |-> "hours.sync", task |-> t]
  <2>1. e \notin EntriesOnFile
    BY <1>1 DEF EntriesOnFile
  <2>2. WritesEntry(s, e, row, t)
    BY <1>1, <1>2, <1>3, <1>5, <2>1 DEF WritesEntry
  <2> QED
    BY <2>2, EntryWrittenFits
<1>6. ProjectsKept(s) /\ slot'[s] \in {Idle, [step |-> "hours.sync", task |-> t]}
  BY <1>1, <1>4, <1>5
<1> QED
  BY <1>1, <1>6 DEF ProjectLocals, ProjectCarried, At, Idle

\* A change of an entry is written.
LEMMA WriteEntryKept ==
  ASSUME HandlersInv, ProjectRows, NEW s \in Slots, ProjectLocals(s), WriteEntry(s)
  PROVE  ProjectsKept(s) /\ ProjectLocals(s)' /\ ProjectCarried(s)'
<1> DEFINE e == slot[s].id
           t == slot[s].task
           n == slot[s].hours
           row == IF n = 0 THEN GoneEntry ELSE [entry[e] EXCEPT !.hours = n]
<1>1. /\ At(s, "hours.write") /\ UNCHANGED <<project, task, byHand>>
      /\ e \in EntryIds /\ t \in TaskIds /\ n \in 0..MaxHours /\ WasLogged(e, t)
      /\ \/ /\ n = 0 \/ entry[e].task = t
            /\ entry' = [entry EXCEPT ![e] = IF n = 0 THEN GoneEntry ELSE [@ EXCEPT !.hours = n]]
            /\ Continue(s, [step |-> "hours.sync", task |-> t])
         \/ Finish(s) /\ UNCHANGED entry
  BY DEF WriteEntry, ProjectLocals
<1>2. slot[s].step \notin {"hours.sync", "hours.store", "task.rollUp", "task.progress"}
  BY <1>1 DEF At
<1>3. entry[e] \in EntryRecords /\ t # NoParent
  BY <1>1, TaskIdsAssumption DEF ProjectRows
<1>4. n # 0 => /\ [entry[e] EXCEPT !.hours = n] \in EntryRecords
               /\ [entry[e] EXCEPT !.hours = n].hours = n
               /\ [entry[e] EXCEPT !.hours = n].task = entry[e].task
  BY <1>1, <1>3, EntryIdsAssumption DEF EntryRecords
<1>5. GoneEntry \in EntryRecords
  BY EntryIdsAssumption DEF GoneEntry, EntryRecords
<1>6. /\ row \in EntryRecords
      /\ n = 0 => row = GoneEntry
      /\ n # 0 => row.task = entry[e].task /\ row.hours = n
  BY <1>4, <1>5
<1>7. entry[e].task = t => e \in EntriesOnFile /\ t \in TasksOnFile
  <2>1. entry[e].task = t => e \in EntriesOnFile
    BY <1>1, <1>3 DEF EntriesOnFile, NoEntry, GoneEntry
  <2> QED
    BY <2>1 DEF ProjectRows
<1>8. e \in EntriesOnFile => entry[e].task = t
  BY <1>1 DEF WasLogged
<1>9. ASSUME entry' = [entry EXCEPT ![e] = IF n = 0 THEN GoneEntry ELSE [@ EXCEPT !.hours = n]]
      PROVE  entry' = [entry EXCEPT ![e] = row]
  BY <1>9
<1>10. n # 0 => n \in 1..MaxHours
  BY <1>1, EntryIdsAssumption
<1> HIDE DEF row, t, n, e
<1>11. ASSUME Finish(s), UNCHANGED entry PROVE ProjectsKept(s) /\ slot'[s] = Idle
  BY <1>1, <1>2, <1>11, EndsKept DEF projectVars
<1>12. ASSUME n = 0 \/ entry[e].task = t, entry' = [entry EXCEPT ![e] = row],
              Continue(s, [step |-> "hours.sync", task |-> t])
       PROVE  ProjectsKept(s) /\ slot'[s] = [step |-> "hours.sync", task |-> t]
  <2>1. \/ row = GoneEntry
        \/ /\ row.task = t /\ t \in TasksOnFile /\ row.hours \in 1..MaxHours
           /\ entry[e] = NoEntry \/ entry[e].task = t
    BY <1>6, <1>7, <1>10, <1>12
  <2>2. e \in EntryIds /\ t \in TaskIds /\ row \in EntryRecords
    BY <1>1, <1>6
  <2>3. UNCHANGED <<project, task, byHand>>
    BY <1>1
  <2>4. WritesEntry(s, e, row, t)
    BY <1>2, <1>8, <1>12, <2>1, <2>2, <2>3 DEF WritesEntry
  <2> QED
    BY <2>4, EntryWrittenFits
<1>13. ProjectsKept(s) /\ slot'[s] \in {Idle, [step |-> "hours.sync", task |-> t]}
  BY <1>1, <1>9, <1>11, <1>12
<1> QED
  BY <1>1, <1>13 DEF ProjectLocals, ProjectCarried, At, Idle

\* What the entries of a task add up to is read, and carried on.
LEMMA SyncHoursKept ==
  ASSUME HandlersInv, ProjectRows, NEW s \in Slots, ProjectLocals(s), SyncHours(s)
  PROVE  ProjectsKept(s) /\ ProjectLocals(s)' /\ ProjectCarried(s)'
<1> DEFINE t == slot[s].task
           n == HoursLogged(t)
           on == [step |-> "hours.store", task |-> t, hours |-> n]
<1>1. At(s, "hours.sync") /\ Continue(s, on) /\ UNCHANGED projectVars
  BY DEF SyncHours
<1>2. slot'[s] = on /\ \A r \in Slots \ {s} : slot'[r] = slot[r]
  <2> HIDE DEF on
  <2> QED
    BY <1>1, GoesOn
<1>3. t \in TaskIds /\ slot[s].step \in HoursSteps
  BY <1>1 DEF ProjectLocals, HoursSteps, At
<1>4. UNCHANGED <<project, task, entry>> /\ byHand' = byHand /\ byHand' \subseteq ProjectIds
  BY <1>1 DEF projectVars, ProjectRows
<1>5. /\ ProjectRows' /\ TasksKeep /\ EntriesKeep
      /\ TasksOnFile' = TasksOnFile /\ ProjectsOnFile' = ProjectsOnFile /\ Parents' = Parents
      /\ \A j : TasksOf(j)' = TasksOf(j) /\ Live(j)' = Live(j)
      /\ \A u : EntriesOf(u)' = EntriesOf(u)
  BY <1>4, RowsKept
<1>6. n \in Nat /\ \A u \in TaskIds : HoursLogged(u)' = HoursLogged(u)
  BY <1>3, <1>4, <1>5, HoursTyped, HoursStay
<1>7. /\ slot'[s].step = "hours.store" /\ slot'[s].task = t /\ slot'[s].hours = n
  <2> HIDE DEF n
  <2> QED
    BY <1>2
<1> HIDE DEF n, on, t
<1>8. ASSUME HoursFit PROVE HoursFit'
  <2> SUFFICES ASSUME NEW u \in TasksOnFile, ~Syncing(u)' PROVE task[u].hours = HoursLogged(u)
    BY <1>4, <1>5, <1>6 DEF HoursFit, TasksOnFile
  <2>1. ~Syncing(u)
    <3> SUFFICES ASSUME NEW r \in Slots, slot[r].step \in HoursSteps, slot[r].task = u
                 PROVE  slot'[r].step \in HoursSteps /\ slot'[r].task = u
      BY DEF Syncing
    <3> QED
      BY <1>2, <1>7 DEF HoursSteps, t
  <2> QED
    BY <1>8, <2>1 DEF HoursFit
<1>9. ProgressFits /\ (\A r \in Slots \ {s} : At(r, "idle")) => ProgressFits'
  <2>1. slot[s].step \notin {"task.rollUp", "task.progress"}
    BY <1>1 DEF At
  <2> QED
    BY <1>4, <1>5, <2>1, ProgressFitsStill
<1>10. ProjectLocals(s)'
  BY <1>3, <1>6, <1>7 DEF ProjectLocals, HoursSteps, At
<1>11. ProjectCarried(s)'
  <2>1. slot'[s].hours = HoursLogged(slot[s].task)'
    BY <1>3, <1>6, <1>7 DEF t, n
  <2> QED
    BY <1>7, <2>1 DEF ProjectCarried, At, t
<1> QED
  BY <1>5, <1>8, <1>9, <1>10, <1>11 DEF ProjectsKept

\* The hours of a task are written as its entries added up to.
LEMMA StoreHoursKept ==
  ASSUME HandlersInv, ProjectRows, NEW s \in Slots, ProjectLocals(s), StoreHours(s)
  PROVE  ProjectsKept(s) /\ slot'[s] = Idle
<1> DEFINE t == slot[s].task
           n == slot[s].hours
           row == [task[t] EXCEPT !.hours = n]
<1>1. /\ slot'[s] = Idle /\ \A r \in Slots \ {s} : slot'[r] = slot[r]
      /\ UNCHANGED <<project, entry, byHand>> /\ t \in TaskIds /\ At(s, "hours.store")
      /\ \/ t \in TasksOnFile /\ task' = [task EXCEPT ![t].hours = n]
         \/ t \notin TasksOnFile /\ task' = task
  BY GoesOn DEF StoreHours, Finish, ProjectLocals, HoursSteps, At
<1>2. n \in Nat /\ (ProjectCarried(s) => n = HoursLogged(t))
  BY <1>1 DEF ProjectLocals, ProjectCarried
<1>3. /\ row \in TaskRecords /\ row.status = task[t].status /\ row.project = task[t].project
      /\ row.parent = task[t].parent /\ row.hours = n /\ row.progress = task[t].progress
  <2>1. task[t] \in TaskRecords
    BY <1>1 DEF ProjectRows
  <2> QED
    BY <1>2, <2>1 DEF TaskRecords
<1>4. t \in TasksOnFile => task' = [task EXCEPT ![t] = row]
  BY <1>1
<1> HIDE DEF row, n, t
<1>5. CASE t \notin TasksOnFile
  <2>1. UNCHANGED <<project, task, entry>> /\ byHand' \subseteq ProjectIds
    BY <1>1, <1>5 DEF ProjectRows
  <2>2. /\ ProjectRows' /\ TasksKeep /\ EntriesKeep
        /\ TasksOnFile' = TasksOnFile /\ ProjectsOnFile' = ProjectsOnFile
        /\ Parents' = Parents
        /\ \A j : TasksOf(j)' = TasksOf(j) /\ Live(j)' = Live(j)
        /\ \A u : EntriesOf(u)' = EntriesOf(u)
    BY <2>1, RowsKept
  <2>3. \A u \in TasksOnFile' : u \in TaskIds /\ u \in TasksOnFile /\ u # t
    BY <1>5, <2>2 DEF TasksOnFile
  <2>4. \A u \in TasksOnFile' : HoursLogged(u)' = HoursLogged(u)
    BY <1>1, <2>2, <2>3, HoursStay
  <2>5. HoursFit => HoursFit'
    BY <1>1, <2>1, <2>3, <2>4, HoursFitStill DEF t, At, HoursSteps
  <2>6. ProgressFits /\ (\A r \in Slots \ {s} : At(r, "idle")) => ProgressFits'
    BY <1>1, <2>1, <2>2, ProgressFitsStill DEF At
  <2> QED
    BY <1>1, <2>2, <2>5, <2>6 DEF ProjectsKept
<1>6. CASE t \in TasksOnFile
  <2>1. /\ t \in TasksOf(row.project) /\ row.status \in TaskStatuses
        /\ row.project \in ProjectsOnFile
        /\ row.parent = NoParent \/ row.parent \in TasksOf(row.project)
    BY <1>1, <1>3, <1>6 DEF TasksOf, TasksOnFile, ProjectRows
  <2>2. /\ ProjectRows' /\ TasksKeep /\ EntriesKeep
        /\ task'[t] = row /\ \A u \in TaskIds \ {t} : task'[u] = task[u]
        /\ TasksOnFile' = TasksOnFile \cup {t}
        /\ Parents' = [Parents EXCEPT ![t] = row.parent]
    BY <1>1, <1>3, <1>4, <1>6, <2>1, TaskWritten
  <2>3. Parents' = Parents
    <3>1. [Parents EXCEPT ![t] = row.parent] = Parents
      BY <1>1, <1>3, TasksAreParents DEF IsParents
    <3> QED
      BY <2>2, <3>1
  <2>4. \A u : EntriesOf(u)' = EntriesOf(u)
    BY <1>1 DEF EntriesOf, EntriesOnFile
  <2>5. \A u \in TaskIds : HoursLogged(u)' = HoursLogged(u)
    BY <1>1, <2>4, HoursStay
  <2>6. ASSUME ProjectCarried(s), HoursFit PROVE HoursFit'
    <3>1. ASSUME NEW u \in TasksOnFile'
          PROVE  \/ task'[u].hours = HoursLogged(u)'
                 \/ /\ u \in TasksOnFile /\ task'[u].hours = task[u].hours
                    /\ HoursLogged(u)' = HoursLogged(u) /\ u # t
      <4>1. u \in TaskIds
        BY DEF TasksOnFile
      <4>2. CASE u = t
        <5>1. HoursLogged(u) = n /\ task'[u].hours = n
          BY <1>2, <1>3, <2>2, <2>6, <4>2
        <5> QED
          BY <2>5, <4>1, <5>1
      <4>3. CASE u # t
        BY <2>2, <2>5, <4>1, <4>3
      <4> QED
        BY <4>2, <4>3
    <3> QED
      BY <1>1, <2>6, <3>1, HoursFitStill DEF t, At, HoursSteps
  <2>7. \A k : Live(k)' = Live(k)
    <3>1. \A u \in TaskIds : task'[u].status = task[u].status /\ task'[u].project = task[u].project
      BY <1>3, <2>2
    <3> QED
      BY <1>6, <2>2, <3>1 DEF Live, TasksOf, TasksOnFile
  <2>8. \A u \in TaskIds : task'[u].progress = task[u].progress
    BY <1>3, <2>2
  <2>9. ASSUME ProgressFits, \A r \in Slots \ {s} : At(r, "idle") PROVE ProgressFits'
    <3>1. ProjectsOnFile' = ProjectsOnFile
      BY <1>1 DEF ProjectsOnFile
    <3>2. \A k : \A u \in Live(k) : u \in TaskIds
      BY DEF Live, TasksOf, TasksOnFile
    <3>3. slot[s].step \notin {"task.rollUp", "task.progress"}
      BY <1>1 DEF At
    <3> QED
      BY <1>1, <2>7, <2>8, <2>9, <3>1, <3>2, <3>3, ProgressFitsStill
  <2> QED
    BY <1>1, <2>2, <2>3, <2>6, <2>9 DEF ProjectsKept
<1> QED
  BY <1>5, <1>6

\* A project is opened, or deleted with all there is of it.
LEMMA ProjectHappens ==
  ASSUME HandlersInv, ProjectRows, NEW j \in ProjectIds, CreateProject(j) \/ DeleteProject(j)
  PROVE  /\ ProjectRows' /\ TasksKeep /\ EntriesKeep /\ slot' = slot /\ agenda' = agenda
         /\ HoursFit => HoursFit'
         /\ NoLoops(Parents, TaskIds) => NoLoops(Parents, TaskIds)'
         /\ InTurn' => Quiet
         /\ Quiet /\ ProgressFits => ProgressFits'
<1>1. /\ slot' = slot /\ agenda' = agenda /\ UNCHANGED byHand
      /\ InTurn' => Quiet
  BY DEF CreateProject, DeleteProject, Happens, InTurn
<1>2. CASE CreateProject(j)
  <2>1. /\ project[j] = NoProject /\ project' = [project EXCEPT ![j].status = "planning"]
        /\ UNCHANGED <<task, entry, byHand>>
    BY <1>2 DEF CreateProject
  <2>2. project' \in [ProjectIds -> ProjectRecords]
    <3>1. /\ project[j] \in ProjectRecords /\ "planning" \in ProjectStatuses
      BY DEF ProjectRows, ProjectStatuses
    <3>2. [project[j] EXCEPT !.status = "planning"] \in ProjectRecords
      BY <3>1 DEF ProjectRecords
    <3> QED
      BY <2>1, <3>2 DEF ProjectRows
  <2>3. /\ \A k \in ProjectIds \ {j} : project'[k] = project[k]
        /\ project'[j].progress = project[j].progress
    BY <2>1 DEF ProjectRows, ProjectRecords
  <2>4. j \notin ProjectsOnFile /\ ProjectsOnFile' \subseteq ProjectsOnFile \cup {j}
        /\ ProjectsOnFile \subseteq ProjectsOnFile'
    <3>1. j \notin ProjectsOnFile
      BY <2>1 DEF ProjectsOnFile, NoProject, ProjectStatuses
    <3> QED
      BY <2>3, <3>1 DEF ProjectsOnFile
  <2>5. byHand' \subseteq ProjectIds
    BY <2>1 DEF ProjectRows
  <2>6. /\ ProjectRows' /\ TasksKeep /\ EntriesKeep
        /\ TasksOnFile' = TasksOnFile /\ Parents' = Parents
        /\ \A k : TasksOf(k)' = TasksOf(k) /\ Live(k)' = Live(k)
    BY <2>1, <2>2, <2>4, <2>5, ProjectWritten
  <2>7. ASSUME HoursFit PROVE HoursFit'
    <3>1. \A t : EntriesOf(t)' = EntriesOf(t)
      BY <2>1 DEF EntriesOf, EntriesOnFile
    <3>2. \A t \in TasksOnFile : t \in TaskIds
      BY DEF TasksOnFile
    <3>3. \A t \in TasksOnFile : HoursLogged(t)' = HoursLogged(t)
      BY <2>1, <3>1, <3>2, HoursStay
    <3> QED
      BY <1>1, <2>1, <2>6, <2>7, <3>3 DEF HoursFit, Syncing
  <2>8. ASSUME Quiet, ProgressFits PROVE ProgressFits'
    <3> SUFFICES ASSUME NEW k \in ProjectsOnFile' \ byHand'
                 PROVE  project'[k].progress = RollUp(k, project[k].progress)'
      BY DEF ProgressFits
    <3>1. project'[k].progress = project[k].progress
      BY <2>3, <2>4 DEF ProjectsOnFile
    <3>2. RollUp(k, project[k].progress)' = Rolled(task, Live(k), project[k].progress)
      <4>1. RollUp(k, project[k].progress)' = Rolled(task', Live(k)', project'[k].progress)
        BY RollUpIs
      <4> QED
        BY <2>1, <2>6, <3>1, <4>1
    <3>3. CASE k = j
      <4>1. Live(k) = {}
        BY <2>4, <3>3 DEF Live, TasksOf, ProjectRows
      <4> QED
        BY <3>1, <3>2, <4>1 DEF Rolled
    <3>4. CASE k # j
      <4>1. RollUp(k, project[k].progress) = Rolled(task, Live(k), project[k].progress)
        BY RollUpIs
      <4>2. ~Rolling(k)
        BY <2>8 DEF Rolling, Quiet, At
      <4>3. k \in ProjectsOnFile \ byHand
        BY <2>1, <2>4, <3>4
      <4> QED
        BY <2>8, <3>1, <3>2, <4>1, <4>2, <4>3 DEF ProgressFits
    <3> QED
      BY <3>3, <3>4
  <2> QED
    BY <1>1, <2>6, <2>7, <2>8
<1>3. CASE DeleteProject(j)
  <2> DEFINE S == TasksOf(j)
  <2>1. /\ project' = [project EXCEPT ![j].status = "gone"] /\ UNCHANGED byHand
        /\ task' = [t \in TaskIds |-> IF t \in S THEN GoneTask ELSE task[t]]
        /\ entry' = [e \in EntryIds |-> IF entry[e].task \in S THEN GoneEntry ELSE entry[e]]
    BY <1>3 DEF DeleteProject, GoneTask
  <2>2. project' \in [ProjectIds -> ProjectRecords]
    <3>1. project[j] \in ProjectRecords
      BY DEF ProjectRows
    <3>2. [project[j] EXCEPT !.status = "gone"] \in ProjectRecords
      BY <3>1 DEF ProjectRecords
    <3> QED
      BY <2>1, <3>2 DEF ProjectRows
  <2>3. \A k \in ProjectIds \ {j} : project'[k] = project[k]
    BY <2>1 DEF ProjectRows
  <2>4. ProjectsOnFile' = ProjectsOnFile \ {j}
    <3>1. j \notin ProjectsOnFile'
      BY <2>1 DEF ProjectsOnFile, ProjectRows, ProjectRecords, ProjectStatuses
    <3> QED
      BY <2>3, <3>1 DEF ProjectsOnFile
  <2>5. ASSUME NEW t \in TasksOnFile \ S
        PROVE  task[t].parent \notin S /\ task[t].project \in ProjectsOnFile'
    <3>1. task[t].project \in ProjectsOnFile /\ task[t].project # j
      BY <2>5 DEF ProjectRows, TasksOf
    <3>2. task[t].parent \in S => task[t].parent # NoParent
      BY TaskIdsAssumption DEF TasksOf, TasksOnFile
    <3>3. task[t].parent # NoParent => task[t].parent \in TasksOf(task[t].project)
      BY <2>5 DEF ProjectRows
    <3> QED
      BY <2>4, <3>1, <3>2, <3>3 DEF TasksOf
  <2>6. S \in SUBSET TaskIds
    BY DEF TasksOf, TasksOnFile
  <2>7. \A k : k # j => TasksOf(k) \cap S = {}
    BY DEF TasksOf
  <2> HIDE DEF S
  <2>8. /\ ProjectRows' /\ TasksKeep /\ EntriesKeep
        /\ \A s \in Slots : (/\ \A r \in Slots \ {s} : slot'[r] = slot[r]
                             /\ slot[s].step \notin HoursSteps \/ slot'[s] = slot[s])
                            /\ HoursFit => HoursFit'
        /\ NoLoops(Parents, TaskIds) => NoLoops(Parents, TaskIds)'
        /\ \A k : TasksOf(k) \cap S = {} =>
                    Live(k)' = Live(k) /\ \A t \in Live(k) : task'[t] = task[t]
    BY <2>1, <2>2, <2>5, <2>6, TasksRemovedFits
  <2>9. ASSUME Quiet, ProgressFits PROVE ProgressFits'
    <3> SUFFICES ASSUME NEW k \in ProjectsOnFile' \ byHand'
                 PROVE  project'[k].progress = RollUp(k, project[k].progress)'
      BY DEF ProgressFits
    <3>1. k # j /\ k \in ProjectsOnFile \ byHand /\ project'[k] = project[k]
      BY <2>1, <2>3, <2>4 DEF ProjectsOnFile
    <3>2. Live(k)' = Live(k) /\ \A t \in Live(k) : task'[t].progress = task[t].progress
      BY <2>7, <2>8, <3>1
    <3> DEFINE c == project[k].progress
    <3>3. Rolled(task', Live(k), c) = Rolled(task, Live(k), c)
      BY <3>2, RolledSame
    <3>4. RollUp(k, project[k].progress)' = Rolled(task', Live(k)', project'[k].progress)
      BY RollUpIs
    <3>5. RollUp(k, project[k].progress) = Rolled(task, Live(k), c)
      BY RollUpIs
    <3>6. ~Rolling(k)
      BY <2>9 DEF Rolling, Quiet, At
    <3>7. c = RollUp(k, project[k].progress)
      BY <2>9, <3>1, <3>6 DEF ProgressFits
    <3> HIDE DEF c
    <3>8. project'[k].progress = c
      BY <3>1 DEF c
    <3> QED
      BY <3>2, <3>3, <3>4, <3>5, <3>7, <3>8
  <2>10. ASSUME HoursFit PROVE HoursFit'
    <3>1. /\ TasksOnFile' = TasksOnFile \ S /\ \A t \in TasksOnFile \ S : task'[t] = task[t]
          /\ \A t \in TasksOnFile \ S :
               EntriesOf(t)' = EntriesOf(t) /\ \A e \in EntriesOf(t) : entry'[e] = entry[e]
      BY <2>1, <2>2, <2>5, <2>6, TasksRemoved
    <3>2. \A t \in TasksOnFile \ S : HoursLogged(t)' = HoursLogged(t)
      BY <3>1, HoursStay DEF TasksOnFile
    <3> QED
      BY <1>1, <2>10, <3>1, <3>2 DEF HoursFit, Syncing
  <2> QED
    BY <1>1, <2>8, <2>9, <2>10
<1> QED
  BY <1>2, <1>3

\* One step of a handler keeps what holds whatever overlaps and, in turn, trees
\* and progress; and what it carries on is so.
LEMMA ProjectsStepped ==
  ASSUME HandlersInv, ProjectRows, NEW s \in Slots, ProjectLocals(s), ProjectsStep(s)
  PROVE  /\ ProjectsKept(s) /\ ProjectLocals(s)' /\ ProjectCarried(s)'
         /\ slot[s].step \in ProjectSteps /\ agenda' = agenda
         /\ \A r \in Slots \ {s} : slot'[r] = slot[r]
<1>1. ASSUME slot'[s] = Idle PROVE ProjectLocals(s)' /\ ProjectCarried(s)'
  BY <1>1 DEF ProjectLocals, ProjectCarried, Idle, At
<1>2. /\ slot[s].step \in ProjectSteps
      /\ \E x : Continue(s, x)
  <2>1. CASE WriteProject(s) \/ UpdateTask(s) \/ DeleteTask(s)
    BY <2>1 DEF WriteProject, UpdateTask, DeleteTask, At, ProjectSteps, Finish
  <2>2. ASSUME NEW x, InsertTask(s, x) \/ InsertEntry(s, x)
        PROVE  slot[s].step \in ProjectSteps /\ \E y : Continue(s, y)
    BY <2>2 DEF InsertTask, InsertEntry, At, ProjectSteps, Finish
  <2>3. CASE ReadProgress(s) \/ WriteProgress(s)
    BY <2>3 DEF ReadProgress, WriteProgress, At, ProjectSteps, Finish
  <2>4. CASE WriteEntry(s) \/ SyncHours(s) \/ StoreHours(s)
    BY <2>4 DEF WriteEntry, SyncHours, StoreHours, At, ProjectSteps, Finish
  <2> QED
    BY <2>1, <2>2, <2>3, <2>4 DEF ProjectsStep
<1>3. agenda' = agenda /\ \A r \in Slots \ {s} : slot'[r] = slot[r]
  BY <1>2, GoesOn
<1>4. ProjectsKept(s) /\ ProjectLocals(s)' /\ ProjectCarried(s)'
  <2>1. CASE WriteProject(s) \/ WriteProgress(s) \/ StoreHours(s)
    BY <1>1, <2>1, WriteProjectKept, WriteProgressKept, StoreHoursKept
  <2>2. CASE UpdateTask(s) \/ DeleteTask(s) \/ ReadProgress(s) \/ WriteEntry(s) \/ SyncHours(s)
    BY <2>2, UpdateTaskKept, DeleteTaskKept, ReadProgressKept, WriteEntryKept, SyncHoursKept
  <2>3. CASE \E t \in TaskIds : InsertTask(s, t)
    BY <2>3, InsertTaskKept
  <2>4. CASE \E e \in EntryIds : InsertEntry(s, e)
    BY <2>4, InsertEntryKept
  <2> QED
    BY <2>1, <2>2, <2>3, <2>4 DEF ProjectsStep
<1> QED
  BY <1>2, <1>3, <1>4

\* Rows that stay as they are: hours, tree and progress do.
LEMMA ProjectsStay ==
  ASSUME ProjectRows, UNCHANGED projectVars
  PROVE  /\ ProjectRows' /\ TasksKeep /\ EntriesKeep
         /\ TasksOnFile' = TasksOnFile /\ ProjectsOnFile' = ProjectsOnFile /\ Parents' = Parents
         /\ \A t \in TaskIds : HoursLogged(t)' = HoursLogged(t)
         /\ \A j : RollUp(j, project[j].progress)' = RollUp(j, project[j].progress)
<1>1. UNCHANGED <<project, task, entry>> /\ byHand' \subseteq ProjectIds
  BY DEF projectVars, ProjectRows
<1>2. /\ ProjectRows' /\ TasksKeep /\ EntriesKeep
      /\ TasksOnFile' = TasksOnFile /\ ProjectsOnFile' = ProjectsOnFile
      /\ Parents' = Parents
      /\ \A j : TasksOf(j)' = TasksOf(j) /\ Live(j)' = Live(j)
      /\ \A t : EntriesOf(t)' = EntriesOf(t)
  BY <1>1, RowsKept
<1>3. \A t \in TaskIds : HoursLogged(t)' = HoursLogged(t)
  BY <1>1, <1>2, HoursStay
<1>4. ASSUME NEW j PROVE RollUp(j, project[j].progress)' = RollUp(j, project[j].progress)
  <2>1. RollUp(j, project[j].progress)' = Rolled(task', Live(j)', project'[j].progress)
    BY RollUpIs, Zenon
  <2>2. RollUp(j, project[j].progress) = Rolled(task, Live(j), project[j].progress)
    BY RollUpIs, Zenon
  <2> QED
    BY <1>1, <1>2, <2>1, <2>2
<1> QED
  BY <1>2, <1>3, <1>4

\* What a handler holds is still right when rows are only written as they may be.
LEMMA ProjectLocalsKept ==
  ASSUME NEW s \in Slots, ProjectLocals(s), slot'[s] = slot[s], TasksKeep, EntriesKeep
  PROVE  ProjectLocals(s)'
<1> DEFINE x == slot[s]
<1>1. ASSUME At(s, "task.insert"), x.parent # NoParent
      PROVE  WasIn(x.parent, x.project) /\ x.parent \in TaskIds /\ x.project \in ProjectIds
  BY <1>1 DEF ProjectLocals
<1>2. ASSUME At(s, "task.write")
      PROVE  /\ WasIn(x.id, x.row.project) /\ x.id \in TaskIds /\ x.row.project \in ProjectIds
             /\ x.row.parent # NoParent =>
                  WasIn(x.row.parent, x.row.project) /\ x.row.parent \in TaskIds
  BY <1>2 DEF ProjectLocals, TaskRecords
<1>3. ASSUME At(s, "task.delete")
      PROVE  WasIn(x.id, x.project) /\ x.id \in TaskIds /\ x.project \in ProjectIds
  BY <1>3 DEF ProjectLocals
<1>4. ASSUME At(s, "hours.write")
      PROVE  WasLogged(x.id, x.task) /\ x.id \in EntryIds /\ x.task \in TaskIds
  BY <1>4 DEF ProjectLocals
<1>5. /\ \A t \in TaskIds, j \in ProjectIds :
           WasIn(t, j) => task'[t].status # "none" /\ (t \in TasksOnFile' => task'[t].project = j)
      /\ \A e \in EntryIds, t \in TaskIds :
           WasLogged(e, t) => entry'[e] # NoEntry /\ (e \in EntriesOnFile' => entry'[e].task = t)
  BY DEF TasksKeep, EntriesKeep, WasIn, WasLogged
<1> QED
  BY <1>1, <1>2, <1>3, <1>4, <1>5 DEF ProjectLocals, At, WasIn, WasLogged

\* Every step keeps hours and progress, and in turn trees.
LEMMA ProjectsInvNext ==
  ASSUME HandlersInv, ProjectsInv, [ServiceNext]_ServiceVars
  PROVE  ProjectsInv'
<1>1. /\ ProjectRows /\ \A s \in Slots : ProjectLocals(s)
      /\ InTurn' => /\ InTurn /\ OneBusy /\ NoLoops(Parents, TaskIds)
                    /\ HoursFit /\ ProgressFits
                    /\ \A s \in Slots : ProjectCarried(s)
  BY Undisturbed DEF ProjectsInv, HandlersInv
<1>2. ASSUME NEW s \in Slots, slot'[s].step \notin ProjectSteps
      PROVE  ProjectLocals(s)' /\ ProjectCarried(s)'
  BY <1>2 DEF ProjectLocals, ProjectCarried, At, ProjectSteps
<1>3. ASSUME NEW s \in Slots, slot'[s] = slot[s], At(s, "idle")
      PROVE  ProjectCarried(s)'
  BY <1>3 DEF ProjectCarried, At
<1>4. CASE /\ UNCHANGED projectVars /\ Elsewhere(ProjectSteps) /\ agenda' = agenda
           /\ \/ "client.drop" \in agenda
              \/ \A s \in Slots : slot[s].step \in ProjectSteps => slot'[s] = slot[s]
  <2>1. /\ ProjectRows' /\ TasksKeep /\ EntriesKeep
        /\ TasksOnFile' = TasksOnFile /\ ProjectsOnFile' = ProjectsOnFile /\ Parents' = Parents
        /\ \A t \in TaskIds : HoursLogged(t)' = HoursLogged(t)
        /\ \A j : RollUp(j, project[j].progress)' = RollUp(j, project[j].progress)
        /\ UNCHANGED <<project, task, byHand>>
    BY <1>1, <1>4, ProjectsStay DEF projectVars
  <2>2. ASSUME NEW s \in Slots PROVE ProjectLocals(s)'
    <3>1. CASE slot'[s].step \in ProjectSteps
      BY <1>1, <1>4, <2>1, <3>1, ProjectLocalsKept DEF Elsewhere
    <3> QED
      BY <1>2, <3>1
  <2>3. ASSUME InTurn'
        PROVE  HoursFit' /\ ProgressFits' /\ \A s \in Slots : ProjectCarried(s)'
    <3>1. \A s \in Slots : slot[s].step \in ProjectSteps => slot'[s] = slot[s]
      BY <1>4, <2>3 DEF Elsewhere, InTurn
    <3>2. \A j : Rolling(j) => Rolling(j)'
      BY <3>1 DEF Rolling, ProjectSteps
    <3>3. \A t : Syncing(t) => Syncing(t)'
      BY <3>1 DEF Syncing, HoursSteps, ProjectSteps
    <3>4. HoursFit' /\ ProgressFits'
      <4>1. HoursFit'
        BY <1>1, <2>1, <2>3, <3>3 DEF HoursFit, TasksOnFile
      <4>2. ProgressFits'
        BY <1>1, <2>1, <2>3, <3>2 DEF ProgressFits
      <4> QED
        BY <4>1, <4>2
    <3>5. ASSUME NEW s \in Slots PROVE ProjectCarried(s)'
      <4>1. CASE slot'[s].step \notin ProjectSteps
        BY <1>2, <4>1
      <4>2. CASE slot'[s].step \in ProjectSteps
        <5>1. slot'[s] = slot[s] /\ ProjectCarried(s)
          BY <1>1, <1>4, <2>3, <4>2 DEF Elsewhere
        <5>2. At(s, "task.progress") =>
                slot'[s].progress = RollUp(slot[s].project, project[slot[s].project].progress)'
          BY <2>1, <5>1 DEF ProjectCarried
        <5>3. At(s, "hours.store") => slot'[s].hours = HoursLogged(slot[s].task)'
          <6>1. At(s, "hours.store") => slot[s].task \in TaskIds
            BY <1>1 DEF ProjectLocals, HoursSteps, At
          <6> QED
            BY <2>1, <5>1, <6>1 DEF ProjectCarried
        <5> QED
          BY <2>1, <5>1, <5>2, <5>3 DEF ProjectCarried, At
      <4> QED
        BY <4>1, <4>2
    <3> QED
      BY <3>4, <3>5
  <2> QED
    BY <1>1, <2>1, <2>2, <2>3 DEF ProjectsInv
<1>5. ASSUME NEW s \in Slots, \A r \in Slots \ {s} : slot'[r] = slot[r],
             ProjectLocals(s)', ProjectCarried(s)', TasksKeep, EntriesKeep
      PROVE  /\ \A r \in Slots : ProjectLocals(r)'
             /\ (\A r \in Slots \ {s} : At(r, "idle")) => \A r \in Slots : ProjectCarried(r)'
  BY <1>1, <1>3, <1>5, ProjectLocalsKept
<1>6. ASSUME NEW s \in Slots, At(s, "idle"), ProjectsRequest(s) PROVE ProjectsInv'
  <2>1. /\ UNCHANGED projectVars /\ ProjectLocals(s)' /\ ProjectCarried(s)'
        /\ \A r \in Slots \ {s} : slot'[r] = slot[r]
        /\ InTurn' => \A r \in Slots \ {s} : At(r, "idle")
        /\ agenda' = agenda
    BY <1>1, <1>6, ProjectsRead
  <2>2. /\ ProjectRows' /\ TasksKeep /\ EntriesKeep
        /\ TasksOnFile' = TasksOnFile /\ ProjectsOnFile' = ProjectsOnFile /\ Parents' = Parents
        /\ \A t \in TaskIds : HoursLogged(t)' = HoursLogged(t)
        /\ \A j : RollUp(j, project[j].progress)' = RollUp(j, project[j].progress)
        /\ UNCHANGED <<project, task, byHand>>
    BY <1>1, <2>1, ProjectsStay DEF projectVars
  <2>3. ASSUME HoursFit PROVE HoursFit'
    <3>1. \A t : Syncing(t) => Syncing(t)'
      BY <1>6, <2>1 DEF Syncing, HoursSteps, At
    <3> QED
      BY <2>2, <2>3, <3>1 DEF HoursFit, TasksOnFile
  <2>4. ASSUME ProgressFits PROVE ProgressFits'
    <3>1. \A j : Rolling(j) => Rolling(j)'
      BY <1>6, <2>1 DEF Rolling, At
    <3> QED
      BY <2>2, <2>4, <3>1 DEF ProgressFits
  <2> QED
    BY <1>1, <1>5, <2>1, <2>2, <2>3, <2>4 DEF ProjectsInv
<1>7. ASSUME NEW s \in Slots, ProjectsStep(s) PROVE ProjectsInv'
  <2>1. /\ ProjectsKept(s) /\ ProjectLocals(s)' /\ ProjectCarried(s)'
        /\ slot[s].step \in ProjectSteps /\ agenda' = agenda
        /\ \A r \in Slots \ {s} : slot'[r] = slot[r]
    BY <1>1, <1>7, ProjectsStepped
  <2>2. InTurn' => \A r \in Slots \ {s} : At(r, "idle")
    BY <1>1, <2>1 DEF OneBusy, ProjectSteps, At
  <2>3. ProjectRows' /\ TasksKeep /\ EntriesKeep
    BY <2>1 DEF ProjectsKept
  <2>4. InTurn' => NoLoops(Parents, TaskIds)' /\ HoursFit' /\ ProgressFits'
    BY <1>1, <2>1, <2>2 DEF ProjectsKept
  <2>5. /\ \A r \in Slots : ProjectLocals(r)'
        /\ InTurn' => \A r \in Slots : ProjectCarried(r)'
    BY <1>5, <2>1, <2>2, <2>3
  <2> QED
    BY <1>1, <2>1, <2>3, <2>4, <2>5 DEF ProjectsInv
<1>8. ASSUME NEW j \in ProjectIds, CreateProject(j) \/ DeleteProject(j) PROVE ProjectsInv'
  <2>1. /\ ProjectRows' /\ TasksKeep /\ EntriesKeep /\ slot' = slot /\ agenda' = agenda
        /\ HoursFit => HoursFit'
        /\ NoLoops(Parents, TaskIds) => NoLoops(Parents, TaskIds)'
        /\ InTurn' => Quiet
        /\ Quiet /\ ProgressFits => ProgressFits'
    BY <1>1, <1>8, ProjectHappens
  <2>2. \A s \in Slots : ProjectLocals(s)'
    BY <1>1, <2>1, ProjectLocalsKept
  <2>3. InTurn' => \A s \in Slots : ProjectCarried(s)'
    BY <1>3, <2>1 DEF Quiet
  <2> QED
    BY <1>1, <2>1, <2>2, <2>3 DEF ProjectsInv
<1> QED
  BY <1>4, <1>6, <1>7, <1>8, NotProjects DEF ProjectsNext, Free

\* There is no project yet.
LEMMA ProjectsInitially == ServiceInit => ProjectsInv
<1> SUFFICES ASSUME ServiceInit PROVE ProjectsInv
  OBVIOUS
<1>1. /\ project = [j \in ProjectIds |-> NoProject] /\ task = [t \in TaskIds |-> NoTask]
      /\ entry = [e \in EntryIds |-> NoEntry] /\ byHand = {}
      /\ slot = [s \in Slots |-> Idle] /\ Idle.step = "idle"
  BY DEF ServiceInit, ProjectsInit, RequestsInit, Idle
<1>2. ProjectsOnFile = {} /\ TasksOnFile = {} /\ EntriesOnFile = {}
  BY <1>1 DEF ProjectsOnFile, TasksOnFile, EntriesOnFile, NoProject, NoTask,
              ProjectStatuses, TaskStatuses
<1>3. ProjectRows
  <2>1. NoProject \in ProjectRecords /\ NoTask \in TaskRecords /\ NoEntry \in EntryRecords
    BY EntryIdsAssumption DEF NoProject, ProjectRecords, NoTask, TaskRecords, NoEntry, EntryRecords
  <2> QED
    BY <1>1, <1>2, <2>1 DEF ProjectRows
<1>4. NoLoops(Parents, TaskIds)
  <2> SUFFICES ASSUME NEW t \in TaskIds, NEW n \in 1..(MaxHops + 1),
                      Reaches(Parents, TaskIds, t, t, n)
               PROVE  FALSE
    BY DEF NoLoops
  <2>1. n - 1 \in Nat /\ (n - 1) + 1 = n
    BY MaxHopsAssumption
  <2>2. IsParents(Parents, TaskIds) /\ Parents[t] = NoParent
    BY <1>2, <1>3, TasksAreParents
  <2> DEFINE m == n - 1
  <2> HIDE DEF m
  <2>3. m \in Nat /\ Reaches(Parents, TaskIds, t, t, m + 1)
    BY <2>1 DEF m
  <2> QED
    BY <2>2, <2>3, ReachesFirst
<1>5. \A s \in Slots : ProjectLocals(s) /\ ProjectCarried(s)
  BY <1>1 DEF ProjectLocals, ProjectCarried, At
<1>6. HoursFit /\ ProgressFits
  BY <1>2 DEF HoursFit, ProgressFits
<1> QED
  BY <1>3, <1>4, <1>5, <1>6 DEF ProjectsInv

\* So it is after every step.
LEMMA ProjectsAlways == ServiceSpec => []ProjectsInv
BY ProjectsInitially, HandlersAlways, ProjectsInvNext, PTL DEF ServiceSpec

\* More tasks hang under each other than a walk up the tree meets.
TasksTooDeep == IsDeep(Parents, TaskIds)

\* Tasks, what they hang under and what is logged on them go together, whatever
\* overlaps.  In turn the walk up from every task meets a root, unless tasks hang
\* deeper than the walk that keeps them trees; hours add up and a project is as
\* far as its tasks once nobody writes them.
THEOREM ProjectsHangTogether == ServiceSpec => [](TasksTooDeep \/ ProjectsAgree)
<1>1. ProjectsInv => TasksTooDeep \/ ProjectsAgree
  <2> SUFFICES ASSUME ProjectsInv, ~TasksTooDeep PROVE ProjectsAgree
    OBVIOUS
  <2>1. ProjectRows /\ (InTurn => NoLoops(Parents, TaskIds) /\ HoursFit /\ ProgressFits)
    BY DEF ProjectsInv
  <2>2. Quiet => /\ \A t : ~Syncing(t)
                 /\ \A j : ~Rolling(j)
    BY DEF Quiet, Syncing, HoursSteps, Rolling, At
  <2>3. InTurn /\ Quiet => \A t \in TasksOnFile : task[t].hours = HoursLogged(t)
    BY <2>1, <2>2 DEF HoursFit
  <2>4. ASSUME InTurn, NEW t \in TasksOnFile
        PROVE  \E root \in Met(Parents, t, MaxHops) : task[root].parent = NoParent
    <3>1. t \in TaskIds
      BY DEF TasksOnFile
    <3>2. PICK root \in Met(Parents, t, MaxHops) : Parents[root] = NoParent
      BY <2>1, <2>4, <3>1, TasksAreParents, RootsAreMet DEF TasksTooDeep
    <3>3. root \in TaskIds
      BY <2>1, <3>1, <3>2, TasksAreParents, MetIsReached, MaxHopsAssumption
    <3> QED
      BY <2>1, <3>2, <3>3, TasksAreParents
  <2>5. InTurn /\ Quiet => \A j \in ProjectsOnFile \ byHand :
                             project[j].progress = RollUp(j, project[j].progress)
    BY <2>1, <2>2 DEF ProgressFits
  <2>6. /\ \A t \in TasksOnFile :
             /\ task[t].project \in ProjectsOnFile
             /\ task[t].parent # NoParent => task[t].parent \in TasksOf(task[t].project)
        /\ \A e \in EntriesOnFile : entry[e].task \in TasksOnFile
    BY <2>1 DEF ProjectRows
  <2> QED
    BY <2>3, <2>4, <2>5, <2>6 DEF ProjectsAgree
<1> QED
  BY <1>1, ProjectsAlways, PTL

\* However deep tasks hang: in turn none is met on the walk up from its own
\* parent, hours add up and a project is as far as its tasks.
THEOREM ProjectsAddUp ==
  ServiceSpec => [](InTurn =>
    /\ IsForest(Parents, TasksOnFile)
    /\ Quiet =>
         /\ \A t \in TasksOnFile : task[t].hours = HoursLogged(t)
         /\ \A j \in ProjectsOnFile \ byHand :
              project[j].progress = RollUp(j, project[j].progress))
<1>1. ASSUME ProjectsInv, InTurn
      PROVE  /\ IsForest(Parents, TasksOnFile)
             /\ Quiet =>
                  /\ \A t \in TasksOnFile : task[t].hours = HoursLogged(t)
                  /\ \A j \in ProjectsOnFile \ byHand :
                       project[j].progress = RollUp(j, project[j].progress)
  <2>1. ProjectRows /\ NoLoops(Parents, TaskIds) /\ HoursFit /\ ProgressFits
    BY <1>1 DEF ProjectsInv
  <2>2. Quiet => /\ \A t : ~Syncing(t)
                 /\ \A j : ~Rolling(j)
    BY DEF Quiet, Syncing, HoursSteps, Rolling, At
  <2>3. IsForest(Parents, TasksOnFile)
    BY <2>1, TasksAreParents, ForestHasNoLoops
  <2> QED
    BY <2>1, <2>2, <2>3 DEF HoursFit, ProgressFits
<1> QED
  BY <1>1, ProjectsAlways, PTL
=============================================================================
