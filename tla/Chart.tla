-------------------------------- MODULE Chart -------------------------------
(***************************************************************************)
(* The chart of accounts: which account hangs under which, which are in    *)
(* use, and which have journal entries.  A change writes the row whole, as *)
(* it was read, so its parent too.                                         *)
(***************************************************************************)
EXTENDS Requests, Trees

CONSTANT AccountIds   \* identities of accounts rows

ASSUME AccountIdsAssumption == NoParent \notin AccountIds

VARIABLES
  chart,     \* the accounts rows
  entered    \* the accounts that general_ledger_entries name

chartVars == <<chart, entered>>

NoAccount == [state |-> "none", parent |-> NoParent]

AccountsOnFile == {a \in AccountIds : chart[a].state \in {"active", "inactive"}}
AccountParents == [a \in AccountIds |-> chart[a].parent]
Children(a) == {b \in AccountsOnFile : chart[b].parent = a}

ReadToOpenAccount(s, parent) ==
  /\ parent \in AccountsOnFile \cup {NoParent}
  /\ Begin(s, "account.create", [step |-> "account.insert", parent |-> parent])
  /\ UNCHANGED chartVars

\* The database refuses a parent that is gone, and a code that is taken.
InsertAccount(s, a) ==
  LET parent == slot[s].parent IN
  /\ At(s, "account.insert") /\ chart[a] = NoAccount
  /\ \/ /\ parent \in AccountsOnFile \cup {NoParent}
        /\ chart' = [chart EXCEPT ![a] = [state |-> "active", parent |-> parent]]
     \/ UNCHANGED chart
  /\ Finish(s)
  /\ UNCHANGED entered

\* Variant: only the parent it is given is looked at.
ReadToMoveUnderAnother(s, a, parent) ==
  /\ a \in AccountsOnFile /\ parent # NoParent /\ parent # a
  /\ Begin(s, "account.move",
           [step |-> "account.write", id |-> a, row |-> [chart[a] EXCEPT !.parent = parent]])
  /\ UNCHANGED chartVars

\* The walk starts at the parent, whether there is such an account or not.
ReadToMoveAccount(s, a, parent) ==
  /\ a \in AccountsOnFile /\ parent # NoParent /\ parent # a
  /\ ~WouldLoop(AccountParents, a, parent)
  /\ Begin(s, "account.move",
           [step |-> "account.write", id |-> a, row |-> [chart[a] EXCEPT !.parent = parent]])
  /\ UNCHANGED chartVars

ReadToSetActive(s, a, state) ==
  /\ a \in AccountsOnFile
  /\ Begin(s, "account.use",
           [step |-> "account.write", id |-> a, row |-> [chart[a] EXCEPT !.state = state]])
  /\ UNCHANGED chartVars

UpdateAccount(s) ==
  LET a == slot[s].id
      row == slot[s].row IN
  /\ At(s, "account.write")
  /\ chart' = IF a \in AccountsOnFile /\ row.parent \in AccountsOnFile \cup {NoParent}
                THEN [chart EXCEPT ![a] = row] ELSE chart
  /\ Finish(s)
  /\ UNCHANGED entered

ReadToCloseAccount(s, a) ==
  /\ a \in AccountsOnFile /\ a \notin entered /\ Children(a) = {}
  /\ Begin(s, "account.delete", [step |-> "account.delete", id |-> a])
  /\ UNCHANGED chartVars

\* The database refuses while an entry or an account names it.
DeleteAccount(s) ==
  LET a == slot[s].id IN
  /\ At(s, "account.delete")
  /\ chart' = IF a \notin entered /\ Children(a) = {}
                THEN [chart EXCEPT ![a] = [NoAccount EXCEPT !.state = "gone"]] ELSE chart
  /\ Finish(s)
  /\ UNCHANGED entered

\* A journal entry debits one account in use and credits another.
ReadToEnter(s, debit, credit) ==
  /\ debit # credit
  /\ \A a \in {debit, credit} : chart[a].state = "active"
  /\ Begin(s, "account.enter", [step |-> "account.enter", names |-> {debit, credit}])
  /\ UNCHANGED chartVars

\* The database refuses an account that is gone; one taken out of use it takes.
InsertLedgerEntry(s) ==
  /\ At(s, "account.enter")
  /\ entered' = IF slot[s].names \subseteq AccountsOnFile
                THEN entered \cup slot[s].names ELSE entered
  /\ Finish(s)
  /\ UNCHANGED chart

ChartInit ==
  /\ chart = [a \in AccountIds |-> NoAccount]
  /\ entered = {}

ChartRequest(s) ==
  \/ \E parent \in AccountIds \cup {NoParent} : ReadToOpenAccount(s, parent)
  \/ \E a \in AccountIds :
       \/ \E parent \in AccountIds : ReadToMoveAccount(s, a, parent) \/ ReadToEnter(s, a, parent)
       \/ \E state \in {"active", "inactive"} : ReadToSetActive(s, a, state)
       \/ ReadToCloseAccount(s, a)

ChartStep(s) ==
  \/ \E a \in AccountIds : InsertAccount(s, a)
  \/ UpdateAccount(s) \/ DeleteAccount(s)
  \/ InsertLedgerEntry(s)

ChartRequests ==
  {"account.create", "account.move", "account.use", "account.delete", "account.enter"}

ChartNext ==
  /\ Concerns(ChartRequests)
  /\ \E s \in Slots : (Free(s) /\ ChartRequest(s)) \/ ChartStep(s)

-----------------------------------------------------------------------------
(* Correctness *)

ChartTypeOK ==
  /\ \A a \in AccountIds : chart[a].state \in {"none", "active", "inactive", "gone"}
  /\ \A a \in AccountIds \ AccountsOnFile : chart[a].parent = NoParent
  /\ entered \subseteq AccountIds

\* What the tree of the chart shows: build_tree starts from the roots.
Shown ==
  {a \in AccountsOnFile :
     \E r \in Met(AccountParents, a, MaxHops) : chart[r].parent = NoParent}

\* An account with entries stays on file, and so does one that another hangs
\* under, whatever overlaps.  In turn no account hangs under itself, so the tree
\* shows every account there is: a loop would drop out of it, balances and all.
ChartAgrees ==
  /\ entered \subseteq AccountsOnFile
  /\ \A a \in AccountsOnFile : chart[a].parent \in AccountsOnFile \cup {NoParent}
  /\ InTurn => IsForest(AccountParents, AccountsOnFile) /\ Shown = AccountsOnFile
=============================================================================
