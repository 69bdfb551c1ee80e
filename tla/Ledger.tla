------------------------------- MODULE Ledger -------------------------------
(***************************************************************************)
(* The books: general_ledger_entries and the balances kept on accounts.    *)
(* An entry debits one account and credits another; every account carries  *)
(* a running balance beside the entries, moved in the transaction that     *)
(* writes them.  Entries come from documents, under a key that is unique,  *)
(* or from the journal form, without one.                                  *)
(*                                                                         *)
(* Every operator is one transaction of PgLedgerRepository or of           *)
(* PgAccountRepository.  What the handler read before it is a parameter.   *)
(* Balances are counted from the account's opening balance.                *)
(***************************************************************************)
EXTENDS Integers, FiniteSets, FiniteSetsExt

CONSTANTS
  Accounts,      \* ids of accounts
  HandEntries,   \* ids of entries that somebody may write by hand
  NoEntry,       \* an id not taken yet
  Removed        \* an id whose entry has been deleted

ASSUME JournalAssumption == IsFiniteSet(HandEntries) /\ NoEntry # Removed

VARIABLES
  posted,        \* the entries that carry a posting key
  written,       \* the entries of the journal form, by id
  balance,       \* accounts.base_current_balance
  debitNormal    \* the accounts whose type is asset or expense

ledgerVars == <<posted, written, balance, debitNormal>>

OnTheBooks == {h \in HandEntries : written[h] \notin {NoEntry, Removed}}

\* AccountType::balance_delta, for the side or sides the entry has on account a:
\* an asset or an expense grows when it is debited, the others when credited.
Effect(e, a, debits) ==
  LET sign == IF a \in debits THEN 1 ELSE -1
      debited == IF e.debit = a THEN e.amount ELSE 0
      credited == IF e.credit = a THEN e.amount ELSE 0 IN
  sign * (debited - credited)

Total(entries, a, debits) == MapThenSumSet(LAMBDA e : Effect(e, a, debits), entries)

\* What the entries say the balances should be.
Rebuilt(debits) ==
  [a \in Accounts |->
     Total(posted, a, debits)
       + MapThenSumSet(LAMBDA h : Effect(written[h], a, debits), OnTheBooks)]

-----------------------------------------------------------------------------
\* Variant: a skipped row moves the balances all the same.
PostBlindly(rows, debits) ==
  LET known == {p.key : p \in posted}
      fresh == {r \in rows : r.key \notin known} IN
  /\ posted' = posted \cup fresh
  /\ balance' = [a \in Accounts |-> balance[a] + Total(rows, a, debits)]
  /\ UNCHANGED <<written, debitNormal>>

\* Variant: a row replaces the one that has its key.
PostOverwriting(rows, debits) ==
  LET keys == {r.key : r \in rows}
      stale == {p \in posted : p.key \in keys} IN
  /\ posted' = (posted \ stale) \cup rows
  /\ balance' = [a \in Accounts |->
       balance[a] + Total(rows, a, debits) - Total(stale, a, debits)]
  /\ UNCHANGED <<written, debitNormal>>

\* post: INSERT ... ON CONFLICT (posting_key) DO NOTHING for each row, and the
\* balances of those that went in.
Post(rows, debits) ==
  LET known == {p.key : p \in posted}
      fresh == {r \in rows : r.key \notin known} IN
  /\ posted' = posted \cup fresh
  /\ balance' = [a \in Accounts |-> balance[a] + Total(fresh, a, debits)]
  /\ UNCHANGED <<written, debitNormal>>

\* create: an entry somebody writes in the journal form.
WriteByHand(h, e, debits) ==
  /\ written' = [written EXCEPT ![h] = e]
  /\ balance' = [a \in Accounts |-> balance[a] + Effect(e, a, debits)]
  /\ UNCHANGED <<posted, debitNormal>>

\* delete: whether there still is a row to delete is not asked.
RemoveByHand(h, e, debits) ==
  /\ written' = [written EXCEPT ![h] = Removed]
  /\ balance' = [a \in Accounts |-> balance[a] - Effect(e, a, debits)]
  /\ UNCHANGED <<posted, debitNormal>>

\* recalculate_balances: one UPDATE, of balances rebuilt from the entries that
\* its snapshot sees.
Recalculate(rebuilt) ==
  /\ balance' = rebuilt
  /\ UNCHANGED <<posted, written, debitNormal>>

\* AccountUseCases::update gives an account another type; its balance stays.
Retype(a) ==
  /\ debitNormal' = IF a \in debitNormal THEN debitNormal \ {a} ELSE debitNormal \cup {a}
  /\ UNCHANGED <<posted, written, balance>>
=============================================================================
