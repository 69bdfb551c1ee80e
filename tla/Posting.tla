------------------------------ MODULE Posting -------------------------------
(***************************************************************************)
(* How documents reach the books: PgDocumentPoster, the handlers that call *)
(* it once their document is written, and the repair of what was missed.   *)
(*                                                                         *)
(* A slot is a handler in flight: the list of calls it has still to make,  *)
(* each of them one transaction.  Posting is two calls, for the mapping is *)
(* read before the rows are written.  The reads a handler begins with are  *)
(* one step with its start, and so are the queries of the repair.          *)
(*                                                                         *)
(* Only what posting can tell apart is kept of a document: whether it was  *)
(* issued and undone, and what it is worth.  Shelf, Fulfilment and         *)
(* Settlement model what happens to it otherwise.                          *)
(***************************************************************************)
EXTENDS Ledger, PostingRules, Sequences, SequencesExt

CONSTANTS
  Against,       \* the document a document is raised against, if any
  NoDocument,
  Mappings,      \* the mappings an administrator may choose
  HandRows,      \* the entries somebody may write by hand
  Retypable,     \* the accounts whose type may be changed
  InitialDebits, \* the accounts that are assets or expenses at first
  OpeningStock,  \* what the stock is worth when the books are opened
  Slots,         \* the handlers that may run at the same time
  MaxRequests,   \* bound on the requests of a behaviour
  MayAbandon     \* whether a client may drop its connection mid-request

PostingAccounts == [Roles -> Accounts \cup {NoAccount}]

ASSUME DocumentsAssumption ==
  /\ Kind \in [Documents -> Kinds]
  /\ Against \in [Documents -> Documents \cup {NoDocument}]
ASSUME MappingsAssumption ==
  NoAccount \notin Accounts /\ Mappings \subseteq PostingAccounts
ASSUME HandRowsAssumption ==
  /\ HandRows \subseteq [debit : Accounts, credit : Accounts, amount : Int]
  /\ {NoEntry, Removed} \cap HandRows = {}
ASSUME StartAssumption ==
  /\ IsFiniteSet(Documents)
  /\ InitialDebits \subseteq Accounts /\ Retypable \subseteq Accounts
  /\ OpeningStock \in Nat /\ MaxRequests \in Nat

VARIABLES
  status,      \* what became of each document
  shelf,       \* what the stock on the shelves is worth
  movements,   \* how many stock movements each document has
  mapping,     \* the posting accounts, as chosen now
  slot,        \* the calls each handler in flight has still to make
  requests,    \* how many requests there have been
  switchedOff, \* history: posting has been switched off
  lost,        \* history: <<d, what>> whose postings were not all made
  contended,   \* history: documents two handlers worked on, or posted, at once
  disturbed    \* history: the balances may have been moved wrongly

documentVars == <<status, shelf, movements>>
historyVars == <<switchedOff, lost, contended, disturbed>>
vars == <<ledgerVars, documentVars, mapping, slot, requests, historyVars>>

-----------------------------------------------------------------------------
(* Calls *)

Write(d, st)      == [do |-> "write", doc |-> d, status |-> st]
\* record_movements posts each movement; apply_movements only moves.
RecordMove(d, way) == [do |-> "record", doc |-> d, way |-> way]
ApplyMove(d, way)  == [do |-> "apply", doc |-> d, way |-> way]
PostMove(d, way, n) == [do |-> "plan", doc |-> d, what |-> way, nth |-> n]
Plan(d, what)     == [do |-> "plan", doc |-> d, what |-> what, nth |-> 0]
Commit(d, what, rows, debits) ==
  [do |-> "commit", doc |-> d, what |-> what, rows |-> rows, debits |-> debits]

Idle == <<>>
Running == {s \in Slots : slot[s] # Idle}
At(s, do) == slot[s] # Idle /\ Head(slot[s]).do = do
Call(s) == Head(slot[s])
Continue(s) == slot' = [slot EXCEPT ![s] = Tail(slot[s])]

\* The documents a handler still has something to do to, the repair's aside.
Touched(calls) == {calls[i].doc : i \in {j \in DOMAIN calls : calls[j].do \in
                    {"write", "record", "apply", "plan", "commit"}}}
Repairing(s) == \E i \in DOMAIN slot[s] : slot[s][i].do = "report"

MovementWays == {"in", "out", "gain", "loss", "transfer"}
\* A movement's posting and a document's own leg both put goods in the books.
Concern(d, what) == <<d, IF what \in MovementWays THEN "goods" ELSE "posting">>

-----------------------------------------------------------------------------
(* The handlers *)

Begin(s, calls) ==
  /\ slot[s] = Idle
  /\ requests < MaxRequests
  /\ requests' = requests + 1
  /\ slot' = [slot EXCEPT ![s] = calls]
  /\ contended' = contended \cup
       {d \in Touched(calls) :
          \E t \in Running : ~Repairing(t) /\ d \in Touched(slot[t])}
  /\ UNCHANGED <<ledgerVars, documentVars, mapping, switchedOff, lost, disturbed>>

\* A document that a handler creates is that handler's own until it is written.
New(d) ==
  /\ status[d] = "none"
  /\ \A t \in Slots : d \notin Touched(slot[t])

\* What a document is raised against has to have been issued.
StandsOn(d, statuses) == Against[d] # NoDocument => status[Against[d]] \in statuses

\* The goods leave before the invoice is sent, the books follow it.
SendInvoice(s, d) ==
  /\ Kind[d] = "invoice" /\ status[d] = "none"
  /\ Begin(s, <<RecordMove(d, "out"), Write(d, "issued"), Plan(d, "issued")>>)

CancelInvoice(s, d) ==
  /\ Kind[d] = "invoice" /\ status[d] = "issued"
  /\ Begin(s, <<Write(d, "undone"), Plan(d, "undone"), RecordMove(d, "in")>>)

RecordPayment(s, d) ==
  /\ Kind[d] \in {"payment", "vendorPayment"} /\ New(d) /\ StandsOn(d, {"issued"})
  /\ Begin(s, <<Write(d, "issued"), Plan(d, "issued")>>)

\* The mirror is posted before the row goes, because it is derived from it.
DeletePayment(s, d) ==
  /\ Kind[d] \in {"payment", "vendorPayment"} /\ status[d] = "issued"
  /\ Begin(s, <<Plan(d, "undone"), Write(d, "undone")>>)

CreditCustomer(s, d) ==
  /\ Kind[d] = "creditNote" /\ New(d) /\ StandsOn(d, {"issued", "undone"})
  /\ Begin(s, <<Write(d, "issued"), ApplyMove(d, "in"), Plan(d, "issued")>>)

ReceiveGoods(s, d) ==
  /\ Kind[d] = "receipt" /\ New(d)
  /\ Begin(s, <<Write(d, "issued"), ApplyMove(d, "in"), Plan(d, "issued")>>)

ReturnGoods(s, d) ==
  /\ Kind[d] = "purchaseReturn" /\ New(d) /\ StandsOn(d, {"issued"})
  /\ shelf >= Worth[d].goods
  /\ Begin(s, <<Write(d, "issued"), ApplyMove(d, "out"), Plan(d, "issued")>>)

ApproveExpenses(s, d) ==
  /\ Kind[d] = "expense" /\ status[d] = "none"
  /\ Begin(s, <<Write(d, "issued"), Plan(d, "issued")>>)

ReimburseExpenses(s, d) ==
  /\ Kind[d] = "expense" /\ status[d] = "issued"
  /\ Begin(s, <<Write(d, "reimbursed"), Plan(d, "reimbursed")>>)

MoveByHand(s, d, way) ==
  /\ Kind[d] = "movement"
  /\ Begin(s, <<RecordMove(d, way)>>)

-----------------------------------------------------------------------------
(* The calls on documents and stock *)

WriteDocument(s) ==
  /\ At(s, "write")
  /\ status' = [status EXCEPT ![Call(s).doc] = Call(s).status]
  /\ Continue(s)
  /\ UNCHANGED <<ledgerVars, shelf, movements, mapping, requests, historyVars>>

Moving(s) == At(s, "record") \/ At(s, "apply")
Leaves(way) == way \in {"out", "loss"}

MoveStock(s) ==
  LET d == Call(s).doc
      way == Call(s).way
      n == movements[d] + 1
      value == Worth[d].goods IN
  /\ Moving(s)
  /\ Leaves(way) => shelf >= value
  /\ shelf' = IF way = "transfer" THEN shelf
              ELSE IF Leaves(way) THEN shelf - value ELSE shelf + value
  /\ movements' = [movements EXCEPT ![d] = n]
  /\ slot' = [slot EXCEPT ![s] =
       IF At(s, "record") THEN <<PostMove(d, way, n)>> \o Tail(@) ELSE Tail(@)]
  /\ UNCHANGED <<ledgerVars, status, mapping, requests, historyVars>>

\* What a request had still to do to its documents.
Unmade(calls) ==
  UNION {LET c == calls[i] IN
           IF c.do \in {"record", "apply"} THEN {Concern(c.doc, c.way)}
           ELSE IF c.do = "write" THEN {Concern(c.doc, c.status)}
           ELSE IF c.do \in {"plan", "commit"} THEN {Concern(c.doc, c.what)}
           ELSE {} : i \in DOMAIN calls}

\* Nothing was done yet if the goods were to leave first; a purchase return is
\* on file by now.
RefuseMove(s) ==
  /\ Moving(s)
  /\ Leaves(Call(s).way) /\ shelf < Worth[Call(s).doc].goods
  /\ slot' = [slot EXCEPT ![s] = Idle]
  /\ lost' = IF At(s, "apply") THEN lost \cup Unmade(slot[s]) ELSE lost
  /\ UNCHANGED <<ledgerVars, documentVars, mapping, requests, switchedOff,
                 contended, disturbed>>

-----------------------------------------------------------------------------
(* Posting *)

Legs(d, what, perpetual) ==
  IF what \in MovementWays THEN MovementLegs(d, what, perpetual)
  ELSE IF what = "reimbursed" THEN ReimbursementLegs(d)
  ELSE IF what = "repaired" THEN CreditNoteLegs(d, 0, perpetual)
  ELSE DocumentLegs(d, perpetual)

\* A reversal derives the entries again, from the document and the mapping now.
PlannedRows(c, m) ==
  LET rows == Rows(c.doc, Legs(c.doc, c.what, Perpetual(m)), c.nth, m) IN
  IF c.what = "undone" THEN Reversed(rows) ELSE rows

\* context and plan: nothing is posted while the mapping is incomplete.
PlanPosting(s) ==
  LET c == Call(s)
      rows == IF Complete(mapping) THEN PlannedRows(c, mapping) ELSE {} IN
  /\ At(s, "plan")
  /\ slot' = [slot EXCEPT ![s] =
       IF rows = {} THEN Tail(@)
       ELSE <<Commit(c.doc, c.what, rows, debitNormal)>> \o Tail(@)]
  /\ lost' = lost
       \cup (IF Complete(mapping) THEN {} ELSE {Concern(c.doc, c.what)})
       \cup (IF Perpetual(mapping) THEN {} ELSE {<<c.doc, "goods">>})
  /\ UNCHANGED <<ledgerVars, documentVars, mapping, requests, switchedOff,
                 contended, disturbed>>

\* The repair made up for what was missed: all of it, if the document has only
\* been issued and nobody began to undo it, but for the goods of a credit note.
MadeUp(s, c) ==
  /\ Repairing(s)
  /\ \A r \in posted : r.key.doc = c.doc => ~r.key.reversal
  /\ \A t \in Slots : \A i \in DOMAIN slot[t] : slot[t][i] # Write(c.doc, "undone")
  /\ \/ status[c.doc] = "issued"
     \/ /\ status[c.doc] = "reimbursed" /\ c.what = "reimbursed"
        /\ \E r \in posted : r.key.doc = c.doc /\ r.key.leg = "expense"

\* Two keys of one posting of a document: a report is reimbursed in another.
Alike(k, j) ==
  /\ <<k.doc, k.nth, k.reversal>> = <<j.doc, j.nth, j.reversal>>
  /\ k.leg = "reimbursement" <=> j.leg = "reimbursement"

\* A document planned by a handler and by the repair under different mappings
\* may be posted in part by each: the key is that of a leg, not of a document.
Piecemeal(rows) ==
  /\ \E r \in rows, p \in posted : Alike(r.key, p.key)
  /\ \E r \in rows : \A p \in posted : p.key # r.key

CommitPosting(s) ==
  LET c == Call(s) IN
  /\ At(s, "commit")
  /\ Post(c.rows, c.debits)
  /\ Continue(s)
  /\ lost' = (lost \ (IF MadeUp(s, c) THEN {<<c.doc, "posting">>} ELSE {}))
              \cup (IF c.what = "repaired" THEN {<<c.doc, "goods">>} ELSE {})
  /\ contended' = contended \cup (IF Piecemeal(c.rows) THEN {c.doc} ELSE {})
  /\ disturbed' = (disturbed \/ c.debits # debitNormal)
  /\ UNCHANGED <<documentVars, mapping, requests, switchedOff>>

-----------------------------------------------------------------------------
(* The repair of what is outstanding *)

\* The entries that name the document itself, not those of its movements.
EntriesOf(d) == {r \in posted : r.key.doc = d /\ r.key.leg \notin MovementWays}

\* Variant: a document is outstanding until all of its movements are posted too.
UnpostedUnlessMoved(kind) ==
  {d \in Documents : Kind[d] = kind /\ status[d] = "issued"
                       /\ ~ \E r \in posted : r.key.doc = d}

Unposted(kind) ==
  {d \in Documents : Kind[d] = kind /\ status[d] = "issued" /\ EntriesOf(d) = {}}

\* An expense report posts twice, so only the key tells its entries apart.
UnpostedExpenses(statuses, leg) ==
  {d \in Documents : /\ Kind[d] = "expense" /\ status[d] \in statuses
                     /\ \A r \in EntriesOf(d) : r.key.leg # leg}

Plans(docs, what) ==
  LET q == SetToSeq(docs) IN [i \in DOMAIN q |-> Plan(q[i], what)]

\* What creates a balance is posted before what clears it.
Repairs ==
  Plans(Unposted("invoice"), "issued") \o Plans(Unposted("receipt"), "issued")
    \o Plans(Unposted("purchaseReturn"), "issued")
    \o Plans(Unposted("creditNote"), "repaired")
    \o Plans(UnpostedExpenses({"issued", "reimbursed"}, "expense"), "issued")
    \o Plans(Unposted("payment"), "issued")
    \o Plans(Unposted("vendorPayment"), "issued")
    \o Plans(UnpostedExpenses({"reimbursed"}, "reimbursement"), "reimbursed")

PostUnposted(s) ==
  /\ Complete(mapping)
  /\ Begin(s, <<[do |-> "outstanding"]>>)

\* The report names, beside what the queries found, every document that stands
\* without an entry while nobody works on it.
ReadOutstanding(s) ==
  LET standing == {d \in Documents : /\ status[d] \in {"issued", "reimbursed"}
                                     /\ EntriesOf(d) = {}
                                     /\ \A t \in Slots : d \notin Touched(slot[t])} IN
  /\ At(s, "outstanding")
  /\ slot' = [slot EXCEPT ![s] = Append(Repairs, [do |-> "report", docs |-> standing])]
  /\ UNCHANGED <<ledgerVars, documentVars, mapping, requests, historyVars>>

Report(s) ==
  /\ At(s, "report")
  /\ Continue(s)
  /\ UNCHANGED <<ledgerVars, documentVars, mapping, requests, historyVars>>

-----------------------------------------------------------------------------
(* The journal form, accounts and settings *)

\* The types of the accounts are read before the entry is written.
WriteEntry(s, h, e) ==
  /\ written[h] = NoEntry
  /\ \A t \in Running : ~(At(t, "insert") /\ Call(t).id = h)
  /\ Begin(s, <<[do |-> "insert", id |-> h, row |-> e, debits |-> debitNormal]>>)

DeleteEntry(s, h) ==
  /\ h \in OnTheBooks
  /\ Begin(s, <<[do |-> "remove", id |-> h, row |-> written[h], debits |-> debitNormal]>>)

InsertEntry(s) ==
  LET c == Call(s) IN
  /\ At(s, "insert")
  /\ WriteByHand(c.id, c.row, c.debits)
  /\ Continue(s)
  /\ disturbed' = (disturbed \/ c.debits # debitNormal)
  /\ UNCHANGED <<documentVars, mapping, requests, switchedOff, lost, contended>>

RemoveEntry(s) ==
  LET c == Call(s) IN
  /\ At(s, "remove")
  /\ RemoveByHand(c.id, c.row, c.debits)
  /\ Continue(s)
  /\ disturbed' = (disturbed \/ c.debits # debitNormal \/ written[c.id] = Removed)
  /\ UNCHANGED <<documentVars, mapping, requests, switchedOff, lost, contended>>

BeginRecalculation(s) ==
  Begin(s, <<[do |-> "recalculate", rebuilt |-> Rebuilt(debitNormal),
              of |-> <<posted, written, debitNormal>>]>>)

\* Balances rebuilt from entries that changed meanwhile miss the change.
WriteRecalculation(s) ==
  LET c == Call(s) IN
  /\ At(s, "recalculate")
  /\ Recalculate(c.rebuilt)
  /\ Continue(s)
  /\ disturbed' = (c.of # <<posted, written, debitNormal>>)
  /\ UNCHANGED <<documentVars, mapping, requests, switchedOff, lost, contended>>

RetypeAccount(a) ==
  /\ requests < MaxRequests
  /\ requests' = requests + 1
  /\ Retype(a)
  /\ disturbed' = TRUE
  /\ UNCHANGED <<documentVars, mapping, slot, switchedOff, lost, contended>>

\* An account may only play a role that is for its type.
Suits(m) ==
  \A r \in Roles : m[r] # NoAccount => (m[r] \in debitNormal <=> r \in DebitRoles)

ChooseMapping(m) ==
  /\ requests < MaxRequests
  /\ m # mapping /\ Suits(m)
  /\ requests' = requests + 1
  /\ mapping' = m
  /\ switchedOff' = (switchedOff \/ ~Complete(m))
  /\ UNCHANGED <<ledgerVars, documentVars, slot, lost, contended, disturbed>>

Abandon(s) ==
  /\ MayAbandon
  /\ slot[s] # Idle
  /\ slot' = [slot EXCEPT ![s] = Idle]
  /\ lost' = IF Repairing(s) THEN lost ELSE lost \cup Unmade(slot[s])
  /\ UNCHANGED <<ledgerVars, documentVars, mapping, requests, switchedOff,
                 contended, disturbed>>

-----------------------------------------------------------------------------
Init ==
  /\ posted = {}
  /\ written = [h \in HandEntries |-> NoEntry]
  /\ balance = [a \in Accounts |-> 0]
  /\ debitNormal = InitialDebits
  /\ status = [d \in Documents |-> "none"]
  /\ shelf = OpeningStock
  /\ movements = [d \in Documents |-> 0]
  /\ mapping \in Mappings
  /\ slot = [s \in Slots |-> Idle]
  /\ requests = 0
  /\ switchedOff = FALSE /\ lost = {} /\ contended = {} /\ disturbed = FALSE

Request(s) ==
  \/ \E d \in Documents :
       \/ SendInvoice(s, d) \/ CancelInvoice(s, d)
       \/ RecordPayment(s, d) \/ DeletePayment(s, d)
       \/ CreditCustomer(s, d)
       \/ ReceiveGoods(s, d) \/ ReturnGoods(s, d)
       \/ ApproveExpenses(s, d) \/ ReimburseExpenses(s, d)
       \/ \E way \in MovementWays : MoveByHand(s, d, way)
  \/ \E h \in HandEntries :
       DeleteEntry(s, h) \/ \E e \in HandRows : WriteEntry(s, h, e)
  \/ BeginRecalculation(s)
  \/ PostUnposted(s)

Step(s) ==
  \/ WriteDocument(s) \/ MoveStock(s) \/ RefuseMove(s)
  \/ PlanPosting(s) \/ CommitPosting(s)
  \/ ReadOutstanding(s) \/ Report(s)
  \/ InsertEntry(s) \/ RemoveEntry(s) \/ WriteRecalculation(s)

Next ==
  \/ \E s \in Slots : Request(s) \/ Step(s) \/ Abandon(s)
  \/ \E a \in Retypable : RetypeAccount(a)
  \/ \E m \in Mappings : ChooseMapping(m)

Spec == Init /\ [][Next]_vars

-----------------------------------------------------------------------------
(* Properties *)

Whats == {"posting", "goods"}
CallKinds ==
  {"write", "record", "apply", "plan", "commit", "outstanding", "report",
   "insert", "remove", "recalculate"}

\* Type invariant: the shapes of the books, the documents and the calls in
\* flight, and no key in the ledger twice.
PostingTypeOK ==
  /\ \A r \in posted :
       /\ r.key.doc \in Documents /\ r.amount > 0
       /\ {r.debit, r.credit} \subseteq Accounts
  /\ \A r, q \in posted : r.key = q.key => r = q
  /\ DOMAIN written = HandEntries
  /\ balance \in [Accounts -> Int]
  /\ debitNormal \subseteq Accounts
  /\ status \in [Documents -> {"none", "issued", "undone", "reimbursed"}]
  /\ shelf \in Nat
  /\ movements \in [Documents -> Nat]
  /\ mapping \in Mappings
  /\ \A s \in Slots : \A i \in DOMAIN slot[s] : slot[s][i].do \in CallKinds
  /\ requests \in 0..MaxRequests
  /\ lost \subseteq Documents \X Whats
  /\ contended \subseteq Documents

\* The balance kept on every account is what the entries add up to, whatever
\* posts, repeats, repairs, writes or deletes at the same time: adjust runs in
\* the transaction of the entry, and only for a row that went in.  Not so once
\* an account was given another type, an entry was deleted twice, or balances
\* were rebuilt from entries that changed meanwhile - until a recalculation
\* that nothing ran into puts it right.
BooksAgree == ~disturbed => balance = Rebuilt(debitNormal)

Quiet == \A s \in Slots : slot[s] = Idle

ControlRole(d) ==
  [invoice |-> "ar", payment |-> "ar", creditNote |-> "ar",
   receipt |-> "accountsPayable", purchaseReturn |-> "accountsPayable",
   vendorPayment |-> "accountsPayable", expense |-> "employeePayable",
   movement |-> "inventory"][Kind[d]]

\* What document d has debited account a with, less what it credited it with.
NetOn(d, a) == Total(EntriesOf(d), a, Accounts)

\* What a document that stands makes somebody owe (or, negative, be owed).
Claim(d) ==
  LET w == Worth[d] IN
  [invoice |-> w.net + w.tax, payment |-> w.fx - w.net, creditNote |-> -(w.net + w.tax),
   receipt |-> -(w.goods + w.net + w.tax), purchaseReturn |-> w.goods + w.net + w.tax,
   vendorPayment |-> w.net + w.fx, expense |-> -w.net, movement |-> 0][Kind[d]]

\* When no handler is running, the control account carries for each document
\* what the document says is owed: all of it once while it stands, nothing once
\* it is cancelled, deleted or reimbursed.  It takes the document's handlers,
\* the keys, the reversals and the repair to agree.  Documents are left out
\* that two handlers worked on at once, whose posting was dropped or skipped and
\* not made up for, or that a handler and the repair posted in part each.
ControlsAgree ==
  Quiet /\ Complete(mapping) =>
    \A d \in Documents :
      <<d, "posting">> \notin lost /\ d \notin contended =>
        NetOn(d, mapping[ControlRole(d)]) = IF status[d] = "issued" THEN Claim(d) ELSE 0

\* README, Stock costing: the stock valuation and the Inventory account are the
\* same number.  When no handler is running and no posting of goods was dropped
\* or skipped, what the stock is worth is what the books say, whichever of the
\* movement and its document was to post it.
ValuationIsInventory ==
  Quiet /\ Perpetual(mapping)
    /\ (\A d \in Documents : Worth[d].goods # 0 => lost \cap ({d} \X Whats) = {}) =>
      shelf - OpeningStock = Total(posted, mapping["inventory"], Accounts)

\* There is something to post of a document: a zero leg is not written at all.
WorthEntries(d) == \E l \in DocumentLegs(d, FALSE) : l.amount # 0

\* When post_unposted reports, no document that stood unposted and unattended
\* when it read what was outstanding is still without an entry, if it is worth
\* any: the queries and the loops name the same kinds, and whoever posts one
\* meanwhile posts it.
RepairLeavesNothingOut ==
  \A s \in Slots :
    At(s, "report") /\ ~switchedOff =>
      \A d \in Call(s).docs : WorthEntries(d) => EntriesOf(d) # {}

\* An entry that a document posted is there for good: it is neither deleted nor
\* changed, and only its own mirror undoes it.
PostedForGood == [][posted \subseteq posted']_posted

\* Stated by document_poster.rs of reversals: deriving the entries again cannot
\* disagree with what was written, and works for a document never posted.
UndoneLeavesNothing ==
  Quiet => \A d \in Documents :
    status[d] = "undone" => \A a \in Accounts : NetOn(d, a) = 0

\* Stated by posting_repo.rs of a repaired credit note: its stock leg is left to
\* the movement that already recorded it, so goods that came back are on the
\* books once the repair reports.
ReturnedGoodsAreBooked ==
  \A s \in Slots : At(s, "report") /\ Perpetual(mapping) =>
    \A d \in Documents :
      Kind[d] = "creditNote" /\ movements[d] > 0
        /\ (\A t \in Slots : d \notin Touched(slot[t])) =>
          \E r \in posted : r.key.doc = d /\ r.debit = mapping["inventory"]
=============================================================================
