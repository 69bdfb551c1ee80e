------------------------------ MODULE Amounts -------------------------------
(***************************************************************************)
(* What the documents of one sales order are worth.  The order has a line; *)
(* instalments bill some of its units, credit notes take units of an       *)
(* instalment back, payments settle it.  Each prices its own units, is     *)
(* restated in the organisation's currency at its own rate, and rounds on  *)
(* its own.  A sum is in cents, a rate in parts of Scale.                  *)
(*                                                                         *)
(* A document is one step, the columns settle_invoice derives from it and  *)
(* its entries included: modules Settlement and Posting take those apart.  *)
(* Exchange rates are looked up when a document is raised, and deleted by  *)
(* a handler that first reads whether they are needed.                     *)
(***************************************************************************)
EXTENDS Requests, FiniteSetsExt

CONSTANTS
  SaleTerms,      \* what an order line may say: quantity, price, discount, tax
  Instalments,    \* ids that invoices may take
  Receipts,       \* ids that payments may take
  PartPayments,   \* what a payment may be of, other than all that is owed
  RateDays,       \* the days documents and rates are dated
  Scale,          \* what one is, as a rate
  FxRates         \* rates that may be entered

ASSUME RatesAssumption ==
  Scale \in Nat \ {0} /\ FxRates \subseteq Nat \ {0} /\ RateDays \subseteq Nat

VARIABLES
  rates,     \* the fx_rates rows of the order's currency, zero where there is none
  sale,      \* the sales_orders row and its line
  bill,      \* the invoices rows, and what their credit notes add up to
  receipt,   \* the payments rows
  books      \* each invoice's part of the receivable, and the exchange account

amountVars == <<rates, sale, bill, receipt, books>>

NoSale == [foreign |-> FALSE, terms |-> [quantity |-> 0], total |-> 0]
NoBill == [quantity |-> 0]
NoReceipt == [amount |-> 0]

Raised == {i \in Instalments : bill[i] # NoBill}
Received(i) == {p \in Receipts : receipt[p] # NoReceipt /\ receipt[p].bill = i}

-----------------------------------------------------------------------------
(* Arithmetic *)

\* n/d to the nearest whole, halves away from zero.
RoundMoney(n, d) ==
  IF n >= 0 THEN (2 * n + d) \div (2 * d) ELSE -((d - 2 * n) \div (2 * d))

ToBase(amount, rate) == RoundMoney(amount * rate, Scale)

\* What a number of units costs on the terms of a line.
LineAmounts(terms, quantity) ==
  LET gross == quantity * terms.price
      net   == gross - RoundMoney(gross * terms.discount, 100)
  IN [net |-> net, tax |-> RoundMoney(net * terms.tax, 100)]

Totalled(amounts) == amounts.net + amounts.tax

\* The rate in force: the last one that came into effect by then.
RatesBy(day) == {d \in RateDays : d <= day /\ rates[d] # 0}
RateOn(day) == rates[Max(RatesBy(day))]

\* The organisation's own currency needs none; another one has to have one.
Resolved(foreign, day, rate) ==
  IF foreign THEN RatesBy(day) # {} /\ rate = RateOn(day) ELSE rate = Scale

-----------------------------------------------------------------------------
(* Documents *)

Billed == MapThenSumSet(LAMBDA i : bill[i].quantity, Raised)
PaidOn(i) == MapThenSumSet(LAMBDA p : receipt[p].amount, Received(i))
Outstanding(i) == bill[i].total - bill[i].credited - PaidOn(i)

RaiseOrder(foreign, terms, day) ==
  /\ sale = NoSale
  /\ \E rate \in FxRates \cup {Scale} : Resolved(foreign, day, rate)
  /\ Happens("sale.order")
  /\ sale' = [foreign |-> foreign, terms |-> terms,
              total |-> Totalled(LineAmounts(terms, terms.quantity))]
  /\ UNCHANGED <<rates, bill, receipt, books>>

\* Priced from what it bills, at the rate of its own date.
RaiseInvoice(quantity, day, rate) ==
  /\ sale # NoSale /\ Raised # Instalments
  /\ quantity <= sale.terms.quantity - Billed
  /\ Resolved(sale.foreign, day, rate)
  /\ Happens("sale.bill")
  /\ LET i     == CHOOSE i \in Instalments : bill[i] = NoBill
         total == Totalled(LineAmounts(sale.terms, quantity)) IN
     /\ bill' = [bill EXCEPT ![i] =
          [quantity |-> quantity, total |-> total, rate |-> rate, returned |-> 0, notes |-> 0,
           credited |-> 0, baseCredited |-> 0, baseTotal |-> ToBase(total, rate),
           basePaid |-> 0, baseDue |-> ToBase(total, rate)]]
     /\ books' = [books EXCEPT !.receivable[i] = ToBase(total, rate)]
  /\ UNCHANGED <<rates, sale, receipt>>

\* Restated at the invoice's own rate.
Settled(row, paid) ==
  [row EXCEPT !.basePaid = ToBase(paid, row.rate),
              !.baseDue = ToBase(row.total - row.credited - paid, row.rate)]

\* Valued as what was charged, at the invoice's rate.
Credit(i, quantity) ==
  /\ quantity <= bill[i].quantity - bill[i].returned
  /\ Happens("sale.credit")
  /\ LET total == Totalled(LineAmounts(sale.terms, quantity))
         base  == ToBase(total, bill[i].rate)
         row   == [bill[i] EXCEPT !.returned = @ + quantity, !.notes = @ + 1,
                                  !.credited = @ + total, !.baseCredited = @ + base]
     IN /\ bill' = [bill EXCEPT ![i] = Settled(row, PaidOn(i))]
        /\ books' = [books EXCEPT !.receivable[i] = @ - base]
  /\ UNCHANGED <<rates, sale, receipt>>

\* What a payment books: what came in leaves the receivable, and the gain, or
\* the loss, goes back to it.
Entered(ledger, i, money, sign) ==
  [ledger EXCEPT !.receivable[i] = @ - sign * (money.base - money.gain),
                 !.exchange = @ + sign * money.gain]

\* Variant: what the money settles is worth what it is worth today.
PayAtTodaysWorth(i, amount, day, rate) ==
  /\ \E p \in Receipts : receipt[p] = NoReceipt
  /\ amount \in 1..Outstanding(i)
  /\ Resolved(sale.foreign, day, rate)
  /\ Happens("sale.pay")
  /\ LET money == [bill |-> i, amount |-> amount, base |-> ToBase(amount, rate), gain |-> 0]
     IN /\ receipt' = [receipt EXCEPT
             ![CHOOSE p \in Receipts : receipt[p] = NoReceipt] = money]
        /\ books' = Entered(books, i, money, 1)
  /\ bill' = [bill EXCEPT ![i] = Settled(@, PaidOn(i) + amount)]
  /\ UNCHANGED <<rates, sale>>

\* In the invoice's currency, at the rate of the day the money came in.
Pay(i, amount, day, rate) ==
  /\ \E p \in Receipts : receipt[p] = NoReceipt
  /\ amount \in 1..Outstanding(i)
  /\ Resolved(sale.foreign, day, rate)
  /\ Happens("sale.pay")
  /\ LET money == [bill |-> i, amount |-> amount, base |-> ToBase(amount, rate),
                   gain |-> ToBase(amount, rate) - ToBase(amount, bill[i].rate)]
     IN /\ receipt' = [receipt EXCEPT
             ![CHOOSE p \in Receipts : receipt[p] = NoReceipt] = money]
        /\ books' = Entered(books, i, money, 1)
  /\ bill' = [bill EXCEPT ![i] = Settled(@, PaidOn(i) + amount)]
  /\ UNCHANGED <<rates, sale>>

\* The entries of a payment that is deleted are mirrored.
Unpay(p) ==
  /\ receipt[p] # NoReceipt
  /\ Happens("sale.unpay")
  /\ LET i == receipt[p].bill IN
     /\ bill' = [bill EXCEPT ![i] = Settled(@, PaidOn(i) - receipt[p].amount)]
     /\ books' = Entered(books, i, receipt[p], -1)
  /\ receipt' = [receipt EXCEPT ![p] = NoReceipt]
  /\ UNCHANGED <<rates, sale>>

-----------------------------------------------------------------------------
(* Exchange rates *)

\* One a day: entering another replaces it.
UpsertRate(day, rate) ==
  /\ Happens("rate.upsert")
  /\ rates' = [rates EXCEPT ![day] = rate]
  /\ UNCHANGED <<sale, bill, receipt, books>>

InUse == sale.foreign

\* The only rate of a currency stays while documents are in it.
ReadToDeleteRate(s, day) ==
  /\ rates[day] # 0
  /\ (\E d \in RateDays \ {day} : rates[d] # 0) \/ ~InUse
  /\ Begin(s, "rate.delete", [step |-> "rate.delete", day |-> day])
  /\ UNCHANGED amountVars

DeleteRate(s) ==
  /\ At(s, "rate.delete")
  /\ rates' = [rates EXCEPT ![slot[s].day] = 0]
  /\ Finish(s)
  /\ UNCHANGED <<sale, bill, receipt, books>>

AmountsInit ==
  /\ rates = [d \in RateDays |-> 0]
  /\ sale = NoSale
  /\ bill = [i \in Instalments |-> NoBill]
  /\ receipt = [p \in Receipts |-> NoReceipt]
  /\ books = [receivable |-> [i \in Instalments |-> 0], exchange |-> 0]

Documents ==
  \/ \E foreign \in BOOLEAN, terms \in SaleTerms, d \in RateDays : RaiseOrder(foreign, terms, d)
  \/ \E i \in Raised, quantity \in 1..sale.terms.quantity : Credit(i, quantity)
  \/ \E quantity \in 1..sale.terms.quantity, d \in RateDays, rate \in FxRates \cup {Scale} :
       RaiseInvoice(quantity, d, rate)
  \/ \E i \in Raised, d \in RateDays, rate \in FxRates \cup {Scale} :
       \E amount \in PartPayments \cup {Outstanding(i)} : Pay(i, amount, d, rate)
  \/ \E p \in Receipts : Unpay(p)

RateRequest(s) == \E d \in RateDays : ReadToDeleteRate(s, d)

AmountsRequests ==
  {"sale.order", "sale.bill", "sale.credit", "sale.pay", "sale.unpay", "rate.upsert",
   "rate.delete"}

AmountsNext ==
  /\ Concerns(AmountsRequests)
  /\ \/ Documents
     \/ \E d \in RateDays, rate \in FxRates : UpsertRate(d, rate)
     \/ \E s \in Slots : (Free(s) /\ RateRequest(s)) \/ DeleteRate(s)

-----------------------------------------------------------------------------
(* Correctness *)

\* The rows keep their shape, and no more units are billed than were ordered,
\* nor more returned than billed.
AmountsTypeOK ==
  /\ rates \in [RateDays -> FxRates \cup {0}]
  /\ books.receivable \in [Instalments -> Int] /\ books.exchange \in Int
  /\ Billed <= sale.terms.quantity
  /\ \A i \in Raised : bill[i].returned <= bill[i].quantity

Abs(n) == IF n < 0 THEN -n ELSE n

\* Half a cent on the tax, and on the discount with the tax it takes along,
\* for each of the documents.
Near(a, b, documents) ==
  100 * 2 * Abs(a - b) <=
    documents * (100 + IF sale.terms.discount = 0 THEN 0 ELSE 100 + sale.terms.tax)

\* However an order is billed, credited and paid, the cents agree up to the
\* halves that each document rounds away: instalments of the whole order add
\* up to it, an invoice credited whole is credited what it charged, what its
\* columns say in the organisation's currency adds up to its total, and what
\* the books keep as receivable of an invoice is what its columns say is due,
\* to the cent in the organisation's own currency, whatever the rates the
\* money came in at.  In that currency its columns add up to the cent as well.
\* The gains are those of the payments on file.  While the order is in another
\* currency it keeps a rate, requests in turn.  Of the first and the third the
\* comments claim more: see CentsAddUp.
AmountsAgree ==
  /\ sale # NoSale /\ Billed = sale.terms.quantity =>
       Near(MapThenSumSet(LAMBDA i : bill[i].total, Raised), sale.total, 1 + Cardinality(Raised))
  /\ \A i \in Raised :
       LET documents == 2 + bill[i].notes + Cardinality(Received(i))
           restated == bill[i].basePaid + bill[i].baseDue + bill[i].baseCredited IN
       /\ bill[i].returned = bill[i].quantity =>
            Near(bill[i].credited, bill[i].total, 1 + bill[i].notes)
       /\ 2 * Abs(books.receivable[i] - bill[i].baseDue) <= documents
       /\ 2 * Abs(restated - bill[i].baseTotal) <= 3 + bill[i].notes
       /\ ~sale.foreign =>
            restated = bill[i].baseTotal /\ books.receivable[i] = bill[i].baseDue
  /\ books.exchange = MapThenSumSet(LAMBDA p : receipt[p].gain,
                                    {p \in Receipts : receipt[p] # NoReceipt})
  /\ InTurn /\ sale.foreign => \E d \in RateDays : rates[d] # 0

-----------------------------------------------------------------------------
(* What the comments say, and the code does not do *)

\* convert_to_invoice: each line keeps the order's price, discount and tax rate,
\* only the quantity differs, so the instalments add back up to the order.
InstalmentsAddUp ==
  sale # NoSale /\ Billed = sale.terms.quantity =>
    MapThenSumSet(LAMBDA i : bill[i].total, Raised) = sale.total

\* settle_invoice: restated at the invoice's own rate, so that paid + due always
\* reconciles against the invoice's base total.
PaidAndDueReconcile ==
  \A i \in Raised :
    bill[i].notes = 0 => bill[i].basePaid + bill[i].baseDue = bill[i].baseTotal

\* Each of the two comments claims this much, that one of them is right: a state
\* in which it fails refutes both.
CentsAddUp == InstalmentsAddUp \/ PaidAndDueReconcile
=============================================================================
