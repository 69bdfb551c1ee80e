------------------------------- MODULE Quotes -------------------------------
(***************************************************************************)
(* One sales quote and the orders that name it.  An edit writes every      *)
(* column but the status, a change of status writes nothing else, and each *)
(* goes by the row's id, whatever became of the row since it was read.     *)
(* Conversion looks for an order that names the quote and inserts one      *)
(* later; an order may also be entered by hand and name it.                *)
(***************************************************************************)
EXTENDS Requests

CONSTANTS
  QuoteOrders,   \* the orders that may name the quote
  MaxQuoted      \* bound on what a quote adds up to

ASSUME MaxQuotedAssumption == MaxQuoted \in Nat

VARIABLES
  quote,     \* the quotes row
  quoted,    \* what its quote_lines add up to
  accepted,  \* history: what it added up to when the customer accepted it
  raised     \* the sales_orders rows that name it, as they were inserted

quoteVars == <<quote, quoted, accepted, raised>>

QuoteStatuses == {"draft", "sent", "accepted", "rejected", "expired"}

QuoteTransitions ==
  {<<"draft", "sent">>, <<"draft", "expired">>,
   <<"sent", "accepted">>, <<"sent", "rejected">>, <<"sent", "expired">>}

QuoteEditable(status) == status = "draft"

NoOrder == [by |-> "nobody"]
RaisedOrder(by, total, lines) == [by |-> by, total |-> total, lines |-> lines]

QuoteOnFile == quote.status \in QuoteStatuses
Naming == {o \in QuoteOrders : raised[o] # NoOrder}
Converted == {o \in Naming : raised[o].by = "conversion"}

CreateQuote(n) ==
  /\ quote.status = "none"
  /\ Happens("quote.create")
  /\ quote' = [status |-> "draft", total |-> n]
  /\ quoted' = n
  /\ UNCHANGED <<accepted, raised>>

\* New lines add up to n; with none, when n is zero, they stay as they are.
ReadQuoteToUpdate(s, n) ==
  /\ QuoteOnFile /\ QuoteEditable(quote.status)
  /\ Begin(s, "quote.update",
           [step |-> "quote.update", lines |-> n,
            total |-> IF n = 0 THEN quote.total ELSE n])
  /\ UNCHANGED quoteVars

UpdateQuote(s) ==
  /\ At(s, "quote.update") /\ QuoteOnFile
  /\ quote' = [quote EXCEPT !.total = slot[s].total]
  /\ quoted' = IF slot[s].lines = 0 THEN quoted ELSE slot[s].lines
  /\ Finish(s)
  /\ UNCHANGED <<accepted, raised>>

ReadQuoteToSetStatus(s, status) ==
  /\ QuoteOnFile /\ <<quote.status, status>> \in QuoteTransitions
  /\ Begin(s, "quote.status", [step |-> "quote.writeStatus", status |-> status])
  /\ UNCHANGED quoteVars

WriteQuoteStatus(s) ==
  /\ At(s, "quote.writeStatus") /\ QuoteOnFile
  /\ quote' = [quote EXCEPT !.status = slot[s].status]
  /\ accepted' = IF slot[s].status = "accepted" THEN quoted ELSE accepted
  /\ Finish(s)
  /\ UNCHANGED <<quoted, raised>>

ReadQuoteToDelete(s) ==
  /\ QuoteOnFile /\ QuoteEditable(quote.status)
  /\ Begin(s, "quote.delete", [step |-> "quote.delete"])
  /\ UNCHANGED quoteVars

\* The lines go with it; the database refuses while an order names it.
DeleteQuote(s) ==
  /\ At(s, "quote.delete")
  /\ \/ /\ QuoteOnFile /\ Naming = {}
        /\ quote' = [status |-> "gone", total |-> 0]
        /\ quoted' = 0
     \/ /\ ~QuoteOnFile \/ Naming # {}
        /\ UNCHANGED <<quote, quoted>>
  /\ Finish(s)
  /\ UNCHANGED <<accepted, raised>>

\* Variant: the orders that were converted before are not looked for.
ReadQuoteToConvertAgain(s) ==
  /\ quote.status = "accepted"
  /\ Begin(s, "quote.convert", [step |-> "quote.lines", total |-> quote.total])
  /\ UNCHANGED quoteVars

ReadQuoteToConvert(s) ==
  /\ quote.status = "accepted" /\ Naming = {}
  /\ Begin(s, "quote.convert", [step |-> "quote.lines", total |-> quote.total])
  /\ UNCHANGED quoteVars

ReadQuoteLines(s) ==
  /\ At(s, "quote.lines")
  /\ IF quoted = 0
     THEN Finish(s)
     ELSE Continue(s, [step |-> "quote.insert", total |-> slot[s].total, lines |-> quoted])
  /\ UNCHANGED quoteVars

InsertConverted(s, o) ==
  /\ At(s, "quote.insert") /\ raised[o] = NoOrder
  /\ \/ /\ QuoteOnFile
        /\ raised' = [raised EXCEPT
             ![o] = RaisedOrder("conversion", slot[s].total, slot[s].lines)]
     \/ ~QuoteOnFile /\ UNCHANGED raised
  /\ Finish(s)
  /\ UNCHANGED <<quote, quoted, accepted>>

\* Entering an order by hand takes any quote that is on file.
EnterOrder(o, n) ==
  /\ QuoteOnFile /\ raised[o] = NoOrder
  /\ Happens("quote.order.create")
  /\ raised' = [raised EXCEPT ![o] = RaisedOrder("hand", n, n)]
  /\ UNCHANGED <<quote, quoted, accepted>>

\* Any of them may still be a draft.
DeleteRaised(o) ==
  /\ o \in Naming
  /\ Happens("quote.order.delete")
  /\ raised' = [raised EXCEPT ![o] = NoOrder]
  /\ UNCHANGED <<quote, quoted, accepted>>

\* UPDATE ... RETURNING finds no row.
FailQuote(s) ==
  /\ slot[s].step \in {"quote.update", "quote.writeStatus"} /\ ~QuoteOnFile
  /\ Finish(s)
  /\ UNCHANGED quoteVars

QuotesInit ==
  /\ quote = [status |-> "none", total |-> 0]
  /\ quoted = 0
  /\ accepted = 0
  /\ raised = [o \in QuoteOrders |-> NoOrder]

QuotesRequest(s) ==
  \/ \E n \in 0..MaxQuoted : ReadQuoteToUpdate(s, n)
  \/ \E status \in QuoteStatuses : ReadQuoteToSetStatus(s, status)
  \/ ReadQuoteToDelete(s)
  \/ ReadQuoteToConvert(s)

QuotesStep(s) ==
  \/ UpdateQuote(s) \/ WriteQuoteStatus(s) \/ DeleteQuote(s)
  \/ ReadQuoteLines(s) \/ \E o \in QuoteOrders : InsertConverted(s, o)
  \/ FailQuote(s)

QuotesRequests ==
  {"quote.create", "quote.update", "quote.status", "quote.delete", "quote.convert",
   "quote.order.create", "quote.order.delete"}

QuotesNext ==
  /\ Concerns(QuotesRequests)
  /\ \/ \E n \in 1..MaxQuoted : CreateQuote(n)
     \/ \E o \in QuoteOrders : DeleteRaised(o) \/ \E n \in 1..MaxQuoted : EnterOrder(o, n)
     \/ \E s \in Slots : (Free(s) /\ QuotesRequest(s)) \/ QuotesStep(s)

-----------------------------------------------------------------------------
(* Correctness *)

QuotesTypeOK ==
  /\ quote \in [status : QuoteStatuses \cup {"none", "gone"}, total : Nat]
  /\ quoted \in Nat /\ accepted \in Nat
  /\ \A o \in Naming : raised[o] \in
       [by : {"hand", "conversion"}, total : Nat, lines : Nat]

\* An order never outlives the quote it names, whatever overlaps.  In turn, a
\* quote is converted at most once, what its orders were made of is what the
\* customer accepted, line by line as in total, and it stays accepted.  Two
\* conversions at once make two orders of it, and an edit that is overtaken by
\* the acceptance changes what was accepted.
QuotesAgree ==
  /\ Naming # {} => QuoteOnFile
  /\ InTurn =>
       /\ QuoteOnFile => quote.total = quoted
       /\ quote.status = "accepted" => quoted = accepted
       /\ Cardinality(Converted) <= 1
       /\ \A o \in Converted :
            /\ quote.status = "accepted"
            /\ raised[o].total = accepted /\ raised[o].lines = accepted
=============================================================================
