---------------------------- MODULE PostingProofs ----------------------------
(***************************************************************************)
(* What is proved of Posting, for any documents, accounts, mappings and    *)
(* handlers: first what the books are, whoever writes them; then what the  *)
(* repair reports; then what each document comes to on its control         *)
(* account.                                                                *)
(***************************************************************************)
EXTENDS Posting, Sums, SequenceTheorems, TLAPS

\* A request only begins: it leaves the books alone, whatever it asks for.
LEMMA RequestsLeaveTheBooks ==
  ASSUME NEW s, Request(s)
  PROVE  posted' = posted
<1>1. ASSUME NEW calls, Begin(s, calls) PROVE posted' = posted
  BY <1>1 DEF Begin, ledgerVars
<1>2. CASE \E d \in Documents :
             \/ SendInvoice(s, d) \/ CancelInvoice(s, d)
             \/ RecordPayment(s, d) \/ DeletePayment(s, d)
             \/ CreditCustomer(s, d)
             \/ ReceiveGoods(s, d) \/ ReturnGoods(s, d)
             \/ ApproveExpenses(s, d) \/ ReimburseExpenses(s, d)
             \/ \E way \in MovementWays : MoveByHand(s, d, way)
  BY <1>1, <1>2, Zenon
     DEF SendInvoice, CancelInvoice, RecordPayment, DeletePayment, CreditCustomer,
         ReceiveGoods, ReturnGoods, ApproveExpenses, ReimburseExpenses, MoveByHand
<1>3. CASE \E h \in HandEntries :
             DeleteEntry(s, h) \/ \E e \in HandRows : WriteEntry(s, h, e)
  BY <1>1, <1>3, Zenon DEF DeleteEntry, WriteEntry
<1>4. CASE BeginRecalculation(s) \/ PostUnposted(s)
  BY <1>1, <1>4, Zenon DEF BeginRecalculation, PostUnposted
<1> QED
  BY <1>2, <1>3, <1>4, Zenon DEF Request

\* A call in flight adds to the posted entries or leaves them.
LEMMA StepsOnlyAdd ==
  ASSUME NEW s, Step(s)
  PROVE  posted \subseteq posted'
<1>1. CASE WriteDocument(s) \/ MoveStock(s) \/ RefuseMove(s) \/ PlanPosting(s)
             \/ ReadOutstanding(s) \/ Report(s)
  BY <1>1, Zenon
     DEF WriteDocument, MoveStock, RefuseMove, PlanPosting, ReadOutstanding, Report,
         ledgerVars
<1>2. CASE CommitPosting(s)
  BY <1>2 DEF CommitPosting, Post
<1>3. CASE InsertEntry(s) \/ RemoveEntry(s) \/ WriteRecalculation(s)
  BY <1>3 DEF InsertEntry, RemoveEntry, WriteRecalculation, WriteByHand,
              RemoveByHand, Recalculate
<1> QED
  BY <1>1, <1>2, <1>3, Zenon DEF Step

\* Entries that documents posted are never deleted or changed, whatever runs at
\* the same time and is dropped: ON CONFLICT DO NOTHING keeps the row that is
\* there, and the journal form only reaches rows without a key.
THEOREM PostedStays == Spec => PostedForGood
<1>1. [Next]_vars => posted \subseteq posted' \/ UNCHANGED posted
  <2>1. ASSUME NEW s \in Slots, Request(s) \/ Step(s) \/ Abandon(s)
        PROVE  posted \subseteq posted'
    BY <2>1, RequestsLeaveTheBooks, StepsOnlyAdd, Zenon DEF Abandon, ledgerVars
  <2>2. ASSUME NEW a \in Retypable, RetypeAccount(a)
        PROVE  posted \subseteq posted'
    BY <2>2, Zenon DEF RetypeAccount, Retype
  <2>3. ASSUME NEW m \in Mappings, ChooseMapping(m)
        PROVE  posted \subseteq posted'
    BY <2>3, Zenon DEF ChooseMapping, ledgerVars
  <2>4. CASE UNCHANGED vars
    BY <2>4 DEF vars, ledgerVars
  <2> QED
    BY <2>1, <2>2, <2>3, <2>4, Zenon DEF Next
<1> QED
  BY <1>1, PTL DEF Spec, PostedForGood

-----------------------------------------------------------------------------
(* Balances are sums *)

\* What rows do to the balance of an account, one by one.
Effects(rows, a, debits) == [e \in rows |-> Effect(e, a, debits)]

\* Total is the sum of them.
LEMMA TotalSummed ==
  ASSUME NEW rows, NEW a, NEW debits
  PROVE  Total(rows, a, debits) = SumOf(Effects(rows, a, debits), rows)
<1> DEFINE w == Effects(rows, a, debits)
           Counts(g) ==
             g = [T \in SUBSET rows |->
                    IF T = {} THEN 0
                              ELSE LET x == CHOOSE x \in T : TRUE
                                   IN Effect(x, a, debits) + g[T \ {x}]]
<1>1. ASSUME NEW T \in SUBSET rows, T # {}
      PROVE  w[CHOOSE x \in T : TRUE] = Effect(CHOOSE x \in T : TRUE, a, debits)
  BY <1>1 DEF Effects
<1>2. ASSUME NEW g PROVE Counts(g) <=> Adds(g, w, rows)
  BY <1>1 DEF Adds
<1>3. Total(rows, a, debits) = (CHOOSE g : Counts(g))[rows]
  BY DEF Total, MapThenSumSet, MapThenFoldSet
<1> HIDE DEF Counts, w
<1>4. (CHOOSE g : Counts(g)) = (CHOOSE g : Adds(g, w, rows))
  BY <1>2
<1> QED
  BY <1>3, <1>4, SumUnfolded DEF w

\* The entries of the journal form that are on the books when it holds w.
OnHand(w) == {h \in HandEntries : w[h] \notin {NoEntry, Removed}}
HandEffects(w, a, debits) == [h \in OnHand(w) |-> Effect(w[h], a, debits)]

\* What the balances should be when the books are p and w.
RebuiltFrom(p, w, debits) ==
  [a \in Accounts |->
     Total(p, a, debits) + SumOf(HandEffects(w, a, debits), OnHand(w))]

\* The same of the entries of the journal form.
LEMMA HandSummed ==
  ASSUME NEW w, NEW a, NEW debits
  PROVE  MapThenSumSet(LAMBDA h : Effect(w[h], a, debits),
                       {h \in HandEntries : w[h] \notin {NoEntry, Removed}})
           = SumOf(HandEffects(w, a, debits), OnHand(w))
<1> DEFINE S == {h \in HandEntries : w[h] \notin {NoEntry, Removed}}
           v == HandEffects(w, a, debits)
           Counts(g) ==
             g = [T \in SUBSET S |->
                    IF T = {} THEN 0
                              ELSE LET x == CHOOSE x \in T : TRUE
                                   IN Effect(w[x], a, debits) + g[T \ {x}]]
<1>1. OnHand(w) = S
  BY DEF OnHand
<1>2. ASSUME NEW T \in SUBSET S, T # {}
      PROVE  v[CHOOSE x \in T : TRUE] = Effect(w[CHOOSE x \in T : TRUE], a, debits)
  BY <1>1, <1>2 DEF HandEffects
<1>3. ASSUME NEW g PROVE Counts(g) <=> Adds(g, v, S)
  BY <1>2 DEF Adds
<1>4. MapThenSumSet(LAMBDA h : Effect(w[h], a, debits), S) = (CHOOSE g : Counts(g))[S]
  BY DEF MapThenSumSet, MapThenFoldSet
<1> HIDE DEF Counts, v
<1>5. (CHOOSE g : Counts(g)) = (CHOOSE g : Adds(g, v, S))
  BY <1>3
<1> QED
  BY <1>1, <1>4, <1>5, SumUnfolded DEF v

\* What the balances should be follows from the books as they are.
LEMMA RebuiltSummed ==
  ASSUME NEW debits
  PROVE  Rebuilt(debits) = RebuiltFrom(posted, written, debits)
BY HandSummed DEF Rebuilt, OnTheBooks, RebuiltFrom

\* And after a step from what they are then.
LEMMA RebuiltSummedNext == Rebuilt(debitNormal)' = RebuiltFrom(posted', written', debitNormal')
<1>1. Rebuilt(debitNormal) = RebuiltFrom(posted, written, debitNormal)
  BY RebuiltSummed
<1>2. (Rebuilt(debitNormal) = RebuiltFrom(posted, written, debitNormal))'
  BY <1>1, PTL
<1>3. RebuiltFrom(posted, written, debitNormal)' = RebuiltFrom(posted', written', debitNormal')
  OBVIOUS
<1> QED
  BY <1>2, <1>3

\* Rows whose amounts can be added up.
Countable(rows) == IsFiniteSet(rows) /\ \A e \in rows : e.amount \in Int

\* An entry moves a balance by an integer.
LEMMA EffectTyped ==
  ASSUME NEW e, e.amount \in Int, NEW a, NEW debits
  PROVE  Effect(e, a, debits) \in Int
<1>1. CASE a \in debits
  BY <1>1 DEF Effect
<1>2. CASE a \notin debits
  BY <1>2 DEF Effect
<1> QED
  BY <1>1, <1>2

\* What rows that are new do is added to what the others did.
LEMMA TotalJoined ==
  ASSUME NEW p, NEW r, Countable(p), Countable(r), p \cap r = {}, NEW a, NEW debits
  PROVE  /\ Total(p \cup r, a, debits) = Total(p, a, debits) + Total(r, a, debits)
         /\ Total(p, a, debits) \in Int /\ Total(r, a, debits) \in Int
<1> DEFINE w == Effects(p \cup r, a, debits)
           v == Effects(p, a, debits)
           u == Effects(r, a, debits)
<1>1. /\ \A x \in p \cup r : w[x] \in Int
      /\ \A x \in p : v[x] \in Int /\ w[x] = v[x]
      /\ \A x \in r : u[x] \in Int /\ w[x] = u[x]
      /\ DOMAIN w = p \cup r /\ DOMAIN v = p /\ DOMAIN u = r
  BY EffectTyped DEF Effects, Countable
<1>2. /\ Total(p \cup r, a, debits) = SumOf(w, p \cup r)
      /\ Total(p, a, debits) = SumOf(v, p)
      /\ Total(r, a, debits) = SumOf(u, r)
  BY TotalSummed
<1> HIDE DEF w, v, u
<1>3. SumOf(w, p \cup r) = SumOf(w, p) + SumOf(w, r)
  BY <1>1, SumJoined DEF Countable
<1>4. SumOf(w, p) = SumOf(v, p) /\ SumOf(w, r) = SumOf(u, r)
  BY <1>1, SumSame DEF Countable
<1>5. SumOf(v, p) \in Int /\ SumOf(u, r) \in Int
  BY <1>1, SumSplit DEF Countable
<1> QED
  BY <1>2, <1>3, <1>4, <1>5

\* A row of the journal form that can be added up.
JournalCountable(w) ==
  DOMAIN w = HandEntries /\ \A h \in OnHand(w) : w[h].amount \in Int

\* What the books say a balance should be is an integer.
LEMMA RebuiltTyped ==
  ASSUME NEW p, NEW w, Countable(p), JournalCountable(w), NEW debits
  PROVE  RebuiltFrom(p, w, debits) \in [Accounts -> Int]
<1>1. ASSUME NEW a
      PROVE  Total(p, a, debits) + SumOf(HandEffects(w, a, debits), OnHand(w)) \in Int
  <2> DEFINE u == HandEffects(w, a, debits)
             S == OnHand(w)
  <2>1. IsFiniteSet(S)
    BY JournalAssumption, FS_Subset DEF OnHand
  <2>2. S \subseteq DOMAIN u /\ \A h \in S : u[h] \in Int
    BY EffectTyped DEF HandEffects, JournalCountable
  <2> HIDE DEF u, S
  <2>3. SumOf(u, S) \in Int
    BY <2>1, <2>2, SumSplit
  <2>4. Countable({})
    BY FS_EmptySet DEF Countable
  <2>5. Total(p, a, debits) \in Int
    BY <2>4, TotalJoined
  <2> QED
    BY <2>3, <2>5 DEF u, S
<1> QED
  BY <1>1 DEF RebuiltFrom

\* An entry that comes to the journal moves the balances by what it does.
LEMMA RebuiltWithHand ==
  ASSUME NEW p, NEW w, NEW v, Countable(p), JournalCountable(w), JournalCountable(v),
         NEW h \in HandEntries, h \notin OnHand(w), OnHand(v) = OnHand(w) \cup {h},
         \A g \in HandEntries \ {h} : v[g] = w[g], NEW debits, NEW a \in Accounts
  PROVE  RebuiltFrom(p, v, debits)[a] = RebuiltFrom(p, w, debits)[a] + Effect(v[h], a, debits)
<1> DEFINE x == HandEffects(w, a, debits)
           y == HandEffects(v, a, debits)
           S == OnHand(w)
<1>1. IsFiniteSet(S) /\ h \notin S
  BY JournalAssumption, FS_Subset DEF OnHand
<1>2. S \subseteq DOMAIN x /\ S \cup {h} \subseteq DOMAIN y
  BY DEF HandEffects
<1>3. \A g \in S : x[g] \in Int /\ y[g] = x[g]
  BY EffectTyped DEF HandEffects, JournalCountable, OnHand
<1>4. y[h] = Effect(v[h], a, debits) /\ y[h] \in Int
  BY EffectTyped DEF HandEffects, JournalCountable
<1> HIDE DEF x, y
<1>5. SumOf(y, S \cup {h}) = SumOf(x, S) + y[h]
  BY <1>1, <1>2, <1>3, <1>4, SumExtended
<1>6. SumOf(x, S) \in Int
  BY <1>1, <1>2, <1>3, SumSplit
<1>7. Total(p, a, debits) \in Int
  BY FS_EmptySet, TotalJoined DEF Countable
<1>8. /\ RebuiltFrom(p, v, debits)[a] = Total(p, a, debits) + SumOf(y, S \cup {h})
      /\ RebuiltFrom(p, w, debits)[a] = Total(p, a, debits) + SumOf(x, S)
  BY DEF RebuiltFrom, x, y
<1> HIDE DEF S
<1> QED
  BY <1>4, <1>5, <1>6, <1>7, <1>8

\* So do rows that documents post.
LEMMA RebuiltWithRows ==
  ASSUME NEW p, NEW r, NEW w, Countable(p), Countable(r), p \cap r = {},
         JournalCountable(w), NEW debits, NEW a \in Accounts
  PROVE  RebuiltFrom(p \cup r, w, debits)[a]
           = RebuiltFrom(p, w, debits)[a] + Total(r, a, debits)
<1>1. /\ Total(p \cup r, a, debits) = Total(p, a, debits) + Total(r, a, debits)
      /\ Total(p, a, debits) \in Int /\ Total(r, a, debits) \in Int
  BY TotalJoined
<1>2. RebuiltFrom(p, w, debits)[a] \in Int
  BY RebuiltTyped
<1>3. /\ RebuiltFrom(p \cup r, w, debits)[a]
           = Total(p \cup r, a, debits) + SumOf(HandEffects(w, a, debits), OnHand(w))
      /\ RebuiltFrom(p, w, debits)[a]
           = Total(p, a, debits) + SumOf(HandEffects(w, a, debits), OnHand(w))
  BY DEF RebuiltFrom
<1>4. SumOf(HandEffects(w, a, debits), OnHand(w)) \in Int
  <2> DEFINE u == HandEffects(w, a, debits)
  <2>1. IsFiniteSet(OnHand(w))
    BY JournalAssumption, FS_Subset DEF OnHand
  <2>2. OnHand(w) \subseteq DOMAIN u /\ \A h \in OnHand(w) : u[h] \in Int
    BY EffectTyped DEF HandEffects, JournalCountable
  <2> HIDE DEF u
  <2>3. SumOf(u, OnHand(w)) \in Int
    BY <2>1, <2>2, SumSplit
  <2> QED
    BY <2>3 DEF u
<1> QED
  BY <1>1, <1>3, <1>4

-----------------------------------------------------------------------------
(* What a document is worth makes rows that may go on the books *)

\* What a leg may be called.
LegNames ==
  {"revenue", "tax", "stock", "settlement", "fx", "cost", "expense", "reimbursement"}
    \cup MovementWays

\* A leg names roles that are filled when posting is on: the optional pair only
\* when costing is perpetual, or there is nothing to post.
LegFits(l, perpetual) ==
  /\ l.name \in LegNames /\ l.amount \in Nat
  /\ l.debit \in Roles /\ l.credit \in Roles
  /\ l.amount # 0 /\ ~perpetual => l.debit \in RequiredRoles /\ l.credit \in RequiredRoles

\* The legs of one posting, each with a name of its own.
LegsFit(legs, perpetual) ==
  /\ IsFiniteSet(legs)
  /\ \A l \in legs : LegFits(l, perpetual)
  /\ \A l, k \in legs : l.name = k.name => l = k

\* One, two or three of anything are finitely many.
LEMMA FewAreFinite ==
  /\ IsFiniteSet({})
  /\ \A x : IsFiniteSet({x})
  /\ \A x, y : IsFiniteSet({x, y})
  /\ \A x, y, z : IsFiniteSet({x, y, z})
<1>1. \A x : IsFiniteSet({x})
  BY FS_Singleton
<1>2. ASSUME NEW x, NEW y PROVE IsFiniteSet({x, y})
  <2>1. {x, y} = {x} \cup {y}
    OBVIOUS
  <2>2. IsFiniteSet({x} \cup {y})
    BY <1>1, FS_Union
  <2> QED
    BY <2>1, <2>2, Zenon
<1>3. ASSUME NEW x, NEW y, NEW z PROVE IsFiniteSet({x, y, z})
  <2>1. {x, y, z} = {x, y} \cup {z}
    OBVIOUS
  <2>2. IsFiniteSet({x, y} \cup {z})
    BY <1>1, <1>2, FS_Union
  <2> QED
    BY <2>1, <2>2, Zenon
<1> QED
  BY <1>1, <1>2, <1>3, FS_EmptySet

\* A function maps finitely many to finitely many.
LEMMA ImageFinite ==
  ASSUME NEW S, IsFiniteSet(S), NEW f, f = [x \in S |-> f[x]]
  PROVE  IsFiniteSet({f[x] : x \in S})
<1>1. f \in Surjection(S, {f[x] : x \in S})
  BY Zenon DEF Surjection
<1> QED
  BY <1>1, FS_Surjection

\* The mirror of legs that fit fits.
LEMMA SwappedFit ==
  ASSUME NEW legs, NEW perpetual, LegsFit(legs, perpetual)
  PROVE  LegsFit({Swapped(l) : l \in legs}, perpetual)
<1> DEFINE f == [l \in legs |-> Swapped(l)]
<1>1. {f[l] : l \in legs} = {Swapped(l) : l \in legs}
  OBVIOUS
<1>2. IsFiniteSet({f[l] : l \in legs})
  <2>1. f = [l \in legs |-> f[l]]
    OBVIOUS
  <2>2. IsFiniteSet(legs)
    BY DEF LegsFit
  <2> HIDE DEF f
  <2> QED
    BY <2>1, <2>2, ImageFinite
<1>3. ASSUME NEW l \in legs
      PROVE  /\ LegFits(Swapped(l), perpetual)
             /\ Swapped(l).name = l.name
  BY <1>3 DEF LegsFit, LegFits, Swapped, Leg
<1> QED
  BY <1>1, <1>2, <1>3 DEF LegsFit

\* Legs of other names may be posted with them.
LEMMA BothFit ==
  ASSUME NEW legs, NEW more, NEW perpetual,
         LegsFit(legs, perpetual), LegsFit(more, perpetual),
         \A l \in legs, k \in more : l.name # k.name
  PROVE  LegsFit(legs \cup more, perpetual)
<1>1. IsFiniteSet(legs \cup more)
  BY FS_Union DEF LegsFit
<1> QED
  BY <1>1 DEF LegsFit

\* The amounts of a document are none below zero, but for what the rate did.
LEMMA WorthTyped ==
  ASSUME NEW d \in Documents
  PROVE  /\ Worth[d].net \in Nat /\ Worth[d].tax \in Nat
         /\ Worth[d].goods \in Nat /\ Worth[d].fx \in Int
BY WorthAssumption

\* A single leg fits if its roles do.
LEMMA LegFitted ==
  ASSUME NEW name \in LegNames, NEW debit \in Roles, NEW credit \in Roles,
         NEW amount \in Nat, NEW perpetual,
         amount # 0 /\ ~perpetual => debit \in RequiredRoles /\ credit \in RequiredRoles
  PROVE  /\ LegsFit({Leg(name, debit, credit, amount)}, perpetual)
         /\ \A l \in {Leg(name, debit, credit, amount)} : l.name = name
<1>1. IsFiniteSet({Leg(name, debit, credit, amount)})
  BY FewAreFinite
<1>2. LegFits(Leg(name, debit, credit, amount), perpetual)
  BY DEF LegFits, Leg
<1>3. Leg(name, debit, credit, amount).name = name
  BY DEF Leg
<1> QED
  BY <1>1, <1>2, <1>3 DEF LegsFit

\* What a sale posts fits.
LEMMA InvoiceLegsFit ==
  ASSUME NEW d \in Documents, NEW perpetual
  PROVE  /\ LegsFit(InvoiceLegs(d), perpetual)
         /\ \A l \in InvoiceLegs(d) : l.name \in {"revenue", "tax"}
<1> DEFINE revenue == {Leg("revenue", "ar", "salesRevenue", Worth[d].net)}
           tax == {Leg("tax", "ar", "taxPayable", Worth[d].tax)}
<1>1. /\ "ar" \in RequiredRoles /\ "ar" \in Roles
      /\ "salesRevenue" \in RequiredRoles /\ "salesRevenue" \in Roles
      /\ "taxPayable" \in RequiredRoles /\ "taxPayable" \in Roles
      /\ "revenue" \in LegNames /\ "tax" \in LegNames
  BY DEF Roles, RequiredRoles, LegNames
<1>2. Worth[d].net \in Nat /\ Worth[d].tax \in Nat
  BY WorthTyped
<1>3. LegsFit(revenue, perpetual) /\ \A l \in revenue : l.name = "revenue"
  BY <1>1, <1>2, LegFitted
<1>4. LegsFit(tax, perpetual) /\ \A l \in tax : l.name = "tax"
  BY <1>1, <1>2, LegFitted
<1>5. InvoiceLegs(d) = revenue \cup tax
  BY DEF InvoiceLegs
<1> HIDE DEF revenue, tax
<1> QED
  BY <1>3, <1>4, <1>5, BothFit

\* What a credit posts fits.
LEMMA CreditLegsFit ==
  ASSUME NEW d \in Documents, NEW returned \in Nat, NEW perpetual
  PROVE  LegsFit(CreditNoteLegs(d, returned, perpetual), perpetual)
<1> DEFINE mirror == {Swapped(l) : l \in InvoiceLegs(d)}
           stock == {Leg("stock", "inventory", "costOfSales", returned)}
<1>1. LegsFit(mirror, perpetual)
  BY InvoiceLegsFit, SwappedFit
<1>2. \A l \in mirror : l.name \in {"revenue", "tax"}
  BY InvoiceLegsFit DEF Swapped, Leg
<1>3. CASE perpetual
  <2>1. "inventory" \in Roles /\ "costOfSales" \in Roles /\ "stock" \in LegNames
    BY DEF Roles, RequiredRoles, OptionalRoles, LegNames
  <2>2. LegsFit(stock, perpetual) /\ \A l \in stock : l.name = "stock"
    BY <1>3, <2>1, LegFitted
  <2>3. CreditNoteLegs(d, returned, perpetual) = mirror \cup stock
    BY <1>3 DEF CreditNoteLegs
  <2> HIDE DEF stock, mirror
  <2> QED
    BY <1>1, <1>2, <2>2, <2>3, BothFit
<1>4. CASE ~perpetual
  <2>1. CreditNoteLegs(d, returned, perpetual) = mirror
    BY <1>4 DEF CreditNoteLegs
  <2> QED
    BY <1>1, <2>1
<1> QED
  BY <1>3, <1>4

\* What a payment posts fits, whichever way the rate went.
LEMMA PaymentLegsFit ==
  ASSUME NEW d \in Documents, NEW perpetual
  PROVE  LegsFit(PaymentLegs(d), perpetual) /\ LegsFit(VendorPaymentLegs(d), perpetual)
<1>1. /\ "ar" \in RequiredRoles /\ "bank" \in RequiredRoles
      /\ "accountsPayable" \in RequiredRoles /\ "fxGainLoss" \in RequiredRoles
      /\ \A r \in RequiredRoles : r \in Roles
      /\ "fx" \in LegNames /\ "settlement" \in LegNames
  BY DEF Roles, RequiredRoles, LegNames
<1>2. ASSUME NEW control \in {"ar", "accountsPayable"}
      PROVE  /\ LegsFit(FxLegs(d, control), perpetual)
             /\ \A l \in FxLegs(d, control) : l.name = "fx"
  <2>1. CASE Worth[d].fx > 0
    <3>1. FxLegs(d, control) = {Leg("fx", control, "fxGainLoss", Worth[d].fx)}
      BY <2>1 DEF FxLegs
    <3>2. Worth[d].fx \in Nat
      BY <2>1, WorthTyped
    <3> QED
      BY <1>1, <3>1, <3>2, LegFitted
  <2>2. CASE ~(Worth[d].fx > 0)
    <3>1. FxLegs(d, control) = {Leg("fx", "fxGainLoss", control, -Worth[d].fx)}
      BY <2>2 DEF FxLegs
    <3>2. -Worth[d].fx \in Nat
      BY <2>2, WorthTyped
    <3> QED
      BY <1>1, <3>1, <3>2, LegFitted
  <2> QED
    BY <2>1, <2>2
<1>3. ASSUME NEW control \in {"ar", "accountsPayable"},
             NEW debit \in RequiredRoles, NEW credit \in RequiredRoles
      PROVE  LegsFit({Leg("settlement", debit, credit, Worth[d].net)} \cup FxLegs(d, control), perpetual)
  <2> DEFINE settled == {Leg("settlement", debit, credit, Worth[d].net)}
  <2>1. Worth[d].net \in Nat /\ debit \in Roles /\ credit \in Roles
    BY <1>1, WorthTyped
  <2>2. LegsFit(settled, perpetual) /\ \A l \in settled : l.name = "settlement"
    BY <1>1, <2>1, LegFitted
  <2> HIDE DEF settled
  <2>3. LegsFit(settled \cup FxLegs(d, control), perpetual)
    BY <1>2, <2>2, BothFit
  <2> QED
    BY <2>3 DEF settled
<1> QED
  BY <1>1, <1>3 DEF PaymentLegs, VendorPaymentLegs

\* What a delivery posts fits: what is not stocked is a cost.
LEMMA ReceiptLegsFit ==
  ASSUME NEW d \in Documents, NEW perpetual \in BOOLEAN
  PROVE  LegsFit(ReceiptLegs(d, perpetual), perpetual)
<1> DEFINE stocked == IF perpetual THEN Worth[d].goods ELSE 0
           expensed == Worth[d].net + Worth[d].goods - stocked
           stock == {Leg("stock", "inventory", "accountsPayable", stocked)}
           cost == {Leg("cost", "costOfSales", "accountsPayable", expensed)}
           tax == {Leg("tax", "purchaseTax", "accountsPayable", Worth[d].tax)}
<1>1. /\ "costOfSales" \in RequiredRoles /\ "costOfSales" \in Roles
      /\ "accountsPayable" \in RequiredRoles /\ "accountsPayable" \in Roles
      /\ "purchaseTax" \in RequiredRoles /\ "purchaseTax" \in Roles
      /\ "inventory" \in Roles
      /\ "stock" \in LegNames /\ "cost" \in LegNames /\ "tax" \in LegNames
  BY DEF Roles, RequiredRoles, OptionalRoles, LegNames
<1>2. /\ stocked \in Nat /\ expensed \in Nat /\ Worth[d].tax \in Nat
      /\ stocked # 0 => perpetual
  BY WorthTyped
<1>3. ReceiptLegs(d, perpetual) = (stock \cup cost) \cup tax
  BY DEF ReceiptLegs
<1> HIDE DEF stocked, expensed
<1>4. /\ LegsFit(stock, perpetual) /\ \A l \in stock : l.name = "stock"
      /\ LegsFit(cost, perpetual) /\ \A l \in cost : l.name = "cost"
      /\ LegsFit(tax, perpetual) /\ \A l \in tax : l.name = "tax"
  <2>1. LegsFit(stock, perpetual) /\ \A l \in stock : l.name = "stock"
    <3>1. CASE perpetual
      <4>1. stocked \in Nat
        BY <1>2
      <4>2. /\ "inventory" \in Roles /\ "accountsPayable" \in Roles
            /\ "stock" \in LegNames
        BY <1>1
      <4> QED
        BY <3>1, <4>1, <4>2, LegFitted
    <3>2. CASE stocked = 0
      BY <1>1, <3>2, LegFitted
    <3> QED
      BY <1>2, <3>1, <3>2
  <2>2. LegsFit(cost, perpetual) /\ \A l \in cost : l.name = "cost"
    BY <1>1, <1>2, LegFitted
  <2>3. LegsFit(tax, perpetual) /\ \A l \in tax : l.name = "tax"
    BY <1>1, <1>2, LegFitted
  <2> QED
    BY <2>1, <2>2, <2>3
<1> HIDE DEF stock, cost, tax
<1>5. LegsFit(stock \cup cost, perpetual)
  BY <1>4, BothFit
<1>6. \A l \in stock \cup cost, k \in tax : l.name # k.name
  BY <1>4
<1> QED
  BY <1>3, <1>4, <1>5, <1>6, BothFit

\* What moves goods or belongs to an expense report posts a leg, if any.
LEMMA SingleLegsFit ==
  ASSUME NEW d \in Documents, NEW perpetual \in BOOLEAN
  PROVE  /\ LegsFit(ApprovalLegs(d), perpetual) /\ LegsFit(ReimbursementLegs(d), perpetual)
         /\ \A way \in MovementWays : LegsFit(MovementLegs(d, way, perpetual), perpetual)
<1>1. /\ "employeeExpense" \in RequiredRoles /\ "employeePayable" \in RequiredRoles
      /\ "bank" \in RequiredRoles
      /\ \A r \in RequiredRoles : r \in Roles
      /\ "inventory" \in Roles /\ "inventoryAdjustment" \in Roles /\ "costOfSales" \in Roles
      /\ "expense" \in LegNames /\ "reimbursement" \in LegNames
      /\ Worth[d].net \in Nat /\ Worth[d].goods \in Nat
  BY WorthTyped DEF Roles, RequiredRoles, OptionalRoles, LegNames
<1>2. LegsFit(ApprovalLegs(d), perpetual) /\ LegsFit(ReimbursementLegs(d), perpetual)
  <2>1. LegsFit({Leg("expense", "employeeExpense", "employeePayable", Worth[d].net)}, perpetual)
    BY <1>1, LegFitted
  <2>2. LegsFit({Leg("reimbursement", "employeePayable", "bank", Worth[d].net)}, perpetual)
    BY <1>1, LegFitted
  <2> QED
    BY <2>1, <2>2, Zenon DEF ApprovalLegs, ReimbursementLegs
<1>3. ASSUME NEW way \in MovementWays
      PROVE  LegsFit(MovementLegs(d, way, perpetual), perpetual)
  <2> DEFINE other == IF way = "out" \/ (way = "in" /\ Kind[d] = "invoice")
                        THEN "costOfSales" ELSE "inventoryAdjustment"
             inward == Leg(way, "inventory", other, Worth[d].goods)
  <2>1. LegsFit({}, perpetual)
    BY FewAreFinite DEF LegsFit
  <2>2. ASSUME perpetual PROVE LegsFit({inward}, perpetual)
    <3>1. other \in Roles /\ way \in LegNames
      BY <1>1 DEF LegNames
    <3> HIDE DEF other
    <3> QED
      BY <1>1, <2>2, <3>1, LegFitted
  <2>3. {Swapped(l) : l \in {inward}} = {Swapped(inward)}
    OBVIOUS
  <2>4. ASSUME perpetual PROVE LegsFit({Swapped(inward)}, perpetual)
    <3>1. LegsFit({Swapped(l) : l \in {inward}}, perpetual)
      BY <2>2, <2>4, SwappedFit
    <3> QED
      BY <2>3, <3>1, Zenon
  <2>5. MovementLegs(d, way, perpetual) =
          IF ~perpetual \/ way = "transfer" THEN {}
          ELSE IF way \in {"in", "gain"} THEN {inward} ELSE {Swapped(inward)}
    BY Zenon DEF MovementLegs
  <2> HIDE DEF inward
  <2> QED
    BY <2>1, <2>2, <2>4, <2>5
<1> QED
  BY <1>2, <1>3

\* What any kind of document posts fits, whatever becomes of it.
LEMMA AllLegsFit ==
  ASSUME NEW d \in Documents, NEW what, NEW perpetual \in BOOLEAN
  PROVE  LegsFit(Legs(d, what, perpetual), perpetual)
<1>1. LegsFit(DocumentLegs(d, perpetual), perpetual)
  <2> DEFINE table ==
        [invoice        |-> InvoiceLegs(d),
         payment        |-> PaymentLegs(d),
         creditNote     |-> CreditNoteLegs(d, Worth[d].goods, perpetual),
         receipt        |-> ReceiptLegs(d, perpetual),
         purchaseReturn |-> ReturnLegs(d, perpetual),
         vendorPayment  |-> VendorPaymentLegs(d),
         expense        |-> ApprovalLegs(d),
         movement       |-> {}]
  <2>1. Kind[d] \in Kinds
    BY DocumentsAssumption
  <2>2. LegsFit(ReturnLegs(d, perpetual), perpetual)
    BY ReceiptLegsFit, SwappedFit, Zenon DEF ReturnLegs
  <2>3. LegsFit(CreditNoteLegs(d, Worth[d].goods, perpetual), perpetual)
    BY CreditLegsFit, WorthTyped
  <2>4. LegsFit({}, perpetual)
    BY FewAreFinite DEF LegsFit
  <2>5. ASSUME NEW kind \in Kinds PROVE LegsFit(table[kind], perpetual)
    BY <2>2, <2>3, <2>4, InvoiceLegsFit, PaymentLegsFit, ReceiptLegsFit, SingleLegsFit
       DEF Kinds
  <2>6. DocumentLegs(d, perpetual) = table[Kind[d]]
    BY Zenon DEF DocumentLegs
  <2> HIDE DEF table
  <2> QED
    BY <2>1, <2>5, <2>6
<1>2. LegsFit(CreditNoteLegs(d, 0, perpetual), perpetual)
  BY CreditLegsFit
<1> QED
  BY <1>1, <1>2, SingleLegsFit, Zenon DEF Legs

\* The rows that may be on the books: filled accounts, something to post, and no
\* key twice.
Keys == [doc : Documents, leg : LegNames, nth : Nat, reversal : BOOLEAN]
Entries == [key : Keys, debit : Accounts, credit : Accounts, amount : Nat \ {0}]
Bookable(rows) ==
  /\ rows \subseteq Entries /\ IsFiniteSet(rows)
  /\ \A r, q \in rows : r.key = q.key => r = q

\* Legs that fit make such rows under a mapping that is complete.
LEMMA RowsBookable ==
  ASSUME NEW d \in Documents, NEW legs, NEW nth \in Nat, NEW m \in PostingAccounts,
         Complete(m), LegsFit(legs, Perpetual(m))
  PROVE  /\ Bookable(Rows(d, legs, nth, m))
         /\ \A r \in Rows(d, legs, nth, m) : ~r.key.reversal
<1> DEFINE row(l) == [key |-> Key(d, l.name, nth, FALSE), debit |-> m[l.debit],
                      credit |-> m[l.credit], amount |-> l.amount]
           Some == {k \in legs : k.amount # 0}
           f == [l \in Some |-> row(l)]
<1>1. Rows(d, legs, nth, m) = {f[l] : l \in Some}
  BY DEF Rows
<1>2. IsFiniteSet(Some)
  BY FS_Subset DEF LegsFit
<1>3. IsFiniteSet({f[l] : l \in Some})
  <2>1. f = [l \in Some |-> f[l]]
    OBVIOUS
  <2> HIDE DEF f, Some
  <2> QED
    BY <1>2, <2>1, ImageFinite
<1>4. ASSUME NEW l \in Some
      PROVE  m[l.debit] \in Accounts /\ m[l.credit] \in Accounts
  <2>1. LegFits(l, Perpetual(m)) /\ l.amount # 0
    BY DEF LegsFit
  <2>2. ASSUME NEW r \in Roles, Perpetual(m) \/ r \in RequiredRoles
        PROVE  m[r] \in Accounts
    BY <2>2 DEF PostingAccounts, Complete, Perpetual, Roles
  <2> QED
    BY <2>1, <2>2 DEF LegFits
<1>5. ASSUME NEW l \in Some
      PROVE  /\ row(l) \in Entries
             /\ row(l).key.leg = l.name /\ row(l).key.reversal = FALSE
  <2>1. l.name \in LegNames /\ l.amount \in Nat \ {0}
    BY DEF LegsFit, LegFits
  <2> QED
    BY <1>4, <2>1 DEF Entries, Keys, Key
<1>6. ASSUME NEW l \in Some, NEW k \in Some, row(l).key = row(k).key
      PROVE  row(l) = row(k)
  <2>1. l.name = k.name
    BY <1>5, <1>6
  <2>2. l = k
    BY <2>1 DEF LegsFit
  <2> QED
    BY <2>2, Zenon
<1> HIDE DEF row, Some
<1>7. Rows(d, legs, nth, m) = {row(l) : l \in Some}
  BY DEF Rows, row, Some
<1>8. Rows(d, legs, nth, m) \subseteq Entries
  BY <1>5, <1>7
<1>9. \A r, q \in Rows(d, legs, nth, m) : r.key = q.key => r = q
  BY <1>6, <1>7
<1>10. \A r \in Rows(d, legs, nth, m) : ~r.key.reversal
  BY <1>5, <1>7
<1> QED
  BY <1>1, <1>3, <1>8, <1>9, <1>10, Zenon DEF Bookable

\* So does their mirror.
LEMMA ReversedBookable ==
  ASSUME NEW rows, Bookable(rows), \A r \in rows : ~r.key.reversal
  PROVE  Bookable(Reversed(rows))
<1> DEFINE mirror(r) == [key |-> [r.key EXCEPT !.reversal = TRUE], debit |-> r.credit,
                         credit |-> r.debit, amount |-> r.amount]
           f == [r \in rows |-> mirror(r)]
<1>1. Reversed(rows) = {f[r] : r \in rows} /\ Reversed(rows) = {mirror(r) : r \in rows}
  BY DEF Reversed
<1>2. IsFiniteSet({f[r] : r \in rows})
  <2>1. f = [r \in rows |-> f[r]]
    OBVIOUS
  <2> HIDE DEF f
  <2> QED
    BY <2>1, ImageFinite DEF Bookable
<1>3. ASSUME NEW r \in rows
      PROVE  r \in Entries /\ mirror(r) \in Entries
  BY DEF Bookable, Entries, Keys
<1>4. ASSUME NEW r \in rows, NEW q \in rows, mirror(r).key = mirror(q).key
      PROVE  mirror(r) = mirror(q)
  <2>1. /\ r.key \in Keys /\ q.key \in Keys
        /\ ~r.key.reversal /\ ~q.key.reversal
    BY <1>3 DEF Entries
  <2>2. [r.key EXCEPT !.reversal = TRUE] = [q.key EXCEPT !.reversal = TRUE]
    BY <1>4
  <2>3. r.key.doc = q.key.doc /\ r.key.leg = q.key.leg /\ r.key.nth = q.key.nth
    BY <2>1, <2>2 DEF Keys
  <2>4. r.key.reversal = q.key.reversal
    BY <2>1 DEF Keys
  <2>5. r.key = q.key
    BY <2>1, <2>3, <2>4 DEF Keys
  <2>6. r = q
    BY <2>5 DEF Bookable
  <2> QED
    BY <2>6, Zenon
<1> HIDE DEF mirror
<1>5. Reversed(rows) \subseteq Entries
  BY <1>1, <1>3
<1>6. \A r, q \in Reversed(rows) : r.key = q.key => r = q
  BY <1>1, <1>4
<1> QED
  BY <1>1, <1>2, <1>5, <1>6, Zenon DEF Bookable

-----------------------------------------------------------------------------
(* The calls of a handler *)

\* The calls of the journal form and of the recalculation.
JournalCalls == {"insert", "remove", "recalculate"}
DocumentCalls == {"write", "record", "apply", "plan", "commit"}

\* What may become of a document: only an expense report is reimbursed, and what
\* is moved by hand has no document.
Becomes(d, st) ==
  /\ st \in {"issued", "undone", "reimbursed"}
  /\ Kind[d] # "movement"
  /\ st = "reimbursed" => Kind[d] = "expense"

\* A call carries what its step needs; a recalculation, balances that were right
\* for what it read.
CallFits(c) ==
  /\ c.do \in CallKinds
  /\ c.do \in DocumentCalls => c.doc \in Documents
  /\ c.do = "write" => Becomes(c.doc, c.status)
  /\ c.do \in {"record", "apply"} => c.way \in MovementWays
  /\ c.do = "plan" => c.nth \in Nat
  /\ c.do = "commit" => Bookable(c.rows)
  /\ c.do \in {"insert", "remove"} => c.id \in HandEntries /\ c.row \in HandRows
  /\ c.do = "recalculate" =>
       /\ c.rebuilt \in [Accounts -> Int]
       /\ c.rebuilt = RebuiltFrom(c.of[1], c.of[2], c.of[3])
  /\ c.do = "report" => c.docs \subseteq Documents

\* A call that is not one of the journal.
Plain(c) == CallFits(c) /\ c.do \notin JournalCalls

\* A list of such calls, none of them of the journal.
Ordinary(q) ==
  LET calls == {q[i] : i \in DOMAIN q} IN
  q \in Seq(calls) /\ \A c \in calls : Plain(c)

\* The calls of the journal are alone in their handlers.
Fits(q) ==
  \/ Ordinary(q)
  \/ q = <<q[1]>> /\ CallFits(q[1]) /\ q[1].do \in JournalCalls

\* A list is ordinary when its elements come from ordinary calls.
LEMMA OrdinaryOf ==
  ASSUME NEW S, NEW q \in Seq(S), \A c \in S : Plain(c)
  PROVE  Ordinary(q)
<1> DEFINE calls == {q[i] : i \in DOMAIN q}
<1>1. q \in [1..Len(q) -> S] /\ Len(q) \in Nat /\ DOMAIN q = 1..Len(q)
  BY LenProperties
<1>2. q \in [1..Len(q) -> calls]
  BY <1>1
<1>3. q \in Seq(calls)
  <2>1. Seq(calls) = UNION {[1..n -> calls] : n \in Nat}
    BY SeqDef, Zenon
  <2> HIDE DEF calls
  <2> QED
    BY <1>1, <1>2, <2>1
<1>4. \A c \in calls : c \in S
  BY <1>1
<1> QED
  BY <1>3, <1>4 DEF Ordinary

\* What is left of a list is ordinary.
LEMMA RestFits ==
  ASSUME NEW q, Fits(q), q # <<>>
  PROVE  /\ Ordinary(Tail(q)) /\ CallFits(Head(q))
         /\ \A i \in DOMAIN q : CallFits(q[i])
<1>1. CASE Ordinary(q)
  <2> DEFINE calls == {q[i] : i \in DOMAIN q}
  <2>1. q \in Seq(calls) /\ \A c \in calls : Plain(c)
    BY <1>1 DEF Ordinary
  <2>2. \A i \in DOMAIN q : q[i] \in calls
    OBVIOUS
  <2> HIDE DEF calls
  <2>3. Head(q) \in calls /\ Tail(q) \in Seq(calls)
    BY <2>1, HeadTailProperties
  <2> QED
    BY <2>1, <2>2, <2>3, OrdinaryOf DEF Plain
<1>2. CASE q = <<q[1]>> /\ CallFits(q[1])
  <2>1. \A c : Tail(<<c>>) = <<>> /\ Head(<<c>>) = c /\ DOMAIN <<c>> = {1}
    OBVIOUS
  <2>2. Tail(q) = <<>> /\ Head(q) = q[1] /\ DOMAIN q = {1}
    BY <1>2, <2>1, Zenon
  <2>3. Ordinary(<<>>)
    <3> DEFINE S == {}
    <3>1. <<>> \in Seq(S) /\ \A c \in S : Plain(c)
      BY EmptySeq
    <3> HIDE DEF S
    <3> QED
      BY <3>1, OrdinaryOf
  <2> QED
    BY <1>2, <2>2, <2>3
<1> QED
  BY <1>1, <1>2 DEF Fits

\* A list that is idle is ordinary, and so is one with a call put first.
LEMMA OrdinaryLists ==
  /\ Ordinary(Idle)
  /\ \A c, q : Plain(c) /\ Ordinary(q) => Ordinary(<<c>> \o q)
  /\ \A p, q : Ordinary(p) /\ Ordinary(q) => Ordinary(p \o q)
  /\ \A c : Plain(c) => Ordinary(<<c>>)
<1>1. Ordinary(<<>>)
  <2> DEFINE S == {}
  <2>1. <<>> \in Seq(S) /\ \A c \in S : Plain(c)
    BY EmptySeq
  <2> HIDE DEF S
  <2> QED
    BY <2>1, OrdinaryOf
<1>2. ASSUME NEW p, NEW q, Ordinary(p), Ordinary(q) PROVE Ordinary(p \o q)
  <2> DEFINE P == {p[i] : i \in DOMAIN p}
             Q == {q[i] : i \in DOMAIN q}
  <2>1. /\ p \in Seq(P) /\ q \in Seq(Q)
        /\ \A c \in P : Plain(c)
        /\ \A c \in Q : Plain(c)
    BY <1>2 DEF Ordinary
  <2> HIDE DEF P, Q
  <2>2. p \in Seq(P \cup Q) /\ q \in Seq(P \cup Q)
    BY <2>1, SeqMonotonic
  <2>3. p \o q \in Seq(P \cup Q)
    BY <2>2, ConcatProperties
  <2>4. \A c \in P \cup Q : Plain(c)
    BY <2>1
  <2> QED
    BY <2>3, <2>4, OrdinaryOf
<1>3. ASSUME NEW c, Plain(c) PROVE Ordinary(<<c>>)
  <2> DEFINE S == {c}
             q == <<c>>
  <2>1. q \in Seq(S) /\ \A d \in S : Plain(d)
    BY <1>3
  <2> HIDE DEF S, q
  <2>2. Ordinary(q)
    BY <2>1, OrdinaryOf
  <2> QED
    BY <2>2 DEF q
<1> QED
  BY <1>1, <1>2, <1>3, Zenon DEF Idle

\* A handler begins with one, two or three calls.
LEMMA ShortLists ==
  /\ \A a, b : Plain(a) /\ Plain(b) => Ordinary(<<a, b>>)
  /\ \A a, b, c : Plain(a) /\ Plain(b) /\ Plain(c) => Ordinary(<<a, b, c>>)
<1>1. ASSUME NEW a, NEW b, NEW c,
             Plain(a),
             Plain(b),
             Plain(c)
      PROVE  Ordinary(<<a, b>>) /\ Ordinary(<<a, b, c>>)
  <2> DEFINE S == {a, b, c}
             q == <<a, b>>
             r == <<a, b, c>>
  <2>1. q \in Seq(S) /\ r \in Seq(S) /\ \A d \in S : Plain(d)
    BY <1>1
  <2> HIDE DEF S, q, r
  <2>2. Ordinary(q) /\ Ordinary(r)
    BY <2>1, OrdinaryOf
  <2> QED
    BY <2>2 DEF q, r
<1>2. ASSUME NEW a, NEW b, Plain(a),
             Plain(b)
      PROVE  Ordinary(<<a, b>>)
  BY <1>1, <1>2
<1> QED
  BY <1>1, <1>2

\* The calls that handlers make of documents fit.
LEMMA DocumentCallsFit ==
  ASSUME NEW d \in Documents
  PROVE  /\ \A st : Becomes(d, st) => Plain(Write(d, st))
         /\ \A way \in MovementWays : Plain(RecordMove(d, way)) /\ Plain(ApplyMove(d, way))
         /\ \A what : Plain(Plan(d, what))
         /\ \A what : \A n \in Nat : Plain(PostMove(d, what, n))
         /\ \A what, rows, debits :
              Bookable(rows) => Plain(Commit(d, what, rows, debits))
BY DEF Plain, CallFits, Write, RecordMove, ApplyMove, Plan, PostMove, Commit, JournalCalls,
       DocumentCalls, CallKinds

\* The repair's lists fit, whatever is outstanding.
LEMMA PlansFit ==
  ASSUME NEW docs \in SUBSET Documents, NEW what
  PROVE  Ordinary(Plans(docs, what))
<1> DEFINE q == SetToSeq(docs)
           n == Cardinality(docs)
           S == {Plan(d, what) : d \in docs}
           list == [i \in DOMAIN q |-> Plan(q[i], what)]
<1>1. q \in [1..n -> docs] /\ n \in Nat
  <2>1. IsFiniteSet(docs)
    BY StartAssumption, FS_Subset
  <2>2. n \in Nat /\ ExistsBijection(1..n, docs)
    BY <2>1, FS_CardinalityType
  <2>3. PICK f \in [1..n -> docs] : IsInjective(f)
    BY <2>2, Zenon DEF ExistsBijection, Bijection, Injection, Surjection, IsInjective
  <2> QED
    BY <2>2, <2>3, Zenon DEF SetToSeq
<1> HIDE DEF q, n
<1>2. list \in Seq(S)
  <2>1. list \in [1..n -> S]
    BY <1>1
  <2>2. Seq(S) = UNION {[1..k -> S] : k \in Nat}
    BY SeqDef, Zenon
  <2> HIDE DEF S, list
  <2> QED
    BY <1>1, <2>1, <2>2
<1>3. \A c \in S : Plain(c)
  BY DocumentCallsFit
<1> HIDE DEF S, list
<1>4. Ordinary(list)
  BY <1>2, <1>3, OrdinaryOf
<1> QED
  BY <1>4, Zenon DEF Plans, list, q

\* So does the whole of it, with the report at its end.
LEMMA RepairsFit ==
  ASSUME NEW docs \in SUBSET Documents
  PROVE  Ordinary(Append(Repairs, [do |-> "report", docs |-> docs]))
<1> DEFINE report == [do |-> "report", docs |-> docs]
<1>1. /\ \A kind : Unposted(kind) \in SUBSET Documents
      /\ \A statuses, leg : UnpostedExpenses(statuses, leg) \in SUBSET Documents
  BY DEF Unposted, UnpostedExpenses
<1>2. /\ \A kind, what : Ordinary(Plans(Unposted(kind), what))
      /\ \A statuses, leg, what : Ordinary(Plans(UnpostedExpenses(statuses, leg), what))
  BY <1>1, PlansFit, Zenon
<1>3. Ordinary(Repairs)
  BY <1>2, OrdinaryLists, Zenon DEF Repairs
<1>4. Plain(report)
  BY DEF Plain, CallFits, DocumentCalls, JournalCalls, CallKinds
<1> HIDE DEF report
<1>5. PICK S : Repairs \in Seq(S) /\ \A c \in S : Plain(c)
  BY <1>3, Zenon DEF Ordinary
<1>6. Repairs \in Seq(S \cup {report}) /\ \A c \in S \cup {report} : Plain(c)
  BY <1>4, <1>5, SeqMonotonic
<1> DEFINE q == Repairs
           T == S \cup {report}
           r == Append(q, report)
<1>7. q \in Seq(T) /\ report \in T
  BY <1>6
<1> HIDE DEF q, T
<1>8. r \in Seq(T)
  BY <1>7
<1> HIDE DEF r
<1>9. Ordinary(r)
  BY <1>6, <1>8, OrdinaryOf DEF T
<1> QED
  BY <1>9 DEF r, q, report

\* What is planned may go on the books.
LEMMA PlannedBookable ==
  ASSUME NEW c, CallFits(c), c.do = "plan", NEW m \in PostingAccounts, Complete(m)
  PROVE  Bookable(PlannedRows(c, m))
<1>1. c.doc \in Documents /\ c.nth \in Nat
  BY DEF CallFits, DocumentCalls
<1> DEFINE legs == Legs(c.doc, c.what, Perpetual(m))
           rows == Rows(c.doc, legs, c.nth, m)
<1>2. Perpetual(m) \in BOOLEAN
  BY DEF Perpetual
<1>3. LegsFit(legs, Perpetual(m))
  BY <1>1, <1>2, AllLegsFit
<1> HIDE DEF legs
<1>4. Bookable(rows) /\ \A r \in rows : ~r.key.reversal
  BY <1>1, <1>3, RowsBookable
<1> HIDE DEF rows
<1>5. Bookable(Reversed(rows))
  BY <1>4, ReversedBookable
<1> QED
  BY <1>4, <1>5, Zenon DEF PlannedRows, rows, legs

-----------------------------------------------------------------------------
(* The inductive invariant *)

\* The shapes of everything that is kept, and of the calls that are to come.
BooksTyped ==
  /\ Bookable(posted)
  /\ written \in [HandEntries -> HandRows \cup {NoEntry, Removed}]
  /\ balance \in [Accounts -> Int]
  /\ debitNormal \subseteq Accounts
  /\ status \in [Documents -> {"none", "issued", "undone", "reimbursed"}]
  /\ \A d \in Documents : status[d] # "none" => Becomes(d, status[d])
  /\ shelf \in Nat
  /\ movements \in [Documents -> Nat]
  /\ mapping \in Mappings
  /\ DOMAIN slot = Slots
  /\ requests \in 0..MaxRequests
  /\ lost \subseteq Documents \X Whats
  /\ contended \subseteq Documents
  /\ \A s \in Slots : Fits(slot[s])

\* An entry that is to be written by hand is still to be written, by one handler;
\* one that is to be removed is as it was read, or gone.
JournalInTurn ==
  /\ \A s \in Slots : At(s, "insert") => written[Call(s).id] = NoEntry
  /\ \A s, t \in Slots :
       At(s, "insert") /\ At(t, "insert") /\ Call(s).id = Call(t).id => s = t
  /\ \A s \in Slots : At(s, "remove") => written[Call(s).id] \in {Call(s).row, Removed}

LedgerInv == BooksTyped /\ JournalInTurn /\ BooksAgree

\* The documents that calls name are documents.
LEMMA CallsNameDocuments ==
  ASSUME NEW q, Fits(q)
  PROVE  /\ Touched(q) \subseteq Documents
         /\ Unmade(q) \subseteq Documents \X Whats
         /\ \A i \in DOMAIN q : q[i].do \in CallKinds
<1>1. \A i \in DOMAIN q : CallFits(q[i])
  <2>1. CASE q = <<>>
    <3>1. \A i \in DOMAIN <<>> : CallFits(q[i])
      OBVIOUS
    <3> QED
      BY <2>1, <3>1, Zenon
  <2> QED
    BY <2>1, RestFits
<1>2. \A i \in DOMAIN q : q[i].do \in DocumentCalls => q[i].doc \in Documents
  BY <1>1 DEF CallFits
<1>3. Touched(q) \subseteq Documents
  BY <1>2, Zenon DEF Touched, DocumentCalls
<1>4. \A d \in Documents : \A what : Concern(d, what) \in Documents \X Whats
  BY DEF Concern, Whats
<1>5. Unmade(q) \subseteq Documents \X Whats
  BY <1>2, <1>4 DEF Unmade, DocumentCalls
<1>6. \A i \in DOMAIN q : q[i].do \in CallKinds
  BY <1>1 DEF CallFits
<1> QED
  BY <1>3, <1>5, <1>6

\* A call of the journal is never in a list that is ordinary.
LEMMA OrdinaryHead ==
  ASSUME NEW q, Ordinary(q), q # <<>>
  PROVE  Head(q).do \notin JournalCalls
<1> DEFINE calls == {q[i] : i \in DOMAIN q}
<1>1. q \in Seq(calls) /\ \A c \in calls : Plain(c)
  BY DEF Ordinary
<1> HIDE DEF calls
<1>2. Head(q) \in calls
  BY <1>1, HeadTailProperties
<1> QED
  BY <1>1, <1>2 DEF Plain

\* What one handler goes on with leaves the others' calls as they were.
LEMMA SlotFits ==
  ASSUME BooksTyped, NEW s \in Slots, NEW q, Fits(q), slot' = [slot EXCEPT ![s] = q]
  PROVE  /\ DOMAIN slot' = Slots
         /\ \A t \in Slots : Fits(slot'[t])
         /\ slot'[s] = q /\ \A t \in Slots \ {s} : slot'[t] = slot[t]
BY DEF BooksTyped

\* A step that leaves the journal alone, and goes on with none of its entries,
\* keeps its entries in turn.
LEMMA JournalKept ==
  ASSUME BooksTyped, JournalInTurn, NEW s \in Slots, NEW q,
         Ordinary(q) \/ (q # <<>> /\ Head(q).do \notin {"insert", "remove"}),
         slot' = [slot EXCEPT ![s] = q], written' = written
  PROVE  JournalInTurn'
<1>1. slot'[s] = q /\ \A t \in Slots \ {s} : slot'[t] = slot[t]
  BY DEF BooksTyped
<1>2. ~At(s, "insert")' /\ ~At(s, "remove")'
  BY <1>1, OrdinaryHead DEF At, Idle, JournalCalls
<1>3. \A t \in Slots \ {s} : /\ At(t, "insert")' = At(t, "insert")
                             /\ At(t, "remove")' = At(t, "remove")
                             /\ Call(t)' = Call(t)
  BY <1>1 DEF At, Call
<1> QED
  BY <1>2, <1>3 DEF JournalInTurn

\* A step that leaves the books alone keeps them agreed.
LEMMA AgreedStill ==
  ASSUME BooksAgree, UNCHANGED ledgerVars, disturbed' = disturbed
  PROVE  BooksAgree'
<1>1. /\ posted' = posted /\ written' = written /\ balance' = balance
      /\ debitNormal' = debitNormal
  BY DEF ledgerVars
<1>2. Rebuilt(debitNormal)' = Rebuilt(debitNormal)
  BY <1>1, RebuiltSummed, RebuiltSummedNext, Zenon
<1> QED
  BY <1>1, <1>2, Zenon DEF BooksAgree

-----------------------------------------------------------------------------
(* Requests *)

\* A handler that begins with calls that fit keeps the shapes and the books.
LEMMA BeginTyped ==
  ASSUME LedgerInv, NEW s \in Slots, NEW calls, Fits(calls), Begin(s, calls)
  PROVE  BooksTyped' /\ BooksAgree'
<1>1. /\ UNCHANGED ledgerVars /\ UNCHANGED documentVars /\ mapping' = mapping
      /\ lost' = lost /\ disturbed' = disturbed
      /\ requests < MaxRequests /\ requests' = requests + 1
      /\ slot' = [slot EXCEPT ![s] = calls]
  BY DEF Begin
<1>2. contended' \subseteq contended \cup Touched(calls)
  BY DEF Begin
<1>3. Touched(calls) \subseteq Documents
  BY CallsNameDocuments
<1>4. DOMAIN slot' = Slots /\ \A t \in Slots : Fits(slot'[t])
  BY <1>1, SlotFits DEF LedgerInv
<1>5. BooksAgree'
  BY <1>1, AgreedStill DEF LedgerInv
<1>6. requests' \in 0..MaxRequests
  BY <1>1, StartAssumption DEF LedgerInv, BooksTyped
<1>7. contended' \subseteq Documents
  BY <1>2, <1>3 DEF LedgerInv, BooksTyped
<1> QED
  BY <1>1, <1>4, <1>5, <1>6, <1>7
     DEF LedgerInv, BooksTyped, ledgerVars, documentVars

\* So does a handler that has nothing to do with the journal, in full.
LEMMA BeginOrdinary ==
  ASSUME LedgerInv, NEW s \in Slots, NEW calls, Ordinary(calls), Begin(s, calls)
  PROVE  LedgerInv'
<1>1. BooksTyped' /\ BooksAgree'
  BY BeginTyped DEF Fits
<1>2. slot' = [slot EXCEPT ![s] = calls] /\ written' = written
  BY DEF Begin, ledgerVars
<1>3. JournalInTurn'
  BY <1>2, JournalKept DEF LedgerInv
<1> QED
  BY <1>1, <1>3 DEF LedgerInv

\* What is asked of documents.
LEMMA DocumentRequests ==
  ASSUME LedgerInv, NEW s \in Slots, NEW d \in Documents,
         \/ SendInvoice(s, d) \/ CancelInvoice(s, d)
         \/ RecordPayment(s, d) \/ DeletePayment(s, d)
         \/ CreditCustomer(s, d)
         \/ ReceiveGoods(s, d) \/ ReturnGoods(s, d)
         \/ ApproveExpenses(s, d) \/ ReimburseExpenses(s, d)
         \/ \E way \in MovementWays : MoveByHand(s, d, way)
  PROVE  LedgerInv'
<1>1. /\ Kind[d] # "movement" => Plain(Write(d, "issued")) /\ Plain(Write(d, "undone"))
      /\ Kind[d] = "expense" => Plain(Write(d, "reimbursed"))
      /\ \A what : Plain(Plan(d, what))
      /\ \A way \in MovementWays : Plain(RecordMove(d, way)) /\ Plain(ApplyMove(d, way))
      /\ "in" \in MovementWays /\ "out" \in MovementWays
  BY DocumentCallsFit DEF MovementWays, Becomes
<1>2. CASE SendInvoice(s, d)
  <2>1. Kind[d] # "movement"
    BY <1>2 DEF SendInvoice
  <2> QED
    BY <1>1, <1>2, <2>1, ShortLists, BeginOrdinary, Zenon DEF SendInvoice
<1>3. CASE CancelInvoice(s, d)
  <2>1. Kind[d] # "movement"
    BY <1>3 DEF CancelInvoice
  <2> QED
    BY <1>1, <1>3, <2>1, ShortLists, BeginOrdinary, Zenon DEF CancelInvoice
<1>4. CASE RecordPayment(s, d)
  <2>1. Kind[d] # "movement"
    BY <1>4 DEF RecordPayment
  <2> QED
    BY <1>1, <1>4, <2>1, ShortLists, BeginOrdinary, Zenon DEF RecordPayment
<1>5. CASE DeletePayment(s, d)
  <2>1. Kind[d] # "movement"
    BY <1>5 DEF DeletePayment
  <2> QED
    BY <1>1, <1>5, <2>1, ShortLists, BeginOrdinary, Zenon DEF DeletePayment
<1>6. CASE CreditCustomer(s, d)
  <2>1. Kind[d] # "movement"
    BY <1>6 DEF CreditCustomer
  <2> QED
    BY <1>1, <1>6, <2>1, ShortLists, BeginOrdinary, Zenon DEF CreditCustomer
<1>7. CASE ReceiveGoods(s, d)
  <2>1. Kind[d] # "movement"
    BY <1>7 DEF ReceiveGoods
  <2> QED
    BY <1>1, <1>7, <2>1, ShortLists, BeginOrdinary, Zenon DEF ReceiveGoods
<1>8. CASE ReturnGoods(s, d)
  <2>1. Kind[d] # "movement"
    BY <1>8 DEF ReturnGoods
  <2> QED
    BY <1>1, <1>8, <2>1, ShortLists, BeginOrdinary, Zenon DEF ReturnGoods
<1>9. CASE ApproveExpenses(s, d)
  <2>1. Kind[d] # "movement"
    BY <1>9 DEF ApproveExpenses
  <2> QED
    BY <1>1, <1>9, <2>1, ShortLists, BeginOrdinary, Zenon DEF ApproveExpenses
<1>10. CASE ReimburseExpenses(s, d)
  <2>1. Kind[d] # "movement" /\ Kind[d] = "expense"
    BY <1>10 DEF ReimburseExpenses
  <2> QED
    BY <1>1, <1>10, <2>1, ShortLists, BeginOrdinary, Zenon DEF ReimburseExpenses
<1>11. ASSUME NEW way \in MovementWays, MoveByHand(s, d, way) PROVE LedgerInv'
  BY <1>1, <1>11, OrdinaryLists, BeginOrdinary, Zenon DEF MoveByHand
<1> QED
  BY <1>2, <1>3, <1>4, <1>5, <1>6, <1>7, <1>8, <1>9, <1>10, <1>11, Zenon

\* An entry that is to be written by hand is not taken, nor about to be.
LEMMA WriteEntryKeeps ==
  ASSUME LedgerInv, NEW s \in Slots, NEW h \in HandEntries, NEW e \in HandRows,
         WriteEntry(s, h, e)
  PROVE  LedgerInv'
<1> DEFINE c == [do |-> "insert", id |-> h, row |-> e, debits |-> debitNormal]
<1>1. Begin(s, <<c>>) /\ written[h] = NoEntry
      /\ \A t \in Running : ~(At(t, "insert") /\ Call(t).id = h)
  BY Zenon DEF WriteEntry
<1>2. CallFits(c) /\ c.do = "insert" /\ c.id = h
  BY DEF CallFits, CallKinds, DocumentCalls
<1> HIDE DEF c
<1>3. Fits(<<c>>) /\ Head(<<c>>) = c /\ <<c>> # <<>>
  <2>1. <<c>>[1] = c
    OBVIOUS
  <2> QED
    BY <1>2, <2>1 DEF Fits, JournalCalls
<1> DEFINE q == <<c>>
<1> HIDE DEF q
<1>4. BooksTyped' /\ BooksAgree'
  BY <1>1, <1>3, BeginTyped DEF q
<1>5. slot' = [slot EXCEPT ![s] = q] /\ written' = written
  BY <1>1 DEF Begin, ledgerVars, q
<1>6. Head(q) = c /\ q # <<>>
  BY <1>3 DEF q
<1>7. slot'[s] = q /\ \A t \in Slots \ {s} : slot'[t] = slot[t]
  BY <1>5 DEF LedgerInv, BooksTyped
<1>8. At(s, "insert")' /\ ~At(s, "remove")' /\ Call(s)' = c
  BY <1>2, <1>6, <1>7 DEF At, Call, Idle
<1>9. \A t \in Slots \ {s} : /\ At(t, "insert")' = At(t, "insert")
                             /\ At(t, "remove")' = At(t, "remove")
                             /\ Call(t)' = Call(t)
  BY <1>7 DEF At, Call
<1>10. \A t \in Slots \ {s} : At(t, "insert") => Call(t).id # h
  BY <1>1, Zenon DEF Running, At
<1>11. JournalInTurn'
  BY <1>1, <1>2, <1>5, <1>8, <1>9, <1>10 DEF JournalInTurn, LedgerInv
<1> QED
  BY <1>4, <1>11 DEF LedgerInv

\* An entry that is to be removed is on the books when it is read.
LEMMA DeleteEntryKeeps ==
  ASSUME LedgerInv, NEW s \in Slots, NEW h \in HandEntries, DeleteEntry(s, h)
  PROVE  LedgerInv'
<1> DEFINE c == [do |-> "remove", id |-> h, row |-> written[h], debits |-> debitNormal]
<1>1. Begin(s, <<c>>) /\ h \in OnTheBooks
  BY Zenon DEF DeleteEntry
<1>2. written[h] \in HandRows
  BY <1>1 DEF OnTheBooks, LedgerInv, BooksTyped
<1>3. CallFits(c) /\ c.do = "remove" /\ c.id = h /\ c.row = written[h]
  BY <1>2 DEF CallFits, CallKinds, DocumentCalls
<1> HIDE DEF c
<1>4. Fits(<<c>>) /\ Head(<<c>>) = c /\ <<c>> # <<>>
  <2>1. <<c>>[1] = c
    OBVIOUS
  <2> QED
    BY <1>3, <2>1 DEF Fits, JournalCalls
<1> DEFINE q == <<c>>
<1> HIDE DEF q
<1>5. BooksTyped' /\ BooksAgree'
  BY <1>1, <1>4, BeginTyped DEF q
<1>6. slot' = [slot EXCEPT ![s] = q] /\ written' = written
  BY <1>1 DEF Begin, ledgerVars, q
<1>7. Head(q) = c /\ q # <<>>
  BY <1>4 DEF q
<1>8. slot'[s] = q /\ \A t \in Slots \ {s} : slot'[t] = slot[t]
  BY <1>6 DEF LedgerInv, BooksTyped
<1>9. ~At(s, "insert")' /\ At(s, "remove")' /\ Call(s)' = c
  BY <1>3, <1>7, <1>8 DEF At, Call, Idle
<1>10. \A t \in Slots \ {s} : /\ At(t, "insert")' = At(t, "insert")
                              /\ At(t, "remove")' = At(t, "remove")
                              /\ Call(t)' = Call(t)
  BY <1>8 DEF At, Call
<1>11. JournalInTurn'
  BY <1>3, <1>6, <1>9, <1>10 DEF JournalInTurn, LedgerInv
<1> QED
  BY <1>5, <1>11 DEF LedgerInv

\* What typed books add up to is an integer for every account.
LEMMA BooksCount ==
  ASSUME BooksTyped
  PROVE  Countable(posted) /\ JournalCountable(written)
<1>1. Countable(posted)
  BY DEF BooksTyped, Bookable, Entries, Countable
<1>2. \A h \in OnHand(written) : written[h].amount \in Int
  BY HandRowsAssumption DEF BooksTyped, OnHand
<1> QED
  BY <1>1, <1>2 DEF JournalCountable, BooksTyped

\* A recalculation takes balances along that are right for what it read.
LEMMA BeginRecalculationKeeps ==
  ASSUME LedgerInv, NEW s \in Slots, BeginRecalculation(s)
  PROVE  LedgerInv'
<1> DEFINE c == [do |-> "recalculate", rebuilt |-> Rebuilt(debitNormal),
                 of |-> <<posted, written, debitNormal>>]
<1>1. Begin(s, <<c>>)
  BY Zenon DEF BeginRecalculation
<1>2. /\ Rebuilt(debitNormal) = RebuiltFrom(posted, written, debitNormal)
      /\ Rebuilt(debitNormal) \in [Accounts -> Int]
  BY RebuiltSummed, RebuiltTyped, BooksCount DEF LedgerInv
<1>3. c.do = "recalculate" /\ c.rebuilt = Rebuilt(debitNormal)
      /\ c.of = <<posted, written, debitNormal>>
  OBVIOUS
<1> HIDE DEF c
<1>4. c.rebuilt = RebuiltFrom(c.of[1], c.of[2], c.of[3])
  <2>1. c.of[1] = posted /\ c.of[2] = written /\ c.of[3] = debitNormal
    BY <1>3
  <2> QED
    BY <1>2, <1>3, <2>1, Zenon
<1>5. CallFits(c)
  <2>1. /\ c.do \in CallKinds /\ c.do \notin DocumentCalls
        /\ c.do \notin {"write", "record", "apply", "plan", "commit", "insert", "remove"}
    BY <1>3 DEF CallKinds, DocumentCalls
  <2> QED
    BY <1>2, <1>3, <1>4, <2>1 DEF CallFits
<1>6. Fits(<<c>>) /\ Head(<<c>>) = c /\ <<c>> # <<>>
  <2>1. <<c>>[1] = c
    OBVIOUS
  <2> QED
    BY <1>3, <1>5, <2>1 DEF Fits, JournalCalls
<1> DEFINE q == <<c>>
<1> HIDE DEF q
<1>7. BooksTyped' /\ BooksAgree'
  BY <1>1, <1>6, BeginTyped DEF q
<1>8. slot' = [slot EXCEPT ![s] = q] /\ written' = written
  BY <1>1 DEF Begin, ledgerVars, q
<1>9. q # <<>> /\ Head(q).do \notin {"insert", "remove"}
  BY <1>3, <1>6 DEF q
<1>10. JournalInTurn'
  BY <1>8, <1>9, JournalKept DEF LedgerInv
<1> QED
  BY <1>7, <1>10 DEF LedgerInv

\* Requests keep the invariant.
LEMMA RequestsKeep ==
  ASSUME LedgerInv, NEW s \in Slots, Request(s)
  PROVE  LedgerInv'
<1>1. CASE \E d \in Documents :
             \/ SendInvoice(s, d) \/ CancelInvoice(s, d)
             \/ RecordPayment(s, d) \/ DeletePayment(s, d)
             \/ CreditCustomer(s, d)
             \/ ReceiveGoods(s, d) \/ ReturnGoods(s, d)
             \/ ApproveExpenses(s, d) \/ ReimburseExpenses(s, d)
             \/ \E way \in MovementWays : MoveByHand(s, d, way)
  BY <1>1, DocumentRequests, Zenon
<1>2. CASE \E h \in HandEntries :
             DeleteEntry(s, h) \/ \E e \in HandRows : WriteEntry(s, h, e)
  BY <1>2, DeleteEntryKeeps, WriteEntryKeeps, Zenon
<1>3. CASE BeginRecalculation(s)
  BY <1>3, BeginRecalculationKeeps
<1>4. CASE PostUnposted(s)
  <2> DEFINE c == [do |-> "outstanding"]
  <2>1. Plain(c) /\ Begin(s, <<c>>)
    BY <1>4 DEF PostUnposted, Plain, CallFits, CallKinds, DocumentCalls, JournalCalls
  <2> HIDE DEF c
  <2> QED
    BY <2>1, OrdinaryLists, BeginOrdinary, Zenon
<1> QED
  BY <1>1, <1>2, <1>3, <1>4, Zenon DEF Request

-----------------------------------------------------------------------------
(* Calls *)

\* What a handler has still to do, and what is left once it has made a call.
LEMMA CallAndRest ==
  ASSUME LedgerInv, NEW s \in Slots, slot[s] # Idle
  PROVE  /\ CallFits(Call(s)) /\ Ordinary(Tail(slot[s]))
         /\ Unmade(slot[s]) \subseteq Documents \X Whats
BY RestFits, CallsNameDocuments DEF Call, Idle, LedgerInv, BooksTyped

\* A step of a handler that leaves the books alone keeps them agreed, and the
\* journal's entries in turn.
LEMMA BooksLeftAlone ==
  ASSUME LedgerInv, NEW s \in Slots, NEW q, Ordinary(q),
         slot' = [slot EXCEPT ![s] = q], UNCHANGED ledgerVars, disturbed' = disturbed
  PROVE  /\ BooksAgree' /\ JournalInTurn'
         /\ DOMAIN slot' = Slots /\ \A t \in Slots : Fits(slot'[t])
<1>1. written' = written
  BY DEF ledgerVars
<1>2. Fits(q)
  BY DEF Fits
<1> QED
  BY <1>1, <1>2, AgreedStill, JournalKept, SlotFits DEF LedgerInv

\* The calls on documents and stock.
LEMMA DocumentSteps ==
  ASSUME LedgerInv, NEW s \in Slots,
         WriteDocument(s) \/ MoveStock(s) \/ RefuseMove(s)
  PROVE  LedgerInv'
<1>1. slot[s] # Idle
  BY DEF WriteDocument, MoveStock, RefuseMove, Moving, At
<1>2. /\ CallFits(Call(s)) /\ Ordinary(Tail(slot[s]))
      /\ Unmade(slot[s]) \subseteq Documents \X Whats
  BY <1>1, CallAndRest
<1>3. /\ UNCHANGED ledgerVars /\ mapping' = mapping /\ requests' = requests
      /\ disturbed' = disturbed /\ contended' = contended
  BY Zenon DEF WriteDocument, MoveStock, RefuseMove, historyVars
<1>4. CASE WriteDocument(s)
  <2>1. slot' = [slot EXCEPT ![s] = Tail(slot[s])]
    BY <1>4 DEF WriteDocument, Continue
  <2>2. /\ BooksAgree' /\ JournalInTurn'
        /\ DOMAIN slot' = Slots /\ \A t \in Slots : Fits(slot'[t])
    BY <1>2, <1>3, <2>1, BooksLeftAlone
  <2>3. Call(s).doc \in Documents /\ Becomes(Call(s).doc, Call(s).status)
    BY <1>2, <1>4 DEF WriteDocument, At, Call, CallFits, DocumentCalls
  <2>4. /\ status' = [status EXCEPT ![Call(s).doc] = Call(s).status]
        /\ shelf' = shelf /\ movements' = movements /\ lost' = lost
    BY <1>4 DEF WriteDocument, historyVars
  <2>5. BooksTyped'
    BY <1>3, <2>2, <2>3, <2>4 DEF LedgerInv, BooksTyped, ledgerVars, Becomes
  <2> QED
    BY <2>2, <2>5 DEF LedgerInv
<1>5. CASE MoveStock(s)
  <2> DEFINE d == Call(s).doc
             way == Call(s).way
             n == movements[d] + 1
             value == Worth[d].goods
             rest == IF At(s, "record") THEN <<PostMove(d, way, n)>> \o Tail(slot[s])
                                        ELSE Tail(slot[s])
  <2>1. /\ Leaves(way) => shelf >= value
        /\ shelf' = IF way = "transfer" THEN shelf
                    ELSE IF Leaves(way) THEN shelf - value ELSE shelf + value
        /\ movements' = [movements EXCEPT ![d] = n]
        /\ slot' = [slot EXCEPT ![s] = rest]
        /\ status' = status /\ lost' = lost
    BY <1>5 DEF MoveStock, historyVars
  <2>2. d \in Documents
    BY <1>2, <1>5 DEF MoveStock, Moving, At, Call, CallFits, DocumentCalls
  <2>3. value \in Nat /\ n \in Nat
    BY <2>2, WorthTyped DEF LedgerInv, BooksTyped
  <2>4. Plain(PostMove(d, way, n))
    BY <2>2, <2>3, DocumentCallsFit
  <2> HIDE DEF n, value, d, way
  <2>5. Ordinary(rest)
    BY <1>2, <2>4, OrdinaryLists, Zenon DEF Plain
  <2> HIDE DEF rest
  <2>6. /\ BooksAgree' /\ JournalInTurn'
        /\ DOMAIN slot' = Slots /\ \A t \in Slots : Fits(slot'[t])
    BY <1>3, <2>1, <2>5, BooksLeftAlone
  <2>7. shelf' \in Nat
    BY <2>1, <2>3 DEF LedgerInv, BooksTyped
  <2>8. BooksTyped'
    BY <1>3, <2>1, <2>2, <2>3, <2>6, <2>7 DEF LedgerInv, BooksTyped, ledgerVars
  <2> QED
    BY <2>6, <2>8 DEF LedgerInv
<1>6. CASE RefuseMove(s)
  <2>1. /\ slot' = [slot EXCEPT ![s] = Idle]
        /\ lost' \subseteq lost \cup Unmade(slot[s])
        /\ UNCHANGED documentVars
    BY <1>6 DEF RefuseMove
  <2>2. Ordinary(Idle)
    BY OrdinaryLists
  <2>3. /\ BooksAgree' /\ JournalInTurn'
        /\ DOMAIN slot' = Slots /\ \A t \in Slots : Fits(slot'[t])
    BY <1>3, <2>1, <2>2, BooksLeftAlone
  <2>4. BooksTyped'
    BY <1>2, <1>3, <2>1, <2>3 DEF LedgerInv, BooksTyped, ledgerVars, documentVars
  <2> QED
    BY <2>3, <2>4 DEF LedgerInv
<1> QED
  BY <1>4, <1>5, <1>6

\* Posting, the repair and its report; a handler that is dropped.
LEMMA PlanSteps ==
  ASSUME LedgerInv, NEW s \in Slots,
         PlanPosting(s) \/ ReadOutstanding(s) \/ Report(s) \/ Abandon(s)
  PROVE  LedgerInv'
<1>1. slot[s] # Idle
  BY DEF PlanPosting, ReadOutstanding, Report, Abandon, At
<1>2. /\ CallFits(Call(s)) /\ Ordinary(Tail(slot[s]))
      /\ Unmade(slot[s]) \subseteq Documents \X Whats
  BY <1>1, CallAndRest
<1>3. /\ UNCHANGED ledgerVars /\ UNCHANGED documentVars
      /\ mapping' = mapping /\ requests' = requests
      /\ disturbed' = disturbed /\ contended' = contended
  BY Zenon DEF PlanPosting, ReadOutstanding, Report, Abandon, historyVars
<1>4. ASSUME NEW q, Ordinary(q), slot' = [slot EXCEPT ![s] = q],
             lost' \subseteq Documents \X Whats
      PROVE  LedgerInv'
  <2>1. /\ BooksAgree' /\ JournalInTurn'
        /\ DOMAIN slot' = Slots /\ \A t \in Slots : Fits(slot'[t])
    BY <1>3, <1>4, BooksLeftAlone
  <2>2. BooksTyped'
    BY <1>3, <1>4, <2>1 DEF LedgerInv, BooksTyped, ledgerVars, documentVars
  <2> QED
    BY <2>1, <2>2 DEF LedgerInv
<1>5. lost \subseteq Documents \X Whats
  BY DEF LedgerInv, BooksTyped
<1>6. CASE PlanPosting(s)
  <2> DEFINE c == Call(s)
             rows == IF Complete(mapping) THEN PlannedRows(c, mapping) ELSE {}
             commit == Commit(c.doc, c.what, rows, debitNormal)
             q == IF rows = {} THEN Tail(slot[s]) ELSE <<commit>> \o Tail(slot[s])
  <2>1. c.do = "plan" /\ c.doc \in Documents
    BY <1>2, <1>6 DEF PlanPosting, At, Call, CallFits, DocumentCalls
  <2>2. mapping \in PostingAccounts
    BY MappingsAssumption DEF LedgerInv, BooksTyped
  <2>3. Complete(mapping) => Bookable(PlannedRows(c, mapping))
    BY <1>2, <2>1, <2>2, PlannedBookable
  <2>4. slot' = [slot EXCEPT ![s] = q]
    BY <1>6, Zenon DEF PlanPosting
  <2>5. lost' \subseteq lost \cup {Concern(c.doc, c.what), <<c.doc, "goods">>}
    BY <1>6 DEF PlanPosting
  <2>6. lost' \subseteq Documents \X Whats
    BY <1>5, <2>1, <2>5 DEF Concern, Whats
  <2>7. rows # {} => Bookable(rows)
    BY <2>3
  <2> HIDE DEF c, rows
  <2>8. rows # {} => Plain(commit)
    BY <2>1, <2>7, DocumentCallsFit
  <2> HIDE DEF commit
  <2>9. Ordinary(q)
    BY <1>2, <2>8, OrdinaryLists, Zenon
  <2> HIDE DEF q
  <2> QED
    BY <1>4, <2>4, <2>6, <2>9
<1>7. CASE ReadOutstanding(s)
  <2>1. PICK docs \in SUBSET Documents :
          slot' = [slot EXCEPT ![s] = Append(Repairs, [do |-> "report", docs |-> docs])]
    BY <1>7, Zenon DEF ReadOutstanding
  <2>2. lost' = lost
    BY <1>7 DEF ReadOutstanding, historyVars
  <2>3. Ordinary(Append(Repairs, [do |-> "report", docs |-> docs]))
    BY RepairsFit
  <2> QED
    BY <1>4, <1>5, <2>1, <2>2, <2>3, Zenon
<1>8. CASE Report(s)
  <2>1. slot' = [slot EXCEPT ![s] = Tail(slot[s])] /\ lost' = lost
    BY <1>8 DEF Report, Continue, historyVars
  <2> QED
    BY <1>2, <1>4, <1>5, <2>1
<1>9. CASE Abandon(s)
  <2>1. /\ slot' = [slot EXCEPT ![s] = Idle]
        /\ lost' \subseteq lost \cup Unmade(slot[s])
    BY <1>9 DEF Abandon
  <2>2. Ordinary(Idle)
    BY OrdinaryLists
  <2> QED
    BY <1>2, <1>4, <1>5, <2>1, <2>2
<1> QED
  BY <1>6, <1>7, <1>8, <1>9

\* The rows a handler planned go on the books but for those whose key is there,
\* and the balances move by what went in.
LEMMA CommitKeeps ==
  ASSUME LedgerInv, NEW s \in Slots, CommitPosting(s)
  PROVE  LedgerInv'
<1> DEFINE c == Call(s)
           known == {p.key : p \in posted}
           fresh == {r \in c.rows : r.key \notin known}
<1>1. slot[s] # Idle /\ c.do = "commit"
  BY DEF CommitPosting, At, Call
<1>2. /\ Bookable(c.rows) /\ c.doc \in Documents
      /\ Ordinary(Tail(slot[s]))
  BY <1>1, CallAndRest DEF CallFits, DocumentCalls
<1>3. /\ posted' = posted \cup fresh
      /\ balance' = [a \in Accounts |-> balance[a] + Total(fresh, a, c.debits)]
      /\ written' = written /\ debitNormal' = debitNormal
      /\ slot' = [slot EXCEPT ![s] = Tail(slot[s])]
      /\ disturbed' = (disturbed \/ c.debits # debitNormal)
      /\ UNCHANGED <<documentVars, mapping, requests>>
  BY DEF CommitPosting, Post, Continue
<1>4. /\ lost' \subseteq lost \cup {<<c.doc, "goods">>}
      /\ contended' \subseteq contended \cup {c.doc}
  BY DEF CommitPosting
<1>5. Bookable(posted)
  BY DEF LedgerInv, BooksTyped
<1> HIDE DEF c
<1>6. /\ fresh \subseteq Entries /\ IsFiniteSet(fresh)
      /\ \A r, q \in fresh : r.key = q.key => r = q
      /\ posted \cap fresh = {}
      /\ \A p \in posted, r \in fresh : p.key # r.key
  BY <1>2, FS_Subset DEF Bookable
<1> HIDE DEF fresh
<1>7. Bookable(posted \cup fresh)
  <2>1. IsFiniteSet(posted \cup fresh)
    BY <1>5, <1>6, FS_Union DEF Bookable
  <2> QED
    BY <1>5, <1>6, <2>1 DEF Bookable
<1>8. Countable(posted) /\ Countable(fresh) /\ JournalCountable(written)
  <2>1. Countable(fresh)
    BY <1>6 DEF Countable, Entries
  <2> QED
    BY <2>1, BooksCount DEF LedgerInv
<1>9. \A a \in Accounts : \A debits : Total(fresh, a, debits) \in Int
  BY <1>6, <1>8, TotalJoined
<1>10. balance' \in [Accounts -> Int]
  BY <1>3, <1>9 DEF LedgerInv, BooksTyped
<1>11. Fits(Tail(slot[s]))
  BY <1>2 DEF Fits
<1>12. DOMAIN slot' = Slots /\ \A t \in Slots : Fits(slot'[t])
  BY <1>3, <1>11, SlotFits DEF LedgerInv
<1>13. JournalInTurn'
  BY <1>2, <1>3, JournalKept DEF LedgerInv
<1>14. lost' \subseteq Documents \X Whats /\ contended' \subseteq Documents
  BY <1>2, <1>4 DEF LedgerInv, BooksTyped, Whats
<1>15. BooksTyped'
  BY <1>3, <1>7, <1>10, <1>12, <1>14 DEF LedgerInv, BooksTyped, documentVars
<1>16. BooksAgree'
  <2>1. SUFFICES ASSUME ~disturbed'
                 PROVE  balance' = RebuiltFrom(posted', written', debitNormal')
    BY RebuiltSummedNext DEF BooksAgree
  <2>2. ~disturbed /\ c.debits = debitNormal
    BY <1>3, <2>1
  <2>3. balance = RebuiltFrom(posted, written, debitNormal)
    BY <2>2, RebuiltSummed DEF LedgerInv, BooksAgree
  <2>4. \A a \in Accounts :
          RebuiltFrom(posted \cup fresh, written, debitNormal)[a]
            = RebuiltFrom(posted, written, debitNormal)[a] + Total(fresh, a, debitNormal)
    BY <1>6, <1>8, RebuiltWithRows
  <2>5. balance' = [a \in Accounts |-> RebuiltFrom(posted \cup fresh, written, debitNormal)[a]]
    BY <1>3, <2>2, <2>3, <2>4
  <2>6. RebuiltFrom(posted \cup fresh, written, debitNormal) \in [Accounts -> Int]
    <3>1. Countable(posted \cup fresh)
      BY <1>7 DEF Bookable, Countable, Entries
    <3> QED
      BY <1>8, <3>1, RebuiltTyped
  <2> QED
    BY <1>3, <2>5, <2>6
<1> QED
  BY <1>13, <1>15, <1>16 DEF LedgerInv

\* A step that goes on from a call of the journal on one entry leaves the other
\* handlers' entries in turn.
LEMMA JournalStepped ==
  ASSUME LedgerInv, NEW s \in Slots,
         At(s, "insert") \/ At(s, "remove"),
         slot' = [slot EXCEPT ![s] = Tail(slot[s])],
         \A g \in HandEntries \ {Call(s).id} : written'[g] = written[g],
         \A t \in Slots \ {s} : At(t, "insert") => Call(t).id # Call(s).id,
         \A t \in Slots \ {s} :
           At(t, "remove") /\ Call(t).id = Call(s).id =>
             written'[Call(t).id] \in {Call(t).row, Removed}
  PROVE  JournalInTurn' /\ DOMAIN slot' = Slots /\ \A t \in Slots : Fits(slot'[t])
<1>1. Ordinary(Tail(slot[s]))
  BY CallAndRest DEF At
<1>2. Fits(Tail(slot[s]))
  BY <1>1 DEF Fits
<1>3. DOMAIN slot' = Slots /\ \A t \in Slots : Fits(slot'[t])
  BY <1>2, SlotFits DEF LedgerInv
<1>4. slot'[s] = Tail(slot[s]) /\ \A t \in Slots \ {s} : slot'[t] = slot[t]
  BY DEF LedgerInv, BooksTyped
<1>5. ~At(s, "insert")' /\ ~At(s, "remove")'
  BY <1>1, <1>4, OrdinaryHead DEF At, Idle, JournalCalls
<1>6. \A t \in Slots \ {s} : /\ At(t, "insert")' = At(t, "insert")
                             /\ At(t, "remove")' = At(t, "remove")
                             /\ Call(t)' = Call(t)
  BY <1>4 DEF At, Call
<1>7. \A t \in Slots : At(t, "insert") \/ At(t, "remove") => Call(t).id \in HandEntries
  BY CallAndRest DEF At, Call, CallFits
<1>8. /\ \A t \in Slots : At(t, "insert") => written[Call(t).id] = NoEntry
      /\ \A t, u \in Slots :
           At(t, "insert") /\ At(u, "insert") /\ Call(t).id = Call(u).id => t = u
      /\ \A t \in Slots : At(t, "remove") => written[Call(t).id] \in {Call(t).row, Removed}
  BY DEF LedgerInv, JournalInTurn
<1>9. \A t \in Slots \ {s} : At(t, "insert") => written'[Call(t).id] = NoEntry
  BY <1>7, <1>8
<1>10. \A t \in Slots \ {s} : At(t, "remove") => written'[Call(t).id] \in {Call(t).row, Removed}
  BY <1>7, <1>8
<1>11. JournalInTurn'
  BY <1>5, <1>6, <1>8, <1>9, <1>10 DEF JournalInTurn
<1> QED
  BY <1>3, <1>11

\* An entry comes to the journal once, and moves the balances by what it does.
LEMMA InsertKeeps ==
  ASSUME LedgerInv, NEW s \in Slots, InsertEntry(s)
  PROVE  LedgerInv'
<1> DEFINE c == Call(s)
           h == Call(s).id
           e == Call(s).row
<1>1. At(s, "insert") /\ slot[s] # Idle /\ c.do = "insert" /\ Call(s).id = h
  BY DEF InsertEntry, At, Call
<1>2. h \in HandEntries /\ e \in HandRows
  BY <1>1, CallAndRest DEF CallFits
<1>3. /\ written' = [written EXCEPT ![h] = e]
      /\ balance' = [a \in Accounts |-> balance[a] + Effect(e, a, c.debits)]
      /\ posted' = posted /\ debitNormal' = debitNormal
      /\ slot' = [slot EXCEPT ![s] = Tail(slot[s])]
      /\ disturbed' = (disturbed \/ c.debits # debitNormal)
      /\ UNCHANGED <<documentVars, mapping, requests, lost, contended>>
  BY DEF InsertEntry, WriteByHand, Continue
<1>4. written[h] = NoEntry
  BY <1>1 DEF LedgerInv, JournalInTurn
<1>5. e.amount \in Int /\ e \notin {NoEntry, Removed}
  BY <1>2, HandRowsAssumption
<1>6. \A t \in Slots \ {s} : At(t, "insert") => Call(t).id # h
  BY <1>1 DEF LedgerInv, JournalInTurn
<1>7. \A t \in Slots \ {s} : ~(At(t, "remove") /\ Call(t).id = h)
  <2>1. ASSUME NEW t \in Slots \ {s}, At(t, "remove"), Call(t).id = h PROVE FALSE
    <3>1. Call(t).row \in HandRows /\ written[h] \in {Call(t).row, Removed}
      BY <2>1, CallAndRest DEF At, Call, CallFits, LedgerInv, JournalInTurn
    <3> QED
      BY <1>4, <3>1, HandRowsAssumption, JournalAssumption
  <2> QED
    BY <2>1
<1>8. written' \in [HandEntries -> HandRows \cup {NoEntry, Removed}]
      /\ written'[h] = e /\ \A g \in HandEntries \ {h} : written'[g] = written[g]
  BY <1>2, <1>3 DEF LedgerInv, BooksTyped
<1>9. JournalInTurn' /\ DOMAIN slot' = Slots /\ \A t \in Slots : Fits(slot'[t])
  BY <1>1, <1>3, <1>6, <1>7, <1>8, JournalStepped
<1> HIDE DEF h, e, c
<1>10. \A a, debits : Effect(e, a, debits) \in Int
  BY <1>5, EffectTyped
<1>11. balance' \in [Accounts -> Int]
  BY <1>3, <1>10 DEF LedgerInv, BooksTyped
<1>12. BooksTyped'
  BY <1>3, <1>8, <1>9, <1>11 DEF LedgerInv, BooksTyped, documentVars
<1>13. BooksAgree'
  <2>1. SUFFICES ASSUME ~disturbed'
                 PROVE  balance' = RebuiltFrom(posted', written', debitNormal')
    BY RebuiltSummedNext DEF BooksAgree
  <2>2. ~disturbed /\ c.debits = debitNormal
    BY <1>3, <2>1
  <2>3. balance = RebuiltFrom(posted, written, debitNormal)
    BY <2>2, RebuiltSummed DEF LedgerInv, BooksAgree
  <2>4. /\ OnHand(written') = OnHand(written) \cup {h} /\ h \notin OnHand(written)
    BY <1>2, <1>4, <1>5, <1>8 DEF OnHand
  <2>5. Countable(posted) /\ JournalCountable(written) /\ JournalCountable(written')
    <3>1. Countable(posted) /\ JournalCountable(written)
      BY BooksCount DEF LedgerInv
    <3>2. JournalCountable(written')
      BY <1>8, HandRowsAssumption DEF JournalCountable, OnHand
    <3> QED
      BY <3>1, <3>2
  <2> DEFINE v == written'
  <2>6. /\ OnHand(v) = OnHand(written) \cup {h} /\ JournalCountable(v) /\ v[h] = e
        /\ \A g \in HandEntries \ {h} : v[g] = written[g]
    BY <1>8, <2>4, <2>5
  <2> HIDE DEF v
  <2>7. \A a \in Accounts :
          RebuiltFrom(posted, v, debitNormal)[a]
            = RebuiltFrom(posted, written, debitNormal)[a] + Effect(e, a, debitNormal)
    BY <1>2, <2>4, <2>5, <2>6, RebuiltWithHand
  <2>8. RebuiltFrom(posted, v, debitNormal) \in [Accounts -> Int]
    BY <2>5, <2>6, RebuiltTyped
  <2>9. balance' = RebuiltFrom(posted, v, debitNormal)
    BY <1>3, <2>2, <2>3, <2>7, <2>8
  <2> QED
    BY <1>3, <2>9 DEF v
<1> QED
  BY <1>9, <1>12, <1>13 DEF LedgerInv

\* A removal takes back what the entry did, if it was still there.
LEMMA RemoveKeeps ==
  ASSUME LedgerInv, NEW s \in Slots, RemoveEntry(s)
  PROVE  LedgerInv'
<1> DEFINE c == Call(s)
           h == Call(s).id
           e == Call(s).row
<1>1. At(s, "remove") /\ slot[s] # Idle /\ c.do = "remove"
  BY DEF RemoveEntry, At, Call
<1>2. h \in HandEntries /\ e \in HandRows
  BY <1>1, CallAndRest DEF CallFits
<1>3. /\ written' = [written EXCEPT ![h] = Removed]
      /\ balance' = [a \in Accounts |-> balance[a] - Effect(e, a, c.debits)]
      /\ posted' = posted /\ debitNormal' = debitNormal
      /\ slot' = [slot EXCEPT ![s] = Tail(slot[s])]
      /\ disturbed' = (disturbed \/ c.debits # debitNormal \/ written[h] = Removed)
      /\ UNCHANGED <<documentVars, mapping, requests, lost, contended>>
  BY DEF RemoveEntry, RemoveByHand, Continue
<1>4. written[h] \in {e, Removed}
  BY <1>1 DEF LedgerInv, JournalInTurn
<1>5. e.amount \in Int /\ e \notin {NoEntry, Removed}
  BY <1>2, HandRowsAssumption
<1>6. \A t \in Slots \ {s} : At(t, "insert") => Call(t).id # h
  <2>1. ASSUME NEW t \in Slots \ {s}, At(t, "insert"), Call(t).id = h PROVE FALSE
    <3>1. written[h] = NoEntry
      BY <2>1 DEF LedgerInv, JournalInTurn
    <3> QED
      BY <1>4, <1>5, <3>1, JournalAssumption
  <2> QED
    BY <2>1
<1>7. written' \in [HandEntries -> HandRows \cup {NoEntry, Removed}]
      /\ written'[h] = Removed /\ \A g \in HandEntries \ {h} : written'[g] = written[g]
  BY <1>2, <1>3 DEF LedgerInv, BooksTyped
<1>8. JournalInTurn' /\ DOMAIN slot' = Slots /\ \A t \in Slots : Fits(slot'[t])
  BY <1>1, <1>3, <1>6, <1>7, JournalStepped
<1> HIDE DEF h, e, c
<1>9. \A a, debits : Effect(e, a, debits) \in Int
  BY <1>5, EffectTyped
<1>10. balance' \in [Accounts -> Int]
  BY <1>3, <1>9 DEF LedgerInv, BooksTyped
<1>11. BooksTyped'
  BY <1>3, <1>7, <1>8, <1>10 DEF LedgerInv, BooksTyped, documentVars
<1>12. BooksAgree'
  <2>1. SUFFICES ASSUME ~disturbed'
                 PROVE  balance' = RebuiltFrom(posted', written', debitNormal')
    BY RebuiltSummedNext DEF BooksAgree
  <2>2. ~disturbed /\ c.debits = debitNormal /\ written[h] = e
    BY <1>3, <1>4, <2>1
  <2>3. balance = RebuiltFrom(posted, written, debitNormal)
    BY <2>2, RebuiltSummed DEF LedgerInv, BooksAgree
  <2>4. Countable(posted) /\ JournalCountable(written)
    BY BooksCount DEF LedgerInv
  <2> DEFINE v == written'
  <2>5. OnHand(written) = OnHand(v) \cup {h} /\ h \notin OnHand(v)
    BY <1>2, <1>5, <1>7, <2>2 DEF OnHand
  <2>6. JournalCountable(v) /\ \A g \in HandEntries \ {h} : written[g] = v[g]
    BY <1>7, HandRowsAssumption DEF JournalCountable, OnHand
  <2> HIDE DEF v
  <2>7. \A a \in Accounts :
          RebuiltFrom(posted, written, debitNormal)[a]
            = RebuiltFrom(posted, v, debitNormal)[a] + Effect(e, a, debitNormal)
    BY <1>2, <2>2, <2>4, <2>5, <2>6, RebuiltWithHand
  <2>8. RebuiltFrom(posted, v, debitNormal) \in [Accounts -> Int]
    BY <2>4, <2>6, RebuiltTyped
  <2>9. \A a \in Accounts : Effect(e, a, debitNormal) \in Int
    BY <1>9
  <2>10. balance' = RebuiltFrom(posted, v, debitNormal)
    BY <1>3, <2>2, <2>3, <2>7, <2>8, <2>9
  <2> QED
    BY <1>3, <2>10 DEF v
<1> QED
  BY <1>8, <1>11, <1>12 DEF LedgerInv

\* Balances that were rebuilt are right if nothing changed since they were.
LEMMA RecalculationKeeps ==
  ASSUME LedgerInv, NEW s \in Slots, WriteRecalculation(s)
  PROVE  LedgerInv'
<1> DEFINE c == Call(s)
<1>1. slot[s] # Idle /\ c.do = "recalculate"
  BY DEF WriteRecalculation, At, Call
<1>2. Ordinary(Tail(slot[s])) /\ CallFits(c)
  BY <1>1, CallAndRest
<1>3. /\ balance' = c.rebuilt
      /\ posted' = posted /\ written' = written /\ debitNormal' = debitNormal
      /\ slot' = [slot EXCEPT ![s] = Tail(slot[s])]
      /\ disturbed' = (c.of # <<posted, written, debitNormal>>)
      /\ UNCHANGED <<documentVars, mapping, requests, lost, contended>>
  BY DEF WriteRecalculation, Recalculate, Continue
<1> HIDE DEF c
<1>4. c.rebuilt = RebuiltFrom(c.of[1], c.of[2], c.of[3])
  BY <1>1, <1>2 DEF CallFits
<1>5. c.rebuilt \in [Accounts -> Int]
  BY <1>1, <1>2 DEF CallFits
<1>6. DOMAIN slot' = Slots /\ \A t \in Slots : Fits(slot'[t])
  BY <1>2, <1>3, SlotFits DEF LedgerInv, Fits
<1>7. JournalInTurn'
  BY <1>2, <1>3, JournalKept DEF LedgerInv
<1>8. BooksTyped'
  BY <1>3, <1>5, <1>6 DEF LedgerInv, BooksTyped, documentVars
<1>9. BooksAgree'
  <2>1. SUFFICES ASSUME ~disturbed'
                 PROVE  balance' = RebuiltFrom(posted', written', debitNormal')
    BY RebuiltSummedNext DEF BooksAgree
  <2>2. c.of = <<posted, written, debitNormal>>
    BY <1>3, <2>1
  <2>3. c.of[1] = posted /\ c.of[2] = written /\ c.of[3] = debitNormal
    BY <2>2
  <2> QED
    BY <1>3, <1>4, <2>3, Zenon
<1> QED
  BY <1>7, <1>8, <1>9 DEF LedgerInv

\* An administrator's choices leave the shapes, and say so where balances may
\* no longer be right.
LEMMA SettingsKeep ==
  ASSUME LedgerInv,
         (\E a \in Retypable : RetypeAccount(a)) \/ (\E m \in Mappings : ChooseMapping(m))
  PROVE  LedgerInv'
<1>1. slot' = slot /\ written' = written /\ posted' = posted /\ balance' = balance
      /\ UNCHANGED documentVars /\ lost' = lost /\ contended' = contended
  BY DEF RetypeAccount, Retype, ChooseMapping, ledgerVars
<1>2. JournalInTurn'
  <2>1. \A t \in Slots : At(t, "insert")' = At(t, "insert") /\ At(t, "remove")' = At(t, "remove")
                           /\ Call(t)' = Call(t)
    BY <1>1 DEF At, Call
  <2> QED
    BY <1>1, <2>1 DEF JournalInTurn, LedgerInv
<1>3. \A t \in Slots : Fits(slot'[t])
  BY <1>1 DEF LedgerInv, BooksTyped
<1>4. requests' \in 0..MaxRequests
  BY StartAssumption DEF LedgerInv, BooksTyped, RetypeAccount, ChooseMapping
<1>5. debitNormal' \subseteq Accounts
  BY StartAssumption
     DEF LedgerInv, BooksTyped, RetypeAccount, Retype, ChooseMapping, ledgerVars
<1>6. mapping' \in Mappings
  BY DEF LedgerInv, BooksTyped, RetypeAccount, ChooseMapping
<1>7. BooksTyped'
  BY <1>1, <1>3, <1>4, <1>5, <1>6 DEF LedgerInv, BooksTyped, documentVars
<1>8. BooksAgree'
  <2>1. CASE \E a \in Retypable : RetypeAccount(a)
    BY <2>1 DEF RetypeAccount, BooksAgree
  <2>2. CASE \E m \in Mappings : ChooseMapping(m)
    BY <2>2, AgreedStill DEF ChooseMapping, LedgerInv
  <2> QED
    BY <2>1, <2>2
<1> QED
  BY <1>2, <1>7, <1>8 DEF LedgerInv

\* Nothing happening keeps the invariant.
LEMMA StutteringKeeps ==
  ASSUME LedgerInv, UNCHANGED vars
  PROVE  LedgerInv'
<1>1. /\ UNCHANGED ledgerVars /\ UNCHANGED documentVars /\ UNCHANGED historyVars
      /\ mapping' = mapping /\ slot' = slot /\ requests' = requests
  BY DEF vars
<1>2. written' = written
  BY <1>1 DEF ledgerVars
<1>3. JournalInTurn'
  <2>1. \A t \in Slots : At(t, "insert")' = At(t, "insert") /\ At(t, "remove")' = At(t, "remove")
                           /\ Call(t)' = Call(t)
    BY <1>1 DEF At, Call
  <2> QED
    BY <1>2, <2>1 DEF JournalInTurn, LedgerInv
<1>4. \A t \in Slots : Fits(slot'[t])
  BY <1>1 DEF LedgerInv, BooksTyped
<1>5. BooksTyped'
  BY <1>1, <1>4 DEF LedgerInv, BooksTyped, ledgerVars, documentVars, historyVars
<1>6. BooksAgree'
  BY <1>1, AgreedStill DEF LedgerInv, historyVars
<1> QED
  BY <1>3, <1>5, <1>6 DEF LedgerInv

\* The books begin empty, and nothing is owed.
LEMMA BooksOpen ==
  ASSUME Init
  PROVE  LedgerInv
<1>1. Bookable(posted)
  BY FS_EmptySet DEF Init, Bookable
<1>2. \A s \in Slots : Fits(slot[s]) /\ slot[s] = Idle
  BY OrdinaryLists DEF Init, Fits
<1>3. BooksTyped
  BY <1>1, <1>2, StartAssumption DEF Init, BooksTyped
<1>4. JournalInTurn
  BY <1>2 DEF JournalInTurn, At
<1>5. BooksAgree
  <2>1. ASSUME NEW a \in Accounts, NEW debits
        PROVE  RebuiltFrom(posted, written, debits)[a] = 0
    <3> DEFINE u == Effects(posted, a, debits)
               v == HandEffects(written, a, debits)
    <3>1. posted = {} /\ OnHand(written) = {}
      BY DEF Init, OnHand
    <3>2. Total(posted, a, debits) = SumOf(u, posted)
      BY TotalSummed
    <3>3. DOMAIN u = {} /\ DOMAIN v = {}
      BY <3>1 DEF Effects, HandEffects
    <3> HIDE DEF u, v
    <3>4. SumOf(u, {}) = 0 /\ SumOf(v, {}) = 0
      BY <3>3, FS_EmptySet, SumSplit
    <3>5. RebuiltFrom(posted, written, debits)[a] = SumOf(u, {}) + SumOf(v, {})
      BY <3>1, <3>2 DEF RebuiltFrom, v
    <3> QED
      BY <3>4, <3>5
  <2>2. RebuiltFrom(posted, written, debitNormal) \in [Accounts -> Int]
    BY <1>3, BooksCount, RebuiltTyped
  <2>3. balance = RebuiltFrom(posted, written, debitNormal)
    BY <2>1, <2>2 DEF Init
  <2> QED
    BY <2>3, RebuiltSummed DEF BooksAgree
<1> QED
  BY <1>3, <1>4, <1>5 DEF LedgerInv

\* Every step keeps the invariant.
LEMMA LedgerKept == LedgerInv /\ [Next]_vars => LedgerInv'
<1> SUFFICES ASSUME LedgerInv, [Next]_vars
             PROVE  LedgerInv'
  OBVIOUS
<1>1. ASSUME NEW s \in Slots, Step(s) PROVE LedgerInv'
  BY <1>1, DocumentSteps, PlanSteps, CommitKeeps, InsertKeeps, RemoveKeeps,
     RecalculationKeeps, Zenon DEF Step
<1>2. ASSUME NEW s \in Slots, Request(s) \/ Abandon(s) PROVE LedgerInv'
  BY <1>2, RequestsKeep, PlanSteps, Zenon
<1> QED
  BY <1>1, <1>2, SettingsKeep, StutteringKeeps, Zenon DEF Next

\* The balance kept on every account is what the entries add up to, however
\* postings, repeats, repairs and the journal form run into each other, for any
\* charts, documents and handlers; it takes that a row that is skipped moves no
\* balance, that an entry is written by one handler, and that a recalculation
\* knows what it read.
THEOREM BalancesAreTheEntries == Spec => []BooksAgree
<1>1. Init => LedgerInv
  BY BooksOpen
<1>2. LedgerInv => BooksAgree
  BY DEF LedgerInv
<1> QED
  BY <1>1, <1>2, LedgerKept, PTL DEF Spec

\* The books, documents and calls keep their shapes: every row that went on the
\* books is of an amount above zero between accounts that are filled, and no key
\* is there twice.
THEOREM BooksKeepTheirShape == Spec => []PostingTypeOK
<1>1. Init => LedgerInv
  BY BooksOpen
<1>2. LedgerInv => PostingTypeOK
  <2> SUFFICES ASSUME LedgerInv PROVE PostingTypeOK
    OBVIOUS
  <2>1. /\ posted \subseteq Entries
        /\ \A r, q \in posted : r.key = q.key => r = q
    BY DEF LedgerInv, BooksTyped, Bookable
  <2>2. \A r \in posted : r.key.doc \in Documents /\ r.amount > 0
                            /\ {r.debit, r.credit} \subseteq Accounts
    BY <2>1 DEF Entries, Keys
  <2>3. \A s \in Slots : \A i \in DOMAIN slot[s] : slot[s][i].do \in CallKinds
    BY CallsNameDocuments DEF LedgerInv, BooksTyped
  <2> QED
    BY <2>1, <2>2, <2>3 DEF LedgerInv, BooksTyped, PostingTypeOK
<1> QED
  BY <1>1, <1>2, LedgerKept, PTL DEF Spec

-----------------------------------------------------------------------------
(* What the repair leaves *)

\* A document that is worth an entry posts one of its own when costing is
\* perpetual as when it is not.
LEMMA WorthLegs ==
  ASSUME NEW d \in Documents, NEW perpetual \in BOOLEAN, WorthEntries(d)
  PROVE  /\ \E l \in DocumentLegs(d, perpetual) : l.amount # 0 /\ l.name \notin MovementWays
         /\ Kind[d] = "creditNote" =>
              \E l \in CreditNoteLegs(d, 0, perpetual) :
                l.amount # 0 /\ l.name \notin MovementWays
<1> DEFINE Posts(legs) == \E l \in legs : l.amount # 0 /\ l.name \notin MovementWays
<1>1. PICK k \in DocumentLegs(d, FALSE) : k.amount # 0
  BY DEF WorthEntries
<1>2. Kind[d] \in Kinds
  BY DocumentsAssumption
<1>3. CASE Kind[d] = "invoice"
  <2>1. \A p : DocumentLegs(d, p) = InvoiceLegs(d)
    BY <1>3 DEF DocumentLegs
  <2>2. k.name \notin MovementWays
    <3>1. k \in InvoiceLegs(d)
      BY <1>1, <2>1
    <3> QED
      BY <3>1 DEF InvoiceLegs, Leg, MovementWays
  <2> QED
    BY <1>1, <1>3, <2>1, <2>2
<1>4. CASE Kind[d] = "payment" \/ Kind[d] = "vendorPayment"
  <2>1. DocumentLegs(d, perpetual) = DocumentLegs(d, FALSE)
    BY <1>4 DEF DocumentLegs
  <2>2. k \in PaymentLegs(d) \cup VendorPaymentLegs(d)
    BY <1>1, <1>4 DEF DocumentLegs
  <2>3. k.name \notin MovementWays
    BY <2>2 DEF PaymentLegs, VendorPaymentLegs, FxLegs, Leg, MovementWays
  <2> QED
    BY <1>1, <1>4, <2>1, <2>3
<1>5. CASE Kind[d] = "expense"
  <2>1. \A p : DocumentLegs(d, p) = ApprovalLegs(d)
    BY <1>5 DEF DocumentLegs
  <2>2. k.name \notin MovementWays
    <3>1. k \in ApprovalLegs(d)
      BY <1>1, <2>1
    <3> QED
      BY <3>1 DEF ApprovalLegs, Leg, MovementWays
  <2> QED
    BY <1>1, <1>5, <2>1, <2>2
<1>6. CASE Kind[d] = "creditNote"
  <2>1. \A p : DocumentLegs(d, p) = CreditNoteLegs(d, Worth[d].goods, p)
    BY <1>6 DEF DocumentLegs
  <2>2. k \in {Swapped(l) : l \in InvoiceLegs(d)}
    BY <1>1, <2>1 DEF CreditNoteLegs
  <2>3. k.name \notin MovementWays
    BY <2>2 DEF InvoiceLegs, Swapped, Leg, MovementWays
  <2>4. \A n, p : k \in CreditNoteLegs(d, n, p)
    BY <2>2 DEF CreditNoteLegs
  <2> QED
    BY <1>1, <2>1, <2>3, <2>4
<1>7. CASE Kind[d] \in {"receipt", "purchaseReturn"}
  <2>1. PICK j \in ReceiptLegs(d, FALSE) : j.amount # 0
    <3>1. CASE Kind[d] = "receipt"
      <4>1. DocumentLegs(d, FALSE) = ReceiptLegs(d, FALSE)
        BY <3>1 DEF DocumentLegs
      <4> QED
        BY <1>1, <4>1
    <3>2. CASE Kind[d] = "purchaseReturn"
      <4>1. DocumentLegs(d, FALSE) = ReturnLegs(d, FALSE)
        BY <3>2 DEF DocumentLegs
      <4>2. k \in ReturnLegs(d, FALSE)
        BY <1>1, <4>1
      <4>3. PICK j \in ReceiptLegs(d, FALSE) : k = Swapped(j)
        BY <4>2 DEF ReturnLegs
      <4>4. j.amount # 0
        BY <1>1, <4>3 DEF Swapped, Leg
      <4> QED
        BY <4>4
    <3> QED
      BY <1>7, <3>1, <3>2
  <2>2. Worth[d].net + Worth[d].goods # 0 \/ Worth[d].tax # 0
    BY <2>1, WorthTyped DEF ReceiptLegs, Leg
  <2>3. PICK l \in ReceiptLegs(d, perpetual) : l.amount # 0 /\ l.name \notin MovementWays
    <3>1. CASE perpetual
      <4>1. ReceiptLegs(d, perpetual) =
              {Leg("stock", "inventory", "accountsPayable", Worth[d].goods),
               Leg("cost", "costOfSales", "accountsPayable",
                   Worth[d].net + Worth[d].goods - Worth[d].goods),
               Leg("tax", "purchaseTax", "accountsPayable", Worth[d].tax)}
        BY <3>1 DEF ReceiptLegs
      <4> QED
        BY <2>2, <4>1, WorthTyped DEF Leg, MovementWays
    <3>2. CASE ~perpetual
      <4>1. ReceiptLegs(d, perpetual) =
              {Leg("stock", "inventory", "accountsPayable", 0),
               Leg("cost", "costOfSales", "accountsPayable",
                   Worth[d].net + Worth[d].goods - 0),
               Leg("tax", "purchaseTax", "accountsPayable", Worth[d].tax)}
        BY <3>2 DEF ReceiptLegs
      <4> QED
        BY <2>2, <4>1, WorthTyped DEF Leg, MovementWays
    <3> QED
      BY <3>1, <3>2
  <2>4. Swapped(l).amount # 0 /\ Swapped(l).name \notin MovementWays
    BY <2>3 DEF Swapped, Leg
  <2>5. DocumentLegs(d, perpetual) \in {ReceiptLegs(d, perpetual), ReturnLegs(d, perpetual)}
    BY <1>7 DEF DocumentLegs
  <2> QED
    BY <1>7, <2>3, <2>4, <2>5 DEF ReturnLegs
<1>8. CASE Kind[d] = "movement"
  BY <1>1, <1>8 DEF DocumentLegs
<1> QED
  BY <1>2, <1>3, <1>4, <1>5, <1>6, <1>7, <1>8 DEF Kinds

\* A call that puts an entry of d itself on the books, if posting stays on.
Books(c, d) ==
  \/ /\ c.do = "plan" /\ c.doc = d
     /\ c.what = "issued" \/ (c.what = "repaired" /\ Kind[d] = "creditNote")
  \/ /\ c.do = "commit"
     /\ \E r \in c.rows : r.key.doc = d /\ r.key.leg \notin MovementWays

\* The documents that the repair has nothing left to do for.
Accounted == {d \in Documents : switchedOff \/ ~WorthEntries(d) \/ EntriesOf(d) # {}}

\* What a report names is accounted for, or is to be by a call that comes before.
ReportsFit(q, done) ==
  \A i \in DOMAIN q : q[i].do = "report" =>
    \A d \in q[i].docs : d \in done \/ \E j \in 1..(i - 1) : Books(q[j], d)

Repair(q) == \E i \in DOMAIN q : q[i].do \in {"outstanding", "report"}

\* The repair is only asked for while posting is on.
RepairInTurn ==
  \A s \in Slots :
    /\ ReportsFit(slot[s], Accounted)
    /\ Repair(slot[s]) => switchedOff \/ Complete(mapping)

RepairInv == LedgerInv /\ RepairInTurn

\* Calls come in a list.
LEMMA FitsIsList ==
  ASSUME NEW q, Fits(q)
  PROVE  \E S : q \in Seq(S)
<1>1. CASE Ordinary(q)
  BY <1>1, Zenon DEF Ordinary
<1>2. CASE q = <<q[1]>>
  <2>1. \A c : <<c>> \in Seq({c})
    OBVIOUS
  <2> QED
    BY <1>2, <2>1, Zenon
<1> QED
  BY <1>1, <1>2 DEF Fits

\* Where the calls of a list are once the first of them is made, or is followed
\* by another.
LEMMA ListShifted ==
  ASSUME NEW q, Fits(q), q # <<>>, NEW c
  PROVE  /\ Len(q) \in Nat \ {0} /\ DOMAIN q = 1..Len(q) /\ Head(q) = q[1]
         /\ DOMAIN Tail(q) = 1..(Len(q) - 1)
         /\ \A i \in 1..(Len(q) - 1) : Tail(q)[i] = q[i + 1]
         /\ DOMAIN (<<c>> \o Tail(q)) = 1..Len(q)
         /\ (<<c>> \o Tail(q))[1] = c
         /\ \A i \in 2..Len(q) : (<<c>> \o Tail(q))[i] = q[i]
<1>1. PICK S : q \in Seq(S)
  BY FitsIsList
<1>2. /\ Len(q) \in Nat \ {0} /\ DOMAIN q = 1..Len(q)
      /\ Tail(q) \in Seq(S) /\ Len(Tail(q)) = Len(q) - 1
      /\ \A i \in 1..Len(Tail(q)) : Tail(q)[i] = q[i + 1]
  BY <1>1, HeadTailProperties, EmptySeq, LenProperties
<1>3. DOMAIN Tail(q) = 1..(Len(q) - 1)
  BY <1>2, LenProperties
<1> DEFINE T == S \cup {c}
           p == <<c>>
           r == Tail(q)
<1>4. p \in Seq(T) /\ Len(p) = 1 /\ p[1] = c
  OBVIOUS
<1>5. r \in Seq(T) /\ Len(r) = Len(q) - 1 /\ \A i \in 1..(Len(q) - 1) : r[i] = q[i + 1]
  BY <1>2, SeqMonotonic
<1>6. Head(q) = q[1]
  BY <1>1
<1> HIDE DEF T, p, r
<1>7. /\ p \o r \in Seq(T) /\ Len(p \o r) = Len(p) + Len(r)
      /\ \A i \in 1..(Len(p) + Len(r)) : (p \o r)[i] = IF i <= Len(p) THEN p[i] ELSE r[i - Len(p)]
  <2>1. p \in Seq(T) /\ r \in Seq(T)
    BY <1>4, <1>5
  <2> QED
    BY <2>1, ConcatProperties, Zenon
<1>8. DOMAIN (p \o r) = 1..Len(q)
  <2>1. Len(p \o r) = Len(q)
    BY <1>2, <1>4, <1>5, <1>7
  <2>2. DOMAIN (p \o r) = 1..Len(p \o r)
    BY <1>7, LenProperties
  <2> QED
    BY <2>1, <2>2
<1>9. (p \o r)[1] = c
  BY <1>2, <1>4, <1>5, <1>7
<1>10. \A i \in 2..Len(q) : (p \o r)[i] = q[i]
  BY <1>2, <1>4, <1>5, <1>7
<1> QED
  BY <1>2, <1>3, <1>6, <1>8, <1>9, <1>10 DEF p, r

\* The documents a report names.
LEMMA ReportedDocuments ==
  ASSUME NEW q, Fits(q), q # <<>>, NEW i \in DOMAIN q, q[i].do = "report"
  PROVE  q[i].docs \subseteq Documents
BY RestFits DEF CallFits

\* Once a call is made that leaves nothing to do for what it books, a report is as
\* right as before.
LEMMA ReportsTail ==
  ASSUME NEW q, Fits(q), q # <<>>, NEW done, NEW more, ReportsFit(q, done), done \subseteq more,
         \A d \in Documents : Repair(q) /\ Books(Head(q), d) => d \in more
  PROVE  /\ ReportsFit(Tail(q), more)
         /\ Repair(Tail(q)) => Repair(q)
<1>1. /\ Len(q) \in Nat \ {0} /\ DOMAIN q = 1..Len(q) /\ Head(q) = q[1]
      /\ DOMAIN Tail(q) = 1..(Len(q) - 1)
      /\ \A i \in 1..(Len(q) - 1) : Tail(q)[i] = q[i + 1]
  BY ListShifted
<1>2. Repair(Tail(q)) => Repair(q)
  BY <1>1 DEF Repair
<1>3. ASSUME NEW i \in DOMAIN Tail(q), Tail(q)[i].do = "report", NEW d \in Tail(q)[i].docs,
             d \notin more
      PROVE  \E j \in 1..(i - 1) : Books(Tail(q)[j], d)
  <2>1. i + 1 \in DOMAIN q /\ q[i + 1].do = "report" /\ d \in q[i + 1].docs
    BY <1>1, <1>3
  <2>2. Repair(q) /\ d \in Documents
    BY <2>1, ReportedDocuments DEF Repair
  <2>3. PICK j \in 1..i : Books(q[j], d)
    BY <1>1, <1>3, <2>1 DEF ReportsFit
  <2>4. j # 1
    BY <1>1, <1>3, <2>2, <2>3
  <2>5. j - 1 \in 1..(i - 1) /\ Tail(q)[j - 1] = q[j]
    BY <1>1, <1>3, <2>3, <2>4
  <2> QED
    BY <2>3, <2>5
<1> QED
  BY <1>2, <1>3 DEF ReportsFit

\* And once it is followed by one that books what it would have.
LEMMA ReportsCons ==
  ASSUME NEW q, Fits(q), q # <<>>, NEW done, NEW more, ReportsFit(q, done), done \subseteq more,
         NEW c, c.do \notin {"outstanding", "report"},
         \A d \in Documents : Repair(q) /\ Books(Head(q), d) => d \in more \/ Books(c, d)
  PROVE  /\ ReportsFit(<<c>> \o Tail(q), more)
         /\ Repair(<<c>> \o Tail(q)) => Repair(q)
<1> DEFINE p == <<c>> \o Tail(q)
<1>1. /\ Len(q) \in Nat \ {0} /\ DOMAIN q = 1..Len(q) /\ Head(q) = q[1]
      /\ DOMAIN p = 1..Len(q) /\ p[1] = c
      /\ \A i \in 2..Len(q) : p[i] = q[i]
  BY ListShifted
<1> HIDE DEF p
<1>2. Repair(p) => Repair(q)
  BY <1>1 DEF Repair
<1>3. ASSUME NEW i \in DOMAIN p, p[i].do = "report", NEW d \in p[i].docs, d \notin more
      PROVE  \E j \in 1..(i - 1) : Books(p[j], d)
  <2>1. i \in 2..Len(q) /\ q[i].do = "report" /\ d \in q[i].docs
    BY <1>1, <1>3
  <2>2. Repair(q) /\ d \in Documents
    BY <1>1, <2>1, ReportedDocuments DEF Repair
  <2>3. PICK j \in 1..(i - 1) : Books(q[j], d)
    BY <1>1, <1>3, <2>1 DEF ReportsFit
  <2>4. CASE j = 1
    BY <1>1, <1>3, <2>1, <2>2, <2>3, <2>4
  <2>5. CASE j # 1
    <3>1. p[j] = q[j]
      BY <1>1, <2>1, <2>3, <2>5
    <3> QED
      BY <2>3, <3>1
  <2> QED
    BY <2>4, <2>5
<1>4. ReportsFit(p, more) /\ (Repair(p) => Repair(q))
  BY <1>2, <1>3 DEF ReportsFit
<1> QED
  BY <1>4 DEF p

\* A list that reports nothing.
LEMMA NothingReported ==
  ASSUME NEW q, \A i \in DOMAIN q : q[i].do \notin {"outstanding", "report"}, NEW done
  PROVE  ReportsFit(q, done) /\ ~Repair(q)
BY DEF ReportsFit, Repair

\* Calls that book d do so in a longer list.
LEMMA BookedIn ==
  ASSUME NEW p, NEW q, Ordinary(p), Ordinary(q), NEW d,
         (\E i \in DOMAIN p : Books(p[i], d)) \/ (\E i \in DOMAIN q : Books(q[i], d))
  PROVE  \E i \in DOMAIN (p \o q) : Books((p \o q)[i], d)
<1>1. PICK P : p \in Seq(P)
  BY Zenon DEF Ordinary
<1>2. PICK Q : q \in Seq(Q)
  BY Zenon DEF Ordinary
<1>3. p \in Seq(P \cup Q) /\ q \in Seq(P \cup Q)
  BY <1>1, <1>2, SeqMonotonic
<1> DEFINE S == P \cup Q
           r == p \o q
<1> HIDE DEF S
<1>4. p \in Seq(S) /\ q \in Seq(S)
  BY <1>3 DEF S
<1>5. /\ r \in Seq(S) /\ Len(r) = Len(p) + Len(q)
      /\ \A i \in 1..(Len(p) + Len(q)) : r[i] = IF i <= Len(p) THEN p[i] ELSE q[i - Len(p)]
  BY <1>4, ConcatProperties
<1> HIDE DEF r
<1>6. /\ DOMAIN p = 1..Len(p) /\ Len(p) \in Nat
      /\ DOMAIN q = 1..Len(q) /\ Len(q) \in Nat
      /\ DOMAIN r = 1..(Len(p) + Len(q))
  BY <1>4, <1>5, LenProperties
<1>7. CASE \E i \in DOMAIN p : Books(p[i], d)
  <2>1. PICK i \in 1..Len(p) : Books(p[i], d)
    BY <1>6, <1>7
  <2>2. i \in DOMAIN r /\ r[i] = p[i]
    BY <1>5, <1>6, <2>1
  <2> QED
    BY <2>1, <2>2 DEF r
<1>8. CASE \E i \in DOMAIN q : Books(q[i], d)
  <2>1. PICK i \in 1..Len(q) : Books(q[i], d)
    BY <1>6, <1>8
  <2>2. i + Len(p) \in DOMAIN r /\ r[i + Len(p)] = q[i]
    BY <1>5, <1>6, <2>1
  <2> QED
    BY <2>1, <2>2 DEF r
<1> QED
  BY <1>7, <1>8

\* Every document there is to plan for is planned for.
LEMMA PlansBook ==
  ASSUME NEW docs \in SUBSET Documents, NEW what, NEW d \in docs, Books(Plan(d, what), d)
  PROVE  \E i \in DOMAIN Plans(docs, what) : Books(Plans(docs, what)[i], d)
<1> DEFINE q == SetToSeq(docs)
           n == Cardinality(docs)
<1>1. IsFiniteSet(docs) /\ n \in Nat /\ ExistsBijection(1..n, docs)
  BY StartAssumption, FS_Subset, FS_CardinalityType
<1>2. q \in [1..n -> docs] /\ IsInjective(q)
  <2>1. PICK f \in [1..n -> docs] : IsInjective(f)
    BY <1>1, Zenon DEF ExistsBijection, Bijection, Injection, Surjection, IsInjective
  <2> QED
    BY <2>1, Zenon DEF SetToSeq
<1> HIDE DEF q
<1>3. q \in Injection(1..n, docs)
  BY <1>2 DEF Injection, IsInjective
<1>4. IsFiniteSet(1..n) /\ Cardinality(1..n) = n
  BY <1>1, FS_Interval
<1>5. q \in Surjection(1..n, docs)
  BY <1>1, <1>3, <1>4, FS_Injection
<1>6. PICK i \in 1..n : q[i] = d
  BY <1>5 DEF Surjection
<1>7. DOMAIN q = 1..n
  BY <1>2
<1>8. Plans(docs, what) = [j \in DOMAIN q |-> Plan(q[j], what)]
  BY Zenon DEF Plans, q
<1>9. i \in DOMAIN Plans(docs, what) /\ Plans(docs, what)[i] = Plan(d, what)
  BY <1>6, <1>7, <1>8
<1> QED
  BY <1>9

\* A document that stands without an entry is booked by the repair, whatever its
\* kind.
LEMMA RepairsBook ==
  ASSUME NEW d \in Documents, EntriesOf(d) = {}, Kind[d] # "movement",
         \/ status[d] = "issued"
         \/ status[d] = "reimbursed" /\ Kind[d] = "expense"
  PROVE  \E i \in DOMAIN Repairs : Books(Repairs[i], d)
<1> DEFINE In(q) == \E i \in DOMAIN q : Books(q[i], d)
           a == Plans(Unposted("invoice"), "issued")
           b == Plans(Unposted("receipt"), "issued")
           c == Plans(Unposted("purchaseReturn"), "issued")
           e == Plans(Unposted("creditNote"), "repaired")
           f == Plans(UnpostedExpenses({"issued", "reimbursed"}, "expense"), "issued")
           g == Plans(Unposted("payment"), "issued")
           h == Plans(Unposted("vendorPayment"), "issued")
           k == Plans(UnpostedExpenses({"reimbursed"}, "reimbursement"), "reimbursed")
<1>1. /\ \A kind : Unposted(kind) \in SUBSET Documents
      /\ \A statuses, leg : UnpostedExpenses(statuses, leg) \in SUBSET Documents
  BY DEF Unposted, UnpostedExpenses
<1>2. /\ Ordinary(a) /\ Ordinary(b) /\ Ordinary(c) /\ Ordinary(e)
      /\ Ordinary(f) /\ Ordinary(g) /\ Ordinary(h) /\ Ordinary(k)
  BY <1>1, PlansFit, Zenon
<1>3. /\ Books(Plan(d, "issued"), d)
      /\ Kind[d] = "creditNote" => Books(Plan(d, "repaired"), d)
  BY DEF Books, Plan
<1>4. \A kind : Kind[d] = kind /\ status[d] = "issued" => d \in Unposted(kind)
  BY DEF Unposted
<1>5. Kind[d] = "expense" => d \in UnpostedExpenses({"issued", "reimbursed"}, "expense")
  BY DEF UnpostedExpenses
<1>6. Kind[d] \in Kinds \ {"movement"}
  BY DocumentsAssumption
<1>7. In(a) \/ In(b) \/ In(c) \/ In(e) \/ In(f) \/ In(g) \/ In(h)
  <2>1. CASE Kind[d] = "invoice"
    BY <1>1, <1>3, <1>4, <2>1, PlansBook
  <2>2. CASE Kind[d] = "receipt"
    BY <1>1, <1>3, <1>4, <2>2, PlansBook
  <2>3. CASE Kind[d] = "purchaseReturn"
    BY <1>1, <1>3, <1>4, <2>3, PlansBook
  <2>4. CASE Kind[d] = "creditNote"
    BY <1>1, <1>3, <1>4, <2>4, PlansBook
  <2>5. CASE Kind[d] = "expense"
    BY <1>1, <1>3, <1>5, <2>5, PlansBook
  <2>6. CASE Kind[d] = "payment"
    BY <1>1, <1>3, <1>4, <2>6, PlansBook
  <2>7. CASE Kind[d] = "vendorPayment"
    BY <1>1, <1>3, <1>4, <2>7, PlansBook
  <2> QED
    BY <1>6, <2>1, <2>2, <2>3, <2>4, <2>5, <2>6, <2>7 DEF Kinds
<1>8. Repairs = a \o b \o c \o e \o f \o g \o h \o k
  BY Zenon DEF Repairs
<1> HIDE DEF a, b, c, e, f, g, h, k, In
<1>9. \A p, q : Ordinary(p) /\ Ordinary(q) /\ (In(p) \/ In(q)) => In(p \o q)
  BY BookedIn DEF In
<1>10. In(a \o b \o c \o e \o f \o g \o h \o k)
  <2>1. Ordinary(a \o b) /\ (In(a) \/ In(b) => In(a \o b))
    BY <1>2, <1>9, OrdinaryLists, Zenon
  <2>2. Ordinary(a \o b \o c) /\ (In(a \o b) \/ In(c) => In(a \o b \o c))
    BY <1>2, <1>9, <2>1, OrdinaryLists, Zenon
  <2>3. Ordinary(a \o b \o c \o e) /\ (In(a \o b \o c) \/ In(e) => In(a \o b \o c \o e))
    BY <1>2, <1>9, <2>2, OrdinaryLists, Zenon
  <2>4. Ordinary(a \o b \o c \o e \o f)
        /\ (In(a \o b \o c \o e) \/ In(f) => In(a \o b \o c \o e \o f))
    BY <1>2, <1>9, <2>3, OrdinaryLists, Zenon
  <2>5. Ordinary(a \o b \o c \o e \o f \o g)
        /\ (In(a \o b \o c \o e \o f) \/ In(g) => In(a \o b \o c \o e \o f \o g))
    BY <1>2, <1>9, <2>4, OrdinaryLists, Zenon
  <2>6. Ordinary(a \o b \o c \o e \o f \o g \o h)
        /\ (In(a \o b \o c \o e \o f \o g) \/ In(h) => In(a \o b \o c \o e \o f \o g \o h))
    BY <1>2, <1>9, <2>5, OrdinaryLists, Zenon
  <2>7. In(a \o b \o c \o e \o f \o g \o h) => In(a \o b \o c \o e \o f \o g \o h \o k)
    BY <1>2, <1>9, <2>6, Zenon
  <2> QED
    BY <1>7, <2>1, <2>2, <2>3, <2>4, <2>5, <2>6, <2>7, Zenon
<1> QED
  BY <1>8, <1>10 DEF In

\* A row that a mapping leaves complete posts an entry of the document's own.
LEMMA PlanPosts ==
  ASSUME NEW c, CallFits(c), c.do = "plan", NEW d \in Documents, Books(c, d),
         WorthEntries(d), NEW m \in PostingAccounts, Complete(m)
  PROVE  \E r \in PlannedRows(c, m) : r.key.doc = d /\ r.key.leg \notin MovementWays
<1>1. /\ c.doc = d
      /\ c.what = "issued" \/ (c.what = "repaired" /\ Kind[d] = "creditNote")
  BY DEF Books
<1> DEFINE legs == Legs(d, c.what, Perpetual(m))
<1>2. Perpetual(m) \in BOOLEAN
  BY DEF Perpetual
<1>3. PICK l \in legs : l.amount # 0 /\ l.name \notin MovementWays
  <2>1. CASE c.what = "issued"
    <3>1. legs = DocumentLegs(d, Perpetual(m))
      BY <2>1 DEF Legs, MovementWays
    <3> QED
      BY <1>2, <3>1, WorthLegs
  <2>2. CASE c.what = "repaired" /\ Kind[d] = "creditNote"
    <3>1. legs = CreditNoteLegs(d, 0, Perpetual(m))
      BY <2>2 DEF Legs, MovementWays
    <3> QED
      BY <1>2, <2>2, <3>1, WorthLegs
  <2> QED
    BY <1>1, <2>1, <2>2
<1>4. PlannedRows(c, m) = Rows(d, legs, c.nth, m)
  BY <1>1 DEF PlannedRows
<1> HIDE DEF legs
<1> DEFINE r == [key |-> Key(d, l.name, c.nth, FALSE), debit |-> m[l.debit],
                 credit |-> m[l.credit], amount |-> l.amount]
<1>5. r \in Rows(d, legs, c.nth, m)
  BY <1>3 DEF Rows
<1>6. r.key.doc = d /\ r.key.leg = l.name
  BY DEF Key
<1> QED
  BY <1>3, <1>4, <1>5, <1>6

\* What is accounted for stays so: entries are not taken back.
LEMMA AccountedStays ==
  ASSUME posted \subseteq posted', switchedOff => switchedOff'
  PROVE  Accounted \subseteq Accounted'
BY DEF Accounted, EntriesOf

\* A report stays right when more is accounted for.
LEMMA ReportsMore ==
  ASSUME NEW q, NEW done, NEW more, ReportsFit(q, done), done \subseteq more
  PROVE  ReportsFit(q, more)
BY DEF ReportsFit

\* A handler that goes on with calls that report rightly leaves the other
\* handlers' reports right.
LEMMA RepairGoesOn ==
  ASSUME BooksTyped, RepairInTurn, NEW s \in Slots, NEW q,
         slot' = [slot EXCEPT ![s] = q], posted \subseteq posted',
         switchedOff' = switchedOff, mapping' = mapping,
         ReportsFit(q, Accounted'), Repair(q) => switchedOff \/ Complete(mapping)
  PROVE  RepairInTurn'
<1>1. slot'[s] = q /\ \A t \in Slots \ {s} : slot'[t] = slot[t]
  BY DEF BooksTyped
<1>2. Accounted \subseteq Accounted'
  BY AccountedStays
<1>3. ASSUME NEW t \in Slots
      PROVE  /\ ReportsFit(slot'[t], Accounted')
             /\ Repair(slot'[t]) => switchedOff' \/ Complete(mapping')
  <2>1. CASE t = s
    BY <1>1, <2>1
  <2>2. CASE t # s
    <3>1. slot'[t] = slot[t]
      BY <1>1, <2>2
    <3>2. ReportsFit(slot[t], Accounted)
      BY DEF RepairInTurn
    <3>3. ReportsFit(slot[t], Accounted')
      BY <1>2, <3>2, ReportsMore
    <3>4. Repair(slot[t]) => switchedOff \/ Complete(mapping)
      BY DEF RepairInTurn
    <3> QED
      BY <3>1, <3>3, <3>4
  <2> QED
    BY <2>1, <2>2
<1> QED
  BY <1>3 DEF RepairInTurn

\* A handler that has made a call goes on with the rest.
LEMMA RepairContinues ==
  ASSUME LedgerInv, RepairInTurn, NEW s \in Slots, slot[s] # Idle,
         slot' = [slot EXCEPT ![s] = Tail(slot[s])], posted \subseteq posted',
         switchedOff' = switchedOff, mapping' = mapping,
         \A d \in Documents : Repair(slot[s]) /\ Books(Call(s), d) => d \in Accounted'
  PROVE  RepairInTurn'
<1> DEFINE q == slot[s]
<1>1. Fits(q) /\ q # <<>> /\ ReportsFit(q, Accounted)
  BY DEF LedgerInv, BooksTyped, RepairInTurn, Idle
<1>2. Accounted \subseteq Accounted'
  BY AccountedStays
<1>3. \A d \in Documents : Repair(q) /\ Books(Head(q), d) => d \in Accounted'
  BY DEF Call
<1>4. ReportsFit(Tail(q), Accounted') /\ (Repair(Tail(q)) => Repair(q))
  BY <1>1, <1>2, <1>3, ReportsTail
<1>5. Repair(q) => switchedOff \/ Complete(mapping)
  BY DEF RepairInTurn
<1> QED
  BY <1>4, <1>5, RepairGoesOn DEF LedgerInv

\* Or with a call that books what this one would have.
LEMMA RepairFollows ==
  ASSUME LedgerInv, RepairInTurn, NEW s \in Slots, slot[s] # Idle, NEW c,
         slot' = [slot EXCEPT ![s] = <<c>> \o Tail(slot[s])], posted \subseteq posted',
         switchedOff' = switchedOff, mapping' = mapping,
         c.do \notin {"outstanding", "report"},
         \A d \in Documents :
           Repair(slot[s]) /\ Books(Call(s), d) => d \in Accounted' \/ Books(c, d)
  PROVE  RepairInTurn'
<1> DEFINE q == slot[s]
<1>1. Fits(q) /\ q # <<>> /\ ReportsFit(q, Accounted)
  BY DEF LedgerInv, BooksTyped, RepairInTurn, Idle
<1>2. Accounted \subseteq Accounted'
  BY AccountedStays
<1>3. \A d \in Documents : Repair(q) /\ Books(Head(q), d) => d \in Accounted' \/ Books(c, d)
  BY DEF Call
<1>4. ReportsFit(<<c>> \o Tail(q), Accounted') /\ (Repair(<<c>> \o Tail(q)) => Repair(q))
  BY <1>1, <1>2, <1>3, ReportsCons
<1>5. Repair(q) => switchedOff \/ Complete(mapping)
  BY DEF RepairInTurn
<1> QED
  BY <1>4, <1>5, RepairGoesOn DEF LedgerInv

\* A handler that reports nothing, because it begins or has been dropped.
LEMMA SilentGoesOn ==
  ASSUME LedgerInv, RepairInTurn, NEW s \in Slots, NEW q,
         \A i \in DOMAIN q : q[i].do \notin {"outstanding", "report"},
         slot' = [slot EXCEPT ![s] = q], posted' = posted,
         switchedOff' = switchedOff, mapping' = mapping
  PROVE  RepairInTurn'
<1>1. ReportsFit(q, Accounted') /\ ~Repair(q)
  BY NothingReported
<1> QED
  BY <1>1, RepairGoesOn DEF LedgerInv

\* Lists of a few calls that report nothing.
LEMMA FewReportNothing ==
  ASSUME NEW a, a.do \notin {"outstanding", "report"},
         NEW b, b.do \notin {"outstanding", "report"},
         NEW c, c.do \notin {"outstanding", "report"}
  PROVE  /\ \A i \in DOMAIN <<>> : <<>>[i].do \notin {"outstanding", "report"}
         /\ \A i \in DOMAIN <<a>> : <<a>>[i].do \notin {"outstanding", "report"}
         /\ \A i \in DOMAIN <<a, b>> : <<a, b>>[i].do \notin {"outstanding", "report"}
         /\ \A i \in DOMAIN <<a, b, c>> : <<a, b, c>>[i].do \notin {"outstanding", "report"}
OBVIOUS

\* A request that is not for the repair keeps the reports right.
LEMMA SilentBegins ==
  ASSUME LedgerInv, RepairInTurn, NEW s \in Slots, NEW q, Begin(s, q),
         \A i \in DOMAIN q : q[i].do \notin {"outstanding", "report"}
  PROVE  RepairInTurn'
<1>1. /\ slot' = [slot EXCEPT ![s] = q] /\ posted' = posted
      /\ switchedOff' = switchedOff /\ mapping' = mapping
  BY DEF Begin, ledgerVars
<1> QED
  BY <1>1, SilentGoesOn

\* Nor does asking for it: a report is only right once what is outstanding was
\* read, but posting has to be on.
LEMMA RequestsRepair ==
  ASSUME LedgerInv, RepairInTurn, NEW s \in Slots, Request(s)
  PROVE  RepairInTurn'
<1> DEFINE Silent(c) == c.do \notin {"outstanding", "report"}
<1>1. ASSUME NEW d
      PROVE  /\ \A st : Silent(Write(d, st))
             /\ \A way : Silent(RecordMove(d, way)) /\ Silent(ApplyMove(d, way))
             /\ \A what : Silent(Plan(d, what))
  BY DEF Write, RecordMove, ApplyMove, Plan
<1>2. /\ \A a : Silent(a) /\ Begin(s, <<a>>) => RepairInTurn'
      /\ \A a, b : Silent(a) /\ Silent(b) /\ Begin(s, <<a, b>>) => RepairInTurn'
      /\ \A a, b, c : Silent(a) /\ Silent(b) /\ Silent(c) /\ Begin(s, <<a, b, c>>)
                        => RepairInTurn'
  <2>1. ASSUME NEW a, Silent(a), Begin(s, <<a>>) PROVE RepairInTurn'
    BY <2>1, FewReportNothing, SilentBegins
  <2>2. ASSUME NEW a, NEW b, Silent(a), Silent(b), Begin(s, <<a, b>>) PROVE RepairInTurn'
    BY <2>2, FewReportNothing, SilentBegins
  <2>3. ASSUME NEW a, NEW b, NEW c, Silent(a), Silent(b), Silent(c), Begin(s, <<a, b, c>>)
        PROVE  RepairInTurn'
    BY <2>3, FewReportNothing, SilentBegins
  <2> QED
    BY <2>1, <2>2, <2>3, Zenon
<1> HIDE DEF Silent
<1>3. ASSUME NEW d \in Documents,
             \/ SendInvoice(s, d) \/ CancelInvoice(s, d)
             \/ RecordPayment(s, d) \/ DeletePayment(s, d)
             \/ CreditCustomer(s, d)
             \/ ReceiveGoods(s, d) \/ ReturnGoods(s, d)
             \/ ApproveExpenses(s, d) \/ ReimburseExpenses(s, d)
             \/ \E way \in MovementWays : MoveByHand(s, d, way)
      PROVE  RepairInTurn'
  BY <1>1, <1>2, <1>3, Zenon
     DEF SendInvoice, CancelInvoice, RecordPayment, DeletePayment, CreditCustomer,
         ReceiveGoods, ReturnGoods, ApproveExpenses, ReimburseExpenses, MoveByHand
<1>4. ASSUME NEW h \in HandEntries,
             DeleteEntry(s, h) \/ \E e \in HandRows : WriteEntry(s, h, e)
      PROVE  RepairInTurn'
  <2>1. ASSUME NEW e
        PROVE  /\ Silent([do |-> "insert", id |-> h, row |-> e, debits |-> debitNormal])
               /\ Silent([do |-> "remove", id |-> h, row |-> e, debits |-> debitNormal])
    BY DEF Silent
  <2> QED
    BY <1>2, <1>4, <2>1, Zenon DEF DeleteEntry, WriteEntry
<1>5. ASSUME BeginRecalculation(s) PROVE RepairInTurn'
  <2>1. Silent([do |-> "recalculate", rebuilt |-> Rebuilt(debitNormal),
                of |-> <<posted, written, debitNormal>>])
    BY DEF Silent
  <2> QED
    BY <1>2, <1>5, <2>1, Zenon DEF BeginRecalculation
<1>6. ASSUME PostUnposted(s) PROVE RepairInTurn'
  <2> DEFINE q == <<[do |-> "outstanding"]>>
  <2>1. Complete(mapping) /\ Begin(s, q)
    BY <1>6 DEF PostUnposted
  <2>2. /\ slot' = [slot EXCEPT ![s] = q] /\ posted' = posted
        /\ switchedOff' = switchedOff /\ mapping' = mapping
    BY <2>1 DEF Begin, ledgerVars
  <2>3. ReportsFit(q, Accounted')
    <3>1. \A i \in DOMAIN q : q[i].do = "outstanding"
      OBVIOUS
    <3> QED
      BY <3>1 DEF ReportsFit
  <2> HIDE DEF q
  <2> QED
    BY <2>1, <2>2, <2>3, RepairGoesOn DEF LedgerInv
<1> QED
  BY <1>3, <1>4, <1>5, <1>6, Zenon DEF Request

\* A call that books no document of its own leaves a report as right as it was.
LEMMA OtherCallsRepair ==
  ASSUME LedgerInv, RepairInTurn, NEW s \in Slots,
         \/ WriteDocument(s) \/ MoveStock(s) \/ RefuseMove(s) \/ Report(s)
         \/ InsertEntry(s) \/ RemoveEntry(s) \/ WriteRecalculation(s) \/ Abandon(s)
  PROVE  RepairInTurn'
<1>1. posted' = posted /\ switchedOff' = switchedOff /\ mapping' = mapping
  BY DEF WriteDocument, MoveStock, RefuseMove, Report, InsertEntry, RemoveEntry,
         WriteRecalculation, Abandon, WriteByHand, RemoveByHand, Recalculate,
         ledgerVars, historyVars
<1>2. slot[s] # Idle
  BY DEF WriteDocument, MoveStock, RefuseMove, Report, InsertEntry, RemoveEntry,
         WriteRecalculation, Abandon, Moving, At
<1>3. CASE RefuseMove(s) \/ Abandon(s)
  <2>1. slot' = [slot EXCEPT ![s] = Idle]
    BY <1>3 DEF RefuseMove, Abandon
  <2>2. \A i \in DOMAIN Idle : Idle[i].do \notin {"outstanding", "report"}
    BY DEF Idle
  <2> QED
    BY <1>1, <2>1, <2>2, SilentGoesOn
<1>4. CASE WriteDocument(s) \/ Report(s) \/ InsertEntry(s) \/ RemoveEntry(s)
             \/ WriteRecalculation(s)
  <2>1. slot' = [slot EXCEPT ![s] = Tail(slot[s])]
    BY <1>4 DEF WriteDocument, Report, InsertEntry, RemoveEntry, WriteRecalculation, Continue
  <2>2. Call(s).do \in {"write", "report", "insert", "remove", "recalculate"}
    BY <1>4 DEF WriteDocument, Report, InsertEntry, RemoveEntry, WriteRecalculation, At, Call
  <2>3. \A d : ~Books(Call(s), d)
    BY <2>2 DEF Books
  <2> QED
    BY <1>1, <1>2, <2>1, <2>3, RepairContinues
<1>5. CASE MoveStock(s)
  <2>1. Call(s).do \in {"record", "apply"}
    BY <1>5 DEF MoveStock, Moving, At, Call
  <2>2. \A d : ~Books(Call(s), d)
    BY <2>1 DEF Books
  <2> DEFINE c == PostMove(Call(s).doc, Call(s).way, movements[Call(s).doc] + 1)
  <2>3. slot' = [slot EXCEPT ![s] = IF At(s, "record") THEN <<c>> \o Tail(slot[s])
                                                      ELSE Tail(slot[s])]
    BY <1>5 DEF MoveStock
  <2>4. c.do = "plan"
    BY DEF PostMove
  <2> HIDE DEF c
  <2>5. CASE At(s, "record")
    BY <1>1, <1>2, <2>2, <2>3, <2>4, <2>5, RepairFollows
  <2>6. CASE ~At(s, "record")
    BY <1>1, <1>2, <2>2, <2>3, <2>6, RepairContinues
  <2> QED
    BY <2>5, <2>6
<1> QED
  BY <1>3, <1>4, <1>5

\* Planning leaves what it is to book to the commit that follows, for posting is
\* on as long as it was never switched off.
LEMMA PlanningRepairs ==
  ASSUME LedgerInv, RepairInTurn, NEW s \in Slots, PlanPosting(s)
  PROVE  RepairInTurn'
<1> DEFINE c == Call(s)
           rows == IF Complete(mapping) THEN PlannedRows(c, mapping) ELSE {}
           commit == Commit(c.doc, c.what, rows, debitNormal)
<1>1. slot[s] # Idle /\ c.do = "plan"
  BY DEF PlanPosting, At, Call
<1>2. posted' = posted /\ switchedOff' = switchedOff /\ mapping' = mapping
  BY DEF PlanPosting, ledgerVars
<1>3. slot' = [slot EXCEPT ![s] = IF rows = {} THEN Tail(slot[s]) ELSE <<commit>> \o Tail(slot[s])]
  BY Zenon DEF PlanPosting
<1>4. CallFits(c) /\ mapping \in PostingAccounts
  BY <1>1, CallAndRest, MappingsAssumption DEF LedgerInv, BooksTyped
<1>5. Repair(slot[s]) => switchedOff \/ Complete(mapping)
  BY DEF RepairInTurn
<1>6. ASSUME NEW d \in Documents, Repair(slot[s]), Books(c, d), d \notin Accounted'
      PROVE  \E r \in rows : r.key.doc = d /\ r.key.leg \notin MovementWays
  <2>1. ~switchedOff /\ WorthEntries(d)
    BY <1>2, <1>6 DEF Accounted
  <2>2. Complete(mapping)
    BY <1>5, <1>6, <2>1
  <2>3. \E r \in PlannedRows(c, mapping) : r.key.doc = d /\ r.key.leg \notin MovementWays
    BY <1>1, <1>4, <1>6, <2>1, <2>2, PlanPosts
  <2> QED
    BY <2>2, <2>3
<1> HIDE DEF rows
<1>7. CASE rows = {}
  <2>1. slot' = [slot EXCEPT ![s] = Tail(slot[s])]
    BY <1>3, <1>7
  <2>2. \A d \in Documents : Repair(slot[s]) /\ Books(Call(s), d) => d \in Accounted'
    BY <1>6, <1>7
  <2> QED
    BY <1>1, <1>2, <2>1, <2>2, RepairContinues
<1>8. CASE rows # {}
  <2>1. slot' = [slot EXCEPT ![s] = <<commit>> \o Tail(slot[s])]
    BY <1>3, <1>8
  <2>2. commit.do = "commit" /\ commit.rows = rows
    BY DEF Commit
  <2> HIDE DEF commit
  <2>3. \A d \in Documents :
          Repair(slot[s]) /\ Books(Call(s), d) => d \in Accounted' \/ Books(commit, d)
    BY <1>6, <2>2 DEF Books
  <2> QED
    BY <1>1, <1>2, <2>1, <2>2, <2>3, RepairFollows
<1> QED
  BY <1>7, <1>8

\* A row that is not written finds its key on the books, so the document has an
\* entry either way.
LEMMA CommittingRepairs ==
  ASSUME LedgerInv, RepairInTurn, NEW s \in Slots, CommitPosting(s)
  PROVE  RepairInTurn'
<1> DEFINE c == Call(s)
           known == {p.key : p \in posted}
           fresh == {r \in c.rows : r.key \notin known}
<1>1. slot[s] # Idle /\ c.do = "commit"
  BY DEF CommitPosting, At, Call
<1>2. /\ posted' = posted \cup fresh
      /\ slot' = [slot EXCEPT ![s] = Tail(slot[s])]
      /\ switchedOff' = switchedOff /\ mapping' = mapping
  BY DEF CommitPosting, Post, Continue
<1>3. ASSUME NEW d \in Documents, Books(c, d) PROVE d \in Accounted'
  <2>1. PICK r \in c.rows : r.key.doc = d /\ r.key.leg \notin MovementWays
    BY <1>1, <1>3 DEF Books
  <2>2. \E p \in posted' : p.key = r.key
    BY <1>2, <2>1
  <2>3. EntriesOf(d)' # {}
    BY <2>1, <2>2 DEF EntriesOf
  <2> QED
    BY <2>3 DEF Accounted
<1>4. posted \subseteq posted'
  BY <1>2
<1> QED
  BY <1>1, <1>2, <1>3, <1>4, RepairContinues

\* What the repair makes of a query is a list of plans.
LEMMA PlansListed ==
  ASSUME NEW docs \in SUBSET Documents, NEW what, NEW S,
         \A d \in docs : Plan(d, what) \in S
  PROVE  Plans(docs, what) \in Seq(S)
<1> DEFINE q == SetToSeq(docs)
           n == Cardinality(docs)
           list == [i \in DOMAIN q |-> Plan(q[i], what)]
<1>1. q \in [1..n -> docs] /\ n \in Nat
  <2>1. IsFiniteSet(docs)
    BY StartAssumption, FS_Subset
  <2>2. n \in Nat /\ ExistsBijection(1..n, docs)
    BY <2>1, FS_CardinalityType
  <2>3. PICK f \in [1..n -> docs] : IsInjective(f)
    BY <2>2, Zenon DEF ExistsBijection, Bijection, Injection, Surjection, IsInjective
  <2> QED
    BY <2>2, <2>3, Zenon DEF SetToSeq
<1> HIDE DEF q, n
<1>2. list \in [1..n -> S]
  BY <1>1
<1>3. Seq(S) = UNION {[1..k -> S] : k \in Nat}
  BY SeqDef, Zenon
<1> HIDE DEF list
<1>4. list \in Seq(S)
  BY <1>1, <1>2, <1>3
<1> QED
  BY <1>4, Zenon DEF Plans, list, q

\* Reading what is outstanding puts a call before the report for every document
\* it names.
LEMMA ReadingRepairs ==
  ASSUME LedgerInv, RepairInTurn, NEW s \in Slots, ReadOutstanding(s)
  PROVE  RepairInTurn'
<1> DEFINE standing == {d \in Documents : /\ status[d] \in {"issued", "reimbursed"}
                                          /\ EntriesOf(d) = {}
                                          /\ \A t \in Slots : d \notin Touched(slot[t])}
           report == [do |-> "report", docs |-> standing]
           S == {Plan(d, what) : d \in Documents, what \in {"issued", "repaired", "reimbursed"}}
           q == Append(Repairs, report)
           n == Len(Repairs)
<1>1. /\ slot[s] # Idle /\ Head(slot[s]).do = "outstanding"
      /\ slot' = [slot EXCEPT ![s] = q] /\ posted' = posted
      /\ switchedOff' = switchedOff /\ mapping' = mapping
  BY Zenon DEF ReadOutstanding, At, ledgerVars, historyVars
<1>2. Repair(slot[s])
  <2>1. Fits(slot[s]) /\ slot[s] # <<>>
    BY <1>1 DEF LedgerInv, BooksTyped, Idle
  <2>2. /\ Len(slot[s]) \in Nat \ {0} /\ DOMAIN slot[s] = 1..Len(slot[s])
        /\ Head(slot[s]) = slot[s][1]
    BY <2>1, ListShifted, Zenon
  <2>3. 1 \in DOMAIN slot[s]
    BY <2>2
  <2> QED
    BY <1>1, <2>2, <2>3 DEF Repair
<1>3. switchedOff \/ Complete(mapping)
  BY <1>2 DEF RepairInTurn
<1>4. Repairs \in Seq(S)
  <2>1. ASSUME NEW docs \in SUBSET Documents, NEW what \in {"issued", "repaired", "reimbursed"}
        PROVE  Plans(docs, what) \in Seq(S)
    BY PlansListed
  <2>2. /\ \A kind : Unposted(kind) \in SUBSET Documents
        /\ \A statuses, leg : UnpostedExpenses(statuses, leg) \in SUBSET Documents
    BY DEF Unposted, UnpostedExpenses
  <2>3. /\ \A kind : /\ Plans(Unposted(kind), "issued") \in Seq(S)
                     /\ Plans(Unposted(kind), "repaired") \in Seq(S)
        /\ \A statuses, leg :
             /\ Plans(UnpostedExpenses(statuses, leg), "issued") \in Seq(S)
             /\ Plans(UnpostedExpenses(statuses, leg), "reimbursed") \in Seq(S)
    BY <2>1, <2>2
  <2> HIDE DEF S
  <2>4. \A p, r \in Seq(S) : p \o r \in Seq(S)
    BY ConcatProperties
  <2> QED
    BY <2>3, <2>4, Zenon DEF Repairs
<1>5. \A c \in S : c.do = "plan"
  BY DEF Plan
<1>6. ASSUME NEW d \in standing PROVE \E i \in DOMAIN Repairs : Books(Repairs[i], d)
  <2>1. d \in Documents /\ EntriesOf(d) = {} /\ status[d] \in {"issued", "reimbursed"}
    OBVIOUS
  <2>2. Becomes(d, status[d])
    BY <2>1 DEF LedgerInv, BooksTyped
  <2>3. Kind[d] # "movement" /\ (status[d] = "reimbursed" => Kind[d] = "expense")
    BY <2>2 DEF Becomes
  <2> QED
    BY <2>1, <2>3, RepairsBook
<1>7. report.do = "report" /\ report.docs = standing
  OBVIOUS
<1> HIDE DEF S, report, standing
<1> DEFINE p == Repairs
           T == S \cup {report}
<1>8. p \in Seq(S) /\ n = Len(p) /\ q = Append(p, report)
  BY <1>4
<1> HIDE DEF p, n, q
<1>9. /\ n \in Nat /\ DOMAIN p = 1..n /\ \A i \in 1..n : p[i] \in S
  BY <1>8, LenProperties, ElementOfSeq
<1>10. p \in Seq(T) /\ report \in T
  BY <1>8, SeqMonotonic
<1> HIDE DEF T
<1>11. /\ DOMAIN q = 1..(n + 1) /\ q[n + 1] = report /\ \A i \in 1..n : q[i] = p[i]
  BY <1>8, <1>9, <1>10, AppendProperties, LenProperties
<1>12. ASSUME NEW i \in DOMAIN q, q[i].do = "report", NEW d \in q[i].docs
       PROVE  \E j \in 1..(i - 1) : Books(q[j], d)
  <2>1. i = n + 1
    BY <1>5, <1>9, <1>11, <1>12
  <2>2. d \in standing
    BY <1>7, <1>11, <1>12, <2>1
  <2>3. PICK j \in 1..n : Books(p[j], d)
    BY <1>6, <1>9, <2>2 DEF p
  <2>4. j \in 1..(i - 1) /\ q[j] = p[j]
    BY <1>9, <1>11, <2>1, <2>3
  <2> QED
    BY <2>3, <2>4
<1>13. ReportsFit(q, Accounted')
  BY <1>12 DEF ReportsFit
<1> QED
  BY <1>1, <1>3, <1>13, RepairGoesOn DEF LedgerInv

\* Settings that change may switch posting off, and then nothing is reported.
LEMMA SettingsRepair ==
  ASSUME LedgerInv, RepairInTurn,
         (\E a \in Retypable : RetypeAccount(a)) \/ (\E m \in Mappings : ChooseMapping(m))
  PROVE  RepairInTurn'
<1>1. slot' = slot /\ posted' = posted /\ (switchedOff => switchedOff')
  <2>1. CASE \E a \in Retypable : RetypeAccount(a)
    BY <2>1 DEF RetypeAccount, Retype
  <2>2. CASE \E m \in Mappings : ChooseMapping(m)
    BY <2>2, Zenon DEF ChooseMapping, ledgerVars
  <2> QED
    BY <2>1, <2>2
<1>2. Complete(mapping) => switchedOff' \/ Complete(mapping')
  BY DEF RetypeAccount, ChooseMapping
<1>3. Accounted \subseteq Accounted'
  BY <1>1, AccountedStays
<1>4. ASSUME NEW t \in Slots
      PROVE  /\ ReportsFit(slot[t], Accounted')
             /\ Repair(slot[t]) => switchedOff' \/ Complete(mapping')
  <2>1. ReportsFit(slot[t], Accounted)
    BY DEF RepairInTurn
  <2>2. ReportsFit(slot[t], Accounted')
    BY <1>3, <2>1, ReportsMore
  <2> QED
    BY <1>1, <1>2, <2>2 DEF RepairInTurn
<1> QED
  BY <1>1, <1>4 DEF RepairInTurn

\* Every step keeps the reports right.
LEMMA RepairKept == RepairInv /\ [Next]_vars => RepairInv'
<1> SUFFICES ASSUME LedgerInv, RepairInTurn, [Next]_vars
             PROVE  LedgerInv' /\ RepairInTurn'
  BY DEF RepairInv
<1>1. ASSUME NEW s \in Slots, Request(s) \/ Step(s) \/ Abandon(s) PROVE RepairInTurn'
  BY <1>1, RequestsRepair, OtherCallsRepair, PlanningRepairs, CommittingRepairs,
     ReadingRepairs, Zenon DEF Step
<1>2. ASSUME UNCHANGED vars PROVE RepairInTurn'
  <2>1. slot' = slot /\ posted' = posted /\ switchedOff' = switchedOff /\ mapping' = mapping
    BY <1>2 DEF vars, ledgerVars, historyVars
  <2>2. Accounted' = Accounted
    BY <2>1 DEF Accounted, EntriesOf
  <2> QED
    BY <2>1, <2>2 DEF RepairInTurn
<1> QED
  BY <1>1, <1>2, SettingsRepair, LedgerKept, Zenon DEF Next

\* When post_unposted reports, every document that stood without an entry when it
\* read what was outstanding, that nobody worked on and that is worth an entry,
\* has one, whoever posted it, unless posting was switched off: the queries name
\* every kind that posts, the loops call what books it, and a row that is skipped
\* finds its key on the books.
THEOREM RepairIsComplete == Spec => []RepairLeavesNothingOut
<1>1. Init => RepairInv
  <2> SUFFICES ASSUME Init PROVE RepairInv
    OBVIOUS
  <2>1. LedgerInv
    BY BooksOpen
  <2>2. \A s \in Slots : slot[s] = <<>>
    BY DEF Init, Idle
  <2>3. \A done : ReportsFit(<<>>, done) /\ ~Repair(<<>>)
    BY DEF ReportsFit, Repair
  <2>4. RepairInTurn
    BY <2>2, <2>3, Zenon DEF RepairInTurn
  <2> QED
    BY <2>1, <2>4 DEF RepairInv
<1>2. RepairInv => RepairLeavesNothingOut
  <2> SUFFICES ASSUME RepairInv, NEW s \in Slots, At(s, "report"), ~switchedOff,
                      NEW d \in Call(s).docs, WorthEntries(d)
               PROVE  EntriesOf(d) # {}
    BY DEF RepairLeavesNothingOut
  <2> DEFINE q == slot[s]
  <2>1. Fits(q) /\ q # <<>> /\ ReportsFit(q, Accounted)
    BY DEF RepairInv, LedgerInv, BooksTyped, RepairInTurn, At, Idle
  <2>2. Head(q).do = "report" /\ d \in Head(q).docs
    BY DEF At, Call
  <2> HIDE DEF q
  <2>3. 1 \in DOMAIN q /\ Head(q) = q[1]
    BY <2>1, ListShifted
  <2>4. d \in Accounted \/ \E j \in 1..(1 - 1) : Books(q[j], d)
    BY <2>1, <2>2, <2>3 DEF ReportsFit
  <2>5. d \in Accounted
    BY <2>4
  <2> QED
    BY <2>5 DEF Accounted
<1> QED
  BY <1>1, <1>2, RepairKept, PTL DEF Spec

-----------------------------------------------------------------------------
(* What a document comes to on its control account *)

\* The roles whose accounts carry what is owed.
ControlRoles == {"ar", "accountsPayable", "employeePayable"}

\* The administrator leaves the control accounts alone, and gives none of them
\* another role beside.
ControlsKept ==
  \A m \in Mappings, r \in ControlRoles : Complete(m) =>
    /\ \A q \in Roles : m[q] = m[r] => q = r
    /\ \A n \in Mappings : Complete(n) => n[r] = m[r]

\* Nothing comes to nothing, one row to what it does.
LEMMA TotalOfFew ==
  ASSUME NEW a, NEW debits
  PROVE  /\ Countable({}) /\ Total({}, a, debits) = 0
         /\ \A e : e.amount \in Int =>
              Countable({e}) /\ Total({e}, a, debits) = Effect(e, a, debits)
<1>1. Countable({}) /\ Total({}, a, debits) = 0
  <2> DEFINE w == Effects({}, a, debits)
  <2>1. DOMAIN w = {}
    BY DEF Effects
  <2> HIDE DEF w
  <2>2. SumOf(w, {}) = 0
    BY <2>1, FS_EmptySet, SumSplit
  <2>3. Total({}, a, debits) = SumOf(w, {})
    BY TotalSummed DEF w
  <2> QED
    BY <2>2, <2>3, FS_EmptySet DEF Countable
<1>2. ASSUME NEW e, e.amount \in Int
      PROVE  Countable({e}) /\ Total({e}, a, debits) = Effect(e, a, debits)
  <2> DEFINE S == {e}
             w == Effects(S, a, debits)
  <2>1. IsFiniteSet(S) /\ e \in S /\ S \ {e} = {}
    BY FS_Singleton
  <2>2. S \subseteq DOMAIN w /\ w[e] = Effect(e, a, debits) /\ \A x \in S : w[x] \in Int
    BY <1>2, EffectTyped DEF Effects
  <2>3. Total(S, a, debits) = SumOf(w, S)
    BY TotalSummed
  <2>4. Countable(S)
    BY <1>2, <2>1 DEF Countable
  <2> HIDE DEF w, S
  <2>5. SumOf(w, S) = w[e] + SumOf(w, {})
    BY <2>1, <2>2, SumSplit
  <2>6. SumOf(w, {}) = 0
    BY FS_EmptySet, SumSplit
  <2>7. w[e] \in Int
    BY <2>1, <2>2
  <2> QED
    BY <2>2, <2>3, <2>4, <2>5, <2>6, <2>7 DEF S
<1> QED
  BY <1>1, <1>2

\* The parts of a key.
Keyed(k, d, leg, nth, reversal) ==
  k.doc = d /\ k.leg = leg /\ k.nth = nth /\ k.reversal = reversal

\* Where the key of a row comes from, and that of its mirror.
LEMMA RowKeys ==
  ASSUME NEW d, NEW legs, NEW nth, NEW m
  PROVE  /\ \A r \in Rows(d, legs, nth, m) :
              \E l \in legs : l.amount # 0 /\ Keyed(r.key, d, l.name, nth, FALSE)
         /\ \A r \in Reversed(Rows(d, legs, nth, m)) :
              \E l \in legs : l.amount # 0 /\ Keyed(r.key, d, l.name, nth, TRUE)
<1> DEFINE row(l) == [key |-> Key(d, l.name, nth, FALSE), debit |-> m[l.debit],
                      credit |-> m[l.credit], amount |-> l.amount]
           back(r) == [key |-> [r.key EXCEPT !.reversal = TRUE], debit |-> r.credit,
                       credit |-> r.debit, amount |-> r.amount]
           rows == Rows(d, legs, nth, m)
<1>1. rows = {row(l) : l \in {k \in legs : k.amount # 0}}
  BY Zenon DEF Rows
<1>2. Reversed(rows) = {back(r) : r \in rows}
  BY Zenon DEF Reversed
<1>3. ASSUME NEW l
      PROVE  /\ Keyed(row(l).key, d, l.name, nth, FALSE)
             /\ Keyed(back(row(l)).key, d, l.name, nth, TRUE)
  BY DEF Key, Keyed
<1> HIDE DEF row, back, rows
<1>4. \A r \in rows : \E l \in legs : l.amount # 0 /\ r = row(l)
  BY <1>1
<1>5. \A q \in Reversed(rows) : \E l \in legs : l.amount # 0 /\ q = back(row(l))
  BY <1>2, <1>4, Zenon
<1>6. \A r \in rows : \E l \in legs : l.amount # 0 /\ Keyed(r.key, d, l.name, nth, FALSE)
  BY <1>3, <1>4, Zenon
<1>7. \A q \in Reversed(rows) : \E l \in legs : l.amount # 0 /\ Keyed(q.key, d, l.name, nth, TRUE)
  BY <1>3, <1>5, Zenon
<1> QED
  BY <1>6, <1>7, Zenon DEF rows

\* What legs do to account a of mapping m, and their mirror takes back.
Weighs(d, legs, m, a, w) ==
  LET rows == Rows(d, legs, 0, m) IN
  /\ Countable(rows) /\ Countable(Reversed(rows)) /\ w \in Int
  /\ Total(rows, a, Accounts) = w /\ Total(Reversed(rows), a, Accounts) = -w

\* What a leg has on the account that plays role r, on one side or the other.
Side(l, r) ==
  (IF l.debit = r THEN l.amount ELSE 0) - (IF l.credit = r THEN l.amount ELSE 0)

\* One leg weighs on a what it has on the role that a plays, and no other.
LEMMA OneLegWeighs ==
  ASSUME NEW d, NEW l, l = Leg(l.name, l.debit, l.credit, l.amount), l.amount \in Nat,
         l.debit \in Roles, l.credit \in Roles, NEW m, NEW r \in Roles, m[r] \in Accounts,
         \A q \in Roles : m[q] = m[r] => q = r
  PROVE  Weighs(d, {l}, m, m[r], Side(l, r))
<1> DEFINE row == [key |-> Key(d, l.name, 0, FALSE), debit |-> m[l.debit],
                   credit |-> m[l.credit], amount |-> l.amount]
           back == [key |-> [row.key EXCEPT !.reversal = TRUE], debit |-> row.credit,
                    credit |-> row.debit, amount |-> row.amount]
           a == m[r]
<1>1. Side(l, r) \in Int
  BY DEF Side
<1>2. CASE l.amount = 0
  <2>1. Rows(d, {l}, 0, m) = {} /\ Reversed({}) = {}
    BY <1>2 DEF Rows, Reversed
  <2>2. Side(l, r) = 0
    BY <1>2 DEF Side
  <2>3. Countable({}) /\ Total({}, a, Accounts) = 0
    BY TotalOfFew
  <2> QED
    BY <1>1, <2>1, <2>2, <2>3 DEF Weighs
<1>3. CASE l.amount # 0
  <2>1. Rows(d, {l}, 0, m) = {row}
    BY <1>3 DEF Rows
  <2>2. Reversed({row}) = {back}
    BY DEF Reversed
  <2>3. /\ row.amount = l.amount /\ back.amount = l.amount
        /\ row.debit = m[l.debit] /\ row.credit = m[l.credit]
        /\ back.debit = m[l.credit] /\ back.credit = m[l.debit]
    OBVIOUS
  <2>4. /\ m[l.debit] = a <=> l.debit = r
        /\ m[l.credit] = a <=> l.credit = r
    OBVIOUS
  <2> HIDE DEF row, back
  <2>5. Effect(row, a, Accounts) = Side(l, r) /\ Effect(back, a, Accounts) = -Side(l, r)
    BY <2>3, <2>4 DEF Effect, Side
  <2>6. row.amount \in Int /\ back.amount \in Int
    BY <2>3
  <2>7. /\ Countable({row}) /\ Total({row}, a, Accounts) = Side(l, r)
        /\ Countable({back}) /\ Total({back}, a, Accounts) = -Side(l, r)
    BY <2>5, <2>6, TotalOfFew
  <2> QED
    BY <1>1, <2>1, <2>2, <2>7 DEF Weighs
<1> QED
  BY <1>2, <1>3

\* Legs of other names weigh on it together what they weigh apart.
LEMMA BothWeigh ==
  ASSUME NEW d, NEW legs, NEW more, NEW m, NEW a, NEW w, NEW v,
         Weighs(d, legs, m, a, w), Weighs(d, more, m, a, v),
         \A l \in legs, k \in more : l.name # k.name
  PROVE  Weighs(d, legs \cup more, m, a, w + v)
<1> DEFINE P == Rows(d, legs, 0, m)
           Q == Rows(d, more, 0, m)
           R == Reversed(P)
           T == Reversed(Q)
<1>1. Rows(d, legs \cup more, 0, m) = P \cup Q
  BY DEF Rows
<1>2. /\ \A p \in P : \E l \in legs : p.key.leg = l.name
      /\ \A q \in Q : \E l \in more : q.key.leg = l.name
      /\ \A p \in R : \E l \in legs : p.key.leg = l.name
      /\ \A q \in T : \E l \in more : q.key.leg = l.name
  <2>1. ASSUME NEW some
        PROVE  /\ \A r \in Rows(d, some, 0, m) : \E l \in some : r.key.leg = l.name
               /\ \A r \in Reversed(Rows(d, some, 0, m)) : \E l \in some : r.key.leg = l.name
    <3>1. /\ \A r \in Rows(d, some, 0, m) :
               \E l \in some : l.amount # 0 /\ Keyed(r.key, d, l.name, 0, FALSE)
          /\ \A r \in Reversed(Rows(d, some, 0, m)) :
               \E l \in some : l.amount # 0 /\ Keyed(r.key, d, l.name, 0, TRUE)
      BY RowKeys
    <3> QED
      BY <3>1 DEF Keyed
  <2> QED
    BY <2>1
<1>3. /\ Countable(P) /\ Countable(R) /\ w \in Int
      /\ Total(P, a, Accounts) = w /\ Total(R, a, Accounts) = -w
      /\ Countable(Q) /\ Countable(T) /\ v \in Int
      /\ Total(Q, a, Accounts) = v /\ Total(T, a, Accounts) = -v
  BY Zenon DEF Weighs
<1> HIDE DEF P, Q
<1>4. Reversed(P \cup Q) = R \cup T
  BY DEF Reversed
<1> HIDE DEF R, T
<1>6. P \cap Q = {} /\ R \cap T = {}
  <2>1. ASSUME NEW x \in P, x \in Q PROVE FALSE
    BY <1>2, <2>1, Zenon
  <2>2. ASSUME NEW x \in R, x \in T PROVE FALSE
    BY <1>2, <2>2, Zenon
  <2> QED
    BY <2>1, <2>2
<1>7. /\ Total(P \cup Q, a, Accounts) = w + v
      /\ Total(R \cup T, a, Accounts) = -w + -v
  <2>1. ASSUME NEW p, NEW q, Countable(p), Countable(q), p \cap q = {}
        PROVE  Total(p \cup q, a, Accounts) = Total(p, a, Accounts) + Total(q, a, Accounts)
    BY <2>1, TotalJoined
  <2>2. Total(P \cup Q, a, Accounts) = Total(P, a, Accounts) + Total(Q, a, Accounts)
    BY <1>3, <1>6, <2>1, Zenon
  <2>3. Total(R \cup T, a, Accounts) = Total(R, a, Accounts) + Total(T, a, Accounts)
    BY <1>3, <1>6, <2>1, Zenon
  <2> QED
    BY <1>3, <2>2, <2>3, Zenon
<1>8. Countable(P \cup Q) /\ Countable(R \cup T)
  BY <1>3, FS_Union DEF Countable
<1>9. w + v \in Int /\ -w + -v = -(w + v)
  BY <1>3
<1> QED
  BY <1>1, <1>4, <1>7, <1>8, <1>9, Zenon DEF Weighs

\* The control roles and the accounts that play them.
LEMMA ControlAccounts ==
  ASSUME ControlsKept, NEW m \in Mappings, Complete(m), NEW r \in ControlRoles
  PROVE  /\ r \in Roles /\ m[r] \in Accounts
         /\ \A q \in Roles : m[q] = m[r] => q = r
<1>1. r \in RequiredRoles /\ r \in Roles
  BY DEF ControlRoles, Roles, RequiredRoles
<1>2. m \in PostingAccounts
  BY MappingsAssumption
<1>3. m[r] \in Accounts
  BY <1>1, <1>2 DEF PostingAccounts, Complete
<1> QED
  BY <1>1, <1>3 DEF ControlsKept

\* What a leg of a document weighs on the account of a control role: its amount,
\* on the side the role has, or nothing.
LEMMA LegWeighs ==
  ASSUME ControlsKept, NEW m \in Mappings, Complete(m), NEW r \in ControlRoles, NEW d,
         NEW name, NEW amount \in Nat
  PROVE  /\ \A q \in Roles \ {r} :
              /\ Weighs(d, {Leg(name, r, q, amount)}, m, m[r], amount)
              /\ Weighs(d, {Leg(name, q, r, amount)}, m, m[r], -amount)
              /\ \A p \in Roles \ {r} : Weighs(d, {Leg(name, p, q, amount)}, m, m[r], 0)
         /\ \A p, q : \A l \in {Leg(name, p, q, amount)} : l.name = name
<1>1. r \in Roles /\ m[r] \in Accounts /\ \A q \in Roles : m[q] = m[r] => q = r
  BY ControlAccounts
<1>2. ASSUME NEW debit \in Roles, NEW credit \in Roles,
             NEW w, w = (IF debit = r THEN amount ELSE 0) - (IF credit = r THEN amount ELSE 0)
      PROVE  Weighs(d, {Leg(name, debit, credit, amount)}, m, m[r], w)
  <2> DEFINE l == Leg(name, debit, credit, amount)
  <2>1. /\ l = Leg(l.name, l.debit, l.credit, l.amount)
        /\ l.amount = amount /\ l.debit = debit /\ l.credit = credit
    BY DEF Leg
  <2> HIDE DEF l
  <2>2. Side(l, r) = w
    BY <1>2, <2>1 DEF Side
  <2>3. l.amount \in Nat /\ l.debit \in Roles /\ l.credit \in Roles
    BY <2>1
  <2>4. Weighs(d, {l}, m, m[r], Side(l, r))
    BY <1>1, <2>1, <2>3, OneLegWeighs
  <2> QED
    BY <2>2, <2>4 DEF l
<1>3. ASSUME NEW q \in Roles \ {r}
      PROVE  /\ Weighs(d, {Leg(name, r, q, amount)}, m, m[r], amount)
             /\ Weighs(d, {Leg(name, q, r, amount)}, m, m[r], -amount)
             /\ \A p \in Roles \ {r} : Weighs(d, {Leg(name, p, q, amount)}, m, m[r], 0)
  <2>1. /\ amount = (IF r = r THEN amount ELSE 0) - (IF q = r THEN amount ELSE 0)
        /\ -amount = (IF q = r THEN amount ELSE 0) - (IF r = r THEN amount ELSE 0)
        /\ \A p \in Roles \ {r} :
             0 = (IF p = r THEN amount ELSE 0) - (IF q = r THEN amount ELSE 0)
    OBVIOUS
  <2> QED
    BY <1>1, <1>2, <2>1
<1>4. \A p, q : Leg(name, p, q, amount).name = name
  BY DEF Leg
<1> QED
  BY <1>3, <1>4

\* The roles that legs name, apart from the control role they are about.
LEMMA RolesNamed ==
  /\ "ar" \in ControlRoles /\ "accountsPayable" \in ControlRoles
  /\ "employeePayable" \in ControlRoles
  /\ {"salesRevenue", "taxPayable", "bank", "fxGainLoss", "costOfSales", "inventory"}
       \subseteq Roles \ {"ar"}
  /\ {"bank", "fxGainLoss", "costOfSales", "purchaseTax", "inventory"}
       \subseteq Roles \ {"accountsPayable"}
  /\ {"bank", "employeeExpense"} \subseteq Roles \ {"employeePayable"}
BY DEF Roles, RequiredRoles, OptionalRoles, ControlRoles

\* A sale is owed with its tax, a credit takes both back.
LEMMA SaleWeighs ==
  ASSUME ControlsKept, NEW m \in Mappings, Complete(m), NEW d \in Documents
  PROVE  /\ Weighs(d, InvoiceLegs(d), m, m["ar"], Worth[d].net + Worth[d].tax)
         /\ \A n \in Nat, p \in BOOLEAN :
              Weighs(d, CreditNoteLegs(d, n, p), m, m["ar"], -(Worth[d].net + Worth[d].tax))
<1> DEFINE net == Worth[d].net
           tax == Worth[d].tax
           revenue == {Leg("revenue", "ar", "salesRevenue", net)}
           taxes == {Leg("tax", "ar", "taxPayable", tax)}
           back == {Leg("revenue", "salesRevenue", "ar", net)}
           taxback == {Leg("tax", "taxPayable", "ar", tax)}
<1>1. net \in Nat /\ tax \in Nat
  BY WorthTyped
<1>2. /\ "ar" \in ControlRoles /\ "salesRevenue" \in Roles \ {"ar"}
      /\ "taxPayable" \in Roles \ {"ar"}
      /\ "inventory" \in Roles \ {"ar"} /\ "costOfSales" \in Roles \ {"ar"}
  BY RolesNamed
<1>3. /\ InvoiceLegs(d) = revenue \cup taxes
      /\ {Swapped(l) : l \in InvoiceLegs(d)} = back \cup taxback
  BY DEF InvoiceLegs, Swapped, Leg
<1> HIDE DEF net, tax
<1>4. /\ Weighs(d, revenue, m, m["ar"], net) /\ \A l \in revenue : l.name = "revenue"
      /\ Weighs(d, taxes, m, m["ar"], tax) /\ \A l \in taxes : l.name = "tax"
  <2>1. Weighs(d, revenue, m, m["ar"], net)
    BY <1>1, <1>2, LegWeighs, Zenon
  <2>2. Weighs(d, taxes, m, m["ar"], tax)
    BY <1>1, <1>2, LegWeighs, Zenon
  <2>3. (\A l \in revenue : l.name = "revenue") /\ \A l \in taxes : l.name = "tax"
    BY DEF Leg
  <2> QED
    BY <2>1, <2>2, <2>3
<1>5. /\ Weighs(d, back, m, m["ar"], -net) /\ \A l \in back : l.name = "revenue"
      /\ Weighs(d, taxback, m, m["ar"], -tax) /\ \A l \in taxback : l.name = "tax"
  <2>1. Weighs(d, back, m, m["ar"], -net)
    BY <1>1, <1>2, LegWeighs, Zenon
  <2>2. Weighs(d, taxback, m, m["ar"], -tax)
    BY <1>1, <1>2, LegWeighs, Zenon
  <2>3. (\A l \in back : l.name = "revenue") /\ \A l \in taxback : l.name = "tax"
    BY DEF Leg
  <2> QED
    BY <2>1, <2>2, <2>3
<1>6. ASSUME NEW n \in Nat
      PROVE  /\ Weighs(d, {Leg("stock", "inventory", "costOfSales", n)}, m, m["ar"], 0)
             /\ \A l \in {Leg("stock", "inventory", "costOfSales", n)} : l.name = "stock"
  <2>1. Weighs(d, {Leg("stock", "inventory", "costOfSales", n)}, m, m["ar"], 0)
    BY <1>2, <1>6, LegWeighs, Zenon
  <2>2. \A l \in {Leg("stock", "inventory", "costOfSales", n)} : l.name = "stock"
    BY DEF Leg
  <2> QED
    BY <2>1, <2>2
<1> HIDE DEF revenue, taxes, back, taxback
<1>7. Weighs(d, revenue \cup taxes, m, m["ar"], net + tax)
  <2>1. \A l \in revenue, k \in taxes : l.name # k.name
    BY <1>4
  <2> QED
    BY <1>4, <2>1, BothWeigh
<1>8. /\ Weighs(d, back \cup taxback, m, m["ar"], -net + -tax)
      /\ \A l \in back \cup taxback : l.name # "stock"
  <2>1. \A l \in back, k \in taxback : l.name # k.name
    BY <1>5
  <2> QED
    BY <1>5, <2>1, BothWeigh
<1>9. -net + -tax = -(net + tax) /\ -net + -tax + 0 = -(net + tax)
  BY <1>1
<1>10. ASSUME NEW n \in Nat, NEW p \in BOOLEAN
       PROVE  Weighs(d, CreditNoteLegs(d, n, p), m, m["ar"], -(net + tax))
  <2> DEFINE stock == {Leg("stock", "inventory", "costOfSales", n)}
  <2>1. CASE p
    <3>1. CreditNoteLegs(d, n, p) = (back \cup taxback) \cup stock
      BY <1>3, <2>1 DEF CreditNoteLegs
    <3>2. Weighs(d, stock, m, m["ar"], 0) /\ \A l \in stock : l.name = "stock"
      BY <1>6
    <3> HIDE DEF stock
    <3>3. \A l \in back \cup taxback, k \in stock : l.name # k.name
      BY <1>8, <3>2
    <3>4. Weighs(d, (back \cup taxback) \cup stock, m, m["ar"], -net + -tax + 0)
      BY <1>8, <3>2, <3>3, BothWeigh
    <3> QED
      BY <1>9, <3>1, <3>4
  <2>2. CASE ~p
    <3>1. CreditNoteLegs(d, n, p) = back \cup taxback
      BY <1>3, <2>2 DEF CreditNoteLegs
    <3> QED
      BY <1>8, <1>9, <3>1
  <2> QED
    BY <2>1, <2>2
<1> QED
  BY <1>3, <1>7, <1>10 DEF net, tax

\* A payment settles its amount, and what the rate did.
LEMMA PaymentWeighs ==
  ASSUME ControlsKept, NEW m \in Mappings, Complete(m), NEW d \in Documents
  PROVE  /\ Weighs(d, PaymentLegs(d), m, m["ar"], Worth[d].fx - Worth[d].net)
         /\ Weighs(d, VendorPaymentLegs(d), m, m["accountsPayable"], Worth[d].net + Worth[d].fx)
<1> DEFINE net == Worth[d].net
           fx == Worth[d].fx
<1>1. net \in Nat /\ fx \in Int
  BY WorthTyped
<1>2. /\ "ar" \in ControlRoles /\ "accountsPayable" \in ControlRoles
      /\ "bank" \in Roles \ {"ar"} /\ "bank" \in Roles \ {"accountsPayable"}
      /\ "fxGainLoss" \in Roles \ {"ar"} /\ "fxGainLoss" \in Roles \ {"accountsPayable"}
  BY RolesNamed
<1>3. ASSUME NEW r \in {"ar", "accountsPayable"}
      PROVE  Weighs(d, FxLegs(d, r), m, m[r], fx) /\ \A l \in FxLegs(d, r) : l.name = "fx"
  <2>1. r \in ControlRoles /\ "fxGainLoss" \in Roles \ {r}
    BY <1>2, <1>3
  <2>2. CASE fx > 0
    <3>1. FxLegs(d, r) = {Leg("fx", r, "fxGainLoss", fx)}
      BY <2>2 DEF FxLegs
    <3>2. fx \in Nat
      BY <1>1, <2>2
    <3> HIDE DEF fx
    <3>3. Weighs(d, {Leg("fx", r, "fxGainLoss", fx)}, m, m[r], fx)
          /\ \A l \in {Leg("fx", r, "fxGainLoss", fx)} : l.name = "fx"
      BY <2>1, <3>2, LegWeighs, Zenon
    <3> QED
      BY <3>1, <3>3
  <2>3. CASE ~(fx > 0)
    <3>1. FxLegs(d, r) = {Leg("fx", "fxGainLoss", r, -fx)}
      BY <2>3 DEF FxLegs
    <3>2. -fx \in Nat /\ fx = -(-fx)
      BY <1>1, <2>3
    <3> HIDE DEF fx
    <3>3. Weighs(d, {Leg("fx", "fxGainLoss", r, -fx)}, m, m[r], -(-fx))
          /\ \A l \in {Leg("fx", "fxGainLoss", r, -fx)} : l.name = "fx"
      BY <2>1, <3>2, LegWeighs, Zenon
    <3> QED
      BY <3>1, <3>2, <3>3, Zenon
  <2> QED
    BY <2>2, <2>3
<1> HIDE DEF net, fx
<1>4. Weighs(d, PaymentLegs(d), m, m["ar"], -net + fx)
  <2> DEFINE settled == {Leg("settlement", "bank", "ar", net)}
  <2>1. Weighs(d, settled, m, m["ar"], -net) /\ \A l \in settled : l.name = "settlement"
    BY <1>1, <1>2, LegWeighs, Zenon
  <2>2. PaymentLegs(d) = settled \cup FxLegs(d, "ar")
    BY DEF PaymentLegs, net
  <2> HIDE DEF settled
  <2>3. Weighs(d, FxLegs(d, "ar"), m, m["ar"], fx) /\ \A l \in FxLegs(d, "ar") : l.name = "fx"
    BY <1>3
  <2>4. \A l \in settled, k \in FxLegs(d, "ar") : l.name # k.name
    BY <2>1, <2>3
  <2> QED
    BY <2>1, <2>2, <2>3, <2>4, BothWeigh
<1>5. Weighs(d, VendorPaymentLegs(d), m, m["accountsPayable"], net + fx)
  <2> DEFINE settled == {Leg("settlement", "accountsPayable", "bank", net)}
             legs == FxLegs(d, "accountsPayable")
  <2>1. Weighs(d, settled, m, m["accountsPayable"], net) /\ \A l \in settled : l.name = "settlement"
    BY <1>1, <1>2, LegWeighs, Zenon
  <2>2. VendorPaymentLegs(d) = settled \cup legs
    BY DEF VendorPaymentLegs, net
  <2>3. Weighs(d, legs, m, m["accountsPayable"], fx) /\ \A l \in legs : l.name = "fx"
    BY <1>3
  <2> HIDE DEF settled, legs
  <2>4. \A l \in settled, k \in legs : l.name # k.name
    BY <2>1, <2>3
  <2> QED
    BY <2>1, <2>2, <2>3, <2>4, BothWeigh
<1>6. -net + fx = fx - net
  BY <1>1
<1> QED
  BY <1>4, <1>5, <1>6 DEF net, fx

\* A delivery is owed whole, however much of it is stock; a return takes it back.
LEMMA DeliveryWeighs ==
  ASSUME ControlsKept, NEW m \in Mappings, Complete(m), NEW d \in Documents, NEW p \in BOOLEAN
  PROVE  LET sum == Worth[d].goods + Worth[d].net + Worth[d].tax IN
         /\ Weighs(d, ReceiptLegs(d, p), m, m["accountsPayable"], -sum)
         /\ Weighs(d, ReturnLegs(d, p), m, m["accountsPayable"], sum)
<1> DEFINE a == m["accountsPayable"]
           stocked == IF p THEN Worth[d].goods ELSE 0
           expensed == Worth[d].net + Worth[d].goods - stocked
           tax == Worth[d].tax
           sum == Worth[d].goods + Worth[d].net + Worth[d].tax
           S == {Leg("stock", "inventory", "accountsPayable", stocked)}
           C == {Leg("cost", "costOfSales", "accountsPayable", expensed)}
           T == {Leg("tax", "purchaseTax", "accountsPayable", tax)}
           Sb == {Leg("stock", "accountsPayable", "inventory", stocked)}
           Cb == {Leg("cost", "accountsPayable", "costOfSales", expensed)}
           Tb == {Leg("tax", "accountsPayable", "purchaseTax", tax)}
<1>1. stocked \in Nat /\ expensed \in Nat /\ tax \in Nat /\ sum = stocked + expensed + tax
  BY WorthTyped
<1>2. /\ "accountsPayable" \in ControlRoles
      /\ "inventory" \in Roles \ {"accountsPayable"}
      /\ "costOfSales" \in Roles \ {"accountsPayable"}
      /\ "purchaseTax" \in Roles \ {"accountsPayable"}
  BY RolesNamed
<1>3. /\ ReceiptLegs(d, p) = (S \cup C) \cup T
      /\ ReturnLegs(d, p) = (Sb \cup Cb) \cup Tb
  <2>1. ReceiptLegs(d, p) = (S \cup C) \cup T
    BY DEF ReceiptLegs
  <2>2. {Swapped(l) : l \in (S \cup C) \cup T} = (Sb \cup Cb) \cup Tb
    BY DEF Swapped, Leg
  <2> QED
    BY <2>1, <2>2, Zenon DEF ReturnLegs
<1> HIDE DEF stocked, expensed, tax, sum
<1>4. /\ Weighs(d, S, m, a, -stocked) /\ \A l \in S : l.name = "stock"
      /\ Weighs(d, Sb, m, a, stocked) /\ \A l \in Sb : l.name = "stock"
  BY <1>1, <1>2, LegWeighs, Zenon
<1>5. /\ Weighs(d, C, m, a, -expensed) /\ \A l \in C : l.name = "cost"
      /\ Weighs(d, Cb, m, a, expensed) /\ \A l \in Cb : l.name = "cost"
  BY <1>1, <1>2, LegWeighs, Zenon
<1>6. /\ Weighs(d, T, m, a, -tax) /\ \A l \in T : l.name = "tax"
      /\ Weighs(d, Tb, m, a, tax) /\ \A l \in Tb : l.name = "tax"
  BY <1>1, <1>2, LegWeighs, Zenon
<1> HIDE DEF S, C, T, Sb, Cb, Tb, a
<1>7. ASSUME NEW X, NEW Y, NEW Z, NEW x, NEW y, NEW z,
             Weighs(d, X, m, a, x), Weighs(d, Y, m, a, y), Weighs(d, Z, m, a, z),
             \A l \in X : l.name = "stock",
             \A l \in Y : l.name = "cost",
             \A l \in Z : l.name = "tax"
      PROVE  Weighs(d, (X \cup Y) \cup Z, m, a, x + y + z)
  <2>1. Weighs(d, X \cup Y, m, a, x + y)
    <3>1. \A l \in X, k \in Y : l.name # k.name
      BY <1>7
    <3> QED
      BY <1>7, <3>1, BothWeigh
  <2>2. \A l \in X \cup Y, k \in Z : l.name # k.name
    BY <1>7
  <2> QED
    BY <1>7, <2>1, <2>2, BothWeigh
<1>8. Weighs(d, ReceiptLegs(d, p), m, a, -stocked + -expensed + -tax)
  BY <1>3, <1>4, <1>5, <1>6, <1>7
<1>9. Weighs(d, ReturnLegs(d, p), m, a, stocked + expensed + tax)
  BY <1>3, <1>4, <1>5, <1>6, <1>7
<1>10. -stocked + -expensed + -tax = -sum
  BY <1>1
<1> QED
  BY <1>1, <1>8, <1>9, <1>10 DEF sum, a

\* A report is owed when it is approved, and paid out when it is reimbursed.
LEMMA ReportWeighs ==
  ASSUME ControlsKept, NEW m \in Mappings, Complete(m), NEW d \in Documents
  PROVE  /\ Weighs(d, ApprovalLegs(d), m, m["employeePayable"], -Worth[d].net)
         /\ Weighs(d, ReimbursementLegs(d), m, m["employeePayable"], Worth[d].net)
<1> DEFINE net == Worth[d].net
<1>1. net \in Nat
  BY WorthTyped
<1>2. /\ "employeePayable" \in ControlRoles
      /\ "bank" \in Roles \ {"employeePayable"}
      /\ "employeeExpense" \in Roles \ {"employeePayable"}
  BY RolesNamed
<1> HIDE DEF net
<1>3. /\ Weighs(d, {Leg("expense", "employeeExpense", "employeePayable", net)}, m,
                m["employeePayable"], -net)
      /\ Weighs(d, {Leg("reimbursement", "employeePayable", "bank", net)}, m,
                m["employeePayable"], net)
  BY <1>1, <1>2, LegWeighs, Zenon
<1> QED
  BY <1>3, Zenon DEF ApprovalLegs, ReimbursementLegs, net

\* A document that has nothing to post comes to nothing.
LEMMA NothingWeighs ==
  ASSUME NEW d, NEW m, NEW a
  PROVE  Weighs(d, {}, m, a, 0)
<1>1. Rows(d, {}, 0, m) = {} /\ Reversed({}) = {}
  BY DEF Rows, Reversed
<1>2. Countable({}) /\ Total({}, a, Accounts) = 0
  BY TotalOfFew
<1> QED
  BY <1>1, <1>2 DEF Weighs

\* What any document comes to on its control account is what it claims.
LEMMA ClaimWeighs ==
  ASSUME ControlsKept, NEW m \in Mappings, Complete(m), NEW d \in Documents, NEW p \in BOOLEAN
  PROVE  /\ Weighs(d, DocumentLegs(d, p), m, m[ControlRole(d)], Claim(d))
         /\ Kind[d] = "creditNote" =>
              Weighs(d, CreditNoteLegs(d, 0, p), m, m[ControlRole(d)], Claim(d))
<1>1. Kind[d] \in Kinds
  BY DocumentsAssumption
<1>2. CASE Kind[d] = "invoice"
  <2>1. /\ DocumentLegs(d, p) = InvoiceLegs(d) /\ ControlRole(d) = "ar"
        /\ Claim(d) = Worth[d].net + Worth[d].tax
    BY <1>2 DEF DocumentLegs, ControlRole, Claim
  <2> QED
    BY <1>2, <2>1, SaleWeighs
<1>3. CASE Kind[d] = "creditNote"
  <2>1. /\ DocumentLegs(d, p) = CreditNoteLegs(d, Worth[d].goods, p) /\ ControlRole(d) = "ar"
        /\ Claim(d) = -(Worth[d].net + Worth[d].tax)
    BY <1>3 DEF DocumentLegs, ControlRole, Claim
  <2>2. Worth[d].goods \in Nat /\ 0 \in Nat
    BY WorthTyped
  <2> QED
    BY <1>3, <2>1, <2>2, SaleWeighs
<1>4. CASE Kind[d] = "payment"
  <2>1. /\ DocumentLegs(d, p) = PaymentLegs(d) /\ ControlRole(d) = "ar"
        /\ Claim(d) = Worth[d].fx - Worth[d].net
    BY <1>4 DEF DocumentLegs, ControlRole, Claim
  <2> QED
    BY <1>4, <2>1, PaymentWeighs
<1>5. CASE Kind[d] = "vendorPayment"
  <2>1. /\ DocumentLegs(d, p) = VendorPaymentLegs(d) /\ ControlRole(d) = "accountsPayable"
        /\ Claim(d) = Worth[d].net + Worth[d].fx
    BY <1>5 DEF DocumentLegs, ControlRole, Claim
  <2> QED
    BY <1>5, <2>1, PaymentWeighs
<1>6. CASE Kind[d] = "receipt"
  <2>1. /\ DocumentLegs(d, p) = ReceiptLegs(d, p) /\ ControlRole(d) = "accountsPayable"
        /\ Claim(d) = -(Worth[d].goods + Worth[d].net + Worth[d].tax)
    BY <1>6 DEF DocumentLegs, ControlRole, Claim
  <2> QED
    BY <1>6, <2>1, DeliveryWeighs
<1>7. CASE Kind[d] = "purchaseReturn"
  <2>1. /\ DocumentLegs(d, p) = ReturnLegs(d, p) /\ ControlRole(d) = "accountsPayable"
        /\ Claim(d) = Worth[d].goods + Worth[d].net + Worth[d].tax
    BY <1>7 DEF DocumentLegs, ControlRole, Claim
  <2> QED
    BY <1>7, <2>1, DeliveryWeighs
<1>8. CASE Kind[d] = "expense"
  <2>1. /\ DocumentLegs(d, p) = ApprovalLegs(d) /\ ControlRole(d) = "employeePayable"
        /\ Claim(d) = -Worth[d].net
    BY <1>8 DEF DocumentLegs, ControlRole, Claim
  <2> QED
    BY <1>8, <2>1, ReportWeighs
<1>9. CASE Kind[d] = "movement"
  <2>1. DocumentLegs(d, p) = {} /\ Claim(d) = 0
    BY <1>9 DEF DocumentLegs, Claim
  <2> QED
    BY <1>9, <2>1, NothingWeighs
<1> QED
  BY <1>1, <1>2, <1>3, <1>4, <1>5, <1>6, <1>7, <1>8, <1>9 DEF Kinds

-----------------------------------------------------------------------------
(* The postings of a document *)

\* The postings a document may have: what it is worth, its mirror, and what an
\* expense report pays out.
Parts == {"issued", "undone", "reimbursed"}
PartOf(key) ==
  IF key.reversal THEN "undone"
  ELSE IF key.leg = "reimbursement" THEN "reimbursed" ELSE "issued"

Section(rows, d, part) ==
  {r \in rows : r.key.doc = d /\ r.key.leg \notin MovementWays /\ PartOf(r.key) = part}

\* What the calls that post a document name; the repair has a name of its own for
\* credit notes.
Postings == {"issued", "undone", "reimbursed", "repaired"}
PartOfCall(what) == IF what = "repaired" THEN "issued" ELSE what

MayPost(d, what) ==
  \/ what \in {"issued", "undone"}
  \/ what = "reimbursed" /\ Kind[d] = "expense"
  \/ what = "repaired" /\ Kind[d] = "creditNote"

\* All that such a posting comes to under a mapping that is complete.
Planned(d, what, m) == PlannedRows([doc |-> d, what |-> what, nth |-> 0], m)

IsWhole(d, part, rows) ==
  \E m \in Mappings, what \in Postings :
    /\ Complete(m) /\ MayPost(d, what) /\ PartOfCall(what) = part
    /\ rows = Planned(d, what, m)

\* What the legs of a document itself are called.
DocumentNames == {"revenue", "tax", "stock", "settlement", "fx", "cost", "expense"}

\* A document's legs bear such names, whatever its kind.
LEMMA DocumentLegsNamed ==
  ASSUME NEW d \in Documents, NEW p \in BOOLEAN
  PROVE  /\ \A l \in DocumentLegs(d, p) : l.name \in DocumentNames
         /\ \A n : \A l \in CreditNoteLegs(d, n, p) : l.name \in DocumentNames
<1>1. /\ \A l \in InvoiceLegs(d) : l.name \in DocumentNames
      /\ \A l \in ReceiptLegs(d, p) : l.name \in DocumentNames
      /\ \A l \in ApprovalLegs(d) : l.name \in DocumentNames
  BY DEF InvoiceLegs, ReceiptLegs, ApprovalLegs, Leg, DocumentNames
<1>2. /\ \A l \in PaymentLegs(d) : l.name \in DocumentNames
      /\ \A l \in VendorPaymentLegs(d) : l.name \in DocumentNames
  BY DEF PaymentLegs, VendorPaymentLegs, FxLegs, Leg, DocumentNames
<1>3. \A l : Swapped(l).name = l.name
  BY DEF Swapped, Leg
<1>4. ASSUME NEW n, NEW l \in CreditNoteLegs(d, n, p) PROVE l.name \in DocumentNames
  <2>1. CASE l \in {Swapped(k) : k \in InvoiceLegs(d)}
    BY <1>1, <1>3, <2>1
  <2>2. CASE l = Leg("stock", "inventory", "costOfSales", n)
    BY <2>2 DEF Leg, DocumentNames
  <2> QED
    BY <2>1, <2>2 DEF CreditNoteLegs
<1>5. \A l \in ReturnLegs(d, p) : l.name \in DocumentNames
  BY <1>1, <1>3 DEF ReturnLegs
<1>6. Kind[d] \in Kinds
  BY DocumentsAssumption
<1>7. DocumentLegs(d, p) \in
        {InvoiceLegs(d), PaymentLegs(d), CreditNoteLegs(d, Worth[d].goods, p), ReceiptLegs(d, p),
         ReturnLegs(d, p), VendorPaymentLegs(d), ApprovalLegs(d), {}}
  BY <1>6 DEF DocumentLegs, Kinds
<1>8. ASSUME NEW l \in DocumentLegs(d, p) PROVE l.name \in DocumentNames
  BY <1>1, <1>2, <1>4, <1>5, <1>7, <1>8
<1> QED
  BY <1>4, <1>8

\* Which legs a posting of a document is made of.
LEMMA PostingLegs ==
  ASSUME NEW d, NEW what, MayPost(d, what), NEW p
  PROVE  Legs(d, what, p) = IF what = "reimbursed" THEN ReimbursementLegs(d)
                            ELSE IF what = "repaired" THEN CreditNoteLegs(d, 0, p)
                            ELSE DocumentLegs(d, p)
<1>1. what \notin MovementWays
  BY DEF MayPost, MovementWays
<1> QED
  BY <1>1 DEF Legs

\* The keys of what is planned say of which document, and of which posting.
PlannedKey(k, d, what) ==
  /\ k.doc = d /\ k.nth = 0 /\ k.leg \notin MovementWays
  /\ PartOf(k) = PartOfCall(what)
  /\ k.reversal \in BOOLEAN /\ (k.reversal => k.leg # "reimbursement")

\* So do all that are planned.
LEMMA PlannedKeyed ==
  ASSUME NEW d \in Documents, NEW what, MayPost(d, what), NEW m
  PROVE  \A r \in Planned(d, what, m) : PlannedKey(r.key, d, what)
<1> DEFINE legs == Legs(d, what, Perpetual(m))
           rows == Rows(d, legs, 0, m)
<1>1. what \in Postings
  BY DEF MayPost, Postings
<1>2. Perpetual(m) \in BOOLEAN
  BY DEF Perpetual
<1>3. /\ what # "reimbursed" => \A l \in legs : l.name \in DocumentNames
      /\ what = "reimbursed" => \A l \in legs : l.name = "reimbursement"
  <2>1. CASE what = "reimbursed"
    <3>1. legs = ReimbursementLegs(d)
      BY <2>1, PostingLegs
    <3> QED
      BY <2>1, <3>1 DEF ReimbursementLegs, Leg
  <2>2. CASE what # "reimbursed"
    <3>1. legs = DocumentLegs(d, Perpetual(m)) \/ legs = CreditNoteLegs(d, 0, Perpetual(m))
      BY <2>2, PostingLegs
    <3> QED
      BY <1>2, <2>2, <3>1, DocumentLegsNamed
  <2> QED
    BY <2>1, <2>2
<1>4. Planned(d, what, m) = IF what = "undone" THEN Reversed(rows) ELSE rows
  BY DEF Planned, PlannedRows
<1> HIDE DEF legs
<1>5. /\ \A r \in rows : \E l \in legs : Keyed(r.key, d, l.name, 0, FALSE)
      /\ \A r \in Reversed(rows) : \E l \in legs : Keyed(r.key, d, l.name, 0, TRUE)
  BY RowKeys
<1> HIDE DEF rows
<1>6. \A n \in DocumentNames : n \notin MovementWays /\ n # "reimbursement"
  BY DEF DocumentNames, MovementWays
<1>7. "reimbursement" \notin MovementWays
  BY DEF MovementWays
<1>8. CASE what = "undone"
  <2>1. ASSUME NEW r \in Planned(d, what, m) PROVE PlannedKey(r.key, d, what)
    <3>1. PICK l \in legs : Keyed(r.key, d, l.name, 0, TRUE)
      BY <1>4, <1>5, <1>8
    <3>2. l.name \in DocumentNames
      BY <1>3, <1>8
    <3>3. PartOf(r.key) = "undone"
      BY <3>1 DEF PartOf, Keyed
    <3> QED
      BY <1>6, <1>8, <3>1, <3>2, <3>3 DEF PlannedKey, Keyed, PartOfCall
  <2> QED
    BY <2>1
<1>9. CASE what # "undone"
  <2>1. ASSUME NEW r \in Planned(d, what, m) PROVE PlannedKey(r.key, d, what)
    <3>1. PICK l \in legs : Keyed(r.key, d, l.name, 0, FALSE)
      BY <1>4, <1>5, <1>9
    <3>2. PartOf(r.key) = IF l.name = "reimbursement" THEN "reimbursed" ELSE "issued"
      BY <3>1 DEF PartOf, Keyed
    <3>3. PartOf(r.key) = PartOfCall(what)
      BY <1>1, <1>3, <1>6, <1>9, <3>2 DEF PartOfCall, Postings
    <3> QED
      BY <1>3, <1>6, <1>7, <3>1, <3>3 DEF PlannedKey, Keyed
  <2> QED
    BY <2>1
<1> QED
  BY <1>8, <1>9

\* What a whole posting weighs on the control account.
LEMMA WholeWeighs ==
  ASSUME ControlsKept, NEW m \in Mappings, Complete(m), NEW d \in Documents,
         Kind[d] # "movement", NEW part, NEW rows, IsWhole(d, part, rows)
  PROVE  LET a == m[ControlRole(d)] IN
         /\ Countable(rows) /\ Claim(d) \in Int
         /\ part = "issued" => Total(rows, a, Accounts) = Claim(d)
         /\ part # "issued" => Total(rows, a, Accounts) = -Claim(d)
<1>1. PICK n \in Mappings, what \in Postings :
        /\ Complete(n) /\ MayPost(d, what) /\ PartOfCall(what) = part
        /\ rows = Planned(d, what, n)
  BY DEF IsWhole
<1> DEFINE legs == Legs(d, what, Perpetual(n))
           these == Rows(d, legs, 0, n)
           a == m[ControlRole(d)]
<1>2. n[ControlRole(d)] = a
  <2>1. ControlRole(d) \in ControlRoles
    BY DocumentsAssumption DEF ControlRole, ControlRoles, Kinds
  <2> QED
    BY <1>1, <2>1 DEF ControlsKept
<1>3. rows = IF what = "undone" THEN Reversed(these) ELSE these
  BY <1>1 DEF Planned, PlannedRows
<1>4. Perpetual(n) \in BOOLEAN
  BY DEF Perpetual
<1>5. /\ Weighs(d, DocumentLegs(d, Perpetual(n)), n, a, Claim(d))
      /\ Kind[d] = "creditNote" => Weighs(d, CreditNoteLegs(d, 0, Perpetual(n)), n, a, Claim(d))
  BY <1>1, <1>2, <1>4, ClaimWeighs
<1>6. Kind[d] = "expense" => Weighs(d, ReimbursementLegs(d), n, a, -Claim(d))
  <2>1. ASSUME Kind[d] = "expense" PROVE Weighs(d, ReimbursementLegs(d), n, a, -Claim(d))
    <3>1. ControlRole(d) = "employeePayable" /\ Claim(d) = -Worth[d].net /\ Worth[d].net \in Nat
      BY <2>1, WorthTyped DEF ControlRole, Claim
    <3>2. Weighs(d, ReimbursementLegs(d), n, n["employeePayable"], Worth[d].net)
      BY <1>1, ReportWeighs
    <3>3. -Claim(d) = Worth[d].net
      BY <3>1
    <3> QED
      BY <1>2, <3>1, <3>2, <3>3, Zenon
  <2> QED
    BY <2>1
<1>7. Claim(d) \in Int
  BY <1>5 DEF Weighs
<1> HIDE DEF a
<1>8. CASE what = "reimbursed"
  <2>1. legs = ReimbursementLegs(d) /\ part = "reimbursed" /\ Kind[d] = "expense"
    BY <1>1, <1>8, PostingLegs DEF PartOfCall, MayPost
  <2>2. Countable(these) /\ Total(these, a, Accounts) = -Claim(d) /\ rows = these
    BY <1>3, <1>6, <1>8, <2>1 DEF Weighs
  <2> QED
    BY <1>7, <2>1, <2>2 DEF a
<1>9. CASE what # "reimbursed"
  <2>1. Weighs(d, legs, n, a, Claim(d))
    BY <1>1, <1>5, <1>9, PostingLegs DEF MayPost
  <2>2. /\ Countable(these) /\ Total(these, a, Accounts) = Claim(d)
        /\ Countable(Reversed(these)) /\ Total(Reversed(these), a, Accounts) = -Claim(d)
    BY <2>1 DEF Weighs
  <2>3. part = IF what = "undone" THEN "undone" ELSE "issued"
    BY <1>1, <1>9 DEF PartOfCall, Postings
  <2> HIDE DEF these
  <2> QED
    BY <1>3, <1>7, <2>2, <2>3 DEF a
<1> QED
  BY <1>8, <1>9

-----------------------------------------------------------------------------
(* What a handler of a document has left to do *)

\* A row that a movement of d posts.
GoodsRow(r, d) ==
  r.key.doc = d /\ r.key.leg \in MovementWays /\ r.key.nth # 0 /\ ~r.key.reversal

\* A call posts a movement under its number, or a document under none; what it
\* planned is all of it.
PostingFits(c) ==
  /\ c.do = "plan" =>
       \/ c.what \in MovementWays /\ c.nth # 0
       \/ MayPost(c.doc, c.what) /\ c.nth = 0
  /\ c.do = "commit" =>
       \/ c.what \in MovementWays /\ \A r \in c.rows : GoodsRow(r, c.doc)
       \/ /\ MayPost(c.doc, c.what)
          /\ \E m \in Mappings : Complete(m) /\ c.rows = Planned(c.doc, c.what, m)

\* A call that posts this part of d, and one that moves its goods or posts them.
PostsPart(c, d, part) == c.do \in {"plan", "commit"} /\ c.doc = d /\ c.what = part
MovesGoods(c, d) ==
  /\ c.do \in {"record", "plan", "commit"} /\ c.doc = d
  /\ c.do # "record" => c.what \in MovementWays

\* What a handler of d may have left to do when d has status st: to write it, to
\* move its goods and then post it, to post it, or to post a movement of it.
Writing(q, d, st) ==
  \/ st = "none" /\ q = <<Write(d, "issued"), Plan(d, "issued")>>
  \/ st = "none" /\ \E way \in MovementWays :
       q = <<Write(d, "issued"), ApplyMove(d, way), Plan(d, "issued")>>
  \/ st = "issued" /\ q = <<Write(d, "undone"), Plan(d, "undone"), RecordMove(d, "in")>>
  \/ st = "issued" /\ q = <<Write(d, "undone")>>
  \/ st = "issued" /\ q = <<Write(d, "reimbursed"), Plan(d, "reimbursed")>>

Applying(q, d, st) ==
  st = "issued" /\ \E way \in MovementWays : q = <<ApplyMove(d, way), Plan(d, "issued")>>

BooksPart(q, d, st, c, part) ==
  /\ PostsPart(c, d, part)
  /\ \/ part \in {"issued", "reimbursed"} /\ st = part /\ q = <<c>>
     \/ part = "undone" /\ st = "undone" /\ q = <<c, RecordMove(d, "in")>>
     \/ part = "undone" /\ st = "issued" /\ q = <<c, Write(d, "undone")>>

BooksGoods(q, d, st, c) ==
  /\ MovesGoods(c, d)
  /\ q = <<c>> \/ (st = "none" /\ q = <<c, Write(d, "issued"), Plan(d, "issued")>>)

Doing(q, d, st) ==
  \/ Writing(q, d, st) \/ Applying(q, d, st)
  \/ \E c, part : BooksPart(q, d, st, c, part)
  \/ \E c : BooksGoods(q, d, st, c)

\* What can be told of a list: whether it is the repair's, what it is to post of d,
\* whether it is to undo d, and whether its handler works on d.
Reports(q) == \E i \in DOMAIN q : q[i].do = "report"
Owing(q, d, part) == ~Reports(q) /\ \E i \in DOMAIN q : PostsPart(q[i], d, part)
Undoes(q, d) == ~Reports(q) /\ \E i \in DOMAIN q : q[i] = Write(d, "undone")
Busy(q, d) == ~Reports(q) /\ d \in Touched(q)
Works(c, d) == c.do \in DocumentCalls /\ c.doc = d

\* A list of no calls, of one, of two and of three.
LEMMA FewCalls ==
  ASSUME NEW a, NEW b, NEW c
  PROVE  /\ DOMAIN <<>> = {}
         /\ DOMAIN <<a>> = {1} /\ <<a>>[1] = a /\ Head(<<a>>) = a /\ Tail(<<a>>) = <<>>
         /\ DOMAIN <<a, b>> = {1, 2} /\ <<a, b>>[1] = a /\ <<a, b>>[2] = b
         /\ Head(<<a, b>>) = a /\ Tail(<<a, b>>) = <<b>>
         /\ DOMAIN <<a, b, c>> = {1, 2, 3} /\ <<a, b, c>>[1] = a /\ <<a, b, c>>[2] = b
         /\ <<a, b, c>>[3] = c
         /\ Head(<<a, b, c>>) = a /\ Tail(<<a, b, c>>) = <<b, c>>
         /\ <<a>> # <<>> /\ <<a, b>> # <<>> /\ <<a, b, c>> # <<>>
<1>1. DOMAIN <<>> = {}
  OBVIOUS
<1>2. DOMAIN <<a>> = {1} /\ <<a>>[1] = a /\ Head(<<a>>) = a /\ Tail(<<a>>) = <<>> /\ <<a>> # <<>>
  OBVIOUS
<1>3. /\ DOMAIN <<a, b>> = {1, 2} /\ <<a, b>>[1] = a /\ <<a, b>>[2] = b
      /\ Head(<<a, b>>) = a /\ Tail(<<a, b>>) = <<b>> /\ <<a, b>> # <<>>
  OBVIOUS
<1>4. /\ DOMAIN <<a, b, c>> = {1, 2, 3} /\ <<a, b, c>>[1] = a /\ <<a, b, c>>[2] = b
      /\ <<a, b, c>>[3] = c /\ <<a, b, c>> # <<>>
      /\ Head(<<a, b, c>>) = a /\ Tail(<<a, b, c>>) = <<b, c>>
  OBVIOUS
<1> QED
  BY <1>1, <1>2, <1>3, <1>4, Zenon

\* A call put before none, one or two.
LEMMA CallsJoined ==
  ASSUME NEW a, NEW b, NEW c
  PROVE  /\ <<a>> \o <<>> = <<a>>
         /\ <<a>> \o <<b>> = <<a, b>>
         /\ <<a>> \o <<b, c>> = <<a, b, c>>
<1> DEFINE S == {a, b, c}
           one == <<a>>
           last == <<b>>
           two == <<a, b>>
           rest == <<b, c>>
           three == <<a, b, c>>
<1>1. /\ one \in Seq(S) /\ Len(one) = 1 /\ one[1] = a
      /\ last \in Seq(S) /\ Len(last) = 1 /\ last[1] = b
  OBVIOUS
<1>2. /\ two \in Seq(S) /\ Len(two) = 2 /\ two[1] = a /\ two[2] = b
      /\ rest \in Seq(S) /\ Len(rest) = 2 /\ rest[1] = b /\ rest[2] = c
  OBVIOUS
<1>3. three \in Seq(S) /\ Len(three) = 3 /\ three[1] = a /\ three[2] = b /\ three[3] = c
  OBVIOUS
<1> HIDE DEF S, one, last, two, rest, three
<1>4. /\ one \o last \in Seq(S) /\ Len(one \o last) = 2
      /\ \A i \in 1..2 : (one \o last)[i] = IF i <= 1 THEN one[i] ELSE last[i - 1]
  <2>1. /\ one \o last \in Seq(S) /\ Len(one \o last) = Len(one) + Len(last)
        /\ \A i \in 1..(Len(one) + Len(last)) :
             (one \o last)[i] = IF i <= Len(one) THEN one[i] ELSE last[i - Len(one)]
    BY <1>1, ConcatProperties, Zenon
  <2>2. Len(one) = 1 /\ Len(last) = 1 /\ 1 + 1 = 2
    BY <1>1
  <2> QED
    BY <2>1, <2>2
<1>5. one \o last = two
  <2>1. \A i \in 1..2 : (one \o last)[i] = two[i]
    BY <1>1, <1>2, <1>4
  <2> QED
    BY <1>2, <1>4, <2>1, SeqEqual
<1>6. /\ one \o rest \in Seq(S) /\ Len(one \o rest) = 3
      /\ \A i \in 1..3 : (one \o rest)[i] = IF i <= 1 THEN one[i] ELSE rest[i - 1]
  <2>1. /\ one \o rest \in Seq(S) /\ Len(one \o rest) = Len(one) + Len(rest)
        /\ \A i \in 1..(Len(one) + Len(rest)) : (one \o rest)[i] =
                     IF i <= Len(one) THEN one[i] ELSE rest[i - Len(one)]
    BY <1>1, <1>2, ConcatProperties, Zenon
  <2>2. Len(one) + Len(rest) = 3
    BY <1>1, <1>2
  <2> QED
    BY <1>1, <2>1, <2>2
<1>7. one \o rest = three
  <2>1. \A i \in 1..3 : (one \o rest)[i] = three[i]
    BY <1>1, <1>2, <1>3, <1>6
  <2> QED
    BY <1>3, <1>6, <2>1, SeqEqual
<1>8. one \o <<>> = one
  BY <1>1, ConcatEmptySeq
<1> QED
  BY <1>5, <1>7, <1>8 DEF one, last, two, rest, three

\* What can be told of a list that is empty.
LEMMA ToldOfNone ==
  ASSUME NEW d
  PROVE  /\ ~Reports(<<>>) /\ ~Undoes(<<>>, d) /\ ~Busy(<<>>, d)
         /\ \A part : ~Owing(<<>>, d, part)
<1>1. DOMAIN <<>> = {}
  BY FewCalls
<1> QED
  BY <1>1 DEF Reports, Undoes, Touched, Owing, Busy

\* What can be told of a list of one call.
LEMMA ToldOfOne ==
  ASSUME NEW a, NEW d,
         a.do # "report"
  PROVE  /\ ~Reports(<<a>>)
         /\ Undoes(<<a>>, d) <=> a = Write(d, "undone")
         /\ Busy(<<a>>, d) <=> Works(a, d)
         /\ \A part : Owing(<<a>>, d, part) <=> PostsPart(a, d, part)
<1> DEFINE q == <<a>>
<1>1. DOMAIN q = {1} /\ q[1] = a
  BY FewCalls
<1> HIDE DEF q
<1>2. ~Reports(q)
  BY <1>1 DEF Reports
<1>3. Undoes(q, d) <=> a = Write(d, "undone")
  BY <1>1, <1>2 DEF Undoes
<1>4. Busy(q, d) <=> Works(a, d)
  BY <1>1, <1>2 DEF Busy, Touched, Works, DocumentCalls
<1>5. ASSUME NEW part PROVE Owing(q, d, part) <=> PostsPart(a, d, part)
  BY <1>1, <1>2 DEF Owing
<1> QED
  BY <1>2, <1>3, <1>4, <1>5 DEF q

\* What can be told of a list of two calls.
LEMMA ToldOfTwo ==
  ASSUME NEW a, NEW b, NEW d,
         a.do # "report", b.do # "report"
  PROVE  /\ ~Reports(<<a, b>>)
         /\ Undoes(<<a, b>>, d) <=> a = Write(d, "undone") \/ b = Write(d, "undone")
         /\ Busy(<<a, b>>, d) <=> Works(a, d) \/ Works(b, d)
         /\ \A part : Owing(<<a, b>>, d, part) <=> PostsPart(a, d, part) \/ PostsPart(b, d, part)
<1> DEFINE q == <<a, b>>
<1>1. DOMAIN q = {1, 2} /\ q[1] = a /\ q[2] = b
  BY FewCalls
<1> HIDE DEF q
<1>2. ~Reports(q)
  BY <1>1 DEF Reports
<1>3. Undoes(q, d) <=> a = Write(d, "undone") \/ b = Write(d, "undone")
  BY <1>1, <1>2 DEF Undoes
<1>4. Busy(q, d) <=> Works(a, d) \/ Works(b, d)
  BY <1>1, <1>2 DEF Busy, Touched, Works, DocumentCalls
<1>5. ASSUME NEW part PROVE Owing(q, d, part) <=> PostsPart(a, d, part) \/ PostsPart(b, d, part)
  BY <1>1, <1>2 DEF Owing
<1> QED
  BY <1>2, <1>3, <1>4, <1>5 DEF q

\* What can be told of a list of three calls.
LEMMA ToldOfThree ==
  ASSUME NEW a, NEW b, NEW c, NEW d,
         a.do # "report", b.do # "report", c.do # "report"
  PROVE  /\ ~Reports(<<a, b, c>>)
         /\ Undoes(<<a, b, c>>, d) <=>
                 a = Write(d, "undone") \/ b = Write(d, "undone") \/ c = Write(d, "undone")
         /\ Busy(<<a, b, c>>, d) <=> Works(a, d) \/ Works(b, d) \/ Works(c, d)
         /\ \A part : Owing(<<a, b, c>>, d, part) <=>
                 PostsPart(a, d, part) \/ PostsPart(b, d, part) \/ PostsPart(c, d, part)
<1> DEFINE q == <<a, b, c>>
<1>1. DOMAIN q = {1, 2, 3} /\ q[1] = a /\ q[2] = b /\ q[3] = c
  BY FewCalls
<1> HIDE DEF q
<1>2. ~Reports(q)
  BY <1>1 DEF Reports
<1>3. Undoes(q, d) <=> a = Write(d, "undone") \/ b = Write(d, "undone") \/ c = Write(d, "undone")
  BY <1>1, <1>2 DEF Undoes
<1>4. Busy(q, d) <=> Works(a, d) \/ Works(b, d) \/ Works(c, d)
  BY <1>1, <1>2 DEF Busy, Touched, Works, DocumentCalls
<1>5. ASSUME NEW part PROVE Owing(q, d, part) <=>
        PostsPart(a, d, part) \/ PostsPart(b, d, part) \/ PostsPart(c, d, part)
  BY <1>1, <1>2 DEF Owing
<1> QED
  BY <1>2, <1>3, <1>4, <1>5 DEF q

\* The calls of handlers told apart.
LEMMA CallsTold ==
  ASSUME NEW d
  PROVE  /\ \A x, e, y : Write(d, x) = Write(e, y) <=> d = e /\ x = y
         /\ \A x : Write(d, x).do = "write" /\ Write(d, x).doc = d /\ Write(d, x).status = x
         /\ \A w : /\ RecordMove(d, w).do = "record" /\ RecordMove(d, w).doc = d
                   /\ RecordMove(d, w).way = w
                   /\ ApplyMove(d, w).do = "apply" /\ ApplyMove(d, w).doc = d
                   /\ ApplyMove(d, w).way = w
         /\ \A w : Plan(d, w).do = "plan" /\ Plan(d, w).doc = d /\ Plan(d, w).what = w
         /\ \A w, n : /\ PostMove(d, w, n).do = "plan" /\ PostMove(d, w, n).doc = d
                      /\ PostMove(d, w, n).what = w /\ PostMove(d, w, n).nth = n
<1>1. \A x, e, y : Write(d, x) = Write(e, y) <=> d = e /\ x = y
  BY DEF Write
<1>2. \A x : Write(d, x).do = "write" /\ Write(d, x).doc = d /\ Write(d, x).status = x
  BY DEF Write
<1>3. \A w : /\ RecordMove(d, w).do = "record" /\ RecordMove(d, w).doc = d
             /\ RecordMove(d, w).way = w
             /\ ApplyMove(d, w).do = "apply" /\ ApplyMove(d, w).doc = d
             /\ ApplyMove(d, w).way = w
  BY DEF RecordMove, ApplyMove
<1>4. \A w : Plan(d, w).do = "plan" /\ Plan(d, w).doc = d /\ Plan(d, w).what = w
  BY DEF Plan
<1>5. \A w, n : /\ PostMove(d, w, n).do = "plan" /\ PostMove(d, w, n).doc = d
                /\ PostMove(d, w, n).what = w /\ PostMove(d, w, n).nth = n
  BY DEF PostMove
<1> QED
  BY <1>1, <1>2, <1>3, <1>4, <1>5

\* A list is a handler's of d and of nothing else.
Minds(q, d) ==
  q # <<>> /\ ~Reports(q) /\ Busy(q, d) /\ \A e : e # d => ~Busy(q, e)

\* Two lists have the same to post of d, and to undo.
SameLeft(p, q, d) ==
  /\ \A part \in Parts : Owing(p, d, part) <=> Owing(q, d, part)
  /\ Undoes(p, d) <=> Undoes(q, d)

\* What is left once d is written.
Written(q, d, st, x) ==
  /\ Head(q) = Write(d, x)
  /\ \/ st = "none" /\ x = "issued" /\ Owing(Tail(q), d, "issued")
     \/ st = "issued" /\ x = "undone"
     \/ st = "issued" /\ x = "reimbursed" /\ Owing(Tail(q), d, "reimbursed")
  /\ Tail(q) = <<>> \/ Doing(Tail(q), d, x)
  /\ \A part \in Parts : Owing(Tail(q), d, part) <=> Owing(q, d, part)
  /\ Undoes(q, d) <=> x = "undone"
  /\ ~Undoes(Tail(q), d)

\* The calls that handlers begin with, told of d: they work on it, none of them
\* reports, and only a plan posts.
LEMMA BasicCalls ==
  ASSUME NEW d, NEW e, NEW part, NEW w, NEW x
  PROVE  /\ Write(d, x).do # "report" /\ RecordMove(d, w).do # "report"
         /\ ApplyMove(d, w).do # "report" /\ Plan(d, x).do # "report"
         /\ Works(Write(d, x), e) <=> d = e
         /\ Works(RecordMove(d, w), e) <=> d = e
         /\ Works(ApplyMove(d, w), e) <=> d = e
         /\ Works(Plan(d, x), e) <=> d = e
         /\ ~PostsPart(Write(d, x), e, part) /\ ~PostsPart(RecordMove(d, w), e, part)
         /\ ~PostsPart(ApplyMove(d, w), e, part)
         /\ PostsPart(Plan(d, x), e, part) <=> d = e /\ part = x
         /\ Plan(d, x) # Write(e, part) /\ RecordMove(d, w) # Write(e, part)
         /\ ApplyMove(d, w) # Write(e, part)
<1>1. /\ Write(d, x).do = "write" /\ Write(d, x).doc = d
      /\ RecordMove(d, w).do = "record" /\ RecordMove(d, w).doc = d
      /\ ApplyMove(d, w).do = "apply" /\ ApplyMove(d, w).doc = d
      /\ Plan(d, x).do = "plan" /\ Plan(d, x).doc = d /\ Plan(d, x).what = x
      /\ Write(e, part).do = "write"
  BY CallsTold
<1> QED
  BY <1>1 DEF Works, PostsPart, DocumentCalls

\* A handler with one call, and what is left of it after.
OneCallTold(q, a) ==
  /\ q # <<>> /\ Head(q) = a /\ Tail(q) = <<>> /\ ~Reports(q)
  /\ \A e : Busy(q, e) <=> Works(a, e)
  /\ \A e : Undoes(q, e) <=> a = Write(e, "undone")
  /\ \A e, part : Owing(q, e, part) <=> PostsPart(a, e, part)
  /\ \A e : Undoes(Tail(q), e) <=> FALSE
  /\ \A e, part : Owing(Tail(q), e, part) <=> FALSE

\* So it is with a list of one call.
LEMMA OneCall ==
  ASSUME NEW a, a.do # "report"
  PROVE  OneCallTold(<<a>>, a)
<1> DEFINE q == <<a>>
<1>1. q # <<>> /\ Head(q) = a /\ Tail(q) = <<>>
  BY FewCalls
<1>2. /\ ~Reports(q)
      /\ \A e : Busy(q, e) <=> Works(a, e)
      /\ \A e : Undoes(q, e) <=> a = Write(e, "undone")
      /\ \A e, part : Owing(q, e, part) <=> PostsPart(a, e, part)
  BY ToldOfOne
<1> HIDE DEF q
<1>3. \A e : Undoes(Tail(q), e) <=> FALSE
  <2>1. \A e : Undoes(<<>>, e) <=> FALSE
    BY ToldOfNone
  <2> QED
    BY <1>1, <2>1, Zenon
<1>4. \A e, part : Owing(Tail(q), e, part) <=> FALSE
  <2>1. \A e, part : Owing(<<>>, e, part) <=> FALSE
    BY ToldOfNone
  <2> QED
    BY <1>1, <2>1, Zenon
<1>5. OneCallTold(q, a)
  BY <1>1, <1>2, <1>3, <1>4, Zenon DEF OneCallTold
<1> QED
  BY <1>5 DEF q

\* A handler with two calls, and what is left of it after the first.
TwoCallsTold(q, a, b) ==
  /\ q # <<>> /\ Head(q) = a /\ Tail(q) = <<b>> /\ ~Reports(q)
  /\ \A e : Busy(q, e) <=> Works(a, e) \/ Works(b, e)
  /\ \A e : Undoes(q, e) <=> a = Write(e, "undone") \/ b = Write(e, "undone")
  /\ \A e, part : Owing(q, e, part) <=> PostsPart(a, e, part) \/ PostsPart(b, e, part)
  /\ \A e : Undoes(Tail(q), e) <=> b = Write(e, "undone")
  /\ \A e, part : Owing(Tail(q), e, part) <=> PostsPart(b, e, part)

\* So it is with a list of two.
LEMMA TwoCalls ==
  ASSUME NEW a, NEW b, a.do # "report", b.do # "report"
  PROVE  TwoCallsTold(<<a, b>>, a, b)
<1> DEFINE q == <<a, b>>
<1>1. q # <<>> /\ Head(q) = a /\ Tail(q) = <<b>>
  BY FewCalls
<1>2. /\ ~Reports(q)
      /\ \A e : Busy(q, e) <=> Works(a, e) \/ Works(b, e)
      /\ \A e : Undoes(q, e) <=> a = Write(e, "undone") \/ b = Write(e, "undone")
      /\ \A e, part : Owing(q, e, part) <=> PostsPart(a, e, part) \/ PostsPart(b, e, part)
  BY ToldOfTwo
<1> HIDE DEF q
<1>3. \A e : Undoes(Tail(q), e) <=> b = Write(e, "undone")
  <2>1. \A e : Undoes(<<b>>, e) <=> b = Write(e, "undone")
    BY ToldOfOne
  <2> QED
    BY <1>1, <2>1, Zenon
<1>4. \A e, part : Owing(Tail(q), e, part) <=> PostsPart(b, e, part)
  <2>1. \A e, part : Owing(<<b>>, e, part) <=> PostsPart(b, e, part)
    BY ToldOfOne
  <2> QED
    BY <1>1, <2>1, Zenon
<1>5. TwoCallsTold(q, a, b)
  BY <1>1, <1>2, <1>3, <1>4, Zenon DEF TwoCallsTold
<1> QED
  BY <1>5 DEF q

\* A handler with three calls, and what is left of it after the first.
ThreeCallsTold(q, a, b, c) ==
  /\ q # <<>> /\ Head(q) = a /\ Tail(q) = <<b, c>> /\ ~Reports(q)
  /\ \A e : Busy(q, e) <=> Works(a, e) \/ Works(b, e) \/ Works(c, e)
  /\ \A e : Undoes(q, e) <=>
          a = Write(e, "undone") \/ b = Write(e, "undone") \/ c = Write(e, "undone")
  /\ \A e, part : Owing(q, e, part) <=>
          PostsPart(a, e, part) \/ PostsPart(b, e, part) \/ PostsPart(c, e, part)
  /\ \A e : Undoes(Tail(q), e) <=> b = Write(e, "undone") \/ c = Write(e, "undone")
  /\ \A e, part : Owing(Tail(q), e, part) <=> PostsPart(b, e, part) \/ PostsPart(c, e, part)

\* So it is with a list of three.
LEMMA ThreeCalls ==
  ASSUME NEW a, NEW b, NEW c, a.do # "report", b.do # "report", c.do # "report"
  PROVE  ThreeCallsTold(<<a, b, c>>, a, b, c)
<1> DEFINE q == <<a, b, c>>
<1>1. q # <<>> /\ Head(q) = a /\ Tail(q) = <<b, c>>
  BY FewCalls
<1>2. /\ ~Reports(q)
      /\ \A e : Busy(q, e) <=> Works(a, e) \/ Works(b, e) \/ Works(c, e)
      /\ \A e : Undoes(q, e) <=>
              a = Write(e, "undone") \/ b = Write(e, "undone") \/ c = Write(e, "undone")
      /\ \A e, part : Owing(q, e, part) <=>
              PostsPart(a, e, part) \/ PostsPart(b, e, part) \/ PostsPart(c, e, part)
  BY ToldOfThree
<1> HIDE DEF q
<1>3. \A e : Undoes(Tail(q), e) <=> b = Write(e, "undone") \/ c = Write(e, "undone")
  <2>1. \A e : Undoes(<<b, c>>, e) <=> b = Write(e, "undone") \/ c = Write(e, "undone")
    BY ToldOfTwo
  <2> QED
    BY <1>1, <2>1, Zenon
<1>4. \A e, part : Owing(Tail(q), e, part) <=> PostsPart(b, e, part) \/ PostsPart(c, e, part)
  <2>1. \A e, part : Owing(<<b, c>>, e, part) <=> PostsPart(b, e, part) \/ PostsPart(c, e, part)
    BY ToldOfTwo
  <2> QED
    BY <1>1, <2>1, Zenon
<1>5. ThreeCallsTold(q, a, b, c)
  BY <1>1, <1>2, <1>3, <1>4, Zenon DEF ThreeCallsTold
<1> QED
  BY <1>5 DEF q

\* A document is written, and posted afterwards if at all.
LEMMA WritingTold ==
  ASSUME NEW q, NEW d, NEW st, Writing(q, d, st)
  PROVE  Minds(q, d) /\ Head(q).do = "write" /\ \E x : Written(q, d, st, x)
<1> DEFINE W(x) == Write(d, x)
           P(x) == Plan(d, x)
           A(way) == ApplyMove(d, way)
           R == RecordMove(d, "in")
<1>1. \A x : /\ W(x).do = "write" /\ P(x).do # "report"
             /\ \A e : (Works(W(x), e) <=> d = e) /\ (Works(P(x), e) <=> d = e)
             /\ \A e, y : P(x) # Write(e, y)
             /\ \A y : W(x) = Write(d, y) <=> x = y
             /\ \A part : ~PostsPart(W(x), d, part) /\ (PostsPart(P(x), d, part) <=> part = x)
  <2>1. ASSUME NEW x
        PROVE  /\ P(x).do # "report"
               /\ \A e : (Works(W(x), e) <=> d = e) /\ (Works(P(x), e) <=> d = e)
               /\ \A e, y : P(x) # Write(e, y)
               /\ \A part : ~PostsPart(W(x), d, part) /\ (PostsPart(P(x), d, part) <=> part = x)
    BY BasicCalls
  <2>2. ASSUME NEW x
        PROVE  W(x).do = "write" /\ \A y : W(x) = Write(d, y) <=> x = y
    BY CallsTold
  <2> QED
    BY <2>1, <2>2
<1>2. \A way : /\ A(way).do # "report"
               /\ \A e : Works(A(way), e) <=> d = e
               /\ \A e, y : A(way) # Write(e, y)
               /\ \A part : ~PostsPart(A(way), d, part)
  BY BasicCalls
<1>3. /\ R.do # "report"
      /\ \A e : Works(R, e) <=> d = e
      /\ \A e, y : R # Write(e, y)
      /\ \A part : ~PostsPart(R, d, part)
  BY BasicCalls
<1>4. \A x : PostsPart(P(x), d, x)
  BY <1>1
<1> HIDE DEF W, P, A, R
<1>5. CASE st = "none" /\ q = <<W("issued"), P("issued")>>
  <2> DEFINE a == W("issued")
             b == P("issued")
  <2>1. a.do # "report" /\ b.do # "report" /\ a.do = "write"
    BY <1>1, <1>2, <1>3
  <2>2. q = <<a, b>>
    BY <1>5
  <2> HIDE DEF a, b
  <2>3. TwoCallsTold(q, a, b)
    <3>1. TwoCallsTold(<<a, b>>, a, b)
      BY <2>1, TwoCalls, Zenon
    <3> QED
      BY <2>2, <3>1, Zenon
  <2>4. Minds(q, d)
    BY <1>1, <1>2, <1>3, <2>3 DEF Minds, TwoCallsTold, a, b
  <2>5. Tail(q) = <<>> \/ Doing(Tail(q), d, "issued")
    <3>1. BooksPart(Tail(q), d, "issued", b, "issued")
      BY <1>4, <2>3 DEF TwoCallsTold, BooksPart, b
    <3> QED
      BY <3>1 DEF Doing
  <2>6. /\ \A part \in Parts : Owing(Tail(q), d, part) <=> Owing(q, d, part)
        /\ Undoes(q, d) <=> "issued" = "undone"
        /\ ~Undoes(Tail(q), d)
        /\ "issued" \in {"issued", "reimbursed"} => Owing(Tail(q), d, "issued")
    BY <1>1, <1>2, <1>3, <2>3 DEF TwoCallsTold, a, b
  <2>7. Head(q) = Write(d, "issued")
    BY <2>3 DEF TwoCallsTold, a, W
  <2>8. Written(q, d, st, "issued")
    BY <1>5, <2>5, <2>6, <2>7 DEF Written
  <2> QED
    BY <2>1, <2>3, <2>4, <2>8 DEF TwoCallsTold
<1>6. ASSUME st = "none", NEW way \in MovementWays, q = <<W("issued"), A(way), P("issued")>>
      PROVE  Minds(q, d) /\ Head(q).do = "write" /\ \E x : Written(q, d, st, x)
  <2> DEFINE a == W("issued")
             b == A(way)
             c == P("issued")
  <2>1. a.do # "report" /\ b.do # "report" /\ c.do # "report" /\ a.do = "write"
    BY <1>1, <1>2, <1>3
  <2>2. q = <<a, b, c>>
    BY <1>6
  <2> HIDE DEF a, b, c
  <2>3. ThreeCallsTold(q, a, b, c)
    <3>1. ThreeCallsTold(<<a, b, c>>, a, b, c)
      BY <2>1, ThreeCalls, Zenon
    <3> QED
      BY <2>2, <3>1, Zenon
  <2>4. Minds(q, d)
    BY <1>1, <1>2, <1>3, <2>3 DEF Minds, ThreeCallsTold, a, b, c
  <2>5. Tail(q) = <<>> \/ Doing(Tail(q), d, "issued")
    <3>1. Applying(Tail(q), d, "issued")
      BY <1>6, <2>3 DEF ThreeCallsTold, Applying, b, c, A, P
    <3> QED
      BY <3>1 DEF Doing
  <2>6. /\ \A part \in Parts : Owing(Tail(q), d, part) <=> Owing(q, d, part)
        /\ Undoes(q, d) <=> "issued" = "undone"
        /\ ~Undoes(Tail(q), d)
        /\ "issued" \in {"issued", "reimbursed"} => Owing(Tail(q), d, "issued")
    BY <1>1, <1>2, <1>3, <2>3 DEF ThreeCallsTold, a, b, c
  <2>7. Head(q) = Write(d, "issued")
    BY <2>3 DEF ThreeCallsTold, a, W
  <2>8. Written(q, d, st, "issued")
    BY <1>6, <2>5, <2>6, <2>7 DEF Written
  <2> QED
    BY <2>1, <2>3, <2>4, <2>8 DEF ThreeCallsTold
<1>7. CASE st = "issued" /\ q = <<W("undone"), P("undone"), R>>
  <2> DEFINE a == W("undone")
             b == P("undone")
             c == R
  <2>1. a.do # "report" /\ b.do # "report" /\ c.do # "report" /\ a.do = "write"
    BY <1>1, <1>2, <1>3
  <2>2. q = <<a, b, c>>
    BY <1>7
  <2> HIDE DEF a, b, c
  <2>3. ThreeCallsTold(q, a, b, c)
    <3>1. ThreeCallsTold(<<a, b, c>>, a, b, c)
      BY <2>1, ThreeCalls, Zenon
    <3> QED
      BY <2>2, <3>1, Zenon
  <2>4. Minds(q, d)
    BY <1>1, <1>2, <1>3, <2>3 DEF Minds, ThreeCallsTold, a, b, c
  <2>5. Tail(q) = <<>> \/ Doing(Tail(q), d, "undone")
    <3>1. BooksPart(Tail(q), d, "undone", b, "undone")
      BY <1>4, <2>3 DEF ThreeCallsTold, BooksPart, b, c, R
    <3> QED
      BY <3>1 DEF Doing
  <2>6. /\ \A part \in Parts : Owing(Tail(q), d, part) <=> Owing(q, d, part)
        /\ Undoes(q, d) <=> "undone" = "undone"
        /\ ~Undoes(Tail(q), d)
        /\ "undone" \in {"issued", "reimbursed"} => Owing(Tail(q), d, "undone")
    BY <1>1, <1>2, <1>3, <2>3 DEF ThreeCallsTold, a, b, c
  <2>7. Head(q) = Write(d, "undone")
    BY <2>3 DEF ThreeCallsTold, a, W
  <2>8. Written(q, d, st, "undone")
    BY <1>7, <2>5, <2>6, <2>7 DEF Written
  <2> QED
    BY <2>1, <2>3, <2>4, <2>8 DEF ThreeCallsTold
<1>8. CASE st = "issued" /\ q = <<W("undone")>>
  <2> DEFINE a == W("undone")
  <2>1. a.do # "report" /\ a.do = "write"
    BY <1>1, <1>2, <1>3
  <2>2. q = <<a>>
    BY <1>8
  <2> HIDE DEF a
  <2>3. OneCallTold(q, a)
    <3>1. OneCallTold(<<a>>, a)
      BY <2>1, OneCall, Zenon
    <3> QED
      BY <2>2, <3>1, Zenon
  <2>4. Minds(q, d)
    BY <1>1, <1>2, <1>3, <2>3 DEF Minds, OneCallTold, a
  <2>5. Tail(q) = <<>> \/ Doing(Tail(q), d, "undone")
    BY <2>3 DEF OneCallTold
  <2>6. /\ \A part \in Parts : Owing(Tail(q), d, part) <=> Owing(q, d, part)
        /\ Undoes(q, d) <=> "undone" = "undone"
        /\ ~Undoes(Tail(q), d)
        /\ "undone" \in {"issued", "reimbursed"} => Owing(Tail(q), d, "undone")
    BY <1>1, <1>2, <1>3, <2>3 DEF OneCallTold, a
  <2>7. Head(q) = Write(d, "undone")
    BY <2>3 DEF OneCallTold, a, W
  <2>8. Written(q, d, st, "undone")
    BY <1>8, <2>5, <2>6, <2>7 DEF Written
  <2> QED
    BY <2>1, <2>3, <2>4, <2>8 DEF OneCallTold
<1>9. CASE st = "issued" /\ q = <<W("reimbursed"), P("reimbursed")>>
  <2> DEFINE a == W("reimbursed")
             b == P("reimbursed")
  <2>1. a.do # "report" /\ b.do # "report" /\ a.do = "write"
    BY <1>1, <1>2, <1>3
  <2>2. q = <<a, b>>
    BY <1>9
  <2> HIDE DEF a, b
  <2>3. TwoCallsTold(q, a, b)
    <3>1. TwoCallsTold(<<a, b>>, a, b)
      BY <2>1, TwoCalls, Zenon
    <3> QED
      BY <2>2, <3>1, Zenon
  <2>4. Minds(q, d)
    BY <1>1, <1>2, <1>3, <2>3 DEF Minds, TwoCallsTold, a, b
  <2>5. Tail(q) = <<>> \/ Doing(Tail(q), d, "reimbursed")
    <3>1. BooksPart(Tail(q), d, "reimbursed", b, "reimbursed")
      BY <1>4, <2>3 DEF TwoCallsTold, BooksPart, b
    <3> QED
      BY <3>1 DEF Doing
  <2>6. /\ \A part \in Parts : Owing(Tail(q), d, part) <=> Owing(q, d, part)
        /\ Undoes(q, d) <=> "reimbursed" = "undone"
        /\ ~Undoes(Tail(q), d)
        /\ "reimbursed" \in {"issued", "reimbursed"} => Owing(Tail(q), d, "reimbursed")
    BY <1>1, <1>2, <1>3, <2>3 DEF TwoCallsTold, a, b
  <2>7. Head(q) = Write(d, "reimbursed")
    BY <2>3 DEF TwoCallsTold, a, W
  <2>8. Written(q, d, st, "reimbursed")
    BY <1>9, <2>5, <2>6, <2>7 DEF Written
  <2> QED
    BY <2>1, <2>3, <2>4, <2>8 DEF TwoCallsTold
<1> QED
  BY <1>5, <1>6, <1>7, <1>8, <1>9 DEF Writing, W, P, A, R

\* What is left once the goods of d have moved, which is then posted with it.
Applied(q, d, st) ==
  /\ Head(q).do = "apply" /\ Head(q).doc = d
  /\ Doing(Tail(q), d, st) /\ SameLeft(Tail(q), q, d)
  /\ Owing(q, d, "issued")

\* Once part of d is posted, or has become another call that posts it.
Parted(q, d, st, part) ==
  /\ part \in Parts /\ PostsPart(Head(q), d, part)
  /\ part # "undone" => st = part
  /\ part = "undone" => st = "undone" \/ Undoes(q, d)
  /\ Owing(q, d, part) /\ ~Owing(Tail(q), d, part)
  /\ \A other \in Parts \ {part} : Owing(Tail(q), d, other) <=> Owing(q, d, other)
  /\ Undoes(Tail(q), d) <=> Undoes(q, d)
  /\ Tail(q) = <<>> \/ Doing(Tail(q), d, st)
  /\ \A k : PostsPart(k, d, part) =>
       Doing(<<k>> \o Tail(q), d, st) /\ SameLeft(<<k>> \o Tail(q), q, d)

\* Once a movement of d is made or posted, or has become another call for it.
Carried(q, d, st) ==
  /\ MovesGoods(Head(q), d)
  /\ ~Undoes(q, d) /\ ~Owing(q, d, "undone") /\ ~Owing(q, d, "reimbursed")
  /\ st = "none" \/ ~Owing(q, d, "issued")
  /\ Tail(q) = <<>> \/ Doing(Tail(q), d, st)
  /\ SameLeft(Tail(q), q, d)
  /\ \A k : MovesGoods(k, d) =>
       Doing(<<k>> \o Tail(q), d, st) /\ SameLeft(<<k>> \o Tail(q), q, d)

\* Goods that move with their document are posted with it.
LEMMA ApplyingTold ==
  ASSUME NEW q, NEW d, NEW st, Applying(q, d, st)
  PROVE  Minds(q, d) /\ Applied(q, d, st)
<1>1. PICK way \in MovementWays : st = "issued" /\ q = <<ApplyMove(d, way), Plan(d, "issued")>>
  BY DEF Applying
<1> DEFINE a == ApplyMove(d, way)
           b == Plan(d, "issued")
<1>2. /\ a.do # "report"
      /\ \A e : Works(a, e) <=> d = e
      /\ \A e, y : a # Write(e, y)
      /\ \A part : ~PostsPart(a, d, part)
  BY BasicCalls
<1>3. /\ b.do # "report"
      /\ \A e : Works(b, e) <=> d = e
      /\ \A e, y : b # Write(e, y)
      /\ \A part : PostsPart(b, d, part) <=> part = "issued"
  BY BasicCalls
<1>4. a.do = "apply" /\ a.doc = d
  BY CallsTold
<1>5. q = <<a, b>>
  BY <1>1
<1> HIDE DEF a, b
<1>6. TwoCallsTold(q, a, b)
  <2>1. TwoCallsTold(<<a, b>>, a, b)
    BY <1>2, <1>3, TwoCalls, Zenon
  <2> QED
    BY <1>5, <2>1, Zenon
<1>7. Minds(q, d)
  BY <1>2, <1>3, <1>6 DEF Minds, TwoCallsTold
<1>8. Doing(Tail(q), d, st)
  <2>1. BooksPart(Tail(q), d, st, b, "issued")
    BY <1>1, <1>3, <1>6 DEF TwoCallsTold, BooksPart
  <2> QED
    BY <2>1 DEF Doing
<1>9. SameLeft(Tail(q), q, d) /\ Owing(q, d, "issued")
  BY <1>2, <1>3, <1>6 DEF TwoCallsTold, SameLeft
<1> QED
  BY <1>4, <1>6, <1>7, <1>8, <1>9 DEF Applied, TwoCallsTold

\* A call that moves goods is for its document, and posts no part of it.
LEMMA GoodsCalls ==
  ASSUME NEW c, NEW d, MovesGoods(c, d)
  PROVE  /\ c.do # "report"
         /\ \A e : Works(c, e) <=> d = e
         /\ \A e, y : c # Write(e, y)
         /\ \A e : \A part \in Parts : ~PostsPart(c, e, part)
<1>1. \A e, y : Write(e, y).do = "write"
  BY CallsTold
<1> QED
  BY <1>1 DEF MovesGoods, Works, PostsPart, Parts, MovementWays, DocumentCalls

\* So is one that posts a part of it, which is the only one that it posts.
LEMMA PartCalls ==
  ASSUME NEW c, NEW d, NEW part, PostsPart(c, d, part)
  PROVE  /\ c.do # "report"
         /\ \A e : Works(c, e) <=> d = e
         /\ \A e, y : c # Write(e, y)
         /\ \A other : PostsPart(c, d, other) <=> other = part
<1>1. \A e, y : Write(e, y).do = "write"
  BY CallsTold
<1> QED
  BY <1>1 DEF Works, PostsPart, DocumentCalls

\* A part of a document is posted by itself, or before it is deleted, or before
\* the goods come back.
LEMMA PartTold ==
  ASSUME NEW q, NEW d, NEW st, NEW a, NEW part, BooksPart(q, d, st, a, part)
  PROVE  Minds(q, d) /\ Parted(q, d, st, part)
<1>1. PostsPart(a, d, part) /\ part \in Parts
  BY DEF BooksPart, Parts
<1>2. \A k : PostsPart(k, d, part) =>
        /\ k.do # "report"
        /\ \A e : Works(k, e) <=> d = e
        /\ \A e, y : k # Write(e, y)
        /\ \A other : PostsPart(k, d, other) <=> other = part
  BY PartCalls
<1>3. CASE part \in {"issued", "reimbursed"} /\ st = part /\ q = <<a>>
  <2>1. \A k : PostsPart(k, d, part) => OneCallTold(<<k>>, k)
    BY <1>2, OneCall
  <2>2. OneCallTold(q, a)
    BY <1>1, <1>3, <2>1, Zenon
  <2>3. Minds(q, d)
    BY <1>1, <1>2, <2>2 DEF Minds, OneCallTold
  <2>4. Tail(q) = <<>> /\ Head(q) = a
    BY <2>2 DEF OneCallTold
  <2>5. ASSUME NEW k, PostsPart(k, d, part)
        PROVE  Doing(<<k>> \o Tail(q), d, st) /\ SameLeft(<<k>> \o Tail(q), q, d)
    <3> DEFINE p == <<k>>
    <3>1. p = <<k>> \o Tail(q)
      BY <2>4, CallsJoined
    <3>2. OneCallTold(p, k)
      BY <2>1, <2>5
    <3>3. BooksPart(p, d, st, k, part)
      BY <1>3, <2>5 DEF BooksPart
    <3> HIDE DEF p
    <3>4. SameLeft(p, q, d)
      BY <1>1, <1>2, <2>2, <2>5, <3>2 DEF SameLeft, OneCallTold
    <3>5. Doing(p, d, st)
      BY <3>3 DEF Doing
    <3> QED
      BY <3>1, <3>4, <3>5, Zenon
  <2>6. /\ Owing(q, d, part) /\ ~Owing(Tail(q), d, part)
        /\ \A other \in Parts \ {part} : Owing(Tail(q), d, other) <=> Owing(q, d, other)
        /\ Undoes(Tail(q), d) <=> Undoes(q, d)
    BY <1>1, <1>2, <2>2 DEF OneCallTold
  <2> QED
    BY <1>1, <1>3, <2>3, <2>4, <2>5, <2>6 DEF Parted
<1>4. ASSUME NEW b, b.do # "report", \A e : Works(b, e) <=> d = e,
             \A other : ~PostsPart(b, d, other),
             \A k : PostsPart(k, d, part) => \E l : BooksPart(<<k, b>>, d, st, l, part),
             Doing(<<b>>, d, st),
             part = "undone", st = "undone" \/ b = Write(d, "undone"), q = <<a, b>>
      PROVE  Minds(q, d) /\ Parted(q, d, st, part)
  <2>1. \A k : PostsPart(k, d, part) => TwoCallsTold(<<k, b>>, k, b)
    BY <1>2, <1>4, TwoCalls
  <2>2. TwoCallsTold(q, a, b)
    BY <1>1, <1>4, <2>1, Zenon
  <2>3. Minds(q, d)
    BY <1>1, <1>2, <1>4, <2>2 DEF Minds, TwoCallsTold
  <2>4. Tail(q) = <<b>> /\ Head(q) = a
    BY <2>2 DEF TwoCallsTold
  <2>5. ASSUME NEW k, PostsPart(k, d, part)
        PROVE  Doing(<<k>> \o Tail(q), d, st) /\ SameLeft(<<k>> \o Tail(q), q, d)
    <3> DEFINE p == <<k, b>>
    <3>1. <<k>> \o <<b>> = p
      BY CallsJoined
    <3>2. TwoCallsTold(p, k, b)
      BY <2>1, <2>5
    <3>3. \E l : BooksPart(p, d, st, l, part)
      BY <1>4, <2>5
    <3> HIDE DEF p
    <3>4. SameLeft(p, q, d)
      BY <1>1, <1>2, <2>2, <2>5, <3>2 DEF SameLeft, TwoCallsTold
    <3>5. Doing(p, d, st)
      BY <3>3 DEF Doing
    <3>6. p = <<k>> \o Tail(q)
      BY <2>4, <3>1, Zenon
    <3> QED
      BY <3>4, <3>5, <3>6, Zenon
  <2>6. /\ Owing(q, d, part) /\ ~Owing(Tail(q), d, part)
        /\ \A other \in Parts \ {part} : Owing(Tail(q), d, other) <=> Owing(q, d, other)
        /\ Undoes(Tail(q), d) <=> Undoes(q, d)
        /\ st = "undone" \/ Undoes(q, d)
    BY <1>1, <1>2, <1>4, <2>2 DEF TwoCallsTold
  <2>7. Doing(Tail(q), d, st)
    BY <1>4, <2>4, Zenon
  <2> QED
    BY <1>1, <1>4, <2>3, <2>4, <2>5, <2>6, <2>7 DEF Parted
<1>5. CASE part = "undone" /\ st = "undone" /\ q = <<a, RecordMove(d, "in")>>
  <2> DEFINE b == RecordMove(d, "in")
  <2>1. /\ b.do # "report" /\ \A e : Works(b, e) <=> d = e
        /\ \A other : ~PostsPart(b, d, other)
    BY BasicCalls
  <2>2. MovesGoods(b, d)
    BY CallsTold DEF MovesGoods
  <2>3. q = <<a, b>>
    BY <1>5
  <2>4. ASSUME NEW k, PostsPart(k, d, part) PROVE BooksPart(<<k, b>>, d, st, k, part)
    BY <1>5, <2>4 DEF BooksPart
  <2> HIDE DEF b
  <2>5. Doing(<<b>>, d, st)
    <3>1. BooksGoods(<<b>>, d, st, b)
      BY <2>2 DEF BooksGoods
    <3> QED
      BY <3>1 DEF Doing
  <2> QED
    BY <1>4, <1>5, <2>1, <2>3, <2>4, <2>5
<1>6. CASE part = "undone" /\ st = "issued" /\ q = <<a, Write(d, "undone")>>
  <2> DEFINE b == Write(d, "undone")
  <2>1. /\ b.do # "report" /\ \A e : Works(b, e) <=> d = e
        /\ \A other : ~PostsPart(b, d, other)
    BY BasicCalls
  <2>2. Doing(<<b>>, d, st)
    BY <1>6 DEF Doing, Writing
  <2>3. q = <<a, b>> /\ b = Write(d, "undone")
    BY <1>6
  <2>4. ASSUME NEW k, PostsPart(k, d, part) PROVE BooksPart(<<k, b>>, d, st, k, part)
    BY <1>6, <2>4 DEF BooksPart
  <2> HIDE DEF b
  <2> QED
    BY <1>4, <1>6, <2>1, <2>2, <2>3, <2>4
<1> QED
  BY <1>3, <1>5, <1>6 DEF BooksPart

\* Goods move by themselves, or before their document is written.
LEMMA GoodsTold ==
  ASSUME NEW q, NEW d, NEW st, NEW a, BooksGoods(q, d, st, a)
  PROVE  Minds(q, d) /\ Carried(q, d, st)
<1>1. MovesGoods(a, d)
  BY DEF BooksGoods
<1>2. \A k : MovesGoods(k, d) =>
        /\ k.do # "report"
        /\ \A e : Works(k, e) <=> d = e
        /\ \A e, y : k # Write(e, y)
        /\ \A part \in Parts : ~PostsPart(k, d, part)
  BY GoodsCalls
<1>3. {"issued", "undone", "reimbursed"} \subseteq Parts
  BY DEF Parts
<1>4. CASE q = <<a>>
  <2>1. \A k : MovesGoods(k, d) => OneCallTold(<<k>>, k)
    BY <1>2, OneCall
  <2>2. OneCallTold(q, a)
    BY <1>1, <1>4, <2>1, Zenon
  <2>3. Minds(q, d)
    BY <1>1, <1>2, <2>2 DEF Minds, OneCallTold
  <2>4. Tail(q) = <<>> /\ Head(q) = a
    BY <2>2 DEF OneCallTold
  <2>5. ASSUME NEW k, MovesGoods(k, d)
        PROVE  Doing(<<k>> \o Tail(q), d, st) /\ SameLeft(<<k>> \o Tail(q), q, d)
    <3> DEFINE p == <<k>>
    <3>1. p = <<k>> \o Tail(q)
      BY <2>4, CallsJoined
    <3>2. OneCallTold(p, k)
      BY <2>1, <2>5
    <3>3. BooksGoods(p, d, st, k)
      BY <2>5 DEF BooksGoods
    <3> HIDE DEF p
    <3>4. SameLeft(p, q, d)
      BY <1>1, <1>2, <2>2, <2>5, <3>2 DEF SameLeft, OneCallTold
    <3>5. Doing(p, d, st)
      BY <3>3 DEF Doing
    <3> QED
      BY <3>1, <3>4, <3>5, Zenon
  <2>6. /\ \A part \in Parts : ~Owing(q, d, part) /\ ~Owing(Tail(q), d, part)
        /\ ~Undoes(Tail(q), d) /\ ~Undoes(q, d)
    BY <1>1, <1>2, <2>2 DEF OneCallTold
  <2> QED
    BY <1>1, <1>3, <2>3, <2>4, <2>5, <2>6 DEF Carried, SameLeft
<1>5. CASE st = "none" /\ q = <<a, Write(d, "issued"), Plan(d, "issued")>>
  <2> DEFINE b == Write(d, "issued")
             c == Plan(d, "issued")
  <2>1. /\ b.do # "report" /\ \A e : Works(b, e) <=> d = e
        /\ \A other : ~PostsPart(b, d, other)
        /\ b # Write(d, "undone")
    <3>1. b # Write(d, "undone")
      BY CallsTold
    <3>2. /\ b.do # "report" /\ \A e : Works(b, e) <=> d = e
          /\ \A other : ~PostsPart(b, d, other)
      BY BasicCalls
    <3> QED
      BY <3>1, <3>2
  <2>2. /\ c.do # "report" /\ \A e : Works(c, e) <=> d = e
        /\ \A other : PostsPart(c, d, other) <=> other = "issued"
        /\ c # Write(d, "undone")
    BY BasicCalls
  <2>3. q = <<a, b, c>>
    BY <1>5
  <2>4. Doing(<<b, c>>, d, st)
    BY <1>5 DEF Doing, Writing
  <2>5. ASSUME NEW k, MovesGoods(k, d) PROVE BooksGoods(<<k, b, c>>, d, st, k)
    BY <1>5, <2>5 DEF BooksGoods
  <2> HIDE DEF b, c
  <2>6. \A k : MovesGoods(k, d) => ThreeCallsTold(<<k, b, c>>, k, b, c)
    BY <1>2, <2>1, <2>2, ThreeCalls
  <2>7. ThreeCallsTold(q, a, b, c)
    BY <1>1, <2>3, <2>6, Zenon
  <2>8. Minds(q, d)
    BY <1>1, <1>2, <2>1, <2>2, <2>7 DEF Minds, ThreeCallsTold
  <2>9. Tail(q) = <<b, c>> /\ Head(q) = a
    BY <2>7 DEF ThreeCallsTold
  <2>10. ASSUME NEW k, MovesGoods(k, d)
         PROVE  Doing(<<k>> \o Tail(q), d, st) /\ SameLeft(<<k>> \o Tail(q), q, d)
    <3> DEFINE p == <<k, b, c>>
    <3>1. <<k>> \o <<b, c>> = p
      BY CallsJoined
    <3>2. ThreeCallsTold(p, k, b, c)
      BY <2>6, <2>10
    <3>3. BooksGoods(p, d, st, k)
      BY <2>5, <2>10
    <3> HIDE DEF p
    <3>4. SameLeft(p, q, d)
      BY <1>1, <1>2, <2>7, <2>10, <3>2 DEF SameLeft, ThreeCallsTold
    <3>5. Doing(p, d, st)
      BY <3>3 DEF Doing
    <3>6. p = <<k>> \o Tail(q)
      BY <2>9, <3>1, Zenon
    <3> QED
      BY <3>4, <3>5, <3>6, Zenon
  <2>11. SameLeft(Tail(q), q, d)
    BY <1>1, <1>2, <2>7 DEF ThreeCallsTold, SameLeft
  <2>12. ~Undoes(q, d) /\ ~Owing(q, d, "undone") /\ ~Owing(q, d, "reimbursed")
    BY <1>1, <1>2, <1>3, <2>1, <2>2, <2>7 DEF ThreeCallsTold
  <2>13. Doing(Tail(q), d, st)
    BY <2>4, <2>9, Zenon
  <2> QED
    BY <1>1, <1>5, <2>8, <2>9, <2>10, <2>11, <2>12, <2>13 DEF Carried
<1> QED
  BY <1>4, <1>5 DEF BooksGoods

\* All that can be told of a handler of a document by its first call.
LEMMA DoingTold ==
  ASSUME NEW q, NEW d, NEW st, Doing(q, d, st)
  PROVE  /\ Minds(q, d)
         /\ Head(q).do = "write" => \E x : Written(q, d, st, x)
         /\ Head(q).do = "record" => Carried(q, d, st)
         /\ Head(q).do = "apply" => Applied(q, d, st)
         /\ Head(q).do \in {"plan", "commit"} =>
              \/ Head(q).what \in MovementWays /\ Carried(q, d, st)
              \/ Head(q).what \in Parts /\ Parted(q, d, st, Head(q).what)
         /\ Head(q).do \in DocumentCalls
<1>1. CASE Writing(q, d, st)
  BY <1>1, WritingTold DEF DocumentCalls
<1>2. CASE Applying(q, d, st)
  <2>1. Minds(q, d) /\ Applied(q, d, st)
    BY <1>2, ApplyingTold
  <2> QED
    BY <2>1 DEF DocumentCalls, Applied
<1>3. ASSUME NEW c, NEW part, BooksPart(q, d, st, c, part)
      PROVE  /\ Minds(q, d) /\ Parted(q, d, st, part)
             /\ Head(q).do \in {"plan", "commit"} /\ Head(q).what = part /\ part \in Parts
  <2>1. Minds(q, d) /\ Parted(q, d, st, part)
    BY <1>3, PartTold
  <2> QED
    BY <2>1 DEF PostsPart, Parted
<1>4. ASSUME NEW c, BooksGoods(q, d, st, c)
      PROVE  /\ Minds(q, d) /\ Carried(q, d, st)
             /\ Head(q).do \in {"record", "plan", "commit"}
             /\ Head(q).do # "record" => Head(q).what \in MovementWays
  <2>1. Minds(q, d) /\ Carried(q, d, st)
    BY <1>4, GoodsTold
  <2> QED
    BY <2>1 DEF MovesGoods, Carried
<1>5. CASE \E c, part : BooksPart(q, d, st, c, part)
  BY <1>3, <1>5 DEF DocumentCalls
<1>6. CASE \E c : BooksGoods(q, d, st, c)
  BY <1>4, <1>6 DEF DocumentCalls
<1> QED
  BY <1>1, <1>2, <1>5, <1>6 DEF Doing

-----------------------------------------------------------------------------
(* What each document has on the books *)

Sections(rows, d) == [part \in Parts |-> Section(rows, d, part)]

\* What handlers have still to post of d, whether it is undone or to be, and whether
\* only one of them works on it.
Owed(calls, d) == {part \in Parts : \E t \in Slots : Owing(calls[t], d, part)}
Undoing(calls, st, d) == st = "undone" \/ \E t \in Slots : Undoes(calls[t], d)
Alone(calls, d) ==
  \A t, u \in Slots : Busy(calls[t], d) /\ Busy(calls[u], d) => t = u

\* What a document that has status st has on the books: each of its postings in full
\* or not at all, and, unless one is missing, every one that is not owed any more.
Stands(d, st, S, owed, undoing, missing) ==
  /\ \A part \in Parts : S[part] = {} \/ IsWhole(d, part, S[part])
  /\ st = "none" => S["issued"] = {}
  /\ st # "reimbursed" => S["reimbursed"] = {}
  /\ ~missing =>
       /\ st # "none" /\ "issued" \notin owed => IsWhole(d, "issued", S["issued"])
       /\ st = "reimbursed" /\ "reimbursed" \notin owed =>
            IsWhole(d, "reimbursed", S["reimbursed"])
       /\ undoing /\ "undone" \notin owed => IsWhole(d, "undone", S["undone"])
       /\ S["undone"] # {} => undoing /\ "undone" \notin owed

\* The same of the books as they are.
Holds(d, st, rows, calls, lacking) ==
  /\ Alone(calls, d)
  /\ Stands(d, st[d], Sections(rows, d), Owed(calls, d), Undoing(calls, st[d], d),
            <<d, "posting">> \in lacking)

\* The repair plans only what was issued, and pays out only what is reimbursed.
RepairCall(c, st, contested) ==
  /\ c.do \in {"plan", "commit"} /\ c.what \in {"issued", "reimbursed", "repaired"}
  /\ c.doc \in Documents
  /\ c.doc \notin contested =>
       st[c.doc] # "none" /\ (c.what = "reimbursed" => st[c.doc] = "reimbursed")

InRepair(q, st, contested) ==
  /\ q # <<>> /\ q[Len(q)].do = "report"
  /\ \A i \in 1..(Len(q) - 1) : RepairCall(q[i], st, contested)

Lone(q) == q = <<q[1]>> /\ q[1].do \in JournalCalls \cup {"outstanding"}

Attends(q, st, contested, d, x) ==
  d \in Documents /\ Doing(q, d, x) /\ (d \notin contested => st[d] = x)

\* A handler writes the journal, repairs the books, or works on a document as it is.
HandlerFits(q, st, contested) ==
  /\ \A i \in DOMAIN q : PostingFits(q[i])
  /\ \/ q = <<>> \/ Lone(q) \/ InRepair(q, st, contested)
     \/ \E d, x : Attends(q, st, contested, d, x)

\* A movement posts under a number, a document under none, and neither a movement
\* nor a reimbursement is mirrored.
RowsTold(rows) ==
  \A r \in rows :
    /\ r.key.leg \in MovementWays <=> r.key.nth # 0
    /\ r.key.reversal => r.key.leg \notin MovementWays \cup {"reimbursement"}

ControlsInv ==
  /\ RowsTold(posted)
  /\ \A s \in Slots : HandlerFits(slot[s], status, contended)
  /\ \A d \in Documents \ contended : Holds(d, status, posted, slot, lost)

\* Who owes something of a document, or is to undo it, works on it.
LEMMA BusyTold ==
  ASSUME NEW q, NEW d
  PROVE  /\ \A part : Owing(q, d, part) => Busy(q, d)
         /\ Undoes(q, d) => Busy(q, d)
<1>1. \A x : Write(d, x).do = "write" /\ Write(d, x).doc = d
  BY CallsTold
<1>2. ASSUME NEW i \in DOMAIN q, q[i].do \in DocumentCalls PROVE q[i].doc \in Touched(q)
  BY <1>2, Zenon DEF Touched, DocumentCalls
<1>3. ASSUME NEW part, Owing(q, d, part) PROVE Busy(q, d)
  BY <1>2, <1>3 DEF Owing, Busy, PostsPart, DocumentCalls
<1>4. ASSUME Undoes(q, d) PROVE Busy(q, d)
  BY <1>1, <1>2, <1>4 DEF Undoes, Busy, DocumentCalls
<1> QED
  BY <1>3, <1>4

\* Where nobody else works on a document, one handler tells all of it.
TellsAll(calls, s, d) ==
  /\ Alone(calls, d)
  /\ \A st : Undoing(calls, st, d) <=> (st = "undone" \/ Undoes(calls[s], d))
  /\ \A part \in Parts : part \in Owed(calls, d) <=> Owing(calls[s], d, part)

\* So it is when no other handler works on it.
LEMMA InCharge ==
  ASSUME NEW calls, NEW s \in Slots, NEW d, \A t \in Slots \ {s} : ~Busy(calls[t], d)
  PROVE  TellsAll(calls, s, d)
<1>1. \A t \in Slots : \A part : Owing(calls[t], d, part) => Busy(calls[t], d)
  BY BusyTold
<1>2. \A t \in Slots : Undoes(calls[t], d) => Busy(calls[t], d)
  BY BusyTold
<1>3. Alone(calls, d)
  BY DEF Alone
<1>4. ASSUME NEW st PROVE Undoing(calls, st, d) <=> st = "undone" \/ Undoes(calls[s], d)
  BY <1>2 DEF Undoing
<1>5. ASSUME NEW part \in Parts PROVE part \in Owed(calls, d) <=> Owing(calls[s], d, part)
  BY <1>1 DEF Owed
<1> QED
  BY <1>3, <1>4, <1>5 DEF TellsAll

\* A handler that does not work on a document tells nothing of it.
LEMMA Elsewhere ==
  ASSUME NEW calls, NEW next, NEW s \in Slots, NEW d, \A t \in Slots \ {s} : next[t] = calls[t],
         ~Busy(calls[s], d), ~Busy(next[s], d)
  PROVE  /\ Alone(calls, d) <=> Alone(next, d)
         /\ \A st : Undoing(next, st, d) <=> Undoing(calls, st, d)
         /\ Owed(next, d) = Owed(calls, d)
<1>1. /\ \A part : ~Owing(calls[s], d, part) /\ ~Owing(next[s], d, part)
      /\ ~Undoes(calls[s], d) /\ ~Undoes(next[s], d)
  BY BusyTold
<1>2. \A t \in Slots : Busy(next[t], d) <=> Busy(calls[t], d)
  <2>1. ASSUME NEW t \in Slots PROVE Busy(next[t], d) <=> Busy(calls[t], d)
    <3>1. CASE t = s
      BY <3>1
    <3>2. CASE t # s
      <4>1. next[t] = calls[t]
        BY <3>2
      <4> QED
        BY <4>1, Zenon
    <3> QED
      BY <3>1, <3>2
  <2> QED
    BY <2>1
<1>3. ASSUME NEW t \in Slots
      PROVE  /\ Undoes(next[t], d) <=> Undoes(calls[t], d)
             /\ \A part : Owing(next[t], d, part) <=> Owing(calls[t], d, part)
  <2>1. CASE t = s
    BY <1>1, <2>1
  <2>2. CASE t # s
    <3>1. next[t] = calls[t]
      BY <2>2
    <3> QED
      BY <3>1, Zenon
  <2> QED
    BY <2>1, <2>2
<1>4. Alone(calls, d) <=> Alone(next, d)
  BY <1>2, Zenon DEF Alone
<1>5. ASSUME NEW st PROVE Undoing(next, st, d) <=> Undoing(calls, st, d)
  BY <1>3, Zenon DEF Undoing
<1>6. Owed(next, d) = Owed(calls, d)
  BY <1>3 DEF Owed
<1> QED
  BY <1>4, <1>5, <1>6

\* A list that is not the repair's has no one but its own document's handler.
LEMMA FitStays ==
  ASSUME NEW q, NEW st, NEW now, NEW contested, NEW next, HandlerFits(q, st, contested),
         contested \subseteq next,
         \A e \in Documents \ next :
           now[e] = st[e] \/ (~Busy(q, e) /\ now[e] # "none" /\ st[e] # "reimbursed")
  PROVE  HandlerFits(q, now, next)
<1>1. ASSUME NEW c, RepairCall(c, st, contested) PROVE RepairCall(c, now, next)
  BY <1>1 DEF RepairCall
<1>2. ASSUME InRepair(q, st, contested) PROVE InRepair(q, now, next)
  BY <1>1, <1>2 DEF InRepair
<1>3. ASSUME NEW d, NEW x, Attends(q, st, contested, d, x) PROVE Attends(q, now, next, d, x)
  <2>1. Busy(q, d)
    BY <1>3, DoingTold DEF Attends, Minds
  <2> QED
    BY <1>3, <2>1 DEF Attends
<1> QED
  BY <1>2, <1>3 DEF HandlerFits

\* What a handler goes on with when its first call says so.
Journals(q) ==
  /\ Head(q).do \in JournalCalls \cup {"outstanding"} /\ Tail(q) = <<>>
  /\ \A e : ~Busy(q, e)

GoesOnRepairing(q, st, contested) ==
  /\ Reports(q) /\ \A e : ~Busy(q, e)
  /\ \/ Head(q).do = "report" /\ Tail(q) = <<>>
     \/ /\ RepairCall(Head(q), st, contested)
        /\ InRepair(Tail(q), st, contested) /\ Reports(Tail(q))
        /\ \A k : RepairCall(k, st, contested) =>
             InRepair(<<k>> \o Tail(q), st, contested) /\ Reports(<<k>> \o Tail(q))

\* A list that ends in a report goes on to it.
LEMMA RepairTold ==
  ASSUME NEW q, Fits(q), NEW st, NEW contested, InRepair(q, st, contested)
  PROVE  GoesOnRepairing(q, st, contested)
<1>1. q # <<>>
  BY DEF InRepair
<1>2. \A c : /\ Len(q) \in Nat \ {0} /\ DOMAIN q = 1..Len(q) /\ Head(q) = q[1]
             /\ DOMAIN Tail(q) = 1..(Len(q) - 1)
             /\ \A i \in 1..(Len(q) - 1) : Tail(q)[i] = q[i + 1]
             /\ DOMAIN (<<c>> \o Tail(q)) = 1..Len(q)
             /\ (<<c>> \o Tail(q))[1] = c
             /\ \A i \in 2..Len(q) : (<<c>> \o Tail(q))[i] = q[i]
  BY <1>1, ListShifted
<1>3. Reports(q) /\ q[Len(q)].do = "report"
  BY <1>2 DEF InRepair, Reports
<1>4. \A e : ~Busy(q, e)
  BY <1>3 DEF Busy
<1>5. Tail(q) \in Seq({q[i] : i \in DOMAIN q}) \/ Ordinary(Tail(q))
  BY <1>1, RestFits
<1>6. PICK S : Tail(q) \in Seq(S)
  BY <1>5 DEF Ordinary
<1>7. Len(Tail(q)) = Len(q) - 1
  BY <1>2, <1>6, LenProperties
<1>8. CASE Len(q) = 1
  <2>1. Tail(q) = <<>>
    <3>1. Len(Tail(q)) = 0
      BY <1>7, <1>8
    <3> QED
      BY <1>6, <3>1, EmptySeq
  <2> QED
    BY <1>2, <1>3, <1>4, <1>8, <2>1 DEF GoesOnRepairing
<1>9. CASE Len(q) # 1
  <2>1. 1 \in 1..(Len(q) - 1) /\ Len(q) - 1 \in 1..(Len(q) - 1) /\ Len(q) - 1 # 0
    <3>1. Len(q) \in Nat \ {0}
      BY <1>2
    <3>2. \A n \in Nat \ {0} : n # 1 => 1 \in 1..(n - 1) /\ n - 1 \in 1..(n - 1) /\ n - 1 # 0
      OBVIOUS
    <3> QED
      BY <1>9, <3>1, <3>2, Zenon
  <2>2. RepairCall(Head(q), st, contested)
    BY <1>2, <2>1 DEF InRepair
  <2>3. Reports(Tail(q)) /\ Tail(q) # <<>> /\ Tail(q)[Len(q) - 1].do = "report"
    <3>1. Tail(q)[Len(q) - 1] = q[Len(q)]
      BY <1>2, <2>1
    <3>2. Tail(q) # <<>>
      BY <1>2, <2>1, FewCalls
    <3> QED
      BY <1>2, <1>3, <2>1, <3>1, <3>2 DEF Reports
  <2>4. InRepair(Tail(q), st, contested)
    <3>1. \A i \in 1..(Len(q) - 2) : RepairCall(Tail(q)[i], st, contested)
      <4>1. ASSUME NEW i \in 1..(Len(q) - 2) PROVE RepairCall(Tail(q)[i], st, contested)
        <5>1. i \in 1..(Len(q) - 1) /\ i + 1 \in 1..(Len(q) - 1)
          BY <1>2
        <5>2. Tail(q)[i] = q[i + 1]
          BY <1>2, <5>1
        <5> QED
          BY <5>1, <5>2 DEF InRepair
      <4> QED
        BY <4>1
    <3>2. Len(Tail(q)) - 1 = Len(q) - 2
      BY <1>2, <1>7
    <3> QED
      BY <1>7, <2>3, <3>1, <3>2 DEF InRepair
  <2>5. ASSUME NEW k, RepairCall(k, st, contested)
        PROVE  InRepair(<<k>> \o Tail(q), st, contested) /\ Reports(<<k>> \o Tail(q))
    <3> DEFINE p == <<k>> \o Tail(q)
    <3>1. /\ DOMAIN p = 1..Len(q) /\ p[1] = k /\ \A i \in 2..Len(q) : p[i] = q[i]
      BY <1>2
    <3>2. p \in Seq(S \cup {k})
      <4>1. <<k>> \in Seq(S \cup {k}) /\ Tail(q) \in Seq(S \cup {k})
        BY <1>6, SeqMonotonic
      <4> QED
        BY <4>1, ConcatProperties
    <3> HIDE DEF p
    <3>3. Len(p) = Len(q)
      BY <1>2, <3>1, <3>2, LenProperties
    <3>4. p[Len(q)].do = "report" /\ p # <<>>
      BY <1>2, <1>3, <1>9, <3>1, FewCalls
    <3>5. \A i \in 1..(Len(q) - 1) : RepairCall(p[i], st, contested)
      <4>1. ASSUME NEW i \in 1..(Len(q) - 1) PROVE RepairCall(p[i], st, contested)
        <5>1. CASE i = 1
          BY <2>5, <3>1, <5>1
        <5>2. CASE i # 1
          <6>1. p[i] = q[i]
            BY <1>2, <3>1, <5>2
          <6> QED
            BY <6>1 DEF InRepair
        <5> QED
          BY <5>1, <5>2
      <4> QED
        BY <4>1
    <3>6. InRepair(p, st, contested) /\ Reports(p)
      BY <1>2, <3>1, <3>3, <3>4, <3>5 DEF InRepair, Reports
    <3> QED
      BY <3>6 DEF p
  <2> QED
    BY <1>3, <1>4, <2>2, <2>3, <2>4, <2>5 DEF GoesOnRepairing
<1> QED
  BY <1>8, <1>9

\* Whatever a handler is about, its first call and the rest of them tell.
LEMMA HeadTells ==
  ASSUME NEW q, Fits(q), q # <<>>, NEW st, NEW contested, HandlerFits(q, st, contested)
  PROVE  /\ PostingFits(Head(q)) /\ \A i \in DOMAIN Tail(q) : PostingFits(Tail(q)[i])
         /\ \A c : PostingFits(c) => \A i \in DOMAIN (<<c>> \o Tail(q)) :
                                       PostingFits((<<c>> \o Tail(q))[i])
         /\ \/ Journals(q) \/ GoesOnRepairing(q, st, contested)
            \/ \E d, x : Attends(q, st, contested, d, x)
<1>1. \A c : /\ Len(q) \in Nat \ {0} /\ DOMAIN q = 1..Len(q) /\ Head(q) = q[1]
             /\ DOMAIN Tail(q) = 1..(Len(q) - 1)
             /\ \A i \in 1..(Len(q) - 1) : Tail(q)[i] = q[i + 1]
             /\ DOMAIN (<<c>> \o Tail(q)) = 1..Len(q)
             /\ (<<c>> \o Tail(q))[1] = c
             /\ \A i \in 2..Len(q) : (<<c>> \o Tail(q))[i] = q[i]
  BY ListShifted
<1>2. \A i \in 1..Len(q) : PostingFits(q[i])
  BY <1>1 DEF HandlerFits
<1>3. PostingFits(Head(q))
  BY <1>1, <1>2
<1>4. \A i \in DOMAIN Tail(q) : PostingFits(Tail(q)[i])
  <2>1. ASSUME NEW i \in DOMAIN Tail(q) PROVE PostingFits(Tail(q)[i])
    <3>1. i \in 1..(Len(q) - 1) /\ i + 1 \in 1..Len(q)
      BY <1>1
    <3> QED
      BY <1>1, <1>2, <3>1
  <2> QED
    BY <2>1
<1>5. ASSUME NEW c, PostingFits(c)
      PROVE  \A i \in DOMAIN (<<c>> \o Tail(q)) : PostingFits((<<c>> \o Tail(q))[i])
  <2> DEFINE p == <<c>> \o Tail(q)
  <2>1. DOMAIN p = 1..Len(q) /\ p[1] = c /\ \A i \in 2..Len(q) : p[i] = q[i]
    BY <1>1
  <2> HIDE DEF p
  <2>2. ASSUME NEW i \in DOMAIN p PROVE PostingFits(p[i])
    <3>1. CASE i = 1
      BY <1>5, <2>1, <3>1
    <3>2. CASE i # 1
      <4>1. p[i] = q[i] /\ i \in 1..Len(q)
        BY <1>1, <2>1, <3>2
      <4> QED
        BY <1>2, <4>1
    <3> QED
      BY <3>1, <3>2
  <2> QED
    BY <2>2 DEF p
<1>6. CASE Lone(q)
  <2>1. \A c : Tail(<<c>>) = <<>> /\ Head(<<c>>) = c
    OBVIOUS
  <2>2. q = <<Head(q)>> /\ Tail(q) = <<>> /\ Head(q).do \in JournalCalls \cup {"outstanding"}
    BY <1>1, <1>6, <2>1 DEF Lone
  <2>3. \A e : Busy(<<Head(q)>>, e) <=> Works(Head(q), e)
    BY <2>2, ToldOfOne DEF JournalCalls
  <2>4. \A e : ~Works(Head(q), e)
    BY <2>2 DEF Works, DocumentCalls, JournalCalls
  <2>5. \A e : ~Busy(q, e)
    BY <2>2, <2>3, <2>4, Zenon
  <2>6. Journals(q)
    BY <2>2, <2>5 DEF Journals
  <2> QED
    BY <1>3, <1>4, <1>5, <2>6
<1>7. CASE InRepair(q, st, contested)
  BY <1>3, <1>4, <1>5, <1>7, RepairTold
<1>8. CASE \E d, x : Attends(q, st, contested, d, x)
  BY <1>3, <1>4, <1>5, <1>8
<1> QED
  BY <1>6, <1>7, <1>8 DEF HandlerFits

\* What stands goes on to, whatever else is found missing.
LEMMA StandsStill ==
  ASSUME NEW d, NEW st, NEW S, NEW owed, NEW u, NEW v, NEW m, NEW n,
         Stands(d, st, S, owed, u, m), m => n, u <=> v
  PROVE  Stands(d, st, S, owed, v, n)
BY DEF Stands

\* What one handler makes of a document that nobody else works on.
StandsWith(d, st, S, q, missing) ==
  Stands(d, st, S, {part \in Parts : Owing(q, d, part)}, st = "undone" \/ Undoes(q, d), missing)

\* Such a document holds what it should when it stands with what that handler has
\* still to do.
LEMMA HoldsWith ==
  ASSUME NEW d, NEW st, NEW rows, NEW calls, NEW lacking, NEW s \in Slots,
         \A t \in Slots \ {s} : ~Busy(calls[t], d)
  PROVE  Holds(d, st, rows, calls, lacking)
           <=> StandsWith(d, st[d], Sections(rows, d), calls[s], <<d, "posting">> \in lacking)
<1> DEFINE owed == {part \in Parts : Owing(calls[s], d, part)}
           undoing == st[d] = "undone" \/ Undoes(calls[s], d)
<1>1. TellsAll(calls, s, d)
  BY InCharge
<1>2. Alone(calls, d) /\ (Undoing(calls, st[d], d) <=> undoing)
  BY <1>1 DEF TellsAll
<1>3. Owed(calls, d) = owed
  <2>1. Owed(calls, d) \subseteq Parts
    BY DEF Owed
  <2> QED
    BY <1>1, <2>1 DEF TellsAll
<1> HIDE DEF owed, undoing
<1> DEFINE S == Sections(rows, d)
           m == <<d, "posting">> \in lacking
           O == Owed(calls, d)
           u == Undoing(calls, st[d], d)
<1>4. Holds(d, st, rows, calls, lacking) <=> Alone(calls, d) /\ Stands(d, st[d], S, O, u, m)
  BY DEF Holds
<1>5. StandsWith(d, st[d], S, calls[s], m) <=> Stands(d, st[d], S, owed, undoing, m)
  BY DEF StandsWith, owed, undoing
<1> HIDE DEF S, m, O, u
<1>6. Stands(d, st[d], S, O, u, m) <=> Stands(d, st[d], S, owed, undoing, m)
  BY <1>2, <1>3, StandsStill DEF O, u
<1> QED
  BY <1>2, <1>4, <1>5, <1>6 DEF S, m

\* A document that a step leaves alone stands as it did.
LEMMA HoldsElsewhere ==
  ASSUME NEW d, NEW st, NEW now, NEW rows, NEW more, NEW calls, NEW next, NEW lacking, NEW lack,
         NEW s \in Slots, \A t \in Slots \ {s} : next[t] = calls[t],
         ~Busy(calls[s], d), ~Busy(next[s], d),
         now[d] = st[d], Sections(more, d) = Sections(rows, d), lacking \subseteq lack,
         Holds(d, st, rows, calls, lacking)
  PROVE  Holds(d, now, more, next, lack)
<1>1. /\ Alone(calls, d) <=> Alone(next, d)
      /\ Undoing(next, st[d], d) <=> Undoing(calls, st[d], d)
      /\ Owed(next, d) = Owed(calls, d)
  BY Elsewhere
<1>2. <<d, "posting">> \in lacking => <<d, "posting">> \in lack
  OBVIOUS
<1> DEFINE S == Sections(rows, d)
           T == Sections(more, d)
           m == <<d, "posting">> \in lacking
           n == <<d, "posting">> \in lack
           O == Owed(calls, d)
           P == Owed(next, d)
           u == Undoing(calls, st[d], d)
           v == Undoing(next, now[d], d)
<1>3. Alone(calls, d) /\ Stands(d, st[d], S, O, u, m)
  BY DEF Holds
<1>4. T = S /\ P = O /\ (u <=> v) /\ (m => n)
  BY <1>1, <1>2
<1>5. Holds(d, now, more, next, lack) <=> Alone(next, d) /\ Stands(d, now[d], T, P, v, n)
  BY DEF Holds
<1> HIDE DEF S, T, m, n, O, P, u, v
<1>6. Stands(d, now[d], T, P, v, n)
  BY <1>3, <1>4, StandsStill
<1> QED
  BY <1>1, <1>3, <1>5, <1>6

\* A step of a handler that works on no document.
LEMMA SilentKeeps ==
  ASSUME BooksTyped, ControlsInv, NEW s \in Slots, NEW q, slot' = [slot EXCEPT ![s] = q],
         \A e : ~Busy(slot[s], e) /\ ~Busy(q, e), HandlerFits(q, status, contended),
         posted' = posted, status' = status, contended \subseteq contended', lost \subseteq lost'
  PROVE  ControlsInv'
<1>1. slot'[s] = q /\ \A t \in Slots \ {s} : slot'[t] = slot[t]
  BY DEF BooksTyped
<1>2. ASSUME NEW t \in Slots PROVE HandlerFits(slot'[t], status', contended')
  <2>1. HandlerFits(slot'[t], status, contended)
    BY <1>1 DEF ControlsInv
  <2> QED
    BY <2>1, FitStays
<1>3. ASSUME NEW d \in Documents \ contended' PROVE Holds(d, status', posted', slot', lost')
  <2>1. Holds(d, status, posted, slot, lost)
    BY <1>3 DEF ControlsInv
  <2>2. ~Busy(slot[s], d) /\ ~Busy(slot'[s], d)
    BY <1>1
  <2> QED
    BY <1>1, <2>1, <2>2, HoldsElsewhere
<1> QED
  BY <1>2, <1>3 DEF ControlsInv

\* A step of a handler of document d.
LEMMA MindedKeeps ==
  ASSUME BooksTyped, ControlsInv, NEW s \in Slots, NEW q, NEW d \in Documents,
         slot' = [slot EXCEPT ![s] = q],
         \A e : e # d => ~Busy(slot[s], e) /\ ~Busy(q, e),
         HandlerFits(q, status', contended'), RowsTold(posted'),
         \A e \in Documents \ {d} :
           status'[e] = status[e] /\ Sections(posted', e) = Sections(posted, e),
         contended \subseteq contended', lost \subseteq lost',
         d \notin contended' =>
           /\ \A t \in Slots \ {s} : ~Busy(slot[t], d)
           /\ status'[d] = status[d] \/ (status'[d] # "none" /\ status[d] # "reimbursed")
           /\ StandsWith(d, status'[d], Sections(posted', d), q, <<d, "posting">> \in lost')
  PROVE  ControlsInv'
<1>1. slot'[s] = q /\ \A t \in Slots \ {s} : slot'[t] = slot[t]
  BY DEF BooksTyped
<1>2. ASSUME NEW t \in Slots PROVE HandlerFits(slot'[t], status', contended')
  <2>1. CASE t = s
    BY <1>1, <2>1
  <2>2. CASE t # s
    <3>1. slot'[t] = slot[t] /\ HandlerFits(slot[t], status, contended)
      BY <1>1, <2>2 DEF ControlsInv
    <3>2. \A e \in Documents \ contended' :
            \/ status'[e] = status[e]
            \/ ~Busy(slot[t], e) /\ status'[e] # "none" /\ status[e] # "reimbursed"
      BY <2>2
    <3>3. HandlerFits(slot[t], status', contended')
      BY <3>1, <3>2, FitStays
    <3> QED
      BY <3>1, <3>3
  <2> QED
    BY <2>1, <2>2
<1>3. ASSUME NEW e \in Documents \ contended' PROVE Holds(e, status', posted', slot', lost')
  <2>1. CASE e = d
    <3>1. \A t \in Slots \ {s} : ~Busy(slot'[t], d)
      BY <1>1, <1>3, <2>1
    <3>2. StandsWith(d, status'[d], Sections(posted', d), slot'[s], <<d, "posting">> \in lost')
      BY <1>1, <1>3, <2>1
    <3> QED
      BY <2>1, <3>1, <3>2, HoldsWith
  <2>2. CASE e # d
    <3>1. Holds(e, status, posted, slot, lost)
      BY <1>3 DEF ControlsInv
    <3>2. /\ ~Busy(slot[s], e) /\ ~Busy(slot'[s], e)
          /\ status'[e] = status[e] /\ Sections(posted', e) = Sections(posted, e)
      BY <1>1, <1>3, <2>2
    <3> QED
      BY <1>1, <3>1, <3>2, HoldsElsewhere
  <2> QED
    BY <2>1, <2>2
<1> QED
  BY <1>2, <1>3 DEF ControlsInv

-----------------------------------------------------------------------------
(* What a posting does to what documents have on the books *)

\* The documents named have the same on the books, and so has d but for a part.
SameSections(rows, more, docs) == \A e \in docs : Sections(more, e) = Sections(rows, e)
SameButFor(rows, more, d, part) ==
  \A other \in Parts \ {part} : Section(more, d, other) = Section(rows, d, other)

\* Rows of one posting of a document join that, and nothing else.
LEMMA RowsPosted ==
  ASSUME NEW rows, RowsTold(rows), NEW d \in Documents, NEW what, MayPost(d, what), NEW m,
         NEW fresh, fresh \subseteq Planned(d, what, m)
  PROVE  /\ RowsTold(rows \cup fresh)
         /\ SameSections(rows, rows \cup fresh, Documents \ {d})
         /\ SameButFor(rows, rows \cup fresh, d, PartOfCall(what))
<1>1. \A r \in fresh : PlannedKey(r.key, d, what)
  BY PlannedKeyed
<1>2. \A r \in fresh : /\ r.key.doc = d /\ r.key.nth = 0 /\ r.key.leg \notin MovementWays
                       /\ PartOf(r.key) = PartOfCall(what)
                       /\ r.key.reversal => r.key.leg # "reimbursement"
  BY <1>1 DEF PlannedKey
<1>3. RowsTold(rows \cup fresh)
  BY <1>2 DEF RowsTold
<1>4. ASSUME NEW e, e # d, NEW part PROVE Section(rows \cup fresh, e, part) = Section(rows, e, part)
  BY <1>2, <1>4 DEF Section
<1>5. ASSUME NEW e, e # d PROVE Sections(rows \cup fresh, e) = Sections(rows, e)
  BY <1>4, <1>5 DEF Sections
<1>6. ASSUME NEW other \in Parts \ {PartOfCall(what)}
      PROVE  Section(rows \cup fresh, d, other) = Section(rows, d, other)
  BY <1>2 DEF Section
<1> QED
  BY <1>3, <1>5, <1>6 DEF SameSections, SameButFor

\* Rows of a movement belong to no posting of a document.
LEMMA GoodsPosted ==
  ASSUME NEW rows, RowsTold(rows), NEW d, NEW fresh, \A r \in fresh : GoodsRow(r, d)
  PROVE  /\ RowsTold(rows \cup fresh)
         /\ SameSections(rows, rows \cup fresh, Documents)
<1>1. RowsTold(rows \cup fresh)
  BY DEF RowsTold, GoodsRow
<1>2. ASSUME NEW e, NEW part PROVE Section(rows \cup fresh, e, part) = Section(rows, e, part)
  BY DEF Section, GoodsRow
<1> QED
  BY <1>1, <1>2 DEF Sections, SameSections

\* A posting is made in full, unless a part of it was made under another mapping.
LEMMA PostedWhole ==
  ASSUME NEW rows, RowsTold(rows), \A p \in rows : p.key.reversal \in BOOLEAN,
         NEW d \in Documents, NEW what, MayPost(d, what), NEW m \in Mappings,
         Complete(m), NEW plan, plan = Planned(d, what, m), plan # {},
         NEW fresh, fresh = {r \in plan : r.key \notin {p.key : p \in rows}},
         ~ /\ \E r \in plan, p \in rows : Alike(r.key, p.key)
           /\ \E r \in plan : \A p \in rows : p.key # r.key,
         Section(rows, d, PartOfCall(what)) = {}
           \/ IsWhole(d, PartOfCall(what), Section(rows, d, PartOfCall(what)))
  PROVE  IsWhole(d, PartOfCall(what), Section(rows \cup fresh, d, PartOfCall(what)))
<1> DEFINE part == PartOfCall(what)
           before == Section(rows, d, part)
           after == Section(rows \cup fresh, d, part)
<1>1. \A r \in plan : PlannedKey(r.key, d, what)
  BY PlannedKeyed
<1>2. after = before \cup fresh
  <2>1. \A r \in fresh : /\ r.key.doc = d /\ r.key.leg \notin MovementWays
                         /\ PartOf(r.key) = PartOfCall(what)
    BY <1>1 DEF PlannedKey
  <2> QED
    BY <2>1 DEF Section
<1>3. CASE \A r \in plan, p \in rows : ~Alike(r.key, p.key)
  <2>1. fresh = plan
    BY <1>3 DEF Alike
  <2>2. before = {}
    <3>1. PICK r \in plan : TRUE
      OBVIOUS
    <3>2. ASSUME NEW p \in before PROVE FALSE
      <4>1. /\ p \in rows /\ p.key.doc = d /\ p.key.leg \notin MovementWays
            /\ PartOf(p.key) = part
        BY <3>2 DEF Section
      <4>2. p.key.nth = 0 /\ (p.key.reversal => p.key.leg # "reimbursement")
        BY <4>1 DEF RowsTold
      <4>3. /\ r.key.doc = d /\ r.key.nth = 0 /\ PartOf(r.key) = part
            /\ r.key.reversal \in BOOLEAN /\ p.key.reversal \in BOOLEAN
            /\ r.key.reversal => r.key.leg # "reimbursement"
        BY <1>1, <4>1 DEF PlannedKey
      <4>4. /\ p.key.reversal <=> r.key.reversal
            /\ p.key.leg = "reimbursement" <=> r.key.leg = "reimbursement"
        BY <4>1, <4>2, <4>3 DEF PartOf
      <4>5. p.key.reversal = r.key.reversal
        BY <4>3, <4>4
      <4>6. Alike(r.key, p.key)
        BY <4>1, <4>2, <4>3, <4>4, <4>5 DEF Alike
      <4> QED
        BY <1>3, <4>1, <4>6
    <3> QED
      BY <3>2
  <2>3. after = plan
    BY <1>2, <2>1, <2>2
  <2>4. what \in Postings
    BY DEF MayPost, Postings
  <2> HIDE DEF after
  <2>5. IsWhole(d, part, after)
    BY <2>3, <2>4 DEF IsWhole
  <2> QED
    BY <2>5 DEF after
<1>4. CASE \A r \in plan : \E p \in rows : p.key = r.key
  <2>1. fresh = {}
    BY <1>4
  <2>2. PICK r \in plan, p \in rows : p.key = r.key
    BY <1>4
  <2>3. p \in before
    <3>1. r.key.doc = d /\ r.key.leg \notin MovementWays /\ PartOf(r.key) = part
      BY <1>1 DEF PlannedKey
    <3> QED
      BY <2>2, <3>1 DEF Section
  <2>4. IsWhole(d, part, before) /\ after = before
    BY <1>2, <2>1, <2>3
  <2> QED
    BY <2>4, Zenon
<1> QED
  BY <1>3, <1>4

-----------------------------------------------------------------------------
(* How a document stands once its handler has gone on *)

\* With the same left to do it stands as before, whatever else is found missing.
LEMMA SameStands ==
  ASSUME NEW d, NEW st, NEW S, NEW p, NEW q, NEW m, NEW n,
         StandsWith(d, st, S, q, m), SameLeft(p, q, d), m => n
  PROVE  StandsWith(d, st, S, p, n)
<1>1. {part \in Parts : Owing(p, d, part)} = {part \in Parts : Owing(q, d, part)}
  BY DEF SameLeft
<1>2. st = "undone" \/ Undoes(q, d) <=> st = "undone" \/ Undoes(p, d)
  BY DEF SameLeft
<1> QED
  BY <1>1, <1>2, StandsStill DEF StandsWith

\* With a posting missing it stands whatever is left to do.
LEMMA LackingStands ==
  ASSUME NEW d, NEW st, NEW S, NEW p, NEW q, NEW m, NEW n, StandsWith(d, st, S, q, m), n
  PROVE  StandsWith(d, st, S, p, n)
BY DEF StandsWith, Stands

\* A handler begins to undo it only if its mirror is to be posted, and it was issued.
LEMMA BegunStands ==
  ASSUME NEW d, NEW st, NEW S, NEW q, NEW m, StandsWith(d, st, S, <<>>, m),
         Undoes(q, d) => Owing(q, d, "undone"), Owing(q, d, "undone") => st = "issued"
  PROVE  StandsWith(d, st, S, q, m)
<1>1. ~Undoes(<<>>, d) /\ \A part : ~Owing(<<>>, d, part)
  BY ToldOfNone
<1>2. \A part : part \in Parts <=> part \in {"issued", "undone", "reimbursed"}
  BY DEF Parts
<1> QED
  BY <1>1, <1>2 DEF StandsWith, Stands

\* Written, it has still to be posted, or to be undone.
LEMMA WrittenStands ==
  ASSUME NEW d, NEW st, NEW S, NEW q, NEW x, NEW m, StandsWith(d, st, S, q, m),
         Written(q, d, st, x)
  PROVE  StandsWith(d, x, S, Tail(q), m)
<1>1. {part \in Parts : Owing(Tail(q), d, part)} = {part \in Parts : Owing(q, d, part)}
  BY DEF Written
<1> DEFINE O == {part \in Parts : Owing(q, d, part)}
<1>2. /\ x = "issued" => "issued" \in O /\ st = "none"
      /\ x = "reimbursed" => "reimbursed" \in O /\ st = "issued"
      /\ x \in {"issued", "undone", "reimbursed"}
      /\ x = "undone" => st = "issued"
  BY DEF Written, Parts
<1>3. (st = "undone" \/ Undoes(q, d)) <=> (x = "undone" \/ Undoes(Tail(q), d))
  BY DEF Written
<1>4. Stands(d, st, S, O, st = "undone" \/ Undoes(q, d), m)
  BY DEF StandsWith
<1> HIDE DEF O
<1>5. Stands(d, x, S, O, x = "undone" \/ Undoes(Tail(q), d), m)
  BY <1>2, <1>3, <1>4 DEF Stands
<1> QED
  BY <1>1, <1>5 DEF StandsWith, O

\* A part of it that was posted is not owed any more.
LEMMA PartedStands ==
  ASSUME NEW d, NEW st, NEW S, NEW q, NEW part, NEW m, NEW T, StandsWith(d, st, S, q, m),
         Parted(q, d, st, part), IsWhole(d, part, T[part]),
         \A other \in Parts \ {part} : T[other] = S[other]
  PROVE  StandsWith(d, st, T, Tail(q), m)
<1> DEFINE O == {p \in Parts : Owing(q, d, p)}
           Q == {p \in Parts : Owing(Tail(q), d, p)}
           u == st = "undone" \/ Undoes(q, d)
           v == st = "undone" \/ Undoes(Tail(q), d)
<1>1. Q = O \ {part} /\ part \in Parts
  BY DEF Parted
<1>2. (u <=> v) /\ (part # "undone" => st = part) /\ (part = "undone" => u)
  BY DEF Parted
<1>3. Stands(d, st, S, O, u, m)
  BY DEF StandsWith
<1>4. StandsWith(d, st, T, Tail(q), m) <=> Stands(d, st, T, Q, v, m)
  BY DEF StandsWith
<1> HIDE DEF O, Q, u, v
<1>5. Stands(d, st, T, Q, v, m)
  BY <1>1, <1>2, <1>3 DEF Stands, Parts
<1> QED
  BY <1>4, <1>5

\* If its goods are not there, nothing has been done to it.
LEMMA RefusedStands ==
  ASSUME NEW d, NEW st, NEW S, NEW q, NEW m, StandsWith(d, st, S, q, m), Carried(q, d, st)
  PROVE  StandsWith(d, st, S, <<>>, m)
<1>1. ~Undoes(<<>>, d) /\ \A part : ~Owing(<<>>, d, part)
  BY ToldOfNone
<1>2. /\ ~Undoes(q, d) /\ ~Owing(q, d, "undone") /\ ~Owing(q, d, "reimbursed")
      /\ st = "none" \/ ~Owing(q, d, "issued")
  BY DEF Carried
<1> QED
  BY <1>1, <1>2 DEF StandsWith, Stands, Parts

\* The repair makes a posting of a document in full, and may make up for all of it.
LEMMA RepairedStands ==
  ASSUME NEW d, NEW st, NEW S, NEW T, NEW owed, NEW u, NEW m, NEW n, NEW what, NEW part,
         Stands(d, st, S, owed, u, m), what \in {"issued", "reimbursed", "repaired"},
         part = PartOfCall(what), st # "none", what = "reimbursed" => st = "reimbursed",
         IsWhole(d, part, T[part]), \A other \in Parts \ {part} : T[other] = S[other],
         m /\ ~n =>
           /\ S["undone"] = {} /\ ~u
           /\ st = "issued" \/ (st = "reimbursed" /\ what = "reimbursed" /\ S["issued"] # {})
  PROVE  Stands(d, st, T, owed, u, n)
<1>1. part \in {"issued", "reimbursed"} /\ (part = "reimbursed" <=> what = "reimbursed")
  BY DEF PartOfCall
<1>2. CASE ~m
  BY <1>1, <1>2 DEF Stands, Parts
<1>3. CASE n
  BY <1>1, <1>3 DEF Stands, Parts
<1>4. CASE m /\ ~n
  BY <1>1, <1>4 DEF Stands, Parts
<1> QED
  BY <1>2, <1>3, <1>4

-----------------------------------------------------------------------------
(* What handlers go on to *)

\* What is left of a list that works on d works on nothing else.
LEMMA RestMinds ==
  ASSUME NEW q, NEW d, NEW st, q = <<>> \/ Doing(q, d, st), NEW e, e # d
  PROVE  ~Busy(q, e)
<1>1. ~Busy(<<>>, e)
  BY ToldOfNone
<1>2. ASSUME Doing(q, d, st) PROVE ~Busy(q, e)
  BY <1>2, DoingTold DEF Minds
<1> QED
  BY <1>1, <1>2

\* A document that a handler has to itself stands with what that has still to do.
LEMMA InHand ==
  ASSUME ControlsInv, NEW s \in Slots, NEW d, NEW x,
         Attends(slot[s], status, contended, d, x), d \notin contended
  PROVE  /\ \A t \in Slots \ {s} : ~Busy(slot[t], d)
         /\ status[d] = x
         /\ StandsWith(d, status[d], Sections(posted, d), slot[s], <<d, "posting">> \in lost)
<1>1. d \in Documents /\ status[d] = x /\ Busy(slot[s], d)
  BY DoingTold DEF Attends, Minds
<1>2. Holds(d, status, posted, slot, lost)
  BY <1>1 DEF ControlsInv
<1>3. \A t \in Slots \ {s} : ~Busy(slot[t], d)
  BY <1>1, <1>2 DEF Holds, Alone
<1> QED
  BY <1>1, <1>2, <1>3, HoldsWith

\* What a handler at its first call is about.
LEMMA AtHand ==
  ASSUME LedgerInv, ControlsInv, NEW s \in Slots, slot[s] # Idle
  PROVE  /\ CallFits(Call(s)) /\ PostingFits(Call(s))
         /\ \A i \in DOMAIN Tail(slot[s]) : PostingFits(Tail(slot[s])[i])
         /\ \A c : PostingFits(c) => \A i \in DOMAIN (<<c>> \o Tail(slot[s])) :
                                       PostingFits((<<c>> \o Tail(slot[s]))[i])
         /\ \/ Journals(slot[s]) \/ GoesOnRepairing(slot[s], status, contended)
            \/ \E d, x : Attends(slot[s], status, contended, d, x)
<1>1. Fits(slot[s]) /\ HandlerFits(slot[s], status, contended) /\ slot[s] # <<>>
  BY DEF LedgerInv, BooksTyped, ControlsInv, Idle
<1>2. CallFits(Call(s))
  BY CallAndRest
<1> QED
  BY <1>1, <1>2, HeadTells, Zenon DEF Call

\* Who writes a document or moves its goods works on it.
LEMMA AtDocument ==
  ASSUME LedgerInv, ControlsInv, NEW s \in Slots, slot[s] # Idle,
         Call(s).do \in {"write", "record", "apply"}
  PROVE  \E d, x : Attends(slot[s], status, contended, d, x)
<1>1. ~Journals(slot[s])
  BY DEF Journals, Call, JournalCalls
<1>2. ~GoesOnRepairing(slot[s], status, contended)
  BY DEF GoesOnRepairing, RepairCall, Call
<1> QED
  BY <1>1, <1>2, AtHand

\* The list that is left fits when it is empty or still works on the document.
LEMMA RestFitsOn ==
  ASSUME NEW q, \A i \in DOMAIN q : PostingFits(q[i]), NEW st, NEW contested,
         NEW d \in Documents, NEW x, q = <<>> \/ Doing(q, d, x), d \notin contested => st[d] = x
  PROVE  HandlerFits(q, st, contested)
<1>1. ASSUME Doing(q, d, x) PROVE Attends(q, st, contested, d, x)
  BY <1>1 DEF Attends
<1> QED
  BY <1>1 DEF HandlerFits

\* Writing a document.
LEMMA WriteControls ==
  ASSUME LedgerInv, ControlsInv, NEW s \in Slots, WriteDocument(s)
  PROVE  ControlsInv'
<1> DEFINE q == slot[s]
           r == Tail(q)
<1>1. q # Idle /\ Call(s).do = "write" /\ Call(s) = Head(q)
  BY DEF WriteDocument, At, Call
<1>2. PICK d, x : Attends(q, status, contended, d, x)
  BY <1>1, AtDocument
<1>3. PICK y : Written(q, d, x, y)
  BY <1>1, <1>2, DoingTold DEF Attends
<1>4. d \in Documents /\ Doing(q, d, x) /\ (d \notin contended => status[d] = x)
  BY <1>2 DEF Attends
<1>5. Call(s).doc = d /\ Call(s).status = y
  BY <1>1, <1>3, CallsTold DEF Written
<1>6. /\ slot' = [slot EXCEPT ![s] = r] /\ status' = [status EXCEPT ![d] = y]
      /\ posted' = posted /\ contended' = contended /\ lost' = lost
  BY <1>5 DEF WriteDocument, Continue, historyVars, ledgerVars
<1>7. \A i \in DOMAIN r : PostingFits(r[i])
  BY <1>1, AtHand
<1>8. BooksTyped
  BY DEF LedgerInv
<1>9. status'[d] = y /\ \A e \in Documents \ {d} : status'[e] = status[e]
  BY <1>4, <1>6, <1>8 DEF BooksTyped
<1> HIDE DEF r
<1>10. r = <<>> \/ Doing(r, d, y)
  BY <1>3 DEF Written, r
<1>11. HandlerFits(r, status', contended')
  BY <1>4, <1>7, <1>9, <1>10, RestFitsOn
<1>12. \A e : e # d => ~Busy(q, e) /\ ~Busy(r, e)
  BY <1>4, <1>10, RestMinds
<1>13. ASSUME d \notin contended'
       PROVE  /\ \A t \in Slots \ {s} : ~Busy(slot[t], d)
              /\ status'[d] # "none" /\ status[d] # "reimbursed"
              /\ StandsWith(d, status'[d], Sections(posted', d), r, <<d, "posting">> \in lost')
  <2>1. /\ \A t \in Slots \ {s} : ~Busy(slot[t], d)
        /\ status[d] = x
        /\ StandsWith(d, status[d], Sections(posted, d), q, <<d, "posting">> \in lost)
    BY <1>2, <1>6, <1>13, InHand
  <2>2. y # "none" /\ x # "reimbursed"
    BY <1>3 DEF Written
  <2>3. StandsWith(d, x, Sections(posted, d), q, <<d, "posting">> \in lost)
    BY <2>1
  <2>4. StandsWith(d, y, Sections(posted, d), r, <<d, "posting">> \in lost)
    BY <1>3, <2>3, WrittenStands DEF r
  <2> QED
    BY <1>6, <1>9, <2>1, <2>2, <2>4
<1>14. RowsTold(posted')
  BY <1>6 DEF ControlsInv
<1> HIDE DEF q
<1>15. \A e : e # d => ~Busy(slot[s], e) /\ ~Busy(r, e)
  BY <1>12 DEF q
<1> QED
  BY <1>4, <1>6, <1>8, <1>9, <1>11, <1>13, <1>14, <1>15, MindedKeeps

\* A step that leaves the status of the handler's document as it was.
LEMMA AttendedKeeps ==
  ASSUME LedgerInv, ControlsInv, NEW s \in Slots, NEW d, NEW x,
         Attends(slot[s], status, contended, d, x), NEW p, slot' = [slot EXCEPT ![s] = p],
         \A i \in DOMAIN p : PostingFits(p[i]), p = <<>> \/ Doing(p, d, x),
         status' = status, RowsTold(posted'),
         \A e \in Documents \ {d} : Sections(posted', e) = Sections(posted, e),
         contended \subseteq contended', lost \subseteq lost',
         d \notin contended' /\ status[d] = x
           /\ StandsWith(d, x, Sections(posted, d), slot[s], <<d, "posting">> \in lost)
           => StandsWith(d, x, Sections(posted', d), p, <<d, "posting">> \in lost')
  PROVE  ControlsInv'
<1>1. d \in Documents /\ Doing(slot[s], d, x) /\ (d \notin contended => status[d] = x)
  BY DEF Attends
<1>2. BooksTyped
  BY DEF LedgerInv
<1>3. d \notin contended' => status'[d] = x
  BY <1>1
<1>4. HandlerFits(p, status', contended')
  BY <1>1, <1>3, RestFitsOn
<1>5. \A e : e # d => ~Busy(slot[s], e) /\ ~Busy(p, e)
  BY <1>1, RestMinds
<1>6. ASSUME d \notin contended'
      PROVE  /\ \A t \in Slots \ {s} : ~Busy(slot[t], d)
             /\ status'[d] = status[d]
             /\ StandsWith(d, status'[d], Sections(posted', d), p, <<d, "posting">> \in lost')
  <2>1. /\ \A t \in Slots \ {s} : ~Busy(slot[t], d)
        /\ status[d] = x
        /\ StandsWith(d, status[d], Sections(posted, d), slot[s], <<d, "posting">> \in lost)
    BY <1>6, InHand
  <2>2. StandsWith(d, x, Sections(posted, d), slot[s], <<d, "posting">> \in lost)
    BY <2>1
  <2>3. StandsWith(d, x, Sections(posted', d), p, <<d, "posting">> \in lost')
    BY <1>6, <2>1, <2>2
  <2> QED
    BY <1>3, <1>6, <2>1, <2>3
<1>7. \A e \in Documents \ {d} :
        status'[e] = status[e] /\ Sections(posted', e) = Sections(posted, e)
  OBVIOUS
<1> QED
  BY <1>1, <1>2, <1>4, <1>5, <1>6, <1>7, MindedKeeps

\* What a handler has still to post or to undo is unmade if it stops.
LEMMA UnmadeTold ==
  ASSUME NEW q, NEW d
  PROVE  /\ \A part \in Parts : Owing(q, d, part) => <<d, "posting">> \in Unmade(q)
         /\ Undoes(q, d) => <<d, "posting">> \in Unmade(q)
<1> DEFINE of(c) == IF c.do \in {"record", "apply"} THEN {Concern(c.doc, c.way)}
                    ELSE IF c.do = "write" THEN {Concern(c.doc, c.status)}
                    ELSE IF c.do \in {"plan", "commit"} THEN {Concern(c.doc, c.what)}
                    ELSE {}
<1>1. \A part \in Parts : Concern(d, part) = <<d, "posting">>
  BY DEF Concern, Parts, MovementWays
<1>2. Unmade(q) = UNION {of(q[i]) : i \in DOMAIN q}
  BY DEF Unmade
<1>3. ASSUME NEW part \in Parts, NEW c, PostsPart(c, d, part) PROVE <<d, "posting">> \in of(c)
  BY <1>1, <1>3 DEF PostsPart
<1>4. <<d, "posting">> \in of(Write(d, "undone"))
  <2>1. /\ Write(d, "undone").do = "write" /\ Write(d, "undone").doc = d
        /\ Write(d, "undone").status = "undone"
    BY CallsTold
  <2>2. "undone" \in Parts
    BY DEF Parts
  <2> QED
    BY <1>1, <2>1, <2>2
<1> HIDE DEF of
<1>5. ASSUME NEW part \in Parts, Owing(q, d, part) PROVE <<d, "posting">> \in Unmade(q)
  BY <1>2, <1>3, <1>5 DEF Owing
<1>6. ASSUME Undoes(q, d) PROVE <<d, "posting">> \in Unmade(q)
  BY <1>2, <1>4, <1>6 DEF Undoes
<1> QED
  BY <1>5, <1>6

\* Moving the goods of a document.
LEMMA MoveControls ==
  ASSUME LedgerInv, ControlsInv, NEW s \in Slots, MoveStock(s)
  PROVE  ControlsInv'
<1> DEFINE q == slot[s]
           n == movements[Call(s).doc] + 1
           call == PostMove(Call(s).doc, Call(s).way, n)
           next == <<call>> \o Tail(q)
           p == IF At(s, "record") THEN next ELSE Tail(q)
<1>1. q # Idle /\ Call(s).do \in {"record", "apply"} /\ Call(s) = Head(q)
      /\ (At(s, "record") <=> Call(s).do = "record")
  BY DEF MoveStock, Moving, At, Call
<1>2. PICK d, x : Attends(q, status, contended, d, x)
  BY <1>1, AtDocument
<1>3. /\ slot' = [slot EXCEPT ![s] = p] /\ status' = status
      /\ posted' = posted /\ contended' = contended /\ lost' = lost
  BY DEF MoveStock, historyVars, ledgerVars
<1>4. /\ CallFits(Call(s)) /\ \A i \in DOMAIN Tail(q) : PostingFits(Tail(q)[i])
      /\ \A c : PostingFits(c) => \A i \in DOMAIN (<<c>> \o Tail(q)) :
                                    PostingFits((<<c>> \o Tail(q))[i])
  BY <1>1, AtHand
<1>5. Doing(q, d, x) /\ d \in Documents
  BY <1>2 DEF Attends
<1>6. /\ Call(s).do = "record" => Carried(q, d, x)
      /\ Call(s).do = "apply" => Applied(q, d, x)
  BY <1>1, <1>5, DoingTold
<1>7. Call(s).doc = d /\ Call(s).way \in MovementWays
  BY <1>1, <1>4, <1>6 DEF Carried, Applied, MovesGoods, CallFits
<1>8. MovesGoods(call, d) /\ PostingFits(call)
  <2>1. movements[d] \in Nat
    BY <1>5 DEF LedgerInv, BooksTyped
  <2>2. n \in Nat \ {0}
    BY <1>7, <2>1
  <2> HIDE DEF n
  <2>3. call.do = "plan" /\ call.doc = d /\ call.what = Call(s).way /\ call.nth = n
    BY <1>7, CallsTold
  <2> QED
    BY <1>7, <2>2, <2>3 DEF MovesGoods, PostingFits
<1> HIDE DEF call, n
<1>9. /\ \A i \in DOMAIN p : PostingFits(p[i])
      /\ Doing(p, d, x) /\ SameLeft(p, q, d)
  <2>1. CASE At(s, "record")
    BY <1>1, <1>4, <1>6, <1>8, <2>1 DEF Carried
  <2>2. CASE ~At(s, "record")
    BY <1>1, <1>4, <1>6, <2>2 DEF Applied
  <2> QED
    BY <2>1, <2>2
<1> HIDE DEF p
<1>10. RowsTold(posted')
  BY <1>3 DEF ControlsInv
<1>11. ASSUME StandsWith(d, x, Sections(posted, d), q, <<d, "posting">> \in lost)
       PROVE  StandsWith(d, x, Sections(posted', d), p, <<d, "posting">> \in lost')
  <2> DEFINE m == <<d, "posting">> \in lost
             S == Sections(posted, d)
  <2> HIDE DEF m, S
  <2>1. StandsWith(d, x, S, p, m)
    BY <1>9, <1>11, SameStands DEF m, S
  <2> QED
    BY <1>3, <2>1 DEF m, S
<1>12. \A e \in Documents \ {d} : Sections(posted', e) = Sections(posted, e)
  BY <1>3
<1> QED
  BY <1>2, <1>3, <1>9, <1>10, <1>11, <1>12, AttendedKeeps

\* Goods that are not there.
LEMMA RefuseControls ==
  ASSUME LedgerInv, ControlsInv, NEW s \in Slots, RefuseMove(s)
  PROVE  ControlsInv'
<1> DEFINE q == slot[s]
<1>1. q # Idle /\ Call(s).do \in {"record", "apply"} /\ Call(s) = Head(q)
      /\ (At(s, "apply") <=> Call(s).do = "apply")
  BY DEF RefuseMove, Moving, At, Call
<1>2. PICK d, x : Attends(q, status, contended, d, x)
  BY <1>1, AtDocument
<1>3. /\ slot' = [slot EXCEPT ![s] = <<>>] /\ status' = status
      /\ posted' = posted /\ contended' = contended /\ lost \subseteq lost'
      /\ At(s, "apply") => Unmade(q) \subseteq lost'
      /\ ~At(s, "apply") => lost' = lost
  BY DEF RefuseMove, ledgerVars, documentVars, Idle
<1>4. Doing(q, d, x) /\ d \in Documents
  BY <1>2 DEF Attends
<1>5. /\ Call(s).do = "record" => Carried(q, d, x)
      /\ Call(s).do = "apply" => Applied(q, d, x)
  BY <1>1, <1>4, DoingTold
<1>6. RowsTold(posted')
  BY <1>3 DEF ControlsInv
<1>7. ASSUME StandsWith(d, x, Sections(posted, d), q, <<d, "posting">> \in lost)
      PROVE  StandsWith(d, x, Sections(posted', d), <<>>, <<d, "posting">> \in lost')
  <2> DEFINE m == <<d, "posting">> \in lost
             n == <<d, "posting">> \in lost'
             S == Sections(posted, d)
  <2>1. CASE Call(s).do = "apply"
    <3>1. Owing(q, d, "issued") /\ "issued" \in Parts
      BY <1>5, <2>1 DEF Applied, Parts
    <3>2. n
      BY <1>1, <1>3, <2>1, <3>1, UnmadeTold
    <3> HIDE DEF m, n, S
    <3>3. StandsWith(d, x, S, <<>>, n)
      BY <1>7, <3>2, LackingStands DEF m, S
    <3> QED
      BY <1>3, <3>3 DEF n, S
  <2>2. CASE Call(s).do = "record"
    <3>1. n = m
      BY <1>1, <1>3, <2>2
    <3> HIDE DEF m, n, S
    <3>2. StandsWith(d, x, S, <<>>, m)
      BY <1>5, <1>7, <2>2, RefusedStands DEF m, S
    <3> QED
      BY <1>3, <3>1, <3>2 DEF n, S
  <2> QED
    BY <1>1, <2>1, <2>2
<1>8. \A e \in Documents \ {d} : Sections(posted', e) = Sections(posted, e)
  BY <1>3
<1>9. \A i \in DOMAIN <<>> : PostingFits(<<>>[i])
  OBVIOUS
<1> QED
  BY <1>2, <1>3, <1>6, <1>7, <1>8, <1>9, AttendedKeeps

\* What is planned fits the books, as a call that posts it.
LEMMA PlanFits ==
  ASSUME NEW c, PostingFits(c), c.do = "plan", NEW m \in Mappings, Complete(m), NEW k,
         k.do = "commit", k.doc = c.doc, k.what = c.what, k.rows = PlannedRows(c, m)
  PROVE  PostingFits(k)
<1>1. CASE c.what \in MovementWays /\ c.nth # 0
  <2> DEFINE legs == MovementLegs(c.doc, c.what, Perpetual(m))
  <2>1. c.what # "undone"
    BY <1>1 DEF MovementWays
  <2>2. k.rows = Rows(c.doc, legs, c.nth, m)
    BY <1>1, <2>1 DEF PlannedRows, Legs
  <2>3. \A l \in legs : l.name = c.what
    BY DEF MovementLegs, Leg, Swapped
  <2> HIDE DEF legs
  <2>4. \A r \in Rows(c.doc, legs, c.nth, m) :
          \E l \in legs : l.amount # 0 /\ Keyed(r.key, c.doc, l.name, c.nth, FALSE)
    BY RowKeys, Zenon
  <2>5. \A r \in k.rows : GoodsRow(r, c.doc)
    BY <1>1, <2>2, <2>3, <2>4 DEF Keyed, GoodsRow
  <2> QED
    BY <1>1, <2>5 DEF PostingFits
<1>2. CASE MayPost(c.doc, c.what) /\ c.nth = 0
  <2>1. PlannedRows(c, m) = Planned(c.doc, c.what, m)
    BY <1>2 DEF PlannedRows, Planned
  <2> QED
    BY <1>2, <2>1 DEF PostingFits
<1> QED
  BY <1>1, <1>2 DEF PostingFits

\* Planning a posting.
LEMMA PlanControls ==
  ASSUME LedgerInv, ControlsInv, NEW s \in Slots, PlanPosting(s)
  PROVE  ControlsInv'
<1> DEFINE q == slot[s]
           c == Call(s)
           rows == IF Complete(mapping) THEN PlannedRows(c, mapping) ELSE {}
           k == Commit(c.doc, c.what, rows, debitNormal)
           p == IF rows = {} THEN Tail(q) ELSE <<k>> \o Tail(q)
<1>1. q # Idle /\ c.do = "plan" /\ c = Head(q)
  BY DEF PlanPosting, At, Call
<1>2. /\ slot' = [slot EXCEPT ![s] = p]
      /\ ~Complete(mapping) => Concern(c.doc, c.what) \in lost'
      /\ lost \subseteq lost'
  BY Zenon DEF PlanPosting
<1>3. status' = status /\ posted' = posted /\ contended' = contended
  BY DEF PlanPosting, ledgerVars, documentVars
<1>4. /\ PostingFits(c)
      /\ \A i \in DOMAIN Tail(q) : PostingFits(Tail(q)[i])
      /\ \A b : PostingFits(b) => \A i \in DOMAIN (<<b>> \o Tail(q)) :
                                    PostingFits((<<b>> \o Tail(q))[i])
      /\ \/ Journals(q) \/ GoesOnRepairing(q, status, contended)
         \/ \E d, x : Attends(q, status, contended, d, x)
  BY <1>1, AtHand
<1>5. mapping \in Mappings
  BY DEF LedgerInv, BooksTyped
<1>6. k.do = "commit" /\ k.doc = c.doc /\ k.what = c.what /\ k.rows = rows
  BY DEF Commit
<1>7. ~Complete(mapping) => rows = {}
  OBVIOUS
<1>8. Complete(mapping) => rows = PlannedRows(c, mapping)
  OBVIOUS
<1> HIDE DEF k, rows, c, q
<1>9. rows # {} => PostingFits(k)
  BY <1>1, <1>4, <1>5, <1>6, <1>7, <1>8, PlanFits
<1>10. \A i \in DOMAIN p : PostingFits(p[i])
  BY <1>4, <1>9
<1>11. BooksTyped
  BY DEF LedgerInv
<1>12. CASE GoesOnRepairing(q, status, contended)
  <2>1. /\ Reports(q) /\ RepairCall(c, status, contended)
        /\ InRepair(Tail(q), status, contended) /\ Reports(Tail(q))
        /\ \A b : RepairCall(b, status, contended) =>
             InRepair(<<b>> \o Tail(q), status, contended) /\ Reports(<<b>> \o Tail(q))
    BY <1>1, <1>12 DEF GoesOnRepairing
  <2>2. RepairCall(k, status, contended)
    BY <1>6, <2>1 DEF RepairCall
  <2>3. InRepair(p, status, contended) /\ Reports(p)
    BY <2>1, <2>2
  <2> HIDE DEF p
  <2>4. \A e : ~Busy(q, e) /\ ~Busy(p, e)
    BY <2>1, <2>3 DEF Busy
  <2>5. HandlerFits(p, status, contended)
    BY <1>10, <2>3 DEF HandlerFits
  <2> QED
    BY <1>2, <1>3, <1>11, <2>4, <2>5, SilentKeeps DEF q
<1>13. ASSUME NEW d, NEW x, Attends(q, status, contended, d, x)
       PROVE  ControlsInv'
  <2>1. Doing(q, d, x) /\ d \in Documents
    BY <1>13 DEF Attends
  <2>2. \/ c.what \in MovementWays /\ Carried(q, d, x)
        \/ c.what \in Parts /\ Parted(q, d, x, c.what)
    BY <1>1, <2>1, DoingTold
  <2>3. c.doc = d
    BY <1>1, <2>2 DEF Carried, Parted, MovesGoods, PostsPart
  <2>4. p = <<>> \/ Doing(p, d, x)
    BY <1>6, <2>2, <2>3 DEF Carried, Parted, MovesGoods, PostsPart
  <2>5. c.what \in MovementWays \/ rows # {} => SameLeft(p, q, d)
    <3>1. CASE c.what \in MovementWays /\ Carried(q, d, x)
      BY <1>6, <2>3, <3>1 DEF Carried, MovesGoods
    <3>2. CASE c.what \in Parts /\ Parted(q, d, x, c.what)
      <4>1. c.what \notin MovementWays
        BY <3>2 DEF Parts, MovementWays
      <4> QED
        BY <1>6, <2>3, <3>2, <4>1 DEF Parted, PostsPart
    <3> QED
      BY <2>2, <3>1, <3>2
  <2>6. ASSUME StandsWith(d, x, Sections(posted, d), q, <<d, "posting">> \in lost)
        PROVE  StandsWith(d, x, Sections(posted', d), p, <<d, "posting">> \in lost')
    <3> DEFINE m == <<d, "posting">> \in lost
               n == <<d, "posting">> \in lost'
               S == Sections(posted, d)
    <3>1. m => n
      BY <1>2
    <3>2. Sections(posted', d) = S
      BY <1>3
    <3> HIDE DEF m, n, S, p
    <3>3. CASE SameLeft(p, q, d)
      BY <2>6, <3>1, <3>2, <3>3, SameStands DEF m, n, S
    <3>4. CASE rows = {} /\ c.what \in Parts /\ Parted(q, d, x, c.what)
      <4>1. p = Tail(q) /\ c.what \notin MovementWays
        BY <3>4 DEF p, Parts, MovementWays
      <4>2. CASE Complete(mapping)
        <5>1. MayPost(d, c.what) /\ c.nth = 0 /\ PartOfCall(c.what) = c.what
          BY <1>1, <1>4, <2>3, <3>4, <4>1 DEF PostingFits, PartOfCall, Parts
        <5>2. {} = Planned(d, c.what, mapping)
          BY <1>8, <2>3, <3>4, <4>2, <5>1 DEF PlannedRows, Planned
        <5>3. c.what \in Postings
          BY <3>4 DEF Parts, Postings
        <5>4. IsWhole(d, c.what, {})
          BY <1>5, <4>2, <5>1, <5>2, <5>3 DEF IsWhole
        <5>5. IsWhole(d, c.what, S[c.what])
          BY <2>6, <3>4, <5>4 DEF StandsWith, Stands, S
        <5>6. StandsWith(d, x, S, Tail(q), m)
          BY <2>6, <3>4, <5>5, PartedStands DEF m, S
        <5>7. StandsWith(d, x, S, Tail(q), n)
          BY <3>1, <5>6, StandsStill DEF StandsWith
        <5> QED
          BY <3>2, <4>1, <5>7 DEF n
      <4>3. CASE ~Complete(mapping)
        <5>1. Concern(c.doc, c.what) = <<d, "posting">>
          BY <2>3, <4>1 DEF Concern
        <5>2. n
          BY <1>2, <4>3, <5>1 DEF n
        <5> QED
          BY <2>6, <3>2, <5>2, LackingStands DEF m, n, S
      <4> QED
        BY <4>2, <4>3
    <3> QED
      BY <2>2, <2>5, <3>3, <3>4
  <2>7. RowsTold(posted')
    BY <1>3 DEF ControlsInv
  <2>8. \A e \in Documents \ {d} : Sections(posted', e) = Sections(posted, e)
    BY <1>3
  <2> HIDE DEF p
  <2> QED
    BY <1>2, <1>3, <1>10, <1>13, <2>4, <2>6, <2>7, <2>8, AttendedKeeps DEF q
<1>14. ~Journals(q)
  BY <1>1 DEF Journals, JournalCalls
<1> QED
  BY <1>4, <1>12, <1>13, <1>14

\* What a call that posts adds to the books, and to its document.
LEMMA CommitRows ==
  ASSUME LedgerInv, ControlsInv, NEW c, PostingFits(c), c.do = "commit", c.doc \in Documents,
         NEW fresh, fresh = {r \in c.rows : r.key \notin {p.key : p \in posted}}
  PROVE  /\ RowsTold(posted \cup fresh)
         /\ SameSections(posted, posted \cup fresh, Documents \ {c.doc})
         /\ c.what \in MovementWays => SameSections(posted, posted \cup fresh, Documents)
         /\ c.what \notin MovementWays =>
              /\ SameButFor(posted, posted \cup fresh, c.doc, PartOfCall(c.what))
              /\ c.doc \notin contended /\ ~Piecemeal(c.rows) =>
                   IsWhole(c.doc, PartOfCall(c.what),
                           Section(posted \cup fresh, c.doc, PartOfCall(c.what)))
<1>1. RowsTold(posted)
  BY DEF ControlsInv
<1>2. CASE c.what \in MovementWays /\ \A r \in c.rows : GoodsRow(r, c.doc)
  <2>1. \A r \in fresh : GoodsRow(r, c.doc)
    BY <1>2
  <2>2. RowsTold(posted \cup fresh) /\ SameSections(posted, posted \cup fresh, Documents)
    BY <1>1, <2>1, GoodsPosted
  <2> QED
    BY <1>2, <2>2 DEF SameSections
<1>3. ASSUME MayPost(c.doc, c.what), NEW m \in Mappings, Complete(m),
             c.rows = Planned(c.doc, c.what, m)
      PROVE  /\ RowsTold(posted \cup fresh)
             /\ SameSections(posted, posted \cup fresh, Documents \ {c.doc})
             /\ c.what \notin MovementWays
             /\ SameButFor(posted, posted \cup fresh, c.doc, PartOfCall(c.what))
             /\ c.doc \notin contended /\ ~Piecemeal(c.rows) =>
                  IsWhole(c.doc, PartOfCall(c.what),
                          Section(posted \cup fresh, c.doc, PartOfCall(c.what)))
  <2> DEFINE part == PartOfCall(c.what)
             plan == c.rows
  <2>1. fresh \subseteq Planned(c.doc, c.what, m)
    BY <1>3
  <2>2. /\ RowsTold(posted \cup fresh)
        /\ SameSections(posted, posted \cup fresh, Documents \ {c.doc})
        /\ SameButFor(posted, posted \cup fresh, c.doc, part)
    BY <1>1, <1>3, <2>1, RowsPosted
  <2>3. c.what \notin MovementWays /\ part \in Parts /\ c.what \in Postings
    BY <1>3 DEF MayPost, MovementWays, PartOfCall, Parts, Postings
  <2>4. ASSUME c.doc \notin contended, ~Piecemeal(c.rows)
        PROVE  IsWhole(c.doc, part, Section(posted \cup fresh, c.doc, part))
    <3>1. Sections(posted, c.doc)[part] = {} \/ IsWhole(c.doc, part, Sections(posted, c.doc)[part])
      BY <2>3, <2>4 DEF ControlsInv, Holds, Stands
    <3>2. Section(posted, c.doc, part) = {} \/ IsWhole(c.doc, part, Section(posted, c.doc, part))
      BY <2>3, <3>1 DEF Sections
    <3>3. \A p \in posted : p.key.reversal \in BOOLEAN
      BY DEF LedgerInv, BooksTyped, Bookable, Entries, Keys
    <3>4. ~ /\ \E r \in plan, p \in posted : Alike(r.key, p.key)
            /\ \E r \in plan : \A p \in posted : p.key # r.key
      BY <2>4 DEF Piecemeal
    <3>5. CASE plan # {}
      <4> HIDE DEF plan, part
      <4>1. plan = Planned(c.doc, c.what, m) /\ plan # {}
            /\ fresh = {r \in plan : r.key \notin {p.key : p \in posted}}
        BY <1>3, <3>5 DEF plan
      <4> DEFINE d == c.doc
                 what == c.what
      <4>2. /\ d \in Documents /\ MayPost(d, what) /\ part = PartOfCall(what)
            /\ plan = Planned(d, what, m)
            /\ Section(posted, d, part) = {} \/ IsWhole(d, part, Section(posted, d, part))
        BY <1>3, <3>2, <4>1 DEF part
      <4> HIDE DEF d, what
      <4>3. IsWhole(d, part, Section(posted \cup fresh, d, part))
        BY <1>1, <1>3, <3>3, <3>4, <4>1, <4>2, PostedWhole
      <4> QED
        BY <4>3 DEF d
    <3>6. CASE plan = {}
      <4>1. fresh = {} /\ posted \cup fresh = posted
        BY <3>6
      <4>2. {} = Planned(c.doc, c.what, m)
        BY <1>3, <3>6
      <4>3. IsWhole(c.doc, part, {})
        BY <1>3, <2>3, <4>2 DEF IsWhole
      <4> QED
        BY <3>2, <4>1, <4>3
    <3> QED
      BY <3>5, <3>6
  <2> QED
    BY <2>2, <2>3, <2>4
<1> QED
  BY <1>2, <1>3 DEF PostingFits

\* A call of the repair that posts, for all documents and handlers.
LEMMA RepairControls ==
  ASSUME LedgerInv, ControlsInv, NEW s \in Slots, CommitPosting(s),
         GoesOnRepairing(slot[s], status, contended)
  PROVE  ControlsInv'
<1> DEFINE q == slot[s]
           c == Call(s)
           d == c.doc
           part == PartOfCall(c.what)
           fresh == {r \in c.rows : r.key \notin {p.key : p \in posted}}
<1>1. q # Idle /\ c.do = "commit" /\ c = Head(q)
  BY DEF CommitPosting, At, Call
<1>2. /\ posted' = posted \cup fresh /\ status' = status
      /\ slot' = [slot EXCEPT ![s] = Tail(q)]
  BY DEF CommitPosting, Post, Continue, documentVars
<1>3. /\ lost' = (lost \ (IF MadeUp(s, c) THEN {<<d, "posting">>} ELSE {}))
                   \cup (IF c.what = "repaired" THEN {<<d, "goods">>} ELSE {})
      /\ contended' = contended \cup (IF Piecemeal(c.rows) THEN {d} ELSE {})
  BY Zenon DEF CommitPosting
<1>4. PostingFits(c) /\ \A i \in DOMAIN Tail(q) : PostingFits(Tail(q)[i])
  BY <1>1, AtHand
<1>5. /\ Reports(q) /\ RepairCall(c, status, contended)
      /\ InRepair(Tail(q), status, contended) /\ Reports(Tail(q))
      /\ \A e : ~Busy(q, e) /\ ~Busy(Tail(q), e)
  BY <1>1 DEF GoesOnRepairing, Busy
<1>6. /\ d \in Documents /\ c.what \in {"issued", "reimbursed", "repaired"}
      /\ d \notin contended =>
           status[d] # "none" /\ (c.what = "reimbursed" => status[d] = "reimbursed")
  BY <1>5 DEF RepairCall
<1>7. c.what \notin MovementWays /\ part \in Parts
  BY <1>6 DEF MovementWays, PartOfCall, Parts
<1>8. /\ RowsTold(posted')
      /\ SameSections(posted, posted', Documents \ {d})
      /\ SameButFor(posted, posted', d, part)
      /\ d \notin contended /\ ~Piecemeal(c.rows) => IsWhole(d, part, Section(posted', d, part))
  BY <1>1, <1>2, <1>4, <1>6, <1>7, CommitRows
<1> HIDE DEF fresh, part
<1>9. slot'[s] = Tail(q) /\ \A t \in Slots \ {s} : slot'[t] = slot[t]
  BY <1>2 DEF LedgerInv, BooksTyped
<1>10. contended \subseteq contended'
  BY <1>3
<1>11. ASSUME NEW t \in Slots PROVE HandlerFits(slot'[t], status', contended')
  <2>1. HandlerFits(Tail(q), status, contended)
    BY <1>4, <1>5 DEF HandlerFits
  <2>2. HandlerFits(slot'[t], status, contended)
    <3>1. CASE t = s
      BY <1>9, <2>1, <3>1
    <3>2. CASE t # s
      <4>1. slot'[t] = slot[t]
        BY <1>9, <3>2
      <4>2. HandlerFits(slot[t], status, contended)
        BY DEF ControlsInv
      <4> QED
        BY <4>1, <4>2
    <3> QED
      BY <3>1, <3>2
  <2>3. \A e \in Documents \ contended' : status'[e] = status[e]
    BY <1>2
  <2> QED
    BY <1>10, <2>2, <2>3, FitStays
<1>12. ASSUME NEW e \in Documents \ contended PROVE Holds(e, status, posted, slot', lost)
  <2>1. Holds(e, status, posted, slot, lost)
    BY DEF ControlsInv
  <2>2. ~Busy(slot[s], e) /\ ~Busy(slot'[s], e)
    BY <1>5, <1>9
  <2>3. lost \subseteq lost
    OBVIOUS
  <2> QED
    BY <1>9, <2>1, <2>2, <2>3, HoldsElsewhere
<1>13. ASSUME NEW e \in Documents \ contended', e # d
       PROVE  Holds(e, status', posted', slot', lost')
  <2>1. Holds(e, status, posted, slot', lost)
    BY <1>10, <1>12
  <2>2. Sections(posted', e) = Sections(posted, e)
    BY <1>8, <1>13 DEF SameSections
  <2>3. <<e, "posting">> \in lost' <=> <<e, "posting">> \in lost
    BY <1>3, <1>13
  <2> DEFINE m == <<e, "posting">> \in lost
             n == <<e, "posting">> \in lost'
  <2> HIDE DEF m, n
  <2>4. /\ Alone(slot', e)
        /\ Stands(e, status[e], Sections(posted, e), Owed(slot', e),
                  Undoing(slot', status[e], e), m)
    BY <2>1 DEF Holds, m
  <2>5. m => n
    BY <2>3 DEF m, n
  <2>6. Stands(e, status[e], Sections(posted, e), Owed(slot', e), Undoing(slot', status[e], e), n)
    BY <2>4, <2>5, StandsStill
  <2> QED
    BY <1>2, <2>2, <2>4, <2>6 DEF Holds, n
<1>14. ASSUME d \notin contended' PROVE Holds(d, status', posted', slot', lost')
  <2> DEFINE m == <<d, "posting">> \in lost
             n == <<d, "posting">> \in lost'
             st == status[d]
             S == Sections(posted, d)
             T == Sections(posted', d)
             owed == Owed(slot', d)
             u == Undoing(slot', st, d)
  <2>1. d \notin contended /\ ~Piecemeal(c.rows)
    BY <1>3, <1>14
  <2>2. Alone(slot', d) /\ Stands(d, st, S, owed, u, m)
    BY <1>6, <1>12, <2>1 DEF Holds
  <2>3. IsWhole(d, part, T[part]) /\ \A other \in Parts \ {part} : T[other] = S[other]
    BY <1>7, <1>8, <2>1 DEF Sections, SameButFor
  <2>4. m /\ ~n => MadeUp(s, c)
    BY <1>3
  <2>5. ASSUME MadeUp(s, c)
        PROVE  /\ S["undone"] = {} /\ ~u
               /\ st = "issued" \/ (st = "reimbursed" /\ c.what = "reimbursed" /\ S["issued"] # {})
    <3>1. /\ \A r \in posted : r.key.doc = d => ~r.key.reversal
          /\ \A t \in Slots : \A i \in DOMAIN slot[t] : slot[t][i] # Write(d, "undone")
          /\ \/ st = "issued"
             \/ /\ st = "reimbursed" /\ c.what = "reimbursed"
                /\ \E r \in posted : r.key.doc = d /\ r.key.leg = "expense"
      BY <2>5 DEF MadeUp
    <3>2. S["undone"] = {}
      BY <3>1 DEF Sections, Section, PartOf, Parts
    <3>3. ~u
      <4>1. \A t \in Slots : ~Undoes(slot[t], d)
        BY <3>1 DEF Undoes
      <4>2. ~Undoes(Tail(q), d)
        BY <1>5 DEF Undoes
      <4>3. \A t \in Slots : ~Undoes(slot'[t], d)
        <5> SUFFICES ASSUME NEW t \in Slots PROVE ~Undoes(slot'[t], d)
          OBVIOUS
        <5>1. CASE t = s
          BY <1>9, <4>2, <5>1
        <5>2. CASE t # s
          <6>1. slot'[t] = slot[t]
            BY <1>9, <5>2
          <6> QED
            BY <4>1, <6>1
        <5> QED
          BY <5>1, <5>2
      <4> QED
        BY <3>1, <4>3 DEF Undoing
    <3>4. (\E r \in posted : r.key.doc = d /\ r.key.leg = "expense") => S["issued"] # {}
      BY <3>1 DEF Sections, Section, PartOf, Parts, MovementWays
    <3> QED
      BY <3>1, <3>2, <3>3, <3>4
  <2>6. st # "none" /\ (c.what = "reimbursed" => st = "reimbursed")
    BY <1>6, <2>1
  <2>7. part = PartOfCall(c.what)
    BY DEF part
  <2> DEFINE what == c.what
  <2> HIDE DEF m, n, st, S, T, owed, u, c, what
  <2>8. what \in {"issued", "reimbursed", "repaired"} /\ part = PartOfCall(what)
        /\ st # "none" /\ (what = "reimbursed" => st = "reimbursed")
        /\ (m /\ ~n =>
             /\ S["undone"] = {} /\ ~u
             /\ st = "issued" \/ (st = "reimbursed" /\ what = "reimbursed" /\ S["issued"] # {}))
    BY <1>6, <2>4, <2>5, <2>6, <2>7 DEF what
  <2>9. Stands(d, st, T, owed, u, n)
    BY <2>2, <2>3, <2>8, RepairedStands
  <2> QED
    BY <1>2, <2>2, <2>9 DEF Holds, st, T, owed, u, n
<1> QED
  BY <1>8, <1>11, <1>13, <1>14 DEF ControlsInv

\* Posting what was planned.
LEMMA CommitControls ==
  ASSUME LedgerInv, ControlsInv, NEW s \in Slots, CommitPosting(s)
  PROVE  ControlsInv'
<1> DEFINE q == slot[s]
           c == Call(s)
           fresh == {r \in c.rows : r.key \notin {p.key : p \in posted}}
<1>1. q # Idle /\ c.do = "commit" /\ c = Head(q)
  BY DEF CommitPosting, At, Call
<1>2. /\ posted' = posted \cup fresh /\ status' = status
      /\ slot' = [slot EXCEPT ![s] = Tail(q)]
  BY DEF CommitPosting, Post, Continue, documentVars
<1>3. /\ lost' = (lost \ (IF MadeUp(s, c) THEN {<<c.doc, "posting">>} ELSE {}))
                   \cup (IF c.what = "repaired" THEN {<<c.doc, "goods">>} ELSE {})
      /\ contended' = contended \cup (IF Piecemeal(c.rows) THEN {c.doc} ELSE {})
  BY Zenon DEF CommitPosting
<1>4. /\ PostingFits(c) /\ \A i \in DOMAIN Tail(q) : PostingFits(Tail(q)[i])
      /\ \/ Journals(q) \/ GoesOnRepairing(q, status, contended)
         \/ \E d, x : Attends(q, status, contended, d, x)
  BY <1>1, AtHand
<1>5. ~Journals(q)
  BY <1>1 DEF Journals, JournalCalls
<1>6. ASSUME NEW d, NEW x, Attends(q, status, contended, d, x)
      PROVE  ControlsInv'
  <2>1. Doing(q, d, x) /\ d \in Documents
    BY <1>6 DEF Attends
  <2>2. \/ c.what \in MovementWays /\ Carried(q, d, x)
        \/ c.what \in Parts /\ Parted(q, d, x, c.what)
    BY <1>1, <2>1, DoingTold
  <2>3. c.doc = d
    BY <1>1, <2>2 DEF Carried, Parted, MovesGoods, PostsPart
  <2>4. Tail(q) = <<>> \/ Doing(Tail(q), d, x)
    BY <2>2 DEF Carried, Parted
  <2>5. ~MadeUp(s, c)
    <3>1. ~Reports(q)
      BY <2>1, DoingTold DEF Minds
    <3> QED
      BY <3>1 DEF MadeUp, Repairing, Reports
  <2>6. lost \subseteq lost' /\ contended \subseteq contended'
    BY <1>3, <2>5
  <2>7. /\ RowsTold(posted')
        /\ SameSections(posted, posted', Documents \ {d})
        /\ c.what \in MovementWays => SameSections(posted, posted', Documents)
        /\ c.what \notin MovementWays =>
             /\ SameButFor(posted, posted', d, PartOfCall(c.what))
             /\ d \notin contended /\ ~Piecemeal(c.rows) =>
                  IsWhole(d, PartOfCall(c.what), Section(posted', d, PartOfCall(c.what)))
    BY <1>1, <1>2, <1>4, <2>1, <2>3, CommitRows
  <2>8. ASSUME d \notin contended',
               StandsWith(d, x, Sections(posted, d), q, <<d, "posting">> \in lost)
        PROVE  StandsWith(d, x, Sections(posted', d), Tail(q), <<d, "posting">> \in lost')
    <3> DEFINE m == <<d, "posting">> \in lost
               n == <<d, "posting">> \in lost'
               S == Sections(posted, d)
               T == Sections(posted', d)
    <3>1. m => n
      BY <2>6
    <3>2. CASE c.what \in MovementWays /\ Carried(q, d, x)
      <4>1. T = S
        BY <2>1, <2>7, <3>2 DEF SameSections
      <4>2. SameLeft(Tail(q), q, d)
        BY <3>2 DEF Carried
      <4> HIDE DEF m, n, S, T
      <4>3. StandsWith(d, x, S, Tail(q), n)
        BY <2>8, <3>1, <4>2, SameStands DEF m, S
      <4> QED
        BY <4>1, <4>3 DEF n, T
    <3>3. CASE c.what \in Parts /\ Parted(q, d, x, c.what)
      <4>1. c.what \notin MovementWays /\ PartOfCall(c.what) = c.what
        BY <3>3 DEF Parts, MovementWays, PartOfCall
      <4>2. d \notin contended /\ ~Piecemeal(c.rows)
        BY <1>3, <2>3, <2>8
      <4>3. IsWhole(d, c.what, T[c.what])
        BY <2>7, <3>3, <4>1, <4>2 DEF Sections
      <4>4. \A other \in Parts \ {c.what} : T[other] = S[other]
        BY <2>7, <4>1 DEF Sections, SameButFor
      <4> HIDE DEF m, n, S, T
      <4>5. StandsWith(d, x, T, Tail(q), m)
        BY <2>8, <3>3, <4>3, <4>4, PartedStands DEF m, S
      <4>6. StandsWith(d, x, T, Tail(q), n)
        BY <3>1, <4>5, StandsStill DEF StandsWith
      <4> QED
        BY <4>6 DEF n, T
    <3> QED
      BY <2>2, <3>2, <3>3
  <2>9. \A e \in Documents \ {d} : Sections(posted', e) = Sections(posted, e)
    BY <2>7 DEF SameSections
  <2> HIDE DEF c, fresh
  <2> QED
    BY <1>2, <1>4, <1>6, <2>4, <2>6, <2>7, <2>8, <2>9, AttendedKeeps
<1> QED
  BY <1>4, <1>5, <1>6, RepairControls

\* The call of a handler that works on no document is its last, or the repair's.
LEMMA OthersAtHand ==
  ASSUME LedgerInv, ControlsInv, NEW s \in Slots, slot[s] # Idle,
         Call(s).do \notin DocumentCalls
  PROVE  /\ \A e : ~Busy(slot[s], e)
         /\ Tail(slot[s]) = <<>>
<1> DEFINE q == slot[s]
<1>1. Call(s) = Head(q)
  BY DEF Call
<1>2. \/ Journals(q) \/ GoesOnRepairing(q, status, contended)
      \/ \E d, x : Attends(q, status, contended, d, x)
  BY AtHand
<1>3. CASE Journals(q)
  BY <1>3 DEF Journals
<1>4. CASE GoesOnRepairing(q, status, contended)
  BY <1>1, <1>4 DEF GoesOnRepairing, RepairCall, DocumentCalls
<1>5. ASSUME NEW d, NEW x, Attends(q, status, contended, d, x) PROVE FALSE
  BY <1>1, <1>5, DoingTold DEF Attends
<1> QED
  BY <1>2, <1>3, <1>4, <1>5

\* The report, the journal form and the recalculation are last calls.
LEMMA LastCallControls ==
  ASSUME LedgerInv, ControlsInv, NEW s \in Slots,
         Report(s) \/ InsertEntry(s) \/ RemoveEntry(s) \/ WriteRecalculation(s)
  PROVE  ControlsInv'
<1>1. slot[s] # Idle /\ Call(s).do \in JournalCalls \cup {"report"}
  BY DEF Report, InsertEntry, RemoveEntry, WriteRecalculation, At, Call, JournalCalls
<1>2. Call(s).do \notin DocumentCalls
  BY <1>1 DEF JournalCalls, DocumentCalls
<1>3. (\A e : ~Busy(slot[s], e)) /\ Tail(slot[s]) = <<>>
  BY <1>1, <1>2, OthersAtHand
<1>4. /\ slot' = [slot EXCEPT ![s] = <<>>] /\ status' = status
      /\ posted' = posted /\ contended' = contended /\ lost' = lost
  BY <1>3 DEF Report, InsertEntry, RemoveEntry, WriteRecalculation, Continue, WriteByHand,
              RemoveByHand, Recalculate, documentVars, historyVars, ledgerVars
<1>5. \A e : ~Busy(<<>>, e)
  BY ToldOfNone
<1>6. HandlerFits(<<>>, status, contended)
  BY DEF HandlerFits
<1>7. BooksTyped
  BY DEF LedgerInv
<1>8. contended \subseteq contended' /\ lost \subseteq lost'
  BY <1>4
<1> QED
  BY <1>3, <1>4, <1>5, <1>6, <1>7, <1>8, SilentKeeps

\* A client that drops its connection.
LEMMA AbandonControls ==
  ASSUME LedgerInv, ControlsInv, NEW s \in Slots, Abandon(s)
  PROVE  ControlsInv'
<1> DEFINE q == slot[s]
<1>1. q # Idle
  BY DEF Abandon
<1>2. /\ slot' = [slot EXCEPT ![s] = <<>>] /\ status' = status
      /\ posted' = posted /\ contended' = contended
      /\ lost' = IF Reports(q) THEN lost ELSE lost \cup Unmade(q)
  BY Zenon DEF Abandon, Idle, ledgerVars, documentVars, Repairing, Reports
<1>3. \/ Journals(q) \/ GoesOnRepairing(q, status, contended)
      \/ \E d, x : Attends(q, status, contended, d, x)
  BY <1>1, AtHand
<1>4. lost \subseteq lost' /\ contended \subseteq contended'
  BY <1>2
<1>5. \A e : ~Busy(<<>>, e)
  BY ToldOfNone
<1>6. HandlerFits(<<>>, status, contended)
  BY DEF HandlerFits
<1>7. BooksTyped
  BY DEF LedgerInv
<1>8. CASE Journals(q) \/ GoesOnRepairing(q, status, contended)
  <2>1. \A e : ~Busy(q, e)
    BY <1>8 DEF Journals, GoesOnRepairing
  <2> QED
    BY <1>2, <1>4, <1>5, <1>6, <1>7, <2>1, SilentKeeps
<1>9. ASSUME NEW d, NEW x, Attends(q, status, contended, d, x)
      PROVE  ControlsInv'
  <2>1. ~Reports(q)
    BY <1>9, DoingTold DEF Attends, Minds
  <2>2. lost' = lost \cup Unmade(q)
    BY <1>2, <2>1
  <2>3. ASSUME StandsWith(d, x, Sections(posted, d), q, <<d, "posting">> \in lost)
        PROVE  StandsWith(d, x, Sections(posted', d), <<>>, <<d, "posting">> \in lost')
    <3> DEFINE m == <<d, "posting">> \in lost
               n == <<d, "posting">> \in lost'
               S == Sections(posted, d)
    <3>1. m => n
      BY <1>4
    <3>2. CASE SameLeft(<<>>, q, d)
      <4> HIDE DEF m, n, S
      <4>1. StandsWith(d, x, S, <<>>, n)
        BY <2>3, <3>1, <3>2, SameStands DEF m, S
      <4> QED
        BY <1>2, <4>1 DEF n, S
    <3>3. CASE ~SameLeft(<<>>, q, d)
      <4>1. ~Undoes(<<>>, d) /\ \A part : ~Owing(<<>>, d, part)
        BY ToldOfNone
      <4>2. Undoes(q, d) \/ \E part \in Parts : Owing(q, d, part)
        BY <3>3, <4>1 DEF SameLeft
      <4>3. n
        BY <2>2, <4>2, UnmadeTold
      <4> HIDE DEF m, n, S
      <4>4. StandsWith(d, x, S, <<>>, n)
        BY <2>3, <4>3, LackingStands DEF m, S
      <4> QED
        BY <1>2, <4>4 DEF n, S
    <3> QED
      BY <3>2, <3>3
  <2>4. RowsTold(posted')
    BY <1>2 DEF ControlsInv
  <2>5. \A e \in Documents \ {d} : Sections(posted', e) = Sections(posted, e)
    BY <1>2
  <2>6. \A i \in DOMAIN <<>> : PostingFits(<<>>[i])
    OBVIOUS
  <2> QED
    BY <1>2, <1>4, <1>9, <2>3, <2>4, <2>5, <2>6, AttendedKeeps
<1> QED
  BY <1>3, <1>8, <1>9

\* Reading what is outstanding: every call that the repair is given posts what its
\* document was issued or reimbursed for.
LEMMA ReadControls ==
  ASSUME LedgerInv, ControlsInv, NEW s \in Slots, ReadOutstanding(s)
  PROVE  ControlsInv'
<1> DEFINE plans == {Plan(d, what) : d \in Documents, what \in {"issued", "repaired", "reimbursed"}}
           S == {c \in plans : RepairCall(c, status, contended) /\ PostingFits(c)}
<1>1. PICK docs : slot' = [slot EXCEPT ![s] = Append(Repairs, [do |-> "report", docs |-> docs])]
  BY Zenon DEF ReadOutstanding
<1> DEFINE report == [do |-> "report", docs |-> docs]
<1>2. slot[s] # Idle /\ Call(s).do = "outstanding"
  BY DEF ReadOutstanding, At, Call
<1>3. /\ status' = status /\ posted' = posted /\ contended' = contended /\ lost' = lost
  BY DEF ReadOutstanding, ledgerVars, documentVars, historyVars
<1>4. \A e : ~Busy(slot[s], e)
  BY <1>2, OthersAtHand DEF DocumentCalls
<1>5. ASSUME NEW d \in Documents, NEW what \in {"issued", "repaired", "reimbursed"},
             status[d] # "none", MayPost(d, what), what = "reimbursed" => status[d] = "reimbursed"
      PROVE  Plan(d, what) \in S
  <2>1. Plan(d, what) \in plans
    OBVIOUS
  <2>2. /\ Plan(d, what).do = "plan" /\ Plan(d, what).doc = d /\ Plan(d, what).what = what
        /\ Plan(d, what).nth = 0
    BY DEF Plan
  <2>3. RepairCall(Plan(d, what), status, contended)
    BY <1>5, <2>2 DEF RepairCall
  <2>4. PostingFits(Plan(d, what))
    BY <1>5, <2>2 DEF PostingFits
  <2> QED
    BY <2>1, <2>3, <2>4
<1>6. \A c \in S : RepairCall(c, status, contended) /\ PostingFits(c)
  OBVIOUS
<1> HIDE DEF S
<1>7. /\ \A kind : Unposted(kind) \in SUBSET Documents
      /\ \A statuses, leg : UnpostedExpenses(statuses, leg) \in SUBSET Documents
  BY DEF Unposted, UnpostedExpenses
<1>8. Repairs \in Seq(S)
  <2>1. ASSUME NEW kind PROVE Plans(Unposted(kind), "issued") \in Seq(S)
    <3>1. \A d \in Unposted(kind) : Plan(d, "issued") \in S
      BY <1>5 DEF Unposted, MayPost
    <3> QED
      BY <1>7, <3>1, PlansListed
  <2>2. Plans(Unposted("creditNote"), "repaired") \in Seq(S)
    <3>1. \A d \in Unposted("creditNote") : Plan(d, "repaired") \in S
      BY <1>5 DEF Unposted, MayPost
    <3> QED
      BY <1>7, <3>1, PlansListed
  <2>3. Plans(UnpostedExpenses({"issued", "reimbursed"}, "expense"), "issued") \in Seq(S)
    <3>1. \A d \in UnpostedExpenses({"issued", "reimbursed"}, "expense") : Plan(d, "issued") \in S
      BY <1>5 DEF UnpostedExpenses, MayPost
    <3> QED
      BY <1>7, <3>1, PlansListed
  <2>4. Plans(UnpostedExpenses({"reimbursed"}, "reimbursement"), "reimbursed") \in Seq(S)
    <3>1. \A d \in UnpostedExpenses({"reimbursed"}, "reimbursement") : Plan(d, "reimbursed") \in S
      BY <1>5 DEF UnpostedExpenses, MayPost
    <3> QED
      BY <1>7, <3>1, PlansListed
  <2>5. \A p, r \in Seq(S) : p \o r \in Seq(S)
    BY ConcatProperties
  <2> QED
    BY <2>1, <2>2, <2>3, <2>4, <2>5, Zenon DEF Repairs
<1>9. /\ report.do = "report" /\ PostingFits(report)
  BY DEF PostingFits
<1> HIDE DEF report
<1> DEFINE p == Repairs
           n == Len(p)
           T == S \cup {report}
           q == Append(p, report)
<1>10. p \in Seq(S)
  BY <1>8
<1> HIDE DEF p
<1>11. n \in Nat /\ DOMAIN p = 1..n /\ \A i \in 1..n : p[i] \in S
  BY <1>10, LenProperties, ElementOfSeq
<1>12. p \in Seq(T) /\ report \in T
  BY <1>10, SeqMonotonic
<1> HIDE DEF T, n
<1>13. /\ Len(q) = n + 1 /\ DOMAIN q = 1..(n + 1) /\ q[n + 1] = report /\ q # <<>>
       /\ \A i \in 1..n : q[i] = p[i]
  BY <1>11, <1>12, AppendProperties, LenProperties DEF n
<1> HIDE DEF q
<1>14. /\ \A i \in DOMAIN q : PostingFits(q[i])
       /\ InRepair(q, status, contended)
  <2>1. \A i \in 1..n : q[i] \in S
    BY <1>11, <1>13
  <2>2. \A i \in 1..(n + 1) : i = n + 1 \/ i \in 1..n
    BY <1>11
  <2>3. Len(q) - 1 = n
    BY <1>11, <1>13
  <2> QED
    BY <1>6, <1>9, <1>13, <2>1, <2>2, <2>3 DEF InRepair
<1>15. Reports(q)
  <2>1. n + 1 \in DOMAIN q
    BY <1>11, <1>13
  <2> QED
    BY <1>9, <1>13, <2>1 DEF Reports
<1>16. HandlerFits(q, status, contended) /\ \A e : ~Busy(q, e)
  BY <1>14, <1>15 DEF HandlerFits, Busy
<1>17. BooksTyped
  BY DEF LedgerInv
<1>18. slot' = [slot EXCEPT ![s] = q] /\ contended \subseteq contended' /\ lost \subseteq lost'
  BY <1>1, <1>3 DEF q, p, report
<1> QED
  BY <1>3, <1>4, <1>16, <1>17, <1>18, SilentKeeps

-----------------------------------------------------------------------------
(* What is asked of the handlers *)

\* A list that a handler of d may begin with: to undo is to post the mirror too.
Begins(q, d, st) ==
  /\ Doing(q, d, st)
  /\ \A i \in DOMAIN q : PostingFits(q[i])
  /\ Undoes(q, d) => Owing(q, d, "undone")
  /\ Owing(q, d, "undone") => st = "issued"

\* Such are the lists of the requests.
LEMMA BegunCalls ==
  ASSUME NEW d \in Documents
  PROVE  /\ Begins(<<RecordMove(d, "out"), Write(d, "issued"), Plan(d, "issued")>>, d, "none")
         /\ Begins(<<Write(d, "undone"), Plan(d, "undone"), RecordMove(d, "in")>>, d, "issued")
         /\ Begins(<<Write(d, "issued"), Plan(d, "issued")>>, d, "none")
         /\ Begins(<<Plan(d, "undone"), Write(d, "undone")>>, d, "issued")
         /\ \A way \in MovementWays :
              Begins(<<Write(d, "issued"), ApplyMove(d, way), Plan(d, "issued")>>, d, "none")
         /\ Kind[d] = "expense" =>
              Begins(<<Write(d, "reimbursed"), Plan(d, "reimbursed")>>, d, "issued")
         /\ \A way, st : Begins(<<RecordMove(d, way)>>, d, st)
<1>1. /\ PostingFits(Plan(d, "issued")) /\ PostingFits(Plan(d, "undone"))
      /\ Kind[d] = "expense" => PostingFits(Plan(d, "reimbursed"))
      /\ \A x : PostingFits(Write(d, x)) /\ PostingFits(RecordMove(d, x))
                /\ PostingFits(ApplyMove(d, x))
  BY DEF PostingFits, MayPost, Plan, Write, RecordMove, ApplyMove
<1>2. /\ \A x, y : Write(d, x) = Write(d, y) <=> x = y
      /\ \A x, w : Plan(d, x) # Write(d, w) /\ RecordMove(d, x) # Write(d, w)
                   /\ ApplyMove(d, x) # Write(d, w)
      /\ \A x, part : ~PostsPart(Write(d, x), d, part) /\ ~PostsPart(RecordMove(d, x), d, part)
                      /\ ~PostsPart(ApplyMove(d, x), d, part)
      /\ \A x, part : PostsPart(Plan(d, x), d, part) <=> part = x
      /\ \A x : Write(d, x).do # "report" /\ RecordMove(d, x).do # "report"
                /\ ApplyMove(d, x).do # "report" /\ Plan(d, x).do # "report"
  <2>1. \A x, y : Write(d, x) = Write(d, y) <=> x = y
    BY CallsTold
  <2>2. ASSUME NEW x, NEW w
        PROVE  /\ Plan(d, x) # Write(d, w) /\ RecordMove(d, x) # Write(d, w)
               /\ ApplyMove(d, x) # Write(d, w)
    BY BasicCalls
  <2>3. ASSUME NEW x, NEW part
        PROVE  /\ ~PostsPart(Write(d, x), d, part) /\ ~PostsPart(RecordMove(d, x), d, part)
               /\ ~PostsPart(ApplyMove(d, x), d, part)
               /\ PostsPart(Plan(d, x), d, part) <=> part = x
    <3>1. PostsPart(Plan(d, x), d, part) <=> d = d /\ part = x
      BY BasicCalls
    <3> QED
      BY <3>1, BasicCalls
  <2>4. ASSUME NEW x
        PROVE  /\ Write(d, x).do # "report" /\ RecordMove(d, x).do # "report"
               /\ ApplyMove(d, x).do # "report" /\ Plan(d, x).do # "report"
    BY BasicCalls
  <2> QED
    BY <2>1, <2>2, <2>3, <2>4
<1>3. \A w : MovesGoods(RecordMove(d, w), d)
  BY DEF MovesGoods, RecordMove
<1>4. \A a, b, c : /\ \A i \in DOMAIN <<a>> : <<a>>[i] = a
                   /\ \A i \in DOMAIN <<a, b>> : <<a, b>>[i] \in {a, b}
                   /\ \A i \in DOMAIN <<a, b, c>> : <<a, b, c>>[i] \in {a, b, c}
  BY FewCalls
<1>5. Begins(<<RecordMove(d, "out"), Write(d, "issued"), Plan(d, "issued")>>, d, "none")
  <2> DEFINE a == RecordMove(d, "out")
             b == Write(d, "issued")
             c == Plan(d, "issued")
             q == <<a, b, c>>
  <2>1. ThreeCallsTold(q, a, b, c)
    BY <1>2, ThreeCalls
  <2>2. Doing(q, d, "none")
    BY <1>3 DEF Doing, BooksGoods
  <2>3. \A i \in DOMAIN q : q[i] \in {a, b, c}
    BY <1>4
  <2>4. PostingFits(a) /\ PostingFits(b) /\ PostingFits(c)
    BY <1>1
  <2>5. ~Undoes(q, d) /\ ~Owing(q, d, "undone")
    <3>1. /\ a # Write(d, "undone") /\ b # Write(d, "undone") /\ c # Write(d, "undone")
          /\ ~PostsPart(a, d, "undone") /\ ~PostsPart(b, d, "undone") /\ ~PostsPart(c, d, "undone")
      BY <1>2
    <3> HIDE DEF a, b, c, q
    <3> QED
      BY <2>1, <3>1 DEF ThreeCallsTold
  <2> QED
    BY <2>2, <2>3, <2>4, <2>5 DEF Begins
<1>6. Begins(<<Write(d, "undone"), Plan(d, "undone"), RecordMove(d, "in")>>, d, "issued")
  <2> DEFINE a == Write(d, "undone")
             b == Plan(d, "undone")
             c == RecordMove(d, "in")
             q == <<a, b, c>>
  <2>1. ThreeCallsTold(q, a, b, c)
    BY <1>2, ThreeCalls
  <2>2. Doing(q, d, "issued")
    BY DEF Doing, Writing
  <2>3. \A i \in DOMAIN q : q[i] \in {a, b, c}
    BY <1>4
  <2>4. PostingFits(a) /\ PostingFits(b) /\ PostingFits(c)
    BY <1>1
  <2>5. Owing(q, d, "undone")
    <3>1. PostsPart(b, d, "undone")
      BY <1>2
    <3> HIDE DEF a, b, c, q
    <3> QED
      BY <2>1, <3>1 DEF ThreeCallsTold
  <2> QED
    BY <2>2, <2>3, <2>4, <2>5 DEF Begins
<1>7. Begins(<<Write(d, "issued"), Plan(d, "issued")>>, d, "none")
  <2> DEFINE a == Write(d, "issued")
             b == Plan(d, "issued")
             q == <<a, b>>
  <2>1. TwoCallsTold(q, a, b)
    BY <1>2, TwoCalls
  <2>2. Doing(q, d, "none")
    BY DEF Doing, Writing
  <2>3. \A i \in DOMAIN q : q[i] \in {a, b}
    BY <1>4
  <2>4. PostingFits(a) /\ PostingFits(b)
    BY <1>1
  <2>5. ~Undoes(q, d) /\ ~Owing(q, d, "undone")
    <3>1. /\ a # Write(d, "undone") /\ b # Write(d, "undone")
          /\ ~PostsPart(a, d, "undone") /\ ~PostsPart(b, d, "undone")
      BY <1>2
    <3> HIDE DEF a, b, q
    <3> QED
      BY <2>1, <3>1 DEF TwoCallsTold
  <2> QED
    BY <2>2, <2>3, <2>4, <2>5 DEF Begins
<1>8. Begins(<<Plan(d, "undone"), Write(d, "undone")>>, d, "issued")
  <2> DEFINE a == Plan(d, "undone")
             b == Write(d, "undone")
             q == <<a, b>>
  <2>1. TwoCallsTold(q, a, b)
    BY <1>2, TwoCalls
  <2>2. PostsPart(a, d, "undone")
    BY <1>2
  <2>3. Doing(q, d, "issued")
    BY <2>2 DEF Doing, BooksPart
  <2>4. \A i \in DOMAIN q : q[i] \in {a, b}
    BY <1>4
  <2>5. PostingFits(a) /\ PostingFits(b)
    BY <1>1
  <2>6. Owing(q, d, "undone")
    <3> HIDE DEF a, b, q
    <3> QED
      BY <2>1, <2>2 DEF TwoCallsTold
  <2> QED
    BY <2>3, <2>4, <2>5, <2>6 DEF Begins
<1>9. ASSUME NEW way \in MovementWays
      PROVE  Begins(<<Write(d, "issued"), ApplyMove(d, way), Plan(d, "issued")>>, d, "none")
  <2> DEFINE a == Write(d, "issued")
             b == ApplyMove(d, way)
             c == Plan(d, "issued")
             q == <<a, b, c>>
  <2>1. ThreeCallsTold(q, a, b, c)
    BY <1>2, ThreeCalls
  <2>2. Doing(q, d, "none")
    BY DEF Doing, Writing
  <2>3. \A i \in DOMAIN q : q[i] \in {a, b, c}
    BY <1>4
  <2>4. PostingFits(a) /\ PostingFits(b) /\ PostingFits(c)
    BY <1>1
  <2>5. ~Undoes(q, d) /\ ~Owing(q, d, "undone")
    <3>1. /\ a # Write(d, "undone") /\ b # Write(d, "undone") /\ c # Write(d, "undone")
          /\ ~PostsPart(a, d, "undone") /\ ~PostsPart(b, d, "undone") /\ ~PostsPart(c, d, "undone")
      BY <1>2
    <3> HIDE DEF a, b, c, q
    <3> QED
      BY <2>1, <3>1 DEF ThreeCallsTold
  <2> QED
    BY <2>2, <2>3, <2>4, <2>5 DEF Begins
<1>10. ASSUME Kind[d] = "expense"
       PROVE  Begins(<<Write(d, "reimbursed"), Plan(d, "reimbursed")>>, d, "issued")
  <2> DEFINE a == Write(d, "reimbursed")
             b == Plan(d, "reimbursed")
             q == <<a, b>>
  <2>1. TwoCallsTold(q, a, b)
    BY <1>2, TwoCalls
  <2>2. Doing(q, d, "issued")
    BY DEF Doing, Writing
  <2>3. \A i \in DOMAIN q : q[i] \in {a, b}
    BY <1>4
  <2>4. PostingFits(a) /\ PostingFits(b)
    BY <1>1, <1>10
  <2>5. ~Undoes(q, d) /\ ~Owing(q, d, "undone")
    <3>1. /\ a # Write(d, "undone") /\ b # Write(d, "undone")
          /\ ~PostsPart(a, d, "undone") /\ ~PostsPart(b, d, "undone")
      BY <1>2
    <3> HIDE DEF a, b, q
    <3> QED
      BY <2>1, <3>1 DEF TwoCallsTold
  <2> QED
    BY <2>2, <2>3, <2>4, <2>5 DEF Begins
<1>11. ASSUME NEW way, NEW st PROVE Begins(<<RecordMove(d, way)>>, d, st)
  <2> DEFINE a == RecordMove(d, way)
             q == <<a>>
  <2>1. OneCallTold(q, a)
    BY <1>2, OneCall
  <2>2. Doing(q, d, st)
    BY <1>3 DEF Doing, BooksGoods
  <2>3. \A i \in DOMAIN q : q[i] = a
    BY <1>4
  <2>4. PostingFits(a)
    BY <1>1
  <2>5. ~Undoes(q, d) /\ ~Owing(q, d, "undone")
    <3>1. a # Write(d, "undone") /\ ~PostsPart(a, d, "undone")
      BY <1>2
    <3> HIDE DEF a, q
    <3> QED
      BY <2>1, <3>1 DEF OneCallTold
  <2> QED
    BY <2>2, <2>3, <2>4, <2>5 DEF Begins
<1> QED
  BY <1>5, <1>6, <1>7, <1>8, <1>9, <1>10, <1>11

\* A handler that begins with such a list, whether or not another works on d.
LEMMA BeginControls ==
  ASSUME LedgerInv, ControlsInv, NEW s \in Slots, NEW d \in Documents, NEW calls,
         Begins(calls, d, status[d]), Begin(s, calls)
  PROVE  ControlsInv'
<1>1. /\ slot[s] = <<>> /\ slot' = [slot EXCEPT ![s] = calls]
      /\ status' = status /\ posted' = posted /\ lost' = lost
  BY DEF Begin, Idle, ledgerVars, documentVars
<1>2. contended' = contended \cup
        {e \in Touched(calls) : \E t \in Running : ~Repairing(t) /\ e \in Touched(slot[t])}
  BY DEF Begin
<1>3. Doing(calls, d, status[d]) /\ \A i \in DOMAIN calls : PostingFits(calls[i])
  BY DEF Begins
<1>4. Minds(calls, d)
  BY <1>3, DoingTold
<1>5. \A e : ~Busy(slot[s], e)
  BY <1>1, ToldOfNone
<1>6. HandlerFits(calls, status', contended')
  BY <1>1, <1>3 DEF HandlerFits, Attends
<1>7. ASSUME d \notin contended'
      PROVE  /\ \A t \in Slots \ {s} : ~Busy(slot[t], d)
             /\ StandsWith(d, status'[d], Sections(posted', d), calls, <<d, "posting">> \in lost')
  <2>1. ASSUME NEW t \in Slots \ {s}, Busy(slot[t], d) PROVE FALSE
    <3>1. ~Reports(slot[t]) /\ d \in Touched(slot[t])
      BY <2>1 DEF Busy
    <3>2. slot[t] # Idle
      BY <2>1, ToldOfNone DEF Idle
    <3>3. t \in Running /\ ~Repairing(t)
      BY <3>1, <3>2 DEF Running, Repairing, Reports
    <3>4. d \in Touched(calls)
      BY <1>4 DEF Minds, Busy
    <3> QED
      BY <1>2, <1>7, <3>1, <3>3, <3>4
  <2>2. Holds(d, status, posted, slot, lost)
    BY <1>2, <1>7 DEF ControlsInv
  <2> DEFINE m == <<d, "posting">> \in lost
             S == Sections(posted, d)
             st == status[d]
  <2>3. StandsWith(d, st, S, <<>>, m)
    <3>1. StandsWith(d, st, S, slot[s], m)
      BY <2>1, <2>2, HoldsWith
    <3> HIDE DEF m, S, st
    <3> QED
      BY <1>1, <3>1
  <2>4. /\ Undoes(calls, d) => Owing(calls, d, "undone")
        /\ Owing(calls, d, "undone") => st = "issued"
    BY DEF Begins
  <2> HIDE DEF m, S, st
  <2>5. StandsWith(d, st, S, calls, m)
    BY <2>3, <2>4, BegunStands
  <2> QED
    BY <1>1, <2>1, <2>5 DEF m, S, st
<1>8. BooksTyped
  BY DEF LedgerInv
<1>9. RowsTold(posted')
  BY <1>1 DEF ControlsInv
<1>10. \A e : e # d => ~Busy(slot[s], e) /\ ~Busy(calls, e)
  BY <1>4, <1>5 DEF Minds
<1>11. /\ \A e \in Documents \ {d} :
            status'[e] = status[e] /\ Sections(posted', e) = Sections(posted, e)
       /\ contended \subseteq contended' /\ lost \subseteq lost'
  BY <1>1, <1>2
<1>12. d \notin contended' =>
         /\ \A t \in Slots \ {s} : ~Busy(slot[t], d)
         /\ status'[d] = status[d] \/ (status'[d] # "none" /\ status[d] # "reimbursed")
         /\ StandsWith(d, status'[d], Sections(posted', d), calls, <<d, "posting">> \in lost')
  BY <1>1, <1>7
<1> QED
  BY <1>1, <1>6, <1>8, <1>9, <1>10, <1>11, <1>12, MindedKeeps

\* A handler that begins with one call that is on no document.
LEMMA BeginElsewhere ==
  ASSUME LedgerInv, ControlsInv, NEW s \in Slots, NEW c,
         c.do \in JournalCalls \cup {"outstanding"}, Begin(s, <<c>>)
  PROVE  ControlsInv'
<1> DEFINE q == <<c>>
<1>1. /\ slot[s] = <<>> /\ slot' = [slot EXCEPT ![s] = q]
      /\ status' = status /\ posted' = posted /\ lost' = lost
      /\ contended \subseteq contended' /\ lost \subseteq lost'
  BY DEF Begin, Idle, ledgerVars, documentVars
<1>2. c.do # "report" /\ c.do \notin DocumentCalls /\ PostingFits(c)
  BY DEF JournalCalls, DocumentCalls, PostingFits
<1>3. OneCallTold(q, c)
  BY <1>2, OneCall
<1>4. DOMAIN q = {1} /\ q[1] = c
  BY FewCalls
<1>5. \A e : ~Busy(slot[s], e)
  BY <1>1, ToldOfNone
<1>6. q = <<q[1]>>
  BY <1>4
<1> HIDE DEF q
<1>7. \A e : ~Busy(q, e)
  BY <1>2, <1>3 DEF OneCallTold, Works
<1>8. Lone(q)
  BY <1>4, <1>6 DEF Lone
<1>9. HandlerFits(q, status, contended)
  BY <1>2, <1>4, <1>8 DEF HandlerFits
<1>10. BooksTyped
  BY DEF LedgerInv
<1> QED
  BY <1>1, <1>5, <1>7, <1>9, <1>10, SilentKeeps

\* Everything that is asked.
LEMMA RequestsControls ==
  ASSUME LedgerInv, ControlsInv, NEW s \in Slots, Request(s)
  PROVE  ControlsInv'
<1>1. "in" \in MovementWays /\ "out" \in MovementWays
  BY DEF MovementWays
<1>2. ASSUME NEW d \in Documents,
             \/ SendInvoice(s, d) \/ CancelInvoice(s, d)
             \/ RecordPayment(s, d) \/ DeletePayment(s, d)
             \/ CreditCustomer(s, d)
             \/ ReceiveGoods(s, d) \/ ReturnGoods(s, d)
             \/ ApproveExpenses(s, d) \/ ReimburseExpenses(s, d)
             \/ \E way \in MovementWays : MoveByHand(s, d, way)
      PROVE  ControlsInv'
  <2>1. CASE SendInvoice(s, d)
    BY <2>1, BegunCalls, BeginControls, Zenon DEF SendInvoice
  <2>2. CASE CancelInvoice(s, d)
    BY <2>2, BegunCalls, BeginControls, Zenon DEF CancelInvoice
  <2>3. CASE RecordPayment(s, d)
    BY <2>3, BegunCalls, BeginControls, Zenon DEF RecordPayment, New
  <2>4. CASE DeletePayment(s, d)
    BY <2>4, BegunCalls, BeginControls, Zenon DEF DeletePayment
  <2>5. CASE CreditCustomer(s, d)
    BY <1>1, <2>5, BegunCalls, BeginControls, Zenon DEF CreditCustomer, New
  <2>6. CASE ReceiveGoods(s, d)
    BY <1>1, <2>6, BegunCalls, BeginControls, Zenon DEF ReceiveGoods, New
  <2>7. CASE ReturnGoods(s, d)
    BY <1>1, <2>7, BegunCalls, BeginControls, Zenon DEF ReturnGoods, New
  <2>8. CASE ApproveExpenses(s, d)
    BY <2>8, BegunCalls, BeginControls, Zenon DEF ApproveExpenses
  <2>9. CASE ReimburseExpenses(s, d)
    BY <2>9, BegunCalls, BeginControls, Zenon DEF ReimburseExpenses
  <2>10. ASSUME NEW way \in MovementWays, MoveByHand(s, d, way) PROVE ControlsInv'
    BY <2>10, BegunCalls, BeginControls, Zenon DEF MoveByHand
  <2> QED
    BY <1>2, <2>1, <2>2, <2>3, <2>4, <2>5, <2>6, <2>7, <2>8, <2>9, <2>10, Zenon
<1>3. ASSUME NEW h \in HandEntries, DeleteEntry(s, h) PROVE ControlsInv'
  <2> DEFINE c == [do |-> "remove", id |-> h, row |-> written[h], debits |-> debitNormal]
  <2>1. Begin(s, <<c>>) /\ c.do \in JournalCalls \cup {"outstanding"}
    BY <1>3 DEF DeleteEntry, JournalCalls
  <2> HIDE DEF c
  <2> QED
    BY <2>1, BeginElsewhere
<1>4. ASSUME NEW h \in HandEntries, NEW e \in HandRows, WriteEntry(s, h, e) PROVE ControlsInv'
  <2> DEFINE c == [do |-> "insert", id |-> h, row |-> e, debits |-> debitNormal]
  <2>1. Begin(s, <<c>>) /\ c.do \in JournalCalls \cup {"outstanding"}
    BY <1>4 DEF WriteEntry, JournalCalls
  <2> HIDE DEF c
  <2> QED
    BY <2>1, BeginElsewhere
<1>5. CASE BeginRecalculation(s)
  <2> DEFINE c == [do |-> "recalculate", rebuilt |-> Rebuilt(debitNormal),
                   of |-> <<posted, written, debitNormal>>]
  <2>1. Begin(s, <<c>>) /\ c.do \in JournalCalls \cup {"outstanding"}
    BY <1>5 DEF BeginRecalculation, JournalCalls
  <2> HIDE DEF c
  <2> QED
    BY <2>1, BeginElsewhere
<1>6. CASE PostUnposted(s)
  <2> DEFINE c == [do |-> "outstanding"]
  <2>1. Begin(s, <<c>>) /\ c.do \in JournalCalls \cup {"outstanding"}
    BY <1>6 DEF PostUnposted, JournalCalls
  <2> HIDE DEF c
  <2> QED
    BY <2>1, BeginElsewhere
<1> QED
  BY <1>2, <1>3, <1>4, <1>5, <1>6, Zenon DEF Request

\* Nothing that these tell changes when nothing of the books does.
LEMMA ControlsStill ==
  ASSUME ControlsInv, posted' = posted, slot' = slot, status' = status,
         contended' = contended, lost' = lost
  PROVE  ControlsInv'
BY DEF ControlsInv

\* Every step keeps what documents have on the books.
LEMMA ControlsGoOn ==
  LedgerInv /\ ControlsInv /\ [Next]_vars => LedgerInv' /\ ControlsInv'
<1> SUFFICES ASSUME LedgerInv, ControlsInv, [Next]_vars
             PROVE  LedgerInv' /\ ControlsInv'
  OBVIOUS
<1>1. LedgerInv'
  BY LedgerKept
<1>2. ASSUME NEW s \in Slots, Step(s) PROVE ControlsInv'
  BY <1>2, WriteControls, MoveControls, RefuseControls, PlanControls, CommitControls,
     ReadControls, LastCallControls, Zenon DEF Step
<1>3. ASSUME NEW s \in Slots, Request(s) \/ Abandon(s) PROVE ControlsInv'
  BY <1>3, RequestsControls, AbandonControls, Zenon
<1>4. ASSUME (\E a \in Retypable : RetypeAccount(a)) \/ (\E m \in Mappings : ChooseMapping(m))
      PROVE  ControlsInv'
  <2>1. /\ posted' = posted /\ slot' = slot /\ status' = status
        /\ contended' = contended /\ lost' = lost
    BY <1>4 DEF RetypeAccount, Retype, ChooseMapping, ledgerVars, documentVars
  <2> QED
    BY <2>1, ControlsStill
<1>5. ASSUME UNCHANGED vars PROVE ControlsInv'
  <2>1. /\ posted' = posted /\ slot' = slot /\ status' = status
        /\ contended' = contended /\ lost' = lost
    BY <1>5 DEF vars, ledgerVars, documentVars, historyVars
  <2> QED
    BY <2>1, ControlsStill
<1> QED
  BY <1>1, <1>2, <1>3, <1>4, <1>5, Zenon DEF Next

\* No document has anything on the books when they are opened.
LEMMA ControlsOpen ==
  ASSUME Init
  PROVE  ControlsInv
<1>1. /\ posted = {} /\ \A s \in Slots : slot[s] = <<>>
      /\ \A d \in Documents : status[d] = "none"
      /\ lost = {} /\ contended = {}
  BY DEF Init, Idle
<1>2. RowsTold(posted)
  BY <1>1 DEF RowsTold
<1>3. \A s \in Slots : HandlerFits(slot[s], status, contended)
  <2>1. HandlerFits(<<>>, status, contended)
    BY DEF HandlerFits
  <2> QED
    BY <1>1, <2>1
<1>4. ASSUME NEW d \in Documents PROVE Holds(d, status, posted, slot, lost)
  <2>1. ~Busy(<<>>, d) /\ ~Undoes(<<>>, d) /\ \A part : ~Owing(<<>>, d, part)
    BY ToldOfNone
  <2>2. Alone(slot, d)
    BY <1>1, <2>1 DEF Alone
  <2>3. Owed(slot, d) = {} /\ ~Undoing(slot, status[d], d)
    BY <1>1, <2>1 DEF Owed, Undoing
  <2>4. \A part \in Parts : Sections(posted, d)[part] = {}
    BY <1>1 DEF Sections, Section
  <2>5. "issued" \in Parts /\ "reimbursed" \in Parts /\ "undone" \in Parts
    BY DEF Parts
  <2> QED
    BY <1>1, <2>2, <2>3, <2>4, <2>5 DEF Holds, Stands
<1> QED
  BY <1>2, <1>3, <1>4 DEF ControlsInv

\* When no handler is running, a document whose postings were all made, or made up
\* for, comes to what it claims while it stands, and to nothing otherwise.
LEMMA QuietBooksAgree ==
  ASSUME ControlsKept, LedgerInv, ControlsInv, Quiet, Complete(mapping), NEW d \in Documents,
         <<d, "posting">> \notin lost, d \notin contended
  PROVE  NetOn(d, mapping[ControlRole(d)]) = IF status[d] = "issued" THEN Claim(d) ELSE 0
<1> DEFINE a == mapping[ControlRole(d)]
           st == status[d]
           S == Sections(posted, d)
           I == Section(posted, d, "issued")
           U == Section(posted, d, "undone")
           R == Section(posted, d, "reimbursed")
<1>1. "issued" \in Parts /\ "undone" \in Parts /\ "reimbursed" \in Parts
  BY DEF Parts
<1>2. S["issued"] = I /\ S["undone"] = U /\ S["reimbursed"] = R
  BY <1>1 DEF Sections
<1>3. Owed(slot, d) = {} /\ (Undoing(slot, st, d) <=> st = "undone")
  <2>1. \A s \in Slots : slot[s] = <<>>
    BY DEF Quiet, Idle
  <2>2. ~Undoes(<<>>, d) /\ \A part : ~Owing(<<>>, d, part)
    BY ToldOfNone
  <2> QED
    BY <2>1, <2>2 DEF Owed, Undoing
<1>4. Stands(d, st, S, Owed(slot, d), Undoing(slot, st, d), <<d, "posting">> \in lost)
  BY DEF ControlsInv, Holds
<1> HIDE DEF S, I, U, R, st
<1>5. /\ st = "none" => I = {}
      /\ st # "none" => IsWhole(d, "issued", I)
      /\ st # "reimbursed" => R = {}
      /\ st = "reimbursed" => IsWhole(d, "reimbursed", R)
      /\ st # "undone" => U = {}
      /\ st = "undone" => IsWhole(d, "undone", U)
  BY <1>2, <1>3, <1>4 DEF Stands
<1>6. /\ st \in {"none", "issued", "undone", "reimbursed"}
      /\ Kind[d] = "movement" => st = "none"
      /\ mapping \in Mappings
  BY DEF LedgerInv, BooksTyped, Becomes, st
<1>7. EntriesOf(d) = I \cup U \cup R
  BY DEF EntriesOf, Section, PartOf, I, U, R
<1>8. I \cap U = {} /\ (I \cup U) \cap R = {}
  BY DEF Section, PartOf, I, U, R
<1>9. Countable(I) /\ Countable(U) /\ Countable(R) /\ Countable(I \cup U)
  <2>1. Countable(posted)
    BY BooksCount DEF LedgerInv
  <2>2. I \subseteq posted /\ U \subseteq posted /\ R \subseteq posted
    BY DEF Section, I, U, R
  <2> QED
    BY <2>1, <2>2, FS_Subset DEF Countable
<1> HIDE DEF a
<1>10. /\ Total(I \cup U \cup R, a, Accounts) = Total(I \cup U, a, Accounts) + Total(R, a, Accounts)
       /\ Total(I \cup U, a, Accounts) = Total(I, a, Accounts) + Total(U, a, Accounts)
  <2>1. Total(I \cup U, a, Accounts) = Total(I, a, Accounts) + Total(U, a, Accounts)
    BY <1>8, <1>9, TotalJoined
  <2>2. Total(I \cup U \cup R, a, Accounts) = Total(I \cup U, a, Accounts) + Total(R, a, Accounts)
    BY <1>8, <1>9, TotalJoined
  <2> QED
    BY <2>1, <2>2
<1>11. Total({}, a, Accounts) = 0
  BY TotalOfFew
<1>12. ASSUME Kind[d] # "movement", NEW part, NEW rows, IsWhole(d, part, rows)
       PROVE  /\ Claim(d) \in Int
              /\ part = "issued" => Total(rows, a, Accounts) = Claim(d)
              /\ part # "issued" => Total(rows, a, Accounts) = -Claim(d)
  BY <1>6, <1>12, WholeWeighs DEF a
<1>13. CASE st = "none"
  <2>1. I = {} /\ U = {} /\ R = {}
    BY <1>5, <1>13
  <2> QED
    BY <1>7, <1>10, <1>11, <1>13, <2>1 DEF NetOn, a, st
<1>14. CASE st = "issued"
  <2>1. Kind[d] # "movement" /\ U = {} /\ R = {} /\ IsWhole(d, "issued", I)
    BY <1>5, <1>6, <1>14
  <2>2. Claim(d) \in Int /\ Total(I, a, Accounts) = Claim(d)
    BY <1>12, <2>1
  <2> QED
    BY <1>7, <1>10, <1>11, <1>14, <2>1, <2>2 DEF NetOn, a, st
<1>15. CASE st = "undone"
  <2>1. Kind[d] # "movement" /\ R = {} /\ IsWhole(d, "issued", I) /\ IsWhole(d, "undone", U)
    BY <1>5, <1>6, <1>15
  <2>2. Claim(d) \in Int /\ Total(I, a, Accounts) = Claim(d) /\ Total(U, a, Accounts) = -Claim(d)
    BY <1>12, <2>1
  <2> QED
    BY <1>7, <1>10, <1>11, <1>15, <2>1, <2>2 DEF NetOn, a, st
<1>16. CASE st = "reimbursed"
  <2>1. Kind[d] # "movement" /\ U = {} /\ IsWhole(d, "issued", I) /\ IsWhole(d, "reimbursed", R)
    BY <1>5, <1>6, <1>16
  <2>2. Claim(d) \in Int /\ Total(I, a, Accounts) = Claim(d) /\ Total(R, a, Accounts) = -Claim(d)
    BY <1>12, <2>1
  <2> QED
    BY <1>7, <1>10, <1>11, <1>16, <2>1, <2>2 DEF NetOn, a, st
<1> QED
  BY <1>6, <1>13, <1>14, <1>15, <1>16

\* When no handler is running, the control account carries for each document what
\* the document says is owed: all of it once while it stands, nothing once it is
\* cancelled, deleted or reimbursed.  So it is for any documents, handlers, clients
\* that drop their connections and repairs, while the administrator keeps the
\* control accounts: a posting is made in full or not at all, since its keys are
\* skipped together, its mirror takes back what any mapping made of it, and the
\* repair pays out only what was approved.
THEOREM ControlsStayExact ==
  ASSUME ControlsKept
  PROVE  Spec => []ControlsAgree
<1>1. Init => LedgerInv /\ ControlsInv
  BY BooksOpen, ControlsOpen
<1>2. LedgerInv /\ ControlsInv => ControlsAgree
  BY QuietBooksAgree DEF ControlsAgree
<1> QED
  BY <1>1, <1>2, ControlsGoOn, PTL DEF Spec
=============================================================================
