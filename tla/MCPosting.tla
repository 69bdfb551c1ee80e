----------------------------- MODULE MCPosting ------------------------------
(***************************************************************************)
(* Instances of Posting: accounts bear the names of the roles they play,   *)
(* and documents those of their kinds.                                     *)
(***************************************************************************)
EXTENDS Posting, TLC

MCAccounts == Roles \cup {"spare"}
MCDebits == DebitRoles \cup {"spare"}

Full     == [r \in Roles |-> r]
Periodic == [Full EXCEPT !["inventory"] = NoAccount, !["inventoryAdjustment"] = NoAccount]
Off      == [Full EXCEPT !["taxPayable"] = NoAccount]
Moved    == [Full EXCEPT !["ar"] = "spare"]

MCKind == [d \in Documents |-> d]
MCAgainst ==
  [d \in Documents |->
     IF d \in {"payment", "creditNote"} THEN "invoice"
     ELSE IF d = "purchaseReturn" THEN "receipt" ELSE NoDocument]

\* Amounts that no two different sums share by accident.
MCWorth ==
  [d \in Documents |->
     [net |-> 10, tax |-> IF d = "movement" THEN 0 ELSE 2,
      goods |-> IF d \in {"payment", "vendorPayment", "expense"} THEN 0 ELSE 5,
      fx |-> IF d = "payment" THEN 1 ELSE IF d = "vendorPayment" THEN -1 ELSE 0]]

MCHandRows == {[debit |-> "bank", credit |-> "spare", amount |-> 7]}

AllMappings == {Full, Periodic, Off}
OnlyMoved   == {Full, Moved}
OnlyFull    == {Full}
=============================================================================
