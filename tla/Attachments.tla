----------------------------- MODULE Attachments ----------------------------
(***************************************************************************)
(* Uploaded receipts.  The bytes go to the object store first and the      *)
(* attachments row after them; an expense claim that may still be edited   *)
(* names the rows on its lines; a download walks back from the row to the  *)
(* claim and asks what may be read of it.  Rows and objects are never      *)
(* deleted.  Every person has an employee record.                          *)
(***************************************************************************)
EXTENDS Requests

CONSTANTS
  Files,       \* identities of files, with the storage keys made for them
  Staff,       \* the people who file claims
  HrStaff,     \* those of them with an HR role
  FileClaims   \* identities of expense_reports rows

ASSUME HrStaffAssumption == HrStaff \subseteq Staff

VARIABLES
  stored,     \* the objects in the bucket
  uploader,   \* attachments.uploaded_by of each file that has a row
  claim       \* the expense_reports rows and the receipts their lines name

fileVars == <<stored, uploader, claim>>

NoRow == {}
NoClaim == [employee |-> {}, receipts |-> {}]
GoneClaim == [employee |-> {}, receipts |-> {}, deleted |-> TRUE]

OnRecord == {f \in Files : uploader[f] # NoRow}
Claimed == {c \in FileClaims : claim[c] \notin {NoClaim, GoneClaim}}
NamedBy(f) == {c \in Claimed : f \in claim[c].receipts}

\* HrScope: what a person may read and file.
Allows(person, employee) == person \in HrStaff \/ {person} = employee

InUpload == {slot[s].file : s \in {r \in Slots : slot[r].step \in {"file.put", "file.row"}}}

-----------------------------------------------------------------------------
BeginUpload(s, person, f) ==
  /\ f \notin stored \cup InUpload
  /\ Begin(s, "file.upload", [step |-> "file.put", file |-> f, person |-> person])
  /\ UNCHANGED fileVars

\* The store takes the bytes, or refuses them and ends the request.
Put(s) ==
  /\ At(s, "file.put")
  /\ \/ /\ stored' = stored \cup {slot[s].file}
        /\ Continue(s, [slot[s] EXCEPT !.step = "file.row"])
     \/ Finish(s) /\ UNCHANGED stored
  /\ UNCHANGED <<uploader, claim>>

InsertRow(s) ==
  /\ At(s, "file.row")
  /\ uploader' = [uploader EXCEPT ![slot[s].file] = {slot[s].person}]
  /\ Finish(s)
  /\ UNCHANGED <<stored, claim>>

\* Variant: the row may be anybody's, so long as there is one.
AnybodysReceipts(person, receipts) == receipts \subseteq OnRecord

\* ids_not_uploaded_by finds none: there is a row for each, and it is theirs.
ReceiptsAreTheirs(person, receipts) ==
  \A f \in receipts : uploader[f] = {person}

ReadToFile(s, person, employee, receipts) ==
  /\ Allows(person, {employee}) /\ ReceiptsAreTheirs(person, receipts)
  /\ Begin(s, "file.claim", [step |-> "file.insertClaim", by |-> person,
             claim |-> [employee |-> {employee}, receipts |-> receipts]])
  /\ UNCHANGED fileVars

InsertClaim(s, c) ==
  /\ At(s, "file.insertClaim") /\ claim[c] = NoClaim
  /\ claim' = [claim EXCEPT ![c] = slot[s].claim]
  /\ Finish(s)
  /\ UNCHANGED <<stored, uploader>>

ReadToEdit(s, person, c, receipts) ==
  /\ c \in Claimed
  /\ Allows(person, claim[c].employee) /\ ReceiptsAreTheirs(person, receipts)
  /\ Begin(s, "file.edit", [step |-> "file.replaceLines", by |-> person,
                            onto |-> c, receipts |-> receipts])
  /\ UNCHANGED fileVars

\* The lines are replaced as a whole; a claim that is gone ends the request.
ReplaceLines(s) ==
  LET c == slot[s].onto IN
  /\ At(s, "file.replaceLines")
  /\ claim' = IF c \in Claimed
              THEN [claim EXCEPT ![c].receipts = slot[s].receipts] ELSE claim
  /\ Finish(s)
  /\ UNCHANGED <<stored, uploader>>

DeleteClaim(c) ==
  /\ c \in Claimed
  /\ Happens("file.deleteClaim")
  /\ claim' = [claim EXCEPT ![c] = GoneClaim]
  /\ UNCHANGED <<stored, uploader>>

ReadRow(s, person, f) ==
  /\ f \in OnRecord
  /\ Begin(s, "file.download", [step |-> "file.owner", file |-> f, person |-> person])
  /\ UNCHANGED fileVars

\* owning_employee takes one of the claims that name the file; a file that is on
\* none is its uploader's.
FindOwner(s) ==
  LET f == slot[s].file
      owners == IF NamedBy(f) = {} THEN {uploader[f]}
                ELSE {claim[c].employee : c \in NamedBy(f)} IN
  /\ At(s, "file.owner")
  /\ \E owner \in owners :
       IF IF NamedBy(f) = {} THEN {slot[s].person} = owner ELSE Allows(slot[s].person, owner)
       THEN Continue(s, [slot[s] EXCEPT !.step = "file.link"])
       ELSE Finish(s)
  /\ UNCHANGED fileVars

\* The link is signed for the key, whether the object is there or not.
SignLink(s) ==
  /\ At(s, "file.link")
  /\ Finish(s)
  /\ UNCHANGED fileVars

AttachmentsInit ==
  /\ stored = {}
  /\ uploader = [f \in Files |-> NoRow]
  /\ claim = [c \in FileClaims |-> NoClaim]

FilesRequest(s) ==
  \E person \in Staff :
    \/ \E f \in Files : BeginUpload(s, person, f) \/ ReadRow(s, person, f)
    \/ \E receipts \in SUBSET Files :
         \/ \E employee \in Staff : ReadToFile(s, person, employee, receipts)
         \/ \E c \in FileClaims : ReadToEdit(s, person, c, receipts)

FilesStep(s) ==
  \/ Put(s) \/ InsertRow(s)
  \/ \E c \in FileClaims : InsertClaim(s, c)
  \/ ReplaceLines(s)
  \/ FindOwner(s) \/ SignLink(s)

FilesRequests ==
  {"file.upload", "file.claim", "file.edit", "file.deleteClaim", "file.download"}

AttachmentsNext ==
  /\ Concerns(FilesRequests)
  /\ \/ \E c \in FileClaims : DeleteClaim(c)
     \/ \E s \in Slots : (Free(s) /\ FilesRequest(s)) \/ FilesStep(s)

-----------------------------------------------------------------------------
(* Correctness *)

AttachmentsTypeOK ==
  /\ stored \subseteq Files
  /\ \A f \in Files : Cardinality(uploader[f]) <= 1
  /\ \A c \in Claimed : claim[c].employee \subseteq Staff /\ claim[c].receipts \subseteq Files

\* A receipt that looks present is: whatever is refused, dropped or overlaps,
\* a claim names only files that have a row, each uploaded by somebody who may
\* file that employee's claims, and every row has its object.  A link is given
\* only for such a file and, in turn, only to whoever may read a claim that
\* names it, or to its uploader while no claim does.
ReceiptsAreThere ==
  /\ OnRecord \subseteq stored
  /\ \A c \in Claimed : \A f \in claim[c].receipts :
       \E person \in Staff : uploader[f] = {person} /\ Allows(person, claim[c].employee)
  /\ \A s \in Slots : At(s, "file.link") =>
       LET f == slot[s].file
           person == slot[s].person IN
       /\ f \in stored
       /\ InTurn => \/ \E c \in NamedBy(f) : Allows(person, claim[c].employee)
                    \/ NamedBy(f) = {} /\ uploader[f] = {person}
=============================================================================
