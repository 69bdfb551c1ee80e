------------------------------- MODULE Users --------------------------------
(***************************************************************************)
(* The accounts of the auth module: who registers, who may sign in, and who *)
(* administers.  update writes the role, the status and the verification   *)
(* of a row as its handler read them; mark_email_verified one column.      *)
(*                                                                         *)
(* An access token carries the role its bearer had when it was issued and  *)
(* is not looked up again: badges are the roles in the unexpired ones.     *)
(***************************************************************************)
EXTENDS Requests

CONSTANT People   \* who may register

VARIABLES
  user,      \* the users row of each person
  badges,    \* the roles in each person's unexpired access tokens
  letter,    \* the verification link each person has in the post
  first,     \* history: who registered on the empty installation
  granted,   \* history: whom an administrator has made one
  outdated   \* history: somebody acted as administrator who was none any more

userVars == <<user, badges, letter, first, granted, outdated>>

Roles == {"admin", "user"}
NoUser == [registered |-> FALSE, role |-> "user", active |-> FALSE, verified |-> FALSE]

Registered == {p \in People : user[p].registered}

\* The first account on a fresh install owns the instance.
BootstrapRole == IF Registered = {} THEN "admin" ELSE "user"

ReadToRegister(s, p) ==
  /\ p \notin Registered
  /\ Begin(s, "register", [step |-> "user.insert", who |-> p, role |-> BootstrapRole])
  /\ UNCHANGED userVars

\* Addresses are unique: the second of two registrations is refused.
InsertUser(s) ==
  LET p == slot[s].who IN
  /\ At(s, "user.insert")
  /\ \/ /\ p \notin Registered
        /\ user' = [user EXCEPT ![p] = [registered |-> TRUE, role |-> slot[s].role,
                                        active |-> TRUE, verified |-> FALSE]]
        /\ first' = IF Registered = {} THEN {p} ELSE first
        /\ Continue(s, [step |-> "user.welcome", who |-> p, role |-> slot[s].role])
     \/ /\ p \in Registered
        /\ Finish(s)
        /\ UNCHANGED <<user, first>>
  /\ UNCHANGED <<badges, letter, granted, outdated>>

\* The verification link is written and the first tokens are issued.
Welcome(s) ==
  /\ At(s, "user.welcome")
  /\ letter' = [letter EXCEPT ![slot[s].who] = "usable"]
  /\ badges' = [badges EXCEPT ![slot[s].who] = @ \cup {slot[s].role}]
  /\ Finish(s)
  /\ UNCHANGED <<user, first, granted, outdated>>

\* By logging in or refreshing.
TakeBadge(p) ==
  /\ user[p].active
  /\ Happens("badge")
  /\ badges' = [badges EXCEPT ![p] = @ \cup {user[p].role}]
  /\ UNCHANGED <<user, letter, first, granted, outdated>>

BadgeLapses(p, role) ==
  /\ role \in badges[p]
  /\ Happens("badge")
  /\ badges' = [badges EXCEPT ![p] = @ \ {role}]
  /\ UNCHANGED <<user, letter, first, granted, outdated>>

-----------------------------------------------------------------------------
(* Rows read, changed in one field and written whole *)

\* Whether a may administer, by the badge, and whether it is still so.
Administers(a) == "admin" \in badges[a]
IsAdministrator(p) == user[p].active /\ user[p].role = "admin"

\* Variant: nobody is kept from acting on themselves.
MayActOnAnyone(a, p) == TRUE

MayDemote(a, p) == a # p

ReadUserToSetRole(s, a, p, role) ==
  /\ Administers(a)
  /\ role # "admin" => MayDemote(a, p)
  /\ p \in Registered
  /\ Begin(s, "user.role",
           [step |-> "user.update", who |-> p, row |-> [user[p] EXCEPT !.role = role]])
  /\ granted' = IF role = "admin" THEN granted \cup {p} ELSE granted
  /\ outdated' = (outdated \/ ~IsAdministrator(a))
  /\ UNCHANGED <<user, badges, letter, first>>

ReadUserToSetStatus(s, a, p, active) ==
  /\ Administers(a)
  /\ ~active => MayDemote(a, p)
  /\ p \in Registered
  /\ Begin(s, "user.status",
           [step |-> "user.update", who |-> p, row |-> [user[p] EXCEPT !.active = active]])
  /\ outdated' = (outdated \/ ~IsAdministrator(a))
  /\ UNCHANGED <<user, badges, letter, first, granted>>

\* A change of name: what the model keeps of the row is as it was.
ReadToUpdateProfile(s, p) ==
  /\ badges[p] # {} /\ p \in Registered
  /\ Begin(s, "user.profile", [step |-> "user.update", who |-> p, row |-> user[p]])
  /\ UNCHANGED userVars

UpdateUser(s) ==
  /\ At(s, "user.update")
  /\ user' = [user EXCEPT ![slot[s].who] = slot[s].row]
  /\ Finish(s)
  /\ UNCHANGED <<badges, letter, first, granted, outdated>>

-----------------------------------------------------------------------------
(* Verification of the address *)

\* resend_verification: one usable link at a time is enough here.
ResendVerification(p) ==
  /\ user[p].active /\ ~user[p].verified
  /\ letter[p] # "usable"
  /\ Happens("verify.resend")
  /\ letter' = [letter EXCEPT ![p] = "usable"]
  /\ UNCHANGED <<user, badges, first, granted, outdated>>

ReadToVerify(s, p) ==
  /\ letter[p] = "usable"
  /\ Begin(s, "verify", [step |-> "verify.spend", who |-> p])
  /\ UNCHANGED userVars

SpendVerification(s) ==
  LET p == slot[s].who IN
  /\ At(s, "verify.spend")
  /\ \/ /\ letter[p] = "usable"
        /\ letter' = [letter EXCEPT ![p] = "spent"]
        /\ Continue(s, [step |-> "verify.mark", who |-> p])
     \/ letter[p] # "usable" /\ Finish(s) /\ UNCHANGED letter
  /\ UNCHANGED <<user, badges, first, granted, outdated>>

MarkEmailVerified(s) ==
  LET p == slot[s].who IN
  /\ At(s, "verify.mark")
  /\ user' = [user EXCEPT ![p].verified = TRUE]
  /\ Continue(s, [step |-> "verify.expireAll", who |-> p])
  /\ UNCHANGED <<badges, letter, first, granted, outdated>>

ExpireVerifications(s) ==
  /\ At(s, "verify.expireAll")
  /\ letter' = [letter EXCEPT ![slot[s].who] = "spent"]
  /\ Finish(s)
  /\ UNCHANGED <<user, badges, first, granted, outdated>>

-----------------------------------------------------------------------------
UsersInit ==
  /\ user = [p \in People |-> NoUser]
  /\ badges = [p \in People |-> {}]
  /\ letter = [p \in People |-> "none"]
  /\ first = {} /\ granted = {} /\ outdated = FALSE

UsersRequest(s) ==
  \/ \E p \in People :
       \/ ReadToRegister(s, p) \/ ReadToUpdateProfile(s, p) \/ ReadToVerify(s, p)
       \/ \E a \in People :
            \/ \E role \in Roles : ReadUserToSetRole(s, a, p, role)
            \/ \E active \in BOOLEAN : ReadUserToSetStatus(s, a, p, active)

UsersStep(s) ==
  \/ InsertUser(s) \/ Welcome(s)
  \/ UpdateUser(s)
  \/ SpendVerification(s) \/ MarkEmailVerified(s) \/ ExpireVerifications(s)

UsersRequests ==
  {"register", "badge", "user.role", "user.status", "user.profile", "verify",
   "verify.resend"}

UsersNext ==
  /\ Concerns(UsersRequests)
  /\ \/ \E p \in People :
          \/ TakeBadge(p) \/ ResendVerification(p)
          \/ \E role \in Roles : BadgeLapses(p, role)
     \/ \E s \in Slots : (Free(s) /\ UsersRequest(s)) \/ UsersStep(s)

-----------------------------------------------------------------------------
(* Correctness *)

\* The rows keep their shape, and only rows that were inserted can sign in.
UsersTypeOK ==
  /\ user \in [People -> [registered : BOOLEAN, role : Roles, active : BOOLEAN,
                          verified : BOOLEAN]]
  /\ \A p \in People \ Registered : user[p] = NoUser /\ badges[p] = {}
  /\ badges \in [People -> SUBSET Roles]
  /\ letter \in [People -> {"none", "usable", "spent"}]
  /\ first \in SUBSET People /\ Cardinality(first) <= 1
  /\ granted \in SUBSET People /\ outdated \in BOOLEAN

\* Administrators may not demote or retire themselves, so that one always
\* remains as long as nobody acts on an access token that has outlived their
\* role; and nobody administers whom no administrator made one, but for the
\* person who registered first.  It holds for requests in turn.
AnAdministratorRemains ==
  InTurn =>
    /\ Registered # {} /\ ~outdated => \E p \in People : IsAdministrator(p)
    /\ \A p \in People : user[p].role = "admin" => p \in first \cup granted
=============================================================================
