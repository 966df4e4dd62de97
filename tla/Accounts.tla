------------------------------ MODULE Accounts ------------------------------
(***************************************************************************)
(* The accounts table (src/module/account) and the requests of             *)
(* AccountService and UserService that only touch it. Phones are in their  *)
(* normal form, the one every write gives them.                            *)
(***************************************************************************)
EXTENDS Requests

CONSTANTS Accounts,   \* ids of accounts rows
          Emails, Phones, Passwords,
          AdminRoles  \* roles of admin employees that are active

ASSUME NoneIsNoAccount == None \notin Accounts

VARIABLES account,    \* the rows
          asked,      \* history: the contact data and password last asked for
          proved      \* history: how the phone of an account came by its mark (Proofs)

accountVars == <<account, asked, proved>>

Roles == {"USER", "OFFICE", "ADMIN"}
AccountStatus == {"CREATED", "PENDING_OTP", "PENDING_REVIEW", "OFFICE_NO_SUBSCRIPTION",
                  "ACTIVE", "REJECTED", "BLOCKED"}

\* The address of a deleted account carries its id: the id stands for it.
Account == [role : Roles, status : AccountStatus, verified : BOOLEAN,
            email : Emails \union Accounts, phone : Phones \union Accounts,
            password : Passwords, adminRole : AdminRoles \union {None}]

ASSUME NoneIsNoAccountRow == None \notin Account

\* Since the phone was set: no code of the account was accepted, one was, or none was and
\* the row has the mark all the same (it was made with it, or kept that of the old number).
Proofs == {"no", "code", "given"}

AccountsTypeOK ==
  /\ account \in [Accounts -> Account \union {None}]
  /\ proved \in [Accounts -> Proofs]

AccountsInit ==
  /\ account = [a \in Accounts |-> None]
  /\ asked = [a \in Accounts |-> None]
  /\ proved = [a \in Accounts |-> "no"]

Exists(a) == account[a] # None
HasRole(a, role) == Exists(a) /\ account[a].role = role

\* findByIdentifier, with an email or a phone
Find(id) ==
  LET found == {a \in Accounts : Exists(a) /\ id \in {account[a].email, account[a].phone}}
  IN IF found = {} THEN None ELSE CHOOSE a \in found : TRUE

\* The unique indexes of the table, looked up by isEmailTaken and isPhoneTaken too.
EmailTaken(e) == \E a \in Accounts : Exists(a) /\ account[a].email = e
PhoneTaken(p) == \E a \in Accounts : Exists(a) /\ account[a].phone = p

Asked(row) == [email |-> row.email, phone |-> row.phone, password |-> row.password]

\* create: an insert that a row with the same email or phone refuses
Create(a, row) ==
  /\ ~Exists(a)
  /\ ~EmailTaken(row.email)
  /\ ~PhoneTaken(row.phone)
  /\ account' = [account EXCEPT ![a] = row]
  /\ asked' = [asked EXCEPT ![a] = Asked(row)]
  /\ proved' = [proved EXCEPT ![a] = IF row.verified THEN "given" ELSE "no"]

NewAccount(role, e, p, w) ==
  [role |-> role, status |-> "PENDING_OTP", verified |-> FALSE, email |-> e, phone |-> p,
   password |-> w, adminRole |-> None]

SetStatus(a, status) ==
  /\ account' = [account EXCEPT ![a].status = status]
  /\ UNCHANGED <<asked, proved>>

SetPassword(a, w) ==
  /\ account' = [account EXCEPT ![a].password = w]
  /\ asked' = [asked EXCEPT ![a].password = w]
  /\ UNCHANGED proved

\* updateProfile and changePhone throw on the unique index
SetEmail(a, e) ==
  IF EmailTaken(e) THEN UNCHANGED accountVars
  ELSE /\ account' = [account EXCEPT ![a].email = e]
       /\ asked' = [asked EXCEPT ![a].email = e]
       /\ UNCHANGED proved

\* Mutant: the new number counts as verified.
SetPhoneStillVerified(a, p) ==
  /\ account' = [account EXCEPT ![a] = [@ EXCEPT !.phone = p, !.status = "PENDING_OTP"]]
  /\ asked' = [asked EXCEPT ![a].phone = p]
  /\ proved' = [proved EXCEPT ![a] = "no"]

SetPhone(a, p) ==
  /\ account' = [account EXCEPT ![a] = [@ EXCEPT !.phone = p, !.verified = FALSE, !.status = "PENDING_OTP"]]
  /\ asked' = [asked EXCEPT ![a].phone = p]
  /\ proved' = [proved EXCEPT ![a] = "no"]

\* softDelete: the row stays, blocked, with an address nobody has
SoftDeleted(a) ==
  [account[a] EXCEPT !.status = "BLOCKED", !.verified = FALSE, !.email = a, !.phone = a]

SoftDelete(a) ==
  /\ account' = [account EXCEPT ![a] = SoftDeleted(a)]
  /\ asked' = [asked EXCEPT ![a] = Asked(SoftDeleted(a))]
  /\ proved' = [proved EXCEPT ![a] = "no"]

\* A write of phone p that leaves isPhoneVerified alone: a new number has the old one's mark.
MarkOf(row, p, proof) ==
  IF p = row.phone THEN proof ELSE IF row.verified THEN "given" ELSE "no"

KeepMark(a, p) == proved' = [proved EXCEPT ![a] = MarkOf(account[a], p, @)]

(***************************************************************************)
(* Requests of the admin on accounts                                       *)
(***************************************************************************)

CreateAdminAccount(a, e, p, w, r) ==
  /\ Create(a, [NewAccount("ADMIN", e, p, w) EXCEPT !.status = "ACTIVE", !.verified = TRUE,
                                                     !.adminRole = r])
  /\ AtOnce

\* The fields that are given; the indexes refuse an address another account has.
UpdateAdminEmployee(a, e, p, w, r) ==
  /\ HasRole(a, "ADMIN")
  /\ e = account[a].email \/ ~EmailTaken(e)
  /\ p = account[a].phone \/ ~PhoneTaken(p)
  /\ LET row == [account[a] EXCEPT !.email = e, !.phone = p, !.password = w, !.adminRole = r]
     IN /\ account' = [account EXCEPT ![a] = row]
        /\ asked' = [asked EXCEPT ![a] = Asked(row)]
  /\ KeepMark(a, p)
  /\ AtOnce

DeleteAdminEmployee(a) ==
  /\ HasRole(a, "ADMIN")
  /\ SoftDelete(a)
  /\ AtOnce

\* toggleAdminEmployeeStatus turns any other status into BLOCKED; ToggleStatus of a
\* user and toggleStauts of an office turn any other status into ACTIVE.
Toggled(row) ==
  IF row.role = "ADMIN"
  THEN IF row.status = "BLOCKED" THEN "ACTIVE" ELSE "BLOCKED"
  ELSE IF row.status = "ACTIVE" THEN "BLOCKED" ELSE "ACTIVE"

ToggleRead(h, a) ==
  /\ Exists(a)
  /\ Begin(h, [at |-> "toggle", who |-> a, status |-> Toggled(account[a])])
  /\ UNCHANGED accountVars

ToggleSave(h) ==
  /\ At(h, "toggle")
  /\ SetStatus(req[h].who, req[h].status)
  /\ Done(h)

\* updateProfile of UserService: the user, or an admin, edits a user, in two statements of
\* which the second writes the account (the status is dropped unless an admin asks)
UpdateUser(a, e, p, status) ==
  /\ HasRole(a, "USER")
  /\ e = account[a].email \/ ~EmailTaken(e)
  /\ p = account[a].phone \/ ~PhoneTaken(p)
  /\ LET row == [account[a] EXCEPT !.email = e, !.phone = p, !.status = status]
     IN /\ account' = [account EXCEPT ![a] = row]
        /\ asked' = [asked EXCEPT ![a] = Asked(row)]
  /\ KeepMark(a, p)
  /\ AtOnce

\* deleteProfile: the profile row first, then the account
DeleteUser(a) ==
  /\ HasRole(a, "USER")
  /\ SoftDelete(a)
  /\ AtOnce

\* The toggle of an office is a decision of its own (Offices).
AdminEdits ==
  \/ \E a \in Accounts, e \in Emails, p \in Phones, w \in Passwords, r \in AdminRoles :
       CreateAdminAccount(a, e, p, w, r) \/ UpdateAdminEmployee(a, e, p, w, r)
  \/ \E a \in Accounts : DeleteAdminEmployee(a)
  \/ \E h \in Handlers, a \in Accounts : ~HasRole(a, "OFFICE") /\ ToggleRead(h, a)
  \/ \E h \in Handlers : ToggleSave(h) /\ ~HasRole(req[h].who, "OFFICE")
  \/ \E a \in Accounts, e \in Emails, p \in Phones, s \in AccountStatus : UpdateUser(a, e, p, s)

AdminNext == AdminEdits \/ \E a \in Accounts : DeleteUser(a)
=============================================================================
