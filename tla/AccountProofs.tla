--------------------------- MODULE AccountProofs ---------------------------
(***************************************************************************)
(* What holds of accounts, one-time codes, sessions and offices, for any   *)
(* number of each and any number of requests.                              *)
(***************************************************************************)
EXTENDS Reports, SumProofs

-----------------------------------------------------------------------------
(* Types of the tables and of what requests hold *)

Identifier == Emails \union Phones

\* A request holds what its next statement needs: an account that was made, a code or a
\* session that was issued, and a row of its table.
ReqTyped(r, acc, cod, ses) ==
  /\ r.at \in {"otp_check", "otp_expire", "otp_insert"} =>
       r \in [at : {"otp_check", "otp_expire", "otp_insert"}, who : Accounts, purpose : Purposes]
  /\ r.at \in {"otp_read", "otp_save"} => r.purpose \in Purposes
  /\ r.at = "otp_read" => r.right \in BOOLEAN
  /\ r.at = "otp_save" => r.code \in Codes /\ cod[r.code] # None /\ r.row \in Code /\ r.ok \in BOOLEAN
  /\ r.at \in {"otp_save", "password", "email", "phone", "phone_save", "member", "verified",
               "session", "delete", "toggle"} => r.who \in Accounts /\ acc[r.who] # None
  /\ r.at = "password" => r.password \in Passwords
  /\ r.at = "email" => r.email \in Emails
  /\ r.at = "phone" => r.phone \in Phones
  /\ r.at = "phone_save" => r.row \in Account /\ r.row.role = acc[r.who].role
  /\ r.at \in {"verified", "toggle"} => r.status \in AccountStatus
  /\ r.at = "rotate" => r.session \in Sessions /\ ses[r.session] # None /\ r.row \in Session
  /\ r.at = "clear_employee" => r.row \in Employees
  /\ r.at \in {"apply_change", "drop_details", "reject_change", "fill_details"} => r.who \in Accounts
  /\ r.at = "apply_change" => r.data \in ChangeData
  /\ r.at = "fill_details" => r.name \in Names

ReqsTyped == \A h \in Handlers : ReqTyped(req[h], account, code, session)

AccountTables ==
  /\ AccountsTypeOK
  /\ asked = [b \in Accounts |-> asked[b]]

CodeTables ==
  /\ OtpTypeOK
  /\ wrong \in [Codes -> Nat]
  /\ accepted \in [Codes -> Nat]

SessionTables ==
  /\ session \in [Sessions -> Session \union {None}]
  /\ ended \subseteq Sessions

\* The account of an office or of an employee is an office account.
OfficeAccounts ==
  /\ \A o \in Accounts : IsOffice(o) => HasRole(o, "OFFICE")
  /\ \A e \in Employees : employee[e] # None /\ employee[e].account # None =>
                            HasRole(employee[e].account, "OFFICE")

\* A reset token is that of an account.
ResetTokens == \A a \in resettable : Exists(a)

\* One at a time, only one request is on its way.
OneBusy == serial => \A h, g \in Handlers : req[h] # Idle /\ req[g] # Idle => h = g

TypeInv ==
  /\ AccountTables /\ CodeTables /\ SessionTables
  /\ OfficesTypeOK /\ OfficeAccounts /\ ResetTokens
  /\ req = [h \in Handlers |-> req[h]]
  /\ ReqsTyped /\ OneBusy

-----------------------------------------------------------------------------
(* How a step moves the requests *)

\* Accounts keep their role once they are made, codes and sessions stay rows.
Grown ==
  /\ \A a \in Accounts : account[a] # None => account'[a] # None /\ account'[a].role = account[a].role
  /\ \A c \in Codes : code[c] # None => code'[c] # None
  /\ \A s \in Sessions : session[s] # None => session'[s] # None

\* Handler h turns to r; one at a time, nobody else is busy.
MovesTo(h, r) ==
  /\ req' = [req EXCEPT ![h] = r]
  /\ serial' = serial
  /\ serial => \A g \in Handlers \ {h} : req[g] = Idle

LEMMA BeginMoves ==
  ASSUME NEW h \in Handlers, NEW r, Begin(h, r) PROVE MovesTo(h, r)
  BY DEF Begin, MovesTo, Quiet

LEMMA GotoMoves ==
  ASSUME TypeInv, NEW h \in Handlers, req[h].at # "idle", NEW r, Goto(h, r) PROVE MovesTo(h, r)
<1>1. req[h] # Idle
  BY DEF Idle
<1>2. QED
  BY <1>1 DEF Goto, MovesTo, TypeInv, OneBusy

LEMMA MoveKeepsOthers ==
  ASSUME TypeInv, NEW h \in Handlers, NEW r, MovesTo(h, r)
  PROVE  /\ req'[h] = r
         /\ \A g \in Handlers \ {h} : req'[g] = req[g]
         /\ req' = [g \in Handlers |-> req'[g]]
         /\ OneBusy'
<1>1. /\ req'[h] = r
      /\ \A g \in Handlers \ {h} : req'[g] = req[g]
      /\ req' = [g \in Handlers |-> req'[g]]
  BY DEF TypeInv, MovesTo
<1>2. OneBusy'
  BY <1>1 DEF OneBusy, MovesTo
<1>3. QED
  BY <1>1, <1>2

LEMMA TypedStays ==
  ASSUME Grown, NEW r, ReqTyped(r, account, code, session)
  PROVE  ReqTyped(r, account', code', session')
  BY DEF Grown, ReqTyped

\* Requests stay typed when one of them turns to a typed one, or when none moves.
LEMMA MoveKeepsTyped ==
  ASSUME TypeInv, Grown, NEW h \in Handlers, NEW r, MovesTo(h, r),
         ReqTyped(r, account', code', session')
  PROVE  ReqsTyped'
<1>1. ASSUME NEW g \in Handlers PROVE ReqTyped(req'[g], account', code', session')
  <2>1. CASE g = h
    BY <2>1, MoveKeepsOthers
  <2>2. CASE g # h
    BY <2>2, MoveKeepsOthers, TypedStays DEF TypeInv, ReqsTyped
  <2>3. QED
    BY <2>1, <2>2
<1>2. QED
  BY <1>1 DEF ReqsTyped

LEMMA StillTyped ==
  ASSUME TypeInv, Grown, UNCHANGED reqVars
  PROVE  ReqsTyped' /\ OneBusy'
<1>1. ReqsTyped'
  BY TypedStays DEF TypeInv, ReqsTyped, reqVars
<1>2. QED
  BY <1>1 DEF TypeInv, OneBusy, reqVars

\* No request moves, or one turns to a typed one.
Turn ==
  \/ UNCHANGED reqVars
  \/ \E h \in Handlers : \E r : MovesTo(h, r) /\ ReqTyped(r, account', code', session')

LEMMA TurnKeepsTyped ==
  ASSUME TypeInv, Grown, Turn
  PROVE  ReqsTyped' /\ OneBusy' /\ req' = [h \in Handlers |-> req'[h]]
<1>1. CASE UNCHANGED reqVars
  BY <1>1, StillTyped DEF TypeInv, reqVars
<1>2. ASSUME NEW h \in Handlers, NEW r, MovesTo(h, r), ReqTyped(r, account', code', session')
      PROVE  ReqsTyped' /\ OneBusy' /\ req' = [g \in Handlers |-> req'[g]]
  BY <1>2, MoveKeepsTyped, MoveKeepsOthers
<1>3. QED
  BY <1>1, <1>2 DEF Turn

LEMMA IdleIsTyped == \A acc, cod, ses : ReqTyped(Idle, acc, cod, ses)
  BY DEF ReqTyped, Idle

-----------------------------------------------------------------------------
(* Rows *)

LEMMA FoundExists ==
  ASSUME NEW id, Find(id) # None
  PROVE  Find(id) \in Accounts /\ Exists(Find(id))
  BY DEF Find

\* The columns of an account row after one was set.
LEMMA AccountRow ==
  ASSUME NEW row \in Account
  PROVE  /\ \A s \in AccountStatus : [row EXCEPT !.status = s] \in Account
         /\ \A w \in Passwords : [row EXCEPT !.password = w] \in Account
         /\ \A e \in Emails : [row EXCEPT !.email = e] \in Account
         /\ \A p \in Phones : [row EXCEPT !.phone = p, !.verified = FALSE, !.status = "PENDING_OTP"] \in Account
         /\ [row EXCEPT !.verified = TRUE] \in Account
         /\ \A a \in Accounts :
              [row EXCEPT !.status = "BLOCKED", !.verified = FALSE, !.email = a, !.phone = a] \in Account
         /\ row # None
  BY NoneIsNoAccountRow DEF Account, AccountStatus

LEMMA NewAccountRow ==
  ASSUME NEW role \in Roles, NEW e \in Emails, NEW p \in Phones, NEW w \in Passwords
  PROVE  /\ NewAccount(role, e, p, w) \in Account
         /\ NewAccount(role, e, p, w).role = role
         /\ ~ NewAccount(role, e, p, w).verified
         /\ NewAccount(role, e, p, w).status = "PENDING_OTP"
         /\ NewAccount(role, e, p, w).adminRole = None
  BY DEF NewAccount, Account, AccountStatus

\* Each account carries the contact data last asked for, and a phone that counts as
\* verified came by its mark.
Owned ==
  \A a \in Accounts : Exists(a) =>
    Asked(account[a]) = asked[a] /\ (account[a].verified => proved[a] # "no")

\* The history columns of an account agree with row.
Agrees(a, row) == Asked(row) = asked'[a] /\ (row.verified => proved'[a] # "no")

\* One row of accounts is written.
Written(a, row) ==
  /\ account' = [account EXCEPT ![a] = row]
  /\ asked' = [b \in Accounts |-> asked'[b]]
  /\ \A b \in Accounts \ {a} : asked'[b] = asked[b] /\ proved'[b] = proved[b]
  /\ proved' \in [Accounts -> Proofs]

AccountGrown ==
  \A a \in Accounts : account[a] # None => account'[a] # None /\ account'[a].role = account[a].role

AccountsKept == AccountTables' /\ AccountGrown

OwnedStays == Owned => Owned'

LEMMA WriteKeepsTables ==
  ASSUME AccountTables, NEW a \in Accounts, NEW row \in Account, Written(a, row),
         Exists(a) => row.role = account[a].role
  PROVE  /\ AccountsKept
         /\ account'[a] = row
         /\ \A b \in Accounts \ {a} : account'[b] = account[b]
         /\ row # None
<1>1. row # None
  BY NoneIsNoAccountRow
<1>2. /\ account'[a] = row
      /\ \A b \in Accounts \ {a} : account'[b] = account[b]
      /\ AccountTables'
  BY DEF AccountTables, AccountsTypeOK, Written
<1>3. AccountGrown
  BY <1>1, <1>2 DEF AccountGrown, Exists
<1>4. QED
  BY <1>1, <1>2, <1>3 DEF AccountsKept

LEMMA WriteKeepsOwned ==
  ASSUME AccountTables, NEW a \in Accounts, NEW row \in Account, Written(a, row),
         Exists(a) => row.role = account[a].role, Owned => Agrees(a, row)
  PROVE  OwnedStays
<1> SUFFICES ASSUME Owned, NEW b \in Accounts, Exists(b)'
             PROVE  Asked(account'[b]) = asked'[b] /\ (account'[b].verified => proved'[b] # "no")
  BY DEF OwnedStays, Owned, Exists, Asked
<1>1. CASE b = a
  BY <1>1, WriteKeepsTables DEF Agrees
<1>2. CASE b # a
  <2>1. account'[b] = account[b]
    BY <1>2, WriteKeepsTables
  <2>2. QED
    BY <1>2, <2>1 DEF Written, Owned, Exists
<1>3. QED
  BY <1>1, <1>2

LEMMA RowOf ==
  ASSUME AccountTables, NEW a \in Accounts, Exists(a)
  PROVE  account[a] \in Account /\ account[a] # None
  BY DEF AccountTables, AccountsTypeOK, Exists

LEMMA SameAccounts ==
  ASSUME AccountTables, UNCHANGED accountVars PROVE AccountsKept /\ OwnedStays
<1>1. AccountsKept
  BY DEF accountVars, AccountsKept, AccountTables, AccountsTypeOK, AccountGrown
<1>2. OwnedStays
  BY DEF OwnedStays, Owned, Exists, Asked, accountVars
<1>3. QED
  BY <1>1, <1>2

LEMMA SetStatusKeeps ==
  ASSUME AccountTables, NEW a \in Accounts, Exists(a), NEW s \in AccountStatus, SetStatus(a, s)
  PROVE  AccountsKept /\ OwnedStays
<1> DEFINE row == [account[a] EXCEPT !.status = s]
<1>1. row \in Account
  BY RowOf, AccountRow
<1>2. row.role = account[a].role /\ Asked(row) = Asked(account[a]) /\ row.verified = account[a].verified
  BY RowOf DEF Account, Asked
<1>3. Written(a, row)
  BY DEF SetStatus, Written, AccountTables, AccountsTypeOK
<1>4. Owned => Agrees(a, row)
  BY <1>2 DEF Owned, Agrees, SetStatus
<1> HIDE DEF row
<1>5. QED
  BY <1>1, <1>2, <1>3, <1>4, WriteKeepsTables, WriteKeepsOwned

LEMMA SetPasswordKeeps ==
  ASSUME AccountTables, NEW a \in Accounts, Exists(a), NEW w \in Passwords, SetPassword(a, w)
  PROVE  AccountsKept /\ OwnedStays
<1> DEFINE row == [account[a] EXCEPT !.password = w]
<1>1. row \in Account
  BY RowOf, AccountRow
<1>2. /\ row.role = account[a].role /\ row.verified = account[a].verified
      /\ Asked(row) = [Asked(account[a]) EXCEPT !.password = w]
  BY RowOf DEF Account, Asked
<1>3. Written(a, row)
  BY DEF SetPassword, Written, AccountTables, AccountsTypeOK
<1>4. Owned => Agrees(a, row)
  BY <1>2 DEF Owned, Agrees, SetPassword, AccountTables
<1> HIDE DEF row
<1>5. QED
  BY <1>1, <1>2, <1>3, <1>4, WriteKeepsTables, WriteKeepsOwned

LEMMA SetEmailKeeps ==
  ASSUME AccountTables, NEW a \in Accounts, Exists(a), NEW e \in Emails, SetEmail(a, e)
  PROVE  AccountsKept /\ OwnedStays
<1>1. CASE UNCHANGED accountVars
  BY <1>1, SameAccounts
<1>2. CASE ~ EmailTaken(e)
  <2> DEFINE row == [account[a] EXCEPT !.email = e]
  <2>1. row \in Account
    BY RowOf, AccountRow
  <2>2. /\ row.role = account[a].role /\ row.verified = account[a].verified
        /\ Asked(row) = [Asked(account[a]) EXCEPT !.email = e]
    BY RowOf DEF Account, Asked
  <2>3. Written(a, row)
    BY <1>2 DEF SetEmail, Written, AccountTables, AccountsTypeOK
  <2>4. Owned => Agrees(a, row)
    BY <1>2, <2>2 DEF Owned, Agrees, SetEmail, AccountTables
  <2> HIDE DEF row
  <2>5. QED
    BY <2>1, <2>2, <2>3, <2>4, WriteKeepsTables, WriteKeepsOwned
<1>3. QED
  BY <1>1, <1>2 DEF SetEmail

LEMMA SetPhoneKeeps ==
  ASSUME AccountTables, NEW a \in Accounts, Exists(a), NEW p \in Phones, SetPhone(a, p)
  PROVE  AccountsKept /\ OwnedStays
<1> DEFINE row == [account[a] EXCEPT !.phone = p, !.verified = FALSE, !.status = "PENDING_OTP"]
<1>1. row \in Account
  BY RowOf, AccountRow
<1>2. /\ row.role = account[a].role /\ ~ row.verified
      /\ Asked(row) = [Asked(account[a]) EXCEPT !.phone = p]
  BY RowOf DEF Account, Asked
<1>3. Written(a, row)
  BY DEF SetPhone, Written, AccountTables, AccountsTypeOK, Proofs
<1>4. Owned => Agrees(a, row)
  BY <1>2 DEF Owned, Agrees, SetPhone, AccountTables
<1> HIDE DEF row
<1>5. QED
  BY <1>1, <1>2, <1>3, <1>4, WriteKeepsTables, WriteKeepsOwned

LEMMA SoftDeletedRow ==
  ASSUME AccountTables, NEW a \in Accounts, Exists(a)
  PROVE  /\ SoftDeleted(a) \in Account
         /\ SoftDeleted(a).role = account[a].role
         /\ SoftDeleted(a).status = "BLOCKED"
         /\ ~ SoftDeleted(a).verified
<1>1. account[a] \in Account
  BY RowOf
<1>2. SoftDeleted(a) \in Account
  BY <1>1, AccountRow DEF SoftDeleted
<1>3. QED
  BY <1>1, <1>2 DEF SoftDeleted, Account

LEMMA SoftDeleteKeeps ==
  ASSUME AccountTables, NEW a \in Accounts, Exists(a), SoftDelete(a)
  PROVE  AccountsKept /\ OwnedStays
<1>1. Written(a, SoftDeleted(a))
  BY DEF SoftDelete, Written, AccountTables, AccountsTypeOK, Proofs
<1>2. Agrees(a, SoftDeleted(a))
  BY SoftDeletedRow DEF Agrees, SoftDelete, AccountTables
<1>3. QED
  BY <1>1, <1>2, SoftDeletedRow, WriteKeepsTables, WriteKeepsOwned

LEMMA CreateKeeps ==
  ASSUME AccountTables, NEW a \in Accounts, NEW row \in Account, Create(a, row)
  PROVE  AccountsKept /\ OwnedStays /\ ~ Exists(a) /\ account'[a] = row /\ row # None
<1>1. Written(a, row) /\ ~ Exists(a)
  BY DEF Create, Written, AccountTables, AccountsTypeOK, Proofs
<1>2. Agrees(a, row)
  BY DEF Agrees, Create, AccountTables, AccountsTypeOK
<1>3. QED
  BY <1>1, <1>2, WriteKeepsTables, WriteKeepsOwned

\* A phone that is written without its mark still has one when it counts as verified.
LEMMA MarkKept ==
  ASSUME AccountTables, NEW a \in Accounts, NEW p, KeepMark(a, p)
  PROVE  /\ proved' \in [Accounts -> Proofs]
         /\ \A b \in Accounts \ {a} : proved'[b] = proved[b]
         /\ (account[a].verified => proved[a] # "no") => (account[a].verified => proved'[a] # "no")
<1>1. proved \in [Accounts -> Proofs]
  BY DEF AccountTables, AccountsTypeOK
<1>2. MarkOf(account[a], p, proved[a]) \in Proofs
  BY <1>1 DEF MarkOf, Proofs
<1>3. (account[a].verified => proved[a] # "no")
        => (account[a].verified => MarkOf(account[a], p, proved[a]) # "no")
  BY DEF MarkOf
<1>4. proved' = [proved EXCEPT ![a] = MarkOf(account[a], p, proved[a])]
  BY DEF KeepMark
<1>5. QED
  BY <1>1, <1>2, <1>3, <1>4

\* Contact data that is edited with the status or the role of an admin
LEMMA EditKeeps ==
  ASSUME AccountTables, NEW a \in Accounts, Exists(a), NEW row \in Account,
         row.role = account[a].role, row.verified = account[a].verified,
         account' = [account EXCEPT ![a] = row], asked' = [asked EXCEPT ![a] = Asked(row)],
         NEW p, KeepMark(a, p)
  PROVE  AccountsKept /\ OwnedStays
<1>1. Written(a, row)
  BY MarkKept DEF Written, AccountTables, AccountsTypeOK
<1>2. Owned => Agrees(a, row)
  BY MarkKept DEF Agrees, Owned, AccountTables
<1>3. QED
  BY <1>1, <1>2, WriteKeepsTables, WriteKeepsOwned

-----------------------------------------------------------------------------
(* What each step leaves as it was *)

OfficesKept == OfficesTypeOK' /\ OfficeAccounts'
CodesKept ==
  /\ CodeTables'
  /\ \A c \in Codes : code[c] # None => code'[c] # None
  /\ \A a \in resettable' : a \in resettable \/ Exists(a)
SessionsKept == SessionTables' /\ \A s \in Sessions : session[s] # None => session'[s] # None

LEMMA SameOffices ==
  ASSUME TypeInv, AccountsKept, UNCHANGED officeVars PROVE OfficesKept
<1>1. OfficesTypeOK'
  BY DEF TypeInv, OfficesTypeOK, officeVars
<1>2. OfficeAccounts'
  BY DEF TypeInv, OfficeAccounts, OfficesTypeOK, IsOffice, HasRole, Exists, officeVars, AccountsKept,
         AccountGrown, Employee
<1>3. QED
  BY <1>1, <1>2 DEF OfficesKept

LEMMA SameCodes ==
  ASSUME TypeInv, UNCHANGED otpVars PROVE CodesKept
  BY DEF TypeInv, CodesKept, CodeTables, OtpTypeOK, otpVars

LEMMA SameSessions ==
  ASSUME TypeInv, UNCHANGED authVars PROVE SessionsKept
  BY DEF TypeInv, SessionsKept, SessionTables, authVars

LEMMA AllKept ==
  ASSUME TypeInv, AccountsKept, OfficesKept, CodesKept, SessionsKept, Turn
  PROVE  TypeInv'
<1>1. Grown
  BY DEF Grown, AccountsKept, AccountGrown, CodesKept, SessionsKept
<1>2. QED
  <2>1. ResetTokens'
    BY DEF TypeInv, ResetTokens, CodesKept, CodeTables, OtpTypeOK, AccountsKept, AccountGrown, Exists
  <2>2. QED
    BY <1>1, <2>1, TurnKeepsTyped DEF TypeInv, AccountsKept, OfficesKept, CodesKept, SessionsKept

\* A step that writes accounts only, and one that writes nothing
LEMMA AccountsWritten ==
  ASSUME TypeInv, AccountsKept, UNCHANGED <<officeVars, otpVars, authVars>>, Turn
  PROVE  TypeInv'
  BY SameOffices, SameCodes, SameSessions, AllKept

LEMMA NothingWritten ==
  ASSUME TypeInv, UNCHANGED <<rowVars, authVars>>, Turn
  PROVE  TypeInv' /\ OwnedStays
<1>1. UNCHANGED <<accountVars, officeVars, otpVars, authVars>>
  BY DEF rowVars
<1>2. AccountsKept /\ OwnedStays
  BY <1>1, SameAccounts DEF TypeInv
<1>3. QED
  BY <1>1, <1>2, AccountsWritten

LEMMA Begun ==
  ASSUME NEW h \in Handlers, NEW r, Begin(h, r), ReqTyped(r, account', code', session') PROVE Turn
  BY BeginMoves DEF Turn

LEMMA Gone ==
  ASSUME TypeInv, NEW h \in Handlers, req[h].at # "idle", NEW r, Goto(h, r),
         ReqTyped(r, account', code', session')
  PROVE  Turn
  BY GotoMoves DEF Turn

LEMMA Ended ==
  ASSUME TypeInv, NEW h \in Handlers, req[h].at # "idle", Done(h) PROVE Turn
  BY Gone, IdleIsTyped DEF Done

LEMMA Stayed ==
  ASSUME UNCHANGED reqVars PROVE Turn
  BY DEF Turn

\* What the request of a handler holds
LEMMA Holds ==
  ASSUME TypeInv, NEW h \in Handlers PROVE ReqTyped(req[h], account, code, session)
  BY DEF TypeInv, ReqsTyped

-----------------------------------------------------------------------------
(* Requests of the admin on accounts *)

LEMMA CreateAdminTyped ==
  ASSUME TypeInv, NEW a \in Accounts, NEW e \in Emails, NEW p \in Phones, NEW w \in Passwords,
         NEW r \in AdminRoles, CreateAdminAccount(a, e, p, w, r),
         UNCHANGED <<officeVars, otpVars, authVars>>
  PROVE  TypeInv' /\ OwnedStays
<1> DEFINE row == [NewAccount("ADMIN", e, p, w) EXCEPT !.status = "ACTIVE", !.verified = TRUE,
                                                       !.adminRole = r]
<1>1. row \in Account
  BY DEF NewAccount, Account, AccountStatus, Roles
<1>2. Create(a, row) /\ UNCHANGED reqVars
  BY DEF CreateAdminAccount, AtOnce
<1> HIDE DEF row
<1>3. QED
  BY <1>1, <1>2, CreateKeeps, Stayed, AccountsWritten DEF TypeInv

LEMMA UpdateAdminTyped ==
  ASSUME TypeInv, NEW a \in Accounts, NEW e \in Emails, NEW p \in Phones, NEW w \in Passwords,
         NEW r \in AdminRoles, UpdateAdminEmployee(a, e, p, w, r),
         UNCHANGED <<officeVars, otpVars, authVars>>
  PROVE  TypeInv' /\ OwnedStays
<1> DEFINE row == [account[a] EXCEPT !.email = e, !.phone = p, !.password = w, !.adminRole = r]
<1>1. Exists(a) /\ account[a] \in Account
  BY RowOf DEF UpdateAdminEmployee, HasRole, TypeInv
<1>2. row \in Account /\ row.role = account[a].role /\ row.verified = account[a].verified
  BY <1>1 DEF Account
<1>3. /\ account' = [account EXCEPT ![a] = row] /\ asked' = [asked EXCEPT ![a] = Asked(row)]
      /\ KeepMark(a, p) /\ UNCHANGED reqVars
  BY DEF UpdateAdminEmployee, AtOnce
<1> HIDE DEF row
<1>4. QED
  BY <1>1, <1>2, <1>3, EditKeeps, Stayed, AccountsWritten DEF TypeInv

LEMMA UpdateUserTyped ==
  ASSUME TypeInv, NEW a \in Accounts, NEW e \in Emails, NEW p \in Phones, NEW s \in AccountStatus,
         UpdateUser(a, e, p, s), UNCHANGED <<officeVars, otpVars, authVars>>
  PROVE  TypeInv' /\ OwnedStays
<1> DEFINE row == [account[a] EXCEPT !.email = e, !.phone = p, !.status = s]
<1>1. Exists(a) /\ account[a] \in Account
  BY RowOf DEF UpdateUser, HasRole, TypeInv
<1>2. row \in Account /\ row.role = account[a].role /\ row.verified = account[a].verified
  BY <1>1 DEF Account
<1>3. /\ account' = [account EXCEPT ![a] = row] /\ asked' = [asked EXCEPT ![a] = Asked(row)]
      /\ KeepMark(a, p) /\ UNCHANGED reqVars
  BY DEF UpdateUser, AtOnce
<1> HIDE DEF row
<1>4. QED
  BY <1>1, <1>2, <1>3, EditKeeps, Stayed, AccountsWritten DEF TypeInv

LEMMA DeleteTyped ==
  ASSUME TypeInv, NEW a \in Accounts, DeleteAdminEmployee(a) \/ DeleteUser(a),
         UNCHANGED <<officeVars, otpVars, authVars>>
  PROVE  TypeInv' /\ OwnedStays
<1>1. Exists(a) /\ SoftDelete(a) /\ UNCHANGED reqVars
  BY DEF DeleteAdminEmployee, DeleteUser, HasRole, AtOnce
<1>2. QED
  BY <1>1, SoftDeleteKeeps, Stayed, AccountsWritten DEF TypeInv

LEMMA ToggleReadTurns ==
  ASSUME TypeInv, NEW h \in Handlers, NEW a \in Accounts, ToggleRead(h, a),
         UNCHANGED <<officeVars, otpVars, authVars>>
  PROVE  TypeInv' /\ OwnedStays
<1> DEFINE r == [at |-> "toggle", who |-> a, status |-> Toggled(account[a])]
<1>1. Begin(h, r) /\ Exists(a) /\ UNCHANGED <<rowVars, authVars>>
  BY DEF ToggleRead, rowVars
<1>2. Toggled(account[a]) \in AccountStatus
  BY DEF Toggled, AccountStatus
<1>3. ReqTyped(r, account', code', session')
  BY <1>1, <1>2 DEF ReqTyped, Exists, rowVars, accountVars
<1> HIDE DEF r
<1>4. QED
  BY <1>1, <1>3, Begun, NothingWritten

LEMMA ToggleSaveKeeps ==
  ASSUME TypeInv, NEW h \in Handlers, ToggleSave(h)
  PROVE  /\ AccountsKept /\ OwnedStays /\ Turn
         /\ req[h].who \in Accounts /\ Exists(req[h].who) /\ req[h].status \in AccountStatus
         /\ SetStatus(req[h].who, req[h].status)
<1>1. /\ req[h].who \in Accounts /\ Exists(req[h].who) /\ req[h].status \in AccountStatus
      /\ SetStatus(req[h].who, req[h].status)
      /\ req[h].at = "toggle" /\ Done(h)
  BY Holds DEF ToggleSave, At, ReqTyped, Exists
<1>2. QED
  BY <1>1, SetStatusKeeps, Ended DEF TypeInv

LEMMA AdminTyped ==
  ASSUME TypeInv, AdminNext, UNCHANGED <<officeVars, otpVars, authVars>>
  PROVE  TypeInv' /\ OwnedStays
  BY CreateAdminTyped, UpdateAdminTyped, UpdateUserTyped, DeleteTyped, ToggleReadTurns,
     ToggleSaveKeeps, AccountsWritten DEF AdminNext, AdminEdits

-----------------------------------------------------------------------------
(* One-time codes *)

LEMMA CodesFinite == IsFiniteSet(Codes) /\ Codes \subseteq Nat
<1>1. IsFiniteSet(1..MaxCodes)
  BY FS_Interval, MaxCodesNat
<1>2. QED
  BY <1>1, MaxCodesNat DEF Codes

LEMMA SmallestCodes ==
  ASSUME NEW B, B \subseteq SUBSET Codes, B # {}
  PROVE  \E T \in B : \A U \in B : U \subseteq T => U = T
<1> DEFINE S == Codes
<1>1. IsFiniteSet(S)
  BY CodesFinite
<1> HIDE DEF S
<1>2. B \subseteq SUBSET S
  BY DEF S
<1>3. QED
  BY <1>1, <1>2, SmallestSubset

LEMMA MinIsMember ==
  ASSUME NEW T, T \subseteq Codes, T # {} PROVE Min(T) \in T
<1> DEFINE B == {1..x : x \in T}
<1>1. B \subseteq SUBSET Codes /\ B # {}
  <2>1. \A x \in T : 1..x \subseteq Codes
    BY MaxCodesNat DEF Codes
  <2>2. QED
    BY <2>1
<1> HIDE DEF B
<1>2. PICK I \in B : \A J \in B : J \subseteq I => J = I
  BY <1>1, SmallestCodes
<1> USE DEF B
<1>3. PICK x \in T : I = 1..x
  BY <1>2
<1>4. ASSUME NEW y \in T PROVE x <= y
  <2>1. 1..y \in B /\ x \in Nat \ {0} /\ y \in Nat \ {0}
    BY MaxCodesNat DEF Codes
  <2>2. ASSUME y < x PROVE FALSE
    <3>1. 1..y \subseteq 1..x /\ x \in 1..x /\ x \notin 1..y
      BY <2>1, <2>2
    <3>2. QED
      BY <1>2, <1>3, <2>1, <3>1
  <2>3. QED
    BY <2>1, <2>2
<1>5. QED
  BY <1>4 DEF Min

LEMMA MaxIsMember ==
  ASSUME NEW T, T \subseteq Codes, T # {} PROVE Max(T) \in T
<1> DEFINE B == {x..MaxCodes : x \in T}
<1>1. B \subseteq SUBSET Codes /\ B # {}
  <2>1. \A x \in T : x..MaxCodes \subseteq Codes
    BY MaxCodesNat DEF Codes
  <2>2. QED
    BY <2>1
<1> HIDE DEF B
<1>2. PICK I \in B : \A J \in B : J \subseteq I => J = I
  BY <1>1, SmallestCodes
<1> USE DEF B
<1>3. PICK x \in T : I = x..MaxCodes
  BY <1>2
<1>4. ASSUME NEW y \in T PROVE x >= y
  <2>1. y..MaxCodes \in B /\ x \in 1..MaxCodes /\ y \in 1..MaxCodes
    BY DEF Codes
  <2>2. ASSUME x < y PROVE FALSE
    <3>1. y..MaxCodes \subseteq x..MaxCodes /\ x \in x..MaxCodes /\ x \notin y..MaxCodes
      BY <2>1, <2>2, MaxCodesNat
    <3>2. QED
      BY <1>2, <1>3, <2>1, <3>1
  <2>3. QED
    BY <2>1, <2>2, MaxCodesNat
<1>5. QED
  BY <1>4 DEF Max

\* A step on codes that writes codes only
LEMMA CodesWritten ==
  ASSUME TypeInv, CodesKept, UNCHANGED <<accountVars, officeVars, authVars>>, Turn
  PROVE  TypeInv' /\ OwnedStays
<1>1. AccountsKept /\ OwnedStays
  BY SameAccounts DEF TypeInv
<1>2. QED
  BY <1>1, SameOffices, SameSessions, AllKept

LEMMA GenerateCheckTyped ==
  ASSUME TypeInv, NEW h \in Handlers, GenerateCheck(h), UNCHANGED <<officeVars, authVars>>
  PROVE  TypeInv' /\ OwnedStays
<1>1. req[h].at = "otp_check" /\ UNCHANGED <<rowVars, authVars>>
  BY DEF GenerateCheck, At, rowVars
<1>2. CASE Done(h)
  BY <1>1, <1>2, Ended, NothingWritten
<1>3. CASE Goto(h, [req[h] EXCEPT !.at = "otp_expire"])
  <2> DEFINE r == [req[h] EXCEPT !.at = "otp_expire"]
  <2>1. ReqTyped(r, account', code', session')
    BY <1>1, Holds DEF ReqTyped
  <2> HIDE DEF r
  <2>2. Goto(h, r)
    BY <1>3 DEF r
  <2>3. QED
    BY <1>1, <2>1, <2>2, Gone, NothingWritten
<1>4. QED
  BY <1>2, <1>3 DEF GenerateCheck

LEMMA GenerateExpireTyped ==
  ASSUME TypeInv, NEW h \in Handlers, GenerateExpire(h), UNCHANGED <<officeVars, authVars>>
  PROVE  TypeInv' /\ OwnedStays
<1> DEFINE r == [req[h] EXCEPT !.at = "otp_insert"]
<1>1. req[h].at = "otp_expire" /\ Goto(h, r)
  BY DEF GenerateExpire, At
<1>2. ReqTyped(r, account', code', session')
  BY <1>1, Holds DEF ReqTyped
<1>3. \A c \in Codes : code[c] # None => [code[c] EXCEPT !.status = "EXPIRED"] \in Code
  BY DEF TypeInv, CodeTables, OtpTypeOK, Code
<1>4. \A c \in Pending(req[h].who, req[h].purpose) : code[c] # None
  BY DEF Pending
<1>5. CodesKept
  BY <1>3, <1>4, NoneIsNoCode DEF GenerateExpire, CodesKept, TypeInv, CodeTables, OtpTypeOK
<1> HIDE DEF r
<1>6. QED
  BY <1>1, <1>2, <1>5, Gone, CodesWritten DEF GenerateExpire, accountVars

LEMMA GenerateInsertTyped ==
  ASSUME TypeInv, NEW h \in Handlers, GenerateInsert(h), UNCHANGED <<officeVars, authVars>>
  PROVE  TypeInv' /\ OwnedStays
<1> DEFINE row == [account |-> req[h].who, purpose |-> req[h].purpose, status |-> "PENDING",
                   attempts |-> 0, age |-> Fresh]
<1>1. req[h].at = "otp_insert" /\ Done(h)
  BY DEF GenerateInsert, At
<1>2. req[h].who \in Accounts /\ req[h].purpose \in Purposes
  BY <1>1, Holds DEF ReqTyped
<1>3. row \in Code
  BY <1>2, MaxAttemptsPositive DEF Code, Fresh, Lapsed
<1> HIDE DEF row
<1>4. row # None
  BY <1>3, NoneIsNoCode
<1>5. CodesKept
  <2>1. CASE UNCHANGED code
    BY <2>1 DEF GenerateInsert, CodesKept, TypeInv, CodeTables, OtpTypeOK
  <2>2. CASE Unissued # {}
    <3>1. Min(Unissued) \in Codes
      BY <2>2, MinIsMember DEF Unissued
    <3>2. code' = [code EXCEPT ![Min(Unissued)] = row] /\ UNCHANGED <<wrong, accepted, resettable>>
      BY <2>2 DEF GenerateInsert, row
    <3>3. QED
      BY <1>3, <1>4, <3>1, <3>2 DEF CodesKept, TypeInv, CodeTables, OtpTypeOK
  <2>3. QED
    BY <2>1, <2>2 DEF GenerateInsert
<1>6. QED
  BY <1>1, <1>5, Ended, CodesWritten DEF GenerateInsert

LEMMA VerifyReadTyped ==
  ASSUME TypeInv, NEW h \in Handlers, VerifyRead(h), UNCHANGED <<officeVars, authVars>>
  PROVE  TypeInv' /\ OwnedStays
<1>1. req[h].at = "otp_read" /\ UNCHANGED <<rowVars, authVars>>
  BY DEF VerifyRead, At, rowVars
<1>2. CASE Done(h)
  BY <1>1, <1>2, Ended, NothingWritten
<1>3. CASE ~ Done(h)
  <2> DEFINE a == Find(req[h].id)
             c == Newest(a, req[h].purpose)
             r == [at |-> "otp_save", id |-> req[h].id, who |-> a, purpose |-> req[h].purpose,
                   code |-> c, row |-> Judged(c, req[h].right),
                   ok |-> req[h].right /\ code[c].age # Lapsed]
  <2>1. /\ Goto(h, r) /\ a # None /\ Pending(a, req[h].purpose) # {}
        /\ code[c].age # Lapsed => ~ (code[c].attempts >= MaxAttempts)
    BY <1>3 DEF VerifyRead
  <2>2. a \in Accounts /\ Exists(a)
    BY <2>1, FoundExists
  <2>3. req[h].purpose \in Purposes /\ req[h].right \in BOOLEAN
    BY <1>1, Holds DEF ReqTyped
  <2>4. c \in Pending(a, req[h].purpose)
    BY <2>1, MaxIsMember DEF Newest, Pending
  <2>5. c \in Codes /\ code[c] # None /\ code[c] \in Code
    BY <2>4 DEF Pending, TypeInv, CodeTables, OtpTypeOK
  <2>6. Judged(c, req[h].right) \in Code
    <3>1. /\ [code[c] EXCEPT !.status = "EXPIRED"] \in Code
          /\ [code[c] EXCEPT !.status = "VERIFIED"] \in Code
      BY <2>5 DEF Code
    <3>2. CASE code[c].age # Lapsed
      <4>1. code[c].attempts \in 0..MaxAttempts /\ code[c].attempts + 1 \in 0..MaxAttempts
        BY <2>1, <2>5, <3>2, MaxAttemptsPositive DEF Code
      <4>2. [code[c] EXCEPT !.attempts = @ + 1] \in Code
        BY <2>5, <4>1 DEF Code
      <4>3. QED
        BY <3>1, <4>2 DEF Judged
    <3>3. QED
      BY <3>1, <3>2 DEF Judged
  <2>7. ReqTyped(r, account', code', session')
    BY <1>1, <2>2, <2>3, <2>5, <2>6 DEF ReqTyped, Exists, rowVars, accountVars, otpVars
  <2> HIDE DEF r
  <2>8. QED
    BY <1>1, <2>1, <2>7, Gone, NothingWritten
<1>4. QED
  BY <1>2, <1>3

LEMMA VerifySaveTyped ==
  ASSUME TypeInv, NEW h \in Handlers, VerifySave(h), UNCHANGED <<officeVars, authVars>>
  PROVE  TypeInv' /\ OwnedStays
<1>1. req[h].at = "otp_save"
  BY DEF VerifySave, At
<1>2. /\ req[h].code \in Codes /\ code[req[h].code] # None /\ req[h].row \in Code
      /\ req[h].who \in Accounts /\ Exists(req[h].who)
  BY <1>1, Holds DEF ReqTyped, Exists
<1> DEFINE c == req[h].code
           row == [req[h].row EXCEPT !.age = code[c].age]
<1>3. row \in Code
  <2>1. code[c].age \in Fresh..Lapsed
    BY <1>2 DEF TypeInv, CodeTables, OtpTypeOK, Code
  <2>2. QED
    BY <1>2, <2>1 DEF Code
<1>4. code' = [code EXCEPT ![c] = row]
  BY DEF VerifySave
<1> HIDE DEF row
<1>5. /\ wrong' \in [Codes -> Nat] /\ accepted' \in [Codes -> Nat] /\ resettable' \subseteq Accounts
      /\ \A a \in resettable' : a \in resettable \/ Exists(a)
  BY <1>2 DEF VerifySave, TypeInv, CodeTables, OtpTypeOK
<1>6. CodesKept
  BY <1>2, <1>3, <1>4, <1>5, NoneIsNoCode DEF CodesKept, TypeInv, CodeTables, OtpTypeOK
<1>7. /\ proved' \in [Accounts -> Proofs] /\ UNCHANGED <<account, asked>>
      /\ \A b \in Accounts : proved[b] # "no" => proved'[b] # "no"
  <2>1. proved \in [Accounts -> Proofs] /\ "code" \in Proofs
    BY DEF TypeInv, AccountTables, AccountsTypeOK, Proofs
  <2>2. proved' = proved \/ proved' = [proved EXCEPT ![req[h].who] = "code"]
    BY DEF VerifySave
  <2>3. QED
    BY <1>2, <2>1, <2>2 DEF VerifySave
<1>8. AccountsKept /\ OwnedStays
  <2>1. AccountsKept
    BY <1>7 DEF TypeInv, AccountTables, AccountsTypeOK, AccountsKept, AccountGrown
  <2>2. OwnedStays
    BY <1>7 DEF OwnedStays, Owned, Exists, Asked
  <2>3. QED
    BY <2>1, <2>2
<1>9. Turn
  <2>1. CASE Done(h)
    BY <1>1, <2>1, Ended
  <2>2. CASE Goto(h, [at |-> "phone_read", id |-> req[h].id])
    <3>1. ReqTyped([at |-> "phone_read", id |-> req[h].id], account', code', session')
      BY DEF ReqTyped
    <3>2. QED
      BY <1>1, <2>2, <3>1, Gone
  <2>3. QED
    BY <2>1, <2>2 DEF VerifySave
<1>10. QED
  BY <1>6, <1>8, <1>9, SameOffices, SameSessions, AllKept

LEMMA CodeAgesTyped ==
  ASSUME TypeInv, NEW c \in Codes, CodeAges(c), UNCHANGED <<officeVars, authVars>>
  PROVE  TypeInv' /\ OwnedStays
<1>1. code[c] # None /\ code[c] \in Code /\ code[c].age < Lapsed
  BY DEF CodeAges, TypeInv, CodeTables, OtpTypeOK
<1> DEFINE row == [code[c] EXCEPT !.age = @ + 1]
<1>2. row \in Code
  BY <1>1 DEF Code, Fresh, Lapsed
<1>3. code' = [code EXCEPT ![c] = row]
  BY DEF CodeAges
<1> HIDE DEF row
<1>4. CodesKept
  BY <1>2, <1>3, NoneIsNoCode DEF CodeAges, CodesKept, TypeInv, CodeTables, OtpTypeOK
<1>5. QED
  BY <1>4, Stayed, CodesWritten DEF CodeAges

LEMMA ResetTokenExpiresTyped ==
  ASSUME TypeInv, NEW a \in Accounts, ResetTokenExpires(a), UNCHANGED <<officeVars, authVars>>
  PROVE  TypeInv' /\ OwnedStays
<1>1. CodesKept
  BY DEF ResetTokenExpires, CodesKept, TypeInv, CodeTables, OtpTypeOK
<1>2. QED
  BY <1>1, Stayed, CodesWritten DEF ResetTokenExpires

-----------------------------------------------------------------------------
(* Registration, verification and sessions *)

LEMMA RegisterTyped ==
  ASSUME TypeInv, NEW h \in Handlers, NEW a \in Accounts, NEW role \in {"USER", "OFFICE"},
         NEW e \in Emails, NEW p \in Phones, NEW w \in Passwords, NEW n \in Names,
         Register(h, a, role, e, p, w, n)
  PROVE  TypeInv' /\ OwnedStays
<1> DEFINE row == NewAccount(role, e, p, w)
           r == [at |-> "otp_check", who |-> a, purpose |-> "PHONE_VERIFICATION"]
<1>1. row \in Account /\ row.role = role
  BY NewAccountRow DEF Roles
<1>2. Create(a, row) /\ Begin(h, r)
  BY DEF Register
<1> HIDE DEF row
<1>3. AccountsKept /\ OwnedStays /\ account'[a] = row /\ row # None /\ ~ Exists(a)
  BY <1>1, <1>2, CreateKeeps DEF TypeInv
<1>4. Turn
  <2>1. ReqTyped(r, account', code', session')
    BY DEF ReqTyped, Purposes
  <2> HIDE DEF r
  <2>2. QED
    BY <1>2, <2>1, Begun
<1>5. NewOffice(n) \in Office /\ NewOffice(n) # None
  <2>1. NewOffice(n) \in Office
    BY DEF NewOffice, Office
  <2>2. QED
    BY <2>1, NoneIsNoOfficeRow
<1>6. OfficesKept
  <2>1. OfficesTypeOK'
    BY <1>5 DEF Register, SetOffice, TypeInv, OfficesTypeOK
  <2>2. \A o \in Accounts : IsOffice(o)' => IsOffice(o) \/ (o = a /\ role = "OFFICE")
    BY <1>5 DEF Register, SetOffice, IsOffice, TypeInv, OfficesTypeOK
  <2>3. OfficeAccounts'
    BY <1>1, <1>3, <2>2 DEF Register, OfficeAccounts, TypeInv, OfficesTypeOK, HasRole, Exists, IsOffice,
         AccountsKept, AccountGrown, Employee
  <2>4. QED
    BY <2>1, <2>3 DEF OfficesKept
<1>7. UNCHANGED <<otpVars, authVars>>
  BY DEF Register
<1>8. QED
  BY <1>3, <1>4, <1>6, <1>7, SameCodes, SameSessions, AllKept

LEMMA RequestsTyped ==
  ASSUME TypeInv, NEW h \in Handlers,
         \/ \E id \in Identifiers, p \in Purposes : RequestCode(h, id, p)
         \/ \E id \in Identifiers, p \in Purposes, right \in BOOLEAN : EnterCode(h, id, p, right)
         \/ \E a \in Accounts, w \in Passwords : UpdatePasswordRead(h, a, w)
         \/ \E a \in Accounts, e \in Emails : UpdateEmailRead(h, a, e)
         \/ \E a \in Accounts, p \in Phones : ChangePhoneRead(h, a, p)
         \/ \E id \in Identifiers : Login(h, id)
         \/ \E s \in Sessions : RefreshRead(h, s)
  PROVE  TypeInv' /\ OwnedStays
<1>1. UNCHANGED <<rowVars, authVars>>
  BY DEF RequestCode, EnterCode, UpdatePasswordRead, UpdateEmailRead, ChangePhoneRead, Login, RefreshRead
<1>2. account' = account /\ code' = code /\ session' = session
  BY <1>1 DEF rowVars, accountVars, otpVars, authVars
<1>3. \E r : Begin(h, r) /\ ReqTyped(r, account', code', session')
  <2>1. ASSUME NEW id \in Identifiers, NEW p \in Purposes, RequestCode(h, id, p)
        PROVE  \E r : Begin(h, r) /\ ReqTyped(r, account', code', session')
    <3>1. ReqTyped([at |-> "otp_check", who |-> Find(id), purpose |-> p], account', code', session')
      BY <2>1, FoundExists DEF RequestCode, ReqTyped
    <3>2. QED
      BY <2>1, <3>1 DEF RequestCode
  <2>2. ASSUME NEW id \in Identifiers, NEW p \in Purposes, NEW right \in BOOLEAN, EnterCode(h, id, p, right)
        PROVE  \E r : Begin(h, r) /\ ReqTyped(r, account', code', session')
    <3>1. ReqTyped([at |-> "otp_read", id |-> id, purpose |-> p, right |-> right], account', code', session')
      BY DEF ReqTyped
    <3>2. QED
      BY <2>2, <3>1 DEF EnterCode
  <2>3. ASSUME NEW a \in Accounts, NEW w \in Passwords, UpdatePasswordRead(h, a, w)
        PROVE  \E r : Begin(h, r) /\ ReqTyped(r, account', code', session')
    <3>1. ReqTyped([at |-> "password", who |-> a, password |-> w], account', code', session')
      BY <1>2, <2>3 DEF ReqTyped, UpdatePasswordRead, Authenticated, Exists
    <3>2. QED
      BY <2>3, <3>1 DEF UpdatePasswordRead
  <2>4. ASSUME NEW a \in Accounts, NEW e \in Emails, UpdateEmailRead(h, a, e)
        PROVE  \E r : Begin(h, r) /\ ReqTyped(r, account', code', session')
    <3>1. ReqTyped([at |-> "email", who |-> a, email |-> e], account', code', session')
      BY <1>2, <2>4 DEF ReqTyped, UpdateEmailRead, Authenticated, Exists
    <3>2. QED
      BY <2>4, <3>1 DEF UpdateEmailRead
  <2>5. ASSUME NEW a \in Accounts, NEW p \in Phones, ChangePhoneRead(h, a, p)
        PROVE  \E r : Begin(h, r) /\ ReqTyped(r, account', code', session')
    <3>1. ReqTyped([at |-> "phone", who |-> a, phone |-> p], account', code', session')
      BY <1>2, <2>5 DEF ReqTyped, ChangePhoneRead, Authenticated, Exists
    <3>2. QED
      BY <2>5, <3>1 DEF ChangePhoneRead
  <2>6. ASSUME NEW id \in Identifiers, Login(h, id)
        PROVE  \E r : Begin(h, r) /\ ReqTyped(r, account', code', session')
    <3>1. Find(id) \in Accounts /\ account'[Find(id)] # None
      BY <1>2, <2>6, FoundExists DEF Login, Exists
    <3>2. /\ ReqTyped([at |-> "session", who |-> Find(id)], account', code', session')
          /\ ReqTyped([at |-> "otp_check", who |-> Find(id), purpose |-> "PHONE_VERIFICATION"],
                      account', code', session')
      BY <3>1 DEF ReqTyped, Purposes
    <3>3. QED
      BY <2>6, <3>2 DEF Login
  <2>7. ASSUME NEW s \in Sessions, RefreshRead(h, s)
        PROVE  \E r : Begin(h, r) /\ ReqTyped(r, account', code', session')
    <3>1. ReqTyped([at |-> "rotate", session |-> s, row |-> session[s]], account', code', session')
      BY <1>2, <2>7 DEF ReqTyped, RefreshRead, Live, TypeInv, SessionTables
    <3>2. QED
      BY <2>7, <3>1 DEF RefreshRead
  <2>8. QED
    BY <2>1, <2>2, <2>3, <2>4, <2>5, <2>6, <2>7
<1>4. QED
  BY <1>1, <1>3, Begun, NothingWritten

\* A step on sessions that writes sessions only
LEMMA SessionsWritten ==
  ASSUME TypeInv, SessionsKept, UNCHANGED rowVars, Turn
  PROVE  TypeInv' /\ OwnedStays
<1>1. UNCHANGED <<accountVars, officeVars, otpVars>>
  BY DEF rowVars
<1>2. AccountsKept /\ OwnedStays
  BY <1>1, SameAccounts DEF TypeInv
<1>3. QED
  BY <1>1, <1>2, SameOffices, SameCodes, AllKept

LEMMA DeleteAccountTyped ==
  ASSUME TypeInv, NEW h \in Handlers, NEW a \in Accounts, DeleteAccount(h, a)
  PROVE  TypeInv' /\ OwnedStays
<1>1. \A s \in SessionsOf(a) : session[s] # None /\ [session[s] EXCEPT !.isRevoked = TRUE] \in Session
  BY DEF SessionsOf, TypeInv, SessionTables, Session
<1>2. SessionsKept
  BY <1>1, NoneIsNoSession DEF DeleteAccount, RevokeAll, SessionsKept, TypeInv, SessionTables, SessionsOf
<1>3. Turn
  <2>1. account' = account /\ account[a] # None /\ Begin(h, [at |-> "delete", who |-> a])
    BY DEF DeleteAccount, rowVars, accountVars, Authenticated, Exists
  <2>2. ReqTyped([at |-> "delete", who |-> a], account', code', session')
    BY <2>1 DEF ReqTyped
  <2>3. QED
    BY <2>1, <2>2, Begun
<1>4. QED
  BY <1>2, <1>3, SessionsWritten DEF DeleteAccount

LEMMA LogoutTyped ==
  ASSUME TypeInv, NEW s \in Sessions, Logout(s)
  PROVE  TypeInv' /\ OwnedStays
<1>1. session[s] # None /\ [session[s] EXCEPT !.isRevoked = TRUE] \in Session
  BY DEF Logout, TypeInv, SessionTables, Session
<1>2. SessionsKept
  BY <1>1, NoneIsNoSession DEF Logout, SessionsKept, TypeInv, SessionTables
<1>3. QED
  BY <1>2, Stayed, SessionsWritten DEF Logout, AtOnce

LEMMA CreateSessionTyped ==
  ASSUME TypeInv, NEW h \in Handlers, CreateSession(h)
  PROVE  TypeInv' /\ OwnedStays
<1>1. req[h].at = "session" /\ Done(h)
  BY DEF CreateSession, At
<1>2. [account |-> req[h].who, isRevoked |-> FALSE] \in Session
  BY <1>1, Holds DEF ReqTyped, Session
<1>3. SessionsKept
  BY <1>2, NoneIsNoSession DEF CreateSession, SessionsKept, TypeInv, SessionTables
<1>4. QED
  BY <1>1, <1>3, Ended, SessionsWritten DEF CreateSession

LEMMA RotateTyped ==
  ASSUME TypeInv, NEW h \in Handlers, RotateRefreshToken(h)
  PROVE  TypeInv' /\ OwnedStays
<1>1. req[h].at = "rotate" /\ Done(h)
  BY DEF RotateRefreshToken, At
<1>2. req[h].session \in Sessions /\ req[h].row \in Session
  BY <1>1, Holds DEF ReqTyped
<1>3. SessionsKept
  BY <1>2, NoneIsNoSession DEF RotateRefreshToken, SessionsKept, TypeInv, SessionTables
<1>4. QED
  BY <1>1, <1>3, Ended, SessionsWritten DEF RotateRefreshToken

LEMMA PasswordTyped ==
  ASSUME TypeInv, \/ \E h \in Handlers : UpdatePassword(h)
                  \/ \E a \in Accounts, w \in Passwords : ResetPassword(a, w)
  PROVE  TypeInv' /\ OwnedStays
<1>1. ASSUME NEW h \in Handlers, UpdatePassword(h) PROVE TypeInv' /\ OwnedStays
  <2>1. req[h].at = "password" /\ Done(h)
    BY <1>1 DEF UpdatePassword, At
  <2>2. req[h].who \in Accounts /\ Exists(req[h].who) /\ req[h].password \in Passwords
    BY <2>1, Holds DEF ReqTyped, Exists
  <2>3. QED
    BY <1>1, <2>1, <2>2, SetPasswordKeeps, Ended, AccountsWritten DEF UpdatePassword, TypeInv
<1>2. ASSUME NEW a \in Accounts, NEW w \in Passwords, ResetPassword(a, w)
      PROVE  TypeInv' /\ OwnedStays
  <2>1. Exists(a)
    BY <1>2 DEF ResetPassword, TypeInv, ResetTokens
  <2>2. QED
    BY <1>2, <2>1, SetPasswordKeeps, Stayed, AccountsWritten DEF ResetPassword, AtOnce, TypeInv
<1>3. QED
  BY <1>1, <1>2

LEMMA UpdateEmailTyped ==
  ASSUME TypeInv, NEW h \in Handlers, UpdateEmail(h)
  PROVE  TypeInv' /\ OwnedStays
<1>1. req[h].at = "email" /\ Done(h)
  BY DEF UpdateEmail, At
<1>2. req[h].who \in Accounts /\ Exists(req[h].who) /\ req[h].email \in Emails
  BY <1>1, Holds DEF ReqTyped, Exists
<1>3. QED
  BY <1>1, <1>2, SetEmailKeeps, Ended, AccountsWritten DEF UpdateEmail, TypeInv

LEMMA ChangePhoneTyped ==
  ASSUME TypeInv, NEW h \in Handlers, ChangePhone(h)
  PROVE  TypeInv' /\ OwnedStays
<1>1. req[h].at = "phone" /\ UNCHANGED <<officeVars, otpVars, authVars>>
  BY DEF ChangePhone, At
<1>2. req[h].who \in Accounts /\ Exists(req[h].who) /\ req[h].phone \in Phones
  BY <1>1, Holds DEF ReqTyped, Exists
<1>3. CASE Done(h) /\ UNCHANGED accountVars
  BY <1>1, <1>3, Ended, SameAccounts, AccountsWritten DEF TypeInv
<1>4. CASE ~ PhoneTaken(req[h].phone)
  <2> DEFINE r == [at |-> "otp_check", who |-> req[h].who, purpose |-> "PHONE_VERIFICATION"]
  <2>1. Goto(h, r) /\ SetPhone(req[h].who, req[h].phone)
    BY <1>4 DEF ChangePhone
  <2>2. ReqTyped(r, account', code', session')
    BY <1>2 DEF ReqTyped, Purposes
  <2> HIDE DEF r
  <2>3. QED
    BY <1>1, <1>2, <2>1, <2>2, SetPhoneKeeps, Gone, AccountsWritten DEF TypeInv
<1>5. QED
  BY <1>3, <1>4 DEF ChangePhone

LEMMA MarkVerifiedReadTyped ==
  ASSUME TypeInv, NEW h \in Handlers, MarkVerifiedRead(h)
  PROVE  TypeInv' /\ OwnedStays
<1>1. req[h].at = "phone_read" /\ UNCHANGED <<rowVars, authVars>>
  BY DEF MarkVerifiedRead, At
<1>2. CASE Done(h)
  BY <1>1, <1>2, Ended, NothingWritten
<1>3. CASE ~ Done(h)
  <2> DEFINE a == Find(req[h].id)
             r == [at |-> "phone_save", who |-> a, row |-> [account[a] EXCEPT !.verified = TRUE]]
  <2>1. Goto(h, r) /\ a # None
    BY <1>3 DEF MarkVerifiedRead
  <2>2. a \in Accounts /\ Exists(a) /\ account[a] \in Account
    BY <2>1, FoundExists, RowOf DEF TypeInv
  <2>3. [account[a] EXCEPT !.verified = TRUE] \in Account
        /\ [account[a] EXCEPT !.verified = TRUE].role = account[a].role
    BY <2>2 DEF Account
  <2>4. ReqTyped(r, account', code', session')
    BY <1>1, <2>2, <2>3 DEF ReqTyped, Exists, rowVars, accountVars
  <2> HIDE DEF r
  <2>5. QED
    BY <1>1, <2>1, <2>4, Gone, NothingWritten
<1>4. QED
  BY <1>2, <1>3

\* The one step that saves a whole row it read earlier
LEMMA MarkVerifiedTyped ==
  ASSUME TypeInv, NEW h \in Handlers, MarkVerified(h)
  PROVE  TypeInv'
<1>1. /\ req[h].at = "phone_save" /\ Goto(h, [at |-> "member", who |-> req[h].who])
      /\ UNCHANGED <<officeVars, otpVars, authVars>>
  BY DEF MarkVerified, At
<1>2. /\ req[h].who \in Accounts /\ Exists(req[h].who)
      /\ req[h].row \in Account /\ req[h].row.role = account[req[h].who].role
  BY <1>1, Holds DEF ReqTyped, Exists
<1>3. Written(req[h].who, req[h].row)
  BY DEF MarkVerified, Written, TypeInv, AccountTables, AccountsTypeOK
<1>4. AccountsKept /\ account'[req[h].who] # None
  BY <1>2, <1>3, WriteKeepsTables DEF TypeInv
<1>5. ReqTyped([at |-> "member", who |-> req[h].who], account', code', session')
  BY <1>2, <1>4 DEF ReqTyped
<1>6. QED
  BY <1>1, <1>4, <1>5, Gone, AccountsWritten

LEMMA MembershipReadTyped ==
  ASSUME TypeInv, NEW h \in Handlers, MembershipRead(h)
  PROVE  TypeInv' /\ OwnedStays
<1>1. req[h].at = "member" /\ UNCHANGED <<rowVars, authVars>>
  BY DEF MembershipRead, At
<1>2. req[h].who \in Accounts /\ account'[req[h].who] # None
  BY <1>1, Holds DEF ReqTyped, rowVars, accountVars
<1>3. /\ ReqTyped([at |-> "session", who |-> req[h].who], account', code', session')
      /\ ReqTyped([at |-> "verified", who |-> req[h].who, status |-> StatusVerified(req[h].who)],
                  account', code', session')
  BY <1>2 DEF ReqTyped, StatusVerified, AccountStatus
<1>4. Turn
  BY <1>1, <1>3, Gone DEF MembershipRead
<1>5. QED
  BY <1>1, <1>4, NothingWritten

LEMMA StatusAfterVerificationTyped ==
  ASSUME TypeInv, NEW h \in Handlers, StatusAfterVerification(h)
  PROVE  TypeInv' /\ OwnedStays
<1>1. req[h].at = "verified" /\ Goto(h, [at |-> "session", who |-> req[h].who])
  BY DEF StatusAfterVerification, At
<1>2. req[h].who \in Accounts /\ Exists(req[h].who) /\ req[h].status \in AccountStatus
  BY <1>1, Holds DEF ReqTyped, Exists
<1>3. AccountsKept /\ OwnedStays
  BY <1>2, SetStatusKeeps DEF StatusAfterVerification, TypeInv
<1>4. ReqTyped([at |-> "session", who |-> req[h].who], account', code', session')
  BY <1>2, <1>3 DEF ReqTyped, AccountsKept, AccountGrown, Exists
<1>5. QED
  BY <1>1, <1>3, <1>4, Gone, AccountsWritten DEF StatusAfterVerification

LEMMA DeleteAccountRowTyped ==
  ASSUME TypeInv, NEW h \in Handlers, DeleteAccountRow(h)
  PROVE  TypeInv' /\ OwnedStays
<1>1. req[h].at = "delete" /\ Done(h)
  BY DEF DeleteAccountRow, At
<1>2. req[h].who \in Accounts /\ Exists(req[h].who)
  BY <1>1, Holds DEF ReqTyped, Exists
<1>3. QED
  BY <1>1, <1>2, SoftDeleteKeeps, Ended, AccountsWritten DEF DeleteAccountRow, TypeInv

-----------------------------------------------------------------------------
(* Offices, their employees and their change requests *)

\* A step that writes accounts and offices
LEMMA OfficesWritten ==
  ASSUME TypeInv, AccountsKept, OfficesKept, UNCHANGED <<otpVars, authVars>>, Turn
  PROVE  TypeInv'
  BY SameCodes, SameSessions, AllKept

\* One profile is written, for an account of an office.
LEMMA OfficeRowKept ==
  ASSUME TypeInv, AccountsKept, NEW o \in Accounts, HasRole(o, "OFFICE")', NEW row \in Office \union {None},
         SetOffice(o, row), UNCHANGED <<employee, details>>
  PROVE  OfficesKept
<1>1. OfficesTypeOK'
  BY DEF TypeInv, OfficesTypeOK, SetOffice
<1>2. \A b \in Accounts : HasRole(b, "OFFICE") => HasRole(b, "OFFICE")'
  BY DEF HasRole, Exists, AccountsKept, AccountGrown
<1>3. \A b \in Accounts : IsOffice(b)' => IsOffice(b) \/ b = o
  BY DEF SetOffice, TypeInv, OfficesTypeOK, IsOffice
<1>4. OfficeAccounts'
  <2>1. \A b \in Accounts : IsOffice(b)' => HasRole(b, "OFFICE")'
    BY <1>2, <1>3 DEF TypeInv, OfficeAccounts
  <2>2. ASSUME NEW e \in Employees, employee'[e] # None, employee'[e].account # None
        PROVE  HasRole(employee[e].account, "OFFICE")'
    <3>1. employee' = employee /\ employee[e].account \in Accounts
      BY <2>2 DEF TypeInv, OfficesTypeOK, Employee
    <3>2. QED
      BY <1>2, <2>2, <3>1 DEF TypeInv, OfficeAccounts, HasRole, Exists
  <2>3. QED
    BY <2>1, <2>2 DEF OfficeAccounts, HasRole, Exists, IsOffice
<1>5. QED
  BY <1>1, <1>4 DEF OfficesKept

\* One row of employees is written, for an account of an office if any.
LEMMA EmployeeRowKept ==
  ASSUME TypeInv, AccountsKept, NEW x \in Employees, NEW row \in Employee,
         row.account # None => HasRole(row.account, "OFFICE")',
         SetEmployee(x, row), UNCHANGED <<office, details>>
  PROVE  OfficesKept
<1>1. OfficesTypeOK'
  BY DEF TypeInv, OfficesTypeOK, SetEmployee
<1>2. \A b \in Accounts : HasRole(b, "OFFICE") => HasRole(b, "OFFICE")'
  BY DEF HasRole, Exists, AccountsKept, AccountGrown
<1>3. OfficeAccounts'
  <2>1. \A b \in Accounts : IsOffice(b)' => HasRole(b, "OFFICE")'
    BY <1>2 DEF TypeInv, OfficeAccounts, IsOffice
  <2>2. ASSUME NEW e \in Employees, employee'[e] # None, employee'[e].account # None
        PROVE  HasRole(employee[e].account, "OFFICE")'
    <3>1. CASE e = x
      <4>1. employee'[e] = row
        BY <3>1 DEF SetEmployee, TypeInv, OfficesTypeOK
      <4>2. QED
        BY <2>2, <4>1 DEF HasRole, Exists
    <3>2. CASE e # x
      <4>1. employee'[e] = employee[e] /\ employee[e].account \in Accounts
        BY <2>2, <3>2 DEF TypeInv, OfficesTypeOK, Employee, SetEmployee
      <4>2. QED
        BY <1>2, <2>2, <4>1 DEF TypeInv, OfficeAccounts, HasRole, Exists
    <3>3. QED
      BY <3>1, <3>2
  <2>3. QED
    BY <2>1, <2>2 DEF OfficeAccounts, HasRole, Exists, IsOffice
<1>4. QED
  BY <1>1, <1>3 DEF OfficesKept

LEMMA OfficeExists ==
  ASSUME TypeInv, NEW o \in Accounts, IsOffice(o)
  PROVE  Exists(o) /\ HasRole(o, "OFFICE") /\ office[o] \in Office
  BY DEF TypeInv, OfficeAccounts, HasRole, OfficesTypeOK, IsOffice

LEMMA StaysOffice ==
  ASSUME AccountsKept, NEW a \in Accounts, HasRole(a, "OFFICE") PROVE HasRole(a, "OFFICE")'
  BY DEF AccountsKept, AccountGrown, HasRole, Exists

LEMMA FillProfileTyped ==
  ASSUME TypeInv, NEW o \in Accounts, NEW f \in {"commerceNumber", "logo"}, FillProfile(o, f),
         UNCHANGED <<otpVars, authVars>>
  PROVE  TypeInv' /\ OwnedStays
<1>1. IsOffice(o) /\ SetOffice(o, [office[o] EXCEPT ![f] = TRUE]) /\ UNCHANGED <<accountVars, employee, details>>
      /\ UNCHANGED reqVars
  BY DEF FillProfile, AtOnce
<1>2. [office[o] EXCEPT ![f] = TRUE] \in Office
  <2>1. office[o] \in Office
    BY <1>1, OfficeExists
  <2>2. CASE f = "commerceNumber"
    BY <2>1, <2>2 DEF Office
  <2>3. CASE f = "logo"
    BY <2>1, <2>3 DEF Office
  <2>4. QED
    BY <2>2, <2>3
<1>3. AccountsKept /\ OwnedStays
  BY <1>1, SameAccounts DEF TypeInv
<1>4. OfficesKept
  BY <1>1, <1>2, <1>3, OfficeExists, StaysOffice, OfficeRowKept
<1>5. QED
  BY <1>1, <1>3, <1>4, Stayed, OfficesWritten

LEMMA AddEmployeeTyped ==
  ASSUME TypeInv, NEW o \in Accounts, NEW e \in Employees, AddOfficeEmployee(o, e),
         UNCHANGED <<otpVars, authVars>>
  PROVE  TypeInv' /\ OwnedStays
<1> DEFINE row == [office |-> o, account |-> None, isActive |-> TRUE]
<1>1. SetEmployee(e, row) /\ UNCHANGED <<accountVars, office, details>> /\ UNCHANGED reqVars
  BY DEF AddOfficeEmployee, AtOnce
<1>2. row \in Employee /\ row.account = None
  BY DEF Employee
<1> HIDE DEF row
<1>3. AccountsKept /\ OwnedStays
  BY <1>1, SameAccounts DEF TypeInv
<1>4. OfficesKept
  BY <1>1, <1>2, <1>3, EmployeeRowKept
<1>5. QED
  BY <1>1, <1>3, <1>4, Stayed, OfficesWritten

LEMMA AddAccountTyped ==
  ASSUME TypeInv, NEW o \in Accounts, NEW a \in Accounts, NEW e \in Employees, NEW em \in Emails,
         NEW p \in Phones, NEW w \in Passwords, AddOfficeEmployeeWithAccount(o, e, a, em, p, w),
         UNCHANGED <<otpVars, authVars>>
  PROVE  TypeInv' /\ OwnedStays
<1> DEFINE acc == [NewAccount("OFFICE", em, p, w) EXCEPT !.status = "ACTIVE", !.verified = TRUE]
           row == [office |-> o, account |-> a, isActive |-> TRUE]
<1>1. /\ Create(a, acc) /\ SetEmployee(e, row) /\ UNCHANGED <<office, details>> /\ UNCHANGED reqVars
  BY DEF AddOfficeEmployeeWithAccount, AtOnce
<1>2. acc \in Account /\ acc.role = "OFFICE"
  BY DEF NewAccount, Account, AccountStatus, Roles
<1>3. row \in Employee /\ row.account = a
  BY DEF Employee
<1> HIDE DEF acc, row
<1>4. AccountsKept /\ OwnedStays /\ account'[a] = acc /\ acc # None
  BY <1>1, <1>2, CreateKeeps DEF TypeInv
<1>5. HasRole(a, "OFFICE")'
  BY <1>2, <1>4 DEF HasRole, Exists
<1>6. OfficesKept
  BY <1>1, <1>3, <1>4, <1>5, EmployeeRowKept
<1>7. QED
  BY <1>1, <1>4, <1>6, Stayed, OfficesWritten

\* A step of an office that leaves profiles, employees and the cache alone
LEMMA SameProfiles ==
  ASSUME TypeInv, AccountsKept, UNCHANGED <<office, employee, details>>
  PROVE  OfficesKept
<1>1. OfficesTypeOK'
  BY DEF TypeInv, OfficesTypeOK
<1>2. OfficeAccounts'
  BY DEF TypeInv, OfficeAccounts, OfficesTypeOK, IsOffice, HasRole, Exists, AccountsKept,
         AccountGrown, Employee
<1>3. QED
  BY <1>1, <1>2 DEF OfficesKept

LEMMA RemoveEmployeeTyped ==
  ASSUME TypeInv, NEW h \in Handlers, NEW e \in Employees, RemoveEmployee(h, e),
         UNCHANGED <<otpVars, authVars>>
  PROVE  TypeInv' /\ OwnedStays
<1>1. /\ employee[e] # None /\ employee[e].account # None /\ SoftDelete(employee[e].account)
      /\ Begin(h, [at |-> "clear_employee", row |-> e])
      /\ UNCHANGED <<office, employee, details>>
  BY DEF RemoveEmployee, FreeRow
<1>2. employee[e].account \in Accounts /\ Exists(employee[e].account)
  BY <1>1 DEF TypeInv, OfficesTypeOK, Employee, OfficeAccounts, HasRole
<1>3. AccountsKept /\ OwnedStays
  BY <1>1, <1>2, SoftDeleteKeeps DEF TypeInv
<1>4. ReqTyped([at |-> "clear_employee", row |-> e], account', code', session')
  BY DEF ReqTyped
<1>5. QED
  BY <1>1, <1>3, <1>4, Begun, SameProfiles, OfficesWritten

LEMMA ClearEmployeeTyped ==
  ASSUME TypeInv, NEW h \in Handlers, ClearEmployee(h), UNCHANGED <<otpVars, authVars>>
  PROVE  TypeInv' /\ OwnedStays
<1> DEFINE e == req[h].row
           row == [employee[e] EXCEPT !.isActive = FALSE, !.account = None]
<1>1. req[h].at = "clear_employee" /\ Done(h) /\ UNCHANGED <<accountVars, office, details>>
  BY DEF ClearEmployee, At
<1>2. e \in Employees
  BY <1>1, Holds DEF ReqTyped
<1>3. AccountsKept /\ OwnedStays
  BY <1>1, SameAccounts DEF TypeInv
<1>4. OfficesKept
  <2>1. CASE UNCHANGED employee
    BY <1>1, <1>3, <2>1, SameProfiles
  <2>2. CASE ~ FreeRow(e)
    <3>1. row \in Employee /\ row.account = None
      BY <1>2, <2>2 DEF FreeRow, Employee, TypeInv, OfficesTypeOK
    <3>2. SetEmployee(e, row)
      BY <2>2 DEF ClearEmployee
    <3> HIDE DEF row
    <3>3. QED
      BY <1>1, <1>2, <1>3, <3>1, <3>2, EmployeeRowKept
  <2>3. QED
    BY <2>1, <2>2 DEF ClearEmployee
<1>5. QED
  BY <1>1, <1>3, <1>4, Ended, OfficesWritten

LEMMA DecisionsTyped ==
  ASSUME TypeInv, NEW o \in Accounts, UNCHANGED <<otpVars, authVars>>,
         (\E h \in Handlers : ApproveRegistration(h, o)) \/ RejectRegistration(o)
  PROVE  TypeInv' /\ OwnedStays
<1>1. ASSUME NEW h \in Handlers, ApproveRegistration(h, o) PROVE TypeInv' /\ OwnedStays
  <2>1. /\ IsOffice(o) /\ SetStatus(o, "ACTIVE") /\ UNCHANGED <<office, employee, details>>
        /\ Begin(h, [at |-> "trial", who |-> o])
    BY <1>1 DEF ApproveRegistration
  <2>2. AccountsKept /\ OwnedStays
    BY <2>1, OfficeExists, SetStatusKeeps DEF TypeInv, AccountStatus
  <2>3. ReqTyped([at |-> "trial", who |-> o], account', code', session')
    BY DEF ReqTyped
  <2>4. QED
    BY <2>1, <2>2, <2>3, Begun, SameProfiles, OfficesWritten
<1>2. CASE RejectRegistration(o)
  <2>1. /\ IsOffice(o) /\ SetStatus(o, "REJECTED") /\ UNCHANGED <<office, employee, details>>
        /\ UNCHANGED reqVars
    BY <1>2 DEF RejectRegistration, AtOnce
  <2>2. AccountsKept /\ OwnedStays
    BY <2>1, OfficeExists, SetStatusKeeps DEF TypeInv, AccountStatus
  <2>3. QED
    BY <2>1, <2>2, Stayed, SameProfiles, OfficesWritten
<1>3. QED
  BY <1>1, <1>2

LEMMA ToggleOfficeTyped ==
  ASSUME TypeInv, NEW h \in Handlers, UNCHANGED <<otpVars, authVars>>,
         (\E o \in Accounts : ToggleOfficeRead(h, o)) \/ ToggleOfficeSave(h)
  PROVE  TypeInv' /\ OwnedStays
<1>1. CASE ToggleOfficeSave(h)
  BY <1>1, ToggleSaveKeeps, SameProfiles, OfficesWritten DEF ToggleOfficeSave
<1>2. QED
  BY <1>1, ToggleReadTurns DEF ToggleOfficeRead

LEMMA UpdateOfficeTyped ==
  ASSUME TypeInv, NEW o \in Accounts, NEW n \in Names, NEW s \in AccountStatus,
         UpdateOfficeByAdmin(o, n, s), UNCHANGED <<otpVars, authVars>>
  PROVE  TypeInv' /\ OwnedStays
<1> DEFINE row == [office[o] EXCEPT !.name = n]
<1>1. /\ IsOffice(o) /\ SetOffice(o, row) /\ SetStatus(o, s) /\ UNCHANGED <<employee, details>>
      /\ UNCHANGED reqVars
  BY DEF UpdateOfficeByAdmin, AtOnce
<1>2. row \in Office
  BY <1>1, OfficeExists DEF Office
<1> HIDE DEF row
<1>3. AccountsKept /\ OwnedStays
  BY <1>1, OfficeExists, SetStatusKeeps DEF TypeInv
<1>4. OfficesKept
  BY <1>1, <1>2, <1>3, OfficeExists, StaysOffice, OfficeRowKept
<1>5. QED
  BY <1>1, <1>3, <1>4, Stayed, OfficesWritten

LEMMA DeleteOfficeTyped ==
  ASSUME TypeInv, NEW o \in Accounts, DeleteOffice(o), UNCHANGED <<otpVars, authVars>>
  PROVE  TypeInv' /\ OwnedStays
<1>1. IsOffice(o) /\ SetOffice(o, None) /\ SoftDelete(o) /\ UNCHANGED <<reqVars, details>>
  BY DEF DeleteOffice, AtOnce
<1>2. AccountsKept /\ OwnedStays
  BY <1>1, OfficeExists, SoftDeleteKeeps DEF TypeInv
<1>3. \A e \in Employees : employee'[e] = employee[e] \/ employee'[e] = None
  BY DEF DeleteOffice
<1>4. OfficesTypeOK'
  BY <1>1 DEF DeleteOffice, SetOffice, TypeInv, OfficesTypeOK
<1>5. OfficeAccounts'
  <2>1. \A b \in Accounts : HasRole(b, "OFFICE") => HasRole(b, "OFFICE")'
    BY <1>2, StaysOffice
  <2>2. \A b \in Accounts : IsOffice(b)' => IsOffice(b)
    BY <1>1 DEF SetOffice, TypeInv, OfficesTypeOK, IsOffice
  <2>3. ASSUME NEW e \in Employees, employee'[e] # None, employee'[e].account # None
        PROVE  HasRole(employee[e].account, "OFFICE")'
    <3>1. employee'[e] = employee[e] /\ employee[e].account \in Accounts
      BY <1>3, <2>3 DEF TypeInv, OfficesTypeOK, Employee
    <3>2. QED
      BY <2>1, <2>3, <3>1 DEF TypeInv, OfficeAccounts, HasRole, Exists
  <2>4. \A b \in Accounts : IsOffice(b)' => HasRole(b, "OFFICE")'
    BY <2>1, <2>2 DEF TypeInv, OfficeAccounts
  <2>5. QED
    BY <2>3, <2>4 DEF OfficeAccounts, HasRole, Exists, IsOffice
<1>6. QED
  BY <1>1, <1>2, <1>4, <1>5, Stayed, OfficesWritten DEF OfficesKept

LEMMA AddChangeTyped ==
  ASSUME TypeInv, NEW o \in Accounts, NEW d \in ChangeData, AddChangeRequest(o, d),
         UNCHANGED <<otpVars, authVars>>
  PROVE  TypeInv' /\ OwnedStays
<1> DEFINE row == [office[o] EXCEPT !.change = "PENDING", !.data = d]
<1>1. /\ IsOffice(o) /\ SetOffice(o, row) /\ UNCHANGED <<accountVars, employee, details>>
      /\ UNCHANGED reqVars
  BY DEF AddChangeRequest, AtOnce
<1>2. row \in Office
  BY <1>1, OfficeExists DEF Office, ChangeData
<1> HIDE DEF row
<1>3. AccountsKept /\ OwnedStays
  BY <1>1, SameAccounts DEF TypeInv
<1>4. OfficesKept
  BY <1>1, <1>2, <1>3, OfficeExists, StaysOffice, OfficeRowKept
<1>5. QED
  BY <1>1, <1>3, <1>4, Stayed, OfficesWritten

\* The readers of a change request and of the details
LEMMA OfficeReadsTyped ==
  ASSUME TypeInv, NEW h \in Handlers, NEW o \in Accounts, UNCHANGED <<otpVars, authVars>>,
         ApproveChangeRead(h, o) \/ RejectChangeRead(h, o) \/ ReadDetails(h, o)
  PROVE  TypeInv' /\ OwnedStays
<1>1. UNCHANGED <<rowVars, authVars>>
  BY DEF ApproveChangeRead, RejectChangeRead, ReadDetails, rowVars
<1>2. CASE ApproveChangeRead(h, o)
  <2> DEFINE r == [at |-> "apply_change", who |-> o, data |-> office[o].data]
  <2>1. office[o].data \in ChangeData
    BY <1>2, OfficeExists DEF ApproveChangeRead, PendingRequests, Office, ChangeData
  <2>2. ReqTyped(r, account', code', session')
    BY <2>1 DEF ReqTyped
  <2>3. Begin(h, r)
    BY <1>2 DEF ApproveChangeRead
  <2> HIDE DEF r
  <2>4. QED
    BY <1>1, <2>2, <2>3, Begun, NothingWritten
<1>3. CASE RejectChangeRead(h, o)
  <2>1. ReqTyped([at |-> "reject_change", who |-> o], account', code', session')
    BY DEF ReqTyped
  <2>2. QED
    BY <1>1, <1>3, <2>1, Begun, NothingWritten DEF RejectChangeRead
<1>4. CASE ReadDetails(h, o)
  <2> DEFINE t == IF IsOffice(o) THEN o ELSE OfficeOf(o)
             r == [at |-> "fill_details", who |-> t, name |-> office[t].name]
  <2>1. IsOffice(t) /\ Begin(h, r)
    BY <1>4 DEF ReadDetails
  <2>2. t \in Accounts
    <3>1. CASE ~ IsOffice(o) /\ IsEmployee(o)
      <4>1. (CHOOSE e \in MembershipsOf(o) : TRUE) \in MembershipsOf(o)
        BY <3>1 DEF IsEmployee
      <4>2. QED
        BY <3>1, <4>1 DEF OfficeOf, MembershipsOf, TypeInv, OfficesTypeOK, Employee
    <3>2. QED
      BY <3>1 DEF OfficeOf
  <2>3. office[t].name \in Names
    BY <2>1, <2>2, OfficeExists DEF Office
  <2>4. ReqTyped(r, account', code', session')
    BY <2>2, <2>3 DEF ReqTyped
  <2> HIDE DEF r
  <2>5. QED
    BY <1>1, <2>1, <2>4, Begun, NothingWritten
<1>5. QED
  BY <1>2, <1>3, <1>4

LEMMA ApplyChangeTyped ==
  ASSUME TypeInv, NEW h \in Handlers, ApplyChange(h), UNCHANGED <<otpVars, authVars>>
  PROVE  TypeInv' /\ OwnedStays
<1> DEFINE o == req[h].who
           d == req[h].data
<1>1. req[h].at = "apply_change"
  BY DEF ApplyChange, At
<1>2. o \in Accounts /\ d \in ChangeData
  BY <1>1, Holds DEF ReqTyped
<1>3. CASE Done(h) /\ UNCHANGED <<accountVars, officeVars>>
  BY <1>1, <1>3, Ended, SameAccounts, SameOffices, OfficesWritten DEF TypeInv
<1>4. CASE ~ (Done(h) /\ UNCHANGED <<accountVars, officeVars>>)
  <2> DEFINE acc == [account[o] EXCEPT !.email = Chosen(d.email, @), !.phone = Chosen(d.phone, @)]
             row == [office[o] EXCEPT !.name = d.name, !.change = "APPROVED", !.data = None]
  <2>1. /\ IsOffice(o) /\ SetOffice(o, row)
        /\ Goto(h, [at |-> "drop_details", who |-> o])
        /\ UNCHANGED <<employee, details>> /\ KeepMark(o, Chosen(d.phone, account[o].phone))
        /\ asked' = [asked EXCEPT ![o].email = Chosen(d.email, @), ![o].phone = Chosen(d.phone, @)]
        /\ account' = [account EXCEPT ![o].email = Chosen(d.email, @), ![o].phone = Chosen(d.phone, @)]
    BY <1>4 DEF ApplyChange
  <2>2. Exists(o) /\ HasRole(o, "OFFICE") /\ office[o] \in Office /\ account[o] \in Account
    BY <1>2, <2>1, OfficeExists, RowOf DEF TypeInv
  <2>3. acc \in Account /\ acc.role = account[o].role /\ acc.verified = account[o].verified
    BY <1>2, <2>2 DEF Account, ChangeData, Chosen
  <2>4. row \in Office
    BY <1>2, <2>2 DEF Office, ChangeData
  <2>5. Written(o, acc)
    BY <1>2, <2>1, MarkKept DEF Written, TypeInv, AccountTables, AccountsTypeOK
  <2>6. Owned => Agrees(o, acc)
    <3>1. Asked(acc) = [email |-> Chosen(d.email, account[o].email),
                        phone |-> Chosen(d.phone, account[o].phone), password |-> account[o].password]
      BY <2>2 DEF Asked, Account
    <3>2. ASSUME Owned PROVE asked'[o] = Asked(acc)
      <4>1. asked[o] = Asked(account[o])
        BY <1>2, <2>2, <3>2 DEF Owned
      <4>2. asked'[o] = [asked[o] EXCEPT !.email = Chosen(d.email, asked[o].email),
                                         !.phone = Chosen(d.phone, asked[o].phone)]
        BY <1>2, <2>1 DEF TypeInv, AccountTables
      <4>3. asked[o].email = account[o].email /\ asked[o].phone = account[o].phone
        BY <4>1 DEF Asked
      <4>4. asked'[o] = [Asked(account[o]) EXCEPT !.email = Chosen(d.email, account[o].email),
                                                  !.phone = Chosen(d.phone, account[o].phone)]
        BY <4>1, <4>2, <4>3
      <4>5. QED
        BY <3>1, <4>4 DEF Asked
    <3>3. QED
      BY <1>2, <2>1, <2>2, <2>3, <3>2, MarkKept DEF Owned, Agrees, TypeInv
  <2> HIDE DEF acc, row
  <2>7. AccountsKept /\ OwnedStays
    BY <1>2, <2>3, <2>5, <2>6, WriteKeepsTables, WriteKeepsOwned DEF TypeInv
  <2>8. OfficesKept
    BY <1>2, <2>1, <2>2, <2>4, <2>7, StaysOffice, OfficeRowKept
  <2>9. ReqTyped([at |-> "drop_details", who |-> o], account', code', session')
    BY <1>2 DEF ReqTyped
  <2>10. QED
    BY <1>1, <2>1, <2>7, <2>8, <2>9, Gone, OfficesWritten
<1>5. QED
  BY <1>3, <1>4

LEMMA RejectChangeTyped ==
  ASSUME TypeInv, NEW h \in Handlers, RejectChange(h), UNCHANGED <<otpVars, authVars>>
  PROVE  TypeInv' /\ OwnedStays
<1> DEFINE o == req[h].who
           row == [office[o] EXCEPT !.change = "REJECTED"]
<1>1. req[h].at = "reject_change" /\ Done(h) /\ UNCHANGED <<accountVars, employee, details>>
  BY DEF RejectChange, At
<1>2. o \in Accounts
  BY <1>1, Holds DEF ReqTyped
<1>3. AccountsKept /\ OwnedStays
  BY <1>1, SameAccounts DEF TypeInv
<1>4. OfficesKept
  <2>1. CASE UNCHANGED office
    BY <1>1, <1>3, <2>1, SameProfiles
  <2>2. CASE IsOffice(o)
    <3>1. row \in Office
      BY <1>2, <2>2, OfficeExists DEF Office
    <3>2. SetOffice(o, row)
      BY <2>2 DEF RejectChange
    <3> HIDE DEF row
    <3>3. QED
      BY <1>1, <1>2, <1>3, <2>2, <3>1, <3>2, OfficeExists, StaysOffice, OfficeRowKept
  <2>3. QED
    BY <2>1, <2>2 DEF RejectChange
<1>5. QED
  BY <1>1, <1>3, <1>4, Ended, OfficesWritten

\* The steps on the cache of the details
LEMMA DetailsTyped ==
  ASSUME TypeInv, UNCHANGED <<otpVars, authVars>>,
         \/ \E h \in Handlers : DropDetails(h) \/ FillDetails(h)
         \/ \E o \in Accounts : DetailsExpire(o)
  PROVE  TypeInv' /\ OwnedStays
<1>1. UNCHANGED <<accountVars, office, employee>>
  BY DEF DropDetails, FillDetails, DetailsExpire
<1>2. Turn
  <2>1. ASSUME NEW h \in Handlers, DropDetails(h) \/ FillDetails(h) PROVE Turn
    BY <2>1, Ended DEF DropDetails, FillDetails, At
  <2>2. QED
    BY <2>1, Stayed DEF DetailsExpire
<1>3. AccountsKept /\ OwnedStays
  BY <1>1, SameAccounts DEF TypeInv
<1>4. details' \in [Accounts -> Names \union {None}]
  <2>1. ASSUME NEW h \in Handlers, FillDetails(h) PROVE details' \in [Accounts -> Names \union {None}]
    <3>1. req[h].name \in Names
      BY <2>1, Holds DEF FillDetails, At, ReqTyped
    <3>2. QED
      BY <2>1, <3>1 DEF FillDetails, TypeInv, OfficesTypeOK
  <2>2. QED
    BY <2>1 DEF DropDetails, DetailsExpire, TypeInv, OfficesTypeOK
<1>5. OfficesKept
  BY <1>1, <1>4 DEF OfficesKept, TypeInv, OfficesTypeOK, OfficeAccounts, IsOffice, HasRole, Exists, accountVars
<1>6. QED
  BY <1>2, <1>3, <1>5, OfficesWritten

LEMMA OfficesTyped ==
  ASSUME TypeInv, OfficesNext, UNCHANGED <<otpVars, authVars>>
  PROVE  TypeInv' /\ OwnedStays
<1>1. CASE \E o \in Accounts, f \in {"commerceNumber", "logo"} : FillProfile(o, f)
  BY <1>1, FillProfileTyped
<1>2. CASE \E o, a \in Accounts, e \in Employees, em \in Emails, p \in Phones, w \in Passwords :
             AddOfficeEmployeeWithAccount(o, e, a, em, p, w)
  BY <1>2, AddAccountTyped
<1>3. CASE \E o \in Accounts, e \in Employees : AddOfficeEmployee(o, e)
  BY <1>3, AddEmployeeTyped
<1>4. CASE \E o \in Accounts : RejectRegistration(o) \/ DeleteOffice(o) \/ DetailsExpire(o)
  BY <1>4, DecisionsTyped, DeleteOfficeTyped, DetailsTyped
<1>5. CASE \E o \in Accounts, n \in Names, s \in AccountStatus : UpdateOfficeByAdmin(o, n, s)
  BY <1>5, UpdateOfficeTyped
<1>6. CASE \E o \in Accounts, d \in ChangeData : AddChangeRequest(o, d)
  BY <1>6, AddChangeTyped
<1>7. CASE \E h \in Handlers, e \in Employees : RemoveEmployee(h, e)
  BY <1>7, RemoveEmployeeTyped
<1>8. CASE \E h \in Handlers, o \in Accounts :
             \/ ApproveRegistration(h, o) \/ ToggleOfficeRead(h, o) \/ ApproveChangeRead(h, o)
             \/ RejectChangeRead(h, o) \/ ReadDetails(h, o)
  BY <1>8, DecisionsTyped, ToggleOfficeTyped, OfficeReadsTyped
<1>9. CASE \E h \in Handlers :
             \/ ClearEmployee(h) \/ ToggleOfficeSave(h) \/ ApplyChange(h) \/ DropDetails(h)
             \/ RejectChange(h) \/ FillDetails(h)
  BY <1>9, ClearEmployeeTyped, ToggleOfficeTyped, ApplyChangeTyped, DetailsTyped, RejectChangeTyped
<1>10. QED
  BY <1>1, <1>2, <1>3, <1>4, <1>5, <1>6, <1>7, <1>8, <1>9 DEF OfficesNext

-----------------------------------------------------------------------------
(* Every step *)

LEMMA AuthTyped ==
  ASSUME TypeInv, AuthNext
  PROVE  TypeInv' /\ (OwnedStays \/ \E h \in Handlers : MarkVerified(h))
<1>1. ASSUME NEW h \in Handlers, AuthRequest(h) PROVE TypeInv' /\ OwnedStays
  BY <1>1, RequestsTyped, DeleteAccountTyped DEF AuthRequest
<1>2. ASSUME NEW h \in Handlers, OtpStep(h), UNCHANGED <<officeVars, authVars>> PROVE TypeInv' /\ OwnedStays
  BY <1>2, GenerateCheckTyped, GenerateExpireTyped, GenerateInsertTyped, VerifyReadTyped, VerifySaveTyped
     DEF OtpStep
<1>3. ASSUME NEW h \in Handlers, AuthStep(h) PROVE TypeInv' /\ (OwnedStays \/ MarkVerified(h))
  BY <1>2, <1>3, PasswordTyped, UpdateEmailTyped, ChangePhoneTyped, MarkVerifiedReadTyped,
     MarkVerifiedTyped, MembershipReadTyped, StatusAfterVerificationTyped, CreateSessionTyped,
     RotateTyped, DeleteAccountRowTyped DEF AuthStep
<1>4. CASE \E h \in Handlers, a \in Accounts, role \in {"USER", "OFFICE"}, e \in Emails, p \in Phones,
             w \in Passwords, n \in Names : Register(h, a, role, e, p, w, n)
  BY <1>4, RegisterTyped
<1>5. QED
  BY <1>1, <1>3, <1>4, PasswordTyped, LogoutTyped, CodeAgesTyped, ResetTokenExpiresTyped DEF AuthNext

LEMMA EndsTyped ==
  ASSUME TypeInv, NEW h \in Handlers,
         TrialDone(h) \/ (Drop(h) /\ UNCHANGED <<rowVars, authVars>>)
  PROVE  TypeInv' /\ OwnedStays
<1>1. Turn
  <2>1. CASE TrialDone(h)
    BY <2>1, Ended DEF TrialDone, At
  <2>2. CASE Drop(h)
    <3>1. MovesTo(h, Idle)
      BY <2>2 DEF Drop, MovesTo, TypeInv, OneBusy
    <3>2. QED
      BY <3>1, IdleIsTyped DEF Turn
  <2>3. QED
    BY <2>1, <2>2
<1>2. QED
  BY <1>1, NothingWritten DEF TrialDone

LEMMA StepTyped ==
  ASSUME TypeInv, [IdentityNext]_identityVars
  PROVE  TypeInv' /\ (OwnedStays \/ \E h \in Handlers : MarkVerified(h))
<1>1. CASE UNCHANGED identityVars
  BY <1>1, Stayed, NothingWritten DEF identityVars
<1>2. QED
  BY <1>1, AuthTyped, AdminTyped, OfficesTyped, EndsTyped DEF IdentityNext, IdentityEdits, AdminNext

LEMMA InitTyped ==
  ASSUME IdentityInit PROVE TypeInv
<1>1. AccountTables /\ CodeTables /\ SessionTables /\ ResetTokens
  BY DEF IdentityInit, AccountsInit, OtpInit, AuthInit, AccountTables, AccountsTypeOK, Proofs, CodeTables,
         OtpTypeOK, SessionTables, ResetTokens
<1>2. OfficesTypeOK /\ OfficeAccounts
  BY DEF IdentityInit, OfficesInit, OfficesTypeOK, OfficeAccounts, IsOffice
<1>3. ReqsTyped /\ OneBusy /\ req = [h \in Handlers |-> req[h]]
  BY IdleIsTyped DEF IdentityInit, RequestsInit, ReqsTyped, OneBusy
<1>4. QED
  BY <1>1, <1>2, <1>3 DEF TypeInv

LEMMA IdentityTyped == IdentitySpec => []TypeInv
<1>1. IdentityInit => TypeInv
  BY InitTyped
<1>2. TypeInv /\ [IdentityNext]_identityVars => TypeInv'
  BY StepTyped
<1>3. QED
  BY <1>1, <1>2, PTL DEF IdentitySpec

\* Every table of accounts, codes, offices and sessions keeps its type, whatever requests
\* overlap and wherever one of them is cut.
THEOREM IdentityTypes == IdentitySpec => []AuthTypeOK
<1>1. TypeInv => AuthTypeOK
  BY DEF TypeInv, AuthTypeOK, AccountTables, CodeTables, SessionTables
<1>2. QED
  BY <1>1, IdentityTyped, PTL

-----------------------------------------------------------------------------
(* Most steps leave codes and sessions alone, and turn to a point where a  *)
(* request holds nothing that could grow stale.                            *)

PlainPoints ==
  {"idle", "otp_check", "otp_read", "password", "email", "phone", "member", "verified", "session",
   "delete", "toggle", "clear_employee", "trial", "apply_change", "drop_details", "reject_change",
   "fill_details"}

TurnsTo(points) == \E h \in Handlers : \E r : MovesTo(h, r) /\ r.at \in points

PlainStep ==
  /\ UNCHANGED <<code, wrong, accepted, authVars>>
  /\ AtOnce \/ UNCHANGED <<reqVars, accountVars>> \/ TurnsTo(PlainPoints)

SpecialStep ==
  \/ \E h \in Handlers :
       \/ OtpStep(h) /\ UNCHANGED <<officeVars, authVars>>
       \/ MarkVerifiedRead(h) \/ MarkVerified(h)
       \/ CreateSession(h) \/ RotateRefreshToken(h)
       \/ \E s \in Sessions : RefreshRead(h, s)
       \/ \E a \in Accounts : DeleteAccount(h, a)
  \/ \E s \in Sessions : Logout(s)
  \/ \E c \in Codes : CodeAges(c) /\ UNCHANGED <<officeVars, authVars>>

LEMMA BeginTurns ==
  ASSUME NEW h \in Handlers, NEW r, Begin(h, r), r.at \in PlainPoints PROVE TurnsTo(PlainPoints)
  BY BeginMoves DEF TurnsTo

LEMMA GotoTurns ==
  ASSUME TypeInv, NEW h \in Handlers, req[h].at # "idle", NEW r, Goto(h, r), r.at \in PlainPoints
  PROVE  TurnsTo(PlainPoints)
  BY GotoMoves DEF TurnsTo

LEMMA DoneTurns ==
  ASSUME TypeInv, NEW h \in Handlers, req[h].at # "idle", Done(h) PROVE TurnsTo(PlainPoints)
  BY GotoTurns DEF Done, Idle, PlainPoints

LEMMA AdminPlain ==
  ASSUME TypeInv, AdminNext, UNCHANGED <<officeVars, otpVars, authVars>> PROVE PlainStep
<1>1. ASSUME NEW h \in Handlers, NEW a \in Accounts, ToggleRead(h, a) PROVE TurnsTo(PlainPoints)
  BY <1>1, BeginTurns DEF ToggleRead, PlainPoints
<1>2. ASSUME NEW h \in Handlers, ToggleSave(h) PROVE TurnsTo(PlainPoints)
  BY <1>2, DoneTurns DEF ToggleSave, At
<1>3. AtOnce \/ TurnsTo(PlainPoints)
  BY <1>1, <1>2, ZenonT(30)
     DEF AdminNext, AdminEdits, CreateAdminAccount, UpdateAdminEmployee, DeleteAdminEmployee, DeleteUser,
         UpdateUser
<1>4. QED
  BY <1>3 DEF PlainStep, otpVars

LEMMA OfficesPlain ==
  ASSUME TypeInv, OfficesNext, UNCHANGED <<otpVars, authVars>> PROVE PlainStep
<1>1. ASSUME NEW h \in Handlers, NEW o \in Accounts,
             \/ ApproveRegistration(h, o) \/ ToggleOfficeRead(h, o) \/ ApproveChangeRead(h, o)
             \/ RejectChangeRead(h, o) \/ ReadDetails(h, o)
      PROVE  TurnsTo(PlainPoints)
  <2>1. CASE ApproveRegistration(h, o)
    BY <2>1, BeginTurns DEF ApproveRegistration, PlainPoints
  <2>2. CASE ToggleOfficeRead(h, o)
    BY <2>2, BeginTurns DEF ToggleOfficeRead, ToggleRead, PlainPoints
  <2>3. CASE ApproveChangeRead(h, o)
    BY <2>3, BeginTurns DEF ApproveChangeRead, PlainPoints
  <2>4. CASE RejectChangeRead(h, o)
    BY <2>4, BeginTurns DEF RejectChangeRead, PlainPoints
  <2>5. CASE ReadDetails(h, o)
    BY <2>5, BeginTurns DEF ReadDetails, PlainPoints
  <2>6. QED
    BY <1>1, <2>1, <2>2, <2>3, <2>4, <2>5
<1>2. ASSUME NEW h \in Handlers, NEW e \in Employees, RemoveEmployee(h, e) PROVE TurnsTo(PlainPoints)
  BY <1>2, BeginTurns DEF RemoveEmployee, PlainPoints
<1>3. ASSUME NEW h \in Handlers,
             \/ ClearEmployee(h) \/ ToggleOfficeSave(h) \/ ApplyChange(h) \/ DropDetails(h)
             \/ RejectChange(h) \/ FillDetails(h)
      PROVE  TurnsTo(PlainPoints)
  <2>1. req[h].at # "idle"
    BY <1>3 DEF ClearEmployee, ToggleOfficeSave, ToggleSave, ApplyChange, DropDetails, RejectChange,
                FillDetails, At
  <2>2. CASE Done(h)
    BY <2>1, <2>2, DoneTurns
  <2>3. CASE Goto(h, [at |-> "drop_details", who |-> req[h].who])
    BY <2>1, <2>3, GotoTurns DEF PlainPoints
  <2>4. QED
    BY <1>3, <2>2, <2>3 DEF ClearEmployee, ToggleOfficeSave, ToggleSave, ApplyChange, DropDetails,
                            RejectChange, FillDetails
<1>4. AtOnce \/ UNCHANGED <<reqVars, accountVars>> \/ TurnsTo(PlainPoints)
  BY <1>1, <1>2, <1>3 DEF OfficesNext, FillProfile, AddOfficeEmployeeWithAccount, AddOfficeEmployee,
     RejectRegistration, DeleteOffice, DetailsExpire, UpdateOfficeByAdmin, AddChangeRequest
<1>5. QED
  BY <1>4 DEF PlainStep, otpVars

LEMMA AuthPlain ==
  ASSUME TypeInv, AuthNext PROVE PlainStep \/ SpecialStep
<1>1. ASSUME NEW h \in Handlers, AuthRequest(h) PROVE PlainStep \/ SpecialStep
  <2>1. CASE \/ \E id \in Identifiers, p \in Purposes : RequestCode(h, id, p)
             \/ \E id \in Identifiers, p \in Purposes, right \in BOOLEAN : EnterCode(h, id, p, right)
             \/ \E a \in Accounts, w \in Passwords : UpdatePasswordRead(h, a, w)
             \/ \E a \in Accounts, e \in Emails : UpdateEmailRead(h, a, e)
             \/ \E a \in Accounts, p \in Phones : ChangePhoneRead(h, a, p)
             \/ \E id \in Identifiers : Login(h, id)
    <3>1. TurnsTo(PlainPoints)
      <4>1. ASSUME NEW id \in Identifiers, NEW p \in Purposes, RequestCode(h, id, p)
            PROVE  TurnsTo(PlainPoints)
        BY <4>1, BeginTurns DEF RequestCode, PlainPoints
      <4>2. ASSUME NEW id \in Identifiers, NEW p \in Purposes, NEW right \in BOOLEAN,
                   EnterCode(h, id, p, right)
            PROVE  TurnsTo(PlainPoints)
        BY <4>2, BeginTurns DEF EnterCode, PlainPoints
      <4>3. ASSUME NEW a \in Accounts, NEW w \in Passwords, UpdatePasswordRead(h, a, w)
            PROVE  TurnsTo(PlainPoints)
        BY <4>3, BeginTurns DEF UpdatePasswordRead, PlainPoints
      <4>4. ASSUME NEW a \in Accounts, NEW e \in Emails, UpdateEmailRead(h, a, e)
            PROVE  TurnsTo(PlainPoints)
        BY <4>4, BeginTurns DEF UpdateEmailRead, PlainPoints
      <4>5. ASSUME NEW a \in Accounts, NEW p \in Phones, ChangePhoneRead(h, a, p)
            PROVE  TurnsTo(PlainPoints)
        BY <4>5, BeginTurns DEF ChangePhoneRead, PlainPoints
      <4>6. ASSUME NEW id \in Identifiers, Login(h, id) PROVE TurnsTo(PlainPoints)
        BY <4>6, BeginTurns DEF Login, PlainPoints
      <4>7. QED
        BY <2>1, <4>1, <4>2, <4>3, <4>4, <4>5, <4>6
    <3>2. UNCHANGED <<rowVars, authVars>>
      BY <2>1 DEF RequestCode, EnterCode, UpdatePasswordRead, UpdateEmailRead, ChangePhoneRead, Login
    <3>3. QED
      BY <3>1, <3>2 DEF PlainStep, rowVars, otpVars
  <2>2. QED
    BY <1>1, <2>1 DEF AuthRequest, SpecialStep
<1>2. ASSUME NEW h \in Handlers, AuthStep(h) PROVE PlainStep \/ SpecialStep
  <2>1. CASE \/ UpdatePassword(h) \/ UpdateEmail(h) \/ ChangePhone(h) \/ MembershipRead(h)
             \/ StatusAfterVerification(h) \/ DeleteAccountRow(h)
    <3>1. req[h].at # "idle"
      BY <2>1 DEF UpdatePassword, UpdateEmail, ChangePhone, MembershipRead, StatusAfterVerification,
                  DeleteAccountRow, At
    <3>2. Done(h) \/ \E r : Goto(h, r) /\ r.at \in PlainPoints
      <4>1. CASE MembershipRead(h)
        BY <4>1 DEF MembershipRead, PlainPoints
      <4>2. QED
        BY <2>1, <4>1 DEF UpdatePassword, UpdateEmail, ChangePhone, StatusAfterVerification,
                          DeleteAccountRow, PlainPoints
    <3>3. UNCHANGED <<otpVars, authVars>>
      BY <2>1 DEF UpdatePassword, UpdateEmail, ChangePhone, MembershipRead, StatusAfterVerification,
                  DeleteAccountRow, rowVars
    <3>4. QED
      BY <3>1, <3>2, <3>3, GotoTurns, DoneTurns DEF PlainStep, otpVars
  <2>2. QED
    BY <1>2, <2>1 DEF AuthStep, SpecialStep
<1>3. ASSUME NEW h \in Handlers, NEW a \in Accounts, NEW role \in {"USER", "OFFICE"}, NEW e \in Emails,
             NEW p \in Phones, NEW w \in Passwords, NEW n \in Names, Register(h, a, role, e, p, w, n)
      PROVE  PlainStep
  BY <1>3, BeginTurns DEF Register, PlainStep, PlainPoints, otpVars
<1>4. ASSUME NEW a \in Accounts, NEW w \in Passwords, ResetPassword(a, w) PROVE PlainStep
  BY <1>4 DEF ResetPassword, PlainStep, otpVars
<1>5. ASSUME NEW a \in Accounts, ResetTokenExpires(a), UNCHANGED <<officeVars, authVars>> PROVE PlainStep
  BY <1>5 DEF ResetTokenExpires, PlainStep
<1>6. QED
  BY <1>1, <1>2, <1>3, <1>4, <1>5 DEF AuthNext, SpecialStep

LEMMA StepKinds ==
  ASSUME TypeInv, [IdentityNext]_identityVars PROVE PlainStep \/ SpecialStep
<1>1. CASE UNCHANGED identityVars
  BY <1>1 DEF identityVars, rowVars, otpVars, PlainStep
<1>2. ASSUME NEW h \in Handlers, TrialDone(h) PROVE PlainStep
  BY <1>2, DoneTurns DEF TrialDone, At, PlainStep, rowVars, otpVars
<1>3. ASSUME NEW h \in Handlers, Drop(h), UNCHANGED <<rowVars, authVars>> PROVE PlainStep
  <2>1. MovesTo(h, Idle)
    BY <1>3 DEF Drop, MovesTo, TypeInv, OneBusy
  <2>2. TurnsTo(PlainPoints)
    BY <2>1 DEF TurnsTo, Idle, PlainPoints
  <2>3. QED
    BY <1>3, <2>2 DEF PlainStep, rowVars, otpVars
<1>4. QED
  BY <1>1, <1>2, <1>3, AdminPlain, OfficesPlain, AuthPlain DEF IdentityNext, IdentityEdits, AdminNext

\* One at a time, a request that turned to a point leaves none at another point.
LEMMA OthersIdle ==
  ASSUME TypeInv, NEW h \in Handlers, NEW r, MovesTo(h, r), serial
  PROVE  \A g \in Handlers : req'[g] = IF g = h THEN r ELSE Idle
  BY MoveKeepsOthers DEF MovesTo

\* All points but that of a refresh
CodePoints == PlainPoints \union {"otp_expire", "otp_insert", "otp_save", "phone_read", "phone_save"}

LEMMA SpecialTurn ==
  ASSUME TypeInv, NEW h \in Handlers, req[h].at # "idle", NEW r, Goto(h, r), r.at \in CodePoints
  PROVE  TurnsTo(CodePoints) /\ serial' = serial
  BY GotoMoves DEF TurnsTo, MovesTo

LEMMA SpecialMoves ==
  ASSUME TypeInv, NEW h \in Handlers,
         OtpStep(h) \/ MarkVerifiedRead(h) \/ MarkVerified(h) \/ CreateSession(h) \/ RotateRefreshToken(h)
  PROVE  TurnsTo(CodePoints) /\ serial' = serial
<1>1. req[h].at # "idle"
  BY DEF OtpStep, GenerateCheck, GenerateExpire, GenerateInsert, VerifyRead, VerifySave,
         MarkVerifiedRead, MarkVerified, CreateSession, RotateRefreshToken, At
<1>0. {"idle", "member", "otp_expire", "otp_insert", "otp_save", "phone_read", "phone_save"} \subseteq CodePoints
  BY DEF CodePoints, PlainPoints
<1>2. CASE Done(h)
  BY <1>0, <1>1, <1>2, SpecialTurn DEF Done, Idle
<1>3. CASE GenerateCheck(h)
  <2>1. [req[h] EXCEPT !.at = "otp_expire"].at = "otp_expire"
    BY <1>3, Holds DEF GenerateCheck, At, ReqTyped
  <2>2. QED
    BY <1>1, <1>2, <1>3, <2>1, <1>0, SpecialTurn DEF GenerateCheck
<1>4. CASE GenerateExpire(h)
  <2>1. [req[h] EXCEPT !.at = "otp_insert"].at = "otp_insert"
    BY <1>4, Holds DEF GenerateExpire, At, ReqTyped
  <2>2. QED
    BY <1>1, <1>4, <2>1, <1>0, SpecialTurn DEF GenerateExpire
<1>5. CASE VerifyRead(h)
  BY <1>1, <1>2, <1>5, <1>0, SpecialTurn DEF VerifyRead
<1>6. CASE VerifySave(h)
  BY <1>1, <1>2, <1>6, <1>0, SpecialTurn DEF VerifySave
<1>7. CASE MarkVerifiedRead(h)
  BY <1>1, <1>2, <1>7, <1>0, SpecialTurn DEF MarkVerifiedRead
<1>8. CASE MarkVerified(h)
  BY <1>1, <1>8, <1>0, SpecialTurn DEF MarkVerified
<1>9. QED
  BY <1>2, <1>3, <1>4, <1>5, <1>6, <1>7, <1>8 DEF OtpStep, GenerateInsert, CreateSession, RotateRefreshToken

LEMMA SerialStays ==
  ASSUME TypeInv, [IdentityNext]_identityVars PROVE serial' = serial
<1>1. CASE PlainStep
  BY <1>1 DEF PlainStep, AtOnce, reqVars, TurnsTo, MovesTo
<1>2. CASE SpecialStep
  BY <1>2, SpecialMoves DEF SpecialStep, RefreshRead, DeleteAccount, Begin, Logout, AtOnce, CodeAges, reqVars
<1>3. QED
  BY <1>1, <1>2, StepKinds

-----------------------------------------------------------------------------
(* Sessions that were logged out *)

SessionInv ==
  serial =>
    /\ \A s \in ended : session[s] # None /\ session[s].isRevoked
    /\ \A h \in Handlers : req[h].at = "rotate" =>
         Live(req[h].session) /\ req[h].row = session[req[h].session]

LEMMA SessionStep ==
  ASSUME TypeInv, SessionInv, serial, SpecialStep
  PROVE  /\ \A s \in ended' : session'[s] # None /\ session'[s].isRevoked
         /\ \A g \in Handlers : req'[g].at = "rotate" =>
              /\ session'[req'[g].session] # None
              /\ ~ session'[req'[g].session].isRevoked
              /\ req'[g].row = session'[req'[g].session]
<1> DEFINE goal ==
      /\ \A s \in ended' : session'[s] # None /\ session'[s].isRevoked
      /\ \A g \in Handlers : req'[g].at = "rotate" =>
           /\ session'[req'[g].session] # None
           /\ ~ session'[req'[g].session].isRevoked
           /\ req'[g].row = session'[req'[g].session]
<1>1. /\ \A s \in ended : s \in Sessions /\ session[s] # None /\ session[s].isRevoked
      /\ \A s \in Sessions : session[s] # None => session[s] \in Session
      /\ session \in [Sessions -> Session \union {None}]
  BY DEF SessionInv, TypeInv, SessionTables
<1>2. ASSUME TurnsTo(CodePoints)
      PROVE  \A g \in Handlers : req'[g].at # "rotate"
  <2>1. PICK h \in Handlers : \E r : MovesTo(h, r) /\ r.at \in CodePoints
    BY <1>2 DEF TurnsTo
  <2>2. PICK r : MovesTo(h, r) /\ r.at \in CodePoints
    BY <2>1
  <2>3. QED
    BY <2>2, OthersIdle DEF CodePoints, PlainPoints, Idle
<1>3. ASSUME NEW h \in Handlers, OtpStep(h), UNCHANGED <<officeVars, authVars>> PROVE goal
  BY <1>1, <1>2, <1>3, SpecialMoves DEF authVars
<1>4. ASSUME NEW h \in Handlers, MarkVerifiedRead(h) \/ MarkVerified(h) PROVE goal
  BY <1>1, <1>2, <1>4, SpecialMoves DEF MarkVerifiedRead, MarkVerified, authVars
<1>5. ASSUME NEW h \in Handlers, CreateSession(h) PROVE goal
  <2>1. \A s \in Sessions : session[s] # None => session'[s] = session[s]
    BY <1>1, <1>5 DEF CreateSession
  <2>2. \A g \in Handlers : req'[g].at # "rotate"
    BY <1>2, <1>5, SpecialMoves
  <2>3. QED
    BY <1>1, <1>5, <2>1, <2>2 DEF CreateSession
<1>6. ASSUME NEW h \in Handlers, RotateRefreshToken(h) PROVE goal
  <2>1. req[h].row = session[req[h].session] /\ req[h].session \in Sessions
    BY <1>6, Holds DEF RotateRefreshToken, At, SessionInv, ReqTyped
  <2>2. session' = session
    BY <1>1, <1>6, <2>1 DEF RotateRefreshToken
  <2>3. \A g \in Handlers : req'[g].at # "rotate"
    BY <1>2, <1>6, SpecialMoves
  <2>4. QED
    BY <1>1, <1>6, <2>2, <2>3 DEF RotateRefreshToken
<1>7. ASSUME NEW h \in Handlers, NEW s \in Sessions, RefreshRead(h, s) PROVE goal
  <2> DEFINE r == [at |-> "rotate", session |-> s, row |-> session[s]]
  <2>1. MovesTo(h, r) /\ Live(s) /\ session' = session /\ ended' = ended
    BY <1>7, BeginMoves DEF RefreshRead, authVars
  <2>2. \A g \in Handlers : req'[g] = IF g = h THEN r ELSE Idle
    <3> HIDE DEF r
    <3>1. QED
      BY <2>1, OthersIdle
  <2>3. QED
    BY <1>1, <2>1, <2>2 DEF Live, Idle
<1>8. ASSUME NEW h \in Handlers, NEW a \in Accounts, DeleteAccount(h, a) PROVE goal
  <2>1. TurnsTo(CodePoints)
    BY <1>8, BeginMoves DEF DeleteAccount, TurnsTo, CodePoints, PlainPoints
  <2>2. \A s \in Sessions : session[s] # None =>
          [session[s] EXCEPT !.isRevoked = TRUE] \in Session /\ [session[s] EXCEPT !.isRevoked = TRUE].isRevoked
    BY <1>1 DEF Session
  <2>3. \A s \in ended' : s \in Sessions /\ session[s] # None
    BY <1>1, <1>8 DEF DeleteAccount, SessionsOf
  <2>4. ASSUME NEW s \in ended' PROVE session'[s] # None /\ session'[s].isRevoked
    <3>1. CASE s \in SessionsOf(a)
      BY <1>8, <2>2, <2>3, <3>1, NoneIsNoSession DEF DeleteAccount, RevokeAll
    <3>2. CASE s \notin SessionsOf(a)
      BY <1>1, <1>8, <2>3, <3>2 DEF DeleteAccount, RevokeAll
    <3>3. QED
      BY <3>1, <3>2
  <2>5. QED
    BY <1>2, <2>1, <2>4
<1>9. ASSUME NEW s \in Sessions, Logout(s) PROVE goal
  <2>1. \A g \in Handlers : req'[g] = Idle
    BY <1>9 DEF Logout, AtOnce, Quiet, reqVars
  <2>2. [session[s] EXCEPT !.isRevoked = TRUE] \in Session /\ [session[s] EXCEPT !.isRevoked = TRUE].isRevoked
    BY <1>1, <1>9 DEF Logout, Session
  <2>3. \A t \in ended' : session'[t] # None /\ session'[t].isRevoked
    BY <1>1, <1>9, <2>2, NoneIsNoSession DEF Logout
  <2>4. QED
    BY <2>1, <2>3 DEF Idle
<1>10. ASSUME NEW c \in Codes, CodeAges(c), UNCHANGED <<officeVars, authVars>> PROVE goal
  BY <1>1, <1>10 DEF CodeAges, reqVars, authVars, SessionInv, Live
<1>11. QED
  BY <1>3, <1>4, <1>5, <1>6, <1>7, <1>8, <1>9, <1>10 DEF SpecialStep

LEMMA SessionInvStays ==
  ASSUME TypeInv, SessionInv, [IdentityNext]_identityVars PROVE SessionInv'
<1> SUFFICES ASSUME serial
             PROVE  /\ \A s \in ended' : session'[s] # None /\ session'[s].isRevoked
                    /\ \A g \in Handlers : req'[g].at = "rotate" =>
                         /\ session'[req'[g].session] # None
                         /\ ~ session'[req'[g].session].isRevoked
                         /\ req'[g].row = session'[req'[g].session]
  BY SerialStays DEF SessionInv, Live
<1>1. CASE SpecialStep
  BY <1>1, SessionStep
<1>2. CASE PlainStep
  <2>1. CASE UNCHANGED reqVars
    BY <1>2, <2>1 DEF PlainStep, SessionInv, Live, authVars, reqVars
  <2>2. CASE TurnsTo(PlainPoints)
    <3>1. \A g \in Handlers : req'[g].at # "rotate"
      BY <2>2, OthersIdle DEF TurnsTo, PlainPoints, Idle
    <3>2. QED
      BY <1>2, <3>1 DEF PlainStep, SessionInv, authVars
  <2>3. QED
    BY <1>2, <2>1, <2>2 DEF PlainStep, AtOnce
<1>3. QED
  BY <1>1, <1>2, StepKinds

\* A session that was logged out is never live again: one request at a time, a refresh
\* saves the row it read, which nothing has revoked since.
THEOREM LoggedOutNeverReturns == IdentitySpec => []LoggedOutStaysOut
<1>1. IdentityInit => SessionInv
  BY DEF IdentityInit, AuthInit, RequestsInit, Idle, SessionInv
<1>2. TypeInv /\ SessionInv /\ [IdentityNext]_identityVars => SessionInv'
  BY SessionInvStays
<1>3. SessionInv => LoggedOutStaysOut
  BY DEF SessionInv, LoggedOutStaysOut
<1>4. QED
  BY <1>1, <1>2, <1>3, IdentityTyped, PTL DEF IdentitySpec

-----------------------------------------------------------------------------
(* One-time codes, one request at a time *)

IsPending(c) == code[c] # None /\ code[c].status = "PENDING"

\* A pending code has counted its wrong inputs, and was never accepted.
CodeRow(c) ==
  /\ code[c] = None => wrong[c] = 0 /\ accepted[c] = 0
  /\ IsPending(c) => wrong[c] = code[c].attempts /\ accepted[c] = 0
  /\ accepted[c] <= 1 /\ wrong[c] <= MaxAttempts

OnePending ==
  \A c, d \in Codes :
    IsPending(c) /\ IsPending(d) /\ code[c].account = code[d].account /\ code[c].purpose = code[d].purpose
    => c = d

\* What a request read of a code is still so.
CodeReq(r) ==
  /\ r.at = "otp_insert" => Pending(r.who, r.purpose) = {}
  /\ r.at = "otp_save" =>
       /\ IsPending(r.code)
       /\ r.row.account = code[r.code].account /\ r.row.purpose = code[r.code].purpose
       /\ r.row.status = "PENDING" => r.row.attempts = code[r.code].attempts + 1
       /\ r.ok => r.row.status = "VERIFIED"

CodeInv ==
  serial => OnePending /\ (\A c \in Codes : CodeRow(c)) /\ (\A h \in Handlers : CodeReq(req[h]))

LEMMA PendingMembers ==
  ASSUME NEW a, NEW p, NEW c \in Codes
  PROVE  c \in Pending(a, p) <=> IsPending(c) /\ code[c].account = a /\ code[c].purpose = p
  BY DEF Pending, IsPending

\* One at a time, only the request that moved can hold something.
LEMMA OnlyMover ==
  ASSUME TypeInv, serial, NEW h \in Handlers, NEW r, MovesTo(h, r), CodeReq(req[h])'
  PROVE  \A g \in Handlers : CodeReq(req[g])'
<1>1. \A g \in Handlers : req'[g] = IF g = h THEN r ELSE Idle
  BY OthersIdle
<1>2. ASSUME NEW g \in Handlers PROVE CodeReq(req[g])'
  <2>1. CASE g = h
    BY <2>1
  <2>2. CASE g # h
    BY <1>1, <2>2 DEF CodeReq, Idle
  <2>3. QED
    BY <2>1, <2>2
<1>3. QED
  BY <1>2

LEMMA PlainReqs ==
  ASSUME TypeInv, serial, TurnsTo(PlainPoints)
  PROVE  \A g \in Handlers : req'[g].at \in PlainPoints
  BY OthersIdle DEF TurnsTo, PlainPoints, Idle

LEMMA CodesAlone ==
  ASSUME TypeInv, CodeInv, serial, UNCHANGED <<code, wrong, accepted>>,
         UNCHANGED req \/ \A g \in Handlers : req'[g].at \notin {"otp_insert", "otp_save"}
  PROVE  CodeInv'
  BY DEF CodeInv, OnePending, CodeRow, IsPending, CodeReq, Pending

LEMMA CodeRowTyped ==
  ASSUME TypeInv, NEW c \in Codes, code[c] # None
  PROVE  /\ code[c] \in Code /\ code[c].attempts \in 0..MaxAttempts
         /\ wrong[c] \in Nat /\ accepted[c] \in Nat
  BY DEF TypeInv, CodeTables, OtpTypeOK, Code

\* generate expires what was pending, so that nothing of its account and purpose is.
LEMMA ExpireKeepsCodes ==
  ASSUME TypeInv, CodeInv, serial, NEW h \in Handlers, GenerateExpire(h)
  PROVE  CodeInv'
<1> DEFINE a == req[h].who
           p == req[h].purpose
           r == [req[h] EXCEPT !.at = "otp_insert"]
<1>1. req[h].at = "otp_expire" /\ Goto(h, r) /\ UNCHANGED <<wrong, accepted>>
  BY DEF GenerateExpire, At
<1>2. r.at = "otp_insert" /\ r.who = a /\ r.purpose = p
  BY <1>1, Holds DEF ReqTyped
<1>3. ASSUME NEW c \in Codes
      PROVE  /\ c \in Pending(a, p) => code'[c] # None /\ code'[c].status = "EXPIRED"
             /\ c \notin Pending(a, p) => code'[c] = code[c]
  <2>1. c \in Pending(a, p) => code[c] \in Code
    BY CodeRowTyped DEF Pending
  <2>2. c \in Pending(a, p) =>
          [code[c] EXCEPT !.status = "EXPIRED"] \in Code /\ [code[c] EXCEPT !.status = "EXPIRED"].status = "EXPIRED"
    BY <2>1 DEF Code
  <2>3. QED
    BY <2>2, NoneIsNoCode DEF GenerateExpire
<1>4. \A c \in Codes : IsPending(c)' => IsPending(c) /\ code'[c] = code[c] /\ c \notin Pending(a, p)
  BY <1>3 DEF IsPending
<1>5. OnePending'
  BY <1>4 DEF CodeInv, OnePending, IsPending
<1>6. ASSUME NEW c \in Codes PROVE CodeRow(c)'
  <2>1. code'[c] = None => code[c] = None
    BY <1>3
  <2>2. QED
    BY <1>1, <1>4, <2>1 DEF CodeInv, CodeRow, IsPending
<1>7. Pending(a, p)' = {} /\ serial' = serial
  BY <1>1, <1>4, PendingMembers DEF Pending, IsPending, Goto
<1>8. \A g \in Handlers : CodeReq(req[g])'
  <2>1. MovesTo(h, r)
    <3> HIDE DEF r
    <3>1. QED
      BY <1>1, GotoMoves
  <2>2. req'[h] = r
    <3> HIDE DEF r
    <3>1. QED
      BY <2>1, MoveKeepsOthers
  <2>3. \A c \in Codes : ~ (code'[c] # None /\ code'[c].account = a /\ code'[c].purpose = p /\ code'[c].status = "PENDING")
    BY <1>4, PendingMembers DEF IsPending
  <2>4. req'[h].who = a /\ req'[h].purpose = p /\ req'[h].at = "otp_insert"
    BY <1>2, <2>2
  <2>5. Pending(req[h].who, req[h].purpose)' = {}
    BY <2>3, <2>4 DEF Pending
  <2>6. CodeReq(req[h])'
    BY <2>4, <2>5 DEF CodeReq
  <2> HIDE DEF r
  <2>7. QED
    BY <2>1, <2>6, OnlyMover
<1>9. QED
  BY <1>5, <1>6, <1>8 DEF CodeInv

\* The new code is the only pending one of its account and purpose.
LEMMA InsertKeepsCodes ==
  ASSUME TypeInv, CodeInv, serial, NEW h \in Handlers, GenerateInsert(h)
  PROVE  CodeInv'
<1> DEFINE a == req[h].who
           p == req[h].purpose
           row == [account |-> a, purpose |-> p, status |-> "PENDING", attempts |-> 0, age |-> Fresh]
<1>1. req[h].at = "otp_insert" /\ Done(h) /\ UNCHANGED <<wrong, accepted>> /\ serial' = serial
  BY DEF GenerateInsert, At, Done, Goto
<1>2. \A g \in Handlers : req'[g].at \notin {"otp_insert", "otp_save"}
  BY <1>1, DoneTurns, PlainReqs DEF PlainPoints
<1>3. CASE UNCHANGED code
  BY <1>1, <1>2, <1>3, CodesAlone
<1>4. CASE Unissued # {}
  <2> DEFINE n == Min(Unissued)
  <2>1. n \in Codes /\ code[n] = None
    BY <1>4, MinIsMember DEF Unissued
  <2>2. code' = [code EXCEPT ![n] = row]
    BY <1>4 DEF GenerateInsert
  <2>3. a \in Accounts /\ p \in Purposes
    BY <1>1, Holds DEF ReqTyped
  <2>4. row \in Code
    BY <2>3, MaxAttemptsPositive DEF Code, Fresh, Lapsed
  <2> HIDE DEF n
  <2>5. row # None /\ row.account = a /\ row.purpose = p /\ row.status = "PENDING" /\ row.attempts = 0
    BY <2>4, NoneIsNoCode
  <2> HIDE DEF row
  <2>6. code'[n] = row /\ \A c \in Codes \ {n} : code'[c] = code[c]
    BY <2>1, <2>2 DEF TypeInv, CodeTables, OtpTypeOK
  <2>7. \A c \in Codes : ~ (IsPending(c) /\ code[c].account = a /\ code[c].purpose = p)
    BY <1>1, PendingMembers DEF CodeInv, CodeReq
  <2>8. OnePending'
    <3>1. SUFFICES ASSUME NEW c \in Codes, NEW d \in Codes, IsPending(c)', IsPending(d)',
                          code'[c].account = code'[d].account, code'[c].purpose = code'[d].purpose
                   PROVE  c = d
      BY DEF OnePending
    <3>2. CASE c # n /\ d # n
      BY <2>6, <3>1, <3>2 DEF CodeInv, OnePending, IsPending
    <3>3. CASE c = n /\ d # n
      BY <2>5, <2>6, <2>7, <3>1, <3>3 DEF IsPending
    <3>4. CASE c # n /\ d = n
      BY <2>5, <2>6, <2>7, <3>1, <3>4 DEF IsPending
    <3>5. QED
      BY <3>2, <3>3, <3>4
  <2>9. ASSUME NEW c \in Codes PROVE CodeRow(c)'
    <3>1. CASE c = n
      BY <1>1, <2>1, <2>5, <2>6, <3>1, MaxAttemptsPositive DEF CodeInv, CodeRow, IsPending
    <3>2. CASE c # n
      BY <1>1, <2>6, <3>2 DEF CodeInv, CodeRow, IsPending
    <3>3. QED
      BY <3>1, <3>2
  <2>10. QED
    BY <1>2, <2>8, <2>9 DEF CodeInv, CodeReq
<1>5. QED
  BY <1>3, <1>4 DEF GenerateInsert

\* The row verify will save differs from the one it read by what is decided.
LEMMA JudgedRow ==
  ASSUME TypeInv, NEW c \in Codes, code[c] # None, NEW right \in BOOLEAN
  PROVE  /\ Judged(c, right).account = code[c].account /\ Judged(c, right).purpose = code[c].purpose
         /\ code[c].status = "PENDING" /\ Judged(c, right).status = "PENDING" =>
              Judged(c, right).attempts = code[c].attempts + 1
         /\ right /\ code[c].age # Lapsed => Judged(c, right).status = "VERIFIED"
<1>1. code[c] \in Code
  BY CodeRowTyped
<1>2. CASE code[c].age = Lapsed
  BY <1>1, <1>2 DEF Judged, Code
<1>3. CASE code[c].age # Lapsed /\ right
  BY <1>1, <1>3 DEF Judged, Code
<1>4. CASE code[c].age # Lapsed /\ ~ right
  BY <1>1, <1>4 DEF Judged, Code
<1>5. QED
  BY <1>2, <1>3, <1>4

LEMMA ReadKeepsCodes ==
  ASSUME TypeInv, CodeInv, serial, NEW h \in Handlers, VerifyRead(h)
  PROVE  CodeInv'
<1>1. req[h].at = "otp_read" /\ UNCHANGED <<code, wrong, accepted>>
  BY DEF VerifyRead, At, otpVars
<1>2. CASE Done(h)
  <2>1. \A g \in Handlers : req'[g].at \notin {"otp_insert", "otp_save"}
    BY <1>1, <1>2, DoneTurns, PlainReqs DEF PlainPoints
  <2>2. QED
    BY <1>1, <2>1, CodesAlone
<1>3. CASE ~ Done(h)
  <2> DEFINE a == Find(req[h].id)
             c == Newest(a, req[h].purpose)
             r == [at |-> "otp_save", id |-> req[h].id, who |-> a, purpose |-> req[h].purpose,
                   code |-> c, row |-> Judged(c, req[h].right),
                   ok |-> req[h].right /\ code[c].age # Lapsed]
  <2>1. Goto(h, r) /\ Pending(a, req[h].purpose) # {}
    BY <1>3 DEF VerifyRead
  <2>2. c \in Pending(a, req[h].purpose)
    BY <2>1, MaxIsMember DEF Newest, Pending
  <2>3. c \in Codes /\ IsPending(c) /\ code[c] # None
    BY <2>2 DEF Pending, IsPending
  <2>4. req[h].right \in BOOLEAN
    BY <1>1, Holds DEF ReqTyped
  <2>5. /\ r.at = "otp_save" /\ r.code = c /\ r.row = Judged(c, req[h].right)
        /\ r.ok = (req[h].right /\ code[c].age # Lapsed)
    OBVIOUS
  <2> HIDE DEF r
  <2>6. MovesTo(h, r)
    BY <1>1, <2>1, GotoMoves
  <2>7. req'[h] = r
    BY <2>6, MoveKeepsOthers
  <2> HIDE DEF c
  <2>8. CodeReq(req[h])'
    BY <1>1, <2>3, <2>4, <2>5, <2>7, JudgedRow, ZenonT(30) DEF CodeReq, IsPending
  <2>9. \A g \in Handlers : CodeReq(req[g])'
    BY <2>6, <2>8, OnlyMover
  <2>10. QED
    BY <1>1, <2>9 DEF CodeInv, OnePending, CodeRow, IsPending
<1>4. QED
  BY <1>2, <1>3

\* What is saved was pending until now: it is expired, verified, or tried once more.
LEMMA SaveKeepsCodes ==
  ASSUME TypeInv, CodeInv, serial, NEW h \in Handlers, VerifySave(h)
  PROVE  CodeInv'
<1> DEFINE c == req[h].code
           row == [req[h].row EXCEPT !.age = code[c].age]
<1>1. req[h].at = "otp_save"
  BY DEF VerifySave, At
<1>2. /\ c \in Codes /\ code[c] # None /\ req[h].row \in Code /\ req[h].ok \in BOOLEAN
      /\ IsPending(c) /\ req[h].row.account = code[c].account /\ req[h].row.purpose = code[c].purpose
      /\ req[h].row.status = "PENDING" => req[h].row.attempts = code[c].attempts + 1
      /\ req[h].ok => req[h].row.status = "VERIFIED"
  BY <1>1, Holds DEF ReqTyped, CodeInv, CodeReq
<1>3. row \in Code /\ row.account = code[c].account /\ row.purpose = code[c].purpose
      /\ row.status = req[h].row.status /\ row.attempts = req[h].row.attempts
  <2>1. code[c].age \in Fresh..Lapsed
    BY <1>2 DEF TypeInv, CodeTables, OtpTypeOK, Code
  <2>2. QED
    BY <1>2, <2>1 DEF Code
<1>4. code' = [code EXCEPT ![c] = row]
  BY DEF VerifySave
<1> HIDE DEF row
<1>5. code'[c] = row /\ row # None /\ \A d \in Codes \ {c} : code'[d] = code[d]
  BY <1>2, <1>3, <1>4, NoneIsNoCode DEF TypeInv, CodeTables, OtpTypeOK
<1>6. /\ accepted'[c] = IF req[h].ok THEN accepted[c] + 1 ELSE accepted[c]
      /\ wrong'[c] = IF req[h].row.status = "PENDING" THEN wrong[c] + 1 ELSE wrong[c]
      /\ \A d \in Codes \ {c} : accepted'[d] = accepted[d] /\ wrong'[d] = wrong[d]
  BY <1>2 DEF VerifySave, TypeInv, CodeTables
<1>7. OnePending'
  <2>1. SUFFICES ASSUME NEW d \in Codes, NEW e \in Codes, IsPending(d)', IsPending(e)',
                        code'[d].account = code'[e].account, code'[d].purpose = code'[e].purpose
                 PROVE  d = e
    BY DEF OnePending
  <2>2. \A x \in Codes : IsPending(x)' => /\ IsPending(x)
                                          /\ code'[x].account = code[x].account
                                          /\ code'[x].purpose = code[x].purpose
    BY <1>2, <1>3, <1>5 DEF IsPending
  <2>3. QED
    BY <2>1, <2>2 DEF CodeInv, OnePending
<1>8. ASSUME NEW d \in Codes PROVE CodeRow(d)'
  <2>1. CASE d # c
    BY <1>5, <1>6, <2>1 DEF CodeInv, CodeRow, IsPending
  <2>2. CASE d = c
    <3>1. /\ wrong[c] = code[c].attempts /\ accepted[c] = 0 /\ wrong[c] <= MaxAttempts
          /\ wrong[c] \in Nat /\ code[c].attempts \in Nat
      BY <1>2, CodeRowTyped DEF CodeInv, CodeRow
    <3>2. row.attempts \in 0..MaxAttempts
      BY <1>3 DEF Code
    <3>3. CASE row.status = "PENDING"
      <4>1. ~ req[h].ok /\ row.attempts = code[c].attempts + 1
        BY <1>2, <1>3, <3>3
      <4>2. accepted'[c] = 0 /\ wrong'[c] = row.attempts
        BY <1>3, <1>6, <3>1, <3>3, <4>1
      <4>3. QED
        BY <1>5, <2>2, <3>2, <4>2, MaxAttemptsPositive DEF CodeRow, IsPending
    <3>4. CASE row.status # "PENDING"
      BY <1>3, <1>5, <1>6, <2>2, <3>1, <3>4 DEF CodeRow, IsPending
    <3>5. QED
      BY <3>3, <3>4
  <2>3. QED
    BY <2>1, <2>2
<1>9. \A g \in Handlers : req'[g].at \notin {"otp_insert", "otp_save"}
  <2>1. CASE Done(h)
    BY <1>1, <2>1, DoneTurns, PlainReqs DEF PlainPoints
  <2>2. CASE Goto(h, [at |-> "phone_read", id |-> req[h].id])
    <3> DEFINE r == [at |-> "phone_read", id |-> req[h].id]
    <3>1. r.at = "phone_read" /\ Goto(h, r)
      BY <2>2
    <3> HIDE DEF r
    <3>2. QED
      BY <1>1, <3>1, GotoMoves, OthersIdle DEF Idle
  <2>3. QED
    BY <2>1, <2>2 DEF VerifySave
<1>10. QED
  BY <1>7, <1>8, <1>9 DEF CodeInv, CodeReq

LEMMA AgingKeepsCodes ==
  ASSUME TypeInv, CodeInv, serial, NEW c \in Codes, CodeAges(c)
  PROVE  CodeInv'
<1>1. code[c] # None /\ code[c] \in Code /\ UNCHANGED <<wrong, accepted, req, serial>>
  BY CodeRowTyped DEF CodeAges, reqVars
<1> DEFINE row == [code[c] EXCEPT !.age = @ + 1]
<1>2. code' = [code EXCEPT ![c] = row]
  BY DEF CodeAges
<1>3. /\ row.account = code[c].account /\ row.purpose = code[c].purpose
      /\ row.status = code[c].status /\ row.attempts = code[c].attempts
  BY <1>1 DEF Code
<1>4. row # None
  <2>1. code[c].age < Lapsed
    BY DEF CodeAges
  <2>2. row \in Code
    BY <1>1, <2>1 DEF Code, Fresh, Lapsed
  <2>3. QED
    BY <2>2, NoneIsNoCode
<1> HIDE DEF row
<1>5. \A d \in Codes :
        /\ code'[d] = None <=> code[d] = None
        /\ code'[d] # None => /\ code'[d].account = code[d].account /\ code'[d].purpose = code[d].purpose
                              /\ code'[d].status = code[d].status /\ code'[d].attempts = code[d].attempts
  BY <1>1, <1>2, <1>3, <1>4 DEF TypeInv, CodeTables, OtpTypeOK
<1>6. OnePending'
  BY <1>5 DEF CodeInv, OnePending, IsPending
<1>7. \A d \in Codes : CodeRow(d)'
  BY <1>1, <1>5 DEF CodeInv, CodeRow, IsPending
<1>8. ASSUME NEW g \in Handlers PROVE CodeReq(req[g])'
  <2>1. \A a, p : Pending(a, p)' = Pending(a, p)
    BY <1>5 DEF Pending
  <2>2. req[g].at = "otp_save" => req[g].code \in Codes
    BY Holds DEF ReqTyped
  <2>3. QED
    BY <1>1, <1>5, <2>1, <2>2 DEF CodeInv, CodeReq, IsPending
<1>9. QED
  BY <1>6, <1>7, <1>8 DEF CodeInv

LEMMA CheckMoves ==
  ASSUME TypeInv, serial, NEW h \in Handlers,
         \/ GenerateCheck(h) \/ MarkVerifiedRead(h) \/ MarkVerified(h)
         \/ CreateSession(h) \/ RotateRefreshToken(h)
         \/ \E s \in Sessions : RefreshRead(h, s)
         \/ \E a \in Accounts : DeleteAccount(h, a)
  PROVE  \A g \in Handlers : req'[g].at \notin {"otp_insert", "otp_save"}
<1>1. ASSUME NEW r, MovesTo(h, r), r.at \notin {"otp_insert", "otp_save"}
      PROVE  \A g \in Handlers : req'[g].at \notin {"otp_insert", "otp_save"}
  BY <1>1, OthersIdle DEF Idle
<1>2. CASE GenerateCheck(h)
  <2>1. req[h].at = "otp_check" /\ [req[h] EXCEPT !.at = "otp_expire"].at = "otp_expire"
    BY <1>2, Holds DEF GenerateCheck, At, ReqTyped
  <2>2. CASE Done(h)
    BY <1>1, <2>1, <2>2, GotoMoves DEF Done, Idle
  <2>3. CASE Goto(h, [req[h] EXCEPT !.at = "otp_expire"])
    BY <1>1, <2>1, <2>3, GotoMoves
  <2>4. QED
    BY <1>2, <2>2, <2>3 DEF GenerateCheck
<1>3. CASE MarkVerifiedRead(h)
  BY <1>1, <1>3, GotoMoves DEF MarkVerifiedRead, At, Done, Idle
<1>4. CASE MarkVerified(h)
  BY <1>1, <1>4, GotoMoves DEF MarkVerified, At
<1>5. CASE CreateSession(h) \/ RotateRefreshToken(h)
  BY <1>1, <1>5, GotoMoves DEF CreateSession, RotateRefreshToken, At, Done, Idle
<1>6. ASSUME NEW s \in Sessions, RefreshRead(h, s)
      PROVE  \A g \in Handlers : req'[g].at \notin {"otp_insert", "otp_save"}
  BY <1>1, <1>6, BeginMoves DEF RefreshRead
<1>7. ASSUME NEW a \in Accounts, DeleteAccount(h, a)
      PROVE  \A g \in Handlers : req'[g].at \notin {"otp_insert", "otp_save"}
  BY <1>1, <1>7, BeginMoves DEF DeleteAccount
<1>8. QED
  BY <1>2, <1>3, <1>4, <1>5, <1>6, <1>7

LEMMA CodeInvStays ==
  ASSUME TypeInv, CodeInv, [IdentityNext]_identityVars PROVE CodeInv'
<1>1. CASE ~ serial
  BY <1>1, SerialStays DEF CodeInv
<1>2. CASE serial /\ PlainStep
  <2>1. CASE UNCHANGED req
    BY <1>2, <2>1, CodesAlone DEF PlainStep
  <2>2. CASE TurnsTo(PlainPoints)
    BY <1>2, <2>2, PlainReqs, CodesAlone DEF PlainStep, PlainPoints
  <2>3. QED
    BY <1>2, <2>1, <2>2 DEF PlainStep, AtOnce, reqVars
<1>3. CASE serial /\ SpecialStep
  <2>1. ASSUME NEW h \in Handlers, OtpStep(h) PROVE CodeInv'
    <3>1. CASE GenerateCheck(h)
      BY <1>3, <3>1, CheckMoves, CodesAlone DEF GenerateCheck, otpVars
    <3>2. QED
      BY <1>3, <2>1, <3>1, ExpireKeepsCodes, InsertKeepsCodes, ReadKeepsCodes, SaveKeepsCodes DEF OtpStep
  <2>2. ASSUME NEW h \in Handlers,
               \/ MarkVerifiedRead(h) \/ MarkVerified(h) \/ CreateSession(h) \/ RotateRefreshToken(h)
               \/ \E s \in Sessions : RefreshRead(h, s)
               \/ \E a \in Accounts : DeleteAccount(h, a)
        PROVE  CodeInv'
    <3>1. UNCHANGED <<code, wrong, accepted>>
      BY <2>2 DEF MarkVerifiedRead, MarkVerified, CreateSession, RotateRefreshToken, RefreshRead,
                  DeleteAccount, rowVars, otpVars
    <3>2. QED
      BY <1>3, <2>2, <3>1, CheckMoves, CodesAlone
  <2>3. ASSUME NEW s \in Sessions, Logout(s) PROVE CodeInv'
    BY <1>3, <2>3, CodesAlone DEF Logout, AtOnce, reqVars, rowVars, otpVars
  <2>4. QED
    BY <1>3, <2>1, <2>2, <2>3, AgingKeepsCodes DEF SpecialStep
<1>4. QED
  BY <1>1, <1>2, <1>3, StepKinds

LEMMA IdentityCodes == IdentitySpec => []CodeInv
<1>1. IdentityInit => CodeInv
  BY MaxAttemptsPositive DEF IdentityInit, OtpInit, RequestsInit, Idle, CodeInv, OnePending, CodeRow,
     IsPending, CodeReq
<1>2. TypeInv /\ CodeInv /\ [IdentityNext]_identityVars => CodeInv'
  BY CodeInvStays
<1>3. QED
  BY <1>1, <1>2, IdentityTyped, PTL DEF IdentitySpec

\* One request at a time, an account never has two codes of one purpose that can be used.
THEOREM OnlyOneLiveCode == IdentitySpec => []OneLiveCode
<1>1. CodeInv => OneLiveCode
  <2> SUFFICES ASSUME CodeInv, serial, NEW a \in Accounts, NEW p \in Purposes
               PROVE  Cardinality(Pending(a, p)) <= 1
    BY DEF OneLiveCode
  <2>1. CASE Pending(a, p) = {}
    BY <2>1, FS_EmptySet
  <2>2. CASE Pending(a, p) # {}
    <3>1. PICK c \in Pending(a, p) : TRUE
      BY <2>2
    <3>2. \A d \in Pending(a, p) : d = c
      BY <3>1, PendingMembers DEF CodeInv, OnePending, Pending
    <3>3. Pending(a, p) = {c}
      BY <3>1, <3>2
    <3>4. QED
      BY <3>3, FS_Singleton
  <2>3. QED
    BY <2>1, <2>2
<1>2. QED
  BY <1>1, IdentityCodes, PTL

\* One request at a time, a code is accepted at most once and compared with at most
\* MaxAttempts wrong inputs, however many times verify is called.
THEOREM CodesAreTriedOut == IdentitySpec => []CodeTriesBounded
<1>1. CodeInv => CodeTriesBounded
  BY DEF CodeInv, CodeRow, CodeTriesBounded
<1>2. QED
  BY <1>1, IdentityCodes, PTL

-----------------------------------------------------------------------------
(* Contact data and verified phones, one request at a time *)

\* What a request found of an account is still so.
OwnerReq(r) ==
  /\ r.at = "otp_save" => r.who = Find(r.id)
  /\ r.at = "phone_read" => Find(r.id) = None \/ proved[Find(r.id)] = "code"
  /\ r.at = "phone_save" => proved[r.who] = "code" /\ r.row = [account[r.who] EXCEPT !.verified = TRUE]

OwnerInv == serial => Owned /\ \A h \in Handlers : OwnerReq(req[h])

OwnerPoints == {"otp_save", "phone_read", "phone_save"}

LEMMA NoOwnerReqs ==
  ASSUME \A g \in Handlers : req'[g].at \notin OwnerPoints
  PROVE  \A g \in Handlers : OwnerReq(req[g])'
  BY DEF OwnerReq, OwnerPoints

LEMMA OwnerMover ==
  ASSUME TypeInv, serial, NEW h \in Handlers, NEW r, MovesTo(h, r), OwnerReq(req[h])'
  PROVE  \A g \in Handlers : OwnerReq(req[g])'
<1>1. \A g \in Handlers \ {h} : req'[g] = Idle
  BY OthersIdle
<1>2. \A g \in Handlers \ {h} : OwnerReq(req[g])'
  BY <1>1 DEF OwnerReq, Idle
<1>3. QED
  BY <1>2

LEMMA OwnerTurn ==
  ASSUME TypeInv, serial, NEW h \in Handlers, NEW r, MovesTo(h, r), r.at \notin OwnerPoints
  PROVE  \A g \in Handlers : OwnerReq(req[g])'
<1>1. \A g \in Handlers : req'[g].at \notin OwnerPoints
  BY OthersIdle DEF Idle, OwnerPoints
<1>2. QED
  BY <1>1, NoOwnerReqs

LEMMA PlainKeepsOwner ==
  ASSUME TypeInv, OwnerInv, serial, PlainStep
  PROVE  \A g \in Handlers : OwnerReq(req[g])'
<1>1. CASE AtOnce
  BY <1>1, NoOwnerReqs DEF AtOnce, Quiet, Idle, OwnerPoints, reqVars
<1>2. CASE UNCHANGED <<reqVars, accountVars>>
  BY <1>2 DEF OwnerInv, OwnerReq, Find, Exists, reqVars, accountVars
<1>3. CASE TurnsTo(PlainPoints)
  BY <1>3, PlainReqs, NoOwnerReqs DEF PlainPoints, OwnerPoints
<1>4. QED
  BY <1>1, <1>2, <1>3 DEF PlainStep

LEMMA OtpKeepsOwner ==
  ASSUME TypeInv, OwnerInv, serial, NEW h \in Handlers, OtpStep(h)
  PROVE  \A g \in Handlers : OwnerReq(req[g])'
<1>0. account' = account
  BY DEF OtpStep, GenerateCheck, GenerateExpire, GenerateInsert, VerifyRead, VerifySave, accountVars
<1>1. req[h].at # "idle"
  BY DEF OtpStep, GenerateCheck, GenerateExpire, GenerateInsert, VerifyRead, VerifySave, At
<1>2. CASE Done(h)
  BY <1>1, <1>2, GotoMoves, OwnerTurn DEF Done, Idle, OwnerPoints
<1>3. CASE GenerateCheck(h)
  <2>1. [req[h] EXCEPT !.at = "otp_expire"].at = "otp_expire"
    BY <1>3, Holds DEF GenerateCheck, At, ReqTyped
  <2>2. "otp_expire" \notin OwnerPoints
    BY DEF OwnerPoints
  <2>3. QED
    BY <1>1, <1>2, <1>3, <2>1, <2>2, GotoMoves, OwnerTurn DEF GenerateCheck
<1>4. CASE GenerateExpire(h)
  <2>1. [req[h] EXCEPT !.at = "otp_insert"].at = "otp_insert"
    BY <1>4, Holds DEF GenerateExpire, At, ReqTyped
  <2>2. "otp_insert" \notin OwnerPoints
    BY DEF OwnerPoints
  <2>3. QED
    BY <1>1, <1>4, <2>1, <2>2, GotoMoves, OwnerTurn DEF GenerateExpire
<1>5. CASE VerifyRead(h) /\ ~ Done(h)
  <2> DEFINE a == Find(req[h].id)
             c == Newest(a, req[h].purpose)
             r == [at |-> "otp_save", id |-> req[h].id, who |-> a, purpose |-> req[h].purpose,
                   code |-> c, row |-> Judged(c, req[h].right),
                   ok |-> req[h].right /\ code[c].age # Lapsed]
  <2>1. Goto(h, r)
    BY <1>5 DEF VerifyRead
  <2>2. r.at = "otp_save" /\ r.who = Find(r.id)
    OBVIOUS
  <2> HIDE DEF r
  <2>3. MovesTo(h, r)
    BY <1>1, <2>1, GotoMoves
  <2>4. req'[h] = r
    BY <2>3, MoveKeepsOthers
  <2>5. OwnerReq(req[h])'
    BY <1>0, <2>2, <2>4 DEF OwnerReq, Find, Exists
  <2>6. QED
    BY <2>3, <2>5, OwnerMover
<1>6. CASE VerifySave(h) /\ ~ Done(h)
  <2> DEFINE r == [at |-> "phone_read", id |-> req[h].id]
  <2>1. Goto(h, r) /\ proved' = [proved EXCEPT ![req[h].who] = "code"] /\ req[h].at = "otp_save"
    BY <1>6 DEF VerifySave, At
  <2>2. req[h].who = Find(req[h].id)
    BY <2>1 DEF OwnerInv, OwnerReq
  <2>3. r.at = "phone_read" /\ r.id = req[h].id
    OBVIOUS
  <2> HIDE DEF r
  <2>4. MovesTo(h, r)
    BY <1>1, <2>1, GotoMoves
  <2>5. req'[h] = r
    BY <2>4, MoveKeepsOthers
  <2>6. proved'[Find(req[h].id)] = "code"
    <3>1. req[h].who \in Accounts /\ proved \in [Accounts -> Proofs]
      BY <2>1, Holds DEF ReqTyped, TypeInv, AccountTables, AccountsTypeOK
    <3>2. QED
      BY <2>1, <2>2, <3>1
  <2>7. OwnerReq(req[h])'
    BY <1>0, <2>3, <2>5, <2>6 DEF OwnerReq, Find, Exists
  <2>8. QED
    BY <2>4, <2>7, OwnerMover
<1>7. QED
  BY <1>2, <1>3, <1>4, <1>5, <1>6 DEF OtpStep, GenerateInsert

LEMMA MarkReadKeepsOwner ==
  ASSUME TypeInv, OwnerInv, serial, NEW h \in Handlers, MarkVerifiedRead(h)
  PROVE  \A g \in Handlers : OwnerReq(req[g])'
<1>1. req[h].at = "phone_read" /\ account' = account /\ proved' = proved
  BY DEF MarkVerifiedRead, At, rowVars, accountVars
<1>2. CASE Done(h)
  BY <1>1, <1>2, GotoMoves, OwnerTurn DEF Done, Idle, OwnerPoints
<1>3. CASE ~ Done(h)
  <2> DEFINE a == Find(req[h].id)
             r == [at |-> "phone_save", who |-> a, row |-> [account[a] EXCEPT !.verified = TRUE]]
  <2>1. Goto(h, r) /\ a # None
    BY <1>3 DEF MarkVerifiedRead
  <2>2. proved[a] = "code"
    BY <1>1, <2>1 DEF OwnerInv, OwnerReq
  <2>3. r.at = "phone_save" /\ r.who = a /\ r.row = [account[a] EXCEPT !.verified = TRUE]
    OBVIOUS
  <2> HIDE DEF r
  <2>4. MovesTo(h, r)
    BY <1>1, <2>1, GotoMoves
  <2>5. req'[h] = r
    BY <2>4, MoveKeepsOthers
  <2> HIDE DEF a
  <2>6. OwnerReq(req[h])'
    BY <1>1, <2>2, <2>3, <2>5 DEF OwnerReq
  <2>7. QED
    BY <2>4, <2>6, OwnerMover
<1>4. QED
  BY <1>2, <1>3

\* The row that is saved is the one in the table, verified: its account was just proved.
LEMMA MarkKeepsOwner ==
  ASSUME TypeInv, OwnerInv, serial, NEW h \in Handlers, MarkVerified(h)
  PROVE  Owned' /\ \A g \in Handlers : OwnerReq(req[g])'
<1> DEFINE a == req[h].who
<1>1. /\ req[h].at = "phone_save" /\ Goto(h, [at |-> "member", who |-> a])
      /\ account' = [account EXCEPT ![a] = req[h].row] /\ UNCHANGED <<asked, proved>>
  BY DEF MarkVerified, At
<1>2. a \in Accounts /\ Exists(a) /\ account[a] \in Account
  BY <1>1, Holds, RowOf DEF ReqTyped, Exists, TypeInv
<1>3. proved[a] = "code" /\ req[h].row = [account[a] EXCEPT !.verified = TRUE]
  BY <1>1 DEF OwnerInv, OwnerReq
<1>4. Asked(req[h].row) = Asked(account[a]) /\ req[h].row.verified /\ req[h].row.role = account[a].role
      /\ req[h].row \in Account
  BY <1>2, <1>3 DEF Account, Asked
<1>5. OwnedStays
  <2>1. Written(a, req[h].row)
    BY <1>1 DEF Written, TypeInv, AccountTables, AccountsTypeOK
  <2>2. Owned => Agrees(a, req[h].row)
    BY <1>1, <1>2, <1>3, <1>4 DEF Owned, Agrees
  <2>3. QED
    BY <1>2, <1>4, <2>1, <2>2, WriteKeepsOwned DEF TypeInv
<1>6. \A g \in Handlers : OwnerReq(req[g])'
  BY <1>1, GotoMoves, OwnerTurn DEF OwnerPoints
<1>7. QED
  BY <1>5, <1>6 DEF OwnedStays, OwnerInv

LEMMA OtherKeepsOwner ==
  ASSUME TypeInv, OwnerInv, serial,
         \/ \E h \in Handlers :
              \/ CreateSession(h) \/ RotateRefreshToken(h)
              \/ \E s \in Sessions : RefreshRead(h, s)
              \/ \E a \in Accounts : DeleteAccount(h, a)
         \/ \E s \in Sessions : Logout(s)
         \/ \E c \in Codes : CodeAges(c)
  PROVE  \A g \in Handlers : OwnerReq(req[g])'
<1>1. ASSUME NEW h \in Handlers, CreateSession(h) \/ RotateRefreshToken(h)
      PROVE  \A g \in Handlers : OwnerReq(req[g])'
  BY <1>1, GotoMoves, OwnerTurn DEF CreateSession, RotateRefreshToken, At, Done, Idle, OwnerPoints
<1>2. ASSUME NEW h \in Handlers, NEW s \in Sessions, RefreshRead(h, s)
      PROVE  \A g \in Handlers : OwnerReq(req[g])'
  BY <1>2, BeginMoves, OwnerTurn DEF RefreshRead, OwnerPoints
<1>3. ASSUME NEW h \in Handlers, NEW a \in Accounts, DeleteAccount(h, a)
      PROVE  \A g \in Handlers : OwnerReq(req[g])'
  BY <1>3, BeginMoves, OwnerTurn DEF DeleteAccount, OwnerPoints
<1>4. ASSUME NEW s \in Sessions, Logout(s) PROVE \A g \in Handlers : OwnerReq(req[g])'
  BY <1>4, NoOwnerReqs DEF Logout, AtOnce, Quiet, Idle, OwnerPoints, reqVars
<1>5. ASSUME NEW c \in Codes, CodeAges(c) PROVE \A g \in Handlers : OwnerReq(req[g])'
  BY <1>5 DEF CodeAges, OwnerInv, OwnerReq, Find, Exists, reqVars, accountVars
<1>6. QED
  BY <1>1, <1>2, <1>3, <1>4, <1>5

LEMMA OwnerInvStays ==
  ASSUME TypeInv, OwnerInv, [IdentityNext]_identityVars PROVE OwnerInv'
<1>1. CASE ~ serial
  BY <1>1, SerialStays DEF OwnerInv
<1>2. CASE serial /\ \E h \in Handlers : MarkVerified(h)
  BY <1>2, MarkKeepsOwner DEF OwnerInv
<1>3. CASE serial /\ ~ \E h \in Handlers : MarkVerified(h)
  <2>1. Owned'
    BY <1>3, StepTyped DEF OwnedStays, OwnerInv
  <2>2. CASE PlainStep
    BY <1>3, <2>1, <2>2, PlainKeepsOwner DEF OwnerInv
  <2>3. CASE SpecialStep
    BY <1>3, <2>1, <2>3, OtpKeepsOwner, MarkReadKeepsOwner, OtherKeepsOwner DEF OwnerInv, SpecialStep
  <2>4. QED
    BY <2>2, <2>3, StepKinds
<1>4. QED
  BY <1>1, <1>2, <1>3

LEMMA IdentityOwners == IdentitySpec => []OwnerInv
<1>1. IdentityInit => OwnerInv
  BY DEF IdentityInit, AccountsInit, RequestsInit, Idle, OwnerInv, Owned, Exists, OwnerReq
<1>2. TypeInv /\ OwnerInv /\ [IdentityNext]_identityVars => OwnerInv'
  BY OwnerInvStays
<1>3. QED
  BY <1>1, <1>2, IdentityTyped, PTL DEF IdentitySpec

\* One request at a time, an account shows the contact data and the password last asked for.
THEOREM OwnersKeepTheirData == IdentitySpec => []OwnerDataKept
<1>1. OwnerInv => OwnerDataKept
  BY DEF OwnerInv, Owned, OwnerDataKept
<1>2. QED
  BY <1>1, IdentityOwners, PTL

\* One request at a time, a phone that counts as verified was proved since it was set, or was
\* given its mark: by a row made verified, or as the new number of a row that was.
THEOREM VerifiedPhonesAreProved == IdentitySpec => []VerifiedIsProved
<1>1. OwnerInv => VerifiedIsProved
  BY DEF OwnerInv, Owned, VerifiedIsProved
<1>2. QED
  BY <1>1, IdentityOwners, PTL

-----------------------------------------------------------------------------
(* Who may act for an office, and what an office shows *)


\* A row under which an office account is served
Open(row) == row.role = "OFFICE" /\ LetsIn(row.status)

\* An employee with an account
StaffOf(e) == employee[e] # None /\ employee[e].account # None

AccessPoints == {"phone_save", "verified", "toggle"}

\* A request that will set a status sets none that lets in an account nobody let in.
LetInReq(r) ==
  /\ r.at = "phone_save" /\ Open(r.row) => r.who \in letIn
  /\ r.at = "verified" /\ LetsIn(r.status) /\ account[r.who].role = "OFFICE" => r.who \in letIn
  /\ r.at = "toggle" => r.status \in {"ACTIVE", "BLOCKED"}

LetInInv ==
  /\ \A a \in Accounts : Exists(a) /\ Open(account[a]) => a \in letIn
  /\ \A e \in Employees : StaffOf(e) => employee[e].account \in letIn
  /\ \A h \in Handlers : LetInReq(req[h])

\* An account belongs to one employee at most, and not to an office too.
OneEmployer ==
  /\ \A e, f \in Employees : StaffOf(e) /\ StaffOf(f) /\ employee[e].account = employee[f].account => e = f
  /\ \A e \in Employees : StaffOf(e) => ~ IsOffice(employee[e].account)

\* One request at a time, what will be decided of an account agrees with what was.
ClearedReq(r) ==
  /\ r.at = "verified" /\ LetsIn(r.status) /\ account[r.who].role = "OFFICE" => r.who \in cleared
  /\ r.at = "toggle" => \A e \in Employees : StaffOf(e) => employee[e].account # r.who

BeingCleared(e) == \E h \in Handlers : req[h].at = "clear_employee" /\ req[h].row = e

ClearedInv ==
  /\ OneEmployer
  /\ serial /\ ~dropped =>
       /\ \A a \in Accounts : Exists(a) /\ Open(account[a]) => a \in cleared
       /\ \A e \in Employees : StaffOf(e) => employee[e].account \in cleared \/ BeingCleared(e)
       /\ \A h \in Handlers : ClearedReq(req[h])

LEMMA StaffAccount ==
  ASSUME TypeInv, NEW e \in Employees, StaffOf(e)
  PROVE  employee[e].account \in Accounts /\ HasRole(employee[e].account, "OFFICE")
  BY DEF TypeInv, OfficesTypeOK, OfficeAccounts, StaffOf, Employee

-----------------------------------------------------------------------------
(* Steps that open no account *)

OpensNothing ==
  /\ AccountGrown
  /\ \A a \in Accounts : account'[a] # None /\ Open(account'[a]) => account[a] # None /\ Open(account[a])

\* No office or employee comes up but with a new account.
NoNewStaff ==
  /\ \A e \in Employees : StaffOf(e)' => StaffOf(e) /\ employee'[e].account = employee[e].account
  /\ \A o \in Accounts : office'[o] # None => IsOffice(o) \/ ~ Exists(o)

\* The request that moves, if any, sets no status.
AccessTurn ==
  \/ UNCHANGED reqVars
  \/ \E h \in Handlers : \E r :
       /\ MovesTo(h, r) /\ dropped' = dropped
       /\ req[h].at # "clear_employee" /\ r.at \notin AccessPoints

CalmStep == OpensNothing /\ NoNewStaff /\ UNCHANGED <<letIn, cleared>> /\ AccessTurn

LEMMA WriteOpens ==
  ASSUME AccountTables, NEW a \in Accounts, NEW row, account' = [account EXCEPT ![a] = row],
         Open(row) => Exists(a) /\ Open(account[a]), AccountGrown
  PROVE  OpensNothing
  BY DEF AccountTables, AccountsTypeOK, OpensNothing, Exists

\* Every write of a row keeps the role of an account that has one.
LEMMA RolesKept ==
  ASSUME AccountTables, NEW a \in Accounts, NEW row, account' = [account EXCEPT ![a] = row],
         Exists(a) => row # None /\ row.role = account[a].role
  PROVE  /\ AccountGrown
         /\ account'[a] = row
         /\ \A b \in Accounts \ {a} : account'[b] = account[b]
  BY DEF AccountTables, AccountsTypeOK, AccountGrown, Exists

LEMMA NothingOpens == ASSUME account' = account PROVE OpensNothing
  BY DEF OpensNothing, AccountGrown

\* Requests that stay as they are, or are not at the points that set a status, stay good.
LEMMA LetInReqStays ==
  ASSUME TypeInv, LetInInv, AccountGrown, letIn \subseteq letIn', NEW g \in Handlers,
         req'[g] = req[g] \/ req'[g].at \notin AccessPoints
  PROVE  LetInReq(req[g])'
<1>1. CASE req'[g].at \notin AccessPoints
  BY <1>1 DEF LetInReq, AccessPoints
<1>2. CASE req'[g] = req[g]
  <2>1. LetInReq(req[g])
    BY DEF LetInInv
  <2>2. req[g].at = "verified" => account'[req[g].who].role = account[req[g].who].role
    BY Holds DEF ReqTyped, AccountGrown
  <2>3. QED
    BY <1>2, <2>1, <2>2 DEF LetInReq, Open
<1>3. QED
  BY <1>1, <1>2

LEMMA CalmLetIn ==
  ASSUME TypeInv, LetInInv, CalmStep PROVE LetInInv'
<1>1. \A a \in Accounts : account'[a] # None /\ Open(account'[a]) => a \in letIn'
  BY DEF CalmStep, OpensNothing, LetInInv, Exists
<1>2. \A e \in Employees : StaffOf(e)' => employee'[e].account \in letIn'
  BY DEF CalmStep, NoNewStaff, LetInInv
<1>3. ASSUME NEW g \in Handlers PROVE LetInReq(req[g])'
  <2>1. req'[g] = req[g] \/ req'[g].at \notin AccessPoints
    BY MoveKeepsOthers DEF CalmStep, AccessTurn, reqVars
  <2>2. QED
    BY <2>1, LetInReqStays DEF CalmStep, OpensNothing
<1>4. QED
  BY <1>1, <1>2, <1>3 DEF LetInInv, Exists, Open

LEMMA CalmOneEmployer ==
  ASSUME TypeInv, OneEmployer, NoNewStaff PROVE OneEmployer'
<1>1. \A e, f \in Employees :
        StaffOf(e)' /\ StaffOf(f)' /\ employee'[e].account = employee'[f].account => e = f
  BY DEF OneEmployer, NoNewStaff
<1>2. ASSUME NEW e \in Employees, StaffOf(e)' PROVE office'[employee'[e].account] = None
  <2>1. StaffOf(e) /\ employee'[e].account = employee[e].account
    BY <1>2 DEF NoNewStaff
  <2>2. employee[e].account \in Accounts /\ Exists(employee[e].account) /\ ~ IsOffice(employee[e].account)
    BY <2>1, StaffAccount DEF OneEmployer, HasRole
  <2>3. QED
    BY <2>1, <2>2 DEF NoNewStaff
<1>3. QED
  BY <1>1, <1>2 DEF OneEmployer, IsOffice

LEMMA CalmCleared ==
  ASSUME TypeInv, ClearedInv, CalmStep PROVE ClearedInv'
<1>1. OneEmployer'
  BY CalmOneEmployer DEF CalmStep, ClearedInv
<1>2. CASE ~ (serial /\ ~dropped)
  BY <1>1, <1>2 DEF ClearedInv, CalmStep, AccessTurn, MovesTo, reqVars
<1>3. CASE serial /\ ~dropped
  <2>1. \A a \in Accounts : account'[a] # None /\ Open(account'[a]) => a \in cleared'
    BY <1>3 DEF CalmStep, OpensNothing, ClearedInv, Exists
  <2>2. ASSUME NEW g \in Handlers
        PROVE  /\ req'[g] = req[g] \/ req'[g].at \notin AccessPoints
               /\ req[g].at = "clear_employee" => req'[g] = req[g]
    BY MoveKeepsOthers DEF CalmStep, AccessTurn, reqVars
  <2>3. \A e \in Employees : BeingCleared(e) => BeingCleared(e)'
    BY <2>2 DEF BeingCleared
  <2>4. ASSUME NEW e \in Employees, StaffOf(e)' PROVE employee'[e].account \in cleared' \/ BeingCleared(e)'
    BY <1>3, <2>3, <2>4 DEF CalmStep, NoNewStaff, ClearedInv
  <2>5. ASSUME NEW g \in Handlers PROVE ClearedReq(req[g])'
    <3>1. CASE req'[g].at \notin AccessPoints
      BY <3>1 DEF ClearedReq, AccessPoints
    <3>2. CASE req'[g] = req[g]
      <4>1. ClearedReq(req[g])
        BY <1>3 DEF ClearedInv
      <4>2. req[g].at = "verified" => account'[req[g].who].role = account[req[g].who].role
        BY Holds DEF ReqTyped, AccountGrown, CalmStep, OpensNothing
      <4>3. \A e \in Employees : StaffOf(e)' => StaffOf(e) /\ employee'[e].account = employee[e].account
        BY DEF CalmStep, NoNewStaff
      <4>4. cleared' = cleared
        BY DEF CalmStep
      <4>5. QED
        BY <3>2, <4>1, <4>2, <4>3, <4>4 DEF ClearedReq
    <3>3. QED
      BY <2>2, <3>1, <3>2
  <2>6. QED
    BY <1>1, <2>1, <2>4, <2>5 DEF ClearedInv, Exists, Open
<1>4. QED
  BY <1>2, <1>3

-----------------------------------------------------------------------------
(* The steps that open no account *)

LEMMA AccessBegun ==
  ASSUME NEW h \in Handlers, NEW r, Begin(h, r), r.at \notin AccessPoints PROVE AccessTurn
<1>1. MovesTo(h, r)
  BY BeginMoves
<1>2. req[h].at # "clear_employee" /\ dropped' = dropped
  BY DEF Begin, Idle
<1>3. QED
  BY <1>1, <1>2 DEF AccessTurn

LEMMA AccessGone ==
  ASSUME TypeInv, NEW h \in Handlers, req[h].at \notin {"idle", "clear_employee"}, NEW r, Goto(h, r),
         r.at \notin AccessPoints
  PROVE  AccessTurn
<1>1. MovesTo(h, r) /\ dropped' = dropped
  BY GotoMoves DEF Goto
<1>2. QED
  BY <1>1 DEF AccessTurn

LEMMA AccessDone ==
  ASSUME TypeInv, NEW h \in Handlers, req[h].at \notin {"idle", "clear_employee"}, Done(h)
  PROVE  AccessTurn
  BY AccessGone DEF Done, Idle, AccessPoints

LEMMA AccessStayed == ASSUME UNCHANGED reqVars PROVE AccessTurn
  BY DEF AccessTurn

LEMMA NothingNew ==
  ASSUME UNCHANGED officeVars PROVE NoNewStaff /\ UNCHANGED <<letIn, cleared>>
  BY DEF NoNewStaff, StaffOf, IsOffice, officeVars

LEMMA CalmRows ==
  ASSUME UNCHANGED <<account, officeVars>>, AccessTurn PROVE CalmStep
  BY NothingNew, NothingOpens DEF CalmStep

LEMMA CalmWrite ==
  ASSUME OpensNothing, UNCHANGED officeVars, AccessTurn PROVE CalmStep
  BY NothingNew DEF CalmStep

LEMMA CreateOpens ==
  ASSUME AccountTables, NEW a \in Accounts, NEW row, Create(a, row), ~ Open(row) PROVE OpensNothing
<1>1. ~ Exists(a) /\ account' = [account EXCEPT ![a] = row]
  BY DEF Create
<1>2. QED
  BY <1>1, RolesKept, WriteOpens

LEMMA SetPasswordOpens ==
  ASSUME AccountTables, NEW a \in Accounts, Exists(a), NEW w \in Passwords, SetPassword(a, w) PROVE OpensNothing
<1> DEFINE row == [account[a] EXCEPT !.password = w]
<1>1. row.role = account[a].role /\ row.status = account[a].status
  BY RowOf DEF Account
<1>2. account' = [account EXCEPT ![a] = row]
  BY DEF SetPassword
<1>3. AccountGrown
  BY SetPasswordKeeps DEF AccountsKept
<1> HIDE DEF row
<1>4. QED
  BY <1>1, <1>2, <1>3, WriteOpens DEF Open

LEMMA SetEmailOpens ==
  ASSUME AccountTables, NEW a \in Accounts, Exists(a), NEW e \in Emails, SetEmail(a, e) PROVE OpensNothing
<1>1. CASE UNCHANGED accountVars
  BY <1>1, NothingOpens DEF accountVars
<1>2. CASE ~ EmailTaken(e)
  <2> DEFINE row == [account[a] EXCEPT !.email = e]
  <2>1. row.role = account[a].role /\ row.status = account[a].status
    BY RowOf DEF Account
  <2>2. account' = [account EXCEPT ![a] = row]
    BY <1>2 DEF SetEmail
  <2>3. AccountGrown
    BY SetEmailKeeps DEF AccountsKept
  <2> HIDE DEF row
  <2>4. QED
    BY <2>1, <2>2, <2>3, WriteOpens DEF Open
<1>3. QED
  BY <1>1, <1>2 DEF SetEmail

LEMMA SetPhoneOpens ==
  ASSUME AccountTables, NEW a \in Accounts, Exists(a), NEW p \in Phones, SetPhone(a, p) PROVE OpensNothing
<1> DEFINE row == [account[a] EXCEPT !.phone = p, !.verified = FALSE, !.status = "PENDING_OTP"]
<1>1. row.status = "PENDING_OTP"
  BY RowOf DEF Account
<1>2. account' = [account EXCEPT ![a] = row]
  BY DEF SetPhone
<1>3. AccountGrown
  BY SetPhoneKeeps DEF AccountsKept
<1> HIDE DEF row
<1>4. QED
  BY <1>1, <1>2, <1>3, WriteOpens DEF Open, LetsIn

LEMMA SoftDeleteOpens ==
  ASSUME AccountTables, NEW a \in Accounts, Exists(a), SoftDelete(a) PROVE OpensNothing
<1>1. AccountGrown
  BY SoftDeleteKeeps DEF AccountsKept
<1>2. account' = [account EXCEPT ![a] = SoftDeleted(a)] /\ ~ Open(SoftDeleted(a))
  BY SoftDeletedRow DEF SoftDelete, Open, LetsIn
<1>3. QED
  BY <1>1, <1>2, WriteOpens

\* A status is set that opens nothing, or on an account that is not of an office.
LEMMA SetStatusOpens ==
  ASSUME AccountTables, NEW a \in Accounts, Exists(a), NEW s \in AccountStatus, SetStatus(a, s),
         account[a].role = "OFFICE" => ~ LetsIn(s)
  PROVE  OpensNothing
<1> DEFINE row == [account[a] EXCEPT !.status = s]
<1>1. row.role = account[a].role /\ row.status = s
  BY RowOf DEF Account
<1>2. account' = [account EXCEPT ![a] = row]
  BY DEF SetStatus
<1>3. AccountGrown
  BY SetStatusKeeps DEF AccountsKept
<1> HIDE DEF row
<1>4. QED
  BY <1>1, <1>2, <1>3, WriteOpens DEF Open

LEMMA AdminCalm ==
  ASSUME TypeInv, AdminNext, UNCHANGED <<officeVars, otpVars, authVars>>
  PROVE  \/ CalmStep
         \/ \E h \in Handlers, a \in Accounts : ~HasRole(a, "OFFICE") /\ ToggleRead(h, a)
<1>1. ASSUME NEW a \in Accounts, NEW e \in Emails, NEW p \in Phones, NEW w \in Passwords,
             NEW r \in AdminRoles, CreateAdminAccount(a, e, p, w, r)
      PROVE  CalmStep
  <2> DEFINE row == [NewAccount("ADMIN", e, p, w) EXCEPT !.status = "ACTIVE", !.verified = TRUE,
                                                         !.adminRole = r]
  <2>1. row.role = "ADMIN"
    BY DEF NewAccount
  <2>2. Create(a, row) /\ UNCHANGED reqVars
    BY <1>1 DEF CreateAdminAccount, AtOnce
  <2> HIDE DEF row
  <2>3. QED
    BY <2>1, <2>2, CreateOpens, AccessStayed, CalmWrite DEF TypeInv, Open
<1>2. ASSUME NEW a \in Accounts, NEW e \in Emails, NEW p \in Phones, NEW w \in Passwords,
             NEW r \in AdminRoles, UpdateAdminEmployee(a, e, p, w, r)
      PROVE  CalmStep
  <2> DEFINE row == [account[a] EXCEPT !.email = e, !.phone = p, !.password = w, !.adminRole = r]
  <2>1. account[a] \in Account /\ account[a].role = "ADMIN"
    BY <1>2, RowOf DEF UpdateAdminEmployee, HasRole, TypeInv
  <2>2. row \in Account /\ row.role = "ADMIN"
    BY <2>1 DEF Account
  <2>3. account' = [account EXCEPT ![a] = row] /\ UNCHANGED reqVars
    BY <1>2 DEF UpdateAdminEmployee, AtOnce
  <2> HIDE DEF row
  <2>4. AccountGrown
    BY <2>1, <2>2, <2>3, RolesKept, NoneIsNoAccountRow DEF TypeInv
  <2>5. QED
    BY <2>2, <2>3, <2>4, WriteOpens, AccessStayed, CalmWrite DEF TypeInv, Open
<1>3. ASSUME NEW a \in Accounts, NEW e \in Emails, NEW p \in Phones, NEW s \in AccountStatus,
             UpdateUser(a, e, p, s)
      PROVE  CalmStep
  <2> DEFINE row == [account[a] EXCEPT !.email = e, !.phone = p, !.status = s]
  <2>1. account[a] \in Account /\ account[a].role = "USER"
    BY <1>3, RowOf DEF UpdateUser, HasRole, TypeInv
  <2>2. row \in Account /\ row.role = "USER"
    BY <2>1 DEF Account
  <2>3. account' = [account EXCEPT ![a] = row] /\ UNCHANGED reqVars
    BY <1>3 DEF UpdateUser, AtOnce
  <2> HIDE DEF row
  <2>4. AccountGrown
    BY <2>1, <2>2, <2>3, RolesKept, NoneIsNoAccountRow DEF TypeInv
  <2>5. QED
    BY <2>2, <2>3, <2>4, WriteOpens, AccessStayed, CalmWrite DEF TypeInv, Open
<1>4. ASSUME NEW a \in Accounts, DeleteAdminEmployee(a) \/ DeleteUser(a) PROVE CalmStep
  BY <1>4, SoftDeleteOpens, AccessStayed, CalmWrite
     DEF DeleteAdminEmployee, DeleteUser, HasRole, AtOnce, TypeInv
<1>5. ASSUME NEW h \in Handlers, ToggleSave(h), ~ HasRole(req[h].who, "OFFICE") PROVE CalmStep
  <2>1. req[h].at = "toggle" /\ Done(h)
    BY <1>5 DEF ToggleSave, At
  <2>2. req[h].who \in Accounts /\ Exists(req[h].who) /\ SetStatus(req[h].who, req[h].status)
        /\ req[h].status \in AccountStatus
    BY <1>5, ToggleSaveKeeps
  <2>3. account[req[h].who].role # "OFFICE"
    BY <1>5, <2>2 DEF HasRole
  <2>4. QED
    BY <2>1, <2>2, <2>3, SetStatusOpens, AccessDone, CalmWrite DEF TypeInv
<1>6. QED
  BY <1>1, <1>2, <1>3, <1>4, <1>5 DEF AdminNext, AdminEdits

LEMMA RequestCalm ==
  ASSUME TypeInv, NEW h \in Handlers, AuthRequest(h) PROVE CalmStep
<1>1. UNCHANGED <<account, officeVars>>
  BY DEF AuthRequest, RequestCode, EnterCode, UpdatePasswordRead, UpdateEmailRead, ChangePhoneRead, Login,
         RefreshRead, DeleteAccount, rowVars, accountVars
<1>2. AccessTurn
  <2>1. ASSUME NEW id \in Identifiers, NEW p \in Purposes, RequestCode(h, id, p) PROVE AccessTurn
    BY <2>1, AccessBegun DEF RequestCode, AccessPoints
  <2>2. ASSUME NEW id \in Identifiers, NEW p \in Purposes, NEW right \in BOOLEAN, EnterCode(h, id, p, right)
        PROVE  AccessTurn
    BY <2>2, AccessBegun DEF EnterCode, AccessPoints
  <2>3. ASSUME NEW a \in Accounts, NEW w \in Passwords, UpdatePasswordRead(h, a, w) PROVE AccessTurn
    BY <2>3, AccessBegun DEF UpdatePasswordRead, AccessPoints
  <2>4. ASSUME NEW a \in Accounts, NEW e \in Emails, UpdateEmailRead(h, a, e) PROVE AccessTurn
    BY <2>4, AccessBegun DEF UpdateEmailRead, AccessPoints
  <2>5. ASSUME NEW a \in Accounts, NEW p \in Phones, ChangePhoneRead(h, a, p) PROVE AccessTurn
    BY <2>5, AccessBegun DEF ChangePhoneRead, AccessPoints
  <2>6. ASSUME NEW id \in Identifiers, Login(h, id) PROVE AccessTurn
    BY <2>6, AccessBegun DEF Login, AccessPoints
  <2>7. ASSUME NEW s \in Sessions, RefreshRead(h, s) PROVE AccessTurn
    BY <2>7, AccessBegun DEF RefreshRead, AccessPoints
  <2>8. ASSUME NEW a \in Accounts, DeleteAccount(h, a) PROVE AccessTurn
    BY <2>8, AccessBegun DEF DeleteAccount, AccessPoints
  <2>9. QED
    BY <2>1, <2>2, <2>3, <2>4, <2>5, <2>6, <2>7, <2>8 DEF AuthRequest
<1>3. QED
  BY <1>1, <1>2, CalmRows

LEMMA OtpCalm ==
  ASSUME TypeInv, NEW h \in Handlers, OtpStep(h), UNCHANGED <<officeVars, authVars>> PROVE CalmStep
<1>1. UNCHANGED <<account, officeVars>>
  BY DEF OtpStep, GenerateCheck, GenerateExpire, GenerateInsert, VerifyRead, VerifySave, accountVars
<1>2. req[h].at \in {"otp_check", "otp_expire", "otp_insert", "otp_read", "otp_save"}
  BY DEF OtpStep, GenerateCheck, GenerateExpire, GenerateInsert, VerifyRead, VerifySave, At
<1>3. AccessTurn
  <2>1. CASE Done(h)
    BY <1>2, <2>1, AccessDone
  <2>2. CASE GenerateCheck(h) /\ ~ Done(h)
    <3>1. [req[h] EXCEPT !.at = "otp_expire"].at = "otp_expire"
      BY <2>2, Holds DEF GenerateCheck, At, ReqTyped
    <3>2. [req[h] EXCEPT !.at = "otp_expire"].at \notin AccessPoints
      BY <3>1 DEF AccessPoints
    <3>3. QED
      BY <1>2, <2>2, <3>2, AccessGone DEF GenerateCheck
  <2>3. CASE GenerateExpire(h)
    <3>1. [req[h] EXCEPT !.at = "otp_insert"].at = "otp_insert"
      BY <2>3, Holds DEF GenerateExpire, At, ReqTyped
    <3>2. [req[h] EXCEPT !.at = "otp_insert"].at \notin AccessPoints
      BY <3>1 DEF AccessPoints
    <3>3. QED
      BY <1>2, <2>3, <3>2, AccessGone DEF GenerateExpire
  <2>4. CASE VerifyRead(h) /\ ~ Done(h)
    BY <1>2, <2>4, AccessGone DEF VerifyRead, AccessPoints
  <2>5. CASE VerifySave(h) /\ ~ Done(h)
    BY <1>2, <2>5, AccessGone DEF VerifySave, AccessPoints
  <2>6. QED
    BY <2>1, <2>2, <2>3, <2>4, <2>5 DEF OtpStep, GenerateInsert
<1>4. QED
  BY <1>1, <1>3, CalmRows

\* Register makes an account that waits for its code.
LEMMA RegisterCalm ==
  ASSUME TypeInv, NEW h \in Handlers, NEW a \in Accounts, NEW role \in {"USER", "OFFICE"}, NEW e \in Emails,
         NEW p \in Phones, NEW w \in Passwords, NEW n \in Names, Register(h, a, role, e, p, w, n)
  PROVE  CalmStep
<1> DEFINE row == NewAccount(role, e, p, w)
<1>1. ~ Open(row)
  BY DEF NewAccount, Open, LetsIn
<1>2. Create(a, row) /\ ~ Exists(a)
  BY DEF Register, Create
<1> HIDE DEF row
<1>3. OpensNothing
  BY <1>1, <1>2, CreateOpens DEF TypeInv
<1>4. AccessTurn
  BY AccessBegun DEF Register, AccessPoints
<1>5. UNCHANGED <<employee, letIn, cleared>> /\ (UNCHANGED office \/ SetOffice(a, NewOffice(n)))
  BY DEF Register
<1>6. NoNewStaff
  BY <1>2, <1>5 DEF NoNewStaff, StaffOf, SetOffice, IsOffice, TypeInv, OfficesTypeOK
<1>7. QED
  BY <1>3, <1>4, <1>5, <1>6 DEF CalmStep

LEMMA PasswordCalm ==
  ASSUME TypeInv, \/ \E h \in Handlers : UpdatePassword(h)
                  \/ \E a \in Accounts, w \in Passwords : ResetPassword(a, w)
  PROVE  CalmStep
<1>1. ASSUME NEW h \in Handlers, UpdatePassword(h) PROVE CalmStep
  <2>1. req[h].at = "password" /\ Done(h) /\ SetPassword(req[h].who, req[h].password) /\ UNCHANGED officeVars
    BY <1>1 DEF UpdatePassword, At
  <2>2. req[h].who \in Accounts /\ Exists(req[h].who) /\ req[h].password \in Passwords
    BY <2>1, Holds DEF ReqTyped, Exists
  <2>3. OpensNothing
    BY <2>1, <2>2, SetPasswordOpens DEF TypeInv
  <2>4. QED
    BY <2>1, <2>3, AccessDone, CalmWrite
<1>2. ASSUME NEW a \in Accounts, NEW w \in Passwords, ResetPassword(a, w) PROVE CalmStep
  <2>1. Exists(a)
    BY <1>2 DEF ResetPassword, TypeInv, ResetTokens
  <2>2. QED
    BY <1>2, <2>1, SetPasswordOpens, AccessStayed, CalmWrite DEF ResetPassword, AtOnce, TypeInv
<1>3. QED
  BY <1>1, <1>2

LEMMA ContactCalm ==
  ASSUME TypeInv, NEW h \in Handlers, UpdateEmail(h) \/ ChangePhone(h) \/ DeleteAccountRow(h)
  PROVE  CalmStep
<1>1. UNCHANGED officeVars /\ req[h].at \in {"email", "phone", "delete"}
  BY DEF UpdateEmail, ChangePhone, DeleteAccountRow, At
<1>2. /\ req[h].who \in Accounts /\ Exists(req[h].who)
      /\ req[h].at = "email" => req[h].email \in Emails
      /\ req[h].at = "phone" => req[h].phone \in Phones
  BY <1>1, Holds DEF ReqTyped, Exists
<1>3. OpensNothing
  <2>1. CASE UNCHANGED accountVars
    BY <2>1, NothingOpens DEF accountVars
  <2>2. CASE UpdateEmail(h)
    BY <1>2, <2>2, SetEmailOpens DEF UpdateEmail, At, TypeInv
  <2>3. CASE ChangePhone(h) /\ ~ UNCHANGED accountVars
    BY <1>2, <2>3, SetPhoneOpens DEF ChangePhone, At, TypeInv
  <2>4. CASE DeleteAccountRow(h)
    BY <1>2, <2>4, SoftDeleteOpens DEF DeleteAccountRow, At, TypeInv
  <2>5. QED
    BY <2>1, <2>2, <2>3, <2>4
<1>4. AccessTurn
  <2>1. CASE Done(h)
    BY <1>1, <2>1, AccessDone
  <2>2. CASE Goto(h, [at |-> "otp_check", who |-> req[h].who, purpose |-> "PHONE_VERIFICATION"])
    BY <1>1, <2>2, AccessGone DEF AccessPoints
  <2>3. QED
    BY <2>1, <2>2 DEF UpdateEmail, ChangePhone, DeleteAccountRow
<1>5. QED
  BY <1>1, <1>3, <1>4, CalmWrite

LEMMA SessionsCalm ==
  ASSUME TypeInv,
         \/ \E h \in Handlers : CreateSession(h) \/ RotateRefreshToken(h) \/ TrialDone(h)
         \/ \E s \in Sessions : Logout(s)
         \/ \E c \in Codes : CodeAges(c) /\ UNCHANGED officeVars
         \/ \E a \in Accounts : ResetTokenExpires(a) /\ UNCHANGED officeVars
         \/ UNCHANGED identityVars
  PROVE  CalmStep
<1>1. UNCHANGED <<account, officeVars>>
  BY DEF CreateSession, RotateRefreshToken, TrialDone, Logout, CodeAges, ResetTokenExpires, identityVars,
         rowVars, accountVars
<1>2. ASSUME NEW h \in Handlers, CreateSession(h) \/ RotateRefreshToken(h) \/ TrialDone(h) PROVE AccessTurn
  BY <1>2, AccessDone DEF CreateSession, RotateRefreshToken, TrialDone, At
<1>3. ASSUME NEW s \in Sessions, Logout(s) PROVE AccessTurn
  BY <1>3, AccessStayed DEF Logout, AtOnce
<1>4. ASSUME NEW c \in Codes, CodeAges(c) PROVE AccessTurn
  BY <1>4, AccessStayed DEF CodeAges
<1>5. ASSUME NEW a \in Accounts, ResetTokenExpires(a) PROVE AccessTurn
  BY <1>5, AccessStayed DEF ResetTokenExpires
<1>6. ASSUME UNCHANGED identityVars PROVE AccessTurn
  BY <1>6, AccessStayed DEF identityVars
<1>7. AccessTurn
  BY <1>2, <1>3, <1>4, <1>5, <1>6
<1>8. QED
  BY <1>1, <1>7, CalmRows

\* Offices are edited and their changes reviewed.
LEMMA SameStaff ==
  ASSUME UNCHANGED <<employee, letIn, cleared>>, \A o \in Accounts : office'[o] # None => IsOffice(o)
  PROVE  NoNewStaff /\ UNCHANGED <<letIn, cleared>>
  BY DEF NoNewStaff, StaffOf

LEMMA EditNoStaff ==
  ASSUME TypeInv, NEW o \in Accounts, IsOffice(o), NEW row, SetOffice(o, row), UNCHANGED <<employee, letIn, cleared>>
  PROVE  NoNewStaff /\ UNCHANGED <<letIn, cleared>>
  BY SameStaff DEF SetOffice, IsOffice, TypeInv, OfficesTypeOK

LEMMA ProfileCalm ==
  ASSUME TypeInv,
         \/ \E o \in Accounts, f \in {"commerceNumber", "logo"} : FillProfile(o, f)
         \/ \E o \in Accounts, d \in ChangeData : AddChangeRequest(o, d)
         \/ \E o \in Accounts, e \in Employees : AddOfficeEmployee(o, e)
         \/ \E o \in Accounts : DetailsExpire(o)
  PROVE  CalmStep
<1>1. account' = account /\ UNCHANGED <<letIn, cleared>>
  BY DEF FillProfile, AddChangeRequest, AddOfficeEmployee, DetailsExpire, accountVars
<1>2. AccessTurn
  BY AccessStayed DEF FillProfile, AddChangeRequest, AddOfficeEmployee, DetailsExpire, AtOnce
<1>3. ASSUME NEW o \in Accounts, NEW f \in {"commerceNumber", "logo"}, FillProfile(o, f) PROVE NoNewStaff
  BY <1>3, EditNoStaff DEF FillProfile
<1>4. ASSUME NEW o \in Accounts, NEW d \in ChangeData, AddChangeRequest(o, d) PROVE NoNewStaff
  BY <1>4, EditNoStaff DEF AddChangeRequest
<1>5. ASSUME NEW o \in Accounts, NEW e \in Employees, AddOfficeEmployee(o, e) PROVE NoNewStaff
  BY <1>5 DEF AddOfficeEmployee, SetEmployee, NoNewStaff, StaffOf, IsOffice, TypeInv, OfficesTypeOK
<1>6. ASSUME NEW o \in Accounts, DetailsExpire(o) PROVE NoNewStaff
  BY <1>6, SameStaff DEF DetailsExpire, IsOffice
<1>7. NoNewStaff
  BY <1>3, <1>4, <1>5, <1>6
<1>8. QED
  BY <1>1, <1>2, <1>7, NothingOpens DEF CalmStep

LEMMA ReadsCalm ==
  ASSUME TypeInv, NEW h \in Handlers, NEW o \in Accounts,
         ApproveChangeRead(h, o) \/ RejectChangeRead(h, o) \/ ReadDetails(h, o)
  PROVE  CalmStep
<1>1. UNCHANGED <<account, officeVars>>
  BY DEF ApproveChangeRead, RejectChangeRead, ReadDetails, accountVars
<1>2. AccessTurn
  <2>1. CASE ApproveChangeRead(h, o)
    BY <2>1, AccessBegun DEF ApproveChangeRead, AccessPoints
  <2>2. CASE RejectChangeRead(h, o)
    BY <2>2, AccessBegun DEF RejectChangeRead, AccessPoints
  <2>3. CASE ReadDetails(h, o)
    BY <2>3, AccessBegun DEF ReadDetails, AccessPoints
  <2>4. QED
    BY <2>1, <2>2, <2>3
<1>3. QED
  BY <1>1, <1>2, CalmRows

LEMMA ApplyOpens ==
  ASSUME TypeInv, NEW h \in Handlers, ApplyChange(h) PROVE OpensNothing /\ NoNewStaff
<1> DEFINE o == req[h].who
           d == req[h].data
<1>1. req[h].at = "apply_change"
  BY DEF ApplyChange, At
<1>2. o \in Accounts /\ d \in ChangeData
  BY <1>1, Holds DEF ReqTyped
<1>3. CASE UNCHANGED <<accountVars, officeVars>>
  BY <1>3, NothingNew, NothingOpens DEF accountVars
<1>4. CASE ~ UNCHANGED <<accountVars, officeVars>>
  <2> DEFINE acc == [account[o] EXCEPT !.email = Chosen(d.email, @), !.phone = Chosen(d.phone, @)]
             row == [office[o] EXCEPT !.name = d.name, !.change = "APPROVED", !.data = None]
  <2>1. /\ IsOffice(o) /\ SetOffice(o, row)
        /\ UNCHANGED <<employee, letIn, cleared>>
        /\ account' = [account EXCEPT ![o].email = Chosen(d.email, @), ![o].phone = Chosen(d.phone, @)]
    BY <1>4 DEF ApplyChange
  <2>2. Exists(o) /\ account[o] \in Account
    BY <1>2, <2>1, OfficeExists, RowOf DEF TypeInv
  <2>3. acc.role = account[o].role /\ acc.status = account[o].status /\ acc # None
    <3>1. acc \in Account
      BY <1>2, <2>2 DEF Account, ChangeData, Chosen
    <3>2. QED
      BY <2>2, <3>1, NoneIsNoAccountRow DEF Account
  <2>4. account' = [account EXCEPT ![o] = acc]
    BY <1>2, <2>1 DEF TypeInv, AccountTables, AccountsTypeOK
  <2>5. NoNewStaff
    BY <1>2, <2>1, EditNoStaff
  <2> HIDE DEF acc, row
  <2>6. OpensNothing
    <3>1. AccountGrown
      BY <1>2, <2>3, <2>4, RolesKept DEF TypeInv
    <3>2. QED
      BY <1>2, <2>2, <2>3, <2>4, <3>1, WriteOpens DEF TypeInv, Open
  <2>7. QED
    BY <2>5, <2>6
<1>5. QED
  BY <1>3, <1>4

LEMMA ReviewCalm ==
  ASSUME TypeInv, NEW h \in Handlers, ApplyChange(h) \/ DropDetails(h) \/ RejectChange(h) \/ FillDetails(h)
  PROVE  CalmStep
<1>1. req[h].at \in {"apply_change", "drop_details", "reject_change", "fill_details"}
  BY DEF ApplyChange, DropDetails, RejectChange, FillDetails, At
<1>2. AccessTurn
  <2>1. CASE Done(h)
    BY <1>1, <2>1, AccessDone
  <2>2. CASE Goto(h, [at |-> "drop_details", who |-> req[h].who])
    BY <1>1, <2>2, AccessGone DEF AccessPoints
  <2>3. QED
    BY <2>1, <2>2 DEF ApplyChange, DropDetails, RejectChange, FillDetails
<1>3. UNCHANGED <<letIn, cleared>>
  BY DEF ApplyChange, DropDetails, RejectChange, FillDetails, officeVars
<1>4. OpensNothing /\ NoNewStaff
  <2>1. CASE ApplyChange(h)
    BY <2>1, ApplyOpens
  <2>2. CASE DropDetails(h) \/ FillDetails(h)
    <3>1. UNCHANGED <<account, office, employee, letIn, cleared>>
      BY <2>2 DEF DropDetails, FillDetails, accountVars
    <3>2. QED
      BY <3>1, SameStaff, NothingOpens DEF IsOffice
  <2>3. CASE RejectChange(h)
    <3>1. UNCHANGED <<account, employee, letIn, cleared>> /\ req[h].who \in Accounts
      BY <1>1, <2>3, Holds DEF RejectChange, accountVars, At, ReqTyped
    <3>2. CASE IsOffice(req[h].who)
      BY <2>3, <3>1, <3>2, EditNoStaff, NothingOpens DEF RejectChange
    <3>3. CASE ~ IsOffice(req[h].who)
      BY <2>3, <3>1, <3>3, SameStaff, NothingOpens DEF RejectChange, IsOffice
    <3>4. QED
      BY <3>2, <3>3
  <2>4. QED
    BY <2>1, <2>2, <2>3
<1>5. QED
  BY <1>2, <1>3, <1>4 DEF CalmStep

-----------------------------------------------------------------------------
(* Steps that decide, or that carry a decision on *)

LetInTurn ==
  \/ UNCHANGED reqVars
  \/ \E h \in Handlers : \E r : MovesTo(h, r) /\ r.at \notin AccessPoints

LEMMA LetInMoves ==
  ASSUME TypeInv, LetInInv, AccountGrown, letIn \subseteq letIn', LetInTurn
  PROVE  \A g \in Handlers : LetInReq(req[g])'
<1>1. ASSUME NEW g \in Handlers PROVE req'[g] = req[g] \/ req'[g].at \notin AccessPoints
  BY MoveKeepsOthers DEF LetInTurn, reqVars
<1>2. QED
  BY <1>1, LetInReqStays

\* What opens and who is taken on was let in.
LetInRows ==
  /\ \A a \in Accounts : account'[a] # None /\ Open(account'[a]) =>
       (account[a] # None /\ Open(account[a])) \/ a \in letIn'
  /\ \A e \in Employees : StaffOf(e)' =>
       (StaffOf(e) /\ employee'[e].account = employee[e].account) \/ employee'[e].account \in letIn'

LEMMA LetInGrows ==
  ASSUME LetInInv, letIn \subseteq letIn', LetInRows, \A g \in Handlers : LetInReq(req[g])'
  PROVE  LetInInv'
<1>1. \A a \in Accounts : account'[a] # None /\ Open(account'[a]) => a \in letIn'
  BY DEF LetInRows, LetInInv, Exists
<1>2. \A e \in Employees : StaffOf(e)' => employee'[e].account \in letIn'
  BY DEF LetInRows, LetInInv
<1>3. QED
  BY <1>1, <1>2 DEF LetInInv, Exists, Open

\* One at a time, what a request may find that is not on its way out
Firm ==
  /\ \A a \in Accounts : Exists(a) /\ Open(account[a]) => a \in cleared
  /\ \A e \in Employees : StaffOf(e) => employee[e].account \in cleared

Starts == AtOnce \/ \E h \in Handlers : \E r : MovesTo(h, r) /\ req[h].at # "clear_employee"

LEMMA FirmFound ==
  ASSUME TypeInv, ClearedInv, serial, ~ dropped, Starts PROVE Firm
<1>1. ASSUME NEW g \in Handlers PROVE req[g].at # "clear_employee"
  <2>1. CASE AtOnce
    BY <2>1 DEF AtOnce, Quiet, Idle
  <2>2. ASSUME NEW h \in Handlers, NEW r, MovesTo(h, r), req[h].at # "clear_employee"
        PROVE  req[g].at # "clear_employee"
    BY <2>2 DEF MovesTo, Idle
  <2>3. QED
    BY <2>1, <2>2 DEF Starts
<1>2. \A e \in Employees : ~ BeingCleared(e)
  BY <1>1 DEF BeingCleared
<1>3. QED
  BY <1>2 DEF Firm, ClearedInv

Settles == AtOnce \/ \E h \in Handlers : \E r : MovesTo(h, r) /\ r.at \notin {"verified", "toggle"}

LEMMA SettledReqs ==
  ASSUME TypeInv, serial, Settles PROVE \A g \in Handlers : ClearedReq(req[g])'
<1>1. ASSUME NEW g \in Handlers PROVE req'[g].at \notin {"verified", "toggle"}
  <2>1. CASE AtOnce
    BY <2>1 DEF AtOnce, Quiet, Idle, reqVars
  <2>2. ASSUME NEW h \in Handlers, NEW r, MovesTo(h, r), r.at \notin {"verified", "toggle"}
        PROVE  req'[g].at \notin {"verified", "toggle"}
    BY <2>2, OthersIdle DEF Idle
  <2>3. QED
    BY <2>1, <2>2 DEF Settles
<1>2. QED
  BY <1>1 DEF ClearedReq

LEMMA ClearedGrows ==
  ASSUME OneEmployer', serial' = serial, dropped => dropped',
         serial /\ ~ dropped /\ ~ dropped' =>
           /\ \A a \in Accounts : account'[a] # None /\ Open(account'[a]) => a \in cleared'
           /\ \A e \in Employees : StaffOf(e)' => employee'[e].account \in cleared' \/ BeingCleared(e)'
           /\ \A g \in Handlers : ClearedReq(req[g])'
  PROVE  ClearedInv'
<1>1. CASE ~ (serial' /\ ~ dropped')
  BY <1>1 DEF ClearedInv
<1>2. CASE serial' /\ ~ dropped'
  BY <1>2 DEF ClearedInv, Exists, Open
<1>3. QED
  BY <1>1, <1>2

\* A decision on one account: it opens only if it is let in, and when it is not, no one
\* acts with it any more but an employee whose row is being cleared.
Decides(o, in) ==
  /\ Admit(o, in)
  /\ \A a \in Accounts \ {o} : account'[a] = account[a]
  /\ account'[o] # None /\ Open(account'[o]) => in
  /\ \A e \in Employees : StaffOf(e)' =>
       \/ StaffOf(e) /\ employee'[e].account = employee[e].account
       \/ in /\ employee'[e].account = o
  /\ serial => \A e \in Employees : StaffOf(e)' /\ employee'[e].account = o => in \/ BeingCleared(e)'
  /\ dropped' = dropped /\ serial' = serial

LEMMA DecidedLetIn ==
  ASSUME TypeInv, LetInInv, AccountGrown, LetInTurn, NEW o \in Accounts, NEW in \in BOOLEAN, Decides(o, in)
  PROVE  LetInInv'
<1>1. letIn \subseteq letIn' /\ (in => o \in letIn')
  BY DEF Decides, Admit
<1>2. \A g \in Handlers : LetInReq(req[g])'
  BY <1>1, LetInMoves
<1>3. LetInRows
  BY <1>1 DEF Decides, LetInRows
<1>4. QED
  BY <1>1, <1>2, <1>3, LetInGrows

LEMMA DecidedCleared ==
  ASSUME TypeInv, ClearedInv, OneEmployer', Starts, Settles, NEW o \in Accounts, NEW in \in BOOLEAN,
         Decides(o, in)
  PROVE  ClearedInv'
<1>1. /\ in => cleared' = cleared \union {o}
      /\ ~ in => cleared' = cleared \ {o}
  BY DEF Decides, Admit
<1>2. ASSUME serial, ~ dropped
      PROVE  /\ \A a \in Accounts : account'[a] # None /\ Open(account'[a]) => a \in cleared'
             /\ \A e \in Employees : StaffOf(e)' => employee'[e].account \in cleared' \/ BeingCleared(e)'
             /\ \A g \in Handlers : ClearedReq(req[g])'
  <2>1. Firm
    BY <1>2, FirmFound
  <2>2. ASSUME NEW a \in Accounts, account'[a] # None, Open(account'[a]) PROVE a \in cleared'
    <3>1. CASE a = o
      BY <1>1, <2>2, <3>1 DEF Decides
    <3>2. CASE a # o
      <4>1. a \in cleared
        BY <2>1, <2>2, <3>2 DEF Decides, Firm, Exists
      <4>2. QED
        BY <1>1, <3>2, <4>1
    <3>3. QED
      BY <3>1, <3>2
  <2>3. ASSUME NEW e \in Employees, StaffOf(e)' PROVE employee'[e].account \in cleared' \/ BeingCleared(e)'
    <3>1. CASE employee'[e].account = o
      BY <1>1, <1>2, <2>3, <3>1 DEF Decides
    <3>2. CASE employee'[e].account # o
      <4>1. employee'[e].account \in cleared
        BY <2>1, <2>3, <3>2 DEF Decides, Firm
      <4>2. QED
        BY <1>1, <3>2, <4>1
    <3>3. QED
      BY <3>1, <3>2
  <2>4. QED
    BY <1>2, <2>2, <2>3, SettledReqs
<1>3. QED
  BY <1>2, ClearedGrows DEF Decides

LEMMA StatusSet ==
  ASSUME TypeInv, NEW o \in Accounts, Exists(o), NEW s \in AccountStatus, SetStatus(o, s)
  PROVE  /\ AccountGrown
         /\ \A a \in Accounts \ {o} : account'[a] = account[a]
         /\ account'[o] # None /\ account'[o].status = s /\ account'[o].role = account[o].role
<1> DEFINE row == [account[o] EXCEPT !.status = s]
<1>0. account[o] \in Account
  BY RowOf DEF TypeInv
<1>1. row # None /\ row.role = account[o].role /\ row.status = s
  <2>1. row \in Account
    BY <1>0, AccountRow
  <2>2. QED
    BY <1>0, <2>1, NoneIsNoAccountRow DEF Account
<1>2. account' = [account EXCEPT ![o] = row]
  BY DEF SetStatus
<1> HIDE DEF row
<1>3. QED
  BY <1>1, <1>2, RolesKept DEF TypeInv

LEMMA SoftDeletes ==
  ASSUME TypeInv, NEW o \in Accounts, Exists(o), SoftDelete(o)
  PROVE  /\ AccountGrown
         /\ \A a \in Accounts \ {o} : account'[a] = account[a]
         /\ account'[o] # None /\ account'[o].status = "BLOCKED"
<1>1. account' = [account EXCEPT ![o] = SoftDeleted(o)]
  BY DEF SoftDelete
<1>2. SoftDeleted(o) # None /\ SoftDeleted(o).role = account[o].role /\ SoftDeleted(o).status = "BLOCKED"
  BY SoftDeletedRow, NoneIsNoAccountRow DEF TypeInv
<1>3. QED
  BY <1>1, <1>2, RolesKept DEF TypeInv

\* No employee acts with the account of an office.
LEMMA NoStaffOfOffice ==
  ASSUME OneEmployer, NEW o \in Accounts, IsOffice(o), NEW e \in Employees, StaffOf(e)
  PROVE  employee[e].account # o
  BY DEF OneEmployer

LEMMA AtOnceMoves ==
  ASSUME AtOnce PROVE LetInTurn /\ Starts /\ Settles /\ dropped' = dropped /\ serial' = serial
  BY DEF AtOnce, LetInTurn, Starts, Settles, reqVars

LEMMA BegunMoves ==
  ASSUME NEW h \in Handlers, NEW r, Begin(h, r), r.at \notin AccessPoints
  PROVE  LetInTurn /\ Starts /\ Settles /\ dropped' = dropped /\ serial' = serial
<1>1. MovesTo(h, r)
  BY BeginMoves
<1>2. req[h].at # "clear_employee" /\ dropped' = dropped /\ serial' = serial
  BY DEF Begin, Idle
<1>3. r.at \notin {"verified", "toggle"}
  BY DEF AccessPoints
<1>4. QED
  BY <1>1, <1>2, <1>3 DEF LetInTurn, Starts, Settles

\* A step keeps the roles of the accounts, and both invariants.
AccessKept == AccountGrown /\ (LetInInv => LetInInv' /\ (ClearedInv => ClearedInv'))

LEMMA CalmAccess ==
  ASSUME TypeInv, CalmStep PROVE AccessKept
  BY CalmLetIn, CalmCleared DEF AccessKept, CalmStep, OpensNothing

\* approveOfficeRegistration, rejectOfficeRegistration and updateOfficeByAdmin
LEMMA ReviewDecides ==
  ASSUME TypeInv, NEW o \in Accounts, IsOffice(o), NEW s \in AccountStatus, SetStatus(o, s),
         Admit(o, LetsIn(s)), employee' = employee, \A a \in Accounts : office'[a] # None => IsOffice(a),
         LetInTurn, Starts, Settles, dropped' = dropped, serial' = serial
  PROVE  AccessKept
<1>1. /\ AccountGrown
      /\ \A a \in Accounts \ {o} : account'[a] = account[a]
      /\ account'[o].status = s
  BY OfficeExists, StatusSet
<1>2. LetsIn(s) \in BOOLEAN
  BY DEF LetsIn
<1>3. NoNewStaff
  BY DEF NoNewStaff, StaffOf
<1>4. ASSUME OneEmployer PROVE Decides(o, LetsIn(s)) /\ OneEmployer'
  <2>1. \A e \in Employees : StaffOf(e)' => employee'[e].account # o
    BY <1>4, NoStaffOfOffice DEF StaffOf
  <2>2. OneEmployer'
    BY <1>3, <1>4, CalmOneEmployer
  <2>3. \A e \in Employees : StaffOf(e)' => StaffOf(e) /\ employee'[e].account = employee[e].account
    BY DEF StaffOf
  <2>4. QED
    BY <1>1, <2>1, <2>2, <2>3 DEF Decides, Open
<1>5. ASSUME LetInInv PROVE LetInInv'
  <2>1. letIn \subseteq letIn' /\ (LetsIn(s) => o \in letIn')
    BY DEF Admit
  <2>2. LetInRows
    BY <1>1, <2>1 DEF LetInRows, StaffOf, Open
  <2>3. QED
    BY <1>1, <1>5, <2>1, <2>2, LetInMoves, LetInGrows
<1>6. ASSUME ClearedInv PROVE ClearedInv'
  BY <1>2, <1>4, <1>6, DecidedCleared DEF ClearedInv
<1>7. QED
  BY <1>1, <1>5, <1>6 DEF AccessKept

LEMMA ReviewAccess ==
  ASSUME TypeInv, NEW o \in Accounts,
         \/ \E h \in Handlers : ApproveRegistration(h, o)
         \/ RejectRegistration(o)
         \/ \E n \in Names, s \in AccountStatus : UpdateOfficeByAdmin(o, n, s)
  PROVE  AccessKept
<1>0. LetsIn("ACTIVE") = TRUE /\ LetsIn("REJECTED") = FALSE /\ {"ACTIVE", "REJECTED"} \subseteq AccountStatus
  BY DEF LetsIn, AccountStatus
<1>1. ASSUME NEW h \in Handlers, ApproveRegistration(h, o) PROVE AccessKept
  <2>1. LetInTurn /\ Starts /\ Settles /\ dropped' = dropped /\ serial' = serial
    BY <1>1, BegunMoves DEF ApproveRegistration, AccessPoints
  <2>2. /\ IsOffice(o) /\ SetStatus(o, "ACTIVE") /\ Admit(o, LetsIn("ACTIVE")) /\ employee' = employee
        /\ office' = office
    BY <1>0, <1>1 DEF ApproveRegistration
  <2>3. QED
    BY <1>0, <2>1, <2>2, ReviewDecides DEF IsOffice
<1>2. CASE RejectRegistration(o)
  <2>1. LetInTurn /\ Starts /\ Settles /\ dropped' = dropped /\ serial' = serial
    BY <1>2, AtOnceMoves DEF RejectRegistration
  <2>2. /\ IsOffice(o) /\ SetStatus(o, "REJECTED") /\ Admit(o, LetsIn("REJECTED")) /\ employee' = employee
        /\ office' = office
    BY <1>0, <1>2 DEF RejectRegistration
  <2>3. QED
    BY <1>0, <2>1, <2>2, ReviewDecides DEF IsOffice
<1>3. ASSUME NEW n \in Names, NEW s \in AccountStatus, UpdateOfficeByAdmin(o, n, s) PROVE AccessKept
  <2>1. LetInTurn /\ Starts /\ Settles /\ dropped' = dropped /\ serial' = serial
    BY <1>3, AtOnceMoves DEF UpdateOfficeByAdmin
  <2>2. IsOffice(o) /\ SetStatus(o, s) /\ Admit(o, LetsIn(s)) /\ employee' = employee
    BY <1>3 DEF UpdateOfficeByAdmin
  <2>3. \A a \in Accounts : office'[a] # None => IsOffice(a)
    BY <1>3 DEF UpdateOfficeByAdmin, SetOffice, IsOffice, TypeInv, OfficesTypeOK
  <2>4. QED
    BY <2>1, <2>2, <2>3, ReviewDecides
<1>4. QED
  BY <1>1, <1>2, <1>3

\* deleteOfficeAccount: no employee is left, and the account is blocked.
LEMMA DeleteOfficeAccess ==
  ASSUME TypeInv, NEW o \in Accounts, DeleteOffice(o) PROVE AccessKept
<1>1. /\ IsOffice(o) /\ SetOffice(o, None) /\ SoftDelete(o) /\ Admit(o, FALSE) /\ AtOnce
      /\ employee' = [e \in Employees |-> IF e \in StaffRows(o) THEN None ELSE employee[e]]
  BY DEF DeleteOffice
<1>2. LetInTurn /\ Starts /\ Settles /\ dropped' = dropped /\ serial' = serial
  BY <1>1, AtOnceMoves
<1>3. /\ AccountGrown
      /\ \A a \in Accounts \ {o} : account'[a] = account[a]
      /\ ~ Open(account'[o])
  BY <1>1, OfficeExists, SoftDeletes DEF Open, LetsIn
<1>4. \A e \in Employees : StaffOf(e)' => StaffOf(e) /\ employee'[e].account = employee[e].account
  BY <1>1 DEF StaffOf
<1>5. NoNewStaff
  BY <1>1, <1>4 DEF NoNewStaff, SetOffice, IsOffice, TypeInv, OfficesTypeOK
<1>6. ASSUME OneEmployer PROVE Decides(o, FALSE) /\ OneEmployer'
  <2>1. \A e \in Employees : StaffOf(e)' => employee'[e].account # o
    BY <1>1, <1>4, <1>6, NoStaffOfOffice
  <2>2. OneEmployer'
    BY <1>5, <1>6, CalmOneEmployer
  <2>3. QED
    BY <1>1, <1>2, <1>3, <1>4, <2>1, <2>2 DEF Decides
<1>7. ASSUME LetInInv PROVE LetInInv'
  <2>1. letIn \subseteq letIn'
    BY <1>1 DEF Admit
  <2>2. LetInRows
    BY <1>3, <1>4 DEF LetInRows
  <2>3. QED
    BY <1>2, <1>3, <1>7, <2>1, <2>2, LetInMoves, LetInGrows
<1>8. ASSUME ClearedInv PROVE ClearedInv'
  BY <1>2, <1>6, <1>8, DecidedCleared DEF ClearedInv
<1>9. QED
  BY <1>3, <1>7, <1>8 DEF AccessKept

\* The employee goes first, its row after.
LEMMA RemoveEmployeeAccess ==
  ASSUME TypeInv, NEW h \in Handlers, NEW e \in Employees, RemoveEmployee(h, e) PROVE AccessKept
<1> DEFINE o == employee[e].account
           r == [at |-> "clear_employee", row |-> e]
<1>1. /\ StaffOf(e) /\ SoftDelete(o) /\ Admit(o, FALSE) /\ Begin(h, r)
      /\ UNCHANGED <<office, employee>>
  BY DEF RemoveEmployee, StaffOf, FreeRow
<1>2. o \in Accounts /\ Exists(o)
  BY <1>1, StaffAccount DEF HasRole
<1>3. r.at = "clear_employee" /\ r.row = e
  OBVIOUS
<1> HIDE DEF o, r
<1>4. LetInTurn /\ Starts /\ Settles /\ dropped' = dropped /\ serial' = serial
  BY <1>1, <1>3, BegunMoves DEF AccessPoints
<1>5. BeingCleared(e)'
  <2>1. req'[h] = r
    BY <1>1, BeginMoves, MoveKeepsOthers
  <2>2. QED
    BY <1>3, <2>1 DEF BeingCleared
<1>6. /\ AccountGrown
      /\ \A a \in Accounts \ {o} : account'[a] = account[a]
      /\ ~ Open(account'[o])
  BY <1>1, <1>2, SoftDeletes DEF Open, LetsIn
<1>7. NoNewStaff /\ \A f \in Employees : StaffOf(f)' => StaffOf(f) /\ employee'[f].account = employee[f].account
  BY <1>1 DEF NoNewStaff, StaffOf, IsOffice
<1>8. ASSUME OneEmployer PROVE Decides(o, FALSE) /\ OneEmployer'
  <2>1. \A f \in Employees : StaffOf(f)' /\ employee'[f].account = o => f = e
    BY <1>1, <1>7, <1>8 DEF OneEmployer, o
  <2>2. OneEmployer'
    BY <1>7, <1>8, CalmOneEmployer
  <2>3. QED
    BY <1>1, <1>4, <1>5, <1>6, <1>7, <2>1, <2>2 DEF Decides
<1>9. ASSUME LetInInv PROVE LetInInv'
  <2>1. letIn \subseteq letIn'
    BY <1>1 DEF Admit
  <2>2. LetInRows
    BY <1>6, <1>7 DEF LetInRows
  <2>3. QED
    BY <1>4, <1>6, <1>9, <2>1, <2>2, LetInMoves, LetInGrows
<1>10. ASSUME ClearedInv PROVE ClearedInv'
  BY <1>2, <1>4, <1>8, <1>10, DecidedCleared DEF ClearedInv
<1>11. QED
  BY <1>6, <1>9, <1>10 DEF AccessKept

\* A new employee comes with an account of its own, let in from the start.
LEMMA AddAccountAccess ==
  ASSUME TypeInv, NEW o \in Accounts, NEW e \in Employees, NEW a \in Accounts, NEW em \in Emails,
         NEW p \in Phones, NEW w \in Passwords, AddOfficeEmployeeWithAccount(o, e, a, em, p, w)
  PROVE  AccessKept
<1> DEFINE row == [NewAccount("OFFICE", em, p, w) EXCEPT !.status = "ACTIVE", !.verified = TRUE]
           new == [office |-> o, account |-> a, isActive |-> TRUE]
<1>1. /\ FreeRow(e) /\ Create(a, row) /\ SetEmployee(e, new) /\ Admit(a, TRUE) /\ AtOnce /\ office' = office
  BY DEF AddOfficeEmployeeWithAccount
<1>2. LetInTurn /\ Starts /\ Settles /\ dropped' = dropped /\ serial' = serial
  BY <1>1, AtOnceMoves
<1>3. new.account = a
  OBVIOUS
<1> HIDE DEF row, new
<1>4. ~ Exists(a) /\ account' = [account EXCEPT ![a] = row]
  BY <1>1 DEF Create
<1>5. AccountGrown /\ \A b \in Accounts \ {a} : account'[b] = account[b]
  BY <1>4, RolesKept DEF TypeInv
<1>6. \A f \in Employees : StaffOf(f)' =>
        \/ StaffOf(f) /\ employee'[f].account = employee[f].account
        \/ f = e /\ employee'[f].account = a
  BY <1>1, <1>3 DEF SetEmployee, StaffOf, TypeInv, OfficesTypeOK
<1>7. \A f \in Employees : StaffOf(f) => employee[f].account # a
  BY <1>4, StaffAccount DEF HasRole
<1>8. ~ IsOffice(a)
  BY <1>4, OfficeExists
<1>9. ASSUME OneEmployer PROVE Decides(a, TRUE) /\ OneEmployer'
  <2>1. \A f, g \in Employees :
          StaffOf(f)' /\ StaffOf(g)' /\ employee'[f].account = employee'[g].account => f = g
    BY <1>6, <1>7, <1>9 DEF OneEmployer
  <2>2. \A f \in Employees : StaffOf(f)' => office'[employee'[f].account] = None
    BY <1>1, <1>6, <1>8, <1>9 DEF OneEmployer, IsOffice
  <2>3. OneEmployer'
    BY <2>1, <2>2 DEF OneEmployer, IsOffice
  <2>4. QED
    BY <1>1, <1>2, <1>5, <1>6, <2>3 DEF Decides
<1>10. ASSUME LetInInv PROVE LetInInv'
  <2>1. letIn \subseteq letIn' /\ a \in letIn'
    BY <1>1 DEF Admit
  <2>2. LetInRows
    BY <1>5, <1>6, <2>1 DEF LetInRows
  <2>3. QED
    BY <1>2, <1>5, <1>10, <2>1, <2>2, LetInMoves, LetInGrows
<1>11. ASSUME ClearedInv PROVE ClearedInv'
  BY <1>2, <1>9, <1>11, DecidedCleared DEF ClearedInv
<1>12. QED
  BY <1>5, <1>10, <1>11 DEF AccessKept

\* Only the request moves, to one that will decide as was decided.
LEMMA CarriedAccess ==
  ASSUME TypeInv, UNCHANGED <<account, officeVars>>, NEW h \in Handlers, NEW r, MovesTo(h, r),
         req[h].at # "clear_employee", dropped' = dropped,
         LetInInv => LetInReq(req[h])', serial /\ ~ dropped /\ ClearedInv => ClearedReq(req[h])'
  PROVE  AccessKept
<1>1. account' = account /\ UNCHANGED <<office, employee, letIn, cleared>>
  BY DEF officeVars
<1>2. AccountGrown
  BY <1>1 DEF AccountGrown
<1>3. ASSUME LetInInv PROVE LetInInv'
  <2>1. ASSUME NEW g \in Handlers PROVE LetInReq(req[g])'
    <3>1. CASE g = h
      BY <1>3, <3>1
    <3>2. CASE g # h
      BY <1>1, <1>2, <1>3, <3>2, MoveKeepsOthers, LetInReqStays
    <3>3. QED
      BY <3>1, <3>2
  <2>2. LetInRows
    BY <1>1 DEF LetInRows, StaffOf
  <2>3. QED
    BY <1>1, <1>3, <2>1, <2>2, LetInGrows
<1>4. ASSUME ClearedInv PROVE ClearedInv'
  <2>1. OneEmployer'
    BY <1>4, CalmOneEmployer, NothingNew DEF ClearedInv
  <2>2. ASSUME serial, ~ dropped
        PROVE  /\ Firm
               /\ \A g \in Handlers : ClearedReq(req[g])'
    <3>1. Starts
      BY DEF Starts
    <3>2. ASSUME NEW g \in Handlers PROVE ClearedReq(req[g])'
      <4>1. CASE g = h
        BY <1>4, <2>2, <4>1
      <4>2. CASE g # h
        <5>1. req'[g] = Idle
          BY <2>2, <4>2, OthersIdle
        <5>2. QED
          BY <5>1 DEF ClearedReq, Idle
      <4>3. QED
        BY <4>1, <4>2
    <3>3. QED
      BY <1>4, <2>2, <3>1, <3>2, FirmFound
  <2>3. \A e \in Employees : StaffOf(e)' => StaffOf(e) /\ employee'[e].account = employee[e].account
    BY <1>1 DEF StaffOf
  <2>4. serial' = serial
    BY DEF MovesTo
  <2>5. ASSUME serial, ~ dropped
        PROVE  /\ \A a \in Accounts : account'[a] # None /\ Open(account'[a]) => a \in cleared'
               /\ \A e \in Employees : StaffOf(e)' => employee'[e].account \in cleared'
    BY <1>1, <2>2, <2>3, <2>5 DEF Firm, Exists
  <2>6. QED
    BY <2>1, <2>2, <2>4, <2>5, ClearedGrows
<1>5. QED
  BY <1>2, <1>3, <1>4 DEF AccessKept

\* A toggle is not of an employee's account: its owner is put out with the employee only.
LEMMA ToggleReadAccess ==
  ASSUME TypeInv, UNCHANGED officeVars, NEW h \in Handlers, NEW a \in Accounts, ToggleRead(h, a),
         IsOffice(a) \/ ~ HasRole(a, "OFFICE")
  PROVE  AccessKept
<1> DEFINE r == [at |-> "toggle", who |-> a, status |-> Toggled(account[a])]
<1>1. Begin(h, r) /\ account' = account
  BY DEF ToggleRead, accountVars
<1>2. r.at = "toggle" /\ r.who = a /\ r.status \in {"ACTIVE", "BLOCKED"}
  BY DEF Toggled
<1> HIDE DEF r
<1>3. MovesTo(h, r) /\ req'[h] = r
  BY <1>1, BeginMoves, MoveKeepsOthers
<1>4. req[h].at # "clear_employee" /\ dropped' = dropped
  BY <1>1 DEF Begin, Idle
<1>5. LetInReq(req[h])'
  BY <1>2, <1>3 DEF LetInReq
<1>6. ASSUME ClearedInv PROVE ClearedReq(req[h])'
  <2>1. \A e \in Employees : StaffOf(e) => employee[e].account # a
    BY <1>6, NoStaffOfOffice, StaffAccount DEF ClearedInv
  <2>2. \A e \in Employees : StaffOf(e)' => employee'[e].account # a
    BY <2>1 DEF StaffOf, officeVars
  <2>3. QED
    BY <1>2, <1>3, <2>2 DEF ClearedReq
<1>7. QED
  BY <1>1, <1>3, <1>4, <1>5, <1>6, CarriedAccess

LEMMA MarkReadAccess ==
  ASSUME TypeInv, NEW h \in Handlers, MarkVerifiedRead(h) PROVE AccessKept
<1>1. req[h].at = "phone_read" /\ UNCHANGED <<account, officeVars>>
  BY DEF MarkVerifiedRead, At, rowVars, accountVars
<1>2. CASE Done(h)
  BY <1>1, <1>2, AccessDone, CalmRows, CalmAccess
<1>3. CASE ~ Done(h)
  <2> DEFINE a == Find(req[h].id)
             row == [account[a] EXCEPT !.verified = TRUE]
             r == [at |-> "phone_save", who |-> a, row |-> row]
  <2>1. Goto(h, r) /\ a # None
    BY <1>3 DEF MarkVerifiedRead
  <2>2. a \in Accounts /\ Exists(a) /\ account[a] \in Account
    BY <2>1, FoundExists, RowOf DEF TypeInv
  <2>3. row.role = account[a].role /\ row.status = account[a].status
    BY <2>2 DEF Account
  <2>4. r.at = "phone_save" /\ r.who = a /\ r.row = row
    OBVIOUS
  <2> HIDE DEF a, row, r
  <2>5. MovesTo(h, r) /\ req'[h] = r
    BY <1>1, <2>1, GotoMoves, MoveKeepsOthers
  <2>6. ASSUME LetInInv PROVE LetInReq(req[h])'
    <3>1. Open(row) => a \in letIn'
      BY <1>1, <2>2, <2>3, <2>6 DEF LetInInv, Open, officeVars
    <3>2. QED
      BY <2>4, <2>5, <3>1 DEF LetInReq
  <2>7. ClearedReq(req[h])'
    BY <2>4, <2>5 DEF ClearedReq
  <2>8. QED
    BY <1>1, <2>1, <2>5, <2>6, <2>7, CarriedAccess DEF Goto
<1>4. QED
  BY <1>2, <1>3

\* An employee's account is ACTIVE again once its phone is: the employer let it in.
LEMMA MembershipAccess ==
  ASSUME TypeInv, NEW h \in Handlers, MembershipRead(h) PROVE AccessKept
<1> DEFINE a == req[h].who
           r == IF account[a].role = "ADMIN" THEN [at |-> "session", who |-> a]
                ELSE [at |-> "verified", who |-> a, status |-> StatusVerified(a)]
<1>1. req[h].at = "member" /\ UNCHANGED <<account, officeVars>> /\ Goto(h, r)
  BY DEF MembershipRead, At, rowVars, accountVars
<1>2. \/ r.at = "session"
      \/ r.at = "verified" /\ r.who = a /\ r.status = StatusVerified(a)
  OBVIOUS
<1> HIDE DEF r
<1>3. MovesTo(h, r) /\ req'[h] = r
  BY <1>1, GotoMoves, MoveKeepsOthers
<1>4. LetsIn(StatusVerified(a)) /\ account[a].role = "OFFICE" =>
        \E e \in Employees : StaffOf(e) /\ employee[e].account = a
  <2>1. a # None
    BY <1>1, Holds, NoneIsNoAccount DEF ReqTyped
  <2> HIDE DEF a
  <2>2. QED
    BY <2>1 DEF StatusVerified, LetsIn, IsEmployee, MembershipsOf, StaffOf
<1>5. ASSUME LetInInv PROVE LetInReq(req[h])'
  <2>1. LetsIn(StatusVerified(a)) /\ account[a].role = "OFFICE" => a \in letIn
    BY <1>4, <1>5 DEF LetInInv
  <2>2. account' = account /\ letIn' = letIn
    BY <1>1 DEF officeVars
  <2> HIDE DEF a
  <2>3. QED
    BY <1>2, <1>3, <2>1, <2>2 DEF LetInReq
<1>6. ASSUME serial, ~ dropped, ClearedInv PROVE ClearedReq(req[h])'
  <2>1. Firm
    BY <1>1, <1>3, <1>6, FirmFound DEF Starts
  <2>2. LetsIn(StatusVerified(a)) /\ account[a].role = "OFFICE" => a \in cleared
    BY <1>4, <2>1 DEF Firm
  <2>3. account' = account /\ cleared' = cleared
    BY <1>1 DEF officeVars
  <2> HIDE DEF a
  <2>4. QED
    BY <1>2, <1>3, <2>2, <2>3 DEF ClearedReq
<1>7. QED
  BY <1>1, <1>3, <1>5, <1>6, CarriedAccess DEF Goto

\* A request that ends, or goes on to a point where nothing is decided
LEMMA GoneMoves ==
  ASSUME TypeInv, NEW h \in Handlers, req[h].at \notin {"idle", "clear_employee"}, NEW r, Goto(h, r),
         r.at \notin AccessPoints
  PROVE  LetInTurn /\ Starts /\ Settles /\ dropped' = dropped /\ serial' = serial
<1>1. MovesTo(h, r)
  BY GotoMoves
<1>2. dropped' = dropped /\ serial' = serial
  BY DEF Goto
<1>3. r.at \notin {"verified", "toggle"}
  BY DEF AccessPoints
<1>4. QED
  BY <1>1, <1>2, <1>3 DEF LetInTurn, Starts, Settles

LEMMA ToggleSaveAccess ==
  ASSUME TypeInv, NEW h \in Handlers, ToggleOfficeSave(h) PROVE AccessKept
<1> DEFINE o == req[h].who
           s == req[h].status
<1>1. /\ req[h].at = "toggle" /\ Done(h) /\ Admit(o, s = "ACTIVE") /\ UNCHANGED <<office, employee>>
      /\ ToggleSave(h)
  BY DEF ToggleOfficeSave, ToggleSave, At
<1>2. o \in Accounts /\ Exists(o) /\ s \in AccountStatus /\ SetStatus(o, s)
  BY <1>1, ToggleSaveKeeps
<1>3. LetInTurn /\ Starts /\ Settles /\ dropped' = dropped /\ serial' = serial
  BY <1>1, GoneMoves DEF Done, Idle, AccessPoints
<1>4. /\ AccountGrown
      /\ \A a \in Accounts \ {o} : account'[a] = account[a]
      /\ account'[o].status = s
  BY <1>2, StatusSet
<1>5. NoNewStaff /\ \A e \in Employees : StaffOf(e)' => StaffOf(e) /\ employee'[e].account = employee[e].account
  BY <1>1 DEF NoNewStaff, StaffOf, IsOffice
<1>6. LetInInv => s \in {"ACTIVE", "BLOCKED"}
  BY <1>1 DEF LetInInv, LetInReq
<1>7. serial /\ ~ dropped /\ ClearedInv => \A e \in Employees : StaffOf(e) => employee[e].account # o
  BY <1>1 DEF ClearedInv, ClearedReq
<1> HIDE DEF o, s
<1>8. ASSUME LetInInv PROVE LetInInv'
  <2>1. letIn \subseteq letIn' /\ (s = "ACTIVE" => o \in letIn')
    BY <1>1 DEF Admit
  <2>2. LetInRows
    BY <1>4, <1>5, <1>6, <1>8, <2>1 DEF LetInRows, Open, LetsIn
  <2>3. QED
    BY <1>3, <1>4, <1>8, <2>1, <2>2, LetInMoves, LetInGrows
<1>9. ASSUME LetInInv, ClearedInv PROVE ClearedInv'
  <2>1. OneEmployer'
    BY <1>5, <1>9, CalmOneEmployer DEF ClearedInv
  <2>2. CASE serial /\ ~ dropped
    <3>1. Decides(o, s = "ACTIVE")
      BY <1>1, <1>3, <1>4, <1>5, <1>6, <1>7, <1>9, <2>2 DEF Decides, Open, LetsIn
    <3>2. QED
      BY <1>2, <1>3, <1>9, <2>1, <3>1, DecidedCleared
  <2>3. CASE ~ (serial /\ ~ dropped)
    BY <1>3, <2>1, <2>3 DEF ClearedInv
  <2>4. QED
    BY <2>2, <2>3
<1>10. QED
  BY <1>4, <1>8, <1>9 DEF AccessKept

LEMMA ClearEmployeeAccess ==
  ASSUME TypeInv, NEW h \in Handlers, ClearEmployee(h) PROVE AccessKept
<1> DEFINE e == req[h].row
<1>1. /\ req[h].at = "clear_employee" /\ Done(h) /\ account' = account /\ UNCHANGED <<office, letIn, cleared>>
      /\ IF FreeRow(e) THEN UNCHANGED employee
         ELSE SetEmployee(e, [employee[e] EXCEPT !.isActive = FALSE, !.account = None])
  BY DEF ClearEmployee, At, accountVars
<1>2. e \in Employees
  BY <1>1, Holds DEF ReqTyped
<1>3. MovesTo(h, Idle) /\ dropped' = dropped /\ serial' = serial
  BY <1>1, GotoMoves DEF Done, Goto
<1> HIDE DEF e
<1>4. \A f \in Employees : StaffOf(f)' => f # e /\ StaffOf(f) /\ employee'[f].account = employee[f].account
  <2>1. CASE FreeRow(e)
    BY <1>1, <2>1 DEF StaffOf, FreeRow
  <2>2. CASE ~ FreeRow(e)
    <3>1. employee[e] \in Employee
      BY <1>2, <2>2 DEF FreeRow, TypeInv, OfficesTypeOK
    <3>2. [employee[e] EXCEPT !.isActive = FALSE, !.account = None].account = None
      BY <3>1 DEF Employee
    <3>3. QED
      BY <1>1, <1>2, <2>2, <3>2 DEF StaffOf, SetEmployee, TypeInv, OfficesTypeOK
  <2>3. QED
    BY <2>1, <2>2
<1>5. NoNewStaff
  BY <1>1, <1>4 DEF NoNewStaff, IsOffice
<1>6. ASSUME LetInInv PROVE LetInInv'
  <2>1. LetInTurn
    BY <1>3 DEF LetInTurn, Idle, AccessPoints
  <2>2. LetInRows /\ AccountGrown
    BY <1>1, <1>4 DEF LetInRows, AccountGrown
  <2>3. QED
    BY <1>1, <1>6, <2>1, <2>2, LetInMoves, LetInGrows
<1>7. ASSUME ClearedInv PROVE ClearedInv'
  <2>1. OneEmployer'
    BY <1>5, <1>7, CalmOneEmployer DEF ClearedInv
  <2>2. ASSUME serial, ~ dropped
        PROVE  \A f \in Employees : StaffOf(f)' => employee'[f].account \in cleared'
    <3>1. \A f \in Employees : BeingCleared(f) => f = e
      BY <1>3, <2>2 DEF BeingCleared, MovesTo, Idle, e
    <3>2. QED
      BY <1>1, <1>4, <1>7, <2>2, <3>1 DEF ClearedInv
  <2>3. ASSUME serial, ~ dropped PROVE \A a \in Accounts : account'[a] # None /\ Open(account'[a]) => a \in cleared'
    BY <1>1, <1>7, <2>3 DEF ClearedInv, Exists
  <2>4. ASSUME serial PROVE \A g \in Handlers : ClearedReq(req[g])'
    BY <1>3, <2>4, SettledReqs DEF Settles, Idle
  <2>5. QED
    BY <1>3, <2>1, <2>2, <2>3, <2>4, ClearedGrows
<1>8. QED
  BY <1>1, <1>6, <1>7 DEF AccessKept, AccountGrown

\* changeAccountStatusAfterVerification
LEMMA StatusAccess ==
  ASSUME TypeInv, NEW h \in Handlers, StatusAfterVerification(h) PROVE AccessKept
<1> DEFINE o == req[h].who
           s == req[h].status
<1>1. /\ req[h].at = "verified" /\ Goto(h, [at |-> "session", who |-> o]) /\ SetStatus(o, s)
      /\ UNCHANGED officeVars
  BY DEF StatusAfterVerification, At
<1>2. o \in Accounts /\ Exists(o) /\ s \in AccountStatus
  BY <1>1, Holds DEF ReqTyped, Exists
<1>3. LetInTurn /\ Starts /\ Settles /\ dropped' = dropped /\ serial' = serial
  BY <1>1, GoneMoves DEF AccessPoints
<1>4. /\ AccountGrown
      /\ \A a \in Accounts \ {o} : account'[a] = account[a]
      /\ account'[o].status = s /\ account'[o].role = account[o].role
  BY <1>1, <1>2, StatusSet
<1>5. NoNewStaff /\ UNCHANGED <<employee, letIn, cleared>>
  BY <1>1, NothingNew DEF officeVars
<1>6. LetInInv /\ LetsIn(s) /\ account[o].role = "OFFICE" => o \in letIn
  BY <1>1 DEF LetInInv, LetInReq
<1>7. serial /\ ~ dropped /\ ClearedInv /\ LetsIn(s) /\ account[o].role = "OFFICE" => o \in cleared
  BY <1>1 DEF ClearedInv, ClearedReq
<1> HIDE DEF o, s
<1>8. ASSUME LetInInv PROVE LetInInv'
  <2>1. LetInRows
    BY <1>4, <1>5, <1>6, <1>8 DEF LetInRows, StaffOf, Open
  <2>2. QED
    BY <1>3, <1>4, <1>5, <1>8, <2>1, LetInMoves, LetInGrows
<1>9. ASSUME ClearedInv PROVE ClearedInv'
  <2>1. OneEmployer'
    BY <1>5, <1>9, CalmOneEmployer DEF ClearedInv
  <2>2. ASSUME serial, ~ dropped
        PROVE  /\ \A a \in Accounts : account'[a] # None /\ Open(account'[a]) => a \in cleared'
               /\ \A e \in Employees : StaffOf(e)' => employee'[e].account \in cleared'
    <3>1. Firm
      BY <1>3, <1>9, <2>2, FirmFound
    <3>2. ASSUME NEW a \in Accounts, account'[a] # None, Open(account'[a]) PROVE a \in cleared'
      BY <1>4, <1>5, <1>7, <1>9, <2>2, <3>1, <3>2 DEF Firm, Open, Exists
    <3>3. QED
      BY <1>5, <3>1, <3>2 DEF Firm, StaffOf
  <2>3. QED
    BY <1>3, <2>1, <2>2, SettledReqs, ClearedGrows
<1>10. QED
  BY <1>4, <1>8, <1>9 DEF AccessKept

\* verifyPhone saves a row it read. One request at a time it is the row of the table.
LEMMA MarkAccess ==
  ASSUME TypeInv, OwnerInv, NEW h \in Handlers, MarkVerified(h) PROVE AccessKept
<1> DEFINE o == req[h].who
           row == req[h].row
<1>1. /\ req[h].at = "phone_save" /\ Goto(h, [at |-> "member", who |-> o])
      /\ account' = [account EXCEPT ![o] = row] /\ UNCHANGED officeVars
  BY DEF MarkVerified, At
<1>2. o \in Accounts /\ Exists(o) /\ row \in Account /\ row.role = account[o].role
  BY <1>1, Holds DEF ReqTyped, Exists
<1>3. LetInTurn /\ Starts /\ Settles /\ dropped' = dropped /\ serial' = serial
  BY <1>1, GoneMoves DEF AccessPoints
<1>4. AccessTurn
  BY <1>1, AccessGone DEF AccessPoints
<1>5. LetInInv /\ Open(row) => o \in letIn
  BY <1>1 DEF LetInInv, LetInReq
<1>6. serial => row = [account[o] EXCEPT !.verified = TRUE]
  BY <1>1 DEF OwnerInv, OwnerReq
<1> HIDE DEF o, row
<1>7. /\ AccountGrown
      /\ \A a \in Accounts \ {o} : account'[a] = account[a]
      /\ account'[o] = row
  BY <1>1, <1>2, RolesKept, NoneIsNoAccountRow DEF TypeInv
<1>8. NoNewStaff /\ UNCHANGED <<employee, letIn, cleared>>
  BY <1>1, NothingNew DEF officeVars
<1>9. ASSUME LetInInv PROVE LetInInv'
  <2>1. LetInRows
    BY <1>5, <1>7, <1>8, <1>9 DEF LetInRows, StaffOf
  <2>2. QED
    BY <1>3, <1>7, <1>8, <1>9, <2>1, LetInMoves, LetInGrows
<1>10. ASSUME ClearedInv PROVE ClearedInv'
  <2>1. CASE serial
    <3>1. account[o] \in Account
      BY <1>2, RowOf DEF TypeInv
    <3>2. Open(row) => Open(account[o])
      BY <1>6, <2>1, <3>1 DEF Open, Account
    <3>3. OpensNothing
      BY <1>1, <1>2, <1>7, <3>2, WriteOpens DEF TypeInv
    <3>4. QED
      BY <1>1, <1>4, <1>10, <3>3, CalmWrite, CalmCleared
  <2>2. CASE ~ serial
    <3>1. OneEmployer'
      BY <1>8, <1>10, CalmOneEmployer DEF ClearedInv
    <3>2. QED
      BY <1>3, <2>2, <3>1 DEF ClearedInv
  <2>3. QED
    BY <2>1, <2>2
<1>11. QED
  BY <1>7, <1>9, <1>10 DEF AccessKept

LEMMA DropAccess ==
  ASSUME TypeInv, NEW h \in Handlers, Drop(h), UNCHANGED <<rowVars, authVars>> PROVE AccessKept
<1>1. account' = account /\ UNCHANGED officeVars
  BY DEF rowVars, accountVars
<1>2. MovesTo(h, Idle) /\ dropped'
  BY DEF Drop, MovesTo, TypeInv, OneBusy
<1>3. AccountGrown
  BY <1>1 DEF AccountGrown
<1>4. NoNewStaff /\ UNCHANGED <<employee, letIn, cleared>>
  BY <1>1, NothingNew DEF officeVars
<1>5. ASSUME LetInInv PROVE LetInInv'
  <2>1. LetInTurn
    BY <1>2 DEF LetInTurn, Idle, AccessPoints
  <2>2. LetInRows
    BY <1>1, <1>4 DEF LetInRows, StaffOf
  <2>3. QED
    BY <1>3, <1>4, <1>5, <2>1, <2>2, LetInMoves, LetInGrows
<1>6. ASSUME ClearedInv PROVE ClearedInv'
  <2>1. OneEmployer'
    BY <1>4, <1>6, CalmOneEmployer DEF ClearedInv
  <2>2. QED
    BY <1>2, <2>1 DEF ClearedInv
<1>7. QED
  BY <1>3, <1>5, <1>6 DEF AccessKept

-----------------------------------------------------------------------------
(* Every step *)

LEMMA AuthAccess ==
  ASSUME TypeInv, OwnerInv, AuthNext PROVE AccessKept
<1>1. ASSUME NEW h \in Handlers, AuthRequest(h) PROVE AccessKept
  BY <1>1, RequestCalm, CalmAccess
<1>2. ASSUME NEW h \in Handlers, AuthStep(h) PROVE AccessKept
  <2>1. CASE OtpStep(h) /\ UNCHANGED <<officeVars, authVars>>
    BY <2>1, OtpCalm, CalmAccess
  <2>2. CASE UpdatePassword(h)
    BY <2>2, PasswordCalm, CalmAccess
  <2>3. CASE UpdateEmail(h) \/ ChangePhone(h) \/ DeleteAccountRow(h)
    BY <2>3, ContactCalm, CalmAccess
  <2>4. CASE CreateSession(h) \/ RotateRefreshToken(h)
    BY <2>4, SessionsCalm, CalmAccess
  <2>5. CASE MarkVerifiedRead(h)
    BY <2>5, MarkReadAccess
  <2>6. CASE MarkVerified(h)
    BY <2>6, MarkAccess
  <2>7. CASE MembershipRead(h)
    BY <2>7, MembershipAccess
  <2>8. CASE StatusAfterVerification(h)
    BY <2>8, StatusAccess
  <2>9. QED
    BY <1>2, <2>1, <2>2, <2>3, <2>4, <2>5, <2>6, <2>7, <2>8 DEF AuthStep
<1>3. ASSUME NEW h \in Handlers, NEW a \in Accounts, NEW role \in {"USER", "OFFICE"}, NEW e \in Emails,
             NEW p \in Phones, NEW w \in Passwords, NEW n \in Names, Register(h, a, role, e, p, w, n)
      PROVE  AccessKept
  BY <1>3, RegisterCalm, CalmAccess
<1>4. ASSUME NEW a \in Accounts, NEW w \in Passwords, ResetPassword(a, w) PROVE AccessKept
  BY <1>4, PasswordCalm, CalmAccess
<1>5. ASSUME NEW s \in Sessions, Logout(s) PROVE AccessKept
  BY <1>5, SessionsCalm, CalmAccess
<1>6. ASSUME NEW c \in Codes, CodeAges(c), UNCHANGED officeVars PROVE AccessKept
  BY <1>6, SessionsCalm, CalmAccess
<1>7. ASSUME NEW a \in Accounts, ResetTokenExpires(a), UNCHANGED officeVars PROVE AccessKept
  BY <1>7, SessionsCalm, CalmAccess
<1>8. QED
  BY <1>1, <1>2, <1>3, <1>4, <1>5, <1>6, <1>7 DEF AuthNext

LEMMA OfficesAccess ==
  ASSUME TypeInv, OfficesNext, UNCHANGED <<otpVars, authVars>> PROVE AccessKept
<1>1. CASE \/ \E o \in Accounts, f \in {"commerceNumber", "logo"} : FillProfile(o, f)
           \/ \E o \in Accounts, d \in ChangeData : AddChangeRequest(o, d)
           \/ \E o \in Accounts, e \in Employees : AddOfficeEmployee(o, e)
           \/ \E o \in Accounts : DetailsExpire(o)
  BY <1>1, ProfileCalm, CalmAccess
<1>2. ASSUME NEW o \in Accounts, NEW a \in Accounts, NEW e \in Employees, NEW em \in Emails, NEW p \in Phones,
             NEW w \in Passwords, AddOfficeEmployeeWithAccount(o, e, a, em, p, w)
      PROVE  AccessKept
  BY <1>2, AddAccountAccess
<1>3. ASSUME NEW o \in Accounts,
             \/ \E h \in Handlers : ApproveRegistration(h, o)
             \/ RejectRegistration(o)
             \/ \E n \in Names, s \in AccountStatus : UpdateOfficeByAdmin(o, n, s)
      PROVE  AccessKept
  BY <1>3, ReviewAccess
<1>4. ASSUME NEW o \in Accounts, DeleteOffice(o) PROVE AccessKept
  BY <1>4, DeleteOfficeAccess
<1>5. ASSUME NEW h \in Handlers, NEW e \in Employees, RemoveEmployee(h, e) PROVE AccessKept
  BY <1>5, RemoveEmployeeAccess
<1>6. ASSUME NEW h \in Handlers, NEW o \in Accounts, ToggleOfficeRead(h, o) PROVE AccessKept
  BY <1>6, ToggleReadAccess DEF ToggleOfficeRead
<1>7. ASSUME NEW h \in Handlers, NEW o \in Accounts,
             ApproveChangeRead(h, o) \/ RejectChangeRead(h, o) \/ ReadDetails(h, o)
      PROVE  AccessKept
  BY <1>7, ReadsCalm, CalmAccess
<1>8. ASSUME NEW h \in Handlers, ApplyChange(h) \/ DropDetails(h) \/ RejectChange(h) \/ FillDetails(h)
      PROVE  AccessKept
  BY <1>8, ReviewCalm, CalmAccess
<1>9. ASSUME NEW h \in Handlers, ClearEmployee(h) \/ ToggleOfficeSave(h) PROVE AccessKept
  BY <1>9, ClearEmployeeAccess, ToggleSaveAccess
<1>10. QED
  BY <1>1, <1>2, <1>3, <1>4, <1>5, <1>6, <1>7, <1>8, <1>9 DEF OfficesNext

LEMMA StepAccess ==
  ASSUME TypeInv, OwnerInv, [IdentityNext]_identityVars PROVE AccessKept
<1>1. CASE AdminNext /\ UNCHANGED <<officeVars, otpVars, authVars>>
  <2>1. ASSUME NEW h \in Handlers, NEW a \in Accounts, ~ HasRole(a, "OFFICE"), ToggleRead(h, a)
        PROVE  AccessKept
    BY <1>1, <2>1, ToggleReadAccess
  <2>2. QED
    BY <1>1, <2>1, AdminCalm, CalmAccess
<1>2. CASE OfficesNext /\ UNCHANGED <<otpVars, authVars>>
  BY <1>2, OfficesAccess
<1>3. CASE AuthNext
  BY <1>3, AuthAccess
<1>4. ASSUME NEW h \in Handlers, TrialDone(h) PROVE AccessKept
  BY <1>4, SessionsCalm, CalmAccess
<1>5. ASSUME NEW h \in Handlers, Drop(h), UNCHANGED <<rowVars, authVars>> PROVE AccessKept
  BY <1>5, DropAccess
<1>6. CASE UNCHANGED identityVars
  BY <1>6, SessionsCalm, CalmAccess
<1>7. QED
  BY <1>1, <1>2, <1>3, <1>4, <1>5, <1>6 DEF IdentityNext, IdentityEdits, AdminNext

LEMMA IdentityAccess == IdentitySpec => [](LetInInv /\ ClearedInv)
<1>1. IdentityInit => LetInInv /\ ClearedInv
  BY DEF IdentityInit, AccountsInit, OfficesInit, RequestsInit, Idle, LetInInv, ClearedInv, OneEmployer, StaffOf,
         Exists, LetInReq, ClearedReq
<1>2. TypeInv /\ OwnerInv /\ LetInInv /\ ClearedInv /\ [IdentityNext]_identityVars => (LetInInv /\ ClearedInv)'
  BY StepAccess DEF AccessKept
<1>3. QED
  BY <1>1, <1>2, IdentityTyped, IdentityOwners, PTL DEF IdentitySpec

\* The interceptor serves the open offices, the blocked ones aside.
LEMMA ServedAreOpen ==
  ASSUME TypeInv, NEW a \in ServedOffices PROVE a \in Accounts /\ Exists(a) /\ Open(account[a])
<1>1. a \in Accounts /\ HasRole(a, "OFFICE") /\ account[a].status # "BLOCKED" /\ Served(a)
  BY DEF ServedOffices
<1>2. Exists(a) /\ account[a].role = "OFFICE" /\ account[a].status \in AccountStatus
  BY <1>1, RowOf DEF HasRole, TypeInv, Account
<1>3. QED
  BY <1>1, <1>2 DEF Served, Open, LetsIn, AccountStatus

\* However requests overlap, an office account that is served was let in once; one request at
\* a time and none cut, it was let in by an admin or an employer who has not put it out since.
THEOREM ServedOfficesAreLetIn == IdentitySpec => []OfficeAccessGranted
<1>1. TypeInv /\ LetInInv /\ ClearedInv => OfficeAccessGranted
  BY ServedAreOpen DEF LetInInv, ClearedInv, OfficeAccessGranted, ActiveOfficeCleared, NeverActiveUnasked
<1>2. QED
  BY <1>1, IdentityTyped, IdentityAccess, PTL

-----------------------------------------------------------------------------
(* What getOfficeDetails shows *)

Shown(o) == details[o] \in {None, office[o].name}
BeingDropped(o) == \E h \in Handlers : req[h].at = "drop_details" /\ req[h].who = o

\* One at a time, a reader that fills the cache has read what the profile still says.
FillReq(r) == r.at = "fill_details" => IsOffice(r.who) /\ r.name = office[r.who].name

DetailsInv ==
  serial =>
    /\ \A a \in Accounts : ~ Exists(a) => details[a] = None
    /\ \A h \in Handlers : FillReq(req[h])
    /\ ~ dropped => \A o \in Accounts \ edited : IsOffice(o) => Shown(o) \/ BeingDropped(o)

OfficePoints == {"apply_change", "drop_details", "reject_change", "fill_details"}

\* A request that does not concern what an office shows
OtherTurn ==
  \/ UNCHANGED reqVars
  \/ \E h \in Handlers : \E r :
       /\ MovesTo(h, r) /\ dropped' = dropped
       /\ req[h].at \notin OfficePoints /\ r.at \notin OfficePoints

LEMMA OtherBegun ==
  ASSUME NEW h \in Handlers, NEW r, Begin(h, r), r.at \notin OfficePoints PROVE OtherTurn
<1>1. MovesTo(h, r)
  BY BeginMoves
<1>2. req[h].at \notin OfficePoints /\ dropped' = dropped
  BY DEF Begin, Idle, OfficePoints
<1>3. QED
  BY <1>1, <1>2 DEF OtherTurn

LEMMA OtherGone ==
  ASSUME TypeInv, NEW h \in Handlers, req[h].at \notin OfficePoints \union {"idle"}, NEW r, Goto(h, r),
         r.at \notin OfficePoints
  PROVE  OtherTurn
<1>1. MovesTo(h, r) /\ dropped' = dropped
  BY GotoMoves DEF Goto
<1>2. QED
  BY <1>1 DEF OtherTurn

LEMMA OtherDone ==
  ASSUME TypeInv, NEW h \in Handlers, req[h].at \notin OfficePoints \union {"idle"}, Done(h) PROVE OtherTurn
  BY OtherGone DEF Done, Idle, OfficePoints

LEMMA OtherStayed == ASSUME UNCHANGED reqVars PROVE OtherTurn
  BY DEF OtherTurn

LEMMA RequestOther ==
  ASSUME TypeInv, NEW h \in Handlers, AuthRequest(h) PROVE OtherTurn
<1>1. ASSUME NEW id \in Identifiers, NEW p \in Purposes, RequestCode(h, id, p) PROVE OtherTurn
  BY <1>1, OtherBegun DEF RequestCode, OfficePoints
<1>2. ASSUME NEW id \in Identifiers, NEW p \in Purposes, NEW right \in BOOLEAN, EnterCode(h, id, p, right)
      PROVE  OtherTurn
  BY <1>2, OtherBegun DEF EnterCode, OfficePoints
<1>3. ASSUME NEW a \in Accounts, NEW w \in Passwords, UpdatePasswordRead(h, a, w) PROVE OtherTurn
  BY <1>3, OtherBegun DEF UpdatePasswordRead, OfficePoints
<1>4. ASSUME NEW a \in Accounts, NEW e \in Emails, UpdateEmailRead(h, a, e) PROVE OtherTurn
  BY <1>4, OtherBegun DEF UpdateEmailRead, OfficePoints
<1>5. ASSUME NEW a \in Accounts, NEW p \in Phones, ChangePhoneRead(h, a, p) PROVE OtherTurn
  BY <1>5, OtherBegun DEF ChangePhoneRead, OfficePoints
<1>6. ASSUME NEW id \in Identifiers, Login(h, id) PROVE OtherTurn
  BY <1>6, OtherBegun DEF Login, OfficePoints
<1>7. ASSUME NEW s \in Sessions, RefreshRead(h, s) PROVE OtherTurn
  BY <1>7, OtherBegun DEF RefreshRead, OfficePoints
<1>8. ASSUME NEW a \in Accounts, DeleteAccount(h, a) PROVE OtherTurn
  BY <1>8, OtherBegun DEF DeleteAccount, OfficePoints
<1>9. QED
  BY <1>1, <1>2, <1>3, <1>4, <1>5, <1>6, <1>7, <1>8 DEF AuthRequest

LEMMA AuthStepOther ==
  ASSUME TypeInv, NEW h \in Handlers, AuthStep(h) PROVE OtherTurn
<1>1. req[h].at \notin OfficePoints \union {"idle"}
  BY DEF AuthStep, OtpStep, GenerateCheck, GenerateExpire, GenerateInsert, VerifyRead, VerifySave,
         UpdatePassword, UpdateEmail, ChangePhone, MarkVerifiedRead, MarkVerified, MembershipRead,
         StatusAfterVerification, CreateSession, RotateRefreshToken, DeleteAccountRow, At, OfficePoints
<1>2. CASE Done(h)
  BY <1>1, <1>2, OtherDone
<1>3. CASE GenerateCheck(h) /\ ~ Done(h)
  <2>1. [req[h] EXCEPT !.at = "otp_expire"].at = "otp_expire"
    BY <1>3, Holds DEF GenerateCheck, At, ReqTyped
  <2>2. [req[h] EXCEPT !.at = "otp_expire"].at \notin OfficePoints
    BY <2>1 DEF OfficePoints
  <2>3. QED
    BY <1>1, <1>3, <2>2, OtherGone DEF GenerateCheck
<1>4. CASE GenerateExpire(h)
  <2>1. [req[h] EXCEPT !.at = "otp_insert"].at = "otp_insert"
    BY <1>4, Holds DEF GenerateExpire, At, ReqTyped
  <2>2. [req[h] EXCEPT !.at = "otp_insert"].at \notin OfficePoints
    BY <2>1 DEF OfficePoints
  <2>3. QED
    BY <1>1, <1>4, <2>2, OtherGone DEF GenerateExpire
<1>5. CASE VerifyRead(h) /\ ~ Done(h)
  BY <1>1, <1>5, OtherGone DEF VerifyRead, OfficePoints
<1>6. CASE VerifySave(h) /\ ~ Done(h)
  BY <1>1, <1>6, OtherGone DEF VerifySave, OfficePoints
<1>7. CASE ChangePhone(h) /\ ~ Done(h)
  BY <1>1, <1>7, OtherGone DEF ChangePhone, OfficePoints
<1>8. CASE MarkVerifiedRead(h) /\ ~ Done(h)
  BY <1>1, <1>8, OtherGone DEF MarkVerifiedRead, OfficePoints
<1>9. CASE MarkVerified(h)
  BY <1>1, <1>9, OtherGone DEF MarkVerified, OfficePoints
<1>10. CASE MembershipRead(h)
  BY <1>1, <1>10, OtherGone DEF MembershipRead, OfficePoints
<1>11. CASE StatusAfterVerification(h)
  BY <1>1, <1>11, OtherGone DEF StatusAfterVerification, OfficePoints
<1>12. QED
  BY <1>2, <1>3, <1>4, <1>5, <1>6, <1>7, <1>8, <1>9, <1>10, <1>11
     DEF AuthStep, OtpStep, GenerateInsert, UpdatePassword, UpdateEmail, CreateSession, RotateRefreshToken,
         DeleteAccountRow

\* No request is left that shows, or is about to show, another name.
DetailsTurn ==
  \/ AtOnce
  \/ UNCHANGED <<reqVars, office>>
  \/ \E h \in Handlers : \E r :
       MovesTo(h, r) /\ r.at # "fill_details" /\ (req[h].at = "drop_details" => dropped')

\* An office keeps its name, or is new.
NamesKept ==
  \A o \in Accounts : office'[o] # None =>
    (IsOffice(o) /\ office'[o].name = office[o].name) \/ ~ Exists(o)

LEMMA TurnFills ==
  ASSUME TypeInv, DetailsInv, serial, DetailsTurn PROVE \A g \in Handlers : FillReq(req[g])'
<1>1. ASSUME NEW g \in Handlers PROVE FillReq(req[g])'
  <2>1. CASE AtOnce
    BY <2>1 DEF AtOnce, Quiet, Idle, reqVars, FillReq
  <2>2. CASE UNCHANGED <<reqVars, office>>
    BY <2>2 DEF DetailsInv, FillReq, IsOffice, reqVars
  <2>3. ASSUME NEW h \in Handlers, NEW r, MovesTo(h, r), r.at # "fill_details" PROVE FillReq(req[g])'
    BY <2>3, OthersIdle DEF Idle, FillReq
  <2>4. QED
    BY <2>1, <2>2, <2>3 DEF DetailsTurn
<1>2. QED
  BY <1>1

LEMMA TurnDrops ==
  ASSUME TypeInv, DetailsTurn, ~ dropped', NEW o \in Accounts, BeingDropped(o) PROVE BeingDropped(o)'
<1>1. ASSUME NEW g \in Handlers, req[g].at = "drop_details", req[g].who = o PROVE req'[g] = req[g]
  <2>1. CASE AtOnce \/ UNCHANGED <<reqVars, office>>
    BY <2>1 DEF AtOnce, reqVars
  <2>2. ASSUME NEW h \in Handlers, NEW r, MovesTo(h, r), req[h].at # "drop_details" PROVE req'[g] = req[g]
    BY <1>1, <2>2, MoveKeepsOthers
  <2>3. QED
    BY <2>1, <2>2 DEF DetailsTurn
<1>2. QED
  BY <1>1 DEF BeingDropped

LEMMA NamesStay ==
  ASSUME TypeInv, DetailsInv, AccountGrown, serial' = serial, dropped => dropped', NamesKept,
         UNCHANGED <<details, edited>>, DetailsTurn
  PROVE  DetailsInv'
<1> SUFFICES ASSUME serial PROVE DetailsInv'
  BY DEF DetailsInv
<1>1. \A a \in Accounts : account'[a] = None => details'[a] = None
  BY DEF DetailsInv, AccountGrown, Exists
<1>2. \A g \in Handlers : FillReq(req[g])'
  BY TurnFills
<1>3. ASSUME ~ dropped', NEW o \in Accounts \ edited, office'[o] # None
      PROVE  details'[o] \in {None, office'[o].name} \/ BeingDropped(o)'
  <2>1. CASE ~ Exists(o)
    BY <2>1 DEF DetailsInv
  <2>2. CASE Exists(o)
    <3>1. IsOffice(o) /\ office'[o].name = office[o].name
      BY <1>3, <2>2 DEF NamesKept
    <3>2. Shown(o) \/ BeingDropped(o)
      BY <1>3, <3>1 DEF DetailsInv
    <3>3. QED
      BY <1>3, <3>1, <3>2, TurnDrops DEF Shown
  <2>3. QED
    BY <2>1, <2>2
<1>4. QED
  BY <1>1, <1>2, <1>3 DEF DetailsInv, Exists, IsOffice, Shown

LEMMA SameNames == ASSUME office' = office PROVE NamesKept
  BY DEF NamesKept, IsOffice

LEMMA OtherTurns ==
  ASSUME OtherTurn, AtOnce \/ office' = office \/ ~ UNCHANGED reqVars PROVE DetailsTurn /\ (dropped => dropped')
<1>1. CASE UNCHANGED reqVars
  BY <1>1 DEF DetailsTurn, reqVars
<1>2. ASSUME NEW h \in Handlers, NEW r, MovesTo(h, r), dropped' = dropped, req[h].at \notin OfficePoints,
             r.at \notin OfficePoints
      PROVE  DetailsTurn /\ (dropped => dropped')
  BY <1>2 DEF DetailsTurn, OfficePoints
<1>3. QED
  BY <1>1, <1>2 DEF OtherTurn

\* A step that changes no name that is shown
NameCalm == NamesKept /\ UNCHANGED <<details, edited>> /\ DetailsTurn /\ (dropped => dropped')

LEMMA OtherCalm ==
  ASSUME OtherTurn, UNCHANGED officeVars PROVE NameCalm
  BY SameNames, OtherTurns DEF NameCalm, officeVars

LEMMA AuthNames ==
  ASSUME TypeInv, AuthNext PROVE NameCalm
<1>1. ASSUME NEW h \in Handlers, AuthRequest(h) PROVE NameCalm
  <2>1. UNCHANGED officeVars
    BY <1>1 DEF AuthRequest, RequestCode, EnterCode, UpdatePasswordRead, UpdateEmailRead, ChangePhoneRead, Login,
                RefreshRead, DeleteAccount, rowVars
  <2>2. QED
    BY <1>1, <2>1, RequestOther, OtherCalm
<1>2. ASSUME NEW h \in Handlers, AuthStep(h) PROVE NameCalm
  <2>1. UNCHANGED officeVars
    BY <1>2 DEF AuthStep, UpdatePassword, UpdateEmail, ChangePhone, MarkVerifiedRead, MarkVerified, MembershipRead,
                StatusAfterVerification, CreateSession, RotateRefreshToken, DeleteAccountRow, rowVars
  <2>2. QED
    BY <1>2, <2>1, AuthStepOther, OtherCalm
<1>3. ASSUME NEW h \in Handlers, NEW a \in Accounts, NEW role \in {"USER", "OFFICE"}, NEW e \in Emails,
             NEW p \in Phones, NEW w \in Passwords, NEW n \in Names, Register(h, a, role, e, p, w, n)
      PROVE  NameCalm
  <2>1. OtherTurn /\ ~ UNCHANGED reqVars
    <3>1. Begin(h, [at |-> "otp_check", who |-> a, purpose |-> "PHONE_VERIFICATION"])
      BY <1>3 DEF Register
    <3>2. req'[h] = [at |-> "otp_check", who |-> a, purpose |-> "PHONE_VERIFICATION"]
      BY <3>1, BeginMoves, MoveKeepsOthers
    <3>3. req'[h].at = "otp_check"
      BY <3>2
    <3>4. req[h].at = "idle"
      BY <3>1 DEF Begin, Idle
    <3>5. QED
      BY <3>1, <3>3, <3>4, OtherBegun DEF OfficePoints, reqVars
  <2>2. ~ Exists(a) /\ UNCHANGED <<details, edited>> /\ (office' = office \/ SetOffice(a, NewOffice(n)))
    BY <1>3 DEF Register, Create
  <2>3. NamesKept
    BY <2>2 DEF NamesKept, SetOffice, IsOffice, TypeInv, OfficesTypeOK
  <2>4. QED
    BY <2>1, <2>2, <2>3, OtherTurns DEF NameCalm
<1>4. ASSUME UNCHANGED <<reqVars, officeVars>> PROVE NameCalm
  BY <1>4, OtherStayed, OtherCalm
<1>5. ASSUME NEW a \in Accounts, NEW w \in Passwords, ResetPassword(a, w) PROVE NameCalm
  BY <1>4, <1>5 DEF ResetPassword, AtOnce
<1>6. ASSUME NEW s \in Sessions, Logout(s) PROVE NameCalm
  BY <1>4, <1>6 DEF Logout, AtOnce, rowVars
<1>7. ASSUME NEW c \in Codes, CodeAges(c), UNCHANGED officeVars PROVE NameCalm
  BY <1>4, <1>7 DEF CodeAges
<1>8. ASSUME NEW a \in Accounts, ResetTokenExpires(a), UNCHANGED officeVars PROVE NameCalm
  BY <1>4, <1>8 DEF ResetTokenExpires
<1>9. QED
  BY <1>1, <1>2, <1>3, <1>5, <1>6, <1>7, <1>8 DEF AuthNext

LEMMA AdminNames ==
  ASSUME TypeInv, AdminNext, UNCHANGED officeVars PROVE NameCalm
<1>1. ASSUME NEW h \in Handlers, NEW a \in Accounts, ToggleRead(h, a) PROVE OtherTurn
  BY <1>1, OtherBegun DEF ToggleRead, OfficePoints
<1>2. ASSUME NEW h \in Handlers, ToggleSave(h) PROVE OtherTurn
  BY <1>2, OtherDone DEF ToggleSave, At, OfficePoints
<1>3. ASSUME AtOnce PROVE OtherTurn
  BY <1>3, OtherStayed DEF AtOnce
<1>4. OtherTurn
  BY <1>1, <1>2, <1>3, ZenonT(30)
     DEF AdminNext, AdminEdits, CreateAdminAccount, UpdateAdminEmployee, DeleteAdminEmployee, DeleteUser,
         UpdateUser
<1>5. QED
  BY <1>4, OtherCalm

\* An edit of a profile that is not of its name
LEMMA EditNames ==
  ASSUME TypeInv, NEW o \in Accounts, IsOffice(o), NEW row, SetOffice(o, row), row.name = office[o].name
  PROVE  NamesKept
  BY DEF NamesKept, SetOffice, IsOffice, TypeInv, OfficesTypeOK

LEMMA ProfileNames ==
  ASSUME TypeInv,
         \/ \E o \in Accounts, f \in {"commerceNumber", "logo"} : FillProfile(o, f)
         \/ \E o \in Accounts, d \in ChangeData : AddChangeRequest(o, d)
         \/ \E o \in Accounts, e \in Employees : AddOfficeEmployee(o, e)
         \/ \E o, a \in Accounts, e \in Employees, em \in Emails, p \in Phones, w \in Passwords :
              AddOfficeEmployeeWithAccount(o, e, a, em, p, w)
         \/ \E o \in Accounts : RejectRegistration(o) \/ DeleteOffice(o)
  PROVE  NameCalm
<1>1. AtOnce /\ UNCHANGED <<details, edited>>
  BY DEF FillProfile, AddChangeRequest, AddOfficeEmployee, AddOfficeEmployeeWithAccount, RejectRegistration, DeleteOffice
<1>2. ASSUME NEW o \in Accounts, NEW f \in {"commerceNumber", "logo"}, FillProfile(o, f) PROVE NamesKept
  <2>1. IsOffice(o) /\ office[o] \in Office /\ SetOffice(o, [office[o] EXCEPT ![f] = TRUE])
    BY <1>2, OfficeExists DEF FillProfile
  <2>2. [office[o] EXCEPT ![f] = TRUE].name = office[o].name
    BY <2>1 DEF Office
  <2>3. QED
    BY <2>1, <2>2, EditNames
<1>3. ASSUME NEW o \in Accounts, NEW d \in ChangeData, AddChangeRequest(o, d) PROVE NamesKept
  <2>1. IsOffice(o) /\ office[o] \in Office
        /\ SetOffice(o, [office[o] EXCEPT !.change = "PENDING", !.data = d])
    BY <1>3, OfficeExists DEF AddChangeRequest
  <2>2. [office[o] EXCEPT !.change = "PENDING", !.data = d].name = office[o].name
    BY <2>1 DEF Office
  <2>3. QED
    BY <2>1, <2>2, EditNames
<1>4. ASSUME NEW o \in Accounts, DeleteOffice(o) PROVE NamesKept
  BY <1>4 DEF DeleteOffice, SetOffice, NamesKept, IsOffice, TypeInv, OfficesTypeOK
<1>5. NamesKept
  BY <1>2, <1>3, <1>4, SameNames DEF AddOfficeEmployee, AddOfficeEmployeeWithAccount, RejectRegistration
<1>6. QED
  BY <1>1, <1>5 DEF NameCalm, DetailsTurn, AtOnce, reqVars

LEMMA StaffNames ==
  ASSUME TypeInv, NEW h \in Handlers,
         \/ \E e \in Employees : RemoveEmployee(h, e)
         \/ \E o \in Accounts : ApproveRegistration(h, o) \/ ToggleOfficeRead(h, o)
         \/ ClearEmployee(h) \/ ToggleOfficeSave(h)
  PROVE  NameCalm
<1>1. UNCHANGED <<office, details, edited>>
  BY DEF RemoveEmployee, ApproveRegistration, ToggleOfficeRead, ClearEmployee, ToggleOfficeSave, officeVars
<1>2. ASSUME NEW e \in Employees, RemoveEmployee(h, e) PROVE OtherTurn
  BY <1>2, OtherBegun DEF RemoveEmployee, OfficePoints
<1>3. ASSUME NEW o \in Accounts, ApproveRegistration(h, o) PROVE OtherTurn
  BY <1>3, OtherBegun DEF ApproveRegistration, OfficePoints
<1>4. ASSUME NEW o \in Accounts, ToggleOfficeRead(h, o) PROVE OtherTurn
  BY <1>4, OtherBegun DEF ToggleOfficeRead, ToggleRead, OfficePoints
<1>5. ASSUME ClearEmployee(h) \/ ToggleOfficeSave(h) PROVE OtherTurn
  BY <1>5, OtherDone DEF ClearEmployee, ToggleOfficeSave, ToggleSave, At, OfficePoints
<1>6. OtherTurn
  BY <1>2, <1>3, <1>4, <1>5
<1>7. QED
  BY <1>1, <1>6, SameNames, OtherTurns DEF NameCalm

\* The requests on changes that change no name
LEMMA ReviewNames ==
  ASSUME TypeInv, NEW h \in Handlers,
         \/ \E o \in Accounts : ApproveChangeRead(h, o) \/ RejectChangeRead(h, o)
         \/ RejectChange(h)
  PROVE  NameCalm
<1>1. ASSUME NEW r, Begin(h, r), r.at # "fill_details", UNCHANGED officeVars PROVE NameCalm
  <2>1. MovesTo(h, r)
    BY <1>1, BeginMoves
  <2>2. req[h].at # "drop_details" /\ dropped' = dropped
    BY <1>1 DEF Begin, Idle
  <2>3. QED
    BY <1>1, <2>1, <2>2, SameNames DEF NameCalm, DetailsTurn, officeVars
<1>2. ASSUME NEW o \in Accounts, ApproveChangeRead(h, o) \/ RejectChangeRead(h, o) PROVE NameCalm
  BY <1>1, <1>2 DEF ApproveChangeRead, RejectChangeRead
<1>3. CASE RejectChange(h)
  <2>1. /\ req[h].at = "reject_change" /\ req[h].who \in Accounts
        /\ UNCHANGED <<details, edited>> /\ Done(h)
    BY <1>3, Holds DEF RejectChange, At, ReqTyped
  <2>2. MovesTo(h, Idle) /\ dropped' = dropped
    BY <2>1, GotoMoves DEF Done, Goto
  <2>3. NamesKept
    <3>1. CASE ~ IsOffice(req[h].who)
      BY <1>3, <3>1, SameNames DEF RejectChange
    <3>2. CASE IsOffice(req[h].who)
      <4>1. [office[req[h].who] EXCEPT !.change = "REJECTED"].name = office[req[h].who].name
        BY <2>1, <3>2, OfficeExists DEF Office
      <4>2. QED
        BY <1>3, <2>1, <3>2, <4>1, EditNames DEF RejectChange
    <3>3. QED
      BY <3>1, <3>2
  <2>4. QED
    BY <2>1, <2>2, <2>3 DEF NameCalm, DetailsTurn, Idle
<1>4. QED
  BY <1>2, <1>3

\* The step of a request alone on its way
LEMMA AloneOnItsWay ==
  ASSUME TypeInv, serial, NEW h \in Handlers, req[h].at # "idle"
  PROVE  \A g \in Handlers \ {h} : req[g] = Idle
<1>1. req[h] # Idle
  BY DEF Idle
<1>2. QED
  BY <1>1 DEF TypeInv, OneBusy

\* updateOfficeByAdmin leaves the cache as it is: what it shows then is an edited office.
LEMMA UpdateOfficeNames ==
  ASSUME TypeInv, DetailsInv, AccountGrown, NEW o \in Accounts, NEW n \in Names, NEW s \in AccountStatus,
         UpdateOfficeByAdmin(o, n, s)
  PROVE  DetailsInv'
<1>1. /\ IsOffice(o) /\ AtOnce /\ details' = details
      /\ SetOffice(o, [office[o] EXCEPT !.name = n])
      /\ edited' = IF details[o] = None THEN edited ELSE edited \union {o}
  BY DEF UpdateOfficeByAdmin
<1> SUFFICES ASSUME serial PROVE DetailsInv'
  BY <1>1 DEF DetailsInv, AtOnce, reqVars
<1>2. \A a \in Accounts : account'[a] = None => details'[a] = None
  BY <1>1 DEF DetailsInv, AccountGrown, Exists
<1>3. \A g \in Handlers : req'[g] = Idle
  BY <1>1 DEF AtOnce, Quiet, reqVars
<1>4. \A g \in Handlers : FillReq(req[g])'
  BY <1>3 DEF FillReq, Idle
<1>5. ASSUME ~ dropped', NEW b \in Accounts \ edited', office'[b] # None
      PROVE  details'[b] \in {None, office'[b].name}
  <2>1. CASE b = o
    BY <1>1, <1>5, <2>1
  <2>2. CASE b # o
    <3>1. office'[b] = office[b] /\ b \notin edited /\ ~ dropped
      BY <1>1, <1>5, <2>2 DEF SetOffice, TypeInv, OfficesTypeOK, AtOnce, reqVars
    <3>2. ~ BeingDropped(b)
      BY <1>1 DEF AtOnce, Quiet, Idle, BeingDropped
    <3>3. QED
      BY <1>1, <1>5, <3>1, <3>2 DEF DetailsInv, Shown, IsOffice
  <2>3. QED
    BY <2>1, <2>2
<1>6. QED
  BY <1>2, <1>4, <1>5 DEF DetailsInv, Exists, IsOffice, Shown

\* An approved change goes on to drop the details that show the old name.
LEMMA ApplyNames ==
  ASSUME TypeInv, DetailsInv, AccountGrown, NEW h \in Handlers, ApplyChange(h) PROVE DetailsInv'
<1> DEFINE o == req[h].who
           row == [office[o] EXCEPT !.name = req[h].data.name, !.change = "APPROVED", !.data = None]
           r == [at |-> "drop_details", who |-> o]
<1>1. req[h].at = "apply_change"
  BY DEF ApplyChange, At
<1>2. o \in Accounts
  BY <1>1, Holds DEF ReqTyped
<1>3. CASE Done(h) /\ UNCHANGED <<accountVars, officeVars>>
  <2>1. MovesTo(h, Idle) /\ dropped' = dropped
    BY <1>1, <1>3, GotoMoves DEF Done, Goto
  <2>2. Idle.at = "idle"
    BY DEF Idle
  <2>3. NameCalm /\ serial' = serial
    BY <1>1, <1>3, <2>1, <2>2, SameNames DEF NameCalm, DetailsTurn, officeVars, MovesTo
  <2>4. QED
    BY <2>3, NamesStay DEF NameCalm
<1>4. CASE ~ (Done(h) /\ UNCHANGED <<accountVars, officeVars>>)
  <2>1. IsOffice(o) /\ SetOffice(o, row) /\ Goto(h, r) /\ UNCHANGED <<details, edited>>
    BY <1>4 DEF ApplyChange
  <2>2. MovesTo(h, r) /\ dropped' = dropped /\ serial' = serial
    BY <1>1, <2>1, GotoMoves DEF Goto
  <2> SUFFICES ASSUME serial PROVE DetailsInv'
    BY <2>2 DEF DetailsInv
  <2>3. req'[h] = r /\ \A g \in Handlers \ {h} : req'[g] = Idle
    BY <2>2, OthersIdle
  <2>4. req'[h].at = "drop_details" /\ req'[h].who = o
    BY <2>3
  <2>5. \A g \in Handlers : FillReq(req[g])'
    BY <2>3, <2>4 DEF FillReq, Idle
  <2>6. \A a \in Accounts : account'[a] = None => details'[a] = None
    BY <2>1 DEF DetailsInv, AccountGrown, Exists
  <2>7. ASSUME NEW b \in Accounts, b = o PROVE BeingDropped(b)'
    BY <2>4, <2>7 DEF BeingDropped
  <2>8. ASSUME ~ dropped', NEW b \in Accounts \ edited', office'[b] # None, b # o
        PROVE  details'[b] \in {None, office'[b].name}
    <3>1. office'[b] = office[b] /\ b \notin edited /\ ~ dropped
      BY <1>2, <2>1, <2>2, <2>8 DEF SetOffice, TypeInv, OfficesTypeOK
    <3>2. ~ BeingDropped(b)
      BY <1>1, AloneOnItsWay DEF BeingDropped, Idle
    <3>3. QED
      BY <2>1, <2>8, <3>1, <3>2 DEF DetailsInv, Shown, IsOffice
  <2>9. QED
    BY <2>5, <2>6, <2>7, <2>8 DEF DetailsInv, Exists, IsOffice, Shown
<1>5. QED
  BY <1>3, <1>4

\* A request on the details ends: it shows what the profile says, or drops what is shown.
LEMMA ShowNames ==
  ASSUME TypeInv, DetailsInv, AccountGrown, NEW h \in Handlers, DropDetails(h) \/ FillDetails(h)
  PROVE  DetailsInv'
<1>1. /\ req[h].at \in {"drop_details", "fill_details"} /\ req[h].who \in Accounts
      /\ Done(h) /\ UNCHANGED <<account, office>>
  BY Holds DEF DropDetails, FillDetails, At, ReqTyped, accountVars
<1>2. MovesTo(h, Idle) /\ dropped' = dropped /\ serial' = serial
  BY <1>1, GotoMoves DEF Done, Goto
<1> SUFFICES ASSUME serial PROVE DetailsInv'
  BY <1>2 DEF DetailsInv
<1>3. \A g \in Handlers : req'[g] = Idle
  BY <1>2, OthersIdle
<1>4. \A g \in Handlers : FillReq(req[g])'
  BY <1>3 DEF FillReq, Idle
<1>5. FillReq(req[h])
  BY DEF DetailsInv
<1>6. details'[req[h].who] = None \/ (IsOffice(req[h].who) /\ details'[req[h].who] = office[req[h].who].name)
  BY <1>1, <1>5 DEF DropDetails, FillDetails, At, FillReq, TypeInv, OfficesTypeOK
<1>7. \A b \in Accounts \ {req[h].who} : details'[b] = details[b] /\ (b \in edited => b \in edited')
  BY DEF DropDetails, FillDetails, TypeInv, OfficesTypeOK
<1>8. \A a \in Accounts : account'[a] = None => details'[a] = None
  <2>1. ASSUME NEW a \in Accounts, account'[a] = None PROVE details'[a] = None
    <3>1. ~ Exists(a)
      BY <1>1, <2>1 DEF Exists
    <3>2. ~ IsOffice(a)
      BY <3>1, OfficeExists
    <3>3. details[a] = None
      BY <3>1 DEF DetailsInv
    <3>4. QED
      BY <1>6, <1>7, <3>2, <3>3
  <2>2. QED
    BY <2>1
<1>9. ASSUME ~ dropped', NEW b \in Accounts \ edited', office'[b] # None
      PROVE  details'[b] \in {None, office'[b].name}
  <2>1. CASE b = req[h].who
    BY <1>1, <1>6, <2>1
  <2>2. CASE b # req[h].who
    <3>1. ~ BeingDropped(b)
      BY <1>1, <2>2, AloneOnItsWay DEF BeingDropped, Idle
    <3>2. Shown(b)
      BY <1>1, <1>2, <1>7, <1>9, <2>2, <3>1 DEF DetailsInv, IsOffice
    <3>3. QED
      BY <1>1, <1>7, <2>2, <3>2 DEF Shown
  <2>3. QED
    BY <2>1, <2>2
<1>10. QED
  BY <1>4, <1>8, <1>9 DEF DetailsInv, Exists, IsOffice, Shown

LEMMA ReadNames ==
  ASSUME TypeInv, DetailsInv, NEW h \in Handlers, NEW a \in Accounts, ReadDetails(h, a) PROVE DetailsInv'
<1> DEFINE o == IF IsOffice(a) THEN a ELSE OfficeOf(a)
           r == [at |-> "fill_details", who |-> o, name |-> office[o].name]
<1>1. IsOffice(o) /\ Begin(h, r) /\ UNCHANGED <<accountVars, officeVars>>
  BY DEF ReadDetails
<1>2. MovesTo(h, r) /\ dropped' = dropped /\ serial' = serial
  BY <1>1, BeginMoves DEF Begin
<1> SUFFICES ASSUME serial PROVE DetailsInv'
  BY <1>2 DEF DetailsInv
<1>3. req'[h] = r /\ \A g \in Handlers \ {h} : req'[g] = Idle
  BY <1>2, OthersIdle
<1>4. office'[req'[h].who] # None /\ req'[h].name = office'[req'[h].who].name
  BY <1>1, <1>3 DEF officeVars, IsOffice
<1>5. \A g \in Handlers : FillReq(req[g])'
  BY <1>3, <1>4 DEF FillReq, Idle, IsOffice
<1>6. \A b \in Accounts : ~ BeingDropped(b)
  BY <1>1 DEF Begin, Quiet, BeingDropped, Idle
<1>7. QED
  BY <1>1, <1>2, <1>5, <1>6 DEF DetailsInv, Exists, IsOffice, Shown, officeVars, accountVars

LEMMA ExpireNames ==
  ASSUME TypeInv, DetailsInv, NEW o \in Accounts, DetailsExpire(o) PROVE DetailsInv'
<1>1. /\ UNCHANGED <<account, office, req, serial, dropped>> /\ details' = [details EXCEPT ![o] = None]
      /\ edited' = edited \ {o}
  BY DEF DetailsExpire, accountVars, reqVars
<1>2. \A b \in Accounts : details'[b] = None \/ (details'[b] = details[b] /\ (b \in edited => b \in edited'))
  BY <1>1 DEF TypeInv, OfficesTypeOK
<1>3. QED
  BY <1>1, <1>2 DEF DetailsInv, FillReq, BeingDropped, Exists, IsOffice, Shown

LEMMA OfficesNames ==
  ASSUME TypeInv, DetailsInv, AccountGrown, serial' = serial, OfficesNext PROVE DetailsInv'
<1>1. ASSUME NameCalm PROVE DetailsInv'
  BY <1>1, NamesStay DEF NameCalm
<1>2. CASE \/ \E o \in Accounts, f \in {"commerceNumber", "logo"} : FillProfile(o, f)
           \/ \E o \in Accounts, d \in ChangeData : AddChangeRequest(o, d)
           \/ \E o \in Accounts, e \in Employees : AddOfficeEmployee(o, e)
           \/ \E o, a \in Accounts, e \in Employees, em \in Emails, p \in Phones, w \in Passwords :
                AddOfficeEmployeeWithAccount(o, e, a, em, p, w)
           \/ \E o \in Accounts : RejectRegistration(o) \/ DeleteOffice(o)
  BY <1>1, <1>2, ProfileNames
<1>3. ASSUME NEW h \in Handlers,
             \/ \E e \in Employees : RemoveEmployee(h, e)
             \/ \E o \in Accounts : ApproveRegistration(h, o) \/ ToggleOfficeRead(h, o)
             \/ ClearEmployee(h) \/ ToggleOfficeSave(h)
      PROVE  DetailsInv'
  BY <1>1, <1>3, StaffNames
<1>4. ASSUME NEW h \in Handlers,
             \/ \E o \in Accounts : ApproveChangeRead(h, o) \/ RejectChangeRead(h, o)
             \/ RejectChange(h)
      PROVE  DetailsInv'
  BY <1>1, <1>4, ReviewNames
<1>5. QED
  BY <1>2, <1>3, <1>4, UpdateOfficeNames, ApplyNames, ShowNames, ReadNames, ExpireNames DEF OfficesNext

LEMMA DetailsInvStays ==
  ASSUME TypeInv, OwnerInv, DetailsInv, [IdentityNext]_identityVars PROVE DetailsInv'
<1>1. AccountGrown /\ serial' = serial
  BY StepAccess, SerialStays DEF AccessKept
<1>2. ASSUME NameCalm PROVE DetailsInv'
  BY <1>1, <1>2, NamesStay DEF NameCalm
<1>3. CASE AuthNext
  BY <1>2, <1>3, AuthNames
<1>4. CASE AdminNext /\ UNCHANGED <<officeVars, otpVars, authVars>>
  BY <1>2, <1>4, AdminNames
<1>5. CASE OfficesNext
  BY <1>1, <1>5, OfficesNames
<1>6. ASSUME NEW h \in Handlers, TrialDone(h) PROVE NameCalm
  BY <1>6, OtherDone, OtherCalm DEF TrialDone, At, OfficePoints, rowVars
<1>7. ASSUME NEW h \in Handlers, Drop(h), UNCHANGED <<rowVars, authVars>> PROVE NameCalm
  <2>1. MovesTo(h, Idle) /\ dropped'
    BY <1>7 DEF Drop, MovesTo, TypeInv, OneBusy
  <2>2. Idle.at = "idle"
    BY DEF Idle
  <2>3. QED
    BY <1>7, <2>1, <2>2, SameNames DEF NameCalm, DetailsTurn, rowVars, officeVars
<1>8. CASE UNCHANGED identityVars
  BY <1>2, <1>8, OtherStayed, OtherCalm DEF identityVars, rowVars
<1>9. QED
  BY <1>2, <1>3, <1>4, <1>5, <1>6, <1>7, <1>8 DEF IdentityNext, IdentityEdits, AdminNext

LEMMA IdentityDetails == IdentitySpec => []DetailsInv
<1>1. IdentityInit => DetailsInv
  BY DEF IdentityInit, OfficesInit, RequestsInit, Idle, DetailsInv, FillReq, IsOffice
<1>2. TypeInv /\ OwnerInv /\ DetailsInv /\ [IdentityNext]_identityVars => DetailsInv'
  BY DetailsInvStays
<1>3. QED
  BY <1>1, <1>2, IdentityTyped, IdentityOwners, PTL DEF IdentitySpec

\* What getOfficeDetails shows is the profile as it is, one request at a time and none cut,
\* unless an admin edited it after it was cached.
THEOREM ShownNamesAreCurrent == IdentitySpec => []ShownNameCurrent
<1>1. DetailsInv => ShownNameCurrent
  BY DEF DetailsInv, ShownNameCurrent, Shown, BeingDropped, Quiet, Idle
<1>2. QED
  BY <1>1, IdentityDetails, PTL

-----------------------------------------------------------------------------
(* The rows that reports read *)

ReportTables ==
  /\ now \in Instants
  /\ made \in [OfferRows -> MadeOffer \union {None}]
  /\ paid \in [PaymentRows -> PaidRow \union {None}]
  /\ joined \in [Accounts -> [at : Instants] \union {None}]

\* An account has the date of its row, one that is past.
Joined ==
  \A a \in Accounts : /\ Exists(a) <=> joined[a] # None
                      /\ Exists(a) => joined[a].at <= now

\* An offer was made by an office that had joined, and stays as long as the offer does.
OffersOfOffices ==
  \A o \in OfferRows : made[o] # None =>
    IsOffice(made[o].office) /\ joined[made[o].office].at <= made[o].at /\ made[o].at <= now

\* Users pay for bookings, after they joined; nobody else does.
PaymentsOfPayers ==
  \A p \in PaymentRows : paid[p] # None =>
    LET row == paid[p] IN
    /\ row.at <= now
    /\ Exists(row.payer)
    /\ IF account[row.payer].role = "USER"
       THEN row.type \in BookingTypes /\ joined[row.payer].at <= row.at
       ELSE row.type = "SUBSCRIPTION"

ProfilesOfUsers == profile \subseteq {a \in Accounts : HasRole(a, "USER")}

ReportRows == Joined /\ OffersOfOffices /\ PaymentsOfPayers /\ ProfilesOfUsers

ReportInv == TypeInv /\ OwnerInv /\ ReportTables /\ ReportRows

\* A step of the rows leaves the accounts alone.
RowsAlone == UNCHANGED <<identityVars, joined, profile>>

LEMMA SamePeople ==
  ASSUME RowsAlone
  PROVE  account' = account /\ office' = office /\ joined' = joined /\ profile' = profile
  BY DEF RowsAlone, identityVars, rowVars, accountVars, officeVars

LEMMA MadeRow ==
  ASSUME ReportTables, NEW o \in OfferRows, made[o] # None
  PROVE  made[o] \in MadeOffer
  BY DEF ReportTables

LEMMA PaidRowOf ==
  ASSUME ReportTables, NEW p \in PaymentRows, paid[p] # None
  PROVE  paid[p] \in PaidRow
  BY DEF ReportTables

LEMMA TickKeepsRows ==
  ASSUME ReportInv, Tick, RowsAlone PROVE ReportTables' /\ ReportRows'
<1>1. /\ now \in Nat /\ now' = now + 1 /\ now' \in Instants
      /\ made' = made /\ paid' = paid
  BY NumbersOfReports DEF Tick, ReportInv, ReportTables, Instants
<1>2. ReportTables'
  BY <1>1, SamePeople DEF ReportInv, ReportTables
<1>3. \A t \in Instants : t <= now => t <= now'
  BY <1>1, NumbersOfReports DEF Instants
<1>4. Joined'
  <2>1. \A a \in Accounts : joined[a] # None => joined[a].at \in Instants
    BY DEF ReportInv, ReportTables
  <2>2. QED
    BY <1>3, <2>1, SamePeople DEF ReportInv, ReportRows, Joined, Exists
<1>5. OffersOfOffices'
  <2>1. \A o \in OfferRows : made[o] # None => made[o].at \in Instants
    BY MadeRow DEF ReportInv, MadeOffer
  <2>2. QED
    BY <1>1, <1>3, <2>1, SamePeople DEF ReportInv, ReportRows, OffersOfOffices, IsOffice
<1>6. PaymentsOfPayers'
  <2>1. \A p \in PaymentRows : paid[p] # None => paid[p].at \in Instants
    BY PaidRowOf DEF ReportInv, PaidRow
  <2>2. QED
    BY <1>1, <1>3, <2>1, SamePeople DEF ReportInv, ReportRows, PaymentsOfPayers, Exists
<1>7. ProfilesOfUsers'
  BY SamePeople DEF ReportInv, ReportRows, ProfilesOfUsers, HasRole, Exists
<1>8. QED
  BY <1>2, <1>4, <1>5, <1>6, <1>7 DEF ReportRows

\* The offers change, and nothing else.
LEMMA OffersKeepRows ==
  ASSUME ReportInv, RowsAlone, UNCHANGED <<now, east, paid>>,
         NEW o \in OfferRows, NEW row \in MadeOffer, made' = [made EXCEPT ![o] = row],
         IsOffice(row.office), joined[row.office].at <= row.at, row.at <= now
  PROVE  ReportTables' /\ ReportRows'
<1>1. /\ made' \in [OfferRows -> MadeOffer \union {None}]
      /\ made'[o] = row
      /\ \A r \in OfferRows \ {o} : made'[r] = made[r]
  BY DEF ReportInv, ReportTables
<1>2. OffersOfOffices'
  BY <1>1, SamePeople DEF ReportInv, ReportRows, OffersOfOffices, IsOffice
<1>3. ReportTables'
  BY <1>1, SamePeople DEF ReportInv, ReportTables
<1>4. Joined' /\ PaymentsOfPayers' /\ ProfilesOfUsers'
  BY SamePeople DEF ReportInv, ReportRows, Joined, PaymentsOfPayers, ProfilesOfUsers, HasRole, Exists
<1>5. QED
  BY <1>2, <1>3, <1>4 DEF ReportRows

LEMMA OfferComesKeepsRows ==
  ASSUME ReportInv, RowsAlone, NEW o \in OfferRows, NEW f \in Accounts, NEW x \in Worth, OfferComes(o, f, x)
  PROVE  ReportTables' /\ ReportRows'
<1> DEFINE row == [office |-> f, price |-> x, status |-> "PENDING", at |-> now]
<1>1. now \in Instants /\ now <= now
  BY NumbersOfReports DEF ReportInv, ReportTables, Instants
<1>2. row \in MadeOffer /\ row.office = f /\ row.at = now
  BY <1>1 DEF MadeOffer
<1>3. UNCHANGED <<now, east, paid>> /\ made' = [made EXCEPT ![o] = row] /\ IsOffice(f)
  BY DEF OfferComes
<1>4. joined[f].at <= now
  <2>1. Exists(f)
    BY <1>3, OfficeExists DEF ReportInv
  <2>2. QED
    BY <2>1 DEF ReportInv, ReportRows, Joined
<1> HIDE DEF row
<1>5. QED
  BY <1>1, <1>2, <1>3, <1>4, OffersKeepRows

LEMMA OfferDecidedKeepsRows ==
  ASSUME ReportInv, RowsAlone, NEW o \in OfferRows, NEW s \in {"ACCEPTED", "REJECTED"}, OfferDecided(o, s)
  PROVE  ReportTables' /\ ReportRows'
<1> DEFINE row == [made[o] EXCEPT !.status = s]
<1>1. made[o] \in MadeOffer /\ made[o] # None
  BY MadeRow DEF ReportInv, OfferDecided
<1>2. row \in MadeOffer /\ row.office = made[o].office /\ row.at = made[o].at
  BY <1>1 DEF MadeOffer
<1>3. UNCHANGED <<now, east, paid>> /\ made' = [made EXCEPT ![o] = row]
  BY DEF OfferDecided
<1>4. IsOffice(made[o].office) /\ joined[made[o].office].at <= made[o].at /\ made[o].at <= now
  BY <1>1 DEF ReportInv, ReportRows, OffersOfOffices
<1> HIDE DEF row
<1>5. QED
  BY <1>2, <1>3, <1>4, OffersKeepRows

\* The payments change, and nothing else.
LEMMA PaymentsKeepRows ==
  ASSUME ReportInv, RowsAlone, UNCHANGED <<now, east, made>>,
         NEW p \in PaymentRows, NEW row \in PaidRow, paid' = [paid EXCEPT ![p] = row],
         row.at <= now, Exists(row.payer),
         IF account[row.payer].role = "USER"
         THEN row.type \in BookingTypes /\ joined[row.payer].at <= row.at
         ELSE row.type = "SUBSCRIPTION"
  PROVE  ReportTables' /\ ReportRows'
<1>1. /\ paid' \in [PaymentRows -> PaidRow \union {None}]
      /\ paid'[p] = row
      /\ \A r \in PaymentRows \ {p} : paid'[r] = paid[r]
  BY DEF ReportInv, ReportTables
<1>2. PaymentsOfPayers'
  BY <1>1, SamePeople DEF ReportInv, ReportRows, PaymentsOfPayers, Exists
<1>3. ReportTables'
  BY <1>1, SamePeople DEF ReportInv, ReportTables
<1>4. Joined' /\ OffersOfOffices' /\ ProfilesOfUsers'
  BY SamePeople DEF ReportInv, ReportRows, Joined, OffersOfOffices, IsOffice, ProfilesOfUsers, HasRole, Exists
<1>5. QED
  BY <1>2, <1>3, <1>4 DEF ReportRows

LEMMA PaymentComesKeepsRows ==
  ASSUME ReportInv, RowsAlone, NEW p \in PaymentRows, NEW a \in Accounts,
         NEW t \in BookingTypes \union {"SUBSCRIPTION"}, NEW x \in Worth, PaymentComes(p, a, t, x)
  PROVE  ReportTables' /\ ReportRows'
<1> DEFINE row == [type |-> t, payer |-> a, amount |-> x, status |-> "PENDING", at |-> now,
                   commission |-> IF t = "BOOKING_PARTIAL" THEN 1 ELSE 0]
<1>1. now \in Instants /\ now <= now
  BY NumbersOfReports DEF ReportInv, ReportTables, Instants
<1>2. row \in PaidRow /\ row.type = t /\ row.payer = a /\ row.at = now
  BY <1>1 DEF PaidRow
<1>3. UNCHANGED <<now, east, made>> /\ paid' = [paid EXCEPT ![p] = row]
  BY DEF PaymentComes
<1>4. /\ Exists(a)
      /\ IF account[a].role = "USER" THEN t \in BookingTypes ELSE t = "SUBSCRIPTION"
  <2>1. CASE t = "SUBSCRIPTION"
    BY <2>1, OfficeExists DEF PaymentComes, ReportInv, HasRole
  <2>2. CASE t # "SUBSCRIPTION"
    BY <2>2 DEF PaymentComes, HasRole
  <2>3. QED
    BY <2>1, <2>2
<1>5. joined[a].at <= now
  BY <1>4 DEF ReportInv, ReportRows, Joined
<1> HIDE DEF row
<1>6. QED
  BY <1>1, <1>2, <1>3, <1>4, <1>5, PaymentsKeepRows

LEMMA PaymentSucceedsKeepsRows ==
  ASSUME ReportInv, RowsAlone, NEW p \in PaymentRows, PaymentSucceeds(p)
  PROVE  ReportTables' /\ ReportRows'
<1> DEFINE row == [paid[p] EXCEPT !.status = "SUCCESS"]
<1>1. paid[p] \in PaidRow /\ paid[p] # None
  BY PaidRowOf DEF ReportInv, PaymentSucceeds
<1>2. /\ row \in PaidRow /\ row.type = paid[p].type /\ row.payer = paid[p].payer
      /\ row.at = paid[p].at
  BY <1>1 DEF PaidRow
<1>3. UNCHANGED <<now, east, made>> /\ paid' = [paid EXCEPT ![p] = row]
  BY DEF PaymentSucceeds
<1>4. /\ row.at <= now /\ Exists(row.payer)
      /\ IF account[row.payer].role = "USER"
         THEN row.type \in BookingTypes /\ joined[row.payer].at <= row.at
         ELSE row.type = "SUBSCRIPTION"
  BY <1>1, <1>2 DEF ReportInv, ReportRows, PaymentsOfPayers
<1> HIDE DEF row
<1>5. QED
  BY <1>2, <1>3, <1>4, PaymentsKeepRows

\* A request on accounts or offices: the rows stay, and so do whom they name.
LEMMA PeopleKeepRows ==
  ASSUME ReportInv, AccountGrown, AccountsTypeOK', PeopleStep
  PROVE  ReportTables' /\ ReportRows'
<1>1. now' = now /\ made' = made /\ paid' = paid
  BY DEF PeopleStep, rowsOfReports
<1>2. joined' = [a \in Accounts |-> IF ~Exists(a) /\ Exists(a)' THEN [at |-> now] ELSE joined[a]]
  BY DEF PeopleStep, Dated
<1>3. now \in Instants /\ now <= now
  BY NumbersOfReports DEF ReportInv, ReportTables, Instants
<1>4. [at |-> now] # None /\ [at |-> now] \in [at : Instants]
  BY <1>3, NoneIsNoReportRow
<1>5. ReportTables'
  BY <1>1, <1>2, <1>4 DEF ReportInv, ReportTables
<1>6. \A a \in Accounts : Exists(a) => Exists(a)' /\ joined'[a] = joined[a]
  BY <1>2 DEF AccountGrown, Exists
<1>7. Joined'
  <2> SUFFICES ASSUME NEW a \in Accounts
               PROVE  (Exists(a)' <=> joined'[a] # None) /\ (Exists(a)' => joined'[a].at <= now)
    BY <1>1 DEF Joined, Exists
  <2>1. CASE Exists(a)
    BY <1>6, <2>1 DEF ReportInv, ReportRows, Joined
  <2>2. CASE ~Exists(a) /\ Exists(a)'
    BY <1>2, <1>3, <1>4, <2>2
  <2>3. CASE ~Exists(a) /\ ~Exists(a)'
    BY <1>2, <2>3 DEF ReportInv, ReportRows, Joined
  <2>4. QED
    BY <2>1, <2>2, <2>3
<1>8. OffersOfOffices'
  <2>1. \A o \in OfferRows : made[o] # None => office'[made[o].office] # None
    BY DEF PeopleStep, OfficesOfOffers
  <2>2. ASSUME NEW o \in OfferRows, made[o] # None
        PROVE  /\ office'[made[o].office] # None
               /\ joined'[made[o].office].at <= made[o].at /\ made[o].at <= now
    <3>1. made[o].office \in Accounts
      BY <2>2, MadeRow DEF ReportInv, MadeOffer
    <3>2. /\ IsOffice(made[o].office)
          /\ joined[made[o].office].at <= made[o].at /\ made[o].at <= now
      BY <2>2 DEF ReportInv, ReportRows, OffersOfOffices
    <3>3. joined'[made[o].office] = joined[made[o].office]
      BY <1>6, <3>1, <3>2, OfficeExists DEF ReportInv
    <3>4. QED
      BY <2>1, <2>2, <3>2, <3>3
  <2>3. QED
    BY <1>1, <2>2 DEF OffersOfOffices, IsOffice
<1>9. PaymentsOfPayers'
  <2> SUFFICES ASSUME NEW p \in PaymentRows, paid[p] # None
               PROVE  /\ paid[p].at <= now
                      /\ account'[paid[p].payer] # None
                      /\ IF account'[paid[p].payer].role = "USER"
                         THEN paid[p].type \in BookingTypes /\ joined'[paid[p].payer].at <= paid[p].at
                         ELSE paid[p].type = "SUBSCRIPTION"
    BY <1>1 DEF PaymentsOfPayers, Exists
  <2>1. paid[p].payer \in Accounts
    BY PaidRowOf DEF ReportInv, PaidRow
  <2>2. Exists(paid[p].payer)
    BY DEF ReportInv, ReportRows, PaymentsOfPayers
  <2>3. account'[paid[p].payer].role = account[paid[p].payer].role
    BY <2>1, <2>2 DEF AccountGrown, Exists
  <2>4. /\ account'[paid[p].payer] # None
        /\ joined'[paid[p].payer] = joined[paid[p].payer]
    BY <1>6, <2>1, <2>2 DEF Exists
  <2>5. QED
    BY <2>3, <2>4 DEF ReportInv, ReportRows, PaymentsOfPayers
<1>10. ProfilesOfUsers'
  <2>1. \A a \in profile : a \in Accounts /\ HasRole(a, "USER")'
    BY DEF ReportInv, ReportRows, ProfilesOfUsers, HasRole, Exists, AccountGrown
  <2>2. \A a \in profile' : a \in profile \/ (a \in Accounts /\ HasRole(a, "USER")')
    BY DEF PeopleStep
  <2>3. QED
    BY <2>1, <2>2 DEF ProfilesOfUsers
<1>11. QED
  BY <1>5, <1>7, <1>8, <1>9, <1>10 DEF ReportRows

LEMMA DeleteProfileKeepsRows ==
  ASSUME ReportInv, AccountGrown, NEW a \in Accounts, DeleteProfile(a)
  PROVE  ReportTables' /\ ReportRows'
<1>1. now' = now /\ made' = made /\ paid' = paid /\ joined' = joined
  BY DEF DeleteProfile, rowsOfReports
<1>2. office' = office /\ profile' \subseteq profile
  BY DEF DeleteProfile, identityVars, rowVars, officeVars
<1>3. \A b \in Accounts : Exists(b)' <=> Exists(b)
  <2>1. CASE UNCHANGED identityVars
    BY <2>1 DEF identityVars, rowVars, accountVars, Exists
  <2>2. CASE DeleteUser(a)
    <3>1. \A b \in Accounts \ {a} : account'[b] = account[b]
      BY <2>2 DEF DeleteUser, SoftDelete, ReportInv, TypeInv, AccountTables, AccountsTypeOK
    <3>2. Exists(a)
      BY <2>2 DEF DeleteUser, HasRole
    <3>3. QED
      BY <3>1, <3>2 DEF AccountGrown, Exists
  <2>3. QED
    BY <2>1, <2>2 DEF DeleteProfile
<1>4. ReportTables'
  BY <1>1 DEF ReportInv, ReportTables
<1>5. Joined' /\ OffersOfOffices'
  <2>1. \A b \in Accounts : (Exists(b)' <=> joined[b] # None) /\ (Exists(b)' => joined[b].at <= now)
    BY <1>3 DEF ReportInv, ReportRows, Joined
  <2>2. Joined'
    BY <1>1, <2>1 DEF Joined, Exists
  <2>3. OffersOfOffices'
    BY <1>1, <1>2 DEF ReportInv, ReportRows, OffersOfOffices, IsOffice
  <2>4. QED
    BY <2>2, <2>3
<1>6. PaymentsOfPayers'
  <2> SUFFICES ASSUME NEW p \in PaymentRows, paid[p] # None
               PROVE  /\ paid[p].at <= now
                      /\ account'[paid[p].payer] # None
                      /\ IF account'[paid[p].payer].role = "USER"
                         THEN paid[p].type \in BookingTypes /\ joined[paid[p].payer].at <= paid[p].at
                         ELSE paid[p].type = "SUBSCRIPTION"
    BY <1>1 DEF PaymentsOfPayers, Exists
  <2>1. paid[p].payer \in Accounts /\ Exists(paid[p].payer)
    BY PaidRowOf DEF ReportInv, PaidRow, ReportRows, PaymentsOfPayers
  <2>2. /\ account'[paid[p].payer] # None
        /\ account'[paid[p].payer].role = account[paid[p].payer].role
    BY <2>1 DEF AccountGrown, Exists
  <2>3. QED
    BY <2>2 DEF ReportInv, ReportRows, PaymentsOfPayers
<1>7. ProfilesOfUsers'
  <2>1. \A b \in profile : b \in Accounts /\ HasRole(b, "USER")'
    BY DEF ReportInv, ReportRows, ProfilesOfUsers, HasRole, Exists, AccountGrown
  <2>2. QED
    BY <1>2, <2>1 DEF ProfilesOfUsers
<1>8. QED
  BY <1>4, <1>5, <1>6, <1>7 DEF ReportRows

\* A step of the accounts is one of the identity specification.
LEMMA IdentityKept ==
  ASSUME TypeInv, OwnerInv, [IdentityNext]_identityVars
  PROVE  TypeInv' /\ OwnerInv' /\ AccountGrown
  BY StepTyped, OwnerInvStays, StepAccess DEF AccessKept

LEMMA ReportInvStays ==
  ASSUME ReportInv, [ReportsNext]_<<identityVars, reportVars>> PROVE ReportInv'
<1>1. CASE RowStep
  <2>1. RowsAlone
    BY <1>1 DEF RowStep, RowsAlone
  <2>2. TypeInv' /\ OwnerInv'
    BY <2>1, IdentityKept DEF RowsAlone, ReportInv
  <2>3. ReportTables' /\ ReportRows'
    BY <1>1, <2>1, TickKeepsRows, OfferComesKeepsRows, OfferDecidedKeepsRows, PaymentComesKeepsRows,
       PaymentSucceedsKeepsRows DEF RowStep
  <2>4. QED
    BY <2>2, <2>3 DEF ReportInv
<1>2. CASE IdentityEdits /\ PeopleStep
  <2>1. TypeInv' /\ OwnerInv' /\ AccountGrown
    BY <1>2, IdentityKept DEF IdentityNext, ReportInv
  <2>2. ReportTables' /\ ReportRows'
    BY <1>2, <2>1, PeopleKeepRows DEF TypeInv, AccountTables
  <2>3. QED
    BY <2>1, <2>2 DEF ReportInv
<1>3. ASSUME NEW a \in Accounts, DeleteProfile(a) PROVE ReportInv'
  <2>1. [IdentityNext]_identityVars
    BY <1>3 DEF DeleteProfile, IdentityNext
  <2>2. TypeInv' /\ OwnerInv' /\ AccountGrown
    BY <2>1, IdentityKept DEF ReportInv
  <2>3. QED
    BY <1>3, <2>2, DeleteProfileKeepsRows DEF ReportInv
<1>4. CASE UNCHANGED <<identityVars, reportVars>>
  <2>1. TypeInv' /\ OwnerInv'
    BY <1>4, IdentityKept DEF ReportInv
  <2>2. /\ RowsAlone /\ UNCHANGED <<now, made, paid>>
    BY <1>4 DEF reportVars, rowsOfReports, RowsAlone
  <2>3. ReportTables' /\ ReportRows'
    BY <2>2, SamePeople DEF ReportInv, ReportTables, ReportRows, Joined, OffersOfOffices, PaymentsOfPayers,
       ProfilesOfUsers, IsOffice, HasRole, Exists
  <2>4. QED
    BY <2>1, <2>3 DEF ReportInv
<1>5. QED
  BY <1>1, <1>2, <1>3, <1>4 DEF ReportsNext

LEMMA ReportInvStarts ==
  ASSUME IdentityInit, ReportsInit PROVE ReportInv
<1>1. TypeInv /\ OwnerInv
  <2>1. OwnerInv
    BY DEF IdentityInit, AccountsInit, RequestsInit, Idle, OwnerInv, Owned, Exists, OwnerReq
  <2>2. QED
    BY <2>1, InitTyped
<1>2. \A a \in Accounts : ~Exists(a)
  BY DEF IdentityInit, AccountsInit, Exists
<1>3. now \in Instants
  BY NumbersOfReports DEF ReportsInit, Instants
<1>4. ReportTables
  BY <1>2, <1>3 DEF ReportTables, ReportsInit
<1>5. ReportRows
  BY <1>2 DEF ReportRows, ReportsInit, Joined, OffersOfOffices, PaymentsOfPayers, ProfilesOfUsers, HasRole
<1>6. QED
  BY <1>1, <1>4, <1>5 DEF ReportInv

LEMMA ReportsKept == ReportsSpec => []ReportInv
<1>1. IdentityInit /\ ReportsInit => ReportInv
  BY ReportInvStarts
<1>2. ReportInv /\ [ReportsNext]_<<identityVars, reportVars>> => ReportInv'
  BY ReportInvStays
<1>3. QED
  BY <1>1, <1>2, PTL DEF ReportsSpec

\* Every table that reports read keeps its type.
THEOREM ReportTypes == ReportsSpec => []ReportsTypeOK
<1>1. ReportInv => ReportsTypeOK
  BY DEF ReportInv, ReportsTypeOK, ReportTables, ReportRows, ProfilesOfUsers, TypeInv, AuthTypeOK, AccountTables,
         CodeTables, SessionTables
<1>2. QED
  BY <1>1, ReportsKept, PTL

-----------------------------------------------------------------------------
(* Figures of rows, and what a chart adds up to *)

Prices == [o \in OfferRows |-> IF made[o] = None THEN 0 ELSE made[o].price]
Amounts == [p \in PaymentRows |-> IF paid[p] = None THEN 0 ELSE paid[p].amount]
Commissions == [p \in PaymentRows |-> IF paid[p] = None THEN 0 ELSE paid[p].commission]

OfferSet(rows) == rows \subseteq {o \in OfferRows : made[o] # None}
PaymentSet(rows) == rows \subseteq {p \in PaymentRows : paid[p] # None}

LEMMA FiguresNat ==
  ASSUME ReportTables
  PROVE  /\ \A o \in OfferRows : Prices[o] \in Nat
         /\ \A p \in PaymentRows : Amounts[p] \in Nat /\ Commissions[p] \in Nat
<1>1. ASSUME NEW o \in OfferRows PROVE Prices[o] \in Nat
  <2>1. made[o] # None => made[o].price \in Nat
    BY MadeRow, NumbersOfReports DEF MadeOffer
  <2>2. QED
    BY <2>1 DEF Prices
<1>2. ASSUME NEW p \in PaymentRows PROVE Amounts[p] \in Nat /\ Commissions[p] \in Nat
  <2>1. paid[p] # None => paid[p].amount \in Worth /\ paid[p].commission \in {0, 1}
    BY PaidRowOf DEF PaidRow
  <2>2. paid[p] # None => paid[p].amount \in Nat /\ paid[p].commission \in Nat
    <3>1. {0, 1} \subseteq Nat
      OBVIOUS
    <3>2. QED
      BY <2>1, <3>1, NumbersOfReports
  <2>3. QED
    BY <2>2 DEF Amounts, Commissions
<1>3. QED
  BY <1>1, <1>2

LEMMA OfferFigures ==
  ASSUME ReportTables, NEW rows, OfferSet(rows)
  PROVE  /\ IsFiniteSet(rows)
         /\ \A o \in rows : Prices[o] \in Nat
         /\ Price(rows) = SumOf(Prices, rows)
         /\ Price(rows) \in Nat
<1>1. rows \in SUBSET OfferRows
  BY DEF OfferSet
<1>2. IsFiniteSet(rows) /\ \A o \in rows : Prices[o] \in Nat
  BY <1>1, FS_Subset, TablesAreFinite, FiguresNat
<1>3. SumOf([o \in rows |-> made[o].price], rows) = SumOf(Prices, rows)
  <2> DEFINE f == [o \in rows |-> made[o].price]
  <2>1. \A o \in rows : f[o] = Prices[o]
    BY DEF Prices, OfferSet
  <2> HIDE DEF f
  <2>2. SumOf(f, rows) = SumOf(Prices, rows)
    BY <1>2, <2>1, SumOfSame
  <2>3. QED
    BY <2>2 DEF f
<1>4. SumOf(Prices, rows) \in Nat
  BY <1>2, SumOfNat
<1>5. QED
  BY <1>2, <1>3, <1>4 DEF Price

LEMMA PaymentFigures ==
  ASSUME ReportTables, NEW rows, PaymentSet(rows)
  PROVE  /\ IsFiniteSet(rows)
         /\ \A p \in rows : Amounts[p] \in Nat /\ Commissions[p] \in Nat
         /\ Amount(rows) = SumOf(Amounts, rows)
         /\ Amount(rows) \in Nat
         /\ Subscriptions(rows) = SumOf(Amounts, {p \in rows : paid[p].type = "SUBSCRIPTION"})
         /\ Subscriptions(rows) \in Nat
         /\ Commission(rows) = SumOf(Commissions, {p \in rows : paid[p].type \in BookingTypes})
         /\ Commission(rows) \in Nat
<1>1. ASSUME NEW part, PaymentSet(part)
      PROVE  /\ IsFiniteSet(part)
             /\ \A p \in part : Amounts[p] \in Nat /\ Commissions[p] \in Nat
             /\ Amount(part) = SumOf(Amounts, part)
             /\ SumOf([p \in part |-> paid[p].commission], part) = SumOf(Commissions, part)
             /\ SumOf(Amounts, part) \in Nat /\ SumOf(Commissions, part) \in Nat
  <2>1. part \in SUBSET PaymentRows
    BY <1>1 DEF PaymentSet
  <2>2. IsFiniteSet(part) /\ \A p \in part : Amounts[p] \in Nat /\ Commissions[p] \in Nat
    BY <2>1, FS_Subset, TablesAreFinite, FiguresNat
  <2> DEFINE f == [p \in part |-> paid[p].amount]
             g == [p \in part |-> paid[p].commission]
  <2>3. \A p \in part : f[p] = Amounts[p] /\ g[p] = Commissions[p]
    BY <1>1 DEF Amounts, Commissions, PaymentSet
  <2> HIDE DEF f, g
  <2>4. SumOf(f, part) = SumOf(Amounts, part)
    BY <2>2, <2>3, SumOfSame
  <2>5. SumOf(g, part) = SumOf(Commissions, part)
    BY <2>2, <2>3, SumOfSame
  <2>6. SumOf(Amounts, part) \in Nat /\ SumOf(Commissions, part) \in Nat
    BY <2>2, SumOfNat
  <2>7. Amount(part) = SumOf(Amounts, part)
    BY <2>4 DEF f, Amount
  <2>8. QED
    BY <2>2, <2>5, <2>6, <2>7 DEF g
<1>2. /\ PaymentSet({p \in rows : paid[p].type = "SUBSCRIPTION"})
      /\ PaymentSet({p \in rows : paid[p].type \in BookingTypes})
  BY DEF PaymentSet
<1>3. QED
  BY <1>1, <1>2 DEF Subscriptions, Commission

-----------------------------------------------------------------------------

LEMMA DayOrder ==
  ASSUME NEW s \in Nat, NEW t \in Nat, s <= t
  PROVE  Day(s) \in Nat /\ Day(t) \in Nat /\ Day(s) <= Day(t)
  BY DEF Day

\* Added up over its days, a chart has the figure of every row of its period, those of the
\* first day aside on a server east of UTC.
ChartRows(table, rows, from) == rows \ (IF east THEN FirstDay(table, rows, from) ELSE {})

KeyOf(table, r) == DayKey(Day(table[r].at))

LEMMA ChartKeys ==
  ASSUME NEW from \in Nat, NEW to \in Nat, from <= to, NEW table, NEW rows,
         \A r \in rows : table[r].at \in from..to
  PROVE  /\ IsFiniteSet(Series(from, to))
         /\ {r \in rows : KeyOf(table, r) \in Series(from, to)} = ChartRows(table, rows, from)
<1>1. Day(from) \in Nat /\ Day(to) \in Nat
  BY DEF Day
<1>2. IsFiniteSet(Series(from, to))
  BY <1>1, FS_Interval DEF Series
<1>3. ASSUME NEW r \in rows
      PROVE  KeyOf(table, r) \in Series(from, to) <=> ~ (east /\ Day(table[r].at) = Day(from))
  <2>1. table[r].at \in Nat /\ from <= table[r].at /\ table[r].at <= to
    OBVIOUS
  <2>2. PICK d \in Nat : d = Day(table[r].at) /\ Day(from) <= d /\ d <= Day(to)
    BY <2>1, DayOrder
  <2>3. QED
    BY <1>1, <2>2 DEF KeyOf, DayKey, Series
<1>4. QED
  BY <1>2, <1>3 DEF ChartRows, FirstDay

LEMMA ChartSum ==
  ASSUME NEW from \in Nat, NEW to \in Nat, from <= to, NEW table, NEW rows, IsFiniteSet(rows),
         \A r \in rows : table[r].at \in from..to,
         NEW f, \A r \in rows : f[r] \in Int
  PROVE  SumOf([d \in Series(from, to) |-> SumOf(f, {r \in rows : KeyOf(table, r) = d})], Series(from, to))
           = SumOf(f, ChartRows(table, rows, from))
<1> DEFINE class == [r \in rows |-> KeyOf(table, r)]
<1>1. SumOf([d \in Series(from, to) |-> SumOf(f, {r \in rows : class[r] = d})], Series(from, to))
        = SumOf(f, {r \in rows : class[r] \in Series(from, to)})
  <2>1. IsFiniteSet(Series(from, to))
    BY ChartKeys
  <2> HIDE DEF class
  <2>2. QED
    BY <2>1, SumByFiber
<1>2. {r \in rows : class[r] \in Series(from, to)} = ChartRows(table, rows, from)
  <2>1. {r \in rows : class[r] \in Series(from, to)} = {r \in rows : KeyOf(table, r) \in Series(from, to)}
    OBVIOUS
  <2> HIDE DEF class
  <2>2. QED
    BY <2>1, ChartKeys
<1>3. \A d : {r \in rows : class[r] = d} = {r \in rows : KeyOf(table, r) = d}
  OBVIOUS
<1>4. [d \in Series(from, to) |-> SumOf(f, {r \in rows : class[r] = d})]
        = [d \in Series(from, to) |-> SumOf(f, {r \in rows : KeyOf(table, r) = d})]
  BY <1>3
<1> HIDE DEF class
<1>5. QED
  BY <1>1, <1>2, <1>4

LEMMA ChartCount ==
  ASSUME NEW from \in Nat, NEW to \in Nat, from <= to, NEW table, NEW rows, IsFiniteSet(rows),
         \A r \in rows : table[r].at \in from..to
  PROVE  Added(Cardinality, Daily(table, rows, from, to)) = Cardinality(ChartRows(table, rows, from))
<1> DEFINE class == [r \in rows |-> KeyOf(table, r)]
           K == Series(from, to)
<1>1. SumOf([d \in K |-> Cardinality({r \in rows : class[r] = d})], K)
        = Cardinality({r \in rows : class[r] \in K})
  <2>1. IsFiniteSet(K)
    BY ChartKeys
  <2> HIDE DEF class, K
  <2>2. QED
    BY <2>1, CountByFiber
<1>2. {r \in rows : class[r] \in K} = ChartRows(table, rows, from)
  <2>1. {r \in rows : class[r] \in K} = {r \in rows : KeyOf(table, r) \in K}
    OBVIOUS
  <2> HIDE DEF class
  <2>2. QED
    BY <2>1, ChartKeys
<1>3. \A d : {r \in rows : class[r] = d} = {r \in rows : DayKey(Day(table[r].at)) = d}
  BY DEF KeyOf
<1>4. DOMAIN Daily(table, rows, from, to) = K
      /\ \A d \in K : Daily(table, rows, from, to)[d] = {r \in rows : class[r] = d}
  BY <1>3 DEF Daily
<1>5. [d \in DOMAIN Daily(table, rows, from, to) |-> Cardinality(Daily(table, rows, from, to)[d])]
        = [d \in K |-> Cardinality({r \in rows : class[r] = d})]
  BY <1>4
<1> HIDE DEF class, K
<1>6. QED
  BY <1>1, <1>2, <1>4, <1>5 DEF Added

-----------------------------------------------------------------------------
(* The charts of a period *)

LEMMA MadeRows ==
  ASSUME NEW from, NEW to, NEW rows, rows \subseteq MadeIn(from, to)
  PROVE  OfferSet(rows) /\ \A o \in rows : made[o].at \in from..to
  BY DEF MadeIn, OfferSet

LEMMA SucceededRows ==
  ASSUME NEW from, NEW to, NEW rows, rows \subseteq Succeeded(from, to)
  PROVE  PaymentSet(rows) /\ \A p \in rows : paid[p].at \in from..to
  BY DEF Succeeded, PaymentSet

OfTypes(types, rows) == {p \in rows : paid[p].type \in types}

\* The figures of a chart, day by day: the sums of f over the rows of some types
ByDay(f, types, from, to) ==
  [d \in Series(from, to) |-> SumOf(f, OfTypes(types, {p \in Succeeded(from, to) : KeyOf(paid, p) = d}))]

LEMMA PaymentChartSum ==
  ASSUME ReportTables, NEW from \in Nat, NEW to \in Nat, from <= to, NEW types,
         NEW f, \A p \in PaymentRows : f[p] \in Nat
  PROVE  SumOf(ByDay(f, types, from, to), Series(from, to))
           = SumOf(f, OfTypes(types, ChartRows(paid, Succeeded(from, to), from)))
<1> DEFINE money == Succeeded(from, to)
           paying == OfTypes(types, money)
<1>1. PaymentSet(paying) /\ \A p \in paying : paid[p].at \in from..to
  BY SucceededRows DEF OfTypes
<1>2. IsFiniteSet(paying)
  <2> HIDE DEF paying
  <2>1. QED
    BY <1>1, PaymentFigures
<1>3. \A p \in paying : f[p] \in Int
  <2> HIDE DEF paying
  <2>1. QED
    BY <1>1 DEF PaymentSet
<1>4. \A d : {p \in paying : KeyOf(paid, p) = d} = OfTypes(types, {p \in money : KeyOf(paid, p) = d})
  BY DEF OfTypes
<1>5. ChartRows(paid, paying, from) = OfTypes(types, ChartRows(paid, money, from))
  BY DEF ChartRows, FirstDay, OfTypes
<1>6. SumOf([d \in Series(from, to) |-> SumOf(f, {p \in paying : KeyOf(paid, p) = d})], Series(from, to))
        = SumOf(f, ChartRows(paid, paying, from))
  <2> HIDE DEF paying
  <2>1. QED
    BY <1>1, <1>2, <1>3, ChartSum
<1>7. [d \in Series(from, to) |-> SumOf(f, {p \in paying : KeyOf(paid, p) = d})] = ByDay(f, types, from, to)
  <2> HIDE DEF paying
  <2>1. QED
    BY <1>4 DEF ByDay, money
<1> HIDE DEF paying
<1>8. QED
  BY <1>5, <1>6, <1>7

LEMMA PaymentChartAgrees ==
  ASSUME ReportTables, NEW from \in Nat, NEW to \in Nat, from <= to
  PROVE  PaymentChart(from, to) = PaymentSummary(ChartRows(paid, Succeeded(from, to), from))
<1> DEFINE money == Succeeded(from, to)
           K == Series(from, to)
           on(d) == {p \in money : KeyOf(paid, p) = d}
           chart == Daily(paid, money, from, to)
           kept == ChartRows(paid, money, from)
           Revenue(rows) == Subscriptions(rows) + Commission(rows)
           every == BookingTypes \union {"SUBSCRIPTION"}
           byAmount == [d \in K |-> Amount(on(d))]
           bySubs == [d \in K |-> Subscriptions(on(d))]
           byCommission == [d \in K |-> Commission(on(d))]
           byRevenue == [d \in K |-> Revenue(on(d))]
<1>1. DOMAIN chart = K /\ \A d \in K : chart[d] = on(d)
  BY DEF Daily, KeyOf
<1>2. kept \subseteq money /\ \A d : on(d) \subseteq money
  BY DEF ChartRows
<1>3. PaymentSet(kept) /\ \A d : PaymentSet(on(d))
  <2> HIDE DEF kept, on
  <2>1. QED
    BY <1>2, SucceededRows
<1>4. IsFiniteSet(K)
  <2>1. \A p \in money : paid[p].at \in from..to
    BY SucceededRows
  <2> HIDE DEF money
  <2>2. QED
    BY <2>1, ChartKeys
<1>5. \A p \in PaymentRows : Amounts[p] \in Nat /\ Commissions[p] \in Nat
  BY FiguresNat
<1>6. ASSUME NEW rows, PaymentSet(rows)
      PROVE  /\ Amount(rows) = SumOf(Amounts, OfTypes(every, rows)) /\ Amount(rows) \in Nat
             /\ Subscriptions(rows) = SumOf(Amounts, OfTypes({"SUBSCRIPTION"}, rows))
             /\ Subscriptions(rows) \in Nat
             /\ Commission(rows) = SumOf(Commissions, OfTypes(BookingTypes, rows))
             /\ Commission(rows) \in Nat
  <2>1. OfTypes(every, rows) = rows
    BY <1>6, PaidRowOf DEF PaymentSet, PaidRow, OfTypes
  <2>2. OfTypes({"SUBSCRIPTION"}, rows) = {p \in rows : paid[p].type = "SUBSCRIPTION"}
    BY DEF OfTypes
  <2> HIDE DEF every
  <2>3. QED
    BY <1>6, <2>1, <2>2, PaymentFigures DEF OfTypes
<1>7. SumOf(byAmount, K) = Amount(kept)
  <2>1. SumOf(ByDay(Amounts, every, from, to), K) = SumOf(Amounts, OfTypes(every, kept))
    BY <1>5, PaymentChartSum
  <2>2. byAmount = ByDay(Amounts, every, from, to)
    <3>1. \A d \in K : Amount(on(d)) = SumOf(Amounts, OfTypes(every, on(d)))
      <4> HIDE DEF on, K, every
      <4>1. QED
        BY <1>3, <1>6
    <3>2. ByDay(Amounts, every, from, to) = [d \in K |-> SumOf(Amounts, OfTypes(every, on(d)))]
      BY DEF ByDay
    <3> HIDE DEF on, K, every
    <3>3. QED
      BY <3>1, <3>2
  <2> HIDE DEF byAmount, K, kept, every
  <2>3. QED
    BY <1>3, <1>6, <2>1, <2>2
<1>8. SumOf(bySubs, K) = Subscriptions(kept)
  <2>1. SumOf(ByDay(Amounts, {"SUBSCRIPTION"}, from, to), K) = SumOf(Amounts, OfTypes({"SUBSCRIPTION"}, kept))
    BY <1>5, PaymentChartSum
  <2>2. bySubs = ByDay(Amounts, {"SUBSCRIPTION"}, from, to)
    <3>1. \A d \in K : Subscriptions(on(d)) = SumOf(Amounts, OfTypes({"SUBSCRIPTION"}, on(d)))
      <4> HIDE DEF on, K, every
      <4>1. QED
        BY <1>3, <1>6
    <3>2. ByDay(Amounts, {"SUBSCRIPTION"}, from, to) = [d \in K |-> SumOf(Amounts, OfTypes({"SUBSCRIPTION"}, on(d)))]
      BY DEF ByDay
    <3> HIDE DEF on, K, every
    <3>3. QED
      BY <3>1, <3>2
  <2> HIDE DEF bySubs, K, kept, every
  <2>3. QED
    BY <1>3, <1>6, <2>1, <2>2
<1>9. SumOf(byCommission, K) = Commission(kept)
  <2>1. SumOf(ByDay(Commissions, BookingTypes, from, to), K) = SumOf(Commissions, OfTypes(BookingTypes, kept))
    BY <1>5, PaymentChartSum
  <2>2. byCommission = ByDay(Commissions, BookingTypes, from, to)
    <3>1. \A d \in K : Commission(on(d)) = SumOf(Commissions, OfTypes(BookingTypes, on(d)))
      <4> HIDE DEF on, K, every
      <4>1. QED
        BY <1>3, <1>6
    <3>2. ByDay(Commissions, BookingTypes, from, to) = [d \in K |-> SumOf(Commissions, OfTypes(BookingTypes, on(d)))]
      BY DEF ByDay
    <3> HIDE DEF on, K, every
    <3>3. QED
      BY <3>1, <3>2
  <2> HIDE DEF byCommission, K, kept, every
  <2>3. QED
    BY <1>3, <1>6, <2>1, <2>2
<1>10. SumOf(byRevenue, K) = Revenue(kept)
  <2>1. \A d \in K : Subscriptions(on(d)) \in Int /\ Commission(on(d)) \in Int
    <3> HIDE DEF on, K
    <3>1. QED
      BY <1>3, <1>6
  <2>2. bySubs \in [K -> Int] /\ byCommission \in [K -> Int]
    <3> HIDE DEF on, K
    <3>1. QED
      BY <2>1
  <2>3. byRevenue = [d \in K |-> bySubs[d] + byCommission[d]]
    OBVIOUS
  <2> HIDE DEF byRevenue, bySubs, byCommission, K
  <2>4. SumOf(byRevenue, K) = SumOf(bySubs, K) + SumOf(byCommission, K)
    BY <1>4, <2>2, <2>3, SumOfPairs
  <2>5. QED
    BY <1>8, <1>9, <2>4
<1>11. /\ Added(Amount, chart) = SumOf(byAmount, K)
       /\ Added(Subscriptions, chart) = SumOf(bySubs, K)
       /\ Added(Commission, chart) = SumOf(byCommission, K)
       /\ Added(Revenue, chart) = SumOf(byRevenue, K)
  <2>1. /\ [d \in DOMAIN chart |-> Amount(chart[d])] = byAmount
        /\ [d \in DOMAIN chart |-> Subscriptions(chart[d])] = bySubs
        /\ [d \in DOMAIN chart |-> Commission(chart[d])] = byCommission
        /\ [d \in DOMAIN chart |-> Revenue(chart[d])] = byRevenue
    <3> HIDE DEF chart, on, K
    <3>1. QED
      BY <1>1
  <2> HIDE DEF chart, byAmount, bySubs, byCommission, byRevenue, K
  <2>2. QED
    BY <1>1, <2>1 DEF Added
<1>12. PaymentChart(from, to)
         = [amount |-> Added(Amount, chart), subscriptions |-> Added(Subscriptions, chart),
            commission |-> Added(Commission, chart), revenue |-> Added(Revenue, chart)]
  BY DEF PaymentChart
<1>13. PaymentSummary(kept)
         = [amount |-> Amount(kept), subscriptions |-> Subscriptions(kept), commission |-> Commission(kept),
            revenue |-> Revenue(kept)]
  BY DEF PaymentSummary
<1> HIDE DEF chart, kept, K, Revenue, byAmount, bySubs, byCommission, byRevenue
<1>14. PaymentChart(from, to) = PaymentSummary(kept)
  BY <1>7, <1>8, <1>9, <1>10, <1>11, <1>12, <1>13
<1>15. QED
  BY <1>14 DEF kept, money

-----------------------------------------------------------------------------
(* Offers of all offices, and new accounts *)

Won(from, to) == WithStatus(MadeIn(from, to), "ACCEPTED")

LEMMA WonRows ==
  ASSUME ReportTables, NEW from, NEW to
  PROVE  /\ IsFiniteSet(Won(from, to))
         /\ OfferSet(Won(from, to))
         /\ \A o \in Won(from, to) : made[o].at \in from..to
<1>1. Won(from, to) \subseteq MadeIn(from, to)
  BY DEF Won, WithStatus
<1>2. QED
  BY <1>1, MadeRows, OfferFigures

LEMMA OfferChartAgrees ==
  ASSUME ReportTables, NEW from \in Nat, NEW to \in Nat, from <= to
  PROVE  /\ AcceptedChart(from, to).revenue = Price(ChartRows(made, Won(from, to), from))
         /\ AcceptedChart(from, to).accepted = Cardinality(ChartRows(made, Won(from, to), from))
<1> DEFINE won == Won(from, to)
           K == Series(from, to)
           on(d) == {o \in won : KeyOf(made, o) = d}
           chart == Daily(made, won, from, to)
           kept == ChartRows(made, won, from)
           byRevenue == [d \in K |-> Price(on(d))]
<1>1. IsFiniteSet(won) /\ \A o \in won : made[o].at \in from..to
  BY WonRows
<1>2. OfferSet(kept) /\ \A d : OfferSet(on(d))
  BY WonRows DEF ChartRows, OfferSet
<1>3. Added(Cardinality, chart) = Cardinality(kept)
  <2> HIDE DEF won
  <2>1. QED
    BY <1>1, ChartCount
<1>4. SumOf([d \in K |-> SumOf(Prices, on(d))], K) = SumOf(Prices, kept)
  <2>1. \A o \in won : Prices[o] \in Int
    BY WonRows, OfferFigures
  <2> HIDE DEF won
  <2>2. QED
    BY <1>1, <2>1, ChartSum
<1>5. byRevenue = [d \in K |-> SumOf(Prices, on(d))]
  <2>1. \A d \in K : Price(on(d)) = SumOf(Prices, on(d))
    <3> HIDE DEF on, K
    <3>1. QED
      BY <1>2, OfferFigures
  <2> HIDE DEF on, K
  <2>2. QED
    BY <2>1
<1>6. Price(kept) = SumOf(Prices, kept)
  <2> HIDE DEF kept
  <2>1. QED
    BY <1>2, OfferFigures
<1>7. DOMAIN chart = K /\ \A d \in K : chart[d] = on(d)
  BY DEF Daily, KeyOf
<1>8. Added(Price, chart) = SumOf(byRevenue, K)
  <2>1. [d \in DOMAIN chart |-> Price(chart[d])] = byRevenue
    <3> HIDE DEF chart, on, K
    <3>1. QED
      BY <1>7
  <2> HIDE DEF chart, byRevenue, K
  <2>2. QED
    BY <1>7, <2>1 DEF Added
<1>9. AcceptedChart(from, to) = [accepted |-> Added(Cardinality, chart), revenue |-> Added(Price, chart)]
  BY DEF AcceptedChart, Won
<1> HIDE DEF chart, kept, K, byRevenue, on
<1>10. /\ AcceptedChart(from, to).revenue = Price(kept)
       /\ AcceptedChart(from, to).accepted = Cardinality(kept)
  BY <1>3, <1>4, <1>5, <1>6, <1>8, <1>9
<1>11. QED
  BY <1>10 DEF kept

\* The accepted offers of a period are those of the offices, added up.
LEMMA OfficesAddUp ==
  ASSUME ReportTables, OffersOfOffices, NEW from, NEW to
  PROVE  SumOf([f \in AllOffices |-> Performance(f, from, to).summary.accepted], AllOffices)
           = Cardinality(Won(from, to))
<1> DEFINE won == Won(from, to)
           class == [o \in won |-> made[o].office]
<1>1. IsFiniteSet(won)
  BY WonRows
<1>2. IsFiniteSet(AllOffices)
  <2>1. AllOffices \in SUBSET Accounts
    BY DEF AllOffices
  <2>2. QED
    BY <2>1, FS_Subset, TablesAreFinite
<1>3. SumOf([f \in AllOffices |-> Cardinality({o \in won : class[o] = f})], AllOffices)
        = Cardinality({o \in won : class[o] \in AllOffices})
  <2> HIDE DEF won, class
  <2>1. QED
    BY <1>1, <1>2, CountByFiber
<1>4. {o \in won : class[o] \in AllOffices} = won
  <2>1. \A o \in won : made[o].office \in AllOffices
    BY WonRows, MadeRow DEF OfferSet, OffersOfOffices, AllOffices, MadeOffer
  <2>2. QED
    BY <2>1
<1>5. ASSUME NEW f \in AllOffices
      PROVE  Performance(f, from, to).summary.accepted = Cardinality({o \in won : class[o] = f})
  <2>1. ReportOffice(f) = f
    BY DEF AllOffices, ReportOffice
  <2>2. Performance(f, from, to).summary.accepted
          = Cardinality(WithStatus(ByOffice(f, MadeIn(from, to)), "ACCEPTED"))
    BY <2>1 DEF Performance, Counts
  <2>3. WithStatus(ByOffice(f, MadeIn(from, to)), "ACCEPTED") = {o \in won : class[o] = f}
    BY DEF WithStatus, ByOffice, Won
  <2> HIDE DEF won, class
  <2>4. QED
    BY <2>2, <2>3
<1>6. [f \in AllOffices |-> Performance(f, from, to).summary.accepted]
        = [f \in AllOffices |-> Cardinality({o \in won : class[o] = f})]
  <2> HIDE DEF won, class
  <2>1. QED
    BY <1>5
<1> HIDE DEF won, class
<1>7. SumOf([f \in AllOffices |-> Performance(f, from, to).summary.accepted], AllOffices) = Cardinality(won)
  BY <1>3, <1>4, <1>6
<1>8. QED
  BY <1>7 DEF won

LEMMA AccountChartAgrees ==
  ASSUME NEW from \in Nat, NEW to \in Nat, from <= to
  PROVE  NewAccountsChart(from, to) = Cardinality(ChartRows(joined, NewUsers(from, to), from))
<1> DEFINE came == NewUsers(from, to)
<1>1. came \in SUBSET Accounts /\ \A a \in came : joined[a].at \in from..to
  BY DEF NewUsers
<1>2. IsFiniteSet(came)
  BY <1>1, FS_Subset, TablesAreFinite
<1> HIDE DEF came
<1>3. Added(Cardinality, Daily(joined, came, from, to)) = Cardinality(ChartRows(joined, came, from))
  BY <1>1, <1>2, ChartCount
<1>4. QED
  BY <1>3 DEF came, NewAccountsChart

LEMMA ChartsAlwaysAgree ==
  ASSUME ReportInv PROVE ChartsAgree
<1> SUFFICES ASSUME NEW from \in 0..now, NEW to \in from..now
             PROVE  LET Lost(table, rows) == IF east THEN FirstDay(table, rows, from) ELSE {}
                        money == Succeeded(from, to)
                        won == WithStatus(MadeIn(from, to), "ACCEPTED")
                        came == NewUsers(from, to)
                    IN /\ PaymentChart(from, to) = PaymentSummary(money \ Lost(paid, money))
                       /\ AcceptedChart(from, to).revenue = Price(won \ Lost(made, won))
                       /\ AcceptedChart(from, to).accepted
                            = SumOf([f \in AllOffices |-> Performance(f, from, to).summary.accepted], AllOffices)
                              - Cardinality(Lost(made, won))
                       /\ NewAccountsChart(from, to) = Cardinality(came \ Lost(joined, came))
  BY DEF ChartsAgree
<1> DEFINE Lost(table, rows) == IF east THEN FirstDay(table, rows, from) ELSE {}
           won == Won(from, to)
<1>1. ReportTables /\ OffersOfOffices
  BY DEF ReportInv, ReportRows
<1>2. from \in Nat /\ to \in Nat /\ from <= to
  BY <1>1, NumbersOfReports DEF ReportTables, Instants
<1>3. \A table, rows : ChartRows(table, rows, from) = rows \ Lost(table, rows)
  BY DEF ChartRows
<1>4. PaymentChart(from, to) = PaymentSummary(Succeeded(from, to) \ Lost(paid, Succeeded(from, to)))
  BY <1>1, <1>2, PaymentChartAgrees DEF ChartRows
<1>5. AcceptedChart(from, to).revenue = Price(won \ Lost(made, won))
  BY <1>1, <1>2, OfferChartAgrees DEF ChartRows
<1>6. Cardinality(won \ Lost(made, won)) = Cardinality(won) - Cardinality(Lost(made, won))
  <2>1. IsFiniteSet(won)
    BY <1>1, WonRows
  <2>2. won \cap Lost(made, won) = Lost(made, won)
    BY DEF FirstDay
  <2> HIDE DEF won, Lost
  <2>3. QED
    BY <2>1, <2>2, FS_Difference
<1>7. AcceptedChart(from, to).accepted = Cardinality(won \ Lost(made, won))
  BY <1>1, <1>2, OfferChartAgrees DEF ChartRows
<1>8. AcceptedChart(from, to).accepted
        = SumOf([f \in AllOffices |-> Performance(f, from, to).summary.accepted], AllOffices)
          - Cardinality(Lost(made, won))
  <2>1. SumOf([f \in AllOffices |-> Performance(f, from, to).summary.accepted], AllOffices) = Cardinality(won)
    BY <1>1, OfficesAddUp
  <2> HIDE DEF won, Lost
  <2>2. QED
    BY <1>6, <1>7, <2>1
<1>9. NewAccountsChart(from, to) = Cardinality(NewUsers(from, to) \ Lost(joined, NewUsers(from, to)))
  BY <1>2, AccountChartAgrees DEF ChartRows
<1>10. QED
  BY <1>4, <1>5, <1>8, <1>9 DEF Won

-----------------------------------------------------------------------------
(* The figures offices and users see, and those the admin sees *)

\* What users paid is what their profiles show; only offices pay for subscriptions.
LEMMA UsersPay ==
  ASSUME ReportInv
  PROVE  LET all == Succeeded(0, now)
             users == SumOf([a \in profile |-> UserPaid(a)], profile)
         IN /\ users + Subscriptions(all) <= Amount(all)
            /\ (\A a \in Accounts : HasRole(a, "USER") => a \in profile)
                 => users + Subscriptions(all) = Amount(all)
<1> DEFINE all == Succeeded(0, now)
           subs == {p \in all : paid[p].type = "SUBSCRIPTION"}
           rest == all \ subs
           shown == {p \in all : paid[p].payer \in profile}
           class == [p \in all |-> paid[p].payer]
           users == SumOf([a \in profile |-> UserPaid(a)], profile)
<1>1. ReportTables /\ PaymentsOfPayers /\ ProfilesOfUsers
  BY DEF ReportInv, ReportRows
<1>2. PaymentSet(all) /\ \A p \in all : paid[p].at \in 0..now /\ paid[p].status = "SUCCESS"
  BY SucceededRows DEF Succeeded
<1>3. IsFiniteSet(all) /\ \A p \in all : Amounts[p] \in Nat /\ Amounts[p] \in Int
  <2> HIDE DEF all
  <2>1. IsFiniteSet(all) /\ \A p \in all : Amounts[p] \in Nat
    BY <1>1, <1>2, PaymentFigures
  <2>2. QED
    BY <2>1
<1>4. \A p \in all : /\ p \in PaymentRows /\ paid[p] # None /\ paid[p].payer \in Accounts
                     /\ Exists(paid[p].payer) /\ paid[p].at <= now /\ paid[p].at \in Nat
                     /\ IF account[paid[p].payer].role = "USER"
                        THEN paid[p].type \in BookingTypes /\ joined[paid[p].payer].at <= paid[p].at
                        ELSE paid[p].type = "SUBSCRIPTION"
  <2>1. \A p \in all : p \in PaymentRows /\ paid[p] # None
    BY <1>2 DEF PaymentSet
  <2>2. \A p \in all : paid[p].payer \in Accounts /\ paid[p].at \in Nat
    BY <1>1, <2>1, PaidRowOf DEF PaidRow, Instants
  <2> HIDE DEF all
  <2>3. QED
    BY <1>1, <2>1, <2>2 DEF PaymentsOfPayers
<1>5. ASSUME NEW a \in profile
      PROVE  UserPaid(a) = SumOf(Amounts, {p \in all : class[p] = a})
  <2>1. a \in Accounts /\ account[a] # None /\ account[a].role = "USER"
    BY <1>1 DEF ProfilesOfUsers, HasRole, Exists
  <2>2. {p \in Succeeded(joined[a].at, now) : paid[p].payer = a} = {p \in all : class[p] = a}
    <3>1. joined[a] # None /\ joined[a].at \in Nat
      BY <1>1, <2>1 DEF ReportInv, ReportRows, Joined, Exists, ReportTables, Instants
    <3>2. \A p \in all : class[p] = a => joined[a].at <= paid[p].at
      BY <1>4, <2>1
    <3>3. now \in Nat
      BY <1>1, NumbersOfReports DEF ReportTables, Instants
    <3>4. \A p : p \in Succeeded(joined[a].at, now) => p \in all
      BY <3>1, <3>3 DEF Succeeded
    <3>5. \A p \in all : class[p] = a => p \in Succeeded(joined[a].at, now)
      BY <3>1, <3>2, <3>3 DEF Succeeded
    <3>6. \A p \in all : class[p] = paid[p].payer
      OBVIOUS
    <3> HIDE DEF all, class
    <3>7. QED
      BY <3>4, <3>5, <3>6
  <2>3. PaymentSet({p \in all : class[p] = a})
    BY <1>2 DEF PaymentSet
  <2> HIDE DEF all, class
  <2>4. QED
    BY <1>1, <2>2, <2>3, PaymentFigures DEF UserPaid
<1>6. users = SumOf(Amounts, shown)
  <2>1. IsFiniteSet(profile)
    BY <1>1, FS_Subset, TablesAreFinite DEF ProfilesOfUsers
  <2>2. SumOf([a \in profile |-> SumOf(Amounts, {p \in all : class[p] = a})], profile)
          = SumOf(Amounts, {p \in all : class[p] \in profile})
    <3> HIDE DEF all, class
    <3>1. QED
      BY <1>3, <2>1, SumByFiber
  <2>3. {p \in all : class[p] \in profile} = shown
    OBVIOUS
  <2>4. [a \in profile |-> UserPaid(a)] = [a \in profile |-> SumOf(Amounts, {p \in all : class[p] = a})]
    <3> HIDE DEF all, class
    <3>1. QED
      BY <1>5
  <2> HIDE DEF all, class, shown
  <2>5. QED
    BY <2>2, <2>3, <2>4
<1>7. shown \subseteq rest /\ ((\A a \in Accounts : HasRole(a, "USER") => a \in profile) => shown = rest)
  <2>1. \A p \in all : paid[p].payer \in profile => paid[p].type # "SUBSCRIPTION"
    BY <1>1, <1>4 DEF ProfilesOfUsers, HasRole, BookingTypes
  <2>2. (\A a \in Accounts : HasRole(a, "USER") => a \in profile)
          => \A p \in all : paid[p].type # "SUBSCRIPTION" => paid[p].payer \in profile
    BY <1>4 DEF HasRole
  <2> HIDE DEF all
  <2>3. QED
    BY <2>1, <2>2
<1>8. subs \subseteq all /\ rest \subseteq all /\ rest \ shown \subseteq all /\ shown \subseteq all
  OBVIOUS
<1>9. IsFiniteSet(subs) /\ IsFiniteSet(rest) /\ IsFiniteSet(shown) /\ IsFiniteSet(rest \ shown)
  <2> HIDE DEF all, subs, rest, shown
  <2>1. QED
    BY <1>3, <1>8, FS_Subset
<1>10. /\ SumOf(Amounts, all) = SumOf(Amounts, subs) + SumOf(Amounts, rest)
       /\ SumOf(Amounts, rest) = SumOf(Amounts, shown) + SumOf(Amounts, rest \ shown)
  <2>1. rest = all \ subs
    OBVIOUS
  <2> HIDE DEF all, subs, rest, shown
  <2>2. SumOf(Amounts, all) = SumOf(Amounts, subs) + SumOf(Amounts, rest)
    BY <1>3, <1>8, <2>1, SumOfSplit
  <2>3. SumOf(Amounts, rest) = SumOf(Amounts, shown) + SumOf(Amounts, rest \ shown)
    BY <1>3, <1>7, <1>8, <1>9, SumOfSplit
  <2>4. QED
    BY <2>2, <2>3
<1>11. /\ SumOf(Amounts, subs) \in Nat /\ SumOf(Amounts, rest) \in Nat
       /\ SumOf(Amounts, shown) \in Nat /\ SumOf(Amounts, rest \ shown) \in Nat
  <2> HIDE DEF all, subs, rest, shown
  <2>1. QED
    BY <1>3, <1>8, <1>9, SumOfNat
<1>12. Amount(all) = SumOf(Amounts, all) /\ Subscriptions(all) = SumOf(Amounts, subs)
  <2>1. subs = {p \in all : paid[p].type = "SUBSCRIPTION"}
    OBVIOUS
  <2> HIDE DEF all, subs
  <2>2. QED
    BY <1>1, <1>2, <2>1, PaymentFigures
<1> HIDE DEF subs, rest, shown, users
<1>13. users + Subscriptions(all) <= Amount(all)
  BY <1>6, <1>10, <1>11, <1>12
<1>14. shown = rest => users + Subscriptions(all) = Amount(all)
  BY <1>6, <1>10, <1>11, <1>12
<1>15. QED
  BY <1>7, <1>13, <1>14 DEF users

LEMMA Months ==
  ASSUME ReportTables, NEW k \in {0, 1} PROVE MonthStart(Month(now) + k) \in Int
<1>1. now \in Nat
  BY NumbersOfReports DEF ReportTables, Instants
<1>2. Day(now) \in Nat
  BY <1>1 DEF Day
<1>3. Month(now) \in Int
  BY <1>2, NumbersOfReports DEF Month
<1>4. \A i, j \in Int : 2 * i * j \in Int
  OBVIOUS
<1>5. QED
  BY <1>3, <1>4, NumbersOfReports DEF MonthStart

\* The profit of a day is looked up under a name no day has.
LEMMA NoProfit ==
  ASSUME ReportTables, NEW a PROVE
    LET profit == DailyProfit(a, Month(now)) IN SumOf(profit, DOMAIN profit) = 0
<1> DEFINE from == MonthStart(Month(now))
           to == MonthStart(Month(now) + 1) - 1
           profit == DailyProfit(a, Month(now))
<1>1. from \in Int /\ to \in Int
  <2>1. Month(now) + 0 = Month(now)
    BY NumbersOfReports DEF ReportTables, Instants, Day, Month
  <2>2. MonthStart(Month(now) + 0) \in Int /\ MonthStart(Month(now) + 1) \in Int
    BY Months
  <2>3. QED
    BY <2>1, <2>2
<1>2. DOMAIN profit = Series(from, to) /\ \A d \in Series(from, to) : profit[d] = 0
  BY DEF DailyProfit
<1>3. IsFiniteSet(Series(from, to))
  <2> HIDE DEF from, to
  <2>1. Day(from) \in Int /\ Day(to) \in Int
    BY <1>1 DEF Day
  <2>2. QED
    BY <2>1, FS_Interval DEF Series
<1> HIDE DEF from, to, profit
<1>4. SumOf(profit, DOMAIN profit) = 0
  BY <1>2, <1>3, SumOfZero
<1>5. QED
  BY <1>4 DEF profit

\* Every offer was made since its office joined: the offices' amounts are those of all.
LEMMA SummariesAddUp ==
  ASSUME ReportInv
  PROVE  SumOf([f \in AllOffices |-> OfficeSummary(f)], AllOffices) = Price(MadeIn(0, now))
<1> DEFINE all == MadeIn(0, now)
           class == [o \in all |-> made[o].office]
           of(f) == {o \in all : class[o] = f}
<1>0. ReportTables /\ OffersOfOffices /\ Joined
  BY DEF ReportInv, ReportRows
<1>1. IsFiniteSet(all) /\ OfferSet(all) /\ \A o \in all : Prices[o] \in Int
  <2>1. OfferSet(all)
    BY DEF MadeIn, OfferSet
  <2> HIDE DEF all
  <2>2. QED
    BY <1>0, <2>1, OfferFigures
<1>2. IsFiniteSet(AllOffices)
  <2>1. AllOffices \in SUBSET Accounts
    BY DEF AllOffices
  <2>2. QED
    BY <2>1, FS_Subset, TablesAreFinite
<1>3. SumOf([f \in AllOffices |-> SumOf(Prices, of(f))], AllOffices)
        = SumOf(Prices, {o \in all : class[o] \in AllOffices})
  <2> HIDE DEF all, class
  <2>1. QED
    BY <1>1, <1>2, SumByFiber
<1>4. {o \in all : class[o] \in AllOffices} = all
  <2>1. \A o \in all : made[o].office \in AllOffices
    BY <1>0, MadeRow DEF MadeIn, OffersOfOffices, AllOffices, MadeOffer
  <2>2. QED
    BY <2>1
<1>5. ASSUME NEW f \in AllOffices PROVE OfficeSummary(f) = SumOf(Prices, of(f))
  <2>1. ASSUME NEW o \in OfferRows, made[o] # None, made[o].office = f
        PROVE  made[o].at \in 0..now /\ made[o].at \in joined[f].at..now
    <3>1. made[o].at \in Nat /\ made[o].at <= now /\ now \in Nat /\ joined[f].at <= made[o].at
      BY <1>0, <2>1, MadeRow, NumbersOfReports DEF ReportTables, OffersOfOffices, MadeOffer, Instants
    <3>2. f \in Accounts /\ Exists(f)
      BY OfficeExists DEF AllOffices, ReportInv
    <3>3. joined[f].at \in Int
      BY <1>0, <3>2, NumbersOfReports DEF Joined, ReportTables, Instants
    <3>4. QED
      BY <3>1, <3>3
  <2>2. ByOffice(f, MadeIn(joined[f].at, now)) = of(f)
    BY <2>1 DEF ByOffice, MadeIn
  <2>3. OfferSet(of(f))
    BY <1>1 DEF OfferSet
  <2> HIDE DEF of
  <2>4. QED
    BY <1>0, <2>2, <2>3, OfferFigures DEF OfficeSummary
<1>6. [f \in AllOffices |-> OfficeSummary(f)] = [f \in AllOffices |-> SumOf(Prices, of(f))]
  <2> HIDE DEF of
  <2>1. QED
    BY <1>5
<1>7. Price(all) = SumOf(Prices, all)
  <2> HIDE DEF all
  <2>1. QED
    BY <1>0, <1>1, OfferFigures
<1> HIDE DEF all, class, of
<1>8. SumOf([f \in AllOffices |-> OfficeSummary(f)], AllOffices) = Price(all)
  BY <1>3, <1>4, <1>6, <1>7
<1>9. QED
  BY <1>8 DEF all

\* The days on which offers were accepted add up to the offers accepted.
LEMMA DaysOfOffice ==
  ASSUME ReportTables, NEW a
  PROVE  LET seen == Performance(a, 0, now)
         IN SumOf([d \in DOMAIN seen.accepted |-> Cardinality(seen.accepted[d])], DOMAIN seen.accepted)
              = seen.summary.accepted
<1> DEFINE rows == WithStatus(ByOffice(ReportOffice(a), MadeIn(0, now)), "ACCEPTED")
           K == {Day(made[o].at) : o \in rows}
           class == [o \in rows |-> Day(made[o].at)]
           days == [d \in K |-> {o \in rows : Day(made[o].at) = d}]
           seen == Performance(a, 0, now)
<1>1. rows \subseteq MadeIn(0, now)
  BY DEF WithStatus, ByOffice
<1>2. IsFiniteSet(rows) /\ OfferSet(rows) /\ \A o \in rows : made[o].at \in 0..now
  <2> HIDE DEF rows
  <2>1. QED
    BY <1>1, MadeRows, OfferFigures
<1>3. IsFiniteSet(K)
  <2>1. now \in Nat
    BY NumbersOfReports DEF ReportTables, Instants
  <2>2. \A o \in rows : Day(made[o].at) \in 0..now
    BY <1>2, <2>1 DEF Day
  <2>3. K \in SUBSET (0..now)
    BY <2>2
  <2> HIDE DEF K
  <2>4. IsFiniteSet(0..now)
    BY <2>1, FS_Interval
  <2>5. QED
    BY <2>3, <2>4, FS_Subset
<1>4. SumOf([d \in K |-> Cardinality({o \in rows : class[o] = d})], K) = Cardinality({o \in rows : class[o] \in K})
  <2> HIDE DEF rows, K, class
  <2>1. QED
    BY <1>2, <1>3, CountByFiber
<1>5. {o \in rows : class[o] \in K} = rows
  OBVIOUS
<1>6. \A d \in K : {o \in rows : class[o] = d} = days[d]
  OBVIOUS
<1>7. seen.summary.accepted = Cardinality(rows) /\ seen.accepted = days
  BY DEF Performance, Counts
<1>8. DOMAIN days = K
  OBVIOUS
<1> HIDE DEF rows, K, class, days, seen
<1>9. [d \in DOMAIN seen.accepted |-> Cardinality(seen.accepted[d])]
        = [d \in K |-> Cardinality({o \in rows : class[o] = d})]
  BY <1>6, <1>7, <1>8
<1>10. SumOf([d \in DOMAIN seen.accepted |-> Cardinality(seen.accepted[d])], DOMAIN seen.accepted)
         = seen.summary.accepted
  BY <1>4, <1>5, <1>7, <1>8, <1>9
<1>11. QED
  BY <1>10 DEF seen

LEMMA FiguresAlwaysAgree ==
  ASSUME ReportInv PROVE FiguresAgree
<1> DEFINE TopFigures(f) == IF f \in DOMAIN TopOffices THEN TopOffices[f] ELSE Counts({})
           start == MonthStart(Month(now))
<1>1. ReportTables /\ OffersOfOffices
  BY DEF ReportInv, ReportRows
<1>2. HomeSummary.current.accepted
        = SumOf([f \in AllOffices |-> Performance(f, start, now).summary.accepted], AllOffices)
  <2>1. HomeSummary.current.accepted = Cardinality(Won(start, now))
    BY DEF HomeSummary, Counts, ThisMonth, Won
  <2> HIDE DEF start
  <2>2. QED
    BY <1>1, <2>1, OfficesAddUp
<1>3. LET All == PaymentSummary(Succeeded(0, now))
          users == SumOf([a \in profile |-> UserPaid(a)], profile)
      IN /\ users + All.subscriptions <= All.amount
         /\ (\A a \in Accounts : HasRole(a, "USER") => a \in profile) => users + All.subscriptions = All.amount
  BY UsersPay DEF PaymentSummary
<1>4. ASSUME NEW a \in Accounts, ReportOffice(a) # None
      PROVE  LET seen == Performance(a, 0, now)
             IN /\ SumOf([d \in DOMAIN seen.accepted |-> Cardinality(seen.accepted[d])], DOMAIN seen.accepted)
                     = seen.summary.accepted
                /\ seen.summary = TopFigures(ReportOffice(a))
  <2> DEFINE seen == Performance(a, 0, now)
  <2>1. SumOf([d \in DOMAIN seen.accepted |-> Cardinality(seen.accepted[d])], DOMAIN seen.accepted)
          = seen.summary.accepted
    BY <1>1, DaysOfOffice
  <2>2. seen.summary = TopFigures(ReportOffice(a))
    <3>1. seen.summary = Counts(ByOffice(ReportOffice(a), MadeIn(0, now)))
      BY DEF Performance
    <3>2. PICK f : f = ReportOffice(a)
      OBVIOUS
    <3>3. Counts(ByOffice(f, MadeIn(0, now))) = TopFigures(f)
      <4>1. CASE f \in {made[o].office : o \in MadeIn(0, now)}
        BY <4>1 DEF TopOffices
      <4>2. CASE f \notin {made[o].office : o \in MadeIn(0, now)}
        <5>1. ByOffice(f, MadeIn(0, now)) = {}
          BY <4>2 DEF ByOffice
        <5>2. QED
          BY <4>2, <5>1 DEF TopOffices
      <4>3. QED
        BY <4>1, <4>2
    <3> HIDE DEF TopFigures, seen
    <3>4. QED
      BY <3>1, <3>2, <3>3
  <2>3. QED
    BY <2>1, <2>2
<1>5. SumOf([f \in AllOffices |-> OfficeSummary(f)], AllOffices) = Price(MadeIn(0, now))
  BY SummariesAddUp
<1>6. QED
  BY <1>2, <1>3, <1>4, <1>5 DEF FiguresAgree

\* Whatever is read, written or deleted in between, what the reports say of a period is
\* the same wherever it is shown, and their charts lose no row but those of the first day
\* on a server east of UTC; the daily profit of an office is excepted, which is always 0.
THEOREM ReportsAlwaysAgree == ReportsSpec => []ReportsAgree
<1>1. ReportInv => ReportsAgree
  BY ChartsAlwaysAgree, FiguresAlwaysAgree, NoProfit DEF ReportsAgree, DailyProfitIsLost, ReportInv
<1>2. QED
  BY <1>1, ReportsKept, PTL
=============================================================================
