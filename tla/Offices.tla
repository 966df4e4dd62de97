------------------------------- MODULE Offices -------------------------------
(***************************************************************************)
(* Office profiles, their employees and their change requests              *)
(* (src/module/office). An office is known by the id of its account.       *)
(***************************************************************************)
EXTENDS Accounts

CONSTANTS Employees,  \* ids of office_employees rows
          Names       \* what an office shows: its name and commerce number

VARIABLES office,       \* office_profiles
          employee,     \* office_employees
          details,      \* the office:details cache
          edited,       \* history: offices an admin edited since their details were cached
          cleared,      \* history: accounts an admin or an employer let in, and not out
          letIn         \* history: accounts that were let in once

officeVars == <<office, employee, details, edited, cleared, letIn>>

\* reviewStatus is PENDING from createProfile on: no request sets another value.
Office == [name : Names, commerceNumber : BOOLEAN, logo : BOOLEAN,
           change : {"NONE", "PENDING", "APPROVED", "REJECTED"},
           data : [name : Names, email : Emails \union {None}, phone : Phones \union {None}]
                  \union {None}]
Employee == [office : Accounts, account : Accounts \union {None}, isActive : BOOLEAN]

ASSUME NoneIsNoOfficeRow == None \notin Office /\ None \notin Employee /\ None \notin Names

OfficesTypeOK ==
  /\ office \in [Accounts -> Office \union {None}]
  /\ employee \in [Employees -> Employee \union {None}]
  /\ details \in [Accounts -> Names \union {None}]

OfficesInit ==
  /\ office = [o \in Accounts |-> None]
  /\ employee = [e \in Employees |-> None]
  /\ details = [o \in Accounts |-> None]
  /\ edited = {}
  /\ cleared = {}
  /\ letIn = {}

IsOffice(o) == office[o] # None
StaffRows(o) == {e \in Employees : employee[e] # None /\ employee[e].office = o}

\* findEmployeeMembershipByAccountId
MembershipsOf(a) ==
  {e \in Employees : employee[e] # None /\ employee[e].account = a /\ employee[e].isActive}
IsEmployee(a) == MembershipsOf(a) # {}

\* The office an account acts for: its employer's, or its own.
OfficeOf(a) == IF IsEmployee(a) THEN employee[CHOOSE e \in MembershipsOf(a) : TRUE].office ELSE a

\* The owner and the accounts of active employees: the team chats and notifications are for
Team(o) ==
  {o} \union ({employee[e].account : e \in {x \in StaffRows(o) : employee[x].isActive}} \ {None})

Admit(a, in) ==
  /\ cleared' = IF in THEN cleared \union {a} ELSE cleared \ {a}
  /\ letIn' = IF in THEN letIn \union {a} ELSE letIn

\* RoleProcessInterceptor, on every route that is not public: the statuses it refuses. A
\* blocked office is not among them.
Served(a) ==
  /\ Exists(a)
  /\ account[a].role = "USER" => account[a].status \notin {"PENDING_OTP", "BLOCKED"}
  /\ account[a].role = "OFFICE" =>
       account[a].status \notin {"PENDING_REVIEW", "OFFICE_NO_SUBSCRIPTION", "REJECTED", "PENDING_OTP"}

\* The statuses under which an office that is not blocked is served: an admin who sets one
\* lets the office in.
LetsIn(status) == status \in {"ACTIVE", "CREATED"}

\* createProfile, in the transaction of the registration
NewOffice(name) ==
  [name |-> name, commerceNumber |-> FALSE, logo |-> FALSE, change |-> "NONE", data |-> None]

SetOffice(o, row) == office' = [office EXCEPT ![o] = row]

\* validateAccount: how far the registration of an account has come
Stage(a) ==
  IF account[a].role # "OFFICE" \/ IsEmployee(a) THEN "ACTIVE"
  ELSE IF ~IsOffice(a) \/ ~office[a].commerceNumber THEN "COMMERCE_NUMBER_MISSING"
  ELSE IF StaffRows(a) = {} THEN "EMPLOYEES_PENDING"
  ELSE IF ~office[a].logo THEN "LOGO_PENDING"
  ELSE "REVIEW_PENDING"

\* addCommerceDetails and uploadLogo
FillProfile(o, field) ==
  /\ IsOffice(o)
  /\ SetOffice(o, [office[o] EXCEPT ![field] = TRUE])
  /\ UNCHANGED <<accountVars, employee, details, edited, cleared, letIn>>
  /\ AtOnce

FreeRow(e) == employee[e] = None
SetEmployee(e, row) == employee' = [employee EXCEPT ![e] = row]

\* addOfficeEmployees: names of employees, without accounts
AddOfficeEmployee(o, e) ==
  /\ IsOffice(o)
  /\ FreeRow(e)
  /\ SetEmployee(e, [office |-> o, account |-> None, isActive |-> TRUE])
  /\ UNCHANGED <<accountVars, office, details, edited, cleared, letIn>>
  /\ AtOnce

\* AddOfficeEmployeesWithAccounts: the account and the row, in one transaction
AddOfficeEmployeeWithAccount(o, e, a, em, p, w) ==
  /\ IsOffice(o)
  /\ FreeRow(e)
  /\ Create(a, [NewAccount("OFFICE", em, p, w) EXCEPT !.status = "ACTIVE", !.verified = TRUE])
  /\ SetEmployee(e, [office |-> o, account |-> a, isActive |-> TRUE])
  /\ Admit(a, TRUE)
  /\ UNCHANGED <<office, details, edited>>
  /\ AtOnce

\* deleteEmployeeAccount: the account is blocked, then the row is cleared
RemoveEmployee(h, e) ==
  /\ ~FreeRow(e)
  /\ employee[e].account # None
  /\ SoftDelete(employee[e].account)
  /\ Admit(employee[e].account, FALSE)
  /\ Begin(h, [at |-> "clear_employee", row |-> e])
  /\ UNCHANGED <<office, employee, details, edited>>

ClearEmployee(h) ==
  LET e == req[h].row IN
  /\ At(h, "clear_employee")
  /\ IF FreeRow(e) THEN UNCHANGED employee
     ELSE SetEmployee(e, [employee[e] EXCEPT !.isActive = FALSE, !.account = None])
  /\ Done(h)
  /\ UNCHANGED <<accountVars, office, details, edited, cleared, letIn>>

(***************************************************************************)
(* The decisions of the admin                                              *)
(***************************************************************************)

\* approveOfficeRegistration goes on with the trial subscription.
ApproveRegistration(h, o) ==
  /\ IsOffice(o)
  /\ SetStatus(o, "ACTIVE")
  /\ Admit(o, TRUE)
  /\ Begin(h, [at |-> "trial", who |-> o])
  /\ UNCHANGED <<office, employee, details, edited>>

RejectRegistration(o) ==
  /\ IsOffice(o)
  /\ SetStatus(o, "REJECTED")
  /\ Admit(o, FALSE)
  /\ UNCHANGED <<office, employee, details, edited>>
  /\ AtOnce

\* The toggle of an office account is a decision of the admin too.
ToggleOfficeRead(h, o) ==
  /\ IsOffice(o)
  /\ ToggleRead(h, o)
  /\ UNCHANGED officeVars

ToggleOfficeSave(h) ==
  /\ ToggleSave(h)
  /\ Admit(req[h].who, req[h].status = "ACTIVE")
  /\ UNCHANGED <<office, employee, details, edited>>

\* updateOfficeByAdmin writes the profile and the status; the cache is left alone.
UpdateOfficeByAdmin(o, name, status) ==
  /\ IsOffice(o)
  /\ SetOffice(o, [office[o] EXCEPT !.name = name])
  /\ SetStatus(o, status)
  /\ Admit(o, LetsIn(status))
  /\ edited' = IF details[o] = None THEN edited ELSE edited \union {o}
  /\ UNCHANGED <<employee, details>>
  /\ AtOnce

\* deleteOfficeAccount: the profile goes with its employees' rows and the account is
\* blocked, in one transaction
DeleteOffice(o) ==
  /\ IsOffice(o)
  /\ SetOffice(o, None)
  /\ employee' = [e \in Employees |-> IF e \in StaffRows(o) THEN None ELSE employee[e]]
  /\ SoftDelete(o)
  /\ Admit(o, FALSE)
  /\ UNCHANGED <<details, edited>>
  /\ AtOnce

(***************************************************************************)
(* Change requests                                                         *)
(***************************************************************************)

AddChangeRequest(o, d) ==
  /\ IsOffice(o)
  /\ SetOffice(o, [office[o] EXCEPT !.change = "PENDING", !.data = d])
  /\ UNCHANGED <<accountVars, employee, details, edited, cleared, letIn>>
  /\ AtOnce

\* getPendingChangeOfficeDataRequests
PendingRequests == {o \in Accounts : IsOffice(o) /\ office[o].change = "PENDING"}

ApproveChangeRead(h, o) ==
  /\ o \in PendingRequests
  /\ office[o].data # None
  /\ Begin(h, [at |-> "apply_change", who |-> o, data |-> office[o].data])
  /\ UNCHANGED <<accountVars, officeVars>>

Chosen(new, old) == IF new = None THEN old ELSE new
Refused(o, d) ==
  \/ d.email # None /\ d.email # account[o].email /\ EmailTaken(d.email)
  \/ d.phone # None /\ d.phone # account[o].phone /\ PhoneTaken(d.phone)

\* Mutant: the name that is shown is changed, the address of the account is not.
ApplyToProfileOnly(h) ==
  LET o == req[h].who  d == req[h].data IN
  /\ At(h, "apply_change")
  /\ IF Refused(o, d) \/ ~IsOffice(o)
     THEN Done(h) /\ UNCHANGED <<accountVars, officeVars>>
     ELSE /\ SetOffice(o, [office[o] EXCEPT !.name = d.name, !.change = "APPROVED", !.data = None])
          /\ asked' = [asked EXCEPT ![o].email = Chosen(d.email, @), ![o].phone = Chosen(d.phone, @)]
          /\ KeepMark(o, Chosen(d.phone, account[o].phone))
          /\ Goto(h, [at |-> "drop_details", who |-> o])
          /\ UNCHANGED <<account, employee, details, edited, cleared, letIn>>

\* The transaction commits the account and the profile, or throws.
ApplyChange(h) ==
  LET o == req[h].who  d == req[h].data IN
  /\ At(h, "apply_change")
  /\ IF Refused(o, d) \/ ~IsOffice(o)
     THEN Done(h) /\ UNCHANGED <<accountVars, officeVars>>
     ELSE /\ SetOffice(o, [office[o] EXCEPT !.name = d.name, !.change = "APPROVED", !.data = None])
          /\ account' = [account EXCEPT ![o].email = Chosen(d.email, @), ![o].phone = Chosen(d.phone, @)]
          /\ asked' = [asked EXCEPT ![o].email = Chosen(d.email, @), ![o].phone = Chosen(d.phone, @)]
          /\ KeepMark(o, Chosen(d.phone, account[o].phone))
          /\ Goto(h, [at |-> "drop_details", who |-> o])
          /\ UNCHANGED <<employee, details, edited, cleared, letIn>>

\* Mutant: the details stay in the cache after an approved change.
DropNothing(h) ==
  /\ At(h, "drop_details")
  /\ Done(h)
  /\ UNCHANGED <<accountVars, officeVars>>

DropDetails(h) ==
  /\ At(h, "drop_details")
  /\ details' = [details EXCEPT ![req[h].who] = None]
  /\ edited' = edited \ {req[h].who}
  /\ Done(h)
  /\ UNCHANGED <<accountVars, office, employee, cleared, letIn>>

\* rejectChangeOfficeDataRequest keeps the data it rejects.
RejectChangeRead(h, o) ==
  /\ o \in PendingRequests
  /\ Begin(h, [at |-> "reject_change", who |-> o])
  /\ UNCHANGED <<accountVars, officeVars>>

RejectChange(h) ==
  LET o == req[h].who IN
  /\ At(h, "reject_change")
  /\ IF IsOffice(o) THEN SetOffice(o, [office[o] EXCEPT !.change = "REJECTED"]) ELSE UNCHANGED office
  /\ Done(h)
  /\ UNCHANGED <<accountVars, employee, details, edited, cleared, letIn>>

(***************************************************************************)
(* getOfficeDetails: a reader that misses the cache fills it with what it  *)
(* read before                                                             *)
(***************************************************************************)

ReadDetails(h, a) ==
  LET o == IF IsOffice(a) THEN a ELSE OfficeOf(a) IN
  /\ IsOffice(o)
  /\ details[o] = None
  /\ Begin(h, [at |-> "fill_details", who |-> o, name |-> office[o].name])
  /\ UNCHANGED <<accountVars, officeVars>>

FillDetails(h) ==
  /\ At(h, "fill_details")
  /\ details' = [details EXCEPT ![req[h].who] = req[h].name]
  /\ Done(h)
  /\ UNCHANGED <<accountVars, office, employee, edited, cleared, letIn>>

\* Three hours after it was filled.
DetailsExpire(o) ==
  /\ details[o] # None
  /\ details' = [details EXCEPT ![o] = None]
  /\ edited' = edited \ {o}
  /\ UNCHANGED <<accountVars, office, employee, cleared, letIn, reqVars>>

ChangeData == [name : Names, email : Emails \union {None}, phone : Phones \union {None}]

OfficesNext ==
  \/ \E o \in Accounts, f \in {"commerceNumber", "logo"} : FillProfile(o, f)
  \/ \E o, a \in Accounts, e \in Employees, em \in Emails, p \in Phones, w \in Passwords :
       AddOfficeEmployeeWithAccount(o, e, a, em, p, w)
  \/ \E o \in Accounts, e \in Employees : AddOfficeEmployee(o, e)
  \/ \E o \in Accounts : RejectRegistration(o) \/ DeleteOffice(o) \/ DetailsExpire(o)
  \/ \E o \in Accounts, n \in Names, s \in AccountStatus : UpdateOfficeByAdmin(o, n, s)
  \/ \E o \in Accounts, d \in ChangeData : AddChangeRequest(o, d)
  \/ \E h \in Handlers, e \in Employees : RemoveEmployee(h, e)
  \/ \E h \in Handlers, o \in Accounts :
       \/ ApproveRegistration(h, o)
       \/ ToggleOfficeRead(h, o)
       \/ ApproveChangeRead(h, o)
       \/ RejectChangeRead(h, o)
       \/ ReadDetails(h, o)
  \/ \E h \in Handlers :
       \/ ClearEmployee(h) \/ ToggleOfficeSave(h) \/ ApplyChange(h) \/ DropDetails(h)
       \/ RejectChange(h) \/ FillDetails(h)

(***************************************************************************)
(* Properties                                                              *)
(***************************************************************************)

\* The offices whose requests are served, the blocked ones aside
ServedOffices == {a \in Accounts : HasRole(a, "OFFICE") /\ account[a].status # "BLOCKED" /\ Served(a)}

\* An office account that is served was let in by an admin (approveOfficeRegistration,
\* toggleStauts, updateOfficeByAdmin) or by an employer, who has not put it out since:
\* no phone verification brings back an account that was rejected, blocked or removed.
ActiveOfficeCleared == serial /\ ~dropped => ServedOffices \subseteq cleared

\* Whatever requests overlap, and whatever stale rows they save, an office account that
\* nobody ever let in is not served.
NeverActiveUnasked == ServedOffices \subseteq letIn

\* Both: who is served was let in, and nobody ever is unasked.
OfficeAccessGranted == ActiveOfficeCleared /\ NeverActiveUnasked

\* What getOfficeDetails shows is the profile as it is, unless an admin edited it after
\* it was cached: an approved change shows at once.
ShownNameCurrent ==
  serial /\ ~dropped /\ Quiet =>
    \A o \in Accounts \ edited : IsOffice(o) => details[o] \in {None, office[o].name}
=============================================================================
