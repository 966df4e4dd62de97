----------------------------- MODULE MCAccounts -----------------------------
(***************************************************************************)
(* One run explores accounts, codes, sessions and offices from several     *)
(* starting points, each with the requests that matter there (focus).      *)
(***************************************************************************)
EXTENDS Reports, TLC

CONSTANTS a1, a2, m1, m2, m3, p1, p2, p3, n1, w1, r1, Foci

VARIABLE focus

vars == <<identityVars, reportVars, focus>>

Owner(status) ==
  [NewAccount("OFFICE", m1, p1, w1) EXCEPT !.status = status, !.verified = status # "PENDING_OTP"]

\* A verified office, with a session, before and after its review.
OfficeExists(status) ==
  /\ account = [a \in Accounts |-> IF a = a1 THEN Owner(status) ELSE None]
  /\ asked = [a \in Accounts |-> IF a = a1 THEN Asked(Owner(status)) ELSE None]
  /\ proved = [a \in Accounts |-> IF a = a1 /\ status # "PENDING_OTP" THEN "code" ELSE "no"]
  /\ office = [a \in Accounts |-> IF a = a1 THEN NewOffice(n1) ELSE None]
  /\ employee = [e \in Employees |-> None]
  /\ details = [a \in Accounts |-> None]
  /\ edited = {}
  /\ cleared = IF status = "ACTIVE" THEN {a1} ELSE {}
  /\ letIn = cleared

\* Two offices and nobody else.
TwoOffices ==
  /\ account = [a \in Accounts |-> IF a = a1 THEN Owner("ACTIVE")
                                   ELSE [Owner("ACTIVE") EXCEPT !.email = m2, !.phone = p2]]
  /\ asked = [a \in Accounts |-> Asked(account[a])]
  /\ proved = [a \in Accounts |-> "code"]
  /\ office = [a \in Accounts |-> NewOffice(n1)]
  /\ employee = [e \in Employees |-> None]
  /\ details = [a \in Accounts |-> None]
  /\ edited = {}
  /\ cleared = Accounts
  /\ letIn = Accounts

\* An office that has been sent a code.
CodeSent ==
  /\ OfficeExists("PENDING_OTP")
  /\ code = [c \in Codes |-> IF c > 1 THEN None ELSE
               [account |-> a1, purpose |-> "PHONE_VERIFICATION", status |-> "PENDING",
                attempts |-> 0, age |-> Fresh]]
  /\ wrong = [c \in Codes |-> 0]
  /\ accepted = [c \in Codes |-> 0]
  /\ resettable = {}

Reporting == {"offers", "payments"}

Init ==
  /\ focus \in Foci
  /\ AuthInit
  /\ RequestsInit(focus # "overlap")
  /\ IF focus = "overlap" THEN CodeSent
     ELSE /\ OtpInit
          /\ IF focus \in {"codes", "phones", "admin"} THEN AccountsInit /\ OfficesInit
             ELSE IF focus \in Reporting THEN TwoOffices \/ OfficeExists("ACTIVE")
             ELSE \E status \in {"PENDING_REVIEW", "ACTIVE"} : OfficeExists(status)
  /\ ReportsInit
  /\ focus \notin Reporting => ~east

Issued == Cardinality(Codes \ Unissued)

CodesRequest(h) ==
  \/ \E role \in {"USER", "OFFICE"} : Register(h, a1, role, m1, p1, w1, n1)
  \/ \E id \in {m1}, p \in Purposes : RequestCode(h, id, p)
  \/ \E id \in {p1}, p \in Purposes, right \in BOOLEAN : EnterCode(h, id, p, right)

PhonesRequest(h) ==
  \/ \E role \in {"USER", "OFFICE"} : Register(h, a1, role, m1, p1, w1, n1)
  \/ \E p \in {p1, p2} :
       \/ Issued < 2 /\ RequestCode(h, p, "PHONE_VERIFICATION")
       \/ EnterCode(h, p, "PHONE_VERIFICATION", TRUE)
       \/ Issued < 2 /\ ChangePhoneRead(h, a1, p)
       \/ Login(h, p)
  \/ DeleteAccount(h, a1)

SessionsRequest(h) ==
  \/ \E id \in {m1, p1} : Login(h, id)
  \/ \E s \in Sessions : RefreshRead(h, s)
  \/ \E w \in Passwords : UpdatePasswordRead(h, a1, w)
  \/ \E e \in {m1, m2} : UpdateEmailRead(h, a1, e)
  \/ DeleteAccount(h, a1)

\* What an office shows: its profile, its change requests and the cache.
ProfileRequest ==
  \/ \E h \in Handlers :
       \/ ApproveChangeRead(h, a1)
       \/ RejectChangeRead(h, a1)
       \/ \E a \in Accounts : ReadDetails(h, a)
  \/ \E f \in {"commerceNumber", "logo"} : FillProfile(a1, f)
  \/ \E e \in Employees : AddOfficeEmployee(a1, e)
  \/ DeleteOffice(a1)
  \/ DetailsExpire(a1)
  \/ \E n \in Names : UpdateOfficeByAdmin(a1, n, "ACTIVE")
  \/ \E n \in Names, p \in {None, p2} :
       AddChangeRequest(a1, [name |-> n, email |-> None, phone |-> p])

\* Who may act for an office: its review and its employees.
StaffRequest ==
  \/ \E h \in Handlers :
       \/ ApproveRegistration(h, a1)
       \/ ToggleOfficeRead(h, a1)
       \/ \E e \in Employees : RemoveEmployee(h, e)
  \/ \E e \in Employees : AddOfficeEmployeeWithAccount(a1, e, a2, m2, p2, w1)
  \/ RejectRegistration(a1)
  \/ DeleteOffice(a1)
  \/ \E s \in {"REJECTED", "CREATED"} : UpdateOfficeByAdmin(a1, n1, s)

\* The admin's employees and users.
AdminRequest ==
  \/ CreateAdminAccount(a1, m1, p1, w1, r1)
  \/ \E e \in {m1, m2}, p \in {p1, p2}, w \in Passwords : UpdateAdminEmployee(a1, e, p, w, r1)
  \/ Create(a2, NewAccount("USER", m2, p2, w1)) /\ AtOnce
  \/ \E e \in {m1, m2}, p \in {p2, p3}, s \in {"ACTIVE", "BLOCKED"} : UpdateUser(a2, e, p, s)
  \/ DeleteAdminEmployee(a1)
  \/ \E h \in Handlers : (\E a \in Accounts : ToggleRead(h, a)) \/ ToggleSave(h)

OfficesStep ==
  \E h \in Handlers :
       \/ ClearEmployee(h) \/ ToggleOfficeSave(h) \/ ApplyChange(h) \/ DropDetails(h)
       \/ RejectChange(h) \/ FillDetails(h) \/ TrialDone(h)

\* The phone of an employee or of the owner is changed and verified again.
ReverifyRequest(h) ==
  \/ \E p \in {p1, p2} : Login(h, p)
  \/ \E a \in Accounts : Issued < 2 /\ ChangePhoneRead(h, a, p3)
  \/ EnterCode(h, p3, "PHONE_VERIFICATION", TRUE)

\* The rows that reports read; a user's profile can be deleted, an office can have an
\* employee, and it can be deleted while it has made no offer.
RowsRequest ==
  /\ \/ Tick
     \/ \E o \in OfferRows, f \in Accounts, x \in Worth :
          /\ focus = "offers"
          /\ \/ (\A i \in OfferRows : i < o => made[i] # None) /\ OfferComes(o, f, x)
             \/ \E s \in {"ACCEPTED", "REJECTED"} : OfferDecided(o, s)
     \/ \E p \in PaymentRows :
          /\ focus = "payments"
          /\ \/ PaymentSucceeds(p)
             \/ \E a \in Accounts, t \in BookingTypes \union {"SUBSCRIPTION"}, x \in Worth :
                  (\A i \in PaymentRows : i < p => paid[i] # None) /\ PaymentComes(p, a, t, x)
  /\ UNCHANGED <<identityVars, joined, profile>>

PeopleRequest ==
  /\ \/ Create(a2, NewAccount("USER", m2, p2, w1)) /\ UNCHANGED officeVars
     \/ /\ focus = "offers"
        /\ \/ \E e \in Employees : AddOfficeEmployeeWithAccount(a1, e, a2, m2, p2, w1)
           \/ DeleteOffice(a1)
  /\ UNCHANGED <<reqVars, otpVars, authVars>>

Others == (\E h \in Handlers : AuthStep(h) \/ (Drop(h) /\ UNCHANGED <<rowVars, authVars>>))
          \/ (\E c \in Codes : CodeAges(c) /\ UNCHANGED <<officeVars, authVars>>)

AccountsNext ==
  /\ \/ Others
     \/ focus = "codes" /\ \E h \in Handlers : CodesRequest(h)
     \/ focus = "codes" /\ \E w \in Passwords : ResetPassword(a1, w)
     \/ focus = "codes" /\ ResetTokenExpires(a1) /\ UNCHANGED <<officeVars, authVars>>
     \/ focus = "sessions" /\ \E h \in Handlers : SessionsRequest(h)
     \/ focus = "sessions" /\ \E s \in Sessions : Logout(s)
     \/ /\ \/ OfficesStep
           \/ focus = "profile" /\ ProfileRequest
           \/ focus \in {"staff", "overlap"} /\ StaffRequest
        /\ UNCHANGED <<otpVars, authVars>>
     \/ focus = "staff" /\ \E h \in Handlers : ReverifyRequest(h)
     \/ focus = "overlap" /\ \E h \in Handlers : EnterCode(h, p1, "PHONE_VERIFICATION", TRUE)
     \/ focus = "admin" /\ AdminRequest /\ UNCHANGED <<officeVars, otpVars, authVars>>
     \/ focus = "phones" /\ \E h \in Handlers : PhonesRequest(h)

Next ==
  /\ UNCHANGED focus
  /\ \/ /\ \/ focus \notin Reporting /\ AccountsNext
           \/ focus \in Reporting /\ PeopleRequest
        /\ PeopleStep
     \/ focus \in Reporting /\ RowsRequest
     \/ focus \in Reporting \union {"admin"} /\ DeleteProfile(a2)

HandlerSymmetry == Permutations(Handlers)

Spec == Init /\ [][Next]_vars
=============================================================================
