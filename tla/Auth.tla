-------------------------------- MODULE Auth --------------------------------
(***************************************************************************)
(* Registration, verification, login, refresh and logout (src/module/auth) *)
(* over accounts, codes, offices and sessions.                             *)
(*                                                                         *)
(* bcrypt compares the first 72 bytes: for the refresh tokens of this      *)
(* service these hold the header and the account id. A session is looked   *)
(* up by the account of the token, so the comparison in validateSession    *)
(* holds whenever the session is found, and a session needs no hash here.  *)
(***************************************************************************)
EXTENDS Otp, Offices

CONSTANT Sessions   \* ids of sessions rows

VARIABLES session,  \* sessions
          ended     \* history: sessions that were logged out

authVars == <<session, ended>>
rowVars == <<accountVars, officeVars, otpVars>>

Session == [account : Accounts, isRevoked : BOOLEAN]

ASSUME NoneIsNoSession == None \notin Session

AuthTypeOK ==
  /\ AccountsTypeOK
  /\ OfficesTypeOK
  /\ OtpTypeOK
  /\ session \in [Sessions -> Session \union {None}]
  /\ ended \subseteq Sessions

AuthInit ==
  /\ session = [s \in Sessions |-> None]
  /\ ended = {}

SessionsOf(a) == {s \in Sessions : session[s] # None /\ session[s].account = a}
Live(s) == session[s] # None /\ ~session[s].isRevoked

\* validate of the access token strategy: an account that has been given a token (with
\* a session) and does not wait for a code. The routes of AuthController are public to
\* the interceptors, so no other status matters.
Authenticated(a) == Exists(a) /\ account[a].status # "PENDING_OTP" /\ SessionsOf(a) # {}

(***************************************************************************)
(* Registration, codes and passwords                                       *)
(***************************************************************************)

\* registerUser and registerOffice: account and profile in one transaction, then a code
Register(h, a, role, e, p, w, n) ==
  /\ Create(a, NewAccount(role, e, p, w))
  /\ IF role = "OFFICE" THEN SetOffice(a, NewOffice(n)) ELSE UNCHANGED office
  /\ Begin(h, [at |-> "otp_check", who |-> a, purpose |-> "PHONE_VERIFICATION"])
  /\ UNCHANGED <<employee, details, edited, cleared, letIn, otpVars, authVars>>

\* resendPhoneVerificationOtp and forgotPassword
RequestCode(h, id, purpose) ==
  /\ Find(id) # None
  /\ Begin(h, [at |-> "otp_check", who |-> Find(id), purpose |-> purpose])
  /\ UNCHANGED <<rowVars, authVars>>

\* verifyPhoneOtp and verifyPasswordResetOtp
EnterCode(h, id, purpose, right) ==
  /\ Find(id) # None
  /\ Begin(h, [at |-> "otp_read", id |-> id, purpose |-> purpose, right |-> right])
  /\ UNCHANGED <<rowVars, authVars>>

ResetPassword(a, w) ==
  /\ a \in resettable
  /\ SetPassword(a, w)
  /\ UNCHANGED <<officeVars, otpVars, authVars>>
  /\ AtOnce

\* updatePassword, once validateCredentials accepts the current one
UpdatePasswordRead(h, a, w) ==
  /\ Authenticated(a)
  /\ Begin(h, [at |-> "password", who |-> a, password |-> w])
  /\ UNCHANGED <<rowVars, authVars>>

UpdatePassword(h) ==
  /\ At(h, "password")
  /\ SetPassword(req[h].who, req[h].password)
  /\ Done(h)
  /\ UNCHANGED <<officeVars, otpVars, authVars>>

\* updateUserProfile: an email nobody has, the account's own neither
UpdateEmailRead(h, a, e) ==
  /\ Authenticated(a)
  /\ ~EmailTaken(e)
  /\ Begin(h, [at |-> "email", who |-> a, email |-> e])
  /\ UNCHANGED <<rowVars, authVars>>

UpdateEmail(h) ==
  /\ At(h, "email")
  /\ SetEmail(req[h].who, req[h].email)
  /\ Done(h)
  /\ UNCHANGED <<officeVars, otpVars, authVars>>

ChangePhoneRead(h, a, p) ==
  /\ Authenticated(a)
  /\ ~PhoneTaken(p)
  /\ Begin(h, [at |-> "phone", who |-> a, phone |-> p])
  /\ UNCHANGED <<rowVars, authVars>>

\* The number is changed before its code is generated.
ChangePhone(h) ==
  LET r == req[h] IN
  /\ At(h, "phone")
  /\ IF PhoneTaken(r.phone)
     THEN Done(h) /\ UNCHANGED accountVars
     ELSE /\ SetPhone(r.who, r.phone)
          /\ Goto(h, [at |-> "otp_check", who |-> r.who, purpose |-> "PHONE_VERIFICATION"])
  /\ UNCHANGED <<officeVars, otpVars, authVars>>

(***************************************************************************)
(* verifyPhoneOtp after the code is accepted                               *)
(***************************************************************************)

MarkVerifiedRead(h) ==
  LET a == Find(req[h].id) IN
  /\ At(h, "phone_read")
  /\ IF a = None THEN Done(h)
     ELSE Goto(h, [at |-> "phone_save", who |-> a, row |-> [account[a] EXCEPT !.verified = TRUE]])
  /\ UNCHANGED <<rowVars, authVars>>

\* verifyPhone saves the row it read: every column that differs is written back.
MarkVerified(h) ==
  LET r == req[h] IN
  /\ At(h, "phone_save")
  /\ account' = [account EXCEPT ![r.who] = r.row]
  /\ Goto(h, [at |-> "member", who |-> r.who])
  /\ UNCHANGED <<asked, proved, officeVars, otpVars, authVars>>

\* Mutant: every account that is verified becomes active.
StatusVerifiedAlways(a) == "ACTIVE"

\* changeAccountStatusAfterVerification
StatusVerified(a) ==
  IF account[a].role = "USER" \/ IsEmployee(a) THEN "ACTIVE" ELSE "PENDING_REVIEW"

MembershipRead(h) ==
  LET a == req[h].who IN
  /\ At(h, "member")
  /\ Goto(h, IF account[a].role = "ADMIN" THEN [at |-> "session", who |-> a]
             ELSE [at |-> "verified", who |-> a, status |-> StatusVerified(a)])
  /\ UNCHANGED <<rowVars, authVars>>

StatusAfterVerification(h) ==
  LET r == req[h] IN
  /\ At(h, "verified")
  /\ SetStatus(r.who, r.status)
  /\ Goto(h, [at |-> "session", who |-> r.who])
  /\ UNCHANGED <<officeVars, otpVars, authVars>>

(***************************************************************************)
(* Sessions                                                                *)
(***************************************************************************)

\* login: an account whose phone is not verified is sent a code instead
Login(h, id) ==
  LET a == Find(id) IN
  /\ a # None
  /\ Begin(h, IF account[a].verified
              THEN [at |-> "session", who |-> a]
              ELSE [at |-> "otp_check", who |-> a, purpose |-> "PHONE_VERIFICATION"])
  /\ UNCHANGED <<rowVars, authVars>>

\* With no id left (the bound on rows) the insert fails.
CreateSession(h) ==
  LET free == {s \in Sessions : session[s] = None} IN
  /\ At(h, "session")
  /\ IF free = {} THEN UNCHANGED session
     ELSE \E s \in free :
            session' = [session EXCEPT ![s] = [account |-> req[h].who, isRevoked |-> FALSE]]
  /\ Done(h)
  /\ UNCHANGED <<rowVars, ended>>

\* Mutant: any session of the account can be refreshed.
RefreshReadAny(h, s) ==
  /\ session[s] # None
  /\ Begin(h, [at |-> "rotate", session |-> s, row |-> [session[s] EXCEPT !.isRevoked = FALSE]])
  /\ UNCHANGED <<rowVars, authVars>>

\* validateSession, in the guard and again in refreshTokens
RefreshRead(h, s) ==
  /\ Live(s)
  /\ Begin(h, [at |-> "rotate", session |-> s, row |-> session[s]])
  /\ UNCHANGED <<rowVars, authVars>>

\* rotateRefreshToken saves the session it was given, isRevoked included.
RotateRefreshToken(h) ==
  /\ At(h, "rotate")
  /\ session' = [session EXCEPT ![req[h].session] = req[h].row]
  /\ Done(h)
  /\ UNCHANGED <<rowVars, ended>>

\* logoutDevice
Logout(s) ==
  /\ session[s] # None
  /\ \E a \in Accounts : Authenticated(a)
  /\ session' = [session EXCEPT ![s].isRevoked = TRUE]
  /\ ended' = ended \union {s}
  /\ UNCHANGED rowVars
  /\ AtOnce

RevokeAll(a) ==
  session' = [s \in Sessions |-> IF s \in SessionsOf(a) THEN [session[s] EXCEPT !.isRevoked = TRUE]
                                 ELSE session[s]]

\* deleteAccount: every session is revoked, then the account is blocked
DeleteAccount(h, a) ==
  /\ Authenticated(a)
  /\ RevokeAll(a)
  /\ ended' = ended \union SessionsOf(a)
  /\ Begin(h, [at |-> "delete", who |-> a])
  /\ UNCHANGED rowVars

DeleteAccountRow(h) ==
  /\ At(h, "delete")
  /\ SoftDelete(req[h].who)
  /\ Done(h)
  /\ UNCHANGED <<officeVars, otpVars, authVars>>

Identifiers == Emails \union Phones

AuthRequest(h) ==
  \/ \E id \in Identifiers, p \in Purposes : RequestCode(h, id, p)
  \/ \E id \in Identifiers, p \in Purposes, right \in BOOLEAN : EnterCode(h, id, p, right)
  \/ \E a \in Accounts, w \in Passwords : UpdatePasswordRead(h, a, w)
  \/ \E a \in Accounts, e \in Emails : UpdateEmailRead(h, a, e)
  \/ \E a \in Accounts, p \in Phones : ChangePhoneRead(h, a, p)
  \/ \E id \in Identifiers : Login(h, id)
  \/ \E s \in Sessions : RefreshRead(h, s)
  \/ \E a \in Accounts : DeleteAccount(h, a)

AuthStep(h) ==
  \/ OtpStep(h) /\ UNCHANGED <<officeVars, authVars>>
  \/ UpdatePassword(h) \/ UpdateEmail(h) \/ ChangePhone(h)
  \/ MarkVerifiedRead(h) \/ MarkVerified(h) \/ MembershipRead(h) \/ StatusAfterVerification(h)
  \/ CreateSession(h) \/ RotateRefreshToken(h) \/ DeleteAccountRow(h)

AuthNext ==
  \/ \E h \in Handlers : AuthRequest(h) \/ AuthStep(h)
  \/ \E h \in Handlers, a \in Accounts, role \in {"USER", "OFFICE"}, e \in Emails, p \in Phones,
        w \in Passwords, n \in Names : Register(h, a, role, e, p, w, n)
  \/ \E a \in Accounts, w \in Passwords : ResetPassword(a, w)
  \/ \E s \in Sessions : Logout(s)
  \/ /\ \/ \E c \in Codes : CodeAges(c)
        \/ \E a \in Accounts : ResetTokenExpires(a)
     /\ UNCHANGED <<officeVars, authVars>>

\* createTrialSubscription is the step of another module (Subscriptions).
TrialDone(h) == At(h, "trial") /\ Done(h) /\ UNCHANGED <<rowVars, authVars>>

\* All requests on accounts, codes, sessions and offices, each cut at most once.
identityVars == <<reqVars, rowVars, authVars>>

IdentityInit ==
  /\ AccountsInit /\ OfficesInit /\ OtpInit /\ AuthInit
  /\ \E oneAtATime \in BOOLEAN : RequestsInit(oneAtATime)

\* All but deleteProfile
IdentityEdits ==
  \/ AuthNext
  \/ AdminEdits /\ UNCHANGED <<officeVars, otpVars, authVars>>
  \/ OfficesNext /\ UNCHANGED <<otpVars, authVars>>
  \/ \E h \in Handlers : TrialDone(h)
  \/ \E h \in Handlers : Drop(h) /\ UNCHANGED <<rowVars, authVars>>

IdentityNext ==
  \/ IdentityEdits
  \/ \E a \in Accounts : DeleteUser(a) /\ UNCHANGED <<officeVars, otpVars, authVars>>

IdentitySpec == IdentityInit /\ [][IdentityNext]_identityVars

(***************************************************************************)
(* Properties                                                              *)
(***************************************************************************)

\* A session that was logged out, alone (logoutDevice) or with its account
\* (deleteAccount), is never usable again: no refresh brings it back.
LoggedOutStaysOut == serial => \A s \in ended : session[s].isRevoked

\* The email, phone and password of an account are the last ones its owner, its
\* registration or an approved change gave it: no save of a row read earlier undoes them.
OwnerDataKept ==
  serial => \A a \in Accounts : Exists(a) => Asked(account[a]) = asked[a]

\* A phone counts as verified only when a code of the account was accepted since the number
\* was set (whatever number that code was sent to), or it was given the mark: the account
\* was made verified (an admin's employee, an office's), or the new number kept the mark of
\* a verified one. The last is a divergence: changePhone resets isPhoneVerified, but an
\* update by an admin (account.service.ts:257), by the user itself (user.service.ts:72) and
\* an approved change request (office.service.ts:546) put in a number nobody proved.
\* changePhone and deletion never leave the mark on.
VerifiedIsProved ==
  serial => \A a \in Accounts : Exists(a) /\ account[a].verified => proved[a] # "no"
=============================================================================
