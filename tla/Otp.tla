--------------------------------- MODULE Otp ---------------------------------
(***************************************************************************)
(* One-time codes (src/module/otp): generate expires the pending codes of  *)
(* an account and inserts a new one, verify compares an input with the     *)
(* newest. Both end in a save of what an earlier statement read.           *)
(***************************************************************************)
EXTENDS Accounts

CONSTANTS MaxCodes,     \* bound on the rows of otps, numbered as they are created
          MaxAttempts   \* wrong inputs a code allows

ASSUME MaxCodesNat == MaxCodes \in Nat
ASSUME MaxAttemptsPositive == MaxAttempts \in Nat \ {0}

VARIABLES code,         \* otps
          wrong,        \* history: wrong inputs compared with each code
          accepted,     \* history: times each code was accepted
          resettable    \* accounts for which a password reset token is valid

otpVars == <<code, wrong, accepted, resettable>>

Codes == 1..MaxCodes
Purposes == {"PHONE_VERIFICATION", "PASSWORD_RESET"}
Fresh == 0    \* age of a code: less than a minute,
Aged == 1     \* a minute or more,
Lapsed == 2   \* past expiresAt

Code == [account : Accounts, purpose : Purposes, status : {"PENDING", "EXPIRED", "VERIFIED"},
         attempts : 0..MaxAttempts, age : Fresh..Lapsed]

ASSUME NoneIsNoCode == None \notin Code

OtpTypeOK ==
  /\ code \in [Codes -> Code \union {None}]
  /\ resettable \subseteq Accounts

OtpInit ==
  /\ code = [c \in Codes |-> None]
  /\ wrong = [c \in Codes |-> 0]
  /\ accepted = [c \in Codes |-> 0]
  /\ resettable = {}

Pending(a, purpose) ==
  {c \in Codes : /\ code[c] # None
                 /\ code[c].account = a
                 /\ code[c].purpose = purpose
                 /\ code[c].status = "PENDING"}
Unissued == {c \in Codes : code[c] = None}
Newest(a, purpose) == Max(Pending(a, purpose))

\* generate throws while a pending code is younger than a minute
GenerateCheck(h) ==
  LET r == req[h] IN
  /\ At(h, "otp_check")
  /\ IF ~Exists(r.who) \/ \E c \in Pending(r.who, r.purpose) : code[c].age = Fresh
     THEN Done(h)
     ELSE Goto(h, [r EXCEPT !.at = "otp_expire"])
  /\ UNCHANGED <<accountVars, otpVars>>

\* Mutant: the update of the older codes is forgotten.
GenerateWithoutExpiry(h) ==
  /\ At(h, "otp_expire")
  /\ Goto(h, [req[h] EXCEPT !.at = "otp_insert"])
  /\ UNCHANGED <<accountVars, otpVars>>

GenerateExpire(h) ==
  LET old == Pending(req[h].who, req[h].purpose) IN
  /\ At(h, "otp_expire")
  /\ code' = [c \in Codes |-> IF c \in old THEN [code[c] EXCEPT !.status = "EXPIRED"] ELSE code[c]]
  /\ Goto(h, [req[h] EXCEPT !.at = "otp_insert"])
  /\ UNCHANGED <<accountVars, wrong, accepted, resettable>>

\* With no id left (the bound on rows) the insert fails.
GenerateInsert(h) ==
  /\ At(h, "otp_insert")
  /\ IF Unissued = {} THEN UNCHANGED code
     ELSE code' = [code EXCEPT ![Min(Unissued)] =
            [account |-> req[h].who, purpose |-> req[h].purpose, status |-> "PENDING",
             attempts |-> 0, age |-> Fresh]]
  /\ Done(h)
  /\ UNCHANGED <<accountVars, wrong, accepted, resettable>>

\* Mutant: the count of the attempts is not kept.
JudgedUncounted(c, right) ==
  IF code[c].age = Lapsed THEN [code[c] EXCEPT !.status = "EXPIRED"]
  ELSE IF right THEN [code[c] EXCEPT !.status = "VERIFIED"]
  ELSE code[c]

\* The row verify will save: expired, with one more attempt, or verified.
Judged(c, right) ==
  IF code[c].age = Lapsed THEN [code[c] EXCEPT !.status = "EXPIRED"]
  ELSE IF right THEN [code[c] EXCEPT !.status = "VERIFIED"]
  ELSE [code[c] EXCEPT !.attempts = @ + 1]

\* Mutant: the attempts are not compared with their limit.
VerifyReadUnlimited(h) ==
  LET r == req[h]
      a == Find(r.id)
      c == Newest(a, r.purpose)
  IN
  /\ At(h, "otp_read")
  /\ IF a = None \/ Pending(a, r.purpose) = {} THEN Done(h)
     ELSE Goto(h, [at |-> "otp_save", id |-> r.id, who |-> a, purpose |-> r.purpose, code |-> c,
                   row |-> Judged(c, r.right), ok |-> r.right /\ code[c].age # Lapsed])
  /\ UNCHANGED <<accountVars, otpVars>>

\* verify reads the newest pending code of the account the identifier names. It throws
\* when there is none or the code has been tried too often.
VerifyRead(h) ==
  LET r == req[h]
      a == Find(r.id)
      c == Newest(a, r.purpose)
      used == code[c].age # Lapsed /\ code[c].attempts >= MaxAttempts
  IN
  /\ At(h, "otp_read")
  /\ IF a = None \/ Pending(a, r.purpose) = {} THEN Done(h)
     ELSE IF used THEN Done(h)
     ELSE Goto(h, [at |-> "otp_save", id |-> r.id, who |-> a, purpose |-> r.purpose, code |-> c,
                   row |-> Judged(c, r.right), ok |-> r.right /\ code[c].age # Lapsed])
  /\ UNCHANGED <<accountVars, otpVars>>

\* The row is saved as it was read, but for the change. Verification of the phone goes
\* on with the account (Auth); that of a password reset ends in a reset token.
VerifySave(h) ==
  LET r == req[h]  c == r.code IN
  /\ At(h, "otp_save")
  /\ code' = [code EXCEPT ![c] = [r.row EXCEPT !.age = code[c].age]]
  /\ accepted' = [accepted EXCEPT ![c] = IF r.ok THEN @ + 1 ELSE @]
  /\ wrong' = [wrong EXCEPT ![c] = IF r.row.status = "PENDING" THEN @ + 1 ELSE @]
  /\ IF r.ok /\ r.purpose = "PHONE_VERIFICATION"
     THEN /\ Goto(h, [at |-> "phone_read", id |-> r.id])
          /\ proved' = [proved EXCEPT ![r.who] = "code"]
          /\ UNCHANGED resettable
     ELSE /\ Done(h)
          /\ resettable' = IF r.ok THEN resettable \union {r.who} ELSE resettable
          /\ UNCHANGED proved
  /\ UNCHANGED <<account, asked>>

\* Time passes: a code grows older, never older than those created before it.
CodeAges(c) ==
  /\ code[c] # None
  /\ code[c].age < Lapsed
  /\ \A d \in 1..(c - 1) : code[d].age > code[c].age
  /\ code' = [code EXCEPT ![c].age = @ + 1]
  /\ UNCHANGED <<accountVars, wrong, accepted, resettable, reqVars>>

\* The five minutes of a reset token are over.
ResetTokenExpires(a) ==
  /\ a \in resettable
  /\ resettable' = resettable \ {a}
  /\ UNCHANGED <<accountVars, code, wrong, accepted, reqVars>>

OtpStep(h) ==
  GenerateCheck(h) \/ GenerateExpire(h) \/ GenerateInsert(h) \/ VerifyRead(h) \/ VerifySave(h)

(***************************************************************************)
(* Properties                                                              *)
(***************************************************************************)

\* generate leaves one code of an account and a purpose that can still be verified,
\* wherever a request is cut: the older ones are expired before the new one is inserted.
OneLiveCode ==
  serial => \A a \in Accounts, p \in Purposes : Cardinality(Pending(a, p)) <= 1

\* A code is accepted once, and never after MaxAttempts wrong inputs.
CodeTriesBounded ==
  serial => \A c \in Codes : accepted[c] <= 1 /\ wrong[c] <= MaxAttempts
=============================================================================
