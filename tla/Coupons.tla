------------------------------- MODULE Coupons -------------------------------
(***************************************************************************)
(* Coupons and the booking services an admin switches on and off           *)
(* (src/module/coupon, src/module/bookings/settings). A coupon is only     *)
(* looked at when a payment is prepared: validateAndApply, which would     *)
(* count its use, is called from nowhere, so no action here uses one up.   *)
(***************************************************************************)
EXTENDS Accounts

CONSTANTS Coupons,   \* ids of coupons rows
          Codes,        \* what generateUniqueCode can draw
          Amounts,      \* amounts a discount is computed on, in cents
          Discounts,    \* values of a discount: percents, or cents
          Services      \* the types of booking

VARIABLES coupon,       \* coupons
          retired,      \* history: coupons an admin removed and has not edited since
          setting,      \* booking_settings: isEnabled by service, None without a row
          enabled,      \* the in-memory cache of the settings
          booted        \* whether the cache was loaded

catalogVars == <<coupon, retired, setting, enabled, booted>>

\* The window of startDate and endDate: before it, in it, after it.
Coupon == [code : Codes, target : {"USER", "OFFICE"}, kind : {"PERCENTAGE", "FIXED"},
           value : Discounts, window : {"early", "open", "over"},
           status : {"ACTIVE", "INACTIVE"}]

ASSUME NoneIsNoCoupon == None \notin Coupon
\* Amounts of payments are not negative, and a discount is at least 0.01 (CreateCouponDto).
ASSUME AmountsAreNat == Amounts \subseteq Nat /\ Discounts \subseteq Nat

CouponsTypeOK ==
  /\ coupon \in [Coupons -> Coupon \union {None}]
  /\ setting \in [Services -> BOOLEAN \union {None}]
  /\ enabled \in [Services -> BOOLEAN \union {None}]

CouponsInit ==
  /\ coupon = [c \in Coupons |-> None]
  /\ retired = {}
  /\ setting = [t \in Services |-> None]
  /\ enabled = [t \in Services |-> None]
  /\ booted = TRUE

CouponExists(c) == coupon[c] # None
CodeTaken(code) == \E c \in Coupons : CouponExists(c) /\ coupon[c].code = code

\* create: the code is drawn until the table does not hold it; the insert can still meet
\* the unique index.
CreateCouponRead(h, c, row) ==
  /\ ~CouponExists(c)
  /\ ~CodeTaken(row.code)
  /\ Begin(h, [at |-> "create_coupon", coupon |-> c, row |-> row])
  /\ UNCHANGED <<accountVars, catalogVars>>

CreateCoupon(h) ==
  LET c == req[h].coupon IN
  /\ At(h, "create_coupon")
  /\ IF CodeTaken(req[h].row.code) \/ CouponExists(c) THEN UNCHANGED coupon
     ELSE coupon' = [coupon EXCEPT ![c] = req[h].row]
  /\ Done(h)
  /\ UNCHANGED <<accountVars, retired, setting, enabled, booted>>

\* update: the fields that are sent over the row that was read
UpdateCouponRead(h, c, row) ==
  /\ CouponExists(c)
  /\ Begin(h, [at |-> "save_coupon", coupon |-> c, row |-> [row EXCEPT !.code = coupon[c].code]])
  /\ UNCHANGED <<accountVars, catalogVars>>

\* Mutant: removing a coupon saves the row as it was read.
RemoveCouponUnchanged(h, c) ==
  /\ CouponExists(c)
  /\ Begin(h, [at |-> "remove_coupon", coupon |-> c, row |-> coupon[c]])
  /\ UNCHANGED <<accountVars, catalogVars>>

\* remove
RemoveCouponRead(h, c) ==
  /\ CouponExists(c)
  /\ Begin(h, [at |-> "remove_coupon", coupon |-> c, row |-> [coupon[c] EXCEPT !.status = "INACTIVE"]])
  /\ UNCHANGED <<accountVars, catalogVars>>

SaveCoupon(h) ==
  LET c == req[h].coupon IN
  /\ At(h, "save_coupon") \/ At(h, "remove_coupon")
  /\ coupon' = [coupon EXCEPT ![c] = [req[h].row EXCEPT !.window = coupon[c].window]]
  /\ retired' = IF At(h, "remove_coupon") THEN retired \union {c} ELSE retired \ {c}
  /\ Done(h)
  /\ UNCHANGED <<accountVars, setting, enabled, booted>>

WindowMoves(c) ==
  /\ CouponExists(c)
  /\ coupon[c].window # "over"
  /\ coupon' = [coupon EXCEPT ![c].window = IF @ = "early" THEN "open" ELSE "over"]
  /\ UNCHANGED <<accountVars, reqVars, retired, setting, enabled, booted>>

\* assertCouponEligible, for an account: no coupon is ever used, so its count is 0,
\* below its limit (at least 1), and no booking has used it.
Eligible(c, a) ==
  /\ CouponExists(c)
  /\ coupon[c].status = "ACTIVE"
  /\ coupon[c].window = "open"
  /\ Exists(a)
  /\ coupon[c].target = account[a].role

\* Math.round of a non-negative fraction n / d
RoundDiv(n, d) == (2 * n + d) \div (2 * d)

\* Mutant: a fixed discount is not held against the amount.
UncappedDiscount(kind, value, amount) ==
  IF kind = "PERCENTAGE" THEN RoundDiv(amount * value, 100) ELSE value

\* calculateDiscount
CalculateDiscount(kind, value, amount) ==
  Min({amount, IF kind = "PERCENTAGE" THEN RoundDiv(amount * value, 100) ELSE value})

\* validate: what a payment is reduced to
FinalAmount(c, amount) == amount - CalculateDiscount(coupon[c].kind, coupon[c].value, amount)

(***************************************************************************)
(* Booking settings                                                        *)
(***************************************************************************)

\* upsert reads, saves, then sets the cache.
UpsertRead(h, t, on) ==
  /\ Begin(h, [at |-> "save_setting", service |-> t, on |-> on])
  /\ UNCHANGED <<accountVars, catalogVars>>

SaveSetting(h) ==
  /\ At(h, "save_setting")
  /\ setting' = [setting EXCEPT ![req[h].service] = req[h].on]
  /\ Goto(h, [req[h] EXCEPT !.at = "cache_setting"])
  /\ UNCHANGED <<accountVars, coupon, retired, enabled, booted>>

\* Mutant: the cache is left as it was loaded.
KeepSettingCache(h) ==
  /\ At(h, "cache_setting")
  /\ Done(h)
  /\ UNCHANGED <<accountVars, catalogVars>>

CacheSetting(h) ==
  /\ At(h, "cache_setting")
  /\ enabled' = [enabled EXCEPT ![req[h].service] = req[h].on]
  /\ Done(h)
  /\ UNCHANGED <<accountVars, coupon, retired, setting, booted>>

\* The process restarts: requests are lost and the cache is loaded again before the
\* next one is served (onModuleInit).
Restart ==
  /\ req' = [h \in Handlers |-> Idle]
  /\ dropped' = (dropped \/ ~Quiet)
  /\ enabled' = [t \in Services |-> None]
  /\ booted' = FALSE
  /\ UNCHANGED <<accountVars, serial, coupon, retired, setting>>

LoadCache ==
  /\ ~booted
  /\ enabled' = setting
  /\ booted' = TRUE
  /\ UNCHANGED <<accountVars, reqVars, coupon, retired, setting>>

\* isServiceEnabled, asked by BookingServiceGuard: a service without a setting is open.
IsServiceEnabled(t) == enabled[t] # FALSE

CouponsStep(h) == CreateCoupon(h) \/ SaveCoupon(h) \/ SaveSetting(h) \/ CacheSetting(h)

\* All requests on coupons and settings, each cut at most once, and the restarts. What
\* becomes of the accounts meanwhile is left open.
CouponRequests ==
  \E h \in Handlers :
    \/ /\ booted
       /\ \/ \E c \in Coupons, row \in Coupon :
               \/ row.status = "ACTIVE" /\ CreateCouponRead(h, c, row)
               \/ UpdateCouponRead(h, c, row)
          \/ \E c \in Coupons : RemoveCouponRead(h, c)
          \/ \E t \in Services, on \in BOOLEAN : UpsertRead(h, t, on)
    \/ CouponsStep(h)

CouponsNext ==
  \/ CouponRequests
  \/ \E h \in Handlers : Drop(h) /\ UNCHANGED catalogVars
  \/ \E c \in Coupons : WindowMoves(c)
  \/ Restart
  \/ LoadCache

CouponsSpec ==
  /\ CouponsInit
  /\ \E oneAtATime \in BOOLEAN : RequestsInit(oneAtATime)
  /\ [][CouponsNext]_<<reqVars, catalogVars>>

(***************************************************************************)
(* Properties                                                              *)
(***************************************************************************)

\* A coupon an admin removed gives nobody a discount until an admin edits it again.
RemovedGivesNothing == \A c \in retired, a \in Accounts : ~Eligible(c, a)

\* A coupon never makes an amount negative nor larger, whatever its kind and value
\* (calculateDiscount, validate).
DiscountFits ==
  \A c \in Coupons, amount \in Amounts :
    CouponExists(c) => FinalAmount(c, amount) \in 0..amount

\* A coupon gives what it promises and only while it stands.
CouponsSound == RemovedGivesNothing /\ DiscountFits

\* What the guard of a booking route believes is what the table says, restarts included;
\* only a request cut between the save and the cache leaves them apart, until a restart.
ServiceAsSet ==
  serial /\ ~dropped /\ Quiet /\ booted =>
    \A t \in Services : IsServiceEnabled(t) <=> setting[t] # FALSE
=============================================================================
