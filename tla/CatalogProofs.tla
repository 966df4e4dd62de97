--------------------------- MODULE CatalogProofs ---------------------------
(***************************************************************************)
(* What holds of coupons, of the services an admin switches on and off and *)
(* of roles, for any number of each and any number of requests.            *)
(***************************************************************************)
EXTENDS Coupons, Roles, TLAPS

-----------------------------------------------------------------------------
(* How requests move *)

ReqTable == req = [h \in Handlers |-> req[h]]

\* One at a time, only one request is on its way.
OneBusy == serial => \A h, g \in Handlers : req[h] # Idle /\ req[g] # Idle => h = g

ReqInv == ReqTable /\ OneBusy

\* Handler h turns to r; one at a time, nobody else is busy.
MovesTo(h, r) ==
  /\ req' = [req EXCEPT ![h] = r]
  /\ serial' = serial
  /\ serial => \A g \in Handlers \ {h} : req[g] = Idle

LEMMA BeginMoves ==
  ASSUME NEW h \in Handlers, NEW r, Begin(h, r) PROVE MovesTo(h, r) /\ dropped' = dropped
  BY DEF Begin, MovesTo, Quiet

LEMMA GotoMoves ==
  ASSUME ReqInv, NEW h \in Handlers, req[h].at # "idle", NEW r, Goto(h, r)
  PROVE  MovesTo(h, r) /\ dropped' = dropped
<1>1. req[h] # Idle
  BY DEF Idle
<1>2. QED
  BY <1>1 DEF Goto, MovesTo, ReqInv, OneBusy

LEMMA DropMoves ==
  ASSUME ReqInv, NEW h \in Handlers, Drop(h) PROVE MovesTo(h, Idle) /\ dropped'
  BY DEF Drop, MovesTo, ReqInv, OneBusy

LEMMA MoveKeepsOthers ==
  ASSUME ReqInv, NEW h \in Handlers, NEW r, MovesTo(h, r)
  PROVE  /\ req'[h] = r
         /\ \A g \in Handlers \ {h} : req'[g] = req[g]
         /\ ReqInv'
<1>1. /\ req'[h] = r
      /\ \A g \in Handlers \ {h} : req'[g] = req[g]
      /\ ReqTable'
  BY DEF ReqInv, ReqTable, MovesTo
<1>2. OneBusy'
  BY <1>1 DEF OneBusy, MovesTo
<1>3. QED
  BY <1>1, <1>2 DEF ReqInv

LEMMA FirstRequests ==
  ASSUME \E oneAtATime \in BOOLEAN : RequestsInit(oneAtATime) PROVE ReqInv /\ Quiet
  BY DEF RequestsInit, ReqInv, ReqTable, OneBusy, Quiet

-----------------------------------------------------------------------------
(* Coupons *)

\* A request holds a row of its table, of a coupon that was made when it is to be saved
\* again, and a removed one is inactive.
CouponReq(r, rows) ==
  /\ r.at \in {"create_coupon", "save_coupon", "remove_coupon"} =>
       r.coupon \in Coupons /\ r.row \in Coupon
  /\ r.at \in {"save_coupon", "remove_coupon"} => rows[r.coupon] # None
  /\ r.at = "remove_coupon" => r.row.status = "INACTIVE"
  /\ r.at \in {"save_setting", "cache_setting"} =>
       r \in [at : {"save_setting", "cache_setting"}, service : Services, on : BOOLEAN]

CouponReqs == \A h \in Handlers : CouponReq(req[h], coupon)

\* Why a removed coupon gives nothing: its row stays, and stays inactive.
RetiredRows ==
  /\ retired \subseteq Coupons
  /\ \A c \in retired : coupon[c] # None /\ coupon[c].status = "INACTIVE"

CouponInv == ReqInv /\ CouponsTypeOK /\ CouponReqs /\ RetiredRows

CouponsStay == \A c \in Coupons : coupon[c] # None => coupon'[c] # None

LEMMA MoveKeepsCoupons ==
  ASSUME CouponInv, CouponsStay, NEW h \in Handlers, NEW r, MovesTo(h, r), CouponReq(r, coupon')
  PROVE  ReqInv' /\ CouponReqs'
<1>1. /\ req'[h] = r /\ \A g \in Handlers \ {h} : req'[g] = req[g]
      /\ ReqInv'
  BY MoveKeepsOthers DEF CouponInv
<1>2. ASSUME NEW g \in Handlers PROVE CouponReq(req'[g], coupon')
  <2>1. CASE g = h
    BY <1>1, <2>1
  <2>2. CASE g # h
    <3>1. CouponReq(req[g], coupon) /\ req'[g] = req[g]
      BY <1>1, <2>2 DEF CouponInv, CouponReqs
    <3>2. QED
      BY <3>1 DEF CouponReq, CouponsStay
  <2>3. QED
    BY <2>1, <2>2
<1>3. QED
  BY <1>1, <1>2 DEF CouponReqs

\* Nothing but the requests has moved.
LEMMA TablesStay ==
  ASSUME CouponInv, UNCHANGED catalogVars, NEW h \in Handlers, NEW r, MovesTo(h, r),
         CouponReq(r, coupon)
  PROVE  CouponInv'
<1>1. CouponsStay /\ coupon' = coupon /\ retired' = retired
  BY DEF CouponsStay, catalogVars
<1>2. ReqInv' /\ CouponReqs'
  BY <1>1, MoveKeepsCoupons
<1>3. QED
  BY <1>1, <1>2 DEF CouponInv, CouponsTypeOK, RetiredRows, catalogVars

LEMMA CouponRow ==
  ASSUME CouponInv, NEW c \in Coupons, coupon[c] # None PROVE coupon[c] \in Coupon
  BY DEF CouponInv, CouponsTypeOK

LEMMA ReadsKeepCoupons ==
  ASSUME CouponInv, NEW h \in Handlers, NEW c \in Coupons, NEW row \in Coupon,
         CreateCouponRead(h, c, row) \/ UpdateCouponRead(h, c, row) \/ RemoveCouponRead(h, c)
  PROVE  CouponInv'
<1>1. CASE CreateCouponRead(h, c, row)
  <2> DEFINE r == [at |-> "create_coupon", coupon |-> c, row |-> row]
  <2>1. Begin(h, r) /\ UNCHANGED catalogVars
    BY <1>1 DEF CreateCouponRead
  <2>2. CouponReq(r, coupon)
    BY DEF CouponReq
  <2> HIDE DEF r
  <2>3. QED
    BY <2>1, <2>2, BeginMoves, TablesStay
<1>2. CASE UpdateCouponRead(h, c, row)
  <2> DEFINE new == [row EXCEPT !.code = coupon[c].code]
             r == [at |-> "save_coupon", coupon |-> c, row |-> new]
  <2>1. Begin(h, r) /\ UNCHANGED catalogVars /\ coupon[c] # None
    BY <1>2 DEF UpdateCouponRead, CouponExists
  <2>2. new \in Coupon
    BY <2>1, CouponRow DEF Coupon
  <2> HIDE DEF new
  <2>3. CouponReq(r, coupon)
    BY <2>1, <2>2 DEF CouponReq
  <2> HIDE DEF r
  <2>4. QED
    BY <2>1, <2>3, BeginMoves, TablesStay
<1>3. CASE RemoveCouponRead(h, c)
  <2> DEFINE new == [coupon[c] EXCEPT !.status = "INACTIVE"]
             r == [at |-> "remove_coupon", coupon |-> c, row |-> new]
  <2>1. Begin(h, r) /\ UNCHANGED catalogVars /\ coupon[c] # None
    BY <1>3 DEF RemoveCouponRead, CouponExists
  <2>2. new \in Coupon /\ new.status = "INACTIVE"
    BY <2>1, CouponRow DEF Coupon
  <2> HIDE DEF new
  <2>3. CouponReq(r, coupon)
    BY <2>1, <2>2 DEF CouponReq
  <2> HIDE DEF r
  <2>4. QED
    BY <2>1, <2>3, BeginMoves, TablesStay
<1>4. QED
  BY <1>1, <1>2, <1>3

LEMMA UpsertKeepsCoupons ==
  ASSUME CouponInv, NEW h \in Handlers, NEW t \in Services, NEW on \in BOOLEAN, UpsertRead(h, t, on)
  PROVE  CouponInv'
<1> DEFINE r == [at |-> "save_setting", service |-> t, on |-> on]
<1>1. Begin(h, r) /\ UNCHANGED catalogVars
  BY DEF UpsertRead
<1>2. CouponReq(r, coupon)
  BY DEF CouponReq
<1> HIDE DEF r
<1>3. QED
  BY <1>1, <1>2, BeginMoves, TablesStay

\* A row is written: it is that of the coupon, and inactive if the coupon stays retired.
LEMMA WrittenKeepsCoupons ==
  ASSUME CouponInv, NEW c \in Coupons, NEW row \in Coupon, coupon' = [coupon EXCEPT ![c] = row],
         retired' \in SUBSET (retired \union {c}), c \in retired' => row.status = "INACTIVE",
         UNCHANGED <<setting, enabled>>
  PROVE  CouponsTypeOK' /\ RetiredRows' /\ CouponsStay
<1>1. /\ coupon'[c] = row /\ row # None
      /\ \A d \in Coupons \ {c} : coupon'[d] = coupon[d]
      /\ coupon' \in [Coupons -> Coupon \union {None}]
  BY NoneIsNoCoupon DEF CouponInv, CouponsTypeOK
<1>2. CouponsTypeOK'
  BY <1>1 DEF CouponInv, CouponsTypeOK
<1>3. CouponsStay
  BY <1>1 DEF CouponsStay
<1>4. retired' \subseteq Coupons
  BY DEF CouponInv, RetiredRows
<1>5. ASSUME NEW d \in retired' PROVE coupon'[d] # None /\ coupon'[d].status = "INACTIVE"
  <2>1. CASE d = c
    BY <1>1, <1>5, <2>1
  <2>2. CASE d # c
    BY <1>1, <1>4, <1>5, <2>2 DEF CouponInv, RetiredRows
  <2>3. QED
    BY <2>1, <2>2
<1>6. QED
  BY <1>2, <1>3, <1>4, <1>5 DEF RetiredRows

\* A request has ended: whatever the rows are, it asks for nothing.
LEMMA IdleReq == ASSUME NEW rows PROVE CouponReq(Idle, rows)
  BY DEF CouponReq, Idle

LEMMA CreateKeepsCoupons ==
  ASSUME CouponInv, NEW h \in Handlers, CreateCoupon(h) PROVE CouponInv'
<1> DEFINE c == req[h].coupon
<1>1. req[h].at = "create_coupon" /\ Done(h) /\ UNCHANGED <<retired, setting, enabled, booted>>
  BY DEF CreateCoupon, At
<1>2. c \in Coupons /\ req[h].row \in Coupon
  BY <1>1 DEF CouponInv, CouponReqs, CouponReq
<1>3. MovesTo(h, Idle)
  BY <1>1, GotoMoves DEF Done, CouponInv
<1>4. CASE coupon' = coupon
  BY <1>1, <1>3, <1>4, IdleReq, TablesStay DEF catalogVars
<1>5. CASE coupon[c] = None /\ coupon' = [coupon EXCEPT ![c] = req[h].row]
  <2>1. c \notin retired
    BY <1>5 DEF CouponInv, RetiredRows
  <2> HIDE DEF c
  <2>2. CouponsTypeOK' /\ RetiredRows' /\ CouponsStay
    BY <1>1, <1>2, <1>5, <2>1, WrittenKeepsCoupons
  <2>3. QED
    BY <1>3, <2>2, IdleReq, MoveKeepsCoupons DEF CouponInv
<1>6. QED
  BY <1>4, <1>5 DEF CreateCoupon, CouponExists

LEMMA SaveKeepsCoupons ==
  ASSUME CouponInv, NEW h \in Handlers, SaveCoupon(h) PROVE CouponInv'
<1> DEFINE c == req[h].coupon
           row == [req[h].row EXCEPT !.window = coupon[c].window]
<1>1. /\ req[h].at \in {"save_coupon", "remove_coupon"} /\ Done(h)
      /\ coupon' = [coupon EXCEPT ![c] = row]
      /\ retired' = IF req[h].at = "remove_coupon" THEN retired \union {c} ELSE retired \ {c}
      /\ UNCHANGED <<setting, enabled, booted>>
  BY DEF SaveCoupon, At
<1>2. /\ c \in Coupons /\ req[h].row \in Coupon /\ coupon[c] # None
      /\ req[h].at = "remove_coupon" => req[h].row.status = "INACTIVE"
  BY <1>1 DEF CouponInv, CouponReqs, CouponReq
<1>3. coupon[c] \in Coupon
  BY <1>2, CouponRow
<1>4. row \in Coupon /\ row.status = req[h].row.status
  BY <1>2, <1>3 DEF Coupon
<1>5. MovesTo(h, Idle)
  BY <1>1, GotoMoves DEF Done, CouponInv
<1> HIDE DEF c, row
<1>6. CouponsTypeOK' /\ RetiredRows' /\ CouponsStay
  BY <1>1, <1>2, <1>4, WrittenKeepsCoupons
<1>7. QED
  BY <1>5, <1>6, IdleReq, MoveKeepsCoupons DEF CouponInv

LEMMA WindowKeepsCoupons ==
  ASSUME CouponInv, NEW c \in Coupons, WindowMoves(c) PROVE CouponInv'
<1> DEFINE row == [coupon[c] EXCEPT !.window = IF coupon[c].window = "early" THEN "open" ELSE "over"]
<1>1. coupon[c] # None /\ UNCHANGED <<reqVars, retired, setting, enabled, booted>>
  BY DEF WindowMoves, CouponExists
<1>2. coupon' = [coupon EXCEPT ![c] = row]
  BY <1>1 DEF WindowMoves, CouponInv, CouponsTypeOK
<1>3. row \in Coupon /\ row.status = coupon[c].status
  BY <1>1, CouponRow DEF Coupon
<1>4. c \in retired => coupon[c].status = "INACTIVE"
  BY DEF CouponInv, RetiredRows
<1> HIDE DEF row
<1>5. retired' = retired /\ (c \in retired => row.status = "INACTIVE")
  BY <1>1, <1>3, <1>4
<1>6. CouponsTypeOK' /\ RetiredRows' /\ CouponsStay
  <2>1. retired' \in SUBSET (retired \union {c})
    BY <1>5
  <2>2. c \in retired' => row.status = "INACTIVE"
    BY <1>5
  <2>3. QED
    BY <1>1, <1>2, <1>3, <2>1, <2>2, WrittenKeepsCoupons
<1>7. \A h \in Handlers : CouponReq(req[h], coupon')
  BY <1>6 DEF CouponInv, CouponReqs, CouponReq, CouponsStay
<1>8. CouponReqs' /\ ReqInv'
  BY <1>1, <1>7 DEF CouponReqs, CouponInv, ReqInv, ReqTable, OneBusy, reqVars
<1>9. QED
  BY <1>6, <1>8 DEF CouponInv

LEMMA SettingsKeepCoupons ==
  ASSUME CouponInv, NEW h \in Handlers, SaveSetting(h) \/ CacheSetting(h) PROVE CouponInv'
<1>1. /\ req[h].at \in {"save_setting", "cache_setting"}
      /\ UNCHANGED <<coupon, retired>>
  BY DEF SaveSetting, CacheSetting, At
<1>2. req[h] \in [at : {"save_setting", "cache_setting"}, service : Services, on : BOOLEAN]
  BY <1>1 DEF CouponInv, CouponReqs, CouponReq
<1>3. CouponsTypeOK'
  BY <1>1, <1>2 DEF SaveSetting, CacheSetting, CouponInv, CouponsTypeOK
<1>4. RetiredRows' /\ CouponsStay
  BY <1>1 DEF CouponInv, RetiredRows, CouponsStay
<1>5. CASE SaveSetting(h)
  <2> DEFINE r == [req[h] EXCEPT !.at = "cache_setting"]
  <2>1. Goto(h, r) /\ req[h].at = "save_setting"
    BY <1>5 DEF SaveSetting, At
  <2>2. r \in [at : {"save_setting", "cache_setting"}, service : Services, on : BOOLEAN]
    BY <1>2
  <2>3. r.at = "cache_setting"
    BY <1>2
  <2>4. CouponReq(r, coupon')
    BY <2>2, <2>3 DEF CouponReq
  <2> HIDE DEF r
  <2>5. MovesTo(h, r)
    BY <2>1, GotoMoves DEF CouponInv
  <2>6. QED
    BY <1>3, <1>4, <2>4, <2>5, MoveKeepsCoupons DEF CouponInv
<1>6. CASE CacheSetting(h)
  <2>1. MovesTo(h, Idle)
    BY <1>1, <1>6, GotoMoves DEF CacheSetting, Done, CouponInv
  <2>2. QED
    BY <1>3, <1>4, <2>1, IdleReq, MoveKeepsCoupons DEF CouponInv
<1>7. QED
  BY <1>5, <1>6

LEMMA RestartKeepsCoupons ==
  ASSUME CouponInv, Restart PROVE CouponInv'
<1>1. /\ req' = [h \in Handlers |-> Idle] /\ serial' = serial /\ UNCHANGED <<coupon, retired, setting>>
      /\ enabled' = [t \in Services |-> None]
  BY DEF Restart
<1>2. ReqInv'
  BY <1>1 DEF ReqInv, ReqTable, OneBusy
<1>3. CouponReqs'
  BY <1>1, IdleReq DEF CouponReqs
<1>4. CouponsTypeOK' /\ RetiredRows'
  BY <1>1 DEF CouponInv, CouponsTypeOK, RetiredRows
<1>5. QED
  BY <1>2, <1>3, <1>4 DEF CouponInv

LEMMA LoadKeepsCoupons ==
  ASSUME CouponInv, LoadCache PROVE CouponInv'
  BY DEF LoadCache, CouponInv, CouponsTypeOK, CouponReqs, RetiredRows, ReqInv, ReqTable, OneBusy, reqVars

LEMMA CouponStep ==
  ASSUME CouponInv, [CouponsNext]_<<reqVars, catalogVars>> PROVE CouponInv'
<1>1. CASE UNCHANGED <<reqVars, catalogVars>>
  BY <1>1 DEF CouponInv, CouponsTypeOK, CouponReqs, RetiredRows, ReqInv, ReqTable, OneBusy, reqVars,
              catalogVars
<1>2. ASSUME NEW h \in Handlers, NEW c \in Coupons, NEW row \in Coupon,
             CreateCouponRead(h, c, row) \/ UpdateCouponRead(h, c, row)
      PROVE  CouponInv'
  BY <1>2, ReadsKeepCoupons
<1>3. ASSUME NEW h \in Handlers, NEW c \in Coupons, RemoveCouponRead(h, c) PROVE CouponInv'
  <2>1. coupon[c] \in Coupon
    BY <1>3, CouponRow DEF RemoveCouponRead, CouponExists
  <2>2. QED
    BY <1>3, <2>1, ReadsKeepCoupons
<1>4. ASSUME NEW h \in Handlers, NEW t \in Services, NEW on \in BOOLEAN, UpsertRead(h, t, on)
      PROVE  CouponInv'
  BY <1>4, UpsertKeepsCoupons
<1>5. ASSUME NEW h \in Handlers, CouponsStep(h) PROVE CouponInv'
  BY <1>5, CreateKeepsCoupons, SaveKeepsCoupons, SettingsKeepCoupons DEF CouponsStep
<1>6. ASSUME NEW h \in Handlers, Drop(h), UNCHANGED catalogVars PROVE CouponInv'
  BY <1>6, DropMoves, IdleReq, TablesStay DEF CouponInv
<1>7. ASSUME NEW c \in Coupons, WindowMoves(c) PROVE CouponInv'
  BY <1>7, WindowKeepsCoupons
<1>8. CASE Restart \/ LoadCache
  BY <1>8, RestartKeepsCoupons, LoadKeepsCoupons
<1>9. QED
  BY <1>1, <1>2, <1>3, <1>4, <1>5, <1>6, <1>7, <1>8 DEF CouponsNext, CouponRequests

LEMMA CouponsStart ==
  ASSUME CouponsInit, \E oneAtATime \in BOOLEAN : RequestsInit(oneAtATime) PROVE CouponInv
<1>1. ReqInv /\ Quiet
  BY FirstRequests
<1>2. CouponReqs
  BY <1>1, IdleReq DEF Quiet, CouponReqs
<1>3. CouponsTypeOK /\ RetiredRows
  BY DEF CouponsInit, CouponsTypeOK, RetiredRows
<1>4. QED
  BY <1>1, <1>2, <1>3 DEF CouponInv

LEMMA CouponsHold == CouponsSpec => []CouponInv
  BY CouponsStart, CouponStep, PTL DEF CouponsSpec

\* Whatever requests overlap and wherever they are cut, the rows of coupons, the settings
\* and their cache hold what their columns can hold (module coupon, bookings/settings).
THEOREM CouponTypes == CouponsSpec => []CouponsTypeOK
<1>1. CouponInv => CouponsTypeOK
  BY DEF CouponInv
<1>2. QED
  BY <1>1, CouponsHold, PTL

-----------------------------------------------------------------------------
(* The discount *)

LEMMA LeastOfTwo ==
  ASSUME NEW m \in Nat, NEW n \in Nat PROVE Min({m, n}) \in {m, n} /\ Min({m, n}) <= m
<1>1. \E x \in {m, n} : \A y \in {m, n} : x <= y
  OBVIOUS
<1>2. QED
  BY <1>1 DEF Min

\* Rounding a percentage of an amount never leaves the natural numbers.
LEMMA RoundIsNat ==
  ASSUME NEW n \in Nat PROVE RoundDiv(n, 100) \in Nat
  BY DEF RoundDiv

\* A discount lies between nothing and the amount, whatever its kind and value
\* (calculateDiscount caps both kinds).
THEOREM DiscountIsAPart ==
  ASSUME NEW kind, NEW value \in Nat, NEW amount \in Nat
  PROVE  CalculateDiscount(kind, value, amount) \in 0..amount
<1> DEFINE promised == IF kind = "PERCENTAGE" THEN RoundDiv(amount * value, 100) ELSE value
<1>1. amount * value \in Nat
  OBVIOUS
<1>2. promised \in Nat
  BY <1>1, RoundIsNat
<1> HIDE DEF promised
<1>3. Min({amount, promised}) \in Nat /\ Min({amount, promised}) <= amount
  BY <1>2, LeastOfTwo
<1>4. QED
  BY <1>3 DEF CalculateDiscount, promised

LEMMA DiscountsFit == ASSUME CouponInv PROVE DiscountFits
<1> SUFFICES ASSUME NEW c \in Coupons, NEW amount \in Amounts, CouponExists(c)
             PROVE  FinalAmount(c, amount) \in 0..amount
  BY DEF DiscountFits
<1>1. coupon[c].value \in Nat /\ amount \in Nat
  BY CouponRow, AmountsAreNat DEF CouponExists, Coupon
<1>2. CalculateDiscount(coupon[c].kind, coupon[c].value, amount) \in 0..amount
  BY <1>1, DiscountIsAPart
<1>3. QED
  BY <1>1, <1>2 DEF FinalAmount

LEMMA CouponsKept == ASSUME CouponInv PROVE CouponsSound
<1>1. DiscountFits
  BY DiscountsFit
<1>2. RemovedGivesNothing
  BY DEF CouponInv, RetiredRows, RemovedGivesNothing, Eligible
<1>3. QED
  BY <1>1, <1>2 DEF CouponsSound

\* However requests overlap and wherever they are cut, a removed coupon gives nobody a
\* discount until it is edited, and no coupon makes an amount negative or larger
\* (remove, assertCouponEligible, calculateDiscount).
THEOREM CouponsGiveWhatTheyPromise == CouponsSpec => []CouponsSound
  BY CouponsKept, CouponsHold, PTL

-----------------------------------------------------------------------------
(* The settings of the services and their cache *)

\* One at a time, the cache says what the table says but for the service whose setting was
\* just saved; the request that saved it is about to say so. Nothing is claimed after a
\* request was cut, nor before the cache is loaded.
CacheInv ==
  serial =>
    /\ \A h \in Handlers : req[h].at = "cache_setting" => setting[req[h].service] = req[h].on
    /\ ~dropped /\ booted =>
         \A t \in Services :
           enabled[t] = setting[t]
           \/ \E h \in Handlers : req[h].at = "cache_setting" /\ req[h].service = t

SettingInv == CouponInv /\ CacheInv

\* A request that is not about settings moves on.
LEMMA OtherMoves ==
  ASSUME SettingInv, NEW h \in Handlers, NEW r, MovesTo(h, r), dropped' = dropped,
         req[h].at # "cache_setting", r.at # "cache_setting", UNCHANGED <<setting, enabled, booted>>
  PROVE  CacheInv'
<1>1. req'[h] = r /\ (\A g \in Handlers \ {h} : req'[g] = req[g]) /\ serial' = serial
  BY MoveKeepsOthers DEF SettingInv, CouponInv, MovesTo
<1>2. \A g \in Handlers : req[g].at = "cache_setting" \/ req'[g].at = "cache_setting" => req'[g] = req[g]
  BY <1>1
<1>3. QED
  BY <1>1, <1>2 DEF SettingInv, CacheInv

LEMMA BegunCache ==
  ASSUME SettingInv, NEW h \in Handlers, NEW r, Begin(h, r), r.at # "cache_setting",
         UNCHANGED catalogVars
  PROVE  CacheInv'
<1>1. req[h].at # "cache_setting"
  BY DEF Begin, Idle
<1>2. QED
  BY <1>1, BeginMoves, OtherMoves DEF catalogVars

LEMMA EndedCache ==
  ASSUME SettingInv, NEW h \in Handlers, Done(h), req[h].at \notin {"idle", "cache_setting"},
         UNCHANGED <<setting, enabled, booted>>
  PROVE  CacheInv'
<1>1. MovesTo(h, Idle) /\ dropped' = dropped
  BY GotoMoves DEF Done, SettingInv, CouponInv
<1>2. Idle.at # "cache_setting"
  BY DEF Idle
<1>3. QED
  BY <1>1, <1>2, OtherMoves

LEMMA ReadsKeepCache ==
  ASSUME SettingInv, NEW h \in Handlers, NEW c \in Coupons, NEW row,
         CreateCouponRead(h, c, row) \/ UpdateCouponRead(h, c, row) \/ RemoveCouponRead(h, c)
  PROVE  CacheInv'
<1>1. CASE CreateCouponRead(h, c, row)
  BY <1>1, BegunCache DEF CreateCouponRead
<1>2. CASE UpdateCouponRead(h, c, row)
  BY <1>2, BegunCache DEF UpdateCouponRead
<1>3. CASE RemoveCouponRead(h, c)
  BY <1>3, BegunCache DEF RemoveCouponRead
<1>4. QED
  BY <1>1, <1>2, <1>3

LEMMA SaveSettingCache ==
  ASSUME SettingInv, NEW h \in Handlers, SaveSetting(h) PROVE CacheInv'
<1> DEFINE t == req[h].service
           r == [req[h] EXCEPT !.at = "cache_setting"]
<1>1. /\ Goto(h, r) /\ req[h].at = "save_setting" /\ UNCHANGED <<enabled, booted>>
      /\ setting' = [setting EXCEPT ![t] = req[h].on]
  BY DEF SaveSetting, At
<1>2. req[h] \in [at : {"save_setting", "cache_setting"}, service : Services, on : BOOLEAN]
  BY <1>1 DEF SettingInv, CouponInv, CouponReqs, CouponReq
<1>3. t \in Services /\ r.at = "cache_setting" /\ r.service = t /\ r.on = req[h].on
  BY <1>2
<1>4. MovesTo(h, r) /\ dropped' = dropped
  BY <1>1, GotoMoves DEF SettingInv, CouponInv
<1> HIDE DEF r, t
<1>5. req'[h] = r /\ \A g \in Handlers \ {h} : req'[g] = req[g]
  BY <1>4, MoveKeepsOthers DEF SettingInv, CouponInv
<1>6. setting'[t] = req[h].on /\ \A u \in Services \ {t} : setting'[u] = setting[u]
  BY <1>1, <1>3 DEF SettingInv, CouponInv, CouponsTypeOK
<1>7. ASSUME serial PROVE \A g \in Handlers \ {h} : req'[g] = Idle
  BY <1>4, <1>5, <1>7 DEF MovesTo
<1>8. ASSUME serial', NEW g \in Handlers, req'[g].at = "cache_setting"
      PROVE  setting'[req'[g].service] = req'[g].on
  BY <1>3, <1>4, <1>5, <1>6, <1>7, <1>8 DEF MovesTo, Idle
<1>9. ASSUME serial', ~dropped', booted', NEW u \in Services
      PROVE  \/ enabled'[u] = setting'[u]
             \/ \E g \in Handlers : req'[g].at = "cache_setting" /\ req'[g].service = u
  <2>1. CASE u = t
    BY <1>3, <1>5, <2>1
  <2>2. CASE u # t
    <3>1. \A g \in Handlers : req[g].at # "cache_setting"
      BY <1>1, <1>4, <1>9 DEF MovesTo, Idle
    <3>2. enabled[u] = setting[u]
      BY <1>1, <1>4, <1>9, <3>1 DEF MovesTo, SettingInv, CacheInv
    <3>3. QED
      BY <1>1, <1>6, <2>2, <3>2
  <2>3. QED
    BY <2>1, <2>2
<1>10. QED
  BY <1>8, <1>9 DEF CacheInv

LEMMA CacheSettingCache ==
  ASSUME SettingInv, NEW h \in Handlers, CacheSetting(h) PROVE CacheInv'
<1> DEFINE t == req[h].service
<1>1. /\ req[h].at = "cache_setting" /\ Done(h) /\ UNCHANGED <<setting, booted>>
      /\ enabled' = [enabled EXCEPT ![t] = req[h].on]
  BY DEF CacheSetting, At
<1>2. MovesTo(h, Idle) /\ dropped' = dropped
  BY <1>1, GotoMoves DEF SettingInv, CouponInv, Done
<1>3. req'[h] = Idle /\ \A g \in Handlers \ {h} : req'[g] = req[g]
  BY <1>2, MoveKeepsOthers DEF SettingInv, CouponInv
<1>4. t \in Services
  BY <1>1 DEF SettingInv, CouponInv, CouponReqs, CouponReq
<1>5. enabled'[t] = req[h].on /\ \A u \in Services \ {t} : enabled'[u] = enabled[u]
  BY <1>1, <1>4 DEF SettingInv, CouponInv, CouponsTypeOK
<1>6. ASSUME serial PROVE /\ \A g \in Handlers : req'[g] = Idle
                          /\ \A g \in Handlers \ {h} : req[g].at # "cache_setting"
  BY <1>2, <1>3, <1>6 DEF MovesTo, Idle
<1>7. ASSUME serial PROVE setting[t] = req[h].on
  BY <1>1, <1>7 DEF SettingInv, CacheInv
<1>8. ASSUME serial, ~dropped, booted, NEW u \in Services PROVE enabled'[u] = setting[u]
  <2>1. CASE u = t
    BY <1>5, <1>7, <1>8, <2>1
  <2>2. CASE u # t
    BY <1>5, <1>6, <1>8, <2>2 DEF SettingInv, CacheInv
  <2>3. QED
    BY <2>1, <2>2
<1>9. QED
  BY <1>1, <1>2, <1>6, <1>8 DEF CacheInv, MovesTo, Idle

LEMMA CacheStep ==
  ASSUME SettingInv, [CouponsNext]_<<reqVars, catalogVars>> PROVE CacheInv'
<1>1. CASE UNCHANGED <<reqVars, catalogVars>>
  BY <1>1 DEF SettingInv, CacheInv, reqVars, catalogVars
<1>2. ASSUME NEW h \in Handlers, NEW c \in Coupons, NEW row,
             CreateCouponRead(h, c, row) \/ UpdateCouponRead(h, c, row)
      PROVE  CacheInv'
  BY <1>2, ReadsKeepCache
<1>3. ASSUME NEW h \in Handlers, NEW c \in Coupons, RemoveCouponRead(h, c) PROVE CacheInv'
  BY <1>3, ReadsKeepCache
<1>4. ASSUME NEW h \in Handlers, NEW t \in Services, NEW on \in BOOLEAN, UpsertRead(h, t, on)
      PROVE  CacheInv'
  BY <1>4, BegunCache DEF UpsertRead
<1>5. ASSUME NEW h \in Handlers, CreateCoupon(h) \/ SaveCoupon(h) PROVE CacheInv'
  BY <1>5, EndedCache DEF CreateCoupon, SaveCoupon, At
<1>6. ASSUME NEW h \in Handlers, CouponsStep(h) PROVE CacheInv'
  BY <1>5, <1>6, SaveSettingCache, CacheSettingCache DEF CouponsStep
<1>7. ASSUME NEW h \in Handlers, Drop(h), UNCHANGED catalogVars PROVE CacheInv'
  <2>1. MovesTo(h, Idle) /\ dropped' /\ UNCHANGED <<setting, serial>>
    BY <1>7, DropMoves DEF SettingInv, CouponInv, catalogVars, Drop
  <2>2. \A g \in Handlers : req'[g] = req[g] \/ req'[g] = Idle
    BY <2>1, MoveKeepsOthers DEF SettingInv, CouponInv
  <2>3. QED
    BY <2>1, <2>2 DEF SettingInv, CacheInv, Idle
<1>8. ASSUME NEW c \in Coupons, WindowMoves(c) PROVE CacheInv'
  BY <1>8 DEF WindowMoves, SettingInv, CacheInv, reqVars
<1>9. CASE Restart
  <2>1. ~booted' /\ \A h \in Handlers : req'[h] = Idle
    BY <1>9 DEF Restart
  <2>2. QED
    BY <2>1 DEF CacheInv, Idle
<1>10. CASE LoadCache
  BY <1>10 DEF LoadCache, SettingInv, CacheInv, reqVars
<1>11. QED
  BY <1>1, <1>2, <1>3, <1>4, <1>6, <1>7, <1>8, <1>9, <1>10 DEF CouponsNext, CouponRequests

LEMMA SettingStep ==
  ASSUME SettingInv, [CouponsNext]_<<reqVars, catalogVars>> PROVE SettingInv'
  BY CouponStep, CacheStep DEF SettingInv

LEMMA SettingsStart ==
  ASSUME CouponsInit, \E oneAtATime \in BOOLEAN : RequestsInit(oneAtATime) PROVE SettingInv
<1>1. CouponInv /\ Quiet
  BY CouponsStart, FirstRequests
<1>2. \A t \in Services : enabled[t] = setting[t]
  BY DEF CouponsInit
<1>3. QED
  BY <1>1, <1>2 DEF SettingInv, CacheInv, Quiet, Idle

LEMMA SettingsKept == ASSUME SettingInv PROVE ServiceAsSet
<1> SUFFICES ASSUME serial, ~dropped, Quiet, booted, NEW t \in Services PROVE enabled[t] = setting[t]
  BY DEF ServiceAsSet, IsServiceEnabled
<1>1. QED
  BY DEF SettingInv, CacheInv, Quiet, Idle

\* One request at a time, restarts included and however often the table and the cache part
\* for a moment, the guard of a booking route believes what the table says (upsert,
\* onModuleInit, isServiceEnabled).
THEOREM GuardBelievesTheTable == CouponsSpec => []ServiceAsSet
  BY SettingsStart, SettingsKept, SettingStep, PTL DEF CouponsSpec

-----------------------------------------------------------------------------
(* Roles *)

Sent == UNION {[sent -> BOOLEAN] : sent \in SUBSET Sections}

RoleReq(r) ==
  /\ r.at = "create_role" => r.role \in RoleIds /\ r.row \in Role
  /\ r.at = "update_role" => r.role \in RoleIds /\ r.row \in Role /\ r.new \in Sent \union {None}
  /\ r.at = "assign_role" => r.who \in Accounts /\ r.role \in OfficeRoles

RoleReqs == \A h \in Handlers : RoleReq(req[h])

RoleTables == RolesTypeOK /\ granted \in [RoleIds -> Permissions]

\* One at a time, an update is of the row it has read.
UpdateOf(r, rows) ==
  r.at = "update_role" =>
    rows[r.role] # None /\ r.row.permissions = Merged(rows[r.role].permissions, r.new)

UpdatesFresh == serial => \A h \in Handlers : UpdateOf(req[h], role)

RoleInv == ReqInv /\ RoleTables /\ RoleReqs /\ UpdatesFresh /\ PermissionsAsSent

LEMMA MergedTyped ==
  ASSUME NEW old \in Permissions, NEW new \in Sent \union {None} PROVE Merged(old, new) \in Permissions
<1>1. Whole(new) \in Permissions
  BY DEF Whole, Permissions
<1>2. QED
  BY <1>1 DEF Merged

LEMMA RoleRow ==
  ASSUME RoleInv, NEW r \in RoleIds, role[r] # None
  PROVE  role[r] \in Role /\ role[r].permissions \in Permissions
  BY DEF RoleInv, RoleTables, RolesTypeOK, Role

\* A request turns to r, and the tables are well typed: so are the requests.
LEMMA MoveKeepsRoleReqs ==
  ASSUME RoleInv, NEW h \in Handlers, NEW r, MovesTo(h, r), RoleReq(r) PROVE ReqInv' /\ RoleReqs'
<1>1. /\ req'[h] = r /\ \A g \in Handlers \ {h} : req'[g] = req[g]
      /\ ReqInv'
  BY MoveKeepsOthers DEF RoleInv
<1>2. ASSUME NEW g \in Handlers PROVE RoleReq(req'[g])
  BY <1>1 DEF RoleInv, RoleReqs
<1>3. QED
  BY <1>1, <1>2 DEF RoleReqs

\* A request begins with an update of the row it has read, or with none.
LEMMA BeginKeepsRoles ==
  ASSUME RoleInv, NEW h \in Handlers, NEW r, Begin(h, r), RoleReq(r), UpdateOf(r, role),
         UNCHANGED roleVars
  PROVE  RoleInv'
<1>1. MovesTo(h, r) /\ serial' = serial
  BY BeginMoves DEF Begin
<1>2. ReqInv' /\ RoleReqs'
  BY <1>1, MoveKeepsRoleReqs
<1>3. /\ req'[h] = r /\ \A g \in Handlers \ {h} : req'[g] = req[g]
  BY <1>1, MoveKeepsOthers DEF RoleInv
<1>4. ASSUME serial, NEW g \in Handlers PROVE UpdateOf(req'[g], role)
  BY <1>3, <1>4 DEF RoleInv, UpdatesFresh
<1>5. role' = role /\ granted' = granted /\ assigned' = assigned
  BY DEF roleVars
<1>6. UpdatesFresh'
  BY <1>1, <1>4, <1>5 DEF UpdatesFresh, UpdateOf
<1>7. PermissionsAsSent'
  BY <1>1, <1>5 DEF RoleInv, PermissionsAsSent
<1>8. RoleTables'
  BY <1>5 DEF RoleInv, RoleTables, RolesTypeOK
<1>9. QED
  BY <1>2, <1>6, <1>7, <1>8 DEF RoleInv

\* A request ends: one at a time, none is left.
LEMMA EndKeepsRoles ==
  ASSUME RoleInv, NEW h \in Handlers, MovesTo(h, Idle), RoleTables', PermissionsAsSent'
  PROVE  RoleInv'
<1>1. RoleReq(Idle)
  BY DEF RoleReq, Idle
<1>2. ReqInv' /\ RoleReqs'
  BY <1>1, MoveKeepsRoleReqs
<1>3. req'[h] = Idle /\ \A g \in Handlers \ {h} : req'[g] = req[g]
  BY MoveKeepsOthers DEF RoleInv
<1>4. serial' = serial /\ (serial => \A g \in Handlers : req'[g] = Idle)
  BY <1>3 DEF MovesTo
<1>5. UpdatesFresh'
  BY <1>4 DEF UpdatesFresh, UpdateOf, Idle
<1>6. QED
  BY <1>2, <1>5 DEF RoleInv

LEMMA CreateReadKeepsRoles ==
  ASSUME RoleInv, NEW h \in Handlers, NEW r \in RoleIds, NEW n \in RoleNames, NEW p \in Permissions,
         CreateRoleRead(h, r, n, p)
  PROVE  RoleInv'
<1> DEFINE new == [at |-> "create_role", role |-> r,
                   row |-> [name |-> n, permissions |-> p, isActive |-> TRUE]]
<1>1. Begin(h, new) /\ UNCHANGED roleVars
  BY DEF CreateRoleRead
<1>2. RoleReq(new) /\ UpdateOf(new, role)
  BY DEF RoleReq, UpdateOf, Role
<1> HIDE DEF new
<1>3. QED
  BY <1>1, <1>2, BeginKeepsRoles

LEMMA UpdateReadKeepsRoles ==
  ASSUME RoleInv, NEW h \in Handlers, NEW r \in RoleIds, NEW n \in RoleNames, NEW new \in Sent \union {None},
         NEW active \in BOOLEAN, UpdateRoleRead(h, r, n, new, active)
  PROVE  RoleInv'
<1> DEFINE merged == Merged(role[r].permissions, new)
           row == [name |-> n, permissions |-> merged, isActive |-> active]
           next == [at |-> "update_role", role |-> r, new |-> new, row |-> row]
<1>1. Begin(h, next) /\ UNCHANGED roleVars /\ role[r] # None
  BY DEF UpdateRoleRead
<1>2. merged \in Permissions
  BY <1>1, RoleRow, MergedTyped
<1>3. UpdateOf(next, role)
  BY <1>1 DEF UpdateOf
<1> HIDE DEF merged
<1>4. RoleReq(next)
  BY <1>2 DEF RoleReq, Role
<1> HIDE DEF next
<1>5. QED
  BY <1>1, <1>3, <1>4, BeginKeepsRoles

LEMMA AssignReadKeepsRoles ==
  ASSUME RoleInv, NEW h \in Handlers, NEW a \in Accounts, NEW r \in OfficeRoles, AssignRoleRead(h, a, r)
  PROVE  RoleInv'
<1> DEFINE new == [at |-> "assign_role", who |-> a, role |-> r]
<1>1. Begin(h, new) /\ UNCHANGED roleVars
  BY DEF AssignRoleRead
<1>2. RoleReq(new) /\ UpdateOf(new, role)
  BY DEF RoleReq, UpdateOf
<1> HIDE DEF new
<1>3. QED
  BY <1>1, <1>2, BeginKeepsRoles

LEMMA CreateKeepsRoles ==
  ASSUME RoleInv, NEW h \in Handlers, CreateRole(h) PROVE RoleInv'
<1> DEFINE r == req[h].role
           row == req[h].row
<1>1. req[h].at = "create_role" /\ Done(h) /\ assigned' = assigned
  BY DEF CreateRole, At, roleVars
<1>2. r \in RoleIds /\ row \in Role
  BY <1>1 DEF RoleInv, RoleReqs, RoleReq
<1>3. MovesTo(h, Idle) /\ serial' = serial
  BY <1>1, GotoMoves DEF Done, RoleInv, MovesTo
<1>4. \/ UNCHANGED <<role, granted>>
      \/ role' = [role EXCEPT ![r] = row] /\ granted' = [granted EXCEPT ![r] = row.permissions]
  BY DEF CreateRole, roleVars
<1> HIDE DEF r, row
<1>5. row.permissions \in Permissions
  BY <1>2 DEF Role
<1>6. RoleTables'
  BY <1>1, <1>2, <1>4, <1>5 DEF RoleInv, RoleTables, RolesTypeOK
<1>7. PermissionsAsSent'
  BY <1>2, <1>3, <1>4 DEF RoleInv, RoleTables, RolesTypeOK, PermissionsAsSent
<1>8. QED
  BY <1>3, <1>6, <1>7, EndKeepsRoles

LEMMA UpdateKeepsRoles ==
  ASSUME RoleInv, NEW h \in Handlers, UpdateRole(h) PROVE RoleInv'
<1> DEFINE r == req[h].role
           row == req[h].row
           new == req[h].new
<1>1. req[h].at = "update_role" /\ Done(h) /\ assigned' = assigned
  BY DEF UpdateRole, At
<1>2. r \in RoleIds /\ row \in Role /\ new \in Sent \union {None}
  BY <1>1 DEF RoleInv, RoleReqs, RoleReq
<1>3. MovesTo(h, Idle) /\ serial' = serial
  BY <1>1, GotoMoves DEF Done, RoleInv, MovesTo
<1>4. granted[r] \in Permissions
  BY <1>2 DEF RoleInv, RoleTables
<1>5. \/ UNCHANGED <<role, granted>>
      \/ role' = [role EXCEPT ![r] = row] /\ granted' = [granted EXCEPT ![r] = Merged(granted[r], new)]
  BY <1>2 DEF UpdateRole, Merged, RoleInv, RoleTables
<1>6. serial => role[r] # None /\ row.permissions = Merged(role[r].permissions, new)
  BY <1>1 DEF RoleInv, UpdatesFresh, UpdateOf
<1> HIDE DEF r, row, new
<1>7. Merged(granted[r], new) \in Permissions
  BY <1>2, <1>4, MergedTyped
<1>8. RoleTables'
  BY <1>1, <1>2, <1>5, <1>7 DEF RoleInv, RoleTables, RolesTypeOK
<1>9. serial => row.permissions = Merged(granted[r], new)
  BY <1>2, <1>6 DEF RoleInv, PermissionsAsSent
<1>10. PermissionsAsSent'
  BY <1>2, <1>3, <1>5, <1>9 DEF RoleInv, RoleTables, RolesTypeOK, PermissionsAsSent
<1>11. QED
  BY <1>3, <1>8, <1>10, EndKeepsRoles

LEMMA AssignKeepsRoles ==
  ASSUME RoleInv, NEW h \in Handlers, AssignRole(h) PROVE RoleInv'
<1>1. /\ req[h].at = "assign_role" /\ Done(h) /\ UNCHANGED <<role, granted>>
      /\ assigned' = [assigned EXCEPT ![req[h].who] = req[h].role]
  BY DEF AssignRole, SetAssigned, At
<1>2. req[h].role \in OfficeRoles
  BY <1>1 DEF RoleInv, RoleReqs, RoleReq
<1>3. MovesTo(h, Idle) /\ serial' = serial
  BY <1>1, GotoMoves DEF Done, RoleInv, MovesTo
<1>4. RoleTables'
  BY <1>1, <1>2 DEF RoleInv, RoleTables, RolesTypeOK
<1>5. PermissionsAsSent'
  BY <1>1, <1>3 DEF RoleInv, PermissionsAsSent
<1>6. QED
  BY <1>3, <1>4, <1>5, EndKeepsRoles

\* A request of one statement: one at a time, no update is on its way.
LEMMA AtOnceKeepsRoles ==
  ASSUME RoleInv, AtOnce, RoleTables', PermissionsAsSent' PROVE RoleInv'
<1>1. req' = req /\ serial' = serial /\ (serial => \A h \in Handlers : req[h] = Idle)
  BY DEF AtOnce, reqVars, Quiet
<1>2. ReqInv' /\ RoleReqs'
  BY <1>1 DEF RoleInv, ReqInv, ReqTable, OneBusy, RoleReqs
<1>3. UpdatesFresh'
  BY <1>1 DEF UpdatesFresh, UpdateOf, Idle
<1>4. QED
  BY <1>2, <1>3 DEF RoleInv

LEMMA DeleteKeepsRoles ==
  ASSUME RoleInv, NEW r \in RoleIds, DeleteRole(r) PROVE RoleInv'
<1> DEFINE row == [role[r] EXCEPT !.isActive = FALSE]
<1>1. /\ role[r] # None /\ AtOnce /\ UNCHANGED <<assigned, granted>> /\ serial' = serial
      /\ role' = [role EXCEPT ![r] = row]
  BY DEF DeleteRole, IsActiveRole, AtOnce, reqVars
<1>2. row \in Role /\ row.permissions = role[r].permissions
  BY <1>1, RoleRow DEF Role
<1> HIDE DEF row
<1>3. RoleTables'
  BY <1>1, <1>2 DEF RoleInv, RoleTables, RolesTypeOK
<1>4. PermissionsAsSent'
  BY <1>1, <1>2 DEF RoleInv, RoleTables, RolesTypeOK, PermissionsAsSent
<1>5. QED
  BY <1>1, <1>3, <1>4, AtOnceKeepsRoles

LEMMA RemoveKeepsRoles ==
  ASSUME RoleInv, NEW a \in Accounts, RemoveRole(a) PROVE RoleInv'
<1>1. /\ AtOnce /\ UNCHANGED <<role, granted>> /\ serial' = serial
      /\ assigned' = [assigned EXCEPT ![a] = None]
  BY DEF RemoveRole, SetAssigned, AtOnce, reqVars
<1>2. RoleTables' /\ PermissionsAsSent'
  BY <1>1 DEF RoleInv, RoleTables, RolesTypeOK, PermissionsAsSent
<1>3. QED
  BY <1>1, <1>2, AtOnceKeepsRoles

LEMMA RoleStep ==
  ASSUME RoleInv, [RolesNext]_<<reqVars, roleVars>> PROVE RoleInv'
<1>1. CASE UNCHANGED <<reqVars, roleVars>>
  BY <1>1 DEF RoleInv, ReqInv, ReqTable, OneBusy, RoleTables, RolesTypeOK, RoleReqs, UpdatesFresh,
              PermissionsAsSent, reqVars, roleVars
<1>2. ASSUME NEW h \in Handlers, NEW r \in RoleIds, NEW n \in RoleNames, NEW p \in Permissions,
             CreateRoleRead(h, r, n, p)
      PROVE  RoleInv'
  BY <1>2, CreateReadKeepsRoles
<1>3. ASSUME NEW h \in Handlers, NEW r \in RoleIds, NEW n \in RoleNames, NEW sent \in SUBSET Sections,
             NEW active \in BOOLEAN, NEW new \in [sent -> BOOLEAN] \union {None},
             UpdateRoleRead(h, r, n, new, active)
      PROVE  RoleInv'
  <2>1. new \in Sent \union {None}
    BY DEF Sent
  <2>2. QED
    BY <1>3, <2>1, UpdateReadKeepsRoles
<1>4. ASSUME NEW h \in Handlers, NEW a \in Accounts, NEW r \in OfficeRoles, AssignRoleRead(h, a, r)
      PROVE  RoleInv'
  BY <1>4, AssignReadKeepsRoles
<1>5. ASSUME NEW h \in Handlers, RolesStep(h) PROVE RoleInv'
  BY <1>5, CreateKeepsRoles, UpdateKeepsRoles, AssignKeepsRoles DEF RolesStep
<1>6. ASSUME NEW h \in Handlers, Drop(h), UNCHANGED roleVars PROVE RoleInv'
  <2>1. MovesTo(h, Idle) /\ serial' = serial
    BY <1>6, DropMoves DEF RoleInv, Drop
  <2>2. RoleTables' /\ PermissionsAsSent'
    BY <1>6, <2>1 DEF RoleInv, RoleTables, RolesTypeOK, PermissionsAsSent, roleVars
  <2>3. QED
    BY <2>1, <2>2, EndKeepsRoles
<1>7. ASSUME NEW r \in RoleIds, DeleteRole(r) PROVE RoleInv'
  BY <1>7, DeleteKeepsRoles
<1>8. ASSUME NEW a \in Accounts, RemoveRole(a) PROVE RoleInv'
  BY <1>8, RemoveKeepsRoles
<1>9. QED
  BY <1>1, <1>2, <1>3, <1>4, <1>5, <1>6, <1>7, <1>8 DEF RolesNext, RoleRequests

LEMMA RolesStart ==
  ASSUME RolesInit, \E oneAtATime \in BOOLEAN : RequestsInit(oneAtATime) PROVE RoleInv
<1>1. ReqInv /\ \A h \in Handlers : req[h] = Idle
  BY FirstRequests DEF Quiet
<1>2. RoleReqs /\ UpdatesFresh
  BY <1>1 DEF RoleReqs, RoleReq, UpdatesFresh, UpdateOf, Idle
<1>3. RoleTables /\ PermissionsAsSent
  BY DEF RolesInit, RoleTables, RolesTypeOK, Permissions, PermissionsAsSent
<1>4. QED
  BY <1>1, <1>2, <1>3 DEF RoleInv

LEMMA RolesHold == RolesSpec => []RoleInv
  BY RolesStart, RoleStep, PTL DEF RolesSpec

\* Whatever requests overlap and wherever they are cut, the rows of both tables of roles and
\* the roles of accounts hold what their columns can hold (RoleService).
THEOREM RoleTypes == RolesSpec => []RolesTypeOK
<1>1. RoleInv => RolesTypeOK
  BY DEF RoleInv, RoleTables
<1>2. QED
  BY <1>1, RolesHold, PTL

\* One request at a time, however long the history of a role, its permissions are those of
\* the last request that sent any, the sections it left out off (update, updateAdminRole).
THEOREM PermissionsStand == RolesSpec => []PermissionsAsSent
<1>1. RoleInv => PermissionsAsSent
  BY DEF RoleInv
<1>2. QED
  BY <1>1, RolesHold, PTL
=============================================================================
