------------------------------ MODULE Checkout ------------------------------
(***************************************************************************)
(* Paying for an offer (src/module/payment): the payment rows, the charges *)
(* at the payment gateway, the webhook and the redirect page that learn of *)
(* a charge, and what they do to the booking, the offer and the wallets.   *)
(*                                                                         *)
(* The webhook and the redirect run the same side effects, one statement   *)
(* after the other with no transaction around them; an error in them is    *)
(* logged and swallowed. proc[h] is the payment request h is serving. The  *)
(* other requests on the booking are those of Marketplace.                 *)
(***************************************************************************)
EXTENDS Marketplace, PaymentMath, Sums

CONSTANTS Payments,     \* ids for rows of payment_transactions (bounds their number)
          Settings,     \* rows the payment settings can be
          Discounts,    \* what a coupon can take off (0: no coupon)
          Admin,        \* the primary admin's wallet
          MaxFailures   \* bound on side effects cut short by an error or a crash

ASSUME SettingsArePercentages ==
  Settings \subseteq [advance : 0..100, commission : 0..100, tax : 0..100]
ASSUME DiscountsNat == Discounts \subseteq Nat
ASSUME AdminIsNoOffice == Admin \notin Offices /\ Admin # None
ASSUME OfficesFinite == IsFiniteSet(Offices)
ASSUME NoneIsNoPayment == None \notin Payments
ASSUME FailuresNat == MaxFailures \in Nat

VARIABLES settings,  \* the row of payment_settings
          payment,   \* the rows of payment_transactions
          charge,    \* the gateway's charge for each payment
          credited,  \* what the wallets were credited for this booking
          proc,      \* the payment request each handler is serving
          failures   \* side effects cut short so far

payVars == <<settings, payment, charge, credited, proc, failures>>
vars == <<booking, offer, task, settings, payment, charge, credited, proc, failures>>

Owners == Offices \union {Admin}

Payment == [type : {"BOOKING_PARTIAL", "BOOKING_FULL", "NONE"},
            status : {"PENDING", "SUCCESS", "FAILED", "NONE"},
            offer : Offers \union {None}, amount : Int, advance : Nat]
NoPayment == [type |-> "NONE", status |-> "NONE", offer |-> None, amount |-> 0, advance |-> 0]

Stages == {"idle", "charge", "verify", "save_status", "load", "save_offer", "split",
           "save_booking", "credit_office", "credit_admin"}

\* effects: the side effects are to be run on success;  verdict: what the gateway said;
\* draft, copy: the offer and the booking read;  share: the split
Proc == [at : Stages, payment : Payments \union {None}, effects : BOOLEAN,
         verdict : {"SUCCESS", "FAILED", "NONE"}, draft : Offer, copy : Booking,
         share : [office : Nat, admin : Nat]]
NoShare == [office |-> 0, admin |-> 0]
NoProc == [at |-> "idle", payment |-> None, effects |-> FALSE, verdict |-> "NONE",
           draft |-> NoOffer, copy |-> NoBooking, share |-> NoShare]

Free(h) == task[h].at = "idle" /\ proc[h].at = "idle"
OfferOf(h) == payment[proc[h].payment].offer

Init ==
  /\ MarketInit
  /\ settings \in Settings
  /\ payment = [i \in Payments |-> NoPayment]
  /\ charge = [i \in Payments |-> "none"]
  /\ credited = [w \in Owners |-> 0]
  /\ proc = [h \in Handlers |-> NoProc]
  /\ failures = 0

(***************************************************************************)
(* upsertPaymentSettings, initiateOfferPartialPayment,                     *)
(* initiateOfferFullPayment, createCharge                                  *)
(***************************************************************************)

UpsertPaymentSettings(h) ==
  /\ Free(h)
  /\ settings' \in Settings \ {settings}
  /\ UNCHANGED <<marketVars, payment, charge, credited, proc, failures>>

\* The payment row is inserted before the gateway is asked for a charge.
Initiate(h, i, row) ==
  /\ payment[i] = NoPayment
  /\ payment' = [payment EXCEPT ![i] = row]
  /\ proc' = [proc EXCEPT ![h] = [NoProc EXCEPT !.at = "charge", !.payment = i]]
  /\ UNCHANGED <<marketVars, settings, charge, credited, failures>>

\* Any offer on the booking that is not accepted can be paid, whatever its status and
\* the booking's.
InitiatePartial(h, i, o, discount) ==
  LET price == offer[o].price
      before == PartialCharge(price, settings)
  IN
  /\ Free(h)
  /\ Found
  /\ offer[o].status \notin {"NONE", "ACCEPTED"}
  /\ Initiate(h, i, [type |-> "BOOKING_PARTIAL", status |-> "PENDING", offer |-> o,
                     amount |-> before - Lesser(discount, before),
                     advance |-> AdvanceAmount(price, settings)])

\* Any partial payment row of the booking will do, whatever its status and its offer.
InitiateFull(h, i, o, j) ==
  /\ Free(h)
  /\ Found
  /\ offer[o].status # "NONE"
  /\ booking.status # "COMPLETED"
  /\ payment[j].type = "BOOKING_PARTIAL"
  /\ Initiate(h, i, [type |-> "BOOKING_FULL", status |-> "PENDING", offer |-> o, advance |-> 0,
                     amount |-> FullCharge(offer[o].price, payment[j].advance)])

\* The gateway makes the charge, its id is saved and its page is returned to the customer.
CreateCharge(h) ==
  /\ proc[h].at = "charge"
  /\ payment[proc[h].payment].amount > 0
  /\ charge' = [charge EXCEPT ![proc[h].payment] = "INITIATED"]
  /\ proc' = [proc EXCEPT ![h] = NoProc]
  /\ UNCHANGED <<marketVars, settings, payment, credited, failures>>

\* The gateway refuses or is not reached: the payment row stays as it is.
ChargeFails(h) ==
  /\ proc[h].at = "charge"
  /\ proc' = [proc EXCEPT ![h] = NoProc]
  /\ UNCHANGED <<marketVars, settings, payment, charge, credited, failures>>

\* External: the customer pays, or the charge is declined, once and for all.
Settle(i, outcome) ==
  /\ charge[i] = "INITIATED"
  /\ charge' = [charge EXCEPT ![i] = outcome]
  /\ UNCHANGED <<marketVars, settings, payment, credited, proc, failures>>

(***************************************************************************)
(* handleWebhook, renderPaymentRedirectPage                                *)
(***************************************************************************)

\* A request about the charge of payment i finds the payment row.
Notified(h, i, effects) ==
  /\ Free(h)
  /\ charge[i] # "none"
  /\ proc' = [proc EXCEPT ![h] =
       [NoProc EXCEPT !.at = "verify", !.payment = i, !.effects = effects]]
  /\ UNCHANGED <<marketVars, settings, payment, charge, credited, failures>>

\* The gateway calls the webhook, any number of times.
Webhook(h, i) == Notified(h, i, TRUE)

\* The customer's browser comes back, any number of times and at any time.
Redirect(h, i) == Notified(h, i, payment[i].status # "SUCCESS")

\* Mutant: a charge that is not declined counts as paid.
VerifyLenient(h) ==
  /\ proc[h].at = "verify"
  /\ proc' = [proc EXCEPT ![h].at = "save_status",
       ![h].verdict = IF charge[proc[h].payment] # "DECLINED" THEN "SUCCESS" ELSE "FAILED"]
  /\ UNCHANGED <<marketVars, settings, payment, charge, credited, failures>>

\* retrieveCharge
Verify(h) ==
  /\ proc[h].at = "verify"
  /\ proc' = [proc EXCEPT ![h].at = "save_status",
       ![h].verdict = IF charge[proc[h].payment] = "CAPTURED" THEN "SUCCESS" ELSE "FAILED"]
  /\ UNCHANGED <<marketVars, settings, payment, charge, credited, failures>>

\* Mutant: only a payment that is still pending gets the verdict.
SaveStatusOnce(h) ==
  /\ proc[h].at = "save_status"
  /\ payment' = IF payment[proc[h].payment].status = "PENDING"
                THEN [payment EXCEPT ![proc[h].payment].status = proc[h].verdict] ELSE payment
  /\ proc' = [proc EXCEPT ![h] = IF proc[h].verdict = "SUCCESS" /\ proc[h].effects
                                 THEN [@ EXCEPT !.at = "load"] ELSE NoProc]
  /\ UNCHANGED <<marketVars, settings, charge, credited, failures>>

SaveStatus(h) ==
  /\ proc[h].at = "save_status"
  /\ payment' = [payment EXCEPT ![proc[h].payment].status = proc[h].verdict]
  /\ proc' = [proc EXCEPT ![h] = IF proc[h].verdict = "SUCCESS" /\ proc[h].effects
                                 THEN [@ EXCEPT !.at = "load"] ELSE NoProc]
  /\ UNCHANGED <<marketVars, settings, charge, credited, failures>>

(***************************************************************************)
(* handleBookingPartialPaymentSuccess, handleBookingFullPaymentSuccess     *)
(***************************************************************************)

\* Mutant: the status is set without asking what it was.
AfterPaymentAlways(type, status) ==
  IF type = "BOOKING_PARTIAL" THEN "PARTIALLY_PAID" ELSE "COMPLETED"

\* The changeStatus calls of the two handlers, all made on the copy.
AfterPayment(type, status) ==
  IF type = "BOOKING_PARTIAL"
  THEN IF status \in {"UNDER_NEGOTIATION", "OFFER_ACCEPTED"} THEN "PARTIALLY_PAID" ELSE status
  ELSE IF status \in {"UNDER_NEGOTIATION", "OFFER_ACCEPTED", "PARTIALLY_PAID"} THEN "COMPLETED"
       ELSE status

\* The offer of the cartId and its booking are loaded; without a booking, that is all.
Load(h) ==
  /\ proc[h].at = "load"
  /\ proc' = [proc EXCEPT ![h] =
       IF Found
       THEN [@ EXCEPT !.at = IF offer[OfferOf(h)].status = "ACCEPTED" THEN "split" ELSE "save_offer",
                      !.draft = [offer[OfferOf(h)] EXCEPT !.status = "ACCEPTED"],
                      !.copy = booking]
       ELSE NoProc]
  /\ UNCHANGED <<marketVars, settings, payment, charge, credited, failures>>

SaveOffer(h) ==
  /\ proc[h].at = "save_offer"
  /\ offer' = [offer EXCEPT ![OfferOf(h)] = proc[h].draft]
  /\ proc' = [proc EXCEPT ![h].at = "split"]
  /\ UNCHANGED <<booking, task, settings, payment, charge, credited, failures>>

\* calculateWalletSplitForBookingPayment reads the settings and what was credited so far.
SplitPayment(h) ==
  LET draft == proc[h].draft IN
  /\ proc[h].at = "split"
  /\ proc' = [proc EXCEPT ![h].at = "save_booking",
       ![h].share = Split(payment[proc[h].payment].amount, draft.price, settings,
                          credited[draft.office], credited[Admin])]
  /\ UNCHANGED <<marketVars, settings, payment, charge, credited, failures>>

\* Mutant: the admin comes first, and the office is forgotten.
ToCreditAdminFirst(share) ==
  IF share.admin > 0 THEN "credit_admin" ELSE IF share.office > 0 THEN "credit_office" ELSE "idle"

\* The first credit the split asks for.
ToCredit(share) ==
  IF share.office > 0 THEN "credit_office" ELSE IF share.admin > 0 THEN "credit_admin" ELSE "idle"

SaveBooking(h) ==
  LET copy == proc[h].copy
      share == proc[h].share
  IN
  /\ proc[h].at = "save_booking"
  /\ booking' = [copy EXCEPT !.selected = OfferOf(h), !.paid = @ + share.office,
                             !.status = AfterPayment(payment[proc[h].payment].type, @)]
  /\ proc' = [proc EXCEPT ![h] = IF ToCredit(share) = "idle" THEN NoProc
                                 ELSE [@ EXCEPT !.at = ToCredit(share)]]
  /\ UNCHANGED <<offer, task, settings, payment, charge, credited, failures>>

\* creditPending and creditAdminAvailable: Wallet shows what one of them does to a wallet.
CreditOffice(h) ==
  LET share == proc[h].share IN
  /\ proc[h].at = "credit_office"
  /\ credited' = [credited EXCEPT ![proc[h].draft.office] = @ + share.office]
  /\ proc' = [proc EXCEPT ![h] = IF share.admin > 0 THEN [@ EXCEPT !.at = "credit_admin"] ELSE NoProc]
  /\ UNCHANGED <<marketVars, settings, payment, charge, failures>>

CreditAdmin(h) ==
  /\ proc[h].at = "credit_admin"
  /\ credited' = [credited EXCEPT ![Admin] = @ + proc[h].share.admin]
  /\ proc' = [proc EXCEPT ![h] = NoProc]
  /\ UNCHANGED <<marketVars, settings, payment, charge, failures>>

\* A statement throws, or the process dies: what was written before stays, and nobody
\* comes back to the rest.
Interrupt(h) ==
  /\ failures < MaxFailures
  /\ proc[h].at # "idle"
  /\ proc' = [proc EXCEPT ![h] = NoProc]
  /\ failures' = failures + 1
  /\ UNCHANGED <<marketVars, settings, payment, charge, credited>>

-----------------------------------------------------------------------------

SideEffect(h) ==
  \/ Load(h) \/ SaveOffer(h) \/ SplitPayment(h) \/ SaveBooking(h)
  \/ CreditOffice(h) \/ CreditAdmin(h)

\* A statement of a payment request that has begun.
Continue(h) ==
  \/ CreateCharge(h) \/ ChargeFails(h)
  \/ Verify(h) \/ SaveStatus(h)
  \/ SideEffect(h)

Begin(h) ==
  \/ \E i \in Payments :
       \/ \E o \in Offers :
            \/ \E discount \in Discounts : InitiatePartial(h, i, o, discount)
            \/ \E j \in Payments : InitiateFull(h, i, o, j)
       \/ Webhook(h, i) \/ Redirect(h, i)
  \/ UpsertPaymentSettings(h)

Gateway == \E i \in Payments, outcome \in {"CAPTURED", "DECLINED"} : Settle(i, outcome)

\* The other requests on the booking.
Market ==
  /\ \/ CreateBooking
     \/ \E h \in Handlers : proc[h].at = "idle" /\ MarketStep(h)
  /\ UNCHANGED payVars

Next ==
  \/ \E h \in Handlers : Begin(h) \/ Continue(h) \/ Interrupt(h)
  \/ Gateway
  \/ Market

Spec == Init /\ [][Next]_vars

\* The gateway delivers its webhook for a settled charge, again if the payment row is not
\* a success yet, and a request that has begun goes on.
Delivery(i) ==
  /\ charge[i] = "CAPTURED"
  /\ payment[i].status # "SUCCESS"
  /\ \E h \in Handlers : Webhook(h, i)

FairSpec ==
  /\ Spec
  /\ \A h \in Handlers :
       /\ WF_vars(Continue(h))
       /\ WF_vars(task[h].at # "idle" /\ MarketStep(h) /\ UNCHANGED payVars)
  /\ \A i \in Payments : SF_vars(Delivery(i))

-----------------------------------------------------------------------------

\* Every variable stays in its type: the payment columns, and what requests keep.
TypeOK ==
  /\ MarketTypeOK
  /\ settings \in Settings
  /\ payment \in [Payments -> Payment]
  /\ charge \in [Payments -> {"none", "INITIATED", "CAPTURED", "DECLINED"}]
  /\ credited \in [Owners -> Nat]
  /\ proc \in [Handlers -> Proc]
  /\ failures \in Nat

Quiet == \A h \in Handlers : Free(h)

\* With requests one at a time, however often a webhook comes and whichever side effects
\* fail: an office is credited no more than the price of an accepted offer of its own.
OfficeCreditCap ==
  \A f \in Offices :
    credited[f] > 0 => \E o \in Offers : /\ offer[o].status = "ACCEPTED"
                                        /\ offer[o].office = f
                                        /\ credited[f] <= offer[o].price

\* With requests one at a time: the admin is credited no more than the commission and the
\* tax of an accepted offer.
AdminCreditCap ==
  credited[Admin] > 0 =>
    \E o \in Offers, s \in Settings : /\ offer[o].status = "ACCEPTED"
                                     /\ credited[Admin] <= AdminTarget(offer[o].price, s)

\* With requests one at a time and no side effect cut short: what the booking says was
\* paid is what the offices were credited for it.
PaidMatchesLedger ==
  Quiet /\ failures = 0 => booking.paid = SumOf(credited, Offices)

\* What the customer was charged and paid.
CapturedAmount ==
  SumOf([i \in Payments |-> payment[i].amount], {i \in Payments : charge[i] = "CAPTURED"})

Captured(type) == \E i \in Payments : payment[i].type \in type /\ charge[i] = "CAPTURED"

\* However requests overlap: a payment is a success only if its charge was captured, the
\* booking shows a payment only if one was captured, it is completed only if a full
\* payment was, and nobody is credited without a capture.
NothingWithoutCapture ==
  /\ \A i \in Payments : payment[i].status = "SUCCESS" => charge[i] = "CAPTURED"
  /\ booking.status = "PARTIALLY_PAID" \/ booking.paid > 0
       => Captured({"BOOKING_PARTIAL", "BOOKING_FULL"})
  /\ booking.status = "COMPLETED" => Captured({"BOOKING_FULL"})
  /\ \A f \in Offices :
       credited[f] > 0 => \E i \in Payments : /\ charge[i] = "CAPTURED"
                                             /\ offer[payment[i].offer].office = f

\* What was paid once is credited once (payment.service.ts:466, wasAlreadySuccessful): with
\* requests one at a time, no more is credited than the customer was charged.
CreditsWithinCaptures == SumOf(credited, Owners) <= CapturedAmount

\* What is logged when a full payment succeeds (payment.service.ts:763, "fully paid and
\* completed"): the customer of a completed booking was charged the price of its offer.
CompletedIsFullyPaid ==
  booking.status = "COMPLETED" => CapturedAmount >= offer[booking.selected].price

\* With requests one at a time, whatever is cut short: a captured payment ends as a
\* success, and stays one.
CapturedEndsInSuccess ==
  \A i \in Payments : charge[i] = "CAPTURED" ~> [](payment[i].status = "SUCCESS")
=============================================================================
