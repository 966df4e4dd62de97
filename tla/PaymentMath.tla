---------------------------- MODULE PaymentMath ----------------------------
(***************************************************************************)
(* The amounts of src/module/payment, in halalas: what a customer is asked *)
(* for, and how a captured amount is split between the office that made    *)
(* the offer and the platform's admin.                                     *)
(***************************************************************************)
EXTENDS Integers

AtLeastZero(x) == IF x > 0 THEN x ELSE 0
Lesser(x, y) == IF x < y THEN x ELSE y

\* Math.round(price * percent / 100 * 100) / 100: half a halala is rounded up.
Percent(price, percent) == (price * percent + 50) \div 100

\* s: the row of payment_settings [advance, commission, tax : percentages].
AdvanceAmount(price, s) == Percent(price, s.advance)
AdminTarget(price, s) == Percent(price, s.commission) + Percent(price, s.tax)

\* amountBeforeCoupon of getOfferPartialPaymentSummary
PartialCharge(price, s) == AdvanceAmount(price, s) + AdminTarget(price, s)

\* What initiateOfferFullPayment asks for. The test "partialPayment.advanceAmount ?" is of
\* a string: the driver reads the decimal column of a partial payment as "0.00", never as
\* an empty value, so the advance is always taken off.
FullCharge(price, advance) == price - advance

\* Mutants: a target that is already exceeded is not cut to zero, or what has been
\* credited before is forgotten.
SplitUncut(amount, price, s, paidOffice, paidAdmin) ==
  LET paid == AtLeastZero(amount)
      admin == Lesser(AdminTarget(price, s) - paidAdmin, paid)
      office == Lesser(price - paidOffice, paid - admin)
  IN  [office |-> office, admin |-> admin]
SplitForgetful(amount, price, s, paidOffice, paidAdmin) ==
  LET paid == AtLeastZero(amount)
      admin == Lesser(AdminTarget(price, s), paid)
      office == Lesser(price, paid - admin)
  IN  [office |-> office, admin |-> admin]

\* calculateWalletSplitForBookingPayment: the admin's target is served first, then the
\* office up to the price; paidOffice and paidAdmin have been credited before.
Split(amount, price, s, paidOffice, paidAdmin) ==
  LET paid == AtLeastZero(amount)
      admin == Lesser(AtLeastZero(AdminTarget(price, s) - paidAdmin), paid)
      office == Lesser(AtLeastZero(price - paidOffice), paid - admin)
  IN  [office |-> office, admin |-> admin]
=============================================================================
