------------------------------- MODULE Reports -------------------------------
(***************************************************************************)
(* The figures of ReportService (src/module/report): queries over the      *)
(* offers, payments and accounts tables, some counted row by row, some     *)
(* gathered by day into a chart that is then added up. Accounts and        *)
(* offices come and go as Auth says; offers and payments come and are      *)
(* decided as in Marketplace and Checkout.                                 *)
(*                                                                         *)
(* An instant is a number of half days, the even ones a midnight in UTC,   *)
(* where the database keeps its days. A month is DaysPerMonth days.        *)
(***************************************************************************)
EXTENDS Auth, Sums

CONSTANTS OfferRows,    \* ids of offers
          PaymentRows,  \* ids of payment_transactions
          MaxNow,       \* bound on the clock, an instant
          DaysPerMonth,
          Worth         \* prices of offers and amounts of payments

ASSUME TablesAreFinite ==
  IsFiniteSet(Accounts) /\ IsFiniteSet(OfferRows) /\ IsFiniteSet(PaymentRows)
ASSUME NumbersOfReports == MaxNow \in Nat /\ DaysPerMonth \in Nat \ {0} /\ Worth \subseteq Nat

VARIABLES now,      \* the clock
          east,     \* the server runs in a time zone east of UTC
          made,     \* the rows of offers
          paid,     \* the rows of payment_transactions
          joined,   \* when accounts were created
          profile   \* the accounts of the rows of user_profiles

rowsOfReports == <<now, east, made, paid>>
reportVars == <<rowsOfReports, joined, profile>>

Instants == 0..MaxNow
Day(t) == t \div 2
Month(t) == Day(t) \div DaysPerMonth

MadeOffer == [office : Accounts, price : Worth, status : {"PENDING", "ACCEPTED", "REJECTED"},
              at : Instants]
BookingTypes == {"BOOKING_PARTIAL", "BOOKING_FULL"}
PaidRow == [type : BookingTypes \union {"SUBSCRIPTION"}, payer : Accounts, amount : Worth,
            commission : {0, 1}, status : {"PENDING", "SUCCESS"}, at : Instants]

ASSUME NoneIsNoReportRow == None \notin MadeOffer /\ None \notin PaidRow /\ None \notin [at : Instants]

\* Every table that reports read, the accounts among them, stays in its type.
ReportsTypeOK ==
  /\ AuthTypeOK
  /\ now \in Instants
  /\ made \in [OfferRows -> MadeOffer \union {None}]
  /\ paid \in [PaymentRows -> PaidRow \union {None}]
  /\ joined \in [Accounts -> [at : Instants] \union {None}]
  /\ profile \subseteq Accounts

ReportsInit ==
  /\ now = 0
  /\ east \in BOOLEAN
  /\ made = [o \in OfferRows |-> None]
  /\ paid = [p \in PaymentRows |-> None]
  /\ joined = [a \in Accounts |-> IF Exists(a) THEN [at |-> 0] ELSE None]
  /\ profile = {a \in Accounts : HasRole(a, "USER")}

(***************************************************************************)
(* The rows, as the other modules write them                               *)
(***************************************************************************)

Tick ==
  /\ now < MaxNow
  /\ now' = now + 1
  /\ UNCHANGED <<east, made, paid>>

OfferComes(o, f, price) ==
  /\ made[o] = None
  /\ IsOffice(f)
  /\ made' = [made EXCEPT ![o] = [office |-> f, price |-> price, status |-> "PENDING", at |-> now]]
  /\ UNCHANGED <<now, east, paid>>

OfferDecided(o, status) ==
  /\ made[o] # None
  /\ made[o].status = "PENDING"
  /\ made' = [made EXCEPT ![o].status = status]
  /\ UNCHANGED <<now, east, paid>>

\* A customer pays for an offer, an office for a subscription; only a partial payment
\* carries the commission.
PaymentComes(p, a, type, amount) ==
  /\ paid[p] = None
  /\ IF type = "SUBSCRIPTION" THEN IsOffice(a) ELSE HasRole(a, "USER")
  /\ paid' = [paid EXCEPT ![p] =
       [type |-> type, payer |-> a, amount |-> amount, status |-> "PENDING", at |-> now,
        commission |-> IF type = "BOOKING_PARTIAL" THEN 1 ELSE 0]]
  /\ UNCHANGED <<now, east, made>>

PaymentSucceeds(p) ==
  /\ paid[p] # None
  /\ paid' = [paid EXCEPT ![p].status = "SUCCESS"]
  /\ UNCHANGED <<now, east, made>>

RowStep ==
  /\ \/ Tick
     \/ \E o \in OfferRows :
          \/ \E f \in Accounts, x \in Worth : OfferComes(o, f, x)
          \/ \E s \in {"ACCEPTED", "REJECTED"} : OfferDecided(o, s)
     \/ \E p \in PaymentRows :
          \/ \E a \in Accounts, t \in BookingTypes \union {"SUBSCRIPTION"}, x \in Worth :
               PaymentComes(p, a, t, x)
          \/ PaymentSucceeds(p)
  /\ UNCHANGED <<identityVars, joined, profile>>

\* A new row of accounts has its date.
Dated == joined' = [a \in Accounts |-> IF ~Exists(a) /\ Exists(a)' THEN [at |-> now] ELSE joined[a]]

\* The foreign key of offers: an office that has made one is not deleted.
OfficesOfOffers == \A o \in OfferRows : made[o] # None => office'[made[o].office] # None

\* A request on accounts, codes, sessions or offices: a new user has a profile too.
PeopleStep ==
  /\ Dated
  /\ profile' = profile \union {a \in Accounts : ~Exists(a) /\ HasRole(a, "USER")'}
  /\ OfficesOfOffers
  /\ UNCHANGED rowsOfReports

\* deleteProfile, which can be cut before it blocks the account
DeleteProfile(a) ==
  /\ HasRole(a, "USER")
  /\ (DeleteUser(a) /\ UNCHANGED <<officeVars, otpVars, authVars>>) \/ UNCHANGED identityVars
  /\ profile' = profile \ {a}
  /\ UNCHANGED <<rowsOfReports, joined>>

ReportsNext ==
  \/ RowStep
  \/ IdentityEdits /\ PeopleStep
  \/ \E a \in Accounts : DeleteProfile(a)

ReportsSpec ==
  IdentityInit /\ ReportsInit /\ [][ReportsNext]_<<identityVars, reportVars>>

(***************************************************************************)
(* Counting rows                                                           *)
(***************************************************************************)

\* BETWEEN has both its ends
MadeIn(from, to) == {o \in OfferRows : made[o] # None /\ made[o].at \in from..to}
WithStatus(rows, status) == {o \in rows : made[o].status = status}
Price(rows) == SumOf([o \in rows |-> made[o].price], rows)

\* The summary counts of getOfficePerformance and of adminHomeSummaryReport
Counts(rows) ==
  [accepted |-> Cardinality(WithStatus(rows, "ACCEPTED")),
   rejected |-> Cardinality(WithStatus(rows, "REJECTED")), all |-> Cardinality(rows)]

ByOffice(f, rows) == {o \in rows : made[o].office = f}

MonthStart(month) == 2 * DaysPerMonth * month
ThisMonth == MadeIn(MonthStart(Month(now)), now)
LastMonth == MadeIn(MonthStart(Month(now) - 1), MonthStart(Month(now)) - 1)

\* calculateMonthOverMonthPct, in hundredths: nothing to compare with gives null
MonthOverMonth(current, previous) ==
  IF previous = 0 THEN None
  ELSE (20000 * (current - previous) + previous) \div (2 * previous)

\* resolveOfficeAccountId: the account's own office, else its employer
ReportOffice(a) == IF IsOffice(a) THEN a ELSE IF IsEmployee(a) THEN OfficeOf(a) ELSE None

Performance(a, from, to) ==
  LET f == ReportOffice(a)
      rows == ByOffice(f, MadeIn(from, to))
  IN [summary |-> Counts(rows),
      acceptedPct |-> MonthOverMonth(Counts(ByOffice(f, ThisMonth)).accepted,
                                     Counts(ByOffice(f, LastMonth)).accepted),
      accepted |-> [d \in {Day(made[o].at) : o \in WithStatus(rows, "ACCEPTED")} |->
                      {o \in WithStatus(rows, "ACCEPTED") : Day(made[o].at) = d}]]

AllOffices == {f \in Accounts : IsOffice(f)}

HomeSummary ==
  [current |-> Counts(ThisMonth), previous |-> Counts(LastMonth),
   users |-> Cardinality({a \in Accounts : HasRole(a, "USER")}),
   offices |-> Cardinality(AllOffices)]

TopOffices ==
  [f \in {made[o].office : o \in MadeIn(0, now)} |-> Counts(ByOffice(f, MadeIn(0, now)))]

\* adminOfficesPaginatedSummary: every offer since the office joined counts, whatever
\* became of it.
OfficeSummary(f) == Price(ByOffice(f, MadeIn(joined[f].at, now)))

(***************************************************************************)
(* Charts: rows gathered by day                                            *)
(***************************************************************************)

\* The day of a row comes from the driver as a Date, midnight in the server's zone;
\* toISOString names the day that is in UTC.
DayKey(day) == IF east THEN day - 1 ELSE day

\* Mutant: the loop stops before its last day.
SeriesShort(from, to) == Day(from)..(Day(to) - 1)

\* The days of a chart, from midnight to midnight
Series(from, to) == Day(from)..Day(to)

Daily(table, rows, from, to) ==
  [d \in Series(from, to) |-> {r \in rows : DayKey(Day(table[r].at)) = d}]

Added(Figure(_), chart) == SumOf([d \in DOMAIN chart |-> Figure(chart[d])], DOMAIN chart)

AcceptedChart(from, to) ==
  LET chart == Daily(made, WithStatus(MadeIn(from, to), "ACCEPTED"), from, to)
  IN [accepted |-> Added(Cardinality, chart), revenue |-> Added(Price, chart)]

NewUsers(from, to) == {a \in Accounts : HasRole(a, "USER") /\ joined[a].at \in from..to}
NewAccountsChart(from, to) == Added(Cardinality, Daily(joined, NewUsers(from, to), from, to))

\* getOfficeDailyProfit looks up the days of a month by their ISO names among keys that
\* are what String makes of a Date.
DailyProfit(a, month) ==
  LET from == MonthStart(month)
      to == MonthStart(month + 1) - 1
      rows == WithStatus(ByOffice(ReportOffice(a), MadeIn(from, to)), "ACCEPTED")
      profitByDay == [k \in {<<"Date", Day(made[o].at)>> : o \in rows} |->
                        Price({o \in rows : Day(made[o].at) = k[2]})]
  IN [d \in Series(from, to) |-> IF <<"ISO", d>> \in DOMAIN profitByDay
                                 THEN profitByDay[<<"ISO", d>>] ELSE 0]

(***************************************************************************)
(* Payments                                                                *)
(***************************************************************************)

Succeeded(from, to) ==
  {p \in PaymentRows : paid[p] # None /\ paid[p].status = "SUCCESS" /\ paid[p].at \in from..to}

Amount(rows) == SumOf([p \in rows |-> paid[p].amount], rows)
Subscriptions(rows) == Amount({p \in rows : paid[p].type = "SUBSCRIPTION"})
Commission(rows) ==
  LET bookings == {p \in rows : paid[p].type \in BookingTypes}
  IN SumOf([p \in bookings |-> paid[p].commission], bookings)

\* adminPaymentSummaryReport
PaymentSummary(rows) ==
  [amount |-> Amount(rows), subscriptions |-> Subscriptions(rows), commission |-> Commission(rows),
   revenue |-> Subscriptions(rows) + Commission(rows)]

\* adminPaymentSummaryChart
PaymentChart(from, to) ==
  LET chart == Daily(paid, Succeeded(from, to), from, to)
      Revenue(rows) == Subscriptions(rows) + Commission(rows)
  IN [amount |-> Added(Amount, chart), subscriptions |-> Added(Subscriptions, chart),
      commission |-> Added(Commission, chart), revenue |-> Added(Revenue, chart)]

\* adminUsersPaginatedPaymentSummary, for a user whose profile is still there
UserPaid(a) == Amount({p \in Succeeded(joined[a].at, now) : paid[p].payer = a})

-----------------------------------------------------------------------------

FirstDay(table, rows, from) == {r \in rows : Day(table[r].at) = Day(from)}

\* The charts of a period add up to what is counted row by row; on a server east of UTC
\* the figures of the first day are missing, and only those.
ChartsAgree ==
  \A from \in 0..now : \A to \in from..now :
    LET Lost(table, rows) == IF east THEN FirstDay(table, rows, from) ELSE {}
        money == Succeeded(from, to)
        won == WithStatus(MadeIn(from, to), "ACCEPTED")
        came == NewUsers(from, to)
    IN /\ PaymentChart(from, to) = PaymentSummary(money \ Lost(paid, money))
       /\ AcceptedChart(from, to).revenue = Price(won \ Lost(made, won))
       /\ AcceptedChart(from, to).accepted
            = SumOf([f \in AllOffices |-> Performance(f, from, to).summary.accepted], AllOffices)
              - Cardinality(Lost(made, won))
       /\ NewAccountsChart(from, to) = Cardinality(came \ Lost(joined, came))

\* The figures an office sees add up to those the admin sees, and so do those of users and
\* of their payments as long as no profile is deleted. The amounts of the offices since they
\* joined are those of all the offers there are.
FiguresAgree ==
  LET All == PaymentSummary(Succeeded(0, now))
      users == SumOf([a \in profile |-> UserPaid(a)], profile)
      TopFigures(f) == IF f \in DOMAIN TopOffices THEN TopOffices[f] ELSE Counts({})
  IN /\ HomeSummary.current.accepted = SumOf(
          [f \in AllOffices |-> Performance(f, MonthStart(Month(now)), now).summary.accepted], AllOffices)
     /\ SumOf([f \in AllOffices |-> OfficeSummary(f)], AllOffices) = Price(MadeIn(0, now))
     /\ users + All.subscriptions <= All.amount
     /\ (\A a \in Accounts : HasRole(a, "USER") => a \in profile)
          => users + All.subscriptions = All.amount
     /\ \A a \in Accounts : ReportOffice(a) # None =>
          LET seen == Performance(a, 0, now)
          IN /\ SumOf([d \in DOMAIN seen.accepted |-> Cardinality(seen.accepted[d])],
                      DOMAIN seen.accepted) = seen.summary.accepted
             /\ seen.summary = TopFigures(ReportOffice(a))

\* The daily profit an office sees agrees with nothing: each day's figure is looked up under
\* a name no day has (report.service.ts:258), so its total is 0 whatever the office earned.
DailyProfitIsLost ==
  \A a \in Accounts : ReportOffice(a) # None =>
    LET profit == DailyProfit(a, Month(now)) IN SumOf(profit, DOMAIN profit) = 0

\* What the reports say of one period is the same wherever it is shown, and their charts
\* lose no row, with two exceptions: on a server east of UTC the charts that go by
\* toISOString (adminPaymentSummaryChart and its siblings) lose the rows of their first day,
\* and getOfficeDailyProfit loses every row (DailyProfitIsLost).
ReportsAgree == ChartsAgree /\ FiguresAgree /\ DailyProfitIsLost
=============================================================================
