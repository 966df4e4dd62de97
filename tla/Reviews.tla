------------------------------- MODULE Reviews -------------------------------
(***************************************************************************)
(* Reviews of offices by customers who completed a booking                 *)
(* (src/module/review).                                                    *)
(***************************************************************************)
EXTENDS Offices, Sums

CONSTANTS Reviews,      \* ids of reviews rows
          Ratings

ASSUME RatingsAssumption == Ratings \subseteq 1..5

VARIABLES review,
          withdrawn,    \* ids of rows that were deleted
          completed     \* bookings with status COMPLETED, each a pair <<account, number>>

reviewVars == <<review, withdrawn, completed>>

\* booking: the booking a review is about, when it names one
Review == [by : Accounts, office : Accounts, booking : (Accounts \X Nat) \union {None},
           rating : Ratings, hidden : BOOLEAN]

ASSUME NoneIsNoReview == None \notin Review /\ None \notin Accounts \X Nat

ReviewsTypeOK ==
  /\ review \in [Reviews -> Review \union {None}]
  /\ withdrawn \subseteq Reviews
  /\ completed \subseteq Accounts \X Nat

ReviewsInit ==
  /\ review = [r \in Reviews |-> None]
  /\ withdrawn = {}

Unused == {r \in Reviews : review[r] = None}
Posted == (Reviews \ Unused) \ withdrawn
CompletedBy(a) == {b \in completed : b[1] = a}

\* A booking reaches its end (module BookingStatus).
CompleteBooking(b) ==
  /\ completed' = completed \union {b}
  /\ UNCHANGED <<accountVars, officeVars, reqVars, review, withdrawn>>

\* Mutant: the duplicate is looked for under the booking only.
ReviewedBooking(a, o, b) == b # None /\ \E r \in Posted : review[r].by = a /\ review[r].booking = b

\* The lookup of an earlier review: without a booking, any of the account on the office
Reviewed(a, o, b) ==
  \E r \in Posted :
    review[r].by = a /\ review[r].office = o /\ (b = None \/ review[r].booking = b)

\* createReview looks for a completed booking (of any office), then for a review.
CreateReviewRead(h, a, o, b, rating) ==
  /\ IsOffice(o)
  /\ IF b = None THEN CompletedBy(a) # {} ELSE b \in CompletedBy(a)
  /\ ~Reviewed(a, o, b)
  /\ Begin(h, [at |-> "review",
               row |-> [by |-> a, office |-> o, booking |-> b, rating |-> rating, hidden |-> FALSE]])
  /\ UNCHANGED <<accountVars, officeVars, reviewVars>>

\* A booking has one review (the index of the one-to-one relation); the insert of another
\* one, on whatever office, throws.
CreateReview(h) ==
  LET row == req[h].row
      taken == row.booking # None /\ \E r \in Posted : review[r].booking = row.booking IN
  /\ At(h, "review")
  /\ IF taken \/ Unused = {} THEN UNCHANGED review
     ELSE review' = [review EXCEPT ![CHOOSE r \in Unused : TRUE] = row]
  /\ Done(h)
  /\ UNCHANGED <<accountVars, officeVars, withdrawn, completed>>

\* updateReview by the author or an admin, and toggleHideReview: the row that was read is
\* saved.
UpdateReviewRead(h, a, r, rating, hidden) ==
  /\ r \in Posted
  /\ a = review[r].by \/ HasRole(a, "ADMIN")
  /\ Begin(h, [at |-> "save_review", id |-> r,
               row |-> [review[r] EXCEPT !.rating = rating, !.hidden = hidden]])
  /\ UNCHANGED <<accountVars, officeVars, reviewVars>>

ToggleHideRead(h, r) ==
  /\ r \in Posted
  /\ Begin(h, [at |-> "save_review", id |-> r, row |-> [review[r] EXCEPT !.hidden = ~@]])
  /\ UNCHANGED <<accountVars, officeVars, reviewVars>>

SaveReview(h) ==
  LET r == req[h].id IN
  /\ At(h, "save_review")
  /\ review' = IF r \in Posted THEN [review EXCEPT ![r] = req[h].row] ELSE review
  /\ Done(h)
  /\ UNCHANGED <<accountVars, officeVars, withdrawn, completed>>

\* deleteReview
DeleteReview(r) ==
  /\ r \in Posted
  /\ withdrawn' = withdrawn \union {r}
  /\ AtOnce
  /\ UNCHANGED <<accountVars, officeVars, review, completed>>

ReviewsStep(h) == CreateReview(h) \/ SaveReview(h)

(***************************************************************************)
(* What is shown of an office (getOfficeReviews, getOfficeReviewsStats)    *)
(***************************************************************************)

Visible(o) == {r \in Posted : review[r].office = o /\ ~review[r].hidden}

\* The sum of the ratings, and how many there are: their quotient is the average.
Stats(o) ==
  [sum |-> SumOf([r \in Visible(o) |-> review[r].rating], Visible(o)), total |-> Cardinality(Visible(o)),
   count |-> [x \in Ratings |-> Cardinality({r \in Visible(o) : review[r].rating = x})]]

\* All requests on reviews, overlapping or one at a time, while bookings are completed
ReviewMoves ==
  \/ \E h \in Handlers :
       \/ \E a, o \in Accounts, b \in (Accounts \X Nat) \union {None}, rating \in Ratings :
            CreateReviewRead(h, a, o, b, rating)
       \/ \E r \in Reviews :
            \/ \E a \in Accounts, rating \in Ratings, hidden \in BOOLEAN : UpdateReviewRead(h, a, r, rating, hidden)
            \/ ToggleHideRead(h, r)
       \/ ReviewsStep(h)
  \/ \E r \in Reviews : DeleteReview(r)
  \/ \E b \in Accounts \X Nat : CompleteBooking(b)

\* Each request may be cut. What becomes of the accounts and offices is left open.
ReviewsNext == ReviewMoves \/ \E h \in Handlers : Drop(h) /\ UNCHANGED reviewVars

ReviewsSpec ==
  /\ completed = {}
  /\ ReviewsInit
  /\ \E oneAtATime \in BOOLEAN : RequestsInit(oneAtATime)
  /\ [][ReviewsNext]_<<reqVars, reviewVars>>

(***************************************************************************)
(* Properties                                                              *)
(***************************************************************************)

\* Reviews are earned: the author has completed a booking, the one the review names if it
\* names one; a booking gives one review, also when requests overlap, and an account's reviews
\* of an office that name none are one while requests do not. This is not what
\* docs/review-api-docs.md:13-14 and :156-157 promise, a booking with that office and one
\* review of it: createReview looks for a booking with any office (review.service.ts:48-58)
\* and, when a booking is named, for a review of that booking only (:77-83), so an office has
\* a review per booking and one that names none.
ReviewsEarned ==
  /\ \A r \in Posted : /\ CompletedBy(review[r].by) # {}
                       /\ review[r].booking # None => review[r].booking \in CompletedBy(review[r].by)
  /\ \A r, q \in Posted : review[r].booking = review[q].booking /\ review[r].booking # None => r = q
  /\ serial => \A r, q \in Posted :
       /\ review[r].by = review[q].by /\ review[r].office = review[q].office
       /\ review[r].booking = None /\ review[q].booking = None
       => r = q

\* The average and the bars a visitor sees are of the same reviews.
StatsAgree ==
  \A o \in Accounts :
    LET s == Stats(o) IN
      /\ s.total = SumOf(s.count, Ratings)
      /\ s.sum = SumOf([x \in Ratings |-> x * s.count[x]], Ratings)

\* Reviews are earned and counted alike wherever they are shown.
ReviewsSound == ReviewsEarned /\ StatsAgree
=============================================================================
