---------------------------- MODULE SerialProofs ----------------------------
(***************************************************************************)
(* What holds of a booking, its offers and its payments while requests on  *)
(* it come one at a time (Handlers = {h}), for any number of offers,       *)
(* offices, payments and rates, whatever is refused or cut short.          *)
(*                                                                         *)
(* A request takes several steps, but with nobody else in between what it  *)
(* has read is what is there when it writes. Each step then amounts to one *)
(* whole operation or to nothing, and the operations keep the properties.  *)
(***************************************************************************)
EXTENDS CheckoutProofs, SumProofs

-----------------------------------------------------------------------------
(* What a request on the booking has read is still so *)

Negotiation == {"WAITING_FOR_OFFERS", "UNDER_NEGOTIATION"}
Accepting == {"accept_reject", "accept_commit"}
OtherPending(o) == {q \in Offers \ {o} : offer[q].status = "PENDING"}

Current(t) ==
  /\ t.at # "idle" => Found
  /\ t.at \in Making \union Accepting => t.copy = booking
  /\ t.at \in Deciding => offer[t.offer].status = "PENDING" /\ booking.status \in Negotiation
  /\ t.at \in Making \union {"update_save"} => t.draft.status = "PENDING"
  /\ t.at \in Accepting => t.draft = [offer[t.offer] EXCEPT !.status = "ACCEPTED"]
  /\ t.at = "create_commit" => t.others = PendingOf(t.draft.office)
  /\ t.at = "accept_commit" => t.others = OtherPending(t.offer)
  /\ t.at = "cancel_save" => /\ t.copy = [booking EXCEPT !.status = "CANCELLED"]
                             /\ CanChangeStatus(booking.status, "CANCELLED")

AllCurrent == \A g \in Handlers : Current(task[g])

\* The operations the requests amount to.
Nothing == booking' = booking /\ offer' = offer

OfferMade ==
  /\ Found
  /\ \E o \in Offers :
       /\ offer[o] = NoOffer
       /\ offer'[o].status = "PENDING"
       /\ \A q \in Offers \ {o} :
            offer'[q] = IF offer[q].status = "PENDING" /\ offer[q].office = offer'[o].office
                        THEN [offer[q] EXCEPT !.status = "REPLACED"] ELSE offer[q]
  /\ booking' = IF booking.status = "WAITING_FOR_OFFERS"
                THEN [booking EXCEPT !.status = "UNDER_NEGOTIATION"] ELSE booking

OfferEdited ==
  /\ booking' = booking
  /\ \E o \in Offers :
       /\ offer[o].status = "PENDING" /\ offer'[o].status = "PENDING"
       /\ offer'[o].office = offer[o].office
       /\ \A q \in Offers \ {o} : offer'[q] = offer[q]

OfferAccepted ==
  /\ Found
  /\ booking.status \in Negotiation
  /\ \E o \in Offers :
       /\ offer[o].status = "PENDING"
       /\ offer'[o] = [offer[o] EXCEPT !.status = "ACCEPTED"]
       /\ \A q \in Offers \ {o} :
            offer'[q] = IF offer[q].status = "PENDING"
                        THEN [offer[q] EXCEPT !.status = "REJECTED"] ELSE offer[q]
       /\ booking' = [booking EXCEPT !.status = "OFFER_ACCEPTED", !.selected = o]

Cancelled ==
  /\ Found
  /\ CanChangeStatus(booking.status, "CANCELLED")
  /\ booking' = [booking EXCEPT !.status = "CANCELLED"]
  /\ offer' = offer

Deleted ==
  /\ Found
  /\ booking' = [booking EXCEPT !.deleted = TRUE]
  /\ offer' = offer

Operation == OfferMade \/ OfferEdited \/ OfferAccepted \/ Cancelled \/ Deleted

\* Nothing of a request that is at rest can be out of date.
LEMMA IdleIsCurrent == Current(Idle)
  BY DEF Current, Idle, Making, Deciding, Accepting

LEMMA OneTask ==
  ASSUME MarketTypeOK, NEW h, Handlers = {h}, NEW t, task' = [task EXCEPT ![h] = t]
  PROVE  task'[h] = t
  BY DEF MarketTypeOK

LEMMA ReadIsCurrent ==
  ASSUME MarketTypeOK, NEW h, Handlers = {h}, NEW t, task' = [task EXCEPT ![h] = t],
         booking' = booking, offer' = offer, Current(t)
  PROVE  AllCurrent'
<1>1. task'[h] = t
  BY OneTask
<1>2. Current(task[h])'
  BY <1>1 DEF Current, Found, PendingOf, OtherPending
<1>3. QED
  BY <1>2 DEF AllCurrent

LEMMA EndIsCurrent ==
  ASSUME MarketTypeOK, NEW h, Handlers = {h}, task' = [task EXCEPT ![h] = Idle]
  PROVE  AllCurrent'
<1>1. task'[h] = Idle
  BY OneTask
<1>2. Current(task[h])'
  BY <1>1 DEF Current, Idle, Making, Deciding, Accepting
<1>3. QED
  BY <1>2 DEF AllCurrent

LEMMA CreateOfferCurrent ==
  ASSUME MarketTypeOK, OfferInv, AllCurrent, NEW h, Handlers = {h},
         \/ \E o \in Offers, f \in Offices, p \in Prices : CreateOfferRead(h, o, f, p)
         \/ CreateOfferReplace(h)
  PROVE  AllCurrent' /\ Nothing
<1>1. ASSUME NEW o \in Offers, NEW f \in Offices, NEW p \in Prices, CreateOfferRead(h, o, f, p)
      PROVE  AllCurrent' /\ Nothing
  <2> DEFINE t == [at |-> "create_replace", offer |-> o, copy |-> booking, others |-> {},
                   draft |-> [status |-> "PENDING", price |-> p, office |-> f]]
  <2>1. /\ task' = [task EXCEPT ![h] = t] /\ Found /\ Nothing
    BY <1>1 DEF CreateOfferRead, Nothing
  <2>2. Current(t)
    BY <2>1 DEF Current, Making, Accepting, Deciding
  <2> HIDE DEF t
  <2>3. QED
    BY <2>1, <2>2, ReadIsCurrent DEF Nothing
<1>2. CASE CreateOfferReplace(h)
  <2> DEFINE t == [task[h] EXCEPT !.at = "create_commit", !.others = PendingOf(task[h].draft.office)]
  <2>1. task' = [task EXCEPT ![h] = t] /\ task[h].at = "create_replace" /\ Nothing
    BY <1>2 DEF CreateOfferReplace, Nothing, MarketTypeOK
  <2>2. /\ t.at = "create_commit" /\ t.draft = task[h].draft /\ t.copy = task[h].copy
        /\ t.others = PendingOf(task[h].draft.office)
    BY TaskFields DEF Task
  <2>3. Current(task[h])
    BY DEF AllCurrent
  <2> HIDE DEF t
  <2>4. Current(t)
    BY <2>1, <2>2, <2>3 DEF Current, Making, Accepting, Deciding
  <2>5. QED
    BY <2>1, <2>4, ReadIsCurrent DEF Nothing
<1>3. QED
  BY <1>1, <1>2

LEMMA DecisionReadCurrent ==
  ASSUME MarketTypeOK, OfferInv, AllCurrent, NEW h, Handlers = {h},
         \/ \E o \in Offers, p \in Prices : UpdateRead(h, o, p)
         \/ \E o \in Offers : AcceptRead(h, o)
         \/ AcceptReject(h)
         \/ CancelRead(h)
  PROVE  AllCurrent' /\ Nothing
<1>1. ASSUME NEW o \in Offers, NEW p \in Prices, UpdateRead(h, o, p) PROVE AllCurrent' /\ Nothing
  <2> DEFINE t == [Idle EXCEPT !.at = "update_save", !.offer = o, !.draft = [offer[o] EXCEPT !.price = p]]
  <2>1. /\ task' = [task EXCEPT ![h] = t] /\ Found /\ Nothing
        /\ offer[o].status = "PENDING" /\ booking.status = "UNDER_NEGOTIATION"
    BY <1>1 DEF UpdateRead, Nothing
  <2>2. offer[o] \in Offer
    BY DEF MarketTypeOK
  <2>3. t.at = "update_save" /\ t.offer = o /\ t.draft.status = "PENDING"
    BY <2>1, <2>2 DEF Idle, Offer
  <2> HIDE DEF t
  <2>4. Current(t)
    BY <2>1, <2>3 DEF Current, Making, Accepting, Deciding, Negotiation
  <2>5. QED
    BY <2>1, <2>4, ReadIsCurrent DEF Nothing
<1>2. ASSUME NEW o \in Offers, AcceptRead(h, o) PROVE AllCurrent' /\ Nothing
  <2> DEFINE t == [at |-> "accept_reject", offer |-> o, copy |-> booking, others |-> {},
                   draft |-> [offer[o] EXCEPT !.status = "ACCEPTED"]]
  <2>1. /\ task' = [task EXCEPT ![h] = t] /\ Found /\ Nothing
        /\ offer[o].status = "PENDING" /\ booking.status \in Negotiation
    BY <1>2 DEF AcceptRead, Nothing, Negotiation
  <2>2. Current(t)
    BY <2>1 DEF Current, Making, Accepting, Deciding
  <2> HIDE DEF t
  <2>3. QED
    BY <2>1, <2>2, ReadIsCurrent DEF Nothing
<1>3. CASE AcceptReject(h)
  <2> DEFINE t == [task[h] EXCEPT !.at = "accept_commit", !.others = OtherPending(task[h].offer)]
  <2>1. task' = [task EXCEPT ![h] = t] /\ task[h].at = "accept_reject" /\ Nothing
    BY <1>3 DEF AcceptReject, Nothing, MarketTypeOK, OtherPending
  <2>2. /\ t.at = "accept_commit" /\ t.draft = task[h].draft /\ t.copy = task[h].copy
        /\ t.offer = task[h].offer /\ t.others = OtherPending(task[h].offer)
    BY TaskFields DEF Task
  <2>3. Current(task[h])
    BY DEF AllCurrent
  <2> HIDE DEF t
  <2>4. Current(t)
    BY <2>1, <2>2, <2>3 DEF Current, Making, Accepting, Deciding
  <2>5. QED
    BY <2>1, <2>4, ReadIsCurrent DEF Nothing
<1>4. CASE CancelRead(h)
  <2> DEFINE t == [Idle EXCEPT !.at = "cancel_save", !.copy = [booking EXCEPT !.status = "CANCELLED"]]
  <2>1. /\ task' = [task EXCEPT ![h] = t] /\ Found /\ Nothing
        /\ CanChangeStatus(booking.status, "CANCELLED")
    BY <1>4 DEF CancelRead, Nothing
  <2>2. t.at = "cancel_save" /\ t.copy = [booking EXCEPT !.status = "CANCELLED"]
    BY DEF Idle
  <2> HIDE DEF t
  <2>3. Current(t)
    BY <2>1, <2>2 DEF Current, Making, Accepting, Deciding
  <2>4. QED
    BY <2>1, <2>3, ReadIsCurrent DEF Nothing
<1>5. QED
  BY <1>1, <1>2, <1>3, <1>4

-----------------------------------------------------------------------------
(* What a request on the booking writes is one whole operation *)

LEMMA CreateCommits ==
  ASSUME MarketTypeOK, OfferInv, AllCurrent, NEW h, Handlers = {h}, CreateOfferCommit(h)
  PROVE  OfferMade
<1> DEFINE t == task[h]
<1>1. Current(t) /\ t.at = "create_commit" /\ t.offer \in Offers /\ offer[t.offer] = NoOffer
  BY DEF AllCurrent, CreateOfferCommit, OfferInv, Sound, Making
<1>2. /\ t.copy = booking /\ t.draft.status = "PENDING" /\ Found
      /\ t.others = PendingOf(t.draft.office)
  BY <1>1 DEF Current, Making
<1>3. offer' = [Updated(t.others, "REPLACED") EXCEPT ![t.offer] = t.draft]
  BY DEF CreateOfferCommit
<1>4. Updated(t.others, "REPLACED") \in [Offers -> Offer]
  BY UpdatedType DEF OfferStatuses
<1>5. offer'[t.offer] = t.draft
  BY <1>1, <1>3, <1>4
<1>6. ASSUME NEW q \in Offers \ {t.offer}
      PROVE  offer'[q] = IF offer[q].status = "PENDING" /\ offer[q].office = offer'[t.offer].office
                         THEN [offer[q] EXCEPT !.status = "REPLACED"] ELSE offer[q]
  <2>1. offer'[q] = Updated(t.others, "REPLACED")[q]
    BY <1>3, <1>4
  <2>2. q \in t.others <=> offer[q].status = "PENDING" /\ offer[q].office = t.draft.office
    BY <1>2 DEF PendingOf
  <2>3. QED
    BY <1>5, <2>1, <2>2 DEF Updated
<1>7. booking' = IF booking.status = "WAITING_FOR_OFFERS"
                 THEN [booking EXCEPT !.status = "UNDER_NEGOTIATION"] ELSE booking
  <2>1. Saved([booking EXCEPT !.status = "UNDER_NEGOTIATION"]) = [booking EXCEPT !.status = "UNDER_NEGOTIATION"]
    BY DEF Saved, MarketTypeOK, Booking
  <2>2. QED
    BY <1>2, <2>1 DEF CreateOfferCommit
<1>8. QED
  BY <1>1, <1>2, <1>5, <1>6, <1>7 DEF OfferMade

LEMMA UpdateCommits ==
  ASSUME MarketTypeOK, OfferInv, AllCurrent, NEW h, Handlers = {h}, UpdateSave(h)
  PROVE  OfferEdited
<1>1. /\ Current(task[h]) /\ task[h].offer \in Offers
      /\ task[h].draft.office = offer[task[h].offer].office
  BY DEF AllCurrent, UpdateSave, OfferInv, Sound, Deciding
<1>2. offer[task[h].offer].status = "PENDING" /\ task[h].draft.status = "PENDING"
  BY <1>1 DEF Current, Making, Deciding, UpdateSave
<1>3. QED
  BY <1>1, <1>2 DEF UpdateSave, OfferEdited, MarketTypeOK

LEMMA AcceptCommits ==
  ASSUME MarketTypeOK, OfferInv, AllCurrent, NEW h, Handlers = {h}, AcceptCommit(h)
  PROVE  OfferAccepted
<1> DEFINE t == task[h]
<1>1. Current(t) /\ t.at = "accept_commit" /\ t.offer \in Offers
  BY DEF AllCurrent, AcceptCommit, OfferInv, Sound, Deciding
<1>2. /\ t.copy = booking /\ Found /\ t.draft = [offer[t.offer] EXCEPT !.status = "ACCEPTED"]
      /\ t.others = OtherPending(t.offer)
      /\ offer[t.offer].status = "PENDING" /\ booking.status \in Negotiation
  BY <1>1 DEF Current, Deciding, Accepting
<1>3. offer' = [Updated(t.others, "REJECTED") EXCEPT ![t.offer] = t.draft]
  BY DEF AcceptCommit
<1>4. Updated(t.others, "REJECTED") \in [Offers -> Offer]
  BY UpdatedType DEF OfferStatuses
<1>5. offer'[t.offer] = [offer[t.offer] EXCEPT !.status = "ACCEPTED"]
  BY <1>1, <1>2, <1>3, <1>4
<1>6. ASSUME NEW q \in Offers \ {t.offer}
      PROVE  offer'[q] = IF offer[q].status = "PENDING"
                         THEN [offer[q] EXCEPT !.status = "REJECTED"] ELSE offer[q]
  <2>1. offer'[q] = Updated(t.others, "REJECTED")[q]
    BY <1>3, <1>4
  <2>2. q \in t.others <=> offer[q].status = "PENDING"
    BY <1>2 DEF OtherPending
  <2>3. QED
    BY <2>1, <2>2 DEF Updated
<1>7. booking' = [booking EXCEPT !.status = "OFFER_ACCEPTED", !.selected = t.offer]
  BY <1>2 DEF AcceptCommit
<1>8. QED
  BY <1>1, <1>2, <1>5, <1>6, <1>7 DEF OfferAccepted

LEMMA EndCommits ==
  ASSUME MarketTypeOK, OfferInv, AllCurrent, NEW h, Handlers = {h}, CancelSave(h) \/ DeleteBooking(h)
  PROVE  Cancelled \/ Deleted
<1>1. CASE CancelSave(h)
  <2>1. Current(task[h]) /\ task[h].at = "cancel_save"
    BY <1>1 DEF AllCurrent, CancelSave
  <2>2. Saved([booking EXCEPT !.status = "CANCELLED"]) = [booking EXCEPT !.status = "CANCELLED"]
    BY DEF Saved, MarketTypeOK, Booking
  <2>3. QED
    BY <1>1, <2>1, <2>2 DEF Current, CancelSave, Cancelled
<1>2. CASE DeleteBooking(h)
  BY <1>2 DEF DeleteBooking, Deleted
<1>3. QED
  BY <1>1, <1>2

\* A step of a request changes nothing or is a whole operation, and nothing the request
\* has read goes stale.
LEMMA StepIsOperation ==
  ASSUME MarketTypeOK, OfferInv, AllCurrent, NEW h, Handlers = {h}, MarketStep(h)
  PROVE  AllCurrent' /\ (Nothing \/ Operation)
<1>1. CASE CreateOfferCommit(h)
  BY <1>1, CreateCommits, EndIsCurrent DEF CreateOfferCommit, Operation
<1>2. CASE UpdateSave(h)
  BY <1>2, UpdateCommits, EndIsCurrent DEF UpdateSave, Operation
<1>3. CASE AcceptCommit(h)
  BY <1>3, AcceptCommits, EndIsCurrent DEF AcceptCommit, Operation
<1>4. CASE CancelSave(h)
  BY <1>4, EndCommits, EndIsCurrent DEF CancelSave, Operation
<1>5. CASE DeleteBooking(h)
  <2>1. Current(task[h])'
    <3>1. task[h].at = "idle" /\ task' = task
      BY <1>5 DEF DeleteBooking
    <3>2. QED
      BY <3>1 DEF Current, Making, Deciding, Accepting
  <2>2. QED
    BY <1>5, <2>1, EndCommits DEF AllCurrent, Operation
<1>6. CASE Abort(h)
  BY <1>6, EndIsCurrent DEF Abort, Nothing
<1>7. QED
  BY <1>1, <1>2, <1>3, <1>4, <1>5, <1>6, CreateOfferCurrent, DecisionReadCurrent DEF MarketStep

-----------------------------------------------------------------------------
(* What the operations do to offers and to the booking *)

\* A booking nobody has made yet has no decided offer, and no accepted one is open to talk.
AcceptedInv ==
  /\ AcceptedIsSelected
  /\ booking.status = "NONE" => \A o \in Offers : offer[o].status # "ACCEPTED"

\* Two open offers of one office are the same one.
OneOpen ==
  \A o, q \in Offers :
    /\ offer[o].status = "PENDING" /\ offer[q].status = "PENDING"
    /\ offer[o].office = offer[q].office
    => o = q

SerialInv == MarketTypeOK /\ OfferInv /\ AllCurrent /\ AcceptedInv /\ OneOpen

Settled == {"ACCEPTED", "REJECTED", "REPLACED"}
DecisionsKept == \A o \in Offers : offer[o].status \in Settled => offer'[o] = offer[o]

LEMMA NoOfferIsNone == NoOffer.status = "NONE"
  BY DEF NoOffer

LEMMA ReplacedRow ==
  ASSUME NEW row \in Offer, NEW s \in OfferStatuses
  PROVE  /\ [row EXCEPT !.status = s].status = s
         /\ [row EXCEPT !.status = s].office = row.office
         /\ [row EXCEPT !.status = s].price = row.price
  BY DEF Offer

LEMMA OperationKeepsDecisions ==
  ASSUME MarketTypeOK, Nothing \/ Operation PROVE DecisionsKept
  BY NoOfferIsNone
  DEF Nothing, Operation, OfferMade, OfferEdited, OfferAccepted, Cancelled, Deleted,
      DecisionsKept, Settled

LEMMA OperationKeepsOneOpen ==
  ASSUME MarketTypeOK, OneOpen, Nothing \/ Operation PROVE OneOpen'
<1>0. \A o \in Offers : offer[o] \in Offer
  BY DEF MarketTypeOK
<1>1. \A o \in Offers, s \in {"ACCEPTED", "REJECTED", "REPLACED"} :
        [offer[o] EXCEPT !.status = s].status = s
  BY <1>0, ReplacedRow DEF OfferStatuses
<1>2. CASE OfferMade
  <2>1. PICK o \in Offers :
          \A q \in Offers \ {o} :
            offer'[q] = IF offer[q].status = "PENDING" /\ offer[q].office = offer'[o].office
                        THEN [offer[q] EXCEPT !.status = "REPLACED"] ELSE offer[q]
    BY <1>2 DEF OfferMade
  <2>2. ASSUME NEW q \in Offers \ {o}, offer'[q].status = "PENDING"
        PROVE  offer'[q] = offer[q] /\ offer[q].office # offer'[o].office
    BY <1>1, <2>1, <2>2
  <2>3. QED
    BY <2>2 DEF OneOpen
<1>3. CASE OfferEdited
  BY <1>3 DEF OfferEdited, OneOpen
<1>4. CASE OfferAccepted
  <2>1. PICK o \in Offers :
          /\ offer'[o] = [offer[o] EXCEPT !.status = "ACCEPTED"]
          /\ \A q \in Offers \ {o} :
               offer'[q] = IF offer[q].status = "PENDING"
                           THEN [offer[q] EXCEPT !.status = "REJECTED"] ELSE offer[q]
    BY <1>4 DEF OfferAccepted
  <2>2. offer'[o].status = "ACCEPTED"
    BY <1>1, <2>1
  <2>3. ASSUME NEW q \in Offers \ {o} PROVE offer'[q].status # "PENDING"
    BY <1>1, <2>1
  <2>4. \A q \in Offers : offer'[q].status # "PENDING"
    BY <2>2, <2>3
  <2>5. QED
    BY <2>4 DEF OneOpen
<1>5. CASE offer' = offer
  BY <1>5 DEF OneOpen
<1>6. QED
  BY <1>2, <1>3, <1>4, <1>5 DEF Nothing, Operation, Cancelled, Deleted

LEMMA OperationKeepsAccepted ==
  ASSUME MarketTypeOK, AcceptedInv, Nothing \/ Operation PROVE AcceptedInv'
<1>0. booking \in Booking /\ \A o \in Offers : offer[o] \in Offer
  BY DEF MarketTypeOK
<1>1. \A o \in Offers, s \in {"ACCEPTED", "REJECTED", "REPLACED"} :
        [offer[o] EXCEPT !.status = s].status = s
  BY <1>0, ReplacedRow DEF OfferStatuses
<1>2. CASE OfferMade
  <2>1. \A o \in Offers : offer'[o].status = "ACCEPTED" => offer[o].status = "ACCEPTED"
    BY <1>1, <1>2 DEF OfferMade
  <2>2. CASE booking.status = "WAITING_FOR_OFFERS"
    <3>1. \A o \in Offers : offer[o].status # "ACCEPTED"
      BY <2>2 DEF AcceptedInv, AcceptedIsSelected
    <3>2. QED
      BY <2>1, <3>1 DEF AcceptedInv, AcceptedIsSelected
  <2>3. CASE booking' = booking
    BY <2>1, <2>3 DEF AcceptedInv, AcceptedIsSelected
  <2>4. QED
    BY <1>2, <2>2, <2>3 DEF OfferMade
<1>3. CASE OfferEdited
  BY <1>3 DEF OfferEdited, AcceptedInv, AcceptedIsSelected
<1>4. CASE OfferAccepted
  <2>1. \A o \in Offers : offer[o].status # "ACCEPTED"
    BY <1>4 DEF OfferAccepted, AcceptedInv, AcceptedIsSelected, Negotiation
  <2>2. PICK o \in Offers :
          /\ booking' = [booking EXCEPT !.status = "OFFER_ACCEPTED", !.selected = o]
          /\ \A q \in Offers \ {o} :
               offer'[q] = IF offer[q].status = "PENDING"
                           THEN [offer[q] EXCEPT !.status = "REJECTED"] ELSE offer[q]
    BY <1>4 DEF OfferAccepted
  <2>3. booking'.status = "OFFER_ACCEPTED" /\ booking'.selected = o
    BY <1>0, <2>2 DEF Booking
  <2>4. \A q \in Offers \ {o} : offer'[q].status # "ACCEPTED"
    BY <1>1, <2>1, <2>2
  <2>5. QED
    BY <2>3, <2>4 DEF AcceptedInv, AcceptedIsSelected
<1>5. CASE Cancelled
  <2>1. booking'.status = "CANCELLED" /\ booking'.selected = booking.selected
    BY <1>0, <1>5 DEF Cancelled, Booking
  <2>2. QED
    BY <1>5, <2>1 DEF Cancelled, AcceptedInv, AcceptedIsSelected
<1>6. CASE Deleted
  <2>1. booking'.status = booking.status /\ booking'.selected = booking.selected
    BY <1>0, <1>6 DEF Deleted, Booking
  <2>2. QED
    BY <1>6, <2>1 DEF Deleted, AcceptedInv, AcceptedIsSelected
<1>7. CASE Nothing
  BY <1>7 DEF Nothing, AcceptedInv, AcceptedIsSelected
<1>8. QED
  BY <1>2, <1>3, <1>4, <1>5, <1>6, <1>7 DEF Operation

LEMMA CreateBookingKeeps ==
  ASSUME SerialInv, CreateBooking
  PROVE  OfferInv' /\ AllCurrent' /\ AcceptedInv' /\ OneOpen' /\ DecisionsKept
<1>1. booking.status = "NONE" /\ offer' = offer /\ task' = task
  BY DEF CreateBooking
<1>2. \A g \in Handlers : task[g].at = "idle"
  BY <1>1 DEF SerialInv, AllCurrent, Current, Found
<1>3. AllCurrent'
  BY <1>1, <1>2 DEF AllCurrent, Current, Making, Deciding, Accepting
<1>4. AcceptedInv'
  BY <1>1 DEF SerialInv, AcceptedInv, AcceptedIsSelected
<1>5. QED
  BY <1>1, <1>3, <1>4 DEF SerialInv, OfferInv, Alone, Sound, OneOpen, DecisionsKept

LEMMA SerialInvHolds ==
  ASSUME NEW h, Handlers = {h}
  PROVE  MarketSpec => []SerialInv
<1>1. MarketInit => SerialInv
  <2> SUFFICES ASSUME MarketInit PROVE SerialInv
    OBVIOUS
  <2>1. OfferInv
    BY DEF MarketInit, OfferInv, Alone, Sound, Idle, Making, Deciding
  <2>2. AllCurrent
    BY IdleIsCurrent DEF MarketInit, AllCurrent
  <2>3. AcceptedInv /\ OneOpen
    BY NoOfferIsNone DEF MarketInit, AcceptedInv, AcceptedIsSelected, OneOpen
  <2>4. QED
    BY <2>1, <2>2, <2>3, MarketInitType DEF SerialInv
<1>2. SerialInv /\ [MarketNext]_marketVars => SerialInv'
  <2> SUFFICES ASSUME SerialInv, [MarketNext]_marketVars PROVE SerialInv'
    OBVIOUS
  <2>1. CASE UNCHANGED marketVars
    BY <2>1
    DEF marketVars, SerialInv, MarketTypeOK, OfferInv, Alone, Sound, AllCurrent, Current, Found,
        PendingOf, OtherPending, AcceptedInv, AcceptedIsSelected, OneOpen
  <2>2. CASE CreateBooking
    BY <2>2, CreateBookingKeeps, CreateBookingKeepsType DEF SerialInv
  <2>3. CASE MarketStep(h)
    BY <2>3, MarketStepKeepsType, StepKeepsOfferInv, StepIsOperation, OperationKeepsAccepted,
       OperationKeepsOneOpen
    DEF SerialInv
  <2>4. QED
    BY <2>1, <2>2, <2>3 DEF MarketNext
<1>3. QED
  BY <1>1, <1>2, PTL DEF MarketSpec

-----------------------------------------------------------------------------

\* With requests one at a time, an office never has two open offers on a booking.
THEOREM OneOpenOfferPerOffice ==
  ASSUME NEW h, Handlers = {h}
  PROVE  MarketSpec => []OnePendingPerOffice
<1>1. SerialInv => OnePendingPerOffice
  <2> SUFFICES ASSUME SerialInv, NEW f \in Offices PROVE Cardinality(PendingOf(f)) <= 1
    BY DEF OnePendingPerOffice
  <2>1. CASE PendingOf(f) = {}
    BY <2>1, FS_EmptySet
  <2>2. CASE PendingOf(f) # {}
    <3>1. PICK o : o \in PendingOf(f)
      BY <2>2
    <3>2. PendingOf(f) = {o}
      BY <3>1 DEF SerialInv, OneOpen, PendingOf
    <3>3. Cardinality(PendingOf(f)) = 1
      BY <3>2, FS_Singleton
    <3>4. QED
      BY <3>3
  <2>3. QED
    BY <2>1, <2>2
<1>2. QED
  BY <1>1, SerialInvHolds, PTL

\* With requests one at a time, at most one offer is accepted, and it is the selected one
\* of a booking that has left the negotiation.
THEOREM AcceptedOfferIsSelected ==
  ASSUME NEW h, Handlers = {h}
  PROVE  MarketSpec => []AcceptedIsSelected
<1>1. SerialInv => AcceptedIsSelected
  BY DEF SerialInv, AcceptedInv
<1>2. QED
  BY <1>1, SerialInvHolds, PTL

\* With requests one at a time, an offer that was accepted, rejected or replaced is never
\* written again.
THEOREM DecisionsAreFinal ==
  ASSUME NEW h, Handlers = {h}
  PROVE  MarketSpec => DecisionsFinal
<1>1. SerialInv /\ [MarketNext]_marketVars =>
        [\A o \in Offers :
           offer[o].status \in {"ACCEPTED", "REJECTED", "REPLACED"} => offer'[o] = offer[o]]_marketVars
  <2> SUFFICES ASSUME SerialInv, MarketNext PROVE DecisionsKept
    BY DEF DecisionsKept, Settled
  <2>1. CASE CreateBooking
    BY <2>1, CreateBookingKeeps
  <2>2. CASE MarketStep(h)
    BY <2>2, StepIsOperation, OperationKeepsDecisions DEF SerialInv
  <2>3. QED
    BY <2>1, <2>2 DEF MarketNext
<1>2. QED
  BY <1>1, SerialInvHolds, PTL DEF MarketSpec, DecisionsFinal

-----------------------------------------------------------------------------
(* What a payment request has read is still so *)

Shared == {"save_booking", "credit_office", "credit_admin"}

\* The copies of the booking and of the offer, which is accepted once it is saved.
Copied(p) ==
  /\ p.at \in {"save_offer", "split", "save_booking"} => Found /\ p.copy = booking
  /\ p.at = "save_offer" =>
       /\ offer[payment[p.payment].offer].status # "ACCEPTED"
       /\ p.draft = [offer[payment[p.payment].offer] EXCEPT !.status = "ACCEPTED"]
  /\ p.at \in Loaded \ {"save_offer"} =>
       offer[payment[p.payment].offer] = p.draft /\ p.draft.status = "ACCEPTED"

\* What is still to be credited stays within the price and the admin's target.
Bounded(p) ==
  /\ p.at \in {"save_booking", "credit_office"} /\ p.share.office > 0 =>
       credited[p.draft.office] + p.share.office <= p.draft.price
  /\ p.at \in Shared /\ p.share.admin > 0 =>
       \E s \in Settings : credited[Admin] + p.share.admin <= AdminTarget(p.draft.price, s)

\* The booking is ahead of the wallets by the credit that is about to be made.
Ledger(p) ==
  failures = 0 => booking.paid = SumOf(credited, Offices)
                                   + (IF p.at = "credit_office" THEN p.share.office ELSE 0)

\* One request at a time: on the booking, or about a payment.
OneAtATime == \A g \in Handlers : task[g].at = "idle" \/ proc[g].at = "idle"

NothingBooked == booking.status = "NONE" => booking = NoBooking

Caps == OfficeCreditCap /\ AdminCreditCap

PayInv ==
  /\ AllCurrent /\ OneAtATime /\ NothingBooked /\ Caps
  /\ \A g \in Handlers : Copied(proc[g]) /\ Bounded(proc[g]) /\ Ledger(proc[g])

Facts == CheckoutInv /\ PayInv

AcceptedKept == \A o \in Offers : offer[o].status = "ACCEPTED" => offer'[o] = offer[o]

LEMMA FactsTypes ==
  ASSUME Facts
  PROVE  TypeOK /\ MarketTypeOK /\ OfferInv /\ Rows
  BY DEF Facts, CheckoutInv, Rows, TypeOK

LEMMA ProcAfter ==
  ASSUME TypeOK, NEW h, Handlers = {h}, NEW p, proc' = [proc EXCEPT ![h] = p]
  PROVE  proc'[h] = p
  BY DEF TypeOK

\* Wallets that are not credited stay within their caps: accepted offers stay as they are.
LEMMA CapsKept ==
  ASSUME Caps, AcceptedKept, credited' = credited
  PROVE  Caps'
<1>1. OfficeCreditCap'
  BY DEF Caps, OfficeCreditCap, AcceptedKept
<1>2. AdminCreditCap'
  BY DEF Caps, AdminCreditCap, AcceptedKept
<1>3. QED
  BY <1>1, <1>2 DEF Caps

\* A step of a payment request that writes no booking, no offer and no wallet.
LEMMA RestKeepsPayInv ==
  ASSUME Facts, NEW h, Handlers = {h}, UNCHANGED <<marketVars, credited>>,
         proc'[h].at \notin Loaded,
         proc'[h].at = "idle" \/ task[h].at = "idle",
         (failures' = failures /\ proc[h].at # "credit_office") \/ failures' # 0
  PROVE  PayInv'
<1>1. AllCurrent'
  BY DEF Facts, PayInv, AllCurrent, Current, Found, PendingOf, OtherPending, marketVars
<1>2. OneAtATime' /\ NothingBooked'
  BY DEF Facts, PayInv, OneAtATime, NothingBooked, marketVars
<1>3. Caps'
  BY CapsKept DEF Facts, PayInv, AcceptedKept, marketVars
<1>4. Copied(proc[h])' /\ Bounded(proc[h])'
  BY DEF Copied, Bounded, Loaded, Shared
<1>5. Ledger(proc[h])'
  <2>1. proc'[h].at # "credit_office"
    BY DEF Loaded
  <2>2. Ledger(proc[h])
    BY DEF Facts, PayInv
  <2>3. QED
    BY <2>1, <2>2 DEF Ledger, marketVars
<1>6. QED
  BY <1>1, <1>2, <1>3, <1>4, <1>5 DEF PayInv

LEMMA BeginKeepsPayInv ==
  ASSUME Facts, NEW h, Handlers = {h}, Begin(h) PROVE PayInv'
<1>0. TypeOK /\ Free(h)
  BY FactsTypes DEF Begin, InitiatePartial, InitiateFull, Webhook, Redirect, Notified, UpsertPaymentSettings
<1>1. ASSUME NEW i \in Payments, NEW row, Initiate(h, i, row) PROVE PayInv'
  <2> DEFINE p == [NoProc EXCEPT !.at = "charge", !.payment = i]
  <2>1. proc' = [proc EXCEPT ![h] = p]
    BY <1>1 DEF Initiate
  <2>2. p.at = "charge"
    BY DEF NoProc
  <2> HIDE DEF p
  <2>3. proc'[h] = p
    BY <1>0, <2>1, ProcAfter
  <2>4. QED
    BY <1>0, <1>1, <2>2, <2>3, RestKeepsPayInv DEF Initiate, Free, Loaded
<1>2. ASSUME NEW i \in Payments, NEW effects, Notified(h, i, effects) PROVE PayInv'
  <2> DEFINE p == [NoProc EXCEPT !.at = "verify", !.payment = i, !.effects = effects]
  <2>1. proc' = [proc EXCEPT ![h] = p]
    BY <1>2 DEF Notified
  <2>2. p.at = "verify"
    BY DEF NoProc
  <2> HIDE DEF p
  <2>3. proc'[h] = p
    BY <1>0, <2>1, ProcAfter
  <2>4. QED
    BY <1>0, <1>2, <2>2, <2>3, RestKeepsPayInv DEF Notified, Free, Loaded
<1>3. CASE UpsertPaymentSettings(h)
  BY <1>0, <1>3, RestKeepsPayInv DEF UpsertPaymentSettings, Free, Loaded
<1>4. QED
  BY <1>1, <1>2, <1>3 DEF Begin, InitiatePartial, InitiateFull, Webhook, Redirect

LEMMA EndKeepsPayInv ==
  ASSUME Facts, NEW h, Handlers = {h}, proc' = [proc EXCEPT ![h] = NoProc],
         UNCHANGED <<marketVars, credited>>,
         (failures' = failures /\ proc[h].at # "credit_office") \/ failures' # 0
  PROVE  PayInv'
  BY ProcAfter, NothingIsProc, FactsTypes, RestKeepsPayInv DEF Loaded

LEMMA ChargeKeepsPayInv ==
  ASSUME Facts, NEW h, Handlers = {h},
         CreateCharge(h) \/ ChargeFails(h) \/ Verify(h) \/ SaveStatus(h) \/ Interrupt(h)
  PROVE  PayInv'
<1>0. TypeOK /\ proc[h] \in Proc /\ proc[h].at # "idle"
  BY FactsTypes, ProcFields DEF CreateCharge, ChargeFails, Verify, SaveStatus, Interrupt
<1>1. task[h].at = "idle"
  BY <1>0 DEF Facts, PayInv, OneAtATime
<1>2. CASE proc' = [proc EXCEPT ![h] = NoProc]
  <2>1. failures \in Nat
    BY <1>0 DEF TypeOK
  <2>2. CASE Interrupt(h)
    <3>1. failures' # 0
      BY <2>1, <2>2 DEF Interrupt
    <3>2. UNCHANGED <<marketVars, credited>>
      BY <2>2 DEF Interrupt
    <3>3. QED
      BY <1>2, <3>1, <3>2, EndKeepsPayInv
  <2>3. CASE ~ Interrupt(h)
    <3>1. failures' = failures /\ proc[h].at # "credit_office" /\ UNCHANGED <<marketVars, credited>>
      BY <2>3 DEF CreateCharge, ChargeFails, Verify, SaveStatus
    <3>2. QED
      BY <1>2, <3>1, EndKeepsPayInv
  <2>4. QED
    BY <2>2, <2>3
<1>3. ASSUME NEW v, Verify(h), proc' = [proc EXCEPT ![h].at = "save_status", ![h].verdict = v]
      PROVE  PayInv'
  <2> DEFINE p == [proc[h] EXCEPT !.at = "save_status", !.verdict = v]
  <2>1. proc' = [proc EXCEPT ![h] = p]
    BY <1>0, <1>3 DEF TypeOK
  <2>2. p.at = "save_status"
    BY <1>0 DEF Proc
  <2> HIDE DEF p
  <2>3. proc'[h] = p
    BY <1>0, <2>1, ProcAfter
  <2>4. QED
    BY <1>1, <1>3, <2>2, <2>3, RestKeepsPayInv DEF Verify, Loaded
<1>4. CASE SaveStatus(h) /\ proc' = [proc EXCEPT ![h] = [proc[h] EXCEPT !.at = "load"]]
  <2> DEFINE p == [proc[h] EXCEPT !.at = "load"]
  <2>1. p.at = "load"
    BY <1>0 DEF Proc
  <2>2. proc' = [proc EXCEPT ![h] = p]
    BY <1>4
  <2> HIDE DEF p
  <2>3. proc'[h] = p
    BY <1>0, <2>2, ProcAfter
  <2>4. QED
    BY <1>1, <1>4, <2>1, <2>3, RestKeepsPayInv DEF SaveStatus, Loaded
<1>5. QED
  BY <1>2, <1>3, <1>4 DEF CreateCharge, ChargeFails, Verify, SaveStatus, Interrupt

\* While a payment request runs, no other has read anything.
LEMMA NoTask ==
  ASSUME Facts, NEW h, Handlers = {h}, proc[h].at # "idle", task' = task
  PROVE  AllCurrent' /\ OneAtATime'
<1>1. task[h].at = "idle"
  BY DEF Facts, PayInv, OneAtATime
<1>2. QED
  BY <1>1 DEF AllCurrent, Current, Making, Accepting, Deciding, OneAtATime

LEMMA LoadKeepsPayInv ==
  ASSUME Facts, NEW h, Handlers = {h}, Load(h) PROVE PayInv'
<1>0. TypeOK /\ proc[h] \in Proc /\ proc[h].at = "load"
  BY FactsTypes, ProcFields DEF Load
<1>1. CASE ~ Found
  BY <1>0, <1>1, EndKeepsPayInv DEF Load
<1>2. CASE Found
  <2> DEFINE o == OfferOf(h)
             at == IF offer[o].status = "ACCEPTED" THEN "split" ELSE "save_offer"
             p == [proc[h] EXCEPT !.at = at, !.draft = [offer[o] EXCEPT !.status = "ACCEPTED"],
                                  !.copy = booking]
  <2>1. proc' = [proc EXCEPT ![h] = p] /\ UNCHANGED <<marketVars, settings, payment, charge, credited, failures>>
    BY <1>0, <1>2 DEF Load
  <2>2. /\ p.at = at /\ p.copy = booking /\ p.payment = proc[h].payment
        /\ p.draft = [offer[o] EXCEPT !.status = "ACCEPTED"]
    BY <1>0 DEF Proc
  <2>3. proc[h].payment \in Payments /\ o \in Offers /\ offer[o] \in Offer
    <3>1. proc[h].payment \in Payments /\ payment[proc[h].payment].type # "NONE"
      BY <1>0 DEF Facts, CheckoutInv, Rows, ProcInv, Held
    <3>2. o \in Offers
      BY <3>1 DEF Facts, CheckoutInv, Rows, PaymentInv, OfferOf
    <3>3. QED
      BY <1>0, <3>1, <3>2 DEF TypeOK, MarketTypeOK
  <2>4. /\ [offer[o] EXCEPT !.status = "ACCEPTED"].status = "ACCEPTED"
        /\ offer[o].status = "ACCEPTED" => [offer[o] EXCEPT !.status = "ACCEPTED"] = offer[o]
    BY <2>3 DEF Offer
  <2>5. p.at \in {"split", "save_offer"}
    BY <2>2
  <2>6. o = payment[p.payment].offer
    BY <2>2 DEF OfferOf
  <2>7. p.at = "save_offer" <=> offer[o].status # "ACCEPTED"
    BY <2>2
  <2> HIDE DEF p, at, o
  <2>8. proc'[h] = p
    BY <1>0, <2>1, ProcAfter
  <2>9. Copied(p)
    BY <1>2, <2>2, <2>4, <2>5, <2>6, <2>7 DEF Copied, Loaded
  <2>10. Copied(proc[h])'
    BY <2>1, <2>8, <2>9 DEF Copied, marketVars, Found
  <2>11. Bounded(proc[h])'
    BY <2>5, <2>8 DEF Bounded, Shared
  <2>12. Ledger(proc[h])'
    <3>1. Ledger(proc[h])
      BY DEF Facts, PayInv
    <3>2. QED
      BY <1>0, <2>1, <2>5, <2>8, <3>1 DEF Ledger, marketVars
  <2>13. NothingBooked' /\ Caps'
    <3>1. NothingBooked /\ Caps
      BY DEF Facts, PayInv
    <3>2. AcceptedKept
      BY <2>1 DEF AcceptedKept, marketVars
    <3>3. QED
      BY <2>1, <3>1, <3>2, CapsKept DEF NothingBooked, marketVars
  <2>14. AllCurrent' /\ OneAtATime'
    BY <1>0, <2>1, NoTask DEF marketVars
  <2>15. QED
    BY <2>10, <2>11, <2>12, <2>13, <2>14 DEF PayInv
<1>3. QED
  BY <1>1, <1>2

LEMMA SaveOfferKeepsPayInv ==
  ASSUME Facts, NEW h, Handlers = {h}, SaveOffer(h) PROVE PayInv'
<1> DEFINE o == OfferOf(h)
           p == [proc[h] EXCEPT !.at = "split"]
<1>0. /\ TypeOK /\ Rows /\ proc[h] \in Proc /\ proc[h].at = "save_offer"
      /\ offer \in [Offers -> Offer] /\ o \in Offers
  <2>1. TypeOK /\ Rows /\ proc[h] \in Proc /\ proc[h].at = "save_offer"
    BY FactsTypes, ProcFields DEF SaveOffer
  <2>2. o \in Offers
    BY <2>1, LoadedOffice DEF Loaded
  <2>3. QED
    BY <2>1, <2>2 DEF TypeOK, MarketTypeOK
<1>1. /\ proc' = [proc EXCEPT ![h] = p]
      /\ offer' = [offer EXCEPT ![o] = proc[h].draft]
      /\ UNCHANGED <<booking, task, settings, payment, charge, credited, failures>>
  BY <1>0 DEF SaveOffer, TypeOK
<1>2. /\ p.at = "split" /\ p.copy = proc[h].copy /\ p.payment = proc[h].payment
      /\ p.draft = proc[h].draft
  BY <1>0 DEF Proc
<1>3. /\ Found /\ proc[h].copy = booking /\ offer[o].status # "ACCEPTED"
      /\ proc[h].draft = [offer[o] EXCEPT !.status = "ACCEPTED"]
      /\ Ledger(proc[h])
  BY <1>0 DEF Facts, PayInv, Copied, OfferOf
<1>4. proc[h].draft.status = "ACCEPTED" /\ offer'[o] = proc[h].draft
  BY <1>0, <1>1, <1>3 DEF Offer
<1>5. o = payment[p.payment].offer
  BY <1>2 DEF OfferOf
<1>6. AcceptedKept
  BY <1>0, <1>1, <1>3 DEF AcceptedKept
<1> HIDE DEF p, o
<1>7. proc'[h] = p
  BY <1>0, <1>1, ProcAfter
<1>8. Copied(proc[h])'
  BY <1>1, <1>2, <1>3, <1>4, <1>5, <1>7, ZenonT(30) DEF Copied, Loaded, Found
<1>9. Bounded(proc[h])'
  BY <1>2, <1>7 DEF Bounded, Shared
<1>10. Ledger(proc[h])'
  BY <1>0, <1>1, <1>2, <1>3, <1>7 DEF Ledger
<1>11. NothingBooked' /\ Caps'
  BY <1>1, <1>6, CapsKept DEF NothingBooked, Facts, PayInv
<1>12. QED
  BY <1>0, <1>1, <1>8, <1>9, <1>10, <1>11, NoTask DEF PayInv

\* The split asks for no more than is left of the price and of the admin's target.
LEMMA SplitKeepsPayInv ==
  ASSUME Facts, NEW h, Handlers = {h}, SplitPayment(h) PROVE PayInv'
<1> DEFINE draft == proc[h].draft
           share == Split(payment[proc[h].payment].amount, draft.price, settings,
                          credited[draft.office], credited[Admin])
           p == [proc[h] EXCEPT !.at = "save_booking", !.share = share]
<1>0. /\ TypeOK /\ Rows /\ proc[h] \in Proc /\ proc[h].at = "split"
      /\ draft.price \in Nat /\ draft.office \in Offices /\ settings \in Rates
      /\ proc[h].payment \in Payments
  <2>1. TypeOK /\ Rows /\ proc[h] \in Proc /\ proc[h].at = "split"
    BY FactsTypes, ProcFields DEF SplitPayment
  <2>2. draft.price \in Nat
    BY <2>1, PriceIsNat, ProcFields
  <2>3. QED
    BY <2>1, <2>2, LoadedOffice, SettingsArePercentages DEF Loaded, TypeOK, Rates
<1>1. /\ proc' = [proc EXCEPT ![h] = p]
      /\ UNCHANGED <<marketVars, settings, payment, charge, credited, failures>>
  BY <1>0 DEF SplitPayment, TypeOK
<1>2. /\ p.at = "save_booking" /\ p.copy = proc[h].copy /\ p.payment = proc[h].payment
      /\ p.draft = proc[h].draft /\ p.share = share
  BY <1>0 DEF Proc
<1>3. /\ credited[draft.office] + share.office <= draft.price \/ share.office = 0
      /\ credited[Admin] + share.admin <= AdminTarget(draft.price, settings) \/ share.admin = 0
  <2> DEFINE amount == payment[proc[h].payment].amount
             price == draft.price
             toOffice == credited[draft.office]
             toAdmin == credited[Admin]
  <2>1. /\ amount \in Int /\ price \in Nat /\ settings \in Rates
        /\ toOffice \in Nat /\ toAdmin \in Nat
    BY <1>0 DEF TypeOK, Payment, Owners
  <2>2. share = Split(amount, price, settings, toOffice, toAdmin)
    OBVIOUS
  <2> HIDE DEF amount, price, toOffice, toAdmin, share
  <2>3. /\ toOffice + share.office <= price \/ share.office = 0
        /\ toAdmin + share.admin <= AdminTarget(price, settings) \/ share.admin = 0
    BY <2>1, <2>2, SplitWithinBounds, ZenonT(30)
  <2>4. QED
    BY <2>3 DEF price, toOffice, toAdmin
<1>4. Copied(proc[h]) /\ Ledger(proc[h]) /\ settings \in Settings
  BY <1>0 DEF Facts, PayInv, TypeOK
<1> HIDE DEF p, share, draft
<1>5. proc'[h] = p
  BY <1>0, <1>1, ProcAfter
<1>6. Copied(proc[h])'
  BY <1>0, <1>1, <1>2, <1>4, <1>5 DEF Copied, Loaded, Found, marketVars
<1>7. Bounded(p)
  BY <1>2, <1>3, <1>4 DEF Bounded, Shared, draft
<1>8. Bounded(proc[h])'
  BY <1>1, <1>5, <1>7 DEF Bounded
<1>9. Ledger(proc[h])'
  BY <1>0, <1>1, <1>2, <1>4, <1>5 DEF Ledger, marketVars
<1>10. NothingBooked' /\ Caps'
  <2>1. AcceptedKept
    BY <1>1 DEF AcceptedKept, marketVars
  <2>2. QED
    BY <1>1, <2>1, CapsKept DEF NothingBooked, Facts, PayInv, marketVars
<1>11. AllCurrent' /\ OneAtATime'
  BY <1>0, <1>1, NoTask DEF marketVars
<1>12. QED
  BY <1>6, <1>8, <1>9, <1>10, <1>11 DEF PayInv

LEMMA SaveBookingKeepsPayInv ==
  ASSUME Facts, NEW h, Handlers = {h}, SaveBooking(h) PROVE PayInv'
<1> DEFINE share == proc[h].share
           type == payment[proc[h].payment].type
           at == ToCredit(share)
           p == [proc[h] EXCEPT !.at = at]
<1>0. /\ TypeOK /\ Rows /\ proc[h] \in Proc /\ proc[h].at = "save_booking"
      /\ share.office \in Nat /\ share.admin \in Nat /\ booking \in Booking
  BY FactsTypes, ProcFields DEF SaveBooking, MarketTypeOK
<1>1. Copied(proc[h]) /\ Bounded(proc[h]) /\ Ledger(proc[h]) /\ NothingBooked
  BY DEF Facts, PayInv
<1>2. Found /\ proc[h].copy = booking
  BY <1>0, <1>1 DEF Copied
<1>3. /\ booking' = [booking EXCEPT !.selected = OfferOf(h), !.paid = @ + share.office,
                                    !.status = AfterPayment(type, @)]
      /\ proc' = [proc EXCEPT ![h] = IF at = "idle" THEN NoProc ELSE p]
      /\ UNCHANGED <<offer, task, settings, payment, charge, credited, failures>>
  BY <1>0, <1>2 DEF SaveBooking, TypeOK
<1>4. booking'.paid = booking.paid + share.office /\ booking'.status = AfterPayment(type, booking.status)
  BY <1>0, <1>3 DEF Booking
<1>5. booking'.status # "NONE"
  BY <1>2, <1>4 DEF Found, AfterPayment
<1>6. NothingBooked' /\ Caps'
  <2>1. AcceptedKept
    BY <1>3 DEF AcceptedKept
  <2>2. QED
    BY <1>3, <1>5, <2>1, CapsKept DEF NothingBooked, Facts, PayInv
<1>7. AllCurrent' /\ OneAtATime'
  BY <1>0, <1>3, NoTask
<1>8. at \in {"credit_office", "credit_admin", "idle"} /\ (at = "credit_office" <=> share.office > 0)
  BY DEF ToCredit
<1>9. booking.paid \in Int
  BY <1>0 DEF Booking
<1>10. failures = 0 => booking.paid = SumOf(credited, Offices)
  <2>1. failures = 0 => booking.paid = SumOf(credited, Offices) + 0
    BY <1>0, <1>1 DEF Ledger
  <2>2. SumOf(credited, Offices) \in Int
    BY <1>0, OfficesFinite, SumOfInt DEF TypeOK, Owners
  <2>3. QED
    BY <2>1, <2>2
<1>11. CASE at = "idle"
  <2>1. proc'[h] = NoProc
    BY <1>0, <1>3, <1>11, ProcAfter
  <2>2. Copied(proc[h])' /\ Bounded(proc[h])'
    BY <2>1, NothingIsProc DEF Copied, Bounded, Loaded, Shared
  <2>3. Ledger(proc[h])'
    <3>1. share.office = 0
      BY <1>0, <1>8, <1>11
    <3>2. QED
      BY <1>3, <1>4, <1>9, <1>10, <2>1, <3>1, NothingIsProc DEF Ledger
  <2>4. QED
    BY <1>6, <1>7, <2>2, <2>3 DEF PayInv
<1>12. CASE at # "idle"
  <2>1. /\ p.at = at /\ p.payment = proc[h].payment /\ p.draft = proc[h].draft
        /\ p.share = proc[h].share
    BY <1>0 DEF Proc
  <2> HIDE DEF p, at, type
  <2>2. proc'[h] = p
    BY <1>0, <1>3, <1>12, ProcAfter
  <2>3. Copied(proc[h])'
    BY <1>0, <1>1, <1>3, <1>8, <1>12, <2>1, <2>2 DEF Copied, Loaded
  <2>4. Bounded(p)
    BY <1>0, <1>1, <1>8, <1>12, <2>1 DEF Bounded, Shared
  <2>5. Bounded(proc[h])'
    BY <1>3, <2>2, <2>4 DEF Bounded
  <2>6. Ledger(proc[h])'
    <3>1. (IF p.at = "credit_office" THEN p.share.office ELSE 0) = share.office
      BY <1>0, <1>8, <2>1
    <3>2. QED
      BY <1>3, <1>4, <1>10, <2>2, <3>1 DEF Ledger
  <2>7. QED
    BY <1>6, <1>7, <2>3, <2>5, <2>6 DEF PayInv
<1>13. QED
  BY <1>11, <1>12

\* A credit of one office adds to the sum of the offices what it adds to that office.
LEMMA CreditAddsUp ==
  ASSUME TypeOK, NEW f \in Offices, NEW n \in Nat, credited' = [credited EXCEPT ![f] = @ + n]
  PROVE  SumOf(credited', Offices) = SumOf(credited, Offices) + n
<1>0. /\ IsFiniteSet(Offices) /\ IsFiniteSet(Offices \ {f})
      /\ credited \in [Owners -> Nat] /\ Offices \subseteq Owners
  BY OfficesFinite, FS_Subset DEF TypeOK, Owners
<1>1. /\ credited'[f] = credited[f] + n
      /\ \A g \in Offices \ {f} : credited'[g] = credited[g]
      /\ \A g \in Offices : credited[g] \in Int /\ credited'[g] \in Int
  BY <1>0
<1>2. SumOf(credited, Offices) = credited[f] + SumOf(credited, Offices \ {f})
  BY <1>0, <1>1, SumOfTake
<1>3. SumOf(credited', Offices) = credited'[f] + SumOf(credited', Offices \ {f})
  <2> DEFINE after == credited'
  <2>1. \A g \in Offices : after[g] \in Int
    BY <1>1
  <2> HIDE DEF after
  <2>2. SumOf(after, Offices) = after[f] + SumOf(after, Offices \ {f})
    BY <1>0, <2>1, SumOfTake
  <2>3. QED
    BY <2>2 DEF after
<1>4. SumOf(credited', Offices \ {f}) = SumOf(credited, Offices \ {f})
  BY <1>0, <1>1, SumOfSame
<1>5. SumOf(credited, Offices \ {f}) \in Int
  BY <1>0, <1>1, SumOfInt
<1>6. QED
  BY <1>1, <1>2, <1>3, <1>4, <1>5

LEMMA CreditOfficeKeepsPayInv ==
  ASSUME Facts, NEW h, Handlers = {h}, CreditOffice(h) PROVE PayInv'
<1> DEFINE share == proc[h].share
           f == proc[h].draft.office
           o == OfferOf(h)
           p == [proc[h] EXCEPT !.at = "credit_admin"]
<1>0. /\ TypeOK /\ Rows /\ proc[h] \in Proc /\ proc[h].at = "credit_office"
      /\ share.office \in Nat /\ share.admin \in Nat
      /\ f \in Offices /\ o \in Offers /\ booking.paid \in Int
  <2>1. TypeOK /\ Rows /\ proc[h] \in Proc /\ proc[h].at = "credit_office"
    BY FactsTypes, ProcFields DEF CreditOffice
  <2>2. f \in Offices /\ o \in Offers
    BY <2>1, LoadedOffice DEF Loaded
  <2>3. QED
    BY <2>1, <2>2, ProcFields DEF TypeOK, MarketTypeOK, Booking
<1>1. /\ Copied(proc[h]) /\ Bounded(proc[h]) /\ Ledger(proc[h])
      /\ OfficeCreditCap /\ AdminCreditCap
  BY DEF Facts, PayInv, Caps
<1>2. /\ credited' = [credited EXCEPT ![f] = @ + share.office]
      /\ proc' = [proc EXCEPT ![h] = IF share.admin > 0 THEN p ELSE NoProc]
      /\ UNCHANGED <<marketVars, settings, payment, charge, failures>>
  BY <1>0 DEF CreditOffice, TypeOK
<1>3. offer[o] = proc[h].draft /\ proc[h].draft.status = "ACCEPTED"
  BY <1>0, <1>1 DEF Copied, Loaded, OfferOf
<1>4. /\ f \in Owners /\ Admin \in Owners /\ f # Admin
      /\ credited \in [Owners -> Nat]
      /\ proc[h].draft.price \in Nat
  BY <1>0, AdminIsNoOffice, PriceIsNat, ProcFields DEF Owners, TypeOK
<1>5. /\ credited'[f] = credited[f] + share.office
      /\ \A w \in Owners \ {f} : credited'[w] = credited[w]
  BY <1>2, <1>4
<1>6. OfficeCreditCap'
  <2>1. SUFFICES ASSUME NEW g \in Offices, credited'[g] > 0
                 PROVE  \E q \in Offers : /\ offer[q].status = "ACCEPTED"
                                          /\ offer[q].office = g
                                          /\ credited'[g] <= offer[q].price
    BY <1>2 DEF OfficeCreditCap, marketVars
  <2>2. CASE g = f /\ share.office > 0
    <3>1. credited'[f] <= offer[o].price
      BY <1>0, <1>1, <1>3, <1>5, <2>2 DEF Bounded
    <3>2. QED
      BY <1>0, <1>3, <2>2, <3>1
  <2>3. CASE ~ (g = f /\ share.office > 0)
    <3>1. credited'[g] = credited[g]
      BY <1>0, <1>4, <1>5, <2>3 DEF Owners
    <3>2. QED
      BY <1>1, <2>1, <3>1 DEF OfficeCreditCap
  <2>4. QED
    BY <2>2, <2>3
<1>7. AdminCreditCap'
  BY <1>1, <1>2, <1>4, <1>5 DEF AdminCreditCap, marketVars
<1>8. failures = 0 => booking.paid = SumOf(credited', Offices)
  <2>1. failures = 0 => booking.paid = SumOf(credited, Offices) + share.office
    BY <1>0, <1>1 DEF Ledger
  <2>2. QED
    BY <1>0, <1>2, <2>1, CreditAddsUp
<1>9. SumOf(credited', Offices) \in Int
  <2>1. SumOf(credited, Offices) \in Int
    BY <1>4, OfficesFinite, SumOfInt DEF Owners
  <2>2. SumOf(credited', Offices) = SumOf(credited, Offices) + share.office
    BY <1>0, <1>2, CreditAddsUp
  <2>3. QED
    BY <1>0, <2>1, <2>2
<1>10. NothingBooked' /\ AllCurrent' /\ OneAtATime'
  BY <1>0, <1>2, NoTask DEF NothingBooked, Facts, PayInv, marketVars
<1>11. CASE share.admin > 0
  <2>1. /\ p.at = "credit_admin" /\ p.payment = proc[h].payment /\ p.draft = proc[h].draft
        /\ p.share = proc[h].share
    BY <1>0 DEF Proc
  <2> HIDE DEF p, o, f
  <2>2. proc'[h] = p
    BY <1>0, <1>2, <1>11, ProcAfter
  <2>3. Copied(proc[h])'
    BY <1>2, <1>3, <2>1, <2>2 DEF Copied, Loaded, o, OfferOf, marketVars
  <2>4. Bounded(proc[h])'
    <3>1. \E s \in Settings : credited[Admin] + share.admin <= AdminTarget(proc[h].draft.price, s)
      BY <1>0, <1>1, <1>11 DEF Bounded, Shared
    <3>2. QED
      BY <1>4, <1>5, <2>1, <2>2, <3>1 DEF Bounded, Shared
  <2>5. Ledger(proc[h])'
    BY <1>2, <1>8, <1>9, <2>1, <2>2 DEF Ledger, marketVars
  <2>6. QED
    BY <1>6, <1>7, <1>10, <2>3, <2>4, <2>5 DEF PayInv, Caps
<1>12. CASE ~ share.admin > 0
  <2>1. proc'[h] = NoProc
    BY <1>0, <1>2, <1>12, ProcAfter
  <2>2. Copied(proc[h])' /\ Bounded(proc[h])'
    BY <2>1, NothingIsProc DEF Copied, Bounded, Loaded, Shared
  <2>3. Ledger(proc[h])'
    BY <1>2, <1>8, <1>9, <2>1, NothingIsProc DEF Ledger, marketVars
  <2>4. QED
    BY <1>6, <1>7, <1>10, <2>2, <2>3 DEF PayInv, Caps
<1>13. QED
  BY <1>11, <1>12

LEMMA CreditAdminKeepsPayInv ==
  ASSUME Facts, NEW h, Handlers = {h}, CreditAdmin(h) PROVE PayInv'
<1> DEFINE share == proc[h].share
           o == OfferOf(h)
<1>0. /\ TypeOK /\ Rows /\ proc[h] \in Proc /\ proc[h].at = "credit_admin"
      /\ share.admin \in Nat /\ o \in Offers /\ booking.paid \in Int
  <2>1. TypeOK /\ Rows /\ proc[h] \in Proc /\ proc[h].at = "credit_admin"
    BY FactsTypes, ProcFields DEF CreditAdmin
  <2>2. o \in Offers
    BY <2>1, LoadedOffice DEF Loaded
  <2>3. QED
    BY <2>1, <2>2, ProcFields DEF TypeOK, MarketTypeOK, Booking
<1>1. /\ Copied(proc[h]) /\ Bounded(proc[h]) /\ Ledger(proc[h])
      /\ OfficeCreditCap /\ AdminCreditCap
  BY DEF Facts, PayInv, Caps
<1>2. /\ credited' = [credited EXCEPT ![Admin] = @ + share.admin]
      /\ proc' = [proc EXCEPT ![h] = NoProc]
      /\ UNCHANGED <<marketVars, settings, payment, charge, failures>>
  BY DEF CreditAdmin
<1>3. offer[o] = proc[h].draft /\ proc[h].draft.status = "ACCEPTED"
  BY <1>0, <1>1 DEF Copied, Loaded, OfferOf
<1>4. /\ Admin \in Owners /\ Offices \subseteq Owners \ {Admin} /\ credited \in [Owners -> Nat]
  BY <1>0, AdminIsNoOffice DEF Owners, TypeOK
<1>5. /\ credited'[Admin] = credited[Admin] + share.admin
      /\ \A f \in Offices : credited'[f] = credited[f]
  BY <1>2, <1>4
<1>6. OfficeCreditCap'
  BY <1>1, <1>2, <1>5 DEF OfficeCreditCap, marketVars
<1>7. AdminCreditCap'
  <2>1. CASE share.admin > 0
    <3>1. PICK s \in Settings : credited[Admin] + share.admin <= AdminTarget(offer[o].price, s)
      BY <1>0, <1>1, <1>3, <2>1 DEF Bounded, Shared
    <3>2. QED
      BY <1>0, <1>2, <1>3, <1>5, <3>1 DEF AdminCreditCap, marketVars
  <2>2. CASE share.admin = 0
    <3>1. credited'[Admin] = credited[Admin]
      BY <1>4, <1>5, <2>2
    <3>2. QED
      BY <1>1, <1>2, <3>1 DEF AdminCreditCap, marketVars
  <2>3. QED
    BY <1>0, <2>1, <2>2
<1>8. SumOf(credited', Offices) = SumOf(credited, Offices)
  BY <1>5, OfficesFinite, SumOfSame
<1>9. NothingBooked' /\ AllCurrent' /\ OneAtATime'
  BY <1>0, <1>2, NoTask DEF NothingBooked, Facts, PayInv, marketVars
<1>10. proc'[h] = NoProc
  BY <1>0, <1>2, ProcAfter
<1>11. Copied(proc[h])' /\ Bounded(proc[h])'
  BY <1>10, NothingIsProc DEF Copied, Bounded, Loaded, Shared
<1>12. Ledger(proc[h])'
  BY <1>0, <1>1, <1>2, <1>8, <1>10, NothingIsProc DEF Ledger, marketVars
<1>13. QED
  BY <1>6, <1>7, <1>9, <1>11, <1>12 DEF PayInv, Caps

-----------------------------------------------------------------------------
(* The booking moves forward *)

\* A step of MovesForward.
Forward ==
  booking.status # "NONE" =>
    /\ booking'.status \in Later[booking.status] \union {booking.status}
    /\ booking.deleted => booking' = booking

LEMMA LaterStatuses ==
  /\ \A s \in BookingStatuses :
       /\ CanChangeStatus(s, "CANCELLED") => "CANCELLED" \in Later[s]
       /\ s \in Negotiation => "OFFER_ACCEPTED" \in Later[s]
  /\ "UNDER_NEGOTIATION" \in Later["WAITING_FOR_OFFERS"]
  /\ \A s \in {"UNDER_NEGOTIATION", "OFFER_ACCEPTED"} : {"PARTIALLY_PAID", "COMPLETED"} \subseteq Later[s]
  /\ "COMPLETED" \in Later["PARTIALLY_PAID"]
  BY StatusesOfBooking DEF Later, Negotiation, CanChangeStatus, allowedTransitions

\* Operations on the booking leave what was paid alone.
LEMMA OperationOnBooking ==
  ASSUME MarketTypeOK, Nothing \/ Operation
  PROVE  /\ booking'.paid = booking.paid
         /\ booking.status = "NONE" => booking' = booking
         /\ Forward
<1>0. booking \in Booking /\ (booking.status # "NONE" => booking.status \in BookingStatuses)
  BY DEF MarketTypeOK, Booking
<1>1. CASE booking' = booking
  BY <1>1 DEF Forward
<1>2. CASE OfferMade
  <2>1. CASE booking.status = "WAITING_FOR_OFFERS"
    <3>1. booking' = [booking EXCEPT !.status = "UNDER_NEGOTIATION"] /\ ~ booking.deleted
      BY <1>2, <2>1 DEF OfferMade, Found
    <3>2. booking'.paid = booking.paid /\ booking'.status = "UNDER_NEGOTIATION"
      BY <1>0, <3>1 DEF Booking
    <3>3. QED
      BY <2>1, <3>1, <3>2, LaterStatuses DEF Forward
  <2>2. QED
    BY <1>1, <1>2, <2>1 DEF OfferMade
<1>3. CASE OfferAccepted
  <2>1. PICK o \in Offers : booking' = [booking EXCEPT !.status = "OFFER_ACCEPTED", !.selected = o]
    BY <1>3 DEF OfferAccepted
  <2>2. booking'.paid = booking.paid /\ booking'.status = "OFFER_ACCEPTED"
    BY <1>0, <2>1 DEF Booking
  <2>3. booking.status \in Negotiation /\ booking.status # "NONE" /\ ~ booking.deleted
    BY <1>3 DEF OfferAccepted, Found
  <2>4. QED
    BY <1>0, <2>2, <2>3, LaterStatuses DEF Forward
<1>4. CASE Cancelled
  <2>1. booking'.paid = booking.paid /\ booking'.status = "CANCELLED"
    BY <1>0, <1>4 DEF Cancelled, Booking
  <2>2. booking.status # "NONE" /\ ~ booking.deleted /\ CanChangeStatus(booking.status, "CANCELLED")
    BY <1>4 DEF Cancelled, Found
  <2>3. QED
    BY <1>0, <2>1, <2>2, LaterStatuses DEF Forward
<1>5. CASE Deleted
  <2>1. booking'.paid = booking.paid /\ booking'.status = booking.status
    BY <1>0, <1>5 DEF Deleted, Booking
  <2>2. booking.status # "NONE" /\ ~ booking.deleted
    BY <1>5 DEF Deleted, Found
  <2>3. QED
    BY <2>1, <2>2 DEF Forward
<1>6. QED
  BY <1>1, <1>2, <1>3, <1>4, <1>5 DEF Nothing, Operation, OfferEdited

LEMMA MarketKeepsPayInv ==
  ASSUME Facts, NEW h, Handlers = {h}, Market PROVE PayInv' /\ Forward
<1>0. /\ MarketTypeOK /\ OfferInv /\ AllCurrent /\ OneAtATime /\ NothingBooked /\ Caps
      /\ Copied(proc[h]) /\ Bounded(proc[h]) /\ Ledger(proc[h])
      /\ UNCHANGED <<settings, payment, charge, credited, proc, failures>>
  BY FactsTypes DEF Facts, PayInv, Market, payVars
<1>1. ASSUME AcceptedKept, booking'.paid = booking.paid, proc[h].at = "idle" \/ (~ Found /\ offer' = offer),
             NothingBooked', AllCurrent', OneAtATime'
      PROVE  PayInv'
  <2>1. Copied(proc[h])'
    BY <1>0, <1>1 DEF Copied, Loaded
  <2>2. Bounded(proc[h])'
    BY <1>0 DEF Bounded
  <2>3. Ledger(proc[h])'
    BY <1>0, <1>1 DEF Ledger
  <2>4. Caps'
    BY <1>0, <1>1, CapsKept
  <2>5. QED
    BY <1>1, <2>1, <2>2, <2>3, <2>4 DEF PayInv
<1>2. CASE CreateBooking
  <2>1. /\ booking = NoBooking /\ offer' = offer /\ task' = task /\ booking.status = "NONE"
        /\ booking' = [NoBooking EXCEPT !.status = "WAITING_FOR_OFFERS"]
    BY <1>0, <1>2 DEF CreateBooking, NothingBooked
  <2>2. booking'.paid = booking.paid /\ booking'.status # "NONE" /\ ~ Found
    BY <2>1 DEF NoBooking, Found
  <2>3. task[h].at = "idle"
    BY <1>0, <2>2 DEF AllCurrent, Current
  <2>4. AllCurrent' /\ OneAtATime'
    BY <2>1, <2>3 DEF AllCurrent, Current, Making, Accepting, Deciding, OneAtATime
  <2>5. AcceptedKept /\ NothingBooked' /\ Forward
    BY <2>1, <2>2 DEF AcceptedKept, NothingBooked, Forward
  <2>6. QED
    BY <1>1, <2>1, <2>2, <2>4, <2>5
<1>3. CASE proc[h].at = "idle" /\ MarketStep(h)
  <2>1. AllCurrent' /\ (Nothing \/ Operation)
    BY <1>0, <1>3, StepIsOperation
  <2>2. AcceptedKept
    BY <1>0, <2>1, OperationKeepsDecisions DEF AcceptedKept, DecisionsKept, Settled
  <2>3. booking'.paid = booking.paid /\ Forward /\ (booking.status = "NONE" => booking' = booking)
    BY <1>0, <2>1, OperationOnBooking
  <2>4. OneAtATime'
    BY <1>0, <1>3 DEF OneAtATime
  <2>5. NothingBooked'
    <3>1. CASE booking.status = "NONE"
      BY <1>0, <2>3, <3>1 DEF NothingBooked
    <3>2. CASE booking.status # "NONE"
      <4>1. booking'.status # "NONE"
        <5>1. booking'.status \in Later[booking.status] \union {booking.status}
          BY <2>3, <3>2 DEF Forward
        <5>2. booking.status \in BookingStatuses
          BY <1>0, <3>2 DEF MarketTypeOK, Booking
        <5>3. \A s \in BookingStatuses : Later[s] \subseteq BookingStatuses
          BY StatusesOfBooking DEF Later
        <5>4. "NONE" \notin BookingStatuses
          BY StatusesOfBooking
        <5>5. QED
          BY <5>1, <5>2, <5>3, <5>4
      <4>2. QED
        BY <4>1 DEF NothingBooked
    <3>3. QED
      BY <3>1, <3>2
  <2>6. QED
    BY <1>1, <1>3, <2>1, <2>2, <2>3, <2>4, <2>5
<1>4. QED
  BY <1>2, <1>3 DEF Market

LEMMA GatewayKeepsPayInv ==
  ASSUME Facts, NEW h, Handlers = {h}, Gateway PROVE PayInv'
<1>1. UNCHANGED <<booking, offer, task, settings, payment, credited, proc, failures>>
  BY DEF Gateway, Settle, marketVars
<1>2. QED
  BY <1>1
  DEF Facts, PayInv, AllCurrent, Current, Found, PendingOf, OtherPending, OneAtATime, NothingBooked,
      Caps, OfficeCreditCap, AdminCreditCap, Copied, Bounded, Ledger

LEMMA ContinueKeepsPayInv ==
  ASSUME Facts, NEW h, Handlers = {h}, Continue(h) \/ Interrupt(h) PROVE PayInv'
  BY ChargeKeepsPayInv, LoadKeepsPayInv, SaveOfferKeepsPayInv, SplitKeepsPayInv,
     SaveBookingKeepsPayInv, CreditOfficeKeepsPayInv, CreditAdminKeepsPayInv
  DEF Continue, SideEffect

LEMMA PayInvHolds ==
  ASSUME NEW h, Handlers = {h} PROVE Spec => []Facts
<1>1. Init => PayInv
  <2> SUFFICES ASSUME Init PROVE PayInv
    OBVIOUS
  <2>1. /\ booking = NoBooking /\ task[h] = Idle /\ proc[h] = NoProc
        /\ credited = [w \in Owners |-> 0]
    BY DEF Init, MarketInit
  <2>2. AllCurrent /\ OneAtATime /\ NothingBooked
    BY <2>1, IdleIsCurrent, NothingIsProc DEF AllCurrent, OneAtATime, NothingBooked
  <2>3. Caps
    BY <2>1 DEF Caps, OfficeCreditCap, AdminCreditCap, Owners
  <2>4. Copied(proc[h]) /\ Bounded(proc[h])
    BY <2>1, NothingIsProc DEF Copied, Bounded, Loaded, Shared
  <2>5. Ledger(proc[h])
    <3>1. \A f \in Offices : credited[f] = 0
      BY <2>1 DEF Owners
    <3>2. SumOf(credited, Offices) = 0
      BY <3>1, OfficesFinite, SumOfZero
    <3>3. QED
      BY <2>1, <3>2, NothingIsProc DEF Ledger, NoBooking
  <2>6. QED
    BY <2>2, <2>3, <2>4, <2>5 DEF PayInv
<1>2. Facts /\ CheckoutInv' /\ [Next]_vars => Facts'
  <2> SUFFICES ASSUME Facts, CheckoutInv', [Next]_vars PROVE PayInv'
    BY DEF Facts
  <2>1. CASE UNCHANGED vars
    BY <2>1
    DEF vars, Facts, PayInv, AllCurrent, Current, Found, PendingOf, OtherPending, OneAtATime,
        NothingBooked, Caps, OfficeCreditCap, AdminCreditCap, Copied, Bounded, Ledger
  <2>2. CASE Next
    BY <2>2, BeginKeepsPayInv, ContinueKeepsPayInv, GatewayKeepsPayInv, MarketKeepsPayInv DEF Next
  <2>3. QED
    BY <2>1, <2>2
<1>3. QED
  BY <1>1, <1>2, InvariantHolds, PTL DEF Spec, Facts

-----------------------------------------------------------------------------

\* With requests one at a time, however often a webhook comes and whatever fails: an office
\* is credited no more than the price of an accepted offer of its own.
THEOREM OfficesWithinPrice ==
  ASSUME NEW h, Handlers = {h} PROVE Spec => []OfficeCreditCap
<1>1. Facts => OfficeCreditCap
  BY DEF Facts, PayInv, Caps
<1>2. QED
  BY <1>1, PayInvHolds, PTL

\* With requests one at a time, however often a webhook comes and whatever fails: the admin
\* is credited no more than the commission and the tax of an accepted offer.
THEOREM AdminWithinTarget ==
  ASSUME NEW h, Handlers = {h} PROVE Spec => []AdminCreditCap
<1>1. Facts => AdminCreditCap
  BY DEF Facts, PayInv, Caps
<1>2. QED
  BY <1>1, PayInvHolds, PTL

\* With requests one at a time and none cut short, the paid amount of the booking is the
\* sum of what the offices were credited for it, however many there are.
THEOREM PaidIsCredited ==
  ASSUME NEW h, Handlers = {h} PROVE Spec => []PaidMatchesLedger
<1>1. Facts => PaidMatchesLedger
  <2> SUFFICES ASSUME Facts, Quiet, failures = 0 PROVE booking.paid = SumOf(credited, Offices)
    BY DEF PaidMatchesLedger
  <2>1. booking.paid = SumOf(credited, Offices) + 0
    BY DEF Facts, PayInv, Ledger, Quiet, Free
  <2>2. SumOf(credited, Offices) \in Int
    BY FactsTypes, OfficesFinite, SumOfInt DEF TypeOK, Owners
  <2>3. QED
    BY <2>1, <2>2
<1>2. QED
  BY <1>1, PayInvHolds, PTL

\* With requests one at a time, a booking only moves forward through its statuses, and one
\* that is deleted is never written again, by no request and by no late webhook.
THEOREM BookingMovesForward ==
  ASSUME NEW h, Handlers = {h} PROVE Spec => MovesForward
<1>1. ASSUME Facts, SaveBooking(h) PROVE Forward
  <2>1. /\ MarketTypeOK /\ proc[h].at = "save_booking" /\ Copied(proc[h])
        /\ proc[h].share.office \in Nat
    BY <1>1, FactsTypes, ProcFields DEF Facts, PayInv, SaveBooking
  <2>2. Found /\ proc[h].copy = booking /\ booking \in Booking
    BY <2>1 DEF Copied, MarketTypeOK
  <2>3. booking'.status = AfterPayment(payment[proc[h].payment].type, booking.status)
    BY <1>1, <2>2 DEF SaveBooking, Booking
  <2>4. QED
    BY <2>2, <2>3, LaterStatuses DEF AfterPayment, Found, Forward
<1>2. Facts /\ [Next]_vars => [Forward]_marketVars
  <2> SUFFICES ASSUME Facts, Next PROVE booking' = booking \/ Forward
    BY DEF vars, marketVars, Forward
  <2>1. CASE Market
    BY <2>1, MarketKeepsPayInv
  <2>2. CASE SaveBooking(h)
    BY <1>1, <2>2
  <2>3. CASE Begin(h)
    <3>1. booking' = booking
      BY <2>3
      DEF Begin, InitiatePartial, InitiateFull, Initiate, Webhook, Redirect, Notified,
          UpsertPaymentSettings, marketVars
    <3>2. QED
      BY <3>1
  <2>4. CASE (Continue(h) /\ ~ SaveBooking(h)) \/ Interrupt(h)
    <3>1. booking' = booking
      BY <2>4
      DEF Continue, CreateCharge, ChargeFails, Verify, SaveStatus, SideEffect, Load, SaveOffer,
          SplitPayment, CreditOffice, CreditAdmin, Interrupt, marketVars
    <3>2. QED
      BY <3>1
  <2>5. CASE Gateway
    BY <2>5 DEF Gateway, Settle, marketVars
  <2>6. QED
    BY <2>1, <2>2, <2>3, <2>4, <2>5 DEF Next
<1>3. QED
  BY <1>2, PayInvHolds, PTL DEF Spec, MovesForward, Forward
=============================================================================
