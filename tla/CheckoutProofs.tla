--------------------------- MODULE CheckoutProofs ---------------------------
(***************************************************************************)
(* What holds of a booking, its offers and its payments for any number of  *)
(* offers, offices, payments and overlapping requests, whatever is         *)
(* interrupted. The first half is about offers alone (MarketSpec).         *)
(***************************************************************************)
EXTENDS Checkout, TLAPS

-----------------------------------------------------------------------------
(* The type invariant *)

LEMMA StatusesOfBooking ==
  /\ BookingStatuses = {"DRAFT", "WAITING_FOR_OFFERS", "UNDER_NEGOTIATION", "OFFER_ACCEPTED",
                        "PARTIALLY_PAID", "CONFIRMED", "COMPLETED", "CANCELLED"}
  /\ CanChangeStatus("DRAFT", "WAITING_FOR_OFFERS")
  BY DEF BookingStatuses, allowedTransitions, CanChangeStatus

LEMMA EmptyRows == NoOffer \in Offer /\ NoBooking \in Booking /\ Idle \in Task
  BY StatusesOfBooking DEF NoOffer, Offer, NoBooking, Booking, Idle, Task, Points

LEMMA TaskFields ==
  ASSUME MarketTypeOK, NEW h \in Handlers
  PROVE  /\ task[h] \in Task
         /\ task[h].at \in Points
         /\ task[h].offer \in Offers \union {None}
         /\ task[h].draft \in Offer
         /\ task[h].copy \in Booking
         /\ task[h].others \in SUBSET Offers
  BY DEF MarketTypeOK, Task

LEMMA AtType ==
  ASSUME NEW t \in Task, NEW p \in Points PROVE [t EXCEPT !.at = p] \in Task
  BY DEF Task

LEMMA OthersType ==
  ASSUME NEW t \in Task, NEW p \in Points, NEW others \in SUBSET Offers
  PROVE  [t EXCEPT !.at = p, !.others = others] \in Task
  BY DEF Task

LEMMA StatusType ==
  ASSUME NEW b \in Booking, NEW s \in BookingStatuses PROVE [b EXCEPT !.status = s] \in Booking
  BY DEF Booking

LEMMA SavedType ==
  ASSUME MarketTypeOK, NEW b \in Booking PROVE Saved(b) \in Booking
  BY DEF MarketTypeOK, Saved, Booking

LEMMA OfferStatusType ==
  ASSUME NEW row \in Offer, NEW s \in OfferStatuses PROVE [row EXCEPT !.status = s] \in Offer
  BY DEF Offer

LEMMA UpdatedType ==
  ASSUME MarketTypeOK, NEW others, NEW s \in OfferStatuses
  PROVE  Updated(others, s) \in [Offers -> Offer]
<1>1. \A o \in Offers : offer[o] \in Offer /\ [offer[o] EXCEPT !.status = s] \in Offer
  BY OfferStatusType DEF MarketTypeOK
<1>2. QED
  BY <1>1 DEF Updated

LEMMA CreateKeepsType ==
  ASSUME MarketTypeOK, NEW h \in Handlers,
         \/ \E o \in Offers, f \in Offices, p \in Prices : CreateOfferRead(h, o, f, p)
         \/ CreateOfferReplace(h)
         \/ CreateOfferCommit(h)
  PROVE  MarketTypeOK'
<1>1. ASSUME NEW o \in Offers, NEW f \in Offices, NEW p \in Prices, CreateOfferRead(h, o, f, p)
      PROVE  MarketTypeOK'
  <2>1. [status |-> "PENDING", price |-> p, office |-> f] \in Offer
    BY DEF Offer, OfferStatuses
  <2>2. [at |-> "create_replace", offer |-> o, copy |-> booking, others |-> {},
         draft |-> [status |-> "PENDING", price |-> p, office |-> f]] \in Task
    BY <2>1 DEF Task, Points, MarketTypeOK
  <2>3. QED
    BY <1>1, <2>2 DEF CreateOfferRead, MarketTypeOK
<1>2. CASE CreateOfferReplace(h)
  <2> DEFINE t == [task[h] EXCEPT !.at = "create_commit",
                                  !.others = PendingOf(task[h].draft.office)]
  <2>1. t \in Task
    BY TaskFields, OthersType DEF PendingOf, Points
  <2>2. task' = [task EXCEPT ![h] = t]
    BY <1>2 DEF CreateOfferReplace, MarketTypeOK
  <2>3. QED
    BY <1>2, <2>1, <2>2 DEF CreateOfferReplace, MarketTypeOK
<1>3. CASE CreateOfferCommit(h)
  <2>1. offer' \in [Offers -> Offer]
    BY <1>3, UpdatedType, TaskFields DEF CreateOfferCommit, OfferStatuses
  <2>2. Saved([task[h].copy EXCEPT !.status = "UNDER_NEGOTIATION"]) \in Booking
    BY TaskFields, StatusType, SavedType, StatusesOfBooking
  <2>3. booking' \in Booking
    BY <1>3, <2>2 DEF CreateOfferCommit, MarketTypeOK
  <2>4. task' \in [Handlers -> Task]
    BY <1>3, EmptyRows DEF CreateOfferCommit, MarketTypeOK
  <2>5. QED
    BY <2>1, <2>3, <2>4 DEF MarketTypeOK
<1>4. QED
  BY <1>1, <1>2, <1>3

LEMMA UpdateKeepsType ==
  ASSUME MarketTypeOK, NEW h \in Handlers,
         (\E o \in Offers, p \in Prices : UpdateRead(h, o, p)) \/ UpdateSave(h)
  PROVE  MarketTypeOK'
<1>1. ASSUME NEW o \in Offers, NEW p \in Prices, UpdateRead(h, o, p) PROVE MarketTypeOK'
  <2>1. [offer[o] EXCEPT !.price = p] \in Offer
    BY DEF MarketTypeOK, Offer
  <2>2. [Idle EXCEPT !.at = "update_save", !.offer = o, !.draft = [offer[o] EXCEPT !.price = p]] \in Task
    BY <2>1, EmptyRows DEF Task, Points
  <2>3. QED
    BY <1>1, <2>2 DEF UpdateRead, MarketTypeOK
<1>2. CASE UpdateSave(h)
  BY <1>2, EmptyRows, TaskFields DEF UpdateSave, MarketTypeOK
<1>3. QED
  BY <1>1, <1>2

LEMMA AcceptKeepsType ==
  ASSUME MarketTypeOK, NEW h \in Handlers,
         (\E o \in Offers : AcceptRead(h, o)) \/ AcceptReject(h) \/ AcceptCommit(h)
  PROVE  MarketTypeOK'
<1>1. ASSUME NEW o \in Offers, AcceptRead(h, o) PROVE MarketTypeOK'
  <2>1. [offer[o] EXCEPT !.status = "ACCEPTED"] \in Offer
    BY OfferStatusType DEF MarketTypeOK, OfferStatuses
  <2>2. [at |-> "accept_reject", offer |-> o, copy |-> booking, others |-> {},
         draft |-> [offer[o] EXCEPT !.status = "ACCEPTED"]] \in Task
    BY <2>1 DEF Task, Points, MarketTypeOK
  <2>3. QED
    BY <1>1, <2>2 DEF AcceptRead, MarketTypeOK
<1>2. CASE AcceptReject(h)
  <2> DEFINE others == {o \in Offers \ {task[h].offer} : offer[o].status = "PENDING"}
             t == [task[h] EXCEPT !.at = "accept_commit", !.others = others]
  <2>1. t \in Task
    BY TaskFields, OthersType DEF Points
  <2>2. task' = [task EXCEPT ![h] = t]
    BY <1>2 DEF AcceptReject, MarketTypeOK
  <2>3. QED
    BY <1>2, <2>1, <2>2 DEF AcceptReject, MarketTypeOK
<1>3. CASE AcceptCommit(h)
  <2>1. offer' \in [Offers -> Offer]
    BY <1>3, UpdatedType, TaskFields DEF AcceptCommit, OfferStatuses
  <2>2. [task[h].copy EXCEPT !.status = "OFFER_ACCEPTED", !.selected = task[h].offer] \in Booking
    BY TaskFields, StatusesOfBooking DEF Booking
  <2>3. task' \in [Handlers -> Task]
    BY <1>3, EmptyRows DEF AcceptCommit, MarketTypeOK
  <2>4. QED
    BY <1>3, <2>1, <2>2, <2>3 DEF AcceptCommit, MarketTypeOK
<1>4. QED
  BY <1>1, <1>2, <1>3

LEMMA EndKeepsType ==
  ASSUME MarketTypeOK, NEW h \in Handlers,
         CancelRead(h) \/ CancelSave(h) \/ DeleteBooking(h) \/ Abort(h)
  PROVE  MarketTypeOK'
<1>1. CASE CancelRead(h)
  <2>1. [booking EXCEPT !.status = "CANCELLED"] \in Booking
    BY StatusType, StatusesOfBooking DEF MarketTypeOK
  <2>2. [Idle EXCEPT !.at = "cancel_save", !.copy = [booking EXCEPT !.status = "CANCELLED"]] \in Task
    BY <2>1, EmptyRows DEF Task, Points
  <2>3. QED
    BY <1>1, <2>2 DEF CancelRead, MarketTypeOK
<1>2. CASE CancelSave(h)
  BY <1>2, EmptyRows, TaskFields, SavedType DEF CancelSave, MarketTypeOK
<1>3. CASE DeleteBooking(h)
  <2>1. [booking EXCEPT !.deleted = TRUE] \in Booking
    BY DEF MarketTypeOK, Booking
  <2>2. QED
    BY <1>3, <2>1 DEF DeleteBooking, MarketTypeOK
<1>4. CASE Abort(h)
  BY <1>4, EmptyRows DEF Abort, MarketTypeOK
<1>5. QED
  BY <1>1, <1>2, <1>3, <1>4

LEMMA MarketStepKeepsType ==
  ASSUME MarketTypeOK, NEW h \in Handlers, MarketStep(h) PROVE MarketTypeOK'
  BY CreateKeepsType, UpdateKeepsType, AcceptKeepsType, EndKeepsType DEF MarketStep

LEMMA CreateBookingKeepsType ==
  ASSUME MarketTypeOK, CreateBooking PROVE MarketTypeOK'
<1>1. [NoBooking EXCEPT !.status = "WAITING_FOR_OFFERS"] \in Booking
  BY EmptyRows, StatusesOfBooking DEF Booking
<1>2. QED
  BY <1>1 DEF CreateBooking, MarketTypeOK

LEMMA MarketInitType == MarketInit => MarketTypeOK
  BY EmptyRows DEF MarketInit, MarketTypeOK

\* Every column a request writes and every copy it keeps has its type, however many
\* requests overlap.
THEOREM MarketTypeCorrect == MarketSpec => []MarketTypeOK
<1>1. MarketTypeOK /\ [MarketNext]_marketVars => MarketTypeOK'
  <2> SUFFICES ASSUME MarketTypeOK, [MarketNext]_marketVars PROVE MarketTypeOK'
    OBVIOUS
  <2>1. CASE UNCHANGED marketVars
    BY <2>1 DEF marketVars, MarketTypeOK
  <2>2. QED
    BY <2>1, CreateBookingKeepsType, MarketStepKeepsType DEF MarketNext
<1>2. QED
  BY <1>1, MarketInitType, PTL DEF MarketSpec

-----------------------------------------------------------------------------
(* The offers requests are about to write *)

Making == {"create_replace", "create_commit"}
Deciding == {"update_save", "accept_reject", "accept_commit"}

\* A request that makes an offer has an id no row has; one that edits or accepts an offer
\* has read a row, and keeps its office; one that cancels has cancelled its copy.
Sound(t, rows) ==
  /\ t.at \in Making \union Deciding => t.offer \in Offers /\ t.draft.status # "NONE"
  /\ t.at \in Making => rows[t.offer] = NoOffer /\ t.draft.office \in Offices
  /\ t.at \in Deciding => /\ rows[t.offer].status # "NONE"
                          /\ t.draft.office = rows[t.offer].office
  /\ t.at = "cancel_save" => t.copy.status = "CANCELLED"

\* Nobody else has the id of an offer that is being made.
Alone ==
  \A h, g \in Handlers : h # g /\ task[h].at \in Making => task[g].offer # task[h].offer

OfferInv == Alone /\ \A h \in Handlers : Sound(task[h], offer)

\* Every offer that was made is some office's.
OfficesMadeThem == \A o \in Offers : offer[o].status # "NONE" => offer[o].office \in Offices

\* A row that was made stays, with its office.
OffersKept ==
  \A o \in Offers : offer[o].status # "NONE" => /\ offer'[o].status # "NONE"
                                                /\ offer'[o].office = offer[o].office

\* Only request h may make a row.
MadeOnlyBy(h) ==
  \A o \in Offers : offer[o] = NoOffer /\ o # task[h].offer => offer'[o] = NoOffer

LEMMA OtherTasks ==
  ASSUME MarketTypeOK, OfferInv, NEW h \in Handlers, NEW t,
         task' = [task EXCEPT ![h] = t], OffersKept, MadeOnlyBy(h), Sound(t, offer'),
         \A g \in Handlers \ {h} :
           (t.at \in Making \/ task[g].at \in Making) => task[g].offer # t.offer
  PROVE  OfferInv'
<1>1. task'[h] = t /\ \A g \in Handlers \ {h} : task'[g] = task[g]
  BY DEF MarketTypeOK
<1>2. Alone'
  BY <1>1 DEF Alone, OfferInv
<1>3. ASSUME NEW g \in Handlers, g # h PROVE Sound(task[g], offer')
  <2>1. Sound(task[g], offer)
    BY DEF OfferInv
  <2>2. task[g].at \in Making => task[g].offer # task[h].offer
    BY <1>3 DEF OfferInv, Alone
  <2>3. QED
    BY <2>1, <2>2 DEF Sound, OffersKept, MadeOnlyBy, Making, Deciding
<1>4. QED
  BY <1>1, <1>2, <1>3 DEF OfferInv

LEMMA UpdatedKeeps ==
  ASSUME MarketTypeOK, NEW others, NEW s \in OfferStatuses, NEW o \in Offers
  PROVE  /\ offer[o].status # "NONE" => Updated(others, s)[o].status # "NONE"
         /\ Updated(others, s)[o].office = offer[o].office
         /\ offer[o] = NoOffer => Updated(others, s)[o] = NoOffer
<1>1. offer[o] \in Offer
  BY DEF MarketTypeOK
<1>2. Updated(others, s)[o] = IF o \in others /\ offer[o].status = "PENDING"
                              THEN [offer[o] EXCEPT !.status = s] ELSE offer[o]
  BY DEF Updated
<1>3. QED
  BY <1>1, <1>2 DEF Offer, OfferStatuses, NoOffer

LEMMA IdleIsSound == ASSUME NEW rows PROVE Sound(Idle, rows) /\ Idle.at = "idle" /\ Idle.offer = None
  BY DEF Sound, Idle, Making, Deciding

\* No offer ever vanishes or changes hands, however requests overlap.
LEMMA StepKeepsOffers ==
  ASSUME MarketTypeOK, OfferInv, NEW h \in Handlers, MarketStep(h)
  PROVE  OffersKept /\ MadeOnlyBy(h)
<1>1. CASE CreateOfferCommit(h)
  <2>1. /\ offer' = [Updated(task[h].others, "REPLACED") EXCEPT ![task[h].offer] = task[h].draft]
        /\ task[h].offer \in Offers
        /\ offer[task[h].offer] = NoOffer
    BY <1>1 DEF CreateOfferCommit, OfferInv, Sound, Making
  <2>2. Updated(task[h].others, "REPLACED") \in [Offers -> Offer]
    BY UpdatedType DEF OfferStatuses
  <2>3. QED
    BY <2>1, <2>2, UpdatedKeeps DEF OffersKept, MadeOnlyBy, NoOffer, OfferStatuses
<1>2. CASE AcceptCommit(h)
  <2>1. /\ offer' = [Updated(task[h].others, "REJECTED") EXCEPT ![task[h].offer] = task[h].draft]
        /\ task[h].offer \in Offers
        /\ task[h].draft.status # "NONE"
        /\ task[h].draft.office = offer[task[h].offer].office
    BY <1>2 DEF AcceptCommit, OfferInv, Sound, Deciding
  <2>2. Updated(task[h].others, "REJECTED") \in [Offers -> Offer]
    BY UpdatedType DEF OfferStatuses
  <2>3. QED
    BY <2>1, <2>2, UpdatedKeeps DEF OffersKept, MadeOnlyBy, OfferStatuses
<1>3. CASE UpdateSave(h)
  <2>1. /\ offer' = [offer EXCEPT ![task[h].offer] = task[h].draft]
        /\ task[h].offer \in Offers
        /\ task[h].draft.status # "NONE"
        /\ task[h].draft.office = offer[task[h].offer].office
    BY <1>3 DEF UpdateSave, OfferInv, Sound, Deciding
  <2>2. QED
    BY <2>1 DEF OffersKept, MadeOnlyBy, MarketTypeOK
<1>4. CASE offer' = offer
  BY <1>4 DEF OffersKept, MadeOnlyBy
<1>5. QED
  BY <1>1, <1>2, <1>3, <1>4
  DEF MarketStep, CreateOfferRead, CreateOfferReplace, UpdateRead, AcceptRead, AcceptReject,
      CancelRead, CancelSave, DeleteBooking, Abort

LEMMA StepKeepsOfferInv ==
  ASSUME MarketTypeOK, OfferInv, NEW h \in Handlers, MarketStep(h)
  PROVE  OfferInv'
<1>0. OffersKept /\ MadeOnlyBy(h) /\ NoOffer.status = "NONE"
  BY StepKeepsOffers DEF NoOffer
<1>1. ASSUME NEW o \in Offers, NEW f \in Offices, NEW p \in Prices, CreateOfferRead(h, o, f, p)
      PROVE  OfferInv'
  <2> DEFINE t == [at |-> "create_replace", offer |-> o, copy |-> booking, others |-> {},
                   draft |-> [status |-> "PENDING", price |-> p, office |-> f]]
  <2>1. task' = [task EXCEPT ![h] = t] /\ offer' = offer /\ offer[o] = NoOffer
    BY <1>1 DEF CreateOfferRead
  <2>2. \A g \in Handlers : task[g].offer # o
    BY <1>1 DEF CreateOfferRead
  <2>3. Sound(t, offer')
    BY <2>1 DEF Sound, Making, Deciding
  <2>4. t.offer = o
    OBVIOUS
  <2>5. HIDE DEF t
  <2>6. QED
    BY <1>0, <2>1, <2>2, <2>3, <2>4, OtherTasks
<1>2. ASSUME NEW o \in Offers, NEW t, task' = [task EXCEPT ![h] = t], offer' = offer,
             t.offer = o, t.at \in Deciding, t.draft.status # "NONE",
             t.draft.office = offer[o].office, offer[o].status # "NONE"
      PROVE  OfferInv'
  <2>1. Sound(t, offer')
    BY <1>2 DEF Sound, Making, Deciding
  <2>2. \A g \in Handlers : task[g].at \in Making => task[g].offer # o
    BY <1>0, <1>2 DEF OfferInv, Sound
  <2>3. t.at \notin Making
    BY <1>2 DEF Making, Deciding
  <2>4. QED
    BY <1>0, <1>2, <2>1, <2>2, <2>3, OtherTasks
<1>3. ASSUME NEW o \in Offers, NEW p \in Prices, UpdateRead(h, o, p) PROVE OfferInv'
  <2> DEFINE t == [Idle EXCEPT !.at = "update_save", !.offer = o, !.draft = [offer[o] EXCEPT !.price = p]]
  <2>1. task' = [task EXCEPT ![h] = t] /\ offer' = offer /\ offer[o].status = "PENDING"
    BY <1>3 DEF UpdateRead
  <2>2. offer[o] \in Offer
    BY DEF MarketTypeOK
  <2>3. /\ t.offer = o /\ t.at \in Deciding
        /\ t.draft.status = "PENDING" /\ t.draft.office = offer[o].office
    BY <2>1, <2>2 DEF Idle, Deciding, Offer
  <2>4. HIDE DEF t
  <2>5. QED
    BY <1>2, <2>1, <2>3
<1>4. ASSUME NEW o \in Offers, AcceptRead(h, o) PROVE OfferInv'
  <2> DEFINE t == [at |-> "accept_reject", offer |-> o, copy |-> booking, others |-> {},
                   draft |-> [offer[o] EXCEPT !.status = "ACCEPTED"]]
  <2>1. task' = [task EXCEPT ![h] = t] /\ offer' = offer /\ offer[o].status = "PENDING"
    BY <1>4 DEF AcceptRead
  <2>2. offer[o] \in Offer
    BY DEF MarketTypeOK
  <2>3. /\ t.offer = o /\ t.at \in Deciding
        /\ t.draft.status = "ACCEPTED" /\ t.draft.office = offer[o].office
    BY <2>1, <2>2 DEF Deciding, Offer
  <2>4. HIDE DEF t
  <2>5. QED
    BY <1>2, <2>1, <2>3
<1>5. CASE CreateOfferReplace(h) \/ AcceptReject(h)
  <2>1. PICK p \in Points, others \in SUBSET Offers :
             /\ p # "cancel_save"
             /\ task' = [task EXCEPT ![h] = [task[h] EXCEPT !.at = p, !.others = others]]
             /\ offer' = offer
             /\ p \in Making => task[h].at \in Making
             /\ p \in Deciding => task[h].at \in Deciding
    <3>1. CASE CreateOfferReplace(h)
      <4>1. PendingOf(task[h].draft.office) \in SUBSET Offers
        BY DEF PendingOf
      <4>2. QED
        BY <3>1, <4>1 DEF CreateOfferReplace, Points, Making, Deciding, MarketTypeOK
    <3>2. CASE AcceptReject(h)
      <4>1. {o \in Offers \ {task[h].offer} : offer[o].status = "PENDING"} \in SUBSET Offers
        OBVIOUS
      <4>2. QED
        BY <3>2, <4>1 DEF AcceptReject, Points, Making, Deciding, MarketTypeOK
    <3>3. QED
      BY <1>5, <3>1, <3>2
  <2> DEFINE t == [task[h] EXCEPT !.at = p, !.others = others]
  <2>2. t.at = p /\ t.offer = task[h].offer /\ t.draft = task[h].draft
    BY TaskFields DEF Task
  <2>3. HIDE DEF t
  <2>4. Sound(t, offer')
    BY <2>1, <2>2 DEF OfferInv, Sound
  <2>5. \A g \in Handlers \ {h} : (t.at \in Making \/ task[g].at \in Making) => task[g].offer # t.offer
    BY <2>1, <2>2 DEF OfferInv, Alone
  <2>6. task' = [task EXCEPT ![h] = t]
    BY <2>1 DEF t
  <2>7. QED
    BY <1>0, <2>4, <2>5, <2>6, OtherTasks
<1>6. ASSUME NEW t, task' = [task EXCEPT ![h] = t], t.offer = None, t.at \notin Making \union Deciding,
             t.at = "cancel_save" => t.copy.status = "CANCELLED"
      PROVE  OfferInv'
  <2>1. Sound(t, offer')
    BY <1>6 DEF Sound
  <2>2. \A g \in Handlers : task[g].at \in Making => task[g].offer # None
    BY NoneIsNoOffer DEF OfferInv, Sound
  <2>3. QED
    BY <1>0, <1>6, <2>1, <2>2, OtherTasks
<1>7. CASE task' = [task EXCEPT ![h] = Idle]
  <2>1. Idle.at \notin Making \union Deciding /\ Idle.at # "cancel_save"
    BY IdleIsSound DEF Making, Deciding
  <2>2. QED
    BY <1>6, <1>7, <2>1, IdleIsSound
<1>8. CASE CancelRead(h)
  <2> DEFINE t == [Idle EXCEPT !.at = "cancel_save", !.copy = [booking EXCEPT !.status = "CANCELLED"]]
  <2>1. t.at \notin Making \union Deciding /\ t.offer = None /\ t.copy.status = "CANCELLED"
    <3>1. [booking EXCEPT !.status = "CANCELLED"].status = "CANCELLED"
      BY DEF MarketTypeOK, Booking
    <3>2. QED
      BY <3>1 DEF Idle, Making, Deciding
  <2>2. task' = [task EXCEPT ![h] = t]
    BY <1>8 DEF CancelRead
  <2>3. HIDE DEF t
  <2>4. QED
    BY <1>6, <2>1, <2>2
<1>9. CASE DeleteBooking(h)
  BY <1>9 DEF DeleteBooking, OfferInv, Alone, Sound
<1>10. QED
  BY <1>1, <1>3, <1>4, <1>5, <1>7, <1>8, <1>9
  DEF MarketStep, CreateOfferCommit, UpdateSave, AcceptCommit, CancelSave, Abort

-----------------------------------------------------------------------------
(* The selected offer *)

MarketInv == MarketTypeOK /\ OfferInv /\ SelectionBacked

LEMMA StepKeepsSelection ==
  ASSUME MarketInv, NEW h \in Handlers, MarketStep(h) PROVE SelectionBacked'
<1> USE DEF MarketInv
<1>0. OffersKept
  BY StepKeepsOffers
<1>1. ASSUME NEW b \in Booking, b.status \in {"UNDER_NEGOTIATION", "CANCELLED"}, booking' = Saved(b)
      PROVE  SelectionBacked'
  <2>1. booking'.status = b.status /\ booking'.selected = booking.selected
    BY <1>1 DEF Saved, Booking
  <2>2. booking.selected # None => booking.selected \in Offers
    BY DEF MarketTypeOK, Booking
  <2>3. QED
    BY <1>0, <1>1, <2>1, <2>2 DEF SelectionBacked, OffersKept
<1>2. ASSUME booking'.status = booking.status, booking'.selected = booking.selected
      PROVE  SelectionBacked'
  <2>1. booking.selected # None => booking.selected \in Offers
    BY DEF MarketTypeOK, Booking
  <2>2. QED
    BY <1>0, <1>2, <2>1 DEF SelectionBacked, OffersKept
<1>3. CASE CreateOfferCommit(h)
  <2> DEFINE b == [task[h].copy EXCEPT !.status = "UNDER_NEGOTIATION"]
  <2>1. b \in Booking /\ b.status = "UNDER_NEGOTIATION"
    <3>1. task[h].copy \in Booking
      BY TaskFields
    <3>2. b \in Booking
      BY <3>1, StatusType, StatusesOfBooking
    <3>3. QED
      BY <3>1, <3>2 DEF Booking
  <2>2. booking' = Saved(b) \/ booking' = booking
    BY <1>3 DEF CreateOfferCommit
  <2>3. HIDE DEF b
  <2>4. QED
    BY <1>1, <1>2, <2>1, <2>2
<1>4. CASE AcceptCommit(h)
  <2>1. task[h].copy \in Booking
    BY TaskFields
  <2>2. task[h].offer \in Offers /\ task[h].draft.status # "NONE"
    BY <1>4 DEF AcceptCommit, OfferInv, Sound, Deciding
  <2>3. booking'.selected = task[h].offer
    BY <1>4, <2>1 DEF AcceptCommit, Booking
  <2>4. offer'[task[h].offer] = task[h].draft
    BY <1>4, <2>2, UpdatedType DEF AcceptCommit, OfferStatuses
  <2>5. QED
    BY <2>2, <2>3, <2>4, NoneIsNoOffer DEF SelectionBacked
<1>5. CASE CancelSave(h)
  <2>1. task[h].copy \in Booking /\ task[h].copy.status = "CANCELLED"
    BY <1>5, TaskFields DEF CancelSave, OfferInv, Sound
  <2>2. QED
    BY <1>1, <1>5, <2>1 DEF CancelSave
<1>6. CASE DeleteBooking(h)
  BY <1>2, <1>6 DEF DeleteBooking, MarketTypeOK, Booking
<1>7. CASE booking' = booking
  BY <1>2, <1>7
<1>8. QED
  BY <1>3, <1>4, <1>5, <1>6, <1>7
  DEF MarketStep, CreateOfferRead, CreateOfferReplace, UpdateRead, UpdateSave, AcceptRead,
      AcceptReject, CancelRead, Abort

LEMMA StepKeepsMakers ==
  ASSUME MarketTypeOK, OfferInv, OfficesMadeThem, NEW h \in Handlers, MarketStep(h)
  PROVE  OfficesMadeThem'
<1>0. OffersKept /\ MadeOnlyBy(h)
  BY StepKeepsOffers
<1>1. CASE CreateOfferCommit(h)
  <2>1. /\ task[h].offer \in Offers
        /\ task[h].draft.office \in Offices
    BY <1>1 DEF CreateOfferCommit, OfferInv, Sound, Making
  <2>2. offer' = [Updated(task[h].others, "REPLACED") EXCEPT ![task[h].offer] = task[h].draft]
    BY <1>1 DEF CreateOfferCommit
  <2>3. Updated(task[h].others, "REPLACED") \in [Offers -> Offer]
    BY UpdatedType DEF OfferStatuses
  <2>4. \A o \in Offers : offer[o].status = "NONE" => Updated(task[h].others, "REPLACED")[o] = offer[o]
    BY DEF Updated
  <2>5. QED
    BY <1>0, <2>1, <2>2, <2>3, <2>4 DEF OfficesMadeThem, OffersKept
<1>2. CASE AcceptCommit(h)
  <2>1. task[h].offer \in Offers /\ offer[task[h].offer].status # "NONE"
    BY <1>2 DEF AcceptCommit, OfferInv, Sound, Deciding
  <2>2. offer' = [Updated(task[h].others, "REJECTED") EXCEPT ![task[h].offer] = task[h].draft]
    BY <1>2 DEF AcceptCommit
  <2>3. Updated(task[h].others, "REJECTED") \in [Offers -> Offer]
    BY UpdatedType DEF OfferStatuses
  <2>4. \A o \in Offers : offer[o].status = "NONE" => Updated(task[h].others, "REJECTED")[o] = offer[o]
    BY DEF Updated
  <2>5. QED
    BY <1>0, <2>1, <2>2, <2>3, <2>4 DEF OfficesMadeThem, OffersKept
<1>3. CASE UpdateSave(h)
  <2>1. task[h].offer \in Offers /\ offer[task[h].offer].status # "NONE"
    BY <1>3 DEF UpdateSave, OfferInv, Sound, Deciding
  <2>2. QED
    BY <1>0, <1>3, <2>1 DEF UpdateSave, MarketTypeOK, OfficesMadeThem, OffersKept
<1>4. CASE offer' = offer
  BY <1>4 DEF OfficesMadeThem
<1>5. QED
  BY <1>1, <1>2, <1>3, <1>4
  DEF MarketStep, CreateOfferRead, CreateOfferReplace, UpdateRead, AcceptRead, AcceptReject,
      CancelRead, CancelSave, DeleteBooking, Abort

\* Requests on the booking move money from one copy of it to another, and never say that
\* it was paid.
MoneyOnlyCopied(h) ==
  /\ booking'.paid \in {booking.paid, task[h].copy.paid}
  /\ booking'.status \in {booking.status, "UNDER_NEGOTIATION", "OFFER_ACCEPTED", "CANCELLED"}
  /\ \A g \in Handlers : task'[g].copy.paid \in {0, booking.paid, task[g].copy.paid}

LEMMA StepCopiesMoney ==
  ASSUME MarketTypeOK, OfferInv, NEW h \in Handlers, MarketStep(h)
  PROVE  MoneyOnlyCopied(h)
<1>0. booking \in Booking /\ task[h].copy \in Booking
  BY TaskFields DEF MarketTypeOK
<1>1. ASSUME NEW t, task' = [task EXCEPT ![h] = t], t.copy.paid \in {0, booking.paid, task[h].copy.paid}
      PROVE  \A g \in Handlers : task'[g].copy.paid \in {0, booking.paid, task[g].copy.paid}
  BY <1>1 DEF MarketTypeOK
<1>2. Idle.copy.paid = 0
  BY DEF Idle, NoBooking
<1>3. \A b \in Booking : Saved(b).paid = b.paid /\ Saved(b).status = b.status
  BY DEF Saved, Booking
<1>4. CASE CreateOfferCommit(h)
  <2> DEFINE b == [task[h].copy EXCEPT !.status = "UNDER_NEGOTIATION"]
  <2>1. b \in Booking /\ b.paid = task[h].copy.paid /\ b.status = "UNDER_NEGOTIATION"
    <3>1. b \in Booking
      BY <1>0, StatusType, StatusesOfBooking
    <3>2. QED
      BY <1>0, <3>1 DEF Booking
  <2>2. booking' = Saved(b) \/ booking' = booking
    BY <1>4 DEF CreateOfferCommit
  <2>3. task' = [task EXCEPT ![h] = Idle]
    BY <1>4 DEF CreateOfferCommit
  <2>4. HIDE DEF b
  <2>5. QED
    BY <1>1, <1>2, <1>3, <2>1, <2>2, <2>3 DEF MoneyOnlyCopied
<1>5. CASE AcceptCommit(h)
  <2>1. booking'.paid = task[h].copy.paid /\ booking'.status = "OFFER_ACCEPTED"
    BY <1>0, <1>5 DEF AcceptCommit, Booking
  <2>2. task' = [task EXCEPT ![h] = Idle]
    BY <1>5 DEF AcceptCommit
  <2>3. QED
    BY <1>1, <1>2, <2>1, <2>2 DEF MoneyOnlyCopied
<1>6. CASE CancelSave(h)
  <2>1. task[h].copy.status = "CANCELLED"
    BY <1>6 DEF CancelSave, OfferInv, Sound
  <2>2. booking' = Saved(task[h].copy) /\ task' = [task EXCEPT ![h] = Idle]
    BY <1>6 DEF CancelSave
  <2>3. QED
    BY <1>0, <1>1, <1>2, <1>3, <2>1, <2>2 DEF MoneyOnlyCopied
<1>7. CASE DeleteBooking(h)
  BY <1>0, <1>7 DEF DeleteBooking, Booking, MoneyOnlyCopied
<1>8. ASSUME NEW t, task' = [task EXCEPT ![h] = t], t.copy.paid \in {0, booking.paid, task[h].copy.paid},
             booking' = booking
      PROVE  MoneyOnlyCopied(h)
  BY <1>1, <1>8 DEF MoneyOnlyCopied
<1>9. CASE UpdateSave(h) \/ Abort(h)
  BY <1>2, <1>8, <1>9 DEF UpdateSave, Abort
<1>10. ASSUME NEW o \in Offers, NEW f \in Offices, NEW p \in Prices, CreateOfferRead(h, o, f, p)
       PROVE  MoneyOnlyCopied(h)
  <2> DEFINE t == [at |-> "create_replace", offer |-> o, copy |-> booking, others |-> {},
                   draft |-> [status |-> "PENDING", price |-> p, office |-> f]]
  <2>1. task' = [task EXCEPT ![h] = t] /\ booking' = booking
    BY <1>10 DEF CreateOfferRead
  <2>2. t.copy.paid = booking.paid
    OBVIOUS
  <2>3. HIDE DEF t
  <2>4. QED
    BY <1>8, <2>1, <2>2
<1>11. ASSUME NEW o \in Offers, NEW p \in Prices, UpdateRead(h, o, p) PROVE MoneyOnlyCopied(h)
  <2> DEFINE t == [Idle EXCEPT !.at = "update_save", !.offer = o, !.draft = [offer[o] EXCEPT !.price = p]]
  <2>1. task' = [task EXCEPT ![h] = t] /\ booking' = booking
    BY <1>11 DEF UpdateRead
  <2>2. t.copy.paid = 0
    BY DEF Idle, NoBooking
  <2>3. HIDE DEF t
  <2>4. QED
    BY <1>8, <2>1, <2>2
<1>12. ASSUME NEW o \in Offers, AcceptRead(h, o) PROVE MoneyOnlyCopied(h)
  <2> DEFINE t == [at |-> "accept_reject", offer |-> o, copy |-> booking, others |-> {},
                   draft |-> [offer[o] EXCEPT !.status = "ACCEPTED"]]
  <2>1. task' = [task EXCEPT ![h] = t] /\ booking' = booking
    BY <1>12 DEF AcceptRead
  <2>2. t.copy.paid = booking.paid
    OBVIOUS
  <2>3. HIDE DEF t
  <2>4. QED
    BY <1>8, <2>1, <2>2
<1>13. CASE CreateOfferReplace(h) \/ AcceptReject(h)
  <2>1. PICK p \in Points, others \in SUBSET Offers :
          task' = [task EXCEPT ![h] = [task[h] EXCEPT !.at = p, !.others = others]]
    <3>1. CASE CreateOfferReplace(h)
      <4>1. PendingOf(task[h].draft.office) \in SUBSET Offers
        BY DEF PendingOf
      <4>2. QED
        BY <3>1, <4>1, ZenonT(30) DEF CreateOfferReplace, Points, MarketTypeOK
    <3>2. CASE AcceptReject(h)
      BY <3>2 DEF AcceptReject, Points, MarketTypeOK
    <3>3. QED
      BY <1>13, <3>1, <3>2
  <2> DEFINE t == [task[h] EXCEPT !.at = p, !.others = others]
  <2>2. t.copy = task[h].copy
    BY TaskFields DEF Task
  <2>3. task' = [task EXCEPT ![h] = t] /\ booking' = booking
    BY <1>13, <2>1 DEF CreateOfferReplace, AcceptReject
  <2>4. HIDE DEF t
  <2>5. QED
    BY <1>8, <2>2, <2>3
<1>14. CASE CancelRead(h)
  <2> DEFINE b == [booking EXCEPT !.status = "CANCELLED"]
             t == [Idle EXCEPT !.at = "cancel_save", !.copy = b]
  <2>1. task' = [task EXCEPT ![h] = t] /\ booking' = booking
    BY <1>14 DEF CancelRead
  <2>2. t.copy.paid = booking.paid
    <3>1. b.paid = booking.paid
      BY <1>0 DEF Booking
    <3>2. t.copy = b
      BY DEF Idle
    <3>3. QED
      BY <3>1, <3>2
  <2>3. HIDE DEF t
  <2>4. QED
    BY <1>8, <2>1, <2>2
<1>15. QED
  BY <1>4, <1>5, <1>6, <1>7, <1>9, <1>10, <1>11, <1>12, <1>13, <1>14 DEF MarketStep

-----------------------------------------------------------------------------

\* However requests overlap, a booking is past the negotiation only with an offer on it, and
\* a selected offer is one that was made: stale saves do not touch the selection.
THEOREM SelectionSurvives == MarketSpec => []SelectionBacked
<1>1. MarketInit => MarketInv
  <2>1. MarketInit => Alone /\ \A h \in Handlers : Sound(task[h], offer)
    BY DEF MarketInit, Alone, Sound, Idle, Making, Deciding
  <2>2. MarketInit => SelectionBacked
    BY DEF MarketInit, SelectionBacked, NoBooking
  <2>3. QED
    BY <2>1, <2>2, MarketInitType DEF MarketInv, OfferInv
<1>2. MarketInv /\ [MarketNext]_marketVars => MarketInv'
  <2> SUFFICES ASSUME MarketInv, [MarketNext]_marketVars PROVE MarketInv'
    OBVIOUS
  <2>1. CASE UNCHANGED marketVars
    BY <2>1 DEF marketVars, MarketInv, MarketTypeOK, OfferInv, Alone, Sound, SelectionBacked
  <2>2. ASSUME NEW h \in Handlers, MarketStep(h) PROVE MarketInv'
    BY <2>2, MarketStepKeepsType, StepKeepsOfferInv, StepKeepsSelection DEF MarketInv
  <2>3. CASE CreateBooking
    <3>1. booking'.status = "WAITING_FOR_OFFERS" /\ booking'.selected = None
      BY <2>3 DEF CreateBooking, NoBooking
    <3>2. SelectionBacked'
      BY <3>1 DEF SelectionBacked
    <3>3. OfferInv'
      BY <2>3 DEF MarketInv, OfferInv, Alone, Sound, CreateBooking
    <3>4. QED
      BY <2>3, <3>2, <3>3, CreateBookingKeepsType DEF MarketInv
  <2>4. QED
    BY <2>1, <2>2, <2>3 DEF MarketNext
<1>3. MarketInv => SelectionBacked
  BY DEF MarketInv
<1>4. QED
  BY <1>1, <1>2, <1>3, PTL DEF MarketSpec

-----------------------------------------------------------------------------
(* The amounts, for every price, every row of settings and whatever was credited before *)

Rates == [advance : 0..100, commission : 0..100, tax : 0..100]

LEMMA PercentIsNat ==
  ASSUME NEW price \in Nat, NEW percent \in 0..100
  PROVE  Percent(price, percent) \in Nat
<1>1. price * percent \in Nat
  OBVIOUS
<1>2. \A n \in Nat : (n + 50) \div 100 \in Nat
  OBVIOUS
<1>3. QED
  BY <1>1, <1>2 DEF Percent

\* No percentage of a price, rounded, is more than the price: the advance never exceeds it
\* and the full payment that follows is never negative.
THEOREM PercentIsAPart ==
  ASSUME NEW price \in Nat, NEW percent \in 0..100
  PROVE  Percent(price, percent) <= price
<1>1. price * percent \in Nat /\ price * percent <= price * 100
  OBVIOUS
<1>2. \A n \in Nat : n <= price * 100 => (n + 50) \div 100 <= price
  OBVIOUS
<1>3. QED
  BY <1>1, <1>2 DEF Percent

LEMMA TargetsAreNat ==
  ASSUME NEW price \in Nat, NEW s \in Rates
  PROVE  /\ AdvanceAmount(price, s) \in Nat
         /\ AdvanceAmount(price, s) <= price
         /\ AdminTarget(price, s) \in Nat
<1>1. s.advance \in 0..100 /\ s.commission \in 0..100 /\ s.tax \in 0..100
  BY DEF Rates
<1>2. Percent(price, s.advance) \in Nat /\ Percent(price, s.advance) <= price
  BY <1>1, PercentIsNat, PercentIsAPart
<1>3. Percent(price, s.commission) \in Nat /\ Percent(price, s.tax) \in Nat
  BY <1>1, PercentIsNat
<1>4. QED
  BY <1>2, <1>3 DEF AdvanceAmount, AdminTarget

\* Whatever was credited before, a split hands out no more than was paid, takes nothing
\* back, and brings neither the office above the price nor the admin above its target.
THEOREM SplitWithinBounds ==
  ASSUME NEW amount \in Int, NEW price \in Nat, NEW s \in Rates,
         NEW paidOffice \in Nat, NEW paidAdmin \in Nat
  PROVE  LET share == Split(amount, price, s, paidOffice, paidAdmin)
             target == AdminTarget(price, s)
         IN  /\ share \in [office : Nat, admin : Nat]
             /\ share.office + share.admin <= AtLeastZero(amount)
             /\ paidOffice + share.office <= price \/ share.office = 0
             /\ paidAdmin + share.admin <= target \/ share.admin = 0
<1> DEFINE target == AdminTarget(price, s)
<1>1. target \in Nat
  BY TargetsAreNat
<1>2. QED
  BY <1>1 DEF Split, AtLeastZero, Lesser

\* A partial and a full payment of one offer, with the same settings and no coupon, give
\* the office the price and the admin its commission and tax, to the halala.
THEOREM TwoPaymentsSettle ==
  ASSUME NEW price \in Nat, NEW s \in Rates
  PROVE  LET first == Split(PartialCharge(price, s), price, s, 0, 0)
             second == Split(FullCharge(price, AdvanceAmount(price, s)), price, s,
                             first.office, first.admin)
         IN  /\ first.office + second.office = price
             /\ first.admin + second.admin = AdminTarget(price, s)
<1> DEFINE advance == AdvanceAmount(price, s)
           target == AdminTarget(price, s)
           first == Split(advance + target, price, s, 0, 0)
           second == Split(price - advance, price, s, advance, target)
<1>1. advance \in Nat /\ advance <= price /\ target \in Nat
  BY TargetsAreNat
<1>2. first = [office |-> advance, admin |-> target]
  BY <1>1 DEF Split, AtLeastZero, Lesser
<1>3. second = [office |-> price - advance, admin |-> 0]
  BY <1>1 DEF Split, AtLeastZero, Lesser
<1>4. QED
  BY <1>1, <1>2, <1>3 DEF PartialCharge, FullCharge

-----------------------------------------------------------------------------
(* The rows and the requests *)

Loaded == {"save_offer", "split", "save_booking", "credit_office", "credit_admin"}

\* A payment is for an offer that was made, is charged only once it is a row, and is a
\* success only if it was captured.
PaymentInv ==
  \A i \in Payments :
    /\ payment[i].type # "NONE" => /\ payment[i].offer \in Offers
                                   /\ offer[payment[i].offer].status # "NONE"
    /\ charge[i] # "none" => payment[i].type # "NONE"
    /\ payment[i].status = "SUCCESS" => charge[i] = "CAPTURED"

\* What a payment request knows: it is about a row; nobody has been charged yet, or the
\* charge was captured; the offer it read is still that office's.
Held(p, rows, pays, gateway) ==
  /\ p.at # "idle" => p.payment \in Payments /\ pays[p.payment].type # "NONE"
  /\ p.at = "charge" => gateway[p.payment] = "none"
  /\ p.at = "save_status" /\ p.verdict = "SUCCESS" => gateway[p.payment] = "CAPTURED"
  /\ p.at \in Loaded \union {"load"} => gateway[p.payment] = "CAPTURED"
  /\ p.at \in Loaded => /\ p.draft.status # "NONE"
                        /\ p.draft.office = rows[pays[p.payment].offer].office

\* No two requests ask the gateway to charge the same payment.
ChargedByOne ==
  \A h, g \in Handlers :
    h # g /\ proc[h].at = "charge" /\ proc[g].at = "charge" => proc[h].payment # proc[g].payment

ProcInv == ChargedByOne /\ \A h \in Handlers : Held(proc[h], offer, payment, charge)

Paid == {"BOOKING_PARTIAL", "BOOKING_FULL"}

\* No row and no copy of one shows money nobody paid.
MoneyInv ==
  /\ booking.status = "PARTIALLY_PAID" \/ booking.paid > 0 => Captured(Paid)
  /\ booking.status = "COMPLETED" => Captured({"BOOKING_FULL"})
  /\ \A h \in Handlers : task[h].copy.paid > 0 => Captured(Paid)
  /\ \A h \in Handlers :
       proc[h].at \in Loaded /\ proc[h].copy.status = "COMPLETED" => Captured({"BOOKING_FULL"})
  /\ \A f \in Offices :
       credited[f] > 0 => \E i \in Payments : /\ charge[i] = "CAPTURED"
                                             /\ offer[payment[i].offer].office = f

Rows == TypeOK /\ OfferInv /\ OfficesMadeThem /\ PaymentInv /\ ProcInv

CheckoutInv == Rows /\ SelectionBacked /\ MoneyInv

\* A payment row stays the same payment, and a captured charge stays captured.
PaymentsKept ==
  \A i \in Payments :
    /\ payment[i].type # "NONE" => /\ payment'[i].type = payment[i].type
                                   /\ payment'[i].offer = payment[i].offer
    /\ charge[i] # "none" => charge'[i] # "none"
    /\ charge[i] = "CAPTURED" => charge'[i] = "CAPTURED"

-----------------------------------------------------------------------------
(* Types *)

LEMMA ProcFields ==
  ASSUME TypeOK, NEW h \in Handlers
  PROVE  /\ proc[h] \in Proc
         /\ proc[h].at \in Stages
         /\ proc[h].payment \in Payments \union {None}
         /\ proc[h].draft \in Offer
         /\ proc[h].copy \in Booking
         /\ proc[h].share \in [office : Nat, admin : Nat]
         /\ proc[h].share.office \in Nat
         /\ proc[h].share.admin \in Nat
  BY DEF TypeOK, Proc

LEMMA NothingIsProc == NoProc \in Proc /\ NoPayment \in Payment /\ NoProc.at = "idle" /\ NoProc.payment = None
  BY EmptyRows DEF NoProc, NoPayment, Proc, Payment, Stages, NoShare

LEMMA StageType ==
  ASSUME NEW p \in Proc, NEW s \in Stages PROVE [p EXCEPT !.at = s] \in Proc
  BY DEF Proc

\* The offer a request read is an office's, and its payment is a row.
LEMMA LoadedOffice ==
  ASSUME Rows, NEW h \in Handlers, proc[h].at \in Loaded
  PROVE  /\ proc[h].payment \in Payments
         /\ OfferOf(h) \in Offers
         /\ offer[OfferOf(h)].status # "NONE"
         /\ proc[h].draft.office = offer[OfferOf(h)].office
         /\ proc[h].draft.office \in Offices
         /\ charge[proc[h].payment] = "CAPTURED"
<1>1. proc[h].at # "idle"
  BY DEF Loaded
<1>2. QED
  BY <1>1 DEF Rows, ProcInv, Held, PaymentInv, OfficesMadeThem, OfferOf

LEMMA PriceIsNat == ASSUME NEW row \in Offer PROVE row.price \in Nat
<1>1. row.price \in Prices \union {0}
  BY DEF Offer
<1>2. \A p \in Prices : p \in Nat
  BY PricesPositive
<1>3. CASE row.price = 0
  BY <1>3
<1>4. QED
  BY <1>1, <1>2, <1>3

LEMMA InitiateKeepsType ==
  ASSUME TypeOK, NEW h \in Handlers, NEW i \in Payments, NEW row \in Payment, Initiate(h, i, row)
  PROVE  TypeOK'
<1>1. [NoProc EXCEPT !.at = "charge", !.payment = i] \in Proc
  BY NothingIsProc DEF Proc, Stages
<1>2. QED
  BY <1>1 DEF Initiate, TypeOK, MarketTypeOK, marketVars

LEMMA PartialRow ==
  ASSUME TypeOK, NEW o \in Offers, NEW discount \in Discounts
  PROVE  LET before == PartialCharge(offer[o].price, settings)
         IN  [type |-> "BOOKING_PARTIAL", status |-> "PENDING", offer |-> o,
              amount |-> before - Lesser(discount, before),
              advance |-> AdvanceAmount(offer[o].price, settings)] \in Payment
<1>1. offer[o].price \in Nat
  BY PriceIsNat DEF TypeOK, MarketTypeOK
<1>2. settings \in Rates
  BY SettingsArePercentages DEF TypeOK, Rates
<1>3. AdvanceAmount(offer[o].price, settings) \in Nat /\ AdminTarget(offer[o].price, settings) \in Nat
  BY <1>1, <1>2, TargetsAreNat
<1>4. discount \in Nat
  BY DiscountsNat
<1>5. \A n \in Nat : n - Lesser(discount, n) \in Int
  BY <1>4 DEF Lesser
<1>6. QED
  BY <1>3, <1>5 DEF PartialCharge, Payment

LEMMA FullRow ==
  ASSUME TypeOK, NEW o \in Offers, NEW j \in Payments
  PROVE  [type |-> "BOOKING_FULL", status |-> "PENDING", offer |-> o, advance |-> 0,
          amount |-> FullCharge(offer[o].price, payment[j].advance)] \in Payment
<1>1. offer[o].price \in Nat
  BY PriceIsNat DEF TypeOK, MarketTypeOK
<1>2. payment[j].advance \in Nat
  BY DEF TypeOK, Payment
<1>3. QED
  BY <1>1, <1>2 DEF FullCharge, Payment

LEMMA BeginKeepsType ==
  ASSUME TypeOK, NEW h \in Handlers, Begin(h) PROVE TypeOK'
<1>1. ASSUME NEW i \in Payments, NEW o \in Offers, NEW discount \in Discounts,
             InitiatePartial(h, i, o, discount)
      PROVE  TypeOK'
  BY <1>1, PartialRow, InitiateKeepsType DEF InitiatePartial
<1>2. ASSUME NEW i \in Payments, NEW o \in Offers, NEW j \in Payments, InitiateFull(h, i, o, j)
      PROVE  TypeOK'
  BY <1>2, FullRow, InitiateKeepsType DEF InitiateFull
<1>3. ASSUME NEW i \in Payments, Webhook(h, i) \/ Redirect(h, i) PROVE TypeOK'
  <2>1. PICK effects \in BOOLEAN : Notified(h, i, effects)
    BY <1>3 DEF Webhook, Redirect
  <2>2. [NoProc EXCEPT !.at = "verify", !.payment = i, !.effects = effects] \in Proc
    BY NothingIsProc DEF Proc, Stages
  <2>3. QED
    BY <2>1, <2>2 DEF Notified, TypeOK, MarketTypeOK, marketVars
<1>4. CASE UpsertPaymentSettings(h)
  BY <1>4 DEF UpsertPaymentSettings, TypeOK, MarketTypeOK, marketVars
<1>5. QED
  BY <1>1, <1>2, <1>3, <1>4 DEF Begin

LEMMA ChargeKeepsType ==
  ASSUME TypeOK, NEW h \in Handlers,
         CreateCharge(h) \/ ChargeFails(h) \/ Verify(h) \/ SaveStatus(h) \/ Interrupt(h)
  PROVE  TypeOK'
<1>1. proc[h] \in Proc /\ NoProc \in Proc
  BY ProcFields, NothingIsProc
<1>2. CASE CreateCharge(h) \/ ChargeFails(h)
  BY <1>1, <1>2 DEF CreateCharge, ChargeFails, TypeOK, MarketTypeOK, marketVars
<1>3. CASE Verify(h)
  <2>1. \A s \in {"SUCCESS", "FAILED"} :
          [proc[h] EXCEPT !.at = "save_status", !.verdict = s] \in Proc
    BY <1>1 DEF Proc, Stages
  <2>2. PICK s \in {"SUCCESS", "FAILED"} :
          proc' = [proc EXCEPT ![h].at = "save_status", ![h].verdict = s]
    BY <1>3 DEF Verify
  <2>3. proc' \in [Handlers -> Proc]
    BY <2>1, <2>2 DEF TypeOK
  <2>4. QED
    BY <1>3, <2>3 DEF Verify, TypeOK, MarketTypeOK, marketVars
<1>4. CASE SaveStatus(h)
  <2>1. proc[h].verdict = "NONE" \/ proc[h].verdict \in {"SUCCESS", "FAILED"}
    BY <1>1 DEF Proc
  <2>2. \A i \in Payments : [payment[i] EXCEPT !.status = proc[h].verdict] \in Payment
    BY <2>1 DEF TypeOK, Payment
  <2>3. payment' \in [Payments -> Payment]
    BY <1>4, <2>2 DEF SaveStatus, TypeOK
  <2>4. [proc[h] EXCEPT !.at = "load"] \in Proc
    BY <1>1, StageType DEF Stages
  <2>5. proc' \in [Handlers -> Proc]
    BY <1>1, <1>4, <2>4 DEF SaveStatus, TypeOK
  <2>6. QED
    BY <1>4, <2>3, <2>5 DEF SaveStatus, TypeOK, MarketTypeOK, marketVars
<1>5. CASE Interrupt(h)
  BY <1>1, <1>5, FailuresNat DEF Interrupt, TypeOK, MarketTypeOK, marketVars
<1>6. QED
  BY <1>2, <1>3, <1>4, <1>5

LEMMA LoadKeepsType ==
  ASSUME Rows, NEW h \in Handlers, Load(h) \/ SaveOffer(h) PROVE TypeOK'
<1>0. TypeOK /\ proc[h] \in Proc /\ NoProc \in Proc
  BY ProcFields, NothingIsProc DEF Rows
<1>1. CASE Load(h)
  <2>1. proc[h].at # "idle"
    BY <1>1 DEF Load
  <2>2. OfferOf(h) \in Offers
    BY <2>1 DEF Rows, ProcInv, Held, PaymentInv, OfferOf
  <2>3. [offer[OfferOf(h)] EXCEPT !.status = "ACCEPTED"] \in Offer /\ booking \in Booking
    BY <1>0, <2>2, OfferStatusType DEF TypeOK, MarketTypeOK, OfferStatuses
  <2>4. \A s \in {"split", "save_offer"} :
          [proc[h] EXCEPT !.at = s, !.draft = [offer[OfferOf(h)] EXCEPT !.status = "ACCEPTED"],
                          !.copy = booking] \in Proc
    BY <1>0, <2>3 DEF Proc, Stages
  <2>5. proc' \in [Handlers -> Proc]
    BY <1>0, <1>1, <2>4 DEF Load, TypeOK
  <2>6. QED
    BY <1>0, <1>1, <2>5 DEF Load, TypeOK, MarketTypeOK, marketVars
<1>2. CASE SaveOffer(h)
  <2>1. [proc[h] EXCEPT !.at = "split"] \in Proc /\ proc[h].draft \in Offer
    BY <1>0, StageType, ProcFields DEF Stages
  <2>2. QED
    BY <1>0, <1>2, <2>1 DEF SaveOffer, TypeOK, MarketTypeOK
<1>3. QED
  BY <1>1, <1>2

LEMMA SplitKeepsType ==
  ASSUME Rows, NEW h \in Handlers, SplitPayment(h) PROVE TypeOK'
<1>0. TypeOK /\ proc[h] \in Proc /\ proc[h].at = "split"
  BY ProcFields DEF Rows, SplitPayment
<1>1. proc[h].payment \in Payments /\ proc[h].draft.office \in Offices
  BY <1>0, LoadedOffice DEF Loaded
<1>2. payment[proc[h].payment].amount \in Int
  BY <1>0, <1>1 DEF TypeOK, Payment
<1>3. proc[h].draft.price \in Nat
  BY <1>0, PriceIsNat DEF Proc
<1>4. settings \in Rates
  BY <1>0, SettingsArePercentages DEF TypeOK, Rates
<1>5. credited[proc[h].draft.office] \in Nat /\ credited[Admin] \in Nat
  BY <1>0, <1>1 DEF TypeOK, Owners
<1> DEFINE share == Split(payment[proc[h].payment].amount, proc[h].draft.price, settings,
                          credited[proc[h].draft.office], credited[Admin])
<1>6. share \in [office : Nat, admin : Nat]
  BY <1>2, <1>3, <1>4, <1>5, SplitWithinBounds
<1>7. proc' = [proc EXCEPT ![h] = [proc[h] EXCEPT !.at = "save_booking", !.share = share]]
  BY <1>0 DEF SplitPayment, TypeOK
<1> HIDE DEF share
<1>8. [proc[h] EXCEPT !.at = "save_booking", !.share = share] \in Proc
  BY <1>0, <1>6 DEF Proc, Stages
<1>9. QED
  BY <1>0, <1>7, <1>8, ZenonT(30) DEF SplitPayment, TypeOK, MarketTypeOK, marketVars

LEMMA AfterPaymentIsStatus ==
  ASSUME NEW type, NEW s \in BookingStatuses \union {"NONE"}
  PROVE  AfterPayment(type, s) \in BookingStatuses \union {"NONE"}
  BY StatusesOfBooking DEF AfterPayment

LEMMA CreditKeepsType ==
  ASSUME Rows, NEW h \in Handlers, SaveBooking(h) \/ CreditOffice(h) \/ CreditAdmin(h)
  PROVE  TypeOK'
<1>0. /\ TypeOK /\ proc[h] \in Proc /\ NoProc \in Proc
      /\ proc[h].copy \in Booking /\ proc[h].share.office \in Nat /\ proc[h].share.admin \in Nat
  BY ProcFields, NothingIsProc DEF Rows
<1>1. OfferOf(h) \in Offers /\ proc[h].draft.office \in Offices
  BY LoadedOffice DEF Loaded, SaveBooking, CreditOffice, CreditAdmin, Rows, ProcInv, Held
<1>2. \A s \in Stages : [proc[h] EXCEPT !.at = s] \in Proc
  BY <1>0, StageType
<1>3. CASE SaveBooking(h)
  <2> DEFINE s == AfterPayment(payment[proc[h].payment].type, proc[h].copy.status)
             paid == proc[h].copy.paid + proc[h].share.office
  <2>1. s \in BookingStatuses \union {"NONE"} /\ paid \in Int
    BY <1>0, AfterPaymentIsStatus DEF Booking
  <2>2. booking' = [proc[h].copy EXCEPT !.selected = OfferOf(h), !.paid = paid, !.status = s]
    BY <1>0, <1>3 DEF SaveBooking, Booking
  <2> HIDE DEF s, paid
  <2>3. booking' \in Booking
    BY <1>0, <1>1, <2>1, <2>2 DEF Booking
  <2>4. ToCredit(proc[h].share) \in Stages
    BY DEF ToCredit, Stages
  <2>5. proc' \in [Handlers -> Proc]
    BY <1>0, <1>2, <1>3, <2>4 DEF SaveBooking, TypeOK
  <2>6. QED
    BY <1>0, <1>3, <2>3, <2>5 DEF SaveBooking, TypeOK, MarketTypeOK
<1>4. CASE CreditOffice(h)
  <2>1. credited' \in [Owners -> Nat]
    BY <1>0, <1>1, <1>4 DEF CreditOffice, TypeOK, Owners
  <2>2. proc' \in [Handlers -> Proc]
    BY <1>0, <1>2, <1>4 DEF CreditOffice, TypeOK, Stages
  <2>3. QED
    BY <1>0, <1>4, <2>1, <2>2 DEF CreditOffice, TypeOK, MarketTypeOK, marketVars
<1>5. CASE CreditAdmin(h)
  <2>1. credited' \in [Owners -> Nat]
    BY <1>0, <1>5 DEF CreditAdmin, TypeOK, Owners
  <2>2. QED
    BY <1>0, <1>5, <2>1 DEF CreditAdmin, TypeOK, MarketTypeOK, marketVars
<1>6. QED
  BY <1>3, <1>4, <1>5

LEMMA TypesStay ==
  ASSUME Rows, Next PROVE TypeOK'
<1>1. ASSUME NEW h \in Handlers, Begin(h) \/ Continue(h) \/ Interrupt(h) PROVE TypeOK'
  BY <1>1, BeginKeepsType, ChargeKeepsType, LoadKeepsType, SplitKeepsType, CreditKeepsType
  DEF Rows, Continue, SideEffect
<1>2. CASE Gateway
  BY <1>2 DEF Gateway, Settle, Rows, TypeOK, MarketTypeOK, marketVars
<1>3. CASE Market
  <2>1. MarketTypeOK'
    BY <1>3, MarketStepKeepsType, CreateBookingKeepsType DEF Market, Rows, TypeOK
  <2>2. QED
    BY <1>3, <2>1 DEF Market, payVars, Rows, TypeOK
<1>4. QED
  BY <1>1, <1>2, <1>3 DEF Next

-----------------------------------------------------------------------------
(* The rows *)

\* What a step of a payment request has to show: the rows others rely on are kept, and
\* what the request still holds is about them.
LEMMA OtherProcs ==
  ASSUME TypeOK, ProcInv, PaymentInv, NEW h \in Handlers, NEW p, proc' = [proc EXCEPT ![h] = p],
         OffersKept, PaymentsKept, Held(p, offer', payment', charge'),
         \A g \in Handlers \ {h} :
           proc[g].at = "charge" => /\ charge'[proc[g].payment] = "none"
                                    /\ p.at = "charge" => p.payment # proc[g].payment
  PROVE  ProcInv'
<1>1. proc'[h] = p /\ \A g \in Handlers \ {h} : proc'[g] = proc[g]
  BY DEF TypeOK
<1>2. ChargedByOne'
  BY <1>1 DEF ChargedByOne, ProcInv
<1>3. ASSUME NEW g \in Handlers, g # h PROVE Held(proc[g], offer', payment', charge')
  <2>1. Held(proc[g], offer, payment, charge)
    BY DEF ProcInv
  <2>2. proc[g].at # "idle" => /\ proc[g].payment \in Payments
                               /\ payment'[proc[g].payment].type = payment[proc[g].payment].type
                               /\ payment'[proc[g].payment].offer = payment[proc[g].payment].offer
                               /\ offer[payment[proc[g].payment].offer].status # "NONE"
                               /\ payment[proc[g].payment].offer \in Offers
    BY <2>1 DEF Held, PaymentInv, PaymentsKept
  <2>3. QED
    BY <1>3, <2>1, <2>2 DEF Held, OffersKept, PaymentsKept, Loaded
<1>4. QED
  BY <1>1, <1>2, <1>3 DEF ProcInv

LEMMA NothingHeld ==
  ASSUME NEW rows, NEW pays, NEW gateway PROVE Held(NoProc, rows, pays, gateway)
  BY DEF Held, NoProc, Loaded

LEMMA PaymentInvKept ==
  ASSUME PaymentInv, OffersKept, charge' = charge, payment' = payment PROVE PaymentInv'
  BY DEF PaymentInv, OffersKept

LEMMA OffersStay == ASSUME offer' = offer PROVE OffersKept
  BY DEF OffersKept

LEMMA BeginKeepsRows ==
  ASSUME Rows, NEW h \in Handlers, Begin(h)
  PROVE  PaymentsKept /\ PaymentInv' /\ ProcInv'
<1>0. TypeOK /\ PaymentInv /\ ProcInv /\ NoPayment.type = "NONE"
  BY DEF Rows, NoPayment
<1>1. ASSUME NEW i \in Payments, NEW row \in Payment, Initiate(h, i, row),
             row.status = "PENDING", row.type # "NONE", row.offer \in Offers,
             offer[row.offer].status # "NONE"
      PROVE  PaymentsKept /\ PaymentInv' /\ ProcInv'
  <2>1. /\ payment' = [payment EXCEPT ![i] = row] /\ payment[i].type = "NONE"
        /\ charge' = charge /\ offer' = offer
    BY <1>0, <1>1 DEF Initiate, marketVars
  <2>2. charge[i] = "none"
    BY <1>0, <2>1 DEF PaymentInv
  <2>3. PaymentsKept
    BY <1>0, <2>1 DEF PaymentsKept, TypeOK
  <2>4. PaymentInv'
    BY <1>0, <1>1, <2>1, <2>2 DEF PaymentInv, TypeOK
  <2> DEFINE p == [NoProc EXCEPT !.at = "charge", !.payment = i]
  <2>5. p.at = "charge" /\ p.payment = i /\ proc' = [proc EXCEPT ![h] = p]
    BY <1>1 DEF Initiate, NoProc
  <2> HIDE DEF p
  <2>6. Held(p, offer', payment', charge')
    BY <1>0, <1>1, <2>1, <2>2, <2>5 DEF Held, Loaded, TypeOK
  <2>7. \A g \in Handlers : proc[g].at = "charge" => /\ charge[proc[g].payment] = "none"
                                                     /\ proc[g].payment # i
    BY <1>0, <2>1 DEF ProcInv, Held
  <2>8. ProcInv'
    BY <1>0, <2>1, <2>3, <2>5, <2>6, <2>7, OffersStay, OtherProcs
  <2>9. QED
    BY <2>3, <2>4, <2>8
<1>2. ASSUME NEW i \in Payments, NEW o \in Offers, NEW discount \in Discounts,
             InitiatePartial(h, i, o, discount)
      PROVE  PaymentsKept /\ PaymentInv' /\ ProcInv'
  BY <1>0, <1>1, <1>2, PartialRow DEF InitiatePartial
<1>3. ASSUME NEW i \in Payments, NEW o \in Offers, NEW j \in Payments, InitiateFull(h, i, o, j)
      PROVE  PaymentsKept /\ PaymentInv' /\ ProcInv'
  BY <1>0, <1>1, <1>3, FullRow DEF InitiateFull
<1>4. ASSUME NEW i \in Payments, Webhook(h, i) \/ Redirect(h, i)
      PROVE  PaymentsKept /\ PaymentInv' /\ ProcInv'
  <2>1. PICK effects \in BOOLEAN : Notified(h, i, effects)
    BY <1>4 DEF Webhook, Redirect
  <2>2. payment' = payment /\ charge' = charge /\ offer' = offer /\ charge[i] # "none"
    BY <2>1 DEF Notified, marketVars
  <2> DEFINE p == [NoProc EXCEPT !.at = "verify", !.payment = i, !.effects = effects]
  <2>3. p.at = "verify" /\ p.payment = i /\ proc' = [proc EXCEPT ![h] = p]
    BY <2>1 DEF Notified, NoProc
  <2> HIDE DEF p
  <2>4. Held(p, offer', payment', charge')
    BY <1>0, <2>2, <2>3 DEF Held, Loaded, PaymentInv
  <2>5. PaymentsKept /\ OffersKept /\ PaymentInv'
    BY <1>0, <2>2, OffersStay, PaymentInvKept DEF PaymentsKept
  <2>6. \A g \in Handlers : proc[g].at = "charge" => charge'[proc[g].payment] = "none"
    BY <1>0, <2>2 DEF ProcInv, Held
  <2>7. QED
    BY <1>0, <2>3, <2>4, <2>5, <2>6, OtherProcs
<1>5. CASE UpsertPaymentSettings(h)
  BY <1>0, <1>5 DEF UpsertPaymentSettings, marketVars, PaymentsKept, PaymentInv, ProcInv, ChargedByOne
<1>6. QED
  BY <1>2, <1>3, <1>4, <1>5 DEF Begin

\* A step of a request that changes no row leaves the rows as good as they were.
LEMMA OnlyProc ==
  ASSUME TypeOK, PaymentInv, ProcInv, NEW h \in Handlers, NEW p,
         proc' = [proc EXCEPT ![h] = p], offer' = offer, payment' = payment, charge' = charge,
         Held(p, offer, payment, charge), p.at # "charge"
  PROVE  PaymentsKept /\ OffersKept /\ PaymentInv' /\ ProcInv'
<1>1. PaymentsKept /\ OffersKept /\ PaymentInv'
  BY OffersStay, PaymentInvKept DEF PaymentsKept
<1>2. \A g \in Handlers : proc[g].at = "charge" => charge'[proc[g].payment] = "none"
  BY DEF ProcInv, Held
<1>3. QED
  BY <1>1, <1>2, OtherProcs

LEMMA ChargeKeepsRows ==
  ASSUME Rows, NEW h \in Handlers,
         CreateCharge(h) \/ ChargeFails(h) \/ Verify(h) \/ SaveStatus(h) \/ Interrupt(h)
  PROVE  PaymentsKept /\ PaymentInv' /\ ProcInv' /\ offer' = offer
<1>0. /\ TypeOK /\ PaymentInv /\ ProcInv /\ proc[h] \in Proc
      /\ Held(proc[h], offer, payment, charge) /\ NoProc.at = "idle"
  BY ProcFields, NothingIsProc DEF Rows, ProcInv
<1>1. CASE CreateCharge(h)
  <2>1. /\ proc[h].at = "charge" /\ proc[h].payment \in Payments
        /\ payment[proc[h].payment].type # "NONE" /\ charge[proc[h].payment] = "none"
        /\ charge' = [charge EXCEPT ![proc[h].payment] = "INITIATED"]
        /\ proc' = [proc EXCEPT ![h] = NoProc] /\ payment' = payment /\ offer' = offer
    BY <1>0, <1>1 DEF CreateCharge, Held, marketVars
  <2>2. PaymentsKept /\ OffersKept
    BY <1>0, <2>1, OffersStay DEF PaymentsKept, TypeOK
  <2>3. PaymentInv'
    BY <1>0, <2>1 DEF PaymentInv, TypeOK
  <2>4. \A g \in Handlers \ {h} : proc[g].at = "charge" => charge'[proc[g].payment] = "none"
    BY <1>0, <2>1 DEF ProcInv, ChargedByOne, Held, TypeOK
  <2>5. QED
    BY <1>0, <2>1, <2>2, <2>3, <2>4, NothingHeld, OtherProcs
<1>2. CASE ChargeFails(h) \/ Interrupt(h)
  <2>1. /\ proc' = [proc EXCEPT ![h] = NoProc]
        /\ offer' = offer /\ payment' = payment /\ charge' = charge
    BY <1>2 DEF ChargeFails, Interrupt, marketVars
  <2>2. QED
    BY <1>0, <2>1, NothingHeld, OnlyProc
<1>3. CASE Verify(h)
  <2> DEFINE verdict == IF charge[proc[h].payment] = "CAPTURED" THEN "SUCCESS" ELSE "FAILED"
             p == [proc[h] EXCEPT !.at = "save_status", !.verdict = verdict]
  <2>1. /\ proc[h].at = "verify" /\ proc' = [proc EXCEPT ![h] = p]
        /\ offer' = offer /\ payment' = payment /\ charge' = charge
    BY <1>0, <1>3 DEF Verify, marketVars, TypeOK
  <2>2. /\ p.at = "save_status" /\ p.payment = proc[h].payment
        /\ p.verdict = "SUCCESS" => charge[proc[h].payment] = "CAPTURED"
    BY <1>0 DEF Proc
  <2> HIDE DEF p
  <2>3. Held(p, offer, payment, charge)
    BY <1>0, <2>1, <2>2 DEF Held, Loaded
  <2>4. QED
    BY <1>0, <2>1, <2>2, <2>3, OnlyProc
<1>4. CASE SaveStatus(h)
  <2> DEFINE i == proc[h].payment
  <2>1. /\ proc[h].at = "save_status" /\ i \in Payments /\ payment[i].type # "NONE"
        /\ proc[h].verdict = "SUCCESS" => charge[i] = "CAPTURED"
        /\ payment' = [payment EXCEPT ![i].status = proc[h].verdict]
        /\ offer' = offer /\ charge' = charge
    BY <1>0, <1>4 DEF SaveStatus, marketVars, Held
  <2>2. /\ payment'[i].type = payment[i].type /\ payment'[i].offer = payment[i].offer
        /\ payment'[i].status = proc[h].verdict
        /\ \A j \in Payments \ {i} : payment'[j] = payment[j]
    BY <1>0, <2>1 DEF TypeOK, Payment
  <2> DEFINE p == IF proc[h].verdict = "SUCCESS" /\ proc[h].effects
                  THEN [proc[h] EXCEPT !.at = "load"] ELSE NoProc
  <2>3. proc' = [proc EXCEPT ![h] = p]
    BY <1>0, <1>4 DEF SaveStatus, TypeOK
  <2>4. p.at # "idle" => p.at = "load" /\ p.payment = i /\ proc[h].verdict = "SUCCESS"
    BY <1>0 DEF Proc
  <2>5. p.at # "charge"
    BY <1>0, <2>4
  <2> HIDE DEF p, i
  <2>6. Held(p, offer', payment', charge')
    BY <2>1, <2>2, <2>4 DEF Held, Loaded
  <2>7. PaymentsKept /\ OffersKept /\ PaymentInv'
    BY <1>0, <2>1, <2>2, OffersStay DEF PaymentsKept, PaymentInv
  <2>8. \A g \in Handlers : proc[g].at = "charge" => charge'[proc[g].payment] = "none"
    BY <1>0, <2>1 DEF ProcInv, Held
  <2>9. QED
    BY <1>0, <2>1, <2>3, <2>5, <2>6, <2>7, <2>8, OtherProcs, ZenonT(30)
<1>5. QED
  BY <1>1, <1>2, <1>3, <1>4

\* Later stages know no more than what is known once the offer is loaded.
LEMMA StageHeld ==
  ASSUME NEW p \in Proc, NEW s \in Loaded, NEW rows, NEW pays, NEW gateway,
         Held(p, rows, pays, gateway), p.at \in Loaded
  PROVE  Held([p EXCEPT !.at = s], rows, pays, gateway)
<1> DEFINE q == [p EXCEPT !.at = s]
<1>1. q.at = s /\ q.payment = p.payment /\ q.draft = p.draft
  BY DEF Proc
<1>2. s \notin {"idle", "charge", "save_status", "load"} /\ p.at # "idle"
  BY DEF Loaded
<1> HIDE DEF q
<1>3. Held(q, rows, pays, gateway)
  BY <1>1, <1>2 DEF Held
<1>4. QED
  BY <1>3 DEF q

LEMMA SideEffectKeepsRows ==
  ASSUME Rows, NEW h \in Handlers,
         Load(h) \/ SplitPayment(h) \/ SaveBooking(h) \/ CreditOffice(h) \/ CreditAdmin(h)
  PROVE  PaymentsKept /\ PaymentInv' /\ ProcInv' /\ offer' = offer
<1>0. /\ TypeOK /\ PaymentInv /\ ProcInv /\ proc[h] \in Proc
      /\ Held(proc[h], offer, payment, charge) /\ NoProc.at = "idle"
  BY ProcFields, NothingIsProc DEF Rows, ProcInv
<1>1. offer' = offer /\ payment' = payment /\ charge' = charge
  BY DEF Load, SplitPayment, SaveBooking, CreditOffice, CreditAdmin, marketVars
<1>2. ASSUME NEW p, proc' = [proc EXCEPT ![h] = p], Held(p, offer, payment, charge), p.at # "charge"
      PROVE  PaymentsKept /\ PaymentInv' /\ ProcInv' /\ offer' = offer
  BY <1>0, <1>1, <1>2, OnlyProc
<1>3. CASE proc' = [proc EXCEPT ![h] = NoProc]
  BY <1>0, <1>2, <1>3, NothingHeld
<1>4. ASSUME NEW s \in Loaded, proc[h].at \in Loaded,
             proc' = [proc EXCEPT ![h] = [proc[h] EXCEPT !.at = s]]
      PROVE  PaymentsKept /\ PaymentInv' /\ ProcInv' /\ offer' = offer
  <2>1. [proc[h] EXCEPT !.at = s].at # "charge"
    BY <1>0 DEF Loaded, Proc
  <2>2. QED
    BY <1>0, <1>2, <1>4, <2>1, StageHeld
<1>5. CASE Load(h)
  <2>1. CASE ~ Found
    BY <1>0, <1>3, <1>5, <2>1 DEF Load, TypeOK
  <2>2. CASE Found
    <3> DEFINE row == [offer[OfferOf(h)] EXCEPT !.status = "ACCEPTED"]
               s == IF offer[OfferOf(h)].status = "ACCEPTED" THEN "split" ELSE "save_offer"
               p == [proc[h] EXCEPT !.at = s, !.draft = row, !.copy = booking]
    <3>1. proc' = [proc EXCEPT ![h] = p]
      BY <1>0, <1>5, <2>2 DEF Load, TypeOK
    <3>2. /\ proc[h].at = "load" /\ proc[h].payment \in Payments
          /\ payment[proc[h].payment].type # "NONE" /\ charge[proc[h].payment] = "CAPTURED"
          /\ OfferOf(h) \in Offers
      BY <1>0, <1>5 DEF Load, Held, PaymentInv, OfferOf
    <3>3. row.status = "ACCEPTED" /\ row.office = offer[OfferOf(h)].office
      BY <1>0, <3>2 DEF TypeOK, MarketTypeOK, Offer
    <3>4. s \in {"split", "save_offer"}
      OBVIOUS
    <3> HIDE DEF row, s
    <3>5. p.at = s /\ p.payment = proc[h].payment /\ p.draft = row
      BY <1>0 DEF Proc
    <3> HIDE DEF p
    <3>6. Held(p, offer, payment, charge) /\ p.at # "charge"
      BY <3>2, <3>3, <3>4, <3>5 DEF Held, Loaded, OfferOf
    <3>7. QED
      BY <1>2, <3>1, <3>6
  <2>3. QED
    BY <2>1, <2>2
<1>6. CASE SplitPayment(h)
  <2> DEFINE share == Split(payment[proc[h].payment].amount, proc[h].draft.price, settings,
                            credited[proc[h].draft.office], credited[Admin])
  <2>1. proc' = [proc EXCEPT ![h] = [proc[h] EXCEPT !.at = "save_booking", !.share = share]]
    BY <1>0, <1>6 DEF SplitPayment, TypeOK
  <2> HIDE DEF share
  <2> DEFINE p == [proc[h] EXCEPT !.at = "save_booking", !.share = share]
  <2>2. p.at = "save_booking" /\ p.payment = proc[h].payment /\ p.draft = proc[h].draft
    BY <1>0 DEF Proc
  <2>3. proc[h].at \in Loaded /\ proc[h].at # "idle"
    BY <1>6 DEF SplitPayment, Loaded
  <2>4. proc' = [proc EXCEPT ![h] = p]
    BY <2>1
  <2> HIDE DEF p
  <2>5. Held(p, offer, payment, charge) /\ p.at # "charge"
    BY <1>0, <2>2, <2>3 DEF Held, Loaded
  <2>6. QED
    BY <1>2, <2>4, <2>5
<1>7. CASE SaveBooking(h)
  <2>1. proc[h].at \in Loaded /\ ToCredit(proc[h].share) \in {"credit_office", "credit_admin", "idle"}
    BY <1>7 DEF SaveBooking, Loaded, ToCredit
  <2>2. \/ proc' = [proc EXCEPT ![h] = NoProc]
        \/ /\ ToCredit(proc[h].share) # "idle"
           /\ proc' = [proc EXCEPT ![h] = [proc[h] EXCEPT !.at = ToCredit(proc[h].share)]]
    BY <1>0, <1>7 DEF SaveBooking, TypeOK
  <2>3. QED
    BY <1>3, <1>4, <2>1, <2>2 DEF Loaded
<1>8. CASE CreditOffice(h) \/ CreditAdmin(h)
  <2>1. proc[h].at \in Loaded /\ "credit_admin" \in Loaded
    BY <1>8 DEF CreditOffice, CreditAdmin, Loaded
  <2>2. \/ proc' = [proc EXCEPT ![h] = NoProc]
        \/ proc' = [proc EXCEPT ![h] = [proc[h] EXCEPT !.at = "credit_admin"]]
    BY <1>0, <1>8 DEF CreditOffice, CreditAdmin, TypeOK
  <2>3. QED
    BY <1>3, <1>4, <2>1, <2>2
<1>9. QED
  BY <1>5, <1>6, <1>7, <1>8

LEMMA SaveOfferKeepsRows ==
  ASSUME Rows, NEW h \in Handlers, SaveOffer(h)
  PROVE  /\ PaymentsKept /\ OffersKept /\ PaymentInv' /\ ProcInv' /\ OfferInv'
         /\ OfficesMadeThem'
<1>0. /\ TypeOK /\ PaymentInv /\ ProcInv /\ OfferInv /\ OfficesMadeThem /\ proc[h] \in Proc
      /\ Held(proc[h], offer, payment, charge) /\ proc[h].at \in Loaded
  BY ProcFields DEF Rows, ProcInv, SaveOffer, Loaded
<1>1. /\ OfferOf(h) \in Offers /\ offer[OfferOf(h)].status # "NONE"
      /\ proc[h].draft.office = offer[OfferOf(h)].office /\ proc[h].draft.status # "NONE"
  BY <1>0, LoadedOffice DEF Held
<1>2. /\ offer' = [offer EXCEPT ![OfferOf(h)] = proc[h].draft]
      /\ payment' = payment /\ charge' = charge /\ task' = task
      /\ proc' = [proc EXCEPT ![h] = [proc[h] EXCEPT !.at = "split"]]
  BY <1>0 DEF SaveOffer, TypeOK
<1>3. /\ OffersKept /\ \A o \in Offers : offer[o].status = "NONE" => offer'[o] = offer[o]
  BY <1>0, <1>1, <1>2 DEF OffersKept, TypeOK, MarketTypeOK
<1>4. PaymentsKept /\ PaymentInv'
  BY <1>0, <1>2, <1>3, PaymentInvKept DEF PaymentsKept
<1>5. OfficesMadeThem'
  BY <1>0, <1>3 DEF OfficesMadeThem, OffersKept
<1>6. OfferInv'
  <2>1. ASSUME NEW g \in Handlers, Sound(task[g], offer) PROVE Sound(task[g], offer')
    BY <1>3, <2>1 DEF Sound, OffersKept, NoOffer, Making, Deciding
  <2>2. QED
    BY <1>0, <1>2, <2>1 DEF OfferInv, Alone
<1>7. ProcInv'
  <2>1. Held([proc[h] EXCEPT !.at = "split"], offer, payment, charge)
    BY <1>0, StageHeld DEF Loaded
  <2> DEFINE p == [proc[h] EXCEPT !.at = "split"]
  <2>2. p.at = "split" /\ p.payment = proc[h].payment /\ p.draft = proc[h].draft
    BY <1>0 DEF Proc
  <2> HIDE DEF p
  <2>3. Held(p, offer', payment', charge')
    BY <1>0, <1>1, <1>2, <2>2, LoadedOffice DEF Held, Loaded, TypeOK, MarketTypeOK, OfferOf
  <2>4. \A g \in Handlers : proc[g].at = "charge" => charge'[proc[g].payment] = "none"
    BY <1>0, <1>2 DEF ProcInv, Held
  <2>5. proc' = [proc EXCEPT ![h] = p]
    BY <1>2 DEF p
  <2>6. QED
    BY <1>0, <1>3, <1>4, <2>2, <2>3, <2>4, <2>5, OtherProcs
<1>8. QED
  BY <1>3, <1>4, <1>5, <1>6, <1>7

LEMMA MarketKeepsRows ==
  ASSUME Rows, Market
  PROVE  PaymentsKept /\ OffersKept /\ PaymentInv' /\ ProcInv' /\ OfferInv' /\ OfficesMadeThem'
<1>0. /\ MarketTypeOK /\ OfferInv /\ OfficesMadeThem /\ PaymentInv /\ ProcInv
      /\ payment' = payment /\ charge' = charge /\ proc' = proc
  BY DEF Rows, TypeOK, Market, payVars
<1>1. OffersKept /\ OfferInv' /\ OfficesMadeThem'
  <2>1. ASSUME NEW h \in Handlers, MarketStep(h) PROVE OffersKept /\ OfferInv' /\ OfficesMadeThem'
    BY <1>0, <2>1, StepKeepsOffers, StepKeepsOfferInv, StepKeepsMakers
  <2>2. CASE CreateBooking
    BY <1>0, <2>2 DEF CreateBooking, OffersKept, OfferInv, Alone, OfficesMadeThem
  <2>3. QED
    BY <2>1, <2>2 DEF Market
<1>2. PaymentsKept /\ PaymentInv'
  BY <1>0, <1>1, PaymentInvKept DEF PaymentsKept
<1>3. ASSUME NEW h \in Handlers PROVE Held(proc[h], offer', payment', charge')
  <2>1. Held(proc[h], offer, payment, charge)
    BY <1>0 DEF ProcInv
  <2>2. proc[h].at # "idle" => /\ payment[proc[h].payment].offer \in Offers
                               /\ offer[payment[proc[h].payment].offer].status # "NONE"
    BY <1>0, <2>1 DEF Held, PaymentInv
  <2>3. QED
    BY <1>0, <1>1, <2>1, <2>2 DEF Held, OffersKept, Loaded
<1>4. ProcInv'
  BY <1>0, <1>3 DEF ProcInv, ChargedByOne
<1>5. QED
  BY <1>1, <1>2, <1>4

LEMMA GatewayKeepsRows ==
  ASSUME Rows, Gateway
  PROVE  PaymentsKept /\ PaymentInv' /\ ProcInv' /\ offer' = offer
<1>0. TypeOK /\ PaymentInv /\ ProcInv
  BY DEF Rows
<1>1. PICK i \in Payments, outcome \in {"CAPTURED", "DECLINED"} : Settle(i, outcome)
  BY DEF Gateway
<1>2. /\ charge[i] = "INITIATED" /\ charge' = [charge EXCEPT ![i] = outcome]
      /\ offer' = offer /\ payment' = payment /\ proc' = proc
  BY <1>1 DEF Settle, marketVars
<1>3. /\ charge'[i] = outcome
      /\ \A j \in Payments \ {i} : charge'[j] = charge[j]
  BY <1>0, <1>2 DEF TypeOK
<1>4. PaymentsKept /\ PaymentInv'
  BY <1>0, <1>2, <1>3 DEF PaymentsKept, PaymentInv
<1>5. ASSUME NEW h \in Handlers, Held(proc[h], offer, payment, charge)
      PROVE  Held(proc[h], offer, payment, charge')
  <2>1. Loaded \subseteq Stages /\ "idle" \notin Loaded
    BY DEF Loaded, Stages
  <2>2. QED
    BY <1>2, <1>3, <1>5, <2>1 DEF Held
<1>6. ProcInv'
  BY <1>0, <1>2, <1>5 DEF ProcInv, ChargedByOne
<1>7. QED
  BY <1>2, <1>4, <1>6

LEMMA RowsStay ==
  ASSUME Rows, Next PROVE Rows' /\ PaymentsKept /\ OffersKept
<1>0. TypeOK' /\ OfferInv /\ OfficesMadeThem
  BY TypesStay DEF Rows
<1>1. ASSUME offer' = offer, task' = task PROVE OffersKept /\ OfferInv' /\ OfficesMadeThem'
  BY <1>0, <1>1, OffersStay DEF OfferInv, Alone, OfficesMadeThem
<1>2. ASSUME NEW h \in Handlers, Begin(h) \/ Continue(h) \/ Interrupt(h)
      PROVE  PaymentsKept /\ OffersKept /\ PaymentInv' /\ ProcInv' /\ OfferInv' /\ OfficesMadeThem'
  <2>1. CASE SaveOffer(h)
    BY <2>1, SaveOfferKeepsRows
  <2>2. CASE Begin(h)
    <3>1. offer' = offer /\ task' = task
      BY <2>2 DEF Begin, InitiatePartial, InitiateFull, Initiate, Webhook, Redirect, Notified,
                  UpsertPaymentSettings, marketVars
    <3>2. QED
      BY <1>1, <2>2, <3>1, BeginKeepsRows
  <2>3. CASE CreateCharge(h) \/ ChargeFails(h) \/ Verify(h) \/ SaveStatus(h) \/ Interrupt(h)
    <3>1. task' = task
      BY <2>3 DEF CreateCharge, ChargeFails, Verify, SaveStatus, Interrupt, marketVars
    <3>2. QED
      BY <1>1, <2>3, <3>1, ChargeKeepsRows
  <2>4. CASE Load(h) \/ SplitPayment(h) \/ SaveBooking(h) \/ CreditOffice(h) \/ CreditAdmin(h)
    <3>1. task' = task
      BY <2>4 DEF Load, SplitPayment, SaveBooking, CreditOffice, CreditAdmin, marketVars
    <3>2. QED
      BY <1>1, <2>4, <3>1, SideEffectKeepsRows
  <2>5. QED
    BY <1>2, <2>1, <2>2, <2>3, <2>4 DEF Continue, SideEffect
<1>3. CASE Gateway
  <2>1. task' = task
    BY <1>3 DEF Gateway, Settle, marketVars
  <2>2. QED
    BY <1>0, <1>1, <1>3, <2>1, GatewayKeepsRows DEF Rows
<1>4. CASE Market
  BY <1>0, <1>4, MarketKeepsRows DEF Rows
<1>5. QED
  BY <1>0, <1>2, <1>3, <1>4 DEF Next, Rows

-----------------------------------------------------------------------------
(* The selection *)

LEMMA SelectionStays ==
  ASSUME CheckoutInv, Next PROVE SelectionBacked'
<1>0. /\ TypeOK /\ OfferInv /\ SelectionBacked /\ OffersKept /\ Rows
      /\ booking \in Booking
  BY RowsStay DEF CheckoutInv, Rows, TypeOK, MarketTypeOK
<1>1. CASE booking' = booking
  <2>1. booking.selected \in Offers \union {None}
    BY <1>0 DEF Booking
  <2>2. QED
    BY <1>0, <1>1, <2>1 DEF SelectionBacked, OffersKept
<1>2. ASSUME NEW h \in Handlers, SaveBooking(h) PROVE SelectionBacked'
  <2>1. OfferOf(h) \in Offers /\ offer[OfferOf(h)].status # "NONE"
    BY <1>0, <1>2, LoadedOffice DEF SaveBooking, Loaded
  <2>2. booking'.selected = OfferOf(h)
    BY <1>0, <1>2, ProcFields DEF SaveBooking, Booking
  <2>3. QED
    BY <1>0, <2>1, <2>2, NoneIsNoOffer DEF SelectionBacked, OffersKept
<1>3. CASE Market
  <2>1. ASSUME NEW h \in Handlers, MarketStep(h) PROVE SelectionBacked'
    BY <1>0, <2>1, StepKeepsSelection DEF MarketInv, TypeOK
  <2>2. CASE CreateBooking
    BY <2>2 DEF CreateBooking, NoBooking, SelectionBacked
  <2>3. QED
    BY <1>3, <2>1, <2>2 DEF Market
<1>4. ASSUME NEW h \in Handlers, Begin(h) \/ Continue(h) \/ Interrupt(h)
      PROVE  booking' = booking \/ SaveBooking(h)
  <2>1. CASE Begin(h)
    BY <2>1 DEF Begin, InitiatePartial, InitiateFull, Initiate, Webhook, Redirect, Notified,
                UpsertPaymentSettings, marketVars
  <2>2. CASE Continue(h)
    BY <2>2 DEF Continue, SideEffect, CreateCharge, ChargeFails, Verify, SaveStatus, Load,
                SaveOffer, SplitPayment, CreditOffice, CreditAdmin, marketVars
  <2>3. CASE Interrupt(h)
    BY <2>3 DEF Interrupt, marketVars
  <2>4. QED
    BY <1>4, <2>1, <2>2, <2>3
<1>5. CASE Gateway
  BY <1>1, <1>5 DEF Gateway, Settle, marketVars
<1>6. QED
  BY <1>1, <1>2, <1>3, <1>4, <1>5 DEF Next

-----------------------------------------------------------------------------
(* The money *)

LEMMA CaptureLasts ==
  ASSUME PaymentInv, PaymentsKept, NEW type, "NONE" \notin type, Captured(type)
  PROVE  Captured(type)'
<1>1. PICK i \in Payments : payment[i].type \in type /\ charge[i] = "CAPTURED"
  BY DEF Captured
<1>2. payment'[i].type \in type /\ charge'[i] = "CAPTURED"
  BY <1>1 DEF PaymentInv, PaymentsKept
<1>3. QED
  BY <1>2 DEF Captured

LEMMA OfficeCaptureLasts ==
  ASSUME PaymentInv, PaymentsKept, OffersKept, NEW f, NEW i \in Payments,
         charge[i] = "CAPTURED", offer[payment[i].offer].office = f
  PROVE  charge'[i] = "CAPTURED" /\ offer'[payment'[i].offer].office = f
  BY DEF PaymentInv, PaymentsKept, OffersKept

\* A request whose side effects run is about a payment that was captured.
LEMMA LoadedIsCaptured ==
  ASSUME Rows, NEW h \in Handlers, proc[h].at \in Loaded
  PROVE  /\ Captured(Paid)
         /\ payment[proc[h].payment].type \in Paid
         /\ payment[proc[h].payment].type # "BOOKING_PARTIAL" => Captured({"BOOKING_FULL"})
<1>1. proc[h].payment \in Payments /\ charge[proc[h].payment] = "CAPTURED"
  BY LoadedOffice
<1>2. payment[proc[h].payment].type \in Paid
  BY <1>1 DEF Rows, PaymentInv, TypeOK, Payment, Paid
<1>3. QED
  BY <1>1, <1>2 DEF Captured, Paid

\* A step that leaves the booking and the credits alone, and copies at most the booking.
LEMMA MoneyFrame ==
  ASSUME CheckoutInv, PaymentsKept, OffersKept,
         booking' = booking, task' = task, credited' = credited,
         \A g \in Handlers : proc'[g].at \in Loaded =>
           \/ proc[g].at \in Loaded /\ proc'[g].copy = proc[g].copy
           \/ proc'[g].copy = booking
  PROVE  MoneyInv'
<1>1. PaymentInv /\ MoneyInv /\ "NONE" \notin Paid /\ "NONE" \notin {"BOOKING_FULL"}
  BY DEF CheckoutInv, Rows, Paid
<1>2. (Captured(Paid) => Captured(Paid)')
      /\ (Captured({"BOOKING_FULL"}) => Captured({"BOOKING_FULL"})')
  BY <1>1, CaptureLasts
<1>3. \A f \in Offices :
        credited'[f] > 0 => \E i \in Payments : /\ charge'[i] = "CAPTURED"
                                               /\ offer'[payment'[i].offer].office = f
  BY <1>1, OfficeCaptureLasts DEF MoneyInv
<1>4. \A g \in Handlers : proc'[g].at \in Loaded /\ proc'[g].copy.status = "COMPLETED"
        => Captured({"BOOKING_FULL"})
  BY <1>1 DEF MoneyInv
<1>5. QED
  BY <1>1, <1>2, <1>3, <1>4 DEF MoneyInv

LEMMA BeginKeepsMoney ==
  ASSUME CheckoutInv, PaymentsKept, OffersKept, NEW h \in Handlers,
         Begin(h) \/ Interrupt(h) \/ CreateCharge(h) \/ ChargeFails(h) \/ Verify(h) \/ SaveStatus(h)
  PROVE  MoneyInv'
<1>0. TypeOK /\ proc[h] \in Proc /\ NoProc.at \notin Loaded
  BY ProcFields, NothingIsProc DEF CheckoutInv, Rows, Loaded
<1>1. ASSUME booking' = booking, task' = task, credited' = credited,
             NEW p, p.at \notin Loaded, proc' = [proc EXCEPT ![h] = p]
      PROVE  MoneyInv'
  BY <1>0, <1>1, MoneyFrame DEF TypeOK
<1>2. CASE Begin(h)
  <2>1. booking' = booking /\ task' = task /\ credited' = credited
    BY <1>2 DEF Begin, InitiatePartial, InitiateFull, Initiate, Webhook, Redirect, Notified,
                UpsertPaymentSettings, marketVars
  <2>2. \A i : [NoProc EXCEPT !.at = "charge", !.payment = i].at \notin Loaded
    BY DEF NoProc, Loaded
  <2>3. \A i, e : [NoProc EXCEPT !.at = "verify", !.payment = i, !.effects = e].at \notin Loaded
    BY DEF NoProc, Loaded
  <2>4. CASE proc' = proc
    BY <1>0, <2>1, <2>4, MoneyFrame
  <2>5. ASSUME NEW i \in Payments, NEW row, Initiate(h, i, row) PROVE MoneyInv'
    BY <1>1, <2>1, <2>2, <2>5 DEF Initiate
  <2>6. ASSUME NEW i \in Payments, NEW effects, Notified(h, i, effects) PROVE MoneyInv'
    BY <1>1, <2>1, <2>3, <2>6 DEF Notified
  <2>7. QED
    BY <1>2, <2>4, <2>5, <2>6
    DEF Begin, InitiatePartial, InitiateFull, Webhook, Redirect, UpsertPaymentSettings
<1>3. CASE Interrupt(h) \/ CreateCharge(h) \/ ChargeFails(h)
  BY <1>0, <1>1, <1>3 DEF Interrupt, CreateCharge, ChargeFails, marketVars
<1>4. CASE Verify(h)
  <2> DEFINE verdict == IF charge[proc[h].payment] = "CAPTURED" THEN "SUCCESS" ELSE "FAILED"
             p == [proc[h] EXCEPT !.at = "save_status", !.verdict = verdict]
  <2>1. p.at \notin Loaded
    BY <1>0 DEF Proc, Loaded
  <2>2. /\ booking' = booking /\ task' = task /\ credited' = credited
        /\ proc' = [proc EXCEPT ![h] = p]
    BY <1>0, <1>4 DEF Verify, marketVars, TypeOK
  <2> HIDE DEF p
  <2>3. QED
    BY <1>1, <2>1, <2>2
<1>5. CASE SaveStatus(h)
  <2> DEFINE p == IF proc[h].verdict = "SUCCESS" /\ proc[h].effects
                  THEN [proc[h] EXCEPT !.at = "load"] ELSE NoProc
  <2>1. p.at \notin Loaded
    BY <1>0 DEF Proc, Loaded
  <2>2. /\ booking' = booking /\ task' = task /\ credited' = credited
        /\ proc' = [proc EXCEPT ![h] = p]
    BY <1>0, <1>5 DEF SaveStatus, marketVars, TypeOK
  <2> HIDE DEF p
  <2>3. QED
    BY <1>1, <2>1, <2>2
<1>6. QED
  BY <1>2, <1>3, <1>4, <1>5

LEMMA LoadKeepsMoney ==
  ASSUME CheckoutInv, PaymentsKept, OffersKept, NEW h \in Handlers,
         Load(h) \/ SaveOffer(h) \/ SplitPayment(h)
  PROVE  MoneyInv'
<1>0. TypeOK /\ proc[h] \in Proc
  BY ProcFields DEF CheckoutInv, Rows
<1>1. booking' = booking /\ task' = task /\ credited' = credited
  BY DEF Load, SaveOffer, SplitPayment, marketVars
<1>2. ASSUME NEW p, proc' = [proc EXCEPT ![h] = p],
             \/ p.at \notin Loaded
             \/ p.copy = booking
             \/ proc[h].at \in Loaded /\ p.copy = proc[h].copy
      PROVE  MoneyInv'
  BY <1>0, <1>1, <1>2, MoneyFrame DEF TypeOK
<1>3. CASE Load(h)
  <2>1. NoProc.at \notin Loaded
    BY NothingIsProc DEF Loaded
  <2>2. PICK s, row :
          \/ proc' = [proc EXCEPT ![h] = NoProc]
          \/ proc' = [proc EXCEPT ![h] = [proc[h] EXCEPT !.at = s, !.draft = row, !.copy = booking]]
    BY <1>0, <1>3 DEF Load, TypeOK
  <2>3. [proc[h] EXCEPT !.at = s, !.draft = row, !.copy = booking].copy = booking
    BY <1>0 DEF Proc
  <2>4. QED
    BY <1>2, <2>1, <2>2, <2>3
<1>4. CASE SaveOffer(h)
  <2>1. proc[h].at \in Loaded /\ proc' = [proc EXCEPT ![h] = [proc[h] EXCEPT !.at = "split"]]
    BY <1>0, <1>4 DEF SaveOffer, Loaded, TypeOK
  <2>2. [proc[h] EXCEPT !.at = "split"].copy = proc[h].copy
    BY <1>0 DEF Proc
  <2>3. QED
    BY <1>2, <2>1, <2>2
<1>5. CASE SplitPayment(h)
  <2> DEFINE share == Split(payment[proc[h].payment].amount, proc[h].draft.price, settings,
                            credited[proc[h].draft.office], credited[Admin])
             p == [proc[h] EXCEPT !.at = "save_booking", !.share = share]
  <2>1. proc[h].at \in Loaded /\ proc' = [proc EXCEPT ![h] = p]
    BY <1>0, <1>5 DEF SplitPayment, Loaded, TypeOK
  <2> HIDE DEF share
  <2>2. p.copy = proc[h].copy
    BY <1>0 DEF Proc
  <2> HIDE DEF p
  <2>3. QED
    BY <1>2, <2>1, <2>2
<1>6. QED
  BY <1>3, <1>4, <1>5

LEMMA SaveBookingKeepsMoney ==
  ASSUME CheckoutInv, PaymentsKept, OffersKept, NEW h \in Handlers, SaveBooking(h)
  PROVE  MoneyInv'
<1>0. /\ TypeOK /\ Rows /\ PaymentInv /\ MoneyInv /\ proc[h] \in Proc /\ proc[h].at \in Loaded
      /\ "NONE" \notin Paid /\ "NONE" \notin {"BOOKING_FULL"}
  BY ProcFields DEF CheckoutInv, Rows, SaveBooking, Loaded, Paid
<1>1. /\ Captured(Paid) /\ payment[proc[h].payment].type \in Paid
      /\ payment[proc[h].payment].type # "BOOKING_PARTIAL" => Captured({"BOOKING_FULL"})
      /\ proc[h].copy.status = "COMPLETED" => Captured({"BOOKING_FULL"})
  BY <1>0, LoadedIsCaptured DEF MoneyInv
<1>2. (Captured(Paid) => Captured(Paid)')
      /\ (Captured({"BOOKING_FULL"}) => Captured({"BOOKING_FULL"})')
  BY <1>0, CaptureLasts
<1>3. booking'.status = AfterPayment(payment[proc[h].payment].type, proc[h].copy.status)
  BY <1>0, ProcFields DEF SaveBooking, Booking
<1>4. booking'.status = "COMPLETED" => Captured({"BOOKING_FULL"})
  BY <1>1, <1>3 DEF AfterPayment
<1>5. task' = task /\ credited' = credited
  BY DEF SaveBooking
<1>6. \A f \in Offices :
        credited'[f] > 0 => \E i \in Payments : /\ charge'[i] = "CAPTURED"
                                               /\ offer'[payment'[i].offer].office = f
  BY <1>0, <1>5, OfficeCaptureLasts DEF MoneyInv
<1>7. \A g \in Handlers : proc'[g].at \in Loaded /\ proc'[g].copy.status = "COMPLETED"
        => Captured({"BOOKING_FULL"})
  <2>1. proc'[h].at \in Loaded => proc'[h].copy = proc[h].copy
    BY <1>0, NothingIsProc DEF SaveBooking, TypeOK, Loaded, Proc
  <2>2. \A g \in Handlers \ {h} : proc'[g] = proc[g]
    BY <1>0 DEF SaveBooking, TypeOK
  <2>3. QED
    BY <1>0, <1>1, <2>1, <2>2 DEF MoneyInv
<1>8. QED
  BY <1>1, <1>2, <1>4, <1>5, <1>6, <1>7 DEF MoneyInv

LEMMA CreditKeepsMoney ==
  ASSUME CheckoutInv, PaymentsKept, OffersKept, NEW h \in Handlers,
         CreditOffice(h) \/ CreditAdmin(h)
  PROVE  MoneyInv'
<1>0. /\ TypeOK /\ Rows /\ PaymentInv /\ MoneyInv /\ proc[h] \in Proc /\ proc[h].at \in Loaded
      /\ "NONE" \notin Paid /\ "NONE" \notin {"BOOKING_FULL"}
  BY ProcFields DEF CheckoutInv, Rows, CreditOffice, CreditAdmin, Loaded, Paid
<1>1. (Captured(Paid) => Captured(Paid)')
      /\ (Captured({"BOOKING_FULL"}) => Captured({"BOOKING_FULL"})')
  BY <1>0, CaptureLasts
<1>2. booking' = booking /\ task' = task
  BY DEF CreditOffice, CreditAdmin, marketVars
<1>3. \A f \in Offices :
        credited'[f] > 0 => \E i \in Payments : /\ charge'[i] = "CAPTURED"
                                               /\ offer'[payment'[i].offer].office = f
  <2> SUFFICES ASSUME NEW f \in Offices, credited'[f] > 0
               PROVE  \E i \in Payments : /\ charge[i] = "CAPTURED"
                                          /\ offer[payment[i].offer].office = f
    BY <1>0, OfficeCaptureLasts
  <2>1. CASE credited'[f] = credited[f]
    BY <1>0, <2>1 DEF MoneyInv
  <2>2. CASE CreditOffice(h) /\ f = proc[h].draft.office
    BY <1>0, <2>2, LoadedOffice DEF OfferOf
  <2>3. CASE CreditOffice(h) /\ f # proc[h].draft.office
    BY <1>0, <2>1, <2>3 DEF CreditOffice, TypeOK
  <2>4. CASE CreditAdmin(h)
    BY <1>0, <2>1, <2>4, AdminIsNoOffice DEF CreditAdmin, TypeOK, Owners
  <2>5. QED
    BY <2>2, <2>3, <2>4
<1>4. \A g \in Handlers : proc'[g].at \in Loaded /\ proc'[g].copy.status = "COMPLETED"
        => Captured({"BOOKING_FULL"})
  <2>1. proc'[h].at \in Loaded => proc'[h].copy = proc[h].copy
    BY <1>0, NothingIsProc DEF CreditOffice, CreditAdmin, TypeOK, Loaded, Proc
  <2>2. \A g \in Handlers \ {h} : proc'[g] = proc[g]
    BY <1>0 DEF CreditOffice, CreditAdmin, TypeOK
  <2>3. QED
    BY <1>0, <2>1, <2>2 DEF MoneyInv
<1>5. QED
  BY <1>0, <1>1, <1>2, <1>3, <1>4 DEF MoneyInv

LEMMA MarketKeepsMoney ==
  ASSUME CheckoutInv, PaymentsKept, OffersKept, Market PROVE MoneyInv'
<1>0. /\ MarketTypeOK /\ OfferInv /\ PaymentInv /\ MoneyInv
      /\ "NONE" \notin Paid /\ "NONE" \notin {"BOOKING_FULL"}
      /\ credited' = credited /\ proc' = proc
  BY DEF CheckoutInv, Rows, TypeOK, Market, payVars, Paid
<1>1. (Captured(Paid) => Captured(Paid)')
      /\ (Captured({"BOOKING_FULL"}) => Captured({"BOOKING_FULL"})')
  BY <1>0, CaptureLasts
<1>2. \A f \in Offices :
        credited'[f] > 0 => \E i \in Payments : /\ charge'[i] = "CAPTURED"
                                               /\ offer'[payment'[i].offer].office = f
  BY <1>0, OfficeCaptureLasts DEF MoneyInv
<1>3. ASSUME NEW h \in Handlers, MarketStep(h) PROVE MoneyInv'
  <2>1. MoneyOnlyCopied(h)
    BY <1>0, <1>3, StepCopiesMoney
  <2>2. booking'.status = "PARTIALLY_PAID" \/ booking'.paid > 0 => Captured(Paid)
    BY <1>0, <2>1 DEF MoneyOnlyCopied, MoneyInv
  <2>3. booking'.status = "COMPLETED" => Captured({"BOOKING_FULL"})
    BY <1>0, <2>1 DEF MoneyOnlyCopied, MoneyInv
  <2>4. \A g \in Handlers : task'[g].copy.paid > 0 => Captured(Paid)
    BY <1>0, <2>1 DEF MoneyOnlyCopied, MoneyInv
  <2>5. QED
    BY <1>0, <1>1, <1>2, <2>2, <2>3, <2>4 DEF MoneyInv
<1>4. CASE CreateBooking
  <2>1. booking'.status = "WAITING_FOR_OFFERS" /\ booking'.paid = 0 /\ task' = task
    BY <1>4 DEF CreateBooking, NoBooking
  <2>2. QED
    BY <1>0, <1>1, <1>2, <2>1 DEF MoneyInv
<1>5. QED
  BY <1>3, <1>4 DEF Market

LEMMA InvariantStays == ASSUME CheckoutInv, Next PROVE CheckoutInv'
<1>0. Rows' /\ PaymentsKept /\ OffersKept /\ SelectionBacked'
  BY RowsStay, SelectionStays DEF CheckoutInv
<1>1. ASSUME NEW h \in Handlers, Begin(h) \/ Continue(h) \/ Interrupt(h) PROVE MoneyInv'
  BY <1>0, <1>1, BeginKeepsMoney, LoadKeepsMoney, SaveBookingKeepsMoney, CreditKeepsMoney
  DEF Continue, SideEffect
<1>2. ASSUME Gateway PROVE MoneyInv'
  <2>1. booking' = booking /\ task' = task /\ credited' = credited /\ proc' = proc
    BY <1>2 DEF Gateway, Settle, marketVars
  <2>2. QED
    BY <1>0, <2>1, MoneyFrame
<1>3. ASSUME Market PROVE MoneyInv'
  BY <1>0, <1>3, MarketKeepsMoney
<1>4. QED
  BY <1>0, <1>1, <1>2, <1>3 DEF Next, CheckoutInv

LEMMA InvariantHolds == Spec => []CheckoutInv
<1>1. Init => CheckoutInv
  <2> SUFFICES ASSUME Init PROVE CheckoutInv
    OBVIOUS
  <2>1. TypeOK
    BY MarketInitType, NothingIsProc, FailuresNat DEF Init, TypeOK, Owners
  <2>2. OfferInv
    BY DEF Init, MarketInit, OfferInv, Alone, Sound, Idle, Making, Deciding
  <2>3. OfficesMadeThem /\ SelectionBacked
    BY DEF Init, MarketInit, OfficesMadeThem, NoOffer, SelectionBacked, NoBooking
  <2>4. PaymentInv
    BY DEF Init, PaymentInv, NoPayment
  <2>5. ProcInv
    BY NothingHeld, NothingIsProc DEF Init, ProcInv, ChargedByOne
  <2>6. MoneyInv
    <3>1. booking.status = "NONE" /\ booking.paid = 0
      BY DEF Init, MarketInit, NoBooking
    <3>2. \A h \in Handlers : task[h].copy.paid = 0
      BY DEF Init, MarketInit, Idle, NoBooking
    <3>3. \A h \in Handlers : proc[h].at \notin Loaded
      BY NothingIsProc DEF Init, Loaded
    <3>4. \A f \in Offices : credited[f] = 0
      BY DEF Init, Owners
    <3>5. QED
      BY <3>1, <3>2, <3>3, <3>4 DEF MoneyInv
  <2>7. QED
    BY <2>1, <2>2, <2>3, <2>4, <2>5, <2>6 DEF CheckoutInv, Rows
<1>2. CheckoutInv /\ [Next]_vars => CheckoutInv'
  <2> SUFFICES ASSUME CheckoutInv, [Next]_vars PROVE CheckoutInv'
    OBVIOUS
  <2>1. CASE UNCHANGED vars
    <3>1. TypeOK' /\ OfferInv' /\ OfficesMadeThem' /\ PaymentInv' /\ SelectionBacked'
      BY <2>1 DEF vars, CheckoutInv, Rows, TypeOK, MarketTypeOK, OfferInv, Alone,
                  OfficesMadeThem, PaymentInv, SelectionBacked
    <3>2. ProcInv' /\ MoneyInv'
      BY <2>1 DEF vars, CheckoutInv, Rows, ProcInv, ChargedByOne, MoneyInv, Captured
    <3>3. QED
      BY <3>1, <3>2 DEF CheckoutInv, Rows
  <2>2. QED
    BY <2>1, InvariantStays
<1>3. QED
  BY <1>1, <1>2, PTL DEF Spec

-----------------------------------------------------------------------------

\* The split is computed from an office that exists and from credits that are numbers,
\* however requests overlap: every row and every copy has its type.
THEOREM CheckoutTypeCorrect == Spec => []TypeOK
<1>1. CheckoutInv => TypeOK
  BY DEF CheckoutInv, Rows
<1>2. QED
  BY <1>1, InvariantHolds, PTL

\* The side effects of a payment, too, leave a booking with an offer that was made, although
\* they save a copy of the booking and of the offer.
THEOREM PaymentsKeepSelection == Spec => []SelectionBacked
<1>1. CheckoutInv => SelectionBacked
  BY DEF CheckoutInv
<1>2. QED
  BY <1>1, InvariantHolds, PTL

\* However webhooks, redirects and other requests overlap, and whatever is interrupted:
\* nothing is shown as paid, and no office is credited, without a capture.
THEOREM NothingPaidWithoutCapture == Spec => []NothingWithoutCapture
<1>1. CheckoutInv => NothingWithoutCapture
  BY DEF CheckoutInv, Rows, MoneyInv, PaymentInv, NothingWithoutCapture, Paid
<1>2. QED
  BY <1>1, InvariantHolds, PTL
=============================================================================
