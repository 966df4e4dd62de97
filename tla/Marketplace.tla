---------------------------- MODULE Marketplace ----------------------------
(***************************************************************************)
(* One booking of src/module/bookings and the offers offices make on it    *)
(* (src/module/offers).                                                    *)
(*                                                                         *)
(* A request reads the booking and an offer, and later saves the copies it *)
(* read: the save writes back every column of the copy, also those another *)
(* request has changed in between. What one database transaction writes is *)
(* written by one action; the rows an UPDATE ... WHERE selects are those   *)
(* of the statement, an action of its own. task[h] is what request h has   *)
(* read and still has to do.                                               *)
(***************************************************************************)
EXTENDS Integers, FiniteSets, BookingStatus

CONSTANTS Offers,    \* ids for rows of the offers table (bounds their number)
          Offices,   \* offices that can make an offer
          Prices,    \* prices an offer can have
          Handlers,  \* requests in flight at the same time
          None       \* no offer, no office

ASSUME PricesPositive == Prices \subseteq Nat \ {0}
ASSUME NoneIsNoOffer == None \notin Offers /\ None \notin Offices

VARIABLES booking,  \* the row of bookings
          offer,    \* the rows of offers
          task      \* the request each handler is serving

marketVars == <<booking, offer, task>>

OfferStatuses == {"PENDING", "ACCEPTED", "REJECTED", "REPLACED"}

Offer == [status : OfferStatuses \union {"NONE"}, price : Prices \union {0},
          office : Offices \union {None}]
NoOffer == [status |-> "NONE", price |-> 0, office |-> None]

\* paid: paidAmount;  selected: selectedOffer;  deleted: deletedAt is set
Booking == [status : BookingStatuses \union {"NONE"}, paid : Int,
            selected : Offers \union {None}, deleted : BOOLEAN]
NoBooking == [status |-> "NONE", paid |-> 0, selected |-> None, deleted |-> FALSE]

Points == {"idle", "create_replace", "create_commit", "update_save",
           "accept_reject", "accept_commit", "cancel_save"}

\* offer, draft: the row the request writes and its image;  copy: the booking it read;
\* others: the offers its UPDATE statement selected
Task == [at : Points, offer : Offers \union {None}, draft : Offer, copy : Booking,
         others : SUBSET Offers]
Idle == [at |-> "idle", offer |-> None, draft |-> NoOffer, copy |-> NoBooking, others |-> {}]

\* What a query finds: soft-deleted bookings are left out, and an offer is found
\* with its booking.
Found == booking.status # "NONE" /\ ~ booking.deleted

\* A save of a copy whose selectedOffer was not loaded leaves that column alone.
Saved(copy) == [copy EXCEPT !.selected = booking.selected]

MarketInit ==
  /\ booking = NoBooking
  /\ offer = [o \in Offers |-> NoOffer]
  /\ task = [h \in Handlers |-> Idle]

\* createHotelBooking and its siblings: DRAFT and the next status are one transaction;
\* createBundle inserts the next status at once.
CreateBooking ==
  /\ booking.status = "NONE"
  /\ CanChangeStatus("DRAFT", "WAITING_FOR_OFFERS")
  /\ booking' = [NoBooking EXCEPT !.status = "WAITING_FOR_OFFERS"]
  /\ UNCHANGED <<offer, task>>

(***************************************************************************)
(* createCarRentalOffer and its siblings, and replacePendingOfferFromOffice *)
(***************************************************************************)

\* Any booking that is found will do: its status is not looked at.
CreateOfferRead(h, o, f, p) ==
  /\ task[h].at = "idle"
  /\ Found
  /\ offer[o] = NoOffer
  /\ \A g \in Handlers : task[g].offer # o
  /\ task' = [task EXCEPT ![h] =
       [at |-> "create_replace", offer |-> o, copy |-> booking, others |-> {},
        draft |-> [status |-> "PENDING", price |-> p, office |-> f]]]
  /\ UNCHANGED <<booking, offer>>

PendingOf(f) == {o \in Offers : offer[o].office = f /\ offer[o].status = "PENDING"}

\* Mutant: the office's open offer is not replaced.
CreateOfferReplaceNone(h) ==
  /\ task[h].at = "create_replace"
  /\ task' = [task EXCEPT ![h].at = "create_commit"]
  /\ UNCHANGED <<booking, offer>>

CreateOfferReplace(h) ==
  /\ task[h].at = "create_replace"
  /\ task' = [task EXCEPT ![h].at = "create_commit",
                          ![h].others = PendingOf(task[h].draft.office)]
  /\ UNCHANGED <<booking, offer>>

\* Mutant: the rows get a status the column does not have.
UpdatedToExpired(others, status) ==
  [o \in Offers |-> IF o \in others THEN [offer[o] EXCEPT !.status = "EXPIRED"] ELSE offer[o]]

\* The rows an UPDATE ... WHERE status = PENDING selected get a status, unless
\* another transaction has decided them first.
Updated(others, status) ==
  [o \in Offers |-> IF o \in others /\ offer[o].status = "PENDING"
                    THEN [offer[o] EXCEPT !.status = status] ELSE offer[o]]

CreateOfferCommit(h) ==
  /\ task[h].at = "create_commit"
  /\ offer' = [Updated(task[h].others, "REPLACED") EXCEPT ![task[h].offer] = task[h].draft]
  /\ booking' = IF task[h].copy.status = "WAITING_FOR_OFFERS"
                THEN Saved([task[h].copy EXCEPT !.status = "UNDER_NEGOTIATION"])
                ELSE booking
  /\ task' = [task EXCEPT ![h] = Idle]

(***************************************************************************)
(* findOfferForUpdate, updateCarOffer and its siblings                     *)
(***************************************************************************)

\* Mutant: a decided offer can be edited.
UpdateReadDecided(h, o, p) ==
  /\ task[h].at = "idle"
  /\ Found
  /\ offer[o].status # "NONE"
  /\ task' = [task EXCEPT ![h] =
       [Idle EXCEPT !.at = "update_save", !.offer = o, !.draft = [offer[o] EXCEPT !.price = p]]]
  /\ UNCHANGED <<booking, offer>>

UpdateRead(h, o, p) ==
  /\ task[h].at = "idle"
  /\ Found
  /\ offer[o].status = "PENDING"
  /\ booking.status = "UNDER_NEGOTIATION"
  /\ task' = [task EXCEPT ![h] =
       [Idle EXCEPT !.at = "update_save", !.offer = o, !.draft = [offer[o] EXCEPT !.price = p]]]
  /\ UNCHANGED <<booking, offer>>

UpdateSave(h) ==
  /\ task[h].at = "update_save"
  /\ offer' = [offer EXCEPT ![task[h].offer] = task[h].draft]
  /\ task' = [task EXCEPT ![h] = Idle]
  /\ UNCHANGED booking

(***************************************************************************)
(* acceptOffer                                                             *)
(***************************************************************************)

AcceptRead(h, o) ==
  /\ task[h].at = "idle"
  /\ Found
  /\ offer[o].status = "PENDING"
  /\ booking.status \in {"UNDER_NEGOTIATION", "WAITING_FOR_OFFERS"}
  /\ task' = [task EXCEPT ![h] =
       [at |-> "accept_reject", offer |-> o, copy |-> booking, others |-> {},
        draft |-> [offer[o] EXCEPT !.status = "ACCEPTED"]]]
  /\ UNCHANGED <<booking, offer>>

AcceptReject(h) ==
  /\ task[h].at = "accept_reject"
  /\ task' = [task EXCEPT ![h].at = "accept_commit",
       ![h].others = {o \in Offers \ {task[h].offer} : offer[o].status = "PENDING"}]
  /\ UNCHANGED <<booking, offer>>

\* Mutant: the accepted offer is not put on the booking.
AcceptCommitUnselected(h) ==
  /\ task[h].at = "accept_commit"
  /\ offer' = [Updated(task[h].others, "REJECTED") EXCEPT ![task[h].offer] = task[h].draft]
  /\ booking' = Saved([task[h].copy EXCEPT !.status = "OFFER_ACCEPTED"])
  /\ task' = [task EXCEPT ![h] = Idle]

AcceptCommit(h) ==
  /\ task[h].at = "accept_commit"
  /\ offer' = [Updated(task[h].others, "REJECTED") EXCEPT ![task[h].offer] = task[h].draft]
  /\ booking' = [task[h].copy EXCEPT !.status = "OFFER_ACCEPTED", !.selected = task[h].offer]
  /\ task' = [task EXCEPT ![h] = Idle]

(***************************************************************************)
(* cancelBooking, deleteBooking                                            *)
(***************************************************************************)

CancelRead(h) ==
  /\ task[h].at = "idle"
  /\ Found
  /\ CanChangeStatus(booking.status, "CANCELLED")
  /\ task' = [task EXCEPT ![h] =
       [Idle EXCEPT !.at = "cancel_save", !.copy = [booking EXCEPT !.status = "CANCELLED"]]]
  /\ UNCHANGED <<booking, offer>>

CancelSave(h) ==
  /\ task[h].at = "cancel_save"
  /\ booking' = Saved(task[h].copy)
  /\ task' = [task EXCEPT ![h] = Idle]
  /\ UNCHANGED offer

\* One UPDATE that sets deleted_at and nothing else.
DeleteBooking(h) ==
  /\ task[h].at = "idle"
  /\ Found
  /\ booking' = [booking EXCEPT !.deleted = TRUE]
  /\ UNCHANGED <<offer, task>>

\* A request ends before its transaction commits: the database has changed nothing.
Abort(h) ==
  /\ task[h].at # "idle"
  /\ task' = [task EXCEPT ![h] = Idle]
  /\ UNCHANGED <<booking, offer>>

-----------------------------------------------------------------------------

MarketStep(h) ==
  \/ \E o \in Offers, p \in Prices :
       \/ \E f \in Offices : CreateOfferRead(h, o, f, p)
       \/ UpdateRead(h, o, p)
  \/ \E o \in Offers : AcceptRead(h, o)
  \/ CreateOfferReplace(h) \/ CreateOfferCommit(h)
  \/ UpdateSave(h)
  \/ AcceptReject(h) \/ AcceptCommit(h)
  \/ CancelRead(h) \/ CancelSave(h)
  \/ DeleteBooking(h)
  \/ Abort(h)

MarketNext ==
  \/ CreateBooking
  \/ \E h \in Handlers : MarketStep(h)

MarketSpec == MarketInit /\ [][MarketNext]_marketVars

-----------------------------------------------------------------------------

\* Every variable stays in its type, and so do the copies requests keep.
MarketTypeOK ==
  /\ booking \in Booking
  /\ offer \in [Offers -> Offer]
  /\ task \in [Handlers -> Task]

\* With requests one at a time: an office never has two open offers on a booking, the one
\* it makes replaces the one it had.
OnePendingPerOffice == \A f \in Offices : Cardinality(PendingOf(f)) <= 1

\* With requests one at a time: at most one offer is accepted, it is the selected one, and
\* the booking has left the negotiation for good.
AcceptedIsSelected ==
  \A o \in Offers : offer[o].status = "ACCEPTED" =>
    /\ booking.selected = o
    /\ booking.status \notin {"WAITING_FOR_OFFERS", "UNDER_NEGOTIATION"}

\* With requests one at a time: a decided offer keeps its decision and its price, whatever
\* its office still asks for.
DecisionsFinal ==
  [][\A o \in Offers :
       offer[o].status \in {"ACCEPTED", "REJECTED", "REPLACED"} => offer'[o] = offer[o]]_marketVars

\* The statuses a booking can still get to.
Later ==
  [s \in BookingStatuses |->
     CASE s \in {"COMPLETED", "CANCELLED"} -> {}
       [] s = "CONFIRMED" -> {"COMPLETED", "CANCELLED"}
       [] s = "PARTIALLY_PAID" -> {"CONFIRMED", "COMPLETED", "CANCELLED"}
       [] s = "OFFER_ACCEPTED" -> {"PARTIALLY_PAID", "CONFIRMED", "COMPLETED", "CANCELLED"}
       [] s = "UNDER_NEGOTIATION" -> BookingStatuses \ {"DRAFT", "WAITING_FOR_OFFERS", s}
       [] s = "WAITING_FOR_OFFERS" -> BookingStatuses \ {"DRAFT", s}
       [] OTHER -> BookingStatuses \ {s}]

\* With requests one at a time: a booking only moves forward, and one that is completed,
\* cancelled or deleted stays so.
MovesForward ==
  [][booking.status # "NONE" =>
       /\ booking'.status \in Later[booking.status] \union {booking.status}
       /\ booking.deleted => booking' = booking]_marketVars

\* However requests overlap: a booking is past the negotiation only with an offer selected,
\* one that was made, and a selected offer is never lost.
SelectionBacked ==
  /\ booking.status \in {"OFFER_ACCEPTED", "PARTIALLY_PAID", "CONFIRMED", "COMPLETED"}
       => booking.selected # None
  /\ booking.selected # None => offer[booking.selected].status # "NONE"
=============================================================================
