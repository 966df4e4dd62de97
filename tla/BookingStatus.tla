--------------------------- MODULE BookingStatus ---------------------------
(***************************************************************************)
(* The life of a booking: Booking.changeStatus of                          *)
(* src/module/bookings/domain/entity/booking.entity.ts.                    *)
(***************************************************************************)

allowedTransitions ==
  [DRAFT |-> {"WAITING_FOR_OFFERS", "CANCELLED"},
   WAITING_FOR_OFFERS |-> {"UNDER_NEGOTIATION", "CANCELLED"},
   UNDER_NEGOTIATION |-> {"OFFER_ACCEPTED", "CANCELLED"},
   OFFER_ACCEPTED |-> {"PARTIALLY_PAID", "CANCELLED"},
   PARTIALLY_PAID |-> {"CONFIRMED", "COMPLETED", "CANCELLED"},
   CONFIRMED |-> {"COMPLETED", "CANCELLED"},
   COMPLETED |-> {},
   CANCELLED |-> {}]

BookingStatuses == DOMAIN allowedTransitions

\* changeStatus throws unless the transition is in the table.
CanChangeStatus(from, to) == to \in allowedTransitions[from]
=============================================================================
