----------------------------- MODULE MCMessaging -----------------------------
(***************************************************************************)
(* One run explores the chat, its sockets, notifications and reviews, each *)
(* with its own requests (focus), and some of them together.               *)
(***************************************************************************)
EXTENDS Messaging, TLC

CONSTANTS a1, a2, a3, m1, m2, m3, p1, p2, p3, n1, w1, x1, Foci

VARIABLE focus

base == <<accountVars, officeVars>>
vars == <<reqVars, accountVars, officeVars, chatVars, gatewayVars, notifyVars, segmentVars, reviewVars, focus>>

Row(role, e, p) ==
  [NewAccount(role, e, p, w1) EXCEPT !.status = "ACTIVE", !.verified = TRUE]

Hired == [office |-> a2, account |-> a3, isActive |-> TRUE]

\* A customer, an office, and its employee, who may join later, or an admin.
Init ==
  /\ focus \in Foci
  /\ \/ focus \notin {"overlap", "together"} /\ RequestsInit(TRUE)
     \/ focus \in {"overlap", "devices", "reviews", "together"} /\ RequestsInit(FALSE)
  /\ account = [a \in Accounts |-> IF a = a1 THEN Row(IF focus = "events" THEN "ADMIN" ELSE "USER", m1, p1)
                                   ELSE IF a = a2 THEN Row("OFFICE", m2, p2)
                                   ELSE IF focus \in {"overlap", "letters"} THEN None
                                   ELSE Row(IF focus = "reviews" THEN "ADMIN" ELSE "OFFICE", m3, p3)]
  /\ asked = [a \in Accounts |-> IF Exists(a) THEN Asked(account[a]) ELSE None]
  /\ proved = [a \in Accounts |-> IF Exists(a) THEN "code" ELSE "no"]
  /\ office = [o \in Accounts |-> IF o = a2 THEN NewOffice(n1) ELSE None]
  /\ employee = [e \in Employees |->
                   IF focus \in {"chat", "sockets", "events", "teams", "together"} THEN Hired ELSE None]
  /\ details = [a \in Accounts |-> None]
  /\ edited = {}
  /\ cleared = Accounts
  /\ letIn = Accounts
  /\ offered = IF focus = "chat" THEN {<<<<a1, k>>, a2>> : k \in 1..MaxBookings}
               ELSE IF focus \in {"sockets", "together"} THEN {<<<<a1, 1>>, a2>>} ELSE {}
  /\ ChatInit
  /\ focus # "chat" => idsAlike
  /\ GatewayInit
  /\ NotificationsInit
  /\ language \in {[a \in Accounts |-> x] : x \in IF focus = "events" THEN {None, "fr"} ELSE {None}}
  /\ template = IF focus \in {"letters", "together"} THEN {"ar", "en"} ELSE {}
  /\ completed = {}
  /\ ReviewsInit

ChatRequest ==
  \/ \E h \in Handlers :
       \/ \E a \in (IF serial THEN {a1, a3} ELSE {a3}) : ListConversations(h, a)
       \/ \E c \in Convs :
            \/ \E then \in {"send", "mark"} : UseConversation(h, a1, c, then)
            \/ serial /\ UseConversation(h, a3, c, "send")
       \/ \E b \in Bookings : b[2] <= Cardinality(Open) + 1 /\ CreateConversation(h, a1, b, a2)
       \/ ChatStep(h) /\ (serial \/ Len(message') < MaxMessages)
  \/ OfferMade(<<a1, 1>>, a2)

\* The employee leaves the office, between two messages and with two conversations, or joins it.
StaffLeaves ==
  \E h \in Handlers :
    \/ Len(message) = 1 /\ Open = Convs /\ \E e \in Employees : RemoveEmployee(h, e)
    \/ ClearEmployee(h)
StaffJoins == \E e \in Employees : AddOfficeEmployeeWithAccount(a2, e, a3, m3, p3, w1)

SocketsRequest ==
  \E h \in Handlers :
    \/ \E s \in Sockets, c \in Convs, then \in {"send", "open"} : Say(h, s, c, then)
    \/ CreateConversation(h, a1, <<a1, 1>>, a2)
    \/ ChatStep(h)

EventsRequest ==
  \/ \E h \in Handlers :
       \/ Issued = {} /\ HandleEvent(h, IF focus = "events" THEN Admins ELSE EveryTeam)
       \/ NotificationsStep(h)
       \/ \E n \in Notifications : focus = "events" /\ MarkRead(h, n)
  \/ \E lang \in Languages : SeedTemplate(lang)
  \/ \E a \in Accounts, n \in Notifications : focus = "events" /\ DeleteSince(a, n, n)

DevicesRequest ==
  \E a \in {a1, a2}, t \in Tokens :
    \/ \E h \in Handlers : RegisterDeviceRead(h, a, t) \/ RegisterDevice(h)
    \/ RemoveDevice(a, t)

LettersRequest ==
  \/ \E b \in Batches, kind \in {"direct", "template"}, to \in Targets \union BulkTargets,
        ch \in Channels \ {"push"} :
       QueueBatch(b, kind, to, ch)
  \/ \E a \in Accounts :
       \/ a = a1 /\ MarkAllAsRead(a)
       \/ DeleteSince(a, 1, MaxNotifications)

ReviewsRequest ==
  \/ \E h \in Handlers :
       \/ \E b \in Bookings \union {None}, x \in (IF serial THEN Ratings ELSE {1}) :
            CreateReviewRead(h, a1, a2, b, x)
       \/ \E a \in {a1, a3}, r \in Reviews : serial /\ UpdateReviewRead(h, a, r, 5, a = a3)
       \/ \E r \in Reviews : serial /\ ToggleHideRead(h, r)
       \/ ReviewsStep(h)
  \/ \E r \in Reviews : serial /\ DeleteReview(r)
  \/ Cardinality(completed) < MaxBookings /\ CompleteBooking(<<a1, Cardinality(completed) + 1>>)

Fresh == Open = {} /\ \A h \in Handlers : ~At(h, "create")

\* A conversation is opened while its office is notified, by a worker that nothing fails,
\* and loses its employee.
Together ==
  /\ \/ /\ \E h \in Handlers : ChatStep(h) \/ (Fresh /\ CreateConversation(h, a1, <<a1, 1>>, a2))
        /\ UNCHANGED notifyVars
     \/ /\ \/ \E h \in Handlers : (Issued = {} /\ HandleEvent(h, EveryTeam)) \/ NotificationsStep(h)
           \/ /\ WorkerStep /\ UNCHANGED trouble
              /\ \A n \in Notifications : ~(SendAt(n, "thrown") \/ SendAt(n, "refused"))'
        /\ UNCHANGED chatVars
     \/ /\ \E h \in Handlers : ClearEmployee(h) \/ \E e \in Employees : RemoveEmployee(h, e)
        /\ UNCHANGED <<chatVars, notifyVars>>
  /\ UNCHANGED <<gatewayVars, segmentVars, reviewVars>>

Next ==
  /\ UNCHANGED focus
  /\ \/ /\ focus \in {"chat", "overlap", "sockets"}
        /\ \/ focus # "sockets" /\ ChatRequest /\ UNCHANGED gatewayVars
           \/ focus = "chat" /\ StaffLeaves /\ UNCHANGED <<chatVars, gatewayVars>>
           \/ focus = "overlap" /\ StaffJoins /\ UNCHANGED <<chatVars, gatewayVars>>
           \/ focus = "sockets" /\ SocketsRequest /\ UNCHANGED gatewayVars
           \/ focus = "sockets" /\ GatewayNext
        /\ UNCHANGED <<notifyVars, segmentVars, reviewVars>>
     \/ focus = "together" /\ Together
     \/ /\ focus \in {"sockets", "events", "teams", "devices", "letters", "segments", "together"}
        /\ focus = "sockets" => Quiet /\ Len(message) = 1
        /\ focus = "together" => Open # {} /\ Issued # {}
        /\ Crash
     \/ /\ \/ focus \in {"events", "teams"} /\ EventsRequest
           \/ focus = "devices" /\ DevicesRequest
           \/ focus = "letters" /\ LettersRequest
           \/ focus \in {"events", "teams", "letters"} /\ WorkerStep /\ (focus = "teams" => UNCHANGED trouble)
        /\ UNCHANGED <<chatVars, gatewayVars, segmentVars, reviewVars>>
     \/ /\ focus = "segments"
        /\ \/ SegmentNext
           \/ (\E lang \in Languages : SeedTemplate(lang)) /\ UNCHANGED segmentVars
        /\ UNCHANGED <<chatVars, gatewayVars, reviewVars>>
     \/ /\ focus = "reviews"
        /\ ReviewsRequest
        /\ UNCHANGED <<chatVars, gatewayVars, notifyVars, segmentVars>>
     \/ /\ \E h \in Handlers : serial /\ Drop(h)
        /\ UNCHANGED <<base, chatVars, gatewayVars, notifyVars, segmentVars, reviewVars>>

Symmetry == Permutations(Handlers) \union Permutations(Sockets)

Spec == Init /\ [][Next]_vars
=============================================================================
