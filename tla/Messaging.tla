------------------------------ MODULE Messaging ------------------------------
(***************************************************************************)
(* All that people of the marketplace tell each other, in one process:     *)
(* chats and their sockets, notifications with their queue and workers,    *)
(* and reviews, while accounts are edited, employees come and go and       *)
(* offices leave. Requests overlap or not. The process may die once: its   *)
(* requests and sockets are gone then, and the queue, which Redis keeps,   *)
(* gives the jobs back.                                                    *)
(***************************************************************************)
EXTENDS ChatGateway, Notifications, Reviews

messagingVars ==
  <<reqVars, accountVars, officeVars, chatVars, gatewayVars, notifyVars, segmentVars, reviewVars>>

\* The requests of AccountService, UserService and OfficeService that decide whom a message
\* reaches: who there is, who is an admin, and who works for an office.
PeopleRequests ==
  \/ AdminNext /\ UNCHANGED officeVars
  \/ \E o, a \in Accounts, e \in Employees, em \in Emails, p \in Phones, w \in Passwords :
       AddOfficeEmployeeWithAccount(o, e, a, em, p, w)
  \/ \E h \in Handlers, e \in Employees : RemoveEmployee(h, e)
  \/ \E h \in Handlers : ClearEmployee(h)
  \/ \E o \in Accounts : DeleteOffice(o)

\* Offices, and employees with an account, have the row of that account.
PeopleKnown ==
  /\ \A o \in Accounts : IsOffice(o) => Exists(o)
  /\ \A e \in Employees : employee[e] # None /\ employee[e].account # None => Exists(employee[e].account)

MessagingInit ==
  /\ AccountsTypeOK /\ OfficesTypeOK /\ PeopleKnown
  /\ offered \subseteq Bookings \X Accounts
  /\ language \in [Accounts -> Languages \union {None}]
  /\ template \subseteq Languages
  /\ completed = {}
  /\ ChatInit /\ GatewayInit /\ NotificationsInit /\ ReviewsInit
  /\ \E oneAtATime \in BOOLEAN : RequestsInit(oneAtATime)

\* With the process go its sockets, the tables of the gateway and of OnlineStatusService, and
\* the cache of the office module.
Crash ==
  /\ Restart
  /\ SocketsLost
  /\ details' = [o \in Accounts |-> None]
  /\ UNCHANGED <<accountVars, office, employee, edited, cleared, letIn, chatVars, reviewVars>>

MessagingNext ==
  \/ ChatMoves /\ UNCHANGED <<notifyVars, segmentVars, reviewVars>>
  \/ NotificationMoves /\ UNCHANGED <<chatVars, gatewayVars, reviewVars>>
  \/ ReviewMoves /\ UNCHANGED <<chatVars, gatewayVars, notifyVars, segmentVars>>
  \/ PeopleRequests /\ NewIds /\ UNCHANGED <<chatVars, gatewayVars, notifyVars, segmentVars, reviewVars>>
  \/ \E h \in Handlers :
       Drop(h) /\ UNCHANGED <<accountVars, officeVars, chatVars, gatewayVars, notifyVars, segmentVars, reviewVars>>
  \/ Crash

MessagingSpec == MessagingInit /\ [][MessagingNext]_messagingVars

(***************************************************************************)
(* Properties                                                              *)
(***************************************************************************)

\* Every table, queue and table in memory that messages go through stays in its type,
\* whichever of them the next step is about (the columns of the entities, the jobs of Bull).
MessagingTypeOK ==
  /\ AccountsTypeOK /\ OfficesTypeOK /\ ChatTypeOK /\ GatewayTypeOK
  /\ NotificationsTypeOK /\ ReviewsTypeOK
=============================================================================
