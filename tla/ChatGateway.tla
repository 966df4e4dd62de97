----------------------------- MODULE ChatGateway -----------------------------
(***************************************************************************)
(* The sockets of the chat (src/module/chat/chat.gateway.ts) and who is    *)
(* shown online (services/online-status.service.ts). Both keep their own   *)
(* table in memory; handleConnection and handleDisconnect wait for the     *)
(* database in between, and one can start before the other has ended.      *)
(***************************************************************************)
EXTENDS Chat

CONSTANTS Sockets

VARIABLES socket,      \* what the network and handleConnection know of a socket
          socketUsers, \* the gateway's tables
          userSockets,
          online,      \* the table of OnlineStatusService
          rooms        \* the conversations a socket has joined

gatewayVars == <<socket, socketUsers, userSockets, online, rooms>>

\* early: it was closed while its account was being looked up
Socket == [who : Accounts \union {None}, up : BOOLEAN, early : BOOLEAN,
           at : {"new", "checking", "listing", "served", "leaving"}]

GatewayTypeOK ==
  /\ socket \in [Sockets -> Socket]
  /\ socketUsers \in [Sockets -> Accounts \union {None}]
  /\ userSockets \in [Accounts -> SUBSET Sockets]
  /\ online \in [Accounts -> SUBSET Sockets]
  /\ rooms \in [Sockets -> SUBSET Convs]

NewSocket == [who |-> None, up |-> FALSE, early |-> FALSE, at |-> "new"]

GatewayInit ==
  /\ socket = [s \in Sockets |-> NewSocket]
  /\ socketUsers = [s \in Sockets |-> None]
  /\ userSockets = [a \in Accounts |-> {}]
  /\ online = [a \in Accounts |-> {}]
  /\ rooms = [s \in Sockets |-> {}]

\* handleConnection, with a token of a
Connect(s, a) ==
  /\ socket[s].at = "new"
  /\ Exists(a)
  /\ socket' = [socket EXCEPT ![s] = [who |-> a, up |-> TRUE, early |-> FALSE, at |-> "checking"]]
  /\ UNCHANGED <<socketUsers, userSockets, online, rooms, participant>>

\* findById has answered: the socket is put in the tables, whether it is still up or not.
\* (An account's row is never removed, so the answer is not empty.)
Register(s) ==
  LET a == socket[s].who IN
  /\ socket[s].at = "checking"
  /\ socket' = [socket EXCEPT ![s].at = "listing"]
  /\ socketUsers' = [socketUsers EXCEPT ![s] = a]
  /\ userSockets' = [userSockets EXCEPT ![a] = @ \union {s}]
  /\ online' = [online EXCEPT ![a] = @ \union {s}]
  /\ UNCHANGED <<rooms, participant>>

\* The listing of the account's conversations adds the rows it misses, as
\* ListConversations does, here in one step.
ListRows(a) ==
  participant' = WithRows(participant, MissingTeam(Listed(a))
                                       \union ({<<c, a>> : c \in Listed(a)} \ Rows))

\* markOffline
Gone(table, a, s) == [table EXCEPT ![a] = @ \ {s}]

\* Mutant: a disconnect takes the account offline whatever other sockets it has.
HangUpWholly(s) ==
  LET a == socketUsers[s] IN
  IF a = None THEN UNCHANGED <<socketUsers, userSockets, online>>
  ELSE /\ userSockets' = [userSockets EXCEPT ![a] = {}]
       /\ online' = [online EXCEPT ![a] = {}]
       /\ UNCHANGED socketUsers

\* handleDisconnect up to its await: the tables forget the socket; socketUsers does so at
\* once when the account has another socket, else after the listing.
HangUp(s) ==
  LET a == socketUsers[s] IN
  IF a = None THEN UNCHANGED <<socketUsers, userSockets, online>>
  ELSE /\ userSockets' = Gone(userSockets, a, s)
       /\ online' = Gone(online, a, s)
       /\ socketUsers' = IF userSockets[a] \ {s} = {} THEN socketUsers
                         ELSE [socketUsers EXCEPT ![s] = None]

Closed(s) ==
  LET looked_up == socket[s].at = "checking" IN
  [socket EXCEPT ![s] = [who |-> @.who, up |-> FALSE, early |-> looked_up,
                         at |-> IF looked_up THEN "checking" ELSE "leaving"]]

\* The conversations are listed and joined; when the listing throws, the socket is closed.
JoinRooms(s) ==
  /\ socket[s].at = "listing"
  /\ \/ /\ socket' = [socket EXCEPT ![s].at = "served"]
        /\ rooms' = [rooms EXCEPT ![s] = IF socket[s].up THEN Listed(socket[s].who) ELSE {}]
        /\ ListRows(socket[s].who)
        /\ UNCHANGED <<socketUsers, userSockets, online>>
     \/ /\ socket[s].up
        /\ socket' = Closed(s)
        /\ HangUp(s)
        /\ UNCHANGED <<rooms, participant>>

\* The connection is closed by the client or lost.
Disconnect(s) ==
  /\ socket[s].up
  /\ socket' = Closed(s)
  /\ HangUp(s)
  /\ rooms' = [rooms EXCEPT ![s] = {}]
  /\ UNCHANGED participant

\* The last socket of an account: the others are told and socketUsers forgets it, unless
\* the listing throws.
Leave(s) ==
  /\ socket[s].at = "leaving"
  /\ socketUsers[s] # None
  /\ ListRows(socketUsers[s])
  /\ socketUsers' = [socketUsers EXCEPT ![s] = None]
  /\ UNCHANGED <<socket, userSockets, online, rooms>>

\* handleSendMessage ("send"), handleTyping ("open") and handleMarkAsRead ("mark"): what a
\* socket asks for is asked for by the account it was opened with.
Say(h, s, c, then) ==
  /\ socket[s].up
  /\ socket[s].at \in {"listing", "served"}
  /\ UseConversation(h, socket[s].who, c, then)

GatewayNext ==
  /\ \/ \E s \in Sockets, a \in Accounts : Connect(s, a)
     \/ \E s \in Sockets : Register(s) \/ JoinRooms(s) \/ Disconnect(s) \/ Leave(s)
  /\ UNCHANGED <<accountVars, officeVars, reqVars, offered, idsAlike, conversation, message>>

\* The process ends: every socket is closed and the tables are empty when it starts again.
SocketsLost ==
  /\ socket' = [s \in Sockets |-> NewSocket]
  /\ socketUsers' = [s \in Sockets |-> None]
  /\ userSockets' = [a \in Accounts |-> {}]
  /\ online' = [a \in Accounts |-> {}]
  /\ rooms' = [s \in Sockets |-> {}]

\* All requests of the chat, over HTTP and over sockets, overlapping or one at a time, while
\* sockets come and go.
ChatMoves ==
  \/ /\ \/ \E h \in Handlers :
              \/ \E a \in Accounts :
                   \/ ListConversations(h, a)
                   \/ \E c \in Convs, then \in {"open", "send", "mark"} : UseConversation(h, a, c, then)
                   \/ \E b \in Bookings, o \in Accounts : CreateConversation(h, a, b, o)
              \/ \E s \in Sockets, c \in Convs, then \in {"open", "send", "mark"} : Say(h, s, c, then)
              \/ ChatStep(h)
        \/ \E b \in Bookings, o \in Accounts : OfferMade(b, o)
     /\ UNCHANGED gatewayVars
  \/ GatewayNext

\* One request may be cut. What becomes of accounts, offices and employees is left open.
ChatNext ==
  \/ ChatMoves
  \/ \E h \in Handlers : Drop(h) /\ UNCHANGED <<accountVars, officeVars, chatVars, gatewayVars>>

ChatSpec ==
  /\ offered \subseteq Bookings \X Accounts
  /\ ChatInit
  /\ GatewayInit
  /\ \E oneAtATime \in BOOLEAN : RequestsInit(oneAtATime)
  /\ [][ChatNext]_<<reqVars, chatVars, gatewayVars>>

\* Who hears the event a request emits, and to whom a message of a is reported delivered
HeardBy(c) == {s \in Sockets : c \in rooms[s]}
DeliveredTo(a, c) == {b \in Accounts \ {a} : <<c, b>> \in Rows /\ userSockets[b] # {}}

\* isUserOnline
IsUserOnline(a) == online[a] # {}

(***************************************************************************)
(* Properties                                                              *)
(***************************************************************************)

\* Who is shown online: an account with a socket that is up and registered, however its
\* sockets come and go; and nobody else, save for a socket that was closed while its
\* account was looked up, which is registered for ever. A socket that is up hears its own
\* conversations only, and whoever hears a message is reported to have it.
PresenceTrue ==
  /\ online = userSockets
  /\ \A s \in Sockets : socket[s].up /\ socketUsers[s] # None => s \in online[socketUsers[s]]
  /\ \A a \in Accounts :
       IsUserOnline(a) => \E s \in Sockets : socket[s].who = a /\ (socket[s].up \/ socket[s].early)
  /\ \A s \in Sockets : \A c \in rooms[s] : socket[s].up /\ <<c, socket[s].who>> \in Rows
  /\ \A a \in Accounts, c \in Convs : {socket[s].who : s \in HeardBy(c)} \ {a} \subseteq DeliveredTo(a, c)
=============================================================================
