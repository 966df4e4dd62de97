-------------------------------- MODULE Chat --------------------------------
(***************************************************************************)
(* Chat between a customer and the team of an office that made an offer on *)
(* one of the customer's bookings (src/module/chat/chat.service.ts).       *)
(*                                                                         *)
(* Time is the number of messages sent so far: a moment lies after the     *)
(* messages up to that number. Every request first puts the team and its   *)
(* own account among the participants, in two statements.                  *)
(***************************************************************************)
EXTENDS Offices, Sequences

CONSTANTS MaxBookings,  \* bookings of one customer
          Convs,        \* ids of chat_conversations
          MaxMessages

ASSUME MaxMessagesNat == MaxMessages \in Nat

VARIABLES offered,      \* pairs of a booking and an office with an offer on it
          idsAlike,     \* whether the two ids isInOfficeScope compares have one type
          conversation, \* chat_conversations
          participant,  \* chat_participants, by conversation and account
          message       \* chat_messages, in the order of created_at

chatVars == <<offered, idsAlike, conversation, participant, message>>

\* A booking carries the account of its user.
Bookings == Accounts \X (1..MaxBookings)
Customer(b) == b[1]

Conversation == [booking : Bookings, office : Accounts]
\* lastReadMessageId and lastReadAt; 0 when nothing was read
Mark == [id : 0..MaxMessages, at : 0..MaxMessages]
Unread == [id |-> 0, at |-> 0]

ASSUME NoneIsNoChatRow == None \notin Conversation /\ None \notin Mark

ChatTypeOK ==
  /\ conversation \in [Convs -> Conversation \union {None}]
  /\ participant \in [Convs \X Accounts -> Mark \union {None}]
  /\ message \in Seq([conv : Convs, sender : Accounts]) /\ Len(message) <= MaxMessages

ChatInit ==
  /\ idsAlike \in BOOLEAN
  /\ conversation = [c \in Convs |-> None]
  /\ participant = [p \in Convs \X Accounts |-> None]
  /\ message = << >>

Open == {c \in Convs : conversation[c] # None}
User(c) == Customer(conversation[c].booking)
OfficeIn(c) == conversation[c].office

\* findActiveOfferOrThrow: without an active offer it takes the last one, so that one
\* offer, whatever became of it, is enough.
HasOffer(b, o) == <<b, o>> \in offered

\* isInOfficeScope
InScope(a, o) == a = o \/ (IsEmployee(a) /\ OfficeOf(a) = o /\ idsAlike)

\* ensureConversationAccess
Access(a, c) ==
  /\ c \in Open
  /\ HasOffer(conversation[c].booking, OfficeIn(c))
  /\ a = User(c) \/ InScope(a, OfficeIn(c))

Rows == {p \in Convs \X Accounts : participant[p] # None}

\* syncOfficeParticipants and its batch: the rows the team lacks (nobody's row is removed)
MissingTeam(cs) == {p \in (cs \X Accounts) \ Rows : p[2] \in Team(OfficeIn(p[1]))}

WithRows(rows, added) == [p \in Convs \X Accounts |-> IF p \in added THEN Unread ELSE rows[p]]

(***************************************************************************)
(* Requests                                                                *)
(***************************************************************************)

\* An offer of the office (module Marketplace)
OfferMade(b, o) ==
  /\ IsOffice(o)
  /\ offered' = offered \union {<<b, o>>}
  /\ UNCHANGED <<accountVars, officeVars, reqVars, idsAlike, conversation, participant, message>>

Enter(h, a, cs, then) ==
  /\ Begin(h, [at |-> "sync", who |-> a, convs |-> cs, add |-> MissingTeam(cs), then |-> then])
  /\ UNCHANGED <<accountVars, officeVars, chatVars>>

\* getConversationById, getMessages and typing ("open"), sendMessage ("send"), markAsRead ("mark")
UseConversation(h, a, c, then) ==
  /\ Access(a, c)
  /\ Enter(h, a, {c}, then)

\* listConversationsForUser finds conversations with a message, of the user or of an
\* office the account owns or works for.
Offices(a) == (IF IsOffice(a) THEN {a} ELSE {}) \union (IF IsEmployee(a) THEN {OfficeOf(a)} ELSE {})
HasMessage(c) == \E i \in 1..Len(message) : message[i].conv = c
Listed(a) == {c \in Open : HasMessage(c) /\ (a = User(c) \/ OfficeIn(c) \in Offices(a))}

ListConversations(h, a) ==
  /\ Listed(a) # {}
  /\ Enter(h, a, Listed(a), "open")

\* createConversation; its test of the team compares a BigInt with an id of the table
CreateConversation(h, a, b, o) ==
  LET existing == {c \in Open : conversation[c] = [booking |-> b, office |-> o]} IN
  /\ HasOffer(b, o)
  /\ a = Customer(b) \/ InScope(a, o)
  /\ \/ \E c \in existing : Enter(h, a, {c}, "open")
     \/ /\ existing = {}
        /\ Begin(h, [at |-> "create", who |-> a, booking |-> b, office |-> o])
        /\ UNCHANGED <<accountVars, officeVars, chatVars>>

\* The transaction: the conversation and its participants; no index keeps a second one out.
InsertConversation(h) ==
  LET b == req[h].booking  o == req[h].office
      c == CHOOSE x \in Convs : x \notin Open IN
  /\ At(h, "create")
  /\ Open # Convs
  /\ conversation' = [conversation EXCEPT ![c] = [booking |-> b, office |-> o]]
  /\ participant' = WithRows(participant, {c} \X ({Customer(b)} \union Team(o)))
  /\ Goto(h, [at |-> "ensure", who |-> req[h].who, convs |-> {c},
              add |-> {<<c, req[h].who>>} \ {<<c, a>> : a \in {Customer(b)} \union Team(o)},
              then |-> "open"])
  /\ UNCHANGED <<accountVars, officeVars, offered, idsAlike, message>>

\* The insert of the rows a request found missing; the unique index refuses them all when
\* one has come in between, and the request fails.
AddTeam(h) ==
  LET add == req[h].add  own == {<<c, req[h].who>> : c \in req[h].convs} IN
  /\ At(h, "sync")
  /\ IF add \intersect Rows # {} THEN Done(h) /\ UNCHANGED participant
     ELSE /\ participant' = WithRows(participant, add)
          /\ Goto(h, [req[h] EXCEPT !.at = "ensure", !.add = own \ (Rows \union add)])
  /\ UNCHANGED <<accountVars, officeVars, offered, idsAlike, conversation, message>>

\* Mutant: the messages come in the wrong order.
Oldest(c) == Min({Len(message)} \union {i \in 1..Len(message) : message[i].conv = c})

\* The last message of a conversation, 0 when it has none
Latest(c) == Max({0} \union {i \in 1..Len(message) : message[i].conv = c})

\* ensureParticipantRow and its batch; markAsRead then reads the latest message.
AddSelf(h) ==
  LET r == req[h]
      refused == r.add \intersect Rows # {}
      c == CHOOSE x \in r.convs : TRUE IN
  /\ At(h, "ensure")
  /\ participant' = IF refused THEN participant ELSE WithRows(participant, r.add)
  /\ IF refused \/ r.then = "open" \/ (r.then = "mark" /\ Latest(c) = 0)
     THEN Done(h)
     ELSE Goto(h, [at |-> r.then, who |-> r.who, conv |-> c, latest |-> Latest(c)])
  /\ UNCHANGED <<accountVars, officeVars, offered, idsAlike, conversation, message>>

\* sendMessage; a message whose parts do not fit its type is refused and changes nothing
SendMessage(h) ==
  /\ At(h, "send")
  /\ Len(message) < MaxMessages
  /\ message' = Append(message, [conv |-> req[h].conv, sender |-> req[h].who])
  /\ Done(h)
  /\ UNCHANGED <<accountVars, officeVars, offered, idsAlike, conversation, participant>>

\* markAsRead stamps the row with the message it read before and with the time it is now.
MarkAsRead(h) ==
  /\ At(h, "mark")
  /\ participant' = [participant EXCEPT ![<<req[h].conv, req[h].who>>] =
                       [id |-> req[h].latest, at |-> Len(message)]]
  /\ Done(h)
  /\ UNCHANGED <<accountVars, officeVars, offered, idsAlike, conversation, message>>

ChatStep(h) ==
  InsertConversation(h) \/ AddTeam(h) \/ AddSelf(h) \/ SendMessage(h) \/ MarkAsRead(h)

(***************************************************************************)
(* The unread counts of a listing (batchCountUnread)                       *)
(***************************************************************************)

ReadAt(a, c) == participant[<<c, a>>].at

\* Messages of others in the conversation after a moment
Since(a, c, moment) ==
  Cardinality({i \in 1..Len(message) :
                 message[i].conv = c /\ message[i].sender # a /\ i > moment})

\* One query counts from the earliest reading of the listed conversations; the ones that
\* differ are counted again when some conversation was never read.
CountUnread(a, cs) ==
  LET read == {c \in cs : ReadAt(a, c) > 0}
      earliest == IF read = {} THEN 0 ELSE Min({ReadAt(a, c) : c \in read})
  IN [c \in cs |->
        IF read # {} /\ read # cs /\ ReadAt(a, c) # earliest THEN Since(a, c, ReadAt(a, c))
        ELSE Since(a, c, earliest)]

(***************************************************************************)
(* Properties                                                              *)
(***************************************************************************)

\* A listing never hides an unread message, and what it shows too many is told exactly. It
\* shows the unread ones of each conversation when one of them was never read. On a page
\* that was read all through, it counts in every conversation the messages since the one
\* read earliest, though the comments say otherwise (chat.service.ts:860 "correctness",
\* :892-894 "we may have overcounted. Refine those"): the refining is skipped there (:895).
UnreadNeverHidden ==
  \A a \in Accounts : \A cs \in SUBSET {c \in Listed(a) : <<c, a>> \in Rows} :
    LET shown == CountUnread(a, cs)
        never == \E c \in cs : ReadAt(a, c) = 0
        first == {c \in cs : \A d \in cs : ReadAt(a, c) <= ReadAt(a, d)}
    IN \A c \in cs :
         /\ shown[c] >= Since(a, c, ReadAt(a, c))
         /\ IF never THEN shown[c] = Since(a, c, ReadAt(a, c))
            ELSE \A d \in first : shown[c] = Since(a, c, ReadAt(a, d))

\* The two marks of a participant agree: no message lies after the one that is marked as
\* read and before the moment of reading, so none is skipped.
MarksAgree ==
  serial => \A p \in Rows :
    LET m == participant[p] IN \A i \in (m.id + 1)..m.at : message[i].conv # p[1]

\* A booking and an office have one conversation: both sides write in the same one.
OneConversation ==
  serial => \A c, d \in Open : conversation[c] = conversation[d] => c = d

\* Whoever has sent a message is a participant, and so is the customer and the owner.
SendersTakePart ==
  /\ \A i \in 1..Len(message) : <<message[i].conv, message[i].sender>> \in Rows
  /\ \A c \in Open : {<<c, User(c)>>, <<c, OfficeIn(c)>>} \subseteq Rows

\* What both sides see of a chat is one conversation, with marks and counts that hide nothing.
ChatSound == UnreadNeverHidden /\ MarksAgree /\ OneConversation /\ SendersTakePart
=============================================================================
