--------------------------- MODULE MessagingProofs ---------------------------
(***************************************************************************)
(* What holds of notifications, for any number of recipients, rows, jobs,  *)
(* batches and requests that overlap, with a process that may die; and of  *)
(* reviews, for any number of authors, offices, bookings and rows; and of  *)
(* chats, for any number of conversations, messages and sockets; each of   *)
(* them alone, and all in the one process that serves them.                *)
(***************************************************************************)
EXTENDS Messaging, SumProofs

-----------------------------------------------------------------------------
(* The invariant *)

\* What a request on its way has read
ReqHolds(r) ==
  /\ r.at = "notify" => r \in [at : {"notify"}, left : SUBSET Accounts]
  /\ r.at = "enqueue" => r \in [at : {"enqueue"}, left : SUBSET Accounts, row : Issued]
  /\ r.at = "mark_read" => r.row \in Issued
  /\ r.at = "device" => r.who \in Accounts /\ r.token \in Tokens

\* A job that is there has attempts left.
LiveJob == [at : Stages, tries : 0..(Attempts - 1)]

\* A batch has a row in hand between the insert and the update of its status.
Handing == {"sending", "accepted", "refused"}
BatchHolds(job) ==
  /\ job.left \subseteq job.to
  /\ job.at # "thrown"
  /\ IF job.at \in Handing THEN job.row \in Issued ELSE job.row = None
  /\ job.at = "done" => job.left = {}

RowTypes ==
  /\ notification \in [Notifications -> Notification \union {None}]
  /\ deleted \subseteq Issued /\ seen \subseteq Issued
  /\ \E k \in 0..MaxNotifications : Issued = 1..k

JobTypes ==
  /\ sendJob \in [Notifications -> LiveJob \union {None}]
  /\ batch \in [Batches -> Batch \union {None}]
  /\ \A b \in Batches : batch[b] # None => BatchHolds(batch[b])
  /\ IsFiniteSet({b \in Batches : batch[b] # None})
  /\ accepted \in [Notifications -> Nat]

ReqTypes ==
  /\ req = [h \in Handlers |-> req[h]]
  /\ \A h \in Handlers : ReqHolds(req[h])

OtherTypes ==
  /\ employee \in [Employees -> Employee \union {None}]
  /\ device \in [Tokens -> Accounts \union {None}]
  /\ language \in [Accounts -> Languages \union {None}]

\* A row waits for its job, has one, or is in the hands of a batch, and of one only.
Placed ==
  /\ \A n \in Notifications : sendJob[n] # None => n \in Issued /\ ~Queueing(n) /\ ~Carried(n)
  /\ \A n \in Notifications : Queueing(n) => ~Carried(n) /\ notification[n].source = "SYSTEM"
  /\ \A h, g \in Handlers : At(h, "enqueue") /\ At(g, "enqueue") /\ req[h].row = req[g].row => h = g
  /\ \A b, c \in Batches : InHand(b) /\ InHand(c) /\ batch[b].row = batch[c].row => b = c

\* The attempts used up, and the death of the process, account for what a provider took.
Died == IF trouble.died THEN 1 ELSE 0
Allowed(n) ==
  IF sendJob[n] = None THEN Attempts + Died
  ELSE sendJob[n].tries + Died + (IF sendJob[n].at \in {"accepted", "thrown"} THEN 1 ELSE 0)

Counted ==
  /\ \A n \in Notifications : accepted[n] <= Allowed(n)
  /\ \A n \in Notifications : n \notin Issued \/ Queueing(n) => accepted[n] = 0
  /\ \A b \in Batches : InHand(b) =>
       accepted[batch[b].row] <= (IF batch[b].at = "sending" THEN 0 ELSE 1)

SegmentCounted ==
  /\ segment \in LiveJob \union {None} /\ reached \in Nat
  /\ reached <= Died + (IF segment = None \/ segment.at \in {"accepted", "refused"} THEN 1 ELSE 0)

\* The rows of an admin's messages to an account, and the messages that have served it
AdminRows(a) == {n \in Issued : notification[n].to = a /\ notification[n].source = "ADMIN"}
ServedBy(a) ==
  {b \in Batches : /\ batch[b] # None /\ batch[b].kind = "direct" /\ a \in batch[b].to \ batch[b].left
                   /\ <<b, a>> \notin trouble.unsaved}

OneRowEach ==
  ~trouble.died =>
    \A a \in Accounts : Cardinality(AdminRows(a)) = IF Exists(a) THEN Cardinality(ServedBy(a)) ELSE 0

ReadAsMarked == \A n \in Present : notification[n].read \in BOOLEAN /\ (notification[n].read <=> n \in seen)

\* A row that is pending although attempts have ended has seen none of them write; a batch
\* does not come back to a recipient whose row it could not save.
Unmarked ==
  /\ \A n \in Present : sendJob[n] # None /\ notification[n].status = "PENDING" =>
                          trouble.unmarked[n] = sendJob[n].tries
  /\ \A n \in Notifications : n \notin Issued \/ Queueing(n) => trouble.unmarked[n] = 0
Skipped ==
  ~trouble.died => \A b \in Batches, a \in Accounts :
                     <<b, a>> \in trouble.unsaved => batch[b] # None /\ a \notin batch[b].left
Troubles == trouble \in Trouble /\ Unmarked /\ Skipped

Types == RowTypes /\ JobTypes /\ ReqTypes /\ OtherTypes
NotifyInv ==
  /\ Types /\ Placed /\ Counted /\ SegmentCounted /\ OneRowEach /\ ReadAsMarked /\ PendingHasJob
  /\ Troubles

-----------------------------------------------------------------------------
(* What a step leaves alone *)

LEMMA TeamsAreAccounts ==
  ASSUME OtherTypes, NEW o \in Accounts PROVE Team(o) \subseteq Accounts
<1>1. ASSUME NEW e \in Employees, employee[e] # None PROVE employee[e].account \in Accounts \union {None}
  BY <1>1 DEF OtherTypes, Employee
<1>2. QED
  BY <1>1 DEF Team, StaffRows

LEMMA IdleHolds == ReqHolds(Idle) /\ Idle.at = "idle"
  BY DEF ReqHolds, Idle

LEMMA RowOf == ASSUME RowTypes, NEW n \in Issued PROVE n \in Notifications /\ notification[n] \in Notification
  BY DEF RowTypes, Issued

LEMMA BatchOf ==
  ASSUME JobTypes, NEW b \in Batches, batch[b] # None PROVE batch[b] \in Batch /\ BatchHolds(batch[b])
  BY DEF JobTypes

\* No request that is about to add a job moves.
Steady ==
  /\ req' = [h \in Handlers |-> req'[h]]
  /\ \A h \in Handlers :
       req'[h] = req[h] \/ (req[h].at # "enqueue" /\ req'[h].at # "enqueue" /\ \A r : r = req'[h] => ReqHolds(r))

\* The same rows, for the same accounts.
Alike ==
  /\ notification' \in [Notifications -> Notification \union {None}]
  /\ Issued' = Issued
  /\ \A n \in Issued : notification'[n].to = notification[n].to /\ notification'[n].source = notification[n].source

LEMMA SteadyQueue ==
  ASSUME Steady
  PROVE  /\ \A h \in Handlers : At(h, "enqueue")' <=> At(h, "enqueue")
         /\ \A h \in Handlers : At(h, "enqueue") => req'[h] = req[h]
         /\ \A n : Queueing(n)' <=> Queueing(n)
  BY DEF Steady, At, Queueing

LEMMA HoldsOn ==
  ASSUME NEW r, ReqHolds(r), Issued \subseteq Issued' PROVE ReqHolds(r)'
<1>1. ASSUME r.at = "enqueue" PROVE r \in [at : {"enqueue"}, left : SUBSET Accounts, row : Issued']
  BY <1>1 DEF ReqHolds
<1>2. ASSUME r.at = "mark_read" PROVE r.row \in Issued'
  BY <1>2 DEF ReqHolds
<1>3. QED
  BY <1>1, <1>2 DEF ReqHolds

LEMMA SteadyTypes ==
  ASSUME ReqTypes, Steady, Issued \subseteq Issued' PROVE ReqTypes'
<1>1. ASSUME NEW h \in Handlers PROVE ReqHolds(req[h])'
  <2>1. PICK r : r = req'[h]
    OBVIOUS
  <2>2. ReqHolds(r)
    BY <2>1 DEF Steady, ReqTypes
  <2>3. ReqHolds(r)'
    BY <2>2, HoldsOn
  <2>4. QED
    BY <2>1, <2>3 DEF ReqHolds
<1>2. QED
  BY <1>1 DEF ReqTypes, Steady

LEMMA AlikeRows == ASSUME Alike, NEW a PROVE AdminRows(a)' = AdminRows(a)
  BY DEF Alike, AdminRows

LEMMA AlikeServes ==
  ASSUME OneRowEach, Alike, trouble'.died = trouble.died,
         \A a \in Accounts : Exists(a)' <=> Exists(a),
         \A a \in Accounts : Exists(a) => ServedBy(a)' = ServedBy(a)
  PROVE  OneRowEach'
  BY AlikeRows DEF OneRowEach

LEMMA BatchesSame ==
  ASSUME UNCHANGED batch
  PROVE  /\ \A n : Carried(n)' <=> Carried(n)
         /\ \A b : InHand(b)' <=> InHand(b)
         /\ UNCHANGED trouble => \A a : ServedBy(a)' = ServedBy(a)
  BY DEF Carried, ServedBy, InHand

\* Pending rows whose jobs have not moved
LEMMA UnmarkedStays ==
  ASSUME Unmarked, trouble'.unmarked = trouble.unmarked,
         \A n \in Notifications : n \notin Issued' \/ Queueing(n)' => n \notin Issued \/ Queueing(n),
         \A n \in Present' : sendJob'[n] # None /\ notification'[n].status = "PENDING" =>
                              /\ n \in Present /\ notification[n].status = "PENDING"
                              /\ sendJob[n] # None /\ sendJob'[n].tries = sendJob[n].tries
  PROVE  Unmarked'
  BY DEF Unmarked

LEMMA SkippedStays == ASSUME Skipped, UNCHANGED <<batch, trouble>> PROVE Skipped'
  BY DEF Skipped

rowVars == <<notification, deleted, sendJob, batch, accepted, seen, trouble>>

LEMMA RowsSame ==
  ASSUME Types, UNCHANGED rowVars
  PROVE  /\ RowTypes' /\ JobTypes' /\ Alike /\ Issued' = Issued /\ Present' = Present
         /\ \A n : Allowed(n)' = Allowed(n)
<1>1. Issued' = Issued
  BY DEF Issued, rowVars
<1>2. \A b \in Batches : batch[b] # None => BatchHolds(batch[b])'
  BY <1>1 DEF Types, JobTypes, BatchHolds, rowVars
<1>3. QED
  BY <1>1, <1>2 DEF Types, RowTypes, JobTypes, Alike, Present, Allowed, Died, rowVars

LEMMA PlacedSame ==
  ASSUME NotifyInv, Steady, UNCHANGED rowVars, UNCHANGED segmentVars PROVE Placed' /\ Counted' /\ SegmentCounted'
<1>1. /\ \A n : Queueing(n)' <=> Queueing(n)
      /\ \A h \in Handlers : At(h, "enqueue")' <=> At(h, "enqueue")
      /\ \A h \in Handlers : At(h, "enqueue") => req'[h] = req[h]
  BY SteadyQueue
<1>2. (\A n : Carried(n)' <=> Carried(n)) /\ (\A b : InHand(b)' <=> InHand(b))
  BY BatchesSame DEF rowVars
<1>3. Issued' = Issued /\ \A n : Allowed(n)' = Allowed(n)
  BY RowsSame DEF NotifyInv
<1>4. Placed'
  BY <1>1, <1>2, <1>3 DEF NotifyInv, Placed, rowVars
<1>5. Counted'
  BY <1>1, <1>2, <1>3 DEF NotifyInv, Counted, rowVars
<1>6. SegmentCounted'
  BY DEF NotifyInv, SegmentCounted, Died, rowVars, segmentVars
<1>7. QED
  BY <1>4, <1>5, <1>6

\* Requests that turn to something else than a row, and what becomes of people and devices
LEMMA OthersMove ==
  ASSUME NotifyInv, Steady, UNCHANGED rowVars, UNCHANGED segmentVars, dropped' = dropped, OtherTypes',
         \A a \in Accounts : Exists(a) => Exists(a)',
         \A a \in Accounts : Exists(a)' /\ ~Exists(a) => \A b \in Batches : batch[b] # None => a \notin batch[b].to
  PROVE  NotifyInv'
<1>1. RowTypes' /\ JobTypes' /\ Alike /\ Issued' = Issued /\ Present' = Present
  BY RowsSame DEF NotifyInv
<1>2. ReqTypes'
  BY <1>1, SteadyTypes DEF NotifyInv, Types
<1>3. OneRowEach'
  <2> SUFFICES ASSUME ~trouble.died, NEW a \in Accounts
               PROVE  Cardinality(AdminRows(a))' = IF Exists(a)' THEN Cardinality(ServedBy(a))' ELSE 0
    BY DEF OneRowEach, rowVars
  <2>1. AdminRows(a)' = AdminRows(a) /\ ServedBy(a)' = ServedBy(a)
    BY <1>1, AlikeRows, BatchesSame DEF rowVars
  <2>2. CASE Exists(a)' /\ ~Exists(a)
    <3>1. ServedBy(a) = {}
      BY <2>2 DEF ServedBy
    <3>2. QED
      BY <2>1, <2>2, <3>1, FS_EmptySet DEF NotifyInv, OneRowEach
  <2>3. CASE Exists(a)' <=> Exists(a)
    BY <2>1, <2>3 DEF NotifyInv, OneRowEach
  <2>4. QED
    BY <2>2, <2>3
<1>4. ReadAsMarked'
  BY <1>1 DEF NotifyInv, ReadAsMarked, rowVars
<1>5. PendingHasJob'
  <2>1. (\A n : Queueing(n)' <=> Queueing(n)) /\ (\A n : Carried(n)' <=> Carried(n))
    BY SteadyQueue, BatchesSame DEF rowVars
  <2>2. QED
    BY <1>1, <2>1 DEF NotifyInv, PendingHasJob, rowVars
<1>6. Troubles'
  <2>1. \A n : Queueing(n)' <=> Queueing(n)
    BY SteadyQueue
  <2>2. Unmarked'
    BY <1>1, <2>1, UnmarkedStays DEF NotifyInv, Troubles, rowVars
  <2>3. QED
    BY <2>2, SkippedStays DEF NotifyInv, Troubles, rowVars
<1>7. QED
  BY <1>1, <1>2, <1>3, <1>4, <1>5, <1>6, PlacedSame DEF NotifyInv, Types

LEMMA BeginIsSteady ==
  ASSUME ReqTypes, NEW h \in Handlers, NEW r, Begin(h, r), r.at # "enqueue", ReqHolds(r)
  PROVE  Steady /\ dropped' = dropped
<1>1. req[h].at # "enqueue" /\ req' = [req EXCEPT ![h] = r]
  BY DEF Begin, Idle
<1>2. QED
  BY <1>1 DEF Begin, Steady, ReqTypes

LEMMA GotoIsSteady ==
  ASSUME ReqTypes, NEW h \in Handlers, NEW r, Goto(h, r), req[h].at # "enqueue", r.at # "enqueue", ReqHolds(r)
  PROVE  Steady /\ dropped' = dropped
  BY DEF Goto, Steady, ReqTypes

LEMMA DoneIsSteady ==
  ASSUME ReqTypes, NEW h \in Handlers, Done(h), req[h].at # "enqueue" PROVE Steady /\ dropped' = dropped
  BY GotoIsSteady, IdleHolds DEF Done

LEMMA StillIsSteady == ASSUME ReqTypes, UNCHANGED reqVars PROVE Steady /\ dropped' = dropped
  BY DEF Steady, ReqTypes, reqVars

LEMMA PeopleStay ==
  ASSUME UNCHANGED <<accountVars, officeVars>>
  PROVE  (\A a : Exists(a)' <=> Exists(a)) /\ employee' = employee
  BY DEF Exists, accountVars, officeVars

LEMMA EventKeeps ==
  ASSUME NotifyInv, NEW h \in Handlers, NotifyRequest(h), UNCHANGED segmentVars PROVE NotifyInv'
<1>1. ASSUME NEW r, Begin(h, r), r.at # "enqueue", ReqHolds(r), UNCHANGED <<accountVars, officeVars, notifyVars>>
      PROVE  NotifyInv'
  <2>1. Steady /\ dropped' = dropped
    BY <1>1, BeginIsSteady DEF NotifyInv, Types
  <2>2. UNCHANGED rowVars /\ OtherTypes'
    BY <1>1, PeopleStay DEF NotifyInv, Types, OtherTypes, rowVars, notifyVars
  <2>3. \A a : Exists(a)' <=> Exists(a)
    BY <1>1, PeopleStay
  <2>4. QED
    BY <2>1, <2>2, <2>3, OthersMove
<1>2. ASSUME NEW to \in {EveryTeam, Admins} \union {{a} : a \in Accounts}, HandleEvent(h, to) PROVE NotifyInv'
  <2>1. EveryTeam \subseteq Accounts
    BY TeamsAreAccounts DEF NotifyInv, Types, EveryTeam
  <2>2. to \subseteq Accounts
    BY <2>1 DEF Admins
  <2>3. ReqHolds([at |-> "notify", left |-> to])
    BY <2>2 DEF ReqHolds
  <2>4. QED
    BY <1>1, <1>2, <2>3 DEF HandleEvent
<1>3. ASSUME NEW n \in Notifications, MarkRead(h, n) PROVE NotifyInv'
  <2>1. ReqHolds([at |-> "mark_read", row |-> n])
    BY <1>3 DEF ReqHolds, MarkRead, Present
  <2>2. QED
    BY <1>1, <1>3, <2>1 DEF MarkRead
<1>4. ASSUME NEW a \in Accounts, NEW t \in Tokens, RegisterDeviceRead(h, a, t) PROVE NotifyInv'
  <2>1. ReqHolds([at |-> "device", who |-> a, token |-> t, known |-> device[t] # None])
    BY DEF ReqHolds
  <2>2. QED
    BY <1>1, <1>4, <2>1 DEF RegisterDeviceRead
<1>5. QED
  BY <1>2, <1>3, <1>4 DEF NotifyRequest

LEMMA RegisterKeeps ==
  ASSUME NotifyInv, NEW h \in Handlers, RegisterDevice(h), UNCHANGED segmentVars PROVE NotifyInv'
<1>1. req[h].at = "device" /\ req[h].who \in Accounts /\ req[h].token \in Tokens
  BY DEF RegisterDevice, At, NotifyInv, Types, ReqTypes, ReqHolds
<1>2. Steady /\ dropped' = dropped
  BY <1>1, DoneIsSteady DEF RegisterDevice, NotifyInv, Types
<1>3. device' \in [Tokens -> Accounts \union {None}]
  BY <1>1 DEF RegisterDevice, NotifyInv, Types, OtherTypes
<1>4. UNCHANGED rowVars /\ OtherTypes' /\ \A a : Exists(a)' <=> Exists(a)
  BY <1>3, PeopleStay DEF RegisterDevice, rowVars, NotifyInv, Types, OtherTypes
<1>5. QED
  BY <1>2, <1>4, OthersMove

LEMMA SeedKeeps ==
  ASSUME NotifyInv, NEW lang, SeedTemplate(lang), UNCHANGED segmentVars PROVE NotifyInv'
<1>1. Steady /\ dropped' = dropped
  BY StillIsSteady DEF SeedTemplate, NotifyInv, Types
<1>2. UNCHANGED rowVars /\ OtherTypes' /\ \A a : Exists(a)' <=> Exists(a)
  BY PeopleStay DEF SeedTemplate, rowVars, NotifyInv, Types, OtherTypes
<1>3. QED
  BY <1>1, <1>2, OthersMove

LEMMA RemoveDeviceKeeps ==
  ASSUME NotifyInv, NEW a \in Accounts, NEW t \in Tokens, RemoveDevice(a, t), UNCHANGED segmentVars PROVE NotifyInv'
<1>1. Steady /\ dropped' = dropped
  BY StillIsSteady DEF RemoveDevice, AtOnce, NotifyInv, Types
<1>2. device' \in [Tokens -> Accounts \union {None}]
  BY DEF RemoveDevice, NotifyInv, Types, OtherTypes
<1>3. UNCHANGED rowVars /\ OtherTypes' /\ \A b : Exists(b)' <=> Exists(b)
  BY <1>2, PeopleStay DEF RemoveDevice, rowVars, NotifyInv, Types, OtherTypes
<1>4. QED
  BY <1>1, <1>3, OthersMove

LEMMA PeopleKeep == ASSUME NotifyInv, PeopleChange PROVE NotifyInv'
<1>1. Steady /\ dropped' = dropped
  BY StillIsSteady DEF PeopleChange, NotifyInv, Types
<1>2. UNCHANGED rowVars /\ UNCHANGED segmentVars /\ OtherTypes'
  BY DEF PeopleChange, rowVars, NotifyInv, Types, OtherTypes
<1>3. /\ \A a \in Accounts : Exists(a) => Exists(a)'
      /\ \A a \in Accounts : Exists(a)' /\ ~Exists(a) => \A b \in Batches : batch[b] # None => a \notin batch[b].to
  BY DEF PeopleChange, NewIds
<1>4. QED
  BY <1>1, <1>2, <1>3, OthersMove

-----------------------------------------------------------------------------
(* Requests that are cut, deletions, and what is marked as read *)

LEMMA QueueRow ==
  ASSUME ReqTypes, NEW h \in Handlers, At(h, "enqueue")
  PROVE  req[h] \in [at : {"enqueue"}, left : SUBSET Accounts, row : Issued] /\ req[h].row \in Issued /\ Queueing(req[h].row)
<1>1. req[h] \in [at : {"enqueue"}, left : SUBSET Accounts, row : Issued]
  BY DEF At, ReqTypes, ReqHolds
<1>2. QED
  BY <1>1 DEF Queueing

LEMMA DropKeeps ==
  ASSUME NotifyInv, NEW h \in Handlers, Drop(h), UNCHANGED <<accountVars, officeVars, notifyVars>>, UNCHANGED segmentVars
  PROVE  NotifyInv'
<1>1. UNCHANGED rowVars /\ OtherTypes' /\ dropped' /\ \A a : Exists(a)' <=> Exists(a)
  BY PeopleStay DEF rowVars, notifyVars, NotifyInv, Types, OtherTypes, Drop
<1>2. req' = [req EXCEPT ![h] = Idle]
  BY DEF Drop
<1>3. RowTypes' /\ JobTypes' /\ Alike /\ Issued' = Issued /\ Present' = Present /\ \A n : Allowed(n)' = Allowed(n)
  BY <1>1, RowsSame DEF NotifyInv
<1>4. ReqTypes'
  <2>1. \A g \in Handlers : req'[g] = req[g] \/ req'[g] = Idle
    BY <1>2 DEF NotifyInv, Types, ReqTypes
  <2>2. \A g \in Handlers : ReqHolds(req[g])'
    BY <1>3, <2>1, IdleHolds DEF NotifyInv, Types, ReqTypes, ReqHolds
  <2>3. QED
    BY <1>2, <2>2 DEF NotifyInv, Types, ReqTypes
<1>5. \A g \in Handlers : At(g, "enqueue")' => At(g, "enqueue") /\ req'[g] = req[g]
  BY <1>2, IdleHolds DEF NotifyInv, Types, ReqTypes, At
<1>6. \A n : Queueing(n)' => Queueing(n)
  BY <1>5 DEF Queueing
<1>7. (\A n : Carried(n)' <=> Carried(n)) /\ (\A b : InHand(b)' <=> InHand(b)) /\ \A a : ServedBy(a)' = ServedBy(a)
  BY <1>1, BatchesSame DEF rowVars
<1>8. Placed'
  BY <1>1, <1>3, <1>5, <1>6, <1>7 DEF NotifyInv, Placed, rowVars
<1>9. Counted'
  BY <1>1, <1>3, <1>6, <1>7 DEF NotifyInv, Counted, rowVars
<1>10. SegmentCounted' /\ OneRowEach' /\ ReadAsMarked'
  <2>1. SegmentCounted'
    BY <1>1 DEF NotifyInv, SegmentCounted, Died, rowVars, segmentVars
  <2>2. OneRowEach'
    BY <1>1, <1>3, <1>7, AlikeServes DEF NotifyInv, rowVars
  <2>3. ReadAsMarked'
    BY <1>1, <1>3 DEF NotifyInv, ReadAsMarked, rowVars
  <2>4. QED
    BY <2>1, <2>2, <2>3
<1>11. PendingHasJob'
  <2> SUFFICES ASSUME NEW n \in Present, notification[n].status = "PENDING"
               PROVE  \/ sendJob[n] # None
                      \/ Carried(n)
                      \/ notification[n].source = "SYSTEM"
                      \/ n \in trouble.stranded
                      \/ trouble.unmarked[n] = Attempts
    BY <1>1, <1>3, <1>7 DEF PendingHasJob, rowVars
  <2>1. n \in Notifications
    BY DEF Present, Issued
  <2>2. QED
    BY <2>1 DEF NotifyInv, PendingHasJob, Placed
<1>12. Troubles'
  <2>1. Unmarked'
    BY <1>1, <1>3, <1>6, UnmarkedStays DEF NotifyInv, Troubles, rowVars
  <2>2. QED
    BY <1>1, <2>1, SkippedStays DEF NotifyInv, Troubles, rowVars
<1>13. QED
  BY <1>1, <1>3, <1>4, <1>8, <1>9, <1>10, <1>11, <1>12 DEF NotifyInv, Types

LEMMA AlikePlaced ==
  ASSUME NotifyInv, Steady, Alike, UNCHANGED batch, \A n \in Notifications : sendJob'[n] # None => sendJob[n] # None
  PROVE  Placed'
<1>1. /\ \A n : Queueing(n)' <=> Queueing(n)
      /\ \A h \in Handlers : At(h, "enqueue")' <=> At(h, "enqueue")
      /\ \A h \in Handlers : At(h, "enqueue") => req'[h] = req[h]
  BY SteadyQueue
<1>2. (\A n : Carried(n)' <=> Carried(n)) /\ (\A b : InHand(b)' <=> InHand(b))
  BY BatchesSame
<1>3. \A n \in Notifications : Queueing(n) => n \in Issued
  BY QueueRow DEF Queueing, NotifyInv, Types
<1>4. \A n \in Notifications : Queueing(n) => notification'[n].source = "SYSTEM"
  BY <1>3 DEF NotifyInv, Placed, Alike
<1>5. QED
  BY <1>1, <1>2, <1>4 DEF NotifyInv, Placed, Alike

LEMMA BatchTypesSame ==
  ASSUME JobTypes, Alike, UNCHANGED batch PROVE \A b \in Batches : batch'[b] # None => BatchHolds(batch[b])'
  BY DEF JobTypes, Alike, BatchHolds

\* Rows alike, with the same jobs
LEMMA RowsAlike ==
  ASSUME NotifyInv, Steady, Alike, UNCHANGED <<sendJob, batch, accepted, trouble>>,
         OtherTypes', \A a \in Accounts : Exists(a)' <=> Exists(a),
         deleted' \subseteq Issued, seen' \subseteq Issued
  PROVE  Types' /\ Placed' /\ Counted' /\ OneRowEach'
<1>1. RowTypes'
  BY DEF NotifyInv, Types, RowTypes, Alike
<1>2. JobTypes'
  BY BatchTypesSame DEF NotifyInv, Types, JobTypes
<1>3. ReqTypes'
  BY SteadyTypes DEF NotifyInv, Types, Alike
<1>4. Counted'
  <2>1. (\A n : Queueing(n)' <=> Queueing(n)) /\ \A b : InHand(b)' <=> InHand(b)
    BY SteadyQueue, BatchesSame
  <2>2. \A n : Allowed(n)' = Allowed(n)
    BY DEF Allowed, Died
  <2>3. QED
    BY <2>1, <2>2 DEF NotifyInv, Counted, Alike
<1>5. OneRowEach'
  BY AlikeServes, BatchesSame DEF NotifyInv
<1>6. QED
  BY <1>1, <1>2, <1>3, <1>4, <1>5, AlikePlaced DEF Types

LEMMA AlikeKeeps ==
  ASSUME NotifyInv, Steady, Alike, UNCHANGED <<sendJob, batch, accepted, trouble, segmentVars>>,
         OtherTypes', \A a \in Accounts : Exists(a)' <=> Exists(a),
         deleted' \subseteq Issued, seen' \subseteq Issued
  PROVE  Types' /\ Placed' /\ Counted' /\ SegmentCounted' /\ OneRowEach'
<1>1. SegmentCounted'
  BY DEF NotifyInv, SegmentCounted, Died, segmentVars
<1>2. QED
  BY <1>1, RowsAlike

LEMMA PendingAlike ==
  ASSUME NotifyInv, Steady, dropped' = dropped, UNCHANGED <<sendJob, batch, trouble>>, Alike, Present' \subseteq Present,
         \A n \in Present' : notification'[n].status = "PENDING" => notification[n].status = "PENDING"
  PROVE  PendingHasJob' /\ Troubles'
<1>1. (\A n : Queueing(n)' <=> Queueing(n)) /\ \A n : Carried(n)' <=> Carried(n)
  BY SteadyQueue, BatchesSame
<1>2. \A n \in Present : notification'[n].source = notification[n].source
  BY DEF Alike, Present
<1>3. PendingHasJob'
  BY <1>1, <1>2 DEF NotifyInv, PendingHasJob
<1>4. Unmarked'
  BY <1>1, UnmarkedStays DEF NotifyInv, Troubles, Alike
<1>5. QED
  BY <1>3, <1>4, SkippedStays DEF NotifyInv, Troubles

LEMMA DeleteKeeps ==
  ASSUME NotifyInv, NEW a \in Accounts, NEW first, NEW last, DeleteSince(a, first, last), UNCHANGED segmentVars PROVE NotifyInv'
<1> DEFINE rows == {n \in Present : notification[n].to = a /\ first <= n /\ n <= last}
<1>1. /\ deleted' = deleted \union rows /\ UNCHANGED <<notification, sendJob, batch, accepted, trouble, segmentVars>>
      /\ seen' = seen
  BY DEF DeleteSince
<1>2. Steady /\ dropped' = dropped
  BY StillIsSteady DEF DeleteSince, AtOnce, NotifyInv, Types
<1>3. Alike /\ Issued' = Issued
  BY <1>1 DEF Alike, Issued, NotifyInv, Types, RowTypes
<1>4. deleted' \subseteq Issued /\ seen' \subseteq Issued /\ Present' \subseteq Present
  BY <1>1, <1>3 DEF Present, NotifyInv, Types, RowTypes
<1>5. OtherTypes' /\ \A b : Exists(b)' <=> Exists(b)
  BY PeopleStay DEF DeleteSince, NotifyInv, Types, OtherTypes
<1>6. Types' /\ Placed' /\ Counted' /\ SegmentCounted' /\ OneRowEach'
  BY <1>1, <1>2, <1>3, <1>4, <1>5, AlikeKeeps
<1>7. PendingHasJob' /\ Troubles'
  BY <1>1, <1>2, <1>3, <1>4, PendingAlike
<1>8. ReadAsMarked'
  BY <1>1, <1>4 DEF NotifyInv, ReadAsMarked
<1>9. QED
  BY <1>6, <1>7, <1>8 DEF NotifyInv

\* Rows that were marked as read; of those asked for, some were deleted meanwhile.
LEMMA ReadKeeps ==
  ASSUME NotifyInv, Steady, dropped' = dropped, NEW S, S \subseteq Issued, NEW U, U \subseteq S, S \ U \subseteq deleted,
         notification' = [n \in Notifications |->
                            IF n \in U THEN [notification[n] EXCEPT !.read = TRUE, !.status = "READ"]
                            ELSE notification[n]],
         seen' = seen \union S, UNCHANGED <<deleted, sendJob, batch, accepted, trouble, segmentVars>>,
         OtherTypes', \A a \in Accounts : Exists(a)' <=> Exists(a)
  PROVE  NotifyInv'
<1> DEFINE Marked(n) == [notification[n] EXCEPT !.read = TRUE, !.status = "READ"]
<1>1. ASSUME NEW n \in U
      PROVE  /\ Marked(n) \in Notification /\ notification[n] \in Notification
             /\ Marked(n).read = TRUE /\ Marked(n).status = "READ"
             /\ Marked(n).to = notification[n].to /\ Marked(n).source = notification[n].source
  BY <1>1, RowOf DEF Notification, NotifyInv, Types
<1>2. \A n \in Notifications : notification'[n] = IF n \in U THEN Marked(n) ELSE notification[n]
  <2>1. notification' = [n \in Notifications |-> IF n \in U THEN Marked(n) ELSE notification[n]]
    OBVIOUS
  <2> HIDE DEF Marked
  <2>2. QED
    BY <2>1
<1> HIDE DEF Marked
<1>3. Issued' = Issued
  <2>1. \A n \in U : Marked(n) # None /\ notification[n] # None
    BY <1>1, NoneIsNoNotificationRow
  <2>2. \A n \in Notifications : notification'[n] # None <=> notification[n] # None
    BY <1>2, <2>1
  <2>3. QED
    BY <2>2 DEF Issued
<1>4. Alike
  <2>1. notification' \in [Notifications -> Notification \union {None}]
    BY <1>1, <1>2 DEF NotifyInv, Types, RowTypes
  <2>2. \A n \in Issued : n \in Notifications
    BY DEF Issued
  <2>3. QED
    BY <1>1, <1>2, <1>3, <2>1, <2>2 DEF Alike
<1>5. Types' /\ Placed' /\ Counted' /\ SegmentCounted' /\ OneRowEach'
  <2>1. deleted' \subseteq Issued /\ seen' \subseteq Issued
    BY DEF NotifyInv, Types, RowTypes
  <2>2. QED
    BY <1>4, <2>1, AlikeKeeps
<1>6. Present' = Present /\ \A n \in Present : n \in Notifications
  BY <1>3 DEF Present, Issued
<1>7. PendingHasJob' /\ Troubles'
  BY <1>1, <1>2, <1>4, <1>6, PendingAlike
<1>8. ReadAsMarked'
  <2> SUFFICES ASSUME NEW n \in Present PROVE notification'[n].read \in BOOLEAN /\ (notification'[n].read <=> n \in seen')
    BY <1>6 DEF ReadAsMarked
  <2>1. CASE n \in U
    BY <1>1, <1>2, <1>6, <2>1
  <2>2. CASE n \notin U
    <3>1. n \notin S
      BY <2>2 DEF Present
    <3>2. QED
      BY <1>2, <1>6, <2>2, <3>1 DEF NotifyInv, ReadAsMarked
  <2>3. QED
    BY <2>1, <2>2
<1>9. QED
  BY <1>5, <1>7, <1>8 DEF NotifyInv

LEMMA SaveReadKeeps ==
  ASSUME NotifyInv, NEW h \in Handlers, SaveRead(h), UNCHANGED segmentVars PROVE NotifyInv'
<1> DEFINE n == req[h].row
           U == IF n \in deleted THEN {} ELSE {n}
<1>1. req[h].at = "mark_read" /\ n \in Issued
  BY DEF SaveRead, At, NotifyInv, Types, ReqTypes, ReqHolds
<1>2. Steady /\ dropped' = dropped
  BY <1>1, DoneIsSteady DEF SaveRead, NotifyInv, Types
<1>3. OtherTypes' /\ \A a : Exists(a)' <=> Exists(a)
  BY PeopleStay DEF SaveRead, NotifyInv, Types, OtherTypes
<1>4. seen' = seen \union {n} /\ UNCHANGED <<deleted, sendJob, batch, accepted, trouble, segmentVars>>
  BY DEF SaveRead
<1>5. notification' = [m \in Notifications |->
                         IF m \in U THEN [notification[m] EXCEPT !.read = TRUE, !.status = "READ"] ELSE notification[m]]
  BY <1>1 DEF SaveRead, NotifyInv, Types, RowTypes
<1>6. {n} \subseteq Issued /\ U \subseteq {n} /\ {n} \ U \subseteq deleted
  BY <1>1
<1> HIDE DEF n, U
<1>7. QED
  BY <1>2, <1>3, <1>4, <1>5, <1>6, ReadKeeps

LEMMA MarkAllKeeps ==
  ASSUME NotifyInv, NEW a \in Accounts, MarkAllAsRead(a), UNCHANGED segmentVars PROVE NotifyInv'
<1> DEFINE S == {n \in Present : notification[n].to = a /\ ~notification[n].read}
<1>1. Steady /\ dropped' = dropped
  BY StillIsSteady DEF MarkAllAsRead, AtOnce, NotifyInv, Types
<1>2. OtherTypes' /\ \A b : Exists(b)' <=> Exists(b)
  BY PeopleStay DEF MarkAllAsRead, NotifyInv, Types, OtherTypes
<1>3. /\ seen' = seen \union S /\ UNCHANGED <<deleted, sendJob, batch, accepted, trouble, segmentVars>>
      /\ notification' = [m \in Notifications |->
                            IF m \in S THEN [notification[m] EXCEPT !.read = TRUE, !.status = "READ"] ELSE notification[m]]
  BY DEF MarkAllAsRead
<1>4. S \subseteq Issued
  BY DEF Present
<1> HIDE DEF S
<1>5. QED
  BY <1>1, <1>2, <1>3, <1>4, ReadKeeps

-----------------------------------------------------------------------------
(* The job of a notification *)

\* A job goes on, or ends with the status of its row.
LEMMA JobKeeps ==
  ASSUME NotifyInv, Steady, dropped' = dropped,
         NEW n \in Notifications, sendJob[n] # None, NEW job \in LiveJob \union {None}, SetSend(n, job),
         accepted' \in [Notifications -> Nat], \A m \in Notifications \ {n} : accepted'[m] = accepted[m],
         accepted'[n] <= Allowed(n)',
         Alike, \A m \in Notifications \ {n} : notification'[m] = notification[m],
         notification'[n].read = notification[n].read,
         n \notin deleted /\ notification'[n].status = "PENDING" =>
           trouble'.unmarked[n] = IF job = None THEN Attempts ELSE job.tries,
         trouble' \in Trouble, \A m \in Notifications \ {n} : trouble'.unmarked[m] = trouble.unmarked[m],
         trouble'.died = trouble.died, trouble'.stranded = trouble.stranded, trouble'.unsaved = trouble.unsaved,
         UNCHANGED <<deleted, seen, batch, segmentVars>>, OtherTypes',
         \A a \in Accounts : Exists(a)' <=> Exists(a)
  PROVE  NotifyInv'
<1>1. /\ sendJob' \in [Notifications -> LiveJob \union {None}] /\ sendJob'[n] = job
      /\ \A m \in Notifications \ {n} : sendJob'[m] = sendJob[m]
  BY DEF SetSend, NotifyInv, Types, JobTypes
<1>2. (\A m : Queueing(m)' <=> Queueing(m)) /\ (\A m : Carried(m)' <=> Carried(m)) /\ \A b : InHand(b)' <=> InHand(b)
  BY SteadyQueue, BatchesSame
<1>3. n \in Issued /\ ~Queueing(n) /\ ~Carried(n)
  BY DEF NotifyInv, Placed
<1>4. Placed'
  BY <1>1, AlikePlaced
<1>5. RowTypes'
  BY DEF NotifyInv, Types, RowTypes, Alike
<1>6. JobTypes'
  BY <1>1, BatchTypesSame DEF NotifyInv, Types, JobTypes
<1>7. ReqTypes'
  BY SteadyTypes DEF NotifyInv, Types, Alike
<1>8. Counted'
  <2>1. \A m \in Notifications : accepted'[m] <= Allowed(m)'
    <3>1. ASSUME NEW m \in Notifications, m # n PROVE Allowed(m)' = Allowed(m)
      BY <1>1, <3>1 DEF Allowed, Died
    <3>2. QED
      BY <3>1 DEF NotifyInv, Counted
  <2>2. \A m \in Notifications : m \notin Issued' \/ Queueing(m)' => accepted'[m] = 0
    BY <1>2, <1>3 DEF NotifyInv, Counted, Alike
  <2>3. ASSUME NEW b \in Batches, InHand(b)
        PROVE  accepted'[batch[b].row] <= (IF batch[b].at = "sending" THEN 0 ELSE 1)
    <3>1. batch[b].row # n /\ batch[b].row \in Notifications
      BY <1>3, <2>3, BatchOf DEF InHand, Carried, NotifyInv, Types, Batch
    <3>2. QED
      BY <2>3, <3>1 DEF NotifyInv, Counted
  <2>4. QED
    BY <1>2, <2>1, <2>2, <2>3 DEF Counted
<1>9. SegmentCounted'
  BY DEF NotifyInv, SegmentCounted, Died, segmentVars
<1>10. OneRowEach'
  <2>1. \A a : ServedBy(a)' = ServedBy(a)
    BY DEF ServedBy
  <2>2. QED
    BY <2>1, AlikeServes DEF NotifyInv
<1>11. Present' = Present /\ \A m \in Present : m \in Notifications
  BY DEF Present, Alike, Issued
<1>12. ReadAsMarked'
  BY <1>11 DEF NotifyInv, ReadAsMarked
<1>13. PendingHasJob'
  <2> SUFFICES ASSUME NEW m \in Present, notification'[m].status = "PENDING"
               PROVE  \/ sendJob'[m] # None
                      \/ Queueing(m)
                      \/ Carried(m)
                      \/ notification'[m].source = "SYSTEM" /\ dropped
                      \/ m \in trouble.stranded
                      \/ trouble'.unmarked[m] = Attempts
    BY <1>2, <1>11 DEF PendingHasJob
  <2>1. CASE m = n
    BY <1>1, <2>1 DEF Present
  <2>2. CASE m # n
    BY <1>1, <1>11, <2>2 DEF NotifyInv, PendingHasJob
  <2>3. QED
    BY <2>1, <2>2
<1>14. Troubles'
  <2>1. \A m \in Notifications : m \notin Issued' \/ Queueing(m)' => trouble'.unmarked[m] = 0
    BY <1>2, <1>3 DEF NotifyInv, Troubles, Unmarked, Alike
  <2>2. ASSUME NEW m \in Present, sendJob'[m] # None, notification'[m].status = "PENDING"
        PROVE  trouble'.unmarked[m] = sendJob'[m].tries
    <3>1. CASE m = n
      BY <1>1, <2>2, <3>1 DEF Present
    <3>2. CASE m # n
      BY <1>1, <1>11, <2>2, <3>2 DEF NotifyInv, Troubles, Unmarked
    <3>3. QED
      BY <3>1, <3>2
  <2>3. Skipped'
    BY DEF NotifyInv, Troubles, Skipped
  <2>4. QED
    BY <1>11, <2>1, <2>2, <2>3 DEF Troubles, Unmarked
<1>15. QED
  BY <1>4, <1>5, <1>6, <1>7, <1>8, <1>9, <1>10, <1>12, <1>13, <1>14 DEF NotifyInv, Types

\* What an attempt leaves of the record of troubles, when it has marked the row and when not
LEMMA TroubleStays ==
  ASSUME NotifyInv, NEW n \in Notifications, UNCHANGED trouble
  PROVE  /\ trouble' \in Trouble /\ \A m \in Notifications \ {n} : trouble'.unmarked[m] = trouble.unmarked[m]
         /\ trouble'.died = trouble.died /\ trouble'.stranded = trouble.stranded /\ trouble'.unsaved = trouble.unsaved
         /\ trouble'.unmarked[n] = trouble.unmarked[n]
  BY DEF NotifyInv, Troubles

LEMMA OneMoreUnmarked ==
  ASSUME NotifyInv, NEW n \in Notifications, LeaveUnmarked(n)
  PROVE  /\ trouble' \in Trouble /\ \A m \in Notifications \ {n} : trouble'.unmarked[m] = trouble.unmarked[m]
         /\ trouble'.died = trouble.died /\ trouble'.stranded = trouble.stranded /\ trouble'.unsaved = trouble.unsaved
         /\ trouble'.unmarked[n] = trouble.unmarked[n] + 1
<1>1. trouble \in Trouble /\ trouble' = [trouble EXCEPT !.unmarked = [trouble.unmarked EXCEPT ![n] = trouble.unmarked[n] + 1]]
  BY DEF NotifyInv, Troubles, LeaveUnmarked
<1>2. trouble.unmarked \in [Notifications -> Nat]
  BY <1>1 DEF Trouble
<1> DEFINE more == [trouble.unmarked EXCEPT ![n] = trouble.unmarked[n] + 1]
<1>3. /\ more \in [Notifications -> Nat] /\ more[n] = trouble.unmarked[n] + 1
      /\ \A m \in Notifications \ {n} : more[m] = trouble.unmarked[m]
  BY <1>2
<1> HIDE DEF more
<1>4. trouble' = [trouble EXCEPT !.unmarked = more]
  BY <1>1 DEF more
<1>5. /\ trouble' \in Trouble /\ trouble'.unmarked = more
      /\ trouble'.died = trouble.died /\ trouble'.stranded = trouble.stranded /\ trouble'.unsaved = trouble.unsaved
  BY <1>1, <1>3, <1>4 DEF Trouble
<1>6. QED
  BY <1>3, <1>5

\* While a job is there, its pending row has seen none of its attempts write.
LEMMA NoneWrote ==
  ASSUME NotifyInv, NEW n \in Notifications, sendJob[n] # None, n \notin deleted, notification[n].status = "PENDING"
  PROVE  trouble.unmarked[n] = sendJob[n].tries
<1>1. n \in Present
  BY DEF NotifyInv, Placed, Present
<1>2. QED
  BY <1>1 DEF NotifyInv, Troubles, Unmarked

\* The rows when nothing is written, and when a status is.
LEMMA NothingWritten == ASSUME RowTypes, UNCHANGED notification PROVE Alike
  BY DEF RowTypes, Alike, Issued

LEMMA StatusWritten ==
  ASSUME RowTypes, NEW n \in Issued, NEW status \in {"SENT", "FAILED"}, UpdateStatus(n, status)
  PROVE  /\ Alike /\ \A m \in Notifications \ {n} : notification'[m] = notification[m]
         /\ notification'[n].read = notification[n].read
         /\ n \notin deleted => notification'[n].status = status
<1> DEFINE row == [notification[n] EXCEPT !.status = status]
<1>1. n \in Notifications /\ notification[n] \in Notification
  BY RowOf
<1>2. /\ row \in Notification /\ row.status = status /\ row.read = notification[n].read
      /\ row.to = notification[n].to /\ row.source = notification[n].source
  BY <1>1 DEF Notification
<1>3. notification' = IF n \in deleted THEN notification ELSE [notification EXCEPT ![n] = row]
  BY DEF UpdateStatus, RowTypes
<1> HIDE DEF row
<1>4. /\ \A m \in Notifications \ {n} : notification'[m] = notification[m]
      /\ notification'[n] = IF n \in deleted THEN notification[n] ELSE row
      /\ notification' \in [Notifications -> Notification \union {None}]
  BY <1>1, <1>2, <1>3 DEF RowTypes
<1>5. row # None /\ notification[n] # None
  BY <1>1, <1>2, NoneIsNoNotificationRow
<1>6. Issued' = Issued
  BY <1>4, <1>5 DEF Issued
<1>7. Alike
  <2>1. ASSUME NEW m \in Issued PROVE m \in Notifications
    BY DEF Issued
  <2>2. QED
    BY <1>2, <1>4, <1>6, <2>1 DEF Alike
<1>8. QED
  BY <1>2, <1>4, <1>7

LEMMA JobOf ==
  ASSUME NotifyInv, NEW n \in Notifications, NEW stage, SendAt(n, stage)
  PROVE  /\ sendJob[n] # None /\ sendJob[n] \in LiveJob /\ sendJob[n].at = stage /\ n \in Issued
         /\ sendJob[n].tries \in 0..2 /\ accepted[n] \in Nat /\ accepted[n] <= Allowed(n)
<1>1. sendJob[n] # None /\ sendJob[n] \in LiveJob /\ sendJob[n].at = stage
  BY DEF SendAt, NotifyInv, Types, JobTypes
<1>2. sendJob[n].tries \in 0..2
  BY <1>1 DEF LiveJob, Attempts
<1>3. n \in Issued
  BY <1>1 DEF NotifyInv, Placed
<1>4. accepted[n] \in Nat /\ accepted[n] <= Allowed(n)
  BY DEF NotifyInv, Types, JobTypes, Counted
<1>5. QED
  BY <1>1, <1>2, <1>3, <1>4

LEMMA JobTo ==
  ASSUME NEW job \in LiveJob, NEW stage \in Stages
  PROVE  /\ [job EXCEPT !.at = stage] \in LiveJob /\ [job EXCEPT !.at = stage].at = stage
         /\ [job EXCEPT !.at = stage].tries = job.tries /\ [job EXCEPT !.at = stage] # None
<1>1. /\ [job EXCEPT !.at = stage] \in LiveJob /\ [job EXCEPT !.at = stage].at = stage
      /\ [job EXCEPT !.at = stage].tries = job.tries
  BY DEF LiveJob
<1>2. \A x \in LiveJob : x # None
  BY NoneIsNoNotificationRow DEF LiveJob, SendJob, Attempts
<1>3. QED
  BY <1>1, <1>2

LEMMA AllowedAfter ==
  ASSUME NotifyInv, NEW n \in Notifications, NEW job, SetSend(n, job), trouble'.died = trouble.died
  PROVE  /\ Died \in 0..1
         /\ Allowed(n)' = IF job = None THEN Attempts + Died
                          ELSE job.tries + Died + (IF job.at \in {"accepted", "thrown"} THEN 1 ELSE 0)
<1>1. sendJob'[n] = job
  BY DEF SetSend, NotifyInv, Types, JobTypes
<1>2. QED
  BY <1>1 DEF Allowed, Died

\* A step of the worker leaves requests and people alone.
WorkersOnly == UNCHANGED <<accountVars, officeVars, reqVars, deleted, device, language, template, seen>>

LEMMA WorkerIsSteady ==
  ASSUME NotifyInv, WorkersOnly
  PROVE  Steady /\ dropped' = dropped /\ OtherTypes' /\ \A a \in Accounts : Exists(a)' <=> Exists(a)
<1>1. Steady /\ dropped' = dropped
  BY StillIsSteady DEF WorkersOnly, NotifyInv, Types
<1>2. OtherTypes' /\ \A a : Exists(a)' <=> Exists(a)
  BY PeopleStay DEF WorkersOnly, NotifyInv, Types, OtherTypes
<1>3. QED
  BY <1>1, <1>2

\* The job of an attempt that threw
LEMMA RetriedJob ==
  ASSUME NEW tries \in 0..2
  PROVE  /\ Retried(tries + 1) \in LiveJob \union {None}
         /\ IF tries < 2 THEN Retried(tries + 1) # None /\ Retried(tries + 1).at = "waiting" /\ Retried(tries + 1).tries = tries + 1
            ELSE Retried(tries + 1) = None
<1> DEFINE job == Retried(tries + 1)
<1>1. CASE tries < 2
  <2>1. job = [at |-> "waiting", tries |-> tries + 1]
    BY <1>1 DEF Retried, Attempts
  <2>2. job \in LiveJob
    BY <1>1, <2>1 DEF LiveJob, Stages, Attempts
  <2>3. \A x \in LiveJob : x # None
    BY NoneIsNoNotificationRow DEF LiveJob, SendJob, Attempts
  <2>4. QED
    BY <1>1, <2>1, <2>2, <2>3
<1>2. CASE ~(tries < 2)
  BY <1>2 DEF Retried, Attempts
<1>3. QED
  BY <1>1, <1>2

\* The read of the row throws.
LEMMA ReadThrowsKeeps ==
  ASSUME NotifyInv, NEW n \in Notifications, SendAt(n, "waiting"), SetSend(n, Retried(sendJob[n].tries + 1)),
         LeaveUnmarked(n), UNCHANGED <<notification, batch, accepted>>, WorkersOnly, UNCHANGED segmentVars
  PROVE  NotifyInv'
<1> DEFINE job == Retried(sendJob[n].tries + 1)
<1>1. /\ sendJob[n] # None /\ sendJob[n].at = "waiting" /\ sendJob[n].tries \in 0..2
      /\ accepted[n] \in Nat /\ accepted[n] <= Allowed(n)
  BY JobOf
<1>2. /\ job \in LiveJob \union {None}
      /\ IF sendJob[n].tries < 2 THEN job # None /\ job.at = "waiting" /\ job.tries = sendJob[n].tries + 1 ELSE job = None
  BY <1>1, RetriedJob
<1>3. SetSend(n, job)
  OBVIOUS
<1> HIDE DEF job
<1>4. /\ trouble' \in Trouble /\ \A m \in Notifications \ {n} : trouble'.unmarked[m] = trouble.unmarked[m]
      /\ trouble'.died = trouble.died /\ trouble'.stranded = trouble.stranded /\ trouble'.unsaved = trouble.unsaved
      /\ trouble'.unmarked[n] = trouble.unmarked[n] + 1
  BY OneMoreUnmarked
<1>5. accepted'[n] <= Allowed(n)'
  <2>1. accepted[n] <= sendJob[n].tries + Died
    <3>1. Died \in 0..1
      BY DEF Died
    <3>2. Allowed(n) = sendJob[n].tries + Died
      BY <1>1, <3>1 DEF Allowed
    <3>3. QED
      BY <1>1, <3>2
  <2>2. CASE sendJob[n].tries < 2
    BY <1>1, <1>2, <1>3, <1>4, <2>1, <2>2, AllowedAfter
  <2>3. CASE ~(sendJob[n].tries < 2)
    BY <1>1, <1>2, <1>3, <1>4, <2>1, <2>3, AllowedAfter DEF Attempts
  <2>4. QED
    BY <2>2, <2>3
<1>6. Alike /\ notification' = notification
  BY NothingWritten DEF NotifyInv, Types
<1>7. accepted' \in [Notifications -> Nat] /\ accepted' = accepted
  BY DEF NotifyInv, Types, JobTypes
<1>8. UNCHANGED <<deleted, seen, batch, segmentVars>>
  BY DEF WorkersOnly
<1>9. n \notin deleted /\ notification'[n].status = "PENDING" =>
        trouble'.unmarked[n] = IF job = None THEN Attempts ELSE job.tries
  BY <1>1, <1>2, <1>4, <1>6, NoneWrote DEF Attempts
<1>10. QED
  BY <1>1, <1>2, <1>3, <1>4, <1>5, <1>6, <1>7, <1>8, <1>9, WorkerIsSteady, JobKeeps

LEMMA TakenKeeps ==
  ASSUME NotifyInv, NEW n \in Notifications, SendAt(n, "waiting"),
         SetSend(n, IF n \in deleted THEN None ELSE [sendJob[n] EXCEPT !.at = "sending"]),
         UNCHANGED <<notification, batch, accepted, trouble>>, WorkersOnly, UNCHANGED segmentVars
  PROVE  NotifyInv'
<1> DEFINE job == IF n \in deleted THEN None ELSE [sendJob[n] EXCEPT !.at = "sending"]
<1>1. SendAt(n, "waiting") /\ SetSend(n, job)
  OBVIOUS
<1>2. /\ sendJob[n] # None /\ sendJob[n] \in LiveJob /\ sendJob[n].at = "waiting" /\ sendJob[n].tries \in 0..2
      /\ accepted[n] \in Nat /\ accepted[n] <= Allowed(n)
  BY <1>1, JobOf
<1>3. job \in LiveJob \union {None} /\ (job # None => job.at = "sending" /\ job.tries = sendJob[n].tries)
  BY <1>2, JobTo DEF Stages
<1>4. job = None => n \in deleted
  BY <1>2, JobTo DEF Stages
<1> HIDE DEF job
<1>5. accepted'[n] <= Allowed(n)'
  BY <1>1, <1>2, <1>3, AllowedAfter DEF Allowed, Attempts
<1>6. Alike /\ notification' = notification
  BY <1>1, NothingWritten DEF NotifyInv, Types
<1>7. accepted' \in [Notifications -> Nat] /\ accepted' = accepted
  BY <1>1 DEF NotifyInv, Types, JobTypes
<1>8. UNCHANGED <<deleted, seen, batch, segmentVars>>
  BY DEF WorkersOnly
<1>9. n \notin deleted /\ notification'[n].status = "PENDING" =>
        trouble'.unmarked[n] = IF job = None THEN Attempts ELSE job.tries
  BY <1>2, <1>3, <1>4, <1>6, NoneWrote
<1>10. QED
  BY <1>1, <1>2, <1>3, <1>5, <1>6, <1>7, <1>8, <1>9, WorkerIsSteady, TroubleStays, JobKeeps

LEMMA TakeKeeps ==
  ASSUME NotifyInv, NEW n \in Notifications, TakeSend(n), WorkersOnly, UNCHANGED segmentVars PROVE NotifyInv'
  BY TakenKeeps, ReadThrowsKeeps DEF TakeSend

LEMMA DeliverKeeps ==
  ASSUME NotifyInv, NEW n \in Notifications, NEW o \in Stages, DeliverSend(n, o), WorkersOnly, UNCHANGED segmentVars
  PROVE  NotifyInv'
<1> DEFINE job == [sendJob[n] EXCEPT !.at = o]
<1>1. SendAt(n, "sending") /\ SetSend(n, job) /\ Took(n, o) /\ UNCHANGED <<notification, batch, trouble>>
  BY DEF DeliverSend
<1>2. /\ sendJob[n] # None /\ sendJob[n] \in LiveJob /\ sendJob[n].at = "sending" /\ sendJob[n].tries \in 0..2
      /\ accepted[n] \in Nat /\ accepted[n] <= Allowed(n)
  BY <1>1, JobOf
<1>3. job \in LiveJob /\ job # None /\ job.at = o /\ job.tries = sendJob[n].tries
  BY <1>2, JobTo
<1> HIDE DEF job
<1>4. /\ accepted' \in [Notifications -> Nat] /\ \A m \in Notifications \ {n} : accepted'[m] = accepted[m]
      /\ accepted'[n] = IF o = "accepted" THEN accepted[n] + 1 ELSE accepted[n]
  BY <1>1, <1>2 DEF Took, NotifyInv, Types, JobTypes
<1>5. accepted'[n] <= Allowed(n)'
  BY <1>1, <1>2, <1>3, <1>4, AllowedAfter DEF Allowed
<1>6. Alike /\ notification' = notification
  BY <1>1, NothingWritten DEF NotifyInv, Types
<1>7. UNCHANGED <<deleted, seen, batch, segmentVars>>
  BY <1>1 DEF WorkersOnly
<1>8. n \notin deleted /\ notification'[n].status = "PENDING" =>
        trouble'.unmarked[n] = IF job = None THEN Attempts ELSE job.tries
  BY <1>1, <1>2, <1>3, <1>6, NoneWrote
<1>9. QED
  BY <1>1, <1>2, <1>3, <1>4, <1>5, <1>6, <1>7, <1>8, WorkerIsSteady, TroubleStays, JobKeeps

LEMMA ThrowKeeps ==
  ASSUME NotifyInv, NEW n \in Notifications, UpdateThrows(n), WorkersOnly, UNCHANGED segmentVars PROVE NotifyInv'
<1> DEFINE job == [sendJob[n] EXCEPT !.at = "thrown"]
<1>1. /\ SendAt(n, "accepted") \/ SendAt(n, "refused")
      /\ SetSend(n, job) /\ UNCHANGED <<notification, batch, accepted, trouble>>
  BY DEF UpdateThrows
<1>2. /\ sendJob[n] # None /\ sendJob[n] \in LiveJob /\ sendJob[n].tries \in 0..2
      /\ accepted[n] \in Nat /\ accepted[n] <= Allowed(n)
  BY <1>1, JobOf
<1>3. job \in LiveJob /\ job # None /\ job.at = "thrown" /\ job.tries = sendJob[n].tries
  BY <1>2, JobTo DEF Stages
<1> HIDE DEF job
<1>4. accepted'[n] <= Allowed(n)'
  BY <1>1, <1>2, <1>3, AllowedAfter DEF Allowed
<1>5. Alike /\ notification' = notification
  BY <1>1, NothingWritten DEF NotifyInv, Types
<1>6. accepted' \in [Notifications -> Nat] /\ accepted' = accepted
  BY <1>1 DEF NotifyInv, Types, JobTypes
<1>7. UNCHANGED <<deleted, seen, batch, segmentVars>>
  BY <1>1 DEF WorkersOnly
<1>8. n \notin deleted /\ notification'[n].status = "PENDING" =>
        trouble'.unmarked[n] = IF job = None THEN Attempts ELSE job.tries
  BY <1>1, <1>2, <1>3, <1>5, NoneWrote
<1>9. QED
  BY <1>1, <1>2, <1>3, <1>4, <1>5, <1>6, <1>7, <1>8, WorkerIsSteady, TroubleStays, JobKeeps

LEMMA SettleKeeps ==
  ASSUME NotifyInv, NEW n \in Notifications, SettleSend(n), WorkersOnly, UNCHANGED segmentVars PROVE NotifyInv'
<1>1. /\ SendAt(n, "accepted") \/ SendAt(n, "refused")
      /\ SetSend(n, None) /\ UNCHANGED <<batch, accepted, trouble>>
  BY DEF SettleSend
<1>2. /\ sendJob[n] # None /\ sendJob[n].tries \in 0..2 /\ n \in Issued /\ accepted[n] \in Nat /\ accepted[n] <= Allowed(n)
  BY <1>1, JobOf
<1>3. PICK status \in {"SENT", "FAILED"} : UpdateStatus(n, status)
  BY DEF SettleSend
<1>4. /\ Alike /\ \A m \in Notifications \ {n} : notification'[m] = notification[m]
      /\ notification'[n].read = notification[n].read
      /\ n \notin deleted => notification'[n].status # "PENDING"
  BY <1>2, <1>3, StatusWritten DEF NotifyInv, Types
<1>5. accepted'[n] <= Allowed(n)'
  BY <1>1, <1>2, AllowedAfter DEF Allowed, Attempts
<1>6. accepted' \in [Notifications -> Nat] /\ accepted' = accepted
  BY <1>1 DEF NotifyInv, Types, JobTypes
<1>7. UNCHANGED <<deleted, seen, batch, segmentVars>>
  BY <1>1 DEF WorkersOnly
<1>8. QED
  BY <1>1, <1>2, <1>4, <1>5, <1>6, <1>7, WorkerIsSteady, TroubleStays, JobKeeps

LEMMA RetryKeeps ==
  ASSUME NotifyInv, NEW n \in Notifications, RetrySend(n), WorkersOnly, UNCHANGED segmentVars PROVE NotifyInv'
<1> DEFINE job == Retried(sendJob[n].tries + 1)
<1>1. /\ SendAt(n, "thrown") /\ SetSend(n, job) /\ UNCHANGED <<batch, accepted>>
  BY DEF RetrySend
<1>2. /\ sendJob[n] # None /\ sendJob[n].tries \in 0..2 /\ sendJob[n].at = "thrown" /\ n \in Issued
      /\ accepted[n] \in Nat /\ accepted[n] <= Allowed(n)
  BY <1>1, JobOf
<1>3. /\ job \in LiveJob \union {None}
      /\ IF sendJob[n].tries < 2 THEN job # None /\ job.at = "waiting" /\ job.tries = sendJob[n].tries + 1 ELSE job = None
  BY <1>2, RetriedJob
<1> HIDE DEF job
<1>4. ASSUME trouble'.died = trouble.died PROVE accepted'[n] <= Allowed(n)'
  <2>1. accepted[n] <= sendJob[n].tries + Died + 1
    BY <1>2 DEF Allowed
  <2>2. CASE sendJob[n].tries < 2
    BY <1>1, <1>2, <1>3, <1>4, <2>1, <2>2, AllowedAfter
  <2>3. CASE ~(sendJob[n].tries < 2)
    BY <1>1, <1>2, <1>3, <1>4, <2>1, <2>3, AllowedAfter DEF Attempts
  <2>4. QED
    BY <2>2, <2>3
<1>5. accepted' \in [Notifications -> Nat] /\ accepted' = accepted
  BY <1>1 DEF NotifyInv, Types, JobTypes
<1>6. UNCHANGED <<deleted, seen, batch, segmentVars>>
  BY <1>1 DEF WorkersOnly
<1>7. CASE UpdateStatus(n, "FAILED") /\ UNCHANGED trouble
  <2>1. /\ Alike /\ \A m \in Notifications \ {n} : notification'[m] = notification[m]
        /\ notification'[n].read = notification[n].read
        /\ n \notin deleted => notification'[n].status # "PENDING"
    BY <1>2, <1>7, StatusWritten DEF NotifyInv, Types
  <2>2. QED
    BY <1>1, <1>2, <1>3, <1>4, <1>5, <1>6, <1>7, <2>1, WorkerIsSteady, TroubleStays, JobKeeps
<1>8. CASE LeaveUnmarked(n) /\ UNCHANGED notification
  <2>1. Alike /\ notification' = notification
    BY <1>8, NothingWritten DEF NotifyInv, Types
  <2>2. /\ trouble' \in Trouble /\ \A m \in Notifications \ {n} : trouble'.unmarked[m] = trouble.unmarked[m]
        /\ trouble'.died = trouble.died /\ trouble'.stranded = trouble.stranded /\ trouble'.unsaved = trouble.unsaved
        /\ trouble'.unmarked[n] = trouble.unmarked[n] + 1
    BY <1>8, OneMoreUnmarked
  <2>3. n \notin deleted /\ notification'[n].status = "PENDING" =>
          trouble'.unmarked[n] = IF job = None THEN Attempts ELSE job.tries
    BY <1>2, <1>3, <2>1, <2>2, NoneWrote DEF Attempts
  <2>4. QED
    BY <1>1, <1>2, <1>3, <1>4, <1>5, <1>6, <2>1, <2>2, <2>3, WorkerIsSteady, JobKeeps
<1>9. QED
  BY <1>7, <1>8 DEF RetrySend

-----------------------------------------------------------------------------
(* A new row, and the job that is added for it *)

LEMMA NewRow ==
  ASSUME RowTypes, ~Full, NEW row \in Notification, notification' = [notification EXCEPT ![NextId] = row]
  PROVE  /\ NextId \in Notifications /\ NextId \notin Issued /\ Issued' = Issued \union {NextId}
         /\ notification'[NextId] = row
         /\ \A m \in Notifications \ {NextId} : notification'[m] = notification[m]
         /\ notification' \in [Notifications -> Notification \union {None}]
         /\ \E k \in 0..MaxNotifications : Issued' = 1..k
<1>1. PICK k \in 0..MaxNotifications : Issued = 1..k
  BY DEF RowTypes
<1>2. k \in Nat /\ MaxNotifications \in Nat
  BY MaxNotificationsNat
<1>3. NextId = k + 1
  <2>1. Cardinality(1..k) = IF 1 > k THEN 0 ELSE k - 1 + 1
    BY <1>2, FS_Interval
  <2>2. Cardinality(Issued) = k
    BY <1>1, <1>2, <2>1
  <2>3. QED
    BY <2>2 DEF NextId
<1>4. k # MaxNotifications
  BY <1>1 DEF Full, Notifications
<1>5. k + 1 \in 0..MaxNotifications /\ NextId \in Notifications /\ NextId \notin Issued
  BY <1>1, <1>2, <1>3, <1>4 DEF Notifications
<1>6. /\ notification'[NextId] = row /\ \A m \in Notifications \ {NextId} : notification'[m] = notification[m]
      /\ notification' \in [Notifications -> Notification \union {None}]
  BY <1>5 DEF RowTypes
<1>7. row # None
  BY NoneIsNoNotificationRow
<1>8. Issued' = Issued \union {NextId}
  BY <1>5, <1>6, <1>7 DEF Issued
<1>9. Issued \union {NextId} = 1..(k + 1)
  BY <1>1, <1>2, <1>3
<1>10. QED
  BY <1>5, <1>6, <1>8, <1>9

\* What a new row does to the tables
LEMMA NewRowParts ==
  ASSUME NotifyInv, ~Full, NEW row \in Notification, notification' = [notification EXCEPT ![NextId] = row],
         row.read = FALSE, UNCHANGED <<deleted, seen, accepted, sendJob>>
  PROVE  /\ RowTypes' /\ ReadAsMarked'
         /\ NextId \in Notifications /\ NextId \notin Issued /\ NextId \notin deleted
         /\ Issued' = Issued \union {NextId} /\ Present' = Present \union {NextId}
         /\ notification'[NextId] = row /\ \A m \in Issued : notification'[m] = notification[m]
         /\ accepted[NextId] = 0 /\ sendJob[NextId] = None /\ ~Queueing(NextId) /\ ~Carried(NextId)
         /\ \A a : AdminRows(a)' = IF row.to = a /\ row.source = "ADMIN" THEN AdminRows(a) \union {NextId}
                                   ELSE AdminRows(a)
<1>1. /\ NextId \in Notifications /\ NextId \notin Issued /\ Issued' = Issued \union {NextId}
      /\ notification'[NextId] = row
      /\ \A m \in Notifications \ {NextId} : notification'[m] = notification[m]
      /\ notification' \in [Notifications -> Notification \union {None}]
      /\ \E k \in 0..MaxNotifications : Issued' = 1..k
  BY NewRow DEF NotifyInv, Types
<1> DEFINE new == NextId
<1>2. \A m \in Issued : m \in Notifications /\ m # new
  BY <1>1 DEF Issued
<1>3. new \notin deleted /\ new \notin seen
  BY <1>1 DEF NotifyInv, Types, RowTypes
<1>4. PICK id : id = new
  OBVIOUS
<1> HIDE DEF new
<1>5. \A m \in Issued : notification'[m] = notification[m]
  BY <1>1, <1>2 DEF new
<1>6. RowTypes'
  BY <1>1 DEF NotifyInv, Types, RowTypes
<1>7. Present' = Present \union {id}
  BY <1>1, <1>3, <1>4 DEF Present, new
<1>8. ReadAsMarked'
  <2>1. \A m \in Present : m \in Issued
    BY DEF Present
  <2>2. notification'[id].read = FALSE /\ id \notin seen
    BY <1>1, <1>3, <1>4 DEF new
  <2>3. QED
    BY <1>5, <1>7, <2>1, <2>2 DEF NotifyInv, ReadAsMarked
<1>9. accepted[id] = 0 /\ sendJob[id] = None
  BY <1>1, <1>4 DEF NotifyInv, Counted, Placed, new
<1>10. ~Queueing(id)
  BY <1>1, <1>4, QueueRow DEF Queueing, NotifyInv, Types, new
<1>11. ~Carried(id)
  <2> SUFFICES ASSUME NEW b \in Batches, batch[b] # None, batch[b].row = id PROVE FALSE
    BY DEF Carried
  <2>1. id # None
    BY <1>1, <1>4, NoneIsNoNotificationRow DEF new
  <2>2. batch[b].row \in Issued
    BY <2>1, BatchOf DEF NotifyInv, Types, BatchHolds
  <2>3. QED
    BY <1>1, <1>4, <2>2 DEF new
<1>12. \A a : AdminRows(a)' = IF row.to = a /\ row.source = "ADMIN" THEN AdminRows(a) \union {id} ELSE AdminRows(a)
  BY <1>1, <1>2, <1>4, <1>5 DEF AdminRows, new
<1>13. QED
  BY <1>1, <1>3, <1>4, <1>5, <1>6, <1>7, <1>8, <1>9, <1>10, <1>11, <1>12 DEF new

LEMMA RowSavedKeeps ==
  ASSUME NotifyInv, NEW h \in Handlers, req[h].at = "notify", ~Full, NEW a \in Accounts, NEW left \in SUBSET Accounts,
         notification' = [notification EXCEPT ![NextId] = NewNotification(a, "push", "SYSTEM")],
         Goto(h, [at |-> "enqueue", left |-> left, row |-> NextId]),
         UNCHANGED <<deleted, seen, accepted, sendJob, batch, trouble, segmentVars>>, OtherTypes',
         \A x \in Accounts : Exists(x)' <=> Exists(x)
  PROVE  NotifyInv'
<1> DEFINE row == NewNotification(a, "push", "SYSTEM")
<1>1. row \in Notification /\ row.read = FALSE /\ row.source = "SYSTEM"
  BY ChannelsAssumption DEF NewNotification, Notification
<1> HIDE DEF row
<1>2. PICK id : id = NextId
  OBVIOUS
<1>3. /\ RowTypes' /\ ReadAsMarked'
      /\ id \in Notifications /\ id \notin Issued /\ Issued' = Issued \union {id} /\ Present' = Present \union {id}
      /\ notification'[id] = row /\ \A m \in Issued : notification'[m] = notification[m]
      /\ accepted[id] = 0 /\ sendJob[id] = None /\ ~Queueing(id) /\ ~Carried(id)
      /\ \A x : AdminRows(x)' = AdminRows(x)
  BY <1>1, <1>2, NewRowParts DEF row
<1> DEFINE r == [at |-> "enqueue", left |-> left, row |-> id]
<1>4. r \in [at : {"enqueue"}, left : SUBSET Accounts, row : {id}] /\ r.at = "enqueue" /\ r.row = id
  OBVIOUS
<1>5. /\ req' = [g \in Handlers |-> req'[g]] /\ req'[h] = r /\ \A g \in Handlers \ {h} : req'[g] = req[g]
      /\ dropped' = dropped
  BY <1>2 DEF Goto, NotifyInv, Types, ReqTypes
<1> HIDE DEF r
<1>6. \A g \in Handlers : At(g, "enqueue")' <=> g = h \/ At(g, "enqueue")
  BY <1>4, <1>5 DEF At
<1>7. \A m : Queueing(m)' <=> m = id \/ Queueing(m)
  <2>1. ASSUME NEW m PROVE Queueing(m) => \E g \in Handlers \ {h} : At(g, "enqueue") /\ req[g].row = m
    BY DEF Queueing, At
  <2>2. QED
    BY <1>4, <1>5, <1>6, <2>1 DEF Queueing
<1>8. (\A m : Carried(m)' <=> Carried(m)) /\ (\A b : InHand(b)' <=> InHand(b)) /\ \A x : ServedBy(x)' = ServedBy(x)
  BY BatchesSame
<1>9. ReqTypes'
  <2>1. ASSUME NEW g \in Handlers \ {h} PROVE ReqHolds(req[g])'
    <3>1. PICK q : q = req[g]
      OBVIOUS
    <3>2. ReqHolds(q)'
      BY <1>3, <3>1, HoldsOn DEF NotifyInv, Types, ReqTypes
    <3>3. QED
      BY <1>5, <3>1, <3>2 DEF ReqHolds
  <2>2. ReqHolds(req[h])'
    BY <1>3, <1>4, <1>5 DEF ReqHolds
  <2>3. QED
    BY <1>5, <2>1, <2>2 DEF ReqTypes
<1>10. JobTypes'
  <2>1. \A b \in Batches : batch'[b] # None => BatchHolds(batch[b])'
    BY <1>3 DEF NotifyInv, Types, JobTypes, BatchHolds
  <2>2. QED
    BY <2>1 DEF NotifyInv, Types, JobTypes
<1>11. Placed'
  <2>1. \A m \in Notifications : Queueing(m) => m \in Issued
    BY QueueRow DEF Queueing, NotifyInv, Types
  <2>2. \A m \in Notifications : sendJob'[m] # None => m \in Issued' /\ ~Queueing(m)' /\ ~Carried(m)'
    BY <1>3, <1>7, <1>8 DEF NotifyInv, Placed
  <2>3. \A m \in Notifications : Queueing(m)' => ~Carried(m)' /\ notification'[m].source = "SYSTEM"
    BY <1>1, <1>3, <1>7, <1>8, <2>1 DEF NotifyInv, Placed
  <2>4. ASSUME NEW f \in Handlers, NEW g \in Handlers, At(f, "enqueue")', At(g, "enqueue")', req'[f].row = req'[g].row
        PROVE  f = g
    <3>1. \A x \in Handlers \ {h} : At(x, "enqueue") => req[x].row # id
      BY <1>3 DEF Queueing
    <3>2. QED
      BY <1>4, <1>5, <1>6, <2>4, <3>1 DEF NotifyInv, Placed
  <2>5. QED
    BY <1>8, <2>2, <2>3, <2>4 DEF NotifyInv, Placed
<1>12. Counted'
  <2>1. \A m : Allowed(m)' = Allowed(m)
    BY DEF Allowed, Died
  <2>2. QED
    BY <1>3, <1>7, <1>8, <2>1 DEF NotifyInv, Counted
<1>13. SegmentCounted'
  BY DEF NotifyInv, SegmentCounted, Died, segmentVars
<1>14. OneRowEach'
  BY <1>3, <1>8 DEF NotifyInv, OneRowEach
<1>15. PendingHasJob'
  <2>1. \A m \in Present : m \in Issued
    BY DEF Present
  <2>2. QED
    BY <1>3, <1>5, <1>7, <1>8, <2>1 DEF NotifyInv, PendingHasJob
<1>16. Troubles'
  <2>1. \A m \in Present : m \in Issued
    BY DEF Present
  <2>2. Unmarked'
    BY <1>3, <1>7, <2>1, UnmarkedStays DEF NotifyInv, Troubles
  <2>3. QED
    BY <2>2, SkippedStays DEF NotifyInv, Troubles
<1>17. QED
  BY <1>3, <1>9, <1>10, <1>11, <1>12, <1>13, <1>14, <1>15, <1>16 DEF NotifyInv, Types

LEMMA SaveRowKeeps ==
  ASSUME NotifyInv, NEW h \in Handlers, NEW a \in Accounts, SaveRow(h, a), UNCHANGED segmentVars PROVE NotifyInv'
<1> DEFINE left == req[h].left \ {a}
<1>1. req[h].at = "notify" /\ req[h] \in [at : {"notify"}, left : SUBSET Accounts]
  BY DEF SaveRow, At, NotifyInv, Types, ReqTypes, ReqHolds
<1>2. left \in SUBSET Accounts
  BY <1>1
<1>3. OtherTypes' /\ \A x \in Accounts : Exists(x)' <=> Exists(x)
  BY PeopleStay DEF SaveRow, NotifyInv, Types, OtherTypes
<1>4. CASE ~Rendered(a)
  <2>1. UNCHANGED rowVars
    BY <1>4 DEF SaveRow, rowVars
  <2>2. CASE Done(h)
    <3>1. Steady /\ dropped' = dropped
      BY <1>1, <2>2, DoneIsSteady DEF NotifyInv, Types
    <3>2. QED
      BY <1>3, <2>1, <3>1, OthersMove
  <2>3. CASE Goto(h, [req[h] EXCEPT !.left = left])
    <3>1. PICK r : r = [req[h] EXCEPT !.left = left]
      OBVIOUS
    <3>2. r \in [at : {"notify"}, left : SUBSET Accounts]
      BY <1>1, <1>2, <3>1
    <3>3. ReqHolds(r) /\ r.at # "enqueue"
      BY <3>2 DEF ReqHolds
    <3>4. Steady /\ dropped' = dropped
      BY <1>1, <2>3, <3>1, <3>3, GotoIsSteady DEF NotifyInv, Types
    <3>5. QED
      BY <1>3, <2>1, <3>4, OthersMove
  <2>4. QED
    BY <1>4, <2>2, <2>3 DEF SaveRow
<1>5. CASE Rendered(a)
  <2>1. /\ ~Full /\ notification' = [notification EXCEPT ![NextId] = NewNotification(a, "push", "SYSTEM")]
        /\ Goto(h, [at |-> "enqueue", left |-> left, row |-> NextId])
        /\ UNCHANGED <<deleted, seen, accepted, sendJob, batch, trouble, segmentVars>>
    BY <1>5 DEF SaveRow
  <2> HIDE DEF left
  <2>2. QED
    BY <1>1, <1>2, <1>3, <2>1, RowSavedKeeps
<1>6. QED
  BY <1>4, <1>5

LEMMA AddJobKeeps ==
  ASSUME NotifyInv, NEW h \in Handlers, AddJob(h), UNCHANGED segmentVars PROVE NotifyInv'
<1>1. PICK n : n = req[h].row
  OBVIOUS
<1> DEFINE job == [at |-> "waiting", tries |-> 0]
           left == req[h].left
           r == IF left = {} THEN Idle ELSE [at |-> "notify", left |-> left]
<1>2. At(h, "enqueue") /\ req[h] \in [at : {"enqueue"}, left : SUBSET Accounts, row : Issued] /\ n \in Issued /\ Queueing(n)
  BY <1>1, QueueRow DEF AddJob, NotifyInv, Types
<1>3. n \in Notifications
  BY <1>2 DEF Issued
<1>4. sendJob' = [sendJob EXCEPT ![n] = job] /\ UNCHANGED <<notification, deleted, batch, accepted, seen, trouble>>
  BY <1>1 DEF AddJob
<1>5. job \in LiveJob /\ job # None /\ job.at = "waiting" /\ job.tries = 0
  <2>1. job \in LiveJob /\ job \in SendJob
    BY DEF LiveJob, SendJob, Stages, Attempts
  <2>2. QED
    BY <2>1, NoneIsNoNotificationRow
<1>6. Goto(h, r) /\ r.at # "enqueue" /\ ReqHolds(r)
  <2>1. Goto(h, r)
    BY DEF AddJob, Done
  <2>2. left \in SUBSET Accounts
    BY <1>2
  <2>3. QED
    BY <2>1, <2>2, IdleHolds DEF ReqHolds, Idle
<1> HIDE DEF r, job
<1>7. /\ req' = [g \in Handlers |-> req'[g]] /\ req'[h] = r /\ \A g \in Handlers \ {h} : req'[g] = req[g]
      /\ dropped' = dropped
  BY <1>6 DEF Goto, NotifyInv, Types, ReqTypes
<1>8. /\ sendJob' \in [Notifications -> LiveJob \union {None}] /\ sendJob'[n] = job
      /\ \A m \in Notifications \ {n} : sendJob'[m] = sendJob[m]
  BY <1>3, <1>4, <1>5 DEF NotifyInv, Types, JobTypes
<1>9. \A g \in Handlers : At(g, "enqueue")' <=> g # h /\ At(g, "enqueue")
  BY <1>6, <1>7 DEF At
<1>10. \A m : Queueing(m)' <=> m # n /\ Queueing(m)
  <2>1. \A g \in Handlers : At(g, "enqueue") /\ req[g].row = n => g = h
    BY <1>1, <1>2 DEF NotifyInv, Placed
  <2>2. QED
    BY <1>1, <1>7, <1>9, <2>1 DEF Queueing
<1>11. (\A m : Carried(m)' <=> Carried(m)) /\ (\A b : InHand(b)' <=> InHand(b)) /\ \A a : ServedBy(a)' = ServedBy(a)
  BY <1>4, BatchesSame
<1>12. Alike /\ Issued' = Issued /\ Present' = Present
  <2>1. Alike
    BY <1>4, NothingWritten DEF NotifyInv, Types
  <2>2. QED
    BY <1>4, <2>1 DEF Alike, Present
<1>13. RowTypes' /\ OtherTypes' /\ \A a \in Accounts : Exists(a)' <=> Exists(a)
  BY <1>4, <1>12, PeopleStay DEF AddJob, NotifyInv, Types, RowTypes, OtherTypes
<1>14. ReqTypes'
  <2>1. \A g \in Handlers : ReqHolds(req'[g])
    BY <1>6, <1>7 DEF NotifyInv, Types, ReqTypes
  <2>2. \A g \in Handlers : ReqHolds(req[g])'
    BY <1>12, <2>1 DEF ReqHolds
  <2>3. QED
    BY <1>7, <2>2 DEF ReqTypes
<1>15. JobTypes'
  BY <1>4, <1>8, <1>12, BatchTypesSame DEF NotifyInv, Types, JobTypes
<1>16. Placed'
  <2>1. \A m \in Notifications : sendJob'[m] # None => m \in Issued' /\ ~Queueing(m)' /\ ~Carried(m)'
    BY <1>2, <1>8, <1>10, <1>11, <1>12 DEF NotifyInv, Placed
  <2>2. \A m \in Notifications : Queueing(m)' => ~Carried(m)' /\ notification'[m].source = "SYSTEM"
    BY <1>4, <1>10, <1>11 DEF NotifyInv, Placed
  <2>3. \A f, g \in Handlers : At(f, "enqueue")' /\ At(g, "enqueue")' /\ req'[f].row = req'[g].row => f = g
    BY <1>7, <1>9 DEF NotifyInv, Placed
  <2>4. QED
    BY <1>4, <1>11, <2>1, <2>2, <2>3 DEF NotifyInv, Placed
<1>17. Counted'
  <2>1. ASSUME NEW m \in Notifications PROVE accepted[m] <= Allowed(m)'
    <3>1. CASE m = n
      BY <1>2, <1>3, <1>4, <1>5, <1>8, <3>1 DEF NotifyInv, Counted, Allowed, Died
    <3>2. CASE m # n
      BY <1>4, <1>8, <3>2 DEF NotifyInv, Counted, Allowed, Died
    <3>3. QED
      BY <3>1, <3>2
  <2>2. QED
    BY <1>4, <1>10, <1>11, <1>12, <2>1 DEF NotifyInv, Counted
<1>18. SegmentCounted' /\ OneRowEach' /\ ReadAsMarked'
  <2>1. SegmentCounted'
    BY <1>4 DEF NotifyInv, SegmentCounted, Died, segmentVars
  <2>2. OneRowEach'
    BY <1>4, <1>11, <1>12, <1>13, AlikeServes DEF NotifyInv
  <2>3. ReadAsMarked'
    BY <1>4, <1>12 DEF NotifyInv, ReadAsMarked
  <2>4. QED
    BY <2>1, <2>2, <2>3
<1>19. PendingHasJob'
  <2>1. \A m \in Present : m \in Notifications
    BY DEF Present, Issued
  <2>2. QED
    BY <1>4, <1>5, <1>7, <1>8, <1>10, <1>11, <1>12, <2>1 DEF NotifyInv, PendingHasJob
<1>20. Troubles'
  <2>1. trouble.unmarked[n] = 0
    BY <1>2, <1>3 DEF NotifyInv, Troubles, Unmarked
  <2>2. \A m \in Present : m \in Notifications
    BY DEF Present, Issued
  <2>3. Unmarked'
    BY <1>4, <1>5, <1>8, <1>10, <1>12, <2>1, <2>2 DEF NotifyInv, Troubles, Unmarked
  <2>4. QED
    BY <1>4, <2>3, SkippedStays DEF NotifyInv, Troubles
<1>21. QED
  BY <1>13, <1>14, <1>15, <1>16, <1>17, <1>18, <1>19, <1>20 DEF NotifyInv, Types

-----------------------------------------------------------------------------
(* The batches of an admin's message *)

\* A batch goes on with the row in hand, or passes over a recipient, or lets its row go.
LEMMA BatchKeeps ==
  ASSUME NotifyInv, Steady, dropped' = dropped, OtherTypes', \A a \in Accounts : Exists(a)' <=> Exists(a),
         NEW b \in Batches, batch[b] # None, NEW job \in Batch, BatchHolds(job), SetBatch(b, job),
         job.kind = batch[b].kind, job.to = batch[b].to, job.row \in {None, batch[b].row},
         \A a \in Accounts : Exists(a) /\ job.kind = "direct" =>
           (a \in job.left \/ <<b, a>> \in trouble'.unsaved <=> a \in batch[b].left \/ <<b, a>> \in trouble.unsaved),
         job.left \subseteq batch[b].left,
         \A a \in Accounts : <<b, a>> \in trouble'.unsaved => a \notin job.left \/ <<b, a>> \in trouble.unsaved,
         \A c \in Batches, a \in Accounts : c # b => (<<c, a>> \in trouble'.unsaved <=> <<c, a>> \in trouble.unsaved),
         Alike, \A m \in Notifications : m # batch[b].row => notification'[m] = notification[m] /\ accepted'[m] = accepted[m],
         accepted' \in [Notifications -> Nat],
         InHand(b) => /\ notification'[batch[b].row].read = notification[batch[b].row].read
                      /\ accepted'[batch[b].row] <= (IF job.at = "sending" THEN 0 ELSE 1),
         InHand(b) /\ job.row = None /\ batch[b].row \notin deleted =>
           notification'[batch[b].row].status # "PENDING" \/ batch[b].row \in trouble'.stranded,
         trouble' \in Trouble, trouble.stranded \subseteq trouble'.stranded,
         trouble'.died = trouble.died, trouble'.unmarked = trouble.unmarked,
         UNCHANGED <<deleted, seen, sendJob, segmentVars>>
  PROVE  NotifyInv'
<1>1. job # None
  BY NoneIsNoNotificationRow
<1>2. /\ batch' \in [Batches -> Batch \union {None}] /\ batch'[b] = job
      /\ \A c \in Batches \ {b} : batch'[c] = batch[c]
  BY DEF SetBatch, NotifyInv, Types, JobTypes
<1>3. \A c \in Batches : batch'[c] # None <=> batch[c] # None
  BY <1>1, <1>2
<1>4. PICK n : n = batch[b].row
  OBVIOUS
<1>5. InHand(b) => n \in Issued /\ n \in Notifications /\ ~Queueing(n) /\ sendJob[n] = None /\ Carried(n)
  <2> SUFFICES ASSUME InHand(b) PROVE n \in Issued /\ n \in Notifications /\ ~Queueing(n) /\ sendJob[n] = None /\ Carried(n)
    OBVIOUS
  <2>1. n \in Issued /\ Carried(n)
    BY <1>4, BatchOf DEF InHand, BatchHolds, Carried, NotifyInv, Types
  <2>2. n \in Notifications
    BY <2>1 DEF Issued
  <2>3. QED
    BY <2>1, <2>2 DEF NotifyInv, Placed
<1>6. None \notin Notifications
  BY NoneIsNoNotificationRow
<1>7. /\ \A m : Queueing(m)' <=> Queueing(m)
      /\ \A h \in Handlers : At(h, "enqueue")' <=> At(h, "enqueue")
      /\ \A h \in Handlers : At(h, "enqueue") => req'[h] = req[h]
  BY SteadyQueue
<1>8. \A c \in Batches : InHand(c)' => InHand(c) /\ batch'[c].row = batch[c].row
  BY <1>2, <1>3 DEF InHand
<1>9. \A m \in Notifications : Carried(m)' => Carried(m)
  BY <1>2, <1>3, <1>6 DEF Carried
<1>10. RowTypes' /\ ReqTypes'
  <2>1. RowTypes'
    BY DEF NotifyInv, Types, RowTypes, Alike
  <2>2. ReqTypes'
    BY SteadyTypes DEF NotifyInv, Types, Alike
  <2>3. QED
    BY <2>1, <2>2
<1>11. JobTypes'
  <2>1. ASSUME NEW c \in Batches, batch'[c] # None PROVE BatchHolds(batch[c])'
    <3>1. PICK j : j = batch'[c]
      OBVIOUS
    <3>2. BatchHolds(j)
      BY <1>2, <1>3, <2>1, <3>1 DEF NotifyInv, Types, JobTypes
    <3>3. QED
      BY <3>1, <3>2 DEF BatchHolds, Alike
  <2>2. {c \in Batches : batch'[c] # None} = {c \in Batches : batch[c] # None}
    BY <1>3
  <2>3. QED
    BY <1>2, <2>1, <2>2 DEF NotifyInv, Types, JobTypes
<1>12. Placed'
  <2>1. \A m \in Notifications : Queueing(m) => m \in Issued
    BY QueueRow DEF Queueing, NotifyInv, Types
  <2>2. \A m \in Notifications : Queueing(m)' => ~Carried(m)' /\ notification'[m].source = "SYSTEM"
    BY <1>7, <1>9, <2>1 DEF NotifyInv, Placed, Alike
  <2>3. \A m \in Notifications : sendJob'[m] # None => m \in Issued' /\ ~Queueing(m)' /\ ~Carried(m)'
    BY <1>7, <1>9 DEF NotifyInv, Placed, Alike
  <2>4. QED
    BY <1>7, <1>8, <2>2, <2>3 DEF NotifyInv, Placed
<1>13. Counted'
  <2>1. Died' = Died /\ \A m : Allowed(m)' = Allowed(m)
    BY DEF Allowed, Died
  <2>2. \A m \in Notifications : accepted'[m] <= Allowed(m)'
    <3>1. ASSUME NEW m \in Notifications, m = n, InHand(b) PROVE accepted'[m] <= Allowed(m)
      <4>1. accepted'[m] <= 1 /\ accepted'[m] \in Nat
        BY <1>4, <3>1
      <4>2. Allowed(m) = 3 + Died /\ Died \in 0..1
        BY <1>5, <3>1 DEF Allowed, Attempts, Died
      <4>3. QED
        BY <4>1, <4>2
    <3>2. ASSUME NEW m \in Notifications, ~(m = n /\ InHand(b)) PROVE accepted'[m] <= Allowed(m)
      <4>1. m # batch[b].row
        BY <1>4, <1>6, <3>2 DEF InHand
      <4>2. QED
        BY <4>1 DEF NotifyInv, Counted
    <3>3. QED
      BY <2>1, <3>1, <3>2
  <2>3. ASSUME NEW m \in Notifications, m \notin Issued' \/ Queueing(m)' PROVE accepted'[m] = 0
    <3>1. m \notin Issued \/ Queueing(m)
      BY <1>7, <2>3 DEF Alike
    <3>2. m # batch[b].row
      BY <1>4, <1>5, <1>6, <3>1 DEF InHand
    <3>3. QED
      BY <3>1, <3>2 DEF NotifyInv, Counted
  <2>4. ASSUME NEW c \in Batches, InHand(c)'
        PROVE  accepted'[batch'[c].row] <= (IF batch'[c].at = "sending" THEN 0 ELSE 1)
    <3>1. CASE c = b
      BY <1>2, <1>8, <2>4, <3>1
    <3>2. CASE c # b
      <4>1. InHand(c) /\ batch'[c] = batch[c] /\ batch[c].row \in Notifications
        BY <1>2, <1>8, <2>4, <3>2, BatchOf DEF InHand, NotifyInv, Types, Batch
      <4>2. batch[c].row # batch[b].row
        BY <3>2, <4>1, <1>6 DEF InHand, NotifyInv, Placed
      <4>3. QED
        BY <4>1, <4>2 DEF NotifyInv, Counted
    <3>3. QED
      BY <3>1, <3>2
  <2>5. QED
    BY <2>2, <2>3, <2>4 DEF Counted
<1>14. SegmentCounted'
  BY DEF NotifyInv, SegmentCounted, Died, segmentVars
<1>15. OneRowEach'
  <2>1. ASSUME NEW a \in Accounts, Exists(a) PROVE ServedBy(a)' = ServedBy(a)
    <3>1. ASSUME NEW c \in Batches
          PROVE  /\ batch'[c] # None <=> batch[c] # None
                 /\ batch[c] # None => batch'[c].kind = batch[c].kind /\ batch'[c].to = batch[c].to
                 /\ batch[c] # None /\ batch[c].kind = "direct" =>
                      (a \in batch'[c].left \/ <<c, a>> \in trouble'.unsaved <=> a \in batch[c].left \/ <<c, a>> \in trouble.unsaved)
      <4>1. CASE c = b
        BY <1>2, <1>3, <2>1, <4>1
      <4>2. CASE c # b
        BY <1>2, <4>2
      <4>3. QED
        BY <4>1, <4>2
    <3>2. QED
      BY <3>1 DEF ServedBy
  <2>2. QED
    BY <2>1, AlikeServes DEF NotifyInv
<1>16. Present' = Present /\ \A m \in Present : m \in Notifications
  BY DEF Present, Alike, Issued
<1>17. ReadAsMarked'
  <2>1. ASSUME NEW m \in Present PROVE notification'[m].read = notification[m].read
    <3>1. CASE m = batch[b].row
      BY <1>6, <1>16, <3>1 DEF InHand
    <3>2. CASE m # batch[b].row
      BY <1>16, <3>2
    <3>3. QED
      BY <3>1, <3>2
  <2>2. QED
    BY <1>16, <2>1 DEF NotifyInv, ReadAsMarked
<1>18. PendingHasJob'
  <2> SUFFICES ASSUME NEW m \in Present, notification'[m].status = "PENDING"
               PROVE  \/ sendJob[m] # None
                      \/ Queueing(m)
                      \/ Carried(m)'
                      \/ notification'[m].source = "SYSTEM" /\ dropped
                      \/ m \in trouble'.stranded
                      \/ trouble.unmarked[m] = Attempts
    BY <1>7, <1>16 DEF PendingHasJob
  <2>1. CASE m = batch[b].row
    <3>1. InHand(b) /\ m \notin deleted
      BY <1>6, <1>16, <2>1 DEF InHand, Present
    <3>2. CASE job.row = None
      BY <1>3, <2>1, <3>1, <3>2
    <3>3. CASE job.row # None
      BY <1>1, <1>2, <2>1, <3>3 DEF Carried
    <3>4. QED
      BY <3>2, <3>3
  <2>2. CASE m # batch[b].row
    <3>1. notification'[m] = notification[m]
      BY <1>16, <2>2
    <3>2. Carried(m) => Carried(m)'
      BY <1>2, <1>3, <2>2 DEF Carried
    <3>3. QED
      BY <1>3, <3>1, <3>2 DEF NotifyInv, PendingHasJob
  <2>3. QED
    BY <2>1, <2>2
<1>19. Troubles'
  <2>1. ASSUME NEW m \in Present, sendJob[m] # None PROVE notification'[m] = notification[m]
    <3>1. m # batch[b].row
      BY <1>4, <1>5, <1>6, <1>16, <2>1 DEF InHand
    <3>2. QED
      BY <1>16, <3>1
  <2>2. Unmarked'
    BY <1>7, <1>16, <2>1, UnmarkedStays DEF NotifyInv, Troubles, Alike
  <2>3. Skipped'
    <3> SUFFICES ASSUME ~trouble.died, NEW c \in Batches, NEW a \in Accounts, <<c, a>> \in trouble'.unsaved
                 PROVE  batch'[c] # None /\ a \notin batch'[c].left
      BY DEF Skipped
    <3>1. CASE c = b
      BY <1>1, <1>2, <3>1 DEF NotifyInv, Troubles, Skipped
    <3>2. CASE c # b
      BY <1>2, <3>2 DEF NotifyInv, Troubles, Skipped
    <3>3. QED
      BY <3>1, <3>2
  <2>4. QED
    BY <2>2, <2>3 DEF Troubles
<1>20. QED
  BY <1>10, <1>11, <1>12, <1>13, <1>14, <1>15, <1>17, <1>18, <1>19 DEF NotifyInv, Types

LEMMA BatchAs ==
  ASSUME NEW job \in Batch
  PROVE  /\ job.left \in SUBSET Accounts /\ job.to \in SUBSET Accounts /\ job.kind \in {"direct", "template"}
         /\ job.row \in Notifications \union {None} /\ job.channel \in Channels
  BY DEF Batch

LEMMA BatchNow ==
  ASSUME NotifyInv, NEW b \in Batches, NEW stage, BatchAt(b, stage)
  PROVE  batch[b] # None /\ batch[b].at = stage /\ batch[b] \in Batch /\ BatchHolds(batch[b])
  BY BatchOf DEF BatchAt, NotifyInv, Types

\* What is recorded of a row that a batch lets go
LEMMA MoreStranded ==
  ASSUME NotifyInv, NEW n \in Notifications,
         trouble' = [trouble EXCEPT !.stranded = trouble.stranded \union {n}] \/ trouble' = trouble
  PROVE  /\ trouble' \in Trouble /\ trouble.stranded \subseteq trouble'.stranded
         /\ trouble'.died = trouble.died /\ trouble'.unmarked = trouble.unmarked /\ trouble'.unsaved = trouble.unsaved
         /\ trouble' = [trouble EXCEPT !.stranded = trouble.stranded \union {n}] => n \in trouble'.stranded
<1>1. trouble \in Trouble
  BY DEF NotifyInv, Troubles
<1>2. QED
  BY <1>1 DEF Trouble

LEMMA DeliverRowKeeps ==
  ASSUME NotifyInv, NEW b \in Batches, NEW o \in Stages, DeliverRow(b, o), WorkersOnly, UNCHANGED segmentVars
  PROVE  NotifyInv'
<1>1. PICK old : old = batch[b]
  OBVIOUS
<1>2. PICK n : n = old.row
  OBVIOUS
<1> DEFINE job == IF o = "thrown" THEN [old EXCEPT !.at = "next", !.row = None] ELSE [old EXCEPT !.at = o]
<1>3. /\ BatchAt(b, "sending") /\ o \in Outcomes(old.channel) /\ SetBatch(b, job) /\ Took(n, o)
      /\ trouble' = (IF o = "thrown" THEN [trouble EXCEPT !.stranded = trouble.stranded \union {n}] ELSE trouble)
      /\ UNCHANGED <<notification, sendJob>>
  BY <1>1, <1>2 DEF DeliverRow, LetGo
<1>4. old # None /\ old.at = "sending" /\ old \in Batch /\ BatchHolds(old) /\ n \in Issued /\ n \in Notifications
  BY <1>1, <1>2, <1>3, BatchNow DEF BatchHolds, Handing, Issued
<1>5. InHand(b) /\ accepted[n] = 0
  <2>1. InHand(b)
    BY <1>1, <1>2, <1>4, NoneIsNoNotificationRow DEF InHand
  <2>2. accepted[n] <= 0 /\ accepted[n] \in Nat
    BY <1>1, <1>2, <1>4, <2>1 DEF NotifyInv, Counted, Types, JobTypes
  <2>3. QED
    BY <2>1, <2>2
<1>6. o \in {"accepted", "refused", "thrown"}
  <2>1. old.channel \in {"push", "email", "sms", "in_app"}
    BY <1>4, BatchAs, ChannelsAssumption
  <2>2. QED
    BY <1>3, <2>1 DEF Outcomes, PushAnswers, SmsAnswers, EmailAnswers
<1>7. /\ job \in Batch /\ job.kind = old.kind /\ job.to = old.to /\ job.left = old.left
      /\ IF o = "thrown" THEN job.at = "next" /\ job.row = None ELSE job.at = o /\ job.row = n
  <2>1. CASE o = "thrown"
    BY <1>4, <2>1 DEF Batch
  <2>2. CASE o # "thrown"
    BY <1>2, <1>4, <2>2 DEF Batch
  <2>3. QED
    BY <2>1, <2>2
<1> HIDE DEF job
<1>8. BatchHolds(job)
  BY <1>4, <1>6, <1>7 DEF BatchHolds, Handing
<1>9. /\ accepted' \in [Notifications -> Nat] /\ \A m \in Notifications \ {n} : accepted'[m] = accepted[m]
      /\ accepted'[n] = IF o = "accepted" THEN 1 ELSE 0
  BY <1>3, <1>4, <1>5 DEF Took, NotifyInv, Types, JobTypes
<1>10. accepted'[n] <= (IF job.at = "sending" THEN 0 ELSE 1)
  BY <1>6, <1>7, <1>9
<1>11. Alike /\ notification' = notification
  BY <1>3, NothingWritten DEF NotifyInv, Types
<1>12. /\ trouble' \in Trouble /\ trouble.stranded \subseteq trouble'.stranded
       /\ trouble'.died = trouble.died /\ trouble'.unmarked = trouble.unmarked /\ trouble'.unsaved = trouble.unsaved
       /\ o = "thrown" => n \in trouble'.stranded
  BY <1>3, <1>4, MoreStranded
<1>13. job.row = None => n \in trouble'.stranded
  BY <1>4, <1>7, <1>12, NoneIsNoNotificationRow
<1>14. UNCHANGED <<deleted, seen, sendJob, segmentVars>>
  BY <1>3 DEF WorkersOnly
<1>15. Steady /\ dropped' = dropped /\ OtherTypes' /\ \A a \in Accounts : Exists(a)' <=> Exists(a)
  BY WorkerIsSteady
<1>16. job.row \in {None, n}
  BY <1>7
<1>17. QED
  BY <1>1, <1>2, <1>3, <1>4, <1>5, <1>7, <1>8, <1>9, <1>10, <1>11, <1>12, <1>13, <1>14, <1>15, <1>16, BatchKeeps

LEMMA SettleRowKeeps ==
  ASSUME NotifyInv, NEW b \in Batches, SettleRow(b), WorkersOnly, UNCHANGED segmentVars PROVE NotifyInv'
<1>1. PICK old : old = batch[b]
  OBVIOUS
<1>2. PICK n : n = old.row
  OBVIOUS
<1> DEFINE job == [old EXCEPT !.at = "next", !.row = None]
<1>3. /\ BatchAt(b, "accepted") \/ BatchAt(b, "refused")
      /\ SetBatch(b, job) /\ UNCHANGED <<sendJob, accepted>>
  BY <1>1 DEF SettleRow, LetGo
<1>5. old # None /\ old.at \in {"accepted", "refused"} /\ old \in Batch /\ BatchHolds(old) /\ n \in Issued /\ n \in Notifications
  BY <1>1, <1>2, <1>3, BatchNow DEF BatchHolds, Handing, Issued
<1>6. InHand(b) /\ accepted[n] <= 1
  <2>1. InHand(b)
    BY <1>1, <1>2, <1>5, NoneIsNoNotificationRow DEF InHand
  <2>2. QED
    BY <1>1, <1>2, <1>5, <2>1 DEF NotifyInv, Counted
<1>7. job \in Batch /\ job.kind = old.kind /\ job.to = old.to /\ job.left = old.left /\ job.at = "next" /\ job.row = None
  BY <1>5 DEF Batch
<1> HIDE DEF job
<1>8. BatchHolds(job)
  BY <1>5, <1>7 DEF BatchHolds, Handing
<1>9. /\ Alike /\ \A m \in Notifications \ {n} : notification'[m] = notification[m]
      /\ notification'[n].read = notification[n].read
      /\ n \notin deleted => notification'[n].status # "PENDING" \/ n \in trouble'.stranded
      /\ trouble' = [trouble EXCEPT !.stranded = trouble.stranded \union {n}] \/ trouble' = trouble
  <2>1. CASE LetGo(b) /\ UNCHANGED notification
    <3>1. trouble' = [trouble EXCEPT !.stranded = trouble.stranded \union {n}]
      BY <1>1, <1>2, <2>1 DEF LetGo
    <3>2. Alike
      BY <2>1, NothingWritten DEF NotifyInv, Types
    <3>3. QED
      BY <1>5, <2>1, <3>1, <3>2, MoreStranded
  <2>2. CASE ~(LetGo(b) /\ UNCHANGED notification)
    <3>1. PICK status \in {"SENT", "FAILED"} : UpdateStatus(n, status) /\ trouble' = trouble
      BY <1>1, <1>2, <2>2 DEF SettleRow
    <3>2. QED
      BY <1>5, <3>1, StatusWritten DEF NotifyInv, Types
  <2>3. QED
    BY <2>1, <2>2
<1>10. accepted' \in [Notifications -> Nat] /\ accepted' = accepted /\ accepted'[n] <= (IF job.at = "sending" THEN 0 ELSE 1)
  BY <1>3, <1>6, <1>7 DEF NotifyInv, Types, JobTypes
<1>11. /\ UNCHANGED <<deleted, seen, sendJob, segmentVars>>
       /\ trouble' \in Trouble /\ trouble.stranded \subseteq trouble'.stranded
       /\ trouble'.died = trouble.died /\ trouble'.unmarked = trouble.unmarked /\ trouble'.unsaved = trouble.unsaved
  BY <1>3, <1>5, <1>9, MoreStranded DEF WorkersOnly
<1>12. Steady /\ dropped' = dropped /\ OtherTypes' /\ \A a \in Accounts : Exists(a)' <=> Exists(a)
  BY WorkerIsSteady
<1>13. QED
  BY <1>1, <1>2, <1>3, <1>5, <1>6, <1>7, <1>8, <1>9, <1>10, <1>11, <1>12, BatchKeeps

LEMMA BatchIdles ==
  ASSUME NotifyInv, NEW b \in Batches, NEW old, old = batch[b], BatchAt(b, "waiting") \/ BatchAt(b, "next"),
         WorkersOnly, UNCHANGED segmentVars, UNCHANGED <<notification, sendJob, accepted>>,
         NEW job \in Batch, SetBatch(b, job), job.kind = old.kind, job.to = old.to, job.row = old.row,
         job.at \in {"next", "done"}, job.left \subseteq old.left, job.at = "done" => job.left = {},
         \A a \in Accounts : Exists(a) /\ job.kind = "direct" =>
           (a \in job.left \/ <<b, a>> \in trouble'.unsaved <=> a \in old.left \/ <<b, a>> \in trouble.unsaved),
         \A a \in Accounts : <<b, a>> \in trouble'.unsaved => a \notin job.left \/ <<b, a>> \in trouble.unsaved,
         \A c \in Batches, a \in Accounts : c # b => (<<c, a>> \in trouble'.unsaved <=> <<c, a>> \in trouble.unsaved),
         trouble' \in Trouble, trouble'.stranded = trouble.stranded,
         trouble'.died = trouble.died, trouble'.unmarked = trouble.unmarked
  PROVE  NotifyInv'
<1>1. old # None /\ old.at \in {"waiting", "next"} /\ old \in Batch /\ BatchHolds(old) /\ old.row = None
  BY BatchNow DEF BatchHolds, Handing
<1>2. BatchHolds(job) /\ ~InHand(b)
  BY <1>1 DEF BatchHolds, Handing, InHand
<1>3. Alike /\ accepted' \in [Notifications -> Nat]
  BY NothingWritten DEF NotifyInv, Types, JobTypes
<1>4. UNCHANGED <<deleted, seen, sendJob, segmentVars>>
  BY DEF WorkersOnly
<1>5. Steady /\ dropped' = dropped /\ OtherTypes' /\ \A a \in Accounts : Exists(a)' <=> Exists(a)
  BY WorkerIsSteady
<1>6. QED
  BY <1>1, <1>2, <1>3, <1>4, <1>5, BatchKeeps

\* The batch inserts the row of its next recipient.
LEMMA RowTakenKeeps ==
  ASSUME NotifyInv, NEW b \in Batches, NEW old, old = batch[b], BatchAt(b, "waiting") \/ BatchAt(b, "next"),
         NEW a \in old.left, Exists(a), ~Full,
         NEW source \in {"SYSTEM", "ADMIN"}, source = "ADMIN" <=> old.kind = "direct",
         notification' = [notification EXCEPT ![NextId] = NewNotification(a, old.channel, source)],
         SetBatch(b, [old EXCEPT !.at = "sending", !.left = old.left \ {a}, !.row = NextId]),
         WorkersOnly, UNCHANGED segmentVars, UNCHANGED <<sendJob, accepted, trouble>>
  PROVE  NotifyInv'
<1>1. old # None /\ old.at \in {"waiting", "next"} /\ old \in Batch /\ BatchHolds(old) /\ old.row = None
  BY BatchNow DEF BatchHolds, Handing
<1>2. old.left \in SUBSET Accounts /\ old.to \in SUBSET Accounts /\ old.channel \in Channels /\ a \in Accounts /\ a \in old.to
  BY <1>1, BatchAs DEF BatchHolds
<1> DEFINE row == NewNotification(a, old.channel, source)
<1>3. row \in Notification /\ row.read = FALSE /\ row.source = source /\ row.to = a
  <2>1. old.channel \in {"push", "email", "sms", "in_app"}
    BY <1>2, ChannelsAssumption
  <2>2. QED
    BY <1>2, <2>1 DEF NewNotification, Notification
<1> HIDE DEF row
<1>4. PICK id : id = NextId
  OBVIOUS
<1>5. UNCHANGED <<deleted, seen, accepted, sendJob>>
  BY DEF WorkersOnly
<1>6. /\ RowTypes' /\ ReadAsMarked'
      /\ id \in Notifications /\ id \notin Issued /\ Issued' = Issued \union {id} /\ Present' = Present \union {id}
      /\ notification'[id] = row /\ \A m \in Issued : notification'[m] = notification[m]
      /\ accepted[id] = 0 /\ sendJob[id] = None /\ ~Queueing(id) /\ ~Carried(id)
      /\ \A x : AdminRows(x)' = IF row.to = x /\ row.source = "ADMIN" THEN AdminRows(x) \union {id} ELSE AdminRows(x)
  BY <1>3, <1>4, <1>5, NewRowParts DEF row
<1> DEFINE job == [old EXCEPT !.at = "sending", !.left = old.left \ {a}, !.row = id]
<1>7. /\ job \in Batch /\ job.kind = old.kind /\ job.to = old.to /\ job.left = old.left \ {a}
      /\ job.at = "sending" /\ job.row = id
  BY <1>1, <1>2, <1>6 DEF Batch, Stages
<1>8. SetBatch(b, job)
  BY <1>4
<1> HIDE DEF job
<1>9. job # None /\ id # None
  BY <1>6, <1>7, NoneIsNoNotificationRow
<1>10. /\ batch' \in [Batches -> Batch \union {None}] /\ batch'[b] = job
       /\ \A c \in Batches \ {b} : batch'[c] = batch[c]
  BY <1>7, <1>8 DEF SetBatch, NotifyInv, Types, JobTypes
<1>11. \A c \in Batches : batch'[c] # None <=> batch[c] # None
  BY <1>1, <1>9, <1>10
<1>12. /\ ~InHand(b) /\ InHand(b)'
       /\ \A c \in Batches \ {b} : InHand(c)' <=> InHand(c)
  BY <1>1, <1>7, <1>9, <1>10, <1>11 DEF InHand
<1>13. \A m \in Notifications : Carried(m)' <=> m = id \/ Carried(m)
  <2>1. \A m \in Notifications : m # None
    BY NoneIsNoNotificationRow
  <2>2. QED
    BY <1>1, <1>7, <1>10, <1>11, <2>1 DEF Carried
<1>14. Steady /\ dropped' = dropped /\ OtherTypes' /\ \A x \in Accounts : Exists(x)' <=> Exists(x)
  BY WorkerIsSteady
<1>15. /\ \A m : Queueing(m)' <=> Queueing(m)
       /\ \A h \in Handlers : At(h, "enqueue")' <=> At(h, "enqueue")
       /\ \A h \in Handlers : At(h, "enqueue") => req'[h] = req[h]
  BY <1>14, SteadyQueue
<1>16. ReqTypes'
  BY <1>6, <1>14, SteadyTypes DEF NotifyInv, Types
<1>17. JobTypes'
  <2>1. ASSUME NEW c \in Batches, batch'[c] # None PROVE BatchHolds(batch[c])'
    <3>1. CASE c = b
      <4>1. job.left \subseteq job.to
        BY <1>1, <1>7 DEF BatchHolds
      <4>2. QED
        BY <1>6, <1>7, <1>10, <3>1, <4>1 DEF BatchHolds, Handing
    <3>2. CASE c # b
      <4>1. BatchHolds(batch[c])
        BY <1>10, <2>1, <3>2 DEF NotifyInv, Types, JobTypes
      <4>2. QED
        BY <1>6, <1>10, <3>2, <4>1 DEF BatchHolds
    <3>3. QED
      BY <3>1, <3>2
  <2>2. {c \in Batches : batch'[c] # None} = {c \in Batches : batch[c] # None}
    BY <1>11
  <2>3. QED
    BY <1>5, <1>10, <2>1, <2>2 DEF NotifyInv, Types, JobTypes
<1>18. Placed'
  <2>1. \A m \in Notifications : Queueing(m) => m \in Issued
    BY QueueRow DEF Queueing, NotifyInv, Types
  <2>2. \A m \in Notifications : sendJob'[m] # None => m \in Issued' /\ ~Queueing(m)' /\ ~Carried(m)'
    BY <1>5, <1>6, <1>13, <1>15 DEF NotifyInv, Placed
  <2>3. \A m \in Notifications : Queueing(m)' => ~Carried(m)' /\ notification'[m].source = "SYSTEM"
    BY <1>6, <1>13, <1>15, <2>1 DEF NotifyInv, Placed
  <2>4. ASSUME NEW c \in Batches, NEW d \in Batches, InHand(c)', InHand(d)', batch'[c].row = batch'[d].row
        PROVE  c = d
    <3>1. \A x \in Batches \ {b} : InHand(x) => batch[x].row # id
      BY <1>6 DEF Carried, InHand
    <3>2. QED
      BY <1>7, <1>10, <1>12, <2>4, <3>1 DEF NotifyInv, Placed
  <2>5. QED
    BY <1>15, <2>2, <2>3, <2>4 DEF NotifyInv, Placed
<1>19. Counted'
  <2>1. \A m : Allowed(m)' = Allowed(m)
    BY DEF Allowed, Died
  <2>2. ASSUME NEW c \in Batches, InHand(c)'
        PROVE  accepted'[batch'[c].row] <= (IF batch'[c].at = "sending" THEN 0 ELSE 1)
    <3>1. CASE c = b
      BY <1>6, <1>7, <1>10, <3>1
    <3>2. CASE c # b
      BY <1>10, <1>12, <2>2, <3>2 DEF NotifyInv, Counted
    <3>3. QED
      BY <3>1, <3>2
  <2>3. QED
    BY <1>6, <1>15, <2>1, <2>2 DEF NotifyInv, Counted
<1>20. SegmentCounted'
  BY DEF NotifyInv, SegmentCounted, Died, segmentVars
<1>21. OneRowEach'
  <2> SUFFICES ASSUME ~trouble.died, NEW x \in Accounts
               PROVE  Cardinality(AdminRows(x))' = IF Exists(x)' THEN Cardinality(ServedBy(x))' ELSE 0
    BY DEF OneRowEach
  <2>1. Cardinality(AdminRows(x)) = IF Exists(x) THEN Cardinality(ServedBy(x)) ELSE 0
    BY DEF NotifyInv, OneRowEach
  <2>2. CASE x # a \/ source # "ADMIN"
    <3>1. AdminRows(x)' = AdminRows(x)
      BY <1>3, <1>6, <2>2
    <3>2. ASSUME NEW c \in Batches
          PROVE  /\ batch'[c] # None <=> batch[c] # None
                 /\ batch[c] # None => batch'[c].kind = batch[c].kind /\ batch'[c].to = batch[c].to
                 /\ batch[c] # None /\ batch[c].kind = "direct" => (x \in batch'[c].left <=> x \in batch[c].left)
      <4>1. CASE c = b
        BY <1>7, <1>10, <1>11, <2>2, <4>1
      <4>2. CASE c # b
        BY <1>10, <4>2
      <4>3. QED
        BY <4>1, <4>2
    <3>3. ServedBy(x)' = ServedBy(x)
      BY <3>2 DEF ServedBy
    <3>4. QED
      BY <1>14, <2>1, <3>1, <3>3
  <2>3. CASE x = a /\ source = "ADMIN"
    <3>1. AdminRows(a)' = AdminRows(a) \union {id} /\ id \notin AdminRows(a)
      BY <1>3, <1>6, <2>3 DEF AdminRows
    <3>2. ServedBy(a)' = ServedBy(a) \union {b} /\ b \notin ServedBy(a)
      <4>0. <<b, a>> \notin trouble.unsaved
        BY <1>1, <1>2 DEF NotifyInv, Troubles, Skipped
      <4>1. ASSUME NEW c \in Batches
            PROVE  (batch'[c] # None /\ batch'[c].kind = "direct" /\ a \in batch'[c].to \ batch'[c].left
                      /\ <<c, a>> \notin trouble.unsaved)
                   <=> (c = b \/ (batch[c] # None /\ batch[c].kind = "direct" /\ a \in batch[c].to \ batch[c].left
                                   /\ <<c, a>> \notin trouble.unsaved))
        <5>1. CASE c = b
          BY <1>2, <1>7, <1>9, <1>10, <2>3, <4>0, <5>1
        <5>2. CASE c # b
          BY <1>10, <5>2
        <5>3. QED
          BY <5>1, <5>2
      <4>2. b \notin ServedBy(a)
        BY DEF ServedBy
      <4>3. QED
        BY <4>1, <4>2 DEF ServedBy
    <3>3. IsFiniteSet(AdminRows(a))
      <4>1. PICK k \in 0..MaxNotifications : Issued = 1..k
        BY DEF NotifyInv, Types, RowTypes
      <4>2. 1 \in Int /\ k \in Int
        BY MaxNotificationsNat
      <4>3. IsFiniteSet(1..k)
        BY <4>2, FS_Interval
      <4>4. AdminRows(a) \subseteq 1..k
        BY <4>1 DEF AdminRows
      <4>5. QED
        BY <4>3, <4>4, FS_Subset
    <3>4. IsFiniteSet(ServedBy(a))
      <4>1. ServedBy(a) \subseteq {c \in Batches : batch[c] # None}
        BY DEF ServedBy
      <4>2. QED
        BY <4>1, FS_Subset DEF NotifyInv, Types, JobTypes
    <3>5. /\ Cardinality(AdminRows(a) \union {id}) = Cardinality(AdminRows(a)) + 1
          /\ Cardinality(ServedBy(a) \union {b}) = Cardinality(ServedBy(a)) + 1
      BY <3>1, <3>2, <3>3, <3>4, FS_AddElement
    <3>6. QED
      BY <1>2, <1>14, <2>1, <2>3, <3>1, <3>2, <3>5
  <2>4. QED
    BY <2>2, <2>3
<1>22. PendingHasJob'
  <2>1. \A m \in Present : m \in Issued /\ m \in Notifications
    BY DEF Present, Issued
  <2>2. QED
    BY <1>5, <1>6, <1>11, <1>13, <1>14, <1>15, <2>1 DEF NotifyInv, PendingHasJob
<1>23. Troubles'
  <2>1. \A m \in Present : m \in Issued
    BY DEF Present
  <2>2. Unmarked'
    BY <1>5, <1>6, <1>15, <2>1, UnmarkedStays DEF NotifyInv, Troubles
  <2>3. Skipped'
    <3> SUFFICES ASSUME ~trouble.died, NEW c \in Batches, NEW x \in Accounts, <<c, x>> \in trouble.unsaved
                 PROVE  batch'[c] # None /\ x \notin batch'[c].left
      BY DEF Skipped
    <3>1. CASE c = b
      BY <1>1, <1>7, <1>9, <1>10, <3>1 DEF NotifyInv, Troubles, Skipped
    <3>2. CASE c # b
      BY <1>10, <3>2 DEF NotifyInv, Troubles, Skipped
    <3>3. QED
      BY <3>1, <3>2
  <2>4. QED
    BY <2>2, <2>3 DEF NotifyInv, Troubles
<1>24. QED
  BY <1>6, <1>14, <1>16, <1>17, <1>18, <1>19, <1>20, <1>21, <1>22, <1>23 DEF NotifyInv, Types

LEMMA NextRowKeeps ==
  ASSUME NotifyInv, NEW b \in Batches, NextRow(b), WorkersOnly, UNCHANGED segmentVars PROVE NotifyInv'
<1>1. PICK old : old = batch[b]
  OBVIOUS
<1>2. PICK a : a = CHOOSE x \in old.left : TRUE
  OBVIOUS
<1>3. PICK source : source = IF old.kind = "direct" THEN "ADMIN" ELSE "SYSTEM"
  OBVIOUS
<1>4. BatchAt(b, "waiting") \/ BatchAt(b, "next")
  BY DEF NextRow
<1>5. UNCHANGED <<sendJob, accepted>> /\ trouble \in Trouble
  BY DEF NextRow, NotifyInv, Troubles
<1>6. old \in Batch /\ old.left \in SUBSET Accounts /\ old.kind \in {"direct", "template"}
  BY <1>1, <1>4, BatchNow, BatchAs
<1>7. CASE old.left = {}
  <2> DEFINE job == [old EXCEPT !.at = "done"]
  <2>1. SetBatch(b, job) /\ UNCHANGED <<notification, trouble>>
    BY <1>1, <1>7 DEF NextRow
  <2>2. job \in Batch /\ job.kind = old.kind /\ job.to = old.to /\ job.row = old.row /\ job.at = "done" /\ job.left = old.left
    BY <1>6 DEF Batch
  <2> HIDE DEF job
  <2>3. QED
    BY <1>1, <1>4, <1>5, <1>7, <2>1, <2>2, BatchIdles
<1> DEFINE passing == [old EXCEPT !.at = "next", !.left = old.left \ {a}]
           given == trouble.unsaved \union {<<b, a>>}
<1>8. CASE old.left # {} /\ SetBatch(b, passing) /\ Passed(b, a) /\ UNCHANGED <<notification, trouble>>
  <2> DEFINE job == passing
  <2>1. SetBatch(b, job)
    BY <1>8
  <2>2. /\ job \in Batch /\ job.kind = old.kind /\ job.to = old.to /\ job.row = old.row /\ job.at = "next"
        /\ job.left = old.left \ {a}
    BY <1>6 DEF Batch
  <2>3. ~Exists(a) \/ old.kind = "template"
    BY <1>1, <1>8 DEF Passed
  <2> HIDE DEF job
  <2>4. \A x \in Accounts : Exists(x) /\ job.kind = "direct" => (x \in job.left <=> x \in old.left)
    BY <2>2, <2>3
  <2>5. job.left \subseteq old.left /\ job.at \in {"next", "done"} /\ (job.at = "done" => job.left = {})
    BY <2>2
  <2>6. QED
    BY <1>1, <1>4, <1>5, <1>8, <2>1, <2>2, <2>4, <2>5, BatchIdles
<1>11. CASE /\ old.left # {} /\ SetBatch(b, passing) /\ UNCHANGED notification
            /\ trouble' = [trouble EXCEPT !.unsaved = given]
  <2>1. PICK job : job = passing
    OBVIOUS
  <2>2. /\ job \in Batch /\ job.kind = old.kind /\ job.to = old.to /\ job.row = old.row /\ job.at = "next"
        /\ job.left = old.left \ {a}
    BY <1>6, <2>1 DEF Batch
  <2>3. a \in Accounts /\ a \in old.left
    BY <1>2, <1>6, <1>11
  <2>4. given \in SUBSET (Batches \X Accounts)
    BY <1>5, <2>3 DEF Trouble
  <2>5. PICK more : more = given
    OBVIOUS
  <2>6. /\ trouble' \in Trouble /\ trouble'.unsaved = more /\ trouble'.stranded = trouble.stranded
        /\ trouble'.died = trouble.died /\ trouble'.unmarked = trouble.unmarked
    BY <1>5, <1>11, <2>4, <2>5 DEF Trouble
  <2>7. /\ \A c \in Batches, x \in Accounts : c # b => (<<c, x>> \in more <=> <<c, x>> \in trouble.unsaved)
        /\ \A x \in Accounts : <<b, x>> \in more <=> x = a \/ <<b, x>> \in trouble.unsaved
    BY <2>5
  <2>8. SetBatch(b, job)
    BY <1>11, <2>1
  <2>9. job.left \subseteq old.left /\ job.at \in {"next", "done"} /\ (job.at = "done" => job.left = {})
    BY <2>2
  <2> HIDE DEF passing, given
  <2>10. /\ \A x \in Accounts :
              (x \in job.left \/ <<b, x>> \in trouble'.unsaved) <=> (x \in old.left \/ <<b, x>> \in trouble.unsaved)
         /\ \A x \in Accounts : <<b, x>> \in trouble'.unsaved => x \notin job.left \/ <<b, x>> \in trouble.unsaved
         /\ \A c \in Batches, x \in Accounts : c # b => (<<c, x>> \in trouble'.unsaved <=> <<c, x>> \in trouble.unsaved)
    BY <2>2, <2>3, <2>6, <2>7
  <2>11. QED
    BY <1>1, <1>4, <1>5, <1>11, <2>2, <2>6, <2>8, <2>9, <2>10, BatchIdles
<1>9. CASE /\ old.left # {} /\ ~Passed(b, a) /\ ~Full /\ UNCHANGED trouble
           /\ notification' = [notification EXCEPT ![NextId] = NewNotification(a, old.channel, source)]
           /\ SetBatch(b, [old EXCEPT !.at = "sending", !.left = old.left \ {a}, !.row = NextId])
  <2>1. a \in old.left
    BY <1>2, <1>9
  <2>2. Exists(a)
    BY <1>9 DEF Passed
  <2>4. source \in {"SYSTEM", "ADMIN"} /\ (source = "ADMIN" <=> old.kind = "direct")
    BY <1>3
  <2>5. QED
    BY <1>1, <1>4, <1>5, <1>9, <2>1, <2>2, <2>4, RowTakenKeeps
<1>10. QED
  BY <1>1, <1>2, <1>3, <1>7, <1>8, <1>9, <1>11 DEF NextRow

LEMMA QueueKeeps ==
  ASSUME NotifyInv, NEW b \in Batches, NEW kind \in {"direct", "template"}, NEW to, NEW ch \in Channels,
         QueueBatch(b, kind, to, ch), UNCHANGED segmentVars
  PROVE  NotifyInv'
<1>1. to \in SUBSET Accounts
  <2>1. \A o \in Accounts : Team(o) \subseteq Accounts
    BY TeamsAreAccounts DEF NotifyInv, Types
  <2>2. QED
    BY <2>1 DEF QueueBatch, Targets, BulkTargets
<1> DEFINE job == [kind |-> kind, at |-> "waiting", to |-> to, left |-> to, channel |-> ch, row |-> None]
<1>2. job \in Batch /\ job.at = "waiting" /\ job.row = None /\ job.left = job.to
  BY <1>1 DEF Batch, Stages
<1>3. batch[b] = None /\ SetBatch(b, job)
  BY DEF QueueBatch
<1> HIDE DEF job
<1>4. job # None /\ BatchHolds(job)
  BY <1>2, NoneIsNoNotificationRow DEF BatchHolds, Handing
<1>5. /\ batch' \in [Batches -> Batch \union {None}] /\ batch'[b] = job
      /\ \A c \in Batches \ {b} : batch'[c] = batch[c]
  BY <1>2, <1>3 DEF SetBatch, NotifyInv, Types, JobTypes
<1>6. UNCHANGED <<notification, deleted, sendJob, accepted, seen, trouble>>
  BY DEF QueueBatch
<1>7. Steady /\ dropped' = dropped
  BY StillIsSteady DEF QueueBatch, AtOnce, NotifyInv, Types
<1>8. OtherTypes' /\ \A a \in Accounts : Exists(a)' <=> Exists(a)
  BY PeopleStay DEF QueueBatch, NotifyInv, Types, OtherTypes
<1>9. Alike /\ Issued' = Issued /\ Present' = Present
  <2>1. Alike
    BY <1>6, NothingWritten DEF NotifyInv, Types
  <2>2. QED
    BY <1>6, <2>1 DEF Alike, Present
<1>10. /\ \A m : Queueing(m)' <=> Queueing(m)
       /\ \A h \in Handlers : At(h, "enqueue")' <=> At(h, "enqueue")
       /\ \A h \in Handlers : At(h, "enqueue") => req'[h] = req[h]
  BY <1>7, SteadyQueue
<1>11. /\ ~InHand(b)' /\ ~InHand(b)
       /\ \A c \in Batches \ {b} : InHand(c)' <=> InHand(c)
  BY <1>2, <1>3, <1>5 DEF InHand
<1>12. \A m \in Notifications : Carried(m)' <=> Carried(m)
  <2>1. \A m \in Notifications : m # None
    BY NoneIsNoNotificationRow
  <2>2. QED
    BY <1>2, <1>3, <1>5, <2>1 DEF Carried
<1>13. RowTypes' /\ ReqTypes'
  <2>1. RowTypes'
    BY <1>6, <1>9 DEF NotifyInv, Types, RowTypes
  <2>2. QED
    BY <1>7, <1>9, <2>1, SteadyTypes DEF NotifyInv, Types
<1>14. JobTypes'
  <2>1. ASSUME NEW c \in Batches, batch'[c] # None PROVE BatchHolds(batch[c])'
    <3>1. CASE c = b
      BY <1>4, <1>5, <1>9, <3>1 DEF BatchHolds
    <3>2. CASE c # b
      <4>1. BatchHolds(batch[c])
        BY <1>5, <2>1, <3>2 DEF NotifyInv, Types, JobTypes
      <4>2. QED
        BY <1>5, <1>9, <3>2, <4>1 DEF BatchHolds
    <3>3. QED
      BY <3>1, <3>2
  <2>2. {c \in Batches : batch'[c] # None} = {c \in Batches : batch[c] # None} \union {b}
    BY <1>4, <1>5
  <2>3. IsFiniteSet({c \in Batches : batch'[c] # None})
    <3>1. IsFiniteSet({c \in Batches : batch[c] # None})
      BY DEF NotifyInv, Types, JobTypes
    <3>2. QED
      BY <2>2, <3>1, FS_AddElement
  <2>4. QED
    BY <1>5, <1>6, <2>1, <2>3 DEF NotifyInv, Types, JobTypes
<1>15. Placed'
  <2>1. \A c, d \in Batches : InHand(c)' /\ InHand(d)' /\ batch'[c].row = batch'[d].row => c = d
    BY <1>5, <1>11 DEF NotifyInv, Placed
  <2>2. QED
    BY <1>6, <1>9, <1>10, <1>12, <2>1 DEF NotifyInv, Placed
<1>16. Counted'
  <2>1. \A m : Allowed(m)' = Allowed(m)
    BY <1>6 DEF Allowed, Died
  <2>2. \A c \in Batches : InHand(c)' => accepted'[batch'[c].row] <= (IF batch'[c].at = "sending" THEN 0 ELSE 1)
    BY <1>5, <1>6, <1>11 DEF NotifyInv, Counted
  <2>3. QED
    BY <1>6, <1>9, <1>10, <2>1, <2>2 DEF NotifyInv, Counted
<1>17. SegmentCounted'
  BY <1>6 DEF NotifyInv, SegmentCounted, Died, segmentVars
<1>18. OneRowEach'
  <2>1. \A a : ServedBy(a)' = ServedBy(a)
    BY <1>2, <1>3, <1>4, <1>5, <1>6 DEF ServedBy
  <2>2. QED
    BY <1>6, <1>8, <1>9, <2>1, AlikeServes DEF NotifyInv
<1>19. ReadAsMarked'
  BY <1>6, <1>9 DEF NotifyInv, ReadAsMarked
<1>20. PendingHasJob'
  <2>1. \A m \in Present : m \in Notifications
    BY DEF Present, Issued
  <2>2. QED
    BY <1>6, <1>7, <1>9, <1>10, <1>12, <2>1 DEF NotifyInv, PendingHasJob
<1>21. Troubles'
  <2>1. Unmarked'
    BY <1>6, <1>9, <1>10, UnmarkedStays DEF NotifyInv, Troubles
  <2>2. Skipped'
    BY <1>3, <1>5, <1>6 DEF NotifyInv, Troubles, Skipped
  <2>3. QED
    BY <1>6, <2>1, <2>2 DEF NotifyInv, Troubles
<1>22. QED
  BY <1>8, <1>13, <1>14, <1>15, <1>16, <1>17, <1>18, <1>19, <1>20, <1>21 DEF NotifyInv, Types

-----------------------------------------------------------------------------
(* The message to a segment *)

LEMMA SegmentRuns ==
  ASSUME SegmentCounted, Died \in 0..1, SegmentNext, UNCHANGED trouble PROVE SegmentCounted'
<1>1. Died' = Died
  BY DEF Died
<1>2. None \notin LiveJob
  BY NoneIsNoNotificationRow DEF LiveJob, SendJob, Attempts
<1>3. reached \in Nat /\ segment \in LiveJob \union {None}
  BY DEF SegmentCounted
<1>4. CASE QueueSegment
  <2>1. [at |-> "waiting", tries |-> 0] \in LiveJob
    BY DEF LiveJob, Stages, Attempts
  <2>2. reached' = 0 /\ segment' = [at |-> "waiting", tries |-> 0]
    BY <1>4 DEF QueueSegment
  <2>3. QED
    BY <1>1, <1>2, <2>1, <2>2 DEF SegmentCounted
<1>5. CASE segment # None /\ SendSegment
  <2>1. segment \in LiveJob
    BY <1>3, <1>5
  <2>2. ASSUME segment' \in LiveJob \union {None}, segment' = None \/ segment'.at \in {"waiting", "sending"},
               segment.at = "waiting", reached' = reached
        PROVE  SegmentCounted'
    <3>1. reached <= Died
      BY <1>2, <2>1, <2>2 DEF SegmentCounted
    <3>2. QED
      BY <1>1, <1>3, <2>2, <3>1 DEF SegmentCounted
  <2>3. ASSUME segment.at = "waiting", reached' = reached,
               segment' = IF GetTemplate(DefaultLanguage) = None THEN None ELSE [segment EXCEPT !.at = "sending"]
        PROVE  SegmentCounted'
    <3>1. [segment EXCEPT !.at = "sending"] \in LiveJob /\ [segment EXCEPT !.at = "sending"].at = "sending"
      BY <2>1 DEF LiveJob, Stages
    <3>2. QED
      BY <2>2, <2>3, <3>1
  <2>4. ASSUME segment.at = "waiting", reached' = reached, segment' = Retried(segment.tries + 1)
        PROVE  SegmentCounted'
    <3>1. segment.tries \in 0..2
      BY <2>1 DEF LiveJob, Attempts
    <3>2. CASE segment.tries + 1 < Attempts
      <4>1. segment' = [at |-> "waiting", tries |-> segment.tries + 1]
        BY <2>4, <3>2 DEF Retried
      <4>2. segment.tries + 1 \in 0..(Attempts - 1)
        BY <3>1, <3>2 DEF Attempts
      <4>3. segment' \in LiveJob /\ segment'.at = "waiting"
        BY <4>1, <4>2 DEF LiveJob, Stages
      <4>4. QED
        BY <2>2, <2>4, <4>3
    <3>3. CASE ~(segment.tries + 1 < Attempts)
      <4>1. segment' = None
        BY <2>4, <3>3 DEF Retried
      <4>2. QED
        BY <2>2, <2>4, <4>1
    <3>4. QED
      BY <3>2, <3>3
  <2>5. ASSUME segment.at = "sending", NEW answer \in PushAnswers, segment' = [segment EXCEPT !.at = answer],
               reached' = IF answer = "accepted" THEN reached + 1 ELSE reached
        PROVE  SegmentCounted'
    <3>1. segment' \in LiveJob /\ segment'.at \in {"accepted", "refused"}
      BY <2>1, <2>5 DEF LiveJob, Stages, PushAnswers
    <3>2. reached <= Died
      BY <1>2, <2>1, <2>5 DEF SegmentCounted
    <3>3. reached' \in Nat /\ reached' <= Died + 1
      BY <1>3, <2>5, <3>2
    <3>4. QED
      BY <1>1, <1>2, <3>1, <3>3 DEF SegmentCounted
  <2>6. ASSUME segment' = None, reached' = reached PROVE SegmentCounted'
    <3>1. reached <= Died + 1
      BY <1>3 DEF SegmentCounted
    <3>2. QED
      BY <1>1, <1>3, <2>6, <3>1 DEF SegmentCounted
  <2>7. QED
    BY <1>5, <2>3, <2>4, <2>5, <2>6 DEF SendSegment
<1>6. QED
  BY <1>4, <1>5 DEF SegmentNext

LEMMA SegmentKeeps == ASSUME NotifyInv, SegmentNext PROVE NotifyInv'
<1>1. UNCHANGED reqVars
  BY DEF SegmentNext, QueueSegment, AtOnce
<1>2. UNCHANGED rowVars /\ OtherTypes' /\ \A a \in Accounts : Exists(a)' <=> Exists(a)
  BY PeopleStay DEF SegmentNext, notifyVars, rowVars, NotifyInv, Types, OtherTypes
<1>3. Steady /\ dropped' = dropped
  BY <1>1, StillIsSteady DEF NotifyInv, Types
<1>4. Alike
  BY <1>2, RowsSame DEF NotifyInv
<1>5. Types' /\ Placed' /\ Counted' /\ OneRowEach'
  <2>1. deleted' \subseteq Issued /\ seen' \subseteq Issued
    BY <1>2 DEF rowVars, NotifyInv, Types, RowTypes
  <2>2. UNCHANGED <<sendJob, batch, accepted, trouble>>
    BY <1>2 DEF rowVars
  <2>3. QED
    BY <1>2, <1>3, <1>4, <2>1, <2>2, RowsAlike
<1>6. SegmentCounted'
  <2>1. Died \in 0..1
    BY DEF Died
  <2>2. QED
    BY <1>2, <2>1, SegmentRuns DEF NotifyInv, rowVars
<1>7. ReadAsMarked' /\ PendingHasJob' /\ Troubles'
  <2>1. ReadAsMarked'
    BY <1>2, <1>4 DEF NotifyInv, ReadAsMarked, Present, Alike, rowVars
  <2>2. Present' \subseteq Present /\ \A n \in Present' : notification'[n].status = "PENDING" => notification[n].status = "PENDING"
    BY <1>2, <1>4 DEF Present, Alike, rowVars
  <2>3. QED
    BY <1>2, <1>3, <1>4, <2>1, <2>2, PendingAlike DEF rowVars
<1>8. QED
  BY <1>5, <1>6, <1>7 DEF NotifyInv

-----------------------------------------------------------------------------
(* The process dies, and its jobs go back to the queue *)

LEMMA RestartKeeps == ASSUME NotifyInv, Restart, employee' = employee PROVE NotifyInv'
<1> DEFINE hands == {batch[b].row : b \in {c \in Batches : InHand(c)}}
<1>1. /\ ~trouble.died /\ trouble' \in Trouble /\ trouble'.died = TRUE
      /\ trouble'.stranded = trouble.stranded \union hands
      /\ trouble'.unmarked = trouble.unmarked
  <2>1. trouble \in Trouble /\ trouble' = [trouble EXCEPT !.died = TRUE, !.stranded = trouble.stranded \union hands]
    BY DEF NotifyInv, Troubles, Restart
  <2>2. ASSUME NEW b \in Batches, InHand(b) PROVE batch[b].row \in Notifications
    BY <2>2, BatchOf DEF InHand, NotifyInv, Types, Batch
  <2>3. hands \in SUBSET Notifications
    BY <2>2
  <2> HIDE DEF hands
  <2>4. ~trouble.died
    BY DEF Restart
  <2>5. QED
    BY <2>1, <2>3, <2>4 DEF Trouble
<1>17. /\ req' = [h \in Handlers |-> Idle] /\ dropped' = (dropped \/ ~Quiet)
       /\ UNCHANGED <<notification, deleted, accepted, seen, reached>>
  BY DEF Restart
<1>2. Died = 0 /\ Died' = 1
  BY <1>1, <1>17 DEF Died
<1>3. Alike /\ Issued' = Issued /\ Present' = Present
  <2>1. Alike
    BY <1>1, <1>17, NothingWritten DEF NotifyInv, Types
  <2>2. QED
    BY <1>1, <1>17, <2>1 DEF Alike, Present
<1>4. \A h \in Handlers : ~At(h, "enqueue")'
  BY <1>1, <1>17, IdleHolds DEF At
<1>5. ASSUME NEW n \in Notifications
      PROVE  /\ sendJob'[n] \in LiveJob \union {None} /\ (sendJob'[n] = None <=> sendJob[n] = None)
             /\ sendJob[n] # None => sendJob'[n].tries = sendJob[n].tries /\ sendJob'[n].at = "waiting"
  <2>1. sendJob'[n] = IF sendJob[n] = None THEN None ELSE [sendJob[n] EXCEPT !.at = "waiting"]
    BY DEF Restart
  <2>2. CASE sendJob[n] = None
    BY <2>1, <2>2
  <2>3. CASE sendJob[n] # None
    <3>1. PICK old \in LiveJob : old = sendJob[n]
      BY <2>3 DEF NotifyInv, Types, JobTypes
    <3>2. PICK job : job = [old EXCEPT !.at = "waiting"]
      OBVIOUS
    <3>3. job \in LiveJob /\ job.at = "waiting" /\ job.tries = old.tries /\ job # None
      BY <3>2, JobTo DEF Stages
    <3>4. sendJob'[n] = job
      BY <2>1, <2>3, <3>1, <3>2
    <3>5. QED
      BY <2>3, <3>1, <3>3, <3>4
  <2>4. QED
    BY <2>2, <2>3
<1>6. ASSUME NEW b \in Batches
      PROVE  /\ batch'[b] \in Batch \union {None} /\ (batch'[b] = None <=> batch[b] = None)
             /\ batch'[b] # None => batch'[b].row = None /\ BatchHolds(batch[b])'
  <2>1. batch'[b] = IF batch[b] = None \/ BatchAt(b, "done") THEN batch[b]
                    ELSE [batch[b] EXCEPT !.at = "waiting", !.left = batch[b].to, !.row = None]
    BY DEF Restart
  <2>2. CASE batch[b] = None
    BY <2>1, <2>2
  <2>3. CASE batch[b] # None /\ BatchAt(b, "done")
    <3>1. batch[b] \in Batch /\ BatchHolds(batch[b]) /\ batch[b].at = "done" /\ batch'[b] = batch[b]
      BY <2>1, <2>3, BatchNow
    <3>2. QED
      BY <1>3, <3>1 DEF BatchHolds, Handing
  <2>4. CASE batch[b] # None /\ ~BatchAt(b, "done")
    <3>1. PICK old \in Batch : old = batch[b]
      BY <2>4, BatchOf DEF NotifyInv, Types
    <3>2. PICK job : job = [old EXCEPT !.at = "waiting", !.left = old.to, !.row = None]
      OBVIOUS
    <3>3. job \in Batch /\ job.at = "waiting" /\ job.left = job.to /\ job.row = None
      BY <3>2 DEF Batch, Stages
    <3>4. job # None /\ batch'[b] = job
      BY <2>1, <2>4, <3>1, <3>2, <3>3, NoneIsNoNotificationRow
    <3>5. QED
      BY <1>3, <2>4, <3>3, <3>4 DEF BatchHolds, Handing
  <2>5. QED
    BY <2>2, <2>3, <2>4
<1>7. RowTypes' /\ OtherTypes'
  <2>1. RowTypes'
    BY <1>1, <1>17, <1>3 DEF NotifyInv, Types, RowTypes
  <2>2. UNCHANGED <<device, language>>
    BY DEF Restart
  <2>3. QED
    BY <2>1, <2>2 DEF NotifyInv, Types, OtherTypes
<1>8. ReqTypes'
  <2>1. \A h \in Handlers : ReqHolds(req[h])'
    BY <1>1, <1>17, IdleHolds DEF ReqHolds, Idle
  <2>2. QED
    BY <1>1, <1>17, <2>1 DEF ReqTypes
<1>9. JobTypes'
  <2>1. sendJob' \in [Notifications -> LiveJob \union {None}]
    BY <1>5 DEF Restart
  <2>2. batch' \in [Batches -> Batch \union {None}]
    BY <1>6 DEF Restart
  <2>3. {b \in Batches : batch'[b] # None} = {b \in Batches : batch[b] # None}
    BY <1>6
  <2>4. QED
    BY <1>1, <1>17, <1>6, <2>1, <2>2, <2>3 DEF NotifyInv, Types, JobTypes
<1>10. (\A n \in Notifications : ~Carried(n)' /\ ~Queueing(n)') /\ \A b \in Batches : ~InHand(b)'
  <2>1. \A n \in Notifications : n # None
    BY NoneIsNoNotificationRow
  <2>2. QED
    BY <1>4, <1>6, <2>1 DEF Carried, Queueing, InHand
<1>11. Placed'
  BY <1>3, <1>4, <1>5, <1>10 DEF NotifyInv, Placed
<1>12. Counted'
  <2>1. ASSUME NEW n \in Notifications PROVE accepted[n] <= Allowed(n)'
    <3>1. accepted[n] <= Allowed(n) /\ accepted[n] \in Nat
      BY DEF NotifyInv, Counted, Types, JobTypes
    <3>2. CASE sendJob[n] = None
      <4>1. Allowed(n) = 3 /\ Allowed(n)' = 4
        BY <1>2, <1>5, <3>2 DEF Allowed, Attempts
      <4>2. QED
        BY <3>1, <4>1
    <3>3. CASE sendJob[n] # None
      <4>1. sendJob[n].tries \in Nat
        BY <3>3 DEF NotifyInv, Types, JobTypes, LiveJob, Attempts
      <4>2. Allowed(n) <= sendJob[n].tries + 1
        BY <1>2, <3>3, <4>1 DEF Allowed
      <4>3. Allowed(n)' = sendJob[n].tries + 1
        BY <1>2, <1>5, <3>3, <4>1 DEF Allowed
      <4>4. Allowed(n) \in Int
        BY <1>2, <3>3, <4>1 DEF Allowed
      <4>5. QED
        BY <3>1, <4>1, <4>2, <4>3, <4>4
    <3>4. QED
      BY <3>2, <3>3
  <2>2. QED
    BY <1>1, <1>17, <1>3, <1>10, <2>1 DEF NotifyInv, Counted
<1>13. SegmentCounted'
  <2>1. reached \in Nat /\ reached <= 1
    BY <1>2 DEF NotifyInv, SegmentCounted
  <2>2. segment' \in LiveJob \union {None}
    <3>1. CASE segment = None
      BY <3>1 DEF Restart
    <3>2. CASE segment # None
      <4>1. segment \in LiveJob
        BY <3>2 DEF NotifyInv, SegmentCounted
      <4>2. QED
        BY <3>2, <4>1, JobTo DEF Restart, Stages
    <3>3. QED
      BY <3>1, <3>2
  <2>3. QED
    BY <1>1, <1>17, <1>2, <2>1, <2>2 DEF SegmentCounted
<1>14. OneRowEach' /\ ReadAsMarked'
  BY <1>1, <1>17, <1>3 DEF OneRowEach, NotifyInv, ReadAsMarked
<1>15. PendingHasJob'
  <2> SUFFICES ASSUME NEW n \in Present, notification[n].status = "PENDING"
               PROVE  \/ sendJob'[n] # None
                      \/ notification[n].source = "SYSTEM" /\ dropped'
                      \/ n \in trouble'.stranded
                      \/ trouble.unmarked[n] = Attempts
    BY <1>1, <1>17, <1>3 DEF PendingHasJob
  <2>1. n \in Notifications
    BY DEF Present, Issued
  <2>2. Queueing(n) => notification[n].source = "SYSTEM" /\ ~Quiet
    BY <2>1, IdleHolds DEF NotifyInv, Placed, Queueing, At, Quiet
  <2>3. Carried(n) => n \in hands
    BY <2>1, NoneIsNoNotificationRow DEF Carried, InHand
  <2>4. QED
    BY <1>1, <1>17, <1>5, <2>1, <2>2, <2>3 DEF NotifyInv, PendingHasJob
<1>16. Troubles'
  <2>1. \A n \in Present : n \in Notifications
    BY DEF Present, Issued
  <2>2. Unmarked'
    BY <1>1, <1>17, <1>3, <1>5, <1>10, <2>1, UnmarkedStays DEF NotifyInv, Troubles
  <2>3. QED
    BY <1>1, <2>2 DEF Troubles, Skipped
<1>18. QED
  BY <1>7, <1>8, <1>9, <1>11, <1>12, <1>13, <1>14, <1>15, <1>16 DEF NotifyInv, Types

-----------------------------------------------------------------------------
(* Every step, and what the invariant says *)

LEMMA NotifyStart ==
  ASSUME OfficesTypeOK, language \in [Accounts -> Languages \union {None}], NotificationsInit,
         NEW oneAtATime, RequestsInit(oneAtATime)
  PROVE  NotifyInv
<1>1. Issued = {} /\ Present = {}
  BY DEF NotificationsInit, Issued, Present
<1>2. RowTypes
  <2>1. 0 \in 0..MaxNotifications /\ 1..0 = {}
    BY MaxNotificationsNat
  <2>2. QED
    BY <1>1, <2>1 DEF NotificationsInit, RowTypes
<1>3. JobTypes
  <2>1. {b \in Batches : batch[b] # None} = {}
    BY DEF NotificationsInit
  <2>2. QED
    BY <2>1, FS_EmptySet DEF NotificationsInit, JobTypes
<1>4. ReqTypes
  BY IdleHolds DEF RequestsInit, ReqTypes
<1>5. OtherTypes
  BY DEF OfficesTypeOK, NotificationsInit, OtherTypes
<1>6. /\ \A h \in Handlers : ~At(h, "enqueue")
      /\ \A b \in Batches : ~InHand(b)
      /\ \A n : ~Queueing(n) /\ ~Carried(n)
  BY IdleHolds DEF RequestsInit, NotificationsInit, At, InHand, Queueing, Carried
<1>7. Placed
  BY <1>6 DEF Placed, NotificationsInit
<1>8. Died = 0
  BY DEF Died, NotificationsInit
<1>9. Counted
  BY <1>6, <1>8 DEF Counted, NotificationsInit, Allowed, Attempts
<1>10. SegmentCounted
  BY <1>8 DEF SegmentCounted, NotificationsInit
<1>11. OneRowEach
  <2>1. \A a \in Accounts : AdminRows(a) = {} /\ ServedBy(a) = {}
    BY <1>1 DEF AdminRows, ServedBy, NotificationsInit
  <2>2. QED
    BY <2>1, FS_EmptySet DEF OneRowEach
<1>12. ReadAsMarked /\ PendingHasJob
  BY <1>1 DEF ReadAsMarked, PendingHasJob
<1>13. Troubles
  <2>1. trouble \in Trouble /\ trouble.unsaved = {} /\ \A n \in Notifications : trouble.unmarked[n] = 0
    BY DEF NotificationsInit, Trouble
  <2>2. QED
    BY <1>1, <2>1 DEF Troubles, Unmarked, Skipped
<1>14. QED
  BY <1>2, <1>3, <1>4, <1>5, <1>7, <1>9, <1>10, <1>11, <1>12, <1>13 DEF NotifyInv, Types

LEMMA NotificationsMoveOn == ASSUME NotifyInv, NotificationMoves PROVE NotifyInv'
<1>1. ASSUME NEW h \in Handlers, NotifyRequest(h) \/ NotificationsStep(h), UNCHANGED segmentVars PROVE NotifyInv'
  <2>1. CASE NotifyRequest(h)
    BY <1>1, <2>1, EventKeeps
  <2>2. CASE NotificationsStep(h)
    BY <1>1, <2>2, SaveRowKeeps, AddJobKeeps, SaveReadKeeps, RegisterKeeps DEF NotificationsStep
  <2>3. QED
    BY <1>1, <2>1, <2>2
<1>2. CASE NotifyAtOnce /\ UNCHANGED segmentVars
  BY <1>2, SeedKeeps, QueueKeeps, MarkAllKeeps, DeleteKeeps, RemoveDeviceKeeps DEF NotifyAtOnce
<1>3. CASE WorkerStep /\ UNCHANGED segmentVars
  <2>1. WorkersOnly
    BY <1>3 DEF WorkerStep, WorkersOnly
  <2>2. ASSUME NEW n \in Notifications,
               TakeSend(n) \/ UpdateThrows(n) \/ SettleSend(n) \/ RetrySend(n) \/ \E o \in Stages : DeliverSend(n, o)
        PROVE  NotifyInv'
    BY <1>3, <2>1, <2>2, TakeKeeps, ThrowKeeps, SettleKeeps, RetryKeeps, DeliverKeeps
  <2>3. ASSUME NEW b \in Batches, NextRow(b) \/ SettleRow(b) \/ \E o \in Stages : DeliverRow(b, o) PROVE NotifyInv'
    BY <1>3, <2>1, <2>3, NextRowKeeps, SettleRowKeeps, DeliverRowKeeps
  <2>4. QED
    BY <1>3, <2>2, <2>3 DEF WorkerStep
<1>4. QED
  BY <1>1, <1>2, <1>3, SegmentKeeps DEF NotificationMoves

LEMMA NotifyKeeps ==
  ASSUME NotifyInv, [NotificationsNext]_<<reqVars, accountVars, officeVars, notifyVars, segmentVars>> PROVE NotifyInv'
<1>1. CASE UNCHANGED <<reqVars, accountVars, officeVars, notifyVars, segmentVars>>
  <2>1. Steady /\ dropped' = dropped
    BY <1>1, StillIsSteady DEF NotifyInv, Types
  <2>2. UNCHANGED rowVars /\ OtherTypes'
    BY <1>1, PeopleStay DEF NotifyInv, Types, OtherTypes, rowVars, notifyVars
  <2>3. \A a : Exists(a)' <=> Exists(a)
    BY <1>1, PeopleStay
  <2>4. QED
    BY <1>1, <2>1, <2>2, <2>3, OthersMove
<1>2. ASSUME NEW h \in Handlers, Drop(h), UNCHANGED <<accountVars, officeVars, notifyVars, segmentVars>> PROVE NotifyInv'
  <2>1. UNCHANGED <<accountVars, officeVars, notifyVars>> /\ UNCHANGED segmentVars
    BY <1>2
  <2>2. QED
    BY <1>2, <2>1, DropKeeps
<1>3. CASE Restart /\ UNCHANGED <<accountVars, officeVars>>
  BY <1>3, PeopleStay, RestartKeeps
<1>4. QED
  BY <1>1, <1>2, <1>3, NotificationsMoveOn, PeopleKeep DEF NotificationsNext

LEMMA SeldomAccepted == ASSUME NotifyInv PROVE AcceptedSeldom
<1>1. Died \in 0..1 /\ (Died = IF trouble.died THEN 1 ELSE 0)
  BY DEF Died
<1>2. ASSUME NEW n \in Notifications PROVE accepted[n] <= 3 + Died
  <2>1. accepted[n] \in Nat /\ accepted[n] <= Allowed(n)
    BY DEF NotifyInv, Counted, Types, JobTypes
  <2>2. CASE sendJob[n] = None
    BY <1>1, <2>1, <2>2 DEF Allowed, Attempts
  <2>3. CASE sendJob[n] # None
    <3>1. sendJob[n].tries \in 0..2
      BY <2>3 DEF NotifyInv, Types, JobTypes, LiveJob, Attempts
    <3>2. QED
      BY <1>1, <2>1, <2>3, <3>1 DEF Allowed
  <2>4. QED
    BY <2>2, <2>3
<1>3. reached \in Nat /\ reached <= 1 + Died
  BY <1>1 DEF NotifyInv, SegmentCounted
<1>4. QED
  BY <1>1, <1>2, <1>3 DEF AcceptedSeldom, Attempts

LEMMA OneRowOfAMessage == ASSUME NotifyInv PROVE AdminRowsOnce
<1> SUFFICES ASSUME ~trouble.died, NEW a \in Accounts
             PROVE  LET asked_for == {b \in Batches : batch[b] # None /\ batch[b].kind = "direct" /\ a \in batch[b].to}
                        saved == {b \in asked_for : <<b, a>> \notin trouble.unsaved}
                    IN  /\ Cardinality(AdminRows(a)) <= Cardinality(saved)
                        /\ Exists(a) /\ (\A b \in asked_for : BatchAt(b, "done")) =>
                             Cardinality(AdminRows(a)) = Cardinality(saved)
  BY DEF AdminRowsOnce, AdminRows
<1> DEFINE asked_for == {b \in Batches : batch[b] # None /\ batch[b].kind = "direct" /\ a \in batch[b].to}
           saved == {b \in asked_for : <<b, a>> \notin trouble.unsaved}
<1>1. Cardinality(AdminRows(a)) = IF Exists(a) THEN Cardinality(ServedBy(a)) ELSE 0
  BY DEF NotifyInv, OneRowEach
<1>2. IsFiniteSet(saved)
  <2>1. saved \subseteq {b \in Batches : batch[b] # None}
    OBVIOUS
  <2>2. QED
    BY <2>1, FS_Subset DEF NotifyInv, Types, JobTypes
<1>3. ServedBy(a) \subseteq saved
  BY DEF ServedBy
<1>4. Cardinality(ServedBy(a)) \in Nat /\ Cardinality(saved) \in Nat /\ Cardinality(ServedBy(a)) <= Cardinality(saved)
  BY <1>2, <1>3, FS_Subset, FS_CardinalityType
<1>5. ASSUME \A b \in asked_for : BatchAt(b, "done") PROVE ServedBy(a) = saved
  <2>1. \A b \in asked_for : batch[b].left = {}
    BY <1>5, BatchNow DEF BatchHolds
  <2>2. QED
    BY <1>3, <2>1 DEF ServedBy
<1> HIDE DEF asked_for, saved
<1>6. Cardinality(AdminRows(a)) <= Cardinality(saved)
  BY <1>1, <1>4
<1>7. ASSUME Exists(a), \A b \in asked_for : BatchAt(b, "done") PROVE Cardinality(AdminRows(a)) = Cardinality(saved)
  BY <1>1, <1>5, <1>7
<1>8. QED
  BY <1>6, <1>7 DEF asked_for, saved

LEMMA ReadIsRead == ASSUME NotifyInv PROVE ReadStaysRead
<1>1. \A n \in Present : notification[n].read <=> n \in seen
  BY DEF NotifyInv, ReadAsMarked
<1>2. ASSUME NEW n \in seen \ deleted PROVE notification[n].read
  <2>1. n \in Present
    BY DEF Present, NotifyInv, Types, RowTypes
  <2>2. QED
    BY <1>1, <2>1
<1>3. ASSUME NEW a \in Accounts PROVE {n \in UserNotifications(a) : ~notification[n].read} = UserNotifications(a) \ seen
  BY <1>1 DEF UserNotifications
<1>4. QED
  BY <1>2, <1>3 DEF ReadStaysRead, UnreadCount

LEMMA NotifyTyped == ASSUME NotifyInv PROVE NotificationsTypeOK
<1>1. LiveJob \subseteq SendJob
  BY DEF LiveJob, SendJob, Attempts
<1>2. QED
  BY <1>1 DEF NotifyInv, Types, RowTypes, JobTypes, OtherTypes, SegmentCounted, Troubles, NotificationsTypeOK

THEOREM NotifyInvariant == NotificationsSpec => []NotifyInv
<1>1. ASSUME OfficesTypeOK, language \in [Accounts -> Languages \union {None}], NotificationsInit,
             \E oneAtATime \in BOOLEAN : RequestsInit(oneAtATime)
      PROVE  NotifyInv
  BY <1>1, NotifyStart
<1>2. NotifyInv /\ [NotificationsNext]_<<reqVars, accountVars, officeVars, notifyVars, segmentVars>> => NotifyInv'
  BY NotifyKeeps
<1>3. QED
  BY <1>1, <1>2, PTL DEF NotificationsSpec

\* The tables of the notifications hold what their columns may, with jobs, batches and
\* requests that overlap.
THEOREM NotificationTypes == NotificationsSpec => []NotificationsTypeOK
<1>1. NotifyInv => NotificationsTypeOK
  BY NotifyTyped
<1>2. QED
  BY <1>1, NotifyInvariant, PTL

\* No notification is forgotten, delivered more often than its attempts allow, saved twice
\* for a message, or unread again once it was read, whatever dies and is retried.
THEOREM NotificationsStand == NotificationsSpec => []NotificationsKept
<1>1. NotifyInv => NotificationsKept
  BY SeldomAccepted, OneRowOfAMessage, ReadIsRead DEF NotificationsKept, NotifyInv
<1>2. QED
  BY <1>1, NotifyInvariant, PTL

-----------------------------------------------------------------------------
(* Reviews: the invariant *)

\* A review by somebody who completed a booking, and the one it names
Earned(row) ==
  /\ row \in Review /\ CompletedBy(row.by) # {}
  /\ row.booking # None => row.booking \in CompletedBy(row.by)

\* What no request writes in a row that is there
SameReview(x, y) == x.by = y.by /\ x.office = y.office /\ x.booking = y.booking

OfSameOffice(r, row) == review[r].by = row.by /\ review[r].office = row.office

\* What a request on its way has read: one at a time, a review that names no booking is the
\* first of its author on the office.
ReviewRequest(q) ==
  /\ q.at = "review" => /\ Earned(q.row)
                        /\ serial /\ q.row.booking = None => \A r \in Posted : ~OfSameOffice(r, q.row)
  /\ q.at = "save_review" => /\ q.id \in Reviews \ Unused /\ q.row \in Review
                             /\ SameReview(q.row, review[q.id])

ReviewTables ==
  /\ review \in [Reviews -> Review \union {None}] /\ withdrawn \subseteq Reviews \ Unused
  /\ completed \subseteq Accounts \X Nat /\ IsFiniteSet(completed) /\ IsFiniteSet(Reviews \ Unused)

ReviewRequests ==
  /\ req = [h \in Handlers |-> req[h]]
  /\ \A h \in Handlers : ReviewRequest(req[h])
  /\ serial => \A h, g \in Handlers : req[h] # Idle /\ req[g] # Idle => h = g

ReviewRows ==
  /\ \A r \in Reviews \ Unused : Earned(review[r])
  /\ \A r, q \in Posted : review[r].booking = review[q].booking /\ review[r].booking # None => r = q
  /\ serial => \A r, q \in Posted : review[r].booking = None /\ review[q].booking = None /\ OfSameOffice(r, review[q]) => r = q

ReviewInv == ReviewTables /\ ReviewRequests /\ ReviewRows

-----------------------------------------------------------------------------
(* Reviews: every step *)

\* Rows change no further than a save may; more are deleted, and more bookings completed.
RowsLast ==
  /\ review' \in [Reviews -> Review \union {None}]
  /\ \A r \in Reviews : review'[r] = None <=> review[r] = None
  /\ \A r \in Reviews \ Unused : SameReview(review'[r], review[r])
  /\ withdrawn \subseteq withdrawn' /\ withdrawn' \subseteq Reviews \ Unused
  /\ completed \subseteq completed' /\ completed' \subseteq Accounts \X Nat /\ IsFiniteSet(completed')
  /\ serial' = serial

LEMMA EarnedStays ==
  ASSUME NEW row, Earned(row), completed \subseteq completed' PROVE Earned(row)'
<1>1. \A a : CompletedBy(a) \subseteq CompletedBy(a)'
  BY DEF CompletedBy
<1>2. QED
  BY <1>1 DEF Earned

LEMMA RowsLastMore ==
  ASSUME RowsLast PROVE Unused' = Unused /\ Posted' \subseteq Posted /\ \A r \in Posted : r \in Reviews \ Unused
  BY DEF RowsLast, Unused, Posted

LEMMA RequestLasts ==
  ASSUME RowsLast, NEW q, ReviewRequest(q) PROVE ReviewRequest(q)'
<1>1. ASSUME q.at = "review" PROVE Earned(q.row)'
  BY <1>1, EarnedStays DEF ReviewRequest, RowsLast
<1>2. ASSUME q.at = "review", serial', q.row.booking = None, NEW r \in Posted' PROVE ~OfSameOffice(r, q.row)'
  <2>1. r \in Posted /\ SameReview(review'[r], review[r])
    BY <1>2, RowsLastMore DEF RowsLast
  <2>2. QED
    BY <1>2, <2>1 DEF ReviewRequest, RowsLast, OfSameOffice, SameReview
<1>3. ASSUME q.at = "save_review"
      PROVE  q.id \in Reviews \ Unused' /\ q.row \in Review /\ SameReview(q.row, review'[q.id])
  BY <1>3, RowsLastMore DEF ReviewRequest, RowsLast, SameReview
<1>4. QED
  BY <1>1, <1>2, <1>3 DEF ReviewRequest, SameReview

\* The requests go on as they were, but for those that carry something sound.
RequestsLast ==
  /\ req' = [h \in Handlers |-> req'[h]]
  /\ \A h \in Handlers : req'[h] = req[h] \/ \A q : q = req'[h] => ReviewRequest(q)
  /\ serial => \A h, g \in Handlers : req'[h] # Idle /\ req'[g] # Idle => h = g

LEMMA RowsKeep ==
  ASSUME ReviewInv, RowsLast, RequestsLast PROVE ReviewInv'
<1>1. Unused' = Unused /\ Posted' \subseteq Posted /\ \A r \in Posted : r \in Reviews \ Unused
  BY RowsLastMore
<1>2. ReviewTables'
  BY <1>1 DEF ReviewInv, ReviewTables, RowsLast
<1>3. ReviewRequests'
  <2>1. ASSUME NEW h \in Handlers PROVE ReviewRequest(req[h])'
    <3>1. PICK q : q = req'[h]
      OBVIOUS
    <3>2. ReviewRequest(q)
      BY <3>1 DEF RequestsLast, ReviewInv, ReviewRequests
    <3>3. ReviewRequest(q)'
      BY <3>2, RequestLasts
    <3>4. QED
      BY <3>1, <3>3 DEF ReviewRequest, Earned, SameReview, OfSameOffice
  <2>2. QED
    BY <2>1 DEF ReviewRequests, RequestsLast, RowsLast
<1>4. ReviewRows'
  <2>1. ASSUME NEW r \in Reviews \ Unused' PROVE Earned(review[r])'
    <3>1. PICK row : row = review'[r]
      OBVIOUS
    <3>2. row \in Review /\ SameReview(row, review[r]) /\ Earned(review[r])
      BY <1>1, <3>1 DEF RowsLast, ReviewInv, ReviewRows, Unused
    <3>3. Earned(row)
      BY <3>2 DEF Earned, SameReview
    <3>4. Earned(row)'
      BY <3>3, EarnedStays DEF RowsLast
    <3>5. QED
      BY <3>1, <3>4 DEF Earned
  <2>2. \A r \in Posted' : r \in Posted /\ SameReview(review'[r], review[r])
    BY <1>1 DEF RowsLast
  <2>3. ASSUME NEW r \in Posted', NEW q \in Posted',
               review'[r].booking = review'[q].booking, review'[r].booking # None
        PROVE  r = q
    BY <2>2, <2>3 DEF ReviewInv, ReviewRows, SameReview
  <2>4. ASSUME serial', NEW r \in Posted', NEW q \in Posted', review'[r].booking = None, review'[q].booking = None,
               OfSameOffice(r, review[q])'
        PROVE  r = q
    BY <2>2, <2>4 DEF ReviewInv, ReviewRows, SameReview, OfSameOffice, RowsLast
  <2>5. QED
    BY <2>1, <2>3, <2>4 DEF ReviewRows
<1>5. QED
  BY <1>2, <1>3, <1>4 DEF ReviewInv

LEMMA RowsLeft ==
  ASSUME ReviewInv, UNCHANGED reviewVars, serial' = serial PROVE RowsLast
  BY DEF ReviewInv, ReviewTables, RowsLast, SameReview, reviewVars

LEMMA RequestsLeft ==
  ASSUME ReviewInv, UNCHANGED reqVars PROVE RequestsLast
  BY DEF ReviewInv, ReviewRequests, RequestsLast, reqVars

LEMMA IdleIsSound == ReviewRequest(Idle)
  BY DEF ReviewRequest, Idle

LEMMA BeginReview ==
  ASSUME ReviewInv, NEW h \in Handlers, NEW q, ReviewRequest(q), Begin(h, q) PROVE RequestsLast /\ serial' = serial
<1>1. req[h] = Idle /\ (serial => Quiet) /\ req' = [req EXCEPT ![h] = q] /\ serial' = serial
  BY DEF Begin
<1>2. req' = [g \in Handlers |-> req'[g]] /\ req'[h] = q /\ \A g \in Handlers \ {h} : req'[g] = req[g]
  BY <1>1 DEF ReviewInv, ReviewRequests
<1>3. QED
  BY <1>1, <1>2 DEF RequestsLast, Quiet

LEMMA EndReview ==
  ASSUME ReviewInv, NEW h \in Handlers, req' = [req EXCEPT ![h] = Idle] PROVE RequestsLast
<1>1. req' = [g \in Handlers |-> req'[g]] /\ req'[h] = Idle /\ \A g \in Handlers \ {h} : req'[g] = req[g]
  BY DEF ReviewInv, ReviewRequests
<1>2. QED
  BY <1>1, IdleIsSound DEF RequestsLast, ReviewInv, ReviewRequests

LEMMA CreateReadKeeps ==
  ASSUME ReviewInv, NEW h \in Handlers, NEW a \in Accounts, NEW o \in Accounts, NEW b \in (Accounts \X Nat) \union {None},
         NEW rating \in Ratings, CreateReviewRead(h, a, o, b, rating)
  PROVE  ReviewInv'
<1> DEFINE row == [by |-> a, office |-> o, booking |-> b, rating |-> rating, hidden |-> FALSE]
<1>1. row \in Review /\ row.by = a /\ row.office = o /\ row.booking = b
  BY DEF Review
<1>2. Begin(h, [at |-> "review", row |-> row]) /\ UNCHANGED reviewVars
  BY DEF CreateReviewRead
<1> HIDE DEF row
<1>3. CompletedBy(a) # {} /\ (b # None => b \in CompletedBy(a))
  BY DEF CreateReviewRead
<1>4. b = None => \A r \in Posted : ~(review[r].by = a /\ review[r].office = o)
  BY DEF CreateReviewRead, Reviewed
<1>5. ReviewRequest([at |-> "review", row |-> row])
  BY <1>1, <1>3, <1>4 DEF ReviewRequest, Earned, OfSameOffice
<1>6. RequestsLast /\ serial' = serial
  BY <1>2, <1>5, BeginReview
<1>7. QED
  BY <1>2, <1>6, RowsLeft, RowsKeep

LEMMA SaveReadKeepsReview ==
  ASSUME ReviewInv, NEW h \in Handlers, NEW r \in Posted, NEW row \in Review, SameReview(row, review[r]),
         Begin(h, [at |-> "save_review", id |-> r, row |-> row]), UNCHANGED reviewVars
  PROVE  ReviewInv'
<1>1. ReviewRequest([at |-> "save_review", id |-> r, row |-> row])
  BY DEF ReviewRequest, Posted
<1>2. RequestsLast /\ serial' = serial
  BY <1>1, BeginReview
<1>3. QED
  BY <1>2, RowsLeft, RowsKeep

LEMMA PostedRow == ASSUME ReviewInv, NEW r \in Posted PROVE r \in Reviews /\ review[r] # None /\ review[r] \in Review
  BY DEF ReviewInv, ReviewTables, Posted, Unused

LEMMA UpdateReadKeeps ==
  ASSUME ReviewInv, NEW h \in Handlers, NEW a, NEW r \in Reviews, NEW rating \in Ratings, NEW hidden \in BOOLEAN,
         UpdateReviewRead(h, a, r, rating, hidden)
  PROVE  ReviewInv'
<1> DEFINE row == [review[r] EXCEPT !.rating = rating, !.hidden = hidden]
<1>1. r \in Posted /\ Begin(h, [at |-> "save_review", id |-> r, row |-> row]) /\ UNCHANGED reviewVars
  BY DEF UpdateReviewRead
<1>2. row \in Review /\ SameReview(row, review[r])
  BY <1>1, PostedRow DEF Review, SameReview
<1> HIDE DEF row
<1>3. QED
  BY <1>1, <1>2, SaveReadKeepsReview

LEMMA HideReadKeeps ==
  ASSUME ReviewInv, NEW h \in Handlers, NEW r \in Reviews, ToggleHideRead(h, r) PROVE ReviewInv'
<1> DEFINE row == [review[r] EXCEPT !.hidden = ~@]
<1>1. r \in Posted /\ Begin(h, [at |-> "save_review", id |-> r, row |-> row]) /\ UNCHANGED reviewVars
  BY DEF ToggleHideRead
<1>2. PICK flag \in BOOLEAN : row = [review[r] EXCEPT !.hidden = flag]
  OBVIOUS
<1>3. row \in Review /\ SameReview(row, review[r])
  BY <1>1, <1>2, PostedRow DEF Review, SameReview
<1> HIDE DEF row
<1>4. QED
  BY <1>1, <1>3, SaveReadKeepsReview

LEMMA SaveReviewKeeps ==
  ASSUME ReviewInv, NEW h \in Handlers, SaveReview(h) PROVE ReviewInv'
<1>1. PICK r : r = req[h].id
  OBVIOUS
<1>2. PICK row : row = req[h].row
  OBVIOUS
<1>3. r \in Reviews \ Unused /\ row \in Review /\ SameReview(row, review[r])
  BY <1>1, <1>2 DEF SaveReview, At, ReviewInv, ReviewRequests, ReviewRequest
<1>4. /\ review' = IF r \in Posted THEN [review EXCEPT ![r] = row] ELSE review
      /\ UNCHANGED <<withdrawn, completed>>
  BY <1>1, <1>2 DEF SaveReview
<1>5. row # None
  BY <1>3, NoneIsNoReview
<1>6. RequestsLast /\ serial' = serial
  BY EndReview DEF SaveReview, Done, Goto
<1>7. RowsLast
  <2>1. review' \in [Reviews -> Review \union {None}]
    BY <1>3, <1>4 DEF ReviewInv, ReviewTables
  <2>2. \A q \in Reviews : review'[q] = IF q = r /\ r \in Posted THEN row ELSE review[q]
    BY <1>3, <1>4 DEF ReviewInv, ReviewTables
  <2>3. \A q \in Reviews : review'[q] = None <=> review[q] = None
    BY <1>3, <1>5, <2>2 DEF Unused
  <2>4. \A q \in Reviews \ Unused : SameReview(review'[q], review[q])
    BY <1>3, <2>2 DEF SameReview
  <2>5. QED
    BY <1>4, <1>6, <2>1, <2>3, <2>4 DEF RowsLast, ReviewInv, ReviewTables
<1>8. QED
  BY <1>6, <1>7, RowsKeep

LEMMA DeleteReviewKeeps ==
  ASSUME ReviewInv, NEW r \in Reviews, DeleteReview(r) PROVE ReviewInv'
<1>1. RequestsLast /\ serial' = serial
  BY RequestsLeft DEF DeleteReview, AtOnce, reqVars
<1>2. RowsLast
  <2>1. r \in Reviews \ Unused
    BY DEF DeleteReview, Posted
  <2>2. withdrawn' = withdrawn \union {r} /\ UNCHANGED <<review, completed>>
    BY DEF DeleteReview
  <2>3. QED
    BY <1>1, <2>1, <2>2 DEF RowsLast, ReviewInv, ReviewTables, SameReview
<1>3. QED
  BY <1>1, <1>2, RowsKeep

LEMMA CompleteKeeps ==
  ASSUME ReviewInv, NEW b \in Accounts \X Nat, CompleteBooking(b) PROVE ReviewInv'
<1>1. RequestsLast /\ serial' = serial
  BY RequestsLeft DEF CompleteBooking, reqVars
<1>2. RowsLast
  <2>1. completed' = completed \union {b} /\ UNCHANGED <<review, withdrawn>>
    BY DEF CompleteBooking
  <2>2. IsFiniteSet(completed')
    BY <2>1, FS_AddElement DEF ReviewInv, ReviewTables
  <2>3. QED
    BY <1>1, <2>1, <2>2 DEF RowsLast, ReviewInv, ReviewTables, SameReview
<1>3. QED
  BY <1>1, <1>2, RowsKeep

\* A new row: nobody has reviewed the booking, and one at a time its author has none on the
\* office that names no booking.
LEMMA CreateReviewKeeps ==
  ASSUME ReviewInv, NEW h \in Handlers, CreateReview(h) PROVE ReviewInv'
<1>1. PICK row : row = req[h].row
  OBVIOUS
<1>2. Earned(row) /\ (serial /\ row.booking = None => \A r \in Posted : ~OfSameOffice(r, row))
  BY <1>1 DEF CreateReview, At, ReviewInv, ReviewRequests, ReviewRequest
<1>3. UNCHANGED <<withdrawn, completed>> /\ req' = [req EXCEPT ![h] = Idle] /\ serial' = serial
  BY DEF CreateReview, Done, Goto
<1>4. CASE review' = review
  <2>1. UNCHANGED reviewVars
    BY <1>3, <1>4 DEF reviewVars
  <2>2. QED
    BY <1>3, <2>1, EndReview, RowsLeft, RowsKeep
<1>5. CASE review' # review
  <2>1. PICK new : new = CHOOSE r \in Unused : TRUE
    OBVIOUS
  <2>2. /\ Unused # {} /\ review' = [review EXCEPT ![new] = row]
        /\ row.booking # None => \A r \in Posted : review[r].booking # row.booking
    BY <1>1, <1>5, <2>1 DEF CreateReview
  <2>3. new \in Reviews /\ new \in Unused /\ review[new] = None
    BY <2>1, <2>2 DEF Unused
  <2>4. row \in Review /\ row # None
    BY <1>2, NoneIsNoReview DEF Earned
  <2>5. /\ review' \in [Reviews -> Review \union {None}] /\ review'[new] = row
        /\ \A r \in Reviews \ {new} : review'[r] = review[r]
    BY <2>2, <2>3, <2>4 DEF ReviewInv, ReviewTables
  <2>6. Unused' = Unused \ {new} /\ Reviews \ Unused' = (Reviews \ Unused) \union {new}
    <3>1. Unused' = Unused \ {new}
      BY <2>3, <2>4, <2>5 DEF Unused
    <3>2. QED
      BY <2>3, <3>1 DEF Unused
  <2>7. new \notin withdrawn /\ new \notin Posted
    BY <2>3 DEF ReviewInv, ReviewTables, Posted
  <2>8. Posted' = Posted \union {new} /\ \A r \in Posted : review'[r] = review[r] /\ r \in Reviews /\ r # new
    BY <1>3, <2>5, <2>6, <2>7 DEF Posted
  <2>9. ReviewTables'
    <3>1. IsFiniteSet((Reviews \ Unused) \union {new})
      BY FS_AddElement DEF ReviewInv, ReviewTables
    <3>2. QED
      BY <1>3, <2>5, <2>6, <3>1 DEF ReviewInv, ReviewTables
  <2>10. req' = [g \in Handlers |-> req'[g]] /\ req'[h] = Idle /\ \A g \in Handlers \ {h} : req'[g] = req[g]
    BY <1>3 DEF ReviewInv, ReviewRequests
  <2>11. req[h] # Idle
    BY DEF CreateReview, At, Idle
  <2>12. ReviewRequests'
    <3>1. ASSUME NEW g \in Handlers, g # h PROVE ReviewRequest(req[g])'
      <4>1. PICK q : q = req[g]
        OBVIOUS
      <4>2. ReviewRequest(q) /\ req'[g] = q
        BY <2>10, <3>1, <4>1 DEF ReviewInv, ReviewRequests
      <4>3. ASSUME q.at = "review" PROVE Earned(q.row)' /\ ~serial'
        <5>1. q # Idle
          BY <4>3 DEF Idle
        <5>2. ~serial
          BY <2>11, <3>1, <4>1, <5>1 DEF ReviewInv, ReviewRequests
        <5>3. Earned(q.row)'
          BY <1>3, <4>2, <4>3, EarnedStays DEF ReviewRequest
        <5>4. QED
          BY <1>3, <5>2, <5>3
      <4>4. ASSUME q.at = "save_review" PROVE q.id \in Reviews \ Unused' /\ SameReview(q.row, review'[q.id]) /\ q.row \in Review
        BY <2>3, <2>5, <2>6, <4>2, <4>4 DEF ReviewRequest
      <4>5. ReviewRequest(q)'
        BY <4>3, <4>4 DEF ReviewRequest, SameReview
      <4>6. QED
        BY <4>2, <4>5 DEF ReviewRequest, Earned, SameReview, OfSameOffice
    <3>2. ReviewRequest(req[h])'
      BY <2>10 DEF ReviewRequest, Idle
    <3>3. \A g, f \in Handlers : serial' /\ req'[g] # Idle /\ req'[f] # Idle => g = f
      BY <1>3, <2>10 DEF ReviewInv, ReviewRequests
    <3>4. QED
      BY <2>10, <3>1, <3>2, <3>3 DEF ReviewRequests
  <2>13. ReviewRows'
    <3>1. ASSUME NEW r \in Reviews \ Unused' PROVE Earned(review[r])'
      <4>1. PICK x : x = review'[r]
        OBVIOUS
      <4>2. Earned(x)
        BY <1>2, <2>3, <2>5, <2>6, <3>1, <4>1 DEF ReviewInv, ReviewRows
      <4>3. Earned(x)'
        BY <1>3, <4>2, EarnedStays
      <4>4. QED
        BY <4>1, <4>3 DEF Earned
    <3>2. ASSUME NEW r \in Posted', NEW q \in Posted',
                 review'[r].booking = review'[q].booking, review'[r].booking # None
          PROVE  r = q
      BY <2>2, <2>5, <2>8, <3>2 DEF ReviewInv, ReviewRows
    <3>3. ASSUME serial', NEW r \in Posted', NEW q \in Posted', review'[r].booking = None, review'[q].booking = None,
                 OfSameOffice(r, review[q])'
          PROVE  r = q
      <4>1. serial /\ review'[r].by = review'[q].by /\ review'[r].office = review'[q].office
        BY <1>3, <3>3 DEF OfSameOffice
      <4>2. CASE r = new /\ q # new
        BY <1>2, <2>5, <2>8, <3>3, <4>1, <4>2 DEF OfSameOffice
      <4>3. CASE q = new /\ r # new
        BY <1>2, <2>5, <2>8, <3>3, <4>1, <4>3 DEF OfSameOffice
      <4>4. CASE q # new /\ r # new
        BY <2>8, <3>3, <4>1, <4>4 DEF OfSameOffice, ReviewInv, ReviewRows
      <4>5. QED
        BY <4>2, <4>3, <4>4
    <3>4. QED
      BY <3>1, <3>2, <3>3 DEF ReviewRows
  <2>14. QED
    BY <2>9, <2>12, <2>13 DEF ReviewInv
<1>6. QED
  BY <1>4, <1>5

LEMMA ReviewsMoveOn == ASSUME ReviewInv, ReviewMoves PROVE ReviewInv'
<1>1. ASSUME NEW h \in Handlers, ReviewsStep(h) PROVE ReviewInv'
  BY <1>1, CreateReviewKeeps, SaveReviewKeeps DEF ReviewsStep
<1>2. QED
  BY <1>1, CreateReadKeeps, UpdateReadKeeps, HideReadKeeps, DeleteReviewKeeps, CompleteKeeps DEF ReviewMoves

LEMMA ReviewsDrop ==
  ASSUME ReviewInv, NEW h \in Handlers, Drop(h), UNCHANGED reviewVars PROVE ReviewInv'
  BY EndReview, RowsLeft, RowsKeep DEF Drop

LEMMA ReviewsKeep ==
  ASSUME ReviewInv, [ReviewsNext]_<<reqVars, reviewVars>> PROVE ReviewInv'
<1>1. CASE UNCHANGED <<reqVars, reviewVars>>
  <2>1. serial' = serial
    BY <1>1 DEF reqVars
  <2>2. QED
    BY <1>1, <2>1, RowsLeft, RequestsLeft, RowsKeep
<1>2. QED
  BY <1>1, ReviewsMoveOn, ReviewsDrop DEF ReviewsNext

LEMMA ReviewsStart ==
  ASSUME completed = {}, ReviewsInit, NEW oneAtATime, RequestsInit(oneAtATime) PROVE ReviewInv
<1>1. Unused = Reviews /\ Posted = {}
  BY DEF ReviewsInit, Unused, Posted
<1>2. ReviewTables
  BY <1>1, FS_EmptySet DEF ReviewsInit, ReviewTables
<1>3. ReviewRequests
  BY IdleIsSound DEF RequestsInit, ReviewRequests
<1>4. QED
  BY <1>1, <1>2, <1>3 DEF ReviewInv, ReviewRows

LEMMA ReviewsAreEarned == ASSUME ReviewInv PROVE ReviewsEarned
  BY DEF ReviewInv, ReviewRows, Posted, Earned, OfSameOffice, ReviewsEarned

LEMMA StatsAreAlike == ASSUME ReviewInv PROVE StatsAgree
<1> SUFFICES ASSUME NEW o \in Accounts
             PROVE  /\ Stats(o).total = SumOf(Stats(o).count, Ratings)
                    /\ Stats(o).sum = SumOf([x \in Ratings |-> x * Stats(o).count[x]], Ratings)
  BY DEF StatsAgree
<1>1. PICK V : V = Visible(o)
  OBVIOUS
<1> DEFINE class == [r \in V |-> review[r].rating]
           count == [x \in Ratings |-> Cardinality({r \in V : review[r].rating = x})]
<1>2. Stats(o).sum = SumOf(class, V) /\ Stats(o).total = Cardinality(V) /\ Stats(o).count = count
  BY <1>1 DEF Stats
<1>3. IsFiniteSet(V)
  <2>1. V \subseteq Reviews \ Unused
    BY <1>1 DEF Visible, Posted
  <2>2. QED
    BY <2>1, FS_Subset DEF ReviewInv, ReviewTables
<1>4. IsFiniteSet(Ratings) /\ Ratings \subseteq Int
  <2>1. 1 \in Int /\ 5 \in Int
    OBVIOUS
  <2>2. IsFiniteSet(1..5)
    BY <2>1, FS_Interval
  <2>3. IsFiniteSet(Ratings)
    BY <2>2, RatingsAssumption, FS_Subset
  <2>4. Ratings \subseteq Int
    BY RatingsAssumption
  <2>5. QED
    BY <2>3, <2>4
<1>5. class \in [V -> Ratings]
  <2>1. \A r \in V : review[r] \in Review
    BY <1>1, PostedRow DEF Visible
  <2>2. QED
    BY <2>1 DEF Review
<1>6. \A x \in Ratings : {r \in V : class[r] = x} = {r \in V : review[r].rating = x}
  OBVIOUS
<1>7. \A x \in Ratings : count[x] \in Nat /\ count[x] = Cardinality({r \in V : class[r] = x})
  <2>1. \A x \in Ratings : IsFiniteSet({r \in V : class[r] = x})
    BY <1>3, FS_Subset
  <2>2. \A x \in Ratings : Cardinality({r \in V : class[r] = x}) \in Nat
    BY <2>1, FS_CardinalityType
  <2>3. QED
    BY <1>6, <2>2
<1> HIDE DEF class, count
<1>8. SumOf(class, V) = SumOf([x \in Ratings |-> x * count[x]], Ratings)
  <2> DEFINE w == [x \in Ratings |-> x]
  <2>1. w \in [Ratings -> Int]
    BY <1>4
  <2>2. SumOf([r \in V |-> w[class[r]]], V) = SumOf([x \in Ratings |-> w[x] * Cardinality({r \in V : class[r] = x})], Ratings)
    <3> HIDE DEF w
    <3>1. QED
      BY <1>3, <1>4, <1>5, <2>1, SumByClass
  <2>3. [r \in V |-> w[class[r]]] = class
    BY <1>5
  <2>4. [x \in Ratings |-> w[x] * Cardinality({r \in V : class[r] = x})] = [x \in Ratings |-> x * count[x]]
    BY <1>7
  <2>5. QED
    BY <2>2, <2>3, <2>4
<1>9. Cardinality(V) = SumOf(count, Ratings)
  <2> DEFINE w == [x \in Ratings |-> 1]
             f == [r \in V |-> w[class[r]]]
             g == [x \in Ratings |-> w[x] * Cardinality({r \in V : class[r] = x})]
  <2>1. w \in [Ratings -> Int]
    OBVIOUS
  <2>2. SumOf(f, V) = SumOf(g, Ratings)
    <3> HIDE DEF w
    <3>1. QED
      BY <1>3, <1>4, <1>5, <2>1, SumByClass
  <2>3. \A r \in V : f[r] = 1
    BY <1>5
  <2>4. \A x \in Ratings : g[x] = count[x]
    BY <1>7
  <2> HIDE DEF f, g
  <2>5. SumOf(f, V) = Cardinality(V) /\ SumOf(g, Ratings) = SumOf(count, Ratings)
    BY <1>3, <1>4, <2>3, <2>4, SumOfOnes, SumOfSame
  <2>6. QED
    BY <2>2, <2>5
<1>10. QED
  BY <1>2, <1>8, <1>9

THEOREM ReviewInvariant == ReviewsSpec => []ReviewInv
<1>1. ASSUME completed = {}, ReviewsInit, \E oneAtATime \in BOOLEAN : RequestsInit(oneAtATime) PROVE ReviewInv
  BY <1>1, ReviewsStart
<1>2. ReviewInv /\ [ReviewsNext]_<<reqVars, reviewVars>> => ReviewInv'
  BY ReviewsKeep
<1>3. QED
  BY <1>1, <1>2, PTL DEF ReviewsSpec

\* The rows of the reviews hold what their columns may, and deleted ones were there.
THEOREM ReviewTypes == ReviewsSpec => []ReviewsTypeOK
<1>1. ReviewInv => ReviewsTypeOK
  BY DEF ReviewInv, ReviewTables, ReviewsTypeOK
<1>2. QED
  BY <1>1, ReviewInvariant, PTL

\* The author of a review has completed a booking, with whatever office, and the one the review
\* names if it names one; a booking has one review, and one request at a time an author has
\* one review of an office that names no booking (createReview); the average and the bars of
\* an office are of the same reviews.
THEOREM ReviewsStand == ReviewsSpec => []ReviewsSound
<1>1. ReviewInv => ReviewsSound
  BY ReviewsAreEarned, StatsAreAlike DEF ReviewsSound
<1>2. QED
  BY <1>1, ReviewInvariant, PTL

-----------------------------------------------------------------------------
(* Chats: the invariant *)

\* What a request on its way has read: a conversation that is there, and the rows it found
\* missing. Between the two inserts of rows and the rest it makes sure of its own row.
TalkRequest(q) ==
  /\ q.at \in {"sync", "ensure"} =>
       /\ q \in [at : {"sync", "ensure"}, who : Accounts, convs : SUBSET Open, add : SUBSET (Open \X Accounts),
                 then : {"open", "send", "mark"}]
       /\ q.then # "open" => \E c \in Open : q.convs = {c}
  /\ q.at = "ensure" => \A c \in q.convs : <<c, q.who>> \in Rows \union q.add
  /\ q.at = "create" => /\ q.who \in Accounts /\ q.booking \in Bookings /\ q.office \in Accounts
                        /\ serial => \A c \in Open : conversation[c] # [booking |-> q.booking, office |-> q.office]
  /\ q.at \in {"send", "mark"} => q.conv \in Open /\ q.who \in Accounts /\ <<q.conv, q.who>> \in Rows
  /\ q.at = "mark" => q.latest \in 0..Len(message) /\ (serial => q.latest = Latest(q.conv))

TalkTables ==
  /\ conversation \in [Convs -> Conversation \union {None}]
  /\ participant \in [Convs \X Accounts -> Mark \union {None}]
  /\ message \in Seq([conv : Convs, sender : Accounts]) /\ Len(message) <= MaxMessages
  /\ \A p \in Rows : p[1] \in Open /\ participant[p].at <= Len(message)

TalkRequests ==
  /\ req = [h \in Handlers |-> req[h]]
  /\ \A h \in Handlers : TalkRequest(req[h])
  /\ serial => \A h, g \in Handlers : req[h] # Idle /\ req[g] # Idle => h = g

TalkFacts == MarksAgree /\ OneConversation /\ SendersTakePart

TalkInv == TalkTables /\ TalkRequests /\ TalkFacts

-----------------------------------------------------------------------------
(* Sockets: the invariant *)

\* A socket is in the tables of its account from the answer of findById until it hangs up; one
\* that was closed before stays. It is in rooms only while it is served and up.
SocketStands(s) ==
  LET k == socket[s] IN
  /\ k.at = "new" => ~k.up /\ socketUsers[s] = None
  /\ k.at = "checking" => socketUsers[s] = None /\ (k.up \/ k.early)
  /\ k.at \in {"listing", "served"} => socketUsers[s] = k.who /\ s \in online[k.who] /\ (k.up \/ k.early)
  /\ k.at = "leaving" => ~k.up /\ socketUsers[s] \in {None, k.who}
  /\ k.at # "new" => k.who \in Accounts
  /\ \A a \in Accounts : s \in online[a] => a = k.who /\ k.at \in {"listing", "served"}
  /\ \A c \in rooms[s] : k.at = "served" /\ k.up /\ <<c, k.who>> \in Rows

PresenceInv ==
  /\ GatewayTypeOK /\ online = userSockets
  /\ \A s \in Sockets : SocketStands(s)

ChatInv == TalkInv /\ PresenceInv

-----------------------------------------------------------------------------
(* Chats: what a step leaves of them *)

\* Conversations, rows and messages are only added.
TalkGrows ==
  /\ TalkTables'
  /\ \A c \in Open : c \in Open' /\ conversation'[c] = conversation[c]
  /\ Rows \subseteq Rows'
  /\ Len(message) <= Len(message)'
  /\ serial' = serial

LEMMA TalkLasts ==
  ASSUME TalkTables, TalkGrows, (serial => UNCHANGED <<conversation, message>>), NEW q, TalkRequest(q)
  PROVE  TalkRequest(q)'
<1>1. Open \subseteq Open'
  BY DEF TalkGrows
<1>2. ASSUME q.at \in {"sync", "ensure"}
      PROVE  /\ q \in [at : {"sync", "ensure"}, who : Accounts, convs : SUBSET Open', add : SUBSET (Open' \X Accounts),
                       then : {"open", "send", "mark"}]
             /\ q.then # "open" => \E c \in Open' : q.convs = {c}
  <2>1. /\ q \in [at : {"sync", "ensure"}, who : Accounts, convs : SUBSET Open, add : SUBSET (Open \X Accounts),
                  then : {"open", "send", "mark"}]
        /\ q.then # "open" => \E c \in Open : q.convs = {c}
    BY <1>2 DEF TalkRequest
  <2>2. SUBSET Open \subseteq SUBSET Open' /\ SUBSET (Open \X Accounts) \subseteq SUBSET (Open' \X Accounts)
    BY <1>1
  <2>3. QED
    BY <1>1, <2>1, <2>2
<1>3. ASSUME q.at = "ensure" PROVE \A c \in q.convs : <<c, q.who>> \in Rows' \union q.add
  BY <1>3 DEF TalkRequest, TalkGrows
<1>4. ASSUME q.at = "create"
      PROVE  /\ q.who \in Accounts /\ q.booking \in Bookings /\ q.office \in Accounts
             /\ serial' => \A c \in Open' : conversation'[c] # [booking |-> q.booking, office |-> q.office]
  BY <1>4 DEF TalkRequest, TalkGrows, Open
<1>5. ASSUME q.at \in {"send", "mark"} PROVE q.conv \in Open' /\ q.who \in Accounts /\ <<q.conv, q.who>> \in Rows'
  BY <1>1, <1>5 DEF TalkRequest, TalkGrows
<1>6. ASSUME q.at = "mark" PROVE q.latest \in 0..Len(message)'
  <2>1. Len(message) \in Nat /\ Len(message)' \in Nat
    BY DEF TalkTables, TalkGrows
  <2>2. q.latest \in 0..Len(message) /\ Len(message) <= Len(message)'
    BY <1>6 DEF TalkRequest, TalkGrows
  <2>3. QED
    BY <2>1, <2>2
<1>7. ASSUME q.at = "mark", serial' PROVE q.latest = Latest(q.conv)'
  BY <1>7 DEF TalkRequest, TalkGrows, Latest
<1>8. QED
  BY <1>2, <1>3, <1>4, <1>5, <1>6, <1>7 DEF TalkRequest

LEMMA IdleTalks == TalkRequest(Idle) /\ Idle.at = "idle"
  BY DEF TalkRequest, Idle

\* A request takes a step, or a new one begins.
LEMMA TalkTurns ==
  ASSUME TalkInv, TalkGrows, NEW h \in Handlers, NEW q, TalkRequest(q)', req' = [req EXCEPT ![h] = q],
         (serial => req[h] # Idle \/ Quiet)
  PROVE  TalkRequests'
<1>1. req' = [g \in Handlers |-> req'[g]] /\ req'[h] = q /\ \A g \in Handlers \ {h} : req'[g] = req[g]
  BY DEF TalkInv, TalkRequests
<1>2. serial => \A g \in Handlers \ {h} : req[g] = Idle
  BY DEF TalkInv, TalkRequests, Quiet
<1>3. ASSUME NEW g \in Handlers PROVE TalkRequest(req[g])'
  <2>1. CASE g = h
    BY <1>1, <2>1 DEF TalkRequest
  <2>2. CASE g # h
    <3>1. PICK p : p = req[g]
      OBVIOUS
    <3>2. TalkRequest(p) /\ req'[g] = p
      BY <1>1, <2>2, <3>1 DEF TalkInv, TalkRequests
    <3>3. CASE ~serial
      <4>1. TalkRequest(p)'
        BY <3>2, <3>3, TalkLasts DEF TalkInv
      <4>2. QED
        BY <3>2, <4>1 DEF TalkRequest
    <3>4. CASE serial
      <4>1. p = Idle
        BY <1>2, <2>2, <3>1, <3>4
      <4>2. TalkRequest(req[g])'
        BY <3>2, <4>1 DEF TalkRequest, Idle
      <4>3. QED
        BY <4>2
    <3>5. QED
      BY <3>3, <3>4
  <2>3. QED
    BY <2>1, <2>2
<1>4. serial' => \A g, k \in Handlers : req'[g] # Idle /\ req'[k] # Idle => g = k
  BY <1>1, <1>2 DEF TalkGrows
<1>5. QED
  BY <1>1, <1>3, <1>4 DEF TalkRequests

LEMMA TalkWaits ==
  ASSUME TalkInv, TalkGrows, UNCHANGED <<conversation, message>>, req' = req PROVE TalkRequests'
<1>1. ASSUME NEW g \in Handlers PROVE TalkRequest(req[g])'
  <2>1. PICK p : p = req[g]
    OBVIOUS
  <2>2. TalkRequest(p) /\ req'[g] = p
    BY <2>1 DEF TalkInv, TalkRequests
  <2>3. TalkRequest(p)'
    BY <2>2, TalkLasts DEF TalkInv
  <2>4. QED
    BY <2>2, <2>3 DEF TalkRequest
<1>2. QED
  BY <1>1 DEF TalkInv, TalkRequests, TalkGrows

LEMMA UnreadIsMark == Unread \in Mark /\ Unread # None /\ Unread.id = 0 /\ Unread.at = 0
<1>1. Unread \in Mark /\ Unread.id = 0 /\ Unread.at = 0
  BY MaxMessagesNat DEF Unread, Mark
<1>2. QED
  BY <1>1, NoneIsNoChatRow

\* Rows of nobody yet are added to conversations that are there.
LEMMA RowsAdded ==
  ASSUME TalkTables, TalkFacts, NEW added, added \subseteq Open \X Accounts, added \intersect Rows = {},
         participant' = WithRows(participant, added), UNCHANGED <<conversation, message, serial>>
  PROVE  TalkGrows /\ TalkFacts' /\ Rows' = Rows \union added
<1>1. Open \subseteq Convs /\ Open' = Open
  BY DEF Open
<1>2. /\ participant' \in [Convs \X Accounts -> Mark \union {None}]
      /\ \A p \in added : participant'[p] = Unread
      /\ \A p \in Convs \X Accounts : p \notin added => participant'[p] = participant[p]
  <2>1. added \subseteq Convs \X Accounts
    BY <1>1
  <2>2. QED
    BY <2>1, UnreadIsMark DEF WithRows, TalkTables
<1>3. Rows' = Rows \union added
  <2>1. added \subseteq Convs \X Accounts
    BY <1>1
  <2>2. \A p \in Convs \X Accounts : participant'[p] # None <=> participant[p] # None \/ p \in added
    BY <1>2, UnreadIsMark
  <2>3. QED
    BY <2>1, <2>2 DEF Rows
<1>4. \A p \in Rows : p \in Convs \X Accounts /\ p \notin added /\ participant'[p] = participant[p]
  BY <1>2 DEF Rows
<1>5. TalkTables'
  <2>1. ASSUME NEW p \in Rows' PROVE p[1] \in Open' /\ participant'[p].at <= Len(message)'
    <3>1. CASE p \in Rows
      BY <1>1, <1>4, <3>1 DEF TalkTables
    <3>2. CASE p \in added
      <4>1. p[1] \in Open'
        BY <1>1, <3>2
      <4>2. participant'[p].at = 0 /\ Len(message)' \in Nat
        BY <1>2, <3>2, UnreadIsMark DEF TalkTables
      <4>3. QED
        BY <4>1, <4>2
    <3>3. QED
      BY <1>3, <3>1, <3>2
  <2>2. QED
    BY <1>2, <2>1 DEF TalkTables
<1>6. TalkGrows
  BY <1>1, <1>3, <1>5 DEF TalkGrows, TalkTables
<1>7. MarksAgree'
  <2> SUFFICES ASSUME serial', NEW p \in Rows', NEW i \in (participant'[p].id + 1)..participant'[p].at
               PROVE  message[i].conv # p[1]
    BY DEF MarksAgree
  <2>1. CASE p \in Rows
    BY <1>4, <2>1 DEF TalkFacts, MarksAgree
  <2>2. CASE p \in added
    <3>1. participant'[p].id = 0 /\ participant'[p].at = 0
      BY <1>2, <2>2, UnreadIsMark
    <3>2. QED
      BY <3>1
  <2>3. QED
    BY <1>3, <2>1, <2>2
<1>8. OneConversation'
  BY <1>1 DEF TalkFacts, OneConversation
<1>9. SendersTakePart'
  BY <1>1, <1>3 DEF TalkFacts, SendersTakePart, User, OfficeIn, Customer
<1>10. QED
  BY <1>3, <1>6, <1>7, <1>8, <1>9 DEF TalkFacts

LEMMA RowsUntouched ==
  ASSUME TalkTables, TalkFacts, UNCHANGED <<conversation, participant, message, serial>> PROVE TalkGrows /\ TalkFacts'
<1>1. Open' = Open /\ Rows' = Rows
  BY DEF Open, Rows
<1>2. TalkTables'
  BY <1>1 DEF TalkTables
<1>3. TalkGrows
  BY <1>1, <1>2 DEF TalkGrows, TalkTables
<1>4. MarksAgree' /\ OneConversation'
  BY <1>1 DEF TalkFacts, MarksAgree, OneConversation
<1>5. SendersTakePart'
  BY <1>1 DEF TalkFacts, SendersTakePart, User, OfficeIn, Customer
<1>6. QED
  BY <1>3, <1>4, <1>5 DEF TalkFacts

-----------------------------------------------------------------------------
(* Chats: every request *)

LEMMA TalkBegins ==
  ASSUME TalkInv, NEW h \in Handlers, NEW q, TalkRequest(q), Begin(h, q), UNCHANGED chatVars PROVE TalkInv'
<1>1. req' = [req EXCEPT ![h] = q] /\ serial' = serial /\ (serial => Quiet)
  BY DEF Begin
<1>2. TalkGrows /\ TalkFacts'
  BY <1>1, RowsUntouched DEF TalkInv, chatVars
<1>3. TalkRequest(q)'
  BY TalkLasts, <1>2 DEF TalkInv, chatVars
<1>4. TalkRequests'
  BY <1>1, <1>2, <1>3, TalkTurns
<1>5. QED
  BY <1>2, <1>4 DEF TalkInv, TalkGrows

LEMMA EnterKeeps ==
  ASSUME TalkInv, NEW h \in Handlers, NEW a \in Accounts, NEW cs, cs \subseteq Open, NEW then \in {"open", "send", "mark"},
         (then # "open" => \E c \in Open : cs = {c}), Enter(h, a, cs, then)
  PROVE  TalkInv'
<1>1. PICK add : add = MissingTeam(cs)
  OBVIOUS
<1>2. add \subseteq Open \X Accounts
  BY <1>1 DEF MissingTeam
<1>3. Begin(h, [at |-> "sync", who |-> a, convs |-> cs, add |-> add, then |-> then]) /\ UNCHANGED chatVars
  BY <1>1 DEF Enter
<1>4. TalkRequest([at |-> "sync", who |-> a, convs |-> cs, add |-> add, then |-> then])
  BY <1>2 DEF TalkRequest
<1>5. QED
  BY <1>3, <1>4, TalkBegins

LEMMA UseKeeps ==
  ASSUME TalkInv, NEW h \in Handlers, NEW a \in Accounts, NEW c, NEW then \in {"open", "send", "mark"},
         UseConversation(h, a, c, then)
  PROVE  TalkInv'
<1>1. c \in Open /\ Enter(h, a, {c}, then)
  BY DEF UseConversation, Access
<1>2. QED
  BY <1>1, EnterKeeps

LEMMA ListKeeps ==
  ASSUME TalkInv, NEW h \in Handlers, NEW a \in Accounts, ListConversations(h, a) PROVE TalkInv'
<1>1. Listed(a) \subseteq Open
  BY DEF Listed
<1>2. Enter(h, a, Listed(a), "open")
  BY DEF ListConversations
<1>3. QED
  BY <1>1, <1>2, EnterKeeps

LEMMA CreateConversationKeeps ==
  ASSUME TalkInv, NEW h \in Handlers, NEW a \in Accounts, NEW b \in Bookings, NEW o \in Accounts,
         CreateConversation(h, a, b, o)
  PROVE  TalkInv'
<1>1. PICK existing : existing = {c \in Open : conversation[c] = [booking |-> b, office |-> o]}
  OBVIOUS
<1>2. \/ \E c \in existing : Enter(h, a, {c}, "open")
      \/ /\ existing = {} /\ UNCHANGED chatVars
         /\ Begin(h, [at |-> "create", who |-> a, booking |-> b, office |-> o])
  BY <1>1 DEF CreateConversation
<1>3. CASE \E c \in existing : Enter(h, a, {c}, "open")
  BY <1>1, <1>3, EnterKeeps
<1>4. CASE /\ existing = {} /\ UNCHANGED chatVars
           /\ Begin(h, [at |-> "create", who |-> a, booking |-> b, office |-> o])
  <2>1. TalkRequest([at |-> "create", who |-> a, booking |-> b, office |-> o])
    BY <1>1, <1>4 DEF TalkRequest
  <2>2. QED
    BY <1>4, <2>1, TalkBegins
<1>5. QED
  BY <1>2, <1>3, <1>4

\* A step of a request on its way that leaves the conversations and messages as they are
LEMMA TalkGoes ==
  ASSUME TalkInv, TalkGrows, TalkFacts', UNCHANGED <<conversation, message>>, NEW h \in Handlers, req[h] # Idle,
         NEW q, Goto(h, q), TalkRequest(q)'
  PROVE  TalkInv'
<1>1. TalkRequests'
  BY TalkTurns DEF Goto
<1>2. QED
  BY <1>1 DEF TalkInv, TalkGrows

LEMMA IdleTalksOn == TalkRequest(Idle)'
  BY DEF TalkRequest, Idle

LEMMA AddTeamKeeps ==
  ASSUME TalkInv, NEW h \in Handlers, AddTeam(h) PROVE TalkInv'
<1>1. PICK q : q = req[h]
  OBVIOUS
<1>2. TalkRequest(q) /\ q.at = "sync" /\ req[h] # Idle /\ UNCHANGED <<conversation, message, serial>>
  BY <1>1 DEF TalkInv, TalkRequests, AddTeam, At, Idle, Done, Goto
<1>3. CASE q.add \intersect Rows # {}
  <2>1. Goto(h, Idle) /\ UNCHANGED participant
    BY <1>1, <1>3 DEF AddTeam, Done
  <2>2. TalkGrows /\ TalkFacts'
    BY <1>2, <2>1, RowsUntouched DEF TalkInv
  <2>3. QED
    BY <1>2, <2>1, <2>2, IdleTalksOn, TalkGoes
<1>4. CASE q.add \intersect Rows = {}
  <2>1. PICK add : add = {<<c, q.who>> : c \in q.convs} \ (Rows \union q.add)
    OBVIOUS
  <2>2. PICK r : r = [q EXCEPT !.at = "ensure", !.add = add]
    OBVIOUS
  <2>3. participant' = WithRows(participant, q.add) /\ Goto(h, r)
    BY <1>1, <1>4, <2>1, <2>2 DEF AddTeam
  <2>4. /\ q.who \in Accounts /\ q.convs \subseteq Open /\ q.add \subseteq Open \X Accounts
        /\ q.then \in {"open", "send", "mark"}
        /\ q.then # "open" => \E c \in Open : q.convs = {c}
    BY <1>2 DEF TalkRequest
  <2>5. TalkGrows /\ TalkFacts' /\ Rows' = Rows \union q.add
    BY <1>2, <1>4, <2>3, <2>4, RowsAdded DEF TalkInv
  <2>6. Open' = Open
    BY <1>2 DEF Open
  <2>7. TalkRequest(r)'
    <3>1. add \subseteq Open \X Accounts
      BY <2>1, <2>4
    <3>2. \A c \in q.convs : <<c, q.who>> \in Rows' \union add
      BY <2>1, <2>5
    <3>3. r = [at |-> "ensure", who |-> q.who, convs |-> q.convs, add |-> add, then |-> q.then]
      BY <1>2, <2>2 DEF TalkRequest
    <3>4. QED
      BY <2>4, <2>6, <3>1, <3>2, <3>3 DEF TalkRequest
  <2>8. QED
    BY <1>2, <2>3, <2>5, <2>7, TalkGoes
<1>5. QED
  BY <1>3, <1>4

\* A set of numbers with a bound has a largest and a smallest one.
LEMMA BoundedMax ==
  ASSUME NEW n \in Nat, NEW S, S \subseteq 0..n, S # {} PROVE Max(S) \in S /\ \A x \in S : x <= Max(S)
<1> DEFINE B == {x..n : x \in S}
<1>1. PICK D : D = 0..n
  OBVIOUS
<1>2. IsFiniteSet(D)
  <2>1. 0 \in Int /\ n \in Int
    OBVIOUS
  <2>2. QED
    BY <1>1, <2>1, FS_Interval
<1>3. PICK T \in B : \A U \in B : U \subseteq T => U = T
  <2>1. ASSUME NEW x \in S PROVE x..n \subseteq D
    BY <1>1
  <2>2. B \subseteq SUBSET D /\ B # {}
    BY <2>1
  <2> HIDE DEF B
  <2>3. QED
    BY <1>2, <2>2, SmallestSubset
<1>4. PICK m \in S : T = m..n
  OBVIOUS
<1>5. ASSUME NEW x \in S PROVE x <= m
  <2>1. x \in 0..n /\ m \in 0..n
    OBVIOUS
  <2>2. SUFFICES ASSUME m < x PROVE FALSE
    BY <2>1
  <2>3. x..n \subseteq m..n /\ m \in m..n /\ m \notin x..n
    BY <2>1, <2>2
  <2>4. QED
    BY <1>3, <1>4, <2>3
<1>6. QED
  BY <1>5 DEF Max

LEMMA BoundedMin ==
  ASSUME NEW n \in Nat, NEW S, S \subseteq 0..n, S # {} PROVE Min(S) \in S /\ \A x \in S : Min(S) <= x
<1> DEFINE B == {0..x : x \in S}
<1>1. PICK D : D = 0..n
  OBVIOUS
<1>2. IsFiniteSet(D)
  <2>1. 0 \in Int /\ n \in Int
    OBVIOUS
  <2>2. QED
    BY <1>1, <2>1, FS_Interval
<1>3. PICK T \in B : \A U \in B : U \subseteq T => U = T
  <2>1. ASSUME NEW x \in S PROVE 0..x \subseteq D
    BY <1>1
  <2>2. B \subseteq SUBSET D /\ B # {}
    BY <2>1
  <2> HIDE DEF B
  <2>3. QED
    BY <1>2, <2>2, SmallestSubset
<1>4. PICK m \in S : T = 0..m
  OBVIOUS
<1>5. ASSUME NEW x \in S PROVE m <= x
  <2>1. x \in 0..n /\ m \in 0..n
    OBVIOUS
  <2>2. SUFFICES ASSUME x < m PROVE FALSE
    BY <2>1
  <2>3. 0..x \subseteq 0..m /\ m \in 0..m /\ m \notin 0..x
    BY <2>1, <2>2
  <2>4. QED
    BY <1>3, <1>4, <2>3
<1>6. QED
  BY <1>5 DEF Min

LEMMA LatestIsLast ==
  ASSUME TalkTables, NEW c
  PROVE  /\ Latest(c) \in 0..Len(message)
         /\ \A i \in 1..Len(message) : message[i].conv = c => i <= Latest(c)
<1> DEFINE S == {0} \union {i \in 1..Len(message) : message[i].conv = c}
<1>1. Len(message) \in Nat
  BY DEF TalkTables
<1>2. S \subseteq 0..Len(message) /\ S # {} /\ Latest(c) = Max(S)
  BY <1>1 DEF Latest
<1>3. Max(S) \in S /\ \A x \in S : x <= Max(S)
  <2> HIDE DEF S
  <2>1. QED
    BY <1>1, <1>2, BoundedMax
<1>4. QED
  BY <1>2, <1>3

LEMMA AddSelfKeeps ==
  ASSUME TalkInv, NEW h \in Handlers, AddSelf(h) PROVE TalkInv'
<1>1. PICK q : q = req[h]
  OBVIOUS
<1>2. TalkRequest(q) /\ q.at = "ensure" /\ req[h] # Idle /\ UNCHANGED <<conversation, message, serial>>
  BY <1>1 DEF TalkInv, TalkRequests, AddSelf, At, Idle, Done, Goto
<1>3. /\ q.who \in Accounts /\ q.convs \subseteq Open /\ q.add \subseteq Open \X Accounts
      /\ q.then \in {"open", "send", "mark"}
      /\ q.then # "open" => \E c \in Open : q.convs = {c}
      /\ \A c \in q.convs : <<c, q.who>> \in Rows \union q.add
  BY <1>2 DEF TalkRequest
<1>4. PICK c : c = CHOOSE x \in q.convs : TRUE
  OBVIOUS
<1>5. PICK latest : latest = Latest(c)
  OBVIOUS
<1>6. TalkGrows /\ TalkFacts' /\ (q.add \intersect Rows = {} => Rows' = Rows \union q.add)
  <2>1. CASE q.add \intersect Rows # {}
    <3>1. UNCHANGED participant
      BY <1>1, <2>1 DEF AddSelf
    <3>2. QED
      BY <1>2, <2>1, <3>1, RowsUntouched DEF TalkInv
  <2>2. CASE q.add \intersect Rows = {}
    <3>1. participant' = WithRows(participant, q.add)
      BY <1>1, <2>2 DEF AddSelf
    <3>2. QED
      BY <1>2, <1>3, <2>2, <3>1, RowsAdded DEF TalkInv
  <2>3. QED
    BY <2>1, <2>2
<1>7. \/ Goto(h, Idle)
      \/ /\ q.add \intersect Rows = {} /\ q.then # "open"
         /\ Goto(h, [at |-> q.then, who |-> q.who, conv |-> c, latest |-> latest])
  BY <1>1, <1>4, <1>5 DEF AddSelf, Done
<1>8. CASE Goto(h, Idle)
  BY <1>2, <1>6, <1>8, IdleTalksOn, TalkGoes
<1>9. CASE /\ q.add \intersect Rows = {} /\ q.then # "open"
           /\ Goto(h, [at |-> q.then, who |-> q.who, conv |-> c, latest |-> latest])
  <2>1. PICK r : r = [at |-> q.then, who |-> q.who, conv |-> c, latest |-> latest]
    OBVIOUS
  <2>2. r.at \in {"send", "mark"} /\ r.who = q.who /\ r.conv = c /\ r.latest = latest
    BY <1>3, <1>9, <2>1
  <2>3. c \in Open /\ c \in q.convs
    BY <1>3, <1>4, <1>9
  <2>4. Open' = Open /\ Latest(c)' = latest /\ latest \in 0..Len(message)'
    BY <1>2, <1>5, LatestIsLast DEF Open, Latest, TalkInv
  <2>5. <<c, q.who>> \in Rows'
    BY <1>3, <1>6, <1>9, <2>3
  <2>6. TalkRequest(r)'
    BY <1>3, <2>2, <2>3, <2>4, <2>5 DEF TalkRequest
  <2>7. Goto(h, r)
    BY <1>9, <2>1
  <2>8. QED
    BY <1>2, <1>6, <2>6, <2>7, TalkGoes
<1>10. QED
  BY <1>7, <1>8, <1>9

LEMMA MarkAsReadKeeps ==
  ASSUME TalkInv, NEW h \in Handlers, MarkAsRead(h) PROVE TalkInv'
<1>1. PICK q : q = req[h]
  OBVIOUS
<1>2. TalkRequest(q) /\ q.at = "mark" /\ req[h] # Idle /\ Goto(h, Idle) /\ UNCHANGED <<conversation, message, serial>>
  BY <1>1 DEF TalkInv, TalkRequests, MarkAsRead, At, Idle, Done, Goto
<1>3. /\ q.conv \in Open /\ q.who \in Accounts /\ <<q.conv, q.who>> \in Rows
      /\ q.latest \in 0..Len(message) /\ (serial => q.latest = Latest(q.conv))
  BY <1>2 DEF TalkRequest
<1>4. PICK row : row = <<q.conv, q.who>>
  OBVIOUS
<1>5. PICK m : m = [id |-> q.latest, at |-> Len(message)]
  OBVIOUS
<1>6. m.id = q.latest /\ m.at = Len(message) /\ m \in Mark /\ m # None
  <2>1. Len(message) \in Nat /\ Len(message) <= MaxMessages
    BY DEF TalkInv, TalkTables
  <2>2. m \in Mark
    BY <1>3, <1>5, <2>1, MaxMessagesNat DEF Mark
  <2>3. QED
    BY <1>5, <2>2, NoneIsNoChatRow
<1>7. participant' = [participant EXCEPT ![row] = m]
  BY <1>1, <1>4, <1>5 DEF MarkAsRead
<1>8. row \in Rows /\ row \in Convs \X Accounts /\ row[1] = q.conv
  BY <1>3, <1>4 DEF Rows
<1>9. /\ participant' \in [Convs \X Accounts -> Mark \union {None}] /\ participant'[row] = m
      /\ \A p \in Rows \ {row} : participant'[p] = participant[p]
  BY <1>6, <1>7, <1>8 DEF TalkInv, TalkTables, Rows
<1>10. Rows' = Rows
  <2>1. \A p \in Convs \X Accounts : participant'[p] = IF p = row THEN m ELSE participant[p]
    BY <1>7, <1>8 DEF TalkInv, TalkTables
  <2>2. \A p \in Convs \X Accounts : participant'[p] # None <=> participant[p] # None
    BY <1>6, <1>8, <2>1 DEF Rows
  <2>3. QED
    BY <2>2 DEF Rows
<1>11. Open' = Open
  BY <1>2 DEF Open
<1>12. TalkTables'
  <2>1. ASSUME NEW p \in Rows' PROVE p[1] \in Open' /\ participant'[p].at <= Len(message)'
    <3>1. CASE p = row
      <4>1. Len(message) \in Nat
        BY DEF TalkInv, TalkTables
      <4>2. QED
        BY <1>2, <1>3, <1>6, <1>8, <1>9, <1>11, <3>1, <4>1
    <3>2. CASE p # row
      BY <1>2, <1>9, <1>10, <1>11, <3>2 DEF TalkInv, TalkTables
    <3>3. QED
      BY <3>1, <3>2
  <2>2. QED
    BY <1>2, <1>9, <2>1 DEF TalkInv, TalkTables
<1>13. TalkGrows
  BY <1>2, <1>10, <1>11, <1>12 DEF TalkGrows, TalkInv, TalkTables
<1>14. MarksAgree'
  <2> SUFFICES ASSUME serial', NEW p \in Rows', NEW i \in (participant'[p].id + 1)..participant'[p].at
               PROVE  message[i].conv # p[1]
    BY <1>2 DEF MarksAgree
  <2>1. CASE p = row
    <3>1. participant'[p] = m /\ p[1] = q.conv
      BY <1>8, <1>9, <2>1
    <3>2. q.latest \in Nat /\ Len(message) \in Nat
      BY <1>3 DEF TalkInv, TalkTables
    <3>3. i \in (q.latest + 1)..Len(message)
      BY <1>6, <3>1
    <3>4. i \in 1..Len(message) /\ ~(i <= q.latest)
      BY <3>2, <3>3
    <3>5. q.latest = Latest(q.conv)
      BY <1>2, <1>3
    <3>6. QED
      BY <3>1, <3>4, <3>5, LatestIsLast DEF TalkInv
  <2>2. CASE p # row
    BY <1>2, <1>9, <1>10, <2>2 DEF TalkInv, TalkFacts, MarksAgree
  <2>3. QED
    BY <2>1, <2>2
<1>15. OneConversation' /\ SendersTakePart'
  <2>1. OneConversation'
    BY <1>2, <1>11 DEF TalkInv, TalkFacts, OneConversation
  <2>2. SendersTakePart'
    BY <1>2, <1>10, <1>11 DEF TalkInv, TalkFacts, SendersTakePart, User, OfficeIn, Customer
  <2>3. QED
    BY <2>1, <2>2
<1>16. TalkFacts'
  BY <1>14, <1>15 DEF TalkFacts
<1>17. QED
  BY <1>2, <1>13, <1>16, IdleTalksOn, TalkGoes

LEMMA SendKeeps ==
  ASSUME TalkInv, NEW h \in Handlers, SendMessage(h) PROVE TalkInv'
<1>1. PICK q : q = req[h]
  OBVIOUS
<1>2. /\ TalkRequest(q) /\ q.at = "send" /\ req[h] # Idle /\ req' = [req EXCEPT ![h] = Idle]
      /\ UNCHANGED <<conversation, participant, serial>>
  BY <1>1 DEF TalkInv, TalkRequests, SendMessage, At, Idle, Done, Goto
<1>3. q.conv \in Open /\ q.who \in Accounts /\ <<q.conv, q.who>> \in Rows
  BY <1>2 DEF TalkRequest
<1>4. PICK m : m = [conv |-> q.conv, sender |-> q.who]
  OBVIOUS
<1>5. m \in [conv : Convs, sender : Accounts] /\ m.conv = q.conv /\ m.sender = q.who
  BY <1>3, <1>4 DEF Open
<1>6. message' = Append(message, m) /\ Len(message) < MaxMessages
  BY <1>1, <1>4 DEF SendMessage
<1>7. /\ message' \in Seq([conv : Convs, sender : Accounts]) /\ Len(message') = Len(message) + 1
      /\ \A i \in 1..Len(message) : message'[i] = message[i]
      /\ message'[Len(message) + 1] = m
  BY <1>5, <1>6 DEF TalkInv, TalkTables
<1>8. Open' = Open /\ Rows' = Rows /\ Len(message) \in Nat
  BY <1>2 DEF Open, Rows, TalkInv, TalkTables
<1>9. Len(message') <= MaxMessages
  BY <1>6, <1>7, <1>8, MaxMessagesNat
<1>10. TalkTables'
  <2>1. ASSUME NEW p \in Rows PROVE p[1] \in Open /\ participant[p].at <= Len(message) + 1
    <3>1. p[1] \in Open /\ participant[p].at <= Len(message) /\ participant[p] \in Mark
      BY DEF TalkInv, TalkTables, Rows
    <3>2. participant[p].at \in Int
      BY <3>1 DEF Mark
    <3>3. QED
      BY <1>8, <3>1, <3>2
  <2>2. \A p \in Rows' : p[1] \in Open' /\ participant'[p].at <= Len(message')
    BY <1>2, <1>7, <1>8, <2>1
  <2>3. QED
    BY <1>2, <1>7, <1>9, <2>2 DEF TalkInv, TalkTables
<1>11. TalkGrows
  BY <1>2, <1>7, <1>8, <1>10 DEF TalkGrows
<1>12. TalkRequests'
  BY <1>2, <1>11, IdleTalksOn, TalkTurns
<1>13. MarksAgree'
  <2> SUFFICES ASSUME serial', NEW p \in Rows', NEW i \in (participant'[p].id + 1)..participant'[p].at
               PROVE  message'[i].conv # p[1]
    BY DEF MarksAgree
  <2>1. participant[p] \in Mark /\ participant[p].at <= Len(message) /\ p \in Rows
    BY <1>8 DEF TalkInv, TalkTables, Rows
  <2>2. participant[p].id \in Nat /\ participant[p].at \in Nat
    BY <2>1, MaxMessagesNat DEF Mark
  <2>3. i \in (participant[p].id + 1)..participant[p].at
    BY <1>2
  <2>4. i \in 1..Len(message)
    BY <1>8, <2>1, <2>2, <2>3
  <2>5. QED
    BY <1>2, <1>7, <2>1, <2>3, <2>4 DEF TalkInv, TalkFacts, MarksAgree
<1>14. OneConversation'
  BY <1>2, <1>8 DEF TalkInv, TalkFacts, OneConversation
<1>15. SendersTakePart'
  <2>1. ASSUME NEW i \in 1..Len(message') PROVE <<message'[i].conv, message'[i].sender>> \in Rows'
    <3>1. CASE i = Len(message) + 1
      BY <1>3, <1>5, <1>7, <1>8, <3>1
    <3>2. CASE i # Len(message) + 1
      <4>1. i \in 1..Len(message)
        BY <1>7, <1>8, <3>2
      <4>2. QED
        BY <1>7, <1>8, <4>1 DEF TalkInv, TalkFacts, SendersTakePart
    <3>3. QED
      BY <3>1, <3>2
  <2>2. \A c \in Open' : {<<c, User(c)'>>, <<c, OfficeIn(c)'>>} \subseteq Rows'
    BY <1>2, <1>8 DEF TalkInv, TalkFacts, SendersTakePart, User, OfficeIn, Customer
  <2>3. QED
    BY <2>1, <2>2 DEF SendersTakePart
<1>16. TalkFacts'
  BY <1>13, <1>14, <1>15 DEF TalkFacts
<1>17. QED
  BY <1>10, <1>12, <1>16 DEF TalkInv

LEMMA InsertKeeps ==
  ASSUME TalkInv, NEW h \in Handlers, InsertConversation(h) PROVE TalkInv'
<1>1. PICK q : q = req[h]
  OBVIOUS
<1>2. TalkRequest(q) /\ q.at = "create" /\ req[h] # Idle /\ UNCHANGED <<message, serial>>
  BY <1>1 DEF TalkInv, TalkRequests, InsertConversation, At, Idle, Goto
<1>3. /\ q.who \in Accounts /\ q.booking \in Bookings /\ q.office \in Accounts
      /\ serial => \A c \in Open : conversation[c] # [booking |-> q.booking, office |-> q.office]
  BY <1>2 DEF TalkRequest
<1>4. PICK new : new = CHOOSE x \in Convs : x \notin Open
  OBVIOUS
<1>5. PICK row : row = [booking |-> q.booking, office |-> q.office]
  OBVIOUS
<1>6. PICK team : team = {Customer(q.booking)} \union Team(q.office)
  OBVIOUS
<1>7. PICK r : r = [at |-> "ensure", who |-> q.who, convs |-> {new},
                    add |-> {<<new, q.who>>} \ {<<new, a>> : a \in team}, then |-> "open"]
  OBVIOUS
<1>8. /\ Open # Convs /\ conversation' = [conversation EXCEPT ![new] = row]
      /\ participant' = WithRows(participant, {new} \X team)
      /\ req' = [req EXCEPT ![h] = r]
  BY <1>1, <1>4, <1>5, <1>6, <1>7 DEF InsertConversation, Goto
<1>9. new \in Convs /\ new \notin Open
  BY <1>4, <1>8 DEF Open
<1>10. row \in Conversation /\ row # None /\ row.booking = q.booking /\ row.office = q.office
  <2>1. row \in Conversation
    BY <1>3, <1>5 DEF Conversation
  <2>2. QED
    BY <1>5, <2>1, NoneIsNoChatRow
<1>11. Customer(q.booking) \in Accounts
  BY <1>3 DEF Bookings, Customer
<1>12. Customer(q.booking) \in team /\ q.office \in team
  BY <1>6 DEF Team
<1>13. /\ conversation' \in [Convs -> Conversation \union {None}] /\ conversation'[new] = row
       /\ \A c \in Convs \ {new} : conversation'[c] = conversation[c]
  BY <1>8, <1>9, <1>10 DEF TalkInv, TalkTables
<1>14. Open' = Open \union {new} /\ \A c \in Open : c # new /\ c \in Convs
  BY <1>9, <1>10, <1>13 DEF Open
<1>15. /\ participant' \in [Convs \X Accounts -> Mark \union {None}]
       /\ \A a \in Accounts : participant'[<<new, a>>] = IF a \in team THEN Unread ELSE participant[<<new, a>>]
       /\ \A p \in Convs \X Accounts : p[1] # new => participant'[p] = participant[p]
  <2>1. participant' = [p \in Convs \X Accounts |-> IF p \in {new} \X team THEN Unread ELSE participant[p]]
    BY <1>8 DEF WithRows
  <2>2. participant' \in [Convs \X Accounts -> Mark \union {None}]
    BY <2>1, UnreadIsMark DEF TalkInv, TalkTables
  <2>3. \A p \in Convs \X Accounts : p[1] # new => p \notin {new} \X team
    OBVIOUS
  <2>4. \A a \in Accounts : <<new, a>> \in {new} \X team <=> a \in team
    OBVIOUS
  <2>5. \A a \in Accounts : <<new, a>> \in Convs \X Accounts
    BY <1>9
  <2>6. QED
    BY <2>1, <2>2, <2>3, <2>4, <2>5
<1>16. \A p \in Rows : p \in Convs \X Accounts /\ p[1] # new
  BY <1>9 DEF Rows, TalkInv, TalkTables
<1>17. Rows' = Rows \union {<<new, a>> : a \in team \intersect Accounts}
  <2>1. ASSUME NEW p \in Rows' PROVE p \in Rows \union {<<new, a>> : a \in team \intersect Accounts}
    <3>1. p \in Convs \X Accounts /\ participant'[p] # None
      BY DEF Rows
    <3>2. CASE p[1] # new
      BY <1>15, <3>1, <3>2 DEF Rows
    <3>3. CASE p[1] = new
      <4>1. PICK a \in Accounts : p = <<new, a>>
        BY <3>1, <3>3
      <4>2. participant[p] = None
        BY <1>16, <3>1, <3>3 DEF Rows
      <4>3. a \in team
        BY <1>15, <3>1, <4>1, <4>2
      <4>4. QED
        BY <4>1, <4>3
    <3>4. QED
      BY <3>2, <3>3
  <2>2. ASSUME NEW p \in Rows PROVE p \in Rows'
    BY <1>15, <1>16 DEF Rows
  <2>3. ASSUME NEW a \in team \intersect Accounts PROVE <<new, a>> \in Rows'
    BY <1>9, <1>15, UnreadIsMark DEF Rows
  <2>4. QED
    BY <2>1, <2>2, <2>3
<1>18. ASSUME NEW p \in Rows', p \notin Rows PROVE p[1] = new /\ participant'[p] = Unread
  BY <1>15, <1>17, <1>18
<1>19. \A p \in Rows : participant'[p] = participant[p]
  BY <1>15, <1>16
<1>20. TalkTables'
  <2>1. ASSUME NEW p \in Rows' PROVE p[1] \in Open' /\ participant'[p].at <= Len(message)'
    <3>1. CASE p \in Rows
      BY <1>2, <1>14, <1>19, <3>1 DEF TalkInv, TalkTables
    <3>2. CASE p \notin Rows
      <4>1. Len(message)' \in Nat
        BY <1>2 DEF TalkInv, TalkTables
      <4>2. QED
        BY <1>14, <1>18, <3>2, <4>1, UnreadIsMark
    <3>3. QED
      BY <3>1, <3>2
  <2>2. QED
    BY <1>2, <1>13, <1>15, <2>1 DEF TalkInv, TalkTables
<1>21. TalkGrows
  <2>1. Rows \subseteq Rows'
    BY <1>17
  <2>2. Len(message) <= Len(message)'
    BY <1>2 DEF TalkInv, TalkTables
  <2>3. QED
    BY <1>2, <1>13, <1>14, <1>20, <2>1, <2>2 DEF TalkGrows
<1>22. TalkRequest(r)'
  <2>1. PICK add : add = {<<new, q.who>>} \ {<<new, a>> : a \in team}
    OBVIOUS
  <2>2. add \subseteq Open' \X Accounts /\ {new} \subseteq Open'
    BY <1>3, <1>14, <2>1
  <2>3. r = [at |-> "ensure", who |-> q.who, convs |-> {new}, add |-> add, then |-> "open"]
    BY <1>7, <2>1
  <2>4. <<new, q.who>> \in Rows' \union add
    BY <1>3, <1>17, <2>1
  <2>5. r \in [at : {"sync", "ensure"}, who : Accounts, convs : SUBSET Open', add : SUBSET (Open' \X Accounts),
               then : {"open", "send", "mark"}]
    BY <1>3, <2>2, <2>3
  <2>6. r.at = "ensure" /\ r.then = "open" /\ r.convs = {new} /\ r.who = q.who /\ r.add = add
    BY <2>3
  <2>7. \A c \in r.convs : <<c, r.who>> \in Rows' \union r.add
    BY <2>4, <2>6
  <2>8. QED
    BY <2>5, <2>6, <2>7 DEF TalkRequest
<1>23. TalkRequests'
  BY <1>2, <1>8, <1>21, <1>22, TalkTurns
<1>24. MarksAgree'
  <2> SUFFICES ASSUME serial', NEW p \in Rows', NEW i \in (participant'[p].id + 1)..participant'[p].at
               PROVE  message[i].conv # p[1]
    BY <1>2 DEF MarksAgree
  <2>1. CASE p \in Rows
    BY <1>2, <1>19, <2>1 DEF TalkInv, TalkFacts, MarksAgree
  <2>2. CASE p \notin Rows
    BY <1>18, <2>2, UnreadIsMark
  <2>3. QED
    BY <2>1, <2>2
<1>25. OneConversation'
  <2> SUFFICES ASSUME serial', NEW c \in Open', NEW d \in Open', conversation'[c] = conversation'[d] PROVE c = d
    BY DEF OneConversation
  <2>1. CASE c # new /\ d # new
    BY <1>2, <1>13, <1>14, <2>1 DEF TalkInv, TalkFacts, OneConversation, Open
  <2>2. CASE c = new /\ d # new
    BY <1>2, <1>3, <1>5, <1>13, <1>14, <2>2 DEF Open
  <2>3. CASE c # new /\ d = new
    BY <1>2, <1>3, <1>5, <1>13, <1>14, <2>3 DEF Open
  <2>4. QED
    BY <2>1, <2>2, <2>3
<1>26. SendersTakePart'
  <2>1. \A i \in 1..Len(message)' : <<message'[i].conv, message'[i].sender>> \in Rows'
    BY <1>2, <1>17 DEF TalkInv, TalkFacts, SendersTakePart
  <2>2. ASSUME NEW c \in Open' PROVE {<<c, User(c)'>>, <<c, OfficeIn(c)'>>} \subseteq Rows'
    <3>1. CASE c = new
      <4>1. User(c)' = Customer(q.booking) /\ OfficeIn(c)' = q.office
        BY <1>10, <1>13, <3>1 DEF User, OfficeIn, Customer
      <4>2. QED
        BY <1>3, <1>11, <1>12, <1>17, <3>1, <4>1
    <3>2. CASE c # new
      <4>1. c \in Open /\ conversation'[c] = conversation[c]
        BY <1>13, <1>14, <3>2
      <4>2. User(c)' = User(c) /\ OfficeIn(c)' = OfficeIn(c)
        BY <4>1 DEF User, OfficeIn, Customer
      <4>3. QED
        BY <1>17, <4>1, <4>2 DEF TalkInv, TalkFacts, SendersTakePart
    <3>3. QED
      BY <3>1, <3>2
  <2>3. QED
    BY <2>1, <2>2 DEF SendersTakePart
<1>27. QED
  BY <1>20, <1>23, <1>24, <1>25, <1>26 DEF TalkInv, TalkFacts

LEMMA TalkSits ==
  ASSUME TalkInv, TalkGrows, TalkFacts', UNCHANGED <<conversation, message>>, UNCHANGED reqVars PROVE TalkInv'
<1>1. TalkRequests'
  BY TalkWaits DEF reqVars
<1>2. QED
  BY <1>1 DEF TalkInv, TalkGrows

LEMMA ListRowsKeeps ==
  ASSUME TalkInv, NEW a \in Accounts, ListRows(a), UNCHANGED <<conversation, message>>, UNCHANGED reqVars
  PROVE  TalkInv' /\ Rows \subseteq Rows' /\ \A c \in Listed(a) : <<c, a>> \in Rows'
<1>1. PICK added : added = MissingTeam(Listed(a)) \union ({<<c, a>> : c \in Listed(a)} \ Rows)
  OBVIOUS
<1>2. participant' = WithRows(participant, added)
  BY <1>1 DEF ListRows
<1>3. Listed(a) \subseteq Open
  BY DEF Listed
<1>4. added \subseteq Open \X Accounts /\ added \intersect Rows = {}
  BY <1>1, <1>3 DEF MissingTeam
<1>5. serial' = serial
  BY DEF reqVars
<1>6. TalkGrows /\ TalkFacts' /\ Rows' = Rows \union added
  BY <1>2, <1>4, <1>5, RowsAdded DEF TalkInv
<1>7. TalkInv'
  BY <1>6, TalkSits
<1>8. QED
  BY <1>1, <1>6, <1>7

LEMMA TalkStays ==
  ASSUME TalkInv, UNCHANGED <<conversation, participant, message>>, UNCHANGED reqVars PROVE TalkInv' /\ Rows' = Rows
<1>1. serial' = serial
  BY DEF reqVars
<1>2. TalkGrows /\ TalkFacts'
  BY <1>1, RowsUntouched DEF TalkInv
<1>3. QED
  BY <1>2, TalkSits DEF Rows

LEMMA TalkDrops ==
  ASSUME TalkInv, NEW h \in Handlers, Drop(h), UNCHANGED chatVars PROVE TalkInv'
<1>1. req[h] # Idle /\ req' = [req EXCEPT ![h] = Idle] /\ serial' = serial
  BY DEF Drop
<1>2. TalkGrows /\ TalkFacts'
  BY <1>1, RowsUntouched DEF TalkInv, chatVars
<1>3. TalkRequests'
  BY <1>1, <1>2, IdleTalksOn, TalkTurns
<1>4. QED
  BY <1>2, <1>3 DEF TalkInv, TalkGrows

LEMMA TalkStarts ==
  ASSUME ChatInit, NEW oneAtATime, RequestsInit(oneAtATime) PROVE TalkInv
<1>1. Open = {} /\ Rows = {}
  BY DEF ChatInit, Open, Rows
<1>2. message = << >> /\ Len(message) = 0 /\ message \in Seq([conv : Convs, sender : Accounts])
  BY DEF ChatInit
<1>3. TalkTables
  BY <1>1, <1>2, MaxMessagesNat DEF ChatInit, TalkTables
<1>4. TalkRequests
  BY IdleTalks DEF RequestsInit, TalkRequests
<1>5. TalkFacts
  BY <1>1, <1>2 DEF TalkFacts, MarksAgree, OneConversation, SendersTakePart
<1>6. QED
  BY <1>3, <1>4, <1>5 DEF TalkInv

-----------------------------------------------------------------------------
(* Chats: no unread message is hidden *)

LEMMA SinceMore ==
  ASSUME TalkTables, NEW a, NEW c, NEW x \in Nat, NEW y \in Nat, x <= y PROVE Since(a, c, y) <= Since(a, c, x)
<1> DEFINE S(m) == {i \in 1..Len(message) : message[i].conv = c /\ message[i].sender # a /\ i > m}
<1>1. PICK D : D = 1..Len(message)
  OBVIOUS
<1>2. IsFiniteSet(D)
  <2>1. 1 \in Int /\ Len(message) \in Int
    BY DEF TalkTables
  <2>2. QED
    BY <1>1, <2>1, FS_Interval
<1>3. S(x) \subseteq D /\ S(y) \subseteq S(x)
  <2>1. ASSUME NEW i \in 1..Len(message), i > y PROVE i > x
    <3>1. i \in Int
      OBVIOUS
    <3>2. QED
      BY <2>1, <3>1
  <2>2. QED
    BY <1>1, <2>1
<1>4. Since(a, c, x) = Cardinality(S(x)) /\ Since(a, c, y) = Cardinality(S(y))
  BY DEF Since
<1> HIDE DEF S
<1>5. IsFiniteSet(S(x))
  BY <1>2, <1>3, FS_Subset
<1>6. QED
  BY <1>3, <1>4, <1>5, FS_Subset

LEMMA SinceNat ==
  ASSUME TalkTables, NEW a, NEW c, NEW x PROVE Since(a, c, x) \in Nat
<1> DEFINE S == {i \in 1..Len(message) : message[i].conv = c /\ message[i].sender # a /\ i > x}
<1>1. PICK D : D = 1..Len(message)
  OBVIOUS
<1>2. IsFiniteSet(D)
  <2>1. 1 \in Int /\ Len(message) \in Int
    BY DEF TalkTables
  <2>2. QED
    BY <1>1, <2>1, FS_Interval
<1>3. S \subseteq D /\ Since(a, c, x) = Cardinality(S)
  BY <1>1 DEF Since
<1> HIDE DEF S
<1>4. QED
  BY <1>2, <1>3, FS_Subset, FS_CardinalityType

LEMMA CountsEnough ==
  ASSUME TalkTables, NEW a \in Accounts, NEW cs \in SUBSET {c \in Listed(a) : <<c, a>> \in Rows}, NEW c \in cs
  PROVE  /\ CountUnread(a, cs)[c] >= Since(a, c, ReadAt(a, c))
         /\ (\E d \in cs : ReadAt(a, d) = 0) => CountUnread(a, cs)[c] = Since(a, c, ReadAt(a, c))
<1>1. PICK n \in Nat : n = Len(message)
  BY DEF TalkTables
<1>2. ASSUME NEW d \in cs PROVE ReadAt(a, d) \in 0..n
  <2>1. <<d, a>> \in Rows
    OBVIOUS
  <2>2. participant[<<d, a>>] \in Mark /\ participant[<<d, a>>].at <= Len(message)
    BY <2>1 DEF TalkTables, Rows
  <2>3. participant[<<d, a>>].at \in 0..MaxMessages
    BY <2>2 DEF Mark
  <2>4. QED
    BY <1>1, <2>2, <2>3, MaxMessagesNat DEF ReadAt
<1>3. PICK read : read = {d \in cs : ReadAt(a, d) > 0}
  OBVIOUS
<1>4. PICK earliest : earliest = IF read = {} THEN 0 ELSE Min({ReadAt(a, d) : d \in read})
  OBVIOUS
<1>5. CountUnread(a, cs)[c] = IF read # {} /\ read # cs /\ ReadAt(a, c) # earliest THEN Since(a, c, ReadAt(a, c))
                              ELSE Since(a, c, earliest)
  BY <1>3, <1>4 DEF CountUnread
<1>6. ReadAt(a, c) \in Nat /\ Since(a, c, ReadAt(a, c)) \in Nat
  BY <1>2, SinceNat
<1>7. CASE read = {}
  <2>1. ~(ReadAt(a, c) > 0)
    BY <1>3, <1>7
  <2>2. ReadAt(a, c) = earliest
    BY <1>4, <1>6, <1>7, <2>1
  <2>3. QED
    BY <1>5, <1>6, <2>2
<1>8. CASE read # {}
  <2>1. PICK S : S = {ReadAt(a, d) : d \in read}
    OBVIOUS
  <2>2. S \subseteq 0..n /\ S # {}
    BY <1>2, <1>3, <1>8, <2>1
  <2>3. Min(S) \in S /\ \A x \in S : Min(S) <= x
    BY <2>2, BoundedMin
  <2>4. earliest \in Nat /\ earliest > 0 /\ \A d \in read : earliest <= ReadAt(a, d)
    <3>1. earliest = Min(S)
      BY <1>4, <1>8, <2>1
    <3>2. \A x \in S : x \in Nat /\ x > 0
      BY <1>2, <1>3, <2>1
    <3>3. QED
      BY <2>1, <2>3, <3>1, <3>2
  <2>5. CASE c \notin read
    <3>1. ReadAt(a, c) = 0 /\ read # cs
      BY <1>3, <1>6, <2>5
    <3>2. ReadAt(a, c) # earliest
      BY <2>4, <3>1
    <3>3. QED
      BY <1>5, <1>6, <1>8, <3>1, <3>2
  <2>6. CASE c \in read
    <3>1. Since(a, c, ReadAt(a, c)) <= Since(a, c, earliest) /\ Since(a, c, earliest) \in Nat
      BY <1>6, <2>4, <2>6, SinceMore, SinceNat
    <3>2. ASSUME NEW d \in cs, ReadAt(a, d) = 0 PROVE read # cs
      BY <1>3, <3>2
    <3>3. CASE ReadAt(a, c) = earliest
      BY <1>5, <1>6, <3>3
    <3>4. CASE ReadAt(a, c) # earliest
      BY <1>5, <1>6, <1>8, <3>1, <3>2, <3>4
    <3>5. QED
      BY <3>3, <3>4
  <2>7. QED
    BY <2>5, <2>6
<1>9. QED
  BY <1>7, <1>8

\* A page that was read all through is counted from the earliest reading.
LEMMA PageCounted ==
  ASSUME TalkTables, NEW a \in Accounts, NEW cs \in SUBSET {c \in Listed(a) : <<c, a>> \in Rows}, NEW c \in cs,
         ~\E d \in cs : ReadAt(a, d) = 0, NEW d \in cs, \A e \in cs : ReadAt(a, d) <= ReadAt(a, e)
  PROVE  CountUnread(a, cs)[c] = Since(a, c, ReadAt(a, d))
<1>1. PICK n \in Nat : n = Len(message)
  BY DEF TalkTables
<1>2. ASSUME NEW e \in cs PROVE ReadAt(a, e) \in 0..n /\ ReadAt(a, e) > 0
  <2>1. <<e, a>> \in Rows
    OBVIOUS
  <2>2. participant[<<e, a>>] \in Mark /\ participant[<<e, a>>].at <= Len(message)
    BY <2>1 DEF TalkTables, Rows
  <2>3. participant[<<e, a>>].at \in 0..MaxMessages
    BY <2>2 DEF Mark
  <2>4. ReadAt(a, e) \in 0..n
    BY <1>1, <2>2, <2>3, MaxMessagesNat DEF ReadAt
  <2>5. ReadAt(a, e) # 0
    OBVIOUS
  <2>6. QED
    BY <2>4, <2>5
<1>3. {e \in cs : ReadAt(a, e) > 0} = cs
  BY <1>2
<1>4. PICK S : S = {ReadAt(a, e) : e \in cs}
  OBVIOUS
<1>5. S \subseteq 0..n /\ ReadAt(a, d) \in S
  BY <1>2, <1>4
<1>6. Min(S) \in S /\ Min(S) <= ReadAt(a, d)
  BY <1>5, BoundedMin
<1>7. Min(S) = ReadAt(a, d)
  <2>1. PICK e \in cs : Min(S) = ReadAt(a, e)
    BY <1>4, <1>6
  <2>2. ReadAt(a, d) <= ReadAt(a, e) /\ ReadAt(a, d) \in 0..n /\ ReadAt(a, e) \in 0..n
    BY <1>2
  <2>3. QED
    BY <1>6, <2>1, <2>2
<1>8. QED
  BY <1>3, <1>4, <1>7 DEF CountUnread

LEMMA NothingHidden == ASSUME TalkTables PROVE UnreadNeverHidden
  BY CountsEnough, PageCounted DEF UnreadNeverHidden

-----------------------------------------------------------------------------
(* Sockets: every step *)

\* What a step on one socket leaves of the others
Aside(s) ==
  /\ GatewayTypeOK' /\ online' = userSockets' /\ Rows \subseteq Rows'
  /\ \A t \in Sockets \ {s} :
       /\ socket'[t] = socket[t] /\ socketUsers'[t] = socketUsers[t] /\ rooms'[t] = rooms[t]
       /\ \A a \in Accounts : t \in online'[a] => t \in online[a]
       /\ \A a \in Accounts : t \in online[a] => t \in online'[a]

LEMMA AsideStands ==
  ASSUME PresenceInv, NEW s \in Sockets, Aside(s), NEW t \in Sockets, t # s PROVE SocketStands(t)'
<1>1. /\ socket'[t] = socket[t] /\ socketUsers'[t] = socketUsers[t] /\ rooms'[t] = rooms[t] /\ Rows \subseteq Rows'
      /\ \A a \in Accounts : t \in online'[a] <=> t \in online[a]
  BY DEF Aside
<1>2. SocketStands(t) /\ (socket[t].at # "new" => socket[t].who \in Accounts)
  BY DEF PresenceInv, SocketStands
<1>3. QED
  BY <1>1, <1>2 DEF SocketStands

LEMMA SocketTurns ==
  ASSUME PresenceInv, NEW s \in Sockets, Aside(s), SocketStands(s)' PROVE PresenceInv'
<1>1. \A t \in Sockets : SocketStands(t)'
  BY AsideStands
<1>2. QED
  BY <1>1 DEF PresenceInv, Aside

LEMMA SocketOf ==
  ASSUME PresenceInv, NEW s \in Sockets
  PROVE  /\ socket[s] \in Socket /\ SocketStands(s) /\ GatewayTypeOK /\ online = userSockets
         /\ socket[s].at # "new" => socket[s].who \in Accounts
  BY DEF PresenceInv, GatewayTypeOK, SocketStands

LEMMA ConnectStands ==
  ASSUME PresenceInv, NEW s \in Sockets, NEW a \in Accounts, Connect(s, a) PROVE PresenceInv'
<1>1. PICK k : k = [who |-> a, up |-> TRUE, early |-> FALSE, at |-> "checking"]
  OBVIOUS
<1>2. k \in Socket /\ k.who = a /\ k.up = TRUE /\ k.at = "checking"
  BY <1>1 DEF Socket
<1>3. /\ socket[s].at = "new" /\ socket' = [socket EXCEPT ![s] = k]
      /\ UNCHANGED <<socketUsers, userSockets, online, rooms, participant>>
  BY <1>1 DEF Connect
<1>4. /\ socket' \in [Sockets -> Socket] /\ socket'[s] = k /\ \A t \in Sockets \ {s} : socket'[t] = socket[t]
  BY <1>2, <1>3, SocketOf DEF GatewayTypeOK
<1>5. Rows' = Rows
  BY <1>3 DEF Rows
<1>6. Aside(s)
  BY <1>3, <1>4, <1>5, SocketOf DEF Aside, GatewayTypeOK
<1>7. SocketStands(s)'
  BY <1>2, <1>3, <1>4, SocketOf DEF SocketStands
<1>8. QED
  BY <1>6, <1>7, SocketTurns

LEMMA RegisterStands ==
  ASSUME PresenceInv, NEW s \in Sockets, Register(s) PROVE PresenceInv'
<1>1. PICK k : k = [socket[s] EXCEPT !.at = "listing"]
  OBVIOUS
<1>2. PICK a : a = socket[s].who
  OBVIOUS
<1>3. socket[s].at = "checking" /\ a \in Accounts /\ (socket[s].up \/ socket[s].early)
  BY <1>2, SocketOf DEF Register, SocketStands
<1>4. k \in Socket /\ k.who = a /\ k.at = "listing" /\ k.up = socket[s].up /\ k.early = socket[s].early
  BY <1>1, <1>2, SocketOf DEF Socket
<1>5. /\ socket' = [socket EXCEPT ![s] = k] /\ socketUsers' = [socketUsers EXCEPT ![s] = a]
      /\ userSockets' = [userSockets EXCEPT ![a] = @ \union {s}] /\ online' = [online EXCEPT ![a] = @ \union {s}]
      /\ UNCHANGED <<rooms, participant>>
  BY <1>1, <1>2 DEF Register
<1>6. /\ socket' \in [Sockets -> Socket] /\ socket'[s] = k /\ \A t \in Sockets \ {s} : socket'[t] = socket[t]
      /\ socketUsers' \in [Sockets -> Accounts \union {None}] /\ socketUsers'[s] = a
      /\ \A t \in Sockets \ {s} : socketUsers'[t] = socketUsers[t]
  BY <1>3, <1>4, <1>5, SocketOf DEF GatewayTypeOK
<1>7. /\ online' \in [Accounts -> SUBSET Sockets] /\ online'[a] = online[a] \union {s}
      /\ \A b \in Accounts \ {a} : online'[b] = online[b]
  BY <1>3, <1>5, SocketOf DEF GatewayTypeOK
<1>8. userSockets' = online' /\ Rows' = Rows
  BY <1>5, SocketOf DEF Rows
<1>9. Aside(s)
  <2>1. GatewayTypeOK'
    BY <1>5, <1>6, <1>7, <1>8, SocketOf DEF GatewayTypeOK
  <2>2. QED
    BY <1>3, <1>5, <1>6, <1>7, <1>8, <2>1 DEF Aside
<1>10. SocketStands(s)'
  <2>1. \A b \in Accounts : s \notin online[b]
    BY <1>3, SocketOf DEF SocketStands
  <2>2. rooms'[s] = {}
    BY <1>3, <1>5, SocketOf DEF SocketStands
  <2>3. QED
    BY <1>3, <1>4, <1>6, <1>7, <2>1, <2>2 DEF SocketStands
<1>11. QED
  BY <1>9, <1>10, SocketTurns

\* The socket is closed, by the client or because its listing threw.
LEMMA HangUpStands ==
  ASSUME PresenceInv, NEW s \in Sockets, socket[s].up, socket' = Closed(s), HangUp(s),
         rooms' \in [Sockets -> SUBSET Convs], rooms'[s] = {}, \A t \in Sockets \ {s} : rooms'[t] = rooms[t],
         UNCHANGED participant
  PROVE  PresenceInv'
<1>1. PICK here : here = (socket[s].at = "checking")
  OBVIOUS
<1>2. PICK at : at = IF socket[s].at = "checking" THEN "checking" ELSE "leaving"
  OBVIOUS
<1>3. PICK k : k = [who |-> socket[s].who, up |-> FALSE, early |-> here, at |-> at]
  OBVIOUS
<1>4. here \in BOOLEAN /\ (here <=> socket[s].at = "checking")
  BY <1>1
<1>5. /\ k \in Socket /\ k.who = socket[s].who /\ k.up = FALSE /\ k.early = here /\ k.at = at
      /\ k.at = IF here THEN "checking" ELSE "leaving"
  <2>1. socket[s].who \in Accounts \union {None} /\ at \in {"checking", "leaving"}
    BY <1>2, SocketOf DEF Socket
  <2>2. k \in Socket
    BY <1>3, <1>4, <2>1 DEF Socket
  <2>3. QED
    BY <1>2, <1>3, <1>4, <2>2
<1>6. socket[s].at # "new" /\ socket[s].who \in Accounts
  <2>1. socket[s].at # "new"
    BY SocketOf DEF SocketStands
  <2>2. QED
    BY <2>1, SocketOf
<1>7. /\ socket' \in [Sockets -> Socket] /\ socket'[s] = k /\ \A t \in Sockets \ {s} : socket'[t] = socket[t]
  <2>1. socket' = [socket EXCEPT ![s] = k]
    BY <1>1, <1>2, <1>3 DEF Closed
  <2>2. QED
    BY <1>5, <2>1, SocketOf DEF GatewayTypeOK
<1>8. PICK a : a = socketUsers[s]
  OBVIOUS
<1>9. a \in Accounts \union {None} /\ Rows' = Rows
  BY <1>8, SocketOf DEF GatewayTypeOK, Rows
<1>10. CASE a = None
  <2>1. UNCHANGED <<socketUsers, userSockets, online>>
    BY <1>8, <1>10 DEF HangUp
  <2>2. Aside(s)
    BY <1>7, <1>9, <2>1, SocketOf DEF Aside, GatewayTypeOK
  <2>3. socket[s].at = "checking" /\ \A b \in Accounts : s \notin online[b]
    <3>1. socket[s].at \in {"checking", "listing", "served"}
      BY <1>6, SocketOf DEF SocketStands, Socket
    <3>2. socket[s].at = "checking"
      <4>1. socket[s].at \in {"listing", "served"} => socketUsers[s] = socket[s].who
        BY SocketOf DEF SocketStands
      <4>2. socket[s].who # None
        BY <1>6, NoneIsNoAccount
      <4>3. QED
        BY <1>8, <1>10, <3>1, <4>1, <4>2
    <3>3. QED
      BY <3>2, SocketOf DEF SocketStands
  <2>4. SocketStands(s)'
    BY <1>4, <1>5, <1>6, <1>7, <1>8, <1>10, <2>1, <2>3 DEF SocketStands
  <2>5. QED
    BY <2>2, <2>4, SocketTurns
<1>11. CASE a # None
  <2>1. /\ userSockets' = Gone(userSockets, a, s) /\ online' = Gone(online, a, s)
        /\ socketUsers' = socketUsers \/ socketUsers' = [socketUsers EXCEPT ![s] = None]
    BY <1>8, <1>11 DEF HangUp
  <2>2. a \in Accounts
    BY <1>9, <1>11
  <2>3. /\ online' \in [Accounts -> SUBSET Sockets] /\ online'[a] = online[a] \ {s}
        /\ \A b \in Accounts \ {a} : online'[b] = online[b]
    BY <2>1, <2>2, SocketOf DEF GatewayTypeOK, Gone
  <2>4. userSockets' = online'
    BY <2>1, SocketOf
  <2>5. /\ socketUsers' \in [Sockets -> Accounts \union {None}] /\ socketUsers'[s] \in {None, a}
        /\ \A t \in Sockets \ {s} : socketUsers'[t] = socketUsers[t]
    BY <1>8, <2>1, SocketOf DEF GatewayTypeOK
  <2>6. Aside(s)
    <3>1. GatewayTypeOK'
      BY <1>7, <2>3, <2>4, <2>5 DEF GatewayTypeOK
    <3>2. QED
      BY <1>7, <1>9, <2>2, <2>3, <2>4, <2>5, <3>1 DEF Aside
  <2>7. socket[s].at \in {"listing", "served"} /\ a = socket[s].who
    <3>1. socket[s].at \in {"checking", "listing", "served"}
      BY <1>6, SocketOf DEF SocketStands, Socket
    <3>2. socket[s].at # "checking"
      BY <1>8, <1>11, SocketOf DEF SocketStands
    <3>3. QED
      BY <1>8, <3>1, <3>2, SocketOf DEF SocketStands
  <2>8. \A b \in Accounts : s \notin online'[b]
    <3>1. \A b \in Accounts \ {a} : s \notin online[b]
      BY <2>7, SocketOf DEF SocketStands
    <3>2. QED
      BY <2>3, <3>1
  <2>9. k.at = "leaving"
    BY <1>4, <1>5, <2>7
  <2>10. SocketStands(s)'
    BY <1>5, <1>6, <1>7, <2>5, <2>7, <2>8, <2>9 DEF SocketStands
  <2>11. QED
    BY <2>6, <2>10, SocketTurns
<1>12. QED
  BY <1>10, <1>11

LEMMA DisconnectStands ==
  ASSUME PresenceInv, NEW s \in Sockets, Disconnect(s) PROVE PresenceInv'
<1>1. /\ socket[s].up /\ socket' = Closed(s) /\ HangUp(s) /\ rooms' = [rooms EXCEPT ![s] = {}]
      /\ UNCHANGED participant
  BY DEF Disconnect
<1>2. rooms' \in [Sockets -> SUBSET Convs] /\ rooms'[s] = {} /\ \A t \in Sockets \ {s} : rooms'[t] = rooms[t]
  BY <1>1, SocketOf DEF GatewayTypeOK
<1>3. QED
  BY <1>1, <1>2, HangUpStands

LEMMA JoinRoomsStands ==
  ASSUME PresenceInv, TalkInv, NEW s \in Sockets, JoinRooms(s), UNCHANGED <<conversation, message>>, UNCHANGED reqVars
  PROVE  PresenceInv' /\ TalkInv'
<1>1. PICK a : a = socket[s].who
  OBVIOUS
<1>2. socket[s].at = "listing" /\ a \in Accounts /\ rooms[s] = {}
  BY <1>1, SocketOf DEF JoinRooms, SocketStands
<1>3. CASE /\ socket[s].up /\ socket' = Closed(s) /\ HangUp(s) /\ UNCHANGED <<rooms, participant>>
  <2>1. rooms' \in [Sockets -> SUBSET Convs] /\ rooms'[s] = {} /\ \A t \in Sockets \ {s} : rooms'[t] = rooms[t]
    BY <1>2, <1>3, SocketOf DEF GatewayTypeOK
  <2>2. QED
    BY <1>3, <2>1, HangUpStands, TalkStays
<1>4. CASE /\ socket' = [socket EXCEPT ![s].at = "served"] /\ ListRows(socket[s].who)
           /\ rooms' = [rooms EXCEPT ![s] = IF socket[s].up THEN Listed(socket[s].who) ELSE {}]
           /\ UNCHANGED <<socketUsers, userSockets, online>>
  <2>1. PICK listed : listed = Listed(a)
    OBVIOUS
  <2>2. listed \subseteq Convs
    BY <2>1 DEF Listed, Open
  <2>3. TalkInv' /\ Rows \subseteq Rows' /\ \A c \in listed : <<c, a>> \in Rows'
    BY <1>1, <1>2, <1>4, <2>1, ListRowsKeeps
  <2>4. PICK k : k = [socket[s] EXCEPT !.at = "served"]
    OBVIOUS
  <2>5. k \in Socket /\ k.who = a /\ k.at = "served" /\ k.up = socket[s].up /\ k.early = socket[s].early
    BY <1>1, <2>4, SocketOf DEF Socket
  <2>6. /\ socket' \in [Sockets -> Socket] /\ socket'[s] = k /\ \A t \in Sockets \ {s} : socket'[t] = socket[t]
    BY <1>4, <2>4, <2>5, SocketOf DEF GatewayTypeOK
  <2>7. PICK room : room = IF socket[s].up THEN listed ELSE {}
    OBVIOUS
  <2>8. /\ rooms' \in [Sockets -> SUBSET Convs] /\ rooms'[s] = room
        /\ \A t \in Sockets \ {s} : rooms'[t] = rooms[t]
    BY <1>1, <1>4, <2>1, <2>2, <2>7, SocketOf DEF GatewayTypeOK
  <2>9. Aside(s)
    BY <1>4, <2>3, <2>6, <2>8, SocketOf DEF Aside, GatewayTypeOK
  <2>10. SocketStands(s)'
    <3>1. socketUsers[s] = a /\ s \in online[a] /\ (socket[s].up \/ socket[s].early)
      BY <1>1, <1>2, SocketOf DEF SocketStands
    <3>2. \A b \in Accounts : s \in online[b] => b = a
      BY <1>1, <1>2, SocketOf DEF SocketStands
    <3>3. \A c \in room : socket[s].up /\ <<c, a>> \in Rows'
      BY <2>3, <2>7
    <3>4. QED
      BY <1>2, <1>4, <2>5, <2>6, <2>8, <3>1, <3>2, <3>3 DEF SocketStands
  <2>11. QED
    BY <2>3, <2>9, <2>10, SocketTurns
<1>5. QED
  BY <1>3, <1>4 DEF JoinRooms

LEMMA LeaveStands ==
  ASSUME PresenceInv, TalkInv, NEW s \in Sockets, Leave(s), UNCHANGED <<conversation, message>>, UNCHANGED reqVars
  PROVE  PresenceInv' /\ TalkInv'
<1>1. /\ socket[s].at = "leaving" /\ socketUsers[s] # None /\ ListRows(socketUsers[s])
      /\ socketUsers' = [socketUsers EXCEPT ![s] = None] /\ UNCHANGED <<socket, userSockets, online, rooms>>
  BY DEF Leave
<1>2. socketUsers[s] \in Accounts
  BY <1>1, SocketOf DEF GatewayTypeOK
<1>3. TalkInv' /\ Rows \subseteq Rows'
  BY <1>1, <1>2, ListRowsKeeps
<1>4. /\ socketUsers' \in [Sockets -> Accounts \union {None}] /\ socketUsers'[s] = None
      /\ \A t \in Sockets \ {s} : socketUsers'[t] = socketUsers[t]
  BY <1>1, SocketOf DEF GatewayTypeOK
<1>5. Aside(s)
  BY <1>1, <1>3, <1>4, SocketOf DEF Aside, GatewayTypeOK
<1>6. SocketStands(s)'
  <2>1. rooms[s] = {} /\ ~socket[s].up /\ socket[s].who \in Accounts
    BY <1>1, SocketOf DEF SocketStands
  <2>2. \A a \in Accounts : s \notin online[a]
    BY <1>1, SocketOf DEF SocketStands
  <2>3. QED
    BY <1>1, <1>4, <2>1, <2>2 DEF SocketStands
<1>7. QED
  BY <1>3, <1>5, <1>6, SocketTurns

LEMMA SocketsStay ==
  ASSUME PresenceInv, UNCHANGED gatewayVars, Rows \subseteq Rows' PROVE PresenceInv'
<1>1. ASSUME NEW t \in Sockets PROVE SocketStands(t)'
  <2>1. SocketStands(t)
    BY DEF PresenceInv
  <2>2. QED
    BY <2>1 DEF SocketStands, gatewayVars
<1>2. QED
  BY <1>1 DEF PresenceInv, GatewayTypeOK, gatewayVars

LEMMA SocketsStart == ASSUME GatewayInit PROVE PresenceInv
<1>1. socket = [s \in Sockets |-> NewSocket] /\ NewSocket \in Socket
  BY DEF GatewayInit, Socket, NewSocket
<1>2. GatewayTypeOK
  BY <1>1 DEF GatewayInit, GatewayTypeOK
<1>3. ASSUME NEW s \in Sockets PROVE SocketStands(s)
  BY <1>1 DEF GatewayInit, SocketStands, NewSocket
<1>4. QED
  BY <1>2, <1>3 DEF GatewayInit, PresenceInv

\* Rows only come: every step of the chat adds rows or rewrites one.
LEMMA RowsCome ==
  ASSUME TalkInv, NEW h \in Handlers, ChatStep(h) PROVE Rows \subseteq Rows'
<1>1. ASSUME NEW added, participant' = WithRows(participant, added) PROVE Rows \subseteq Rows'
  BY <1>1, UnreadIsMark DEF Rows, WithRows
<1>2. CASE UNCHANGED participant
  BY <1>2 DEF Rows
<1>3. CASE MarkAsRead(h)
  <2>1. PICK p : p = <<req[h].conv, req[h].who>>
    OBVIOUS
  <2>2. PICK m : m = [id |-> req[h].latest, at |-> Len(message)]
    OBVIOUS
  <2>3. participant' = [participant EXCEPT ![p] = m]
    BY <1>3, <2>1, <2>2 DEF MarkAsRead
  <2>4. m # None
    <3>1. Len(message) \in Nat /\ Len(message) <= MaxMessages
      BY DEF TalkInv, TalkTables
    <3>2. req[h].latest \in 0..Len(message)
      BY <1>3 DEF MarkAsRead, At, TalkInv, TalkRequests, TalkRequest
    <3>3. m \in Mark
      BY <2>2, <3>1, <3>2, MaxMessagesNat DEF Mark
    <3>4. QED
      BY <3>3, NoneIsNoChatRow
  <2>5. QED
    BY <2>3, <2>4 DEF Rows, TalkInv, TalkTables
<1>4. QED
  BY <1>1, <1>2, <1>3 DEF ChatStep, InsertConversation, AddTeam, AddSelf, SendMessage

LEMMA ChatStepKeeps ==
  ASSUME TalkInv, NEW h \in Handlers, ChatStep(h) PROVE TalkInv'
  BY InsertKeeps, AddTeamKeeps, AddSelfKeeps, SendKeeps, MarkAsReadKeeps DEF ChatStep

LEMMA GatewayKeeps ==
  ASSUME ChatInv, GatewayNext PROVE ChatInv'
<1>1. PresenceInv /\ TalkInv /\ UNCHANGED <<conversation, message>> /\ UNCHANGED reqVars
  BY DEF ChatInv, GatewayNext
<1>2. ASSUME NEW s \in Sockets, NEW a \in Accounts, Connect(s, a) PROVE ChatInv'
  BY <1>1, <1>2, ConnectStands, TalkStays DEF Connect, ChatInv
<1>3. ASSUME NEW s \in Sockets, Register(s) PROVE ChatInv'
  BY <1>1, <1>3, RegisterStands, TalkStays DEF Register, ChatInv
<1>4. ASSUME NEW s \in Sockets, JoinRooms(s) PROVE ChatInv'
  BY <1>1, <1>4, JoinRoomsStands DEF ChatInv
<1>5. ASSUME NEW s \in Sockets, Disconnect(s) PROVE ChatInv'
  BY <1>1, <1>5, DisconnectStands, TalkStays DEF Disconnect, ChatInv
<1>6. ASSUME NEW s \in Sockets, Leave(s) PROVE ChatInv'
  BY <1>1, <1>6, LeaveStands DEF ChatInv
<1>7. QED
  BY <1>2, <1>3, <1>4, <1>5, <1>6 DEF GatewayNext

LEMMA ChatMovesOn == ASSUME ChatInv, ChatMoves PROVE ChatInv'
<1>1. PresenceInv /\ TalkInv
  BY DEF ChatInv
<1>2. ASSUME TalkInv', UNCHANGED participant, UNCHANGED gatewayVars PROVE ChatInv'
  <2>1. Rows' = Rows
    BY <1>2 DEF Rows
  <2>2. QED
    BY <1>1, <1>2, <2>1, SocketsStay DEF ChatInv
<1>3. CASE GatewayNext
  BY <1>3, GatewayKeeps
<1>4. ASSUME NEW h \in Handlers, ChatStep(h), UNCHANGED gatewayVars PROVE ChatInv'
  BY <1>1, <1>4, ChatStepKeeps, RowsCome, SocketsStay DEF ChatInv
<1>5. ASSUME NEW b \in Bookings, NEW o \in Accounts, OfferMade(b, o), UNCHANGED gatewayVars PROVE ChatInv'
  <2>1. UNCHANGED <<conversation, participant, message>> /\ UNCHANGED reqVars
    BY <1>5 DEF OfferMade
  <2>2. QED
    BY <1>1, <1>2, <1>5, <2>1, TalkStays
<1>6. ASSUME NEW h \in Handlers, NEW a \in Accounts, ListConversations(h, a), UNCHANGED gatewayVars PROVE ChatInv'
  <2>1. UNCHANGED participant
    BY <1>6 DEF ListConversations, Enter, chatVars
  <2>2. QED
    BY <1>1, <1>2, <1>6, <2>1, ListKeeps
<1>7. ASSUME NEW h \in Handlers, NEW a \in Accounts, NEW c \in Convs, NEW then \in {"open", "send", "mark"},
             UseConversation(h, a, c, then), UNCHANGED gatewayVars
      PROVE  ChatInv'
  <2>1. UNCHANGED participant
    BY <1>7 DEF UseConversation, Enter, chatVars
  <2>2. QED
    BY <1>1, <1>2, <1>7, <2>1, UseKeeps
<1>8. ASSUME NEW h \in Handlers, NEW s \in Sockets, NEW c \in Convs, NEW then \in {"open", "send", "mark"},
              Say(h, s, c, then), UNCHANGED gatewayVars
       PROVE  ChatInv'
  <2>1. socket[s].at # "new" /\ UseConversation(h, socket[s].who, c, then)
    BY <1>8 DEF Say
  <2>2. PICK a \in Accounts : a = socket[s].who
    BY <1>1, <2>1, SocketOf
  <2>3. QED
    BY <1>7, <1>8, <2>1, <2>2
<1>9. ASSUME NEW h \in Handlers, NEW a \in Accounts, NEW b \in Bookings, NEW o \in Accounts,
              CreateConversation(h, a, b, o), UNCHANGED gatewayVars
       PROVE  ChatInv'
  <2>1. UNCHANGED participant
    BY <1>9 DEF CreateConversation, Enter, chatVars
  <2>2. QED
    BY <1>1, <1>2, <1>9, <2>1, CreateConversationKeeps
<1>10. QED
  BY <1>3, <1>4, <1>5, <1>6, <1>7, <1>8, <1>9 DEF ChatMoves

LEMMA ChatDrops ==
  ASSUME ChatInv, NEW h \in Handlers, Drop(h), UNCHANGED chatVars, UNCHANGED gatewayVars PROVE ChatInv'
<1>1. TalkInv' /\ Rows' = Rows
  BY TalkDrops DEF ChatInv, chatVars, Rows
<1>2. QED
  BY <1>1, SocketsStay DEF ChatInv

LEMMA ChatKeeps ==
  ASSUME ChatInv, [ChatNext]_<<reqVars, chatVars, gatewayVars>> PROVE ChatInv'
<1>1. CASE UNCHANGED <<reqVars, chatVars, gatewayVars>>
  <2>1. UNCHANGED <<conversation, participant, message>> /\ UNCHANGED reqVars /\ UNCHANGED gatewayVars
    BY <1>1 DEF chatVars
  <2>2. TalkInv' /\ Rows' = Rows
    BY <2>1, TalkStays DEF ChatInv
  <2>3. QED
    BY <2>1, <2>2, SocketsStay DEF ChatInv
<1>2. ASSUME NEW h \in Handlers, Drop(h), UNCHANGED <<accountVars, officeVars, chatVars, gatewayVars>> PROVE ChatInv'
  <2>1. UNCHANGED chatVars /\ UNCHANGED gatewayVars
    BY <1>2
  <2>2. QED
    BY <1>2, <2>1, ChatDrops
<1>3. QED
  BY <1>1, <1>2, ChatMovesOn DEF ChatNext

LEMMA PresenceIsTrue == ASSUME PresenceInv PROVE PresenceTrue
<1>1. ASSUME NEW s \in Sockets
      PROVE  /\ SocketStands(s) /\ socket[s] \in Socket /\ socketUsers[s] \in Accounts \union {None}
             /\ socket[s].at \in {"new", "checking", "listing", "served", "leaving"}
  BY SocketOf DEF GatewayTypeOK, Socket
<1>2. ASSUME NEW s \in Sockets, socket[s].up, socketUsers[s] # None PROVE s \in online[socketUsers[s]]
  BY <1>1, <1>2 DEF SocketStands
<1>3. ASSUME NEW a \in Accounts, IsUserOnline(a)
      PROVE  \E s \in Sockets : socket[s].who = a /\ (socket[s].up \/ socket[s].early)
  <2>1. online[a] # {} /\ online[a] \subseteq Sockets
    BY <1>3 DEF IsUserOnline, PresenceInv, GatewayTypeOK
  <2>2. PICK s \in Sockets : s \in online[a]
    BY <2>1
  <2>3. a = socket[s].who /\ (socket[s].up \/ socket[s].early)
    BY <1>1, <2>2 DEF SocketStands
  <2>4. QED
    BY <2>3
<1>4. ASSUME NEW s \in Sockets, NEW c \in rooms[s] PROVE socket[s].up /\ <<c, socket[s].who>> \in Rows
  BY <1>1 DEF SocketStands
<1>5. ASSUME NEW a \in Accounts, NEW c \in Convs, NEW b \in {socket[s].who : s \in HeardBy(c)} \ {a}
      PROVE  b \in DeliveredTo(a, c)
  <2>1. PICK s \in Sockets : c \in rooms[s] /\ b = socket[s].who
    BY DEF HeardBy
  <2>2. socket[s].at = "served" /\ <<c, b>> \in Rows
    BY <1>1, <2>1 DEF SocketStands
  <2>3. b \in Accounts /\ s \in online[b]
    BY <1>1, <2>1, <2>2 DEF SocketStands
  <2>4. QED
    BY <2>2, <2>3 DEF DeliveredTo, PresenceInv
<1>6. QED
  BY <1>2, <1>3, <1>4, <1>5 DEF PresenceTrue, PresenceInv

-----------------------------------------------------------------------------
(* Chats and sockets: the theorems *)

THEOREM ChatInvariant == ChatSpec => []ChatInv
<1>1. ASSUME ChatInit, GatewayInit, \E oneAtATime \in BOOLEAN : RequestsInit(oneAtATime) PROVE ChatInv
  BY <1>1, TalkStarts, SocketsStart DEF ChatInv
<1>2. ChatInv /\ [ChatNext]_<<reqVars, chatVars, gatewayVars>> => ChatInv'
  BY ChatKeeps
<1>3. QED
  BY <1>1, <1>2, PTL DEF ChatSpec

\* Conversations, rows of participants, messages, sockets and the tables in memory hold what
\* they may.
THEOREM ChatTypes == ChatSpec => [](ChatTypeOK /\ GatewayTypeOK)
<1>1. ChatInv => ChatTypeOK /\ GatewayTypeOK
  BY DEF ChatInv, TalkInv, TalkTables, ChatTypeOK, PresenceInv
<1>2. QED
  BY <1>1, ChatInvariant, PTL

\* A listing hides no unread message and whoever wrote takes part, however requests overlap;
\* one at a time the two marks of a reader agree and both sides have one conversation.
THEOREM ChatsStand == ChatSpec => []ChatSound
<1>1. ChatInv => ChatSound
  BY NothingHidden DEF ChatInv, TalkInv, TalkFacts, ChatSound
<1>2. QED
  BY <1>1, ChatInvariant, PTL

\* However sockets come, are looked up, list and go, the two tables agree, an account with a
\* registered socket is online, and only those whose socket was closed early stay so.
THEOREM PresenceStands == ChatSpec => []PresenceTrue
<1>1. ChatInv => PresenceTrue
  BY PresenceIsTrue DEF ChatInv
<1>2. QED
  BY <1>1, ChatInvariant, PTL

-----------------------------------------------------------------------------
(* All of them in one process: a request of one kind is none of another *)

TalkPoints == {"sync", "ensure", "create", "send", "mark"}
NotifyPoints == {"notify", "enqueue", "mark_read", "device"}
ReviewPoints == {"review", "save_review"}
PeoplePoints == {"toggle", "clear_employee"}

\* No request moves, or one goes between these points.
GoesTo(h, r) ==
  /\ req' = [req EXCEPT ![h] = r] /\ UNCHANGED <<serial, dropped>>
  /\ serial => req[h] # Idle \/ Quiet
Between(h, r, points) ==
  req[h].at \in points \union {"idle"} /\ r.at \in points \union {"idle"}
Turn(points) ==
  UNCHANGED reqVars \/ \E h \in Handlers : \E r : GoesTo(h, r) /\ Between(h, r, points)

\* A step that turns none of the requests of these points, and ends none
Foreign(points) ==
  \/ UNCHANGED reqVars
  \/ \E h \in Handlers : \E r : GoesTo(h, r) /\ req[h].at \notin points /\ r.at \notin points

LEMMA BeginTurns ==
  ASSUME NEW h \in Handlers, NEW r, NEW points, Begin(h, r), r.at \in points PROVE Turn(points)
<1>1. GoesTo(h, r) /\ Between(h, r, points)
  BY DEF Begin, GoesTo, Between, Idle
<1>2. QED
  BY <1>1 DEF Turn

LEMMA GotoTurns ==
  ASSUME NEW h \in Handlers, NEW r, NEW points, Goto(h, r), req[h].at \in points, req[h].at # "idle",
         r.at \in points \union {"idle"}
  PROVE  Turn(points)
<1>1. GoesTo(h, r) /\ Between(h, r, points)
  BY DEF Goto, GoesTo, Between, Idle
<1>2. QED
  BY <1>1 DEF Turn

LEMMA DoneTurns ==
  ASSUME NEW h \in Handlers, NEW points, Done(h), req[h].at \in points, req[h].at # "idle" PROVE Turn(points)
  BY GotoTurns DEF Done, Idle

LEMMA StillTurns == ASSUME UNCHANGED reqVars, NEW points PROVE Turn(points)
  BY DEF Turn

LEMMA TurnsAreForeign ==
  ASSUME NEW points, NEW others, Turn(points), points \intersect others = {}, "idle" \notin others PROVE Foreign(others)
  BY DEF Turn, Foreign, Between

LEMMA TalksTurn == ASSUME ChatInv, ChatMoves PROVE Turn(TalkPoints)
<1>1. ASSUME NEW h \in Handlers, NEW a, NEW cs, NEW then, Enter(h, a, cs, then) PROVE Turn(TalkPoints)
  BY <1>1, BeginTurns DEF Enter, TalkPoints
<1>2. ASSUME NEW h \in Handlers, NEW a, NEW c, NEW then, UseConversation(h, a, c, then) PROVE Turn(TalkPoints)
  BY <1>1, <1>2 DEF UseConversation
<1>3. ASSUME NEW h \in Handlers, NEW a, NEW b, NEW o, CreateConversation(h, a, b, o) PROVE Turn(TalkPoints)
  <2>1. CASE Begin(h, [at |-> "create", who |-> a, booking |-> b, office |-> o])
    BY <2>1, BeginTurns DEF TalkPoints
  <2>2. QED
    BY <1>1, <1>3, <2>1 DEF CreateConversation
<1>4. ASSUME NEW h \in Handlers, InsertConversation(h) PROVE Turn(TalkPoints)
  <2>1. PICK r : Goto(h, r) /\ r.at = "ensure"
    BY <1>4 DEF InsertConversation
  <2>2. QED
    BY <1>4, <2>1, GotoTurns DEF InsertConversation, At, TalkPoints
<1>5. ASSUME NEW h \in Handlers, AddTeam(h) PROVE Turn(TalkPoints)
  <2>1. req[h].at = "sync" /\ TalkRequest(req[h])
    BY <1>5 DEF AddTeam, At, ChatInv, TalkInv, TalkRequests
  <2>2. CASE Done(h)
    BY <2>1, <2>2, DoneTurns DEF TalkPoints
  <2>3. ASSUME NEW add, Goto(h, [req[h] EXCEPT !.at = "ensure", !.add = add]) PROVE Turn(TalkPoints)
    <3>1. [req[h] EXCEPT !.at = "ensure", !.add = add].at = "ensure"
      BY <2>1 DEF TalkRequest
    <3>2. QED
      BY <2>1, <2>3, <3>1, GotoTurns DEF TalkPoints
  <2>4. QED
    BY <1>5, <2>2, <2>3 DEF AddTeam
<1>6. ASSUME NEW h \in Handlers, AddSelf(h) PROVE Turn(TalkPoints)
  <2>1. req[h].at = "ensure" /\ req[h].then \in {"open", "send", "mark"}
    BY <1>6 DEF AddSelf, At, ChatInv, TalkInv, TalkRequests, TalkRequest
  <2>2. CASE Done(h)
    BY <2>1, <2>2, DoneTurns DEF TalkPoints
  <2>3. ASSUME NEW c, NEW n, Goto(h, [at |-> req[h].then, who |-> req[h].who, conv |-> c, latest |-> n]),
               req[h].then # "open"
        PROVE  Turn(TalkPoints)
    BY <2>1, <2>3, GotoTurns DEF TalkPoints
  <2>4. QED
    BY <1>6, <2>2, <2>3 DEF AddSelf
<1>7. ASSUME NEW h \in Handlers, SendMessage(h) \/ MarkAsRead(h) PROVE Turn(TalkPoints)
  BY <1>7, DoneTurns DEF SendMessage, MarkAsRead, At, TalkPoints
<1>8. CASE GatewayNext
  BY <1>8, StillTurns DEF GatewayNext
<1>9. ASSUME NEW b, NEW o, OfferMade(b, o) PROVE Turn(TalkPoints)
  BY <1>9, StillTurns DEF OfferMade
<1>10. QED
  BY <1>1, <1>2, <1>3, <1>4, <1>5, <1>6, <1>7, <1>8, <1>9 DEF ChatMoves, ChatStep, ListConversations, Say

LEMMA NotificationsTurn == ASSUME NotifyInv, NotificationMoves PROVE Turn(NotifyPoints)
<1>1. ASSUME NEW h \in Handlers, NotifyRequest(h) PROVE Turn(NotifyPoints)
  BY <1>1, BeginTurns DEF NotifyRequest, HandleEvent, MarkRead, RegisterDeviceRead, NotifyPoints
<1>2. ASSUME NEW h \in Handlers, NEW a \in Accounts, SaveRow(h, a) PROVE Turn(NotifyPoints)
  <2>1. req[h].at = "notify" /\ req[h] \in [at : {"notify"}, left : SUBSET Accounts]
    BY <1>2 DEF SaveRow, At, NotifyInv, Types, ReqTypes, ReqHolds
  <2>2. CASE Done(h)
    BY <2>1, <2>2, DoneTurns DEF NotifyPoints
  <2>3. ASSUME NEW left, Goto(h, [req[h] EXCEPT !.left = left]) PROVE Turn(NotifyPoints)
    <3>1. [req[h] EXCEPT !.left = left].at = "notify"
      BY <2>1
    <3>2. QED
      BY <2>1, <2>3, <3>1, GotoTurns DEF NotifyPoints
  <2>4. ASSUME NEW left, Goto(h, [at |-> "enqueue", left |-> left, row |-> NextId]) PROVE Turn(NotifyPoints)
    BY <2>1, <2>4, GotoTurns DEF NotifyPoints
  <2>5. QED
    BY <1>2, <2>2, <2>3, <2>4 DEF SaveRow
<1>3. ASSUME NEW h \in Handlers, AddJob(h) PROVE Turn(NotifyPoints)
  <2>1. req[h].at = "enqueue"
    BY <1>3 DEF AddJob, At
  <2>2. Done(h) \/ Goto(h, [at |-> "notify", left |-> req[h].left])
    BY <1>3 DEF AddJob
  <2>3. QED
    BY <2>1, <2>2, DoneTurns, GotoTurns DEF NotifyPoints
<1>4. ASSUME NEW h \in Handlers, SaveRead(h) \/ RegisterDevice(h) PROVE Turn(NotifyPoints)
  BY <1>4, DoneTurns DEF SaveRead, RegisterDevice, At, NotifyPoints
<1>5. CASE NotifyAtOnce
  <2>1. UNCHANGED reqVars
    BY <1>5 DEF NotifyAtOnce, SeedTemplate, QueueBatch, MarkAllAsRead, DeleteSince, RemoveDevice, AtOnce, reqVars
  <2>2. QED
    BY <2>1, StillTurns
<1>6. CASE WorkerStep
  BY <1>6, StillTurns DEF WorkerStep
<1>7. CASE SegmentNext
  BY <1>7, StillTurns DEF SegmentNext, QueueSegment, AtOnce
<1>8. QED
  BY <1>1, <1>2, <1>3, <1>4, <1>5, <1>6, <1>7 DEF NotificationMoves, NotificationsStep

LEMMA ReviewsTurn == ASSUME ReviewMoves PROVE Turn(ReviewPoints)
<1>1. ASSUME NEW h \in Handlers, NEW q, Begin(h, q), q.at \in ReviewPoints PROVE Turn(ReviewPoints)
  BY <1>1, BeginTurns
<1>2. ASSUME NEW h \in Handlers, ReviewsStep(h) PROVE Turn(ReviewPoints)
  BY <1>2, DoneTurns DEF ReviewsStep, CreateReview, SaveReview, At, ReviewPoints
<1>3. ASSUME UNCHANGED reqVars PROVE Turn(ReviewPoints)
  BY <1>3, StillTurns
<1>4. QED
  BY <1>1, <1>2, <1>3 DEF ReviewMoves, CreateReviewRead, UpdateReviewRead, ToggleHideRead, DeleteReview,
     CompleteBooking, AtOnce, ReviewPoints

-----------------------------------------------------------------------------
(* All of them in one process: what the requests of the others leave as it was *)

LEMMA OthersKeepTalk ==
  ASSUME ChatInv, UNCHANGED chatVars, UNCHANGED gatewayVars, Foreign(TalkPoints) PROVE ChatInv'
<1>1. serial' = serial
  BY DEF Foreign, GoesTo, reqVars
<1>2. TalkGrows /\ TalkFacts' /\ UNCHANGED <<conversation, message>> /\ Rows' = Rows
  BY <1>1, RowsUntouched DEF ChatInv, TalkInv, chatVars, Rows
<1>3. TalkRequests'
  <2>1. CASE UNCHANGED reqVars
    BY <1>2, <2>1, TalkWaits DEF ChatInv, reqVars
  <2>2. ASSUME NEW h \in Handlers, NEW r, req' = [req EXCEPT ![h] = r], serial => req[h] # Idle \/ Quiet,
               r.at \notin TalkPoints
        PROVE  TalkRequests'
    <3>1. TalkRequest(r)'
      BY <2>2 DEF TalkRequest, TalkPoints
    <3>2. QED
      BY <1>2, <2>2, <3>1, TalkTurns DEF ChatInv
  <2>3. QED
    BY <2>1, <2>2 DEF Foreign, GoesTo
<1>4. PresenceInv'
  BY <1>2, SocketsStay DEF ChatInv
<1>5. QED
  BY <1>2, <1>3, <1>4 DEF ChatInv, TalkInv, TalkGrows

LEMMA ForeignIsSteady ==
  ASSUME ReqTypes, Foreign(NotifyPoints) PROVE Steady /\ dropped' = dropped
<1>1. ASSUME NEW h \in Handlers, NEW r, req' = [req EXCEPT ![h] = r],
             req[h].at \notin NotifyPoints, r.at \notin NotifyPoints
      PROVE  Steady
  <2>1. ReqHolds(r) /\ r.at # "enqueue" /\ req[h].at # "enqueue"
    BY <1>1 DEF ReqHolds, NotifyPoints
  <2>2. req' = [g \in Handlers |-> req'[g]] /\ req'[h] = r /\ \A g \in Handlers \ {h} : req'[g] = req[g]
    BY <1>1 DEF ReqTypes
  <2>3. QED
    BY <2>1, <2>2 DEF Steady
<1>2. QED
  BY <1>1, StillIsSteady DEF Foreign, GoesTo, reqVars

LEMMA OthersKeepNotifications ==
  ASSUME NotifyInv, UNCHANGED notifyVars, UNCHANGED segmentVars, Foreign(NotifyPoints),
         employee' \in [Employees -> Employee \union {None}],
         \A a \in Accounts : Exists(a) => Exists(a)', NewIds
  PROVE  NotifyInv'
<1>1. Steady /\ dropped' = dropped
  BY ForeignIsSteady DEF NotifyInv, Types
<1>2. UNCHANGED rowVars /\ OtherTypes'
  BY DEF NotifyInv, Types, OtherTypes, rowVars, notifyVars
<1>3. QED
  BY <1>1, <1>2, OthersMove DEF NewIds

LEMMA OthersKeepReviews ==
  ASSUME ReviewInv, UNCHANGED reviewVars, Foreign(ReviewPoints) PROVE ReviewInv'
<1>1. serial' = serial
  BY DEF Foreign, GoesTo, reqVars
<1>2. RequestsLast
  <2>1. ASSUME NEW h \in Handlers, NEW r, req' = [req EXCEPT ![h] = r], serial => req[h] # Idle \/ Quiet,
               r.at \notin ReviewPoints
        PROVE  RequestsLast
    <3>1. ReviewRequest(r)
      BY <2>1 DEF ReviewRequest, ReviewPoints
    <3>2. req' = [g \in Handlers |-> req'[g]] /\ req'[h] = r /\ \A g \in Handlers \ {h} : req'[g] = req[g]
      BY <2>1 DEF ReviewInv, ReviewRequests
    <3>3. serial => \A g \in Handlers \ {h} : req[g] = Idle
      BY <2>1 DEF ReviewInv, ReviewRequests, Quiet
    <3>4. QED
      BY <3>1, <3>2, <3>3 DEF RequestsLast
  <2>2. QED
    BY <2>1, RequestsLeft DEF Foreign, GoesTo
<1>3. QED
  BY <1>1, <1>2, RowsLeft, RowsKeep

-----------------------------------------------------------------------------
(* All of them in one process: accounts, offices and employees *)

PersonRequest(q) ==
  /\ q.at = "toggle" => q.who \in Accounts /\ Exists(q.who) /\ q.status \in AccountStatus
  /\ q.at = "clear_employee" => q.row \in Employees

PeopleInv ==
  /\ AccountsTypeOK /\ OfficesTypeOK /\ PeopleKnown
  /\ \A h \in Handlers : PersonRequest(req[h])

\* No row of an account is removed, and every table stays in its type.
PeopleStep ==
  /\ AccountsTypeOK' /\ OfficesTypeOK' /\ PeopleKnown'
  /\ \A a \in Accounts : Exists(a) => Exists(a)'

\* No request moves, or one goes where what it has read is sound.
SoundFor(h, r) == req' = [req EXCEPT ![h] = r] /\ PersonRequest(r)
SoundTurn == UNCHANGED reqVars \/ \E h \in Handlers : \E r : SoundFor(h, r)

LEMMA PeopleStepKeeps ==
  ASSUME PeopleInv, ReqTypes, PeopleStep,
         SoundTurn
  PROVE  PeopleInv'
<1>1. ASSUME NEW q, PersonRequest(q) PROVE PersonRequest(q)'
  <2>1. Exists(q.who) /\ q.who \in Accounts => Exists(q.who)'
    BY DEF PeopleStep
  <2>2. QED
    BY <1>1, <2>1 DEF PersonRequest, Exists
<1>2. ASSUME NEW h \in Handlers PROVE PersonRequest(req[h])'
  <2>1. PICK q : q = req'[h]
    OBVIOUS
  <2>2. PersonRequest(q)
    BY <2>1 DEF PeopleInv, ReqTypes, SoundTurn, SoundFor, reqVars
  <2>3. PersonRequest(q)'
    BY <2>2, <1>1
  <2>4. QED
    BY <2>1, <2>3 DEF PersonRequest, Exists
<1>3. QED
  BY <1>2 DEF PeopleInv, PeopleStep

LEMMA PeopleStand ==
  ASSUME PeopleInv, UNCHANGED <<accountVars, officeVars>> PROVE PeopleStep
  BY DEF PeopleInv, PeopleStep, AccountsTypeOK, OfficesTypeOK, PeopleKnown, Exists, IsOffice, accountVars, officeVars

\* What the requests write of an account is an account.
AccountWritten ==
  /\ account' \in [Accounts -> Account \union {None}]
  /\ proved' \in [Accounts -> Proofs]
  /\ \A a \in Accounts : Exists(a) => Exists(a)'

LEMMA RowWritten ==
  ASSUME PeopleInv, NEW a \in Accounts, NEW row \in Account, account' = [account EXCEPT ![a] = row]
  PROVE  /\ account' \in [Accounts -> Account \union {None}]
         /\ \A x \in Accounts : Exists(x) => Exists(x)'
         /\ Exists(a)'
  BY NoneIsNoAccountRow DEF PeopleInv, AccountsTypeOK, Exists

LEMMA MarkWritten ==
  ASSUME PeopleInv, NEW a \in Accounts, NEW p, KeepMark(a, p) PROVE proved' \in [Accounts -> Proofs]
<1>1. proved \in [Accounts -> Proofs]
  BY DEF PeopleInv, AccountsTypeOK
<1>2. MarkOf(account[a], p, proved[a]) \in Proofs
  BY <1>1 DEF MarkOf, Proofs
<1>3. QED
  BY <1>1, <1>2 DEF KeepMark

LEMMA AccountOf == ASSUME PeopleInv, NEW a \in Accounts, Exists(a) PROVE account[a] \in Account
  BY DEF PeopleInv, AccountsTypeOK, Exists

LEMMA SoftDeleteWrites ==
  ASSUME PeopleInv, NEW a \in Accounts, Exists(a), SoftDelete(a) PROVE AccountWritten
<1>1. PICK old \in Account : old = account[a]
  BY AccountOf
<1>2. SoftDeleted(a) \in Account
  BY <1>1 DEF SoftDeleted, Account, AccountStatus
<1>3. QED
  BY <1>2, RowWritten DEF SoftDelete, AccountWritten, PeopleInv, AccountsTypeOK, Proofs

LEMMA CreateWrites ==
  ASSUME PeopleInv, NEW a \in Accounts, NEW row \in Account, Create(a, row) PROVE AccountWritten /\ Exists(a)'
  BY RowWritten DEF Create, AccountWritten, PeopleInv, AccountsTypeOK, Proofs

LEMMA NewAccountIs ==
  ASSUME NEW role \in Roles, NEW e \in Emails, NEW p \in Phones, NEW w \in Passwords, NEW r \in AdminRoles \union {None}
  PROVE  [NewAccount(role, e, p, w) EXCEPT !.status = "ACTIVE", !.verified = TRUE, !.adminRole = r] \in Account
  BY DEF NewAccount, Account, AccountStatus

LEMMA WrittenSteps ==
  ASSUME PeopleInv, AccountWritten, UNCHANGED officeVars PROVE PeopleStep
  BY DEF PeopleInv, AccountWritten, PeopleStep, AccountsTypeOK, OfficesTypeOK, PeopleKnown, IsOffice, officeVars,
     Employee, Office

LEMMA AdminsStep == ASSUME PeopleInv, AdminNext, UNCHANGED officeVars PROVE PeopleStep
<1>1. ASSUME NEW a \in Accounts, NEW e \in Emails, NEW p \in Phones, NEW w \in Passwords, NEW r \in AdminRoles,
             CreateAdminAccount(a, e, p, w, r)
      PROVE  AccountWritten
  <2>1. [NewAccount("ADMIN", e, p, w) EXCEPT !.status = "ACTIVE", !.verified = TRUE, !.adminRole = r] \in Account
    BY NewAccountIs DEF Roles
  <2>2. QED
    BY <1>1, <2>1, CreateWrites DEF CreateAdminAccount
<1>2. ASSUME NEW a \in Accounts, NEW e \in Emails, NEW p \in Phones, NEW w \in Passwords, NEW r \in AdminRoles,
             UpdateAdminEmployee(a, e, p, w, r)
      PROVE  AccountWritten
  <2>1. PICK old \in Account : old = account[a]
    BY <1>2, AccountOf DEF UpdateAdminEmployee, HasRole
  <2>2. [account[a] EXCEPT !.email = e, !.phone = p, !.password = w, !.adminRole = r] \in Account
    BY <2>1 DEF Account
  <2>3. QED
    BY <1>2, <2>2, RowWritten, MarkWritten DEF UpdateAdminEmployee, AccountWritten
<1>3. ASSUME NEW a \in Accounts, DeleteAdminEmployee(a) \/ DeleteUser(a) PROVE AccountWritten
  BY <1>3, SoftDeleteWrites DEF DeleteAdminEmployee, DeleteUser, HasRole
<1>4. ASSUME NEW h \in Handlers, NEW a \in Accounts, ToggleRead(h, a) PROVE PeopleStep
  BY <1>4, PeopleStand DEF ToggleRead
<1>5. ASSUME NEW h \in Handlers, ToggleSave(h) PROVE AccountWritten
  <2>1. PICK a \in Accounts : a = req[h].who /\ Exists(a) /\ req[h].status \in AccountStatus
    BY <1>5 DEF ToggleSave, At, PeopleInv, PersonRequest
  <2>2. PICK old \in Account : old = account[a]
    BY <2>1, AccountOf
  <2>3. [old EXCEPT !.status = req[h].status] \in Account
    BY <2>1, <2>2 DEF Account
  <2>4. account' = [account EXCEPT ![a] = [old EXCEPT !.status = req[h].status]] /\ proved' = proved
    BY <1>5, <2>1, <2>2 DEF ToggleSave, SetStatus
  <2>5. QED
    BY <2>3, <2>4, RowWritten DEF AccountWritten, PeopleInv, AccountsTypeOK
<1>6. ASSUME NEW a \in Accounts, NEW e \in Emails, NEW p \in Phones, NEW s \in AccountStatus, UpdateUser(a, e, p, s)
      PROVE  AccountWritten
  <2>1. PICK old \in Account : old = account[a]
    BY <1>6, AccountOf DEF UpdateUser, HasRole
  <2>2. [account[a] EXCEPT !.email = e, !.phone = p, !.status = s] \in Account
    BY <2>1 DEF Account
  <2>3. QED
    BY <1>6, <2>2, RowWritten, MarkWritten DEF UpdateUser, AccountWritten
<1>7. QED
  BY <1>1, <1>2, <1>3, <1>4, <1>5, <1>6, WrittenSteps DEF AdminNext, AdminEdits

LEMMA EmployeesStep == ASSUME PeopleInv, PeopleRequests PROVE PeopleStep
<1>1. ASSUME NEW o \in Accounts, NEW a \in Accounts, NEW e \in Employees, NEW em \in Emails, NEW p \in Phones,
             NEW w \in Passwords, AddOfficeEmployeeWithAccount(o, e, a, em, p, w)
      PROVE  PeopleStep
  <2>1. [NewAccount("OFFICE", em, p, w) EXCEPT !.status = "ACTIVE", !.verified = TRUE] \in Account
    BY DEF NewAccount, Account, AccountStatus, Roles
  <2>2. AccountWritten /\ Exists(a)'
    BY <1>1, <2>1, CreateWrites DEF AddOfficeEmployeeWithAccount
  <2>3. PICK row \in Employee : row = [office |-> o, account |-> a, isActive |-> TRUE]
    BY DEF Employee
  <2>4. employee' = [employee EXCEPT ![e] = row] /\ UNCHANGED <<office, details>>
    BY <1>1, <2>3 DEF AddOfficeEmployeeWithAccount, SetEmployee
  <2>5. OfficesTypeOK'
    BY <2>4 DEF PeopleInv, OfficesTypeOK
  <2>6. ASSUME NEW x \in Employees, employee'[x] # None, employee'[x].account # None
        PROVE  account'[employee'[x].account] # None
    <3>1. CASE x = e
      BY <2>2, <2>3, <2>4, <3>1 DEF PeopleInv, OfficesTypeOK, Exists
    <3>2. CASE x # e
      <4>1. employee'[x] = employee[x] /\ Exists(employee[x].account) /\ employee[x].account \in Accounts
        BY <2>4, <2>6, <3>2 DEF PeopleInv, OfficesTypeOK, PeopleKnown, Employee
      <4>2. QED
        BY <2>2, <4>1 DEF AccountWritten, Exists
    <3>3. QED
      BY <3>1, <3>2
  <2>7. PeopleKnown'
    BY <2>2, <2>4, <2>6 DEF PeopleInv, PeopleKnown, IsOffice, Exists, AccountWritten
  <2>8. QED
    BY <2>2, <2>5, <2>7 DEF PeopleStep, AccountWritten, AccountsTypeOK
<1>2. ASSUME NEW h \in Handlers, NEW e \in Employees, RemoveEmployee(h, e) PROVE PeopleStep
  <2>1. PICK a \in Accounts : a = employee[e].account /\ Exists(a)
    BY <1>2 DEF RemoveEmployee, FreeRow, PeopleInv, PeopleKnown, OfficesTypeOK, Employee
  <2>2. AccountWritten
    BY <1>2, <2>1, SoftDeleteWrites DEF RemoveEmployee
  <2>3. UNCHANGED <<office, employee, details>>
    BY <1>2 DEF RemoveEmployee
  <2>4. QED
    BY <2>2, <2>3 DEF PeopleInv, AccountWritten, PeopleStep, AccountsTypeOK, OfficesTypeOK, PeopleKnown, IsOffice,
       Employee
<1>3. ASSUME NEW h \in Handlers, ClearEmployee(h) PROVE PeopleStep
  <2>1. PICK e \in Employees : e = req[h].row
    BY <1>3 DEF ClearEmployee, At, PeopleInv, PersonRequest
  <2>2. UNCHANGED <<account, asked, proved>> /\ UNCHANGED <<office, details>>
    BY <1>3 DEF ClearEmployee, accountVars
  <2>3. CASE FreeRow(e)
    BY <1>3, <2>1, <2>2, <2>3 DEF ClearEmployee, PeopleInv, PeopleStep, AccountsTypeOK, OfficesTypeOK, PeopleKnown,
       IsOffice, Exists
  <2>4. CASE ~FreeRow(e)
    <3>1. PICK old \in Employee : old = employee[e]
      BY <2>4 DEF FreeRow, PeopleInv, OfficesTypeOK
    <3>2. PICK row : row = [old EXCEPT !.isActive = FALSE, !.account = None]
      OBVIOUS
    <3>3. row \in Employee /\ row.account = None
      BY <3>2 DEF Employee
    <3>4. employee' = [employee EXCEPT ![e] = row]
      BY <1>3, <2>1, <2>4, <3>1, <3>2 DEF ClearEmployee, SetEmployee
    <3>5. QED
      BY <2>2, <3>3, <3>4 DEF PeopleInv, PeopleStep, AccountsTypeOK, OfficesTypeOK, PeopleKnown, IsOffice, Exists
  <2>5. QED
    BY <2>3, <2>4
<1>4. ASSUME NEW o \in Accounts, DeleteOffice(o) PROVE PeopleStep
  <2>1. AccountWritten
    BY <1>4, SoftDeleteWrites DEF DeleteOffice, PeopleInv, PeopleKnown
  <2>2. office' = [office EXCEPT ![o] = None] /\ details' = details
    BY <1>4 DEF DeleteOffice, SetOffice
  <2>3. /\ employee' \in [Employees -> Employee \union {None}]
        /\ \A e \in Employees : employee'[e] # None => employee'[e] = employee[e]
    BY <1>4 DEF DeleteOffice, PeopleInv, OfficesTypeOK
  <2>4. QED
    BY <2>1, <2>2, <2>3 DEF PeopleInv, AccountWritten, PeopleStep, AccountsTypeOK, OfficesTypeOK, PeopleKnown, IsOffice,
       Employee
<1>5. QED
  BY <1>1, <1>2, <1>3, <1>4, AdminsStep DEF PeopleRequests

\* A turn of a request of people leaves it sound.
LEMMA PeopleTurn ==
  ASSUME PeopleInv, PeopleRequests
  PROVE  Turn(PeoplePoints) /\ SoundTurn
<1>1. ASSUME NEW h \in Handlers, NEW a \in Accounts, ToggleRead(h, a) PROVE Turn(PeoplePoints) /\ SoundTurn
  <2>1. PICK r : r = [at |-> "toggle", who |-> a, status |-> Toggled(account[a])]
    OBVIOUS
  <2>2. Exists(a) /\ Begin(h, r) /\ Toggled(account[a]) \in AccountStatus
    BY <1>1, <2>1 DEF ToggleRead, Toggled, AccountStatus
  <2>3. PersonRequest(r) /\ r.at \in PeoplePoints
    BY <2>1, <2>2 DEF PersonRequest, PeoplePoints
  <2>4. SoundFor(h, r)
    BY <2>2, <2>3 DEF Begin, SoundFor
  <2>5. QED
    BY <2>2, <2>3, <2>4, BeginTurns DEF SoundTurn
<1>2. ASSUME NEW h \in Handlers, NEW e \in Employees, RemoveEmployee(h, e) PROVE Turn(PeoplePoints) /\ SoundTurn
  <2>1. PICK r : r = [at |-> "clear_employee", row |-> e]
    OBVIOUS
  <2>2. Begin(h, r)
    BY <1>2, <2>1 DEF RemoveEmployee
  <2>3. PersonRequest(r) /\ r.at \in PeoplePoints
    BY <2>1 DEF PersonRequest, PeoplePoints
  <2>4. SoundFor(h, r)
    BY <2>2, <2>3 DEF Begin, SoundFor
  <2>5. QED
    BY <2>2, <2>3, <2>4, BeginTurns DEF SoundTurn
<1>3. ASSUME NEW h \in Handlers, Done(h), At(h, "toggle") \/ At(h, "clear_employee") PROVE Turn(PeoplePoints) /\ SoundTurn
  <2>1. PersonRequest(Idle)
    BY DEF PersonRequest, Idle
  <2>2. SoundFor(h, Idle)
    BY <1>3, <2>1 DEF Done, Goto, SoundFor
  <2>3. Turn(PeoplePoints)
    BY <1>3, DoneTurns DEF At, PeoplePoints
  <2>4. QED
    BY <2>2, <2>3 DEF SoundTurn
<1>4. ASSUME UNCHANGED reqVars PROVE Turn(PeoplePoints) /\ SoundTurn
  BY <1>4, StillTurns DEF SoundTurn
<1>5. CASE AdminNext
  <2>1. \/ UNCHANGED reqVars
        \/ \E h \in Handlers, a \in Accounts : ToggleRead(h, a)
        \/ \E h \in Handlers : Done(h) /\ At(h, "toggle")
    <3>1. ASSUME NEW a \in Accounts, NEW e \in Emails, NEW p \in Phones, NEW w \in Passwords, NEW r \in AdminRoles,
                 CreateAdminAccount(a, e, p, w, r) \/ UpdateAdminEmployee(a, e, p, w, r)
          PROVE  UNCHANGED reqVars
      BY <3>1 DEF CreateAdminAccount, UpdateAdminEmployee, AtOnce
    <3>2. ASSUME NEW a \in Accounts, NEW e \in Emails, NEW p \in Phones, NEW s \in AccountStatus, UpdateUser(a, e, p, s)
          PROVE  UNCHANGED reqVars
      BY <3>2 DEF UpdateUser, AtOnce
    <3>3. ASSUME NEW a \in Accounts, DeleteAdminEmployee(a) \/ DeleteUser(a) PROVE UNCHANGED reqVars
      BY <3>3 DEF DeleteAdminEmployee, DeleteUser, AtOnce
    <3>4. ASSUME NEW h \in Handlers, ToggleSave(h) PROVE Done(h) /\ At(h, "toggle")
      BY <3>4 DEF ToggleSave
    <3>5. QED
      BY <1>5, <3>1, <3>2, <3>3, <3>4 DEF AdminNext, AdminEdits
  <2>2. QED
    BY <1>1, <1>3, <1>4, <2>1
<1>6. ASSUME NEW o, NEW a, NEW e, NEW em, NEW p, NEW w,
             AddOfficeEmployeeWithAccount(o, e, a, em, p, w) \/ DeleteOffice(o)
      PROVE  UNCHANGED reqVars
  BY <1>6 DEF AddOfficeEmployeeWithAccount, DeleteOffice, AtOnce
<1>7. ASSUME NEW h \in Handlers, ClearEmployee(h) PROVE Done(h) /\ At(h, "clear_employee")
  BY <1>7 DEF ClearEmployee
<1>8. QED
  BY <1>2, <1>3, <1>4, <1>5, <1>6, <1>7 DEF PeopleRequests

LEMMA OthersKeepPeople ==
  ASSUME PeopleInv, ReqTypes, UNCHANGED <<accountVars, officeVars>>, Foreign(PeoplePoints) PROVE PeopleInv'
<1>1. PeopleStep
  BY PeopleStand
<1>2. SoundTurn
  <2>1. \A r : r.at \notin PeoplePoints => PersonRequest(r)
    BY DEF PersonRequest, PeoplePoints
  <2>2. QED
    BY <2>1 DEF Foreign, GoesTo, SoundTurn, SoundFor
<1>3. QED
  BY <1>1, <1>2, PeopleStepKeeps

\* Messages are about people and change none of them.
LEMMA MessagesLeavePeople ==
  ASSUME ChatMoves \/ NotificationMoves \/ ReviewMoves PROVE UNCHANGED <<accountVars, officeVars>>
<1>1. ASSUME NEW h, NEW a, NEW cs, NEW then, Enter(h, a, cs, then) PROVE UNCHANGED <<accountVars, officeVars>>
  BY <1>1 DEF Enter
<1>2. CASE ChatMoves
  BY <1>1, <1>2 DEF ChatMoves, ListConversations, UseConversation, CreateConversation, Say, ChatStep,
     InsertConversation, AddTeam, AddSelf, SendMessage, MarkAsRead, OfferMade, GatewayNext
<1>3. CASE NotificationMoves
  BY <1>3 DEF NotificationMoves, NotifyRequest, HandleEvent, MarkRead, RegisterDeviceRead, NotificationsStep, SaveRow,
     AddJob, SaveRead, RegisterDevice, NotifyAtOnce, SeedTemplate, QueueBatch, MarkAllAsRead, DeleteSince,
     RemoveDevice, WorkerStep, SegmentNext
<1>4. CASE ReviewMoves
  BY <1>4 DEF ReviewMoves, CreateReviewRead, UpdateReviewRead, ToggleHideRead, ReviewsStep, CreateReview, SaveReview,
     DeleteReview, CompleteBooking
<1>5. QED
  BY <1>2, <1>3, <1>4

LEMMA PeopleLast ==
  ASSUME UNCHANGED <<accountVars, officeVars>>, NotifyInv
  PROVE  /\ employee' \in [Employees -> Employee \union {None}]
         /\ (\A a \in Accounts : Exists(a) => Exists(a)') /\ NewIds
  BY PeopleStay DEF NotifyInv, Types, OtherTypes, NewIds

-----------------------------------------------------------------------------
(* All of them in one process: the invariant *)

MessagingInv == ChatInv /\ NotifyInv /\ ReviewInv /\ PeopleInv

LEMMA SocketsGone == ASSUME SocketsLost PROVE PresenceInv'
<1>1. socket' = [s \in Sockets |-> NewSocket] /\ NewSocket \in Socket
  BY DEF SocketsLost, Socket, NewSocket
<1>2. GatewayTypeOK'
  BY <1>1 DEF SocketsLost, GatewayTypeOK
<1>3. ASSUME NEW s \in Sockets PROVE SocketStands(s)'
  BY <1>1 DEF SocketsLost, SocketStands, NewSocket
<1>4. QED
  BY <1>2, <1>3 DEF SocketsLost, PresenceInv

\* With the process go the requests and the sockets; the tables and the queue stay.
LEMMA CrashKeeps == ASSUME MessagingInv, Crash PROVE MessagingInv'
<1>1. /\ req' = [h \in Handlers |-> Idle] /\ serial' = serial
      /\ UNCHANGED <<account, asked, proved>> /\ UNCHANGED <<office, employee>>
      /\ details' \in [Accounts -> {None}]
      /\ UNCHANGED chatVars /\ UNCHANGED reviewVars
  BY DEF Crash, Restart, accountVars
<1>2. NotifyInv'
  BY <1>1, RestartKeeps DEF MessagingInv, Crash
<1>3. TalkInv'
  <2>1. TalkGrows /\ TalkFacts'
    BY <1>1, RowsUntouched DEF MessagingInv, ChatInv, TalkInv, chatVars
  <2>2. ASSUME NEW h \in Handlers PROVE TalkRequest(req[h])'
    BY <1>1, IdleTalksOn DEF TalkRequest
  <2>3. TalkRequests'
    BY <1>1, <2>2 DEF TalkRequests
  <2>4. QED
    BY <2>1, <2>3 DEF TalkInv, TalkGrows
<1>4. PresenceInv'
  BY SocketsGone DEF Crash
<1>5. ReviewInv'
  <2>1. RequestsLast
    BY <1>1, IdleIsSound DEF RequestsLast
  <2>2. QED
    BY <1>1, <2>1, RowsLeft, RowsKeep DEF MessagingInv
<1>6. PeopleInv'
  <2>1. AccountsTypeOK' /\ OfficesTypeOK' /\ PeopleKnown'
    BY <1>1 DEF MessagingInv, PeopleInv, AccountsTypeOK, OfficesTypeOK, PeopleKnown, IsOffice, Exists
  <2>2. \A h \in Handlers : PersonRequest(req[h])'
    BY <1>1 DEF PersonRequest, Idle
  <2>3. QED
    BY <2>1, <2>2 DEF PeopleInv
<1>7. QED
  BY <1>2, <1>3, <1>4, <1>5, <1>6 DEF MessagingInv, ChatInv

LEMMA DropsKeep ==
  ASSUME MessagingInv, NEW h \in Handlers, Drop(h),
         UNCHANGED <<accountVars, officeVars, chatVars, gatewayVars, notifyVars, segmentVars, reviewVars>>
  PROVE  MessagingInv'
<1>1. UNCHANGED <<accountVars, officeVars, notifyVars>> /\ UNCHANGED segmentVars /\ UNCHANGED chatVars
      /\ UNCHANGED gatewayVars /\ UNCHANGED reviewVars /\ UNCHANGED <<accountVars, officeVars>>
  OBVIOUS
<1>2. ChatInv' /\ NotifyInv' /\ ReviewInv'
  BY <1>1, ChatDrops, DropKeeps, ReviewsDrop DEF MessagingInv
<1>3. PeopleInv'
  <2>1. SoundFor(h, Idle)
    BY DEF Drop, SoundFor, PersonRequest, Idle
  <2>2. PeopleStep /\ ReqTypes
    BY <1>1, PeopleStand DEF MessagingInv, NotifyInv, Types
  <2>3. QED
    BY <2>1, <2>2, PeopleStepKeeps DEF MessagingInv, SoundTurn
<1>4. QED
  BY <1>2, <1>3 DEF MessagingInv

LEMMA MessagingStart == ASSUME MessagingInit PROVE MessagingInv
<1>1. PICK oneAtATime \in BOOLEAN : RequestsInit(oneAtATime)
  BY DEF MessagingInit
<1>2. ChatInv
  BY <1>1, TalkStarts, SocketsStart DEF MessagingInit, ChatInv
<1>3. NotifyInv
  BY <1>1, NotifyStart DEF MessagingInit
<1>4. ReviewInv
  BY <1>1, ReviewsStart DEF MessagingInit
<1>5. PeopleInv
  BY <1>1 DEF MessagingInit, PeopleInv, PersonRequest, RequestsInit, Idle
<1>6. QED
  BY <1>2, <1>3, <1>4, <1>5 DEF MessagingInv

LEMMA MessagingStep ==
  ASSUME MessagingInv, [MessagingNext]_messagingVars PROVE MessagingInv'
<1> USE DEF MessagingInv
<1>1. ReqTypes
  BY DEF NotifyInv, Types
<1>2. CASE ChatMoves /\ UNCHANGED <<notifyVars, segmentVars, reviewVars>>
  <2>1. ChatInv' /\ Turn(TalkPoints) /\ UNCHANGED <<accountVars, officeVars>>
    BY <1>2, ChatMovesOn, TalksTurn, MessagesLeavePeople
  <2>2. Foreign(NotifyPoints) /\ Foreign(ReviewPoints) /\ Foreign(PeoplePoints)
    BY <2>1, TurnsAreForeign DEF TalkPoints, NotifyPoints, ReviewPoints, PeoplePoints
  <2>3. UNCHANGED notifyVars /\ UNCHANGED segmentVars /\ UNCHANGED reviewVars
    BY <1>2
  <2>4. NotifyInv'
    BY <2>1, <2>2, <2>3, PeopleLast, OthersKeepNotifications
  <2>5. QED
    BY <1>1, <2>1, <2>2, <2>3, <2>4, OthersKeepReviews, OthersKeepPeople
<1>3. CASE NotificationMoves /\ UNCHANGED <<chatVars, gatewayVars, reviewVars>>
  <2>1. NotifyInv' /\ Turn(NotifyPoints) /\ UNCHANGED <<accountVars, officeVars>>
    BY <1>3, NotificationsMoveOn, NotificationsTurn, MessagesLeavePeople
  <2>2. Foreign(TalkPoints) /\ Foreign(ReviewPoints) /\ Foreign(PeoplePoints)
    BY <2>1, TurnsAreForeign DEF TalkPoints, NotifyPoints, ReviewPoints, PeoplePoints
  <2>3. UNCHANGED chatVars /\ UNCHANGED gatewayVars /\ UNCHANGED reviewVars
    BY <1>3
  <2>4. QED
    BY <1>1, <2>1, <2>2, <2>3, OthersKeepTalk, OthersKeepReviews, OthersKeepPeople
<1>4. CASE ReviewMoves /\ UNCHANGED <<chatVars, gatewayVars, notifyVars, segmentVars>>
  <2>1. ReviewInv' /\ Turn(ReviewPoints) /\ UNCHANGED <<accountVars, officeVars>>
    BY <1>4, ReviewsMoveOn, ReviewsTurn, MessagesLeavePeople
  <2>2. Foreign(TalkPoints) /\ Foreign(NotifyPoints) /\ Foreign(PeoplePoints)
    BY <2>1, TurnsAreForeign DEF TalkPoints, NotifyPoints, ReviewPoints, PeoplePoints
  <2>3. UNCHANGED chatVars /\ UNCHANGED gatewayVars /\ UNCHANGED notifyVars /\ UNCHANGED segmentVars
    BY <1>4
  <2>4. NotifyInv'
    BY <2>1, <2>2, <2>3, PeopleLast, OthersKeepNotifications
  <2>5. QED
    BY <1>1, <2>1, <2>2, <2>3, <2>4, OthersKeepTalk, OthersKeepPeople
<1>5. CASE PeopleRequests /\ NewIds /\ UNCHANGED <<chatVars, gatewayVars, notifyVars, segmentVars, reviewVars>>
  <2>1. PeopleStep /\ Turn(PeoplePoints)
    BY <1>5, EmployeesStep, PeopleTurn
  <2>2. PeopleInv'
    BY <1>1, <1>5, <2>1, PeopleTurn, PeopleStepKeeps
  <2>3. Foreign(TalkPoints) /\ Foreign(NotifyPoints) /\ Foreign(ReviewPoints)
    BY <2>1, TurnsAreForeign DEF TalkPoints, NotifyPoints, ReviewPoints, PeoplePoints
  <2>4. /\ UNCHANGED chatVars /\ UNCHANGED gatewayVars /\ UNCHANGED notifyVars /\ UNCHANGED segmentVars
        /\ UNCHANGED reviewVars
    BY <1>5
  <2>5. employee' \in [Employees -> Employee \union {None}] /\ \A a \in Accounts : Exists(a) => Exists(a)'
    BY <2>1 DEF PeopleStep, OfficesTypeOK
  <2>6. NotifyInv'
    BY <1>5, <2>3, <2>4, <2>5, OthersKeepNotifications
  <2>7. QED
    BY <2>2, <2>3, <2>4, <2>6, OthersKeepTalk, OthersKeepReviews
<1>6. CASE UNCHANGED messagingVars
  <2>1. /\ UNCHANGED chatVars /\ UNCHANGED gatewayVars /\ UNCHANGED notifyVars /\ UNCHANGED segmentVars
        /\ UNCHANGED reviewVars /\ UNCHANGED <<accountVars, officeVars>> /\ UNCHANGED reqVars
    BY <1>6 DEF messagingVars
  <2>2. \A others : Foreign(others)
    BY <2>1 DEF Foreign, GoesTo
  <2>3. NotifyInv'
    BY <2>1, <2>2, PeopleLast, OthersKeepNotifications
  <2>4. QED
    BY <1>1, <2>1, <2>2, <2>3, OthersKeepTalk, OthersKeepReviews, OthersKeepPeople
<1>7. QED
  BY <1>2, <1>3, <1>4, <1>5, <1>6, DropsKeep, CrashKeeps DEF MessagingNext

LEMMA MessagingInvariant == MessagingSpec => []MessagingInv
  BY MessagingStart, MessagingStep, PTL DEF MessagingSpec

\* Whatever chats, sockets, events, workers, reviews, admins and offices do at the same time,
\* and though the process dies, every table, queue and table in memory stays in its type.
THEOREM MessagingTypes == MessagingSpec => []MessagingTypeOK
<1>1. ASSUME MessagingInv PROVE MessagingTypeOK
  BY <1>1, NotifyTyped DEF MessagingInv, ChatInv, TalkInv, TalkTables, ChatTypeOK, PresenceInv, ReviewInv, ReviewTables,
     ReviewsTypeOK, PeopleInv, MessagingTypeOK
<1>2. QED
  BY <1>1, MessagingInvariant, PTL

\* What holds of chats, sockets, notifications and reviews alone holds of them together: no
\* request of one is in the way of the others, and no edit of an account, an office or an
\* employee between two messages is (ChatService, ChatGateway, NotificationService, the
\* processors of the queue, ReviewService).
THEOREM MessagingStands ==
  MessagingSpec => [](ChatSound /\ PresenceTrue /\ NotificationsKept /\ ReviewsSound)
<1>1. ASSUME MessagingInv PROVE ChatSound
  BY <1>1, NothingHidden DEF MessagingInv, ChatInv, TalkInv, TalkFacts, ChatSound
<1>2. ASSUME MessagingInv PROVE PresenceTrue /\ NotificationsKept /\ ReviewsSound
  BY <1>2, PresenceIsTrue, SeldomAccepted, OneRowOfAMessage, ReadIsRead, ReviewsAreEarned, StatsAreAlike
     DEF MessagingInv, ChatInv, NotifyInv, NotificationsKept, ReviewsSound
<1>3. QED
  BY <1>1, <1>2, MessagingInvariant, PTL
=============================================================================
