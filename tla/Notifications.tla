---------------------------- MODULE Notifications ----------------------------
(***************************************************************************)
(* Notifications: rows in the database, jobs in a Bull queue that Redis    *)
(* keeps, and the worker that hands them to a provider                     *)
(* (src/module/notification). A job runs up to three times; the queue      *)
(* gives a job back once when the process that ran it dies.                *)
(***************************************************************************)
EXTENDS Offices

CONSTANTS MaxNotifications,
          Batches,        \* ids of jobs of an admin's message
          Tokens,         \* device tokens
          Channels        \* the channels in use

ASSUME ChannelsAssumption == "push" \in Channels /\ Channels \subseteq {"push", "email", "sms", "in_app"}
ASSUME MaxNotificationsNat == MaxNotifications \in Nat

VARIABLES notification,   \* notifications
          deleted,        \* ids of rows that were deleted
          sendJob,        \* the 'send' job of a notification
          batch,          \* the 'send-bulk-direct-batch' jobs
          device,         \* user_devices: the account of a token
          language,       \* accounts.language; None when it is not set
          template,       \* languages the template of the event exists in
          segment,        \* the 'send-bulk-segment' job
          reached,        \* history: how often the provider took it
          accepted,       \* history: how often a provider took a notification
          seen,           \* history: notifications that were marked as read
          trouble         \* history: what the worker did not get to write, and whether it died

notifyVars == <<notification, deleted, sendJob, batch, device, language, template,
                accepted, seen, trouble>>
segmentVars == <<segment, reached>>

Notifications == 1..MaxNotifications
Attempts == 3
Languages == {"ar", "en", "fr"}

Notification == [to : Accounts, channel : Channels, source : {"SYSTEM", "ADMIN"},
                 status : {"PENDING", "SENT", "FAILED", "READ"}, read : BOOLEAN]
Stages == {"waiting", "sending", "accepted", "refused", "thrown"}
SendJob == [at : Stages, tries : 0..Attempts]
\* kind: an admin's own words, or a template; left: recipients still to be served; row: the
\* notification being delivered
Batch == [kind : {"direct", "template"}, at : Stages \union {"next", "done"}, to : SUBSET Accounts, left : SUBSET Accounts,
          channel : Channels, row : Notifications \union {None}]

\* stranded: rows a batch had in hand when it threw or died; unsaved: recipients whose row a
\* batch could not save; unmarked: attempts of a job that ended without a status for the row
Trouble == [died : BOOLEAN, stranded : SUBSET Notifications, unsaved : SUBSET (Batches \X Accounts),
            unmarked : [Notifications -> Nat]]

ASSUME NoneIsNoNotificationRow ==
  /\ None \notin Notification /\ None \notin SendJob /\ None \notin Batch
  /\ None \notin Notifications /\ None \notin Tokens /\ None \notin Batches

NotificationsTypeOK ==
  /\ notification \in [Notifications -> Notification \union {None}]
  /\ sendJob \in [Notifications -> SendJob \union {None}]
  /\ batch \in [Batches -> Batch \union {None}]
  /\ device \in [Tokens -> Accounts \union {None}]
  /\ language \in [Accounts -> Languages \union {None}]
  /\ segment \in SendJob \union {None}
  /\ trouble \in Trouble

NotificationsInit ==
  /\ notification = [n \in Notifications |-> None]
  /\ deleted = {}
  /\ sendJob = [n \in Notifications |-> None]
  /\ batch = [b \in Batches |-> None]
  /\ device = [t \in Tokens |-> None]
  /\ accepted = [n \in Notifications |-> 0]
  /\ seen = {}
  /\ trouble = [died |-> FALSE, stranded |-> {}, unsaved |-> {}, unmarked |-> [n \in Notifications |-> 0]]
  /\ segment = None
  /\ reached = 0

Issued == {n \in Notifications : notification[n] # None}
Present == Issued \ deleted
NextId == Cardinality(Issued) + 1
Full == Issued = Notifications

NewNotification(a, ch, source) ==
  [to |-> a, channel |-> ch, source |-> source, status |-> "PENDING", read |-> FALSE]

\* Mutant: the row is saved as the worker loaded it.
SaveLoadedRow(n, status) ==
  notification' = IF n \in deleted THEN notification
                  ELSE [notification EXCEPT ![n].status = status, ![n].read = FALSE]

\* updateStatus: an update by id, that a row no longer there ignores
UpdateStatus(n, status) ==
  notification' = IF n \in deleted THEN notification
                  ELSE [notification EXCEPT ![n].status = status]

(***************************************************************************)
(* Templates (services/template.service.ts, seed)                          *)
(***************************************************************************)

DefaultLanguage == "ar"

\* The seed adds the templates that are missing when the process starts; another process
\* that starts at the same time may have added some.
SeedTemplate(lang) ==
  /\ lang \in {"ar", "en"} \ template
  /\ template' = template \union {lang}
  /\ UNCHANGED <<accountVars, officeVars, reqVars, notification, deleted, sendJob, batch,
                 device, language, accepted, seen, trouble>>

\* getTemplate: the account's language, else the default one, else English
GetTemplate(lang) ==
  LET choices == {lang, DefaultLanguage, "en"} \intersect template IN
  IF lang \in choices THEN lang
  ELSE IF DefaultLanguage \in choices THEN DefaultLanguage
  ELSE IF "en" \in choices THEN "en" ELSE None

\* buildNotification finds a text for the account.
Rendered(a) ==
  GetTemplate(IF language[a] = None THEN DefaultLanguage ELSE language[a]) # None

(***************************************************************************)
(* Events: the listener notifies one account after another                 *)
(***************************************************************************)

\* getAllOfficeTeamAccountIds (new.booking), getAdminAccountIds (office.registered,
\* office.change_request), or the account the event names (new.offer and the others)
EveryTeam == UNION {Team(o) : o \in {x \in Accounts : IsOffice(x)}}
Admins == {a \in Accounts : HasRole(a, "ADMIN")}

HandleEvent(h, recipients) ==
  /\ recipients # {}
  /\ Begin(h, [at |-> "notify", left |-> recipients])
  /\ UNCHANGED <<accountVars, officeVars, notifyVars>>

\* createAndQueue saves the row; without a template it goes on to the next account.
SaveRow(h, a) ==
  LET left == req[h].left \ {a} IN
  /\ At(h, "notify")
  /\ a \in req[h].left
  /\ IF ~Rendered(a)
     THEN /\ IF left = {} THEN Done(h) ELSE Goto(h, [req[h] EXCEPT !.left = left])
          /\ UNCHANGED notification
     ELSE /\ ~Full
          /\ notification' = [notification EXCEPT ![NextId] = NewNotification(a, "push", "SYSTEM")]
          /\ Goto(h, [at |-> "enqueue", left |-> left, row |-> NextId])
  /\ UNCHANGED <<accountVars, officeVars, deleted, sendJob, batch, device, language, template,
                 accepted, seen, trouble>>

\* ... and then adds the job, unless Redis is away: the request fails and the row stays.
AddJob(h) ==
  /\ At(h, "enqueue")
  /\ sendJob' = [sendJob EXCEPT ![req[h].row] = [at |-> "waiting", tries |-> 0]]
  /\ IF req[h].left = {} THEN Done(h) ELSE Goto(h, [at |-> "notify", left |-> req[h].left])
  /\ UNCHANGED <<accountVars, officeVars, notification, deleted, batch, device, language, template,
                 accepted, seen, trouble>>

(***************************************************************************)
(* The worker: 'send'                                                      *)
(***************************************************************************)

SetSend(n, job) == sendJob' = [sendJob EXCEPT ![n] = job]
SendAt(n, stage) == sendJob[n] # None /\ sendJob[n].at = stage

\* sendPush and sendPushByExternalIds, and sendSms, answer false to whatever goes wrong;
\* sendEmail throws.
PushAnswers == {"accepted", "refused"}
SmsAnswers == {"accepted", "refused"}
EmailAnswers == {"accepted", "thrown"}

\* The lookup of the tokens, the address or the number can throw before, and an address or
\* a number that is missing is a refusal.
Outcomes(ch) ==
  CASE ch = "in_app" -> {"accepted"}
    [] ch = "push" -> PushAnswers \union {"thrown"}
    [] ch = "email" -> EmailAnswers \union {"refused"}
    [] ch = "sms" -> SmsAnswers \union {"thrown"}

\* Mutant: the attempts have no limit.
RetriedForever(tries) == [at |-> "waiting", tries |-> tries]

\* Bull runs a job that threw again until its attempts are used up.
Retried(tries) == IF tries < Attempts THEN [at |-> "waiting", tries |-> tries] ELSE None

\* The attempt ends with the row as it was.
LeaveUnmarked(n) == trouble' = [trouble EXCEPT !.unmarked[n] = @ + 1]

\* The row is read before the try: a read that throws uses up an attempt and marks nothing.
TakeSend(n) ==
  /\ SendAt(n, "waiting")
  /\ \/ /\ SetSend(n, IF n \in deleted THEN None ELSE [sendJob[n] EXCEPT !.at = "sending"])
        /\ UNCHANGED trouble
     \/ SetSend(n, Retried(sendJob[n].tries + 1)) /\ LeaveUnmarked(n)
  /\ UNCHANGED <<notification, batch, accepted>>

Took(n, outcome) ==
  accepted' = IF outcome = "accepted" THEN [accepted EXCEPT ![n] = @ + 1] ELSE accepted

DeliverSend(n, outcome) ==
  /\ SendAt(n, "sending")
  /\ outcome \in Outcomes(notification[n].channel)
  /\ SetSend(n, [sendJob[n] EXCEPT !.at = outcome])
  /\ Took(n, outcome)
  /\ UNCHANGED <<notification, batch, trouble>>

\* The update of the status can throw as well.
UpdateThrows(n) ==
  /\ SendAt(n, "accepted") \/ SendAt(n, "refused")
  /\ SetSend(n, [sendJob[n] EXCEPT !.at = "thrown"])
  /\ UNCHANGED <<notification, batch, accepted, trouble>>

SettleSend(n) ==
  /\ SendAt(n, "accepted") \/ SendAt(n, "refused")
  /\ UpdateStatus(n, IF SendAt(n, "accepted") THEN "SENT" ELSE "FAILED")
  /\ SetSend(n, None)
  /\ UNCHANGED <<batch, accepted, trouble>>

\* The exception marks the row as failed, unless that update throws too, and goes on to Bull.
RetrySend(n) ==
  /\ SendAt(n, "thrown")
  /\ \/ UpdateStatus(n, "FAILED") /\ UNCHANGED trouble
     \/ LeaveUnmarked(n) /\ UNCHANGED notification
  /\ SetSend(n, Retried(sendJob[n].tries + 1))
  /\ UNCHANGED <<batch, accepted>>

(***************************************************************************)
(* An admin's message: sendDirectToSingleTarget, sendDirectBulk and        *)
(* sendDirectToAll add jobs that save and deliver row after row, and so    *)
(* does sendBulk, which renders a template for each recipient              *)
(***************************************************************************)

\* resolveSingleTargetAccountIds and resolveBulkTargetAccountIds: accounts, the teams of
\* offices, or every user and office; queueDirectBulkJob takes each one once.
Targets ==
  {{a} : a \in Accounts} \union {Team(o) : o \in {x \in Accounts : IsOffice(x)}}
  \union {{a \in Accounts : HasRole(a, "USER") \/ HasRole(a, "OFFICE")}}

SetBatch(b, job) == batch' = [batch EXCEPT ![b] = job]
BatchAt(b, stage) == batch[b] # None /\ batch[b].at = stage

\* sendBulk: the accounts it is given, or every account there is
BulkTargets == {{a} : a \in Accounts} \union {{a \in Accounts : Exists(a)}}

QueueBatch(b, kind, to, ch) ==
  /\ batch[b] = None
  /\ to \in (IF kind = "direct" THEN Targets ELSE BulkTargets) \ {{}}
  /\ SetBatch(b, [kind |-> kind, at |-> "waiting", to |-> to, left |-> to, channel |-> ch, row |-> None])
  /\ AtOnce
  /\ UNCHANGED <<accountVars, officeVars, notification, deleted, sendJob, device, language,
                 template, accepted, seen, trouble>>

\* An account that is gone, or that a template has no text for, is passed over.
Passed(b, a) == ~Exists(a) \/ (batch[b].kind = "template" /\ ~Rendered(a))

\* The first recipient, or the next one; a row from a template has the default source. What
\* the template or the insert throws is swallowed: the recipient gets no row.
NextRow(b) ==
  LET a == CHOOSE x \in batch[b].left : TRUE
      source == IF batch[b].kind = "direct" THEN "ADMIN" ELSE "SYSTEM"
      passing == [batch[b] EXCEPT !.at = "next", !.left = @ \ {a}]
  IN
  /\ BatchAt(b, "waiting") \/ BatchAt(b, "next")
  /\ IF batch[b].left = {}
     THEN SetBatch(b, [batch[b] EXCEPT !.at = "done"]) /\ UNCHANGED <<notification, trouble>>
     ELSE \/ Passed(b, a) /\ SetBatch(b, passing) /\ UNCHANGED <<notification, trouble>>
          \/ /\ ~Passed(b, a)
             /\ SetBatch(b, passing)
             /\ trouble' = [trouble EXCEPT !.unsaved = @ \union {<<b, a>>}]
             /\ UNCHANGED notification
          \/ /\ ~Passed(b, a) /\ ~Full
             /\ notification' = [notification EXCEPT ![NextId] = NewNotification(a, batch[b].channel, source)]
             /\ SetBatch(b, [batch[b] EXCEPT !.at = "sending", !.left = @ \ {a}, !.row = NextId])
             /\ UNCHANGED trouble
  /\ UNCHANGED <<sendJob, accepted>>

\* What is thrown is swallowed, with the row left as it is.
LetGo(b) ==
  /\ SetBatch(b, [batch[b] EXCEPT !.at = "next", !.row = None])
  /\ trouble' = [trouble EXCEPT !.stranded = @ \union {batch[b].row}]

DeliverRow(b, outcome) ==
  /\ BatchAt(b, "sending")
  /\ outcome \in Outcomes(batch[b].channel)
  /\ IF outcome = "thrown" THEN LetGo(b)
     ELSE SetBatch(b, [batch[b] EXCEPT !.at = outcome]) /\ UNCHANGED trouble
  /\ Took(batch[b].row, outcome)
  /\ UNCHANGED <<notification, sendJob>>

SettleRow(b) ==
  /\ BatchAt(b, "accepted") \/ BatchAt(b, "refused")
  /\ \/ /\ UpdateStatus(batch[b].row, IF BatchAt(b, "accepted") THEN "SENT" ELSE "FAILED")
        /\ SetBatch(b, [batch[b] EXCEPT !.at = "next", !.row = None])
        /\ UNCHANGED trouble
     \/ LetGo(b) /\ UNCHANGED notification
  /\ UNCHANGED <<sendJob, accepted>>

\* The batch has a row in hand.
InHand(b) == batch[b] # None /\ batch[b].row # None

\* sendBulk to a segment of the provider's: one job and no rows (once in a behaviour)
QueueSegment ==
  /\ segment = None
  /\ reached = 0
  /\ segment' = [at |-> "waiting", tries |-> 0]
  /\ AtOnce
  /\ UNCHANGED reached

\* handleSendBulkSegment: the lookup of the template can throw, before the provider is
\* asked; sendPushToSegment answers whatever goes wrong.
SendSegment ==
  \/ /\ segment.at = "waiting"
     /\ \/ segment' = IF GetTemplate(DefaultLanguage) = None THEN None ELSE [segment EXCEPT !.at = "sending"]
        \/ segment' = Retried(segment.tries + 1)
     /\ UNCHANGED reached
  \/ /\ segment.at = "sending"
     /\ \E answer \in PushAnswers :
          /\ segment' = [segment EXCEPT !.at = answer]
          /\ reached' = IF answer = "accepted" THEN reached + 1 ELSE reached
  \/ segment.at \in PushAnswers /\ segment' = None /\ UNCHANGED reached

SegmentNext ==
  /\ QueueSegment \/ (segment # None /\ SendSegment /\ UNCHANGED reqVars)
  /\ UNCHANGED <<accountVars, officeVars, notifyVars>>

\* The process dies, once in a behaviour: its requests are lost, and its jobs go back to
\* the queue and start again from their beginning.
Restart ==
  /\ ~trouble.died
  /\ trouble' = [trouble EXCEPT !.died = TRUE,
                   !.stranded = @ \union {batch[b].row : b \in {c \in Batches : InHand(c)}}]
  /\ req' = [h \in Handlers |-> Idle]
  /\ dropped' = (dropped \/ ~Quiet)
  /\ sendJob' = [n \in Notifications |->
                   IF sendJob[n] = None THEN None ELSE [sendJob[n] EXCEPT !.at = "waiting"]]
  /\ batch' = [b \in Batches |-> IF batch[b] = None \/ BatchAt(b, "done") THEN batch[b]
                                 ELSE [batch[b] EXCEPT !.at = "waiting", !.left = batch[b].to, !.row = None]]
  /\ segment' = IF segment = None THEN None ELSE [segment EXCEPT !.at = "waiting"]
  /\ UNCHANGED <<serial, notification, deleted, device, language, template, accepted, seen, reached>>

WorkerStep ==
  /\ \/ \E n \in Notifications :
          \/ TakeSend(n) \/ UpdateThrows(n) \/ SettleSend(n) \/ RetrySend(n)
          \/ \E o \in Stages : DeliverSend(n, o)
     \/ \E b \in Batches :
          NextRow(b) \/ SettleRow(b) \/ \E o \in Stages : DeliverRow(b, o)
  /\ UNCHANGED <<accountVars, officeVars, reqVars, deleted, device, language, template, seen>>

(***************************************************************************)
(* Requests of the recipient                                               *)
(***************************************************************************)

MarkRead(h, n) ==
  /\ n \in Present
  /\ Begin(h, [at |-> "mark_read", row |-> n])
  /\ UNCHANGED <<accountVars, officeVars, notifyVars>>

SaveRead(h) ==
  LET n == req[h].row IN
  /\ At(h, "mark_read")
  /\ notification' = IF n \in deleted THEN notification
                     ELSE [notification EXCEPT ![n].read = TRUE, ![n].status = "READ"]
  /\ seen' = seen \union {n}
  /\ Done(h)
  /\ UNCHANGED <<accountVars, officeVars, deleted, sendJob, batch, device, language, template,
                 accepted, trouble>>

MarkAllAsRead(a) ==
  LET unread == {n \in Present : notification[n].to = a /\ ~notification[n].read} IN
  /\ unread # {}
  /\ notification' = [n \in Notifications |->
                        IF n \in unread THEN [notification[n] EXCEPT !.read = TRUE, !.status = "READ"]
                        ELSE notification[n]]
  /\ seen' = seen \union unread
  /\ AtOnce
  /\ UNCHANGED <<accountVars, officeVars, deleted, sendJob, batch, device, language, template,
                 accepted, trouble>>

\* deleteNotification, and deleteNotificationsByDay, which deletes everything since then
DeleteSince(a, first, last) ==
  LET rows == {n \in Present : notification[n].to = a /\ first <= n /\ n <= last} IN
  /\ rows # {}
  /\ first = last \/ last = MaxNotifications
  /\ deleted' = deleted \union rows
  /\ AtOnce
  /\ UNCHANGED <<accountVars, officeVars, notification, sendJob, batch, device, language, template,
                 accepted, seen, trouble>>

\* getUserNotifications, getUnreadCount
UserNotifications(a) == {n \in Present : notification[n].to = a}
UnreadCount(a) == Cardinality({n \in UserNotifications(a) : ~notification[n].read})

(***************************************************************************)
(* Devices                                                                 *)
(***************************************************************************)

RegisterDeviceRead(h, a, t) ==
  /\ Begin(h, [at |-> "device", who |-> a, token |-> t, known |-> device[t] # None])
  /\ UNCHANGED <<accountVars, officeVars, notifyVars>>

\* The unique token refuses a second insert.
RegisterDevice(h) ==
  LET t == req[h].token  a == req[h].who IN
  /\ At(h, "device")
  /\ IF ~req[h].known /\ device[t] # None THEN UNCHANGED device
     ELSE device' = [device EXCEPT ![t] = a]
  /\ Done(h)
  /\ UNCHANGED <<accountVars, officeVars, notification, deleted, sendJob, batch, language, template,
                 accepted, seen, trouble>>

RemoveDevice(a, t) ==
  /\ device' = IF device[t] = a THEN [device EXCEPT ![t] = None] ELSE device
  /\ AtOnce
  /\ UNCHANGED <<accountVars, officeVars, notification, deleted, sendJob, batch, language, template,
                 accepted, seen, trouble>>

NotificationsStep(h) ==
  \/ \E a \in Accounts : SaveRow(h, a)
  \/ AddJob(h) \/ SaveRead(h) \/ RegisterDevice(h)

\* All requests on notifications, overlapping or one at a time
NotifyRequest(h) ==
  \/ \E recipients \in {EveryTeam, Admins} \union {{a} : a \in Accounts} : HandleEvent(h, recipients)
  \/ \E n \in Notifications : MarkRead(h, n)
  \/ \E a \in Accounts, t \in Tokens : RegisterDeviceRead(h, a, t)

NotifyAtOnce ==
  \/ \E lang \in Languages : SeedTemplate(lang)
  \/ \E b \in Batches, kind \in {"direct", "template"}, to \in Targets \union BulkTargets, ch \in Channels :
       QueueBatch(b, kind, to, ch)
  \/ \E a \in Accounts :
       \/ MarkAllAsRead(a)
       \/ \E first, last \in Notifications : DeleteSince(a, first, last)
       \/ \E t \in Tokens : RemoveDevice(a, t)

\* Every request on notifications, with the queue and the worker
NotificationMoves ==
  \/ /\ (\E h \in Handlers : NotifyRequest(h) \/ NotificationsStep(h)) \/ NotifyAtOnce \/ WorkerStep
     /\ UNCHANGED segmentVars
  \/ SegmentNext

\* The id of a new account is one no message was addressed to.
NewIds ==
  \A a \in Accounts : Exists(a)' /\ ~Exists(a) => \A b \in Batches : batch[b] # None => a \notin batch[b].to

\* What becomes of the accounts, offices and employees meanwhile is left open, but for this:
\* rows stay, and new ones have new ids.
PeopleChange ==
  /\ account' \in [Accounts -> Account \union {None}]
  /\ office' \in [Accounts -> Office \union {None}]
  /\ employee' \in [Employees -> Employee \union {None}]
  /\ language' \in [Accounts -> Languages \union {None}]
  /\ \A a \in Accounts : Exists(a) => Exists(a)'
  /\ NewIds
  /\ UNCHANGED <<reqVars, notification, deleted, sendJob, batch, device, template, accepted, seen,
                 trouble, segmentVars>>

\* A request may be cut, and the process may die.
NotificationsNext ==
  \/ NotificationMoves
  \/ \E h \in Handlers : Drop(h) /\ UNCHANGED <<accountVars, officeVars, notifyVars, segmentVars>>
  \/ Restart /\ UNCHANGED <<accountVars, officeVars>>
  \/ PeopleChange

NotificationsSpec ==
  /\ account \in [Accounts -> Account \union {None}]
  /\ OfficesTypeOK
  /\ language \in [Accounts -> Languages \union {None}]
  /\ template \subseteq Languages
  /\ NotificationsInit
  /\ \E oneAtATime \in BOOLEAN : RequestsInit(oneAtATime)
  /\ [][NotificationsNext]_<<reqVars, accountVars, officeVars, notifyVars, segmentVars>>

(***************************************************************************)
(* Properties                                                              *)
(***************************************************************************)

Queueing(n) == \E h \in Handlers : At(h, "enqueue") /\ req[h].row = n
Carried(n) == \E b \in Batches : batch[b] # None /\ batch[b].row = n

\* No notification is forgotten: one that is pending is about to be queued, has a job or is
\* in the hands of a batch. The code leaves three kinds of rows pending for ever, and no
\* other: that of a request that was cut before it added the job; one that a batch had in
\* hand when it swallowed an exception (notification.processor.ts:279, :421) or died; and
\* one of which all three attempts ended before a status was written, because the read
\* before the try (:31) or the update in the catch (:137) threw each time.
PendingHasJob ==
  \A n \in Present :
    notification[n].status = "PENDING" =>
      \/ sendJob[n] # None
      \/ Queueing(n)
      \/ Carried(n)
      \/ notification[n].source = "SYSTEM" /\ dropped
      \/ n \in trouble.stranded
      \/ trouble.unmarked[n] = Attempts

\* A provider takes a notification three times at most; a process that dies adds one. A
\* message to a segment, whose retries all come before the provider is asked, it takes once.
AcceptedSeldom ==
  LET again == IF trouble.died THEN 1 ELSE 0 IN
  /\ \A n \in Notifications : accepted[n] <= Attempts + again
  /\ reached <= 1 + again

\* No recipient of an admin's message has two rows of it, and none is left out but those
\* whose insert failed, which the batch swallows (notification.processor.ts:328, :421); a
\* process that dies starts the batch over, and serves everybody again.
AdminRowsOnce ==
  ~trouble.died =>
    \A a \in Accounts :
      LET rows == Cardinality({n \in Issued : notification[n].to = a /\ notification[n].source = "ADMIN"})
          asked_for == {b \in Batches : batch[b] # None /\ batch[b].kind = "direct" /\ a \in batch[b].to}
          saved == {b \in asked_for : <<b, a>> \notin trouble.unsaved}
      IN /\ rows <= Cardinality(saved)
         /\ Exists(a) /\ (\A b \in asked_for : BatchAt(b, "done")) => rows = Cardinality(saved)

\* What was read stays read, whatever the worker writes after it: the unread count is of the
\* notifications nobody has marked.
ReadStaysRead ==
  /\ \A n \in seen \ deleted : notification[n].read
  /\ \A a \in Accounts : UnreadCount(a) = Cardinality(UserNotifications(a) \ seen)

\* Notifications are neither forgotten nor repeated, nor unread once they were read.
NotificationsKept == PendingHasJob /\ AcceptedSeldom /\ AdminRowsOnce /\ ReadStaysRead
=============================================================================
