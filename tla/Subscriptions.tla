---------------------------- MODULE Subscriptions ----------------------------
(***************************************************************************)
(* Plans, subscriptions of offices and their payments                      *)
(* (src/module/subscription, the subscription payments of                  *)
(* src/module/payment), with the two cache keys of an office.              *)
(*                                                                         *)
(* TTLs are computed in seconds and passed to a cache that takes           *)
(* milliseconds, so an entry lapses well before the subscription it speaks *)
(* of; a TTL of 0, that of the last second, never lapses.                  *)
(***************************************************************************)
EXTENDS Offices

CONSTANTS Plans, Prices,
          Features,   \* feature codes
          MaxSubs,    \* bound on the rows of office_subscriptions
          SubPayments \* ids of payment rows of type SUBSCRIPTION

VARIABLES plan,       \* subscription_plans with their plan_features
          feature,    \* features
          wanted,     \* history: the features an admin last gave each plan
          sub,        \* office_subscriptions
          doubled,    \* history: offices given a trial beside an active subscription
          known,      \* the subscription_status_ keys
          shown,      \* the active_subscription_ keys, a copy of the row and of its plan each
          pay         \* the payments with their charges

planVars == <<plan, feature, wanted>>
subVars == <<sub, doubled, known, shown, pay>>

Subs == 1..MaxSubs
Days == 2        \* what is left of a subscription: a second or more,
LastSecond == 1  \* less than a second,
Over == 0        \* nothing

Plan == [price : Prices, features : SUBSET Features]
Subscription == [office : Accounts, plan : Plans, status : {"ACTIVE", "EXPIRED"}, left : Over..Days,
                 trial : BOOLEAN, pay : SubPayments \union {None}]
\* OfficeSubscriptionMapper: a row with the features its plan had when it was read.
\* asked is history: the features an admin had given the plan by then.
Copy == [sub : Subs, features : SUBSET Features, asked : SUBSET Features]
SubPayment == [payer : Accounts, plan : Plans, status : {"PENDING", "SUCCESS", "FAILED"},
               charge : {"none", "INITIATED", "CAPTURED", "DECLINED"}]

ASSUME MaxSubsNat == MaxSubs \in Nat
ASSUME NoneIsNoSubscriptionRow ==
  /\ None \notin Subs /\ None \notin SubPayments
  /\ None \notin Plan /\ None \notin Subscription /\ None \notin SubPayment /\ None \notin Copy

SubscriptionsTypeOK ==
  /\ plan \in [Plans -> Plan \union {None}]
  /\ feature \subseteq Features
  /\ sub \in [Subs -> Subscription \union {None}]
  /\ known \in [Accounts -> [status : {"ACTIVE", "EXPIRED"}, lapses : BOOLEAN] \union {None}]
  /\ shown \in [Accounts -> Copy \union {None}]
  /\ pay \in [SubPayments -> SubPayment \union {None}]

SubscriptionsInit ==
  /\ sub = [s \in Subs |-> None]
  /\ doubled = {}
  /\ known = [o \in Accounts |-> None]
  /\ shown = [o \in Accounts |-> None]
  /\ pay = [i \in SubPayments |-> None]

PlanExists(p) == plan[p] # None
FreeSubs == {s \in Subs : sub[s] = None}
FreeSub == CHOOSE s \in Subs : sub[s] = None
ActiveSubs(o) == {s \in Subs : sub[s] # None /\ sub[s].office = o /\ sub[s].status = "ACTIVE"}

(***************************************************************************)
(* Plans. createPlan and updatePlan save the plan, then look up or create  *)
(* each feature, then attach it.                                           *)
(***************************************************************************)

CreatePlan(h, p, price, features) ==
  /\ ~PlanExists(p)
  /\ plan' = [plan EXCEPT ![p] = [price |-> price, features |-> {}]]
  /\ wanted' = [wanted EXCEPT ![p] = features]
  /\ Begin(h, [at |-> "features", plan |-> p, todo |-> features, done |-> {}, create |-> TRUE])
  /\ UNCHANGED feature

\* Mutant: the old features of the plan stay.
KeptFeatures(p) == plan[p].features
\* The features of a plan once an update has deleted them.
ClearedFeatures(p) == {}

UpdatePlan(h, p, price, features) ==
  /\ PlanExists(p)
  /\ plan' = [plan EXCEPT ![p].price = price]
  /\ wanted' = [wanted EXCEPT ![p] = features]
  /\ Begin(h, [at |-> "clear_features", plan |-> p, todo |-> features])
  /\ UNCHANGED feature

ClearFeatures(h) ==
  LET p == req[h].plan IN
  /\ At(h, "clear_features")
  /\ plan' = [plan EXCEPT ![p].features = ClearedFeatures(p)]
  /\ Goto(h, [at |-> "features", plan |-> p, todo |-> req[h].todo, done |-> {}, create |-> FALSE])
  /\ UNCHANGED <<feature, wanted>>

\* The next feature is looked up. createPlan attaches all of them at the end.
LookUpFeature(h) ==
  LET r == req[h] IN
  /\ At(h, "features")
  /\ IF r.todo = {} THEN Goto(h, [at |-> "attach", plan |-> r.plan, done |-> r.done])
     ELSE \E f \in r.todo :
            Goto(h, [at |-> "save_feature", plan |-> r.plan, todo |-> r.todo \ {f}, done |-> r.done,
                     create |-> r.create, feature |-> f, found |-> f \in feature])
  /\ UNCHANGED planVars

\* A second insert of one code fails on the unique index.
SaveFeature(h) ==
  LET r == req[h] IN
  /\ At(h, "save_feature")
  /\ feature' = feature \union {r.feature}
  /\ IF ~r.found /\ r.feature \in feature THEN Done(h)
     ELSE Goto(h, [at |-> IF r.create THEN "features" ELSE "attach_one", plan |-> r.plan,
                   todo |-> r.todo, done |-> r.done \union {r.feature}, create |-> r.create])
  /\ UNCHANGED <<plan, wanted>>

\* updatePlan attaches the features one by one.
AttachOne(h) ==
  LET r == req[h] IN
  /\ At(h, "attach_one")
  /\ plan' = [plan EXCEPT ![r.plan].features = @ \union r.done]
  /\ Goto(h, [r EXCEPT !.at = "features"])
  /\ UNCHANGED <<feature, wanted>>

AttachAll(h) ==
  /\ At(h, "attach")
  /\ plan' = [plan EXCEPT ![req[h].plan].features = @ \union req[h].done]
  /\ Done(h)
  /\ UNCHANGED <<feature, wanted>>

PlansStep(h) ==
  ClearFeatures(h) \/ LookUpFeature(h) \/ SaveFeature(h) \/ AttachOne(h) \/ AttachAll(h)

(***************************************************************************)
(* Subscribing, cancelling, trying                                         *)
(***************************************************************************)

\* Mutant: the subscriptions that are active stay so.
LeaveActive(h) ==
  /\ At(h, "sub_expire")
  /\ Goto(h, [req[h] EXCEPT !.at = "sub_insert"])
  /\ UNCHANGED <<accountVars, subVars>>

\* subscribeToPlan
ExpireActive(h) ==
  LET o == req[h].who IN
  /\ At(h, "sub_expire")
  /\ sub' = [s \in Subs |-> IF s \in ActiveSubs(o) THEN [sub[s] EXCEPT !.status = "EXPIRED"] ELSE sub[s]]
  /\ Goto(h, [req[h] EXCEPT !.at = "sub_insert"])
  /\ UNCHANGED <<accountVars, doubled, known, shown, pay>>

NewSub(o, p, i) == [office |-> o, plan |-> p, status |-> "ACTIVE", left |-> Days,
                    trial |-> i = None, pay |-> i]

\* The payer has to be an office, not an employee of one: else the insert is refused and
\* the error is swallowed. So is the insert with no id left (the bound on rows).
InsertSub(h) ==
  LET r == req[h] IN
  /\ At(h, "sub_insert")
  /\ IF ~IsOffice(r.who) \/ FreeSubs = {} THEN Done(h) /\ UNCHANGED sub
     ELSE /\ sub' = [sub EXCEPT ![FreeSub] = NewSub(r.who, r.plan, r.pay)]
          /\ Goto(h, [at |-> "sub_status", who |-> r.who, status |-> "ACTIVE"])
  /\ UNCHANGED <<accountVars, doubled, known, shown, pay>>

SubStatus(h) ==
  /\ At(h, "sub_status")
  /\ SetStatus(req[h].who, req[h].status)
  /\ Goto(h, [at |-> "drop_status", who |-> req[h].who])
  /\ UNCHANGED subVars

\* Mutant: the cached status is left alone.
KeepStatusKey(h) ==
  /\ At(h, "drop_status")
  /\ Goto(h, [at |-> "drop_shown", who |-> req[h].who])
  /\ UNCHANGED <<accountVars, subVars>>

DropStatusKey(h) ==
  /\ At(h, "drop_status")
  /\ known' = [known EXCEPT ![req[h].who] = None]
  /\ Goto(h, [at |-> "drop_shown", who |-> req[h].who])
  /\ UNCHANGED <<accountVars, sub, doubled, shown, pay>>

DropShownKey(h) ==
  /\ At(h, "drop_shown")
  /\ shown' = [shown EXCEPT ![req[h].who] = None]
  /\ Done(h)
  /\ UNCHANGED <<accountVars, sub, doubled, known, pay>>

\* cancelSubscription throws when no row is active. It ends one row, the first it finds.
CancelRead(h, o) ==
  /\ \E s \in ActiveSubs(o) : Begin(h, [at |-> "cancel", who |-> o, sub |-> s])
  /\ UNCHANGED <<accountVars, subVars>>

CancelSave(h) ==
  /\ At(h, "cancel")
  /\ sub' = [sub EXCEPT ![req[h].sub] = [@ EXCEPT !.status = "EXPIRED", !.left = Over]]
  /\ Goto(h, [at |-> "sub_status", who |-> req[h].who, status |-> "OFFICE_NO_SUBSCRIPTION"])
  /\ UNCHANGED <<accountVars, doubled, known, shown, pay>>

\* createTrialSubscription, the end of ApproveRegistration: the cheapest plan, beside
\* whatever subscription is active. Without a plan it throws.
Cheapest == {p \in Plans : PlanExists(p) /\ \A q \in Plans : PlanExists(q) => plan[p].price <= plan[q].price}

StartTrial(h) ==
  LET o == req[h].who IN
  /\ At(h, "trial")
  /\ IF Cheapest = {} \/ FreeSubs = {} \/ ~IsOffice(o)
     THEN Done(h) /\ UNCHANGED <<sub, doubled>>
     ELSE /\ \E p \in Cheapest : sub' = [sub EXCEPT ![FreeSub] = NewSub(o, p, None)]
          /\ doubled' = IF ActiveSubs(o) = {} THEN doubled ELSE doubled \union {o}
          /\ Goto(h, [at |-> "drop_status", who |-> o])
  /\ UNCHANGED <<accountVars, known, shown, pay>>

\* Rows go with the office (ON DELETE CASCADE).
DropSubscriptions(o) ==
  /\ sub' = [s \in Subs |-> IF sub[s] # None /\ sub[s].office = o THEN None ELSE sub[s]]
  /\ UNCHANGED <<doubled, known, shown, pay>>

(***************************************************************************)
(* The checks of SubscriptionInterceptor, through the cache                *)
(***************************************************************************)

\* checkSubscriptionStatus, for the account of an office or of an employee. A hit is the
\* answer; a miss reads the first active row.
CheckRead(h, a) ==
  LET o == OfficeOf(a)
      active == ActiveSubs(o)
  IN
  /\ HasRole(a, "OFFICE")
  /\ known[o] = None
  /\ IF active = {}
     THEN Begin(h, [at |-> "set_status", who |-> o, entry |-> [status |-> "EXPIRED", lapses |-> TRUE]])
     ELSE \E s \in active :
            Begin(h, IF sub[s].left = Over
                     THEN [at |-> "lapse", who |-> o, sub |-> s]
                     ELSE [at |-> "set_status", who |-> o,
                           entry |-> [status |-> "ACTIVE", lapses |-> sub[s].left # LastSecond]])
  /\ UNCHANGED <<accountVars, subVars>>

LapseSave(h) ==
  /\ At(h, "lapse")
  /\ sub' = [sub EXCEPT ![req[h].sub].status = "EXPIRED"]
  /\ Goto(h, [at |-> "set_status", who |-> req[h].who, entry |-> [status |-> "EXPIRED", lapses |-> TRUE]])
  /\ UNCHANGED <<accountVars, doubled, known, shown, pay>>

SetStatusKey(h) ==
  /\ At(h, "set_status")
  /\ known' = [known EXCEPT ![req[h].who] = req[h].entry]
  /\ Done(h)
  /\ UNCHANGED <<accountVars, sub, doubled, shown, pay>>

CopyOf(s) ==
  LET p == sub[s].plan IN [sub |-> s, features |-> plan[p].features, asked |-> wanted[p]]

\* getActiveSubscription: an absent subscription is not cached, a row past its end is.
ShowRead(h, a) ==
  LET o == OfficeOf(a) IN
  /\ HasRole(a, "OFFICE")
  /\ shown[o] = None
  /\ \E s \in ActiveSubs(o) : Begin(h, [at |-> "set_shown", who |-> o, entry |-> CopyOf(s)])
  /\ UNCHANGED <<accountVars, subVars>>

SetShownKey(h) ==
  /\ At(h, "set_shown")
  /\ shown' = [shown EXCEPT ![req[h].who] = req[h].entry]
  /\ Done(h)
  /\ UNCHANGED <<accountVars, sub, doubled, known, pay>>

\* What checkSubscriptionStatus answers
StatusAnswer(o) ==
  IF known[o] # None THEN known[o].status
  ELSE IF \E s \in ActiveSubs(o) : sub[s].left # Over THEN "ACTIVE" ELSE "EXPIRED"

\* checkFeatureAccess asks getActiveSubscription: the cached copy, or the active row with
\* its plan as it is.
CheckFeatureAccess(o, f) ==
  IF shown[o] # None THEN f \in shown[o].features
  ELSE \E s \in ActiveSubs(o) : f \in plan[sub[s].plan].features

\* An admin has given the plan other features since the copy of it was cached.
Outdated(o) == shown[o] # None /\ shown[o].asked # wanted[sub[shown[o].sub].plan]

\* SubscriptionInterceptor, on a route that asks for a feature
Admits(a, f) ==
  HasRole(a, "OFFICE") => StatusAnswer(OfficeOf(a)) = "ACTIVE" /\ CheckFeatureAccess(OfficeOf(a), f)

\* Time passes. An entry that lapses has lapsed when its subscription ends.
SubAges(s) ==
  /\ sub[s] # None
  /\ sub[s].left > Over
  /\ serial /\ sub[s].left = LastSecond /\ known[sub[s].office] # None =>
       known[sub[s].office].status = "EXPIRED" \/ ~known[sub[s].office].lapses
  /\ sub' = [sub EXCEPT ![s].left = @ - 1]
  /\ AtOnce
  /\ UNCHANGED <<accountVars, doubled, known, shown, pay>>

KeysLapse(o) ==
  /\ \/ known[o] # None /\ known[o].lapses /\ known' = [known EXCEPT ![o] = None] /\ UNCHANGED shown
     \/ shown[o] # None /\ shown' = [shown EXCEPT ![o] = None] /\ UNCHANGED known
  /\ UNCHANGED <<accountVars, reqVars, sub, doubled, pay>>

(***************************************************************************)
(* Subscription payments: initiateSubscriptionPayment, the webhook and the *)
(* redirect page                                                           *)
(***************************************************************************)

SetPay(i, row) == pay' = [pay EXCEPT ![i] = row] /\ UNCHANGED <<sub, doubled, known, shown>>

InitiateSubPayment(h, i, a, p) ==
  /\ HasRole(a, "OFFICE")
  /\ PlanExists(p)
  /\ pay[i] = None
  /\ SetPay(i, [payer |-> a, plan |-> p, status |-> "PENDING", charge |-> "none"])
  /\ Begin(h, [at |-> "sub_charge", pay |-> i])
  /\ UNCHANGED accountVars

\* The gateway makes the charge, or refuses and the request throws.
SubCharge(h) ==
  LET i == req[h].pay IN
  /\ At(h, "sub_charge")
  /\ \/ SetPay(i, [pay[i] EXCEPT !.charge = "INITIATED"])
     \/ UNCHANGED subVars
  /\ Done(h)
  /\ UNCHANGED accountVars

\* External: the office pays or the charge is declined.
SettleSub(i, outcome) ==
  /\ pay[i] # None
  /\ pay[i].charge = "INITIATED"
  /\ SetPay(i, [pay[i] EXCEPT !.charge = outcome])
  /\ UNCHANGED <<accountVars, reqVars>>

\* The webhook runs the side effects every time it is called, the redirect page unless
\* the payment it found had succeeded before. The gateway is asked first.
SubNotified(h, i, webhook) ==
  /\ pay[i] # None
  /\ pay[i].charge # "none"
  /\ FreeSubs # {}
  /\ Begin(h, [at |-> "sub_verdict", pay |-> i, effects |-> webhook \/ pay[i].status # "SUCCESS",
               verdict |-> IF pay[i].charge = "CAPTURED" THEN "SUCCESS" ELSE "FAILED"])
  /\ UNCHANGED <<accountVars, subVars>>

\* Mutant: the side effects run only for a payment that was never looked at.
SubVerdictPendingOnly(h) ==
  LET r == req[h]  i == r.pay IN
  /\ At(h, "sub_verdict")
  /\ SetPay(i, [pay[i] EXCEPT !.status = r.verdict])
  /\ IF r.verdict = "SUCCESS" /\ r.effects /\ pay[i].status = "PENDING"
     THEN Goto(h, [at |-> "sub_expire", who |-> pay[i].payer, plan |-> pay[i].plan, pay |-> i])
     ELSE Done(h)
  /\ UNCHANGED accountVars

SubVerdict(h) ==
  LET r == req[h]  i == r.pay IN
  /\ At(h, "sub_verdict")
  /\ SetPay(i, [pay[i] EXCEPT !.status = r.verdict])
  /\ IF r.verdict = "SUCCESS" /\ r.effects
     THEN Goto(h, [at |-> "sub_expire", who |-> pay[i].payer, plan |-> pay[i].plan, pay |-> i])
     ELSE Done(h)
  /\ UNCHANGED accountVars

SubStep(h) ==
  \/ ExpireActive(h) \/ InsertSub(h) \/ SubStatus(h) \/ DropStatusKey(h) \/ DropShownKey(h)
  \/ CancelSave(h) \/ StartTrial(h) \/ LapseSave(h) \/ SetStatusKey(h) \/ SetShownKey(h)
  \/ SubCharge(h) \/ SubVerdict(h)

\* All requests on plans and subscriptions, served one at a time and each cut at most once,
\* with the approval and the deletion of an office. What becomes of employees meanwhile is
\* left open.
PlanRequest(h) ==
  \E p \in Plans, price \in Prices, f \in SUBSET Features :
    CreatePlan(h, p, price, f) \/ UpdatePlan(h, p, price, f)

SubRequest(h) ==
  \/ \E a \in Accounts : CancelRead(h, a) \/ CheckRead(h, a) \/ ShowRead(h, a)
  \/ \E i \in SubPayments :
       \/ \E a \in Accounts, p \in Plans : InitiateSubPayment(h, i, a, p)
       \/ \E webhook \in BOOLEAN : SubNotified(h, i, webhook)

SubClock ==
  \/ \E s \in Subs : SubAges(s)
  \/ \E o \in Accounts : KeysLapse(o)
  \/ \E i \in SubPayments, outcome \in {"CAPTURED", "DECLINED"} : SettleSub(i, outcome)

StaffChanges ==
  /\ employee' \in [Employees -> Employee \union {None}]
  /\ UNCHANGED <<reqVars, accountVars, office, details, edited, cleared, letIn, planVars, subVars>>

subscriptionVars == <<reqVars, accountVars, officeVars, planVars, subVars>>

SubscribersInit ==
  /\ RequestsInit(TRUE)
  /\ AccountsTypeOK /\ OfficesTypeOK
  /\ \A o \in Accounts : IsOffice(o) => HasRole(o, "OFFICE")
  /\ plan = [p \in Plans |-> None]
  /\ feature = {}
  /\ wanted = [p \in Plans |-> {}]
  /\ SubscriptionsInit

SubscriptionRequests ==
  \/ \E h \in Handlers :
       \/ (PlanRequest(h) \/ PlansStep(h)) /\ UNCHANGED <<accountVars, officeVars, subVars>>
       \/ (SubRequest(h) \/ SubStep(h)) /\ UNCHANGED <<officeVars, planVars>>
       \/ \E o \in Accounts : ApproveRegistration(h, o) /\ UNCHANGED <<planVars, subVars>>
  \/ \E o \in Accounts : DeleteOffice(o) /\ DropSubscriptions(o) /\ UNCHANGED planVars

Meanwhile ==
  \/ SubClock /\ UNCHANGED <<officeVars, planVars>>
  \/ StaffChanges

SubscriptionsNext ==
  \/ SubscriptionRequests
  \/ Meanwhile
  \/ \E h \in Handlers : Drop(h) /\ UNCHANGED <<accountVars, officeVars, planVars, subVars>>

SubscriptionsSpec == SubscribersInit /\ [][SubscriptionsNext]_subscriptionVars

(***************************************************************************)
(* Properties                                                              *)
(***************************************************************************)

Resting == serial /\ ~dropped /\ Quiet

\* A plan that is not being edited has the features the admin last gave it, though
\* updatePlan deletes them and attaches them one by one.
PlanAsWanted ==
  Resting => \A p \in Plans : PlanExists(p) => plan[p].features = wanted[p]

\* Subscribing expires the previous subscription (subscribeToPlan): with requests served
\* one at a time an office has one paid subscription, even when a request is cut.
OnePaidSubscription ==
  serial => \A o \in Accounts : Cardinality({s \in ActiveSubs(o) : ~sub[s].trial}) <= 1

\* What an office is told of its subscription is true: it is let in on the word of the
\* cache only while a subscription of it is active and not over, and it is refused only
\* while it has none. Excepted are the entries cached in the last second of a
\* subscription, which never lapse, and offices with a trial beside another subscription.
StatusKeyTrue ==
  Resting =>
    \A o \in Accounts \ doubled : IsOffice(o) /\ known[o] # None =>
      LET paid == \E s \in ActiveSubs(o) : sub[s].left # Over
      IN IF known[o].status = "ACTIVE" THEN known[o].lapses => paid ELSE ~paid

\* The subscription an office is shown is one of its own rows, and the active one until
\* checkSubscriptionStatus finds it over.
ShownIsActive ==
  Resting =>
    \A o \in Accounts \ doubled : IsOffice(o) /\ shown[o] # None =>
      LET s == shown[o].sub IN sub[s].office = o /\ (s \in ActiveSubs(o) \/ sub[s].left = Over)

\* A payment that has succeeded has made a subscription of the office that paid, whatever
\* was declined, repeated or looked at before, however late it was paid.
PaidIsSubscribed ==
  Resting =>
    \A i \in SubPayments : pay[i] # None /\ pay[i].status = "SUCCESS" /\ IsOffice(pay[i].payer) =>
      \E s \in Subs : sub[s] # None /\ sub[s].pay = i

\* An office whose subscription was cancelled has no active one left.
CancelledHasNone ==
  Resting =>
    \A o \in Accounts \ doubled :
      Exists(o) /\ account[o].status = "OFFICE_NO_SUBSCRIPTION" => ActiveSubs(o) = {}

\* One paid subscription at most, and none once it is cancelled.
OneSubscription == OnePaidSubscription /\ CancelledHasNone

\* The two keys are filled and lapse apart, and yet an office and its employees are
\* admitted to a feature exactly while a subscription that runs includes it. One exception:
\* updatePlan (subscription.service.ts:105-164) drops no key, so while a cached copy is
\* older than the last edit of its plan they are admitted by the features of that copy.
FeaturesAsPaid ==
  Resting =>
    \A a \in Accounts, f \in Features :
      LET o == OfficeOf(a)
          runs == {s \in ActiveSubs(o) : sub[s].left # Over}
      IN HasRole(a, "OFFICE") /\ IsOffice(o) /\ o \notin doubled /\ (known[o] # None => known[o].lapses)
           => (Admits(a, f) <=>
                 \E s \in runs : f \in IF Outdated(o) THEN shown[o].asked ELSE plan[sub[s].plan].features)

\* Both keys of the cache tell the truth about the subscription of an office, but for the
\* features of a plan that was edited while a copy of it was cached (FeaturesAsPaid).
KeysTrue == StatusKeyTrue /\ ShownIsActive /\ FeaturesAsPaid
=============================================================================
