-------------------------- MODULE SubscriptionProofs --------------------------
(***************************************************************************)
(* What holds of subscriptions, of the two cache keys of an office and of  *)
(* the features of a plan, for any number of offices, plans and payments,  *)
(* with requests served one at a time, and each statement they are cut at. *)
(***************************************************************************)
EXTENDS BackOffice, CatalogProofs, FiniteSetTheorems

-----------------------------------------------------------------------------
(* The request on its way *)

Now == IF Quiet THEN Idle ELSE req[CHOOSE h \in Handlers : req[h] # Idle]

OneRequest ==
  /\ serial
  /\ req = [h \in Handlers |-> req[h]]
  /\ \A h, g \in Handlers : req[h] # Idle /\ req[g] # Idle => h = g

LEMMA NowIsBusy ==
  ASSUME OneRequest, NEW h \in Handlers, req[h] # Idle PROVE Now = req[h]
<1>1. ~Quiet
  BY DEF Quiet
<1>2. (CHOOSE g \in Handlers : req[g] # Idle) = h
  BY DEF OneRequest
<1>3. QED
  BY <1>1, <1>2 DEF Now

LEMMA AtIsNow ==
  ASSUME OneRequest, NEW h \in Handlers, NEW point, At(h, point), point # "idle" PROVE Now = req[h]
  BY NowIsBusy DEF At, Idle

\* Nobody else is busy when h turns to r.
LEMMA TurnsTo ==
  ASSUME OneRequest, NEW h \in Handlers, NEW r, req' = [req EXCEPT ![h] = r], serial' = serial,
         \A g \in Handlers \ {h} : req[g] = Idle
  PROVE  OneRequest' /\ Now' = r
<1>1. req'[h] = r /\ \A g \in Handlers \ {h} : req'[g] = Idle
  BY DEF OneRequest
<1>2. OneRequest'
  BY <1>1 DEF OneRequest
<1>3. CASE r = Idle
  BY <1>1, <1>2, <1>3 DEF Now, Quiet
<1>4. CASE r # Idle
  <2>1. ~Quiet'
    BY <1>1, <1>4 DEF Quiet
  <2>2. (CHOOSE g \in Handlers : req'[g] # Idle) = h
    BY <1>1, <1>4
  <2>3. QED
    BY <1>1, <1>2, <2>1, <2>2 DEF Now
<1>5. QED
  BY <1>3, <1>4

LEMMA BeginTurns ==
  ASSUME OneRequest, NEW h \in Handlers, NEW r, Begin(h, r)
  PROVE  OneRequest' /\ Now = Idle /\ Now' = r /\ dropped' = dropped
<1>1. Quiet /\ req' = [req EXCEPT ![h] = r] /\ serial' = serial /\ dropped' = dropped
  BY DEF Begin, OneRequest
<1>2. OneRequest' /\ Now' = r
  BY <1>1, TurnsTo DEF Quiet
<1>3. QED
  BY <1>1, <1>2 DEF Now

LEMMA GotoTurns ==
  ASSUME OneRequest, NEW h \in Handlers, NEW point, At(h, point), point # "idle", NEW r, Goto(h, r)
  PROVE  OneRequest' /\ Now = req[h] /\ Now' = r /\ dropped' = dropped
<1>1. req[h] # Idle /\ Now = req[h]
  BY AtIsNow DEF At, Idle
<1>2. \A g \in Handlers \ {h} : req[g] = Idle
  BY <1>1 DEF OneRequest
<1>3. QED
  BY <1>1, <1>2, TurnsTo DEF Goto

LEMMA DropTurns ==
  ASSUME OneRequest, NEW h \in Handlers, Drop(h)
  PROVE  OneRequest' /\ Now' = Idle /\ dropped'
<1>1. \A g \in Handlers \ {h} : req[g] = Idle
  BY DEF OneRequest, Drop
<1>2. QED
  BY <1>1, TurnsTo DEF Drop

LEMMA StaysPut ==
  ASSUME OneRequest, UNCHANGED reqVars PROVE OneRequest' /\ Now' = Now /\ dropped' = dropped
  BY DEF OneRequest, Now, Quiet, reqVars

LEMMA AtOnceStays ==
  ASSUME OneRequest, AtOnce
  PROVE  OneRequest' /\ Now = Idle /\ Now' = Idle /\ dropped' = dropped
<1>1. Quiet
  BY DEF OneRequest, AtOnce
<1>2. QED
  BY <1>1, StaysPut DEF AtOnce, Now

LEMMA QuietIsIdle == ASSUME Quiet PROVE Now = Idle
  BY DEF Now

-----------------------------------------------------------------------------
(* The features of a plan *)

PlanTypes ==
  /\ plan \in [Plans -> Plan \union {None}]
  /\ feature \subseteq Features
  /\ wanted \in [Plans -> SUBSET Features]

\* What an edit of a plan carries along
PlanRequests ==
  [at : {"clear_features"}, plan : Plans, todo : SUBSET Features] \union
  [at : {"features", "attach_one"}, plan : Plans, todo : SUBSET Features, done : SUBSET Features,
   create : BOOLEAN] \union
  [at : {"save_feature"}, plan : Plans, todo : SUBSET Features, done : SUBSET Features,
   create : BOOLEAN, feature : Features, found : BOOLEAN] \union
  [at : {"attach"}, plan : Plans, done : SUBSET Features]

PlanPoints == {"clear_features", "features", "attach_one", "save_feature", "attach"}

Edits(r) == r.at \in PlanPoints => r \in PlanRequests /\ plan[r.plan] # None

EditedBy(r, p) == r.at \in PlanPoints /\ r.plan = p

\* How far the edit has come, and what it has left to do
OnCourse(r) ==
  LET features == plan[r.plan].features  goal == wanted[r.plan] IN
  /\ r.at = "clear_features" => r.todo = goal
  /\ r.at \in {"features", "attach_one"} => r.todo \union r.done = goal
  /\ r.at = "features" => features = IF r.create THEN {} ELSE r.done
  /\ r.at = "attach_one" => ~r.create /\ features \subseteq r.done
  /\ r.at = "save_feature" =>
       /\ r.todo \union r.done \union {r.feature} = goal
       /\ r.found = (r.feature \in feature)
       /\ features = IF r.create THEN {} ELSE r.done
  /\ r.at = "attach" => r.done = goal /\ features \subseteq r.done

PlansKept ==
  ~dropped =>
    /\ Now.at \in PlanPoints => OnCourse(Now)
    /\ \A p \in Plans : plan[p] # None /\ ~EditedBy(Now, p) => plan[p].features = wanted[p]

PlanInv == OneRequest /\ PlanTypes /\ Edits(Now) /\ PlansKept

\* Plan p alone is written, and its edit goes on with r.
LEMMA PlanWritten ==
  ASSUME PlanInv, OneRequest', PlanTypes', dropped' = dropped, NEW p \in Plans,
         \A q \in Plans \ {p} : plan'[q] = plan[q] /\ wanted'[q] = wanted[q] /\ ~EditedBy(Now, q),
         plan'[p] # None, Edits(Now)',
         ~dropped => IF Now'.at \in PlanPoints THEN Now'.plan = p /\ OnCourse(Now)'
                     ELSE plan'[p].features = wanted'[p]
  PROVE  PlanInv'
<1>1. ASSUME ~dropped, NEW q \in Plans, q # p, plan'[q] # None PROVE plan'[q].features = wanted'[q]
  BY <1>1 DEF PlanInv, PlansKept
<1>2. PlansKept'
  BY <1>1 DEF PlansKept, EditedBy
<1>3. QED
  BY <1>2 DEF PlanInv

LEMMA CreatePlanKeepsPlans ==
  ASSUME PlanInv, NEW h \in Handlers, NEW p \in Plans, NEW price \in Prices,
         NEW features \in SUBSET Features, CreatePlan(h, p, price, features)
  PROVE  PlanInv'
<1> DEFINE r == [at |-> "features", plan |-> p, todo |-> features, done |-> {}, create |-> TRUE]
<1>1. /\ plan' = [plan EXCEPT ![p] = [price |-> price, features |-> {}]]
      /\ wanted' = [wanted EXCEPT ![p] = features] /\ feature' = feature /\ Begin(h, r)
  BY DEF CreatePlan
<1>2. r \in PlanRequests /\ r.at = "features" /\ r.plan = p /\ r.todo = features /\ r.done = {} /\ r.create
  BY DEF PlanRequests
<1> HIDE DEF r
<1>3. OneRequest' /\ Now = Idle /\ Now' = r /\ dropped' = dropped
  BY <1>1, BeginTurns DEF PlanInv
<1>4. /\ plan'[p] = [price |-> price, features |-> {}] /\ wanted'[p] = features
      /\ \A q \in Plans \ {p} : plan'[q] = plan[q] /\ wanted'[q] = wanted[q]
  BY <1>1 DEF PlanInv, PlanTypes
<1>5. plan'[p] # None /\ plan'[p].features = {}
  <2>1. [price |-> price, features |-> {}] \in Plan
    BY DEF Plan
  <2>2. QED
    BY <1>4, <2>1, NoneIsNoSubscriptionRow
<1>6. PlanTypes'
  <2>1. [price |-> price, features |-> {}] \in Plan
    BY DEF Plan
  <2>2. QED
    BY <1>1, <2>1 DEF PlanInv, PlanTypes
<1>7. Edits(Now)'
  BY <1>2, <1>3, <1>5 DEF Edits
<1>8. OnCourse(Now)' /\ Now'.at \in PlanPoints /\ Now'.plan = p
  BY <1>2, <1>3, <1>4, <1>5 DEF OnCourse, PlanPoints
<1>9. \A q \in Plans \ {p} : ~EditedBy(Now, q)
  BY <1>3 DEF EditedBy, PlanPoints, Idle
<1>10. QED
  BY <1>3, <1>4, <1>5, <1>6, <1>7, <1>8, <1>9, PlanWritten

LEMMA PlanRow ==
  ASSUME PlanTypes, NEW p \in Plans, plan[p] # None PROVE plan[p] \in Plan
  BY DEF PlanTypes

LEMMA UpdatePlanKeepsPlans ==
  ASSUME PlanInv, NEW h \in Handlers, NEW p \in Plans, NEW price \in Prices,
         NEW features \in SUBSET Features, UpdatePlan(h, p, price, features)
  PROVE  PlanInv'
<1> DEFINE r == [at |-> "clear_features", plan |-> p, todo |-> features]
           row == [plan[p] EXCEPT !.price = price]
<1>1. /\ plan[p] # None /\ wanted' = [wanted EXCEPT ![p] = features] /\ feature' = feature /\ Begin(h, r)
  BY DEF UpdatePlan, PlanExists
<1>2. plan' = [plan EXCEPT ![p] = row]
  BY DEF UpdatePlan, PlanInv, PlanTypes
<1>3. row \in Plan
  BY <1>1, PlanRow DEF PlanInv, Plan
<1>4. r \in PlanRequests /\ r.at = "clear_features" /\ r.plan = p /\ r.todo = features
  BY DEF PlanRequests
<1> HIDE DEF r, row
<1>5. OneRequest' /\ Now = Idle /\ Now' = r /\ dropped' = dropped
  BY <1>1, BeginTurns DEF PlanInv
<1>6. /\ plan'[p] = row /\ wanted'[p] = features
      /\ \A q \in Plans \ {p} : plan'[q] = plan[q] /\ wanted'[q] = wanted[q]
  BY <1>1, <1>2 DEF PlanInv, PlanTypes
<1>7. plan'[p] # None
  BY <1>3, <1>6, NoneIsNoSubscriptionRow
<1>8. PlanTypes'
  BY <1>1, <1>2, <1>3 DEF PlanInv, PlanTypes
<1>9. Edits(Now)'
  BY <1>4, <1>5, <1>7 DEF Edits
<1>10. OnCourse(Now)' /\ Now'.at \in PlanPoints /\ Now'.plan = p
  BY <1>4, <1>5, <1>6 DEF OnCourse, PlanPoints
<1>11. \A q \in Plans \ {p} : ~EditedBy(Now, q)
  BY <1>5 DEF EditedBy, PlanPoints, Idle
<1>12. QED
  BY <1>5, <1>6, <1>7, <1>8, <1>9, <1>10, <1>11, PlanWritten

\* A request stands at an edit of its plan.
LEMMA EditOf ==
  ASSUME PlanInv, NEW h \in Handlers, NEW point \in PlanPoints, At(h, point)
  PROVE  /\ Now = req[h] /\ req[h].at = point /\ req[h] \in PlanRequests
         /\ req[h].plan \in Plans /\ plan[req[h].plan] \in Plan
         /\ \A q \in Plans \ {req[h].plan} : ~EditedBy(Now, q)
         /\ ~dropped => OnCourse(req[h])
<1>1. point # "idle"
  BY DEF PlanPoints
<1>2. Now = req[h] /\ req[h].at = point
  BY <1>1, AtIsNow DEF PlanInv, At
<1>3. req[h] \in PlanRequests /\ plan[req[h].plan] # None
  BY <1>2 DEF PlanInv, Edits
<1>4. req[h].plan \in Plans
  BY <1>3 DEF PlanRequests
<1>5. plan[req[h].plan] \in Plan
  BY <1>3, <1>4, PlanRow DEF PlanInv
<1>6. \A q \in Plans \ {req[h].plan} : ~EditedBy(Now, q)
  BY <1>2 DEF EditedBy
<1>7. QED
  BY <1>2, <1>3, <1>4, <1>5, <1>6 DEF PlanInv, PlansKept

\* A step of an edit that writes no plan.
LEMMA PlanReadOn ==
  ASSUME PlanInv, NEW h \in Handlers, NEW point \in PlanPoints, At(h, point), NEW r, Goto(h, r),
         UNCHANGED <<plan, wanted>>, PlanTypes',
         IF r.at \in PlanPoints THEN r \in PlanRequests /\ r.plan = req[h].plan ELSE r = Idle,
         ~dropped => IF r.at \in PlanPoints THEN OnCourse(Now)'
                     ELSE plan[req[h].plan].features = wanted[req[h].plan]
  PROVE  PlanInv'
<1> DEFINE p == req[h].plan
<1>1. /\ Now = req[h] /\ p \in Plans /\ plan[p] \in Plan /\ \A q \in Plans \ {p} : ~EditedBy(Now, q)
  BY EditOf
<1>2. point # "idle"
  BY DEF PlanPoints
<1>3. OneRequest' /\ Now' = r /\ dropped' = dropped
  BY <1>2, GotoTurns DEF PlanInv
<1>4. plan' = plan /\ wanted' = wanted /\ PlanTypes'
  OBVIOUS
<1>5. plan[p] # None
  BY <1>1, NoneIsNoSubscriptionRow
<1>6. Edits(Now)'
  BY <1>3, <1>4, <1>5 DEF Edits
<1> HIDE DEF p
<1>7. QED
  BY <1>1, <1>3, <1>4, <1>5, <1>6, PlanWritten DEF p

LEMMA ClearKeepsPlans ==
  ASSUME PlanInv, NEW h \in Handlers, ClearFeatures(h) PROVE PlanInv'
<1> DEFINE p == req[h].plan
           r == [at |-> "features", plan |-> p, todo |-> req[h].todo, done |-> {}, create |-> FALSE]
           row == [plan[p] EXCEPT !.features = {}]
<1>1. At(h, "clear_features") /\ Goto(h, r) /\ UNCHANGED <<feature, wanted>>
  BY DEF ClearFeatures
<1>2. "clear_features" \in PlanPoints
  BY DEF PlanPoints
<1>3. /\ Now = req[h] /\ req[h].at = "clear_features" /\ req[h] \in PlanRequests
      /\ p \in Plans /\ plan[p] \in Plan /\ \A q \in Plans \ {p} : ~EditedBy(Now, q)
      /\ ~dropped => OnCourse(req[h])
  BY <1>1, <1>2, EditOf
<1>4. OneRequest' /\ Now' = r /\ dropped' = dropped
  BY <1>1, GotoTurns DEF PlanInv
<1>5. plan' = [plan EXCEPT ![p] = row]
  BY <1>3 DEF ClearFeatures, ClearedFeatures, PlanInv, PlanTypes
<1>6. row \in Plan /\ row.features = {}
  BY <1>3 DEF Plan
<1>7. /\ r \in PlanRequests /\ r.at = "features" /\ r.plan = p /\ r.todo = req[h].todo /\ r.done = {}
      /\ ~r.create
  BY <1>3 DEF PlanRequests
<1>8. ~dropped => req[h].todo = wanted[p]
  BY <1>3 DEF OnCourse
<1> HIDE DEF r, row
<1>9. /\ plan'[p] = row /\ plan'[p] # None /\ PlanTypes'
      /\ \A q \in Plans \ {p} : plan'[q] = plan[q] /\ wanted'[q] = wanted[q]
  <2>1. plan'[p] = row /\ \A q \in Plans \ {p} : plan'[q] = plan[q]
    BY <1>3, <1>5 DEF PlanInv, PlanTypes
  <2>2. PlanTypes'
    BY <1>1, <1>5, <1>6 DEF PlanInv, PlanTypes
  <2>3. row # None
    BY <1>6, NoneIsNoSubscriptionRow
  <2>4. QED
    BY <1>1, <2>1, <2>2, <2>3
<1>10. Edits(Now)' /\ Now'.at \in PlanPoints /\ Now'.plan = p
  BY <1>4, <1>7, <1>9 DEF Edits, PlanPoints
<1>11. ~dropped => OnCourse(Now)'
  <2>1. plan'[p].features = {} /\ wanted'[p] = wanted[p]
    BY <1>1, <1>6, <1>9
  <2>2. QED
    BY <1>4, <1>7, <1>8, <2>1 DEF OnCourse
<1> HIDE DEF p
<1>12. QED
  BY <1>3, <1>4, <1>9, <1>10, <1>11, PlanWritten

LEMMA LookUpKeepsPlans ==
  ASSUME PlanInv, NEW h \in Handlers, LookUpFeature(h) PROVE PlanInv'
<1> DEFINE o == req[h]
<1>1. At(h, "features") /\ UNCHANGED planVars /\ "features" \in PlanPoints
  BY DEF LookUpFeature, PlanPoints
<1> UNCHANGED <<plan, wanted>> /\ PlanTypes'
  BY <1>1 DEF PlanInv, PlanTypes, planVars
<1>2. /\ Now = o /\ o.at = "features" /\ o \in PlanRequests /\ o.plan \in Plans
      /\ ~dropped => OnCourse(o)
  BY <1>1, EditOf
<1>3. o.todo \in SUBSET Features /\ o.done \in SUBSET Features /\ o.create \in BOOLEAN
  BY <1>2 DEF PlanRequests
<1>4. ~dropped => /\ o.todo \union o.done = wanted[o.plan]
                  /\ plan[o.plan].features = IF o.create THEN {} ELSE o.done
  BY <1>2 DEF OnCourse
<1>5. ASSUME o.todo = {}, Goto(h, [at |-> "attach", plan |-> o.plan, done |-> o.done]) PROVE PlanInv'
  <2> DEFINE r == [at |-> "attach", plan |-> o.plan, done |-> o.done]
  <2>1. r \in PlanRequests /\ r.at = "attach" /\ r.plan = o.plan /\ r.done = o.done /\ r.at \in PlanPoints
    BY <1>2, <1>3 DEF PlanRequests, PlanPoints
  <2>2. Goto(h, r)
    BY <1>5
  <2> HIDE DEF r
  <2>3. Now' = r /\ plan' = plan /\ wanted' = wanted
    BY <1>1, <2>2, GotoTurns DEF PlanInv, planVars
  <2>4. ~dropped => OnCourse(Now)'
    BY <1>4, <1>5, <2>1, <2>3 DEF OnCourse
  <2> HIDE DEF o
  <2>5. QED
    BY <1>1, <2>1, <2>2, <2>4, PlanReadOn DEF o
<1>6. ASSUME NEW f \in o.todo,
             Goto(h, [at |-> "save_feature", plan |-> o.plan, todo |-> o.todo \ {f}, done |-> o.done,
                      create |-> o.create, feature |-> f, found |-> f \in feature])
      PROVE  PlanInv'
  <2> DEFINE r == [at |-> "save_feature", plan |-> o.plan, todo |-> o.todo \ {f}, done |-> o.done,
                   create |-> o.create, feature |-> f, found |-> f \in feature]
  <2>1. /\ r.at = "save_feature" /\ r.plan = o.plan /\ r.todo = o.todo \ {f} /\ r.done = o.done
        /\ r.create = o.create /\ r.feature = f /\ r.found = (f \in feature) /\ r.at \in PlanPoints
    BY DEF PlanPoints
  <2>2. r \in PlanRequests
    BY <1>2, <1>3 DEF PlanRequests
  <2>3. Goto(h, r)
    BY <1>6
  <2> HIDE DEF r
  <2>4. Now' = r /\ plan' = plan /\ wanted' = wanted /\ feature' = feature
    BY <1>1, <2>3, GotoTurns DEF PlanInv, planVars
  <2>5. ~dropped => OnCourse(Now)'
    <3> SUFFICES ASSUME ~dropped PROVE OnCourse(Now)'
      OBVIOUS
    <3>1. Now'.todo \union Now'.done \union {Now'.feature} = wanted'[Now'.plan]
      BY <1>4, <2>1, <2>4
    <3>2. Now'.found = (Now'.feature \in feature')
      BY <2>1, <2>4
    <3>3. plan'[Now'.plan].features = IF Now'.create THEN {} ELSE Now'.done
      BY <1>4, <2>1, <2>4
    <3>4. Now'.at = "save_feature"
      BY <2>1, <2>4
    <3>5. QED
      BY <3>1, <3>2, <3>3, <3>4 DEF OnCourse
  <2> HIDE DEF o
  <2>6. QED
    BY <1>1, <2>1, <2>2, <2>3, <2>5, PlanReadOn DEF o
<1>7. QED
  BY <1>5, <1>6 DEF LookUpFeature

LEMMA SaveKeepsPlans ==
  ASSUME PlanInv, NEW h \in Handlers, SaveFeature(h) PROVE PlanInv'
<1> DEFINE o == req[h]
           r == [at |-> IF o.create THEN "features" ELSE "attach_one", plan |-> o.plan,
                 todo |-> o.todo, done |-> o.done \union {o.feature}, create |-> o.create]
<1>1. At(h, "save_feature") /\ UNCHANGED <<plan, wanted>> /\ "save_feature" \in PlanPoints
  BY DEF SaveFeature, PlanPoints
<1>2. /\ Now = o /\ o.at = "save_feature" /\ o \in PlanRequests /\ o.plan \in Plans
      /\ ~dropped => OnCourse(o)
  BY <1>1, EditOf
<1>3. /\ o.todo \in SUBSET Features /\ o.done \in SUBSET Features /\ o.create \in BOOLEAN
      /\ o.feature \in Features
  BY <1>2 DEF PlanRequests
<1>4. PlanTypes'
  BY <1>1, <1>3 DEF PlanInv, PlanTypes, SaveFeature
<1>5. ~dropped => /\ o.todo \union o.done \union {o.feature} = wanted[o.plan]
                  /\ o.found = (o.feature \in feature)
                  /\ plan[o.plan].features = IF o.create THEN {} ELSE o.done
  BY <1>2 DEF OnCourse
<1>6. ASSUME ~o.found, o.feature \in feature, Done(h) PROVE PlanInv'
  <2>1. dropped
    BY <1>5, <1>6
  <2>2. Idle.at \notin PlanPoints
    BY DEF Idle, PlanPoints
  <2> HIDE DEF o
  <2>3. QED
    BY <1>1, <1>4, <1>6, <2>1, <2>2, PlanReadOn DEF Done
<1>7. ASSUME Goto(h, r) PROVE PlanInv'
  <2>1. r \in PlanRequests /\ r.at \in PlanPoints
    BY <1>2, <1>3 DEF PlanRequests, PlanPoints
  <2>2. /\ r.at = IF o.create THEN "features" ELSE "attach_one" 
        /\ r.plan = o.plan /\ r.todo = o.todo /\ r.done = o.done \union {o.feature} /\ r.create = o.create
    OBVIOUS
  <2> HIDE DEF r
  <2>3. Now' = r
    BY <1>1, <1>7, GotoTurns DEF PlanInv
  <2>4. ~dropped => OnCourse(Now)'
    <3> SUFFICES ASSUME ~dropped PROVE OnCourse(Now)'
      OBVIOUS
    <3>1. Now'.todo \union Now'.done = wanted'[Now'.plan]
      BY <1>1, <1>5, <2>2, <2>3
    <3>2. plan'[Now'.plan].features = IF Now'.create THEN {} ELSE o.done
      BY <1>1, <1>5, <2>2, <2>3
    <3>3. Now'.at = (IF Now'.create THEN "features" ELSE "attach_one") /\ o.done \subseteq Now'.done
      BY <2>2, <2>3
    <3>4. QED
      BY <3>1, <3>2, <3>3 DEF OnCourse
  <2> HIDE DEF o
  <2>5. QED
    BY <1>1, <1>4, <1>7, <2>1, <2>2, <2>4, PlanReadOn DEF o
<1>8. QED
  BY <1>6, <1>7 DEF SaveFeature

\* The features a request has found or saved are attached to the plan.
LEMMA AttachWrites ==
  ASSUME PlanTypes, NEW p \in Plans, plan[p] \in Plan, NEW found \in SUBSET Features,
         plan' = [plan EXCEPT ![p].features = @ \union found], UNCHANGED <<feature, wanted>>
  PROVE  /\ PlanTypes' /\ plan'[p] # None /\ plan'[p].features = plan[p].features \union found
         /\ \A q \in Plans \ {p} : plan'[q] = plan[q] /\ wanted'[q] = wanted[q]
<1> DEFINE row == [plan[p] EXCEPT !.features = @ \union found]
<1>1. plan' = [plan EXCEPT ![p] = row]
  BY DEF PlanTypes
<1>2. row \in Plan /\ row.features = plan[p].features \union found
  BY DEF Plan
<1> HIDE DEF row
<1>3. row # None
  BY <1>2, NoneIsNoSubscriptionRow
<1>4. QED
  BY <1>1, <1>2, <1>3 DEF PlanTypes

LEMMA AttachOneKeepsPlans ==
  ASSUME PlanInv, NEW h \in Handlers, AttachOne(h) PROVE PlanInv'
<1> DEFINE o == req[h]
           r == [o EXCEPT !.at = "features"]
<1>1. At(h, "attach_one") /\ UNCHANGED <<feature, wanted>> /\ "attach_one" \in PlanPoints /\ Goto(h, r)
  BY DEF AttachOne, PlanPoints
<1>2. /\ Now = o /\ o.at = "attach_one" /\ o \in PlanRequests /\ o.plan \in Plans
      /\ plan[o.plan] \in Plan /\ \A q \in Plans \ {o.plan} : ~EditedBy(Now, q)
      /\ ~dropped => OnCourse(o)
  BY <1>1, EditOf
<1>3. o \in [at : {"features", "attach_one"}, plan : Plans, todo : SUBSET Features, done : SUBSET Features,
             create : BOOLEAN]
  BY <1>2 DEF PlanRequests
<1>4. /\ r \in PlanRequests /\ r.at = "features" /\ r.plan = o.plan /\ r.todo = o.todo
      /\ r.done = o.done /\ r.create = o.create
  BY <1>3 DEF PlanRequests
<1>5. OneRequest' /\ Now' = r /\ dropped' = dropped
  BY <1>1, GotoTurns DEF PlanInv
<1> HIDE DEF r
<1>6. plan' = [plan EXCEPT ![o.plan].features = @ \union o.done] /\ o.done \in SUBSET Features
  BY <1>3 DEF AttachOne
<1>7. /\ PlanTypes' /\ plan'[o.plan] # None /\ plan'[o.plan].features = plan[o.plan].features \union o.done
      /\ \A q \in Plans \ {o.plan} : plan'[q] = plan[q] /\ wanted'[q] = wanted[q]
  <2> HIDE DEF o
  <2>1. QED
    BY <1>1, <1>2, <1>6, AttachWrites DEF PlanInv
<1>8. Edits(Now)' /\ Now'.at \in PlanPoints /\ Now'.plan = o.plan
  BY <1>4, <1>5, <1>7 DEF Edits, PlanPoints
<1>9. ~dropped => OnCourse(Now)'
  <2> SUFFICES ASSUME ~dropped PROVE OnCourse(Now)'
    OBVIOUS
  <2>1. o.todo \union o.done = wanted[o.plan] /\ plan[o.plan].features \subseteq o.done /\ ~o.create
    BY <1>2 DEF OnCourse
  <2>2. QED
    BY <1>1, <1>4, <1>5, <1>7, <2>1 DEF OnCourse
<1> HIDE DEF o
<1>10. QED
  BY <1>2, <1>5, <1>7, <1>8, <1>9, PlanWritten

LEMMA AttachAllKeepsPlans ==
  ASSUME PlanInv, NEW h \in Handlers, AttachAll(h) PROVE PlanInv'
<1> DEFINE o == req[h]
<1>1. At(h, "attach") /\ UNCHANGED <<feature, wanted>> /\ "attach" \in PlanPoints /\ Done(h)
  BY DEF AttachAll, PlanPoints
<1>2. /\ Now = o /\ o.at = "attach" /\ o \in PlanRequests /\ o.plan \in Plans
      /\ plan[o.plan] \in Plan /\ \A q \in Plans \ {o.plan} : ~EditedBy(Now, q)
      /\ ~dropped => OnCourse(o)
  BY <1>1, EditOf
<1>3. o.done \in SUBSET Features
  BY <1>2 DEF PlanRequests
<1>4. OneRequest' /\ Now' = Idle /\ dropped' = dropped
  BY <1>1, GotoTurns DEF PlanInv, Done
<1>5. plan' = [plan EXCEPT ![o.plan].features = @ \union o.done]
  BY DEF AttachAll
<1>6. /\ PlanTypes' /\ plan'[o.plan] # None /\ plan'[o.plan].features = plan[o.plan].features \union o.done
      /\ \A q \in Plans \ {o.plan} : plan'[q] = plan[q] /\ wanted'[q] = wanted[q]
  <2> HIDE DEF o
  <2>1. QED
    BY <1>1, <1>2, <1>3, <1>5, AttachWrites DEF PlanInv
<1>7. Edits(Now)' /\ Now'.at \notin PlanPoints
  BY <1>4 DEF Edits, PlanPoints, Idle
<1>8. ~dropped => plan'[o.plan].features = wanted'[o.plan]
  <2> SUFFICES ASSUME ~dropped PROVE plan'[o.plan].features = wanted'[o.plan]
    OBVIOUS
  <2>1. o.done = wanted[o.plan] /\ plan[o.plan].features \subseteq o.done
    BY <1>2 DEF OnCourse
  <2>2. QED
    BY <1>1, <1>6, <2>1
<1> HIDE DEF o
<1>9. QED
  BY <1>2, <1>4, <1>6, <1>7, <1>8, PlanWritten

\* The other requests write no plan and edit none.
LEMMA OthersKeepPlans ==
  ASSUME PlanInv, OneRequest', UNCHANGED planVars, Now.at \notin PlanPoints \/ dropped' \/ Now' = Now,
         Now'.at \notin PlanPoints \/ Now' = Now, dropped => dropped'
  PROVE  PlanInv'
<1>1. PlanTypes' /\ plan' = plan /\ wanted' = wanted /\ feature' = feature
  BY DEF PlanInv, PlanTypes, planVars
<1>2. Edits(Now)'
  BY <1>1 DEF PlanInv, Edits
<1>3. PlansKept'
  BY <1>1 DEF PlanInv, PlansKept, OnCourse, EditedBy
<1>4. QED
  BY <1>1, <1>2, <1>3 DEF PlanInv

-----------------------------------------------------------------------------
(* Subscriptions: the invariant *)

PaidSubs(o) == {s \in ActiveSubs(o) : ~sub[s].trial}
Runs(o) == \E s \in ActiveSubs(o) : sub[s].left # Over
StatusKey == [status : {"ACTIVE", "EXPIRED"}, lapses : BOOLEAN]

\* What a cached status says of an office is so.
EntryTrue(entry, o) == IF entry.status = "ACTIVE" THEN entry.lapses => Runs(o) ELSE ~Runs(o)

Tables ==
  /\ AccountsTypeOK /\ OfficesTypeOK
  /\ sub \in [Subs -> Subscription \union {None}]
  /\ known \in [Accounts -> StatusKey \union {None}]
  /\ shown \in [Accounts -> Copy \union {None}]
  /\ pay \in [SubPayments -> SubPayment \union {None}]

\* A subscription belongs to an office, and that office has paid for it.
Refs ==
  /\ \A o \in Accounts : IsOffice(o) => HasRole(o, "OFFICE")
  /\ \A s \in Subs : sub[s] # None =>
       /\ IsOffice(sub[s].office)
       /\ sub[s].pay # None => pay[sub[s].pay] # None /\ pay[sub[s].pay].payer = sub[s].office

Single ==
  /\ \A o \in Accounts : \A s, t \in PaidSubs(o) : s = t
  /\ \A o \in Accounts \ doubled : \A s, t \in ActiveSubs(o) : s = t

\* What a request has read still holds when it goes on.
Knows(r) ==
  /\ r.at \in {"sub_expire", "sub_insert"} =>
       /\ r \in [at : {"sub_expire", "sub_insert"}, who : Accounts, plan : Plans, pay : SubPayments]
       /\ pay[r.pay] # None /\ pay[r.pay].payer = r.who /\ FreeSubs # {}
  /\ r.at = "sub_insert" => ActiveSubs(r.who) = {}
  /\ r.at = "sub_status" =>
       /\ r.who \in Accounts /\ IsOffice(r.who)
       /\ \/ r.status = "ACTIVE"
          \/ r.status = "OFFICE_NO_SUBSCRIPTION" /\ (r.who \notin doubled => ActiveSubs(r.who) = {})
  /\ r.at \in {"drop_status", "drop_shown"} => r.who \in Accounts
  /\ r.at \in {"cancel", "lapse"} => r.who \in Accounts /\ r.sub \in ActiveSubs(r.who)
  /\ r.at = "set_shown" => r.who \in Accounts /\ r.entry \in Copy /\ r.entry.sub \in ActiveSubs(r.who)
  /\ r.at = "lapse" => sub[r.sub].left = Over
  /\ r.at = "set_status" =>
       r.who \in Accounts /\ r.entry \in StatusKey /\ (r.who \notin doubled => EntryTrue(r.entry, r.who))
  /\ r.at = "trial" => r.who \in Accounts /\ IsOffice(r.who) /\ account[r.who].status = "ACTIVE"
  /\ r.at \in {"sub_charge", "sub_verdict"} => r.pay \in SubPayments /\ pay[r.pay] # None
  /\ r.at = "sub_verdict" =>
       /\ r.verdict \in {"SUCCESS", "FAILED"} /\ FreeSubs # {}
       /\ ~dropped => r.effects \/ pay[r.pay].status = "SUCCESS"

\* The request is between two statements that serve office o.
Serving(o, points) == Now.at \in points /\ Now.who = o

\* A payment that has succeeded has its row, or the request that makes it is on its way.
PaidRows ==
  ~dropped => \A i \in SubPayments :
    pay[i] # None /\ pay[i].status = "SUCCESS" /\ IsOffice(pay[i].payer) =>
      \/ \E s \in Subs : sub[s] # None /\ sub[s].pay = i
      \/ Now.at \in {"sub_expire", "sub_insert"} /\ Now.pay = i

\* A row of the office that has ended, with no other in its place
Ended(s, o) == sub[s] # None /\ sub[s].office = o /\ sub[s].left = Over /\ ActiveSubs(o) = {}

StatusRight(o) == account[o] # None /\ account[o].status = "OFFICE_NO_SUBSCRIPTION" => ActiveSubs(o) = {}
KnownRight(o) == known[o] # None => EntryTrue(known[o], o)
ShownRight(o) == shown[o] # None => shown[o].sub \in ActiveSubs(o) \/ Ended(shown[o].sub, o)

\* The account and the keys of an office agree with its rows, or a request on its way is
\* about to see to it.
Fits(o) ==
  /\ StatusRight(o) \/ (Serving(o, {"sub_status"}) /\ Now.status = "ACTIVE")
  /\ IsOffice(o) => KnownRight(o) \/ Serving(o, {"sub_insert", "sub_status", "drop_status"})
  /\ IsOffice(o) => ShownRight(o) \/ Serving(o, {"sub_insert", "sub_status", "drop_status", "drop_shown"})

OfficesFit == ~dropped => \A o \in Accounts \ doubled : Fits(o)

\* Whatever is bought or about to be is a plan there is.
Bought ==
  /\ \A s \in Subs : sub[s] # None => plan[sub[s].plan] # None
  /\ \A i \in SubPayments : pay[i] # None => plan[pay[i].plan] # None
  /\ Now.at \in {"sub_expire", "sub_insert"} => plan[Now.plan] # None

\* A copy was read while no edit was on its way: it has what the admin had given the plan.
Faithful(copy) == copy.features = copy.asked
Copies ==
  ~dropped => /\ \A o \in Accounts : shown[o] # None => Faithful(shown[o])
              /\ Now.at = "set_shown" => Faithful(Now.entry)

SubInv == OneRequest /\ Tables /\ Refs /\ Single /\ Knows(Now) /\ PaidRows /\ OfficesFit

\* A request that is not about a plan, and its points
SubPoints == {"sub_expire", "sub_insert", "sub_status", "drop_status", "drop_shown", "cancel", "trial",
              "lapse", "set_status", "set_shown", "sub_charge", "sub_verdict"}

\* The points where the rows of an office are on the move
BusyPoints == {"sub_expire", "sub_insert", "sub_status", "drop_status", "drop_shown"}
subTables == <<accountVars, office, employee, details, subVars>>

\* Only the requests have moved.
LEMMA RowsStay ==
  ASSUME Tables, Refs, Single, UNCHANGED subTables PROVE Tables' /\ Refs' /\ Single'
  BY DEF Tables, Refs, Single, subTables, accountVars, subVars, AccountsTypeOK, OfficesTypeOK, IsOffice,
         HasRole, Exists, PaidSubs, ActiveSubs

\* What office o has is left alone, by a request that does not serve it.
LEMMA OfficeFits ==
  ASSUME NEW o \in Accounts, Fits(o), ActiveSubs(o)' = ActiveSubs(o), Tables,
         \A s \in Subs : sub[s] # None /\ sub[s].office = o => sub'[s] = sub[s],
         account'[o] = account[o], known'[o] = known[o], shown'[o] = shown[o], IsOffice(o)' => IsOffice(o),
         ~Serving(o, BusyPoints)
  PROVE  Fits(o)'
<1>1. \A s \in ActiveSubs(o) : s \in Subs /\ sub[s] # None /\ sub'[s] = sub[s]
  BY DEF ActiveSubs
<1>2. Runs(o)' <=> Runs(o)
  BY <1>1 DEF Runs
<1>3. StatusRight(o)'
  BY DEF Fits, StatusRight, Serving, BusyPoints
<1>4. IsOffice(o) => KnownRight(o)
  BY DEF Fits, Serving, BusyPoints
<1>5. IsOffice(o) => ShownRight(o)
  BY DEF Fits, Serving, BusyPoints
<1>6. IsOffice(o) => KnownRight(o)'
  BY <1>2, <1>4 DEF KnownRight, EntryTrue
<1>7. shown[o] # None => shown[o].sub \in Subs
  BY DEF Tables, Copy
<1>8. IsOffice(o) => ShownRight(o)'
  BY <1>5, <1>7 DEF ShownRight, Ended
<1>9. QED
  BY <1>3, <1>6, <1>8 DEF Fits

LEMMA FitsStay ==
  ASSUME PaidRows, OfficesFit, Tables, UNCHANGED subTables, dropped' = dropped, Now.at \notin BusyPoints
  PROVE  PaidRows' /\ OfficesFit'
<1>1. ASSUME NEW o PROVE ActiveSubs(o)' = ActiveSubs(o) /\ IsOffice(o)' = IsOffice(o)
  BY DEF subTables, subVars, ActiveSubs, IsOffice
<1>2. PaidRows'
  BY <1>1 DEF PaidRows, BusyPoints, subTables, subVars
<1>3. ASSUME ~dropped, NEW o \in Accounts \ doubled PROVE Fits(o)'
  <2>1. Fits(o) /\ ~Serving(o, BusyPoints)
    BY <1>3 DEF OfficesFit, Serving
  <2>2. /\ account' = account /\ known' = known /\ shown' = shown /\ sub' = sub
    BY DEF subTables, subVars, accountVars
  <2>3. QED
    BY <1>1, <2>1, <2>2, OfficeFits
<1>4. QED
  BY <1>2, <1>3 DEF OfficesFit, subTables, subVars

LEMMA KnowsStays ==
  ASSUME NEW r, Knows(r), UNCHANGED subTables, dropped => dropped', Now' = r PROVE Knows(Now)'
  BY DEF Knows, subTables, subVars, accountVars, FreeSubs, ActiveSubs, IsOffice, EntryTrue, Runs

\* A request that has read the rows turns to r.
LEMMA ReadsKeepSubs ==
  ASSUME SubInv, NEW h \in Handlers, NEW r, Begin(h, r), UNCHANGED subTables, Knows(r)
  PROVE  SubInv'
<1>1. OneRequest' /\ Now = Idle /\ Now' = r /\ dropped' = dropped
  BY BeginTurns DEF SubInv
<1>2. Now.at \notin BusyPoints
  BY <1>1 DEF BusyPoints, Idle
<1>3. QED
  BY <1>1, <1>2, RowsStay, FitsStay, KnowsStays DEF SubInv

LEMMA OfficeOfIsAccount ==
  ASSUME Tables, NEW a \in Accounts PROVE OfficeOf(a) \in Accounts
<1>1. CASE MembershipsOf(a) = {}
  BY <1>1 DEF OfficeOf, IsEmployee
<1>2. CASE MembershipsOf(a) # {}
  <2>1. PICK e \in Employees : e = (CHOOSE x \in MembershipsOf(a) : TRUE) /\ employee[e] # None
    BY <1>2 DEF MembershipsOf
  <2>2. employee[e] \in Employee
    BY <2>1 DEF Tables, OfficesTypeOK
  <2>3. QED
    BY <1>2, <2>1, <2>2 DEF OfficeOf, IsEmployee, Employee
<1>3. QED
  BY <1>1, <1>2

LEMMA CopyIsCopy ==
  ASSUME Tables, PlanTypes, Bought, NEW o, NEW s \in ActiveSubs(o)
  PROVE  CopyOf(s) \in Copy /\ CopyOf(s).sub = s /\ sub[s] \in Subscription /\ plan[sub[s].plan] \in Plan
<1>1. s \in Subs /\ sub[s] \in Subscription /\ plan[sub[s].plan] # None
  BY DEF ActiveSubs, Tables, Bought
<1>2. sub[s].plan \in Plans /\ plan[sub[s].plan] \in Plan
  BY <1>1, PlanRow DEF Subscription
<1>3. plan[sub[s].plan].features \subseteq Features /\ wanted[sub[s].plan] \subseteq Features
  BY <1>2 DEF Plan, PlanTypes
<1>4. QED
  BY <1>1, <1>2, <1>3 DEF CopyOf, Copy

LEMMA ReadingsKeepSubs ==
  ASSUME SubInv, PlanTypes, Bought, NEW h \in Handlers, NEW a \in Accounts,
         CancelRead(h, a) \/ CheckRead(h, a) \/ ShowRead(h, a), UNCHANGED officeVars
  PROVE  SubInv'
<1> DEFINE o == OfficeOf(a)
<1>1. UNCHANGED subTables
  BY DEF CancelRead, CheckRead, ShowRead, subTables, officeVars
<1>2. o \in Accounts
  BY OfficeOfIsAccount DEF SubInv
<1> HIDE DEF o
<1>3. ASSUME NEW s \in ActiveSubs(a), Begin(h, [at |-> "cancel", who |-> a, sub |-> s]) PROVE SubInv'
  <2> DEFINE r == [at |-> "cancel", who |-> a, sub |-> s]
  <2>1. Knows(r)
    BY DEF Knows
  <2> HIDE DEF r
  <2>2. QED
    BY <1>1, <1>3, <2>1, ReadsKeepSubs DEF r
<1>4. ASSUME NEW s \in ActiveSubs(o), Begin(h, [at |-> "set_shown", who |-> o, entry |-> CopyOf(s)])
      PROVE  SubInv'
  <2> DEFINE r == [at |-> "set_shown", who |-> o, entry |-> CopyOf(s)]
  <2>1. CopyOf(s) \in Copy /\ CopyOf(s).sub = s
    BY CopyIsCopy DEF SubInv
  <2>2. Knows(r)
    BY <1>2, <2>1 DEF Knows
  <2> HIDE DEF r
  <2>3. QED
    BY <1>1, <1>4, <2>2, ReadsKeepSubs DEF r
<1>5. ASSUME NEW s \in ActiveSubs(o), sub[s].left = Over, Begin(h, [at |-> "lapse", who |-> o, sub |-> s])
      PROVE  SubInv'
  <2> DEFINE r == [at |-> "lapse", who |-> o, sub |-> s]
  <2>1. Knows(r)
    BY <1>2, <1>5 DEF Knows
  <2> HIDE DEF r
  <2>2. QED
    BY <1>1, <1>5, <2>1, ReadsKeepSubs DEF r
<1>6. ASSUME NEW entry \in StatusKey, EntryTrue(entry, o),
             Begin(h, [at |-> "set_status", who |-> o, entry |-> entry])
      PROVE  SubInv'
  <2> DEFINE r == [at |-> "set_status", who |-> o, entry |-> entry]
  <2>1. Knows(r)
    BY <1>2, <1>6 DEF Knows
  <2> HIDE DEF r
  <2>2. QED
    BY <1>1, <1>6, <2>1, ReadsKeepSubs DEF r
<1>7. CASE CancelRead(h, a)
  BY <1>3, <1>7 DEF CancelRead
<1>8. CASE ShowRead(h, a)
  BY <1>4, <1>8 DEF ShowRead, o
<1>9. CASE CheckRead(h, a)
  <2>1. CASE ActiveSubs(o) = {}
    <3> DEFINE entry == [status |-> "EXPIRED", lapses |-> TRUE]
    <3>1. entry \in StatusKey /\ EntryTrue(entry, o)
      BY <2>1 DEF StatusKey, EntryTrue, Runs
    <3>2. Begin(h, [at |-> "set_status", who |-> o, entry |-> entry])
      BY <1>9, <2>1 DEF CheckRead, o
    <3> HIDE DEF entry
    <3>3. QED
      BY <1>6, <3>1, <3>2
  <2>2. CASE ActiveSubs(o) # {}
    <3>1. PICK s \in ActiveSubs(o) :
            Begin(h, IF sub[s].left = Over THEN [at |-> "lapse", who |-> o, sub |-> s]
                     ELSE [at |-> "set_status", who |-> o,
                           entry |-> [status |-> "ACTIVE", lapses |-> sub[s].left # LastSecond]])
      BY <1>9, <2>2 DEF CheckRead, o
    <3>2. CASE sub[s].left = Over
      BY <1>5, <3>1, <3>2
    <3>3. CASE sub[s].left # Over
      <4> DEFINE entry == [status |-> "ACTIVE", lapses |-> sub[s].left # LastSecond]
      <4>1. entry \in StatusKey /\ EntryTrue(entry, o)
        BY <3>3 DEF StatusKey, EntryTrue, Runs
      <4>2. Begin(h, [at |-> "set_status", who |-> o, entry |-> entry])
        BY <3>1, <3>3
      <4> HIDE DEF entry
      <4>3. QED
        BY <1>6, <4>1, <4>2
    <3>4. QED
      BY <3>2, <3>3
  <2>3. QED
    BY <2>1, <2>2
<1>10. QED
  BY <1>7, <1>8, <1>9

LEMMA NotifiedKeepsSubs ==
  ASSUME SubInv, NEW h \in Handlers, NEW i \in SubPayments, NEW webhook \in BOOLEAN,
         SubNotified(h, i, webhook), UNCHANGED officeVars
  PROVE  SubInv'
<1> DEFINE r == [at |-> "sub_verdict", pay |-> i, effects |-> webhook \/ pay[i].status # "SUCCESS",
                 verdict |-> IF pay[i].charge = "CAPTURED" THEN "SUCCESS" ELSE "FAILED"]
<1>1. /\ pay[i] # None /\ FreeSubs # {} /\ Begin(h, r)
      /\ UNCHANGED subTables
  BY DEF SubNotified, subTables, officeVars
<1>2. Knows(r)
  BY <1>1 DEF Knows
<1> HIDE DEF r
<1>3. QED
  BY <1>1, <1>2, ReadsKeepSubs

\* A request that leaves the tables ends, or is about something else.
LEMMA OthersKeepSubs ==
  ASSUME SubInv, OneRequest', UNCHANGED subTables, dropped' = dropped, Now.at \notin BusyPoints,
         Now'.at \notin SubPoints
  PROVE  SubInv'
<1>1. Knows(Now)'
  BY DEF Knows, SubPoints
<1>2. QED
  BY <1>1, RowsStay, FitsStay DEF SubInv

LEMMA DropKeepsSubs ==
  ASSUME SubInv, NEW h \in Handlers, Drop(h), UNCHANGED subTables PROVE SubInv'
<1>1. OneRequest' /\ Now' = Idle /\ dropped'
  BY DropTurns DEF SubInv
<1>2. Knows(Now)'
  BY <1>1 DEF Knows, Idle
<1>3. PaidRows' /\ OfficesFit'
  BY <1>1 DEF PaidRows, OfficesFit
<1>4. QED
  BY <1>1, <1>2, <1>3, RowsStay DEF SubInv

LEMMA PlanTurns ==
  ASSUME PlanInv, NEW h \in Handlers, PlanRequest(h) \/ PlansStep(h)
  PROVE  /\ OneRequest' /\ dropped' = dropped /\ Now.at \in PlanPoints \union {"idle"}
         /\ Now'.at \in PlanPoints \union {"idle"}
<1>1. ASSUME NEW r, Begin(h, r), r.at \in PlanPoints
      PROVE  /\ OneRequest' /\ dropped' = dropped /\ Now.at \in PlanPoints \union {"idle"}
             /\ Now'.at \in PlanPoints \union {"idle"}
  BY <1>1, BeginTurns DEF Idle, PlanInv
<1>2. ASSUME NEW point \in PlanPoints, At(h, point), NEW r, Goto(h, r), r.at \in PlanPoints \union {"idle"}
      PROVE  /\ OneRequest' /\ dropped' = dropped /\ Now.at \in PlanPoints \union {"idle"}
             /\ Now'.at \in PlanPoints \union {"idle"}
  <2>1. point # "idle"
    BY DEF PlanPoints
  <2>2. QED
    BY <1>2, <2>1, GotoTurns DEF At, PlanInv
<1> USE DEF PlanPoints
<1>3. CASE PlanRequest(h)
  BY <1>1, <1>3 DEF PlanRequest, CreatePlan, UpdatePlan
<1>4. CASE ClearFeatures(h)
  BY <1>2, <1>4 DEF ClearFeatures
<1>5. CASE LookUpFeature(h)
  BY <1>2, <1>5 DEF LookUpFeature
<1>6. CASE SaveFeature(h)
  BY <1>2, <1>6 DEF SaveFeature, Done, Idle
<1>7. CASE AttachOne(h)
  <2>1. At(h, "attach_one") /\ Goto(h, [req[h] EXCEPT !.at = "features"])
    BY <1>7 DEF AttachOne
  <2>2. req[h] \in PlanRequests /\ req[h].at = "attach_one"
    BY <2>1, EditOf
  <2>3. [req[h] EXCEPT !.at = "features"].at = "features"
    BY <2>2 DEF PlanRequests
  <2>4. QED
    BY <1>2, <2>1, <2>3
<1>8. CASE AttachAll(h)
  BY <1>2, <1>8 DEF AttachAll, Done, Idle
<1>9. QED
  BY <1>3, <1>4, <1>5, <1>6, <1>7, <1>8 DEF PlansStep

-----------------------------------------------------------------------------
(* Subscriptions: the statements *)

LEMMA SubRow ==
  ASSUME Tables, NEW s \in Subs, sub[s] # None PROVE sub[s] \in Subscription
  BY DEF Tables

\* An expired row keeps all but its status, and what is left of it when it is cancelled.
LEMMA ExpiredRow ==
  ASSUME Tables, NEW s \in Subs, sub[s] # None
  PROVE  LET row == [sub[s] EXCEPT !.status = "EXPIRED"]
         IN /\ row \in Subscription /\ row # None /\ row.status = "EXPIRED"
            /\ row.office = sub[s].office /\ row.left = sub[s].left
            /\ row.pay = sub[s].pay /\ row.trial = sub[s].trial
<1>1. [sub[s] EXCEPT !.status = "EXPIRED"] \in Subscription
  BY SubRow DEF Subscription
<1>2. [sub[s] EXCEPT !.status = "EXPIRED"] # None
  BY <1>1, NoneIsNoSubscriptionRow
<1>3. QED
  BY <1>1, <1>2, SubRow DEF Subscription

\* All that is active of an office expires.
LEMMA ExpiredRows ==
  ASSUME Tables, NEW o,
         sub' = [s \in Subs |-> IF s \in ActiveSubs(o) THEN [sub[s] EXCEPT !.status = "EXPIRED"] ELSE sub[s]]
  PROVE  /\ sub' \in [Subs -> Subscription \union {None}]
         /\ ActiveSubs(o)' = {}
         /\ \A x : x # o => ActiveSubs(x)' = ActiveSubs(x)
         /\ \A s \in Subs : sub'[s] # None <=> sub[s] # None
         /\ \A s \in Subs : sub[s] # None =>
              /\ sub'[s].office = sub[s].office /\ sub'[s].left = sub[s].left
              /\ sub'[s].pay = sub[s].pay /\ sub'[s].trial = sub[s].trial
         /\ FreeSubs' = FreeSubs
<1>1. ASSUME NEW s \in Subs
      PROVE  /\ sub'[s] \in Subscription \union {None}
             /\ sub'[s] # None <=> sub[s] # None
             /\ sub[s] # None =>
                  /\ sub'[s].office = sub[s].office /\ sub'[s].left = sub[s].left
                  /\ sub'[s].pay = sub[s].pay /\ sub'[s].trial = sub[s].trial
             /\ s \in ActiveSubs(o) => sub'[s].status = "EXPIRED"
             /\ s \notin ActiveSubs(o) => sub'[s] = sub[s]
  <2>1. CASE s \in ActiveSubs(o)
    <3>1. sub[s] # None
      BY <2>1 DEF ActiveSubs
    <3>2. sub'[s] = [sub[s] EXCEPT !.status = "EXPIRED"]
      BY <2>1
    <3>3. QED
      BY <2>1, <3>1, <3>2, ExpiredRow
  <2>2. CASE s \notin ActiveSubs(o)
    BY <2>2 DEF Tables
  <2>3. QED
    BY <2>1, <2>2
<1>2. sub' \in [Subs -> Subscription \union {None}]
  BY <1>1
<1>3. ActiveSubs(o)' = {}
  BY <1>1 DEF ActiveSubs
<1>4. ASSUME NEW x, x # o PROVE ActiveSubs(x)' = ActiveSubs(x)
  BY <1>1, <1>4 DEF ActiveSubs
<1>5. QED
  BY <1>1, <1>2, <1>3, <1>4 DEF FreeSubs

LEMMA ExpireKeepsSubs ==
  ASSUME SubInv, NEW h \in Handlers, ExpireActive(h), UNCHANGED officeVars PROVE SubInv'
<1> DEFINE r == [req[h] EXCEPT !.at = "sub_insert"]
<1>1. /\ At(h, "sub_expire") /\ Goto(h, r)
      /\ UNCHANGED <<accountVars, officeVars, doubled, known, shown, pay>>
  BY DEF ExpireActive
<1>2. OneRequest' /\ Now = req[h] /\ Now' = r /\ dropped' = dropped
  BY <1>1, GotoTurns DEF SubInv
<1>3. /\ req[h] \in [at : {"sub_expire", "sub_insert"}, who : Accounts, plan : Plans, pay : SubPayments]
      /\ req[h].at = "sub_expire" /\ pay[req[h].pay] # None /\ pay[req[h].pay].payer = req[h].who
      /\ FreeSubs # {}
  BY <1>1, <1>2 DEF SubInv, Knows, At
<1>4. /\ r \in [at : {"sub_expire", "sub_insert"}, who : Accounts, plan : Plans, pay : SubPayments]
      /\ r.at = "sub_insert" /\ r.who = req[h].who /\ r.pay = req[h].pay
  BY <1>3
<1> HIDE DEF r
<1>5. PICK o \in Accounts : o = req[h].who
  BY <1>3
<1>6. sub' = [s \in Subs |-> IF s \in ActiveSubs(o) THEN [sub[s] EXCEPT !.status = "EXPIRED"] ELSE sub[s]]
  BY <1>5 DEF ExpireActive
<1>7. /\ sub' \in [Subs -> Subscription \union {None}]
      /\ ActiveSubs(o)' = {}
      /\ \A x : x # o => ActiveSubs(x)' = ActiveSubs(x)
      /\ \A s \in Subs : sub'[s] # None <=> sub[s] # None
      /\ \A s \in Subs : sub[s] # None =>
           /\ sub'[s].office = sub[s].office /\ sub'[s].left = sub[s].left
           /\ sub'[s].pay = sub[s].pay /\ sub'[s].trial = sub[s].trial
      /\ FreeSubs' = FreeSubs
  BY <1>6, ExpiredRows DEF SubInv
<1>8. \A s \in Subs : sub[s] # None /\ sub[s].office # o => sub'[s] = sub[s]
  BY <1>6 DEF ActiveSubs
<1>9. Tables'
  BY <1>1, <1>7 DEF SubInv, Tables, AccountsTypeOK, OfficesTypeOK, accountVars, officeVars
<1>10. Refs'
  BY <1>1, <1>7 DEF SubInv, Refs, IsOffice, HasRole, Exists, accountVars, officeVars
<1>11. Single'
  <2>1. \A x : \A s \in ActiveSubs(x)' : s \in ActiveSubs(x) /\ s \in Subs /\ sub[s] # None
    BY <1>7 DEF ActiveSubs
  <2>2. \A x : \A s \in PaidSubs(x)' : s \in PaidSubs(x)
    BY <1>7, <2>1 DEF PaidSubs
  <2>3. QED
    BY <1>1, <2>1, <2>2 DEF SubInv, Single
<1>12. Knows(Now)'
  <2>1. Now'.at = "sub_insert" /\ Now'.who = o
    BY <1>2, <1>4, <1>5
  <2>2. \A x : x = o => ActiveSubs(x)' = {}
    BY <1>7
  <2>3. (ActiveSubs(Now.who) = {})'
    BY <1>7, <2>1
  <2>4. QED
    BY <1>1, <1>2, <1>3, <1>4, <1>7, <2>3 DEF Knows
<1>13. PaidRows'
  BY <1>1, <1>2, <1>3, <1>4, <1>7 DEF SubInv, PaidRows, IsOffice, officeVars
<1>14. ASSUME ~dropped, NEW x \in Accounts \ doubled PROVE Fits(x)'
  <2>1. Fits(x)
    BY <1>14 DEF SubInv, OfficesFit
  <2>2. CASE x # o
    <3>1. /\ ~Serving(x, BusyPoints)
      BY <1>2, <1>5, <2>2 DEF Serving
    <3>2. account' = account /\ known' = known /\ shown' = shown /\ IsOffice(x)' = IsOffice(x)
      BY <1>1 DEF accountVars, officeVars, IsOffice
    <3>3. \A s \in Subs : sub[s] # None /\ sub[s].office = x => sub'[s] = sub[s]
      BY <1>8, <2>2
    <3>4. QED
      BY <1>7, <2>1, <2>2, <3>1, <3>2, <3>3, OfficeFits DEF SubInv
  <2>3. CASE x = o
    BY <1>2, <1>4, <1>5, <1>7, <2>3 DEF Fits, Serving, StatusRight
  <2>4. QED
    BY <2>2, <2>3
<1>15. OfficesFit'
  BY <1>1, <1>2, <1>14 DEF OfficesFit
<1>16. QED
  BY <1>2, <1>9, <1>10, <1>11, <1>12, <1>13, <1>15 DEF SubInv

\* A new active row of office o takes a free id.
LEMMA InsertedRow ==
  ASSUME SubInv, NEW o \in Accounts, IsOffice(o), NEW row \in Subscription, row.office = o, row.status = "ACTIVE",
         row.pay # None => pay[row.pay] # None /\ pay[row.pay].payer = o,
         FreeSubs # {}, sub' = [sub EXCEPT ![FreeSub] = row],
         UNCHANGED <<accountVars, officeVars, known, shown, pay>>
  PROVE  /\ Tables' /\ Refs'
         /\ \E f \in Subs :
              /\ sub[f] = None /\ sub'[f] = row /\ row # None
              /\ \A s \in Subs \ {f} : sub'[s] = sub[s]
              /\ ActiveSubs(o)' = ActiveSubs(o) \union {f}
              /\ \A x : x # o => ActiveSubs(x)' = ActiveSubs(x)
<1> DEFINE f == FreeSub
<1>1. f \in Subs /\ sub[f] = None
  BY DEF FreeSubs, FreeSub
<1> HIDE DEF f
<1>2. /\ sub'[f] = row /\ \A s \in Subs \ {f} : sub'[s] = sub[s]
      /\ sub' \in [Subs -> Subscription \union {None}]
  BY <1>1 DEF SubInv, Tables, f
<1>3. row # None
  BY NoneIsNoSubscriptionRow
<1>4. ActiveSubs(o)' = ActiveSubs(o) \union {f} /\ \A x : x # o => ActiveSubs(x)' = ActiveSubs(x)
  BY <1>1, <1>2, <1>3 DEF ActiveSubs
<1>5. Tables'
  BY <1>2 DEF SubInv, Tables, AccountsTypeOK, OfficesTypeOK, accountVars, officeVars
<1>6. Refs'
  BY <1>1, <1>2 DEF SubInv, Refs, IsOffice, HasRole, Exists, accountVars, officeVars
<1>7. QED
  BY <1>1, <1>2, <1>3, <1>4, <1>5, <1>6

\* What a statement that serves office o leaves to be seen: the other offices keep what they have.
LEMMA OnlyServed ==
  ASSUME SubInv, NEW o \in Accounts, OneRequest', dropped' = dropped,
         \A x : x # o => ActiveSubs(x)' = ActiveSubs(x),
         \A s \in Subs : sub[s] # None /\ sub[s].office # o => sub'[s] = sub[s],
         \A x \in Accounts \ {o} : /\ account'[x] = account[x] /\ known'[x] = known[x]
                                   /\ shown'[x] = shown[x] /\ (IsOffice(x)' => IsOffice(x)),
         Now.at \in BusyPoints => Now.who = o, doubled \subseteq doubled',
         ~dropped /\ o \notin doubled' => Fits(o)'
  PROVE  OfficesFit'
<1>1. ASSUME ~dropped, NEW x \in Accounts \ doubled' PROVE Fits(x)'
  <2>1. Fits(x)
    BY <1>1 DEF SubInv, OfficesFit
  <2>2. CASE x = o
    BY <1>1, <2>2
  <2>3. CASE x # o
    <3>1. ~Serving(x, BusyPoints)
      BY <2>3 DEF Serving
    <3>2. \A s \in Subs : sub[s] # None /\ sub[s].office = x => sub'[s] = sub[s]
      BY <2>3
    <3>3. /\ account'[x] = account[x] /\ known'[x] = known[x] /\ shown'[x] = shown[x]
          /\ IsOffice(x)' => IsOffice(x)
          /\ ActiveSubs(x)' = ActiveSubs(x)
      BY <2>3
    <3>4. QED
      BY <2>1, <3>1, <3>2, <3>3, OfficeFits DEF SubInv
  <2>4. QED
    BY <2>2, <2>3
<1>2. QED
  BY <1>1 DEF OfficesFit

LEMMA InsertKeepsSubs ==
  ASSUME SubInv, NEW h \in Handlers, InsertSub(h), UNCHANGED officeVars PROVE SubInv'
<1>1. /\ At(h, "sub_insert") /\ UNCHANGED <<accountVars, officeVars, doubled, known, shown, pay>>
      /\ Now = req[h]
  BY AtIsNow DEF InsertSub, SubInv
<1>2. /\ req[h] \in [at : {"sub_expire", "sub_insert"}, who : Accounts, plan : Plans, pay : SubPayments]
      /\ req[h].at = "sub_insert" /\ pay[req[h].pay] # None /\ pay[req[h].pay].payer = req[h].who
      /\ FreeSubs # {} /\ ActiveSubs(req[h].who) = {}
  BY <1>1 DEF SubInv, Knows, At
<1>3. PICK o \in Accounts : o = req[h].who
  BY <1>2
<1>4. PICK i \in SubPayments : i = req[h].pay
  BY <1>2
<1>5. CASE ~IsOffice(o)
  <2>1. Done(h) /\ sub' = sub
    BY <1>2, <1>3, <1>5 DEF InsertSub
  <2>2. OneRequest' /\ Now' = Idle /\ dropped' = dropped /\ UNCHANGED subTables
    BY <1>1, <2>1, GotoTurns DEF SubInv, Done, subTables, subVars, officeVars
  <2>3. Knows(Now)'
    BY <2>2 DEF Knows, Idle
  <2>4. PaidRows'
    BY <1>1, <1>2, <1>3, <1>5, <2>2 DEF SubInv, PaidRows, IsOffice, subTables, subVars
  <2>5. ~dropped /\ o \notin doubled' => Fits(o)'
    <3>1. ActiveSubs(o)' = {} /\ ~IsOffice(o)'
      BY <1>2, <1>3, <1>5, <2>2 DEF ActiveSubs, IsOffice, subTables, subVars
    <3>2. QED
      BY <3>1 DEF Fits, StatusRight
  <2>6. OfficesFit'
    <3>1. \A x : x # o => ActiveSubs(x)' = ActiveSubs(x)
      BY <2>1 DEF ActiveSubs
    <3>2. \A x \in Accounts \ {o} : /\ account'[x] = account[x] /\ known'[x] = known[x]
                                    /\ shown'[x] = shown[x] /\ (IsOffice(x)' => IsOffice(x))
      BY <1>1 DEF accountVars, officeVars, IsOffice
    <3>3. QED
      BY <1>1, <1>3, <2>1, <2>2, <2>5, <3>1, <3>2, OnlyServed
  <2>7. QED
    BY <2>2, <2>3, <2>4, <2>6, RowsStay DEF SubInv
<1>6. CASE IsOffice(o)
  <2> DEFINE row == NewSub(o, req[h].plan, i)
             r == [at |-> "sub_status", who |-> o, status |-> "ACTIVE"]
  <2>1. sub' = [sub EXCEPT ![FreeSub] = row] /\ Goto(h, r)
    BY <1>2, <1>3, <1>4, <1>6 DEF InsertSub
  <2>2. i # None
    BY NoneIsNoSubscriptionRow
  <2>3. /\ row \in Subscription /\ row.office = o /\ row.status = "ACTIVE" /\ row.pay = i /\ ~row.trial
    <3>1. row = [office |-> o, plan |-> req[h].plan, status |-> "ACTIVE", left |-> 2,
                 trial |-> FALSE, pay |-> i]
      BY <2>2 DEF NewSub, Days
    <3>2. req[h].plan \in Plans /\ 2 \in Over..Days
      BY <1>2 DEF Over, Days
    <3>3. QED
      BY <3>1, <3>2 DEF Subscription
  <2> HIDE DEF row
  <2>4. OneRequest' /\ Now' = r /\ dropped' = dropped
    BY <1>1, <2>1, GotoTurns DEF SubInv
  <2>5. /\ Tables' /\ Refs'
        /\ \E f \in Subs :
             /\ sub[f] = None /\ sub'[f] = row /\ row # None
             /\ \A s \in Subs \ {f} : sub'[s] = sub[s]
             /\ ActiveSubs(o)' = ActiveSubs(o) \union {f}
             /\ \A x : x # o => ActiveSubs(x)' = ActiveSubs(x)
    <3>1. pay[row.pay] # None /\ pay[row.pay].payer = o
      BY <1>2, <1>3, <1>4, <2>3
    <3>2. UNCHANGED <<accountVars, officeVars, known, shown, pay>> /\ FreeSubs # {}
      BY <1>1, <1>2
    <3>3. QED
      BY <1>6, <2>1, <2>3, <3>1, <3>2, InsertedRow
  <2>6. PICK f \in Subs :
             /\ sub[f] = None /\ sub'[f] = row /\ row # None
             /\ \A s \in Subs \ {f} : sub'[s] = sub[s]
             /\ ActiveSubs(o)' = ActiveSubs(o) \union {f}
             /\ \A x : x # o => ActiveSubs(x)' = ActiveSubs(x)
    BY <2>5
  <2>7. ActiveSubs(o)' = {f}
    BY <1>2, <1>3, <2>6
  <2>8. Single'
    <3>1. \A x : x # o => PaidSubs(x)' = PaidSubs(x)
      BY <2>6 DEF PaidSubs, ActiveSubs
    <3>2. \A s \in PaidSubs(o)' : s = f
      BY <2>7 DEF PaidSubs
    <3>3. QED
      BY <1>1, <2>6, <2>7, <3>1, <3>2 DEF SubInv, Single
  <2>9. Knows(Now)'
    BY <1>1, <1>6, <2>4 DEF Knows, IsOffice, officeVars
  <2>10. PaidRows'
    <3> SUFFICES ASSUME ~dropped, NEW j \in SubPayments,
                        pay[j] # None, pay[j].status = "SUCCESS", IsOffice(pay[j].payer)
                 PROVE  \E s \in Subs : sub'[s] # None /\ sub'[s].pay = j
      BY <1>1, <2>4 DEF PaidRows, IsOffice, officeVars
    <3>1. CASE j = i
      BY <2>3, <2>6, <3>1
    <3>2. CASE j # i
      <4>1. PICK s \in Subs : sub[s] # None /\ sub[s].pay = j
        BY <1>1, <1>4, <3>2 DEF SubInv, PaidRows
      <4>2. QED
        BY <2>6, <4>1
    <3>3. QED
      BY <3>1, <3>2
  <2>11. ~dropped /\ o \notin doubled' => Fits(o)'
    BY <2>4 DEF Fits, Serving
  <2>12. OfficesFit'
    <3>1. \A x \in Accounts \ {o} : /\ account'[x] = account[x] /\ known'[x] = known[x]
                                    /\ shown'[x] = shown[x] /\ (IsOffice(x)' => IsOffice(x))
      BY <1>1 DEF accountVars, officeVars, IsOffice
    <3>2. \A s \in Subs : sub[s] # None /\ sub[s].office # o => sub'[s] = sub[s]
      BY <2>6
    <3>3. QED
      BY <1>1, <1>3, <2>4, <2>6, <2>11, <3>1, <3>2, OnlyServed
  <2>13. QED
    BY <2>4, <2>5, <2>8, <2>9, <2>10, <2>12 DEF SubInv
<1>7. QED
  BY <1>5, <1>6

LEMMA StatusSet ==
  ASSUME SubInv, NEW o \in Accounts, IsOffice(o), NEW status \in AccountStatus, SetStatus(o, status)
  PROVE  /\ AccountsTypeOK' /\ account'[o] # None /\ account'[o].status = status
         /\ \A x \in Accounts : x # o => account'[x] = account[x]
         /\ \A x \in Accounts : HasRole(x, "OFFICE") => HasRole(x, "OFFICE")'
<1> DEFINE row == [account[o] EXCEPT !.status = status]
<1>1. account[o] \in Account
  BY DEF SubInv, Tables, AccountsTypeOK, Refs, HasRole, Exists
<1>2. row \in Account /\ row.status = status /\ row.role = account[o].role
  BY <1>1 DEF Account
<1>3. account' = [account EXCEPT ![o] = row] /\ proved' = proved
  BY DEF SetStatus, SubInv, Tables, AccountsTypeOK
<1> HIDE DEF row
<1>4. AccountsTypeOK' /\ account'[o] = row /\ \A x \in Accounts : x # o => account'[x] = account[x]
  BY <1>2, <1>3 DEF SubInv, Tables, AccountsTypeOK
<1>5. row # None
  BY <1>2, NoneIsNoAccountRow
<1>6. QED
  BY <1>2, <1>4, <1>5 DEF HasRole, Exists

LEMMA StatusKeepsSubs ==
  ASSUME SubInv, NEW h \in Handlers, SubStatus(h), UNCHANGED officeVars PROVE SubInv'
<1> DEFINE r == [at |-> "drop_status", who |-> req[h].who]
<1>1. At(h, "sub_status") /\ Goto(h, r) /\ UNCHANGED <<officeVars, subVars>>
  BY DEF SubStatus
<1>2. OneRequest' /\ Now = req[h] /\ Now' = r /\ dropped' = dropped
  BY <1>1, GotoTurns DEF SubInv
<1>3. /\ req[h].at = "sub_status" /\ req[h].who \in Accounts /\ IsOffice(req[h].who)
      /\ \/ req[h].status = "ACTIVE"
         \/ /\ req[h].status = "OFFICE_NO_SUBSCRIPTION"
            /\ req[h].who \notin doubled => ActiveSubs(req[h].who) = {}
  BY <1>1, <1>2 DEF SubInv, Knows, At
<1>4. PICK o \in Accounts : o = req[h].who
  BY <1>3
<1>5. PICK status \in AccountStatus : status = req[h].status
  BY <1>3 DEF AccountStatus
<1>6. SetStatus(o, status) /\ IsOffice(o)
  BY <1>3, <1>4, <1>5 DEF SubStatus
<1>7. /\ AccountsTypeOK' /\ account'[o] # None /\ account'[o].status = status
      /\ \A x \in Accounts : x # o => account'[x] = account[x]
      /\ \A x \in Accounts : HasRole(x, "OFFICE") => HasRole(x, "OFFICE")'
  BY <1>6, StatusSet
<1>8. Tables'
  BY <1>1, <1>7 DEF SubInv, Tables, OfficesTypeOK, officeVars, subVars
<1>9. Refs'
  BY <1>1, <1>7 DEF SubInv, Refs, IsOffice, officeVars, subVars
<1>10. \A x : ActiveSubs(x)' = ActiveSubs(x) /\ IsOffice(x)' = IsOffice(x)
  BY <1>1 DEF ActiveSubs, IsOffice, officeVars, subVars
<1>11. Single'
  BY <1>1 DEF SubInv, Single, PaidSubs, ActiveSubs, subVars
<1>12. Knows(Now)'
  BY <1>2, <1>3 DEF Knows
<1>13. PaidRows'
  BY <1>1, <1>2, <1>3, <1>10 DEF SubInv, PaidRows, subVars
<1>14. ASSUME ~dropped, o \notin doubled' PROVE Fits(o)'
  <2>1. StatusRight(o)'
    BY <1>1, <1>3, <1>4, <1>5, <1>7, <1>10, <1>14 DEF StatusRight, subVars
  <2>2. Serving(o, {"sub_insert", "sub_status", "drop_status"})'
    BY <1>2, <1>4 DEF Serving
  <2>3. Serving(o, {"sub_insert", "sub_status", "drop_status", "drop_shown"})'
    BY <1>2, <1>4 DEF Serving
  <2>4. QED
    BY <2>1, <2>2, <2>3 DEF Fits
<1>15. OfficesFit'
  <2>1. \A x \in Accounts \ {o} : /\ account'[x] = account[x] /\ known'[x] = known[x]
                                  /\ shown'[x] = shown[x] /\ (IsOffice(x)' => IsOffice(x))
    BY <1>1, <1>7, <1>10 DEF subVars
  <2>2. sub' = sub /\ doubled' = doubled
    BY <1>1 DEF subVars
  <2>3. QED
    BY <1>2, <1>4, <1>10, <1>14, <2>1, <2>2, OnlyServed
<1>16. QED
  BY <1>2, <1>8, <1>9, <1>11, <1>12, <1>13, <1>15 DEF SubInv

\* A key of office o is dropped or filled, by the request that serves it.
LEMMA KeyWritten ==
  ASSUME SubInv, NEW o \in Accounts, OneRequest', dropped' = dropped, Knows(Now)',
         UNCHANGED <<accountVars, officeVars, sub, doubled, pay>>,
         known' \in [Accounts -> StatusKey \union {None}], shown' \in [Accounts -> Copy \union {None}],
         \A x \in Accounts \ {o} : known'[x] = known[x] /\ shown'[x] = shown[x],
         Now.at \in BusyPoints => Now.who = o, Now.at \notin {"sub_expire", "sub_insert"},
         ~dropped /\ o \notin doubled => Fits(o)'
  PROVE  SubInv'
<1>1. Tables'
  BY DEF SubInv, Tables, AccountsTypeOK, OfficesTypeOK, accountVars, officeVars
<1>2. Refs' /\ Single'
  BY DEF SubInv, Refs, Single, PaidSubs, ActiveSubs, IsOffice, HasRole, Exists, accountVars, officeVars
<1>3. \A x : ActiveSubs(x)' = ActiveSubs(x) /\ IsOffice(x)' = IsOffice(x)
  BY DEF ActiveSubs, IsOffice, officeVars
<1>4. PaidRows'
  BY <1>3 DEF SubInv, PaidRows
<1>5. OfficesFit'
  <2>1. \A x \in Accounts \ {o} : /\ account'[x] = account[x] /\ known'[x] = known[x]
                                  /\ shown'[x] = shown[x] /\ (IsOffice(x)' => IsOffice(x))
    BY <1>3 DEF accountVars
  <2>2. QED
    BY <1>3, <2>1, OnlyServed
<1>6. QED
  BY <1>1, <1>2, <1>4, <1>5 DEF SubInv

LEMMA KeysDroppedKeepSubs ==
  ASSUME SubInv, NEW h \in Handlers, DropStatusKey(h) \/ DropShownKey(h), UNCHANGED officeVars PROVE SubInv'
<1>1. CASE DropStatusKey(h)
  <2> DEFINE r == [at |-> "drop_shown", who |-> req[h].who]
  <2>1. /\ At(h, "drop_status") /\ Goto(h, r) /\ UNCHANGED <<accountVars, officeVars, sub, doubled, shown, pay>>
    BY <1>1 DEF DropStatusKey
  <2>2. OneRequest' /\ Now = req[h] /\ Now' = r /\ dropped' = dropped
    BY <2>1, GotoTurns DEF SubInv
  <2>3. req[h].at = "drop_status" /\ req[h].who \in Accounts
    BY <2>1, <2>2 DEF SubInv, Knows, At
  <2>4. PICK o \in Accounts : o = req[h].who
    BY <2>3
  <2>5. known' = [known EXCEPT ![o] = None]
    BY <1>1, <2>4 DEF DropStatusKey
  <2>6. /\ known'[o] = None /\ \A x \in Accounts \ {o} : known'[x] = known[x]
        /\ known' \in [Accounts -> StatusKey \union {None}] /\ shown' \in [Accounts -> Copy \union {None}]
    BY <2>1, <2>5 DEF SubInv, Tables
  <2>7. Knows(Now)'
    BY <2>2, <2>3 DEF Knows
  <2>8. ASSUME ~dropped, o \notin doubled PROVE Fits(o)'
    <3>1. Fits(o)
      BY <2>8 DEF SubInv, OfficesFit
    <3>2. StatusRight(o)'
      BY <2>1, <2>2, <2>3, <3>1 DEF Fits, StatusRight, Serving, ActiveSubs, accountVars
    <3>3. KnownRight(o)'
      BY <2>6 DEF KnownRight
    <3>4. Serving(o, {"sub_insert", "sub_status", "drop_status", "drop_shown"})'
      BY <2>2, <2>4 DEF Serving
    <3>5. QED
      BY <3>2, <3>3, <3>4 DEF Fits
  <2>9. Now.who = o /\ Now.at \notin {"sub_expire", "sub_insert"}
    BY <2>2, <2>3, <2>4
  <2>10. QED
    BY <2>1, <2>2, <2>6, <2>7, <2>8, <2>9, KeyWritten
<1>2. CASE DropShownKey(h)
  <2>1. /\ At(h, "drop_shown") /\ Done(h) /\ UNCHANGED <<accountVars, officeVars, sub, doubled, known, pay>>
    BY <1>2 DEF DropShownKey
  <2>2. OneRequest' /\ Now = req[h] /\ Now' = Idle /\ dropped' = dropped
    BY <2>1, GotoTurns DEF SubInv, Done
  <2>3. req[h].at = "drop_shown" /\ req[h].who \in Accounts
    BY <2>1, <2>2 DEF SubInv, Knows, At
  <2>4. PICK o \in Accounts : o = req[h].who
    BY <2>3
  <2>5. shown' = [shown EXCEPT ![o] = None]
    BY <1>2, <2>4 DEF DropShownKey
  <2>6. /\ shown'[o] = None /\ \A x \in Accounts \ {o} : shown'[x] = shown[x]
        /\ known' \in [Accounts -> StatusKey \union {None}] /\ shown' \in [Accounts -> Copy \union {None}]
    BY <2>1, <2>5 DEF SubInv, Tables
  <2>7. Knows(Now)'
    BY <2>2 DEF Knows, Idle
  <2>8. ASSUME ~dropped, o \notin doubled PROVE Fits(o)'
    <3>1. Fits(o)
      BY <2>8 DEF SubInv, OfficesFit
    <3>2. StatusRight(o)'
      BY <2>1, <2>2, <2>3, <3>1 DEF Fits, StatusRight, Serving, ActiveSubs, accountVars
    <3>3. IsOffice(o)' => KnownRight(o)'
      BY <2>1, <2>2, <2>3, <3>1 DEF Fits, KnownRight, EntryTrue, Runs, Serving, ActiveSubs, IsOffice, officeVars
    <3>4. ShownRight(o)'
      BY <2>6 DEF ShownRight
    <3>5. QED
      BY <3>2, <3>3, <3>4 DEF Fits
  <2>9. Now.who = o /\ Now.at \notin {"sub_expire", "sub_insert"}
    BY <2>2, <2>3, <2>4
  <2>10. QED
    BY <2>1, <2>2, <2>6, <2>7, <2>8, <2>9, KeyWritten
<1>3. QED
  BY <1>1, <1>2

LEMMA StatusKeyKeepsSubs ==
  ASSUME SubInv, NEW h \in Handlers, SetStatusKey(h), UNCHANGED officeVars PROVE SubInv'
<1>1. /\ At(h, "set_status") /\ Done(h) /\ UNCHANGED <<accountVars, officeVars, sub, doubled, shown, pay>>
  BY DEF SetStatusKey
<1>2. OneRequest' /\ Now = req[h] /\ Now' = Idle /\ dropped' = dropped
  BY <1>1, GotoTurns DEF SubInv, Done
<1>3. /\ req[h].at = "set_status" /\ req[h].who \in Accounts /\ req[h].entry \in StatusKey
      /\ req[h].who \notin doubled => EntryTrue(req[h].entry, req[h].who)
  BY <1>1, <1>2 DEF SubInv, Knows, At
<1>4. PICK o \in Accounts : o = req[h].who
  BY <1>3
<1>5. PICK entry \in StatusKey : entry = req[h].entry
  BY <1>3
<1>6. known' = [known EXCEPT ![o] = entry]
  BY <1>4, <1>5 DEF SetStatusKey
<1>7. /\ known'[o] = entry /\ \A x \in Accounts \ {o} : known'[x] = known[x]
      /\ known' \in [Accounts -> StatusKey \union {None}] /\ shown' \in [Accounts -> Copy \union {None}]
  BY <1>1, <1>6 DEF SubInv, Tables
<1>8. Knows(Now)'
  BY <1>2 DEF Knows, Idle
<1>9. ASSUME ~dropped, o \notin doubled PROVE Fits(o)'
  <2>1. Fits(o)
    BY <1>9 DEF SubInv, OfficesFit
  <2>2. StatusRight(o)'
    BY <1>1, <1>2, <1>3, <2>1 DEF Fits, StatusRight, Serving, ActiveSubs, accountVars
  <2>3. EntryTrue(entry, o)
    BY <1>3, <1>4, <1>5, <1>9
  <2>4. KnownRight(o)'
    BY <1>1, <1>7, <2>3 DEF KnownRight, EntryTrue, Runs, ActiveSubs
  <2>5. IsOffice(o)' => ShownRight(o)'
    BY <1>1, <1>2, <1>3, <2>1 DEF Fits, ShownRight, Ended, Serving, ActiveSubs, IsOffice, officeVars
  <2>6. QED
    BY <2>2, <2>4, <2>5 DEF Fits
<1>10. Now.at \notin BusyPoints /\ Now.at \notin {"sub_expire", "sub_insert"}
  BY <1>2, <1>3 DEF BusyPoints
<1>11. QED
  BY <1>1, <1>2, <1>7, <1>8, <1>9, <1>10, KeyWritten

LEMMA ShownKeyKeepsSubs ==
  ASSUME SubInv, NEW h \in Handlers, SetShownKey(h), UNCHANGED officeVars PROVE SubInv'
<1>1. /\ At(h, "set_shown") /\ Done(h) /\ UNCHANGED <<accountVars, officeVars, sub, doubled, known, pay>>
  BY DEF SetShownKey
<1>2. OneRequest' /\ Now = req[h] /\ Now' = Idle /\ dropped' = dropped
  BY <1>1, GotoTurns DEF SubInv, Done
<1>3. req[h].at = "set_shown" /\ req[h].who \in Accounts
      /\ req[h].entry \in Copy /\ req[h].entry.sub \in ActiveSubs(req[h].who)
  BY <1>1, <1>2 DEF SubInv, Knows, At
<1>4. PICK o \in Accounts : o = req[h].who
  BY <1>3
<1>5. PICK copy \in Copy : copy = req[h].entry /\ copy.sub \in ActiveSubs(o)
  BY <1>3, <1>4
<1>6. shown' = [shown EXCEPT ![o] = copy]
  BY <1>4, <1>5 DEF SetShownKey
<1>7. /\ shown'[o] = copy /\ \A x \in Accounts \ {o} : shown'[x] = shown[x]
      /\ known' \in [Accounts -> StatusKey \union {None}] /\ shown' \in [Accounts -> Copy \union {None}]
  BY <1>1, <1>6 DEF SubInv, Tables
<1>8. Knows(Now)'
  BY <1>2 DEF Knows, Idle
<1>9. ASSUME ~dropped, o \notin doubled PROVE Fits(o)'
  <2>1. Fits(o)
    BY <1>9 DEF SubInv, OfficesFit
  <2>2. StatusRight(o)'
    BY <1>1, <1>2, <1>3, <2>1 DEF Fits, StatusRight, Serving, ActiveSubs, accountVars
  <2>3. IsOffice(o)' => KnownRight(o)'
    BY <1>1, <1>2, <1>3, <2>1 DEF Fits, KnownRight, EntryTrue, Runs, Serving, ActiveSubs, IsOffice, officeVars
  <2>4. ShownRight(o)'
    BY <1>1, <1>5, <1>7 DEF ShownRight, ActiveSubs
  <2>5. QED
    BY <2>2, <2>3, <2>4 DEF Fits
<1>10. Now.at \notin BusyPoints /\ Now.at \notin {"sub_expire", "sub_insert"}
  BY <1>2, <1>3 DEF BusyPoints
<1>11. QED
  BY <1>1, <1>2, <1>7, <1>8, <1>9, <1>10, KeyWritten

\* An entry lapses, whatever request is on its way.
LEMMA LapsesKeepSubs ==
  ASSUME SubInv, NEW o \in Accounts, KeysLapse(o), UNCHANGED officeVars PROVE SubInv'
<1>1. OneRequest' /\ Now' = Now /\ dropped' = dropped
      /\ UNCHANGED <<accountVars, officeVars, sub, doubled, pay>>
  BY StaysPut DEF SubInv, KeysLapse
<1>2. \A x \in Accounts : known'[x] \in {known[x], None} /\ shown'[x] \in {shown[x], None}
  BY DEF KeysLapse, SubInv, Tables
<1>3. Tables'
  <2>1. known' \in [Accounts -> StatusKey \union {None}] /\ shown' \in [Accounts -> Copy \union {None}]
    BY DEF KeysLapse, SubInv, Tables
  <2>2. QED
    BY <1>1, <2>1 DEF SubInv, Tables, AccountsTypeOK, OfficesTypeOK, accountVars, officeVars
<1>4. Refs' /\ Single'
  BY <1>1 DEF SubInv, Refs, Single, PaidSubs, ActiveSubs, IsOffice, HasRole, Exists, accountVars, officeVars
<1>5. \A x : ActiveSubs(x)' = ActiveSubs(x) /\ IsOffice(x)' = IsOffice(x)
  BY <1>1 DEF ActiveSubs, IsOffice, officeVars
<1>6. Knows(Now)'
  BY <1>1 DEF SubInv, Knows, FreeSubs, ActiveSubs, IsOffice, EntryTrue, Runs, accountVars, officeVars
<1>7. PaidRows'
  BY <1>1, <1>5 DEF SubInv, PaidRows
<1>8. ASSUME ~dropped, NEW x \in Accounts \ doubled PROVE Fits(x)'
  <2>1. Fits(x)
    BY <1>8 DEF SubInv, OfficesFit
  <2>2. StatusRight(x)' <=> StatusRight(x)
    BY <1>1, <1>5 DEF StatusRight, accountVars
  <2>3. KnownRight(x) => KnownRight(x)'
    BY <1>1, <1>2, <1>5 DEF KnownRight, EntryTrue, Runs
  <2>4. ShownRight(x) => ShownRight(x)'
    BY <1>1, <1>2, <1>5 DEF ShownRight, Ended
  <2>5. QED
    BY <1>1, <1>5, <2>1, <2>2, <2>3, <2>4 DEF Fits, Serving
<1>9. OfficesFit'
  BY <1>1, <1>8 DEF OfficesFit
<1>10. QED
  BY <1>1, <1>3, <1>4, <1>6, <1>7, <1>9 DEF SubInv

\* An active row of office o ends.
LEMMA EndedRow ==
  ASSUME SubInv, NEW o \in Accounts, NEW s \in ActiveSubs(o), NEW row \in Subscription,
         row.status = "EXPIRED", row.office = o, row.pay = sub[s].pay, row.trial = sub[s].trial,
         sub' = [sub EXCEPT ![s] = row], UNCHANGED <<accountVars, officeVars, doubled, known, shown, pay>>
  PROVE  /\ Tables' /\ Refs' /\ Single' /\ s \in Subs /\ sub'[s] = row /\ row # None
         /\ \A t \in Subs \ {s} : sub'[t] = sub[t]
         /\ ActiveSubs(o)' = ActiveSubs(o) \ {s}
         /\ \A x : x # o => ActiveSubs(x)' = ActiveSubs(x)
         /\ \A x : IsOffice(x)' = IsOffice(x)
<1>1. s \in Subs /\ sub[s] # None /\ sub[s].office = o /\ sub[s].status = "ACTIVE"
  BY DEF ActiveSubs
<1>2. row # None
  BY NoneIsNoSubscriptionRow
<1>3. sub'[s] = row /\ \A t \in Subs \ {s} : sub'[t] = sub[t]
  BY <1>1 DEF SubInv, Tables
<1>4. Tables'
  <2>1. sub' \in [Subs -> Subscription \union {None}]
    BY <1>1 DEF SubInv, Tables
  <2>2. QED
    BY <2>1 DEF SubInv, Tables, AccountsTypeOK, OfficesTypeOK, accountVars, officeVars
<1>5. Refs'
  BY <1>1, <1>3 DEF SubInv, Refs, IsOffice, HasRole, Exists, accountVars, officeVars
<1>6. ActiveSubs(o)' = ActiveSubs(o) \ {s}
  BY <1>1, <1>2, <1>3 DEF ActiveSubs
<1>7. \A x : x # o => ActiveSubs(x)' = ActiveSubs(x)
  BY <1>1, <1>2, <1>3 DEF ActiveSubs
<1>8. Single'
  <2>1. \A x : \A t \in ActiveSubs(x)' : t \in ActiveSubs(x) /\ t \in Subs
    BY <1>6, <1>7 DEF ActiveSubs
  <2>2. \A x : \A t \in PaidSubs(x)' : t \in PaidSubs(x)
    BY <1>1, <1>3, <2>1 DEF PaidSubs
  <2>3. QED
    BY <2>1, <2>2 DEF SubInv, Single
<1>9. QED
  BY <1>1, <1>2, <1>3, <1>4, <1>5, <1>6, <1>7, <1>8 DEF IsOffice, officeVars

\* The rows of the payments are all there, though one of them has ended.
LEMMA PaidRowsStay ==
  ASSUME SubInv, dropped' = dropped, UNCHANGED <<officeVars, pay>>,
         Now.at \notin {"sub_expire", "sub_insert"},
         \A t \in Subs : sub[t] # None => sub'[t] # None /\ sub'[t].pay = sub[t].pay
  PROVE  PaidRows'
  BY DEF SubInv, PaidRows, IsOffice, officeVars

LEMMA CancelKeepsSubs ==
  ASSUME SubInv, NEW h \in Handlers, CancelSave(h), UNCHANGED officeVars PROVE SubInv'
<1> DEFINE r == [at |-> "sub_status", who |-> req[h].who, status |-> "OFFICE_NO_SUBSCRIPTION"]
<1>1. /\ At(h, "cancel") /\ Goto(h, r) /\ UNCHANGED <<accountVars, officeVars, doubled, known, shown, pay>>
      /\ sub' = [sub EXCEPT ![req[h].sub] = [@ EXCEPT !.status = "EXPIRED", !.left = Over]]
  BY DEF CancelSave
<1>2. OneRequest' /\ Now = req[h] /\ Now' = r /\ dropped' = dropped
  BY <1>1, GotoTurns DEF SubInv
<1>3. req[h].at = "cancel" /\ req[h].who \in Accounts /\ req[h].sub \in ActiveSubs(req[h].who)
  BY <1>1, <1>2 DEF SubInv, Knows, At
<1>4. PICK o \in Accounts : o = req[h].who
  BY <1>3
<1>5. PICK s \in ActiveSubs(o) : s = req[h].sub
  BY <1>3, <1>4
<1> DEFINE row == [sub[s] EXCEPT !.status = "EXPIRED", !.left = Over]
<1>6. s \in Subs /\ sub[s] \in Subscription /\ sub[s].office = o /\ sub[s] # None
  BY SubRow DEF ActiveSubs, SubInv
<1>7. /\ row \in Subscription /\ row.status = "EXPIRED" /\ row.office = o
      /\ row.pay = sub[s].pay /\ row.trial = sub[s].trial
  <2>1. Over \in Over..Days
    BY DEF Over, Days
  <2>2. QED
    BY <1>6, <2>1 DEF Subscription
<1>8. sub' = [sub EXCEPT ![s] = row]
  BY <1>1, <1>5, <1>6 DEF SubInv, Tables
<1> HIDE DEF row
<1>9. /\ Tables' /\ Refs' /\ Single' /\ s \in Subs /\ sub'[s] = row /\ row # None
      /\ \A t \in Subs \ {s} : sub'[t] = sub[t]
      /\ ActiveSubs(o)' = ActiveSubs(o) \ {s}
      /\ \A x : x # o => ActiveSubs(x)' = ActiveSubs(x)
      /\ \A x : IsOffice(x)' = IsOffice(x)
  <2>1. UNCHANGED <<accountVars, officeVars, doubled, known, shown, pay>>
    BY <1>1
  <2>2. QED
    BY <1>7, <1>8, <2>1, EndedRow
<1>10. o \notin doubled => ActiveSubs(o)' = {}
  BY <1>9 DEF SubInv, Single
<1>11. Knows(Now)'
  <2>1. Now'.at = "sub_status" /\ Now'.who = o /\ Now'.status = "OFFICE_NO_SUBSCRIPTION"
    BY <1>2, <1>4
  <2>2. IsOffice(o)'
    BY <1>6, <1>9 DEF SubInv, Refs
  <2>3. doubled' = doubled
    BY <1>1
  <2>4. \A x : x = o => IsOffice(x)' /\ (x \notin doubled' => ActiveSubs(x)' = {})
    BY <1>10, <2>2, <2>3
  <2>5. IsOffice(Now.who)' /\ (Now.who \notin doubled => ActiveSubs(Now.who) = {})'
    BY <2>1, <2>4 DEF IsOffice, ActiveSubs
  <2>6. QED
    BY <2>1, <2>5 DEF Knows
<1>12. PaidRows'
  BY <1>1, <1>2, <1>3, <1>6, <1>7, <1>9, PaidRowsStay
<1>13. ASSUME ~dropped, o \notin doubled' PROVE Fits(o)'
  <2>1. StatusRight(o)'
    BY <1>1, <1>10, <1>13 DEF StatusRight
  <2>2. Serving(o, {"sub_insert", "sub_status", "drop_status"})'
    BY <1>2, <1>4 DEF Serving
  <2>3. Serving(o, {"sub_insert", "sub_status", "drop_status", "drop_shown"})'
    BY <1>2, <1>4 DEF Serving
  <2>4. QED
    BY <2>1, <2>2, <2>3 DEF Fits
<1>14. OfficesFit'
  <2>1. \A x \in Accounts \ {o} : /\ account'[x] = account[x] /\ known'[x] = known[x]
                                  /\ shown'[x] = shown[x] /\ (IsOffice(x)' => IsOffice(x))
    BY <1>1, <1>9 DEF accountVars
  <2>2. \A t \in Subs : sub[t] # None /\ sub[t].office # o => sub'[t] = sub[t]
    BY <1>6, <1>9
  <2>3. Now.at \in BusyPoints => Now.who = o
    BY <1>2, <1>4
  <2>4. QED
    BY <1>1, <1>2, <1>9, <1>13, <2>1, <2>2, <2>3, OnlyServed
<1>15. QED
  BY <1>2, <1>9, <1>11, <1>12, <1>14 DEF SubInv

LEMMA LapseKeepsSubs ==
  ASSUME SubInv, NEW h \in Handlers, LapseSave(h), UNCHANGED officeVars PROVE SubInv'
<1> DEFINE entry == [status |-> "EXPIRED", lapses |-> TRUE]
           r == [at |-> "set_status", who |-> req[h].who, entry |-> entry]
<1>1. /\ At(h, "lapse") /\ Goto(h, r) /\ UNCHANGED <<accountVars, officeVars, doubled, known, shown, pay>>
      /\ sub' = [sub EXCEPT ![req[h].sub].status = "EXPIRED"]
  BY DEF LapseSave
<1>2. OneRequest' /\ Now = req[h] /\ Now' = r /\ dropped' = dropped
  BY <1>1, GotoTurns DEF SubInv
<1>3. /\ req[h].at = "lapse" /\ req[h].who \in Accounts /\ req[h].sub \in ActiveSubs(req[h].who)
      /\ sub[req[h].sub].left = Over
  BY <1>1, <1>2 DEF SubInv, Knows, At
<1>4. PICK o \in Accounts : o = req[h].who
  BY <1>3
<1>5. PICK s \in ActiveSubs(o) : s = req[h].sub /\ sub[s].left = Over
  BY <1>3, <1>4
<1> DEFINE row == [sub[s] EXCEPT !.status = "EXPIRED"]
<1>6. s \in Subs /\ sub[s] # None /\ sub[s].office = o
  BY DEF ActiveSubs
<1>7. /\ row \in Subscription /\ row.status = "EXPIRED" /\ row.office = o /\ row.left = Over
      /\ row.pay = sub[s].pay /\ row.trial = sub[s].trial
  BY <1>5, <1>6, ExpiredRow DEF SubInv
<1>8. sub' = [sub EXCEPT ![s] = row]
  BY <1>1, <1>5, <1>6 DEF SubInv, Tables
<1> HIDE DEF row
<1>9. /\ Tables' /\ Refs' /\ Single' /\ s \in Subs /\ sub'[s] = row /\ row # None
      /\ \A t \in Subs \ {s} : sub'[t] = sub[t]
      /\ ActiveSubs(o)' = ActiveSubs(o) \ {s}
      /\ \A x : x # o => ActiveSubs(x)' = ActiveSubs(x)
      /\ \A x : IsOffice(x)' = IsOffice(x)
  <2>1. UNCHANGED <<accountVars, officeVars, doubled, known, shown, pay>>
    BY <1>1
  <2>2. QED
    BY <1>7, <1>8, <2>1, EndedRow
<1>10. o \notin doubled => ActiveSubs(o) = {s} /\ ActiveSubs(o)' = {}
  BY <1>9 DEF SubInv, Single
<1>11. entry \in StatusKey
  BY DEF StatusKey
<1> HIDE DEF entry
<1>12. Knows(Now)'
  <2>1. Now'.at = "set_status" /\ Now'.who = o /\ Now'.entry = entry
    BY <1>2, <1>4
  <2>2. o \notin doubled => ~Runs(o)'
    BY <1>10 DEF Runs
  <2>3. doubled' = doubled
    BY <1>1
  <2>4. \A x : x = o => (x \notin doubled' => ~Runs(x)')
    BY <2>2, <2>3
  <2>5. (Now.who \notin doubled => ~Runs(Now.who))'
    BY <2>1, <2>4 DEF Runs, ActiveSubs
  <2>6. (Now.who \notin doubled => EntryTrue(Now.entry, Now.who))'
    BY <2>1, <2>5 DEF EntryTrue, entry
  <2>7. QED
    BY <1>11, <2>1, <2>6 DEF Knows
<1>13. PaidRows'
  BY <1>1, <1>2, <1>3, <1>6, <1>7, <1>9, PaidRowsStay
<1>14. ASSUME ~dropped, o \notin doubled' PROVE Fits(o)'
  <2>1. Fits(o) /\ o \notin doubled
    BY <1>1, <1>14 DEF SubInv, OfficesFit
  <2>2. IsOffice(o) => KnownRight(o) /\ ShownRight(o)
    BY <1>2, <1>3, <2>1 DEF Fits, Serving
  <2>3. StatusRight(o)'
    BY <1>10, <2>1 DEF StatusRight
  <2>4. ~Runs(o) /\ ~Runs(o)'
    BY <1>5, <1>10, <2>1 DEF Runs
  <2>5. IsOffice(o)' => KnownRight(o)'
    BY <1>1, <1>9, <2>2, <2>4 DEF KnownRight, EntryTrue
  <2>6. IsOffice(o)' => ShownRight(o)'
    <3>1. shown' = shown
      BY <1>1
    <3>2. QED
      BY <1>6, <1>7, <1>9, <1>10, <2>1, <2>2, <3>1 DEF ShownRight, Ended
  <2>7. QED
    BY <2>3, <2>5, <2>6 DEF Fits
<1>15. OfficesFit'
  <2>1. \A x \in Accounts \ {o} : /\ account'[x] = account[x] /\ known'[x] = known[x]
                                  /\ shown'[x] = shown[x] /\ (IsOffice(x)' => IsOffice(x))
    BY <1>1, <1>9 DEF accountVars
  <2>2. \A t \in Subs : sub[t] # None /\ sub[t].office # o => sub'[t] = sub[t]
    BY <1>6, <1>9
  <2>3. Now.at \in BusyPoints => Now.who = o
    BY <1>2, <1>4
  <2>4. QED
    BY <1>1, <1>2, <1>9, <1>14, <2>1, <2>2, <2>3, OnlyServed
<1>16. QED
  BY <1>2, <1>9, <1>12, <1>13, <1>15 DEF SubInv

LEMMA TrialKeepsSubs ==
  ASSUME SubInv, NEW h \in Handlers, StartTrial(h), UNCHANGED officeVars PROVE SubInv'
<1>1. At(h, "trial") /\ UNCHANGED <<accountVars, officeVars, known, shown, pay>> /\ Now = req[h]
  BY AtIsNow DEF StartTrial, SubInv
<1>2. /\ req[h].at = "trial" /\ req[h].who \in Accounts /\ IsOffice(req[h].who)
      /\ account[req[h].who].status = "ACTIVE"
  BY <1>1 DEF SubInv, Knows, At
<1>3. PICK o \in Accounts : o = req[h].who
  BY <1>2
<1>4. ASSUME Done(h), UNCHANGED <<sub, doubled>> PROVE SubInv'
  <2>1. OneRequest' /\ Now' = Idle /\ dropped' = dropped
    BY <1>1, <1>4, GotoTurns DEF SubInv, Done
  <2>2. Now.at \notin BusyPoints /\ Now'.at \notin SubPoints
    BY <1>1, <1>2, <2>1 DEF BusyPoints, SubPoints, Idle
  <2>3. UNCHANGED subTables
    BY <1>1, <1>4 DEF subTables, subVars, officeVars
  <2>4. QED
    BY <2>1, <2>2, <2>3, OthersKeepSubs
<1>5. ASSUME NEW p \in Plans, FreeSubs # {}, sub' = [sub EXCEPT ![FreeSub] = NewSub(o, p, None)],
             doubled' = IF ActiveSubs(o) = {} THEN doubled ELSE doubled \union {o},
             Goto(h, [at |-> "drop_status", who |-> o])
      PROVE  SubInv'
  <2> DEFINE row == NewSub(o, p, None)
             r == [at |-> "drop_status", who |-> o]
  <2>1. row \in Subscription /\ row.office = o /\ row.status = "ACTIVE" /\ row.pay = None /\ row.trial
    <3>1. row = [office |-> o, plan |-> p, status |-> "ACTIVE", left |-> 2, trial |-> TRUE, pay |-> None]
      BY DEF NewSub, Days
    <3>2. 2 \in Over..Days
      BY DEF Over, Days
    <3>3. QED
      BY <3>1, <3>2 DEF Subscription
  <2> HIDE DEF row
  <2>2. sub' = [sub EXCEPT ![FreeSub] = row]
    BY <1>5 DEF row
  <2>3. OneRequest' /\ Now' = r /\ dropped' = dropped
    BY <1>1, <1>5, GotoTurns DEF SubInv
  <2>4. /\ Tables' /\ Refs'
        /\ \E f \in Subs :
             /\ sub[f] = None /\ sub'[f] = row /\ row # None
             /\ \A s \in Subs \ {f} : sub'[s] = sub[s]
             /\ ActiveSubs(o)' = ActiveSubs(o) \union {f}
             /\ \A x : x # o => ActiveSubs(x)' = ActiveSubs(x)
    <3>1. row.pay # None => pay[row.pay] # None /\ pay[row.pay].payer = o
      BY <2>1
    <3>2. IsOffice(o) /\ UNCHANGED <<accountVars, officeVars, known, shown, pay>>
      BY <1>1, <1>2, <1>3
    <3>3. QED
      BY <1>5, <2>1, <2>2, <3>1, <3>2, InsertedRow
  <2>5. PICK f \in Subs :
             /\ sub[f] = None /\ sub'[f] = row /\ row # None
             /\ \A s \in Subs \ {f} : sub'[s] = sub[s]
             /\ ActiveSubs(o)' = ActiveSubs(o) \union {f}
             /\ \A x : x # o => ActiveSubs(x)' = ActiveSubs(x)
    BY <2>4
  <2>6. Single'
    <3>1. \A x : \A s \in PaidSubs(x)' : s \in PaidSubs(x)
      BY <2>1, <2>5 DEF PaidSubs, ActiveSubs
    <3>2. o \notin doubled' => ActiveSubs(o)' = {f}
      BY <1>5, <2>5
    <3>3. doubled \subseteq doubled'
      BY <1>5
    <3>4. QED
      BY <2>5, <3>1, <3>2, <3>3 DEF SubInv, Single
  <2>7. Knows(Now)'
    BY <2>3 DEF Knows
  <2>8. PaidRows'
    BY <1>1, <1>2, <2>3, <2>5, PaidRowsStay
  <2>9. ASSUME ~dropped, o \notin doubled' PROVE Fits(o)'
    <3>1. StatusRight(o)'
      BY <1>1, <1>2, <1>3 DEF StatusRight, accountVars
    <3>2. Serving(o, {"sub_insert", "sub_status", "drop_status"})'
      BY <2>3 DEF Serving
    <3>3. Serving(o, {"sub_insert", "sub_status", "drop_status", "drop_shown"})'
      BY <2>3 DEF Serving
    <3>4. QED
      BY <3>1, <3>2, <3>3 DEF Fits
  <2>10. OfficesFit'
    <3>1. \A x \in Accounts \ {o} : /\ account'[x] = account[x] /\ known'[x] = known[x]
                                    /\ shown'[x] = shown[x] /\ (IsOffice(x)' => IsOffice(x))
      BY <1>1 DEF accountVars, officeVars, IsOffice
    <3>2. \A t \in Subs : sub[t] # None /\ sub[t].office # o => sub'[t] = sub[t]
      BY <2>5
    <3>3. Now.at \in BusyPoints => Now.who = o
      BY <1>1, <1>3
    <3>4. doubled \subseteq doubled'
      BY <1>5
    <3>5. QED
      BY <2>3, <2>5, <2>9, <3>1, <3>2, <3>3, <3>4, OnlyServed
  <2>11. QED
    BY <2>3, <2>4, <2>6, <2>7, <2>8, <2>10 DEF SubInv
<1>6. CASE Cheapest = {} \/ FreeSubs = {} \/ ~IsOffice(o)
  BY <1>3, <1>4, <1>6 DEF StartTrial
<1>7. CASE ~(Cheapest = {} \/ FreeSubs = {} \/ ~IsOffice(o))
  <2>1. PICK p \in Cheapest : sub' = [sub EXCEPT ![FreeSub] = NewSub(o, p, None)]
    BY <1>3, <1>7 DEF StartTrial
  <2>2. p \in Plans
    BY <2>1 DEF Cheapest
  <2>3. /\ doubled' = IF ActiveSubs(o) = {} THEN doubled ELSE doubled \union {o}
        /\ Goto(h, [at |-> "drop_status", who |-> o])
    BY <1>3, <1>7 DEF StartTrial
  <2>4. QED
    BY <1>5, <1>7, <2>1, <2>2, <2>3
<1>8. QED
  BY <1>6, <1>7

LEMMA AgesKeepSubs ==
  ASSUME SubInv, NEW s \in Subs, SubAges(s), UNCHANGED officeVars PROVE SubInv'
<1> DEFINE row == [sub[s] EXCEPT !.left = @ - 1]
<1>1. /\ AtOnce /\ UNCHANGED <<accountVars, officeVars, doubled, known, shown, pay>>
      /\ sub[s] # None /\ sub[s].left > Over
  BY DEF SubAges
<1>2. OneRequest' /\ Now = Idle /\ Now' = Idle /\ dropped' = dropped
  BY <1>1, AtOnceStays DEF SubInv
<1>3. sub[s] \in Subscription
  BY <1>1, SubRow DEF SubInv
<1>4. sub' = [sub EXCEPT ![s] = row]
  BY DEF SubAges, SubInv, Tables
<1>5. /\ row \in Subscription /\ row.office = sub[s].office /\ row.status = sub[s].status
      /\ row.pay = sub[s].pay /\ row.trial = sub[s].trial
      /\ sub[s].left # LastSecond => row.left # Over
  <2>1. sub[s].left \in {LastSecond, Days} /\ sub[s].left - 1 \in Over..Days
        /\ (sub[s].left # LastSecond => sub[s].left - 1 # Over)
    BY <1>1, <1>3 DEF Subscription, Over, Days, LastSecond
  <2>2. QED
    BY <1>3, <2>1 DEF Subscription
<1> HIDE DEF row
<1>6. row # None
  BY <1>5, NoneIsNoSubscriptionRow
<1>7. sub'[s] = row /\ \A t \in Subs \ {s} : sub'[t] = sub[t]
  BY <1>4 DEF SubInv, Tables
<1>8. \A x : ActiveSubs(x)' = ActiveSubs(x) /\ IsOffice(x)' = IsOffice(x)
  BY <1>1, <1>5, <1>6, <1>7 DEF ActiveSubs, IsOffice, officeVars
<1>9. Tables'
  <2>1. sub' \in [Subs -> Subscription \union {None}]
    BY <1>4, <1>5 DEF SubInv, Tables
  <2>2. QED
    BY <1>1, <2>1 DEF SubInv, Tables, AccountsTypeOK, OfficesTypeOK, accountVars, officeVars
<1>10. Refs'
  BY <1>1, <1>5, <1>7 DEF SubInv, Refs, IsOffice, HasRole, Exists, accountVars, officeVars
<1>11. Single'
  <2>1. \A x : PaidSubs(x)' = PaidSubs(x)
    BY <1>5, <1>7, <1>8 DEF PaidSubs, ActiveSubs
  <2>2. QED
    BY <1>1, <1>8, <2>1 DEF SubInv, Single
<1>12. Knows(Now)'
  BY <1>2 DEF Knows, Idle
<1>13. PaidRows'
  <2>1. \A t \in Subs : sub[t] # None => sub'[t] # None /\ sub'[t].pay = sub[t].pay
    BY <1>5, <1>6, <1>7
  <2>2. Now.at \notin {"sub_expire", "sub_insert"} /\ UNCHANGED <<officeVars, pay>>
    BY <1>1, <1>2 DEF Idle
  <2>3. QED
    BY <1>2, <2>1, <2>2, PaidRowsStay
<1>14. PICK o \in Accounts : o = sub[s].office
  BY <1>3 DEF Subscription
<1>15. ASSUME ~dropped, o \notin doubled' PROVE Fits(o)'
  <2>1. StatusRight(o) /\ (IsOffice(o) => KnownRight(o) /\ ShownRight(o))
    BY <1>1, <1>2, <1>15 DEF SubInv, OfficesFit, Fits, Serving, Idle
  <2>2. StatusRight(o)'
    BY <1>1, <1>8, <2>1 DEF StatusRight, accountVars
  <2>3. known[o] # None => known[o] \in StatusKey
    BY DEF SubInv, Tables
  <2>4. sub[s].left = LastSecond /\ known[o] # None => known[o].status = "EXPIRED" \/ ~known[o].lapses
    BY <1>14 DEF SubAges, SubInv, OneRequest
  <2>5. ~Runs(o) => ~Runs(o)'
    <3>1. sub[s].left # Over
      BY <1>1, <1>3 DEF Subscription, Over
    <3>2. \A t \in ActiveSubs(o) : t \in Subs
      BY DEF ActiveSubs
    <3>3. QED
      BY <1>7, <1>8, <3>1, <3>2 DEF Runs
  <2>6. Runs(o) /\ sub[s].left # LastSecond => Runs(o)'
    BY <1>5, <1>7, <1>8 DEF Runs, ActiveSubs
  <2>7. KnownRight(o) => KnownRight(o)'
    BY <1>1, <2>3, <2>4, <2>5, <2>6 DEF KnownRight, EntryTrue, StatusKey
  <2>8. ShownRight(o) => ShownRight(o)'
    <3>1. shown' = shown /\ (shown[o] # None => shown[o].sub \in Subs)
      BY <1>1 DEF SubInv, Tables, Copy
    <3>2. shown[o] # None /\ Ended(shown[o].sub, o) => shown[o].sub # s
      BY <1>1 DEF Ended, Over
    <3>3. QED
      BY <1>7, <1>8, <3>1, <3>2 DEF ShownRight, Ended
  <2>9. QED
    BY <1>8, <2>1, <2>2, <2>7, <2>8 DEF Fits
<1>16. OfficesFit'
  <2>1. \A x \in Accounts \ {o} : /\ account'[x] = account[x] /\ known'[x] = known[x]
                                  /\ shown'[x] = shown[x] /\ (IsOffice(x)' => IsOffice(x))
    BY <1>1, <1>8 DEF accountVars
  <2>2. \A t \in Subs : sub[t] # None /\ sub[t].office # o => sub'[t] = sub[t]
    BY <1>7, <1>14
  <2>3. Now.at \notin BusyPoints /\ doubled' = doubled
    BY <1>1, <1>2 DEF Idle, BusyPoints
  <2>4. QED
    BY <1>2, <1>8, <1>15, <2>1, <2>2, <2>3, OnlyServed
<1>17. QED
  BY <1>2, <1>9, <1>10, <1>11, <1>12, <1>13, <1>16 DEF SubInv

\* A payment is written: it keeps its payer.
LEMMA PayWritten ==
  ASSUME SubInv, NEW i \in SubPayments, NEW row \in SubPayment, pay' = [pay EXCEPT ![i] = row],
         pay[i] # None => row.payer = pay[i].payer,
         UNCHANGED <<accountVars, officeVars, sub, doubled, known, shown>>, OneRequest', dropped' = dropped,
         Now.at \notin BusyPoints \/ Now' = Now, Knows(Now)', PaidRows'
  PROVE  SubInv'
<1>1. pay'[i] = row /\ row # None /\ \A j \in SubPayments \ {i} : pay'[j] = pay[j]
  BY NoneIsNoSubscriptionRow DEF SubInv, Tables
<1>2. Tables'
  <2>1. pay' \in [SubPayments -> SubPayment \union {None}]
    BY DEF SubInv, Tables
  <2>2. QED
    BY <2>1 DEF SubInv, Tables, AccountsTypeOK, OfficesTypeOK, accountVars, officeVars
<1>3. Refs'
  <2>1. \A s \in Subs : sub[s] # None /\ sub[s].pay # None => sub[s].pay \in SubPayments
    BY SubRow DEF SubInv, Subscription
  <2>2. QED
    BY <1>1, <2>1 DEF SubInv, Refs, IsOffice, HasRole, Exists, accountVars, officeVars
<1>4. Single'
  BY DEF SubInv, Single, PaidSubs, ActiveSubs
<1>5. \A x : ActiveSubs(x)' = ActiveSubs(x) /\ IsOffice(x)' = IsOffice(x)
  BY DEF ActiveSubs, IsOffice, officeVars
<1>6. ASSUME ~dropped, NEW x \in Accounts \ doubled PROVE Fits(x)'
  <2>1. Fits(x)
    BY <1>6 DEF SubInv, OfficesFit
  <2>2. CASE Now.at \notin BusyPoints
    <3>1. ~Serving(x, BusyPoints)
      BY <2>2 DEF Serving
    <3>2. QED
      BY <1>5, <2>1, <3>1, OfficeFits DEF SubInv, accountVars
  <2>3. CASE Now' = Now
    BY <1>5, <2>1, <2>3 DEF Fits, Serving, StatusRight, KnownRight, EntryTrue, Runs, ShownRight, Ended,
                            accountVars
  <2>4. QED
    BY <2>2, <2>3
<1>7. OfficesFit'
  BY <1>6 DEF OfficesFit
<1>8. QED
  BY <1>2, <1>3, <1>4, <1>7 DEF SubInv

LEMMA InitiateKeepsSubs ==
  ASSUME SubInv, NEW h \in Handlers, NEW i \in SubPayments, NEW a \in Accounts, NEW p \in Plans,
         InitiateSubPayment(h, i, a, p), UNCHANGED officeVars
  PROVE  SubInv'
<1> DEFINE row == [payer |-> a, plan |-> p, status |-> "PENDING", charge |-> "none"]
           r == [at |-> "sub_charge", pay |-> i]
<1>1. /\ pay[i] = None /\ pay' = [pay EXCEPT ![i] = row] /\ Begin(h, r)
      /\ UNCHANGED <<accountVars, officeVars, sub, doubled, known, shown>>
  BY DEF InitiateSubPayment, SetPay
<1>2. row \in SubPayment /\ row.status = "PENDING"
  BY DEF SubPayment
<1> HIDE DEF row
<1>3. OneRequest' /\ Now = Idle /\ Now' = r /\ dropped' = dropped
  BY <1>1, BeginTurns DEF SubInv
<1>4. pay'[i] = row /\ row # None /\ \A j \in SubPayments \ {i} : pay'[j] = pay[j]
  BY <1>1, <1>2, NoneIsNoSubscriptionRow DEF SubInv, Tables
<1>5. Knows(Now)'
  BY <1>3, <1>4 DEF Knows
<1>6. PaidRows'
  BY <1>1, <1>2, <1>3, <1>4 DEF SubInv, PaidRows, IsOffice, Idle, officeVars
<1>7. Now.at \notin BusyPoints
  BY <1>3 DEF Idle, BusyPoints
<1>8. QED
  BY <1>1, <1>2, <1>3, <1>5, <1>6, <1>7, PayWritten

\* The row of a payment, whose charge has got on.
LEMMA ChargedRow ==
  ASSUME SubInv, NEW i \in SubPayments, pay[i] # None, NEW charge \in {"INITIATED", "CAPTURED", "DECLINED"}
  PROVE  LET row == [pay[i] EXCEPT !.charge = charge]
         IN row \in SubPayment /\ row # None /\ row.payer = pay[i].payer /\ row.status = pay[i].status
<1>1. pay[i] \in SubPayment
  BY DEF SubInv, Tables
<1>2. [pay[i] EXCEPT !.charge = charge] \in SubPayment
  BY <1>1 DEF SubPayment
<1>3. QED
  BY <1>1, <1>2, NoneIsNoSubscriptionRow DEF SubPayment

LEMMA SettleKeepsSubs ==
  ASSUME SubInv, NEW i \in SubPayments, NEW outcome \in {"CAPTURED", "DECLINED"}, SettleSub(i, outcome),
         UNCHANGED officeVars
  PROVE  SubInv'
<1> DEFINE row == [pay[i] EXCEPT !.charge = outcome]
<1>1. /\ pay[i] # None /\ pay' = [pay EXCEPT ![i] = row] /\ UNCHANGED reqVars
      /\ UNCHANGED <<accountVars, officeVars, sub, doubled, known, shown>>
  BY DEF SettleSub, SetPay
<1>2. OneRequest' /\ Now' = Now /\ dropped' = dropped
  BY <1>1, StaysPut DEF SubInv
<1>3. row \in SubPayment /\ row # None /\ row.payer = pay[i].payer /\ row.status = pay[i].status
  BY <1>1, ChargedRow
<1> HIDE DEF row
<1>4. pay'[i] = row /\ \A j \in SubPayments \ {i} : pay'[j] = pay[j]
  BY <1>1 DEF SubInv, Tables
<1>5. \A j \in SubPayments : pay[j] # None =>
        pay'[j] # None /\ pay'[j].payer = pay[j].payer /\ pay'[j].status = pay[j].status
  BY <1>1, <1>3, <1>4
<1>6. Knows(Now)'
  BY <1>1, <1>2, <1>5 DEF SubInv, Knows, FreeSubs, ActiveSubs, IsOffice, EntryTrue, Runs, accountVars, officeVars
<1>7. PaidRows'
  BY <1>1, <1>2, <1>3, <1>4 DEF SubInv, PaidRows, IsOffice, officeVars
<1>8. QED
  BY <1>1, <1>2, <1>3, <1>6, <1>7, PayWritten

LEMMA ChargeKeepsSubs ==
  ASSUME SubInv, NEW h \in Handlers, SubCharge(h), UNCHANGED officeVars PROVE SubInv'
<1>1. At(h, "sub_charge") /\ Done(h) /\ UNCHANGED <<accountVars, officeVars>>
  BY DEF SubCharge
<1>2. OneRequest' /\ Now = req[h] /\ Now' = Idle /\ dropped' = dropped
  BY <1>1, GotoTurns DEF SubInv, Done
<1>3. req[h].at = "sub_charge" /\ req[h].pay \in SubPayments /\ pay[req[h].pay] # None
  BY <1>1, <1>2 DEF SubInv, Knows, At
<1>4. Now.at \notin BusyPoints /\ Now.at \notin {"sub_expire", "sub_insert"}
  BY <1>2, <1>3 DEF BusyPoints
<1>5. CASE UNCHANGED subVars
  <2>1. UNCHANGED subTables /\ Now'.at \notin SubPoints
    BY <1>1, <1>2, <1>5 DEF subTables, officeVars, SubPoints, Idle
  <2>2. QED
    BY <1>2, <1>4, <2>1, OthersKeepSubs
<1>6. CASE ~UNCHANGED subVars
  <2>1. PICK i \in SubPayments : i = req[h].pay
    BY <1>3
  <2> DEFINE row == [pay[i] EXCEPT !.charge = "INITIATED"]
  <2>2. /\ pay[i] # None /\ pay' = [pay EXCEPT ![i] = row]
        /\ UNCHANGED <<sub, doubled, known, shown>>
    BY <1>3, <1>6, <2>1 DEF SubCharge, SetPay
  <2>3. row \in SubPayment /\ row # None /\ row.payer = pay[i].payer /\ row.status = pay[i].status
    BY <2>2, ChargedRow
  <2> HIDE DEF row
  <2>4. pay'[i] = row /\ \A j \in SubPayments \ {i} : pay'[j] = pay[j]
    BY <2>2 DEF SubInv, Tables
  <2>5. Knows(Now)'
    BY <1>2 DEF Knows, Idle
  <2>6. PaidRows'
    BY <1>1, <1>2, <1>4, <2>2, <2>3, <2>4 DEF SubInv, PaidRows, IsOffice, officeVars
  <2>7. QED
    BY <1>1, <1>2, <1>4, <2>2, <2>3, <2>5, <2>6, PayWritten
<1>7. QED
  BY <1>5, <1>6

LEMMA VerdictKeepsSubs ==
  ASSUME SubInv, NEW h \in Handlers, SubVerdict(h), UNCHANGED officeVars PROVE SubInv'
<1>1. /\ At(h, "sub_verdict") /\ Now = req[h]
      /\ UNCHANGED <<accountVars, officeVars, sub, doubled, known, shown>>
  BY AtIsNow DEF SubVerdict, SetPay, SubInv
<1>2. /\ req[h].at = "sub_verdict" /\ req[h].pay \in SubPayments /\ pay[req[h].pay] # None
      /\ req[h].verdict \in {"SUCCESS", "FAILED"} /\ FreeSubs # {}
      /\ ~dropped => req[h].effects \/ pay[req[h].pay].status = "SUCCESS"
  BY <1>1 DEF SubInv, Knows, At
<1>3. PICK i \in SubPayments : i = req[h].pay
  BY <1>2
<1>4. PICK verdict \in {"SUCCESS", "FAILED"} : verdict = req[h].verdict
  BY <1>2
<1> DEFINE row == [pay[i] EXCEPT !.status = verdict]
           r == [at |-> "sub_expire", who |-> pay[i].payer, plan |-> pay[i].plan, pay |-> i]
<1>5. pay[i] \in SubPayment
  BY <1>2, <1>3 DEF SubInv, Tables
<1>6. row \in SubPayment /\ row.payer = pay[i].payer /\ row.status = verdict
  BY <1>5 DEF SubPayment
<1>7. pay' = [pay EXCEPT ![i] = row]
  BY <1>3, <1>4 DEF SubVerdict, SetPay
<1>8. /\ r \in [at : {"sub_expire", "sub_insert"}, who : Accounts, plan : Plans, pay : SubPayments]
      /\ r.at = "sub_expire" /\ r.pay = i /\ r.who = pay[i].payer
  BY <1>5 DEF SubPayment
<1>9. \/ verdict = "SUCCESS" /\ req[h].effects /\ Goto(h, r)
      \/ ~(verdict = "SUCCESS" /\ req[h].effects) /\ Goto(h, Idle)
  BY <1>3, <1>4 DEF SubVerdict, Done
<1> HIDE DEF row, r
<1>10. /\ OneRequest' /\ dropped' = dropped
       /\ \/ verdict = "SUCCESS" /\ req[h].effects /\ Now' = r
          \/ ~(verdict = "SUCCESS" /\ req[h].effects) /\ Now' = Idle
  BY <1>1, <1>9, GotoTurns DEF SubInv
<1>11. pay'[i] = row /\ row # None /\ \A j \in SubPayments \ {i} : pay'[j] = pay[j]
  BY <1>6, <1>7, NoneIsNoSubscriptionRow DEF SubInv, Tables
<1>12. Knows(Now)'
  <2>1. CASE Now' = Idle
    BY <2>1 DEF Knows, Idle
  <2>2. CASE Now' = r
    BY <1>1, <1>2, <1>6, <1>8, <1>11, <2>2 DEF Knows, FreeSubs
  <2>3. QED
    BY <1>10, <2>1, <2>2
<1>13. PaidRows'
  <2> SUFFICES ASSUME ~dropped, NEW j \in SubPayments, pay'[j] # None, pay'[j].status = "SUCCESS",
                      IsOffice(pay'[j].payer)
               PROVE  \/ \E s \in Subs : sub[s] # None /\ sub[s].pay = j
                      \/ Now'.at \in {"sub_expire", "sub_insert"} /\ Now'.pay = j
    BY <1>1, <1>10 DEF PaidRows, IsOffice, officeVars
  <2>1. pay[j] # None /\ pay[j].status = "SUCCESS" => \E s \in Subs : sub[s] # None /\ sub[s].pay = j
    <3>1. pay'[j].payer = pay[j].payer
      BY <1>6, <1>11
    <3>2. Now.at \notin {"sub_expire", "sub_insert"}
      BY <1>1, <1>2
    <3>3. QED
      BY <3>1, <3>2 DEF SubInv, PaidRows
  <2>2. CASE j = i
    <3>1. verdict = "SUCCESS"
      BY <1>6, <1>11, <2>2
    <3>2. CASE req[h].effects
      BY <1>8, <1>10, <2>2, <3>1, <3>2
    <3>3. CASE ~req[h].effects
      BY <1>2, <1>3, <2>1, <2>2, <3>3
    <3>4. QED
      BY <3>2, <3>3
  <2>3. CASE j # i
    BY <1>11, <2>1, <2>3
  <2>4. QED
    BY <2>2, <2>3
<1>14. Now.at \notin BusyPoints
  BY <1>1, <1>2 DEF BusyPoints
<1>15. QED
  BY <1>1, <1>6, <1>7, <1>10, <1>12, <1>13, <1>14, PayWritten

LEMMA ApprovalKeepsSubs ==
  ASSUME SubInv, NEW h \in Handlers, NEW o \in Accounts, ApproveRegistration(h, o), UNCHANGED subVars
  PROVE  SubInv'
<1> DEFINE r == [at |-> "trial", who |-> o]
<1>1. /\ IsOffice(o) /\ SetStatus(o, "ACTIVE") /\ Begin(h, r) /\ UNCHANGED <<office, employee, details, subVars>>
  BY DEF ApproveRegistration
<1>2. OneRequest' /\ Now = Idle /\ Now' = r /\ dropped' = dropped
  BY <1>1, BeginTurns DEF SubInv
<1>3. /\ AccountsTypeOK' /\ account'[o] # None /\ account'[o].status = "ACTIVE"
      /\ \A x \in Accounts : x # o => account'[x] = account[x]
      /\ \A x \in Accounts : HasRole(x, "OFFICE") => HasRole(x, "OFFICE")'
  <2>1. "ACTIVE" \in AccountStatus
    BY DEF AccountStatus
  <2>2. QED
    BY <1>1, <2>1, StatusSet
<1>4. Tables'
  BY <1>1, <1>3 DEF SubInv, Tables, OfficesTypeOK, subVars
<1>5. Refs'
  BY <1>1, <1>3 DEF SubInv, Refs, IsOffice, subVars
<1>6. \A x : ActiveSubs(x)' = ActiveSubs(x) /\ IsOffice(x)' = IsOffice(x)
  BY <1>1 DEF ActiveSubs, IsOffice, subVars
<1>7. Single'
  BY <1>1 DEF SubInv, Single, PaidSubs, ActiveSubs, subVars
<1>8. Knows(Now)'
  BY <1>1, <1>2, <1>3 DEF Knows, IsOffice
<1>9. PaidRows'
  BY <1>1, <1>2, <1>6 DEF SubInv, PaidRows, Idle, subVars
<1>10. ASSUME ~dropped, o \notin doubled' PROVE Fits(o)'
  <2>1. KnownRight(o) /\ ShownRight(o)
    BY <1>1, <1>2, <1>10 DEF SubInv, OfficesFit, Fits, Serving, Idle, subVars
  <2>2. StatusRight(o)'
    BY <1>3 DEF StatusRight
  <2>3. KnownRight(o)' /\ ShownRight(o)'
    BY <1>1, <1>6, <2>1 DEF KnownRight, ShownRight, EntryTrue, Runs, Ended, subVars
  <2>4. QED
    BY <2>2, <2>3 DEF Fits
<1>11. OfficesFit'
  <2>1. \A x \in Accounts \ {o} : /\ account'[x] = account[x] /\ known'[x] = known[x]
                                  /\ shown'[x] = shown[x] /\ (IsOffice(x)' => IsOffice(x))
    BY <1>1, <1>3, <1>6 DEF subVars
  <2>2. sub' = sub /\ doubled' = doubled /\ Now.at \notin BusyPoints
    BY <1>1, <1>2 DEF subVars, Idle, BusyPoints
  <2>3. QED
    BY <1>2, <1>6, <1>10, <2>1, <2>2, OnlyServed
<1>12. QED
  BY <1>2, <1>4, <1>5, <1>7, <1>8, <1>9, <1>11 DEF SubInv

LEMMA DeletionKeepsSubs ==
  ASSUME SubInv, NEW o \in Accounts, DeleteOffice(o), DropSubscriptions(o) PROVE SubInv'
<1> DEFINE row == SoftDeleted(o)
<1>1. /\ IsOffice(o) /\ AtOnce /\ UNCHANGED <<details, doubled, known, shown, pay>>
      /\ office' = [office EXCEPT ![o] = None]
      /\ employee' = [e \in Employees |-> IF e \in StaffRows(o) THEN None ELSE employee[e]]
      /\ account' = [account EXCEPT ![o] = row] /\ proved' = [proved EXCEPT ![o] = "no"]
      /\ sub' = [s \in Subs |-> IF sub[s] # None /\ sub[s].office = o THEN None ELSE sub[s]]
  BY DEF DeleteOffice, DropSubscriptions, SetOffice, SoftDelete
<1>2. OneRequest' /\ Now = Idle /\ Now' = Idle /\ dropped' = dropped
  BY <1>1, AtOnceStays DEF SubInv
<1>3. account[o] \in Account
  BY <1>1 DEF SubInv, Tables, AccountsTypeOK, Refs, HasRole, Exists
<1>4. row \in Account /\ row.status = "BLOCKED"
  BY <1>3 DEF SoftDeleted, Account, AccountStatus
<1> HIDE DEF row
<1>5. account'[o] = row /\ \A x \in Accounts \ {o} : account'[x] = account[x]
  BY <1>1 DEF SubInv, Tables, AccountsTypeOK
<1>6. office'[o] = None /\ \A x \in Accounts \ {o} : office'[x] = office[x]
  BY <1>1 DEF SubInv, Tables, OfficesTypeOK
<1>7. Tables'
  <2>1. AccountsTypeOK'
    BY <1>1, <1>4 DEF SubInv, Tables, AccountsTypeOK, Proofs
  <2>2. OfficesTypeOK'
    BY <1>1 DEF SubInv, Tables, OfficesTypeOK
  <2>3. sub' \in [Subs -> Subscription \union {None}]
    BY <1>1 DEF SubInv, Tables
  <2>4. QED
    BY <1>1, <2>1, <2>2, <2>3 DEF SubInv, Tables
<1>8. \A s \in Subs : sub'[s] # None => sub'[s] = sub[s] /\ sub[s].office # o
  BY <1>1
<1>9. \A s \in Subs : sub[s] # None /\ sub[s].office # o => sub'[s] = sub[s]
  BY <1>1
<1>10. \A s \in Subs : sub[s] # None => sub[s].office \in Accounts
  BY SubRow DEF SubInv, Subscription
<1>11. Refs'
  <2>1. \A x \in Accounts : IsOffice(x)' => x # o /\ IsOffice(x) /\ HasRole(x, "OFFICE")'
    BY <1>5, <1>6 DEF SubInv, Refs, IsOffice, HasRole, Exists
  <2>2. \A x \in Accounts : IsOffice(x) /\ x # o => IsOffice(x)'
    BY <1>6 DEF IsOffice
  <2>3. ASSUME NEW s \in Subs, sub'[s] # None
        PROVE  /\ office'[sub'[s].office] # None
               /\ sub'[s].pay # None => pay'[sub'[s].pay] # None /\ pay'[sub'[s].pay].payer = sub'[s].office
    BY <1>1, <1>6, <1>8, <1>10, <2>3 DEF SubInv, Refs, IsOffice
  <2>4. QED
    BY <2>1, <2>3 DEF Refs, IsOffice
<1>12. ActiveSubs(o)' = {} /\ \A x : x # o => ActiveSubs(x)' = ActiveSubs(x)
  BY <1>8, <1>9 DEF ActiveSubs
<1>13. Single'
  <2>1. \A x : \A t \in ActiveSubs(x)' : t \in ActiveSubs(x) /\ t \in Subs
    BY <1>12 DEF ActiveSubs
  <2>2. \A x : \A t \in PaidSubs(x)' : t \in PaidSubs(x)
    BY <1>8, <2>1 DEF PaidSubs, ActiveSubs
  <2>3. QED
    BY <1>1, <2>1, <2>2 DEF SubInv, Single
<1>14. Knows(Now)'
  BY <1>2 DEF Knows, Idle
<1>15. PaidRows'
  <2> SUFFICES ASSUME ~dropped, NEW i \in SubPayments, pay[i] # None, pay[i].status = "SUCCESS",
                      office'[pay[i].payer] # None
               PROVE  \E s \in Subs : sub'[s] # None /\ sub'[s].pay = i
    BY <1>1, <1>2 DEF PaidRows, IsOffice
  <2>1. pay[i].payer \in Accounts
    BY DEF SubInv, Tables, SubPayment
  <2>2. pay[i].payer # o /\ IsOffice(pay[i].payer)
    BY <1>6, <2>1 DEF IsOffice
  <2>3. PICK s \in Subs : sub[s] # None /\ sub[s].pay = i
    BY <1>2, <2>2 DEF SubInv, PaidRows, Idle
  <2>4. sub[s].office # o
    <3>1. i # None
      BY NoneIsNoSubscriptionRow
    <3>2. QED
      BY <2>2, <2>3, <3>1 DEF SubInv, Refs
  <2>5. QED
    BY <1>9, <2>3, <2>4
<1>16. Fits(o)'
  <2>1. ~IsOffice(o)'
    BY <1>6 DEF IsOffice
  <2>2. StatusRight(o)'
    BY <1>12 DEF StatusRight
  <2>3. QED
    BY <2>1, <2>2 DEF Fits
<1>17. OfficesFit'
  <2>1. \A x \in Accounts \ {o} : /\ account'[x] = account[x] /\ known'[x] = known[x]
                                  /\ shown'[x] = shown[x] /\ (IsOffice(x)' => IsOffice(x))
    BY <1>1, <1>5, <1>6 DEF IsOffice
  <2>2. doubled' = doubled /\ Now.at \notin BusyPoints
    BY <1>1, <1>2 DEF Idle, BusyPoints
  <2>3. QED
    BY <1>2, <1>9, <1>12, <1>16, <2>1, <2>2, OnlyServed
<1>18. QED
  BY <1>2, <1>7, <1>11, <1>13, <1>14, <1>15, <1>17 DEF SubInv

LEMMA StaffKeepsSubs ==
  ASSUME SubInv, StaffChanges PROVE SubInv'
<1>1. /\ employee' \in [Employees -> Employee \union {None}]
      /\ UNCHANGED <<reqVars, accountVars, office, details, subVars>>
  BY DEF StaffChanges
<1>2. OneRequest' /\ Now' = Now /\ dropped' = dropped
  BY <1>1, StaysPut DEF SubInv
<1>3. Tables'
  BY <1>1 DEF SubInv, Tables, AccountsTypeOK, OfficesTypeOK, accountVars, subVars
<1>4. Refs' /\ Single'
  BY <1>1 DEF SubInv, Refs, Single, PaidSubs, ActiveSubs, IsOffice, HasRole, Exists, accountVars, subVars
<1>5. Knows(Now)'
  BY <1>1, <1>2 DEF SubInv, Knows, FreeSubs, ActiveSubs, IsOffice, EntryTrue, Runs, accountVars, subVars
<1>6. \A x : ActiveSubs(x)' = ActiveSubs(x) /\ IsOffice(x)' = IsOffice(x)
  BY <1>1 DEF ActiveSubs, IsOffice, subVars
<1>7. PaidRows'
  BY <1>1, <1>2, <1>6 DEF SubInv, PaidRows, subVars
<1>8. OfficesFit'
  BY <1>1, <1>2, <1>6 DEF SubInv, OfficesFit, Fits, Serving, StatusRight, KnownRight, EntryTrue, Runs,
                          ShownRight, Ended, accountVars, subVars
<1>9. QED
  BY <1>2, <1>3, <1>4, <1>5, <1>7, <1>8 DEF SubInv

-----------------------------------------------------------------------------
(* Subscriptions: what is bought, and the copies *)

\* A step that writes no plan.
LEMMA CopiesStay ==
  ASSUME Bought, Copies, plan' = plan, dropped => dropped',
         \A s \in Subs : sub'[s] # None =>
           (sub[s] # None /\ sub'[s].plan = sub[s].plan) \/ plan[sub'[s].plan] # None,
         \A i \in SubPayments : pay'[i] # None =>
           (pay[i] # None /\ pay'[i].plan = pay[i].plan) \/ plan[pay'[i].plan] # None,
         Now'.at \in {"sub_expire", "sub_insert"} => plan[Now'.plan] # None,
         ~dropped => \A o \in Accounts : shown'[o] \in {shown[o], None} \/ Faithful(shown'[o]),
         ~dropped /\ Now'.at = "set_shown" => Faithful(Now'.entry)
  PROVE  Bought' /\ Copies'
<1>1. Bought'
  BY DEF Bought
<1>2. Copies'
  BY DEF Copies, Faithful
<1>3. QED
  BY <1>1, <1>2

\* The request reads, or is at neither of the points that the invariants speak of.
LEMMA CopiesUntouched ==
  ASSUME Bought, Copies, plan' = plan, dropped => dropped', UNCHANGED <<sub, pay, shown>>,
         Now' = Now \/ Now'.at \notin {"sub_expire", "sub_insert", "set_shown"}
  PROVE  Bought' /\ Copies'
<1>1. Now'.at \in {"sub_expire", "sub_insert"} => plan[Now'.plan] # None
  BY DEF Bought
<1>2. ~dropped /\ Now'.at = "set_shown" => Faithful(Now'.entry)
  BY DEF Copies
<1>3. QED
  BY <1>1, <1>2, CopiesStay

\* An edit of a plan leaves the copies alone, and every plan in its table.
LEMMA EditsKeepCopies ==
  ASSUME PlanInv, SubInv, Bought, Copies, NEW h \in Handlers, PlanRequest(h) \/ PlansStep(h),
         UNCHANGED subVars
  PROVE  Bought' /\ Copies'
<1>1. dropped' = dropped /\ Now'.at \in PlanPoints \union {"idle"} /\ sub' = sub /\ pay' = pay /\ shown' = shown
  BY PlanTurns DEF subVars
<1>2. Now'.at \notin {"sub_expire", "sub_insert", "set_shown"}
  BY <1>1 DEF PlanPoints
<1>3. ASSUME NEW p \in Plans, NEW row \in Plan, plan' = [plan EXCEPT ![p] = row]
      PROVE  \A q \in Plans : plan[q] # None => plan'[q] # None
  BY <1>3, NoneIsNoSubscriptionRow DEF PlanInv, PlanTypes
<1>4. \A q \in Plans : plan[q] # None => plan'[q] # None
  <2>1. ASSUME NEW p \in Plans, NEW price \in Prices, NEW f \in SUBSET Features, CreatePlan(h, p, price, f)
        PROVE  \A q \in Plans : plan[q] # None => plan'[q] # None
    <3>1. [price |-> price, features |-> {}] \in Plan
      BY DEF Plan
    <3>2. QED
      BY <1>3, <2>1, <3>1 DEF CreatePlan
  <2>2. ASSUME NEW p \in Plans, NEW price \in Prices, NEW f \in SUBSET Features, UpdatePlan(h, p, price, f)
        PROVE  \A q \in Plans : plan[q] # None => plan'[q] # None
    <3>1. [plan[p] EXCEPT !.price = price] \in Plan
      BY <2>2, PlanRow DEF UpdatePlan, PlanExists, PlanInv, Plan
    <3>2. plan' = [plan EXCEPT ![p] = [plan[p] EXCEPT !.price = price]]
      BY <2>2 DEF UpdatePlan, PlanInv, PlanTypes
    <3>3. QED
      BY <1>3, <3>1, <3>2
  <2>3. ASSUME NEW found \in SUBSET Features, req[h].plan \in Plans, plan[req[h].plan] \in Plan,
               plan' = [plan EXCEPT ![req[h].plan].features = @ \union found], UNCHANGED <<feature, wanted>>
        PROVE  \A q \in Plans : plan[q] # None => plan'[q] # None
    BY <2>3, AttachWrites DEF PlanInv
  <2>4. CASE ClearFeatures(h)
    <3> DEFINE p == req[h].plan
    <3>1. p \in Plans /\ plan[p] \in Plan
      BY <2>4, EditOf DEF ClearFeatures, PlanPoints
    <3>2. [plan[p] EXCEPT !.features = {}] \in Plan
      BY <3>1 DEF Plan
    <3>3. plan' = [plan EXCEPT ![p] = [plan[p] EXCEPT !.features = {}]]
      BY <2>4, <3>1 DEF ClearFeatures, ClearedFeatures, PlanInv, PlanTypes
    <3> HIDE DEF p
    <3>4. QED
      BY <1>3, <3>1, <3>2, <3>3
  <2>5. CASE LookUpFeature(h) \/ SaveFeature(h)
    BY <2>5 DEF LookUpFeature, SaveFeature, planVars
  <2>6. CASE AttachOne(h)
    <3>1. req[h] \in PlanRequests /\ req[h].at = "attach_one" /\ req[h].plan \in Plans /\ plan[req[h].plan] \in Plan
      BY <2>6, EditOf DEF AttachOne, PlanPoints
    <3>2. req[h].done \in SUBSET Features
      BY <3>1 DEF PlanRequests
    <3>3. QED
      BY <2>3, <2>6, <3>1, <3>2 DEF AttachOne
  <2>7. CASE AttachAll(h)
    <3>1. req[h] \in PlanRequests /\ req[h].at = "attach" /\ req[h].plan \in Plans /\ plan[req[h].plan] \in Plan
      BY <2>7, EditOf DEF AttachAll, PlanPoints
    <3>2. req[h].done \in SUBSET Features
      BY <3>1 DEF PlanRequests
    <3>3. QED
      BY <2>3, <2>7, <3>1, <3>2 DEF AttachAll
  <2>8. QED
    BY <2>1, <2>2, <2>4, <2>5, <2>6, <2>7 DEF PlanRequest, PlansStep
<1>5. \A s \in Subs : sub[s] # None => sub[s].plan \in Plans
  BY SubRow DEF SubInv, Subscription
<1>6. \A i \in SubPayments : pay[i] # None => pay[i].plan \in Plans
  BY DEF SubInv, Tables, SubPayment
<1>7. Bought'
  BY <1>1, <1>2, <1>4, <1>5, <1>6 DEF Bought
<1>8. Copies'
  BY <1>1, <1>2 DEF Copies
<1>9. QED
  BY <1>7, <1>8

\* A payment is written: it keeps its plan, or is of a plan there is.
LEMMA PayKeepsCopies ==
  ASSUME SubInv, Bought, Copies, NEW i \in SubPayments, NEW row, pay' = [pay EXCEPT ![i] = row],
         plan[row.plan] # None, plan' = plan, UNCHANGED <<sub, shown>>, dropped' = dropped,
         Now' = Now \/ (Now'.at # "set_shown" /\ (Now'.at \in {"sub_expire", "sub_insert"} => Now'.plan = row.plan))
  PROVE  Bought' /\ Copies'
<1>1. pay'[i] = row /\ \A j \in SubPayments \ {i} : pay'[j] = pay[j]
  BY DEF SubInv, Tables
<1>2. Now'.at \in {"sub_expire", "sub_insert"} => plan[Now'.plan] # None
  BY DEF Bought
<1>3. ~dropped /\ Now'.at = "set_shown" => Faithful(Now'.entry)
  BY DEF Copies
<1>4. QED
  BY <1>1, <1>2, <1>3, CopiesStay

\* Rows are written: each keeps its plan.
LEMMA RowsKeepCopies ==
  ASSUME Bought, Copies, plan' = plan, dropped' = dropped, UNCHANGED <<pay, shown>>,
         \A s \in Subs : sub'[s] # None => sub[s] # None /\ sub'[s].plan = sub[s].plan,
         Now'.at # "set_shown",
         Now'.at \in {"sub_expire", "sub_insert"} =>
           Now.at \in {"sub_expire", "sub_insert"} /\ Now'.plan = Now.plan
  PROVE  Bought' /\ Copies'
<1>1. Now'.at \in {"sub_expire", "sub_insert"} => plan[Now'.plan] # None
  BY DEF Bought
<1>2. QED
  BY <1>1, CopiesStay

LEMMA ReadingsKeepCopies ==
  ASSUME PlanInv, SubInv, Bought, Copies, NEW h \in Handlers, NEW a \in Accounts,
         CancelRead(h, a) \/ CheckRead(h, a) \/ ShowRead(h, a), UNCHANGED planVars
  PROVE  Bought' /\ Copies'
<1> DEFINE o == OfficeOf(a)
<1>1. UNCHANGED <<plan, sub, pay, shown>>
  BY DEF CancelRead, CheckRead, ShowRead, planVars, subVars
<1>2. ASSUME NEW r, Begin(h, r), r.at \notin {"sub_expire", "sub_insert", "set_shown"}
      PROVE  Bought' /\ Copies'
  BY <1>1, <1>2, BeginTurns, CopiesUntouched DEF SubInv
<1>3. CASE CancelRead(h, a)
  BY <1>2, <1>3 DEF CancelRead
<1>4. CASE CheckRead(h, a)
  <2>1. CASE ActiveSubs(o) = {}
    BY <1>2, <1>4, <2>1 DEF CheckRead
  <2>2. CASE ActiveSubs(o) # {}
    <3>1. PICK s \in ActiveSubs(o) :
            Begin(h, IF sub[s].left = Over THEN [at |-> "lapse", who |-> o, sub |-> s]
                     ELSE [at |-> "set_status", who |-> o,
                           entry |-> [status |-> "ACTIVE", lapses |-> sub[s].left # LastSecond]])
      BY <1>4, <2>2 DEF CheckRead
    <3>2. QED
      BY <1>2, <3>1
  <2>3. QED
    BY <2>1, <2>2
<1>5. CASE ShowRead(h, a)
  <2>1. PICK s \in ActiveSubs(o) : Begin(h, [at |-> "set_shown", who |-> o, entry |-> CopyOf(s)])
    BY <1>5 DEF ShowRead
  <2>2. Now = Idle /\ Now' = [at |-> "set_shown", who |-> o, entry |-> CopyOf(s)] /\ dropped' = dropped
    BY <2>1, BeginTurns DEF SubInv
  <2>3. sub[s].plan \in Plans /\ plan[sub[s].plan] # None
    BY CopyIsCopy, NoneIsNoSubscriptionRow DEF SubInv, PlanInv, Subscription
  <2>4. ~dropped => Faithful(CopyOf(s))
    <3>1. ~EditedBy(Now, sub[s].plan)
      BY <2>2 DEF EditedBy, PlanPoints, Idle
    <3>2. QED
      BY <2>3, <3>1 DEF PlanInv, PlansKept, Faithful, CopyOf
  <2>5. Now'.at = "set_shown" /\ Now'.entry = CopyOf(s)
    BY <2>2
  <2>6. QED
    BY <1>1, <2>2, <2>4, <2>5, CopiesStay
<1>6. QED
  BY <1>3, <1>4, <1>5

LEMMA RequestsKeepCopies ==
  ASSUME PlanInv, SubInv, Bought, Copies, NEW h \in Handlers, SubRequest(h) \/ SubStep(h), UNCHANGED planVars
  PROVE  Bought' /\ Copies'
<1>1. plan' = plan
  BY DEF planVars
<1>2. ASSUME NEW point, At(h, point), point \in SubPoints, NEW r, Goto(h, r)
      PROVE  Now = req[h] /\ req[h].at = point /\ Now' = r /\ dropped' = dropped
  BY <1>2, GotoTurns DEF SubInv, At, SubPoints
<1>3. \A r : Done(h) <=> Goto(h, Idle)
  BY DEF Done
<1>4. Idle.at = "idle"
  BY DEF Idle
<1>5. CASE \E a \in Accounts : CancelRead(h, a) \/ CheckRead(h, a) \/ ShowRead(h, a)
  BY <1>5, ReadingsKeepCopies
<1>6. ASSUME NEW i \in SubPayments, NEW a \in Accounts, NEW p \in Plans, InitiateSubPayment(h, i, a, p)
      PROVE  Bought' /\ Copies'
  <2> DEFINE row == [payer |-> a, plan |-> p, status |-> "PENDING", charge |-> "none"]
             r == [at |-> "sub_charge", pay |-> i]
  <2>1. /\ pay' = [pay EXCEPT ![i] = row] /\ Begin(h, r) /\ UNCHANGED <<sub, shown>>
        /\ plan[row.plan] # None
    BY <1>6 DEF InitiateSubPayment, SetPay, PlanExists
  <2>2. Now' = r /\ dropped' = dropped /\ r.at = "sub_charge"
    BY <2>1, BeginTurns DEF SubInv
  <2> HIDE DEF row, r
  <2>3. QED
    BY <1>1, <2>1, <2>2, PayKeepsCopies
<1>7. ASSUME NEW i \in SubPayments, NEW webhook \in BOOLEAN, SubNotified(h, i, webhook)
      PROVE  Bought' /\ Copies'
  <2> DEFINE r == [at |-> "sub_verdict", pay |-> i, effects |-> webhook \/ pay[i].status # "SUCCESS",
                   verdict |-> IF pay[i].charge = "CAPTURED" THEN "SUCCESS" ELSE "FAILED"]
  <2>1. Begin(h, r) /\ UNCHANGED subVars /\ r.at = "sub_verdict"
    BY <1>7 DEF SubNotified
  <2> HIDE DEF r
  <2>2. Now' = r /\ dropped' = dropped
    BY <2>1, BeginTurns DEF SubInv
  <2>3. QED
    BY <1>1, <2>1, <2>2, CopiesUntouched DEF subVars
<1>8. CASE ExpireActive(h)
  <2> DEFINE r == [req[h] EXCEPT !.at = "sub_insert"]
  <2>1. At(h, "sub_expire") /\ Goto(h, r) /\ UNCHANGED <<pay, shown>>
    BY <1>8 DEF ExpireActive
  <2>2. Now = req[h] /\ req[h].at = "sub_expire" /\ Now' = r /\ dropped' = dropped
    BY <1>2, <2>1 DEF SubPoints
  <2>3. r.at = "sub_insert" /\ r.plan = req[h].plan
    BY <2>2 DEF SubInv, Knows
  <2> HIDE DEF r
  <2>4. \A s \in Subs : sub'[s] # None => sub[s] # None /\ sub'[s].plan = sub[s].plan
    <3>1. ASSUME NEW s \in Subs, s \in ActiveSubs(req[h].who) PROVE sub'[s].plan = sub[s].plan /\ sub[s] # None
      <4>1. sub[s] \in Subscription /\ sub'[s] = [sub[s] EXCEPT !.status = "EXPIRED"]
        BY <1>8, <3>1, SubRow DEF ExpireActive, ActiveSubs, SubInv
      <4>2. QED
        BY <3>1, <4>1 DEF Subscription, ActiveSubs
    <3>2. ASSUME NEW s \in Subs, s \notin ActiveSubs(req[h].who) PROVE sub'[s] = sub[s]
      BY <1>8, <3>2 DEF ExpireActive
    <3>3. QED
      BY <3>1, <3>2
  <2>5. QED
    BY <1>1, <2>1, <2>2, <2>3, <2>4, RowsKeepCopies
<1>9. CASE InsertSub(h)
  <2>1. At(h, "sub_insert") /\ UNCHANGED <<pay, shown>> /\ Now = req[h] /\ req[h].at = "sub_insert"
    BY <1>9, AtIsNow DEF InsertSub, SubInv, At
  <2>2. CASE ~IsOffice(req[h].who) \/ FreeSubs = {}
    <3>1. Goto(h, Idle) /\ sub' = sub
      BY <1>9, <2>2 DEF InsertSub, Done
    <3>2. QED
      BY <1>1, <1>2, <1>4, <2>1, <3>1, CopiesUntouched DEF SubPoints
  <2>3. CASE ~(~IsOffice(req[h].who) \/ FreeSubs = {})
    <3> DEFINE row == NewSub(req[h].who, req[h].plan, req[h].pay)
               r == [at |-> "sub_status", who |-> req[h].who, status |-> "ACTIVE"]
    <3>1. Goto(h, r) /\ sub' = [sub EXCEPT ![FreeSub] = row] /\ r.at = "sub_status"
      BY <1>9, <2>3 DEF InsertSub
    <3>2. plan[row.plan] # None
      BY <2>1 DEF Bought, NewSub
    <3> HIDE DEF row, r
    <3>3. \A s \in Subs : sub'[s] = sub[s] \/ sub'[s] = row
      BY <3>1 DEF SubInv, Tables
    <3>4. Now' = r /\ dropped' = dropped
      BY <1>2, <2>1, <3>1 DEF SubPoints
    <3>5. QED
      BY <1>1, <2>1, <3>1, <3>2, <3>3, <3>4, CopiesStay
  <2>4. QED
    BY <2>2, <2>3
<1>10. CASE SubStatus(h) \/ DropStatusKey(h)
  <2>1. PICK point, r :
          /\ point \in {"sub_status", "drop_status"} /\ At(h, point)
          /\ Goto(h, r) /\ r.at \in {"drop_status", "drop_shown"} /\ UNCHANGED <<sub, pay, shown>>
    <3>1. [at |-> "drop_status", who |-> req[h].who].at = "drop_status"
          /\ [at |-> "drop_shown", who |-> req[h].who].at = "drop_shown"
      OBVIOUS
    <3>2. QED
      BY <1>10, <3>1 DEF SubStatus, DropStatusKey, subVars
  <2>2. QED
    BY <1>1, <1>2, <2>1, CopiesUntouched DEF SubPoints
<1>11. CASE DropShownKey(h)
  <2>1. At(h, "drop_shown") /\ Goto(h, Idle) /\ UNCHANGED <<sub, pay>>
        /\ shown' = [shown EXCEPT ![req[h].who] = None]
    BY <1>11 DEF DropShownKey, Done
  <2>2. Now' = Idle /\ dropped' = dropped
    BY <1>2, <2>1 DEF SubPoints
  <2>3. \A o \in Accounts : shown'[o] \in {shown[o], None}
    BY <2>1 DEF SubInv, Tables
  <2>4. QED
    BY <1>1, <1>4, <2>1, <2>2, <2>3, CopiesStay
<1>12. CASE CancelSave(h)
  <2> DEFINE r == [at |-> "sub_status", who |-> req[h].who, status |-> "OFFICE_NO_SUBSCRIPTION"]
  <2>1. At(h, "cancel") /\ Goto(h, r) /\ UNCHANGED <<pay, shown>> /\ r.at = "sub_status"
    BY <1>12 DEF CancelSave
  <2> HIDE DEF r
  <2>2. Now = req[h] /\ req[h].at = "cancel" /\ Now' = r /\ dropped' = dropped
    BY <1>2, <2>1 DEF SubPoints
  <2>3. PICK s \in Subs : s = req[h].sub /\ sub[s] # None
    BY <2>2 DEF SubInv, Knows, ActiveSubs
  <2>4. sub' = [sub EXCEPT ![s] = [sub[s] EXCEPT !.status = "EXPIRED", !.left = Over]]
    BY <1>12, <2>3 DEF CancelSave, SubInv, Tables
  <2>5. [sub[s] EXCEPT !.status = "EXPIRED", !.left = Over].plan = sub[s].plan
    BY <2>3, SubRow DEF SubInv, Subscription
  <2>6. \A t \in Subs : sub'[t] # None => sub[t] # None /\ sub'[t].plan = sub[t].plan
    BY <2>3, <2>4, <2>5 DEF SubInv, Tables
  <2>7. QED
    BY <1>1, <2>1, <2>2, <2>6, RowsKeepCopies
<1>13. CASE StartTrial(h)
  <2>1. At(h, "trial") /\ UNCHANGED <<pay, shown>>
    BY <1>13 DEF StartTrial
  <2>2. CASE Cheapest = {} \/ FreeSubs = {} \/ ~IsOffice(req[h].who)
    <3>1. Goto(h, Idle) /\ sub' = sub
      BY <1>13, <2>2 DEF StartTrial, Done
    <3>2. QED
      BY <1>1, <1>2, <1>4, <2>1, <3>1, CopiesUntouched DEF SubPoints
  <2>3. CASE ~(Cheapest = {} \/ FreeSubs = {} \/ ~IsOffice(req[h].who))
    <3> DEFINE r == [at |-> "drop_status", who |-> req[h].who]
    <3>1. Goto(h, r) /\ r.at = "drop_status"
      BY <1>13, <2>3 DEF StartTrial
    <3> HIDE DEF r
    <3>2. PICK p \in Cheapest : sub' = [sub EXCEPT ![FreeSub] = NewSub(req[h].who, p, None)]
      BY <1>13, <2>3 DEF StartTrial
    <3> DEFINE row == NewSub(req[h].who, p, None)
    <3>3. plan[row.plan] # None
      BY DEF Cheapest, PlanExists, NewSub
    <3> HIDE DEF row
    <3>4. \A s \in Subs : sub'[s] = sub[s] \/ sub'[s] = row
      BY <3>2 DEF SubInv, Tables, row
    <3>5. Now' = r /\ dropped' = dropped
      BY <1>2, <2>1, <3>1 DEF SubPoints
    <3>6. QED
      BY <1>1, <2>1, <3>1, <3>3, <3>4, <3>5, CopiesStay
  <2>4. QED
    BY <2>2, <2>3
<1>14. CASE LapseSave(h)
  <2> DEFINE r == [at |-> "set_status", who |-> req[h].who, entry |-> [status |-> "EXPIRED", lapses |-> TRUE]]
  <2>1. At(h, "lapse") /\ Goto(h, r) /\ UNCHANGED <<pay, shown>> /\ r.at = "set_status"
    BY <1>14 DEF LapseSave
  <2> HIDE DEF r
  <2>2. Now = req[h] /\ req[h].at = "lapse" /\ Now' = r /\ dropped' = dropped
    BY <1>2, <2>1 DEF SubPoints
  <2>3. PICK s \in Subs : s = req[h].sub /\ sub[s] # None
    BY <2>2 DEF SubInv, Knows, ActiveSubs
  <2>4. sub' = [sub EXCEPT ![s] = [sub[s] EXCEPT !.status = "EXPIRED"]]
    BY <1>14, <2>3 DEF LapseSave, SubInv, Tables
  <2>5. [sub[s] EXCEPT !.status = "EXPIRED"].plan = sub[s].plan
    BY <2>3, SubRow DEF SubInv, Subscription
  <2>6. \A t \in Subs : sub'[t] # None => sub[t] # None /\ sub'[t].plan = sub[t].plan
    BY <2>3, <2>4, <2>5 DEF SubInv, Tables
  <2>7. QED
    BY <1>1, <2>1, <2>2, <2>6, RowsKeepCopies
<1>15. CASE SetStatusKey(h)
  <2>1. At(h, "set_status") /\ Goto(h, Idle) /\ UNCHANGED <<sub, pay, shown>>
    BY <1>15 DEF SetStatusKey, Done
  <2>2. QED
    BY <1>1, <1>2, <1>4, <2>1, CopiesUntouched DEF SubPoints
<1>16. CASE SetShownKey(h)
  <2>1. At(h, "set_shown") /\ Goto(h, Idle) /\ UNCHANGED <<sub, pay>>
        /\ shown' = [shown EXCEPT ![req[h].who] = req[h].entry]
    BY <1>16 DEF SetShownKey, Done
  <2>2. Now = req[h] /\ req[h].at = "set_shown" /\ Now' = Idle /\ dropped' = dropped
    BY <1>2, <2>1 DEF SubPoints
  <2>3. ~dropped => Faithful(req[h].entry)
    BY <2>2 DEF Copies
  <2>4. \A o \in Accounts : shown'[o] = shown[o] \/ shown'[o] = req[h].entry
    BY <2>1 DEF SubInv, Tables
  <2>5. ~dropped => \A o \in Accounts : shown'[o] \in {shown[o], None} \/ Faithful(shown'[o])
    BY <2>3, <2>4
  <2>6. QED
    BY <1>1, <1>4, <2>1, <2>2, <2>5, CopiesStay
<1>17. CASE SubCharge(h)
  <2>1. At(h, "sub_charge") /\ Goto(h, Idle)
    BY <1>17 DEF SubCharge, Done
  <2>2. Now = req[h] /\ req[h].at = "sub_charge" /\ Now' = Idle /\ dropped' = dropped
    BY <1>2, <2>1 DEF SubPoints
  <2>3. PICK i \in SubPayments : i = req[h].pay /\ pay[i] # None
    BY <2>2 DEF SubInv, Knows
  <2>4. CASE UNCHANGED subVars
    BY <1>1, <1>4, <2>2, <2>4, CopiesUntouched DEF subVars
  <2>5. CASE SetPay(i, [pay[i] EXCEPT !.charge = "INITIATED"])
    <3>1. plan[[pay[i] EXCEPT !.charge = "INITIATED"].plan] # None
      BY <2>3 DEF SubInv, Tables, SubPayment, Bought
    <3>2. pay' = [pay EXCEPT ![i] = [pay[i] EXCEPT !.charge = "INITIATED"]] /\ UNCHANGED <<sub, shown>>
      BY <2>5 DEF SetPay
    <3>3. QED
      BY <1>1, <1>4, <2>2, <3>1, <3>2, PayKeepsCopies
  <2>6. QED
    BY <1>17, <2>3, <2>4, <2>5 DEF SubCharge
<1>18. CASE SubVerdict(h)
  <2>1. At(h, "sub_verdict") /\ Now = req[h] /\ req[h].at = "sub_verdict"
    BY <1>18, AtIsNow DEF SubVerdict, SubInv, At
  <2>2. PICK i \in SubPayments : i = req[h].pay /\ pay[i] # None
    BY <2>1 DEF SubInv, Knows
  <2> DEFINE row == [pay[i] EXCEPT !.status = req[h].verdict]
             r == [at |-> "sub_expire", who |-> pay[i].payer, plan |-> pay[i].plan, pay |-> i]
  <2>3. row.plan = pay[i].plan /\ plan[row.plan] # None
    BY <2>2 DEF SubInv, Tables, SubPayment, Bought
  <2>4. pay' = [pay EXCEPT ![i] = row] /\ UNCHANGED <<sub, shown>> /\ (Goto(h, r) \/ Goto(h, Idle))
    BY <1>18, <2>2 DEF SubVerdict, SetPay, Done
  <2>5. r.at = "sub_expire" /\ r.plan = row.plan
    BY <2>3
  <2> HIDE DEF row, r
  <2>6. (Now' = r \/ Now' = Idle) /\ dropped' = dropped
    BY <1>2, <2>1, <2>4 DEF SubPoints
  <2>7. QED
    BY <1>1, <1>4, <2>3, <2>4, <2>5, <2>6, PayKeepsCopies
<1>19. QED
  BY <1>5, <1>6, <1>7, <1>8, <1>9, <1>10, <1>11, <1>12, <1>13, <1>14, <1>15, <1>16, <1>17, <1>18
     DEF SubRequest, SubStep

LEMMA ClockKeepsCopies ==
  ASSUME SubInv, Bought, Copies, SubClock, UNCHANGED planVars PROVE Bought' /\ Copies'
<1>1. plan' = plan
  BY DEF planVars
<1>2. UNCHANGED reqVars
  BY DEF SubClock, SubAges, AtOnce, KeysLapse, SettleSub
<1>3. Now' = Now /\ dropped' = dropped
  BY <1>2, StaysPut DEF SubInv
<1>4. ASSUME NEW s \in Subs, SubAges(s) PROVE Bought' /\ Copies'
  <2>1. sub[s] # None /\ sub' = [sub EXCEPT ![s].left = @ - 1] /\ UNCHANGED <<pay, shown>> /\ AtOnce
    BY <1>4 DEF SubAges
  <2>2. sub'[s].plan = sub[s].plan /\ \A t \in Subs \ {s} : sub'[t] = sub[t]
    BY <2>1, SubRow DEF SubInv, Tables, Subscription
  <2>3. Now'.at = "idle"
    BY <2>1, AtOnceStays DEF SubInv, Idle
  <2>4. QED
    BY <1>1, <1>3, <2>1, <2>2, <2>3, RowsKeepCopies
<1>5. ASSUME NEW o \in Accounts, KeysLapse(o) PROVE Bought' /\ Copies'
  <2>1. UNCHANGED <<sub, pay>> /\ \A x \in Accounts : shown'[x] \in {shown[x], None}
    BY <1>5 DEF KeysLapse, SubInv, Tables
  <2>2. Now'.at \in {"sub_expire", "sub_insert"} => plan[Now'.plan] # None
    BY <1>3 DEF Bought
  <2>3. ~dropped /\ Now'.at = "set_shown" => Faithful(Now'.entry)
    BY <1>3 DEF Copies
  <2>4. QED
    BY <1>1, <1>3, <2>1, <2>2, <2>3, CopiesStay
<1>6. ASSUME NEW i \in SubPayments, NEW outcome \in {"CAPTURED", "DECLINED"}, SettleSub(i, outcome)
      PROVE  Bought' /\ Copies'
  <2>1. pay[i] # None /\ pay' = [pay EXCEPT ![i] = [pay[i] EXCEPT !.charge = outcome]] /\ UNCHANGED <<sub, shown>>
    BY <1>6 DEF SettleSub, SetPay
  <2>2. plan[[pay[i] EXCEPT !.charge = outcome].plan] # None
    BY <2>1 DEF SubInv, Tables, SubPayment, Bought
  <2>3. QED
    BY <1>1, <1>3, <2>1, <2>2, PayKeepsCopies
<1>7. QED
  BY <1>4, <1>5, <1>6 DEF SubClock

-----------------------------------------------------------------------------
(* What it comes to *)

SubscriptionsInv == PlanInv /\ SubInv /\ Bought /\ Copies

LEMMA SubscriptionsStart == ASSUME SubscribersInit PROVE SubscriptionsInv
<1>1. OneRequest /\ Quiet
  BY DEF SubscribersInit, RequestsInit, OneRequest, Quiet
<1>2. Now = Idle
  BY <1>1, QuietIsIdle
<1>3. PlanTypes /\ \A p \in Plans : plan[p] = None
  BY DEF SubscribersInit, PlanTypes
<1>4. PlanInv
  BY <1>1, <1>2, <1>3 DEF PlanInv, Edits, PlansKept, PlanPoints, Idle
<1>5. /\ \A s \in Subs : sub[s] = None
      /\ \A o \in Accounts : known[o] = None /\ shown[o] = None
      /\ \A i \in SubPayments : pay[i] = None
  BY DEF SubscribersInit, SubscriptionsInit
<1>6. Tables
  BY DEF SubscribersInit, SubscriptionsInit, Tables
<1>7. \A o : ActiveSubs(o) = {}
  BY <1>5 DEF ActiveSubs
<1>8. Refs /\ Single
  BY <1>5, <1>7 DEF SubscribersInit, Refs, Single, PaidSubs
<1>9. Knows(Now) /\ PaidRows
  BY <1>2, <1>5 DEF Knows, PaidRows, Idle
<1>10. OfficesFit
  BY <1>5, <1>7 DEF OfficesFit, Fits, StatusRight, KnownRight, ShownRight
<1>11. Bought /\ Copies
  BY <1>2, <1>5 DEF Bought, Copies, Idle
<1>12. QED
  BY <1>1, <1>4, <1>6, <1>8, <1>9, <1>10, <1>11 DEF SubscriptionsInv, SubInv

LEMMA SubTurns ==
  ASSUME SubInv, NEW h \in Handlers, SubRequest(h) \/ SubStep(h)
  PROVE  /\ OneRequest' /\ dropped' = dropped /\ Now.at \in SubPoints \union {"idle"}
         /\ Now'.at \in SubPoints \union {"idle"}
<1>1. ASSUME NEW r, Begin(h, r), r.at \in SubPoints
      PROVE  /\ OneRequest' /\ dropped' = dropped /\ Now.at \in SubPoints \union {"idle"}
             /\ Now'.at \in SubPoints \union {"idle"}
  BY <1>1, BeginTurns DEF Idle, SubInv
<1>2. ASSUME NEW point \in SubPoints, At(h, point), NEW r, Goto(h, r), r.at \in SubPoints \union {"idle"}
      PROVE  /\ OneRequest' /\ dropped' = dropped /\ Now.at \in SubPoints \union {"idle"}
             /\ Now'.at \in SubPoints \union {"idle"}
  <2>1. point # "idle"
    BY DEF SubPoints
  <2>2. QED
    BY <1>2, <2>1, GotoTurns DEF At, SubInv
<1> USE DEF SubPoints
<1>3. CASE \E a \in Accounts : CancelRead(h, a) \/ ShowRead(h, a)
  BY <1>1, <1>3 DEF CancelRead, ShowRead
<1>4. CASE \E a \in Accounts : CheckRead(h, a)
  <2>1. PICK a \in Accounts : CheckRead(h, a)
    BY <1>4
  <2> DEFINE o == OfficeOf(a)
  <2>2. CASE ActiveSubs(o) = {}
    BY <1>1, <2>1, <2>2 DEF CheckRead
  <2>3. CASE ActiveSubs(o) # {}
    <3>1. PICK s \in ActiveSubs(o) :
            Begin(h, IF sub[s].left = Over THEN [at |-> "lapse", who |-> o, sub |-> s]
                     ELSE [at |-> "set_status", who |-> o,
                           entry |-> [status |-> "ACTIVE", lapses |-> sub[s].left # LastSecond]])
      BY <2>1, <2>3 DEF CheckRead
    <3>2. QED
      BY <1>1, <3>1
  <2>4. QED
    BY <2>2, <2>3
<1>5. CASE \E i \in SubPayments, a \in Accounts, p \in Plans : InitiateSubPayment(h, i, a, p)
  BY <1>1, <1>5 DEF InitiateSubPayment
<1>6. CASE \E i \in SubPayments, webhook \in BOOLEAN : SubNotified(h, i, webhook)
  BY <1>1, <1>6 DEF SubNotified
<1>7. CASE ExpireActive(h)
  <2>1. At(h, "sub_expire") /\ Goto(h, [req[h] EXCEPT !.at = "sub_insert"])
    BY <1>7 DEF ExpireActive
  <2>2. req[h] \in [at : {"sub_expire", "sub_insert"}, who : Accounts, plan : Plans, pay : SubPayments]
    BY <2>1, AtIsNow DEF SubInv, Knows, At
  <2>3. [req[h] EXCEPT !.at = "sub_insert"].at = "sub_insert"
    BY <2>2
  <2>4. QED
    BY <1>2, <2>1, <2>3
<1>8. CASE InsertSub(h)
  BY <1>2, <1>8 DEF InsertSub, Done, Idle
<1>9. CASE SubStatus(h) \/ DropStatusKey(h) \/ DropShownKey(h) \/ CancelSave(h)
  BY <1>2, <1>9 DEF SubStatus, DropStatusKey, DropShownKey, CancelSave, Done, Idle
<1>10. CASE StartTrial(h)
  BY <1>2, <1>10 DEF StartTrial, Done, Idle
<1>11. CASE LapseSave(h) \/ SetStatusKey(h) \/ SetShownKey(h) \/ SubCharge(h)
  BY <1>2, <1>11 DEF LapseSave, SetStatusKey, SetShownKey, SubCharge, Done, Idle
<1>12. CASE SubVerdict(h)
  BY <1>2, <1>12 DEF SubVerdict, Done, Idle
<1>13. QED
  BY <1>3, <1>4, <1>5, <1>6, <1>7, <1>8, <1>9, <1>10, <1>11, <1>12 DEF SubRequest, SubStep

LEMMA SubRequestsKeepSubs ==
  ASSUME SubInv, PlanTypes, Bought, NEW h \in Handlers, SubRequest(h) \/ SubStep(h), UNCHANGED officeVars
  PROVE  SubInv'
<1>1. CASE SubRequest(h)
  BY <1>1, ReadingsKeepSubs, InitiateKeepsSubs, NotifiedKeepsSubs DEF SubRequest
<1>2. CASE SubStep(h)
  BY <1>2, ExpireKeepsSubs, InsertKeepsSubs, StatusKeepsSubs, KeysDroppedKeepSubs, CancelKeepsSubs,
     TrialKeepsSubs, LapseKeepsSubs, StatusKeyKeepsSubs, ShownKeyKeepsSubs, ChargeKeepsSubs,
     VerdictKeepsSubs DEF SubStep
<1>3. QED
  BY <1>1, <1>2

LEMMA PlanRequestsKeepPlans ==
  ASSUME PlanInv, NEW h \in Handlers, PlanRequest(h) \/ PlansStep(h) PROVE PlanInv'
<1>1. CASE PlanRequest(h)
  BY <1>1, CreatePlanKeepsPlans, UpdatePlanKeepsPlans DEF PlanRequest
<1>2. CASE PlansStep(h)
  BY <1>2, ClearKeepsPlans, LookUpKeepsPlans, SaveKeepsPlans, AttachOneKeepsPlans, AttachAllKeepsPlans
     DEF PlansStep
<1>3. QED
  BY <1>1, <1>2

LEMMA SubscriptionsStep ==
  ASSUME SubscriptionsInv, [SubscriptionsNext]_subscriptionVars PROVE SubscriptionsInv'
<1> USE DEF SubscriptionsInv
<1>1. ASSUME NEW h \in Handlers, PlanRequest(h) \/ PlansStep(h), UNCHANGED <<accountVars, officeVars, subVars>>
      PROVE  SubscriptionsInv'
  <2>1. /\ OneRequest' /\ dropped' = dropped /\ Now.at \in PlanPoints \union {"idle"}
        /\ Now'.at \in PlanPoints \union {"idle"}
    BY <1>1, PlanTurns
  <2>2. UNCHANGED subTables /\ Now.at \notin BusyPoints /\ Now'.at \notin SubPoints
    BY <1>1, <2>1 DEF subTables, officeVars, BusyPoints, SubPoints, PlanPoints
  <2>3. QED
    BY <1>1, <2>1, <2>2, PlanRequestsKeepPlans, OthersKeepSubs, EditsKeepCopies
<1>2. ASSUME NEW h \in Handlers, SubRequest(h) \/ SubStep(h), UNCHANGED <<officeVars, planVars>>
      PROVE  SubscriptionsInv'
  <2>1. /\ OneRequest' /\ dropped' = dropped /\ Now.at \in SubPoints \union {"idle"}
        /\ Now'.at \in SubPoints \union {"idle"}
    BY <1>2, SubTurns
  <2>2. Now.at \notin PlanPoints /\ Now'.at \notin PlanPoints
    BY <2>1 DEF SubPoints, PlanPoints
  <2>3. UNCHANGED officeVars /\ UNCHANGED planVars
    BY <1>2
  <2>4. SubInv'
    BY <1>2, <2>3, SubRequestsKeepSubs DEF PlanInv
  <2>5. QED
    BY <1>2, <2>1, <2>2, <2>3, <2>4, OthersKeepPlans, RequestsKeepCopies
<1>3. ASSUME NEW h \in Handlers, NEW o \in Accounts, ApproveRegistration(h, o), UNCHANGED <<planVars, subVars>>
      PROVE  SubscriptionsInv'
  <2>1. OneRequest' /\ Now = Idle /\ Now'.at = "trial" /\ dropped' = dropped
    BY <1>3, BeginTurns DEF ApproveRegistration, SubInv
  <2>2. Now.at \notin PlanPoints /\ Now'.at \notin PlanPoints
    BY <2>1 DEF Idle, PlanPoints
  <2>3. UNCHANGED subVars /\ UNCHANGED planVars
    BY <1>3
  <2>4. Bought' /\ Copies'
    BY <2>1, <2>3, CopiesUntouched DEF planVars, subVars
  <2>5. QED
    BY <1>3, <2>1, <2>2, <2>3, <2>4, OthersKeepPlans, ApprovalKeepsSubs
<1>4. ASSUME NEW h \in Handlers, Drop(h), UNCHANGED <<accountVars, officeVars, planVars, subVars>>
      PROVE  SubscriptionsInv'
  <2>1. OneRequest' /\ Now' = Idle /\ dropped'
    BY <1>4, DropTurns DEF SubInv
  <2>2. Now'.at \notin PlanPoints
    BY <2>1 DEF Idle, PlanPoints
  <2>3. UNCHANGED subTables /\ UNCHANGED planVars
    BY <1>4 DEF subTables, officeVars
  <2>4. Bought' /\ Copies'
    BY <1>4, <2>1, CopiesUntouched DEF planVars, subVars, Idle
  <2>5. QED
    BY <1>4, <2>1, <2>2, <2>3, <2>4, OthersKeepPlans, DropKeepsSubs
<1>5. ASSUME SubClock, UNCHANGED <<officeVars, planVars>> PROVE SubscriptionsInv'
  <2>1. UNCHANGED reqVars
    BY <1>5 DEF SubClock, SubAges, AtOnce, KeysLapse, SettleSub
  <2>2. OneRequest' /\ Now' = Now /\ dropped' = dropped
    BY <2>1, StaysPut DEF SubInv
  <2>3. UNCHANGED officeVars /\ UNCHANGED planVars
    BY <1>5
  <2>4. SubInv'
    BY <1>5, <2>3, AgesKeepSubs, LapsesKeepSubs, SettleKeepsSubs DEF SubClock
  <2>5. QED
    BY <1>5, <2>2, <2>3, <2>4, OthersKeepPlans, ClockKeepsCopies
<1>6. ASSUME NEW o \in Accounts, DeleteOffice(o), DropSubscriptions(o), UNCHANGED planVars
      PROVE  SubscriptionsInv'
  <2>1. OneRequest' /\ Now = Idle /\ Now' = Idle /\ dropped' = dropped
    BY <1>6, AtOnceStays DEF DeleteOffice, SubInv
  <2>2. Bought' /\ Copies'
    <3>1. \A s \in Subs : sub'[s] # None => sub[s] # None /\ sub'[s].plan = sub[s].plan
      BY <1>6 DEF DropSubscriptions
    <3>2. UNCHANGED <<plan, pay, shown>>
      BY <1>6 DEF DropSubscriptions, planVars
    <3>3. QED
      BY <2>1, <3>1, <3>2, RowsKeepCopies DEF Idle
  <2>3. QED
    BY <1>6, <2>1, <2>2, OthersKeepPlans, DeletionKeepsSubs
<1>7. ASSUME StaffChanges PROVE SubscriptionsInv'
  <2>1. UNCHANGED reqVars /\ UNCHANGED planVars
    BY <1>7 DEF StaffChanges
  <2>2. OneRequest' /\ Now' = Now /\ dropped' = dropped
    BY <2>1, StaysPut DEF SubInv
  <2>3. Bought' /\ Copies'
    BY <1>7, <2>2, CopiesUntouched DEF StaffChanges, planVars, subVars
  <2>4. QED
    BY <1>7, <2>1, <2>2, <2>3, OthersKeepPlans, StaffKeepsSubs
<1>8. CASE UNCHANGED subscriptionVars
  <2>1. StaffChanges
    BY <1>8 DEF subscriptionVars, officeVars, StaffChanges, SubInv, Tables, OfficesTypeOK
  <2>2. QED
    BY <1>7, <2>1
<1>9. QED
  BY <1>1, <1>2, <1>3, <1>4, <1>5, <1>6, <1>7, <1>8
     DEF SubscriptionsNext, SubscriptionRequests, Meanwhile

\* The invariant holds of every behaviour.
LEMMA SubscriptionsInvariant == SubscriptionsSpec => []SubscriptionsInv
  BY SubscriptionsStart, SubscriptionsStep, PTL DEF SubscriptionsSpec

\* Rows, keys, payments and plans keep their form, whatever request is cut.
THEOREM SubscriptionTypes == SubscriptionsSpec => [](AccountsTypeOK /\ OfficesTypeOK /\ SubscriptionsTypeOK)
<1>1. ASSUME SubscriptionsInv PROVE AccountsTypeOK /\ OfficesTypeOK /\ SubscriptionsTypeOK
  BY <1>1 DEF SubscriptionsInv, PlanInv, PlanTypes, SubInv, Tables, SubscriptionsTypeOK, StatusKey
<1>2. QED
  BY <1>1, SubscriptionsInvariant, PTL

LEMMA InvGivesPlans == ASSUME SubscriptionsInv PROVE PlanAsWanted
<1>1. Quiet => Now.at \notin PlanPoints
  BY QuietIsIdle DEF Idle, PlanPoints
<1>2. QED
  BY <1>1 DEF SubscriptionsInv, PlanInv, PlansKept, EditedBy, PlanAsWanted, Resting, PlanExists

\* A plan has the features the admin last gave it whenever no edit is on its way
\* (updatePlan clears them and attaches them one by one).
THEOREM PlanStands == SubscriptionsSpec => []PlanAsWanted
  BY InvGivesPlans, SubscriptionsInvariant, PTL

LEMMA InvGivesOne == ASSUME SubscriptionsInv PROVE OneSubscription
<1>1. OnePaidSubscription
  <2> SUFFICES ASSUME NEW o \in Accounts PROVE Cardinality(PaidSubs(o)) <= 1
    BY DEF OnePaidSubscription, PaidSubs
  <2>1. CASE PaidSubs(o) = {}
    BY <2>1, FS_EmptySet
  <2>2. CASE PaidSubs(o) # {}
    <3>1. \A s, t \in PaidSubs(o) : s = t
      BY DEF SubscriptionsInv, SubInv, Single
    <3>2. PICK s : s \in PaidSubs(o)
      BY <2>2
    <3>3. PaidSubs(o) = {s}
      BY <3>1, <3>2
    <3>4. Cardinality({s}) = 1
      BY FS_Singleton
    <3>5. QED
      BY <3>3, <3>4
  <2>3. QED
    BY <2>1, <2>2
<1>2. CancelledHasNone
  <2> SUFFICES ASSUME Resting, NEW o \in Accounts \ doubled PROVE StatusRight(o)
    BY DEF CancelledHasNone, StatusRight, Exists
  <2>1. Now = Idle /\ Fits(o)
    BY QuietIsIdle DEF Resting, SubscriptionsInv, SubInv, OfficesFit
  <2>2. QED
    BY <2>1 DEF Fits, Serving, Idle
<1>3. QED
  BY <1>1, <1>2 DEF OneSubscription

\* With requests served one at a time an office has one paid subscription at most, however
\* often its payment is reported (subscribeToPlan), and no active one once it is cancelled.
THEOREM OneSubscriptionAtATime == SubscriptionsSpec => []OneSubscription
  BY InvGivesOne, SubscriptionsInvariant, PTL

LEMMA InvGivesPaid == ASSUME SubscriptionsInv PROVE PaidIsSubscribed
<1>1. Quiet => Now.at \notin {"sub_expire", "sub_insert"}
  BY QuietIsIdle DEF Idle
<1>2. QED
  BY <1>1 DEF PaidIsSubscribed, Resting, SubscriptionsInv, SubInv, PaidRows

\* Every payment of an office that has succeeded has made it a subscription
\* (handleSubscriptionPaymentSuccess, from the webhook and from the redirect page).
THEOREM PaidGetsSubscription == SubscriptionsSpec => []PaidIsSubscribed
  BY InvGivesPaid, SubscriptionsInvariant, PTL

\* At rest the keys of an office without a doubled subscription are right.
LEMMA KeysRight ==
  ASSUME SubscriptionsInv, Resting, NEW o \in Accounts \ doubled, IsOffice(o)
  PROVE  /\ KnownRight(o) /\ ShownRight(o)
         /\ \A s, t \in ActiveSubs(o) : s = t
         /\ known[o] # None => known[o] \in StatusKey
<1>1. Now = Idle /\ Fits(o)
  BY QuietIsIdle DEF Resting, SubscriptionsInv, SubInv, OfficesFit
<1>2. QED
  BY <1>1 DEF Fits, Serving, Idle, SubscriptionsInv, SubInv, Single, Tables

LEMMA InvGivesKeys == ASSUME SubscriptionsInv PROVE KeysTrue
<1>1. StatusKeyTrue
  BY KeysRight DEF StatusKeyTrue, KnownRight, EntryTrue, Runs
<1>2. ShownIsActive
  <2> SUFFICES ASSUME Resting, NEW o \in Accounts \ doubled, IsOffice(o), shown[o] # None
               PROVE  LET s == shown[o].sub IN sub[s].office = o /\ (s \in ActiveSubs(o) \/ sub[s].left = Over)
    BY DEF ShownIsActive
  <2>1. QED
    BY KeysRight DEF ShownRight, Ended, ActiveSubs
<1>3. FeaturesAsPaid
  <2> SUFFICES ASSUME Resting, NEW a \in Accounts, NEW f \in Features, NEW o \in Accounts, o = OfficeOf(a),
                      HasRole(a, "OFFICE"), IsOffice(o), o \notin doubled, known[o] # None => known[o].lapses
               PROVE  Admits(a, f) <=>
                        \E s \in {t \in ActiveSubs(o) : sub[t].left # Over} :
                          f \in IF Outdated(o) THEN shown[o].asked ELSE plan[sub[s].plan].features
    BY OfficeOfIsAccount DEF FeaturesAsPaid, SubscriptionsInv, SubInv
  <2>1. /\ KnownRight(o) /\ ShownRight(o)
        /\ \A s, t \in ActiveSubs(o) : s = t
        /\ known[o] # None => known[o] \in StatusKey
    BY KeysRight
  <2>2. StatusAnswer(o) = "ACTIVE" <=> Runs(o)
    BY <2>1 DEF StatusAnswer, KnownRight, EntryTrue, Runs, StatusKey
  <2>3. ASSUME Runs(o)
        PROVE  CheckFeatureAccess(o, f) <=>
                 \E s \in ActiveSubs(o) : f \in IF Outdated(o) THEN shown[o].asked ELSE plan[sub[s].plan].features
    <3>1. CASE shown[o] = None
      BY <3>1 DEF CheckFeatureAccess, Outdated
    <3>2. CASE shown[o] # None
      <4>1. shown[o].sub \in ActiveSubs(o) /\ \A s \in ActiveSubs(o) : s = shown[o].sub
        BY <2>1, <2>3, <3>2 DEF ShownRight, Ended, Runs
      <4>2. shown[o].features = shown[o].asked
        BY <3>2 DEF Resting, SubscriptionsInv, Copies, Faithful
      <4>3. ~Outdated(o) => shown[o].asked = plan[sub[shown[o].sub].plan].features
        <5>1. sub[shown[o].sub].plan \in Plans /\ plan[sub[shown[o].sub].plan] # None
          BY <4>1, SubRow DEF SubscriptionsInv, SubInv, Bought, ActiveSubs, Subscription
        <5>2. QED
          BY <3>2, <5>1, InvGivesPlans DEF Outdated, PlanAsWanted, PlanExists
      <4>4. QED
        BY <3>2, <4>1, <4>2, <4>3 DEF CheckFeatureAccess
    <3>3. QED
      BY <3>1, <3>2
  <2>4. Admits(a, f) <=> Runs(o) /\ CheckFeatureAccess(o, f)
    BY <2>2 DEF Admits
  <2>5. QED
    BY <2>1, <2>3, <2>4 DEF Runs
<1>4. QED
  BY <1>1, <1>2, <1>3 DEF KeysTrue

\* What the two cache keys say of an office is so, though they are filled and lapse apart:
\* it is admitted to a feature exactly while a subscription that runs includes it
\* (SubscriptionInterceptor), by the plan as it was cached until the copy lapses or is
\* dropped.
THEOREM KeysTellTheTruth == SubscriptionsSpec => []KeysTrue
  BY InvGivesKeys, SubscriptionsInvariant, PTL

-----------------------------------------------------------------------------
(* The back office: subscriptions, coupons, settings and roles in one process *)

CouponPoints == {"create_coupon", "save_coupon", "remove_coupon", "save_setting", "cache_setting"}
RolePoints == {"create_role", "update_role", "assign_role"}

\* A request that stands at one of these points, or none does, goes on or ends among them.
Among(points) == /\ OneRequest' /\ dropped' = dropped
                 /\ Now.at \in points \union {"idle"} /\ Now'.at \in points \union {"idle"}

LEMMA BegunAmong ==
  ASSUME OneRequest, NEW h \in Handlers, NEW r, Begin(h, r), NEW points, r.at \in points
  PROVE  Among(points)
  BY BeginTurns DEF Among, Idle

LEMMA GoneOnAmong ==
  ASSUME OneRequest, NEW h \in Handlers, NEW points, "idle" \notin points, req[h].at \in points,
         NEW r, Goto(h, r), r.at \in points \union {"idle"}
  PROVE  Among(points)
<1>1. OneRequest' /\ Now = req[h] /\ Now' = r /\ dropped' = dropped
  BY GotoTurns DEF At
<1>2. QED
  BY <1>1 DEF Among

LEMMA CouponTurns ==
  ASSUME OneRequest, CouponInv, CouponRequests PROVE Among(CouponPoints)
<1>1. "idle" \notin CouponPoints /\ Idle.at = "idle"
  BY DEF CouponPoints, Idle
<1>2. ASSUME NEW h \in Handlers, NEW c \in Coupons, NEW row \in Coupon,
             CreateCouponRead(h, c, row) \/ UpdateCouponRead(h, c, row) \/ RemoveCouponRead(h, c)
      PROVE  Among(CouponPoints)
  BY <1>2, BegunAmong DEF CreateCouponRead, UpdateCouponRead, RemoveCouponRead, CouponPoints
<1>3. ASSUME NEW h \in Handlers, NEW c \in Coupons, RemoveCouponRead(h, c) PROVE Among(CouponPoints)
  BY <1>3, BegunAmong DEF RemoveCouponRead, CouponPoints
<1>4. ASSUME NEW h \in Handlers, NEW t \in Services, NEW on \in BOOLEAN, UpsertRead(h, t, on)
      PROVE  Among(CouponPoints)
  BY <1>4, BegunAmong DEF UpsertRead, CouponPoints
<1>5. ASSUME NEW h \in Handlers, CreateCoupon(h) \/ SaveCoupon(h) \/ CacheSetting(h)
      PROVE  Among(CouponPoints)
  <2>1. req[h].at \in CouponPoints /\ Goto(h, Idle)
    BY <1>5 DEF CreateCoupon, SaveCoupon, CacheSetting, At, Done, CouponPoints
  <2>2. QED
    BY <1>1, <2>1, GoneOnAmong
<1>6. ASSUME NEW h \in Handlers, SaveSetting(h) PROVE Among(CouponPoints)
  <2> DEFINE r == [req[h] EXCEPT !.at = "cache_setting"]
  <2>1. req[h].at = "save_setting" /\ Goto(h, r)
    BY <1>6 DEF SaveSetting, At
  <2>2. r.at = "cache_setting"
    BY <2>1 DEF CouponInv, CouponReqs, CouponReq
  <2> HIDE DEF r
  <2>3. req[h].at \in CouponPoints /\ r.at \in CouponPoints
    BY <2>1, <2>2 DEF CouponPoints
  <2>4. QED
    BY <1>1, <2>1, <2>3, GoneOnAmong
<1>7. QED
  BY <1>2, <1>3, <1>4, <1>5, <1>6 DEF CouponRequests, CouponsStep

LEMMA RoleTurns ==
  ASSUME OneRequest, RoleRequests PROVE Among(RolePoints)
<1>1. "idle" \notin RolePoints /\ Idle.at = "idle"
  BY DEF RolePoints, Idle
<1>2. ASSUME NEW h \in Handlers, NEW r, NEW n, NEW p, CreateRoleRead(h, r, n, p)
      PROVE  Among(RolePoints)
  BY <1>2, BegunAmong DEF CreateRoleRead, RolePoints
<1>3. ASSUME NEW h \in Handlers, NEW r, NEW n, NEW new, NEW active, UpdateRoleRead(h, r, n, new, active)
      PROVE  Among(RolePoints)
  BY <1>3, BegunAmong DEF UpdateRoleRead, RolePoints
<1>4. ASSUME NEW h \in Handlers, NEW a, NEW r, AssignRoleRead(h, a, r) PROVE Among(RolePoints)
  BY <1>4, BegunAmong DEF AssignRoleRead, RolePoints
<1>5. ASSUME NEW h \in Handlers, RolesStep(h) PROVE Among(RolePoints)
  <2>1. req[h].at \in RolePoints /\ Goto(h, Idle)
    BY <1>5 DEF RolesStep, CreateRole, UpdateRole, AssignRole, At, Done, RolePoints
  <2>2. QED
    BY <1>1, <2>1, GoneOnAmong
<1>6. ASSUME AtOnce PROVE Among(RolePoints)
  BY <1>6, AtOnceStays DEF Among, Idle
<1>7. ASSUME NEW r, DeleteRole(r) PROVE AtOnce
  BY <1>7 DEF DeleteRole
<1>8. ASSUME NEW a, RemoveRole(a) PROVE AtOnce
  BY <1>8 DEF RemoveRole
<1>9. QED
  BY <1>2, <1>3, <1>4, <1>5, <1>6, <1>7, <1>8 DEF RoleRequests

\* A request on subscriptions is at none of the points of the others.
LEMMA SubscriptionTurns ==
  ASSUME SubscriptionsInv, SubscriptionRequests PROVE Among(PlanPoints \union SubPoints)
<1>1. OneRequest
  BY DEF SubscriptionsInv, SubInv
<1>2. ASSUME NEW h \in Handlers, PlanRequest(h) \/ PlansStep(h) PROVE Among(PlanPoints \union SubPoints)
  BY <1>2, PlanTurns DEF Among, SubscriptionsInv
<1>3. ASSUME NEW h \in Handlers, SubRequest(h) \/ SubStep(h) PROVE Among(PlanPoints \union SubPoints)
  BY <1>3, SubTurns DEF Among, SubscriptionsInv
<1>4. ASSUME NEW h \in Handlers, NEW o \in Accounts, ApproveRegistration(h, o)
      PROVE  Among(PlanPoints \union SubPoints)
  BY <1>1, <1>4, BegunAmong DEF ApproveRegistration, SubPoints
<1>5. ASSUME NEW o \in Accounts, DeleteOffice(o) PROVE Among(PlanPoints \union SubPoints)
  BY <1>1, <1>5, AtOnceStays DEF DeleteOffice, Among, Idle
<1>6. QED
  BY <1>2, <1>3, <1>4, <1>5 DEF SubscriptionRequests

\* Every handler that is busy afterwards holds the one request there is.
LEMMA BusyNext ==
  ASSUME OneRequest', NEW h \in Handlers PROVE req'[h] = Idle \/ req'[h] = Now'
<1>1. CASE req'[h] # Idle
  <2>1. ~Quiet' /\ (CHOOSE g \in Handlers : req'[g] # Idle) = h
    BY <1>1 DEF Quiet, OneRequest
  <2>2. Now' = req'[h]
    BY <2>1 DEF Now
  <2>3. QED
    BY <2>2
<1>2. QED
  BY <1>1

LEMMA OthersKeepRoles ==
  ASSUME RoleInv, OneRequest', UNCHANGED roleVars, serial' = serial, Now'.at \notin RolePoints PROVE RoleInv'
<1>1. \A h \in Handlers : req'[h].at \notin RolePoints
  BY BusyNext DEF Idle, RolePoints
<1>2. RoleReqs' /\ UpdatesFresh'
  BY <1>1 DEF RoleReqs, RoleReq, UpdatesFresh, UpdateOf, RolePoints
<1>3. RoleTables' /\ PermissionsAsSent'
  BY DEF RoleInv, RoleTables, RolesTypeOK, PermissionsAsSent, roleVars
<1>4. ReqInv'
  BY DEF OneRequest, ReqInv, ReqTable, OneBusy
<1>5. QED
  BY <1>2, <1>3, <1>4 DEF RoleInv

LEMMA OthersKeepSettings ==
  ASSUME SettingInv, OneRequest, OneRequest', UNCHANGED catalogVars, dropped' = dropped,
         Now.at \notin CouponPoints, Now'.at \notin CouponPoints
  PROVE  SettingInv'
<1>1. \A h \in Handlers : req'[h].at \notin CouponPoints
  BY BusyNext DEF Idle, CouponPoints
<1>2. \A h \in Handlers : req[h].at \notin CouponPoints
  BY NowIsBusy DEF Idle, CouponPoints
<1>3. CouponReqs'
  BY <1>1 DEF CouponReqs, CouponReq, CouponPoints
<1>4. CouponsTypeOK' /\ RetiredRows'
  BY DEF SettingInv, CouponInv, CouponsTypeOK, RetiredRows, catalogVars
<1>5. ReqInv'
  BY DEF OneRequest, ReqInv, ReqTable, OneBusy
<1>6. CacheInv'
  BY <1>1, <1>2 DEF SettingInv, CacheInv, CouponPoints, catalogVars, OneRequest
<1>7. QED
  BY <1>3, <1>4, <1>5, <1>6 DEF SettingInv, CouponInv

\* A request on coupons, settings or roles writes nothing that subscriptions rest on.
LEMMA OthersKeepSubscriptions ==
  ASSUME SubscriptionsInv, UNCHANGED <<accountVars, officeVars, planVars, subVars>>,
         NEW points, Among(points), points \intersect (PlanPoints \union SubPoints) = {}
  PROVE  SubscriptionsInv'
<1>1. /\ OneRequest' /\ dropped' = dropped
      /\ Now.at \notin PlanPoints \union SubPoints /\ Now'.at \notin PlanPoints \union SubPoints
  BY DEF Among, PlanPoints, SubPoints
<1>2. Now.at \notin BusyPoints
  BY <1>1 DEF BusyPoints, SubPoints
<1>3. UNCHANGED subTables /\ UNCHANGED planVars
  BY DEF subTables, officeVars
<1>4. Bought' /\ Copies'
  BY <1>1, CopiesUntouched DEF SubscriptionsInv, planVars, subVars, SubPoints
<1>5. QED
  BY <1>1, <1>2, <1>3, <1>4, OthersKeepPlans, OthersKeepSubs DEF SubscriptionsInv

BackOfficeInv == SubscriptionsInv /\ SettingInv /\ RoleInv

\* With the process go its request and its caches, and an empty cache tells no lie.
LEMMA RebootKeepsSubscriptions ==
  ASSUME SubscriptionsInv, Reboot PROVE SubscriptionsInv'
<1>1. /\ req' = [h \in Handlers |-> Idle] /\ serial' = serial /\ dropped' = (dropped \/ ~Quiet)
      /\ \A o \in Accounts : known'[o] = None /\ shown'[o] = None
      /\ known' \in [Accounts -> {None}] /\ shown' \in [Accounts -> {None}]
      /\ details' \in [Accounts -> {None}]
      /\ UNCHANGED <<account, asked, proved, office, employee, plan, feature, wanted, sub, doubled, pay>>
  BY DEF Reboot, Restart, accountVars, planVars
<1>2. OneRequest' /\ Quiet'
  BY <1>1 DEF SubscriptionsInv, SubInv, OneRequest, Quiet
<1>3. Now' = Idle /\ (dropped' \/ Now = Idle) /\ (~dropped' => ~dropped)
  BY <1>1, <1>2 DEF Now
<1>4. Now'.at \notin PlanPoints /\ Now'.at \notin SubPoints
  BY <1>3 DEF Idle, PlanPoints, SubPoints
<1>5. PlanInv'
  <2>1. Now.at \notin PlanPoints \/ dropped'
    BY <1>3, <1>4
  <2>2. UNCHANGED planVars /\ (dropped => dropped')
    BY <1>1 DEF planVars
  <2>3. QED
    BY <1>2, <1>4, <2>1, <2>2, OthersKeepPlans DEF SubscriptionsInv
<1>6. Tables'
  BY <1>1 DEF SubscriptionsInv, SubInv, Tables, AccountsTypeOK, OfficesTypeOK
<1>7. \A x : ActiveSubs(x)' = ActiveSubs(x) /\ IsOffice(x)' = IsOffice(x)
  BY <1>1 DEF ActiveSubs, IsOffice
<1>8. Refs' /\ Single'
  BY <1>1, <1>7 DEF SubscriptionsInv, SubInv, Refs, Single, PaidSubs, HasRole, Exists, IsOffice, ActiveSubs
<1>9. Knows(Now)'
  BY <1>4 DEF Knows, SubPoints
<1>10. PaidRows'
  <2>1. ~dropped' => ~dropped /\ Now.at \notin {"sub_expire", "sub_insert"}
    BY <1>3 DEF Idle
  <2>2. QED
    BY <1>1, <1>7, <2>1 DEF SubscriptionsInv, SubInv, PaidRows
<1>11. OfficesFit'
  <2> SUFFICES ASSUME ~dropped', NEW o \in Accounts \ doubled PROVE Fits(o)'
    BY <1>1 DEF OfficesFit
  <2>1. ~dropped /\ ~Serving(o, {"sub_status"})
    BY <1>3 DEF Serving, Idle
  <2>2. StatusRight(o)
    BY <2>1 DEF SubscriptionsInv, SubInv, OfficesFit, Fits
  <2>3. StatusRight(o)'
    BY <1>1, <1>7, <2>2 DEF StatusRight
  <2>4. QED
    BY <1>1, <2>3 DEF Fits, KnownRight, ShownRight
<1>12. Bought' /\ Copies'
  BY <1>1, <1>3 DEF SubscriptionsInv, Bought, Copies, Idle
<1>13. QED
  BY <1>2, <1>5, <1>6, <1>8, <1>9, <1>10, <1>11, <1>12 DEF SubscriptionsInv, SubInv

LEMMA BackOfficeStart == ASSUME BackOfficeInit PROVE BackOfficeInv
<1>1. SubscribersInit /\ CouponsInit /\ RolesInit /\ RequestsInit(TRUE)
  BY DEF BackOfficeInit, SubscribersInit
<1>2. \E oneAtATime \in BOOLEAN : RequestsInit(oneAtATime)
  BY <1>1
<1>3. QED
  BY <1>1, <1>2, SubscriptionsStart, SettingsStart, RolesStart DEF BackOfficeInv

LEMMA BackOfficeStep ==
  ASSUME BackOfficeInv, [BackOfficeNext]_backOfficeVars PROVE BackOfficeInv'
<1> USE DEF BackOfficeInv
<1>1. OneRequest /\ CouponInv
  BY DEF SubscriptionsInv, SubInv, SettingInv
<1>2. ASSUME UNCHANGED <<reqVars, catalogVars>> PROVE SettingInv'
  BY <1>2, SettingStep
<1>3. ASSUME UNCHANGED <<reqVars, roleVars>> PROVE RoleInv'
  BY <1>3, RoleStep
<1>4. ASSUME UNCHANGED subscriptionVars PROVE SubscriptionsInv'
  BY <1>4, SubscriptionsStep
<1>5. CASE SubscriptionRequests /\ UNCHANGED <<catalogVars, roleVars>>
  <2>1. SubscriptionsInv'
    BY <1>5, SubscriptionsStep DEF SubscriptionsNext
  <2>2. Among(PlanPoints \union SubPoints)
    BY <1>5, SubscriptionTurns
  <2>3. /\ OneRequest' /\ dropped' = dropped /\ serial' = serial
        /\ Now.at \notin CouponPoints /\ Now'.at \notin CouponPoints /\ Now'.at \notin RolePoints
    BY <1>1, <2>2 DEF Among, PlanPoints, SubPoints, CouponPoints, RolePoints, OneRequest
  <2>4. UNCHANGED catalogVars /\ UNCHANGED roleVars
    BY <1>5
  <2>5. QED
    BY <1>1, <2>1, <2>3, <2>4, OthersKeepSettings, OthersKeepRoles
<1>6. CASE Meanwhile /\ UNCHANGED <<catalogVars, roleVars>>
  <2>1. SubscriptionsInv'
    BY <1>6, SubscriptionsStep DEF SubscriptionsNext
  <2>2. UNCHANGED reqVars
    BY <1>6 DEF Meanwhile, SubClock, SubAges, AtOnce, KeysLapse, SettleSub, StaffChanges
  <2>3. QED
    BY <1>2, <1>3, <1>6, <2>1, <2>2
<1>7. CASE CouponRequests /\ UNCHANGED <<accountVars, officeVars, planVars, subVars, roleVars>>
  <2>1. SettingInv'
    BY <1>7, SettingStep DEF CouponsNext
  <2>2. Among(CouponPoints)
    BY <1>1, <1>7, CouponTurns
  <2>3. CouponPoints \intersect (PlanPoints \union SubPoints) = {}
    BY DEF CouponPoints, PlanPoints, SubPoints
  <2>4. OneRequest' /\ serial' = serial /\ Now'.at \notin RolePoints
    BY <1>1, <2>2 DEF Among, CouponPoints, RolePoints, OneRequest
  <2>5. UNCHANGED <<accountVars, officeVars, planVars, subVars>> /\ UNCHANGED roleVars
    BY <1>7
  <2>6. QED
    BY <2>1, <2>2, <2>3, <2>4, <2>5, OthersKeepSubscriptions, OthersKeepRoles
<1>8. CASE /\ (\E c \in Coupons : WindowMoves(c)) \/ LoadCache
           /\ UNCHANGED <<accountVars, officeVars, planVars, subVars, roleVars>>
  <2>1. SettingInv'
    BY <1>8, SettingStep DEF CouponsNext
  <2>2. UNCHANGED reqVars
    BY <1>8 DEF WindowMoves, LoadCache
  <2>3. UNCHANGED subscriptionVars
    BY <1>8, <2>2 DEF subscriptionVars
  <2>4. QED
    BY <1>3, <1>4, <1>8, <2>1, <2>2, <2>3
<1>9. CASE RoleRequests /\ UNCHANGED <<accountVars, officeVars, planVars, subVars, catalogVars>>
  <2>1. RoleInv'
    BY <1>9, RoleStep DEF RolesNext
  <2>2. Among(RolePoints)
    BY <1>1, <1>9, RoleTurns
  <2>3. RolePoints \intersect (PlanPoints \union SubPoints) = {}
    BY DEF RolePoints, PlanPoints, SubPoints
  <2>4. OneRequest' /\ dropped' = dropped /\ Now.at \notin CouponPoints /\ Now'.at \notin CouponPoints
    BY <2>2 DEF Among, CouponPoints, RolePoints
  <2>5. UNCHANGED <<accountVars, officeVars, planVars, subVars>> /\ UNCHANGED catalogVars
    BY <1>9
  <2>6. QED
    BY <1>1, <2>1, <2>2, <2>3, <2>4, <2>5, OthersKeepSubscriptions, OthersKeepSettings
<1>10. ASSUME NEW h \in Handlers, Drop(h),
              UNCHANGED <<accountVars, officeVars, planVars, subVars, catalogVars, roleVars>>
       PROVE  BackOfficeInv'
  <2>1. SubscriptionsInv'
    BY <1>10, SubscriptionsStep DEF SubscriptionsNext
  <2>2. SettingInv'
    BY <1>10, SettingStep DEF CouponsNext
  <2>3. RoleInv'
    BY <1>10, RoleStep DEF RolesNext
  <2>4. QED
    BY <2>1, <2>2, <2>3
<1>11. CASE Reboot
  <2>1. SubscriptionsInv'
    BY <1>11, RebootKeepsSubscriptions
  <2>2. SettingInv'
    BY <1>11, SettingStep DEF CouponsNext, Reboot
  <2>3. req' = [h \in Handlers |-> Idle] /\ serial' = serial /\ UNCHANGED roleVars
    BY <1>11 DEF Reboot, Restart
  <2>4. OneRequest' /\ Now' = Idle
    BY <1>1, <2>3 DEF OneRequest, Now, Quiet
  <2>5. Now'.at \notin RolePoints
    BY <2>4 DEF Idle, RolePoints
  <2>6. QED
    BY <2>1, <2>2, <2>3, <2>4, <2>5, OthersKeepRoles
<1>12. CASE UNCHANGED backOfficeVars
  <2>1. /\ UNCHANGED subscriptionVars
        /\ UNCHANGED <<reqVars, catalogVars>> /\ UNCHANGED <<reqVars, roleVars>>
    BY <1>12 DEF backOfficeVars, subscriptionVars
  <2>2. QED
    BY <1>2, <1>3, <1>4, <2>1
<1>13. QED
  BY <1>5, <1>6, <1>7, <1>8, <1>9, <1>10, <1>11, <1>12 DEF BackOfficeNext

LEMMA BackOfficeInvariant == BackOfficeSpec => []BackOfficeInv
  BY BackOfficeStart, BackOfficeStep, PTL DEF BackOfficeSpec

\* Whatever requests of admins and offices follow each other and however often the process
\* is restarted, every table and cache of the back office stays in its type.
THEOREM BackOfficeTypes == BackOfficeSpec => []SubscriptionsAllTypeOK
<1>1. ASSUME BackOfficeInv PROVE SubscriptionsAllTypeOK
  BY <1>1 DEF BackOfficeInv, SubscriptionsInv, PlanInv, PlanTypes, SubInv, Tables, SubscriptionsTypeOK,
     StatusKey, SettingInv, CouponInv, RoleInv, RoleTables, SubscriptionsAllTypeOK
<1>2. QED
  BY <1>1, BackOfficeInvariant, PTL

\* Plans and roles are what an admin last asked for, whoever edits what in between
\* (updatePlan, updateAdminRole).
THEOREM EditsOfAdminsStand == BackOfficeSpec => []EditsStand
<1>1. ASSUME BackOfficeInv PROVE EditsStand
  BY <1>1, InvGivesPlans DEF BackOfficeInv, RoleInv, EditsStand
<1>2. QED
  BY <1>1, BackOfficeInvariant, PTL

\* What holds of subscriptions and of the settings alone holds of them together, though one
\* restart empties the caches of both.
THEOREM BackOfficeStands ==
  BackOfficeSpec => [](OneSubscription /\ PaidIsSubscribed /\ KeysTrue /\ CouponsSound /\ ServiceAsSet)
<1>1. ASSUME BackOfficeInv
      PROVE  OneSubscription /\ PaidIsSubscribed /\ KeysTrue /\ CouponsSound /\ ServiceAsSet
  BY <1>1, InvGivesOne, InvGivesPaid, InvGivesKeys, CouponsKept, SettingsKept DEF BackOfficeInv, SettingInv
<1>2. QED
  BY <1>1, BackOfficeInvariant, PTL
=============================================================================
