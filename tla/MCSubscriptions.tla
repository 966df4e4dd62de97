--------------------------- MODULE MCSubscriptions ---------------------------
(***************************************************************************)
(* One run explores plans, subscriptions with their payments, coupons,     *)
(* booking settings and roles, each with its own requests (focus).         *)
(***************************************************************************)
EXTENDS BackOffice

CONSTANTS a1, a2, m1, m2, p1, p2, n1, w1, g1, g2, k1, r1, c1, c2, d1, Foci

VARIABLE focus

officesAside == <<accountVars, officeVars>>
aside == <<officeVars, planVars, subVars>>
vars == <<backOfficeVars, focus>>

Row(e, p) ==
  [NewAccount("OFFICE", e, p, w1) EXCEPT !.status = "ACTIVE", !.verified = TRUE]

\* An active office and its employee.
Init ==
  /\ focus \in Foci
  /\ RequestsInit(TRUE)
  /\ account = [a \in Accounts |-> IF a = a1 THEN Row(m1, p1) ELSE Row(m2, p2)]
  /\ asked = [a \in Accounts |-> Asked(account[a])]
  /\ proved = [a \in Accounts |-> "code"]
  /\ office = [o \in Accounts |-> IF o = a1 THEN NewOffice(n1) ELSE None]
  /\ employee = [e \in Employees |-> [office |-> a1, account |-> a2, isActive |-> TRUE]]
  /\ details = [a \in Accounts |-> None]
  /\ edited = {}
  /\ cleared = Accounts
  /\ letIn = Accounts
  /\ feature = {}
  /\ wanted = [p \in Plans |-> IF focus = "plans" \/ p = g1 THEN {} ELSE Features]
  /\ plan = [p \in Plans |-> IF focus = "plans" THEN None
                             ELSE [price |-> IF p = g1 THEN 1 ELSE 2, features |-> wanted[p]]]
  /\ SubscriptionsInit
  /\ CouponsInit
  /\ RolesInit

PlansRequest ==
  \E h \in Handlers :
    \/ \E p \in Plans, price \in Prices, f \in SUBSET Features :
         CreatePlan(h, p, price, f) \/ UpdatePlan(h, p, price, f)
    \/ PlansStep(h)

\* The bound on edits of a plan that offices have: it loses a feature or gets it back.
Editions == {{k1}, Features}

EditRequest ==
  \E h \in Handlers : (\E f \in Editions : UpdatePlan(h, g2, 2, f)) \/ PlansStep(h)

SubscribersRequest ==
  \/ \E h \in Handlers :
       \/ CancelRead(h, a1)
       \/ \E a \in Accounts : CheckRead(h, a)
       \/ ShowRead(h, a1)
       \/ \E i \in SubPayments :
            \/ \E a \in Accounts : InitiateSubPayment(h, i, a, g2)
            \/ \E webhook \in BOOLEAN : SubNotified(h, i, webhook)
       \/ SubStep(h)
  \/ \E s \in Subs : SubAges(s)
  \/ \E o \in Accounts : KeysLapse(o)
  \/ \E i \in SubPayments, outcome \in {"CAPTURED", "DECLINED"} : SettleSub(i, outcome)

ReviewRequest ==
  \/ \E h \in Handlers : ApproveRegistration(h, a1) /\ UNCHANGED subVars
  \/ DeleteOffice(a1) /\ DropSubscriptions(a1)

Gift == [code |-> d1, target |-> "OFFICE", kind |-> "FIXED", value |-> 50, window |-> "open",
         status |-> "ACTIVE"]

CouponsRequest ==
  \E h \in Handlers :
    \/ CreateCouponRead(h, c2, Gift)
    \/ \E k \in {"PERCENTAGE", "FIXED"}, v \in Discounts, t \in {"USER", "OFFICE"},
          s \in {"ACTIVE", "INACTIVE"}, w \in {"early", "open"}, d \in Codes :
         LET row == [code |-> d, target |-> t, kind |-> k, value |-> v, window |-> w, status |-> s]
         IN \/ s = "ACTIVE" /\ CreateCouponRead(h, c1, row)
            \/ UpdateCouponRead(h, c1, row)
    \/ \E c \in Coupons : RemoveCouponRead(h, c) \/ WindowMoves(c)
    \/ CreateCoupon(h) \/ SaveCoupon(h)

ServicesRequest ==
  \E h \in Handlers :
    \/ \E t \in Services, on \in BOOLEAN : booted /\ UpsertRead(h, t, on)
    \/ SaveSetting(h)
    \/ CacheSetting(h)

RolesRequest ==
  \E h \in Handlers :
    \/ \E r \in RoleIds, n \in RoleNames : CreateRoleRead(h, r, n, [s \in Sections |-> FALSE])
    \/ \E n \in RoleNames, active \in BOOLEAN :
         \/ UpdateRoleRead(h, r1, n, None, active)
         \/ \E s \in Sections, on \in BOOLEAN : UpdateRoleRead(h, r1, n, [t \in {s} |-> on], active)
    \/ \E r \in RoleIds : DeleteRole(r)
    \/ \E r \in OfficeRoles : AssignRoleRead(h, a2, r)
    \/ RemoveRole(a2)
    \/ RolesStep(h)

Next ==
  /\ UNCHANGED focus
  /\ \/ focus = "plans" /\ PlansRequest /\ UNCHANGED <<officesAside, subVars, catalogVars, roleVars>>
     \/ /\ focus = "subscribers"
        /\ booted
        /\ \/ SubscribersRequest /\ UNCHANGED officeVars
           \/ ReviewRequest
        /\ UNCHANGED <<planVars, catalogVars, roleVars>>
     \/ /\ focus = "editions"
        /\ \/ SubscribersRequest /\ UNCHANGED <<officeVars, planVars>>
           \/ EditRequest /\ UNCHANGED <<officesAside, subVars>>
        /\ UNCHANGED <<catalogVars, roleVars>>
     \/ /\ \/ focus = "coupons" /\ CouponsRequest
           \/ focus = "services" /\ ServicesRequest
           \/ LoadCache
        /\ UNCHANGED <<aside, roleVars>>
     \/ focus \in {"services", "subscribers"} /\ Reboot
     \/ focus = "roles" /\ RolesRequest /\ UNCHANGED <<aside, catalogVars>>
     \/ \E h \in Handlers : Drop(h) /\ UNCHANGED <<officesAside, planVars, subVars, catalogVars, roleVars>>

Spec == Init /\ [][Next]_vars
=============================================================================
