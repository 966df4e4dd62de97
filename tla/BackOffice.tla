------------------------------ MODULE BackOffice ------------------------------
(***************************************************************************)
(* What admins set up and offices live by, in one process: plans and       *)
(* subscriptions, coupons, booking settings and roles. Their requests come *)
(* one at a time, in any order, on the same handlers and accounts, and the *)
(* process may be restarted, which empties every cache it holds in memory. *)
(***************************************************************************)
EXTENDS Subscriptions, Coupons, Roles

backOfficeVars == <<subscriptionVars, catalogVars, roleVars>>

BackOfficeInit == SubscribersInit /\ CouponsInit /\ RolesInit

\* The caches of the modules office and subscription (CacheModule.register without a store)
\* are lost with the process, and so is the copy of the settings.
Reboot ==
  /\ Restart
  /\ known' = [o \in Accounts |-> None]
  /\ shown' = [o \in Accounts |-> None]
  /\ details' = [o \in Accounts |-> None]
  /\ UNCHANGED <<office, employee, edited, cleared, letIn, planVars, sub, doubled, pay, roleVars>>

\* Nothing is served before the settings are loaded.
BackOfficeNext ==
  \/ booted /\ SubscriptionRequests /\ UNCHANGED <<catalogVars, roleVars>>
  \/ Meanwhile /\ UNCHANGED <<catalogVars, roleVars>>
  \/ /\ CouponRequests \/ (\E c \in Coupons : WindowMoves(c)) \/ LoadCache
     /\ UNCHANGED <<accountVars, officeVars, planVars, subVars, roleVars>>
  \/ booted /\ RoleRequests /\ UNCHANGED <<accountVars, officeVars, planVars, subVars, catalogVars>>
  \/ \E h \in Handlers :
       Drop(h) /\ UNCHANGED <<accountVars, officeVars, planVars, subVars, catalogVars, roleVars>>
  \/ Reboot

BackOfficeSpec == BackOfficeInit /\ [][BackOfficeNext]_backOfficeVars

(***************************************************************************)
(* Properties                                                              *)
(***************************************************************************)

\* Every table and cache of the back office stays in its type (the columns of plans,
\* subscriptions, payments, coupons, settings and roles), whatever the others do.
SubscriptionsAllTypeOK ==
  AccountsTypeOK /\ OfficesTypeOK /\ SubscriptionsTypeOK /\ CouponsTypeOK /\ RolesTypeOK

\* What an admin sent last stands: the features of a plan (updatePlan), written piece by
\* piece, and the permissions of a role (updateAdminRole), of which the sections that were
\* not sent are off (PermissionsAsSent says why that is not what the code means to do).
EditsStand == PlanAsWanted /\ PermissionsAsSent
=============================================================================
