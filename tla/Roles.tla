-------------------------------- MODULE Roles --------------------------------
(***************************************************************************)
(* The two tables of roles (src/module/role): admin roles, which admin     *)
(* employees are created with, and office roles, which are assigned and    *)
(* removed. RoleService runs the same statements on both.                  *)
(***************************************************************************)
EXTENDS Accounts

CONSTANTS OfficeRoles,  \* ids of office_roles
          RoleNames,
          Sections  \* the sections of a permissions object

VARIABLES role,     \* the rows of both tables
          assigned, \* the office role of each account
          granted   \* history: the permissions of the last request on a role that sent any

roleVars == <<role, assigned, granted>>

RoleIds == AdminRoles \union OfficeRoles
TableOf(r) == IF r \in AdminRoles THEN AdminRoles ELSE OfficeRoles

\* Whether each section is enabled; the rest of a section goes with it.
Permissions == [Sections -> BOOLEAN]
Role == [name : RoleNames, permissions : Permissions, isActive : BOOLEAN]

RolesTypeOK ==
  /\ role \in [RoleIds -> Role \union {None}]
  /\ assigned \in [Accounts -> OfficeRoles \union {None}]

RolesInit ==
  /\ role = [r \in RoleIds |-> None]
  /\ assigned = [a \in Accounts |-> None]
  /\ granted = [r \in RoleIds |-> [s \in Sections |-> FALSE]]

IsActiveRole(r) == role[r] # None /\ role[r].isActive
NameTaken(name, table) == \E r \in table : role[r] # None /\ role[r].name = name

CreateRoleRead(h, r, name, p) ==
  /\ role[r] = None
  /\ ~NameTaken(name, TableOf(r))
  /\ Begin(h, [at |-> "create_role", role |-> r,
               row |-> [name |-> name, permissions |-> p, isActive |-> TRUE]])
  /\ UNCHANGED <<accountVars, roleVars>>

\* The unique index on the name is the last word.
CreateRole(h) ==
  LET r == req[h].role  row == req[h].row IN
  /\ At(h, "create_role")
  /\ IF NameTaken(row.name, TableOf(r)) \/ role[r] # None THEN UNCHANGED roleVars
     ELSE /\ role' = [role EXCEPT ![r] = row]
          /\ granted' = [granted EXCEPT ![r] = row.permissions]
  /\ Done(h)
  /\ UNCHANGED <<accountVars, assigned>>

\* The object a request becomes has every section as a property of its own, undefined when
\* it was not sent; jsonb leaves those out, which is not enabled.
Whole(new) == [s \in Sections |-> s \in DOMAIN new /\ new[s]]

\* Mutant: a request without permissions clears them.
MergedAlways(old, new) == [s \in Sections |-> IF new = None THEN FALSE ELSE Whole(new)[s]]

\* Mutant: what is sent is stored as it came.
SentOnly(old, new) == IF new = None THEN old ELSE new

\* { ...role.permissions, ...dto.permissions } when permissions are sent: every section of
\* the old ones is written over.
Merged(old, new) == IF new = None THEN old ELSE Whole(new)

\* new: the sections that are sent, or None without permissions; name and active: the name
\* and isActive that are sent
UpdateRoleRead(h, r, name, new, active) ==
  /\ role[r] # None
  /\ Begin(h, [at |-> "update_role", role |-> r, new |-> new,
               row |-> [name |-> name, permissions |-> Merged(role[r].permissions, new),
                        isActive |-> active]])
  /\ UNCHANGED <<accountVars, roleVars>>

\* The row is saved as it was read but for what was sent.
UpdateRole(h) ==
  LET r == req[h].role  row == req[h].row IN
  /\ At(h, "update_role")
  /\ IF row.name # role[r].name /\ NameTaken(row.name, TableOf(r)) THEN UNCHANGED <<role, granted>>
     ELSE /\ role' = [role EXCEPT ![r] = row]
          /\ granted' = [granted EXCEPT ![r] = IF req[h].new = None THEN @ ELSE Whole(req[h].new)]
  /\ Done(h)
  /\ UNCHANGED <<accountVars, assigned>>

\* A role is deactivated, never deleted.
DeleteRole(r) ==
  /\ IsActiveRole(r)
  /\ role' = [role EXCEPT ![r].isActive = FALSE]
  /\ AtOnce
  /\ UNCHANGED <<accountVars, assigned, granted>>

AssignRoleRead(h, a, r) ==
  /\ Exists(a)
  /\ IsActiveRole(r)
  /\ Begin(h, [at |-> "assign_role", who |-> a, role |-> r])
  /\ UNCHANGED <<accountVars, roleVars>>

SetAssigned(a, r) == assigned' = [assigned EXCEPT ![a] = r] /\ UNCHANGED <<accountVars, role, granted>>

AssignRole(h) ==
  /\ At(h, "assign_role")
  /\ SetAssigned(req[h].who, req[h].role)
  /\ Done(h)

RemoveRole(a) == Exists(a) /\ SetAssigned(a, None) /\ AtOnce

RolesStep(h) == CreateRole(h) \/ UpdateRole(h) \/ AssignRole(h)

\* All requests on roles, each cut at most once; what becomes of the accounts meanwhile is
\* left open.
RoleRequests ==
  \/ \E h \in Handlers :
       \/ \E r \in RoleIds, n \in RoleNames :
            \/ \E p \in Permissions : CreateRoleRead(h, r, n, p)
            \/ \E sent \in SUBSET Sections, active \in BOOLEAN :
                 \E new \in [sent -> BOOLEAN] \union {None} : UpdateRoleRead(h, r, n, new, active)
       \/ \E a \in Accounts, r \in OfficeRoles : AssignRoleRead(h, a, r)
       \/ RolesStep(h)
  \/ \E r \in RoleIds : DeleteRole(r)
  \/ \E a \in Accounts : RemoveRole(a)

RolesNext == RoleRequests \/ \E h \in Handlers : Drop(h) /\ UNCHANGED roleVars

RolesSpec ==
  /\ RolesInit
  /\ \E oneAtATime \in BOOLEAN : RequestsInit(oneAtATime)
  /\ [][RolesNext]_<<reqVars, roleVars>>

(***************************************************************************)
(* Properties                                                              *)
(***************************************************************************)

\* The permissions of a role are those of the last request that sent any (createAdminRole,
\* updateAdminRole and their siblings): a request that only renames a role or turns it on or
\* off leaves them alone. The sections such a request left out are off, though the spread of
\* the old permissions (role.service.ts:69 and :136) was put there to keep them.
PermissionsAsSent ==
  serial => \A r \in RoleIds : role[r] # None => role[r].permissions = granted[r]
=============================================================================
