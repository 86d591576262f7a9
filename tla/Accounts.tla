------------------------------- MODULE Accounts -------------------------------
(***************************************************************************)
(* Accounts, their moderation, roles and limits (app/services/users.py,    *)
(* app/services/roles.py, app/services/permissions.py,                     *)
(* app/services/admin.py).                                                 *)
(*                                                                         *)
(* A request reads what it decides on (an action Ask...), and commits      *)
(* later (the action of its name), without any lock in between.  A refused *)
(* request changes nothing and is not modelled.  What is committed is what *)
(* the session believes to change: a column is written only if it differs  *)
(* from what was read, a row is inserted if the constraints allow it now,  *)
(* and deleting a row that is gone already deletes nothing.                *)
(*                                                                         *)
(* What a ban or a deletion does to bookings, waiting entries and move     *)
(* requests is in modules Bookings and MoveRequests.                       *)
(***************************************************************************)
EXTENDS Naturals, FiniteSets

CONSTANTS
  Procs,             \* concurrent requests
  Users,
  Initial,           \* settings.initial_admin_ids
  Groups,
  RoleIds,           \* bound: ids of ordinary roles
  Admin,             \* the system role
  AssignmentIds,     \* bound: roles ever given to somebody
  Permissions,       \* the catalog
  GroupPermissions,  \* those that can be held for one group
  RoleNames,         \* pairs of a word and a spelling of it
  PermissionChoices, \* sets of permissions that a role may be given
  LimitChoices,      \* lengths for the daily and the weekly limit
  Clubs,             \* what the tables may hold when an instance begins
  MaxRequests,       \* bound on requests
  None

VARIABLES
  users,     \* status, group, whether the profile is complete, whether a
             \* rejected user has to wait before applying again
  roles,     \* ordinary roles and the system role
  given,     \* role assignments
  limits,    \* weekly and daily limit
  requests,  \* number of requests so far
  pc,        \* what every process is in the middle of, or "idle"
  job,       \* who asked, about what, and what was read
  alone      \* whether nothing was committed since a process has read

tables == <<users, roles, given, limits>>
accountVars == <<tables, requests, pc, job, alone>>

Roles == RoleIds \cup {Admin}
Statuses == {"absent", "pending", "approved", "rejected", "banned", "deleted"}

User == [status : Statuses, group : Groups \cup {None}, complete : BOOLEAN, cooling : BOOLEAN]
Role == [state : {"unused", "live", "gone"}, name : RoleNames \cup {None}, holds : SUBSET Permissions]
Assignment ==
  [state : {"unused", "held", "gone"}, user : Users \cup {None},
   role : Roles \cup {None}, group : Groups \cup {None}]

Blank == [status |-> "absent", group |-> None, complete |-> FALSE, cooling |-> FALSE]
GoneRole == [state |-> "gone", name |-> None, holds |-> {}]
GoneAssignment == [state |-> "gone", user |-> None, role |-> None, group |-> None]
NoJob == [actor |-> None, target |-> None, item |-> None, what |-> None, seen |-> None]

\* The system role is not an ordinary one, and the tables an instance finds
\* are typed and refer to what exists.
ASSUME AccountsAssumption ==
  /\ Initial \subseteq Users /\ Admin \notin RoleIds
  /\ None \notin Users /\ None \notin Roles
  /\ PermissionChoices \subseteq SUBSET Permissions /\ LimitChoices \subseteq Nat
  /\ \A c \in Clubs :
       /\ c.users \in [Users -> User] /\ c.roles \in [Roles -> Role]
       /\ c.given \in [AssignmentIds -> Assignment] /\ c.limits \in [weekly : Nat, daily : Nat]
       /\ c.roles[Admin].state = "live"
       /\ \A q, r \in Roles :
            c.roles[q].state = "live" /\ c.roles[r].state = "live" /\ q # r
              => c.roles[q].name # c.roles[r].name
       /\ \A x \in AssignmentIds :
            c.given[x].state = "held"
              => /\ c.given[x].role \in Roles /\ c.roles[c.given[x].role].state = "live"
                 /\ c.given[x].user \in Users /\ c.users[c.given[x].user].status # "absent"

AccountsTyped ==
  /\ users \in [Users -> User]
  /\ roles \in [Roles -> Role]
  /\ given \in [AssignmentIds -> Assignment]
  /\ limits \in [weekly : Nat, daily : Nat]

-----------------------------------------------------------------------------
(* What the tables say *)

Registered == {u \in Users : users[u].status # "absent"}
LiveRoles == {r \in Roles : roles[r].state = "live"}
HeldIds == {x \in AssignmentIds : given[x].state = "held"}

Row(u, r, g) == [state |-> "held", user |-> u, role |-> r, group |-> g]
Holds(u, r, g) == \E x \in AssignmentIds : given[x] = Row(u, r, g)

HasAnyRole(u) == \E x \in HeldIds : given[x].user = u

PermissionsOf(r) == IF r = Admin THEN Permissions ELSE roles[r].holds

HasPermission(u, perm, g) ==
  /\ users[u].status = "approved"
  /\ \E x \in HeldIds :
       /\ given[x].user = u
       /\ perm \in PermissionsOf(given[x].role)
       /\ \/ given[x].group = None
          \/ perm \in GroupPermissions /\ g # None /\ given[x].group = g

HoldsAdmin(u) == users[u].status = "approved" /\ Holds(u, Admin, None)

\* Names are compared without regard to case by the code, and with regard
\* to it by the unique constraint.
Alike(m, n) == m[1] = n[1]

-----------------------------------------------------------------------------
(* The course of a request *)

\* The bound on requests is in the second conjunct.
MayAsk(p) == pc[p] = "idle" /\ requests < MaxRequests

Ask(p, op, j) ==
  /\ requests' = requests + 1
  /\ pc' = [pc EXCEPT ![p] = op]
  /\ job' = [job EXCEPT ![p] = j]
  /\ UNCHANGED <<tables, alone>>

About(a, t) == [NoJob EXCEPT !.actor = a, !.target = t, !.seen = users[t]]

Ends(p) ==
  /\ pc' = [pc EXCEPT ![p] = "idle"]
  /\ job' = [job EXCEPT ![p] = NoJob]
  /\ UNCHANGED requests

Commits(p) == Ends(p) /\ alone' = [q \in Procs |-> q = p \/ pc[q] = "idle"]

\* An error of the database: nothing is stored.
Aborts(p) == Ends(p) /\ alone' = [alone EXCEPT ![p] = TRUE] /\ UNCHANGED tables

\* The row as it is stored by a session that read one and made another of it.
Written(stored, seen, new) ==
  [status   |-> IF new.status = seen.status THEN stored.status ELSE new.status,
   group    |-> IF new.group = seen.group THEN stored.group ELSE new.group,
   complete |-> IF new.complete = seen.complete THEN stored.complete ELSE new.complete,
   cooling  |-> IF new.cooling = seen.cooling THEN stored.cooling ELSE new.cooling]

Save(p, new) ==
  users' = [users EXCEPT ![job[p].target] = Written(users[job[p].target], job[p].seen, new)]

Stripped(u) ==
  [x \in AssignmentIds |-> IF given[x].state = "held" /\ given[x].user = u THEN GoneAssignment ELSE given[x]]

UnusedIds == {x \in AssignmentIds : given[x].state = "unused"}

\* The bound on assignments is in the first conjunct.
Give(u, r, g) ==
  /\ UnusedIds # {}
  /\ given' = [given EXCEPT ![CHOOSE x \in UnusedIds : TRUE] = Row(u, r, g)]

-----------------------------------------------------------------------------
(* The program starts: the initial administrators are approved and given   *)
(* the system role; requests in flight are lost.                           *)

SeededUsers(us) ==
  [u \in Users |->
     IF u \in Initial /\ us[u].status # "absent" THEN [us[u] EXCEPT !.status = "approved"] ELSE us[u]]

Lacking(us, gs) ==
  {u \in Initial : us[u].status # "absent" /\ \A x \in AssignmentIds : gs[x] # Row(u, Admin, None)}

\* A free id for everybody who lacks the role.
FreeIds(us, gs) ==
  {id \in [Lacking(us, gs) -> {x \in AssignmentIds : gs[x].state = "unused"}] :
     \A u, v \in Lacking(us, gs) : id[u] = id[v] => u = v}

SeededGiven(us, gs, id) ==
  [x \in AssignmentIds |->
     IF \E u \in Lacking(us, gs) : id[u] = x
     THEN Row(CHOOSE u \in Lacking(us, gs) : id[u] = x, Admin, None) ELSE gs[x]]

AllIdle == [p \in Procs |-> "idle"]
NoJobs == [p \in Procs |-> NoJob]
AllAlone == [p \in Procs |-> TRUE]

AccountsStart(c) ==
  /\ users = SeededUsers(c.users)
  /\ \E id \in FreeIds(c.users, c.given) : given = SeededGiven(c.users, c.given, id)
  /\ roles = c.roles
  /\ limits = c.limits
  /\ requests = 0
  /\ pc = AllIdle /\ job = NoJobs /\ alone = AllAlone

AccountsInit == \E c \in Clubs : AccountsStart(c)

Restart ==
  /\ \E p \in Procs : pc[p] # "idle"
  /\ users' = SeededUsers(users)
  /\ \E id \in FreeIds(users, given) : given' = SeededGiven(users, given, id)
  /\ pc' = AllIdle /\ job' = NoJobs /\ alone' = AllAlone
  /\ UNCHANGED <<roles, limits, requests>>

-----------------------------------------------------------------------------
(* Registration: /start, the profile, a second application                 *)

AskToStart(p) ==
  \E u \in Users : Ask(p, "start", [About(u, u) EXCEPT !.what = [held |-> Holds(u, Admin, None)]])

Entered(u, seen) ==
  IF u \in Initial THEN [seen EXCEPT !.status = "approved"]
  ELSE CASE seen.status = "absent"  -> [seen EXCEPT !.status = "pending"]
         [] seen.status = "deleted" -> [Blank EXCEPT !.status = "pending"]
         [] OTHER                   -> seen

Start(p) ==
  LET u == job[p].target
      seen == job[p].seen
  IN  /\ pc[p] = "start"
      /\ IF seen.status = "absent" /\ users[u].status # "absent" THEN Aborts(p)
         ELSE /\ Save(p, Entered(u, seen))
              /\ IF u \in Initial /\ ~job[p].what.held THEN Give(u, Admin, None)
                 ELSE given' = IF u \notin Initial /\ seen.status = "deleted" THEN Stripped(u) ELSE given
              /\ Commits(p)
              /\ UNCHANGED <<roles, limits>>

AskToUpdateProfile(p) ==
  \E u \in Registered, g \in Groups \cup {None}, filled \in BOOLEAN :
    /\ g # None \/ filled
    /\ g # None /\ users[u].status = "approved" => users[u].group \in {None, g}
    /\ Ask(p, "profile", [About(u, u) EXCEPT !.what = [group |-> g, filled |-> filled]])

UpdateProfile(p) ==
  LET asked == job[p].what
  IN  /\ pc[p] = "profile"
      /\ Save(p, [job[p].seen EXCEPT !.group = IF asked.group = None THEN @ ELSE asked.group,
                                     !.complete = @ \/ asked.filled])
      /\ Commits(p)
      /\ UNCHANGED <<roles, given, limits>>

AskToResubmit(p) ==
  \E u \in Registered :
    /\ users[u].status \notin {"banned", "approved"}
    /\ users[u].complete
    /\ ~(users[u].status = "rejected" /\ users[u].cooling)
    /\ Ask(p, "resubmit", About(u, u))

Resubmit(p) ==
  /\ pc[p] = "resubmit"
  /\ Save(p, [job[p].seen EXCEPT !.status = "pending", !.cooling = FALSE])
  /\ Commits(p)
  /\ UNCHANGED <<roles, given, limits>>

\* The time after which a rejected user may apply again has come.
CoolDown ==
  \E u \in Users :
    /\ users[u].cooling
    /\ users' = [users EXCEPT ![u].cooling = FALSE]
    /\ UNCHANGED <<roles, given, limits, requests, pc, job, alone>>

-----------------------------------------------------------------------------
(* Moderation                                                              *)

\* Mistake: whoever holds a role is moderated like anybody else.
MayModerateAnybody(a, t) == HasPermission(a, "users.moderate", users[t].group)

MayModerate(a, t) ==
  IF HasAnyRole(t) THEN HoldsAdmin(a) ELSE HasPermission(a, "users.moderate", users[t].group)

\* Mistake: nobody is protected from a moderator.
AskToModerateInitial(p) ==
  \E a, t \in Registered, op \in {"approve", "reject", "ban", "delete"} :
    /\ MayModerate(a, t)
    /\ op # "ban" /\ users[t].status \in {"banned", "deleted"} => HoldsAdmin(a)
    /\ Ask(p, op, About(a, t))

AskToModerate(p) ==
  \E a, t \in Registered, op \in {"approve", "reject", "ban", "delete"} :
    /\ MayModerate(a, t)
    /\ op # "approve" => t # a /\ t \notin Initial
    /\ op # "ban" /\ users[t].status \in {"banned", "deleted"} => HoldsAdmin(a)
    /\ Ask(p, op, About(a, t))

Approve(p) ==
  /\ pc[p] = "approve"
  /\ Save(p, [job[p].seen EXCEPT !.status = "approved", !.cooling = FALSE])
  /\ Commits(p)
  /\ UNCHANGED <<roles, given, limits>>

\* The new date to wait for is always written.
Reject(p) ==
  LET t == job[p].target
      stored == Written(users[t], job[p].seen, [job[p].seen EXCEPT !.status = "rejected"])
  IN  /\ pc[p] = "reject"
      /\ users' = [users EXCEPT ![t] = [stored EXCEPT !.cooling = TRUE]]
      /\ Commits(p)
      /\ UNCHANGED <<roles, given, limits>>

Ban(p) ==
  /\ pc[p] = "ban"
  /\ Save(p, [job[p].seen EXCEPT !.status = "banned", !.cooling = FALSE])
  /\ given' = Stripped(job[p].target)
  /\ Commits(p)
  /\ UNCHANGED <<roles, limits>>

SoftDelete(p) ==
  /\ pc[p] = "delete"
  /\ Save(p, [job[p].seen EXCEPT !.status = "deleted", !.complete = FALSE, !.cooling = FALSE])
  /\ given' = Stripped(job[p].target)
  /\ Commits(p)
  /\ UNCHANGED <<roles, limits>>

-----------------------------------------------------------------------------
(* Roles                                                                   *)

MayManageRoles(a) == HasPermission(a, "roles.manage", None)

\* The request of somebody about a row that is not a user.
Touch(a, item, what, seen) == [actor |-> a, target |-> None, item |-> item, what |-> what, seen |-> seen]

NameFree(name, own) == \A r \in LiveRoles \ {own} : ~Alike(roles[r].name, name)
NameStored(name, own) == \E r \in LiveRoles \ {own} : roles[r].name = name

AskToCreateRole(p) ==
  \E a \in Registered, name \in RoleNames, keys \in PermissionChoices :
    /\ MayManageRoles(a)
    /\ NameFree(name, None)
    /\ Ask(p, "new role", Touch(a, None, [name |-> name, keys |-> keys], None))

\* The bound on roles is in the first conjunct of the second disjunct.
CreateRole(p) ==
  LET asked == job[p].what
      fresh == {r \in RoleIds : roles[r].state = "unused"}
  IN  /\ pc[p] = "new role"
      /\ \/ NameStored(asked.name, None) /\ Aborts(p)
         \/ /\ fresh # {} /\ ~NameStored(asked.name, None)
            /\ roles' = [roles EXCEPT ![CHOOSE r \in fresh : TRUE] =
                           [state |-> "live", name |-> asked.name, holds |-> asked.keys]]
            /\ Commits(p)
            /\ UNCHANGED <<users, given, limits>>

AskToUpdateRole(p) ==
  \E a \in Registered, r \in LiveRoles \ {Admin},
     name \in RoleNames \cup {None}, keys \in PermissionChoices \cup {None} :
    /\ MayManageRoles(a)
    /\ name # None \/ keys # None
    /\ name # None => NameFree(name, r)
    /\ Ask(p, "change role", Touch(a, r, [name |-> name, keys |-> keys], roles[r]))

\* Only the difference to what was read is written; a key that was added
\* meanwhile, a name that was taken, a role that is gone end in an error.
UpdateRole(p) ==
  LET r == job[p].item
      asked == job[p].what
      seen == job[p].seen
      renamed == asked.name \notin {None, seen.name}
      added == IF asked.keys = None THEN {} ELSE asked.keys \ seen.holds
      removed == IF asked.keys = None THEN {} ELSE seen.holds \ asked.keys
      refused == \/ roles[r].state = "gone" /\ (renamed \/ added # {})
                 \/ renamed /\ NameStored(asked.name, r)
                 \/ added \cap roles[r].holds # {}
  IN  /\ pc[p] = "change role"
      /\ IF refused THEN Aborts(p)
         ELSE /\ roles' = [roles EXCEPT ![r].name = IF renamed THEN asked.name ELSE @,
                                        ![r].holds = (@ \ removed) \cup added]
              /\ Commits(p)
              /\ UNCHANGED <<users, given, limits>>

AskToDeleteRole(p) ==
  \E a \in Registered, r \in LiveRoles \ {Admin} :
    MayManageRoles(a) /\ Ask(p, "delete role", Touch(a, r, None, None))

DeleteRole(p) ==
  LET r == job[p].item
  IN  /\ pc[p] = "delete role"
      /\ roles' = [roles EXCEPT ![r] = GoneRole]
      /\ given' = [x \in AssignmentIds |-> IF given[x].role = r THEN GoneAssignment ELSE given[x]]
      /\ Commits(p)
      /\ UNCHANGED <<users, limits>>

AskToAssign(p) ==
  \E a, t \in Registered, r \in LiveRoles, g \in Groups \cup {None} :
    /\ MayManageRoles(a)
    /\ r = Admin => HoldsAdmin(a) /\ g = None
    /\ users[t].status = "approved"
    /\ ~Holds(t, r, g)
    /\ Ask(p, "assign", [About(a, t) EXCEPT !.item = r, !.what = g])

Assign(p) ==
  /\ pc[p] = "assign"
  /\ IF job[p].item \notin LiveRoles THEN Aborts(p)
     ELSE /\ Give(job[p].target, job[p].item, job[p].what)
          /\ Commits(p)
          /\ UNCHANGED <<users, roles, limits>>

AskToRevoke(p) ==
  \E a \in Registered, x \in HeldIds :
    /\ MayManageRoles(a)
    /\ given[x].role = Admin => HoldsAdmin(a) /\ given[x].user # a /\ given[x].user \notin Initial
    /\ Ask(p, "revoke", Touch(a, x, None, None))

Revoke(p) ==
  /\ pc[p] = "revoke"
  /\ given' = [given EXCEPT ![job[p].item] = GoneAssignment]
  /\ Commits(p)
  /\ UNCHANGED <<users, roles, limits>>

-----------------------------------------------------------------------------
(* The limits of the club: a day may not be longer than a week; 0 switches *)
(* the daily limit off.                                                    *)

Or(value, default) == IF value = None THEN default ELSE value

AskToSetLimits(p) ==
  \E a \in Registered, weekly \in LimitChoices \cup {None}, daily \in LimitChoices \cup {0, None} :
    /\ HasPermission(a, "settings.manage", None)
    /\ Or(daily, limits.daily) <= Or(weekly, limits.weekly)
    /\ Ask(p, "limits", Touch(a, None, [weekly |-> weekly, daily |-> daily], limits))

SetLimits(p) ==
  LET asked == job[p].what
      seen == job[p].seen
      Changed(new, old, stored) == IF new \in {None, old} THEN stored ELSE new
  IN  /\ pc[p] = "limits"
      /\ limits' = [weekly |-> Changed(asked.weekly, seen.weekly, limits.weekly),
                    daily  |-> Changed(asked.daily, seen.daily, limits.daily)]
      /\ Commits(p)
      /\ UNCHANGED <<users, roles, given>>

-----------------------------------------------------------------------------
AsksAboutAccounts(p) ==
  /\ MayAsk(p)
  /\ \/ AskToStart(p) \/ AskToUpdateProfile(p) \/ AskToResubmit(p)
     \/ AskToModerate(p)
     \/ AskToCreateRole(p) \/ AskToUpdateRole(p) \/ AskToDeleteRole(p)
     \/ AskToAssign(p) \/ AskToRevoke(p)
     \/ AskToSetLimits(p)

ChangesAccounts(p) ==
  \/ Start(p) \/ UpdateProfile(p) \/ Resubmit(p)
  \/ Approve(p) \/ Reject(p) \/ Ban(p) \/ SoftDelete(p)
  \/ CreateRole(p) \/ UpdateRole(p) \/ DeleteRole(p)
  \/ Assign(p) \/ Revoke(p)
  \/ SetLimits(p)

AccountsNext ==
  \/ \E p \in Procs : AsksAboutAccounts(p) \/ ChangesAccounts(p)
  \/ CoolDown \/ Restart

AccountsSpec == AccountsInit /\ [][AccountsNext]_accountVars

-----------------------------------------------------------------------------
(* Properties                                                              *)

Administrators == {u \in Users : HoldsAdmin(u)}

\* Whatever happens at once, an initial administrator who has registered is
\* approved and holds the system role.
InitialAdminsKeepRole == Initial \cap Registered \subseteq Administrators

\* Whatever happens at once, the system role exists, nobody holds a role that
\* does not exist, and no two roles have one name.
RolesExist ==
  /\ Admin \in LiveRoles
  /\ \A x \in HeldIds : given[x].role \in LiveRoles /\ given[x].user \in Registered
  /\ \A q, r \in LiveRoles : q # r => roles[q].name # roles[r].name

AssignedOnce == \A x, y \in HeldIds : given[x] = given[y] => x = y
NamesDiffer == \A q, r \in LiveRoles : Alike(roles[q].name, roles[r].name) => q = r
DayWithinWeek == limits.daily <= limits.weekly
BannedHoldNoRole == \A x \in HeldIds : users[given[x].user].status \notin {"banned", "deleted"}

AccountRules ==
  AssignedOnce /\ NamesDiffer /\ DayWithinWeek /\ BannedHoldNoRole /\ Administrators # {}

\* p ends what it began, and nothing was committed in between.
EndsAlone(p) == pc[p] # "idle" /\ pc'[p] = "idle" /\ alone[p]

\* Rules no constraint guards: nobody holds a role twice, role names differ
\* by more than their case, a day is not longer than a week, who is banned or
\* deleted holds no role, and somebody administers the club.
AccountRulesKept == AccountRules => AccountRules'

\* Who administers the club changes only by a request of an administrator or
\* by an initial administrator who registers.
AdministratorsDecide(p) ==
  job[p].actor \notin Administrators
    => Administrators \subseteq Administrators' /\ Administrators' \subseteq Administrators \cup Initial

\* A ban is lifted only by an administrator.
BanIsLiftedByAdministrators(p) ==
  job[p].actor \notin Administrators
    => \A u \in Users \ Initial : users[u].status = "banned" => users'[u].status = "banned"

\* What somebody holds roles for: groups, or None for the whole club.
ScopeOf(u) == {given[x].group : x \in {y \in HeldIds : given[y].user = u}}

\* Who holds roles for groups only changes neither roles nor limits, and the
\* status of nobody outside these groups: a permission that exists only for
\* the whole club is not had for a group.
ScopeIsKept(p) ==
  None \notin ScopeOf(job[p].actor) =>
    /\ roles' = roles /\ limits' = limits
    /\ \A u \in Users \ {job[p].actor} :
         users'[u].status # users[u].status => users[u].group \in ScopeOf(job[p].actor)

\* Unless two requests come at once, neither managing roles nor moderating
\* nor a role for one group is enough to gain more than one was given
\* (permissions.py:17, roles.py:213, users.py:153).
NobodyRises ==
  [][\A p \in Procs :
       EndsAlone(p) => AdministratorsDecide(p) /\ BanIsLiftedByAdministrators(p) /\ ScopeIsKept(p)]_accountVars

=============================================================================
