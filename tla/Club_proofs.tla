----------------------------- MODULE Club_proofs -----------------------------
(***************************************************************************)
(* What holds of accounts, roles, bands, concerts and lists whatever       *)
(* requests come at once, and what a request that is alone cannot do, for  *)
(* all users, groups, roles, clubs to begin with and numbers of requests.  *)
(***************************************************************************)
EXTENDS Club, FiniteSetTheorems, TLAPS

UserOps == {"start", "profile", "resubmit", "approve", "reject", "ban", "delete"}
RoleOps == {"new role", "change role", "delete role", "assign", "revoke", "limits"}

UserJobFits(p) ==
  pc[p] \in UserOps =>
    /\ job[p].target \in Users /\ job[p].seen \in User
    /\ job[p].seen.status # "absent" => users[job[p].target].status # "absent"
    /\ pc[p] # "start" => job[p].seen.status # "absent"
    /\ pc[p] = "start" /\ job[p].seen.status = "absent" => ~job[p].what.held
    /\ pc[p] = "profile" => job[p].what.group \in Groups \cup {None} /\ job[p].what.filled \in BOOLEAN
    /\ pc[p] \in {"resubmit", "reject", "ban", "delete"} => job[p].target \notin Initial

RoleJobFits(p) ==
  /\ pc[p] = "new role" => job[p].what.name \in RoleNames /\ job[p].what.keys \in SUBSET Permissions
  /\ pc[p] = "change role" =>
       /\ job[p].item \in RoleIds /\ roles[job[p].item].state # "unused"
       /\ job[p].what.name \in RoleNames \cup {None}
       /\ job[p].what.keys = None \/ job[p].what.keys \in SUBSET Permissions
       /\ job[p].seen \in Role
  /\ pc[p] = "delete role" => job[p].item \in RoleIds /\ roles[job[p].item].state # "unused"
  /\ pc[p] = "assign" =>
       /\ job[p].target \in Users /\ users[job[p].target].status # "absent"
       /\ job[p].item \in Roles /\ job[p].what \in Groups \cup {None}
  /\ pc[p] = "revoke" =>
       /\ job[p].item \in AssignmentIds /\ given[job[p].item].state # "unused"
       /\ \A u \in Initial : given[job[p].item] # Row(u, Admin, None)
  /\ pc[p] = "limits" =>
       /\ job[p].what.weekly \in Nat \cup {None} /\ job[p].what.daily \in Nat \cup {None}

JobsFit ==
  /\ DOMAIN pc = Procs /\ DOMAIN job = Procs
  /\ \A p \in Procs : UserJobFits(p) /\ RoleJobFits(p)

IInv == AccountsTyped /\ RolesExist /\ InitialAdminsKeepRole /\ JobsFit

\* What is registered stays so, and ids are not used again.
Grows ==
  /\ \A u \in Users : users[u].status # "absent" => users'[u].status # "absent"
  /\ \A r \in Roles : roles[r].state # "unused" => roles'[r].state # "unused"
  /\ \A x \in AssignmentIds : given[x].state # "unused" => given'[x] \in {given[x], GoneAssignment}

\* What is assumed of the constants, but for the tables to begin with.
LEMMA Parties ==
  /\ Initial \subseteq Users /\ Admin \notin RoleIds
  /\ None \notin Users /\ None \notin Roles
  /\ PermissionChoices \subseteq SUBSET Permissions /\ LimitChoices \subseteq Nat
BY AccountsAssumption

\* A request that ends leaves the others as they were.
LEMMA JobsStay ==
  ASSUME JobsFit, Grows, NEW p \in Procs, Ends(p)
  PROVE  JobsFit'
<1>1. DOMAIN pc' = Procs /\ DOMAIN job' = Procs
  BY DEF JobsFit, Ends
<1>2. ASSUME NEW q \in Procs, q # p
      PROVE  pc'[q] = pc[q] /\ job'[q] = job[q]
  BY <1>2 DEF JobsFit, Ends
<1>3. pc'[p] = "idle"
  BY DEF JobsFit, Ends
<1>4. ASSUME NEW q \in Procs
      PROVE  UserJobFits(q)' /\ RoleJobFits(q)'
  <2>1. CASE q = p
    BY <2>1, <1>3 DEF UserJobFits, RoleJobFits, UserOps
  <2>2. CASE q # p
    <3>1. UserJobFits(q) /\ RoleJobFits(q)
      BY DEF JobsFit
    <3>2. pc'[q] = pc[q] /\ job'[q] = job[q]
      BY <2>2, <1>2
    <3>3. UserJobFits(q)'
      BY <3>1, <3>2 DEF UserJobFits, Grows, UserOps
    <3>4. RoleJobFits(q)'
      <4>1. pc[q] = "change role" => roles'[job[q].item].state # "unused"
        BY <3>1 DEF RoleJobFits, Grows, Roles
      <4>2. pc[q] = "delete role" => roles'[job[q].item].state # "unused"
        BY <3>1 DEF RoleJobFits, Grows, Roles
      <4>3. pc[q] = "assign" => users'[job[q].target].status # "absent"
        BY <3>1 DEF RoleJobFits, Grows
      <4>4. pc[q] = "revoke" =>
              /\ given'[job[q].item].state # "unused"
              /\ \A u \in Initial : given'[job[q].item] # Row(u, Admin, None)
        <5>1. SUFFICES ASSUME pc[q] = "revoke"
              PROVE  /\ given'[job[q].item].state # "unused"
                     /\ \A u \in Initial : given'[job[q].item] # Row(u, Admin, None)
          OBVIOUS
        <5>2. given'[job[q].item] \in {given[job[q].item], GoneAssignment}
          BY <3>1, <5>1 DEF RoleJobFits, Grows
        <5>3. GoneAssignment.state = "gone" /\ \A u \in Initial : Row(u, Admin, None).state = "held"
          BY DEF GoneAssignment, Row
        <5> QED
          BY <3>1, <5>1, <5>2, <5>3 DEF RoleJobFits
      <4> QED
        BY <3>1, <3>2, <4>1, <4>2, <4>3, <4>4 DEF RoleJobFits
    <3> QED
      BY <3>3, <3>4
  <2> QED
    BY <2>1, <2>2
<1> QED
  BY <1>1, <1>4 DEF JobsFit

\* What a session stores in place of one row that it has read.
LEMMA RowStored ==
  ASSUME NEW stored \in User, NEW seen \in User, NEW new \in User
  PROVE  /\ Written(stored, seen, new) \in User
         /\ Written(stored, seen, new).status = IF new.status = seen.status THEN stored.status ELSE new.status
BY DEF Written, User

\* Initial administrators are safe from a step that neither changes their
\* status nor takes the system role away from them.
LEMMA AdminsKept ==
  ASSUME InitialAdminsKeepRole,
         \A u \in Initial : users'[u].status = users[u].status,
         \A x \in AssignmentIds, u \in Initial : given[x] = Row(u, Admin, None) => given'[x] = given[x]
  PROVE  InitialAdminsKeepRole'
BY Parties DEF InitialAdminsKeepRole, Registered, Administrators, HoldsAdmin, Holds

\* Rows of assignments still refer to what exists if the new ones do.
LEMMA RowsFit ==
  ASSUME RolesExist, Grows, AccountsTyped, AccountsTyped', UNCHANGED roles,
         \A x \in AssignmentIds : given'[x].state = "held" =>
           \/ given'[x] = given[x]
           \/ /\ given'[x].role \in LiveRoles
              /\ given'[x].user \in Users /\ users'[given'[x].user].status # "absent"
  PROVE  RolesExist'
<1>1. LiveRoles' = LiveRoles
  BY DEF LiveRoles
<1>2. Admin \in LiveRoles'
  BY <1>1 DEF RolesExist
<1>3. ASSUME NEW x \in HeldIds'
      PROVE  given'[x].role \in LiveRoles' /\ given'[x].user \in Registered'
  <2>1. x \in AssignmentIds /\ given'[x].state = "held"
    BY <1>3 DEF HeldIds
  <2>2. CASE given'[x] = given[x]
    <3>1. x \in HeldIds
      BY <2>1, <2>2 DEF HeldIds
    <3>2. given[x].role \in LiveRoles /\ given[x].user \in Registered
      BY <3>1 DEF RolesExist
    <3>3. given[x].user \in Users /\ users'[given[x].user].status # "absent"
      BY <3>2 DEF Registered, Grows
    <3> QED
      BY <1>1, <2>2, <3>2, <3>3 DEF Registered
  <2>3. CASE /\ given'[x].role \in LiveRoles
             /\ given'[x].user \in Users /\ users'[given'[x].user].status # "absent"
    BY <1>1, <2>3 DEF Registered
  <2> QED
    BY <2>1, <2>2, <2>3
<1>4. \A q, r \in LiveRoles' : q # r => roles'[q].name # roles'[r].name
  BY <1>1 DEF RolesExist
<1> QED
  BY <1>2, <1>3, <1>4 DEF RolesExist

\* A row that is given takes the place of an unused one.
LEMMA RowGiven ==
  ASSUME NEW u \in Users, NEW r \in Roles, NEW g \in Groups \cup {None},
         given \in [AssignmentIds -> Assignment], Give(u, r, g)
  PROVE  \E id \in AssignmentIds :
           /\ given[id].state = "unused"
           /\ given' = [given EXCEPT ![id] = Row(u, r, g)]
           /\ given' \in [AssignmentIds -> Assignment]
<1> DEFINE id == CHOOSE x \in UnusedIds : TRUE
<1>1. id \in UnusedIds
  BY DEF Give
<1>2. id \in AssignmentIds /\ given[id].state = "unused"
  BY <1>1 DEF UnusedIds
<1>3. given' = [given EXCEPT ![id] = Row(u, r, g)]
  BY DEF Give
<1>4. Row(u, r, g) \in Assignment
  BY DEF Row, Assignment
<1> HIDE DEF id
<1> QED
  BY <1>2, <1>3, <1>4

\* Rows taken from somebody are gone, the others stay.
LEMMA RowsStripped ==
  ASSUME NEW u \in Users, given \in [AssignmentIds -> Assignment]
  PROVE  /\ Stripped(u) \in [AssignmentIds -> Assignment]
         /\ \A x \in AssignmentIds :
              /\ Stripped(u)[x] \in {given[x], GoneAssignment}
              /\ given[x].state = "unused" \/ given[x].user # u => Stripped(u)[x] = given[x]
<1>1. GoneAssignment \in Assignment
  BY DEF GoneAssignment, Assignment
<1> QED
  BY <1>1 DEF Stripped

\* A request about one user that neither gives roles nor harms an initial
\* administrator.
LEMMA UserStored ==
  ASSUME IInv, NEW p \in Procs, NEW u \in Users, NEW row \in User,
         Ends(p), UNCHANGED <<roles, limits>>,
         users' = [users EXCEPT ![u] = row],
         users[u].status # "absent" => row.status # "absent",
         u \in Initial => row.status = users[u].status,
         \/ given' = given
         \/ u \notin Initial /\ given' = Stripped(u)
  PROVE  IInv'
<1> USE DEF IInv
<1>1. given' \in [AssignmentIds -> Assignment]
  BY RowsStripped DEF AccountsTyped
<1>2. AccountsTyped'
  BY <1>1 DEF AccountsTyped
<1>3. \A x \in AssignmentIds : given'[x] \in {given[x], GoneAssignment}
  BY RowsStripped DEF AccountsTyped
<1>4. \A v \in Users : users[v].status # "absent" => users'[v].status # "absent"
  BY DEF AccountsTyped
<1>5. Grows
  BY <1>3, <1>4 DEF Grows
<1>6. RolesExist'
  <2>1. \A x \in AssignmentIds : given'[x].state = "held" => given'[x] = given[x]
    BY <1>3 DEF GoneAssignment
  <2> QED
    BY <1>2, <1>5, <2>1, RowsFit
<1>7. InitialAdminsKeepRole'
  <2>1. \A v \in Initial : users'[v].status = users[v].status
    BY Parties DEF AccountsTyped
  <2>2. \A x \in AssignmentIds, v \in Initial : given[x] = Row(v, Admin, None) => given'[x] = given[x]
    <3>1. CASE given' = given
      BY <3>1
    <3>2. CASE u \notin Initial /\ given' = Stripped(u)
      <4>1. \A x \in AssignmentIds : given[x].user # u => given'[x] = given[x]
        BY <3>2, RowsStripped DEF AccountsTyped
      <4>2. \A v \in Initial : Row(v, Admin, None).user = v
        BY DEF Row
      <4> QED
        BY <3>2, <4>1, <4>2
    <3> QED
      BY <3>1, <3>2
  <2> QED
    BY <2>1, <2>2, AdminsKept
<1>8. JobsFit'
  BY <1>5, JobsStay
<1> QED
  BY <1>2, <1>6, <1>7, <1>8

\* Registration.  Who is an initial administrator is approved and given the
\* system role.
LEMMA StartKeeps ==
  ASSUME IInv, NEW p \in Procs, Start(p)
  PROVE  IInv'
<1> USE DEF IInv
<1> DEFINE u == job[p].target
           seen == job[p].seen
           new == Entered(u, seen)
           row == Written(users[u], seen, new)
<1>1. pc[p] = "start"
  BY DEF Start
<1>2. /\ u \in Users /\ seen \in User
      /\ seen.status # "absent" => users[u].status # "absent"
      /\ seen.status = "absent" => ~job[p].what.held
  BY <1>1 DEF JobsFit, UserJobFits, UserOps
<1>3. users[u] \in User /\ given \in [AssignmentIds -> Assignment]
  BY <1>2 DEF AccountsTyped
<1>4. Ends(p) /\ UNCHANGED <<roles, limits>>
  BY DEF Start, Aborts, Commits, tables
<1>5. CASE UNCHANGED tables
  <2>1. users' = [users EXCEPT ![u] = users[u]] /\ given' = given
    BY <1>2, <1>5 DEF tables, AccountsTyped
  <2> QED
    BY <1>2, <1>3, <1>4, <2>1, UserStored
<1>6. CASE /\ users' = [users EXCEPT ![u] = row]
           /\ IF u \in Initial /\ ~job[p].what.held THEN Give(u, Admin, None)
              ELSE given' = IF u \notin Initial /\ seen.status = "deleted" THEN Stripped(u) ELSE given
  <2>1. new \in User /\ new.status # "absent" /\ (u \in Initial => new.status = "approved")
    BY <1>2 DEF Entered, Blank, User, Statuses
  <2>2. /\ row \in User
        /\ row.status = IF new.status = seen.status THEN users[u].status ELSE new.status
    BY <1>2, <1>3, <2>1, RowStored
  <2>3. row.status # "absent"
    BY <1>2, <2>1, <2>2
  <2>4. u \in Initial /\ users[u].status # "absent" => users[u].status = "approved" /\ Holds(u, Admin, None)
    BY <1>2 DEF InitialAdminsKeepRole, Registered, Administrators, HoldsAdmin
  <2>5. u \in Initial => row.status = "approved"
    BY <1>2, <2>1, <2>2, <2>4
  <2>6. CASE u \notin Initial
    BY <1>2, <1>4, <1>6, <2>2, <2>3, <2>6, UserStored
  <2>7. CASE u \in Initial /\ job[p].what.held
    <3>1. row.status = users[u].status
      BY <1>2, <2>4, <2>5, <2>7
    <3>2. given' = given
      BY <1>6, <2>7
    <3> QED
      BY <1>2, <1>4, <1>6, <2>2, <2>3, <3>1, <3>2, UserStored
  <2>8. CASE u \in Initial /\ ~job[p].what.held
    <3>1. PICK id \in AssignmentIds :
            /\ given[id].state = "unused"
            /\ given' = [given EXCEPT ![id] = Row(u, Admin, None)]
            /\ given' \in [AssignmentIds -> Assignment]
      BY <1>2, <1>3, <1>6, <2>8, RowGiven DEF Roles
    <3>2. AccountsTyped'
      BY <1>2, <1>4, <1>6, <2>2, <3>1 DEF AccountsTyped
    <3>3. \A x \in AssignmentIds : x # id => given'[x] = given[x]
      BY <1>3, <3>1
    <3>4. given'[id] = Row(u, Admin, None)
      BY <1>3, <3>1
    <3>5. users'[u].status = "approved" /\ \A v \in Users : v # u => users'[v] = users[v]
      BY <1>2, <1>6, <2>5, <2>8 DEF AccountsTyped
    <3>6. Grows
      <4>1. \A v \in Users : users[v].status # "absent" => users'[v].status # "absent"
        BY <3>5
      <4> QED
        BY <1>4, <3>1, <3>3, <4>1 DEF Grows
    <3>7. Row(u, Admin, None).role = Admin /\ Row(u, Admin, None).user = u
      BY DEF Row
    <3>8. RolesExist'
      <4>1. Admin \in LiveRoles /\ users'[u].status # "absent"
        BY <3>5 DEF RolesExist
      <4>2. \A x \in AssignmentIds : given'[x].state = "held" =>
              \/ given'[x] = given[x]
              \/ /\ given'[x].role \in LiveRoles
                 /\ given'[x].user \in Users /\ users'[given'[x].user].status # "absent"
        BY <1>2, <3>3, <3>4, <3>7, <4>1
      <4> QED
        BY <1>4, <3>2, <3>6, <4>2, RowsFit
    <3>9. InitialAdminsKeepRole'
      <4>1. SUFFICES ASSUME NEW v \in Initial, v \in Users, users'[v].status # "absent"
                     PROVE  users'[v].status = "approved" /\ \E x \in AssignmentIds : given'[x] = Row(v, Admin, None)
        BY DEF InitialAdminsKeepRole, Registered, Administrators, HoldsAdmin, Holds
      <4>2. CASE v = u
        BY <3>4, <3>5, <4>2
      <4>3. CASE v # u
        <5>1. users[v].status = "approved" /\ users'[v].status = "approved"
          BY <3>5, <4>1, <4>3 DEF InitialAdminsKeepRole, Registered, Administrators, HoldsAdmin
        <5>2. PICK x \in AssignmentIds : given[x] = Row(v, Admin, None)
          BY <3>5, <4>1, <4>3 DEF InitialAdminsKeepRole, Registered, Administrators, HoldsAdmin, Holds
        <5>3. given[x].state = "held"
          BY <5>2 DEF Row
        <5>4. given'[x] = Row(v, Admin, None)
          BY <3>1, <3>3, <5>2, <5>3
        <5> QED
          BY <5>1, <5>4
      <4> QED
        BY <4>2, <4>3
    <3>10. JobsFit'
      BY <1>4, <3>6, JobsStay
    <3> QED
      BY <3>2, <3>8, <3>9, <3>10
  <2> QED
    BY <2>6, <2>7, <2>8
<1> QED
  BY <1>5, <1>6 DEF Start, Save, Aborts

\* What a request about somebody who is registered may rely on.
LEMMA Target ==
  ASSUME IInv, NEW p \in Procs, pc[p] \in UserOps, pc[p] # "start"
  PROVE  /\ job[p].target \in Users /\ job[p].seen \in User /\ users[job[p].target] \in User
         /\ job[p].seen.status # "absent" /\ users[job[p].target].status # "absent"
         /\ job[p].target \in Initial => users[job[p].target].status = "approved"
BY DEF IInv, JobsFit, UserJobFits, AccountsTyped, InitialAdminsKeepRole, Registered, Administrators, HoldsAdmin

LEMMA UpdateProfileKeeps ==
  ASSUME IInv, NEW p \in Procs, UpdateProfile(p)
  PROVE  IInv'
<1> DEFINE u == job[p].target
           seen == job[p].seen
           asked == job[p].what
           new == [seen EXCEPT !.group = IF asked.group = None THEN @ ELSE asked.group,
                               !.complete = @ \/ asked.filled]
           row == Written(users[u], seen, new)
<1>1. pc[p] = "profile" /\ Ends(p) /\ UNCHANGED <<roles, limits>> /\ given' = given /\ users' = [users EXCEPT ![u] = row]
  BY DEF UpdateProfile, Commits, Save
<1>2. /\ u \in Users /\ seen \in User /\ users[u] \in User
      /\ seen.status # "absent" /\ users[u].status # "absent"
  BY <1>1, Target DEF UserOps
<1>3. asked.group \in Groups \cup {None} /\ asked.filled \in BOOLEAN
  BY <1>1 DEF IInv, JobsFit, UserJobFits, UserOps
<1>4. new \in User /\ new.status = seen.status
  BY <1>2, <1>3 DEF User
<1> HIDE DEF u, seen, new
<1>5. row \in User /\ row.status = users[u].status
  BY <1>2, <1>4, RowStored
<1> HIDE DEF row
<1> QED
  BY <1>1, <1>2, <1>5, UserStored

LEMMA ResubmitKeeps ==
  ASSUME IInv, NEW p \in Procs, Resubmit(p)
  PROVE  IInv'
<1> DEFINE u == job[p].target
           seen == job[p].seen
           new == [seen EXCEPT !.status = "pending", !.cooling = FALSE]
           row == Written(users[u], seen, new)
<1>1. pc[p] = "resubmit" /\ Ends(p) /\ UNCHANGED <<roles, limits>> /\ given' = given /\ users' = [users EXCEPT ![u] = row]
  BY DEF Resubmit, Commits, Save
<1>2. /\ u \in Users /\ seen \in User /\ users[u] \in User
      /\ seen.status # "absent" /\ users[u].status # "absent"
  BY <1>1, Target DEF UserOps
<1>3. u \notin Initial
  BY <1>1 DEF IInv, JobsFit, UserJobFits, UserOps
<1>4. new \in User /\ new.status = "pending"
  BY <1>2 DEF User, Statuses
<1> HIDE DEF u, seen, new
<1>5. row \in User /\ row.status # "absent"
  BY <1>2, <1>4, RowStored
<1> HIDE DEF row
<1> QED
  BY <1>1, <1>2, <1>3, <1>5, UserStored

LEMMA ApproveKeeps ==
  ASSUME IInv, NEW p \in Procs, Approve(p)
  PROVE  IInv'
<1> DEFINE u == job[p].target
           seen == job[p].seen
           new == [seen EXCEPT !.status = "approved", !.cooling = FALSE]
           row == Written(users[u], seen, new)
<1>1. pc[p] = "approve" /\ Ends(p) /\ UNCHANGED <<roles, limits>> /\ given' = given /\ users' = [users EXCEPT ![u] = row]
  BY DEF Approve, Commits, Save
<1>2. /\ u \in Users /\ seen \in User /\ users[u] \in User
      /\ seen.status # "absent" /\ users[u].status # "absent"
      /\ u \in Initial => users[u].status = "approved"
  BY <1>1, Target DEF UserOps
<1>3. new \in User /\ new.status = "approved"
  BY <1>2 DEF User, Statuses
<1> HIDE DEF u, seen, new
<1>4. row \in User /\ row.status \in {users[u].status, "approved"}
  BY <1>2, <1>3, RowStored
<1> HIDE DEF row
<1> QED
  BY <1>1, <1>2, <1>4, UserStored

LEMMA RejectKeeps ==
  ASSUME IInv, NEW p \in Procs, Reject(p)
  PROVE  IInv'
<1> DEFINE u == job[p].target
           seen == job[p].seen
           new == [seen EXCEPT !.status = "rejected"]
           row == [Written(users[u], seen, new) EXCEPT !.cooling = TRUE]
<1>1. pc[p] = "reject" /\ Ends(p) /\ UNCHANGED <<roles, limits>> /\ given' = given /\ users' = [users EXCEPT ![u] = row]
  BY DEF Reject, Commits
<1>2. /\ u \in Users /\ seen \in User /\ users[u] \in User
      /\ seen.status # "absent" /\ users[u].status # "absent"
  BY <1>1, Target DEF UserOps
<1>3. u \notin Initial
  BY <1>1 DEF IInv, JobsFit, UserJobFits, UserOps
<1>4. new \in User /\ new.status = "rejected"
  BY <1>2 DEF User, Statuses
<1> HIDE DEF u, seen, new
<1>5. Written(users[u], seen, new) \in User /\ Written(users[u], seen, new).status # "absent"
  BY <1>2, <1>4, RowStored
<1>6. row \in User /\ row.status # "absent"
  BY <1>5 DEF User
<1> HIDE DEF row
<1> QED
  BY <1>1, <1>2, <1>3, <1>6, UserStored

LEMMA BanKeeps ==
  ASSUME IInv, NEW p \in Procs, Ban(p)
  PROVE  IInv'
<1> DEFINE u == job[p].target
           seen == job[p].seen
           new == [seen EXCEPT !.status = "banned", !.cooling = FALSE]
           row == Written(users[u], seen, new)
<1>1. pc[p] = "ban" /\ Ends(p) /\ UNCHANGED <<roles, limits>> /\ given' = Stripped(u) /\ users' = [users EXCEPT ![u] = row]
  BY DEF Ban, Commits, Save
<1>2. /\ u \in Users /\ seen \in User /\ users[u] \in User
      /\ seen.status # "absent" /\ users[u].status # "absent"
  BY <1>1, Target DEF UserOps
<1>3. u \notin Initial
  BY <1>1 DEF IInv, JobsFit, UserJobFits, UserOps
<1>4. new \in User /\ new.status = "banned"
  BY <1>2 DEF User, Statuses
<1> HIDE DEF u, seen, new
<1>5. row \in User /\ row.status # "absent"
  BY <1>2, <1>4, RowStored
<1> HIDE DEF row
<1> QED
  BY <1>1, <1>2, <1>3, <1>5, UserStored

LEMMA SoftDeleteKeeps ==
  ASSUME IInv, NEW p \in Procs, SoftDelete(p)
  PROVE  IInv'
<1> DEFINE u == job[p].target
           seen == job[p].seen
           new == [seen EXCEPT !.status = "deleted", !.complete = FALSE, !.cooling = FALSE]
           row == Written(users[u], seen, new)
<1>1. pc[p] = "delete" /\ Ends(p) /\ UNCHANGED <<roles, limits>> /\ given' = Stripped(u) /\ users' = [users EXCEPT ![u] = row]
  BY DEF SoftDelete, Commits, Save
<1>2. /\ u \in Users /\ seen \in User /\ users[u] \in User
      /\ seen.status # "absent" /\ users[u].status # "absent"
  BY <1>1, Target DEF UserOps
<1>3. u \notin Initial
  BY <1>1 DEF IInv, JobsFit, UserJobFits, UserOps
<1>4. new \in User /\ new.status = "deleted"
  BY <1>2 DEF User, Statuses
<1> HIDE DEF u, seen, new
<1>5. row \in User /\ row.status # "absent"
  BY <1>2, <1>4, RowStored
<1> HIDE DEF row
<1> QED
  BY <1>1, <1>2, <1>3, <1>5, UserStored

\* A step that leaves users and assignments alone.
LEMMA RolesStored ==
  ASSUME IInv, NEW p \in Procs, Ends(p), UNCHANGED <<users, given>>,
         roles' \in [Roles -> Role], limits' \in [weekly : Nat, daily : Nat],
         \A r \in Roles : /\ roles[r].state = "live" => roles'[r].state = "live"
                          /\ roles[r].state # "unused" => roles'[r].state # "unused",
         \A q, r \in Roles :
           q # r /\ roles'[q].state = "live" /\ roles'[r].state = "live" => roles'[q].name # roles'[r].name
  PROVE  IInv'
<1> USE DEF IInv
<1>1. AccountsTyped'
  BY DEF AccountsTyped
<1>2. Grows
  BY DEF Grows
<1>3. RolesExist'
  <2>1. LiveRoles \subseteq LiveRoles' /\ HeldIds' = HeldIds /\ Registered' = Registered
    BY DEF LiveRoles, HeldIds, Registered
  <2>2. \A q, r \in LiveRoles' : q # r => roles'[q].name # roles'[r].name
    BY DEF LiveRoles
  <2>3. Admin \in LiveRoles'
    BY <2>1 DEF RolesExist
  <2>4. \A x \in HeldIds' : given'[x].role \in LiveRoles' /\ given'[x].user \in Registered'
    BY <2>1 DEF RolesExist
  <2> QED
    BY <2>2, <2>3, <2>4 DEF RolesExist
<1>4. InitialAdminsKeepRole'
  <2>1. /\ \A u \in Initial : users'[u].status = users[u].status
        /\ \A x \in AssignmentIds, u \in Initial : given[x] = Row(u, Admin, None) => given'[x] = given[x]
    OBVIOUS
  <2> QED
    BY <2>1, AdminsKept
<1>5. JobsFit'
  BY <1>2, JobsStay
<1> QED
  BY <1>1, <1>3, <1>4, <1>5

\* A request that ends without effect on accounts and roles.
LEMMA EndKeeps ==
  ASSUME IInv, NEW p \in Procs, Ends(p), UNCHANGED tables
  PROVE  IInv'
<1>1. UNCHANGED <<users, given>> /\ roles' = roles /\ limits' = limits
  BY DEF tables
<1>2. roles \in [Roles -> Role] /\ limits \in [weekly : Nat, daily : Nat]
  BY DEF IInv, AccountsTyped
<1>3. \A q, r \in Roles :
        q # r /\ roles[q].state = "live" /\ roles[r].state = "live" => roles[q].name # roles[r].name
  BY DEF IInv, RolesExist, LiveRoles
<1> QED
  BY <1>1, <1>2, <1>3, RolesStored

LEMMA CreateRoleKeeps ==
  ASSUME IInv, NEW p \in Procs, CreateRole(p)
  PROVE  IInv'
<1> DEFINE asked == job[p].what
           fresh == {r \in RoleIds : roles[r].state = "unused"}
           r0 == CHOOSE r \in fresh : TRUE
           row == [state |-> "live", name |-> asked.name, holds |-> asked.keys]
<1>1. CASE Aborts(p)
  BY <1>1, EndKeeps DEF Aborts
<1>2. CASE /\ fresh # {} /\ ~NameStored(asked.name, None)
           /\ roles' = [roles EXCEPT ![r0] = row]
           /\ Commits(p)
           /\ UNCHANGED <<users, given, limits>>
  <2>1. pc[p] = "new role"
    BY DEF CreateRole
  <2>2. asked.name \in RoleNames /\ asked.keys \in SUBSET Permissions
    BY <2>1 DEF IInv, JobsFit, RoleJobFits
  <2>3. row \in Role /\ row.state = "live" /\ row.name = asked.name
    BY <2>2 DEF Role
  <2>4. r0 \in fresh
    BY <1>2
  <2>5. r0 \in Roles /\ roles[r0].state = "unused"
    BY <2>4 DEF Roles
  <2>6. roles \in [Roles -> Role] /\ limits \in [weekly : Nat, daily : Nat]
    BY DEF IInv, AccountsTyped
  <2>7. \A r \in Roles : roles[r].state = "live" => roles[r].name # asked.name
    BY <1>2, Parties DEF NameStored, LiveRoles
  <2>8. \A q, r \in Roles :
          q # r /\ roles[q].state = "live" /\ roles[r].state = "live" => roles[q].name # roles[r].name
    BY DEF IInv, RolesExist, LiveRoles
  <2>9. Ends(p) /\ UNCHANGED <<users, given>> /\ limits' = limits
    BY <1>2 DEF Commits
  <2> HIDE DEF row, r0, asked, fresh
  <2>10. roles' = [roles EXCEPT ![r0] = row]
    BY <1>2
  <2>11. /\ roles' \in [Roles -> Role]
         /\ roles'[r0] = row
         /\ \A r \in Roles : r # r0 => roles'[r] = roles[r]
    BY <2>3, <2>5, <2>6, <2>10
  <2>12. \A r \in Roles : /\ roles[r].state = "live" => roles'[r].state = "live"
                          /\ roles[r].state # "unused" => roles'[r].state # "unused"
    BY <2>3, <2>11
  <2>13. \A q, r \in Roles :
           q # r /\ roles'[q].state = "live" /\ roles'[r].state = "live" => roles'[q].name # roles'[r].name
    BY <2>3, <2>7, <2>8, <2>11
  <2> QED
    BY <2>6, <2>9, <2>11, <2>12, <2>13, RolesStored
<1> QED
  BY <1>1, <1>2 DEF CreateRole

LEMMA UpdateRoleKeeps ==
  ASSUME IInv, NEW p \in Procs, UpdateRole(p)
  PROVE  IInv'
<1> DEFINE r0 == job[p].item
           asked == job[p].what
           seen == job[p].seen
           renamed == asked.name \notin {None, seen.name}
           added == IF asked.keys = None THEN {} ELSE asked.keys \ seen.holds
           removed == IF asked.keys = None THEN {} ELSE seen.holds \ asked.keys
           refused == \/ roles[r0].state = "gone" /\ (renamed \/ added # {})
                      \/ renamed /\ NameStored(asked.name, r0)
                      \/ added \cap roles[r0].holds # {}
<1>1. CASE Aborts(p)
  BY <1>1, EndKeeps DEF Aborts
<1>2. CASE /\ ~refused
           /\ roles' = [roles EXCEPT ![r0].name = IF renamed THEN asked.name ELSE @,
                                     ![r0].holds = (@ \ removed) \cup added]
           /\ Commits(p)
           /\ UNCHANGED <<users, given, limits>>
  <2>1. pc[p] = "change role"
    BY DEF UpdateRole
  <2>2. /\ r0 \in Roles /\ asked.name \in RoleNames \cup {None}
        /\ asked.keys = None \/ asked.keys \in SUBSET Permissions
    BY <2>1 DEF IInv, JobsFit, RoleJobFits, Roles
  <2>3. roles \in [Roles -> Role] /\ limits \in [weekly : Nat, daily : Nat]
    BY DEF IInv, AccountsTyped
  <2>4. added \in SUBSET Permissions
    BY <2>2
  <2>5. \A q, r \in Roles :
          q # r /\ roles[q].state = "live" /\ roles[r].state = "live" => roles[q].name # roles[r].name
    BY DEF IInv, RolesExist, LiveRoles
  <2>6. renamed => \A r \in Roles : r # r0 /\ roles[r].state = "live" => roles[r].name # asked.name
    BY <1>2 DEF NameStored, LiveRoles
  <2>7. Ends(p) /\ UNCHANGED <<users, given>> /\ limits' = limits
    BY <1>2 DEF Commits
  <2>8. renamed => asked.name \in RoleNames
    BY <2>2
  <2> HIDE DEF r0, asked, added, removed, renamed, refused
  <2>9. roles' = [roles EXCEPT ![r0].name = IF renamed THEN asked.name ELSE @,
                               ![r0].holds = (@ \ removed) \cup added]
    BY <1>2
  <2>10. /\ roles' \in [Roles -> Role]
         /\ \A r \in Roles : roles'[r].state = roles[r].state
         /\ \A r \in Roles : r # r0 => roles'[r].name = roles[r].name
         /\ roles'[r0].name = IF renamed THEN asked.name ELSE roles[r0].name
    BY <2>2, <2>3, <2>4, <2>8, <2>9 DEF Role
  <2>11. \A r \in Roles : /\ roles[r].state = "live" => roles'[r].state = "live"
                          /\ roles[r].state # "unused" => roles'[r].state # "unused"
    BY <2>10
  <2>12. \A q, r \in Roles :
           q # r /\ roles'[q].state = "live" /\ roles'[r].state = "live" => roles'[q].name # roles'[r].name
    BY <2>2, <2>5, <2>6, <2>10
  <2> QED
    BY <2>3, <2>7, <2>10, <2>11, <2>12, RolesStored
<1> QED
  BY <1>1, <1>2 DEF UpdateRole

LEMMA SetLimitsKeeps ==
  ASSUME IInv, NEW p \in Procs, SetLimits(p)
  PROVE  IInv'
<1> DEFINE asked == job[p].what
           seen == job[p].seen
           Changed(new, old, stored) == IF new \in {None, old} THEN stored ELSE new
<1>1. pc[p] = "limits" /\ Ends(p) /\ UNCHANGED <<users, given>> /\ roles' = roles
  BY DEF SetLimits, Commits
<1>2. limits' = [weekly |-> Changed(asked.weekly, seen.weekly, limits.weekly),
                 daily  |-> Changed(asked.daily, seen.daily, limits.daily)]
  BY DEF SetLimits
<1>3. asked.weekly \in Nat \cup {None} /\ asked.daily \in Nat \cup {None}
  BY <1>1 DEF IInv, JobsFit, RoleJobFits
<1>4. roles \in [Roles -> Role] /\ limits \in [weekly : Nat, daily : Nat]
  BY DEF IInv, AccountsTyped
<1>5. limits' \in [weekly : Nat, daily : Nat]
  BY <1>2, <1>3, <1>4
<1>6. \A q, r \in Roles :
        q # r /\ roles[q].state = "live" /\ roles[r].state = "live" => roles[q].name # roles[r].name
  BY DEF IInv, RolesExist, LiveRoles
<1> QED
  BY <1>1, <1>4, <1>5, <1>6, RolesStored

LEMMA DeleteRoleKeeps ==
  ASSUME IInv, NEW p \in Procs, DeleteRole(p)
  PROVE  IInv'
<1> USE DEF IInv
<1> DEFINE r0 == job[p].item
<1>1. /\ pc[p] = "delete role" /\ Ends(p) /\ UNCHANGED <<users, limits>>
      /\ roles' = [roles EXCEPT ![r0] = GoneRole]
      /\ given' = [x \in AssignmentIds |-> IF given[x].role = r0 THEN GoneAssignment ELSE given[x]]
  BY DEF DeleteRole, Commits
<1>2. r0 \in RoleIds
  BY <1>1 DEF JobsFit, RoleJobFits
<1>3. r0 \in Roles /\ r0 # Admin
  BY <1>2, Parties DEF Roles
<1>4. GoneRole \in Role /\ GoneRole.state = "gone" /\ GoneAssignment \in Assignment /\ GoneAssignment.state = "gone"
  BY DEF GoneRole, Role, GoneAssignment, Assignment
<1> HIDE DEF r0
<1>5. /\ roles' \in [Roles -> Role]
      /\ roles'[r0] = GoneRole
      /\ \A r \in Roles : r # r0 => roles'[r] = roles[r]
  BY <1>1, <1>3, <1>4 DEF AccountsTyped
<1>6. /\ given' \in [AssignmentIds -> Assignment]
      /\ \A x \in AssignmentIds : given'[x] \in {given[x], GoneAssignment}
      /\ \A x \in AssignmentIds : given[x].role = r0 => given'[x] = GoneAssignment
      /\ \A x \in AssignmentIds : given[x].role # r0 => given'[x] = given[x]
  BY <1>1, <1>4 DEF AccountsTyped
<1>7. AccountsTyped'
  BY <1>1, <1>5, <1>6 DEF AccountsTyped
<1>8. Grows
  BY <1>1, <1>4, <1>5, <1>6 DEF Grows
<1>9. RolesExist'
  <2>1. LiveRoles' = LiveRoles \ {r0} /\ Registered' = Registered
    BY <1>1, <1>4, <1>5 DEF LiveRoles, Registered
  <2>2. ASSUME NEW x \in HeldIds'
        PROVE  x \in HeldIds /\ given'[x] = given[x] /\ given[x].role # r0
    <3>1. x \in AssignmentIds /\ given'[x].state = "held"
      BY DEF HeldIds
    <3>2. given'[x] = given[x] /\ given[x].role # r0
      BY <1>4, <1>6, <3>1
    <3> QED
      BY <3>1, <3>2 DEF HeldIds
  <2>3. \A x \in HeldIds' : given'[x].role \in LiveRoles' /\ given'[x].user \in Registered'
    BY <2>1, <2>2 DEF RolesExist
  <2>4. Admin \in LiveRoles'
    BY <1>3, <2>1 DEF RolesExist
  <2>5. \A q \in LiveRoles' : q \in LiveRoles /\ roles'[q] = roles[q]
    BY <1>5, <2>1 DEF LiveRoles
  <2>6. \A q, r \in LiveRoles' : q # r => roles'[q].name # roles'[r].name
    BY <2>5 DEF RolesExist
  <2> QED
    BY <2>3, <2>4, <2>6 DEF RolesExist
<1>10. InitialAdminsKeepRole'
  <2>1. \A u \in Initial : users'[u].status = users[u].status
    BY <1>1
  <2>2. \A x \in AssignmentIds, u \in Initial : given[x] = Row(u, Admin, None) => given'[x] = given[x]
    BY <1>3, <1>6 DEF Row
  <2> QED
    BY <2>1, <2>2, AdminsKept
<1>11. JobsFit'
  BY <1>1, <1>8, JobsStay
<1> QED
  BY <1>7, <1>9, <1>10, <1>11

LEMMA AssignKeeps ==
  ASSUME IInv, NEW p \in Procs, Assign(p)
  PROVE  IInv'
<1> USE DEF IInv
<1> DEFINE u0 == job[p].target
           r0 == job[p].item
           g0 == job[p].what
<1>1. CASE Aborts(p)
  BY <1>1, EndKeeps DEF Aborts
<1>2. CASE r0 \in LiveRoles /\ Give(u0, r0, g0) /\ Commits(p) /\ UNCHANGED <<users, roles, limits>>
  <2>1. pc[p] = "assign"
    BY DEF Assign
  <2>2. u0 \in Users /\ users[u0].status # "absent" /\ r0 \in Roles /\ g0 \in Groups \cup {None}
    BY <2>1 DEF JobsFit, RoleJobFits
  <2>3. given \in [AssignmentIds -> Assignment]
    BY DEF AccountsTyped
  <2> HIDE DEF u0, r0, g0
  <2>4. PICK id \in AssignmentIds :
          /\ given[id].state = "unused"
          /\ given' = [given EXCEPT ![id] = Row(u0, r0, g0)]
          /\ given' \in [AssignmentIds -> Assignment]
    BY <1>2, <2>2, <2>3, RowGiven
  <2>5. given'[id] = Row(u0, r0, g0) /\ \A x \in AssignmentIds : x # id => given'[x] = given[x]
    BY <2>3, <2>4
  <2>6. Ends(p) /\ users' = users /\ roles' = roles /\ limits' = limits
    BY <1>2 DEF Commits
  <2>7. AccountsTyped'
    BY <2>4, <2>6 DEF AccountsTyped
  <2>8. Grows
    BY <2>4, <2>5, <2>6 DEF Grows
  <2>9. RolesExist'
    <3>1. Row(u0, r0, g0).role = r0 /\ Row(u0, r0, g0).user = u0
      BY DEF Row
    <3>2. \A x \in AssignmentIds : given'[x].state = "held" =>
            \/ given'[x] = given[x]
            \/ /\ given'[x].role \in LiveRoles
               /\ given'[x].user \in Users /\ users'[given'[x].user].status # "absent"
      BY <1>2, <2>2, <2>5, <2>6, <3>1
    <3> QED
      BY <2>6, <2>7, <2>8, <3>2, RowsFit
  <2>10. InitialAdminsKeepRole'
    <3>1. \A u \in Initial : users'[u].status = users[u].status
      BY <2>6
    <3>2. \A x \in AssignmentIds, u \in Initial : given[x] = Row(u, Admin, None) => given'[x] = given[x]
      <4>1. \A u \in Initial : Row(u, Admin, None).state = "held"
        BY DEF Row
      <4> QED
        BY <2>4, <2>5, <4>1
    <3> QED
      BY <3>1, <3>2, AdminsKept
  <2>11. JobsFit'
    BY <2>6, <2>8, JobsStay
  <2> QED
    BY <2>7, <2>9, <2>10, <2>11
<1> QED
  BY <1>1, <1>2 DEF Assign

LEMMA RevokeKeeps ==
  ASSUME IInv, NEW p \in Procs, Revoke(p)
  PROVE  IInv'
<1> USE DEF IInv
<1> DEFINE x0 == job[p].item
<1>1. /\ pc[p] = "revoke" /\ Ends(p) /\ users' = users /\ roles' = roles /\ limits' = limits
      /\ given' = [given EXCEPT ![x0] = GoneAssignment]
  BY DEF Revoke, Commits
<1>2. x0 \in AssignmentIds /\ \A u \in Initial : given[x0] # Row(u, Admin, None)
  BY <1>1 DEF JobsFit, RoleJobFits
<1>3. GoneAssignment \in Assignment /\ GoneAssignment.state = "gone"
  BY DEF GoneAssignment, Assignment
<1> HIDE DEF x0
<1>4. /\ given' \in [AssignmentIds -> Assignment]
      /\ given'[x0] = GoneAssignment
      /\ \A x \in AssignmentIds : x # x0 => given'[x] = given[x]
  BY <1>1, <1>2, <1>3 DEF AccountsTyped
<1>5. AccountsTyped'
  BY <1>1, <1>4 DEF AccountsTyped
<1>6. Grows
  BY <1>1, <1>4 DEF Grows
<1>7. RolesExist'
  <2>1. \A x \in AssignmentIds : given'[x].state = "held" => given'[x] = given[x]
    BY <1>3, <1>4
  <2> QED
    BY <1>1, <1>5, <1>6, <2>1, RowsFit
<1>8. InitialAdminsKeepRole'
  <2>1. /\ \A u \in Initial : users'[u].status = users[u].status
        /\ \A x \in AssignmentIds, u \in Initial : given[x] = Row(u, Admin, None) => given'[x] = given[x]
    BY <1>1, <1>2, <1>4
  <2> QED
    BY <2>1, AdminsKept
<1>9. JobsFit'
  BY <1>1, <1>6, JobsStay
<1> QED
  BY <1>5, <1>7, <1>8, <1>9

-----------------------------------------------------------------------------
(* Requests that begin *)

\* A request that begins leaves the tables alone and keeps what it read.
LEMMA Asked ==
  ASSUME IInv, NEW p \in Procs, NEW op, NEW j, Ask(p, op, j)
  PROVE  /\ pc'[p] = op /\ job'[p] = j
         /\ users' = users /\ roles' = roles /\ given' = given /\ limits' = limits
BY DEF IInv, JobsFit, Ask, tables

LEMMA AskKeeps ==
  ASSUME IInv, NEW p \in Procs, NEW op, NEW j, Ask(p, op, j), UserJobFits(p)', RoleJobFits(p)'
  PROVE  IInv'
<1> USE DEF IInv
<1>1. users' = users /\ roles' = roles /\ given' = given /\ limits' = limits
  BY Asked
<1>2. AccountsTyped'
  BY <1>1 DEF AccountsTyped
<1>3. RolesExist'
  BY <1>1 DEF RolesExist, LiveRoles, HeldIds, Registered
<1>4. InitialAdminsKeepRole'
  BY <1>1 DEF InitialAdminsKeepRole, Registered, Administrators, HoldsAdmin, Holds
<1>5. JobsFit'
  <2>1. DOMAIN pc' = Procs /\ DOMAIN job' = Procs
    BY DEF JobsFit, Ask
  <2>2. ASSUME NEW q \in Procs, q # p
        PROVE  UserJobFits(q)' /\ RoleJobFits(q)'
    <3>1. pc'[q] = pc[q] /\ job'[q] = job[q]
      BY <2>2 DEF JobsFit, Ask
    <3>2. UserJobFits(q) /\ RoleJobFits(q)
      BY DEF JobsFit
    <3>3. UserJobFits(q)'
      BY <1>1, <3>1, <3>2 DEF UserJobFits
    <3>4. RoleJobFits(q)'
      BY <1>1, <3>1, <3>2 DEF RoleJobFits
    <3> QED
      BY <3>3, <3>4
  <2> QED
    BY <2>1, <2>2 DEF JobsFit
<1> QED
  BY <1>2, <1>3, <1>4, <1>5

LEMMA AskToStartKeeps ==
  ASSUME IInv, NEW p \in Procs, AskToStart(p)
  PROVE  IInv'
<1>1. PICK u \in Users : Ask(p, "start", [About(u, u) EXCEPT !.what = [held |-> Holds(u, Admin, None)]])
  BY DEF AskToStart
<1> DEFINE j == [About(u, u) EXCEPT !.what = [held |-> Holds(u, Admin, None)]]
<1>2. /\ j.target = u /\ j.seen = users[u] /\ j.seen \in User
      /\ j.what.held = Holds(u, Admin, None)
  BY DEF About, NoJob, IInv, AccountsTyped
<1>3. users[u].status = "absent" => ~Holds(u, Admin, None)
  BY DEF Holds, Row, IInv, RolesExist, HeldIds, Registered
<1> HIDE DEF j
<1>4. /\ pc'[p] = "start" /\ job'[p] = j
      /\ users' = users /\ roles' = roles /\ given' = given /\ limits' = limits
  BY <1>1, Asked DEF j
<1>5. UserJobFits(p)'
  BY <1>2, <1>3, <1>4 DEF UserJobFits
<1>6. RoleJobFits(p)'
  BY <1>4 DEF RoleJobFits
<1> QED
  BY <1>1, <1>5, <1>6, AskKeeps

LEMMA AskToUpdateProfileKeeps ==
  ASSUME IInv, NEW p \in Procs, AskToUpdateProfile(p)
  PROVE  IInv'
<1>1. PICK u \in Registered, g \in Groups \cup {None}, filled \in BOOLEAN :
        Ask(p, "profile", [About(u, u) EXCEPT !.what = [group |-> g, filled |-> filled]])
  BY DEF AskToUpdateProfile
<1> DEFINE j == [About(u, u) EXCEPT !.what = [group |-> g, filled |-> filled]]
<1>2. /\ j.target = u /\ j.seen = users[u] /\ j.seen \in User
      /\ j.what.group = g /\ j.what.filled = filled
      /\ u \in Users /\ users[u].status # "absent"
  BY DEF About, NoJob, IInv, AccountsTyped, Registered
<1> HIDE DEF j
<1>3. /\ pc'[p] = "profile" /\ job'[p] = j
      /\ users' = users /\ roles' = roles /\ given' = given /\ limits' = limits
  BY <1>1, Asked DEF j
<1>4. UserJobFits(p)'
  BY <1>2, <1>3 DEF UserJobFits
<1>5. RoleJobFits(p)'
  BY <1>3 DEF RoleJobFits
<1> QED
  BY <1>1, <1>4, <1>5, AskKeeps

LEMMA AskToResubmitKeeps ==
  ASSUME IInv, NEW p \in Procs, AskToResubmit(p)
  PROVE  IInv'
<1>1. PICK u \in Registered : users[u].status # "approved" /\ Ask(p, "resubmit", About(u, u))
  BY DEF AskToResubmit
<1>2. /\ About(u, u).target = u /\ About(u, u).seen = users[u] /\ users[u] \in User
      /\ u \in Users /\ users[u].status # "absent"
  BY DEF About, NoJob, IInv, AccountsTyped, Registered
<1>3. u \notin Initial
  BY <1>1 DEF IInv, InitialAdminsKeepRole, Administrators, HoldsAdmin
<1>4. /\ pc'[p] = "resubmit" /\ job'[p] = About(u, u)
      /\ users' = users /\ roles' = roles /\ given' = given /\ limits' = limits
  BY <1>1, Asked
<1>5. UserJobFits(p)'
  BY <1>2, <1>3, <1>4 DEF UserJobFits
<1>6. RoleJobFits(p)'
  BY <1>4 DEF RoleJobFits
<1> QED
  BY <1>1, <1>5, <1>6, AskKeeps

LEMMA AskToModerateKeeps ==
  ASSUME IInv, NEW p \in Procs, AskToModerate(p)
  PROVE  IInv'
<1>1. PICK a \in Registered, t \in Registered, op \in {"approve", "reject", "ban", "delete"} :
        (op # "approve" => t \notin Initial) /\ Ask(p, op, About(a, t))
  BY DEF AskToModerate
<1>2. /\ About(a, t).target = t /\ About(a, t).seen = users[t] /\ users[t] \in User
      /\ t \in Users /\ users[t].status # "absent"
  BY DEF About, NoJob, IInv, AccountsTyped, Registered
<1>3. /\ pc'[p] = op /\ job'[p] = About(a, t)
      /\ users' = users /\ roles' = roles /\ given' = given /\ limits' = limits
  BY <1>1, Asked
<1>4. UserJobFits(p)'
  BY <1>1, <1>2, <1>3 DEF UserJobFits
<1>5. RoleJobFits(p)'
  BY <1>1, <1>3 DEF RoleJobFits
<1> QED
  BY <1>1, <1>4, <1>5, AskKeeps

LEMMA AskToCreateRoleKeeps ==
  ASSUME IInv, NEW p \in Procs, AskToCreateRole(p)
  PROVE  IInv'
<1>1. PICK a \in Registered, name \in RoleNames, keys \in PermissionChoices :
        Ask(p, "new role", Touch(a, None, [name |-> name, keys |-> keys], None))
  BY DEF AskToCreateRole
<1> DEFINE j == Touch(a, None, [name |-> name, keys |-> keys], None)
<1>2. j.what.name \in RoleNames /\ j.what.keys \in SUBSET Permissions
  BY Parties DEF Touch
<1> HIDE DEF j
<1>3. pc'[p] = "new role" /\ job'[p] = j
  BY <1>1, Asked DEF j
<1>4. UserJobFits(p)' /\ RoleJobFits(p)'
  BY <1>2, <1>3 DEF UserJobFits, UserOps, RoleJobFits
<1> QED
  BY <1>1, <1>4, AskKeeps

LEMMA AskToUpdateRoleKeeps ==
  ASSUME IInv, NEW p \in Procs, AskToUpdateRole(p)
  PROVE  IInv'
<1>1. PICK a \in Registered, r \in LiveRoles \ {Admin},
           name \in RoleNames \cup {None}, keys \in PermissionChoices \cup {None} :
        Ask(p, "change role", Touch(a, r, [name |-> name, keys |-> keys], roles[r]))
  BY DEF AskToUpdateRole
<1> DEFINE j == Touch(a, r, [name |-> name, keys |-> keys], roles[r])
<1>2. /\ j.item = r /\ j.what.name \in RoleNames \cup {None}
      /\ j.what.keys = None \/ j.what.keys \in SUBSET Permissions
      /\ j.seen = roles[r]
  BY Parties DEF Touch
<1>3. r \in RoleIds /\ roles[r] \in Role /\ roles[r].state # "unused"
  BY DEF LiveRoles, Roles, IInv, AccountsTyped
<1> HIDE DEF j
<1>4. pc'[p] = "change role" /\ job'[p] = j /\ roles' = roles
  BY <1>1, Asked DEF j
<1>5. UserJobFits(p)' /\ RoleJobFits(p)'
  BY <1>2, <1>3, <1>4 DEF UserJobFits, UserOps, RoleJobFits
<1> QED
  BY <1>1, <1>5, AskKeeps

LEMMA AskToDeleteRoleKeeps ==
  ASSUME IInv, NEW p \in Procs, AskToDeleteRole(p)
  PROVE  IInv'
<1>1. PICK a \in Registered, r \in LiveRoles \ {Admin} : Ask(p, "delete role", Touch(a, r, None, None))
  BY DEF AskToDeleteRole
<1>2. Touch(a, r, None, None).item = r
  BY DEF Touch
<1>3. r \in RoleIds /\ roles[r].state # "unused"
  BY DEF LiveRoles, Roles
<1>4. pc'[p] = "delete role" /\ job'[p] = Touch(a, r, None, None) /\ roles' = roles
  BY <1>1, Asked
<1>5. UserJobFits(p)' /\ RoleJobFits(p)'
  BY <1>2, <1>3, <1>4 DEF UserJobFits, UserOps, RoleJobFits
<1> QED
  BY <1>1, <1>5, AskKeeps

LEMMA AskToAssignKeeps ==
  ASSUME IInv, NEW p \in Procs, AskToAssign(p)
  PROVE  IInv'
<1>1. PICK a \in Registered, t \in Registered, r \in LiveRoles, g \in Groups \cup {None} :
        Ask(p, "assign", [About(a, t) EXCEPT !.item = r, !.what = g])
  BY DEF AskToAssign
<1> DEFINE j == [About(a, t) EXCEPT !.item = r, !.what = g]
<1>2. j.target = t /\ j.item = r /\ j.what = g
  BY DEF About, NoJob
<1>3. t \in Users /\ users[t].status # "absent" /\ r \in Roles
  BY DEF Registered, LiveRoles
<1> HIDE DEF j
<1>4. pc'[p] = "assign" /\ job'[p] = j /\ users' = users
  BY <1>1, Asked DEF j
<1>5. UserJobFits(p)' /\ RoleJobFits(p)'
  BY <1>2, <1>3, <1>4 DEF UserJobFits, UserOps, RoleJobFits
<1> QED
  BY <1>1, <1>5, AskKeeps

LEMMA AskToRevokeKeeps ==
  ASSUME IInv, NEW p \in Procs, AskToRevoke(p)
  PROVE  IInv'
<1>1. PICK a \in Registered, x \in HeldIds :
        /\ given[x].role = Admin => given[x].user \notin Initial
        /\ Ask(p, "revoke", Touch(a, x, None, None))
  BY DEF AskToRevoke
<1>2. Touch(a, x, None, None).item = x
  BY DEF Touch
<1>3. x \in AssignmentIds /\ given[x].state # "unused" /\ \A u \in Initial : given[x] # Row(u, Admin, None)
  BY <1>1 DEF HeldIds, Row
<1>4. pc'[p] = "revoke" /\ job'[p] = Touch(a, x, None, None) /\ given' = given
  BY <1>1, Asked
<1>5. UserJobFits(p)' /\ RoleJobFits(p)'
  BY <1>2, <1>3, <1>4 DEF UserJobFits, UserOps, RoleJobFits
<1> QED
  BY <1>1, <1>5, AskKeeps

LEMMA AskToSetLimitsKeeps ==
  ASSUME IInv, NEW p \in Procs, AskToSetLimits(p)
  PROVE  IInv'
<1>1. PICK a \in Registered, weekly \in LimitChoices \cup {None}, daily \in LimitChoices \cup {0, None} :
        Ask(p, "limits", Touch(a, None, [weekly |-> weekly, daily |-> daily], limits))
  BY DEF AskToSetLimits
<1> DEFINE j == Touch(a, None, [weekly |-> weekly, daily |-> daily], limits)
<1>2. j.what.weekly \in Nat \cup {None} /\ j.what.daily \in Nat \cup {None}
  BY Parties DEF Touch
<1> HIDE DEF j
<1>3. pc'[p] = "limits" /\ job'[p] = j
  BY <1>1, Asked DEF j
<1>4. UserJobFits(p)' /\ RoleJobFits(p)'
  BY <1>2, <1>3 DEF UserJobFits, UserOps, RoleJobFits
<1> QED
  BY <1>1, <1>4, AskKeeps

\* Requests about bands and concerts.
ClubOps ==
  {"new band", "join", "responsible", "transfer", "remove", "delete band",
   "new concert", "concert", "submit", "withdraw"}

LEMMA ClubOpKeeps ==
  ASSUME IInv, NEW p \in Procs, NEW op \in ClubOps, NEW j, Ask(p, op, j)
  PROVE  IInv'
<1>1. pc'[p] = op
  BY Asked
<1>2. op \notin UserOps /\ op \notin RoleOps
  BY DEF ClubOps, UserOps, RoleOps
<1>3. UserJobFits(p)' /\ RoleJobFits(p)'
  BY <1>1, <1>2 DEF UserJobFits, RoleJobFits, UserOps, RoleOps
<1> QED
  BY <1>3, AskKeeps

LEMMA AsksAboutClubKeep ==
  ASSUME IInv, NEW p \in Procs, AsksAboutClub(p)
  PROVE  IInv'
<1>1. CASE AskToCreateBand(p)
  <2>1. \E a \in Registered : Ask(p, "new band", Touch(a, None, None, users[a].group))
    BY <1>1 DEF AskToCreateBand, Asks
  <2> QED
    BY <2>1, ClubOpKeeps DEF ClubOps
<1>2. CASE AskToJoin(p)
  <2>1. \E a \in Registered, b \in LiveBands : Ask(p, "join", Touch(a, b, None, None))
    BY <1>2 DEF AskToJoin, Asks
  <2> QED
    BY <2>1, ClubOpKeeps DEF ClubOps
<1>3. CASE AskAboutMember(p)
  <2>1. \E op \in {"responsible", "transfer", "remove"} : \E j : Ask(p, op, j)
    BY <1>3 DEF AskAboutMember, Asks
  <2> QED
    BY <2>1, ClubOpKeeps DEF ClubOps
<1>4. CASE AskToDeleteBand(p)
  <2>1. \E j : Ask(p, "delete band", j)
    BY <1>4 DEF AskToDeleteBand, Asks
  <2> QED
    BY <2>1, ClubOpKeeps DEF ClubOps
<1>5. CASE AskToCreateEvent(p)
  <2>1. \E j : Ask(p, "new concert", j)
    BY <1>5 DEF AskToCreateEvent, Asks
  <2> QED
    BY <2>1, ClubOpKeeps DEF ClubOps
<1>6. CASE AskToUpdateEvent(p)
  <2>1. \E j : Ask(p, "concert", j)
    BY <1>6 DEF AskToUpdateEvent, Asks
  <2> QED
    BY <2>1, ClubOpKeeps DEF ClubOps
<1>7. CASE AskToSubmit(p) \/ AskToUpdateApplication(p)
  <2>1. \E j : Ask(p, "submit", j)
    BY <1>7 DEF AskToSubmit, AskToUpdateApplication, Asks
  <2> QED
    BY <2>1, ClubOpKeeps DEF ClubOps
<1>8. CASE AskToDeleteApplication(p)
  <2>1. \E j : Ask(p, "withdraw", j)
    BY <1>8 DEF AskToDeleteApplication, Asks
  <2> QED
    BY <2>1, ClubOpKeeps DEF ClubOps
<1> QED
  BY <1>1, <1>2, <1>3, <1>4, <1>5, <1>6, <1>7, <1>8 DEF AsksAboutClub

LEMMA ChangesClubKeep ==
  ASSUME IInv, NEW p \in Procs, ChangesClub(p)
  PROVE  IInv'
<1>1. Ends(p) /\ UNCHANGED tables
  <2>1. Refused(p) => Ends(p) /\ UNCHANGED tables
    BY DEF Refused, Aborts
  <2>2. Done(p) => Ends(p) /\ UNCHANGED tables
    BY DEF Done, Commits
  <2>3. Refused(p) \/ Done(p)
    BY DEF ChangesClub, CreateBand, Join, SetResponsible, Transfer, Remove, DeleteBand,
           CreateEvent, UpdateEvent, Submit, DeleteApplication
  <2> QED
    BY <2>1, <2>2, <2>3
<1> QED
  BY <1>1, EndKeeps

-----------------------------------------------------------------------------
(* Steps of no request *)

\* What a step leaves alone that changes neither the tables nor a request.
LEMMA IdleStep ==
  ASSUME IInv, UNCHANGED <<users, roles, given, limits, pc, job>>
  PROVE  IInv'
<1>1. users' = users /\ roles' = roles /\ given' = given /\ limits' = limits /\ pc' = pc /\ job' = job
  OBVIOUS
<1>2. AccountsTyped'
  BY <1>1 DEF IInv, AccountsTyped
<1>3. RolesExist'
  BY <1>1 DEF IInv, RolesExist, LiveRoles, HeldIds, Registered
<1>4. InitialAdminsKeepRole'
  BY <1>1 DEF IInv, InitialAdminsKeepRole, Registered, Administrators, HoldsAdmin, Holds
<1>5. JobsFit'
  <2>1. ASSUME NEW q \in Procs
        PROVE  UserJobFits(q)' /\ RoleJobFits(q)'
    BY <1>1 DEF IInv, JobsFit, UserJobFits, RoleJobFits
  <2> QED
    BY <1>1, <2>1 DEF IInv, JobsFit
<1> QED
  BY <1>2, <1>3, <1>4, <1>5 DEF IInv

LEMMA CoolDownKeeps ==
  ASSUME IInv, CoolDown
  PROVE  IInv'
<1> USE DEF IInv
<1>1. PICK u \in Users :
        /\ users' = [users EXCEPT ![u].cooling = FALSE]
        /\ roles' = roles /\ given' = given /\ limits' = limits /\ pc' = pc /\ job' = job
  BY DEF CoolDown
<1>2. users' \in [Users -> User] /\ \A v \in Users : users'[v].status = users[v].status
  BY <1>1 DEF AccountsTyped, User
<1>3. AccountsTyped'
  BY <1>1, <1>2 DEF AccountsTyped
<1>4. Registered' = Registered
  BY <1>2 DEF Registered
<1>5. RolesExist'
  BY <1>1, <1>4 DEF RolesExist, LiveRoles, HeldIds
<1>6. InitialAdminsKeepRole'
  BY <1>1, <1>2, Parties DEF InitialAdminsKeepRole, Registered, Administrators, HoldsAdmin, Holds
<1>7. JobsFit'
  <2>1. ASSUME NEW q \in Procs
        PROVE  UserJobFits(q)' /\ RoleJobFits(q)'
    <3>1. UserJobFits(q) /\ RoleJobFits(q)
      BY DEF JobsFit
    <3>2. UserJobFits(q)'
      BY <1>1, <1>2, <3>1 DEF UserJobFits
    <3>3. RoleJobFits(q)'
      BY <1>1, <1>2, <3>1 DEF RoleJobFits
    <3> QED
      BY <3>2, <3>3
  <2> QED
    BY <1>1, <2>1 DEF JobsFit
<1> QED
  BY <1>3, <1>5, <1>6, <1>7

-----------------------------------------------------------------------------
(* Starting and starting again *)

\* What the program does to the tables it finds when it starts.
LEMMA Seeded ==
  ASSUME NEW us \in [Users -> User], NEW gs \in [AssignmentIds -> Assignment], NEW id \in FreeIds(us, gs)
  PROVE  /\ SeededUsers(us) \in [Users -> User]
         /\ \A u \in Users : SeededUsers(us)[u].status = "absent" <=> us[u].status = "absent"
         /\ \A u \in Initial : us[u].status # "absent" => SeededUsers(us)[u].status = "approved"
         /\ SeededGiven(us, gs, id) \in [AssignmentIds -> Assignment]
         /\ \A x \in AssignmentIds :
              /\ gs[x].state # "unused" => SeededGiven(us, gs, id)[x] = gs[x]
              /\ \/ SeededGiven(us, gs, id)[x] = gs[x]
                 \/ \E u \in Initial :
                      us[u].status # "absent" /\ SeededGiven(us, gs, id)[x] = Row(u, Admin, None)
         /\ \A u \in Initial : us[u].status # "absent" =>
              \E x \in AssignmentIds : SeededGiven(us, gs, id)[x] = Row(u, Admin, None)
<1> DEFINE SU == SeededUsers(us)
           SG == SeededGiven(us, gs, id)
           L == Lacking(us, gs)
<1>1. \A u \in Users :
        /\ SU[u] = IF u \in Initial /\ us[u].status # "absent" THEN [us[u] EXCEPT !.status = "approved"] ELSE us[u]
        /\ us[u] \in User
  BY DEF SeededUsers
<1>2. /\ SU \in [Users -> User]
      /\ \A u \in Users : SU[u].status = "absent" <=> us[u].status = "absent"
      /\ \A u \in Initial : us[u].status # "absent" => SU[u].status = "approved"
  <2>1. \A u \in Users : SU[u] \in User
    BY <1>1 DEF User, Statuses
  <2>2. \A u \in Users : u \in Initial /\ us[u].status # "absent" => SU[u].status = "approved"
    BY <1>1 DEF User
  <2>3. \A u \in Users : ~(u \in Initial /\ us[u].status # "absent") => SU[u] = us[u]
    BY <1>1
  <2>4. SU \in [Users -> User]
    BY <2>1 DEF SeededUsers
  <2> QED
    BY <2>2, <2>3, <2>4, Parties
<1>3. /\ id \in [L -> AssignmentIds]
      /\ \A u \in L : gs[id[u]].state = "unused"
      /\ \A u, v \in L : id[u] = id[v] => u = v
  BY DEF FreeIds
<1>4. \A u \in L : u \in Users /\ u \in Initial /\ us[u].status # "absent"
  BY Parties DEF Lacking
<1>5. ASSUME NEW u \in L
      PROVE  SG[id[u]] = Row(u, Admin, None)
  <2>1. id[u] \in AssignmentIds
    BY <1>3
  <2>2. (CHOOSE v \in L : id[v] = id[u]) = u
    BY <1>3
  <2> QED
    BY <2>1, <2>2 DEF SeededGiven
<1>6. ASSUME NEW x \in AssignmentIds, \A u \in L : id[u] # x
      PROVE  SG[x] = gs[x]
  BY <1>6 DEF SeededGiven
<1>7. \A u \in L : Row(u, Admin, None) \in Assignment
  BY <1>4 DEF Row, Assignment, Roles
<1>8. ASSUME NEW x \in AssignmentIds
      PROVE  /\ SG[x] \in Assignment
             /\ gs[x].state # "unused" => SG[x] = gs[x]
             /\ \/ SG[x] = gs[x]
                \/ \E u \in Initial : us[u].status # "absent" /\ SG[x] = Row(u, Admin, None)
  <2>1. CASE \A u \in L : id[u] # x
    BY <1>6, <2>1
  <2>2. CASE \E u \in L : id[u] = x
    BY <1>3, <1>4, <1>5, <1>7, <2>2
  <2> QED
    BY <2>1, <2>2
<1>9. SG \in [AssignmentIds -> Assignment]
  BY <1>8 DEF SeededGiven
<1>10. ASSUME NEW u \in Initial, us[u].status # "absent"
       PROVE  \E x \in AssignmentIds : SG[x] = Row(u, Admin, None)
  <2>1. CASE u \in L
    BY <1>3, <1>5, <2>1
  <2>2. CASE u \notin L
    <3>1. PICK x \in AssignmentIds : gs[x] = Row(u, Admin, None)
      BY <1>10, <2>2 DEF Lacking
    <3>2. gs[x].state # "unused"
      BY <3>1 DEF Row
    <3> QED
      BY <1>8, <3>1, <3>2
  <2> QED
    BY <2>1, <2>2
<1> QED
  BY <1>2, <1>8, <1>9, <1>10

\* Nobody is in the middle of a request.
LEMMA IdleFits ==
  ASSUME pc = AllIdle, job = NoJobs
  PROVE  JobsFit
BY DEF AllIdle, NoJobs, JobsFit, UserJobFits, RoleJobFits, UserOps

LEMMA InitKeeps ==
  ASSUME AccountsInit
  PROVE  IInv
<1>1. PICK c \in Clubs : AccountsStart(c)
  BY DEF AccountsInit
<1>2. /\ c.users \in [Users -> User] /\ c.roles \in [Roles -> Role]
      /\ c.given \in [AssignmentIds -> Assignment] /\ c.limits \in [weekly : Nat, daily : Nat]
      /\ c.roles[Admin].state = "live"
      /\ \A q, r \in Roles :
           c.roles[q].state = "live" /\ c.roles[r].state = "live" /\ q # r
             => c.roles[q].name # c.roles[r].name
      /\ \A x \in AssignmentIds :
           c.given[x].state = "held"
             => /\ c.given[x].role \in Roles /\ c.roles[c.given[x].role].state = "live"
                /\ c.given[x].user \in Users /\ c.users[c.given[x].user].status # "absent"
  BY AccountsAssumption
<1>3. PICK id \in FreeIds(c.users, c.given) : given = SeededGiven(c.users, c.given, id)
  BY <1>1 DEF AccountsStart
<1>4. users = SeededUsers(c.users) /\ roles = c.roles /\ limits = c.limits /\ pc = AllIdle /\ job = NoJobs
  BY <1>1 DEF AccountsStart
<1>5. /\ users \in [Users -> User]
      /\ \A u \in Users : users[u].status = "absent" <=> c.users[u].status = "absent"
      /\ \A u \in Initial : c.users[u].status # "absent" => users[u].status = "approved"
      /\ given \in [AssignmentIds -> Assignment]
      /\ \A x \in AssignmentIds :
           \/ given[x] = c.given[x]
           \/ \E u \in Initial : c.users[u].status # "absent" /\ given[x] = Row(u, Admin, None)
      /\ \A u \in Initial : c.users[u].status # "absent" =>
           \E x \in AssignmentIds : given[x] = Row(u, Admin, None)
  BY <1>2, <1>3, <1>4, Seeded
<1>6. AccountsTyped
  BY <1>2, <1>4, <1>5 DEF AccountsTyped
<1>7. RolesExist
  <2>1. Admin \in LiveRoles
    BY <1>2, <1>4 DEF LiveRoles, Roles
  <2>2. ASSUME NEW x \in HeldIds
        PROVE  given[x].role \in LiveRoles /\ given[x].user \in Registered
    <3>1. x \in AssignmentIds /\ given[x].state = "held"
      BY DEF HeldIds
    <3>2. CASE given[x] = c.given[x]
      BY <1>2, <1>4, <1>5, <3>1, <3>2 DEF LiveRoles, Registered
    <3>3. CASE \E u \in Initial : c.users[u].status # "absent" /\ given[x] = Row(u, Admin, None)
      <4>1. PICK u \in Initial : c.users[u].status # "absent" /\ given[x] = Row(u, Admin, None)
        BY <3>3
      <4>2. given[x].role = Admin /\ given[x].user = u
        BY <4>1 DEF Row
      <4> QED
        BY <1>5, <2>1, <4>1, <4>2, Parties DEF Registered
    <3> QED
      BY <1>5, <3>1, <3>2, <3>3
  <2>3. \A q, r \in LiveRoles : q # r => roles[q].name # roles[r].name
    BY <1>2, <1>4 DEF LiveRoles
  <2> QED
    BY <2>1, <2>2, <2>3 DEF RolesExist
<1>8. InitialAdminsKeepRole
  BY <1>5, Parties DEF InitialAdminsKeepRole, Registered, Administrators, HoldsAdmin, Holds
<1>9. JobsFit
  BY <1>4, IdleFits
<1> QED
  BY <1>6, <1>7, <1>8, <1>9 DEF IInv

LEMMA RestartKeeps ==
  ASSUME IInv, Restart
  PROVE  IInv'
<1> USE DEF IInv
<1>1. PICK id \in FreeIds(users, given) : given' = SeededGiven(users, given, id)
  BY DEF Restart
<1>2. /\ users' = SeededUsers(users) /\ roles' = roles /\ limits' = limits
      /\ pc' = AllIdle /\ job' = NoJobs
  BY DEF Restart
<1>3. users \in [Users -> User] /\ given \in [AssignmentIds -> Assignment]
  BY DEF AccountsTyped
<1>4. /\ users' \in [Users -> User]
      /\ \A u \in Users : users'[u].status = "absent" <=> users[u].status = "absent"
      /\ \A u \in Initial : users[u].status # "absent" => users'[u].status = "approved"
      /\ given' \in [AssignmentIds -> Assignment]
      /\ \A x \in AssignmentIds :
           /\ given[x].state # "unused" => given'[x] = given[x]
           /\ \/ given'[x] = given[x]
              \/ \E u \in Initial : users[u].status # "absent" /\ given'[x] = Row(u, Admin, None)
      /\ \A u \in Initial : users[u].status # "absent" =>
           \E x \in AssignmentIds : given'[x] = Row(u, Admin, None)
  BY <1>1, <1>2, <1>3, Seeded
<1>5. AccountsTyped'
  BY <1>2, <1>4 DEF AccountsTyped
<1>6. Grows
  BY <1>2, <1>4 DEF Grows
<1>7. RolesExist'
  <2>1. Admin \in LiveRoles
    BY DEF RolesExist
  <2>2. ASSUME NEW x \in AssignmentIds, given'[x] # given[x]
        PROVE  /\ given'[x].role \in LiveRoles
               /\ given'[x].user \in Users /\ users'[given'[x].user].status # "absent"
    <3>1. PICK u \in Initial : users[u].status # "absent" /\ given'[x] = Row(u, Admin, None)
      BY <1>4, <2>2
    <3>2. given'[x].role = Admin /\ given'[x].user = u
      BY <3>1 DEF Row
    <3> QED
      BY <1>4, <2>1, <3>1, <3>2, Parties
  <2> QED
    BY <1>2, <1>5, <1>6, <2>2, RowsFit
<1>8. InitialAdminsKeepRole'
  BY <1>4, Parties DEF InitialAdminsKeepRole, Registered, Administrators, HoldsAdmin, Holds
<1>9. JobsFit'
  BY <1>2 DEF AllIdle, NoJobs, JobsFit, UserJobFits, RoleJobFits, UserOps
<1> QED
  BY <1>5, <1>7, <1>8, <1>9

-----------------------------------------------------------------------------
LEMMA NextKeeps == IInv /\ [ClubNext]_clubVars => IInv'
<1>1. ASSUME IInv, UNCHANGED clubVars
      PROVE  IInv'
  <2>1. UNCHANGED <<users, roles, given, limits, pc, job>>
    BY <1>1 DEF clubVars, accountVars, tables
  <2> QED
    BY <1>1, <2>1, IdleStep
<1>2. ASSUME IInv, NEW p \in Procs, AsksAboutAccounts(p)
      PROVE  IInv'
  BY <1>2, AskToStartKeeps, AskToUpdateProfileKeeps, AskToResubmitKeeps, AskToModerateKeeps,
     AskToCreateRoleKeeps, AskToUpdateRoleKeeps, AskToDeleteRoleKeeps, AskToAssignKeeps,
     AskToRevokeKeeps, AskToSetLimitsKeeps DEF AsksAboutAccounts
<1>3. ASSUME IInv, NEW p \in Procs, ChangesAccounts(p)
      PROVE  IInv'
  BY <1>3, StartKeeps, UpdateProfileKeeps, ResubmitKeeps, ApproveKeeps, RejectKeeps, BanKeeps,
     SoftDeleteKeeps, CreateRoleKeeps, UpdateRoleKeeps, DeleteRoleKeeps, AssignKeeps, RevokeKeeps,
     SetLimitsKeeps DEF ChangesAccounts
<1>4. ASSUME IInv, DeadlinePasses
      PROVE  IInv'
  <2>1. UNCHANGED <<users, roles, given, limits, pc, job>>
    BY <1>4 DEF DeadlinePasses, tables
  <2> QED
    BY <1>4, <2>1, IdleStep
<1> QED
  BY <1>1, <1>2, <1>3, <1>4, CoolDownKeeps, RestartKeeps, AsksAboutClubKeep, ChangesClubKeep
     DEF ClubNext, AccountsNext

LEMMA InvHolds == ClubSpec => []IInv
<1>1. ClubInit => IInv
  BY InitKeeps DEF ClubInit, AccountsInit
<1>2. IInv /\ [ClubNext]_clubVars => IInv'
  BY NextKeeps
<1> QED
  BY <1>1, <1>2, PTL DEF ClubSpec

(***************************************************************************)
(* For every club and however many requests come at once, an initial       *)
(* administrator who has registered stays approved and keeps the system    *)
(* role (users.py, roles.py, permissions.py): no moderator, no role and no *)
(* stale decision can take it away.                                        *)
(***************************************************************************)
THEOREM InitialAdminsSafe == ClubSpec => []InitialAdminsKeepRole
<1>1. IInv => InitialAdminsKeepRole
  BY DEF IInv
<1> QED
  BY <1>1, InvHolds, PTL

(***************************************************************************)
(* For every club, every assignment names a role and a user that exist, no *)
(* two roles have one name, and the system role is never lost, whatever is *)
(* created, renamed, deleted and given at once (roles.py).                 *)
(***************************************************************************)
THEOREM RolesStayWhole == ClubSpec => [](AccountsTyped /\ RolesExist)
<1>1. IInv => AccountsTyped /\ RolesExist
  BY DEF IInv
<1> QED
  BY <1>1, InvHolds, PTL

-----------------------------------------------------------------------------
(* Bands, concerts and lists.  The rows belong together because a request   *)
(* that inserts one looks at the tables as they are when it commits (the     *)
(* constraints do), and because ids are not used again.                      *)

\* What the requests about bands and concerts bring along.
ClubJobFits(p) ==
  /\ pc[p] = "new band" => job[p].actor \in Users /\ job[p].seen \in Groups \cup {None}
  /\ pc[p] = "join" => job[p].actor \in Users /\ job[p].item \in BandIds
  /\ pc[p] \in {"responsible", "transfer", "remove"} =>
       /\ job[p].item \in BandIds
       /\ job[p].what.member \in DOMAIN job[p].seen.members
       /\ DOMAIN job[p].seen.members \subseteq MemberIds
       /\ \A n \in DOMAIN job[p].seen.members : job[p].seen.members[n] \in Member
  /\ pc[p] = "delete band" => job[p].item \in BandIds
  /\ pc[p] = "concert" =>
       /\ job[p].item \in Concerts /\ concerts[job[p].item] # "unused"
       /\ job[p].what.status \in {"open", "closed"}
  /\ pc[p] = "submit" =>
       /\ job[p].what.band \in BandIds
       /\ job[p].what.concert \in Concerts /\ concerts[job[p].what.concert] # "unused"
       /\ job[p].what.list \in SUBSET Users /\ job[p].what.number \in 0 .. MaxRequests
       /\ job[p].item \in ApplicationIds \cup {None}
  /\ pc[p] = "withdraw" => job[p].item \in ApplicationIds

CInv ==
  /\ TablesTyped(bands, members, concerts, applications)
  /\ Together(bands, members, concerts, applications)
  /\ requests \in Nat
  /\ \A p \in Procs : ClubJobFits(p)

\* Rows that are changed without being moved, or that go, do no harm, as long
\* as no band goes.
LEMMA RowsGo ==
  ASSUME NEW bs, NEW ms, NEW cs, NEW as, NEW bt, NEW mt, NEW ct, NEW at,
         Together(bs, ms, cs, as),
         \A b \in BandIds : bs[b].state = "live" => bt[b].state = "live",
         \A m \in MemberIds : mt[m].state = "live" =>
           ms[m].state = "live" /\ mt[m].band = ms[m].band /\ mt[m].user = ms[m].user,
         \A c \in Concerts : cs[c] # "unused" => ct[c] # "unused",
         \A x \in ApplicationIds : at[x].state = "live" =>
           /\ as[x].state = "live" /\ at[x].band = as[x].band /\ at[x].concert = as[x].concert
           /\ \A r, s \in at[x].list : r[1] = s[1] => r = s
  PROVE  Together(bt, mt, ct, at)
<1>1. ASSUME NEW m \in MemberIds, mt[m].state = "live"
      PROVE  /\ mt[m].band \in {b \in BandIds : bt[b].state = "live"}
             /\ \A n \in MemberIds :
                  mt[n].state = "live" /\ mt[n].band = mt[m].band /\ mt[n].user = mt[m].user => n = m
  <2>1. ms[m].state = "live" /\ mt[m].band = ms[m].band /\ mt[m].user = ms[m].user
    BY <1>1
  <2>2. /\ ms[m].band \in BandIds /\ bs[ms[m].band].state = "live"
        /\ \A n \in MemberIds :
             ms[n].state = "live" /\ ms[n].band = ms[m].band /\ ms[n].user = ms[m].user => n = m
    BY <2>1 DEF Together
  <2> QED
    BY <2>1, <2>2
<1>2. ASSUME NEW x \in ApplicationIds, at[x].state = "live"
      PROVE  /\ at[x].band \in {b \in BandIds : bt[b].state = "live"}
             /\ at[x].concert \in {c \in Concerts : ct[c] # "unused"}
             /\ \A r, s \in at[x].list : r[1] = s[1] => r = s
             /\ \A y \in ApplicationIds :
                  at[y].state = "live" /\ at[y].band = at[x].band /\ at[y].concert = at[x].concert => y = x
  <2>1. as[x].state = "live" /\ at[x].band = as[x].band /\ at[x].concert = as[x].concert
    BY <1>2
  <2>2. /\ as[x].band \in BandIds /\ bs[as[x].band].state = "live"
        /\ as[x].concert \in Concerts /\ cs[as[x].concert] # "unused"
        /\ \A y \in ApplicationIds :
             as[y].state = "live" /\ as[y].band = as[x].band /\ as[y].concert = as[x].concert => y = x
    BY <2>1 DEF Together
  <2> QED
    BY <1>2, <2>1, <2>2
<1> QED
  BY <1>1, <1>2 DEF Together

\* Somebody comes to a band without being in it.
LEMMA MemberComes ==
  ASSUME NEW bs, NEW ms \in [MemberIds -> Member], NEW cs, NEW as, NEW mt,
         Together(bs, ms, cs, as),
         NEW m \in MemberIds, NEW row, ms[m].state = "unused", mt = [ms EXCEPT ![m] = row],
         row.state = "live", row.band \in BandIds, bs[row.band].state = "live",
         \A n \in MemberIds : ~(ms[n].state = "live" /\ ms[n].band = row.band /\ ms[n].user = row.user)
  PROVE  Together(bs, mt, cs, as)
<1>1. mt[m] = row /\ \A n \in MemberIds \ {m} : mt[n] = ms[n]
  OBVIOUS
<1>2. ASSUME NEW n \in MemberIds, mt[n].state = "live"
      PROVE  /\ mt[n].band \in {b \in BandIds : bs[b].state = "live"}
             /\ \A k \in MemberIds :
                  mt[k].state = "live" /\ mt[k].band = mt[n].band /\ mt[k].user = mt[n].user => k = n
  <2>1. CASE n = m
    BY <1>1, <2>1
  <2>2. CASE n # m
    <3>1. mt[n] = ms[n] /\ ms[n].state = "live"
      BY <1>1, <1>2, <2>2
    <3>2. /\ ms[n].band \in {b \in BandIds : bs[b].state = "live"}
          /\ \A k \in MemberIds :
               ms[k].state = "live" /\ ms[k].band = ms[n].band /\ ms[k].user = ms[n].user => k = n
      BY <3>1 DEF Together
    <3>3. \A k \in MemberIds :
            mt[k].state = "live" /\ mt[k].band = mt[n].band /\ mt[k].user = mt[n].user => k = n
      BY <1>1, <3>1, <3>2
    <3> QED
      BY <3>1, <3>2, <3>3
  <2> QED
    BY <2>1, <2>2
<1> QED
  BY <1>2 DEF Together

\* A band hands in its first list for a concert.
LEMMA ListComes ==
  ASSUME NEW bs, NEW ms, NEW cs, NEW as \in [ApplicationIds -> Application], NEW at,
         Together(bs, ms, cs, as),
         NEW x \in ApplicationIds, NEW row, at = [as EXCEPT ![x] = row],
         row.band \in BandIds, bs[row.band].state = "live",
         row.concert \in Concerts, cs[row.concert] # "unused",
         \A r, s \in row.list : r[1] = s[1] => r = s,
         \A y \in ApplicationIds : ~(as[y].state = "live" /\ as[y].band = row.band /\ as[y].concert = row.concert)
  PROVE  Together(bs, ms, cs, at)
<1>1. at[x] = row /\ \A y \in ApplicationIds \ {x} : at[y] = as[y]
  OBVIOUS
<1>2. ASSUME NEW y \in ApplicationIds, at[y].state = "live"
      PROVE  /\ at[y].band \in {b \in BandIds : bs[b].state = "live"}
             /\ at[y].concert \in {c \in Concerts : cs[c] # "unused"}
             /\ \A r, s \in at[y].list : r[1] = s[1] => r = s
             /\ \A z \in ApplicationIds :
                  at[z].state = "live" /\ at[z].band = at[y].band /\ at[z].concert = at[y].concert => z = y
  <2>1. CASE y = x
    BY <1>1, <2>1
  <2>2. CASE y # x
    <3>1. at[y] = as[y] /\ as[y].state = "live"
      BY <1>1, <1>2, <2>2
    <3>2. /\ as[y].band \in {b \in BandIds : bs[b].state = "live"}
          /\ as[y].concert \in {c \in Concerts : cs[c] # "unused"}
          /\ \A r, s \in as[y].list : r[1] = s[1] => r = s
          /\ \A z \in ApplicationIds :
               as[z].state = "live" /\ as[z].band = as[y].band /\ as[z].concert = as[y].concert => z = y
      BY <3>1 DEF Together
    <3>3. \A z \in ApplicationIds :
            at[z].state = "live" /\ at[z].band = at[y].band /\ at[z].concert = at[y].concert => z = y
      BY <1>1, <3>1, <3>2
    <3> QED
      BY <3>1, <3>2, <3>3
  <2> QED
    BY <2>1, <2>2
<1> QED
  BY <1>2 DEF Together

\* A band goes together with all that refers to it.
LEMMA BandGoes ==
  ASSUME NEW bs, NEW ms, NEW cs, NEW as, NEW bt, NEW mt, NEW at,
         Together(bs, ms, cs, as),
         \A m \in MemberIds : mt[m].state = "live" => mt[m] = ms[m] /\ bt[ms[m].band] = bs[ms[m].band],
         \A x \in ApplicationIds : at[x].state = "live" => at[x] = as[x] /\ bt[as[x].band] = bs[as[x].band]
  PROVE  Together(bt, mt, cs, at)
<1>1. ASSUME NEW m \in MemberIds, mt[m].state = "live"
      PROVE  /\ mt[m].band \in {a \in BandIds : bt[a].state = "live"}
             /\ \A n \in MemberIds :
                  mt[n].state = "live" /\ mt[n].band = mt[m].band /\ mt[n].user = mt[m].user => n = m
  <2>1. mt[m] = ms[m] /\ ms[m].state = "live" /\ bt[ms[m].band] = bs[ms[m].band]
    BY <1>1
  <2>2. /\ ms[m].band \in BandIds /\ bs[ms[m].band].state = "live"
        /\ \A n \in MemberIds :
             ms[n].state = "live" /\ ms[n].band = ms[m].band /\ ms[n].user = ms[m].user => n = m
    BY <2>1 DEF Together
  <2>3. \A n \in MemberIds :
          mt[n].state = "live" /\ mt[n].band = mt[m].band /\ mt[n].user = mt[m].user => n = m
    BY <2>1, <2>2
  <2> QED
    BY <2>1, <2>2, <2>3
<1>2. ASSUME NEW x \in ApplicationIds, at[x].state = "live"
      PROVE  /\ at[x].band \in {a \in BandIds : bt[a].state = "live"}
             /\ at[x].concert \in {c \in Concerts : cs[c] # "unused"}
             /\ \A r, s \in at[x].list : r[1] = s[1] => r = s
             /\ \A y \in ApplicationIds :
                  at[y].state = "live" /\ at[y].band = at[x].band /\ at[y].concert = at[x].concert => y = x
  <2>1. at[x] = as[x] /\ as[x].state = "live" /\ bt[as[x].band] = bs[as[x].band]
    BY <1>2
  <2>2. /\ as[x].band \in BandIds /\ bs[as[x].band].state = "live"
        /\ as[x].concert \in {c \in Concerts : cs[c] # "unused"}
        /\ \A r, s \in as[x].list : r[1] = s[1] => r = s
        /\ \A y \in ApplicationIds :
             as[y].state = "live" /\ as[y].band = as[x].band /\ as[y].concert = as[x].concert => y = x
    BY <2>1 DEF Together
  <2>3. \A y \in ApplicationIds :
          at[y].state = "live" /\ at[y].band = at[x].band /\ at[y].concert = at[x].concert => y = x
    BY <2>1, <2>2
  <2> QED
    BY <2>1, <2>2, <2>3
<1> QED
  BY <1>1, <1>2 DEF Together

\* A request that ends leaves the others as they were, if no concert is taken
\* back.
LEMMA ClubEnds ==
  ASSUME IInv, CInv, NEW p \in Procs, Ends(p),
         \A c \in Concerts : concerts[c] # "unused" => concerts'[c] # "unused"
  PROVE  requests' \in Nat /\ \A q \in Procs : ClubJobFits(q)'
<1>1. requests' = requests /\ requests \in Nat
  BY DEF CInv, Ends
<1>2. ASSUME NEW q \in Procs
      PROVE  ClubJobFits(q)'
  <2>1. CASE q = p
    <3>1. pc'[p] = "idle"
      BY DEF IInv, JobsFit, Ends
    <3> QED
      BY <2>1, <3>1 DEF ClubJobFits
  <2>2. CASE q # p
    <3>1. pc'[q] = pc[q] /\ job'[q] = job[q]
      BY <2>2 DEF IInv, JobsFit, Ends
    <3>2. ClubJobFits(q)
      BY DEF CInv
    <3> QED
      BY <3>1, <3>2 DEF ClubJobFits
  <2> QED
    BY <2>1, <2>2
<1> QED
  BY <1>1, <1>2

\* A request that has read what it needs.
LEMMA ClubAsked ==
  ASSUME IInv, CInv, NEW p \in Procs, NEW op, NEW j, Ask(p, op, j), UNCHANGED clubTables, ClubJobFits(p)'
  PROVE  CInv'
<1>1. UNCHANGED <<bands, members, concerts, applications>> /\ requests' \in Nat
  BY DEF CInv, clubTables, Ask
<1>2. ASSUME NEW q \in Procs, q # p
      PROVE  ClubJobFits(q)'
  <2>1. pc'[q] = pc[q] /\ job'[q] = job[q]
    BY <1>2 DEF IInv, JobsFit, Ask
  <2>2. ClubJobFits(q)
    BY DEF CInv
  <2> QED
    BY <1>1, <2>1, <2>2 DEF ClubJobFits
<1> QED
  BY <1>1, <1>2 DEF CInv

\* What is read: a live member's band is live, a live list's band and concert
\* are there.
LEMMA Seen ==
  ASSUME CInv
  PROVE  /\ bands \in [BandIds -> Band] /\ members \in [MemberIds -> Member]
         /\ concerts \in [Concerts -> {"unused", "open", "closed"}]
         /\ applications \in [ApplicationIds -> Application]
         /\ Together(bands, members, concerts, applications)
         /\ \A m \in LiveMembers : m \in MemberIds /\ members[m].band \in LiveBands
         /\ \A x \in LiveApplications :
              /\ x \in ApplicationIds /\ applications[x].band \in LiveBands
              /\ applications[x].concert \in Concerts /\ concerts[applications[x].concert] # "unused"
<1>1. Together(bands, members, concerts, applications) /\ TablesTyped(bands, members, concerts, applications)
  BY DEF CInv
<1> QED
  BY <1>1 DEF TablesTyped, Together, LiveMembers, LiveBands, LiveApplications

LEMMA AsksAboutClubFit ==
  ASSUME IInv, CInv, NEW p \in Procs, AsksAboutClub(p)
  PROVE  CInv'
<1>1. CASE AskToCreateBand(p)
  <2>1. PICK a \in Registered :
          Ask(p, "new band", Touch(a, None, None, users[a].group)) /\ UNCHANGED clubTables
    BY <1>1 DEF AskToCreateBand, Asks
  <2> DEFINE j == Touch(a, None, None, users[a].group)
  <2>2. j.actor \in Users /\ j.seen \in Groups \cup {None}
    BY DEF Touch, Registered, IInv, AccountsTyped, User
  <2> HIDE DEF j
  <2>3. pc'[p] = "new band" /\ job'[p] = j
    BY <2>1, Asked DEF j
  <2>4. ClubJobFits(p)'
    BY <2>2, <2>3 DEF ClubJobFits
  <2> QED
    BY <2>1, <2>4, ClubAsked
<1>2. CASE AskToJoin(p)
  <2>1. PICK a \in Registered, b \in LiveBands : Ask(p, "join", Touch(a, b, None, None)) /\ UNCHANGED clubTables
    BY <1>2 DEF AskToJoin, Asks
  <2> DEFINE j == Touch(a, b, None, None)
  <2>2. j.actor \in Users /\ j.item \in BandIds
    BY DEF Touch, Registered, LiveBands
  <2> HIDE DEF j
  <2>3. pc'[p] = "join" /\ job'[p] = j
    BY <2>1, Asked DEF j
  <2>4. ClubJobFits(p)'
    BY <2>2, <2>3 DEF ClubJobFits
  <2> QED
    BY <2>1, <2>4, ClubAsked
<1>3. CASE AskAboutMember(p)
  <2>1. PICK a \in Registered, m \in LiveMembers, op \in {"responsible", "transfer", "remove"} :
          LET b == members[m].band
          IN  /\ Ask(p, op, Touch(a, b, [member |-> m],
                                  [band |-> bands[b], members |-> [n \in MembersOf(b) |-> members[n]]]))
              /\ UNCHANGED clubTables
    BY <1>3 DEF AskAboutMember, Asks
  <2> DEFINE b == members[m].band
             j == Touch(a, b, [member |-> m], [band |-> bands[b], members |-> [n \in MembersOf(b) |-> members[n]]])
  <2>2. m \in MembersOf(b) /\ MembersOf(b) \subseteq MemberIds /\ b \in BandIds
    BY Seen DEF MembersOf, LiveMembers, LiveBands
  <2>3. \A n \in MembersOf(b) : members[n] \in Member
    BY <2>2, Seen
  <2>4. /\ j.item \in BandIds /\ j.what.member \in DOMAIN j.seen.members
        /\ DOMAIN j.seen.members \subseteq MemberIds
        /\ \A n \in DOMAIN j.seen.members : j.seen.members[n] \in Member
    <3> HIDE DEF b
    <3>1. j.item = b /\ j.what.member = m /\ j.seen.members = [n \in MembersOf(b) |-> members[n]]
      BY DEF Touch
    <3> HIDE DEF j
    <3> QED
      BY <2>2, <2>3, <3>1
  <2> HIDE DEF j
  <2>5. pc'[p] = op /\ job'[p] = j
    BY <2>1, Asked DEF j
  <2>6. ClubJobFits(p)'
    BY <2>4, <2>5 DEF ClubJobFits
  <2> QED
    BY <2>1, <2>6, ClubAsked
<1>4. CASE AskToDeleteBand(p)
  <2>1. PICK a \in Registered, b \in LiveBands :
          /\ Ask(p, "delete band",
                 Touch(a, b, None,
                       [members |-> MembersOf(b), lists |-> [x \in ApplicationsOf(b) |-> applications[x].list]]))
          /\ UNCHANGED clubTables
    BY <1>4 DEF AskToDeleteBand, Asks
  <2> DEFINE j == Touch(a, b, None,
                        [members |-> MembersOf(b), lists |-> [x \in ApplicationsOf(b) |-> applications[x].list]])
  <2>2. j.item \in BandIds
    BY DEF Touch, LiveBands
  <2> HIDE DEF j
  <2>3. pc'[p] = "delete band" /\ job'[p] = j
    BY <2>1, Asked DEF j
  <2>4. ClubJobFits(p)'
    BY <2>2, <2>3 DEF ClubJobFits
  <2> QED
    BY <2>1, <2>4, ClubAsked
<1>5. CASE AskToCreateEvent(p)
  <2>1. PICK a \in Registered : Ask(p, "new concert", Touch(a, None, None, None)) /\ UNCHANGED clubTables
    BY <1>5 DEF AskToCreateEvent, Asks
  <2>2. pc'[p] = "new concert"
    BY <2>1, Asked
  <2>3. ClubJobFits(p)'
    BY <2>2 DEF ClubJobFits
  <2> QED
    BY <2>1, <2>3, ClubAsked
<1>6. CASE AskToUpdateEvent(p)
  <2>1. PICK a \in Registered, c \in Concerts, status \in {"open", "closed"} :
          /\ concerts[c] # "unused"
          /\ Ask(p, "concert", Touch(a, c, [status |-> status], [status |-> concerts[c]]))
          /\ UNCHANGED clubTables
    BY <1>6 DEF AskToUpdateEvent, Asks
  <2> DEFINE j == Touch(a, c, [status |-> status], [status |-> concerts[c]])
  <2>2. j.item = c /\ j.what.status \in {"open", "closed"}
    BY DEF Touch
  <2> HIDE DEF j
  <2>3. pc'[p] = "concert" /\ job'[p] = j /\ concerts' = concerts
    BY <2>1, Asked DEF j, clubTables
  <2>4. ClubJobFits(p)'
    BY <2>1, <2>2, <2>3 DEF ClubJobFits
  <2> QED
    BY <2>1, <2>4, ClubAsked
<1>7. ASSUME NEW a, NEW b \in BandIds, NEW c \in Concerts, NEW s \in SUBSET Users,
             NEW x \in ApplicationIds \cup {None}, NEW seen, concerts[c] # "unused",
             Asks(p, "submit", Touch(a, x, [band |-> b, concert |-> c, list |-> s, number |-> requests + 1], seen))
      PROVE  CInv'
  <2> DEFINE j == Touch(a, x, [band |-> b, concert |-> c, list |-> s, number |-> requests + 1], seen)
  <2>1. Ask(p, "submit", j) /\ UNCHANGED clubTables
    BY <1>7 DEF Asks
  <2>2. j.what.band = b /\ j.what.concert = c /\ j.what.list = s /\ j.what.number = requests + 1 /\ j.item = x
    BY DEF Touch
  <2> HIDE DEF j
  <2>3. pc'[p] = "submit" /\ job'[p] = j /\ concerts' = concerts
    BY <2>1, Asked DEF clubTables
  <2>4. requests + 1 \in 0 .. MaxRequests
    BY ClubAssumption DEF CInv, AsksAboutClub, MayAsk, ClubAssumption
  <2>5. ClubJobFits(p)'
    BY <1>7, <2>2, <2>3, <2>4 DEF ClubJobFits
  <2> QED
    BY <2>1, <2>5, ClubAsked
<1>8. CASE AskToSubmit(p)
  <2>1. PICK b \in LiveBands, c \in Concerts : \E a \in Registered, s \in Chosen(b) :
          LET there == {x \in ApplicationsOf(b) : applications[x].concert = c}
              x == IF there = {} THEN None ELSE CHOOSE y \in there : TRUE
          IN  /\ concerts[c] = "open"
              /\ Asks(p, "submit",
                      Touch(a, x, [band |-> b, concert |-> c, list |-> s, number |-> requests + 1],
                            [list |-> IF x = None THEN {} ELSE applications[x].list]))
    BY <1>8 DEF AskToSubmit
  <2> DEFINE there == {x \in ApplicationsOf(b) : applications[x].concert = c}
             x == IF there = {} THEN None ELSE CHOOSE y \in there : TRUE
  <2>2. PICK a \in Registered, s \in Chosen(b) :
          /\ concerts[c] = "open"
          /\ Asks(p, "submit",
                  Touch(a, x, [band |-> b, concert |-> c, list |-> s, number |-> requests + 1],
                        [list |-> IF x = None THEN {} ELSE applications[x].list]))
    BY <2>1
  <2>3. x \in ApplicationIds \cup {None}
    BY DEF ApplicationsOf, LiveApplications
  <2>4. b \in BandIds /\ s \in SUBSET Users
    BY DEF LiveBands, Chosen
  <2> HIDE DEF x, there
  <2> QED
    BY <1>7, <2>2, <2>3, <2>4
<1>9. CASE AskToUpdateApplication(p)
  <2>1. PICK x \in LiveApplications :
          \E a \in Registered, s \in Chosen(applications[x].band) :
            Asks(p, "submit",
                 Touch(a, x, [band |-> applications[x].band, concert |-> applications[x].concert, list |-> s,
                              number |-> requests + 1],
                       [list |-> applications[x].list]))
    BY <1>9 DEF AskToUpdateApplication
  <2>2. PICK a \in Registered, s \in Chosen(applications[x].band) :
          Asks(p, "submit",
               Touch(a, x, [band |-> applications[x].band, concert |-> applications[x].concert, list |-> s,
                            number |-> requests + 1],
                     [list |-> applications[x].list]))
    BY <2>1
  <2>3. /\ x \in ApplicationIds /\ applications[x].band \in BandIds
        /\ applications[x].concert \in Concerts /\ concerts[applications[x].concert] # "unused"
    BY Seen DEF LiveBands
  <2>4. s \in SUBSET Users
    BY DEF Chosen
  <2> QED
    BY <1>7, <2>2, <2>3, <2>4
<1>10. CASE AskToDeleteApplication(p)
  <2>1. PICK a \in Registered, x \in LiveApplications :
          Ask(p, "withdraw", Touch(a, x, None, [list |-> applications[x].list])) /\ UNCHANGED clubTables
    BY <1>10 DEF AskToDeleteApplication, Asks
  <2> DEFINE j == Touch(a, x, None, [list |-> applications[x].list])
  <2>2. j.item \in ApplicationIds
    BY DEF Touch, LiveApplications
  <2> HIDE DEF j
  <2>3. pc'[p] = "withdraw" /\ job'[p] = j
    BY <2>1, Asked DEF j
  <2>4. ClubJobFits(p)'
    BY <2>2, <2>3 DEF ClubJobFits
  <2> QED
    BY <2>1, <2>4, ClubAsked
<1> QED
  BY <1>1, <1>2, <1>3, <1>4, <1>5, <1>6, <1>8, <1>9, <1>10 DEF AsksAboutClub

\* A request that commits: the tables it leaves are typed and belong together.
LEMMA ClubStored ==
  ASSUME IInv, CInv, NEW p \in Procs, Ends(p),
         TablesTyped(bands', members', concerts', applications'),
         Together(bands', members', concerts', applications'),
         \A c \in Concerts : concerts[c] # "unused" => concerts'[c] # "unused"
  PROVE  CInv'
<1>1. requests' \in Nat /\ \A q \in Procs : ClubJobFits(q)'
  BY ClubEnds
<1>2. TablesTyped(bands, members, concerts, applications)' /\ Together(bands, members, concerts, applications)'
  BY DEF TablesTyped, Together
<1> QED
  BY <1>1, <1>2 DEF CInv

\* A request that is refused.
LEMMA ClubRefused ==
  ASSUME IInv, CInv, NEW p \in Procs, Refused(p)
  PROVE  CInv'
<1>1. Ends(p) /\ UNCHANGED <<bands, members, concerts, applications>>
  BY DEF Refused, Aborts, clubTables
<1>2. TablesTyped(bands', members', concerts', applications') /\ Together(bands', members', concerts', applications')
  BY <1>1 DEF CInv
<1> QED
  BY <1>1, <1>2, ClubStored

LEMMA DoneEnds ==
  ASSUME NEW p \in Procs, Done(p)
  PROVE  Ends(p)
BY DEF Done, Commits

LEMMA CreateBandFits ==
  ASSUME IInv, CInv, NEW p \in Procs, CreateBand(p)
  PROVE  CInv'
<1> DEFINE a == job[p].actor
           b == CHOOSE x \in Unused(bands) : TRUE
           m == CHOOSE x \in Unused(members) : TRUE
           band == [state |-> "live", group |-> job[p].seen, responsible |-> a]
           row == [state |-> "live", band |-> b, user |-> a, owner |-> TRUE]
<1>1. /\ Unused(bands) # {} /\ Unused(members) # {}
      /\ bands' = [bands EXCEPT ![b] = band] /\ members' = [members EXCEPT ![m] = row]
      /\ Ends(p) /\ concerts' = concerts /\ applications' = applications /\ pc[p] = "new band"
  BY DoneEnds DEF CreateBand, Inserted
<1>2. b \in BandIds /\ bands[b].state = "unused" /\ m \in MemberIds /\ members[m].state = "unused"
  <2>1. b \in Unused(bands) /\ m \in Unused(members)
    BY <1>1
  <2> HIDE DEF b, m
  <2> QED
    BY <2>1, Seen DEF Unused
<1>3. band \in Band /\ row \in Member /\ band.state = "live"
      /\ row.state = "live" /\ row.band = b /\ row.user = a
  <2>1. a \in Users /\ job[p].seen \in Groups \cup {None}
    BY <1>1 DEF CInv, ClubJobFits
  <2> HIDE DEF a, b
  <2> QED
    BY <1>2, <2>1 DEF Band, Member, States
<1> HIDE DEF band, row, m, b
<1>4. /\ bands' \in [BandIds -> Band] /\ members' \in [MemberIds -> Member]
      /\ bands'[b].state = "live" /\ \A x \in BandIds : bands[x].state = "live" => bands'[x].state = "live"
  BY <1>1, <1>2, <1>3, Seen
<1>5. TablesTyped(bands', members', concerts', applications')
  BY <1>1, <1>4, Seen DEF TablesTyped
<1>6. Together(bands', members, concerts, applications)
  <2>1. \A x \in ApplicationIds : applications[x].state = "live" =>
          \A r, s \in applications[x].list : r[1] = s[1] => r = s
    BY Seen DEF Together
  <2> QED
    BY <1>4, <2>1, Seen, RowsGo
<1>7. \A n \in MemberIds : ~(members[n].state = "live" /\ members[n].band = row.band /\ members[n].user = row.user)
  BY <1>2, <1>3, Seen DEF LiveMembers, LiveBands
<1>8. Together(bands', members', concerts', applications')
  <2>1. members \in [MemberIds -> Member]
    BY Seen
  <2>2. row.band \in BandIds /\ bands'[row.band].state = "live" /\ row.state = "live"
    BY <1>2, <1>3, <1>4
  <2>3. members' = [members EXCEPT ![m] = row]
    BY <1>1
  <2>4. Together(bands', members', concerts, applications)
    BY <1>2, <1>6, <1>7, <2>1, <2>2, <2>3, MemberComes
  <2> QED
    BY <1>1, <2>4
<1> QED
  BY <1>1, <1>5, <1>8, ClubStored

LEMMA JoinFits ==
  ASSUME IInv, CInv, NEW p \in Procs, Join(p)
  PROVE  CInv'
<1> DEFINE a == job[p].actor
           b == job[p].item
           m == CHOOSE x \in Unused(members) : TRUE
           row == [state |-> "live", band |-> b, user |-> a, owner |-> FALSE]
<1>1. CASE Refused(p)
  BY <1>1, ClubRefused
<1>2. CASE ~Refused(p)
  <2>1. /\ b \in LiveBands /\ ~Belongs(a, b) /\ Unused(members) # {}
        /\ members' = [members EXCEPT ![m] = row]
        /\ Ends(p) /\ bands' = bands /\ concerts' = concerts /\ applications' = applications /\ pc[p] = "join"
    BY <1>2, DoneEnds DEF Join, Inserted
  <2>2. m \in MemberIds /\ members[m].state = "unused"
    <3>1. m \in Unused(members)
      BY <2>1
    <3> HIDE DEF m
    <3> QED
      BY <3>1, Seen DEF Unused
  <2>3. row \in Member /\ row.state = "live" /\ row.band = b /\ row.user = a
    <3>1. a \in Users /\ b \in BandIds
      BY <2>1 DEF CInv, ClubJobFits
    <3> HIDE DEF a, b
    <3> QED
      BY <3>1 DEF Member, States
  <2> HIDE DEF row, m
  <2>4. members' \in [MemberIds -> Member]
    BY <2>1, <2>2, <2>3, Seen
  <2>5. TablesTyped(bands', members', concerts', applications')
    BY <2>1, <2>4, Seen DEF TablesTyped
  <2>6. \A n \in MemberIds : ~(members[n].state = "live" /\ members[n].band = row.band /\ members[n].user = row.user)
    BY <2>1, <2>3 DEF Belongs, MembersOf, LiveMembers
  <2>7. row.band \in BandIds /\ bands[row.band].state = "live"
    BY <2>1, <2>3 DEF LiveBands
  <2>8. Together(bands', members', concerts', applications')
    <3>1. members \in [MemberIds -> Member] /\ Together(bands, members, concerts, applications)
      BY Seen
    <3>2. Together(bands, members', concerts, applications)
      BY <2>1, <2>2, <2>3, <2>6, <2>7, <3>1, MemberComes
    <3> QED
      BY <2>1, <3>2
  <2> QED
    BY <2>1, <2>5, <2>8, ClubStored
<1> QED
  BY <1>1, <1>2

\* Requests that change rows of bands and members without moving them, or
\* remove members.
LEMMA RowsChange ==
  ASSUME IInv, CInv, NEW p \in Procs, Ends(p), UNCHANGED <<concerts, applications>>,
         bands' \in [BandIds -> Band], members' \in [MemberIds -> Member],
         \A b \in BandIds : bands[b].state = "live" => bands'[b].state = "live",
         \A m \in MemberIds : members'[m].state = "live" =>
           members[m].state = "live" /\ members'[m].band = members[m].band /\ members'[m].user = members[m].user
  PROVE  CInv'
<1>1. concerts' = concerts /\ applications' = applications
  OBVIOUS
<1>2. TablesTyped(bands', members', concerts', applications')
  BY <1>1, Seen DEF TablesTyped
<1>3. \A x \in ApplicationIds : applications[x].state = "live" =>
        \A r, s \in applications[x].list : r[1] = s[1] => r = s
  BY Seen DEF Together
<1>4. Together(bands', members', concerts, applications)
  BY <1>3, Seen, RowsGo
<1> QED
  BY <1>1, <1>2, <1>4, ClubStored

\* The band stays what it is but for the person responsible.
LEMMA Named ==
  ASSUME CInv, NEW p \in Procs, pc[p] \in {"responsible", "remove"}, NEW who,
         who = job[p].seen.band.responsible \/ who \in Users \cup {None},
         ~LosesBand(p, who), NamesResponsible(p, who)
  PROVE  /\ bands' \in [BandIds -> Band]
         /\ \A b \in BandIds : bands[b].state = "live" => bands'[b].state = "live"
<1>1. CASE who = job[p].seen.band.responsible
  BY <1>1, Seen DEF NamesResponsible
<1>2. CASE who # job[p].seen.band.responsible
  <2>1. bands' = [bands EXCEPT ![job[p].item].responsible = who] /\ job[p].item \in BandIds
    BY <1>2 DEF NamesResponsible, LosesBand, LiveBands
  <2>2. who \in Users \cup {None} /\ bands[job[p].item] \in Band
    BY <1>2, <2>1, Seen
  <2> DEFINE row == [bands[job[p].item] EXCEPT !.responsible = who]
  <2>3. row \in Band /\ row.state = bands[job[p].item].state
    BY <2>2 DEF Band
  <2>4. bands' = [bands EXCEPT ![job[p].item] = row]
    BY <2>1
  <2> HIDE DEF row
  <2> QED
    BY <2>1, <2>3, <2>4, Seen
<1> QED
  BY <1>1, <1>2

\* What is known of a member a request is about.
LEMMA SeenMember ==
  ASSUME CInv, NEW p \in Procs, pc[p] \in {"responsible", "transfer", "remove"}
  PROVE  /\ DOMAIN job[p].seen.members \subseteq MemberIds
         /\ job[p].what.member \in MemberIds
         /\ job[p].seen.members[job[p].what.member].user \in Users \cup {None}
         /\ \A n \in DOMAIN job[p].seen.members : job[p].seen.members[n].user \in Users \cup {None}
<1>1. /\ job[p].what.member \in DOMAIN job[p].seen.members
      /\ DOMAIN job[p].seen.members \subseteq MemberIds
      /\ \A n \in DOMAIN job[p].seen.members : job[p].seen.members[n] \in Member
  BY DEF CInv, ClubJobFits
<1>2. \A n \in DOMAIN job[p].seen.members : job[p].seen.members[n].user \in Users \cup {None}
  BY <1>1 DEF Member
<1> QED
  BY <1>1, <1>2

LEMMA SetResponsibleFits ==
  ASSUME IInv, CInv, NEW p \in Procs, SetResponsible(p)
  PROVE  CInv'
<1> DEFINE who == job[p].seen.members[job[p].what.member].user
<1>1. CASE Refused(p)
  BY <1>1, ClubRefused
<1>2. CASE ~Refused(p)
  <2>1. /\ pc[p] = "responsible" /\ ~LosesBand(p, who) /\ NamesResponsible(p, who)
        /\ Ends(p) /\ UNCHANGED <<members, concerts, applications>>
    BY <1>2, DoneEnds DEF SetResponsible
  <2>2. who \in Users \cup {None}
    BY <2>1, SeenMember
  <2> HIDE DEF who
  <2>3. /\ bands' \in [BandIds -> Band]
        /\ \A b \in BandIds : bands[b].state = "live" => bands'[b].state = "live"
    BY <2>1, <2>2, Named
  <2>4. members' \in [MemberIds -> Member] /\ members' = members
    BY <2>1, Seen
  <2> QED
    BY <2>1, <2>3, <2>4, RowsChange
<1> QED
  BY <1>1, <1>2

LEMMA TransferFits ==
  ASSUME IInv, CInv, NEW p \in Procs, Transfer(p)
  PROVE  CInv'
<1> DEFINE m == job[p].what.member
           changed == {n \in DOMAIN job[p].seen.members : job[p].seen.members[n].owner # (n = m)}
           after == [n \in MemberIds |->
                       IF n \in changed \cap LiveMembers THEN [members[n] EXCEPT !.owner = (n = m)] ELSE members[n]]
<1>1. CASE Refused(p)
  BY <1>1, ClubRefused
<1>2. CASE ~Refused(p)
  <2>1. members' = after /\ Ends(p) /\ UNCHANGED <<bands, concerts, applications>>
    BY <1>2, DoneEnds DEF Transfer
  <2> HIDE DEF changed
  <2>2. ASSUME NEW n \in MemberIds
        PROVE  /\ after[n] \in Member /\ after[n].state = members[n].state
               /\ after[n].band = members[n].band /\ after[n].user = members[n].user
    <3>1. members[n] \in Member
      BY Seen
    <3>2. (n = m) \in BOOLEAN
      OBVIOUS
    <3>3. after[n] \in {members[n], [members[n] EXCEPT !.owner = (n = m)]}
      OBVIOUS
    <3> HIDE DEF after
    <3> QED
      BY <3>1, <3>2, <3>3 DEF Member
  <2>3. after \in [MemberIds -> Member]
    BY <2>2
  <2> HIDE DEF after
  <2>4. bands' = bands /\ bands' \in [BandIds -> Band]
    BY <2>1, Seen
  <2> QED
    BY <2>1, <2>2, <2>3, <2>4, RowsChange
<1> QED
  BY <1>1, <1>2

LEMMA RemoveFits ==
  ASSUME IInv, CInv, NEW p \in Procs, Remove(p)
  PROVE  CInv'
<1> DEFINE m == job[p].what.member
           seen == job[p].seen
           owners == {n \in DOMAIN seen.members : seen.members[n].owner}
           who == IF seen.band.responsible # seen.members[m].user THEN seen.band.responsible
                  ELSE IF owners = {} THEN None ELSE seen.members[CHOOSE n \in owners : TRUE].user
<1>1. CASE Refused(p)
  BY <1>1, ClubRefused
<1>2. CASE ~Refused(p)
  <2>1. /\ pc[p] = "remove" /\ ~LosesBand(p, who) /\ NamesResponsible(p, who)
        /\ members' = [members EXCEPT ![m] = GoneMember]
        /\ Ends(p) /\ UNCHANGED <<concerts, applications>>
    BY <1>2, DoneEnds DEF Remove
  <2>2. who = seen.band.responsible \/ who \in Users \cup {None}
    <3>1. owners # {} => seen.members[CHOOSE n \in owners : TRUE].user \in Users \cup {None}
      <4>1. owners # {} => (CHOOSE n \in owners : TRUE) \in owners
        OBVIOUS
      <4> DEFINE chosen == CHOOSE n \in owners : TRUE
      <4> HIDE DEF chosen
      <4> QED
        BY <2>1, <4>1, SeenMember DEF chosen
    <3> QED
      BY <3>1
  <2> HIDE DEF who
  <2>3. /\ bands' \in [BandIds -> Band]
        /\ \A b \in BandIds : bands[b].state = "live" => bands'[b].state = "live"
    BY <2>1, <2>2, Named
  <2>4. GoneMember \in Member /\ GoneMember.state = "gone"
    BY DEF GoneMember, Member, States
  <2>5. members' \in [MemberIds -> Member]
    BY <2>1, <2>4, Seen
  <2>6. \A n \in MemberIds : members'[n].state = "live" => members'[n] = members[n]
    BY <2>1, <2>4, Seen
  <2> QED
    BY <2>1, <2>3, <2>5, <2>6, RowsChange
<1> QED
  BY <1>1, <1>2

\* Nothing that refers to the band stays: what came meanwhile stops the
\* deletion.
LEMMA DeleteBandFits ==
  ASSUME IInv, CInv, NEW p \in Procs, DeleteBand(p)
  PROVE  CInv'
<1> DEFINE b == job[p].item
           seen == job[p].seen
           mt == [m \in MemberIds |-> IF m \in seen.members THEN GoneMember ELSE members[m]]
           at == [x \in ApplicationIds |-> IF x \in DOMAIN seen.lists THEN GoneApplication ELSE applications[x]]
<1>1. CASE Refused(p)
  BY <1>1, ClubRefused
<1>2. CASE ~Refused(p)
  <2>1. /\ MembersOf(b) \subseteq seen.members /\ ApplicationsOf(b) \subseteq DOMAIN seen.lists
        /\ bands' = [bands EXCEPT ![b] = GoneBand] /\ members' = mt /\ applications' = at
        /\ Ends(p) /\ concerts' = concerts /\ pc[p] = "delete band"
    BY <1>2, DoneEnds DEF DeleteBand
  <2>2. GoneBand \in Band /\ GoneMember \in Member /\ GoneApplication \in Application
        /\ GoneMember.state = "gone" /\ GoneApplication.state = "gone"
    BY DEF GoneBand, GoneMember, GoneApplication, Band, Member, Application, States
  <2>3. /\ bands \in [BandIds -> Band] /\ members \in [MemberIds -> Member]
        /\ applications \in [ApplicationIds -> Application]
    BY Seen
  <2>4. mt \in [MemberIds -> Member] /\ at \in [ApplicationIds -> Application]
    BY <2>2, <2>3
  <2>5. \A m \in MemberIds : mt[m].state = "live" => mt[m] = members[m] /\ members[m].band # b
    <3> SUFFICES ASSUME NEW m \in MemberIds, mt[m].state = "live"
                 PROVE  mt[m] = members[m] /\ members[m].band # b
      OBVIOUS
    <3>1. m \notin seen.members /\ mt[m] = members[m]
      BY <2>2
    <3> QED
      BY <2>1, <3>1 DEF MembersOf, LiveMembers
  <2>6. \A x \in ApplicationIds : at[x].state = "live" => at[x] = applications[x] /\ applications[x].band # b
    <3> SUFFICES ASSUME NEW x \in ApplicationIds, at[x].state = "live"
                 PROVE  at[x] = applications[x] /\ applications[x].band # b
      OBVIOUS
    <3>1. x \notin DOMAIN seen.lists /\ at[x] = applications[x]
      BY <2>2
    <3> QED
      BY <2>1, <3>1 DEF ApplicationsOf, LiveApplications
  <2> HIDE DEF mt, at
  <2>7. bands' \in [BandIds -> Band] /\ \A a \in BandIds : a # b => bands'[a] = bands[a]
    BY <2>1, <2>2, <2>3
  <2>8. TablesTyped(bands', members', concerts', applications')
    BY <2>1, <2>4, <2>7, Seen DEF TablesTyped
  <2>9. Together(bands', members', concerts', applications')
    <3>1. Together(bands, members, concerts, applications)
      BY Seen
    <3>2. \A m \in MemberIds : mt[m].state = "live" =>
            mt[m] = members[m] /\ bands'[members[m].band] = bands[members[m].band]
      BY <2>5, <2>7, Seen DEF LiveMembers, LiveBands
    <3>3. \A x \in ApplicationIds : at[x].state = "live" =>
            at[x] = applications[x] /\ bands'[applications[x].band] = bands[applications[x].band]
      BY <2>6, <2>7, Seen DEF LiveApplications, LiveBands
    <3>4. Together(bands', mt, concerts, at)
      BY <3>1, <3>2, <3>3, BandGoes
    <3> QED
      BY <2>1, <3>4
  <2> QED
    BY <2>1, <2>8, <2>9, ClubStored
<1> QED
  BY <1>1, <1>2

\* The tables when only a concert or a list changes.
LEMMA ListsChange ==
  ASSUME CInv, UNCHANGED <<bands, members>>,
         concerts' \in [Concerts -> {"unused", "open", "closed"}],
         applications' \in [ApplicationIds -> Application],
         \A c \in Concerts : concerts[c] # "unused" => concerts'[c] # "unused",
         \A x \in ApplicationIds : applications'[x].state = "live" =>
           /\ applications[x].state = "live" /\ applications'[x].band = applications[x].band
           /\ applications'[x].concert = applications[x].concert
           /\ \A r, s \in applications'[x].list : r[1] = s[1] => r = s
  PROVE  /\ TablesTyped(bands', members', concerts', applications')
         /\ Together(bands', members', concerts', applications')
<1>1. bands' = bands /\ members' = members
  OBVIOUS
<1>2. TablesTyped(bands', members', concerts', applications')
  BY <1>1, Seen DEF TablesTyped
<1>3. Together(bands, members, concerts', applications')
  BY Seen, RowsGo
<1> QED
  BY <1>1, <1>2, <1>3

\* What is on a list once stays so.
LEMMA ListsOnce ==
  ASSUME CInv
  PROVE  \A x \in ApplicationIds : applications[x].state = "live" =>
           \A r, s \in applications[x].list : r[1] = s[1] => r = s
BY Seen DEF Together

LEMMA CreateEventFits ==
  ASSUME IInv, CInv, NEW p \in Procs, CreateEvent(p)
  PROVE  CInv'
<1> DEFINE fresh == {c \in Concerts : concerts[c] = "unused"}
           c == CHOOSE x \in fresh : TRUE
<1>1. /\ concerts' = [concerts EXCEPT ![c] = "open"]
      /\ Ends(p) /\ bands' = bands /\ members' = members /\ applications' = applications
  BY DoneEnds DEF CreateEvent
<1> HIDE DEF c
<1>2. /\ concerts' \in [Concerts -> {"unused", "open", "closed"}]
      /\ \A d \in Concerts : concerts[d] # "unused" => concerts'[d] # "unused"
  BY <1>1, Seen
<1>3. applications' \in [ApplicationIds -> Application]
  BY <1>1, Seen
<1>4. /\ TablesTyped(bands', members', concerts', applications')
      /\ Together(bands', members', concerts', applications')
  BY <1>1, <1>2, <1>3, ListsOnce, ListsChange
<1> QED
  BY <1>1, <1>2, <1>4, ClubStored

LEMMA UpdateEventFits ==
  ASSUME IInv, CInv, NEW p \in Procs, UpdateEvent(p)
  PROVE  CInv'
<1> DEFINE c == job[p].item
           status == IF job[p].what.status = job[p].seen.status THEN concerts[c] ELSE job[p].what.status
<1>1. /\ concerts' = [concerts EXCEPT ![c] = status] /\ pc[p] = "concert"
      /\ Ends(p) /\ bands' = bands /\ members' = members /\ applications' = applications
  BY DoneEnds DEF UpdateEvent
<1>2. status \in {"open", "closed"}
  BY <1>1, Seen DEF CInv, ClubJobFits
<1> HIDE DEF c, status
<1>3. /\ concerts' \in [Concerts -> {"unused", "open", "closed"}]
      /\ \A d \in Concerts : concerts[d] # "unused" => concerts'[d] # "unused"
  BY <1>1, <1>2, Seen
<1>4. applications' \in [ApplicationIds -> Application]
  BY <1>1, Seen
<1>5. /\ TablesTyped(bands', members', concerts', applications')
      /\ Together(bands', members', concerts', applications')
  BY <1>1, <1>3, <1>4, ListsOnce, ListsChange
<1> QED
  BY <1>1, <1>3, <1>5, ClubStored

\* A list is stored for a band that has none for the concert, or the rows that
\* were read are replaced and the others name nobody who is on the new list.
LEMMA SubmitFits ==
  ASSUME IInv, CInv, NEW p \in Procs, Submit(p)
  PROVE  CInv'
<1> DEFINE asked == job[p].what
           x == job[p].item
           rows == {<<u, asked.number>> : u \in asked.list}
           kept == applications[x].list \ job[p].seen.list
           new == [state |-> "live", concert |-> asked.concert, band |-> asked.band, list |-> rows]
<1>1. CASE Refused(p)
  BY <1>1, ClubRefused
<1>2. pc[p] = "submit"
  BY DEF Submit
<1>3. /\ asked.band \in BandIds /\ asked.concert \in Concerts /\ concerts[asked.concert] # "unused"
      /\ asked.list \in SUBSET Users /\ asked.number \in 0 .. MaxRequests
      /\ x \in ApplicationIds \cup {None}
  BY <1>2 DEF CInv, ClubJobFits
<1>4. /\ rows \in SUBSET (Users \X (0 .. MaxRequests))
      /\ \A r \in rows : r[1] \in asked.list /\ r = <<r[1], asked.number>>
      /\ \A r, s \in rows : r[1] = s[1] => r = s
  BY <1>3
<1>5. CASE ~Refused(p) /\ x = None
  <2> DEFINE y == CHOOSE z \in Unused(applications) : TRUE
  <2>1. /\ asked.band \in LiveBands
        /\ ~\E z \in ApplicationsOf(asked.band) : applications[z].concert = asked.concert
        /\ Unused(applications) # {} /\ applications' = [applications EXCEPT ![y] = new]
        /\ Ends(p) /\ bands' = bands /\ members' = members /\ concerts' = concerts
    BY <1>5, DoneEnds DEF Submit, Inserted
  <2>2. y \in ApplicationIds
    <3>1. y \in Unused(applications)
      BY <2>1
    <3> HIDE DEF y
    <3> QED
      BY <3>1, Seen DEF Unused
  <2>3. /\ new \in Application /\ new.band = asked.band /\ new.concert = asked.concert /\ new.list = rows
    <3> HIDE DEF asked, rows
    <3> QED
      BY <1>3, <1>4 DEF Application, States
  <2> HIDE DEF new, y
  <2>4. applications' \in [ApplicationIds -> Application]
    BY <2>1, <2>2, <2>3, Seen
  <2>5. TablesTyped(bands', members', concerts', applications')
    BY <2>1, <2>4, Seen DEF TablesTyped
  <2>6. \A z \in ApplicationIds :
          ~(applications[z].state = "live" /\ applications[z].band = new.band /\ applications[z].concert = new.concert)
    BY <2>1, <2>3 DEF ApplicationsOf, LiveApplications
  <2>7. /\ new.band \in BandIds /\ bands[new.band].state = "live"
        /\ new.concert \in Concerts /\ concerts[new.concert] # "unused"
        /\ \A r, s \in new.list : r[1] = s[1] => r = s
    BY <1>3, <1>4, <2>1, <2>3 DEF LiveBands
  <2>8. Together(bands', members', concerts', applications')
    <3>1. applications \in [ApplicationIds -> Application] /\ Together(bands, members, concerts, applications)
      BY Seen
    <3>2. applications' = [applications EXCEPT ![y] = new]
      BY <2>1
    <3>3. Together(bands, members, concerts, applications')
      BY <2>2, <2>6, <2>7, <3>1, <3>2, ListComes
    <3> QED
      BY <2>1, <3>3
  <2> QED
    BY <2>1, <2>5, <2>8, ClubStored
<1>6. CASE ~Refused(p) /\ x # None
  <2> DEFINE list == kept \cup rows
             row == [applications[x] EXCEPT !.list = list]
  <2>1. /\ x \in LiveApplications /\ ~\E r \in kept : r[1] \in asked.list
        /\ applications' = [applications EXCEPT ![x].list = list]
        /\ Ends(p) /\ bands' = bands /\ members' = members /\ concerts' = concerts
    BY <1>6, DoneEnds DEF Submit
  <2>2. x \in ApplicationIds /\ applications[x].state = "live" /\ applications[x] \in Application
    BY <2>1, Seen DEF LiveApplications
  <2>3. list \in SUBSET (Users \X (0 .. MaxRequests))
    <3>1. applications[x].list \in SUBSET (Users \X (0 .. MaxRequests))
      BY <2>2 DEF Application
    <3>2. kept \in SUBSET (Users \X (0 .. MaxRequests))
      BY <3>1
    <3> HIDE DEF kept, rows
    <3> QED
      BY <1>4, <3>2
  <2>4. \A r, s \in list : r[1] = s[1] => r = s
    <3>1. \A r, s \in kept : r[1] = s[1] => r = s
      BY <2>2, ListsOnce
    <3>2. \A r \in kept : r[1] \notin asked.list
      BY <2>1
    <3> HIDE DEF kept, rows, asked
    <3> QED
      BY <1>4, <3>1, <3>2
  <2> HIDE DEF list
  <2>5. /\ row \in Application /\ row.state = applications[x].state /\ row.band = applications[x].band
        /\ row.concert = applications[x].concert /\ row.list = list
    BY <2>2, <2>3 DEF Application
  <2>6. applications' = [applications EXCEPT ![x] = row]
    BY <2>1
  <2> HIDE DEF row
  <2>7. /\ applications' \in [ApplicationIds -> Application]
        /\ applications'[x] = row /\ \A y \in ApplicationIds \ {x} : applications'[y] = applications[y]
    BY <2>2, <2>5, <2>6, Seen
  <2>8. ASSUME NEW y \in ApplicationIds, applications'[y].state = "live"
        PROVE  /\ applications[y].state = "live" /\ applications'[y].band = applications[y].band
               /\ applications'[y].concert = applications[y].concert
               /\ \A r, s \in applications'[y].list : r[1] = s[1] => r = s
    <3>1. CASE y = x
      BY <2>2, <2>4, <2>5, <2>7, <3>1
    <3>2. CASE y # x
      BY <2>7, <2>8, <3>2, ListsOnce
    <3> QED
      BY <3>1, <3>2
  <2>9. concerts' \in [Concerts -> {"unused", "open", "closed"}]
    BY <2>1, Seen
  <2>10. /\ TablesTyped(bands', members', concerts', applications')
         /\ Together(bands', members', concerts', applications')
    BY <2>1, <2>7, <2>8, <2>9, ListsChange
  <2> QED
    BY <2>1, <2>10, ClubStored
<1> QED
  BY <1>1, <1>5, <1>6

LEMMA DeleteApplicationFits ==
  ASSUME IInv, CInv, NEW p \in Procs, DeleteApplication(p)
  PROVE  CInv'
<1> DEFINE x == job[p].item
<1>1. CASE Refused(p)
  BY <1>1, ClubRefused
<1>2. CASE ~Refused(p)
  <2>1. /\ applications' = [applications EXCEPT ![x] = GoneApplication]
        /\ Ends(p) /\ bands' = bands /\ members' = members /\ concerts' = concerts
    BY <1>2, DoneEnds DEF DeleteApplication
  <2>2. GoneApplication \in Application /\ GoneApplication.state = "gone"
    BY DEF GoneApplication, Application, States
  <2>3. /\ applications' \in [ApplicationIds -> Application]
        /\ \A y \in ApplicationIds : applications'[y].state = "live" => applications'[y] = applications[y]
    BY <2>1, <2>2, Seen
  <2>4. concerts' \in [Concerts -> {"unused", "open", "closed"}]
    BY <2>1, Seen
  <2>5. /\ TablesTyped(bands', members', concerts', applications')
        /\ Together(bands', members', concerts', applications')
    BY <2>1, <2>3, <2>4, ListsOnce, ListsChange
  <2> QED
    BY <2>1, <2>5, ClubStored
<1> QED
  BY <1>1, <1>2

\* The tables and the requests about them stay as they are.
LEMMA ClubIdle ==
  ASSUME CInv, UNCHANGED <<clubTables, requests>>, \A p \in Procs : ClubJobFits(p)'
  PROVE  CInv'
BY DEF CInv, clubTables

LEMMA DeadlineFits ==
  ASSUME CInv, DeadlinePasses
  PROVE  CInv'
<1>1. PICK c \in Concerts :
        /\ concerts[c] = "open" /\ concerts' = [concerts EXCEPT ![c] = "closed"]
        /\ UNCHANGED <<requests, pc, job, bands, members, applications>>
  BY DEF DeadlinePasses
<1>2. /\ concerts' \in [Concerts -> {"unused", "open", "closed"}]
      /\ \A d \in Concerts : concerts[d] # "unused" => concerts'[d] # "unused"
  BY <1>1, Seen
<1>3. applications' \in [ApplicationIds -> Application]
  BY <1>1, Seen
<1>4. /\ TablesTyped(bands', members', concerts', applications')
      /\ Together(bands', members', concerts', applications')
  BY <1>1, <1>2, <1>3, ListsOnce, ListsChange
<1>5. ASSUME NEW q \in Procs
      PROVE  ClubJobFits(q)'
  <2>1. ClubJobFits(q)
    BY DEF CInv
  <2> QED
    BY <1>1, <1>2, <2>1 DEF ClubJobFits
<1>6. TablesTyped(bands, members, concerts, applications)' /\ Together(bands, members, concerts, applications)'
  BY <1>4 DEF TablesTyped, Together
<1> QED
  BY <1>1, <1>5, <1>6 DEF CInv

\* Requests about accounts and roles.
LEMMA AccountsLeaveClub ==
  ASSUME IInv, CInv, AccountsNext, UNCHANGED clubTables
  PROVE  CInv'
<1>1. UNCHANGED <<bands, members, concerts, applications>>
  BY DEF clubTables
<1>2. ASSUME NEW p \in Procs, Ends(p)
      PROVE  CInv'
  <2>1. TablesTyped(bands', members', concerts', applications') /\ Together(bands', members', concerts', applications')
    BY <1>1 DEF CInv
  <2> QED
    BY <1>1, <1>2, <2>1, ClubStored
<1>3. ASSUME NEW p \in Procs, NEW op \in UserOps \cup RoleOps, NEW j, Ask(p, op, j)
      PROVE  CInv'
  <2>1. pc'[p] = op
    BY <1>3, Asked
  <2>2. ClubJobFits(p)'
    BY <2>1 DEF ClubJobFits, UserOps, RoleOps
  <2> QED
    BY <1>3, <2>2, ClubAsked
<1>4. ASSUME NEW p \in Procs, AsksAboutAccounts(p)
      PROVE  CInv'
  <2>1. \E op \in UserOps \cup RoleOps : \E j : Ask(p, op, j)
    <3>1. CASE AskToModerate(p)
      <4>1. PICK a \in Registered, t \in Registered, op \in {"approve", "reject", "ban", "delete"} :
              Ask(p, op, About(a, t))
        BY <3>1 DEF AskToModerate
      <4> QED
        BY <4>1 DEF UserOps
    <3>2. CASE AskToStart(p)
      BY <3>2 DEF AskToStart, UserOps
    <3>3. CASE AskToUpdateProfile(p)
      BY <3>3 DEF AskToUpdateProfile, UserOps
    <3>4. CASE AskToResubmit(p)
      BY <3>4 DEF AskToResubmit, UserOps
    <3>5. CASE AskToCreateRole(p)
      BY <3>5 DEF AskToCreateRole, RoleOps
    <3>6. CASE AskToUpdateRole(p)
      BY <3>6 DEF AskToUpdateRole, RoleOps
    <3>7. CASE AskToDeleteRole(p)
      BY <3>7 DEF AskToDeleteRole, RoleOps
    <3>8. CASE AskToAssign(p)
      BY <3>8 DEF AskToAssign, RoleOps
    <3>9. CASE AskToRevoke(p)
      BY <3>9 DEF AskToRevoke, RoleOps
    <3>10. CASE AskToSetLimits(p)
      BY <3>10 DEF AskToSetLimits, RoleOps
    <3> QED
      BY <1>4, <3>1, <3>2, <3>3, <3>4, <3>5, <3>6, <3>7, <3>8, <3>9, <3>10 DEF AsksAboutAccounts
  <2> QED
    BY <1>3, <2>1
<1>5. ASSUME NEW p \in Procs, ChangesAccounts(p)
      PROVE  CInv'
  <2>1. Ends(p)
    BY <1>5 DEF ChangesAccounts, Start, UpdateProfile, Resubmit, Approve, Reject, Ban, SoftDelete, CreateRole,
       UpdateRole, DeleteRole, Assign, Revoke, SetLimits, Commits, Aborts
  <2> QED
    BY <1>2, <2>1
<1>6. CASE CoolDown
  <2>1. UNCHANGED <<requests, pc, job>>
    BY <1>6 DEF CoolDown
  <2>2. ASSUME NEW q \in Procs
        PROVE  ClubJobFits(q)'
    <3>1. ClubJobFits(q)
      BY DEF CInv
    <3> QED
      BY <1>1, <2>1, <3>1 DEF ClubJobFits
  <2> QED
    BY <2>1, <2>2, ClubIdle
<1>7. CASE Restart
  <2>1. requests' = requests /\ pc' = AllIdle
    BY <1>7 DEF Restart
  <2>2. \A q \in Procs : ClubJobFits(q)'
    BY <2>1 DEF AllIdle, ClubJobFits
  <2> QED
    BY <2>1, <2>2, ClubIdle
<1> QED
  BY <1>4, <1>5, <1>6, <1>7 DEF AccountsNext

LEMMA ClubInitFits ==
  ASSUME ClubInit
  PROVE  CInv
<1>1. PICK c \in Clubs :
        /\ AccountsStart(c)
        /\ bands = c.bands /\ members = c.members /\ concerts = c.concerts /\ applications = c.applications
  BY DEF ClubInit
<1>2. requests = 0 /\ pc = AllIdle
  BY <1>1 DEF AccountsStart
<1>3. \A q \in Procs : ClubJobFits(q)
  BY <1>2 DEF AllIdle, ClubJobFits
<1> QED
  BY <1>1, <1>2, <1>3, ClubAssumption DEF CInv, ClubAssumption

LEMMA ClubNextFits == IInv /\ CInv /\ [ClubNext]_clubVars => CInv'
<1> SUFFICES ASSUME IInv, CInv, [ClubNext]_clubVars
             PROVE  CInv'
  OBVIOUS
<1>1. CASE UNCHANGED clubVars
  <2>1. UNCHANGED <<clubTables, requests, pc, job, concerts>>
    BY <1>1 DEF clubVars, accountVars, clubTables
  <2>2. ASSUME NEW q \in Procs
        PROVE  ClubJobFits(q)'
    <3>1. ClubJobFits(q)
      BY DEF CInv
    <3> QED
      BY <2>1, <3>1 DEF ClubJobFits
  <2> QED
    BY <2>1, <2>2, ClubIdle
<1>2. ASSUME NEW p \in Procs, ChangesClub(p)
      PROVE  CInv'
  BY <1>2, CreateBandFits, JoinFits, SetResponsibleFits, TransferFits, RemoveFits, DeleteBandFits,
     CreateEventFits, UpdateEventFits, SubmitFits, DeleteApplicationFits DEF ChangesClub
<1> QED
  BY <1>1, <1>2, AsksAboutClubFit, DeadlineFits, AccountsLeaveClub DEF ClubNext

(***************************************************************************)
(* For every club and however many requests come at once: the tables are   *)
(* typed, no row refers to one that is gone, nobody is in a band twice, a  *)
(* band has one list for a concert and a user is on it once (bands.py,     *)
(* events.py, roles.py and the constraints of the tables).                 *)
(***************************************************************************)
THEOREM ClubBelongsTogether == ClubSpec => []ClubInv
<1>1. ClubInit => IInv /\ CInv
  BY InitKeeps, ClubInitFits DEF ClubInit, AccountsInit
<1>2. IInv /\ CInv /\ [ClubNext]_clubVars => (IInv /\ CInv)'
  BY NextKeeps, ClubNextFits
<1>3. IInv /\ CInv => ClubInv
  BY DEF IInv, CInv, ClubInv, TypeOK, RowsBelong
<1> QED
  BY <1>1, <1>2, <1>3, PTL DEF ClubSpec

-----------------------------------------------------------------------------
(* Requests that end alone.  Nothing was committed since such a request has  *)
(* read, so that what it has read and what it was allowed still stand.       *)

\* What a request may still rely on when it commits and nothing was committed
\* since it has read.
UserJobStands(p) ==
  LET a == job[p].actor
      t == job[p].target
  IN  /\ pc[p] \in UserOps =>
           /\ a \in Users
           /\ users[t].status = job[p].seen.status /\ users[t].group = job[p].seen.group
      /\ pc[p] \in {"start", "profile", "resubmit"} => a = t
      /\ pc[p] = "start" => (job[p].what.held <=> Holds(t, Admin, None))
      /\ pc[p] = "resubmit" => users[t].status \notin {"banned", "approved"}
      /\ pc[p] \in {"approve", "reject", "ban", "delete"} =>
           /\ MayModerate(a, t)
           /\ pc[p] # "approve" => t # a
           /\ pc[p] # "ban" /\ users[t].status \in {"banned", "deleted"} => HoldsAdmin(a)

RoleJobStands(p) ==
  LET a == job[p].actor
      r == job[p].item
      asked == job[p].what
  IN  /\ pc[p] \in RoleOps => a \in Users
      /\ pc[p] \in RoleOps \ {"limits"} => MayManageRoles(a)
      /\ pc[p] = "new role" => NameFree(asked.name, None)
      /\ pc[p] = "change role" => roles[r] = job[p].seen /\ (asked.name # None => NameFree(asked.name, r))
      /\ pc[p] = "assign" =>
           /\ r = Admin => HoldsAdmin(a) /\ asked = None
           /\ users[job[p].target].status = "approved" /\ ~Holds(job[p].target, r, asked)
      /\ pc[p] = "revoke" /\ given[r].role = Admin => HoldsAdmin(a) /\ given[r].user # a
      /\ pc[p] = "limits" =>
           /\ HasPermission(a, "settings.manage", None)
           /\ job[p].seen = limits
           /\ Or(asked.daily, limits.daily) <= Or(asked.weekly, limits.weekly)

ClubJobStands(p) ==
  LET b == job[p].item
      m == job[p].what.member
      seen == job[p].seen
  IN  /\ pc[p] \in {"responsible", "transfer", "remove"} =>
           /\ b \in LiveBands /\ m \in MembersOf(b)
           /\ seen.band = bands[b] /\ seen.members = [n \in MembersOf(b) |-> members[n]]
      /\ pc[p] = "remove" => ~members[m].owner
      /\ pc[p] = "delete band" => seen.members = MembersOf(b)
      /\ pc[p] = "submit" =>
           /\ concerts[job[p].what.concert] = "open"
           /\ b # None => applications[b].concert = job[p].what.concert

JobStands(p) == UserJobStands(p) /\ RoleJobStands(p) /\ ClubJobStands(p)

SInv ==
  /\ DOMAIN alone = Procs
  /\ \A p \in Procs : pc[p] # "idle" /\ alone[p] => JobStands(p)

LEMMA RightsStay ==
  ASSUME roles' = roles, given' = given,
         \A u \in Users : users'[u].status = users[u].status /\ users'[u].group = users[u].group
  PROVE  \A a \in Users :
           /\ \A r, g : Holds(a, r, g)' <=> Holds(a, r, g)
           /\ HoldsAdmin(a)' <=> HoldsAdmin(a)
           /\ HasAnyRole(a)' <=> HasAnyRole(a)
           /\ \A perm, g : HasPermission(a, perm, g)' <=> HasPermission(a, perm, g)
           /\ MayManageRoles(a)' <=> MayManageRoles(a)
           /\ \A t \in Users : MayModerate(a, t)' <=> MayModerate(a, t)
<1> SUFFICES ASSUME NEW a \in Users
             PROVE  /\ \A r, g : Holds(a, r, g)' <=> Holds(a, r, g)
                    /\ HoldsAdmin(a)' <=> HoldsAdmin(a)
                    /\ HasAnyRole(a)' <=> HasAnyRole(a)
                    /\ \A perm, g : HasPermission(a, perm, g)' <=> HasPermission(a, perm, g)
                    /\ MayManageRoles(a)' <=> MayManageRoles(a)
                    /\ \A t \in Users : MayModerate(a, t)' <=> MayModerate(a, t)
  OBVIOUS
<1>1. \A r, g : Holds(a, r, g)' <=> Holds(a, r, g)
  BY DEF Holds
<1>2. HoldsAdmin(a)' <=> HoldsAdmin(a)
  BY <1>1 DEF HoldsAdmin, Holds
<1>3. \A t \in Users : HasAnyRole(t)' <=> HasAnyRole(t)
  BY DEF HasAnyRole, HeldIds
<1>4. ASSUME NEW perm, NEW g
      PROVE  HasPermission(a, perm, g)' <=> HasPermission(a, perm, g)
  BY DEF HasPermission, HeldIds, PermissionsOf
<1>5. MayManageRoles(a)' <=> MayManageRoles(a)
  BY <1>4 DEF MayManageRoles
<1>6. ASSUME NEW t \in Users
      PROVE  MayModerate(a, t)' <=> MayModerate(a, t)
  BY <1>2, <1>3, <1>4 DEF MayModerate
<1> QED
  BY <1>1, <1>2, <1>3, <1>4, <1>5, <1>6

\* A request that is under way while the tables stay as it has read them.
LEMMA JobStandsStill ==
  ASSUME IInv, NEW q \in Procs, JobStands(q),
         pc'[q] = pc[q], job'[q] = job[q], roles' = roles, given' = given, limits' = limits,
         \A u \in Users : users'[u].status = users[u].status /\ users'[u].group = users[u].group,
         UNCHANGED clubTables
  PROVE  JobStands(q)'
<1> DEFINE a == job[q].actor
           t == job[q].target
           asked == job[q].what
           r == job[q].item
<1>1. UserJobStands(q) /\ RoleJobStands(q) /\ ClubJobStands(q)
  BY DEF JobStands
<1>2. /\ pc[q] \in UserOps \cup RoleOps => a \in Users
      /\ pc[q] \in UserOps \cup {"assign"} => t \in Users
  BY <1>1 DEF UserJobStands, RoleJobStands, UserJobFits, RoleJobFits, IInv, JobsFit
<1>3. UserJobStands(q)'
  <2>1. /\ pc[q] \in UserOps =>
             /\ a \in Users
             /\ users'[t].status = job[q].seen.status /\ users'[t].group = job[q].seen.group
        /\ pc[q] \in {"start", "profile", "resubmit"} => a = t
        /\ pc[q] = "resubmit" => users'[t].status \notin {"banned", "approved"}
    BY <1>1, <1>2 DEF UserJobStands, UserOps
  <2>2. pc[q] = "start" => (asked.held <=> Holds(t, Admin, None)')
    BY <1>1, <1>2, RightsStay DEF UserJobStands, UserOps
  <2>3. pc[q] \in {"approve", "reject", "ban", "delete"} =>
          /\ MayModerate(a, t)'
          /\ pc[q] # "approve" => t # a
          /\ pc[q] # "ban" /\ users'[t].status \in {"banned", "deleted"} => HoldsAdmin(a)'
    BY <1>1, <1>2, RightsStay DEF UserJobStands, UserOps
  <2> QED
    BY <2>1, <2>2, <2>3 DEF UserJobStands
<1>4. RoleJobStands(q)'
  <2>1. \A s \in Roles \cup {None} : \A name : NameFree(name, s)' <=> NameFree(name, s)
    BY DEF NameFree, LiveRoles
  <2>2. pc[q] = "change role" => r \in Roles
    BY DEF IInv, JobsFit, RoleJobFits, Roles
  <2>3. pc[q] \in RoleOps \ {"limits"} => MayManageRoles(a)'
    BY <1>1, <1>2, RightsStay DEF RoleJobStands
  <2>4. /\ pc[q] = "new role" => NameFree(asked.name, None)'
        /\ pc[q] = "change role" =>
             roles'[r] = job[q].seen /\ (asked.name # None => NameFree(asked.name, r)')
    BY <1>1, <2>1, <2>2 DEF RoleJobStands
  <2>5. pc[q] = "assign" =>
          /\ r = Admin => HoldsAdmin(a)' /\ asked = None
          /\ users'[t].status = "approved" /\ ~Holds(t, r, asked)'
    BY <1>1, <1>2, RightsStay DEF RoleJobStands, RoleOps
  <2>6. pc[q] = "revoke" /\ given'[r].role = Admin => HoldsAdmin(a)' /\ given'[r].user # a
    BY <1>1, <1>2, RightsStay DEF RoleJobStands, RoleOps
  <2>7. pc[q] = "limits" =>
          /\ HasPermission(a, "settings.manage", None)'
          /\ job[q].seen = limits'
          /\ Or(asked.daily, limits'.daily) <= Or(asked.weekly, limits'.weekly)
    BY <1>1, <1>2, RightsStay DEF RoleJobStands, RoleOps
  <2> QED
    BY <1>2, <2>3, <2>4, <2>5, <2>6, <2>7 DEF RoleJobStands
<1>5. ClubJobStands(q)'
  <2>1. bands' = bands /\ members' = members /\ concerts' = concerts /\ applications' = applications
    BY DEF clubTables
  <2>2. LiveBands' = LiveBands /\ \A b : MembersOf(b)' = MembersOf(b)
    BY <2>1 DEF LiveBands, MembersOf, LiveMembers
  <2> QED
    BY <1>1, <2>1, <2>2 DEF ClubJobStands
<1> QED
  BY <1>3, <1>4, <1>5 DEF JobStands

LEMMA AskStands ==
  ASSUME IInv, SInv, NEW p \in Procs, NEW op, NEW j, Ask(p, op, j), UNCHANGED clubTables, JobStands(p)'
  PROVE  SInv'
<1>1. alone' = alone /\ users' = users /\ roles' = roles /\ given' = given /\ limits' = limits
  BY Asked DEF Ask
<1>2. ASSUME NEW q \in Procs, pc'[q] # "idle", alone'[q]
      PROVE  JobStands(q)'
  <2>1. CASE q = p
    BY <2>1
  <2>2. CASE q # p
    <3>1. pc'[q] = pc[q] /\ job'[q] = job[q]
      BY <2>2 DEF IInv, JobsFit, Ask
    <3>2. JobStands(q)
      BY <1>1, <1>2, <3>1 DEF SInv
    <3> QED
      BY <1>1, <3>1, <3>2, JobStandsStill
  <2> QED
    BY <2>1, <2>2
<1> QED
  BY <1>1, <1>2 DEF SInv

\* What a request about accounts has read stands.
LEMMA AskAboutUserStands ==
  ASSUME IInv, SInv, NEW p \in Procs, UNCHANGED clubTables,
         AskToStart(p) \/ AskToUpdateProfile(p) \/ AskToResubmit(p) \/ AskToModerate(p)
  PROVE  SInv'
<1>1. ASSUME NEW op \in UserOps, NEW j, Ask(p, op, j), j.target \in Users, j.seen = users[j.target],
             op \in {"start", "profile", "resubmit"} => j.actor = j.target,
             op = "start" => (j.what.held <=> Holds(j.target, Admin, None)),
             op = "resubmit" => users[j.target].status \notin {"banned", "approved"},
             op \in {"approve", "reject", "ban", "delete"} =>
               /\ j.actor \in Users
               /\ MayModerate(j.actor, j.target)
               /\ op # "approve" => j.target # j.actor
               /\ op # "ban" /\ users[j.target].status \in {"banned", "deleted"} => HoldsAdmin(j.actor)
      PROVE  SInv'
  <2>1. /\ pc'[p] = op /\ job'[p] = j
        /\ users' = users /\ roles' = roles /\ given' = given /\ limits' = limits
    BY <1>1, Asked
  <2>2. j.actor \in Users
    BY <1>1 DEF UserOps
  <2>3. /\ op = "start" => (j.what.held <=> Holds(j.target, Admin, None)')
        /\ op \in {"approve", "reject", "ban", "delete"} =>
             /\ MayModerate(j.actor, j.target)'
             /\ op # "ban" /\ users[j.target].status \in {"banned", "deleted"} => HoldsAdmin(j.actor)'
    BY <1>1, <2>1, <2>2, RightsStay
  <2>4. UserJobStands(p)'
    BY <1>1, <2>1, <2>2, <2>3 DEF UserJobStands
  <2>5. RoleJobStands(p)' /\ ClubJobStands(p)'
    BY <1>1, <2>1 DEF RoleJobStands, ClubJobStands, UserOps, RoleOps
  <2> QED
    BY <1>1, <2>4, <2>5, AskStands DEF JobStands
<1>2. CASE AskToStart(p)
  <2>1. PICK u \in Users : Ask(p, "start", [About(u, u) EXCEPT !.what = [held |-> Holds(u, Admin, None)]])
    BY <1>2 DEF AskToStart
  <2> DEFINE j == [About(u, u) EXCEPT !.what = [held |-> Holds(u, Admin, None)]]
  <2>2. /\ j.actor = u /\ j.target = u /\ j.seen = users[u]
        /\ j.what.held <=> Holds(u, Admin, None)
    BY DEF About, NoJob
  <2> HIDE DEF j
  <2> QED
    BY <1>1, <2>1, <2>2 DEF UserOps, j
<1>3. CASE AskToUpdateProfile(p)
  <2>1. PICK u \in Registered, g \in Groups \cup {None}, filled \in BOOLEAN :
          Ask(p, "profile", [About(u, u) EXCEPT !.what = [group |-> g, filled |-> filled]])
    BY <1>3 DEF AskToUpdateProfile
  <2> DEFINE j == [About(u, u) EXCEPT !.what = [group |-> g, filled |-> filled]]
  <2>2. j.actor = u /\ j.target = u /\ j.seen = users[u] /\ u \in Users
    BY DEF About, NoJob, Registered
  <2> HIDE DEF j
  <2> QED
    BY <1>1, <2>1, <2>2 DEF UserOps, j
<1>4. CASE AskToResubmit(p)
  <2>1. PICK u \in Registered : users[u].status \notin {"banned", "approved"} /\ Ask(p, "resubmit", About(u, u))
    BY <1>4 DEF AskToResubmit
  <2>2. About(u, u).actor = u /\ About(u, u).target = u /\ About(u, u).seen = users[u] /\ u \in Users
    BY DEF About, NoJob, Registered
  <2> QED
    BY <1>1, <2>1, <2>2 DEF UserOps
<1>5. CASE AskToModerate(p)
  <2>1. PICK a \in Registered, t \in Registered, op \in {"approve", "reject", "ban", "delete"} :
          /\ MayModerate(a, t)
          /\ op # "approve" => t # a
          /\ op # "ban" /\ users[t].status \in {"banned", "deleted"} => HoldsAdmin(a)
          /\ Ask(p, op, About(a, t))
    BY <1>5 DEF AskToModerate
  <2>2. /\ About(a, t).actor = a /\ About(a, t).target = t /\ About(a, t).seen = users[t]
        /\ a \in Users /\ t \in Users /\ op \in UserOps
    BY DEF About, NoJob, Registered, UserOps
  <2> QED
    BY <1>1, <2>1, <2>2
<1> QED
  BY <1>2, <1>3, <1>4, <1>5

LEMMA AskAboutRolesStands ==
  ASSUME IInv, SInv, NEW p \in Procs, UNCHANGED clubTables,
         \/ AskToCreateRole(p) \/ AskToUpdateRole(p) \/ AskToDeleteRole(p)
         \/ AskToAssign(p) \/ AskToRevoke(p) \/ AskToSetLimits(p)
  PROVE  SInv'
<1>1. ASSUME NEW op \in RoleOps, NEW j, Ask(p, op, j), j.actor \in Users,
             op \in RoleOps \ {"limits"} => MayManageRoles(j.actor),
             op = "new role" => NameFree(j.what.name, None),
             op = "change role" =>
               /\ j.item \in Roles /\ roles[j.item] = j.seen
               /\ j.what.name # None => NameFree(j.what.name, j.item),
             op = "assign" =>
               /\ j.target \in Users
               /\ j.item = Admin => HoldsAdmin(j.actor) /\ j.what = None
               /\ users[j.target].status = "approved" /\ ~Holds(j.target, j.item, j.what),
             op = "revoke" /\ given[j.item].role = Admin => HoldsAdmin(j.actor) /\ given[j.item].user # j.actor,
             op = "limits" =>
               /\ HasPermission(j.actor, "settings.manage", None)
               /\ j.seen = limits
               /\ Or(j.what.daily, limits.daily) <= Or(j.what.weekly, limits.weekly)
      PROVE  SInv'
  <2>1. /\ pc'[p] = op /\ job'[p] = j
        /\ users' = users /\ roles' = roles /\ given' = given /\ limits' = limits
    BY <1>1, Asked
  <2>2. /\ op \in RoleOps \ {"limits"} => MayManageRoles(j.actor)'
        /\ op = "assign" =>
             /\ j.item = Admin => HoldsAdmin(j.actor)'
             /\ ~Holds(j.target, j.item, j.what)'
        /\ op = "revoke" /\ given[j.item].role = Admin => HoldsAdmin(j.actor)'
        /\ op = "limits" => HasPermission(j.actor, "settings.manage", None)'
    BY <1>1, <2>1, RightsStay
  <2>3. /\ op = "new role" => NameFree(j.what.name, None)'
        /\ op = "change role" /\ j.what.name # None => NameFree(j.what.name, j.item)'
    BY <1>1, <2>1 DEF NameFree, LiveRoles
  <2>4. RoleJobStands(p)'
    BY <1>1, <2>1, <2>2, <2>3 DEF RoleJobStands
  <2>5. UserJobStands(p)' /\ ClubJobStands(p)'
    BY <1>1, <2>1 DEF UserJobStands, ClubJobStands, UserOps, RoleOps
  <2> QED
    BY <1>1, <2>4, <2>5, AskStands DEF JobStands
<1>2. CASE AskToCreateRole(p)
  <2>1. PICK a \in Registered, name \in RoleNames, keys \in PermissionChoices :
          /\ MayManageRoles(a) /\ NameFree(name, None)
          /\ Ask(p, "new role", Touch(a, None, [name |-> name, keys |-> keys], None))
    BY <1>2 DEF AskToCreateRole
  <2> DEFINE j == Touch(a, None, [name |-> name, keys |-> keys], None)
  <2>2. j.actor = a /\ a \in Users /\ j.what.name = name
    BY DEF Touch, Registered
  <2> HIDE DEF j
  <2> QED
    BY <1>1, <2>1, <2>2 DEF RoleOps, j
<1>3. CASE AskToUpdateRole(p)
  <2>1. PICK a \in Registered, r \in LiveRoles \ {Admin},
             name \in RoleNames \cup {None}, keys \in PermissionChoices \cup {None} :
          /\ MayManageRoles(a) /\ (name # None => NameFree(name, r))
          /\ Ask(p, "change role", Touch(a, r, [name |-> name, keys |-> keys], roles[r]))
    BY <1>3 DEF AskToUpdateRole
  <2> DEFINE j == Touch(a, r, [name |-> name, keys |-> keys], roles[r])
  <2>2. j.actor = a /\ a \in Users /\ j.what.name = name /\ j.item = r /\ j.seen = roles[r] /\ r \in Roles
    BY DEF Touch, Registered, LiveRoles
  <2> HIDE DEF j
  <2> QED
    BY <1>1, <2>1, <2>2 DEF RoleOps, j
<1>4. CASE AskToDeleteRole(p)
  <2>1. PICK a \in Registered, r \in LiveRoles \ {Admin} :
          MayManageRoles(a) /\ Ask(p, "delete role", Touch(a, r, None, None))
    BY <1>4 DEF AskToDeleteRole
  <2>2. Touch(a, r, None, None).actor = a /\ a \in Users
    BY DEF Touch, Registered
  <2> QED
    BY <1>1, <2>1, <2>2 DEF RoleOps
<1>5. CASE AskToAssign(p)
  <2>1. PICK a \in Registered, t \in Registered, r \in LiveRoles, g \in Groups \cup {None} :
          /\ MayManageRoles(a)
          /\ r = Admin => HoldsAdmin(a) /\ g = None
          /\ users[t].status = "approved" /\ ~Holds(t, r, g)
          /\ Ask(p, "assign", [About(a, t) EXCEPT !.item = r, !.what = g])
    BY <1>5 DEF AskToAssign
  <2> DEFINE j == [About(a, t) EXCEPT !.item = r, !.what = g]
  <2>2. j.actor = a /\ a \in Users /\ j.target = t /\ t \in Users /\ j.item = r /\ j.what = g
    BY DEF About, NoJob, Registered
  <2> HIDE DEF j
  <2> QED
    BY <1>1, <2>1, <2>2 DEF RoleOps, j
<1>6. CASE AskToRevoke(p)
  <2>1. PICK a \in Registered, x \in HeldIds :
          /\ MayManageRoles(a)
          /\ given[x].role = Admin => HoldsAdmin(a) /\ given[x].user # a
          /\ Ask(p, "revoke", Touch(a, x, None, None))
    BY <1>6 DEF AskToRevoke
  <2>2. Touch(a, x, None, None).actor = a /\ a \in Users /\ Touch(a, x, None, None).item = x
    BY DEF Touch, Registered
  <2> QED
    BY <1>1, <2>1, <2>2 DEF RoleOps
<1>7. CASE AskToSetLimits(p)
  <2>1. PICK a \in Registered, weekly \in LimitChoices \cup {None}, daily \in LimitChoices \cup {0, None} :
          /\ HasPermission(a, "settings.manage", None)
          /\ Or(daily, limits.daily) <= Or(weekly, limits.weekly)
          /\ Ask(p, "limits", Touch(a, None, [weekly |-> weekly, daily |-> daily], limits))
    BY <1>7 DEF AskToSetLimits
  <2> DEFINE j == Touch(a, None, [weekly |-> weekly, daily |-> daily], limits)
  <2>2. j.actor = a /\ a \in Users /\ j.what.weekly = weekly /\ j.what.daily = daily /\ j.seen = limits
    BY DEF Touch, Registered
  <2> HIDE DEF j
  <2> QED
    BY <1>1, <2>1, <2>2 DEF RoleOps, j
<1> QED
  BY <1>2, <1>3, <1>4, <1>5, <1>6, <1>7

LEMMA AskAboutClubStands ==
  ASSUME IInv, CInv, SInv, NEW p \in Procs, AsksAboutClub(p)
  PROVE  SInv'
<1>1. ASSUME NEW op \in ClubOps, NEW j, Asks(p, op, j),
             op \in {"responsible", "transfer", "remove"} =>
               /\ j.item \in LiveBands /\ j.what.member \in MembersOf(j.item)
               /\ j.seen.band = bands[j.item]
               /\ j.seen.members = [n \in MembersOf(j.item) |-> members[n]],
             op = "remove" => ~members[j.what.member].owner,
             op = "delete band" => j.seen.members = MembersOf(j.item),
             op = "submit" =>
               /\ concerts[j.what.concert] = "open"
               /\ j.item # None => applications[j.item].concert = j.what.concert
      PROVE  SInv'
  <2>1. Ask(p, op, j) /\ UNCHANGED clubTables
    BY <1>1 DEF Asks
  <2>2. pc'[p] = op /\ job'[p] = j
    BY <2>1, Asked
  <2>3. /\ bands' = bands /\ members' = members /\ concerts' = concerts /\ applications' = applications
        /\ LiveBands' = LiveBands /\ \A b : MembersOf(b)' = MembersOf(b)
    BY <2>1 DEF clubTables, LiveBands, MembersOf, LiveMembers
  <2>4. ClubJobStands(p)'
    BY <1>1, <2>2, <2>3 DEF ClubJobStands
  <2>5. UserJobStands(p)' /\ RoleJobStands(p)'
    BY <1>1, <2>2 DEF UserJobStands, RoleJobStands, UserOps, RoleOps, ClubOps
  <2> QED
    BY <2>1, <2>4, <2>5, AskStands DEF JobStands
<1>2. CASE AskToCreateBand(p) \/ AskToJoin(p) \/ AskToCreateEvent(p) \/ AskToUpdateEvent(p) \/ AskToDeleteApplication(p)
  <2>1. \E op \in {"new band", "join", "new concert", "concert", "withdraw"} : \E j : Asks(p, op, j)
    BY <1>2 DEF AskToCreateBand, AskToJoin, AskToCreateEvent, AskToUpdateEvent, AskToDeleteApplication
  <2> QED
    BY <1>1, <2>1 DEF ClubOps
<1>3. CASE AskAboutMember(p)
  <2>1. PICK a \in Registered, m \in LiveMembers, op \in {"responsible", "transfer", "remove"} :
          /\ op = "remove" => ~members[m].owner
          /\ Asks(p, op, Touch(a, members[m].band, [member |-> m],
                               [band |-> bands[members[m].band],
                                members |-> [n \in MembersOf(members[m].band) |-> members[n]]]))
    BY <1>3 DEF AskAboutMember
  <2> DEFINE b == members[m].band
             j == Touch(a, b, [member |-> m], [band |-> bands[b], members |-> [n \in MembersOf(b) |-> members[n]]])
  <2>2. m \in MembersOf(b) /\ b \in LiveBands
    BY Seen DEF MembersOf
  <2>3. /\ j.item = b /\ j.what.member = m /\ j.seen.band = bands[b]
        /\ j.seen.members = [n \in MembersOf(b) |-> members[n]]
    BY DEF Touch
  <2>4. Asks(p, op, j) /\ op \in ClubOps
    BY <2>1 DEF ClubOps
  <2> HIDE DEF j, b
  <2> QED
    BY <1>1, <2>1, <2>2, <2>3, <2>4
<1>4. CASE AskToDeleteBand(p)
  <2>1. PICK a \in Registered, b \in LiveBands :
          Asks(p, "delete band",
               Touch(a, b, None,
                     [members |-> MembersOf(b), lists |-> [x \in ApplicationsOf(b) |-> applications[x].list]]))
    BY <1>4 DEF AskToDeleteBand
  <2> DEFINE j == Touch(a, b, None,
                        [members |-> MembersOf(b), lists |-> [x \in ApplicationsOf(b) |-> applications[x].list]])
  <2>2. j.item = b /\ j.seen.members = MembersOf(b)
    BY DEF Touch
  <2>3. Asks(p, "delete band", j)
    BY <2>1
  <2> HIDE DEF j
  <2> QED
    BY <1>1, <2>2, <2>3 DEF ClubOps
<1>5. ASSUME NEW a, NEW b, NEW c, NEW s, NEW x, NEW seen, concerts[c] = "open",
             x # None => applications[x].concert = c,
             Asks(p, "submit", Touch(a, x, [band |-> b, concert |-> c, list |-> s, number |-> requests + 1], seen))
      PROVE  SInv'
  <2> DEFINE j == Touch(a, x, [band |-> b, concert |-> c, list |-> s, number |-> requests + 1], seen)
  <2>1. j.item = x /\ j.what.concert = c
    BY DEF Touch
  <2>2. Asks(p, "submit", j)
    BY <1>5
  <2> HIDE DEF j
  <2> QED
    BY <1>1, <1>5, <2>1, <2>2 DEF ClubOps
<1>6. CASE AskToSubmit(p)
  <2>1. PICK b \in LiveBands, c \in Concerts : \E a \in Registered, s \in Chosen(b) :
          LET there == {x \in ApplicationsOf(b) : applications[x].concert = c}
              x == IF there = {} THEN None ELSE CHOOSE y \in there : TRUE
          IN  /\ concerts[c] = "open"
              /\ Asks(p, "submit",
                      Touch(a, x, [band |-> b, concert |-> c, list |-> s, number |-> requests + 1],
                            [list |-> IF x = None THEN {} ELSE applications[x].list]))
    BY <1>6 DEF AskToSubmit
  <2> DEFINE there == {x \in ApplicationsOf(b) : applications[x].concert = c}
             x == IF there = {} THEN None ELSE CHOOSE y \in there : TRUE
  <2>2. PICK a \in Registered, s \in Chosen(b) :
          /\ concerts[c] = "open"
          /\ Asks(p, "submit",
                  Touch(a, x, [band |-> b, concert |-> c, list |-> s, number |-> requests + 1],
                        [list |-> IF x = None THEN {} ELSE applications[x].list]))
    BY <2>1
  <2>3. x # None => applications[x].concert = c
    <3>1. there # {} => x \in there
      OBVIOUS
    <3> QED
      BY <3>1
  <2> HIDE DEF x, there
  <2> QED
    BY <1>5, <2>2, <2>3
<1>7. CASE AskToUpdateApplication(p)
  <2>1. PICK x \in LiveApplications :
          \E a \in Registered, s \in Chosen(applications[x].band) :
            /\ concerts[applications[x].concert] = "open"
            /\ Asks(p, "submit",
                    Touch(a, x, [band |-> applications[x].band, concert |-> applications[x].concert, list |-> s,
                                 number |-> requests + 1],
                          [list |-> applications[x].list]))
    BY <1>7 DEF AskToUpdateApplication
  <2> QED
    BY <1>5, <2>1
<1> QED
  BY <1>2, <1>3, <1>4, <1>6, <1>7 DEF AsksAboutClub

\* Whoever commits leaves nobody alone, and whoever is refused changes nothing.
LEMMA EndStands ==
  ASSUME IInv, SInv, NEW p \in Procs, Commits(p) \/ (Aborts(p) /\ UNCHANGED clubTables)
  PROVE  SInv'
<1>1. /\ pc'[p] = "idle" /\ DOMAIN pc = Procs
      /\ \A q \in Procs \ {p} : pc'[q] = pc[q] /\ job'[q] = job[q]
  BY DEF IInv, JobsFit, Commits, Aborts, Ends
<1>2. CASE Commits(p)
  BY <1>1, <1>2 DEF Commits, SInv
<1>3. CASE Aborts(p) /\ UNCHANGED clubTables
  <2>1. /\ DOMAIN alone' = Procs /\ \A q \in Procs \ {p} : alone'[q] = alone[q]
        /\ users' = users /\ roles' = roles /\ given' = given /\ limits' = limits
    BY <1>3 DEF Aborts, tables, SInv
  <2>2. ASSUME NEW q \in Procs, pc'[q] # "idle", alone'[q]
        PROVE  JobStands(q)'
    <3>1. q # p /\ JobStands(q)
      BY <1>1, <2>1, <2>2 DEF SInv
    <3> QED
      BY <1>1, <1>3, <2>1, <3>1, JobStandsStill
  <2> QED
    BY <2>1, <2>2 DEF SInv
<1> QED
  BY <1>2, <1>3

LEMMA NextStands == IInv /\ CInv /\ SInv /\ [ClubNext]_clubVars => SInv'
<1> SUFFICES ASSUME IInv, CInv, SInv, [ClubNext]_clubVars
             PROVE  SInv'
  OBVIOUS
<1>1. ASSUME pc' = pc, job' = job, alone' = alone, roles' = roles, given' = given, limits' = limits,
             \A u \in Users : users'[u].status = users[u].status /\ users'[u].group = users[u].group,
             UNCHANGED clubTables
      PROVE  SInv'
  <2>1. \A q \in Procs : JobStands(q) => JobStands(q)'
    BY <1>1, JobStandsStill
  <2> QED
    BY <1>1, <2>1 DEF SInv
<1>2. CASE UNCHANGED clubVars
  <2>1. /\ pc' = pc /\ job' = job /\ alone' = alone /\ users' = users /\ roles' = roles /\ given' = given
        /\ limits' = limits /\ UNCHANGED clubTables
    BY <1>2 DEF clubVars, accountVars, tables
  <2> QED
    BY <1>1, <2>1
<1>3. CASE CoolDown /\ UNCHANGED clubTables
  <2>1. PICK u \in Users :
          /\ users' = [users EXCEPT ![u].cooling = FALSE]
          /\ roles' = roles /\ given' = given /\ limits' = limits /\ pc' = pc /\ job' = job /\ alone' = alone
    BY <1>3 DEF CoolDown
  <2>2. \A v \in Users : users'[v].status = users[v].status /\ users'[v].group = users[v].group
    BY <2>1 DEF IInv, AccountsTyped, User
  <2> QED
    BY <1>1, <1>3, <2>1, <2>2
<1>4. CASE Restart \/ DeadlinePasses
  BY <1>4 DEF Restart, DeadlinePasses, AllIdle, AllAlone, SInv
<1>5. ASSUME NEW p \in Procs, ChangesAccounts(p), UNCHANGED clubTables
      PROVE  SInv'
  <2>1. Commits(p) \/ Aborts(p)
    BY <1>5 DEF ChangesAccounts, Start, UpdateProfile, Resubmit, Approve, Reject, Ban, SoftDelete, CreateRole,
       UpdateRole, DeleteRole, Assign, Revoke, SetLimits
  <2> QED
    BY <1>5, <2>1, EndStands
<1>6. ASSUME NEW p \in Procs, ChangesClub(p)
      PROVE  SInv'
  <2>1. Done(p) \/ Refused(p)
    BY <1>6 DEF ChangesClub, CreateBand, Join, SetResponsible, Transfer, Remove, DeleteBand,
            CreateEvent, UpdateEvent, Submit, DeleteApplication
  <2> QED
    BY <2>1, EndStands DEF Done, Refused
<1>7. ASSUME NEW p \in Procs, AsksAboutAccounts(p), UNCHANGED clubTables
      PROVE  SInv'
  BY <1>7, AskAboutUserStands, AskAboutRolesStands DEF AsksAboutAccounts
<1> QED
  BY <1>2, <1>3, <1>4, <1>5, <1>6, <1>7, AskAboutClubStands DEF ClubNext, AccountsNext

LEMMA StandsHolds == ClubSpec => [](IInv /\ CInv /\ SInv)
<1>1. ClubInit => IInv /\ CInv
  BY InitKeeps, ClubInitFits DEF ClubInit, AccountsInit
<1>2. ClubInit => SInv
  BY DEF ClubInit, AccountsStart, AllAlone, AllIdle, SInv
<1>3. IInv /\ CInv /\ SInv /\ [ClubNext]_clubVars => (IInv /\ CInv /\ SInv)'
  BY NextKeeps, ClubNextFits, NextStands
<1> QED
  BY <1>1, <1>2, <1>3, PTL DEF ClubSpec

-----------------------------------------------------------------------------
(* What a request about accounts, roles or limits leaves when it ends alone  *)

AccountsKept(p) ==
  AdministratorsDecide(p) /\ BanIsLiftedByAdministrators(p) /\ ScopeIsKept(p) /\ AccountRulesKept

\* What a permission or the system role shows of its holder.
LEMMA Rights ==
  ASSUME NEW a
  PROVE  /\ HoldsAdmin(a) => HasAnyRole(a) /\ None \in ScopeOf(a)
         /\ \A perm, g : HasPermission(a, perm, g) => None \in ScopeOf(a) \/ g \in ScopeOf(a)
         /\ MayManageRoles(a) => None \in ScopeOf(a)
<1>1. \A perm, g : HasPermission(a, perm, g) => None \in ScopeOf(a) \/ (g # None /\ g \in ScopeOf(a))
  BY DEF HasPermission, ScopeOf
<1>2. HoldsAdmin(a) => HasAnyRole(a) /\ None \in ScopeOf(a)
  <2>1. SUFFICES ASSUME NEW x \in AssignmentIds, given[x] = Row(a, Admin, None)
                 PROVE  HasAnyRole(a) /\ None \in ScopeOf(a)
    BY DEF HoldsAdmin, Holds
  <2>2. x \in HeldIds /\ given[x].user = a /\ given[x].group = None
    BY <2>1 DEF HeldIds, Row
  <2> QED
    BY <2>2 DEF HasAnyRole, ScopeOf
<1> QED
  BY <1>1, <1>2 DEF MayManageRoles

\* A step that takes assignments from nobody or from some, and leaves users
\* alone: who asks must have a role for the whole club, and must stay an
\* administrator if one is lost.
LEMMA TakenKept ==
  ASSUME IInv, NEW p \in Procs, users' = users, None \in ScopeOf(job[p].actor),
         \A x \in AssignmentIds : given'[x] \in {given[x], GoneAssignment},
         NamesDiffer => NamesDiffer', DayWithinWeek => DayWithinWeek',
         \/ Administrators \subseteq Administrators'
         \/ job[p].actor \in Administrators /\ job[p].actor \in Administrators'
  PROVE  AccountsKept(p)
<1>1. ASSUME NEW x \in AssignmentIds, given'[x].state = "held"
      PROVE  given'[x] = given[x]
  BY <1>1 DEF GoneAssignment
<1>2. Administrators' \subseteq Administrators
  BY <1>1 DEF Administrators, HoldsAdmin, Holds, Row
<1>3. AdministratorsDecide(p)
  BY <1>2 DEF AdministratorsDecide
<1>4. BanIsLiftedByAdministrators(p) /\ ScopeIsKept(p)
  BY DEF BanIsLiftedByAdministrators, ScopeIsKept
<1>5. AccountRulesKept
  <2>1. HeldIds' \subseteq HeldIds /\ \A x \in HeldIds' : given'[x] = given[x]
    BY <1>1 DEF HeldIds
  <2>2. AssignedOnce => AssignedOnce'
    BY <2>1 DEF AssignedOnce
  <2>3. BannedHoldNoRole => BannedHoldNoRole'
    BY <2>1 DEF BannedHoldNoRole
  <2>4. Administrators # {} => Administrators' # {}
    OBVIOUS
  <2> QED
    BY <2>2, <2>3, <2>4 DEF AccountRulesKept, AccountRules
<1> QED
  BY <1>3, <1>4, <1>5 DEF AccountsKept

\* A step that leaves the accounts and roles alone.
LEMMA SameKept ==
  ASSUME IInv, NEW p \in Procs, roles' = roles, given' = given, limits' = limits,
         \A u \in Users : users'[u].status = users[u].status
  PROVE  AccountsKept(p)
<1>1. Administrators' = Administrators
  BY DEF Administrators, HoldsAdmin, Holds
<1>2. AdministratorsDecide(p) /\ BanIsLiftedByAdministrators(p) /\ ScopeIsKept(p)
  BY <1>1 DEF AdministratorsDecide, BanIsLiftedByAdministrators, ScopeIsKept
<1>3. HeldIds' = HeldIds /\ LiveRoles' = LiveRoles
  BY DEF HeldIds, LiveRoles
<1>4. BannedHoldNoRole => BannedHoldNoRole'
  BY <1>3 DEF BannedHoldNoRole, IInv, RolesExist, Registered
<1>5. AssignedOnce' = AssignedOnce /\ NamesDiffer' = NamesDiffer /\ DayWithinWeek' = DayWithinWeek
  BY <1>3 DEF AssignedOnce, NamesDiffer, DayWithinWeek
<1> QED
  BY <1>1, <1>2, <1>4, <1>5 DEF AccountsKept, AccountRulesKept, AccountRules

\* A step that changes the status of one user, who may lose every role.
LEMMA StatusKept ==
  ASSUME IInv, NEW p \in Procs, NEW t \in Users, NEW row \in User,
         users' = [users EXCEPT ![t] = row], roles' = roles, limits' = limits,
         given' \in {given, Stripped(t)},
         t \in Administrators =>
           \/ row.status = "approved" /\ given' = given
           \/ job[p].actor \in Administrators /\ job[p].actor # t,
         row.status = "approved" /\ Holds(t, Admin, None) => t \in Administrators \/ job[p].actor \in Administrators,
         users[t].status = "banned" /\ row.status # "banned" => t \in Initial \/ job[p].actor \in Administrators,
         row.status # users[t].status =>
           \/ job[p].actor = t
           \/ None \in ScopeOf(job[p].actor) \/ users[t].group \in ScopeOf(job[p].actor),
         row.status \in {"banned", "deleted"} => given' = Stripped(t) \/ row.status = users[t].status
  PROVE  AccountsKept(p)
<1> DEFINE a == job[p].actor
<1>1. /\ users'[t] = row /\ \A v \in Users \ {t} : users'[v] = users[v]
      /\ given \in [AssignmentIds -> Assignment]
  BY DEF IInv, AccountsTyped
<1>2. /\ \A x \in AssignmentIds : given'[x] \in {given[x], GoneAssignment}
      /\ \A x \in AssignmentIds : given[x].user # t => given'[x] = given[x]
  BY <1>1, RowsStripped
<1>3. \A x \in AssignmentIds : given'[x].state = "held" => given'[x] = given[x]
  BY <1>2 DEF GoneAssignment
<1>4. \A v \in Users, x \in AssignmentIds : given'[x] = Row(v, Admin, None) => given[x] = Row(v, Admin, None)
  BY <1>3 DEF Row
<1>5. ASSUME NEW v \in Users, v # t
      PROVE  v \in Administrators' <=> v \in Administrators
  <2>1. \A x \in AssignmentIds : given[x] = Row(v, Admin, None) => given'[x] = given[x]
    BY <1>2, <1>5 DEF Row
  <2> QED
    BY <1>1, <1>4, <1>5, <2>1 DEF Administrators, HoldsAdmin, Holds
<1>6. Administrators \subseteq Users
  BY DEF Administrators
<1>7. t \in Administrators /\ row.status = "approved" /\ given' = given => t \in Administrators'
  BY <1>1 DEF Administrators, HoldsAdmin, Holds
<1>8. t \in Administrators' => t \in Administrators \/ a \in Administrators
  BY <1>1, <1>4 DEF Administrators, HoldsAdmin, Holds
<1>9. AdministratorsDecide(p)
  <2>1. Administrators' \subseteq Users
    BY DEF Administrators
  <2> QED
    BY <1>5, <1>6, <1>7, <1>8, <2>1 DEF AdministratorsDecide
<1>10. BanIsLiftedByAdministrators(p)
  BY <1>1 DEF BanIsLiftedByAdministrators
<1>11. ScopeIsKept(p)
  BY <1>1 DEF ScopeIsKept
<1>12. Administrators # {} => Administrators' # {}
  BY <1>5, <1>6, <1>7
<1>13. HeldIds' \subseteq HeldIds /\ \A x \in HeldIds' : given'[x] = given[x]
  BY <1>3 DEF HeldIds
<1>14. AssignedOnce => AssignedOnce'
  BY <1>13 DEF AssignedOnce
<1>15. NamesDiffer' = NamesDiffer /\ DayWithinWeek' = DayWithinWeek
  BY DEF NamesDiffer, DayWithinWeek, LiveRoles
<1>16. BannedHoldNoRole => BannedHoldNoRole'
  <2> SUFFICES ASSUME BannedHoldNoRole, NEW x \in HeldIds'
               PROVE  users'[given'[x].user].status \notin {"banned", "deleted"}
    BY DEF BannedHoldNoRole
  <2>1. given'[x] = given[x] /\ x \in HeldIds /\ x \in AssignmentIds /\ given'[x].state = "held"
    BY <1>13 DEF HeldIds
  <2>2. given[x].user \in Users /\ users[given[x].user].status \notin {"banned", "deleted"}
    BY <2>1 DEF IInv, RolesExist, Registered, BannedHoldNoRole
  <2>3. CASE given[x].user # t
    BY <1>1, <2>1, <2>2, <2>3
  <2>4. CASE given[x].user = t
    <3>1. given' # Stripped(t)
      BY <2>1, <2>4 DEF Stripped, GoneAssignment
    <3> QED
      BY <1>1, <2>1, <2>2, <2>4, <3>1
  <2> QED
    BY <2>3, <2>4
<1> QED
  BY <1>9, <1>10, <1>11, <1>12, <1>14, <1>15, <1>16 DEF AccountsKept, AccountRulesKept, AccountRules

\* A step that gives somebody a role he or she did not have.
LEMMA GivenKept ==
  ASSUME IInv, NEW p \in Procs, NEW u \in Users, NEW r \in Roles, NEW g, NEW id \in AssignmentIds,
         roles' = roles, limits' = limits,
         given[id].state = "unused", given' = [given EXCEPT ![id] = Row(u, r, g)], ~Holds(u, r, g),
         users'[u].status = "approved", \A v \in Users \ {u} : users'[v].status = users[v].status,
         users[u].status = "approved" \/ (u \in Initial /\ job[p].actor = u),
         r = Admin => job[p].actor \in Administrators \/ u \in Initial
  PROVE  AccountsKept(p)
<1> DEFINE a == job[p].actor
           row == Row(u, r, g)
<1>1. row.state = "held" /\ row.user = u /\ row.role = r
  BY DEF Row
<1> HIDE DEF row
<1>2. given'[id] = row /\ \A x \in AssignmentIds \ {id} : given'[x] = given[x]
  BY DEF row, IInv, AccountsTyped
<1>3. \A v : Row(v, Admin, None).state = "held" /\ Row(v, Admin, None).user = v /\ Row(v, Admin, None).role = Admin
  BY DEF Row
<1>4. Administrators \subseteq Administrators'
  <2> SUFFICES ASSUME NEW v \in Users, v \in Administrators
               PROVE  v \in Administrators'
    BY DEF Administrators
  <2>1. users'[v].status = "approved"
    BY DEF Administrators, HoldsAdmin
  <2>2. PICK x \in AssignmentIds : given[x] = Row(v, Admin, None)
    BY DEF Administrators, HoldsAdmin, Holds
  <2>3. given'[x] = Row(v, Admin, None)
    BY <1>2, <1>3, <2>2
  <2> QED
    BY <2>1, <2>3 DEF Administrators, HoldsAdmin, Holds
<1>5. a \notin Administrators => Administrators' \subseteq Administrators \cup Initial
  <2> SUFFICES ASSUME a \notin Administrators, NEW v \in Users, v \in Administrators', v \notin Initial
               PROVE  v \in Administrators
    BY DEF Administrators
  <2>1. PICK x \in AssignmentIds : given'[x] = Row(v, Admin, None)
    BY DEF Administrators, HoldsAdmin, Holds
  <2>2. users[v].status = "approved"
    BY DEF Administrators, HoldsAdmin
  <2>3. x # id
    BY <1>1, <1>2, <1>3, <2>1
  <2> QED
    BY <1>2, <2>1, <2>2, <2>3 DEF Administrators, HoldsAdmin, Holds
<1>6. BanIsLiftedByAdministrators(p) /\ ScopeIsKept(p)
  BY DEF BanIsLiftedByAdministrators, ScopeIsKept
<1>7. AdministratorsDecide(p)
  BY <1>4, <1>5 DEF AdministratorsDecide
<1>8. HeldIds' = HeldIds \cup {id}
  BY <1>1, <1>2 DEF HeldIds
<1>9. AssignedOnce => AssignedOnce'
  <2>1. \A x \in HeldIds : given[x] # row /\ x # id
    BY DEF HeldIds, Holds, row
  <2> QED
    BY <1>2, <1>8, <2>1 DEF AssignedOnce, HeldIds
<1>10. BannedHoldNoRole => BannedHoldNoRole'
  <2> SUFFICES ASSUME BannedHoldNoRole, NEW x \in HeldIds'
               PROVE  users'[given'[x].user].status \notin {"banned", "deleted"}
    BY DEF BannedHoldNoRole
  <2>1. CASE x = id
    BY <1>1, <1>2, <2>1
  <2>2. CASE x # id
    <3>1. x \in HeldIds /\ given'[x] = given[x]
      BY <1>2, <1>8, <2>2 DEF HeldIds
    <3>2. given[x].user \in Users /\ users[given[x].user].status \notin {"banned", "deleted"}
      BY <3>1 DEF IInv, RolesExist, Registered, BannedHoldNoRole
    <3> QED
      BY <3>1, <3>2
  <2> QED
    BY <2>1, <2>2
<1>11. NamesDiffer' = NamesDiffer /\ DayWithinWeek' = DayWithinWeek
  BY DEF NamesDiffer, DayWithinWeek, LiveRoles
<1> QED
  BY <1>4, <1>6, <1>7, <1>9, <1>10, <1>11 DEF AccountsKept, AccountRulesKept, AccountRules

\* What a request about a user has read stands when it ends alone.
LEMMA AloneTarget ==
  ASSUME IInv, NEW p \in Procs, JobStands(p), pc[p] \in UserOps
  PROVE  /\ job[p].target \in Users /\ job[p].seen \in User /\ users[job[p].target] \in User
         /\ users[job[p].target].status = job[p].seen.status
         /\ pc[p] \in {"start", "profile", "resubmit"} => job[p].actor = job[p].target
         /\ pc[p] \in {"approve", "reject", "ban", "delete"} =>
              /\ job[p].target \in Administrators => job[p].actor \in Administrators
              /\ Holds(job[p].target, Admin, None) => job[p].actor \in Administrators
              /\ \/ None \in ScopeOf(job[p].actor)
                 \/ users[job[p].target].group \in ScopeOf(job[p].actor)
              /\ pc[p] # "approve" => job[p].actor # job[p].target
              /\ pc[p] # "ban" /\ users[job[p].target].status \in {"banned", "deleted"} =>
                   job[p].actor \in Administrators
<1> DEFINE a == job[p].actor
           t == job[p].target
<1>1. t \in Users /\ job[p].seen \in User /\ users[t] \in User
  BY DEF IInv, JobsFit, UserJobFits, AccountsTyped
<1>2. UserJobStands(p) /\ a \in Users
  BY DEF JobStands, UserJobStands
<1>3. HoldsAdmin(a) => a \in Administrators
  BY <1>2 DEF Administrators
<1>4. Holds(t, Admin, None) => HasAnyRole(t)
  BY DEF Holds, HasAnyRole, HeldIds, Row
<1>5. t \in Administrators => HasAnyRole(t)
  BY <1>4 DEF Administrators, HoldsAdmin
<1>6. MayModerate(a, t) =>
        /\ HasAnyRole(t) => a \in Administrators
        /\ None \in ScopeOf(a) \/ users[t].group \in ScopeOf(a)
  BY <1>3, Rights DEF MayModerate
<1> QED
  BY <1>1, <1>2, <1>3, <1>4, <1>5, <1>6 DEF UserJobStands

LEMMA StartKept ==
  ASSUME IInv, NEW p \in Procs, JobStands(p), Start(p)
  PROVE  AccountsKept(p)
<1> DEFINE u == job[p].target
           seen == job[p].seen
           new == Entered(u, seen)
           row == Written(users[u], seen, new)
<1>1. pc[p] = "start" /\ pc[p] \in UserOps
  BY DEF Start, UserOps
<1>2. /\ u \in Users /\ seen \in User /\ users[u] \in User
      /\ users[u].status = seen.status /\ job[p].actor = u
  BY <1>1, AloneTarget
<1>3. job[p].what.held <=> Holds(u, Admin, None)
  BY <1>1 DEF JobStands, UserJobStands
<1>4. CASE Aborts(p)
  BY <1>4, SameKept DEF Aborts, tables
<1>5. CASE /\ users' = [users EXCEPT ![u] = row] /\ roles' = roles /\ limits' = limits
           /\ IF u \in Initial /\ ~job[p].what.held THEN Give(u, Admin, None)
              ELSE given' = IF u \notin Initial /\ seen.status = "deleted" THEN Stripped(u) ELSE given
  <2>1. /\ new \in User
        /\ u \in Initial => new.status = "approved"
        /\ u \notin Initial => new.status = IF seen.status \in {"absent", "deleted"} THEN "pending" ELSE seen.status
    BY <1>2 DEF Entered, Blank, User, Statuses
  <2>2. row \in User /\ row.status = new.status
    BY <1>2, <2>1, RowStored
  <2>3. Holds(u, Admin, None) => users[u].status # "absent"
    BY <1>2 DEF Holds, Row, IInv, RolesExist, HeldIds, Registered
  <2>4. u \in Initial /\ users[u].status # "absent" => u \in Administrators
    BY <1>2 DEF IInv, InitialAdminsKeepRole, Registered
  <2>5. u \in Administrators => users[u].status = "approved" /\ Holds(u, Admin, None)
    BY DEF Administrators, HoldsAdmin
  <2>6. users[u].status = "approved" /\ Holds(u, Admin, None) => u \in Administrators
    BY <1>2 DEF Administrators, HoldsAdmin
  <2> HIDE DEF new, row
  <2>7. CASE u \in Initial /\ ~job[p].what.held
    <3>1. given \in [AssignmentIds -> Assignment] /\ Admin \in Roles /\ None \in Groups \cup {None}
      BY DEF IInv, AccountsTyped, Roles
    <3>2. Give(u, Admin, None)
      BY <1>5, <2>7
    <3>3. PICK id \in AssignmentIds :
            given[id].state = "unused" /\ given' = [given EXCEPT ![id] = Row(u, Admin, None)]
      BY <1>2, <3>1, <3>2, RowGiven
    <3>4. users'[u].status = "approved" /\ \A v \in Users \ {u} : users'[v].status = users[v].status
      BY <1>2, <1>5, <2>1, <2>2, <2>7 DEF IInv, AccountsTyped
    <3>5. ~Holds(u, Admin, None)
      BY <1>3, <2>7
    <3> HIDE DEF u
    <3> QED
      BY <1>2, <1>5, <2>7, <3>1, <3>3, <3>4, <3>5, GivenKept
  <2>8. CASE u \in Initial /\ job[p].what.held
    <3>1. given' = given /\ row.status = "approved" /\ u \in Administrators
      BY <1>3, <1>5, <2>1, <2>2, <2>3, <2>4, <2>8
    <3> HIDE DEF u
    <3> QED
      BY <1>2, <1>5, <2>2, <2>8, <3>1, StatusKept
  <2>9. CASE u \notin Initial
    <3>1. given' = IF users[u].status = "deleted" THEN Stripped(u) ELSE given
      BY <1>2, <1>5, <2>9
    <3>2. row.status = IF users[u].status \in {"absent", "deleted"} THEN "pending" ELSE users[u].status
      BY <1>2, <2>1, <2>2, <2>9
    <3> HIDE DEF u
    <3> QED
      BY <1>2, <1>5, <2>2, <2>5, <2>6, <3>1, <3>2, StatusKept
  <2> QED
    BY <2>7, <2>8, <2>9
<1> QED
  BY <1>4, <1>5 DEF Start, Save

LEMMA ProfileKept ==
  ASSUME IInv, NEW p \in Procs, JobStands(p), UpdateProfile(p)
  PROVE  AccountsKept(p)
<1> DEFINE u == job[p].target
           seen == job[p].seen
           asked == job[p].what
           new == [seen EXCEPT !.group = IF asked.group = None THEN @ ELSE asked.group,
                               !.complete = @ \/ asked.filled]
           row == Written(users[u], seen, new)
<1>1. /\ pc[p] = "profile" /\ pc[p] \in UserOps
      /\ roles' = roles /\ limits' = limits /\ given' = given /\ users' = [users EXCEPT ![u] = row]
  BY DEF UpdateProfile, Save, UserOps
<1>2. u \in Users /\ seen \in User /\ users \in [Users -> User]
  BY <1>1, AloneTarget DEF IInv, AccountsTyped
<1>3. row.status = users[u].status
  BY <1>2 DEF Written, User
<1> HIDE DEF u, row
<1>4. \A v \in Users : users'[v].status = users[v].status
  BY <1>1, <1>2, <1>3
<1> QED
  BY <1>1, <1>4, SameKept

LEMMA ResubmitKept ==
  ASSUME IInv, NEW p \in Procs, JobStands(p), Resubmit(p)
  PROVE  AccountsKept(p)
<1> DEFINE u == job[p].target
           seen == job[p].seen
           new == [seen EXCEPT !.status = "pending", !.cooling = FALSE]
           row == Written(users[u], seen, new)
<1>1. /\ pc[p] = "resubmit" /\ pc[p] \in UserOps
      /\ roles' = roles /\ limits' = limits /\ given' = given /\ users' = [users EXCEPT ![u] = row]
  BY DEF Resubmit, Save, UserOps
<1>2. /\ u \in Users /\ seen \in User /\ users[u] \in User
      /\ users[u].status = seen.status /\ job[p].actor = u
  BY <1>1, AloneTarget
<1>3. users[u].status \notin {"banned", "approved"}
  BY <1>1 DEF JobStands, UserJobStands
<1>4. new \in User /\ new.status = "pending"
  BY <1>2 DEF User, Statuses
<1>5. u \notin Administrators
  BY <1>3 DEF Administrators, HoldsAdmin
<1> HIDE DEF u, seen, new
<1>6. row \in User /\ row.status = "pending"
  BY <1>2, <1>4, RowStored
<1> HIDE DEF row
<1> QED
  BY <1>1, <1>2, <1>3, <1>5, <1>6, StatusKept

LEMMA ModerationKept ==
  ASSUME IInv, NEW p \in Procs, JobStands(p), Approve(p) \/ Reject(p) \/ Ban(p) \/ SoftDelete(p)
  PROVE  AccountsKept(p)
<1> DEFINE a == job[p].actor
           u == job[p].target
           seen == job[p].seen
           Status(op) == CASE op = "approve" -> "approved" [] op = "reject" -> "rejected"
                           [] op = "ban" -> "banned" [] op = "delete" -> "deleted"
<1>1. pc[p] \in {"approve", "reject", "ban", "delete"} /\ pc[p] \in UserOps
  BY DEF Approve, Reject, Ban, SoftDelete, UserOps
<1>2. /\ u \in Users /\ seen \in User /\ users[u] \in User /\ users[u].status = seen.status
      /\ u \in Administrators => a \in Administrators
      /\ Holds(u, Admin, None) => a \in Administrators
      /\ None \in ScopeOf(a) \/ users[u].group \in ScopeOf(a)
      /\ pc[p] # "approve" => a # u
      /\ pc[p] # "ban" /\ users[u].status \in {"banned", "deleted"} => a \in Administrators
  BY <1>1, AloneTarget
<1>3. roles' = roles /\ limits' = limits
  BY DEF Approve, Reject, Ban, SoftDelete
<1>4. given' = IF pc[p] \in {"ban", "delete"} THEN Stripped(u) ELSE given
  BY DEF Approve, Reject, Ban, SoftDelete
<1>5. \E row \in User : row.status = Status(pc[p]) /\ users' = [users EXCEPT ![u] = row]
  <2>1. CASE Approve(p)
    <3> DEFINE new == [seen EXCEPT !.status = "approved", !.cooling = FALSE]
               row == Written(users[u], seen, new)
    <3>1. pc[p] = "approve" /\ users' = [users EXCEPT ![u] = row]
      BY <2>1 DEF Approve, Save
    <3>2. new \in User /\ new.status = "approved"
      BY <1>2 DEF User, Statuses
    <3> HIDE DEF u, seen, new
    <3>3. row \in User /\ row.status = "approved"
      BY <1>2, <3>2, RowStored
    <3> HIDE DEF row
    <3> QED
      BY <3>1, <3>3
  <2>2. CASE Reject(p)
    <3> DEFINE new == [seen EXCEPT !.status = "rejected"]
               stored == Written(users[u], seen, new)
               row == [stored EXCEPT !.cooling = TRUE]
    <3>1. pc[p] = "reject" /\ users' = [users EXCEPT ![u] = row]
      BY <2>2 DEF Reject
    <3>2. new \in User /\ new.status = "rejected"
      BY <1>2 DEF User, Statuses
    <3> HIDE DEF u, seen, new
    <3>3. stored \in User /\ stored.status = "rejected"
      BY <1>2, <3>2, RowStored
    <3> HIDE DEF stored
    <3>4. row \in User /\ row.status = "rejected"
      BY <3>3 DEF User
    <3> HIDE DEF row
    <3> QED
      BY <3>1, <3>4
  <2>3. CASE Ban(p)
    <3> DEFINE new == [seen EXCEPT !.status = "banned", !.cooling = FALSE]
               row == Written(users[u], seen, new)
    <3>1. pc[p] = "ban" /\ users' = [users EXCEPT ![u] = row]
      BY <2>3 DEF Ban, Save
    <3>2. new \in User /\ new.status = "banned"
      BY <1>2 DEF User, Statuses
    <3> HIDE DEF u, seen, new
    <3>3. row \in User /\ row.status = "banned"
      BY <1>2, <3>2, RowStored
    <3> HIDE DEF row
    <3> QED
      BY <3>1, <3>3
  <2>4. CASE SoftDelete(p)
    <3> DEFINE new == [seen EXCEPT !.status = "deleted", !.complete = FALSE, !.cooling = FALSE]
               row == Written(users[u], seen, new)
    <3>1. pc[p] = "delete" /\ users' = [users EXCEPT ![u] = row]
      BY <2>4 DEF SoftDelete, Save
    <3>2. new \in User /\ new.status = "deleted"
      BY <1>2 DEF User, Statuses
    <3> HIDE DEF u, seen, new
    <3>3. row \in User /\ row.status = "deleted"
      BY <1>2, <3>2, RowStored
    <3> HIDE DEF row
    <3> QED
      BY <3>1, <3>3
  <2> QED
    BY <2>1, <2>2, <2>3, <2>4
<1>6. PICK row \in User : row.status = Status(pc[p]) /\ users' = [users EXCEPT ![u] = row]
  BY <1>5
<1>7. /\ given' \in {given, Stripped(u)}
      /\ row.status = "approved" => given' = given
      /\ row.status \in {"banned", "deleted"} => given' = Stripped(u)
      /\ row.status # "approved" => a # u
      /\ users[u].status = "banned" /\ row.status # "banned" => a \in Administrators
  BY <1>1, <1>2, <1>4, <1>6
<1> HIDE DEF u, Status
<1> QED
  BY <1>2, <1>3, <1>6, <1>7, StatusKept

\* Who may manage roles holds one for the whole club.
LEMMA AloneActor ==
  ASSUME NEW p \in Procs, JobStands(p), pc[p] \in RoleOps
  PROVE  None \in ScopeOf(job[p].actor) /\ job[p].actor \in Users
<1>1. RoleJobStands(p)
  BY DEF JobStands
<1>2. CASE pc[p] = "limits"
  BY <1>1, <1>2, Rights DEF RoleJobStands
<1>3. CASE pc[p] # "limits"
  BY <1>1, <1>3, Rights DEF RoleJobStands
<1> QED
  BY <1>1, <1>2, <1>3 DEF RoleJobStands

\* Roles or limits change, nobody gets or loses one.
LEMMA SettingsKept ==
  ASSUME IInv, NEW p \in Procs, JobStands(p), pc[p] \in RoleOps, users' = users, given' = given,
         NamesDiffer => NamesDiffer', DayWithinWeek => DayWithinWeek'
  PROVE  AccountsKept(p)
<1>1. Administrators' = Administrators
  BY DEF Administrators, HoldsAdmin, Holds
<1> QED
  BY <1>1, AloneActor, TakenKept

LEMMA CreateRoleKept ==
  ASSUME IInv, NEW p \in Procs, JobStands(p), CreateRole(p)
  PROVE  AccountsKept(p)
<1> DEFINE asked == job[p].what
           fresh == {r \in RoleIds : roles[r].state = "unused"}
           r0 == CHOOSE r \in fresh : TRUE
           row == [state |-> "live", name |-> asked.name, holds |-> asked.keys]
<1>1. CASE Aborts(p)
  BY <1>1, SameKept DEF Aborts, tables
<1>2. CASE /\ fresh # {} /\ roles' = [roles EXCEPT ![r0] = row]
           /\ users' = users /\ given' = given /\ limits' = limits
  <2>1. pc[p] = "new role" /\ pc[p] \in RoleOps
    BY DEF CreateRole, RoleOps
  <2>2. r0 \in Roles
    <3>1. r0 \in fresh
      BY <1>2
    <3> QED
      BY <3>1 DEF Roles
  <2>3. \A r \in LiveRoles : ~Alike(roles[r].name, asked.name)
    <3>1. NameFree(asked.name, None)
      BY <2>1 DEF JobStands, RoleJobStands
    <3> QED
      BY <3>1, Parties DEF NameFree, LiveRoles
  <2>4. row.name = asked.name
    OBVIOUS
  <2> HIDE DEF r0, row, asked
  <2>5. roles'[r0] = row /\ \A r \in Roles \ {r0} : roles'[r] = roles[r]
    BY <1>2, <2>2 DEF IInv, AccountsTyped
  <2>6. LiveRoles' \subseteq LiveRoles \cup {r0}
    BY <2>5 DEF LiveRoles
  <2>7. NamesDiffer => NamesDiffer'
    <3> SUFFICES ASSUME NamesDiffer, NEW q \in LiveRoles', NEW r \in LiveRoles',
                        Alike(roles'[q].name, roles'[r].name)
                 PROVE  q = r
      BY DEF NamesDiffer, Alike
    <3>1. \A s \in LiveRoles' : s # r0 => s \in LiveRoles /\ roles'[s] = roles[s]
      BY <2>5, <2>6 DEF LiveRoles
    <3>2. CASE q # r0 /\ r # r0
      BY <3>1, <3>2 DEF NamesDiffer
    <3>3. CASE q = r0 /\ r # r0
      BY <2>3, <2>4, <2>5, <3>1, <3>3 DEF Alike
    <3>4. CASE q # r0 /\ r = r0
      BY <2>3, <2>4, <2>5, <3>1, <3>4 DEF Alike
    <3> QED
      BY <3>2, <3>3, <3>4
  <2>8. DayWithinWeek' = DayWithinWeek
    BY <1>2 DEF DayWithinWeek
  <2> QED
    BY <1>2, <2>1, <2>7, <2>8, SettingsKept
<1> QED
  BY <1>1, <1>2 DEF CreateRole

LEMMA UpdateRoleKept ==
  ASSUME IInv, NEW p \in Procs, JobStands(p), UpdateRole(p)
  PROVE  AccountsKept(p)
<1> DEFINE r0 == job[p].item
           asked == job[p].what
           seen == job[p].seen
           renamed == asked.name \notin {None, seen.name}
           added == IF asked.keys = None THEN {} ELSE asked.keys \ seen.holds
           removed == IF asked.keys = None THEN {} ELSE seen.holds \ asked.keys
<1>1. CASE Aborts(p)
  BY <1>1, SameKept DEF Aborts, tables
<1>2. CASE ~Aborts(p)
  <2>1. /\ pc[p] = "change role" /\ pc[p] \in RoleOps
        /\ roles' = [roles EXCEPT ![r0].name = IF renamed THEN asked.name ELSE @,
                                  ![r0].holds = (@ \ removed) \cup added]
        /\ users' = users /\ given' = given /\ limits' = limits
    BY <1>2 DEF UpdateRole, RoleOps
  <2>2. renamed => \A r \in LiveRoles \ {r0} : ~Alike(roles[r].name, asked.name)
    BY <2>1 DEF JobStands, RoleJobStands, NameFree
  <2>3. roles \in [Roles -> Role] /\ r0 \in Roles
    BY <2>1 DEF IInv, AccountsTyped, JobsFit, RoleJobFits, Roles
  <2> HIDE DEF r0, added, removed, renamed, asked
  <2>4. /\ roles'[r0].state = roles[r0].state
        /\ roles'[r0].name = IF renamed THEN asked.name ELSE roles[r0].name
        /\ \A r \in Roles \ {r0} : roles'[r] = roles[r]
    BY <2>1, <2>3 DEF Role
  <2>5. LiveRoles' = LiveRoles
    BY <2>4 DEF LiveRoles
  <2>6. NamesDiffer => NamesDiffer'
    <3> SUFFICES ASSUME NamesDiffer, NEW q \in LiveRoles, NEW r \in LiveRoles,
                        Alike(roles'[q].name, roles'[r].name)
                 PROVE  q = r
      BY <2>5 DEF NamesDiffer, Alike
    <3>1. q \in Roles /\ r \in Roles
      BY DEF LiveRoles
    <3>2. CASE ~renamed \/ (q # r0 /\ r # r0)
      BY <2>4, <3>1, <3>2 DEF NamesDiffer, Alike
    <3>3. CASE renamed /\ q = r0
      BY <2>2, <2>4, <3>1, <3>3 DEF Alike
    <3>4. CASE renamed /\ r = r0
      BY <2>2, <2>4, <3>1, <3>4 DEF Alike
    <3> QED
      BY <3>2, <3>3, <3>4
  <2>7. DayWithinWeek' = DayWithinWeek
    BY <2>1 DEF DayWithinWeek
  <2> QED
    BY <2>1, <2>6, <2>7, SettingsKept
<1> QED
  BY <1>1, <1>2

LEMMA SetLimitsKept ==
  ASSUME IInv, NEW p \in Procs, JobStands(p), SetLimits(p)
  PROVE  AccountsKept(p)
<1> DEFINE asked == job[p].what
<1>1. pc[p] = "limits" /\ pc[p] \in RoleOps /\ users' = users /\ roles' = roles /\ given' = given
  BY DEF SetLimits, RoleOps
<1>2. job[p].seen = limits /\ Or(asked.daily, limits.daily) <= Or(asked.weekly, limits.weekly)
  BY <1>1 DEF JobStands, RoleJobStands
<1>3. limits' = [weekly |-> Or(asked.weekly, limits.weekly), daily |-> Or(asked.daily, limits.daily)]
  BY <1>2 DEF SetLimits, Or
<1>4. DayWithinWeek'
  BY <1>2, <1>3 DEF DayWithinWeek
<1>5. NamesDiffer' = NamesDiffer
  BY <1>1 DEF NamesDiffer, LiveRoles
<1> QED
  BY <1>1, <1>4, <1>5, SettingsKept

LEMMA DeleteRoleKept ==
  ASSUME IInv, NEW p \in Procs, JobStands(p), DeleteRole(p)
  PROVE  AccountsKept(p)
<1> DEFINE r0 == job[p].item
<1>1. /\ pc[p] = "delete role" /\ pc[p] \in RoleOps
      /\ roles' = [roles EXCEPT ![r0] = GoneRole]
      /\ given' = [x \in AssignmentIds |-> IF given[x].role = r0 THEN GoneAssignment ELSE given[x]]
      /\ users' = users /\ limits' = limits
  BY DEF DeleteRole, RoleOps
<1>2. r0 \in Roles /\ r0 # Admin
  BY <1>1, Parties DEF IInv, JobsFit, RoleJobFits, Roles
<1> HIDE DEF r0
<1>3. \A x \in AssignmentIds : given'[x] \in {given[x], GoneAssignment}
  BY <1>1
<1>4. Administrators \subseteq Administrators'
  <2> SUFFICES ASSUME NEW u \in Users, u \in Administrators
               PROVE  u \in Administrators'
    BY DEF Administrators
  <2>1. PICK x \in AssignmentIds : given[x] = Row(u, Admin, None)
    BY DEF Administrators, HoldsAdmin, Holds
  <2>2. given[x].role = Admin
    BY <2>1 DEF Row
  <2>3. given'[x] = Row(u, Admin, None)
    BY <1>1, <1>2, <2>1, <2>2
  <2> QED
    BY <1>1, <2>3 DEF Administrators, HoldsAdmin, Holds
<1>5. NamesDiffer => NamesDiffer'
  <2>1. \A r \in LiveRoles' : r \in LiveRoles /\ roles'[r] = roles[r]
    BY <1>1, <1>2 DEF LiveRoles, GoneRole, IInv, AccountsTyped
  <2> QED
    BY <2>1 DEF NamesDiffer, Alike
<1>6. DayWithinWeek' = DayWithinWeek
  BY <1>1 DEF DayWithinWeek
<1> QED
  BY <1>1, <1>3, <1>4, <1>5, <1>6, AloneActor, TakenKept

LEMMA AssignKept ==
  ASSUME IInv, NEW p \in Procs, JobStands(p), Assign(p)
  PROVE  AccountsKept(p)
<1> DEFINE a == job[p].actor
           u == job[p].target
           r == job[p].item
           g == job[p].what
<1>1. CASE Aborts(p)
  BY <1>1, SameKept DEF Aborts, tables
<1>2. CASE Give(u, r, g) /\ users' = users /\ roles' = roles /\ limits' = limits
  <2>1. pc[p] = "assign" /\ pc[p] \in RoleOps
    BY DEF Assign, RoleOps
  <2>2. /\ u \in Users /\ r \in Roles /\ g \in Groups \cup {None}
        /\ given \in [AssignmentIds -> Assignment]
    BY <2>1 DEF IInv, AccountsTyped, JobsFit, RoleJobFits
  <2>3. /\ r = Admin => HoldsAdmin(a)
        /\ users[u].status = "approved" /\ ~Holds(u, r, g) /\ a \in Users
    BY <2>1, AloneActor DEF JobStands, RoleJobStands
  <2>4. r = Admin => a \in Administrators
    BY <2>3 DEF Administrators
  <2> HIDE DEF u, r, g
  <2>5. PICK id \in AssignmentIds : given[id].state = "unused" /\ given' = [given EXCEPT ![id] = Row(u, r, g)]
    BY <1>2, <2>2, RowGiven
  <2> QED
    BY <1>2, <2>2, <2>3, <2>4, <2>5, GivenKept
<1> QED
  BY <1>1, <1>2 DEF Assign

LEMMA RevokeKept ==
  ASSUME IInv, NEW p \in Procs, JobStands(p), Revoke(p)
  PROVE  AccountsKept(p)
<1> DEFINE a == job[p].actor
           x0 == job[p].item
<1>1. /\ pc[p] = "revoke" /\ pc[p] \in RoleOps
      /\ given' = [given EXCEPT ![x0] = GoneAssignment]
      /\ users' = users /\ roles' = roles /\ limits' = limits
  BY DEF Revoke, RoleOps
<1>2. /\ x0 \in AssignmentIds
      /\ given[x0].role = Admin => HoldsAdmin(a) /\ given[x0].user # a
  BY <1>1 DEF IInv, JobsFit, RoleJobFits, JobStands, RoleJobStands
<1>3. None \in ScopeOf(a) /\ a \in Users
  BY <1>1, AloneActor
<1> HIDE DEF x0
<1>4. given'[x0] = GoneAssignment /\ \A x \in AssignmentIds \ {x0} : given'[x] = given[x]
  BY <1>1, <1>2 DEF IInv, AccountsTyped
<1>5. ASSUME NEW u \in Users, u \in Administrators, given[x0].role # Admin \/ given[x0].user # u
      PROVE  u \in Administrators'
  <2>1. PICK x \in AssignmentIds : given[x] = Row(u, Admin, None)
    BY <1>5 DEF Administrators, HoldsAdmin, Holds
  <2>2. x # x0
    BY <1>5, <2>1 DEF Row
  <2> QED
    BY <1>1, <1>4, <1>5, <2>1, <2>2 DEF Administrators, HoldsAdmin, Holds
<1>6. \/ Administrators \subseteq Administrators'
      \/ a \in Administrators /\ a \in Administrators'
  <2>1. CASE given[x0].role # Admin
    BY <1>5, <2>1 DEF Administrators
  <2>2. CASE given[x0].role = Admin
    BY <1>2, <1>3, <1>5, <2>2 DEF Administrators
  <2> QED
    BY <2>1, <2>2
<1>7. NamesDiffer' = NamesDiffer /\ DayWithinWeek' = DayWithinWeek
  BY <1>1 DEF NamesDiffer, DayWithinWeek, LiveRoles
<1> QED
  BY <1>1, <1>3, <1>4, <1>6, <1>7, TakenKept

\* A restart finds the initial administrators as it would make them.
LEMMA RestartKept ==
  ASSUME IInv, NEW p \in Procs, Restart
  PROVE  AccountsKept(p)
<1>1. PICK id \in FreeIds(users, given) : given' = SeededGiven(users, given, id)
  BY DEF Restart
<1>2. users' = SeededUsers(users) /\ roles' = roles /\ limits' = limits
  BY DEF Restart
<1>3. users \in [Users -> User] /\ given \in [AssignmentIds -> Assignment]
  BY DEF IInv, AccountsTyped
<1>4. \A u \in Initial : users[u].status # "absent" => users[u].status = "approved" /\ Holds(u, Admin, None)
  BY Parties DEF IInv, InitialAdminsKeepRole, Registered, Administrators, HoldsAdmin
<1>5. Lacking(users, given) = {}
  BY <1>4 DEF Lacking, Holds
<1>6. given' = given
  BY <1>1, <1>3, <1>5 DEF SeededGiven
<1>7. \A u \in Users : users'[u].status = users[u].status
  BY <1>2, <1>3, <1>4 DEF SeededUsers, User
<1> QED
  BY <1>2, <1>6, <1>7, SameKept

\* Only its own step or a restart ends a request.
LEMMA WhoEnds ==
  ASSUME IInv, NEW p \in Procs, EndsAlone(p), ClubNext
  PROVE  \/ ChangesAccounts(p) /\ UNCHANGED clubTables
         \/ ChangesClub(p)
         \/ Restart /\ UNCHANGED clubTables
<1>1. pc[p] # "idle" /\ pc'[p] = "idle" /\ DOMAIN pc = Procs
  BY DEF EndsAlone, IInv, JobsFit
<1>2. ASSUME NEW q \in Procs, AsksAboutAccounts(q) \/ AsksAboutClub(q)
      PROVE  FALSE
  <2>1. pc[q] = "idle"
    BY <1>2 DEF AsksAboutAccounts, AsksAboutClub, MayAsk
  <2>2. \E op, j : Ask(q, op, j)
    BY <1>2 DEF AsksAboutAccounts, AskToStart, AskToUpdateProfile, AskToResubmit, AskToModerate, AskToCreateRole,
       AskToUpdateRole, AskToDeleteRole, AskToAssign, AskToRevoke, AskToSetLimits,
       AsksAboutClub, Asks, AskToCreateBand, AskToJoin, AskAboutMember, AskToDeleteBand, AskToCreateEvent,
       AskToUpdateEvent, AskToSubmit, AskToUpdateApplication, AskToDeleteApplication
  <2>3. q # p /\ pc'[p] = pc[p]
    BY <1>1, <2>1, <2>2 DEF Ask
  <2> QED
    BY <1>1, <2>3
<1>3. ASSUME NEW q \in Procs, ChangesAccounts(q) \/ ChangesClub(q)
      PROVE  q = p
  <2>1. Ends(q)
    <3>1. CASE ChangesAccounts(q)
      BY <3>1 DEF ChangesAccounts, Start, UpdateProfile, Resubmit, Approve, Reject, Ban, SoftDelete, CreateRole,
         UpdateRole, DeleteRole, Assign, Revoke, SetLimits, Commits, Aborts
    <3>2. CASE ChangesClub(q)
      <4>1. Done(q) \/ Refused(q)
        BY <3>2 DEF ChangesClub, CreateBand, Join, SetResponsible, Transfer, Remove, DeleteBand,
                CreateEvent, UpdateEvent, Submit, DeleteApplication
      <4> QED
        BY <4>1, DoneEnds DEF Refused, Aborts
    <3> QED
      BY <1>3, <3>1, <3>2
  <2> QED
    BY <1>1, <2>1 DEF Ends
<1>4. ~CoolDown /\ ~DeadlinePasses
  BY <1>1 DEF CoolDown, DeadlinePasses
<1> QED
  BY <1>2, <1>3, <1>4 DEF ClubNext, AccountsNext

LEMMA EndKeepsAccounts ==
  ASSUME IInv, SInv, NEW p \in Procs, EndsAlone(p), ClubNext
  PROVE  AccountsKept(p)
<1>1. JobStands(p)
  BY DEF EndsAlone, SInv
<1>2. CASE ChangesAccounts(p)
  BY <1>1, <1>2, StartKept, ProfileKept, ResubmitKept, ModerationKept, CreateRoleKept, UpdateRoleKept,
     DeleteRoleKept, AssignKept, RevokeKept, SetLimitsKept DEF ChangesAccounts
<1>3. CASE ChangesClub(p)
  <2>1. UNCHANGED tables
    <3>1. Done(p) \/ Refused(p)
      BY <1>3 DEF ChangesClub, CreateBand, Join, SetResponsible, Transfer, Remove, DeleteBand,
              CreateEvent, UpdateEvent, Submit, DeleteApplication
    <3> QED
      BY <3>1 DEF Done, Refused, Aborts
  <2> QED
    BY <2>1, SameKept DEF tables
<1> QED
  BY <1>2, <1>3, WhoEnds, RestartKept

(***************************************************************************)
(* For every club: a request that is alone between reading and commit      *)
(* gives nobody more than its author may give.  The administrators change  *)
(* only by one of them or by an initial administrator who registers, a ban *)
(* is lifted only by an administrator, and who holds roles for groups only *)
(* changes neither roles nor limits nor the status of anybody outside      *)
(* these groups (permissions.py:17, roles.py:213, users.py:153).           *)
(***************************************************************************)
THEOREM AloneNobodyRises == ClubSpec => NobodyRises
<1>1. IInv /\ SInv /\ [ClubNext]_clubVars =>
        [\A p \in Procs :
           EndsAlone(p) => AdministratorsDecide(p) /\ BanIsLiftedByAdministrators(p) /\ ScopeIsKept(p)]_accountVars
  <2>1. UNCHANGED clubVars => UNCHANGED accountVars
    BY DEF clubVars
  <2> QED
    BY <2>1, EndKeepsAccounts DEF AccountsKept
<1> QED
  BY <1>1, StandsHolds, PTL DEF ClubSpec, NobodyRises

-----------------------------------------------------------------------------
(* What a request about bands or lists leaves when it ends alone             *)

\* Who is in a band, who owns it, and whether somebody is in it, by a table of
\* members.
LiveIn(ms, b) == {m \in MemberIds : ms[m].state = "live" /\ ms[m].band = b}
OwnersIn(ms, b) == {m \in LiveIn(ms, b) : ms[m].owner}
IsIn(ms, u, b) == \E m \in LiveIn(ms, b) : ms[m].user = u

BandRulesKept == OneOwner /\ ResponsibleInside => (OneOwner /\ ResponsibleInside)'

\* Nobody who is responsible is outside the band.
Inside(bs, ms) ==
  \A b \in BandIds : bs[b].state = "live" => bs[b].responsible = None \/ IsIn(ms, bs[b].responsible, b)

LEMMA InsideIsInside == (ResponsibleInside <=> Inside(bands, members)) /\ (ResponsibleInside' <=> Inside(bands', members'))
BY DEF ResponsibleInside, Inside, IsIn, LiveIn, LiveBands, Belongs, MembersOf, LiveMembers

\* A step that leaves every band its owner or one other, and the person
\* responsible inside.
LEMMA BandsKept ==
  ASSUME \A b \in BandIds : bands'[b].state = "live" =>
           \/ bands[b].state = "live" /\ OwnersIn(members', b) = OwnersIn(members, b)
           \/ \E m : OwnersIn(members', b) = {m},
         Inside(bands, members) => Inside(bands', members')
  PROVE  BandRulesKept
<1>1. OneOwner <=> \A b \in BandIds : bands[b].state = "live" => Cardinality(OwnersIn(members, b)) = 1
  <2>1. \A b : {m \in MembersOf(b) : members[m].owner} = OwnersIn(members, b)
    BY DEF MembersOf, LiveMembers, OwnersIn, LiveIn
  <2> QED
    BY <2>1 DEF OneOwner, LiveBands
<1>2. OneOwner' <=> \A b \in BandIds : bands'[b].state = "live" => Cardinality(OwnersIn(members', b)) = 1
  <2>1. \A b : {m \in MembersOf(b)' : members'[m].owner} = OwnersIn(members', b)
    BY DEF MembersOf, LiveMembers, OwnersIn, LiveIn
  <2> QED
    BY <2>1 DEF OneOwner, LiveBands
<1>3. OneOwner => OneOwner'
  <2> SUFFICES ASSUME OneOwner, NEW b \in BandIds, bands'[b].state = "live"
               PROVE  Cardinality(OwnersIn(members', b)) = 1
    BY <1>2
  <2>1. CASE bands[b].state = "live" /\ OwnersIn(members', b) = OwnersIn(members, b)
    BY <1>1, <2>1
  <2>2. CASE \E m : OwnersIn(members', b) = {m}
    BY <2>2, FS_Singleton
  <2> QED
    BY <2>1, <2>2
<1> QED
  BY <1>3, InsideIsInside DEF BandRulesKept

LEMMA BandsSame ==
  ASSUME bands' = bands, members' = members
  PROVE  BandRulesKept
BY BandsKept

LEMMA CreateBandKept ==
  ASSUME IInv, CInv, NEW p \in Procs, CreateBand(p)
  PROVE  BandRulesKept
<1> DEFINE a == job[p].actor
           b == CHOOSE x \in Unused(bands) : TRUE
           m == CHOOSE x \in Unused(members) : TRUE
           band == [state |-> "live", group |-> job[p].seen, responsible |-> a]
           row == [state |-> "live", band |-> b, user |-> a, owner |-> TRUE]
<1>1. /\ Unused(bands) # {} /\ Unused(members) # {}
      /\ bands' = [bands EXCEPT ![b] = band] /\ members' = [members EXCEPT ![m] = row]
  BY DEF CreateBand, Inserted
<1>2. b \in BandIds /\ bands[b].state = "unused" /\ m \in MemberIds /\ members[m].state = "unused"
  <2>1. b \in Unused(bands) /\ m \in Unused(members)
    BY <1>1
  <2> HIDE DEF b, m
  <2> QED
    BY <2>1, Seen DEF Unused
<1>3. /\ row.state = "live" /\ row.band = b /\ row.user = a /\ row.owner = TRUE
      /\ band.state = "live" /\ band.responsible = a
  OBVIOUS
<1> HIDE DEF band, row, m, b, a
<1>4. /\ bands'[b] = band /\ \A c \in BandIds \ {b} : bands'[c] = bands[c]
      /\ members'[m] = row /\ \A n \in MemberIds \ {m} : members'[n] = members[n]
  BY <1>1, <1>2, Seen
<1>5. LiveIn(members, b) = {} /\ \A c : m \notin LiveIn(members, c)
  BY <1>2, Seen DEF LiveIn, Together
<1>6. LiveIn(members', b) = {m}
  BY <1>2, <1>3, <1>4, <1>5 DEF LiveIn
<1>7. \A c : c # b => LiveIn(members', c) = LiveIn(members, c)
  BY <1>3, <1>4, <1>5 DEF LiveIn
<1>8. OwnersIn(members', b) = {m} /\ IsIn(members', a, b)
  BY <1>3, <1>4, <1>6 DEF OwnersIn, IsIn
<1>9. \A c : c # b => /\ OwnersIn(members', c) = OwnersIn(members, c)
                      /\ \A u : IsIn(members', u, c) <=> IsIn(members, u, c)
  <2>1. \A c : \A n \in LiveIn(members, c) : members'[n] = members[n]
    BY <1>4, <1>5 DEF LiveIn
  <2> QED
    BY <1>7, <2>1 DEF OwnersIn, IsIn
<1>10. Inside(bands, members) => Inside(bands', members')
  BY <1>3, <1>4, <1>8, <1>9 DEF Inside
<1> QED
  BY <1>4, <1>8, <1>9, <1>10, BandsKept

LEMMA JoinKept ==
  ASSUME IInv, CInv, NEW p \in Procs, Join(p)
  PROVE  BandRulesKept
<1> DEFINE m == CHOOSE x \in Unused(members) : TRUE
           row == [state |-> "live", band |-> job[p].item, user |-> job[p].actor, owner |-> FALSE]
<1>1. CASE Refused(p)
  BY <1>1, BandsSame DEF Refused, clubTables
<1>2. CASE ~Refused(p)
  <2>1. Unused(members) # {} /\ members' = [members EXCEPT ![m] = row] /\ bands' = bands
    BY <1>2 DEF Join, Inserted
  <2>2. m \in MemberIds /\ members[m].state = "unused"
    <3>1. m \in Unused(members)
      BY <2>1
    <3> HIDE DEF m
    <3> QED
      BY <3>1, Seen DEF Unused
  <2>3. row.owner = FALSE
    OBVIOUS
  <2> HIDE DEF m, row
  <2>4. members'[m] = row /\ \A n \in MemberIds \ {m} : members'[n] = members[n]
    BY <2>1, <2>2, Seen
  <2>5. \A c : /\ LiveIn(members, c) \subseteq LiveIn(members', c) \ {m}
               /\ LiveIn(members', c) \subseteq LiveIn(members, c) \cup {m}
               /\ \A n \in LiveIn(members, c) : members'[n] = members[n]
    BY <2>2, <2>4 DEF LiveIn
  <2>6. \A c : OwnersIn(members', c) = OwnersIn(members, c) /\ \A u : IsIn(members, u, c) => IsIn(members', u, c)
    BY <2>3, <2>4, <2>5 DEF OwnersIn, IsIn
  <2>7. Inside(bands, members) => Inside(bands', members')
    BY <2>1, <2>6 DEF Inside
  <2> QED
    BY <2>1, <2>6, <2>7, BandsKept
<1> QED
  BY <1>1, <1>2

\* What a request about a member has read stands when it ends alone.
LEMMA AloneMember ==
  ASSUME NEW p \in Procs, JobStands(p), pc[p] \in {"responsible", "transfer", "remove"}
  PROVE  /\ job[p].item \in BandIds /\ bands[job[p].item].state = "live"
         /\ job[p].what.member \in LiveIn(members, job[p].item)
         /\ job[p].seen.band = bands[job[p].item]
         /\ job[p].seen.members = [n \in LiveIn(members, job[p].item) |-> members[n]]
<1>1. \A b : MembersOf(b) = LiveIn(members, b)
  BY DEF MembersOf, LiveMembers, LiveIn
<1> QED
  BY <1>1 DEF JobStands, ClubJobStands, LiveBands

LEMMA Responsible ==
  ASSUME CInv, NEW p \in Procs, JobStands(p), pc[p] \in {"responsible", "transfer", "remove"},
         NEW who, NamesResponsible(p, who)
  PROVE  /\ bands'[job[p].item].responsible = who
         /\ \A c \in BandIds \ {job[p].item} : bands'[c] = bands[c]
         /\ \A c \in BandIds : bands'[c].state = bands[c].state
<1> DEFINE b == job[p].item
<1>1. b \in BandIds /\ job[p].seen.band = bands[b]
  BY AloneMember
<1>2. bands \in [BandIds -> Band] /\ bands[b] \in Band
  BY <1>1, Seen
<1>3. bands' = IF who = bands[b].responsible THEN bands ELSE [bands EXCEPT ![b].responsible = who]
  BY <1>1 DEF NamesResponsible
<1> HIDE DEF b
<1>4. /\ bands'[b].responsible = who /\ bands'[b].state = bands[b].state
      /\ \A c \in BandIds \ {b} : bands'[c] = bands[c]
  BY <1>1, <1>2, <1>3 DEF Band
<1> QED
  BY <1>4 DEF b

LEMMA SetResponsibleKept ==
  ASSUME IInv, CInv, NEW p \in Procs, JobStands(p), SetResponsible(p)
  PROVE  BandRulesKept
<1> DEFINE b == job[p].item
           m == job[p].what.member
           who == job[p].seen.members[m].user
<1>1. CASE Refused(p)
  BY <1>1, BandsSame DEF Refused, clubTables
<1>2. CASE ~Refused(p)
  <2>1. pc[p] = "responsible" /\ NamesResponsible(p, who) /\ members' = members
    BY <1>2 DEF SetResponsible
  <2>2. m \in LiveIn(members, b) /\ who = members[m].user
    BY <2>1, AloneMember
  <2>3. /\ bands'[b].responsible = who
        /\ \A c \in BandIds \ {b} : bands'[c] = bands[c]
        /\ \A c \in BandIds : bands'[c].state = bands[c].state
    BY <2>1, Responsible
  <2>4. IsIn(members, who, b)
    BY <2>2 DEF IsIn
  <2> HIDE DEF b, who
  <2>5. Inside(bands, members) => Inside(bands', members')
    BY <2>1, <2>3, <2>4 DEF Inside
  <2> QED
    BY <2>1, <2>3, <2>5, BandsKept
<1> QED
  BY <1>1, <1>2

LEMMA TransferKept ==
  ASSUME IInv, CInv, NEW p \in Procs, JobStands(p), Transfer(p)
  PROVE  BandRulesKept
<1> DEFINE b == job[p].item
           m == job[p].what.member
           seen == job[p].seen.members
           changed == {n \in DOMAIN seen : seen[n].owner # (n = m)}
<1>1. CASE Refused(p)
  BY <1>1, BandsSame DEF Refused, clubTables
<1>2. CASE ~Refused(p)
  <2>1. /\ pc[p] = "transfer" /\ bands' = bands
        /\ members' = [n \in MemberIds |->
                         IF n \in changed \cap LiveMembers THEN [members[n] EXCEPT !.owner = (n = m)]
                         ELSE members[n]]
    BY <1>2 DEF Transfer
  <2>2. m \in LiveIn(members, b) /\ seen = [n \in LiveIn(members, b) |-> members[n]]
    BY <2>1, AloneMember
  <2>3. \A n : n \in changed <=> n \in LiveIn(members, b) /\ members[n].owner # (n = m)
    BY <2>2
  <2>4. LiveIn(members, b) \subseteq LiveMembers /\ LiveIn(members, b) \subseteq MemberIds
    BY DEF LiveIn, LiveMembers
  <2>5. \A n \in MemberIds : members[n] \in Member
    BY Seen
  <2> HIDE DEF changed, seen, b, m
  <2>6. ASSUME NEW n \in MemberIds
        PROVE  /\ members'[n].state = members[n].state /\ members'[n].band = members[n].band
               /\ members'[n].user = members[n].user
               /\ members'[n].owner = IF n \in LiveIn(members, b) THEN n = m ELSE members[n].owner
    <3>1. members[n].owner \in BOOLEAN
      BY <2>5 DEF Member
    <3>2. CASE n \in changed
      BY <2>1, <2>3, <2>4, <2>5, <3>2 DEF Member
    <3>3. CASE n \notin changed
      BY <2>1, <2>3, <3>1, <3>3
    <3> QED
      BY <3>2, <3>3
  <2>7. \A c : LiveIn(members', c) = LiveIn(members, c)
    BY <2>6 DEF LiveIn
  <2>8. OwnersIn(members', b) = {m}
    BY <2>2, <2>4, <2>6, <2>7 DEF OwnersIn
  <2>9. \A c : c # b => OwnersIn(members', c) = OwnersIn(members, c)
    <3>1. \A c : c # b => \A n \in LiveIn(members, c) : n \in MemberIds /\ n \notin LiveIn(members, b)
      BY DEF LiveIn
    <3> QED
      BY <2>6, <2>7, <3>1 DEF OwnersIn
  <2>10. \A u, c : IsIn(members', u, c) <=> IsIn(members, u, c)
    <3>1. \A c : LiveIn(members, c) \subseteq MemberIds
      BY DEF LiveIn
    <3> QED
      BY <2>6, <2>7, <3>1 DEF IsIn
  <2>11. Inside(bands, members) => Inside(bands', members')
    BY <2>1, <2>10 DEF Inside
  <2> QED
    BY <2>1, <2>8, <2>9, <2>11, BandsKept
<1> QED
  BY <1>1, <1>2

LEMMA RemoveKept ==
  ASSUME IInv, CInv, NEW p \in Procs, JobStands(p), Remove(p)
  PROVE  BandRulesKept
<1> DEFINE b == job[p].item
           m == job[p].what.member
           seen == job[p].seen
           owners == {n \in DOMAIN seen.members : seen.members[n].owner}
           who == IF seen.band.responsible # seen.members[m].user THEN seen.band.responsible
                  ELSE IF owners = {} THEN None ELSE seen.members[CHOOSE n \in owners : TRUE].user
<1>1. CASE Refused(p)
  BY <1>1, BandsSame DEF Refused, clubTables
<1>2. CASE ~Refused(p)
  <2>1. /\ pc[p] = "remove" /\ NamesResponsible(p, who)
        /\ members' = [members EXCEPT ![m] = GoneMember]
    BY <1>2 DEF Remove
  <2>2. /\ m \in LiveIn(members, b) /\ b \in BandIds /\ bands[b].state = "live" /\ seen.band = bands[b]
        /\ seen.members = [n \in LiveIn(members, b) |-> members[n]]
    BY <2>1, AloneMember
  <2>3. ~members[m].owner
    BY <2>1 DEF JobStands, ClubJobStands
  <2>4. /\ bands'[b].responsible = who
        /\ \A c \in BandIds \ {b} : bands'[c] = bands[c]
        /\ \A c \in BandIds : bands'[c].state = bands[c].state
    BY <2>1, Responsible
  <2>5. \/ who = None
        \/ who = bands[b].responsible /\ who # members[m].user
        \/ \E n \in LiveIn(members, b) : n # m /\ who = members[n].user
    <3>1. CASE seen.band.responsible # seen.members[m].user
      BY <2>2, <3>1
    <3>2. CASE seen.band.responsible = seen.members[m].user /\ owners = {}
      BY <3>2
    <3>3. CASE seen.band.responsible = seen.members[m].user /\ owners # {}
      <4>1. PICK n \in owners : who = seen.members[n].user
        BY <3>3
      <4>2. n \in LiveIn(members, b) /\ members[n].owner /\ seen.members[n] = members[n]
        BY <2>2
      <4> QED
        BY <2>3, <4>1, <4>2
    <3> QED
      BY <3>1, <3>2, <3>3
  <2> HIDE DEF who, owners, seen, b, m
  <2>6. m \in MemberIds
    BY <2>2 DEF LiveIn
  <2>7. members'[m].state = "gone" /\ \A n \in MemberIds \ {m} : members'[n] = members[n]
    BY <2>1, <2>6, Seen DEF GoneMember
  <2>8. \A c : /\ LiveIn(members', c) = LiveIn(members, c) \ {m}
               /\ \A n \in LiveIn(members, c) \ {m} : members'[n] = members[n]
    BY <2>6, <2>7 DEF LiveIn
  <2>9. \A c : OwnersIn(members', c) = OwnersIn(members, c)
    BY <2>3, <2>8 DEF OwnersIn
  <2>10. \A c, u : IsIn(members, u, c) /\ (c # b \/ u # members[m].user) => IsIn(members', u, c)
    <3>1. \A c : c # b => m \notin LiveIn(members, c)
      BY <2>2 DEF LiveIn
    <3> QED
      BY <2>8, <3>1 DEF IsIn
  <2>11. Inside(bands, members) => Inside(bands', members')
    <3> SUFFICES ASSUME Inside(bands, members), NEW c \in BandIds, bands'[c].state = "live"
                 PROVE  bands'[c].responsible = None \/ IsIn(members', bands'[c].responsible, c)
      BY DEF Inside
    <3>1. bands[c].responsible = None \/ IsIn(members, bands[c].responsible, c)
      BY <2>4 DEF Inside
    <3>2. CASE c # b
      BY <2>4, <2>10, <3>1, <3>2
    <3>3. CASE c = b
      <4>1. CASE \E n \in LiveIn(members, b) : n # m /\ who = members[n].user
        BY <2>4, <2>8, <3>3, <4>1 DEF IsIn
      <4>2. CASE who = bands[b].responsible /\ who # members[m].user
        BY <2>4, <2>10, <3>1, <3>3, <4>2
      <4> QED
        BY <2>4, <2>5, <3>3, <4>1, <4>2
    <3> QED
      BY <3>2, <3>3
  <2> QED
    BY <2>4, <2>9, <2>11, BandsKept
<1> QED
  BY <1>1, <1>2

LEMMA DeleteBandKept ==
  ASSUME IInv, CInv, NEW p \in Procs, JobStands(p), DeleteBand(p)
  PROVE  BandRulesKept
<1> DEFINE b == job[p].item
           seen == job[p].seen
<1>1. CASE Refused(p)
  BY <1>1, BandsSame DEF Refused, clubTables
<1>2. CASE ~Refused(p)
  <2>1. /\ pc[p] = "delete band" /\ bands' = [bands EXCEPT ![b] = GoneBand]
        /\ members' = [m \in MemberIds |-> IF m \in seen.members THEN GoneMember ELSE members[m]]
    BY <1>2 DEF DeleteBand
  <2>2. b \in BandIds /\ seen.members = LiveIn(members, b)
    BY <2>1 DEF CInv, ClubJobFits, JobStands, ClubJobStands, MembersOf, LiveMembers, LiveIn
  <2> HIDE DEF b, seen
  <2>3. bands'[b].state = "gone" /\ \A c \in BandIds \ {b} : bands'[c] = bands[c]
    BY <2>1, <2>2, Seen DEF GoneBand
  <2>4. \A c : c # b => /\ LiveIn(members', c) = LiveIn(members, c)
                        /\ \A n \in LiveIn(members, c) : members'[n] = members[n]
    BY <2>1, <2>2 DEF LiveIn, GoneMember
  <2>5. \A c : c # b => /\ OwnersIn(members', c) = OwnersIn(members, c)
                        /\ \A u : IsIn(members', u, c) <=> IsIn(members, u, c)
    BY <2>4 DEF OwnersIn, IsIn
  <2>6. Inside(bands, members) => Inside(bands', members')
    BY <2>3, <2>5 DEF Inside
  <2> QED
    BY <2>3, <2>5, <2>6, BandsKept
<1> QED
  BY <1>1, <1>2

\* A list is changed only for the concert that was read as open.
LEMMA ListsKept ==
  ASSUME CInv, NEW p \in Procs, JobStands(p), ChangesClub(p)
  PROVE  ClosedListsStay
<1>1. CASE applications' = applications
  BY <1>1 DEF ClosedListsStay
<1>2. CASE Submit(p)
  <2> DEFINE asked == job[p].what
             x == job[p].item
             y == IF x = None THEN CHOOSE z \in Unused(applications) : TRUE ELSE x
  <2>1. CASE Refused(p)
    BY <1>1, <2>1 DEF Refused, clubTables
  <2>2. CASE ~Refused(p)
    <3>1. /\ concerts[asked.concert] = "open"
          /\ x # None => applications[x].concert = asked.concert
      BY <1>2 DEF Submit, JobStands, ClubJobStands
    <3>2. \E row : applications' = [applications EXCEPT ![y] = row] /\ row.concert = asked.concert
      <4>1. CASE x = None
        BY <1>2, <2>2, <4>1 DEF Submit, Inserted
      <4>2. CASE x # None
        <5> DEFINE list == (applications[x].list \ job[p].seen.list) \cup {<<u, asked.number>> : u \in asked.list}
                   row == [applications[x] EXCEPT !.list = list]
        <5>1. applications' = [applications EXCEPT ![x] = row] /\ x \in LiveApplications
          BY <1>2, <2>2, <4>2 DEF Submit
        <5>2. applications[x] \in Application
          BY <5>1, Seen
        <5> HIDE DEF list
        <5>3. row.concert = asked.concert
          BY <3>1, <4>2, <5>2 DEF Application
        <5> QED
          BY <4>2, <5>1, <5>3
      <4> QED
        BY <4>1, <4>2
    <3> HIDE DEF x, y, asked
    <3>3. ASSUME NEW z \in ApplicationIds
          PROVE  applications'[z] = applications[z] \/ concerts[applications'[z].concert] = "open"
      BY <3>1, <3>2, Seen
    <3> QED
      BY <3>3 DEF ClosedListsStay
  <2> QED
    BY <2>1, <2>2
<1>3. CASE DeleteBand(p) \/ DeleteApplication(p)
  <2>1. CASE Refused(p)
    BY <1>1, <2>1 DEF Refused, clubTables
  <2>2. CASE ~Refused(p)
    <3>1. \A z \in ApplicationIds : applications'[z] \in {applications[z], GoneApplication}
      BY <1>3, <2>2, Seen DEF DeleteBand, DeleteApplication
    <3> QED
      BY <3>1 DEF ClosedListsStay, GoneApplication
  <2> QED
    BY <2>1, <2>2
<1>4. CASE ~Submit(p) /\ ~DeleteBand(p) /\ ~DeleteApplication(p)
  <2>1. Refused(p) \/ applications' = applications
    BY <1>4 DEF ChangesClub, CreateBand, Join, SetResponsible, Transfer, Remove, CreateEvent, UpdateEvent
  <2> QED
    BY <1>1, <2>1 DEF Refused, clubTables
<1> QED
  BY <1>2, <1>3, <1>4

LEMMA EndKeepsClub ==
  ASSUME IInv, CInv, SInv, NEW p \in Procs, EndsAlone(p), ClubNext
  PROVE  BandRulesKept /\ ClosedListsStay
<1>1. JobStands(p)
  BY DEF EndsAlone, SInv
<1>2. CASE ChangesClub(p)
  <2>1. ASSUME CreateEvent(p) \/ UpdateEvent(p) \/ Submit(p) \/ DeleteApplication(p)
        PROVE  BandRulesKept
    <3>1. Refused(p) \/ (bands' = bands /\ members' = members)
      BY <2>1 DEF CreateEvent, UpdateEvent, Submit, DeleteApplication
    <3> QED
      BY <3>1, BandsSame DEF Refused, clubTables
  <2>2. BandRulesKept
    BY <1>1, <1>2, <2>1, CreateBandKept, JoinKept, SetResponsibleKept, TransferKept, RemoveKept, DeleteBandKept
       DEF ChangesClub
  <2> QED
    BY <1>1, <1>2, <2>2, ListsKept
<1>3. CASE UNCHANGED clubTables
  <2>1. bands' = bands /\ members' = members /\ applications' = applications
    BY <1>3 DEF clubTables
  <2> QED
    BY <2>1, BandsSame DEF ClosedListsStay
<1> QED
  BY <1>2, <1>3, WhoEnds

(***************************************************************************)
(* For every club: a request that is alone between reading and commit      *)
(* keeps the rules that no constraint of the database guards, from         *)
(* whatever state: nobody holds a role twice, role names differ by more    *)
(* than their case, a day is not longer than a week, who is banned or      *)
(* deleted holds no role, somebody administers the club, a band has one    *)
(* owner and the person responsible inside, and the list for a closed      *)
(* concert is not changed (users.py, roles.py, bands.py, events.py).       *)
(***************************************************************************)
THEOREM AloneKeepsRules == ClubSpec => RulesKeptAlone
<1>1. IInv /\ CInv /\ SInv /\ [ClubNext]_clubVars =>
        [\A p \in Procs : EndsAlone(p) =>
           /\ AccountRulesKept
           /\ OneOwner /\ ResponsibleInside => (OneOwner /\ ResponsibleInside)'
           /\ ClosedListsStay]_clubVars
  BY EndKeepsAccounts, EndKeepsClub DEF AccountsKept, BandRulesKept
<1> QED
  BY <1>1, StandsHolds, PTL DEF ClubSpec, RulesKeptAlone

==============================================================================
