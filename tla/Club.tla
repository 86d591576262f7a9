--------------------------------- MODULE Club ---------------------------------
(***************************************************************************)
(* Bands, their members, concerts and the lists bands hand in for them     *)
(* (app/services/bands.py, app/services/events.py), beside the accounts    *)
(* whose permissions decide who may do what.                               *)
(*                                                                         *)
(* The course of a request is the one of module Accounts.  A row of a list *)
(* is a user and the number of the request that stored it: a list is       *)
(* replaced by deleting the rows that were read and inserting new ones.    *)
(*                                                                         *)
(* What becomes of the bookings, waiting entries and weekly requests of a  *)
(* band that is deleted is in modules Bookings and Planning.               *)
(***************************************************************************)
EXTENDS Accounts

CONSTANTS
  BandIds,        \* bound: bands ever made
  MemberIds,      \* bound: memberships ever begun
  Concerts,       \* bound: concerts ever announced
  ApplicationIds  \* bound: lists ever handed in

VARIABLES
  bands,        \* group and responsible person of every band
  members,      \* who is in which band, and who owns it
  concerts,     \* unused, open for lists or closed
  applications  \* the list of a band for a concert

clubTables == <<bands, members, concerts, applications>>
clubVars == <<accountVars, clubTables>>

States == {"unused", "live", "gone"}
Band == [state : States, group : Groups \cup {None}, responsible : Users \cup {None}]
Member == [state : States, band : BandIds \cup {None}, user : Users \cup {None}, owner : BOOLEAN]
Application ==
  [state : States, concert : Concerts \cup {None}, band : BandIds \cup {None},
   list : SUBSET (Users \X (0 .. MaxRequests))]

GoneBand == [state |-> "gone", group |-> None, responsible |-> None]
GoneMember == [state |-> "gone", band |-> None, user |-> None, owner |-> FALSE]
GoneApplication == [state |-> "gone", concert |-> None, band |-> None, list |-> {}]

TablesTyped(bs, ms, cs, as) ==
  /\ bs \in [BandIds -> Band]
  /\ ms \in [MemberIds -> Member]
  /\ cs \in [Concerts -> {"unused", "open", "closed"}]
  /\ as \in [ApplicationIds -> Application]

TypeOK == AccountsTyped /\ TablesTyped(bands, members, concerts, applications)

\* No row refers to one that is gone, nobody is in a band twice, a band has one
\* list for a concert and a user is on it once.
Together(bs, ms, cs, as) ==
  /\ \A m \in MemberIds :
       ms[m].state = "live" =>
         /\ ms[m].band \in {b \in BandIds : bs[b].state = "live"}
         /\ \A n \in MemberIds :
              ms[n].state = "live" /\ ms[n].band = ms[m].band /\ ms[n].user = ms[m].user => n = m
  /\ \A x \in ApplicationIds :
       as[x].state = "live" =>
         /\ as[x].band \in {b \in BandIds : bs[b].state = "live"}
         /\ as[x].concert \in {c \in Concerts : cs[c] # "unused"}
         /\ \A r, s \in as[x].list : r[1] = s[1] => r = s
         /\ \A y \in ApplicationIds :
              as[y].state = "live" /\ as[y].band = as[x].band /\ as[y].concert = as[x].concert => y = x

\* The tables an instance finds are typed and belong together.
ASSUME ClubAssumption ==
  /\ MaxRequests \in Nat
  /\ \A c \in Clubs :
       /\ TablesTyped(c.bands, c.members, c.concerts, c.applications)
       /\ Together(c.bands, c.members, c.concerts, c.applications)

LiveBands == {b \in BandIds : bands[b].state = "live"}
LiveMembers == {m \in MemberIds : members[m].state = "live"}
MembersOf(b) == {m \in LiveMembers : members[m].band = b}
LiveApplications == {x \in ApplicationIds : applications[x].state = "live"}
ApplicationsOf(b) == {x \in LiveApplications : applications[x].band = b}

Owns(u, b) == \E m \in MembersOf(b) : members[m].user = u /\ members[m].owner
Belongs(u, b) == \E m \in MembersOf(b) : members[m].user = u
Approved(u) == users[u].status = "approved"

MayManageBand(a, b) == Approved(a) /\ (HasPermission(a, "bands.manage", bands[b].group) \/ Owns(a, b))

Unused(table) == {x \in DOMAIN table : table[x].state = "unused"}
Inserted(table, row) == [table EXCEPT ![CHOOSE x \in Unused(table) : TRUE] = row]

Asks(p, op, j) == Ask(p, op, j) /\ UNCHANGED clubTables
Refused(p) == Aborts(p) /\ UNCHANGED clubTables
Done(p) == Commits(p) /\ UNCHANGED tables

-----------------------------------------------------------------------------
(* Bands                                                                   *)

AskToCreateBand(p) ==
  \E a \in Registered : Approved(a) /\ Asks(p, "new band", Touch(a, None, None, users[a].group))

\* The bounds are in the second conjunct.
CreateBand(p) ==
  LET a == job[p].actor
      b == CHOOSE x \in Unused(bands) : TRUE
  IN  /\ pc[p] = "new band"
      /\ Unused(bands) # {} /\ Unused(members) # {}
      /\ bands' = [bands EXCEPT ![b] = [state |-> "live", group |-> job[p].seen, responsible |-> a]]
      /\ members' = Inserted(members, [state |-> "live", band |-> b, user |-> a, owner |-> TRUE])
      /\ Done(p)
      /\ UNCHANGED <<concerts, applications>>

\* Everybody who knows the code of a band may join it.  Who is in it already
\* only changes the instrument.
AskToJoin(p) ==
  \E a \in Registered, b \in LiveBands :
    Approved(a) /\ ~Belongs(a, b) /\ Asks(p, "join", Touch(a, b, None, None))

Join(p) ==
  LET a == job[p].actor
      b == job[p].item
  IN  /\ pc[p] = "join"
      /\ IF b \notin LiveBands \/ Belongs(a, b) THEN Refused(p)
         ELSE /\ Unused(members) # {}
              /\ members' = Inserted(members, [state |-> "live", band |-> b, user |-> a, owner |-> FALSE])
              /\ Done(p)
              /\ UNCHANGED <<bands, concerts, applications>>

\* The three requests about one member of a band; what is seen is the band
\* and its members.
AskAboutMember(p) ==
  \E a \in Registered, m \in LiveMembers, op \in {"responsible", "transfer", "remove"} :
    LET b == members[m].band
    IN  /\ MayManageBand(a, b)
        /\ op = "remove" => ~members[m].owner
        /\ Asks(p, op, Touch(a, b, [member |-> m], [band |-> bands[b], members |-> [n \in MembersOf(b) |-> members[n]]]))

\* The responsible person is written if it changes; the band must be there.
NamesResponsible(p, who) ==
  LET b == job[p].item
  IN  bands' = IF who = job[p].seen.band.responsible THEN bands ELSE [bands EXCEPT ![b].responsible = who]

LosesBand(p, who) == who # job[p].seen.band.responsible /\ job[p].item \notin LiveBands

SetResponsible(p) ==
  LET who == job[p].seen.members[job[p].what.member].user
  IN  /\ pc[p] = "responsible"
      /\ IF LosesBand(p, who) THEN Refused(p)
         ELSE NamesResponsible(p, who) /\ Done(p) /\ UNCHANGED <<members, concerts, applications>>

\* Mistake: the former owner stays one.
TransferAdding(p) ==
  LET m == job[p].what.member
  IN  /\ pc[p] = "transfer"
      /\ members' = [n \in MemberIds |->
                       IF n = m /\ n \in LiveMembers THEN [members[n] EXCEPT !.owner = TRUE] ELSE members[n]]
      /\ Done(p)
      /\ UNCHANGED <<bands, concerts, applications>>

\* The members whose ownership changes are written in one statement for
\* many rows, which passes over rows that are gone; a statement for one row
\* does not.
Transfer(p) ==
  LET m == job[p].what.member
      seen == job[p].seen.members
      changed == {n \in DOMAIN seen : seen[n].owner # (n = m)}
  IN  /\ pc[p] = "transfer"
      /\ IF Cardinality(changed) = 1 /\ ~(changed \subseteq LiveMembers) THEN Refused(p)
         ELSE /\ members' = [n \in MemberIds |->
                               IF n \in changed \cap LiveMembers THEN [members[n] EXCEPT !.owner = (n = m)]
                               ELSE members[n]]
              /\ Done(p)
              /\ UNCHANGED <<bands, concerts, applications>>

\* Who is responsible and leaves is followed by the owner.
Remove(p) ==
  LET m == job[p].what.member
      seen == job[p].seen
      owners == {n \in DOMAIN seen.members : seen.members[n].owner}
      who == IF seen.band.responsible # seen.members[m].user THEN seen.band.responsible
             ELSE IF owners = {} THEN None ELSE seen.members[CHOOSE n \in owners : TRUE].user
  IN  /\ pc[p] = "remove"
      /\ IF LosesBand(p, who) THEN Refused(p)
         ELSE /\ NamesResponsible(p, who)
              /\ members' = [members EXCEPT ![m] = GoneMember]
              /\ Done(p)
              /\ UNCHANGED <<concerts, applications>>

AskToDeleteBand(p) ==
  \E a \in Registered, b \in LiveBands :
    /\ MayManageBand(a, b)
    /\ Asks(p, "delete band",
            Touch(a, b, None,
                  [members |-> MembersOf(b), lists |-> [x \in ApplicationsOf(b) |-> applications[x].list]]))

\* Mistake: rows that came meanwhile do not stop the deletion.
DeleteBandUnchecked(p) ==
  LET b == job[p].item
      seen == job[p].seen
  IN  /\ pc[p] = "delete band"
      /\ bands' = [bands EXCEPT ![b] = GoneBand]
      /\ members' = [m \in MemberIds |-> IF m \in seen.members THEN GoneMember ELSE members[m]]
      /\ applications' = [x \in ApplicationIds |->
                            IF x \in DOMAIN seen.lists THEN GoneApplication ELSE applications[x]]
      /\ Done(p)
      /\ UNCHANGED concerts

\* What was read is deleted; a member, a list or a row of a list that came
\* meanwhile still refers to what would go, and the database refuses.
DeleteBand(p) ==
  LET b == job[p].item
      seen == job[p].seen
      stays == \/ ~(MembersOf(b) \subseteq seen.members)
               \/ ~(ApplicationsOf(b) \subseteq DOMAIN seen.lists)
               \/ \E x \in DOMAIN seen.lists : ~(applications[x].list \subseteq seen.lists[x])
  IN  /\ pc[p] = "delete band"
      /\ IF stays THEN Refused(p)
         ELSE /\ bands' = [bands EXCEPT ![b] = GoneBand]
              /\ members' = [m \in MemberIds |-> IF m \in seen.members THEN GoneMember ELSE members[m]]
              /\ applications' = [x \in ApplicationIds |->
                                    IF x \in DOMAIN seen.lists THEN GoneApplication ELSE applications[x]]
              /\ Done(p)
              /\ UNCHANGED concerts

-----------------------------------------------------------------------------
(* Concerts and the lists for them                                         *)

AskToCreateEvent(p) ==
  \E a \in Registered :
    HasPermission(a, "events.manage", None) /\ Asks(p, "new concert", Touch(a, None, None, None))

\* The bound on concerts is in the second conjunct.
CreateEvent(p) ==
  LET fresh == {c \in Concerts : concerts[c] = "unused"}
  IN  /\ pc[p] = "new concert"
      /\ fresh # {}
      /\ concerts' = [concerts EXCEPT ![CHOOSE c \in fresh : TRUE] = "open"]
      /\ Done(p)
      /\ UNCHANGED <<bands, members, applications>>

\* A concert is closed or opened again.
AskToUpdateEvent(p) ==
  \E a \in Registered, c \in Concerts, status \in {"open", "closed"} :
    /\ HasPermission(a, "events.manage", None)
    /\ concerts[c] # "unused"
    /\ Asks(p, "concert", Touch(a, c, [status |-> status], [status |-> concerts[c]]))

UpdateEvent(p) ==
  LET status == job[p].what.status
  IN  /\ pc[p] = "concert"
      /\ concerts' = [concerts EXCEPT ![job[p].item] = IF status = job[p].seen.status THEN @ ELSE status]
      /\ Done(p)
      /\ UNCHANGED <<bands, members, applications>>

\* The last day for lists is over.
DeadlinePasses ==
  \E c \in Concerts :
    /\ concerts[c] = "open"
    /\ concerts' = [concerts EXCEPT ![c] = "closed"]
    /\ alone' = [p \in Procs |-> pc[p] = "idle"]
    /\ UNCHANGED <<tables, requests, pc, job, bands, members, applications>>

\* The members chosen are in the band and have filled in their profiles.
Chosen(b) ==
  {s \in SUBSET {u \in Users : Belongs(u, b)} : s # {} /\ \A u \in s : users[u].complete}

\* An owner hands in a list for an open concert, which replaces the one that
\* is there, if one is, ...
AskToSubmit(p) ==
  \E b \in LiveBands, c \in Concerts :
    \E a \in Registered, s \in Chosen(b) :
      LET there == {x \in ApplicationsOf(b) : applications[x].concert = c}
          x == IF there = {} THEN None ELSE CHOOSE y \in there : TRUE
      IN  /\ Approved(a) /\ Owns(a, b)
          /\ concerts[c] = "open"
          /\ Asks(p, "submit",
                  Touch(a, x, [band |-> b, concert |-> c, list |-> s, number |-> requests + 1],
                        [list |-> IF x = None THEN {} ELSE applications[x].list]))

\* ... or opens a list handed in and changes it.
AskToUpdateApplication(p) ==
  \E x \in LiveApplications :
    LET b == applications[x].band
    IN  \E a \in Registered, s \in Chosen(b) :
          /\ Approved(a) /\ Owns(a, b)
          /\ concerts[applications[x].concert] = "open"
          /\ Asks(p, "submit",
                  Touch(a, x, [band |-> b, concert |-> applications[x].concert, list |-> s,
                               number |-> requests + 1],
                        [list |-> applications[x].list]))

\* A band has one list for a concert, and a user is on it once; a list that
\* is gone cannot be changed.
Submit(p) ==
  LET asked == job[p].what
      x == job[p].item
      rows == {<<u, asked.number>> : u \in asked.list}
      kept == applications[x].list \ job[p].seen.list
      taken == \E y \in ApplicationsOf(asked.band) : applications[y].concert = asked.concert
  IN  /\ pc[p] = "submit"
      /\ IF x = None
         THEN IF asked.band \notin LiveBands \/ taken THEN Refused(p)
              ELSE /\ Unused(applications) # {}
                   /\ applications' = Inserted(applications,
                        [state |-> "live", concert |-> asked.concert, band |-> asked.band, list |-> rows])
                   /\ Done(p)
                   /\ UNCHANGED <<bands, members, concerts>>
         ELSE IF x \notin LiveApplications \/ \E r \in kept : r[1] \in asked.list THEN Refused(p)
              ELSE /\ applications' = [applications EXCEPT ![x].list = kept \cup rows]
                   /\ Done(p)
                   /\ UNCHANGED <<bands, members, concerts>>

AskToDeleteApplication(p) ==
  \E a \in Registered, x \in LiveApplications :
    /\ Approved(a) /\ Owns(a, applications[x].band)
    /\ Asks(p, "withdraw", Touch(a, x, None, [list |-> applications[x].list]))

DeleteApplication(p) ==
  LET x == job[p].item
  IN  /\ pc[p] = "withdraw"
      /\ IF ~(applications[x].list \subseteq job[p].seen.list) THEN Refused(p)
         ELSE /\ applications' = [applications EXCEPT ![x] = GoneApplication]
              /\ Done(p)
              /\ UNCHANGED <<bands, members, concerts>>

-----------------------------------------------------------------------------
ClubInit ==
  \E c \in Clubs :
    /\ AccountsStart(c)
    /\ bands = c.bands
    /\ members = c.members
    /\ concerts = c.concerts
    /\ applications = c.applications

AsksAboutClub(p) ==
  /\ MayAsk(p)
  /\ \/ AskToCreateBand(p) \/ AskToJoin(p) \/ AskAboutMember(p) \/ AskToDeleteBand(p)
     \/ AskToCreateEvent(p) \/ AskToUpdateEvent(p)
     \/ AskToSubmit(p) \/ AskToUpdateApplication(p) \/ AskToDeleteApplication(p)

ChangesClub(p) ==
  \/ CreateBand(p) \/ Join(p) \/ SetResponsible(p) \/ Transfer(p) \/ Remove(p) \/ DeleteBand(p)
  \/ CreateEvent(p) \/ UpdateEvent(p) \/ Submit(p) \/ DeleteApplication(p)

ClubNext ==
  \/ AccountsNext /\ UNCHANGED clubTables
  \/ \E p \in Procs : AsksAboutClub(p) \/ ChangesClub(p)
  \/ DeadlinePasses

ClubSpec == ClubInit /\ [][ClubNext]_clubVars

-----------------------------------------------------------------------------
(* Properties                                                              *)

\* Whatever happens at once, roles exist and rows belong together.
RowsBelong == RolesExist /\ Together(bands, members, concerts, applications)

\* The state is typed and its rows belong together, whatever happens at once.
ClubInv == TypeOK /\ RowsBelong

OneOwner == \A b \in LiveBands : Cardinality({m \in MembersOf(b) : members[m].owner}) = 1
ResponsibleInside == \A b \in LiveBands : bands[b].responsible = None \/ Belongs(bands[b].responsible, b)

\* The list for a concert that is closed is not changed, only withdrawn.
ClosedListsStay ==
  \A x \in ApplicationIds :
    \/ applications'[x] = applications[x]
    \/ applications'[x].state = "gone"
    \/ concerts[applications'[x].concert] = "open"

\* Rules that no constraint guards are kept by every request that is alone
\* between reading and commit, in every state, those that two requests at once
\* have spoilt otherwise included: those of the accounts and roles, one owner
\* for a band with the person responsible inside it, lists of closed concerts.
RulesKeptAlone ==
  [][\A p \in Procs : EndsAlone(p) =>
       /\ AccountRulesKept
       /\ OneOwner /\ ResponsibleInside => (OneOwner /\ ResponsibleInside)'
       /\ ClosedListsStay]_clubVars

=============================================================================
