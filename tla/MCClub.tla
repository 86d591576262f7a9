-------------------------------- MODULE MCClub --------------------------------
(***************************************************************************)
(* An initial administrator, a moderator and a newcomer; one ordinary role *)
(* and one band to begin with, one of each to come.  Every instance starts *)
(* from one of the clubs below and sees all pairs of requests.             *)
(***************************************************************************)
EXTENDS Club, TLC

CONSTANTS p1, p2, chief, moderator, newcomer, north, south

Word(w, spelling) == <<w, spelling>>
MCNames == {Word("admin", "upper"), Word("helper", "upper"), Word("helper", "lower")}
MCPermissions == {"users.moderate", "bands.manage", "roles.manage", "settings.manage", "events.manage"}
MCChoices == {{"users.moderate"}}

Is(status, group) == [status |-> status, group |-> group, complete |-> TRUE, cooling |-> FALSE]
NoRow == [state |-> "unused", user |-> None, role |-> None, group |-> None]

AdminRole == [state |-> "live", name |-> Word("admin", "upper"), holds |-> {}]
NoRole == [state |-> "unused", name |-> None, holds |-> {}]
Helper(keys) == [state |-> "live", name |-> Word("helper", "upper"), holds |-> keys]

NoBand == [state |-> "unused", group |-> None, responsible |-> None]
NoMember == [state |-> "unused", band |-> None, user |-> None, owner |-> FALSE]
In(b, u, owner) == [state |-> "live", band |-> b, user |-> u, owner |-> owner]
NoApplication == [state |-> "unused", concert |-> None, band |-> None, list |-> {}]

\* Role 1 with these permissions, held by the moderator for a group or for
\* all; what the newcomer is; whether there are a band and its list.  Where
\* the newcomer is banned, the initial administrator has still to register.
ClubOf(keys, scope, status, playing) ==
  [users |-> (chief :> IF status = "banned" THEN Blank ELSE Is("pending", None)) @@ (moderator :> Is("approved", north))
               @@ (newcomer :> Is(status, north)),
   roles |-> (Admin :> AdminRole) @@ (1 :> Helper(keys)) @@ (2 :> NoRole),
   given |-> (1 :> Row(moderator, 1, scope)) @@ [x \in AssignmentIds \ {1} |-> NoRow],
   limits |-> [weekly |-> 4, daily |-> 2],
   bands |-> [b \in BandIds |->
                IF playing /\ b = 1 THEN [state |-> "live", group |-> north, responsible |-> newcomer] ELSE NoBand],
   members |-> [m \in MemberIds |->
                  CASE playing /\ m = 1 -> In(1, moderator, TRUE)
                    [] playing /\ m = 2 -> In(1, newcomer, FALSE)
                    [] OTHER            -> NoMember],
   concerts |-> [c \in Concerts |-> IF playing /\ c = 1 THEN "open" ELSE "unused"],
   applications |-> [x \in ApplicationIds |->
                       IF playing /\ x = 1
                       THEN [state |-> "live", concert |-> 1, band |-> 1, list |-> {<<moderator, 0>>}]
                       ELSE NoApplication]]

MCClubs ==
  {ClubOf({"users.moderate", "roles.manage"}, north, "pending", FALSE),
   ClubOf({"users.moderate", "roles.manage"}, None, "banned", FALSE),
   ClubOf({"users.moderate", "bands.manage"}, north, "approved", TRUE)}

Symmetry == Permutations(Procs)
=============================================================================
