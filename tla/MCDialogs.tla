------------------------------ MODULE MCDialogs ------------------------------
(***************************************************************************)
(* A person who leads two bands, with two applications; in each behaviour  *)
(* the chat has the buttons of one dialog, or of two that share something. *)
(***************************************************************************)
EXTENDS Dialogs

CONSTANTS duo, trio, ann, bob, cat, gala, ball, self, this, that

MCMenus == {{"plan"}, {"list"}, {"application"}, {"concert", "concert_edit"}, {"own_event"},
            {"own_event_edit", "concert_edit"}, {"registration", "profile"}}
MCCrew == [b \in {duo, trio} |-> IF b = duo THEN {ann, bob} ELSE {ann, cat}]
MCListed == [a \in 1 .. 2 |-> IF a = 1 THEN [band |-> duo, members |-> {ann}]
                                       ELSE [band |-> trio, members |-> {ann, cat}]]
==============================================================================
