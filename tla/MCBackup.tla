------------------------------- MODULE MCBackup -------------------------------
(***************************************************************************)
(* Two days of a week of two days; two slots of the second day overlap,    *)
(* and the page does not show them before that day.                        *)
(***************************************************************************)
EXTENDS Backup

CONSTANTS duo, ann, bob

S(d, a, b) == [day |-> d, start |-> a, end |-> b]
MCSlots == {S(0, 0, 2), S(1, 0, 2), S(1, 1, 3)}
MCHolders == {[band |-> duo, author |-> bob], [band |-> None, author |-> ann]}
MCResponsible == [b \in {duo} |-> ann]
MCAdded == {[id |-> None, slot |-> S(1, 1, 3), band |-> None, author |-> ann]}

Budget(c, f, s, t) == [changes |-> c, failures |-> f, stops |-> s, tools |-> t]
MCBudgets == {Budget(3, 1, 0, 0), Budget(2, 0, 1, 1)}
=============================================================================
