------------------------------ MODULE MCBookings ------------------------------
(***************************************************************************)
(* Small instances of Bookings.  A day has five units, of which the room   *)
(* is open from the first to the fourth; people may book one day ahead.    *)
(***************************************************************************)
EXTENDS Bookings, TLC

CONSTANTS p1, p2, ann, bob, adm, duo

MCBands == {duo}
MCMembers == duo :> {ann, bob}
MCOwners == duo :> {bob}
Solo == duo :> {ann}

Nobody == [b \in {} |-> {}]

S(a, b) == [start |-> a, end |-> b]

\* Today, two halves and the whole of one rehearsal.
Today == {S(1, 2), S(2, 3), S(1, 3)}
\* For the limits, at most three units in the window and two on a day: both
\* ranges of today are too much for a day, the two long ones too much for the
\* window, until the first of them has begun.
TwoDays == {S(1, 2), S(2, 4), S(6, 8)}

\* One rehearsal, and its second half.
Short == {S(1, 3), S(2, 3)}

Everyday == {0, 1}
Setting(w, d, c) ==
  [open |-> 1, close |-> 4, days |-> Everyday, weekly |-> w, daily |-> d,
   maxFuture |-> c, personal |-> TRUE, published |-> {}]

Generous == {Setting(9, 0, 0)}
Tight == {[Setting(3, 2, 0) EXCEPT !.personal = FALSE]}

\* The room may be closed on the first day of the week.
Changing == {Setting(9, 0, 0), [Setting(9, 0, 0) EXCEPT !.days = {1}]}

Symmetry == Permutations(Procs)
===============================================================================
