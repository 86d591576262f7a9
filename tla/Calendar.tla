------------------------------- MODULE Calendar -------------------------------
(***************************************************************************)
(* What the booking core promises: a calendar of one room.  A booking      *)
(* holds a slot or none; whoever books or moves gets the slot in one step, *)
(* together with the bookings given up for it, and only if no other one    *)
(* clashes with it; a booking that was given up never comes back.          *)
(***************************************************************************)
EXTENDS Naturals

CONSTANTS Ids, Slots, None

VARIABLES
  held,  \* the slot every booking holds
  gone   \* bookings that were given up

vars == <<held, gone>>

Clash(s, t) == s.start < t.end /\ t.start < s.end
Holding == {i \in Ids : held[i] # None}

Init ==
  /\ held = [i \in Ids |-> None]
  /\ gone = {}

\* A new booking (held[i] = None) or a move, with the bookings it evicts.
Book(i, s, evicted) ==
  /\ i \notin gone /\ i \notin evicted
  /\ evicted \subseteq Holding
  /\ \A j \in Holding \ (evicted \cup {i}) : ~Clash(s, held[j])
  /\ held' = [j \in Ids |-> IF j = i THEN s ELSE IF j \in evicted THEN None ELSE held[j]]
  /\ gone' = gone \cup evicted

Release(released) ==
  /\ released \subseteq Holding
  /\ held' = [j \in Ids |-> IF j \in released THEN None ELSE held[j]]
  /\ gone' = gone \cup released

\* Several new bookings in one commit.
Fill ==
  /\ held' \in [Ids -> Slots \cup {None}]
  /\ \A i \in Ids : held'[i] # held[i] =>
       /\ held[i] = None /\ i \notin gone
       /\ \A j \in Ids \ {i} : held'[j] # None => ~Clash(held'[i], held'[j])
  /\ gone' = gone

Next ==
  \/ Fill
  \/ \E i \in Ids, s \in Slots, evicted \in SUBSET Ids : Book(i, s, evicted)
  \/ \E released \in SUBSET Ids : Release(released)

Spec == Init /\ [][Next]_vars
===============================================================================
