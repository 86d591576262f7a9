---------------------------- MODULE MCMoveRequests ----------------------------
(***************************************************************************)
(* Small instances of MoveRequests.  A day has eight units and the room is *)
(* open from the first to the seventh.  The owner, ann, answers for every  *)
(* booking; bob and cat ask.                                               *)
(***************************************************************************)
EXTENDS MoveRequests, TLC

CONSTANTS p1, p2, job, ann, bob, cat, b1, b2, b3

Own == [band |-> None, by |-> ann, answering |-> {ann}, inside |-> {ann}, staff |-> FALSE]
OfAnn == [i \in BookingIds |-> Own]

S(a, b) == [start |-> a, end |-> b]

\* Two ranges of the same length, apart.
Apart == {S(2, 3), S(3, 4)}
Open ==
  [open |-> 1, close |-> 7, days |-> {0, 1}, weekly |-> 9, daily |-> 0,
   maxFuture |-> 0, personal |-> TRUE, published |-> {}]

(***************************************************************************)
(* A constraint that keeps two stories of one instance: two people ask for *)
(* one booking, and the owner answers while another stands in the way; or  *)
(* one person asks for three, from two devices, and nobody answers.        *)
(***************************************************************************)
Made == RequestIds \ Unused
Asking == {p \in Procs : pc[p] # "idle" /\ txn[p].op = "ask"}

ManyAskForOne ==
  /\ Cardinality(Made) <= 2
  /\ Cardinality({i \in BookingIds : held[i] # None} \cup gone) <= 2
  /\ \E i \in BookingIds :
       /\ \A r \in Made : requests[r].booking = i
       /\ \A p \in Asking : txn[p].booking = i

OneAsksForMany ==
  /\ \A p \in Procs : pc[p] # "idle" => p \in Asking
  /\ \A r \in Made : Pending(r)
  /\ \E u \in Users :
       /\ \A r \in Made : requests[r].by = u
       /\ \A p \in Asking : txn[p].user = u

OneStory == ManyAskForOne \/ OneAsksForMany

Symmetry ==
  Permutations(Procs \ {Job}) \cup Permutations(Users \ {ann}) \cup Permutations(BookingIds)
===============================================================================
