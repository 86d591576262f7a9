------------------------------ MODULE MCPlanning ------------------------------
(***************************************************************************)
(* A week of two days.  Requests are collected on days 0 and 1 for the     *)
(* week that starts on day 2, until the clock of day 1 says 1.             *)
(***************************************************************************)
EXTENDS Planning, TLC

CONSTANTS p1, p2, duo, trio

W(d, a, b) == [day |-> d, start |-> a, end |-> b]

\* Both ask for the same evening; the second may also take the next day.
MCRequests ==
  {[band |-> duo, duration |-> 2, windows |-> <<W(0, 0, 2)>>],
   [band |-> trio, duration |-> 1, windows |-> <<W(0, 1, 2), W(1, 0, 2)>>]}

MCHand == {[band |-> None, day |-> 3, start |-> 0, end |-> 1]}

MCSettings ==
  {[open |-> 0, close |-> 2, days |-> d, weekly |-> 3, daily |-> 2] : d \in {{0, 1}, {1}}}

Symmetry == Permutations(Procs)
=============================================================================
