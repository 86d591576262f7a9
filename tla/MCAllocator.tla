----------------------------- MODULE MCAllocator -----------------------------
(***************************************************************************)
(* Every input of a small room: two days of which six quarters of an hour  *)
(* can be booked, requests of two bands with one or two wishes out of a    *)
(* few windows, and time that was booked before off the half-hour grid.    *)
(***************************************************************************)
EXTENDS Allocator

CONSTANTS duo, trio

W(d, a, b) == [day |-> d, start |-> a, end |-> b]

Windows == {W(0, 0, 6), W(0, 2, 6), W(1, 0, 8)}
Wishlists == {<<v>> : v \in Windows} \cup {<<W(0, 2, 6), W(1, 0, 8)>>, <<W(1, 0, 8), W(0, 0, 6)>>}

Asking == [band : Bands, duration : {2, 4}, windows : Wishlists]

\* What was booked before: nothing, or a rehearsal of the duo that starts off the grid.
Empty == [d \in Days |-> {}]
Taken == [Empty EXCEPT ![0] = {[start |-> 3, end |-> 5]}]
HasNothing == [b \in Bands |-> [d \in Days |-> 0]]

Week(asked, busy, has, daily, closed) ==
  [asked |-> asked, busy |-> busy, open |-> 0, close |-> 6, closed |-> closed,
   daily |-> daily, has |-> has]

MCInputs ==
  UNION {
    {Week(<<a, b, c>>, Empty, HasNothing, d, {}) :
       a \in [band : {duo}, duration : {2, 4}, windows : Wishlists],
       b \in Asking,
       c \in [band : {trio}, duration : {2}, windows : Wishlists],
       d \in {0, 4}},
    {Week(<<a, b>>, Taken, [HasNothing EXCEPT ![duo][0] = 2], d, z) :
       a \in Asking, b \in Asking, d \in {0, 4}, z \in {{}, {1}}}}
=============================================================================
