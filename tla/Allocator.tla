------------------------------ MODULE Allocator ------------------------------
(***************************************************************************)
(* The weekly allocation of the room (app/services/allocator.py): every    *)
(* band asks for a rehearsal with up to five windows in the order of its   *)
(* wishes, and the allocator hands out slots in rounds, everybody's first  *)
(* wish before anybody's second.                                           *)
(*                                                                         *)
(* The function is pure; it is written here as the loop that it is, one    *)
(* action per turn, so that what it promises can be stated of every state  *)
(* of the loop and for every input.  Days are weekdays and times are       *)
(* counted in minutes of a day (or any coarser unit), as in the code.      *)
(* Requests are a sequence in the order of their submission.               *)
(***************************************************************************)
EXTENDS Integers, Sequences

CONSTANTS
  Days,    \* weekdays
  Bands,
  Inputs,  \* the inputs of this instance
  STEP,    \* bookings start on this grid (30 minutes)
  None

Interval == [start : Nat, end : Nat]
Window == [day : Days, start : Nat, end : Nat]
Asked == [band : Bands, duration : Nat \ {0}, windows : Seq(Window)]

(***************************************************************************)
(* What allocate is called with: the requests, the occupied intervals of   *)
(* every day, the hours of the room, the days on which it is closed, the   *)
(* daily limit of a band (0: none) and what every band already has.        *)
(***************************************************************************)
Input ==
  [asked : Seq(Asked), busy : [Days -> SUBSET Interval], open : Nat, close : Nat,
   closed : SUBSET Days, daily : Nat, has : [Bands -> [Days -> Nat]]]

Place == [day : Days, start : Nat, end : Nat, priority : Nat \ {0}]

ASSUME AllocatorAssumption ==
  /\ STEP \in Nat \ {0}
  /\ None \notin Place
  /\ Inputs \subseteq Input

VARIABLES
  input,
  priority,  \* the round that is running
  rest,      \* requests (by their order) still to be served in this round
  assigned,  \* the place of every request, None while it has none
  bandDay,   \* minutes of every band on every day
  bandWeek   \* minutes that every band was given so far

vars == <<input, priority, rest, assigned, bandDay, bandWeek>>

Order == DOMAIN input.asked
Bigger(a, b) == IF a >= b THEN a ELSE b
Smaller(a, b) == IF a <= b THEN a ELSE b

Wishes(i, p) == p \in DOMAIN input.asked[i].windows
WindowOf(i, p) == input.asked[i].windows[p]
Duration(i) == input.asked[i].duration
BandOf(i) == input.asked[i].band

-----------------------------------------------------------------------------
(* Where a request can still go *)

Apart(s, e, b) == e <= b.start \/ s >= b.end

\* Is the room free of what was booked and of the places of `who'?  The code
\* merges the intervals of a day, which changes no answer.
Fits(day, who, s, e) ==
  /\ \A b \in input.busy[day] : Apart(s, e, b)
  /\ \A j \in who : assigned[j] # None /\ assigned[j].day = day => Apart(s, e, assigned[j])

\* The starts on the grid at which the window and the room have enough time left.
Starts(w, duration) ==
  {t \in Bigger(w.start, input.open)..Smaller(w.end, input.close) :
     t % STEP = 0 /\ t + duration <= Smaller(w.end, input.close)}

FreeStarts(i, p, who) ==
  LET w == WindowOf(i, p) IN
  {t \in Starts(w, Duration(i)) : Fits(w.day, who, t, t + Duration(i))}

Allowed(i, p) ==
  /\ WindowOf(i, p).day \notin input.closed
  /\ input.daily > 0 => bandDay[BandOf(i)][WindowOf(i, p).day] + Duration(i) <= input.daily

\* Mistakes: the latest start is taken; what was handed out is not looked at.
LatestStart(start, i, p) ==
  start \in FreeStarts(i, p, Order) /\ \A t \in FreeStarts(i, p, Order) : t <= start
StartIgnoringOthers(start, i, p) ==
  start \in FreeStarts(i, p, {}) /\ \A t \in FreeStarts(i, p, {}) : start <= t

EarliestStart(start, i, p) ==
  start \in FreeStarts(i, p, Order) /\ \A t \in FreeStarts(i, p, Order) : start <= t

-----------------------------------------------------------------------------
(* Who is served next in a round *)

Slack(i) ==
  LET w == WindowOf(i, priority) IN w.end - w.start - Duration(i)

\* Tightest window first, then the band served least, then first come first served.
Before(i, j) ==
  \/ Slack(i) < Slack(j)
  \/ /\ Slack(i) = Slack(j)
     /\ \/ bandWeek[BandOf(i)] < bandWeek[BandOf(j)]
        \/ bandWeek[BandOf(i)] = bandWeek[BandOf(j)] /\ i < j

First(i) == i \in rest /\ \A j \in rest \ {i} : Before(i, j)

Round(p) == {i \in Order : assigned[i] = None /\ Wishes(i, p)}

Begin(in) ==
  /\ input = in
  /\ priority = 1
  /\ assigned = [i \in DOMAIN in.asked |-> None]
  /\ rest = {i \in DOMAIN in.asked : 1 \in DOMAIN in.asked[i].windows}
  /\ bandDay = in.has
  /\ bandWeek = [b \in Bands |-> 0]

Init == \E in \in Inputs : Begin(in)

\* The call, for whoever embeds the allocator.
Call(in) ==
  /\ input' = in
  /\ priority' = 1
  /\ assigned' = [i \in DOMAIN in.asked |-> None]
  /\ rest' = {i \in DOMAIN in.asked : 1 \in DOMAIN in.asked[i].windows}
  /\ bandDay' = in.has
  /\ bandWeek' = [b \in Bands |-> 0]

Skip(i) ==
  /\ First(i)
  /\ ~Allowed(i, priority) \/ FreeStarts(i, priority, Order) = {}
  /\ rest' = rest \ {i}
  /\ UNCHANGED <<input, priority, assigned, bandDay, bandWeek>>

Assign(i) ==
  /\ First(i)
  /\ Allowed(i, priority) /\ FreeStarts(i, priority, Order) # {}
  /\ LET day == WindowOf(i, priority).day IN
     /\ \E start \in Starts(WindowOf(i, priority), Duration(i)) :
          /\ EarliestStart(start, i, priority)
          /\ assigned' = [assigned EXCEPT ![i] =
               [day |-> day, start |-> start, end |-> start + Duration(i), priority |-> priority]]
     /\ bandDay' = [bandDay EXCEPT ![BandOf(i)][day] = @ + Duration(i)]
  /\ bandWeek' = [bandWeek EXCEPT ![BandOf(i)] = @ + Duration(i)]
  /\ rest' = rest \ {i}
  /\ UNCHANGED <<input, priority>>

Played == \A i \in Order : \A p \in DOMAIN input.asked[i].windows : p <= priority

NextRound ==
  /\ rest = {} /\ ~Played
  /\ priority' = priority + 1
  /\ rest' = Round(priority + 1)
  /\ UNCHANGED <<input, assigned, bandDay, bandWeek>>

Done == rest = {} /\ Played

Next == (\E i \in rest : Skip(i) \/ Assign(i)) \/ NextRound

Spec == Init /\ [][Next]_vars

-----------------------------------------------------------------------------
(* What has to hold *)

TypeOK ==
  /\ input \in Input
  /\ priority \in Nat \ {0}
  /\ rest \subseteq {i \in Order : assigned[i] = None /\ Wishes(i, priority)}
  /\ assigned \in [Order -> Place \cup {None}]
  /\ bandDay \in [Bands -> [Days -> Nat]]
  /\ bandWeek \in [Bands -> Nat]

(***************************************************************************)
(* Nothing is handed out twice: a place meets neither what was booked nor  *)
(* another place (the reason for the allocator to keep `occupied').        *)
(***************************************************************************)
NoClash ==
  \A i \in Order : assigned[i] # None =>
    LET a == assigned[i] IN
    Fits(a.day, Order \ {i}, a.start, a.end)

(***************************************************************************)
(* A place lies in the window it was given for, within the hours of the    *)
(* room, on the grid, on an open day, and is as long as was asked.         *)
(***************************************************************************)
WithinWishes ==
  \A i \in Order : assigned[i] # None =>
    LET a == assigned[i] IN
    /\ Wishes(i, a.priority) /\ a.priority <= priority
    /\ a.day = WindowOf(i, a.priority).day /\ a.day \notin input.closed
    /\ a.start % STEP = 0 /\ a.end = a.start + Duration(i)
    /\ Bigger(WindowOf(i, a.priority).start, input.open) <= a.start
    /\ a.end <= Smaller(WindowOf(i, a.priority).end, input.close)

(***************************************************************************)
(* The daily limit holds for every band on every day it was given time on, *)
(* what it had booked before included.                                     *)
(***************************************************************************)
DailyKept ==
  input.daily > 0 =>
    \A i \in Order : assigned[i] # None => bandDay[BandOf(i)][assigned[i].day] <= input.daily

(***************************************************************************)
(* Whatever was asked for, at every turn of the loop: what it has handed   *)
(* out may be published.                                                   *)
(***************************************************************************)
PlanInv == TypeOK /\ NoClash /\ WithinWishes /\ DailyKept

\* What the band of a request has on a day, the place of the request left out.
HasBesides(i, day) ==
  bandDay[BandOf(i)][day]
    - (IF assigned[i] # None /\ assigned[i].day = day THEN Duration(i) ELSE 0)

\* Could the request have this window, everybody else keeping their place?
CouldHave(i, w, t) ==
  /\ w.day \notin input.closed
  /\ input.daily > 0 => HasBesides(i, w.day) + Duration(i) <= input.daily
  /\ t \in Starts(w, Duration(i))
  /\ Fits(w.day, Order \ {i}, t, t + Duration(i))

Served(i, p) == p < priority \/ (p = priority /\ i \notin rest)

(***************************************************************************)
(* "A request is therefore never given a lower-priority window while its   *)
(* higher-priority wish could have been honoured" (allocator.py:8-9), and  *)
(* it gets the earliest free start (allocator.py:12): in the plan that     *)
(* comes out, as it stands, nobody could be moved to a wish of theirs that *)
(* ranks higher, nor earlier within the one they got, and whoever has no   *)
(* place could be put nowhere.                                             *)
(***************************************************************************)
NobodyGains ==
  \A i \in Order : \A p \in DOMAIN input.asked[i].windows :
    LET w == WindowOf(i, p) IN
    /\ Served(i, p) /\ (assigned[i] = None \/ p < assigned[i].priority)
         => \A t \in Starts(w, Duration(i)) : ~CouldHave(i, w, t)
    /\ assigned[i] # None /\ p = assigned[i].priority
         => \A t \in Starts(w, Duration(i)) : t < assigned[i].start => ~CouldHave(i, w, t)

=============================================================================
