------------------------------ MODULE RoomRules ------------------------------
(***************************************************************************)
(* The rules that decide which time of the one shared room can be booked,  *)
(* as pure operators on a settings record, a point in time and the slots   *)
(* that are already taken (app/services/bookings.py, app/services/weeks.py *)
(* and the lists kept by app/services/waitlist.py).                        *)
(*                                                                         *)
(* Time is counted in equal units from a Monday 00:00.  A day has DayUnits *)
(* units and the booking step of the code (30 minutes) is Step units, so   *)
(* that Step = 1 keeps every time on the half-hour grid and Step = 2 also  *)
(* has the times in between, which the HTTP interface accepts.             *)
(***************************************************************************)
EXTENDS Naturals, FiniteSetsExt

CONSTANTS
  DayUnits,       \* units of time in a day (48 half hours)
  WeekDays,       \* days in a week (7)
  HorizonDays,    \* how far ahead a member may book (7 days)
  PriorityDays,   \* how far ahead the room may be taken with priority (30)
  Step,           \* units in the 30-minute booking step
  WeeklyPlanning  \* settings.weekly_planning_enabled

ASSUME RulesAssumption ==
  /\ DayUnits \in Nat \ {0}
  /\ WeekDays \in Nat \ {0}
  /\ HorizonDays \in Nat \ {0}
  /\ PriorityDays \in Nat \ {0}
  /\ Step \in Nat \ {0}
  /\ WeeklyPlanning \in BOOLEAN

Slot == [start : Nat, end : Nat]

DayOf(t) == t \div DayUnits
ClockOf(t) == t % DayUnits
Weekday(day) == day % WeekDays
Length(s) == s.end - s.start

\* A slot lies within one calendar day: the code stores one date and two times.
SameDay(s) == DayOf(s.start) = DayOf(s.end)

\* Mistake: only the start of the new slot is looked at.
OverlapsAtStart(s, t) == s.start < t.end /\ s.start >= t.start

\* The bookings compared are those of one date, so clock times overlap
\* exactly when these absolute times do.
Overlaps(s, t) == s.start < t.end /\ s.end > t.start

FreeOf(s, taken) == \A t \in taken : ~Overlaps(s, t)

(***************************************************************************)
(* The settings that the rules read.  `published' is the set of the weeks  *)
(* (by the day of their Monday) whose schedule is published; it matters    *)
(* with weekly planning only.  A limit of 0 switches the daily limit and   *)
(* the cap on future bookings off, never the weekly limit.                 *)
(***************************************************************************)
SettingsRecord ==
  [open : Nat, close : Nat, days : SUBSET Nat, weekly : Nat, daily : Nat,
   maxFuture : Nat, personal : BOOLEAN, published : SUBSET Nat]

WeekStartOf(day) == day - Weekday(day)
NextWeekStart(day) == WeekStartOf(day) + WeekDays

DateOpen(cfg, day, now) ==
  \/ ~WeeklyPlanning
  \/ day < NextWeekStart(DayOf(now))
  \/ WeekStartOf(day) \in cfg.published

InFuture(s, now) == s.start > now
WithinHorizon(s, now) == s.start <= now + HorizonDays * DayUnits
Ended(s, now) == s.end <= now

WholeSteps(s) == s.end > s.start /\ Length(s) % Step = 0

WithinRoomHours(cfg, s) ==
  ClockOf(s.start) >= cfg.open /\ ClockOf(s.end) <= cfg.close

\* Everything that makes a range bookable except it being unoccupied.
RangeValid(cfg, s, now, privileged) ==
  /\ WholeSteps(s)
  /\ SameDay(s)
  /\ DayOf(s.start) >= DayOf(now)
  /\ DayOf(s.start) <= DayOf(now + HorizonDays * DayUnits)
  /\ privileged \/ DateOpen(cfg, DayOf(s.start), now)
  /\ InFuture(s, now) /\ WithinHorizon(s, now)
  /\ WithinRoomHours(cfg, s)
  /\ Weekday(DayOf(s.start)) \in cfg.days

TimeAvailable(cfg, s, now, privileged, taken) ==
  RangeValid(cfg, s, now, privileged) /\ FreeOf(s, taken)

\* The slots offered for a day: steps from the opening of the room, so a slot
\* that starts between two steps is never among them.
ListedSlots(cfg, day, length, now, privileged, taken) ==
  {s \in {[start |-> day * DayUnits + cfg.open + Step * i,
           end |-> day * DayUnits + cfg.open + Step * i + length] : i \in 0..DayUnits} :
     /\ length > 0 /\ length % Step = 0
     /\ day >= DayOf(now) /\ day <= DayOf(now + HorizonDays * DayUnits)
     /\ privileged \/ DateOpen(cfg, day, now)
     /\ Weekday(day) \in cfg.days
     /\ s.end <= day * DayUnits + cfg.close
     /\ InFuture(s, now) /\ WithinHorizon(s, now)
     /\ FreeOf(s, taken)}

Listed(cfg, s, now, privileged, taken) ==
  s \in ListedSlots(cfg, DayOf(s.start), Length(s), now, privileged, taken)

\* Taking over time with priority asks less: neither the weekday nor the
\* publication of the week is looked at.
PrioritySlotValid(cfg, s, now) ==
  /\ WholeSteps(s)
  /\ SameDay(s)
  /\ InFuture(s, now)
  /\ DayOf(s.start) <= DayOf(now + PriorityDays * DayUnits)
  /\ WithinRoomHours(cfg, s)

(***************************************************************************)
(* Limits of one band.  `own' is the set of the slots of its confirmed     *)
(* bookings; no two of them overlap, so the set loses none of them.        *)
(***************************************************************************)
Lengths == [s \in Slot |-> Length(s)]
SumOfLengths(own) == SumFunctionOnSet(Lengths, own)

MinutesInWindow(own, now) ==
  SumOfLengths({s \in own : InFuture(s, now) /\ WithinHorizon(s, now)})

MinutesOnDay(own, day) == SumOfLengths({s \in own : DayOf(s.start) = day})

FutureSlots(own, now) == {s \in own : InFuture(s, now)}

\* Mistake: the length of the new booking is left out.
WithinWeeklyBefore(cfg, own, now, s) == MinutesInWindow(own, now) <= cfg.weekly

WithinWeekly(cfg, own, now, s) ==
  MinutesInWindow(own, now) + Length(s) <= cfg.weekly

WithinDaily(cfg, own, s) ==
  cfg.daily > 0 => MinutesOnDay(own, DayOf(s.start)) + Length(s) <= cfg.daily

BelowCap(cfg, own, now) ==
  cfg.maxFuture > 0 => Cardinality(FutureSlots(own, now)) < cfg.maxFuture

\* What a band may hold at a time t: no more than the weekly limit in the
\* sliding window, nor than the daily limit on any of its days.
WithinLimits(cfg, own, t) ==
  /\ MinutesInWindow(own, t) <= cfg.weekly
  /\ cfg.daily > 0 => \A s \in own : MinutesOnDay(own, DayOf(s.start)) <= cfg.daily
=============================================================================
