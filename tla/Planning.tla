------------------------------- MODULE Planning -------------------------------
(***************************************************************************)
(* Weekly planning: bands submit requests for the next week, which are     *)
(* turned into bookings and published on the Sunday before it, by the      *)
(* scheduler, by an admin, or after downtime when the server starts        *)
(* (app/services/planning.py, app/services/weeks.py, app/main.py).         *)
(*                                                                         *)
(* A submission and a deletion take no lock: they read, and commit later.  *)
(* An allocation holds the lock of the bookings from before it reads until *)
(* it commits, and runs the allocator in between.  A point in time is a    *)
(* day and a clock, as the code stores it; week 0 starts on day 0.         *)
(*                                                                         *)
(* Whether a member may submit for the band is decided by the operators of *)
(* module Club and not looked at here.                                     *)
(***************************************************************************)
EXTENDS Integers, Sequences, FiniteSetsExt

CONSTANTS
  Procs,           \* concurrent requests
  Bands,
  RequestIds,      \* bound: requests ever submitted
  BookingIds,      \* bound: bookings ever made
  RequestChoices,  \* what bands ask for: band, duration, windows
  HandChoices,     \* what is booked by hand: band or None, day, start, end
  SettingsChoices, \* hours, enabled weekdays and limits that an admin may store
  WeekDays,        \* days in a week (7)
  DayEnd,          \* the last clock of a day
  AllocationTime,  \* settings.allocation_time
  FirstDay,        \* the day on which the instance begins
  MaxDay,          \* bound on the calendar
  LastWeek,        \* bound: the last week that is planned for
  MaxCrashes,      \* bound on crashes
  STEP,
  None

VARIABLES
  today, clock,
  settings,
  published,  \* weeks (by their Monday) with a row that says published
  requests,   \* table of availability requests
  bookings,   \* table of bookings
  lock,       \* holder of the advisory lock
  server,     \* "down", "starting" (catching up) or "up"
  alarm,      \* the Sunday job is due
  crashes,
  pc, job,    \* where every request to the server is, and what it is about
  failed,     \* weeks whose allocation broke on a request deleted meanwhile
  input, priority, rest, assigned, bandDay, bandWeek  \* the allocator at work

allocator == <<input, priority, rest, assigned, bandDay, bandWeek>>
tables == <<settings, published, requests, bookings>>
time == <<today, clock, alarm>>
vars == <<time, tables, lock, server, crashes, pc, job, failed, allocator>>

Weekdays == 0..(WeekDays - 1)
Weeks == 0..(MaxDay + WeekDays)
Allocator == INSTANCE Allocator WITH Days <- Weekdays, Inputs <- {}

ASSUME PlanningAssumption ==
  /\ WeekDays \in Nat \ {0} /\ STEP \in Nat \ {0}
  /\ DayEnd \in Nat /\ AllocationTime \in Nat
  /\ MaxDay \in Nat /\ FirstDay \in 0..MaxDay
  /\ LastWeek \in Nat /\ MaxCrashes \in Nat
  /\ IsFiniteSet(Procs)
  /\ IsFiniteSet(RequestIds) /\ RequestIds \subseteq Nat
  /\ IsFiniteSet(BookingIds) /\ BookingIds \subseteq Nat
  /\ RequestChoices \subseteq Allocator!Asked
  /\ HandChoices \subseteq
       [band : Bands \cup {None}, day : 0..(MaxDay + WeekDays), start : 0..DayEnd, end : 0..(DayEnd + 1)]
  /\ \A s \in HandChoices : s.start < s.end
  /\ SettingsChoices \subseteq
       [open : Nat, close : 0..(DayEnd + 1), days : SUBSET Weekdays, weekly : Nat, daily : Nat]
  /\ None \notin Procs \cup Bands \cup RequestIds \cup BookingIds
  /\ None \notin Allocator!Asked /\ None \notin Allocator!Place /\ None \notin Allocator!Interval
  /\ None \notin Nat

WeekStartOf(day) == day - (day % WeekDays)
NextWeekStart(day) == WeekStartOf(day) + WeekDays

\* Requests for a week close on the day before it, at the allocation time.
PastDeadline(week) ==
  today > week - 1 \/ (today = week - 1 /\ clock >= AllocationTime)

Collecting(week) ==
  week = NextWeekStart(today) /\ week \notin published /\ ~PastDeadline(week)

DateOpenForBooking(day) == day < NextWeekStart(today) \/ WeekStartOf(day) \in published

NoAsk == [state |-> "unused", week |-> None, what |-> None, booking |-> None]
NoBooking == [band |-> None, day |-> None, start |-> None, end |-> None, request |-> None]
NoJob ==
  [op |-> None, week |-> None, id |-> None, what |-> None, counted |-> 0, limit |-> 0,
   todo |-> <<>>, at |-> <<0, 0>>, queue |-> <<>>]
NoInput ==
  [asked |-> <<>>, busy |-> [d \in Weekdays |-> {}], open |-> 0, close |-> 0, closed |-> {},
   daily |-> 0, has |-> [b \in Bands |-> [d \in Weekdays |-> 0]]]

Job ==
  [op : {"submit", "delete", "admin", "scheduler", "catchup", None}, week : Weeks \cup {None},
   id : RequestIds \cup {None}, what : RequestChoices \cup {None}, counted : Nat, limit : Nat,
   todo : Seq(Weeks), at : Nat \X Nat, queue : Seq(RequestIds)]

RequestStatuses == {"unused", "pending", "assigned", "unassigned", "deleted"}

TypeOK ==
  /\ today \in 0..MaxDay /\ clock \in 0..DayEnd
  /\ settings \in SettingsChoices
  /\ published \subseteq Weeks
  /\ requests \in [RequestIds ->
       [state : RequestStatuses, week : Nat \cup {None},
        what : RequestChoices \cup {None}, booking : BookingIds \cup {None}]]
  /\ bookings \in [BookingIds ->
       [band : Bands \cup {None}, day : Nat \cup {None}, start : Nat \cup {None},
        end : Nat \cup {None}, request : RequestIds \cup {None}]]
  /\ lock \in Procs \cup {None}
  /\ server \in {"down", "starting", "up"} /\ alarm \in BOOLEAN /\ crashes \in 0..MaxCrashes
  /\ pc \in [Procs -> {"idle", "submitting", "deleting", "catching", "waiting", "allocating"}]
  /\ job \in [Procs -> Job]
  /\ failed \subseteq Weeks

Init ==
  /\ today = FirstDay /\ clock = 0 /\ alarm = FALSE
  /\ settings \in SettingsChoices
  /\ published = {} /\ failed = {}
  /\ requests = [r \in RequestIds |-> NoAsk]
  /\ bookings = [i \in BookingIds |-> NoBooking]
  /\ lock = None /\ server = "up" /\ crashes = 0
  /\ pc = [p \in Procs |-> "idle"]
  /\ job = [p \in Procs |-> NoJob]
  /\ input = NoInput /\ priority = 1 /\ rest = {} /\ assigned = <<>>
  /\ bandDay = NoInput.has /\ bandWeek = [b \in Bands |-> 0]

-----------------------------------------------------------------------------
(* What the tables say *)

Held(i) == bookings[i].day # None
HeldIds == {i \in BookingIds : Held(i)}
FreeIds == BookingIds \ HeldIds

Clash(a, b) == a.day = b.day /\ a.start < b.end /\ a.end > b.start

PendingOf(week) == {r \in RequestIds : requests[r].state = "pending" /\ requests[r].week = week}

PendingMinutes(band, week) ==
  LET own == {r \in PendingOf(week) : requests[r].what.band = band}
  IN SumFunctionOnSet([r \in own |-> requests[r].what.duration], own)

\* A set of ids in their order: the k-th has k of them up to itself.
Rank(ids, r) == Cardinality({q \in ids : q <= r})
InOrder(ids) == [k \in 1..Cardinality(ids) |-> CHOOSE r \in ids : Rank(ids, r) = k]

Idle(p) ==
  /\ pc' = [pc EXCEPT ![p] = "idle"]
  /\ job' = [job EXCEPT ![p] = NoJob]

Begin(p, j, where) ==
  /\ pc' = [pc EXCEPT ![p] = where]
  /\ job' = [job EXCEPT ![p] = j]

Served(p) == server = "up" /\ pc[p] = "idle"

-----------------------------------------------------------------------------
(* Submitting and deleting a request *)

WindowAllowed(w, duration) ==
  /\ w.day \in settings.days
  /\ w.start < w.end
  /\ settings.open <= w.start /\ w.end <= settings.close
  /\ w.end - w.start >= duration

\* Mistake: only the new request is compared with the limit.
WithinWeeklyAlone(what, week) == what.duration <= settings.weekly

WithinWeekly(what, week) ==
  PendingMinutes(what.band, week) + what.duration <= settings.weekly

Unused == {r \in RequestIds : requests[r].state = "unused"}

\* Two processes that submit at once may both pass the limit.  The second
\* conjunct is the bound on ids.
Submit(p) ==
  /\ Served(p)
  /\ Cardinality(Unused) > Cardinality({q \in Procs : pc[q] = "submitting"})
  /\ \E what \in RequestChoices :
       LET week == NextWeekStart(today) IN
       /\ Collecting(week) /\ week <= LastWeek
       /\ \A k \in DOMAIN what.windows : WindowAllowed(what.windows[k], what.duration)
       /\ WithinWeekly(what, week)
       /\ Begin(p, [NoJob EXCEPT !.op = "submit", !.what = what, !.week = week,
                                 !.counted = PendingMinutes(what.band, week),
                                 !.limit = settings.weekly], "submitting")
  /\ UNCHANGED <<time, tables, lock, server, crashes, failed, allocator>>

InsertRequest(p) ==
  /\ pc[p] = "submitting"
  /\ requests' = [requests EXCEPT ![Min(Unused)] =
       [state |-> "pending", week |-> job[p].week, what |-> job[p].what, booking |-> None]]
  /\ Idle(p)
  /\ UNCHANGED <<time, settings, published, bookings, lock, server, crashes, failed, allocator>>

Delete(p) ==
  /\ Served(p)
  /\ \E r \in RequestIds :
       /\ requests[r].state = "pending"
       /\ Begin(p, [NoJob EXCEPT !.op = "delete", !.id = r], "deleting")
  /\ UNCHANGED <<time, tables, lock, server, crashes, failed, allocator>>

\* The row goes by its key, whatever became of it since it was read.
DeleteRequest(p) ==
  /\ pc[p] = "deleting"
  /\ requests' = [requests EXCEPT ![job[p].id] = [NoAsk EXCEPT !.state = "deleted"]]
  /\ Idle(p)
  /\ UNCHANGED <<time, settings, published, bookings, lock, server, crashes, failed, allocator>>

-----------------------------------------------------------------------------
(* The allocation *)

Run(p, who, week, todo) ==
  Begin(p, [NoJob EXCEPT !.op = who, !.week = week, !.todo = todo, !.at = <<today, clock>>], "waiting")

AdminRuns(p) ==
  /\ Served(p) /\ NextWeekStart(today) <= LastWeek
  /\ Run(p, "admin", NextWeekStart(today), <<>>)
  /\ UNCHANGED <<time, tables, lock, server, crashes, failed, allocator>>

\* The Sunday job, which runs at its minute if the server is up then.
SundayJob(p) ==
  /\ alarm /\ server # "down" /\ pc[p] = "idle"
  /\ alarm' = FALSE
  /\ Run(p, "scheduler", NextWeekStart(today), <<>>)
  /\ UNCHANGED <<today, clock, tables, lock, server, crashes, failed, allocator>>

\* Mistake: what passed of the day of a late run is forgotten.
NoTimeGone(week, at) == [d \in Weekdays |-> {}]

\* A late run finds the week begun: its past days are closed, and of today
\* everything before the next half hour is taken.
PastDays(week, at) == {d \in Weekdays : week + d < at[1]}

TimeGone(week, at) ==
  [d \in Weekdays |->
     IF week + d = at[1] THEN {[start |-> 0, end |-> (at[2] \div STEP + 1) * STEP]} ELSE {}]

BookedOn(day) == {i \in HeldIds : bookings[i].day = day}

\* The requests of the week in the order of their submission.
Queue(week) == InOrder(PendingOf(week))

HeldMinutes(band, day) ==
  LET own == {i \in BookedOn(day) : bookings[i].band = band}
  IN SumFunctionOnSet([i \in own |-> bookings[i].end - bookings[i].start], own)

Reading(week, at) ==
  LET queue == Queue(week) IN
  [asked |-> [k \in DOMAIN queue |-> requests[queue[k]].what],
   busy |-> [d \in Weekdays |->
     {[start |-> bookings[i].start, end |-> bookings[i].end] : i \in BookedOn(week + d)}
       \cup TimeGone(week, at)[d]],
   open |-> settings.open, close |-> settings.close,
   closed |-> (Weekdays \ settings.days) \cup PastDays(week, at),
   daily |-> settings.daily,
   has |-> [b \in Bands |-> [d \in Weekdays |-> HeldMinutes(b, week + d)]]]

\* Under the lock: is the week still open, and if so what is there to allocate?
ReadWeek(p) ==
  /\ pc[p] = "waiting" /\ lock = None
  /\ job[p].week \notin published
  /\ lock' = p
  /\ Allocator!Call(Reading(job[p].week, job[p].at))
  /\ pc' = [pc EXCEPT ![p] = "allocating"]
  /\ job' = [job EXCEPT ![p].queue = Queue(job[p].week)]
  /\ UNCHANGED <<time, tables, server, crashes, failed>>

Allocate(p) ==
  /\ pc[p] = "allocating"
  /\ Allocator!Next
  /\ UNCHANGED <<time, tables, lock, server, crashes, pc, job, failed>>

\* Whoever called goes on: a catch-up with its next week, unless this one failed.
Return(p, ok) ==
  IF job[p].op = "catchup"
  THEN /\ job' = [job EXCEPT ![p] = [NoJob EXCEPT !.op = "catchup",
                                                  !.todo = IF ok THEN job[p].todo ELSE <<>>]]
       /\ pc' = [pc EXCEPT ![p] = "catching"]
  ELSE Idle(p)

AlreadyPublished(p) ==
  /\ pc[p] = "waiting" /\ lock = None
  /\ job[p].week \in published
  /\ Return(p, FALSE)
  /\ UNCHANGED <<time, tables, lock, server, crashes, failed, allocator>>

Queued(p) == job[p].queue
Gone(p) == {k \in DOMAIN Queued(p) : requests[Queued(p)[k]].state = "deleted"}

Winners == {k \in DOMAIN assigned : assigned[k] # None}

\* Mistake: an id that is taken is handed out again.
BookingForTaken(k) == InOrder(BookingIds)[Rank(Winners, k)]

\* The ids that the sequence of the bookings hands out for the winners.
BookingFor(k) == InOrder(FreeIds)[Rank(Winners, k)]

BookingRow(p, k) ==
  [band |-> requests[Queued(p)[k]].what.band, day |-> job[p].week + assigned[k].day,
   start |-> assigned[k].start, end |-> assigned[k].end, request |-> Queued(p)[k]]

Decided(p, k) ==
  LET r == requests[Queued(p)[k]] IN
  IF k \in Winners
  THEN [r EXCEPT !.state = "assigned", !.booking = BookingFor(k)]
  ELSE [r EXCEPT !.state = "unassigned"]

\* Mistake: the week is left as it was.
PublishUnmarked(p) ==
  /\ pc[p] = "allocating" /\ Allocator!Done
  /\ Gone(p) = {}
  /\ Cardinality(FreeIds) >= Cardinality(Winners)
  /\ bookings' = [i \in BookingIds |->
       IF i \in {BookingFor(k) : k \in Winners}
       THEN BookingRow(p, CHOOSE k \in Winners : BookingFor(k) = i) ELSE bookings[i]]
  /\ UNCHANGED <<requests, published>>
  /\ lock' = None
  /\ Return(p, TRUE)
  /\ Allocator!Call(NoInput)
  /\ UNCHANGED <<time, settings, server, crashes, failed>>

\* One commit: the bookings, what became of every request, and the week.
Publish(p) ==
  /\ pc[p] = "allocating" /\ Allocator!Done
  /\ Gone(p) = {}
  /\ Cardinality(FreeIds) >= Cardinality(Winners)
  /\ bookings' = [i \in BookingIds |->
       IF i \in {BookingFor(k) : k \in Winners}
       THEN BookingRow(p, CHOOSE k \in Winners : BookingFor(k) = i) ELSE bookings[i]]
  /\ requests' = [r \in RequestIds |->
       IF r \in {Queued(p)[k] : k \in DOMAIN Queued(p)}
       THEN Decided(p, CHOOSE k \in DOMAIN Queued(p) : Queued(p)[k] = r) ELSE requests[r]]
  /\ published' = published \cup {job[p].week}
  /\ lock' = None
  /\ Return(p, TRUE)
  /\ Allocator!Call(NoInput)
  /\ UNCHANGED <<time, settings, server, crashes, failed>>

\* An update of a row that was deleted since breaks the whole allocation.
Break(p) ==
  /\ pc[p] = "allocating" /\ Allocator!Done
  /\ Gone(p) # {}
  /\ lock' = None
  /\ failed' = failed \cup {job[p].week}
  /\ Return(p, FALSE)
  /\ Allocator!Call(NoInput)
  /\ UNCHANGED <<time, tables, server, crashes>>

-----------------------------------------------------------------------------
(* The server and the rest of the world *)

\* On start: this week and the next are caught up with before anyone is served.
Boot(p) ==
  /\ server = "down"
  /\ server' = "starting"
  /\ Begin(p, [NoJob EXCEPT !.op = "catchup", !.todo = <<WeekStartOf(today), NextWeekStart(today)>>],
           "catching")
  /\ UNCHANGED <<time, tables, lock, crashes, failed, allocator>>

\* Mistake: a week that has begun is taken for over.
MissedNextOnly(week) ==
  /\ week \notin published /\ PastDeadline(week) /\ week = NextWeekStart(today)

\* A week that is due and was not published; one that already runs only if
\* somebody waits for it.
Missed(week) ==
  /\ week \notin published /\ PastDeadline(week)
  /\ week = WeekStartOf(today) => PendingOf(week) # {}

CatchUp(p) ==
  /\ pc[p] = "catching" /\ job[p].todo # <<>>
  /\ LET week == Head(job[p].todo) IN
     IF Missed(week)
     THEN Run(p, "catchup", week, Tail(job[p].todo))
     ELSE Begin(p, [job[p] EXCEPT !.todo = Tail(@)], "catching")
  /\ UNCHANGED <<time, tables, lock, server, crashes, failed, allocator>>

Started(p) ==
  /\ pc[p] = "catching" /\ job[p].todo = <<>>
  /\ server' = "up"
  /\ Idle(p)
  /\ UNCHANGED <<time, tables, lock, crashes, failed, allocator>>

Crash ==
  /\ server # "down" /\ crashes < MaxCrashes
  /\ server' = "down" /\ crashes' = crashes + 1
  /\ alarm' = FALSE /\ lock' = None
  /\ pc' = [p \in Procs |-> "idle"]
  /\ job' = [p \in Procs |-> NoJob]
  /\ Allocator!Call(NoInput)
  /\ UNCHANGED <<today, clock, tables, failed>>

Later(s) == s.day > today \/ (s.day = today /\ s.start > clock)

\* A booking by hand, in the transaction of module Bookings: staff may also
\* take time of a week that is not published.
BookByHand ==
  /\ server = "up" /\ lock = None /\ FreeIds # {}
  /\ \E s \in HandChoices :
       /\ Later(s)
       /\ s.band # None => DateOpenForBooking(s.day)
       /\ \A i \in HeldIds : ~Clash(s, bookings[i])
       /\ bookings' = [bookings EXCEPT ![Min(FreeIds)] =
            [band |-> s.band, day |-> s.day, start |-> s.start, end |-> s.end, request |-> None]]
  /\ UNCHANGED <<time, settings, published, requests, lock, server, crashes, pc, job, failed, allocator>>

ChangeSettings ==
  /\ server = "up"
  /\ settings' \in SettingsChoices \ {settings}
  /\ UNCHANGED <<time, published, requests, bookings, lock, server, crashes, pc, job, failed, allocator>>

\* The job is started in its minute, so time waits for it.
Tick ==
  /\ ~alarm /\ today < MaxDay
  /\ IF clock < DayEnd
     THEN clock' = clock + 1 /\ UNCHANGED today
     ELSE clock' = 0 /\ today' = today + 1
  /\ alarm' = (server # "down" /\ clock' = AllocationTime /\ today' = NextWeekStart(today') - 1)
  /\ UNCHANGED <<tables, lock, server, crashes, pc, job, failed, allocator>>

-----------------------------------------------------------------------------
Work(p) ==
  \/ InsertRequest(p) \/ DeleteRequest(p)
  \/ ReadWeek(p) \/ Allocate(p) \/ Publish(p) \/ Break(p) \/ AlreadyPublished(p)
  \/ CatchUp(p) \/ Started(p)

Next ==
  \/ \E p \in Procs : Submit(p) \/ Delete(p) \/ AdminRuns(p) \/ SundayJob(p) \/ Work(p) \/ Boot(p)
  \/ Crash \/ BookByHand \/ ChangeSettings \/ Tick

Spec == Init /\ [][Next]_vars

\* Requests run on, the scheduler runs its job, and a server that is down is
\* started again some day.
Fairness ==
  /\ \A p \in Procs : WF_vars(Work(p))
  /\ SF_vars(\E p \in Procs : SundayJob(p))
  /\ WF_vars(\E p \in Procs : Boot(p))

FairSpec == Spec /\ Fairness

-----------------------------------------------------------------------------
(* What has to hold *)

(***************************************************************************)
(* The allocation never books over what was booked by hand while requests  *)
(* were collected, nor twice itself.                                       *)
(***************************************************************************)
RoomHeldOnce == \A i, j \in HeldIds : i # j => ~Clash(bookings[i], bookings[j])

(***************************************************************************)
(* "Allocated once" (weeks.py:1): an admin, the Sunday job and a catch-up  *)
(* that want the same week at once give no request two bookings, and a     *)
(* request that still exists agrees with the booking made for it.          *)
(***************************************************************************)
AllocatedOnce ==
  \A i \in HeldIds : bookings[i].request # None =>
    LET r == requests[bookings[i].request] IN
    /\ \A j \in HeldIds \ {i} : bookings[j].request # bookings[i].request
    /\ r.state # "deleted" => r.state = "assigned" /\ r.booking = i

(***************************************************************************)
(* What a band gets is what it asked for: a rehearsal of that length, in   *)
(* the week it was for, within one of its windows.                         *)
(***************************************************************************)
GivenAsAsked ==
  \A r \in RequestIds : requests[r].state = "assigned" =>
    LET b == bookings[requests[r].booking]
        w == requests[r].what
    IN
    /\ b.request = r /\ b.band = w.band /\ b.end - b.start = w.duration
    /\ \E k \in DOMAIN w.windows :
         /\ b.day = requests[r].week + w.windows[k].day
         /\ w.windows[k].start <= b.start /\ b.end <= w.windows[k].end

-----------------------------------------------------------------------------
(* What makes them inductive.  The plan is made from what was read under   *)
(* the lock; until it is published no booking is made, and of its requests *)
(* the only thing that can happen to them is that they are deleted.        *)

\* Rows that say something say all of it.
RowsShape ==
  /\ \A r \in RequestIds :
       LET x == requests[r] IN
       /\ x.state \in {"pending", "assigned", "unassigned"} => x.what \in RequestChoices /\ x.week \in Weeks
       /\ x.state = "assigned" => x.booking \in BookingIds
  /\ \A i \in BookingIds :
       LET b == bookings[i] IN
       IF Held(i)
       THEN /\ b.day \in 0..(MaxDay + 2 * WeekDays)
            /\ b.start \in Nat /\ b.end \in 0..(DayEnd + 1) /\ b.start < b.end
       ELSE b = NoBooking

Submitting == {p \in Procs : pc[p] = "submitting"}

JobsShape ==
  /\ Cardinality(Unused) >= Cardinality(Submitting)
  /\ \A p \in Procs :
       /\ pc[p] = "submitting" =>
            /\ job[p].what \in RequestChoices /\ job[p].week \in Weeks
            /\ job[p].counted + job[p].what.duration <= job[p].limit
       /\ pc[p] = "deleting" => job[p].id \in RequestIds /\ job[p].id \notin Unused
       /\ pc[p] \in {"waiting", "allocating"} => job[p].week \in Weeks

LockOwned == \A p \in Procs : pc[p] = "allocating" => lock = p

\* The requests of the plan are those of the queue, unless they were deleted.
QueueFits(p) ==
  LET queue == job[p].queue IN
  /\ DOMAIN queue = DOMAIN input.asked
  /\ \A k, l \in DOMAIN queue : queue[k] = queue[l] => k = l
  /\ \A k \in DOMAIN queue :
       LET x == requests[queue[k]] IN
       \/ x.state = "deleted"
       \/ x.state = "pending" /\ x.week = job[p].week /\ x.what = input.asked[k]

\* The plan knows every booking of its week, and what of the week has passed.
RoomFits(p) ==
  LET week == job[p].week
      at == job[p].at
  IN
  /\ input.close <= DayEnd + 1
  /\ \A i \in HeldIds, d \in Weekdays : bookings[i].day = week + d =>
       [start |-> bookings[i].start, end |-> bookings[i].end] \in input.busy[d]
  /\ \A d \in Weekdays :
       /\ TimeGone(week, at)[d] \subseteq input.busy[d]
       /\ d \in PastDays(week, at) => d \in input.closed

PlanFits == \A p \in Procs : pc[p] = "allocating" => QueueFits(p) /\ RoomFits(p)

SafeWeeks ==
  /\ RowsShape /\ JobsShape /\ LockOwned /\ PlanFits
  /\ Allocator!PlanInv /\ Allocator!NobodyGains

(***************************************************************************)
(* The state is typed, and whoever allocates, however often and next to    *)
(* whatever else: the room is held once and each request is served once,   *)
(* with what it asked for; a plan that is being made still fits the tables *)
(* (SafeWeeks, which makes it inductive).                                  *)
(***************************************************************************)
WeeksInv == TypeOK /\ RoomHeldOnce /\ AllocatedOnce /\ GivenAsAsked /\ SafeWeeks

(***************************************************************************)
(* A run that is late, in a week that has already begun, hands out nothing *)
(* that had passed when it started (planning.py:313).                      *)
(***************************************************************************)
NothingPast ==
  [][\A p \in Procs : \A i \in FreeIds :
       pc[p] = "allocating" /\ lock' # p /\ Held(i)' =>
         LET b == bookings'[i] IN
         b.day > job[p].at[1] \/ (b.day = job[p].at[1] /\ b.start > job[p].at[2])]_vars

(***************************************************************************)
(* The weekly limit of a band is compared without a lock (planning.py:147):*)
(* a request goes beyond the limit it was compared with only if another    *)
(* one of the band came in, or was withdrawn, between the count and the    *)
(* insertion.                                                              *)
(***************************************************************************)
OvershootIsRaced ==
  [][\A p \in Procs : pc[p] = "submitting" /\ requests' # requests /\ pc'[p] = "idle" =>
       \A band \in {job[p].what.band}, week \in {job[p].week} :
         PendingMinutes(band, week)' > job[p].limit
           => PendingMinutes(band, week) # job[p].counted]_vars

Over(week) == today >= week + WeekDays

(***************************************************************************)
(* "If the server was down on Sunday evening, the missed allocation runs   *)
(* automatically on the next start" (README.md:34): a week that somebody   *)
(* waits for when its requests close is published, unless the server is    *)
(* down until the week is over, everybody withdraws, or the allocation     *)
(* breaks on a request that is deleted under its hands.                    *)
(***************************************************************************)
DueWeekPublished ==
  LET week == LastWeek IN
  PastDeadline(week) /\ PendingOf(week) # {}
    ~> week \in published \/ week \in failed \/ Over(week) \/ PendingOf(week) = {}

(***************************************************************************)
(* Publishing a week is one step of the calendar of the room that fills    *)
(* several slots at once.                                                  *)
(***************************************************************************)
At(day, start, end) == [start |-> day * (DayEnd + 2) + start, end |-> day * (DayEnd + 2) + end]

Slots == {At(d, s, e) : d \in 0..(MaxDay + 2 * WeekDays), s \in 0..DayEnd, e \in 1..(DayEnd + 1)}

Booked ==
  [i \in BookingIds |->
     IF Held(i) THEN At(bookings[i].day, bookings[i].start, bookings[i].end) ELSE None]

Calendar == INSTANCE Calendar WITH Ids <- BookingIds, held <- Booked, gone <- {}

(* Every behaviour of the planning is one of the calendar of a single room. *)
ImplementsCalendar == Calendar!Spec
=============================================================================
