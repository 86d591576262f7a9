# A formal model of the AITU Music Club booking system

The repository is a Telegram bot and Mini App with which the members of a
student music club share one rehearsal room.  A FastAPI backend (PostgreSQL)
decides everything; a separate bot process (aiogram) is its Telegram front end;
the two talk over HTTP and over two Redis lists.  This directory holds TLA+
modules that model the parts of the backend and the bot that decide, TLC
configurations that check them on small instances, and proofs of the most
important theorems for instances of every size.

`PROJECT.json` maps every definition to the source lines it stands for.

## 1. The system

| component | source (`src/app/`) | state | operations | module |
|---|---|---|---|---|
| Booking core | `services/bookings.py`, `services/weeks.py` | `bookings`, `club_settings`, the advisory lock | create, staff block, priority takeover, cancel, move | `RoomRules`, `Bookings` |
| Waiting list | `services/waitlist.py` | `waitlist_entries` | join, leave, take, notify, cleanup job | `Bookings` |
| Move requests | `services/move_requests.py` | `move_requests` | ask, accept, decline, withdraw, expiry job | `MoveRequests` |
| Outbox and delivery | `services/outbox.py`, `bot/outbox_delivery.py`, `bot/menu_refresh.py`, `bot/main.py` | `outbox_events`, two Redis lists, the dirty flag | queue, commit, publish, mark, republish, purge; take, send, acknowledge, recover; refresh | `Outbox` |
| Weekly planning | `services/planning.py`, `services/allocator.py` | `availability_requests`, `scheduling_weeks` | submit, delete, allocate, publish, catch up | `Allocator`, `Planning` |
| Accounts and moderation | `services/users.py` | `users` | enter, profile, approve, reject, ban, delete, resubmit | `Accounts`; what a ban releases in `Bookings` and `MoveRequests` |
| Roles and permissions | `services/roles.py`, `services/permissions.py` | `roles`, `role_assignments` | create, change, delete, assign, revoke, seed | `Accounts` |
| Bands | `services/bands.py` | `bands`, `band_members` | create, join, remove, transfer, responsible, delete | `Club`; what a deletion releases in `Bookings` |
| Concerts and lists | `services/events.py` | `events`, applications | create, change, submit, replace, withdraw | `Club` |
| Settings | `services/admin.py` | `club_settings` | limits, hours, days | `update_limits` in `Accounts`; any change, in `Bookings` and `Planning` |
| Sheets sync | `services/sheets_sync.py` | digests in memory, `sheets_synced_at` | round: schedule, history, concerts | `Backup` |
| Restore | `tools/restore_from_sheets.py` | none | read, plan, apply | `Backup` |
| Dialogs | `bot/handlers.py`, `bot/handlers_planning.py` | FSM state and data in Redis | one handler per button or text | `Dialogs` |
| Repeat offers, journal, routes, Mini App, schema | see `PROJECT.json` | | | not modelled (section 8) |

How they interact:

- Every write of a booking (and every ban, deletion of a band, allocation and
  restore) takes one PostgreSQL advisory transaction lock (`_lock_bookings`,
  `bookings.py:106`).  Nothing in the schema stands behind it: no exclusion
  constraint, no row locks.
- What frees time (`_offer_freed`) looks at the waiting list in the same
  transaction and queues offers.
- Whoever changes the schedule queues events on the session; the rows are stored
  by the same commit and pushed to Redis after it.  The bot moves them between
  two Redis lists while it delivers them.
- Scheduler jobs (`main.py:108-125`) run in the backend next to the requests:
  the Sunday allocation, stale move requests, old waiting entries, missed outbox
  events, repeat offers; the sheet worker is a task of its own.
- Accounts, roles, bands, concerts, lists, planning requests and settings are
  written without any lock: a request reads, decides and commits later, and the
  commits of others fall in between.
- The bot keeps the answers of a dialog in Redis and sends one request when the
  dialog is complete.  Buttons of old messages stay pressable.

What is hard, and hard to test (the test suite runs on SQLite and replaces the
lock): transactions at READ COMMITTED that read before they wait for the lock, or
take none; row locks taken before the advisory lock; crashes between commit, push
and acknowledgement; at-least-once delivery that still has to keep its order;
limits counted in sliding windows; a sheet and a database that fail separately;
conversations that overlap.  The list is in `PROJECT.json` under `hazards`, each
at its line with the properties that cover it.

## 2. The modules

```
RoomRules ──► Bookings ──────(refines)──────┐
    └───────► MoveRequests ──(refines)──────┼──► Calendar
Allocator ──► Planning ──────(refines)──────┘
              Outbox ────────(refines)─────────► Courier
Accounts  ──► Club
              Backup
              Dialogs
```

The theorems about a module stand in a module of their own, `..._proofs`, that extends
it; `Sums` has the laws of sums over finite sets that two of these need.

**`RoomRules`** has the rules of `bookings.py` and `weeks.py` as pure operators
on a settings record, a clock and the occupied slots: overlap, opening hours and
days, horizon, published weeks, the list of bookable slots, the three limits.

**`Calendar`** (abstract) is what everything else of the system may assume of the
room: a booking holds a slot or none, `Book`, `Release` and `Fill` (several new
bookings in one commit) are atomic, no two slots clash, a booking that was given
up never comes back.

**`Bookings`** has the transactions.  `pc[p]` is *idle*, *waiting* or *checked*.
`Submit...` reads the user, the rights and the memberships, which is what the
code reads before the lock; `Check` takes the lock, reads the tables and decides
(`Refuse` is the other outcome); `Commit...` writes, queues offers and releases
the lock.  `take` holds the row of its entry from the start (the `DELETE` at
`waitlist.py:102` comes before the lock), so a ban that holds the lock and wants
the row waits for it; `BreakDeadlock` is PostgreSQL's detector.  `Moderate`,
`ChangeSettings`, `Leave`, `CleanupPast`, `Deliver` and `Tick` take no lock.
`Staff` are the initial admins, who hold every permission.

**`MoveRequests`** has the same shape for asking, accepting and declining.
Withdrawing and the expiry job read without the lock and write later by primary
key, whatever the row has become.  The booking core appears as `Elsewhere`: any
step of `Calendar` by somebody else while the lock is free.  This is sound for
everything the booking core does because `Bookings` implements `Calendar`
(proved).  Who may answer for a booking and the settings are constants.

**`Courier`** (abstract): a transaction promises events; only promised events are
handled.  **`Outbox`** has the backend's and the bot's halves.  A row is *absent*,
*queued*, *lost* (rolled back), *unpublished*, *published* or *purged*.  A session
goes from *open* over *publishing* (committed) to *marking* (pushed) and back,
and the job `republish_unpublished` does the last two steps for old rows.  The
bot's loop restores, takes (`BLMOVE`), sends or marks the menus dirty, and
acknowledges (`LREM`).  A pass over the menus reads the schedule, then draws.
Every failure is an action that the constant `Faults` allows; each has a weight
and together they may not exceed `MaxFaults`.

**`Allocator`** is the greedy loop of `allocator.py` as a state machine with one
action per turn: a round for each priority, and in it the request with the least
slack first (`First`), which gets its earliest free start (`Assign`) or nothing
(`Skip`).  Written as a loop, what it promises can be stated of every state.

**`Planning`** surrounds it (`INSTANCE Allocator`) with what happens to a week:
members submit (count now, insert later) and delete requests (read now, delete by
key later); the Sunday job, an administrator and `catch_up_allocations` take the
lock, read what is pending and booked, run the allocator and publish in one
commit; a deletion in between makes the commit fail (`Break`).  The server may
crash; people book by hand and settings change meanwhile.

**`Accounts`** has entry, profile, approval, rejection, ban, soft deletion,
resubmission, roles with their permissions and scopes, and `update_limits`.  Each
operation is a pair: `Ask...` evaluates the guards of the code and stores what it
read, the action of its name commits.  What is written is what the session
believes it changes (`Written`: a column goes to the database only if it differs
from what was read; `Stripped`: a role given meanwhile survives a ban only by its
row), so two requests undo each other exactly as in the program.  `Restart`
repeats the seeding of the start.  The history variable `alone` says whether
something was committed since a request read.

**`Club`** extends it with bands, memberships, concerts and lists.  Rows deleted
are the rows that were read; foreign keys and unique constraints refuse what they
refuse in PostgreSQL (`Refused`), and an update of a row that is gone fails.

**`Backup`** has the worker that copies the schedule, its history and the
concerts to Google Sheets, call by call (write, clear, append, mark), each of
which may fail with or without effect; the loss of the database, an older dump in
its place, and the tool that restores bookings from the sheet under the lock,
with the ids they had.  Restored ids move the sequence (`LastId`).  A page is a list
of lines; what it ought to hold, what of the history goes out next and what a restore
puts back are stated by what is true of them (`ScheduleLines`, `Pending`, `Todo`).

**`Dialogs`** has the conversations of one person: the request for a week, a list
for a concert and its changes, concerts, the own history, profile and
registration.  An update arrives, is routed by the state of that moment, and is
handled later; a handler that sends a request clears the dialog only after the
answer.  A button of any keyboard ever shown may be pressed.  Any request may be
refused; one the backend cannot accept (`Acceptable`: a rehearsal longer than one of
its windows, too many windows, a concert without a title or a date) always is.
`told` and `asked` are history: what the person has answered to the newest question
since the dialog began, or None once two updates overlapped, and whether the bot
asked anything after a cancel.

## 3. What the runs check

All modules whose names start with `MC` only give values to constants.

| run | question | properties |
|---|---|---|
| `writers` | two requests create, block, take over, move; somebody waits | `BookingsInv`, `ImplementsCalendar`, `WaiterTold`, `OfferTakeable` |
| `limits` | two members of a band book, move and cancel up to three rehearsals over two days | `BandsWithinLimits` |
| `queue` | double taps, taking, leaving, deletion of the band, closed days, rejections | `EntryKept`, `WaitlistBounded` |
| `moderation` | a ban races with everything the member does | `BanReleases`, `EveryRequestAnswered` |
| `answers` | two rivals ask, the owner answers from two devices, bookings change elsewhere; or somebody asks for three bookings from two devices | `RequestsInv`, `AsksBounded`, `AnsweredOnce`, `AcceptSettles`, `ImplementsCalendar` |
| `closing` | somebody asks for two bookings; time passes, bookings go, members are banned | `EveryAskCloses` |
| `outbox` | two mild failures or one grave one, anywhere | `DeliveryInv`, `InBatchOrder`, `DeliveredOnce`, `ImplementsCourier`, `EveryPromiseKept`, `EveryChangeShown` |
| `plans` | every input of a small room | `PlanInv`, `NobodyGains` |
| `weeks` | three callers allocate one week while requests come and go and the server crashes | `WeeksInv`, `NothingPast`, `OvershootIsRaced`, `DueWeekPublished`, `ImplementsCalendar` |
| `club` | every pair of requests about accounts, roles, limits, bands, concerts, lists | `ClubInv`, `InitialAdminsKeepRole`, `RulesKeptAlone`, `NobodyRises` |
| `backup` | calls fail, the program stops, the database is lost and filled up again | `BackupInv`, `AppendedOnce`, `RestoringOnlyAdds`, `HistoryReachesSheet`, `ScheduleReachesSheet` |
| `dialogs` | any button at any time, two updates at once, refusals, restarts | `SentAsTold`, `PlanFits`, `NothingAfterCancel` |

The properties that end in `Inv` are conjunctions of named parts, the types of the state
first.  `BookingsInv` is `TypeOK /\ SafeBookings` (no two bookings clash, and what makes
that inductive, section 5); `RequestsInv` and `DeliveryInv` are the same for their
modules, the latter with `Accounted`: a committed event is still to be published, in one
of the Redis lists, or handled.  `PlanInv` has `NoClash`, `WithinWishes` and
`DailyKept`; `WeeksInv` has `RoomHeldOnce`, `AllocatedOnce` (no request gets two
bookings, and one that exists agrees with its booking) and `GivenAsAsked`, with
`SafeWeeks` that makes them inductive; `ClubInv` has `RowsBelong` (no row refers to one
that is gone, nobody is twice in a band or on a list); `BackupInv` has `RoomHeldOnce`,
`IdsAreFree` (the next id is not taken after a restore), `SyncedIsThere` (nothing is
marked that is not on the page) and `PageIsAsBelieved`.

`NobodyGains`: in every state of the allocation nobody who was served could have a
better wish, or an earlier time within theirs, everybody else keeping their place;
that is the claim of `allocator.py:8-12`.  `OvershootIsRaced`: the weekly limit of
requests is exceeded only by two submissions that overlap.  `RulesKeptAlone`: rules
that no constraint guards (one row per role and user, role names that differ by more
than case, a daily limit within the weekly, no role for the banned, some
administrator; one owner per band, who is responsible is in it; lists of closed
concerts stay) are broken only by a request that was not alone, so every service
keeps them by itself in every reachable state.  `NobodyRises` has the rules of
escalation: neither managing roles (`AdministratorsDecide`) nor moderating
(`BanIsLiftedByAdministrators`) nor a role for one group (`ScopeIsKept`) is enough.
Both speak of requests that are alone between their reading and their commit: they
check the services, over every state that races can leave behind, and not the races,
which do break these rules (section 6).
`AppendedOnce` says exactly when the history
page may hold a row twice: after a failure between the append and its mark.
`SentAsTold`: whoever waits for each answer and uses the newest keyboard gets exactly
that sent, whatever an interrupted dialog left in the data; for the weekly request this
compares band, length, purpose, windows and song.  `PlanFits`: as long as updates do not
overlap, a request for the week asks for no more than its windows hold, whatever old
keyboards are pressed.  `NothingAfterCancel`: after a cancel nothing that the backend
could accept is sent until the bot has asked again.

Bounds, and why they are enough.

- Two concurrent requests are all that is needed for every pairwise race; where
  there is a lock only one can be past its checks, and the proofs cover any
  number.  `answers` adds the job as a third.
- `Bookings`: three bookings let a takeover evict two; the slots of a run overlap
  in part, contain each other and touch (`Today`), start and end while a request
  runs (`TwoDays`, `Short`).  In `limits` three bookings of one, two and two units
  meet a weekly limit of three and a daily one of two: both ranges of today are too
  much for the day, the two long ones too much for the window until the first of them
  has begun, after which both stand.  The run fails if either limit forgets the length
  of the new booking.  One entry suffices for what concerns one waiter;
  `queue` has two for the double tap.  The step is one unit, so all times are on
  the half-hour grid.  Weekly planning is switched off in these runs: the rule for
  published weeks is in the module and the proofs cover it, but no run meets it (who
  books by hand in `weeks` is the staff, who are exempt).
- `answers` keeps, by the constraint `OneStory`, two stories of one instance with a limit
  of two open requests: two rivals for one booking, with another booking that may stand
  in the way, and the owner who answers; or one person who asks for three bookings from
  two devices, so that both the limit and the one request for each booking are at stake
  in a race (the run fails if either is not looked at, or if nobody waits for the lock).
  A mixture of the two adds requests but no new race, and the theorems need no
  constraint.  The clock of `answers` stands still and that of `closing` runs.
- `outbox`: three events in two transactions, two of them changes of the schedule;
  `Batch` is one, so that the job publishes a transaction in parts; a rollback, a
  Telegram error and a crash of the bot weigh one, everything else two, `MaxFaults`
  is two: two mild failures, or one grave one, in every position.
- `plans` enumerates all inputs of three requests of two bands with one or two
  wishes each, on two days of six quarters with a grid of two, limits that bind or
  not, and a booking off the grid.
- `weeks`: a week of two days, two requests that want the same evening, three
  bookings, one crash, a calendar that runs from the day before the deadline into
  the planned week; settings may drop a day.
- `club`: two requests from each of three clubs (a moderator for one group who may
  manage roles; the same for the whole club beside a banned newcomer; a band with two
  members and a list), an initial administrator (absent from the second club, registered
  in the others and made an administrator by the start), two groups, one ordinary role
  that exists and one to come.  Pairs of requests show every race of two; longer
  histories are covered by the starting clubs and, for `ClubInv` and
  `InitialAdminsKeepRole`, by proof.
- `backup`: two bookings out of three slots of which two overlap, a page that shows one
  of the two days, a batch of one, and either three changes and one failed call, or two
  changes, a stop and a run of the tool.
- `dialogs`: the chat holds the buttons of one or two dialogs that share keys or
  states (`MCMenus`); two bands of two members, two durations, two texts; at most
  two updates in flight.

`CHECK_DEADLOCK FALSE` stands where a bound ends a behaviour: rows, ids, requests
or days are used up, or the person writes no more.

## 4. Fairness

- `Bookings`: a request that waits for the lock gets it and runs on (strong
  fairness of `Check`/`Refuse`, of the commit and of `Unblock`): PostgreSQL
  queues the waiters of a lock and each handler is a straight line of code.
  Deadlocks are detected (weak fairness).  Nobody is assumed to make a request.
- `MoveRequests`: the scheduler runs the expiry job again and again, its commit
  does not fail for ever, and time passes.
- `Outbox`: the steps of a session, of the job and of the bot's loop happen once
  they stay possible; rows grow old; a bot that is down is started again
  (docker's restart policy).  Failures are bounded, so that "at last" means after
  the last failure.
- `Planning`: a request that has begun runs on, the scheduler runs its job, a
  server that is down is started some day.  Nobody is assumed to submit, and time
  need not pass: `DueWeekPublished` starts at a deadline that has passed.
- `Backup`: the worker goes on (weak fairness of its round), and the program is
  started again.  Calls for the page of the concerts may fail for ever.
- `Allocator`, `Accounts`, `Club`, `Dialogs`: safety only; nobody has to ask or to answer.

## 5. What is proved

Every invariant that a run checks is a theorem of its specification, and so are four
refinements and every action property but those of `Dialogs`.  The theorems hold for all
values of the constants that satisfy the assumptions named in the modules
(`RulesAssumption`, `BookingsAssumption`, `MoveRequestsAssumption`, `OutboxAssumption`,
`AllocatorAssumption`, `PlanningAssumption`, `AccountsAssumption`, `ClubAssumption`,
`BackupAssumption`): sorts of the constants, `None` not being a value, the tables a club
starts with being typed and belonging together.  TLC evaluates them in every run.

| property | theorem | module |
|---|---|---|
| `BookingsInv` | `InvariantHolds` (parts: `TypeCorrect`, `NeverBookedTwice`, `RoomBookedOnce`) | `Bookings_proofs` |
| `BandsWithinLimits`, `WaitlistBounded` | `BandsStayWithinLimits`, `ListsStayBounded` | `Bookings_proofs` |
| `EntryKept`, `BanReleases`, `WaiterTold`, `OfferTakeable` | `PlacesAreKept`, `BansRelease`, `WaitersAreTold`, `OffersCanBeTaken` | `Bookings_proofs` |
| `RequestsInv`, `AsksBounded`, `AnsweredOnce`, `AcceptSettles` | `InvariantHolds`, `LimitsHold`, `OneAnswer`, `AcceptanceSettles` | `MoveRequests_proofs` |
| `DeliveryInv`, `InBatchOrder`, `DeliveredOnce` | `InvariantHolds`, `ToldInOrder`, `NothingSentTwice` | `Outbox_proofs` |
| `PlanInv`, `NobodyGains` | `PlanSound`, `PlanIsStable` | `Allocator_proofs` |
| `WeeksInv`, `NothingPast`, `OvershootIsRaced` | `WeeksAreSafe`, `NothingPassedIsBooked`, `OvershootTakesARace` | `Planning_proofs` |
| `ClubInv`, `InitialAdminsKeepRole` | `ClubBelongsTogether`, `InitialAdminsSafe` | `Club_proofs` |
| `RulesKeptAlone`, `NobodyRises` | `AloneKeepsRules`, `AloneNobodyRises` | `Club_proofs` |
| `BackupInv`, `AppendedOnce`, `RestoringOnlyAdds` | `BackupIsSound`, `HistoryIsWrittenOnce`, `RestoringIsSafe` | `Backup_proofs` |
| `ImplementsCalendar` of `Bookings`, `MoveRequests`, `Planning` | `CoreImplementsCalendar`, `RequestsImplementCalendar`, `PlanningImplementsCalendar` | |
| `ImplementsCourier` | `OutboxImplementsCourier` | `Outbox_proofs` |

*Bookings.*  `TypeCorrect`; `NeverBookedTwice`: `Spec => []SafeBookings`; both
together `InvariantHolds`: `Spec => []BookingsInv`.
`NoDoubleBooking` alone is not inductive: a commit relies on what was read under
the lock.  `SafeBookings` adds `LockOwned` (whoever passed the checks owns the
lock), `SeenShape` (what it read and will cancel is still confirmed),
`TargetClear` (what overlaps the slot it is going to write is exactly among what
it is going to cancel or move) and `RequestShape`.  Since only the owner of the
lock writes bookings, the last three survive every other step; a commit then keeps
`NoDoubleBooking`.  `RoomBookedOnce` states the conclusion by itself.
`CoreImplementsCalendar` maps every commit to one `Book` or `Release` of
`Calendar` and every other step to a stutter, from the same invariant.
The third part, `SafeQueue`, is about the waiting list: under the lock nobody else can
raise the count that a `join` has read, so `WaitlistBounded` follows; leaving, cleaning
up and bans only lower it.  `PlacesAreKept`, `BansRelease` and `WaitersAreTold` are
about single steps and follow from the invariant, one action after another: a commit
that frees a range runs `OffersFor` on the tables it leaves, and nothing can have
changed between its check and its commit that would hide a waiter from it.

Two of the theorems have hypotheses of their own.  `OffersCanBeTaken` assumes `OnGrid`:
every range begins a whole number of half hours after the opening (`admin.py:229` keeps
the hours themselves on it).  `create_booking` only accepts listed ranges, while `join`
looks at the length only, so an entry for 10:15 would be offered and then refused; the
front ends offer whole half hours, and the theorem is the arithmetic that for these
every offer can be taken.  `BandsStayWithinLimits` assumes `NobodyPrivilegedEdits` and
`SettingsStay`: `update_booking` does not hold whoever may preempt (`bookings.priority`)
to the limits, and lowering a limit takes no booking away, so without these the property
is false of the code.  The run `limits` satisfies both.  Its inductive invariant
`Limited` says of whoever is past the checks that what it counted still leaves room
(`FitsStill`): the lock keeps others from adding, a cancellation takes away, and as time
goes on the window loses bookings and gains none, since its far end is the horizon
beyond which nobody books.  Minutes are a sum over a finite set; the library defines it
by recursion and states no laws, so `Sums` proves them (`SumAdd`, `SumSubset`,
`SumEqual`), from the smallest set that would break one.

*MoveRequests.*  `TypeCorrect`, `RequestsSafe`, both as `InvariantHolds`, `LimitsHold`,
`OneAnswer`, `AcceptanceSettles`, `RequestsImplementCalendar`.  The inductive invariant
`SafeRequests` says of whoever is about to answer that it owns the lock (`LockOwned`),
that the request was not answered (`NotYetAnswered`), that the place it is moved to is
still free (`MoveClear`), that every rival is on the list of those it closes
(`RivalsClosing`), and of whoever is about to ask that the count still allows it
(`AskFits`).  `AskFits` is the part without which `AsksBounded` is not inductive:
closing a request only lowers the count, and no other transaction can raise it while the
lock is held.

*Outbox.*  `TypeCorrect`, `DeliverySafe`, `NothingLost`, the three as `InvariantHolds`,
`OutboxImplementsCourier`, for any number of sessions, events and failures. `Accounted`
is not inductive: it does not say that whoever is about to mark rows has pushed them.
`SafeDelivery` adds this (`Pushed`, which follows the event through both lists), that
the second list holds nothing but what the loop has in hand (`OneInHand`, so that an
acknowledgement removes only what was handled), and that nothing unpromised left the
backend (`NoPhantom`).  A step of the bot keeps `Pushed` if what leaves the lists was
handled (`BotKeeps`), a step of the backend if it takes nothing out of them
(`BackendKeeps`). `ToldInOrder` looks at the line `processing \o queue`, which is what a
crash of the bot restores: of two events of a transaction the older is handled or stands
ahead in it, and nothing overtakes on the way in, because whoever pushes pushes all that
is left of a transaction in order.  `NothingSentTwice` follows from an invariant that
counts copies: while nothing has failed, an event is in one place, and the job cannot
have seen the row of a session that is not slow.

*Allocator.*  `TypesKept`, `PlacesAreGood`, `LimitKept` (together `PlanSound`) and
`PlanIsStable`, for every input.  The conjunction of `TypeOK`, `NoClash`,
`WithinWishes`, `DailyKept` and `NobodyGains` is inductive: a request is looked at once
a round, and what was full for it then stays full, because places and minutes are only
ever added.

*Planning.*  The state is that of the allocator and the tables around it.  `SafeWeeks`
says how far they agree while a plan is made: whoever allocates owns the lock; every
request of its queue is still pending and unchanged or was deleted (`QueueFits`); every
booking of the week, every hour that had passed and every closed day is known to the plan
(`RoomFits`); and the plan is sound, which is taken from `Allocator_proofs` (`INSTANCE`,
with the tables as its input).  That only deletions can happen to a request of the queue
is what makes the commit either fail or fit.  `PlanningImplementsCalendar` maps it to one
`Fill`.  `OvershootTakesARace` compares the count that a submission has read with the one
its insertion finds: it is the same unless the requests of the band changed.

*Club.*  `InitialAdminsSafe` (every registered initial administrator is approved
and holds the system role, however requests interleave and restart) and
`RolesStayWhole` (accounts are typed, the system role exists, nobody holds a role
that is gone, names differ), of `ClubSpec`, for every number of requests at once.
The invariant adds `JobsFit` to the three: what a request that is under way has
read.  A request about a ban, a rejection or a deletion has no initial
administrator as its target and one about a revocation has not their assignment,
because the guards looked; what was registered stays so and ids are not used
again (`Grows`), so this survives every commit in between.
`ClubBelongsTogether` adds the tables of bands and concerts: `CInv` has the same kind of
statement about requests for them (`ClubJobFits`) and `Together`, which every commit keeps
because what it refers to is either still there or the commit is refused.
`AloneNobodyRises` and `AloneKeepsRules` are about the commit of a request that is still
alone, and need to know what it looked at when it read.  `SInv` adds this
(`JobStands`): while a request is alone, the row it has read is the row that is stored,
and whatever allowed it (its author's permission, the roles handed out, the owner of the
band, the free name) still allows it.  It is inductive because a commit that changes
something makes every other request under way not alone and one that is refused changes
nothing; a restart adds only the system role of initial administrators, and there is
nothing to add (`InitialAdminsKeepRole`).  After that both theorems have one lemma
per operation and no interleaving left to consider.  They say nothing of requests that
overlap: §6 lists what these can do.

*Backup.*  The inductive invariant `Safe` says of the database and of its dump alike
that the room is held once and the next id is free, and of what is marked, in the dump
too, that it is on the page: the worker marks what it has just appended (`MarksThere`),
and pages only grow.  A restore is safe whatever the lines are, because `Todo` looks at
the tables and at the lines before, under the lock; ids given to lines without one lie
behind every id that is there or restored (`LastIdFacts`), so no two lines meet.  For
`AppendedOnce` the invariant follows the batch from its reading to its mark
(`HistoryInOrder`): the page is 1, 2, ... and the batch goes on where it ends.

Only model-checked:

- all liveness (`EveryRequestAnswered`, `EveryAskCloses`, `EveryPromiseKept`,
  `EveryChangeShown`, `DueWeekPublished`, `HistoryReachesSheet`, `ScheduleReachesSheet`):
  fairness and `ENABLED` are out of reach of the prover;
- `Dialogs`, whose properties speak of the whole history of a conversation.

## 6. Limits of the program that the models show

The properties above say what the code guarantees.  These are the places where
they stop, because the code does; each is behaviour of the models.

- A member banned while their `create_booking` waits for the lock still gets the
  booking: `require_approved` runs before the lock.
- `update_booking` does not look at the cap on future bookings of a band.
- `cancel` and `expire_stale` overwrite the status of a move request that was
  accepted since they read it; the move stays.
- A booking that was shortened or lengthened since a move request was made gets the
  length of the proposal when that is accepted.
- Two administrators can take the system role from each other at once; an approval,
  rejection, deletion or resubmission that read before a ban undoes it (a moderator's
  rejection overwrites the ban of an administrator, although "Moderators must not lift a
  ban by rejecting or deleting a banned/deleted user", `users.py:154`); two assignments
  of one role can both be stored, and one that comes during a ban survives it; two
  changes of the limits can leave a daily limit above the weekly one ("a day may not be
  longer than a week", `admin.py:182`).
- A band can end with no owner, or with two, when a transfer races with a removal
  or another transfer.
- Two requests for a week that are submitted at once may exceed the weekly limit; one
  that is deleted during the allocation makes that run fail, to be made up for by the
  next start or an administrator.
- A page of the sheet that a failed call has half changed stays so if the schedule is
  again what the page held before (`sheets_sync.py:235`), and a stop or a lost answer
  between an append and its mark doubles rows of the history, which the module says are
  "appended exactly once" (`sheets_sync.py:7`).
- A change of the menus is lost if the bot stops, or the pass fails, after it was
  acknowledged; the next change redraws them.
- Dialogs: an old `event_submit` sends the song and members of an earlier list with a
  newly chosen concert; "save" under one application saves the selection made for
  another; a second message in the last state of a weekly request sends it twice; the
  clearing that follows a slow answer can wipe a dialog begun meanwhile; a text taken
  before a cancel still saves a profile field; a song sent when no band is stored moves
  the state on and asks nothing (`EventSongAlone`).  Of two lengths of a rehearsal
  pressed at once, the second may be stored after a window was typed, since
  `plan_pick_duration` does not look at the state again, and two times typed at once may
  make one window too many: the backend then refuses the request, and the dialog is
  lost with the answers.  A deadline typed for a concert whose data was cleared goes out
  without a title and is refused.  The registration of a person is
  complete without a direction and a language, since `profile_completed` asks for three
  fields only.  `SentAsTold` therefore speaks of who waits for each answer and uses the
  newest keyboard, which is how the conversations are meant to be used.

## 7. Abstractions

Texts, formatting, song titles and logging are left out.  Times are counted in units
of the booking grid (in `Allocator` half of one, so that there are times off the
grid).  `Dialogs` takes the few awaits between reading and writing the data of a
handler that sends no request as one step, and leaves out menus that only show
something and answers that are refused and asked again.  A handler that sends takes its
data and sends in one step: that a cancel falls into the one round trip to Redis between
is not modelled.  What a backend refuses whatever its tables say is in `Acceptable`;
for the rest, any request may be refused.  `Accounts` and `Club` leave
out refused requests, which change nothing.  `Club` decides rights once, when the
request reads, as the code does.  `Backup` has the lock of the bookings only as the
atomicity of each booking and of the restore.  In `Planning` who may submit for a band
is not looked at; in `MoveRequests` who may answer is a constant.

## 8. Not modelled

- Repeat offers: a query of the job and one ordinary `create_booking`; their only
  state of their own is the mark that an offer was sent.
- Journal and schedule history: append-only records in the commit of the change; the
  one reader that acts on them, the sheet worker, is in `Backup`.
- HTTP routes, authentication, Mini App: no state; the services check again.
- Schema, migrations and scripts: run once, before anything is served.
- Of the bot: menus, notices about registrations, and the one-button answers to moves,
  repeats and offers, which call one service operation each.
- Of bands and concerts: a member's instrument, renaming, exports and a person's own
  history, rows that nobody else touches.

## 9. Plan

All modules of the first plan are written except repeat offers, and every invariant is
proved.  Worth doing next: the properties of `Dialogs`, `NothingAfterCancel` first; the
settings and the weekly rule of `Bookings` against those of `Planning`; the remaining
one-button handlers in `Dialogs`.
