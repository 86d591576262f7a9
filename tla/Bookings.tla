------------------------------- MODULE Bookings -------------------------------
(***************************************************************************)
(* The booking core of the backend: bookings of the one room, the waiting  *)
(* list for occupied time, and the moderation of members, at the grain of  *)
(* database transactions (app/services/bookings.py, waitlist.py, users.py, *)
(* bands.py).                                                              *)
(*                                                                         *)
(* Postgres runs at READ COMMITTED.  A request that writes bookings        *)
(*   1. reads its user, rights and memberships (Submit...), then           *)
(*   2. takes the advisory transaction lock, reads what it decides on and  *)
(*      either goes on (Check) or is refused (Refuse), and                 *)
(*   3. writes and commits, which releases the lock (Commit...).           *)
(* Everything read in step 1 may be stale in steps 2 and 3.  Settings,     *)
(* moderation other than a ban, leaving the waiting list and its cleanup   *)
(* take no lock and may commit between any two steps of a request.         *)
(*                                                                         *)
(* `Staff' are the initial admins: they hold every permission and cannot   *)
(* be moderated.  Other roles are not part of this module.                 *)
(***************************************************************************)
EXTENDS RoomRules

CONSTANTS
  Procs,            \* concurrent requests
  Users, Staff,
  Bands,
  Members,          \* [Bands -> SUBSET Users]
  Owners,           \* [Bands -> SUBSET Users]
  Muted,            \* users who switched notifications off
  Slots,            \* the ranges people ask for
  BookingIds,       \* bound: bookings ever made
  EntryIds,         \* bound: waiting-list entries ever made
  MaxEntries,       \* MAX_ENTRIES_PER_USER (5)
  SettingsChoices,  \* settings an admin may store
  MaxTime,          \* bound on the clock
  Operations,       \* the requests people make in this instance
  None

OperationNames ==
  {"create", "staff", "priority", "delete", "update", "join", "take", "ban", "deleteBand"}

ASSUME BookingsAssumption ==
  /\ Staff \subseteq Users
  /\ Members \in [Bands -> SUBSET Users]
  /\ Owners \in [Bands -> SUBSET Users]
  /\ Slots \subseteq Slot
  /\ BookingIds \subseteq Nat
  /\ EntryIds \subseteq Nat
  /\ MaxEntries \in Nat
  /\ MaxTime \in Nat
  /\ SettingsChoices \subseteq SettingsRecord
  /\ SettingsChoices # {}
  /\ Operations \subseteq OperationNames \cup {"moderate"}
  /\ None \notin Users \cup Bands \cup Procs
  /\ None \notin Slots
  /\ None \notin BookingIds \cup EntryIds

VARIABLES
  now,       \* wall clock
  settings,  \* club settings
  status,    \* account status of every user
  bands,     \* the bands that exist
  bookings,  \* table of bookings, by id
  entries,   \* table of waiting-list entries, by id; ids grow, so they are the queue order
  offers,    \* entries with an offer on its way to the bot
  lock,      \* holder of the advisory lock
  pc,        \* where every request is
  req,       \* what every request is about, with what it read before the lock
  seen       \* bookings a request read under the lock in order to overwrite them

vars == <<now, settings, status, bands, bookings, entries, offers, lock, pc, req, seen>>
data == <<settings, status, bands, bookings, entries, offers>>

Statuses == {"pending", "approved", "rejected", "banned", "deleted"}
Kinds == {"band", "personal", "staff"}

Booking ==
  [state : {"unused", "confirmed", "cancelled"}, kind : Kinds \cup {None},
   band : Bands \cup {None}, by : Users \cup {None}, slot : Slots \cup {None}]

Entry ==
  [state : {"unused", "waiting", "gone"}, user : Users \cup {None},
   band : Bands \cup {None}, slot : Slots \cup {None}]

Request ==
  [op : OperationNames \cup {None}, user : Users \cup {None}, band : Bands \cup {None},
   slot : Slots \cup {None}, id : BookingIds \cup {None}, entry : EntryIds \cup {None},
   target : Users \cup {None}, change : Kinds \cup Statuses \cup {None}]

NoRequest ==
  [op |-> None, user |-> None, band |-> None, slot |-> None, id |-> None,
   entry |-> None, target |-> None, change |-> None]

NoBooking == [state |-> "unused", kind |-> None, band |-> None, by |-> None, slot |-> None]

CancelledRow == [NoBooking EXCEPT !.state = "cancelled"]
NoEntry == [state |-> "unused", user |-> None, band |-> None, slot |-> None]
GoneEntry == [NoEntry EXCEPT !.state = "gone"]

TypeOK ==
  /\ now \in 0..MaxTime
  /\ settings \in SettingsChoices
  /\ status \in [Users -> Statuses]
  /\ bands \subseteq Bands
  /\ bookings \in [BookingIds -> Booking]
  /\ \A i \in BookingIds : bookings[i].state = "confirmed" => bookings[i].slot \in Slots
  /\ entries \in [EntryIds -> Entry]
  /\ \A e \in EntryIds : entries[e].state = "waiting" =>
       entries[e].slot \in Slots /\ entries[e].user \in Users
  /\ offers \subseteq EntryIds
  /\ lock \in Procs \cup {None}
  /\ pc \in [Procs -> {"idle", "blocked", "waiting", "checked"}]
  /\ req \in [Procs -> Request]
  /\ seen \in [Procs -> SUBSET BookingIds]

Init ==
  /\ now = 0
  /\ settings \in SettingsChoices
  /\ status = [u \in Users |-> "approved"]
  /\ bands = Bands
  /\ bookings = [i \in BookingIds |-> NoBooking]
  /\ entries = [e \in EntryIds |-> NoEntry]
  /\ offers = {}
  /\ lock = None
  /\ pc = [p \in Procs |-> "idle"]
  /\ req = [p \in Procs |-> NoRequest]
  /\ seen = [p \in Procs |-> {}]

-----------------------------------------------------------------------------
(* What the tables say *)

Approved(u) == status[u] = "approved"
Confirmed(i) == bookings[i].state = "confirmed"
ConfirmedIds == {i \in BookingIds : Confirmed(i)}
SlotsOf(ids) == {bookings[i].slot : i \in ids}
Waiting(e) == entries[e].state = "waiting"

Overlapping(s) == {i \in ConfirmedIds : Overlaps(s, bookings[i].slot)}

\* Slots of the confirmed bookings of a band, without one that is being moved.
SlotsOfBand(b, except) == SlotsOf({i \in ConfirmedIds \ except : bookings[i].band = b})

\* create_booking and waitlist.join: for a band of theirs, or personally.
MayBookFor(u, b) ==
  IF b = None THEN settings.personal ELSE b \in bands /\ u \in Members[b]

MayManageBand(u, b) == b \in bands /\ (u \in Staff \/ u \in Owners[b])

MayManageBooking(u, i) ==
  \/ u \in Staff
  \/ bookings[i].by = u
  \/ bookings[i].band # None /\ MayManageBand(u, bookings[i].band)

\* A DELETE that was sent but not committed holds the row of the entry.
RowHolders(e) ==
  {p \in Procs : req[p].op = "take" /\ req[p].entry = e /\ pc[p] \in {"waiting", "checked"}}

RowHeld(e) == RowHolders(e) # {}

-----------------------------------------------------------------------------
(* Before the lock: who asks, and what was read of them *)

Start(p, r, where) ==
  /\ pc' = [pc EXCEPT ![p] = where]
  /\ req' = [req EXCEPT ![p] = r]
  /\ UNCHANGED <<now, data, lock, seen>>

Accepts(p, op) == pc[p] = "idle" /\ op \in Operations

SubmitCreate(p) ==
  /\ Accepts(p, "create")
  /\ \E u \in Users, b \in Bands \cup {None}, s \in Slots :
       /\ Approved(u) /\ MayBookFor(u, b)
       /\ Start(p, [NoRequest EXCEPT !.op = "create", !.user = u, !.band = b, !.slot = s], "waiting")

SubmitOffice(p) ==
  \E op \in {"staff", "priority"}, u \in Staff, s \in Slots :
    /\ Accepts(p, op)
    /\ Approved(u)
    /\ Start(p, [NoRequest EXCEPT !.op = op, !.user = u, !.slot = s], "waiting")

\* Requests on bookings the user may not manage are left out: the check under
\* the lock refuses them and nothing changes.
SubmitDelete(p) ==
  /\ Accepts(p, "delete")
  /\ \E u \in Users, i \in ConfirmedIds :
       /\ Approved(u) /\ MayManageBooking(u, i)
       /\ Start(p, [NoRequest EXCEPT !.op = "delete", !.user = u, !.id = i], "waiting")

\* A new slot, a new purpose (of a booking without a band), or both.
SubmitUpdate(p) ==
  /\ Accepts(p, "update")
  /\ \E u \in Users, i \in ConfirmedIds, s \in Slots \cup {None}, k \in {"personal", "staff", None} :
       /\ Approved(u) /\ MayManageBooking(u, i)
       /\ s # None \/ k # None
       /\ Start(p, [NoRequest EXCEPT !.op = "update", !.user = u, !.id = i, !.slot = s, !.change = k],
                "waiting")

SubmitJoin(p) ==
  /\ Accepts(p, "join")
  /\ \E u \in Users, b \in Bands \cup {None}, s \in Slots :
       /\ Approved(u) /\ MayBookFor(u, b)
       /\ Start(p, [NoRequest EXCEPT !.op = "join", !.user = u, !.band = b, !.slot = s], "waiting")

\* The entry is read and deleted before create_booking takes the lock: a
\* second take of the same entry sleeps on the row until the first one ends.
SubmitTake(p) ==
  /\ Accepts(p, "take")
  /\ \E e \in EntryIds :
       LET x == entries[e] IN
       /\ Waiting(e)
       /\ Approved(x.user) /\ MayBookFor(x.user, x.band)
       /\ Start(p, [NoRequest EXCEPT !.op = "take", !.user = x.user, !.band = x.band,
                                     !.slot = x.slot, !.entry = e],
                IF RowHeld(e) THEN "blocked" ELSE "waiting")

Unblock(p) ==
  /\ pc[p] = "blocked"
  /\ ~RowHeld(req[p].entry)
  /\ pc' = [pc EXCEPT ![p] = "waiting"]
  /\ UNCHANGED <<now, data, lock, req, seen>>

\* `change' is the status the member gets: banned or (softly) deleted.
SubmitBan(p) ==
  /\ Accepts(p, "ban")
  /\ \E u \in Staff, t \in Users \ Staff, st \in {"banned", "deleted"} :
       /\ Approved(u)
       /\ Start(p, [NoRequest EXCEPT !.op = "ban", !.user = u, !.target = t, !.change = st], "waiting")

SubmitDeleteBand(p) ==
  /\ Accepts(p, "deleteBand")
  /\ \E u \in Users, b \in bands :
       /\ Approved(u) /\ MayManageBand(u, b)
       /\ Start(p, [NoRequest EXCEPT !.op = "deleteBand", !.user = u, !.band = b], "waiting")

-----------------------------------------------------------------------------
(* Under the lock: does the request pass?  The last conjunct of a request  *)
(* that inserts is the bound on ids.                                       *)

UnusedBookings == {i \in BookingIds : bookings[i].state = "unused"}
UnusedEntries == {e \in EntryIds : entries[e].state = "unused"}

\* The foreign key refuses a band that was deleted meanwhile.
CreatePasses(r) ==
  LET own == SlotsOfBand(r.band, {}) IN
  /\ r.band # None =>
       /\ r.band \in bands
       /\ BelowCap(settings, own, now)
       /\ WithinWeekly(settings, own, now, r.slot)
       /\ WithinDaily(settings, own, r.slot)
  /\ Listed(settings, r.slot, now, FALSE, SlotsOf(ConfirmedIds))
  /\ UnusedBookings # {}

StaffPasses(r) ==
  /\ Listed(settings, r.slot, now, TRUE, SlotsOf(ConfirmedIds))
  /\ UnusedBookings # {}

PriorityPasses(r) ==
  PrioritySlotValid(settings, r.slot, now) /\ UnusedBookings # {}

DeletePasses(r) ==
  /\ MayManageBooking(r.user, r.id)
  /\ Confirmed(r.id)
  /\ ~Ended(bookings[r.id].slot, now)

\* The cap on future bookings is not looked at here.
UpdatePasses(r) ==
  LET b == bookings[r.id].band
      own == SlotsOfBand(b, {r.id})
      privileged == r.user \in Staff
  IN
  /\ MayManageBooking(r.user, r.id)
  /\ Confirmed(r.id)
  /\ ~Ended(bookings[r.id].slot, now)
  /\ b # None => r.change = None
  /\ r.slot # None =>
       /\ TimeAvailable(settings, r.slot, now, privileged, SlotsOf(ConfirmedIds \ {r.id}))
       /\ b # None /\ ~privileged =>
            WithinWeekly(settings, own, now, r.slot) /\ WithinDaily(settings, own, r.slot)

EntriesOf(u) == {e \in EntryIds : Waiting(e) /\ entries[e].user = u}

\* Mistake: the limit is compared before the new entry is counted.
RoomToWaitOneMore(u) == Cardinality(EntriesOf(u)) <= MaxEntries

RoomToWait(u) == Cardinality(EntriesOf(u)) < MaxEntries

JoinPasses(r) ==
  LET blocking == Overlapping(r.slot) IN
  /\ r.band # None => r.band \in bands
  /\ RangeValid(settings, r.slot, now, FALSE)
  /\ blocking # {}
  /\ \A i \in blocking : bookings[i].kind # "staff"
  /\ \A e \in EntriesOf(r.user) : <<entries[e].band, entries[e].slot>> # <<r.band, r.slot>>
  /\ RoomToWait(r.user)
  /\ UnusedEntries # {}

Passes(r) ==
  \/ r.op \in {"create", "take"} /\ CreatePasses(r)
  \/ r.op = "staff" /\ StaffPasses(r)
  \/ r.op = "priority" /\ PriorityPasses(r)
  \/ r.op = "delete" /\ DeletePasses(r)
  \/ r.op = "update" /\ UpdatePasses(r)
  \/ r.op = "join" /\ JoinPasses(r)
  \/ r.op = "ban"
  \/ r.op = "deleteBand" /\ r.band \in bands

\* Mistake: a rehearsal in progress is not released.
PersonalNotStarted(u) ==
  {i \in ConfirmedIds : /\ bookings[i].by = u /\ bookings[i].kind = "personal"
                        /\ InFuture(bookings[i].slot, now)}

\* Bookings of a member that only they held, and bookings of a band.
PersonalOf(u) ==
  {i \in ConfirmedIds : /\ bookings[i].by = u /\ bookings[i].kind = "personal"
                        /\ ~Ended(bookings[i].slot, now)}

UpcomingOf(b) ==
  {i \in ConfirmedIds : bookings[i].band = b /\ ~Ended(bookings[i].slot, now)}

\* The rows a request reads in order to overwrite them.
Touched(r) ==
  CASE r.op = "priority" -> Overlapping(r.slot)
    [] r.op \in {"delete", "update"} -> {r.id}
    [] r.op = "ban" -> PersonalOf(r.target)
    [] r.op = "deleteBand" -> UpcomingOf(r.band)
    [] OTHER -> {}

\* Mistake: the checks are made without waiting for the lock.
CheckUnlocked(p) ==
  /\ pc[p] = "waiting"
  /\ Passes(req[p])
  /\ lock' = p
  /\ pc' = [pc EXCEPT ![p] = "checked"]
  /\ seen' = [seen EXCEPT ![p] = Touched(req[p])]
  /\ UNCHANGED <<now, data, req>>

Check(p) ==
  /\ pc[p] = "waiting"
  /\ lock = None
  /\ Passes(req[p])
  /\ lock' = p
  /\ pc' = [pc EXCEPT ![p] = "checked"]
  /\ seen' = [seen EXCEPT ![p] = Touched(req[p])]
  /\ UNCHANGED <<now, data, req>>

Answered(p) ==
  /\ pc' = [pc EXCEPT ![p] = "idle"]
  /\ req' = [req EXCEPT ![p] = NoRequest]
  /\ seen' = [seen EXCEPT ![p] = {}]

\* Mistakes: no rollback of the deleted entry; the session, and with it the
\* lock, stays open.
RefuseForgetsEntry(p) ==
  /\ pc[p] = "waiting"
  /\ lock = None
  /\ ~Passes(req[p])
  /\ Answered(p)
  /\ entries' = [e \in EntryIds |-> IF e = req[p].entry THEN GoneEntry ELSE entries[e]]
  /\ UNCHANGED <<now, settings, status, bands, bookings, offers, lock>>
RefuseKeepsLock(p) ==
  /\ pc[p] = "waiting"
  /\ lock = None
  /\ ~Passes(req[p])
  /\ Answered(p)
  /\ lock' = p
  /\ UNCHANGED <<now, data>>

\* A refusal rolls back: the lock goes and a taken entry stays on the list.
Refuse(p) ==
  /\ pc[p] = "waiting"
  /\ lock = None
  /\ ~Passes(req[p])
  /\ Answered(p)
  /\ UNCHANGED <<now, data, lock>>

\* The process dies or the client goes away: nothing was committed.
Abort(p) ==
  /\ pc[p] # "idle"
  /\ Answered(p)
  /\ lock' = IF lock = p THEN None ELSE lock
  /\ UNCHANGED <<now, data>>

-----------------------------------------------------------------------------
(* The writes, and the offers to the waiting list that go out with them *)

\* Waiters told when the slots `freed' are freed and the tables become bk, en.
TakenIn(bk) == {bk[i].slot : i \in {j \in BookingIds : bk[j].state = "confirmed"}}

\* Mistakes: only a booking that covered the whole range counts as its end;
\* the range is not checked again.
OffersForCovered(freed, bk, en) ==
  {e \in EntryIds :
     /\ en[e].state = "waiting"
     /\ \E f \in freed : f.start <= en[e].slot.start /\ f.end >= en[e].slot.end
     /\ InFuture(en[e].slot, now)
     /\ TimeAvailable(settings, en[e].slot, now, FALSE, TakenIn(bk))
     /\ en[e].user \notin Muted}
OffersForUnchecked(freed, bk, en) ==
  {e \in EntryIds :
     /\ en[e].state = "waiting"
     /\ \E f \in freed : Overlaps(f, en[e].slot)
     /\ InFuture(en[e].slot, now)
     /\ en[e].user \notin Muted}

OffersFor(freed, bk, en) ==
  {e \in EntryIds :
     /\ en[e].state = "waiting"
     /\ \E f \in freed : Overlaps(f, en[e].slot)
     /\ InFuture(en[e].slot, now)
     /\ TimeAvailable(settings, en[e].slot, now, FALSE, TakenIn(bk))
     /\ en[e].user \notin Muted}

\* COMMIT of p: new tables, the offers for what it freed, and the lock is released.
Commit(p, freed, bk, en) ==
  /\ bookings' = bk
  /\ entries' = en
  /\ offers' = offers \cup OffersFor(freed, bk, en)
  /\ lock' = None
  /\ Answered(p)

Ready(p, op) == pc[p] = "checked" /\ req[p].op = op

\* PostgreSQL sequences: the next id has never been used.
NextOf(ids) == Min(ids)

NewBooking(k, b, u, s) ==
  [state |-> "confirmed", kind |-> k, band |-> b, by |-> u, slot |-> s]

Inserted(r, k) ==
  [bookings EXCEPT ![NextOf(UnusedBookings)] = NewBooking(k, r.band, r.user, r.slot)]

\* A cancelled row stays; nothing but its state is read of it again.
Cancelled(ids) == [i \in BookingIds |-> IF i \in ids THEN CancelledRow ELSE bookings[i]]

Dropped(es) == [e \in EntryIds |-> IF e \in es THEN GoneEntry ELSE entries[e]]

KindFor(r) == IF r.band = None THEN "personal" ELSE "band"

CommitCreate(p) ==
  /\ Ready(p, "create")
  /\ Commit(p, {}, Inserted(req[p], KindFor(req[p])), entries)
  /\ UNCHANGED <<now, settings, status, bands>>

CommitStaff(p) ==
  /\ Ready(p, "staff")
  /\ Commit(p, {}, Inserted(req[p], "staff"), entries)
  /\ UNCHANGED <<now, settings, status, bands>>

\* The overlapping bookings are cancelled, whoever holds them; what is left of
\* a longer one is free again.
CommitPriority(p) ==
  /\ Ready(p, "priority")
  /\ LET r == req[p] IN
     Commit(p, SlotsOf(seen[p]),
            [Cancelled(seen[p]) EXCEPT
               ![NextOf(UnusedBookings)] = NewBooking("staff", None, r.user, r.slot)],
            entries)
  /\ UNCHANGED <<now, settings, status, bands>>

CommitDelete(p) ==
  /\ Ready(p, "delete")
  /\ Commit(p, SlotsOf(seen[p]), Cancelled(seen[p]), entries)
  /\ UNCHANGED <<now, settings, status, bands>>

CommitUpdate(p) ==
  /\ Ready(p, "update")
  /\ LET r == req[p]
         old == bookings[r.id]
         new == [old EXCEPT !.slot = IF r.slot = None THEN @ ELSE r.slot,
                            !.kind = IF r.change = None THEN @ ELSE r.change]
     IN Commit(p, {old.slot} \ {new.slot}, [bookings EXCEPT ![r.id] = new], entries)
  /\ UNCHANGED <<now, settings, status, bands>>

CommitJoin(p) ==
  /\ Ready(p, "join")
  /\ LET r == req[p] IN
     Commit(p, {}, bookings,
            [entries EXCEPT ![NextOf(UnusedEntries)] =
               [state |-> "waiting", user |-> r.user, band |-> r.band, slot |-> r.slot]])
  /\ UNCHANGED <<now, settings, status, bands>>

\* The commit of create_booking also commits the deletion of the entry.
CommitTake(p) ==
  /\ Ready(p, "take")
  /\ Commit(p, {}, Inserted(req[p], KindFor(req[p])), Dropped({req[p].entry}))
  /\ UNCHANGED <<now, settings, status, bands>>

\* Deleting the member's entries waits for the rows that takes have deleted.
CommitBan(p) ==
  /\ Ready(p, "ban")
  /\ LET t == req[p].target IN
     /\ \A e \in EntriesOf(t) : ~RowHeld(e)
     /\ Commit(p, SlotsOf(seen[p]), Cancelled(seen[p]), Dropped(EntriesOf(t)))
     /\ status' = [status EXCEPT ![t] = req[p].change]
  /\ UNCHANGED <<now, settings, bands>>

EntriesForBand(b) == {e \in EntryIds : Waiting(e) /\ entries[e].band = b}

\* The bookings of the band that ended stay as history without a band.
CommitDeleteBand(p) ==
  /\ Ready(p, "deleteBand")
  /\ LET b == req[p].band
         detached(bk) == [i \in BookingIds |->
                            IF bk[i].band = b THEN [bk[i] EXCEPT !.band = None] ELSE bk[i]]
     IN
     /\ \A e \in EntriesForBand(b) : ~RowHeld(e)
     /\ Commit(p, SlotsOf(seen[p]), detached(Cancelled(seen[p])), Dropped(EntriesForBand(b)))
     /\ bands' = bands \ {b}
  /\ UNCHANGED <<now, settings, status>>

\* A ban (or the deletion of a band) holds the advisory lock and waits for a
\* row, whose holder waits for the lock: PostgreSQL aborts one of the two.
Deadlocked(p, q) ==
  /\ pc[p] = "checked" /\ pc[q] = "waiting" /\ req[q].op = "take"
  /\ \/ req[p].op = "ban" /\ req[q].entry \in EntriesOf(req[p].target)
     \/ req[p].op = "deleteBand" /\ req[q].entry \in EntriesForBand(req[p].band)

BreakDeadlock(p) ==
  /\ \E q \in Procs : Deadlocked(p, q) \/ Deadlocked(q, p)
  /\ Abort(p)

-----------------------------------------------------------------------------
(* Transactions without the lock, the bot and the clock *)

Leave(e) ==
  /\ Waiting(e) /\ ~RowHeld(e)
  /\ entries' = Dropped({e})
  /\ UNCHANGED <<now, settings, status, bands, bookings, offers, lock, pc, req, seen>>

StartedEntries == {e \in EntryIds : Waiting(e) /\ ~InFuture(entries[e].slot, now)}

CleanupPast ==
  /\ StartedEntries # {}
  /\ \A e \in StartedEntries : ~RowHeld(e)
  /\ entries' = Dropped(StartedEntries)
  /\ UNCHANGED <<now, settings, status, bands, bookings, offers, lock, pc, req, seen>>

ChangeSettings ==
  /\ settings' \in SettingsChoices \ {settings}
  /\ UNCHANGED <<now, status, bands, bookings, entries, offers, lock, pc, req, seen>>

\* approve_user and reject_user: neither takes the lock, a rejection releases nothing.
Moderate ==
  /\ "moderate" \in Operations
  /\ \E u \in Users \ Staff, st \in {"approved", "rejected"} :
       /\ status[u] # st
       /\ status' = [status EXCEPT ![u] = st]
  /\ UNCHANGED <<now, settings, bands, bookings, entries, offers, lock, pc, req, seen>>

Deliver(e) ==
  /\ e \in offers
  /\ offers' = offers \ {e}
  /\ UNCHANGED <<now, settings, status, bands, bookings, entries, lock, pc, req, seen>>

Tick ==
  /\ now < MaxTime
  /\ now' = now + 1
  /\ UNCHANGED <<data, lock, pc, req, seen>>

-----------------------------------------------------------------------------
Submit(p) ==
  \/ SubmitCreate(p) \/ SubmitOffice(p) \/ SubmitDelete(p) \/ SubmitUpdate(p)
  \/ SubmitJoin(p) \/ SubmitTake(p) \/ SubmitBan(p) \/ SubmitDeleteBand(p)

Write(p) ==
  \/ CommitCreate(p) \/ CommitStaff(p) \/ CommitPriority(p) \/ CommitDelete(p)
  \/ CommitUpdate(p) \/ CommitJoin(p) \/ CommitTake(p) \/ CommitBan(p) \/ CommitDeleteBand(p)

Background ==
  \/ \E e \in EntryIds : Leave(e) \/ Deliver(e)
  \/ CleanupPast \/ ChangeSettings \/ Moderate \/ Tick

Next ==
  \/ \E p \in Procs :
       \/ Submit(p) \/ Unblock(p) \/ Check(p) \/ Refuse(p) \/ Write(p)
       \/ Abort(p) \/ BreakDeadlock(p)
  \/ Background

Spec == Init /\ [][Next]_vars

\* The lock and the rows are granted in the order they were asked for, and a
\* request that got them runs on; PostgreSQL looks for deadlocks on its own.
Turn(p) == Check(p) \/ Refuse(p)

Fairness ==
  \A p \in Procs : SF_vars(Turn(p)) /\ SF_vars(Write(p)) /\ SF_vars(Unblock(p)) /\ WF_vars(BreakDeadlock(p))

FairSpec == Spec /\ Fairness

-----------------------------------------------------------------------------
(* What has to hold *)

(***************************************************************************)
(* The room is never booked twice: no two confirmed bookings overlap,      *)
(* however the requests of members, staff and the priority takeover        *)
(* interleave (the reason for _lock_bookings).                             *)
(***************************************************************************)
NoDoubleBooking ==
  \A i, j \in ConfirmedIds : i # j => ~Overlaps(bookings[i].slot, bookings[j].slot)

(***************************************************************************)
(* As long as nobody privileged edits and the settings stay, a band never  *)
(* holds more than its weekly limit in the sliding window, nor more than   *)
(* its daily limit on a day, at any time and not only when it books: two   *)
(* members who book at once, and bookings that move into a fuller day,     *)
(* included.                                                               *)
(***************************************************************************)
BandsWithinLimits ==
  \A b \in bands : WithinLimits(settings, SlotsOfBand(b, {}), now)

(***************************************************************************)
(* A double tap on "wait" never puts anyone on the list twice for the same *)
(* time, nor beyond MAX_ENTRIES_PER_USER.                                  *)
(***************************************************************************)
WaitlistBounded ==
  \A u \in Users :
    LET own == EntriesOf(u) IN
    /\ Cardinality(own) <= MaxEntries
    /\ \A e, f \in own : e # f =>
         <<entries[e].band, entries[e].slot>> # <<entries[f].band, entries[f].slot>>

(***************************************************************************)
(* Whenever the last booking that stood in a waiter's way goes, by a       *)
(* cancellation, a move, a takeover, a ban or the deletion of a band, the  *)
(* same commit sends the waiter an offer, if the range can still be booked *)
(* and the waiter wants notifications (notify_freed).                      *)
(***************************************************************************)
WaiterTold ==
  [][\A e \in EntryIds :
       LET x == entries[e] IN
       /\ Waiting(e) /\ Waiting(e)'
       /\ Overlapping(x.slot) # {} /\ Overlapping(x.slot)' = {}
       /\ RangeValid(settings, x.slot, now, FALSE)
       /\ x.user \notin Muted
       => e \in offers']_vars

(***************************************************************************)
(* "Every waiter whose range is now entirely free is told in the bot and   *)
(* can take it with one tap" (waitlist.py:4-5): the commit that carries an *)
(* offer makes tables in which the waiter is still waiting, and            *)
(* create_booking finds the range among the slots of the day.  Holds for   *)
(* ranges on the half-hour grid only: joining checks less than taking.     *)
(***************************************************************************)
OfferTakeable ==
  [][\A e \in offers' \ offers :
       /\ Waiting(e)'
       /\ Listed(settings, entries[e].slot, now, FALSE, SlotsOf(ConfirmedIds))']_vars

(***************************************************************************)
(* Nobody loses a place in the queue by trying to take the time: an entry  *)
(* goes with a successful booking of its range only, unless its owner      *)
(* leaves, its time starts, its owner is banned or its band is deleted.    *)
(***************************************************************************)
EntryKept ==
  [][\A e \in EntryIds :
       LET x == entries[e] IN
       Waiting(e) /\ ~Waiting(e)' =>
         \/ Leave(e)
         \/ ~InFuture(x.slot, now)
         \/ status'[x.user] \in {"banned", "deleted"}
         \/ x.band # None /\ x.band \notin bands'
         \/ \E i \in UnusedBookings :
              /\ bookings'[i].state = "confirmed" /\ bookings'[i].by = x.user
              /\ bookings'[i].slot = x.slot /\ bookings'[i].band = x.band]_vars

\* What only the member holds: personal rehearsals that did not end, places in the queue.
Holds(u) ==
  \/ \E i \in ConfirmedIds :
       bookings[i].by = u /\ bookings[i].kind = "personal" /\ bookings[i].slot.end > now
  \/ \E e \in EntryIds : Waiting(e) /\ entries[e].user = u

(***************************************************************************)
(* The commit that bans or deletes a member leaves nothing in the member's *)
(* hands, whatever was booked while the ban waited for the lock.           *)
(***************************************************************************)
BanReleases ==
  [][\A u \in Users :
       status'[u] \in {"banned", "deleted"} /\ status'[u] # status[u] => ~Holds(u)']_vars

(***************************************************************************)
(* Every request is answered: the lock is always released, and a ban and a *)
(* take that wait for each other are told apart by PostgreSQL.             *)
(***************************************************************************)
EveryRequestAnswered == \A p \in Procs : pc[p] # "idle" ~> pc[p] = "idle"

(***************************************************************************)
(* The transactions implement the calendar: every commit is one step of it *)
(* and everything else a stutter.                                          *)
(***************************************************************************)
Booked == [i \in BookingIds |-> IF Confirmed(i) THEN bookings[i].slot ELSE None]
GivenUp == {i \in BookingIds : bookings[i].state = "cancelled"}

Abstract == INSTANCE Calendar WITH Ids <- BookingIds, held <- Booked, gone <- GivenUp

(* Every behaviour of the core is one of the calendar of a single room.    *)
ImplementsCalendar == Abstract!Spec

-----------------------------------------------------------------------------
(* The inductive invariant behind NoDoubleBooking.  A request that passed  *)
(* its checks owns the lock, and what overlaps the slot it is going to     *)
(* write is what it is going to cancel or move.                            *)

Inserting == {"create", "take", "staff", "priority"}
Placing == Inserting \cup {"update"}

\* What the requests of an operation always come with.
Shaped(r) ==
  /\ r.op \in Inserting \cup {"join"} => r.slot \in Slots
  /\ r.op \in {"join", "take"} => r.user \in Users
  /\ r.op = "staff" => r.band = None
  /\ r.op = "take" => r.entry \in EntryIds
  /\ r.op \in {"delete", "update"} => r.id \in BookingIds
  /\ r.op = "update" => r.change \in Kinds \cup {None}
  /\ r.op = "ban" => r.target \in Users /\ r.change \in {"banned", "deleted"}
  /\ r.op = "deleteBand" => r.band \in Bands

RequestShape == \A p \in Procs : pc[p] # "idle" => Shaped(req[p])

LockOwned == \A p \in Procs : pc[p] = "checked" => lock = p

SeenShape ==
  \A p \in Procs : pc[p] = "checked" =>
    /\ seen[p] \subseteq ConfirmedIds
    /\ req[p].op \in {"create", "take", "staff", "join"} => seen[p] = {}
    /\ req[p].op \in {"delete", "update"} => seen[p] = {req[p].id}
    /\ req[p].op \in Inserting => UnusedBookings # {}

TargetClear ==
  \A p \in Procs :
    pc[p] = "checked" /\ req[p].op \in Placing /\ req[p].slot # None
      => Overlapping(req[p].slot) \subseteq seen[p]

(* NoDoubleBooking with what makes it inductive; checked before it is      *)
(* proved in Bookings_proofs.                                              *)
SafeBookings == RequestShape /\ NoDoubleBooking /\ LockOwned /\ SeenShape /\ TargetClear

\* A take carries what its entry says, which nobody changes while it waits.
TakeMatches ==
  \A p \in Procs : pc[p] # "idle" /\ req[p].op = "take" =>
    LET x == entries[req[p].entry] IN
    /\ x.state # "unused"
    /\ x.state = "waiting" =>
         <<x.user, x.band, x.slot>> = <<req[p].user, req[p].band, req[p].slot>>

\* The list of a member who passed the checks of joining still has room.
JoinFits ==
  \A p \in Procs : pc[p] = "checked" /\ req[p].op = "join" =>
    /\ RoomToWait(req[p].user) /\ UnusedEntries # {}
    /\ \A e \in EntriesOf(req[p].user) :
         <<entries[e].band, entries[e].slot>> # <<req[p].band, req[p].slot>>

\* A ban read every booking that it has to release.
BanSees ==
  \A p \in Procs : pc[p] = "checked" /\ req[p].op = "ban" => PersonalOf(req[p].target) \subseteq seen[p]

(* WaitlistBounded, and what the commits of a take and of a ban rely on,   *)
(* with what makes them inductive.                                         *)
SafeQueue ==
  /\ WaitlistBounded /\ JoinFits /\ TakeMatches /\ BanSees
  /\ \A u \in Users : IsFiniteSet(EntriesOf(u))

(* What the run "writers" and the proofs are about: the state is typed, no *)
(* two bookings clash, the waiting list stays within its limits, and       *)
(* whoever passed the checks under the lock still may do what it is going  *)
(* to do when it commits (bookings.py:106).                                *)
BookingsInv == TypeOK /\ SafeBookings /\ SafeQueue

-----------------------------------------------------------------------------
(* What makes BandsWithinLimits inductive.  The window of the weekly limit *)
(* slides with the clock: time alone may bring bookings into it, unless    *)
(* those of bands are never beyond it.                                     *)

BandSlot(s) == s.end > s.start /\ WithinHorizon(s, now)

Fits(b, except, s) ==
  LET own == SlotsOfBand(b, except) IN
  BandSlot(s) /\ WithinWeekly(settings, own, now, s) /\ WithinDaily(settings, own, s)

\* Whoever passed the checks for a band may still book when it commits.
FitsStill ==
  \A p \in Procs : pc[p] = "checked" =>
    LET r == req[p] IN
    /\ r.op \in {"create", "take"} /\ r.band # None => Fits(r.band, {}, r.slot)
    /\ r.op = "update" /\ r.slot # None /\ bookings[r.id].band # None =>
         Fits(bookings[r.id].band, {r.id}, r.slot)

PlainEditors == \A p \in Procs : pc[p] # "idle" /\ req[p].op = "update" => req[p].user \notin Staff

SafeLimits ==
  /\ BandsWithinLimits /\ FitsStill /\ PlainEditors
  /\ IsFiniteSet(ConfirmedIds)
  /\ \A i \in ConfirmedIds : bookings[i].band # None => BandSlot(bookings[i].slot)
=============================================================================
