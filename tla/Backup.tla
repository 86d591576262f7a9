-------------------------------- MODULE Backup --------------------------------
(***************************************************************************)
(* The copy of the schedule, its history and the concerts that is kept in  *)
(* Google Sheets (app/services/sheets_sync.py), and the tool that puts     *)
(* lost bookings back from it (app/tools/restore_from_sheets.py).          *)
(*                                                                         *)
(* A worker copies in rounds.  Every call to Google may fail, before or    *)
(* after it took effect; a failed round ends at once and the next one      *)
(* comes later.  A round begins when somebody asks for it or when          *)
(* POLL_SECONDS have passed; as it may always begin, the wake-up itself is *)
(* not modelled.                                                           *)
(*                                                                         *)
(* The database may be lost and replaced by an older dump of it, with the  *)
(* program stopped, as README.md tells the operator to.                    *)
(***************************************************************************)
EXTENDS Integers, FiniteSets, Sequences

CONSTANTS
  BookingIds,   \* bound: ids 1 .. n of bookings
  Slots,        \* day, start and end
  Bands,
  People,
  Responsible,  \* who is responsible for a band
  Founders,     \* who is registered in the beginning
  Holders,      \* bands, or None for a personal booking, with an author
  AddedLines,   \* lines somebody may have added to a copy of the sheet
  WeekDays,     \* days in a week (7)
  Horizon,      \* SCHEDULE_HORIZON_DAYS
  Batch,        \* HISTORY_BATCH
  Budgets,      \* bounds on changes, on failed calls for the schedule and its
                \* history, on stops of the program and on runs of the tool
  MaxDay,       \* bound on time
  None

VARIABLES
  db,        \* bookings, the last id given out, who is registered, the number
             \* of history rows and which of them are marked as synced
  concerts,  \* how many lines the list of concerts has
  day,       \* today
  dump,      \* a copy of the database, or None
  sheet,     \* the lines of the two pages that are rewritten
  history,   \* the page that is appended to
  digest,    \* what the worker believes to be on a page, or None
  pc,        \* where the worker is
  page,      \* and on which of the two pages
  held,      \* what it has read
  tool,      \* the lines the restoring tool has read and when, or None
  damaged,   \* pages a failed call has changed, since they were last written
  uncertain, \* whether a row of the history may be on the page twice
  left       \* what is left of the budget

worker == <<digest, pc, page, held>>
pages == <<sheet, history, damaged, uncertain>>
vars == <<db, concerts, day, dump, pages, worker, tool, left>>

Pages == {"schedule", "events"}
Booking == [slot : Slots, band : Bands \cup {None}, author : People, confirmed : BOOLEAN]
Line == [id : BookingIds \cup {None}, slot : Slots, band : Bands \cup {None}, author : People]
Database ==
  [bookings : [BookingIds -> Booking \cup {None}], last : BookingIds \cup {0},
   known : SUBSET (Bands \cup People), made : Nat, synced : SUBSET Nat]

Fit(lines, g) == lines \in IF g = "schedule" THEN Seq(Line) ELSE Seq(Nat)

ASSUME BackupAssumption ==
  /\ IsFiniteSet(BookingIds) /\ BookingIds = 1 .. Cardinality(BookingIds)
  /\ Slots \subseteq [day : Nat, start : Nat, end : Nat] /\ \A s \in Slots : s.start < s.end
  /\ None \notin BookingIds \cup Bands \cup People \cup Booking
  /\ Responsible \in [Bands -> People]
  /\ Founders \subseteq Bands \cup People
  /\ Holders \subseteq [band : Bands \cup {None}, author : People]
  /\ AddedLines \subseteq Line
  /\ Batch \in Nat \ {0} /\ MaxDay \in Nat

TypeOK ==
  /\ db \in Database
  /\ concerts \in Nat /\ day \in 0 .. MaxDay
  /\ dump \in Database \cup {None}
  /\ DOMAIN sheet = Pages /\ \A g \in Pages : Fit(sheet[g], g)
  /\ history \in Seq(Nat)
  /\ DOMAIN digest = Pages /\ \A g \in Pages : digest[g] = None \/ Fit(digest[g], g)
  /\ pc \in {"stopped", "waits", "reads", "writes", "clears", "history", "appends", "marks"}
  /\ page \in Pages
  /\ pc \in {"writes", "clears"} => Fit(held, page)
  /\ pc \in {"appends", "marks"} => held \in Seq(Nat)
  /\ tool \in [lines : Seq(Line), now : 0 .. MaxDay] \cup {None}
  /\ damaged \subseteq Pages /\ uncertain \in BOOLEAN

-----------------------------------------------------------------------------
(* What the pages ought to hold                                            *)

Overlap(s, t) == s.day = t.day /\ s.start < t.end /\ s.end > t.start
WeekStart(d) == d - (d % WeekDays)

Stored == {i \in BookingIds : db.bookings[i] # None}
Confirmed == {i \in Stored : db.bookings[i].confirmed}

LineOf(i) ==
  [id |-> i, slot |-> db.bookings[i].slot, band |-> db.bookings[i].band, author |-> db.bookings[i].author]

Earlier(i, j) ==
  LET s == db.bookings[i].slot
      t == db.bookings[j].slot
  IN  \/ s.day < t.day
      \/ s.day = t.day /\ s.start < t.start
      \/ s.day = t.day /\ s.start = t.start /\ i < j

Shown ==
  {i \in Confirmed :
     WeekStart(day) <= db.bookings[i].slot.day /\ db.bookings[i].slot.day <= day + Horizon}

\* This week and the days of the horizon, in the order of time: there is one
\* such list.
ScheduleLines ==
  {[k \in 1 .. Cardinality(Shown) |-> LineOf(ids[k])] :
     ids \in {f \in [1 .. Cardinality(Shown) -> Shown] :
                \A j, k \in 1 .. Cardinality(Shown) : j < k => Earlier(f[j], f[k])}}

LinesOf(g) == IF g = "schedule" THEN ScheduleLines ELSE {[k \in 1 .. concerts |-> k]}

Unsynced == (1 .. db.made) \ db.synced

\* The new lines over the old ones, before what is left of these is cleared.
Over(new, old) == new \o SubSeq(old, Len(new) + 1, Len(old))

Elements(list) == {list[k] : k \in 1 .. Len(list)}

-----------------------------------------------------------------------------
(* What the rest of the program and time do                                *)

Changes ==
  /\ pc # "stopped" /\ left.changes > 0
  /\ left' = [left EXCEPT !.changes = @ - 1]
  /\ UNCHANGED <<day, dump, pages, worker, tool>>

Known(line) == (line.band = None \/ line.band \in db.known) /\ line.author \in db.known
FreeSlot(s) == \A i \in Confirmed : ~Overlap(db.bookings[i].slot, s)

\* A booking that is made or cancelled leaves one row in the history.
Book ==
  /\ Changes
  /\ db.last + 1 \in BookingIds
  /\ \E s \in Slots, h \in Holders :
       LET booking == [slot |-> s, band |-> h.band, author |-> h.author, confirmed |-> TRUE]
       IN  /\ s.day >= day /\ FreeSlot(s) /\ Known(booking)
           /\ db' = [db EXCEPT !.bookings[db.last + 1] = booking, !.last = @ + 1, !.made = @ + 1]
  /\ UNCHANGED concerts

Cancel ==
  /\ Changes
  /\ \E i \in Confirmed :
       /\ db.bookings[i].slot.day >= day
       /\ db' = [db EXCEPT !.bookings[i].confirmed = FALSE, !.made = @ + 1]
  /\ UNCHANGED concerts

ChangeConcerts ==
  /\ Changes
  /\ concerts' \in {concerts + 1} \cup (0 .. concerts - 1)
  /\ UNCHANGED db

\* A person, or a band with the person responsible for it, is registered.
Register ==
  /\ Changes
  /\ \E x \in (Bands \cup People) \ db.known :
       db' = [db EXCEPT !.known = @ \cup {x} \cup (IF x \in Bands THEN {Responsible[x]} ELSE {})]
  /\ UNCHANGED concerts

NextDay ==
  /\ day < MaxDay
  /\ day' = day + 1
  /\ UNCHANGED <<db, concerts, dump, pages, worker, tool, left>>

\* The backup of the database.
Dump ==
  /\ dump = None /\ left.stops > 0
  /\ dump' = db
  /\ UNCHANGED <<db, concerts, day, pages, worker, tool, left>>

Stop ==
  /\ pc # "stopped" /\ left.stops > 0
  /\ left' = [left EXCEPT !.stops = @ - 1]
  /\ pc' = "stopped" /\ held' = <<>> /\ digest' = [g \in Pages |-> None]
  /\ uncertain' = (uncertain \/ pc = "marks")
  /\ UNCHANGED <<db, concerts, day, dump, sheet, history, damaged, page, tool>>

Begin ==
  /\ pc = "stopped"
  /\ pc' = "waits"
  /\ UNCHANGED <<db, concerts, day, dump, pages, digest, page, held, tool, left>>

\* The database is lost and the dump is put in its place.
Lose ==
  /\ pc = "stopped" /\ dump # None
  /\ db' = dump /\ dump' = None
  /\ uncertain' = TRUE
  /\ UNCHANGED <<concerts, day, sheet, history, damaged, worker, tool, left>>

-----------------------------------------------------------------------------
(* A round of the worker                                                   *)

Outside == <<db, concerts, day, dump, tool>>

\* Mistake: the concerts come before the history.
StageAfterConcerts(done) ==
  CASE done = "waits"    -> "schedule"
    [] done = "schedule" -> "events"
    [] done = "events"   -> "history"
    [] done = "history"  -> "waits"

\* After the schedule comes its history, after that the concerts.
StageAfter(done) ==
  CASE done = "waits"    -> "schedule"
    [] done = "schedule" -> "history"
    [] done = "history"  -> "events"
    [] done = "events"   -> "waits"

GoesOnAfter(done) ==
  LET stage == StageAfter(done)
  IN  IF stage \in Pages THEN pc' = "reads" /\ page' = stage ELSE pc' = stage /\ UNCHANGED page

Wake ==
  /\ pc = "waits"
  /\ GoesOnAfter("waits")
  /\ UNCHANGED <<Outside, pages, digest, held, left>>

\* Mistake: only the number of lines is compared.
ReadPageByLength ==
  /\ pc = "reads"
  /\ \E lines \in LinesOf(page) :
       \/ digest[page] # None /\ Len(lines) = Len(digest[page]) /\ GoesOnAfter(page) /\ UNCHANGED held
       \/ ~(digest[page] # None /\ Len(lines) = Len(digest[page])) /\ pc' = "writes" /\ held' = lines /\ UNCHANGED page
  /\ UNCHANGED <<Outside, pages, digest, left>>

ReadPage ==
  /\ pc = "reads"
  /\ \E lines \in LinesOf(page) :
       \/ lines = digest[page] /\ GoesOnAfter(page) /\ UNCHANGED held
       \/ lines # digest[page] /\ pc' = "writes" /\ held' = lines /\ UNCHANGED page
  /\ UNCHANGED <<Outside, pages, digest, left>>

WriteLines ==
  /\ pc = "writes"
  /\ sheet' = [sheet EXCEPT ![page] = Over(held, @)]
  /\ pc' = "clears"
  /\ UNCHANGED <<Outside, history, damaged, uncertain, digest, page, held, left>>

ClearRest ==
  /\ pc = "clears"
  /\ sheet' = [sheet EXCEPT ![page] = held]
  /\ digest' = [digest EXCEPT ![page] = held]
  /\ damaged' = damaged \ {page}
  /\ GoesOnAfter(page) /\ held' = <<>>
  /\ UNCHANGED <<Outside, history, uncertain, left>>

BatchSize == IF Cardinality(Unsynced) < Batch THEN Cardinality(Unsynced) ELSE Batch

\* Mistake: the latest rows come first.
PendingLatest ==
  {rows \in [1 .. BatchSize -> Unsynced] :
     /\ \A j, k \in 1 .. BatchSize : j < k => rows[j] > rows[k]
     /\ \A r \in Unsynced : (\E k \in 1 .. BatchSize : rows[k] = r) \/ \A k \in 1 .. BatchSize : rows[k] > r}

\* The rows that are not marked, oldest first, as many as go out at once.
Pending ==
  {rows \in [1 .. BatchSize -> Unsynced] :
     /\ \A j, k \in 1 .. BatchSize : j < k => rows[j] < rows[k]
     /\ \A r \in Unsynced : (\E k \in 1 .. BatchSize : rows[k] = r) \/ \A k \in 1 .. BatchSize : rows[k] < r}

ReadHistory ==
  /\ pc = "history"
  /\ IF Unsynced = {} THEN GoesOnAfter("history") /\ UNCHANGED held
     ELSE pc' = "appends" /\ held' \in Pending /\ UNCHANGED page
  /\ UNCHANGED <<Outside, pages, digest, left>>

AppendRows ==
  /\ pc = "appends"
  /\ history' = history \o held
  /\ pc' = "marks"
  /\ UNCHANGED <<Outside, sheet, damaged, uncertain, digest, page, held, left>>

Mark ==
  /\ pc = "marks"
  /\ db' = [db EXCEPT !.synced = @ \cup Elements(held)]
  /\ GoesOnAfter("history") /\ held' = <<>>
  /\ UNCHANGED <<concerts, day, dump, tool, pages, digest, left>>

\* A call fails: the round is over.  What the call was to do may have been
\* done.  The calls for the concerts may fail for ever.
Fails == left.failures > 0 /\ left' = [left EXCEPT !.failures = @ - 1]

FailPage ==
  /\ pc \in {"writes", "clears"}
  /\ \/ page = "events" /\ UNCHANGED left
     \/ page = "schedule" /\ Fails
  /\ sheet' \in {sheet, [sheet EXCEPT ![page] = IF pc = "writes" THEN Over(held, @) ELSE held]}
  /\ damaged' = IF pc = "clears" \/ sheet' # sheet THEN damaged \cup {page} ELSE damaged
  /\ pc' = "waits" /\ held' = <<>>
  /\ UNCHANGED <<Outside, history, uncertain, digest, page>>

FailHistory ==
  /\ pc \in {"appends", "marks"}
  /\ Fails
  /\ history' \in (IF pc = "appends" THEN {history, history \o held} ELSE {history})
  /\ uncertain' = (uncertain \/ pc = "marks" \/ history' # history)
  /\ pc' = "waits" /\ held' = <<>>
  /\ UNCHANGED <<Outside, sheet, damaged, digest, page>>

Round ==
  \/ Wake
  \/ ReadPage \/ WriteLines \/ ClearRest \/ FailPage
  \/ ReadHistory \/ AppendRows \/ Mark \/ FailHistory

-----------------------------------------------------------------------------
(* The tool that restores bookings                                         *)

\* A line whose booking is on a line above is left out.
Parsed(lines) ==
  {k \in 1 .. Len(lines) : lines[k].id = None \/ \A j \in 1 .. (k - 1) : lines[j].id # lines[k].id}

\* The sheet is read, or a copy of it to which somebody added a line.
ReadSheet ==
  /\ tool = None /\ left.tools > 0
  /\ left' = [left EXCEPT !.tools = @ - 1]
  /\ \E added \in {<<>>} \cup {<<line>> : line \in AddedLines} :
       tool' = [lines |-> sheet["schedule"] \o added, now |-> day]
  /\ UNCHANGED <<db, concerts, day, dump, pages, worker>>

\* Mistake: it is not looked whether the database has the booking.
WantedAlways(d, line, now) ==
  /\ line.slot.day >= now
  /\ line.band \in d.known \/ (line.band = None /\ line.author \in d.known)

\* A booking the database does not have, that is not over, of a band that is
\* there, or of a person who is there.
Wanted(d, line, now) ==
  /\ line.id = None \/ d.bookings[line.id] = None
  /\ line.slot.day >= now
  /\ line.band \in d.known \/ (line.band = None /\ line.author \in d.known)

Taken(d, slot) ==
  \E i \in BookingIds : d.bookings[i] # None /\ d.bookings[i].confirmed /\ Overlap(slot, d.bookings[i].slot)

\* Mistake: the lines are compared with the database, but not with each other.
TodoAtOnce(d, lines, now, todo) ==
  \A k \in Parsed(lines) : k \in todo <=> Wanted(d, lines[k], now) /\ ~Taken(d, lines[k].slot)

\* What is restored: the lines that are wanted, one after another, if the time
\* is still free.
Todo(d, lines, now, todo) ==
  \A k \in Parsed(lines) :
    k \in todo <=>
      /\ Wanted(d, lines[k], now)
      /\ ~Taken(d, lines[k].slot)
      /\ \A j \in todo : j < k => ~Overlap(lines[k].slot, lines[j].slot)

\* Whoever is not there any more is replaced by the person responsible for
\* the band.
Restored(line) ==
  [slot |-> line.slot, band |-> line.band, confirmed |-> TRUE,
   author |-> IF line.author \in db.known THEN line.author ELSE Responsible[line.band]]

\* Bookings restored with their ids do not move the counter of ids, so that
\* it is set to the largest.
LastId(keyed) == IF keyed = {} THEN db.last ELSE CHOOSE n \in Stored \cup keyed : \A m \in Stored \cup keyed : m <= n

\* The booking of every line of `todo': lines without an id get the next ones.
IdOf(todo, last) ==
  LET keyless == {k \in todo : tool.lines[k].id = None}
  IN  [k \in todo |-> IF k \in keyless THEN last + Cardinality({j \in keyless : j <= k}) ELSE tool.lines[k].id]

\* One transaction under the lock of the bookings, for which the lines are
\* looked at again.
Restore ==
  /\ tool # None
  /\ \E todo \in SUBSET Parsed(tool.lines) :
       LET keyless == {k \in todo : tool.lines[k].id = None}
           last == LastId({tool.lines[k].id : k \in todo \ keyless})
           idOf == IdOf(todo, last)
       IN  /\ Todo(db, tool.lines, tool.now, todo)
           /\ last + Cardinality(keyless) \in BookingIds \cup {0}
           /\ db' = [db EXCEPT
                       !.bookings = [i \in BookingIds |->
                                       IF \E k \in todo : idOf[k] = i
                                       THEN Restored(tool.lines[CHOOSE k \in todo : idOf[k] = i]) ELSE @[i]],
                       !.last = last + Cardinality(keyless),
                       !.made = @ + Cardinality(todo)]
  /\ tool' = None
  /\ UNCHANGED <<concerts, day, dump, pages, worker, left>>

-----------------------------------------------------------------------------
Init ==
  /\ db = [bookings |-> [i \in BookingIds |-> None], last |-> 0, known |-> Founders, made |-> 0, synced |-> {}]
  /\ concerts = 0 /\ day = 0 /\ dump = None
  /\ sheet = [g \in Pages |-> <<>>] /\ history = <<>>
  /\ digest = [g \in Pages |-> None] /\ pc = "waits" /\ page = "schedule" /\ held = <<>>
  /\ tool = None
  /\ damaged = {} /\ uncertain = FALSE
  /\ left \in Budgets

Next ==
  \/ Book \/ Cancel \/ ChangeConcerts \/ Register \/ NextDay
  \/ Dump \/ Stop \/ Begin \/ Lose
  \/ Round
  \/ ReadSheet \/ Restore

Spec == Init /\ [][Next]_vars

\* The worker goes on, and the program is started again.
FairSpec == Spec /\ WF_vars(Round) /\ WF_vars(Begin)

-----------------------------------------------------------------------------
(* Properties                                                              *)

\* Whatever is restored from whatever lines, the room is held once.
RoomHeldOnce ==
  \A i, j \in Confirmed : i # j => ~Overlap(db.bookings[i].slot, db.bookings[j].slot)

\* The next booking gets an id that is not taken.
IdsAreFree == \A i \in Stored : i <= db.last

\* What is marked as synced is on the page, whenever the program stopped.
SyncedIsThere == db.synced \subseteq Elements(history)

\* A page holds what the worker believes, unless it is just being written or
\* a call for it failed that had changed it.
PageIsAsBelieved ==
  \A g \in Pages :
    digest[g] # None /\ ~(pc = "clears" /\ page = g) /\ g \notin damaged => sheet[g] = digest[g]

\* Wherever a call fails or the program stops, and whatever is restored: the
\* state is typed, the room is held once and the next id is free, nothing is
\* marked that is not on the page, and the worker knows what a page holds.
BackupInv == TypeOK /\ RoomHeldOnce /\ IdsAreFree /\ SyncedIsThere /\ PageIsAsBelieved

\* Every change is on the page once and in the order in which it was made,
\* unless a call failed or the program stopped between the writing and the
\* marking, or the database was lost.
AppendedOnce == ~uncertain => history = [k \in 1 .. Len(history) |-> k]

\* Restoring changes no booking that is there, leaves out no line but for a
\* reason it reports, and finds nothing to do when it is run again.
RestoringOnlyAdds ==
  [][tool # None /\ tool' = None =>
       /\ \A i \in Stored : db'.bookings[i] = db.bookings[i]
       /\ Todo(db', tool.lines, tool.now, {})
       /\ \A k \in Parsed(tool.lines) :
            ~Wanted(db, tool.lines[k], tool.now) \/ Taken(db', tool.lines[k].slot)]_vars

\* If the schedule does not change any more, all of its history gets to the
\* sheet, even if the page of the concerts can never be written.
HistoryReachesSheet == <>[](db.synced = 1 .. db.made)

\* If the schedule does not change any more, its page follows; except that a
\* page which a failed call has changed stays as it is if the schedule is
\* again what the page had held before.
ScheduleReachesSheet ==
  <>[](\/ sheet["schedule"] \in ScheduleLines
       \/ "schedule" \in damaged /\ digest["schedule"] \in ScheduleLines)

=============================================================================
