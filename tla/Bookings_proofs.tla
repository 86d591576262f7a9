--------------------------- MODULE Bookings_proofs ---------------------------
(***************************************************************************)
(* What holds of the booking core for every number of requests, users,     *)
(* bands, ranges and bookings: it is typed, and the room is never booked   *)
(* twice.                                                                  *)
(***************************************************************************)
EXTENDS Bookings, Sums, WellFoundedInduction

-----------------------------------------------------------------------------
(* Types *)

Typed == TypeOK /\ RequestShape

(* The initial state is typed.                                             *)
LEMMA TypedInit == Init => Typed
<1> SUFFICES ASSUME Init PROVE Typed
  OBVIOUS
<1> USE BookingsAssumption
<1>1. /\ NoRequest \in Request
      /\ NoBooking \in Booking /\ NoBooking.state # "confirmed"
      /\ NoEntry \in Entry /\ NoEntry.state # "waiting"
  BY DEF NoRequest, Request, NoBooking, Booking, NoEntry, Entry
<1>2. TypeOK
  BY <1>1 DEF Init, TypeOK, Statuses
<1>3. RequestShape
  BY DEF Init, RequestShape
<1> QED BY <1>2, <1>3 DEF Typed

(* A request that is taken in, whoever makes it, keeps the types.          *)
LEMMA StartTyped ==
  ASSUME Typed, NEW p \in Procs, NEW r \in Request, NEW where \in {"blocked", "waiting"},
         Start(p, r, where), Shaped(r)
  PROVE  Typed'
<1>1. TypeOK'
  BY DEF Typed, TypeOK, Start, data
<1>2. RequestShape'
  BY DEF Typed, TypeOK, RequestShape, Start, data
<1> QED BY <1>1, <1>2 DEF Typed

LEMMA SubmitTyped ==
  ASSUME Typed, NEW p \in Procs, Submit(p)
  PROVE  Typed'
<1> USE DEF NoRequest, Request, OperationNames
<1>1. CASE SubmitCreate(p)
  <2>1. PICK u \in Users, b \in Bands \cup {None}, s \in Slots :
          Start(p, [NoRequest EXCEPT !.op = "create", !.user = u, !.band = b, !.slot = s], "waiting")
    BY <1>1 DEF SubmitCreate
  <2> QED BY <2>1, StartTyped DEF Shaped, Inserting
<1>2. CASE SubmitOffice(p)
  <2>1. PICK op \in {"staff", "priority"}, u \in Staff, s \in Slots :
          Start(p, [NoRequest EXCEPT !.op = op, !.user = u, !.slot = s], "waiting")
    BY <1>2 DEF SubmitOffice
  <2> QED BY <2>1, StartTyped, BookingsAssumption DEF Shaped, Inserting
<1>3. CASE SubmitDelete(p)
  <2>1. PICK u \in Users, i \in ConfirmedIds :
          Start(p, [NoRequest EXCEPT !.op = "delete", !.user = u, !.id = i], "waiting")
    BY <1>3 DEF SubmitDelete
  <2> QED BY <2>1, StartTyped DEF ConfirmedIds, Shaped, Inserting
<1>4. CASE SubmitUpdate(p)
  <2>1. PICK u \in Users, i \in ConfirmedIds, s \in Slots \cup {None}, k \in {"personal", "staff", None} :
          Start(p, [NoRequest EXCEPT !.op = "update", !.user = u, !.id = i, !.slot = s, !.change = k],
                "waiting")
    BY <1>4 DEF SubmitUpdate
  <2> QED BY <2>1, StartTyped DEF ConfirmedIds, Kinds, Shaped, Inserting
<1>5. CASE SubmitJoin(p)
  <2>1. PICK u \in Users, b \in Bands \cup {None}, s \in Slots :
          Start(p, [NoRequest EXCEPT !.op = "join", !.user = u, !.band = b, !.slot = s], "waiting")
    BY <1>5 DEF SubmitJoin
  <2> QED BY <2>1, StartTyped DEF Shaped, Inserting
<1>6. CASE SubmitTake(p)
  <2>1. PICK e \in EntryIds, where \in {"blocked", "waiting"} :
          /\ Waiting(e)
          /\ Start(p, [NoRequest EXCEPT !.op = "take", !.user = entries[e].user,
                         !.band = entries[e].band, !.slot = entries[e].slot, !.entry = e], where)
    BY <1>6 DEF SubmitTake
  <2>2. entries[e] \in Entry /\ entries[e].slot \in Slots /\ entries[e].user \in Users
    BY <1>6, <2>1 DEF Typed, TypeOK, Waiting
  <2> QED BY <2>1, <2>2, StartTyped DEF Entry, Shaped, Inserting
<1>7. CASE SubmitBan(p)
  <2>1. PICK u \in Staff, t \in Users \ Staff, st \in {"banned", "deleted"} :
          Start(p, [NoRequest EXCEPT !.op = "ban", !.user = u, !.target = t, !.change = st], "waiting")
    BY <1>7 DEF SubmitBan
  <2> QED BY <2>1, StartTyped, BookingsAssumption DEF Statuses, Shaped, Inserting
<1>8. CASE SubmitDeleteBand(p)
  <2>1. PICK u \in Users, b \in bands :
          Start(p, [NoRequest EXCEPT !.op = "deleteBand", !.user = u, !.band = b], "waiting")
    BY <1>8 DEF SubmitDeleteBand
  <2>2. b \in Bands
    BY DEF Typed, TypeOK
  <2> QED BY <2>1, <2>2, StartTyped DEF Shaped, Inserting
<1> QED BY <1>1, <1>2, <1>3, <1>4, <1>5, <1>6, <1>7, <1>8 DEF Submit

(* Taking the lock, being refused and giving up write no table.            *)
LEMMA WaitTyped ==
  ASSUME Typed, NEW p \in Procs,
         Unblock(p) \/ Check(p) \/ Refuse(p) \/ Abort(p)
  PROVE  Typed'
<1> USE DEF Typed, data
<1>1. NoRequest \in Request
  BY DEF NoRequest, Request
<1>2. CASE Unblock(p)
  BY <1>2 DEF Unblock, TypeOK, RequestShape
<1>3. CASE Check(p)
  <2>1. Touched(req[p]) \in SUBSET BookingIds
    <3>1. /\ Overlapping(req[p].slot) \subseteq BookingIds
          /\ PersonalOf(req[p].target) \subseteq BookingIds
          /\ UpcomingOf(req[p].band) \subseteq BookingIds
      BY DEF Overlapping, PersonalOf, UpcomingOf, ConfirmedIds
    <3>2. req[p].op \in {"delete", "update"} => req[p].id \in BookingIds
      BY <1>3 DEF Check, RequestShape, Shaped
    <3> HIDE DEF Typed
    <3> QED BY <3>1, <3>2 DEF Touched
  <2> QED BY <1>3, <2>1 DEF Check, TypeOK, RequestShape
<1>4. CASE Refuse(p)
  BY <1>1, <1>4 DEF Refuse, Answered, TypeOK, RequestShape
<1>5. CASE Abort(p)
  BY <1>1, <1>5 DEF Abort, Answered, TypeOK, RequestShape
<1> QED BY <1>2, <1>3, <1>4, <1>5

BookingTable(bk) ==
  /\ bk \in [BookingIds -> Booking]
  /\ \A i \in BookingIds : bk[i].state = "confirmed" => bk[i].slot \in Slots

EntryTable(en) ==
  /\ en \in [EntryIds -> Entry]
  /\ \A e \in EntryIds : en[e].state = "waiting" => en[e].slot \in Slots /\ en[e].user \in Users

(* A commit that writes well-formed tables keeps the types.                *)
LEMMA CommitTyped ==
  ASSUME Typed, NEW p \in Procs, NEW freed, NEW bk, NEW en, Commit(p, freed, bk, en),
         BookingTable(bk), EntryTable(en),
         UNCHANGED <<now, settings>>,
         status' \in [Users -> Statuses], bands' \subseteq Bands
  PROVE  Typed'
<1> USE DEF Typed, Commit, Answered
<1>1. NoRequest \in Request
  BY DEF NoRequest, Request
<1>2. TypeOK'
  <2>1. OffersFor(freed, bk, en) \subseteq EntryIds
    BY DEF OffersFor
  <2> QED BY <1>1, <2>1 DEF TypeOK, BookingTable, EntryTable
<1>3. RequestShape'
  BY DEF RequestShape, TypeOK
<1> QED BY <1>2, <1>3

(* The ways the tables are written keep them well-formed.                  *)
LEMMA TablesTyped ==
  ASSUME Typed
  PROVE  /\ BookingTable(bookings) /\ EntryTable(entries)
         /\ \A ids : BookingTable(Cancelled(ids))
         /\ \A es : EntryTable(Dropped(es))
<1> USE BookingsAssumption DEF Typed, TypeOK, BookingTable, EntryTable
<1>1. CancelledRow \in Booking /\ CancelledRow.state # "confirmed"
  BY DEF CancelledRow, NoBooking, Booking
<1>2. GoneEntry \in Entry /\ GoneEntry.state # "waiting"
  BY DEF GoneEntry, NoEntry, Entry
<1>3. ASSUME NEW ids PROVE BookingTable(Cancelled(ids))
  BY <1>1 DEF Cancelled
<1>4. ASSUME NEW es PROVE EntryTable(Dropped(es))
  BY <1>2 DEF Dropped
<1> QED BY <1>3, <1>4

LEMMA InsertedTyped ==
  ASSUME NEW bk, BookingTable(bk), NEW n, NEW k \in Kinds, NEW b \in Bands \cup {None},
         NEW u \in Users \cup {None}, NEW s \in Slots
  PROVE  BookingTable([bk EXCEPT ![n] = NewBooking(k, b, u, s)])
<1>1. /\ NewBooking(k, b, u, s) \in Booking
      /\ NewBooking(k, b, u, s).slot \in Slots
  BY DEF NewBooking, Booking
<1> QED BY <1>1 DEF BookingTable

LEMMA WriteTyped ==
  ASSUME Typed, NEW p \in Procs, Write(p)
  PROVE  Typed'
<1>1. req[p] \in Request /\ status \in [Users -> Statuses] /\ bands \subseteq Bands
  BY DEF Typed, TypeOK
<1>2. KindFor(req[p]) \in Kinds /\ "staff" \in Kinds
  BY DEF KindFor, Kinds
<1>3. req[p].band \in Bands \cup {None} /\ req[p].user \in Users \cup {None}
  BY <1>1 DEF Request
<1>4. /\ pc[p] = "checked" /\ req[p].op \in Inserting \cup {"join"} => req[p].slot \in Slots
      /\ pc[p] = "checked" /\ req[p].op = "join" => req[p].user \in Users
  BY DEF Typed, RequestShape, Shaped
<1>5. CASE CommitCreate(p)
  BY <1>1, <1>2, <1>3, <1>4, <1>5, TablesTyped, InsertedTyped, CommitTyped
     DEF CommitCreate, Ready, Inserted, Inserting
<1>6. CASE CommitStaff(p)
  BY <1>1, <1>2, <1>3, <1>4, <1>6, TablesTyped, InsertedTyped, CommitTyped
     DEF CommitStaff, Ready, Inserted, Inserting
<1>7. CASE CommitPriority(p)
  BY <1>1, <1>2, <1>3, <1>4, <1>7, TablesTyped, InsertedTyped, CommitTyped
     DEF CommitPriority, Ready, Inserting
<1>8. CASE CommitDelete(p)
  BY <1>1, <1>8, TablesTyped, CommitTyped DEF CommitDelete
<1>9. CASE CommitUpdate(p)
  <2> DEFINE r == req[p]
             new == [bookings[r.id] EXCEPT
                       !.slot = IF r.slot = None THEN @ ELSE r.slot,
                       !.kind = IF r.change = None THEN @ ELSE r.change]
  <2>1. r.id \in BookingIds /\ r.change \in Kinds \cup {None}
    BY <1>9 DEF CommitUpdate, Ready, Typed, RequestShape, Shaped
  <2>2. bookings[r.id] \in Booking /\ r.slot \in Slots \cup {None}
    BY <1>1, <2>1 DEF Typed, TypeOK, Request
  <2>3. new \in Booking /\ (new.state = "confirmed" => new.slot \in Slots)
    BY <2>1, <2>2 DEF Typed, TypeOK, Booking
  <2>4. BookingTable([bookings EXCEPT ![r.id] = new])
    BY <2>3, TablesTyped DEF BookingTable
  <2>5. Commit(p, {bookings[r.id].slot} \ {new.slot}, [bookings EXCEPT ![r.id] = new], entries)
    BY <1>9 DEF CommitUpdate
  <2> QED BY <1>1, <1>9, <2>4, <2>5, TablesTyped, CommitTyped DEF CommitUpdate
<1>10. CASE CommitJoin(p)
  <2> DEFINE x == [state |-> "waiting", user |-> req[p].user, band |-> req[p].band,
                   slot |-> req[p].slot]
  <2>1. x \in Entry /\ x.slot \in Slots /\ x.user \in Users
    BY <1>3, <1>4, <1>10 DEF CommitJoin, Ready, Entry
  <2>2. EntryTable([entries EXCEPT ![NextOf(UnusedEntries)] = x])
    BY <2>1, TablesTyped DEF EntryTable
  <2> QED BY <1>1, <1>10, <2>2, TablesTyped, CommitTyped DEF CommitJoin
<1>11. CASE CommitTake(p)
  BY <1>1, <1>2, <1>3, <1>4, <1>11, TablesTyped, InsertedTyped, CommitTyped
     DEF CommitTake, Ready, Inserted, Inserting
<1>12. CASE CommitBan(p)
  <2>1. status' \in [Users -> Statuses]
    BY <1>1, <1>12 DEF CommitBan, Ready, Typed, RequestShape, Shaped, Statuses
  <2> QED BY <1>1, <1>12, <2>1, TablesTyped, CommitTyped DEF CommitBan
<1>13. CASE CommitDeleteBand(p)
  <2> DEFINE bk == Cancelled(seen[p])
             cut == [i \in BookingIds |->
                       IF bk[i].band = req[p].band THEN [bk[i] EXCEPT !.band = None] ELSE bk[i]]
  <2>1. BookingTable(bk)
    BY TablesTyped
  <2>2. BookingTable(cut)
    <3> HIDE DEF bk
    <3> QED BY <2>1 DEF BookingTable, Booking
  <2>3. Commit(p, SlotsOf(seen[p]), cut, Dropped(EntriesForBand(req[p].band)))
    BY <1>13 DEF CommitDeleteBand
  <2>4. bands' \subseteq Bands
    BY <1>1, <1>13 DEF CommitDeleteBand
  <2> QED BY <1>1, <1>13, <2>2, <2>3, <2>4, TablesTyped, CommitTyped DEF CommitDeleteBand
<1> QED BY <1>5, <1>6, <1>7, <1>8, <1>9, <1>10, <1>11, <1>12, <1>13 DEF Write

LEMMA BackgroundTyped ==
  ASSUME Typed, Background
  PROVE  Typed'
<1>1. RequestShape'
  BY DEF Typed, Background, Leave, Deliver, CleanupPast, ChangeSettings, Moderate, Tick, RequestShape
<1>2. EntryTable(entries) /\ \A es : EntryTable(Dropped(es))
  BY TablesTyped
<1>3. TypeOK'
  <2>1. CASE \E e \in EntryIds : Leave(e)
    BY <1>2, <2>1 DEF Typed, TypeOK, Leave, EntryTable
  <2>2. CASE \E e \in EntryIds : Deliver(e)
    BY <2>2 DEF Typed, TypeOK, Deliver
  <2>3. CASE CleanupPast
    BY <1>2, <2>3 DEF Typed, TypeOK, CleanupPast, EntryTable
  <2>4. CASE ChangeSettings
    BY <2>4 DEF Typed, TypeOK, ChangeSettings
  <2>5. CASE Moderate
    BY <2>5 DEF Typed, TypeOK, Moderate, Statuses
  <2>6. CASE Tick
    BY <2>6, BookingsAssumption DEF Typed, TypeOK, Tick, data
  <2> QED BY <2>1, <2>2, <2>3, <2>4, <2>5, <2>6 DEF Background
<1> QED BY <1>1, <1>3 DEF Typed

LEMMA TypedStep == Typed /\ [Next]_vars => Typed'
<1> SUFFICES ASSUME Typed, [Next]_vars PROVE Typed'
  OBVIOUS
<1>1. ASSUME NEW p \in Procs,
             \/ Submit(p) \/ Unblock(p) \/ Check(p) \/ Refuse(p) \/ Write(p)
             \/ Abort(p) \/ BreakDeadlock(p)
      PROVE  Typed'
  BY <1>1, SubmitTyped, WaitTyped, WriteTyped DEF BreakDeadlock
<1>2. CASE Background
  BY <1>2, BackgroundTyped
<1>3. CASE UNCHANGED vars
  BY <1>3 DEF vars, Typed, TypeOK, RequestShape
<1> QED BY <1>1, <1>2, <1>3 DEF Next

(* Every reachable state is typed (TypeOK), and every request in flight    *)
(* carries what its operation needs (RequestShape).                        *)
THEOREM TypeCorrect == Spec => []TypeOK
<1>1. Spec => []Typed
  BY TypedInit, TypedStep, PTL DEF Spec
<1>2. Typed => TypeOK
  BY DEF Typed
<1> QED BY <1>1, <1>2, PTL

-----------------------------------------------------------------------------
(* The room is never booked twice *)

Safe == Typed /\ SafeBookings

(* A step that writes no booking, and after which only requests are        *)
(* checked that were so before, and still hold the lock.                   *)
Quiet ==
  /\ bookings' = bookings
  /\ \A q \in Procs : pc'[q] = "checked" =>
       /\ pc[q] = "checked" /\ lock' = lock
       /\ req'[q] = req[q] /\ seen'[q] = seen[q]

LEMMA QuietSafe ==
  ASSUME Safe, Quiet, Typed'
  PROVE  Safe'
<1> USE DEF Safe, SafeBookings, Quiet
<1>1. NoDoubleBooking' /\ LockOwned'
  BY DEF NoDoubleBooking, LockOwned, ConfirmedIds, Confirmed
<1>2. SeenShape'
  BY DEF SeenShape, ConfirmedIds, Confirmed, UnusedBookings
<1>3. TargetClear'
  BY DEF TargetClear, Overlapping, ConfirmedIds, Confirmed
<1> QED BY <1>1, <1>2, <1>3 DEF Typed

(* The steps that are quiet: everything but the taking of the lock and the *)
(* commits of requests.                                                    *)
LEMMA QuietSteps ==
  ASSUME Safe,
         \/ \E p \in Procs : Submit(p) \/ Unblock(p) \/ Refuse(p) \/ Abort(p)
         \/ Background
         \/ UNCHANGED vars
  PROVE  Quiet
<1> USE DEF data
<1>1. TypeOK /\ LockOwned
  BY DEF Safe, Typed, SafeBookings
<1>2. ASSUME NEW p \in Procs, NEW r, NEW where \in {"blocked", "waiting"}, Start(p, r, where)
      PROVE  Quiet
  BY <1>1, <1>2 DEF Start, Quiet, TypeOK
<1>3. ASSUME NEW p \in Procs, Submit(p)
      PROVE  Quiet
  BY <1>2, <1>3 DEF Submit, SubmitCreate, SubmitOffice, SubmitDelete, SubmitUpdate, SubmitJoin,
       SubmitTake, SubmitBan, SubmitDeleteBand
<1>4. ASSUME NEW p \in Procs, Unblock(p)
      PROVE  Quiet
  BY <1>1, <1>4 DEF Unblock, Quiet, TypeOK
<1>5. ASSUME NEW p \in Procs, Refuse(p)
      PROVE  Quiet
  BY <1>1, <1>5 DEF Refuse, Answered, Quiet, TypeOK
<1>6. ASSUME NEW p \in Procs, Abort(p)
      PROVE  Quiet
  BY <1>1, <1>6 DEF Abort, Answered, Quiet, TypeOK, LockOwned
<1>7. CASE Background
  BY <1>7 DEF Background, Leave, Deliver, CleanupPast, ChangeSettings, Moderate, Tick, Quiet
<1>8. CASE UNCHANGED vars
  BY <1>8 DEF vars, Quiet
<1> QED BY <1>3, <1>4, <1>5, <1>6, <1>7, <1>8

(* Overlapping is symmetric.                                               *)
LEMMA OverlapsSymmetric ==
  ASSUME NEW s \in Slots, NEW t \in Slots
  PROVE  Overlaps(s, t) <=> Overlaps(t, s)
<1>1. s \in Slot /\ t \in Slot
  BY BookingsAssumption
<1> QED BY <1>1 DEF Slot, Overlaps

(* What is free of the slots of some bookings overlaps none of them.       *)
LEMMA FreeOverlapsNone ==
  ASSUME NEW ids, NEW s, FreeOf(s, SlotsOf(ids))
  PROVE  Overlapping(s) \cap ids = {}
BY DEF FreeOf, SlotsOf, Overlapping

(* Whoever passes the checks has a clear target.                           *)
LEMMA CheckSafe ==
  ASSUME Safe, NEW p \in Procs, Check(p), Typed'
  PROVE  Safe'
<1> USE DEF Check, data
<1>1. /\ \A q \in Procs : pc'[q] = "checked" => q = p
      /\ req' = req /\ bookings' = bookings /\ lock' = p
      /\ seen'[p] = Touched(req[p])
  <2>1. \A q \in Procs : pc[q] # "checked"
    BY BookingsAssumption DEF Safe, SafeBookings, LockOwned
  <2> QED BY <2>1 DEF Safe, Typed, TypeOK
<1>2. pc[p] = "waiting" /\ Passes(req[p])
  OBVIOUS
<1> HIDE DEF Check
<1> DEFINE r == req[p]
<1>3. /\ r.op \in {"create", "take"} => CreatePasses(r)
      /\ r.op = "staff" => StaffPasses(r)
      /\ r.op = "priority" => PriorityPasses(r)
      /\ r.op = "delete" => DeletePasses(r)
      /\ r.op = "update" => UpdatePasses(r)
  BY <1>2 DEF Passes
<1>4. /\ r.op = "priority" => Touched(r) = Overlapping(r.slot)
      /\ r.op \in {"delete", "update"} => Touched(r) = {r.id}
      /\ r.op \in {"create", "take", "staff", "join"} => Touched(r) = {}
      /\ Touched(r) \in {Overlapping(r.slot), {r.id}, PersonalOf(r.target), UpcomingOf(r.band), {}}
  BY DEF Touched
<1>5. NoDoubleBooking' /\ LockOwned'
  BY <1>1 DEF Safe, SafeBookings, NoDoubleBooking, LockOwned, ConfirmedIds, Confirmed
<1>6. SeenShape'
  <2>1. r.op \in Inserting => UnusedBookings # {}
    BY <1>3 DEF Inserting, CreatePasses, StaffPasses, PriorityPasses
  <2>2. r.op \in {"delete", "update"} => r.id \in ConfirmedIds
    <3>1. r.op \in {"delete", "update"} => r.id \in BookingIds
      BY <1>2 DEF Safe, Typed, RequestShape, Shaped
    <3> QED BY <1>3, <3>1 DEF DeletePasses, UpdatePasses, ConfirmedIds
  <2>3. Touched(r) \subseteq ConfirmedIds
    <3>1. /\ Overlapping(r.slot) \subseteq ConfirmedIds
          /\ PersonalOf(r.target) \subseteq ConfirmedIds
          /\ UpcomingOf(r.band) \subseteq ConfirmedIds
      BY DEF Overlapping, PersonalOf, UpcomingOf
    <3> QED BY <2>2, <3>1 DEF Touched
  <2> QED BY <1>1, <1>4, <2>1, <2>2, <2>3 DEF SeenShape, ConfirmedIds, Confirmed, UnusedBookings
<1>7. TargetClear'
  <2>1. r.op \in {"create", "take", "staff"} => FreeOf(r.slot, SlotsOf(ConfirmedIds))
    BY <1>3 DEF CreatePasses, StaffPasses, Listed, ListedSlots
  <2>2. r.op \in {"create", "take", "staff"} => Overlapping(r.slot) = {}
    BY <2>1, FreeOverlapsNone DEF Overlapping
  <2>3. r.op = "update" /\ r.slot # None => FreeOf(r.slot, SlotsOf(ConfirmedIds \ {r.id}))
    BY <1>3 DEF UpdatePasses, TimeAvailable
  <2>4. r.op = "update" /\ r.slot # None => Overlapping(r.slot) \subseteq {r.id}
    BY <2>3, FreeOverlapsNone DEF Overlapping
  <2>5. r.op \in Placing /\ r.slot # None => Overlapping(r.slot) \subseteq Touched(r)
    BY <1>4, <2>2, <2>4 DEF Placing, Inserting
  <2> QED BY <1>1, <2>5 DEF TargetClear, Overlapping, ConfirmedIds, Confirmed
<1> QED BY <1>5, <1>6, <1>7 DEF Safe, SafeBookings, Typed

(* A commit that leaves the bookings apart leaves everything safe: it      *)
(* releases the lock, and nobody else passed the checks.                   *)
LEMMA CommitSafe ==
  ASSUME Safe, NEW p \in Procs, pc[p] = "checked", NEW freed, NEW bk, NEW en,
         Commit(p, freed, bk, en), Typed', NoDoubleBooking'
  PROVE  Safe'
<1>1. \A q \in Procs : pc'[q] # "checked"
  BY DEF Safe, SafeBookings, LockOwned, Typed, TypeOK, Commit, Answered
<1> QED BY <1>1 DEF Safe, SafeBookings, LockOwned, SeenShape, TargetClear, Typed

Apart(bk) ==
  \A i, j \in BookingIds :
    bk[i].state = "confirmed" /\ bk[j].state = "confirmed" /\ i # j
      => ~Overlaps(bk[i].slot, bk[j].slot)

(* A slot put where only the overwritten bookings are in the way.          *)
LEMMA PutApart ==
  ASSUME Safe, NEW ids, NEW n, NEW x, x.slot \in Slots,
         Overlapping(x.slot) \subseteq ids \cup {n}
  PROVE  Apart([Cancelled(ids) EXCEPT ![n] = x])
<1> DEFINE old == Cancelled(ids)
           bk == [old EXCEPT ![n] = x]
<1>1. \A i \in BookingIds : old[i].state = "confirmed" =>
        i \in ConfirmedIds /\ i \notin ids /\ old[i] = bookings[i]
  BY DEF Cancelled, CancelledRow, NoBooking, ConfirmedIds, Confirmed
<1>2. \A i \in BookingIds : bk[i] = IF i = n THEN x ELSE old[i]
  BY DEF Cancelled
<1>3. \A i \in ConfirmedIds : bookings[i].slot \in Slots
  BY DEF Safe, Typed, TypeOK, ConfirmedIds, Confirmed
<1>4. \A i \in ConfirmedIds : i \notin ids /\ i # n =>
        ~Overlaps(x.slot, bookings[i].slot) /\ ~Overlaps(bookings[i].slot, x.slot)
  BY <1>3, OverlapsSymmetric DEF Overlapping
<1>5. \A i, j \in ConfirmedIds : i # j => ~Overlaps(bookings[i].slot, bookings[j].slot)
  BY DEF Safe, SafeBookings, NoDoubleBooking
<1> HIDE DEF bk, old
<1>6. Apart(bk)
  BY <1>1, <1>2, <1>4, <1>5 DEF Apart
<1> QED BY <1>6 DEF bk, old

LEMMA CancelledApart ==
  ASSUME Safe, NEW ids
  PROVE  Apart(Cancelled(ids))
BY DEF Safe, SafeBookings, NoDoubleBooking, Apart, Cancelled, CancelledRow, NoBooking,
   ConfirmedIds, Confirmed

(* Cancelling nothing leaves the table as it is.                           *)
LEMMA CancelledNone == Safe => bookings = Cancelled({})
BY DEF Safe, Typed, TypeOK, Cancelled

LEMMA WriteSafe ==
  ASSUME Safe, NEW p \in Procs, Write(p), Typed'
  PROVE  Safe'
<1> DEFINE r == req[p]
<1>1. ASSUME NEW freed, NEW bk, NEW en, Commit(p, freed, bk, en), Apart(bk), pc[p] = "checked"
      PROVE  Safe'
  <2>1. NoDoubleBooking'
    BY <1>1 DEF Commit, Apart, NoDoubleBooking, ConfirmedIds, Confirmed
  <2> QED BY <1>1, <2>1, CommitSafe
<1>2. pc[p] = "checked"
  BY DEF Write, Ready, CommitCreate, CommitStaff, CommitPriority, CommitDelete, CommitUpdate,
     CommitJoin, CommitTake, CommitBan, CommitDeleteBand
<1>3. /\ r.op \in Inserting \cup {"join"} => r.slot \in Slots
      /\ r.op \in Placing /\ r.slot # None => Overlapping(r.slot) \subseteq seen[p]
      /\ r.op \in {"create", "take", "staff"} => seen[p] = {}
      /\ r.op \in {"delete", "update"} => seen[p] = {r.id} /\ r.id \in ConfirmedIds
  BY <1>2 DEF Safe, Typed, SafeBookings, RequestShape, Shaped, TargetClear, SeenShape
<1>4. Apart(bookings)
  BY CancelledNone, CancelledApart
<1>5. ASSUME NEW k, NEW b, r.op \in Inserting
      PROVE  Apart([Cancelled(seen[p]) EXCEPT ![NextOf(UnusedBookings)] =
                      NewBooking(k, b, r.user, r.slot)])
  <2> DEFINE x == NewBooking(k, b, r.user, r.slot)
  <2>1. x.slot \in Slots /\ Overlapping(x.slot) \subseteq seen[p] \cup {NextOf(UnusedBookings)}
    <3>1. x.slot = r.slot /\ r.slot \in Slots
      BY <1>3, <1>5 DEF NewBooking
    <3>2. r.slot # None /\ r.op \in Placing
      BY <1>5, <3>1, BookingsAssumption DEF Placing
    <3> HIDE DEF x
    <3> QED BY <1>3, <3>1, <3>2
  <2> HIDE DEF x
  <2>2. Apart([Cancelled(seen[p]) EXCEPT ![NextOf(UnusedBookings)] = x])
    BY <2>1, PutApart
  <2> QED BY <2>2 DEF x
<1>6. ASSUME NEW k, r.op \in {"create", "take", "staff"}
      PROVE  Apart(Inserted(r, k))
  <2>1. Cancelled(seen[p]) = bookings
    BY <1>3, <1>6, CancelledNone
  <2> QED BY <1>5, <1>6, <2>1 DEF Inserted, Inserting
<1>7. CASE CommitCreate(p) \/ CommitStaff(p) \/ CommitTake(p)
  <2>1. r.op \in {"create", "take", "staff"}
    BY <1>7 DEF CommitCreate, CommitStaff, CommitTake, Ready
  <2> QED BY <1>1, <1>2, <1>6, <1>7, <2>1 DEF CommitCreate, CommitStaff, CommitTake
<1>8. CASE CommitPriority(p)
  <2>1. r.op \in Inserting
    BY <1>8 DEF CommitPriority, Ready, Inserting
  <2> QED BY <1>1, <1>2, <1>5, <1>8, <2>1 DEF CommitPriority
<1>9. CASE CommitDelete(p)
  BY <1>1, <1>2, <1>9, CancelledApart DEF CommitDelete
<1>10. CASE CommitUpdate(p)
  <2> DEFINE new == [bookings[r.id] EXCEPT
                       !.slot = IF r.slot = None THEN @ ELSE r.slot,
                       !.kind = IF r.change = None THEN @ ELSE r.change]
  <2>1. r.op = "update" /\ r.op \in Placing
    BY <1>10 DEF CommitUpdate, Ready, Placing
  <2>2. bookings[r.id] \in Booking /\ bookings[r.id].slot \in Slots
    BY <1>3, <2>1 DEF Safe, Typed, TypeOK, ConfirmedIds, Confirmed
  <2>3. new.slot = IF r.slot = None THEN bookings[r.id].slot ELSE r.slot
    BY <2>2 DEF Booking
  <2>4. new.slot \in Slots
    BY <2>2, <2>3 DEF Safe, Typed, TypeOK, Request
  <2>5. Overlapping(new.slot) \subseteq {r.id}
    <3>1. CASE r.slot = None
      BY <1>3, <2>1, <2>2, <2>3, <3>1 DEF Safe, SafeBookings, NoDoubleBooking, Overlapping
    <3>2. CASE r.slot # None
      BY <1>3, <2>1, <2>3, <3>2
    <3> QED BY <3>1, <3>2
  <2>6. Commit(p, {bookings[r.id].slot} \ {new.slot}, [bookings EXCEPT ![r.id] = new], entries)
    BY <1>10 DEF CommitUpdate
  <2> HIDE DEF new
  <2>7. Apart([bookings EXCEPT ![r.id] = new])
    BY <2>4, <2>5, CancelledNone, PutApart
  <2> QED BY <1>1, <1>2, <2>6, <2>7
<1>11. CASE CommitJoin(p)
  BY <1>1, <1>2, <1>4, <1>11 DEF CommitJoin
<1>12. CASE CommitBan(p)
  BY <1>1, <1>2, <1>12, CancelledApart DEF CommitBan
<1>13. CASE CommitDeleteBand(p)
  <2> DEFINE bk == Cancelled(seen[p])
             cut == [i \in BookingIds |->
                       IF bk[i].band = req[p].band THEN [bk[i] EXCEPT !.band = None] ELSE bk[i]]
  <2>1. Apart(bk) /\ BookingTable(bk)
    BY CancelledApart, TablesTyped DEF Safe
  <2>2. Apart(cut)
    <3> HIDE DEF bk
    <3> QED BY <2>1 DEF Apart, BookingTable, Booking
  <2>3. Commit(p, SlotsOf(seen[p]), cut, Dropped(EntriesForBand(req[p].band)))
    BY <1>13 DEF CommitDeleteBand
  <2> QED BY <1>1, <1>2, <2>2, <2>3
<1> QED BY <1>7, <1>8, <1>9, <1>10, <1>11, <1>12, <1>13 DEF Write

LEMMA SafeStep == Safe /\ [Next]_vars => Safe'
<1> SUFFICES ASSUME Safe, [Next]_vars PROVE Safe'
  OBVIOUS
<1>1. Typed'
  BY TypedStep DEF Safe
<1>2. ASSUME Quiet PROVE Safe'
  BY <1>1, <1>2, QuietSafe
<1>3. ASSUME NEW p \in Procs,
             \/ Submit(p) \/ Unblock(p) \/ Check(p) \/ Refuse(p) \/ Write(p)
             \/ Abort(p) \/ BreakDeadlock(p)
      PROVE  Safe'
  BY <1>1, <1>2, <1>3, QuietSteps, CheckSafe, WriteSafe DEF BreakDeadlock
<1>4. CASE Background \/ UNCHANGED vars
  BY <1>2, <1>4, QuietSteps
<1> QED BY <1>3, <1>4 DEF Next

LEMMA SafeInit == Init => Safe
<1> SUFFICES ASSUME Init PROVE Safe
  OBVIOUS
<1>1. Typed
  BY TypedInit
<1>2. ConfirmedIds = {} /\ \A p \in Procs : pc[p] # "checked"
  BY DEF Init, ConfirmedIds, Confirmed, NoBooking
<1>3. SafeBookings
  BY <1>1, <1>2 DEF Typed, SafeBookings, NoDoubleBooking, LockOwned, SeenShape, TargetClear
<1> QED BY <1>1, <1>3 DEF Safe

(* However many requests of members, staff and the office interleave, two  *)
(* confirmed bookings never overlap.                                       *)
THEOREM NeverBookedTwice == Spec => []SafeBookings
<1>1. Spec => []Safe
  BY SafeInit, SafeStep, PTL DEF Spec
<1>2. Safe => SafeBookings
  BY DEF Safe
<1> QED BY <1>1, <1>2, PTL

(* The same without what makes it inductive.                               *)
COROLLARY RoomBookedOnce == Spec => []NoDoubleBooking
<1>1. SafeBookings => NoDoubleBooking
  BY DEF SafeBookings
<1> QED BY <1>1, NeverBookedTwice, PTL

-----------------------------------------------------------------------------
(* The transactions implement the calendar *)

(* A sequence that is not exhausted yields a number it has not given yet.  *)
LEMMA NextOfIsMember ==
  ASSUME NEW ids \in SUBSET Nat, ids # {}
  PROVE  NextOf(ids) \in ids
<1>1. PICK m \in ids : \A k \in ids : ~(<<k, m>> \in OpToRel(<, Nat))
  BY NatLessThanWellFounded, WFMin, Zenon
<1>2. \A k \in ids : m <= k
  <2>1. \A k \in ids : ~(k < m)
    BY <1>1 DEF OpToRel
  <2> QED BY <2>1
<1> QED BY <1>2 DEF NextOf, Min

(* How the tables show up in the calendar.                                 *)
LEMMA HoldingConfirmed ==
  ASSUME Typed
  PROVE  /\ Abstract!Holding = ConfirmedIds
         /\ \A i \in ConfirmedIds : Booked[i] = bookings[i].slot /\ Booked[i] \in Slots
         /\ \A i \in BookingIds \ ConfirmedIds : Booked[i] = None
<1>1. \A i \in BookingIds : Confirmed(i) => bookings[i].slot \in Slots /\ bookings[i].slot # None
  BY BookingsAssumption DEF Typed, TypeOK, Confirmed
<1> QED BY <1>1 DEF Abstract!Holding, Booked, ConfirmedIds

(* Cancelling confirmed bookings releases what they held.                  *)
LEMMA CancelReleases ==
  ASSUME Safe, NEW ids \in SUBSET ConfirmedIds, NEW bk,
         bk \in [BookingIds -> Booking],
         \A i \in BookingIds : /\ bk[i].state = Cancelled(ids)[i].state
                               /\ bk[i].slot = Cancelled(ids)[i].slot,
         bookings' = bk
  PROVE  Abstract!Release(ids)
<1>1. \A i \in BookingIds : /\ i \in ids => bk[i].state = "cancelled"
                            /\ i \notin ids => bk[i].state = bookings[i].state /\ bk[i].slot = bookings[i].slot
  BY DEF Cancelled, CancelledRow, NoBooking
<1>2. ids \subseteq Abstract!Holding
  BY HoldingConfirmed DEF Safe
<1>3. Booked' = [j \in BookingIds |-> IF j \in ids THEN None ELSE Booked[j]]
  BY <1>1 DEF Booked, Confirmed
<1>4. GivenUp' = GivenUp \cup ids
  BY <1>1 DEF GivenUp, ConfirmedIds
<1> QED BY <1>2, <1>3, <1>4 DEF Abstract!Release

(* Putting a slot where only the bookings it evicts are in the way books it. *)
LEMMA PutBooks ==
  ASSUME Safe, NEW ids \in SUBSET ConfirmedIds, NEW n \in BookingIds, NEW x,
         n \notin ids, bookings[n].state # "cancelled",
         x.state = "confirmed", x.slot \in Slots,
         Overlapping(x.slot) \subseteq ids \cup {n},
         bookings' = [Cancelled(ids) EXCEPT ![n] = x]
  PROVE  Abstract!Book(n, x.slot, ids)
<1>1. \A i \in BookingIds :
        /\ i = n => bookings'[i] = x
        /\ i \in ids => bookings'[i].state = "cancelled"
        /\ i \notin ids /\ i # n => bookings'[i] = bookings[i]
  BY DEF Cancelled, CancelledRow, NoBooking
<1>2. n \notin GivenUp /\ ids \subseteq Abstract!Holding
  BY HoldingConfirmed DEF Safe, GivenUp
<1>3. \A j \in Abstract!Holding \ (ids \cup {n}) : ~Abstract!Clash(x.slot, Booked[j])
  <2>1. \A j \in ConfirmedIds \ (ids \cup {n}) : ~Overlaps(x.slot, bookings[j].slot)
    BY DEF Overlapping
  <2>2. Slots \subseteq Slot
    BY BookingsAssumption
  <2> QED BY <2>1, <2>2, HoldingConfirmed DEF Safe, Overlaps, Abstract!Clash, Slot
<1>4. Booked' = [j \in BookingIds |-> IF j = n THEN x.slot ELSE IF j \in ids THEN None ELSE Booked[j]]
  BY <1>1 DEF Booked, Confirmed
<1>5. GivenUp' = GivenUp \cup ids
  BY <1>1 DEF GivenUp, ConfirmedIds, Confirmed
<1> QED BY <1>2, <1>3, <1>4, <1>5 DEF Abstract!Book

LEMMA WriteImplements ==
  ASSUME Safe, NEW p \in Procs, Write(p)
  PROVE  [Abstract!Next]_(Abstract!vars)
<1> DEFINE r == req[p]
<1>1. pc[p] = "checked"
  BY DEF Write, Ready, CommitCreate, CommitStaff, CommitPriority, CommitDelete, CommitUpdate,
     CommitJoin, CommitTake, CommitBan, CommitDeleteBand
<1>2. /\ seen[p] \subseteq ConfirmedIds
      /\ r.op \in Inserting => r.slot \in Slots /\ UnusedBookings # {}
      /\ r.op \in Placing /\ r.slot # None => Overlapping(r.slot) \subseteq seen[p]
      /\ r.op \in {"create", "take", "staff"} => seen[p] = {}
      /\ r.op \in {"delete", "update"} => seen[p] = {r.id}
  BY <1>1 DEF Safe, Typed, SafeBookings, RequestShape, Shaped, TargetClear, SeenShape, Inserting
<1>3. ASSUME NEW i \in BookingIds, NEW s \in Slots, NEW ids \in SUBSET BookingIds, Abstract!Book(i, s, ids)
      PROVE  Abstract!Next
  BY <1>3 DEF Abstract!Next
<1>4. ASSUME NEW ids \in SUBSET BookingIds, Abstract!Release(ids)
      PROVE  Abstract!Next
  BY <1>4 DEF Abstract!Next
<1>5. ConfirmedIds \subseteq BookingIds
  BY DEF ConfirmedIds
<1>6. ASSUME NEW k, NEW b, r.op \in Inserting,
             bookings' = [Cancelled(seen[p]) EXCEPT ![NextOf(UnusedBookings)] =
                            NewBooking(k, b, r.user, r.slot)]
      PROVE  Abstract!Next
  <2> DEFINE n == NextOf(UnusedBookings)
             x == NewBooking(k, b, r.user, r.slot)
  <2>1. n \in UnusedBookings
    <3>1. UnusedBookings \in SUBSET Nat
      BY BookingsAssumption DEF UnusedBookings
    <3> QED BY <1>2, <1>6, <3>1, NextOfIsMember
  <2>2. n \in BookingIds /\ n \notin seen[p] /\ bookings[n].state # "cancelled"
    BY <1>2, <2>1 DEF UnusedBookings, ConfirmedIds, Confirmed
  <2>3. x.state = "confirmed" /\ x.slot = r.slot /\ r.slot \in Slots
    BY <1>2, <1>6 DEF NewBooking
  <2>4. Overlapping(x.slot) \subseteq seen[p] \cup {n}
    <3>1. r.slot # None /\ r.op \in Placing
      BY <1>6, <2>3, BookingsAssumption DEF Placing
    <3> HIDE DEF x, n
    <3> QED BY <1>2, <2>3, <3>1
  <2> HIDE DEF x, n
  <2>5. bookings' = [Cancelled(seen[p]) EXCEPT ![n] = x]
    BY <1>6 DEF x, n
  <2>6. Abstract!Book(n, x.slot, seen[p])
    BY <1>2, <2>2, <2>3, <2>4, <2>5, PutBooks
  <2> QED BY <1>2, <1>3, <1>5, <2>2, <2>3, <2>6
<1>7. ASSUME bookings' = Cancelled(seen[p])
      PROVE  Abstract!Next
  <2>1. Cancelled(seen[p]) \in [BookingIds -> Booking]
    BY TablesTyped DEF Safe, BookingTable
  <2>2. Abstract!Release(seen[p])
    BY <1>2, <1>7, <2>1, CancelReleases
  <2> QED BY <1>2, <1>4, <1>5, <2>2
<1>8. CASE CommitCreate(p) \/ CommitStaff(p) \/ CommitTake(p)
  <2>1. r.op \in {"create", "take", "staff"}
    BY <1>8 DEF CommitCreate, CommitStaff, CommitTake, Ready
  <2>2. bookings = Cancelled(seen[p])
    BY <1>2, <2>1, CancelledNone
  <2>3. \E k : bookings' = Inserted(r, k)
    BY <1>8 DEF CommitCreate, CommitStaff, CommitTake, Commit
  <2> QED BY <1>6, <2>1, <2>2, <2>3 DEF Inserted, Inserting
<1>9. CASE CommitPriority(p)
  BY <1>6, <1>9 DEF CommitPriority, Commit, Ready, Inserting
<1>10. CASE CommitDelete(p) \/ CommitBan(p)
  BY <1>7, <1>10 DEF CommitDelete, CommitBan, Commit
<1>11. CASE CommitUpdate(p)
  <2> DEFINE old == bookings[r.id]
             new == [old EXCEPT !.slot = IF r.slot = None THEN @ ELSE r.slot,
                                !.kind = IF r.change = None THEN @ ELSE r.change]
  <2>1. r.op = "update" /\ r.op \in Placing /\ bookings' = [bookings EXCEPT ![r.id] = new]
    BY <1>11 DEF CommitUpdate, Ready, Placing, Commit
  <2>2. r.id \in ConfirmedIds /\ old \in Booking /\ old.state = "confirmed" /\ old.slot \in Slots
    BY <1>2, <2>1 DEF Safe, Typed, TypeOK, ConfirmedIds, Confirmed
  <2>3. new.state = "confirmed" /\ new.slot = IF r.slot = None THEN old.slot ELSE r.slot
    BY <2>2 DEF Booking
  <2>4. new.slot \in Slots
    BY <2>2, <2>3 DEF Safe, Typed, TypeOK, Request
  <2>5. Overlapping(new.slot) \subseteq {} \cup {r.id}
    <3>1. CASE r.slot = None
      BY <2>2, <2>3, <3>1 DEF Safe, SafeBookings, NoDoubleBooking, Overlapping
    <3>2. CASE r.slot # None
      BY <1>2, <2>1, <2>3, <3>2
    <3> QED BY <3>1, <3>2
  <2> HIDE DEF new, old
  <2>6. bookings' = [Cancelled({}) EXCEPT ![r.id] = new]
    BY <2>1, CancelledNone
  <2>7. r.id \in BookingIds /\ bookings[r.id].state # "cancelled"
    BY <2>2 DEF ConfirmedIds, Confirmed
  <2>8. Abstract!Book(r.id, new.slot, {})
    BY <2>3, <2>4, <2>5, <2>6, <2>7, PutBooks
  <2> QED BY <1>3, <2>4, <2>7, <2>8
<1>12. CASE CommitJoin(p)
  BY <1>12 DEF CommitJoin, Commit, Abstract!vars, Booked, GivenUp, Confirmed
<1>13. CASE CommitDeleteBand(p)
  <2> DEFINE bk == Cancelled(seen[p])
             cut == [i \in BookingIds |->
                       IF bk[i].band = r.band THEN [bk[i] EXCEPT !.band = None] ELSE bk[i]]
  <2>1. bk \in [BookingIds -> Booking]
    BY TablesTyped DEF Safe, BookingTable
  <2>2. bookings' = cut
    BY <1>13 DEF CommitDeleteBand, Commit
  <2>3. /\ cut \in [BookingIds -> Booking]
        /\ \A i \in BookingIds : cut[i].state = bk[i].state /\ cut[i].slot = bk[i].slot
    <3> HIDE DEF bk
    <3> QED BY <2>1 DEF Booking
  <2> HIDE DEF cut
  <2>4. Abstract!Release(seen[p])
    BY <1>2, <2>2, <2>3, CancelReleases
  <2> QED BY <1>2, <1>4, <1>5, <2>4
<1> QED BY <1>8, <1>9, <1>10, <1>11, <1>12, <1>13 DEF Write

(* Everything but a commit of a request is invisible in the calendar.      *)
LEMMA OtherStutters ==
  ASSUME bookings' = bookings
  PROVE  UNCHANGED Abstract!vars
BY DEF Abstract!vars, Booked, GivenUp, Confirmed

LEMMA StepImplements == Safe /\ [Next]_vars => [Abstract!Next]_(Abstract!vars)
<1> SUFFICES ASSUME Safe, [Next]_vars PROVE [Abstract!Next]_(Abstract!vars)
  OBVIOUS
<1>1. ASSUME Quiet PROVE UNCHANGED Abstract!vars
  BY <1>1, OtherStutters DEF Quiet
<1>2. ASSUME NEW p \in Procs, Check(p) PROVE UNCHANGED Abstract!vars
  BY <1>2, OtherStutters DEF Check, data
<1>3. ASSUME NEW p \in Procs,
             \/ Submit(p) \/ Unblock(p) \/ Check(p) \/ Refuse(p) \/ Write(p)
             \/ Abort(p) \/ BreakDeadlock(p)
      PROVE  [Abstract!Next]_(Abstract!vars)
  BY <1>1, <1>2, <1>3, QuietSteps, WriteImplements DEF BreakDeadlock
<1>4. CASE Background \/ UNCHANGED vars
  BY <1>1, <1>4, QuietSteps
<1> QED BY <1>3, <1>4 DEF Next

(* The transactions of the backend, however they interleave, show the      *)
(* calendar of a single room: every commit of a request is at most one     *)
(* booking, move or release of it, and nothing else is visible.            *)
THEOREM CoreImplementsCalendar == Spec => ImplementsCalendar
<1>1. Init => Abstract!Init
  BY DEF Init, Abstract!Init, Booked, GivenUp, Confirmed, NoBooking
<1>2. Spec => []Safe
  BY SafeInit, SafeStep, PTL DEF Spec
<1> QED BY <1>1, <1>2, StepImplements, PTL DEF Spec, ImplementsCalendar, Abstract!Spec

-----------------------------------------------------------------------------
(* The waiting list and the bans *)

Whole == Safe /\ SafeQueue

(* A step after which every entry is as it was, or gone.                   *)
Dwindling ==
  \A e \in EntryIds :
    \/ entries'[e] = entries[e]
    \/ entries[e].state # "unused" /\ entries'[e] = GoneEntry

(* Shorter lists stay within the limits.                                   *)
LEMMA ListsShrink ==
  ASSUME Typed, SafeQueue, Dwindling, NEW u \in Users
  PROVE  /\ EntriesOf(u)' \subseteq EntriesOf(u)
         /\ \A e \in EntriesOf(u)' : entries'[e] = entries[e]
         /\ IsFiniteSet(EntriesOf(u)')
         /\ Cardinality(EntriesOf(u)') <= Cardinality(EntriesOf(u))
         /\ Cardinality(EntriesOf(u)) \in Nat /\ Cardinality(EntriesOf(u)') \in Nat
<1>1. /\ EntriesOf(u)' \subseteq EntriesOf(u)
      /\ \A e \in EntriesOf(u)' : entries'[e] = entries[e]
  BY DEF EntriesOf, Waiting, Dwindling, GoneEntry, NoEntry
<1>2. IsFiniteSet(EntriesOf(u))
  BY DEF SafeQueue
<1> QED BY <1>1, <1>2, FS_Subset, FS_CardinalityType

(* The limits of the lists survive every step that adds no entry.          *)
LEMMA DwindlingBounded ==
  ASSUME Typed, SafeQueue, Dwindling
  PROVE  WaitlistBounded' /\ \A u \in Users : IsFiniteSet(EntriesOf(u)')
<1> SUFFICES ASSUME NEW u \in Users
             PROVE  /\ IsFiniteSet(EntriesOf(u)') /\ Cardinality(EntriesOf(u)') <= MaxEntries
                    /\ \A e, f \in EntriesOf(u)' : e # f =>
                         <<entries'[e].band, entries'[e].slot>> # <<entries'[f].band, entries'[f].slot>>
  BY DEF WaitlistBounded
<1>1. Cardinality(EntriesOf(u)) <= MaxEntries
  BY DEF SafeQueue, WaitlistBounded
<1>2. \A e, f \in EntriesOf(u) : e # f =>
        <<entries[e].band, entries[e].slot>> # <<entries[f].band, entries[f].slot>>
  BY DEF SafeQueue, WaitlistBounded
<1>3. Cardinality(EntriesOf(u)') <= MaxEntries
  BY <1>1, ListsShrink, BookingsAssumption
<1> QED BY <1>2, <1>3, ListsShrink

(* What was read under the lock stays true until its reader writes.        *)
LEMMA QuietQueue ==
  ASSUME Safe, SafeQueue, Typed', Quiet, Dwindling, now <= now', TakeMatches'
  PROVE  SafeQueue'
<1>1. WaitlistBounded' /\ \A u \in Users : IsFiniteSet(EntriesOf(u)')
  BY DwindlingBounded DEF Safe
<1>2. JoinFits'
  <2>1. ASSUME NEW p \in Procs, pc'[p] = "checked", req'[p].op = "join", NEW u \in Users, u = req[p].user
        PROVE  /\ RoomToWait(u)' /\ UnusedEntries' # {}
               /\ \A e \in EntriesOf(u)' :
                    <<entries'[e].band, entries'[e].slot>> # <<req[p].band, req[p].slot>>
    <3>1. /\ RoomToWait(u) /\ UnusedEntries # {}
          /\ \A e \in EntriesOf(u) :
               <<entries[e].band, entries[e].slot>> # <<req[p].band, req[p].slot>>
      BY <2>1 DEF Quiet, SafeQueue, JoinFits
    <3>2. UnusedEntries' # {}
      BY <3>1 DEF UnusedEntries, Dwindling
    <3>3. RoomToWait(u)'
      BY <3>1, ListsShrink, BookingsAssumption DEF RoomToWait, Safe
    <3> QED BY <3>1, <3>2, <3>3, ListsShrink DEF Safe
  <2>2. ASSUME NEW p \in Procs, pc'[p] = "checked", req'[p].op = "join"
        PROVE  req'[p] = req[p] /\ req[p].user \in Users
    BY <2>2 DEF Quiet, Safe, Typed, RequestShape, Shaped
  <2> QED BY <2>1, <2>2 DEF JoinFits, RoomToWait, EntriesOf, Waiting
<1>3. BanSees'
  <2>1. \A i \in ConfirmedIds : bookings[i].slot \in Slot
    BY BookingsAssumption DEF Safe, Typed, TypeOK, ConfirmedIds, Confirmed
  <2>2. now \in Nat /\ now' \in Nat
    BY BookingsAssumption DEF Safe, Typed, TypeOK
  <2>3. \A i \in ConfirmedIds : Ended(bookings[i].slot, now) => Ended(bookings[i].slot, now')
    BY <2>1, <2>2 DEF Ended, Slot
  <2>4. \A u : PersonalOf(u)' \subseteq PersonalOf(u)
    BY <2>3 DEF Quiet, PersonalOf, ConfirmedIds, Confirmed
  <2>5. ASSUME NEW p \in Procs, pc'[p] = "checked", req'[p].op = "ban"
        PROVE  /\ req'[p] = req[p] /\ seen'[p] = seen[p]
               /\ PersonalOf(req[p].target) \subseteq seen[p]
    BY <2>5 DEF Quiet, SafeQueue, BanSees
  <2> QED BY <2>4, <2>5 DEF BanSees, PersonalOf, ConfirmedIds, Confirmed
<1> QED BY <1>1, <1>2, <1>3 DEF SafeQueue

(* A request that is under way keeps its content until it is answered, and *)
(* every other one is submitted.                                           *)
LEMMA RequestsCarried ==
  ASSUME Typed, [Next]_vars, NEW q \in Procs, pc'[q] # "idle"
  PROVE  Submit(q) \/ (pc[q] # "idle" /\ req'[q] = req[q])
<1> DEFINE Kept == pc[q] # "idle" /\ req'[q] = req[q]
<1>1. ASSUME NEW p \in Procs, Submit(p), p # q PROVE Kept
  <2>1. ASSUME NEW r, NEW where \in {"blocked", "waiting"}, Start(p, r, where)
        PROVE  Kept
    BY <1>1, <2>1 DEF Start, Typed, TypeOK
  <2> HIDE DEF Kept
  <2> QED BY <1>1, <2>1 DEF Submit, SubmitCreate, SubmitOffice, SubmitDelete, SubmitUpdate, SubmitJoin,
        SubmitTake, SubmitBan, SubmitDeleteBand
<1> USE DEF Typed, TypeOK
<1>2. ASSUME NEW p \in Procs, Unblock(p) \/ Check(p) PROVE Kept
  BY <1>2 DEF Unblock, Check, data
<1>3. ASSUME NEW p \in Procs, Answered(p) PROVE Kept
  BY <1>3 DEF Answered
<1>4. ASSUME NEW p \in Procs, Refuse(p) \/ Abort(p) PROVE Kept
  BY <1>3, <1>4 DEF Refuse, Abort
<1>5. ASSUME NEW p \in Procs, Write(p) PROVE Kept
  BY <1>3, <1>5 DEF Write, Commit, CommitCreate, CommitStaff, CommitPriority, CommitDelete,
     CommitUpdate, CommitJoin, CommitTake, CommitBan, CommitDeleteBand
<1>6. ASSUME Background \/ UNCHANGED vars PROVE Kept
  BY <1>6 DEF Background, Leave, Deliver, CleanupPast, ChangeSettings, Moderate, Tick, vars, data
<1>7. ASSUME NEW p \in Procs, BreakDeadlock(p) PROVE Kept
  BY <1>4, <1>7 DEF BreakDeadlock
<1> QED BY <1>1, <1>2, <1>4, <1>5, <1>6, <1>7 DEF Next

(* What became of the entries in a step.                                   *)
LEMMA EntrySteps ==
  ASSUME Whole, [Next]_vars
  PROVE  Dwindling \/ \E p \in Procs : CommitJoin(p)
<1> USE DEF Dwindling, data
<1>1. \A p \in Procs : Submit(p) => entries' = entries
  BY DEF Submit, SubmitCreate, SubmitOffice, SubmitDelete, SubmitUpdate, SubmitJoin,
     SubmitTake, SubmitBan, SubmitDeleteBand, Start
<1>2. \A p \in Procs : Unblock(p) \/ Check(p) \/ Refuse(p) \/ Abort(p) \/ BreakDeadlock(p) => entries' = entries
  BY DEF Unblock, Check, Refuse, Abort, BreakDeadlock
<1>3. ASSUME NEW es, \A e \in es : e \in EntryIds => entries[e].state # "unused", entries' = Dropped(es)
      PROVE  Dwindling
  BY <1>3 DEF Dropped
<1>4. ASSUME NEW p \in Procs, Write(p), ~CommitJoin(p)
      PROVE  Dwindling
  <2>1. CASE CommitTake(p)
    <3>1. entries[req[p].entry].state # "unused"
      BY <2>1 DEF CommitTake, Ready, Whole, SafeQueue, TakeMatches
    <3> QED BY <1>3, <2>1, <3>1 DEF CommitTake, Commit
  <2>2. CASE CommitBan(p)
    BY <1>3, <2>2 DEF CommitBan, Commit, EntriesOf, Waiting
  <2>3. CASE CommitDeleteBand(p)
    <3>1. entries' = Dropped(EntriesForBand(req[p].band))
      BY <2>3 DEF CommitDeleteBand, Commit
    <3> QED BY <1>3, <3>1 DEF EntriesForBand, Waiting
  <2>4. CASE CommitCreate(p) \/ CommitStaff(p) \/ CommitPriority(p) \/ CommitDelete(p) \/ CommitUpdate(p)
    <3>1. entries' = entries
      BY <2>4 DEF CommitCreate, CommitStaff, CommitPriority, CommitDelete, CommitUpdate, Commit
    <3> QED BY <3>1
  <2> QED BY <1>4, <2>1, <2>2, <2>3, <2>4 DEF Write
<1>5. CASE Background
  <2>1. ASSUME NEW e \in EntryIds, Leave(e) PROVE Dwindling
    BY <1>3, <2>1 DEF Leave, Waiting
  <2>2. CASE CleanupPast
    BY <1>3, <2>2 DEF CleanupPast, StartedEntries, Waiting
  <2> QED BY <1>5, <2>1, <2>2 DEF Background, Deliver, ChangeSettings, Moderate, Tick
<1>6. CASE UNCHANGED vars
  BY <1>6 DEF vars
<1> QED BY <1>1, <1>2, <1>4, <1>5, <1>6 DEF Next

(* What the commit of a join writes.                                       *)
LEMMA JoinAdds ==
  ASSUME Whole, NEW p \in Procs, CommitJoin(p)
  PROVE  \E n \in UnusedEntries : \E x :
           /\ entries' = [entries EXCEPT ![n] = x]
           /\ x.state = "waiting" /\ x.user = req[p].user /\ x.user \in Users
           /\ x.band = req[p].band /\ x.slot = req[p].slot
           /\ RoomToWait(x.user)
           /\ \A e \in EntriesOf(x.user) : <<entries[e].band, entries[e].slot>> # <<x.band, x.slot>>
<1> DEFINE n == NextOf(UnusedEntries)
           x == [state |-> "waiting", user |-> req[p].user, band |-> req[p].band, slot |-> req[p].slot]
<1>1. pc[p] = "checked" /\ req[p].op = "join" /\ entries' = [entries EXCEPT ![n] = x]
  BY DEF CommitJoin, Ready, Commit
<1>2. UnusedEntries # {} /\ UnusedEntries \in SUBSET Nat
  BY <1>1, BookingsAssumption DEF Whole, SafeQueue, JoinFits, UnusedEntries
<1>3. n \in UnusedEntries
  BY <1>2, NextOfIsMember
<1>4. /\ RoomToWait(x.user) /\ x.user \in Users
      /\ \A e \in EntriesOf(x.user) : <<entries[e].band, entries[e].slot>> # <<x.band, x.slot>>
  BY <1>1 DEF Whole, SafeQueue, JoinFits, Safe, Typed, RequestShape, Shaped
<1>5. x.user = req[p].user /\ x.band = req[p].band /\ x.slot = req[p].slot /\ x.state = "waiting"
  OBVIOUS
<1> HIDE DEF n, x
<1> QED BY <1>1, <1>3, <1>4, <1>5

(* A join that found room on the list and no entry of the same range keeps *)
(* the list within its limits.                                             *)
LEMMA JoinBounded ==
  ASSUME Whole, NEW p \in Procs, CommitJoin(p)
  PROVE  WaitlistBounded' /\ \A u \in Users : IsFiniteSet(EntriesOf(u)')
<1>1. PICK n, x :
        /\ n \in UnusedEntries
        /\ entries' = [entries EXCEPT ![n] = x]
        /\ x.state = "waiting" /\ x.user \in Users
        /\ RoomToWait(x.user)
        /\ \A e \in EntriesOf(x.user) : <<entries[e].band, entries[e].slot>> # <<x.band, x.slot>>
  BY JoinAdds
<1>2. /\ n \in EntryIds /\ entries'[n] = x
      /\ \A e \in EntryIds : e # n => entries'[e] = entries[e]
      /\ \A u : n \notin EntriesOf(u)
  BY <1>1 DEF Whole, Safe, Typed, TypeOK, UnusedEntries, EntriesOf, Waiting
<1> SUFFICES ASSUME NEW u \in Users
             PROVE  /\ IsFiniteSet(EntriesOf(u)') /\ Cardinality(EntriesOf(u)') <= MaxEntries
                    /\ \A e, f \in EntriesOf(u)' : e # f =>
                         <<entries'[e].band, entries'[e].slot>> # <<entries'[f].band, entries'[f].slot>>
  BY DEF WaitlistBounded
<1>3. /\ IsFiniteSet(EntriesOf(u)) /\ Cardinality(EntriesOf(u)) <= MaxEntries
      /\ \A e, f \in EntriesOf(u) : e # f =>
           <<entries[e].band, entries[e].slot>> # <<entries[f].band, entries[f].slot>>
  BY DEF Whole, SafeQueue, WaitlistBounded
<1>4. CASE u # x.user
  <2>1. EntriesOf(u)' = EntriesOf(u) /\ \A e \in EntriesOf(u) : entries'[e] = entries[e]
    BY <1>2, <1>4 DEF EntriesOf, Waiting
  <2> QED BY <1>3, <2>1
<1>5. CASE u = x.user
  <2>1. /\ EntriesOf(u)' = EntriesOf(u) \cup {n}
        /\ \A e \in EntriesOf(u) : entries'[e] = entries[e]
    BY <1>1, <1>2, <1>5 DEF EntriesOf, Waiting
  <2>2. /\ IsFiniteSet(EntriesOf(u)')
        /\ Cardinality(EntriesOf(u)') = Cardinality(EntriesOf(u)) + 1
    BY <1>2, <1>3, <2>1, FS_AddElement
  <2>3. Cardinality(EntriesOf(u)) \in Nat /\ Cardinality(EntriesOf(u)) < MaxEntries
    BY <1>1, <1>3, <1>5, FS_CardinalityType DEF RoomToWait
  <2>4. Cardinality(EntriesOf(u)') <= MaxEntries
    BY <2>2, <2>3, BookingsAssumption
  <2> QED BY <1>1, <1>2, <1>3, <1>5, <2>1, <2>2, <2>4
<1> QED BY <1>4, <1>5

(* A request to take an entry carries what the entry says.                 *)
LEMMA TakeMatchesStep ==
  ASSUME Whole, [Next]_vars
  PROVE  TakeMatches'
<1> SUFFICES ASSUME NEW p \in Procs, pc'[p] # "idle", req'[p].op = "take",
                    NEW r, r = req'[p]
             PROVE  /\ entries'[r.entry].state # "unused"
                    /\ entries'[r.entry].state = "waiting" =>
                         <<entries'[r.entry].user, entries'[r.entry].band, entries'[r.entry].slot>>
                           = <<r.user, r.band, r.slot>>
  BY DEF TakeMatches
<1>1. CASE Submit(p)
  <2>1. ASSUME NEW x, NEW where, Start(p, x, where), x.op # "take"
        PROVE  FALSE
    BY <2>1 DEF Start, Whole, Safe, Typed, TypeOK
  <2>2. SubmitTake(p)
    BY <1>1, <2>1 DEF Submit, SubmitCreate, SubmitOffice, SubmitDelete, SubmitUpdate, SubmitJoin,
       SubmitBan, SubmitDeleteBand, NoRequest
  <2>3. PICK e, where : e \in EntryIds /\ Waiting(e) /\
          Start(p, [NoRequest EXCEPT !.op = "take", !.user = entries[e].user, !.band = entries[e].band,
                                     !.slot = entries[e].slot, !.entry = e], where)
    BY <2>2 DEF SubmitTake
  <2>4. /\ r.entry = e /\ r.user = entries[e].user /\ r.band = entries[e].band
        /\ r.slot = entries[e].slot /\ entries' = entries
    BY <2>3 DEF Start, data, NoRequest, Whole, Safe, Typed, TypeOK
  <2> QED BY <2>3, <2>4 DEF Waiting
<1>2. CASE pc[p] # "idle" /\ req'[p] = req[p]
  <2>1. /\ r.entry \in EntryIds /\ entries[r.entry].state # "unused"
        /\ entries[r.entry].state = "waiting" =>
             <<entries[r.entry].user, entries[r.entry].band, entries[r.entry].slot>>
               = <<r.user, r.band, r.slot>>
    BY <1>2 DEF Whole, SafeQueue, TakeMatches, Safe, Typed, RequestShape, Shaped
  <2>2. CASE Dwindling
    BY <2>1, <2>2 DEF Dwindling, GoneEntry, NoEntry
  <2>3. ASSUME NEW q \in Procs, CommitJoin(q) PROVE entries'[r.entry] = entries[r.entry]
    <3>1. PICK n \in UnusedEntries : \E x : entries' = [entries EXCEPT ![n] = x]
      BY <2>3, JoinAdds
    <3> QED BY <2>1, <3>1 DEF UnusedEntries, Whole, Safe, Typed, TypeOK
  <2> QED BY <2>1, <2>2, <2>3, EntrySteps
<1> QED BY <1>1, <1>2, RequestsCarried DEF Whole, Safe

(* Whoever passed the checks read what its commit relies on.               *)
LEMMA CheckQueue ==
  ASSUME Whole, NEW p \in Procs, Check(p), TakeMatches'
  PROVE  SafeQueue'
<1>1. /\ entries' = entries /\ bookings' = bookings /\ now' = now /\ req' = req
      /\ Passes(req[p]) /\ seen'[p] = Touched(req[p])
      /\ \A q \in Procs : pc'[q] = "checked" => q = p
  <2>1. \A q \in Procs : pc[q] # "checked"
    BY BookingsAssumption DEF Check, Whole, Safe, SafeBookings, LockOwned
  <2> QED BY <2>1 DEF Check, data, Whole, Safe, Typed, TypeOK
<1>2. WaitlistBounded' /\ \A u \in Users : IsFiniteSet(EntriesOf(u)')
  BY <1>1, DwindlingBounded DEF Dwindling, Whole, Safe
<1>3. req[p].op = "join" => JoinPasses(req[p])
  BY <1>1 DEF Passes
<1>4. JoinFits'
  <2>1. req[p].op = "join" =>
          /\ RoomToWait(req[p].user) /\ UnusedEntries # {}
          /\ \A e \in EntriesOf(req[p].user) :
               <<entries[e].band, entries[e].slot>> # <<req[p].band, req[p].slot>>
    BY <1>3 DEF JoinPasses
  <2>2. req[p].op = "join" /\ pc'[p] = "checked" =>
          /\ RoomToWait(req[p].user)' /\ UnusedEntries' # {}
          /\ \A e \in EntriesOf(req[p].user)' :
               <<entries'[e].band, entries'[e].slot>> # <<req'[p].band, req'[p].slot>>
    BY <1>1, <2>1 DEF RoomToWait, EntriesOf, Waiting, UnusedEntries
  <2> QED BY <1>1, <2>2 DEF JoinFits
<1>5. req[p].op = "ban" => Touched(req[p]) = PersonalOf(req[p].target)
  BY DEF Touched
<1>6. BanSees'
  BY <1>1, <1>5 DEF BanSees, PersonalOf, ConfirmedIds, Confirmed
<1> QED BY <1>2, <1>4, <1>6 DEF SafeQueue

LEMMA WriteQueue ==
  ASSUME Whole, NEW p \in Procs, Write(p), TakeMatches'
  PROVE  SafeQueue'
<1>1. WaitlistBounded' /\ \A u \in Users : IsFiniteSet(EntriesOf(u)')
  <2>1. CASE Dwindling
    BY <2>1, DwindlingBounded DEF Whole, Safe
  <2>2. \A q \in Procs : CommitJoin(q) => WaitlistBounded' /\ \A u \in Users : IsFiniteSet(EntriesOf(u)')
    BY JoinBounded
  <2>3. Next
    BY DEF Next
  <2> QED BY <2>1, <2>2, <2>3, EntrySteps
<1>2. \A q \in Procs : pc'[q] # "checked"
  <2>1. pc[p] = "checked" /\ pc' = [pc EXCEPT ![p] = "idle"]
    BY DEF Write, Ready, CommitCreate, CommitStaff, CommitPriority, CommitDelete, CommitUpdate,
       CommitJoin, CommitTake, CommitBan, CommitDeleteBand, Commit, Answered
  <2> QED BY <2>1 DEF Whole, Safe, SafeBookings, LockOwned, Typed, TypeOK
<1> QED BY <1>1, <1>2 DEF SafeQueue, JoinFits, BanSees

LEMMA WholeStep == Whole /\ [Next]_vars => Whole'
<1> SUFFICES ASSUME Whole, [Next]_vars PROVE Whole'
  OBVIOUS
<1>1. Safe' /\ Typed' /\ TakeMatches'
  BY SafeStep, TakeMatchesStep DEF Whole, Safe
<1>2. now <= now'
  <2>1. now \in Nat
    BY BookingsAssumption DEF Whole, Safe, Typed, TypeOK
  <2>2. CASE Tick
    BY <2>1, <2>2 DEF Tick
  <2>3. CASE now' = now
    BY <2>1, <2>3
  <2>4. ASSUME NEW p \in Procs, Submit(p) PROVE now' = now
    BY <2>4 DEF Submit, SubmitCreate, SubmitOffice, SubmitDelete, SubmitUpdate, SubmitJoin,
       SubmitTake, SubmitBan, SubmitDeleteBand, Start
  <2>5. ASSUME NEW p \in Procs, Write(p) PROVE now' = now
    BY <2>5 DEF Write, CommitCreate, CommitStaff, CommitPriority, CommitDelete, CommitUpdate,
       CommitJoin, CommitTake, CommitBan, CommitDeleteBand
  <2>6. ASSUME NEW p \in Procs, Unblock(p) \/ Check(p) \/ Refuse(p) \/ Abort(p) \/ BreakDeadlock(p)
        PROVE  now' = now
    BY <2>6 DEF Unblock, Check, Refuse, Abort, BreakDeadlock
  <2>7. Background \/ UNCHANGED vars => Tick \/ now' = now
    BY DEF Background, Leave, Deliver, CleanupPast, ChangeSettings, Moderate, vars
  <2> QED BY <2>2, <2>3, <2>4, <2>5, <2>6, <2>7 DEF Next
<1>3. ASSUME NEW p \in Procs, Check(p) \/ Write(p) PROVE SafeQueue'
  BY <1>1, <1>3, CheckQueue, WriteQueue
<1>4. ASSUME ~ \E p \in Procs : Check(p) \/ Write(p) PROVE SafeQueue'
  <2>1. Quiet
    BY <1>4, QuietSteps DEF Next, BreakDeadlock, Whole
  <2>2. Dwindling
    BY <1>4, EntrySteps DEF Write
  <2> QED BY <1>1, <1>2, <2>1, <2>2, QuietQueue DEF Whole
<1> QED BY <1>1, <1>3, <1>4 DEF Whole

LEMMA WholeInit == Init => Whole
<1> SUFFICES ASSUME Init PROVE Whole
  OBVIOUS
<1>1. \A u : EntriesOf(u) = {}
  BY DEF Init, EntriesOf, Waiting, NoEntry
<1>2. IsFiniteSet({}) /\ Cardinality({}) <= MaxEntries
  BY FS_EmptySet, BookingsAssumption
<1>3. \A p \in Procs : pc[p] = "idle"
  BY DEF Init
<1>4. SafeQueue
  BY <1>1, <1>2, <1>3 DEF SafeQueue, WaitlistBounded, JoinFits, TakeMatches, BanSees
<1> QED BY <1>4, SafeInit DEF Whole

(* Every reachable state is typed and safe (BookingsInv): with any number  *)
(* of requests under way, whoever passed the checks under the lock still   *)
(* may do what it is going to do, although settings, moderation, leaving   *)
(* the list and its cleanup take no lock.                                  *)
THEOREM InvariantHolds == Spec => []BookingsInv
<1>1. Spec => []Whole
  BY WholeInit, WholeStep, PTL DEF Spec
<1>2. Whole => BookingsInv
  BY DEF Whole, Safe, Typed, BookingsInv
<1> QED BY <1>1, <1>2, PTL

(* Nobody is on the waiting list twice for the same time, nor beyond       *)
(* MAX_ENTRIES_PER_USER, however many requests of one member race.         *)
THEOREM ListsStayBounded == Spec => []WaitlistBounded
<1>1. BookingsInv => WaitlistBounded
  BY DEF BookingsInv, SafeQueue
<1> QED BY <1>1, InvariantHolds, PTL

(* A waiting entry that is still waiting after a step has not been touched. *)
LEMMA WaitingUntouched ==
  ASSUME Whole, [Next]_vars, NEW e \in EntryIds, Waiting(e), Waiting(e)'
  PROVE  entries'[e] = entries[e]
<1>1. CASE Dwindling
  BY <1>1 DEF Dwindling, GoneEntry, NoEntry, Waiting
<1>2. ASSUME NEW p \in Procs, CommitJoin(p) PROVE entries'[e] = entries[e]
  <2>1. PICK n, x : n \in UnusedEntries /\ entries' = [entries EXCEPT ![n] = x]
    BY <1>2, JoinAdds
  <2> QED BY <2>1 DEF UnusedEntries, Waiting, Whole, Safe, Typed, TypeOK
<1> QED BY <1>1, <1>2, EntrySteps

(* Why an entry stops waiting.                                             *)
LEMMA EntryLeaves ==
  ASSUME Whole, [Next]_vars, NEW e \in EntryIds, Waiting(e), ~Waiting(e)'
  PROVE  \/ Leave(e)
         \/ ~InFuture(entries[e].slot, now)
         \/ status'[entries[e].user] \in {"banned", "deleted"}
         \/ entries[e].band # None /\ entries[e].band \notin bands'
         \/ \E i \in UnusedBookings :
              /\ bookings'[i].state = "confirmed" /\ bookings'[i].by = entries[e].user
              /\ bookings'[i].slot = entries[e].slot /\ bookings'[i].band = entries[e].band
<1> DEFINE Gone == entries'[e] # entries[e]
<1>1. Gone
  BY DEF Waiting
<1>2. ASSUME NEW es, entries' = Dropped(es) PROVE e \in es
  BY <1>1, <1>2 DEF Dropped, Whole, Safe, Typed, TypeOK
<1>3. CASE \E f \in EntryIds : Leave(f)
  BY <1>2, <1>3 DEF Leave
<1>4. CASE CleanupPast
  BY <1>2, <1>4 DEF CleanupPast, StartedEntries
<1>5. ASSUME NEW p \in Procs, CommitTake(p)
      PROVE  \E i \in UnusedBookings :
              /\ bookings'[i].state = "confirmed" /\ bookings'[i].by = entries[e].user
              /\ bookings'[i].slot = entries[e].slot /\ bookings'[i].band = entries[e].band
  <2> DEFINE r == req[p]
             n == NextOf(UnusedBookings)
  <2>1. /\ pc[p] = "checked" /\ r.op = "take" /\ bookings' = Inserted(r, KindFor(r))
        /\ e = r.entry
    BY <1>2, <1>5 DEF CommitTake, Ready, Commit
  <2>2. /\ entries[e].user = r.user /\ entries[e].band = r.band /\ entries[e].slot = r.slot
    BY <2>1 DEF Whole, SafeQueue, TakeMatches, Waiting
  <2>3. n \in UnusedBookings
    <3>1. UnusedBookings # {} /\ UnusedBookings \in SUBSET Nat
      BY <2>1, BookingsAssumption DEF Whole, Safe, SafeBookings, SeenShape, Inserting, UnusedBookings
    <3> QED BY <3>1, NextOfIsMember
  <2>4. bookings'[n] = NewBooking(KindFor(r), r.band, r.user, r.slot)
    BY <2>1, <2>3 DEF Inserted, UnusedBookings, Whole, Safe, Typed, TypeOK
  <2> HIDE DEF n, r
  <2> QED BY <2>2, <2>3, <2>4 DEF NewBooking
<1>6. ASSUME NEW p \in Procs, CommitBan(p)
      PROVE  status'[entries[e].user] \in {"banned", "deleted"}
  <2>1. entries[e].user = req[p].target
    BY <1>2, <1>6 DEF CommitBan, Commit, EntriesOf
  <2>2. req[p].target \in Users /\ req[p].change \in {"banned", "deleted"}
    BY <1>6 DEF CommitBan, Ready, Whole, Safe, Typed, RequestShape, Shaped
  <2> QED BY <1>6, <2>1, <2>2 DEF CommitBan, Whole, Safe, Typed, TypeOK
<1>7. ASSUME NEW p \in Procs, CommitDeleteBand(p)
      PROVE  entries[e].band # None /\ entries[e].band \notin bands'
  <2>1. entries' = Dropped(EntriesForBand(req[p].band)) /\ bands' = bands \ {req[p].band}
    BY <1>7 DEF CommitDeleteBand, Commit
  <2>2. entries[e].band = req[p].band
    BY <1>2, <2>1 DEF EntriesForBand
  <2>3. req[p].band \in Bands
    BY <1>7 DEF CommitDeleteBand, Ready, Whole, Safe, Typed, RequestShape, Shaped
  <2> QED BY <2>1, <2>2, <2>3, BookingsAssumption
<1>8. ASSUME NEW p \in Procs, CommitJoin(p) PROVE FALSE
  <2>1. PICK n, x : n \in UnusedEntries /\ entries' = [entries EXCEPT ![n] = x]
    BY <1>8, JoinAdds
  <2> QED BY <1>1, <2>1 DEF UnusedEntries, Waiting, Whole, Safe, Typed, TypeOK
<1>9. ASSUME NEW p \in Procs,
             \/ Submit(p) \/ Unblock(p) \/ Check(p) \/ Refuse(p) \/ Abort(p) \/ BreakDeadlock(p)
             \/ CommitCreate(p) \/ CommitStaff(p) \/ CommitPriority(p) \/ CommitDelete(p) \/ CommitUpdate(p)
      PROVE  FALSE
  <2>1. \A q \in Procs : Submit(q) => entries' = entries
    BY DEF Submit, SubmitCreate, SubmitOffice, SubmitDelete, SubmitUpdate, SubmitJoin,
       SubmitTake, SubmitBan, SubmitDeleteBand, Start, data
  <2>2. Unblock(p) \/ Check(p) \/ Refuse(p) \/ Abort(p) \/ BreakDeadlock(p) => entries' = entries
    BY DEF Unblock, Check, Refuse, Abort, BreakDeadlock, data
  <2>3. CommitCreate(p) \/ CommitStaff(p) \/ CommitPriority(p) \/ CommitDelete(p) \/ CommitUpdate(p)
          => entries' = entries
    BY DEF CommitCreate, CommitStaff, CommitPriority, CommitDelete, CommitUpdate, Commit
  <2> QED BY <1>1, <1>9, <2>1, <2>2, <2>3
<1>10. (\E f \in EntryIds : Deliver(f)) \/ ChangeSettings \/ Moderate \/ Tick \/ UNCHANGED vars
         => entries' = entries
  BY DEF Deliver, ChangeSettings, Moderate, Tick, data, vars
<1> QED BY <1>1, <1>3, <1>4, <1>5, <1>6, <1>7, <1>8, <1>9, <1>10 DEF Next, Write, Background

(* A place in the queue is lost with a booking of its range, or because    *)
(* its owner leaves or is banned, its band is deleted or its time starts:  *)
(* a failed attempt to take the time never costs it (EntryKept).           *)
THEOREM PlacesAreKept == Spec => EntryKept
<1>1. Spec => []Whole
  BY WholeInit, WholeStep, PTL DEF Spec
<1>2. Whole /\ [Next]_vars =>
        [\A e \in EntryIds :
           LET x == entries[e] IN
           Waiting(e) /\ ~Waiting(e)' =>
             \/ Leave(e)
             \/ ~InFuture(x.slot, now)
             \/ status'[x.user] \in {"banned", "deleted"}
             \/ x.band # None /\ x.band \notin bands'
             \/ \E i \in UnusedBookings :
                  /\ bookings'[i].state = "confirmed" /\ bookings'[i].by = x.user
                  /\ bookings'[i].slot = x.slot /\ bookings'[i].band = x.band]_vars
  BY EntryLeaves
<1> QED BY <1>1, <1>2, PTL DEF Spec, EntryKept

(* Who changes the status of members.                                      *)
LEMMA StatusSteps ==
  ASSUME [Next]_vars
  PROVE  status' = status \/ Moderate \/ \E p \in Procs : CommitBan(p)
<1>1. ASSUME NEW p \in Procs, Submit(p) PROVE status' = status
  BY <1>1 DEF Submit, SubmitCreate, SubmitOffice, SubmitDelete, SubmitUpdate, SubmitJoin,
     SubmitTake, SubmitBan, SubmitDeleteBand, Start, data
<1>2. ASSUME NEW p \in Procs, Write(p), ~CommitBan(p) PROVE status' = status
  BY <1>2 DEF Write, CommitCreate, CommitStaff, CommitPriority, CommitDelete, CommitUpdate,
     CommitJoin, CommitTake, CommitDeleteBand
<1>3. ASSUME NEW p \in Procs, Unblock(p) \/ Check(p) \/ Refuse(p) \/ Abort(p) \/ BreakDeadlock(p)
      PROVE  status' = status
  BY <1>3 DEF Unblock, Check, Refuse, Abort, BreakDeadlock, data
<1>4. Background \/ UNCHANGED vars => status' = status \/ Moderate
  BY DEF Background, Leave, Deliver, CleanupPast, ChangeSettings, Tick, vars, data
<1> QED BY <1>1, <1>2, <1>3, <1>4 DEF Next

LEMMA BanLeavesNothing ==
  ASSUME Whole, [Next]_vars, NEW u \in Users,
         status'[u] \in {"banned", "deleted"}, status'[u] # status[u]
  PROVE  ~Holds(u)'
<1>1. ~Moderate
  BY DEF Moderate, Whole, Safe, Typed, TypeOK
<1>2. PICK p \in Procs : CommitBan(p)
  BY <1>1, StatusSteps
<1>3. /\ pc[p] = "checked" /\ req[p].op = "ban" /\ now' = now
      /\ bookings' = Cancelled(seen[p]) /\ entries' = Dropped(EntriesOf(req[p].target))
      /\ status' = [status EXCEPT ![req[p].target] = req[p].change]
  BY <1>2 DEF CommitBan, Ready, Commit
<1>4. u = req[p].target
  BY <1>3 DEF Whole, Safe, Typed, TypeOK
<1>5. PersonalOf(u) \subseteq seen[p]
  BY <1>3, <1>4 DEF Whole, SafeQueue, BanSees
<1>6. \A e \in EntryIds : ~(entries'[e].state = "waiting" /\ entries'[e].user = u)
  BY <1>3, <1>4 DEF Dropped, EntriesOf, Waiting, GoneEntry, NoEntry
<1>7. ASSUME NEW i \in BookingIds, bookings'[i].state = "confirmed", bookings'[i].by = u,
             bookings'[i].kind = "personal", bookings'[i].slot.end > now
      PROVE  FALSE
  <2>1. i \notin seen[p] /\ bookings'[i] = bookings[i]
    BY <1>3, <1>7 DEF Cancelled, CancelledRow, NoBooking
  <2>2. bookings[i].slot \in Slot /\ now \in Nat
    BY <1>7, <2>1, BookingsAssumption DEF Whole, Safe, Typed, TypeOK
  <2>3. ~Ended(bookings[i].slot, now)
    BY <1>7, <2>1, <2>2 DEF Ended, Slot
  <2> QED BY <1>5, <1>7, <2>1, <2>3 DEF PersonalOf, ConfirmedIds, Confirmed
<1> QED BY <1>3, <1>6, <1>7 DEF Holds, ConfirmedIds, Confirmed, Waiting

(* A ban or a deletion of a member leaves nothing in the member's hands,   *)
(* whatever the member booked or waited for in the meantime.               *)
THEOREM BansRelease == Spec => BanReleases
<1>1. Spec => []Whole
  BY WholeInit, WholeStep, PTL DEF Spec
<1>2. Whole /\ [Next]_vars =>
        [\A u \in Users :
           status'[u] \in {"banned", "deleted"} /\ status'[u] # status[u] => ~Holds(u)']_vars
  BY BanLeavesNothing
<1> QED BY <1>1, <1>2, PTL DEF Spec, BanReleases

(* What a commit that writes bookings tells the waiting list: the offers   *)
(* for slots that include every one it took from a confirmed booking.      *)
LEMMA FreedSlots ==
  ASSUME Whole, NEW p \in Procs, Write(p)
  PROVE  \E freed : /\ offers' = offers \cup OffersFor(freed, bookings', entries')
                    /\ \A i \in ConfirmedIds :
                         \/ bookings'[i].state = "confirmed" /\ bookings'[i].slot = bookings[i].slot
                         \/ bookings[i].slot \in freed
<1> DEFINE Told(freed) ==
      /\ offers' = offers \cup OffersFor(freed, bookings', entries')
      /\ \A i \in ConfirmedIds :
           \/ bookings'[i].state = "confirmed" /\ bookings'[i].slot = bookings[i].slot
           \/ bookings[i].slot \in freed
           r == req[p]
<1>1. ASSUME NEW freed, NEW bk, NEW en, Commit(p, freed, bk, en)
      PROVE  /\ offers' = offers \cup OffersFor(freed, bookings', entries')
             /\ bookings' = bk /\ entries' = en
  BY <1>1 DEF Commit
<1>2. /\ seen[p] \subseteq ConfirmedIds
      /\ r.op \in Inserting => UnusedBookings # {}
      /\ r.op \in {"delete", "update"} => seen[p] = {r.id}
  <2>1. pc[p] = "checked"
    BY DEF Write, Ready, CommitCreate, CommitStaff, CommitPriority, CommitDelete, CommitUpdate,
       CommitJoin, CommitTake, CommitBan, CommitDeleteBand
  <2> QED BY <2>1 DEF Whole, Safe, SafeBookings, SeenShape, Inserting
<1>3. r.op \in Inserting => NextOf(UnusedBookings) \in UnusedBookings
  <2>1. UnusedBookings \in SUBSET Nat
    BY BookingsAssumption DEF UnusedBookings
  <2> QED BY <1>2, <2>1, NextOfIsMember
<1>4. bookings \in [BookingIds -> Booking] /\ ConfirmedIds \subseteq BookingIds
      /\ UnusedBookings \cap ConfirmedIds = {}
  BY DEF Whole, Safe, Typed, TypeOK, ConfirmedIds, Confirmed, UnusedBookings
<1>5. \A i \in ConfirmedIds : i \notin seen[p] => Cancelled(seen[p])[i] = bookings[i]
  BY <1>4 DEF Cancelled
<1>6. \A i \in ConfirmedIds : i \in seen[p] => bookings[i].slot \in SlotsOf(seen[p])
  BY DEF SlotsOf
<1>7. \A i \in ConfirmedIds : bookings[i].state = "confirmed"
  BY DEF ConfirmedIds, Confirmed
<1>8. CASE CommitCreate(p) \/ CommitStaff(p) \/ CommitTake(p)
  <2>1. r.op \in Inserting
    BY <1>8 DEF CommitCreate, CommitStaff, CommitTake, Ready, Inserting
  <2>2. PICK k : bookings' = Inserted(r, k)
    BY <1>8 DEF CommitCreate, CommitStaff, CommitTake, Commit
  <2>3. offers' = offers \cup OffersFor({}, bookings', entries')
    BY <1>1, <1>8 DEF CommitCreate, CommitStaff, CommitTake
  <2>4. \A i \in ConfirmedIds : bookings'[i] = bookings[i]
    BY <1>3, <1>4, <2>1, <2>2 DEF Inserted
  <2>5. Told({})
    BY <1>7, <2>3, <2>4
  <2> QED BY <2>5
<1>9. CASE CommitPriority(p)
  <2> DEFINE n == NextOf(UnusedBookings)
             x == NewBooking("staff", None, r.user, r.slot)
  <2>1. Commit(p, SlotsOf(seen[p]), [Cancelled(seen[p]) EXCEPT ![n] = x], entries) /\ n \in UnusedBookings
    BY <1>3, <1>9 DEF CommitPriority, Ready, Inserting
  <2> HIDE DEF n, x
  <2>2. /\ offers' = offers \cup OffersFor(SlotsOf(seen[p]), bookings', entries')
        /\ bookings' = [Cancelled(seen[p]) EXCEPT ![n] = x]
    BY <1>1, <2>1
  <2>3. \A i \in ConfirmedIds : i \notin seen[p] => bookings'[i] = bookings[i]
    BY <1>4, <1>5, <2>1, <2>2
  <2>4. Told(SlotsOf(seen[p]))
    BY <1>6, <1>7, <2>2, <2>3
  <2> QED BY <2>4
<1>10. CASE CommitDelete(p) \/ CommitBan(p)
  <2>1. /\ offers' = offers \cup OffersFor(SlotsOf(seen[p]), bookings', entries')
        /\ bookings' = Cancelled(seen[p])
    BY <1>1, <1>10 DEF CommitDelete, CommitBan
  <2>2. Told(SlotsOf(seen[p]))
    BY <1>5, <1>6, <1>7, <2>1
  <2> QED BY <2>2
<1>11. CASE CommitUpdate(p)
  <2> DEFINE old == bookings[r.id]
             new == [old EXCEPT !.slot = IF r.slot = None THEN @ ELSE r.slot,
                                !.kind = IF r.change = None THEN @ ELSE r.change]
             freed == {old.slot} \ {new.slot}
  <2>1. r.op = "update" /\ Commit(p, freed, [bookings EXCEPT ![r.id] = new], entries)
    BY <1>11 DEF CommitUpdate, Ready
  <2>2. r.id \in ConfirmedIds /\ old \in Booking /\ old.state = "confirmed"
    BY <1>2, <1>4, <1>7, <2>1
  <2>3. new.state = "confirmed"
    BY <2>2 DEF Booking
  <2> HIDE DEF new
  <2>4. /\ offers' = offers \cup OffersFor(freed, bookings', entries')
        /\ bookings' = [bookings EXCEPT ![r.id] = new]
    BY <1>1, <2>1
  <2>5. \A i \in ConfirmedIds : bookings'[i] = IF i = r.id THEN new ELSE bookings[i]
    BY <1>4, <2>4
  <2>6. Told(freed)
    BY <1>7, <2>3, <2>4, <2>5
  <2> QED BY <2>6
<1>12. CASE CommitJoin(p)
  <2>1. offers' = offers \cup OffersFor({}, bookings', entries') /\ bookings' = bookings
    BY <1>1, <1>12 DEF CommitJoin
  <2>2. Told({})
    BY <1>7, <2>1
  <2> QED BY <2>2
<1>13. CASE CommitDeleteBand(p)
  <2> DEFINE bk == Cancelled(seen[p])
             cut == [i \in BookingIds |->
                       IF bk[i].band = r.band THEN [bk[i] EXCEPT !.band = None] ELSE bk[i]]
  <2>1. Commit(p, SlotsOf(seen[p]), cut, Dropped(EntriesForBand(r.band)))
    BY <1>13 DEF CommitDeleteBand
  <2>2. bk \in [BookingIds -> Booking]
    BY TablesTyped DEF Whole, Safe, BookingTable
  <2>3. \A i \in ConfirmedIds : cut[i].state = bk[i].state /\ cut[i].slot = bk[i].slot
    <3> HIDE DEF bk
    <3> QED BY <1>4, <2>2 DEF Booking
  <2>4. \A i \in ConfirmedIds : i \notin seen[p] => bk[i] = bookings[i]
    BY <1>5
  <2> HIDE DEF cut, bk
  <2>5. offers' = offers \cup OffersFor(SlotsOf(seen[p]), bookings', entries') /\ bookings' = cut
    BY <1>1, <2>1
  <2>6. Told(SlotsOf(seen[p]))
    BY <1>6, <1>7, <2>3, <2>4, <2>5
  <2> QED BY <2>6
<1> QED BY <1>8, <1>9, <1>10, <1>11, <1>12, <1>13 DEF Write

(* Nothing but the commit of a request frees time or makes offers.         *)
LEMMA OnlyWritesOffer ==
  ASSUME Whole, [Next]_vars, ~ \E p \in Procs : Write(p)
  PROVE  bookings' = bookings /\ offers' \subseteq offers
<1>1. ASSUME NEW p \in Procs, Submit(p) PROVE bookings' = bookings /\ offers' = offers
  BY <1>1 DEF Submit, SubmitCreate, SubmitOffice, SubmitDelete, SubmitUpdate, SubmitJoin,
     SubmitTake, SubmitBan, SubmitDeleteBand, Start, data
<1>2. ASSUME NEW p \in Procs, Unblock(p) \/ Check(p) \/ Refuse(p) \/ Abort(p) \/ BreakDeadlock(p)
      PROVE  bookings' = bookings /\ offers' = offers
  BY <1>2 DEF Unblock, Check, Refuse, Abort, BreakDeadlock, data
<1>3. Background \/ UNCHANGED vars => bookings' = bookings /\ offers' \subseteq offers
  BY DEF Background, Leave, Deliver, CleanupPast, ChangeSettings, Moderate, Tick, vars, data
<1> QED BY <1>1, <1>2, <1>3 DEF Next

LEMMA WaiterIsTold ==
  ASSUME Whole, [Next]_vars, NEW e \in EntryIds, NEW s, s = entries[e].slot,
         Waiting(e), Waiting(e)', Overlapping(s) # {}, Overlapping(s)' = {},
         RangeValid(settings, s, now, FALSE), entries[e].user \notin Muted
  PROVE  e \in offers'
<1>1. PICK i \in ConfirmedIds : Overlaps(s, bookings[i].slot)
  BY DEF Overlapping
<1>2. i \in BookingIds /\ s \in Slots /\ bookings[i].slot \in Slots
  BY DEF Whole, Safe, Typed, TypeOK, ConfirmedIds, Confirmed, Waiting
<1>3. ~(bookings'[i].state = "confirmed" /\ bookings'[i].slot = bookings[i].slot)
  BY <1>1, <1>2 DEF Overlapping, ConfirmedIds, Confirmed
<1>4. PICK p \in Procs : Write(p)
  BY <1>3, OnlyWritesOffer DEF ConfirmedIds, Confirmed
<1>5. PICK freed : /\ offers' = offers \cup OffersFor(freed, bookings', entries')
                   /\ bookings[i].slot \in freed
  BY <1>3, <1>4, FreedSlots
<1>6. entries'[e] = entries[e] /\ entries'[e].state = "waiting"
  BY WaitingUntouched DEF Waiting
<1>7. Overlaps(bookings[i].slot, s)
  BY <1>1, <1>2, OverlapsSymmetric
<1>8. FreeOf(s, TakenIn(bookings'))
  <2>1. \A j \in BookingIds : bookings'[j].state = "confirmed" => ~Overlaps(s, bookings'[j].slot)
    BY DEF Overlapping, ConfirmedIds, Confirmed
  <2> QED BY <2>1 DEF FreeOf, TakenIn
<1>9. InFuture(s, now) /\ TimeAvailable(settings, s, now, FALSE, TakenIn(bookings'))
  BY <1>8 DEF RangeValid, TimeAvailable
<1>10. e \in OffersFor(freed, bookings', entries')
  BY <1>5, <1>6, <1>7, <1>9 DEF OffersFor
<1> QED BY <1>5, <1>10

(* The commit that ends the last booking in a waiter's way sends the offer *)
(* (WaiterTold), whichever of the operations ended it.                     *)
THEOREM WaitersAreTold == Spec => WaiterTold
<1>1. Spec => []Whole
  BY WholeInit, WholeStep, PTL DEF Spec
<1>2. ASSUME Whole, [Next]_vars
      PROVE  \A e \in EntryIds :
               LET x == entries[e] IN
               /\ Waiting(e) /\ Waiting(e)'
               /\ Overlapping(x.slot) # {} /\ Overlapping(x.slot)' = {}
               /\ RangeValid(settings, x.slot, now, FALSE)
               /\ x.user \notin Muted
               => e \in offers'
  <2> SUFFICES ASSUME NEW e \in EntryIds,
                      /\ Waiting(e) /\ Waiting(e)'
                      /\ Overlapping(entries[e].slot) # {} /\ Overlapping(entries[e].slot)' = {}
                      /\ RangeValid(settings, entries[e].slot, now, FALSE)
                      /\ entries[e].user \notin Muted
               PROVE  e \in offers'
    OBVIOUS
  <2>1. entries'[e] = entries[e]
    BY <1>2, WaitingUntouched
  <2>2. ASSUME NEW s, s = entries[e].slot PROVE Overlapping(s) # {} /\ Overlapping(s)' = {}
    BY <2>1, <2>2 DEF Overlapping, ConfirmedIds, Confirmed
  <2> QED BY <1>2, <2>2, WaiterIsTold
<1>3. Whole /\ [Next]_vars =>
        [\A e \in EntryIds :
           LET x == entries[e] IN
           /\ Waiting(e) /\ Waiting(e)'
           /\ Overlapping(x.slot) # {} /\ Overlapping(x.slot)' = {}
           /\ RangeValid(settings, x.slot, now, FALSE)
           /\ x.user \notin Muted
           => e \in offers']_vars
  BY <1>2
<1> QED BY <1>1, <1>3, PTL DEF Spec, WaiterTold

(* The half-hour grid: a range starts a whole number of booking steps      *)
(* after the room opens.                                                   *)
OnGrid ==
  \A cfg \in SettingsChoices, s \in Slots :
    ClockOf(s.start) >= cfg.open => \E i \in Nat : ClockOf(s.start) = cfg.open + Step * i

(* A point in time is a clock time of a day.                               *)
LEMMA DayAndClock ==
  ASSUME NEW t \in Nat
  PROVE  /\ t = (DayOf(t) * DayUnits) + ClockOf(t)
         /\ DayOf(t) \in Nat /\ ClockOf(t) \in Nat /\ ClockOf(t) < DayUnits
<1>1. ASSUME NEW d \in Nat \ {0}
      PROVE  t = (t \div d) * d + (t % d) /\ t \div d \in Nat /\ t % d \in Nat /\ t % d < d
  OBVIOUS
<1> QED BY <1>1, RulesAssumption DEF DayOf, ClockOf

(* On the grid, a range that is valid and free is among the listed ones.   *)
LEMMA AvailableIsListed ==
  ASSUME OnGrid, NEW cfg \in SettingsChoices, NEW s \in Slots, NEW t \in Nat, NEW taken,
         TimeAvailable(cfg, s, t, FALSE, taken)
  PROVE  Listed(cfg, s, t, FALSE, taken)
<1> DEFINE day == DayOf(s.start)
           length == Length(s)
<1>1. /\ s \in Slot /\ cfg \in SettingsRecord
      /\ DayUnits \in Nat \ {0} /\ Step \in Nat \ {0}
  BY BookingsAssumption, RulesAssumption
<1>2. /\ s.start \in Nat /\ s.end \in Nat /\ cfg.open \in Nat /\ cfg.close \in Nat
      /\ s = [start |-> s.start, end |-> s.end]
  BY <1>1 DEF Slot, SettingsRecord
<1>3. /\ WholeSteps(s) /\ SameDay(s) /\ WithinRoomHours(cfg, s)
      /\ InFuture(s, t) /\ WithinHorizon(s, t) /\ FreeOf(s, taken)
      /\ day >= DayOf(t) /\ day <= DayOf(t + HorizonDays * DayUnits)
      /\ DateOpen(cfg, day, t) /\ Weekday(day) \in cfg.days
  BY DEF TimeAvailable, RangeValid
<1>4. PICK i \in Nat : ClockOf(s.start) = cfg.open + Step * i
  BY <1>3 DEF OnGrid, WithinRoomHours
<1>5. /\ s.start = day * DayUnits + ClockOf(s.start)
      /\ ClockOf(s.start) \in Nat /\ ClockOf(s.start) < DayUnits /\ day \in Nat
  BY <1>2, DayAndClock
<1>6. s.end = day * DayUnits + ClockOf(s.end) /\ ClockOf(s.end) \in Nat
  BY <1>2, <1>3, DayAndClock DEF SameDay
<1>7. i \in 0..DayUnits
  <2>1. Step * i >= i
    BY <1>1
  <2>2. Step * i <= ClockOf(s.start)
    BY <1>1, <1>2, <1>4
  <2> QED BY <1>1, <1>5, <2>1, <2>2
<1>8. length \in Nat /\ length > 0 /\ length % Step = 0 /\ s.end = s.start + length
  BY <1>2, <1>3 DEF WholeSteps, Length
<1>9. s.start = day * DayUnits + cfg.open + Step * i
  BY <1>1, <1>2, <1>4, <1>5
<1>10. s = [start |-> day * DayUnits + cfg.open + Step * i,
            end |-> day * DayUnits + cfg.open + Step * i + length]
  BY <1>2, <1>8, <1>9
<1>11. s.end <= day * DayUnits + cfg.close
  <2>1. ClockOf(s.end) <= cfg.close /\ day * DayUnits \in Nat
    BY <1>1, <1>3, <1>5 DEF WithinRoomHours
  <2> QED BY <1>2, <1>6, <2>1
<1> HIDE DEF day, length
<1>12. s \in ListedSlots(cfg, day, length, t, FALSE, taken)
  BY <1>3, <1>7, <1>8, <1>10, <1>11 DEF ListedSlots
<1> QED BY <1>12 DEF Listed, day, length

(* An offer that goes out can be taken: the commit that carries it leaves  *)
(* the waiter on the list and the range among those create_booking finds,  *)
(* for ranges on the half-hour grid (OfferTakeable).                       *)
THEOREM OffersCanBeTaken ==
  ASSUME OnGrid
  PROVE  Spec => OfferTakeable
<1>1. Spec => []Whole
  BY WholeInit, WholeStep, PTL DEF Spec
<1>2. ASSUME Whole, [Next]_vars, NEW e \in offers' \ offers
      PROVE  /\ Waiting(e)'
             /\ Listed(settings, entries[e].slot, now, FALSE, SlotsOf(ConfirmedIds))'
  <2>1. PICK p \in Procs : Write(p)
    BY <1>2, OnlyWritesOffer
  <2>2. PICK freed : e \in OffersFor(freed, bookings', entries')
    BY <1>2, <2>1, FreedSlots
  <2>3. /\ e \in EntryIds /\ entries'[e].state = "waiting"
        /\ TimeAvailable(settings, entries'[e].slot, now, FALSE, TakenIn(bookings'))
    BY <2>2 DEF OffersFor
  <2>4. settings' = settings /\ now' = now
    BY <2>1 DEF Write, CommitCreate, CommitStaff, CommitPriority, CommitDelete, CommitUpdate,
       CommitJoin, CommitTake, CommitBan, CommitDeleteBand
  <2>5. entries'[e].slot \in Slots /\ settings \in SettingsChoices /\ now \in Nat
    <3>1. Typed /\ Typed'
      BY <1>2, WholeStep DEF Whole, Safe
    <3> QED BY <2>3, <3>1, BookingsAssumption DEF Typed, TypeOK
  <2>6. Listed(settings, entries'[e].slot, now, FALSE, TakenIn(bookings'))
    BY <2>3, <2>5, AvailableIsListed
  <2>7. TakenIn(bookings') = SlotsOf(ConfirmedIds)'
    BY DEF TakenIn, SlotsOf, ConfirmedIds, Confirmed
  <2> QED BY <2>3, <2>4, <2>6, <2>7 DEF Waiting, Listed
<1>3. Whole /\ [Next]_vars =>
        [\A e \in offers' \ offers :
           /\ Waiting(e)'
           /\ Listed(settings, entries[e].slot, now, FALSE, SlotsOf(ConfirmedIds))']_vars
  BY <1>2
<1> QED BY <1>1, <1>3, PTL DEF Spec, OfferTakeable

-----------------------------------------------------------------------------
(* The limits of the bands *)

\* Slots of bookings of one band: of positive length, not beyond the horizon at t.
BandSlots(own, t) ==
  /\ IsFiniteSet(own)
  /\ \A s \in own : s \in Slot /\ s.end > s.start /\ WithinHorizon(s, t)

LEMMA LengthsNat ==
  ASSUME NEW own, IsFiniteSet(own), \A s \in own : s \in Slot /\ s.end > s.start
  PROVE  /\ \A s \in own : Lengths[s] = Length(s) /\ Length(s) \in Nat
         /\ SumOfLengths(own) \in Nat
<1>1. \A s \in own : Lengths[s] = Length(s) /\ Length(s) \in Nat
  BY DEF Lengths, Length, Slot
<1> QED BY <1>1, SumNat DEF SumOfLengths

LEMMA LengthsSubset ==
  ASSUME NEW own, IsFiniteSet(own), \A s \in own : s \in Slot /\ s.end > s.start,
         NEW part \in SUBSET own
  PROVE  SumOfLengths(part) <= SumOfLengths(own) /\ IsFiniteSet(part)
<1>1. \A s \in own : Lengths[s] \in Nat
  BY LengthsNat
<1> QED BY <1>1, SumSubset, FS_Subset DEF SumOfLengths

LEMMA LengthsAdd ==
  ASSUME NEW own, IsFiniteSet(own), \A s \in own : s \in Slot /\ s.end > s.start,
         NEW n \in Slot, n.end > n.start
  PROVE  SumOfLengths(own \cup {n}) <= SumOfLengths(own) + Length(n)
<1>1. Lengths[n] = Length(n) /\ Length(n) \in Nat
  BY DEF Lengths, Length, Slot
<1>2. \A s \in own \cup {n} : Lengths[s] \in Nat
  BY <1>1, LengthsNat
<1>3. SumOfLengths(own) \in Nat
  BY LengthsNat
<1> DEFINE all == own \cup {n}
<1>4. ASSUME n \in own PROVE SumOfLengths(all) <= SumOfLengths(own) + Length(n)
  <2>1. all = own
    BY <1>4
  <2> HIDE DEF all
  <2> QED BY <1>1, <1>3, <2>1
<1>5. ASSUME n \notin own PROVE SumOfLengths(all) <= SumOfLengths(own) + Length(n)
  <2>1. SumOfLengths(all) = SumOfLengths(own) + Lengths[n]
    BY <1>2, <1>5, SumAdd DEF SumOfLengths
  <2> HIDE DEF all
  <2> QED BY <1>1, <1>3, <2>1
<1> QED BY <1>4, <1>5

(* A band that gives something up, or waits, stays within its limits.      *)
LEMMA LimitsShrink ==
  ASSUME NEW cfg \in SettingsRecord, NEW t \in Nat, NEW u \in Nat, t <= u,
         NEW own, BandSlots(own, t), NEW part \in SUBSET own
  PROVE  /\ BandSlots(part, u)
         /\ MinutesInWindow(part, u) \in Nat /\ MinutesInWindow(own, t) \in Nat
         /\ MinutesInWindow(part, u) <= MinutesInWindow(own, t)
         /\ \A day : /\ MinutesOnDay(part, day) \in Nat /\ MinutesOnDay(own, day) \in Nat
                     /\ MinutesOnDay(part, day) <= MinutesOnDay(own, day)
         /\ WithinLimits(cfg, own, t) => WithinLimits(cfg, part, u)
<1>1. HorizonDays * DayUnits \in Nat
  BY RulesAssumption
<1>2. \A s \in own : s \in Slot /\ s.start \in Nat /\ s.end > s.start /\ WithinHorizon(s, t)
  BY DEF BandSlots, Slot
<1>3. \A s \in own : (InFuture(s, u) => InFuture(s, t)) /\ WithinHorizon(s, u)
  BY <1>1, <1>2 DEF InFuture, WithinHorizon
<1>4. BandSlots(part, u)
  BY <1>2, <1>3, FS_Subset DEF BandSlots
<1> DEFINE W(o, v) == {s \in o : InFuture(s, v) /\ WithinHorizon(s, v)}
           D(o, day) == {s \in o : DayOf(s.start) = day}
<1>5. /\ W(part, u) \in SUBSET W(own, t) /\ W(own, t) \in SUBSET own
      /\ \A day : D(part, day) \in SUBSET D(own, day) /\ D(own, day) \in SUBSET own
  BY <1>2, <1>3
<1>6. \A o \in SUBSET own : /\ IsFiniteSet(o) /\ SumOfLengths(o) \in Nat
                            /\ \A q \in SUBSET o : SumOfLengths(q) <= SumOfLengths(o)
  <2>1. \A o \in SUBSET own : IsFiniteSet(o) /\ \A s \in o : s \in Slot /\ s.end > s.start
    BY <1>2, FS_Subset DEF BandSlots
  <2> QED BY <2>1, LengthsNat, LengthsSubset
<1>7. /\ MinutesInWindow(part, u) = SumOfLengths(W(part, u))
      /\ MinutesInWindow(own, t) = SumOfLengths(W(own, t))
      /\ \A day : /\ MinutesOnDay(part, day) = SumOfLengths(D(part, day))
                  /\ MinutesOnDay(own, day) = SumOfLengths(D(own, day))
  BY DEF MinutesInWindow, MinutesOnDay
<1>8. \A day : D(part, day) \in SUBSET own
  BY <1>5
<1>9. W(part, u) \in SUBSET own
  BY <1>5
<1> HIDE DEF W, D
<1>10. /\ MinutesInWindow(part, u) \in Nat /\ MinutesInWindow(own, t) \in Nat
       /\ MinutesInWindow(part, u) <= MinutesInWindow(own, t)
  BY <1>5, <1>6, <1>7, <1>9
<1>11. \A day : /\ MinutesOnDay(part, day) \in Nat /\ MinutesOnDay(own, day) \in Nat
                /\ MinutesOnDay(part, day) <= MinutesOnDay(own, day)
  BY <1>5, <1>6, <1>7, <1>8
<1>12. cfg.weekly \in Nat /\ cfg.daily \in Nat
  BY DEF SettingsRecord
<1>13. WithinLimits(cfg, own, t) => WithinLimits(cfg, part, u)
  BY <1>10, <1>11, <1>12 DEF WithinLimits
<1> QED BY <1>4, <1>10, <1>11, <1>13

(* What passes the checks of a booking leaves the band within its limits.  *)
LEMMA LimitsGrow ==
  ASSUME NEW cfg \in SettingsRecord, NEW t \in Nat,
         NEW own, BandSlots(own, t), WithinLimits(cfg, own, t),
         NEW n \in Slot, n.end > n.start, WithinHorizon(n, t),
         WithinWeekly(cfg, own, t, n), WithinDaily(cfg, own, n)
  PROVE  BandSlots(own \cup {n}, t) /\ WithinLimits(cfg, own \cup {n}, t)
<1> DEFINE W(o) == {s \in o : InFuture(s, t) /\ WithinHorizon(s, t)}
           D(o, day) == {s \in o : DayOf(s.start) = day}
           all == own \cup {n}
<1>1. BandSlots(all, t)
  BY FS_AddElement, FS_Subset DEF BandSlots
<1>2. \A o \in SUBSET all : /\ IsFiniteSet(o) /\ SumOfLengths(o) \in Nat
                            /\ \A s \in o : s \in Slot /\ s.end > s.start
                            /\ SumOfLengths(o \cup {n}) <= SumOfLengths(o) + Length(n)
                            /\ SumOfLengths(o \cup {n}) \in Nat
  <2>1. \A o \in SUBSET all : IsFiniteSet(o) /\ \A s \in o : s \in Slot /\ s.end > s.start
    BY <1>1, FS_Subset DEF BandSlots
  <2>2. \A o \in SUBSET all : o \cup {n} \in SUBSET all
    OBVIOUS
  <2> HIDE DEF all
  <2> QED BY <2>1, <2>2, LengthsNat, LengthsAdd
<1>3. Length(n) \in Nat
  BY DEF Length, Slot
<1>4. /\ MinutesInWindow(own, t) = SumOfLengths(W(own)) /\ MinutesInWindow(all, t) = SumOfLengths(W(all))
      /\ \A day : /\ MinutesOnDay(own, day) = SumOfLengths(D(own, day))
                  /\ MinutesOnDay(all, day) = SumOfLengths(D(all, day))
  BY DEF MinutesInWindow, MinutesOnDay
<1>5. cfg.weekly \in Nat /\ cfg.daily \in Nat
  BY DEF SettingsRecord
<1>6. MinutesInWindow(all, t) <= cfg.weekly
  <2> DEFINE more == W(own) \cup {n}
  <2>1. W(all) = more \/ W(all) = W(own)
    OBVIOUS
  <2>2. W(own) \in SUBSET all
    OBVIOUS
  <2> HIDE DEF W, all
  <2>3. /\ SumOfLengths(W(own)) \in Nat /\ SumOfLengths(more) \in Nat
        /\ SumOfLengths(more) <= SumOfLengths(W(own)) + Length(n)
    BY <1>2, <2>2
  <2> HIDE DEF more
  <2>4. SumOfLengths(W(all)) <= SumOfLengths(W(own)) + Length(n) /\ SumOfLengths(W(all)) \in Nat
    BY <1>3, <2>1, <2>3
  <2> QED BY <1>3, <1>4, <1>5, <2>3, <2>4 DEF WithinWeekly
<1>7. ASSUME cfg.daily > 0, NEW s \in all PROVE MinutesOnDay(all, DayOf(s.start)) <= cfg.daily
  <2> DEFINE day == DayOf(s.start)
  <2>1. CASE day = DayOf(n.start)
    <3>1. D(all, day) = D(own, day) \cup {n} /\ D(own, day) \in SUBSET all
      BY <2>1
    <3>2. SumOfLengths(D(all, day)) <= SumOfLengths(D(own, day)) + Length(n)
          /\ SumOfLengths(D(all, day)) \in Nat /\ SumOfLengths(D(own, day)) \in Nat
      <4> HIDE DEF D, all, Length
      <4> QED BY <1>2, <1>3, <3>1
    <3>3. MinutesOnDay(own, day) + Length(n) <= cfg.daily
      BY <1>7, <2>1 DEF WithinDaily
    <3> HIDE DEF D, all, Length, day
    <3> QED BY <1>3, <1>4, <1>5, <3>2, <3>3 DEF day
  <2>2. CASE day # DayOf(n.start)
    <3>1. D(all, day) = D(own, day) /\ s \in own
      BY <1>7, <2>2
    <3> QED BY <1>4, <1>7, <3>1 DEF WithinLimits
  <2> QED BY <2>1, <2>2
<1> QED BY <1>1, <1>6, <1>7 DEF WithinLimits

Limited == Whole /\ SafeLimits

LEMMA OwnSlots ==
  ASSUME Limited, NEW b, b # None, NEW except
  PROVE  /\ BandSlots(SlotsOfBand(b, except), now)
         /\ SlotsOfBand(b, except) \in SUBSET SlotsOfBand(b, {})
<1> DEFINE ids == {i \in ConfirmedIds \ except : bookings[i].band = b}
           f == [i \in ids |-> bookings[i].slot]
<1>1. ids \in SUBSET ConfirmedIds
  OBVIOUS
<1>2. IsFiniteSet(ids)
  BY <1>1, FS_Subset DEF Limited, SafeLimits
<1>3. f \in Surjection(ids, SlotsOf(ids))
  BY DEF Surjection, SlotsOf
<1>4. IsFiniteSet(SlotsOf(ids))
  BY <1>2, <1>3, FS_Surjection
<1>5. \A i \in ids : /\ bookings[i].slot \in Slot
                     /\ bookings[i].slot.end > bookings[i].slot.start
                     /\ WithinHorizon(bookings[i].slot, now)
  BY BookingsAssumption DEF Limited, Whole, Safe, Typed, TypeOK, SafeLimits, BandSlot, ConfirmedIds, Confirmed
<1>6. SlotsOfBand(b, except) = SlotsOf(ids)
  BY DEF SlotsOfBand
<1>7. \A s \in SlotsOf(ids) : s \in Slot /\ s.end > s.start /\ WithinHorizon(s, now)
  BY <1>5 DEF SlotsOf
<1>8. SlotsOfBand(b, except) \in SUBSET SlotsOfBand(b, {})
  BY DEF SlotsOfBand, SlotsOf
<1> HIDE DEF ids
<1> QED BY <1>4, <1>6, <1>7, <1>8 DEF BandSlots

(* What was within the limits stays so as time passes.                     *)
LEMMA FitsLater ==
  ASSUME Limited, NEW b, b # None, NEW except, NEW s \in Slot, Fits(b, except, s),
         NEW u \in Nat, now <= u
  PROVE  LET own == SlotsOfBand(b, except) IN
         /\ s.end > s.start /\ WithinHorizon(s, u)
         /\ WithinWeekly(settings, own, u, s) /\ WithinDaily(settings, own, s)
<1> DEFINE own == SlotsOfBand(b, except)
<1>1. /\ now \in Nat /\ settings \in SettingsRecord /\ settings.weekly \in Nat
      /\ s.start \in Nat /\ Length(s) \in Int /\ HorizonDays * DayUnits \in Nat
  BY BookingsAssumption, RulesAssumption DEF Limited, Whole, Safe, Typed, TypeOK, SettingsRecord, Slot, Length
<1>2. s.end > s.start /\ WithinHorizon(s, now) /\ WithinDaily(settings, own, s)
      /\ MinutesInWindow(own, now) + Length(s) <= settings.weekly
  BY DEF Fits, BandSlot, WithinWeekly
<1>3. WithinHorizon(s, u)
  BY <1>1, <1>2 DEF WithinHorizon
<1>4. BandSlots(own, now)
  BY OwnSlots
<1> HIDE DEF own
<1>5. /\ MinutesInWindow(own, u) \in Nat /\ MinutesInWindow(own, now) \in Nat
      /\ MinutesInWindow(own, u) <= MinutesInWindow(own, now)
  BY <1>1, <1>4, LimitsShrink
<1>6. WithinWeekly(settings, own, u, s)
  BY <1>1, <1>2, <1>5 DEF WithinWeekly
<1> QED BY <1>2, <1>3, <1>6 DEF own

(* How a step may change the bookings: every one but n is as it was, or    *)
(* gone, or without its band, and n, if it belongs to a band, fits.        *)
OthersKept(n) ==
  \A i \in ConfirmedIds' : i # n =>
    /\ i \in ConfirmedIds /\ bookings'[i].slot = bookings[i].slot
    /\ bookings'[i].band = bookings[i].band \/ bookings'[i].band = None

LEMMA LimitsKept ==
  ASSUME Limited, Typed', settings' = settings, now <= now', bands' \subseteq bands,
         NEW n, OthersKept(n),
         n \in ConfirmedIds' /\ bookings'[n].band # None =>
           Fits(bookings'[n].band, {n}, bookings'[n].slot)
  PROVE  /\ BandsWithinLimits' /\ IsFiniteSet(ConfirmedIds')
         /\ (\A i \in ConfirmedIds : bookings[i].band # None => BandSlot(bookings[i].slot))'
<1>1. /\ now \in Nat /\ now' \in Nat /\ settings \in SettingsRecord /\ bands \subseteq Bands
      /\ HorizonDays * DayUnits \in Nat
      /\ \A i \in ConfirmedIds' : bookings'[i].slot \in Slot
      /\ \A i \in ConfirmedIds : bookings[i].slot \in Slot
  BY BookingsAssumption, RulesAssumption DEF Limited, Whole, Safe, Typed, TypeOK, ConfirmedIds, Confirmed
<1>2. IsFiniteSet(ConfirmedIds')
  <2>1. ConfirmedIds' \in SUBSET (ConfirmedIds \cup {n})
    BY DEF OthersKept
  <2>2. IsFiniteSet(ConfirmedIds \cup {n})
    BY FS_AddElement DEF Limited, SafeLimits
  <2> QED BY <2>1, <2>2, FS_Subset
<1>3. (\A i \in ConfirmedIds : bookings[i].band # None => BandSlot(bookings[i].slot))'
  <2>1. ASSUME NEW i \in ConfirmedIds', bookings'[i].band # None
        PROVE  bookings'[i].slot.end > bookings'[i].slot.start /\ WithinHorizon(bookings'[i].slot, now)
    <3>1. CASE i = n
      BY <2>1, <3>1 DEF Fits, BandSlot
    <3>2. CASE i # n
      BY <2>1, <3>2 DEF OthersKept, Limited, SafeLimits, BandSlot
    <3> QED BY <3>1, <3>2
  <2>2. \A s \in Slot : WithinHorizon(s, now) => WithinHorizon(s, now')
    BY <1>1 DEF WithinHorizon, Slot
  <2> QED BY <1>1, <2>1, <2>2 DEF BandSlot, WithinHorizon
<1>4. ASSUME NEW b \in bands'
      PROVE  WithinLimits(settings, SlotsOfBand(b, {})', now')
  <2> DEFINE later == SlotsOfBand(b, {})'
             all == SlotsOfBand(b, {})
             own == SlotsOfBand(b, {n})
             s == bookings'[n].slot
  <2>1. b \in bands /\ b # None
    BY <1>1, <1>4, BookingsAssumption
  <2>2. BandSlots(all, now) /\ BandSlots(own, now) /\ own \in SUBSET all
    BY <2>1, OwnSlots
  <2>3. WithinLimits(settings, all, now)
    BY <2>1 DEF Limited, SafeLimits, BandsWithinLimits
  <2>4. \A t \in later : t \in own \/ (n \in ConfirmedIds' /\ bookings'[n].band = b /\ t = s)
    BY <2>1 DEF OthersKept, SlotsOfBand, SlotsOf
  <2> HIDE DEF later, all, own, s
  <2>5. WithinLimits(settings, own, now)
    BY <1>1, <2>2, <2>3, LimitsShrink
  <2>6. CASE n \in ConfirmedIds' /\ bookings'[n].band = b
    <3>1. /\ s \in Slot /\ s.end > s.start /\ WithinHorizon(s, now)
          /\ WithinWeekly(settings, own, now, s) /\ WithinDaily(settings, own, s)
      BY <1>1, <2>1, <2>6 DEF Fits, BandSlot, own, s
    <3>2. BandSlots(own \cup {s}, now) /\ WithinLimits(settings, own \cup {s}, now)
      BY <1>1, <2>2, <2>5, <3>1, LimitsGrow
    <3>3. later \in SUBSET (own \cup {s})
      BY <2>4
    <3>4. WithinLimits(settings, later, now')
      BY <1>1, <3>2, <3>3, LimitsShrink
    <3> QED BY <3>4 DEF later
  <2>7. CASE ~(n \in ConfirmedIds' /\ bookings'[n].band = b)
    <3>1. later \in SUBSET own
      BY <2>4, <2>7
    <3>2. WithinLimits(settings, later, now')
      BY <1>1, <2>2, <2>5, <3>1, LimitsShrink
    <3> QED BY <3>2 DEF later
  <2> QED BY <2>6, <2>7
<1>5. BandsWithinLimits'
  BY <1>4 DEF BandsWithinLimits
<1> QED BY <1>2, <1>3, <1>5

(* What each commit does to the bookings of the bands.                     *)
LEMMA WriteKeepsOthers ==
  ASSUME Limited, NEW p \in Procs, Write(p)
  PROVE  \E n : /\ OthersKept(n)
                /\ n \in ConfirmedIds' /\ bookings'[n].band # None =>
                     Fits(bookings'[n].band, {n}, bookings'[n].slot)
<1> DEFINE r == req[p]
<1>1. /\ Whole /\ Safe /\ Typed /\ TypeOK /\ FitsStill
      /\ bookings \in [BookingIds -> Booking] /\ None \notin BookingIds
  BY BookingsAssumption DEF Limited, SafeLimits, Whole, Safe, Typed, TypeOK
<1>2. ASSUME NEW bk, bookings' = bk,
             \A i \in BookingIds : bk[i].state = "confirmed" =>
               /\ i \in ConfirmedIds /\ bk[i].slot = bookings[i].slot
               /\ bk[i].band = bookings[i].band \/ bk[i].band = None
      PROVE  \E n : /\ OthersKept(n)
                    /\ n \in ConfirmedIds' /\ bookings'[n].band # None =>
                         Fits(bookings'[n].band, {n}, bookings'[n].slot)
  <2>1. OthersKept(None) /\ None \notin ConfirmedIds'
    BY <1>1, <1>2 DEF OthersKept, ConfirmedIds, Confirmed
  <2> QED BY <2>1
<1>3. ASSUME NEW ids, \A i \in BookingIds : i \in ids => i \in ConfirmedIds, bookings' = Cancelled(ids)
      PROVE  \E n : /\ OthersKept(n)
                    /\ n \in ConfirmedIds' /\ bookings'[n].band # None =>
                         Fits(bookings'[n].band, {n}, bookings'[n].slot)
  <2>1. \A i \in BookingIds : Cancelled(ids)[i].state = "confirmed" =>
          i \in ConfirmedIds /\ Cancelled(ids)[i] = bookings[i]
    BY DEF Cancelled, CancelledRow, NoBooking, ConfirmedIds, Confirmed
  <2> QED BY <1>2, <1>3, <2>1
<1>4. ASSUME NEW ids, NEW n \in UnusedBookings, NEW x, bookings' = [Cancelled(ids) EXCEPT ![n] = x],
             x.band # None => Fits(x.band, {}, x.slot)
      PROVE  \E m : /\ OthersKept(m)
                    /\ m \in ConfirmedIds' /\ bookings'[m].band # None =>
                         Fits(bookings'[m].band, {m}, bookings'[m].slot)
  <2>1. \A i \in BookingIds : bookings'[i] = IF i = n THEN x ELSE Cancelled(ids)[i]
    BY <1>4 DEF Cancelled
  <2>2. \A i \in BookingIds : Cancelled(ids)[i].state = "confirmed" =>
          i \in ConfirmedIds /\ Cancelled(ids)[i] = bookings[i]
    BY DEF Cancelled, CancelledRow, NoBooking, ConfirmedIds, Confirmed
  <2>3. OthersKept(n)
    BY <2>1, <2>2 DEF OthersKept, ConfirmedIds, Confirmed
  <2>4. n \in BookingIds /\ n \notin ConfirmedIds
    BY DEF UnusedBookings, ConfirmedIds, Confirmed
  <2>5. ConfirmedIds \ {n} = ConfirmedIds \ {}
    BY <2>4
  <2>6. \A b, s : Fits(b, {}, s) => Fits(b, {n}, s)
    <3>1. \A b : SlotsOfBand(b, {n}) = SlotsOfBand(b, {})
      BY <2>5 DEF SlotsOfBand
    <3> QED BY <3>1 DEF Fits
  <2>7. bookings'[n] = x
    BY <2>1, <2>4
  <2> QED BY <1>4, <2>3, <2>6, <2>7
<1>5. pc[p] = "checked"
  BY DEF Write, Ready, CommitCreate, CommitStaff, CommitPriority, CommitDelete, CommitUpdate,
     CommitJoin, CommitTake, CommitBan, CommitDeleteBand
<1>6. /\ r.op \in {"create", "take", "staff", "join"} => seen[p] = {}
      /\ r.op \in {"delete", "update"} => seen[p] = {r.id}
      /\ r.op \in Inserting => UnusedBookings # {}
      /\ seen[p] \subseteq ConfirmedIds
  BY <1>1, <1>5 DEF Safe, SafeBookings, SeenShape
<1>7. r.op \in Inserting => NextOf(UnusedBookings) \in UnusedBookings
  <2>1. UnusedBookings \in SUBSET Nat
    BY BookingsAssumption DEF UnusedBookings
  <2> QED BY <1>6, <2>1, NextOfIsMember
<1>8. bookings = Cancelled({})
  BY <1>1, CancelledNone
<1>9. CASE CommitCreate(p) \/ CommitTake(p)
  <2> DEFINE x == NewBooking(KindFor(r), r.band, r.user, r.slot)
  <2>1. r.op \in {"create", "take"} /\ bookings' = Inserted(r, KindFor(r))
    BY <1>9 DEF CommitCreate, CommitTake, Ready, Commit
  <2>2. bookings' = [Cancelled({}) EXCEPT ![NextOf(UnusedBookings)] = x]
    BY <1>8, <2>1 DEF Inserted
  <2>3. x.band # None => Fits(x.band, {}, x.slot)
    BY <1>1, <1>5, <2>1 DEF FitsStill, NewBooking
  <2>4. NextOf(UnusedBookings) \in UnusedBookings
    BY <1>7, <2>1 DEF Inserting
  <2> HIDE DEF x
  <2> QED BY <1>4, <2>2, <2>3, <2>4
<1>10. CASE CommitStaff(p) \/ CommitPriority(p)
  <2> DEFINE office == NewBooking("staff", None, r.user, r.slot)
             staff == NewBooking("staff", r.band, r.user, r.slot)
  <2>1. CASE CommitPriority(p)
    <3>1. bookings' = [Cancelled(seen[p]) EXCEPT ![NextOf(UnusedBookings)] = office]
      BY <2>1 DEF CommitPriority, Commit
    <3>2. office.band = None
      BY DEF NewBooking
    <3>3. NextOf(UnusedBookings) \in UnusedBookings
      BY <1>7, <2>1 DEF CommitPriority, Ready, Inserting
    <3> HIDE DEF office
    <3> QED BY <1>4, <3>1, <3>2, <3>3
  <2>2. CASE CommitStaff(p)
    <3>1. bookings' = [Cancelled({}) EXCEPT ![NextOf(UnusedBookings)] = staff]
      BY <1>8, <2>2 DEF CommitStaff, Commit, Inserted
    <3>2. staff.band = None
      BY <1>1, <1>5, <2>2 DEF CommitStaff, Ready, Typed, RequestShape, Shaped, NewBooking
    <3>3. NextOf(UnusedBookings) \in UnusedBookings
      BY <1>7, <2>2 DEF CommitStaff, Ready, Inserting
    <3> HIDE DEF staff
    <3> QED BY <1>4, <3>1, <3>2, <3>3
  <2> QED BY <1>10, <2>1, <2>2
<1>11. CASE CommitUpdate(p)
  <2> DEFINE old == bookings[r.id]
             new == [old EXCEPT !.slot = IF r.slot = None THEN @ ELSE r.slot,
                                !.kind = IF r.change = None THEN @ ELSE r.change]
  <2>1. r.op = "update" /\ bookings' = [bookings EXCEPT ![r.id] = new]
    BY <1>11 DEF CommitUpdate, Ready, Commit
  <2>2. r.id \in ConfirmedIds /\ r.id \in BookingIds
    BY <1>6, <2>1 DEF ConfirmedIds
  <2>3. old \in Booking
    BY <1>1, <2>2
  <2>4. new.band = old.band /\ new.slot = (IF r.slot = None THEN old.slot ELSE r.slot)
    BY <2>3 DEF Booking
  <2> HIDE DEF new
  <2>5. \A i \in BookingIds : bookings'[i] = IF i = r.id THEN new ELSE bookings[i]
    BY <1>1, <2>1
  <2>6. CASE r.slot = None
    <3>1. OthersKept(None) /\ None \notin ConfirmedIds'
      BY <1>1, <2>2, <2>4, <2>5, <2>6 DEF OthersKept, ConfirmedIds, Confirmed
    <3> QED BY <3>1
  <2>7. CASE r.slot # None
    <3>1. OthersKept(r.id)
      BY <2>2, <2>5 DEF OthersKept, ConfirmedIds, Confirmed
    <3>2. old.band # None => Fits(old.band, {r.id}, r.slot)
      BY <1>1, <1>5, <2>1, <2>7 DEF FitsStill
    <3>3. bookings'[r.id] = new
      BY <2>2, <2>5
    <3>4. bookings'[r.id].band = old.band /\ bookings'[r.id].slot = r.slot
      BY <2>4, <2>7, <3>3
    <3> QED BY <3>1, <3>2, <3>4
  <2> QED BY <2>6, <2>7
<1>12. CASE CommitDelete(p) \/ CommitBan(p)
  <2>1. bookings' = Cancelled(seen[p])
    BY <1>12 DEF CommitDelete, CommitBan, Commit
  <2> QED BY <1>3, <1>6, <2>1
<1>13. CASE CommitJoin(p)
  <2>1. bookings' = Cancelled({})
    BY <1>8, <1>13 DEF CommitJoin, Commit
  <2> QED BY <1>3, <2>1
<1>14. CASE CommitDeleteBand(p)
  <2> DEFINE bk == Cancelled(seen[p])
             cut == [i \in BookingIds |->
                       IF bk[i].band = req[p].band THEN [bk[i] EXCEPT !.band = None] ELSE bk[i]]
  <2>1. bookings' = cut
    BY <1>14 DEF CommitDeleteBand, Commit
  <2>2. \A i \in BookingIds : bk[i].state = "confirmed" => i \in ConfirmedIds /\ bk[i] = bookings[i]
    BY DEF Cancelled, CancelledRow, NoBooking, ConfirmedIds, Confirmed
  <2>3. BookingTable(bk)
    BY <1>1, TablesTyped
  <2> HIDE DEF bk
  <2>4. \A i \in BookingIds : /\ cut[i].state = bk[i].state /\ cut[i].slot = bk[i].slot
                              /\ cut[i].band = bk[i].band \/ cut[i].band = None
    BY <2>3 DEF BookingTable, Booking
  <2> HIDE DEF cut
  <2>5. \A i \in BookingIds : cut[i].state = "confirmed" =>
          /\ i \in ConfirmedIds /\ cut[i].slot = bookings[i].slot
          /\ cut[i].band = bookings[i].band \/ cut[i].band = None
    BY <2>2, <2>4
  <2> QED BY <1>2, <2>1, <2>5
<1> QED BY <1>9, <1>10, <1>11, <1>12, <1>13, <1>14 DEF Write

(* What the limits rest on: nobody with a privilege edits bookings, as the *)
(* code does not hold those to the limits, and the club settings, the      *)
(* limits among them, stay as they are.                                    *)
NobodyPrivilegedEdits == Staff = {} \/ "update" \notin Operations
SettingsStay == \A c, d \in SettingsChoices : c = d

LEMMA PlainEditorsStep ==
  ASSUME NobodyPrivilegedEdits, Limited, [Next]_vars
  PROVE  PlainEditors'
<1>1. Typed
  BY DEF Limited, Whole, Safe
<1>2. ASSUME NEW p \in Procs, pc'[p] # "idle", req'[p].op = "update", Submit(p)
      PROVE  req'[p].user \notin Staff
  <2>1. ASSUME NEW r, NEW where, Start(p, r, where) PROVE req'[p] = r
    BY <1>1, <2>1 DEF Start, Typed, TypeOK
  <2>2. SubmitUpdate(p)
    <3>1. ASSUME NEW r, NEW where, Start(p, r, where), r.op # "update" PROVE FALSE
      BY <1>2, <2>1, <3>1
    <3>2. ~SubmitCreate(p) /\ ~SubmitOffice(p)
      BY <3>1 DEF SubmitCreate, SubmitOffice, NoRequest
    <3>3. ~SubmitDelete(p) /\ ~SubmitJoin(p)
      BY <3>1 DEF SubmitDelete, SubmitJoin, NoRequest
    <3>4. ~SubmitTake(p)
      BY <3>1 DEF SubmitTake, NoRequest
    <3>5. ~SubmitBan(p) /\ ~SubmitDeleteBand(p)
      BY <3>1 DEF SubmitBan, SubmitDeleteBand, NoRequest
    <3> QED BY <1>2, <3>2, <3>3, <3>4, <3>5 DEF Submit
  <2>3. "update" \in Operations
    BY <2>2 DEF SubmitUpdate, Accepts
  <2> QED BY <2>3 DEF NobodyPrivilegedEdits
<1>3. ASSUME NEW p \in Procs, pc'[p] # "idle", req'[p].op = "update", ~Submit(p)
      PROVE  req'[p].user \notin Staff
  BY <1>1, <1>3, RequestsCarried DEF Limited, SafeLimits, PlainEditors
<1> QED BY <1>2, <1>3 DEF PlainEditors

LEMMA CheckFits ==
  ASSUME Limited, NEW p \in Procs, Check(p)
  PROVE  FitsStill'
<1> DEFINE r == req[p]
<1>1. /\ UNCHANGED <<now, settings, bands, bookings, req>> /\ Passes(r)
      /\ pc[p] = "waiting" /\ \A q \in Procs : pc'[q] = "checked" => q = p
  <2>1. \A q \in Procs : pc[q] # "checked"
    BY BookingsAssumption DEF Check, Limited, Whole, Safe, SafeBookings, LockOwned
  <2> QED BY <2>1 DEF Check, data, Limited, Whole, Safe, Typed, TypeOK
<1>2. \A b, except, s : Fits(b, except, s)' = Fits(b, except, s)
  BY <1>1 DEF Fits, BandSlot, SlotsOfBand, SlotsOf, ConfirmedIds, Confirmed
<1>3. r.op \in {"create", "take"} /\ r.band # None => Fits(r.band, {}, r.slot)
  <2> SUFFICES ASSUME r.op \in {"create", "take"}, r.band # None PROVE Fits(r.band, {}, r.slot)
    OBVIOUS
  <2>1. CreatePasses(r)
    BY <1>1 DEF Passes
  <2>2. r.slot \in Slot
    BY <1>1, BookingsAssumption DEF Limited, Whole, Safe, Typed, RequestShape, Shaped, Inserting
  <2>3. Length(r.slot) > 0 /\ WithinHorizon(r.slot, now)
    BY <2>1 DEF CreatePasses, Listed, ListedSlots
  <2>4. r.slot.end > r.slot.start
    BY <2>2, <2>3 DEF Length, Slot
  <2> QED BY <2>1, <2>3, <2>4 DEF CreatePasses, Fits, BandSlot
<1>4. r.op = "update" /\ r.slot # None /\ bookings[r.id].band # None =>
        Fits(bookings[r.id].band, {r.id}, r.slot)
  <2> SUFFICES ASSUME r.op = "update", r.slot # None, bookings[r.id].band # None
               PROVE  Fits(bookings[r.id].band, {r.id}, r.slot)
    OBVIOUS
  <2>1. UpdatePasses(r) /\ r.user \notin Staff
    BY <1>1 DEF Passes, Limited, SafeLimits, PlainEditors
  <2>2. r.slot.end > r.slot.start /\ WithinHorizon(r.slot, now)
    BY <2>1 DEF UpdatePasses, TimeAvailable, RangeValid, WholeSteps
  <2> QED BY <2>1, <2>2 DEF UpdatePasses, Fits, BandSlot
<1> QED BY <1>1, <1>2, <1>3, <1>4 DEF FitsStill

LEMMA QuietFits ==
  ASSUME Limited, Typed', Quiet, settings' = settings, now <= now'
  PROVE  FitsStill'
<1>1. ASSUME NEW b, b # None, NEW except, NEW s \in Slot, Fits(b, except, s)
      PROVE  Fits(b, except, s)'
  <2>1. now' \in Nat
    BY BookingsAssumption DEF Typed, TypeOK
  <2>2. LET own == SlotsOfBand(b, except) IN
        /\ s.end > s.start /\ WithinHorizon(s, now')
        /\ WithinWeekly(settings, own, now', s) /\ WithinDaily(settings, own, s)
    BY <1>1, <2>1, FitsLater
  <2>3. SlotsOfBand(b, except)' = SlotsOfBand(b, except)
    BY DEF Quiet, SlotsOfBand, SlotsOf, ConfirmedIds, Confirmed
  <2> QED BY <2>2, <2>3 DEF Fits, BandSlot
<1>2. ASSUME NEW p \in Procs, pc'[p] = "checked", NEW r, r = req[p], NEW b, b = bookings[r.id].band
      PROVE  /\ r.op \in {"create", "take"} /\ r.band # None => Fits(r.band, {}, r.slot)'
             /\ r.op = "update" /\ r.slot # None /\ b # None => Fits(b, {r.id}, r.slot)'
  <2>1. pc[p] = "checked" /\ r \in Request /\ Shaped(r)
    BY <1>2 DEF Quiet, Limited, Whole, Safe, Typed, TypeOK, RequestShape
  <2>2. /\ r.op \in {"create", "take"} /\ r.band # None => Fits(r.band, {}, r.slot)
        /\ r.op = "update" /\ r.slot # None /\ b # None => Fits(b, {r.id}, r.slot)
    BY <1>2, <2>1 DEF Limited, SafeLimits, FitsStill
  <2>3. /\ r.op \in {"create", "take"} => r.slot \in Slot
        /\ r.op = "update" /\ r.slot # None => r.slot \in Slot
    BY <2>1, BookingsAssumption DEF Shaped, Inserting, Request
  <2> QED BY <1>1, <2>2, <2>3
<1>3. \A p \in Procs : pc'[p] = "checked" => req'[p] = req[p]
  BY DEF Quiet
<1> QED BY <1>2, <1>3 DEF FitsStill, Quiet

LEMMA LimitedStep ==
  ASSUME NobodyPrivilegedEdits, SettingsStay, Limited, [Next]_vars
  PROVE  Limited'
<1>1. Whole' /\ Typed' /\ PlainEditors' /\ Typed /\ Safe
  BY WholeStep, PlainEditorsStep DEF Limited, Whole, Safe
<1>2. settings' = settings
  BY <1>1 DEF SettingsStay, Typed, TypeOK
<1>3. now <= now' /\ bands' \subseteq bands
  <2>1. now \in Nat
    BY <1>1, BookingsAssumption DEF Typed, TypeOK
  <2>2. ASSUME NEW p \in Procs, Submit(p) PROVE now' = now /\ bands' = bands
    BY <2>2 DEF Submit, SubmitCreate, SubmitOffice, SubmitDelete, SubmitUpdate, SubmitJoin,
       SubmitTake, SubmitBan, SubmitDeleteBand, Start, data
  <2>3. ASSUME NEW p \in Procs, Write(p) PROVE now' = now /\ bands' \subseteq bands
    BY <2>3 DEF Write, CommitCreate, CommitStaff, CommitPriority, CommitDelete, CommitUpdate,
       CommitJoin, CommitTake, CommitBan, CommitDeleteBand
  <2>4. ASSUME NEW p \in Procs, Unblock(p) \/ Check(p) \/ Refuse(p) \/ Abort(p) \/ BreakDeadlock(p)
        PROVE  now' = now /\ bands' = bands
    BY <2>4 DEF Unblock, Check, Refuse, Abort, BreakDeadlock, data
  <2>5. ASSUME Background \/ UNCHANGED vars PROVE bands' = bands /\ (now' = now \/ now' = now + 1)
    <3>1. ASSUME NEW e \in EntryIds, Leave(e) \/ Deliver(e) PROVE bands' = bands /\ now' = now
      BY <3>1 DEF Leave, Deliver
    <3>2. ASSUME CleanupPast \/ ChangeSettings \/ Moderate \/ UNCHANGED vars
          PROVE  bands' = bands /\ now' = now
      BY <3>2 DEF CleanupPast, ChangeSettings, Moderate, vars
    <3> QED BY <2>5, <3>1, <3>2 DEF Background, Tick, data
  <2> QED BY <2>1, <2>2, <2>3, <2>4, <2>5 DEF Next
<1>4. ASSUME NEW p \in Procs, Write(p) PROVE SafeLimits'
  <2>1. PICK n : /\ OthersKept(n)
                 /\ n \in ConfirmedIds' /\ bookings'[n].band # None =>
                      Fits(bookings'[n].band, {n}, bookings'[n].slot)
    BY <1>4, WriteKeepsOthers
  <2>2. pc[p] = "checked" /\ pc' = [pc EXCEPT ![p] = "idle"]
    BY <1>4 DEF Write, Ready, CommitCreate, CommitStaff, CommitPriority, CommitDelete, CommitUpdate,
       CommitJoin, CommitTake, CommitBan, CommitDeleteBand, Commit, Answered
  <2>3. \A q \in Procs : pc'[q] # "checked"
    BY <1>1, <2>2 DEF Safe, SafeBookings, LockOwned, Typed, TypeOK
  <2>4. FitsStill'
    BY <2>3 DEF FitsStill
  <2> QED BY <1>1, <1>2, <1>3, <2>1, <2>4, LimitsKept DEF SafeLimits
<1>5. ASSUME bookings' = bookings, FitsStill' PROVE SafeLimits'
  <2>1. OthersKept(None)
    BY <1>5 DEF OthersKept, ConfirmedIds, Confirmed
  <2>2. None \notin ConfirmedIds'
    BY BookingsAssumption DEF ConfirmedIds
  <2> QED BY <1>1, <1>2, <1>3, <1>5, <2>1, <2>2, LimitsKept DEF SafeLimits
<1>6. ASSUME NEW p \in Procs, Check(p) PROVE SafeLimits'
  BY <1>5, <1>6, CheckFits DEF Check, data
<1>7. ASSUME ~ \E p \in Procs : Check(p) \/ Write(p) PROVE SafeLimits'
  <2>1. Quiet
    BY <1>1, <1>7, QuietSteps DEF Next, BreakDeadlock
  <2> QED BY <1>1, <1>2, <1>3, <1>5, <2>1, QuietFits DEF Quiet
<1> QED BY <1>1, <1>4, <1>6, <1>7 DEF Limited

LEMMA LimitedInit ==
  ASSUME NobodyPrivilegedEdits, Init
  PROVE  Limited
<1>1. ConfirmedIds = {} /\ \A p \in Procs : pc[p] = "idle"
  BY DEF Init, ConfirmedIds, Confirmed, NoBooking
<1>2. IsFiniteSet(ConfirmedIds) /\ IsFiniteSet({})
  BY <1>1, FS_EmptySet
<1>3. settings \in SettingsRecord /\ now = 0
  BY BookingsAssumption DEF Init
<1>4. \A b, except : SlotsOfBand(b, except) = {}
  BY <1>1 DEF SlotsOfBand, SlotsOf
<1>5. WithinLimits(settings, {}, now)
  <2>1. SumOfLengths({}) = 0
    BY SumCases DEF SumOfLengths
  <2>2. MinutesInWindow({}, now) = SumOfLengths({})
    <3>1. {s \in {} : InFuture(s, now) /\ WithinHorizon(s, now)} = {}
      OBVIOUS
    <3> QED BY <3>1 DEF MinutesInWindow
  <2> QED BY <1>3, <2>1, <2>2 DEF WithinLimits, SettingsRecord
<1> QED BY <1>1, <1>2, <1>4, <1>5, WholeInit
      DEF Limited, SafeLimits, BandsWithinLimits, FitsStill, PlainEditors

(* A band never holds more than its limits, neither in the sliding window  *)
(* at any time nor on any day, however the requests of its members         *)
(* interleave (BandsWithinLimits): as long as nobody privileged edits      *)
(* bookings and the settings stay.                                         *)
THEOREM BandsStayWithinLimits ==
  ASSUME NobodyPrivilegedEdits, SettingsStay
  PROVE  Spec => []BandsWithinLimits
<1>1. Init => Limited
  BY LimitedInit
<1>2. Limited /\ [Next]_vars => Limited'
  BY LimitedStep
<1>3. Limited => BandsWithinLimits
  BY DEF Limited, SafeLimits
<1> QED BY <1>1, <1>2, <1>3, PTL DEF Spec

=============================================================================
