----------------------------- MODULE MoveRequests -----------------------------
(***************************************************************************)
(* Asking the owners of a booking to move it                               *)
(* (app/services/move_requests.py), at the grain of database transactions. *)
(*                                                                         *)
(* Asking and answering take the advisory lock of the booking core, so     *)
(* they are serialised with each other and with every write of a booking.  *)
(* Withdrawing a request and the job that closes stale ones take no lock:  *)
(* they read the request, and write its new state later by primary key,    *)
(* whatever it has become in between.                                      *)
(*                                                                         *)
(* The rest of the core appears as steps of its abstract specification,    *)
(* Calendar, which Bookings implements (Elsewhere).  Who may answer for a  *)
(* booking and the settings of the club stay as they are.                  *)
(***************************************************************************)
EXTENDS RoomRules

CONSTANTS
  Procs,        \* concurrent transactions
  Job,          \* the one of them that closes stale requests
  Users,
  Privileged,   \* users who hold bookings.priority
  Bands,
  BookingIds,
  About,        \* what is known of every booking
  Slots,
  RequestIds,   \* bound: requests ever made
  Ttl,          \* REQUEST_TTL (24 hours)
  MaxPending,   \* MAX_PENDING_PER_REQUESTER (3)
  Settings,
  MaxTime,      \* bound on the clock
  Offered,      \* the operations of this instance
  None

\* The band and the maker of a booking, who may answer for it (its managers and
\* the responsible person), who may not ask (its managers and the members of
\* the band) and whether it is a block of the staff.
BookingFacts ==
  [band : Bands \cup {None}, by : Users, answering : SUBSET Users, inside : SUBSET Users,
   staff : BOOLEAN]

ASSUME MoveRequestsAssumption ==
  /\ Job \in Procs
  /\ Privileged \subseteq Users
  /\ About \in [BookingIds -> BookingFacts]
  /\ Slots \subseteq Slot
  /\ RequestIds \subseteq Nat /\ IsFiniteSet(RequestIds)
  /\ Ttl \in Nat /\ MaxPending \in Nat /\ MaxTime \in Nat
  /\ Settings \in SettingsRecord
  /\ Offered \subseteq {"ask", "accept", "decline", "withdraw", "elsewhere", "ban"}
  /\ None \notin Procs \cup Users \cup Bands
  /\ None \notin Slots
  /\ None \notin BookingIds \cup RequestIds

VARIABLES
  now,       \* wall clock
  held,      \* the slot every booking holds, None for none
  gone,      \* cancelled bookings
  banned,    \* banned and deleted users
  requests,  \* table of move requests, by id
  lock,      \* holder of the advisory lock
  pc,        \* where every transaction is
  txn        \* what every transaction is about, with what it has read

vars == <<now, held, gone, banned, requests, lock, pc, txn>>

Calendar == INSTANCE Calendar WITH Ids <- BookingIds

Closed == {"accepted", "declined", "cancelled", "expired"}
Locked == {"ask", "accept", "decline", "lapse"}
Operations == Locked \cup {"withdraw", "expire"}

RequestRow ==
  [state : {"unused", "pending"} \cup Closed, by : Users \cup {None},
   booking : BookingIds \cup {None}, slot : Slots \cup {None}, expires : Nat]

\* closing: requests the transaction read as open and is going to expire.
Transaction ==
  [op : Operations \cup {None}, user : Users \cup {None}, booking : BookingIds \cup {None},
   slot : Slots \cup {None}, id : RequestIds \cup {None}, expires : Nat,
   closing : SUBSET RequestIds]

NoRow == [state |-> "unused", by |-> None, booking |-> None, slot |-> None, expires |-> 0]
NoTransaction ==
  [op |-> None, user |-> None, booking |-> None, slot |-> None, id |-> None,
   expires |-> 0, closing |-> {}]

TypeOK ==
  /\ now \in 0..MaxTime
  /\ held \in [BookingIds -> Slots \cup {None}]
  /\ gone \subseteq BookingIds
  /\ banned \subseteq Users
  /\ requests \in [RequestIds -> RequestRow]
  /\ lock \in Procs \cup {None}
  /\ pc \in [Procs -> {"idle", "waiting", "ready"}]
  /\ txn \in [Procs -> Transaction]

Init ==
  /\ now = 0
  /\ Calendar!Init
  /\ banned = {}
  /\ requests = [r \in RequestIds |-> NoRow]
  /\ lock = None
  /\ pc = [p \in Procs |-> "idle"]
  /\ txn = [p \in Procs |-> NoTransaction]

-----------------------------------------------------------------------------
(* What the tables say *)

Pending(r) == requests[r].state = "pending"
Unused == {r \in RequestIds : requests[r].state = "unused"}
Confirmed(i) == held[i] # None
SlotsBut(i) == {held[j] : j \in Calendar!Holding \ {i}}
SlotsOfBandBut(i) ==
  {held[j] : j \in {k \in Calendar!Holding \ {i} : About[k].band = About[i].band}}

\* Mistake: the time left is not looked at.
StaleByBooking(r) == Pending(r) /\ ~Confirmed(requests[r].booking)

\* An open request with no future: out of time, its booking cancelled or started.
Stale(r) ==
  /\ Pending(r)
  /\ \/ requests[r].expires <= now
     \/ ~Confirmed(requests[r].booking)
     \/ ~InFuture(held[requests[r].booking], now)

OthersOn(r) == {q \in RequestIds \ {r} : Pending(q) /\ requests[q].booking = requests[r].booking}

\* The requests that count against the limit of a requester.
Outstanding(u) == {r \in RequestIds : Pending(r) /\ requests[r].by = u /\ requests[r].expires > now}

\* Mistake: nobody waits for the lock.
LockIgnored == TRUE

LockFree == lock = None

Min2(a, b) == IF a <= b THEN a ELSE b

-----------------------------------------------------------------------------
(* Asking *)

Start(p, t, where) ==
  /\ pc[p] = "idle"
  /\ pc' = [pc EXCEPT ![p] = where]
  /\ txn' = [txn EXCEPT ![p] = t]
  /\ UNCHANGED <<now, held, gone, banned, requests, lock>>

Ask(p) ==
  /\ p # Job /\ "ask" \in Offered
  /\ \E u \in Users \ banned, i \in BookingIds, s \in Slots :
       Start(p, [NoTransaction EXCEPT !.op = "ask", !.user = u, !.booking = i, !.slot = s], "waiting")

\* Mistake: the limit is off by one.
WithinAsksOneMore(u, i) ==
  /\ \A r \in Outstanding(u) : requests[r].booking # i
  /\ Cardinality(Outstanding(u)) <= MaxPending

WithinAsks(u, i) ==
  /\ \A r \in Outstanding(u) : requests[r].booking # i
  /\ Cardinality(Outstanding(u)) < MaxPending

AskPasses(t) ==
  LET i == t.booking IN
  /\ Confirmed(i) /\ ~About[i].staff
  /\ InFuture(held[i], now)
  /\ t.user \notin About[i].inside
  /\ Length(t.slot) = Length(held[i])
  /\ t.slot # held[i]
  /\ TimeAvailable(Settings, t.slot, now, FALSE, SlotsBut(i))
  /\ WithinAsks(t.user, i)

Proceed(p, t) ==
  /\ lock' = p
  /\ pc' = [pc EXCEPT ![p] = "ready"]
  /\ txn' = [txn EXCEPT ![p] = t]
  /\ UNCHANGED <<now, held, gone, banned, requests>>

CheckAsk(p) ==
  /\ pc[p] = "waiting" /\ LockFree /\ txn[p].op = "ask"
  /\ Unused # {}
  /\ AskPasses(txn[p])
  /\ Proceed(p, [txn[p] EXCEPT !.expires = Min2(now + Ttl, held[txn[p].booking].start)])

-----------------------------------------------------------------------------
(* Answering *)

Answer(p) ==
  /\ p # Job
  /\ \E op \in {"accept", "decline"} \cap Offered, u \in Users \ banned, r \in RequestIds \ Unused :
       Start(p, [NoTransaction EXCEPT !.op = op, !.user = u, !.id = r,
                                      !.booking = requests[r].booking, !.slot = requests[r].slot],
             "waiting")

\* Mistake: the state of the request is not looked at again.
MayAnswerAgain(t) == t.user \in About[t.booking].answering

MayAnswer(t) == t.user \in About[t.booking].answering /\ Pending(t.id)

\* Mistake: only the range itself is checked, not who has it.
MovePassesOccupied(t) == RangeValid(Settings, t.slot, now, t.user \in Privileged)

\* update_booking with the rights already checked: the new range has to be
\* free and within the limits of the band.
MovePasses(t) ==
  LET i == t.booking IN
  /\ TimeAvailable(Settings, t.slot, now, t.user \in Privileged, SlotsBut(i))
  /\ About[i].band # None /\ t.user \notin Privileged =>
       /\ WithinWeekly(Settings, SlotsOfBandBut(i), now, t.slot)
       /\ WithinDaily(Settings, SlotsOfBandBut(i), t.slot)

\* Mistake: the other open requests for the booking stay open.
SupersededNone(t) == {}

Superseded(t) == IF t.op = "accept" THEN OthersOn(t.id) ELSE {}

CheckAnswer(p) ==
  LET t == txn[p] IN
  /\ pc[p] = "waiting" /\ LockFree /\ t.op \in {"accept", "decline"}
  /\ MayAnswer(t)
  /\ IF Stale(t.id)
     THEN Proceed(p, [t EXCEPT !.op = "lapse", !.closing = {t.id}])
     ELSE /\ t.op = "accept" => MovePasses(t)
          /\ Proceed(p, [t EXCEPT !.closing = Superseded(t)])

\* Whoever does not pass gets an error and the lock is released.
Refuse(p) ==
  LET t == txn[p] IN
  /\ pc[p] = "waiting" /\ LockFree
  /\ CASE t.op = "ask" -> ~AskPasses(t)
       [] OTHER -> ~MayAnswer(t) \/ (t.op = "accept" /\ ~Stale(t.id) /\ ~MovePasses(t))
  /\ pc' = [pc EXCEPT ![p] = "idle"]
  /\ txn' = [txn EXCEPT ![p] = NoTransaction]
  /\ UNCHANGED <<now, held, gone, banned, requests, lock>>

-----------------------------------------------------------------------------
(* Without the lock: withdrawing, and the job *)

Withdraw(p) ==
  /\ p # Job /\ "withdraw" \in Offered
  /\ \E r \in RequestIds :
       /\ Pending(r)
       /\ Start(p, [NoTransaction EXCEPT !.op = "withdraw", !.user = requests[r].by, !.id = r], "ready")

FindStale ==
  LET stale == {r \in RequestIds : Stale(r)} IN
  /\ stale # {}
  /\ Start(Job, [NoTransaction EXCEPT !.op = "expire", !.closing = stale], "ready")

-----------------------------------------------------------------------------
(* Writing and committing *)

Finish(p) ==
  /\ pc' = [pc EXCEPT ![p] = "idle"]
  /\ txn' = [txn EXCEPT ![p] = NoTransaction]
  /\ lock' = IF lock = p THEN None ELSE lock

\* The rows are written by primary key, whatever their state is by now.
Settle(p, outcome) ==
  LET t == txn[p] IN
  /\ requests' = [r \in RequestIds |->
                    IF r \in t.closing THEN [requests[r] EXCEPT !.state = "expired"]
                    ELSE IF r = t.id THEN [requests[r] EXCEPT !.state = outcome]
                    ELSE requests[r]]
  /\ Finish(p)
  /\ UNCHANGED <<now, gone, banned>>

Ready(p, op) == pc[p] = "ready" /\ txn[p].op = op

CommitAsk(p) ==
  LET t == txn[p] IN
  /\ Ready(p, "ask")
  /\ requests' = [requests EXCEPT ![Min(Unused)] =
                    [state |-> "pending", by |-> t.user, booking |-> t.booking,
                     slot |-> t.slot, expires |-> t.expires]]
  /\ Finish(p)
  /\ UNCHANGED <<now, held, gone, banned>>

CommitAccept(p) ==
  /\ Ready(p, "accept")
  /\ held' = [held EXCEPT ![txn[p].booking] = txn[p].slot]
  /\ Settle(p, "accepted")

CommitDecline(p) == Ready(p, "decline") /\ Settle(p, "declined") /\ UNCHANGED held
CommitLapse(p) == Ready(p, "lapse") /\ Settle(p, "expired") /\ UNCHANGED held
CommitWithdraw(p) == Ready(p, "withdraw") /\ Settle(p, "cancelled") /\ UNCHANGED held
CommitExpire(p) == Ready(p, "expire") /\ Settle(p, "expired") /\ UNCHANGED held

\* The connection is lost, or PostgreSQL breaks a deadlock between rows.
Abort(p) ==
  /\ pc[p] # "idle"
  /\ Finish(p)
  /\ UNCHANGED <<now, held, gone, banned, requests>>

-----------------------------------------------------------------------------
(* The rest of the system *)

\* A booking is made, moved, taken over or cancelled by the booking core.
Elsewhere ==
  /\ lock = None /\ "elsewhere" \in Offered
  /\ \/ \E i \in BookingIds, s \in Slots, evicted \in SUBSET BookingIds :
          InFuture(s, now) /\ Calendar!Book(i, s, evicted)
     \/ \E i \in BookingIds : Calendar!Release({i})
  /\ UNCHANGED <<now, banned, requests, lock, pc, txn>>

PersonalOf(u) ==
  {i \in Calendar!Holding :
     /\ About[i].by = u /\ About[i].band = None /\ ~About[i].staff
     /\ ~Ended(held[i], now)}

\* ban_user and soft_delete_user release the room and close what the user has
\* asked, in one UPDATE whose condition PostgreSQL evaluates on the latest row.
\* Bookings has this transaction step by step.
Ban(u) ==
  /\ lock = None /\ "ban" \in Offered
  /\ u \notin banned
  /\ banned' = banned \cup {u}
  /\ Calendar!Release(PersonalOf(u))
  /\ requests' = [r \in RequestIds |->
                    IF Pending(r) /\ requests[r].by = u
                    THEN [requests[r] EXCEPT !.state = "cancelled"] ELSE requests[r]]
  /\ UNCHANGED <<now, lock, pc, txn>>

\* approve_user: a main admin lets the user back in.
Restore(u) ==
  /\ u \in banned
  /\ banned' = banned \ {u}
  /\ UNCHANGED <<now, held, gone, requests, lock, pc, txn>>

Tick ==
  /\ now < MaxTime
  /\ now' = now + 1
  /\ UNCHANGED <<held, gone, banned, requests, lock, pc, txn>>

-----------------------------------------------------------------------------
Commit(p) ==
  \/ CommitAsk(p) \/ CommitAccept(p) \/ CommitDecline(p)
  \/ CommitLapse(p) \/ CommitWithdraw(p) \/ CommitExpire(p)

Next ==
  \/ \E p \in Procs :
       \/ Ask(p) \/ CheckAsk(p) \/ Answer(p) \/ CheckAnswer(p) \/ Refuse(p)
       \/ Withdraw(p) \/ Commit(p) \/ Abort(p)
  \/ FindStale \/ Elsewhere \/ Tick
  \/ \E u \in Users : Ban(u) \/ Restore(u)

Spec == Init /\ [][Next]_vars

\* The scheduler runs the job again and again, its commit does not fail for
\* ever, and time goes on.
Fairness == WF_vars(FindStale) /\ SF_vars(CommitExpire(Job)) /\ WF_vars(Tick)

FairSpec == Spec /\ Fairness

-----------------------------------------------------------------------------
(* What has to hold *)

Answered == {"accepted", "declined"}

(***************************************************************************)
(* Two people who answer the same request at once cannot both succeed: an  *)
(* accepted request is never declined afterwards, nor a declined one       *)
(* accepted (the reason for the lock in _answerable).                      *)
(***************************************************************************)
AnsweredOnce ==
  [][\A r \in RequestIds :
       requests[r].state \in Answered /\ requests'[r].state \in Answered
         => requests'[r].state = requests[r].state]_vars

(***************************************************************************)
(* However many times and from however many devices somebody asks, at most *)
(* MAX_PENDING_PER_REQUESTER of their requests are open and in time, and   *)
(* at most one of them for each booking.                                   *)
(***************************************************************************)
AsksBounded ==
  \A u \in Users :
    /\ Cardinality(Outstanding(u)) <= MaxPending
    /\ \A q, r \in Outstanding(u) : q # r => requests[q].booking # requests[r].booking

(***************************************************************************)
(* Whenever a booking moves because its owners agreed, it moves to what    *)
(* was asked, nobody else's booking changes, and the same commit closes    *)
(* every other open request for it: none of them is left with a proposal   *)
(* that was made for another place in the schedule.                        *)
(***************************************************************************)
AcceptSettles ==
  [][\A r \in RequestIds :
       requests'[r].state = "accepted" /\ requests[r].state # "accepted" =>
         /\ held' = [held EXCEPT ![requests[r].booking] = requests[r].slot]
         /\ \A q \in RequestIds :
              requests'[q].state = "pending" => requests'[q].booking # requests[r].booking]_vars

(***************************************************************************)
(* An accepted request is a move in the calendar of the single room: it    *)
(* takes nothing from anybody and never brings a cancelled booking back.   *)
(***************************************************************************)
ImplementsCalendar == Calendar!Spec

(***************************************************************************)
(* Every request is closed at last: answered, withdrawn, or by the job     *)
(* once its time is up or its booking is gone (expire_stale).              *)
(***************************************************************************)
EveryAskCloses == \A r \in RequestIds : Pending(r) ~> ~Pending(r)

-----------------------------------------------------------------------------
(* The inductive invariant behind AnsweredOnce and ImplementsCalendar. *)

RowShape ==
  \A r \in RequestIds :
    requests[r].state # "unused" => requests[r].booking \in BookingIds /\ requests[r].slot \in Slots

TransactionShape ==
  \A p \in Procs :
    /\ \A r \in RequestIds : r = txn[p].id \/ r \in txn[p].closing => requests[r].state # "unused"
    /\ pc[p] # "idle" /\ txn[p].op = "ask" => txn[p].booking \in BookingIds /\ txn[p].slot \in Slots
    /\ pc[p] # "idle" /\ txn[p].op \in {"accept", "decline", "lapse"} =>
         /\ txn[p].id \in RequestIds
         /\ txn[p].booking = requests[txn[p].id].booking
         /\ txn[p].slot = requests[txn[p].id].slot

LockOwned == \A p \in Procs : pc[p] = "ready" /\ txn[p].op \in Locked => lock = p

NotYetAnswered ==
  \A p \in Procs :
    pc[p] = "ready" /\ txn[p].op \in {"accept", "decline"} =>
      requests[txn[p].id].state \notin Answered

NoDoubleBooking ==
  \A i, j \in Calendar!Holding : i # j => ~Calendar!Clash(held[i], held[j])

GoneHoldsNothing == \A i \in gone : held[i] = None

\* What an accepted request is going to take is free and stays so under the lock.
MoveClear ==
  \A p \in Procs :
    pc[p] = "ready" /\ txn[p].op = "accept" =>
      /\ Confirmed(txn[p].booking)
      /\ FreeOf(txn[p].slot, SlotsBut(txn[p].booking))

\* What an accepted request is going to close is all that is open for its
\* booking: nobody asks for it without the lock.
RivalsClosing ==
  \A p \in Procs :
    pc[p] = "ready" /\ txn[p].op = "accept" => OthersOn(txn[p].id) \subseteq txn[p].closing

\* A request that is about to be stored still fits the limits and the bound.
AskFits ==
  \A p \in Procs :
    pc[p] = "ready" /\ txn[p].op = "ask" =>
      Unused # {} /\ WithinAsks(txn[p].user, txn[p].booking)

(* No two bookings clash, nobody answers an answered request, accepting    *)
(* leaves no rival open, with what makes this inductive.                   *)
SafeRequests ==
  /\ RowShape /\ TransactionShape /\ LockOwned /\ NotYetAnswered
  /\ NoDoubleBooking /\ GoneHoldsNothing /\ MoveClear /\ RivalsClosing /\ AskFits

(* What the run "answers" and the proofs are about: the state is typed,    *)
(* and what a transaction read under the lock of _answerable is still so   *)
(* when it commits (move_requests.py:186).                                 *)
RequestsInv == TypeOK /\ SafeRequests
===============================================================================
