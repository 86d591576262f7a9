------------------------- MODULE MoveRequests_proofs -------------------------
(***************************************************************************)
(* What holds of the requests to move a booking for every number of        *)
(* transactions, users, bookings and requests: they are typed, nobody      *)
(* answers an answered one, what is accepted is a move in the calendar of  *)
(* the room that leaves no rival open, and the limits of those who ask     *)
(* hold.                                                                   *)
(***************************************************************************)
EXTENDS MoveRequests, FiniteSetTheorems, WellFoundedInduction, TLAPS

-----------------------------------------------------------------------------
(* Types *)

(* What is known of a slot, of a booking that holds one, and of the rows   *)
(* that stand for nothing.                                                 *)
LEMMA Basics ==
  /\ \A s \in Slots : s.start \in Nat /\ s.end \in Nat /\ s # None
  /\ NoRow \in RequestRow /\ NoRow.state = "unused"
  /\ NoTransaction \in Transaction
  /\ NoTransaction.id = None /\ NoTransaction.closing = {} /\ NoTransaction.op = None
  /\ Calendar!Holding \subseteq BookingIds
BY MoveRequestsAssumption DEF Slot, NoRow, RequestRow, NoTransaction, Transaction, Calendar!Holding

LEMMA TypedInit == Init => TypeOK
BY Basics, MoveRequestsAssumption DEF Init, TypeOK, Calendar!Init

(* Taking a transaction in keeps the types if what it is about is typed.   *)
LEMMA StartTyped ==
  ASSUME TypeOK, NEW p \in Procs, NEW t \in Transaction, NEW where \in {"waiting", "ready"},
         Start(p, t, where)
  PROVE  TypeOK'
BY DEF TypeOK, Start

LEMMA TakenInTyped ==
  ASSUME TypeOK, NEW p \in Procs, Ask(p) \/ Answer(p) \/ Withdraw(p) \/ FindStale
  PROVE  TypeOK'
<1> USE DEF NoTransaction, Transaction, Operations, Locked
<1>1. CASE Ask(p)
  <2>1. PICK u \in Users, i \in BookingIds, s \in Slots :
          Start(p, [NoTransaction EXCEPT !.op = "ask", !.user = u, !.booking = i, !.slot = s], "waiting")
    BY <1>1 DEF Ask
  <2> QED BY <2>1, StartTyped
<1>2. CASE Answer(p)
  <2>1. PICK op \in {"accept", "decline"}, u \in Users, r \in RequestIds :
          Start(p, [NoTransaction EXCEPT !.op = op, !.user = u, !.id = r,
                      !.booking = requests[r].booking, !.slot = requests[r].slot], "waiting")
    BY <1>2 DEF Answer
  <2>2. requests[r] \in RequestRow
    BY DEF TypeOK
  <2> QED BY <2>1, <2>2, StartTyped DEF RequestRow
<1>3. CASE Withdraw(p)
  <2>1. PICK r \in RequestIds :
          Start(p, [NoTransaction EXCEPT !.op = "withdraw", !.user = requests[r].by, !.id = r], "ready")
    BY <1>3 DEF Withdraw
  <2>2. requests[r] \in RequestRow
    BY DEF TypeOK
  <2> QED BY <2>1, <2>2, StartTyped DEF RequestRow
<1>4. CASE FindStale
  <2> DEFINE t == [NoTransaction EXCEPT !.op = "expire", !.closing = {r \in RequestIds : Stale(r)}]
  <2>1. t \in Transaction
    OBVIOUS
  <2>2. Start(Job, t, "ready")
    BY <1>4 DEF FindStale
  <2> HIDE DEF t
  <2> QED BY <2>1, <2>2, StartTyped, MoveRequestsAssumption
<1> QED BY <1>1, <1>2, <1>3, <1>4

LEMMA CheckedTyped ==
  ASSUME TypeOK, TransactionShape, NEW p \in Procs, CheckAsk(p) \/ CheckAnswer(p)
  PROVE  TypeOK'
<1> USE DEF Transaction, Operations, Locked
<1>1. txn[p] \in Transaction
  BY DEF TypeOK
<1>2. ASSUME NEW t \in Transaction, Proceed(p, t)
      PROVE  TypeOK'
  BY <1>2 DEF Proceed, TypeOK
<1>3. CASE CheckAsk(p)
  <2> DEFINE e == Min2(now + Ttl, held[txn[p].booking].start)
  <2>1. held[txn[p].booking] # None /\ Proceed(p, [txn[p] EXCEPT !.expires = e])
    BY <1>3 DEF CheckAsk, AskPasses, Confirmed
  <2>2. e \in Nat
    <3>1. txn[p].booking \in BookingIds
      BY <1>3 DEF CheckAsk, TransactionShape
    <3>2. held[txn[p].booking] \in Slots
      BY <2>1, <3>1 DEF TypeOK
    <3> QED BY <3>2, Basics, MoveRequestsAssumption DEF TypeOK, Min2
  <2> HIDE DEF e
  <2> QED BY <1>1, <1>2, <2>1, <2>2
<1>4. CASE CheckAnswer(p)
  <2> DEFINE lapse == [txn[p] EXCEPT !.op = "lapse", !.closing = {txn[p].id}]
             keep  == [txn[p] EXCEPT !.closing = Superseded(txn[p])]
  <2>1. Proceed(p, lapse) \/ Proceed(p, keep)
    BY <1>4 DEF CheckAnswer
  <2>2. txn[p].id \in RequestIds
    BY <1>4 DEF CheckAnswer, TransactionShape
  <2>3. lapse \in Transaction /\ keep \in Transaction
    BY <1>1, <2>2 DEF Superseded, OthersOn
  <2> HIDE DEF lapse, keep
  <2> QED BY <1>2, <2>1, <2>3
<1> QED BY <1>3, <1>4

(* The sequence of ids is not exhausted, so it yields a fresh one.         *)
LEMMA FreshId ==
  ASSUME Unused # {}
  PROVE  Min(Unused) \in Unused
<1>1. Unused \in SUBSET Nat
  BY MoveRequestsAssumption DEF Unused
<1>2. PICK m \in Unused : \A k \in Unused : ~(<<k, m>> \in OpToRel(<, Nat))
  BY <1>1, NatLessThanWellFounded, WFMin, Zenon
<1>3. \A k \in Unused : m <= k
  <2>1. \A k \in Unused : ~(k < m)
    BY <1>1, <1>2 DEF OpToRel
  <2> QED BY <1>1, <2>1
<1> QED BY <1>3 DEF Min

LEMMA SettleTyped ==
  ASSUME TypeOK, NEW p \in Procs, NEW outcome \in Closed, Settle(p, outcome),
         held' \in [BookingIds -> Slots \cup {None}]
  PROVE  TypeOK'
<1>1. requests' \in [RequestIds -> RequestRow]
  BY DEF TypeOK, Settle, RequestRow, Closed
<1>2. /\ pc' \in [Procs -> {"idle", "waiting", "ready"}]
      /\ txn' \in [Procs -> Transaction] /\ lock' \in Procs \cup {None}
  BY Basics DEF TypeOK, Settle, Finish
<1> QED BY <1>1, <1>2 DEF TypeOK, Settle

LEMMA CommitTyped ==
  ASSUME TypeOK, TransactionShape, AskFits, NEW p \in Procs, Commit(p)
  PROVE  TypeOK'
<1>1. txn[p] \in Transaction
  BY DEF TypeOK
<1>2. CASE CommitAsk(p)
  <2> DEFINE row == [state |-> "pending", by |-> txn[p].user, booking |-> txn[p].booking,
                     slot |-> txn[p].slot, expires |-> txn[p].expires]
  <2>1. row \in RequestRow
    BY <1>1 DEF Transaction, RequestRow
  <2>2. requests' = [requests EXCEPT ![Min(Unused)] = row]
    BY <1>2 DEF CommitAsk
  <2> HIDE DEF row
  <2> QED BY <1>2, <2>1, <2>2, Basics DEF CommitAsk, Finish, TypeOK
<1>3. CASE CommitAccept(p)
  <2>1. txn[p].slot \in Slots \cup {None}
    BY <1>1 DEF Transaction
  <2> QED BY <1>3, <2>1, SettleTyped DEF CommitAccept, TypeOK, Closed
<1>4. CASE CommitDecline(p)
  BY <1>4, SettleTyped DEF CommitDecline, TypeOK, Closed
<1>5. CASE CommitLapse(p)
  BY <1>5, SettleTyped DEF CommitLapse, TypeOK, Closed
<1>6. CASE CommitWithdraw(p)
  BY <1>6, SettleTyped DEF CommitWithdraw, TypeOK, Closed
<1>7. CASE CommitExpire(p)
  BY <1>7, SettleTyped DEF CommitExpire, TypeOK, Closed
<1> QED BY <1>2, <1>3, <1>4, <1>5, <1>6, <1>7 DEF Commit

LEMMA OutsideTyped ==
  ASSUME TypeOK, Elsewhere \/ Tick \/ \E u \in Users : Ban(u) \/ Restore(u)
  PROVE  TypeOK'
<1>1. CASE Elsewhere
  <2>1. /\ held' \in [BookingIds -> Slots \cup {None}] /\ gone' \subseteq BookingIds
    BY <1>1, Basics DEF Elsewhere, TypeOK, Calendar!Book, Calendar!Release
  <2> QED BY <1>1, <2>1 DEF Elsewhere, TypeOK
<1>2. CASE Tick
  BY <1>2, MoveRequestsAssumption DEF Tick, TypeOK
<1>3. ASSUME NEW u \in Users, Ban(u)
      PROVE  TypeOK'
  <2>1. requests' \in [RequestIds -> RequestRow]
    BY <1>3 DEF Ban, TypeOK, RequestRow, Closed
  <2>2. /\ held' \in [BookingIds -> Slots \cup {None}] /\ gone' \subseteq BookingIds
    BY <1>3, Basics DEF Ban, TypeOK, Calendar!Release
  <2> QED BY <1>3, <2>1, <2>2 DEF Ban, TypeOK
<1>4. ASSUME NEW u \in Users, Restore(u)
      PROVE  TypeOK'
  BY <1>4 DEF Restore, TypeOK
<1> QED BY <1>1, <1>2, <1>3, <1>4

LEMMA GivenUpTyped ==
  ASSUME TypeOK, NEW p \in Procs, Refuse(p) \/ Abort(p)
  PROVE  TypeOK'
BY Basics DEF Refuse, Abort, Finish, TypeOK

LEMMA TypedStep == TypeOK /\ TransactionShape /\ AskFits /\ [Next]_vars => TypeOK'
<1> SUFFICES ASSUME TypeOK, TransactionShape, AskFits, [Next]_vars PROVE TypeOK'
  OBVIOUS
<1>1. CASE UNCHANGED vars
  BY <1>1 DEF vars, TypeOK
<1>2. CASE Next
  BY <1>2, TakenInTyped, CheckedTyped, CommitTyped, OutsideTyped, GivenUpTyped,
     MoveRequestsAssumption DEF Next
<1> QED BY <1>1, <1>2

-----------------------------------------------------------------------------
(* What open requests count for *)

Safe == TypeOK /\ SafeRequests /\ AsksBounded

(* Whatever is open is as it was, and time has not gone back: everything   *)
(* but asking.                                                             *)
Shrinks ==
  /\ now' \in Nat /\ now <= now'
  /\ \A r \in RequestIds : Pending(r)' => requests'[r] = requests[r]

LEMMA OutstandingFinite ==
  ASSUME NEW u
  PROVE  IsFiniteSet(Outstanding(u)) /\ Cardinality(Outstanding(u)) \in Nat
<1>1. Outstanding(u) \in SUBSET RequestIds
  BY DEF Outstanding
<1> QED BY <1>1, FS_Subset, FS_CardinalityType, MoveRequestsAssumption

(* Nobody's requests become more, and whoever could ask still can.         *)
LEMMA ShrinksBounded ==
  ASSUME TypeOK, AsksBounded, Shrinks
  PROVE  /\ AsksBounded'
         /\ \A u, i : WithinAsks(u, i) => WithinAsks(u, i)'
<1>1. ASSUME NEW u
      PROVE  /\ Outstanding(u)' \subseteq Outstanding(u)
             /\ \A r \in Outstanding(u)' : requests'[r] = requests[r]
             /\ Cardinality(Outstanding(u)') <= Cardinality(Outstanding(u))
             /\ Cardinality(Outstanding(u)') \in Nat
  <2>1. \A r \in Outstanding(u)' :
          r \in RequestIds /\ requests'[r] = requests[r] /\ r \in Outstanding(u)
    <3>1. ASSUME NEW r \in Outstanding(u)'
          PROVE  r \in RequestIds /\ requests'[r] = requests[r] /\ r \in Outstanding(u)
      <4>1. r \in RequestIds /\ Pending(r)' /\ requests'[r].by = u /\ requests'[r].expires > now'
        BY <3>1 DEF Outstanding
      <4>2. requests'[r] = requests[r] /\ requests[r] \in RequestRow
        BY <4>1 DEF Shrinks, TypeOK
      <4>3. requests[r].expires \in Nat /\ now \in Nat /\ now' \in Nat /\ now <= now'
        BY <4>2 DEF RequestRow, Shrinks, TypeOK
      <4> QED BY <4>1, <4>2, <4>3 DEF Outstanding, Pending
    <3> QED BY <3>1
  <2>2. IsFiniteSet(Outstanding(u)) /\ Outstanding(u)' \in SUBSET Outstanding(u)
    BY <2>1, OutstandingFinite
  <2> QED BY <2>1, <2>2, FS_Subset, FS_CardinalityType
<1>2. AsksBounded'
  <2> SUFFICES ASSUME NEW u \in Users
               PROVE  /\ Cardinality(Outstanding(u)') <= MaxPending
                      /\ \A q, r \in Outstanding(u)' : q # r => requests'[q].booking # requests'[r].booking
    BY DEF AsksBounded
  <2>1. Cardinality(Outstanding(u)') <= MaxPending
    BY <1>1, OutstandingFinite, MoveRequestsAssumption DEF AsksBounded
  <2> QED BY <1>1, <2>1 DEF AsksBounded
<1>3. ASSUME NEW u, NEW i, WithinAsks(u, i)
      PROVE  WithinAsks(u, i)'
  <2>1. Cardinality(Outstanding(u)') < MaxPending
    BY <1>1, <1>3, OutstandingFinite, MoveRequestsAssumption DEF WithinAsks
  <2> QED BY <1>1, <1>3, <2>1 DEF WithinAsks
<1> QED BY <1>2, <1>3

(* A stored request is one more than there were.                           *)
LEMMA AskBounded ==
  ASSUME Safe, NEW p \in Procs, CommitAsk(p)
  PROVE  AsksBounded'
<1> DEFINE t == txn[p]
           n == Min(Unused)
<1>1. WithinAsks(t.user, t.booking) /\ n \in Unused /\ n \in RequestIds
  BY FreshId DEF Safe, SafeRequests, AskFits, CommitAsk, Ready, Unused
<1>2. /\ now' = now
      /\ requests'[n].by = t.user /\ requests'[n].booking = t.booking
      /\ \A r \in RequestIds : r # n => requests'[r] = requests[r]
  <2> HIDE DEF n
  <2>1. requests \in [RequestIds -> RequestRow]
    BY DEF Safe, TypeOK
  <2> QED BY <1>1, <2>1 DEF CommitAsk, n
<1> HIDE DEF n, t
<1> SUFFICES ASSUME NEW u \in Users
             PROVE  /\ Cardinality(Outstanding(u)') <= MaxPending
                    /\ \A q, r \in Outstanding(u)' : q # r => requests'[q].booking # requests'[r].booking
  BY DEF AsksBounded
<1>3. \A r \in Outstanding(u)' :
        \/ r = n /\ u = t.user
        \/ r \in Outstanding(u) /\ requests'[r] = requests[r]
  BY <1>2 DEF Outstanding, Pending
<1>4. /\ IsFiniteSet(Outstanding(u)) /\ Cardinality(Outstanding(u)) \in Nat
      /\ Cardinality(Outstanding(u)) <= MaxPending
      /\ \A q, r \in Outstanding(u) : q # r => requests[q].booking # requests[r].booking
  BY OutstandingFinite DEF Safe, AsksBounded
<1>5. CASE u # t.user
  <2>1. Outstanding(u)' \in SUBSET Outstanding(u)
    BY <1>3, <1>5
  <2>2. Cardinality(Outstanding(u)') <= Cardinality(Outstanding(u)) /\ Cardinality(Outstanding(u)') \in Nat
    BY <1>4, <2>1, FS_Subset, FS_CardinalityType
  <2>3. Cardinality(Outstanding(u)') <= MaxPending
    BY <1>4, <2>2, MoveRequestsAssumption
  <2> QED BY <1>3, <1>4, <1>5, <2>3
<1>6. CASE u = t.user
  <2>1. Outstanding(u)' \in SUBSET (Outstanding(u) \cup {n})
    BY <1>3
  <2>2. /\ IsFiniteSet(Outstanding(u) \cup {n})
        /\ Cardinality(Outstanding(u) \cup {n}) <= Cardinality(Outstanding(u)) + 1
        /\ Cardinality(Outstanding(u) \cup {n}) \in Nat
    <3>1. /\ IsFiniteSet(Outstanding(u) \cup {n})
          /\ Cardinality(Outstanding(u) \cup {n}) =
               IF n \in Outstanding(u) THEN Cardinality(Outstanding(u)) ELSE Cardinality(Outstanding(u)) + 1
      BY <1>4, FS_AddElement
    <3> QED BY <1>4, <3>1
  <2>3. /\ Cardinality(Outstanding(u)') <= Cardinality(Outstanding(u) \cup {n})
        /\ Cardinality(Outstanding(u)') \in Nat
    BY <2>1, <2>2, FS_Subset, FS_CardinalityType
  <2>4. /\ Cardinality(Outstanding(u)) < MaxPending
        /\ \A r \in Outstanding(u) : requests[r].booking # t.booking
    BY <1>1, <1>6 DEF WithinAsks
  <2>5. Cardinality(Outstanding(u)') <= MaxPending
    BY <1>4, <2>2, <2>3, <2>4, MoveRequestsAssumption
  <2> QED BY <1>2, <1>3, <1>4, <2>4, <2>5
<1> QED BY <1>5, <1>6

-----------------------------------------------------------------------------
(* The protocol of asking and answering *)

(* A step that writes no table, and after which only such transactions are *)
(* under way with the lock that were so before.                            *)
Quiet ==
  /\ UNCHANGED <<held, gone, requests>>
  /\ now' \in Nat /\ now <= now'
  /\ \A q \in Procs : pc'[q] = "ready" /\ txn'[q].op \in Locked =>
       pc[q] = "ready" /\ txn'[q] = txn[q] /\ lock' = lock

LEMMA QuietSafe ==
  ASSUME Safe, Quiet, TypeOK', TransactionShape'
  PROVE  Safe'
<1> USE DEF Safe, SafeRequests, Quiet
<1>1. Shrinks
  BY DEF Shrinks
<1>2. AsksBounded' /\ \A u, i : WithinAsks(u, i) => WithinAsks(u, i)'
  BY <1>1, ShrinksBounded
<1>3. RowShape' /\ LockOwned' /\ NotYetAnswered'
  BY DEF RowShape, LockOwned, NotYetAnswered, Locked
<1>4. NoDoubleBooking' /\ GoneHoldsNothing'
  BY DEF NoDoubleBooking, GoneHoldsNothing, Calendar!Holding, Calendar!Clash
<1>5. MoveClear'
  BY DEF MoveClear, Confirmed, SlotsBut, Calendar!Holding, Locked
<1>6. RivalsClosing'
  BY DEF RivalsClosing, OthersOn, Pending, Locked
<1>7. AskFits'
  BY <1>2 DEF AskFits, Unused, Locked
<1> QED BY <1>2, <1>3, <1>4, <1>5, <1>6, <1>7

(* Transactions keep their shape when rows in use keep their booking and   *)
(* slot, and every transaction is as it was or over.                       *)
RowsKept ==
  \A r \in RequestIds : requests[r].state # "unused" =>
    /\ requests'[r].state # "unused"
    /\ requests'[r].booking = requests[r].booking /\ requests'[r].slot = requests[r].slot

LEMMA ShapeKept ==
  ASSUME TransactionShape, RowsKept,
         \A q \in Procs : \/ pc'[q] = pc[q] /\ txn'[q] = txn[q]
                          \/ pc'[q] = "idle" /\ txn'[q] = NoTransaction
  PROVE  TransactionShape'
<1> SUFFICES ASSUME NEW q \in Procs
             PROVE  /\ \A r \in RequestIds : r = txn'[q].id \/ r \in txn'[q].closing => requests'[r].state # "unused"
                    /\ pc'[q] # "idle" /\ txn'[q].op = "ask" =>
                         txn'[q].booking \in BookingIds /\ txn'[q].slot \in Slots
                    /\ pc'[q] # "idle" /\ txn'[q].op \in {"accept", "decline", "lapse"} =>
                         /\ txn'[q].id \in RequestIds
                         /\ txn'[q].booking = requests'[txn'[q].id].booking
                         /\ txn'[q].slot = requests'[txn'[q].id].slot
  BY DEF TransactionShape
<1>1. CASE pc'[q] = pc[q] /\ txn'[q] = txn[q]
  BY <1>1 DEF TransactionShape, RowsKept
<1>2. CASE pc'[q] = "idle" /\ txn'[q] = NoTransaction
  BY <1>2, Basics, MoveRequestsAssumption
<1> QED BY <1>1, <1>2

LEMMA StartAt ==
  ASSUME TypeOK, NEW c \in Procs, NEW t, NEW where, Start(c, t, where)
  PROVE  /\ UNCHANGED <<now, held, gone, requests, lock>>
         /\ \A q \in Procs : /\ pc'[q] = IF q = c THEN where ELSE pc[q]
                             /\ txn'[q] = IF q = c THEN t ELSE txn[q]
<1>1. pc' = [pc EXCEPT ![c] = where] /\ txn' = [txn EXCEPT ![c] = t]
  BY DEF Start
<1>2. DOMAIN pc = Procs /\ DOMAIN txn = Procs
  BY DEF TypeOK
<1>3. \A q \in Procs : pc'[q] = IF q = c THEN where ELSE pc[q]
  BY <1>1, <1>2
<1>4. \A q \in Procs : txn'[q] = IF q = c THEN t ELSE txn[q]
  BY <1>1, <1>2
<1> QED BY <1>3, <1>4 DEF Start

(* A transaction that is taken in is not under way with the lock, and what *)
(* it is about is in use.                                                  *)
LEMMA TakenInSafe ==
  ASSUME Safe, NEW p \in Procs, Ask(p) \/ Answer(p) \/ Withdraw(p) \/ FindStale, TypeOK'
  PROVE  Safe'
<1> USE DEF Safe, SafeRequests
<1>1. ASSUME NEW c \in Procs, NEW t, NEW where, Start(c, t, where),
             where = "ready" => t.op \notin Locked,
             \A r \in RequestIds : r = t.id \/ r \in t.closing => requests[r].state # "unused",
             t.op = "ask" => t.booking \in BookingIds /\ t.slot \in Slots,
             t.op \in {"accept", "decline", "lapse"} =>
               t.id \in RequestIds /\ t.booking = requests[t.id].booking /\ t.slot = requests[t.id].slot
      PROVE  Quiet /\ TransactionShape'
  <2>1. \A q \in Procs : /\ pc'[q] = IF q = c THEN where ELSE pc[q]
                         /\ txn'[q] = IF q = c THEN t ELSE txn[q]
    BY <1>1, StartAt
  <2>2. Quiet
    BY <1>1, <2>1, StartAt DEF Quiet, TypeOK
  <2>3. TransactionShape'
    <3>1. requests' = requests
      BY <1>1, StartAt
    <3> SUFFICES ASSUME NEW q \in Procs
                 PROVE  /\ \A r \in RequestIds : r = txn'[q].id \/ r \in txn'[q].closing => requests'[r].state # "unused"
                        /\ pc'[q] # "idle" /\ txn'[q].op = "ask" =>
                             txn'[q].booking \in BookingIds /\ txn'[q].slot \in Slots
                        /\ pc'[q] # "idle" /\ txn'[q].op \in {"accept", "decline", "lapse"} =>
                             /\ txn'[q].id \in RequestIds
                             /\ txn'[q].booking = requests'[txn'[q].id].booking
                             /\ txn'[q].slot = requests'[txn'[q].id].slot
      BY DEF TransactionShape
    <3>2. CASE q = c
      BY <1>1, <2>1, <3>1, <3>2
    <3>3. CASE q # c
      BY <2>1, <3>1, <3>3 DEF TransactionShape
    <3> QED BY <3>2, <3>3
  <2> QED BY <2>2, <2>3
<1> USE DEF NoTransaction, Locked
<1>2. CASE Ask(p)
  <2>1. PICK u \in Users, i \in BookingIds, s \in Slots :
          Start(p, [NoTransaction EXCEPT !.op = "ask", !.user = u, !.booking = i, !.slot = s], "waiting")
    BY <1>2 DEF Ask
  <2> DEFINE t == [NoTransaction EXCEPT !.op = "ask", !.user = u, !.booking = i, !.slot = s]
  <2>2. t.op = "ask" /\ t.booking = i /\ t.slot = s /\ t.id = None /\ t.closing = {}
    OBVIOUS
  <2>3. Start(p, t, "waiting")
    BY <2>1
  <2> HIDE DEF t
  <2>4. Quiet /\ TransactionShape'
    BY <1>1, <2>2, <2>3, MoveRequestsAssumption
  <2> QED BY <2>4, QuietSafe
<1>3. CASE Answer(p)
  <2>1. PICK op \in {"accept", "decline"}, u \in Users, r \in RequestIds \ Unused :
          Start(p, [NoTransaction EXCEPT !.op = op, !.user = u, !.id = r,
                      !.booking = requests[r].booking, !.slot = requests[r].slot], "waiting")
    BY <1>3 DEF Answer
  <2>2. requests[r].state # "unused"
    BY <2>1 DEF Unused
  <2> DEFINE t == [NoTransaction EXCEPT !.op = op, !.user = u, !.id = r,
                     !.booking = requests[r].booking, !.slot = requests[r].slot]
  <2>3. /\ t.op = op /\ t.id = r /\ t.closing = {}
        /\ t.booking = requests[r].booking /\ t.slot = requests[r].slot
    OBVIOUS
  <2>4. Start(p, t, "waiting")
    BY <2>1
  <2> HIDE DEF t
  <2>5. Quiet /\ TransactionShape'
    BY <1>1, <2>2, <2>3, <2>4
  <2> QED BY <2>5, QuietSafe
<1>4. CASE Withdraw(p)
  <2>1. PICK r \in RequestIds :
          /\ Pending(r)
          /\ Start(p, [NoTransaction EXCEPT !.op = "withdraw", !.user = requests[r].by, !.id = r], "ready")
    BY <1>4 DEF Withdraw
  <2> DEFINE t == [NoTransaction EXCEPT !.op = "withdraw", !.user = requests[r].by, !.id = r]
  <2>2. t.op = "withdraw" /\ t.id = r /\ t.closing = {}
    OBVIOUS
  <2>3. Start(p, t, "ready") /\ requests[r].state # "unused"
    BY <2>1 DEF Pending
  <2> HIDE DEF t
  <2>4. Quiet /\ TransactionShape'
    BY <1>1, <2>2, <2>3
  <2> QED BY <2>4, QuietSafe
<1>5. CASE FindStale
  <2> DEFINE t == [NoTransaction EXCEPT !.op = "expire", !.closing = {r \in RequestIds : Stale(r)}]
  <2>1. Start(Job, t, "ready")
    BY <1>5 DEF FindStale
  <2>2. \A r \in RequestIds : r = t.id \/ r \in t.closing => requests[r].state # "unused"
    BY MoveRequestsAssumption DEF Stale, Pending
  <2>3. t.op = "expire"
    OBVIOUS
  <2> HIDE DEF t
  <2>4. Quiet /\ TransactionShape'
    BY <1>1, <2>1, <2>2, <2>3, MoveRequestsAssumption
  <2> QED BY <2>4, QuietSafe
<1> QED BY <1>2, <1>3, <1>4, <1>5

LEMMA GivenUpSafe ==
  ASSUME Safe, NEW p \in Procs, Refuse(p) \/ Abort(p), TypeOK'
  PROVE  Safe'
<1> USE DEF Safe, SafeRequests, TypeOK
<1>0. /\ UNCHANGED <<now, held, gone, requests>>
      /\ pc' = [pc EXCEPT ![p] = "idle"] /\ txn' = [txn EXCEPT ![p] = NoTransaction]
      /\ lock' = lock \/ lock = p
  BY DEF Refuse, Abort, Finish
<1>1. \A q \in Procs : \/ pc'[q] = pc[q] /\ txn'[q] = txn[q] /\ q # p
                       \/ pc'[q] = "idle" /\ txn'[q] = NoTransaction
  BY <1>0
<1>2. TransactionShape'
  BY <1>0, <1>1, ShapeKept DEF RowsKept
<1>3. Quiet
  BY <1>0, <1>1 DEF Quiet, LockOwned
<1> QED BY <1>2, <1>3, QuietSafe

LEMMA TimeSafe ==
  ASSUME Safe, Tick \/ (\E u \in Users : Restore(u)) \/ UNCHANGED vars, TypeOK'
  PROVE  Safe'
<1> USE DEF Safe, SafeRequests, TypeOK, Tick, Restore, vars
<1>0. UNCHANGED <<held, gone, requests, lock, pc, txn>> /\ now <= now'
  BY MoveRequestsAssumption
<1>1. TransactionShape'
  BY <1>0, ShapeKept DEF RowsKept
<1>2. Quiet
  BY <1>0, MoveRequestsAssumption DEF Quiet
<1> QED BY <1>1, <1>2, QuietSafe

(* Nobody is under way with the lock while it is free.                     *)
LEMMA LockFreeNobody ==
  ASSUME Safe, LockFree
  PROVE  \A q \in Procs : ~(pc[q] = "ready" /\ txn[q].op \in Locked)
BY MoveRequestsAssumption DEF Safe, SafeRequests, LockOwned, LockFree

(* A step that writes requests or bookings while nobody is, or stays, under *)
(* way with the lock leaves what such transactions rely on true of nobody.  *)
LEMMA NobodyUnderWay ==
  ASSUME Safe, TypeOK', RowShape', TransactionShape', AsksBounded',
         NoDoubleBooking', GoneHoldsNothing',
         \A q \in Procs : ~(pc'[q] = "ready" /\ txn'[q].op \in Locked)
  PROVE  Safe'
<1>1. LockOwned' /\ NotYetAnswered' /\ MoveClear' /\ RivalsClosing' /\ AskFits'
  BY DEF LockOwned, NotYetAnswered, MoveClear, RivalsClosing, AskFits, Locked
<1> QED BY <1>1 DEF Safe, SafeRequests

(* Who passed a check is the only one under way with the lock.             *)
LEMMA ProceedAt ==
  ASSUME Safe, NEW p \in Procs, NEW t, pc[p] = "waiting", LockFree, Proceed(p, t)
  PROVE  /\ UNCHANGED <<now, held, gone, requests>> /\ lock' = p
         /\ txn'[p] = t /\ pc'[p] = "ready"
         /\ \A q \in Procs \ {p} : /\ pc'[q] = pc[q] /\ txn'[q] = txn[q]
                                   /\ ~(pc'[q] = "ready" /\ txn'[q].op \in Locked)
<1>1. pc' = [pc EXCEPT ![p] = "ready"] /\ txn' = [txn EXCEPT ![p] = t]
  BY DEF Proceed
<1>2. DOMAIN pc = Procs /\ DOMAIN txn = Procs
  BY DEF Safe, TypeOK
<1>3. \A q \in Procs \ {p} : pc'[q] = pc[q] /\ txn'[q] = txn[q]
  BY <1>1, <1>2
<1>4. txn'[p] = t /\ pc'[p] = "ready"
  BY <1>1, <1>2
<1> QED BY <1>3, <1>4, LockFreeNobody DEF Proceed

LEMMA CheckAskSafe ==
  ASSUME Safe, NEW p \in Procs, CheckAsk(p), TypeOK'
  PROVE  Safe'
<1> DEFINE t == [txn[p] EXCEPT !.expires = Min2(now + Ttl, held[txn[p].booking].start)]
<1>1. /\ pc[p] = "waiting" /\ LockFree /\ txn[p].op = "ask" /\ Unused # {}
      /\ WithinAsks(txn[p].user, txn[p].booking) /\ Proceed(p, t)
  BY DEF CheckAsk, AskPasses
<1>2. /\ t.op = "ask" /\ t.booking = txn[p].booking /\ t.user = txn[p].user
      /\ t.slot = txn[p].slot /\ t.id = txn[p].id /\ t.closing = txn[p].closing
  BY <1>1 DEF Safe, TypeOK, Transaction
<1> HIDE DEF t
<1>3. /\ UNCHANGED <<now, held, gone, requests>> /\ lock' = p
      /\ txn'[p] = t /\ pc'[p] = "ready"
      /\ \A q \in Procs \ {p} : /\ pc'[q] = pc[q] /\ txn'[q] = txn[q]
                                /\ ~(pc'[q] = "ready" /\ txn'[q].op \in Locked)
  BY <1>1, ProceedAt
<1> USE DEF Safe, SafeRequests
<1>4. TransactionShape'
  BY <1>1, <1>2, <1>3 DEF TransactionShape
<1>5. Shrinks
  BY <1>3 DEF Shrinks, TypeOK
<1>6. AsksBounded' /\ WithinAsks(txn[p].user, txn[p].booking)'
  <2>1. \A u, i : WithinAsks(u, i)' <=> WithinAsks(u, i)
    BY <1>3 DEF WithinAsks, Outstanding, Pending
  <2>2. AsksBounded'
    BY <1>5, ShrinksBounded
  <2> QED BY <1>1, <1>2, <1>3, <2>1, <2>2
<1>7. RowShape' /\ NoDoubleBooking' /\ GoneHoldsNothing'
  BY <1>3 DEF RowShape, NoDoubleBooking, GoneHoldsNothing, Calendar!Holding, Calendar!Clash
<1>8. LockOwned' /\ NotYetAnswered' /\ MoveClear' /\ RivalsClosing'
  BY <1>2, <1>3 DEF LockOwned, NotYetAnswered, MoveClear, RivalsClosing, Locked
<1>9. AskFits'
  BY <1>1, <1>2, <1>3, <1>6 DEF AskFits, Unused, Locked
<1> QED BY <1>4, <1>6, <1>7, <1>8, <1>9

LEMMA CheckAnswerSafe ==
  ASSUME Safe, NEW p \in Procs, CheckAnswer(p), TypeOK'
  PROVE  Safe'
<1> DEFINE o == txn[p]
<1>1. /\ pc[p] = "waiting" /\ LockFree /\ o.op \in {"accept", "decline"} /\ Pending(o.id)
      /\ o.id \in RequestIds /\ o.booking = requests[o.id].booking /\ o.slot = requests[o.id].slot
      /\ o.booking \in BookingIds /\ o.slot \in Slots
  BY DEF CheckAnswer, MayAnswer, Safe, SafeRequests, TransactionShape, RowShape, Pending
<1>2. PICK t : /\ Proceed(p, t)
               /\ t.id = o.id /\ t.booking = o.booking /\ t.slot = o.slot
               /\ \/ t.op = "lapse" /\ t.closing = {o.id}
                  \/ t.op = "decline" /\ t.closing = {}
                  \/ /\ t.op = "accept" /\ t.closing = OthersOn(o.id)
                     /\ Confirmed(o.booking) /\ MovePasses(o)
  <2>1. o \in Transaction
    BY DEF Safe, TypeOK
  <2>2. CASE Stale(o.id)
    <3> DEFINE t == [o EXCEPT !.op = "lapse", !.closing = {o.id}]
    <3>1. Proceed(p, t)
      BY <2>2 DEF CheckAnswer
    <3>2. t.op = "lapse" /\ t.closing = {o.id} /\ t.id = o.id /\ t.booking = o.booking /\ t.slot = o.slot
      BY <2>1 DEF Transaction
    <3> HIDE DEF t
    <3> QED BY <3>1, <3>2
  <2>3. CASE ~Stale(o.id)
    <3> DEFINE t == [o EXCEPT !.closing = Superseded(o)]
    <3>1. Proceed(p, t) /\ (o.op = "accept" => MovePasses(o))
      BY <2>3 DEF CheckAnswer
    <3>2. /\ t.op = o.op /\ t.closing = Superseded(o)
          /\ t.id = o.id /\ t.booking = o.booking /\ t.slot = o.slot
      BY <2>1 DEF Transaction
    <3>3. Confirmed(o.booking)
      BY <1>1, <2>3 DEF Stale
    <3> HIDE DEF t
    <3> QED BY <1>1, <3>1, <3>2, <3>3 DEF Superseded
  <2> QED BY <2>2, <2>3
<1> HIDE DEF o
<1>3. /\ UNCHANGED <<now, held, gone, requests>> /\ lock' = p
      /\ txn'[p] = t /\ pc'[p] = "ready"
      /\ \A q \in Procs \ {p} : /\ pc'[q] = pc[q] /\ txn'[q] = txn[q]
                                /\ ~(pc'[q] = "ready" /\ txn'[q].op \in Locked)
  <2>1. pc[p] = "waiting" /\ LockFree /\ Proceed(p, t)
    BY <1>1, <1>2
  <2> QED BY <2>1, ProceedAt
<1> USE DEF Safe, SafeRequests
<1>4. \A r \in t.closing : r \in RequestIds /\ requests[r].state # "unused"
  BY <1>1, <1>2 DEF OthersOn, Pending
<1>5. TransactionShape'
  <2> SUFFICES ASSUME NEW q \in Procs
               PROVE  /\ \A r \in RequestIds : r = txn'[q].id \/ r \in txn'[q].closing => requests'[r].state # "unused"
                      /\ pc'[q] # "idle" /\ txn'[q].op = "ask" =>
                           txn'[q].booking \in BookingIds /\ txn'[q].slot \in Slots
                      /\ pc'[q] # "idle" /\ txn'[q].op \in {"accept", "decline", "lapse"} =>
                           /\ txn'[q].id \in RequestIds
                           /\ txn'[q].booking = requests'[txn'[q].id].booking
                           /\ txn'[q].slot = requests'[txn'[q].id].slot
    BY DEF TransactionShape
  <2>1. CASE q = p
    BY <1>1, <1>2, <1>3, <1>4, <2>1 DEF Pending
  <2>2. CASE q # p
    BY <1>3, <2>2 DEF TransactionShape
  <2> QED BY <2>1, <2>2
<1>6. AsksBounded'
  <2>1. Shrinks
    BY <1>3 DEF Shrinks, TypeOK
  <2> QED BY <2>1, ShrinksBounded
<1>7. RowShape' /\ NoDoubleBooking' /\ GoneHoldsNothing'
  BY <1>3 DEF RowShape, NoDoubleBooking, GoneHoldsNothing, Calendar!Holding, Calendar!Clash
<1>8. LockOwned' /\ AskFits'
  BY <1>2, <1>3 DEF LockOwned, AskFits, Locked
<1>9. NotYetAnswered'
  BY <1>1, <1>2, <1>3 DEF NotYetAnswered, Pending, Answered, Locked
<1>10. RivalsClosing'
  BY <1>2, <1>3 DEF RivalsClosing, OthersOn, Pending, Locked
<1>11. MoveClear'
  <2>1. t.op = "accept" => FreeOf(t.slot, SlotsBut(t.booking)) /\ Confirmed(t.booking)
    BY <1>2 DEF MovePasses, TimeAvailable
  <2> QED BY <1>2, <1>3, <2>1 DEF MoveClear, SlotsBut, Confirmed, Calendar!Holding, Locked
<1> QED BY <1>5, <1>6, <1>7, <1>8, <1>9, <1>10, <1>11

(* Who finishes is idle, and nobody else has the lock.                     *)
LEMMA FinishAt ==
  ASSUME Safe, NEW p \in Procs, pc[p] = "ready", Finish(p)
  PROVE  /\ \A q \in Procs : \/ pc'[q] = pc[q] /\ txn'[q] = txn[q] /\ q # p
                             \/ pc'[q] = "idle" /\ txn'[q] = NoTransaction
         /\ txn[p].op \in Locked =>
              \A q \in Procs : ~(pc'[q] = "ready" /\ txn'[q].op \in Locked)
         /\ \A q \in Procs : pc'[q] = "ready" /\ txn'[q].op \in Locked =>
              lock' = lock /\ pc[q] = "ready" /\ txn'[q] = txn[q]
<1>1. \A q \in Procs : \/ pc'[q] = pc[q] /\ txn'[q] = txn[q] /\ q # p
                       \/ pc'[q] = "idle" /\ txn'[q] = NoTransaction
  BY DEF Finish, Safe, TypeOK
<1>2. \A q \in Procs : pc[q] = "ready" /\ txn[q].op \in Locked => lock = q
  BY DEF Safe, SafeRequests, LockOwned
<1>3. lock' = IF lock = p THEN None ELSE lock
  BY DEF Finish
<1> QED BY <1>1, <1>2, <1>3

LEMMA CommitAskSafe ==
  ASSUME Safe, NEW p \in Procs, CommitAsk(p), TypeOK'
  PROVE  Safe'
<1> DEFINE n == Min(Unused)
<1>1. /\ pc[p] = "ready" /\ txn[p].op = "ask" /\ Finish(p)
      /\ UNCHANGED <<now, held, gone>>
  BY DEF CommitAsk, Ready
<1>2. n \in Unused /\ txn[p].booking \in BookingIds /\ txn[p].slot \in Slots
  BY <1>1, FreshId DEF Safe, SafeRequests, AskFits, TransactionShape
<1>3. /\ \A r \in RequestIds : r # n => requests'[r] = requests[r]
      /\ requests'[n].booking = txn[p].booking /\ requests'[n].slot = txn[p].slot
      /\ requests[n].state = "unused" /\ n \in RequestIds
  <2>1. n \in RequestIds /\ requests[n].state = "unused"
    BY <1>2 DEF Unused
  <2> HIDE DEF n
  <2>2. requests \in [RequestIds -> RequestRow]
    BY DEF Safe, TypeOK
  <2> QED BY <2>1, <2>2 DEF CommitAsk, n
<1> HIDE DEF n
<1>4. RowShape'
  BY <1>2, <1>3 DEF Safe, SafeRequests, RowShape
<1>5. TransactionShape'
  <2>1. RowsKept
    BY <1>3 DEF RowsKept
  <2> QED BY <1>1, <2>1, FinishAt, ShapeKept DEF Safe, SafeRequests
<1>6. AsksBounded'
  BY AskBounded
<1>7. NoDoubleBooking' /\ GoneHoldsNothing'
  BY <1>1 DEF Safe, SafeRequests, NoDoubleBooking, GoneHoldsNothing, Calendar!Holding, Calendar!Clash
<1>8. \A q \in Procs : ~(pc'[q] = "ready" /\ txn'[q].op \in Locked)
  BY <1>1, FinishAt DEF Locked
<1> QED BY <1>4, <1>5, <1>6, <1>7, <1>8, NobodyUnderWay

(* What closing requests leaves as it was.                                 *)
LEMMA SettleAt ==
  ASSUME Safe, NEW p \in Procs, NEW outcome \in Closed, Settle(p, outcome)
  PROVE  /\ RowsKept /\ Shrinks /\ RowShape'
         /\ \A r \in RequestIds :
              \/ requests'[r] = requests[r]
              \/ r \in txn[p].closing /\ requests'[r].state = "expired"
              \/ r = txn[p].id /\ requests'[r].state = outcome
<1> USE DEF Safe, SafeRequests
<1>1. /\ now' = now /\ now \in Nat
      /\ \A r \in RequestIds : requests[r] \in RequestRow
  BY DEF Settle, TypeOK
<1>2. \A r \in RequestIds :
        requests'[r] = IF r \in txn[p].closing THEN [requests[r] EXCEPT !.state = "expired"]
                       ELSE IF r = txn[p].id THEN [requests[r] EXCEPT !.state = outcome]
                       ELSE requests[r]
  BY DEF Settle
<1>3. \A r \in RequestIds :
        \/ requests'[r] = requests[r]
        \/ /\ r \in txn[p].closing /\ requests'[r].state = "expired"
           /\ requests'[r].booking = requests[r].booking /\ requests'[r].slot = requests[r].slot
        \/ /\ r = txn[p].id /\ requests'[r].state = outcome
           /\ requests'[r].booking = requests[r].booking /\ requests'[r].slot = requests[r].slot
  BY <1>1, <1>2 DEF RequestRow
<1>4. \A r \in RequestIds : r = txn[p].id \/ r \in txn[p].closing => requests[r].state # "unused"
  BY DEF TransactionShape
<1>5. RowsKept /\ RowShape'
  BY <1>3, <1>4 DEF RowsKept, RowShape, Closed
<1>6. Shrinks
  BY <1>1, <1>3 DEF Shrinks, Pending, Closed
<1> QED BY <1>3, <1>5, <1>6

(* An answer, or the lapse of a request, is given with the lock.           *)
LEMMA AnsweredSafe ==
  ASSUME Safe, NEW p \in Procs, NEW outcome \in Closed, Settle(p, outcome), TypeOK',
         pc[p] = "ready", txn[p].op \in Locked, NoDoubleBooking', GoneHoldsNothing'
  PROVE  Safe'
<1>1. RowsKept /\ Shrinks /\ RowShape'
  BY SettleAt
<1>2. Finish(p)
  BY DEF Settle
<1>3. TransactionShape'
  BY <1>1, <1>2, FinishAt, ShapeKept DEF Safe, SafeRequests
<1>4. AsksBounded'
  BY <1>1, ShrinksBounded DEF Safe
<1>5. \A q \in Procs : ~(pc'[q] = "ready" /\ txn'[q].op \in Locked)
  BY <1>2, FinishAt
<1> QED BY <1>1, <1>3, <1>4, <1>5, NobodyUnderWay

(* Withdrawing, and the job, close requests under the eyes of those who    *)
(* hold the lock, but answer none.                                         *)
LEMMA ClosedSafe ==
  ASSUME Safe, NEW p \in Procs, NEW outcome \in {"cancelled", "expired"}, Settle(p, outcome), TypeOK',
         pc[p] = "ready", txn[p].op \notin Locked, UNCHANGED held
  PROVE  Safe'
<1> USE DEF Safe, SafeRequests
<1>1. /\ RowsKept /\ Shrinks /\ RowShape'
      /\ \A r \in RequestIds :
           \/ requests'[r] = requests[r]
           \/ requests'[r].state \in {"expired", "cancelled"}
  BY SettleAt DEF Closed
<1>2. Finish(p) /\ UNCHANGED <<now, held, gone>>
  BY DEF Settle
<1>3. \A q \in Procs : pc'[q] = "ready" /\ txn'[q].op \in Locked =>
        lock' = lock /\ pc[q] = "ready" /\ txn'[q] = txn[q]
  BY <1>2, FinishAt
<1>4. TransactionShape'
  BY <1>1, <1>2, FinishAt, ShapeKept
<1>5. AsksBounded' /\ \A u, i : WithinAsks(u, i) => WithinAsks(u, i)'
  BY <1>1, ShrinksBounded
<1>6. LockOwned'
  BY <1>3 DEF LockOwned
<1>7. NotYetAnswered'
  <2> SUFFICES ASSUME NEW q \in Procs, pc'[q] = "ready", txn'[q].op \in {"accept", "decline"}
               PROVE  requests'[txn'[q].id].state \notin Answered
    BY DEF NotYetAnswered
  <2>1. pc[q] = "ready" /\ txn'[q] = txn[q] /\ txn[q].id \in RequestIds
    BY <1>3 DEF Locked, TransactionShape
  <2> QED BY <1>1, <2>1 DEF NotYetAnswered, Answered
<1>8. NoDoubleBooking' /\ GoneHoldsNothing'
  BY <1>2 DEF NoDoubleBooking, GoneHoldsNothing, Calendar!Holding, Calendar!Clash
<1>9. MoveClear'
  <2>1. \A i : SlotsBut(i)' = SlotsBut(i) /\ Confirmed(i)' = Confirmed(i)
    BY <1>2 DEF SlotsBut, Confirmed, Calendar!Holding
  <2> SUFFICES ASSUME NEW q \in Procs, pc'[q] = "ready", txn'[q].op = "accept"
               PROVE  (Confirmed(txn[q].booking) /\ FreeOf(txn[q].slot, SlotsBut(txn[q].booking)))'
    BY DEF MoveClear
  <2>2. pc[q] = "ready" /\ txn'[q] = txn[q]
    BY <1>3 DEF Locked
  <2>3. Confirmed(txn[q].booking) /\ FreeOf(txn[q].slot, SlotsBut(txn[q].booking))
    BY <2>2 DEF MoveClear
  <2> QED BY <2>1, <2>2, <2>3 DEF FreeOf
<1>10. RivalsClosing'
  <2> SUFFICES ASSUME NEW q \in Procs, pc'[q] = "ready", txn'[q].op = "accept"
               PROVE  (OthersOn(txn[q].id) \subseteq txn[q].closing)'
    BY DEF RivalsClosing
  <2>1. pc[q] = "ready" /\ txn'[q] = txn[q] /\ txn[q].id \in RequestIds
        /\ requests[txn[q].id].state # "unused"
    BY <1>3 DEF Locked, TransactionShape
  <2>2. OthersOn(txn[q].id) \subseteq txn[q].closing
    BY <2>1 DEF RivalsClosing
  <2>3. requests'[txn[q].id].booking = requests[txn[q].id].booking
    BY <1>1, <2>1 DEF RowsKept
  <2>4. \A r \in RequestIds : Pending(r)' => Pending(r) /\ requests'[r] = requests[r]
    BY <1>1 DEF Shrinks, Pending
  <2>5. \A r \in RequestIds : r \in OthersOn(txn[q].id)' => r \in OthersOn(txn[q].id)
    BY <2>1, <2>3, <2>4 DEF OthersOn
  <2>6. OthersOn(txn[q].id)' \subseteq RequestIds
    BY DEF OthersOn
  <2> QED BY <2>1, <2>2, <2>5, <2>6
<1>11. AskFits'
  <2>1. Unused \subseteq Unused'
    BY <1>4, SettleAt DEF Unused, TransactionShape, Closed
  <2> QED BY <1>3, <1>5, <2>1 DEF AskFits, Locked
<1> QED BY <1>1, <1>4, <1>5, <1>6, <1>7, <1>8, <1>9, <1>10, <1>11

(* A step of the calendar keeps the bookings apart and the dead dead.      *)
LEMMA CalendarSafe ==
  ASSUME Safe,
         \/ \E i \in BookingIds, s \in Slots, evicted \in SUBSET BookingIds : Calendar!Book(i, s, evicted)
         \/ \E released \in SUBSET BookingIds : Calendar!Release(released)
  PROVE  NoDoubleBooking' /\ GoneHoldsNothing'
<1> USE DEF Safe, SafeRequests, NoDoubleBooking, GoneHoldsNothing, Calendar!Holding
<1>1. ASSUME NEW i \in BookingIds, NEW s \in Slots, NEW evicted \in SUBSET BookingIds,
             Calendar!Book(i, s, evicted)
      PROVE  NoDoubleBooking' /\ GoneHoldsNothing'
  <2>1. \A j \in BookingIds : held'[j] = IF j = i THEN s ELSE IF j \in evicted THEN None ELSE held[j]
    BY <1>1 DEF Calendar!Book
  <2>2. \A j \in BookingIds : j # i /\ held'[j] # None =>
          /\ held'[j] = held[j] /\ held[j] # None
          /\ ~Calendar!Clash(s, held[j]) /\ ~Calendar!Clash(held[j], s)
    BY <1>1, <2>1 DEF Calendar!Book, Calendar!Clash
  <2>3. NoDoubleBooking'
    <3> SUFFICES ASSUME NEW j \in BookingIds, NEW k \in BookingIds,
                        held'[j] # None, held'[k] # None, j # k
                 PROVE  ~Calendar!Clash(held'[j], held'[k])
      BY DEF Calendar!Clash
    <3>1. CASE j = i
      BY <2>1, <2>2, <3>1
    <3>2. CASE k = i
      BY <2>1, <2>2, <3>2
    <3>3. CASE j # i /\ k # i
      BY <2>2, <3>3
    <3> QED BY <3>1, <3>2, <3>3
  <2>4. GoneHoldsNothing'
    BY <1>1, <2>1 DEF Calendar!Book, TypeOK
  <2> QED BY <2>3, <2>4
<1>2. ASSUME NEW released \in SUBSET BookingIds, Calendar!Release(released)
      PROVE  NoDoubleBooking' /\ GoneHoldsNothing'
  BY <1>2 DEF Calendar!Release, Calendar!Clash, TypeOK
<1> QED BY <1>1, <1>2

(* Accepting books what was asked for, and evicts nobody.                  *)
LEMMA AcceptBooks ==
  ASSUME Safe, NEW p \in Procs, CommitAccept(p)
  PROVE  /\ txn[p].booking \in BookingIds /\ txn[p].slot \in Slots
         /\ Calendar!Book(txn[p].booking, txn[p].slot, {})
<1> DEFINE i == txn[p].booking
           s == txn[p].slot
<1> USE DEF Safe, SafeRequests
<1>1. pc[p] = "ready" /\ txn[p].op = "accept"
  BY DEF CommitAccept, Ready
<1>2. i \in BookingIds /\ s \in Slots
  BY <1>1 DEF TransactionShape, RowShape
<1>3. held' = [held EXCEPT ![i] = s] /\ gone' = gone
  BY DEF CommitAccept, Settle
<1>4. Confirmed(i) /\ FreeOf(s, SlotsBut(i))
  BY <1>1 DEF MoveClear
<1>5. i \notin gone
  BY <1>4 DEF GoneHoldsNothing, Confirmed
<1>6. \A j \in Calendar!Holding \ {i} : ~Calendar!Clash(s, held[j])
  <2> SUFFICES ASSUME NEW j \in Calendar!Holding \ {i} PROVE ~Calendar!Clash(s, held[j])
    OBVIOUS
  <2>1. ~Overlaps(s, held[j])
    BY <1>4 DEF FreeOf, SlotsBut
  <2>2. held[j] \in Slots
    BY Basics DEF TypeOK, Calendar!Holding
  <2> QED BY <1>2, <2>1, <2>2, Basics DEF Overlaps, Calendar!Clash
<1>7. held' = [j \in BookingIds |-> IF j = i THEN s ELSE IF j \in {} THEN None ELSE held[j]]
  BY <1>3 DEF TypeOK
<1> QED BY <1>2, <1>3, <1>5, <1>6, <1>7 DEF Calendar!Book

LEMMA CommitSafe ==
  ASSUME Safe, NEW p \in Procs, Commit(p), TypeOK'
  PROVE  Safe'
<1> USE DEF Ready, Closed, Locked
<1>1. CASE CommitAsk(p)
  BY <1>1, CommitAskSafe
<1>2. CASE CommitAccept(p)
  <2>1. NoDoubleBooking' /\ GoneHoldsNothing'
    BY <1>2, AcceptBooks, CalendarSafe
  <2> QED BY <1>2, <2>1, AnsweredSafe DEF CommitAccept
<1>3. UNCHANGED <<held, gone>> => NoDoubleBooking' /\ GoneHoldsNothing'
  BY DEF Safe, SafeRequests, NoDoubleBooking, GoneHoldsNothing, Calendar!Holding, Calendar!Clash
<1>4. CASE CommitDecline(p)
  BY <1>3, <1>4, AnsweredSafe DEF CommitDecline, Settle
<1>5. CASE CommitLapse(p)
  BY <1>3, <1>5, AnsweredSafe DEF CommitLapse, Settle
<1>6. CASE CommitWithdraw(p)
  BY <1>6, ClosedSafe DEF CommitWithdraw
<1>7. CASE CommitExpire(p)
  BY <1>7, ClosedSafe DEF CommitExpire
<1> QED BY <1>1, <1>2, <1>4, <1>5, <1>6, <1>7 DEF Commit

LEMMA OutsideSafe ==
  ASSUME Safe, Elsewhere \/ \E u \in Users : Ban(u), TypeOK'
  PROVE  Safe'
<1> USE DEF Safe, SafeRequests
<1>1. /\ LockFree /\ UNCHANGED <<now, pc, txn>>
      /\ \/ \E i \in BookingIds, s \in Slots, evicted \in SUBSET BookingIds : Calendar!Book(i, s, evicted)
         \/ \E released \in SUBSET BookingIds : Calendar!Release(released)
  <2>1. CASE Elsewhere
    <3>1. ASSUME NEW i \in BookingIds, Calendar!Release({i})
          PROVE  \E released \in SUBSET BookingIds : Calendar!Release(released)
      BY <3>1
    <3> QED BY <2>1, <3>1 DEF Elsewhere, LockFree
  <2>2. ASSUME NEW u \in Users, Ban(u)
        PROVE  \E released \in SUBSET BookingIds : Calendar!Release(released)
    BY <2>2, Basics DEF Ban, PersonalOf
  <2> QED BY <2>1, <2>2 DEF Ban, LockFree
<1>2. \A r \in RequestIds :
        \/ requests'[r] = requests[r]
        \/ /\ Pending(r) /\ requests'[r].state = "cancelled"
           /\ requests'[r].booking = requests[r].booking /\ requests'[r].slot = requests[r].slot
  <2>1. ASSUME NEW u \in Users, Ban(u), NEW r \in RequestIds
        PROVE  \/ requests'[r] = requests[r]
               \/ /\ Pending(r) /\ requests'[r].state = "cancelled"
                  /\ requests'[r].booking = requests[r].booking /\ requests'[r].slot = requests[r].slot
    <3>1. requests[r] \in RequestRow
      BY DEF TypeOK
    <3> QED BY <2>1, <3>1 DEF Ban, RequestRow
  <2> QED BY <2>1 DEF Elsewhere
<1>3. RowsKept /\ Shrinks /\ RowShape'
  BY <1>1, <1>2 DEF RowsKept, Shrinks, RowShape, Pending, TypeOK
<1>4. TransactionShape'
  BY <1>1, <1>3, ShapeKept
<1>5. AsksBounded'
  BY <1>3, ShrinksBounded
<1>6. NoDoubleBooking' /\ GoneHoldsNothing'
  BY <1>1, CalendarSafe
<1>7. \A q \in Procs : ~(pc'[q] = "ready" /\ txn'[q].op \in Locked)
  BY <1>1, LockFreeNobody
<1> QED BY <1>3, <1>4, <1>5, <1>6, <1>7, NobodyUnderWay

LEMMA SafeStep == Safe /\ [Next]_vars => Safe'
<1> SUFFICES ASSUME Safe, [Next]_vars PROVE Safe'
  OBVIOUS
<1>1. TypeOK'
  BY TypedStep DEF Safe, SafeRequests
<1>2. ASSUME NEW p \in Procs,
             \/ Ask(p) \/ CheckAsk(p) \/ Answer(p) \/ CheckAnswer(p) \/ Refuse(p)
             \/ Withdraw(p) \/ Commit(p) \/ Abort(p)
      PROVE  Safe'
  BY <1>1, <1>2, TakenInSafe, CheckAskSafe, CheckAnswerSafe, GivenUpSafe, CommitSafe
<1>3. CASE FindStale
  BY <1>1, <1>3, TakenInSafe, MoveRequestsAssumption
<1>4. CASE Elsewhere \/ Tick \/ \E u \in Users : Ban(u) \/ Restore(u)
  BY <1>1, <1>4, OutsideSafe, TimeSafe
<1>5. CASE UNCHANGED vars
  BY <1>1, <1>5, TimeSafe
<1> QED BY <1>2, <1>3, <1>4, <1>5 DEF Next

LEMMA SafeInit == Init => Safe
<1> SUFFICES ASSUME Init PROVE Safe
  OBVIOUS
<1>1. TypeOK
  BY TypedInit
<1>2. /\ \A r \in RequestIds : requests[r].state = "unused" /\ ~Pending(r)
      /\ \A p \in Procs : pc[p] = "idle" /\ txn[p] = NoTransaction
      /\ Calendar!Holding = {} /\ gone = {}
  BY Basics DEF Init, Pending, Calendar!Init, Calendar!Holding
<1>3. SafeRequests
  BY <1>2, Basics, MoveRequestsAssumption
     DEF SafeRequests, RowShape, TransactionShape, LockOwned, NotYetAnswered,
         NoDoubleBooking, GoneHoldsNothing, MoveClear, RivalsClosing, AskFits
<1>4. AsksBounded
  <2>1. \A u : Outstanding(u) = {}
    BY <1>2 DEF Outstanding
  <2> QED BY <2>1, FS_EmptySet, MoveRequestsAssumption DEF AsksBounded
<1> QED BY <1>1, <1>3, <1>4 DEF Safe

LEMMA SafeAlways == Spec => []Safe
BY SafeInit, SafeStep, PTL DEF Spec

-----------------------------------------------------------------------------
(* What follows *)

(* Every reachable state is typed (TypeOK).                                *)
THEOREM TypeCorrect == Spec => []TypeOK
<1>1. Safe => TypeOK
  BY DEF Safe
<1> QED BY <1>1, SafeAlways, PTL

(* The lock of asking and answering does its work: nobody answers an       *)
(* answered request, what is going to be accepted is still free and leaves *)
(* no rival open (SafeRequests).                                           *)
THEOREM RequestsSafe == Spec => []SafeRequests
<1>1. Safe => SafeRequests
  BY DEF Safe
<1> QED BY <1>1, SafeAlways, PTL

(* Every reachable state is typed and safe (RequestsInv).                  *)
THEOREM InvariantHolds == Spec => []RequestsInv
<1>1. Safe => RequestsInv
  BY DEF Safe, RequestsInv
<1> QED BY <1>1, SafeAlways, PTL

(* However many times somebody asks at once, the limit per requester and   *)
(* one open request for each booking hold (AsksBounded).                   *)
THEOREM LimitsHold == Spec => []AsksBounded
<1>1. Safe => AsksBounded
  BY DEF Safe
<1> QED BY <1>1, SafeAlways, PTL

(* The steps that can write the state of a request, and what they write.   *)
LEMMA RequestSteps ==
  ASSUME Safe, [Next]_vars, NEW r \in RequestIds, requests'[r].state # requests[r].state
  PROVE  \/ requests[r].state = "unused" /\ requests'[r].state = "pending"
         \/ requests'[r].state \in {"cancelled", "expired"}
         \/ \E p \in Procs : /\ CommitDecline(p) /\ r = txn[p].id /\ requests'[r].state = "declined"
         \/ \E p \in Procs : /\ CommitAccept(p) /\ r = txn[p].id /\ requests'[r].state = "accepted"
<1> USE DEF Safe, SafeRequests
<1>1. requests' # requests
  OBVIOUS
<1>2. ASSUME NEW p \in Procs, Commit(p)
      PROVE  \/ requests[r].state = "unused" /\ requests'[r].state = "pending"
             \/ requests'[r].state \in {"cancelled", "expired"}
             \/ CommitDecline(p) /\ r = txn[p].id /\ requests'[r].state = "declined"
             \/ CommitAccept(p) /\ r = txn[p].id /\ requests'[r].state = "accepted"
  <2> USE DEF Closed
  <2>1. CASE CommitAsk(p)
    <3> DEFINE n == Min(Unused)
    <3>1. n \in RequestIds /\ requests[n].state = "unused"
      BY <2>1, FreshId DEF CommitAsk, Ready, AskFits, Unused
    <3> HIDE DEF n
    <3>2. requests \in [RequestIds -> RequestRow]
      BY DEF TypeOK
    <3>3. requests'[n].state = "pending" /\ (r # n => requests'[r] = requests[r])
      BY <2>1, <3>1, <3>2 DEF CommitAsk, n
    <3> QED BY <3>1, <3>3
  <2>2. CASE CommitAccept(p)
    BY <2>2, SettleAt DEF CommitAccept
  <2>3. CASE CommitDecline(p)
    BY <2>3, SettleAt DEF CommitDecline
  <2>4. CASE CommitLapse(p)
    BY <2>4, SettleAt DEF CommitLapse
  <2>5. CASE CommitWithdraw(p)
    BY <2>5, SettleAt DEF CommitWithdraw
  <2>6. CASE CommitExpire(p)
    BY <2>6, SettleAt DEF CommitExpire
  <2> QED BY <1>2, <2>1, <2>2, <2>3, <2>4, <2>5, <2>6 DEF Commit
<1>3. ASSUME NEW u \in Users, Ban(u)
      PROVE  requests'[r].state = "cancelled"
  <2>1. requests[r] \in RequestRow
    BY DEF TypeOK
  <2> QED BY <1>3, <2>1 DEF Ban, RequestRow
<1>4. ASSUME NEW p \in Procs
      PROVE  ~(Ask(p) \/ CheckAsk(p) \/ Answer(p) \/ CheckAnswer(p) \/ Refuse(p) \/ Withdraw(p) \/ Abort(p))
  <2>1. Ask(p) \/ Answer(p) \/ Withdraw(p) => requests' = requests
    BY DEF Ask, Answer, Withdraw, Start
  <2>2. CheckAsk(p) \/ CheckAnswer(p) => requests' = requests
    BY DEF CheckAsk, CheckAnswer, Proceed
  <2>3. Refuse(p) \/ Abort(p) => requests' = requests
    BY DEF Refuse, Abort
  <2> QED BY <1>1, <2>1, <2>2, <2>3
<1>5. ~(FindStale \/ Elsewhere \/ Tick \/ (\E u \in Users : Restore(u)) \/ UNCHANGED vars)
  BY <1>1 DEF FindStale, Start, Elsewhere, Tick, Restore, vars
<1> QED BY <1>2, <1>3, <1>4, <1>5 DEF Next

(* Of two people who answer at once one succeeds (AnsweredOnce): whoever   *)
(* is about to answer holds the lock, and found the request unanswered.    *)
THEOREM OneAnswer == Spec => AnsweredOnce
<1>1. ASSUME Safe, [Next]_vars, NEW r \in RequestIds,
             requests[r].state \in Answered, requests'[r].state \in Answered
      PROVE  requests'[r].state = requests[r].state
  <2>1. \A p \in Procs : CommitDecline(p) \/ CommitAccept(p) => requests[txn[p].id].state \notin Answered
    BY <1>1 DEF CommitDecline, CommitAccept, Ready, Safe, SafeRequests, NotYetAnswered
  <2> QED BY <1>1, <2>1, RequestSteps DEF Answered
<1>2. Safe /\ [Next]_vars =>
        [\A r \in RequestIds :
           requests[r].state \in Answered /\ requests'[r].state \in Answered
             => requests'[r].state = requests[r].state]_vars
  BY <1>1
<1> QED BY <1>2, SafeAlways, PTL DEF Spec, AnsweredOnce

(* Accepting moves the booking to what was asked, changes nobody else's    *)
(* and leaves no other request for it open (AcceptSettles): new requests   *)
(* need the lock that the answer holds.                                    *)
THEOREM AcceptanceSettles == Spec => AcceptSettles
<1>1. ASSUME Safe, [Next]_vars, NEW r \in RequestIds,
             requests'[r].state = "accepted", requests[r].state # "accepted"
      PROVE  /\ held' = [held EXCEPT ![requests[r].booking] = requests[r].slot]
             /\ \A q \in RequestIds :
                  requests'[q].state = "pending" => requests'[q].booking # requests[r].booking
  <2>1. PICK p \in Procs : CommitAccept(p) /\ r = txn[p].id
    BY <1>1, RequestSteps
  <2> USE DEF Safe, SafeRequests
  <2>2. /\ pc[p] = "ready" /\ txn[p].op = "accept" /\ Settle(p, "accepted")
        /\ held' = [held EXCEPT ![txn[p].booking] = txn[p].slot]
    BY <2>1 DEF CommitAccept, Ready
  <2>3. txn[p].booking = requests[r].booking /\ txn[p].slot = requests[r].slot
    BY <1>1, <2>1, <2>2 DEF TransactionShape
  <2>4. ASSUME NEW q \in RequestIds, requests'[q].state = "pending"
        PROVE  requests'[q].booking # requests[r].booking
    <3>1. requests'[q] = requests[q] /\ q # r /\ Pending(q)
      BY <1>1, <2>2, <2>4, SettleAt DEF Closed, Pending
    <3>2. q \notin txn[p].closing
      BY <1>1, <2>2, <2>4 DEF Settle, TypeOK, RequestRow
    <3>3. q \notin OthersOn(r)
      BY <1>1, <2>1, <2>2, <3>2 DEF RivalsClosing
    <3> QED BY <3>1, <3>3 DEF OthersOn
  <2> QED BY <2>2, <2>3, <2>4
<1>2. Safe /\ [Next]_vars =>
        [\A r \in RequestIds :
           requests'[r].state = "accepted" /\ requests[r].state # "accepted" =>
             /\ held' = [held EXCEPT ![requests[r].booking] = requests[r].slot]
             /\ \A q \in RequestIds :
                  requests'[q].state = "pending" => requests'[q].booking # requests[r].booking]_vars
  BY <1>1
<1> QED BY <1>2, SafeAlways, PTL DEF Spec, AcceptSettles

(* Every step is one of the calendar of a single room, or invisible in it. *)
LEMMA StepImplements == Safe /\ [Next]_vars => [Calendar!Next]_(Calendar!vars)
<1> SUFFICES ASSUME Safe, [Next]_vars PROVE [Calendar!Next]_(Calendar!vars)
  OBVIOUS
<1>1. ASSUME NEW p \in Procs, CommitAccept(p)
      PROVE  Calendar!Next
  BY <1>1, AcceptBooks DEF Calendar!Next
<1>2. CASE Elsewhere
  BY <1>2 DEF Elsewhere, Calendar!Next
<1>3. ASSUME NEW u \in Users, Ban(u)
      PROVE  Calendar!Next
  BY <1>3, Basics DEF Ban, PersonalOf, Calendar!Next
<1>4. ASSUME NEW p \in Procs,
             \/ CommitAsk(p) \/ CommitDecline(p) \/ CommitLapse(p)
             \/ CommitWithdraw(p) \/ CommitExpire(p)
      PROVE  UNCHANGED <<held, gone>>
  BY <1>4 DEF CommitAsk, CommitDecline, CommitLapse, CommitWithdraw, CommitExpire, Settle
<1>5. ASSUME NEW p \in Procs,
             \/ Ask(p) \/ CheckAsk(p) \/ Answer(p) \/ CheckAnswer(p) \/ Refuse(p)
             \/ Withdraw(p) \/ Abort(p)
      PROVE  UNCHANGED <<held, gone>>
  <2>1. Ask(p) \/ Answer(p) \/ Withdraw(p) => UNCHANGED <<held, gone>>
    BY DEF Ask, Answer, Withdraw, Start
  <2>2. CheckAsk(p) \/ CheckAnswer(p) => UNCHANGED <<held, gone>>
    BY DEF CheckAsk, CheckAnswer, Proceed
  <2>3. Refuse(p) \/ Abort(p) => UNCHANGED <<held, gone>>
    BY DEF Refuse, Abort
  <2> QED BY <1>5, <2>1, <2>2, <2>3
<1>6. CASE FindStale \/ Tick \/ (\E u \in Users : Restore(u)) \/ UNCHANGED vars
  BY <1>6 DEF FindStale, Start, Tick, Restore, vars, Calendar!vars
<1> QED BY <1>1, <1>2, <1>3, <1>4, <1>5, <1>6 DEF Next, Commit, Calendar!vars

(* An accepted request is a move in the calendar of the single room, and   *)
(* nothing else that is done about requests shows in it.                   *)
THEOREM RequestsImplementCalendar == Spec => ImplementsCalendar
<1>1. Init => Calendar!Init
  BY DEF Init
<1> QED BY <1>1, SafeAlways, StepImplements, PTL DEF Spec, ImplementsCalendar, Calendar!Spec
==============================================================================
