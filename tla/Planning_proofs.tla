---------------------------- MODULE Planning_proofs ----------------------------
(***************************************************************************)
(* Weekly planning, proved for every number of requests, bands, weeks and  *)
(* bookings: the room is held once, every request is served once and with  *)
(* what it asked for, a late run hands out nothing that has passed, and    *)
(* publishing a week is one step of the calendar of the room.              *)
(*                                                                         *)
(* The plan is made outside of the tables, while submissions, deletions    *)
(* and changes of the settings go on.  The inductive invariant (SafeWeeks) *)
(* says what of that the plan still agrees with; that the plan itself is   *)
(* sound is taken from Allocator_proofs.                                   *)
(***************************************************************************)
EXTENDS Planning, Sums, WellFoundedInduction

AP == INSTANCE Allocator_proofs WITH Days <- Weekdays, Inputs <- {}

-----------------------------------------------------------------------------
(* The allocator at work *)

AllocatorSound == Allocator!PlanInv /\ Allocator!NobodyGains

LEMMA SameInvariant == AllocatorSound <=> AP!IInv
BY DEF AllocatorSound, Allocator!PlanInv, AP!IInv, Allocator!TypeOK, AP!TypeOK,
   Allocator!Input, AP!Input, Allocator!Asked, AP!Asked, Allocator!Window, AP!Window,
   Allocator!Interval, AP!Interval, Allocator!Place, AP!Place, Allocator!Order, AP!Order,
   Allocator!Wishes, AP!Wishes, Allocator!NoClash, AP!NoClash, Allocator!Fits, AP!Fits,
   Allocator!Apart, AP!Apart, Allocator!WithinWishes, AP!WithinWishes,
   Allocator!WindowOf, AP!WindowOf, Allocator!Duration, AP!Duration, Allocator!BandOf, AP!BandOf,
   Allocator!Bigger, AP!Bigger, Allocator!Smaller, AP!Smaller, Allocator!DailyKept, AP!DailyKept,
   Allocator!NobodyGains, AP!NobodyGains, Allocator!Served, AP!Served,
   Allocator!CouldHave, AP!CouldHave, Allocator!HasBesides, AP!HasBesides,
   Allocator!Starts, AP!Starts

LEMMA SameNext == Allocator!Next <=> AP!Next
BY DEF Allocator!Next, AP!Next, Allocator!Skip, AP!Skip, Allocator!Assign, AP!Assign,
   Allocator!NextRound, AP!NextRound, Allocator!First, AP!First, Allocator!Before, AP!Before,
   Allocator!Slack, AP!Slack, Allocator!Allowed, AP!Allowed, Allocator!FreeStarts, AP!FreeStarts,
   Allocator!EarliestStart, AP!EarliestStart, Allocator!Starts, AP!Starts,
   Allocator!Fits, AP!Fits, Allocator!Apart, AP!Apart, Allocator!WindowOf, AP!WindowOf,
   Allocator!Duration, AP!Duration, Allocator!BandOf, AP!BandOf, Allocator!Order, AP!Order,
   Allocator!Round, AP!Round, Allocator!Wishes, AP!Wishes, Allocator!Played, AP!Played,
   Allocator!Bigger, AP!Bigger, Allocator!Smaller, AP!Smaller

LEMMA SameConstants ==
  /\ STEP \in Nat \ {0} /\ None \notin AP!Place /\ {} \subseteq AP!Input
  /\ Allocator!Input = AP!Input
BY PlanningAssumption
   DEF Allocator!Place, AP!Place, Allocator!Input, AP!Input, Allocator!Asked, AP!Asked,
   Allocator!Window, AP!Window, Allocator!Interval, AP!Interval

LEMMA AllocatorGoesOn ==
  ASSUME AllocatorSound, Allocator!Next
  PROVE  AllocatorSound'
<1>1. AP!IInv /\ AP!Next
  BY SameInvariant, SameNext
<1>2. AP!NextRound => AP!IInv'
  BY <1>1, SameConstants, AP!RoundInv DEF AP!RoundInv
<1>3. ASSUME NEW i \in rest, AP!Skip(i) PROVE AP!IInv'
  BY <1>1, <1>3, SameConstants, AP!SkipInv DEF AP!SkipInv
<1>4. ASSUME NEW i \in rest, AP!Assign(i) PROVE AP!IInv'
  BY <1>1, <1>4, SameConstants, AP!AssignInv DEF AP!AssignInv
<1>5. AP!IInv'
  BY <1>1, <1>2, <1>3, <1>4 DEF AP!Next
<1>6. (AllocatorSound <=> AP!IInv)'
  BY SameInvariant, PTL
<1> QED BY <1>5, <1>6

LEMMA AllocatorCalled ==
  ASSUME NEW in \in Allocator!Input, Allocator!Call(in)
  PROVE  AllocatorSound'
<1>1. AP!Call(in) /\ in \in AP!Input
  BY SameConstants DEF Allocator!Call, AP!Call
<1>2. AP!IInv'
  BY <1>1, SameConstants, AP!CallInv DEF AP!CallInv
<1>3. (AllocatorSound <=> AP!IInv)'
  BY SameInvariant, PTL
<1> QED BY <1>2, <1>3

LEMMA AllocatorRests == AllocatorSound /\ UNCHANGED allocator => AllocatorSound'
<1> SUFFICES ASSUME AllocatorSound, UNCHANGED allocator PROVE AllocatorSound'
  OBVIOUS
<1>1. AP!IInv /\ UNCHANGED AP!vars
  BY SameInvariant DEF allocator, AP!vars
<1>2. AP!IInv'
  BY <1>1, SameConstants, AP!StutterInv DEF AP!StutterInv
<1>3. (AllocatorSound <=> AP!IInv)'
  BY SameInvariant, PTL
<1> QED BY <1>2, <1>3

-----------------------------------------------------------------------------
(* Ids in their order *)

(* Every id has a rank of its own, and every rank up to the number of ids  *)
(* is the rank of one.                                                     *)
LEMMA Ranks ==
  ASSUME NEW ids \in SUBSET Nat, IsFiniteSet(ids)
  PROVE  /\ Cardinality(ids) \in Nat
         /\ \A r \in ids : Rank(ids, r) \in 1..Cardinality(ids)
         /\ \A q, r \in ids : Rank(ids, q) = Rank(ids, r) => q = r
         /\ \A k \in 1..Cardinality(ids) : \E r \in ids : Rank(ids, r) = k
<1> DEFINE upTo(r) == {q \in ids : q <= r}
           n == Cardinality(ids)
           f == [r \in ids |-> Rank(ids, r)]
<1>1. n \in Nat
  BY FS_CardinalityType
<1>2. \A r \in ids : upTo(r) \in SUBSET ids /\ r \in upTo(r) /\ Rank(ids, r) = Cardinality(upTo(r))
  BY DEF Rank
<1>3. \A r \in ids : IsFiniteSet(upTo(r)) /\ Cardinality(upTo(r)) \in 1..n
  <2> SUFFICES ASSUME NEW r \in ids PROVE IsFiniteSet(upTo(r)) /\ Cardinality(upTo(r)) \in 1..n
    OBVIOUS
  <2>1. upTo(r) \in SUBSET ids /\ upTo(r) # {}
    BY <1>2
  <2> HIDE DEF upTo, n
  <2>2. IsFiniteSet(upTo(r)) /\ Cardinality(upTo(r)) <= n /\ Cardinality(upTo(r)) \in Nat
    BY <2>1, FS_Subset, FS_CardinalityType DEF n
  <2>3. Cardinality(upTo(r)) # 0
    BY <2>1, <2>2, FS_EmptySet
  <2> QED BY <1>1, <2>2, <2>3
<1>4. ASSUME NEW q \in ids, NEW r \in ids, q < r
      PROVE  Cardinality(upTo(q)) # Cardinality(upTo(r))
  <2>1. upTo(q) \in SUBSET upTo(r) /\ r \in upTo(r) /\ r \notin upTo(q)
    <3>1. q \in Nat /\ r \in Nat /\ \A x \in ids : x \in Nat
      OBVIOUS
    <3>2. \A x \in ids : x <= q => x <= r
      BY <1>4, <3>1
    <3>3. r <= r /\ ~(r <= q)
      BY <1>4, <3>1
    <3>4. upTo(q) \in SUBSET upTo(r)
      BY <3>2
    <3> QED BY <3>3, <3>4
  <2> HIDE DEF upTo
  <2> QED BY <1>3, <2>1, FS_Subset
<1>5. \A q, r \in ids : Rank(ids, q) = Rank(ids, r) => q = r
  <2>1. \A q, r \in ids : q < r \/ r < q \/ q = r
    OBVIOUS
  <2> HIDE DEF upTo
  <2> QED BY <1>2, <1>4, <2>1
<1>6. f \in Injection(ids, 1..n)
  <2>1. \A r \in ids : f[r] \in 1..n
    BY <1>2, <1>3
  <2> HIDE DEF n
  <2> QED BY <1>5, <2>1 DEF Injection, IsInjective
<1>7. IsFiniteSet(1..n) /\ Cardinality(1..n) = n
  <2> HIDE DEF n
  <2> QED BY <1>1, FS_Interval
<1>8. f \in Surjection(ids, 1..n)
  <2> HIDE DEF f
  <2> QED BY <1>6, <1>7, FS_Injection
<1>9. \A k \in 1..n : \E r \in ids : Rank(ids, r) = k
  BY <1>8 DEF Surjection
<1> QED BY <1>1, <1>2, <1>3, <1>5, <1>9

(* The order names every id once.                                          *)
LEMMA Enumerates ==
  ASSUME NEW ids \in SUBSET Nat, IsFiniteSet(ids)
  PROVE  /\ DOMAIN InOrder(ids) = 1..Cardinality(ids)
         /\ InOrder(ids) \in Seq(ids)
         /\ \A k \in 1..Cardinality(ids) : InOrder(ids)[k] \in ids
         /\ \A k, l \in 1..Cardinality(ids) : InOrder(ids)[k] = InOrder(ids)[l] => k = l
<1>1. Cardinality(ids) \in Nat
  BY Ranks
<1>2. \A k \in 1..Cardinality(ids) : InOrder(ids)[k] \in ids /\ Rank(ids, InOrder(ids)[k]) = k
  <2>1. ASSUME NEW k \in 1..Cardinality(ids)
        PROVE  InOrder(ids)[k] \in ids /\ Rank(ids, InOrder(ids)[k]) = k
    <3>1. \E r \in ids : Rank(ids, r) = k
      BY <2>1, Ranks
    <3>2. InOrder(ids)[k] = CHOOSE r \in ids : Rank(ids, r) = k
      BY DEF InOrder
    <3> QED BY <3>1, <3>2
  <2> QED BY <2>1
<1>3. DOMAIN InOrder(ids) = 1..Cardinality(ids) /\ InOrder(ids) = [k \in 1..Cardinality(ids) |-> InOrder(ids)[k]]
  BY DEF InOrder
<1>4. \A k, l \in 1..Cardinality(ids) : InOrder(ids)[k] = InOrder(ids)[l] => k = l
  BY <1>2
<1>5. InOrder(ids) \in Seq(ids)
  <2> DEFINE s == InOrder(ids)
             n == Cardinality(ids)
  <2>1. s \in [1..n -> ids]
    BY <1>2, <1>3
  <2> HIDE DEF s, n
  <2> QED BY <1>1, <2>1 DEF s, n
<1> QED BY <1>2, <1>3, <1>4, <1>5

-----------------------------------------------------------------------------
(* The inductive invariant, in the parts that steps disturb *)

Places == {"idle", "submitting", "deleting", "catching", "waiting", "allocating"}

RequestRow ==
  [state : RequestStatuses, week : Nat \cup {None},
   what : RequestChoices \cup {None}, booking : BookingIds \cup {None}]

BookingRowType ==
  [band : Bands \cup {None}, day : Nat \cup {None}, start : Nat \cup {None},
   end : Nat \cup {None}, request : RequestIds \cup {None}]

\* The types of everything but the tables and the requests under way.
WorldTyped ==
  /\ today \in 0..MaxDay /\ clock \in 0..DayEnd
  /\ settings \in SettingsChoices
  /\ published \subseteq Weeks /\ failed \subseteq Weeks
  /\ lock \in Procs \cup {None}
  /\ server \in {"down", "starting", "up"} /\ alarm \in BOOLEAN /\ crashes \in 0..MaxCrashes

RowsTyped == requests \in [RequestIds -> RequestRow] /\ bookings \in [BookingIds -> BookingRowType]

JobsTyped == pc \in [Procs -> Places] /\ job \in [Procs -> Job]

TablesGood == RowsTyped /\ RowsShape /\ RoomHeldOnce /\ AllocatedOnce /\ GivenAsAsked

LEMMA WholeParts ==
  WeeksInv <=> /\ WorldTyped /\ TablesGood /\ JobsTyped /\ JobsShape
            /\ LockOwned /\ PlanFits /\ AllocatorSound
BY DEF WeeksInv, TypeOK, SafeWeeks, WorldTyped, TablesGood, RowsTyped, RequestRow, BookingRowType,
   JobsTyped, Places, AllocatorSound

LEMMA WholePartsNext ==
  WeeksInv' <=> /\ WorldTyped' /\ TablesGood' /\ JobsTyped' /\ JobsShape'
             /\ LockOwned' /\ PlanFits' /\ AllocatorSound'
BY WholeParts, PTL

(* Weeks that today belongs to or precedes are within the bound.           *)
LEMMA WeeksOfToday ==
  ASSUME today \in 0..MaxDay
  PROVE  WeekStartOf(today) \in Weeks /\ NextWeekStart(today) \in Weeks
<1>1. ASSUME NEW w \in Nat \ {0}, NEW d \in Nat
      PROVE  d % w \in Nat /\ d % w < w /\ d % w <= d
  OBVIOUS
<1> QED BY <1>1, PlanningAssumption DEF WeekStartOf, NextWeekStart, Weeks

LEMMA NoJobTyped == NoJob \in Job
BY PlanningAssumption DEF NoJob, Job

(* A request that goes on to another place with a job that fits there.     *)
LEMMA BeginTyped ==
  ASSUME JobsTyped, JobsShape, NEW p \in Procs, NEW j \in Job, NEW where \in Places, Begin(p, j, where),
         where = "submitting" => /\ j.what \in RequestChoices /\ j.week \in Weeks
                                 /\ j.counted + j.what.duration <= j.limit,
         where = "deleting" => j.id \in RequestIds /\ j.id \notin Unused',
         where \in {"waiting", "allocating"} => j.week \in Weeks,
         Unused' \subseteq Unused,
         Cardinality(Unused') >= Cardinality(Submitting')
  PROVE  JobsTyped' /\ JobsShape'
<1>1. /\ pc' = [pc EXCEPT ![p] = where] /\ job' = [job EXCEPT ![p] = j]
      /\ JobsTyped'
  BY DEF Begin, JobsTyped
<1>2. \A q \in Procs : /\ pc'[q] = IF q = p THEN where ELSE pc[q]
                       /\ job'[q] = IF q = p THEN j ELSE job[q]
  BY <1>1 DEF JobsTyped
<1>3. ASSUME NEW q \in Procs
      PROVE  /\ pc'[q] = "submitting" =>
                  /\ job'[q].what \in RequestChoices /\ job'[q].week \in Weeks
                  /\ job'[q].counted + job'[q].what.duration <= job'[q].limit
             /\ pc'[q] = "deleting" => job'[q].id \in RequestIds /\ job'[q].id \notin Unused'
             /\ pc'[q] \in {"waiting", "allocating"} => job'[q].week \in Weeks
  BY <1>2 DEF JobsShape
<1> QED BY <1>1, <1>3 DEF JobsShape

LEMMA SubmittingCounted ==
  ASSUME JobsTyped, RowsTyped
  PROVE  /\ IsFiniteSet(Submitting) /\ Cardinality(Submitting) \in Nat
         /\ IsFiniteSet(Unused) /\ Cardinality(Unused) \in Nat
<1>1. Submitting \in SUBSET Procs /\ Unused \in SUBSET RequestIds
  BY DEF Submitting, Unused
<1> QED BY <1>1, PlanningAssumption, FS_Subset, FS_CardinalityType

(* Whoever does not insert leaves enough ids for those who are going to.   *)
LEMMA RoomStays ==
  ASSUME JobsTyped, RowsTyped, JobsShape, NEW p \in Procs, NEW where, pc' = [pc EXCEPT ![p] = where],
         Unused' = Unused,
         where = "submitting" => Cardinality(Unused) > Cardinality(Submitting)
  PROVE  Cardinality(Unused') >= Cardinality(Submitting')
<1>1. /\ IsFiniteSet(Submitting) /\ Cardinality(Submitting) \in Nat
      /\ Cardinality(Unused) \in Nat /\ Cardinality(Unused) >= Cardinality(Submitting)
  BY SubmittingCounted DEF JobsShape
<1>2. CASE where = "submitting"
  <2>1. Submitting' \in SUBSET (Submitting \cup {p})
    BY DEF Submitting, JobsTyped
  <2>2. /\ IsFiniteSet(Submitting \cup {p})
        /\ Cardinality(Submitting \cup {p}) <= Cardinality(Submitting) + 1
        /\ Cardinality(Submitting \cup {p}) \in Nat
    <3> DEFINE n == Cardinality(Submitting)
               m == Cardinality(Submitting \cup {p})
    <3>1. IsFiniteSet(Submitting \cup {p}) /\ m = IF p \in Submitting THEN n ELSE n + 1
      BY <1>1, FS_AddElement
    <3>2. n \in Nat
      BY <1>1
    <3> HIDE DEF n, m
    <3>3. m <= n + 1 /\ m \in Nat
      BY <3>1, <3>2
    <3> QED BY <3>1, <3>3 DEF n, m
  <2>3. Cardinality(Submitting') <= Cardinality(Submitting \cup {p}) /\ Cardinality(Submitting') \in Nat
    BY <2>1, <2>2, FS_Subset, FS_CardinalityType
  <2> QED BY <1>1, <1>2, <2>2, <2>3
<1>3. CASE where # "submitting"
  <2>1. Submitting' \in SUBSET Submitting
    BY <1>3 DEF Submitting, JobsTyped
  <2>2. Cardinality(Submitting') <= Cardinality(Submitting) /\ Cardinality(Submitting') \in Nat
    BY <1>1, <2>1, FS_Subset, FS_CardinalityType
  <2> QED BY <1>1, <2>2
<1> QED BY <1>2, <1>3

(* Tables that are left alone stay good.                                   *)
LEMMA TablesRest == TablesGood /\ UNCHANGED <<requests, bookings>> => TablesGood'
BY DEF TablesGood, RowsTyped, RowsShape, RoomHeldOnce, AllocatedOnce, GivenAsAsked, HeldIds, Held, Clash

(* A plan stays current while no booking is made and the requests that     *)
(* were submitted are at most deleted.                                     *)
LEMMA PlanStays ==
  ASSUME LockOwned, PlanFits, JobsTyped, UNCHANGED bookings,
         \A r \in RequestIds \ Unused : requests'[r] = requests[r] \/ requests'[r].state = "deleted",
         \A q \in Procs : pc'[q] = "allocating" =>
           pc[q] = "allocating" /\ job'[q] = job[q] /\ lock' = lock /\ input' = input
  PROVE  LockOwned' /\ PlanFits'
<1>1. LockOwned'
  BY DEF LockOwned
<1>2. ASSUME NEW q \in Procs, pc'[q] = "allocating"
      PROVE  QueueFits(q)' /\ RoomFits(q)'
  <2>1. pc[q] = "allocating" /\ job'[q] = job[q] /\ input' = input /\ QueueFits(q) /\ RoomFits(q)
    BY <1>2 DEF PlanFits
  <2>2. RoomFits(q)'
    BY <2>1 DEF RoomFits, HeldIds, Held, TimeGone, PastDays
  <2>3. QueueFits(q)'
    <3> DEFINE queue == job[q].queue
    <3>1. \A k \in DOMAIN queue : queue[k] \in RequestIds
      BY DEF JobsTyped, Job
    <3>2. \A k \in DOMAIN queue : queue[k] \notin Unused
      BY <2>1 DEF QueueFits, Unused
    <3>3. \A k \in DOMAIN queue : requests'[queue[k]] = requests[queue[k]] \/ requests'[queue[k]].state = "deleted"
      BY <3>1, <3>2
    <3> QED BY <2>1, <3>3 DEF QueueFits
  <2> QED BY <2>2, <2>3
<1> QED BY <1>1, <1>2 DEF PlanFits

(* A request that goes on, and neither writes the tables nor allocates.    *)
LEMMA MoveKeeps ==
  ASSUME WeeksInv, WorldTyped', AllocatorSound', UNCHANGED <<requests, bookings>>,
         NEW p \in Procs, NEW j \in Job, NEW where \in Places \ {"allocating"}, Begin(p, j, where),
         where = "submitting" => /\ j.what \in RequestChoices /\ j.week \in Weeks
                                 /\ j.counted + j.what.duration <= j.limit
                                 /\ Cardinality(Unused) > Cardinality(Submitting),
         where = "deleting" => j.id \in RequestIds /\ j.id \notin Unused,
         where = "waiting" => j.week \in Weeks,
         \A q \in Procs \ {p} : pc[q] = "allocating" => lock' = lock /\ input' = input
  PROVE  WeeksInv'
<1>1. /\ TablesGood /\ JobsTyped /\ JobsShape /\ LockOwned /\ PlanFits /\ RowsTyped
  BY WholeParts DEF TablesGood
<1>2. Unused' = Unused
  BY DEF Unused
<1>3. /\ pc' = [pc EXCEPT ![p] = where] /\ job' = [job EXCEPT ![p] = j]
  BY DEF Begin
<1>4. Cardinality(Unused') >= Cardinality(Submitting')
  BY <1>1, <1>2, <1>3, RoomStays
<1>5. JobsTyped' /\ JobsShape'
  BY <1>1, <1>2, <1>4, BeginTyped
<1>6. TablesGood'
  BY <1>1, TablesRest
<1>7. \A q \in Procs : pc'[q] = "allocating" =>
        pc[q] = "allocating" /\ job'[q] = job[q] /\ lock' = lock /\ input' = input
  BY <1>1, <1>3 DEF JobsTyped
<1>8. LockOwned' /\ PlanFits'
  BY <1>1, <1>7, PlanStays
<1> QED BY <1>5, <1>6, <1>8, WholePartsNext

LEMMA DurationsNat ==
  ASSUME RowsTyped, RowsShape
  PROVE  /\ \A what \in RequestChoices : what.duration \in Nat /\ what.duration > 0
         /\ \A band, week : /\ IsFiniteSet({r \in PendingOf(week) : requests[r].what.band = band})
                            /\ \A r \in PendingOf(week) : requests[r].what.duration \in Nat
                            /\ PendingMinutes(band, week) \in Nat
<1>1. \A what \in RequestChoices : what.duration \in Nat /\ what.duration > 0
  BY PlanningAssumption DEF Allocator!Asked
<1>2. ASSUME NEW band, NEW week
      PROVE  /\ IsFiniteSet({r \in PendingOf(week) : requests[r].what.band = band})
             /\ \A r \in PendingOf(week) : requests[r].what.duration \in Nat
             /\ PendingMinutes(band, week) \in Nat
  <2> DEFINE own == {r \in PendingOf(week) : requests[r].what.band = band}
             f == [r \in own |-> requests[r].what.duration]
  <2>1. own \in SUBSET RequestIds
    BY DEF PendingOf
  <2>2. IsFiniteSet(own)
    BY <2>1, PlanningAssumption, FS_Subset
  <2>3. \A r \in PendingOf(week) : requests[r].what.duration \in Nat
    BY <1>1 DEF PendingOf, RowsShape
  <2>4. \A r \in own : f[r] \in Nat
    BY <2>3
  <2>5. PendingMinutes(band, week) = SumFunctionOnSet(f, own)
    BY DEF PendingMinutes
  <2> HIDE DEF f, own
  <2>6. SumFunctionOnSet(f, own) \in Nat
    BY <2>2, <2>4, SumNat
  <2> QED BY <2>2, <2>3, <2>5, <2>6 DEF own
<1> QED BY <1>1, <1>2

LEMMA QuietMoves ==
  ASSUME WeeksInv, NEW p \in Procs,
         \/ Submit(p) \/ Delete(p) \/ AdminRuns(p) \/ SundayJob(p) \/ Boot(p)
         \/ CatchUp(p) \/ Started(p) \/ AlreadyPublished(p)
  PROVE  WeeksInv'
<1>1. /\ WorldTyped /\ TablesGood /\ JobsTyped /\ JobsShape /\ AllocatorSound
      /\ RowsTyped /\ RowsShape
  BY WholeParts DEF TablesGood
<1>2. today \in Nat /\ clock \in Nat /\ <<today, clock>> \in Nat \X Nat
  BY <1>1, PlanningAssumption DEF WorldTyped
<1>3. WeekStartOf(today) \in Weeks /\ NextWeekStart(today) \in Weeks
  BY <1>1, WeeksOfToday DEF WorldTyped
<1>4. ASSUME NEW j, NEW where, Begin(p, j, where),
             UNCHANGED <<today, clock, tables, lock, crashes, failed, allocator>>,
             server' \in {"down", "starting", "up"}, alarm' \in BOOLEAN, where # "allocating",
             j \in Job, where \in Places,
             where = "submitting" => /\ j.what \in RequestChoices /\ j.week \in Weeks
                                     /\ j.counted + j.what.duration <= j.limit
                                     /\ Cardinality(Unused) > Cardinality(Submitting),
             where = "deleting" => j.id \in RequestIds /\ j.id \notin Unused,
             where = "waiting" => j.week \in Weeks
      PROVE  WeeksInv'
  <2>1. WorldTyped'
    BY <1>1, <1>4 DEF WorldTyped, tables
  <2>2. AllocatorSound'
    BY <1>1, <1>4, AllocatorRests
  <2>3. UNCHANGED <<requests, bookings, lock, input>>
    BY <1>4 DEF tables, allocator
  <2> QED BY <1>4, <2>1, <2>2, <2>3, MoveKeeps
<1>5. server \in {"down", "starting", "up"} /\ alarm \in BOOLEAN
  BY <1>1 DEF WorldTyped
<1>6. NoJob \in Job /\ job[p] \in Job
  BY <1>1, NoJobTyped DEF JobsTyped
<1>7. CASE Submit(p)
  <2>1. PICK what \in RequestChoices :
          Begin(p, [NoJob EXCEPT !.op = "submit", !.what = what, !.week = NextWeekStart(today),
                                 !.counted = PendingMinutes(what.band, NextWeekStart(today)),
                                 !.limit = settings.weekly], "submitting")
          /\ PendingMinutes(what.band, NextWeekStart(today)) + what.duration <= settings.weekly
    BY <1>7 DEF Submit, WithinWeekly
  <2> DEFINE n == PendingMinutes(what.band, NextWeekStart(today))
             w == NextWeekStart(today)
             m == settings.weekly
             j == [NoJob EXCEPT !.op = "submit", !.what = what, !.week = w, !.counted = n, !.limit = m]
  <2>2. n \in Nat /\ m \in Nat /\ n + what.duration <= m
    BY <1>1, <2>1, DurationsNat, PlanningAssumption DEF WorldTyped
  <2>3. w \in Weeks
    BY <1>3
  <2> HIDE DEF n, w, m
  <2>4. j \in Job /\ j.what = what /\ j.week = w /\ j.counted = n /\ j.limit = m
    BY <1>6, <2>2, <2>3 DEF NoJob, Job
  <2>5. Begin(p, j, "submitting")
    BY <2>1 DEF n, w, m
  <2>6. Cardinality(Unused) > Cardinality(Submitting) /\ UNCHANGED <<time, tables, lock, server, crashes, failed, allocator>>
    BY <1>7 DEF Submit, Submitting
  <2> HIDE DEF j
  <2> QED BY <1>4, <1>5, <2>2, <2>3, <2>4, <2>5, <2>6 DEF Places, time
<1>8. CASE Delete(p)
  <2>1. PICK r \in RequestIds : /\ requests[r].state = "pending"
                                /\ Begin(p, [NoJob EXCEPT !.op = "delete", !.id = r], "deleting")
    BY <1>8 DEF Delete
  <2> DEFINE j == [NoJob EXCEPT !.op = "delete", !.id = r]
  <2>2. j \in Job /\ j.id = r /\ r \notin Unused
    BY <1>6, <2>1 DEF NoJob, Job, Unused
  <2>3. Begin(p, j, "deleting")
    BY <2>1
  <2> HIDE DEF j
  <2> QED BY <1>4, <1>5, <1>8, <2>2, <2>3 DEF Delete, Places, time
<1>9. ASSUME NEW who \in {"admin", "scheduler", "catchup"}, NEW week \in Weeks, NEW todo \in Seq(Weeks),
             Run(p, who, week, todo), UNCHANGED <<today, clock, tables, lock, server, crashes, failed, allocator>>,
             alarm' \in BOOLEAN
      PROVE  WeeksInv'
  <2> DEFINE j == [NoJob EXCEPT !.op = who, !.week = week, !.todo = todo, !.at = <<today, clock>>]
  <2>1. j \in Job /\ j.week = week
    BY <1>2, <1>6, <1>9 DEF NoJob, Job
  <2>2. Begin(p, j, "waiting")
    BY <1>9 DEF Run
  <2> HIDE DEF j
  <2> QED BY <1>4, <1>5, <1>9, <2>1, <2>2 DEF Places
<1>10. CASE AdminRuns(p)
  <2> DEFINE w == NextWeekStart(today)
             none == <<>>
  <2>1. w \in Weeks /\ none \in Seq(Weeks)
    BY <1>3
  <2>2. Run(p, "admin", w, none)
        /\ UNCHANGED <<today, clock, tables, lock, server, crashes, failed, allocator>> /\ alarm' \in BOOLEAN
    BY <1>5, <1>10 DEF AdminRuns, time
  <2> HIDE DEF w, none
  <2> QED BY <1>9, <2>1, <2>2
<1>11. CASE SundayJob(p)
  <2> DEFINE w == NextWeekStart(today)
             none == <<>>
  <2>1. w \in Weeks /\ none \in Seq(Weeks)
    BY <1>3
  <2>2. Run(p, "scheduler", w, none) /\ alarm' = FALSE
        /\ UNCHANGED <<today, clock, tables, lock, server, crashes, failed, allocator>>
    BY <1>11 DEF SundayJob
  <2> HIDE DEF w, none
  <2> QED BY <1>9, <2>1, <2>2
<1>12. CASE Boot(p)
  <2> DEFINE w == WeekStartOf(today)
             v == NextWeekStart(today)
             j == [NoJob EXCEPT !.op = "catchup", !.todo = <<w, v>>]
  <2>1. w \in Weeks /\ v \in Weeks
    BY <1>3
  <2>2. Begin(p, j, "catching")
    BY <1>12 DEF Boot
  <2> HIDE DEF w, v
  <2>3. <<w, v>> \in Seq(Weeks)
    BY <2>1
  <2>4. j \in Job
    BY <1>6, <2>3 DEF NoJob, Job
  <2> HIDE DEF j
  <2> QED BY <1>4, <1>5, <1>12, <2>2, <2>4 DEF Boot, Places, time
<1>13. CASE CatchUp(p)
  <2>1. /\ job[p].todo \in Seq(Weeks) /\ job[p].todo # <<>>
        /\ Head(job[p].todo) \in Weeks /\ Tail(job[p].todo) \in Seq(Weeks)
    BY <1>6, <1>13 DEF CatchUp, Job
  <2>2. CASE Run(p, "catchup", Head(job[p].todo), Tail(job[p].todo))
    BY <1>5, <1>9, <1>13, <2>1, <2>2 DEF CatchUp, time
  <2>3. CASE Begin(p, [job[p] EXCEPT !.todo = Tail(@)], "catching")
    <3> DEFINE j == [job[p] EXCEPT !.todo = Tail(@)]
    <3>1. j \in Job
      BY <1>6, <2>1 DEF Job
    <3>2. Begin(p, j, "catching")
      BY <2>3
    <3> HIDE DEF j
    <3> QED BY <1>4, <1>5, <1>13, <3>1, <3>2 DEF CatchUp, Places, time
  <2> QED BY <1>13, <2>2, <2>3 DEF CatchUp
<1>14. CASE Started(p)
  <2>1. Begin(p, NoJob, "idle")
    BY <1>14 DEF Started, Idle, Begin
  <2> QED BY <1>4, <1>5, <1>6, <1>14, <2>1 DEF Started, Places, time
<1>15. CASE AlreadyPublished(p)
  <2>1. UNCHANGED <<today, clock, alarm, tables, lock, server, crashes, failed, allocator>>
    BY <1>15 DEF AlreadyPublished, time
  <2>2. CASE Idle(p)
    <3>1. Begin(p, NoJob, "idle")
      BY <2>2 DEF Idle, Begin
    <3> QED BY <1>4, <1>5, <1>6, <2>1, <3>1 DEF Places
  <2>3. CASE ~Idle(p)
    <3> DEFINE j == [NoJob EXCEPT !.op = "catchup", !.todo = <<>>]
    <3>1. Begin(p, j, "catching")
      BY <1>15, <2>3 DEF AlreadyPublished, Return, Begin
    <3>2. j \in Job
      BY <1>6 DEF NoJob, Job
    <3> HIDE DEF j
    <3> QED BY <1>4, <1>5, <2>1, <3>1, <3>2 DEF Places
  <2> QED BY <2>2, <2>3
<1> QED BY <1>7, <1>8, <1>10, <1>11, <1>12, <1>13, <1>14, <1>15
-----------------------------------------------------------------------------
(* Submitting and deleting *)

(* The least of some ids is one of them.                                   *)
LEMMA LeastIsMember ==
  ASSUME NEW ids \in SUBSET Nat, ids # {}
  PROVE  Min(ids) \in ids
<1>1. PICK m \in ids : \A k \in ids : ~(<<k, m>> \in OpToRel(<, Nat))
  BY NatLessThanWellFounded, WFMin, Zenon
<1>2. \A k \in ids : m <= k
  <2>1. \A k \in ids : ~(k < m)
    BY <1>1 DEF OpToRel
  <2> QED BY <2>1
<1> QED BY <1>2 DEF Min

(* A row that comes in, or one that goes, leaves the tables in agreement.  *)
LEMMA RowWritten ==
  ASSUME TablesGood, UNCHANGED bookings, NEW u \in RequestIds, NEW x \in RequestRow,
         requests' = [requests EXCEPT ![u] = x],
         \/ x.state = "deleted"
         \/ /\ x.state = "pending" /\ requests[u].state = "unused"
            /\ x.what \in RequestChoices /\ x.week \in Weeks
  PROVE  TablesGood'
<1>1. \A r \in RequestIds : requests'[r] = IF r = u THEN x ELSE requests[r]
  BY DEF TablesGood, RowsTyped
<1>2. RowsTyped'
  BY DEF TablesGood, RowsTyped
<1>3. RowsShape'
  BY <1>1 DEF TablesGood, RowsShape, Held
<1>4. RoomHeldOnce'
  BY DEF TablesGood, RoomHeldOnce, HeldIds, Held, Clash
<1>5. AllocatedOnce'
  <2>1. \A i \in HeldIds : bookings[i].request # None => bookings[i].request \in RequestIds
    BY DEF TablesGood, RowsTyped, BookingRowType, HeldIds
  <2>2. HeldIds' = HeldIds
    BY DEF HeldIds, Held
  <2> QED BY <1>1, <2>1, <2>2 DEF TablesGood, AllocatedOnce
<1>6. GivenAsAsked'
  <2>1. \A r \in RequestIds : requests'[r].state = "assigned" => r # u /\ requests'[r] = requests[r]
    BY <1>1
  <2> QED BY <2>1 DEF TablesGood, GivenAsAsked
<1> QED BY <1>2, <1>3, <1>4, <1>5, <1>6 DEF TablesGood

LEMMA InsertKeeps ==
  ASSUME WeeksInv, NEW p \in Procs, InsertRequest(p)
  PROVE  WeeksInv'
<1>1. /\ WorldTyped /\ TablesGood /\ JobsTyped /\ JobsShape /\ LockOwned /\ PlanFits /\ AllocatorSound
      /\ RowsTyped
  BY WholeParts DEF TablesGood
<1>2. /\ IsFiniteSet(Submitting) /\ Cardinality(Submitting) \in Nat
      /\ IsFiniteSet(Unused) /\ Cardinality(Unused) \in Nat
      /\ Cardinality(Unused) >= Cardinality(Submitting)
  BY <1>1, SubmittingCounted DEF JobsShape
<1>3. p \in Submitting
  BY DEF InsertRequest, Submitting
<1>4. Cardinality(Submitting) # 0 /\ Unused # {}
  <2>1. Cardinality(Submitting) # 0
    BY <1>2, <1>3, FS_EmptySet
  <2>2. Cardinality({}) = 0
    BY FS_EmptySet
  <2> QED BY <1>2, <2>1, <2>2
<1> DEFINE u == Min(Unused)
           x == [state |-> "pending", week |-> job[p].week, what |-> job[p].what, booking |-> None]
<1>5. u \in Unused /\ u \in RequestIds
  <2>1. Unused \in SUBSET Nat
    BY PlanningAssumption DEF Unused
  <2> QED BY <1>4, <2>1, LeastIsMember DEF Unused
<1>6. /\ requests' = [requests EXCEPT ![u] = x]
      /\ Begin(p, NoJob, "idle")
      /\ UNCHANGED <<time, settings, published, bookings, lock, server, crashes, failed, allocator>>
  BY DEF InsertRequest, Idle, Begin
<1>7. x \in RequestRow /\ x.state = "pending" /\ x.what \in RequestChoices /\ x.week \in Weeks
  <2>1. job[p].what \in RequestChoices /\ job[p].week \in Weeks /\ Weeks \subseteq Nat
    BY <1>1, PlanningAssumption DEF InsertRequest, JobsShape, Weeks
  <2> QED BY <2>1 DEF RequestRow, RequestStatuses
<1> HIDE DEF u, x
<1>8. TablesGood'
  <2>1. requests[u].state = "unused"
    BY <1>5 DEF Unused
  <2>2. UNCHANGED bookings
    BY <1>6
  <2> QED BY <1>1, <1>5, <1>6, <1>7, <2>1, <2>2, RowWritten
<1>9. \A r \in RequestIds : requests'[r] = IF r = u THEN x ELSE requests[r]
  BY <1>1, <1>6 DEF RowsTyped
<1>10. Unused' = Unused \ {u}
  BY <1>5, <1>7, <1>9 DEF Unused
<1>11. Submitting' = Submitting \ {p}
  BY <1>1, <1>6 DEF Submitting, Begin, JobsTyped
<1>12. Cardinality(Unused') >= Cardinality(Submitting')
  <2>1. Cardinality(Unused') = Cardinality(Unused) - 1
    BY <1>2, <1>5, <1>10, FS_RemoveElement
  <2>2. Cardinality(Submitting') = Cardinality(Submitting) - 1
    BY <1>2, <1>3, <1>11, FS_RemoveElement
  <2> QED BY <1>2, <2>1, <2>2
<1>13. JobsTyped' /\ JobsShape'
  <2>1. Unused' \subseteq Unused /\ "idle" \in Places
    BY <1>10 DEF Places
  <2> QED BY <1>1, <1>6, <1>12, <2>1, NoJobTyped, BeginTyped
<1>14. LockOwned' /\ PlanFits'
  <2>1. \A q \in Procs : pc'[q] = "allocating" =>
          pc[q] = "allocating" /\ job'[q] = job[q] /\ lock' = lock /\ input' = input
    BY <1>1, <1>6 DEF Begin, JobsTyped, allocator
  <2>2. UNCHANGED bookings /\ \A r \in RequestIds \ Unused : requests'[r] = requests[r]
    BY <1>5, <1>6, <1>9
  <2> QED BY <1>1, <2>1, <2>2, PlanStays
<1>15. WorldTyped' /\ AllocatorSound'
  BY <1>1, <1>6, AllocatorRests DEF WorldTyped, time
<1> QED BY <1>8, <1>13, <1>14, <1>15, WholePartsNext

LEMMA DeleteKeeps ==
  ASSUME WeeksInv, NEW p \in Procs, DeleteRequest(p)
  PROVE  WeeksInv'
<1>1. /\ WorldTyped /\ TablesGood /\ JobsTyped /\ JobsShape /\ LockOwned /\ PlanFits /\ AllocatorSound
      /\ RowsTyped
  BY WholeParts DEF TablesGood
<1> DEFINE u == job[p].id
           x == [NoAsk EXCEPT !.state = "deleted"]
<1>2. u \in RequestIds /\ u \notin Unused
  BY <1>1 DEF JobsShape, DeleteRequest
<1>3. /\ requests' = [requests EXCEPT ![u] = x]
      /\ Begin(p, NoJob, "idle")
      /\ UNCHANGED <<time, settings, published, bookings, lock, server, crashes, failed, allocator>>
  BY DEF DeleteRequest, Idle, Begin
<1>4. x \in RequestRow /\ x.state = "deleted"
  BY DEF RequestRow, RequestStatuses, NoAsk
<1> HIDE DEF u, x
<1>5. TablesGood'
  <2>1. UNCHANGED bookings
    BY <1>3
  <2> QED BY <1>1, <1>2, <1>3, <1>4, <2>1, RowWritten
<1>6. \A r \in RequestIds : requests'[r] = IF r = u THEN x ELSE requests[r]
  BY <1>1, <1>3 DEF RowsTyped
<1>7. Unused' = Unused
  BY <1>2, <1>4, <1>6 DEF Unused
<1>8. pc' = [pc EXCEPT ![p] = "idle"] /\ "idle" \in Places
  BY <1>3 DEF Begin, Places
<1>9. Cardinality(Unused') >= Cardinality(Submitting')
  BY <1>1, <1>7, <1>8, RoomStays
<1>10. JobsTyped' /\ JobsShape'
  <2>1. Unused' \subseteq Unused
    BY <1>7
  <2> QED BY <1>1, <1>3, <1>8, <1>9, <2>1, NoJobTyped, BeginTyped
<1>11. LockOwned' /\ PlanFits'
  <2>1. \A q \in Procs : pc'[q] = "allocating" =>
          pc[q] = "allocating" /\ job'[q] = job[q] /\ lock' = lock /\ input' = input
    BY <1>1, <1>3 DEF Begin, JobsTyped, allocator
  <2>2. UNCHANGED bookings
        /\ \A r \in RequestIds \ Unused : requests'[r] = requests[r] \/ requests'[r].state = "deleted"
    BY <1>3, <1>4, <1>6
  <2> QED BY <1>1, <2>1, <2>2, PlanStays
<1>12. WorldTyped' /\ AllocatorSound'
  BY <1>1, <1>3, AllocatorRests DEF WorldTyped, time
<1> QED BY <1>5, <1>10, <1>11, <1>12, WholePartsNext
-----------------------------------------------------------------------------
(* Reading the week, and making the plan *)

(* The queue names the pending requests of the week, each of them once.    *)
LEMMA QueueNames ==
  ASSUME RowsTyped, NEW week
  PROVE  /\ DOMAIN Queue(week) = 1..Cardinality(PendingOf(week)) /\ Cardinality(PendingOf(week)) \in Nat
         /\ Queue(week) \in Seq(RequestIds)
         /\ \A k \in DOMAIN Queue(week) : Queue(week)[k] \in PendingOf(week)
         /\ \A k, l \in DOMAIN Queue(week) : Queue(week)[k] = Queue(week)[l] => k = l
<1> DEFINE ids == PendingOf(week)
<1>1. ids \in SUBSET RequestIds /\ ids \in SUBSET Nat /\ IsFiniteSet(ids)
  <2>1. ids \in SUBSET RequestIds
    BY DEF PendingOf
  <2> QED BY <2>1, PlanningAssumption, FS_Subset
<1> HIDE DEF ids
<1>2. /\ DOMAIN InOrder(ids) = 1..Cardinality(ids) /\ Cardinality(ids) \in Nat
      /\ InOrder(ids) \in Seq(ids)
      /\ \A k \in 1..Cardinality(ids) : InOrder(ids)[k] \in ids
      /\ \A k, l \in 1..Cardinality(ids) : InOrder(ids)[k] = InOrder(ids)[l] => k = l
  BY <1>1, Enumerates, Ranks
<1>3. Queue(week) = InOrder(ids)
  BY DEF Queue, ids
<1>4. InOrder(ids) \in Seq(RequestIds)
  <2> DEFINE s == InOrder(ids)
             n == Cardinality(ids)
  <2>1. s \in Seq(ids) /\ DOMAIN s = 1..n /\ n \in Nat /\ \A k \in 1..n : s[k] \in RequestIds
    BY <1>1, <1>2
  <2> HIDE DEF s, n
  <2>2. s = [k \in 1..n |-> s[k]]
    BY <2>1
  <2>3. s \in [1..n -> RequestIds]
    BY <2>1, <2>2
  <2>4. s \in Seq(RequestIds)
    BY <2>1, <2>3
  <2> QED BY <2>4 DEF s
<1> QED BY <1>2, <1>3, <1>4 DEF ids

(* Time that the bookings of a band on a day take.                         *)
LEMMA HeldMinutesNat ==
  ASSUME RowsTyped, RowsShape, NEW band, NEW day
  PROVE  HeldMinutes(band, day) \in Nat
<1> DEFINE own == {i \in BookedOn(day) : bookings[i].band = band}
           f == [i \in own |-> bookings[i].end - bookings[i].start]
<1>1. own \in SUBSET BookingIds
  BY DEF BookedOn, HeldIds
<1>2. IsFiniteSet(own)
  BY <1>1, PlanningAssumption, FS_Subset
<1>3. \A i \in own : f[i] \in Nat
  BY PlanningAssumption DEF BookedOn, HeldIds, RowsShape
<1>4. HeldMinutes(band, day) = SumFunctionOnSet(f, own)
  BY DEF HeldMinutes
<1> HIDE DEF own, f
<1> QED BY <1>2, <1>3, <1>4, SumNat

LEMMA TimeGoneTyped ==
  ASSUME NEW week, NEW at \in Nat \X Nat
  PROVE  TimeGone(week, at) \in [Weekdays -> SUBSET Allocator!Interval]
<1>1. (at[2] \div STEP + 1) * STEP \in Nat
  <2>1. at[2] \in Nat /\ STEP \in Nat \ {0}
    BY PlanningAssumption
  <2>2. ASSUME NEW a \in Nat, NEW s \in Nat \ {0} PROVE (a \div s + 1) * s \in Nat
    <3>1. a \div s \in Nat
      OBVIOUS
    <3> QED BY <3>1
  <2> QED BY <2>1, <2>2
<1>2. [start |-> 0, end |-> (at[2] \div STEP + 1) * STEP] \in Allocator!Interval
  BY <1>1 DEF Allocator!Interval
<1> QED BY <1>2 DEF TimeGone

(* The allocator is called with an input that it takes.                    *)
LEMMA ReadingTyped ==
  ASSUME WorldTyped, RowsTyped, RowsShape, NEW week \in Weeks, NEW at \in Nat \X Nat
  PROVE  Reading(week, at) \in Allocator!Input
<1>1. [k \in DOMAIN Queue(week) |-> requests[Queue(week)[k]].what] \in Seq(Allocator!Asked)
  <2> DEFINE n == Cardinality(PendingOf(week))
             q == Queue(week)
  <2>1. DOMAIN q = 1..n /\ n \in Nat /\ \A k \in DOMAIN q : q[k] \in PendingOf(week)
    BY QueueNames
  <2>2. \A r \in PendingOf(week) : requests[r].what \in Allocator!Asked
    BY PlanningAssumption DEF PendingOf, RowsShape
  <2> HIDE DEF n, q
  <2>3. \A k \in 1..n : requests[q[k]].what \in Allocator!Asked
    BY <2>1, <2>2
  <2>4. [k \in 1..n |-> requests[q[k]].what] \in Seq(Allocator!Asked)
    BY <2>1, <2>3
  <2> QED BY <2>1, <2>4 DEF q
<1>2. [d \in Weekdays |->
         {[start |-> bookings[i].start, end |-> bookings[i].end] : i \in BookedOn(week + d)}
           \cup TimeGone(week, at)[d]] \in [Weekdays -> SUBSET Allocator!Interval]
  <2>1. \A day : \A i \in BookedOn(day) :
          [start |-> bookings[i].start, end |-> bookings[i].end] \in Allocator!Interval
    <3>1. \A day : \A i \in BookedOn(day) : bookings[i].start \in Nat /\ bookings[i].end \in 0..(DayEnd + 1)
      BY DEF BookedOn, HeldIds, RowsShape
    <3>2. 0..(DayEnd + 1) \subseteq Nat
      BY PlanningAssumption
    <3> QED BY <3>1, <3>2 DEF Allocator!Interval
  <2>2. \A d \in Weekdays : TimeGone(week, at)[d] \in SUBSET Allocator!Interval
    BY TimeGoneTyped
  <2> QED BY <2>1, <2>2
<1>3. /\ settings.open \in Nat /\ settings.close \in Nat /\ settings.daily \in Nat
      /\ (Weekdays \ settings.days) \cup PastDays(week, at) \in SUBSET Weekdays
  BY PlanningAssumption DEF WorldTyped, PastDays
<1>4. [b \in Bands |-> [d \in Weekdays |-> HeldMinutes(b, week + d)]] \in [Bands -> [Weekdays -> Nat]]
  BY HeldMinutesNat
<1> QED BY <1>1, <1>2, <1>3, <1>4 DEF Reading, Allocator!Input

LEMMA ReadKeeps ==
  ASSUME WeeksInv, NEW p \in Procs, ReadWeek(p)
  PROVE  WeeksInv'
<1>1. /\ WorldTyped /\ TablesGood /\ JobsTyped /\ JobsShape /\ LockOwned /\ PlanFits /\ AllocatorSound
      /\ RowsTyped /\ RowsShape
  BY WholeParts DEF TablesGood
<1> DEFINE week == job[p].week
           at == job[p].at
           in == Reading(week, at)
           queue == Queue(week)
<1>2. week \in Weeks /\ at \in Nat \X Nat
  BY <1>1 DEF JobsShape, ReadWeek, JobsTyped, Job
<1>3. /\ pc[p] = "waiting" /\ lock = None /\ lock' = p
      /\ Allocator!Call(in)
      /\ pc' = [pc EXCEPT ![p] = "allocating"]
      /\ job' = [job EXCEPT ![p].queue = queue]
      /\ UNCHANGED <<time, tables, server, crashes, failed>>
  BY DEF ReadWeek
<1>4. in \in Allocator!Input
  <2> HIDE DEF week, at
  <2> QED BY <1>1, <1>2, ReadingTyped
<1>5. AllocatorSound' /\ input' = in
  BY <1>3, <1>4, AllocatorCalled DEF Allocator!Call
<1>6. /\ DOMAIN queue = 1..Cardinality(PendingOf(week)) /\ queue \in Seq(RequestIds)
      /\ \A k \in DOMAIN queue : queue[k] \in PendingOf(week)
      /\ \A k, l \in DOMAIN queue : queue[k] = queue[l] => k = l
  BY <1>1, QueueNames
<1>7. \A q \in Procs : /\ pc'[q] = IF q = p THEN "allocating" ELSE pc[q]
                       /\ job'[q] = IF q = p THEN [job[p] EXCEPT !.queue = queue] ELSE job[q]
  <2> HIDE DEF queue
  <2> QED BY <1>1, <1>3 DEF JobsTyped
<1>8. [job[p] EXCEPT !.queue = queue] \in Job
      /\ job'[p].queue = queue /\ job'[p].week = week /\ job'[p].at = at
  <2> HIDE DEF queue
  <2>1. job[p] \in Job
    BY <1>1 DEF JobsTyped
  <2> QED BY <1>6, <1>7, <2>1 DEF Job
<1>9. UNCHANGED <<requests, bookings, settings, published, today, clock, alarm>>
  BY <1>3 DEF tables, time
<1> HIDE DEF queue
<1>10. JobsTyped'
  <2>1. job' \in [Procs -> Job] /\ pc' \in [Procs -> Places]
    BY <1>1, <1>3, <1>7, <1>8 DEF JobsTyped, Places
  <2> QED BY <2>1 DEF JobsTyped
<1>11. JobsShape'
  <2>1. Unused' = Unused
    BY <1>9 DEF Unused
  <2>2. Cardinality(Unused') >= Cardinality(Submitting')
    BY <1>1, <1>3, <2>1, RoomStays
  <2>3. \A q \in Procs :
       /\ pc'[q] = "submitting" =>
            /\ job'[q].what \in RequestChoices /\ job'[q].week \in Weeks
            /\ job'[q].counted + job'[q].what.duration <= job'[q].limit
       /\ pc'[q] = "deleting" => job'[q].id \in RequestIds /\ job'[q].id \notin Unused'
       /\ pc'[q] \in {"waiting", "allocating"} => job'[q].week \in Weeks
    BY <1>1, <1>2, <1>7, <1>8, <2>1 DEF JobsShape
  <2> QED BY <2>2, <2>3 DEF JobsShape
<1>12. \A q \in Procs : pc'[q] = "allocating" => q = p
  BY <1>1, <1>3, <1>7, PlanningAssumption DEF LockOwned
<1>13. LockOwned'
  BY <1>3, <1>12 DEF LockOwned
<1>14. QueueFits(p)'
  <2>1. in.asked = [k \in DOMAIN queue |-> requests[queue[k]].what]
    BY DEF Reading, queue
  <2> HIDE DEF in, week
  <2>2. \A k \in DOMAIN queue :
          requests[queue[k]].state = "pending" /\ requests[queue[k]].week = week
    BY <1>6 DEF PendingOf
  <2>3. DOMAIN in.asked = DOMAIN queue /\ \A k \in DOMAIN queue : in.asked[k] = requests[queue[k]].what
    BY <2>1
  <2> QED BY <1>5, <1>6, <1>8, <1>9, <2>2, <2>3 DEF QueueFits
<1>15. RoomFits(p)'
  <2>1. /\ in.close = settings.close
        /\ in.busy = [d \in Weekdays |->
              {[start |-> bookings[i].start, end |-> bookings[i].end] : i \in BookedOn(week + d)}
                \cup TimeGone(week, at)[d]]
        /\ in.closed = (Weekdays \ settings.days) \cup PastDays(week, at)
    BY DEF Reading
  <2> HIDE DEF in, week, at
  <2>2. in.close <= DayEnd + 1
    BY <1>1, <2>1, PlanningAssumption DEF WorldTyped
  <2>3. \A i \in HeldIds, d \in Weekdays : bookings[i].day = week + d =>
          [start |-> bookings[i].start, end |-> bookings[i].end] \in in.busy[d]
    BY <2>1 DEF BookedOn
  <2>4. \A d \in Weekdays : /\ TimeGone(week, at)[d] \subseteq in.busy[d]
                            /\ d \in PastDays(week, at) => d \in in.closed
    BY <2>1
  <2>5. HeldIds' = HeldIds
    BY <1>9 DEF HeldIds, Held
  <2> QED BY <1>5, <1>8, <1>9, <2>2, <2>3, <2>4, <2>5 DEF RoomFits
<1>16. PlanFits'
  BY <1>12, <1>14, <1>15 DEF PlanFits
<1>17. TablesGood'
  BY <1>1, <1>9, TablesRest
<1>18. WorldTyped'
  BY <1>1, <1>3, <1>9 DEF WorldTyped
<1> QED BY <1>5, <1>10, <1>11, <1>13, <1>16, <1>17, <1>18, WholePartsNext

LEMMA AllocateKeeps ==
  ASSUME WeeksInv, NEW p \in Procs, Allocate(p)
  PROVE  WeeksInv'
<1>1. /\ WorldTyped /\ TablesGood /\ JobsTyped /\ JobsShape /\ LockOwned /\ PlanFits /\ AllocatorSound
  BY WholeParts
<1>2. Allocator!Next /\ UNCHANGED <<time, tables, lock, server, crashes, pc, job, failed>>
  BY DEF Allocate
<1>3. input' = input
  BY <1>2 DEF Allocator!Next, Allocator!Skip, Allocator!Assign, Allocator!NextRound
<1>4. AllocatorSound'
  BY <1>1, <1>2, AllocatorGoesOn
<1>5. UNCHANGED <<requests, bookings, settings, published, today, clock, alarm, pc, job, lock>>
  BY <1>2 DEF tables, time
<1>6. WorldTyped'
  BY <1>1, <1>2, <1>5 DEF WorldTyped
<1>7. JobsTyped' /\ JobsShape'
  BY <1>1, <1>5 DEF JobsTyped, JobsShape, Unused, Submitting
<1>8. TablesGood'
  BY <1>1, <1>5, TablesRest
<1>9. LockOwned' /\ PlanFits'
  BY <1>1, <1>3, <1>5, PlanStays
<1> QED BY <1>4, <1>6, <1>7, <1>8, <1>9, WholePartsNext
-----------------------------------------------------------------------------
(* Publishing the week *)

(* The allocator at rest is called with nothing.                           *)
LEMMA NoInputTyped == NoInput \in Allocator!Input
<1>1. <<>> \in Seq(Allocator!Asked)
  OBVIOUS
<1>2. [d \in Weekdays |-> {}] \in [Weekdays -> SUBSET Allocator!Interval]
  OBVIOUS
<1> QED BY <1>1, <1>2 DEF NoInput, Allocator!Input

(* Whoever returns goes on idle, or with the rest of its catching up.      *)
LEMMA ReturnBegins ==
  ASSUME NEW p \in Procs, job[p] \in Job, NEW ok \in BOOLEAN, Return(p, ok)
  PROVE  \E j \in Job, where \in {"idle", "catching"} : Begin(p, j, where)
<1>1. CASE job[p].op = "catchup"
  <2> DEFINE left == IF ok THEN job[p].todo ELSE <<>>
             j == [NoJob EXCEPT !.op = "catchup", !.todo = left]
  <2>1. left \in Seq(Weeks)
    <3>1. job[p].todo \in Seq(Weeks) /\ <<>> \in Seq(Weeks)
      BY DEF Job
    <3> QED BY <3>1
  <2>2. Begin(p, j, "catching")
    BY <1>1 DEF Return, Begin
  <2> HIDE DEF left
  <2>3. j \in Job
    BY <2>1, NoJobTyped DEF NoJob, Job
  <2> HIDE DEF j
  <2> QED BY <2>2, <2>3
<1>2. CASE job[p].op # "catchup"
  <2>1. Begin(p, NoJob, "idle")
    BY <1>2 DEF Return, Idle, Begin
  <2> QED BY <2>1, NoJobTyped
<1> QED BY <1>1, <1>2

(* Every winner gets an id of its own that is free.                        *)
LEMMA BookingsForWinners ==
  ASSUME RowsTyped, AllocatorSound, Cardinality(FreeIds) >= Cardinality(Winners)
  PROVE  /\ \A k \in Winners : BookingFor(k) \in FreeIds
         /\ \A k, l \in Winners : BookingFor(k) = BookingFor(l) => k = l
<1> DEFINE free == FreeIds
           won == Winners
           n == Cardinality(free)
           m == Cardinality(won)
<1>1. free \in SUBSET Nat /\ IsFiniteSet(free)
  <2>1. free \in SUBSET BookingIds
    BY DEF FreeIds
  <2> QED BY <2>1, PlanningAssumption, FS_Subset
<1>2. won \in SUBSET Nat /\ IsFiniteSet(won)
  <2>1. input.asked \in Seq(Allocator!Asked) /\ DOMAIN assigned = DOMAIN input.asked
    BY DEF AllocatorSound, Allocator!PlanInv, Allocator!TypeOK, Allocator!Input, Allocator!Order
  <2>2. Len(input.asked) \in Nat /\ DOMAIN input.asked = 1..Len(input.asked)
    BY <2>1
  <2>3. IsFiniteSet(1..Len(input.asked)) /\ 1..Len(input.asked) \subseteq Nat
    BY <2>2, FS_Interval
  <2>4. won \in SUBSET (1..Len(input.asked))
    BY <2>1, <2>2 DEF Winners
  <2> QED BY <2>3, <2>4, FS_Subset
<1>3. n >= m
  OBVIOUS
<1>4. \A k \in Winners : BookingFor(k) = InOrder(free)[Rank(won, k)]
  BY DEF BookingFor
<1> HIDE DEF free, won
<1>5. /\ n \in Nat /\ m \in Nat
      /\ \A k \in 1..n : InOrder(free)[k] \in free
      /\ \A k, l \in 1..n : InOrder(free)[k] = InOrder(free)[l] => k = l
  BY <1>1, <1>2, Enumerates, Ranks
<1>6. /\ \A k \in won : Rank(won, k) \in 1..m
      /\ \A k, l \in won : Rank(won, k) = Rank(won, l) => k = l
  BY <1>2, Ranks
<1> HIDE DEF n, m
<1>7. \A k \in won : Rank(won, k) \in 1..n
  BY <1>3, <1>5, <1>6
<1> QED BY <1>4, <1>5, <1>6, <1>7 DEF free, won

(* What the commit writes.                                                 *)
LEMMA Written ==
  ASSUME RowsTyped, AllocatorSound, NEW p \in Procs, job[p] \in Job, Publish(p), QueueFits(p)
  PROVE  /\ bookings' = [i \in BookingIds |-> bookings'[i]]
         /\ \A k \in Winners : bookings'[BookingFor(k)] = BookingRow(p, k)
         /\ \A i \in BookingIds : (\A k \in Winners : BookingFor(k) # i) => bookings'[i] = bookings[i]
         /\ requests' = [r \in RequestIds |-> requests'[r]]
         /\ \A k \in DOMAIN Queued(p) : requests'[Queued(p)[k]] = Decided(p, k)
         /\ \A r \in RequestIds : (\A k \in DOMAIN Queued(p) : Queued(p)[k] # r) => requests'[r] = requests[r]
<1>1. /\ \A k \in Winners : BookingFor(k) \in FreeIds
      /\ \A k, l \in Winners : BookingFor(k) = BookingFor(l) => k = l
  BY BookingsForWinners DEF Publish
<1>2. /\ \A k \in DOMAIN Queued(p) : Queued(p)[k] \in RequestIds
      /\ \A k, l \in DOMAIN Queued(p) : Queued(p)[k] = Queued(p)[l] => k = l
  BY DEF QueueFits, Queued, Job
<1> DEFINE new == {BookingFor(k) : k \in Winners}
           f(i) == BookingRow(p, CHOOSE k \in Winners : BookingFor(k) = i)
           old == {Queued(p)[k] : k \in DOMAIN Queued(p)}
           g(r) == Decided(p, CHOOSE k \in DOMAIN Queued(p) : Queued(p)[k] = r)
<1>4. /\ bookings' = [i \in BookingIds |-> IF i \in new THEN f(i) ELSE bookings[i]]
      /\ requests' = [r \in RequestIds |-> IF r \in old THEN g(r) ELSE requests[r]]
  BY DEF Publish
<1>5. \A k \in Winners : BookingFor(k) \in new /\ f(BookingFor(k)) = BookingRow(p, k)
  <2>1. ASSUME NEW k \in Winners PROVE (CHOOSE l \in Winners : BookingFor(l) = BookingFor(k)) = k
    BY <1>1
  <2> QED BY <2>1
<1>6. \A k \in DOMAIN Queued(p) : Queued(p)[k] \in old /\ g(Queued(p)[k]) = Decided(p, k)
  <2>1. ASSUME NEW k \in DOMAIN Queued(p)
        PROVE  (CHOOSE l \in DOMAIN Queued(p) : Queued(p)[l] = Queued(p)[k]) = k
    BY <1>2
  <2> QED BY <2>1
<1>7. (\A k \in Winners : BookingFor(k) \in BookingIds) /\ \A k \in DOMAIN Queued(p) : Queued(p)[k] \in RequestIds
  BY <1>1, <1>2 DEF FreeIds
<1>8. \A i \in BookingIds : (\A k \in Winners : BookingFor(k) # i) => i \notin new
  OBVIOUS
<1>9. \A r \in RequestIds : (\A k \in DOMAIN Queued(p) : Queued(p)[k] # r) => r \notin old
  OBVIOUS
<1> HIDE DEF new, old, f, g
<1>10. /\ bookings' = [i \in BookingIds |-> bookings'[i]]
       /\ \A i \in BookingIds : bookings'[i] = IF i \in new THEN f(i) ELSE bookings[i]
  BY <1>4
<1>11. /\ requests' = [r \in RequestIds |-> requests'[r]]
       /\ \A r \in RequestIds : requests'[r] = IF r \in old THEN g(r) ELSE requests[r]
  BY <1>4
<1>12. \A k \in Winners : bookings'[BookingFor(k)] = BookingRow(p, k)
  BY <1>5, <1>7, <1>10
<1>13. \A k \in DOMAIN Queued(p) : requests'[Queued(p)[k]] = Decided(p, k)
  BY <1>6, <1>7, <1>11
<1> QED BY <1>8, <1>9, <1>10, <1>11, <1>12, <1>13
(* A place of the plan, as a booking: typed, within its request, and       *)
(* apart from what is booked and from the other places of the plan.        *)
LEMMA PlacesAsBookings ==
  ASSUME RowsTyped, RowsShape, AllocatorSound, NEW p \in Procs, job[p] \in Job, job[p].week \in Weeks,
         QueueFits(p), RoomFits(p), Gone(p) = {}, NEW k \in Winners
  PROVE  /\ k \in DOMAIN Queued(p) /\ Queued(p)[k] \in RequestIds
         /\ LET b == BookingRow(p, k)
                r == requests[Queued(p)[k]]
            IN
            /\ b \in BookingRowType
            /\ b.day \in 0..(MaxDay + 2 * WeekDays) /\ b.start \in Nat /\ b.end \in 0..(DayEnd + 1)
            /\ b.start < b.end
            /\ b.request = Queued(p)[k] /\ b.band = r.what.band /\ b.end - b.start = r.what.duration
            /\ \E n \in DOMAIN r.what.windows :
                 /\ b.day = r.week + r.what.windows[n].day
                 /\ r.what.windows[n].start <= b.start /\ b.end <= r.what.windows[n].end
            /\ \A i \in HeldIds : ~Clash(b, bookings[i]) /\ ~Clash(bookings[i], b)
            /\ \A l \in Winners : l # k => ~Clash(b, BookingRow(p, l))
<1> DEFINE week == job[p].week
           q == Queued(p)[k]
           a == assigned[k]
           b == BookingRow(p, k)
           x == input.asked[k]
<1>1. Allocator!TypeOK /\ Allocator!NoClash /\ Allocator!WithinWishes
  BY DEF AllocatorSound, Allocator!PlanInv
<1>2. /\ assigned \in [Allocator!Order -> Allocator!Place \cup {None}]
      /\ Allocator!Order = DOMAIN input.asked /\ input \in Allocator!Input
  BY <1>1 DEF Allocator!TypeOK, Allocator!Order
<1>3. Winners \subseteq Allocator!Order /\ Allocator!Order = DOMAIN Queued(p)
      /\ \A l \in Winners : assigned[l] \in Allocator!Place
  BY <1>2 DEF Winners, QueueFits, Queued
<1>4. q \in RequestIds /\ k \in DOMAIN Queued(p)
  BY <1>3 DEF Job, Queued
<1>5. /\ requests[q].week = week /\ requests[q].what = x
      /\ x.windows = input.asked[k].windows
  BY <1>3, <1>4 DEF QueueFits, Queued, Gone
<1>6. x \in Allocator!Asked
  <2>1. input.asked \in Seq(Allocator!Asked) /\ k \in DOMAIN input.asked
    BY <1>2, <1>3 DEF Allocator!Input
  <2> QED BY <2>1
<1>7. /\ x.band \in Bands /\ x.duration \in Nat /\ x.duration > 0 /\ x.windows \in Seq(Allocator!Window)
  BY <1>6 DEF Allocator!Asked
<1>8. /\ a.day \in Weekdays /\ a.start \in Nat /\ a.end \in Nat
  BY <1>3 DEF Allocator!Place
<1>9. /\ a.priority \in DOMAIN x.windows /\ a.day = x.windows[a.priority].day
      /\ a.end = a.start + x.duration
      /\ Allocator!Bigger(x.windows[a.priority].start, input.open) <= a.start
      /\ a.end <= Allocator!Smaller(x.windows[a.priority].end, input.close)
  BY <1>1, <1>3 DEF Allocator!WithinWishes, Allocator!Wishes, Allocator!WindowOf, Allocator!Duration, Winners
<1>10. /\ x.windows[a.priority].start \in Nat /\ x.windows[a.priority].end \in Nat
       /\ input.open \in Nat /\ input.close \in Nat
  <2> HIDE DEF x, a
  <2>1. x.windows[a.priority] \in Allocator!Window
    BY <1>7, <1>9
  <2> QED BY <1>2, <2>1 DEF Allocator!Window, Allocator!Input
<1>11. x.windows[a.priority].start <= a.start /\ a.end <= x.windows[a.priority].end /\ a.end <= input.close
  BY <1>8, <1>9, <1>10 DEF Allocator!Bigger, Allocator!Smaller
<1>12. /\ \A c \in input.busy[a.day] : Allocator!Apart(a.start, a.end, c)
       /\ \A l \in Winners : l # k /\ assigned[l].day = a.day
            => a.end <= assigned[l].start \/ a.start >= assigned[l].end
  BY <1>1, <1>3 DEF Allocator!NoClash, Allocator!Fits, Allocator!Apart, Winners
<1>13. b = [band |-> x.band, day |-> week + a.day, start |-> a.start, end |-> a.end, request |-> q]
  BY <1>5 DEF BookingRow
<1>14. week \in 0..(MaxDay + WeekDays) /\ a.day \in 0..(WeekDays - 1) /\ input.close <= DayEnd + 1
       /\ MaxDay \in Nat /\ WeekDays \in Nat /\ DayEnd \in Nat
  BY <1>8, PlanningAssumption DEF Weeks, Weekdays, RoomFits
<1> HIDE DEF week, q, a, x, b
<1>15. /\ b.day \in 0..(MaxDay + 2 * WeekDays) /\ b.start \in Nat /\ b.end \in 0..(DayEnd + 1)
       /\ b.start < b.end /\ b.end - b.start = x.duration /\ b.day \in Nat
  <2>1. b.day = week + a.day /\ b.start = a.start /\ b.end = a.end
    BY <1>13
  <2>2. b.day \in 0..(MaxDay + 2 * WeekDays) /\ b.day \in Nat
    BY <1>14, <2>1
  <2>3. a.end <= DayEnd + 1 /\ a.end \in Nat
    BY <1>8, <1>10, <1>11, <1>14
  <2>4. b.end \in 0..(DayEnd + 1)
    BY <1>14, <2>1, <2>3
  <2>5. b.start < b.end /\ b.end - b.start = x.duration
    BY <1>7, <1>8, <1>9, <2>1
  <2> QED BY <1>8, <2>1, <2>2, <2>4, <2>5
<1>16. b \in BookingRowType
  <2>1. b.end \in Nat
    BY <1>8, <1>13
  <2> QED BY <1>4, <1>7, <1>8, <1>13, <1>15, <2>1 DEF BookingRowType
<1>17. ASSUME NEW i \in HeldIds PROVE ~Clash(b, bookings[i]) /\ ~Clash(bookings[i], b)
  <2> DEFINE h == bookings[i]
  <2>1. h.start \in Nat /\ h.end \in Nat
    <3>1. h.start \in Nat /\ h.end \in 0..(DayEnd + 1)
      BY DEF RowsShape, HeldIds
    <3> QED BY <3>1, <1>14
  <2>2. h.day = b.day => [start |-> h.start, end |-> h.end] \in input.busy[a.day]
    BY <1>8, <1>13 DEF RoomFits, week
  <2>3. h.day = b.day => b.end <= h.start \/ b.start >= h.end
    BY <1>12, <1>13, <2>2 DEF Allocator!Apart
  <2> HIDE DEF h
  <2>4. b.start \in Nat /\ b.end \in Nat
    BY <1>8, <1>13
  <2>5. ~Clash(b, h) /\ ~Clash(h, b)
    BY <2>1, <2>3, <2>4 DEF Clash
  <2> QED BY <2>5 DEF h
<1>18. ASSUME NEW l \in Winners, l # k PROVE ~Clash(b, BookingRow(p, l))
  <2> DEFINE c == assigned[l]
             z == BookingRow(p, l)
  <2>1. z.day = week + c.day /\ z.start = c.start /\ z.end = c.end
    BY DEF BookingRow, week
  <2>2. c.day \in 0..(WeekDays - 1) /\ c.start \in Nat /\ c.end \in Nat
    BY <1>3 DEF Allocator!Place, Weekdays
  <2>3. c.day = a.day => a.end <= c.start \/ a.start >= c.end
    BY <1>12, <1>18
  <2> HIDE DEF c, z
  <2>4. b.day = week + a.day /\ b.start = a.start /\ b.end = a.end
    BY <1>13
  <2>5. z.day = b.day => c.day = a.day
    BY <1>14, <2>1, <2>2, <2>4
  <2>6. ~Clash(b, z)
    BY <1>8, <2>1, <2>2, <2>3, <2>4, <2>5 DEF Clash
  <2> QED BY <2>6 DEF z
<1>19. \E n \in DOMAIN x.windows :
         /\ b.day = week + x.windows[n].day
         /\ x.windows[n].start <= b.start /\ b.end <= x.windows[n].end
  BY <1>9, <1>11, <1>13
<1>20. b.request = q /\ b.band = x.band
  BY <1>13
<1> QED BY <1>4, <1>5, <1>15, <1>16, <1>17, <1>18, <1>19, <1>20 DEF b, q
(* After the commit the tables agree with each other again.                *)
LEMMA PublishTables ==
  ASSUME TablesGood, AllocatorSound, NEW p \in Procs, job[p] \in Job, job[p].week \in Weeks,
         QueueFits(p), RoomFits(p), Publish(p)
  PROVE  TablesGood' /\ Unused' = Unused
<1>1. RowsTyped /\ RowsShape /\ RoomHeldOnce /\ AllocatedOnce /\ GivenAsAsked /\ Gone(p) = {}
  BY DEF TablesGood, Publish
<1> DEFINE Q == Queued(p)
           row(k) == BookingRow(p, k)
           id(k) == BookingFor(k)
           new == {id(k) : k \in Winners}
<1>2. /\ \A k \in Winners : id(k) \in FreeIds
      /\ \A k, l \in Winners : id(k) = id(l) => k = l
  BY <1>1, BookingsForWinners DEF Publish
<1>3. /\ bookings' = [i \in BookingIds |-> bookings'[i]]
      /\ \A k \in Winners : bookings'[id(k)] = row(k)
      /\ \A i \in BookingIds : (\A k \in Winners : id(k) # i) => bookings'[i] = bookings[i]
      /\ requests' = [r \in RequestIds |-> requests'[r]]
      /\ \A k \in DOMAIN Q : requests'[Q[k]] = Decided(p, k)
      /\ \A r \in RequestIds : (\A k \in DOMAIN Q : Q[k] # r) => requests'[r] = requests[r]
  BY <1>1, Written
<1>4. /\ \A k \in DOMAIN Q : Q[k] \in RequestIds /\ requests[Q[k]].state = "pending"
      /\ \A k, l \in DOMAIN Q : Q[k] = Q[l] => k = l
  BY <1>1 DEF QueueFits, Queued, Job, Gone
<1>5. ASSUME NEW k \in Winners
      PROVE  /\ k \in DOMAIN Q
             /\ row(k) \in BookingRowType
             /\ row(k).day \in 0..(MaxDay + 2 * WeekDays) /\ row(k).start \in Nat
             /\ row(k).end \in 0..(DayEnd + 1) /\ row(k).start < row(k).end
             /\ row(k).request = Q[k] /\ row(k).band = requests[Q[k]].what.band
             /\ row(k).end - row(k).start = requests[Q[k]].what.duration
             /\ \E n \in DOMAIN requests[Q[k]].what.windows :
                  /\ row(k).day = requests[Q[k]].week + requests[Q[k]].what.windows[n].day
                  /\ requests[Q[k]].what.windows[n].start <= row(k).start
                  /\ row(k).end <= requests[Q[k]].what.windows[n].end
             /\ \A i \in HeldIds : ~Clash(row(k), bookings[i]) /\ ~Clash(bookings[i], row(k))
             /\ \A l \in Winners : l # k => ~Clash(row(k), row(l))
  BY <1>1, PlacesAsBookings
<1>6. \A k \in DOMAIN Q : requests[Q[k]] \in RequestRow
  BY <1>1, <1>4 DEF RowsTyped
<1>7. \A k \in DOMAIN Q :
        /\ requests'[Q[k]].week = requests[Q[k]].week /\ requests'[Q[k]].what = requests[Q[k]].what
        /\ k \in Winners => requests'[Q[k]].state = "assigned" /\ requests'[Q[k]].booking = id(k)
        /\ k \notin Winners => requests'[Q[k]].state = "unassigned" /\ requests'[Q[k]].booking = requests[Q[k]].booking
        /\ requests'[Q[k]] \in RequestRow
  <2>1. ASSUME NEW k \in DOMAIN Q, NEW r \in RequestRow, NEW i \in BookingIds
        PROVE  /\ [r EXCEPT !.state = "assigned", !.booking = i] \in RequestRow
               /\ [r EXCEPT !.state = "unassigned"] \in RequestRow
    BY DEF RequestRow, RequestStatuses
  <2>2. \A k \in Winners : id(k) \in BookingIds
    BY <1>2 DEF FreeIds
  <2>3. \A k \in DOMAIN Q :
          requests'[Q[k]] = IF k \in Winners THEN [requests[Q[k]] EXCEPT !.state = "assigned", !.booking = id(k)]
                            ELSE [requests[Q[k]] EXCEPT !.state = "unassigned"]
    BY <1>3 DEF Decided
  <2> HIDE DEF id
  <2>4. ASSUME NEW k \in DOMAIN Q PROVE requests'[Q[k]] \in RequestRow
    <3> DEFINE r == requests[Q[k]]
    <3>1. r \in RequestRow
      BY <1>6
    <3> HIDE DEF r
    <3>2. CASE k \in Winners
      <4>1. [r EXCEPT !.state = "assigned", !.booking = id(k)] \in RequestRow
        BY <2>1, <2>2, <3>1, <3>2
      <4> QED BY <2>3, <3>2, <4>1 DEF r
    <3>3. CASE k \notin Winners
      <4>1. [r EXCEPT !.state = "unassigned"] \in RequestRow
        BY <3>1 DEF RequestRow, RequestStatuses
      <4> QED BY <2>3, <3>3, <4>1 DEF r
    <3> QED BY <3>2, <3>3
  <2> QED BY <1>6, <2>3, <2>4 DEF RequestRow
<1>8. \A r \in RequestIds : \/ requests'[r] = requests[r] /\ \A k \in DOMAIN Q : Q[k] # r
                            \/ \E k \in DOMAIN Q : r = Q[k]
  BY <1>3
<1>9. \A i \in BookingIds : \/ bookings'[i] = bookings[i] /\ \A k \in Winners : id(k) # i
                            \/ \E k \in Winners : i = id(k)
  BY <1>3
<1> HIDE DEF Q, row, id, new
<1>10. RowsTyped'
  <2>1. \A i \in BookingIds : bookings'[i] \in BookingRowType
    BY <1>1, <1>3, <1>5, <1>9 DEF RowsTyped
  <2>2. \A r \in RequestIds : requests'[r] \in RequestRow
    BY <1>1, <1>7, <1>8 DEF RowsTyped
  <2>3. bookings' \in [BookingIds -> BookingRowType] /\ requests' \in [RequestIds -> RequestRow]
    BY <1>3, <2>1, <2>2
  <2> QED BY <2>3 DEF RowsTyped
<1>11. Unused' = Unused
  <2>1. \A r \in RequestIds : requests'[r].state = "unused" <=> requests[r].state = "unused"
    BY <1>4, <1>7, <1>8
  <2> QED BY <2>1 DEF Unused
<1>12. /\ \A k \in Winners : id(k) \in BookingIds /\ id(k) \notin HeldIds
       /\ \A i \in BookingIds : Held(i)' <=> i \in HeldIds \/ \E k \in Winners : i = id(k)
  <2>1. \A k \in Winners : id(k) \in BookingIds /\ id(k) \notin HeldIds
    BY <1>2 DEF FreeIds
  <2>2. \A k \in Winners : row(k).day # None
    BY <1>5, PlanningAssumption
  <2>3. ASSUME NEW i \in BookingIds PROVE Held(i)' <=> i \in HeldIds \/ \E k \in Winners : i = id(k)
    <3>1. CASE \E k \in Winners : i = id(k)
      BY <1>3, <2>2, <3>1 DEF Held
    <3>2. CASE ~ \E k \in Winners : i = id(k)
      <4>1. bookings'[i] = bookings[i]
        BY <1>9, <3>2
      <4> QED BY <3>2, <4>1 DEF Held, HeldIds
    <3> QED BY <3>1, <3>2
  <2> QED BY <2>1, <2>3
<1>13. \A i \in HeldIds' : \/ i \in HeldIds /\ bookings'[i] = bookings[i]
                           \/ \E k \in Winners : i = id(k) /\ bookings'[i] = row(k)
  <2>1. \A i \in HeldIds' : i \in BookingIds /\ Held(i)'
    BY DEF HeldIds
  <2> QED BY <1>3, <1>9, <1>12, <2>1
<1>14. RowsShape'
  <2>1. ASSUME NEW r \in RequestIds
        PROVE  LET x == requests'[r] IN
               /\ x.state \in {"pending", "assigned", "unassigned"} => x.what \in RequestChoices /\ x.week \in Weeks
               /\ x.state = "assigned" => x.booking \in BookingIds
    <3>1. CASE requests'[r] = requests[r]
      BY <1>1, <3>1 DEF RowsShape
    <3>2. CASE \E k \in DOMAIN Q : r = Q[k]
      BY <1>1, <1>4, <1>7, <1>12, <3>2 DEF RowsShape
    <3> QED BY <1>8, <3>1, <3>2
  <2>2. ASSUME NEW i \in BookingIds
        PROVE  IF Held(i)'
               THEN /\ bookings'[i].day \in 0..(MaxDay + 2 * WeekDays)
                    /\ bookings'[i].start \in Nat /\ bookings'[i].end \in 0..(DayEnd + 1)
                    /\ bookings'[i].start < bookings'[i].end
               ELSE bookings'[i] = NoBooking
    <3>1. CASE \E k \in Winners : i = id(k)
      BY <1>3, <1>5, <1>12, <3>1
    <3>2. CASE ~ \E k \in Winners : i = id(k)
      <4>1. bookings'[i] = bookings[i] /\ (Held(i)' <=> Held(i))
        BY <1>9, <3>2 DEF Held
      <4> QED BY <1>1, <4>1 DEF RowsShape
    <3> QED BY <3>1, <3>2
  <2> QED BY <2>1, <2>2 DEF RowsShape
<1>15. RoomHeldOnce'
  <2>1. ASSUME NEW i \in HeldIds', NEW j \in HeldIds', i # j
        PROVE  ~Clash(bookings'[i], bookings'[j])
    <3>1. CASE i \in HeldIds /\ bookings'[i] = bookings[i]
      <4>1. CASE j \in HeldIds /\ bookings'[j] = bookings[j]
        BY <1>1, <2>1, <3>1, <4>1 DEF RoomHeldOnce
      <4>2. CASE \E k \in Winners : j = id(k) /\ bookings'[j] = row(k)
        BY <1>5, <3>1, <4>2
      <4> QED BY <1>13, <4>1, <4>2
    <3>2. CASE \E k \in Winners : i = id(k) /\ bookings'[i] = row(k)
      <4>1. CASE j \in HeldIds /\ bookings'[j] = bookings[j]
        BY <1>5, <3>2, <4>1
      <4>2. CASE \E k \in Winners : j = id(k) /\ bookings'[j] = row(k)
        BY <1>5, <2>1, <3>2, <4>2
      <4> QED BY <1>13, <4>1, <4>2
    <3> QED BY <1>13, <3>1, <3>2
  <2>2. \A i, j \in HeldIds' : i # j => ~Clash(bookings'[i], bookings'[j])
    BY <2>1
  <2> QED BY <2>2 DEF RoomHeldOnce, Clash
<1>16. \A i \in HeldIds : \A k \in DOMAIN Q : bookings[i].request # Q[k]
  BY <1>1, <1>4, PlanningAssumption DEF AllocatedOnce
<1>17. \A i \in HeldIds' : \A j \in HeldIds' \ {i} :
         bookings'[i].request # None => bookings'[j].request # bookings'[i].request
  <2>1. ASSUME NEW i \in HeldIds', NEW j \in HeldIds', i # j, bookings'[i].request # None
        PROVE  bookings'[j].request # bookings'[i].request
    <3>1. CASE i \in HeldIds /\ bookings'[i] = bookings[i]
      <4>1. CASE j \in HeldIds /\ bookings'[j] = bookings[j]
        BY <1>1, <2>1, <3>1, <4>1 DEF AllocatedOnce
      <4>2. CASE \E k \in Winners : j = id(k) /\ bookings'[j] = row(k)
        BY <1>5, <1>16, <3>1, <4>2
      <4> QED BY <1>13, <4>1, <4>2
    <3>2. CASE \E k \in Winners : i = id(k) /\ bookings'[i] = row(k)
      <4>1. CASE j \in HeldIds /\ bookings'[j] = bookings[j]
        BY <1>5, <1>16, <3>2, <4>1
      <4>2. CASE \E k \in Winners : j = id(k) /\ bookings'[j] = row(k)
        BY <1>4, <1>5, <2>1, <3>2, <4>2
      <4> QED BY <1>13, <4>1, <4>2
    <3> QED BY <1>13, <3>1, <3>2
  <2> QED BY <2>1
<1>18. \A i \in HeldIds' : bookings'[i].request # None =>
         LET r == requests'[bookings'[i].request] IN
         r.state # "deleted" => r.state = "assigned" /\ r.booking = i
  <2>1. ASSUME NEW i \in HeldIds', bookings'[i].request # None
        PROVE  LET r == requests'[bookings'[i].request] IN
               r.state # "deleted" => r.state = "assigned" /\ r.booking = i
    <3>1. CASE i \in HeldIds /\ bookings'[i] = bookings[i]
      <4>1. bookings[i].request \in RequestIds
        BY <1>1, <2>1, <3>1 DEF RowsTyped, BookingRowType, HeldIds
      <4>2. requests'[bookings[i].request] = requests[bookings[i].request]
        BY <1>3, <1>16, <3>1, <4>1
      <4> QED BY <1>1, <2>1, <3>1, <4>2 DEF AllocatedOnce
    <3>2. CASE \E k \in Winners : i = id(k) /\ bookings'[i] = row(k)
      BY <1>5, <1>7, <3>2
    <3> QED BY <1>13, <3>1, <3>2
  <2> QED BY <2>1
<1>19. AllocatedOnce'
  BY <1>17, <1>18 DEF AllocatedOnce
<1>20. GivenAsAsked'
  <2> DEFINE Given(r, x, b) ==
         /\ b.request = r /\ b.band = x.what.band /\ b.end - b.start = x.what.duration
         /\ \E n \in DOMAIN x.what.windows :
              /\ b.day = x.week + x.what.windows[n].day
              /\ x.what.windows[n].start <= b.start /\ b.end <= x.what.windows[n].end
  <2>1. \A r \in RequestIds : requests[r].state = "assigned" => Given(r, requests[r], bookings[requests[r].booking])
    BY <1>1 DEF GivenAsAsked
  <2>2. \A k \in Winners : Given(Q[k], requests'[Q[k]], row(k))
    BY <1>5, <1>7
  <2>3. ASSUME NEW r \in RequestIds, requests'[r].state = "assigned"
        PROVE  Given(r, requests'[r], bookings'[requests'[r].booking])
    <3>1. CASE requests'[r] = requests[r]
      <4>1. Given(r, requests[r], bookings[requests[r].booking]) /\ requests[r].booking \in BookingIds
        BY <1>1, <2>1, <2>3, <3>1 DEF RowsShape
      <4> DEFINE i == requests[r].booking
      <4>2. i \in BookingIds /\ bookings[i].request = r /\ r # None
        BY <4>1, PlanningAssumption
      <4> HIDE DEF Given, i
      <4>3. i \in HeldIds
        BY <1>1, <4>2 DEF RowsShape, NoBooking, HeldIds
      <4>4. \A k \in Winners : id(k) # i
        BY <1>12, <4>3
      <4>5. bookings'[i] = bookings[i]
        BY <1>9, <4>2, <4>4
      <4> QED BY <3>1, <4>1, <4>5 DEF i
    <3>2. CASE \E k \in DOMAIN Q : r = Q[k]
      <4>1. PICK k \in DOMAIN Q : r = Q[k]
        BY <3>2
      <4>2. k \in Winners /\ requests'[r].booking = id(k)
        BY <1>7, <2>3, <4>1
      <4>3. bookings'[id(k)] = row(k)
        BY <1>3, <4>2
      <4> HIDE DEF Given
      <4> QED BY <2>2, <4>1, <4>2, <4>3
    <3> QED BY <1>8, <3>1, <3>2
  <2> QED BY <2>3 DEF GivenAsAsked
<1> QED BY <1>10, <1>11, <1>14, <1>15, <1>19, <1>20 DEF TablesGood
(* Whoever allocated has written and let go: nobody allocates any more.    *)
LEMMA LetGo ==
  ASSUME WeeksInv, NEW p \in Procs, pc[p] = "allocating",
         WorldTyped', TablesGood', Unused' = Unused, lock' = None, Allocator!Call(NoInput),
         NEW j \in Job, NEW where \in {"idle", "catching"}, Begin(p, j, where)
  PROVE  WeeksInv'
<1>1. JobsTyped /\ JobsShape /\ LockOwned /\ RowsTyped
  BY WholeParts DEF TablesGood
<1>2. pc' = [pc EXCEPT ![p] = where] /\ where \in Places
  BY DEF Begin, Places
<1>3. Cardinality(Unused') >= Cardinality(Submitting')
  BY <1>1, <1>2, RoomStays
<1>4. JobsTyped' /\ JobsShape'
  BY <1>1, <1>2, <1>3, BeginTyped
<1>5. \A q \in Procs : pc'[q] # "allocating"
  BY <1>1, <1>2 DEF LockOwned, JobsTyped
<1>6. LockOwned' /\ PlanFits'
  BY <1>5 DEF LockOwned, PlanFits
<1>7. AllocatorSound'
  BY NoInputTyped, AllocatorCalled
<1> QED BY <1>4, <1>6, <1>7, WholePartsNext

LEMMA PublishKeeps ==
  ASSUME WeeksInv, NEW p \in Procs, Publish(p)
  PROVE  WeeksInv'
<1>1. /\ WorldTyped /\ TablesGood /\ JobsTyped /\ JobsShape /\ PlanFits /\ AllocatorSound
  BY WholeParts
<1>2. pc[p] = "allocating" /\ job[p] \in Job /\ job[p].week \in Weeks /\ QueueFits(p) /\ RoomFits(p)
  BY <1>1 DEF Publish, JobsTyped, JobsShape, PlanFits
<1>3. TablesGood' /\ Unused' = Unused
  BY <1>1, <1>2, PublishTables
<1>4. /\ published' = published \cup {job[p].week}
      /\ lock' = None /\ Return(p, TRUE) /\ Allocator!Call(NoInput)
      /\ UNCHANGED <<time, settings, server, crashes, failed>>
  BY DEF Publish
<1>5. PICK j \in Job, where \in {"idle", "catching"} : Begin(p, j, where)
  BY <1>2, <1>4, ReturnBegins
<1>6. WorldTyped'
  BY <1>1, <1>2, <1>4 DEF WorldTyped, time
<1> QED BY <1>2, <1>3, <1>4, <1>5, <1>6, LetGo

LEMMA BreakKeeps ==
  ASSUME WeeksInv, NEW p \in Procs, Break(p)
  PROVE  WeeksInv'
<1>1. /\ WorldTyped /\ TablesGood /\ JobsTyped /\ JobsShape
  BY WholeParts
<1>2. pc[p] = "allocating" /\ job[p] \in Job /\ job[p].week \in Weeks
  BY <1>1 DEF Break, JobsTyped, JobsShape
<1>3. /\ failed' = failed \cup {job[p].week}
      /\ lock' = None /\ Return(p, FALSE) /\ Allocator!Call(NoInput)
      /\ UNCHANGED <<time, tables, server, crashes>>
  BY DEF Break
<1>4. PICK j \in Job, where \in {"idle", "catching"} : Begin(p, j, where)
  BY <1>2, <1>3, ReturnBegins
<1>5. WorldTyped'
  BY <1>1, <1>2, <1>3 DEF WorldTyped, time, tables
<1>6. UNCHANGED <<requests, bookings>>
  BY <1>3 DEF tables
<1>7. TablesGood' /\ Unused' = Unused
  BY <1>1, <1>6, TablesRest DEF Unused
<1> QED BY <1>2, <1>3, <1>4, <1>5, <1>7, LetGo

LEMMA CrashKeeps == WeeksInv /\ Crash => WeeksInv'
<1> SUFFICES ASSUME WeeksInv, Crash PROVE WeeksInv'
  OBVIOUS
<1>1. /\ WorldTyped /\ TablesGood /\ JobsTyped /\ JobsShape /\ RowsTyped
  BY WholeParts DEF TablesGood
<1>2. /\ crashes < MaxCrashes /\ server' = "down" /\ crashes' = crashes + 1
      /\ alarm' = FALSE /\ lock' = None
      /\ pc' = [p \in Procs |-> "idle"] /\ job' = [p \in Procs |-> NoJob]
      /\ Allocator!Call(NoInput) /\ UNCHANGED <<today, clock, tables, failed>>
  BY DEF Crash
<1>3. UNCHANGED <<settings, published, requests, bookings>>
  BY <1>2 DEF tables
<1>4. WorldTyped'
  <2>1. crashes' \in 0..MaxCrashes
    BY <1>1, <1>2, PlanningAssumption DEF WorldTyped
  <2> QED BY <1>1, <1>2, <1>3, <2>1 DEF WorldTyped
<1>5. TablesGood'
  BY <1>1, <1>3, TablesRest
<1>6. JobsTyped' /\ JobsShape'
  <2>1. Submitting' = {}
    BY <1>2 DEF Submitting
  <2>2. Unused' = Unused
    BY <1>3 DEF Unused
  <2>3. Cardinality(Unused') >= Cardinality(Submitting')
    BY <1>1, <2>1, <2>2, SubmittingCounted, FS_EmptySet
  <2>4. JobsTyped'
    BY <1>2, NoJobTyped DEF JobsTyped, Places
  <2> QED BY <1>2, <2>3, <2>4 DEF JobsShape
<1>7. LockOwned' /\ PlanFits'
  BY <1>2 DEF LockOwned, PlanFits
<1>8. AllocatorSound'
  BY <1>2, NoInputTyped, AllocatorCalled
<1> QED BY <1>4, <1>5, <1>6, <1>7, <1>8, WholePartsNext

(* Requests to the server, and the allocator, that go on as they were.     *)
LEMMA OthersRest ==
  ASSUME WeeksInv, WorldTyped', TablesGood', UNCHANGED <<requests, lock, pc, job, allocator>>,
         UNCHANGED bookings \/ lock = None
  PROVE  WeeksInv'
<1>1. /\ JobsTyped /\ JobsShape /\ LockOwned /\ PlanFits /\ AllocatorSound
  BY WholeParts
<1>2. AllocatorSound'
  BY <1>1, AllocatorRests
<1>3. JobsTyped' /\ JobsShape'
  BY <1>1 DEF JobsTyped, JobsShape, Unused, Submitting
<1>4. LockOwned' /\ PlanFits'
  <2>1. CASE UNCHANGED bookings
    BY <1>1, <2>1, PlanStays DEF allocator
  <2>2. CASE lock = None
    <3>1. \A q \in Procs : pc'[q] # "allocating"
      BY <1>1, <2>2, PlanningAssumption DEF LockOwned
    <3> QED BY <3>1 DEF LockOwned, PlanFits
  <2> QED BY <2>1, <2>2
<1> QED BY <1>2, <1>3, <1>4, WholePartsNext

(* A booking by hand takes a free id and time that nobody holds.           *)
LEMMA ByHand ==
  ASSUME TablesGood, BookByHand
  PROVE  \E i \in FreeIds, b \in BookingRowType :
           /\ bookings' = [bookings EXCEPT ![i] = b] /\ b.request = None
           /\ b.day \in 0..(MaxDay + 2 * WeekDays) /\ b.day # None /\ b.start \in Nat
           /\ b.end \in 0..(DayEnd + 1) /\ b.start < b.end
           /\ \A j \in HeldIds : ~Clash(b, bookings[j]) /\ ~Clash(bookings[j], b)
<1>1. RowsTyped /\ RowsShape
  BY DEF TablesGood
<1>2. PICK s \in HandChoices :
        /\ \A i \in HeldIds : ~Clash(s, bookings[i])
        /\ bookings' = [bookings EXCEPT ![Min(FreeIds)] =
             [band |-> s.band, day |-> s.day, start |-> s.start, end |-> s.end, request |-> None]]
  BY DEF BookByHand
<1>3. /\ s.band \in Bands \cup {None} /\ s.day \in 0..(MaxDay + WeekDays)
      /\ s.start \in 0..DayEnd /\ s.end \in 0..(DayEnd + 1) /\ s.start < s.end
  BY PlanningAssumption
<1> DEFINE i == Min(FreeIds)
           b == [band |-> s.band, day |-> s.day, start |-> s.start, end |-> s.end, request |-> None]
<1>4. i \in FreeIds
  <2>1. FreeIds \in SUBSET Nat
    BY PlanningAssumption DEF FreeIds
  <2> QED BY <2>1, LeastIsMember DEF BookByHand
<1>5. /\ b.day \in 0..(MaxDay + 2 * WeekDays) /\ b.day \in Nat /\ b.start \in Nat /\ b.end \in Nat
  BY <1>3, PlanningAssumption
<1>6. b \in BookingRowType /\ b.request = None
  BY <1>3, <1>5 DEF BookingRowType
<1>7. ASSUME NEW j \in HeldIds PROVE ~Clash(b, bookings[j]) /\ ~Clash(bookings[j], b)
  <2>1. ~Clash(b, bookings[j])
    BY <1>2 DEF Clash
  <2>2. bookings[j].start \in Nat /\ bookings[j].end \in 0..(DayEnd + 1)
    BY <1>1 DEF RowsShape, HeldIds
  <2> HIDE DEF b
  <2> QED BY <1>5, <2>1, <2>2, PlanningAssumption DEF Clash
<1>8. b.day # None
  BY <1>5, PlanningAssumption
<1> QED BY <1>2, <1>3, <1>4, <1>5, <1>6, <1>7, <1>8

LEMMA HandKeeps == WeeksInv /\ BookByHand => WeeksInv'
<1> SUFFICES ASSUME WeeksInv, BookByHand PROVE WeeksInv'
  OBVIOUS
<1>1. WorldTyped /\ TablesGood /\ RowsTyped /\ RowsShape
  BY WholeParts DEF TablesGood
<1>2. PICK i \in FreeIds, b \in BookingRowType :
        /\ bookings' = [bookings EXCEPT ![i] = b] /\ b.request = None
        /\ b.day \in 0..(MaxDay + 2 * WeekDays) /\ b.day # None /\ b.start \in Nat
        /\ b.end \in 0..(DayEnd + 1) /\ b.start < b.end
        /\ \A j \in HeldIds : ~Clash(b, bookings[j]) /\ ~Clash(bookings[j], b)
  BY <1>1, ByHand
<1>3. /\ UNCHANGED <<time, settings, published, requests, lock, server, crashes, pc, job, failed, allocator>>
      /\ lock = None
  BY DEF BookByHand
<1>4. i \in BookingIds /\ i \notin HeldIds
  BY DEF FreeIds
<1>5. \A j \in BookingIds : bookings'[j] = IF j = i THEN b ELSE bookings[j]
  BY <1>1, <1>2 DEF RowsTyped
<1>6. \A j \in BookingIds : Held(j)' <=> j \in HeldIds \/ j = i
  BY <1>2, <1>5 DEF Held, HeldIds
<1>7. \A j \in HeldIds' : \/ j \in HeldIds /\ j # i /\ bookings'[j] = bookings[j]
                          \/ j = i /\ bookings'[j] = b
  <2>1. \A j \in HeldIds' : j \in BookingIds /\ Held(j)'
    BY DEF HeldIds
  <2> QED BY <1>4, <1>5, <1>6, <2>1
<1>8. RowsTyped'
  BY <1>1, <1>2, <1>3 DEF RowsTyped
<1>9. RowsShape'
  <2>1. ASSUME NEW j \in BookingIds
        PROVE  IF Held(j)'
               THEN /\ bookings'[j].day \in 0..(MaxDay + 2 * WeekDays)
                    /\ bookings'[j].start \in Nat /\ bookings'[j].end \in 0..(DayEnd + 1)
                    /\ bookings'[j].start < bookings'[j].end
               ELSE bookings'[j] = NoBooking
    <3>1. CASE j = i
      BY <1>2, <1>4, <1>5, <1>6, <3>1
    <3>2. CASE j # i
      <4>1. bookings'[j] = bookings[j] /\ (Held(j)' <=> Held(j))
        BY <1>5, <1>6, <3>2 DEF HeldIds
      <4> QED BY <1>1, <4>1 DEF RowsShape
    <3> QED BY <3>1, <3>2
  <2> QED BY <1>1, <1>3, <2>1 DEF RowsShape
<1>10. RoomHeldOnce'
  <2>1. \A j, k \in HeldIds : j # k => ~Clash(bookings[j], bookings[k])
    BY <1>1 DEF TablesGood, RoomHeldOnce
  <2>2. \A j, k \in HeldIds' : j # k => ~Clash(bookings'[j], bookings'[k])
    BY <1>2, <1>7, <2>1
  <2> QED BY <2>2 DEF RoomHeldOnce, Clash
<1>11. AllocatedOnce'
  <2>1. \A j \in HeldIds : bookings[j].request # None =>
          /\ \A k \in HeldIds \ {j} : bookings[k].request # bookings[j].request
          /\ requests[bookings[j].request].state # "deleted" =>
               requests[bookings[j].request].state = "assigned" /\ requests[bookings[j].request].booking = j
    BY <1>1 DEF TablesGood, AllocatedOnce
  <2>2. \A j \in HeldIds' : bookings'[j].request # None =>
          /\ \A k \in HeldIds' \ {j} : bookings'[k].request # bookings'[j].request
          /\ requests'[bookings'[j].request].state # "deleted" =>
               requests'[bookings'[j].request].state = "assigned" /\ requests'[bookings'[j].request].booking = j
    BY <1>2, <1>3, <1>7, <2>1
  <2> QED BY <2>2 DEF AllocatedOnce
<1>12. GivenAsAsked'
  <2>1. ASSUME NEW r \in RequestIds, requests[r].state = "assigned"
        PROVE  bookings'[requests[r].booking] = bookings[requests[r].booking]
    <3> DEFINE k == requests[r].booking
    <3>1. k \in BookingIds /\ bookings[k].request = r /\ r # None
      BY <1>1, <2>1, PlanningAssumption DEF TablesGood, GivenAsAsked, RowsShape
    <3> HIDE DEF k
    <3>2. k \in HeldIds
      BY <1>1, <3>1 DEF RowsShape, NoBooking, HeldIds
    <3>3. bookings'[k] = bookings[k]
      BY <1>4, <1>5, <3>1, <3>2
    <3> QED BY <3>3 DEF k
  <2> QED BY <1>1, <1>3, <2>1 DEF TablesGood, GivenAsAsked
<1>13. WorldTyped'
  BY <1>1, <1>3 DEF WorldTyped, time
<1>14. TablesGood'
  BY <1>8, <1>9, <1>10, <1>11, <1>12 DEF TablesGood
<1> QED BY <1>3, <1>13, <1>14, OthersRest

LEMMA SettingsKeep == WeeksInv /\ ChangeSettings => WeeksInv'
<1> SUFFICES ASSUME WeeksInv, ChangeSettings PROVE WeeksInv'
  OBVIOUS
<1>1. WorldTyped /\ TablesGood
  BY WholeParts
<1>2. /\ settings' \in SettingsChoices
      /\ UNCHANGED <<time, published, requests, bookings, lock, server, crashes, pc, job, failed, allocator>>
  BY DEF ChangeSettings
<1>3. WorldTyped'
  BY <1>1, <1>2 DEF WorldTyped, time
<1>4. TablesGood'
  BY <1>1, <1>2, TablesRest
<1> QED BY <1>2, <1>3, <1>4, OthersRest

LEMMA TickKeeps == WeeksInv /\ Tick => WeeksInv'
<1> SUFFICES ASSUME WeeksInv, Tick PROVE WeeksInv'
  OBVIOUS
<1>1. WorldTyped /\ TablesGood
  BY WholeParts
<1>2. UNCHANGED <<settings, published, requests, bookings, lock, server, crashes, pc, job, failed, allocator>>
  BY DEF Tick, tables
<1>3. today' \in 0..MaxDay /\ clock' \in 0..DayEnd
  <2>1. today \in 0..MaxDay /\ clock \in 0..DayEnd /\ MaxDay \in Nat /\ DayEnd \in Nat
    BY <1>1, PlanningAssumption DEF WorldTyped
  <2>2. /\ today < MaxDay
        /\ \/ clock < DayEnd /\ clock' = clock + 1 /\ today' = today
           \/ clock' = 0 /\ today' = today + 1
    BY DEF Tick
  <2> QED BY <2>1, <2>2
<1>4. alarm' \in BOOLEAN
  BY Zenon DEF Tick
<1>5. WorldTyped'
  BY <1>1, <1>2, <1>3, <1>4 DEF WorldTyped
<1>6. TablesGood'
  BY <1>1, <1>2, TablesRest
<1> QED BY <1>2, <1>5, <1>6, OthersRest

LEMMA StutterKeeps == WeeksInv /\ UNCHANGED vars => WeeksInv'
<1> SUFFICES ASSUME WeeksInv, UNCHANGED vars PROVE WeeksInv'
  OBVIOUS
<1>1. WorldTyped /\ TablesGood
  BY WholeParts
<1>2. UNCHANGED <<today, clock, alarm, settings, published, requests, bookings,
                  lock, server, crashes, pc, job, failed, allocator>>
  BY DEF vars, time, tables
<1>3. WorldTyped'
  BY <1>1, <1>2 DEF WorldTyped
<1>4. TablesGood'
  BY <1>1, <1>2, TablesRest
<1> QED BY <1>2, <1>3, <1>4, OthersRest

LEMMA WeeksStep == WeeksInv /\ [Next]_vars => WeeksInv'
<1> SUFFICES ASSUME WeeksInv, [Next]_vars PROVE WeeksInv'
  OBVIOUS
<1>1. ASSUME NEW p \in Procs, Submit(p) \/ Delete(p) \/ AdminRuns(p) \/ SundayJob(p) \/ Work(p) \/ Boot(p)
      PROVE  WeeksInv'
  BY <1>1, QuietMoves, InsertKeeps, DeleteKeeps, ReadKeeps, AllocateKeeps, PublishKeeps, BreakKeeps DEF Work
<1> QED BY <1>1, CrashKeeps, HandKeeps, SettingsKeep, TickKeeps, StutterKeeps DEF Next

LEMMA WeeksBegin == Init => WeeksInv
<1> SUFFICES ASSUME Init PROVE WeeksInv
  OBVIOUS
<1>1. WorldTyped
  <2>1. today \in 0..MaxDay /\ clock \in 0..DayEnd /\ crashes \in 0..MaxCrashes
    BY PlanningAssumption DEF Init
  <2> QED BY <2>1 DEF Init, WorldTyped
<1>2. RowsTyped
  BY DEF Init, RowsTyped, RequestRow, RequestStatuses, NoAsk, BookingRowType, NoBooking
<1>3. HeldIds = {}
  BY DEF Init, HeldIds, Held, NoBooking
<1>4. TablesGood
  <2>1. \A r \in RequestIds : requests[r].state = "unused"
    BY DEF Init, NoAsk
  <2>2. \A i \in BookingIds : ~Held(i) /\ bookings[i] = NoBooking
    BY DEF Init, Held, NoBooking
  <2>3. RowsShape
    BY <2>1, <2>2 DEF RowsShape
  <2>4. GivenAsAsked
    BY <2>1 DEF GivenAsAsked
  <2> QED BY <1>2, <1>3, <2>3, <2>4 DEF TablesGood, RoomHeldOnce, AllocatedOnce
<1>5. JobsTyped /\ JobsShape
  <2>1. JobsTyped
    BY NoJobTyped DEF Init, JobsTyped, Places
  <2>2. Submitting = {}
    BY DEF Init, Submitting
  <2>3. Cardinality(Unused) >= Cardinality(Submitting)
    BY <1>2, <2>1, <2>2, SubmittingCounted, FS_EmptySet
  <2> QED BY <2>1, <2>3 DEF Init, JobsShape
<1>6. LockOwned /\ PlanFits
  BY DEF Init, LockOwned, PlanFits
<1>7. AllocatorSound
  <2>1. /\ input = NoInput /\ priority = 1 /\ rest = {} /\ assigned = <<>>
        /\ bandDay = NoInput.has /\ bandWeek = [b \in Bands |-> 0]
    BY DEF Init
  <2>2. /\ NoInput \in Allocator!Input /\ NoInput.asked = <<>> /\ NoInput.daily = 0
        /\ NoInput.has \in [Bands -> [Weekdays -> Nat]]
    BY NoInputTyped DEF NoInput
  <2>3. DOMAIN input.asked = {} /\ DOMAIN assigned = {}
    BY <2>1, <2>2
  <2> HIDE DEF NoInput
  <2>4. assigned \in [DOMAIN input.asked -> Allocator!Place \cup {None}]
    BY <2>1, <2>3
  <2>5. Allocator!TypeOK
    BY <2>1, <2>2, <2>4 DEF Allocator!TypeOK, Allocator!Order
  <2>6. Allocator!NoClash /\ Allocator!WithinWishes /\ Allocator!NobodyGains
    BY <2>3 DEF Allocator!NoClash, Allocator!WithinWishes, Allocator!NobodyGains, Allocator!Order
  <2>7. Allocator!DailyKept
    BY <2>3 DEF Allocator!DailyKept, Allocator!Order
  <2> QED BY <2>5, <2>6, <2>7 DEF AllocatorSound, Allocator!PlanInv
<1> QED BY <1>1, <1>4, <1>5, <1>6, <1>7, WholeParts
(***************************************************************************)
(* Whoever allocates, for any number of bands, requests, weeks and         *)
(* crashes: the room is held once, a request is served once and with what  *)
(* it asked for, and a plan in the making still fits the tables            *)
(* (WeeksInv).                                                             *)
(***************************************************************************)
THEOREM WeeksAreSafe == Spec => []WeeksInv
BY WeeksBegin, WeeksStep, PTL DEF Spec

-----------------------------------------------------------------------------
(* Nothing that has passed is handed out *)

(* The half hour after a time is after it.                                 *)
LEMMA NextHalfHour ==
  ASSUME NEW a \in Nat
  PROVE  (a \div STEP + 1) * STEP \in Nat /\ (a \div STEP + 1) * STEP > a
<1>1. STEP \in Nat \ {0}
  BY PlanningAssumption
<1>2. ASSUME NEW s \in Nat \ {0} PROVE (a \div s + 1) * s \in Nat /\ (a \div s + 1) * s > a
  <2> DEFINE q == a \div s
  <2>1. q \in Nat /\ a % s \in 0..(s - 1) /\ a = s * q + (a % s)
    OBVIOUS
  <2> HIDE DEF q
  <2>2. (q + 1) * s = s * q + s /\ s * q \in Nat
    BY <2>1
  <2> QED BY <2>1, <2>2 DEF q
<1> QED BY <1>1, <1>2

(* A place of the plan lies after the time at which the run began.         *)
LEMMA PlacesLieAhead ==
  ASSUME AllocatorSound, NEW p \in Procs, job[p] \in Job, job[p].week \in Weeks, RoomFits(p),
         NEW k \in Winners
  PROVE  LET b == BookingRow(p, k) IN
         b.day > job[p].at[1] \/ (b.day = job[p].at[1] /\ b.start > job[p].at[2])
<1> DEFINE week == job[p].week
           at == job[p].at
           a == assigned[k]
           gone == [start |-> 0, end |-> (at[2] \div STEP + 1) * STEP]
<1>1. Allocator!TypeOK /\ Allocator!NoClash /\ Allocator!WithinWishes
  BY DEF AllocatorSound, Allocator!PlanInv
<1>2. a \in Allocator!Place /\ k \in Allocator!Order /\ a # None
  BY <1>1 DEF Winners, Allocator!TypeOK
<1>3. /\ a.day \in Weekdays /\ a.start \in Nat /\ a.end \in Nat
  BY <1>2 DEF Allocator!Place
<1>4. a.day \notin input.closed /\ a.end > a.start
  <2>1. a.end = a.start + Allocator!Duration(k) /\ a.day \notin input.closed
    BY <1>1, <1>2 DEF Allocator!WithinWishes
  <2>2. input.asked \in Seq(Allocator!Asked) /\ k \in DOMAIN input.asked
    BY <1>1, <1>2 DEF Allocator!TypeOK, Allocator!Input, Allocator!Order
  <2>3. input.asked[k] \in Allocator!Asked
    BY <2>2
  <2>4. Allocator!Duration(k) \in Nat /\ Allocator!Duration(k) > 0
    BY <2>3 DEF Allocator!Duration, Allocator!Asked
  <2> QED BY <1>3, <2>1, <2>4
<1>5. \A c \in input.busy[a.day] : a.end <= c.start \/ a.start >= c.end
  BY <1>1, <1>2 DEF Allocator!NoClash, Allocator!Fits, Allocator!Apart
<1>6. at[1] \in Nat /\ at[2] \in Nat /\ week \in Nat /\ a.day \in Nat
  BY <1>3, PlanningAssumption DEF Job, Weeks, Weekdays
<1>7. ~(week + a.day < at[1])
  BY <1>3, <1>4 DEF RoomFits, PastDays
<1>8. week + a.day = at[1] => a.end <= 0 \/ a.start >= (at[2] \div STEP + 1) * STEP
  <2>1. week + a.day = at[1] => gone \in TimeGone(week, at)[a.day]
    BY <1>3 DEF TimeGone
  <2>2. TimeGone(week, at)[a.day] \subseteq input.busy[a.day]
    BY <1>3 DEF RoomFits
  <2>3. week + a.day = at[1] => gone \in input.busy[a.day]
    BY <2>1, <2>2
  <2> QED BY <1>5, <2>3
<1>9. (at[2] \div STEP + 1) * STEP \in Nat /\ (at[2] \div STEP + 1) * STEP > at[2]
  BY <1>6, NextHalfHour
<1>10. BookingRow(p, k).day = week + a.day /\ BookingRow(p, k).start = a.start
  BY DEF BookingRow
<1> DEFINE half == (at[2] \div STEP + 1) * STEP
<1> HIDE DEF week, at, a, half
<1>11. half \in Nat /\ half > at[2] /\ (week + a.day = at[1] => a.end <= 0 \/ a.start >= half)
  BY <1>8, <1>9 DEF half
<1>12. week + a.day > at[1] \/ (week + a.day = at[1] /\ a.start > at[2])
  BY <1>3, <1>4, <1>6, <1>7, <1>11
<1> QED BY <1>10, <1>12 DEF at

(* Who changes the bookings: a publication or a booking by hand.           *)
LEMMA BookingsChangedBy ==
  ASSUME [Next]_vars
  PROVE  UNCHANGED bookings \/ BookByHand \/ \E p \in Procs : Publish(p)
<1>1. CASE UNCHANGED vars
  BY <1>1 DEF vars, tables
<1>2. ASSUME NEW p \in Procs, Submit(p) \/ Delete(p) \/ AdminRuns(p) \/ SundayJob(p) \/ Boot(p)
      PROVE  UNCHANGED bookings
  BY <1>2 DEF Submit, Delete, AdminRuns, SundayJob, Boot, tables
<1>3. ASSUME NEW p \in Procs, Work(p), ~Publish(p)
      PROVE  UNCHANGED bookings
  BY <1>3 DEF Work, InsertRequest, DeleteRequest, ReadWeek, Allocate, Break, AlreadyPublished,
     CatchUp, Started, tables
<1>4. Crash \/ ChangeSettings \/ Tick => UNCHANGED bookings
  BY DEF Crash, ChangeSettings, Tick, tables
<1> QED BY <1>1, <1>2, <1>3, <1>4 DEF Next

(***************************************************************************)
(* However late a run is and whatever happens meanwhile, nothing that it   *)
(* books had passed when it started (NothingPast).                         *)
(***************************************************************************)
THEOREM NothingPassedIsBooked == Spec => NothingPast
<1>1. ASSUME WeeksInv, [Next]_vars, NEW p \in Procs, NEW i \in FreeIds,
             pc[p] = "allocating", lock' # p, Held(i)'
      PROVE  LET b == bookings'[i] IN
             b.day > job[p].at[1] \/ (b.day = job[p].at[1] /\ b.start > job[p].at[2])
  <2>1. /\ TablesGood /\ JobsTyped /\ JobsShape /\ LockOwned /\ PlanFits /\ AllocatorSound /\ RowsTyped
    BY <1>1, WholeParts DEF TablesGood
  <2>2. lock = p /\ lock # None /\ i \in BookingIds
    BY <1>1, <2>1, PlanningAssumption DEF LockOwned, FreeIds
  <2>3. ~BookByHand
    BY <2>2 DEF BookByHand
  <2>4. bookings' # bookings
    BY <1>1 DEF Held, FreeIds, HeldIds
  <2>5. Publish(p)
    <3>1. PICK q \in Procs : Publish(q)
      BY <1>1, <2>3, <2>4, BookingsChangedBy
    <3>2. q = p
      BY <2>1, <2>2, <3>1 DEF Publish, LockOwned
    <3> QED BY <3>1, <3>2
  <2>6. job[p] \in Job /\ job[p].week \in Weeks /\ QueueFits(p) /\ RoomFits(p)
    BY <1>1, <2>1 DEF JobsTyped, JobsShape, PlanFits
  <2>7. /\ \A k \in Winners : bookings'[BookingFor(k)] = BookingRow(p, k)
        /\ \A j \in BookingIds : (\A k \in Winners : BookingFor(k) # j) => bookings'[j] = bookings[j]
    BY <2>1, <2>5, <2>6, Written
  <2>8. PICK k \in Winners : bookings'[i] = BookingRow(p, k)
    <3>1. bookings'[i] # bookings[i]
      BY <1>1, <2>2 DEF Held, FreeIds, HeldIds
    <3> QED BY <2>2, <2>7, <3>1
  <2> QED BY <2>1, <2>6, <2>8, PlacesLieAhead
<1>2. WeeksInv /\ [Next]_vars =>
        [\A p \in Procs : \A i \in FreeIds :
           pc[p] = "allocating" /\ lock' # p /\ Held(i)' =>
             LET b == bookings'[i] IN
             b.day > job[p].at[1] \/ (b.day = job[p].at[1] /\ b.start > job[p].at[2])]_vars
  BY <1>1
<1> QED BY <1>2, WeeksAreSafe, PTL DEF Spec, NothingPast

-----------------------------------------------------------------------------
(* The weekly limit *)

(* Who changes the requests.                                               *)
LEMMA RequestsChangedBy ==
  ASSUME [Next]_vars
  PROVE  UNCHANGED requests \/ \E p \in Procs : InsertRequest(p) \/ DeleteRequest(p) \/ Publish(p)
<1>1. CASE UNCHANGED vars
  BY <1>1 DEF vars, tables
<1>2. ASSUME NEW p \in Procs, Submit(p) \/ Delete(p) \/ AdminRuns(p) \/ SundayJob(p) \/ Boot(p)
      PROVE  UNCHANGED requests
  BY <1>2 DEF Submit, Delete, AdminRuns, SundayJob, Boot, tables
<1>3. ASSUME NEW p \in Procs, Work(p), ~(InsertRequest(p) \/ DeleteRequest(p) \/ Publish(p))
      PROVE  UNCHANGED requests
  BY <1>3 DEF Work, ReadWeek, Allocate, Break, AlreadyPublished, CatchUp, Started, tables
<1>4. Crash \/ BookByHand \/ ChangeSettings \/ Tick => UNCHANGED requests
  BY DEF Crash, BookByHand, ChangeSettings, Tick, tables
<1> QED BY <1>1, <1>2, <1>3, <1>4 DEF Next

(* A request that is inserted adds its length to what its band waits for.  *)
LEMMA InsertAdds ==
  ASSUME TablesGood, JobsTyped, JobsShape, NEW p \in Procs, InsertRequest(p), Unused # {},
         NEW band, NEW week, band = job[p].what.band, week = job[p].week
  PROVE  /\ PendingMinutes(band, week)' = PendingMinutes(band, week) + job[p].what.duration
         /\ PendingMinutes(band, week) \in Nat
<1>1. RowsTyped /\ RowsShape
  BY DEF TablesGood
<1> DEFINE u == Min(Unused)
           own == {r \in PendingOf(week) : requests[r].what.band = band}
           f == [r \in own |-> requests[r].what.duration]
           x == [state |-> "pending", week |-> job[p].week, what |-> job[p].what, booking |-> None]
<1>2. u \in Unused /\ u \in RequestIds /\ u \notin own
  <2>1. Unused \in SUBSET Nat
    BY PlanningAssumption DEF Unused
  <2>2. u \in Unused
    BY <2>1, LeastIsMember
  <2> QED BY <2>2 DEF Unused, PendingOf
<1>3. \A r \in RequestIds : requests'[r] = IF r = u THEN x ELSE requests[r]
  BY <1>1, <1>2 DEF InsertRequest, RowsTyped
<1>4. /\ x.state = "pending" /\ x.week = week /\ x.what.band = band /\ x.what.duration = job[p].what.duration
  OBVIOUS
<1> HIDE DEF u, x
<1> DEFINE ownNext == {r \in RequestIds : /\ requests'[r].state = "pending" /\ requests'[r].week = week
                                          /\ requests'[r].what.band = band}
           g == [r \in ownNext |-> requests'[r].what.duration]
<1>5. ownNext = own \cup {u}
  <2>1. own = {r \in RequestIds : /\ requests[r].state = "pending" /\ requests[r].week = week
                                  /\ requests[r].what.band = band}
    BY DEF PendingOf
  <2> QED BY <1>2, <1>3, <1>4, <2>1
<1>6. PendingMinutes(band, week)' = SumFunctionOnSet(g, ownNext)
  <2>1. {r \in PendingOf(week)' : requests'[r].what.band = band} = ownNext
    BY DEF PendingOf
  <2> QED BY <2>1 DEF PendingMinutes
<1>7. PendingMinutes(band, week) = SumFunctionOnSet(f, own)
  BY DEF PendingMinutes
<1>8. /\ IsFiniteSet(own) /\ PendingMinutes(band, week) \in Nat
      /\ \A r \in own : requests[r].what.duration \in Nat
  BY <1>1, DurationsNat
<1>9. job[p].what.duration \in Nat
  BY <1>1, DurationsNat DEF JobsShape, InsertRequest
<1>10. /\ \A r \in own : g[r] = f[r] /\ f[r] \in Nat
       /\ g[u] = job[p].what.duration /\ \A r \in own \cup {u} : g[r] \in Nat
  <2>1. \A r \in own : r # u /\ r \in ownNext /\ r \in RequestIds
    BY <1>2, <1>5 DEF PendingOf
  <2>2. u \in ownNext
    BY <1>5
  <2>3. \A r \in own : g[r] = requests[r].what.duration /\ f[r] = requests[r].what.duration
    BY <1>3, <2>1
  <2>4. g[u] = x.what.duration
    BY <1>2, <1>3, <2>2
  <2> QED BY <1>4, <1>8, <1>9, <2>3, <2>4
<1> HIDE DEF own, f, ownNext, g
<1>11. SumFunctionOnSet(g, own \cup {u}) = SumFunctionOnSet(g, own) + g[u]
  <2>1. IsFiniteSet(own) /\ u \notin own /\ \A r \in own \cup {u} : g[r] \in Nat
    BY <1>2, <1>8, <1>10
  <2> QED BY <2>1, SumAdd, Zenon
<1>12. SumFunctionOnSet(f, own) = SumFunctionOnSet(g, own)
  BY <1>8, <1>10, SumEqual
<1> QED BY <1>5, <1>6, <1>7, <1>8, <1>10, <1>11, <1>12

(***************************************************************************)
(* Nobody goes beyond the limit that they were compared with unless what   *)
(* their band waits for changed between the count and the insertion        *)
(* (OvershootIsRaced).                                                     *)
(***************************************************************************)
THEOREM OvershootTakesARace == Spec => OvershootIsRaced
<1>1. ASSUME WeeksInv, [Next]_vars, NEW p \in Procs,
             pc[p] = "submitting", requests' # requests, pc'[p] = "idle",
             NEW band \in {job[p].what.band}, NEW week \in {job[p].week}
      PROVE  PendingMinutes(band, week)' > job[p].limit => PendingMinutes(band, week) # job[p].counted
  <2>1. /\ TablesGood /\ JobsTyped /\ JobsShape /\ RowsTyped
    BY <1>1, WholeParts DEF TablesGood
  <2>2. InsertRequest(p)
    <3>1. PICK q \in Procs : InsertRequest(q) \/ DeleteRequest(q) \/ Publish(q)
      BY <1>1, RequestsChangedBy
    <3>2. CASE q = p
      BY <1>1, <3>1, <3>2 DEF DeleteRequest, Publish
    <3>3. CASE q # p
      <4>1. \E where : pc' = [pc EXCEPT ![q] = where]
        BY <3>1 DEF InsertRequest, DeleteRequest, Publish, Return, Idle
      <4>2. pc'[p] = pc[p]
        BY <2>1, <3>3, <4>1 DEF JobsTyped
      <4> QED BY <1>1, <4>2
    <3> QED BY <3>2, <3>3
  <2>3. Unused # {}
    <3>1. p \in Submitting
      BY <1>1 DEF Submitting
    <3>2. /\ IsFiniteSet(Submitting) /\ Cardinality(Submitting) \in Nat /\ Cardinality(Unused) \in Nat
          /\ Cardinality(Unused) >= Cardinality(Submitting)
      BY <2>1, SubmittingCounted DEF JobsShape
    <3>3. Cardinality(Submitting) # 0 /\ Cardinality({}) = 0
      BY <3>1, <3>2, FS_EmptySet
    <3> QED BY <3>2, <3>3
  <2>4. /\ PendingMinutes(band, week)' = PendingMinutes(band, week) + job[p].what.duration
        /\ PendingMinutes(band, week) \in Nat
    BY <2>1, <2>2, <2>3, InsertAdds
  <2>5. /\ job[p].counted + job[p].what.duration <= job[p].limit
        /\ job[p].counted \in Nat /\ job[p].limit \in Nat /\ job[p].what.duration \in Nat
    <3>1. job[p] \in Job /\ job[p].what \in RequestChoices
      BY <1>1, <2>1 DEF JobsTyped, JobsShape
    <3>2. job[p].what.duration \in Nat
      BY <3>1, PlanningAssumption DEF Allocator!Asked
    <3> QED BY <1>1, <2>1, <3>1, <3>2 DEF JobsShape, Job
  <2> DEFINE before == PendingMinutes(band, week)
             after == PendingMinutes(band, week)'
  <2> HIDE DEF before, after
  <2>6. after = before + job[p].what.duration /\ before \in Nat
    BY <2>4 DEF before, after
  <2>7. after > job[p].limit => before # job[p].counted
    BY <2>5, <2>6
  <2> QED BY <2>7 DEF before, after
<1>2. WeeksInv /\ [Next]_vars =>
        [\A p \in Procs : pc[p] = "submitting" /\ requests' # requests /\ pc'[p] = "idle" =>
           \A band \in {job[p].what.band}, week \in {job[p].week} :
             PendingMinutes(band, week)' > job[p].limit
               => PendingMinutes(band, week) # job[p].counted]_vars
  BY <1>1
<1> QED BY <1>2, WeeksAreSafe, PTL DEF Spec, OvershootIsRaced

-----------------------------------------------------------------------------
(* The calendar of the room *)

(* A booking that holds time keeps it.                                     *)
LEMMA HeldStays ==
  ASSUME WeeksInv, [Next]_vars
  PROVE  \A i \in HeldIds : bookings'[i] = bookings[i]
<1>1. /\ TablesGood /\ JobsTyped /\ JobsShape /\ PlanFits /\ AllocatorSound /\ RowsTyped
  BY WholeParts DEF TablesGood
<1>2. CASE BookByHand
  <2>1. PICK i \in FreeIds, b \in BookingRowType : bookings' = [bookings EXCEPT ![i] = b]
    BY <1>1, <1>2, ByHand
  <2> QED BY <1>1, <2>1 DEF FreeIds, RowsTyped, HeldIds
<1>3. ASSUME NEW p \in Procs, Publish(p)
      PROVE  \A i \in HeldIds : bookings'[i] = bookings[i]
  <2>1. job[p] \in Job /\ QueueFits(p)
    BY <1>1, <1>3 DEF JobsTyped, PlanFits, Publish
  <2>2. \A i \in BookingIds : (\A k \in Winners : BookingFor(k) # i) => bookings'[i] = bookings[i]
    BY <1>1, <1>3, <2>1, Written
  <2>3. \A k \in Winners : BookingFor(k) \notin HeldIds
    BY <1>1, <1>3, BookingsForWinners DEF Publish, FreeIds
  <2> QED BY <2>2, <2>3 DEF HeldIds
<1> QED BY <1>2, <1>3, BookingsChangedBy

(* Times of different days are apart, and those of one day as their clocks *)
(* say.                                                                    *)
LEMMA ClashesOfADay ==
  ASSUME NEW d \in Nat, NEW e \in Nat, NEW s \in 0..(DayEnd + 1), NEW t \in 0..(DayEnd + 1),
         NEW a \in 0..(DayEnd + 1), NEW b \in 0..(DayEnd + 1),
         d * (DayEnd + 2) + s < e * (DayEnd + 2) + b,
         e * (DayEnd + 2) + a < d * (DayEnd + 2) + t
  PROVE  d = e /\ s < b /\ a < t
<1> DEFINE n == DayEnd + 2
<1>1. n \in Nat /\ s < n /\ t < n /\ a < n /\ b < n /\ s \in Nat /\ t \in Nat /\ a \in Nat /\ b \in Nat
  BY PlanningAssumption
<1>2. d * n + s < e * n + b /\ e * n + a < d * n + t
  OBVIOUS
<1> HIDE DEF n
<1>3. d * n \in Nat /\ e * n \in Nat
  BY <1>1
<1>4. ~(d < e)
  <2> SUFFICES ASSUME d < e PROVE FALSE
    OBVIOUS
  <2>1. (d + 1) * n <= e * n /\ (d + 1) * n = d * n + n
    BY <1>1
  <2> QED BY <1>1, <1>2, <1>3, <2>1
<1>5. ~(e < d)
  <2> SUFFICES ASSUME e < d PROVE FALSE
    OBVIOUS
  <2>1. (e + 1) * n <= d * n /\ (e + 1) * n = e * n + n
    BY <1>1
  <2> QED BY <1>1, <1>2, <1>3, <2>1
<1>6. d = e
  BY <1>4, <1>5
<1> QED BY <1>1, <1>2, <1>3, <1>6

(* What the bookings hold in the calendar.                                 *)
LEMMA BookedShape ==
  ASSUME TablesGood
  PROVE  /\ Booked \in [BookingIds -> Slots \cup {None}]
         /\ \A i \in BookingIds : Booked[i] # None <=> Held(i)
         /\ \A i, j \in HeldIds : i # j => ~Calendar!Clash(Booked[i], Booked[j])
<1>1. RowsShape /\ RoomHeldOnce
  BY DEF TablesGood
<1>2. ASSUME NEW i \in HeldIds
      PROVE  /\ bookings[i].day \in 0..(MaxDay + 2 * WeekDays) /\ bookings[i].day \in Nat
             /\ bookings[i].start \in 0..(DayEnd + 1) /\ bookings[i].end \in 0..(DayEnd + 1)
             /\ bookings[i].start \in 0..DayEnd /\ bookings[i].end \in 1..(DayEnd + 1)
             /\ Booked[i] = At(bookings[i].day, bookings[i].start, bookings[i].end)
  <2>1. /\ bookings[i].day \in 0..(MaxDay + 2 * WeekDays)
        /\ bookings[i].start \in Nat /\ bookings[i].end \in 0..(DayEnd + 1)
        /\ bookings[i].start < bookings[i].end
    BY <1>1 DEF RowsShape, HeldIds
  <2>2. Booked[i] = At(bookings[i].day, bookings[i].start, bookings[i].end)
    BY DEF Booked, HeldIds
  <2> QED BY <2>1, <2>2, PlanningAssumption
<1>3. \A i \in HeldIds : Booked[i] \in Slots
  BY <1>2 DEF Slots
<1>4. \A x \in Slots : x \in Allocator!Interval
  <2>1. ASSUME NEW d \in 0..(MaxDay + 2 * WeekDays), NEW s \in 0..DayEnd, NEW e \in 1..(DayEnd + 1)
        PROVE  At(d, s, e) \in Allocator!Interval
    <3>1. d \in Nat /\ s \in Nat /\ e \in Nat /\ DayEnd + 2 \in Nat
      BY PlanningAssumption
    <3>2. d * (DayEnd + 2) \in Nat
      BY <3>1
    <3>3. d * (DayEnd + 2) + s \in Nat /\ d * (DayEnd + 2) + e \in Nat
      BY <3>1, <3>2
    <3> QED BY <3>3 DEF At, Allocator!Interval
  <2> QED BY <2>1 DEF Slots
<1>5. None \notin Slots
  BY <1>4, PlanningAssumption
<1>6. \A i \in BookingIds : ~Held(i) => Booked[i] = None
  BY DEF Booked
<1>7. \A i \in BookingIds : Booked[i] # None <=> Held(i)
  BY <1>3, <1>5, <1>6 DEF HeldIds
<1>8. Booked \in [BookingIds -> Slots \cup {None}]
  <2>1. Booked = [i \in BookingIds |-> Booked[i]]
    BY DEF Booked
  <2> HIDE DEF Booked
  <2> QED BY <1>3, <1>6, <2>1 DEF HeldIds
<1>9. ASSUME NEW i \in HeldIds, NEW j \in HeldIds, i # j
      PROVE  ~Calendar!Clash(Booked[i], Booked[j])
  <2> SUFFICES ASSUME Calendar!Clash(Booked[i], Booked[j]) PROVE FALSE
    OBVIOUS
  <2> DEFINE x == bookings[i]
             y == bookings[j]
  <2>1. /\ x.day * (DayEnd + 2) + x.start < y.day * (DayEnd + 2) + y.end
        /\ y.day * (DayEnd + 2) + y.start < x.day * (DayEnd + 2) + x.end
    <3>1. Booked[i].start < Booked[j].end /\ Booked[j].start < Booked[i].end
      BY DEF Calendar!Clash
    <3>2. Booked[i] = At(x.day, x.start, x.end) /\ Booked[j] = At(y.day, y.start, y.end)
      BY <1>2
    <3> HIDE DEF x, y
    <3>3. /\ Booked[i].start = x.day * (DayEnd + 2) + x.start /\ Booked[i].end = x.day * (DayEnd + 2) + x.end
          /\ Booked[j].start = y.day * (DayEnd + 2) + y.start /\ Booked[j].end = y.day * (DayEnd + 2) + y.end
      BY <3>2 DEF At
    <3> QED BY <3>1, <3>3
  <2>2. x.day = y.day /\ x.start < y.end /\ y.start < x.end
    <3>1. /\ x.day \in Nat /\ y.day \in Nat /\ x.start \in 0..(DayEnd + 1) /\ x.end \in 0..(DayEnd + 1)
          /\ y.start \in 0..(DayEnd + 1) /\ y.end \in 0..(DayEnd + 1)
      BY <1>2
    <3> HIDE DEF x, y
    <3> QED BY <2>1, <3>1, ClashesOfADay
  <2>3. Clash(x, y)
    BY <1>2, <2>2 DEF Clash
  <2> QED BY <1>1, <1>9, <2>3 DEF RoomHeldOnce
<1> QED BY <1>7, <1>8, <1>9

(***************************************************************************)
(* Every step of the planning is one of the calendar of a single room, in  *)
(* which a publication fills several slots at once (ImplementsCalendar).   *)
(***************************************************************************)
THEOREM PlanningImplementsCalendar == Spec => ImplementsCalendar
<1>1. Init => Calendar!Init
  BY DEF Init, Calendar!Init, Booked, Held, NoBooking
<1>2. ASSUME WeeksInv, WeeksInv', [Next]_vars PROVE Calendar!Fill
  <2>1. /\ TablesGood /\ TablesGood'
    BY <1>2, WholeParts, WholePartsNext
  <2>2. /\ Booked' \in [BookingIds -> Slots \cup {None}]
        /\ \A i \in BookingIds : Booked'[i] # None <=> Held(i)'
        /\ \A i, j \in HeldIds' : i # j => ~Calendar!Clash(Booked'[i], Booked'[j])
    <3>1. (/\ Booked \in [BookingIds -> Slots \cup {None}]
           /\ \A i \in BookingIds : Booked[i] # None <=> Held(i)
           /\ \A i, j \in HeldIds : i # j => ~Calendar!Clash(Booked[i], Booked[j]))'
      BY <2>1, BookedShape, PTL
    <3> QED BY <3>1
  <2>3. \A i \in BookingIds : Booked[i] # None <=> Held(i)
    BY <2>1, BookedShape
  <2>4. \A i \in HeldIds : Booked'[i] = Booked[i]
    <3>1. \A i \in HeldIds : bookings'[i] = bookings[i] /\ i \in BookingIds
      BY <1>2, HeldStays DEF HeldIds
    <3> QED BY <3>1 DEF Booked, Held
  <2>5. \A i \in BookingIds : Booked'[i] # Booked[i] =>
          /\ Booked[i] = None
          /\ \A j \in BookingIds \ {i} : Booked'[j] # None => ~Calendar!Clash(Booked'[i], Booked'[j])
    <3>1. \A i \in BookingIds : Booked'[i] # Booked[i] => Booked[i] = None /\ Booked'[i] # None
      BY <2>3, <2>4 DEF HeldIds
    <3>2. \A i \in BookingIds : Booked'[i] # None => i \in HeldIds'
      BY <2>2 DEF HeldIds
    <3> QED BY <2>2, <3>1, <3>2
  <2> QED BY <2>2, <2>5 DEF Calendar!Fill
<1>3. WeeksInv /\ WeeksInv' /\ [Next]_vars => [Calendar!Next]_Calendar!vars
  BY <1>2 DEF Calendar!Next
<1> QED BY <1>1, <1>3, WeeksAreSafe, PTL DEF Spec, ImplementsCalendar, Calendar!Spec

=============================================================================
