---------------------------- MODULE Backup_proofs ----------------------------
(***************************************************************************)
(* Proofs about Backup, for all sets of bookings, slots, bands and people  *)
(* and any number of failures: what holds of the database and of the pages *)
(* wherever a call fails or the program stops, that every change gets to   *)
(* the history page once and in order, and what restoring does.            *)
(***************************************************************************)
EXTENDS Backup, FiniteSetTheorems, NaturalsInduction, SequenceTheorems, TLAPS

-----------------------------------------------------------------------------
(* The inductive invariant                                                 *)

(* A database holds the room once and gives out ids that are free. *)
Holds(d, i) == d.bookings[i] # None /\ d.bookings[i].confirmed
HeldOnce(d) ==
  \A i, j \in BookingIds :
    Holds(d, i) /\ Holds(d, j) /\ i # j => ~Overlap(d.bookings[i].slot, d.bookings[j].slot)
IdsFree(d) == \A i \in BookingIds : d.bookings[i] # None => i <= d.last
Sound(d) == HeldOnce(d) /\ IdsFree(d) /\ d.synced \subseteq Elements(history)

(* Rows are marked only after they were appended. *)
MarksThere == pc = "marks" => Elements(held) \subseteq Elements(history)

(* What is on the history page and in the hands of the worker, if nothing   *)
(* has been uncertain.                                                       *)
Numbered(list) == \A k \in 1 .. Len(list) : list[k] = k
HistoryInOrder ==
  ~uncertain =>
    /\ Numbered(history)
    /\ pc # "marks" => db.synced = 1 .. Len(history)
    /\ pc = "appends" => \A k \in 1 .. Len(held) : held[k] = Len(history) + k
    /\ pc = "marks" =>
         \E n \in Nat : /\ Len(history) = n + Len(held) /\ db.synced = 1 .. n
                        /\ \A k \in 1 .. Len(held) : held[k] = n + k

Safe ==
  /\ TypeOK
  /\ Sound(db) /\ (dump # None => Sound(dump))
  /\ MarksThere /\ PageIsAsBelieved /\ HistoryInOrder

-----------------------------------------------------------------------------
(* Lists                                                                   *)

LEMMA ElementsOfConcat ==
  ASSUME NEW S, NEW s \in Seq(S), NEW t \in Seq(S)
  PROVE  s \o t \in Seq(S) /\ Elements(s \o t) = Elements(s) \cup Elements(t)
<1> DEFINE n == Len(s)
           m == Len(t)
           both == s \o t
<1>1. /\ both \in Seq(S) /\ Len(both) = n + m /\ n \in Nat /\ m \in Nat
      /\ \A i \in 1 .. (n + m) : both[i] = IF i <= n THEN s[i] ELSE t[i - n]
  BY ConcatProperties, LenProperties
<1>2. Elements(s) = {s[i] : i \in 1 .. n} /\ Elements(t) = {t[i] : i \in 1 .. m}
      /\ Elements(both) = {both[i] : i \in 1 .. (n + m)}
  BY <1>1 DEF Elements
<1> HIDE DEF n, m, both
<1>3. ASSUME NEW i \in 1 .. (n + m)
      PROVE  both[i] \in Elements(s) \cup Elements(t)
  <2>1. CASE i <= n
    BY <1>1, <1>2, <2>1
  <2>2. CASE ~(i <= n)
    <3>1. i - n \in 1 .. m
      BY <1>1, <2>2
    <3> QED BY <1>1, <1>2, <2>2, <3>1
  <2> QED BY <2>1, <2>2
<1>4. ASSUME NEW i \in 1 .. n
      PROVE  s[i] \in Elements(both)
  <2>1. i \in 1 .. (n + m) /\ both[i] = s[i]
    BY <1>1
  <2> QED BY <1>2, <2>1
<1>5. ASSUME NEW i \in 1 .. m
      PROVE  t[i] \in Elements(both)
  <2>1. i + n \in 1 .. (n + m) /\ both[i + n] = t[i]
    BY <1>1
  <2> QED BY <1>2, <2>1
<1>6. Elements(both) = Elements(s) \cup Elements(t)
  BY <1>2, <1>3, <1>4, <1>5
<1> QED BY <1>1, <1>6 DEF both

(* A function on 1 .. n is a list. *)
LEMMA ListOfFunction ==
  ASSUME NEW S, NEW n \in Nat, NEW f \in [1 .. n -> S]
  PROVE  f \in Seq(S) /\ Len(f) = n
<1>1. f \in Seq(S)
  BY SeqDef
<1> QED BY <1>1, LenProperties

(* What is left of an old page after the new lines is a list of its lines. *)
LEMMA OverFits ==
  ASSUME NEW S, NEW new \in Seq(S), NEW old \in Seq(S)
  PROVE  Over(new, old) \in Seq(S)
<1> DEFINE n == Len(new)
           m == Len(old)
           rest == SubSeq(old, n + 1, m)
<1>1. n \in Nat /\ m \in Nat /\ old \in [1 .. m -> S]
  BY LenProperties
<1>2. \A i \in (n + 1) .. m : old[i] \in S
  BY <1>1
<1>3. rest \in Seq(S)
  <2>1. n + 1 \in Int /\ m \in Int
    BY <1>1
  <2> HIDE DEF n, m
  <2> QED BY <1>2, <2>1, SubSeqProperties
<1>4. Over(new, old) = new \o rest
  BY DEF Over
<1> HIDE DEF rest
<1> QED BY <1>3, <1>4, ConcatProperties

-----------------------------------------------------------------------------
(* The database                                                            *)

LEMMA Ids ==
  /\ IsFiniteSet(BookingIds) /\ Cardinality(BookingIds) \in Nat
  /\ BookingIds = 1 .. Cardinality(BookingIds) /\ BookingIds \subseteq Nat /\ 0 \notin BookingIds
<1> DEFINE n == Cardinality(BookingIds)
<1>1. IsFiniteSet(BookingIds) /\ BookingIds = 1 .. n /\ n \in Nat
  BY BackupAssumption, FS_CardinalityType DEF BackupAssumption
<1> HIDE DEF n
<1>2. BookingIds \subseteq Nat /\ 0 \notin BookingIds
  BY <1>1
<1> QED BY <1>1, <1>2 DEF n

LEMMA Fields ==
  ASSUME NEW d \in Database
  PROVE  /\ d.bookings \in [BookingIds -> Booking \cup {None}] /\ d.last \in BookingIds \cup {0}
         /\ d.last \in Nat /\ d.known \subseteq Bands \cup People /\ d.made \in Nat /\ d.synced \subseteq Nat
         /\ \A i \in BookingIds : d.bookings[i] # None =>
              /\ d.bookings[i] \in Booking /\ d.bookings[i].slot \in Slots
              /\ d.bookings[i].band \in Bands \cup {None} /\ d.bookings[i].author \in People
              /\ d.bookings[i].confirmed \in BOOLEAN
<1>1. /\ d.bookings \in [BookingIds -> Booking \cup {None}] /\ d.last \in BookingIds \cup {0}
      /\ d.known \subseteq Bands \cup People /\ d.made \in Nat /\ d.synced \subseteq Nat
  BY DEF Database
<1>2. d.last \in Nat
  BY <1>1, Ids
<1>3. ASSUME NEW i \in BookingIds, d.bookings[i] # None
      PROVE  /\ d.bookings[i] \in Booking /\ d.bookings[i].slot \in Slots
             /\ d.bookings[i].band \in Bands \cup {None} /\ d.bookings[i].author \in People
             /\ d.bookings[i].confirmed \in BOOLEAN
  <2>1. d.bookings[i] \in Booking
    BY <1>1, <1>3
  <2> QED BY <2>1 DEF Booking
<1> QED BY <1>1, <1>2, <1>3

LEMMA SlotFacts ==
  ASSUME NEW s \in Slots
  PROVE  s.day \in Nat /\ s.start \in Nat /\ s.end \in Nat /\ s.start < s.end /\ Overlap(s, s)
<1>1. s.day \in Nat /\ s.start \in Nat /\ s.end \in Nat /\ s.start < s.end
  BY BackupAssumption DEF BackupAssumption
<1> QED BY <1>1 DEF Overlap

LEMMA OverlapBoth ==
  ASSUME NEW s \in Slots, NEW t \in Slots
  PROVE  Overlap(s, t) <=> Overlap(t, s)
BY SlotFacts DEF Overlap

LEMMA LineFacts ==
  ASSUME TypeOK, NEW i \in Stored
  PROVE  LineOf(i) \in Line
<1>1. db.bookings[i] # None /\ i \in BookingIds
  BY DEF Stored
<1>2. /\ db.bookings[i].slot \in Slots /\ db.bookings[i].band \in Bands \cup {None}
      /\ db.bookings[i].author \in People
  BY <1>1, Fields DEF TypeOK
<1> QED BY <1>1, <1>2 DEF LineOf, Line

(* What a page ought to hold fits on it. *)
LEMMA LinesFit ==
  ASSUME TypeOK, NEW lines \in LinesOf(page)
  PROVE  Fit(lines, page)
<1>1. CASE page = "schedule"
  <2>1. PICK ids \in [1 .. Cardinality(Shown) -> Shown] :
               lines = [k \in 1 .. Cardinality(Shown) |-> LineOf(ids[k])]
    BY <1>1 DEF LinesOf, ScheduleLines
  <2>2. Shown \subseteq Stored /\ Shown \subseteq BookingIds
    BY DEF Shown, Confirmed, Stored
  <2>3. Cardinality(Shown) \in Nat
    BY <2>2, Ids, FS_Subset, FS_CardinalityType
  <2> DEFINE n == Cardinality(Shown)
  <2>4. \A k \in 1 .. n : LineOf(ids[k]) \in Line
    BY <2>1, <2>2, LineFacts
  <2>5. lines \in [1 .. n -> Line]
    BY <2>1, <2>4
  <2> HIDE DEF n
  <2>6. lines \in Seq(Line)
    BY <2>3, <2>5, ListOfFunction DEF n
  <2> QED BY <1>1, <2>6 DEF Fit
<1>2. CASE page = "events"
  <2>1. lines = [k \in 1 .. concerts |-> k] /\ concerts \in Nat
    BY <1>2 DEF LinesOf, TypeOK
  <2>2. lines \in [1 .. concerts -> Nat]
    BY <2>1
  <2>3. lines \in Seq(Nat)
    BY <2>1, <2>2, ListOfFunction
  <2> QED BY <1>2, <2>3 DEF Fit
<1> QED BY <1>1, <1>2 DEF TypeOK, Pages

(* The rows that go out are numbers; and if the first L are marked and no   *)
(* other, the ones that follow.                                              *)
LEMMA PendingFacts ==
  ASSUME TypeOK, NEW rows \in Pending
  PROVE  /\ rows \in Seq(Nat)
         /\ \A L \in Nat : db.synced = 1 .. L => \A k \in 1 .. Len(rows) : rows[k] = L + k
<1> DEFINE n == BatchSize
<1>1. db.made \in Nat
  BY Fields DEF TypeOK
<1>2. Unsynced \subseteq 1 .. db.made
  BY DEF Unsynced
<1>3. n \in Nat
  <2>1. IsFiniteSet(1 .. db.made)
    BY <1>1, FS_Interval
  <2>2. Cardinality(Unsynced) \in Nat
    BY <1>2, <2>1, FS_Subset, FS_CardinalityType
  <2> QED BY <2>2, BackupAssumption DEF BackupAssumption, BatchSize
<1>4. /\ rows \in [1 .. n -> Unsynced]
      /\ \A j, k \in 1 .. n : j < k => rows[j] < rows[k]
      /\ \A r \in Unsynced : (\E k \in 1 .. n : rows[k] = r) \/ \A k \in 1 .. n : rows[k] < r
  BY DEF Pending
<1>5. Unsynced \subseteq Nat
  BY <1>1, <1>2
<1> HIDE DEF n
<1>6. rows \in [1 .. n -> Nat]
  BY <1>4, <1>5
<1>7. rows \in Seq(Nat) /\ Len(rows) = n
  BY <1>3, <1>6, ListOfFunction
<1>8. ASSUME NEW L \in Nat, db.synced = 1 .. L
      PROVE  \A k \in 1 .. n : rows[k] = L + k
  <2>1. \A r : r \in Unsynced <=> r \in Nat /\ L < r /\ r <= db.made
    BY <1>1, <1>8 DEF Unsynced
  <2> DEFINE W == {k \in 1 .. n : rows[k] # L + k}
  <2> SUFFICES ASSUME W # {} PROVE FALSE
    OBVIOUS
  <2>2. W \subseteq Nat
    BY <1>3
  <2>3. PICK k \in W : \A j \in W : ~(<<j, k>> \in OpToRel(<, Nat))
    BY <2>2, NatLessThanWellFounded, WFMin
  <2>4. k \in 1 .. n /\ rows[k] # L + k /\ k \in Nat /\ k >= 1
    BY <1>3
  <2>5. \A j \in 1 .. n : j < k => rows[j] = L + j
    <3> SUFFICES ASSUME NEW j \in 1 .. n, j < k, rows[j] # L + j PROVE FALSE
      OBVIOUS
    <3>1. j \in W /\ j \in Nat
      BY <1>3
    <3>2. <<j, k>> \in OpToRel(<, Nat)
      BY <2>4, <3>1 DEF OpToRel
    <3> QED BY <2>3, <3>1, <3>2
  <2> HIDE DEF W
  <2>6. rows[k] \in Nat /\ rows[k] \in Unsynced /\ L < rows[k] /\ rows[k] <= db.made
    BY <1>4, <2>1, <2>4
  <2>7. L + k <= rows[k]
    <3>1. CASE k = 1
      BY <2>6, <3>1
    <3>2. CASE k # 1
      <4>1. k - 1 \in 1 .. n /\ k - 1 < k
        BY <1>3, <2>4, <3>2
      <4>2. rows[k - 1] = L + (k - 1) /\ rows[k - 1] < rows[k]
        BY <1>4, <2>4, <2>5, <4>1
      <4> QED BY <2>4, <2>6, <4>2
    <3> QED BY <3>1, <3>2
  <2>8. L + k < rows[k] /\ L + k \in Unsynced
    BY <1>1, <2>1, <2>4, <2>6, <2>7
  <2>9. \A j \in 1 .. n : rows[j] # L + k
    <3> SUFFICES ASSUME NEW j \in 1 .. n, rows[j] = L + k PROVE FALSE
      OBVIOUS
    <3>1. j \in Nat
      BY <1>3
    <3>2. CASE j < k
      BY <2>4, <2>5, <3>1, <3>2
    <3>3. CASE j = k
      BY <2>4, <3>3
    <3>4. CASE k < j
      <4>1. rows[k] < rows[j]
        BY <1>4, <2>4, <3>4
      <4> QED BY <2>4, <2>6, <2>8, <4>1
    <3> QED BY <2>4, <3>1, <3>2, <3>3, <3>4
  <2>10. rows[k] < L + k
    BY <1>4, <2>4, <2>8, <2>9
  <2> QED BY <2>4, <2>6, <2>8, <2>10
<1> QED BY <1>7, <1>8

-----------------------------------------------------------------------------
(* Restoring                                                               *)

(* Some ids have a largest. *)
LEMMA LargestId ==
  ASSUME NEW X \in SUBSET BookingIds, X # {}
  PROVE  \E n \in X : \A m \in X : m <= n
<1> DEFINE N == Cardinality(BookingIds)
           Y == {x \in 0 .. N : N - x \in X}
<1>1. N \in Nat /\ BookingIds = 1 .. N
  BY Ids
<1> HIDE DEF N
<1>2. Y # {} /\ Y \subseteq Nat
  <2>1. PICK m \in X : TRUE
    OBVIOUS
  <2>2. m \in Nat /\ m <= N
    BY <1>1
  <2>3. N - m \in 0 .. N /\ N - (N - m) = m
    BY <1>1, <2>2
  <2>4. N - m \in Y
    BY <2>1, <2>3
  <2>5. 0 .. N \subseteq Nat
    BY <1>1
  <2>6. Y \subseteq 0 .. N
    OBVIOUS
  <2> HIDE DEF Y
  <2> QED BY <2>4, <2>5, <2>6
<1>3. PICK y \in Y : \A x \in Y : ~(<<x, y>> \in OpToRel(<, Nat))
  BY <1>2, NatLessThanWellFounded, WFMin
<1>4. \A x \in Y : y <= x
  <2> SUFFICES ASSUME NEW x \in Y PROVE y <= x
    OBVIOUS
  <2>1. x \in Nat /\ y \in Nat
    BY <1>2
  <2>2. ~(x < y)
    BY <1>3, <2>1 DEF OpToRel
  <2> QED BY <2>1, <2>2
<1>5. N - y \in X /\ y \in 0 .. N
  OBVIOUS
<1>6. ASSUME NEW m \in X
      PROVE  m <= N - y
  <2>1. m \in Nat /\ m <= N /\ N - m \in 0 .. N /\ N - (N - m) = m
    BY <1>1
  <2>2. N - m \in Y
    BY <2>1
  <2>3. y <= N - m
    BY <1>4, <2>2
  <2> QED BY <1>1, <1>5, <2>1, <2>3
<1> QED BY <1>5, <1>6

(* The counter is set behind every id that is there or restored. *)
LEMMA LastIdFacts ==
  ASSUME TypeOK, IdsFree(db), NEW keyed \in SUBSET BookingIds
  PROVE  /\ LastId(keyed) \in Nat
         /\ \A i \in keyed : i <= LastId(keyed)
         /\ \A i \in Stored : i <= LastId(keyed)
<1>1. Stored \subseteq BookingIds /\ \A i \in Stored : i <= db.last
  BY DEF Stored, IdsFree
<1>2. CASE keyed = {}
  BY <1>1, <1>2, Fields DEF LastId, TypeOK
<1>3. CASE keyed # {}
  <2> DEFINE X == Stored \cup keyed
  <2>1. X \in SUBSET BookingIds /\ X # {}
    BY <1>1, <1>3
  <2>2. \E n \in X : \A m \in X : m <= n
    BY <2>1, LargestId
  <2>3. LastId(keyed) = CHOOSE n \in X : \A m \in X : m <= n
    BY <1>3 DEF LastId
  <2> HIDE DEF X
  <2>4. LastId(keyed) \in X /\ \A m \in X : m <= LastId(keyed)
    BY <2>2, <2>3
  <2> QED BY <2>1, <2>4, Ids DEF X
<1> QED BY <1>2, <1>3

(* The lines without an id are counted through. *)
LEMMA Counting ==
  ASSUME NEW n \in Nat, NEW X \in SUBSET (1 .. n)
  PROVE  /\ Cardinality(X) \in Nat
         /\ \A k \in X : Cardinality({j \in X : j <= k}) \in 1 .. Cardinality(X)
         /\ \A j, k \in X : j < k => Cardinality({i \in X : i <= j}) < Cardinality({i \in X : i <= k})
<1> DEFINE upTo(k) == {i \in X : i <= k}
<1>1. IsFiniteSet(X) /\ Cardinality(X) \in Nat
  <2>1. 1 \in Int /\ n \in Int
    OBVIOUS
  <2>2. IsFiniteSet(1 .. n)
    BY <2>1, FS_Interval
  <2> QED BY <2>2, FS_Subset, FS_CardinalityType
<1>2. ASSUME NEW k \in X
      PROVE  /\ IsFiniteSet(upTo(k)) /\ Cardinality(upTo(k)) \in Nat
             /\ Cardinality(upTo(k)) <= Cardinality(X) /\ Cardinality(upTo(k)) # 0
  <2>1. upTo(k) \in SUBSET X /\ k \in upTo(k)
    OBVIOUS
  <2> HIDE DEF upTo
  <2> QED BY <1>1, <2>1, FS_Subset, FS_CardinalityType, FS_EmptySet
<1>3. ASSUME NEW j \in X, NEW k \in X, j < k
      PROVE  Cardinality(upTo(j)) < Cardinality(upTo(k))
  <2>1. upTo(j) \in SUBSET upTo(k) /\ upTo(j) # upTo(k)
    <3>1. k \in upTo(k) /\ k \notin upTo(j)
      BY <1>3
    <3>2. ASSUME NEW i \in upTo(j) PROVE i \in upTo(k)
      BY <1>3, <3>2
    <3> QED BY <3>1, <3>2
  <2>2. IsFiniteSet(upTo(k)) /\ Cardinality(upTo(k)) \in Nat /\ Cardinality(upTo(j)) \in Nat
    BY <1>2
  <2> HIDE DEF upTo
  <2>3. Cardinality(upTo(j)) <= Cardinality(upTo(k)) /\ Cardinality(upTo(j)) # Cardinality(upTo(k))
    BY <2>1, <2>2, FS_Subset
  <2> QED BY <2>2, <2>3
<1>4. \A k \in X : Cardinality(upTo(k)) \in 1 .. Cardinality(X)
  <2> SUFFICES ASSUME NEW k \in X PROVE Cardinality(upTo(k)) \in 1 .. Cardinality(X)
    OBVIOUS
  <2> DEFINE c == Cardinality(upTo(k))
             m == Cardinality(X)
  <2>1. c \in Nat /\ m \in Nat /\ c <= m /\ c # 0
    BY <1>1, <1>2
  <2> HIDE DEF c, m
  <2>2. c \in 1 .. m
    BY <2>1
  <2> QED BY <2>2 DEF c, m
<1> QED BY <1>1, <1>3, <1>4

(* What a step of restoring does: every line on the list becomes a booking  *)
(* of its own with an id that was free, and nothing else changes.           *)
Becomes(todo, idOf) ==
  /\ Todo(db, tool.lines, tool.now, todo)
  /\ \A j, k \in todo : idOf[j] = idOf[k] => j = k
  /\ \A k \in todo : db.bookings[idOf[k]] = None /\ db'.bookings[idOf[k]] = Restored(tool.lines[k])
  /\ \A i \in BookingIds : (\A k \in todo : idOf[k] # i) => db'.bookings[i] = db.bookings[i]
  /\ \A k \in todo : Restored(tool.lines[k]) \in Booking
  /\ \A k \in todo : tool.lines[k].id # None => idOf[k] = tool.lines[k].id
  /\ \A k \in todo : idOf[k] <= db'.last
  /\ \A i \in Stored : i <= db'.last
  /\ db'.synced = db.synced /\ db'.known = db.known

LEMMA RestoreFacts ==
  ASSUME Safe, Restore
  PROVE  /\ tool \in [lines : Seq(Line), now : 0 .. MaxDay]
         /\ db' \in Database
         /\ \E todo \in SUBSET Parsed(tool.lines) : \E idOf \in [todo -> BookingIds] : Becomes(todo, idOf)
<1> DEFINE lines == tool.lines
           size == Len(tool.lines)
<1>1. tool \in [lines : Seq(Line), now : 0 .. MaxDay]
  BY DEF Restore, Safe, TypeOK
<1>2. lines \in Seq(Line) /\ size \in Nat /\ \A k \in 1 .. size : lines[k] \in Line
  <2>1. lines \in Seq(Line)
    BY <1>1
  <2>2. \A k \in 1 .. size : lines[k] \in Line
    BY <2>1, ElementOfSeq
  <2> QED BY <2>1, <2>2, LenProperties
<1>3. Parsed(lines) \subseteq 1 .. size
  BY DEF Parsed
<1>4. db \in Database /\ IdsFree(db)
  BY DEF Safe, TypeOK, Sound
<1>5. PICK todo \in SUBSET Parsed(lines) :
       LET keyless == {k \in todo : lines[k].id = None}
           last == LastId({lines[k].id : k \in todo \ keyless})
           idOf == IdOf(todo, last)
       IN  /\ Todo(db, lines, tool.now, todo)
           /\ last + Cardinality(keyless) \in BookingIds \cup {0}
           /\ db' = [db EXCEPT
                       !.bookings = [i \in BookingIds |->
                                       IF \E k \in todo : idOf[k] = i
                                       THEN Restored(lines[CHOOSE k \in todo : idOf[k] = i]) ELSE @[i]],
                       !.last = last + Cardinality(keyless),
                       !.made = @ + Cardinality(todo)]
  BY DEF Restore
<1> DEFINE keyless == {k \in todo : lines[k].id = None}
           keyed == {lines[k].id : k \in todo \ keyless}
           last == LastId(keyed)
           n == Cardinality(keyless)
           idOf == IdOf(todo, last)
           rank(k) == Cardinality({j \in keyless : j <= k})
           after == [i \in BookingIds |->
                       IF \E k \in todo : idOf[k] = i
                       THEN Restored(lines[CHOOSE k \in todo : idOf[k] = i]) ELSE db.bookings[i]]
<1>6. Todo(db, lines, tool.now, todo) /\ last + n \in BookingIds \cup {0}
  BY <1>5
<1>7. db' = [db EXCEPT !.bookings = after, !.last = last + n, !.made = @ + Cardinality(todo)]
  BY <1>5
<1>8. keyed \in SUBSET BookingIds
  BY <1>2, <1>3 DEF Line
<1>9. last \in Nat /\ (\A i \in keyed : i <= last) /\ \A i \in Stored : i <= last
  BY <1>4, <1>8, LastIdFacts DEF Safe
<1>10. /\ n \in Nat /\ Cardinality(todo) \in Nat
       /\ \A k \in keyless : rank(k) \in 1 .. n
       /\ \A j, k \in keyless : j < k => rank(j) < rank(k)
  <2>1. keyless \in SUBSET (1 .. size) /\ todo \in SUBSET (1 .. size)
    BY <1>3
  <2>2. Cardinality(todo) \in Nat
    BY <1>2, <2>1, Counting
  <2>3. /\ Cardinality(keyless) \in Nat
        /\ \A k \in keyless : Cardinality({j \in keyless : j <= k}) \in 1 .. Cardinality(keyless)
        /\ \A j, k \in keyless : j < k => Cardinality({i \in keyless : i <= j}) < Cardinality({i \in keyless : i <= k})
    <3> HIDE DEF keyless
    <3> QED BY <1>2, <2>1, Counting
  <2> QED BY <2>2, <2>3
<1>11. \A k \in todo : idOf[k] = IF k \in keyless THEN last + rank(k) ELSE lines[k].id
  BY DEF IdOf
<1>12. DOMAIN idOf = todo /\ idOf = [k \in todo |-> idOf[k]]
  BY DEF IdOf
<1> HIDE DEF rank, idOf, last, n
<1>13. ASSUME NEW k \in keyless
       PROVE  idOf[k] \in BookingIds /\ last < idOf[k] /\ idOf[k] <= last + n
  <2>1. rank(k) \in 1 .. n /\ idOf[k] = last + rank(k)
    BY <1>10, <1>11, <1>13
  <2>2. last + n \in BookingIds
    BY <1>6, <1>9, <1>10, <2>1
  <2> QED BY <1>9, <1>10, <2>1, <2>2, Ids
<1>14. ASSUME NEW k \in todo \ keyless
       PROVE  /\ idOf[k] = lines[k].id /\ idOf[k] \in BookingIds /\ idOf[k] <= last
              /\ db.bookings[idOf[k]] = None
  <2>1. idOf[k] = lines[k].id /\ lines[k].id # None /\ idOf[k] \in keyed
    BY <1>11
  <2>2. Wanted(db, lines[k], tool.now)
    BY <1>6 DEF Todo
  <2> QED BY <1>8, <1>9, <2>1, <2>2 DEF Wanted
<1>15. \A k \in todo : idOf[k] \in BookingIds /\ db.bookings[idOf[k]] = None
  <2>1. ASSUME NEW k \in keyless
        PROVE  db.bookings[idOf[k]] = None
    <3>1. idOf[k] \in BookingIds /\ idOf[k] \in Nat /\ last < idOf[k]
      BY <1>13, <2>1, Ids
    <3>2. idOf[k] \notin Stored
      BY <1>9, <3>1
    <3> QED BY <3>1, <3>2 DEF Stored
  <2> QED BY <1>13, <1>14, <2>1
<1>16. ASSUME NEW j \in todo, NEW k \in todo, idOf[j] = idOf[k]
       PROVE  j = k
  <2>0. j \in Nat /\ k \in Nat /\ idOf[j] \in Nat /\ idOf[k] \in Nat
    BY <1>2, <1>3, <1>15, Ids
  <2>1. CASE j \in keyless /\ k \in keyless
    <3>1. rank(j) \in Nat /\ rank(k) \in Nat /\ last + rank(j) = last + rank(k)
      BY <1>10, <1>11, <1>16, <2>1
    <3>2. ~(j < k) /\ ~(k < j)
      BY <1>9, <1>10, <2>1, <3>1
    <3> QED BY <2>0, <3>2
  <2>2. CASE j \in keyless /\ k \notin keyless
    BY <1>9, <1>13, <1>14, <1>16, <2>0, <2>2
  <2>3. CASE j \notin keyless /\ k \in keyless
    BY <1>9, <1>13, <1>14, <1>16, <2>0, <2>3
  <2>4. CASE j \notin keyless /\ k \notin keyless
    <3>1. lines[j].id = lines[k].id /\ lines[k].id # None /\ lines[j].id # None
      BY <1>14, <1>16, <2>4
    <3>2. j \in Parsed(lines) /\ k \in Parsed(lines)
      OBVIOUS
    <3>3. ~(j < k)
      <4> SUFFICES ASSUME j < k PROVE FALSE
        OBVIOUS
      <4>1. j \in 1 .. (k - 1)
        BY <1>2, <1>3, <2>0, <3>2
      <4> QED BY <3>1, <3>2, <4>1 DEF Parsed
    <3>4. ~(k < j)
      <4> SUFFICES ASSUME k < j PROVE FALSE
        OBVIOUS
      <4>1. k \in 1 .. (j - 1)
        BY <1>2, <1>3, <2>0, <3>2
      <4> QED BY <3>1, <3>2, <4>1 DEF Parsed
    <3> QED BY <2>0, <3>3, <3>4
  <2> QED BY <2>1, <2>2, <2>3, <2>4
<1>17. /\ \A k \in todo : after[idOf[k]] = Restored(lines[k])
       /\ \A i \in BookingIds : (\A k \in todo : idOf[k] # i) => after[i] = db.bookings[i]
  <2>1. ASSUME NEW k \in todo
        PROVE  after[idOf[k]] = Restored(lines[k])
    <3>1. (CHOOSE j \in todo : idOf[j] = idOf[k]) = k
      BY <1>16
    <3>2. idOf[k] \in BookingIds
      BY <1>15
    <3> QED BY <3>1, <3>2
  <2> QED BY <2>1
<1>18. \A k \in todo : Restored(lines[k]) \in Booking
  <2> SUFFICES ASSUME NEW k \in todo PROVE Restored(lines[k]) \in Booking
    OBVIOUS
  <2>1. lines[k] \in Line
    BY <1>2, <1>3
  <2>2. lines[k].slot \in Slots /\ lines[k].band \in Bands \cup {None} /\ lines[k].author \in People
    BY <2>1 DEF Line
  <2>3. lines[k].band \in db.known \/ (lines[k].band = None /\ lines[k].author \in db.known)
    BY <1>6 DEF Todo, Wanted
  <2>4. None \notin db.known /\ db.known \subseteq Bands \cup People
    BY <1>4, Fields, BackupAssumption DEF BackupAssumption
  <2>5. lines[k].author \in db.known \/ lines[k].band \in Bands
    BY <2>2, <2>3, <2>4
  <2>6. lines[k].author \notin db.known => Responsible[lines[k].band] \in People
    BY <2>5, BackupAssumption DEF BackupAssumption
  <2> QED BY <2>2, <2>6 DEF Restored, Booking
<1>19. after \in [BookingIds -> Booking \cup {None}]
  <2> SUFFICES ASSUME NEW i \in BookingIds PROVE after[i] \in Booking \cup {None}
    OBVIOUS
  <2>1. CASE \E k \in todo : idOf[k] = i
    <3>1. PICK k \in todo : idOf[k] = i
      BY <2>1
    <3> QED BY <1>17, <1>18, <3>1
  <2>2. CASE \A k \in todo : idOf[k] # i
    <3>1. after[i] = db.bookings[i]
      BY <1>17, <2>2
    <3> QED BY <1>4, <3>1, Fields
  <2> QED BY <2>1, <2>2
<1> HIDE DEF after
<1>20. /\ db'.bookings = after /\ db'.last = last + n /\ db'.made = db.made + Cardinality(todo)
       /\ db'.synced = db.synced /\ db'.known = db.known
  BY <1>4, <1>7 DEF Database
<1>21. db' \in Database
  <2>1. db.made + Cardinality(todo) \in Nat
    BY <1>4, <1>10, Fields
  <2> QED BY <1>4, <1>6, <1>7, <1>19, <2>1 DEF Database
<1>22. \A k \in todo : idOf[k] <= last + n
  <2> SUFFICES ASSUME NEW k \in todo PROVE idOf[k] <= last + n
    OBVIOUS
  <2>1. CASE k \in keyless
    BY <1>13, <2>1
  <2>2. CASE k \notin keyless
    <3>1. idOf[k] \in Nat /\ idOf[k] <= last
      BY <1>14, <2>2, Ids
    <3> QED BY <1>9, <1>10, <3>1
  <2> QED BY <2>1, <2>2
<1>23. \A i \in Stored : i <= last + n
  <2> SUFFICES ASSUME NEW i \in Stored PROVE i <= last + n
    OBVIOUS
  <2>1. i \in Nat /\ i <= last
    BY <1>9, Ids DEF Stored
  <2> QED BY <1>9, <1>10, <2>1
<1>24. Becomes(todo, idOf)
  BY <1>6, <1>14, <1>15, <1>16, <1>17, <1>18, <1>20, <1>22, <1>23 DEF Becomes
<1>25. idOf \in [todo -> BookingIds]
  BY <1>12, <1>15
<1> QED BY <1>1, <1>21, <1>24, <1>25
-----------------------------------------------------------------------------
(* The invariant holds                                                     *)

LEMMA SafeInit == Init => Safe
<1> SUFFICES ASSUME Init PROVE Safe
  OBVIOUS
<1>1. /\ db = [bookings |-> [i \in BookingIds |-> None], last |-> 0, known |-> Founders, made |-> 0, synced |-> {}]
      /\ concerts = 0 /\ day = 0 /\ dump = None
      /\ sheet = [g \in Pages |-> <<>>] /\ history = <<>>
      /\ digest = [g \in Pages |-> None] /\ pc = "waits" /\ page = "schedule" /\ held = <<>>
      /\ tool = None /\ damaged = {} /\ uncertain = FALSE
  BY DEF Init
<1>2. db \in Database
  BY <1>1, BackupAssumption DEF BackupAssumption, Database
<1>3. history \in Seq(Nat) /\ Len(history) = 0 /\ \A g \in Pages : Fit(sheet[g], g)
  BY <1>1 DEF Fit
<1>4. TypeOK
  <2>1. DOMAIN sheet = Pages /\ DOMAIN digest = Pages /\ \A g \in Pages : digest[g] = None
    BY <1>1
  <2>2. 0 \in 0 .. MaxDay /\ "schedule" \in Pages /\ {} \subseteq Pages
    BY BackupAssumption DEF BackupAssumption, Pages
  <2> QED BY <1>1, <1>2, <1>3, <2>1, <2>2 DEF TypeOK
<1>5. Sound(db)
  BY <1>1 DEF Sound, HeldOnce, Holds, IdsFree
<1>6. HistoryInOrder
  BY <1>1, <1>3 DEF HistoryInOrder, Numbered
<1>7. MarksThere /\ PageIsAsBelieved
  BY <1>1 DEF MarksThere, PageIsAsBelieved
<1> QED BY <1>1, <1>4, <1>5, <1>6, <1>7 DEF Safe

(* A step that leaves the pages and the worker alone. *)
LEMMA Elsewhere ==
  ASSUME Safe, db' \in Database, HeldOnce(db'), IdsFree(db'), db'.synced = db.synced,
         concerts' \in Nat, day' \in 0 .. MaxDay, dump' \in {dump, db},
         tool' \in [lines : Seq(Line), now : 0 .. MaxDay] \cup {None}, UNCHANGED <<pages, worker>>
  PROVE  Safe'
<1>1. UNCHANGED <<sheet, history, damaged, uncertain, digest, pc, page, held>>
  BY DEF pages, worker
<1>2. TypeOK'
  BY <1>1 DEF Safe, TypeOK
<1>3. Sound(db)' /\ (dump # None => Sound(dump))'
  BY <1>1 DEF Safe, Sound
<1>4. MarksThere' /\ PageIsAsBelieved'
  BY <1>1 DEF Safe, MarksThere, PageIsAsBelieved
<1>5. HistoryInOrder'
  BY <1>1 DEF Safe, HistoryInOrder, Numbered
<1> QED BY <1>2, <1>3, <1>4, <1>5 DEF Safe

(* A step that only moves the worker, with something new in its hands. *)
LEMMA Safely ==
  ASSUME Safe
  PROVE  /\ TypeOK /\ MarksThere /\ PageIsAsBelieved /\ HistoryInOrder
         /\ db \in Database /\ HeldOnce(db) /\ IdsFree(db) /\ db.synced \subseteq Elements(history)
         /\ concerts \in Nat /\ day \in 0 .. MaxDay /\ dump \in Database \cup {None}
         /\ tool \in [lines : Seq(Line), now : 0 .. MaxDay] \cup {None}
         /\ history \in Seq(Nat) /\ page \in Pages
BY DEF Safe, TypeOK, Sound

LEMMA BookSafe == ASSUME Safe, Book PROVE Safe'
<1>1. PICK s \in Slots, h \in Holders :
        LET booking == [slot |-> s, band |-> h.band, author |-> h.author, confirmed |-> TRUE]
        IN  /\ FreeSlot(s)
            /\ db' = [db EXCEPT !.bookings[db.last + 1] = booking, !.last = @ + 1, !.made = @ + 1]
  BY DEF Book
<1> DEFINE booking == [slot |-> s, band |-> h.band, author |-> h.author, confirmed |-> TRUE]
           new == db.last + 1
<1>2. new \in BookingIds
  BY DEF Book
<1>3. booking \in Booking /\ booking.slot = s /\ booking.confirmed
  BY BackupAssumption DEF BackupAssumption, Booking
<1>4. db' = [db EXCEPT !.bookings[new] = booking, !.last = new, !.made = @ + 1]
  BY <1>1
<1>5. db \in Database /\ HeldOnce(db) /\ IdsFree(db) /\ db.last \in Nat /\ db.made \in Nat
  BY Safely, Fields
<1> HIDE DEF booking, new
<1>6. /\ db'.bookings = [db.bookings EXCEPT ![new] = booking] /\ db'.last = new
      /\ db'.synced = db.synced
  BY <1>4, <1>5 DEF Database
<1>7. db' \in Database
  <2>1. [db.bookings EXCEPT ![new] = booking] \in [BookingIds -> Booking \cup {None}]
    BY <1>3, <1>5, Fields
  <2>2. db.made + 1 \in Nat
    BY <1>5
  <2> QED BY <1>2, <1>4, <1>5, <2>1, <2>2 DEF Database
<1>8. /\ db'.bookings[new] = booking
      /\ \A i \in BookingIds \ {new} : db'.bookings[i] = db.bookings[i]
  BY <1>2, <1>5, <1>6, Fields
<1>9. ASSUME NEW i \in BookingIds, Holds(db, i)
      PROVE  ~Overlap(db.bookings[i].slot, s) /\ db.bookings[i].slot \in Slots
  <2>1. i \in Confirmed
    BY <1>9 DEF Holds, Confirmed, Stored
  <2> QED BY <1>1, <1>5, <1>9, <2>1, Fields DEF FreeSlot, Holds
<1>10. HeldOnce(db')
  <2> SUFFICES ASSUME NEW i \in BookingIds, NEW j \in BookingIds,
                      Holds(db', i), Holds(db', j), i # j
               PROVE  ~Overlap(db'.bookings[i].slot, db'.bookings[j].slot)
    BY DEF HeldOnce
  <2>1. CASE i = new
    <3>1. db'.bookings[j] = db.bookings[j] /\ Holds(db, j)
      BY <1>8, <2>1 DEF Holds
    <3> QED BY <1>3, <1>8, <1>9, <2>1, <3>1, OverlapBoth
  <2>2. CASE j = new
    <3>1. db'.bookings[i] = db.bookings[i] /\ Holds(db, i)
      BY <1>8, <2>2 DEF Holds
    <3> QED BY <1>3, <1>8, <1>9, <2>2, <3>1
  <2>3. CASE i # new /\ j # new
    BY <1>5, <1>8, <2>3 DEF HeldOnce, Holds
  <2> QED BY <2>1, <2>2, <2>3
<1>11. IdsFree(db')
  <2> SUFFICES ASSUME NEW i \in BookingIds, db'.bookings[i] # None
               PROVE  i <= new
    BY <1>6 DEF IdsFree
  <2>1. CASE i = new
    BY <1>2, <2>1, Ids
  <2>2. CASE i # new
    <3>1. i <= db.last /\ i \in Nat
      BY <1>5, <1>8, <2>2, Ids DEF IdsFree
    <3> QED BY <1>5, <3>1 DEF new
  <2> QED BY <2>1, <2>2
<1>12. /\ UNCHANGED <<concerts, day, dump, tool>> /\ UNCHANGED <<pages, worker>>
  BY DEF Book, Changes
<1> QED BY <1>6, <1>7, <1>10, <1>11, <1>12, Safely, Elsewhere

LEMMA CancelSafe == ASSUME Safe, Cancel PROVE Safe'
<1>1. PICK i \in Confirmed : db' = [db EXCEPT !.bookings[i].confirmed = FALSE, !.made = @ + 1]
  BY DEF Cancel
<1>2. i \in BookingIds /\ db.bookings[i] # None
  BY DEF Confirmed, Stored
<1>3. db \in Database /\ HeldOnce(db) /\ IdsFree(db) /\ db.made \in Nat /\ db.bookings[i] \in Booking
  BY <1>2, Safely, Fields
<1>4. [db.bookings[i] EXCEPT !.confirmed = FALSE] \in Booking
  BY <1>3 DEF Booking
<1> DEFINE booking == [db.bookings[i] EXCEPT !.confirmed = FALSE]
<1>5. db' = [db EXCEPT !.bookings[i] = booking, !.made = @ + 1]
  BY <1>1
<1>6. ~booking.confirmed
  BY <1>3 DEF Booking
<1> HIDE DEF booking
<1>7. /\ db'.bookings = [db.bookings EXCEPT ![i] = booking] /\ db'.last = db.last
      /\ db'.synced = db.synced
  BY <1>3, <1>5 DEF Database
<1>8. db' \in Database
  <2>1. [db.bookings EXCEPT ![i] = booking] \in [BookingIds -> Booking \cup {None}]
    BY <1>3, <1>4, Fields DEF booking
  <2>2. db.made + 1 \in Nat
    BY <1>3
  <2> QED BY <1>3, <1>5, <2>1, <2>2 DEF Database
<1>9. /\ db'.bookings[i] = booking
      /\ \A j \in BookingIds \ {i} : db'.bookings[j] = db.bookings[j]
  BY <1>2, <1>3, <1>7, Fields
<1>10. HeldOnce(db') /\ IdsFree(db')
  BY <1>2, <1>3, <1>6, <1>7, <1>9 DEF HeldOnce, Holds, IdsFree
<1>11. /\ UNCHANGED <<concerts, day, dump, tool>> /\ UNCHANGED <<pages, worker>>
  BY DEF Cancel, Changes
<1> QED BY <1>7, <1>8, <1>10, <1>11, Safely, Elsewhere

LEMMA RegisterSafe == ASSUME Safe, Register PROVE Safe'
<1>1. PICK x \in (Bands \cup People) \ db.known :
        db' = [db EXCEPT !.known = @ \cup {x} \cup (IF x \in Bands THEN {Responsible[x]} ELSE {})]
  BY DEF Register
<1> DEFINE known == db.known \cup {x} \cup (IF x \in Bands THEN {Responsible[x]} ELSE {})
<1>2. db \in Database /\ HeldOnce(db) /\ IdsFree(db)
  BY Safely
<1>3. known \subseteq Bands \cup People
  BY <1>2, Fields, BackupAssumption DEF BackupAssumption
<1>4. db' = [db EXCEPT !.known = known]
  BY <1>1
<1> HIDE DEF known
<1>5. db' \in Database /\ db'.bookings = db.bookings /\ db'.last = db.last /\ db'.synced = db.synced
  BY <1>2, <1>3, <1>4 DEF Database
<1>6. HeldOnce(db') /\ IdsFree(db')
  BY <1>2, <1>5 DEF HeldOnce, Holds, IdsFree
<1>7. /\ UNCHANGED <<concerts, day, dump, tool>> /\ UNCHANGED <<pages, worker>>
  BY DEF Register, Changes
<1> QED BY <1>5, <1>6, <1>7, Safely, Elsewhere

(* What is restored overlaps nothing that was there, and no two lines       *)
(* overlap each other.                                                       *)
LEMMA RestoreSafe == ASSUME Safe, Restore PROVE Safe'
<1>1. tool \in [lines : Seq(Line), now : 0 .. MaxDay] /\ db' \in Database
  BY RestoreFacts
<1>2. PICK todo \in SUBSET Parsed(tool.lines) : \E idOf \in [todo -> BookingIds] : Becomes(todo, idOf)
  BY RestoreFacts
<1>0. PICK idOf \in [todo -> BookingIds] : Becomes(todo, idOf)
  BY <1>2
<1>3. /\ Todo(db, tool.lines, tool.now, todo)
      /\ \A k \in todo : idOf[k] \in BookingIds /\ db'.bookings[idOf[k]] = Restored(tool.lines[k])
      /\ \A i \in BookingIds : (\A k \in todo : idOf[k] # i) => db'.bookings[i] = db.bookings[i]
      /\ \A k \in todo : idOf[k] <= db'.last
      /\ \A i \in Stored : i <= db'.last
      /\ db'.synced = db.synced
  BY <1>0 DEF Becomes
<1>4. \A k \in todo : k \in Nat /\ tool.lines[k] \in Line /\ tool.lines[k].slot \in Slots
  <2> SUFFICES ASSUME NEW k \in todo
               PROVE  k \in Nat /\ tool.lines[k] \in Line /\ tool.lines[k].slot \in Slots
    OBVIOUS
  <2>1. k \in 1 .. Len(tool.lines) /\ tool.lines \in Seq(Line)
    BY <1>1 DEF Parsed
  <2>2. Len(tool.lines) \in Nat
    BY <2>1, LenProperties
  <2>3. k \in Nat /\ tool.lines[k] \in Line
    BY <2>1, <2>2, ElementOfSeq
  <2> QED BY <2>3 DEF Line
<1>5. \A k \in todo : Restored(tool.lines[k]).slot = tool.lines[k].slot
  BY DEF Restored
<1>6. ASSUME NEW i \in BookingIds, NEW k \in todo, Holds(db, i)
      PROVE  /\ ~Overlap(tool.lines[k].slot, db.bookings[i].slot)
             /\ ~Overlap(db.bookings[i].slot, tool.lines[k].slot)
  <2>1. db.bookings[i].slot \in Slots
    BY <1>6, Safely, Fields DEF Holds
  <2>2. ~Taken(db, tool.lines[k].slot)
    BY <1>3 DEF Todo
  <2> QED BY <1>4, <1>6, <2>1, <2>2, OverlapBoth DEF Taken, Holds
<1>7. ASSUME NEW j \in todo, NEW k \in todo, j < k
      PROVE  /\ ~Overlap(tool.lines[k].slot, tool.lines[j].slot)
             /\ ~Overlap(tool.lines[j].slot, tool.lines[k].slot)
  <2>1. ~Overlap(tool.lines[k].slot, tool.lines[j].slot)
    BY <1>3, <1>7 DEF Todo
  <2> QED BY <1>4, <2>1, OverlapBoth
<1>8. HeldOnce(db')
  <2> SUFFICES ASSUME NEW i \in BookingIds, NEW j \in BookingIds,
                      Holds(db', i), Holds(db', j), i # j
               PROVE  ~Overlap(db'.bookings[i].slot, db'.bookings[j].slot)
    BY DEF HeldOnce
  <2>1. CASE (\A k \in todo : idOf[k] # i) /\ (\A k \in todo : idOf[k] # j)
    <3>1. db'.bookings[i] = db.bookings[i] /\ db'.bookings[j] = db.bookings[j]
      BY <1>3, <2>1
    <3> QED BY <3>1, Safely DEF HeldOnce, Holds
  <2>2. ASSUME NEW k \in todo, idOf[k] = i, \A m \in todo : idOf[m] # j
        PROVE  ~Overlap(db'.bookings[i].slot, db'.bookings[j].slot)
    <3>1. db'.bookings[i].slot = tool.lines[k].slot /\ db'.bookings[j] = db.bookings[j]
      BY <1>3, <1>5, <2>2
    <3> QED BY <1>6, <3>1 DEF Holds
  <2>3. ASSUME NEW k \in todo, idOf[k] = j, \A m \in todo : idOf[m] # i
        PROVE  ~Overlap(db'.bookings[i].slot, db'.bookings[j].slot)
    <3>1. db'.bookings[j].slot = tool.lines[k].slot /\ db'.bookings[i] = db.bookings[i]
      BY <1>3, <1>5, <2>3
    <3> QED BY <1>6, <3>1 DEF Holds
  <2>4. ASSUME NEW k \in todo, NEW m \in todo, idOf[k] = i, idOf[m] = j
        PROVE  ~Overlap(db'.bookings[i].slot, db'.bookings[j].slot)
    <3>1. db'.bookings[i].slot = tool.lines[k].slot /\ db'.bookings[j].slot = tool.lines[m].slot
      BY <1>3, <1>5, <2>4
    <3>2. k # m /\ k \in Nat /\ m \in Nat
      BY <1>4, <2>4
    <3>3. k < m \/ m < k
      BY <3>2
    <3> QED BY <1>7, <3>1, <3>3
  <2> QED BY <2>1, <2>2, <2>3, <2>4
<1>9. IdsFree(db')
  <2> SUFFICES ASSUME NEW i \in BookingIds, db'.bookings[i] # None
               PROVE  i <= db'.last
    BY DEF IdsFree
  <2>1. CASE \E k \in todo : idOf[k] = i
    BY <1>3, <2>1
  <2>2. CASE \A k \in todo : idOf[k] # i
    <3>1. i \in Stored
      BY <1>3, <2>2 DEF Stored
    <3> QED BY <1>3, <3>1
  <2> QED BY <2>1, <2>2
<1>10. UNCHANGED <<concerts, day, dump>> /\ UNCHANGED <<pages, worker>> /\ tool' = None
  BY DEF Restore
<1> QED BY <1>1, <1>3, <1>8, <1>9, <1>10, Safely, Elsewhere
-----------------------------------------------------------------------------
(* The worker                                                              *)

(* Where the worker goes it has nothing in its hands yet. *)
LEMMA GoesOn ==
  ASSUME NEW done \in {"waits", "schedule", "history", "events"}, page \in Pages, GoesOnAfter(done)
  PROVE  pc' \in {"waits", "reads", "history"} /\ page' \in Pages
BY DEF GoesOnAfter, StageAfter, Pages

(* A step of the worker that touches neither the pages nor the database, and *)
(* after which it has no rows in its hands, or just read them.               *)
LEMMA Moves ==
  ASSUME Safe, UNCHANGED <<Outside, pages, digest>>, page' \in Pages,
         pc \in {"stopped", "waits", "reads", "history"},
         \/ pc' \in {"stopped", "waits", "reads", "history"}
         \/ pc' = "writes" /\ Fit(held, page)'
         \/ pc' = "appends" /\ held' \in Pending
  PROVE  Safe'
<1>1. UNCHANGED <<db, concerts, day, dump, tool, sheet, history, damaged, uncertain, digest>>
  BY DEF Outside, pages
<1>2. pc' = "appends" => held' \in Seq(Nat)
  BY Safely, PendingFacts
<1>3. TypeOK'
  <2>1. (pc \in {"appends", "marks"} => held \in Seq(Nat))' /\ (pc \in {"writes", "clears"} => Fit(held, page))'
    BY <1>2
  <2>2. (pc \in {"stopped", "waits", "reads", "writes", "clears", "history", "appends", "marks"})'
    OBVIOUS
  <2> QED BY <1>1, <2>1, <2>2 DEF Safe, TypeOK
<1>4. Sound(db)' /\ (dump # None => Sound(dump))'
  BY <1>1 DEF Safe, Sound
<1>5. MarksThere' /\ PageIsAsBelieved'
  BY <1>1, Safely DEF MarksThere, PageIsAsBelieved
<1>6. HistoryInOrder'
  <2> SUFFICES ASSUME ~uncertain
               PROVE  /\ Numbered(history) /\ db.synced = 1 .. Len(history)
                      /\ pc' = "appends" => \A k \in 1 .. Len(held') : held'[k] = Len(history) + k
    BY <1>1 DEF HistoryInOrder, Numbered
  <2>1. Numbered(history) /\ db.synced = 1 .. Len(history) /\ Len(history) \in Nat
    BY Safely, LenProperties DEF HistoryInOrder
  <2> QED BY <2>1, Safely, PendingFacts
<1> QED BY <1>3, <1>4, <1>5, <1>6 DEF Safe

LEMMA StopSafe == ASSUME Safe, Stop PROVE Safe'
<1>1. /\ UNCHANGED <<db, concerts, day, dump, sheet, history, damaged, page, tool>>
      /\ pc' = "stopped" /\ digest' = [g \in Pages |-> None] /\ uncertain' = (uncertain \/ pc = "marks")
  BY DEF Stop
<1>2. uncertain' \in BOOLEAN /\ (~uncertain' => ~uncertain /\ pc # "marks")
  BY <1>1, Zenon DEF Safe, TypeOK
<1>3. TypeOK'
  <2>1. DOMAIN digest' = Pages /\ \A g \in Pages : digest'[g] = None
    BY <1>1
  <2> QED BY <1>1, <1>2, <2>1 DEF Safe, TypeOK
<1>4. Sound(db)' /\ (dump # None => Sound(dump))'
  BY <1>1 DEF Safe, Sound
<1>5. MarksThere' /\ PageIsAsBelieved'
  BY <1>1 DEF MarksThere, PageIsAsBelieved
<1>6. HistoryInOrder'
  BY <1>1, <1>2, Safely DEF HistoryInOrder, Numbered
<1> QED BY <1>3, <1>4, <1>5, <1>6 DEF Safe

(* The database is replaced by the dump: from now on rows may be twice on    *)
(* the page, but what the dump has marked is there.                          *)
LEMMA LoseSafe == ASSUME Safe, Lose PROVE Safe'
<1>1. /\ UNCHANGED <<concerts, day, sheet, history, damaged, digest, pc, page, held, tool>>
      /\ pc = "stopped" /\ dump # None /\ db' = dump /\ dump' = None /\ uncertain' = TRUE
  BY DEF Lose, worker
<1>2. TypeOK'
  BY <1>1 DEF Safe, TypeOK
<1>3. Sound(db)'
  BY <1>1 DEF Safe, Sound
<1> QED BY <1>1, <1>2, <1>3 DEF Safe, MarksThere, PageIsAsBelieved, HistoryInOrder

LEMMA ReadPageSafe == ASSUME Safe, ReadPage PROVE Safe'
<1>1. PICK lines \in LinesOf(page) :
        \/ lines = digest[page] /\ GoesOnAfter(page) /\ UNCHANGED held
        \/ lines # digest[page] /\ pc' = "writes" /\ held' = lines /\ UNCHANGED page
  BY DEF ReadPage
<1>2. UNCHANGED <<Outside, pages, digest>> /\ pc = "reads" /\ page \in Pages /\ TypeOK
  BY Safely DEF ReadPage
<1>3. CASE lines = digest[page] /\ GoesOnAfter(page)
  <2>1. page \in {"waits", "schedule", "history", "events"}
    BY <1>2 DEF Pages
  <2>2. pc' \in {"waits", "reads", "history"} /\ page' \in Pages
    BY <1>2, <1>3, <2>1, GoesOn
  <2> QED BY <1>2, <2>2, Moves
<1>4. CASE pc' = "writes" /\ held' = lines /\ UNCHANGED page
  <2>1. Fit(lines, page)
    BY <1>2, LinesFit
  <2>2. Fit(held, page)'
    BY <1>4, <2>1 DEF Fit
  <2> QED BY <1>2, <1>4, <2>2, Moves
<1> QED BY <1>1, <1>3, <1>4

LEMMA ReadHistorySafe == ASSUME Safe, ReadHistory PROVE Safe'
<1>1. UNCHANGED <<Outside, pages, digest>> /\ pc = "history" /\ page \in Pages
  BY Safely DEF ReadHistory
<1>2. CASE GoesOnAfter("history")
  <2>1. pc' \in {"waits", "reads", "history"} /\ page' \in Pages
    BY <1>1, <1>2, GoesOn
  <2> QED BY <1>1, <2>1, Moves
<1>3. CASE pc' = "appends" /\ held' \in Pending /\ UNCHANGED page
  BY <1>1, <1>3, Moves
<1> QED BY <1>2, <1>3 DEF ReadHistory

LEMMA WakeSafe == ASSUME Safe, Wake PROVE Safe'
<1>1. UNCHANGED <<Outside, pages, digest>> /\ pc = "waits" /\ page \in Pages /\ GoesOnAfter("waits")
  BY Safely DEF Wake
<1>2. pc' \in {"waits", "reads", "history"} /\ page' \in Pages
  BY <1>1, GoesOn
<1> QED BY <1>1, <1>2, Moves

LEMMA BeginSafe == ASSUME Safe, Begin PROVE Safe'
<1>1. UNCHANGED <<Outside, pages, digest>> /\ pc = "stopped" /\ pc' = "waits" /\ page \in Pages /\ page' = page
  BY Safely DEF Begin, Outside
<1> QED BY <1>1, Moves
(* A step that writes a page: the history and the database stay, and the     *)
(* worker has no rows of the history in its hands.                           *)
LEMMA Copies ==
  ASSUME Safe, UNCHANGED <<Outside, history, uncertain>>,
         pc \in {"writes", "clears"}, pc' \in {"clears", "waits", "reads", "history"}, page' \in Pages,
         \A g \in Pages : Fit(sheet'[g], g), DOMAIN sheet' = Pages,
         \A g \in Pages : digest'[g] = None \/ Fit(digest'[g], g), DOMAIN digest' = Pages,
         pc' = "clears" => Fit(held', page'), damaged' \subseteq Pages, PageIsAsBelieved'
  PROVE  Safe'
<1>1. UNCHANGED <<db, concerts, day, dump, tool, history, uncertain>>
  BY DEF Outside
<1>2. TypeOK'
  <2>1. \A g \in Pages : Fit(sheet[g], g)'
    BY DEF Fit
  <2>2. \A g \in Pages : (digest[g] = None \/ Fit(digest[g], g))'
    BY DEF Fit
  <2>3. (pc \in {"writes", "clears"} => Fit(held, page))' /\ (pc \in {"appends", "marks"} => held \in Seq(Nat))'
    BY DEF Fit
  <2>4. (pc \in {"stopped", "waits", "reads", "writes", "clears", "history", "appends", "marks"})'
    OBVIOUS
  <2> QED BY <1>1, <2>1, <2>2, <2>3, <2>4 DEF Safe, TypeOK
<1>3. Sound(db)' /\ (dump # None => Sound(dump))'
  BY <1>1 DEF Safe, Sound
<1>4. MarksThere'
  BY DEF MarksThere
<1>5. HistoryInOrder'
  BY <1>1, Safely DEF HistoryInOrder, Numbered
<1> QED BY <1>2, <1>3, <1>4, <1>5 DEF Safe

(* What is in the worker's hands can be written over the page it is for. *)
LEMMA Writing ==
  ASSUME Safe, pc \in {"writes", "clears"}
  PROVE  /\ page \in Pages /\ Fit(held, page) /\ Fit(Over(held, sheet[page]), page)
         /\ DOMAIN sheet = Pages /\ DOMAIN digest = Pages /\ damaged \subseteq Pages
         /\ \A g \in Pages : Fit(sheet[g], g) /\ (digest[g] = None \/ Fit(digest[g], g))
<1>1. /\ page \in Pages /\ Fit(held, page) /\ DOMAIN sheet = Pages /\ DOMAIN digest = Pages
      /\ damaged \subseteq Pages
      /\ \A g \in Pages : Fit(sheet[g], g) /\ (digest[g] = None \/ Fit(digest[g], g))
  BY DEF Safe, TypeOK
<1>2. Fit(sheet[page], page)
  BY <1>1
<1>3. Fit(Over(held, sheet[page]), page)
  <2>1. CASE page = "schedule"
    <3>1. held \in Seq(Line) /\ sheet[page] \in Seq(Line)
      BY <1>1, <1>2, <2>1 DEF Fit
    <3>2. Over(held, sheet[page]) \in Seq(Line)
      BY <3>1, OverFits
    <3> QED BY <2>1, <3>2 DEF Fit
  <2>2. CASE page # "schedule"
    <3>1. held \in Seq(Nat) /\ sheet[page] \in Seq(Nat)
      BY <1>1, <1>2, <2>2 DEF Fit
    <3>2. Over(held, sheet[page]) \in Seq(Nat)
      BY <3>1, OverFits
    <3> QED BY <2>2, <3>2 DEF Fit
  <2> QED BY <2>1, <2>2
<1> QED BY <1>1, <1>3

LEMMA WriteLinesSafe == ASSUME Safe, WriteLines PROVE Safe'
<1>1. /\ UNCHANGED <<Outside, history, uncertain, damaged, digest, page, held>> /\ pc = "writes" /\ pc' = "clears"
      /\ sheet' = [sheet EXCEPT ![page] = Over(held, sheet[page])]
  BY DEF WriteLines
<1> DEFINE written == Over(held, sheet[page])
<1>2. /\ page \in Pages /\ Fit(held, page) /\ Fit(written, page)
      /\ DOMAIN sheet = Pages /\ DOMAIN digest = Pages /\ damaged \subseteq Pages
      /\ \A g \in Pages : Fit(sheet[g], g) /\ (digest[g] = None \/ Fit(digest[g], g))
  BY <1>1, Writing
<1>3. sheet' = [sheet EXCEPT ![page] = written]
  BY <1>1
<1> HIDE DEF written
<1>4. DOMAIN sheet' = Pages /\ sheet'[page] = written /\ \A g \in Pages \ {page} : sheet'[g] = sheet[g]
  BY <1>2, <1>3
<1>5. \A g \in Pages : Fit(sheet'[g], g)
  BY <1>2, <1>4
<1>6. PageIsAsBelieved'
  BY <1>1, <1>4, Safely DEF PageIsAsBelieved
<1>7. UNCHANGED <<Outside, history, uncertain>>
  BY <1>1
<1>8. /\ \A g \in Pages : digest'[g] = None \/ Fit(digest'[g], g)
      /\ DOMAIN digest' = Pages /\ Fit(held', page') /\ damaged' \subseteq Pages /\ page' \in Pages
  BY <1>1, <1>2
<1> QED BY <1>1, <1>4, <1>5, <1>6, <1>7, <1>8, Copies

LEMMA ClearRestSafe == ASSUME Safe, ClearRest PROVE Safe'
<1>1. /\ UNCHANGED <<Outside, history, uncertain>> /\ pc = "clears" /\ GoesOnAfter(page)
      /\ sheet' = [sheet EXCEPT ![page] = held] /\ digest' = [digest EXCEPT ![page] = held]
      /\ damaged' = damaged \ {page}
  BY DEF ClearRest
<1>2. /\ page \in Pages /\ Fit(held, page)
      /\ DOMAIN sheet = Pages /\ DOMAIN digest = Pages /\ damaged \subseteq Pages
      /\ \A g \in Pages : Fit(sheet[g], g) /\ (digest[g] = None \/ Fit(digest[g], g))
  BY <1>1, Writing
<1>3. pc' \in {"waits", "reads", "history"} /\ page' \in Pages
  <2>1. page \in {"waits", "schedule", "history", "events"}
    BY <1>2 DEF Pages
  <2> QED BY <1>1, <1>2, <2>1, GoesOn
<1>4. /\ DOMAIN sheet' = Pages /\ sheet'[page] = held /\ \A g \in Pages \ {page} : sheet'[g] = sheet[g]
      /\ DOMAIN digest' = Pages /\ digest'[page] = held /\ \A g \in Pages \ {page} : digest'[g] = digest[g]
  BY <1>1, <1>2
<1>5. \A g \in Pages : Fit(sheet'[g], g) /\ (digest'[g] = None \/ Fit(digest'[g], g))
  BY <1>2, <1>4
<1>6. PageIsAsBelieved'
  <2>1. ASSUME NEW g \in Pages \ {page}, digest[g] # None, g \notin damaged
        PROVE  sheet[g] = digest[g]
    BY <2>1, Safely DEF PageIsAsBelieved
  <2> QED BY <1>1, <1>4, <2>1 DEF PageIsAsBelieved
<1>7. damaged' \subseteq Pages
  BY <1>1, <1>2
<1> QED BY <1>1, <1>3, <1>4, <1>5, <1>6, <1>7, Copies

(* A page that a failed call changed is damaged; as long as the first of the *)
(* two calls has changed nothing, the page is what it was.                   *)
LEMMA FailPageSafe == ASSUME Safe, FailPage PROVE Safe'
<1> DEFINE written == IF pc = "writes" THEN Over(held, sheet[page]) ELSE held
<1>1. /\ UNCHANGED <<Outside, history, uncertain, digest, page>> /\ pc \in {"writes", "clears"} /\ pc' = "waits"
      /\ sheet' \in {sheet, [sheet EXCEPT ![page] = written]}
      /\ damaged' = IF pc = "clears" \/ sheet' # sheet THEN damaged \cup {page} ELSE damaged
  BY DEF FailPage
<1>2. /\ page \in Pages /\ Fit(held, page) /\ Fit(written, page)
      /\ DOMAIN sheet = Pages /\ DOMAIN digest = Pages /\ damaged \subseteq Pages
      /\ \A g \in Pages : Fit(sheet[g], g) /\ (digest[g] = None \/ Fit(digest[g], g))
  BY <1>1, Writing
<1> HIDE DEF written
<1>3. DOMAIN sheet' = Pages /\ \A g \in Pages \ {page} : sheet'[g] = sheet[g]
  BY <1>1, <1>2
<1>4. \A g \in Pages : Fit(sheet'[g], g)
  BY <1>1, <1>2
<1>5. PageIsAsBelieved'
  <2> SUFFICES ASSUME NEW g \in Pages, digest[g] # None, g \notin damaged'
               PROVE  sheet'[g] = digest[g]
    BY <1>1 DEF PageIsAsBelieved
  <2>1. CASE g # page
    <3>1. g \notin damaged
      BY <1>1
    <3>2. sheet[g] = digest[g]
      BY <2>1, <3>1, Safely DEF PageIsAsBelieved
    <3> QED BY <1>3, <2>1, <3>2
  <2>2. CASE g = page
    <3>1. pc # "clears" /\ sheet' = sheet /\ g \notin damaged
      BY <1>1, <2>2
    <3> QED BY <3>1, Safely DEF PageIsAsBelieved
  <2> QED BY <2>1, <2>2
<1>6. UNCHANGED <<Outside, history, uncertain>>
  BY <1>1
<1>7. /\ \A g \in Pages : digest'[g] = None \/ Fit(digest'[g], g)
      /\ DOMAIN digest' = Pages /\ damaged' \subseteq Pages /\ page' \in Pages
  BY <1>1, <1>2
<1> QED BY <1>1, <1>3, <1>4, <1>5, <1>6, <1>7, Copies

(* The history page only grows, so that what was on it still is. *)
LEMMA AppendFacts ==
  ASSUME Safe, pc = "appends"
  PROVE  /\ held \in Seq(Nat) /\ history \o held \in Seq(Nat)
         /\ Elements(history) \subseteq Elements(history \o held)
         /\ Elements(held) \subseteq Elements(history \o held)
         /\ ~uncertain => /\ db.synced = 1 .. Len(history) /\ Numbered(history \o held)
                          /\ Len(history) \in Nat /\ Len(history \o held) = Len(history) + Len(held)
                          /\ \A k \in 1 .. Len(held) : held[k] = Len(history) + k
<1>1. held \in Seq(Nat) /\ history \in Seq(Nat)
  BY DEF Safe, TypeOK
<1>2. history \o held \in Seq(Nat) /\ Elements(history \o held) = Elements(history) \cup Elements(held)
  BY <1>1, ElementsOfConcat
<1>3. ASSUME ~uncertain
      PROVE  /\ db.synced = 1 .. Len(history) /\ Numbered(history \o held)
             /\ Len(history) \in Nat /\ Len(history \o held) = Len(history) + Len(held)
             /\ \A k \in 1 .. Len(held) : held[k] = Len(history) + k
  <2>1. /\ Numbered(history) /\ db.synced = 1 .. Len(history)
        /\ \A k \in 1 .. Len(held) : held[k] = Len(history) + k
    BY <1>3 DEF Safe, HistoryInOrder
  <2> DEFINE n == Len(history)
             m == Len(held)
             both == history \o held
  <2>2. /\ Len(both) = n + m /\ n \in Nat /\ m \in Nat
        /\ \A i \in 1 .. (n + m) : both[i] = IF i <= n THEN history[i] ELSE held[i - n]
    BY <1>1, ConcatProperties, LenProperties
  <2>3. (\A k \in 1 .. n : history[k] = k) /\ \A k \in 1 .. m : held[k] = n + k
    BY <2>1 DEF Numbered
  <2> HIDE DEF n, m, both
  <2>4. ASSUME NEW i \in 1 .. (n + m)
        PROVE  both[i] = i
    <3>1. CASE i <= n
      BY <2>2, <2>3, <3>1
    <3>2. CASE ~(i <= n)
      <4>1. i - n \in 1 .. m
        BY <2>2, <3>2
      <4>2. both[i] = n + (i - n)
        BY <2>2, <2>3, <3>2, <4>1
      <4> QED BY <2>2, <4>2
    <3> QED BY <3>1, <3>2
  <2>5. Numbered(both)
    BY <2>2, <2>4 DEF Numbered
  <2> QED BY <2>1, <2>2, <2>5 DEF both, n, m
<1> QED BY <1>1, <1>2, <1>3

LEMMA AppendRowsSafe == ASSUME Safe, AppendRows PROVE Safe'
<1>1. /\ UNCHANGED <<db, concerts, day, dump, tool, sheet, damaged, uncertain, digest, page, held>>
      /\ pc = "appends" /\ pc' = "marks" /\ history' = history \o held
  BY DEF AppendRows, Outside
<1>2. TypeOK'
  <2>1. history' \in Seq(Nat) /\ held' \in Seq(Nat)
    BY <1>1, AppendFacts
  <2> QED BY <1>1, <2>1 DEF Safe, TypeOK
<1>3. Sound(db)' /\ (dump # None => Sound(dump))'
  <2>1. Elements(history) \subseteq Elements(history')
    BY <1>1, AppendFacts
  <2> QED BY <1>1, <2>1 DEF Safe, Sound
<1>4. MarksThere' /\ PageIsAsBelieved'
  <2>1. MarksThere'
    <3>1. Elements(held) \subseteq Elements(history')
      BY <1>1, AppendFacts
    <3> QED BY <1>1, <3>1 DEF MarksThere, Elements
  <2>2. PageIsAsBelieved'
    BY <1>1, Safely DEF PageIsAsBelieved
  <2> QED BY <2>1, <2>2
<1>5. HistoryInOrder'
  <2> SUFFICES ASSUME ~uncertain
               PROVE  /\ Numbered(history')
                      /\ \E n \in Nat : /\ Len(history') = n + Len(held') /\ db'.synced = 1 .. n
                                        /\ \A k \in 1 .. Len(held') : held'[k] = n + k
    BY <1>1 DEF HistoryInOrder, Numbered
  <2> QED BY <1>1, AppendFacts
<1> QED BY <1>2, <1>3, <1>4, <1>5 DEF Safe

(* The rows that are marked now were appended before. *)
LEMMA MarkSafe == ASSUME Safe, Mark PROVE Safe'
<1> DEFINE synced == db.synced \cup Elements(held)
<1>1. /\ UNCHANGED <<concerts, day, dump, tool, sheet, history, damaged, uncertain, digest>>
      /\ pc = "marks" /\ GoesOnAfter("history") /\ page \in Pages
      /\ db' = [db EXCEPT !.synced = synced]
  BY Safely DEF Mark, pages
<1>2. pc' \in {"waits", "reads", "history"} /\ page' \in Pages
  BY <1>1, GoesOn
<1>3. db \in Database /\ synced \subseteq Elements(history) /\ history \in Seq(Nat)
  BY <1>1, Safely DEF MarksThere
<1>4. synced \subseteq Nat
  <2>1. \A k \in 1 .. Len(history) : history[k] \in Nat
    BY <1>3, ElementOfSeq
  <2> QED BY <1>3, <2>1 DEF Elements
<1>5. ASSUME ~uncertain
      PROVE  synced = 1 .. Len(history) /\ Numbered(history)
  <2>1. PICK n \in Nat : /\ Len(history) = n + Len(held) /\ db.synced = 1 .. n
                         /\ \A k \in 1 .. Len(held) : held[k] = n + k
    BY <1>1, <1>5 DEF Safe, HistoryInOrder
  <2>2. held \in Seq(Nat)
    BY <1>1 DEF Safe, TypeOK
  <2> DEFINE m == Len(held)
  <2>3. m \in Nat
    BY <2>2, LenProperties
  <2>4. Elements(held) = {held[k] : k \in 1 .. m} /\ Len(history) = n + m /\ \A k \in 1 .. m : held[k] = n + k
    BY <2>1 DEF Elements
  <2> HIDE DEF m
  <2>5. \A x : x \in Elements(held) <=> x \in (n + 1) .. (n + m)
    <3>1. ASSUME NEW x \in Elements(held) PROVE x \in (n + 1) .. (n + m)
      BY <2>3, <2>4
    <3>2. ASSUME NEW x \in (n + 1) .. (n + m) PROVE x \in Elements(held)
      <4>1. x - n \in 1 .. m /\ n + (x - n) = x
        BY <2>3
      <4> QED BY <2>4, <4>1
    <3> QED BY <3>1, <3>2
  <2>6. synced = 1 .. (n + m)
    <3>1. \A x : x \in 1 .. n \/ x \in (n + 1) .. (n + m) <=> x \in 1 .. (n + m)
      BY <2>3
    <3> QED BY <2>1, <2>5, <3>1
  <2>7. Numbered(history)
    BY <1>5 DEF Safe, HistoryInOrder
  <2> QED BY <2>4, <2>6, <2>7
<1> HIDE DEF synced
<1>6. /\ db' \in Database /\ db'.bookings = db.bookings /\ db'.last = db.last /\ db'.synced = synced
  BY <1>1, <1>3, <1>4 DEF Database
<1>7. TypeOK'
  <2>1. (pc \in {"writes", "clears"} => Fit(held, page))' /\ (pc \in {"appends", "marks"} => held \in Seq(Nat))'
    BY <1>2
  <2>2. (pc \in {"stopped", "waits", "reads", "writes", "clears", "history", "appends", "marks"})'
    BY <1>2
  <2> QED BY <1>1, <1>2, <1>6, <2>1, <2>2 DEF Safe, TypeOK
<1>8. Sound(db)' /\ (dump # None => Sound(dump))'
  <2>1. HeldOnce(db') /\ IdsFree(db')
    BY <1>6, Safely DEF HeldOnce, Holds, IdsFree
  <2> QED BY <1>1, <1>3, <1>6, <2>1 DEF Safe, Sound
<1>9. MarksThere' /\ PageIsAsBelieved'
  BY <1>1, <1>2, Safely DEF MarksThere, PageIsAsBelieved
<1>10. HistoryInOrder'
  BY <1>1, <1>2, <1>5, <1>6 DEF HistoryInOrder, Numbered
<1> QED BY <1>7, <1>8, <1>9, <1>10 DEF Safe

LEMMA FailHistorySafe == ASSUME Safe, FailHistory PROVE Safe'
<1>1. /\ UNCHANGED <<db, concerts, day, dump, tool, sheet, damaged, digest, page>>
      /\ pc \in {"appends", "marks"} /\ pc' = "waits"
      /\ history' \in (IF pc = "appends" THEN {history, history \o held} ELSE {history})
      /\ uncertain' = (uncertain \/ pc = "marks" \/ history' # history)
  BY DEF FailHistory, Outside
<1>2. history' \in Seq(Nat) /\ Elements(history) \subseteq Elements(history')
  <2>1. CASE history' = history
    BY <2>1, Safely
  <2>2. CASE pc = "appends" /\ history' = history \o held
    BY <2>2, AppendFacts
  <2> QED BY <1>1, <2>1, <2>2
<1>3. uncertain' \in BOOLEAN /\ (~uncertain' => ~uncertain /\ pc # "marks" /\ history' = history)
  BY <1>1, Zenon DEF Safe, TypeOK
<1>4. TypeOK'
  BY <1>1, <1>2, <1>3 DEF Safe, TypeOK
<1>5. Sound(db)' /\ (dump # None => Sound(dump))'
  BY <1>1, <1>2 DEF Safe, Sound
<1>6. MarksThere' /\ PageIsAsBelieved'
  BY <1>1, Safely DEF MarksThere, PageIsAsBelieved
<1>7. HistoryInOrder'
  BY <1>1, <1>3, Safely DEF HistoryInOrder, Numbered
<1> QED BY <1>4, <1>5, <1>6, <1>7 DEF Safe
-----------------------------------------------------------------------------
(* The theorems                                                            *)

LEMMA SafeStep == Safe /\ [Next]_vars => Safe'
<1> SUFFICES ASSUME Safe, [Next]_vars PROVE Safe'
  OBVIOUS
<1>1. CASE Book
  BY <1>1, BookSafe
<1>2. CASE Cancel
  BY <1>2, CancelSafe
<1>3. CASE ChangeConcerts
  <2>1. concerts' \in Nat /\ UNCHANGED <<db, day, dump, tool>> /\ UNCHANGED <<pages, worker>>
    BY <1>3, Safely DEF ChangeConcerts, Changes
  <2> QED BY <2>1, Safely, Elsewhere
<1>4. CASE Register
  BY <1>4, RegisterSafe
<1>5. CASE NextDay
  <2>1. day' \in 0 .. MaxDay /\ UNCHANGED <<db, concerts, dump, tool>> /\ UNCHANGED <<pages, worker>>
    BY <1>5, Safely, BackupAssumption DEF NextDay, BackupAssumption
  <2> QED BY <2>1, Safely, Elsewhere
<1>6. CASE Dump
  <2>1. dump' = db /\ UNCHANGED <<db, concerts, day, tool>> /\ UNCHANGED <<pages, worker>>
    BY <1>6 DEF Dump
  <2> QED BY <2>1, Safely, Elsewhere
<1>7. CASE Stop
  BY <1>7, StopSafe
<1>8. CASE Begin
  BY <1>8, BeginSafe
<1>9. CASE Lose
  BY <1>9, LoseSafe
<1>10. CASE Round
  BY <1>10, WakeSafe, ReadPageSafe, WriteLinesSafe, ClearRestSafe, FailPageSafe, ReadHistorySafe,
     AppendRowsSafe, MarkSafe, FailHistorySafe DEF Round
<1>11. CASE ReadSheet
  <2>1. PICK added \in {<<>>} \cup {<<line>> : line \in AddedLines} :
          tool' = [lines |-> sheet["schedule"] \o added, now |-> day]
    BY <1>11 DEF ReadSheet
  <2>2. sheet["schedule"] \in Seq(Line)
    BY DEF Safe, TypeOK, Fit, Pages
  <2>3. added \in Seq(Line)
    <3>1. CASE added = <<>>
      BY <3>1
    <3>2. ASSUME NEW line \in AddedLines, added = <<line>>
          PROVE  added \in Seq(Line)
      <4>1. line \in Line
        BY BackupAssumption DEF BackupAssumption
      <4> QED BY <3>2, <4>1
    <3> QED BY <3>1, <3>2
  <2>4. sheet["schedule"] \o added \in Seq(Line)
    BY <2>2, <2>3, ConcatProperties
  <2>5. tool' \in [lines : Seq(Line), now : 0 .. MaxDay]
    BY <2>1, <2>4, Safely
  <2>6. UNCHANGED <<db, concerts, day, dump>> /\ UNCHANGED <<pages, worker>>
    BY <1>11 DEF ReadSheet
  <2> QED BY <2>5, <2>6, Safely, Elsewhere
<1>12. CASE Restore
  BY <1>12, RestoreSafe
<1>13. CASE UNCHANGED vars
  <2>1. UNCHANGED <<db, concerts, day, dump, tool>> /\ UNCHANGED <<pages, worker>>
    BY <1>13 DEF vars
  <2> QED BY <2>1, Safely, Elsewhere
<1> QED BY <1>1, <1>2, <1>3, <1>4, <1>5, <1>6, <1>7, <1>8, <1>9, <1>10, <1>11, <1>12, <1>13 DEF Next

(* The room is held once and the next id is free, whatever is restored from *)
(* whatever lines and whatever dump is put in place; nothing is marked as    *)
(* synced that is not on the page; and a page holds what the worker believes *)
(* unless a call for it failed: SheetsSyncService and restore_from_sheets,   *)
(* wherever a call fails or the program stops.                               *)
THEOREM BackupIsSound == Spec => []BackupInv
<1>1. Init => Safe
  BY SafeInit
<1>2. Safe /\ [Next]_vars => Safe'
  BY SafeStep
<1>3. Safe => BackupInv
  <2> SUFFICES ASSUME Safe PROVE BackupInv
    OBVIOUS
  <2>1. HeldOnce(db) /\ IdsFree(db) /\ db.synced \subseteq Elements(history) /\ TypeOK /\ PageIsAsBelieved
    BY Safely
  <2>2. RoomHeldOnce
    BY <2>1 DEF RoomHeldOnce, HeldOnce, Holds, Confirmed, Stored
  <2>3. IdsAreFree
    BY <2>1 DEF IdsAreFree, IdsFree, Stored
  <2> QED BY <2>1, <2>2, <2>3 DEF BackupInv, SyncedIsThere
<1> QED BY <1>1, <1>2, <1>3, PTL DEF Spec

(* Every change is on the history page once and in the order in which it was *)
(* made, unless a call failed or the program stopped between writing and     *)
(* marking, or the database was lost (SheetsSyncService._append_history).    *)
THEOREM HistoryIsWrittenOnce == Spec => []AppendedOnce
<1>1. Init => Safe
  BY SafeInit
<1>2. Safe /\ [Next]_vars => Safe'
  BY SafeStep
<1>3. Safe => AppendedOnce
  <2> SUFFICES ASSUME Safe, ~uncertain PROVE history = [k \in 1 .. Len(history) |-> k]
    BY DEF AppendedOnce
  <2>1. history \in Seq(Nat) /\ Numbered(history)
    BY Safely DEF HistoryInOrder
  <2>2. history \in [1 .. Len(history) -> Nat]
    BY <2>1, LenProperties
  <2> QED BY <2>1, <2>2 DEF Numbered
<1> QED BY <1>1, <1>2, <1>3, PTL DEF Spec

(* After restoring, no line is wanted that is not taken. *)
LEMMA NothingLeftToRestore ==
  ASSUME Safe, Restore
  PROVE  /\ \A i \in Stored : db'.bookings[i] = db.bookings[i]
         /\ Todo(db', tool.lines, tool.now, {})
         /\ \A k \in Parsed(tool.lines) :
              ~Wanted(db, tool.lines[k], tool.now) \/ Taken(db', tool.lines[k].slot)
<1> DEFINE lines == tool.lines
           now == tool.now
<1>1. tool \in [lines : Seq(Line), now : 0 .. MaxDay] /\ db' \in Database
  BY RestoreFacts
<1>2. PICK todo \in SUBSET Parsed(lines) : \E idOf \in [todo -> BookingIds] : Becomes(todo, idOf)
  BY RestoreFacts
<1>3. PICK idOf \in [todo -> BookingIds] : Becomes(todo, idOf)
  BY <1>2
<1>4. /\ Todo(db, lines, now, todo)
      /\ \A k \in todo : /\ idOf[k] \in BookingIds /\ db.bookings[idOf[k]] = None
                         /\ db'.bookings[idOf[k]] = Restored(lines[k]) /\ Restored(lines[k]) \in Booking
      /\ \A i \in BookingIds : (\A k \in todo : idOf[k] # i) => db'.bookings[i] = db.bookings[i]
      /\ \A k \in todo : lines[k].id # None => idOf[k] = lines[k].id
      /\ db'.known = db.known
  BY <1>3 DEF Becomes
<1>5. \A k \in Parsed(lines) : lines[k] \in Line /\ lines[k].slot \in Slots /\ lines[k].id \in BookingIds \cup {None}
  <2> SUFFICES ASSUME NEW k \in Parsed(lines)
               PROVE  lines[k] \in Line /\ lines[k].slot \in Slots /\ lines[k].id \in BookingIds \cup {None}
    OBVIOUS
  <2>1. k \in 1 .. Len(lines) /\ lines \in Seq(Line)
    BY <1>1 DEF Parsed
  <2>2. lines[k] \in Line
    BY <2>1, ElementOfSeq
  <2> QED BY <2>2 DEF Line
<1> HIDE DEF lines, now
<1>6. ASSUME NEW i \in Stored
      PROVE  db'.bookings[i] = db.bookings[i]
  BY <1>4 DEF Stored
<1>7. ASSUME NEW i \in BookingIds, db.bookings[i] # None
      PROVE  db'.bookings[i] = db.bookings[i]
  BY <1>6, <1>7 DEF Stored
<1>8. \A k \in todo : /\ db'.bookings[idOf[k]] # None /\ db'.bookings[idOf[k]].confirmed
                      /\ db'.bookings[idOf[k]].slot = lines[k].slot
  <2> SUFFICES ASSUME NEW k \in todo
               PROVE  /\ db'.bookings[idOf[k]] # None /\ db'.bookings[idOf[k]].confirmed
                      /\ db'.bookings[idOf[k]].slot = lines[k].slot
    OBVIOUS
  <2>1. db'.bookings[idOf[k]] = Restored(lines[k]) /\ idOf[k] \in BookingIds
    BY <1>4
  <2>2. Restored(lines[k]).confirmed /\ Restored(lines[k]).slot = lines[k].slot
    BY DEF Restored
  <2>3. Restored(lines[k]) \in Booking /\ None \notin Booking
    BY <1>4, BackupAssumption DEF BackupAssumption
  <2> QED BY <2>1, <2>2, <2>3
<1>9. ASSUME NEW k \in Parsed(lines), Wanted(db, lines[k], now)
      PROVE  Taken(db', lines[k].slot)
  <2>0. lines[k].slot \in Slots
    BY <1>5
  <2>1. CASE Taken(db, lines[k].slot)
    <3>1. PICK i \in BookingIds : /\ db.bookings[i] # None /\ db.bookings[i].confirmed
                                  /\ Overlap(lines[k].slot, db.bookings[i].slot)
      BY <2>1 DEF Taken
    <3>2. db'.bookings[i] = db.bookings[i]
      BY <1>7, <3>1
    <3> QED BY <3>1, <3>2 DEF Taken
  <2>2. CASE k \in todo
    <3>1. idOf[k] \in BookingIds /\ Overlap(lines[k].slot, lines[k].slot)
      BY <1>4, <2>0, <2>2, SlotFacts
    <3> QED BY <1>8, <2>2, <3>1 DEF Taken
  <2>3. CASE ~Taken(db, lines[k].slot) /\ k \notin todo
    <3>1. PICK j \in todo : j < k /\ Overlap(lines[k].slot, lines[j].slot)
      BY <1>4, <1>9, <2>3 DEF Todo
    <3>2. idOf[j] \in BookingIds
      BY <1>4
    <3> QED BY <1>8, <3>1, <3>2 DEF Taken
  <2> QED BY <2>1, <2>2, <2>3
<1>10. Todo(db', lines, now, {})
  <2> SUFFICES ASSUME NEW k \in Parsed(lines)
               PROVE  ~Wanted(db', lines[k], now) \/ Taken(db', lines[k].slot)
    BY DEF Todo
  <2>1. CASE Wanted(db, lines[k], now)
    BY <1>9, <2>1
  <2>2. CASE ~Wanted(db, lines[k], now)
    <3>1. lines[k].id # None => lines[k].id \in BookingIds
      BY <1>5
    <3>2. db'.bookings[lines[k].id] = None /\ lines[k].id # None => db.bookings[lines[k].id] = None
      BY <1>7, <3>1
    <3> QED BY <1>4, <2>2, <3>2 DEF Wanted
  <2> QED BY <2>1, <2>2
<1> QED BY <1>6, <1>9, <1>10 DEF lines, now

(* Restoring changes no booking that is there, leaves out no line but for a  *)
(* reason it reports, and finds nothing to do when it is run again           *)
(* (plan_restore and apply_plan of restore_from_sheets).                     *)
THEOREM RestoringIsSafe == Spec => RestoringOnlyAdds
<1>1. Init => Safe
  BY SafeInit
<1>2. Safe /\ [Next]_vars => Safe'
  BY SafeStep
<1> DEFINE Adds ==
      tool # None /\ tool' = None =>
        /\ \A i \in Stored : db'.bookings[i] = db.bookings[i]
        /\ Todo(db', tool.lines, tool.now, {})
        /\ \A k \in Parsed(tool.lines) :
             ~Wanted(db, tool.lines[k], tool.now) \/ Taken(db', tool.lines[k].slot)
<1>3. Safe /\ [Next]_vars => [Adds]_vars
  <2> SUFFICES ASSUME Safe, [Next]_vars, tool # None, tool' = None PROVE Adds
    OBVIOUS
  <2>1. CASE Restore
    BY <2>1, NothingLeftToRestore
  <2>2. CASE ~Restore
    <3>1. UNCHANGED tool \/ ReadSheet
      BY <2>2 DEF Next, vars, Book, Cancel, ChangeConcerts, Register, Changes, NextDay, Dump, Stop, Begin, Lose,
         Round, Wake, ReadPage, WriteLines, ClearRest, FailPage, ReadHistory, AppendRows, Mark, FailHistory, Outside
    <3>2. ~ReadSheet
      BY DEF ReadSheet
    <3> QED BY <3>1, <3>2
  <2> QED BY <2>1, <2>2
<1> QED BY <1>1, <1>2, <1>3, PTL DEF Spec, RestoringOnlyAdds, Adds

==============================================================================
