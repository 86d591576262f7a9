---------------------------- MODULE Outbox_proofs ----------------------------
(***************************************************************************)
(* Proofs about Outbox, for all sets of sessions and events and all kinds  *)
(* and numbers of failures: its types, that a committed event is never     *)
(* lost, and that it implements Courier.                                   *)
(***************************************************************************)
EXTENDS Outbox, FiniteSetTheorems, SequenceTheorems, TLAPS

(* The inductive invariant. *)
Safe == TypeOK /\ SafeDelivery

OnWay == ElementsOf(queue) \cup ElementsOf(processing)

-----------------------------------------------------------------------------
(* Lists *)

(* A set in its order is a list of exactly its elements. *)
LEMMA InOrderElements ==
  ASSUME NEW es \in SUBSET Events, NEW s \in InOrder(es)
  PROVE  s \in Seq(Events) /\ ElementsOf(s) = es
<1>1. IsFiniteSet(es)
  BY FS_Subset, OutboxAssumption DEF OutboxAssumption
<1> DEFINE n == Cardinality(es)
<1>2. n \in Nat
  BY <1>1, FS_CardinalityType
<1>3. s \in [1..n -> es] /\ {s[i] : i \in 1..n} = es
  BY DEF InOrder
<1> HIDE DEF n
<1>4. s \in Seq(Events)
  BY <1>2, <1>3, SeqDef
<1>5. Len(s) = n
  BY <1>2, <1>3, <1>4, LenProperties
<1> QED BY <1>3, <1>4, <1>5 DEF ElementsOf

(* Two lists one after the other have the elements of both. *)
LEMMA ElementsOfConcat ==
  ASSUME NEW s \in Seq(Events), NEW t \in Seq(Events)
  PROVE  s \o t \in Seq(Events) /\ ElementsOf(s \o t) = ElementsOf(s) \cup ElementsOf(t)
<1>1. s \o t \in Seq(Events) /\ Len(s \o t) = Len(s) + Len(t)
  BY ConcatProperties
<1>2. \A i \in 1..(Len(s) + Len(t)) : (s \o t)[i] = IF i <= Len(s) THEN s[i] ELSE t[i - Len(s)]
  BY ConcatProperties
<1>3. Len(s) \in Nat /\ Len(t) \in Nat
  BY LenProperties
<1>4. ElementsOf(s \o t) \subseteq ElementsOf(s) \cup ElementsOf(t)
  <2> SUFFICES ASSUME NEW i \in 1..(Len(s) + Len(t))
               PROVE  (s \o t)[i] \in ElementsOf(s) \cup ElementsOf(t)
    BY <1>1 DEF ElementsOf
  <2>1. CASE i <= Len(s)
    BY <1>2, <1>3, <2>1 DEF ElementsOf
  <2>2. CASE i > Len(s)
    <3>1. i - Len(s) \in 1..Len(t)
      BY <1>3, <2>2
    <3> QED BY <1>2, <1>3, <2>2, <3>1 DEF ElementsOf
  <2> QED BY <1>3, <2>1, <2>2
<1>5. ElementsOf(s) \subseteq ElementsOf(s \o t)
  BY <1>1, <1>2, <1>3 DEF ElementsOf
<1>6. ElementsOf(t) \subseteq ElementsOf(s \o t)
  <2> SUFFICES ASSUME NEW j \in 1..Len(t)
               PROVE  t[j] \in ElementsOf(s \o t)
    BY DEF ElementsOf
  <2>1. j + Len(s) \in 1..(Len(s) + Len(t)) /\ ~(j + Len(s) <= Len(s)) /\ (j + Len(s)) - Len(s) = j
    BY <1>3
  <2>2. (s \o t)[j + Len(s)] = t[j]
    BY <1>2, <2>1
  <2> QED BY <1>1, <2>1, <2>2 DEF ElementsOf
<1> QED BY <1>1, <1>4, <1>5, <1>6

(* The elements of a list are its head and those of its tail. *)
LEMMA ElementsOfTail ==
  ASSUME NEW s \in Seq(Events), s # <<>>
  PROVE  /\ Head(s) \in Events /\ Tail(s) \in Seq(Events)
         /\ ElementsOf(s) = {Head(s)} \cup ElementsOf(Tail(s))
<1>1. /\ Len(s) \in Nat /\ Len(s) # 0
      /\ Tail(s) \in Seq(Events) /\ Len(Tail(s)) = Len(s) - 1
      /\ \A i \in 1..Len(Tail(s)) : Tail(s)[i] = s[i + 1]
      /\ Head(s) = s[1]
  BY HeadTailProperties, LenProperties, EmptySeq
<1>2. s \in [1..Len(s) -> Events]
  BY LenProperties
<1>3. Head(s) \in Events /\ Head(s) \in ElementsOf(s)
  BY <1>1, <1>2 DEF ElementsOf
<1>4. ElementsOf(Tail(s)) \subseteq ElementsOf(s)
  BY <1>1 DEF ElementsOf
<1>5. ASSUME NEW i \in 1..Len(s), i # 1
      PROVE  s[i] \in ElementsOf(Tail(s))
  <2>1. i - 1 \in 1..Len(Tail(s)) /\ (i - 1) + 1 = i
    BY <1>1, <1>5
  <2> QED BY <1>1, <2>1 DEF ElementsOf
<1> QED BY <1>1, <1>3, <1>4, <1>5 DEF ElementsOf

(* A list of one element. *)
LEMMA OneElement ==
  ASSUME NEW e \in Events
  PROVE  <<e>> \in Seq(Events) /\ Len(<<e>>) = 1 /\ <<e>>[1] = e /\ ElementsOf(<<e>>) = {e}
BY DEF ElementsOf

LEMMA NoElement == <<>> \in Seq(Events) /\ Len(<<>>) = 0 /\ ElementsOf(<<>>) = {}
BY DEF ElementsOf

LEMMA NoneOrOne ==
  ASSUME NEW n \in Nat, n <= 1
  PROVE  n = 0 \/ n = 1
OBVIOUS

(* A list that is not longer than one is empty or has one element. *)
LEMMA AtMostOne ==
  ASSUME NEW s \in Seq(Events), Len(s) <= 1
  PROVE  s = <<>> \/ \E e \in Events : s = <<e>>
<1>1. Len(s) \in Nat
  BY LenProperties
<1>2. CASE Len(s) = 0
  BY <1>2, EmptySeq
<1>3. CASE Len(s) = 1
  <2>1. s[1] \in Events
    BY <1>3, ElementOfSeq
  <2>2. s = <<s[1]>>
    BY <1>3, <2>1, OneElement, SeqEqual
  <2> QED BY <2>1, <2>2
<1>4. Len(s) = 0 \/ Len(s) = 1
  BY <1>1, NoneOrOne
<1> QED BY <1>2, <1>3, <1>4

(* LREM takes the only event off the list. *)
LEMMA WithoutOnly ==
  ASSUME NEW e \in Events
  PROVE  Without(<<e>>, e) = <<>>
<1> DEFINE s == <<e>>
           I == {i \in 1..Len(s) : s[i] = e}
<1>1. I = {1}
  OBVIOUS
<1>2. Min(I) = 1
  BY <1>1 DEF Min
<1>3. RemoveAt(s, 1) = <<>>
  BY DEF RemoveAt
<1> QED BY <1>1, <1>2, <1>3 DEF Without, RemoveFirst, SelectInSeq

-----------------------------------------------------------------------------
(* Every step of the backend *)

(* A step of the backend that leaves the bot alone is safe if the queue only *)
(* grows by what is promised, and rows are marked only if they were pushed.  *)
LEMMA BackendKeeps ==
  ASSUME Safe, UNCHANGED delivery,
         Promised \subseteq Promised',
         ElementsOf(queue) \subseteq ElementsOf(queue)',
         ElementsOf(queue)' \subseteq Promised',
         \A c \in Publishers : sending'[c] \subseteq Promised',
         \A c \in Publishers : pc'[c] = "marking" =>
            \A e \in sending'[c] : e \in handled \/ OnTheWay(e)',
         \A e \in Events : row'[e] \in {"published", "purged"} =>
            row[e] \in {"published", "purged"} \/ e \in handled \/ OnTheWay(e)'
  PROVE  SafeDelivery'
<1>1. UNCHANGED <<processing, bot, hand, handled>>
  BY DEF delivery
<1>2. OneInHand'
  BY <1>1 DEF Safe, SafeDelivery, OneInHand
<1>3. \A e : OnTheWay(e) => OnTheWay(e)'
  BY <1>1 DEF OnTheWay, ElementsOf
<1>4. Pushed'
  BY <1>1, <1>3 DEF Safe, SafeDelivery, Pushed
<1>5. ElementsOf(processing)' = ElementsOf(processing)
  BY <1>1 DEF ElementsOf
<1>6. NoPhantom'
  BY <1>1, <1>5 DEF Safe, SafeDelivery, NoPhantom
<1> QED BY <1>2, <1>4, <1>6 DEF SafeDelivery

(* No more goes wrong than the instance allows. *)
LEMMA FaultsBounded ==
  ASSUME TypeOK, NEW kind, Fault(kind)
  PROVE  faults' \in 0..MaxFaults
BY OutboxAssumption DEF OutboxAssumption, TypeOK, Fault

(* What a session queues and what is rolled back concerns nobody else. *)
LEMMA SessionSafe ==
  ASSUME Safe, NEW s \in Sessions,
         Queue(s) \/ Rollback(s) \/ Commit(s)
  PROVE  Safe'
<1>1. s \in Publishers /\ Job \notin Sessions
  BY OutboxAssumption DEF Publishers, OutboxAssumption
<1>2. UNCHANGED <<queue, delivery>>
  BY DEF Queue, Rollback, Commit
<1>3. ElementsOf(queue)' = ElementsOf(queue) /\ \A e : OnTheWay(e)' = OnTheWay(e)
  BY <1>2 DEF ElementsOf, OnTheWay, delivery
<1>4. CASE Queue(s)
  <2>1. TypeOK'
    BY <1>1, <1>4 DEF Safe, TypeOK, Queue, Pending, Absent, delivery, menus
  <2>2. Promised \subseteq Promised'
    BY <1>4 DEF Safe, TypeOK, Queue, Absent, Promised
  <2>3. \A e \in Events : row'[e] \in {"published", "purged"} => row'[e] = row[e]
    BY <1>4 DEF Safe, TypeOK, Queue
  <2>4. UNCHANGED <<pc, sending>>
    BY <1>4 DEF Queue
  <2>5. SafeDelivery'
    BY <1>2, <1>3, <2>2, <2>3, <2>4, BackendKeeps DEF Safe, SafeDelivery, Pushed, NoPhantom
  <2> QED BY <2>1, <2>5 DEF Safe
<1>5. CASE Rollback(s)
  <2>1. TypeOK'
    <3>1. faults' \in 0..MaxFaults
      BY <1>5, FaultsBounded DEF Safe, Rollback
    <3> QED BY <1>1, <1>5, <3>1 DEF Safe, TypeOK, Rollback, Pending, delivery, menus
  <2>2. Promised \subseteq Promised'
    BY <1>5 DEF Safe, TypeOK, Rollback, Pending, Promised
  <2>3. \A e \in Events : row'[e] \in {"published", "purged"} => row'[e] = row[e]
    BY <1>5 DEF Safe, TypeOK, Rollback
  <2>4. UNCHANGED <<pc, sending>>
    BY <1>5 DEF Rollback
  <2>5. SafeDelivery'
    BY <1>2, <1>3, <2>2, <2>3, <2>4, BackendKeeps DEF Safe, SafeDelivery, Pushed, NoPhantom
  <2> QED BY <2>1, <2>5 DEF Safe
<1>6. CASE Commit(s)
  <2>1. TypeOK'
    BY <1>1, <1>6 DEF Safe, TypeOK, Commit, Pending, delivery, menus
  <2>2. Promised \subseteq Promised'
    BY <1>6 DEF Safe, TypeOK, Commit, Promised
  <2>3. \A e \in Events : row'[e] \in {"published", "purged"} => row'[e] = row[e]
    BY <1>6 DEF Safe, TypeOK, Commit
  <2>4. Pending(s) \subseteq Promised'
    BY <1>6 DEF Safe, TypeOK, Commit, Pending, Promised
  <2>5. /\ sending'[s] = Pending(s) /\ pc'[s] = "publishing"
        /\ \A c \in Publishers \ {s} : sending'[c] = sending[c] /\ pc'[c] = pc[c]
    BY <1>1, <1>6 DEF Safe, TypeOK, Commit
  <2>6. SafeDelivery'
    BY <1>2, <1>3, <2>2, <2>3, <2>4, <2>5, BackendKeeps DEF Safe, SafeDelivery, Pushed, NoPhantom
  <2> QED BY <2>1, <2>6 DEF Safe
<1> QED BY <1>4, <1>5, <1>6

(* Publishing and marking, by a session or by the job. *)
LEMMA PublisherSafe ==
  ASSUME Safe, NEW c \in Publishers,
         Publish(c) \/ PublishFails(c) \/ Mark(c) \/ MarkFails(c)
  PROVE  Safe'
<1>1. UNCHANGED delivery
  BY DEF Publish, PublishFails, Mark, MarkFails, GiveBack
<1>2. sending[c] \subseteq Events /\ sending[c] \subseteq Promised
  BY DEF Safe, TypeOK, SafeDelivery, NoPhantom
<1>3. ASSUME NEW s \in InOrder(sending[c]), queue' = queue \o s
      PROVE  queue' \in Seq(Events) /\ ElementsOf(queue)' = ElementsOf(queue) \cup sending[c]
  <2>1. s \in Seq(Events) /\ ElementsOf(s) = sending[c]
    BY <1>2, InOrderElements
  <2>2. queue \in Seq(Events)
    BY DEF Safe, TypeOK
  <2>3. ElementsOf(queue)' = ElementsOf(queue \o s)
    BY <1>3 DEF ElementsOf
  <2> QED BY <1>3, <2>1, <2>2, <2>3, ElementsOfConcat
<1>4. CASE Publish(c)
  <2>1. queue' \in Seq(Events) /\ ElementsOf(queue)' = ElementsOf(queue) \cup sending[c]
    BY <1>3, <1>4 DEF Publish
  <2>2. UNCHANGED <<row, sending>> /\ Promised' = Promised
    BY <1>4 DEF Publish, Promised
  <2>3. \A d \in Publishers \ {c} : pc'[d] = pc[d]
    BY <1>4 DEF Safe, TypeOK, Publish
  <2>4. ElementsOf(processing)' = ElementsOf(processing)
    BY <1>1 DEF delivery, ElementsOf
  <2>5. \A e \in Events : OnTheWay(e) \/ e \in sending[c] => OnTheWay(e)'
    BY <2>1, <2>4 DEF OnTheWay
  <2>6. SafeDelivery'
    <3>1. \A d \in Publishers : pc'[d] = "marking" =>
            \A e \in sending'[d] : e \in handled \/ OnTheWay(e)'
      <4> SUFFICES ASSUME NEW d \in Publishers, pc'[d] = "marking", NEW e \in sending[d]
                   PROVE  e \in handled \/ OnTheWay(e)'
        BY <2>2
      <4>1. e \in Events
        BY DEF Safe, TypeOK
      <4>2. CASE d = c
        BY <2>5, <4>1, <4>2
      <4>3. CASE d # c
        BY <2>3, <2>5, <4>1, <4>3 DEF Safe, SafeDelivery, Pushed
      <4> QED BY <4>2, <4>3
    <3> QED BY <1>1, <1>2, <2>1, <2>2, <3>1, BackendKeeps DEF Safe, SafeDelivery, NoPhantom
  <2>7. TypeOK'
    BY <1>4, <2>1 DEF Safe, TypeOK, Publish, delivery, menus
  <2> QED BY <2>6, <2>7 DEF Safe
<1>5. ASSUME GiveBack(c)
      PROVE  /\ \A d \in Publishers : sending'[d] \subseteq sending[d]
             /\ \A d \in Publishers : pc'[d] = "marking" => pc[d] = "marking"
             /\ pc' \in [Publishers -> {"open", "publishing", "marking"}]
             /\ sending' \in [Publishers -> SUBSET Events]
  BY <1>5 DEF Safe, TypeOK, GiveBack
<1>6. CASE PublishFails(c)
  <2>1. queue' \in Seq(Events) /\ ElementsOf(queue) \subseteq ElementsOf(queue)'
        /\ ElementsOf(queue)' \subseteq ElementsOf(queue) \cup sending[c]
    <3>1. CASE UNCHANGED queue
      BY <3>1 DEF Safe, TypeOK, ElementsOf
    <3>2. CASE \E s \in InOrder(sending[c]) : queue' = queue \o s
      BY <1>3, <3>2
    <3> QED BY <1>6, <3>1, <3>2 DEF PublishFails
  <2>2. GiveBack(c) /\ UNCHANGED row /\ Promised' = Promised
    BY <1>6 DEF PublishFails, Promised
  <2>3. \A e : OnTheWay(e) => OnTheWay(e)'
    BY <1>1, <2>1 DEF OnTheWay, delivery, ElementsOf
  <2>4. SafeDelivery'
    BY <1>1, <1>2, <1>5, <2>1, <2>2, <2>3, BackendKeeps DEF Safe, SafeDelivery, NoPhantom, Pushed
  <2>5. TypeOK'
    <3>1. faults' \in 0..MaxFaults
      BY <1>6, FaultsBounded DEF Safe, PublishFails
    <3> QED BY <1>5, <2>1, <2>2, <3>1 DEF Safe, TypeOK, GiveBack, delivery, menus
  <2> QED BY <2>4, <2>5 DEF Safe
<1>7. CASE Mark(c)
  <2>1. GiveBack(c) /\ UNCHANGED <<queue, faults>>
    BY <1>7 DEF Mark
  <2>2. Promised' = Promised
    BY <1>7 DEF Safe, TypeOK, Mark, Promised
  <2>3. ElementsOf(queue)' = ElementsOf(queue) /\ \A e : OnTheWay(e)' = OnTheWay(e)
    BY <1>1, <2>1 DEF ElementsOf, OnTheWay, delivery
  <2>4. \A e \in Events : row'[e] \in {"published", "purged"} => row[e] \in {"published", "purged"} \/ e \in sending[c]
    BY <1>7 DEF Safe, TypeOK, Mark
  <2>5. \A e \in sending[c] : e \in handled \/ OnTheWay(e)
    BY <1>7 DEF Mark, Safe, SafeDelivery, Pushed
  <2>6. SafeDelivery'
    BY <1>1, <1>5, <2>1, <2>2, <2>3, <2>4, <2>5, BackendKeeps DEF Safe, SafeDelivery, NoPhantom, Pushed
  <2>7. TypeOK'
    BY <1>5, <1>7, <2>1 DEF Safe, TypeOK, Mark, GiveBack, delivery, menus
  <2> QED BY <2>6, <2>7 DEF Safe
<1>8. CASE MarkFails(c)
  <2>1. GiveBack(c) /\ UNCHANGED <<row, queue>> /\ Promised' = Promised
    BY <1>8 DEF MarkFails, Promised
  <2>2. ElementsOf(queue)' = ElementsOf(queue) /\ \A e : OnTheWay(e)' = OnTheWay(e)
    BY <1>1, <2>1 DEF ElementsOf, OnTheWay, delivery
  <2>3. SafeDelivery'
    BY <1>1, <1>5, <2>1, <2>2, BackendKeeps DEF Safe, SafeDelivery, NoPhantom, Pushed
  <2>4. TypeOK'
    <3>1. faults' \in 0..MaxFaults
      BY <1>8, FaultsBounded DEF Safe, MarkFails
    <3> QED BY <1>5, <2>1, <3>1 DEF Safe, TypeOK, GiveBack, delivery, menus
  <2> QED BY <2>3, <2>4 DEF Safe
<1> QED BY <1>4, <1>6, <1>7, <1>8

(* The job finds rows, rows are purged and grow old, the backend crashes. *)
LEMMA RestOfBackendSafe ==
  ASSUME Safe,
         FindMissed \/ (\E e \in Events : Purge(e) \/ Age(e)) \/ BackendCrash
  PROVE  Safe'
<1>1. UNCHANGED <<queue, delivery>>
  BY DEF FindMissed, Purge, Age, BackendCrash
<1>2. ElementsOf(queue)' = ElementsOf(queue) /\ \A e : OnTheWay(e)' = OnTheWay(e)
  BY <1>1 DEF ElementsOf, OnTheWay, delivery
<1>3. CASE FindMissed
  <2>1. PICK es \in SUBSET Due : sending' = [sending EXCEPT ![Job] = es]
    BY <1>3 DEF FindMissed
  <2>2. es \subseteq Promised /\ es \subseteq Events
    BY DEF Due, Unpublished, Promised
  <2>3. Job \in Publishers /\ UNCHANGED row /\ Promised' = Promised
    BY <1>3 DEF Publishers, FindMissed, Promised
  <2>4. /\ sending'[Job] = es /\ pc'[Job] = "publishing"
        /\ \A c \in Publishers \ {Job} : sending'[c] = sending[c] /\ pc'[c] = pc[c]
    BY <1>3, <2>1, <2>3 DEF Safe, TypeOK, FindMissed
  <2>5. SafeDelivery'
    BY <1>1, <1>2, <2>2, <2>3, <2>4, BackendKeeps DEF Safe, SafeDelivery, NoPhantom, Pushed
  <2>6. TypeOK'
    BY <1>3, <2>1, <2>2, <2>3 DEF Safe, TypeOK, FindMissed, delivery, menus
  <2> QED BY <2>5, <2>6 DEF Safe
<1>4. ASSUME NEW e \in Events, Purge(e) \/ Age(e)
      PROVE  Safe'
  <2>1. UNCHANGED <<pc, sending>>
    BY <1>4 DEF Purge, Age
  <2>2. Promised' = Promised
    BY <1>4 DEF Safe, TypeOK, Purge, Age, Promised
  <2>3. \A f \in Events : row'[f] \in {"published", "purged"} => row[f] \in {"published", "purged"}
    BY <1>4 DEF Safe, TypeOK, Purge, Age
  <2>4. SafeDelivery'
    BY <1>1, <1>2, <2>1, <2>2, <2>3, BackendKeeps DEF Safe, SafeDelivery, NoPhantom, Pushed
  <2>5. TypeOK'
    <3>1. faults' \in 0..MaxFaults
      BY <1>4, FaultsBounded DEF Safe, TypeOK, Purge, Age
    <3>2. row' \in [Events -> {"absent", "queued", "lost", "unpublished", "published", "purged"}]
      BY <1>4 DEF Safe, TypeOK, Purge, Age
    <3>3. old' \subseteq Events /\ UNCHANGED <<queued, pc, sending, commits, queue, delivery, menus>>
      BY <1>4 DEF Safe, TypeOK, Purge, Age
    <3> QED BY <3>1, <3>2, <3>3 DEF Safe, TypeOK, delivery, menus
  <2> QED BY <2>4, <2>5 DEF Safe
<1>5. CASE BackendCrash
  <2>1. \A c \in Publishers : sending'[c] = {} /\ pc'[c] = "open"
    BY <1>5 DEF BackendCrash
  <2>2. Promised' = Promised
    BY <1>5 DEF Safe, TypeOK, BackendCrash, Promised
  <2>3. \A f \in Events : row'[f] \in {"published", "purged"} => row[f] \in {"published", "purged"}
    BY <1>5 DEF Safe, TypeOK, BackendCrash
  <2>4. SafeDelivery'
    BY <1>1, <1>2, <2>1, <2>2, <2>3, BackendKeeps DEF Safe, SafeDelivery, NoPhantom, Pushed
  <2>5. TypeOK'
    <3>1. faults' \in 0..MaxFaults
      BY <1>5, FaultsBounded DEF Safe, BackendCrash
    <3> QED BY <1>5, <3>1 DEF Safe, TypeOK, BackendCrash, delivery, menus
  <2> QED BY <2>4, <2>5 DEF Safe
<1> QED BY <1>3, <1>4, <1>5

-----------------------------------------------------------------------------
(* Every step of the bot *)

(* A step of the bot is safe if nothing but what is handled leaves the lists *)
(* and nothing comes from elsewhere.                                         *)
LEMMA BotKeeps ==
  ASSUME Safe, UNCHANGED <<row, pc, sending>>, OneInHand',
         OnWay \subseteq OnWay' \cup handled',
         handled \subseteq handled',
         OnWay' \cup handled' \subseteq OnWay \cup handled
  PROVE  SafeDelivery'
<1>1. Promised' = Promised
  BY DEF Promised
<1>2. \A e : e \in handled \/ OnTheWay(e) => e \in handled' \/ OnTheWay(e)'
  BY DEF OnWay, OnTheWay
<1>3. Pushed'
  BY <1>2 DEF Safe, SafeDelivery, Pushed
<1>4. NoPhantom'
  BY <1>1 DEF Safe, SafeDelivery, NoPhantom, OnWay
<1> QED BY <1>3, <1>4 DEF SafeDelivery

(* What the second list is for each place of the loop. *)
LEMMA InHandFacts ==
  ASSUME Safe
  PROVE  /\ bot \in {"sending", "acking"} => hand \in Events /\ processing = <<hand>>
         /\ bot = "idle" => processing = <<>>
         /\ processing = <<>> \/ \E e \in Events : processing = <<e>>
<1>1. processing = <<>> \/ \E e \in Events : processing = <<e>>
  BY AtMostOne DEF Safe, TypeOK, SafeDelivery, OneInHand
<1>2. ASSUME bot \in {"sending", "acking"}
      PROVE  hand \in Events
  <2>1. processing = <<hand>> /\ processing \in Seq(Events) /\ Len(<<hand>>) = 1 /\ <<hand>>[1] = hand
    BY <1>2 DEF Safe, TypeOK, SafeDelivery, OneInHand
  <2> QED BY <2>1, ElementOfSeq
<1> QED BY <1>1, <1>2 DEF Safe, SafeDelivery, OneInHand

(* An event moves from the queue to the second list. *)
LEMMA TakeMoves ==
  ASSUME Safe, processing = <<>>, queue # <<>>,
         queue' = Tail(queue), processing' = InHand(Head(queue))
  PROVE  /\ Head(queue) \in Events /\ queue' \in Seq(Events) /\ processing' \in Seq(Events)
         /\ processing' = <<Head(queue)>> /\ Len(processing') = 1
         /\ OnWay' = OnWay
<1>1. /\ Head(queue) \in Events /\ queue' \in Seq(Events)
      /\ ElementsOf(queue) = {Head(queue)} \cup ElementsOf(queue)'
  <2>1. queue \in Seq(Events)
    BY DEF Safe, TypeOK
  <2> QED BY <2>1, ElementsOfTail DEF ElementsOf
<1>2. processing' = <<Head(queue)>>
  BY DEF InHand
<1>3. ElementsOf(processing)' = {Head(queue)} /\ Len(processing') = 1 /\ processing' \in Seq(Events)
  <2>1. ElementsOf(processing)' = ElementsOf(<<Head(queue)>>)
    BY <1>2 DEF ElementsOf
  <2> QED BY <1>1, <1>2, <2>1, OneElement
<1>4. ElementsOf(processing) = {}
  BY NoElement
<1> QED BY <1>1, <1>2, <1>3, <1>4 DEF OnWay

(* The event in hand leaves the second list. *)
LEMMA AckRemoves ==
  ASSUME Safe, bot = "acking", UNCHANGED queue, processing' = Without(processing, hand)
  PROVE  processing' = <<>> /\ OnWay = OnWay' \cup {hand} /\ hand \in handled
<1>1. hand \in Events /\ processing = <<hand>> /\ hand \in handled
  BY InHandFacts DEF Safe, SafeDelivery, OneInHand
<1>2. processing' = <<>>
  BY <1>1, WithoutOnly
<1>3. ElementsOf(processing) = {hand} /\ ElementsOf(processing)' = {} /\ ElementsOf(queue)' = ElementsOf(queue)
  <2>1. ElementsOf(processing)' = ElementsOf(<<>>) /\ ElementsOf(queue)' = ElementsOf(queue)
    BY <1>2 DEF ElementsOf
  <2> QED BY <1>1, <2>1, OneElement, NoElement
<1> QED BY <1>1, <1>2, <1>3 DEF OnWay

(* Restoring, taking and acknowledging. *)
LEMMA ListStepSafe ==
  ASSUME Safe, Recover \/ Take \/ Ack
  PROVE  Safe'
<1>1. UNCHANGED <<row, old, queued, pc, sending, commits, handled, menus, faults>>
  BY DEF Recover, Take, Ack, backend
<1>2. CASE Recover
  <2>1. CASE processing = <<>>
    <3>1. UNCHANGED <<queue, processing>> /\ OnWay' = OnWay /\ bot' = "idle"
      BY <1>2, <2>1 DEF Recover, OnWay, ElementsOf
    <3>2. OneInHand'
      BY <2>1, <3>1, NoElement DEF OneInHand
    <3>3. SafeDelivery'
      BY <1>1, <3>1, <3>2, BotKeeps
    <3>4. TypeOK'
      BY <1>1, <1>2, <3>1 DEF Recover, Safe, TypeOK, menus
    <3> QED BY <3>3, <3>4 DEF Safe
  <2>2. CASE processing # <<>>
    <3>1. PICK e \in Events : processing = <<e>>
      BY <2>2, InHandFacts
    <3>2. processing[Len(processing)] = e
      BY <3>1, OneElement
    <3>3. processing' = <<>>
      <4>1. processing' = SubSeq(<<e>>, 1, 0)
        BY <1>2, <2>2, <3>1, OneElement DEF Recover
      <4> QED BY <4>1
    <3>4. queue' = <<e>> \o queue /\ queue \in Seq(Events) /\ bot' = bot /\ bot = "restoring"
      BY <1>2, <2>2, <3>2 DEF Recover, Restored, Safe, TypeOK
    <3>5. queue' \in Seq(Events) /\ ElementsOf(queue)' = ElementsOf(queue) \cup {e}
      <4>1. ElementsOf(queue)' = ElementsOf(<<e>> \o queue)
        BY <3>4 DEF ElementsOf
      <4>2. <<e>> \in Seq(Events) /\ ElementsOf(<<e>>) = {e}
        BY OneElement
      <4>3. <<e>> \o queue \in Seq(Events) /\ ElementsOf(<<e>> \o queue) = {e} \cup ElementsOf(queue)
        BY <3>4, <4>2, ElementsOfConcat
      <4> QED BY <3>4, <4>1, <4>3
    <3>6. ElementsOf(processing)' = {} /\ ElementsOf(processing) = {e}
      BY <3>1, <3>3, OneElement, NoElement DEF ElementsOf
    <3>7. OnWay' = OnWay
      BY <3>5, <3>6 DEF OnWay
    <3>8. OneInHand'
      BY <3>3, <3>4, NoElement DEF OneInHand
    <3>9. SafeDelivery'
      BY <1>1, <3>7, <3>8, BotKeeps
    <3>10. TypeOK'
      BY <1>1, <1>2, <3>3, <3>4, <3>5, NoElement DEF Recover, Safe, TypeOK, menus
    <3> QED BY <3>9, <3>10 DEF Safe
  <2> QED BY <2>1, <2>2
<1>3. CASE Take
  <2>1. processing = <<>>
    BY <1>3, InHandFacts DEF Take
  <2>2. /\ Head(queue) \in Events /\ queue' \in Seq(Events) /\ processing' \in Seq(Events)
        /\ processing' = <<Head(queue)>> /\ Len(processing') = 1 /\ OnWay' = OnWay
    BY <1>3, <2>1, TakeMoves DEF Take
  <2>3. OneInHand'
    <3>1. bot' = "sending" /\ hand' = Head(queue)
      BY <1>3 DEF Take
    <3>2. processing' = <<hand'>>
      BY <2>2, <3>1, Zenon
    <3>3. bot' # "idle" /\ bot' # "acking"
      BY <3>1
    <3>4. Len(processing') <= 1
      <4>1. Len(processing') = 1
        BY <2>2
      <4> QED BY <4>1
    <3> QED BY <3>2, <3>3, <3>4, Zenon DEF OneInHand
  <2>4. SafeDelivery'
    BY <1>1, <2>2, <2>3, BotKeeps
  <2>5. TypeOK'
    BY <1>1, <1>3, <2>2, OutboxAssumption DEF OutboxAssumption, Take, Safe, TypeOK, menus
  <2> QED BY <2>4, <2>5 DEF Safe
<1>4. CASE Ack
  <2>1. processing' = <<>> /\ OnWay = OnWay' \cup {hand} /\ hand \in handled
    BY <1>4, AckRemoves DEF Ack
  <2>2. OneInHand'
    BY <1>4, <2>1, NoElement DEF Ack, OneInHand
  <2>3. SafeDelivery'
    BY <1>1, <2>1, <2>2, BotKeeps
  <2>4. TypeOK'
    BY <1>1, <1>4, <2>1, NoElement, OutboxAssumption DEF OutboxAssumption, Ack, Safe, TypeOK, menus
  <2> QED BY <2>3, <2>4 DEF Safe
<1> QED BY <1>2, <1>3, <1>4

(* Sending, marking, giving up. *)
LEMMA HandlingSafe ==
  ASSUME Safe, MarkDirty \/ Send \/ Drop \/ Retry
  PROVE  Safe'
<1>1. UNCHANGED <<row, old, queued, pc, sending, commits, queue, processing, hand>>
  BY DEF MarkDirty, Send, Drop, Retry, Handled, backend
<1>2. bot = "sending" /\ hand \in Events /\ processing = <<hand>>
  BY InHandFacts DEF MarkDirty, Send, Drop, Retry
<1>3. OnWay' = OnWay /\ hand \in OnWay
  <2>1. OnWay' = OnWay
    BY <1>1 DEF OnWay, ElementsOf
  <2>2. hand \in ElementsOf(processing)
    BY <1>2, OneElement
  <2> QED BY <2>1, <2>2 DEF OnWay
<1>4. \/ handled' = handled \cup {hand} /\ bot' \in {"sending", "acking"}
      \/ handled' = handled /\ bot' = "sending"
  BY <1>2 DEF MarkDirty, Send, Drop, Retry, Handled
<1>5. OneInHand'
  BY <1>1, <1>2, <1>4 DEF Safe, SafeDelivery, OneInHand
<1>6. SafeDelivery'
  BY <1>1, <1>3, <1>4, <1>5, BotKeeps
<1>7. handled' \subseteq Events /\ twice' \subseteq Events /\ bot' \in {"sending", "acking"}
  BY <1>2, <1>4 DEF MarkDirty, Send, Drop, Retry, Handled, Sent, Safe, TypeOK
<1>8. attempt' \in 0..MaxAttempts
  <2>1. CASE Retry
    <3>1. attempt \in 0..MaxAttempts /\ attempt # MaxAttempts /\ MaxAttempts \in Nat
      BY <1>2, OutboxAssumption DEF OutboxAssumption, Safe, TypeOK
    <3>2. attempt' = attempt + 1
      BY <2>1 DEF Retry
    <3> QED BY <3>1, <3>2
  <2>2. CASE ~Retry
    BY <2>2 DEF MarkDirty, Send, Drop, Handled, Safe, TypeOK
  <2> QED BY <2>1, <2>2
<1>9. bot' = "sending" => attempt' # MaxAttempts
  <2>1. CASE Retry
    <3>1. attempt' = attempt + 1 /\ (bot' = "sending" => attempt + 1 # MaxAttempts)
      BY <2>1 DEF Retry, LastAttempt
    <3> QED BY <3>1
  <2>2. CASE ~Retry
    BY <2>2 DEF MarkDirty, Send, Drop, Handled
  <2> QED BY <2>1, <2>2
<1>10. faults' \in 0..MaxFaults
  BY FaultsBounded DEF MarkDirty, Send, Drop, Retry, Safe, TypeOK
<1>11. dirty' \in BOOLEAN /\ UNCHANGED <<pass, drawing, shown>>
  BY DEF MarkDirty, Marked, Send, Drop, Retry, Safe, TypeOK, menus
<1>12. TypeOK'
  BY <1>1, <1>7, <1>8, <1>9, <1>10, <1>11 DEF Safe, TypeOK
<1> QED BY <1>6, <1>12 DEF Safe

(* The loop fails, the bot stops and starts. *)
LEMMA OutageSafe ==
  ASSUME Safe, LoopError \/ BotCrash \/ BotStart
  PROVE  Safe'
<1>1. UNCHANGED <<row, old, queued, pc, sending, commits, handled, twice, shown>>
  BY DEF LoopError, BotCrash, BotStart, backend, delivery, menus
<1>2. /\ bot' \in {"down", "restoring"} /\ hand' \in Events \cup {None} /\ attempt' \in 0..MaxAttempts
  BY OutboxAssumption DEF OutboxAssumption, LoopError, BotCrash, BotStart, OnStart, Safe, TypeOK
<1>3. /\ queue' \in Seq(Events) /\ processing' \in Seq(Events) /\ Len(processing') <= 1
      /\ OnWay' \subseteq OnWay /\ OnWay \subseteq OnWay' \cup handled
  <2>1. CASE UNCHANGED <<queue, processing>>
    BY <2>1 DEF OnWay, ElementsOf, Safe, TypeOK, SafeDelivery, OneInHand
  <2>2. CASE bot = "idle" /\ queue # <<>> /\ queue' = Tail(queue) /\ processing' = InHand(Head(queue))
    <3>1. processing = <<>>
      BY <2>2, InHandFacts
    <3>2. /\ queue' \in Seq(Events) /\ processing' \in Seq(Events)
          /\ Len(processing') = 1 /\ OnWay' = OnWay
      BY <2>2, <3>1, TakeMoves
    <3> QED BY <3>2
  <2>3. CASE bot = "acking" /\ processing' = Without(processing, hand) /\ UNCHANGED queue
    <3>1. processing' = <<>> /\ OnWay = OnWay' \cup {hand} /\ hand \in handled /\ queue' = queue
      BY <2>3, AckRemoves
    <3>2. queue \in Seq(Events) /\ processing' \in Seq(Events) /\ Len(processing') <= 1
      BY <3>1, NoElement DEF Safe, TypeOK
    <3> QED BY <3>1, <3>2
  <2> QED BY <2>1, <2>2, <2>3 DEF LoopError, BotCrash, BotStart
<1>4. OneInHand'
  BY <1>2, <1>3 DEF OneInHand
<1>5. SafeDelivery'
  BY <1>1, <1>3, <1>4, BotKeeps
<1>6. faults' \in 0..MaxFaults
  BY FaultsBounded DEF LoopError, BotCrash, BotStart, Safe, TypeOK
<1>7. dirty' \in BOOLEAN /\ pass' \in {"none", "reading", "drawing", "failed"} /\ drawing' \subseteq Changes
  BY DEF LoopError, BotCrash, BotStart, menus, Safe, TypeOK
<1>8. TypeOK'
  BY <1>1, <1>2, <1>3, <1>6, <1>7 DEF Safe, TypeOK
<1> QED BY <1>5, <1>8 DEF Safe

(* Redrawing the menus moves no event. *)
LEMMA RefresherSafe ==
  ASSUME Safe, Refresher \/ UNCHANGED vars
  PROVE  Safe'
<1>1. UNCHANGED <<backend, queue, delivery>>
  BY DEF Refresher, Poll, PassReads, PassEnds, PassFails, PassIsLogged, vars
<1>2. OnWay' = OnWay
  BY <1>1 DEF delivery, OnWay, ElementsOf
<1>3. OneInHand'
  BY <1>1 DEF delivery, Safe, SafeDelivery, OneInHand
<1>4. SafeDelivery'
  BY <1>1, <1>2, <1>3, BotKeeps DEF backend, delivery
<1>5. faults' \in 0..MaxFaults
  BY FaultsBounded DEF Refresher, Poll, PassReads, PassEnds, PassFails, PassIsLogged, vars, Safe, TypeOK
<1>6. /\ dirty' \in BOOLEAN /\ pass' \in {"none", "reading", "drawing", "failed"}
      /\ drawing' \subseteq Changes /\ shown' \subseteq Changes
  BY DEF Refresher, Poll, PassReads, PassEnds, PassFails, PassIsLogged, vars, menus, Safe, TypeOK
<1>7. TypeOK'
  BY <1>1, <1>5, <1>6 DEF backend, delivery, Safe, TypeOK
<1> QED BY <1>4, <1>7 DEF Safe

-----------------------------------------------------------------------------
(* The theorems *)

LEMMA SafeInit == Init => Safe
<1> SUFFICES ASSUME Init PROVE Safe
  OBVIOUS
<1>1. TypeOK
  <2>1. row \in [Events -> {"absent", "queued", "lost", "unpublished", "published", "purged"}]
    BY DEF Init
  <2>2. /\ queued \in [Sessions -> SUBSET Events] /\ sending \in [Publishers -> SUBSET Events]
        /\ pc \in [Publishers -> {"open", "publishing", "marking"}]
    BY DEF Init
  <2>3. queue \in Seq(Events) /\ processing \in Seq(Events)
    BY NoElement DEF Init
  <2>4. attempt \in 0..MaxAttempts /\ faults \in 0..MaxFaults
    BY OutboxAssumption DEF OutboxAssumption, Init
  <2>5. /\ bot = "restoring" /\ hand = None /\ dirty = FALSE /\ pass = "none"
        /\ old = {} /\ drawing = {} /\ shown = {} /\ handled = {} /\ twice = {} /\ commits = {}
    BY DEF Init, OnStart
  <2> QED BY <2>1, <2>2, <2>3, <2>4, <2>5 DEF TypeOK
<1>2. OneInHand
  BY NoElement DEF Init, OneInHand, OnStart
<1>3. Pushed
  BY DEF Init, Pushed
<1>4. NoPhantom
  BY NoElement DEF Init, NoPhantom
<1> QED BY <1>1, <1>2, <1>3, <1>4 DEF Safe, SafeDelivery

LEMMA SafeStep == Safe /\ [Next]_vars => Safe'
<1> SUFFICES ASSUME Safe, [Next]_vars PROVE Safe'
  OBVIOUS
<1>1. CASE Backend
  BY <1>1, SessionSafe, PublisherSafe, RestOfBackendSafe DEF Backend
<1>2. CASE Bot
  BY <1>2, ListStepSafe, HandlingSafe, OutageSafe DEF Bot
<1>3. CASE Refresher \/ UNCHANGED vars
  BY <1>3, RefresherSafe
<1> QED BY <1>1, <1>2, <1>3 DEF Next

LEMMA SafeAlways == Spec => []Safe
BY SafeInit, SafeStep, PTL DEF Spec

(* Every reachable state is typed. *)
THEOREM TypeCorrect == Spec => []TypeOK
<1>1. Safe => TypeOK
  BY DEF Safe
<1> QED BY <1>1, SafeAlways, PTL

(* The inductive invariant: the loop has at most one event in hand, rows    *)
(* are marked after they were pushed, and nothing unpromised is on its way. *)
THEOREM DeliverySafe == Spec => []SafeDelivery
<1>1. Safe => SafeDelivery
  BY DEF Safe
<1> QED BY <1>1, SafeAlways, PTL

(* A committed event is never lost, whoever crashes where (outbox.py:5). *)
THEOREM NothingLost == Spec => []Accounted
<1>1. Safe => Accounted
  BY DEF Safe, SafeDelivery, Pushed, Accounted, Promised
<1> QED BY <1>1, SafeAlways, PTL

(* The three together (DeliveryInv). *)
THEOREM InvariantHolds == Spec => []DeliveryInv
<1>1. TypeOK /\ SafeDelivery /\ Accounted => DeliveryInv
  BY DEF DeliveryInv
<1> QED BY <1>1, TypeCorrect, DeliverySafe, NothingLost, PTL

(* A step is a promise, a delivery or invisible. *)
LEMMA StepImplements == Safe /\ [Next]_vars => [Abstract!Next]_(Abstract!vars)
<1> SUFFICES ASSUME Safe, [Next]_vars
             PROVE  Abstract!Next \/ (Promised' = Promised /\ handled' = handled)
  BY DEF Abstract!vars
<1>1. ASSUME NEW s \in Sessions, Commit(s)
      PROVE  Abstract!Next
  <2>1. Pending(s) \in SUBSET Events /\ Pending(s) \cap Promised = {}
    BY DEF Pending, Promised, Safe, TypeOK
  <2>2. Promised' = Promised \cup Pending(s)
    BY <1>1 DEF Commit, Pending, Promised, Safe, TypeOK
  <2>3. handled' = handled
    BY <1>1 DEF Commit, delivery
  <2>4. Abstract!Promise(Pending(s))
    BY <2>1, <2>2, <2>3 DEF Abstract!Promise
  <2> QED BY <2>1, <2>4 DEF Abstract!Next
<1>2. ASSUME NEW s \in Sessions, Queue(s) \/ Rollback(s)
      PROVE  Promised' = Promised /\ handled' = handled
  BY <1>2 DEF Queue, Rollback, Absent, Pending, Promised, delivery, Safe, TypeOK
<1>3. ASSUME NEW c \in Publishers, Publish(c) \/ PublishFails(c) \/ Mark(c) \/ MarkFails(c)
      PROVE  Promised' = Promised /\ handled' = handled
  BY <1>3 DEF Publish, PublishFails, Mark, MarkFails, GiveBack, Promised, delivery, Safe, TypeOK
<1>4. ASSUME FindMissed \/ (\E e \in Events : Purge(e) \/ Age(e)) \/ BackendCrash
      PROVE  Promised' = Promised /\ handled' = handled
  BY <1>4 DEF FindMissed, Purge, Age, BackendCrash, Promised, delivery, Safe, TypeOK
<1>5. ASSUME MarkDirty \/ Send \/ Drop \/ Retry
      PROVE  Abstract!Next \/ (Promised' = Promised /\ handled' = handled)
  <2>1. hand \in Events /\ hand \in Promised
    <3>1. hand \in Events /\ processing = <<hand>>
      BY <1>5, InHandFacts DEF MarkDirty, Send, Drop, Retry
    <3> QED BY <3>1, OneElement DEF Safe, SafeDelivery, NoPhantom
  <2>2. Promised' = Promised
    BY <1>5 DEF MarkDirty, Send, Drop, Retry, Handled, backend, Promised
  <2>3. handled' = handled \cup {hand} \/ handled' = handled
    BY <1>5 DEF MarkDirty, Send, Drop, Retry, Handled
  <2> QED BY <2>1, <2>2, <2>3 DEF Abstract!Next, Abstract!Handle
<1>6. ASSUME Recover \/ Take \/ Ack \/ LoopError \/ BotCrash \/ BotStart
      PROVE  Promised' = Promised /\ handled' = handled
  BY <1>6 DEF Recover, Take, Ack, LoopError, BotCrash, BotStart, backend, delivery, Promised
<1>7. ASSUME Refresher \/ UNCHANGED vars
      PROVE  Promised' = Promised /\ handled' = handled
  BY <1>7 DEF Refresher, Poll, PassReads, PassEnds, PassFails, PassIsLogged, vars, backend, delivery, Promised
<1> QED BY <1>1, <1>2, <1>3, <1>4, <1>5, <1>6, <1>7 DEF Next, Backend, Bot

(* Only what a committed transaction queued is ever handled, and a promise  *)
(* is never taken back (outbox.py:4-5).                                     *)
THEOREM OutboxImplementsCourier == Spec => ImplementsCourier
<1>1. Init => Abstract!Init
  BY DEF Init, Abstract!Init, Promised
<1> QED BY <1>1, SafeAlways, StepImplements, PTL DEF Spec, ImplementsCourier, Abstract!Spec

-----------------------------------------------------------------------------
(* The order and the number of deliveries: the invariants behind           *)
(* InBatchOrder and DeliveredOnce                                          *)

(* What the bot has in hand and what follows it. *)
Line == processing \o queue

(* In front of an event stands, or was handled, all of its transaction that *)
(* was queued before it.                                                     *)
Ordered(line, done, sets) ==
  \A es \in sets : \A e, f \in es : e < f =>
    \A k \in 1..Len(line) : line[k] = f => e \in done \/ \E j \in 1..Len(line) : j < k /\ line[j] = e

(* Nobody publishes an event whose predecessors are not published by the    *)
(* same push or an earlier one.                                              *)
SentInOrder ==
  \A c \in Publishers, es \in commits : \A e, f \in es :
    e < f /\ f \in sending[c] => e \in sending[c] \/ e \in handled \/ OnTheWay(e)

(* The rows of one session grow old one after the other. *)
AgedInOrder ==
  \A es \in commits \cup {queued[s] : s \in Sessions} : \A e, f \in es :
    e < f /\ f \in old => e \in old \/ row[e] = "lost"

(* Ids grow. *)
IdsGrow ==
  /\ \A e, f \in Events : row[e] # "absent" /\ row[f] = "absent" => e < f
  /\ \A e \in old : row[e] # "absent"

CommitsPromised == \A es \in commits : es \subseteq Promised

(* What the session rows say of the order. *)
RowsOrdered == AgedInOrder /\ IdsGrow /\ CommitsPromised

LineOrdered == Ordered(Line, handled, commits) /\ InBatchOrder

OrderSafe == LineOrdered /\ SentInOrder /\ RowsOrdered

(* Pushing a set in its order keeps the line in order if what comes before  *)
(* its members in their transactions is pushed too, or was before.          *)
LEMMA OrderOfConcat ==
  ASSUME NEW line \in Seq(Events), NEW done, NEW sets, Ordered(line, done, sets),
         \A es \in sets : es \subseteq Events,
         NEW T \in SUBSET Events, NEW t \in InOrder(T),
         \A es \in sets : \A e, f \in es :
           e < f /\ f \in T => e \in T \/ e \in done \/ e \in ElementsOf(line)
  PROVE  Ordered(line \o t, done, sets)
<1>1. t \in Seq(Events) /\ ElementsOf(t) = T
  BY InOrderElements
<1> DEFINE n == Len(line)
           m == Len(t)
           both == line \o t
<1>2. /\ n \in Nat /\ m \in Nat /\ Len(both) = n + m
      /\ \A i \in 1..(n + m) : both[i] = IF i <= n THEN line[i] ELSE t[i - n]
  BY <1>1, ConcatProperties, LenProperties
<1>3. \A i, j \in 1..m : i < j => t[i] < t[j]
  <2>1. IsFiniteSet(T)
    BY FS_Subset, OutboxAssumption DEF OutboxAssumption
  <2> DEFINE c == Cardinality(T)
  <2>2. c \in Nat /\ t \in [1..c -> T] /\ \A i, j \in 1..c : i < j => t[i] < t[j]
    BY <2>1, FS_CardinalityType DEF InOrder
  <2> HIDE DEF c
  <2>3. m = c
    BY <1>1, <2>2, LenProperties
  <2> QED BY <2>2, <2>3
<1>4. Events \subseteq Nat
  BY OutboxAssumption DEF OutboxAssumption
<1> HIDE DEF n, m, both
<1>5. ASSUME NEW es \in sets, NEW e \in es, NEW f \in es, e < f,
             NEW k \in 1..(n + m), both[k] = f, e \notin done
      PROVE  \E j \in 1..(n + m) : j < k /\ both[j] = e
  <2>0. e \in Events /\ f \in Events /\ e \in Nat /\ f \in Nat
    BY <1>4, <1>5
  <2>1. CASE k <= n
    <3>1. k \in 1..n /\ line[k] = f
      BY <1>2, <1>5, <2>1
    <3>2. PICK j \in 1..n : j < k /\ line[j] = e
      BY <1>5, <3>1 DEF Ordered, n
    <3> QED BY <1>2, <3>2
  <2>2. CASE ~(k <= n)
    <3>1. k - n \in 1..m /\ t[k - n] = f
      BY <1>2, <1>5, <2>2
    <3>2. f \in T
      BY <1>1, <3>1 DEF ElementsOf, m
    <3>3. e \in T \/ e \in ElementsOf(line)
      BY <1>5, <3>2
    <3>4. CASE e \in ElementsOf(line)
      <4>1. PICK j \in 1..n : line[j] = e
        BY <3>4 DEF ElementsOf, n
      <4> QED BY <1>2, <2>2, <4>1
    <3>5. CASE e \in T
      <4>1. PICK i \in 1..m : t[i] = e
        BY <1>1, <3>5 DEF ElementsOf, m
      <4>2. i < k - n
        <5>1. e # f /\ ~(f < e)
          BY <1>5, <2>0
        <5>2. i # k - n
          BY <3>1, <4>1, <5>1
        <5>3. ~(k - n < i)
          BY <1>3, <3>1, <4>1, <5>1
        <5>4. i \in Nat /\ k - n \in Nat
          BY <1>2, <3>1
        <5> QED BY <5>2, <5>3, <5>4
      <4>3. i + n \in 1..(n + m) /\ ~(i + n <= n) /\ (i + n) - n = i /\ i + n < k
        BY <1>2, <4>2
      <4> QED BY <1>2, <4>1, <4>3
    <3> QED BY <3>3, <3>4, <3>5
  <2> QED BY <2>1, <2>2
<1>6. Len(both) = n + m
  BY <1>2
<1>7. Ordered(both, done, sets)
  BY <1>5, <1>6, Zenon DEF Ordered
<1> QED BY <1>7 DEF both

(* A handled event may leave the front. *)
LEMMA OrderOfTail ==
  ASSUME NEW line \in Seq(Events), NEW done, NEW sets, Ordered(line, done, sets),
         line # <<>>, line[1] \in done
  PROVE  Ordered(Tail(line), done, sets)
<1> DEFINE n == Len(line)
           tail == Tail(line)
<1>1. n \in Nat /\ n # 0 /\ Len(tail) = n - 1 /\ \A i \in 1..(n - 1) : tail[i] = line[i + 1]
  BY HeadTailProperties, LenProperties, EmptySeq
<1> HIDE DEF n, tail
<1>2. ASSUME NEW es \in sets, NEW e \in es, NEW f \in es, e < f,
             NEW k \in 1..(n - 1), tail[k] = f, e \notin done
      PROVE  \E j \in 1..(n - 1) : j < k /\ tail[j] = e
  <2>1. k + 1 \in 1..n /\ line[k + 1] = f
    BY <1>1, <1>2
  <2>2. PICK j \in 1..n : j < k + 1 /\ line[j] = e
    BY <1>2, <2>1 DEF Ordered, n
  <2>3. j # 1
    BY <1>2, <2>2
  <2>4. j - 1 \in 1..(n - 1) /\ (j - 1) + 1 = j /\ j - 1 < k
    BY <1>1, <2>2, <2>3
  <2> QED BY <1>1, <2>2, <2>4
<1> QED BY <1>1, <1>2 DEF Ordered, tail

(* The order stays if more is handled. *)
LEMMA OrderOfMore ==
  ASSUME NEW line, NEW done, NEW more, NEW sets, done \subseteq more, Ordered(line, done, sets)
  PROVE  Ordered(line, more, sets)
BY DEF Ordered

-----------------------------------------------------------------------------
(* The line in every step *)

LEMMA LineFacts ==
  ASSUME Safe
  PROVE  /\ Line \in Seq(Events) /\ ElementsOf(Line) = OnWay
         /\ processing = <<>> => Line = queue
         /\ bot \in {"sending", "acking"} =>
              hand \in Events /\ Line # <<>> /\ Line[1] = hand /\ Tail(Line) = queue
<1>1. queue \in Seq(Events) /\ processing \in Seq(Events)
  BY DEF Safe, TypeOK
<1>2. Line \in Seq(Events) /\ ElementsOf(Line) = OnWay
  BY <1>1, ElementsOfConcat DEF Line, OnWay
<1>3. ASSUME processing = <<>>
      PROVE  Line = queue
  BY <1>1, <1>3, ConcatEmptySeq DEF Line
<1>4. ASSUME bot \in {"sending", "acking"}
      PROVE  hand \in Events /\ Line # <<>> /\ Line[1] = hand /\ Tail(Line) = queue
  <2>1. hand \in Events /\ processing = <<hand>>
    BY <1>4, InHandFacts
  <2>2. <<hand>> \in Seq(Events) /\ Len(<<hand>>) = 1 /\ <<hand>>[1] = hand
    BY <2>1, OneElement
  <2> DEFINE n == Len(queue)
  <2>3. n \in Nat
    BY <1>1, LenProperties
  <2>4. Line = <<hand>> \o queue
    BY <2>1 DEF Line
  <2>5. /\ Len(Line) = 1 + n
        /\ \A i \in 1..(1 + n) : Line[i] = IF i <= 1 THEN <<hand>>[i] ELSE queue[i - 1]
    BY <1>1, <2>2, <2>4, ConcatProperties
  <2> HIDE DEF n
  <2>6. Line # <<>> /\ Line[1] = hand
    <3>1. Line # <<>>
      BY <1>2, <2>3, <2>5, EmptySeq
    <3> QED BY <2>2, <2>3, <2>5, <3>1
  <2>7. /\ Tail(Line) \in Seq(Events) /\ Len(Tail(Line)) = n
        /\ \A i \in 1..n : Tail(Line)[i] = Line[i + 1]
    <3>1. /\ Tail(Line) \in Seq(Events) /\ Len(Tail(Line)) = Len(Line) - 1
          /\ \A i \in 1..Len(Tail(Line)) : Tail(Line)[i] = Line[i + 1]
      BY <1>2, <2>6, HeadTailProperties
    <3> QED BY <2>3, <2>5, <3>1
  <2>8. \A i \in 1..n : Tail(Line)[i] = queue[i]
    BY <2>3, <2>5, <2>7
  <2>9. Tail(Line) = queue
    BY <1>1, <2>7, <2>8, SeqEqual DEF n
  <2> QED BY <2>1, <2>6, <2>9
<1> QED BY <1>2, <1>3, <1>4

(* Nothing but publishing and acknowledging changes the line. *)
LEMMA LineOfPublish ==
  ASSUME Safe, NEW c \in Publishers, NEW s \in InOrder(sending[c]),
         queue' = queue \o s, UNCHANGED processing
  PROVE  Line' = Line \o s /\ s \in Seq(Events)
<1>1. sending[c] \in SUBSET Events
  BY DEF Safe, TypeOK
<1>2. s \in Seq(Events) /\ queue \in Seq(Events) /\ processing \in Seq(Events)
  BY <1>1, InOrderElements DEF Safe, TypeOK
<1> QED BY <1>2, ConcatAssociative DEF Line

LEMMA LineOfTake ==
  ASSUME Safe, processing = <<>>, queue # <<>>,
         queue' = Tail(queue), processing' = InHand(Head(queue))
  PROVE  Line' = Line
<1>1. processing' = <<Head(queue)>> /\ Line' = <<Head(queue)>> \o Tail(queue) /\ Line = queue
  BY TakeMoves, LineFacts DEF Line
<1>2. queue \in Seq(Events) /\ Head(queue) \in Events /\ Tail(queue) \in Seq(Events)
  BY ElementsOfTail DEF Safe, TypeOK
<1>3. <<Head(queue)>> \o Tail(queue) = queue
  <2> DEFINE h == Head(queue)
             n == Len(Tail(queue))
             whole == <<h>> \o Tail(queue)
  <2>1. <<h>> \in Seq(Events) /\ Len(<<h>>) = 1 /\ <<h>>[1] = h
    BY <1>2, OneElement
  <2>2. n \in Nat /\ Len(queue) = n + 1 /\ h = queue[1] /\ \A i \in 1..n : Tail(queue)[i] = queue[i + 1]
    BY <1>2, HeadTailProperties, LenProperties, EmptySeq
  <2>3. /\ whole \in Seq(Events) /\ Len(whole) = 1 + n
        /\ \A i \in 1..(1 + n) : whole[i] = IF i <= 1 THEN <<h>>[i] ELSE Tail(queue)[i - 1]
    BY <1>2, <2>1, ConcatProperties
  <2> HIDE DEF n, whole, h
  <2>4. \A i \in 1..(1 + n) : whole[i] = queue[i]
    BY <2>1, <2>2, <2>3
  <2>5. Len(whole) = Len(queue) /\ \A i \in 1..Len(whole) : whole[i] = queue[i]
    BY <2>2, <2>3, <2>4
  <2>6. whole = queue
    BY <1>2, <2>3, <2>5, SeqEqual
  <2> QED BY <2>6 DEF whole, h
<1> QED BY <1>1, <1>3

LEMMA LineOfAck ==
  ASSUME Safe, bot = "acking", UNCHANGED queue, processing' = Without(processing, hand)
  PROVE  Line' = Tail(Line)
<1>1. processing' = <<>> /\ queue \in Seq(Events)
  BY AckRemoves DEF Safe, TypeOK
<1>2. Line' = queue
  BY <1>1, ConcatEmptySeq DEF Line
<1> QED BY <1>2, LineFacts

LEMMA LineOfRecover ==
  ASSUME Safe, Recover
  PROVE  Line' = Line
<1>1. CASE processing = <<>>
  BY <1>1 DEF Recover, Line
<1>2. CASE processing # <<>>
  <2>1. PICK e \in Events : processing = <<e>>
    BY <1>2, InHandFacts
  <2>2. processing[Len(processing)] = e
    BY <2>1, OneElement
  <2>3. processing' = <<>>
    <3>1. processing' = SubSeq(<<e>>, 1, 0)
      BY <1>2, <2>1, OneElement DEF Recover
    <3> QED BY <3>1
  <2>4. queue' = <<e>> \o queue /\ queue \in Seq(Events)
    BY <1>2, <2>2 DEF Recover, Restored, Safe, TypeOK
  <2>5. Line' = <<e>> \o queue
    <3>1. <<e>> \o queue \in Seq(Events)
      BY <2>1, <2>4, OneElement, ConcatProperties
    <3>2. Line' = <<>> \o (<<e>> \o queue)
      BY <2>3, <2>4 DEF Line
    <3> QED BY <3>1, <3>2, ConcatEmptySeq
  <2> QED BY <2>1, <2>5 DEF Line
<1> QED BY <1>1, <1>2

(* The queue grows by a publication; the event in hand is handled or        *)
(* acknowledged; no other step changes the line.                            *)
Publishes == \E c \in Publishers : \E s \in InOrder(sending[c]) : s \in Seq(Events) /\ Line' = Line \o s
Handles == bot = "sending" /\ handled' = handled \cup {hand} /\ Line' = Line
Leaves == bot = "acking" /\ Line' = Tail(Line)

LEMMA LineMoves ==
  ASSUME Safe, [Next]_vars
  PROVE  \/ Line' = Line /\ handled' = handled
         \/ Publishes /\ handled' = handled /\ UNCHANGED <<row, commits>>
         \/ Handles /\ UNCHANGED <<row, sending, commits>>
         \/ Leaves /\ handled' = handled /\ UNCHANGED <<row, sending, commits>>
<1>1. ASSUME UNCHANGED <<queue, processing>>
      PROVE  Line' = Line
  BY <1>1 DEF Line
<1>2. ASSUME NEW s \in Sessions, Queue(s) \/ Rollback(s) \/ Commit(s)
      PROVE  Line' = Line /\ handled' = handled
  BY <1>1, <1>2 DEF Queue, Rollback, Commit, delivery
<1>3. ASSUME NEW c \in Publishers, Publish(c) \/ PublishFails(c)
      PROVE  (Line' = Line \/ Publishes) /\ handled' = handled /\ UNCHANGED <<row, commits>>
  <2>1. UNCHANGED <<processing, handled, row, commits>>
    BY <1>3 DEF Publish, PublishFails, GiveBack, delivery
  <2>2. UNCHANGED queue \/ \E s \in InOrder(sending[c]) : queue' = queue \o s
    BY <1>3 DEF Publish, PublishFails
  <2>3. CASE UNCHANGED queue
    BY <1>1, <2>1, <2>3
  <2>4. ASSUME NEW s \in InOrder(sending[c]), queue' = queue \o s
        PROVE  Publishes
    BY <2>1, <2>4, LineOfPublish DEF Publishes
  <2> QED BY <2>1, <2>2, <2>3, <2>4
<1>4. ASSUME \/ \E c \in Publishers : Mark(c) \/ MarkFails(c)
             \/ FindMissed \/ (\E e \in Events : Purge(e) \/ Age(e)) \/ BackendCrash
      PROVE  Line' = Line /\ handled' = handled
  BY <1>1, <1>4 DEF Mark, MarkFails, GiveBack, FindMissed, Purge, Age, BackendCrash, delivery
<1>5. CASE Recover
  BY <1>5, LineOfRecover DEF Recover
<1>6. CASE Take
  <2>1. processing = <<>>
    BY <1>6, InHandFacts DEF Take
  <2> QED BY <1>6, <2>1, LineOfTake DEF Take
<1>7. ASSUME MarkDirty \/ Send \/ Drop \/ Retry
      PROVE  \/ Line' = Line /\ handled' = handled
             \/ Handles /\ UNCHANGED <<row, sending, commits>>
  <2>1. UNCHANGED <<queue, processing, row, sending, commits>> /\ bot = "sending"
    BY <1>7 DEF MarkDirty, Send, Drop, Retry, Handled, backend
  <2>2. handled' = handled \/ handled' = handled \cup {hand}
    BY <1>7 DEF MarkDirty, Send, Drop, Retry, Handled
  <2> QED BY <1>1, <2>1, <2>2 DEF Handles
<1>8. ASSUME bot = "acking", UNCHANGED queue, processing' = Without(processing, hand)
      PROVE  Leaves
  BY <1>8, LineOfAck DEF Leaves
<1>9. CASE Ack
  BY <1>8, <1>9 DEF Ack, backend
<1>10. CASE LoopError
  <2>1. UNCHANGED <<handled, row, sending, commits>>
    BY <1>10 DEF LoopError, backend
  <2>2. CASE UNCHANGED <<queue, processing>>
    BY <1>1, <2>1, <2>2
  <2>3. CASE bot = "idle" /\ queue # <<>> /\ queue' = Tail(queue) /\ processing' = InHand(Head(queue))
    <3>1. processing = <<>>
      BY <2>3, InHandFacts
    <3> QED BY <2>1, <2>3, <3>1, LineOfTake
  <2>4. CASE bot = "acking" /\ processing' = Without(processing, hand) /\ UNCHANGED queue
    BY <1>8, <2>1, <2>4
  <2> QED BY <1>10, <2>2, <2>3, <2>4 DEF LoopError
<1>11. ASSUME BotCrash \/ BotStart \/ Refresher \/ UNCHANGED vars
       PROVE  Line' = Line /\ handled' = handled
  BY <1>1, <1>11 DEF BotCrash, BotStart, Refresher, Poll, PassReads, PassEnds, PassFails, PassIsLogged,
     vars, delivery
<1>12. CASE Backend
  BY <1>2, <1>3, <1>4, <1>12 DEF Backend
<1>13. CASE Bot
  BY <1>5, <1>6, <1>7, <1>9, <1>10, <1>11, <1>13 DEF Bot
<1> QED BY <1>11, <1>12, <1>13 DEF Next

LEMMA WayOfLine == Safe => Line \in Seq(Events) /\ ElementsOf(Line) = OnWay
BY LineFacts

(* What is in the line or was handled stays in the line or handled. *)
LEMMA ArrivedStays ==
  ASSUME Safe, [Next]_vars
  PROVE  \A e : e \in handled \/ OnTheWay(e) => e \in handled' \/ OnTheWay(e)'
<1>0. /\ \A e : OnTheWay(e) <=> e \in ElementsOf(Line)
      /\ Line \in Seq(Events)
  BY LineFacts DEF OnTheWay, OnWay
<1>1. \A e : OnTheWay(e)' <=> e \in ElementsOf(Line)'
  <2>1. Safe'
    BY SafeStep
  <2>2. (Line \in Seq(Events) /\ ElementsOf(Line) = OnWay)'
    BY <2>1, WayOfLine, PTL
  <2>3. ElementsOf(Line)' = OnWay'
    BY <2>2
  <2> QED BY <2>3 DEF OnTheWay, OnWay
<1>2. ElementsOf(Line)' = ElementsOf(Line')
  BY DEF ElementsOf
<1>3. CASE Line' = Line
  <2>1. handled \subseteq handled'
    BY LineMoves, InHandFacts DEF Handles
  <2> QED BY <1>0, <1>1, <1>2, <1>3, <2>1
<1>4. CASE Publishes /\ handled' = handled
  <2>1. PICK s \in Seq(Events) : Line' = Line \o s
    BY <1>4 DEF Publishes
  <2>2. ElementsOf(Line) \subseteq ElementsOf(Line')
    BY <1>0, <2>1, ElementsOfConcat
  <2> QED BY <1>0, <1>1, <1>2, <1>4, <2>2
<1>5. CASE Leaves /\ handled' = handled
  <2>1. Line # <<>> /\ Line[1] = hand /\ hand \in handled /\ Line' = Tail(Line) /\ hand \in Events
    BY <1>5, LineFacts DEF Leaves, Safe, SafeDelivery, OneInHand
  <2>2. ElementsOf(Line) = {hand} \cup ElementsOf(Line')
    BY <1>0, <2>1, ElementsOfTail
  <2> QED BY <1>0, <1>1, <1>2, <1>5, <2>1, <2>2
<1> QED BY <1>3, <1>4, <1>5, LineMoves DEF Handles

-----------------------------------------------------------------------------
(* The order in every step *)

(* The events of a commit are promised for the first time. *)
LEMMA CommitFacts ==
  ASSUME Safe, NEW s \in Sessions, Commit(s)
  PROVE  /\ commits' = commits \cup {Pending(s)} /\ Pending(s) \subseteq queued[s] /\ Pending(s) \subseteq Events
         /\ Pending(s) \cap Promised = {} /\ Promised' = Promised \cup Pending(s)
         /\ s \in Publishers /\ sending' = [sending EXCEPT ![s] = Pending(s)]
         /\ UNCHANGED <<old, handled, queue, processing>>
         /\ \A e \in Pending(s) : ~OnTheWay(e) /\ e \notin handled /\ \A c \in Publishers : e \notin sending[c]
<1>1. /\ commits' = commits \cup {Pending(s)} /\ s \in Publishers
      /\ sending' = [sending EXCEPT ![s] = Pending(s)] /\ UNCHANGED <<old, handled, queue, processing>>
  BY DEF Commit, Publishers, delivery
<1>2. Pending(s) \subseteq queued[s] /\ Pending(s) \subseteq Events
  BY DEF Safe, TypeOK, Pending
<1>3. Pending(s) \cap Promised = {} /\ Promised' = Promised \cup Pending(s)
  BY <1>2 DEF Commit, Pending, Promised, Safe, TypeOK
<1>4. \A e \in Pending(s) : ~OnTheWay(e) /\ e \notin handled /\ \A c \in Publishers : e \notin sending[c]
  BY <1>3 DEF Safe, SafeDelivery, NoPhantom, OnTheWay
<1> QED BY <1>1, <1>2, <1>3, <1>4

LEMMA PromisesStay ==
  ASSUME Safe, [Next]_vars
  PROVE  Promised \subseteq Promised'
BY DEF Next, Backend, Bot, Refresher, Queue, Rollback, Commit, Publish, PublishFails, Mark, MarkFails,
   GiveBack, FindMissed, Purge, Age, BackendCrash, Recover, Take, MarkDirty, Send, Drop, Retry, Handled, Ack,
   LoopError, BotCrash, BotStart, Poll, PassReads, PassEnds, PassFails, PassIsLogged, vars, backend,
   Promised, Absent, Pending, Safe, TypeOK

(* What is committed was rows of the session. *)
LEMMA CommitsGrow ==
  ASSUME Safe, [Next]_vars
  PROVE  commits' = commits \/ \E s \in Sessions : Commit(s)
BY DEF Next, Backend, Bot, Refresher, Queue, Rollback, Publish, PublishFails, Mark, MarkFails,
   GiveBack, FindMissed, Purge, Age, BackendCrash, Recover, Take, MarkDirty, Send, Drop, Retry, Handled, Ack,
   LoopError, BotCrash, BotStart, Poll, PassReads, PassEnds, PassFails, PassIsLogged, vars, backend

LEMMA LineOrderedStep ==
  ASSUME Safe, OrderSafe, [Next]_vars
  PROVE  LineOrdered'
<1>0. /\ Line \in Seq(Events) /\ ElementsOf(Line) = OnWay
      /\ Ordered(Line, handled, commits) /\ InBatchOrder
      /\ \A es \in commits : es \subseteq Events
      /\ \A e : OnTheWay(e) <=> e \in ElementsOf(Line)
  BY LineFacts DEF OrderSafe, LineOrdered, Safe, TypeOK, OnTheWay, OnWay
<1>1. SUFFICES ASSUME TRUE PROVE Ordered(Line', handled', commits') /\ InBatchOrder'
  BY DEF LineOrdered, Ordered
<1>2. ASSUME NEW s \in Sessions, Commit(s)
      PROVE  Ordered(Line', handled', commits') /\ InBatchOrder'
  <2>1. /\ commits' = commits \cup {Pending(s)} /\ handled' = handled /\ Line' = Line
        /\ \A e \in Pending(s) : e \notin ElementsOf(Line) /\ e \notin handled
    BY <1>0, <1>2, CommitFacts DEF Line
  <2>2. \A k \in 1..Len(Line) : Line[k] \notin Pending(s)
    BY <2>1 DEF ElementsOf
  <2>3. Ordered(Line, handled, commits \cup {Pending(s)})
    BY <1>0, <2>2 DEF Ordered
  <2>4. InBatchOrder'
    BY <1>0, <2>1 DEF InBatchOrder
  <2> QED BY <2>1, <2>3, <2>4
<1>3. CASE commits' = commits /\ Line' = Line /\ handled' = handled
  BY <1>0, <1>3 DEF InBatchOrder
<1>4. CASE Publishes /\ handled' = handled /\ commits' = commits
  <2>1. PICK c \in Publishers : \E s \in InOrder(sending[c]) : s \in Seq(Events) /\ Line' = Line \o s
    BY <1>4 DEF Publishes
  <2>2. PICK s \in InOrder(sending[c]) : s \in Seq(Events) /\ Line' = Line \o s
    BY <2>1
  <2>3. \A es \in commits : \A e, f \in es :
          e < f /\ f \in sending[c] => e \in sending[c] \/ e \in handled \/ e \in ElementsOf(Line)
    BY <1>0 DEF OrderSafe, SentInOrder
  <2>4. sending[c] \in SUBSET Events
    BY DEF Safe, TypeOK
  <2>5. Ordered(Line \o s, handled, commits)
    BY <1>0, <2>3, <2>4, OrderOfConcat
  <2> QED BY <1>0, <1>4, <2>2, <2>5 DEF InBatchOrder
<1>5. CASE Leaves /\ handled' = handled /\ commits' = commits
  <2>1. Line # <<>> /\ Line[1] \in handled /\ Line' = Tail(Line)
    BY <1>5, LineFacts DEF Leaves, Safe, SafeDelivery, OneInHand
  <2> QED BY <1>0, <1>5, <2>1, OrderOfTail DEF InBatchOrder
<1>6. CASE Handles /\ commits' = commits
  <2>1. Line # <<>> /\ Line[1] = hand /\ handled' = handled \cup {hand} /\ Line' = Line
    BY <1>6, LineFacts DEF Handles
  <2>2. Ordered(Line, handled', commits)
    BY <1>0, <2>1, OrderOfMore
  <2>3. 1 \in 1..Len(Line)
    <3>1. Len(Line) \in Nat \ {0}
      BY <1>0, <2>1, EmptySeq
    <3> QED BY <3>1
  <2>4. \A es \in commits : \A e \in es : e < hand /\ hand \in es => e \in handled
    BY <1>0, <2>1, <2>3 DEF Ordered
  <2> QED BY <1>0, <1>6, <2>1, <2>2, <2>4 DEF InBatchOrder
<1> QED BY <1>2, <1>3, <1>4, <1>5, <1>6, LineMoves, CommitsGrow

(* Rows that grow old, commits and ids. *)
LEMMA RowsOrderedStep ==
  ASSUME Safe, OrderSafe, [Next]_vars
  PROVE  RowsOrdered'
<1>0. RowsOrdered /\ Events \subseteq Nat
  BY OutboxAssumption DEF OrderSafe, OutboxAssumption
<1>1. ASSUME UNCHANGED <<row, old, queued, commits>>
      PROVE  RowsOrdered'
  BY <1>0, <1>1 DEF RowsOrdered, AgedInOrder, IdsGrow, CommitsPromised, Promised
<1>2. ASSUME UNCHANGED <<old, queued, commits>>, Promised \subseteq Promised',
             \A e \in Events : row'[e] = "absent" <=> row[e] = "absent",
             \A e \in Events : row[e] = "lost" => row'[e] = "lost"
      PROVE  RowsOrdered'
  <2>1. AgedInOrder'
    <3>1. \A es \in commits \cup {queued[s] : s \in Sessions} : es \subseteq Events
      BY DEF Safe, TypeOK
    <3> QED BY <1>0, <1>2, <3>1 DEF RowsOrdered, AgedInOrder
  <2>2. IdsGrow'
    BY <1>0, <1>2 DEF RowsOrdered, IdsGrow, Safe, TypeOK
  <2>3. CommitsPromised'
    BY <1>0, <1>2 DEF RowsOrdered, CommitsPromised
  <2> QED BY <2>1, <2>2, <2>3 DEF RowsOrdered
<1>3. ASSUME NEW s \in Sessions, Queue(s)
      PROVE  RowsOrdered'
  <2>1. PICK e \in Absent : /\ \A f \in Absent : e <= f
                            /\ row' = [row EXCEPT ![e] = "queued"]
                            /\ queued' = [queued EXCEPT ![s] = Pending(s) \cup {e}]
    BY <1>3 DEF Queue
  <2>2. UNCHANGED <<old, commits>> /\ e \in Events /\ row[e] = "absent" /\ Promised \subseteq Promised'
    BY <1>3, PromisesStay DEF Queue, Absent
  <2>3. Pending(s) \subseteq queued[s] /\ Pending(s) \subseteq Events /\ \A f \in Pending(s) : row[f] = "queued"
    BY DEF Pending, Safe, TypeOK
  <2>4. e \notin old /\ \A f \in Pending(s) : f < e /\ ~(e < f)
    <3>1. \A f \in Pending(s) : f < e
      BY <1>0, <2>2, <2>3 DEF RowsOrdered, IdsGrow
    <3>2. \A f \in Pending(s) : ~(e < f)
      <4> SUFFICES ASSUME NEW f \in Pending(s) PROVE ~(e < f)
        OBVIOUS
      <4>1. e \in Nat /\ f \in Nat /\ f < e
        BY <1>0, <2>2, <2>3, <3>1
      <4> QED BY <4>1
    <3>3. e \notin old
      BY <1>0, <2>2 DEF RowsOrdered, IdsGrow
    <3> QED BY <3>1, <3>2, <3>3
  <2>5. /\ queued'[s] = Pending(s) \cup {e} /\ \A t \in Sessions \ {s} : queued'[t] = queued[t]
        /\ \A f \in Events : row[f] = "lost" => row'[f] = "lost"
    BY <2>1, <2>2 DEF Safe, TypeOK
  <2>6. AgedInOrder'
    <3> SUFFICES ASSUME NEW es \in commits \cup {queued'[t] : t \in Sessions}, NEW x \in es, NEW y \in es,
                        x < y, y \in old, x \notin old
                 PROVE  row'[x] = "lost"
      BY <2>2 DEF AgedInOrder
    <3>1. ASSUME es \in commits \cup {queued[t] : t \in Sessions}
          PROVE  row'[x] = "lost"
      BY <1>0, <2>5, <3>1 DEF RowsOrdered, AgedInOrder, Safe, TypeOK
    <3>2. CASE es = Pending(s) \cup {e}
      <4>1. y \in Pending(s)
        BY <2>4, <3>2
      <4>2. x \in Pending(s)
        BY <2>4, <3>2, <4>1
      <4>3. row[x] = "lost"
        BY <1>0, <2>3, <4>1, <4>2 DEF RowsOrdered, AgedInOrder
      <4> QED BY <2>3, <4>2, <4>3
    <3> QED BY <2>5, <3>1, <3>2
  <2>7. IdsGrow'
    <3>1. \A f \in Events : row'[f] = IF f = e THEN "queued" ELSE row[f]
      BY <2>1, <2>2 DEF Safe, TypeOK
    <3>2. \A f \in Events : row[f] = "absent" => e <= f
      BY <2>1 DEF Absent
    <3>3. ASSUME NEW x \in Events, NEW y \in Events, row'[x] # "absent", row'[y] = "absent"
          PROVE  x < y
      <4>1. row[y] = "absent" /\ y # e
        BY <3>1, <3>3
      <4>2. CASE x = e
        BY <1>0, <3>2, <4>1, <4>2
      <4>3. CASE x # e
        BY <1>0, <3>1, <3>3, <4>1, <4>3 DEF RowsOrdered, IdsGrow
      <4> QED BY <4>2, <4>3
    <3>4. \A x \in old : row'[x] # "absent"
      BY <1>0, <3>1 DEF RowsOrdered, IdsGrow, Safe, TypeOK
    <3> QED BY <2>2, <3>3, <3>4 DEF IdsGrow
  <2>8. CommitsPromised'
    BY <1>0, <2>2 DEF RowsOrdered, CommitsPromised
  <2> QED BY <2>6, <2>7, <2>8 DEF RowsOrdered
<1>4. ASSUME NEW s \in Sessions, Commit(s)
      PROVE  RowsOrdered'
  <2>1. /\ commits' = commits \cup {Pending(s)} /\ Pending(s) \subseteq queued[s] /\ Pending(s) \subseteq Events
        /\ Promised' = Promised \cup Pending(s) /\ UNCHANGED old
    BY <1>4, CommitFacts
  <2>2. /\ \A t \in Sessions : queued'[t] \subseteq queued[t]
        /\ \A f \in Events : row'[f] = IF f \in Pending(s) THEN "unpublished" ELSE row[f]
        /\ \A f \in Pending(s) : row[f] = "queued"
    BY <1>4 DEF Commit, Pending, Safe, TypeOK
  <2>3. AgedInOrder'
    <3> SUFFICES ASSUME NEW es \in commits' \cup {queued'[t] : t \in Sessions}, NEW x \in es, NEW y \in es,
                        x < y, y \in old, x \notin old
                 PROVE  row'[x] = "lost"
      BY <2>1 DEF AgedInOrder
    <3>1. \E os \in commits \cup {queued[t] : t \in Sessions} : es \subseteq os
      BY <2>1, <2>2
    <3>2. row[x] = "lost" /\ x \in Events
      BY <1>0, <3>1 DEF RowsOrdered, AgedInOrder, Safe, TypeOK
    <3> QED BY <2>2, <3>2
  <2>4. IdsGrow'
    BY <1>0, <2>1, <2>2 DEF RowsOrdered, IdsGrow, Safe, TypeOK
  <2>5. CommitsPromised'
    BY <1>0, <2>1 DEF RowsOrdered, CommitsPromised
  <2> QED BY <2>3, <2>4, <2>5 DEF RowsOrdered
<1>5. ASSUME NEW e \in Events, Age(e)
      PROVE  RowsOrdered'
  <2>1. /\ UNCHANGED <<row, queued, commits>> /\ old' = old \cup {e} /\ row[e] # "absent"
        /\ \A es \in commits \cup {queued[s] : s \in Sessions} :
             e \in es => \A f \in es : f < e => f \in old \/ row[f] = "lost"
    BY <1>5 DEF Age
  <2>2. AgedInOrder'
    BY <1>0, <2>1 DEF RowsOrdered, AgedInOrder
  <2> QED BY <1>0, <2>1, <2>2 DEF RowsOrdered, IdsGrow, CommitsPromised, Promised
<1>6. ASSUME \/ \E s \in Sessions : Rollback(s)
             \/ \E c \in Publishers : Mark(c)
             \/ \E e \in Events : Purge(e)
      PROVE  RowsOrdered'
  <2>1. UNCHANGED <<old, queued, commits>>
    BY <1>6 DEF Rollback, Mark, GiveBack, Purge
  <2>2. /\ \A e \in Events : row'[e] = "absent" <=> row[e] = "absent"
        /\ \A e \in Events : row[e] = "lost" => row'[e] = "lost"
    BY <1>6 DEF Rollback, Pending, Mark, Purge, Safe, TypeOK
  <2> QED BY <1>2, <2>1, <2>2, PromisesStay
<1>7. ASSUME BackendCrash
      PROVE  RowsOrdered'
  <2>1. UNCHANGED <<old, commits>> /\ \A s \in Sessions : queued'[s] = {}
    BY <1>7 DEF BackendCrash
  <2>2. /\ \A e \in Events : row'[e] = "absent" <=> row[e] = "absent"
        /\ \A e \in Events : row[e] = "lost" => row'[e] = "lost"
    BY <1>7 DEF BackendCrash, Safe, TypeOK
  <2>3. AgedInOrder'
    <3> SUFFICES ASSUME NEW es \in commits' \cup {queued'[t] : t \in Sessions}, NEW x \in es, NEW y \in es,
                        x < y, y \in old, x \notin old
                 PROVE  row'[x] = "lost"
      BY <2>1 DEF AgedInOrder
    <3>1. es \in commits
      BY <2>1
    <3>2. row[x] = "lost" /\ x \in Events
      BY <1>0, <3>1 DEF RowsOrdered, AgedInOrder, Safe, TypeOK
    <3> QED BY <2>2, <3>2
  <2>4. IdsGrow'
    BY <1>0, <2>1, <2>2 DEF RowsOrdered, IdsGrow, Safe, TypeOK
  <2>5. CommitsPromised'
    BY <1>0, <2>1, PromisesStay DEF RowsOrdered, CommitsPromised
  <2> QED BY <2>3, <2>4, <2>5 DEF RowsOrdered
<1>8. ASSUME \/ \E c \in Publishers : Publish(c) \/ PublishFails(c) \/ MarkFails(c)
             \/ FindMissed \/ Bot \/ Refresher \/ UNCHANGED vars
      PROVE  RowsOrdered'
  <2>1. UNCHANGED <<row, old, queued, commits>>
    BY <1>8 DEF Publish, PublishFails, MarkFails, GiveBack, FindMissed, Bot, Recover, Take, MarkDirty, Send,
       Drop, Retry, Handled, Ack, LoopError, BotCrash, BotStart, Refresher, Poll, PassReads, PassEnds, PassFails,
       PassIsLogged, vars, backend
  <2> QED BY <1>1, <2>1
<1> QED BY <1>3, <1>4, <1>5, <1>6, <1>7, <1>8 DEF Next, Backend

(* What is published goes out with its predecessors or after them. *)
LEMMA SentInOrderStep ==
  ASSUME Safe, OrderSafe, [Next]_vars
  PROVE  SentInOrder'
<1>0. SentInOrder /\ RowsOrdered /\ Events \subseteq Nat
  BY OutboxAssumption DEF OrderSafe, OutboxAssumption
<1>1. \A e : e \in handled \/ OnTheWay(e) => e \in handled' \/ OnTheWay(e)'
  BY ArrivedStays
<1>2. ASSUME NEW s \in Sessions, Commit(s)
      PROVE  SentInOrder'
  <2>1. /\ commits' = commits \cup {Pending(s)} /\ s \in Publishers /\ Pending(s) \cap Promised = {}
        /\ sending' = [sending EXCEPT ![s] = Pending(s)]
        /\ \A e \in Pending(s) : \A c \in Publishers : e \notin sending[c]
    BY <1>2, CommitFacts
  <2>2. sending'[s] = Pending(s) /\ \A c \in Publishers \ {s} : sending'[c] = sending[c]
    BY <2>1 DEF Safe, TypeOK
  <2> SUFFICES ASSUME NEW c \in Publishers, NEW es \in commits', NEW e \in es, NEW f \in es,
                      e < f, f \in sending'[c]
               PROVE  e \in sending'[c] \/ e \in handled' \/ OnTheWay(e)'
    BY DEF SentInOrder
  <2>3. CASE c = s
    <3>1. f \in Pending(s)
      BY <2>2, <2>3
    <3>2. es = Pending(s)
      BY <1>0, <2>1, <3>1 DEF RowsOrdered, CommitsPromised
    <3> QED BY <2>2, <2>3, <3>2
  <2>4. CASE c # s
    <3>1. f \in sending[c] /\ es \in commits
      BY <2>1, <2>2, <2>4
    <3> QED BY <1>0, <1>1, <2>2, <2>4, <3>1 DEF SentInOrder
  <2> QED BY <2>3, <2>4
<1>3. ASSUME FindMissed
      PROVE  SentInOrder'
  <2>1. PICK es \in SUBSET Due : (\A e \in es, f \in Due \ es : e < f) /\ sending' = [sending EXCEPT ![Job] = es]
    BY <1>3 DEF FindMissed
  <2>2. Job \in Publishers /\ UNCHANGED <<row, commits>>
    BY <1>3 DEF Publishers, FindMissed
  <2>3. sending'[Job] = es /\ \A c \in Publishers \ {Job} : sending'[c] = sending[c]
    BY <2>1, <2>2 DEF Safe, TypeOK
  <2> SUFFICES ASSUME NEW c \in Publishers, NEW us \in commits, NEW e \in us, NEW f \in us,
                      e < f, f \in sending'[c]
               PROVE  e \in sending'[c] \/ e \in handled' \/ OnTheWay(e)'
    BY <2>2 DEF SentInOrder
  <2>4. CASE c = Job
    <3>1. f \in es /\ f \in Due
      BY <2>3, <2>4
    <3>2. e \in Promised /\ f \in Promised
      BY <1>0 DEF RowsOrdered, CommitsPromised
    <3>3. e \in old
      <4>1. f \in old
        BY <3>1 DEF Due
      <4>2. row[e] # "lost"
        BY <3>2 DEF Promised
      <4> QED BY <1>0, <4>1, <4>2 DEF RowsOrdered, AgedInOrder
    <3>4. CASE row[e] = "unpublished"
      <4>1. e \in Due /\ e \in Events /\ f \in Events
        BY <3>2, <3>3, <3>4 DEF Due, Unpublished, Promised
      <4>2. ~(f < e)
        BY <1>0, <4>1
      <4> QED BY <2>1, <2>3, <2>4, <3>1, <4>1, <4>2
    <3>5. CASE row[e] \in {"published", "purged"}
      <4>1. e \in handled \/ OnTheWay(e)
        BY <3>2, <3>5 DEF Safe, SafeDelivery, Pushed, Promised
      <4> QED BY <1>1, <4>1
    <3> QED BY <3>2, <3>4, <3>5 DEF Promised
  <2>5. CASE c # Job
    BY <1>0, <1>1, <2>3, <2>5 DEF SentInOrder
  <2> QED BY <2>4, <2>5
<1>4. ASSUME UNCHANGED commits, NEW c0 \in Publishers, UNCHANGED sending \/ GiveBack(c0)
      PROVE  SentInOrder'
  <2>1. \A c \in Publishers : sending'[c] = sending[c] \/ sending'[c] = {}
    BY <1>4 DEF GiveBack, Safe, TypeOK
  <2> QED BY <1>0, <1>1, <1>4, <2>1 DEF SentInOrder
<1>5. CASE BackendCrash
  <2>1. commits' = commits /\ \A c \in Publishers : sending'[c] = {}
    BY <1>5 DEF BackendCrash
  <2> QED BY <2>1 DEF SentInOrder
<1>6. ASSUME \/ \E s \in Sessions : Queue(s) \/ Rollback(s)
             \/ \E c \in Publishers : Publish(c)
             \/ \E e \in Events : Purge(e) \/ Age(e)
             \/ Bot \/ Refresher \/ UNCHANGED vars
      PROVE  SentInOrder'
  <2>1. UNCHANGED <<sending, commits>> /\ Job \in Publishers
    BY <1>6 DEF Queue, Rollback, Publish, Purge, Age, Bot, Recover, Take, MarkDirty, Send,
       Drop, Retry, Handled, Ack, LoopError, BotCrash, BotStart, Refresher, Poll, PassReads, PassEnds, PassFails,
       PassIsLogged, vars, backend, Publishers
  <2> QED BY <1>4, <2>1
<1>7. ASSUME NEW c \in Publishers, PublishFails(c) \/ Mark(c) \/ MarkFails(c)
      PROVE  SentInOrder'
  <2>1. GiveBack(c) /\ UNCHANGED commits
    BY <1>7 DEF PublishFails, Mark, MarkFails, GiveBack
  <2> QED BY <1>4, <2>1
<1> QED BY <1>2, <1>3, <1>5, <1>6, <1>7 DEF Next, Backend

LEMMA OrderInit == Init => OrderSafe
<1> SUFFICES ASSUME Init PROVE OrderSafe
  OBVIOUS
<1>1. SentInOrder /\ InBatchOrder /\ CommitsPromised
  BY DEF Init, SentInOrder, InBatchOrder, CommitsPromised
<1>2. Ordered(Line, handled, commits)
  BY DEF Init, Ordered
<1>3. AgedInOrder /\ IdsGrow
  BY DEF Init, AgedInOrder, IdsGrow
<1> QED BY <1>1, <1>2, <1>3 DEF OrderSafe, LineOrdered, RowsOrdered

LEMMA OrderAlways == Spec => []OrderSafe
<1>1. Safe /\ OrderSafe /\ [Next]_vars => OrderSafe'
  BY LineOrderedStep, RowsOrderedStep, SentInOrderStep DEF OrderSafe
<1> QED BY <1>1, OrderInit, SafeAlways, PTL DEF Spec

(* What one transaction tells is handled in its order, even if it was       *)
(* published in parts, twice, or interrupted.                               *)
THEOREM ToldInOrder == Spec => []InBatchOrder
<1>1. OrderSafe => InBatchOrder
  BY DEF OrderSafe, LineOrdered
<1> QED BY <1>1, OrderAlways, PTL

-----------------------------------------------------------------------------
(* The number of deliveries: the invariant behind DeliveredOnce            *)

(* As long as nothing went wrong, a row is published by the session that    *)
(* committed it and by nobody else.                                          *)
RowsOnce ==
  /\ sending[Job] = {}
  /\ \A e \in old : row[e] \notin {"queued", "unpublished"}
  /\ \A e \in Unpublished : \E s \in Sessions : e \in sending[s]
  /\ \A s, t \in Sessions : s # t => sending[s] \cap sending[t] = {}
  /\ \A s \in Sessions : pc[s] = "open" => sending[s] = {}

NoneTwice(line) == \A i, j \in 1..Len(line) : line[i] = line[j] => i = j

(* It stands in the line once, and is not handled before it is in hand. *)
LineOnce ==
  /\ \A s \in Sessions : pc[s] = "publishing" =>
       \A e \in sending[s] : e \notin handled /\ e \notin ElementsOf(Line)
  /\ NoneTwice(Line)
  /\ \A i \in 1..Len(Line) : Line[i] \in handled => i = 1 /\ bot = "acking"

Once == RowsOnce /\ LineOnce /\ twice = {}

OnceSafe == faults = 0 => Once

(* A step that leaves the count at zero is none of those that fail. *)
LEMMA NothingFailed ==
  ASSUME Safe, [Next]_vars, faults' = 0
  PROVE  /\ faults = 0
         /\ \A kind : ~Fault(kind)
<1>1. ASSUME NEW kind, Fault(kind)
      PROVE  FALSE
  <2>1. Weight[kind] \in Nat \ {0} /\ faults \in Nat
    BY <1>1, OutboxAssumption DEF OutboxAssumption, Fault, Safe, TypeOK
  <2>2. faults' = faults + Weight[kind]
    BY <1>1 DEF Fault
  <2> QED BY <2>1, <2>2
<1>2. UNCHANGED faults
  BY <1>1 DEF Next, Backend, Bot, Refresher, Queue, Rollback, Commit, Publish, PublishFails, Mark, MarkFails,
     FindMissed, Purge, Age, BackendCrash, Recover, Take, MarkDirty, Send, Drop, Retry, Ack,
     LoopError, BotCrash, BotStart, Poll, PassReads, PassEnds, PassFails, PassIsLogged, vars
<1> QED BY <1>1, <1>2

(* Pushing what is not in the line keeps everything there once. *)
LEMMA OnceOfConcat ==
  ASSUME NEW line \in Seq(Events), NoneTwice(line),
         NEW T \in SUBSET Events, NEW t \in InOrder(T), T \cap ElementsOf(line) = {}
  PROVE  NoneTwice(line \o t)
<1>1. t \in Seq(Events) /\ ElementsOf(t) = T
  BY InOrderElements
<1> DEFINE n == Len(line)
           m == Len(t)
           both == line \o t
<1>2. /\ n \in Nat /\ m \in Nat /\ Len(both) = n + m
      /\ \A i \in 1..(n + m) : both[i] = IF i <= n THEN line[i] ELSE t[i - n]
  BY <1>1, ConcatProperties, LenProperties
<1>3. \A i, j \in 1..m : t[i] = t[j] => i = j
  <2>1. IsFiniteSet(T)
    BY FS_Subset, OutboxAssumption DEF OutboxAssumption
  <2> DEFINE c == Cardinality(T)
  <2>2. c \in Nat /\ t \in [1..c -> T] /\ \A i, j \in 1..c : i < j => t[i] < t[j]
    BY <2>1, FS_CardinalityType DEF InOrder
  <2> HIDE DEF c
  <2>3. m = c
    BY <1>1, <2>2, LenProperties
  <2>4. ASSUME NEW i \in 1..c, NEW j \in 1..c, t[i] = t[j]
        PROVE  i = j
    <3>1. t[i] \in Nat /\ t[j] \in Nat
      BY <2>2, OutboxAssumption DEF OutboxAssumption
    <3>2. ~(i < j) /\ ~(j < i)
      BY <2>2, <2>4, <3>1
    <3> QED BY <2>2, <3>2
  <2> QED BY <2>3, <2>4
<1>4. \A i \in 1..n, j \in 1..m : line[i] # t[j]
  BY <1>1 DEF ElementsOf, n, m
<1>5. \A i, j \in 1..n : line[i] = line[j] => i = j
  BY DEF NoneTwice, n
<1> HIDE DEF n, m, both
<1>6. ASSUME NEW i \in 1..(n + m), NEW j \in 1..(n + m), both[i] = both[j]
      PROVE  i = j
  <2>1. CASE i <= n /\ j <= n
    BY <1>2, <1>5, <1>6, <2>1
  <2>2. CASE i <= n /\ ~(j <= n)
    <3>1. i \in 1..n /\ j - n \in 1..m /\ line[i] = t[j - n]
      BY <1>2, <1>6, <2>2
    <3> QED BY <1>4, <3>1
  <2>3. CASE ~(i <= n) /\ j <= n
    <3>1. j \in 1..n /\ i - n \in 1..m /\ line[j] = t[i - n]
      BY <1>2, <1>6, <2>3
    <3> QED BY <1>4, <3>1
  <2>4. CASE ~(i <= n) /\ ~(j <= n)
    <3>1. j - n \in 1..m /\ i - n \in 1..m /\ t[j - n] = t[i - n]
      BY <1>2, <1>6, <2>4
    <3>2. i - n = j - n
      BY <1>3, <3>1
    <3> QED BY <1>2, <3>2
  <2> QED BY <2>1, <2>2, <2>3, <2>4
<1>7. NoneTwice(both)
  BY <1>2, <1>6, Zenon DEF NoneTwice
<1> QED BY <1>7 DEF both

(* The front may leave. *)
LEMMA OnceOfTail ==
  ASSUME NEW line \in Seq(Events), line # <<>>, NoneTwice(line)
  PROVE  /\ NoneTwice(Tail(line)) /\ ElementsOf(Tail(line)) \subseteq ElementsOf(line)
         /\ \A i \in 1..Len(Tail(line)) : \E j \in 1..Len(line) : j # 1 /\ Tail(line)[i] = line[j]
<1> DEFINE n == Len(line)
           tail == Tail(line)
<1>1. n \in Nat /\ n # 0 /\ Len(tail) = n - 1 /\ \A i \in 1..(n - 1) : tail[i] = line[i + 1]
  BY HeadTailProperties, LenProperties, EmptySeq
<1>2. \A i, j \in 1..n : line[i] = line[j] => i = j
  BY DEF NoneTwice
<1>3. ElementsOf(tail) \subseteq ElementsOf(line)
  BY ElementsOfTail
<1> HIDE DEF n, tail
<1>4. \A i \in 1..(n - 1) : i + 1 \in 1..n /\ i + 1 # 1 /\ tail[i] = line[i + 1]
  BY <1>1
<1>5. ASSUME NEW i \in 1..(n - 1), NEW j \in 1..(n - 1), tail[i] = tail[j]
      PROVE  i = j
  <2>1. i + 1 = j + 1
    BY <1>2, <1>4, <1>5
  <2> QED BY <1>1, <2>1
<1>6. NoneTwice(tail)
  BY <1>1, <1>5, Zenon DEF NoneTwice
<1> QED BY <1>1, <1>3, <1>4, <1>6 DEF n, tail

LEMMA RowsOnceStep ==
  ASSUME Safe, OrderSafe, Once, faults = 0, [Next]_vars, faults' = 0
  PROVE  RowsOnce'
<1>0. /\ RowsOnce /\ (\A kind : ~Fault(kind)) /\ \A e \in old : row[e] # "absent"
      /\ Sessions \subseteq Publishers /\ Job \in Publishers /\ Job \notin Sessions
      /\ old \subseteq Events
  BY NothingFailed, OutboxAssumption
     DEF Once, OutboxAssumption, Publishers, OrderSafe, RowsOrdered, IdsGrow, Safe, TypeOK
<1>1. ASSUME UNCHANGED <<row, old, sending>>, \A s \in Sessions : pc'[s] = "open" => pc[s] = "open"
      PROVE  RowsOnce'
  BY <1>0, <1>1 DEF RowsOnce, Unpublished
<1>2. ASSUME NEW s \in Sessions, Queue(s)
      PROVE  RowsOnce'
  <2>1. PICK e \in Absent : row' = [row EXCEPT ![e] = "queued"]
    BY <1>2 DEF Queue
  <2>2. /\ UNCHANGED <<old, sending, pc>> /\ e \in Events /\ row[e] = "absent"
        /\ \A f \in Events : row'[f] = IF f = e THEN "queued" ELSE row[f]
    BY <1>2, <2>1 DEF Queue, Absent, Safe, TypeOK
  <2>3. Unpublished' = Unpublished
    BY <2>2 DEF Unpublished
  <2> QED BY <1>0, <2>2, <2>3 DEF RowsOnce
<1>3. ASSUME NEW s \in Sessions, Commit(s)
      PROVE  RowsOnce'
  <2>1. /\ Pending(s) \subseteq Events /\ UNCHANGED old
        /\ sending' = [sending EXCEPT ![s] = Pending(s)]
        /\ \A e \in Pending(s) : \A c \in Publishers : e \notin sending[c]
    BY <1>3, CommitFacts
  <2>2. sending'[s] = Pending(s) /\ \A c \in Publishers \ {s} : sending'[c] = sending[c]
    BY <1>0, <2>1 DEF Safe, TypeOK
  <2>3. /\ \A f \in Events : row'[f] = IF f \in Pending(s) THEN "unpublished" ELSE row[f]
        /\ \A f \in Pending(s) : row[f] = "queued"
    BY <1>3 DEF Commit, Pending, Safe, TypeOK
  <2>4. sending[s] \cap Unpublished = {}
    <3>1. pc[s] = "open"
      BY <1>3 DEF Commit
    <3> QED BY <1>0, <3>1 DEF RowsOnce
  <2>5. ASSUME NEW e \in Unpublished'
        PROVE  \E t \in Sessions : e \in sending'[t]
    <3>1. e \in Pending(s) \/ e \in Unpublished
      BY <2>3, <2>5 DEF Unpublished
    <3>2. CASE e \in Unpublished
      <4>1. PICK t \in Sessions : e \in sending[t]
        BY <1>0, <3>2 DEF RowsOnce
      <4> QED BY <1>0, <2>2, <2>4, <3>2, <4>1
    <3> QED BY <2>2, <3>1, <3>2
  <2>6. \A t, u \in Sessions : t # u => sending'[t] \cap sending'[u] = {}
    BY <1>0, <2>1, <2>2 DEF RowsOnce
  <2>7. \A e \in old : row'[e] \notin {"queued", "unpublished"}
    BY <1>0, <2>3 DEF RowsOnce
  <2>8. pc'[s] = "publishing" /\ \A t \in Sessions \ {s} : pc'[t] = pc[t]
    BY <1>0, <1>3 DEF Commit, Safe, TypeOK
  <2> QED BY <1>0, <2>1, <2>2, <2>5, <2>6, <2>7, <2>8 DEF RowsOnce
<1>4. ASSUME NEW c \in Publishers, Mark(c)
      PROVE  RowsOnce'
  <2>1. sending'[c] = {} /\ UNCHANGED old /\ \A d \in Publishers \ {c} : sending'[d] = sending[d]
    BY <1>4 DEF Mark, GiveBack, Safe, TypeOK
  <2>2. \A f \in Events : row'[f] = IF f \in sending[c] /\ row[f] = "unpublished" THEN "published" ELSE row[f]
    BY <1>4 DEF Mark
  <2>3. Unpublished' \subseteq Unpublished \ sending[c]
    BY <2>2 DEF Unpublished
  <2>4. \A e \in Unpublished' : \E t \in Sessions : e \in sending'[t]
    BY <1>0, <2>1, <2>3 DEF RowsOnce
  <2>5. \A e \in old : row'[e] \notin {"queued", "unpublished"}
    BY <1>0, <2>2 DEF RowsOnce
  <2>6. \A d \in Publishers \ {c} : pc'[d] = pc[d]
    BY <1>4 DEF Mark, GiveBack, Safe, TypeOK
  <2> QED BY <1>0, <2>1, <2>4, <2>5, <2>6 DEF RowsOnce
<1>5. ASSUME NEW e \in Events, Purge(e)
      PROVE  RowsOnce'
  <2>1. UNCHANGED <<old, sending, pc>> /\ \A f \in Events : row'[f] = IF f = e THEN "purged" ELSE row[f]
    BY <1>5 DEF Purge, Safe, TypeOK
  <2>2. Unpublished' \subseteq Unpublished
    BY <2>1 DEF Unpublished
  <2> QED BY <1>0, <2>1, <2>2 DEF RowsOnce
<1>6. ASSUME NEW e \in Events, Age(e)
      PROVE  RowsOnce'
  <2>1. UNCHANGED <<row, sending, pc>> /\ old' = old \cup {e} /\ ~InHands(e)
    BY <1>0, <1>6 DEF Age
  <2>2. row[e] \notin {"queued", "unpublished"}
    BY <1>0, <2>1 DEF InHands, RowsOnce, Unpublished
  <2> QED BY <1>0, <2>1, <2>2 DEF RowsOnce, Unpublished
<1>7. ~FindMissed
  <2>1. Due = {}
    BY <1>0 DEF RowsOnce, Due, Unpublished
  <2> QED BY <2>1 DEF FindMissed
<1>8. ASSUME \/ \E c \in Publishers : Publish(c)
             \/ Bot \/ Refresher \/ UNCHANGED vars
      PROVE  RowsOnce'
  <2>1. UNCHANGED <<row, old, sending>> /\ \A s \in Sessions : pc'[s] = "open" => pc[s] = "open"
    BY <1>0, <1>8 DEF Publish, Bot, Recover, Take, MarkDirty, Send,
       Drop, Retry, Handled, Ack, LoopError, BotCrash, BotStart, Refresher, Poll, PassReads, PassEnds, PassFails,
       PassIsLogged, vars, backend, Safe, TypeOK
  <2> QED BY <1>1, <2>1
<1>9. (\A s \in Sessions : ~Rollback(s)) /\ (\A c \in Publishers : ~PublishFails(c) /\ ~MarkFails(c)) /\ ~BackendCrash
  BY <1>0 DEF Rollback, PublishFails, MarkFails, BackendCrash
<1> QED BY <1>2, <1>3, <1>4, <1>5, <1>6, <1>7, <1>8, <1>9 DEF Next, Backend

LEMMA LineOnceStep ==
  ASSUME Safe, OrderSafe, Once, faults = 0, [Next]_vars, faults' = 0
  PROVE  LineOnce' /\ twice' = {}
<1>0. /\ LineOnce /\ RowsOnce /\ (\A kind : ~Fault(kind)) /\ twice = {}
      /\ Sessions \subseteq Publishers /\ Job \in Publishers /\ Job \notin Sessions
      /\ Line \in Seq(Events) /\ (\A e : OnTheWay(e) <=> e \in ElementsOf(Line))
  BY NothingFailed, LineFacts, OutboxAssumption
     DEF Once, OutboxAssumption, Publishers, OnTheWay, OnWay
<1>1. SUFFICES /\ \A s \in Sessions : pc'[s] = "publishing" =>
                    \A e \in sending'[s] : e \notin handled' /\ e \notin ElementsOf(Line')
               /\ NoneTwice(Line')
               /\ \A i \in 1..Len(Line') : Line'[i] \in handled' => i = 1 /\ bot' = "acking"
               /\ twice' = {}
  BY DEF LineOnce, ElementsOf, NoneTwice
<1>2. ASSUME Line' = Line, UNCHANGED <<handled, twice>>,
             bot = "acking" => bot' = "acking",
             \A s \in Sessions : pc'[s] = "publishing" => pc[s] = "publishing" /\ sending'[s] = sending[s]
      PROVE  /\ \A s \in Sessions : pc'[s] = "publishing" =>
                  \A e \in sending'[s] : e \notin handled' /\ e \notin ElementsOf(Line')
             /\ NoneTwice(Line')
             /\ \A i \in 1..Len(Line') : Line'[i] \in handled' => i = 1 /\ bot' = "acking"
             /\ twice' = {}
  BY <1>0, <1>2 DEF LineOnce
<1>3. ASSUME NEW s \in Sessions, Commit(s)
      PROVE  /\ \A t \in Sessions : pc'[t] = "publishing" =>
                  \A e \in sending'[t] : e \notin handled' /\ e \notin ElementsOf(Line')
             /\ NoneTwice(Line')
             /\ \A i \in 1..Len(Line') : Line'[i] \in handled' => i = 1 /\ bot' = "acking"
             /\ twice' = {}
  <2>1. /\ UNCHANGED <<handled, queue, processing>> /\ sending' = [sending EXCEPT ![s] = Pending(s)]
        /\ \A e \in Pending(s) : ~OnTheWay(e) /\ e \notin handled
    BY <1>3, CommitFacts
  <2>2. sending'[s] = Pending(s) /\ \A c \in Sessions \ {s} : sending'[c] = sending[c] /\ pc'[c] = pc[c]
    BY <1>0, <1>3, <2>1 DEF Commit, Safe, TypeOK
  <2>3. Line' = Line /\ UNCHANGED <<bot, twice>>
    BY <1>3, <2>1 DEF Line, Commit, delivery
  <2> QED BY <1>0, <2>1, <2>2, <2>3 DEF LineOnce
<1>4. ASSUME NEW c \in Publishers, Publish(c)
      PROVE  /\ \A t \in Sessions : pc'[t] = "publishing" =>
                  \A e \in sending'[t] : e \notin handled' /\ e \notin ElementsOf(Line')
             /\ NoneTwice(Line')
             /\ \A i \in 1..Len(Line') : Line'[i] \in handled' => i = 1 /\ bot' = "acking"
             /\ twice' = {}
  <2>1. PICK s \in InOrder(sending[c]) : queue' = queue \o s
    BY <1>4 DEF Publish
  <2>2. UNCHANGED <<processing, sending, handled, twice, bot>> /\ pc[c] = "publishing"
        /\ pc'[c] = "marking" /\ \A d \in Publishers \ {c} : pc'[d] = pc[d]
    BY <1>4 DEF Publish, delivery, Safe, TypeOK
  <2>3. Line' = Line \o s /\ s \in Seq(Events) /\ ElementsOf(s) = sending[c] /\ sending[c] \in SUBSET Events
    <3>1. sending[c] \in SUBSET Events
      BY DEF Safe, TypeOK
    <3> QED BY <2>1, <2>2, <3>1, LineOfPublish, InOrderElements
  <2>4. \A e \in sending[c] : e \notin handled /\ e \notin ElementsOf(Line)
    BY <1>0, <2>2 DEF RowsOnce, LineOnce, Publishers
  <2>5. NoneTwice(Line \o s)
    BY <1>0, <2>3, <2>4, OnceOfConcat DEF LineOnce
  <2>6. ElementsOf(Line') = ElementsOf(Line) \cup sending[c]
    BY <1>0, <2>3, ElementsOfConcat
  <2>7. ASSUME NEW i \in 1..Len(Line'), Line'[i] \in handled
        PROVE  i = 1 /\ bot = "acking"
    <3>1. /\ Len(Line) \in Nat /\ Len(s) \in Nat /\ Len(Line') = Len(Line) + Len(s)
          /\ Line'[i] = IF i <= Len(Line) THEN Line[i] ELSE s[i - Len(Line)]
      BY <1>0, <2>3, ConcatProperties, LenProperties
    <3>2. CASE i <= Len(Line)
      BY <1>0, <2>7, <3>1, <3>2 DEF LineOnce
    <3>3. CASE ~(i <= Len(Line))
      <4>1. i - Len(Line) \in 1..Len(s)
        BY <3>1, <3>3
      <4>2. s[i - Len(Line)] \in sending[c]
        BY <2>3, <4>1 DEF ElementsOf
      <4> QED BY <2>4, <2>7, <3>1, <3>3, <4>2
    <3> QED BY <3>2, <3>3
  <2>8. ASSUME NEW t \in Sessions, pc'[t] = "publishing", NEW e \in sending'[t]
        PROVE  e \notin handled' /\ e \notin ElementsOf(Line')
    <3>1. t # c /\ t \in Publishers /\ pc[t] = "publishing" /\ e \in sending[t]
      BY <1>0, <2>2, <2>8
    <3>2. e \notin sending[c]
      BY <1>0, <3>1 DEF RowsOnce, Publishers
    <3> QED BY <1>0, <2>2, <2>6, <2>8, <3>1, <3>2 DEF LineOnce
  <2> QED BY <1>0, <2>2, <2>3, <2>5, <2>7, <2>8
<1>5. ASSUME Handles, UNCHANGED <<sending, pc>>, bot' = "acking", twice' = {}
      PROVE  /\ \A s \in Sessions : pc'[s] = "publishing" =>
                  \A e \in sending'[s] : e \notin handled' /\ e \notin ElementsOf(Line')
             /\ NoneTwice(Line')
             /\ \A i \in 1..Len(Line') : Line'[i] \in handled' => i = 1 /\ bot' = "acking"
             /\ twice' = {}
  <2>1. Line # <<>> /\ Line[1] = hand /\ handled' = handled \cup {hand} /\ Line' = Line /\ bot = "sending"
    BY <1>5, LineFacts DEF Handles
  <2>2. 1 \in 1..Len(Line)
    <3>1. Len(Line) \in Nat \ {0}
      BY <1>0, <2>1, EmptySeq
    <3> QED BY <3>1
  <2>3. hand \in ElementsOf(Line)
    BY <2>1, <2>2 DEF ElementsOf
  <2>4. \A i \in 1..Len(Line) : Line[i] = hand => i = 1
    BY <1>0, <2>1, <2>2 DEF LineOnce, NoneTwice
  <2> QED BY <1>0, <1>5, <2>1, <2>3, <2>4 DEF LineOnce
<1>6. ASSUME Leaves, UNCHANGED <<sending, pc, handled, twice>>
      PROVE  /\ \A s \in Sessions : pc'[s] = "publishing" =>
                  \A e \in sending'[s] : e \notin handled' /\ e \notin ElementsOf(Line')
             /\ NoneTwice(Line')
             /\ \A i \in 1..Len(Line') : Line'[i] \in handled' => i = 1 /\ bot' = "acking"
             /\ twice' = {}
  <2>1. Line # <<>> /\ Line' = Tail(Line)
    BY <1>6, LineFacts DEF Leaves
  <2>2. /\ NoneTwice(Line') /\ ElementsOf(Line') \subseteq ElementsOf(Line)
        /\ \A i \in 1..Len(Line') : \E j \in 1..Len(Line) : j # 1 /\ Line'[i] = Line[j]
    BY <1>0, <2>1, OnceOfTail DEF LineOnce
  <2>3. \A i \in 1..Len(Line') : Line'[i] \notin handled
    BY <1>0, <2>2 DEF LineOnce
  <2> QED BY <1>0, <1>6, <2>2, <2>3 DEF LineOnce
<1>7. CASE MarkDirty \/ Send
  <2>1. UNCHANGED <<queue, processing, sending, pc>> /\ bot = "sending" /\ bot' = "acking"
        /\ handled' = handled \cup {hand}
    BY <1>7 DEF MarkDirty, Send, Handled, backend
  <2>2. Handles /\ Line' = Line
    BY <2>1 DEF Handles, Line
  <2>3. hand \notin handled
    <3>1. Line # <<>> /\ Line[1] = hand
      BY <2>1, LineFacts
    <3>2. Len(Line) \in Nat \ {0}
      BY <1>0, <3>1, EmptySeq
    <3>3. 1 \in 1..Len(Line)
      BY <3>2
    <3> QED BY <1>0, <2>1, <3>1, <3>3 DEF LineOnce
  <2>4. twice' = {}
    BY <1>0, <1>7, <2>3 DEF MarkDirty, Send, Sent
  <2> QED BY <1>5, <2>1, <2>2, <2>4
<1>8. CASE Ack
  <2>1. UNCHANGED <<sending, pc, handled, twice>> /\ Leaves
    BY <1>8, LineOfAck DEF Ack, backend, Leaves
  <2> QED BY <1>6, <2>1
<1>9. CASE Recover \/ Take
  <2>1. UNCHANGED <<sending, pc, handled, twice>> /\ bot # "acking"
    BY <1>9 DEF Recover, Take, backend
  <2>2. Line' = Line
    <3>1. ASSUME Take PROVE Line' = Line
      <4>1. processing = <<>>
        BY <3>1, InHandFacts DEF Take
      <4> QED BY <3>1, <4>1, LineOfTake DEF Take
    <3> QED BY <1>9, <3>1, LineOfRecover
  <2> QED BY <1>2, <2>1, <2>2
<1>10. CASE BotStart \/ Refresher \/ UNCHANGED vars
  <2>1. UNCHANGED <<queue, processing, sending, pc, handled, twice>> /\ (bot' = bot \/ bot # "acking")
    BY <1>10 DEF BotStart, Refresher, Poll, PassReads, PassEnds, PassFails, PassIsLogged, vars, backend, delivery
  <2>2. Line' = Line
    BY <2>1 DEF Line
  <2> QED BY <1>2, <2>1, <2>2
<1>11. ASSUME \/ \E s \in Sessions : Queue(s)
              \/ \E c \in Publishers : Mark(c)
              \/ FindMissed \/ \E e \in Events : Purge(e) \/ Age(e)
       PROVE  /\ \A s \in Sessions : pc'[s] = "publishing" =>
                   \A e \in sending'[s] : e \notin handled' /\ e \notin ElementsOf(Line')
              /\ NoneTwice(Line')
              /\ \A i \in 1..Len(Line') : Line'[i] \in handled' => i = 1 /\ bot' = "acking"
              /\ twice' = {}
  <2>1. UNCHANGED <<queue, processing, handled, twice, bot>>
    BY <1>11 DEF Queue, Mark, GiveBack, FindMissed, Purge, Age, delivery
  <2>2. \A s \in Sessions : pc'[s] = "publishing" => pc[s] = "publishing" /\ sending'[s] = sending[s]
    BY <1>0, <1>11 DEF Queue, Mark, GiveBack, FindMissed, Purge, Age, Safe, TypeOK
  <2>3. Line' = Line
    BY <2>1 DEF Line
  <2> QED BY <1>2, <2>1, <2>2, <2>3
<1>12. /\ \A s \in Sessions : ~Rollback(s)
       /\ \A c \in Publishers : ~PublishFails(c) /\ ~MarkFails(c)
       /\ ~BackendCrash /\ ~Drop /\ ~Retry /\ ~LoopError /\ ~BotCrash
  BY <1>0 DEF Rollback, PublishFails, MarkFails, BackendCrash, Drop, Retry, LoopError, BotCrash
<1>13. CASE Backend
  BY <1>3, <1>4, <1>11, <1>12, <1>13 DEF Backend
<1>14. CASE Bot
  BY <1>7, <1>8, <1>9, <1>10, <1>12, <1>14 DEF Bot
<1> QED BY <1>10, <1>13, <1>14 DEF Next

LEMMA OnceInit == Init => OnceSafe
<1> SUFFICES ASSUME Init PROVE Once
  BY DEF OnceSafe
<1>1. RowsOnce
  <2>1. Job \in Publishers /\ Sessions \subseteq Publishers
    BY DEF Publishers
  <2> QED BY <2>1 DEF Init, RowsOnce, Unpublished
<1>2. Line \in Seq(Events) /\ Len(Line) = 0 /\ ElementsOf(Line) = {}
  <2>1. Line = <<>>
    BY NoElement, ConcatEmptySeq DEF Init, Line
  <2> QED BY <2>1, NoElement
<1>3. LineOnce
  <2>1. \A s \in Sessions : sending[s] = {}
    BY DEF Init, Publishers
  <2> QED BY <1>2, <2>1 DEF LineOnce, NoneTwice
<1> QED BY <1>1, <1>3 DEF Init, Once

LEMMA OnceStep == Safe /\ OrderSafe /\ OnceSafe /\ [Next]_vars => OnceSafe'
<1> SUFFICES ASSUME Safe, OrderSafe, OnceSafe, [Next]_vars, faults' = 0
             PROVE  RowsOnce' /\ LineOnce' /\ twice' = {}
  BY DEF OnceSafe, Once
<1>1. faults = 0 /\ Once
  BY NothingFailed DEF OnceSafe
<1> QED BY <1>1, RowsOnceStep, LineOnceStep

(* As long as nothing goes wrong no message is sent twice, although the job *)
(* works on the rows of the sessions.                                        *)
THEOREM NothingSentTwice == Spec => []DeliveredOnce
<1>1. OnceSafe => DeliveredOnce
  BY DEF OnceSafe, Once, DeliveredOnce
<1> QED BY <1>1, OnceInit, OnceStep, SafeAlways, OrderAlways, PTL DEF Spec

==============================================================================
