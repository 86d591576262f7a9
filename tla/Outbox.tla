-------------------------------- MODULE Outbox --------------------------------
(***************************************************************************)
(* Events of the backend on their way to Telegram.                         *)
(*                                                                         *)
(* A session queues events, stores them in the transaction that causes     *)
(* them, pushes them to a Redis list after the commit and then marks them  *)
(* as published; a job does the last two steps for old rows that are not   *)
(* marked (app/services/outbox.py).  The bot moves an event to a second    *)
(* list while it is handled, and puts back what a previous run left there  *)
(* (app/bot/outbox_delivery.py, app/bot/main.py).  A change of the         *)
(* schedule marks the menus dirty; a background pass redraws them          *)
(* (app/bot/menu_refresh.py).                                              *)
(*                                                                         *)
(* An event is the id of its row; rows of one session have ids in the      *)
(* order of queueing.  The Redis lists survive (docker-compose.yml turns   *)
(* its append-only file on).  Texts and buttons are left out.              *)
(***************************************************************************)
EXTENDS Naturals, FiniteSets, Sequences, SequencesExt

CONSTANTS
  Sessions,     \* requests of the backend
  Job,          \* the job that publishes what was missed
  Events,       \* bound: events ever queued
  Changes,      \* the events that say `schedule_changed'
  Batch,        \* REPUBLISH_BATCH (200)
  MaxAttempts,  \* MAX_ATTEMPTS (5)
  Faults,       \* what goes wrong in this instance
  MaxFaults,    \* bound: how often,
  Weight,       \* when a kind of failure counts for this many
  None

ASSUME OutboxAssumption ==
  /\ Job \notin Sessions
  /\ Events \subseteq Nat /\ IsFiniteSet(Events)
  /\ Changes \subseteq Events
  /\ Batch \in Nat \ {0} /\ MaxAttempts \in Nat \ {0} /\ MaxFaults \in Nat
  /\ Weight \in [Faults -> Nat \ {0}]
  /\ Faults \subseteq
       {"rollback", "slow", "redis", "database", "backend", "bot", "telegram", "pass"}
  /\ None \notin Events

VARIABLES
  row,         \* outbox_events: the state of every row
  old,         \* rows that are older than REPUBLISH_AFTER
  queued,      \* what every session queued, session.info["outbox"]
  pc,          \* where every session and the job are
  sending,     \* what they are publishing
  queue,       \* the list bot:outbox
  processing,  \* the list bot:outbox:processing
  bot,         \* where the delivery loop is
  hand,        \* the event it has taken
  attempt,     \* attempts to send it so far
  dirty,       \* the menus have to be redrawn
  pass,        \* where the pass that redraws them is
  drawing,     \* the changes it has read
  shown,       \* history: changes that the menus show
  handled,     \* history: events sent, given up, or marked
  twice,       \* history: events sent more than once
  commits,     \* history: the events of every commit
  faults       \* history: how often something went wrong

backend == <<row, old, queued, pc, sending, commits>>
delivery == <<processing, bot, hand, attempt, handled, twice>>
menus == <<dirty, pass, drawing, shown>>
vars == <<backend, queue, delivery, menus, faults>>

Publishers == Sessions \cup {Job}

TypeOK ==
  /\ row \in [Events -> {"absent", "queued", "lost", "unpublished", "published", "purged"}]
  /\ old \subseteq Events
  /\ queued \in [Sessions -> SUBSET Events]
  /\ pc \in [Publishers -> {"open", "publishing", "marking"}]
  /\ sending \in [Publishers -> SUBSET Events]
  /\ queue \in Seq(Events) /\ processing \in Seq(Events)
  /\ bot \in {"down", "restoring", "idle", "sending", "acking"}
  /\ hand \in Events \cup {None}
  /\ attempt \in 0..MaxAttempts
  /\ bot = "sending" => attempt # MaxAttempts
  /\ dirty \in BOOLEAN
  /\ pass \in {"none", "reading", "drawing", "failed"}
  /\ drawing \subseteq Changes /\ shown \subseteq Changes
  /\ handled \subseteq Events /\ twice \subseteq Events
  /\ commits \subseteq SUBSET Events
  /\ faults \in 0..MaxFaults

\* Mistake: the loop goes straight to the queue.
OnStartIdle == "idle"

\* A new run of the loop restores what the last one left.
OnStart == "restoring"

Init ==
  /\ row = [e \in Events |-> "absent"]
  /\ old = {}
  /\ queued = [s \in Sessions |-> {}]
  /\ pc = [c \in Publishers |-> "open"]
  /\ sending = [c \in Publishers |-> {}]
  /\ queue = <<>> /\ processing = <<>>
  /\ bot = OnStart /\ hand = None /\ attempt = 0
  /\ dirty = FALSE /\ pass = "none" /\ drawing = {} /\ shown = {}
  /\ handled = {} /\ twice = {} /\ commits = {}
  /\ faults = 0

Fault(kind) ==
  /\ kind \in Faults /\ faults + Weight[kind] <= MaxFaults
  /\ faults' = faults + Weight[kind]

Promised == {e \in Events : row[e] \in {"unpublished", "published", "purged"}}
Absent == {e \in Events : row[e] = "absent"}

-----------------------------------------------------------------------------
(* Sessions *)

\* Mistake: what was rolled back is still on the list.
PendingAll(s) == queued[s]

\* The events of a session that were not rolled back.
Pending(s) == {e \in queued[s] : row[e] = "queued"}

\* Only one change of the schedule is queued in a transaction.
Queue(s) ==
  /\ pc[s] = "open"
  /\ \E e \in Absent :
       /\ \A f \in Absent : e <= f
       /\ e \in Changes => Pending(s) \cap Changes = {}
       /\ row' = [row EXCEPT ![e] = "queued"]
       /\ queued' = [queued EXCEPT ![s] = Pending(s) \cup {e}]
  /\ UNCHANGED <<old, pc, sending, commits, queue, delivery, menus, faults>>

\* The transaction is rolled back; the session keeps its list.
Rollback(s) ==
  /\ Fault("rollback")
  /\ pc[s] = "open" /\ Pending(s) # {}
  /\ row' = [e \in Events |-> IF e \in Pending(s) THEN "lost" ELSE row[e]]
  /\ UNCHANGED <<old, queued, pc, sending, commits, queue, delivery, menus>>

Commit(s) ==
  LET es == Pending(s) IN
  /\ pc[s] = "open" /\ es # {}
  /\ row' = [e \in Events |-> IF e \in es /\ row[e] = "queued" THEN "unpublished" ELSE row[e]]
  /\ queued' = [queued EXCEPT ![s] = {}]
  /\ sending' = [sending EXCEPT ![s] = es]
  /\ pc' = [pc EXCEPT ![s] = "publishing"]
  /\ commits' = commits \cup {es}
  /\ UNCHANGED <<old, queue, delivery, menus, faults>>

-----------------------------------------------------------------------------
(* Publishing, by a session or by the job *)

\* The set in the order of the ids.
InOrder(es) ==
  {s \in [1..Cardinality(es) -> es] :
     /\ {s[i] : i \in 1..Cardinality(es)} = es
     /\ \A i, j \in 1..Cardinality(es) : i < j => s[i] < s[j]}

Publish(c) ==
  /\ pc[c] = "publishing"
  /\ \E s \in InOrder(sending[c]) : queue' = queue \o s
  /\ pc' = [pc EXCEPT ![c] = "marking"]
  /\ UNCHANGED <<row, old, queued, sending, commits, delivery, menus, faults>>

GiveBack(c) ==
  /\ pc' = [pc EXCEPT ![c] = "open"]
  /\ sending' = [sending EXCEPT ![c] = {}]
  /\ UNCHANGED <<old, queued, commits, delivery, menus>>

\* Redis is down, or its answer is lost.
PublishFails(c) ==
  /\ Fault("redis")
  /\ pc[c] = "publishing"
  /\ \/ UNCHANGED queue
     \/ \E s \in InOrder(sending[c]) : queue' = queue \o s
  /\ GiveBack(c)
  /\ UNCHANGED row

Mark(c) ==
  /\ pc[c] = "marking"
  /\ row' = [e \in Events |-> IF e \in sending[c] /\ row[e] = "unpublished" THEN "published" ELSE row[e]]
  /\ GiveBack(c)
  /\ UNCHANGED <<queue, faults>>

MarkFails(c) ==
  /\ Fault("database")
  /\ pc[c] = "marking"
  /\ GiveBack(c)
  /\ UNCHANGED <<row, queue>>

Unpublished == {e \in Events : row[e] = "unpublished"}

\* Mistake: the rows of sessions that are just publishing them count, too.
DueAtOnce == Unpublished

Due == Unpublished \cap old

\* The first rows that are due, as many as a batch takes.
FindMissed ==
  /\ pc[Job] = "open" /\ Due # {}
  /\ \E es \in SUBSET Due :
       /\ \A e \in es, f \in Due \ es : e < f
       /\ Cardinality(es) = IF Cardinality(Due) < Batch THEN Cardinality(Due) ELSE Batch
       /\ sending' = [sending EXCEPT ![Job] = es]
  /\ pc' = [pc EXCEPT ![Job] = "publishing"]
  /\ UNCHANGED <<row, old, queued, commits, queue, delivery, menus, faults>>

Purge(e) ==
  /\ row[e] = "published" /\ e \in old
  /\ row' = [row EXCEPT ![e] = "purged"]
  /\ UNCHANGED <<old, queued, pc, sending, commits, queue, delivery, menus, faults>>

InHands(e) == row[e] = "queued" \/ \E s \in Sessions : e \in sending[s]

\* A row becomes older than REPUBLISH_AFTER; the rows of one session were
\* written in the order of their ids.  It may do so before it is committed or
\* while its session still publishes it, if that takes unusually long.
Age(e) ==
  /\ row[e] \in {"queued", "unpublished", "published"} /\ e \notin old
  /\ \A es \in commits \cup {queued[s] : s \in Sessions} :
       e \in es => \A f \in es : f < e => f \in old \/ row[f] = "lost"
  /\ IF InHands(e) THEN Fault("slow") ELSE UNCHANGED faults
  /\ old' = old \cup {e}
  /\ UNCHANGED <<row, queued, pc, sending, commits, queue, delivery, menus>>

BackendCrash ==
  /\ Fault("backend")
  /\ row' = [e \in Events |-> IF row[e] = "queued" THEN "lost" ELSE row[e]]
  /\ queued' = [s \in Sessions |-> {}]
  /\ pc' = [c \in Publishers |-> "open"]
  /\ sending' = [c \in Publishers |-> {}]
  /\ UNCHANGED <<old, commits, queue, delivery, menus>>

-----------------------------------------------------------------------------
(* The delivery loop of the bot *)

\* Mistake: what was unfinished goes to the end of the queue.
RestoredLast(e) == Append(queue, e)

Restored(e) == <<e>> \o queue

Recover ==
  /\ bot = "restoring"
  /\ IF processing = <<>>
     THEN bot' = "idle" /\ UNCHANGED <<queue, processing>>
     ELSE /\ queue' = Restored(processing[Len(processing)])
          /\ processing' = SubSeq(processing, 1, Len(processing) - 1)
          /\ UNCHANGED bot
  /\ UNCHANGED <<backend, hand, attempt, handled, twice, menus, faults>>

\* Mistake: the event is popped from the queue and kept in memory only.
InHandOnly(e) == processing

InHand(e) == Append(processing, e)

Take ==
  /\ bot = "idle" /\ queue # <<>>
  /\ queue' = Tail(queue)
  /\ processing' = InHand(Head(queue))
  /\ hand' = Head(queue)
  /\ attempt' = 0
  /\ bot' = "sending"
  /\ UNCHANGED <<backend, handled, twice, menus, faults>>

Handled(e) ==
  /\ handled' = handled \cup {e}
  /\ bot' = "acking"
  /\ UNCHANGED <<backend, queue, processing, hand, attempt>>

\* Mistake: a change is ignored while a pass is running.
MarkedIfNone == dirty \/ pass = "none"

Marked == TRUE

MarkDirty ==
  /\ bot = "sending" /\ hand \in Changes
  /\ dirty' = Marked
  /\ Handled(hand)
  /\ UNCHANGED <<twice, pass, drawing, shown, faults>>

Sent(e) == twice' = IF e \in handled THEN twice \cup {e} ELSE twice

Send ==
  /\ bot = "sending" /\ hand \notin Changes
  /\ Sent(hand)
  /\ Handled(hand)
  /\ UNCHANGED <<menus, faults>>

\* Telegram refuses the message for good; the event is dropped.
Drop ==
  /\ Fault("telegram")
  /\ bot = "sending" /\ hand \notin Changes
  /\ Handled(hand)
  /\ UNCHANGED <<twice, menus>>

LastAttempt == attempt + 1 = MaxAttempts

\* A flood limit or a network error, before or after the message was sent:
\* the loop waits and tries again, or gives up.
Retry ==
  /\ Fault("telegram")
  /\ bot = "sending" /\ hand \notin Changes
  /\ attempt' = attempt + 1
  /\ \/ ~LastAttempt /\ UNCHANGED <<bot, handled, twice>>
     \/ ~LastAttempt /\ Sent(hand) /\ handled' = handled \cup {hand} /\ UNCHANGED bot
     \/ LastAttempt /\ bot' = "acking" /\ handled' = handled \cup {hand} /\ UNCHANGED twice
  /\ UNCHANGED <<backend, queue, processing, hand, menus>>

\* The list without the first entry that equals e (LREM 1).
Without(list, e) == RemoveFirst(list, e)

Ack ==
  /\ bot = "acking"
  /\ processing' = Without(processing, hand)
  /\ hand' = None /\ attempt' = 0
  /\ bot' = "idle"
  /\ UNCHANGED <<backend, queue, handled, twice, menus, faults>>

\* A command to Redis fails: BLMOVE with or without effect, or LREM.
LoopError ==
  /\ Fault("redis")
  /\ bot \in {"restoring", "idle", "acking"}
  /\ \/ UNCHANGED <<queue, processing>>
     \/ /\ bot = "idle" /\ queue # <<>>
        /\ queue' = Tail(queue) /\ processing' = InHand(Head(queue))
     \/ /\ bot = "acking"
        /\ processing' = Without(processing, hand) /\ UNCHANGED queue
  /\ bot' = OnStart /\ hand' = None /\ attempt' = 0
  /\ UNCHANGED <<backend, handled, twice, menus>>

\* The bot stops anywhere; the pass and the mark are in its memory.
BotCrash ==
  /\ Fault("bot")
  /\ bot # "down"
  /\ bot' = "down" /\ hand' = None /\ attempt' = 0
  /\ dirty' = FALSE /\ pass' = "none" /\ drawing' = {}
  /\ UNCHANGED <<backend, queue, processing, handled, twice, shown>>

BotStart ==
  /\ bot = "down"
  /\ bot' = OnStart
  /\ UNCHANGED <<backend, queue, processing, hand, attempt, handled, twice, menus, faults>>

-----------------------------------------------------------------------------
(* Redrawing the menus *)

\* The queue is drained: a pass starts, unless one is running.
Poll ==
  /\ bot = "idle" /\ queue = <<>>
  /\ dirty /\ pass = "none"
  /\ dirty' = FALSE /\ pass' = "reading"
  /\ UNCHANGED <<backend, queue, delivery, drawing, shown, faults>>

\* The pass reads the schedule as it is by then.
PassReads ==
  /\ pass = "reading"
  /\ pass' = "drawing" /\ drawing' = Promised \cap Changes
  /\ UNCHANGED <<backend, queue, delivery, dirty, shown, faults>>

PassEnds ==
  /\ pass = "drawing"
  /\ pass' = "none" /\ drawing' = {} /\ shown' = shown \cup drawing
  /\ UNCHANGED <<backend, queue, delivery, dirty, faults>>

\* The schedule cannot be read, or Telegram asks to wait too long.
PassFails ==
  /\ Fault("pass")
  /\ pass \in {"reading", "drawing"}
  /\ pass' = "failed" /\ drawing' = {}
  /\ UNCHANGED <<backend, queue, delivery, dirty, shown>>

\* The failure is logged and that is all.
PassIsLogged ==
  /\ pass = "failed"
  /\ pass' = "none"
  /\ UNCHANGED <<backend, queue, delivery, dirty, drawing, shown, faults>>

-----------------------------------------------------------------------------
Backend ==
  \/ \E s \in Sessions : Queue(s) \/ Rollback(s) \/ Commit(s)
  \/ \E c \in Publishers : Publish(c) \/ PublishFails(c) \/ Mark(c) \/ MarkFails(c)
  \/ FindMissed \/ (\E e \in Events : Purge(e) \/ Age(e)) \/ BackendCrash

Bot ==
  \/ Recover \/ Take \/ MarkDirty \/ Send \/ Drop \/ Retry \/ Ack
  \/ LoopError \/ BotCrash \/ BotStart

Refresher == Poll \/ PassReads \/ PassEnds \/ PassFails \/ PassIsLogged

Next == Backend \/ Bot \/ Refresher

Spec == Init /\ [][Next]_vars

\* Requests go on, rows grow old, the job is scheduled again and again, the
\* bot is restarted and its loop runs.
Fairness ==
  /\ \A c \in Publishers : WF_vars(Publish(c)) /\ WF_vars(Mark(c))
  /\ \A e \in Events : WF_vars(Age(e))
  /\ WF_vars(FindMissed)
  /\ WF_vars(Recover) /\ WF_vars(Take) /\ WF_vars(MarkDirty) /\ WF_vars(Send)
  /\ WF_vars(Ack) /\ WF_vars(BotStart)
  /\ WF_vars(Poll) /\ WF_vars(PassReads) /\ WF_vars(PassEnds) /\ WF_vars(PassIsLogged)

FairSpec == Spec /\ Fairness

-----------------------------------------------------------------------------
(* What has to hold *)

ElementsOf(list) == {list[i] : i \in 1..Len(list)}
OnTheWay(e) == e \in ElementsOf(queue) \cup ElementsOf(processing)

(***************************************************************************)
(* "A committed one is never lost" (outbox.py:5): an event whose           *)
(* transaction was committed and that was not handled yet is still to be   *)
(* published or in one of the two lists, whoever crashes where.            *)
(***************************************************************************)
Accounted ==
  \A e \in Promised \ handled : row[e] = "unpublished" \/ OnTheWay(e)

(***************************************************************************)
(* What one transaction tells is told in its order: an event is first      *)
(* handled after all that the same commit queued before it, even if it was *)
(* published in parts, twice, or interrupted.                              *)
(***************************************************************************)
InBatchOrder ==
  \A es \in commits : \A e, f \in es : e < f /\ f \in handled => e \in handled

(***************************************************************************)
(* As long as nothing goes wrong and no session takes longer than          *)
(* REPUBLISH_AFTER, no message is sent twice, although the job works on    *)
(* the same rows as the sessions.                                          *)
(***************************************************************************)
DeliveredOnce == faults = 0 => twice = {}

(***************************************************************************)
(* "A rolled-back change never notifies anyone" (outbox.py:4-5): only what *)
(* a committed transaction queued is ever handled.                         *)
(***************************************************************************)
Abstract == INSTANCE Courier WITH promised <- Promised
ImplementsCourier == Abstract!Spec

(***************************************************************************)
(* Every committed event is handled at last, if what goes wrong stops      *)
(* going wrong.                                                            *)
(***************************************************************************)
EveryPromiseKept == \A e \in Events : e \in Promised ~> e \in handled

(***************************************************************************)
(* "A change that arrives while a pass is running is not lost"             *)
(* (menu_refresh.py:11-12): every committed change of the schedule is      *)
(* shown in the menus at last, unless the bot stops or a pass fails later: *)
(* the flag lives in the memory of the bot and nobody repeats that pass.   *)
(***************************************************************************)
EveryChangeShown == \A e \in Changes : e \in Promised \ handled ~> e \in shown \/ bot = "down" \/ pass = "failed"

-----------------------------------------------------------------------------
(* The inductive invariant behind Accounted and ImplementsCourier. *)

\* The loop has at most one event in the second list, and it is the one in hand.
OneInHand ==
  /\ Len(processing) <= 1
  /\ bot = "idle" => processing = <<>>
  /\ bot \in {"sending", "acking"} => processing = <<hand>>
  /\ bot = "acking" => hand \in handled

\* Whoever is going to mark rows has pushed them.
Pushed ==
  /\ \A c \in Publishers : pc[c] = "marking" =>
       \A e \in sending[c] : e \in handled \/ OnTheWay(e)
  /\ \A e \in Events : row[e] \in {"published", "purged"} => e \in handled \/ OnTheWay(e)

\* Nothing that is not promised left the backend.
NoPhantom ==
  /\ \A c \in Publishers : sending[c] \subseteq Promised
  /\ ElementsOf(queue) \cup ElementsOf(processing) \cup handled \subseteq Promised

SafeDelivery == OneInHand /\ Pushed /\ NoPhantom

(***************************************************************************)
(* What the run "outbox" and the proofs are about: the state is typed, an  *)
(* event that is still being sent has attempts left (MAX_ATTEMPTS), and no *)
(* committed event is lost, whichever step is the last one before a crash. *)
(***************************************************************************)
DeliveryInv == TypeOK /\ SafeDelivery /\ Accounted
===============================================================================
