--------------------------- MODULE Allocator_proofs ---------------------------
(***************************************************************************)
(* What the weekly allocation promises, proved for every input: the places *)
(* it hands out clash with nothing, lie where they were asked for, keep    *)
(* the daily limit, and nobody could be moved to a better one.             *)
(*                                                                         *)
(* The invariant is inductive as it stands.  A request is looked at once a *)
(* round, and what was full for it then stays full: places and minutes are *)
(* only ever added.                                                        *)
(***************************************************************************)
EXTENDS Allocator, TLAPS

IInv == TypeOK /\ NoClash /\ WithinWishes /\ DailyKept /\ NobodyGains

\* What an input tells of one request.
LEMMA AskedShape ==
  ASSUME TypeOK, NEW i \in Order
  PROVE  /\ Duration(i) \in Nat /\ Duration(i) > 0
         /\ BandOf(i) \in Bands
         /\ \A p \in DOMAIN input.asked[i].windows :
              /\ p \in Nat /\ p > 0
              /\ WindowOf(i, p) \in Window
<1>1. input.asked \in Seq(Asked) BY DEF TypeOK, Input
<1>2. input.asked[i] \in Asked BY <1>1 DEF Order
<1>3. input.asked[i].windows \in Seq(Window) BY <1>2 DEF Asked
<1>4. DOMAIN input.asked[i].windows = 1..Len(input.asked[i].windows) BY <1>3
<1>5. Len(input.asked[i].windows) \in Nat BY <1>3
<1>6. Duration(i) \in Nat \ {0} /\ BandOf(i) \in Bands BY <1>2 DEF Asked, Duration, BandOf
<1>7. ASSUME NEW p \in DOMAIN input.asked[i].windows PROVE WindowOf(i, p) \in Window
  BY <1>3, <1>4, <1>7 DEF WindowOf
<1> QED BY <1>4, <1>5, <1>6, <1>7

\* A start on the grid leaves room for the whole rehearsal.
LEMMA StartsShape ==
  ASSUME TypeOK, NEW i \in Order, NEW p \in DOMAIN input.asked[i].windows,
         NEW t \in Starts(WindowOf(i, p), Duration(i))
  PROVE  /\ t \in Nat /\ t % STEP = 0
         /\ Bigger(WindowOf(i, p).start, input.open) <= t
         /\ t + Duration(i) <= Smaller(WindowOf(i, p).end, input.close)
<1>1. WindowOf(i, p) \in Window /\ Duration(i) \in Nat BY AskedShape
<1>2. input.open \in Nat /\ input.close \in Nat BY DEF TypeOK, Input
<1>3. Bigger(WindowOf(i, p).start, input.open) \in Nat BY <1>1, <1>2 DEF Bigger, Window
<1>4. Smaller(WindowOf(i, p).end, input.close) \in Nat BY <1>1, <1>2 DEF Smaller, Window
<1> QED BY <1>1, <1>3, <1>4 DEF Starts

-----------------------------------------------------------------------------
LEMMA InitInv == Init => IInv
<1> SUFFICES ASSUME NEW in \in Inputs, Begin(in) PROVE IInv
  BY DEF Init
<1> USE DEF Begin
<1>1. in \in Input BY AllocatorAssumption
<1>2. in.has \in [Bands -> [Days -> Nat]] BY <1>1 DEF Input
<1>3. \A i \in Order : assigned[i] = None BY DEF Order
<1>4. TypeOK
  BY <1>1, <1>2 DEF TypeOK, Order, Wishes
<1>5. NobodyGains
  <2> SUFFICES ASSUME NEW i \in Order, NEW p \in DOMAIN input.asked[i].windows
               PROVE ~Served(i, p)
    BY <1>3 DEF NobodyGains
  <2>1. p \in Nat /\ p > 0 BY <1>4, AskedShape
  <2>2. p = 1 => i \in rest BY DEF Order
  <2> QED BY <2>1, <2>2 DEF Served
<1>6. NoClash BY <1>3 DEF NoClash
<1>7. WithinWishes BY <1>3 DEF WithinWishes
<1>8. DailyKept BY <1>3 DEF DailyKept
<1> QED BY <1>4, <1>5, <1>6, <1>7, <1>8 DEF IInv

(* The same of a call by whoever embeds the allocator.                     *)
LEMMA CallInv ==
  ASSUME NEW in \in Input, Call(in)
  PROVE  IInv'
<1> USE DEF Call
<1>1. in.has \in [Bands -> [Days -> Nat]] BY DEF Input
<1>2. \A i \in Order' : assigned'[i] = None BY DEF Order
<1>3. TypeOK'
  BY <1>1 DEF TypeOK, Order, Wishes
<1>4. NobodyGains'
  <2> SUFFICES ASSUME NEW i \in Order', NEW p \in DOMAIN input'.asked[i].windows
               PROVE ~Served(i, p)'
    BY <1>2 DEF NobodyGains
  <2>1. p \in Nat /\ p > 0
    <3>1. input'.asked \in Seq(Asked) BY DEF Input
    <3>2. input'.asked[i] \in Asked BY <3>1 DEF Order
    <3>3. input'.asked[i].windows \in Seq(Window) BY <3>2 DEF Asked
    <3> QED BY <3>3
  <2>2. p = 1 => i \in rest' BY DEF Order
  <2> QED BY <2>1, <2>2 DEF Served
<1>5. NoClash' BY <1>2 DEF NoClash
<1>6. WithinWishes' BY <1>2 DEF WithinWishes
<1>7. DailyKept' BY <1>2 DEF DailyKept
<1> QED BY <1>3, <1>4, <1>5, <1>6, <1>7 DEF IInv

-----------------------------------------------------------------------------
LEMMA StutterInv == IInv /\ UNCHANGED vars => IInv'
<1> SUFFICES ASSUME IInv, UNCHANGED vars PROVE IInv' OBVIOUS
<1>1. TypeOK' BY DEF IInv, vars, TypeOK, Order, Wishes
<1>2. NoClash' BY DEF IInv, vars, NoClash, Order, Fits, Apart
<1>3. WithinWishes'
  BY DEF IInv, vars, WithinWishes, Order, Wishes, WindowOf, Duration, Bigger, Smaller
<1>4. DailyKept' BY DEF IInv, vars, DailyKept, Order, BandOf
<1>5. NobodyGains'
  <2>1. Order' = Order BY DEF vars, Order
  <2>2. ASSUME NEW j \in Order, NEW w, NEW t PROVE CouldHave(j, w, t)' = CouldHave(j, w, t)
    BY <2>1 DEF vars, CouldHave, HasBesides, BandOf, Duration, Starts, Bigger, Smaller, Fits, Apart
  <2>3. ASSUME NEW w, NEW j \in Order PROVE Starts(w, Duration(j))' = Starts(w, Duration(j))
    BY DEF vars, Starts, Duration, Bigger, Smaller
  <2> QED BY <2>1, <2>2, <2>3 DEF IInv, vars, NobodyGains, WindowOf, Served
<1> QED BY <1>1, <1>2, <1>3, <1>4, <1>5 DEF IInv

-----------------------------------------------------------------------------
LEMMA RoundInv == IInv /\ NextRound => IInv'
<1> SUFFICES ASSUME IInv, NextRound PROVE IInv' OBVIOUS
<1> USE DEF IInv
<1>1. /\ input' = input /\ assigned' = assigned /\ bandDay' = bandDay /\ bandWeek' = bandWeek
      /\ rest = {} /\ priority' = priority + 1 /\ rest' = Round(priority + 1)
  BY DEF NextRound
<1>2. priority \in Nat /\ priority > 0 BY DEF TypeOK
<1>3. Order' = Order BY <1>1 DEF Order
<1>4. TypeOK' BY <1>1, <1>2, <1>3 DEF TypeOK, Round, Wishes
<1>5. NoClash' BY <1>1, <1>3 DEF NoClash, Fits, Apart
<1>6. WithinWishes'
  <2> SUFFICES ASSUME NEW i \in Order, assigned[i] # None
               PROVE assigned[i].priority <= priority + 1 /\ WithinWishes
    BY <1>1, <1>3 DEF WithinWishes, Wishes, WindowOf, Duration, Bigger, Smaller
  <2>1. assigned[i].priority <= priority BY DEF WithinWishes
  <2>2. assigned[i].priority \in Nat BY DEF TypeOK, Place
  <2> QED BY <1>2, <2>1, <2>2
<1>7. DailyKept' BY <1>1, <1>3 DEF DailyKept, BandOf
<1>8. NobodyGains'
  <2>1. ASSUME NEW i \in Order, NEW p \in DOMAIN input.asked[i].windows,
               Served(i, p)', assigned[i] = None \/ p < assigned[i].priority
        PROVE  Served(i, p)
    <3>1. p \in Nat BY AskedShape
    <3>2. CASE p < priority + 1
      BY <1>1, <1>2, <3>1, <3>2 DEF Served
    <3>3. CASE p = priority + 1 /\ i \notin rest'
      <4>1. assigned[i] # None BY <1>1, <3>3 DEF Round, Wishes
      <4>2. assigned[i].priority \in Nat BY <4>1 DEF TypeOK, Place
      <4>3. assigned[i].priority <= priority BY <4>1 DEF WithinWishes
      <4> QED BY <1>2, <2>1, <3>3, <4>1, <4>2, <4>3
    <3> QED BY <1>1, <2>1, <3>2, <3>3 DEF Served
  <2>2. ASSUME NEW i \in Order, NEW w, NEW t PROVE CouldHave(i, w, t)' = CouldHave(i, w, t)
    BY <1>1, <1>3 DEF CouldHave, HasBesides, BandOf, Duration, Starts, Bigger, Smaller, Fits, Apart
  <2>3. ASSUME NEW w, NEW i \in Order PROVE Starts(w, Duration(i))' = Starts(w, Duration(i))
    BY <1>1 DEF Starts, Duration, Bigger, Smaller
  <2> QED BY <1>1, <1>3, <2>1, <2>2, <2>3 DEF NobodyGains, WindowOf
<1> QED BY <1>4, <1>5, <1>6, <1>7, <1>8

-----------------------------------------------------------------------------
LEMMA SkipInv == ASSUME NEW i \in rest PROVE IInv /\ Skip(i) => IInv'
<1> SUFFICES ASSUME IInv, Skip(i) PROVE IInv' OBVIOUS
<1> USE DEF IInv
<1>1. /\ input' = input /\ assigned' = assigned /\ bandDay' = bandDay /\ bandWeek' = bandWeek
      /\ priority' = priority /\ rest' = rest \ {i}
  BY DEF Skip
<1>2. i \in Order /\ assigned[i] = None /\ Wishes(i, priority) BY DEF TypeOK
<1>3. Order' = Order BY <1>1 DEF Order
<1>4. TypeOK' BY <1>1, <1>3 DEF TypeOK, Wishes
<1>5. NoClash' BY <1>1, <1>3 DEF NoClash, Fits, Apart
<1>6. WithinWishes'
  BY <1>1, <1>3 DEF WithinWishes, Wishes, WindowOf, Duration, Bigger, Smaller
<1>7. DailyKept' BY <1>1, <1>3 DEF DailyKept, BandOf
<1>8. NobodyGains'
  <2>1. ASSUME NEW t \in Starts(WindowOf(i, priority), Duration(i))
        PROVE  ~CouldHave(i, WindowOf(i, priority), t)
    <3>1. HasBesides(i, WindowOf(i, priority).day) = bandDay[BandOf(i)][WindowOf(i, priority).day]
      <4>1. BandOf(i) \in Bands /\ WindowOf(i, priority).day \in Days
        BY <1>2, AskedShape DEF Wishes, Window
      <4>2. bandDay[BandOf(i)][WindowOf(i, priority).day] \in Nat BY <4>1 DEF TypeOK
      <4> QED BY <1>2, <4>2 DEF HasBesides
    <3>2. CASE ~Allowed(i, priority)
      BY <3>1, <3>2 DEF Allowed, CouldHave
    <3>3. CASE FreeStarts(i, priority, Order) = {}
      <4>1. ~Fits(WindowOf(i, priority).day, Order, t, t + Duration(i))
        BY <2>1, <3>3 DEF FreeStarts
      <4>2. ~Fits(WindowOf(i, priority).day, Order \ {i}, t, t + Duration(i))
        BY <1>2, <4>1 DEF Fits
      <4> QED BY <4>2 DEF CouldHave
    <3> QED BY <3>2, <3>3 DEF Skip
  <2>2. ASSUME NEW j \in Order, NEW p \in DOMAIN input.asked[j].windows, Served(j, p)'
        PROVE  Served(j, p) \/ (j = i /\ p = priority)
    BY <1>1, <2>2 DEF Served
  <2>3. ASSUME NEW j \in Order, NEW w, NEW t PROVE CouldHave(j, w, t)' = CouldHave(j, w, t)
    BY <1>1, <1>3 DEF CouldHave, HasBesides, BandOf, Duration, Starts, Bigger, Smaller, Fits, Apart
  <2>4. ASSUME NEW w, NEW j \in Order PROVE Starts(w, Duration(j))' = Starts(w, Duration(j))
    BY <1>1 DEF Starts, Duration, Bigger, Smaller
  <2> QED BY <1>1, <1>3, <2>1, <2>2, <2>3, <2>4 DEF NobodyGains, WindowOf
<1> QED BY <1>4, <1>5, <1>6, <1>7, <1>8

-----------------------------------------------------------------------------
(* One place more: `new' for request i, the earliest free one of its wish. *)

LEMMA AssignInv == ASSUME NEW i \in rest PROVE IInv /\ Assign(i) => IInv'
<1> SUFFICES ASSUME IInv, Assign(i) PROVE IInv' OBVIOUS
<1> USE DEF IInv
<1> DEFINE w == WindowOf(i, priority)
<1> DEFINE d == Duration(i)
<1>1. /\ input' = input /\ priority' = priority /\ rest' = rest \ {i}
      /\ bandDay' = [bandDay EXCEPT ![BandOf(i)][w.day] = @ + d]
      /\ bandWeek' = [bandWeek EXCEPT ![BandOf(i)] = @ + d]
      /\ Allowed(i, priority)
  BY DEF Assign
<1>2. PICK start \in Starts(w, d) :
        /\ EarliestStart(start, i, priority)
        /\ assigned' = [assigned EXCEPT ![i] =
             [day |-> w.day, start |-> start, end |-> start + d, priority |-> priority]]
  BY DEF Assign
<1> DEFINE new == [day |-> w.day, start |-> start, end |-> start + d, priority |-> priority]
<1>3. i \in Order /\ assigned[i] = None /\ Wishes(i, priority) BY DEF TypeOK
<1>4. /\ d \in Nat /\ d > 0 /\ BandOf(i) \in Bands /\ w \in Window /\ w.day \in Days
  BY <1>3, AskedShape DEF Wishes, Window
<1>5. /\ start \in Nat /\ start % STEP = 0
      /\ Bigger(w.start, input.open) <= start
      /\ start + d <= Smaller(w.end, input.close)
  BY <1>2, <1>3, StartsShape DEF Wishes
<1>6. Fits(w.day, Order, start, start + d) BY <1>2 DEF EarliestStart, FreeStarts
<1>7. Order' = Order BY <1>1 DEF Order
<1>8. new \in Place /\ new # None
  BY <1>4, <1>5, AllocatorAssumption DEF Place, TypeOK
<1>9. /\ assigned' \in [Order -> Place \cup {None}]
      /\ assigned'[i] = new
      /\ \A j \in Order \ {i} : assigned'[j] = assigned[j]
  BY <1>2, <1>3, <1>8 DEF TypeOK
<1>10. bandDay' \in [Bands -> [Days -> Nat]]
  BY <1>1, <1>4 DEF TypeOK
<1>11. /\ bandDay'[BandOf(i)][w.day] = bandDay[BandOf(i)][w.day] + d
       /\ \A b \in Bands, x \in Days :
            <<b, x>> # <<BandOf(i), w.day>> => bandDay'[b][x] = bandDay[b][x]
       /\ \A b \in Bands, x \in Days : bandDay[b][x] \in Nat
  BY <1>1, <1>4 DEF TypeOK
<1> HIDE DEF w, d, new
<1>12. TypeOK'
  <2>1. bandWeek' \in [Bands -> Nat] BY <1>1, <1>4 DEF TypeOK
  <2>2. rest' \subseteq {j \in Order : assigned'[j] = None /\ Wishes(j, priority)}
    BY <1>1, <1>9 DEF TypeOK
  <2> QED BY <1>1, <1>7, <1>9, <1>10, <2>1, <2>2 DEF TypeOK, Wishes
<1>13. ASSUME NEW j \in Order, NEW s, NEW e, NEW day, NEW who \in SUBSET Order
       PROVE  Fits(day, who, s, e)' <=>
                /\ Fits(day, who \ {i}, s, e)
                /\ i \in who /\ new.day = day => Apart(s, e, new)
  BY <1>1, <1>3, <1>8, <1>9 DEF Fits, Apart
<1>14. NoClash'
  <2> SUFFICES ASSUME NEW j \in Order, NEW a, a = assigned'[j], a # None
               PROVE  Fits(a.day, Order \ {j}, a.start, a.end)'
    BY <1>7 DEF NoClash
  <2>1. CASE j = i
    <3>1. Fits(w.day, Order \ {i}, start, start + d) BY <1>6 DEF Fits
    <3>2. a.day = w.day /\ a.start = start /\ a.end = start + d BY <1>9, <2>1 DEF new
    <3>3. Fits(a.day, (Order \ {j}) \ {i}, a.start, a.end) BY <2>1, <3>1, <3>2 DEF Fits
    <3>4. (Order \ {j})' = Order \ {j} BY <1>7
    <3> QED BY <1>13, <2>1, <3>3, <3>4
  <2>2. CASE j # i
    <3>1. a = assigned[j] BY <1>9, <2>2
    <3>2. Fits(a.day, Order \ {j}, a.start, a.end) BY <3>1 DEF NoClash
    <3>3. ASSUME new.day = a.day PROVE Apart(a.start, a.end, new)
      <4>1. Apart(start, start + d, a)
        BY <1>6, <3>1, <3>3 DEF Fits, new
      <4>2. a \in Place BY <3>1 DEF TypeOK
      <4> QED BY <1>4, <1>5, <4>1, <4>2 DEF Apart, new, Place
    <3>4. Fits(a.day, (Order \ {j}) \ {i}, a.start, a.end) BY <3>2 DEF Fits
    <3>5. (Order \ {j})' = Order \ {j} BY <1>7
    <3> QED BY <1>13, <3>3, <3>4, <3>5
  <2> QED BY <2>1, <2>2
<1>15. WithinWishes'
  <2> SUFFICES ASSUME NEW j \in Order, assigned'[j] # None
               PROVE  LET a == assigned'[j] IN
                      /\ Wishes(j, a.priority) /\ a.priority <= priority
                      /\ a.day = WindowOf(j, a.priority).day /\ a.day \notin input.closed
                      /\ a.start % STEP = 0 /\ a.end = a.start + Duration(j)
                      /\ Bigger(WindowOf(j, a.priority).start, input.open) <= a.start
                      /\ a.end <= Smaller(WindowOf(j, a.priority).end, input.close)
    BY <1>1, <1>7 DEF WithinWishes, Wishes, WindowOf, Duration, Bigger, Smaller
  <2>1. CASE j = i
    <3>1. priority <= priority BY DEF TypeOK
    <3>2. w.day \notin input.closed BY <1>1 DEF Allowed, w
    <3> QED BY <1>3, <1>5, <1>9, <2>1, <3>1, <3>2 DEF new, w, d
  <2>2. CASE j # i
    BY <1>9, <2>2 DEF WithinWishes
  <2> QED BY <2>1, <2>2
<1>16. DailyKept'
  <2> SUFFICES ASSUME input.daily > 0, NEW j \in Order, assigned'[j] # None
               PROVE  bandDay'[BandOf(j)][assigned'[j].day] <= input.daily
    BY <1>1, <1>7 DEF DailyKept, BandOf
  <2>1. BandOf(j) \in Bands /\ assigned'[j].day \in Days BY <1>9, AskedShape DEF Place
  <2>2. bandDay[BandOf(i)][w.day] + d <= input.daily BY <1>1 DEF Allowed, w, d
  <2>3. CASE <<BandOf(j), assigned'[j].day>> = <<BandOf(i), w.day>>
    BY <1>11, <2>2, <2>3
  <2>4. CASE <<BandOf(j), assigned'[j].day>> # <<BandOf(i), w.day>>
    <3>1. j # i BY <1>9, <2>4 DEF new
    <3>2. assigned'[j] = assigned[j] BY <1>9, <3>1
    <3> QED BY <1>11, <2>1, <2>4, <3>2 DEF DailyKept
  <2> QED BY <2>3, <2>4
<1>17. NobodyGains'
  <2>1. ASSUME NEW j \in Order, NEW v, NEW t, j # i, v.day \in Days, CouldHave(j, v, t)'
        PROVE  CouldHave(j, v, t)
    <3>1. assigned'[j] = assigned[j] BY <1>9, <2>1
    <3>2. BandOf(j) \in Bands /\ Duration(j) \in Nat BY AskedShape
    <3>3. bandDay[BandOf(j)][v.day] <= bandDay'[BandOf(j)][v.day]
      <4>1. CASE <<BandOf(j), v.day>> = <<BandOf(i), w.day>> BY <1>4, <1>11, <4>1
      <4>2. CASE <<BandOf(j), v.day>> # <<BandOf(i), w.day>> BY <1>11, <2>1, <3>2, <4>2
      <4> QED BY <4>1, <4>2
    <3>4. bandDay[BandOf(j)][v.day] \in Nat /\ bandDay'[BandOf(j)][v.day] \in Nat
      BY <1>10, <1>11, <2>1, <3>2
    <3>5. HasBesides(j, v.day) <= HasBesides(j, v.day)'
          /\ HasBesides(j, v.day) \in Int /\ HasBesides(j, v.day)' \in Int
      BY <1>1, <3>1, <3>2, <3>3, <3>4 DEF HasBesides, BandOf, Duration
    <3>6. Fits(v.day, Order \ {j}, t, t + Duration(j))' => Fits(v.day, Order \ {j}, t, t + Duration(j))
      BY <1>1, <1>7, <1>3, <1>9 DEF Fits, Apart, Duration
    <3>7. input.daily \in Nat BY DEF TypeOK, Input
    <3>8. Starts(v, Duration(j))' = Starts(v, Duration(j))
      BY <1>1 DEF Starts, Duration, Bigger, Smaller
    <3>9. Duration(j)' = Duration(j) BY <1>1 DEF Duration
    <3> QED BY <1>1, <2>1, <3>2, <3>5, <3>6, <3>7, <3>8, <3>9 DEF CouldHave
  <2>2. ASSUME NEW v, NEW t, v.day \in Days, CouldHave(i, v, t)'
        PROVE  CouldHave(i, v, t)
    <3>1. HasBesides(i, v.day)' = HasBesides(i, v.day)
      <4>1. new.day = w.day BY DEF new
      <4>2. CASE v.day = w.day
        <5>1. HasBesides(i, v.day)' = bandDay'[BandOf(i)][v.day] - d
          BY <1>1, <1>8, <1>9, <4>1, <4>2 DEF HasBesides, BandOf, Duration, d
        <5>2. HasBesides(i, v.day) = bandDay[BandOf(i)][v.day] - 0
          BY <1>3 DEF HasBesides
        <5> QED BY <1>4, <1>11, <4>2, <5>1, <5>2
      <4>3. CASE v.day # w.day
        BY <1>1, <1>3, <1>4, <1>9, <1>11, <2>2, <4>1, <4>3 DEF HasBesides, BandOf, Duration
      <4> QED BY <4>2, <4>3
    <3>2. Fits(v.day, Order \ {i}, t, t + Duration(i))' => Fits(v.day, Order \ {i}, t, t + Duration(i))
      BY <1>1, <1>7, <1>9 DEF Fits, Apart, Duration
    <3>3. Starts(v, Duration(i))' = Starts(v, Duration(i))
      BY <1>1 DEF Starts, Duration, Bigger, Smaller
    <3>4. Duration(i)' = Duration(i) BY <1>1 DEF Duration
    <3> QED BY <1>1, <2>2, <3>1, <3>2, <3>3, <3>4 DEF CouldHave
  <2>3. ASSUME NEW t \in Starts(w, d), t < start
        PROVE  ~CouldHave(i, w, t)
    <3>1. t \in Nat BY <1>3, <2>3, StartsShape DEF Wishes, w, d
    <3>2. t \notin FreeStarts(i, priority, Order)
      BY <1>2, <1>5, <2>3, <3>1 DEF EarliestStart
    <3>3. ~Fits(w.day, Order, t, t + d) BY <2>3, <3>2 DEF FreeStarts, w, d
    <3>4. ~Fits(w.day, Order \ {i}, t, t + d) BY <1>3, <3>3 DEF Fits
    <3> QED BY <3>4 DEF CouldHave, d
  <2> SUFFICES ASSUME NEW j \in Order, NEW p \in DOMAIN input.asked[j].windows,
                      NEW v, v = WindowOf(j, p), NEW t \in Starts(v, Duration(j)),
                      CouldHave(j, v, t)'
               PROVE  /\ ~(Served(j, p)' /\ (assigned'[j] = None \/ p < assigned'[j].priority))
                      /\ ~(assigned'[j] # None /\ p = assigned'[j].priority
                            /\ t < assigned'[j].start)
    <3>1. ASSUME NEW j \in Order, NEW v PROVE Starts(v, Duration(j))' = Starts(v, Duration(j))
      BY <1>1 DEF Starts, Duration, Bigger, Smaller
    <3> QED BY <1>1, <1>7, <3>1 DEF NobodyGains, WindowOf
  <2>4. p \in Nat /\ v.day \in Days BY AskedShape DEF Window
  <2>5. CASE j # i
    <3>1. CouldHave(j, v, t) BY <2>1, <2>4, <2>5
    <3>2. assigned'[j] = assigned[j] BY <1>9, <2>5
    <3>3. Served(j, p)' => Served(j, p) BY <1>1, <2>5 DEF Served
    <3> QED BY <3>1, <3>2, <3>3 DEF NobodyGains
  <2>6. CASE j = i
    <3>1. CouldHave(i, v, t) BY <2>2, <2>4, <2>6
    <3>2. assigned'[i] = new /\ new # None /\ new.priority = priority /\ new.start = start
      BY <1>8, <1>9 DEF new
    <3>3. priority \in Nat BY DEF TypeOK
    <3>4. p < priority => FALSE
      BY <1>3, <2>6, <3>1 DEF NobodyGains, Served
    <3>5. p = priority /\ t < start => FALSE
      BY <2>3, <2>6, <3>1 DEF w, d
    <3> QED BY <2>6, <3>2, <3>4, <3>5
  <2> QED BY <2>5, <2>6
<1> QED BY <1>12, <1>14, <1>15, <1>16, <1>17

-----------------------------------------------------------------------------
LEMMA InvHolds == Spec => []IInv
<1>1. Init => IInv BY InitInv
<1>2. IInv /\ [Next]_vars => IInv'
  BY RoundInv, SkipInv, AssignInv, StutterInv DEF Next
<1> QED BY <1>1, <1>2, PTL DEF Spec

(***************************************************************************)
(* For every input, the loop keeps to its types: the round only ever holds *)
(* requests without a place that have a wish of its priority.              *)
(***************************************************************************)
THEOREM TypesKept == Spec => []TypeOK
<1>1. IInv => TypeOK BY DEF IInv
<1> QED BY <1>1, InvHolds, PTL

(***************************************************************************)
(* For every input, no place that is handed out meets what was booked or   *)
(* another place, and every one is where it was asked for.                 *)
(***************************************************************************)
THEOREM PlacesAreGood == Spec => [](NoClash /\ WithinWishes)
<1>1. IInv => NoClash /\ WithinWishes BY DEF IInv
<1> QED BY <1>1, InvHolds, PTL

(***************************************************************************)
(* For every input, the daily limit of every band is kept on every day on  *)
(* which the allocation gives it time.                                     *)
(***************************************************************************)
THEOREM LimitKept == Spec => []DailyKept
<1>1. IInv => DailyKept BY DEF IInv
<1> QED BY <1>1, InvHolds, PTL

(***************************************************************************)
(* For every input, what the loop has handed out may be published at every *)
(* turn (PlanInv).                                                         *)
(***************************************************************************)
THEOREM PlanSound == Spec => []PlanInv
<1>1. IInv => PlanInv BY DEF IInv, PlanInv
<1> QED BY <1>1, InvHolds, PTL

(***************************************************************************)
(* For every input, nobody is given a wish while one that ranks higher, or *)
(* an earlier start in it, could have been honoured.                       *)
(***************************************************************************)
THEOREM PlanIsStable == Spec => []NobodyGains
<1>1. IInv => NobodyGains BY DEF IInv
<1> QED BY <1>1, InvHolds, PTL
=============================================================================
