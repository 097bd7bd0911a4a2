------------------------ MODULE TimerSchedulerProofs ------------------------
(***************************************************************************)
(* Proofs about TimerScheduler, for any number of owners, tasks and        *)
(* timers, every set of intervals, every width of the tick and whatever    *)
(* the clock is set to.                                                    *)
(*                                                                         *)
(* The scheduler only compares ticks.  FiresExactly and ContinuesExactly   *)
(* say what its comparisons find in terms of elapsed time where the clock  *)
(* was not set; IInv keeps the times of queued timers in the range in      *)
(* which that is so.                                                       *)
(***************************************************************************)
EXTENDS TimerScheduler, SequenceTheorems, WellFoundedInduction, TLAPS

\* Time to go for a queued timer.
Left(t) == span[t] - age[t]

\* The timers whose order the queue keeps.
Timely(t) == place[t] = "due" /\ span[t] > 0

\* A timer armed now is due less than a cycle of the tick after ago.
InTime(ago) == \A t \in Timers : \A i \in Intervals[t] : ago + i < Wrap

\* The queue holds each scheduled timer once.
LinkInv ==
    /\ \A t \in Timers : state[t] <=> \E i \in DOMAIN TdoQueue : TdoQueue[i] = t
    /\ \A i, j \in DOMAIN TdoQueue : TdoQueue[i] = TdoQueue[j] => i = j

OrderInv ==
    \A i, j \in DOMAIN TdoQueue :
        i < j /\ Timely(TdoQueue[i]) /\ Timely(TdoQueue[j])
            => Left(TdoQueue[i]) <= Left(TdoQueue[j])

\* A queued timer was given its interval by SetInterval and has not waited
\* for too long; a late one was overdue from the start.
TimeInv ==
    \A t \in Timers : state[t] =>
        /\ span[t] \in Intervals[t] /\ interval[t] \in Intervals[t]
        /\ InTime(age[t])
        /\ place[t] = "late" => span[t] <= age[t]

\* The same of a timer that is being registered.
CallInv ==
    \A a \in Actors : call[a].pc # "idle" =>
        /\ call[a].timer \in Timers
        /\ interval[call[a].timer] \in Intervals[call[a].timer]
        /\ InTime(call[a].age)

IInv == TypeOK /\ LinkInv /\ OrderInv /\ TimeInv /\ CallInv /\ StateFollowsCalls

-----------------------------------------------------------------------------
(***************************************************************************)
(* The arithmetic of the tick.                                             *)
(***************************************************************************)
LEMMA ModBack ==
  ASSUME NEW w \in Nat \ {0}, NEW x \in 0..(w - 1), NEW g \in 0..(w - 1)
  PROVE  (x - g) % w = IF g <= x THEN x - g ELSE x - g + w
  OBVIOUS

LEMMA ModForth ==
  ASSUME NEW w \in Nat \ {0}, NEW x \in 0..(w - 1), NEW g \in 0..(w - 1)
  PROVE  (x + g) % w = IF x + g < w THEN x + g ELSE x + g - w
  OBVIOUS

\* bFireTimer is set exactly when the interval has passed, if the clock shows
\* the time that has passed.
LEMMA FiresExactly ==
  ASSUME TypeOK, NEW t \in Timers, skew[t] = 0
  PROVE  Fires(t) <=> age[t] >= span[t]
<1>1. /\ Wrap \in Nat \ {0} /\ tick \in 0..(Wrap - 1)
      /\ age[t] \in 0..(Wrap - 1) /\ span[t] \in 0..(Wrap - 1)
      /\ age[t] + skew[t] = age[t]
  BY TimerConstants DEF TypeOK, Times
<1>2. /\ Timestamp(t) \in 0..(Wrap - 1)
      /\ Timestamp(t) = IF age[t] <= tick THEN tick - age[t] ELSE tick - age[t] + Wrap
  <2>1. Timestamp(t) = (tick - age[t]) % Wrap
    BY <1>1 DEF Timestamp
  <2>2. (tick - age[t]) % Wrap = IF age[t] <= tick THEN tick - age[t] ELSE tick - age[t] + Wrap
    BY <1>1, ModBack
  <2>3. QED
    BY <1>1, <2>1, <2>2
<1>3. TimeToFire(t) = IF Timestamp(t) + span[t] < Wrap
                      THEN Timestamp(t) + span[t] ELSE Timestamp(t) + span[t] - Wrap
  BY <1>1, <1>2, ModForth DEF TimeToFire
<1>4. QED
  BY <1>1, <1>2, <1>3 DEF Fires

\* AnscTsoScheduleTimer goes past exactly the timers that are due no later
\* than a timer that is due after the time left, if the clock was not set.
LEMMA ContinuesExactly ==
  ASSUME TypeOK, NEW t \in Timers, skew[t] = 0, NEW ago \in Times, NEW i \in Times,
         ago < i, age[t] + i < Wrap
  PROVE  Continues(t, (tick - ago + i) % Wrap) <=> Left(t) <= i - ago
<1> DEFINE ttf == (tick - ago + i) % Wrap
<1>1. /\ Wrap \in Nat \ {0} /\ tick \in 0..(Wrap - 1)
      /\ age[t] \in 0..(Wrap - 1) /\ span[t] \in 0..(Wrap - 1)
      /\ age[t] + skew[t] = age[t]
  BY TimerConstants DEF TypeOK, Times
<1>2. /\ Timestamp(t) \in 0..(Wrap - 1)
      /\ Timestamp(t) = IF age[t] <= tick THEN tick - age[t] ELSE tick - age[t] + Wrap
  <2>1. Timestamp(t) = (tick - age[t]) % Wrap
    BY <1>1 DEF Timestamp
  <2>2. (tick - age[t]) % Wrap = IF age[t] <= tick THEN tick - age[t] ELSE tick - age[t] + Wrap
    BY <1>1, ModBack
  <2>3. QED
    BY <1>1, <2>1, <2>2
<1>3. TimeToFire(t) = IF Timestamp(t) + span[t] < Wrap
                      THEN Timestamp(t) + span[t] ELSE Timestamp(t) + span[t] - Wrap
  BY <1>1, <1>2, ModForth DEF TimeToFire
<1>4. ttf = IF tick + (i - ago) < Wrap THEN tick + (i - ago) ELSE tick + (i - ago) - Wrap
  <2>1. i - ago \in 0..(Wrap - 1) /\ tick - ago + i = tick + (i - ago)
    BY <1>1 DEF Times
  <2>2. PICK d \in 0..(Wrap - 1) : d = i - ago
    BY <2>1
  <2>3. (tick + d) % Wrap = IF tick + d < Wrap THEN tick + d ELSE tick + d - Wrap
    BY <1>1, ModForth
  <2>4. QED
    BY <2>1, <2>2, <2>3
<1> HIDE DEF ttf
<1>5. Continues(t, ttf) <=> Left(t) <= i - ago
  BY <1>1, <1>2, <1>3, <1>4 DEF Continues, Left, Times
<1>6. QED
  BY <1>5 DEF ttf

-----------------------------------------------------------------------------
(***************************************************************************)
(* The queue, element by element.                                          *)
(***************************************************************************)
\* r is q with e put in at p.
Inserted(q, p, e, r) ==
    /\ p \in 1..(Len(q) + 1)
    /\ Len(r) = Len(q) + 1
    /\ \A j \in 1..Len(r) :
          r[j] = IF j < p THEN q[j] ELSE IF j = p THEN e ELSE q[j - 1]

\* r is q without its element at p.
Removed(q, p, r) ==
    /\ p \in 1..Len(q)
    /\ Len(r) = Len(q) - 1
    /\ \A j \in 1..Len(r) : r[j] = IF j < p THEN q[j] ELSE q[j + 1]

LEMMA InsertedAt ==
  ASSUME NEW S, NEW q \in Seq(S), NEW e \in S, NEW p \in 1..Len(q)
  PROVE  InsertAt(q, p, e) \in Seq(S) /\ Inserted(q, p, e, InsertAt(q, p, e))
<1>1. /\ Len(q) \in Nat
      /\ \A j \in 1..Len(q) : q[j] \in S
  BY LenProperties
<1> DEFINE a == SubSeq(q, 1, p - 1)
           b == SubSeq(q, p, Len(q))
<1>2. /\ a \in Seq(S) /\ Len(a) = p - 1
      /\ \A j \in 1..(p - 1) : a[j] = q[j]
  BY <1>1, SubSeqProperties
<1>3. /\ b \in Seq(S) /\ Len(b) = Len(q) - p + 1
      /\ \A j \in 1..(Len(q) - p + 1) : b[j] = q[j + p - 1]
  BY <1>1, SubSeqProperties
<1> HIDE DEF a, b
<1>4. <<e>> \in Seq(S) /\ Len(<<e>>) = 1 /\ <<e>>[1] = e
  OBVIOUS
<1> DEFINE c == a \o <<e>>
<1>5. /\ c \in Seq(S) /\ Len(c) = p
      /\ \A j \in 1..p : c[j] = IF j < p THEN a[j] ELSE e
  <2>1. /\ c \in Seq(S) /\ Len(c) = Len(a) + 1
        /\ \A j \in 1..(Len(a) + 1) : c[j] = IF j <= Len(a) THEN a[j] ELSE <<e>>[j - Len(a)]
    BY <1>2, <1>4, ConcatProperties
  <2> HIDE DEF c
  <2>2. Len(c) = p
    BY <1>2, <2>1
  <2>3. ASSUME NEW j \in 1..p PROVE c[j] = IF j < p THEN a[j] ELSE e
    <3>1. CASE j < p
      BY <1>2, <2>1, <3>1
    <3>2. CASE j = p
      <4>1. j - Len(a) = 1 /\ ~(j <= Len(a)) /\ j \in 1..(Len(a) + 1)
        BY <1>2, <3>2
      <4>2. QED
        BY <1>4, <2>1, <3>2, <4>1
    <3>3. QED
      BY <3>1, <3>2
  <2>4. QED
    BY <2>1, <2>2, <2>3
<1> HIDE DEF c
<1> DEFINE r == c \o b
<1>6. /\ r \in Seq(S) /\ Len(r) = Len(q) + 1
      /\ \A j \in 1..Len(r) : r[j] = IF j <= p THEN c[j] ELSE b[j - p]
  <2>1. /\ r \in Seq(S) /\ Len(r) = Len(c) + Len(b)
        /\ \A j \in 1..(Len(c) + Len(b)) : r[j] = IF j <= Len(c) THEN c[j] ELSE b[j - Len(c)]
    BY <1>3, <1>5, ConcatProperties
  <2> HIDE DEF r
  <2>2. Len(c) + Len(b) = Len(q) + 1
    BY <1>1, <1>3, <1>5
  <2>3. QED
    BY <1>5, <2>1, <2>2
<1>7. InsertAt(q, p, e) = r
  BY DEF InsertAt, a, b, c
<1> HIDE DEF r
<1>8. ASSUME NEW j \in 1..Len(r)
      PROVE  r[j] = IF j < p THEN q[j] ELSE IF j = p THEN e ELSE q[j - 1]
  <2>1. CASE j <= p
    BY <1>1, <1>2, <1>5, <1>6, <2>1
  <2>2. CASE j > p
    <3>1. j - p \in 1..(Len(q) - p + 1) /\ (j - p) + p - 1 = j - 1
      BY <1>1, <1>6, <2>2
    <3>2. QED
      BY <1>1, <1>3, <1>6, <2>2, <3>1
  <2>3. QED
    BY <1>1, <1>6, <2>1, <2>2
<1>9. QED
  BY <1>1, <1>6, <1>7, <1>8 DEF Inserted

LEMMA RemovedAt ==
  ASSUME NEW S, NEW q \in Seq(S), NEW p \in 1..Len(q)
  PROVE  RemoveAt(q, p) \in Seq(S) /\ Removed(q, p, RemoveAt(q, p))
<1>1. /\ Len(q) \in Nat
      /\ \A j \in 1..Len(q) : q[j] \in S
  BY LenProperties
<1> DEFINE a == SubSeq(q, 1, p - 1)
           b == SubSeq(q, p + 1, Len(q))
<1>2. /\ a \in Seq(S) /\ Len(a) = p - 1
      /\ \A j \in 1..(p - 1) : a[j] = q[j]
  BY <1>1, SubSeqProperties
<1>3. /\ b \in Seq(S) /\ Len(b) = Len(q) - p
      /\ \A j \in 1..(Len(q) - p) : b[j] = q[j + p]
  BY <1>1, SubSeqProperties
<1> HIDE DEF a, b
<1> DEFINE r == a \o b
<1>4. /\ r \in Seq(S) /\ Len(r) = Len(q) - 1
      /\ \A j \in 1..Len(r) : r[j] = IF j < p THEN a[j] ELSE b[j - p + 1]
  BY <1>1, <1>2, <1>3, ConcatProperties
<1>5. RemoveAt(q, p) = r
  BY DEF RemoveAt, a, b
<1> HIDE DEF r
<1>6. ASSUME NEW j \in 1..Len(r)
      PROVE  r[j] = IF j < p THEN q[j] ELSE q[j + 1]
  <2>1. CASE j < p
    BY <1>1, <1>2, <1>4, <2>1
  <2>2. CASE j >= p
    <3>1. j - p + 1 \in 1..(Len(q) - p) /\ (j - p + 1) + p = j + 1
      BY <1>1, <1>4, <2>2
    <3>2. QED
      BY <1>1, <1>3, <1>4, <2>2, <3>1
  <2>3. QED
    BY <1>1, <1>4, <2>1, <2>2
<1>7. QED
  BY <1>4, <1>5, <1>6 DEF Removed

\* The tail of a queue is the queue without its first element.
LEMMA RemovedHead ==
  ASSUME NEW S, NEW q \in Seq(S), q # <<>>
  PROVE  /\ Head(q) = q[1] /\ 1 \in 1..Len(q)
         /\ Tail(q) \in Seq(S) /\ Removed(q, 1, Tail(q))
  BY HeadTailProperties, LenProperties, EmptySeq DEF Removed

LEMMA LeastExists ==
  ASSUME NEW N \in SUBSET Nat, N # {}
  PROVE  \E i \in N : \A j \in N : i <= j
<1>1. PICK i \in N : \A j \in N : ~(<<j, i>> \in OpToRel(<, Nat))
  BY NatLessThanWellFounded, WFMin
<1>2. \A j \in N : ~(j < i)
  BY <1>1 DEF OpToRel
<1>3. QED
  BY <1>2

\* Where AnscTsoScheduleTimer puts a timer that is not late: behind all that
\* are due no later, before the rest.
LEMMA PlaceFound ==
  ASSUME TypeOK, NEW q \in Seq(Timers), NEW t \in Timers, NEW ttf
  PROVE  /\ Scheduled(q, t, ttf) \in Seq(Timers)
         /\ \E p \in 1..(Len(q) + 1) :
               /\ Inserted(q, p, t, Scheduled(q, t, ttf))
               /\ interval[t] # 0 =>
                     /\ \A j \in 1..Len(q) : j < p => Continues(q[j], ttf)
                     /\ p <= Len(q) => ~Continues(q[p], ttf)
<1>1. Len(q) \in Nat
  BY LenProperties
<1> DEFINE before == {i \in 1..Len(q) : ~Continues(q[i], ttf)}
           first == CHOOSE i \in before : \A j \in before : i <= j
           r == Scheduled(q, t, ttf)
<1>2. CASE interval[t] = 0
  <2>1. r = <<t>> \o q
    BY <1>2 DEF Scheduled
  <2>2. r \in Seq(Timers) /\ Inserted(q, 1, t, r)
    BY <1>1, <2>1, ConcatProperties DEF Inserted
  <2>3. QED
    BY <1>1, <1>2, <2>2
<1>3. CASE interval[t] # 0 /\ before = {}
  <2>1. r = Append(q, t)
    BY <1>3 DEF Scheduled
  <2>2. r \in Seq(Timers) /\ Inserted(q, Len(q) + 1, t, r)
    BY <1>1, <2>1, AppendProperties DEF Inserted
  <2>3. QED
    BY <1>1, <1>3, <2>2
<1>4. CASE interval[t] # 0 /\ before # {}
  <2>1. r = InsertAt(q, first, t)
    BY <1>4 DEF Scheduled
  <2>2. \E i \in before : \A j \in before : i <= j
    <3>1. before \in SUBSET Nat
      BY <1>1
    <3> HIDE DEF before
    <3>2. QED
      BY <1>4, <3>1, LeastExists
  <2>3. first \in before /\ \A j \in before : first <= j
    BY <2>2
  <2> HIDE DEF first
  <2>4. r \in Seq(Timers) /\ Inserted(q, first, t, r)
    BY <2>1, <2>3, InsertedAt
  <2>5. QED
    BY <1>1, <1>4, <2>3, <2>4
<1>5. QED
  BY <1>2, <1>3, <1>4

\* q holds every scheduled timer but t, once and in order.
Without(q, t) ==
    /\ \A u \in Timers : state[u] /\ u # t <=> \E i \in 1..Len(q) : q[i] = u
    /\ \A i, j \in 1..Len(q) : q[i] = q[j] => i = j
    /\ \A i, j \in 1..Len(q) :
          i < j /\ Timely(q[i]) /\ Timely(q[j]) => Left(q[i]) <= Left(q[j])

LEMMA QueueDomain ==
  ASSUME TypeOK
  PROVE  /\ Len(TdoQueue) \in Nat /\ DOMAIN TdoQueue = 1..Len(TdoQueue)
         /\ \A i \in 1..Len(TdoQueue) : TdoQueue[i] \in Timers
  BY LenProperties DEF TypeOK

LEMMA RemoveLeavesOthers ==
  ASSUME IInv, NEW p \in 1..Len(TdoQueue), NEW q \in Seq(Timers), Removed(TdoQueue, p, q)
  PROVE  Without(q, TdoQueue[p])
<1> DEFINE t == TdoQueue[p]
           at(j) == IF j < p THEN j ELSE j + 1
<1>1. /\ Len(TdoQueue) \in Nat /\ DOMAIN TdoQueue = 1..Len(TdoQueue)
      /\ \A i \in 1..Len(TdoQueue) : TdoQueue[i] \in Timers
  BY QueueDomain DEF IInv
<1>2. \A j \in 1..Len(q) : /\ at(j) \in 1..Len(TdoQueue) /\ at(j) # p
                           /\ q[j] = TdoQueue[at(j)]
  BY <1>1 DEF Removed
<1>3. \A i, j \in 1..Len(q) : (at(i) = at(j) => i = j) /\ (i < j => at(i) < at(j))
  BY <1>1 DEF Removed
<1>4. \A i \in 1..Len(TdoQueue) : i # p => \E j \in 1..Len(q) : at(j) = i
  <2> SUFFICES ASSUME NEW i \in 1..Len(TdoQueue), i # p
               PROVE  \E j \in 1..Len(q) : at(j) = i
    OBVIOUS
  <2>1. CASE i < p
    BY <1>1, <2>1 DEF Removed
  <2>2. CASE i > p
    <3>1. i - 1 \in 1..Len(q) /\ at(i - 1) = i
      BY <1>1, <2>2 DEF Removed
    <3>2. QED
      BY <3>1
  <2>3. QED
    BY <1>1, <2>1, <2>2
<1> HIDE DEF at
<1>5. ASSUME NEW u \in Timers
      PROVE  state[u] /\ u # t <=> \E i \in 1..Len(q) : q[i] = u
  <2>1. ASSUME state[u], u # t PROVE \E i \in 1..Len(q) : q[i] = u
    <3>1. PICK j \in 1..Len(TdoQueue) : TdoQueue[j] = u
      BY <1>1, <2>1 DEF IInv, LinkInv
    <3>2. QED
      BY <1>2, <1>4, <2>1, <3>1
  <2>2. ASSUME NEW i \in 1..Len(q), q[i] = u PROVE state[u] /\ u # t
    <3>1. PICK j \in 1..Len(TdoQueue) : j # p /\ TdoQueue[j] = u
      BY <1>2, <2>2
    <3>2. state[u]
      BY <3>1 DEF IInv, LinkInv
    <3>3. u # t
      BY <3>1 DEF IInv, LinkInv
    <3>4. QED
      BY <3>2, <3>3
  <2>3. QED
    BY <2>1, <2>2
<1>6. ASSUME NEW i \in 1..Len(q), NEW j \in 1..Len(q), q[i] = q[j] PROVE i = j
  <2>1. at(i) = at(j)
    BY <1>1, <1>2, <1>6 DEF IInv, LinkInv
  <2>2. QED
    BY <1>3, <2>1
<1>7. ASSUME NEW i \in 1..Len(q), NEW j \in 1..Len(q),
             i < j, Timely(q[i]), Timely(q[j])
      PROVE  Left(q[i]) <= Left(q[j])
  <2>1. at(i) < at(j) /\ q[i] = TdoQueue[at(i)] /\ q[j] = TdoQueue[at(j)]
    BY <1>2, <1>3, <1>7
  <2>2. QED
    BY <1>1, <1>2, <1>7, <2>1 DEF IInv, OrderInv
<1>8. QED
  BY <1>5, <1>6, <1>7 DEF Without

\* SetTimestamp, SetTimeToFire and ScheduleTimer put the timer into its place.
LEMMA ArmKeeps ==
  ASSUME IInv, NEW q \in Seq(Timers), NEW t \in Timers, NEW ago \in Times, NEW off \in Times,
         Without(q, t), interval[t] \in Intervals[t], InTime(ago), Arm(q, t, ago, off)
  PROVE  LinkInv' /\ OrderInv' /\ TdoQueue' \in Seq(Timers)
<1> DEFINE ttf == (tick - (ago + off) + interval[t]) % Wrap
<1>1. Len(q) \in Nat /\ \A i \in 1..Len(q) : q[i] \in Timers /\ q[i] # t /\ state[q[i]]
  BY LenProperties DEF Without
<1>2. PICK r \in Seq(Timers) : r = TdoQueue'
  BY PlaceFound DEF Arm, IInv
<1>3. PICK p \in 1..(Len(q) + 1) :
          /\ Inserted(q, p, t, r)
          /\ interval[t] # 0 =>
                /\ \A j \in 1..Len(q) : j < p => Continues(q[j], ttf)
                /\ p <= Len(q) => ~Continues(q[p], ttf)
  BY <1>2, PlaceFound DEF Arm, IInv
<1>4. DOMAIN r = 1..Len(r) /\ Len(r) = Len(q) + 1 /\ Len(r) \in Nat
  BY <1>1, <1>3, LenProperties DEF Inserted
<1> DEFINE at(j) == IF j < p THEN j ELSE j - 1
<1>5. /\ r[p] = t
      /\ \A j \in 1..Len(r) : j # p => at(j) \in 1..Len(q) /\ r[j] = q[at(j)]
  BY <1>1, <1>3, <1>4 DEF Inserted
<1>6. \A i, j \in 1..Len(r) : i # p /\ j # p =>
          (at(i) = at(j) => i = j) /\ (i < j => at(i) < at(j))
  BY <1>1, <1>4
<1>7. \A i \in 1..Len(q) : \E j \in 1..Len(r) : j # p /\ at(j) = i
  <2> SUFFICES ASSUME NEW i \in 1..Len(q) PROVE \E j \in 1..Len(r) : j # p /\ at(j) = i
    OBVIOUS
  <2>1. CASE i < p
    BY <1>1, <1>4, <2>1
  <2>2. CASE i >= p
    <3>1. i + 1 \in 1..Len(r) /\ i + 1 # p /\ at(i + 1) = i
      BY <1>1, <1>4, <2>2
    <3>2. QED
      BY <3>1
  <2>3. QED
    BY <1>1, <2>1, <2>2
<1>8. /\ state' = [state EXCEPT ![t] = TRUE]
      /\ age' = [age EXCEPT ![t] = ago]
      /\ span' = [span EXCEPT ![t] = interval[t]]
      /\ place' = [place EXCEPT ![t] =
                     IF off # 0 \/ \E i \in 1..Len(q) : Misled(q[i]) THEN "astray"
                     ELSE IF interval[t] \in 1..ago THEN "late" ELSE "due"]
  BY DEF Arm
<1> DEFINE number(u) == age[u] \in Nat /\ span[u] \in Nat /\ interval[u] \in Nat
<1>9. ago \in Nat /\ \A u \in Timers : number(u) /\ Left(u) \in Int
  BY TimerConstants DEF IInv, TypeOK, Times, Left
<1>10. /\ state'[t] /\ Left(t)' = interval[t] - ago
       /\ Timely(t)' => /\ interval[t] # 0 /\ ago < interval[t] /\ off = 0
                        /\ \A i \in 1..Len(q) : ~Misled(q[i])
  <2>1. /\ state'[t] /\ age'[t] = ago /\ span'[t] = interval[t]
        /\ place'[t] = "due" => /\ off = 0 /\ \A i \in 1..Len(q) : ~Misled(q[i])
                                /\ ~(interval[t] \in 1..ago)
    BY <1>8 DEF IInv, TypeOK
  <2>2. QED
    BY <1>9, <2>1 DEF Left, Timely
<1>11. \A u \in Timers : u # t => /\ state'[u] <=> state[u]
                                  /\ Left(u)' = Left(u)
                                  /\ Timely(u)' <=> Timely(u)
  BY <1>8 DEF IInv, TypeOK, Left, Timely
<1>12. \A j \in 1..Len(q) :
          Timely(t)' => (Continues(q[j], ttf) <=> Left(q[j]) <= interval[t] - ago)
  <2> SUFFICES ASSUME NEW j \in 1..Len(q), Timely(t)'
               PROVE  Continues(q[j], ttf) <=> Left(q[j]) <= interval[t] - ago
    OBVIOUS
  <2>1. age[q[j]] + interval[t] < Wrap /\ ago < interval[t] /\ interval[t] \in Times
    BY <1>1, <1>10 DEF IInv, TypeOK, TimeInv, InTime
  <2>2. skew[q[j]] = 0 /\ off = 0 /\ ago + off = ago
    BY <1>9, <1>10 DEF Misled
  <2>3. QED
    BY <1>1, <2>1, <2>2, ContinuesExactly DEF IInv
<1> HIDE DEF at, ttf
<1>13. \A u \in Timers : state'[u] <=> \E i \in 1..Len(r) : r[i] = u
  <2> SUFFICES ASSUME NEW u \in Timers, u # t
               PROVE  state[u] <=> \E i \in 1..Len(r) : r[i] = u
    BY <1>1, <1>4, <1>5, <1>10, <1>11
  <2>1. state[u] <=> \E i \in 1..Len(q) : q[i] = u
    BY DEF Without
  <2>2. (\E i \in 1..Len(q) : q[i] = u) <=> \E i \in 1..Len(r) : r[i] = u
    BY <1>5, <1>7
  <2>3. QED
    BY <2>1, <2>2
<1>14. ASSUME NEW i \in 1..Len(r), NEW j \in 1..Len(r), r[i] = r[j] PROVE i = j
  <2>1. CASE i = p \/ j = p
    BY <1>1, <1>5, <1>14, <2>1
  <2>2. CASE i # p /\ j # p
    <3>1. at(i) = at(j)
      BY <1>5, <1>14, <2>2 DEF Without
    <3>2. QED
      BY <1>6, <2>2, <3>1
  <2>3. QED
    BY <2>1, <2>2
<1>15. ASSUME NEW i \in 1..Len(r), NEW j \in 1..Len(r), i < j,
              Timely(r[i])', Timely(r[j])'
       PROVE  Left(r[i])' <= Left(r[j])'
  <2>1. CASE i # p /\ j # p
    <3>1. Timely(q[at(i)]) /\ Timely(q[at(j)])
      BY <1>1, <1>5, <1>11, <1>15, <2>1
    <3>2. Left(q[at(i)]) <= Left(q[at(j)])
      BY <1>5, <1>6, <1>15, <2>1, <3>1 DEF Without
    <3>3. QED
      BY <1>1, <1>5, <1>11, <2>1, <3>2
  <2>2. CASE j = p
    <3>1. i # p /\ at(i) = i /\ i < p
      BY <1>4, <1>15, <2>2 DEF at
    <3>2. Continues(q[i], ttf)
      BY <1>3, <1>5, <1>10, <1>15, <2>2, <3>1
    <3>3. Left(q[i]) <= interval[t] - ago
      BY <1>5, <1>12, <1>15, <2>2, <3>1, <3>2
    <3>4. QED
      BY <1>1, <1>5, <1>10, <1>11, <2>2, <3>1, <3>3
  <2>3. CASE i = p
    <3>1. j # p /\ at(j) = j - 1 /\ p <= j - 1 /\ p \in 1..Len(q)
      BY <1>1, <1>4, <1>15, <2>3 DEF at
    <3>2. ~(Left(q[p]) <= interval[t] - ago)
      BY <1>3, <1>5, <1>10, <1>12, <1>15, <2>3, <3>1
    <3>3. interval[t] \in Nat /\ ago \in Nat /\ ago < interval[t]
      BY <1>5, <1>9, <1>10, <1>15, <2>3
    <3>4. /\ q[p] \in Timers /\ state[q[p]]
          /\ age[q[p]] \in Nat /\ span[q[p]] \in Nat /\ Left(q[p]) \in Int
      BY <1>1, <1>9, <3>1
    <3>5. Timely(q[p])
      <4>1. Left(q[p]) > 0
        BY <3>2, <3>3, <3>4
      <4>2. place[q[p]] = "late" => span[q[p]] <= age[q[p]]
        BY <3>4 DEF IInv, TimeInv
      <4>3. place[q[p]] # "astray" /\ place[q[p]] \in {"due", "late", "astray"}
        BY <1>5, <1>10, <1>15, <2>3, <3>1, <3>4 DEF Misled, IInv, TypeOK
      <4>4. QED
        BY <3>4, <4>1, <4>2, <4>3 DEF Left, Timely
    <3>6. Timely(q[j - 1]) /\ r[j] = q[j - 1] /\ j - 1 \in 1..Len(q)
      BY <1>1, <1>5, <1>11, <1>15, <3>1
    <3>7. Left(q[p]) \in Int /\ Left(q[j - 1]) \in Int
      BY <1>1, <1>9, <3>1, <3>6
    <3>8. Left(q[p]) <= Left(q[j - 1])
      <4>1. p < j - 1 \/ p = j - 1
        BY <3>1
      <4>2. QED
        BY <3>1, <3>5, <3>6, <3>7, <4>1 DEF Without
    <3>9. interval[t] - ago <= Left(q[j - 1])
      BY <3>2, <3>3, <3>7, <3>8
    <3>10. QED
      BY <1>1, <1>5, <1>10, <1>11, <2>3, <3>6, <3>9
  <2>4. QED
    BY <2>1, <2>2, <2>3
<1>16. QED
  BY <1>2, <1>4, <1>13, <1>14, <1>15 DEF LinkInv, OrderInv

LEMMA DisarmKeeps ==
  ASSUME IInv, NEW t \in Timers, state[t], Disarm(t)
  PROVE  LinkInv' /\ OrderInv' /\ TdoQueue' \in Seq(Timers)
<1> DEFINE p == CHOOSE i \in DOMAIN TdoQueue : TdoQueue[i] = t
<1>1. p \in 1..Len(TdoQueue) /\ TdoQueue[p] = t
  BY QueueDomain DEF IInv, LinkInv
<1>2. TdoQueue' = RemoveAt(TdoQueue, p)
  BY DEF Disarm
<1> HIDE DEF p
<1>3. PICK r \in Seq(Timers) : r = TdoQueue' /\ Removed(TdoQueue, p, r)
  BY <1>1, <1>2, RemovedAt DEF IInv, TypeOK
<1>4. Without(r, t)
  BY <1>1, <1>3, RemoveLeavesOthers
<1>5. /\ Len(r) \in Nat /\ DOMAIN r = 1..Len(r)
      /\ \A i \in 1..Len(r) : r[i] \in Timers /\ r[i] # t
  BY <1>4, LenProperties DEF Without
<1>6. /\ ~state'[t]
      /\ \A u \in Timers : u # t => /\ state'[u] <=> state[u]
                                    /\ Left(u)' = Left(u)
                                    /\ Timely(u)' <=> Timely(u)
  BY DEF Disarm, IInv, TypeOK, Left, Timely
<1>7. \A u \in Timers : state'[u] <=> \E i \in 1..Len(r) : r[i] = u
  BY <1>4, <1>6 DEF Without
<1>8. \A i, j \in 1..Len(r) :
         Timely(r[i])' /\ Timely(r[j])' /\ i < j => Left(r[i])' <= Left(r[j])'
  BY <1>4, <1>5, <1>6 DEF Without
<1>9. \A i, j \in 1..Len(r) : r[i] = r[j] => i = j
  BY <1>4 DEF Without
<1>10. QED
  BY <1>3, <1>5, <1>7, <1>8, <1>9 DEF LinkInv, OrderInv

LEMMA TimeFacts ==
  /\ 0 \in Times
  /\ \A t \in Timers : Intervals[t] \subseteq Times
  /\ InTime(0)
  BY TimerConstants DEF Times, InTime

\* Setting the clock keeps what it was set by within the width of the tick.
LEMMA SkewStays ==
  ASSUME NEW x \in Times, NEW d \in Times
  PROVE  (x + d) % Wrap \in Times
<1>1. Wrap \in Nat \ {0} /\ x \in 0..(Wrap - 1) /\ d \in 0..(Wrap - 1)
  BY TimerConstants DEF Times
<1>2. (x + d) % Wrap = IF x + d < Wrap THEN x + d ELSE x + d - Wrap
  BY <1>1, ModForth
<1>3. QED
  BY <1>1, <1>2 DEF Times

LEMMA WaitInTime ==
  ASSUME NEW ago \in Times, MayWait(ago), NEW t \in Timers, NEW i \in Intervals[t]
  PROVE  ago + 1 \in Times /\ InTime(ago + 1)
  BY TimerConstants DEF Times, MayWait, InTime

LEMMA TaskFacts ==
  /\ Ended \in TaskStates
  /\ [pc |-> "loop", timer |-> NULL] \in TaskStates
  /\ \A t \in Timers : [pc |-> "fire", timer |-> t] \in TaskStates
  /\ \A s \in TaskStates : /\ [s EXCEPT !.pc = "sleep"] \in TaskStates
                           /\ [s EXCEPT !.pc = "invoke"] \in TaskStates
  BY DEF TaskStates, Ended

LEMMA CallFacts ==
  /\ NoCall \in Calls /\ NoCall.pc = "idle"
  /\ \A t \in Timers, s \in {"start", "register"} :
        [pc |-> s, timer |-> t, age |-> 0, skew |-> 0] \in Calls
  /\ \A c \in Calls : /\ c.age \in Times /\ c.skew \in Times
                      /\ [c EXCEPT !.pc = "register"] \in Calls
                      /\ c.age + 1 \in Times => [c EXCEPT !.age = @ + 1] \in Calls
                      /\ \A d \in Times : [c EXCEPT !.skew = (@ + d) % Wrap] \in Calls
<1>1. 0 \in Times
  BY TimeFacts
<1>2. \A x, d \in Times : (x + d) % Wrap \in Times
  BY SkewStays
<1>3. QED
  BY <1>1, <1>2 DEF Calls, NoCall

\* Arming and disarming keep the types of what they write.
LEMMA ArmTypes ==
  ASSUME TypeOK, NEW t \in Timers, NEW ago \in Times, NEW off \in Times,
         NEW q, Arm(q, t, ago, off)
  PROVE  /\ age' \in [Timers -> Times] /\ span' \in [Timers -> Times]
         /\ skew' \in [Timers -> Times] /\ state' \in [Timers -> BOOLEAN]
         /\ place' \in [Timers -> {"due", "late", "astray"}]
  BY DEF TypeOK, Arm

LEMMA ArmTimes ==
  ASSUME IInv, NEW t \in Timers, NEW ago \in Times, NEW off \in Times,
         NEW q, Arm(q, t, ago, off), interval[t] \in Intervals[t], InTime(ago), UNCHANGED interval
  PROVE  TimeInv'
<1> SUFFICES ASSUME NEW u \in Timers, state'[u]
             PROVE  /\ span'[u] \in Intervals[u] /\ interval'[u] \in Intervals[u]
                    /\ InTime(age'[u])
                    /\ place'[u] = "late" => span'[u] <= age'[u]
  BY DEF TimeInv, InTime
<1>1. CASE u = t
  <2>1. /\ age'[u] = ago /\ span'[u] = interval[u]
        /\ place'[u] = "late" => interval[u] \in 1..ago
    BY <1>1 DEF IInv, TypeOK, Arm
  <2>2. interval[u] \in Nat /\ ago \in Nat
    BY TimerConstants DEF IInv, TypeOK, Times
  <2>3. QED
    BY <1>1, <2>1, <2>2
<1>2. CASE u # t
  BY <1>2 DEF IInv, TypeOK, TimeInv, Arm
<1>3. QED
  BY <1>1, <1>2

LEMMA DisarmTypes ==
  ASSUME TypeOK, NEW t \in Timers, Disarm(t)
  PROVE  /\ age' \in [Timers -> Times] /\ span' \in [Timers -> Times]
         /\ skew' \in [Timers -> Times] /\ state' \in [Timers -> BOOLEAN]
         /\ place' \in [Timers -> {"due", "late", "astray"}]
  BY TimeFacts DEF TypeOK, Disarm

LEMMA InitIInv == Init => IInv
<1> SUFFICES ASSUME Init PROVE IInv
  OBVIOUS
<1> USE DEF Init
<1>1. TypeOK
  BY EmptySeq, TimeFacts, TaskFacts, CallFacts DEF TypeOK
<1>2. LinkInv /\ OrderInv
  BY EmptySeq DEF LinkInv, OrderInv
<1>3. TimeInv /\ CallInv
  BY DEF TimeInv, CallInv, NoCall
<1>4. StateFollowsCalls
  BY DEF StateFollowsCalls
<1>5. QED
  BY <1>1, <1>2, <1>3, <1>4 DEF IInv

LEMMA StartStep ==
  ASSUME IInv, NEW a \in Actors, NEW t \in Timers, NEW i \in Intervals[t], Start(a, t, i)
  PROVE  IInv'
<1> USE DEF IInv, Start, armed, history
<1>1. TypeOK'
  BY TimeFacts, TaskFacts, CallFacts DEF TypeOK
<1>2. LinkInv' /\ OrderInv'
  BY DEF LinkInv, OrderInv, Timely, Left
<1>3. TimeInv'
  BY DEF TypeOK, TimeInv, InTime
<1>4. CallInv'
  BY TimeFacts DEF TypeOK, Calls, CallInv, InTime
<1>5. StateFollowsCalls'
  BY DEF StateFollowsCalls
<1>6. QED
  BY <1>1, <1>2, <1>3, <1>4, <1>5

LEMMA TsoStartStep ==
  ASSUME IInv, NEW a \in Actors, TsoStart(a)
  PROVE  IInv'
<1> USE DEF IInv, TsoStart, armed, history
<1>1. TypeOK'
  BY TimeFacts, TaskFacts, CallFacts DEF TypeOK
<1>2. LinkInv' /\ OrderInv'
  BY DEF LinkInv, OrderInv, Timely, Left
<1>3. TimeInv'
  BY DEF TypeOK, TimeInv, InTime
<1>4. CallInv'
  BY TimeFacts DEF TypeOK, Calls, CallInv, InTime
<1>5. StateFollowsCalls'
  BY DEF StateFollowsCalls
<1>6. QED
  BY <1>1, <1>2, <1>3, <1>4, <1>5

LEMMA RegisterStep ==
  ASSUME IInv, NEW a \in Actors, Register(a)
  PROVE  IInv'
<1> DEFINE t == call[a].timer
<1> USE DEF IInv, Register
<1>1. /\ t \in Timers /\ interval[t] \in Intervals[t]
      /\ InTime(call[a].age) /\ call[a].age \in Times /\ call[a].skew \in Times
  BY CallFacts DEF TypeOK, CallInv
<1>2. CASE state[t]
  <2>1. TypeOK'
    BY <1>1, <1>2, CallFacts DEF TypeOK, armed
  <2>2. LinkInv' /\ OrderInv'
    BY <1>2 DEF LinkInv, OrderInv, Timely, Left, armed
  <2>3. TimeInv' /\ CallInv'
    BY <1>1, <1>2 DEF TypeOK, TimeInv, CallInv, InTime, armed, NoCall
  <2>4. StateFollowsCalls'
    BY <1>1, <1>2 DEF TypeOK, StateFollowsCalls, armed
  <2>5. QED
    BY <2>1, <2>2, <2>3, <2>4
<1>3. CASE ~state[t]
  <2>1. Arm(TdoQueue, t, call[a].age, call[a].skew) /\ Without(TdoQueue, t)
    BY <1>1, <1>3, QueueDomain DEF LinkInv, OrderInv, Without
  <2> HIDE DEF t
  <2>2. LinkInv' /\ OrderInv' /\ TdoQueue' \in Seq(Timers)
    BY <1>1, <2>1, ArmKeeps DEF TypeOK
  <2>3. TypeOK'
    <3>1. /\ age' \in [Timers -> Times] /\ span' \in [Timers -> Times]
          /\ skew' \in [Timers -> Times] /\ state' \in [Timers -> BOOLEAN]
          /\ place' \in [Timers -> {"due", "late", "astray"}]
      BY <1>1, <2>1, ArmTypes
    <3>2. QED
      BY <1>1, <2>2, <3>1, CallFacts DEF TypeOK, t
  <2>4. TimeInv'
    BY <1>1, <2>1, ArmTimes
  <2>5. CallInv'
    BY CallFacts DEF TypeOK, CallInv, InTime
  <2>6. StateFollowsCalls'
    BY <1>1, <2>1 DEF TypeOK, StateFollowsCalls, Arm, t
  <2>7. QED
    BY <2>2, <2>3, <2>4, <2>5, <2>6
<1>4. QED
  BY <1>1, <1>2, <1>3 DEF TypeOK

LEMMA StopStep ==
  ASSUME IInv, NEW a \in Actors, NEW t \in Timers, Stop(a, t)
  PROVE  IInv'
<1> USE DEF IInv, Stop
<1>1. CASE state[t]
  <2>1. Disarm(t)
    BY <1>1
  <2>2. LinkInv' /\ OrderInv' /\ TdoQueue' \in Seq(Timers)
    BY <1>1, <2>1, DisarmKeeps
  <2>3. TypeOK'
    BY <2>1, <2>2, DisarmTypes DEF TypeOK
  <2>4. TimeInv' /\ CallInv'
    BY <2>1 DEF TypeOK, TimeInv, CallInv, InTime, Disarm
  <2>5. StateFollowsCalls'
    BY <2>1 DEF TypeOK, StateFollowsCalls, Disarm
  <2>6. QED
    BY <2>2, <2>3, <2>4, <2>5
<1>2. CASE ~state[t]
  <2>1. TypeOK'
    BY <1>2 DEF TypeOK, armed
  <2>2. LinkInv' /\ OrderInv'
    BY <1>2 DEF LinkInv, OrderInv, Timely, Left, armed
  <2>3. TimeInv' /\ CallInv'
    BY <1>2 DEF TimeInv, CallInv, InTime, armed
  <2>4. StateFollowsCalls'
    BY <1>2 DEF TypeOK, StateFollowsCalls, armed
  <2>5. QED
    BY <2>1, <2>2, <2>3, <2>4
<1>3. QED
  BY <1>1, <1>2 DEF TypeOK

LEMMA TsoRemoveStep ==
  ASSUME IInv, TsoRemove
  PROVE  IInv'
<1> USE DEF IInv, TsoRemove, armed, history
<1>1. TypeOK'
  BY TimeFacts, TaskFacts, CallFacts DEF TypeOK
<1>2. LinkInv' /\ OrderInv'
  BY DEF LinkInv, OrderInv, Timely, Left
<1>3. TimeInv'
  BY DEF TypeOK, TimeInv, InTime
<1>4. CallInv'
  BY TimeFacts DEF TypeOK, Calls, CallInv, InTime
<1>5. StateFollowsCalls'
  BY DEF StateFollowsCalls
<1>6. QED
  BY <1>1, <1>2, <1>3, <1>4, <1>5

LEMMA LoopStep ==
  ASSUME IInv, NEW k \in Tasks, Loop(k)
  PROVE  IInv'
<1> USE DEF IInv, Loop, armed, history
<1>1. TypeOK'
  BY TimeFacts, TaskFacts, CallFacts DEF TypeOK
<1>2. LinkInv' /\ OrderInv'
  BY DEF LinkInv, OrderInv, Timely, Left
<1>3. TimeInv'
  BY DEF TypeOK, TimeInv, InTime
<1>4. CallInv'
  BY TimeFacts DEF TypeOK, Calls, CallInv, InTime
<1>5. StateFollowsCalls'
  BY DEF StateFollowsCalls
<1>6. QED
  BY <1>1, <1>2, <1>3, <1>4, <1>5

LEMMA PassEndsStep ==
  ASSUME IInv, NEW k \in Tasks, PassEnds(k)
  PROVE  IInv'
<1> USE DEF IInv, PassEnds, armed, history
<1>1. TypeOK'
  BY TimeFacts, TaskFacts, CallFacts DEF TypeOK
<1>2. LinkInv' /\ OrderInv'
  BY DEF LinkInv, OrderInv, Timely, Left
<1>3. TimeInv'
  BY DEF TypeOK, TimeInv, InTime
<1>4. CallInv'
  BY TimeFacts DEF TypeOK, Calls, CallInv, InTime
<1>5. StateFollowsCalls'
  BY DEF StateFollowsCalls
<1>6. QED
  BY <1>1, <1>2, <1>3, <1>4, <1>5

LEMMA FireStep ==
  ASSUME IInv, NEW k \in Tasks, Fire(k)
  PROVE  IInv'
<1> DEFINE t == Head(TdoQueue)
<1> USE DEF IInv, Fire, history
<1>1. TdoQueue # <<>> /\ TdoQueue \in Seq(Timers)
  BY DEF HeadFires, TypeOK
<1>2. /\ t = TdoQueue[1] /\ t \in Timers /\ state[t]
      /\ Tail(TdoQueue) \in Seq(Timers) /\ Without(Tail(TdoQueue), t)
  <2>1. /\ t = TdoQueue[1] /\ 1 \in 1..Len(TdoQueue)
        /\ Tail(TdoQueue) \in Seq(Timers) /\ Removed(TdoQueue, 1, Tail(TdoQueue))
    BY <1>1, RemovedHead
  <2>2. QED
    <3>1. t \in Timers /\ state[t]
      BY <2>1, QueueDomain DEF LinkInv
    <3>2. Without(Tail(TdoQueue), TdoQueue[1])
      BY <2>1, RemoveLeavesOthers
    <3>3. QED
      BY <2>1, <3>1, <3>2
<1>3. CASE t \in Periodic
  <2>1. Arm(Tail(TdoQueue), t, 0, 0) /\ interval[t] \in Intervals[t] /\ InTime(0)
    BY <1>2, <1>3, TimeFacts DEF TimeInv
  <2> HIDE DEF t
  <2>2. LinkInv' /\ OrderInv' /\ TdoQueue' \in Seq(Timers)
    BY <1>2, <2>1, TimeFacts, ArmKeeps
  <2>3. TypeOK'
    <3>1. /\ age' \in [Timers -> Times] /\ span' \in [Timers -> Times]
          /\ skew' \in [Timers -> Times] /\ state' \in [Timers -> BOOLEAN]
          /\ place' \in [Timers -> {"due", "late", "astray"}]
      BY <1>2, <2>1, TimeFacts, ArmTypes
    <3>2. QED
      BY <1>2, <2>2, <3>1, TaskFacts DEF TypeOK, t
  <2>4. TimeInv' /\ CallInv'
    <3>1. TimeInv'
      BY <1>2, <2>1, TimeFacts, ArmTimes
    <3>2. CallInv'
      BY DEF CallInv, InTime
    <3>3. QED
      BY <3>1, <3>2
  <2>5. StateFollowsCalls'
    BY <1>2, <2>1 DEF TypeOK, StateFollowsCalls, Arm
  <2>6. QED
    BY <2>2, <2>3, <2>4, <2>5
<1>4. CASE t \notin Periodic
  <2>1. Disarm(t)
    BY <1>4
  <2> HIDE DEF t
  <2>2. LinkInv' /\ OrderInv' /\ TdoQueue' \in Seq(Timers)
    BY <1>2, <2>1, DisarmKeeps
  <2>3. TypeOK'
    BY <1>2, <2>1, <2>2, DisarmTypes, TaskFacts DEF TypeOK, t
  <2>4. TimeInv' /\ CallInv'
    BY <1>2, <2>1 DEF TypeOK, TimeInv, CallInv, InTime, Disarm
  <2>5. StateFollowsCalls'
    BY <1>2, <1>4, <2>1 DEF TypeOK, StateFollowsCalls, Disarm
  <2>6. QED
    BY <2>2, <2>3, <2>4, <2>5
<1>5. QED
  BY <1>3, <1>4

LEMMA InvokeStep ==
  ASSUME IInv, NEW k \in Tasks, Invoke(k)
  PROVE  IInv'
<1> USE DEF IInv, Invoke, armed, history
<1>1. TypeOK'
  BY TimeFacts, TaskFacts, CallFacts DEF TypeOK
<1>2. LinkInv' /\ OrderInv'
  BY DEF LinkInv, OrderInv, Timely, Left
<1>3. TimeInv'
  BY DEF TypeOK, TimeInv, InTime
<1>4. CallInv'
  BY TimeFacts DEF TypeOK, Calls, CallInv, InTime
<1>5. StateFollowsCalls'
  BY DEF StateFollowsCalls
<1>6. QED
  BY <1>1, <1>2, <1>3, <1>4, <1>5

LEMMA TimePassesStep ==
  ASSUME IInv, TimePasses
  PROVE  IInv'
<1> USE DEF IInv, TimePasses, history
<1>1. \A u \in Timers : state[u] =>
          age[u] + 1 \in Times /\ InTime(age[u] + 1)
  BY WaitInTime DEF TypeOK, TimeInv
<1>2. \A a \in Actors : call[a].pc # "idle" =>
          call[a].age + 1 \in Times /\ InTime(call[a].age + 1)
  BY CallFacts, WaitInTime DEF TypeOK, CallInv
<1>3. TypeOK'
  <2>1. tick' \in Times
    BY TimerConstants DEF TypeOK, Times
  <2>2. age' \in [Timers -> Times]
    BY <1>1, TimeFacts
  <2>3. call' \in [Actors -> Calls]
    BY <1>2, CallFacts DEF TypeOK
  <2>4. QED
    BY <2>1, <2>2, <2>3 DEF TypeOK
<1>4. LinkInv'
  BY DEF LinkInv
<1>5. OrderInv'
  <2>1. \A i \in DOMAIN TdoQueue : TdoQueue[i] \in Timers /\ state[TdoQueue[i]]
    BY QueueDomain DEF LinkInv
  <2>2. \A u \in Timers : state[u] => /\ Left(u) \in Int /\ Left(u)' = Left(u) - 1
                                      /\ Timely(u)' <=> Timely(u)
    BY TimerConstants DEF TypeOK, Left, Timely, Times
  <2>3. QED
    BY <2>1, <2>2 DEF OrderInv
<1>6. TimeInv'
  BY <1>1, TimerConstants DEF TypeOK, TimeInv, InTime, Times
<1>7. CallInv'
  BY <1>2 DEF TypeOK, CallInv, InTime, NoCall
<1>8. StateFollowsCalls'
  BY DEF StateFollowsCalls
<1>9. QED
  BY <1>3, <1>4, <1>5, <1>6, <1>7, <1>8

\* The order of the queue is one of elapsed time, which a clock set leaves.
LEMMA ClockSetStep ==
  ASSUME IInv, NEW d \in Times, ClockSet(d)
  PROVE  IInv'
<1> USE DEF IInv, ClockSet, history
<1>1. TypeOK'
  <2>1. tick' \in Times
    BY SkewStays DEF TypeOK
  <2>2. skew' \in [Timers -> Times]
    BY SkewStays, TimeFacts DEF TypeOK
  <2>3. call' \in [Actors -> Calls]
    BY CallFacts DEF TypeOK
  <2>4. QED
    BY <2>1, <2>2, <2>3 DEF TypeOK
<1>2. LinkInv' /\ OrderInv'
  BY DEF LinkInv, OrderInv, Timely, Left
<1>3. TimeInv'
  BY DEF TimeInv, InTime
<1>4. CallInv'
  BY DEF TypeOK, Calls, CallInv, InTime, NoCall
<1>5. StateFollowsCalls'
  BY DEF StateFollowsCalls
<1>6. QED
  BY <1>1, <1>2, <1>3, <1>4, <1>5

LEMMA Inductive == Spec => []IInv
<1>1. ASSUME IInv, [Next]_vars PROVE IInv'
  <2>1. CASE UNCHANGED vars
    BY <1>1, <2>1 DEF IInv, vars, armed, history, TypeOK, LinkInv, OrderInv, TimeInv, CallInv,
        StateFollowsCalls, Timely, Left, InTime
  <2>2. ASSUME NEW a \in Actors, NEW t \in Timers, NEW i \in Intervals[t], Start(a, t, i)
        PROVE  IInv'
    BY <1>1, <2>2, StartStep
  <2>3. ASSUME NEW a \in Actors, NEW t \in Timers, Stop(a, t) PROVE IInv'
    BY <1>1, <2>3, StopStep
  <2>4. ASSUME NEW a \in Actors, TsoStart(a) PROVE IInv'
    BY <1>1, <2>4, TsoStartStep
  <2>5. ASSUME NEW a \in Actors, Register(a) PROVE IInv'
    BY <1>1, <2>5, RegisterStep
  <2>6. ASSUME NEW k \in Tasks, Loop(k) PROVE IInv'
    BY <1>1, <2>6, LoopStep
  <2>7. ASSUME NEW k \in Tasks, PassEnds(k) PROVE IInv'
    BY <1>1, <2>7, PassEndsStep
  <2>8. ASSUME NEW k \in Tasks, Fire(k) PROVE IInv'
    BY <1>1, <2>8, FireStep
  <2>9. ASSUME NEW k \in Tasks, Invoke(k) PROVE IInv'
    BY <1>1, <2>9, InvokeStep
  <2>10. CASE TsoRemove
    BY <1>1, <2>10, TsoRemoveStep
  <2>11. CASE TimePasses
    BY <1>1, <2>11, TimePassesStep
  <2>12. ASSUME NEW d \in Times, ClockSet(d) PROVE IInv'
    BY <1>1, <2>12, ClockSetStep
  <2>13. QED
    BY <1>1, <2>1, <2>2, <2>3, <2>4, <2>5, <2>6, <2>7, <2>8, <2>9, <2>10, <2>11, <2>12 DEF Next
<1>2. QED
  BY <1>1, InitIInv, PTL DEF Spec

\* Type correctness; the tick and the times derived from it stay within their
\* width however long the scheduler runs.
THEOREM TypeCorrect == Spec => []TypeOK
<1>1. IInv => TypeOK
  BY DEF IInv
<1>2. QED
  BY <1>1, Inductive, PTL

\* RegisterTimer, CancelTimer and the rescheduling of the task keep the list
\* of descriptors sound, and across the wrap-around of the tick in the order
\* in which timers fire, but for the timers QueueSound excepts.
THEOREM QueueStaysSound == Spec => []QueueSound
<1>1. IInv => QueueSound
  BY DEF IInv, LinkInv, OrderInv, QueueSound, Timely, Left
<1>2. QED
  BY <1>1, Inductive, PTL

\* Whatever callbacks and owners do to a timer that is being invoked, the last
\* call to return decides whether it is in the queue.
THEOREM LastCallDecides == Spec => []StateFollowsCalls
<1>1. IInv => StateFollowsCalls
  BY DEF IInv
<1>2. QED
  BY <1>1, Inductive, PTL

\* bFireTimer never lets a timer go before its interval has passed, wherever
\* the tick wraps around, unless the clock was set while the timer waited.
THEOREM NoTimerEarly == Spec => NeverEarly
<1> DEFINE A(k) == task'[k].pc = "fire" /\ task[k].pc # "fire"
                      => age[task'[k].timer] >= span[task'[k].timer] \/ skew[task'[k].timer] # 0
<1>1. ASSUME IInv, [Next]_vars PROVE [\A k \in Tasks : A(k)]_vars
  <2> SUFFICES ASSUME Next, NEW k \in Tasks, task'[k].pc = "fire", task[k].pc # "fire"
               PROVE  \/ age[task'[k].timer] >= span[task'[k].timer]
                      \/ skew[task'[k].timer] # 0
    BY <1>1
  <2>1. task \in [Tasks -> TaskStates] /\ TypeOK
    BY <1>1 DEF IInv, TypeOK
  <2>2. Fire(k)
    <3>1. task'[k] # task[k]
      OBVIOUS
    <3>2. \/ \E a \in Actors : TsoStart(a)
          \/ \E l \in Tasks : Loop(l) \/ PassEnds(l) \/ Fire(l) \/ Invoke(l)
      BY <3>1 DEF Next, Start, Stop, Register, TsoRemove, TimePasses, ClockSet
    <3>3. ASSUME NEW a \in Actors, TsoStart(a) PROVE FALSE
      <4>1. PICK l \in Tasks : task' = [task EXCEPT ![l] = [pc |-> "loop", timer |-> NULL]]
        BY <3>1, <3>3 DEF TsoStart
      <4>2. task'[k].pc = "loop"
        BY <2>1, <3>1, <4>1
      <4>3. QED
        BY <4>2
    <3>4. ASSUME NEW l \in Tasks, Loop(l) \/ PassEnds(l) \/ Invoke(l) PROVE FALSE
      BY <2>1, <3>1, <3>4 DEF Loop, PassEnds, Invoke, Ended, TaskStates
    <3>5. ASSUME NEW l \in Tasks, Fire(l), l # k PROVE FALSE
      BY <2>1, <3>1, <3>5 DEF Fire
    <3>6. QED
      BY <3>2, <3>3, <3>4, <3>5
  <2>3. /\ TdoQueue # <<>> /\ Fires(Head(TdoQueue))
        /\ task'[k].timer = Head(TdoQueue) /\ Head(TdoQueue) \in Timers
    BY <2>1, <2>2, RemovedHead, QueueDomain DEF Fire, HeadFires, TypeOK
  <2>4. QED
    BY <2>1, <2>3, FiresExactly
<1>2. QED
  BY <1>1, Inductive, PTL DEF Spec, NeverEarly
=============================================================================
