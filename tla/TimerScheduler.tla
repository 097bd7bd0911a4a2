--------------------------- MODULE TimerScheduler ---------------------------
(***************************************************************************)
(* The timer service of the ANSC library (AnscTimerScheduler): timer       *)
(* descriptors ("Tdo") registered with a scheduler ("Tso"), whose task     *)
(* sleeps, looks at the head of the queue, and calls the client's Invoke   *)
(* with the queue unlocked.  Owners and the callbacks themselves start and *)
(* stop timers.  A section under TdoQueueSpinLock is one step.             *)
(*                                                                         *)
(* The scheduler compares millisecond ticks that wrap around and that jump *)
(* when the time of day is set (the tick is gettimeofday).  Timestamp and  *)
(* TimeToFire are derived here from how long ago a timer was armed and by  *)
(* how much the clock was set since then; the first says also what the     *)
(* comparisons should find.  Left out: the length of the sleep             *)
(* (SchedulingUnit), which only adds to the delay, and hCurInvokedTdo,     *)
(* which AnscTsoCancelTimer turns into bWaitForInvoke and tests before an  *)
(* empty block.                                                            *)
(***************************************************************************)
EXTENDS Integers, Sequences, SequencesExt

CONSTANTS
    Owners,     \* tasks that own timers
    Tasks,      \* bound: scheduling tasks that may exist
    Timers,     \* timer descriptors
    Periodic,   \* those of ANSC_TIMER_TYPE_PERIODIC
    Intervals,  \* the intervals SetInterval gives each timer before a start
    Wrap,       \* number of values of the millisecond tick
    Skews,      \* bounds: by how much the clock may be set while a timer waits,
    CallSkews,  \* and during a call, forwards or, modulo Wrap, back
    NULL        \* no timer

ASSUME TimerConstants ==
    /\ Periodic \subseteq Timers /\ NULL \notin Timers
    /\ Owners \cap Tasks = {}
    /\ Wrap \in Nat \ {0}
    /\ Intervals \in [Timers -> SUBSET (0..(Wrap - 1))]
    /\ Skews \subseteq 0..(Wrap - 1) /\ CallSkews \subseteq 0..(Wrap - 1)

VARIABLES
    tick,       \* AnscGetTickInMilliSeconds
    bStarted,   \* of the scheduler
    TdoQueue,   \* the registered timers in firing order
    interval,   \* Interval of each timer
    state,      \* bScheduled of each timer
    age, span,  \* of a queued timer: time since Timestamp, and from there
                \* to TimeToFire
    skew,       \* of a queued timer: by how much the clock was set since
                \* Timestamp was read
    task,       \* where each scheduling task stands, and the timer it invokes
    call,       \* the RegisterTimer each owner or callback is in
    place,      \* history: whether the timer was queued "due" later, "late",
                \* with its interval over, or "astray", across a clock set
    stopped,    \* history: the last call to return for the timer was a stop
    removed,    \* history: the scheduler was stopped
    taskless    \* history: the scheduler was started last without getting a task

armed == <<age, span, skew, place, state, TdoQueue>>
history == <<stopped, removed, taskless>>
vars == <<tick, bStarted, armed, interval, task, call, history>>

Actors == Owners \cup Tasks
NoCall == [pc |-> "idle", timer |-> NULL, age |-> 0, skew |-> 0]
Ended == [pc |-> "none", timer |-> NULL]

\* The values of the tick, and what task[k] and call[a] may be.
Times == 0..(Wrap - 1)
TaskStates == [pc : {"none", "loop", "sleep", "fire", "invoke"}, timer : Timers \cup {NULL}]
Calls == [pc : {"idle", "start", "register"}, timer : Timers \cup {NULL},
          age : Times, skew : Times]

\* AnscTsoInitialize, with no task: the first registration starts it.
Init ==
    /\ tick = 0 /\ bStarted = FALSE /\ TdoQueue = <<>>
    /\ interval = [t \in Timers |-> 0]
    /\ state = [t \in Timers |-> FALSE]
    /\ age = [t \in Timers |-> 0] /\ span = [t \in Timers |-> 0]
    /\ skew = [t \in Timers |-> 0]
    /\ task = [k \in Tasks |-> Ended]
    /\ call = [a \in Actors |-> NoCall]
    /\ place = [t \in Timers |-> "due"]
    /\ stopped = [t \in Timers |-> TRUE]
    /\ removed = FALSE /\ taskless = FALSE

\* The owners run until the scheduler goes; a callback runs in its task.
Running(a) == IF a \in Tasks THEN task[a].pc = "invoke" ELSE ~removed

Timestamp(t) == (tick - (age[t] + skew[t])) % Wrap
TimeToFire(t) == (Timestamp(t) + span[t]) % Wrap

-----------------------------------------------------------------------------
(***************************************************************************)
(* AnscTsoScheduleTimer                                                    *)
(***************************************************************************)
\* Mutant: the wrap-around is not considered.
Continues_NoWrap(cur, ttf) == ttf >= TimeToFire(cur)

\* The search for the place of a timer to fire at ttf goes on past cur.
Continues(cur, ttf) ==
    IF Timestamp(cur) <= TimeToFire(cur)
    THEN (ttf < Timestamp(cur)) <=> (ttf < TimeToFire(cur))
    ELSE ttf < Timestamp(cur) /\ ttf >= TimeToFire(cur)

Scheduled(queue, t, ttf) ==
    LET before == {i \in 1..Len(queue) : ~Continues(queue[i], ttf)}
    IN  IF interval[t] = 0 THEN <<t>> \o queue
        ELSE IF before = {} THEN Append(queue, t)
        ELSE InsertAt(queue, CHOOSE i \in before : \A j \in before : i <= j, t)

\* The clock was set since t was queued, or had been when it was.
Misled(t) == skew[t] # 0 \/ place[t] = "astray"

\* SetTimestamp, SetTimeToFire and ScheduleTimer, ago after the tick was read,
\* with the clock set by off since.
Arm(queue, t, ago, off) ==
    /\ age' = [age EXCEPT ![t] = ago]
    /\ span' = [span EXCEPT ![t] = interval[t]]
    /\ skew' = [skew EXCEPT ![t] = off]
    /\ place' = [place EXCEPT ![t] =
                   IF off # 0 \/ \E i \in 1..Len(queue) : Misled(queue[i]) THEN "astray"
                   ELSE IF interval[t] \in 1..ago THEN "late" ELSE "due"]
    /\ state' = [state EXCEPT ![t] = TRUE]
    /\ TdoQueue' = Scheduled(queue, t, (tick - (ago + off) + interval[t]) % Wrap)

\* The timer leaves the queue, and its times have no reader any more.
Disarm(t) ==
    /\ age' = [age EXCEPT ![t] = 0]
    /\ span' = [span EXCEPT ![t] = 0]
    /\ skew' = [skew EXCEPT ![t] = 0]
    /\ place' = [place EXCEPT ![t] = "due"]
    /\ state' = [state EXCEPT ![t] = FALSE]
    /\ TdoQueue' = RemoveAt(TdoQueue, CHOOSE i \in DOMAIN TdoQueue : TdoQueue[i] = t)

-----------------------------------------------------------------------------
(***************************************************************************)
(* Calls: AnscTdoStart and AnscTdoStop reach RegisterTimer and CancelTimer *)
(* through the container.                                                  *)
(***************************************************************************)
\* SetInterval, then Start: RegisterTimer reads the tick and bStarted.
Start(a, t, i) ==
    /\ Running(a) /\ call[a].pc = "idle"
    /\ interval' = [interval EXCEPT ![t] = i]
    /\ call' = [call EXCEPT ![a] =
                  [pc |-> IF bStarted THEN "register" ELSE "start",
                   timer |-> t, age |-> 0, skew |-> 0]]
    /\ UNCHANGED <<tick, bStarted, armed, task, history>>

\* AnscTsoStart looks at bStarted again, without a lock.  It returns if
\* somebody else has set it by now and it sees that; otherwise it sets it and
\* spawns the task.  That may fail, and the failure is ignored.
TsoStart(a) ==
    /\ call[a].pc = "start"
    /\ bStarted' = TRUE
    /\ call' = [call EXCEPT ![a].pc = "register"]
    /\ \/ \E k \in Tasks :
            /\ task[k] = Ended
            /\ task' = [task EXCEPT ![k] = [pc |-> "loop", timer |-> NULL]]
            /\ taskless' = FALSE
       \/ /\ taskless' = \A k \in Tasks : task[k] = Ended
          /\ UNCHANGED task
    /\ UNCHANGED <<tick, armed, interval, stopped, removed>>

\* A timer that is scheduled already is left as it is.
Register(a) ==
    LET t == call[a].timer IN
    /\ call[a].pc = "register"
    /\ IF state[t] THEN UNCHANGED armed
       ELSE Arm(TdoQueue, t, call[a].age, call[a].skew)
    /\ stopped' = [stopped EXCEPT ![t] = FALSE]
    /\ call' = [call EXCEPT ![a] = NoCall]
    /\ UNCHANGED <<tick, bStarted, interval, task, removed, taskless>>

\* Mutant: a timer that is being invoked is left alone.
Stop_NotInvoked(a, t) ==
    /\ Running(a) /\ call[a].pc = "idle"
    /\ stopped' = [stopped EXCEPT ![t] = TRUE]
    /\ IF state[t] /\ \A k \in Tasks : task[k].timer # t
       THEN Disarm(t) ELSE UNCHANGED armed
    /\ UNCHANGED <<tick, bStarted, interval, task, call, removed, taskless>>

\* AnscTsoCancelTimer
Stop(a, t) ==
    /\ Running(a) /\ call[a].pc = "idle"
    /\ stopped' = [stopped EXCEPT ![t] = TRUE]
    /\ IF state[t] THEN Disarm(t) ELSE UNCHANGED armed
    /\ UNCHANGED <<tick, bStarted, interval, task, call, removed, taskless>>

\* AnscTsoRemove: AnscTsoStop clears the flag and waits for nobody.
TsoRemove ==
    /\ bStarted /\ ~removed
    /\ bStarted' = FALSE
    /\ removed' = TRUE
    /\ UNCHANGED <<tick, armed, interval, task, call, stopped, taskless>>

-----------------------------------------------------------------------------
(***************************************************************************)
(* AnscTsoScheduleTask                                                     *)
(***************************************************************************)
\* Mutant: the tick is compared without regard to the wrap-around.
Fires_NoWrap(t) == tick >= TimeToFire(t)

Fires(t) ==
    IF Timestamp(t) < TimeToFire(t)
    THEN (tick < Timestamp(t)) <=> (tick < TimeToFire(t))
    ELSE \/ Timestamp(t) = TimeToFire(t)
         \/ tick < Timestamp(t) /\ tick >= TimeToFire(t)

\* Mutant: the loop does not end when the scheduler is stopped.
Loop_Forever(k) ==
    /\ task[k].pc = "loop"
    /\ task' = [task EXCEPT ![k].pc = "sleep"]
    /\ UNCHANGED <<tick, bStarted, armed, interval, call, history>>

\* Mutant: the task makes a single pass.
Loop_Once(k) ==
    /\ task[k].pc = "loop"
    /\ task' = [task EXCEPT ![k] = Ended]
    /\ UNCHANGED <<tick, bStarted, armed, interval, call, history>>

\* while ( bStarted ) sleep
Loop(k) ==
    /\ task[k].pc = "loop"
    /\ task' = [task EXCEPT ![k] = IF bStarted THEN [@ EXCEPT !.pc = "sleep"] ELSE Ended]
    /\ UNCHANGED <<tick, bStarted, armed, interval, call, history>>

\* The task has woken up, or comes back from a callback; pFreshTdo is the
\* timer it has just invoked.
AtHead(k) ==
    \/ task[k].pc = "sleep"
    \/ task[k].pc = "invoke" /\ call[k].pc = "idle"

\* The head is a timer to fire, and not the one just invoked.
HeadFires(k) ==
    IF TdoQueue = <<>> THEN FALSE
    ELSE Head(TdoQueue) # task[k].timer /\ Fires(Head(TdoQueue))

PassEnds(k) ==
    /\ AtHead(k) /\ ~HeadFires(k)
    /\ task' = [task EXCEPT ![k] = [pc |-> "loop", timer |-> NULL]]
    /\ UNCHANGED <<tick, bStarted, armed, interval, call, history>>

\* The head leaves the queue, a periodic one for its next place.  The lock
\* is released before the callback is called.
Fire(k) ==
    LET t == Head(TdoQueue) IN
    /\ AtHead(k) /\ HeadFires(k)
    /\ IF t \in Periodic THEN Arm(Tail(TdoQueue), t, 0, 0) ELSE Disarm(t)
    /\ task' = [task EXCEPT ![k] = [pc |-> "fire", timer |-> t]]
    /\ UNCHANGED <<tick, bStarted, interval, call, history>>

\* AnscTdoInvoke calls the client.
Invoke(k) ==
    /\ task[k].pc = "fire"
    /\ task' = [task EXCEPT ![k].pc = "invoke"]
    /\ UNCHANGED <<tick, bStarted, armed, interval, call, history>>

\* Bound: no timer and no call waits for so long that a timer armed now would
\* be due a whole cycle of the tick (49.7 days) after it.
MayWait(ago) == \A t \in Timers : \A i \in Intervals[t] : ago + 1 + i < Wrap

\* Mutant: the tick counts on.
TimePasses_NoWrap ==
    /\ \A t \in Timers : state[t] => MayWait(age[t])
    /\ tick' = tick + 1
    /\ UNCHANGED <<bStarted, armed, interval, task, call, history>>

TimePasses ==
    /\ \A t \in Timers : state[t] => MayWait(age[t])
    /\ \A a \in Actors : call[a].pc # "idle" => MayWait(call[a].age)
    /\ tick' = (tick + 1) % Wrap
    /\ age' = [t \in Timers |-> IF state[t] THEN age[t] + 1 ELSE 0]
    /\ call' = [a \in Actors |-> IF call[a].pc = "idle" THEN NoCall
                                 ELSE [call[a] EXCEPT !.age = @ + 1]]
    /\ UNCHANGED <<bStarted, span, skew, place, state, TdoQueue, interval, task, history>>

\* Somebody sets the time of day: the tick jumps, and no time passes.
ClockSet(d) ==
    /\ tick' = (tick + d) % Wrap
    /\ skew' = [t \in Timers |-> IF state[t] THEN (skew[t] + d) % Wrap ELSE 0]
    /\ call' = [a \in Actors |-> IF call[a].pc = "idle" THEN NoCall
                                 ELSE [call[a] EXCEPT !.skew = (@ + d) % Wrap]]
    /\ \A t \in Timers : state[t] => skew'[t] \in Skews
    /\ \A a \in Actors : call[a].pc # "idle" => call'[a].skew \in CallSkews
    /\ UNCHANGED <<bStarted, age, span, place, state, TdoQueue, interval, task, history>>

Next ==
    \/ \E a \in Actors : \/ \E t \in Timers : \E i \in Intervals[t] : Start(a, t, i)
                         \/ \E t \in Timers : Stop(a, t)
                         \/ TsoStart(a) \/ Register(a)
    \/ \E k \in Tasks : Loop(k) \/ PassEnds(k) \/ Fire(k) \/ Invoke(k)
    \/ TsoRemove \/ TimePasses
    \/ \E d \in Times : ClockSet(d)

Spec == Init /\ [][Next]_vars

\* Tasks run on; callbacks return when what they call returns.
Fairness ==
    /\ \A a \in Actors : WF_vars(TsoStart(a)) /\ WF_vars(Register(a))
    /\ \A k \in Tasks :
        WF_vars(Loop(k)) /\ WF_vars(Invoke(k)) /\ SF_vars(PassEnds(k) \/ Fire(k))

FairSpec == Spec /\ Fairness

-----------------------------------------------------------------------------
\* Type invariant of the scheduler, its timers and tasks; the tick stays
\* within its width.
TypeOK ==
    /\ tick \in Times /\ bStarted \in BOOLEAN
    /\ removed \in BOOLEAN /\ taskless \in BOOLEAN
    /\ TdoQueue \in Seq(Timers) /\ state \in [Timers -> BOOLEAN]
    /\ interval \in [Timers -> Times]
    /\ age \in [Timers -> Times] /\ span \in [Timers -> Times] /\ skew \in [Timers -> Times]
    /\ place \in [Timers -> {"due", "late", "astray"}] /\ stopped \in [Timers -> BOOLEAN]
    /\ task \in [Tasks -> TaskStates]
    /\ call \in [Actors -> Calls]

\* A timer is in the queue once when its state says it is scheduled, and not
\* at all otherwise: the link of a descriptor is never queued twice, which
\* would tie a loop in the list (AnscTsoRegisterTimer tests the state).
\* Across the wrap-around of the tick, timers stand in the order in which
\* they are to fire.  Excepted are timers of interval 0, which go to the
\* front; late ones: RegisterTimer reads the tick before it waits for the
\* queue, and a time to fire before the Timestamp of a queued timer is taken
\* for one after the wrap-around; and those queued among timers for which the
\* clock was set.  Setting the clock does not disturb the order of the others.
QueueSound ==
    /\ \A t \in Timers : state[t] <=> \E i \in DOMAIN TdoQueue : TdoQueue[i] = t
    /\ \A i, j \in DOMAIN TdoQueue :
          LET t == TdoQueue[i]
              u == TdoQueue[j]
          IN  /\ t = u => i = j
              /\ i < j /\ place[t] = "due" /\ place[u] = "due" /\ span[t] > 0 /\ span[u] > 0
                   => span[t] - age[t] <= span[u] - age[u]

\* A timer whose last call was a stop is out of the queue, even if it was
\* being invoked then, and a periodic timer that was not stopped stays in it
\* (AnscTsoCancelTimer against the rescheduling of AnscTsoScheduleTask).
StateFollowsCalls ==
    \A t \in Timers : /\ state[t] => ~stopped[t]
                      /\ t \in Periodic /\ ~stopped[t] => state[t]

\* No timer is invoked before its interval has passed since it was started,
\* wherever the tick wrapped around in between (bFireTimer of
\* AnscTsoScheduleTask), unless the clock was set in between and does not show
\* the right time again: a tick set forwards, or back behind the Timestamp,
\* lets timers go early.
NeverEarly ==
    [][\A k \in Tasks :
          LET t == task'[k].timer
          IN  task'[k].pc = "fire" /\ task[k].pc # "fire"
                  => age[t] >= span[t] \/ skew[t] # 0]_vars

Overdue(t) == state[t] /\ place[t] = "due" /\ age[t] >= span[t]

\* A timer that is due is invoked or stopped.  It may wait as long as a timer
\* in the queue is misled by a clock set, for ever if the task could not be
\* had, and if timers of interval 0 are started again and again: each goes to
\* the front of the queue, and the task ends its pass when it meets the timer
\* it has just invoked.
DueTimersFire ==
    \/ []<>(\E t \in Timers : state[t] /\ span[t] = 0)
    \/ \A t \in Timers :
          Overdue(t) ~> \/ ~Overdue(t) \/ removed \/ taskless
                        \/ \E u \in Timers : state[u] /\ Misled(u)

\* A scheduler that is stopped ends its tasks, unless a registration that was
\* under way, or one from a callback, starts it again (AnscTsoStop).
StoppedTasksEnd == removed ~> bStarted \/ \A k \in Tasks : task[k] = Ended

\* Rule 3 of ansc_protection.h: after stop() returns, no more invoke() is
\* called.
NoInvokeAfterStop ==
    [][\A k \in Tasks : task[k].pc = "fire" /\ task'[k].pc = "invoke"
                          => ~stopped[task[k].timer]]_vars
=============================================================================
