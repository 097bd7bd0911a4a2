---------------------------- MODULE IntervalSub ----------------------------
(***************************************************************************)
(* Interval subscriptions of the rbus adapter                              *)
(* (ccsp_rbus_intervalsubscription.c, and the interval branch of           *)
(* cssp_RbusSubscribe_handler in ccsp_rbus_subscription.c).                *)
(*                                                                         *)
(* Every interval subscription has a record and a publishing thread of its *)
(* own.  The thread sleeps for the interval, reads the parameters and      *)
(* publishes an event.  A subscription with a duration ends by itself: the *)
(* thread publishes RBUS_EVENT_DURATION_COMPLETE, removes its record from  *)
(* gRecord and frees it.  Otherwise an unsubscribe clears rec->running,    *)
(* joins the thread and frees the record.  Handlers run one at a time      *)
(* under SUB_LOCK and use gMutex only around gRecord, which makes each use *)
(* one step.  The handler never removes the subscription from subList, so  *)
(* a process makes at most one record of it and Subs name the records.     *)
(***************************************************************************)
EXTENDS Integers

CONSTANTS
    Handlers,  \* threads that run ccsp_rbus_event_subscribe_override_handler
    Subs,      \* subscriptions with interval # 0
    Period,    \* [Subs -> Nat \ {0}]: interval
    Duration,  \* [Subs -> Nat]: duration, 0 for none
    NULL       \* no handler, no record

ASSUME ConstantsOK ==
    /\ Period \in [Subs -> Nat \ {0}]
    /\ Duration \in [Subs -> Nat]
    /\ NULL \notin Handlers \cup Subs

VARIABLES
    subrecord_mutex, \* the handler inside SUB_LOCK
    subList,         \* the subscriptions of subList
    op,              \* the call each handler is executing
    memory,          \* what became of each subscription's record
    gRecord,         \* the records in the vector gRecord
    running,         \* rec->running
    thread,          \* where each publishing thread stands
    count,           \* the thread's count of events published
    completed,       \* history: RBUS_EVENT_DURATION_COMPLETE was published
    ended            \* history: subscriptions an unsubscribe has returned for

recVars == <<memory, gRecord, running>>
threadVars == <<thread, count, completed>>
vars == <<subrecord_mutex, subList, op, recVars, threadVars, ended>>

Idle == [pc |-> "idle", sub |-> NULL]
At(h, pc, s) == op' = [op EXCEPT ![h] = [pc |-> pc, sub |-> s]]

\* if (interval && (duration != 0) && (duration < interval)): invalid.
Valid(s) == Duration[s] = 0 \/ Duration[s] >= Period[s]

\* Mutant: the division rounds up.
DurationCount_RoundsUp(s) == (Duration[s] + Period[s] - 1) \div Period[s]

\* duration_count, an integer division.
DurationCount(s) == Duration[s] \div Period[s]

(***************************************************************************)
(* Handlers.                                                               *)
(***************************************************************************)
\* SUB_LOCK and addSubscription.  sub_Find finds no record of a subscription
\* that was not in subList.
EnterSubscribe(h, s) ==
    /\ op[h] = Idle
    /\ subrecord_mutex = NULL
    /\ Valid(s)
    /\ s \notin subList
    /\ subrecord_mutex' = h
    /\ subList' = subList \cup {s}
    /\ At(h, "spawn", s)
    /\ UNCHANGED <<recVars, threadVars, ended>>

\* malloc, running = 1 and pthread_create, before the record is in gRecord.
Spawn(h) ==
    /\ op[h].pc = "spawn"
    /\ LET s == op[h].sub
       IN  /\ memory' = [memory EXCEPT ![s] = "live"]
           /\ running' = [running EXCEPT ![s] = TRUE]
           /\ thread' = [thread EXCEPT ![s] = "test"]
           /\ At(h, "push", s)
    /\ UNCHANGED <<subrecord_mutex, subList, gRecord, count, completed, ended>>

Push(h) ==
    /\ op[h].pc = "push"
    /\ gRecord' = gRecord \cup {op[h].sub}
    /\ At(h, "return", op[h].sub)
    /\ UNCHANGED <<subrecord_mutex, subList, memory, running, threadVars, ended>>

\* Mutant: unsubscribes do not take SUB_LOCK.
EnterUnsubscribe_NoLock(h, s) ==
    /\ op[h] = Idle
    /\ s \in subList
    /\ At(h, IF s \in gRecord THEN "stop" ELSE "done", s)
    /\ UNCHANGED <<subrecord_mutex, subList, recVars, threadVars, ended>>

\* SUB_LOCK, the look-up in subList, and sub_Find under gMutex.  Without a
\* record Ccsp_RbusInterval_Unsubscribe fails and the handler ignores it.
EnterUnsubscribe(h, s) ==
    /\ op[h] = Idle
    /\ subrecord_mutex = NULL
    /\ s \in subList
    /\ subrecord_mutex' = h
    /\ At(h, IF s \in gRecord THEN "stop" ELSE "done", s)
    /\ UNCHANGED <<subList, recVars, threadVars, ended>>

\* Mutant: the thread is told to end and not joined.
Stop_NoJoin(h) ==
    /\ op[h].pc = "stop"
    /\ running' = [running EXCEPT ![op[h].sub] = FALSE]
    /\ At(h, "drop", op[h].sub)
    /\ UNCHANGED <<subrecord_mutex, subList, memory, gRecord, threadVars, ended>>

\* Mutant: the thread is signalled, rec->running stays set.
Stop_KeepsRunning(h) ==
    /\ op[h].pc = "stop"
    /\ At(h, IF running[op[h].sub] THEN "fetch" ELSE "drop", op[h].sub)
    /\ UNCHANGED <<subrecord_mutex, subList, recVars, threadVars, ended>>

\* if(rec->running): clear it and signal rec->cond, without rec->mutex.
Stop(h) ==
    /\ op[h].pc = "stop"
    /\ LET s == op[h].sub
       IN  /\ running' = [running EXCEPT ![s] = FALSE]
           /\ At(h, IF running[s] THEN "fetch" ELSE "drop", s)
    /\ UNCHANGED <<subrecord_mutex, subList, memory, gRecord, threadVars, ended>>

\* pthread_join reads rec->thread, then waits.
Fetch(h) ==
    /\ op[h].pc = "fetch"
    /\ At(h, "join", op[h].sub)
    /\ UNCHANGED <<subrecord_mutex, subList, recVars, threadVars, ended>>

Join(h) ==
    /\ op[h].pc = "join"
    /\ thread[op[h].sub] = "exit"
    /\ At(h, "drop", op[h].sub)
    /\ UNCHANGED <<subrecord_mutex, subList, recVars, threadVars, ended>>

\* rtVector_RemoveItem under gMutex frees the record if it is in gRecord.
RemoveItem(s) ==
    /\ gRecord' = gRecord \ {s}
    /\ memory' = IF s \in gRecord THEN [memory EXCEPT ![s] = "freed"] ELSE memory

Drop(h) ==
    /\ op[h].pc = "drop"
    /\ RemoveItem(op[h].sub)
    /\ At(h, "done", op[h].sub)
    /\ UNCHANGED <<subrecord_mutex, subList, running, threadVars, ended>>

\* saveCache and SUB_UNLOCK.
Return(h) ==
    /\ op[h].pc \in {"return", "done"}
    /\ subrecord_mutex' = NULL
    /\ op' = [op EXCEPT ![h] = Idle]
    /\ ended' = IF op[h].pc = "done" THEN ended \cup {op[h].sub} ELSE ended
    /\ UNCHANGED <<subList, recVars, threadVars>>

Handle(h) ==
    Spawn(h) \/ Push(h) \/ Stop(h) \/ Fetch(h) \/ Join(h) \/ Drop(h) \/ Return(h)

(***************************************************************************)
(* The publishing thread of a record.  It holds rec->mutex except while it *)
(* waits; no other thread takes that mutex.                                *)
(***************************************************************************)
\* while(sub_rec->running)
TestRunning(s) ==
    /\ thread[s] = "test"
    /\ thread' = [thread EXCEPT ![s] = IF running[s] THEN "wait" ELSE "exit"]
    /\ UNCHANGED <<subrecord_mutex, subList, op, recVars, count, completed, ended>>

\* pthread_cond_timedwait ends, by the signal or by the timeout.
Wake(s) ==
    /\ thread[s] = "wait"
    /\ thread' = [thread EXCEPT ![s] = "read"]
    /\ UNCHANGED <<subrecord_mutex, subList, op, recVars, count, completed, ended>>

\* The read fails: the round does not count.
ReadFails(s) ==
    /\ thread[s] = "read"
    /\ thread' = [thread EXCEPT ![s] = "test"]
    /\ UNCHANGED <<subrecord_mutex, subList, op, recVars, count, completed, ended>>

\* Mutant: the counter runs down instead of up.
Publish_CountsDown(s) ==
    /\ thread[s] = "read"
    /\ count' = [count EXCEPT ![s] = @ - 1]
    /\ thread' = [thread EXCEPT ![s] = "test"]
    /\ UNCHANGED <<subrecord_mutex, subList, op, recVars, completed, ended>>

\* Mutant: the counter starts again in every round.
Publish_NotCounted(s) ==
    /\ thread[s] = "read"
    /\ IF Duration[s] # 0 /\ count[s] >= DurationCount(s)
       THEN /\ completed' = [completed EXCEPT ![s] = TRUE]
            /\ thread' = [thread EXCEPT ![s] = "reap"]
       ELSE /\ thread' = [thread EXCEPT ![s] = "test"]
            /\ UNCHANGED completed
    /\ UNCHANGED <<subrecord_mutex, subList, op, recVars, count, ended>>

\* The read succeeds and an event is published: the last one of a duration,
\* or one that is counted.  An endless subscription's counter is not modelled.
Publish(s) ==
    /\ thread[s] = "read"
    /\ IF Duration[s] # 0 /\ count[s] >= DurationCount(s)
       THEN /\ completed' = [completed EXCEPT ![s] = TRUE]
            /\ thread' = [thread EXCEPT ![s] = "reap"]
            /\ UNCHANGED count
       ELSE /\ count' = IF Duration[s] = 0 THEN count
                        ELSE [count EXCEPT ![s] = @ + 1]
            /\ thread' = [thread EXCEPT ![s] = "test"]
            /\ UNCHANGED completed
    /\ UNCHANGED <<subrecord_mutex, subList, op, recVars, ended>>

\* "Removing duration completed sub from gRecord", and the thread's end.
Reap(s) ==
    /\ thread[s] = "reap"
    /\ RemoveItem(s)
    /\ thread' = [thread EXCEPT ![s] = "exit"]
    /\ UNCHANGED <<subrecord_mutex, subList, op, running, count, completed, ended>>

ThreadStep(s) ==
    TestRunning(s) \/ Wake(s) \/ ReadFails(s) \/ Publish(s) \/ Reap(s)
----------------------------------------------------------------------------
Init ==
    /\ subrecord_mutex = NULL
    /\ subList = {}
    /\ op = [h \in Handlers |-> Idle]
    /\ memory = [s \in Subs |-> "none"]
    /\ gRecord = {}
    /\ running = [s \in Subs |-> FALSE]
    /\ thread = [s \in Subs |-> "none"]
    /\ count = [s \in Subs |-> 0]
    /\ completed = [s \in Subs |-> FALSE]
    /\ ended = {}

Next ==
    \/ \E h \in Handlers :
          (\E s \in Subs : EnterSubscribe(h, s) \/ EnterUnsubscribe(h, s)) \/ Handle(h)
    \/ \E s \in Subs : ThreadStep(s)

Spec == Init /\ [][Next]_vars

(***************************************************************************)
(* Threads are scheduled, the timed wait ends at the latest after the      *)
(* interval, and reads do not fail for ever.                               *)
(***************************************************************************)
Fairness ==
    /\ \A h \in Handlers : WF_vars(Handle(h))
    /\ \A s \in Subs : WF_vars(ThreadStep(s)) /\ SF_vars(Publish(s))

FairSpec == Spec /\ Fairness
----------------------------------------------------------------------------
(***************************************************************************)
(* Properties.                                                             *)
(***************************************************************************)
\* Type invariant of the interval subscriptions.
TypeOK ==
    /\ subrecord_mutex \in Handlers \cup {NULL}
    /\ subList \subseteq Subs
    /\ op \in [Handlers -> [pc : {"idle", "spawn", "push", "return", "stop", "fetch",
                                  "join", "drop", "done"},
                            sub : Subs \cup {NULL}]]
    /\ memory \in [Subs -> {"none", "live", "freed"}]
    /\ gRecord \subseteq Subs
    /\ running \in [Subs -> BOOLEAN]
    /\ thread \in [Subs -> {"none", "test", "wait", "read", "reap", "exit"}]
    /\ count \in [Subs -> Nat]
    /\ completed \in [Subs -> BOOLEAN]
    /\ ended \subseteq Subs

\* After an unsubscribe has returned, the subscription's thread is gone: it
\* publishes no event any more, and its record is freed.
NoEventAfterUnsubscribe ==
    \A s \in ended : thread[s] = "exit" /\ memory[s] = "freed"

\* Events of a subscription with a duration: as many as fit in it, then one
\* RBUS_EVENT_DURATION_COMPLETE, which never comes early.
DurationHonoured ==
    \A s \in Subs : Duration[s] # 0 =>
        /\ count[s] * Period[s] <= Duration[s]
        /\ completed[s] => (count[s] + 1) * Period[s] > Duration[s]

\* No freed record is used: neither by a handler, for a subscription without
\* a duration (the threads of the others free their records themselves), nor
\* by the record's own thread before it exits.
NoFreedRecordUsed ==
    /\ \A h \in Handlers :
          op[h].pc \in {"push", "stop", "fetch"} /\ Duration[op[h].sub] = 0 =>
              memory[op[h].sub] = "live"
    /\ \A s \in Subs : thread[s] \in {"test", "wait", "read", "reap"} => memory[s] = "live"

\* Every call returns: the join under SUB_LOCK ends although the signal may
\* come before the thread waits for it.
CallsReturn == \A h \in Handlers : op[h] # Idle ~> op[h] = Idle

\* A subscription with a duration ends, by itself or by an unsubscribe.
DurationEnds ==
    \A s \in Subs : Duration[s] # 0 /\ thread[s] = "test" ~> thread[s] = "exit"
============================================================================
