---------------------------- MODULE ValueChange ----------------------------
(***************************************************************************)
(* Value-change detection of the rbus adapter                              *)
(* (ccsp_rbus_value_change.c, and the value-change branch of               *)
(* cssp_RbusSubscribe_handler in ccsp_rbus_subscription.c).                *)
(*                                                                         *)
(* rbus callback threads (Handlers) subscribe and unsubscribe listeners.   *)
(* They run one at a time under subrecord_mutex (SUB_LOCK).  Each adds or  *)
(* removes one ValueChangeRecord per parameter in the vector vcparams,     *)
(* which vcmutex protects.  One polling thread reads every recorded        *)
(* parameter, publishes an event when the value differs from the recorded  *)
(* one, and records the new value.  It is created with the first record,   *)
(* and the handler that removes the last one stops and joins it.           *)
(*                                                                         *)
(* A critical section of a handler on vcmutex is one step guarded by the   *)
(* mutex being free; the polling thread holds the mutex over many steps.   *)
(***************************************************************************)

CONSTANTS
    Handlers,   \* threads that run ccsp_rbus_event_subscribe_override_handler
    Pollers,    \* identities pthread_create can give to a polling thread
    Recs,       \* addresses malloc can give to a ValueChangeRecord
    Subs,       \* subscriptions with interval 0, as subList tells them apart: by
                \* listener, event, component, filter and duration
    Key,        \* what a record keeps of a subscription: all of it but the duration
    Wild,       \* those whose event name contains '*'
    Params,     \* fully qualified parameter names
    Match,      \* [Subs -> SUBSET Params]: the names an event name can expand to
    Values,     \* parameter values
    Filter,     \* the values a subscription's filter accepts, NULL for no filter
    NULL        \* a null pointer; an owner of a free mutex; no thread

ASSUME ConstantsOK ==
    /\ Match \in [Subs -> SUBSET Params]
    /\ Wild \subseteq Subs
    /\ \A s \in Subs \ Wild : \E p \in Params : Match[s] = {p}
    /\ \A s, t \in Subs : Key[s] = Key[t] =>
          /\ Match[s] = Match[t] /\ Filter[s] = Filter[t]
          /\ s \in Wild <=> t \in Wild
    /\ Filter \in [Subs -> (SUBSET Values) \cup {NULL}]
    /\ NULL \notin Handlers \cup Pollers \cup Recs \cup Subs \cup Params
    /\ NULL \notin Values
    /\ Handlers \cap Pollers = {}

VARIABLES
    subrecord_mutex, \* the handler inside SUB_LOCK
    subList,         \* the subscriptions of subList
    vcmutex,         \* the thread inside VC_LOCK
    vcrunning,       \* the flag the polling thread tests
    vcthread,        \* the last polling thread created
    poller,          \* where each polling thread stands
    todo,            \* records the current scan has still to visit
    rec,             \* the heap of ValueChangeRecords
    op,              \* the call each handler is executing
    rows,            \* the parameters that exist in the data model now
    value,           \* the current value of each parameter
    robbed,          \* history: subscriptions whose record went with a twin
    told             \* history: the last value each record's listener knows of

subVars == <<subrecord_mutex, subList, robbed>>
vcVars  == <<vcmutex, vcrunning, vcthread, poller, todo>>
envVars == <<rows, value>>
vars    == <<subVars, vcVars, rec, op, envVars, told>>

(***************************************************************************)
(* Records.  "listed" records are the elements of vcparams; a "new" one is *)
(* allocated and not yet pushed.                                           *)
(***************************************************************************)
Records == [state : {"free", "new", "listed"}, sub : Subs \cup {NULL},
            param : Params \cup {NULL}, value : Values \cup {NULL}]

FreeRec == [state |-> "free", sub |-> NULL, param |-> NULL, value |-> NULL]

Listed == {r \in Recs : rec[r].state = "listed"}

\* Mutant of vcParams_Find: a record whose value is still NULL is not matched.
vcParams_Find_SkipsUnread(s, p) ==
    {r \in Listed : /\ Key[rec[r].sub] = Key[s] /\ rec[r].param = p
                    /\ rec[r].value # NULL}

\* vcParams_Find: the records of (s, p) in vcparams.  It does not compare the
\* duration, which subList does: subscriptions that differ in nothing else
\* (twins) share their records.
vcParams_Find(s, p) ==
    {r \in Listed : Key[rec[r].sub] = Key[s] /\ rec[r].param = p}

Twins(s) == {t \in Subs : Key[t] = Key[s]}

\* What rbusValueChange_GetParameterValue may return for p: its value, or
\* NULL when the row is gone or the component's callback fails.
GetParameterValue(p) == {NULL} \cup {value[q] : q \in {p} \cap rows}

\* rbusFilter_Apply gives the same verdict on v and w; for a subscription
\* without a filter, v and w are equal.
SameNews(s, v, w) ==
    IF Filter[s] = NULL THEN v = w ELSE (v \in Filter[s]) <=> (w \in Filter[s])

(***************************************************************************)
(* Handlers: one subscribe or unsubscribe call under SUB_LOCK.             *)
(***************************************************************************)
Calls == [pc : {"idle", "next", "create", "insert", "remove", "join"},
          added : BOOLEAN, sub : Subs \cup {NULL}, left : SUBSET Params,
          param : Params \cup {NULL}, rec : Recs \cup {NULL}]

Idle == [pc |-> "idle", added |-> FALSE, sub |-> NULL, left |-> {},
         param |-> NULL, rec |-> NULL]

\* The parameters a call works on, enumerated when it is made: the event name
\* itself, or the rows a wildcard matches at this moment.
Enumerate(s) == IF s \in Wild THEN Match[s] \cap rows ELSE Match[s]

Call(s, added) == [pc |-> "next", added |-> added, sub |-> s,
                   left |-> Enumerate(s), param |-> NULL, rec |-> NULL]

\* Mutants of the two entry points: the handler runs without SUB_LOCK.
EnterSubscribe_NoLock(h, s) ==
    /\ op[h] = Idle
    /\ s \notin subList
    /\ subList' = subList \cup {s}
    /\ op' = [op EXCEPT ![h] = Call(s, TRUE)]
    /\ UNCHANGED <<subrecord_mutex, robbed, vcVars, rec, envVars, told>>

EnterUnsubscribe_NoLock(h, s) ==
    /\ op[h] = Idle
    /\ s \in subList
    /\ op' = [op EXCEPT ![h] = Call(s, FALSE)]
    /\ UNCHANGED <<subVars, vcVars, rec, envVars, told>>

\* SUB_LOCK, the look-up in subList and addSubscription.  The handler returns
\* at once, and nothing changes, for a subscribe of a known subscription and
\* an unsubscribe of an unknown one.
EnterSubscribe(h, s) ==
    /\ op[h] = Idle
    /\ subrecord_mutex = NULL
    /\ s \notin subList
    /\ subrecord_mutex' = h
    /\ subList' = subList \cup {s}
    /\ op' = [op EXCEPT ![h] = Call(s, TRUE)]
    /\ UNCHANGED <<robbed, vcVars, rec, envVars, told>>

EnterUnsubscribe(h, s) ==
    /\ op[h] = Idle
    /\ subrecord_mutex = NULL
    /\ s \in subList
    /\ subrecord_mutex' = h
    /\ op' = [op EXCEPT ![h] = Call(s, FALSE)]
    /\ UNCHANGED <<subList, robbed, vcVars, rec, envVars, told>>

\* The next parameter of the loop, and vcParams_Find on it under VC_LOCK.
\* Subscribe goes on when there is no record, Unsubscribe when there is one.
Find(h, p) ==
    /\ op[h].pc = "next"
    /\ p \in op[h].left
    /\ vcmutex = NULL
    /\ LET found == vcParams_Find(op[h].sub, p)
       IN  \/ /\ op[h].added /\ found = {}
              /\ op' = [op EXCEPT ![h].left = @ \ {p}, ![h].pc = "create", ![h].param = p]
           \/ /\ ~op[h].added
              /\ \E r \in found :
                   op' = [op EXCEPT ![h].left = @ \ {p}, ![h].pc = "remove", ![h].rec = r]
           \/ /\ op[h].added <=> found # {}
              /\ op' = [op EXCEPT ![h].left = @ \ {p}]
    /\ UNCHANGED <<subVars, vcVars, rec, envVars, told>>

\* A new record with the parameter's current value, read outside VC_LOCK; the
\* value stays NULL when the read fails.
Create(h, r, v) ==
    /\ op[h].pc = "create"
    /\ rec[r] = FreeRec
    /\ v \in GetParameterValue(op[h].param)
    /\ rec' = [rec EXCEPT ![r] = [state |-> "new", sub |-> op[h].sub,
                                  param |-> op[h].param, value |-> v]]
    /\ told' = [told EXCEPT ![r] = value[op[h].param]]
    /\ op' = [op EXCEPT ![h].pc = "insert", ![h].rec = r]
    /\ UNCHANGED <<subVars, vcVars, envVars>>

\* Under VC_LOCK: push the record, and create the polling thread if it is not
\* running.
Insert(h) ==
    /\ op[h].pc = "insert"
    /\ vcmutex = NULL
    /\ rec' = [rec EXCEPT ![op[h].rec].state = "listed"]
    /\ op' = [op EXCEPT ![h].pc = "next", ![h].param = NULL, ![h].rec = NULL]
    /\ \/ vcrunning /\ UNCHANGED <<vcrunning, vcthread, poller>>
       \/ /\ ~vcrunning
          /\ vcrunning' = TRUE
          /\ \E t \in Pollers :
               /\ poller[t] = "none"
               /\ vcthread' = t
               /\ poller' = [poller EXCEPT ![t] = "test"]
    /\ robbed' = robbed \ Twins(op[h].sub)
    /\ UNCHANGED <<subrecord_mutex, subList, vcmutex, todo, envVars, told>>

\* Mutant of Remove: the thread is told to stop and not joined.
Remove_NoJoin(h) ==
    /\ op[h].pc = "remove"
    /\ vcmutex = NULL
    /\ rec' = [rec EXCEPT ![op[h].rec] = FreeRec]
    /\ told' = [told EXCEPT ![op[h].rec] = NULL]
    /\ vcrunning' = (vcrunning /\ ~(Listed \subseteq {op[h].rec}))
    /\ op' = [op EXCEPT ![h].pc = "next", ![h].rec = NULL]
    /\ robbed' = robbed \cup ((Twins(op[h].sub) \cap subList) \ {op[h].sub})
    /\ UNCHANGED <<subrecord_mutex, subList, vcmutex, vcthread, poller, todo, envVars>>

\* Mutant of Remove: VC_LOCK is kept while the thread is joined.
Remove_JoinInLock(h) ==
    /\ op[h].pc = "remove"
    /\ vcmutex = NULL
    /\ rec' = [rec EXCEPT ![op[h].rec] = FreeRec]
    /\ told' = [told EXCEPT ![op[h].rec] = NULL]
    /\ LET last == vcrunning /\ Listed \subseteq {op[h].rec}
       IN  /\ vcrunning' = (vcrunning /\ ~last)
           /\ vcmutex' = IF last THEN h ELSE NULL
           /\ op' = [op EXCEPT ![h].pc = IF last THEN "join" ELSE "next",
                               ![h].rec = NULL]
    /\ robbed' = robbed \cup ((Twins(op[h].sub) \cap subList) \ {op[h].sub})
    /\ UNCHANGED <<subrecord_mutex, subList, vcthread, poller, todo, envVars>>

\* Under VC_LOCK: remove and free the record, and clear vcrunning when it was
\* the last one.  A twin that is still in subList loses the record too.
Remove(h) ==
    /\ op[h].pc = "remove"
    /\ vcmutex = NULL
    /\ rec' = [rec EXCEPT ![op[h].rec] = FreeRec]
    /\ told' = [told EXCEPT ![op[h].rec] = NULL]
    /\ LET last == vcrunning /\ Listed \subseteq {op[h].rec}
       IN  /\ vcrunning' = (vcrunning /\ ~last)
           /\ op' = [op EXCEPT ![h].pc = IF last THEN "join" ELSE "next",
                               ![h].rec = NULL]
    /\ robbed' = robbed \cup ((Twins(op[h].sub) \cap subList) \ {op[h].sub})
    /\ UNCHANGED <<subrecord_mutex, subList, vcmutex, vcthread, poller, todo, envVars>>

\* pthread_join(vcthread), outside VC_LOCK and inside SUB_LOCK.
Join(h) ==
    /\ op[h].pc = "join"
    /\ poller[vcthread] = "exit"
    /\ poller' = [poller EXCEPT ![vcthread] = "none"]
    /\ op' = [op EXCEPT ![h].pc = "next"]
    /\ UNCHANGED <<subVars, vcmutex, vcrunning, vcthread, todo, rec, envVars, told>>

\* Mutant of Return: the loop over the parameters is left early.
Return_Early(h) ==
    /\ op[h].pc = "next"
    /\ subList' = IF op[h].added THEN subList ELSE subList \ {op[h].sub}
    /\ robbed' = robbed \cap subList'
    /\ subrecord_mutex' = NULL
    /\ op' = [op EXCEPT ![h] = Idle]
    /\ UNCHANGED <<vcVars, rec, envVars, told>>

\* After the loop: removeSubscription for an unsubscribe, then SUB_UNLOCK.
Return(h) ==
    /\ op[h].pc = "next"
    /\ op[h].left = {}
    /\ subList' = IF op[h].added THEN subList ELSE subList \ {op[h].sub}
    /\ robbed' = robbed \cap subList'
    /\ subrecord_mutex' = NULL
    /\ op' = [op EXCEPT ![h] = Idle]
    /\ UNCHANGED <<vcVars, rec, envVars, told>>

Handle(h) ==
    \/ \E p \in Params : Find(h, p)
    \/ \E r \in Recs, v \in Values \cup {NULL} : Create(h, r, v)
    \/ Insert(h)
    \/ Remove(h)
    \/ Join(h)
    \/ Return(h)

(***************************************************************************)
(* The polling thread.                                                     *)
(***************************************************************************)
\* while(vcrunning)
TestRunning(t) ==
    /\ poller[t] = "test"
    /\ poller' = [poller EXCEPT ![t] = IF vcrunning THEN "sleep" ELSE "exit"]
    /\ UNCHANGED <<subVars, vcmutex, vcrunning, vcthread, todo, rec, op, envVars, told>>

\* sleep(vcperiod) ends; if(!vcrunning) break.
Wake(t) ==
    /\ poller[t] = "sleep"
    /\ poller' = [poller EXCEPT ![t] = IF vcrunning THEN "lock" ELSE "exit"]
    /\ UNCHANGED <<subVars, vcmutex, vcrunning, vcthread, todo, rec, op, envVars, told>>

\* Mutant of BeginScan: the index runs one past the end of the vector.
BeginScan_PastEnd(t) ==
    /\ poller[t] = "lock"
    /\ vcmutex = NULL
    /\ vcmutex' = t
    /\ poller' = [poller EXCEPT ![t] = "scan"]
    /\ todo' = Listed \cup {NULL}
    /\ UNCHANGED <<subVars, vcrunning, vcthread, rec, op, envVars, told>>

\* VC_LOCK; the for loop starts.
BeginScan(t) ==
    /\ poller[t] = "lock"
    /\ vcmutex = NULL
    /\ vcmutex' = t
    /\ poller' = [poller EXCEPT ![t] = "scan"]
    /\ todo' = Listed
    /\ UNCHANGED <<subVars, vcrunning, vcthread, rec, op, envVars, told>>

\* One iteration whose read fails.
ReadFails(t, r) ==
    /\ poller[t] = "scan"
    /\ r \in todo
    /\ todo' = todo \ {r}
    /\ UNCHANGED <<subVars, vcmutex, vcrunning, vcthread, poller, rec, op, envVars, told>>

\* rbusValueChange_handlePublish: the listener of r is told v.  The event is
\* sent while the record still holds the old value.
handlePublish(r, v) == [told EXCEPT ![r] = v]

\* Mutant of Poll: the new value is published and not recorded.
Poll_NotRecorded(t, r) ==
    /\ poller[t] = "scan"
    /\ r \in todo
    /\ todo' = todo \ {r}
    /\ rec[r].param \in rows
    /\ LET old == rec[r].value
           new == value[rec[r].param]
       IN  told' = IF old = NULL \/ SameNews(rec[r].sub, old, new)
                   THEN told ELSE handlePublish(r, new)
    /\ UNCHANGED <<subVars, vcmutex, vcrunning, vcthread, poller, rec, op, envVars>>

\* One iteration whose read succeeds.  A record without a value is skipped.
\* A changed value is published, unless a filter keeps its verdict, and
\* recorded whether or not it was published.
Poll(t, r) ==
    /\ poller[t] = "scan"
    /\ r \in todo
    /\ todo' = todo \ {r}
    /\ rec[r].param \in rows
    /\ LET old == rec[r].value
           new == value[rec[r].param]
       IN  \/ /\ old = NULL \/ old = new
              /\ UNCHANGED <<rec, told>>
           \/ /\ old # NULL /\ old # new
              /\ rec' = [rec EXCEPT ![r].value = new]
              /\ told' = IF SameNews(rec[r].sub, old, new)
                         THEN told ELSE handlePublish(r, new)
    /\ UNCHANGED <<subVars, vcmutex, vcrunning, vcthread, poller, op, envVars>>

\* Mutant of EndScan: the thread ends after one scan.
EndScan_Exits(t) ==
    /\ poller[t] = "scan"
    /\ todo = {}
    /\ vcmutex' = NULL
    /\ poller' = [poller EXCEPT ![t] = "exit"]
    /\ UNCHANGED <<subVars, vcrunning, vcthread, todo, rec, op, envVars, told>>

\* The loop ends; VC_UNLOCK.
EndScan(t) ==
    /\ poller[t] = "scan"
    /\ todo = {}
    /\ vcmutex' = NULL
    /\ poller' = [poller EXCEPT ![t] = "test"]
    /\ UNCHANGED <<subVars, vcrunning, vcthread, todo, rec, op, envVars, told>>

PollerStep(t) ==
    \/ TestRunning(t)
    \/ Wake(t)
    \/ BeginScan(t)
    \/ \E r \in Recs : ReadFails(t, r) \/ Poll(t, r)
    \/ EndScan(t)

(***************************************************************************)
(* The component behind the callbacks: values change, table rows come and  *)
(* go, whatever the rbus adapter is doing.                                 *)
(***************************************************************************)
SetValue(p, v) ==
    /\ p \in rows
    /\ v # value[p]
    /\ value' = [value EXCEPT ![p] = v]
    /\ UNCHANGED <<subVars, vcVars, rec, op, rows, told>>

\* Only the rows some wildcard matches are created and deleted.
Dynamic == UNION {Match[s] : s \in Wild} \ UNION {Match[s] : s \in Subs \ Wild}

AddRow(p) ==
    /\ p \in Dynamic \ rows
    /\ rows' = rows \cup {p}
    /\ UNCHANGED <<subVars, vcVars, rec, op, value, told>>

DeleteRow(p) ==
    /\ p \in Dynamic \cap rows
    /\ rows' = rows \ {p}
    /\ UNCHANGED <<subVars, vcVars, rec, op, value, told>>

Environment ==
    \E p \in Params : (\E v \in Values : SetValue(p, v)) \/ AddRow(p) \/ DeleteRow(p)
----------------------------------------------------------------------------
Init ==
    /\ subrecord_mutex = NULL
    /\ subList = {}
    /\ robbed = {}
    /\ vcmutex = NULL
    /\ vcrunning = FALSE
    /\ vcthread = NULL
    /\ poller = [t \in Pollers |-> "none"]
    /\ todo = {}
    /\ rec = [r \in Recs |-> FreeRec]
    /\ op = [h \in Handlers |-> Idle]
    /\ rows = Params
    /\ value \in [Params -> Values]
    /\ told = [r \in Recs |-> NULL]

Next ==
    \/ \E h \in Handlers :
          (\E s \in Subs : EnterSubscribe(h, s) \/ EnterUnsubscribe(h, s)) \/ Handle(h)
    \/ \E t \in Pollers : PollerStep(t)
    \/ Environment

Spec == Init /\ [][Next]_vars

(***************************************************************************)
(* Threads are scheduled; a read of a parameter that exists does not fail  *)
(* for ever.  Nothing is assumed of callers and of the component.          *)
(***************************************************************************)
Fairness ==
    /\ \A h \in Handlers : SF_vars(Handle(h))
    /\ \A t \in Pollers : SF_vars(PollerStep(t))
    /\ \A t \in Pollers, r \in Recs : SF_vars(Poll(t, r))

FairSpec == Spec /\ Fairness
----------------------------------------------------------------------------
(***************************************************************************)
(* Properties.                                                             *)
(***************************************************************************)
\* Type invariant of the state of ccsp_rbus_value_change.c and of the calls
\* in progress.
TypeOK ==
    /\ subrecord_mutex \in Handlers \cup {NULL}
    /\ subList \subseteq Subs
    /\ robbed \subseteq subList
    /\ vcmutex \in Pollers \cup {NULL}
    /\ vcrunning \in BOOLEAN
    /\ vcthread \in Pollers \cup {NULL}
    /\ poller \in [Pollers -> {"none", "test", "sleep", "lock", "scan", "exit"}]
    /\ todo \subseteq Recs
    /\ rec \in [Recs -> Records]
    /\ op \in [Handlers -> Calls]
    /\ rows \subseteq Params
    /\ value \in [Params -> Values]
    /\ told \in [Recs -> Values \cup {NULL}]

Alive(t) == poller[t] \in {"test", "sleep", "lock", "scan"}

\* "Uses a single thread": no two polling threads run at a time.  The restart
\* of the thread relies on SUB_LOCK being held across pthread_join.
SinglePoller == \A t, u \in Pollers : Alive(t) /\ Alive(u) => t = u

\* "The thread is started on first param added and stopped on last param
\* removed": between calls, a thread polls exactly while there are records.
PollsWhileRecords ==
    subrecord_mutex = NULL =>
        /\ (\E t \in Pollers : Alive(t)) <=> Listed # {}
        /\ \A t \in Pollers : poller[t] # "exit"

\* A (listener, parameter, event, component, filter) has one record at most,
\* although vcParams_Find and rtVector_PushBack are two critical sections.
NoDuplicateRecords ==
    \A r, q \in Listed :
        Key[rec[r].sub] = Key[rec[q].sub] /\ rec[r].param = rec[q].param => r = q

\* No thread uses a freed record: the record Unsubscribe found is still in
\* vcparams when it takes the lock again, the one Subscribe made is still its
\* own, and the scan's records stay in vcparams until it has visited them.
NoDanglingRecord ==
    /\ \A h \in Handlers :
          /\ op[h].pc = "remove" => op[h].rec \in Listed
          /\ op[h].pc = "insert" => rec[op[h].rec].state = "new"
    /\ todo \subseteq Listed

\* A record is there for a subscription of subList, its own or a twin, or its
\* row can be deleted: Unsubscribe enumerates a wildcard afresh and misses the
\* rows that are gone.  Between calls, a subscription without a wildcard has a
\* record exactly if no twin's unsubscribe took it since the last subscribe of
\* one of them: vcParams_Find does not tell twins apart, subList does.
RecordsMatchSubs ==
    /\ \A r \in Listed : \/ \E s \in subList : Key[s] = Key[rec[r].sub]
                         \/ rec[r].param \in Dynamic
    /\ subrecord_mutex = NULL =>
          \A s \in subList \ Wild :
              s \notin robbed <=> \E r \in Listed : Key[rec[r].sub] = Key[s]

\* The recorded value is the news the listener was told last: the value of the
\* last event (oldValue of the next one), or its filter verdict.  No change is
\* skipped and none is published twice.
ListenerInStep ==
    \A r \in Listed : rec[r].value # NULL => SameNews(rec[r].sub, told[r], rec[r].value)

\* The listener of r has not been told the present news.
Behind(r) ==
    /\ r \in Listed
    /\ rec[r].param \in rows
    /\ ~SameNews(rec[r].sub, told[r], value[rec[r].param])

\* Every call of the handler returns: the join under SUB_LOCK cannot deadlock
\* with the polling thread.
CallsReturn == \A h \in Handlers : op[h] # Idle ~> op[h] = Idle

\* A change of a parameter whose first read succeeded reaches the listener.
ReadChangesPublished ==
    \A r \in Recs : Behind(r) /\ rec[r].value # NULL ~> ~Behind(r)
============================================================================
