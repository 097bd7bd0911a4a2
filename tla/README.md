# TLA+ models of CcspCommonLibrary

CcspCommonLibrary is the base of every RDK-B (CCSP) component: the message bus
adapter, the data model library, the ANSC object framework and a set of protocol
utilities. This directory holds TLA+ models of the parts whose correctness
depends on the order in which threads, processes and failures meet, the TLC
configurations that check them, and TLAPS proofs.

The models follow `src/source/...`; `PROJECT.json` gives for every definition the
source lines it stands for.

## 1. Inventory

| Component (under `source/`) | State | Operations | Interaction | What is hard | What makes it correct |
|---|---|---|---|---|---|
| `util_api/ccsp_msg_bus/ccsp_rbus_value_change.c` | vector of records, `vcrunning`, `vcthread`, `vcmutex` | subscribe, unsubscribe, polling thread | called by the subscription handler; calls the component's `getParameterValues` | two mutexes, find and use in two critical sections, join inside a lock, failed reads | one thread; no freed record used; records match subscriptions; changes are published |
| `.../ccsp_rbus_subscription.c` | `subList`, `subCacheList`, cache file in `/tmp` | subscribe and unsubscribe handler, save, load, replay, exit | rbus requests; registration of the component | crash inside a save, load outside the lock, requests before the replay | table, file and publishers agree; promised subscriptions survive restarts |
| `.../ccsp_rbus_intervalsubscription.c` | vector of records, one thread each | subscribe, unsubscribe, publishing thread | called by the subscription handler | a thread that frees its own record, lost signals, counting to a duration | no event after an unsubscribe; durations kept; no use of freed memory |
| `.../ccsp_base_api.c` | none of its own | client calls, `registerCapabilities_rbus` | message bus; loads and replays the cache | one element of many refused, retries | all elements registered, or all withdrawn and retried |
| `.../ccsp_message_bus.c` | connections, event tables, bus info | init, exit, dispatch, set with rollback, commit, send | rbus callbacks, data model callbacks | partial set, rollback, dispatch threads | a failed set leaves no parameter changed |
| `.../ccsp_base_api_srv.c` | none in use (deadlock detection is switched off for good: nothing sets `deadlock_detection_enable`) | dispatch to callbacks | called for each request | little | errors are passed on |
| `.../ccsp_base_api_shm.c` | shared segment and semaphore | get and put | other processes | crash while holding the semaphore | readers see whole values |
| `util_api/ccsp_dm_api` | cached bus handle | get, set, add, delete, commit | base interface | little | errors are passed on |
| `ccsp/components/CCSP_NamespaceMgr`, `util_api/ansc/AnscAtomTable` | a queue of names per component, a hash table from names to components, a count | register, build, unregister, discover, clean | the component registrar, PAs | every name is kept twice; overlapping and repeated names; names of others | both indexes agree; one owner per name; the count is exact |
| `ccsp/components/CCSP_AliasMgr` | name map, read-only after load | load, look up | base interface | none | look-ups invert each other |
| `ccsp/components/common/DataModel/dml` | trees of object, table and variable records | get, set, validate, commit, rollback, add and delete rows | message bus helper; component callbacks | several objects in one transaction, one of which refuses | all or nothing |
| `ccsp/components/common/MessageBusHelper`, `PoamIrepFolder` | session and folder objects | glue, PSM records | bus, PSM | partial writes | what is saved is what was set |
| `cosa/include/ansc_protection.h` | `bAcquired`, `ActiveTaskHandle`, `RefCount`, two mutexes | acquire, release of the task-safe lock | the data model database, the repository folder | the owner is found in one critical section and the mutex taken in another; nesting; stray releases | it is a re-entrant lock |
| `util_api/ansc/AnscTimerScheduler` | queue of timers, `bStarted`, one task | start, stop, invoke; start and stop of the scheduler | owners of timers, callbacks that call back | callbacks run with the queue unlocked; the tick wraps around and is the time of day, which can be set | queued once, in order, never early, due timers fire, nothing fires after a stop |
| the rest of `util_api/ansc` | objects, sockets, tasks | TCP and UDP daemons and brokers, containers, XML and crypto | every component | engine tasks against clean-up | sockets are freed once |
| `util_api/{http,tls,stun,web,asn.1,slap}` | protocol sessions | parse, build, retransmit | sockets | STUN retransmission | standard behaviour |
| `cosa`, `debug_api`, `dm_pack`, `scripts`, `systemd_units` | none | headers, tracing, generated tables, scripts | | | |

The three rbus subscription modules are modelled first. They are where the
library runs threads of its own beside the callbacks of the bus, where state
outlives the process, and where a defect is silent: a listener that misses
events sees nothing at all. The set transaction of the data model library comes
next: every configuration change of a component goes through it, in several
steps that may each be refused, and it may be entered again before it is done.
It is entered again because of the task-safe lock, which is modelled for itself,
with the lock its callers believe in as an abstract specification. The timer
scheduler is the other place where the framework calls components back from a
task of its own, and the namespace manager is what routes every request to the
component that serves it.

## 2. Modules

| Module | Stands for |
|---|---|
| `ValueChange` | `ccsp_rbus_value_change.c` and the value-change branch of `cssp_RbusSubscribe_handler` |
| `ValueChangeProofs` | inductive invariant and theorems about `ValueChange` |
| `MCValueChange` | instances of it |
| `SubscriptionCache` | `ccsp_rbus_subscription.c`, `CcspBaseIf_registerCapabilities_rbus`, and the retry loop in `dslh_cpeco_control.c` |
| `SubscriptionCacheProofs` | inductive invariant and theorems about `SubscriptionCache` |
| `MCSubscriptionCache` | instances of it |
| `IntervalSub` | `ccsp_rbus_intervalsubscription.c` and the interval branch of the handler |
| `IntervalSubProofs` | inductive invariant and theorems about `IntervalSub` |
| `MCIntervalSub` | an instance of it |
| `SetTransaction` | SetParameterValues, SetCommit and CurrentSessionIdSignal of `messagebus_interface_helper.c` over `dslh_wmpdo_mpaif.c`, with the parts of `Dslh{WmpDatabase,VarRecord,ObjRecord,ObjController}` they call |
| `SetTransactionProofs` | inductive invariant and theorems about `SetTransaction` with any nesting of calls |
| `SetOutcomeProofs` | what a set achieves when no other call comes in before it is done |
| `MCSetTransaction` | instances of it |
| `ReentrantLock` | abstract: what ANSC_TS_LOCK promises |
| `TsLock` | AnscAcquireTsLock and AnscReleaseTsLock of `ansc_protection.h`; shown to implement `ReentrantLock` |
| `TsLockProofs` | inductive invariant, theorems and the refinement proof of `TsLock` |
| `TimerScheduler` | `AnscTimerScheduler` with the timer calls of the container |
| `TimerSchedulerProofs` | arithmetic of the tick, inductive invariant and theorems about `TimerScheduler` |
| `MCTimerScheduler` | an instance of it |
| `NameDirectory` | abstract: every name has at most one owner and changes hands only through being given up |
| `NamespaceMgr` | `CCSP_NamespaceMgr` over the named atoms of `AnscAtomTable`; shown to implement `NameDirectory` |
| `NamespaceMgrProofs` | counting lemmas, inductive invariant, theorems and the refinement proof of `NamespaceMgr` |
| `MCNamespaceMgr` | an instance of it |

Definitions named `X_Y` that a comment calls a mutant are the action `X` with a
plausible mistake. They are not part of any specification; replacing `X` by one
of them must break the property `PROJECT.json` pairs it with.

### ValueChange

*State.* `subrecord_mutex` and `vcmutex` are the two locks, by owner;
`subList`, `vcrunning`, `vcthread` are the variables of that name. `rec` is the
heap of `ValueChangeRecord`s, where the `listed` ones are the elements of
`vcparams`. `poller[t]` is the program counter of thread `t` and `todo` the rest
of its scan. `op[h]` is the call a callback thread is executing. `rows` and
`value` are the component's parameters. `told[r]` is a history variable: the
value the listener of record `r` was told last.

*Identity.* `subList` tells subscriptions apart by their duration too,
`vcParams_Find` does not. `Key[s]` is what a record keeps of subscription `s`: all but
the duration. Subscriptions with the same key are *twins*: the second one finds
the record of the first and adds none, and the unsubscribe of either frees it.
The history variable `robbed` has the subscriptions that lost their record in this
way and have not got it back through a later subscribe of a twin.

*Actions.* A call enters under SUB_LOCK (`EnterSubscribe`, `EnterUnsubscribe`),
enumerates its parameters, and for each one goes through `Find` and `Create`,
`Insert`, or `Find`, `Remove` and, for the last record, `Join`; `Return` ends it.
The thread goes through `TestRunning`, `Wake`, `BeginScan`, one `Poll` or
`ReadFails` per record, and `EndScan`. Every critical section of a handler is
one step; the thread holds `vcmutex` over many. The component changes values,
adds and deletes rows at any time.

*Left out.* The layout of events, filter reference counts, failed allocations,
`rbusValueChange_Close` (no caller; the header declares a different name), the
order of the vector, a publish that fails.

### SubscriptionCache

*State.* `subList`, `subCacheList` and `loaded` (`isSubCacheLoaded`) are the code's;
`file` is the cache file: absent, truncated by a save that has not written yet,
or full. `serving` holds the keys with a value-change record or a publishing
thread; as in `ValueChange`, subscriptions of interval 0 that differ only in the
duration have one key, and `robbed` has those whose publisher went with a twin. A
wildcard (`Wild`) reaches the rows that exist when the request is served, so its
subscribe may start nothing, and its unsubscribe may leave records of deleted
rows publishing: `Started` and `Stopped` give both outcomes. `main` is the registering thread, `lock` the owner of SUB_LOCK,
`reachable` whether rbus delivers requests, `kept` whether elements of an earlier
registration survive a refused one. `running` are the listener processes.
`wanted`, `asked`, `early`, `exposed` and `reloaded` are history variables.

*Actions.* `Subscribe`, `Unsubscribe` do all of the handler up to the truncation
of the file, `Finish` writes it and returns. `LoadCache`, `Resave`,
`RegisterElement`, `RegisterDone`, `RegisterFails`, `ReplayBegin`, `Replay`,
`ReplaySaved`, `ReplayEnd` and `Announce` are `registerCapabilities_rbus` in
order. `Exit` and `ExitDone` are the orderly end, `Crash` the other one.

*Abstraction.* An entry of the file is a subscription; the TLV encoding is not
modelled, so neither are files damaged by something other than a save. A save is
two steps because the data leaves the stdio buffer in one write at `fclose`. When a
re-registration saves beside a request, both write through handles of the same
file; the model lets the later write stand.

### IntervalSub

*State.* A subscription names its record and its thread, because `subList` keeps
the entry for ever and a process makes at most one record of it. `memory` tells
whether the record is live or freed, `gRecord` whether it is in the vector.
`count` is the thread's counter.

*Actions.* `EnterSubscribe`, `Spawn`, `Push`, `Return` for a subscribe;
`EnterUnsubscribe`, `Stop`, `Fetch`, `Join`, `Drop`, `Return` for an unsubscribe;
`TestRunning`, `Wake`, `ReadFails`, `Publish`, `Reap` for the thread. A wait ends
by signal or by timeout, so a lost signal is one of the behaviours.

### SetTransaction

*State.* `temp`, `alreadySet`, `userChanged` are the fields of a VarRecord;
`varArray` and `objArray` the two arrays of the database up to their counts,
empty when NULL; `session` and `dbSession` the session numbers of the helper and
of the database; `committing` the `bCommitting` flags. `work` is what a component
was given through its Set callbacks, `live` what its Commit has applied.
`calls` is the stack of calls in progress: program counter, request, index and
the local counts `nVar`, `nObj`. `status` is the answer of the call that returned
last, and `lost` how many calls on the stack hold pointers to arrays that an inner
call has freed. History variables: `asked` (accepted, neither cancelled nor
applied yet), `failed` (objects whose last Commit failed), `left` (VarRecords with a
staged value that no array lists any more) and `spoilt` (objects with such values,
or whose clients were answered for something that was not handed over or undone).
Only the exits of the code that leave something behind add to the last two.

*Actions.* A set goes through `Stage` and `Enlist` for every parameter, `Staged`,
`VerifyChanges` for every object, then `LeavePending` or `BeginCommit`; a commit
through `CommitChanges`, `CommitApplied` or `CommitFailed` and `CommitReturns` for
every object, then `FinishCommit`. `StageRefused`, `StageDenied`, `NotifyRefused` and
`VerifyRefused` are the faults of the three rounds, each with the whole of
`EXIT2`; `StageAbandoned` is the exit past it (EXIT0), with status success.
`BeginCommit` has the SetCommit that fails and is ignored. `SetRollback` is SetCommit
with `bCommit` FALSE.

*Calls inside calls.* AccessTsLock lets the thread that holds it in again, so a
component may set parameters from its Commit callback; and the wait for
`g_isBusy` releases the lock, so another thread's call may come in. In both cases
the inner call runs to its end and the outer one goes on with the indices and
counts it had, which is what the stack does. Left out: two threads that
both wait with the lock released and end in the order in which they started.
`Inside` says which kinds of calls come in, `MaxDepth` how many.

*Abstraction.* Names, types, writability and the format checks of TstValue are the
constant `Refused`; an old value that cannot be read is `Unreadable`; a
notification longer than its buffer is `Lengthy`. A component refuses any
subset of what it is given. Rollback restores the working copy of an object to
what was applied, which is what the callback is for. TstValue stages a value if
the parameter is persistent or its object has `bGroupCommit`, which
`dslh_dmagnt_utilities.c` (lines 1826 and 1836) gives every object it builds; `Stage`
stages always. Left out: persistent parameters, `bNeedReboot`, the text and the
sending of notifications, failed allocations, a SetCommit that has read the
arrays and waits for the lock. A set that waited for a busy notification while
another call freed the arrays, and whose notification is then refused, walks freed
memory in `EXIT2`: undefined, and the model ends there (guard of `NotifyRefused`).

### TsLock

*State.* The three fields of ANSC_TS_LOCK, the holder of `ExternalLock`, and for each
task where it stands (`pc`), what it has acquired and not released (`held`), and
how many calls it has made since it was last out of the lock (`calls`, which only
serves the bound). `InternalLock` is held around a few assignments without waiting
for anything, so such a section is one step.

*Actions.* An acquire is `Reenter` for the owner, else `MustLock`, `TakeExternal`,
`Mark`. A release is `Leave` for an inner acquisition, `MustUnlock`, `Clear`, `Unlock` for
the outermost one, and `StrayRelease` by a task that does not own the lock.

### TimerScheduler

*State.* `tick`, `bStarted`, `TdoQueue`, `state` (`bScheduled`) and `interval` are the code's.
Timestamp and TimeToFire are not variables: `age` is how long ago a queued timer
was armed, `span` the interval it was armed with and `skew` by how much the clock
was set since then, from which the two wrapped numbers follow, so that what the
comparisons find can be compared with the truth. `task` is the scheduling task and the timer it invokes, `call` the
RegisterTimer an owner or a callback is in. `place` (whether a timer was queued
in time, late, or across a clock set), `stopped`, `removed` and `taskless` (the last start
of the scheduler got no task) are history variables.

*Actions.* `Start` reads the tick and `bStarted`, `TsoStart` starts the scheduler, `Register`
queues the timer; `Stop` is CancelTimer; `TsoRemove` stops the scheduler. The task goes
through `Loop`, then `Fire` and `Invoke` for every timer that is due, or `PassEnds`. A
callback may start and stop any timer before it returns. `TsoStart` may fail to spawn
the task, at the first start too, and leaves `bStarted` TRUE. `TimePasses` advances time
and tick together; `ClockSet` moves the tick alone, forwards or back, since the tick
is `gettimeofday`.

*Abstraction.* The queue and descriptor locks are always taken together, in the
same order; a section under them is one step. The length of the sleep is left
out. `Skews` and `CallSkews` bound by how much the clock may be set while a timer waits
or a call runs. `MayWait` bounds how long a timer or a call waits, so that intervals and delays
together stay below one turn of the tick, 49.7 days.

### NamespaceMgr

*State.* `ComponentQueue`, `ParamspaceQueue`, `uTotalNamespace` are the code's; `atoms` has
for every name its entries in the hash table `hAtomNamespace`, newest first, as
the buckets keep them (entries of different names in one bucket never meet: every
operation goes by name); `hasTable` is whether the table exists. An entry whose component
was freed leads to `Freed`. `misused` and `cleaned` are history variables.

*Actions.* `Registers` and `RegisterEnds` are RegisterNamespaces with and without effect;
`BuildNamespaces` skips names that are registered; `UnregisterNamespace` and
`UnregisterMismatch`, `UnregisterComponent` and `UnknownComponent` are the outcomes of the
two unregister calls; `CleanAll`. `DiscoverParam` and `DiscoverObj` are the two levels of
DiscoverNamespace, which changes nothing.

The two prefix rules are translated apart, with the NULL of a component or a
manager without prefix.

*Abstraction.* Names are model values, `Under` says which lie below an object, and
`InvalidNames` which the syntax check refuses. Data types, instance numbers
replaced by `{i}` and `bNextLevel` are left out. Callers do not unregister names of
unknown components, and after CleanAll call BuildNamespaces first: the code
follows a null pointer otherwise.

## 3. Runs

| Run | Instance | Shows |
|---|---|---|
| `value_change_safety` | 2 handlers, 2 thread identities, 3 records, a wildcard over a dynamic row and a fixed parameter, a filtered subscription and its twin, 3 values | the seven invariants of `ValueChange` |
| `value_change_liveness` | 1 handler, 1 thread, 2 records, 2 values | `CallsReturn`, `ReadChangesPublished` |
| `subscription_cache` | 4 subscriptions (value-change twins, a wildcard, an interval with a duration), 2 listeners, registrations of a running component | `FileMatchesTable`, `PromisesKept`, `PublishersFollowTable` |
| `interval_subscription` | 2 handlers; no duration, 5 over 2, 3 over 3 | the four invariants and two liveness properties of `IntervalSub` |
| `set_single` | one call at a time; 3 parameters of 2 objects, one bulk; ACS and SNMP, whom one parameter denies; pending sets, refused values and notifications, unreadable old values, arrays that overflow | `RecordsClean`, `AppliedOnSuccess` |
| `set_notify` | two-phase sets, committing sets from callbacks and in the wait for a notification, denied writers, refused notifications, failing commits | `WorkClean` (with `RecordsClean`), `UnaskedOnlyIfSpoilt` |
| `set_all` | every refusal, denial, early exit, overrun array and nested call; sessions 0 and 7 | `TypeOK`, `Bookkeeping` |
| `set_denied` | a parameter monitored for user changes | *violated*: `NothingUnasked` |
| `ts_lock` | 4 tasks, 4 nested acquisitions | the three invariants, `ImplementsReentrantLock`, `WaitersProceed` |
| `timer_scheduler` | 1 owner, 1 task, a one-shot timer of interval 0 or 1, a periodic one of interval 2, a tick of 5 values, a clock set by 3 and back between calls, a task that may not be had | the three invariants, `NeverEarly`, `DueTimersFire`, `StoppedTasksEnd` |
| `timer_rule3` | the same, and the clock set during calls too | *violated*: `NoInvokeAfterStop` |
| `namespace_mgr` | 2 components, one with the manager's prefix; 3 names, one ill-formed; arrays of 1 and 2 names, one with a name twice; a count of 4 values | the three invariants, `DirectoryKept` |

*Why the bounds are enough.* Two handlers are the fewest that can race for
SUB_LOCK, two thread identities let an old polling thread survive beside a new
one, three records are what the wildcard and the twins can hold at once. Three
values, two of which the filter accepts, tell a change inside the filter's set
from one across its edge. Two listeners let one end while the other keeps its
subscriptions. A duration that is no multiple of the interval and one equal to
it are the two edges of the quotient. Neither restarts, crashes nor
calls are counted or bounded: the state spaces are finite as they are. In
`SetTransaction` two parameters of one object and one of another are the fewest
in which a set of one carries along a value of its neighbour, and a fault may hit
the first, a middle or the last parameter. `MaxVars` and `MaxObjs` stand for 256
and 32 and are reached; `MaxDepth` 2 is one call inside another. What holds
depends on what clients and components may do, so each run names its world:
`set_single` has every refusal and pending sets, and no call inside another;
`set_notify` has calls inside calls, and the refusals that these make interesting;
`set_all` has both, with calls that set the object whose Commit runs.
Symmetry over threads and addresses is used for invariants only.
`TsLock` is proved for every number of tasks; four of them let one own the lock,
one release it and two wait. In `TimerScheduler` the owner and the callback are the
two actors that can race, and a tick of five values wraps around between any two
steps. A clock set by 3 of 5 is a jump forwards over every interval and, undone, one
back behind every Timestamp; sets during a call are left to the proofs. More owners
or tasks exceed the time of a run. Two timers are enough for
an order, and one of them gets intervals on both sides of the other's remaining
time. In `NamespaceMgr` `MaxDepth` 3 lets a component hold all names or one of them
twice, and `Width` 4 makes the count pass zero in both directions.

*Fairness.* The schedulers of the platform run every thread. `ValueChange` uses
strong fairness for handlers and polling threads, since both wait for `vcmutex`:
the polling thread gives it up and sleeps for a second after each scan, so a
handler that keeps asking gets it, and the handlers use it for moments. A read
of a parameter that exists does not fail for ever (`SF` of `Poll`). `IntervalSub`
uses weak fairness (a timed wait ends) and strong fairness of `Publish`. No
fairness is assumed for callers, listeners or the component. `TsLock` uses weak
fairness of each step of a task, and of the release of what it holds, since every
use in the code pairs the two; a mutex need not prefer any waiter, which is
why `WaitersProceed` speaks of some waiter. `TimerScheduler` uses weak fairness of the
task's steps and of calls in progress, and strong fairness of the end of a callback,
which may make calls first but returns. No fairness for time, owners, or starts
and stops. `SubscriptionCache`, `SetTransaction` and `NamespaceMgr` are checked for safety
only.

## 4. Properties

`ValueChange`: `SinglePoller` and `PollsWhileRecords` are the two promises of the
file's header comment ("Uses a single thread", "started on first param added and
stopped on last param removed"). They rest on SUB_LOCK being held across the
join: without it a subscribe between the clearing of `vcrunning` and the join
makes a second thread. `NoDuplicateRecords` and `NoDanglingRecord` are about the
two places where a critical section is left between finding and using.
`RecordsMatchSubs` says precisely which records may outlive a subscription: those
of rows that can be deleted, which a wildcard unsubscribe no longer enumerates;
and that a subscription without a wildcard has its record exactly if it is not
`robbed`, that is, if no twin has unsubscribed since the last subscribe of one of them.
`ListenerInStep` relates the recorded value, the events sent and the filter.

`SubscriptionCache`: `FileMatchesTable` makes a crash in a quiet state harmless;
`PromisesKept` says that a subscription acknowledged to a listener that still
runs is in the table after any number of restarts, even when the file held
obsolete entries, unless a crash or a refused element hit a save or a
registration, or the running component registered again. `PublishersFollowTable`
speaks of value-change subscriptions without a wildcard: in a quiet state one in
the table is published exactly if no twin took its publisher; at no time is one
published that is not in the table, itself or a twin; and no running listener gets
events it gave up, except when its unsubscribe overtook the replay (`early`). For
wildcards the code keeps none of the three (section 5).

`IntervalSub`: `NoEventAfterUnsubscribe` and `NoFreedRecordUsed` are thread and memory
safety of the stop; what the second says of handlers is restricted to
subscriptions without a duration, since the thread of another one may free its
record between the unsubscribe's look-up and its use. `DurationHonoured` bounds the
number of events from both sides.

`SetTransaction`: the code does leave things behind at some of its exits (section 5),
so the properties say that these exits account for everything. `RecordsClean`:
whenever no call runs and none is pending, the VarRecords with a staged value or a
mark are those in `left`. `WorkClean`: then, besides, a component holds nothing that it
has not applied, but for objects that are `spoilt` or whose Commit failed.
`AppliedOnSuccess` is what the status 0 of a set promises, at whichever exit it is
returned, again but for those objects. `UnaskedOnlyIfSpoilt` follows a value from the set that
was accepted to the moment it takes effect; without the exception for spoilt
objects it is `NothingUnasked`, which `set_denied` refutes. What a violation of these
properties would mean is an exit, or an interleaving, that leaves something behind
and is not in the list. `Bookkeeping` is what they rest on (listed objects, marks and
`bCommitting`), and holds with every kind of call coming in at every place.

`TsLock`: `MutualExclusion` counts what tasks believe to hold and does not mention the
lock's fields. `NestingBalanced` ties the two together. Its second part, that
the recorded owner holds the mutex, is what makes the test
`ActiveTaskHandle == ulCurTaskHandle` safe. `ImplementsReentrantLock` says that every
step is an acquire, a release or invisible in `ReentrantLock`.

`TimerScheduler`: `QueueSound` and `StateFollowsCalls` are about the state flag, the queue and the
calls of owner and callback meeting in every order. The order in `QueueSound` and
`NeverEarly` check the wrap-around comparisons against real durations; the order excepts timers that
were late when they were queued, which the code really misplaces, and those queued among
timers across which the clock was set. `NeverEarly` excepts a timer across which the clock
was set: the tick then says nothing about durations.
`DueTimersFire` excepts timers of interval 0 without end, a scheduler that was removed or
got no task, timers queued late, and a queue misled by a clock set; `StoppedTasksEnd` a
scheduler that was started again.

`NamespaceMgr`: `IndexMatchesQueues` makes the two indexes one, and the two levels of
discovery agree; `CountExact` survives even misuse; `DirectoryKept` is the refinement of
`NameDirectory`. The first and last hold until a component unregisters a
name it does not have, which the code does not refuse.

## 5. What the violated runs show

1. `set_denied`: TstValue leaves the value in `TempParamValue`, and only then the
   writer is checked. The denied parameter is in no array, `EXIT2` does not cancel
   it, and the next accepted set of the object applies it.
2. `timer_rule3`: the task takes a timer off the queue, unlocks it, and calls
   `Invoke`. A stop in between finds the timer not scheduled, or finds that it is
   being invoked and enters an empty block; it returns, and then `Invoke` is called.
   Rule 3 of `ansc_protection.h` excludes this. An owner that frees the descriptor
   after the stop (AnscTdoRemove does) frees what the task is about to use.

Behaviour of the code that the models show too, and that bounds what the
passing runs claim:

- if the read at subscribe time fails, `rec->value` stays NULL; every scan skips such
  a record (`ccsp_rbus_value_change.c`, lines 321-326) and does not record the value
  it read, so no change is published, ever. `ReadChangesPublished` is claimed for
  records that have a value;
- the interval branch of an unsubscribe does not remove the entry from `subList`
  (only the value-change branch does). The next subscribe with the same interval
  and duration gets RBUS_ERROR_SUBSCRIPTION_ALREADY_EXIST and is not served.
  `PublishersFollowTable` is claimed for value-change subscriptions;
- two subscriptions of interval 0 that differ only in the duration are two entries
  of `subList` and share one record; when one of them is unsubscribed, the other stays
  in the table and gets no more events (`robbed`);
- a wildcard unsubscribe does not reach the records of rows deleted since, which
  publish again when the row comes back, to a listener that gave them up;
- an unsubscribe between the load of the cache and its replay is undone by the replay
  (`early`);
- an unsubscribe of an interval subscription with a duration may use the record that
  its thread has just freed;
- `bAlreadySet` survives a second set of a pending parameter. The second value is
  never given to the component, the first one is committed. `AppliedOnSuccess` excepts
  the object;
- after dropping an obsolete entry `loadCache` saves `subList`, which is still
  empty at start; the file is removed with the live entries in it. `PromisesKept`
  shows that the replay repairs this when nothing goes wrong before it;
- `loadCache` does not take SUB_LOCK. On a re-registration it may take the file a
  request has just truncated for a corrupted one and remove it, so
  `FileMatchesTable` is not claimed after a re-registration (`reloaded`);
- a set refused at its first parameter has local counts of 0. It cancels nothing
  and drops the arrays of a pending set, whose values stay staged (`left`), and whose
  objects keep what they were given (`spoilt`);
- a value that is denied, or whose notification is refused, is staged already and in
  no array (`left`); so is one whose old value cannot be read, where the call returns
  success at once with nothing validated or committed;
- a set refused for SNMP is not rolled back in the component;
- an object that does not fit the array is neither validated nor committed, and
  the call succeeds; a VarRecord that does not fit is not cancelled by a refusal;
- a set that waits for a busy notification has staged values and listed objects;
  another thread's set of the same object commits them;
- a session that changes during that wait makes the set's own commit fail, which
  is ignored, and the call succeeds;
- a timer of interval 0 that is started again from its callback goes to the front
  of the queue and ends the pass, so that timers behind it starve;
- a task that cannot be spawned is not missed: `bStarted` stays TRUE, no later
  registration tries again, and no timer fires (`taskless`);
- setting the clock while timers wait makes them fire early or late and misplaces
  timers queued then;
- AnscTsoStop does not wait for the task, although its description says so, and a
  registration under way starts the scheduler again;
- an array of names of which one is the component's own already is answered with
  success and registers nothing;
- a component that unregisters another one's name takes the owner's entry out of
  the hash table and loses its own last name. When the owner is freed, a later
  entry of that name may lead to freed memory;
- CleanAll does not reset the count;
- for a prefix that is not the manager's, the parameter level of discovery accepts
  components without a prefix and the object level does not.

Minor hazards that no model reaches: a filter released once per parameter of a
wildcard (`ccsp_rbus_value_change.c`, line 458); a request that waited for SUB_LOCK
while exit destroyed the table (`ccsp_rbus_subscription.c`, line 351); `err` read
uninitialised when a component registers no element (`ccsp_base_api.c`, line 1643);
`bUserChanged` stored before a set is accepted, and `str1` indexed past its 50
notifications (`dslh_wmpdo_mpaif.c`, lines 430 and 918); `hArray[64]` without a bound
(`ccsp_ns_mgr_operation.c`, line 771).

Noticed and not a run: the header comment of `ccsp_rbus_value_change.c` gives a
default period of 30 seconds, the code polls every second.

## 6. Proofs

### ValueChangeProofs

It proves for every set of handlers, threads, records,
subscriptions, parameters, values and filters (assumption `ConstantsOK`, which TLC
evaluates on the instances):

| Theorem | States |
|---|---|
| `TypeCorrect` | `Spec => []TypeOK` |
| `OnePollingThread` | `Spec => []SinglePoller` |
| `PollingFollowsRecords` | `Spec => []PollsWhileRecords` |
| `RecordsUnique` | `Spec => []NoDuplicateRecords` |
| `NoUseAfterFree` | `Spec => []NoDanglingRecord` |
| `RecordsMatchSubscriptions` | `Spec => []RecordsMatchSubs` |
| `NewsInStep` | `Spec => []ListenerInStep` |

None of these is inductive alone. `IInv` adds what the code relies on without
saying so:

- `LockInv`: the handler inside SUB_LOCK is the only one with a call in progress;
- `CallInv`: what a call's fields are at each step, in particular that its record
  is in the state the step needs;
- `PollInv`: only `vcthread` can exist; it is alive while `vcrunning`; it owns
  `vcmutex` exactly while it scans; a handler at `Join` is the only one with a
  stopped thread; without a handler in a call, running and having records are
  the same;
- `RecInv`: fields of listed and new records, uniqueness, and that a handler about
  to create a record found none;
- `SubInv`, `WatchInv`: records belong to known subscriptions, their twins or deletable
  rows, and a plain subscription in the table has its record, or a handler that is
  making it, or is robbed;
- `RobInv`: a robbed subscription has no record, its own or a twin's;
- `NewsInv`: record and listener agree from the moment the record is made.

One lemma per action shows that it preserves `IInv`, with one step per conjunct;
`Inductive` combines them. `IInv` was checked by TLC on the instances before it
was proved.

### TsLockProofs

For every set of tasks and every bound (assumptions `TasksAssumption` and
`MaxCallsAssumption`, which TLC evaluates in `ts_lock`):

| Theorem | States |
|---|---|
| `Invariance` | `Spec => []IInv` |
| `LockExcludes` | `Spec => []MutualExclusion` |
| `NestingIsBalanced` | `Spec => []NestingBalanced` |
| `FieldsKeepTypes` | `Spec => []TypeOK` |
| `LockRefines` | `Spec => ImplementsReentrantLock` |

`IInv` says for each place a task can stand what it holds: `ExternalLock` exactly from
`TakeExternal` to `Unlock`, the fields from `Mark` to `Clear`; that a task which holds
acquisitions is the recorded owner with `RefCount + 1` of them; and that it has made
at least as many calls as it holds acquisitions, which bounds the count. The
refinement proof shows for each action under `IInv` that it is `Acquire`, `Release` or a
stutter of `ReentrantLock`; the interesting one is `Clear`, where the abstract release
happens although the mutex is still held.

### SubscriptionCacheProofs

For any listeners and subscriptions and any number of crashes and restarts
(assumption `ConstantsOK`):

| Theorem | States |
|---|---|
| `TypeCorrect` | `Spec => []TypeOK` |
| `FileKept` | `Spec => []FileMatchesTable` |
| `RestartKeepsPromises` | `Spec => []PromisesKept` |
| `PublishersMatch` | `Spec => []PublishersFollowTable` |

The properties speak of quiet states; `IInv` says what holds between them. `LockInv`:
a request is served inside SUB_LOCK, the replay by the main thread. `CacheInv`: loaded
entries exist only from a load to the end of its replay. `TableInv`: the file holds no
entry that is not in the table, unless nothing was saved since the process started
(`Untouched`). `FirstInv`: in the first registration of a process nobody else uses the file,
so that a truncated file is always one that a save in progress will write. `PromiseInv`:
a promised subscription is in the file while no process runs, and in the table or
among the loaded entries while one does; this is what carries a promise over a
restart. `ServedInv`: publishers without a wildcard follow the table up to robbed twins at
every step, and nothing but the replay brings back what a listener gave up.

### IntervalSubProofs

For any handlers and subscriptions and every interval and duration (assumption
`ConstantsOK`: an interval is not 0):

| Theorem | States |
|---|---|
| `TypeCorrect` | `Spec => []TypeOK` |
| `UnsubscribeStops` | `Spec => []NoEventAfterUnsubscribe` |
| `DurationsKept` | `Spec => []DurationHonoured` |
| `NoUseAfterFree` | `Spec => []NoFreedRecordUsed` |

`RecordInv` says for every subscription how far its record has come: none, live, in
`gRecord`, freed with its thread ended. `StopInv` says that `rec->running` is cleared only by the
unsubscribe in progress and what each of its steps may assume, `CountInv` that the
count never passes the quotient of duration and interval (`NoFreedRecordUsed`, and so the
theorem, leaves out handlers of subscriptions with a duration); the lemma
`QuotientBounds` turns that quotient into the products of `DurationHonoured`.

### TimerSchedulerProofs

For any owners, tasks and timers, every set of intervals, every width of the tick and
every way of setting the clock (assumption `TimerConstants`: intervals are less than a
cycle of the tick):

| Theorem | States |
|---|---|
| `TypeCorrect` | `Spec => []TypeOK` |
| `QueueStaysSound` | `Spec => []QueueSound` |
| `LastCallDecides` | `Spec => []StateFollowsCalls` |
| `NoTimerEarly` | `Spec => NeverEarly` |

Two lemmas are the heart of it: `FiresExactly` (bFireTimer is set exactly when the
interval has passed) and `ContinuesExactly` (the walk of AnscTsoScheduleTimer goes past
exactly the timers that are due no later), wherever the tick wraps around, for timers
across which the clock was not set. They hold only within a range, which `TimeInv` keeps for queued timers and `CallInv` for timers
that are being registered. `LinkInv` and `OrderInv` say what the queue is: each
scheduled timer once, in the order in which they fire. `StateFollowsCalls` is part of the
invariant, since whether a timer is linked depends on the calls that have returned.

### SetTransactionProofs

For any data model, requests, sessions and array sizes, and calls nested to any depth
(assumption `ConstantsOK`):

| Theorem | States |
|---|---|
| `TypeCorrect` | `Spec => []TypeOK` |
| `BookkeepingKept` | `Spec => []Bookkeeping` |
| `RecordsLeftClean` | `Spec => []RecordsClean` |

The calls in progress share the two arrays, and an inner call may have dropped
them under an outer one. `StackInv` says what each frame can still rely on, `ArrayInv` which
array is complete while the other has had room, `MarkInv` that marks have staged values,
`CommitInv` which frame owns each `bCommitting` flag, and that no two frames own the same.
`LeftInv` is `RecordsClean` for every state: a staged value is listed, left behind, or that
of a parameter some call is about to list.

### SetOutcomeProofs

What a set achieves if no call comes in while it is in progress (`OneAtATime`, the only
hypothesis: `Inside = {}`), with every refusal, pending sets, arrays that overflow, SNMP
writers and Commits that fail:

| Theorem | States |
|---|---|
| `NothingHalfSet` | `Spec => []WorkClean` |
| `SuccessMeansApplied` | `Spec => AppliedOnSuccess` |
| `OnlyAskedApplied` | `Spec => UnaskedOnlyIfSpoilt` |

The objects in `failed` and `spoilt` are excepted, as in the properties. The hypothesis is
that of the run `set_single`. `OInv` adds to `IInv` the way of a value: `ListInv` (the running call
counts what is listed), `ValueInv` (the last entry of a parameter counts), `HandedInv` (what the
component was given so far), `AppliedInv` (what its Commit has applied so far),
`RecordInv`, `AskedInv` and `WorkInv` (what is staged or not yet applied was asked for, and belongs
to a listed object, a failed Commit or a spoilt one).

### NamespaceMgrProofs

For any finite set of components, any names, requests and prefixes, and every width of
the count (assumption `NamespaceConstants`):

| Theorem | States |
|---|---|
| `TypeCorrect` | `Spec => []TypeOK` |
| `IndexesAgree` | `Spec => []IndexMatchesQueues` |
| `CountStaysExact` | `Spec => []CountExact` |
| `DirectoryRefined` | `Spec => DirectoryKept` |

`OwnInv` is what the code relies on when UnregisterComponent deletes by name without
asking whose entry it deletes: the chain of a name has entries of one component only,
and the queue of that component has the name exactly as often. `IndexMatchesQueues` alone
is not inductive: it does not exclude that two components share a name, and then a
deletion takes the newest entry, not the caller's. The lemmas count
occurrences: in a concatenation, after a removal, in the copy without registered
names (`FreshFacts`, by a rank function that is a bijection), and in all queues together
(`QueuedChange`); `ModAdd` is the wrap-around of `uTotalNamespace`. The refinement shows
that Register and Build are `Claim` of the names that are new, an unregister by the owner
is `GiveUp` or, while the name is registered more than once, a stutter, and CleanAll is
`Clear`.

### What is only model-checked

Every inductive invariant was checked by TLC on instances before it was proved. Out of
the prover's reach, and checked by TLC only:

- liveness under fairness: `CallsReturn`, `ReadChangesPublished`, `DurationEnds`, `WaitersProceed`,
  `DueTimersFire`, `StoppedTasksEnd`;
- `WorkClean` and `UnaskedOnlyIfSpoilt` with calls that come in between (`set_notify`): proved for
  one call at a time;
- the two violated runs, which are counterexamples.

## 7. Not modelled, and the plan

`PROJECT.json` lists each part left out with the reason. In order:

1. *Message handler* (`thread_path_message_func_rbus`): SetParameterValues with its
   rollback and Commit, composed with `SetTransaction`; property: a refused set
   leaves no parameter changed. Then the subscribe method around the handlers
   modelled here, with filter reference counts.
2. *Abstract transaction*: one accepted set at a time, applied whole or not at all,
   and `SetTransaction` shown to implement it in the worlds of `set_single` and
   `set_notify`; several bus threads waiting for AccessTsLock over `TsLock`; the
   notification queue and its thread.
3. *Event slots and `CCSP_Message_Bus_Send_Msg`*: timeouts.
4. *Timer scheduler* with two scheduling tasks and with descriptors that are freed;
   the engine and clean tasks of the TCP daemon.
5. *Proofs*: `WorkClean` and `UnaskedOnlyIfSpoilt` with calls that come in between.

Left out for good: protocol parsers, encoders and crypto (data, not control),
generated tables, scripts, the older CLI and web packages, and code without users
(deadlock detection, the D-Bus reconnect, the deadlock-safe lock).
