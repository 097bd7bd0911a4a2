------------------------------- MODULE TsLock -------------------------------
(***************************************************************************)
(* The task-safe lock ANSC_TS_LOCK of ansc_protection.h: a lock its holder *)
(* can take again, built from two plain mutexes.  InternalLock protects    *)
(* the fields and is held only around a few assignments, so that each such *)
(* section is one step here; ExternalLock is held by the owner for as long *)
(* as it owns the lock.  It guards the data model database (AccessTsLock   *)
(* of DslhWmpDatabase), whose operations call one another, and the system  *)
(* repository folder.                                                      *)
(*                                                                         *)
(* A caller nests at most MaxCalls acquisitions before it is out of the    *)
(* lock again, and releases at any time, also a lock it does not hold.     *)
(***************************************************************************)
EXTENDS Naturals

CONSTANTS
    Tasks,     \* tasks that use the lock
    NoTask,    \* task handle 0
    MaxCalls   \* bound: acquisitions of a task before it lets go of the lock

ASSUME TasksAssumption == NoTask \notin Tasks
ASSUME MaxCallsAssumption == MaxCalls \in Nat \ {0}

VARIABLES
    bAcquired, ActiveTaskHandle, RefCount, \* the fields of ANSC_TS_LOCK
    ExternalLock,                          \* the holder of that mutex, or NoTask
    pc,                                    \* where each task stands
    held,                                  \* acquisitions that returned, less releases
    calls                                  \* acquisitions since the task last held nothing

fields == <<bAcquired, ActiveTaskHandle, RefCount>>
callers == <<held, calls>>
vars == <<fields, ExternalLock, pc, callers>>

At(t, label) == pc' = [pc EXCEPT ![t] = label]

\* AnscInitializeTsLock
Init ==
    /\ bAcquired = FALSE /\ ActiveTaskHandle = NoTask /\ RefCount = 0
    /\ ExternalLock = NoTask
    /\ pc = [t \in Tasks |-> "run"]
    /\ held = [t \in Tasks |-> 0]
    /\ calls = [t \in Tasks |-> 0]

\* Mutant: any task that finds the lock acquired shares it.
IsOwner_Shared(t) == bAcquired

\* if ( bAcquired ) if ( ActiveTaskHandle == ulCurTaskHandle )
IsOwner(t) == bAcquired /\ ActiveTaskHandle = t

(***************************************************************************)
(* AnscAcquireTsLock                                                       *)
(***************************************************************************)
Called(t) ==
    /\ pc[t] = "run" /\ calls[t] < MaxCalls
    /\ calls' = [calls EXCEPT ![t] = @ + 1]

\* The owner only counts.
Reenter(t) ==
    /\ Called(t)
    /\ IsOwner(t)
    /\ RefCount' = RefCount + 1
    /\ held' = [held EXCEPT ![t] = @ + 1]
    /\ UNCHANGED <<bAcquired, ActiveTaskHandle, ExternalLock, pc>>

\* bToLock stays TRUE.
MustLock(t) ==
    /\ Called(t)
    /\ ~IsOwner(t)
    /\ At(t, "lock")
    /\ UNCHANGED <<fields, ExternalLock, held>>

TakeExternal(t) ==
    /\ pc[t] = "lock"
    /\ ExternalLock = NoTask
    /\ ExternalLock' = t
    /\ At(t, "mark")
    /\ UNCHANGED <<fields, callers>>

\* Mutant: the first acquisition is counted like a nested one.
Mark_CountsOne(t) ==
    /\ pc[t] = "mark"
    /\ bAcquired' = TRUE /\ ActiveTaskHandle' = t /\ RefCount' = 1
    /\ held' = [held EXCEPT ![t] = @ + 1]
    /\ At(t, "run")
    /\ UNCHANGED <<ExternalLock, calls>>

Mark(t) ==
    /\ pc[t] = "mark"
    /\ bAcquired' = TRUE /\ ActiveTaskHandle' = t /\ RefCount' = 0
    /\ held' = [held EXCEPT ![t] = @ + 1]
    /\ At(t, "run")
    /\ UNCHANGED <<ExternalLock, calls>>

(***************************************************************************)
(* AnscReleaseTsLock                                                       *)
(***************************************************************************)
\* Mutant: the test is RefCount >= 0, and the unsigned count wraps.
Leave_Wraps(t) ==
    /\ pc[t] = "run"
    /\ IsOwner(t)
    /\ RefCount' = IF RefCount = 0 THEN MaxCalls ELSE RefCount - 1
    /\ held' = [held EXCEPT ![t] = IF @ = 0 THEN 0 ELSE @ - 1]
    /\ UNCHANGED <<bAcquired, ActiveTaskHandle, ExternalLock, pc, calls>>

\* The owner leaves an inner acquisition.
Leave(t) ==
    /\ pc[t] = "run"
    /\ IsOwner(t) /\ RefCount > 0
    /\ RefCount' = RefCount - 1
    /\ held' = [held EXCEPT ![t] = @ - 1]
    /\ UNCHANGED <<bAcquired, ActiveTaskHandle, ExternalLock, pc, calls>>

\* bToUnlock stays TRUE: the outermost acquisition ends.
MustUnlock(t) ==
    /\ pc[t] = "run"
    /\ IsOwner(t) /\ RefCount = 0
    /\ At(t, "clear")
    /\ held' = [held EXCEPT ![t] = @ - 1]
    /\ calls' = [calls EXCEPT ![t] = 0]
    /\ UNCHANGED <<fields, ExternalLock>>

\* Mutant: a release of a lock another task owns gives it away.
StrayRelease_Unlocks(t) ==
    /\ pc[t] = "run"
    /\ ~IsOwner(t) /\ bAcquired
    /\ At(t, "clear")
    /\ UNCHANGED <<fields, ExternalLock, callers>>

\* A release of a lock that is free or another task's changes nothing.
StrayRelease(t) ==
    /\ pc[t] = "run"
    /\ ~IsOwner(t)
    /\ UNCHANGED vars

Clear(t) ==
    /\ pc[t] = "clear"
    /\ bAcquired' = FALSE /\ ActiveTaskHandle' = NoTask /\ RefCount' = 0
    /\ At(t, "unlock")
    /\ UNCHANGED <<ExternalLock, callers>>

Unlock(t) ==
    /\ pc[t] = "unlock"
    /\ ExternalLock' = NoTask
    /\ At(t, "run")
    /\ UNCHANGED <<fields, callers>>

Next == \E t \in Tasks :
    \/ Reenter(t) \/ MustLock(t) \/ TakeExternal(t) \/ Mark(t)
    \/ Leave(t) \/ MustUnlock(t) \/ StrayRelease(t) \/ Clear(t) \/ Unlock(t)

Spec == Init /\ [][Next]_vars

\* A task that is not blocked runs on, and the code releases what it took.
\* Nothing is said of which waiter a mutex prefers.
Fairness == \A t \in Tasks :
    /\ WF_vars(TakeExternal(t)) /\ WF_vars(Mark(t))
    /\ WF_vars(Leave(t) \/ MustUnlock(t))
    /\ WF_vars(Clear(t)) /\ WF_vars(Unlock(t))

FairSpec == Spec /\ Fairness

-----------------------------------------------------------------------------
\* Type invariant; RefCount stays below the number of calls, so that the
\* unsigned count of ANSC_TS_LOCK never wraps below 0.
TypeOK ==
    /\ bAcquired \in BOOLEAN
    /\ ActiveTaskHandle \in Tasks \cup {NoTask}
    /\ ExternalLock \in Tasks \cup {NoTask}
    /\ RefCount \in 0..MaxCalls
    /\ pc \in [Tasks -> {"run", "lock", "mark", "clear", "unlock"}]
    /\ held \in [Tasks -> 0..MaxCalls]
    /\ calls \in [Tasks -> 0..MaxCalls]

\* Two tasks are never between an acquire that returned and its release,
\* however their acquisitions nest and whatever strays are released
\* (the reason the data model database uses AnscAcquireTsLock).
MutualExclusion == \A t, u \in Tasks : held[t] > 0 /\ held[u] > 0 => t = u

\* The count of the lock is the owner's own count of what it still has to
\* release: no acquisition is lost or counted twice, so the outermost release
\* and no earlier one frees the lock (RefCount of AnscReleaseTsLock).  And
\* ActiveTaskHandle never names a task that has let the lock go, so no later
\* acquisition by that task is taken for a nested one.
NestingBalanced ==
    /\ \A t \in Tasks : held[t] > 0 => IsOwner(t) /\ RefCount + 1 = held[t]
    /\ bAcquired => ExternalLock = ActiveTaskHandle

\* The lock implements the re-entrant lock its callers expect.
Owner == IF bAcquired THEN ActiveTaskHandle ELSE NoTask
Depth == IF bAcquired THEN RefCount + 1 ELSE 0
Abs == INSTANCE ReentrantLock WITH owner <- Owner, depth <- Depth

\* The two-mutex lock refines the abstract re-entrant lock: every step of
\* AnscAcquireTsLock and AnscReleaseTsLock is one acquire, one release or
\* invisible.
ImplementsReentrantLock == Abs!Spec

\* When tasks wait in AnscAcquireTsLock, one of them gets in: ExternalLock is
\* not lost between the step that clears the fields and the one that unlocks.
WaitersProceed ==
    (\E t \in Tasks : pc[t] = "lock") ~> (\E t \in Tasks : pc[t] = "mark")
=============================================================================
