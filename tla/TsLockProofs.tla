---------------------------- MODULE TsLockProofs ----------------------------
(***************************************************************************)
(* Proofs about TsLock, for any set of tasks and any nesting bound: mutual *)
(* exclusion, balanced nesting, and the refinement of ReentrantLock.       *)
(*                                                                         *)
(* The properties are not inductive.  IInv adds who holds ExternalLock:    *)
(* the task that is inside, or between TakeExternal and Mark, or between   *)
(* MustUnlock and Unlock; and that bAcquired names that task from Mark to  *)
(* Clear.                                                                  *)
(***************************************************************************)
EXTENDS TsLock, TLAPS

\* t is between the outermost AnscAcquireTsLock and the end of its release.
Inside(t) == held[t] > 0 \/ pc[t] \in {"mark", "clear", "unlock"}

\* The task inside is the one that holds ExternalLock.
HolderInv == \A t \in Tasks : Inside(t) <=> ExternalLock = t

\* What the fields say of a task, by where it stands.
TaskInv(t) ==
    /\ held[t] > 0 => pc[t] = "run"
    /\ held[t] > 0 => bAcquired /\ ActiveTaskHandle = t /\ RefCount + 1 = held[t]
    /\ pc[t] = "clear" => bAcquired /\ ActiveTaskHandle = t /\ RefCount = 0
    /\ pc[t] \in {"mark", "unlock"} => ~bAcquired
    /\ held[t] <= calls[t]
    /\ pc[t] \in {"lock", "mark"} => calls[t] > 0

\* bAcquired names a task that is inside.
OwnerInv ==
    /\ bAcquired => /\ ActiveTaskHandle \in Tasks
                    /\ ExternalLock = ActiveTaskHandle
                    /\ held[ActiveTaskHandle] > 0 \/ pc[ActiveTaskHandle] = "clear"
    /\ ~bAcquired => ActiveTaskHandle = NoTask /\ RefCount = 0

IInv == TypeOK /\ HolderInv /\ OwnerInv /\ \A t \in Tasks : TaskInv(t)

\* AnscInitializeTsLock establishes the invariant.
LEMMA InitIInv == Init => IInv
  <1> SUFFICES ASSUME Init PROVE IInv
    OBVIOUS
  <1>1. TypeOK
    <2>1. bAcquired \in BOOLEAN
      BY DEF Init
    <2>2. /\ pc \in [Tasks -> {"run", "lock", "mark", "clear", "unlock"}]
          /\ held \in [Tasks -> 0..MaxCalls] /\ calls \in [Tasks -> 0..MaxCalls]
      BY MaxCallsAssumption DEF Init
    <2> QED
      BY <2>1, <2>2, MaxCallsAssumption DEF TypeOK, Init
  <1>2. /\ ~bAcquired /\ ActiveTaskHandle = NoTask /\ RefCount = 0
        /\ ExternalLock = NoTask
    BY DEF Init
  <1>3. ASSUME NEW t \in Tasks
        PROVE  held[t] = 0 /\ calls[t] = 0 /\ pc[t] = "run" /\ t # NoTask
    BY TasksAssumption DEF Init
  <1>4. HolderInv /\ OwnerInv /\ \A t \in Tasks : TaskInv(t)
    BY <1>2, <1>3 DEF HolderInv, Inside, OwnerInv, TaskInv
  <1> QED
    BY <1>1, <1>4 DEF IInv

\* Every step of an acquire or a release preserves the invariant.
LEMMA NextIInv == IInv /\ [Next]_vars => IInv'
  <1> SUFFICES ASSUME IInv, [Next]_vars PROVE IInv'
    OBVIOUS
  <1> USE TasksAssumption, MaxCallsAssumption
  <1> USE DEF IInv, TypeOK, HolderInv, OwnerInv, TaskInv, Inside
  <1>1. ASSUME NEW t \in Tasks, Reenter(t) PROVE IInv'
    BY <1>1 DEF Reenter, Called, IsOwner
  <1>2. ASSUME NEW t \in Tasks, MustLock(t) PROVE IInv'
    BY <1>2 DEF MustLock, Called, IsOwner, At, fields
  <1>3. ASSUME NEW t \in Tasks, TakeExternal(t) PROVE IInv'
    BY <1>3 DEF TakeExternal, At, fields, callers
  <1>4. ASSUME NEW t \in Tasks, Mark(t) PROVE IInv'
    BY <1>4 DEF Mark, At
  <1>5. ASSUME NEW t \in Tasks, Leave(t) PROVE IInv'
    BY <1>5 DEF Leave, IsOwner
  <1>6. ASSUME NEW t \in Tasks, MustUnlock(t) PROVE IInv'
    BY <1>6 DEF MustUnlock, IsOwner, At, fields
  <1>7. ASSUME NEW t \in Tasks, StrayRelease(t) PROVE IInv'
    BY <1>7 DEF StrayRelease, vars, fields, callers
  <1>8. ASSUME NEW t \in Tasks, Clear(t) PROVE IInv'
    BY <1>8 DEF Clear, At, callers
  <1>9. ASSUME NEW t \in Tasks, Unlock(t) PROVE IInv'
    BY <1>9 DEF Unlock, At, fields, callers
  <1>10. CASE UNCHANGED vars
    BY <1>10 DEF vars, fields, callers
  <1> QED
    BY <1>1, <1>2, <1>3, <1>4, <1>5, <1>6, <1>7, <1>8, <1>9, <1>10 DEF Next

\* The inductive invariant holds in every reachable state.
THEOREM Invariance == Spec => []IInv
  BY InitIInv, NextIInv, PTL DEF Spec

\* No two tasks are inside the lock at once, whatever their number and
\* nesting (AnscAcquireTsLock).
THEOREM LockExcludes == Spec => []MutualExclusion
  <1>1. IInv => MutualExclusion
    BY DEF IInv, HolderInv, Inside, MutualExclusion
  <1> QED
    BY <1>1, Invariance, PTL

\* RefCount is the owner's own count of acquisitions still to release, and
\* ActiveTaskHandle names no task but the holder of ExternalLock
\* (AnscReleaseTsLock clears the fields before it unlocks).
THEOREM NestingIsBalanced == Spec => []NestingBalanced
  <1>1. IInv => NestingBalanced
    BY DEF IInv, TaskInv, OwnerInv, NestingBalanced, IsOwner
  <1> QED
    BY <1>1, Invariance, PTL

\* The fields of the lock keep their types and RefCount its bound
\* (AnscReleaseTsLock never counts below zero).
THEOREM FieldsKeepTypes == Spec => []TypeOK
  <1>1. IInv => TypeOK
    BY DEF IInv
  <1> QED
    BY <1>1, Invariance, PTL

-----------------------------------------------------------------------------
\* A step of the lock is a step of the re-entrant lock, or invisible to it.
LEMMA StepRefines == IInv /\ [Next]_vars => [Abs!Next]_(Abs!vars)
  <1> SUFFICES ASSUME IInv, [Next]_vars PROVE [Abs!Next]_(Abs!vars)
    OBVIOUS
  <1> USE TasksAssumption, MaxCallsAssumption
  <1> USE DEF IInv, TypeOK, OwnerInv, TaskInv, Owner, Depth
  <1>1. ASSUME NEW t \in Tasks, Reenter(t) PROVE Abs!Acquire(t)
    BY <1>1 DEF Reenter, IsOwner, Abs!Acquire
  <1>2. ASSUME NEW t \in Tasks, Mark(t) PROVE Abs!Acquire(t)
    BY <1>2 DEF Mark, Abs!Acquire
  <1>3. ASSUME NEW t \in Tasks, Leave(t) PROVE Abs!Release(t)
    BY <1>3 DEF Leave, IsOwner, Abs!Release
  <1>4. ASSUME NEW t \in Tasks, Clear(t) PROVE Abs!Release(t)
    BY <1>4 DEF Clear, Abs!Release
  <1>5. ASSUME UNCHANGED fields PROVE UNCHANGED Abs!vars
    BY <1>5 DEF fields, Abs!vars
  <1>6. ASSUME NEW t \in Tasks,
               MustLock(t) \/ TakeExternal(t) \/ MustUnlock(t)
                 \/ StrayRelease(t) \/ Unlock(t)
        PROVE  UNCHANGED fields
    BY <1>6 DEF MustLock, TakeExternal, MustUnlock, StrayRelease, Unlock, vars, fields
  <1>7. ASSUME UNCHANGED vars PROVE UNCHANGED fields
    BY <1>7 DEF vars
  <1> QED
    BY <1>1, <1>2, <1>3, <1>4, <1>5, <1>6, <1>7 DEF Next, Abs!Next

\* The two-mutex lock implements the re-entrant lock its callers rely on.
THEOREM LockRefines == Spec => ImplementsReentrantLock
  <1>1. Init => Abs!Init
    BY DEF Init, Abs!Init, Owner, Depth
  <1> QED
    BY <1>1, StepRefines, Invariance, PTL DEF Spec, ImplementsReentrantLock, Abs!Spec
=============================================================================
