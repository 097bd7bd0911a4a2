------------------------- MODULE IntervalSubProofs -------------------------
(***************************************************************************)
(* Proofs about IntervalSub, for any number of handlers and subscriptions  *)
(* and every interval and duration.                                        *)
(*                                                                         *)
(* What an unsubscribe may rely on is spread over the handler inside       *)
(* SUB_LOCK, gRecord and the thread.  IInv says for every subscription     *)
(* how far its record has come, and who may have cleared rec->running.     *)
(***************************************************************************)
EXTENDS IntervalSub, TLAPS

\* SUB_LOCK is held exactly while a call is in progress, by its handler.
LockInv ==
    \A h \in Handlers :
        /\ op[h].pc = "idle" => op[h] = Idle
        /\ op[h].pc # "idle" <=> subrecord_mutex = h
        /\ op[h].pc # "idle" => op[h].sub \in subList

\* The handler is at one of the steps pcs of a call for s.
Doing(h, s, pcs) == op[h].sub = s /\ op[h].pc \in pcs

\* A record exists from Spawn on and is in gRecord from Push on; once it has
\* left gRecord it is freed and its thread has ended.
RecordOK(s) ==
    /\ s \notin subList =>
          memory[s] = "none" /\ thread[s] = "none" /\ s \notin gRecord
    /\ \A h \in Handlers :
          /\ Doing(h, s, {"spawn"}) =>
                memory[s] = "none" /\ thread[s] = "none" /\ s \notin gRecord
          /\ Doing(h, s, {"push"}) =>
                memory[s] = "live" /\ thread[s] # "none" /\ s \notin gRecord /\ running[s]
    /\ s \in gRecord => memory[s] = "live" /\ thread[s] # "none"
    /\ s \in subList \ gRecord =>
          \/ memory[s] = "freed" /\ thread[s] = "exit"
          \/ \E h \in Handlers : Doing(h, s, {"spawn", "push"})

RecordInv == \A s \in Subs : RecordOK(s)

\* rec->running is cleared only by the unsubscribe in progress, which frees
\* the record after the thread has ended.
StopInv ==
    \A s \in Subs :
        /\ s \in gRecord /\ ~running[s] =>
              \E h \in Handlers : Doing(h, s, {"fetch", "join", "drop"})
        /\ \A h \in Handlers :
              /\ Doing(h, s, {"stop"}) => running[s]
              /\ Doing(h, s, {"drop"}) => thread[s] = "exit"
              /\ Doing(h, s, {"done"}) => memory[s] = "freed" /\ thread[s] = "exit"
              /\ Doing(h, s, {"stop", "fetch", "join", "drop"}) /\ Duration[s] = 0
                    => s \in gRecord
        /\ s \in ended => memory[s] = "freed" /\ thread[s] = "exit"

\* The count of events never passes the quotient, and only a subscription
\* with a duration completes.
CountInv ==
    \A s \in Subs :
        /\ thread[s] = "reap" => Duration[s] # 0
        /\ Duration[s] # 0 => count[s] <= DurationCount(s)
        /\ Duration[s] # 0 /\ completed[s] => count[s] = DurationCount(s)

IInv == TypeOK /\ LockInv /\ RecordInv /\ StopInv /\ CountInv

-----------------------------------------------------------------------------
\* The quotient of duration and interval counts the intervals that fit.
LEMMA QuotientBounds ==
  ASSUME NEW s \in Subs
  PROVE  /\ DurationCount(s) \in Nat
         /\ DurationCount(s) * Period[s] <= Duration[s]
         /\ (DurationCount(s) + 1) * Period[s] > Duration[s]
<1>1. Period[s] \in Nat \ {0} /\ Duration[s] \in Nat
  BY ConstantsOK
<1>2. ASSUME NEW d \in Nat, NEW p \in Nat \ {0}
      PROVE  d \div p \in Nat /\ (d \div p) * p <= d /\ (d \div p + 1) * p > d
  OBVIOUS
<1>3. QED
  BY <1>1, <1>2 DEF DurationCount

LEMMA ProductMonotonic ==
  ASSUME NEW a \in Nat, NEW b \in Nat, NEW p \in Nat, a <= b
  PROVE  a * p <= b * p
  OBVIOUS

\* Only one call is in progress at a time.
LEMMA OneCall ==
  ASSUME LockInv, NEW h \in Handlers, NEW g \in Handlers,
         op[h].pc # "idle", op[g].pc # "idle"
  PROVE  h = g
  BY DEF LockInv

LEMMA InitIInv == Init => IInv
<1> SUFFICES ASSUME Init PROVE IInv
  OBVIOUS
<1> USE ConstantsOK DEF Init, Idle
<1>1. TypeOK
  BY DEF TypeOK
<1>2. LockInv
  BY DEF LockInv
<1>3. RecordInv
  BY DEF RecordInv, RecordOK, Doing
<1>4. StopInv
  BY DEF StopInv, Doing
<1>5. CountInv
  BY QuotientBounds DEF CountInv
<1>6. QED
  BY <1>1, <1>2, <1>3, <1>4, <1>5 DEF IInv


LEMMA EnterSubscribeStep ==
  ASSUME IInv, NEW h \in Handlers, NEW s \in Subs, EnterSubscribe(h, s)
  PROVE  IInv'
<1> USE ConstantsOK DEF IInv, EnterSubscribe, At, Idle, recVars, threadVars
<1>1. TypeOK'
  BY DEF TypeOK
<1>2. LockInv'
  BY DEF TypeOK, LockInv
<1>3. RecordInv'
  BY DEF TypeOK, LockInv, RecordInv, RecordOK, StopInv, CountInv, Doing
<1>4. StopInv'
  BY DEF TypeOK, LockInv, RecordInv, RecordOK, StopInv, CountInv, Doing
<1>5. CountInv'
  BY QuotientBounds DEF TypeOK, CountInv, DurationCount
<1>6. QED
  BY <1>1, <1>2, <1>3, <1>4, <1>5

LEMMA EnterUnsubscribeStep ==
  ASSUME IInv, NEW h \in Handlers, NEW s \in Subs, EnterUnsubscribe(h, s)
  PROVE  IInv'
<1> USE ConstantsOK DEF IInv, EnterUnsubscribe, At, Idle, recVars, threadVars
<1>1. TypeOK'
  BY DEF TypeOK
<1>2. LockInv'
  BY DEF TypeOK, LockInv
<1>3. RecordInv'
  BY DEF TypeOK, LockInv, RecordInv, RecordOK, StopInv, CountInv, Doing
<1>4. StopInv'
  BY DEF TypeOK, LockInv, RecordInv, RecordOK, StopInv, CountInv, Doing
<1>5. CountInv'
  BY QuotientBounds DEF TypeOK, CountInv, DurationCount
<1>6. QED
  BY <1>1, <1>2, <1>3, <1>4, <1>5

LEMMA SpawnStep ==
  ASSUME IInv, NEW h \in Handlers, Spawn(h)
  PROVE  IInv'
<1> USE ConstantsOK DEF IInv, Spawn, At
<1>1. TypeOK'
  BY DEF TypeOK
<1>2. LockInv'
  BY DEF TypeOK, LockInv
<1>3. RecordInv'
  BY DEF TypeOK, LockInv, RecordInv, RecordOK, StopInv, CountInv, Doing
<1>4. StopInv'
  BY DEF TypeOK, LockInv, RecordInv, RecordOK, StopInv, CountInv, Doing
<1>5. CountInv'
  BY QuotientBounds DEF TypeOK, CountInv, DurationCount
<1>6. QED
  BY <1>1, <1>2, <1>3, <1>4, <1>5

LEMMA PushStep ==
  ASSUME IInv, NEW h \in Handlers, Push(h)
  PROVE  IInv'
<1> USE ConstantsOK DEF IInv, Push, At, threadVars
<1>1. TypeOK'
  BY DEF TypeOK, LockInv
<1>2. LockInv'
  BY DEF TypeOK, LockInv
<1>3. RecordInv'
  <2>1. op[h].sub \in Subs /\ Doing(h, op[h].sub, {"push"})
    BY DEF TypeOK, LockInv, Doing
  <2>2. /\ op'[h] = [op[h] EXCEPT !.pc = "return"]
        /\ \A g \in Handlers \ {h} : op'[g] = op[g]
    BY DEF TypeOK
  <2>3. ASSUME NEW s \in Subs, s # op[h].sub PROVE RecordOK(s)'
    <3>1. \A g \in Handlers : op[g].sub = s \/ op'[g].sub = s => op'[g] = op[g]
      BY <2>2, <2>3 DEF TypeOK
    <3>2. s \in gRecord' <=> s \in gRecord
      BY <2>3
    <3>3. RecordOK(s)
      BY DEF RecordInv
    <3>4. QED
      BY <3>1, <3>2, <3>3 DEF RecordOK, Doing
  <2>4. ASSUME NEW s \in Subs, s = op[h].sub PROVE RecordOK(s)'
    BY <2>1, <2>2, <2>4, OneCall DEF TypeOK, LockInv, RecordInv, RecordOK, Doing
  <2>5. QED
    BY <2>3, <2>4 DEF RecordInv
<1>4. StopInv'
  BY DEF TypeOK, LockInv, RecordInv, RecordOK, StopInv, CountInv, Doing
<1>5. CountInv'
  BY QuotientBounds DEF TypeOK, CountInv, DurationCount
<1>6. QED
  BY <1>1, <1>2, <1>3, <1>4, <1>5

LEMMA StopStep ==
  ASSUME IInv, NEW h \in Handlers, Stop(h)
  PROVE  IInv'
<1> USE ConstantsOK DEF IInv, Stop, At, threadVars
<1>1. TypeOK'
  BY DEF TypeOK
<1>2. LockInv'
  BY DEF TypeOK, LockInv
<1>3. RecordInv'
  BY DEF TypeOK, LockInv, RecordInv, RecordOK, StopInv, CountInv, Doing
<1>4. StopInv'
  BY DEF TypeOK, LockInv, RecordInv, RecordOK, StopInv, CountInv, Doing
<1>5. CountInv'
  BY QuotientBounds DEF TypeOK, CountInv, DurationCount
<1>6. QED
  BY <1>1, <1>2, <1>3, <1>4, <1>5

LEMMA FetchStep ==
  ASSUME IInv, NEW h \in Handlers, Fetch(h)
  PROVE  IInv'
<1> USE ConstantsOK DEF IInv, Fetch, At, recVars, threadVars
<1>1. TypeOK'
  BY DEF TypeOK
<1>2. LockInv'
  BY DEF TypeOK, LockInv
<1>3. RecordInv'
  BY DEF TypeOK, LockInv, RecordInv, RecordOK, StopInv, CountInv, Doing
<1>4. StopInv'
  BY DEF TypeOK, LockInv, RecordInv, RecordOK, StopInv, CountInv, Doing
<1>5. CountInv'
  BY QuotientBounds DEF TypeOK, CountInv, DurationCount
<1>6. QED
  BY <1>1, <1>2, <1>3, <1>4, <1>5

LEMMA JoinStep ==
  ASSUME IInv, NEW h \in Handlers, Join(h)
  PROVE  IInv'
<1> USE ConstantsOK DEF IInv, Join, At, recVars, threadVars
<1>1. TypeOK'
  BY DEF TypeOK
<1>2. LockInv'
  BY DEF TypeOK, LockInv
<1>3. RecordInv'
  BY DEF TypeOK, LockInv, RecordInv, RecordOK, StopInv, CountInv, Doing
<1>4. StopInv'
  BY DEF TypeOK, LockInv, RecordInv, RecordOK, StopInv, CountInv, Doing
<1>5. CountInv'
  BY QuotientBounds DEF TypeOK, CountInv, DurationCount
<1>6. QED
  BY <1>1, <1>2, <1>3, <1>4, <1>5

LEMMA DropStep ==
  ASSUME IInv, NEW h \in Handlers, Drop(h)
  PROVE  IInv'
<1> USE ConstantsOK DEF IInv, Drop, RemoveItem, At, threadVars
<1>1. TypeOK'
  BY DEF TypeOK
<1>2. LockInv'
  BY DEF TypeOK, LockInv
<1>3. RecordInv'
  BY DEF TypeOK, LockInv, RecordInv, RecordOK, StopInv, CountInv, Doing
<1>4. StopInv'
  BY DEF TypeOK, LockInv, RecordInv, RecordOK, StopInv, CountInv, Doing
<1>5. CountInv'
  BY QuotientBounds DEF TypeOK, CountInv, DurationCount
<1>6. QED
  BY <1>1, <1>2, <1>3, <1>4, <1>5

LEMMA ReturnStep ==
  ASSUME IInv, NEW h \in Handlers, Return(h)
  PROVE  IInv'
<1> USE ConstantsOK DEF IInv, Return, Idle, recVars, threadVars
<1>1. TypeOK'
  BY DEF TypeOK, LockInv
<1>2. LockInv'
  BY DEF TypeOK, LockInv
<1>3. RecordInv'
  BY DEF TypeOK, LockInv, RecordInv, RecordOK, StopInv, CountInv, Doing
<1>4. StopInv'
  BY DEF TypeOK, LockInv, RecordInv, RecordOK, StopInv, CountInv, Doing
<1>5. CountInv'
  BY QuotientBounds DEF TypeOK, CountInv, DurationCount
<1>6. QED
  BY <1>1, <1>2, <1>3, <1>4, <1>5

LEMMA TestRunningStep ==
  ASSUME IInv, NEW s \in Subs, TestRunning(s)
  PROVE  IInv'
<1> USE ConstantsOK DEF IInv, TestRunning, recVars
<1>1. TypeOK'
  BY DEF TypeOK
<1>2. LockInv'
  BY DEF TypeOK, LockInv
<1>3. RecordInv'
  BY DEF TypeOK, LockInv, RecordInv, RecordOK, StopInv, CountInv, Doing
<1>4. StopInv'
  BY DEF TypeOK, LockInv, RecordInv, RecordOK, StopInv, CountInv, Doing
<1>5. CountInv'
  BY QuotientBounds DEF TypeOK, CountInv, DurationCount
<1>6. QED
  BY <1>1, <1>2, <1>3, <1>4, <1>5

LEMMA WakeStep ==
  ASSUME IInv, NEW s \in Subs, Wake(s)
  PROVE  IInv'
<1> USE ConstantsOK DEF IInv, Wake, recVars
<1>1. TypeOK'
  BY DEF TypeOK
<1>2. LockInv'
  BY DEF TypeOK, LockInv
<1>3. RecordInv'
  BY DEF TypeOK, LockInv, RecordInv, RecordOK, StopInv, CountInv, Doing
<1>4. StopInv'
  BY DEF TypeOK, LockInv, RecordInv, RecordOK, StopInv, CountInv, Doing
<1>5. CountInv'
  BY QuotientBounds DEF TypeOK, CountInv, DurationCount
<1>6. QED
  BY <1>1, <1>2, <1>3, <1>4, <1>5

LEMMA ReadFailsStep ==
  ASSUME IInv, NEW s \in Subs, ReadFails(s)
  PROVE  IInv'
<1> USE ConstantsOK DEF IInv, ReadFails, recVars
<1>1. TypeOK'
  BY DEF TypeOK
<1>2. LockInv'
  BY DEF TypeOK, LockInv
<1>3. RecordInv'
  BY DEF TypeOK, LockInv, RecordInv, RecordOK, StopInv, CountInv, Doing
<1>4. StopInv'
  BY DEF TypeOK, LockInv, RecordInv, RecordOK, StopInv, CountInv, Doing
<1>5. CountInv'
  BY QuotientBounds DEF TypeOK, CountInv, DurationCount
<1>6. QED
  BY <1>1, <1>2, <1>3, <1>4, <1>5

LEMMA PublishStep ==
  ASSUME IInv, NEW s \in Subs, Publish(s)
  PROVE  IInv'
<1> USE ConstantsOK DEF IInv, Publish, recVars
<1>1. TypeOK'
  <2>1. thread' \in [Subs -> {"none", "test", "wait", "read", "reap", "exit"}]
    BY DEF TypeOK
  <2>2. count' \in [Subs -> Nat]
    BY DEF TypeOK
  <2>3. completed' \in [Subs -> BOOLEAN]
    BY DEF TypeOK
  <2>4. QED
    BY <2>1, <2>2, <2>3 DEF TypeOK
<1>2. LockInv'
  BY DEF TypeOK, LockInv
<1>3. RecordInv'
  BY DEF TypeOK, LockInv, RecordInv, RecordOK, StopInv, CountInv, Doing
<1>4. StopInv'
  BY DEF TypeOK, LockInv, RecordInv, RecordOK, StopInv, CountInv, Doing
<1>5. CountInv'
  BY QuotientBounds DEF TypeOK, CountInv, DurationCount
<1>6. QED
  BY <1>1, <1>2, <1>3, <1>4, <1>5

LEMMA ReapStep ==
  ASSUME IInv, NEW s \in Subs, Reap(s)
  PROVE  IInv'
<1> USE ConstantsOK DEF IInv, Reap, RemoveItem
<1>1. TypeOK'
  BY DEF TypeOK
<1>2. LockInv'
  BY DEF TypeOK, LockInv
<1>3. RecordInv'
  BY DEF TypeOK, LockInv, RecordInv, RecordOK, StopInv, CountInv, Doing
<1>4. StopInv'
  BY DEF TypeOK, LockInv, RecordInv, RecordOK, StopInv, CountInv, Doing
<1>5. CountInv'
  BY QuotientBounds DEF TypeOK, CountInv, DurationCount
<1>6. QED
  BY <1>1, <1>2, <1>3, <1>4, <1>5

-----------------------------------------------------------------------------
LEMMA Inductive == Spec => []IInv
<1>1. IInv /\ [Next]_vars => IInv'
  <2> SUFFICES ASSUME IInv, [Next]_vars PROVE IInv'
    OBVIOUS
  <2>1. CASE UNCHANGED vars
    BY <2>1 DEF vars, recVars, threadVars, IInv, TypeOK, LockInv, RecordInv, RecordOK,
                StopInv, CountInv, Doing, DurationCount, Idle
  <2>2. CASE Next
    BY <2>2, EnterSubscribeStep, EnterUnsubscribeStep, SpawnStep, PushStep, StopStep,
       FetchStep, JoinStep, DropStep, ReturnStep, TestRunningStep, WakeStep,
       ReadFailsStep, PublishStep, ReapStep DEF Next, Handle, ThreadStep
  <2>3. QED
    BY <2>1, <2>2
<1>2. QED
  BY InitIInv, <1>1, PTL DEF Spec

\* Every variable of the interval subscriptions keeps its type.
THEOREM TypeCorrect == Spec => []TypeOK
<1>1. IInv => TypeOK
  BY DEF IInv
<1>2. QED
  BY <1>1, Inductive, PTL

\* When Ccsp_RbusInterval_Unsubscribe has returned, the publishing thread has
\* ended and the record is freed, whatever the thread was doing.
THEOREM UnsubscribeStops == Spec => []NoEventAfterUnsubscribe
<1>1. IInv => NoEventAfterUnsubscribe
  BY DEF IInv, TypeOK, StopInv, NoEventAfterUnsubscribe
<1>2. QED
  BY <1>1, Inductive, PTL

\* A subscription publishes as many events as its duration has intervals, and
\* RBUS_EVENT_DURATION_COMPLETE only after them, for every interval and
\* duration.
THEOREM DurationsKept == Spec => []DurationHonoured
<1>1. IInv => DurationHonoured
  <2> SUFFICES ASSUME IInv, NEW s \in Subs, Duration[s] # 0
               PROVE  /\ count[s] * Period[s] <= Duration[s]
                      /\ completed[s] => (count[s] + 1) * Period[s] > Duration[s]
    BY DEF DurationHonoured
  <2>1. count[s] \in Nat /\ Period[s] \in Nat /\ Duration[s] \in Nat
    BY ConstantsOK DEF IInv, TypeOK
  <2>2. count[s] <= DurationCount(s)
    BY DEF IInv, CountInv
  <2>3. count[s] * Period[s] <= DurationCount(s) * Period[s]
    BY <2>1, <2>2, QuotientBounds, ProductMonotonic
  <2>4. DurationCount(s) * Period[s] \in Int /\ count[s] * Period[s] \in Int
    BY <2>1, QuotientBounds
  <2>5. count[s] * Period[s] <= Duration[s]
    BY <2>1, <2>3, <2>4, QuotientBounds
  <2>6. completed[s] => (count[s] + 1) * Period[s] > Duration[s]
    BY QuotientBounds DEF IInv, CountInv
  <2>7. QED
    BY <2>5, <2>6
<1>2. QED
  BY <1>1, Inductive, PTL

\* No handler and no publishing thread uses a freed record, as long as the
\* subscription of the handler's call has no duration.
THEOREM NoUseAfterFree == Spec => []NoFreedRecordUsed
<1>1. IInv => NoFreedRecordUsed
  <2> SUFFICES ASSUME IInv PROVE NoFreedRecordUsed
    OBVIOUS
  <2>1. ASSUME NEW h \in Handlers, op[h].pc \in {"push", "stop", "fetch"},
               Duration[op[h].sub] = 0
        PROVE  memory[op[h].sub] = "live"
    <3>1. op[h].sub \in Subs
      BY <2>1 DEF IInv, TypeOK, LockInv
    <3>2. op[h].pc = "push" \/ op[h].sub \in gRecord
      BY <2>1, <3>1 DEF IInv, StopInv, Doing
    <3>3. QED
      BY <2>1, <3>1, <3>2 DEF IInv, RecordInv, RecordOK, Doing
  <2>2. ASSUME NEW s \in Subs, thread[s] \in {"test", "wait", "read", "reap"}
        PROVE  memory[s] = "live"
    BY <2>2 DEF IInv, TypeOK, LockInv, RecordInv, RecordOK, Doing
  <2>3. QED
    BY <2>1, <2>2 DEF NoFreedRecordUsed
<1>2. QED
  BY <1>1, Inductive, PTL
============================================================================
