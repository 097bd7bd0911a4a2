------------------------- MODULE ValueChangeProofs -------------------------
(***************************************************************************)
(* Proofs about ValueChange, for any number of handlers, subscriptions,    *)
(* parameters, records and thread identities.                              *)
(*                                                                         *)
(* The invariants of ValueChange are not inductive on their own.  IInv     *)
(* adds what the calls in progress know: which thread is inside which      *)
(* lock, what the look-up in vcparams established, and which parameters    *)
(* an unsubscribe has still to visit.                                      *)
(***************************************************************************)
EXTENDS ValueChange, TLAPS

\* SUB_LOCK is held exactly while a call is in progress, by its handler.
LockInv ==
    \A h \in Handlers :
        /\ op[h].pc = "idle" => op[h] = Idle
        /\ op[h].pc # "idle" <=> subrecord_mutex = h

\* The fields of a call that its program counter makes meaningful.
CallInv ==
    \A h \in Handlers :
        /\ op[h].pc # "idle" => op[h].sub \in Subs
        /\ op[h].pc \in {"create", "insert"} =>
              /\ op[h].added
              /\ op[h].param \in Match[op[h].sub]
              /\ vcParams_Find(op[h].sub, op[h].param) = {}
        /\ op[h].pc = "insert" =>
              /\ op[h].rec \in Recs
              /\ rec[op[h].rec].state = "new"
              /\ rec[op[h].rec].sub = op[h].sub
              /\ rec[op[h].rec].param = op[h].param
        /\ op[h].pc = "remove" =>
              /\ ~op[h].added
              /\ op[h].rec \in Listed
              /\ Key[rec[op[h].rec].sub] = Key[op[h].sub]
        /\ op[h].pc = "join" => ~op[h].added
        /\ op[h].pc # "idle" => op[h].left \subseteq Match[op[h].sub]

\* The polling thread: vcthread is the only one, it runs exactly while there
\* are records, and only the handler that joins it sees it end.
PollInv ==
    /\ \A t \in Pollers : poller[t] = "scan" <=> vcmutex = t
    /\ \A t \in Pollers : poller[t] # "none" => vcthread = t
    /\ vcmutex = NULL => todo = {}
    /\ todo \subseteq Listed
    /\ vcrunning <=> Listed # {}
    /\ vcrunning => vcthread \in Pollers /\ Alive(vcthread)
    /\ \A h \in Handlers :
          op[h].pc = "join" =>
              ~vcrunning /\ vcthread \in Pollers /\ poller[vcthread] # "none"
    /\ (~vcrunning /\ \A h \in Handlers : op[h].pc # "join")
          => \A t \in Pollers : poller[t] = "none"

\* Records in use belong to a parameter their subscription matches.
RecInv ==
    /\ NoDuplicateRecords
    /\ \A r \in Recs : rec[r].state # "free" =>
          rec[r].sub \in Subs /\ rec[r].param \in Match[rec[r].sub]

\* The subscription of a record that cannot be orphaned is in subList; an
\* unsubscribe has still to visit the parameters whose records remain.
SubInv ==
    /\ Params \ Dynamic \subseteq rows
    /\ \A h \in Handlers : op[h].pc # "idle" => op[h].sub \in subList
    /\ \A r \in Listed : \/ \E s \in subList : Key[s] = Key[rec[r].sub]
                         \/ rec[r].param \in Dynamic
    /\ \A h \in Handlers, r \in Listed :
          op[h].pc # "idle" /\ ~op[h].added /\ Key[rec[r].sub] = Key[op[h].sub] =>
              \/ rec[r].param \in Dynamic \cup op[h].left
              \/ op[h].pc = "remove" /\ op[h].rec = r

\* A plain subscription of subList has a record, its own or a twin's, or is
\* being served, or lost the record to the unsubscribe of a twin.
Serving(h, s) ==
    /\ op[h].pc # "idle" /\ op[h].sub = s
    /\ ~op[h].added \/ op[h].left # {} \/ op[h].pc \in {"create", "insert"}

WatchInv ==
    \A s \in subList \ Wild :
        \/ s \in robbed
        \/ \E r \in Listed : Key[rec[r].sub] = Key[s]
        \/ \E h \in Handlers : Serving(h, s)

\* A plain subscription that lost its record has none.
RobInv == \A s \in robbed \ Wild, r \in Listed : Key[rec[r].sub] # Key[s]

\* ListenerInStep, from the moment a record is made.
NewsInv ==
    \A r \in Recs : rec[r].state # "free" /\ rec[r].value # NULL =>
        SameNews(rec[r].sub, told[r], rec[r].value)

IInv == TypeOK /\ LockInv /\ CallInv /\ PollInv /\ RecInv /\ SubInv /\ WatchInv
        /\ RobInv /\ NewsInv
----------------------------------------------------------------------------
\* Entering SUB_LOCK for a subscribe (cssp_RbusSubscribe_handler, added) keeps IInv.
LEMMA EnterSubscribeStep ==
    ASSUME IInv, NEW h \in Handlers, NEW s \in Subs, EnterSubscribe(h, s)
    PROVE  IInv'
<1> USE ConstantsOK DEF IInv, TypeOK, EnterSubscribe, vars, subVars, vcVars, envVars, Call, Idle, Enumerate
<1>a. op[h] \in Calls
  OBVIOUS
<1>b. op' \in [Handlers -> Calls]
  BY <1>a DEF Calls, CallInv
<1>c. \A g \in Handlers \ {h} : op'[g] = op[g]
  OBVIOUS
<1>1. TypeOK'
  BY <1>b DEF CallInv, Listed
<1>2. LockInv'
  BY DEF LockInv, Idle
<1>3. CallInv'
  BY DEF CallInv, LockInv, RecInv, vcParams_Find, Listed, FreeRec, Idle, Records, Calls
<1>4. PollInv'
  BY DEF PollInv, LockInv, CallInv, Listed, Alive, FreeRec, Idle, Records, Calls
<1>5. RecInv'
  BY DEF RecInv, CallInv, NoDuplicateRecords, vcParams_Find, Listed, FreeRec, Records, Calls
<1>6. SubInv'
  BY DEF SubInv, LockInv, CallInv, RecInv, Listed, vcParams_Find, FreeRec, Idle, Records,
      Calls
<1>7. WatchInv'
  BY DEF WatchInv, Serving, SubInv, LockInv, CallInv, RecInv, Listed, vcParams_Find,
      FreeRec, Idle, Records, Calls
<1>8. NewsInv'
  BY DEF NewsInv, CallInv, PollInv, Listed, FreeRec, SameNews, Records, Calls
<1>9. RobInv'
  BY DEF RobInv, Listed
<1>10. QED
  BY <1>1, <1>2, <1>3, <1>4, <1>5, <1>6, <1>7, <1>8, <1>9 DEF IInv

\* Entering SUB_LOCK for an unsubscribe keeps IInv.
LEMMA EnterUnsubscribeStep ==
    ASSUME IInv, NEW h \in Handlers, NEW s \in Subs, EnterUnsubscribe(h, s)
    PROVE  IInv'
<1> USE ConstantsOK DEF IInv, TypeOK, EnterUnsubscribe, vars, subVars, vcVars, envVars, Call, Idle, Enumerate
<1>a. op[h] \in Calls
  OBVIOUS
<1>b. op' \in [Handlers -> Calls]
  BY <1>a DEF Calls, CallInv
<1>c. \A g \in Handlers \ {h} : op'[g] = op[g]
  OBVIOUS
<1>1. TypeOK'
  BY <1>b DEF CallInv, Listed
<1>2. LockInv'
  BY DEF LockInv, Idle
<1>3. CallInv'
  BY DEF CallInv, LockInv, RecInv, vcParams_Find, Listed, FreeRec, Idle, Records, Calls
<1>4. PollInv'
  BY DEF PollInv, LockInv, CallInv, Listed, Alive, FreeRec, Idle, Records, Calls
<1>5. RecInv'
  BY DEF RecInv, CallInv, NoDuplicateRecords, vcParams_Find, Listed, FreeRec, Records, Calls
<1>6. SubInv'
  BY DEF SubInv, LockInv, CallInv, RecInv, Listed, vcParams_Find, FreeRec, Idle, Records,
      Calls
<1>7. WatchInv'
  BY DEF WatchInv, Serving, SubInv, LockInv, CallInv, RecInv, Listed, vcParams_Find,
      FreeRec, Idle, Records, Calls
<1>8. NewsInv'
  BY DEF NewsInv, CallInv, PollInv, Listed, FreeRec, SameNews, Records, Calls
<1>9. RobInv'
  BY DEF RobInv, Listed
<1>10. QED
  BY <1>1, <1>2, <1>3, <1>4, <1>5, <1>6, <1>7, <1>8, <1>9 DEF IInv

\* The look-up of one parameter's record under VC_LOCK keeps IInv.
LEMMA FindStep ==
    ASSUME IInv, NEW h \in Handlers, NEW p \in Params, Find(h, p)
    PROVE  IInv'
<1> USE ConstantsOK DEF IInv, TypeOK, Find, vars, subVars, vcVars, envVars
<1>a. op[h] \in Calls
  OBVIOUS
<1>b. op' \in [Handlers -> Calls]
  <2>1. CASE op' = [op EXCEPT ![h].left = @ \ {p}, ![h].pc = "create", ![h].param = p]
    BY ONLY op \in [Handlers -> Calls], <1>a, <2>1, h \in Handlers, p \in Params DEF Calls
  <2>2. ASSUME NEW r \in Recs, op' = [op EXCEPT ![h].left = @ \ {p}, ![h].pc = "remove", ![h].rec = r]
        PROVE  op' \in [Handlers -> Calls]
    BY ONLY op \in [Handlers -> Calls], <1>a, <2>2, h \in Handlers, r \in Recs DEF Calls
  <2>3. CASE op' = [op EXCEPT ![h].left = @ \ {p}]
    BY <1>a, <2>3 DEF Calls
  <2>4. QED
    BY <2>1, <2>2, <2>3 DEF vcParams_Find, Listed
<1>c. \A g \in Handlers \ {h} : op'[g] = op[g]
  OBVIOUS
<1>e. op'[h].pc # "idle" /\ op[h].pc # "idle"
  BY <1>a DEF Calls, vcParams_Find
<1>1. TypeOK'
  BY <1>b DEF CallInv, Listed
<1>2. LockInv'
  BY <1>c, <1>e DEF LockInv, Idle
<1>3. CallInv'
  BY DEF CallInv, LockInv, RecInv, vcParams_Find, Listed, FreeRec, Idle, Records, Calls
<1>4. PollInv'
  <2>1. op[h].pc # "join" /\ op'[h].pc # "join"
    BY <1>a DEF Calls, vcParams_Find
  <2>2. UNCHANGED <<vcmutex, vcrunning, vcthread, poller, todo, rec>>
    OBVIOUS
  <2>3. PollInv
    OBVIOUS
  <2>4. QED
    BY ONLY <1>c, <2>1, <2>2, <2>3 DEF PollInv, Alive, Listed
<1>5. RecInv'
  BY DEF RecInv, CallInv, NoDuplicateRecords, vcParams_Find, Listed, FreeRec, Records, Calls
<1>6. SubInv'
  <2>1. /\ op'[h].sub = op[h].sub
        /\ op'[h].added = op[h].added
        /\ op'[h].left = op[h].left \ {p}
    BY <1>a DEF Calls
  <2>2. \A g \in Handlers \ {h} : op[g].pc = "idle" /\ op'[g].pc = "idle"
    BY <1>c, <1>e DEF LockInv
  <2>3. UNCHANGED <<subList, rows, rec>> /\ SubInv
    OBVIOUS
  <2>4. ASSUME ~op[h].added, NEW r \in Listed, Key[rec[r].sub] = Key[op[h].sub],
               rec[r].param = p
        PROVE  op'[h].pc = "remove" /\ op'[h].rec = r
    <3>1. vcParams_Find(op[h].sub, p) = {r}
      BY <2>4 DEF vcParams_Find, RecInv, NoDuplicateRecords
    <3>2. op' = [op EXCEPT ![h].left = @ \ {p}, ![h].pc = "remove", ![h].rec = r]
      BY <2>4, <3>1
    <3>3. QED
      BY <1>a, <3>2 DEF Calls
  <2>5. ASSUME ~op[h].added, NEW r \in Listed, Key[rec[r].sub] = Key[op[h].sub]
        PROVE  \/ rec[r].param \in Dynamic \cup op'[h].left
               \/ op'[h].pc = "remove" /\ op'[h].rec = r
    <3>1. op[h].pc = "next"
      OBVIOUS
    <3>2. rec[r].param \in Dynamic \cup op[h].left
      BY <1>e, <2>3, <2>5, <3>1 DEF SubInv
    <3>3. QED
      BY <2>1, <2>4, <2>5, <3>2
  <2>6. QED
    BY ONLY <1>e, <2>1, <2>2, <2>3, <2>5 DEF SubInv, Listed
<1>7. WatchInv'
  BY DEF WatchInv, Serving, SubInv, LockInv, CallInv, RecInv, Listed, vcParams_Find,
      FreeRec, Idle, Records, Calls
<1>8. NewsInv'
  BY DEF NewsInv, CallInv, PollInv, Listed, FreeRec, SameNews, Records, Calls
<1>9. RobInv'
  BY DEF RobInv, Listed
<1>10. QED
  BY <1>1, <1>2, <1>3, <1>4, <1>5, <1>6, <1>7, <1>8, <1>9 DEF IInv

\* Making a record and reading its first value outside VC_LOCK keeps IInv.
LEMMA CreateStep ==
    ASSUME IInv, NEW h \in Handlers, NEW r \in Recs, NEW v \in Values \cup {NULL}, Create(h, r, v)
    PROVE  IInv'
<1> USE ConstantsOK DEF IInv, TypeOK, Create, vars, subVars, vcVars, envVars, GetParameterValue
<1>a. op[h] \in Calls
  OBVIOUS
<1>b. op' \in [Handlers -> Calls]
  BY <1>a DEF Calls
<1>c. \A g \in Handlers \ {h} : op'[g] = op[g]
  OBVIOUS
<1>d. rec' \in [Recs -> Records]
  BY <1>a DEF Records, FreeRec, CallInv
<1>e. op'[h].pc # "idle" /\ op[h].pc # "idle"
  BY <1>a DEF Calls, vcParams_Find
<1>1. TypeOK'
  BY <1>b, <1>d DEF CallInv, Listed
<1>2. LockInv'
  BY <1>c, <1>e DEF LockInv, Idle
<1>3. CallInv'
  BY DEF CallInv, LockInv, RecInv, vcParams_Find, Listed, FreeRec, Idle, Records, Calls
<1>4. PollInv'
  <2>1. Listed' = Listed
    BY <1>d DEF Listed, FreeRec, Records
  <2>2. op[h].pc # "join" /\ op'[h].pc # "join"
    BY <1>a DEF Calls
  <2>3. QED
    BY <1>c, <2>1, <2>2 DEF PollInv, Alive
<1>5. RecInv'
  BY DEF RecInv, CallInv, NoDuplicateRecords, vcParams_Find, Listed, FreeRec, Records, Calls
<1>f. Listed' = Listed /\ \A q \in Listed : rec'[q] = rec[q]
  BY <1>d DEF Listed, FreeRec, Records
<1>g. /\ op'[h].sub = op[h].sub
      /\ op'[h].added = op[h].added
      /\ op'[h].left = op[h].left
      /\ op[h].added
  BY <1>a DEF Calls, CallInv
<1>6. SubInv'
  <2>1. \A g \in Handlers \ {h} : op[g].pc = "idle" /\ op'[g].pc = "idle"
    BY <1>c, <1>e DEF LockInv
  <2>2. UNCHANGED <<subList, rows>> /\ SubInv
    OBVIOUS
  <2>3. \A q \in Listed' : \/ \E s \in subList' : Key[s] = Key[rec'[q].sub]
                         \/ rec'[q].param \in Dynamic
    BY <1>f, <2>2 DEF SubInv
  <2>4. \A g \in Handlers : op'[g].pc # "idle" => op'[g].sub \in subList'
    BY <1>e, <1>g, <2>1, <2>2 DEF SubInv
  <2>5. \A g \in Handlers : op'[g].pc # "idle" => op'[g].added
    BY <1>g, <2>1
  <2>6. QED
    BY <2>2, <2>3, <2>4, <2>5 DEF SubInv
<1>7. WatchInv'
  <2>1. \A g \in Handlers, s \in Subs : Serving(g, s) => Serving(g, s)'
    BY <1>a, <1>c, <1>e, <1>g DEF Serving, Calls
  <2>2. UNCHANGED <<subList, robbed>> /\ WatchInv /\ subList \subseteq Subs
    OBVIOUS
  <2>3. QED
    BY ONLY <1>f, <2>1, <2>2 DEF WatchInv
<1>8. NewsInv'
  BY DEF NewsInv, CallInv, PollInv, Listed, FreeRec, SameNews, Records, Calls
<1>9. RobInv'
  BY DEF RobInv, Listed
<1>10. QED
  BY <1>1, <1>2, <1>3, <1>4, <1>5, <1>6, <1>7, <1>8, <1>9 DEF IInv

\* Pushing the record and starting the thread keeps IInv.
LEMMA InsertStep ==
    ASSUME IInv, NEW h \in Handlers, Insert(h)
    PROVE  IInv'
<1> USE ConstantsOK DEF IInv, TypeOK, Insert, vars, subVars, vcVars, envVars
<1>a. op[h] \in Calls
  OBVIOUS
<1>b. op' \in [Handlers -> Calls]
  BY <1>a DEF Calls, CallInv
<1>c. \A g \in Handlers \ {h} : op'[g] = op[g]
  OBVIOUS
<1>d. rec' \in [Recs -> Records]
  <2>1. op[h].rec \in Recs
    BY DEF CallInv
  <2>2. rec \in [Recs -> Records] /\ rec' = [rec EXCEPT ![op[h].rec].state = "listed"]
    OBVIOUS
  <2>3. QED
    BY ONLY <2>1, <2>2 DEF Records
<1>e. op'[h].pc # "idle" /\ op[h].pc # "idle"
  BY <1>a DEF Calls, vcParams_Find
<1>1. TypeOK'
  <2>1. robbed' \subseteq subList'
    OBVIOUS
  <2>2. vcthread' \in Pollers \cup {NULL} /\ vcrunning' \in BOOLEAN
    OBVIOUS
  <2>3. poller' \in [Pollers -> {"none", "test", "sleep", "lock", "scan", "exit"}]
    OBVIOUS
  <2>4. QED
    BY <1>b, <1>d, <2>1, <2>2, <2>3
<1>2. LockInv'
  BY <1>c, <1>e DEF LockInv, Idle
<1>3. CallInv'
  BY DEF CallInv, LockInv, RecInv, vcParams_Find, Listed, FreeRec, Idle, Records, Calls
<1>4. PollInv'
  BY DEF PollInv, LockInv, CallInv, Listed, Alive, FreeRec, Idle, Records, Calls
<1>5. RecInv'
  BY DEF RecInv, CallInv, NoDuplicateRecords, vcParams_Find, Listed, FreeRec, Records, Calls
<1>6. SubInv'
  BY DEF SubInv, LockInv, CallInv, RecInv, Listed, vcParams_Find, FreeRec, Idle, Records,
      Calls
<1>7. WatchInv'
  BY DEF WatchInv, Serving, SubInv, LockInv, CallInv, RecInv, Listed, vcParams_Find,
      FreeRec, Idle, Records, Calls
<1>8. NewsInv'
  BY DEF NewsInv, CallInv, PollInv, Listed, FreeRec, SameNews, Records, Calls
<1>9. RobInv'
  <2>1. op[h].rec \in Recs /\ rec[op[h].rec].sub = op[h].sub
    BY DEF CallInv
  <2>2. \A q \in Listed' : rec'[q].sub = rec[q].sub /\ (q \in Listed \/ q = op[h].rec)
    BY <1>d, <2>1 DEF Listed, Records
  <2>3. \A s \in robbed' : s \in robbed /\ Key[s] # Key[op[h].sub]
    BY DEF Twins
  <2>4. QED
    BY <2>1, <2>2, <2>3 DEF RobInv
<1>10. QED
  BY <1>1, <1>2, <1>3, <1>4, <1>5, <1>6, <1>7, <1>8, <1>9 DEF IInv

\* Freeing the record and telling the thread to stop keeps IInv.
LEMMA RemoveStep ==
    ASSUME IInv, NEW h \in Handlers, Remove(h)
    PROVE  IInv'
<1> USE ConstantsOK DEF IInv, TypeOK, Remove, vars, subVars, vcVars, envVars
<1>a. op[h] \in Calls
  OBVIOUS
<1>b. op' \in [Handlers -> Calls]
  BY <1>a DEF Calls
<1>c. \A g \in Handlers \ {h} : op'[g] = op[g]
  OBVIOUS
<1>d. rec' \in [Recs -> Records]
  BY <1>a DEF Records, FreeRec, CallInv
<1>e. op'[h].pc # "idle" /\ op[h].pc # "idle"
  BY <1>a DEF Calls, vcParams_Find
<1>1. TypeOK'
  BY <1>b, <1>d DEF CallInv, Listed
<1>2. LockInv'
  BY <1>c, <1>e DEF LockInv, Idle
<1>3. CallInv'
  <2>1. /\ op'[h].pc \in {"next", "join"}
        /\ op'[h].sub = op[h].sub
        /\ op'[h].left = op[h].left
        /\ op'[h].added = op[h].added
    BY <1>a DEF Calls
  <2>2. op[h].sub \in Subs /\ op[h].left \subseteq Match[op[h].sub] /\ ~op[h].added
    BY DEF CallInv
  <2>3. \A g \in Handlers \ {h} : op'[g].pc = "idle"
    BY <1>c, <1>e DEF LockInv
  <2>4. QED
    BY ONLY <2>1, <2>2, <2>3 DEF CallInv
<1>4. PollInv'
  BY DEF PollInv, LockInv, CallInv, Listed, Alive, FreeRec, Idle, Records, Calls
<1>5. RecInv'
  BY DEF RecInv, CallInv, NoDuplicateRecords, vcParams_Find, Listed, FreeRec, Records, Calls
<1>6. SubInv'
  <2>1. /\ op'[h].sub = op[h].sub
        /\ op'[h].left = op[h].left
        /\ op'[h].added = op[h].added
    BY <1>a DEF Calls
  <2>2. Listed' = Listed \ {op[h].rec}
    BY DEF Listed, FreeRec, CallInv
  <2>3. \A r \in Listed' : rec'[r] = rec[r]
    BY <2>2 DEF Listed
  <2>4. \A g \in Handlers \ {h} : op[g].pc = "idle" /\ op'[g].pc = "idle"
    BY <1>c, <1>e DEF LockInv
  <2>5. SubInv /\ subList' = subList /\ rows' = rows
    OBVIOUS
  <2>6. QED
    BY ONLY <1>e, <2>1, <2>2, <2>3, <2>4, <2>5 DEF SubInv
<1>7. WatchInv'
  <2>1. Key[rec[op[h].rec].sub] = Key[op[h].sub] /\ ~op[h].added
    BY DEF CallInv
  <2>2. op'[h].sub = op[h].sub /\ op'[h].added = op[h].added
    BY <1>a DEF Calls
  <2>3. Serving(h, op[h].sub)'
    BY <1>e, <2>1, <2>2 DEF Serving
  <2>4. ASSUME NEW s \in subList, Key[s] = Key[op[h].sub], s # op[h].sub
        PROVE  s \in robbed'
    BY <2>4 DEF Twins
  <2>5. ASSUME NEW s \in subList, Key[s] # Key[op[h].sub], NEW r \in Listed,
               Key[rec[r].sub] = Key[s]
        PROVE  r \in Listed' /\ rec'[r].sub = rec[r].sub
    BY <2>1, <2>5 DEF Listed, FreeRec
  <2>6. ASSUME NEW s \in subList, s # op[h].sub, NEW g \in Handlers, Serving(g, s)
        PROVE  Serving(g, s)'
    BY <1>c, <2>6 DEF Serving
  <2>7. subList' = subList /\ robbed \subseteq robbed'
    OBVIOUS
  <2>8. QED
    BY <2>3, <2>4, <2>5, <2>6, <2>7 DEF WatchInv
<1>8. NewsInv'
  BY DEF NewsInv, CallInv, PollInv, Listed, FreeRec, SameNews, Records, Calls
<1>9. RobInv'
  <2>1. /\ op[h].rec \in Listed
        /\ Key[rec[op[h].rec].sub] = Key[op[h].sub]
        /\ op[h].sub \in Subs
    BY DEF CallInv
  <2>2. Listed' = Listed \ {op[h].rec} /\ \A q \in Listed' : rec'[q] = rec[q]
    BY <2>1 DEF Listed, FreeRec
  <2>3. ASSUME NEW s \in robbed' \ Wild, NEW q \in Listed', Key[rec[q].sub] = Key[s]
        PROVE  FALSE
    <3>1. CASE s \in robbed
      BY <2>2, <2>3, <3>1 DEF RobInv
    <3>2. CASE s \notin robbed
      <4>1. s \in Subs /\ Key[s] = Key[op[h].sub]
        BY <2>3, <3>2 DEF Twins
      <4>2. PICK p \in Params : Match[s] = {p}
        BY <2>3, <4>1
      <4>3. /\ q \in Listed /\ rec[q].sub \in Subs /\ rec[op[h].rec].sub \in Subs
            /\ rec[q].param \in Match[rec[q].sub]
            /\ rec[op[h].rec].param \in Match[rec[op[h].rec].sub]
        BY <2>1, <2>2 DEF RecInv, Listed
      <4>4. Match[rec[q].sub] = {p} /\ Match[rec[op[h].rec].sub] = {p}
        BY <2>1, <2>3, <4>1, <4>2, <4>3
      <4>5. q = op[h].rec
        BY <2>1, <2>3, <4>1, <4>3, <4>4 DEF RecInv, NoDuplicateRecords
      <4>6. QED
        BY <2>2, <4>5
    <3>3. QED
      BY <3>1, <3>2
  <2>4. QED
    BY <2>2, <2>3 DEF RobInv
<1>10. QED
  BY <1>1, <1>2, <1>3, <1>4, <1>5, <1>6, <1>7, <1>8, <1>9 DEF IInv

\* pthread_join by the handler that removed the last record keeps IInv.
LEMMA JoinStep ==
    ASSUME IInv, NEW h \in Handlers, Join(h)
    PROVE  IInv'
<1> USE ConstantsOK DEF IInv, TypeOK, Join, vars, subVars, vcVars, envVars
<1>a. op[h] \in Calls
  OBVIOUS
<1>b. op' \in [Handlers -> Calls]
  BY <1>a DEF Calls, CallInv
<1>c. \A g \in Handlers \ {h} : op'[g] = op[g]
  OBVIOUS
<1>e. op'[h].pc # "idle" /\ op[h].pc # "idle"
  BY <1>a DEF Calls, vcParams_Find
<1>1. TypeOK'
  BY <1>b DEF CallInv, Listed
<1>2. LockInv'
  BY <1>c, <1>e DEF LockInv, Idle
<1>3. CallInv'
  BY DEF CallInv, LockInv, RecInv, vcParams_Find, Listed, FreeRec, Idle, Records, Calls
<1>4. PollInv'
  BY DEF PollInv, LockInv, CallInv, Listed, Alive, FreeRec, Idle, Records, Calls
<1>5. RecInv'
  BY DEF RecInv, CallInv, NoDuplicateRecords, vcParams_Find, Listed, FreeRec, Records, Calls
<1>6. SubInv'
  BY DEF SubInv, LockInv, CallInv, RecInv, Listed, vcParams_Find, FreeRec, Idle, Records,
      Calls
<1>7. WatchInv'
  BY DEF WatchInv, Serving, SubInv, LockInv, CallInv, RecInv, Listed, vcParams_Find,
      FreeRec, Idle, Records, Calls
<1>8. NewsInv'
  BY DEF NewsInv, CallInv, PollInv, Listed, FreeRec, SameNews, Records, Calls
<1>9. RobInv'
  BY DEF RobInv, Listed
<1>10. QED
  BY <1>1, <1>2, <1>3, <1>4, <1>5, <1>6, <1>7, <1>8, <1>9 DEF IInv

\* Leaving SUB_LOCK at the end of a call keeps IInv.
LEMMA ReturnStep ==
    ASSUME IInv, NEW h \in Handlers, Return(h)
    PROVE  IInv'
<1> USE ConstantsOK DEF IInv, TypeOK, Return, vars, subVars, vcVars, envVars, Idle
<1>a. op[h] \in Calls
  OBVIOUS
<1>b. op' \in [Handlers -> Calls]
  BY <1>a DEF Calls, CallInv
<1>c. \A g \in Handlers \ {h} : op'[g] = op[g]
  OBVIOUS
<1>1. TypeOK'
  BY <1>b DEF CallInv, Listed
<1>2. LockInv'
  BY DEF LockInv, Idle
<1>3. CallInv'
  BY DEF CallInv, LockInv, RecInv, vcParams_Find, Listed, FreeRec, Idle, Records, Calls
<1>4. PollInv'
  BY DEF PollInv, LockInv, CallInv, Listed, Alive, FreeRec, Idle, Records, Calls
<1>5. RecInv'
  BY DEF RecInv, CallInv, NoDuplicateRecords, vcParams_Find, Listed, FreeRec, Records, Calls
<1>6. SubInv'
  BY DEF SubInv, LockInv, CallInv, RecInv, Listed, vcParams_Find, FreeRec, Idle, Records,
      Calls
<1>7. WatchInv'
  BY DEF WatchInv, Serving, SubInv, LockInv, CallInv, RecInv, Listed, vcParams_Find,
      FreeRec, Idle, Records, Calls
<1>8. NewsInv'
  BY DEF NewsInv, CallInv, PollInv, Listed, FreeRec, SameNews, Records, Calls
<1>9. RobInv'
  BY DEF RobInv, Listed
<1>10. QED
  BY <1>1, <1>2, <1>3, <1>4, <1>5, <1>6, <1>7, <1>8, <1>9 DEF IInv

\* The polling thread's loop condition keeps IInv.
LEMMA TestRunningStep ==
    ASSUME IInv, NEW t \in Pollers, TestRunning(t)
    PROVE  IInv'
<1> USE ConstantsOK DEF IInv, TypeOK, TestRunning, vars, subVars, vcVars, envVars
<1>1. TypeOK'
  BY DEF CallInv, Listed
<1>2. LockInv'
  BY DEF LockInv, Idle
<1>3. CallInv'
  BY DEF CallInv, LockInv, RecInv, vcParams_Find, Listed, FreeRec, Idle, Records, Calls
<1>4. PollInv'
  BY DEF PollInv, LockInv, CallInv, Listed, Alive, FreeRec, Idle, Records, Calls
<1>5. RecInv'
  BY DEF RecInv, CallInv, NoDuplicateRecords, vcParams_Find, Listed, FreeRec, Records, Calls
<1>6. SubInv'
  BY DEF SubInv, LockInv, CallInv, RecInv, Listed, vcParams_Find, FreeRec, Idle, Records,
      Calls
<1>7. WatchInv'
  BY DEF WatchInv, Serving, SubInv, LockInv, CallInv, RecInv, Listed, vcParams_Find,
      FreeRec, Idle, Records, Calls
<1>8. NewsInv'
  BY DEF NewsInv, CallInv, PollInv, Listed, FreeRec, SameNews, Records, Calls
<1>9. RobInv'
  BY DEF RobInv, Listed
<1>10. QED
  BY <1>1, <1>2, <1>3, <1>4, <1>5, <1>6, <1>7, <1>8, <1>9 DEF IInv

\* The polling thread's test after sleep keeps IInv.
LEMMA WakeStep ==
    ASSUME IInv, NEW t \in Pollers, Wake(t)
    PROVE  IInv'
<1> USE ConstantsOK DEF IInv, TypeOK, Wake, vars, subVars, vcVars, envVars
<1>1. TypeOK'
  BY DEF CallInv, Listed
<1>2. LockInv'
  BY DEF LockInv, Idle
<1>3. CallInv'
  BY DEF CallInv, LockInv, RecInv, vcParams_Find, Listed, FreeRec, Idle, Records, Calls
<1>4. PollInv'
  BY DEF PollInv, LockInv, CallInv, Listed, Alive, FreeRec, Idle, Records, Calls
<1>5. RecInv'
  BY DEF RecInv, CallInv, NoDuplicateRecords, vcParams_Find, Listed, FreeRec, Records, Calls
<1>6. SubInv'
  BY DEF SubInv, LockInv, CallInv, RecInv, Listed, vcParams_Find, FreeRec, Idle, Records,
      Calls
<1>7. WatchInv'
  BY DEF WatchInv, Serving, SubInv, LockInv, CallInv, RecInv, Listed, vcParams_Find,
      FreeRec, Idle, Records, Calls
<1>8. NewsInv'
  BY DEF NewsInv, CallInv, PollInv, Listed, FreeRec, SameNews, Records, Calls
<1>9. RobInv'
  BY DEF RobInv, Listed
<1>10. QED
  BY <1>1, <1>2, <1>3, <1>4, <1>5, <1>6, <1>7, <1>8, <1>9 DEF IInv

\* The polling thread's VC_LOCK keeps IInv.
LEMMA BeginScanStep ==
    ASSUME IInv, NEW t \in Pollers, BeginScan(t)
    PROVE  IInv'
<1> USE ConstantsOK DEF IInv, TypeOK, BeginScan, vars, subVars, vcVars, envVars
<1>1. TypeOK'
  BY DEF CallInv, Listed
<1>2. LockInv'
  BY DEF LockInv, Idle
<1>3. CallInv'
  BY DEF CallInv, LockInv, RecInv, vcParams_Find, Listed, FreeRec, Idle, Records, Calls
<1>4. PollInv'
  BY DEF PollInv, LockInv, CallInv, Listed, Alive, FreeRec, Idle, Records, Calls
<1>5. RecInv'
  BY DEF RecInv, CallInv, NoDuplicateRecords, vcParams_Find, Listed, FreeRec, Records, Calls
<1>6. SubInv'
  BY DEF SubInv, LockInv, CallInv, RecInv, Listed, vcParams_Find, FreeRec, Idle, Records,
      Calls
<1>7. WatchInv'
  BY DEF WatchInv, Serving, SubInv, LockInv, CallInv, RecInv, Listed, vcParams_Find,
      FreeRec, Idle, Records, Calls
<1>8. NewsInv'
  BY DEF NewsInv, CallInv, PollInv, Listed, FreeRec, SameNews, Records, Calls
<1>9. RobInv'
  BY DEF RobInv, Listed
<1>10. QED
  BY <1>1, <1>2, <1>3, <1>4, <1>5, <1>6, <1>7, <1>8, <1>9 DEF IInv

\* A failed read in the scan keeps IInv.
LEMMA ReadFailsStep ==
    ASSUME IInv, NEW t \in Pollers, NEW r \in Recs, ReadFails(t, r)
    PROVE  IInv'
<1> USE ConstantsOK DEF IInv, TypeOK, ReadFails, vars, subVars, vcVars, envVars
<1>1. TypeOK'
  BY DEF CallInv, Listed
<1>2. LockInv'
  BY DEF LockInv, Idle
<1>3. CallInv'
  BY DEF CallInv, LockInv, RecInv, vcParams_Find, Listed, FreeRec, Idle, Records, Calls
<1>4. PollInv'
  BY DEF PollInv, LockInv, CallInv, Listed, Alive, FreeRec, Idle, Records, Calls
<1>5. RecInv'
  BY DEF RecInv, CallInv, NoDuplicateRecords, vcParams_Find, Listed, FreeRec, Records, Calls
<1>6. SubInv'
  BY DEF SubInv, LockInv, CallInv, RecInv, Listed, vcParams_Find, FreeRec, Idle, Records,
      Calls
<1>7. WatchInv'
  BY DEF WatchInv, Serving, SubInv, LockInv, CallInv, RecInv, Listed, vcParams_Find,
      FreeRec, Idle, Records, Calls
<1>8. NewsInv'
  BY DEF NewsInv, CallInv, PollInv, Listed, FreeRec, SameNews, Records, Calls
<1>9. RobInv'
  BY DEF RobInv, Listed
<1>10. QED
  BY <1>1, <1>2, <1>3, <1>4, <1>5, <1>6, <1>7, <1>8, <1>9 DEF IInv

\* A read in the scan, with the event it publishes keeps IInv.
LEMMA PollStep ==
    ASSUME IInv, NEW t \in Pollers, NEW r \in Recs, Poll(t, r)
    PROVE  IInv'
<1> USE ConstantsOK DEF IInv, TypeOK, Poll, handlePublish, vars, subVars, vcVars, envVars
<1>a. rec[r] \in Records
  OBVIOUS
<1>b. rec' \in [Recs -> Records]
  <2>1. rec[r].param \in Params /\ value[rec[r].param] \in Values
    BY <1>a
  <2>2. CASE rec' = rec
    BY <2>2
  <2>3. CASE rec' = [rec EXCEPT ![r].value = value[rec[r].param]]
    BY ONLY <1>a, <2>1, <2>3, rec \in [Recs -> Records], r \in Recs DEF Records
  <2>4. QED
    BY <2>2, <2>3
<1>c. \A q \in Recs : /\ rec'[q].state = rec[q].state
                    /\ rec'[q].sub = rec[q].sub
                    /\ rec'[q].param = rec[q].param
  BY <1>a DEF Records
<1>d. Listed' = Listed /\ Listed \subseteq Recs
  BY <1>c DEF Listed
<1>1. TypeOK'
  BY <1>b DEF CallInv, Listed
<1>2. LockInv'
  BY DEF LockInv, Idle
<1>3. CallInv'
  BY <1>c, <1>d DEF CallInv, vcParams_Find
<1>4. PollInv'
  BY <1>d DEF PollInv, Alive
<1>5. RecInv'
  BY <1>c, <1>d DEF RecInv, NoDuplicateRecords
<1>6. SubInv'
  BY <1>c, <1>d DEF SubInv
<1>7. WatchInv'
  BY <1>c, <1>d DEF WatchInv, Serving
<1>8. NewsInv'
  <2>1. CASE UNCHANGED <<rec, told>>
    BY <2>1 DEF NewsInv, SameNews
  <2>2. CASE /\ rec[r].value # NULL
             /\ rec' = [rec EXCEPT ![r].value = value[rec[r].param]]
             /\ told' = IF SameNews(rec[r].sub, rec[r].value, value[rec[r].param])
                        THEN told ELSE [told EXCEPT ![r] = value[rec[r].param]]
    <3>1. rec[r].state # "free"
      BY DEF PollInv, Listed
    <3>2. rec'[r].value = value[rec[r].param]
      BY <1>a, <2>2 DEF Records
    <3>3. SameNews(rec[r].sub, told'[r], value[rec[r].param])
      BY <2>2, <3>1 DEF NewsInv, SameNews
    <3>4. \A q \in Recs \ {r} : rec'[q] = rec[q] /\ told'[q] = told[q]
      BY <2>2
    <3>5. ASSUME NEW q \in Recs, rec'[q].state # "free", rec'[q].value # NULL
          PROVE  SameNews(rec'[q].sub, told'[q], rec'[q].value)
      BY <1>c, <3>2, <3>3, <3>4, <3>5 DEF NewsInv, SameNews
    <3>6. QED
      BY <3>5 DEF NewsInv, SameNews
  <2>3. QED
    BY <2>1, <2>2
<1>9. RobInv'
  BY <1>c, <1>d DEF RobInv
<1>10. QED
  BY <1>1, <1>2, <1>3, <1>4, <1>5, <1>6, <1>7, <1>8, <1>9 DEF IInv

\* The polling thread's VC_UNLOCK keeps IInv.
LEMMA EndScanStep ==
    ASSUME IInv, NEW t \in Pollers, EndScan(t)
    PROVE  IInv'
<1> USE ConstantsOK DEF IInv, TypeOK, EndScan, vars, subVars, vcVars, envVars
<1>1. TypeOK'
  BY DEF CallInv, Listed
<1>2. LockInv'
  BY DEF LockInv, Idle
<1>3. CallInv'
  BY DEF CallInv, LockInv, RecInv, vcParams_Find, Listed, FreeRec, Idle, Records, Calls
<1>4. PollInv'
  BY DEF PollInv, LockInv, CallInv, Listed, Alive, FreeRec, Idle, Records, Calls
<1>5. RecInv'
  BY DEF RecInv, CallInv, NoDuplicateRecords, vcParams_Find, Listed, FreeRec, Records, Calls
<1>6. SubInv'
  BY DEF SubInv, LockInv, CallInv, RecInv, Listed, vcParams_Find, FreeRec, Idle, Records,
      Calls
<1>7. WatchInv'
  BY DEF WatchInv, Serving, SubInv, LockInv, CallInv, RecInv, Listed, vcParams_Find,
      FreeRec, Idle, Records, Calls
<1>8. NewsInv'
  BY DEF NewsInv, CallInv, PollInv, Listed, FreeRec, SameNews, Records, Calls
<1>9. RobInv'
  BY DEF RobInv, Listed
<1>10. QED
  BY <1>1, <1>2, <1>3, <1>4, <1>5, <1>6, <1>7, <1>8, <1>9 DEF IInv

\* A change of a parameter by the component keeps IInv.
LEMMA SetValueStep ==
    ASSUME IInv, NEW p \in Params, NEW v \in Values, SetValue(p, v)
    PROVE  IInv'
<1> USE ConstantsOK DEF IInv, TypeOK, SetValue, vars, subVars, vcVars, envVars
<1>1. TypeOK'
  BY DEF CallInv, Listed
<1>2. LockInv'
  BY DEF LockInv, Idle
<1>3. CallInv'
  BY DEF CallInv, LockInv, RecInv, vcParams_Find, Listed, FreeRec, Idle, Records, Calls
<1>4. PollInv'
  BY DEF PollInv, LockInv, CallInv, Listed, Alive, FreeRec, Idle, Records, Calls
<1>5. RecInv'
  BY DEF RecInv, CallInv, NoDuplicateRecords, vcParams_Find, Listed, FreeRec, Records, Calls
<1>6. SubInv'
  BY DEF SubInv, LockInv, CallInv, RecInv, Listed, vcParams_Find, FreeRec, Idle, Records,
      Calls
<1>7. WatchInv'
  BY DEF WatchInv, Serving, SubInv, LockInv, CallInv, RecInv, Listed, vcParams_Find,
      FreeRec, Idle, Records, Calls
<1>8. NewsInv'
  BY DEF NewsInv, CallInv, PollInv, Listed, FreeRec, SameNews, Records, Calls
<1>9. RobInv'
  BY DEF RobInv, Listed
<1>10. QED
  BY <1>1, <1>2, <1>3, <1>4, <1>5, <1>6, <1>7, <1>8, <1>9 DEF IInv

\* A new table row keeps IInv.
LEMMA AddRowStep ==
    ASSUME IInv, NEW p \in Params, AddRow(p)
    PROVE  IInv'
<1> USE ConstantsOK DEF IInv, TypeOK, AddRow, vars, subVars, vcVars, envVars
<1>1. TypeOK'
  BY DEF CallInv, Listed
<1>2. LockInv'
  BY DEF LockInv, Idle
<1>3. CallInv'
  BY DEF CallInv, LockInv, RecInv, vcParams_Find, Listed, FreeRec, Idle, Records, Calls
<1>4. PollInv'
  BY DEF PollInv, LockInv, CallInv, Listed, Alive, FreeRec, Idle, Records, Calls
<1>5. RecInv'
  BY DEF RecInv, CallInv, NoDuplicateRecords, vcParams_Find, Listed, FreeRec, Records, Calls
<1>6. SubInv'
  BY DEF SubInv, LockInv, CallInv, RecInv, Listed, vcParams_Find, FreeRec, Idle, Records,
      Calls
<1>7. WatchInv'
  BY DEF WatchInv, Serving, SubInv, LockInv, CallInv, RecInv, Listed, vcParams_Find,
      FreeRec, Idle, Records, Calls
<1>8. NewsInv'
  BY DEF NewsInv, CallInv, PollInv, Listed, FreeRec, SameNews, Records, Calls
<1>9. RobInv'
  BY DEF RobInv, Listed
<1>10. QED
  BY <1>1, <1>2, <1>3, <1>4, <1>5, <1>6, <1>7, <1>8, <1>9 DEF IInv

\* A deleted table row keeps IInv.
LEMMA DeleteRowStep ==
    ASSUME IInv, NEW p \in Params, DeleteRow(p)
    PROVE  IInv'
<1> USE ConstantsOK DEF IInv, TypeOK, DeleteRow, vars, subVars, vcVars, envVars
<1>1. TypeOK'
  BY DEF CallInv, Listed
<1>2. LockInv'
  BY DEF LockInv, Idle
<1>3. CallInv'
  BY DEF CallInv, LockInv, RecInv, vcParams_Find, Listed, FreeRec, Idle, Records, Calls
<1>4. PollInv'
  BY DEF PollInv, LockInv, CallInv, Listed, Alive, FreeRec, Idle, Records, Calls
<1>5. RecInv'
  BY DEF RecInv, CallInv, NoDuplicateRecords, vcParams_Find, Listed, FreeRec, Records, Calls
<1>6. SubInv'
  BY DEF SubInv, LockInv, CallInv, RecInv, Listed, vcParams_Find, FreeRec, Idle, Records,
      Calls
<1>7. WatchInv'
  BY DEF WatchInv, Serving, SubInv, LockInv, CallInv, RecInv, Listed, vcParams_Find,
      FreeRec, Idle, Records, Calls
<1>8. NewsInv'
  BY DEF NewsInv, CallInv, PollInv, Listed, FreeRec, SameNews, Records, Calls
<1>9. RobInv'
  BY DEF RobInv, Listed
<1>10. QED
  BY <1>1, <1>2, <1>3, <1>4, <1>5, <1>6, <1>7, <1>8, <1>9 DEF IInv

----------------------------------------------------------------------------
\* The initial state, before any subscription, satisfies IInv.
LEMMA InitIInv == Init => IInv
<1> SUFFICES ASSUME Init PROVE IInv
  OBVIOUS
<1> USE ConstantsOK DEF Init, FreeRec, Idle, Listed
<1>1. TypeOK
  BY DEF TypeOK, Records, Calls
<1>2. LockInv /\ CallInv
  BY DEF LockInv, CallInv
<1>3. PollInv /\ RecInv
  BY DEF PollInv, RecInv, NoDuplicateRecords
<1>4. SubInv /\ WatchInv /\ RobInv /\ NewsInv
  BY DEF SubInv, WatchInv, RobInv, NewsInv
<1>5. QED
  BY <1>1, <1>2, <1>3, <1>4 DEF IInv

\* Every step of a handler, the polling thread or the component keeps IInv.
LEMMA NextIInv == IInv /\ [Next]_vars => IInv'
<1> SUFFICES ASSUME IInv, [Next]_vars PROVE IInv'
  OBVIOUS
<1>1. ASSUME NEW h \in Handlers, NEW s \in Subs, EnterSubscribe(h, s) \/ EnterUnsubscribe(h, s)
      PROVE  IInv'
  BY <1>1, EnterSubscribeStep, EnterUnsubscribeStep
<1>2. ASSUME NEW h \in Handlers, Handle(h)
      PROVE  IInv'
  BY <1>2, FindStep, CreateStep, InsertStep, RemoveStep, JoinStep, ReturnStep DEF Handle
<1>3. ASSUME NEW t \in Pollers, PollerStep(t)
      PROVE  IInv'
  BY <1>3, TestRunningStep, WakeStep, BeginScanStep, ReadFailsStep, PollStep, EndScanStep
     DEF PollerStep
<1>4. CASE Environment
  BY <1>4, SetValueStep, AddRowStep, DeleteRowStep DEF Environment
<1>5. CASE UNCHANGED vars
  BY <1>5 DEF vars, subVars, vcVars, envVars, IInv, TypeOK, LockInv, CallInv, PollInv,
      RecInv,
       SubInv, WatchInv, RobInv, NewsInv, NoDuplicateRecords, Serving, SameNews, Alive, Listed,
       vcParams_Find, Records, Calls
<1>6. QED
  BY <1>1, <1>2, <1>3, <1>4, <1>5 DEF Next

\* IInv is an invariant of ValueChange.
THEOREM Inductive == Spec => []IInv
  BY InitIInv, NextIInv, PTL DEF Spec

\* The state of the value-change detector and of the calls stays well typed.
THEOREM TypeCorrect == Spec => []TypeOK
<1>1. IInv => TypeOK
  BY DEF IInv
<1>2. QED
  BY <1>1, Inductive, PTL

\* At most one polling thread runs, however subscribes, unsubscribes and the
\* thread's own steps interleave.
THEOREM OnePollingThread == Spec => []SinglePoller
<1>1. IInv => SinglePoller
  BY DEF IInv, PollInv, SinglePoller, Alive
<1>2. QED
  BY <1>1, Inductive, PTL

\* Between calls the polling thread runs exactly while there are records, and
\* a stopped one has been joined.
THEOREM PollingFollowsRecords == Spec => []PollsWhileRecords
<1>1. IInv => PollsWhileRecords
  <2> SUFFICES ASSUME IInv, subrecord_mutex = NULL
               PROVE  /\ (\E t \in Pollers : Alive(t)) <=> Listed # {}
                      /\ \A t \in Pollers : poller[t] # "exit"
    BY DEF PollsWhileRecords
  <2>1. \A h \in Handlers : op[h].pc # "join"
    BY ConstantsOK DEF IInv, LockInv
  <2>2. CASE vcrunning
    BY <2>2 DEF IInv, PollInv, Alive
  <2>3. CASE ~vcrunning
    BY <2>1, <2>3 DEF IInv, PollInv, Alive
  <2>4. QED
    BY <2>2, <2>3
<1>2. QED
  BY <1>1, Inductive, PTL

\* vcparams never holds two records of one subscription and parameter.
THEOREM RecordsUnique == Spec => []NoDuplicateRecords
<1>1. IInv => NoDuplicateRecords
  BY DEF IInv, RecInv
<1>2. QED
  BY <1>1, Inductive, PTL

\* Neither a handler nor the scan ever uses a freed record.
THEOREM NoUseAfterFree == Spec => []NoDanglingRecord
<1>1. IInv => NoDanglingRecord
  BY DEF IInv, CallInv, PollInv, NoDanglingRecord
<1>2. QED
  BY <1>1, Inductive, PTL

\* A record without a subscription in subList, its own or a twin, is on a row
\* that can be deleted, and between calls a plain subscription has no record
\* exactly if the unsubscribe of a twin took it.
THEOREM RecordsMatchSubscriptions == Spec => []RecordsMatchSubs
<1>1. IInv => \A r \in Listed : \/ \E s \in subList : Key[s] = Key[rec[r].sub]
                                \/ rec[r].param \in Dynamic
  BY DEF IInv, SubInv
<1>2. IInv => (subrecord_mutex = NULL =>
                 \A s \in subList \ Wild :
                     s \notin robbed => \E r \in Listed : Key[rec[r].sub] = Key[s])
  BY ConstantsOK DEF IInv, LockInv, WatchInv, Serving
<1>3. IInv => \A s \in robbed \ Wild, r \in Listed : Key[rec[r].sub] # Key[s]
  BY DEF IInv, RobInv
<1>4. IInv => RecordsMatchSubs
  BY <1>1, <1>2, <1>3 DEF RecordsMatchSubs
<1>5. QED
  BY <1>4, Inductive, PTL

\* The recorded value is the news the listener was told last: no change between
\* two polls is skipped and none is published twice.
THEOREM NewsInStep == Spec => []ListenerInStep
<1>1. IInv => ListenerInStep
  BY DEF IInv, NewsInv, ListenerInStep, Listed
<1>2. QED
  BY <1>1, Inductive, PTL
============================================================================
