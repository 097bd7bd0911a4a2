---------------------- MODULE SubscriptionCacheProofs ----------------------
(***************************************************************************)
(* Proofs about SubscriptionCache, for any number of listeners and         *)
(* subscriptions, crashes and restarts.                                    *)
(*                                                                         *)
(* The invariants speak of quiet states.  IInv says what holds on the way  *)
(* there: who is saving and what the file is then, where a subscription    *)
(* that was promised is kept while the table is rebuilt, and which         *)
(* registrations are still the first of their process.                     *)
(***************************************************************************)
EXTENDS SubscriptionCache, TLAPS

\* The file of a table that has been saved.
Saved(S) == IF S = {} THEN Absent ELSE Full(S)

\* Somebody has truncated the file and not written it yet.
Saving == lock = "handler" \/ main \in {"rewrite", "exit"} \/ request.kind = "replay"

\* Nothing was saved since the process started, and what the file holds is
\* still to be loaded, dropped or replayed.
Untouched ==
    /\ subList = {}
    /\ \/ main \in {"off", "failed", "resave"}
       \/ main \in {"register", "replay"} /\ loaded /\ subCacheList # {}

\* Requests are served inside SUB_LOCK, and the process starts from nothing.
LockInv ==
    /\ lock = "free" => request = NoRequest
    /\ lock = "handler" => request.kind \in {"subscribe", "unsubscribe"}
    /\ lock = "main" => main \in {"replay", "exit"} /\ request.kind \in {"none", "replay"}
    /\ request.kind = "replay" => main = "replay" /\ subList # {}
    /\ request.kind = "subscribe" => request.subs \subseteq subList
    /\ main = "exit" => lock = "main" /\ request = NoRequest
    /\ main = "off" => subList = {} /\ lock = "free" /\ ~reloaded

\* Loaded entries exist only between a load and the end of its replay.
CacheInv ==
    /\ main \in {"off", "announce", "up", "failed", "exit"} => subCacheList = {}
    /\ ~loaded => subCacheList = {}

\* Publishers of plain value-change subscriptions follow the table at every
\* step, up to the ones an unsubscribe took from a twin, and neither the
\* table, the loaded entries nor the file bring back what a listener gave up.
Plain == Subs \ (Interval \cup Wild)

ServedInv ==
    /\ \A s \in Plain : Key[s] \in serving => \E t \in subList : Key[t] = Key[s]
    /\ \A s \in subList \cap Plain : s \in robbed \/ Key[s] \in serving
    /\ \A s \in robbed \cap Plain : Key[s] \notin serving
    /\ LiveSubs(subList) \ (Interval \cup early) \subseteq asked
    /\ LiveSubs(subCacheList) \ (Interval \cup early) \subseteq asked
    /\ LiveSubs(file.subs) \ (Interval \cup early) \subseteq asked

\* The file holds no entry that is not in the table, unless it is untouched,
\* and a save of an empty table has removed it.
TableInv ==
    /\ file.subs \subseteq subList \/ Untouched
    /\ Saving /\ subList = {} => file = Absent

\* In the first registration of a process nobody else uses the file while it
\* is loaded, and every save ends with the table in it.
FirstInv ==
    ~reloaded =>
        /\ ~kept
        /\ main \in {"off", "resave", "rewrite", "failed"} => ~reachable
        /\ main \in {"off", "resave", "rewrite"} => lock = "free"
        /\ Saving => file = SaveOpen(subList)
        /\ ~Saving => file = Saved(subList) \/ Untouched

\* A promised subscription is in the file while no process runs, and in the
\* table or among the loaded entries while one does.
PromiseInv ==
    /\ \A s \in wanted : Listener[s] \in running
    /\ reloaded => exposed
    /\ ~exposed =>
          /\ main = "off" => wanted \subseteq file.subs
          /\ main # "off" => wanted \subseteq subList \cup subCacheList
          /\ main = "failed" /\ lock = "free" => file = Saved(subList)

IInv ==
    TypeOK /\ LockInv /\ CacheInv /\ ServedInv /\ TableInv /\ FirstInv /\ PromiseInv

-----------------------------------------------------------------------------
\* What a file may be, and the files the two halves of a save leave.
LEMMA FileKinds ==
  ASSUME NEW S \in SUBSET Subs
  PROVE  /\ Absent \in Files /\ Torn \in Files
         /\ S # {} => Full(S) \in Files
         /\ SaveOpen(S) \in Files /\ SaveOpen(S).subs = {}
         /\ file \in Files /\ (file.state # "absent" => S # {}) => SaveWrite(S) \in Files
<1>1. Absent \in Files /\ Torn \in Files
  BY DEF Files
<1>2. ASSUME S # {} PROVE Full(S) \in Files
  BY <1>2 DEF Files
<1>3. Absent.subs = {} /\ Torn.subs = {}
  BY DEF Absent, Torn
<1>4. QED
  BY <1>1, <1>2, <1>3 DEF SaveOpen, SaveWrite

LEMMA FileShape ==
  ASSUME file \in Files
  PROVE  /\ file.subs \subseteq Subs
         /\ file.state \in {"absent", "torn", "full"}
         /\ file.state = "absent" <=> file = Absent
         /\ file.state = "torn" <=> file = Torn
         /\ file.state = "full" => file = Full(file.subs) /\ file.subs # {}
         /\ file.state # "full" => file.subs = {}
<1>1. CASE file = Absent
  BY <1>1 DEF Absent, Torn
<1>2. CASE file = Torn
  BY <1>2 DEF Absent, Torn
<1>3. ASSUME NEW S \in (SUBSET Subs) \ {{}}, file = Full(S)
      PROVE  /\ file.state = "full" /\ file.subs = S
             /\ file # Absent /\ file # Torn
  BY <1>3 DEF Absent, Torn, Full
<1>4. QED
  BY <1>1, <1>2, <1>3 DEF Files

LEMMA InitIInv == Init => IInv
<1> SUFFICES ASSUME Init PROVE IInv
  OBVIOUS
<1> USE ConstantsOK DEF Init, NoRequest
<1>1. TypeOK
  BY FileKinds DEF TypeOK
<1>2. LockInv
  BY DEF LockInv
<1>3. CacheInv
  BY DEF CacheInv
<1>4. ServedInv
  BY DEF TypeOK, ServedInv, Plain, LiveSubs, Absent
<1>5. TableInv
  BY DEF TableInv, Saving, Absent
<1>6. FirstInv
  BY DEF FirstInv, Saving, Saved
<1>7. PromiseInv
  BY DEF PromiseInv, Saved
<1>8. QED
  BY <1>1, <1>2, <1>3, <1>4, <1>5, <1>6, <1>7 DEF IInv

LEMMA SubscribeStep ==
  ASSUME IInv, NEW s \in Subs, Subscribe(s)
  PROVE  IInv'
<1> USE ConstantsOK DEF IInv, Subscribe, Started, Twins, NoRequest
<1>1. TypeOK'
  BY FileKinds DEF TypeOK
<1>2. LockInv'
  BY DEF TypeOK, LockInv, FirstInv
<1>3. CacheInv'
  BY DEF TypeOK, LockInv, CacheInv
<1>4. ServedInv'
  BY DEF TypeOK, ServedInv, Plain, LiveSubs, SaveOpen, Torn
<1>5. TableInv'
  BY DEF TableInv, SaveOpen, Torn
<1>6. FirstInv'
  BY DEF FirstInv, Saving
<1>7. PromiseInv'
  BY DEF FirstInv, PromiseInv
<1>8. QED
  BY <1>1, <1>2, <1>3, <1>4, <1>5, <1>6, <1>7

LEMMA UnsubscribeStep ==
  ASSUME IInv, NEW s \in Subs, Unsubscribe(s)
  PROVE  IInv'
<1> USE ConstantsOK DEF IInv, Unsubscribe, Stopped, Twins, NoRequest
<1>1. TypeOK'
  BY FileKinds DEF TypeOK
<1>2. LockInv'
  BY DEF TypeOK, LockInv, FirstInv
<1>3. CacheInv'
  BY DEF TypeOK, LockInv, CacheInv
<1>4. ServedInv'
  BY DEF TypeOK, ServedInv, Plain, LiveSubs, SaveOpen, Absent, Torn
<1>5. TableInv'
  BY DEF TableInv, SaveOpen, Absent, Torn
<1>6. FirstInv'
  BY DEF FirstInv, Saving
<1>7. PromiseInv'
  BY DEF LockInv, PromiseInv
<1>8. QED
  BY <1>1, <1>2, <1>3, <1>4, <1>5, <1>6, <1>7

LEMMA UnsubscribeUnknownStep ==
  ASSUME IInv, NEW s \in Subs, UnsubscribeUnknown(s)
  PROVE  IInv'
<1> USE ConstantsOK DEF IInv, UnsubscribeUnknown, procVars, NoRequest
<1>1. TypeOK'
  BY DEF TypeOK
<1>2. LockInv'
  BY DEF TypeOK, LockInv, FirstInv
<1>3. CacheInv'
  BY DEF TypeOK, LockInv, CacheInv
<1>4. ServedInv'
  BY DEF TypeOK, CacheInv, ServedInv, Plain, TableInv, Untouched, LiveSubs
<1>5. TableInv'
  BY DEF TableInv, Untouched, Saving
<1>6. FirstInv'
  BY DEF FirstInv, Untouched, Saving
<1>7. PromiseInv'
  BY DEF PromiseInv
<1>8. QED
  BY <1>1, <1>2, <1>3, <1>4, <1>5, <1>6, <1>7

LEMMA DurationCompleteStep ==
  ASSUME IInv, NEW s \in Subs, DurationComplete(s)
  PROVE  IInv'
<1> USE ConstantsOK DEF IInv, DurationComplete, NoRequest
<1>1. TypeOK'
  BY DEF TypeOK
<1>2. LockInv'
  BY DEF TypeOK, LockInv, FirstInv
<1>3. CacheInv'
  BY DEF TypeOK, LockInv, CacheInv
<1>4. ServedInv'
  BY DEF TypeOK, ServedInv, Plain, LiveSubs
<1>5. TableInv'
  BY DEF TableInv, Untouched, Saving
<1>6. FirstInv'
  BY DEF FirstInv, Untouched, Saving
<1>7. PromiseInv'
  BY DEF PromiseInv
<1>8. QED
  BY <1>1, <1>2, <1>3, <1>4, <1>5, <1>6, <1>7

LEMMA ReplayStep ==
  ASSUME IInv, NEW s \in Subs, Replay(s)
  PROVE  IInv'
<1> USE ConstantsOK DEF IInv, Replay, Started, Twins, histVars, NoRequest
<1>1. TypeOK'
  BY FileKinds DEF TypeOK
<1>2. LockInv'
  BY DEF TypeOK, LockInv, FirstInv
<1>3. CacheInv'
  BY DEF TypeOK, LockInv, CacheInv
<1>4. ServedInv'
  BY DEF TypeOK, ServedInv, Plain, LiveSubs, SaveOpen, Torn
<1>5. TableInv'
  BY DEF TableInv, Untouched, SaveOpen, Torn
<1>6. FirstInv'
  BY DEF FirstInv, Untouched, Saving, SaveOpen
<1>7. PromiseInv'
  BY DEF PromiseInv
<1>8. QED
  BY <1>1, <1>2, <1>3, <1>4, <1>5, <1>6, <1>7

LEMMA FinishStep ==
  ASSUME IInv, Finish
  PROVE  IInv'
<1> USE ConstantsOK DEF IInv, Finish, NoRequest
<1>1. TypeOK'
  <2>1. file' \in Files
    BY FileKinds, FileShape DEF TypeOK, TableInv, Saving
  <2>2. QED
    BY <2>1 DEF TypeOK, LiveSubs
<1>2. LockInv'
  BY DEF TypeOK, LockInv, FirstInv
<1>3. CacheInv'
  BY DEF TypeOK, LockInv, CacheInv
<1>4. ServedInv'
  BY DEF TypeOK, ServedInv, Plain, LiveSubs, SaveWrite, Full
<1>5. TableInv'
  BY FileShape DEF TypeOK, TableInv, Saving, SaveWrite, Full
<1>6. FirstInv'
  BY FileShape DEF TypeOK, LockInv, FirstInv, Saving, Saved, SaveOpen, SaveWrite
<1>7. PromiseInv'
  BY FileShape DEF TypeOK, LockInv, FirstInv, PromiseInv, Saving, Saved, LiveSubs,
      SaveOpen, SaveWrite
<1>8. QED
  BY <1>1, <1>2, <1>3, <1>4, <1>5, <1>6, <1>7

LEMMA LoadCacheStep ==
  ASSUME IInv, LoadCache
  PROVE  IInv'
<1> USE ConstantsOK DEF IInv, LoadCache, NoRequest
<1>1. TypeOK'
  <2>1. file' \in Files
    BY FileKinds DEF TypeOK
  <2>2. subCacheList' \subseteq Subs
    BY FileShape DEF TypeOK, LiveSubs
  <2>3. loaded' \in BOOLEAN /\ main' \in {"register", "resave"}
    BY DEF TypeOK
  <2>4. QED
    BY <2>1, <2>2, <2>3 DEF TypeOK
<1>2. LockInv'
  BY DEF TypeOK, LockInv, FirstInv
<1>3. CacheInv'
  BY DEF TypeOK, LockInv, CacheInv
<1>4. ServedInv'
  BY DEF TypeOK, ServedInv, Plain, LiveSubs, Absent
<1>5. TableInv'
  BY DEF TableInv, Untouched, Saving, Absent
<1>6. FirstInv'
  <2> SUFFICES ASSUME ~reloaded' PROVE FirstInv'
    BY DEF FirstInv
  <2>1. ~reloaded /\ ~kept /\ ~reachable /\ lock = "free" /\ main \in {"off", "failed"}
    BY DEF TypeOK, FirstInv
  <2>2. ~Saving /\ ~Saving'
    BY <2>1 DEF Saving, LockInv
  <2>3. file = Saved(subList) \/ subList = {}
    BY <2>1, <2>2 DEF FirstInv, Untouched
  <2>4. CASE file.state = "full"
    BY <2>1, <2>2, <2>3, <2>4, FileShape DEF TypeOK, FirstInv, Untouched
  <2>5. CASE file.state # "full"
    <3>1. subList = {}
      BY <2>3, <2>5 DEF Saved, Full
    <3>2. QED
      BY <2>1, <2>2, <2>5, <3>1 DEF FirstInv, Saved
  <2>6. QED
    BY <2>4, <2>5
<1>7. PromiseInv'
  BY FileShape DEF TypeOK, CacheInv, PromiseInv, LiveSubs
<1>8. QED
  BY <1>1, <1>2, <1>3, <1>4, <1>5, <1>6, <1>7

LEMMA ResaveStep ==
  ASSUME IInv, Resave
  PROVE  IInv'
<1> USE ConstantsOK DEF IInv, Resave, histVars, NoRequest
<1>1. TypeOK'
  <2>1. file' \in Files
    BY FileKinds, FileShape DEF TypeOK, TableInv, Saving
  <2>2. QED
    BY <2>1 DEF TypeOK
<1>2. LockInv'
  BY DEF TypeOK, LockInv, FirstInv
<1>3. CacheInv'
  BY DEF TypeOK, LockInv, CacheInv
<1>4. ServedInv'
  BY DEF TypeOK, ServedInv, Plain, LiveSubs, SaveOpen, SaveWrite, Absent, Torn, Full
<1>5. TableInv'
  BY FileShape DEF TypeOK, TableInv, Saving, SaveOpen, SaveWrite, Absent, Torn,
      Full
<1>6. FirstInv'
  BY FileShape DEF TypeOK, LockInv, FirstInv, Saving, Saved, SaveOpen, SaveWrite
<1>7. PromiseInv'
  BY DEF PromiseInv
<1>8. QED
  BY <1>1, <1>2, <1>3, <1>4, <1>5, <1>6, <1>7

LEMMA RegisterElementStep ==
  ASSUME IInv, RegisterElement
  PROVE  IInv'
<1> USE ConstantsOK DEF IInv, RegisterElement, histVars, NoRequest
<1>1. TypeOK'
  BY DEF TypeOK
<1>2. LockInv'
  BY DEF TypeOK, LockInv, FirstInv
<1>3. CacheInv'
  BY DEF TypeOK, LockInv, CacheInv
<1>4. ServedInv'
  BY DEF TypeOK, ServedInv, Plain, LiveSubs
<1>5. TableInv'
  BY DEF TableInv, Untouched, Saving
<1>6. FirstInv'
  BY DEF FirstInv, Untouched, Saving
<1>7. PromiseInv'
  BY DEF PromiseInv
<1>8. QED
  BY <1>1, <1>2, <1>3, <1>4, <1>5, <1>6, <1>7

LEMMA RegisterDoneStep ==
  ASSUME IInv, RegisterDone
  PROVE  IInv'
<1> USE ConstantsOK DEF IInv, RegisterDone, histVars, NoRequest
<1>1. TypeOK'
  BY DEF TypeOK
<1>2. LockInv'
  BY DEF TypeOK, LockInv, FirstInv
<1>3. CacheInv'
  BY DEF TypeOK, LockInv, CacheInv
<1>4. ServedInv'
  BY DEF TypeOK, ServedInv, Plain, LiveSubs
<1>5. TableInv'
  BY DEF TableInv, Untouched, Saving
<1>6. FirstInv'
  BY DEF FirstInv, Untouched, Saving
<1>7. PromiseInv'
  BY DEF PromiseInv
<1>8. QED
  BY <1>1, <1>2, <1>3, <1>4, <1>5, <1>6, <1>7

LEMMA RegisterFailsStep ==
  ASSUME IInv, RegisterFails
  PROVE  IInv'
<1> USE ConstantsOK DEF IInv, RegisterFails, NoRequest
<1>1. TypeOK'
  BY DEF TypeOK
<1>2. LockInv'
  BY DEF TypeOK, LockInv, FirstInv
<1>3. CacheInv'
  BY DEF TypeOK, LockInv, CacheInv
<1>4. ServedInv'
  BY DEF TypeOK, ServedInv, Plain, LiveSubs
<1>5. TableInv'
  BY DEF TableInv, Untouched, Saving
<1>6. FirstInv'
  BY DEF FirstInv, Untouched, Saving
<1>7. PromiseInv'
  BY DEF LockInv, FirstInv, PromiseInv, Untouched, Saving
<1>8. QED
  BY <1>1, <1>2, <1>3, <1>4, <1>5, <1>6, <1>7

LEMMA ReplayBeginStep ==
  ASSUME IInv, ReplayBegin
  PROVE  IInv'
<1> USE ConstantsOK DEF IInv, ReplayBegin, histVars, NoRequest
<1>1. TypeOK'
  BY DEF TypeOK
<1>2. LockInv'
  BY DEF TypeOK, LockInv, FirstInv
<1>3. CacheInv'
  BY DEF TypeOK, LockInv, CacheInv
<1>4. ServedInv'
  BY DEF TypeOK, ServedInv, Plain, LiveSubs
<1>5. TableInv'
  BY DEF TableInv, Untouched, Saving
<1>6. FirstInv'
  BY DEF FirstInv, Untouched, Saving
<1>7. PromiseInv'
  BY DEF PromiseInv
<1>8. QED
  BY <1>1, <1>2, <1>3, <1>4, <1>5, <1>6, <1>7

LEMMA ReplaySavedStep ==
  ASSUME IInv, ReplaySaved
  PROVE  IInv'
<1> USE ConstantsOK DEF IInv, ReplaySaved, histVars, NoRequest
<1>1. TypeOK'
  BY FileKinds DEF TypeOK, LockInv
<1>2. LockInv'
  BY DEF TypeOK, LockInv, FirstInv
<1>3. CacheInv'
  BY DEF TypeOK, LockInv, CacheInv
<1>4. ServedInv'
  BY DEF TypeOK, ServedInv, Plain, LiveSubs, SaveWrite, Full
<1>5. TableInv'
  BY FileShape DEF TypeOK, LockInv, TableInv, SaveWrite, Full
<1>6. FirstInv'
  BY FileShape DEF TypeOK, LockInv, FirstInv, Saving, Saved, SaveOpen, SaveWrite
<1>7. PromiseInv'
  BY DEF PromiseInv
<1>8. QED
  BY <1>1, <1>2, <1>3, <1>4, <1>5, <1>6, <1>7

LEMMA ReplayEndStep ==
  ASSUME IInv, ReplayEnd
  PROVE  IInv'
<1> USE ConstantsOK DEF IInv, ReplayEnd, histVars, NoRequest
<1>1. TypeOK'
  BY DEF TypeOK
<1>2. LockInv'
  BY DEF TypeOK, LockInv, FirstInv
<1>3. CacheInv'
  BY DEF TypeOK, LockInv, CacheInv
<1>4. ServedInv'
  BY DEF TypeOK, ServedInv, Plain, LiveSubs
<1>5. TableInv'
  BY DEF TableInv, Untouched, Saving
<1>6. FirstInv'
  BY DEF FirstInv, Untouched, Saving
<1>7. PromiseInv'
  BY DEF PromiseInv
<1>8. QED
  BY <1>1, <1>2, <1>3, <1>4, <1>5, <1>6, <1>7

LEMMA AnnounceStep ==
  ASSUME IInv, Announce
  PROVE  IInv'
<1> USE ConstantsOK DEF IInv, Announce, histVars, NoRequest
<1>1. TypeOK'
  BY DEF TypeOK
<1>2. LockInv'
  BY DEF TypeOK, LockInv, FirstInv
<1>3. CacheInv'
  BY DEF TypeOK, LockInv, CacheInv
<1>4. ServedInv'
  BY DEF TypeOK, ServedInv, Plain, LiveSubs
<1>5. TableInv'
  BY DEF TableInv, Untouched, Saving
<1>6. FirstInv'
  BY DEF FirstInv, Untouched, Saving
<1>7. PromiseInv'
  BY DEF LockInv, FirstInv, PromiseInv, Untouched, Saving
<1>8. QED
  BY <1>1, <1>2, <1>3, <1>4, <1>5, <1>6, <1>7

LEMMA ExitStep ==
  ASSUME IInv, Exit
  PROVE  IInv'
<1> USE ConstantsOK DEF IInv, Exit, histVars, NoRequest
<1>1. TypeOK'
  BY FileKinds DEF TypeOK
<1>2. LockInv'
  BY DEF TypeOK, LockInv, FirstInv
<1>3. CacheInv'
  BY DEF TypeOK, LockInv, CacheInv
<1>4. ServedInv'
  BY DEF TypeOK, ServedInv, Plain, LiveSubs, SaveOpen, Absent, Torn
<1>5. TableInv'
  BY DEF TableInv, SaveOpen, Absent, Torn
<1>6. FirstInv'
  BY DEF FirstInv, Saving
<1>7. PromiseInv'
  BY DEF PromiseInv
<1>8. QED
  BY <1>1, <1>2, <1>3, <1>4, <1>5, <1>6, <1>7

LEMMA ExitDoneStep ==
  ASSUME IInv, ExitDone
  PROVE  IInv'
<1> USE ConstantsOK DEF IInv, ExitDone, ProcessGone, NoRequest
<1>1. TypeOK'
  <2>1. file' \in Files
    BY FileKinds, FileShape DEF TypeOK, TableInv, Saving
  <2>2. QED
    BY <2>1 DEF TypeOK
<1>2. LockInv'
  BY DEF TypeOK, LockInv, FirstInv
<1>3. CacheInv'
  BY DEF TypeOK, LockInv, CacheInv
<1>4. ServedInv'
  BY DEF TypeOK, ServedInv, Plain, LiveSubs, SaveWrite, Full
<1>5. TableInv'
  BY DEF TableInv, Untouched, Saving
<1>6. FirstInv'
  BY DEF FirstInv, Untouched, Saving
<1>7. PromiseInv'
  BY FileShape DEF TypeOK, CacheInv, FirstInv, PromiseInv, Saving, SaveOpen,
      SaveWrite, Full
<1>8. QED
  BY <1>1, <1>2, <1>3, <1>4, <1>5, <1>6, <1>7

LEMMA CrashStep ==
  ASSUME IInv, Crash
  PROVE  IInv'
<1> USE ConstantsOK DEF IInv, Crash, ProcessGone, NoRequest
<1>1. TypeOK'
  BY DEF TypeOK
<1>2. LockInv'
  BY DEF TypeOK, LockInv, FirstInv
<1>3. CacheInv'
  BY DEF TypeOK, LockInv, CacheInv
<1>4. ServedInv'
  BY DEF TypeOK, ServedInv, Plain, LiveSubs
<1>5. TableInv'
  BY DEF TableInv, Untouched, Saving
<1>6. FirstInv'
  BY DEF FirstInv, Untouched, Saving
<1>7. PromiseInv'
  <2>1. ASSUME ~exposed' PROVE wanted \subseteq file.subs
    <3>1. ~exposed /\ lock = "free" /\ main \in {"up", "failed"} /\ ~reloaded
      BY <2>1 DEF TypeOK, PromiseInv
    <3>2. file = Saved(subList)
      BY <3>1 DEF LockInv, FirstInv, PromiseInv, Saving, Untouched
    <3>3. file.subs = subList
      BY <3>2 DEF Saved, Absent, Full
    <3>4. QED
      BY <3>1, <3>3 DEF PromiseInv, CacheInv
  <2>2. QED
    BY <2>1 DEF PromiseInv
<1>8. QED
  BY <1>1, <1>2, <1>3, <1>4, <1>5, <1>6, <1>7

LEMMA ListenerGoneStep ==
  ASSUME IInv, NEW l \in Listeners, ListenerGone(l)
  PROVE  IInv'
<1> USE ConstantsOK DEF IInv, ListenerGone, procVars, NoRequest
<1>1. TypeOK'
  BY DEF TypeOK
<1>2. LockInv'
  BY DEF TypeOK, LockInv, FirstInv
<1>3. CacheInv'
  BY DEF TypeOK, LockInv, CacheInv
<1>4. ServedInv'
  BY DEF TypeOK, ServedInv, Plain, LiveSubs
<1>5. TableInv'
  BY DEF TableInv, Untouched, Saving
<1>6. FirstInv'
  BY DEF FirstInv, Untouched, Saving
<1>7. PromiseInv'
  BY DEF PromiseInv
<1>8. QED
  BY <1>1, <1>2, <1>3, <1>4, <1>5, <1>6, <1>7

LEMMA Inductive == Spec => []IInv
<1>1. ASSUME IInv, [Next]_vars PROVE IInv'
  <2>1. CASE UNCHANGED vars
    BY <1>1, <2>1 DEF IInv, vars, procVars, histVars, TypeOK, LockInv, CacheInv,
        ServedInv, Plain, TableInv, FirstInv, PromiseInv, Untouched, Saving, LiveSubs
  <2>2. ASSUME NEW s \in Subs, Subscribe(s) PROVE IInv'
    BY <1>1, <2>2, SubscribeStep
  <2>3. ASSUME NEW s \in Subs, Unsubscribe(s) PROVE IInv'
    BY <1>1, <2>3, UnsubscribeStep
  <2>4. ASSUME NEW s \in Subs, UnsubscribeUnknown(s) PROVE IInv'
    BY <1>1, <2>4, UnsubscribeUnknownStep
  <2>5. ASSUME NEW s \in Subs, DurationComplete(s) PROVE IInv'
    BY <1>1, <2>5, DurationCompleteStep
  <2>6. ASSUME NEW s \in Subs, Replay(s) PROVE IInv'
    BY <1>1, <2>6, ReplayStep
  <2>7. ASSUME NEW l \in Listeners, ListenerGone(l) PROVE IInv'
    BY <1>1, <2>7, ListenerGoneStep
  <2>8. CASE Finish
    BY <1>1, <2>8, FinishStep
  <2>9. CASE LoadCache
    BY <1>1, <2>9, LoadCacheStep
  <2>10. CASE Resave
    BY <1>1, <2>10, ResaveStep
  <2>11. CASE RegisterElement
    BY <1>1, <2>11, RegisterElementStep
  <2>12. CASE RegisterDone
    BY <1>1, <2>12, RegisterDoneStep
  <2>13. CASE RegisterFails
    BY <1>1, <2>13, RegisterFailsStep
  <2>14. CASE ReplayBegin
    BY <1>1, <2>14, ReplayBeginStep
  <2>15. CASE ReplaySaved
    BY <1>1, <2>15, ReplaySavedStep
  <2>16. CASE ReplayEnd
    BY <1>1, <2>16, ReplayEndStep
  <2>17. CASE Announce
    BY <1>1, <2>17, AnnounceStep
  <2>18. CASE Exit
    BY <1>1, <2>18, ExitStep
  <2>19. CASE ExitDone
    BY <1>1, <2>19, ExitDoneStep
  <2>20. CASE Crash
    BY <1>1, <2>20, CrashStep
  <2>21. QED
    BY <1>1, <2>1, <2>2, <2>3, <2>4, <2>5, <2>6, <2>7, <2>8, <2>9, <2>10, <2>11,
        <2>12, <2>13, <2>14, <2>15, <2>16, <2>17, <2>18, <2>19, <2>20 DEF Next
<1>2. QED
  BY <1>1, InitIInv, PTL DEF Spec

\* Type correctness: every file the saves and loads leave is one of the three
\* kinds, whatever crash, refused element or dead listener came between.
THEOREM TypeCorrect == Spec => []TypeOK
<1>1. IInv => TypeOK
  BY DEF IInv
<1>2. QED
  BY <1>1, Inductive, PTL

\* saveCache is two steps and loadCache takes no lock, yet in every quiet
\* state of a process that has registered once, the file holds the table.
THEOREM FileKept == Spec => []FileMatchesTable
<1>1. IInv => FileMatchesTable
  BY DEF IInv, LockInv, FirstInv, Quiet, Saving, Saved, Untouched,
      FileMatchesTable
<1>2. QED
  BY <1>1, Inductive, PTL

\* What a listener was promised survives restarts: it is written before the
\* answer is sent, loaded and replayed before the component is up again.
THEOREM RestartKeepsPromises == Spec => []PromisesKept
<1>1. IInv => PromisesKept
  BY DEF IInv, PromiseInv, CacheInv, Quiet, PromisesKept
<1>2. QED
  BY <1>1, Inductive, PTL

\* Publishers and table change together, across replays, crashes and restarts:
\* a plain value-change subscription in the table is published unless the
\* unsubscribe of a twin took its record, and one that its listener has given
\* up is not published again, unless it was given up before the cache had
\* replayed it or a twin still asks for it.
THEOREM PublishersMatch == Spec => []PublishersFollowTable
<1>1. IInv => PublishersFollowTable
  <2> SUFFICES ASSUME IInv PROVE PublishersFollowTable
    OBVIOUS
  <2> USE DEF IInv, TypeOK, ServedInv, Plain
  <2>1. \A s \in subList \ (Interval \cup Wild) : s \notin robbed <=> Key[s] \in serving
    OBVIOUS
  <2>2. ASSUME NEW s \in Subs \ (Interval \cup Wild), Key[s] \in serving
        PROVE  /\ Twins(s) \cap subList # {}
               /\ Listener[s] \in running => Twins(s) \cap (asked \cup early) # {}
    <3>1. PICK t \in subList : Key[t] = Key[s]
      BY <2>2
    <3>2. t \in Twins(s) /\ t \notin Interval /\ Listener[t] = Listener[s]
      BY <3>1, ConstantsOK DEF Twins
    <3>3. Listener[s] \in running => t \in asked \cup early
      BY <3>2 DEF LiveSubs
    <3>4. QED
      BY <3>2, <3>3
  <2>3. QED
    BY <2>1, <2>2 DEF PublishersFollowTable
<1>2. QED
  BY <1>1, Inductive, PTL
============================================================================
