------------------------- MODULE SubscriptionCache -------------------------
(***************************************************************************)
(* The provider's table of rbus subscriptions and its cache file           *)
(* (ccsp_rbus_subscription.c), with the registration of the component      *)
(* that loads and replays the file (CcspBaseIf_registerCapabilities_rbus)  *)
(* and the retry loop around it (dslh_cpeco_control.c).                    *)
(*                                                                         *)
(* Subscribe and unsubscribe requests run in rbus callback threads, the    *)
(* registration runs in the component's main thread.  Requests and the     *)
(* replay of the cache take subrecord_mutex (SUB_LOCK); loading the cache  *)
(* does not.  saveCache truncates the file before it writes it, so that    *)
(* a save is two steps.  The process may crash between any two steps; the  *)
(* file survives it.                                                       *)
(***************************************************************************)

CONSTANTS
    Subs,        \* subscriptions: listener, event, component, filter, interval, duration
    Interval,    \* those with interval # 0
    Timed,       \* those with an interval and a duration # 0
    Wild,        \* those with interval 0 and a '*' in the event name
    Key,         \* what the publisher of a subscription is found by: with interval
                 \* 0 all of it but the duration, else all of it
    Listeners,   \* subscriber processes
    Listener     \* [Subs -> Listeners]

ASSUME ConstantsOK ==
    /\ Timed \subseteq Interval
    /\ Interval \subseteq Subs
    /\ Wild \subseteq Subs \ Interval
    /\ Listener \in [Subs -> Listeners]
    /\ \A s, t \in Subs : Key[s] = Key[t] =>
          /\ Listener[s] = Listener[t]
          /\ s \in Wild <=> t \in Wild
          /\ s = t \/ {s, t} \cap Interval = {}

VARIABLES
    main,         \* where the registering thread stands
    reachable,    \* rbus delivers requests: some elements are registered
    kept,         \* some were registered before this registration began
    lock,         \* who is inside SUB_LOCK
    request,      \* the request being served inside SUB_LOCK
    subList,      \* the table of subscriptions
    subCacheList, \* subscriptions loaded from the file, not replayed yet
    loaded,       \* isSubCacheLoaded
    serving,      \* publishers: keys with value-change records or an interval thread
    file,         \* /tmp/ccsp_rbus_subs_<component>
    running,      \* the listener processes that run
    wanted,       \* history: subscriptions acknowledged and not given up
    asked,        \* history: subscriptions asked for and not given up
    robbed,       \* history: subscriptions whose publisher went with a twin
    early,        \* history: given up before the registration was complete
    exposed,      \* history: a crash or a failure hit a save or a registration,
                  \* or a running component registered again
    reloaded      \* history: this process has registered again while running

procVars == <<main, reachable, kept, lock, request, subList, subCacheList, loaded, serving>>
histVars == <<wanted, asked, robbed, early, exposed, reloaded>>
vars == <<procVars, file, running, histVars>>

\* The cache file: missing, truncated by a save that has not written yet, or
\* the entries of a table that is not empty.
Absent == [state |-> "absent", subs |-> {}]
Torn == [state |-> "torn", subs |-> {}]
Full(S) == [state |-> "full", subs |-> S]
Files == {Absent, Torn} \cup {Full(S) : S \in (SUBSET Subs) \ {{}}}

NoRequest == [kind |-> "none", subs |-> {}]

LiveSubs(S) == {s \in S : Listener[s] \in running}

\* Mutant: a write that does not truncate leaves the old entries.
SaveOpen_NoTruncate(S) == IF S = {} THEN Absent ELSE [Torn EXCEPT !.subs = file.subs]

\* saveCache, first half: remove the file of an empty table, truncate another.
SaveOpen(S) == IF S = {} THEN Absent ELSE Torn

\* saveCache, second half: the data reaches the file unless it was removed
\* under the open handle.
SaveWrite(S) == IF file.state = "absent" THEN file ELSE Full(S)

\* Subscriptions that share their publisher: the records of value changes are
\* not told apart by the duration.
Twins(s) == {t \in Subs : Key[t] = Key[s]}

\* What the handler's branch for s may leave running when it subscribes, and
\* when it unsubscribes.  A wildcard reaches only the rows that exist: there
\* may be none to watch, and records of deleted rows go on publishing.
Started(s) ==
    {serving \cup {Key[s]}} \cup (IF s \in Wild THEN {serving} ELSE {})

Stopped(s) ==
    {serving \ {Key[s]}} \cup (IF s \in Wild THEN {serving} ELSE {})

(***************************************************************************)
(* Requests, in rbus callback threads.  A subscribe of a known and an      *)
(* unsubscribe of an unknown subscription leave the table and the file.    *)
(***************************************************************************)
Subscribe(s) ==
    /\ reachable
    /\ lock = "free"
    /\ Listener[s] \in running
    /\ s \notin subList
    /\ lock' = "handler"
    /\ request' = [kind |-> "subscribe", subs |-> {s}]
    /\ subList' = subList \cup {s}
    /\ serving' \in Started(s)
    /\ robbed' = robbed \ Twins(s)
    /\ file' = SaveOpen(subList \cup {s})
    /\ asked' = asked \cup {s}
    /\ early' = early \ {s}
    /\ UNCHANGED <<main, reachable, kept, subCacheList, loaded, running, wanted, exposed, reloaded>>

\* Mutant: the value-change branch forgets removeSubscription.
Unsubscribe_KeepsEntry(s) ==
    /\ reachable
    /\ lock = "free"
    /\ Listener[s] \in running
    /\ s \in subList
    /\ lock' = "handler"
    /\ request' = [kind |-> "unsubscribe", subs |-> {s}]
    /\ serving' \in Stopped(s)
    /\ robbed' = (robbed \cup (Twins(s) \cap subList)) \ {s}
    /\ file' = SaveOpen(subList)
    /\ wanted' = wanted \ {s}
    /\ asked' = asked \ {s}
    /\ early' = early \cup ({s} \cap subCacheList)
    /\ UNCHANGED <<main, reachable, kept, subList, subCacheList, loaded, running, exposed, reloaded>>

\* The interval branch stops the publishing thread and leaves the table; the
\* other one removes the entry and records that a twin may still need.
Unsubscribe(s) ==
    /\ reachable
    /\ lock = "free"
    /\ Listener[s] \in running
    /\ s \in subList
    /\ lock' = "handler"
    /\ request' = [kind |-> "unsubscribe", subs |-> {s}]
    /\ subList' = IF s \in Interval THEN subList ELSE subList \ {s}
    /\ serving' \in Stopped(s)
    /\ robbed' = (robbed \cup (Twins(s) \cap subList)) \ {s}
    /\ file' = SaveOpen(subList')
    /\ wanted' = wanted \ {s}
    /\ asked' = asked \ {s}
    /\ early' = early \cup ({s} \cap subCacheList)
    /\ UNCHANGED <<main, reachable, kept, subCacheList, loaded, running, exposed, reloaded>>

\* An unsubscribe that does not find the subscription returns success.
UnsubscribeUnknown(s) ==
    /\ reachable
    /\ lock = "free"
    /\ Listener[s] \in running
    /\ s \in asked \ subList
    /\ wanted' = wanted \ {s}
    /\ asked' = asked \ {s}
    /\ early' = IF main = "up" THEN early ELSE early \cup {s}
    /\ UNCHANGED <<procVars, file, running, robbed, exposed, reloaded>>

\* The save ends, SUB_UNLOCK, and the answer goes to the listener.
Finish ==
    /\ lock = "handler"
    /\ lock' = "free"
    /\ request' = NoRequest
    /\ file' = SaveWrite(subList)
    /\ wanted' = IF request.kind = "subscribe"
                 THEN wanted \cup {s \in LiveSubs(request.subs) :
                                     s \in Interval => Key[s] \in serving}
                 ELSE wanted
    /\ UNCHANGED <<main, reachable, kept, subList, subCacheList, loaded, serving,
                   running, asked, robbed, early, exposed, reloaded>>

\* An interval thread publishes RBUS_EVENT_DURATION_COMPLETE and ends.
DurationComplete(s) ==
    /\ s \in Timed
    /\ Key[s] \in serving
    /\ serving' = serving \ {Key[s]}
    /\ wanted' = wanted \ {s}
    /\ asked' = asked \ {s}
    /\ UNCHANGED <<main, reachable, kept, lock, request, subList, subCacheList, loaded,
                   file, running, robbed, early, exposed, reloaded>>

(***************************************************************************)
(* Registration, in the main thread.                                       *)
(***************************************************************************)
\* Ccsp_RbusSubscriptions_create and loadCache, outside SUB_LOCK.  It runs at
\* start, again when a failed registration is retried (after AnscSleep, long
\* enough for a request in progress to end), and when a component that runs is
\* told to register.  Entries of listeners that no longer run are dropped.
LoadCache ==
    /\ \/ main = "off"
       \/ main = "failed" /\ (kept \/ lock = "free")
       \/ main = "up"
    /\ IF file.state = "full"
       THEN /\ subCacheList' = LiveSubs(file.subs)
            /\ loaded' = TRUE
            /\ main' = IF LiveSubs(file.subs) = file.subs THEN "register" ELSE "resave"
            /\ UNCHANGED file
       ELSE /\ file' = Absent
            /\ loaded' = FALSE
            /\ main' = "register"
            /\ UNCHANGED subCacheList
    /\ kept' = reachable
    /\ exposed' = (exposed \/ main = "up")
    /\ reloaded' = (reloaded \/ main = "up")
    /\ UNCHANGED <<reachable, lock, request, subList, serving, running, wanted, asked,
                   robbed, early>>

\* needSave: saveCache writes subList, not what was loaded.
Resave ==
    /\ \/ /\ main = "resave"
          /\ file' = SaveOpen(subList)
          /\ main' = IF subList = {} THEN "register" ELSE "rewrite"
       \/ /\ main = "rewrite"
          /\ file' = SaveWrite(subList)
          /\ main' = "register"
    /\ UNCHANGED <<reachable, kept, lock, request, subList, subCacheList, loaded, serving,
                   running, histVars>>

\* The loop over rbus_regDataElements: requests arrive from the first element.
RegisterElement ==
    /\ main = "register"
    /\ ~reachable
    /\ reachable' = TRUE
    /\ UNCHANGED <<main, kept, lock, request, subList, subCacheList, loaded, serving,
                   file, running, histVars>>

\* Mutant: the loaded entries are not replayed.
RegisterDone_NoReplay ==
    /\ main = "register"
    /\ reachable' = TRUE
    /\ main' = "announce"
    /\ UNCHANGED <<kept, lock, request, subList, subCacheList, loaded, serving,
                   file, running, histVars>>

RegisterDone ==
    /\ main = "register"
    /\ reachable' = TRUE
    /\ main' = IF loaded THEN "replay" ELSE "announce"
    /\ UNCHANGED <<kept, lock, request, subList, subCacheList, loaded, serving,
                   file, running, histVars>>

\* An element is refused: CacheList_destory, and the elements up to that one
\* are withdrawn.  Later ones stay if an earlier registration made them.
RegisterFails ==
    /\ main = "register"
    /\ main' = "failed"
    /\ reachable' \in {FALSE, kept}
    /\ subCacheList' = IF loaded THEN {} ELSE subCacheList
    /\ exposed' = (exposed \/ loaded)
    /\ UNCHANGED <<kept, lock, request, subList, loaded, serving, file, running,
                   wanted, asked, robbed, early, reloaded>>

\* resubscribeElementCache: SUB_LOCK, then the handler for every loaded entry,
\* each with its own save.
ReplayBegin ==
    /\ main = "replay"
    /\ lock = "free"
    /\ lock' = "main"
    /\ UNCHANGED <<main, reachable, kept, request, subList, subCacheList, loaded, serving,
                   file, running, histVars>>

\* Mutant: the replay does not save the table it rebuilds.
Replay_NoSave(s) ==
    /\ main = "replay" /\ lock = "main"
    /\ s \in subCacheList
    /\ subCacheList' = subCacheList \ {s}
    /\ subList' = subList \cup {s}
    /\ serving' \in Started(s)
    /\ robbed' = robbed \ Twins(s)
    /\ UNCHANGED <<main, reachable, kept, lock, request, loaded, file, running,
                   wanted, asked, early, exposed, reloaded>>

Replay(s) ==
    /\ main = "replay" /\ lock = "main"
    /\ request = NoRequest
    /\ s \in subCacheList
    /\ subCacheList' = subCacheList \ {s}
    /\ \/ /\ s \in subList
          /\ UNCHANGED <<request, subList, serving, robbed, file>>
       \/ /\ s \notin subList
          /\ request' = [kind |-> "replay", subs |-> {s}]
          /\ subList' = subList \cup {s}
          /\ serving' \in Started(s)
          /\ robbed' = robbed \ Twins(s)
          /\ file' = SaveOpen(subList \cup {s})
    /\ UNCHANGED <<main, reachable, kept, lock, loaded, running,
                   wanted, asked, early, exposed, reloaded>>

ReplaySaved ==
    /\ main = "replay" /\ request.kind = "replay"
    /\ request' = NoRequest
    /\ file' = SaveWrite(subList)
    /\ UNCHANGED <<main, reachable, kept, lock, subList, subCacheList, loaded, serving,
                   running, histVars>>

\* CacheList_destory and SUB_UNLOCK.
ReplayEnd ==
    /\ main = "replay" /\ lock = "main"
    /\ request = NoRequest
    /\ subCacheList = {}
    /\ lock' = "free"
    /\ main' = "announce"
    /\ UNCHANGED <<reachable, kept, request, subList, subCacheList, loaded, serving,
                   file, running, histVars>>

\* registerComponentWithCr_rbus succeeds, or fails and every element is
\* withdrawn.
Announce ==
    /\ main = "announce"
    /\ \/ main' = "up" /\ UNCHANGED reachable
       \/ main' = "failed" /\ reachable' = FALSE
    /\ UNCHANGED <<kept, lock, request, subList, subCacheList, loaded, serving,
                   file, running, histVars>>

(***************************************************************************)
(* The end of the process.                                                 *)
(***************************************************************************)
\* CCSP_Message_Bus_Exit: Ccsp_RbusSubscriptions_destory saves under SUB_LOCK.
Exit ==
    /\ main = "up"
    /\ lock = "free"
    /\ lock' = "main"
    /\ main' = "exit"
    /\ reachable' = FALSE
    /\ file' = SaveOpen(subList)
    /\ UNCHANGED <<kept, request, subList, subCacheList, loaded, serving, running, histVars>>

ProcessGone ==
    /\ main' = "off"
    /\ reachable' = FALSE
    /\ kept' = FALSE
    /\ lock' = "free"
    /\ request' = NoRequest
    /\ subList' = {}
    /\ subCacheList' = {}
    /\ loaded' = FALSE
    /\ serving' = {}
    /\ robbed' = {}
    /\ reloaded' = FALSE

ExitDone ==
    /\ main = "exit"
    /\ file' = SaveWrite(subList)
    /\ ProcessGone
    /\ UNCHANGED <<running, wanted, asked, early, exposed>>

Crash ==
    /\ main # "off"
    /\ ProcessGone
    /\ exposed' = (exposed \/ lock # "free" \/ main \notin {"up", "failed"})
    /\ UNCHANGED <<file, running, wanted, asked, early>>

\* A listener process ends; a new one has another name.
ListenerGone(l) ==
    /\ l \in running
    /\ running' = running \ {l}
    /\ wanted' = {s \in wanted : Listener[s] # l}
    /\ asked' = {s \in asked : Listener[s] # l}
    /\ UNCHANGED <<procVars, file, robbed, early, exposed, reloaded>>
----------------------------------------------------------------------------
Init ==
    /\ main = "off"
    /\ reachable = FALSE
    /\ kept = FALSE
    /\ lock = "free"
    /\ request = NoRequest
    /\ subList = {}
    /\ subCacheList = {}
    /\ loaded = FALSE
    /\ serving = {}
    /\ file = Absent
    /\ running = Listeners
    /\ wanted = {}
    /\ asked = {}
    /\ robbed = {}
    /\ early = {}
    /\ exposed = FALSE
    /\ reloaded = FALSE

Next ==
    \/ \E s \in Subs :
          \/ Subscribe(s)
          \/ Unsubscribe(s)
          \/ UnsubscribeUnknown(s)
          \/ DurationComplete(s)
          \/ Replay(s)
    \/ Finish
    \/ LoadCache \/ Resave
    \/ RegisterElement \/ RegisterDone \/ RegisterFails
    \/ ReplayBegin \/ ReplaySaved \/ ReplayEnd
    \/ Announce
    \/ Exit \/ ExitDone \/ Crash
    \/ \E l \in Listeners : ListenerGone(l)

Spec == Init /\ [][Next]_vars
----------------------------------------------------------------------------
(***************************************************************************)
(* Properties.                                                             *)
(***************************************************************************)
\* Type invariant of the subscription table, its file and the registration.
TypeOK ==
    /\ main \in {"off", "resave", "rewrite", "register", "replay", "announce",
                 "up", "failed", "exit"}
    /\ reachable \in BOOLEAN
    /\ kept \in BOOLEAN
    /\ lock \in {"free", "handler", "main"}
    /\ request \in [kind : {"none", "subscribe", "unsubscribe", "replay"}, subs : SUBSET Subs]
    /\ subList \subseteq Subs
    /\ subCacheList \subseteq Subs
    /\ loaded \in BOOLEAN
    /\ serving \subseteq {Key[s] : s \in Subs}
    /\ file \in Files
    /\ running \subseteq Listeners
    /\ wanted \subseteq Subs
    /\ asked \subseteq Subs
    /\ robbed \subseteq subList
    /\ early \subseteq Subs
    /\ exposed \in BOOLEAN
    /\ reloaded \in BOOLEAN

\* Nobody is saving and the registration is complete.
Quiet == main = "up" /\ lock = "free"

\* In a quiet state the file holds the table: a crash there loses nothing.
\* A second registration of the process is exempt: its loadCache removes a
\* file that a request in progress has truncated, and the write is lost.
FileMatchesTable ==
    Quiet /\ ~reloaded => file = IF subList = {} THEN Absent ELSE Full(subList)

\* A subscription the listener was promised and has not given up is in the
\* table again after every restart, whatever obsolete entries the file held,
\* unless a crash, a refused element or a second registration came between.
PromisesKept == Quiet /\ ~exposed => wanted \subseteq subList

\* Publishers follow the table, for value-change subscriptions without a
\* wildcard.  When no call runs, one that is in the table is published exactly
\* if no twin's unsubscribe took its record since.  At no time is one published
\* that neither it nor a twin is in the table for, nor does a listener that
\* runs get events that it did not ask for, unless its unsubscribe came before
\* the cached subscription was replayed.
PublishersFollowTable ==
    /\ Quiet => \A s \in subList \ (Interval \cup Wild) :
                   s \notin robbed <=> Key[s] \in serving
    /\ \A s \in Subs \ (Interval \cup Wild) : Key[s] \in serving =>
          /\ Twins(s) \cap subList # {}
          /\ Listener[s] \in running => Twins(s) \cap (asked \cup early) # {}
============================================================================
