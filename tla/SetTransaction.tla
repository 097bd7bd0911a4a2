--------------------------- MODULE SetTransaction ---------------------------
(***************************************************************************)
(* Setting parameters of a component's data model: CcspCcMbi_SetParameter- *)
(* Values and CcspCcMbi_SetCommit (messagebus_interface_helper.c) over     *)
(* DslhWmpdoMpaSetParameterValues and DslhWmpdoMpaSetCommit                *)
(* (dslh_wmpdo_mpaif.c).                                                   *)
(*                                                                         *)
(* A set stages every value in its VarRecord and lists the VarRecords and  *)
(* their ObjRecords in two arrays of the database; hands the staged values *)
(* of every listed object to the component; and commits the listed objects *)
(* or leaves the arrays to a later SetCommit.  Calls run under             *)
(* AccessTsLock, which the holding thread may take again.  Two places let  *)
(* a second call in before the first has returned: the component's Commit  *)
(* callback, from which the component may set parameters, and the wait for *)
(* a busy notification, which releases the lock.  Both are a stack of      *)
(* calls whose last one runs.                                              *)
(***************************************************************************)
EXTENDS Integers, Sequences, SequencesExt

CONSTANTS
    Params, Objs, Values,
    ObjOf,         \* [Params -> Objs]: hDslhObjRecord
    BulkObjs,      \* objects whose component offers SetEntryBulk
    NoValue,       \* NULL
    Writers,       \* writeIDs
    UI,            \* the writer among uMonitorComponents
    SNMP,          \* DSLH_MPA_ACCESS_CONTROL_SNMP
    AccessList,    \* [Params -> SUBSET Writers]
    Monitored,     \* parameters with bMonitor
    Notified,      \* parameters with a notification attribute
    Unreadable,    \* parameters whose current value may read as NULL
    Refused,       \* <<p, v>>: name, type, writability or TstValue refuses it
    Lengthy,       \* <<p, v>>: the text of its notification exceeds str
    Sessions,      \* session numbers, 0 among them
    Requests,      \* the requests clients send
    CommitFlags,   \* the values of bCommit they send
    MaxVars,       \* DSLH_WMPDO_MAX_VAR_INARRAY
    MaxObjs,       \* DSLH_WMPDO_MAX_OBJ_INARRAY
    Overrun,       \* TRUE if clients may list more VarRecords than fit
    CommitMayFail, \* TRUE if a component's Commit may fail
    Inside,        \* the kinds of calls that come in while one is in progress
    MaxDepth       \* bound: calls in progress

ASSUME ConstantsOK ==
    /\ ObjOf \in [Params -> Objs]
    /\ BulkObjs \subseteq Objs
    /\ NoValue \notin Values /\ NoValue \notin Objs
    /\ AccessList \in [Params -> SUBSET Writers]
    /\ Monitored \subseteq Params /\ Notified \subseteq Params /\ Unreadable \subseteq Params
    /\ Refused \subseteq Params \X Values /\ Lengthy \subseteq Params \X Values
    /\ Sessions \subseteq Nat /\ 0 \in Sessions
    /\ Requests \subseteq Seq(Params \X Values) \ {<<>>}
    /\ CommitFlags \subseteq BOOLEAN /\ CommitMayFail \in BOOLEAN /\ Overrun \in BOOLEAN
    /\ Inside \subseteq {"set", "own", "stage", "commit", "rollback"}
    /\ MaxVars \in Nat \ {0} /\ MaxObjs \in Nat \ {0} /\ MaxDepth \in Nat \ {0}

VARIABLES
    temp,        \* TempParamValue of every VarRecord
    alreadySet,  \* VarRecords with bAlreadySet
    userChanged, \* VarRecords with bUserChanged
    varArray,    \* hVarRecordArray up to ulVarRecordCount, <<>> for NULL
    objArray,    \* hObjRecordArray up to ulObjRecordCount, <<>> for NULL
    session,     \* g_currentSessionID
    dbSession,   \* SessionID of the database
    committing,  \* ObjControllers with bCommitting
    calls,       \* the calls in progress, the running one last
    work,        \* the component's working copy of every parameter
    live,        \* what the component has applied
    status,      \* returnStatus of the call that returned last
    lost,        \* how many calls, from the first one on the stack, hold
                 \* pointers to arrays that another call has freed
    asked,       \* history: values accepted, neither cancelled nor applied yet
    failed,      \* history: objects whose last Commit failed
    left,        \* history: VarRecords a call left with a staged value in no array
    spoilt       \* history: objects with values that a call left behind or
                 \* answered for without handing them over

recVars == <<temp, alreadySet, userChanged>>
arrVars == <<varArray, objArray>>
compVars == <<work, live>>
outcome == <<status, lost, left, spoilt>>
vars == <<recVars, arrVars, session, dbSession, committing, calls, compVars, asked, failed,
          outcome>>

Frames == [op : {"set", "commit"},
           pc : {"stage", "enlist", "verify", "commit", "callback", "applied"},
           req : Requests \cup {<<>>}, writer : Writers \cup {NoValue}, sess : Sessions, commit : BOOLEAN,
           i : Nat, nVar : Nat, nObj : Nat, open : BOOLEAN, obj : Objs \cup {NoValue}]

\* A call as it starts: the indices and counts of its local variables.
Frame(op, pc, req, w, s, c) ==
    [op |-> op, pc |-> pc, req |-> req, writer |-> w, sess |-> s, commit |-> c,
     i |-> 1, nVar |-> 0, nObj |-> 0, open |-> FALSE, obj |-> NoValue]

\* Every variable has its type and the arrays never exceed their size.
TypeOK ==
    /\ temp \in [Params -> Values \cup {NoValue}]
    /\ alreadySet \subseteq Params /\ userChanged \subseteq Params
    /\ varArray \in Seq(Params) /\ Len(varArray) <= MaxVars
    /\ objArray \in Seq(Objs) /\ Len(objArray) <= MaxObjs
    /\ session \in Sessions /\ dbSession \in Sessions
    /\ committing \subseteq Objs /\ failed \subseteq Objs
    /\ calls \in Seq(Frames) /\ Len(calls) <= MaxDepth
    /\ work \in [Params -> Values] /\ live \in [Params -> Values]
    /\ asked \in [Params -> SUBSET Values]
    /\ status \in {"success", "error"} /\ lost \in Nat
    /\ left \subseteq Params /\ spoilt \subseteq Objs

Init ==
    /\ temp = [p \in Params |-> NoValue]
    /\ alreadySet = {} /\ userChanged = {}
    /\ varArray = <<>> /\ objArray = <<>>
    /\ session = 0 /\ dbSession = 0
    /\ committing = {} /\ calls = <<>>
    /\ live \in [Params -> Values] /\ work = live
    /\ asked = [p \in Params |-> {}] /\ failed = {}
    /\ status = "success" /\ lost = 0 /\ left = {} /\ spoilt = {}

ParamsOf(o) == {p \in Params : ObjOf[p] = o}
ParamsIn(O) == {p \in Params : ObjOf[p] \in O}

\* IsParamUpdated: what VerifyChanges hands to the component.
Updated(o) == {p \in ParamsOf(o) : temp[p] # NoValue /\ p \notin alreadySet}

Top == Last(calls)
At(pc) == calls # <<>> /\ Top.pc = pc
Replace(f) == calls' = Append(Front(calls), f)
Return(answer) == calls' = Front(calls) /\ status' = answer

\* No call holds the lock, or the running one is where another may come in
\* (inside a Commit callback the release only counts down the nested hold).
MayCall(kind) ==
    \/ calls = <<>>
    \/ /\ kind \in Inside
       /\ Len(calls) < MaxDepth
       /\ \/ At("callback") \/ At("applied")
          \/ At("enlist") /\ Top.open /\ committing = {}

\* A set that commits, one that also sets an object whose Commit runs, and
\* one that leaves its values staged.
SetKind(req, c) ==
    CASE ~c -> "stage"
      [] c /\ (\E n \in DOMAIN req : ObjOf[req[n][1]] \in committing) -> "own"
      [] OTHER -> "set"

\* f with the values of g for the parameters of S.
Overwrite(f, S, g) == [p \in Params |-> IF p \in S THEN g[p] ELSE f[p]]
Nothing == [p \in Params |-> NoValue]
Clear(S) == asked' = [p \in Params |-> IF p \in S THEN {} ELSE asked[p]]

\* ResetObjVarArray: the calls that wait under the running one keep pointers.
ResetObjVarArray(waiting) == varArray' = <<>> /\ objArray' = <<>> /\ lost' = waiting

\* History: no array lists the VarRecords of S any more; the objects of O are
\* not what their clients were told.
Leave(S, O) ==
    /\ left' = {p \in left \cup S : temp'[p] # NoValue}
    /\ spoilt' = spoilt \cup O \cup {ObjOf[p] : p \in left'}

-----------------------------------------------------------------------------
\* CcspCcMbi_CurrentSessionIdSignal.
SessionSignal(s) ==
    /\ session' = s
    /\ UNCHANGED <<recVars, arrVars, dbSession, committing, calls, compVars, asked, failed, outcome>>

\* SetParameterValues accepted by the helper: the session is the current one
\* (a call of another session is discarded, nothing changes).
SetParameterValues(s, w, req, c) ==
    /\ MayCall(SetKind(req, c))
    /\ s = session
    /\ Overrun \/ Len(varArray) + Len(req) <= MaxVars
    /\ dbSession' = s
    /\ calls' = Append(calls, Frame("set", "stage", req, w, s, c))
    /\ UNCHANGED <<recVars, arrVars, session, committing, compVars, asked, failed, outcome>>

\* EXIT1 after an error, and what becomes of the listed values and those of S.
Dropped(f, S, t) ==
    LET cancelled == {varArray[n] : n \in 1 .. f.nVar}
        rolled == IF f.writer = SNMP THEN {} ELSE {objArray[n] : n \in 1 .. f.nObj}
        listed == ToSet(objArray) \cup {ObjOf[p] : p \in ToSet(varArray)}
    IN /\ ResetObjVarArray(Len(calls) - 1)
       /\ Return("error")
       /\ Leave(S \cup (ToSet(varArray) \ cancelled), listed \ rolled)
       /\ asked' = [p \in Params |-> IF p \in cancelled THEN {}
                                     ELSE IF p \in S THEN asked[p] \ {t[p]} ELSE asked[p]]

\* Mutant: the loop over the VarRecords stops one short.
Exit2_StopsShort(f, S, t, a, wk) ==
    LET cancelled == {varArray[n] : n \in 1 .. f.nVar - 1}
        rolled == IF f.writer = SNMP THEN {} ELSE {objArray[n] : n \in 1 .. f.nObj}
    IN /\ temp' = Overwrite(t, cancelled, Nothing)
       /\ alreadySet' = a \ cancelled
       /\ work' = Overwrite(wk, ParamsIn(rolled), live)
       /\ Dropped(f, S, t)

\* Mutant: the VarRecords are cancelled, the objects keep what they took.
Exit2_KeepsObjects(f, S, t, a, wk) ==
    LET cancelled == {varArray[n] : n \in 1 .. f.nVar}
    IN /\ temp' = Overwrite(t, cancelled, Nothing)
       /\ alreadySet' = a \ cancelled
       /\ work' = wk
       /\ Dropped(f, S, t)

\* Mutant: CancelChange forgets bAlreadySet.
Exit2_KeepsMarks(f, S, t, a, wk) ==
    LET rolled == IF f.writer = SNMP THEN {} ELSE {objArray[n] : n \in 1 .. f.nObj}
    IN /\ temp' = Overwrite(t, {varArray[n] : n \in 1 .. f.nVar}, Nothing)
       /\ alreadySet' = a
       /\ work' = Overwrite(wk, ParamsIn(rolled), live)
       /\ Dropped(f, S, t)

\* EXIT2: cancel the first nVar VarRecords and roll back the first nObj
\* objects, unless SNMP set them; drop the arrays and return the error.
\* t, a and wk are the staged values, bAlreadySet and the working copy before;
\* S are the VarRecords staged and not listed.
Exit2(f, S, t, a, wk) ==
    LET cancelled == {varArray[n] : n \in 1 .. f.nVar}
        rolled == IF f.writer = SNMP THEN {} ELSE {objArray[n] : n \in 1 .. f.nObj}
    IN /\ temp' = Overwrite(t, cancelled, Nothing)
       /\ alreadySet' = a \ cancelled
       /\ work' = Overwrite(wk, ParamsIn(rolled), live)
       /\ Dropped(f, S, t)

-----------------------------------------------------------------------------
\* First round, one parameter: refused before its value is staged.
StageRefused ==
    /\ At("stage") /\ Top.i <= Len(Top.req)
    /\ Top.req[Top.i] \in Refused
    /\ Exit2(Top, {}, temp, alreadySet, work)
    /\ UNCHANGED <<userChanged, session, dbSession, committing, live, failed>>

\* AccessList, then CheckUserChangedFlag.
MayWrite(w, p) ==
    /\ w \in AccessList[p]
    /\ p \in Monitored /\ p \in userChanged => w = UI

MarkUserChanged(w, p, v) ==
    IF p \in Monitored /\ w = UI /\ v # work[p] THEN userChanged \cup {p} ELSE userChanged

\* TstValue has staged the value; then the writer is refused.
StageDenied ==
    /\ At("stage") /\ Top.i <= Len(Top.req)
    /\ Top.req[Top.i] \notin Refused
    /\ LET p == Top.req[Top.i][1]
           v == Top.req[Top.i][2]
       IN /\ ~MayWrite(Top.writer, p)
          /\ Exit2(Top, {p}, [temp EXCEPT ![p] = v], alreadySet, work)
    /\ UNCHANGED <<userChanged, session, dbSession, committing, live, failed>>

\* TstValue has staged the value; the old value of a notified parameter reads
\* as NULL, and the call returns success as it stands (EXIT0), its request
\* neither refused nor carried out.
StageAbandoned ==
    /\ At("stage") /\ Top.i <= Len(Top.req)
    /\ Top.req[Top.i] \notin Refused
    /\ LET p == Top.req[Top.i][1]
           v == Top.req[Top.i][2]
       IN /\ MayWrite(Top.writer, p)
          /\ p \in Notified \cap Unreadable
          /\ temp' = [temp EXCEPT ![p] = v]
          /\ userChanged' = MarkUserChanged(Top.writer, p, v)
          /\ asked' = [asked EXCEPT ![p] = @ \cup {v}]
          /\ Leave({p}, {ObjOf[Top.req[n][1]] : n \in DOMAIN Top.req})
    /\ Return("success")
    /\ UNCHANGED <<alreadySet, arrVars, session, dbSession, committing, compVars, failed, lost>>

\* The value is staged (TstValue stages if the parameter is persistent or the
\* object has bGroupCommit, which the data model agent gives every object).  A
\* VarRecord that is marked as handed over keeps the mark, and the component
\* will not see this value.  A change of a notified parameter may wait for a
\* busy notification with the lock released.
Stage ==
    /\ At("stage") /\ Top.i <= Len(Top.req)
    /\ Top.req[Top.i] \notin Refused
    /\ LET p == Top.req[Top.i][1]
           v == Top.req[Top.i][2]
       IN /\ MayWrite(Top.writer, p)
          /\ temp' = [temp EXCEPT ![p] = v]
          /\ userChanged' = MarkUserChanged(Top.writer, p, v)
          /\ asked' = [asked EXCEPT ![p] = @ \cup {v}]
          /\ Replace([Top EXCEPT !.pc = "enlist", !.open = p \in Notified /\ v # work[p]])
          /\ Leave({}, IF p \in alreadySet THEN {ObjOf[p]} ELSE {})
    /\ UNCHANGED <<alreadySet, arrVars, session, dbSession, committing, compVars, failed,
                   status, lost>>

\* Mutant: one entry too many.
AddVarRecordIntoArray_Overflows(p) ==
    varArray' = IF Len(varArray) <= MaxVars THEN Append(varArray, p) ELSE varArray

AddVarRecordIntoArray(p) ==
    varArray' = IF Len(varArray) < MaxVars THEN Append(varArray, p) ELSE varArray

AddObjRecordIntoArray(o) ==
    objArray' = IF Len(objArray) >= MaxObjs \/ o \in ToSet(objArray)
                THEN objArray ELSE Append(objArray, o)

\* The notification does not fit its buffer: the value, already staged, is
\* refused.  A call that has listed something in arrays which another call has
\* freed since reads freed memory here, and does not go on.
NotifyRefused ==
    /\ At("enlist") /\ Top.open
    /\ Top.req[Top.i] \in Lengthy
    /\ Top.nVar = 0 \/ lost < Len(calls)
    /\ Exit2(Top, {Top.req[Top.i][1]}, temp, alreadySet, work)
    /\ UNCHANGED <<userChanged, session, dbSession, committing, live, failed>>

\* The VarRecord and its ObjRecord join the arrays, as they are now.
Enlist ==
    /\ At("enlist")
    /\ ~(Top.open /\ Top.req[Top.i] \in Lengthy)
    /\ LET p == Top.req[Top.i][1]
       IN /\ AddVarRecordIntoArray(p)
          /\ AddObjRecordIntoArray(ObjOf[p])
          /\ UNCHANGED recVars
          /\ Leave({p} \ ToSet(varArray'), {ObjOf[p]} \ ToSet(objArray'))
    /\ lost' = IF lost < Len(calls) THEN lost ELSE Len(calls) - 1
    /\ Replace([Top EXCEPT !.pc = "stage", !.i = @ + 1, !.open = FALSE,
                           !.nVar = Len(varArray'), !.nObj = Len(objArray')])
    /\ UNCHANGED <<session, dbSession, committing, compVars, asked, failed, status>>

\* The first round is over.
Staged ==
    /\ At("stage") /\ Top.i > Len(Top.req)
    /\ Replace([Top EXCEPT !.pc = "verify", !.i = 1])
    /\ UNCHANGED <<recVars, arrVars, session, dbSession, committing, compVars, asked, failed, outcome>>

-----------------------------------------------------------------------------
\* VerifyChanges of one object, accepted by the component: it has every
\* updated value, and only SetEntryBulk leaves them marked as updated.
VerifyChanges ==
    /\ At("verify") /\ Top.i <= Top.nObj
    /\ LET o == objArray[Top.i]
       IN /\ o \in BulkObjs => Updated(o) # {}
          /\ work' = Overwrite(work, Updated(o), temp)
          /\ alreadySet' = IF o \in BulkObjs THEN alreadySet ELSE alreadySet \cup Updated(o)
    /\ Replace([Top EXCEPT !.i = @ + 1])
    /\ UNCHANGED <<temp, userChanged, arrVars, session, dbSession, committing, live, asked, failed,
                   outcome>>

\* The component refuses a value or the object; it may have taken some values.
VerifyRefused ==
    /\ At("verify") /\ Top.i <= Top.nObj
    /\ LET o == objArray[Top.i]
       IN \E S \in SUBSET Updated(o) :
             Exit2(Top, {}, temp, IF o \in BulkObjs THEN alreadySet ELSE alreadySet \cup S,
                   Overwrite(work, S, temp))
    /\ UNCHANGED <<userChanged, session, dbSession, committing, live, failed>>

\* Every object is verified and bCommit is FALSE: the arrays stay.
LeavePending ==
    /\ At("verify") /\ Top.i > Top.nObj
    /\ ~Top.commit
    /\ Return("success")
    /\ UNCHANGED <<recVars, arrVars, session, dbSession, committing, compVars, asked, failed,
                   lost, left, spoilt>>

\* bCommit is TRUE: SetCommit is called.  A database session that another
\* call has changed makes it fail, which is ignored; the arrays are dropped and
\* the call returns success.
BeginCommit ==
    /\ At("verify") /\ Top.i > Top.nObj
    /\ Top.commit
    /\ UNCHANGED recVars
    /\ IF dbSession = Top.sess
       THEN Replace([Top EXCEPT !.pc = "commit", !.i = 1]) /\ UNCHANGED <<arrVars, outcome>>
       ELSE /\ Return("success")
            /\ ResetObjVarArray(Len(calls) - 1)
            /\ Leave(ToSet(varArray), ToSet(objArray))
    /\ UNCHANGED <<session, dbSession, committing, compVars, asked, failed>>

-----------------------------------------------------------------------------
\* SetCommit(TRUE) with something to apply; without, it changes nothing.
SetCommit(s) ==
    /\ MayCall("commit")
    /\ session = 0 \/ s = session
    /\ dbSession = s
    /\ varArray # <<>>
    /\ calls' = Append(calls, Frame("commit", "commit", <<>>, NoValue, s, TRUE))
    /\ UNCHANGED <<recVars, arrVars, session, dbSession, committing, compVars, asked, failed, outcome>>

\* Mutant: a rollback that cancels the VarRecords only.
SetRollback_KeepsObjects(s) ==
    /\ MayCall("rollback")
    /\ session = 0 \/ s = session
    /\ dbSession = s
    /\ varArray # <<>>
    /\ temp' = Overwrite(temp, ToSet(varArray), Nothing)
    /\ alreadySet' = alreadySet \ ToSet(varArray)
    /\ ResetObjVarArray(Len(calls))
    /\ Leave({}, {ObjOf[p] : p \in ToSet(varArray)} \ ToSet(objArray))
    /\ Clear(ToSet(varArray))
    /\ UNCHANGED <<userChanged, session, dbSession, committing, calls, compVars, failed, status>>

\* SetCommit(FALSE): every listed change is cancelled.
SetRollback(s) ==
    /\ MayCall("rollback")
    /\ session = 0 \/ s = session
    /\ dbSession = s
    /\ varArray # <<>>
    /\ temp' = Overwrite(temp, ToSet(varArray), Nothing)
    /\ alreadySet' = alreadySet \ ToSet(varArray)
    /\ work' = Overwrite(work, ParamsIn(ToSet(objArray)), live)
    /\ ResetObjVarArray(Len(calls))
    /\ Leave({}, {ObjOf[p] : p \in ToSet(varArray)} \ ToSet(objArray))
    /\ Clear(ToSet(varArray))
    /\ UNCHANGED <<userChanged, session, dbSession, committing, calls, live, failed, status>>

\* The loop over the objects enters one's Commit callback, or passes over an
\* object whose callback is on the stack already.
CommitChanges ==
    /\ At("commit") /\ Top.i <= Len(objArray)
    /\ LET o == objArray[Top.i]
       IN IF o \in committing
          THEN Replace([Top EXCEPT !.i = @ + 1]) /\ UNCHANGED committing
          ELSE Replace([Top EXCEPT !.pc = "callback", !.obj = o])
               /\ committing' = committing \cup {o}
    /\ UNCHANGED <<recVars, arrVars, session, dbSession, compVars, asked, failed, outcome>>

\* The component applies its working copy of the object.
CommitApplied ==
    /\ At("callback")
    /\ LET S == ParamsOf(Top.obj)
       IN /\ live' = Overwrite(live, S, work)
          /\ asked' = [p \in Params |-> IF p \in S THEN asked[p] \ {work[p]} ELSE asked[p]]
          /\ failed' = failed \ {Top.obj}
    /\ Replace([Top EXCEPT !.pc = "applied"])
    /\ UNCHANGED <<recVars, arrVars, session, dbSession, committing, work, outcome>>

\* The component's Commit fails, which is only traced.
CommitFailed ==
    /\ At("callback")
    /\ CommitMayFail
    /\ failed' = failed \cup {Top.obj}
    /\ Replace([Top EXCEPT !.pc = "applied"])
    /\ UNCHANGED <<recVars, arrVars, session, dbSession, committing, compVars, asked, outcome>>

\* The callback returns; the loop goes on over the arrays as they are now.
CommitReturns ==
    /\ At("applied")
    /\ committing' = committing \ {Top.obj}
    /\ Replace([Top EXCEPT !.pc = "commit", !.i = @ + 1, !.obj = NoValue])
    /\ UNCHANGED <<recVars, arrVars, session, dbSession, compVars, asked, failed, outcome>>

\* Mutant: the loop over the objects stops one short.
FinishCommit_StopsShort ==
    /\ At("commit") /\ Top.i >= Len(objArray)
    /\ temp' = Overwrite(temp, ToSet(varArray), Nothing)
    /\ alreadySet' = alreadySet \ ToSet(varArray)
    /\ ResetObjVarArray(Len(calls) - 1)
    /\ Return("success")
    /\ Leave({}, {})
    /\ Clear(ToSet(varArray) \cap ParamsIn(ToSet(objArray) \ (failed \cup committing)))
    /\ UNCHANGED <<userChanged, session, dbSession, committing, compVars, failed>>

\* CommitChange of every listed VarRecord; the arrays are freed.
FinishCommit ==
    /\ At("commit") /\ Top.i > Len(objArray)
    /\ temp' = Overwrite(temp, ToSet(varArray), Nothing)
    /\ alreadySet' = alreadySet \ ToSet(varArray)
    /\ ResetObjVarArray(Len(calls) - 1)
    /\ Return("success")
    /\ Leave({}, {})
    /\ Clear(ToSet(varArray) \cap ParamsIn(ToSet(objArray) \ (failed \cup committing)))
    /\ UNCHANGED <<userChanged, session, dbSession, committing, compVars, failed>>

-----------------------------------------------------------------------------
Call ==
    \/ \E s \in Sessions : SessionSignal(s)
    \/ \E s \in Sessions, w \in Writers, req \in Requests, c \in CommitFlags :
          SetParameterValues(s, w, req, c)
    \/ \E s \in Sessions : SetCommit(s) \/ SetRollback(s)

Next ==
    \/ Call
    \/ StageRefused \/ StageDenied \/ StageAbandoned \/ Stage \/ NotifyRefused \/ Enlist \/ Staged
    \/ VerifyChanges \/ VerifyRefused \/ LeavePending \/ BeginCommit
    \/ CommitChanges \/ CommitApplied \/ CommitFailed \/ CommitReturns \/ FinishCommit

Spec == Init /\ [][Next]_vars

-----------------------------------------------------------------------------
\* The bookkeeping that rollback and commit rest on, with every kind of call
\* coming in at every place:
\* the listed objects are exactly those of the listed VarRecords, each once
\* (as long as both arrays have room);
\* a VarRecord marked as handed to the component has a staged value, so that
\* no mark is left that would make the next set stop short of the component;
\* bCommitting is set exactly for the objects whose Commit callback is on the
\* stack, and no callback is entered twice.
Bookkeeping ==
    /\ Len(varArray) < MaxVars /\ Len(objArray) < MaxObjs =>
          /\ ToSet(objArray) = {ObjOf[p] : p \in ToSet(varArray)}
          /\ \A m, n \in DOMAIN objArray : objArray[m] = objArray[n] => m = n
    /\ \A p \in alreadySet : temp[p] # NoValue
    /\ committing = {f.obj : f \in ToSet(calls)} \ {NoValue}
    /\ \A m, n \in DOMAIN calls : calls[m].obj = calls[n].obj /\ calls[m].obj # NoValue => m = n

\* When no call runs and no set is pending, the VarRecords with a staged value
\* or a mark are those in `left`, no more and no fewer: CancelChange and
\* CommitChange reach everything TstValue has touched, and whatever the next
\* set starts from, these exits account for it:
\* the writer is denied, or the notification refused, after TstValue; EXIT0;
\* a refusal before the call has listed anything, which drops the arrays of a
\* pending set; a failing SetCommit, which is ignored; a VarRecord that finds
\* no room in its array.
RecordsClean ==
    calls = <<>> /\ varArray = <<>> =>
        left = {p \in Params : temp[p] # NoValue} /\ alreadySet \subseteq left

\* At those moments, besides, the component's working copy is what it has
\* applied: nothing half-set waits for somebody else's commit.  Excepted are
\* objects whose Commit has failed, and the ones a call has spoilt: by the
\* exits of RecordsClean, by the error exit of an SNMP writer, who is not
\* rolled back, or by cancelling a VarRecord whose object found no room.
WorkClean ==
    /\ RecordsClean
    /\ calls = <<>> /\ varArray = <<>> =>
          \A p \in Params : ObjOf[p] \in failed \cup spoilt \/ work[p] = live[p]

\* A value that takes effect was accepted by some set and not cancelled since
\* (EXIT2: "Rollback any changes we may have made").
NothingUnasked ==
    [][\A p \in Params : live'[p] # live[p] => live'[p] \in asked[p]]_vars

\* The same of the objects no call has spoilt: none but the exits that WorkClean
\* names let a value slip into the commit of another set.
UnaskedOnlyIfSpoilt ==
    [][\A p \in Params :
          live'[p] # live[p] => live'[p] \in asked[p] \/ ObjOf[p] \in spoilt]_vars

\* The value a request gives a parameter: its last one.
Given(req, p) == req[CHOOSE n \in DOMAIN req :
                        req[n][1] = p /\ \A m \in DOMAIN req : req[m][1] = p => m <= n][2]

\* Whenever a set with bCommit returns success, by whatever exit, it has
\* applied every value it was given, unless the component's Commit has failed
\* or the object is spoilt: also by a value that was staged over the mark of a
\* pending set, and so never handed over, by EXIT0 and by the ignored failure
\* of SetCommit, after which success means nothing.
AppliedOnSuccess ==
    [][calls # <<>> /\ Len(calls') < Len(calls)
         /\ Top.op = "set" /\ Top.commit /\ status' = "success" =>
         \A n \in DOMAIN Top.req :
            LET p == Top.req[n][1]
            IN ObjOf[p] \in failed \cup spoilt' \/ live'[p] = Given(Top.req, p)]_vars
=============================================================================
